-------------------------- MODULE MCAttachCallers --------------------------
(***************************************************************************)
(* Instances of Attach for TLC whose callers are not careful: their spec   *)
(* IDs start at 0, or one caller is given the IDs that another one deletes *)
(* again later.  Neither is CarefulCallers.                                *)
(***************************************************************************)
EXTENDS Attach, TLC

CONSTANTS s1, s2, e1, e2

arg == [kind |-> "args", cnt |-> 1]
OneOrTwo == {1, 2}

\* The first probe gets the first spec ID, the second one has no arguments.
OneProbeBare == s1 :> <<arg, [kind |-> "empty", cnt |-> 0]>>
FromZero     == s1 :> 0
NoCookies    == s1 :> <<>>

\* Two callers of one range.
OneProbeEach  == (s1 :> <<arg>>) @@ (s2 :> <<arg>>)
FromOne       == (s1 :> 1) @@ (s2 :> 1)
NoCookiesEach == (s1 :> <<>>) @@ (s2 :> <<>>)
=============================================================================
