------------------------------ MODULE MCAttach ------------------------------
(***************************************************************************)
(* Instances of Attach for TLC.                                            *)
(***************************************************************************)
EXTENDS AttachService, TLC

CONSTANTS s1, s2, e1, e2, e3

none  == [kind |-> "empty", cnt |-> 0]
bad   == [kind |-> "bad", cnt |-> 0]
arg(n) == [kind |-> "args", cnt |-> n]

\* Two callers, one after the other, that use the same range of spec IDs.
ReuseProbes == (s1 :> <<arg(1), bad>>) @@ (s2 :> <<none, arg(2)>>)
ReuseStart  == (s1 :> 1) @@ (s2 :> 1)

\* Two callers at the same time with disjoint ranges; the map has room for two
\* of their three specs.
DisjointProbes == (s1 :> <<arg(1)>>) @@ (s2 :> <<arg(2), arg(1)>>)
DisjointStart  == (s1 :> 1) @@ (s2 :> 2)

\* User cookies: one wider than 32 bits, one slice longer than the probes.
WideCookies == (s1 :> <<U32 + 3>>) @@ (s2 :> <<5, 2 * U32 + 1, 7>>)

\* One caller, whose two programs run on two CPUs.
LiveProbes  == (s1 :> <<arg(1), none>>)
LiveStart   == (s1 :> 1)
LiveCookies == (s1 :> <<>>)

OneOrTwo == {1, 2}
Symmetry == Permutations(Slots)

\* The premise of the theorems, evaluated on every instance above.
ASSUME CarefulInstance == CarefulCallers
=============================================================================
