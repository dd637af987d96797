---------------------------- MODULE ProbeService ----------------------------
(***************************************************************************)
(* What the library promises to its callers, without spec IDs, cookies or  *)
(* a map: a probe is off, on, being stopped, or done.  While it is on, any *)
(* CPU may hit it; the program that runs then sees the user cookie of the  *)
(* probe and, if the caller asked for arguments, exactly those of the      *)
(* probe it was attached to.  A probe is done only when its last program   *)
(* has ended.                                                              *)
(*                                                                         *)
(* Where stopping a probe has failed the promise ends: the probe is broken *)
(* and its programs may be given anything.                                 *)
(***************************************************************************)
EXTENDS Naturals

CONSTANTS
  Points,   \* the probes
  ArgCnt,   \* number of arguments of each probe
  Tag,      \* user cookie of each probe
  CPUs,
  NArgs,    \* number of arguments a program fetches
  Idle, Nothing

VARIABLES
  phase,    \* of each probe
  args,     \* probes whose programs are given arguments and user cookie
  tag,      \* user cookie the programs of each probe see
  broken,   \* probes that could not be stopped
  on,       \* the probe whose program runs on a CPU, or Idle
  next,     \* the argument that program is given next
  got       \* what it was given: pairs of a number and whose argument it is

vars == <<phase, args, tag, broken, on, next, got>>

Init ==
  /\ phase = [p \in Points |-> "off"]
  /\ args = {} /\ broken = {}
  /\ tag = [p \in Points |-> 0]
  /\ on = [c \in CPUs |-> Idle]
  /\ next = [c \in CPUs |-> 0]
  /\ got = [c \in CPUs |-> {}]

\* The probe is attached, with or without arguments.
Enable(p) ==
  /\ phase[p] = "off"
  /\ phase' = [phase EXCEPT ![p] = "on"]
  /\ \/ args' = args \cup {p} /\ tag' = [tag EXCEPT ![p] = Tag[p]]
     \/ UNCHANGED <<args, tag>>
  /\ UNCHANGED <<broken, on, next, got>>

Hit(c, p) ==
  /\ on[c] = Idle /\ phase[p] = "on"
  /\ on' = [on EXCEPT ![c] = p]
  /\ next' = [next EXCEPT ![c] = 0]
  /\ got' = [got EXCEPT ![c] = {}]
  /\ UNCHANGED <<phase, args, tag, broken>>

\* What the n-th fetch of a program on p must return.
Promised(p, n) == IF p \in args /\ n < ArgCnt[p] THEN p ELSE Nothing

Give(c) ==
  /\ on[c] # Idle /\ next[c] < NArgs
  /\ \E a \in Points \cup {Nothing} :
       /\ on[c] \notin broken => a = Promised(on[c], next[c])
       /\ got' = [got EXCEPT ![c] = got[c] \cup {<<next[c], a>>}]
  /\ next' = [next EXCEPT ![c] = next[c] + 1]
  /\ UNCHANGED <<phase, args, tag, broken, on>>

Finish(c) ==
  /\ on[c] # Idle /\ next[c] = NArgs
  /\ on' = [on EXCEPT ![c] = Idle]
  /\ got' = [got EXCEPT ![c] = {}]
  /\ UNCHANGED <<phase, args, tag, broken, next>>

Stop(p) ==
  /\ phase[p] = "on"
  /\ phase' = [phase EXCEPT ![p] = "stopping"]
  /\ UNCHANGED <<args, tag, broken, on, next, got>>

Stopped(p) ==
  /\ phase[p] = "stopping" /\ \A c \in CPUs : on[c] # p
  /\ phase' = [phase EXCEPT ![p] = "done"]
  /\ UNCHANGED <<args, tag, broken, on, next, got>>

Break(p) ==
  /\ phase[p] \in {"stopping", "done"} /\ \A c \in CPUs : on[c] # p
  /\ \/ phase' = [phase EXCEPT ![p] = "done"]
     \/ phase[p] = "stopping" /\ phase' = [phase EXCEPT ![p] = "on"]
  /\ broken' = broken \cup {p}
  /\ UNCHANGED <<args, tag, on, next, got>>

Next ==
  \/ \E p \in Points : Enable(p) \/ Stop(p) \/ Stopped(p) \/ Break(p)
  \/ \E c \in CPUs : Give(c) \/ Finish(c) \/ \E p \in Points : Hit(c, p)

Spec == Init /\ [][Next]_vars
=============================================================================
