---------------------------- MODULE AttachService ---------------------------
(***************************************************************************)
(* The attachment pipeline implements ProbeService.                        *)
(***************************************************************************)
EXTENDS Attach

\* The phase of a probe is the state of its link; the map, the spec IDs and the
\* calls in progress have no counterpart.
PhaseOf(l) ==
  CASE l = "none" -> "off"
    [] l = "attached" -> "on"
    [] l = "closing" -> "stopping"
    [] l = "closed" -> "done"

\* The user cookie of a probe, as far as it fits a cookie's low half.
TagOf(p) ==
  LET us == UserCookies[p[1]] IN IF p[2] <= Len(us) THEN us[p[2]] % U32 ELSE 0

Service == INSTANCE ProbeService WITH
  Points <- Uprobe,
  ArgCnt <- [p \in Uprobe |-> IF HasSpec(p) THEN Args(p).cnt ELSE 0],
  Tag    <- [p \in Uprobe |-> TagOf(p)],
  Nothing <- Miss,
  phase  <- [p \in Uprobe |-> PhaseOf(link[p])],
  args   <- {p \in Uprobe : link[p] # "none" /\ merged[p[1]]},
  tag    <- [p \in Uprobe |-> UserCookie(cookie[p])],
  broken <- tainted,
  next   <- argNum,
  got    <- seen

\* Whatever the callers, the kernel and the programs do, and in whatever order
\* their map and link operations interleave, a program sees what ProbeService
\* promises: the store-attach-close-delete order of attach.go and the two halves
\* of a cookie make the spec map invisible.
ImplementsService == Service!Spec
=============================================================================
