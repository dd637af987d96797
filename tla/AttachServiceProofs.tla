------------------------ MODULE AttachServiceProofs -------------------------
(***************************************************************************)
(* Proof that the attachment pipeline implements ProbeService, on top of   *)
(* the inductive invariant of AttachProofs.                                *)
(***************************************************************************)
EXTENDS AttachService, AttachProofs

-----------------------------------------------------------------------------
(***************************************************************************)
(* The low half of a cookie.                                               *)
(***************************************************************************)
\* What MergeCookies leaves in the low half is what __bpf_usdt_cookie returns.
LEMMA LowHalf ==
  ASSUME NEW id \in Nat, NEW u \in 0..(U32 - 1)
  PROVE  (id * U32 + u) % U32 = u
<1>1. U32 \in Nat /\ U32 > 0 /\ u \in Nat /\ u < U32
  BY StartIDType
<1> DEFINE n == id * U32 + u
<1>2. n \in Nat /\ id * U32 \in Nat
  BY <1>1
<1>3. n \div U32 = id
  BY <1>1, <1>2
<1>4. n = U32 * (n \div U32) + (n % U32)
  BY <1>1, <1>2
<1>5. U32 * id = id * U32
  BY <1>1
<1> QED BY <1>1, <1>2, <1>3, <1>4, <1>5

\* The low half of the cookie of a link is the probe's user cookie, or 0 when
\* AttachUprobes gets no cookies.
LEMMA TagOfProbe ==
  ASSUME specIDs \in [Uprobe -> Id], merged \in [Sessions -> BOOLEAN],
         NEW s \in Sessions, NEW j \in 1..Last(s)
  PROVE  UserCookie(OptCookie(s, j)) = IF merged[s] THEN TagOf(<<s, j>>) ELSE 0
<1> DEFINE ids == [i \in 1..Last(s) |-> specIDs[<<s, i>>]]
           us == UserCookies[s]
           n == IF Len(us) > Len(ids) THEN Len(us) ELSE Len(ids)
           Hi(i) == IF i <= Len(ids) THEN ids[i] * U32 ELSE 0
           Lo(i) == IF i <= Len(us) THEN us[i] % U32 ELSE 0
           ck == [i \in 1..n |-> Hi(i) + Lo(i)]
<1>1. U32 \in Nat \ {0} /\ Id \subseteq Nat /\ Last(s) \in Nat /\ us \in Seq(Nat)
  BY StartIDType, UserCookiesType, UprobeElements DEF Id
<1>2. \A i \in 1..Last(s) : specIDs[<<s, i>>] \in Nat
  BY <1>1, UprobeElements
<1>3. ids \in [1..Last(s) -> Nat]
  BY <1>2
<1>4. ids \in Seq(Nat) /\ Len(ids) = Last(s)
  <2> HIDE DEF ids
  <2> QED BY <1>1, <1>3
<1> HIDE DEF ids
<1>5. Len(us) \in Nat /\ n \in Nat /\ j \in 1..n
  BY <1>1, <1>4
<1>6. \A i \in 1..n : Hi(i) \in Nat /\ Lo(i) \in 0..(U32 - 1)
  <2> SUFFICES ASSUME NEW i \in 1..n PROVE Hi(i) \in Nat /\ Lo(i) \in 0..(U32 - 1)
    OBVIOUS
  <2>1. i <= Len(ids) => ids[i] \in Nat
    BY <1>4, <1>5
  <2>2. i <= Len(us) => us[i] \in Nat
    BY <1>1, <1>5
  <2>3. Lo(i) \in 0..(U32 - 1)
    BY <1>1, <2>2
  <2>4. Hi(i) \in Nat
    BY <1>1, <2>1
  <2> QED BY <2>3, <2>4
<1>7. CASE ~merged[s]
  <2>1. Len(Cookies(s)) = 0
    BY <1>7 DEF Cookies
  <2>2. OptCookie(s, j) = 0
    BY <1>1, <2>1 DEF OptCookie
  <2> QED BY <1>1, <1>7, <2>2 DEF UserCookie
<1>8. CASE merged[s]
  <2>1. Cookies(s) = ck
    BY <1>8 DEF Cookies, MergeCookies, ids
  <2>2. Hi(j) = ids[j] * U32 /\ ids[j] \in Nat
    BY <1>3, <1>4
  <2>3. Lo(j) = TagOf(<<s, j>>)
    BY DEF TagOf
  <2> HIDE DEF n, Hi, Lo
  <2>4. \A i \in 1..n : Hi(i) + Lo(i) \in Nat
    BY <1>1, <1>6
  <2>5. Len(ck) = n /\ ck[j] = Hi(j) + Lo(j)
    BY <1>5, <2>4
  <2>6. OptCookie(s, j) = ids[j] * U32 + Lo(j)
    BY <1>5, <2>1, <2>2, <2>5 DEF OptCookie
  <2> QED BY <1>5, <1>6, <1>8, <2>2, <2>3, <2>6, LowHalf DEF UserCookie
<1> QED BY <1>7, <1>8

-----------------------------------------------------------------------------
(***************************************************************************)
(* The rest of the inductive invariant that the refinement needs.          *)
(***************************************************************************)
\* Only a probe whose arguments parsed gets a spec ID.
IDsParsed == \A p \in Uprobe : specIDs[p] # 0 => HasSpec(p)

\* A program that holds an element runs on a link with merged cookies.
HoldsMerged ==
  \A c \in CPUs : on[c] \notin tainted /\ ptr[c] # NoSlot => merged[on[c][1]]

\* A link that does not exist yet has no cookie.
NoCookieYet == \A p \in Uprobe : link[p] = "none" => cookie[p] = 0

RefInv == IDsParsed /\ HoldsMerged /\ NoCookieYet

\* Before any call there are no IDs, no programs and no cookies.
LEMMA RefInvInit == Init => RefInv
BY DEF Init, RefInv, IDsParsed, HoldsMerged, NoCookieYet

\* PopulateSpecMap gives an ID only to a probe whose arguments it has parsed.
LEMMA IDsParsedStep ==
  ASSUME TypeOK, IDsParsed, [Next]_vars
  PROVE  IDsParsed'
<1>1. ASSUME NEW s \in Sessions, PopulatePut(s) PROVE IDsParsed'
  <2>1. HasSpec(<<s, loop[s]>>) /\ specIDs' = [specIDs EXCEPT ![<<s, loop[s]>>] = nextID[s]]
    BY <1>1 DEF PopulatePut
  <2> QED BY <2>1 DEF TypeOK, IDsParsed, HasSpec, Args
<1>2. ASSUME NEW s \in Sessions, PopulatePutFails(s) PROVE IDsParsed'
  <2>1. specIDs' = [p \in Uprobe |-> IF p[1] = s THEN 0 ELSE specIDs[p]]
    BY <1>2 DEF PopulatePutFails
  <2> QED BY <2>1 DEF IDsParsed, HasSpec, Args
<1>3. CASE UNCHANGED specIDs
  BY <1>3 DEF IDsParsed, HasSpec, Args
<1> QED
  BY <1>1, <1>2, <1>3
  DEF Next, LibraryStep, CallerStep, ProgramStep, PopulateSkip, PopulateReturns, AttachOne,
      AttachFails, AttachReturns, CloseBegin, CloseEnd, CloseFails, UndoReturns, LinksClosed,
      DeleteSkip, DeleteOne, DeleteFails, UnloadReturns, CallPopulate, CallAttach,
      AdoptSpecIDs, CallClose, ArgLookup, ArgMiss, ArgRead, Return, Fire, vars, sessionVars

\* A lookup succeeds only with a spec ID in the cookie, and no call changes the
\* cookies of a session whose programs run.
LEMMA HoldsMergedStep ==
  ASSUME CarefulCallers, StaticInv, HoldsMerged, [Next]_vars
  PROVE  HoldsMerged'
<1> SUFFICES ASSUME NEW c \in CPUs, on'[c] \notin tainted', ptr'[c] # NoSlot
             PROVE  merged'[on'[c][1]]
  BY DEF HoldsMerged
<1> USE DEF StaticInv, TypeInv
<1>0. ptr[c] # NoSlot => on[c] # Idle /\ argNum[c] < NArgs
  BY DEF MidFetch
<1>1. CASE \E s \in Sessions : LibraryStep(s) \/ CallerStep(s)
  <2>1. UNCHANGED <<on, ptr>> /\ tainted \subseteq tainted'
    BY <1>1, ProgramFrame
  <2>2. on[c] # Idle /\ on[c] \notin tainted /\ merged[on[c][1]]
    BY <1>0, <2>1 DEF HoldsMerged
  <2> QED BY <1>1, <2>1, <2>2, ProgramFrame
<1>2. ASSUME NEW d \in CPUs, ArgLookup(d) PROVE merged'[on'[c][1]]
  <2>1. UNCHANGED <<on, merged, tainted>>
    BY <1>2 DEF ArgLookup, sessionVars, linkVars
  <2>2. CASE c = d
    <3>1. on[c] # Idle /\ Found(c)
      BY <1>2, <2>2 DEF ArgLookup
    <3>2. PICK s \in Sessions : \E j \in 1..Last(s) :
            /\ on[c] = <<s, j>>
            /\ SpecID(cookie[on[c]]) = IF merged[s] THEN specIDs[on[c]] ELSE 0
      BY <2>1, <3>1, Running
    <3>3. SpecID(cookie[on[c]]) # 0
      BY <2>1, <3>1, FoundOwn
    <3> QED BY <2>1, <3>2, <3>3
  <2>3. CASE c # d
    <3>1. ptr'[c] = ptr[c]
      BY <1>2, <2>3 DEF ArgLookup, TypeOK
    <3> QED BY <2>1, <3>1 DEF HoldsMerged
  <2> QED BY <2>2, <2>3
<1>3. CASE \/ \E d \in CPUs : ArgMiss(d) \/ ArgRead(d) \/ Return(d)
           \/ \E d \in CPUs : \E p \in Uprobe : Fire(d, p)
  <2>1. UNCHANGED <<merged, tainted>>
    BY <1>3 DEF ArgMiss, ArgRead, Return, Fire, sessionVars, linkVars
  <2>2. ptr'[c] = ptr[c] /\ on'[c] = on[c]
    BY <1>0, <1>3, BoundsType DEF ArgMiss, ArgRead, Return, Fire, TypeOK
  <2> QED BY <2>1, <2>2 DEF HoldsMerged
<1>4. CASE UNCHANGED vars
  BY <1>4 DEF HoldsMerged, vars, sessionVars, linkVars, bpfVars
<1> QED BY <1>1, <1>2, <1>3, <1>4 DEF Next, ProgramStep

\* A link gets its cookie when it is made, and is never unmade.
LEMMA NoCookieYetStep ==
  ASSUME TypeOK, NoCookieYet, [Next]_vars
  PROVE  NoCookieYet'
<1>1. ASSUME NEW s \in Sessions, AttachOne(s) PROVE NoCookieYet'
  BY <1>1 DEF AttachOne, NoCookieYet, TypeOK
<1>2. ASSUME NEW s \in Sessions, CloseBegin(s) \/ CloseEnd(s) \/ CloseFails(s)
      PROVE  NoCookieYet'
  <2>1. PICK l \in {"attached", "closing", "closed"} :
          link' = [link EXCEPT ![<<s, loop[s]>>] = l]
    BY <1>2 DEF CloseBegin, CloseEnd, CloseFails
  <2>2. UNCHANGED cookie
    BY <1>2 DEF CloseBegin, CloseEnd, CloseFails
  <2> QED BY <2>1, <2>2 DEF NoCookieYet, TypeOK
<1>3. CASE UNCHANGED <<link, cookie>>
  BY <1>3 DEF NoCookieYet
<1> QED
  BY <1>1, <1>2, <1>3
  DEF Next, LibraryStep, CallerStep, ProgramStep, PopulateSkip, PopulatePut, PopulatePutFails,
      PopulateReturns, AttachFails, AttachReturns, UndoReturns, LinksClosed, DeleteSkip,
      DeleteOne, DeleteFails, UnloadReturns, CallPopulate, CallAttach, AdoptSpecIDs,
      CallClose, ArgLookup, ArgMiss, ArgRead, Return, Fire, vars, linkVars

\* Every step preserves what the refinement needs.
LEMMA RefInvStep == CarefulCallers /\ IInv /\ RefInv /\ [Next]_vars => RefInv'
BY IDsParsedStep, HoldsMergedStep, NoCookieYetStep DEF IInv, StaticInv, TypeInv, RefInv

-----------------------------------------------------------------------------
(***************************************************************************)
(* The refinement: the initial state, then every step.                     *)
(***************************************************************************)
\* The states of a link in the words of the service.
LEMMA PhaseValues ==
  /\ PhaseOf("none") = "off" /\ PhaseOf("attached") = "on"
  /\ PhaseOf("closing") = "stopping" /\ PhaseOf("closed") = "done"
BY DEF PhaseOf

\* A step that changes one link changes the phase of its probe only.
LEMMA PhaseChange ==
  ASSUME TypeOK, NEW p \in Uprobe, NEW l, link' = [link EXCEPT ![p] = l]
  PROVE  [q \in Uprobe |-> PhaseOf(link[q])]'
           = [[q \in Uprobe |-> PhaseOf(link[q])] EXCEPT ![p] = PhaseOf(l)]
<1>1. [q \in Uprobe |-> PhaseOf(link[q])]' = [q \in Uprobe |-> PhaseOf(link'[q])]
  BY DEF PhaseOf
<1>2. \A q \in Uprobe : link'[q] = IF q = p THEN l ELSE link[q]
  BY DEF TypeOK
<1>3. \A q \in Uprobe :
        PhaseOf(link'[q]) = IF q = p THEN PhaseOf(l) ELSE PhaseOf(link[q])
  BY <1>2
<1>4. [q \in Uprobe |-> PhaseOf(link'[q])]
        = [q \in Uprobe |-> IF q = p THEN PhaseOf(l) ELSE PhaseOf(link[q])]
  BY <1>3
<1> QED BY <1>1, <1>4

\* Before any call every probe is off.
LEMMA RefInit == Init => Service!Init
<1> SUFFICES ASSUME Init PROVE Service!Init
  OBVIOUS
<1>1. \A p \in Uprobe : link[p] = "none" /\ cookie[p] = 0
  BY DEF Init
<1>2. 0 % U32 = 0
  BY StartIDType
<1>3. [p \in Uprobe |-> PhaseOf(link[p])] = [p \in Uprobe |-> "off"]
  BY <1>1, PhaseValues
<1>4. {p \in Uprobe : link[p] # "none" /\ merged[p[1]]} = {}
  BY <1>1
<1>5. [p \in Uprobe |-> UserCookie(cookie[p])] = [p \in Uprobe |-> 0]
  BY <1>1, <1>2 DEF UserCookie
<1> QED BY <1>3, <1>4, <1>5 DEF Init, Service!Init

\* Making a link enables the probe, with the arguments and the user cookie if the
\* caller merged the cookies.
LEMMA RefAttachOne ==
  ASSUME IInv, RefInv, NEW s \in Sessions, AttachOne(s)
  PROVE  \E p \in Uprobe : Service!Enable(p)
<1> USE DEF IInv, StaticInv, TypeInv
<1>0. PICK j \in 1..Last(s) : j = loop[s]
  BY UprobeElements DEF AttachOne, TypeOK
<1> DEFINE p == <<s, j>>
<1>1. /\ pc[s] = "attach" /\ loop[s] = j /\ p \in Uprobe
      /\ link' = [link EXCEPT ![p] = "attached"]
      /\ cookie' = [cookie EXCEPT ![p] = OptCookie(s, j)]
      /\ UNCHANGED <<merged, tainted, on, argNum, seen>>
  BY <1>0, UprobeElements DEF AttachOne, bpfVars
<1>2. link[p] = "none" /\ cookie[p] = 0
  <2>1. link[p] = "none"
    BY <1>1 DEF LinkInv, LinkPrefix, TypeOK
  <2> QED BY <1>1, <2>1 DEF RefInv, NoCookieYet
<1>3. UserCookie(OptCookie(s, j)) = IF merged[s] THEN TagOf(p) ELSE 0
  BY <1>1, TagOfProbe DEF TypeOK
<1>4. UserCookie(0) = 0
  BY StartIDType DEF UserCookie
<1>5. /\ \A q \in Uprobe : link'[q] = IF q = p THEN "attached" ELSE link[q]
      /\ \A q \in Uprobe : cookie'[q] = IF q = p THEN OptCookie(s, j) ELSE cookie[q]
  BY <1>1 DEF TypeOK
<1> DEFINE phase == [q \in Uprobe |-> PhaseOf(link[q])]
           args == {q \in Uprobe : link[q] # "none" /\ merged[q[1]]}
           tag == [q \in Uprobe |-> UserCookie(cookie[q])]
           Tag == [q \in Uprobe |-> TagOf(q)]
<1>6. phase[p] = "off" /\ phase' = [phase EXCEPT ![p] = "on"]
  <2>1. phase' = [phase EXCEPT ![p] = PhaseOf("attached")]
    BY <1>1, PhaseChange
  <2> QED BY <1>1, <1>2, <2>1, PhaseValues
<1>7. tag' = [q \in Uprobe |-> UserCookie(cookie'[q])]
  BY DEF UserCookie
<1>8. CASE merged[s]
  <2>1. args' = args \cup {p}
    BY <1>1, <1>5, <1>8
  <2>2. \A q \in Uprobe :
          UserCookie(cookie'[q]) = IF q = p THEN Tag[p] ELSE UserCookie(cookie[q])
    BY <1>1, <1>3, <1>5, <1>8
  <2>3. tag' = [tag EXCEPT ![p] = Tag[p]]
    BY <1>7, <2>2
  <2>4. Service!Enable(p)
    BY <1>1, <1>6, <2>1, <2>3 DEF Service!Enable
  <2> QED BY <1>1, <2>4
<1>9. CASE ~merged[s]
  <2>1. args' = args
    BY <1>1, <1>2, <1>5, <1>9
  <2>2. tag' = tag
    BY <1>2, <1>3, <1>4, <1>5, <1>9, <1>7
  <2>3. Service!Enable(p)
    BY <1>1, <1>6, <2>1, <2>2 DEF Service!Enable
  <2> QED BY <1>1, <2>3
<1> QED BY <1>8, <1>9

\* A step that leaves the links that exist, their cookies, the programs and the
\* cookies' origin alone is invisible to the service.
LEMMA RefStutter ==
  ASSUME UNCHANGED <<link, cookie, tainted, on, argNum, seen>>,
         \A p \in Uprobe : link[p] # "none" => merged'[p[1]] = merged[p[1]]
  PROVE  UNCHANGED Service!vars
<1>1. [p \in Uprobe |-> PhaseOf(link[p])]' = [p \in Uprobe |-> PhaseOf(link[p])]
  BY DEF PhaseOf
<1>2. {p \in Uprobe : link[p] # "none" /\ merged[p[1]]}'
        = {p \in Uprobe : link[p] # "none" /\ merged[p[1]]}
  OBVIOUS
<1>3. [p \in Uprobe |-> UserCookie(cookie[p])]' = [p \in Uprobe |-> UserCookie(cookie[p])]
  BY DEF UserCookie
<1> QED BY <1>1, <1>2, <1>3 DEF Service!vars

\* A step that only changes the state of an existing link leaves the arguments and
\* the user cookies of the service alone.
LEMMA RefLinkFrame ==
  ASSUME TypeOK, NEW p \in Uprobe, link[p] # "none", NEW l, l # "none",
         link' = [link EXCEPT ![p] = l], UNCHANGED <<merged, cookie>>
  PROVE  /\ {q \in Uprobe : link[q] # "none" /\ merged[q[1]]}'
              = {q \in Uprobe : link[q] # "none" /\ merged[q[1]]}
         /\ [q \in Uprobe |-> UserCookie(cookie[q])]'
              = [q \in Uprobe |-> UserCookie(cookie[q])]
<1>1. \A q \in Uprobe : link'[q] # "none" <=> link[q] # "none"
  BY DEF TypeOK
<1>2. [q \in Uprobe |-> UserCookie(cookie[q])]' = [q \in Uprobe |-> UserCookie(cookie[q])]
  BY DEF UserCookie
<1> QED BY <1>1, <1>2

\* The steps of closing a link stop the probe, end it or break it.  Closing a link
\* that is closed already is invisible.
LEMMA RefClose ==
  ASSUME TypeOK, NEW s \in Sessions, CloseBegin(s) \/ CloseEnd(s) \/ CloseFails(s)
  PROVE  \/ \E p \in Uprobe : Service!Stop(p) \/ Service!Stopped(p) \/ Service!Break(p)
         \/ UNCHANGED Service!vars
<1>0. PICK j \in 1..Last(s) : j = loop[s]
  BY UprobeElements DEF CloseBegin, CloseEnd, CloseFails, InLinks, TypeOK
<1> DEFINE p == <<s, j>>
           phase == [q \in Uprobe |-> PhaseOf(link[q])]
           args == {q \in Uprobe : link[q] # "none" /\ merged[q[1]]}
           tag == [q \in Uprobe |-> UserCookie(cookie[q])]
<1>1. /\ p \in Uprobe /\ link[p] # "none"
      /\ UNCHANGED <<merged, cookie, on, argNum, seen>>
  BY <1>0, UprobeElements
  DEF CloseBegin, CloseEnd, CloseFails, InLinks, sessionVars, bpfVars
<1>2. phase[p] = PhaseOf(link[p])
  BY <1>1
<1>3. ASSUME NEW l \in {"attached", "closing", "closed"}, link' = [link EXCEPT ![p] = l]
      PROVE  phase' = [phase EXCEPT ![p] = PhaseOf(l)] /\ args' = args /\ tag' = tag
  BY <1>1, <1>3, PhaseChange, RefLinkFrame
<1>4. CASE CloseBegin(s)
  <2>1. link[p] = "attached" /\ link' = [link EXCEPT ![p] = "closing"] /\ tainted' = tainted
    BY <1>0, <1>4 DEF CloseBegin
  <2>2. phase[p] = "on" /\ phase' = [phase EXCEPT ![p] = "stopping"] /\ args' = args /\ tag' = tag
    BY <1>2, <1>3, <2>1, PhaseValues
  <2> HIDE DEF p
  <2>3. Service!Stop(p)
    BY <1>1, <2>1, <2>2 DEF Service!Stop
  <2> QED BY <1>1, <2>3
<1>5. CASE CloseEnd(s)
  <2>1. /\ link[p] \in {"closing", "closed"} /\ link' = [link EXCEPT ![p] = "closed"]
        /\ \A c \in CPUs : on[c] # p
        /\ tainted' = tainted
    BY <1>0, <1>5 DEF CloseEnd
  <2>2. phase' = [phase EXCEPT ![p] = "done"] /\ args' = args /\ tag' = tag
    BY <1>3, <2>1, PhaseValues
  <2>3. CASE link[p] = "closing"
    <3>1. phase[p] = "stopping"
      BY <1>2, <2>3, PhaseValues
    <3> HIDE DEF p
    <3>2. Service!Stopped(p)
      BY <1>1, <2>1, <2>2, <3>1 DEF Service!Stopped
    <3> QED BY <1>1, <3>2
  <2>4. CASE link[p] = "closed"
    <3>1. link' = link
      BY <1>1, <2>1, <2>4 DEF TypeOK
    <3> QED BY <1>1, <2>1, <3>1, RefStutter
  <2> QED BY <2>1, <2>3, <2>4
<1>6. CASE CloseFails(s)
  <2>1. /\ link[p] \in {"closing", "closed"} /\ \A c \in CPUs : on[c] # p
        /\ tainted' = tainted \cup {p}
    BY <1>0, <1>6 DEF CloseFails
  <2>2. PICK l \in {"attached", "closed"} :
          (link[p] = "closed" => l = "closed") /\ link' = [link EXCEPT ![p] = l]
    BY <1>0, <1>6 DEF CloseFails
  <2>3. phase[p] \in {"stopping", "done"} /\ (l = "attached" => phase[p] = "stopping")
    BY <1>2, <2>1, <2>2, PhaseValues
  <2>4. phase' = [phase EXCEPT ![p] = PhaseOf(l)] /\ args' = args /\ tag' = tag
    BY <1>3, <2>2
  <2>5. \/ phase' = [phase EXCEPT ![p] = "done"]
        \/ phase[p] = "stopping" /\ phase' = [phase EXCEPT ![p] = "on"]
    BY <2>2, <2>3, <2>4, PhaseValues
  <2> HIDE DEF p
  <2>6. Service!Break(p)
    BY <1>1, <2>1, <2>3, <2>4, <2>5 DEF Service!Break
  <2> QED BY <1>1, <2>6
<1> QED BY <1>4, <1>5, <1>6

\* Whatever a fetch returns is what the service gives, or the link is broken: the
\* lookup misses only where nothing was promised, and the element that is read is
\* the probe's own.
LEMMA RefFetch ==
  ASSUME CarefulCallers, IInv, RefInv, NEW c \in CPUs, ArgMiss(c) \/ ArgRead(c)
  PROVE  Service!Give(c)
<1> DEFINE p == on[c]
           n == argNum[c]
           cnt == [q \in Uprobe |-> IF HasSpec(q) THEN Args(q).cnt ELSE 0]
           args == {q \in Uprobe : link[q] # "none" /\ merged[q[1]]}
           Due == IF p \in args /\ n < cnt[p] THEN p ELSE Miss
<1> USE DEF IInv, StaticInv, TypeInv
<1>1. /\ p \in Uprobe /\ p # Idle /\ n < NArgs
      /\ argNum' = [argNum EXCEPT ![c] = n + 1]
      /\ UNCHANGED <<mapVars, sessionVars, linkVars, on>>
  BY Sentinels DEF ArgMiss, ArgRead, TypeOK, MidFetch
<1>2. UNCHANGED <<link, merged, cookie, tainted, on>>
  BY <1>1 DEF sessionVars, linkVars
<1>3. cnt[p] = IF HasSpec(p) THEN Args(p).cnt ELSE 0
  BY <1>1
<1>4. ASSUME p \notin tainted
      PROVE  \E s \in Sessions : \E j \in 1..Last(s) :
               /\ p = <<s, j>> /\ Holding(s) /\ specIDs[p] \in Id
               /\ SpecID(cookie[p]) = IF merged[s] THEN specIDs[p] ELSE 0
               /\ HasSpec(p) => specIDs[p] # 0
  BY <1>1, <1>4, Running
<1>5. CASE ArgMiss(c)
  <2>1. ~Found(c) /\ seen' = [seen EXCEPT ![c] = seen[c] \cup {<<n, Miss>>}]
    BY <1>5 DEF ArgMiss
  <2>2. ASSUME p \notin tainted, HasSpec(p), merged[p[1]] PROVE FALSE
    <3>1. PICK s \in Sessions : \E j \in 1..Last(s) :
            /\ p = <<s, j>> /\ Holding(s) /\ specIDs[p] \in Id /\ specIDs[p] # 0
            /\ SpecID(cookie[p]) = IF merged[s] THEN specIDs[p] ELSE 0
      BY <1>4, <2>2
    <3>2. SpecID(cookie[p]) = specIDs[p] /\ specIDs[p] >= 0
      BY <2>2, <3>1 DEF Id
    <3>3. elem[specIDs[p]] # NoSlot
      BY <3>1 DEF MapInv, Stored
    <3> QED BY <2>1, <3>2, <3>3 DEF Found
  <2>3. p \notin tainted => Due = Miss
    <3>1. ~HasSpec(p) => ~(n < cnt[p])
      BY <1>1, <1>3 DEF TypeOK
    <3> QED BY <2>2, <3>1
  <2> HIDE DEF cnt, args
  <2> QED BY <1>1, <1>2, <2>1, <2>3 DEF Service!Give, Service!Promised, cnt, args
<1>6. CASE ArgRead(c)
  <2> DEFINE spec == value[ptr[c]]
             res == IF n < Args(spec).cnt THEN spec ELSE Miss
  <2>1. /\ ptr[c] # NoSlot /\ ptr[c] \in Slots
        /\ seen' = [seen EXCEPT ![c] = seen[c] \cup {<<n, res>>}]
    BY <1>6 DEF ArgRead, TypeOK
  <2>2. spec \in Uprobe \cup {Miss}
    BY <2>1 DEF TypeOK
  <2>3. ASSUME p \notin tainted PROVE spec = p /\ HasSpec(p) /\ p \in args
    <3>1. specIDs[p] # 0 /\ ptr[c] = elem[specIDs[p]]
      BY <2>1, <2>3 DEF HoldsOwn
    <3>2. PICK s \in Sessions : \E j \in 1..Last(s) : p = <<s, j>> /\ Holding(s)
      BY <1>4, <2>3
    <3>3. spec = p
      BY <2>1, <3>1, <3>2, HoldingUnsettled DEF MapInv, OwnEntry
    <3>4. HasSpec(p)
      BY <1>1, <3>1 DEF RefInv, IDsParsed
    <3>5. merged[p[1]]
      BY <2>1, <2>3 DEF RefInv, HoldsMerged
    <3>6. link[p] # "none"
      BY <1>1 DEF LinkInv, RunsOnLive, Live
    <3> QED BY <1>1, <3>3, <3>4, <3>5, <3>6
  <2> HIDE DEF spec
  <2>4. p \notin tainted => Due = res
    BY <1>3, <2>3
  <2>5. res \in Uprobe \cup {Miss}
    BY <2>2
  <2> HIDE DEF cnt, args, res
  <2> QED BY <1>1, <1>2, <2>1, <2>4, <2>5 DEF Service!Give, Service!Promised, cnt, args
<1> QED BY <1>5, <1>6

\* A hit of a probe and the end of a program are those of the service.
LEMMA RefProgram ==
  ASSUME TypeOK, NEW c \in CPUs
  PROVE  /\ \A p \in Uprobe : Fire(c, p) => Service!Hit(c, p)
         /\ Return(c) => Service!Finish(c)
<1>1. ASSUME UNCHANGED <<sessionVars, linkVars>>
      PROVE  /\ [p \in Uprobe |-> PhaseOf(link[p])]' = [p \in Uprobe |-> PhaseOf(link[p])]
             /\ {p \in Uprobe : link[p] # "none" /\ merged[p[1]]}'
                  = {p \in Uprobe : link[p] # "none" /\ merged[p[1]]}
             /\ [p \in Uprobe |-> UserCookie(cookie[p])]'
                  = [p \in Uprobe |-> UserCookie(cookie[p])]
  BY <1>1 DEF sessionVars, linkVars, PhaseOf, UserCookie
<1>2. ASSUME NEW p \in Uprobe, Fire(c, p) PROVE Service!Hit(c, p)
  <2>1. [q \in Uprobe |-> PhaseOf(link[q])][p] = "on"
    BY <1>2, PhaseValues DEF Fire
  <2>2. UNCHANGED <<sessionVars, linkVars>> /\ tainted' = tainted
    BY <1>2 DEF Fire, linkVars
  <2> QED BY <1>1, <1>2, <2>1, <2>2 DEF Fire, Service!Hit
<1>3. ASSUME Return(c) PROVE Service!Finish(c)
  <2>1. UNCHANGED <<sessionVars, linkVars>> /\ tainted' = tainted
    BY <1>3 DEF Return, linkVars
  <2> QED BY <1>1, <1>3, <2>1 DEF Return, Service!Finish
<1> QED BY <1>2, <1>3

\* Every step of the pipeline is a step of the service or invisible to it.
LEMMA RefStep ==
  CarefulCallers /\ IInv /\ RefInv /\ [Next]_vars => [Service!Next]_(Service!vars)
<1> SUFFICES ASSUME CarefulCallers, IInv, RefInv, [Next]_vars
             PROVE  Service!Next \/ UNCHANGED Service!vars
  OBVIOUS
<1>0. TypeOK /\ LinkInv
  BY DEF IInv, StaticInv, TypeInv
<1>1. ASSUME NEW s \in Sessions, AttachOne(s) PROVE Service!Next
  BY <1>1, RefAttachOne DEF Service!Next
<1>2. ASSUME NEW s \in Sessions, CloseBegin(s) \/ CloseEnd(s) \/ CloseFails(s)
      PROVE  Service!Next \/ UNCHANGED Service!vars
  BY <1>0, <1>2, RefClose DEF Service!Next
<1>3. ASSUME NEW c \in CPUs, ArgMiss(c) \/ ArgRead(c) PROVE Service!Next
  BY <1>3, RefFetch DEF Service!Next
<1>4. ASSUME NEW c \in CPUs, Return(c) \/ \E p \in Uprobe : Fire(c, p) PROVE Service!Next
  BY <1>0, <1>4, RefProgram DEF Service!Next
<1>5. ASSUME NEW s \in Sessions, CallAttach(s) PROVE UNCHANGED Service!vars
  <2>1. /\ pc[s] = "populated" /\ UNCHANGED <<link, cookie, tainted, on, argNum, seen>>
        /\ \E m \in BOOLEAN : merged' = [merged EXCEPT ![s] = m]
    BY <1>5 DEF CallAttach, linkVars, bpfVars
  <2>2. \A p \in Uprobe : link[p] # "none" => p[1] # s /\ p[1] \in Sessions
    BY <1>0, <2>1, UprobeElements DEF LinkInv, LinkPrefix
  <2>3. \A p \in Uprobe : link[p] # "none" => merged'[p[1]] = merged[p[1]]
    BY <1>0, <2>1, <2>2 DEF TypeOK
  <2> QED BY <2>1, <2>3, RefStutter
<1>6. CASE UNCHANGED <<link, cookie, tainted, merged, on, argNum, seen>>
  BY <1>6, RefStutter
<1> QED
  BY <1>1, <1>2, <1>3, <1>4, <1>5, <1>6
  DEF Next, LibraryStep, CallerStep, ProgramStep, PopulateSkip, PopulatePut, PopulatePutFails,
      PopulateReturns, AttachFails, AttachReturns, UndoReturns, LinksClosed, DeleteSkip,
      DeleteOne, DeleteFails, UnloadReturns, CallPopulate, AdoptSpecIDs, CallClose, ArgLookup,
      vars, sessionVars, linkVars, bpfVars

\* The pipeline implements ProbeService for any number of sessions, probes and
\* CPUs: with spec IDs in the range callers are told to use, nothing of the spec
\* map, the ranges of IDs or the cookie's halves shows in what a program sees.
THEOREM ImplementsServiceHolds == CarefulCallers /\ Spec => ImplementsService
<1>1. CarefulCallers => CarefulCallers'
  BY DEF CarefulCallers, SaneStartIDs
<1>2. CarefulCallers /\ Spec => []RefInv
  BY <1>1, RefInvInit, RefInvStep, IInvariant, PTL DEF Spec
<1>3. CarefulCallers /\ Spec => [][Service!Next]_(Service!vars)
  BY <1>1, <1>2, RefStep, IInvariant, PTL DEF Spec
<1> QED BY <1>3, RefInit, PTL DEF Spec, ImplementsService, Service!Spec
=============================================================================
