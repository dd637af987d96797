---------------------------- MODULE AttachProofs ----------------------------
(***************************************************************************)
(* Proofs about the attachment pipeline, for any number of sessions,       *)
(* probes, CPUs and arguments, any map size and any width of a uint32.     *)
(***************************************************************************)
EXTENDS Attach, TLAPS

-----------------------------------------------------------------------------
(***************************************************************************)
(* Facts about the constants and the operators.                            *)
(***************************************************************************)
\* The probes are the pairs of a session and an index into its probe slice.
LEMMA UprobeElements ==
  /\ \A s \in Sessions : Last(s) \in Nat
  /\ \A s \in Sessions : \A j \in 1..Last(s) : <<s, j>> \in Uprobe
  /\ \A p \in Uprobe : \E s \in Sessions : \E j \in 1..Last(s) : p = <<s, j>>
<1>1. \A s \in Sessions : Last(s) \in Nat
  BY ProbesType DEF Last
<1>2. \A s \in Sessions : \A j \in 1..Last(s) : <<s, j>> \in Uprobe
  BY DEF Uprobe, Last
<1>3. \A p \in Uprobe : \E s \in Sessions : \E j \in 1..Last(s) : p = <<s, j>>
  BY DEF Uprobe, Last
<1> QED BY <1>1, <1>2, <1>3

\* A half of a cookie survives the merge: MergeCookies puts the spec ID where
\* __bpf_usdt_spec_id reads it, and the sum fits a uint64.
LEMMA HighHalf ==
  ASSUME NEW id \in Id, NEW u \in 0..(U32 - 1)
  PROVE  /\ id * U32 + u \in 0..(U32 * U32 - 1)
         /\ (id * U32 + u) \div U32 = id
<1> DEFINE n == id * U32 + u
<1>1. U32 \in Nat /\ U32 > 0 /\ id \in Nat /\ u \in Nat /\ id <= U32 - 1 /\ u <= U32 - 1
  BY StartIDType DEF Id
<1>2. id * U32 \in Nat /\ n \in Nat
  BY <1>1
<1>3. id * U32 <= (U32 - 1) * U32
  BY <1>1
<1>4. (U32 - 1) * U32 = U32 * U32 - U32
  BY <1>1
<1>5. n <= U32 * U32 - 1
  BY <1>1, <1>2, <1>3, <1>4
<1>6. n \div U32 = id
  BY <1>1, <1>2
<1> QED BY <1>2, <1>5, <1>6

\* Unless it is negative, the spec ID of a cookie is a key of the spec map.
LEMMA SpecIDRange ==
  ASSUME NEW ck \in 0..(U32 * U32 - 1), SpecID(ck) >= 0
  PROVE  SpecID(ck) \in Id /\ SpecID(ck) = ck \div U32
<1> DEFINE q == ck \div U32
<1>1. U32 \in Nat /\ U32 > 0 /\ ck \in Nat /\ ck < U32 * U32
  BY StartIDType
<1>2. q \in Nat /\ q * U32 <= ck
  BY <1>1
<1>3. q < U32
  BY <1>1, <1>2
<1>4. SpecID(ck) = IF q < U32 \div 2 THEN q ELSE q - U32
  BY DEF SpecID
<1> HIDE DEF q
<1>5. SpecID(ck) = q
  BY <1>1, <1>2, <1>3, <1>4
<1> QED BY <1>1, <1>2, <1>3, <1>5 DEF Id, q

\* MergeCookies yields a cookie for every probe; its high half is the spec ID
\* and what the user cookie contributes stays below it.
LEMMA MergedCookie ==
  ASSUME NEW ids \in Seq(Id), NEW us \in Seq(Nat), NEW j \in 1..Len(ids)
  PROVE  /\ j <= Len(MergeCookies(ids, us))
         /\ \E u \in 0..(U32 - 1) : MergeCookies(ids, us)[j] = ids[j] * U32 + u
<1> DEFINE n == IF Len(us) > Len(ids) THEN Len(us) ELSE Len(ids)
           Hi(i) == IF i <= Len(ids) THEN ids[i] * U32 ELSE 0
           Lo(i) == IF i <= Len(us) THEN us[i] % U32 ELSE 0
           ck == [i \in 1..n |-> Hi(i) + Lo(i)]
<1>1. U32 \in Nat \ {0} /\ Id \subseteq Nat
  BY StartIDType DEF Id
<1>2. Len(ids) \in Nat /\ Len(us) \in Nat /\ n \in Nat /\ j \in 1..n
  OBVIOUS
<1>3. MergeCookies(ids, us) = ck
  BY DEF MergeCookies
<1>4. ASSUME NEW i \in 1..n
      PROVE  Hi(i) \in Nat /\ Lo(i) \in 0..(U32 - 1)
  <2>1. CASE i <= Len(ids)
    <3>1. ids[i] \in Id
      BY <1>2, <2>1
    <3>2. ids[i] \in Nat
      BY <3>1, <1>1
    <3> QED BY <3>2, <1>1, <2>1
  <2>2. i <= Len(us) => us[i] \in Nat
    BY <1>2
  <2>3. Lo(i) \in 0..(U32 - 1)
    BY <2>2, <1>1
  <2>4. Hi(i) \in Nat
    BY <2>1
  <2> QED BY <2>3, <2>4
<1>5. Hi(j) = ids[j] * U32
  BY <1>2
<1> HIDE DEF n, Hi, Lo
<1>6. \A i \in 1..n : Hi(i) + Lo(i) \in Nat
  BY <1>1, <1>4
<1>7. Len(ck) = n /\ ck[j] = Hi(j) + Lo(j)
  BY <1>2, <1>6
<1> QED BY <1>2, <1>3, <1>4, <1>5, <1>7

\* The cookie a link gets is a uint64 whose high half is the spec ID of its
\* probe, or 0 when AttachUprobes gets no cookies.
LEMMA CookieOfProbe ==
  ASSUME specIDs \in [Uprobe -> Id], merged \in [Sessions -> BOOLEAN],
         NEW s \in Sessions, NEW j \in 1..Last(s)
  PROVE  /\ OptCookie(s, j) \in 0..(U32 * U32 - 1)
         /\ OptCookie(s, j) \div U32 = IF merged[s] THEN specIDs[<<s, j>>] ELSE 0
<1> DEFINE ids == [i \in 1..Last(s) |-> specIDs[<<s, i>>]]
<1>1. Last(s) \in Nat /\ \A i \in 1..Last(s) : <<s, i>> \in Uprobe
  BY UprobeElements
<1>2. ids \in Seq(Id) /\ Len(ids) = Last(s) /\ ids[j] = specIDs[<<s, j>>]
  <2>1. \A i \in 1..Last(s) : specIDs[<<s, i>>] \in Id
    BY <1>1
  <2>2. ids \in [1..Last(s) -> Id] /\ ids[j] = specIDs[<<s, j>>]
    BY <2>1
  <2> HIDE DEF ids
  <2>3. ids \in Seq(Id)
    BY <2>2, <1>1
  <2>4. Len(ids) = Last(s)
    BY <2>2, <2>3, <1>1
  <2> QED BY <2>2, <2>3, <2>4
<1>3. UserCookies[s] \in Seq(Nat)
  BY UserCookiesType
<1>4. specIDs[<<s, j>>] \in Id
  BY <1>1
<1>5. CASE ~merged[s]
  <2>1. 0 \in Id /\ 0 \in 0..(U32 - 1) /\ 0 * U32 + 0 = 0
    BY StartIDType DEF Id
  <2>2. Len(Cookies(s)) = 0
    BY <1>5 DEF Cookies
  <2>3. OptCookie(s, j) = 0
    BY <2>2, <1>1 DEF OptCookie
  <2> QED BY <2>1, <2>3, <1>5, HighHalf
<1>6. CASE merged[s]
  <2> HIDE DEF ids
  <2>1. Cookies(s) = MergeCookies(ids, UserCookies[s])
    BY <1>6 DEF Cookies, ids
  <2>2. PICK u \in 0..(U32 - 1) :
          Cookies(s)[j] = specIDs[<<s, j>>] * U32 + u /\ j <= Len(Cookies(s))
    BY <2>1, <1>2, <1>3, MergedCookie
  <2>3. OptCookie(s, j) = specIDs[<<s, j>>] * U32 + u
    BY <2>2 DEF OptCookie
  <2> QED BY <2>3, <1>4, <1>6, HighHalf
<1> QED BY <1>5, <1>6

-----------------------------------------------------------------------------
(***************************************************************************)
(* Type correctness.  The type invariant is inductive together with the    *)
(* fact that a program that holds an element is in the middle of a fetch.  *)
(***************************************************************************)
MidFetch ==
  \A c \in CPUs : ptr[c] # NoSlot => on[c] # Idle /\ argNum[c] < NArgs

TypeInv == TypeOK /\ MidFetch

\* The variables have their types before any call.
LEMMA TypeInit == Init => TypeInv
<1> SUFFICES ASSUME Init PROVE TypeInv
  OBVIOUS
<1>1. 0 \in Id /\ 0 \in 0..(U32 * U32 - 1)
  BY StartIDType DEF Id
<1>2. TypeOK
  BY <1>1, BoundsType DEF Init, TypeOK
<1>3. MidFetch
  BY DEF Init, MidFetch
<1> QED BY <1>2, <1>3 DEF TypeInv

\* Every step of a call, of the caller or of a program keeps the types.
LEMMA TypeStep == TypeInv /\ [Next]_vars => TypeInv'
<1> SUFFICES ASSUME TypeInv, [Next]_vars
             PROVE  TypeInv'
  OBVIOUS
<1> USE UprobeElements, StartIDType, BoundsType DEF TypeInv, TypeOK, MidFetch,
      Goto, Advance, Restart, mapVars, sessionVars, linkVars, bpfVars
<1>1. ASSUME NEW s \in Sessions, PopulateSkip(s) PROVE TypeInv'
  BY <1>1 DEF PopulateSkip
<1>2. ASSUME NEW s \in Sessions, PopulatePut(s) PROVE TypeInv'
  <2> DEFINE p == <<s, loop[s]>>
  <2>1. p \in Uprobe /\ nextID[s] \in Id /\ (nextID[s] + 1) % U32 \in Id
    BY <1>2 DEF PopulatePut, Id
  <2>2. PICK e \in Slots : /\ elem' = [elem EXCEPT ![nextID[s]] = e]
                           /\ value' = [value EXCEPT ![e] = p]
    BY <1>2 DEF PopulatePut, MapPut, FreeSlots
  <2> QED BY <1>2, <2>1, <2>2 DEF PopulatePut
<1>3. ASSUME NEW s \in Sessions, PopulatePutFails(s) PROVE TypeInv'
  <2>1. 0 \in Id
    BY DEF Id
  <2>2. specIDs' \in [Uprobe -> Id]
    BY <1>3, <2>1 DEF PopulatePutFails
  <2> QED BY <1>3, <2>2 DEF PopulatePutFails
<1>4. ASSUME NEW s \in Sessions, PopulateReturns(s) PROVE TypeInv'
  BY <1>4 DEF PopulateReturns
<1>5. ASSUME NEW s \in Sessions, AttachOne(s) PROVE TypeInv'
  BY <1>5, CookieOfProbe DEF AttachOne
<1>6. ASSUME NEW s \in Sessions, AttachFails(s) PROVE TypeInv'
  BY <1>6 DEF AttachFails
<1>7. ASSUME NEW s \in Sessions, AttachReturns(s) PROVE TypeInv'
  BY <1>7 DEF AttachReturns
<1>8. ASSUME NEW s \in Sessions, CloseBegin(s) PROVE TypeInv'
  BY <1>8 DEF CloseBegin, InLinks
<1>9. ASSUME NEW s \in Sessions, CloseEnd(s) PROVE TypeInv'
  BY <1>9 DEF CloseEnd, InLinks
<1>10. ASSUME NEW s \in Sessions, CloseFails(s) PROVE TypeInv'
  BY <1>10 DEF CloseFails, InLinks
<1>11. ASSUME NEW s \in Sessions, UndoReturns(s) PROVE TypeInv'
  BY <1>11 DEF UndoReturns
<1>12. ASSUME NEW s \in Sessions, LinksClosed(s) PROVE TypeInv'
  BY <1>12 DEF LinksClosed
<1>13. ASSUME NEW s \in Sessions, DeleteSkip(s) PROVE TypeInv'
  BY <1>13 DEF DeleteSkip
<1>14. ASSUME NEW s \in Sessions, DeleteOne(s) PROVE TypeInv'
  <2>1. specIDs[<<s, loop[s]>>] \in Id
    BY <1>14 DEF DeleteOne, InSpecIDs
  <2> QED BY <1>14, <2>1 DEF DeleteOne, MapDelete
<1>15. ASSUME NEW s \in Sessions, DeleteFails(s) PROVE TypeInv'
  BY <1>15 DEF DeleteFails
<1>16. ASSUME NEW s \in Sessions, UnloadReturns(s) PROVE TypeInv'
  BY <1>16 DEF UnloadReturns
<1>17. ASSUME NEW s \in Sessions, CallPopulate(s) PROVE TypeInv'
  BY <1>17 DEF CallPopulate, Id
<1>18. ASSUME NEW s \in Sessions, CallAttach(s) PROVE TypeInv'
  BY <1>18 DEF CallAttach
<1>19. ASSUME NEW s \in Sessions, AdoptSpecIDs(s) PROVE TypeInv'
  BY <1>19 DEF AdoptSpecIDs
<1>20. ASSUME NEW s \in Sessions, CallClose(s) PROVE TypeInv'
  BY <1>20 DEF CallClose
<1>21. ASSUME NEW c \in CPUs, ArgLookup(c) PROVE TypeInv'
  <2>1. on[c] \in Uprobe
    BY <1>21 DEF ArgLookup
  <2>2. SpecID(cookie[on[c]]) \in Id
    BY <1>21, <2>1, SpecIDRange DEF ArgLookup, Found
  <2> QED BY <1>21, <2>1, <2>2 DEF ArgLookup
<1>22. ASSUME NEW c \in CPUs, ArgMiss(c) PROVE TypeInv'
  BY <1>22 DEF ArgMiss
<1>23. ASSUME NEW c \in CPUs, ArgRead(c) PROVE TypeInv'
  BY <1>23 DEF ArgRead
<1>24. ASSUME NEW c \in CPUs, Return(c) PROVE TypeInv'
  BY <1>24 DEF Return
<1>25. ASSUME NEW c \in CPUs, NEW p \in Uprobe, Fire(c, p) PROVE TypeInv'
  BY <1>25 DEF Fire
<1>26. CASE UNCHANGED vars
  BY <1>26 DEF vars
<1> QED
  BY <1>1, <1>2, <1>3, <1>4, <1>5, <1>6, <1>7, <1>8, <1>9, <1>10, <1>11, <1>12, <1>13, <1>14, <1>15, <1>16, <1>17, <1>18, <1>19, <1>20, <1>21, <1>22, <1>23, <1>24, <1>25, <1>26
  DEF Next, LibraryStep, CallerStep, ProgramStep

\* Every reachable state of the pipeline and the BPF programs is well typed;
\* cookies fit a uint64 and spec IDs a uint32 whatever the user cookies are.
THEOREM TypeCorrect == Spec => []TypeOK
<1>1. Spec => []TypeInv
  BY TypeInit, TypeStep, PTL DEF Spec
<1>2. TypeInv => TypeOK
  BY DEF TypeInv
<1> QED BY <1>1, <1>2, PTL

-----------------------------------------------------------------------------
(***************************************************************************)
(* The inductive invariant behind OwnSpec and Delivered, in four parts.    *)
(***************************************************************************)
\* The spec IDs PopulateSpecMap hands out: they lie in the session's range, grow
\* with the probe's index, and only probes without a spec have 0.
IDRange(s) ==
  /\ pc[s] = "populate" =>
       StartID[s] <= nextID[s] /\ nextID[s] < StartID[s] + loop[s]
  /\ \A j \in 1..Last(s) : specIDs[<<s, j>>] # 0 =>
       /\ StartID[s] <= specIDs[<<s, j>>]
       /\ specIDs[<<s, j>>] < StartID[s] + j
       /\ pc[s] = "populate" => j < loop[s] /\ specIDs[<<s, j>>] < nextID[s]

IDUnique(s) ==
  \A i, j \in 1..Last(s) :
    specIDs[<<s, i>>] # 0 /\ specIDs[<<s, i>>] = specIDs[<<s, j>>] => i = j

IDAssigned(s) ==
  /\ pc[s] = "idle" => \A j \in 1..Last(s) : specIDs[<<s, j>>] = 0
  /\ pc[s] \notin {"idle", "failed"} =>
       \A j \in 1..Last(s) :
         HasSpec(<<s, j>>) /\ (pc[s] = "populate" => j < loop[s])
           => specIDs[<<s, j>>] # 0

IDInv == \A s \in Sessions : IDRange(s) /\ IDUnique(s) /\ IDAssigned(s)

\* Links exist for the probes AttachUprobes has reached, a prefix of the slice,
\* and a link that is not closed (and never failed to close) belongs to a
\* session that has still to close it for the first time.
Live == {"attached", "closing"}

LinkPrefix(s) ==
  /\ pc[s] \in {"idle", "populate", "populated"} =>
       \A j \in 1..Last(s) : link[<<s, j>>] = "none"
  /\ pc[s] = "attach" => \A j \in 1..Last(s) : link[<<s, j>>] = "none" <=> j >= loop[s]
  /\ pc[s] \in {"attached", "unload", "delete", "closed"} =>
       \A j \in 1..Last(s) : link[<<s, j>>] # "none"
  /\ \A i, j \in 1..Last(s) :
       i < j /\ link[<<s, i>>] = "none" => link[<<s, j>>] = "none"

CloseCount(s) ==
  IF pc[s] \in {"unload", "delete", "closed"} THEN closes[s] >= 1 ELSE closes[s] = 0

StillOpen(s, j) ==
  \/ pc[s] \in {"attach", "attached"}
  \/ pc[s] = "undo" /\ loop[s] <= j
  \/ pc[s] = "unload" /\ closes[s] = 1 /\ loop[s] <= j

LiveLinks(s) ==
  \A j \in 1..Last(s) :
    <<s, j>> \notin tainted /\ link[<<s, j>>] \in Live => StillOpen(s, j)

RunsOnLive == \A c \in CPUs : on[c] # Idle => link[on[c]] \in Live

LinkInv ==
  /\ \A s \in Sessions : LinkPrefix(s) /\ CloseCount(s) /\ LiveLinks(s)
  /\ RunsOnLive

\* The entry of a spec ID belongs to the session that uses the ID, and it is in
\* the map until the first Close of that session has closed its links.
Holding(s) ==
  \/ pc[s] \in {"populate", "populated", "attach", "undo", "attached"}
  \/ pc[s] = "unload" /\ closes[s] = 1

RangesDisjoint ==
  \A s, t \in Sessions : s # t /\ Overlap(s, t) => Settled(s) \/ Settled(t)

OwnEntry(s) ==
  \A j \in 1..Last(s) :
    ~Settled(s) /\ specIDs[<<s, j>>] # 0 /\ elem[specIDs[<<s, j>>]] # NoSlot
      => value[elem[specIDs[<<s, j>>]]] = <<s, j>>

Stored(s) ==
  Holding(s) => \A j \in 1..Last(s) :
    specIDs[<<s, j>>] # 0 => elem[specIDs[<<s, j>>]] # NoSlot

MapInv ==
  /\ elem[0] = NoSlot
  /\ RangesDisjoint
  /\ \A s \in Sessions : OwnEntry(s) /\ Stored(s)

\* The cookie of a link carries the probe's spec ID, and the element a program
\* holds is the one of that ID.
CookieInv ==
  \A s \in Sessions : \A j \in 1..Last(s) : link[<<s, j>>] # "none" =>
    cookie[<<s, j>>] \div U32 = IF merged[s] THEN specIDs[<<s, j>>] ELSE 0

HoldsOwn ==
  \A c \in CPUs : on[c] \notin tainted /\ ptr[c] # NoSlot =>
    specIDs[on[c]] # 0 /\ ptr[c] = elem[specIDs[on[c]]]

-----------------------------------------------------------------------------
(***************************************************************************)
(* The spec IDs.                                                           *)
(***************************************************************************)
\* A step that leaves the IDs alone, and moves a session neither into nor
\* within PopulateSpecMap, preserves IDInv.
LEMMA IDFrame ==
  ASSUME TypeOK, TypeOK', IDInv, UNCHANGED <<nextID, specIDs>>,
         NEW s \in Sessions,
         \A t \in Sessions \ {s} : pc'[t] = pc[t] /\ loop'[t] = loop[t],
         \/ pc'[s] = pc[s] /\ loop'[s] = loop[s]
         \/ pc[s] \notin {"idle", "failed", "populate"} /\ pc'[s] \notin {"idle", "populate"}
         \/ pc[s] = "populate" /\ loop[s] > Last(s) /\ pc'[s] \notin {"idle", "populate"}
  PROVE  IDInv'
<1> SUFFICES ASSUME NEW t \in Sessions
             PROVE  (IDRange(t) /\ IDUnique(t) /\ IDAssigned(t))'
  BY DEF IDInv
<1>1. IDRange(t) /\ IDUnique(t) /\ IDAssigned(t)
  BY DEF IDInv
<1>2. CASE pc'[t] = pc[t] /\ loop'[t] = loop[t]
  BY <1>1, <1>2 DEF IDRange, IDUnique, IDAssigned, HasSpec, Args
<1>3. CASE /\ pc[t] \notin {"idle", "failed"}
           /\ pc[t] = "populate" => loop[t] > Last(t)
           /\ pc'[t] \notin {"idle", "populate"}
  <2>1. loop[t] \in Nat /\ Last(t) \in Nat
    BY UprobeElements DEF TypeOK
  <2> QED BY <1>1, <1>3, <2>1 DEF IDRange, IDUnique, IDAssigned, HasSpec, Args
<1> QED BY <1>2, <1>3

\* Before PopulateSpecMap runs no spec ID is assigned.
LEMMA IDInit == Init => IDInv
BY UprobeElements DEF Init, IDInv, IDRange, IDUnique, IDAssigned

\* PopulateSpecMap assigns IDs of the session's range, each one once; no other
\* step assigns one.
LEMMA IDStep ==
  CarefulCallers /\ TypeInv /\ TypeInv' /\ IDInv /\ [Next]_vars => IDInv'
<1> SUFFICES ASSUME CarefulCallers, TypeInv, TypeInv', IDInv, [Next]_vars
             PROVE  IDInv'
  OBVIOUS
<1> USE DEF TypeInv
<1>1. ASSUME NEW s \in Sessions, CallPopulate(s) PROVE IDInv'
  <2> SUFFICES ASSUME NEW t \in Sessions
               PROVE  (IDRange(t) /\ IDUnique(t) /\ IDAssigned(t))'
    BY DEF IDInv
  <2>1. IDRange(t) /\ IDUnique(t) /\ IDAssigned(t)
    BY DEF IDInv
  <2>2. StartID[s] \in Nat
    BY StartIDType
  <2> QED BY <1>1, <2>1, <2>2
          DEF CallPopulate, Goto, Restart, TypeOK, IDRange, IDUnique, IDAssigned, HasSpec, Args
<1>2. ASSUME NEW s \in Sessions, PopulateSkip(s) PROVE IDInv'
  <2> SUFFICES ASSUME NEW t \in Sessions
               PROVE  (IDRange(t) /\ IDUnique(t) /\ IDAssigned(t))'
    BY DEF IDInv
  <2>1. IDRange(t) /\ IDUnique(t) /\ IDAssigned(t)
    BY DEF IDInv
  <2>2. loop[t] \in Nat /\ StartID[t] \in Nat /\ nextID[t] \in Nat
    BY StartIDType DEF TypeOK, Id
  <2>3. loop' = [loop EXCEPT ![s] = loop[s] + 1] /\ UNCHANGED <<pc, nextID, specIDs>>
    BY <1>2 DEF PopulateSkip, Advance
  <2>4. IDRange(t)' /\ IDUnique(t)'
    BY <2>1, <2>2, <2>3 DEF TypeOK, IDRange, IDUnique
  <2>5. IDAssigned(t)'
    <3>1. pc[s] = "populate" /\ ~HasSpec(<<s, loop[s]>>)
      BY <1>2 DEF PopulateSkip
    <3>2. loop'[t] = IF t = s THEN loop[t] + 1 ELSE loop[t]
      BY <2>3 DEF TypeOK
    <3>3. ASSUME NEW j \in 1..Last(t), HasSpec(<<t, j>>),
                 pc[t] \notin {"idle", "failed"}, pc[t] = "populate" => j < loop'[t]
          PROVE  specIDs[<<t, j>>] # 0
      <4>1. t = s => j # loop[t]
        BY <3>1, <3>3
      <4>2. pc[t] = "populate" => j < loop[t]
        BY <3>2, <3>3, <4>1, <2>2
      <4> QED BY <2>1, <3>3, <4>2 DEF IDAssigned
    <3> QED BY <2>1, <2>3, <3>3 DEF IDAssigned, HasSpec, Args
  <2> QED BY <2>4, <2>5
<1>3. ASSUME NEW s \in Sessions, PopulatePut(s) PROVE IDInv'
  <2> SUFFICES ASSUME NEW t \in Sessions
               PROVE  (IDRange(t) /\ IDUnique(t) /\ IDAssigned(t))'
    BY DEF IDInv
  <2>1. IDRange(t) /\ IDUnique(t) /\ IDAssigned(t) /\ IDRange(s)
    BY DEF IDInv
  <2>2. /\ loop[t] \in Nat /\ StartID[t] \in Nat /\ nextID[t] \in Nat
        /\ loop[s] \in 1..Last(s) /\ Last(s) \in Nat /\ <<s, loop[s]>> \in Uprobe
    <3>1. loop[t] \in Nat /\ loop[s] \in Nat \ {0} /\ StartID[t] \in Nat /\ nextID[t] \in Nat
      BY StartIDType DEF TypeOK, Id
    <3>2. Last(s) \in Nat /\ loop[s] \in 1..Last(s)
      BY <1>3, <3>1, UprobeElements DEF PopulatePut
    <3> QED BY <3>1, <3>2, UprobeElements
  <2>3. /\ loop' = [loop EXCEPT ![s] = loop[s] + 1] /\ UNCHANGED pc
        /\ specIDs' = [specIDs EXCEPT ![<<s, loop[s]>>] = nextID[s]]
        /\ pc[s] = "populate"
    BY <1>3 DEF PopulatePut, Advance
  <2>4. nextID[s] >= 1 /\ nextID[s] + 1 < U32
    <3>1. StartID[s] >= 1 /\ StartID[s] + Last(s) <= U32 \div 2
      BY DEF CarefulCallers, SaneStartIDs
    <3>2. U32 \in Nat \ {0} /\ StartID[s] \in Nat /\ nextID[s] \in Nat
      BY StartIDType DEF TypeOK, Id
    <3> QED BY <2>1, <2>2, <2>3, <3>1, <3>2 DEF IDRange
  <2>5. nextID' = [nextID EXCEPT ![s] = nextID[s] + 1]
    <3>1. U32 \in Nat \ {0} /\ nextID[s] \in Nat
      BY StartIDType DEF TypeOK, Id
    <3>2. (nextID[s] + 1) % U32 = nextID[s] + 1
      BY <2>4, <3>1
    <3> QED BY <1>3, <3>2 DEF PopulatePut
  <2>6. CASE t # s
    <3>1. \A j \in 1..Last(t) : specIDs'[<<t, j>>] = specIDs[<<t, j>>]
      BY <2>3, <2>6, UprobeElements DEF TypeOK
    <3> QED BY <2>1, <2>3, <2>5, <2>6, <3>1
            DEF TypeOK, IDRange, IDUnique, IDAssigned, HasSpec, Args
  <2>7. CASE t = s
    <3>1. ASSUME NEW j \in 1..Last(s)
          PROVE  /\ specIDs[<<s, j>>] \in Nat
                 /\ specIDs'[<<s, j>>] = IF j = loop[s] THEN nextID[s]
                                        ELSE specIDs[<<s, j>>]
      <4>1. <<s, j>> \in Uprobe
        BY UprobeElements
      <4>2. specIDs[<<s, j>>] \in Nat
        BY <4>1 DEF TypeOK, Id
      <4>3. <<s, j>> = <<s, loop[s]>> <=> j = loop[s]
        OBVIOUS
      <4> QED BY <2>3, <4>1, <4>2, <4>3 DEF TypeOK
    <3>2. loop'[s] = loop[s] + 1 /\ nextID'[s] = nextID[s] + 1
      BY <2>3, <2>5 DEF TypeOK
    <3>3. IDRange(s)'
      BY <2>1, <2>2, <2>3, <2>7, <3>1, <3>2 DEF IDRange
    <3>4. IDUnique(s)'
      BY <2>1, <2>2, <2>3, <2>7, <3>1 DEF IDRange, IDUnique
    <3>5. IDAssigned(s)'
      BY <2>1, <2>2, <2>3, <2>4, <2>7, <3>1, <3>2 DEF IDAssigned, HasSpec, Args
    <3> QED BY <2>7, <3>3, <3>4, <3>5
  <2> QED BY <2>6, <2>7
<1>4. ASSUME NEW s \in Sessions, PopulatePutFails(s) PROVE IDInv'
  <2> SUFFICES ASSUME NEW t \in Sessions
               PROVE  (IDRange(t) /\ IDUnique(t) /\ IDAssigned(t))'
    BY DEF IDInv
  <2>1. IDRange(t) /\ IDUnique(t) /\ IDAssigned(t)
    BY DEF IDInv
  <2>2. \A j \in 1..Last(t) :
          specIDs'[<<t, j>>] = IF t = s THEN 0 ELSE specIDs[<<t, j>>]
    BY <1>4, UprobeElements DEF PopulatePutFails
  <2>3. pc' = [pc EXCEPT ![s] = "failed"] /\ UNCHANGED <<loop, nextID>>
    BY <1>4 DEF PopulatePutFails, Goto
  <2>4. CASE t = s
    BY <2>2, <2>3, <2>4 DEF TypeOK, IDRange, IDUnique, IDAssigned
  <2>5. CASE t # s
    BY <2>1, <2>2, <2>3, <2>5 DEF TypeOK, IDRange, IDUnique, IDAssigned, HasSpec, Args
  <2> QED BY <2>4, <2>5
<1>5. ASSUME NEW s \in Sessions, PopulateReturns(s) PROVE IDInv'
  BY <1>5, IDFrame DEF PopulateReturns, TypeOK, Goto, Advance, Restart
<1>6. ASSUME NEW s \in Sessions, AttachOne(s) PROVE IDInv'
  BY <1>6, IDFrame DEF AttachOne, TypeOK, Goto, Advance, Restart
<1>7. ASSUME NEW s \in Sessions, AttachFails(s) PROVE IDInv'
  BY <1>7, IDFrame DEF AttachFails, TypeOK, Goto, Advance, Restart
<1>8. ASSUME NEW s \in Sessions, AttachReturns(s) PROVE IDInv'
  BY <1>8, IDFrame DEF AttachReturns, TypeOK, Goto, Advance, Restart
<1>9. ASSUME NEW s \in Sessions, CloseBegin(s) PROVE IDInv'
  BY <1>9, IDFrame DEF CloseBegin, TypeOK, Goto, Advance, Restart, sessionVars
<1>10. ASSUME NEW s \in Sessions, CloseEnd(s) PROVE IDInv'
  BY <1>10, IDFrame DEF CloseEnd, TypeOK, Goto, Advance, Restart
<1>11. ASSUME NEW s \in Sessions, CloseFails(s) PROVE IDInv'
  BY <1>11, IDFrame DEF CloseFails, TypeOK, Goto, Advance, Restart
<1>12. ASSUME NEW s \in Sessions, UndoReturns(s) PROVE IDInv'
  BY <1>12, IDFrame DEF UndoReturns, TypeOK, Goto, Advance, Restart
<1>13. ASSUME NEW s \in Sessions, LinksClosed(s) PROVE IDInv'
  BY <1>13, IDFrame DEF LinksClosed, TypeOK, Goto, Advance, Restart
<1>14. ASSUME NEW s \in Sessions, DeleteSkip(s) PROVE IDInv'
  BY <1>14, IDFrame DEF DeleteSkip, TypeOK, Goto, Advance, Restart
<1>15. ASSUME NEW s \in Sessions, DeleteOne(s) PROVE IDInv'
  BY <1>15, IDFrame DEF DeleteOne, TypeOK, Goto, Advance, Restart
<1>16. ASSUME NEW s \in Sessions, DeleteFails(s) PROVE IDInv'
  BY <1>16, IDFrame DEF DeleteFails, TypeOK, Goto, Advance, Restart
<1>17. ASSUME NEW s \in Sessions, UnloadReturns(s) PROVE IDInv'
  BY <1>17, IDFrame DEF UnloadReturns, TypeOK, Goto, Advance, Restart
<1>18. ASSUME NEW s \in Sessions, CallAttach(s) PROVE IDInv'
  BY <1>18, IDFrame DEF CallAttach, TypeOK, Goto, Advance, Restart
<1>19. ASSUME NEW s \in Sessions, AdoptSpecIDs(s) PROVE IDInv'
  BY <1>19, IDFrame DEF AdoptSpecIDs, TypeOK, Goto, Advance, Restart
<1>20. ASSUME NEW s \in Sessions, CallClose(s) PROVE IDInv'
  BY <1>20, IDFrame DEF CallClose, TypeOK, Goto, Advance, Restart
<1>21. ASSUME NEW c \in CPUs, ProgramStep(c) \/ \E p \in Uprobe : Fire(c, p) PROVE IDInv'
  <2>1. UNCHANGED <<pc, loop, nextID, specIDs>>
    BY <1>21 DEF ProgramStep, ArgLookup, ArgMiss, ArgRead, Return, Fire, sessionVars
  <2> QED BY <2>1 DEF IDInv, IDRange, IDUnique, IDAssigned, HasSpec, Args
<1>22. CASE UNCHANGED vars
  BY <1>22 DEF vars, sessionVars, IDInv, IDRange, IDUnique, IDAssigned, HasSpec, Args
<1> QED
  BY <1>1, <1>2, <1>3, <1>4, <1>5, <1>6, <1>7, <1>8, <1>9, <1>10, <1>11, <1>12, <1>13, <1>14, <1>15, <1>16, <1>17, <1>18, <1>19, <1>20, <1>21, <1>22
  DEF Next, LibraryStep, CallerStep

-----------------------------------------------------------------------------
(***************************************************************************)
(* The links.                                                              *)
(***************************************************************************)
LinkOK(s) == LinkPrefix(s) /\ CloseCount(s) /\ LiveLinks(s)

\* A step that leaves a session and its links alone preserves its LinkOK.
LEMMA LinkFrame ==
  ASSUME NEW t \in Sessions, LinkOK(t),
         pc'[t] = pc[t], loop'[t] = loop[t], closes'[t] = closes[t],
         tainted \subseteq tainted',
         \A j \in 1..Last(t) : link'[<<t, j>>] = link[<<t, j>>]
  PROVE  LinkOK(t)'
BY DEF LinkOK, LinkPrefix, CloseCount, LiveLinks, StillOpen

\* Before AttachUprobes runs there is no link.
LEMMA LinkInit == Init => LinkInv
BY UprobeElements DEF Init, LinkInv, LinkPrefix, CloseCount, LiveLinks, Live, RunsOnLive

\* A step of one session that touches no link and no other session.
Quiet(s) ==
  /\ UNCHANGED <<link, tainted, on>>
  /\ \A t \in Sessions \ {s} :
       pc'[t] = pc[t] /\ loop'[t] = loop[t] /\ closes'[t] = closes[t]

\* For such a step it is enough to look at the links of the session that takes it.
LEMMA QuietLinks ==
  ASSUME LinkInv, NEW s \in Sessions, Quiet(s), LinkOK(s)'
  PROVE  LinkInv'
<1>1. \A t \in Sessions \ {s} : LinkOK(t)'
  BY LinkFrame DEF Quiet, LinkInv, LinkOK
<1> QED BY <1>1 DEF Quiet, LinkInv, LinkOK, RunsOnLive

\* AttachUprobes, its clean-up and Unload work through the links in their order,
\* and a link closes only when no program runs on it.
LEMMA LinkStep == TypeInv /\ TypeInv' /\ LinkInv /\ [Next]_vars => LinkInv'
<1> SUFFICES ASSUME TypeInv, TypeInv', LinkInv, [Next]_vars
             PROVE  LinkInv'
  OBVIOUS
<1> USE DEF TypeInv
<1>0. /\ \A s \in Sessions : LinkOK(s) /\ Last(s) \in Nat /\ loop[s] \in Nat \ {0}
      /\ \A s \in Sessions : \A j \in 1..Last(s) : <<s, j>> \in Uprobe
      /\ RunsOnLive
  BY UprobeElements DEF LinkInv, LinkOK, TypeOK
<1>1. ASSUME NEW s \in Sessions, PopulateSkip(s) PROVE LinkInv'
  <2>1. Quiet(s)
    BY <1>1 DEF PopulateSkip, Quiet, Goto, Advance, Restart, TypeOK, linkVars, bpfVars
  <2>2. LinkOK(s)'
    <3>1. UNCHANGED <<link, tainted>>
      BY <2>1 DEF Quiet
    <3> QED BY <1>0, <1>1, <3>1 DEF PopulateSkip, Goto, Advance, Restart, TypeOK,
            LinkOK, LinkPrefix, CloseCount, LiveLinks, StillOpen, Live
  <2> QED BY <2>1, <2>2, QuietLinks
<1>2. ASSUME NEW s \in Sessions, PopulatePut(s) PROVE LinkInv'
  <2>1. Quiet(s)
    BY <1>2 DEF PopulatePut, Quiet, Goto, Advance, Restart, TypeOK, linkVars, bpfVars
  <2>2. LinkOK(s)'
    <3>1. UNCHANGED <<link, tainted>>
      BY <2>1 DEF Quiet
    <3> QED BY <1>0, <1>2, <3>1 DEF PopulatePut, Goto, Advance, Restart, TypeOK,
            LinkOK, LinkPrefix, CloseCount, LiveLinks, StillOpen, Live
  <2> QED BY <2>1, <2>2, QuietLinks
<1>3. ASSUME NEW s \in Sessions, PopulatePutFails(s) PROVE LinkInv'
  <2>1. Quiet(s)
    BY <1>3 DEF PopulatePutFails, Quiet, Goto, Advance, Restart, TypeOK, linkVars, bpfVars
  <2>2. LinkOK(s)'
    <3>1. UNCHANGED <<link, tainted>>
      BY <2>1 DEF Quiet
    <3> QED BY <1>0, <1>3, <3>1 DEF PopulatePutFails, Goto, Advance, Restart, TypeOK,
            LinkOK, LinkPrefix, CloseCount, LiveLinks, StillOpen, Live
  <2> QED BY <2>1, <2>2, QuietLinks
<1>4. ASSUME NEW s \in Sessions, PopulateReturns(s) PROVE LinkInv'
  <2>1. Quiet(s)
    BY <1>4 DEF PopulateReturns, Quiet, Goto, Advance, Restart, TypeOK, linkVars, bpfVars
  <2>2. LinkOK(s)'
    <3>1. UNCHANGED <<link, tainted>>
      BY <2>1 DEF Quiet
    <3> QED BY <1>0, <1>4, <3>1 DEF PopulateReturns, Goto, Advance, Restart, TypeOK,
            LinkOK, LinkPrefix, CloseCount, LiveLinks, StillOpen, Live
  <2> QED BY <2>1, <2>2, QuietLinks
<1>5. ASSUME NEW s \in Sessions, AttachFails(s) PROVE LinkInv'
  <2>1. Quiet(s)
    BY <1>5 DEF AttachFails, Quiet, Goto, Advance, Restart, TypeOK, linkVars, bpfVars
  <2>2. LinkOK(s)'
    <3>1. /\ pc[s] = "attach" /\ pc'[s] = "undo" /\ loop'[s] = 1
          /\ closes'[s] = closes[s]
      BY <1>0, <1>5 DEF AttachFails, Goto, Advance, Restart, TypeOK
    <3>2. closes[s] \in Nat /\ LinkPrefix(s) /\ CloseCount(s) /\ LiveLinks(s)
      BY <1>0 DEF LinkOK, TypeOK
    <3>3. LinkPrefix(s)'
      BY <1>0, <2>1, <3>1, <3>2 DEF LinkPrefix, Quiet
    <3>4. CloseCount(s)'
      BY <3>1, <3>2 DEF CloseCount
    <3>5. LiveLinks(s)'
      BY <1>0, <2>1, <3>1, <3>2 DEF LiveLinks, StillOpen, Live, LinkPrefix, CloseCount, Quiet
    <3> QED BY <3>3, <3>4, <3>5 DEF LinkOK
  <2> QED BY <2>1, <2>2, QuietLinks
<1>6. ASSUME NEW s \in Sessions, AttachReturns(s) PROVE LinkInv'
  <2>1. Quiet(s)
    BY <1>6 DEF AttachReturns, Quiet, Goto, Advance, Restart, TypeOK, linkVars, bpfVars
  <2>2. LinkOK(s)'
    <3>1. /\ pc[s] = "attach" /\ pc'[s] = "attached" /\ loop[s] > Last(s)
          /\ loop'[s] = loop[s] /\ closes'[s] = closes[s]
      BY <1>0, <1>6 DEF AttachReturns, Goto, Advance, Restart, TypeOK
    <3>2. closes[s] \in Nat /\ LinkPrefix(s) /\ CloseCount(s) /\ LiveLinks(s)
      BY <1>0 DEF LinkOK, TypeOK
    <3>3. LinkPrefix(s)'
      BY <1>0, <2>1, <3>1, <3>2 DEF LinkPrefix, Quiet
    <3>4. CloseCount(s)'
      BY <3>1, <3>2 DEF CloseCount
    <3>5. LiveLinks(s)'
      BY <1>0, <2>1, <3>1, <3>2 DEF LiveLinks, StillOpen, Live, LinkPrefix, CloseCount, Quiet
    <3> QED BY <3>3, <3>4, <3>5 DEF LinkOK
  <2> QED BY <2>1, <2>2, QuietLinks
<1>7. ASSUME NEW s \in Sessions, UndoReturns(s) PROVE LinkInv'
  <2>1. Quiet(s)
    BY <1>7 DEF UndoReturns, Quiet, Goto, Advance, Restart, TypeOK, linkVars, bpfVars
  <2>2. LinkOK(s)'
    <3>1. /\ pc[s] = "undo" /\ pc'[s] = "failed" /\ closes'[s] = closes[s]
          /\ loop[s] > Last(s) \/ link[<<s, loop[s]>>] = "none"
      BY <1>0, <1>7 DEF UndoReturns, InLinks, Goto, Advance, Restart, TypeOK
    <3>2. closes[s] \in Nat /\ LinkPrefix(s) /\ CloseCount(s) /\ LiveLinks(s)
      BY <1>0 DEF LinkOK, TypeOK
    <3>3. LinkPrefix(s)'
      BY <1>0, <2>1, <3>1, <3>2 DEF LinkPrefix, Quiet
    <3>4. CloseCount(s)'
      BY <3>1, <3>2 DEF CloseCount
    <3>5. LiveLinks(s)'
      BY <1>0, <2>1, <3>1, <3>2 DEF LiveLinks, StillOpen, Live, LinkPrefix, CloseCount, Quiet
    <3> QED BY <3>3, <3>4, <3>5 DEF LinkOK
  <2> QED BY <2>1, <2>2, QuietLinks
<1>8. ASSUME NEW s \in Sessions, LinksClosed(s) PROVE LinkInv'
  <2>1. Quiet(s)
    BY <1>8 DEF LinksClosed, Quiet, Goto, Advance, Restart, TypeOK, linkVars, bpfVars
  <2>2. LinkOK(s)'
    <3>1. /\ pc[s] = "unload" /\ pc'[s] = "delete" /\ closes'[s] = closes[s]
          /\ loop[s] > Last(s) \/ link[<<s, loop[s]>>] = "none"
      BY <1>0, <1>8 DEF LinksClosed, InLinks, Goto, Advance, Restart, TypeOK
    <3>2. closes[s] \in Nat /\ LinkPrefix(s) /\ CloseCount(s) /\ LiveLinks(s)
      BY <1>0 DEF LinkOK, TypeOK
    <3>3. LinkPrefix(s)'
      BY <1>0, <2>1, <3>1, <3>2 DEF LinkPrefix, Quiet
    <3>4. CloseCount(s)'
      BY <3>1, <3>2 DEF CloseCount
    <3>5. LiveLinks(s)'
      BY <1>0, <2>1, <3>1, <3>2 DEF LiveLinks, StillOpen, Live, LinkPrefix, CloseCount, Quiet
    <3> QED BY <3>3, <3>4, <3>5 DEF LinkOK
  <2> QED BY <2>1, <2>2, QuietLinks
<1>9. ASSUME NEW s \in Sessions, DeleteSkip(s) PROVE LinkInv'
  <2>1. Quiet(s)
    BY <1>9 DEF DeleteSkip, Quiet, Goto, Advance, Restart, TypeOK, linkVars, bpfVars
  <2>2. LinkOK(s)'
    <3>1. UNCHANGED <<link, tainted>>
      BY <2>1 DEF Quiet
    <3> QED BY <1>0, <1>9, <3>1 DEF DeleteSkip, Goto, Advance, Restart, TypeOK,
            LinkOK, LinkPrefix, CloseCount, LiveLinks, StillOpen, Live
  <2> QED BY <2>1, <2>2, QuietLinks
<1>10. ASSUME NEW s \in Sessions, DeleteOne(s) PROVE LinkInv'
  <2>1. Quiet(s)
    BY <1>10 DEF DeleteOne, Quiet, Goto, Advance, Restart, TypeOK, linkVars, bpfVars
  <2>2. LinkOK(s)'
    <3>1. UNCHANGED <<link, tainted>>
      BY <2>1 DEF Quiet
    <3> QED BY <1>0, <1>10, <3>1 DEF DeleteOne, Goto, Advance, Restart, TypeOK,
            LinkOK, LinkPrefix, CloseCount, LiveLinks, StillOpen, Live
  <2> QED BY <2>1, <2>2, QuietLinks
<1>11. ASSUME NEW s \in Sessions, DeleteFails(s) PROVE LinkInv'
  <2>1. Quiet(s)
    BY <1>11 DEF DeleteFails, Quiet, Goto, Advance, Restart, TypeOK, linkVars, bpfVars
  <2>2. LinkOK(s)'
    <3>1. UNCHANGED <<link, tainted>>
      BY <2>1 DEF Quiet
    <3> QED BY <1>0, <1>11, <3>1 DEF DeleteFails, Goto, Advance, Restart, TypeOK,
            LinkOK, LinkPrefix, CloseCount, LiveLinks, StillOpen, Live
  <2> QED BY <2>1, <2>2, QuietLinks
<1>12. ASSUME NEW s \in Sessions, UnloadReturns(s) PROVE LinkInv'
  <2>1. Quiet(s)
    BY <1>12 DEF UnloadReturns, Quiet, Goto, Advance, Restart, TypeOK, linkVars, bpfVars
  <2>2. LinkOK(s)'
    <3>1. UNCHANGED <<link, tainted>>
      BY <2>1 DEF Quiet
    <3> QED BY <1>0, <1>12, <3>1 DEF UnloadReturns, Goto, Advance, Restart, TypeOK,
            LinkOK, LinkPrefix, CloseCount, LiveLinks, StillOpen, Live
  <2> QED BY <2>1, <2>2, QuietLinks
<1>13. ASSUME NEW s \in Sessions, CallPopulate(s) PROVE LinkInv'
  <2>1. Quiet(s)
    BY <1>13 DEF CallPopulate, Quiet, Goto, Advance, Restart, TypeOK, linkVars, bpfVars
  <2>2. LinkOK(s)'
    <3>1. UNCHANGED <<link, tainted>>
      BY <2>1 DEF Quiet
    <3> QED BY <1>0, <1>13, <3>1 DEF CallPopulate, Goto, Advance, Restart, TypeOK,
            LinkOK, LinkPrefix, CloseCount, LiveLinks, StillOpen, Live
  <2> QED BY <2>1, <2>2, QuietLinks
<1>14. ASSUME NEW s \in Sessions, CallAttach(s) PROVE LinkInv'
  <2>1. Quiet(s)
    BY <1>14 DEF CallAttach, Quiet, Goto, Advance, Restart, TypeOK, linkVars, bpfVars
  <2>2. LinkOK(s)'
    <3>1. /\ pc[s] = "populated" /\ pc'[s] \in {"failed", "attach"}
          /\ loop'[s] = 1 /\ closes'[s] = closes[s]
      BY <1>0, <1>14 DEF CallAttach, Goto, Advance, Restart, TypeOK
    <3>2. closes[s] \in Nat /\ LinkPrefix(s) /\ CloseCount(s) /\ LiveLinks(s)
      BY <1>0 DEF LinkOK, TypeOK
    <3>3. LinkPrefix(s)'
      BY <1>0, <2>1, <3>1, <3>2 DEF LinkPrefix, Quiet
    <3>4. CloseCount(s)'
      BY <3>1, <3>2 DEF CloseCount
    <3>5. LiveLinks(s)'
      BY <1>0, <2>1, <3>1, <3>2 DEF LiveLinks, StillOpen, Live, LinkPrefix, CloseCount, Quiet
    <3> QED BY <3>3, <3>4, <3>5 DEF LinkOK
  <2> QED BY <2>1, <2>2, QuietLinks
<1>15. ASSUME NEW s \in Sessions, AdoptSpecIDs(s) PROVE LinkInv'
  <2>1. Quiet(s)
    BY <1>15 DEF AdoptSpecIDs, Quiet, Goto, Advance, Restart, TypeOK, linkVars, bpfVars
  <2>2. LinkOK(s)'
    <3>1. UNCHANGED <<link, tainted>>
      BY <2>1 DEF Quiet
    <3> QED BY <1>0, <1>15, <3>1 DEF AdoptSpecIDs, Goto, Advance, Restart, TypeOK,
            LinkOK, LinkPrefix, CloseCount, LiveLinks, StillOpen, Live
  <2> QED BY <2>1, <2>2, QuietLinks
<1>16. ASSUME NEW s \in Sessions, CallClose(s) PROVE LinkInv'
  <2>1. Quiet(s)
    BY <1>16 DEF CallClose, Quiet, Goto, Advance, Restart, TypeOK, linkVars, bpfVars
  <2>2. LinkOK(s)'
    <3>1. /\ pc[s] \in {"attached", "closed"} /\ pc'[s] = "unload"
          /\ loop'[s] = 1 /\ closes'[s] = closes[s] + 1
      BY <1>0, <1>16 DEF CallClose, Goto, Advance, Restart, TypeOK
    <3>2. closes[s] \in Nat /\ LinkPrefix(s) /\ CloseCount(s) /\ LiveLinks(s)
      BY <1>0 DEF LinkOK, TypeOK
    <3>3. LinkPrefix(s)'
      BY <1>0, <2>1, <3>1, <3>2 DEF LinkPrefix, Quiet
    <3>4. CloseCount(s)'
      BY <3>1, <3>2 DEF CloseCount
    <3>5. LiveLinks(s)'
      BY <1>0, <2>1, <3>1, <3>2 DEF LiveLinks, StillOpen, Live, LinkPrefix, CloseCount, Quiet
    <3> QED BY <3>3, <3>4, <3>5 DEF LinkOK
  <2> QED BY <2>1, <2>2, QuietLinks
<1>17. ASSUME NEW s \in Sessions, AttachOne(s) PROVE LinkInv'
  <2>1. loop[s] \in 1..Last(s) /\ <<s, loop[s]>> \in Uprobe
    BY <1>0, <1>17 DEF AttachOne
  <2>2. PICK l \in {"attached"} : link' = [link EXCEPT ![<<s, loop[s]>>] = l]
    BY <1>17 DEF AttachOne
  <2>3. \A t \in Sessions : \A j \in 1..Last(t) :
          link'[<<t, j>>] = IF t = s /\ j = loop[s] THEN l ELSE link[<<t, j>>]
    BY <1>0, <2>1, <2>2 DEF TypeOK
  <2>4. /\ \A t \in Sessions \ {s} :
            pc'[t] = pc[t] /\ loop'[t] = loop[t] /\ closes'[t] = closes[t]
        /\ tainted \subseteq tainted'
    BY <1>17 DEF AttachOne, Advance, TypeOK
  <2>5. \A t \in Sessions \ {s} : LinkOK(t)'
    BY <1>0, <2>3, <2>4, LinkFrame
  <2>6. LinkOK(s)'
    <3>1. /\ pc[s] = "attach" /\ pc'[s] = "attach" /\ loop'[s] = loop[s] + 1
          /\ closes'[s] = closes[s] /\ tainted' = tainted
      BY <1>0, <1>17 DEF AttachOne, Advance, TypeOK
    <3>2. closes[s] \in Nat /\ LinkPrefix(s) /\ CloseCount(s) /\ LiveLinks(s)
      BY <1>0 DEF LinkOK, TypeOK
    <3>3. LinkPrefix(s)'
      BY <1>0, <2>1, <2>3, <3>1, <3>2 DEF LinkPrefix
    <3>4. CloseCount(s)'
      BY <3>1, <3>2 DEF CloseCount
    <3>5. LiveLinks(s)'
      BY <1>0, <2>1, <2>3, <3>1, <3>2 DEF LiveLinks, StillOpen, Live, LinkPrefix, CloseCount
    <3> QED BY <3>3, <3>4, <3>5 DEF LinkOK
  <2>7. RunsOnLive'
    BY <1>0, <1>17, <2>1, <2>2 DEF AttachOne, TypeOK, RunsOnLive, Live, bpfVars
  <2> QED BY <2>5, <2>6, <2>7 DEF LinkInv, LinkOK
<1>18. ASSUME NEW s \in Sessions, CloseBegin(s) PROVE LinkInv'
  <2>1. loop[s] \in 1..Last(s) /\ <<s, loop[s]>> \in Uprobe
    BY <1>0, <1>18 DEF CloseBegin, InLinks
  <2>2. PICK l \in {"closing"} : link' = [link EXCEPT ![<<s, loop[s]>>] = l]
    BY <1>18 DEF CloseBegin
  <2>3. \A t \in Sessions : \A j \in 1..Last(t) :
          link'[<<t, j>>] = IF t = s /\ j = loop[s] THEN l ELSE link[<<t, j>>]
    BY <1>0, <2>1, <2>2 DEF TypeOK
  <2>4. /\ \A t \in Sessions \ {s} :
            pc'[t] = pc[t] /\ loop'[t] = loop[t] /\ closes'[t] = closes[t]
        /\ tainted \subseteq tainted'
    BY <1>18 DEF CloseBegin, sessionVars, InLinks, TypeOK
  <2>5. \A t \in Sessions \ {s} : LinkOK(t)'
    BY <1>0, <2>3, <2>4, LinkFrame
  <2>6. LinkOK(s)'
    <3>1. /\ pc[s] \in {"undo", "unload"} /\ pc'[s] = pc[s] /\ loop'[s] = loop[s]
          /\ closes'[s] = closes[s] /\ tainted' = tainted
          /\ link[<<s, loop[s]>>] = "attached"
      BY <1>0, <1>18 DEF CloseBegin, sessionVars, InLinks, TypeOK
    <3>2. closes[s] \in Nat /\ LinkPrefix(s) /\ CloseCount(s) /\ LiveLinks(s)
      BY <1>0 DEF LinkOK, TypeOK
    <3>3. LinkPrefix(s)'
      BY <1>0, <2>1, <2>3, <3>1, <3>2 DEF LinkPrefix
    <3>4. CloseCount(s)'
      BY <3>1, <3>2 DEF CloseCount
    <3>5. LiveLinks(s)'
      BY <1>0, <2>1, <2>3, <3>1, <3>2 DEF LiveLinks, StillOpen, Live, LinkPrefix, CloseCount
    <3> QED BY <3>3, <3>4, <3>5 DEF LinkOK
  <2>7. RunsOnLive'
    BY <1>0, <1>18, <2>1, <2>2 DEF CloseBegin, TypeOK, RunsOnLive, Live, bpfVars
  <2> QED BY <2>5, <2>6, <2>7 DEF LinkInv, LinkOK
<1>19. ASSUME NEW s \in Sessions, CloseEnd(s) PROVE LinkInv'
  <2>1. loop[s] \in 1..Last(s) /\ <<s, loop[s]>> \in Uprobe
    BY <1>0, <1>19 DEF CloseEnd, InLinks
  <2>2. PICK l \in {"closed"} : link' = [link EXCEPT ![<<s, loop[s]>>] = l]
    BY <1>19 DEF CloseEnd
  <2>3. \A t \in Sessions : \A j \in 1..Last(t) :
          link'[<<t, j>>] = IF t = s /\ j = loop[s] THEN l ELSE link[<<t, j>>]
    BY <1>0, <2>1, <2>2 DEF TypeOK
  <2>4. /\ \A t \in Sessions \ {s} :
            pc'[t] = pc[t] /\ loop'[t] = loop[t] /\ closes'[t] = closes[t]
        /\ tainted \subseteq tainted'
    BY <1>19 DEF CloseEnd, Advance, InLinks, TypeOK
  <2>5. \A t \in Sessions \ {s} : LinkOK(t)'
    BY <1>0, <2>3, <2>4, LinkFrame
  <2>6. LinkOK(s)'
    <3>1. /\ pc[s] \in {"undo", "unload"} /\ pc'[s] = pc[s] /\ loop'[s] = loop[s] + 1
          /\ closes'[s] = closes[s] /\ tainted' = tainted
          /\ link[<<s, loop[s]>>] # "none"
      BY <1>0, <1>19 DEF CloseEnd, Advance, InLinks, TypeOK
    <3>2. closes[s] \in Nat /\ LinkPrefix(s) /\ CloseCount(s) /\ LiveLinks(s)
      BY <1>0 DEF LinkOK, TypeOK
    <3>3. LinkPrefix(s)'
      BY <1>0, <2>1, <2>3, <3>1, <3>2 DEF LinkPrefix
    <3>4. CloseCount(s)'
      BY <3>1, <3>2 DEF CloseCount
    <3>5. LiveLinks(s)'
      BY <1>0, <2>1, <2>3, <3>1, <3>2 DEF LiveLinks, StillOpen, Live, LinkPrefix, CloseCount
    <3> QED BY <3>3, <3>4, <3>5 DEF LinkOK
  <2>7. RunsOnLive'
    BY <1>0, <1>19, <2>1, <2>2 DEF CloseEnd, TypeOK, RunsOnLive, Live, bpfVars
  <2> QED BY <2>5, <2>6, <2>7 DEF LinkInv, LinkOK
<1>20. ASSUME NEW s \in Sessions, CloseFails(s) PROVE LinkInv'
  <2>1. loop[s] \in 1..Last(s) /\ <<s, loop[s]>> \in Uprobe
    BY <1>0, <1>20 DEF CloseFails, InLinks
  <2>2. PICK l \in {"attached", "closed"} : link' = [link EXCEPT ![<<s, loop[s]>>] = l]
    BY <1>20 DEF CloseFails
  <2>3. \A t \in Sessions : \A j \in 1..Last(t) :
          link'[<<t, j>>] = IF t = s /\ j = loop[s] THEN l ELSE link[<<t, j>>]
    BY <1>0, <2>1, <2>2 DEF TypeOK
  <2>4. /\ \A t \in Sessions \ {s} :
            pc'[t] = pc[t] /\ loop'[t] = loop[t] /\ closes'[t] = closes[t]
        /\ tainted \subseteq tainted'
    BY <1>20 DEF CloseFails, Advance, InLinks, TypeOK
  <2>5. \A t \in Sessions \ {s} : LinkOK(t)'
    BY <1>0, <2>3, <2>4, LinkFrame
  <2>6. LinkOK(s)'
    <3>1. /\ pc[s] \in {"undo", "unload"} /\ pc'[s] = pc[s] /\ loop'[s] = loop[s] + 1
          /\ closes'[s] = closes[s] /\ tainted' = tainted \cup {<<s, loop[s]>>}
          /\ link[<<s, loop[s]>>] # "none"
      BY <1>0, <1>20 DEF CloseFails, Advance, InLinks, TypeOK
    <3>2. closes[s] \in Nat /\ LinkPrefix(s) /\ CloseCount(s) /\ LiveLinks(s)
      BY <1>0 DEF LinkOK, TypeOK
    <3>3. LinkPrefix(s)'
      BY <1>0, <2>1, <2>3, <3>1, <3>2 DEF LinkPrefix
    <3>4. CloseCount(s)'
      BY <3>1, <3>2 DEF CloseCount
    <3>5. LiveLinks(s)'
      BY <1>0, <2>1, <2>3, <3>1, <3>2 DEF LiveLinks, StillOpen, Live, LinkPrefix, CloseCount
    <3> QED BY <3>3, <3>4, <3>5 DEF LinkOK
  <2>7. RunsOnLive'
    BY <1>0, <1>20, <2>1, <2>2 DEF CloseFails, TypeOK, RunsOnLive, Live, bpfVars
  <2> QED BY <2>5, <2>6, <2>7 DEF LinkInv, LinkOK
<1>21. ASSUME NEW c \in CPUs, ProgramStep(c) \/ \E p \in Uprobe : Fire(c, p)
      PROVE  LinkInv'
  <2>1. UNCHANGED <<pc, loop, closes, link, tainted>>
    BY <1>21 DEF ProgramStep, ArgLookup, ArgMiss, ArgRead, Return, Fire, sessionVars, linkVars
  <2>2. \A t \in Sessions : LinkOK(t)'
    BY <1>0, <2>1, LinkFrame
  <2>3. ASSUME NEW d \in CPUs
        PROVE  on'[d] \in {on[d], Idle} \/ link[on'[d]] = "attached"
    BY <1>21 DEF ProgramStep, ArgLookup, ArgMiss, ArgRead, Return, Fire, TypeOK
  <2>4. RunsOnLive'
    BY <1>0, <2>1, <2>3 DEF RunsOnLive, Live
  <2> QED BY <2>2, <2>4 DEF LinkInv, LinkOK
<1>22. CASE UNCHANGED vars
  <2>1. UNCHANGED <<pc, loop, closes, link, tainted, on>>
    BY <1>22 DEF vars, sessionVars, linkVars, bpfVars
  <2> QED BY <1>0, <2>1, LinkFrame DEF LinkInv, LinkOK, RunsOnLive
<1> QED
  BY <1>1, <1>2, <1>3, <1>4, <1>5, <1>6, <1>7, <1>8, <1>9, <1>10, <1>11, <1>12, <1>13, <1>14, <1>15, <1>16, <1>17, <1>18, <1>19, <1>20, <1>21, <1>22
  DEF Next, LibraryStep, CallerStep

-----------------------------------------------------------------------------
(***************************************************************************)
(* The spec map.                                                           *)
(***************************************************************************)
\* A session that holds entries is not settled.
LEMMA HoldingUnsettled ==
  \A s \in Sessions : (Holding(s) \/ pc[s] = "delete") => ~Settled(s)
BY DEF Holding, Settled

\* Sessions with a common spec ID have overlapping ranges.
LEMMA SharedID ==
  ASSUME NEW s \in Sessions, NEW t \in Sessions, NEW id \in Nat,
         StartID[s] <= id, id < StartID[s] + Last(s),
         StartID[t] <= id, id < StartID[t] + Last(t)
  PROVE  Overlap(s, t)
<1>1. StartID[s] \in Nat /\ StartID[t] \in Nat /\ Last(s) \in Nat /\ Last(t) \in Nat
  BY StartIDType, UprobeElements
<1> QED BY <1>1 DEF Overlap

\* An ID in the range of two different sessions is in use by at most one of them.
LEMMA OneUser ==
  ASSUME TypeOK, IDInv, RangesDisjoint,
         NEW s \in Sessions, NEW t \in Sessions \ {s}, NEW j \in 1..Last(t),
         ~Settled(s), ~Settled(t), specIDs[<<t, j>>] # 0,
         StartID[s] <= specIDs[<<t, j>>], specIDs[<<t, j>>] < StartID[s] + Last(s)
  PROVE  FALSE
<1>1. specIDs[<<t, j>>] \in Nat /\ StartID[t] \in Nat /\ Last(t) \in Nat
  BY StartIDType, UprobeElements DEF TypeOK, Id
<1>2. StartID[t] <= specIDs[<<t, j>>] /\ specIDs[<<t, j>>] < StartID[t] + Last(t)
  BY <1>1 DEF IDInv, IDRange
<1>3. Overlap(s, t)
  BY <1>1, <1>2, SharedID
<1> QED BY <1>3 DEF RangesDisjoint

\* A step that leaves the map and the spec IDs alone, reopens no settled
\* session and makes none a holder preserves MapInv.
LEMMA MapFrame ==
  ASSUME MapInv, UNCHANGED <<elem, value, specIDs>>,
         \A t \in Sessions : Settled(t) => Settled(t)',
         \A t \in Sessions : Holding(t)' => Holding(t)
  PROVE  MapInv'
<1>1. RangesDisjoint'
  BY DEF MapInv, RangesDisjoint, Overlap
<1>2. \A s \in Sessions : OwnEntry(s)' /\ Stored(s)'
  BY DEF MapInv, OwnEntry, Stored
<1> QED BY <1>1, <1>2 DEF MapInv

\* The spec map starts empty.
LEMMA MapInit == Init => MapInv
<1> SUFFICES ASSUME Init PROVE MapInv
  OBVIOUS
<1>1. elem[0] = NoSlot
  BY StartIDType DEF Init, Id
<1>2. RangesDisjoint
  BY DEF Init, RangesDisjoint, Settled
<1>3. \A s \in Sessions : OwnEntry(s) /\ Stored(s)
  BY UprobeElements DEF Init, OwnEntry, Stored
<1> QED BY <1>1, <1>2, <1>3 DEF MapInv

\* The spec map holds, under the IDs of each session in use, that session's own
\* specs; Put and Delete of other sessions do not reach them.
LEMMA MapStep ==
  /\ CarefulCallers /\ TypeInv /\ TypeInv' /\ IDInv /\ LinkInv /\ MapInv
  /\ [Next]_vars
  => MapInv'
<1> SUFFICES ASSUME CarefulCallers, TypeInv, TypeInv', IDInv, LinkInv, MapInv, [Next]_vars
             PROVE  MapInv'
  OBVIOUS
<1> USE DEF TypeInv
<1>1. ASSUME NEW s \in Sessions, CallPopulate(s) PROVE MapInv'
  <2>1. pc[s] = "idle" /\ pc' = [pc EXCEPT ![s] = "populate"]
        /\ UNCHANGED <<elem, value, specIDs, closes>>
    BY <1>1 DEF CallPopulate, Goto, mapVars
  <2>2. \A t \in Sessions \ {s} : Settled(t)' = Settled(t) /\ Holding(t)' = Holding(t)
    BY <2>1 DEF TypeOK, Settled, Holding
  <2>3. \A t \in Sessions \ {s} : Overlap(s, t) => Settled(t)
    BY <1>1 DEF CallPopulate
  <2>4. \A t \in Sessions \ {s} : Overlap(t, s) => Settled(t)
    BY <2>3 DEF Overlap
  <2>5. RangesDisjoint'
    BY <2>2, <2>3, <2>4 DEF MapInv, RangesDisjoint, Overlap
  <2>6. \A j \in 1..Last(s) : specIDs[<<s, j>>] = 0
    BY <2>1 DEF IDInv, IDAssigned
  <2>7. OwnEntry(s)' /\ Stored(s)'
    BY <2>1, <2>6 DEF OwnEntry, Stored
  <2>8. \A t \in Sessions \ {s} : OwnEntry(t)' /\ Stored(t)'
    BY <2>1, <2>2 DEF MapInv, OwnEntry, Stored
  <2> QED BY <2>1, <2>5, <2>7, <2>8 DEF MapInv
<1>2. ASSUME NEW s \in Sessions, PopulatePut(s) PROVE MapInv'
  <2> DEFINE id == nextID[s]
             p == <<s, loop[s]>>
  <2>1. /\ pc[s] = "populate" /\ UNCHANGED <<pc, closes>>
        /\ loop[s] \in 1..Last(s) /\ p \in Uprobe /\ id \in Id /\ id \in Nat
        /\ specIDs' = [specIDs EXCEPT ![p] = id]
    <3>1. loop[s] \in 1..Last(s) /\ id \in Id /\ id \in Nat
      BY <1>2, UprobeElements DEF PopulatePut, TypeOK, Id
    <3> QED BY <1>2, <3>1, UprobeElements DEF PopulatePut
  <2>2. StartID[s] <= id /\ id < StartID[s] + Last(s) /\ id # 0
    <3>1. StartID[s] <= id /\ id < StartID[s] + loop[s]
      BY <2>1 DEF IDInv, IDRange
    <3>2. StartID[s] \in Nat /\ Last(s) \in Nat /\ StartID[s] >= 1
      BY StartIDType, UprobeElements DEF CarefulCallers, SaneStartIDs
    <3> QED BY <2>1, <3>1, <3>2
  <2>3. PICK e \in FreeSlots : /\ elem' = [elem EXCEPT ![id] = e]
                               /\ value' = [value EXCEPT ![e] = p]
    BY <1>2 DEF PopulatePut, MapPut
  <2>4. e \in Slots /\ e # NoSlot /\ \A k \in Id : elem[k] # NoSlot => elem[k] # e
    BY <2>3, Sentinels DEF FreeSlots, Entries
  <2>5. elem'[id] = e /\ value'[e] = p /\ \A k \in Id \ {id} : elem'[k] = elem[k]
    BY <2>1, <2>3, <2>4 DEF TypeOK
  <2>6. \A k \in Id \ {id} : elem[k] # NoSlot => value'[elem'[k]] = value[elem[k]]
    BY <2>3, <2>4, <2>5 DEF TypeOK
  <2>7. \A t \in Sessions : Settled(t)' = Settled(t) /\ Holding(t)' = Holding(t)
    BY <2>1 DEF Settled, Holding
  <2>8. elem'[0] = NoSlot
    <3>1. 0 \in Id \ {id}
      BY <2>2, StartIDType DEF Id
    <3> QED BY <2>5, <3>1 DEF MapInv
  <2>9. RangesDisjoint'
    BY <2>7 DEF MapInv, RangesDisjoint, Overlap
  <2>10. ASSUME NEW t \in Sessions, NEW j \in 1..Last(t), specIDs'[<<t, j>>] # 0, ~Settled(t)
         PROVE  /\ elem'[specIDs'[<<t, j>>]] # NoSlot => value'[elem'[specIDs'[<<t, j>>]]] = <<t, j>>
                /\ Holding(t) => elem'[specIDs'[<<t, j>>]] # NoSlot
    <3>1. CASE <<t, j>> = p
      BY <2>1, <2>4, <2>5, <3>1 DEF TypeOK
    <3>2. CASE <<t, j>> # p
      <4>1. <<t, j>> \in Uprobe /\ specIDs'[<<t, j>>] = specIDs[<<t, j>>] /\ specIDs[<<t, j>>] \in Id
        BY <2>1, <3>2, UprobeElements DEF TypeOK
      <4>2. specIDs[<<t, j>>] # id
        <5>1. CASE t = s
          <6>1. specIDs[<<t, j>>] < nextID[s] /\ specIDs[<<t, j>>] \in Nat
            BY <2>1, <2>10, <4>1, <5>1 DEF IDInv, IDRange, Id
          <6> QED BY <2>1, <6>1
        <5>2. CASE t # s
          <6>1. ~Settled(s)
            BY <2>1 DEF Settled
          <6> QED BY <2>2, <2>10, <4>1, <5>2, <6>1, OneUser DEF MapInv
        <5> QED BY <5>1, <5>2
      <4>3. /\ elem[specIDs[<<t, j>>]] # NoSlot => value[elem[specIDs[<<t, j>>]]] = <<t, j>>
            /\ Holding(t) => elem[specIDs[<<t, j>>]] # NoSlot
        BY <2>10, <4>1 DEF MapInv, OwnEntry, Stored
      <4> QED BY <2>5, <2>6, <4>1, <4>2, <4>3
    <3> QED BY <3>1, <3>2
  <2>11. \A t \in Sessions : OwnEntry(t)' /\ Stored(t)'
    BY <2>7, <2>10, HoldingUnsettled DEF OwnEntry, Stored
  <2> QED BY <2>8, <2>9, <2>11 DEF MapInv
<1>3. ASSUME NEW s \in Sessions, PopulatePutFails(s) PROVE MapInv'
  <2>1. pc' = [pc EXCEPT ![s] = "failed"] /\ UNCHANGED <<elem, value, closes>>
    BY <1>3 DEF PopulatePutFails, Goto, mapVars
  <2>2. \A t \in Sessions \ {s} : \A j \in 1..Last(t) : specIDs'[<<t, j>>] = specIDs[<<t, j>>]
    BY <1>3, UprobeElements DEF PopulatePutFails
  <2>3. Settled(s)' /\ ~Holding(s)'
    BY <2>1 DEF TypeOK, Settled, Holding
  <2>4. \A t \in Sessions \ {s} : Settled(t)' = Settled(t) /\ Holding(t)' = Holding(t)
    BY <2>1 DEF TypeOK, Settled, Holding
  <2>5. RangesDisjoint'
    BY <2>3, <2>4 DEF MapInv, RangesDisjoint, Overlap
  <2>6. OwnEntry(s)' /\ Stored(s)'
    BY <2>3 DEF OwnEntry, Stored
  <2>7. \A t \in Sessions \ {s} : OwnEntry(t)' /\ Stored(t)'
    BY <2>1, <2>2, <2>4 DEF MapInv, OwnEntry, Stored
  <2> QED BY <2>1, <2>5, <2>6, <2>7 DEF MapInv
<1>4. ASSUME NEW s \in Sessions, DeleteOne(s) PROVE MapInv'
  <2> DEFINE id == specIDs[<<s, loop[s]>>]
  <2>1. /\ pc[s] = "delete" /\ UNCHANGED <<pc, closes, specIDs, value>>
        /\ loop[s] \in 1..Last(s) /\ id # 0
        /\ elem' = [elem EXCEPT ![id] = NoSlot]
    BY <1>4, UprobeElements DEF DeleteOne, MapDelete, InSpecIDs, TypeOK
  <2>2. <<s, loop[s]>> \in Uprobe /\ id \in Id /\ id \in Nat
    BY <2>1, UprobeElements DEF TypeOK, Id
  <2>3. StartID[s] <= id /\ id < StartID[s] + Last(s)
    <3>1. StartID[s] <= id /\ id < StartID[s] + loop[s]
      BY <2>1 DEF IDInv, IDRange
    <3>2. StartID[s] \in Nat /\ Last(s) \in Nat
      BY StartIDType, UprobeElements
    <3> QED BY <2>1, <2>2, <3>1, <3>2
  <2>4. \A k \in Id : elem'[k] = IF k = id THEN NoSlot ELSE elem[k]
    BY <2>1, <2>2 DEF TypeOK
  <2>5. \A t \in Sessions : Settled(t)' = Settled(t) /\ Holding(t)' = Holding(t)
    BY <2>1 DEF Settled, Holding
  <2>6. elem'[0] = NoSlot
    <3>1. 0 \in Id
      BY StartIDType DEF Id
    <3> QED BY <2>4, <3>1 DEF MapInv
  <2>7. RangesDisjoint'
    BY <2>5 DEF MapInv, RangesDisjoint, Overlap
  <2>8. \A t \in Sessions : \A j \in 1..Last(t) : specIDs[<<t, j>>] \in Id
    BY UprobeElements DEF TypeOK
  <2>9. \A t \in Sessions : OwnEntry(t)'
    BY <2>1, <2>4, <2>5, <2>8 DEF MapInv, OwnEntry
  <2>10. ASSUME NEW t \in Sessions, Holding(t), NEW j \in 1..Last(t), specIDs[<<t, j>>] # 0
         PROVE  elem'[specIDs[<<t, j>>]] # NoSlot
    <3>1. t # s
      BY <2>1, <2>10 DEF Holding
    <3>2. ~Settled(s) /\ ~Settled(t)
      BY <2>1, <2>10, HoldingUnsettled
    <3>3. specIDs[<<t, j>>] # id
      BY <2>3, <2>10, <3>1, <3>2, OneUser DEF MapInv
    <3>4. elem[specIDs[<<t, j>>]] # NoSlot
      BY <2>10 DEF MapInv, Stored
    <3> QED BY <2>4, <2>8, <3>3, <3>4
  <2>11. \A t \in Sessions : Stored(t)'
    BY <2>1, <2>5, <2>10 DEF Stored
  <2> QED BY <2>6, <2>7, <2>9, <2>11 DEF MapInv
<1>5. ASSUME NEW s \in Sessions, PopulateSkip(s) PROVE MapInv'
  <2>1. UNCHANGED <<elem, value, specIDs>>
    BY <1>5 DEF PopulateSkip, mapVars
  <2>2. \A t \in Sessions : (Settled(t) => Settled(t)') /\ (Holding(t)' => Holding(t))
    BY <1>5 DEF PopulateSkip, TypeOK, Goto, mapVars, Settled, Holding
  <2> QED BY <2>1, <2>2, MapFrame
<1>6. ASSUME NEW s \in Sessions, PopulateReturns(s) PROVE MapInv'
  <2>1. UNCHANGED <<elem, value, specIDs>>
    BY <1>6 DEF PopulateReturns, mapVars
  <2>2. \A t \in Sessions : (Settled(t) => Settled(t)') /\ (Holding(t)' => Holding(t))
    BY <1>6 DEF PopulateReturns, TypeOK, Goto, mapVars, Settled, Holding
  <2> QED BY <2>1, <2>2, MapFrame
<1>7. ASSUME NEW s \in Sessions, AttachOne(s) PROVE MapInv'
  <2>1. UNCHANGED <<elem, value, specIDs>>
    BY <1>7 DEF AttachOne, mapVars
  <2>2. \A t \in Sessions : (Settled(t) => Settled(t)') /\ (Holding(t)' => Holding(t))
    BY <1>7 DEF AttachOne, TypeOK, Goto, mapVars, Settled, Holding
  <2> QED BY <2>1, <2>2, MapFrame
<1>8. ASSUME NEW s \in Sessions, AttachFails(s) PROVE MapInv'
  <2>1. UNCHANGED <<elem, value, specIDs>>
    BY <1>8 DEF AttachFails, mapVars
  <2>2. \A t \in Sessions : (Settled(t) => Settled(t)') /\ (Holding(t)' => Holding(t))
    BY <1>8 DEF AttachFails, TypeOK, Goto, mapVars, Settled, Holding
  <2> QED BY <2>1, <2>2, MapFrame
<1>9. ASSUME NEW s \in Sessions, AttachReturns(s) PROVE MapInv'
  <2>1. UNCHANGED <<elem, value, specIDs>>
    BY <1>9 DEF AttachReturns, mapVars
  <2>2. \A t \in Sessions : (Settled(t) => Settled(t)') /\ (Holding(t)' => Holding(t))
    BY <1>9 DEF AttachReturns, TypeOK, Goto, mapVars, Settled, Holding
  <2> QED BY <2>1, <2>2, MapFrame
<1>10. ASSUME NEW s \in Sessions, CloseBegin(s) PROVE MapInv'
  <2>1. UNCHANGED <<elem, value, specIDs>>
    BY <1>10 DEF CloseBegin, mapVars, sessionVars
  <2>2. \A t \in Sessions : (Settled(t) => Settled(t)') /\ (Holding(t)' => Holding(t))
    BY <1>10 DEF CloseBegin, TypeOK, Goto, mapVars, sessionVars, Settled, Holding
  <2> QED BY <2>1, <2>2, MapFrame
<1>11. ASSUME NEW s \in Sessions, CloseEnd(s) PROVE MapInv'
  <2>1. UNCHANGED <<elem, value, specIDs>>
    BY <1>11 DEF CloseEnd, mapVars
  <2>2. \A t \in Sessions : (Settled(t) => Settled(t)') /\ (Holding(t)' => Holding(t))
    BY <1>11 DEF CloseEnd, TypeOK, Goto, mapVars, Settled, Holding
  <2> QED BY <2>1, <2>2, MapFrame
<1>12. ASSUME NEW s \in Sessions, CloseFails(s) PROVE MapInv'
  <2>1. UNCHANGED <<elem, value, specIDs>>
    BY <1>12 DEF CloseFails, mapVars
  <2>2. \A t \in Sessions : (Settled(t) => Settled(t)') /\ (Holding(t)' => Holding(t))
    BY <1>12 DEF CloseFails, TypeOK, Goto, mapVars, Settled, Holding
  <2> QED BY <2>1, <2>2, MapFrame
<1>13. ASSUME NEW s \in Sessions, UndoReturns(s) PROVE MapInv'
  <2>1. UNCHANGED <<elem, value, specIDs>>
    BY <1>13 DEF UndoReturns, mapVars
  <2>2. \A t \in Sessions : (Settled(t) => Settled(t)') /\ (Holding(t)' => Holding(t))
    BY <1>13 DEF UndoReturns, TypeOK, Goto, mapVars, Settled, Holding
  <2> QED BY <2>1, <2>2, MapFrame
<1>14. ASSUME NEW s \in Sessions, LinksClosed(s) PROVE MapInv'
  <2>1. UNCHANGED <<elem, value, specIDs>>
    BY <1>14 DEF LinksClosed, mapVars
  <2>2. \A t \in Sessions : (Settled(t) => Settled(t)') /\ (Holding(t)' => Holding(t))
    BY <1>14 DEF LinksClosed, TypeOK, Goto, mapVars, Settled, Holding
  <2> QED BY <2>1, <2>2, MapFrame
<1>15. ASSUME NEW s \in Sessions, DeleteSkip(s) PROVE MapInv'
  <2>1. UNCHANGED <<elem, value, specIDs>>
    BY <1>15 DEF DeleteSkip, mapVars
  <2>2. \A t \in Sessions : (Settled(t) => Settled(t)') /\ (Holding(t)' => Holding(t))
    BY <1>15 DEF DeleteSkip, TypeOK, Goto, mapVars, Settled, Holding
  <2> QED BY <2>1, <2>2, MapFrame
<1>16. ASSUME NEW s \in Sessions, DeleteFails(s) PROVE MapInv'
  <2>1. UNCHANGED <<elem, value, specIDs>>
    BY <1>16 DEF DeleteFails, mapVars
  <2>2. \A t \in Sessions : (Settled(t) => Settled(t)') /\ (Holding(t)' => Holding(t))
    BY <1>16 DEF DeleteFails, TypeOK, Goto, mapVars, Settled, Holding
  <2> QED BY <2>1, <2>2, MapFrame
<1>17. ASSUME NEW s \in Sessions, UnloadReturns(s) PROVE MapInv'
  <2>1. UNCHANGED <<elem, value, specIDs>>
    BY <1>17 DEF UnloadReturns, mapVars
  <2>2. \A t \in Sessions : (Settled(t) => Settled(t)') /\ (Holding(t)' => Holding(t))
    BY <1>17 DEF UnloadReturns, TypeOK, Goto, mapVars, Settled, Holding
  <2> QED BY <2>1, <2>2, MapFrame
<1>18. ASSUME NEW s \in Sessions, CallAttach(s) PROVE MapInv'
  <2>1. UNCHANGED <<elem, value, specIDs>>
    BY <1>18 DEF CallAttach, mapVars
  <2>2. \A t \in Sessions : (Settled(t) => Settled(t)') /\ (Holding(t)' => Holding(t))
    BY <1>18 DEF CallAttach, TypeOK, Goto, mapVars, Settled, Holding
  <2> QED BY <2>1, <2>2, MapFrame
<1>19. ASSUME NEW s \in Sessions, AdoptSpecIDs(s) PROVE MapInv'
  <2>1. UNCHANGED <<elem, value, specIDs>>
    BY <1>19 DEF AdoptSpecIDs, mapVars
  <2>2. \A t \in Sessions : (Settled(t) => Settled(t)') /\ (Holding(t)' => Holding(t))
    BY <1>19 DEF AdoptSpecIDs, TypeOK, Goto, mapVars, Settled, Holding
  <2> QED BY <2>1, <2>2, MapFrame
<1>20. ASSUME NEW s \in Sessions, CallClose(s) PROVE MapInv'
  <2>0. CloseCount(s) /\ closes[s] \in Nat
    BY DEF LinkInv, TypeOK
  <2>1. UNCHANGED <<elem, value, specIDs>>
    BY <1>20 DEF CallClose, mapVars
  <2>2. \A t \in Sessions : (Settled(t) => Settled(t)') /\ (Holding(t)' => Holding(t))
    BY <2>0, <1>20 DEF CarefulCallers, CallClose, TypeOK, Goto, mapVars, Settled, Holding, CloseCount
  <2> QED BY <2>1, <2>2, MapFrame
<1>21. ASSUME NEW c \in CPUs, ProgramStep(c) \/ \E p \in Uprobe : Fire(c, p)
      PROVE  MapInv'
  <2>1. UNCHANGED <<elem, value, specIDs, pc, closes>>
    BY <1>21 DEF ProgramStep, ArgLookup, ArgMiss, ArgRead, Return, Fire, sessionVars, mapVars
  <2> QED BY <2>1, MapFrame DEF Settled, Holding
<1>22. CASE UNCHANGED vars
  <2>1. UNCHANGED <<elem, value, specIDs, pc, closes>>
    BY <1>22 DEF vars, sessionVars, mapVars
  <2> QED BY <2>1, MapFrame DEF Settled, Holding
<1> QED
  BY <1>1, <1>2, <1>3, <1>4, <1>5, <1>6, <1>7, <1>8, <1>9, <1>10, <1>11, <1>12, <1>13, <1>14, <1>15, <1>16, <1>17, <1>18, <1>19, <1>20, <1>21, <1>22
  DEF Next, LibraryStep, CallerStep

-----------------------------------------------------------------------------
(***************************************************************************)
(* What running programs read.                                             *)
(***************************************************************************)
\* The state parts a running program's lookups depend on.
StaticInv == TypeInv /\ IDInv /\ LinkInv /\ MapInv /\ CookieInv

\* A program on a link that never failed to close runs for a session that holds
\* its entries, and reads that probe's spec ID (or 0) from its cookie.
LEMMA Running ==
  ASSUME CarefulCallers, StaticInv, NEW c \in CPUs, on[c] # Idle, on[c] \notin tainted
  PROVE  \E s \in Sessions : \E j \in 1..Last(s) :
           /\ on[c] = <<s, j>> /\ Holding(s) /\ pc[s] \notin {"idle", "populate", "populated"}
           /\ specIDs[on[c]] \in Id
           /\ SpecID(cookie[on[c]]) = IF merged[s] THEN specIDs[on[c]] ELSE 0
           /\ HasSpec(on[c]) => specIDs[on[c]] # 0
<1> USE DEF StaticInv, TypeInv
<1>1. on[c] \in Uprobe /\ link[on[c]] \in Live
  BY DEF TypeOK, LinkInv, RunsOnLive
<1>2. PICK s \in Sessions : \E j \in 1..Last(s) : on[c] = <<s, j>>
  BY <1>1, UprobeElements
<1>3. PICK j \in 1..Last(s) : on[c] = <<s, j>>
  BY <1>2
<1>4. StillOpen(s, j)
  BY <1>1, <1>3 DEF LinkInv, LiveLinks
<1>5. Holding(s) /\ pc[s] \notin {"idle", "populate", "populated", "failed"}
  BY <1>4 DEF StillOpen, Holding
<1>6. specIDs[on[c]] \in Id /\ specIDs[on[c]] \in Nat /\ cookie[on[c]] \in Nat
  BY <1>1, StartIDType DEF TypeOK, Id
<1>7. cookie[on[c]] \div U32 = IF merged[s] THEN specIDs[on[c]] ELSE 0
  BY <1>1, <1>3 DEF CookieInv, Live
<1>8. specIDs[on[c]] < U32 \div 2 /\ 0 < U32 \div 2
  <2>1. U32 \in Nat \ {0} /\ StartID[s] \in Nat /\ Last(s) \in Nat
    BY StartIDType, UprobeElements
  <2>2. StartID[s] >= 1 /\ StartID[s] + Last(s) <= U32 \div 2
    BY DEF CarefulCallers, SaneStartIDs
  <2>3. specIDs[on[c]] # 0 => specIDs[on[c]] < StartID[s] + j
    BY <1>3 DEF IDInv, IDRange
  <2> QED BY <1>6, <2>1, <2>2, <2>3
<1>9. SpecID(cookie[on[c]]) = IF merged[s] THEN specIDs[on[c]] ELSE 0
  BY <1>7, <1>8 DEF SpecID
<1>10. HasSpec(on[c]) => specIDs[on[c]] # 0
  BY <1>3, <1>5 DEF IDInv, IDAssigned
<1> QED BY <1>3, <1>5, <1>6, <1>9, <1>10

\* A running program whose lookup finds something finds its own spec.
LEMMA FoundOwn ==
  ASSUME CarefulCallers, StaticInv, NEW c \in CPUs, on[c] # Idle, on[c] \notin tainted,
         Found(c)
  PROVE  specIDs[on[c]] # 0 /\ SpecID(cookie[on[c]]) = specIDs[on[c]]
<1>1. PICK s \in Sessions :
        SpecID(cookie[on[c]]) = IF merged[s] THEN specIDs[on[c]] ELSE 0
  BY Running
<1>2. SpecID(cookie[on[c]]) # 0
  BY DEF Found, StaticInv, MapInv
<1> QED BY <1>1, <1>2

\* The map changes no entry that a running program uses.
LEMMA EntryKept ==
  ASSUME CarefulCallers, StaticInv, NEW c \in CPUs, on[c] # Idle, on[c] \notin tainted,
         specIDs[on[c]] # 0, NEW s \in Sessions, PopulatePut(s) \/ DeleteOne(s)
  PROVE  specIDs'[on[c]] = specIDs[on[c]] /\ elem'[specIDs[on[c]]] = elem[specIDs[on[c]]]
<1> USE DEF StaticInv, TypeInv
<1>1. PICK t \in Sessions : \E j \in 1..Last(t) :
        /\ on[c] = <<t, j>> /\ Holding(t) /\ pc[t] # "populate" /\ specIDs[on[c]] \in Id
  BY Running
<1>2. PICK j \in 1..Last(t) : on[c] = <<t, j>>
  BY <1>1
<1>3. t # s /\ ~Settled(t) /\ ~Settled(s)
  <2>1. pc[s] \in {"populate", "delete"}
    BY DEF PopulatePut, DeleteOne
  <2> QED BY <1>1, <2>1 DEF Holding, Settled
<1>4. CASE PopulatePut(s)
  <2>1. /\ pc[s] = "populate" /\ loop[s] \in 1..Last(s) /\ nextID[s] \in Id
        /\ specIDs' = [specIDs EXCEPT ![<<s, loop[s]>>] = nextID[s]]
    BY <1>4, UprobeElements DEF PopulatePut, TypeOK
  <2>2. StartID[s] <= nextID[s] /\ nextID[s] < StartID[s] + Last(s)
    <3>1. StartID[s] <= nextID[s] /\ nextID[s] < StartID[s] + loop[s]
      BY <2>1 DEF IDInv, IDRange
    <3>2. StartID[s] \in Nat /\ Last(s) \in Nat /\ nextID[s] \in Nat
      BY <2>1, StartIDType, UprobeElements DEF Id
    <3> QED BY <2>1, <3>1, <3>2
  <2>3. specIDs[on[c]] # nextID[s]
    BY <1>2, <1>3, <2>2, OneUser DEF MapInv
  <2>4. specIDs'[on[c]] = specIDs[on[c]]
    BY <1>2, <1>3, <2>1, UprobeElements DEF TypeOK
  <2>5. PICK e : elem' = [elem EXCEPT ![nextID[s]] = e]
    BY <1>4 DEF PopulatePut, MapPut
  <2> QED BY <1>1, <2>3, <2>4, <2>5 DEF TypeOK
<1>5. CASE DeleteOne(s)
  <2>1. /\ loop[s] \in 1..Last(s) /\ specIDs[<<s, loop[s]>>] # 0 /\ specIDs' = specIDs
        /\ elem' = [elem EXCEPT ![specIDs[<<s, loop[s]>>]] = NoSlot]
    BY <1>5, UprobeElements DEF DeleteOne, MapDelete, InSpecIDs, TypeOK
  <2>2. /\ StartID[s] <= specIDs[<<s, loop[s]>>]
        /\ specIDs[<<s, loop[s]>>] < StartID[s] + Last(s)
    <3>1. /\ StartID[s] <= specIDs[<<s, loop[s]>>]
          /\ specIDs[<<s, loop[s]>>] < StartID[s] + loop[s]
      BY <2>1 DEF IDInv, IDRange
    <3>2. <<s, loop[s]>> \in Uprobe
      BY <2>1, UprobeElements
    <3>3. StartID[s] \in Nat /\ Last(s) \in Nat /\ specIDs[<<s, loop[s]>>] \in Nat
      BY <3>2, StartIDType, UprobeElements DEF TypeOK, Id
    <3> QED BY <2>1, <3>1, <3>3
  <2>3. specIDs[on[c]] # specIDs[<<s, loop[s]>>]
    BY <1>2, <1>3, <2>2, OneUser DEF MapInv
  <2> QED BY <1>1, <2>1, <2>3 DEF TypeOK
<1> QED BY <1>4, <1>5

\* A link keeps its cookie, and no spec ID of its session changes under it.
LEMMA CookieStep ==
  TypeInv /\ TypeInv' /\ LinkInv /\ CookieInv /\ [Next]_vars => CookieInv'
<1> SUFFICES ASSUME TypeInv, TypeInv', LinkInv, CookieInv, [Next]_vars,
                    NEW t \in Sessions, NEW j \in 1..Last(t), link'[<<t, j>>] # "none"
             PROVE  cookie'[<<t, j>>] \div U32 = IF merged'[t] THEN specIDs'[<<t, j>>] ELSE 0
  BY DEF CookieInv
<1> USE DEF TypeInv
<1>0. <<t, j>> \in Uprobe /\ LinkPrefix(t)
  BY UprobeElements DEF LinkInv
<1>1. link[<<t, j>>] # "none" =>
        cookie[<<t, j>>] \div U32 = IF merged[t] THEN specIDs[<<t, j>>] ELSE 0
  BY DEF CookieInv
<1>2. CASE \E s \in Sessions : AttachOne(s)
  <2>1. PICK s \in Sessions : AttachOne(s)
    BY <1>2
  <2>2. UNCHANGED <<merged, specIDs>>
    BY <2>1 DEF AttachOne
  <2>3. CASE <<t, j>> = <<s, loop[s]>>
    <3>1. t = s /\ j = loop[s]
      BY <2>3
    <3>2. cookie'[<<t, j>>] = OptCookie(t, j)
      BY <1>0, <2>1, <3>1 DEF AttachOne, TypeOK
    <3>3. specIDs \in [Uprobe -> Id] /\ merged \in [Sessions -> BOOLEAN]
      BY DEF TypeOK
    <3> QED BY <2>2, <3>2, <3>3, CookieOfProbe
  <2>4. CASE <<t, j>> # <<s, loop[s]>>
    <3>1. link'[<<t, j>>] = link[<<t, j>>] /\ cookie'[<<t, j>>] = cookie[<<t, j>>]
      BY <1>0, <2>1, <2>4 DEF AttachOne, TypeOK
    <3> QED BY <1>1, <2>2, <3>1
  <2> QED BY <2>3, <2>4
<1>3. CASE \E s \in Sessions : PopulatePut(s) \/ PopulatePutFails(s) \/ CallAttach(s)
  <2>1. PICK s \in Sessions : PopulatePut(s) \/ PopulatePutFails(s) \/ CallAttach(s)
    BY <1>3
  <2>2. UNCHANGED <<link, cookie>> /\ pc[s] \in {"populate", "populated"}
    BY <2>1 DEF PopulatePut, PopulatePutFails, CallAttach, linkVars
  <2>3. t # s
    BY <1>0, <2>2 DEF LinkPrefix
  <2>4. specIDs'[<<t, j>>] = specIDs[<<t, j>>]
    BY <1>0, <2>1, <2>3 DEF PopulatePut, PopulatePutFails, CallAttach, TypeOK
  <2>5. merged'[t] = merged[t]
    BY <2>1, <2>3 DEF PopulatePut, PopulatePutFails, CallAttach, TypeOK
  <2> QED BY <1>1, <2>2, <2>4, <2>5
<1>4. CASE \E s \in Sessions : CloseBegin(s) \/ CloseEnd(s) \/ CloseFails(s)
  <2>1. PICK s \in Sessions : CloseBegin(s) \/ CloseEnd(s) \/ CloseFails(s)
    BY <1>4
  <2>2. UNCHANGED <<merged, specIDs, cookie>>
    BY <2>1 DEF CloseBegin, CloseEnd, CloseFails, sessionVars
  <2>3. link[<<s, loop[s]>>] # "none"
    BY <2>1 DEF CloseBegin, CloseEnd, CloseFails, InLinks
  <2>4. PICK l : link' = [link EXCEPT ![<<s, loop[s]>>] = l]
    BY <2>1 DEF CloseBegin, CloseEnd, CloseFails
  <2>5. link[<<t, j>>] # "none"
    BY <1>0, <2>3, <2>4 DEF TypeOK
  <2> QED BY <1>1, <2>2, <2>5
<1>5. CASE UNCHANGED <<link, cookie, merged, specIDs>>
  BY <1>1, <1>5
<1> QED
  BY <1>2, <1>3, <1>4, <1>5
  DEF Next, LibraryStep, CallerStep, ProgramStep, PopulateSkip, PopulateReturns, AttachFails,
      AttachReturns, UndoReturns, LinksClosed, DeleteSkip, DeleteOne, DeleteFails,
      UnloadReturns, CallPopulate, AdoptSpecIDs, CallClose, ArgLookup, ArgMiss, ArgRead,
      Return, Fire, vars, sessionVars, linkVars

\* What every other step leaves alone: the programs, the specs of the probes they
\* run on and the entries of those specs.
LEMMA ProgramFrame ==
  ASSUME CarefulCallers, StaticInv, NEW s \in Sessions, LibraryStep(s) \/ CallerStep(s)
  PROVE  /\ UNCHANGED <<on, argNum, ptr, seen>> /\ tainted \subseteq tainted'
         /\ \A c \in CPUs : on[c] # Idle /\ on[c] \notin tainted =>
              /\ merged'[on[c][1]] = merged[on[c][1]]
              /\ specIDs'[on[c]] = specIDs[on[c]]
              /\ specIDs[on[c]] # 0 => elem'[specIDs[on[c]]] = elem[specIDs[on[c]]]
<1> USE DEF StaticInv, TypeInv
<1>1. UNCHANGED <<on, argNum, ptr, seen>> /\ tainted \subseteq tainted'
  BY DEF LibraryStep, CallerStep, PopulateSkip, PopulatePut, PopulatePutFails,
         PopulateReturns, AttachOne, AttachFails, AttachReturns, CloseBegin, CloseEnd,
         CloseFails, UndoReturns, LinksClosed, DeleteSkip, DeleteOne, DeleteFails,
         UnloadReturns, CallPopulate, CallAttach, AdoptSpecIDs, CallClose, linkVars, bpfVars
<1>2. ASSUME NEW c \in CPUs, on[c] # Idle, on[c] \notin tainted
      PROVE  /\ merged'[on[c][1]] = merged[on[c][1]]
             /\ specIDs'[on[c]] = specIDs[on[c]]
             /\ specIDs[on[c]] # 0 => elem'[specIDs[on[c]]] = elem[specIDs[on[c]]]
  <2>1. PICK t \in Sessions : \E j \in 1..Last(t) :
          on[c] = <<t, j>> /\ pc[t] \notin {"populate", "populated"}
    BY <1>2, Running
  <2>2. on[c][1] = t /\ on[c] \in Uprobe /\ pc[t] \notin {"populate", "populated"}
    BY <2>1, UprobeElements
  <2>3. CASE CallAttach(s)
    BY <2>2, <2>3 DEF CallAttach, mapVars, TypeOK
  <2>4. CASE PopulatePutFails(s)
    BY <2>2, <2>4 DEF PopulatePutFails, mapVars, TypeOK
  <2>5. CASE PopulatePut(s)
    <3>1. merged' = merged
      BY <2>5 DEF PopulatePut
    <3>2. pc[s] = "populate" /\ \E id : specIDs' = [specIDs EXCEPT ![<<s, loop[s]>>] = id]
      BY <2>5 DEF PopulatePut
    <3>3. specIDs'[on[c]] = specIDs[on[c]]
      BY <2>1, <2>2, <3>2 DEF TypeOK
    <3> QED BY <1>2, <2>5, <3>1, <3>3, EntryKept
  <2>6. CASE DeleteOne(s)
    <3>1. merged' = merged /\ specIDs' = specIDs
      BY <2>6 DEF DeleteOne
    <3> QED BY <1>2, <2>6, <3>1, EntryKept
  <2>7. CASE UNCHANGED <<merged, specIDs, elem>>
    BY <2>7
  <2> QED
    BY <2>3, <2>4, <2>5, <2>6, <2>7
    DEF LibraryStep, CallerStep, PopulateSkip, PopulateReturns, AttachOne, AttachFails,
        AttachReturns, CloseBegin, CloseEnd, CloseFails, UndoReturns, LinksClosed, DeleteSkip,
        DeleteFails, UnloadReturns, CallPopulate, AdoptSpecIDs, CallClose, mapVars, sessionVars
<1> QED BY <1>1, <1>2

\* The element a program holds stays the element of its own spec ID.
LEMMA HoldsOwnStep ==
  CarefulCallers /\ StaticInv /\ HoldsOwn /\ [Next]_vars => HoldsOwn'
<1> SUFFICES ASSUME CarefulCallers, StaticInv, HoldsOwn, [Next]_vars,
                    NEW c \in CPUs, on'[c] \notin tainted', ptr'[c] # NoSlot
             PROVE  specIDs'[on'[c]] # 0 /\ ptr'[c] = elem'[specIDs'[on'[c]]]
  BY DEF HoldsOwn
<1> USE DEF StaticInv, TypeInv
<1>0. ptr[c] # NoSlot => on[c] # Idle /\ argNum[c] < NArgs
  BY DEF MidFetch
<1>1. CASE \E s \in Sessions : LibraryStep(s) \/ CallerStep(s)
  <2>1. UNCHANGED <<on, ptr>> /\ tainted \subseteq tainted'
    BY <1>1, ProgramFrame
  <2>2. on[c] # Idle /\ on[c] \notin tainted /\ ptr[c] # NoSlot
    BY <1>0, <2>1
  <2>3. specIDs[on[c]] # 0 /\ ptr[c] = elem[specIDs[on[c]]]
    BY <2>2 DEF HoldsOwn
  <2> QED BY <1>1, <2>1, <2>2, <2>3, ProgramFrame
<1>2. CASE \E d \in CPUs : ArgLookup(d)
  <2>1. PICK d \in CPUs : ArgLookup(d)
    BY <1>2
  <2>2. UNCHANGED <<on, specIDs, elem, tainted>>
    BY <2>1 DEF ArgLookup, mapVars, sessionVars, linkVars
  <2>3. CASE c = d
    <3>1. on[c] # Idle /\ Found(c) /\ ptr'[c] = elem[SpecID(cookie[on[c]])]
      BY <2>1, <2>3 DEF ArgLookup, TypeOK
    <3> QED BY <2>2, <3>1, FoundOwn
  <2>4. CASE c # d
    <3>1. ptr'[c] = ptr[c]
      BY <2>1, <2>4 DEF ArgLookup, TypeOK
    <3> QED BY <2>2, <3>1 DEF HoldsOwn
  <2> QED BY <2>3, <2>4
<1>3. CASE \/ \E d \in CPUs : ArgMiss(d) \/ ArgRead(d) \/ Return(d)
           \/ \E d \in CPUs : \E p \in Uprobe : Fire(d, p)
  <2>1. UNCHANGED <<specIDs, elem, tainted>>
    BY <1>3 DEF ArgMiss, ArgRead, Return, Fire, mapVars, sessionVars, linkVars
  <2>2. ptr'[c] = ptr[c] /\ on'[c] = on[c]
    BY <1>0, <1>3, BoundsType DEF ArgMiss, ArgRead, Return, Fire, TypeOK
  <2> QED BY <2>1, <2>2 DEF HoldsOwn
<1>4. CASE UNCHANGED vars
  BY <1>4 DEF HoldsOwn, vars, mapVars, sessionVars, linkVars, bpfVars
<1> QED BY <1>1, <1>2, <1>3, <1>4 DEF Next, ProgramStep

\* What one program may have seen, the common form of OwnSpec and Delivered.
SeenOK(c) ==
  on[c] # Idle /\ on[c] \notin tainted =>
    /\ \A r \in seen[c] : r[2] \in {on[c], Miss}
    /\ HasSpec(on[c]) /\ merged[on[c][1]] =>
         \A r \in seen[c] : r[1] < Args(on[c]).cnt => r[2] = on[c]

SeenInv == \A c \in CPUs : SeenOK(c)

\* What the inductive invariant says of the fetches is what the runs check.
LEMMA SeenIsOwnAndDelivered == SeenInv => OwnSpec /\ Delivered
BY DEF SeenInv, SeenOK, OwnSpec, Delivered

\* A fetch returns the program's own spec, or nothing where it has none; no other
\* step changes what was fetched.
LEMMA SeenStep ==
  /\ CarefulCallers /\ StaticInv /\ HoldsOwn /\ SeenInv
  /\ [Next]_vars
  => SeenInv'
<1> SUFFICES ASSUME CarefulCallers, StaticInv, HoldsOwn, SeenInv, [Next]_vars,
                    NEW c \in CPUs
             PROVE  SeenOK(c)'
  BY DEF SeenInv
<1> USE DEF StaticInv, TypeInv
<1>0. SeenOK(c) /\ (ptr[c] # NoSlot => on[c] # Idle)
  BY DEF SeenInv, MidFetch
<1>1. CASE \E s \in Sessions : LibraryStep(s) \/ CallerStep(s)
  <2>1. UNCHANGED <<on, seen>> /\ tainted \subseteq tainted'
    BY <1>1, ProgramFrame
  <2>2. on[c] # Idle /\ on[c] \notin tainted => merged'[on[c][1]] = merged[on[c][1]]
    BY <1>1, ProgramFrame
  <2> QED BY <1>0, <2>1, <2>2 DEF SeenOK, HasSpec, Args
<1>2. ASSUME NEW d \in CPUs, ArgMiss(d) PROVE SeenOK(c)'
  <2>1. UNCHANGED <<on, tainted, merged>>
    BY <1>2 DEF ArgMiss, sessionVars, linkVars
  <2>2. CASE c # d
    <3>1. seen'[c] = seen[c]
      BY <1>2, <2>2 DEF ArgMiss, TypeOK
    <3> QED BY <1>0, <2>1, <3>1 DEF SeenOK, HasSpec, Args
  <2>3. CASE c = d
    <3>1. on[c] # Idle /\ ~Found(c) /\ seen'[c] = seen[c] \cup {<<argNum[c], Miss>>}
      BY <1>2, <2>3 DEF ArgMiss, TypeOK
    <3>2. ASSUME on[c] \notin tainted, HasSpec(on[c]), merged[on[c][1]] PROVE FALSE
      <4>1. PICK s \in Sessions : \E j \in 1..Last(s) :
              /\ on[c] = <<s, j>> /\ Holding(s)
              /\ specIDs[on[c]] \in Id /\ specIDs[on[c]] # 0
              /\ SpecID(cookie[on[c]]) = IF merged[s] THEN specIDs[on[c]] ELSE 0
        BY <3>1, <3>2, Running
      <4>2. SpecID(cookie[on[c]]) = specIDs[on[c]] /\ specIDs[on[c]] >= 0
        BY <3>2, <4>1 DEF Id
      <4>3. elem[specIDs[on[c]]] # NoSlot
        BY <4>1 DEF MapInv, Stored
      <4> QED BY <3>1, <4>2, <4>3 DEF Found
    <3> QED BY <1>0, <2>1, <3>1, <3>2 DEF SeenOK, HasSpec, Args
  <2> QED BY <2>2, <2>3
<1>3. ASSUME NEW d \in CPUs, ArgRead(d) PROVE SeenOK(c)'
  <2>1. UNCHANGED <<on, tainted, merged>>
    BY <1>3 DEF ArgRead, sessionVars, linkVars
  <2>2. CASE c # d
    <3>1. seen'[c] = seen[c]
      BY <1>3, <2>2 DEF ArgRead, TypeOK
    <3> QED BY <1>0, <2>1, <3>1 DEF SeenOK, HasSpec, Args
  <2>3. CASE c = d
    <3> DEFINE spec == value[ptr[c]]
               res == IF argNum[c] < Args(spec).cnt THEN spec ELSE Miss
    <3>1. ptr[c] # NoSlot /\ on[c] # Idle /\ seen'[c] = seen[c] \cup {<<argNum[c], res>>}
      BY <1>0, <1>3, <2>3 DEF ArgRead, TypeOK
    <3>2. on[c] \notin tainted => spec = on[c]
      <4> SUFFICES ASSUME on[c] \notin tainted PROVE spec = on[c]
        OBVIOUS
      <4>1. specIDs[on[c]] # 0 /\ ptr[c] = elem[specIDs[on[c]]]
        BY <3>1 DEF HoldsOwn
      <4>2. PICK s \in Sessions : \E j \in 1..Last(s) : on[c] = <<s, j>> /\ Holding(s)
        BY <3>1, Running
      <4>3. ~Settled(s)
        BY <4>2, HoldingUnsettled
      <4> QED BY <3>1, <4>1, <4>2, <4>3 DEF MapInv, OwnEntry
    <3> HIDE DEF spec
    <3>3. on[c] \notin tainted =>
            res \in {on[c], Miss} /\ (argNum[c] < Args(on[c]).cnt => res = on[c])
      BY <3>2
    <3> HIDE DEF res
    <3> QED BY <1>0, <2>1, <3>1, <3>3 DEF SeenOK, HasSpec, Args
  <2> QED BY <2>2, <2>3
<1>4. ASSUME NEW d \in CPUs, Return(d) \/ \E p \in Uprobe : Fire(d, p) PROVE SeenOK(c)'
  <2>1. UNCHANGED <<tainted, merged>>
    BY <1>4 DEF Return, Fire, sessionVars, linkVars
  <2>2. seen'[c] = {} \/ (seen'[c] = seen[c] /\ on'[c] = on[c])
    BY <1>4 DEF Return, Fire, TypeOK
  <2> QED BY <1>0, <2>1, <2>2 DEF SeenOK, HasSpec, Args
<1>5. ASSUME NEW d \in CPUs, ArgLookup(d) PROVE SeenOK(c)'
  <2>1. UNCHANGED <<on, seen, tainted, merged>>
    BY <1>5 DEF ArgLookup, sessionVars, linkVars
  <2> QED BY <1>0, <2>1 DEF SeenOK, HasSpec, Args
<1>6. CASE UNCHANGED vars
  <2>1. UNCHANGED <<on, seen, tainted, merged>>
    BY <1>6 DEF vars, sessionVars, linkVars, bpfVars
  <2> QED BY <1>0, <2>1 DEF SeenOK, HasSpec, Args
<1> QED BY <1>1, <1>2, <1>3, <1>4, <1>5, <1>6 DEF Next, ProgramStep

-----------------------------------------------------------------------------
(***************************************************************************)
(* The theorems.                                                           *)
(***************************************************************************)
IInv == StaticInv /\ HoldsOwn /\ SeenInv

\* The inductive invariant holds before any call.
LEMMA IInvInit == Init => IInv
<1> SUFFICES ASSUME Init PROVE IInv
  OBVIOUS
<1>1. CookieInv
  BY UprobeElements DEF Init, CookieInv
<1>2. HoldsOwn /\ SeenInv
  BY DEF Init, HoldsOwn, SeenInv, SeenOK
<1> QED BY <1>1, <1>2, TypeInit, IDInit, LinkInit, MapInit DEF IInv, StaticInv

\* Every step of any session, caller or program preserves the inductive invariant.
LEMMA IInvStep == CarefulCallers /\ IInv /\ [Next]_vars => IInv'
<1> SUFFICES ASSUME CarefulCallers, IInv, [Next]_vars PROVE IInv'
  OBVIOUS
<1>1. TypeInv /\ IDInv /\ LinkInv /\ MapInv /\ CookieInv /\ HoldsOwn /\ SeenInv
  BY DEF IInv, StaticInv
<1>2. TypeInv'
  BY <1>1, TypeStep
<1>3. IDInv' /\ LinkInv' /\ MapInv' /\ CookieInv'
  BY <1>1, <1>2, IDStep, LinkStep, MapStep, CookieStep
<1>4. HoldsOwn' /\ SeenInv'
  BY HoldsOwnStep, SeenStep DEF IInv
<1> QED BY <1>2, <1>3, <1>4 DEF IInv, StaticInv

\* The inductive invariant holds throughout, for callers with sane spec IDs.
LEMMA IInvariant == CarefulCallers /\ Spec => []IInv
<1>1. CarefulCallers /\ Init => IInv
  BY IInvInit
<1>2. CarefulCallers /\ IInv /\ [Next]_vars => IInv'
  BY IInvStep
<1>3. CarefulCallers => CarefulCallers'
  BY DEF CarefulCallers, SaneStartIDs
<1> QED BY <1>1, <1>2, <1>3, PTL DEF Spec

\* No program decodes its arguments with another probe's spec, for any number of
\* sessions sharing the map, as long as the callers' ranges of spec IDs start
\* above 0 and do not overlap while in use.
THEOREM OwnSpecHolds == CarefulCallers /\ Spec => []OwnSpec
<1>1. IInv => OwnSpec
  BY SeenIsOwnAndDelivered DEF IInv
<1> QED BY <1>1, IInvariant, PTL

\* Every program of a probe whose arguments parsed gets all of them, whenever it
\* runs relative to PopulateSpecMap, AttachUprobes and Close of any session.
THEOREM DeliveredHolds == CarefulCallers /\ Spec => []Delivered
<1>1. IInv => Delivered
  BY SeenIsOwnAndDelivered DEF IInv
<1> QED BY <1>1, IInvariant, PTL

\* A failed PopulateSpecMap or AttachUprobes leaves no link attached except one
\* whose Close failed.
THEOREM FailureDetachesHolds == CarefulCallers /\ Spec => []FailureDetaches
<1>1. IInv => FailureDetaches
  <2> SUFFICES ASSUME IInv, NEW s \in Sessions, pc[s] = "failed",
                      NEW p \in Uprobe, p[1] = s, p \notin tainted
               PROVE  link[p] \in {"none", "closed"}
    BY DEF FailureDetaches
  <2>1. PICK t \in Sessions : \E j \in 1..Last(t) : p = <<t, j>>
    BY UprobeElements
  <2>2. PICK j \in 1..Last(t) : p = <<t, j>>
    BY <2>1
  <2>3. t = s
    BY <2>2
  <2>4. link[p] \notin Live
    BY <2>2, <2>3 DEF IInv, StaticInv, LinkInv, LiveLinks, StillOpen
  <2>5. link[p] \in {"none", "attached", "closing", "closed"}
    BY DEF IInv, StaticInv, TypeInv, TypeOK
  <2> QED BY <2>4, <2>5 DEF Live
<1> QED BY <1>1, IInvariant, PTL

\* No step rewrites an element between a program's bpf_map_lookup_elem and its
\* reads through the pointer.
THEOREM StableUnderReaderHolds == CarefulCallers /\ Spec => StableUnderReader
<1>1. ASSUME CarefulCallers, IInv, [Next]_vars,
             NEW c \in CPUs, ptr[c] # NoSlot, on[c] \notin tainted
      PROVE  value'[ptr[c]] = value[ptr[c]]
  <2> USE DEF IInv, StaticInv, TypeInv
  <2>1. on[c] # Idle /\ specIDs[on[c]] # 0 /\ ptr[c] = elem[specIDs[on[c]]]
    BY <1>1 DEF MidFetch, HoldsOwn
  <2>2. PICK s \in Sessions : specIDs[on[c]] \in Id
    BY <1>1, <2>1, Running
  <2>3. ptr[c] \notin FreeSlots
    BY <1>1, <2>1, <2>2 DEF FreeSlots, Entries
  <2>4. value' = value \/ \E e \in FreeSlots, x \in Uprobe : value' = [value EXCEPT ![e] = x]
    <3>1. CASE \E t \in Sessions : PopulatePut(t)
      <4>1. PICK t \in Sessions : PopulatePut(t)
        BY <3>1
      <4>2. loop[t] \in 1..Last(t)
        BY <1>1, <4>1, UprobeElements DEF PopulatePut, TypeOK
      <4>3. <<t, loop[t]>> \in Uprobe
        BY <4>2, UprobeElements
      <4> QED BY <4>1, <4>3 DEF PopulatePut, MapPut
    <3>2. CASE UNCHANGED value
      BY <3>2
    <3> QED
      BY <1>1, <3>1, <3>2
      DEF Next, LibraryStep, CallerStep, ProgramStep, PopulateSkip, PopulatePutFails,
          PopulateReturns, AttachOne, AttachFails, AttachReturns, CloseBegin, CloseEnd,
          CloseFails, UndoReturns, LinksClosed, DeleteSkip, DeleteOne, DeleteFails,
          UnloadReturns, CallPopulate, CallAttach, AdoptSpecIDs, CallClose, ArgLookup,
          ArgMiss, ArgRead, Return, Fire, MapDelete, vars, mapVars
  <2> QED BY <1>1, <2>3, <2>4 DEF TypeOK
<1>2. ASSUME CarefulCallers, IInv, [Next]_vars
      PROVE  [\A c \in CPUs : ptr[c] # NoSlot /\ on[c] \notin tainted
                => value'[ptr[c]] = value[ptr[c]]]_vars
  BY <1>1, <1>2
<1>3. CarefulCallers => CarefulCallers'
  BY DEF CarefulCallers, SaneStartIDs
<1> QED BY <1>2, <1>3, IInvariant, PTL DEF Spec, StableUnderReader

\* Whatever other sessions store and delete, the specs of a session stay under their
\* IDs until its own Close begins.
THEOREM KeepsSpecsHolds == CarefulCallers /\ Spec => []KeepsSpecs
<1>1. IInv => KeepsSpecs
  <2> SUFFICES ASSUME IInv, NEW p \in Uprobe, HasSpec(p),
                      pc[p[1]] \in {"populated", "attach", "attached"}
               PROVE  specIDs[p] \in Entries /\ value[elem[specIDs[p]]] = p
    BY DEF KeepsSpecs
  <2> USE DEF IInv, StaticInv, TypeInv
  <2>1. PICK s \in Sessions : \E j \in 1..Last(s) : p = <<s, j>>
    BY UprobeElements
  <2>2. PICK j \in 1..Last(s) : p = <<s, j>>
    BY <2>1
  <2>3. specIDs[p] # 0 /\ specIDs[p] \in Id
    BY <2>2 DEF IDInv, IDAssigned, TypeOK
  <2>4. Holding(s) /\ ~Settled(s)
    BY <2>2 DEF Holding, Settled
  <2> QED BY <2>2, <2>3, <2>4 DEF MapInv, OwnEntry, Stored, Entries
<1> QED BY <1>1, IInvariant, PTL

\* Unload deletes no entry of another session, in a second Close either.
THEOREM DeletesOwnOnlyHolds == CarefulCallers /\ Spec => DeletesOwnOnly
<1>1. ASSUME CarefulCallers, IInv, [Next]_vars,
             NEW id \in Id, elem[id] # NoSlot, elem'[id] = NoSlot
      PROVE  \E s \in Sessions : pc[s] = "delete" /\ value[elem[id]][1] = s
  <2> USE DEF IInv, StaticInv, TypeInv
  <2>1. CASE \E s \in Sessions : DeleteOne(s)
    <3>1. PICK s \in Sessions : DeleteOne(s)
      BY <2>1
    <3>2. /\ pc[s] = "delete" /\ loop[s] \in 1..Last(s) /\ specIDs[<<s, loop[s]>>] # 0
          /\ elem' = [elem EXCEPT ![specIDs[<<s, loop[s]>>]] = NoSlot]
      BY <1>1, <3>1, UprobeElements DEF DeleteOne, MapDelete, InSpecIDs, TypeOK
    <3>3. id = specIDs[<<s, loop[s]>>]
      BY <1>1, <3>2 DEF TypeOK
    <3>4. ~Settled(s)
      BY <3>2 DEF Settled
    <3>5. value[elem[id]] = <<s, loop[s]>>
      BY <1>1, <3>2, <3>3, <3>4 DEF MapInv, OwnEntry
    <3> QED BY <3>2, <3>5
  <2>2. CASE \E s \in Sessions : PopulatePut(s)
    <3>1. PICK s \in Sessions, e \in Slots : elem' = [elem EXCEPT ![nextID[s]] = e]
      BY <2>2 DEF PopulatePut, MapPut, FreeSlots
    <3> QED BY <1>1, <3>1, Sentinels DEF TypeOK
  <2>3. CASE UNCHANGED elem
    BY <1>1, <2>3
  <2> QED
    BY <1>1, <2>1, <2>2, <2>3
    DEF Next, LibraryStep, CallerStep, ProgramStep, PopulateSkip, PopulatePutFails,
        PopulateReturns, AttachOne, AttachFails, AttachReturns, CloseBegin, CloseEnd,
        CloseFails, UndoReturns, LinksClosed, DeleteSkip, DeleteFails, UnloadReturns,
        CallPopulate, CallAttach, AdoptSpecIDs, CallClose, ArgLookup, ArgMiss, ArgRead,
        Return, Fire, vars, mapVars
<1>2. ASSUME CarefulCallers, IInv, [Next]_vars
      PROVE  [\A id \in Id : elem[id] # NoSlot /\ elem'[id] = NoSlot =>
                \E s \in Sessions : pc[s] = "delete" /\ value[elem[id]][1] = s]_vars
  BY <1>1, <1>2
<1>3. CarefulCallers => CarefulCallers'
  BY DEF CarefulCallers, SaneStartIDs
<1> QED BY <1>2, <1>3, IInvariant, PTL DEF Spec, DeletesOwnOnly
=============================================================================
