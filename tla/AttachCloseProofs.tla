------------------------- MODULE AttachCloseProofs --------------------------
(***************************************************************************)
(* Proof that a Close which returns no error has cleaned up, on top of the *)
(* inductive invariant of AttachProofs.                                    *)
(***************************************************************************)
EXTENDS AttachProofs

-----------------------------------------------------------------------------
(***************************************************************************)
(* The inductive invariant, in three parts: what the link loop of Unload   *)
(* has closed, where the specs of a session are, and what the delete loop  *)
(* has removed.                                                            *)
(***************************************************************************)
\* While no error was collected, the links the loop has passed are closed.
LinksDown(s) ==
  ~errs[s] => \A j \in 1..Last(s) :
    pc[s] \in {"delete", "closed"} \/ (pc[s] = "unload" /\ j < loop[s])
      => link[<<s, j>>] = "closed"

\* An entry holds the spec of a probe whose session has begun and, unless
\* PopulateSpecMap failed and returned no IDs, is stored under that probe's ID:
\* the delete loop, which walks SpecIDs, reaches every entry of its session.
UnderOwnID ==
  \A id \in Id : elem[id] # NoSlot =>
    \E s \in Sessions : \E j \in 1..Last(s) :
      /\ value[elem[id]] = <<s, j>>
      /\ pc[s] # "idle"
      /\ pc[s] # "failed" => specIDs[<<s, j>>] = id

\* While no error was collected, the probes the loop has passed have no entry.
SpecsDown(s) ==
  ~errs[s] /\ adopted[s] => \A j \in 1..Last(s) :
    pc[s] = "closed" \/ (pc[s] = "delete" /\ j < loop[s])
      => \A id \in Id : elem[id] # NoSlot => value[elem[id]] # <<s, j>>

CloseInv == UnderOwnID /\ \A s \in Sessions : LinksDown(s) /\ SpecsDown(s)

-----------------------------------------------------------------------------
\* A step of one session leaves the control state, the links and the spec IDs of
\* every other session alone.
LEMMA OthersKeep ==
  ASSUME TypeOK, NEW s \in Sessions, NEW t \in Sessions \ {s},
         LibraryStep(t) \/ CallerStep(t)
  PROVE  /\ pc'[s] = pc[s] /\ loop'[s] = loop[s]
         /\ errs'[s] = errs[s] /\ adopted'[s] = adopted[s]
         /\ \A j \in 1..Last(s) : /\ link'[<<s, j>>] = link[<<s, j>>]
                                  /\ specIDs'[<<s, j>>] = specIDs[<<s, j>>]
<1> DEFINE q == <<t, loop[t]>>
           Keep == /\ pc'[s] = pc[s] /\ loop'[s] = loop[s]
                   /\ errs'[s] = errs[s] /\ adopted'[s] = adopted[s]
                   /\ \A j \in 1..Last(s) : /\ link'[<<s, j>>] = link[<<s, j>>]
                                            /\ specIDs'[<<s, j>>] = specIDs[<<s, j>>]
<1>1. \A j \in 1..Last(s) : <<s, j>> \in Uprobe /\ <<s, j>> # q
  BY UprobeElements
<1> USE <1>1 DEF TypeOK, Goto, Advance, Restart, linkVars, sessionVars
<1>2. CASE PopulateSkip(t) \/ PopulateReturns(t)
  BY <1>2 DEF PopulateSkip, PopulateReturns
<1>3. CASE PopulatePut(t)
  BY <1>3 DEF PopulatePut
<1>4. CASE PopulatePutFails(t)
  BY <1>4 DEF PopulatePutFails
<1>5. CASE AttachOne(t)
  BY <1>5 DEF AttachOne
<1>6. CASE AttachFails(t) \/ AttachReturns(t)
  BY <1>6 DEF AttachFails, AttachReturns
<1>7. CASE CloseBegin(t)
  BY <1>7 DEF CloseBegin
<1>8. CASE CloseEnd(t)
  BY <1>8 DEF CloseEnd
<1>9. CASE CloseFails(t)
  BY <1>9 DEF CloseFails
<1>10. CASE UndoReturns(t) \/ LinksClosed(t) \/ DeleteSkip(t)
  BY <1>10 DEF UndoReturns, LinksClosed, DeleteSkip
<1>11. CASE DeleteOne(t) \/ DeleteFails(t) \/ UnloadReturns(t)
  BY <1>11 DEF DeleteOne, DeleteFails, UnloadReturns
<1>12. CASE CallPopulate(t) \/ CallAttach(t)
  BY <1>12 DEF CallPopulate, CallAttach
<1>13. CASE AdoptSpecIDs(t) \/ CallClose(t)
  BY <1>13 DEF AdoptSpecIDs, CallClose
<1> QED
  BY <1>2, <1>3, <1>4, <1>5, <1>6, <1>7, <1>8, <1>9, <1>10, <1>11, <1>12, <1>13
  DEF LibraryStep, CallerStep

\* A program's steps leave the sessions, the links and the map alone.
LEMMA ProgramsKeep ==
  ASSUME NEW c \in CPUs, ProgramStep(c) \/ \E p \in Uprobe : Fire(c, p)
  PROVE  UNCHANGED <<mapVars, sessionVars, linkVars>>
BY DEF ProgramStep, ArgLookup, ArgMiss, ArgRead, Return, Fire

-----------------------------------------------------------------------------
\* The link loop of Unload closes every link it passes or records an error.
LEMMA LinksDownStep ==
  ASSUME TypeInv, LinkInv, NEW s \in Sessions, LinksDown(s), [Next]_vars
  PROVE  LinksDown(s)'
<1> USE DEF TypeInv
<1>0. Last(s) \in Nat /\ loop[s] \in Nat /\ \A j \in 1..Last(s) : <<s, j>> \in Uprobe
  BY UprobeElements DEF TypeOK
<1>1. ASSUME NEW t \in Sessions \ {s}, LibraryStep(t) \/ CallerStep(t)
      PROVE  LinksDown(s)'
  BY <1>1, OthersKeep DEF LinksDown
<1>2. CASE CallClose(s)
  <2>1. pc'[s] = "unload" /\ loop'[s] = 1
    BY <1>2 DEF CallClose, Goto, Restart, TypeOK
  <2> QED BY <2>1 DEF LinksDown
<1>3. CASE CloseBegin(s)
  <2>1. UNCHANGED <<pc, loop, errs>> /\ link[<<s, loop[s]>>] = "attached"
        /\ link' = [link EXCEPT ![<<s, loop[s]>>] = "closing"]
    BY <1>3 DEF CloseBegin, sessionVars
  <2>2. pc[s] \in {"undo", "unload"}
    BY <1>3 DEF CloseBegin
  <2>3. \A j \in 1..Last(s) : j # loop[s] => link'[<<s, j>>] = link[<<s, j>>]
    BY <1>0, <2>1 DEF TypeOK
  <2> QED BY <1>0, <2>1, <2>2, <2>3 DEF LinksDown
<1>4. CASE CloseEnd(s)
  <2>1. /\ pc[s] \in {"undo", "unload"} /\ UNCHANGED <<pc, errs>>
        /\ link' = [link EXCEPT ![<<s, loop[s]>>] = "closed"]
        /\ loop'[s] = loop[s] + 1
    BY <1>4 DEF CloseEnd, Advance, TypeOK
  <2>2. \A j \in 1..Last(s) : link'[<<s, j>>] = IF j = loop[s] THEN "closed" ELSE link[<<s, j>>]
    BY <1>0, <2>1 DEF TypeOK
  <2> QED BY <1>0, <2>1, <2>2 DEF LinksDown
<1>5. CASE CloseFails(s)
  <2>1. /\ pc[s] \in {"undo", "unload"} /\ UNCHANGED pc
        /\ errs'[s] = (errs[s] \/ pc[s] = "unload")
    BY <1>5 DEF CloseFails, TypeOK
  <2> QED BY <2>1 DEF LinksDown
<1>6. CASE LinksClosed(s)
  <2>1. pc[s] = "unload" /\ ~InLinks(s) /\ UNCHANGED <<errs, link>>
    BY <1>6 DEF LinksClosed, linkVars
  <2>2. \A j \in 1..Last(s) : link[<<s, j>>] # "none"
    BY <2>1 DEF LinkInv, LinkPrefix
  <2>3. loop[s] # 0
    BY DEF TypeOK
  <2>4. loop[s] > Last(s)
    BY <1>0, <2>1, <2>2, <2>3 DEF InLinks
  <2> QED BY <1>0, <2>1, <2>4 DEF LinksDown
<1>7. CASE DeleteSkip(s) \/ DeleteOne(s) \/ UnloadReturns(s)
  <2>1. pc[s] = "delete" /\ UNCHANGED <<errs, link>>
    BY <1>7 DEF DeleteSkip, DeleteOne, UnloadReturns, linkVars
  <2> QED BY <2>1 DEF LinksDown
<1>8. CASE DeleteFails(s)
  <2>1. errs'[s]
    BY <1>8 DEF DeleteFails, TypeOK
  <2> QED BY <2>1 DEF LinksDown
<1>9. CASE \/ PopulateSkip(s) \/ PopulatePut(s) \/ PopulatePutFails(s) \/ PopulateReturns(s)
           \/ AttachOne(s) \/ AttachFails(s) \/ AttachReturns(s) \/ UndoReturns(s)
           \/ CallPopulate(s) \/ CallAttach(s) \/ AdoptSpecIDs(s)
  <2>1. pc'[s] \notin {"unload", "delete", "closed"}
    BY <1>9 DEF PopulateSkip, PopulatePut, PopulatePutFails, PopulateReturns, AttachOne,
       AttachFails, AttachReturns, UndoReturns, CallPopulate, CallAttach, AdoptSpecIDs, Goto,
       TypeOK
  <2> QED BY <2>1 DEF LinksDown
<1>10. CASE UNCHANGED <<sessionVars, linkVars>>
  BY <1>10 DEF LinksDown, sessionVars, linkVars
<1> QED
  BY <1>1, <1>2, <1>3, <1>4, <1>5, <1>6, <1>7, <1>8, <1>9, <1>10, ProgramsKeep
  DEF Next, LibraryStep, CallerStep, vars

-----------------------------------------------------------------------------
\* A Put stores the spec under the ID it records, and fills no element another
\* entry uses; no other step adds an entry or changes the ID of one.
LEMMA UnderOwnIDStep ==
  ASSUME TypeInv, IDInv, MapInv, UnderOwnID, [Next]_vars
  PROVE  UnderOwnID'
<1> USE DEF TypeInv
<1>0. \A t \in Sessions : \A j \in 1..Last(t) : <<t, j>> \in Uprobe
  BY UprobeElements
<1>1. ASSUME NEW s \in Sessions, PopulatePut(s) PROVE UnderOwnID'
  <2> DEFINE id == nextID[s]
             p == <<s, loop[s]>>
  <2>1. /\ pc[s] = "populate" /\ pc' = pc /\ loop[s] \in 1..Last(s) /\ p \in Uprobe /\ id \in Id
        /\ specIDs' = [specIDs EXCEPT ![p] = id]
    BY <1>1, UprobeElements DEF PopulatePut, TypeOK
  <2>2. PICK e \in FreeSlots : /\ elem' = [elem EXCEPT ![id] = e]
                               /\ value' = [value EXCEPT ![e] = p]
    BY <1>1 DEF PopulatePut, MapPut
  <2>3. e \in Slots /\ \A k \in Id : elem[k] # NoSlot => elem[k] # e
    BY <2>2 DEF FreeSlots, Entries
  <2>4. elem'[id] = e /\ value'[e] = p /\ \A k \in Id \ {id} : elem'[k] = elem[k]
    BY <2>1, <2>2, <2>3 DEF TypeOK
  <2>5. specIDs[p] = 0
    BY <2>1 DEF IDInv, IDRange, TypeOK
  <2> SUFFICES ASSUME NEW k \in Id, elem'[k] # NoSlot
               PROVE  \E t \in Sessions : \E j \in 1..Last(t) :
                        /\ value'[elem'[k]] = <<t, j>>
                        /\ pc'[t] # "idle"
                        /\ pc'[t] # "failed" => specIDs'[<<t, j>>] = k
    BY DEF UnderOwnID
  <2>6. CASE k = id
    <3>1. specIDs'[<<s, loop[s]>>] = k
      BY <2>1, <2>6 DEF TypeOK
    <3>2. value'[elem'[k]] = <<s, loop[s]>>
      BY <2>4, <2>6
    <3> QED BY <2>1, <3>1, <3>2
  <2>7. CASE k # id
    <3>1. elem[k] # NoSlot /\ elem[k] \in Slots /\ elem[k] # e /\ elem'[k] = elem[k]
      BY <2>3, <2>4, <2>7 DEF TypeOK
    <3>2. PICK t \in Sessions : \E j \in 1..Last(t) :
            /\ value[elem[k]] = <<t, j>> /\ pc[t] # "idle"
            /\ pc[t] # "failed" => specIDs[<<t, j>>] = k
      BY <3>1 DEF UnderOwnID
    <3>3. PICK j \in 1..Last(t) :
            /\ value[elem[k]] = <<t, j>> /\ pc[t] # "idle"
            /\ pc[t] # "failed" => specIDs[<<t, j>>] = k
      BY <3>2
    <3>4. value'[elem'[k]] = <<t, j>>
      BY <2>2, <3>1, <3>3 DEF TypeOK
    <3>5. k # 0
      BY <3>1 DEF MapInv
    <3>6. pc[t] # "failed" => <<t, j>> # p
      BY <2>5, <3>3, <3>5
    <3>7. pc[t] # "failed" => specIDs'[<<t, j>>] = k
      BY <1>0, <2>1, <3>3, <3>6 DEF TypeOK
    <3> QED BY <2>1, <3>3, <3>4, <3>7
  <2> QED BY <2>6, <2>7
<1>2. ASSUME NEW s \in Sessions, PopulatePutFails(s) PROVE UnderOwnID'
  <2>1. /\ UNCHANGED <<elem, value>> /\ pc' = [pc EXCEPT ![s] = "failed"]
        /\ specIDs' = [p \in Uprobe |-> IF p[1] = s THEN 0 ELSE specIDs[p]]
    BY <1>2 DEF PopulatePutFails, Goto, mapVars
  <2>2. \A t \in Sessions : /\ pc[t] # "idle" => pc'[t] # "idle"
                            /\ pc'[t] # "failed" => pc[t] # "failed" /\ t # s
    BY <2>1 DEF TypeOK
  <2>3. \A t \in Sessions \ {s} : \A j \in 1..Last(t) : specIDs'[<<t, j>>] = specIDs[<<t, j>>]
    BY <1>0, <2>1
  <2> QED BY <2>1, <2>2, <2>3 DEF UnderOwnID
<1>3. ASSUME NEW s \in Sessions, DeleteOne(s) PROVE UnderOwnID'
  <2>1. UNCHANGED <<value, specIDs, pc>> /\ elem' = [elem EXCEPT ![specIDs[<<s, loop[s]>>]] = NoSlot]
    BY <1>3 DEF DeleteOne, MapDelete
  <2>2. \A k \in Id : elem'[k] # NoSlot => elem'[k] = elem[k]
    BY <2>1 DEF TypeOK
  <2> QED BY <2>1, <2>2, SMTT(30) DEF UnderOwnID
<1>4. ASSUME UNCHANGED <<elem, value, specIDs>>,
             \A t \in Sessions : /\ pc[t] # "idle" => pc'[t] # "idle"
                                 /\ pc'[t] # "failed" => pc[t] # "failed"
      PROVE  UnderOwnID'
  BY <1>4 DEF UnderOwnID
<1>5. ASSUME NEW s \in Sessions,
             \/ PopulateSkip(s) \/ PopulateReturns(s) \/ AttachOne(s) \/ AttachFails(s)
             \/ AttachReturns(s) \/ CloseBegin(s) \/ CloseEnd(s) \/ CloseFails(s)
             \/ UndoReturns(s) \/ LinksClosed(s)
      PROVE  UnderOwnID'
  BY <1>4, <1>5
  DEF PopulateSkip, PopulateReturns, AttachOne, AttachFails, AttachReturns, CloseBegin,
      CloseEnd, CloseFails, UndoReturns, LinksClosed, Goto, mapVars, sessionVars, TypeOK
<1>6. ASSUME NEW s \in Sessions,
             \/ DeleteSkip(s) \/ DeleteFails(s) \/ UnloadReturns(s) \/ CallPopulate(s)
             \/ CallAttach(s) \/ AdoptSpecIDs(s) \/ CallClose(s)
      PROVE  UnderOwnID'
  BY <1>4, <1>6
  DEF DeleteSkip, DeleteFails, UnloadReturns, CallPopulate, CallAttach, AdoptSpecIDs,
      CallClose, Goto, mapVars, TypeOK
<1>7. CASE UNCHANGED <<mapVars, sessionVars>>
  BY <1>4, <1>7 DEF mapVars, sessionVars
<1> QED
  BY <1>1, <1>2, <1>3, <1>5, <1>6, <1>7, ProgramsKeep
  DEF Next, LibraryStep, CallerStep, vars

\* What the map holds of a session changes only by that session's own Put, and by
\* deletions.
LEMMA NoNewEntry ==
  ASSUME TypeOK, NEW s \in Sessions, NEW j \in 1..Last(s), [Next]_vars,
         ~PopulatePut(s),
         \A id \in Id : elem[id] # NoSlot => value[elem[id]] # <<s, j>>
  PROVE  \A id \in Id : elem'[id] # NoSlot => value'[elem'[id]] # <<s, j>>
<1>1. ASSUME NEW t \in Sessions, PopulatePut(t), NEW k \in Id, elem'[k] # NoSlot
      PROVE  value'[elem'[k]] # <<s, j>>
  <2>1. t # s
    BY <1>1
  <2>2. PICK e \in FreeSlots : /\ elem' = [elem EXCEPT ![nextID[t]] = e]
                               /\ value' = [value EXCEPT ![e] = <<t, loop[t]>>]
    BY <1>1 DEF PopulatePut, MapPut
  <2>3. e \in Slots /\ \A i \in Id : elem[i] # NoSlot => elem[i] # e
    BY <2>2 DEF FreeSlots, Entries
  <2>4. elem'[k] = e \/ (elem'[k] = elem[k] /\ elem[k] # e /\ elem[k] \in Slots)
    BY <1>1, <2>2, <2>3 DEF TypeOK
  <2>5. value'[e] = <<t, loop[t]>> /\ \A x \in Slots \ {e} : value'[x] = value[x]
    BY <2>2, <2>3 DEF TypeOK
  <2>6. <<t, loop[t]>> # <<s, j>>
    BY <2>1
  <2> QED BY <1>1, <2>4, <2>5, <2>6
<1>2. ASSUME NEW t \in Sessions, DeleteOne(t), NEW k \in Id, elem'[k] # NoSlot
      PROVE  value'[elem'[k]] # <<s, j>>
  <2>1. UNCHANGED value /\ elem' = [elem EXCEPT ![specIDs[<<t, loop[t]>>]] = NoSlot]
    BY <1>2 DEF DeleteOne, MapDelete
  <2>2. elem'[k] = elem[k]
    BY <1>2, <2>1 DEF TypeOK
  <2> QED BY <1>2, <2>1, <2>2
<1>3. CASE UNCHANGED mapVars
  BY <1>3 DEF mapVars
<1> QED
  BY <1>1, <1>2, <1>3, ProgramsKeep
  DEF Next, LibraryStep, CallerStep, PopulateSkip, PopulatePutFails, PopulateReturns,
      AttachOne, AttachFails, AttachReturns, CloseBegin, CloseEnd, CloseFails, UndoReturns,
      LinksClosed, DeleteSkip, DeleteFails, UnloadReturns, CallPopulate, CallAttach,
      AdoptSpecIDs, CallClose, vars

\* The delete loop of Unload removes the entry of every probe it passes or records
\* an error; nobody stores one again for a session that is closing.
LEMMA SpecsDownStep ==
  ASSUME TypeInv, MapInv, UnderOwnID, NEW s \in Sessions, SpecsDown(s),
         [Next]_vars
  PROVE  SpecsDown(s)'
<1> USE DEF TypeInv
<1>0. Last(s) \in Nat /\ loop[s] \in Nat /\ \A j \in 1..Last(s) : <<s, j>> \in Uprobe
  BY UprobeElements DEF TypeOK
<1>1. ASSUME pc'[s] \in {"delete", "closed"} => pc'[s] = pc[s],
             loop'[s] = loop[s], errs'[s] = errs[s], adopted'[s] = adopted[s]
      PROVE  SpecsDown(s)'
  <2>1. pc'[s] \in {"delete", "closed"} => ~PopulatePut(s)
    BY <1>1 DEF PopulatePut
  <2> QED BY <1>1, <2>1, NoNewEntry DEF SpecsDown
<1>2. CASE DeleteSkip(s) \/ DeleteOne(s)
  <2>1. /\ pc[s] = "delete" /\ UNCHANGED <<pc, errs, adopted, value>>
        /\ loop'[s] = loop[s] + 1 /\ loop[s] \in 1..Last(s)
    BY <1>0, <1>2 DEF DeleteSkip, DeleteOne, InSpecIDs, Advance, MapDelete, mapVars, TypeOK
  <2>2. ASSUME NEW id \in Id, elem'[id] # NoSlot
        PROVE  value'[elem'[id]] # <<s, loop[s]>>
    <3>1. elem'[id] = elem[id] /\ (DeleteOne(s) => id # specIDs[<<s, loop[s]>>])
      BY <1>2, <2>2 DEF DeleteSkip, DeleteOne, MapDelete, mapVars, TypeOK
    <3>2. id # 0
      BY <2>2, <3>1 DEF MapInv
    <3>3. specIDs[<<s, loop[s]>>] # id
      BY <1>2, <3>1, <3>2 DEF DeleteSkip
    <3>4. PICK t \in Sessions : \E j \in 1..Last(t) :
            value[elem[id]] = <<t, j>> /\ (pc[t] # "failed" => specIDs[<<t, j>>] = id)
      BY <2>2, <3>1 DEF UnderOwnID
    <3> QED BY <2>1, <3>1, <3>3, <3>4
  <2>3. ~PopulatePut(s)
    BY <2>1 DEF PopulatePut
  <2> QED BY <1>0, <2>1, <2>2, <2>3, NoNewEntry, SMTT(30) DEF SpecsDown
<1>3. CASE DeleteFails(s)
  <2>1. errs'[s]
    BY <1>3 DEF DeleteFails, TypeOK
  <2> QED BY <2>1 DEF SpecsDown
<1>4. CASE UnloadReturns(s)
  <2>1. /\ pc[s] = "delete" /\ UNCHANGED <<elem, value, errs, adopted>>
        /\ adopted[s] => loop[s] > Last(s)
    BY <1>0, <1>4 DEF UnloadReturns, InSpecIDs, mapVars
  <2> QED BY <1>0, <2>1 DEF SpecsDown
<1>5. CASE LinksClosed(s)
  <2>1. pc'[s] = "delete" /\ loop'[s] = 1
    BY <1>5 DEF LinksClosed, Goto, Restart, TypeOK
  <2> QED BY <2>1 DEF SpecsDown
<1>6. CASE \/ PopulateSkip(s) \/ PopulatePut(s) \/ PopulatePutFails(s) \/ PopulateReturns(s)
           \/ AttachOne(s) \/ AttachFails(s) \/ AttachReturns(s) \/ UndoReturns(s)
           \/ CloseBegin(s) \/ CloseEnd(s) \/ CloseFails(s) \/ CallPopulate(s)
           \/ CallAttach(s) \/ AdoptSpecIDs(s) \/ CallClose(s)
  <2>1. pc'[s] \notin {"delete", "closed"}
    BY <1>6 DEF PopulateSkip, PopulatePut, PopulatePutFails, PopulateReturns, AttachOne,
       AttachFails, AttachReturns, UndoReturns, CloseBegin, CloseEnd, CloseFails,
       CallPopulate, CallAttach, AdoptSpecIDs, CallClose, Goto, sessionVars, TypeOK
  <2> QED BY <2>1 DEF SpecsDown
<1>7. ASSUME NEW t \in Sessions \ {s}, LibraryStep(t) \/ CallerStep(t)
      PROVE  SpecsDown(s)'
  BY <1>1, <1>7, OthersKeep
<1>8. CASE UNCHANGED <<mapVars, sessionVars>>
  BY <1>1, <1>8 DEF sessionVars
<1> QED
  BY <1>2, <1>3, <1>4, <1>5, <1>6, <1>7, <1>8, ProgramsKeep
  DEF Next, LibraryStep, CallerStep, vars

-----------------------------------------------------------------------------
\* Before any call nothing is closing and the map is empty.
LEMMA CloseInvInit == Init => CloseInv
BY DEF Init, CloseInv, UnderOwnID, LinksDown, SpecsDown

\* What the links and the entries of a closed session are, in the words of the run.
LEMMA CloseInvCleansUp == TypeOK /\ CloseInv => CloseCleansUp
<1> SUFFICES ASSUME TypeOK, CloseInv, NEW s \in Sessions, pc[s] = "closed", ~errs[s]
             PROVE  /\ \A p \in Uprobe : p[1] = s => link[p] = "closed"
                    /\ adopted[s] => \A id \in Entries : value[elem[id]][1] # s
  BY DEF CloseCleansUp
<1>1. \A j \in 1..Last(s) : link[<<s, j>>] = "closed"
  BY DEF CloseInv, LinksDown
<1>2. ASSUME NEW p \in Uprobe, p[1] = s PROVE link[p] = "closed"
  BY <1>1, <1>2, UprobeElements
<1>3. ASSUME adopted[s], NEW id \in Entries PROVE value[elem[id]][1] # s
  <2>1. id \in Id /\ elem[id] # NoSlot
    BY <1>3 DEF Entries
  <2>2. PICK t \in Sessions : \E j \in 1..Last(t) : value[elem[id]] = <<t, j>>
    BY <2>1 DEF CloseInv, UnderOwnID
  <2>3. PICK j \in 1..Last(t) : value[elem[id]] = <<t, j>>
    BY <2>2
  <2>4. t # s
    BY <1>3, <2>1, <2>3 DEF CloseInv, SpecsDown
  <2> QED BY <2>3, <2>4
<1> QED BY <1>2, <1>3

\* A Close that returns no error has detached every link and, for a caller that
\* filled in SpecIDs, removed every spec of the session from the map, whatever the
\* other sessions do with it and however often Close is called.
THEOREM CloseCleansUpHolds == CarefulCallers /\ Spec => []CloseCleansUp
<1>1. CarefulCallers /\ IInv /\ CloseInv /\ [Next]_vars => CloseInv'
  <2> SUFFICES ASSUME CarefulCallers, IInv, CloseInv, [Next]_vars PROVE CloseInv'
    OBVIOUS
  <2>1. TypeInv /\ IDInv /\ LinkInv /\ MapInv
    BY DEF IInv, StaticInv
  <2> QED BY <2>1, LinksDownStep, UnderOwnIDStep, SpecsDownStep DEF CloseInv
<1>2. IInv /\ CloseInv => CloseCleansUp
  BY CloseInvCleansUp DEF IInv, StaticInv, TypeInv
<1>3. CarefulCallers => CarefulCallers'
  BY DEF CarefulCallers, SaneStartIDs
<1> QED BY <1>1, <1>2, <1>3, CloseInvInit, IInvariant, PTL DEF Spec
=============================================================================
