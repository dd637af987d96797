------------------------------- MODULE Attach -------------------------------
(***************************************************************************)
(* The attachment pipeline of the library (attach.go) running against the  *)
(* kernel objects it manages: the BPF hash map __bpf_usdt_specs, the       *)
(* uprobe links, and the BPF programs that the kernel runs on any CPU while *)
(* a link is attached and that fetch their arguments with bpf_usdt_arg     *)
(* (ebpf/usdt_args.h).                                                     *)
(*                                                                         *)
(* A session is one trip of a caller through the pipeline of README.md:    *)
(* PopulateSpecMap, MergeCookies, AttachUprobes, then one or more Close.   *)
(* Several sessions share one spec map.  Every map operation, every link   *)
(* operation and every map access of a BPF program is a step of its own.   *)
(*                                                                         *)
(* The spec stored for a probe is represented by the probe itself, the     *)
(* pair <<s, j>> of a session and an index into its probe slice.           *)
(***************************************************************************)
EXTENDS Integers, Sequences, FiniteSets

CONSTANTS
  Sessions,     \* trips through the pipeline
  Probes,       \* Probes[s] is the slice of probes of session s
  StartID,      \* StartID[s] is the startID argument of PopulateSpecMap
  UserCookies,  \* UserCookies[s] is the userCookies argument of MergeCookies
  Adopters,     \* sessions whose caller assigns ProbeLinks.SpecIDs itself
  ProgCounts,   \* possible values of len(progs)
  U32,          \* the number of values of a uint32
  MaxEntries,   \* BPF_USDT_MAX_SPEC_CNT
  Slots,        \* the elements the kernel preallocates for the hash map
  CPUs,         \* CPUs that run BPF programs
  NArgs,        \* number of arguments a BPF_USDT program declares
  MaxCloses,    \* how often a caller closes one ProbeLinks
  LateClose,    \* whether spec IDs are handed out again before the last of these closes
  NoSlot, Idle, Miss

\* What PopulateSpecMap distinguishes of Probe.Arguments: the empty string, a
\* string ParseUSDTArguments refuses, and one it parses into cnt arguments.
Arguments == [kind : {"empty", "bad", "args"}, cnt : Nat]

ASSUME ProbesType == Probes \in [Sessions -> Seq(Arguments)]
ASSUME StartIDType == U32 \in Nat \ {0} /\ StartID \in [Sessions -> 0..(U32 - 1)]
ASSUME UserCookiesType == UserCookies \in [Sessions -> Seq(Nat)]
ASSUME BoundsType ==
  /\ ProgCounts \subseteq Nat
  /\ MaxEntries \in Nat
  /\ NArgs \in Nat
  /\ MaxCloses \in Nat
  /\ LateClose \in BOOLEAN

\* Every probe of every session; also the set of the specs they may store.
Uprobe == UNION {{s} \X (1..Len(Probes[s])) : s \in Sessions}

ASSUME Sentinels ==
  /\ NoSlot \notin Slots
  /\ Idle \notin Uprobe
  /\ Miss \notin Uprobe

VARIABLES
  elem,     \* the hash map: key to the element holding its value, or NoSlot
  value,    \* content of each element; a freed element keeps its content
  pc,       \* control state of each session
  loop,     \* loop index of the session's current call, from 1
  nextID,   \* PopulateSpecMap's local nextID
  specIDs,  \* the slice PopulateSpecMap fills, one entry per probe
  merged,   \* whether the caller passed MergeCookies' result or nil cookies
  adopted,  \* whether ProbeLinks.SpecIDs holds specIDs; otherwise it is nil
  errs,     \* whether the current or last Unload collected an error
  closes,   \* how often the session's ProbeLinks was closed
  link,     \* kernel state of each probe's uprobe link
  cookie,   \* attach cookie of each link
  tainted,  \* links a Close of which has failed
  on,       \* the link whose BPF program runs on a CPU, or Idle
  argNum,   \* next argument that program fetches
  ptr,      \* element bpf_map_lookup_elem returned to it, not yet read
  seen      \* what its fetches returned: pairs of argument number and spec

mapVars     == <<elem, value>>
sessionVars == <<pc, loop, nextID, specIDs, merged, adopted, errs, closes>>
linkVars    == <<link, cookie, tainted>>
bpfVars     == <<on, argNum, ptr, seen>>
vars        == <<mapVars, sessionVars, linkVars, bpfVars>>

Id == 0..(U32 - 1)
Last(s) == Len(Probes[s])
Args(p) == Probes[p[1]][p[2]]
HasSpec(p) == Args(p).kind = "args"

Init ==
  /\ elem = [id \in Id |-> NoSlot]
  /\ value = [e \in Slots |-> Miss]
  /\ pc = [s \in Sessions |-> "idle"]
  /\ loop = [s \in Sessions |-> 1]
  /\ nextID = [s \in Sessions |-> 0]
  /\ specIDs = [p \in Uprobe |-> 0]
  /\ merged = [s \in Sessions |-> FALSE]
  /\ adopted = [s \in Sessions |-> FALSE]
  /\ errs = [s \in Sessions |-> FALSE]
  /\ closes = [s \in Sessions |-> 0]
  /\ link = [p \in Uprobe |-> "none"]
  /\ cookie = [p \in Uprobe |-> 0]
  /\ tainted = {}
  /\ on = [c \in CPUs |-> Idle]
  /\ argNum = [c \in CPUs |-> 0]
  /\ ptr = [c \in CPUs |-> NoSlot]
  /\ seen = [c \in CPUs |-> {}]

-----------------------------------------------------------------------------
(***************************************************************************)
(* The BPF hash map.                                                       *)
(***************************************************************************)
Entries == {id \in Id : elem[id] # NoSlot}
FreeSlots == Slots \ {elem[id] : id \in Entries}

\* Map.Put: an update never writes in place, it fills a free element and frees
\* the replaced one; a new key needs room.
MapPut(id, spec) ==
  /\ id \in Entries \/ Cardinality(Entries) < MaxEntries
  /\ \E e \in FreeSlots :
       /\ elem' = [elem EXCEPT ![id] = e]
       /\ value' = [value EXCEPT ![e] = spec]

\* Map.Delete: the element becomes free and keeps its content.
MapDelete(id) ==
  /\ elem' = [elem EXCEPT ![id] = NoSlot]
  /\ UNCHANGED value

-----------------------------------------------------------------------------
(***************************************************************************)
(* PopulateSpecMap.                                                        *)
(***************************************************************************)
\* A session whose spec IDs may be handed out again: one that will never touch them
\* any more or, with LateClose, one that has closed its ProbeLinks once.
Settled(s) ==
  \/ pc[s] \in {"idle", "failed"}
  \/ pc[s] = "closed" /\ (LateClose \/ closes[s] = MaxCloses)

Overlap(s, t) ==
  /\ StartID[s] < StartID[t] + Last(t)
  /\ StartID[t] < StartID[s] + Last(s)

Goto(s, label) == pc' = [pc EXCEPT ![s] = label]
Advance(s) == loop' = [loop EXCEPT ![s] = loop[s] + 1]
Restart(s) == loop' = [loop EXCEPT ![s] = 1]

\* The caller hands out a startID whose range no unsettled session uses.
CallPopulate(s) ==
  /\ pc[s] = "idle"
  /\ \A t \in Sessions \ {s} : Overlap(s, t) => Settled(t)
  /\ nextID' = [nextID EXCEPT ![s] = StartID[s]]
  /\ Goto(s, "populate")
  /\ Restart(s)
  /\ UNCHANGED <<mapVars, specIDs, merged, adopted, errs, closes, linkVars, bpfVars>>

\* No arguments, or arguments that do not parse: the spec ID stays 0.
PopulateSkip(s) ==
  /\ pc[s] = "populate" /\ loop[s] <= Last(s)
  /\ ~HasSpec(<<s, loop[s]>>)
  /\ Advance(s)
  /\ UNCHANGED <<mapVars, pc, nextID, specIDs, merged, adopted, errs, closes,
                 linkVars, bpfVars>>

\* Mutant of PopulatePut: records nextID after it was incremented.
PopulatePutRecordsNext(s) ==
  /\ pc[s] = "populate" /\ loop[s] <= Last(s)
  /\ HasSpec(<<s, loop[s]>>)
  /\ nextID' = [nextID EXCEPT ![s] = (nextID[s] + 1) % U32]
  /\ specIDs' = [specIDs EXCEPT ![<<s, loop[s]>>] = (nextID[s] + 1) % U32]
  /\ MapPut(nextID[s], <<s, loop[s]>>)
  /\ Advance(s)
  /\ UNCHANGED <<pc, merged, adopted, errs, closes, linkVars, bpfVars>>

\* Mutant of PopulatePut: forgets nextID++.
PopulatePutKeepsID(s) ==
  /\ pc[s] = "populate" /\ loop[s] <= Last(s)
  /\ HasSpec(<<s, loop[s]>>)
  /\ specIDs' = [specIDs EXCEPT ![<<s, loop[s]>>] = nextID[s]]
  /\ MapPut(nextID[s], <<s, loop[s]>>)
  /\ Advance(s)
  /\ UNCHANGED <<pc, nextID, merged, adopted, errs, closes, linkVars, bpfVars>>

PopulatePut(s) ==
  /\ pc[s] = "populate" /\ loop[s] <= Last(s)
  /\ HasSpec(<<s, loop[s]>>)
  /\ nextID' = [nextID EXCEPT ![s] = (nextID[s] + 1) % U32]
  /\ specIDs' = [specIDs EXCEPT ![<<s, loop[s]>>] = nextID[s]]
  /\ MapPut(nextID[s], <<s, loop[s]>>)
  /\ Advance(s)
  /\ UNCHANGED <<pc, merged, adopted, errs, closes, linkVars, bpfVars>>

\* A failing Put ends the call: it returns nil and the error, and the entries
\* stored so far stay in the map.
PopulatePutFails(s) ==
  /\ pc[s] = "populate" /\ loop[s] <= Last(s)
  /\ HasSpec(<<s, loop[s]>>)
  /\ specIDs' = [p \in Uprobe |-> IF p[1] = s THEN 0 ELSE specIDs[p]]
  /\ Goto(s, "failed")
  /\ UNCHANGED <<mapVars, loop, nextID, merged, adopted, errs, closes, linkVars, bpfVars>>

PopulateReturns(s) ==
  /\ pc[s] = "populate" /\ loop[s] > Last(s)
  /\ Goto(s, "populated")
  /\ UNCHANGED <<mapVars, loop, nextID, specIDs, merged, adopted, errs, closes,
                 linkVars, bpfVars>>

-----------------------------------------------------------------------------
(***************************************************************************)
(* MergeCookies and AttachUprobes.                                         *)
(***************************************************************************)
\* Mutant of MergeCookies: the user cookie is not masked to 32 bits.
MergeCookiesUnmasked(ids, userCookies) ==
  LET n == IF Len(userCookies) > Len(ids) THEN Len(userCookies) ELSE Len(ids)
  IN  [i \in 1..n |->
         (IF i <= Len(ids) THEN ids[i] * U32 ELSE 0)
         + (IF i <= Len(userCookies) THEN userCookies[i] ELSE 0)]

\* Spec ID in the high half, user cookie in the low half of a uint64; the two
\* halves share no bit, so the code's |= is a sum.
MergeCookies(ids, userCookies) ==
  LET n == IF Len(userCookies) > Len(ids) THEN Len(userCookies) ELSE Len(ids)
  IN  [i \in 1..n |->
         (IF i <= Len(ids) THEN ids[i] * U32 ELSE 0)
         + (IF i <= Len(userCookies) THEN userCookies[i] % U32 ELSE 0)]

\* The cookies argument: nil (here the empty slice) or the merged cookies.
Cookies(s) ==
  IF merged[s]
  THEN MergeCookies([j \in 1..Last(s) |-> specIDs[<<s, j>>]], UserCookies[s])
  ELSE <<>>

\* Mutant of OptCookie: the cookie of the probe before.
OptCookieBefore(s, j) == IF j - 1 \in DOMAIN Cookies(s) THEN Cookies(s)[j - 1] ELSE 0

\* opts.Cookie of probe j.
OptCookie(s, j) == IF j <= Len(Cookies(s)) THEN Cookies(s)[j] ELSE 0

CallAttach(s) ==
  /\ pc[s] = "populated"
  /\ \E nprogs \in ProgCounts, m \in BOOLEAN :
       /\ merged' = [merged EXCEPT ![s] = m]
       /\ Goto(s, IF nprogs # Last(s) THEN "failed" ELSE "attach")
  /\ Restart(s)
  /\ UNCHANGED <<mapVars, nextID, specIDs, adopted, errs, closes, linkVars, bpfVars>>

\* One iteration of the loop of AttachUprobes whose exe.Uprobe succeeds.
AttachOne(s) ==
  LET p == <<s, loop[s]>> IN
  /\ pc[s] = "attach" /\ loop[s] <= Last(s)
  /\ link' = [link EXCEPT ![p] = "attached"]
  /\ cookie' = [cookie EXCEPT ![p] = OptCookie(s, loop[s])]
  /\ Advance(s)
  /\ UNCHANGED <<mapVars, pc, nextID, specIDs, merged, adopted, errs, closes,
                 tainted, bpfVars>>

\* exe.Uprobe fails: the links made so far are closed before the error returns.
AttachFails(s) ==
  /\ pc[s] = "attach" /\ loop[s] <= Last(s)
  /\ Goto(s, "undo")
  /\ Restart(s)
  /\ UNCHANGED <<mapVars, nextID, specIDs, merged, adopted, errs, closes, linkVars, bpfVars>>

\* The returned ProbeLinks has Links and SpecMap, and SpecIDs stays nil.
AttachReturns(s) ==
  /\ pc[s] = "attach" /\ loop[s] > Last(s)
  /\ Goto(s, "attached")
  /\ UNCHANGED <<mapVars, loop, nextID, specIDs, merged, adopted, errs, closes,
                 linkVars, bpfVars>>

\* The caller stores the spec IDs in the exported field ProbeLinks.SpecIDs.
AdoptSpecIDs(s) ==
  /\ pc[s] = "attached" /\ s \in Adopters /\ ~adopted[s]
  /\ adopted' = [adopted EXCEPT ![s] = TRUE]
  /\ UNCHANGED <<mapVars, pc, loop, nextID, specIDs, merged, errs, closes,
                 linkVars, bpfVars>>

-----------------------------------------------------------------------------
(***************************************************************************)
(* Closing links: the clean-up of AttachUprobes and the first loop of      *)
(* Unload.  The kernel stops new hits, then waits for the programs that    *)
(* still run on the link before the close returns.                         *)
(***************************************************************************)
InLinks(s) == loop[s] <= Last(s) /\ link[<<s, loop[s]>>] # "none"

CloseBegin(s) ==
  /\ pc[s] \in {"undo", "unload"} /\ InLinks(s)
  /\ link[<<s, loop[s]>>] = "attached"
  /\ link' = [link EXCEPT ![<<s, loop[s]>>] = "closing"]
  /\ UNCHANGED <<mapVars, sessionVars, cookie, tainted, bpfVars>>

CloseEnd(s) ==
  LET p == <<s, loop[s]>> IN
  /\ pc[s] \in {"undo", "unload"} /\ InLinks(s)
  /\ link[p] \in {"closing", "closed"}
  /\ \A c \in CPUs : on[c] # p
  /\ link' = [link EXCEPT ![p] = "closed"]
  /\ Advance(s)
  /\ UNCHANGED <<mapVars, pc, nextID, specIDs, merged, adopted, errs, closes,
                 cookie, tainted, bpfVars>>

\* A close that returns an error may leave the link attached; Unload records
\* the error, the clean-up of AttachUprobes drops it.
CloseFails(s) ==
  LET p == <<s, loop[s]>> IN
  /\ pc[s] \in {"undo", "unload"} /\ InLinks(s)
  /\ link[p] \in {"closing", "closed"}
  /\ \A c \in CPUs : on[c] # p
  /\ \E l \in {"attached", "closed"} :
       /\ link[p] = "closed" => l = "closed"
       /\ link' = [link EXCEPT ![p] = l]
  /\ tainted' = tainted \cup {p}
  /\ errs' = [errs EXCEPT ![s] = errs[s] \/ pc[s] = "unload"]
  /\ Advance(s)
  /\ UNCHANGED <<mapVars, pc, nextID, specIDs, merged, adopted, closes, cookie, bpfVars>>

\* Mutants of UndoReturns: the error is returned before the links are closed;
\* the failed probe is tried again without a limit.
UndoReturnsEarly(s) ==
  /\ pc[s] = "undo"
  /\ Goto(s, "failed")
  /\ UNCHANGED <<mapVars, loop, nextID, specIDs, merged, adopted, errs, closes,
                 linkVars, bpfVars>>

UndoRetries(s) ==
  /\ pc[s] = "undo" /\ ~InLinks(s)
  /\ Goto(s, "attach")
  /\ UNCHANGED <<mapVars, loop, nextID, specIDs, merged, adopted, errs, closes,
                 linkVars, bpfVars>>

UndoReturns(s) ==
  /\ pc[s] = "undo" /\ ~InLinks(s)
  /\ Goto(s, "failed")
  /\ UNCHANGED <<mapVars, loop, nextID, specIDs, merged, adopted, errs, closes,
                 linkVars, bpfVars>>

-----------------------------------------------------------------------------
(***************************************************************************)
(* Close and Unload.  Neither clears Links or SpecIDs, so a second Close   *)
(* walks both lists again.                                                 *)
(***************************************************************************)
CallClose(s) ==
  /\ pc[s] \in {"attached", "closed"} /\ closes[s] < MaxCloses
  /\ Goto(s, "unload")
  /\ Restart(s)
  /\ errs' = [errs EXCEPT ![s] = FALSE]
  /\ closes' = [closes EXCEPT ![s] = closes[s] + 1]
  /\ UNCHANGED <<mapVars, nextID, specIDs, merged, adopted, linkVars, bpfVars>>

\* Mutant of LinksClosed: specs are deleted while links are still attached.
LinksClosedEarly(s) ==
  /\ pc[s] = "unload"
  /\ Goto(s, "delete")
  /\ Restart(s)
  /\ UNCHANGED <<mapVars, nextID, specIDs, merged, adopted, errs, closes, linkVars, bpfVars>>

LinksClosed(s) ==
  /\ pc[s] = "unload" /\ ~InLinks(s)
  /\ Goto(s, "delete")
  /\ Restart(s)
  /\ UNCHANGED <<mapVars, nextID, specIDs, merged, adopted, errs, closes, linkVars, bpfVars>>

InSpecIDs(s) == adopted[s] /\ loop[s] <= Last(s)

DeleteSkip(s) ==
  /\ pc[s] = "delete" /\ InSpecIDs(s)
  /\ specIDs[<<s, loop[s]>>] = 0
  /\ Advance(s)
  /\ UNCHANGED <<mapVars, pc, nextID, specIDs, merged, adopted, errs, closes,
                 linkVars, bpfVars>>

DeleteOne(s) ==
  LET id == specIDs[<<s, loop[s]>>] IN
  /\ pc[s] = "delete" /\ InSpecIDs(s)
  /\ id # 0 /\ id \in Entries
  /\ MapDelete(id)
  /\ Advance(s)
  /\ UNCHANGED <<pc, nextID, specIDs, merged, adopted, errs, closes, linkVars, bpfVars>>

\* The key is missing, or the kernel refuses the deletion.
DeleteFails(s) ==
  /\ pc[s] = "delete" /\ InSpecIDs(s)
  /\ specIDs[<<s, loop[s]>>] # 0
  /\ errs' = [errs EXCEPT ![s] = TRUE]
  /\ Advance(s)
  /\ UNCHANGED <<mapVars, pc, nextID, specIDs, merged, adopted, closes, linkVars, bpfVars>>

UnloadReturns(s) ==
  /\ pc[s] = "delete" /\ ~InSpecIDs(s)
  /\ Goto(s, "closed")
  /\ UNCHANGED <<mapVars, loop, nextID, specIDs, merged, adopted, errs, closes,
                 linkVars, bpfVars>>

-----------------------------------------------------------------------------
(***************************************************************************)
(* BPF programs.                                                           *)
(***************************************************************************)
\* __bpf_usdt_cookie: the low half.
UserCookie(ck) == ck % U32

\* __bpf_usdt_spec_id: the high half of the cookie, returned as an int, so that
\* the upper half of the uint32 range comes out negative.
SpecID(ck) ==
  LET id == ck \div U32
  IN  IF id < U32 \div 2 THEN id ELSE id - U32

\* The traced program runs over an attached probe.
Fire(c, p) ==
  /\ on[c] = Idle
  /\ link[p] = "attached"
  /\ on' = [on EXCEPT ![c] = p]
  /\ argNum' = [argNum EXCEPT ![c] = 0]
  /\ seen' = [seen EXCEPT ![c] = {}]
  /\ UNCHANGED <<mapVars, sessionVars, linkVars, ptr>>

Found(c) ==
  LET id == SpecID(cookie[on[c]])
  IN  id >= 0 /\ elem[id] # NoSlot

\* bpf_usdt_arg up to bpf_map_lookup_elem, which returns a pointer to the value.
ArgLookup(c) ==
  /\ on[c] # Idle /\ argNum[c] < NArgs /\ ptr[c] = NoSlot
  /\ Found(c)
  /\ ptr' = [ptr EXCEPT ![c] = elem[SpecID(cookie[on[c]])]]
  /\ UNCHANGED <<mapVars, sessionVars, linkVars, on, argNum, seen>>

\* Mutant of ArgMiss: the program fetches one argument more than it declares.
ArgMissTooMany(c) ==
  /\ on[c] # Idle /\ argNum[c] <= NArgs /\ ptr[c] = NoSlot
  /\ ~Found(c)
  /\ seen' = [seen EXCEPT ![c] = seen[c] \cup {<<argNum[c], Miss>>}]
  /\ argNum' = [argNum EXCEPT ![c] = argNum[c] + 1]
  /\ UNCHANGED <<mapVars, sessionVars, linkVars, on, ptr>>

\* No spec: the fetch returns -1 and the argument reads as 0.
ArgMiss(c) ==
  /\ on[c] # Idle /\ argNum[c] < NArgs /\ ptr[c] = NoSlot
  /\ ~Found(c)
  /\ seen' = [seen EXCEPT ![c] = seen[c] \cup {<<argNum[c], Miss>>}]
  /\ argNum' = [argNum EXCEPT ![c] = argNum[c] + 1]
  /\ UNCHANGED <<mapVars, sessionVars, linkVars, on, ptr>>

\* The rest of bpf_usdt_arg reads the spec through the pointer, whatever the
\* element holds by then; an argument number the spec does not have is -1.
ArgRead(c) ==
  /\ ptr[c] # NoSlot
  /\ LET spec == value[ptr[c]]
         res == IF argNum[c] < Args(spec).cnt THEN spec ELSE Miss
     IN  seen' = [seen EXCEPT ![c] = seen[c] \cup {<<argNum[c], res>>}]
  /\ argNum' = [argNum EXCEPT ![c] = argNum[c] + 1]
  /\ ptr' = [ptr EXCEPT ![c] = NoSlot]
  /\ UNCHANGED <<mapVars, sessionVars, linkVars, on>>

Return(c) ==
  /\ on[c] # Idle /\ argNum[c] = NArgs
  /\ on' = [on EXCEPT ![c] = Idle]
  /\ seen' = [seen EXCEPT ![c] = {}]
  /\ UNCHANGED <<mapVars, sessionVars, linkVars, argNum, ptr>>

-----------------------------------------------------------------------------
\* Steps a session takes inside a library call; the caller's own steps, which
\* it may never take, are CallPopulate, CallAttach, AdoptSpecIDs and CallClose.
LibraryStep(s) ==
  \/ PopulateSkip(s) \/ PopulatePut(s) \/ PopulatePutFails(s) \/ PopulateReturns(s)
  \/ AttachOne(s) \/ AttachFails(s) \/ AttachReturns(s)
  \/ CloseBegin(s) \/ CloseEnd(s) \/ CloseFails(s) \/ UndoReturns(s)
  \/ LinksClosed(s) \/ DeleteSkip(s) \/ DeleteOne(s) \/ DeleteFails(s)
  \/ UnloadReturns(s)

CallerStep(s) ==
  CallPopulate(s) \/ CallAttach(s) \/ AdoptSpecIDs(s) \/ CallClose(s)

ProgramStep(c) ==
  ArgLookup(c) \/ ArgMiss(c) \/ ArgRead(c) \/ Return(c)

Next ==
  \/ \E s \in Sessions : LibraryStep(s) \/ CallerStep(s)
  \/ \E c \in CPUs : ProgramStep(c) \/ \E p \in Uprobe : Fire(c, p)

Spec == Init /\ [][Next]_vars

\* The Go scheduler runs a goroutine that is inside a library call, and a BPF
\* program, which the verifier has shown to terminate, runs to its end.
Fairness ==
  /\ \A s \in Sessions : WF_vars(LibraryStep(s))
  /\ \A c \in CPUs : WF_vars(ProgramStep(c))

FairSpec == Spec /\ Fairness
-----------------------------------------------------------------------------
(***************************************************************************)
(* Properties.                                                             *)
(***************************************************************************)
\* The spec IDs a session hands out avoid 0, which stands for "no spec", and
\* stay positive in the int that __bpf_usdt_spec_id returns.
SaneStartIDs ==
  \A s \in Sessions : StartID[s] >= 1 /\ StartID[s] + Last(s) <= U32 \div 2

\* Callers who hand out such IDs, and none that a ProbeLinks may still delete.
CarefulCallers == SaneStartIDs /\ ~LateClose

\* Type invariant of the pipeline's state.
TypeOK ==
  /\ elem \in [Id -> Slots \cup {NoSlot}]
  /\ value \in [Slots -> Uprobe \cup {Miss}]
  /\ pc \in [Sessions -> {"idle", "populate", "populated", "attach", "undo",
                         "attached", "unload", "delete", "closed", "failed"}]
  /\ loop \in [Sessions -> Nat \ {0}]
  /\ nextID \in [Sessions -> Id]
  /\ specIDs \in [Uprobe -> Id]
  /\ merged \in [Sessions -> BOOLEAN]
  /\ adopted \in [Sessions -> BOOLEAN]
  /\ errs \in [Sessions -> BOOLEAN]
  /\ closes \in [Sessions -> 0..MaxCloses]
  /\ link \in [Uprobe -> {"none", "attached", "closing", "closed"}]
  /\ cookie \in [Uprobe -> 0..(U32 * U32 - 1)]
  /\ tainted \in SUBSET Uprobe
  /\ on \in [CPUs -> Uprobe \cup {Idle}]
  /\ argNum \in [CPUs -> 0..NArgs]
  /\ ptr \in [CPUs -> Slots \cup {NoSlot}]
  /\ seen \in [CPUs -> SUBSET (Nat \X (Uprobe \cup {Miss}))]

\* A BPF program never decodes its arguments with the spec of another probe,
\* and one attached to a probe without a spec decodes nothing: the spec ID in
\* the cookie leads to the probe's own entry for as long as the program runs.
\* Links whose Close failed are exempt: Unload deletes their specs regardless.
OwnSpec ==
  \A c \in CPUs : on[c] # Idle /\ on[c] \notin tainted =>
    \A r \in seen[c] : r[2] \in {on[c], Miss}

\* A program attached with merged cookies to a probe whose arguments parsed
\* gets every argument of it: AttachUprobes comes after the spec is stored, and
\* Unload closes the link before it deletes the spec.
Delivered ==
  \A c \in CPUs :
    /\ on[c] # Idle /\ on[c] \notin tainted
    /\ HasSpec(on[c]) /\ merged[on[c][1]]
    => \A r \in seen[c] : r[1] < Args(on[c]).cnt => r[2] = on[c]

\* Once Close has returned without an error all links of the ProbeLinks are
\* detached and, if its SpecIDs were filled in, none of its specs is left in
\* the map.
CloseCleansUp ==
  \A s \in Sessions : pc[s] = "closed" /\ ~errs[s] =>
    /\ \A p \in Uprobe : p[1] = s => link[p] = "closed"
    /\ adopted[s] => \A id \in Entries : value[elem[id]][1] # s

\* When PopulateSpecMap or AttachUprobes has returned an error, no program can
\* run for the session any more unless the Close of its link failed.
FailureDetaches ==
  \A s \in Sessions : pc[s] = "failed" =>
    \A p \in Uprobe : p[1] = s /\ p \notin tainted => link[p] \in {"none", "closed"}

\* "Unload detaches all probes and removes their spec map entries", and no others:
\* from the end of PopulateSpecMap until its own Close begins, a session finds the
\* spec of each of its probes under the ID it was given, whatever others store and
\* delete.
KeepsSpecs ==
  \A p \in Uprobe : HasSpec(p) /\ pc[p[1]] \in {"populated", "attach", "attached"} =>
    specIDs[p] \in Entries /\ value[elem[specIDs[p]]] = p

\* Unload deletes only specs of its own session, even when Close is called
\* again after the first one returned.
DeletesOwnOnly ==
  [][\A id \in Id : elem[id] # NoSlot /\ elem'[id] = NoSlot =>
       \E s \in Sessions : pc[s] = "delete" /\ value[elem[id]][1] = s]_vars

\* The element a running program got from bpf_map_lookup_elem is not rewritten
\* before the program has read it, although the kernel reuses freed elements.
StableUnderReader ==
  [][\A c \in CPUs :
       ptr[c] # NoSlot /\ on[c] \notin tainted => value'[ptr[c]] = value[ptr[c]]]_vars

\* Every call into the library returns: Close ends although programs are running
\* on the links it closes, and the clean-up of a failing AttachUprobes ends too.
CallsReturn ==
  \A s \in Sessions :
    pc[s] \in {"populate", "attach", "undo", "unload", "delete"}
      ~> pc[s] \in {"populated", "failed", "attached", "closed"}

\* What Close and AttachUprobes document: closing the ProbeLinks removes the
\* spec map entries.
CloseRemovesSpecs ==
  \A s \in Sessions : pc[s] = "closed" /\ ~errs[s] =>
    \A id \in Entries : value[elem[id]][1] # s

\* What PopulateSpecMap documents: a probe without arguments that can be parsed has
\* spec ID 0, and the program attached with it has no spec.
ZeroIsNoSpec ==
  \A c \in CPUs : on[c] # Idle /\ ~HasSpec(on[c]) /\ SpecID(cookie[on[c]]) = 0 =>
    \A r \in seen[c] : r[2] = Miss
=============================================================================
