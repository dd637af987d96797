--------------------------- MODULE ElfNotesProofs ---------------------------
(***************************************************************************)
(* Proofs about ParseProbes, for any files and notes and any width of a    *)
(* uint32 and a uint64.                                                    *)
(***************************************************************************)
EXTENDS ElfNotes, NumberSets

-----------------------------------------------------------------------------
(***************************************************************************)
(* Rounding.                                                               *)
(***************************************************************************)
\* Rounding never yields a negative size, and yields the padded size unless the
\* sum wraps.
LEMMA Rounding ==
  ASSUME NEW n \in 0..(U32 - 1)
  PROVE  Align4(n) \in Nat /\ (n + 3 < U32 => Align4(n) = Pad4(n))
<1> DEFINE m == (n + 3) % U32
<1>1. U32 \in Nat /\ U32 > 0 /\ n \in Nat /\ n < U32
  BY Widths
<1>2. m \in Nat
  BY <1>1
<1>3. Align4(n) = m - (m % 4)
  BY DEF Align4
<1>4. n + 3 < U32 => m = n + 3
  BY <1>1
<1> HIDE DEF m
<1>5. m - (m % 4) \in Nat
  BY <1>2
<1>6. ASSUME m = n + 3 PROVE m - (m % 4) = 4 * ((n + 3) \div 4)
  BY <1>1, <1>6
<1> QED BY <1>3, <1>4, <1>5, <1>6 DEF Pad4

\* The sizes of a note, rounded.
LEMMA NoteSizes ==
  ASSUME NEW n \in Notes
  PROVE  /\ n.namesz \in Nat /\ n.descsz \in Nat /\ n.type \in Nat /\ n.parts \in Nat
         /\ Align4(n.namesz) \in Nat /\ Align4(n.descsz) \in Nat
         /\ n.namesz + 3 < U32 => Align4(n.namesz) = Pad4(n.namesz)
         /\ n.descsz + 3 < U32 => Align4(n.descsz) = Pad4(n.descsz)
<1>1. /\ n.namesz \in 0..(U32 - 1) /\ n.descsz \in 0..(U32 - 1)
      /\ n.type \in 0..(U32 - 1) /\ n.parts \in Nat
  BY NotesAreNotes DEF NoteType
<1> QED BY <1>1, Rounding

-----------------------------------------------------------------------------
(***************************************************************************)
(* The walk.  The position is where the note read last ends, and no header *)
(* is read before the sections were scanned.                               *)
(***************************************************************************)
Walked == [note : Notes, at : Nat]
NoteEnd(w) == w.at + 12 + Align4(w.note.namesz) + Align4(w.note.descsz)

WalkType == offset \in Nat /\ walked \in Seq(Walked)
WalkStarts == pc \in {"start", "header", "sections", "scan", "failed"} => walked = <<>>
WalkAt == pc = "notes" /\ walked # <<>> => offset = NoteEnd(walked[Len(walked)])

WalkInv == WalkType /\ WalkStarts /\ WalkAt /\ WalksLayout

\* The steps that read a header.
ReadsHeader(n) == SkipForeign(n) \/ Overrun(n) \/ SkipShort(n) \/ TakeNote(n)

\* Every other step leaves the walk alone.
LEMMA QuietWalk ==
  ASSUME Next, ~\E n \in Notes : ReadsHeader(n)
  PROVE  UNCHANGED <<file, closer, offset, probes, walked>>
BY DEF Next, ReadsHeader, OpenFile, ReadHeader, RejectFile, Sections, CloseFile, ScanSection,
       ScanEnd, WalkEnd

\* A step that reads a header appends it to the history, and ends the walk or
\* goes on behind the note.
LEMMA HeaderRead ==
  ASSUME NEW n \in Notes, ReadsHeader(n)
  PROVE  /\ HasHeader /\ walked' = Append(walked, [note |-> n, at |-> offset])
         /\ UNCHANGED <<file, closer, fd, i, data, baseAddr>>
         /\ \/ pc' = "done" /\ offset' = offset
            \/ pc' = "notes" /\ offset' = NoteEnd([note |-> n, at |-> offset])
BY DEF ReadsHeader, SkipForeign, Overrun, SkipShort, TakeNote, Skip, Read, NameEnd, NoteEnd,
       HasHeader

\* Nothing has been read at the start.
LEMMA WalkInit == Init => WalkInv
BY DEF Init, WalkInv, WalkType, WalkStarts, WalkAt, WalksLayout

\* Every step keeps the position in line with the notes read.
LEMMA WalkStep == WalkInv /\ [Next]_vars => WalkInv'
<1> SUFFICES ASSUME WalkInv, [Next]_vars PROVE WalkInv'
  OBVIOUS
<1>1. ASSUME NEW n \in Notes, ReadsHeader(n) PROVE WalkInv'
  <2> DEFINE w == [note |-> n, at |-> offset]
             len == Len(walked)
  <2>1. /\ pc = "notes" /\ walked' = Append(walked, w)
        /\ \/ pc' = "done" /\ offset' = offset
           \/ pc' = "notes" /\ offset' = NoteEnd(w)
    BY <1>1, HeaderRead DEF HasHeader
  <2>2. w \in Walked /\ offset \in Nat /\ walked \in Seq(Walked) /\ len \in Nat
    BY DEF WalkInv, WalkType, Walked
  <2>3. NoteEnd(w) \in Nat
    BY <2>2, NoteSizes DEF NoteEnd
  <2> HIDE DEF w
  <2>4. /\ walked' \in Seq(Walked) /\ Len(walked') = len + 1 /\ walked'[len + 1] = w
        /\ \A k \in 1..len : walked'[k] = walked[k]
    BY <2>1, <2>2
  <2>5. WalkType' /\ WalkStarts' /\ WalkAt'
    <3>1. WalkType'
      BY <2>1, <2>2, <2>3, <2>4 DEF WalkType
    <3>2. WalkStarts'
      BY <2>1 DEF WalkStarts
    <3>3. (offset' = NoteEnd(w)) => offset' = NoteEnd(walked'[Len(walked')])
      BY <2>4
    <3>4. WalkAt'
      BY <2>1, <3>3 DEF WalkAt, NoteEnd, Align4
    <3> QED BY <3>1, <3>2, <3>4
  <2>6. ASSUME NEW k \in 1..(Len(walked') - 1),
               walked'[k].note.namesz + 3 < U32, walked'[k].note.descsz + 3 < U32
        PROVE  walked'[k + 1].at = walked'[k].at + NoteLen(walked'[k].note)
    <3>1. k \in 1..len /\ walked'[k] = walked[k] /\ walked[k] \in Walked
      BY <2>2, <2>4, <2>6
    <3>2. walked[k].note \in Notes /\ walked[k].at \in Nat
      BY <3>1 DEF Walked
    <3>3. CASE k = len
      <4>1. walked # <<>> /\ walked'[k + 1] = w /\ w.at = offset
        BY <2>2, <2>4, <3>1, <3>3 DEF w
      <4>2. offset = NoteEnd(walked[k])
        BY <2>1, <3>3, <4>1 DEF WalkInv, WalkAt
      <4>3. NoteEnd(walked[k]) = walked[k].at + NoteLen(walked[k].note)
        <5> DEFINE m == walked[k].note
        <5>1. /\ Align4(m.namesz) = Pad4(m.namesz) /\ Align4(m.descsz) = Pad4(m.descsz)
              /\ Align4(m.namesz) \in Nat /\ Align4(m.descsz) \in Nat
          BY <2>6, <3>1, <3>2, NoteSizes
        <5> QED BY <3>2, <5>1 DEF NoteEnd, NoteLen
      <4> QED BY <3>1, <4>1, <4>2, <4>3
    <3>4. CASE k # len
      <4>1. k \in 1..(len - 1) /\ walked'[k + 1] = walked[k + 1]
        BY <2>2, <2>4, <3>1, <3>4
      <4> QED BY <2>6, <3>1, <4>1 DEF WalkInv, WalksLayout
    <3> QED BY <3>3, <3>4
  <2>7. WalksLayout'
    BY <2>6 DEF WalksLayout, NoteLen, Pad4
  <2> QED BY <2>5, <2>7 DEF WalkInv
<1>2. CASE Next /\ ~\E n \in Notes : ReadsHeader(n)
  <2>1. UNCHANGED <<offset, walked>>
    BY <1>2, QuietWalk
  <2>2. WalkType' /\ WalksLayout'
    BY <2>1 DEF WalkInv, WalkType, WalksLayout, NoteLen, Pad4
  <2>3. /\ pc' \in {"start", "header", "sections", "scan", "failed"}
             => pc \in {"start", "header", "sections", "scan", "failed"}
        /\ pc' = "notes" => pc \in {"notes", "scan"}
    BY <1>2 DEF Next, ReadsHeader, OpenFile, ReadHeader, RejectFile, Sections, CloseFile,
       ScanSection, ScanEnd, WalkEnd
  <2>4. WalkStarts' /\ WalkAt'
    BY <2>1, <2>3 DEF WalkInv, WalkStarts, WalkAt, NoteEnd, Align4
  <2> QED BY <2>2, <2>4 DEF WalkInv
<1>3. CASE UNCHANGED vars
  BY <1>3 DEF vars, WalkInv, WalkType, WalkStarts, WalkAt, WalksLayout, NoteEnd, Align4,
     NoteLen, Pad4
<1> QED BY <1>1, <1>2, <1>3

\* The walk follows the layout of every note section, of any length and with any
\* notes whose sizes do not wrap when they are rounded.
THEOREM WalksLayoutHolds == Spec => []WalksLayout
<1>1. WalkInv => WalksLayout
  BY DEF WalkInv
<1> QED BY <1>1, WalkInit, WalkStep, PTL DEF Spec

\* No header is read twice: the walk moves forward whatever the sizes say, also
\* where their rounding wraps.
THEOREM MovesForwardHolds == Spec => MovesForward
<1>1. ASSUME WalkInv, [Next]_vars
      PROVE  [walked' # walked => pc' = "done" \/ offset' >= offset + 12]_vars
  <2>1. ASSUME NEW n \in Notes, ReadsHeader(n)
        PROVE  pc' = "done" \/ offset' >= offset + 12
    <3>1. offset \in Nat
      BY <1>1 DEF WalkInv, WalkType
    <3>2. NoteEnd([note |-> n, at |-> offset]) >= offset + 12
      BY <3>1, NoteSizes DEF NoteEnd
    <3> QED BY <2>1, <3>2, HeaderRead
  <2>2. CASE Next /\ ~\E n \in Notes : ReadsHeader(n)
    BY <2>2, QuietWalk
  <2> QED BY <1>1, <2>1, <2>2 DEF vars
<1>2. Spec => []WalkInv
  BY WalkInit, WalkStep, PTL DEF Spec
<1> QED BY <1>1, <1>2, PTL DEF Spec, MovesForward

-----------------------------------------------------------------------------
(***************************************************************************)
(* The scan.  data and baseAddr are those of the sections seen last; the   *)
(* walk starts when all sections were seen.                                *)
(***************************************************************************)
BaseSections == {k \in DOMAIN file.sections : file.sections[k].name = ".stapsdt.base"}

ScanAt ==
  /\ file \in Files /\ i \in Nat \ {0}
  /\ pc \in {"notes", "done"} => i > Len(file.sections)

DataSeen ==
  \/ data = -1 /\ \A k \in NoteSections : k >= i
  \/ \E k \in NoteSections :
       /\ k < i /\ data = file.sections[k].len
       /\ \A l \in NoteSections : l < i => l <= k

BaseSeen ==
  \/ baseAddr = 0 /\ \A k \in BaseSections : k >= i
  \/ \E k \in BaseSections : baseAddr = file.sections[k].addr

ScanInv == ScanAt /\ DataSeen /\ BaseSeen

\* The sections of a file are numbered from 1.
LEMMA SectionNumbers ==
  ASSUME file \in Files
  PROVE  /\ Len(file.sections) \in Nat /\ DOMAIN file.sections = 1..Len(file.sections)
         /\ NoteSections \subseteq 1..Len(file.sections)
         /\ BaseSections \subseteq 1..Len(file.sections)
<1>1. file.sections \in Seq(SectionType)
  BY FilesAreFiles
<1> QED BY <1>1 DEF NoteSections, BaseSections

\* No section has been seen at the start.
LEMMA ScanInit == Init => ScanInv
<1> SUFFICES ASSUME Init PROVE ScanInv
  OBVIOUS
<1>1. file \in Files /\ i = 1 /\ pc = "start" /\ data = -1 /\ baseAddr = 0
  BY DEF Init
<1>2. \A k \in NoteSections \cup BaseSections : k >= 1
  BY <1>1, SectionNumbers
<1> QED BY <1>1, <1>2 DEF ScanInv, ScanAt, DataSeen, BaseSeen

\* Every step keeps data and baseAddr those of the sections seen.
LEMMA ScanStep == ScanInv /\ [Next]_vars => ScanInv'
<1> SUFFICES ASSUME ScanInv, [Next]_vars PROVE ScanInv'
  OBVIOUS
<1>0. /\ file \in Files /\ i \in Nat \ {0}
      /\ NoteSections \subseteq Nat /\ BaseSections \subseteq Nat
  BY SectionNumbers DEF ScanInv, ScanAt
<1>1. CASE ScanSection
  <2>1. /\ file' = file /\ i' = i + 1 /\ pc' = pc /\ pc = "scan" /\ i <= Len(file.sections)
        /\ data' = IF file.sections[i].name = ".note.stapsdt" THEN file.sections[i].len ELSE data
        /\ baseAddr' = IF file.sections[i].name = ".stapsdt.base"
                       THEN file.sections[i].addr ELSE baseAddr
    BY <1>1 DEF ScanSection
  <2>2. NoteSections' = NoteSections /\ BaseSections' = BaseSections
    BY <2>1 DEF NoteSections, BaseSections
  <2>3. /\ i \in DOMAIN file.sections
        /\ i \in NoteSections <=> file.sections[i].name = ".note.stapsdt"
        /\ i \in BaseSections <=> file.sections[i].name = ".stapsdt.base"
    BY <1>0, <2>1, SectionNumbers DEF NoteSections, BaseSections
  <2>4. ScanAt'
    BY <1>0, <2>1 DEF ScanAt
  <2>5. DataSeen'
    <3>1. CASE i \in NoteSections
      <4>1. data' = file'.sections[i].len /\ i < i' /\ \A l \in NoteSections : l < i' => l <= i
        BY <1>0, <2>1, <2>3, <3>1
      <4> QED BY <2>2, <3>1, <4>1 DEF DataSeen
    <3>2. CASE i \notin NoteSections
      <4>1. data' = data /\ \A l \in NoteSections : l < i' <=> l < i
        BY <1>0, <2>1, <2>3, <3>2
      <4>2. \A l \in NoteSections : l >= i => l >= i'
        BY <1>0, <2>1, <3>2
      <4> QED BY <2>1, <2>2, <4>1, <4>2 DEF ScanInv, DataSeen
    <3> QED BY <3>1, <3>2
  <2>6. BaseSeen'
    <3>1. CASE i \in BaseSections
      BY <2>1, <2>2, <2>3, <3>1 DEF BaseSeen
    <3>2. CASE i \notin BaseSections
      <4>1. baseAddr' = baseAddr /\ \A l \in BaseSections : l >= i => l >= i'
        BY <1>0, <2>1, <2>3, <3>2
      <4> QED BY <2>1, <2>2, <4>1 DEF ScanInv, BaseSeen
    <3> QED BY <3>1, <3>2
  <2> QED BY <2>4, <2>5, <2>6 DEF ScanInv
<1>2. CASE ~ScanSection
  <2>1. /\ UNCHANGED <<file, i, data, baseAddr>>
        /\ pc' \in {"notes", "done"} => pc \in {"notes", "done"} \/ i > Len(file.sections)
    BY <1>2 DEF Next, vars, OpenFile, ReadHeader, RejectFile, Sections, CloseFile, ScanEnd,
       WalkEnd, SkipForeign, Overrun, SkipShort, TakeNote, HasHeader
  <2>2. ScanAt'
    BY <2>1 DEF ScanInv, ScanAt
  <2>3. NoteSections' = NoteSections /\ BaseSections' = BaseSections
    BY <2>1 DEF NoteSections, BaseSections
  <2>4. DataSeen' /\ BaseSeen'
    BY <2>1, <2>3 DEF ScanInv, DataSeen, BaseSeen
  <2> QED BY <2>2, <2>4 DEF ScanInv
<1> QED BY <1>1, <1>2

\* When the notes are walked, data is the length of the section that counts.
LEMMA DataIsSection ==
  ASSUME ScanInv, pc \in {"notes", "done"}
  PROVE  data = SectionLen
<1>1. /\ file \in Files /\ i \in Nat /\ i > Len(file.sections) /\ Len(file.sections) \in Nat
      /\ NoteSections \subseteq 1..Len(file.sections)
  BY SectionNumbers DEF ScanInv, ScanAt
<1>2. \A k \in NoteSections : k \in Nat /\ k < i
  BY <1>1
<1>3. CASE NoteSections = {}
  BY <1>3 DEF ScanInv, DataSeen, SectionLen
<1>4. CASE NoteSections # {}
  <2>1. PICK k \in NoteSections :
          data = file.sections[k].len /\ \A l \in NoteSections : l <= k
    <3>1. ~\A k \in NoteSections : k >= i
      <4>1. PICK m \in NoteSections : m \in Nat /\ m < i
        BY <1>2, <1>4
      <4>2. ~(m >= i)
        BY <1>1, <4>1
      <4> QED BY <4>2
    <3> QED BY <1>2, <3>1 DEF ScanInv, DataSeen
  <2>2. Max(NoteSections) = k
    <3>1. \A x \in NoteSections : (\A y \in NoteSections : x >= y) <=> x = k
      BY <1>2, <2>1
    <3> QED BY <2>1, <3>1 DEF Max
  <2> QED BY <1>4, <2>1, <2>2 DEF SectionLen
<1> QED BY <1>3, <1>4

-----------------------------------------------------------------------------
(***************************************************************************)
(* The probes.  So far as names do not wrap, the probes are the complete   *)
(* stapsdt notes among the notes read, in their order.                     *)
(***************************************************************************)
Found == {k \in DOMAIN walked : IsProbe(walked[k])}
NamesFit == \A k \in DOMAIN walked : walked[k].note.namesz + 3 < U32

ProbesCounted ==
  NamesFit => /\ Len(probes) = Cardinality(Found)
              /\ \A k \in Found : probes[Cardinality(UpTo(Found, k))].note = walked[k].note

ProbesInv == (\E S : probes \in Seq(S)) /\ ProbesCounted

\* The probe that a complete note becomes.
ProbeOf(n) ==
  [location |-> LocationOf(n), base |-> noteBase, sema |-> SemaphoreOffset(n), note |-> n]

\* A header that is read becomes a probe exactly when its note is complete.
LEMMA ProbeTaken ==
  ASSUME NEW n \in Notes, ReadsHeader(n), offset \in Nat, data = SectionLen,
         n.namesz + 3 < U32
  PROVE  probes' = IF IsProbe([note |-> n, at |-> offset]) THEN Append(probes, ProbeOf(n))
                   ELSE probes
<1> DEFINE w == [note |-> n, at |-> offset]
<1>1. Align4(n.namesz) = Pad4(n.namesz) /\ n.parts \in Nat /\ n.descsz \in Nat
  BY NoteSizes
<1>2. IsProbe(w) <=> n.type = 3 /\ n.descsz >= 24 /\ n.parts >= 3 /\ Fits(n)
  BY <1>1 DEF IsProbe, Fits, NameEnd
<1>3. n.descsz >= 24 <=> ~(n.descsz < 24)
  BY <1>1
<1>4. n.parts >= 3 <=> ~(n.parts < 3)
  BY <1>1
<1> QED BY <1>2, <1>3, <1>4 DEF ReadsHeader, SkipForeign, Overrun, SkipShort, TakeNote, ProbeOf

\* Every step keeps the probes those of the notes read.
LEMMA ProbesStep == WalkInv /\ ScanInv /\ ProbesInv /\ [Next]_vars => ProbesInv'
<1> SUFFICES ASSUME WalkInv, ScanInv, ProbesInv, [Next]_vars PROVE ProbesInv'
  OBVIOUS
<1>0. walked \in Seq(Walked) /\ offset \in Nat
  BY DEF WalkInv, WalkType
<1>1. ASSUME NEW n \in Notes, ReadsHeader(n) PROVE ProbesInv'
  <2> DEFINE w == [note |-> n, at |-> offset]
             len == Len(walked)
  <2>1. /\ pc = "notes" /\ walked' = Append(walked, w) /\ file' = file /\ w \in Walked
    BY <1>0, <1>1, HeaderRead DEF HasHeader, Walked
  <2>2. data = SectionLen
    BY <2>1, DataIsSection
  <2>3. /\ walked' \in Seq(Walked) /\ Len(walked') = len + 1 /\ walked'[len + 1] = w
        /\ len \in Nat /\ \A k \in 1..len : walked'[k] = walked[k]
        /\ DOMAIN walked = 1..len /\ DOMAIN walked' = 1..(len + 1)
    BY <1>0, <2>1
  <2>4. PICK S : probes \in Seq(S)
    BY DEF ProbesInv
  <2>5. probes \in Seq(S \cup {ProbeOf(n)})
    BY <2>4
  <2>6. \E T : probes' \in Seq(T)
    <3>1. probes' = probes \/ probes' = Append(probes, ProbeOf(n))
      BY <1>1 DEF ReadsHeader, SkipForeign, Overrun, SkipShort, TakeNote, ProbeOf
    <3>2. probes' \in Seq(S \cup {ProbeOf(n)})
      BY <2>5, <3>1
    <3> QED BY <3>2
  <2>7. ASSUME NamesFit' PROVE ProbesCounted'
    <3>1. NamesFit /\ n.namesz + 3 < U32
      <4>1. \A k \in 1..(len + 1) : walked'[k].note.namesz + 3 < U32
        BY <2>3, <2>7 DEF NamesFit
      <4>2. w.note = n
        OBVIOUS
      <4> HIDE DEF w
      <4>3. n.namesz + 3 < U32
        BY <2>3, <4>1, <4>2
      <4> QED BY <2>3, <4>1, <4>3 DEF NamesFit
    <3>2. probes' = IF IsProbe(w) THEN Append(probes, ProbeOf(n)) ELSE probes
      BY <1>0, <1>1, <2>2, <3>1, ProbeTaken
    <3>3. /\ Len(probes) = Cardinality(Found) /\ Len(probes) \in Nat
          /\ \A k \in Found : probes[Cardinality(UpTo(Found, k))].note = walked[k].note
      BY <2>4, <3>1 DEF ProbesInv, ProbesCounted
    <3>4. Found \in SUBSET (1..len)
      BY <2>3 DEF Found
    <3>5. \A k \in Found : Cardinality(UpTo(Found, k)) \in 1..Len(probes) /\ k \in 1..len
      BY <2>3, <3>3, <3>4, PlacesCounted
    <3> HIDE DEF w
    <3>6. Found' = Found \cup (IF IsProbe(w) THEN {len + 1} ELSE {})
      <4>1. \A x : IsProbe(x)' <=> IsProbe(x)
        BY <2>1 DEF IsProbe, SectionLen, NoteSections, Pad4
      <4> QED BY <2>1, <2>3, <4>1 DEF Found, IsProbe, SectionLen, NoteSections, Pad4
    <3>7. CASE ~IsProbe(w)
      <4>1. Found' = Found /\ probes' = probes
        BY <3>2, <3>6, <3>7
      <4> QED BY <2>3, <3>3, <3>5, <4>1 DEF ProbesCounted
    <3>8. CASE IsProbe(w)
      <4>1. Found' = Found \cup {len + 1}
        BY <3>6, <3>8
      <4>2. /\ Cardinality(Found') = Len(probes) + 1
            /\ UpTo(Found', len + 1) = Found'
            /\ \A k \in Found : UpTo(Found', k) = UpTo(Found, k)
        <5> DEFINE more == Found \cup {len + 1}
        <5>1. /\ Cardinality(more) = Cardinality(Found) + 1
              /\ UpTo(more, len + 1) = more
              /\ \A k \in Found : UpTo(more, k) = UpTo(Found, k)
          BY <2>3, <3>4, PlaceAdded
        <5> QED BY <3>3, <4>1, <5>1
      <4>3. /\ Len(probes') = Len(probes) + 1 /\ probes'[Len(probes) + 1] = ProbeOf(n)
            /\ \A c \in 1..Len(probes) : probes'[c] = probes[c]
        BY <2>5, <3>2, <3>8
      <4>4. ASSUME NEW k \in Found'
            PROVE  probes'[Cardinality(UpTo(Found', k))].note = walked'[k].note
        <5>1. CASE k \in Found
          BY <2>3, <3>3, <3>5, <4>2, <4>3, <5>1
        <5>2. CASE k = len + 1
          <6>1. Cardinality(UpTo(Found', k)) = Len(probes) + 1
            BY <4>2, <5>2
          <6>2. walked'[k].note = n /\ ProbeOf(n).note = n
            BY <2>3, <5>2 DEF ProbeOf, w
          <6> QED BY <4>3, <6>1, <6>2
        <5> QED BY <4>1, <5>1, <5>2
      <4> QED BY <4>2, <4>3, <4>4 DEF ProbesCounted
    <3> QED BY <3>7, <3>8
  <2> QED BY <2>6, <2>7 DEF ProbesInv, ProbesCounted
<1>2. CASE ~\E n \in Notes : ReadsHeader(n)
  <2>1. UNCHANGED <<file, probes, walked>>
    BY <1>2, QuietWalk DEF vars
  <2>2. Found' = Found
    BY <2>1 DEF Found, IsProbe, SectionLen, NoteSections, Pad4
  <2> QED BY <2>1, <2>2 DEF ProbesInv, ProbesCounted, NamesFit, UpTo
<1> QED BY <1>1, <1>2

\* The probes are the complete stapsdt notes of the last note section, each once and
\* in their order, for every content of the section whose name sizes do not wrap.
THEOREM FindsProbesHolds == Spec => []FindsProbes
<1>1. Init => ProbesInv
  <2> SUFFICES ASSUME Init PROVE ProbesInv
    OBVIOUS
  <2>1. probes = <<>> /\ walked = <<>>
    BY DEF Init
  <2>2. Found = {} /\ probes \in Seq({})
    BY <2>1 DEF Found
  <2>3. Cardinality(Found) = 0 /\ Len(probes) = 0
    BY <2>1, <2>2, FS_EmptySet
  <2> QED BY <2>2, <2>3 DEF ProbesInv, ProbesCounted
<1>2. ProbesInv => FindsProbes
  BY DEF ProbesInv, ProbesCounted, FindsProbes, Found, UpTo, NamesFit
<1> QED BY <1>1, <1>2, WalkInit, WalkStep, ScanInit, ScanStep, ProbesStep, PTL DEF Spec

-----------------------------------------------------------------------------
(***************************************************************************)
(* Addresses.  The adjusted address of an offset is where its segment      *)
(* loads it, in a file that was moved and in one that was not.             *)
(***************************************************************************)
\* Moving an address down and up again by what the base moved, in arithmetic that
\* wraps, restores it.
LEMMA MovedBack ==
  ASSUME NEW M \in Nat \ {0}, NEW x \in 0..(M - 1), NEW b \in Int, NEW h \in Int
  PROVE  (((x - h) % M) + b - ((b - h) % M)) % M = x
<1> DEFINE q == (x - h) \div M
           r == (b - h) \div M
           y == (x - h) % M
           z == (b - h) % M
<1>1. q \in Int /\ r \in Int /\ y \in Int /\ z \in Int
  OBVIOUS
<1>2. x - h = (M * q) + y /\ b - h = (M * r) + z
  OBVIOUS
<1> HIDE DEF q, r, y, z
<1>3. M * (r - q) = (M * r) - (M * q) /\ M * r \in Int /\ M * q \in Int /\ r - q \in Int
  BY <1>1
<1>4. y + b - z = (M * (r - q)) + x
  BY <1>1, <1>2, <1>3
<1>5. (y + b - z) % M = x
  BY <1>3, <1>4, ModUnique
<1> QED BY <1>5 DEF y, z

\* The base address when all sections were seen.
BaseKnown ==
  \/ baseAddr = 0 /\ ~HasBase(file)
  \/ baseAddr = file.base /\ HasBase(file)

\* In a linked file the base section is where the file says.
LEMMA BaseIsFileBase ==
  ASSUME LinkedFiles, ScanInv, pc = "notes"
  PROVE  BaseKnown
<1>1. /\ file \in Files /\ i \in Nat /\ i > Len(file.sections) /\ Len(file.sections) \in Nat
      /\ BaseSections \subseteq 1..Len(file.sections)
  BY SectionNumbers DEF ScanInv, ScanAt
<1>2. \A k \in BaseSections : ~(k >= i)
  BY <1>1
<1>3. HasBase(file) <=> BaseSections # {}
  BY DEF HasBase, BaseSections
<1>4. \A k \in BaseSections : file.sections[k].addr = file.base
  BY <1>1 DEF LinkedFiles, WellBased, BaseSections
<1> QED BY <1>2, <1>3, <1>4 DEF ScanInv, BaseSeen, BaseKnown

\* An offset that lies in a segment of a linked file is found again from the
\* address the note records.
LEMMA Relocated ==
  ASSUME LinkedFiles, file \in Files, BaseKnown, NEW off \in Nat, Placed(file, off)
  PROVE  LET addr == Adjust(Linked(off))
         IN  /\ {(addr - s.vaddr + s.off) % U64 : s \in findLoadSegment(addr)} = {off}
             /\ NeverZero(file, off) => addr # 0 /\ Linked(off) # 0
<1> DEFINE seg == CHOOSE s \in LoadSegments : Covers(s, off)
           a == off - seg.off + seg.vaddr
           h == file.shift
<1>1. PICK k \in Loads(file) : seg = file.progs[k] /\ Covers(file.progs[k], off)
  <2>1. \E s \in LoadSegments : Covers(s, off)
    BY DEF Placed, LoadSegments
  <2>2. seg \in LoadSegments /\ Covers(seg, off)
    BY <2>1
  <2> QED BY <2>2 DEF LoadSegments
<1>2. file.progs \in Seq(ProgType) /\ h \in Int /\ file.base \in 0..(U64 - 1)
  BY FilesAreFiles
<1>3. \A l \in Loads(file) : /\ l \in Nat /\ file.progs[l].vaddr \in Nat
                            /\ file.progs[l].memsz \in Nat /\ file.progs[l].off \in Nat
  <2>1. \A l \in Loads(file) : l \in Nat /\ file.progs[l] \in ProgType
    BY <1>2 DEF Loads
  <2> QED BY <2>1, Widths DEF ProgType
<1>4. U64 \in Nat \ {0} /\ off < U64
  BY Widths DEF Placed
<1>5. WellLoaded(file) /\ WellBased(file)
  BY DEF LinkedFiles
<1>6. Linked(off) = (off - seg.off + seg.vaddr - h) % U64
  BY DEF Linked
<1>7. /\ seg.off \in Nat /\ seg.vaddr \in Nat /\ seg.memsz \in Nat
      /\ off >= seg.off /\ off < seg.off + seg.memsz /\ seg.vaddr + seg.memsz < U64
  BY <1>1, <1>3, <1>5 DEF Covers, WellLoaded
<1> HIDE DEF seg
<1>8. /\ a \in 0..(U64 - 1) /\ a >= seg.vaddr /\ a < seg.vaddr + seg.memsz
      /\ a - seg.vaddr + seg.off = off /\ off - seg.off + seg.vaddr - h = a - h
  <2>1. h \in Int
    BY <1>2
  <2> HIDE DEF h
  <2> QED BY <1>4, <1>7, <2>1
<1>9. NeverZero(file, off) => a # 0 /\ (a - h) % U64 # 0
  BY <1>1 DEF NeverZero
<1>10. \A l \in Loads(file) : Contains(file.progs[l], a) <=> l = k
  <2> SUFFICES ASSUME NEW l \in Loads(file) PROVE Contains(file.progs[l], a) <=> l = k
    OBVIOUS
  <2> DEFINE t == file.progs[l]
  <2>1. t.vaddr \in Nat /\ t.memsz \in Nat /\ t.vaddr + t.memsz < U64
    BY <1>3, <1>5 DEF WellLoaded
  <2>2. l # k => \/ t.vaddr + t.memsz <= seg.vaddr
                 \/ seg.vaddr + seg.memsz <= t.vaddr
    BY <1>1, <1>5 DEF WellLoaded
  <2>3. l = k => t = seg
    BY <1>1
  <2> HIDE DEF t
  <2>4. (t.vaddr + t.memsz) % U64 = t.vaddr + t.memsz
    BY <1>4, <2>1
  <2>5. Contains(t, a) <=> l = k
    <3> HIDE DEF a
    <3> QED BY <1>7, <1>8, <2>1, <2>2, <2>3, <2>4 DEF Contains
  <2> QED BY <2>5 DEF t
<1> HIDE DEF a, h
<1>11. Adjust((a - h) % U64) = a
  <2>1. (((a - h) % U64) + file.base - ((file.base - h) % U64)) % U64 = a
    <3> DEFINE b == file.base
    <3>1. b \in Int /\ h \in Int /\ a \in 0..(U64 - 1) /\ U64 \in Nat \ {0}
      BY <1>2, <1>4, <1>8
    <3> HIDE DEF b
    <3>2. (((a - h) % U64) + b - ((b - h) % U64)) % U64 = a
      BY <3>1, MovedBack
    <3> QED BY <3>2 DEF b
  <2>2. CASE baseAddr = file.base /\ baseAddr # 0 /\ noteBase # 0
    BY <2>1, <2>2 DEF Adjust, noteBase, h
  <2>3. CASE ~(baseAddr # 0 /\ noteBase # 0)
    <3>1. h = 0
      BY <1>5, <2>3 DEF WellBased, BaseKnown, noteBase, h
    <3>2. (a - h) % U64 = a
      BY <1>4, <1>8, <3>1
    <3> QED BY <2>3, <3>2 DEF Adjust
  <2> QED BY <2>2, <2>3 DEF BaseKnown
<1>12. findLoadSegment(a) = {seg}
  <2> DEFINE hits == {l \in Loads(file) : Contains(file.progs[l], a)}
  <2>1. hits = {k}
    BY <1>10
  <2>2. k \in Nat
    BY <1>3
  <2> HIDE DEF hits
  <2>3. Min(hits) = k
    BY <2>1, <2>2 DEF Min
  <2> QED BY <1>1, <2>1, <2>3 DEF findLoadSegment, hits
<1>13. (a - seg.vaddr + seg.off) % U64 = off
  BY <1>4, <1>8
<1> QED BY <1>6, <1>8, <1>9, <1>11, <1>12, <1>13

\* Both offsets of a probe are those that the linker meant.
LEMMA ProbeLocated ==
  ASSUME LinkedFiles, file \in Files, BaseKnown, NEW n \in Notes
  PROVE  /\ n.at # Hole => LocationOf(n) = n.at
         /\ SemaphoreOffset(n) = n.sema
<1>1. n.at \in Nat /\ n.sema \in Nat
  BY NotesAreNotes DEF NoteType
<1>2. ASSUME n.at # Hole PROVE LocationOf(n) = n.at
  <2> DEFINE addr == Adjust(Linked(n.at))
             offs == {(addr - s.vaddr + s.off) % U64 : s \in findLoadSegment(addr)}
  <2>1. offs = {n.at}
    BY <1>1, <1>2, Relocated DEF LinkedFiles
  <2>2. LocationOf(n) = IF offs = {} THEN addr ELSE CHOOSE o \in offs : TRUE
    BY <1>2 DEF LocationOf, location
  <2> HIDE DEF offs
  <2> QED BY <2>1, <2>2
<1>3. ASSUME n.sema = 0 PROVE SemaphoreOffset(n) = n.sema
  BY <1>3 DEF SemaphoreOffset, semaphore
<1>4. ASSUME n.sema # 0 PROVE SemaphoreOffset(n) = n.sema
  <2> DEFINE addr == Adjust(Linked(n.sema))
             offs == {(addr - s.vaddr + s.off) % U64 : s \in findLoadSegment(addr)}
  <2>1. offs = {n.sema} /\ addr # 0 /\ Linked(n.sema) # 0
    BY <1>1, <1>4, Relocated DEF LinkedFiles
  <2>2. semaphore(n) = Linked(n.sema)
    BY <1>4 DEF semaphore
  <2>3. SemaphoreOffset(n) = IF addr = 0 \/ offs = {} THEN 0 ELSE CHOOSE o \in offs : TRUE
    BY <2>1, <2>2 DEF SemaphoreOffset
  <2> HIDE DEF offs, addr
  <2> QED BY <2>1, <2>3
<1> QED BY <1>2, <1>3, <1>4

\* In every file that a linker, and prelink after it, can leave behind, the location
\* and the semaphore of each probe are the file offsets the linker meant, however the
\* addresses wrap.
THEOREM LocatesProbeHolds == LinkedFiles /\ Spec => []LocatesProbe
<1> DEFINE Inv == ScanInv /\ (\E S : probes \in Seq(S)) /\ LocatesProbe
<1>1. Init => Inv
  <2>1. Init => probes = <<>> /\ probes \in Seq({})
    BY DEF Init
  <2> QED BY <2>1, ScanInit DEF LocatesProbe
<1>2. ASSUME LinkedFiles, Inv, [Next]_vars PROVE Inv'
  <2>1. ScanInv'
    BY <1>2, ScanStep
  <2>2. PICK S : probes \in Seq(S)
    BY <1>2
  <2>3. ASSUME NEW n \in Notes, ReadsHeader(n)
        PROVE  (\E T : probes' \in Seq(T)) /\ LocatesProbe'
    <3>1. CASE probes' = probes
      BY <1>2, <3>1 DEF LocatesProbe
    <3>2. CASE probes' = Append(probes, ProbeOf(n))
      <4>1. file \in Files /\ pc = "notes"
        BY <1>2, <2>3, HeaderRead DEF HasHeader, ScanInv, ScanAt
      <4>2. BaseKnown
        BY <1>2, <4>1, BaseIsFileBase
      <4>3. /\ n.at # Hole => ProbeOf(n).location = n.at
            /\ ProbeOf(n).sema = n.sema /\ ProbeOf(n).note = n
        BY <1>2, <4>1, <4>2, ProbeLocated DEF ProbeOf
      <4>4. probes \in Seq(S \cup {ProbeOf(n)})
        BY <2>2
      <4> DEFINE p == ProbeOf(n)
                 U == S \cup {p}
      <4> HIDE DEF p
      <4>5. probes' = Append(probes, p) /\ probes \in Seq(U) /\ p \in U
        BY <3>2, <4>4 DEF p
      <4>6. probes' \in Seq(U)
        BY <4>5
      <4>7. \A k \in DOMAIN probes' : \/ k \in DOMAIN probes /\ probes'[k] = probes[k]
                                      \/ probes'[k] = p
        BY <4>5
      <4>8. LocatesProbe'
        BY <1>2, <4>3, <4>7 DEF LocatesProbe, p
      <4> QED BY <4>6, <4>8
    <3> QED BY <2>3, <3>1, <3>2
            DEF ReadsHeader, SkipForeign, Overrun, SkipShort, TakeNote, ProbeOf
  <2>4. CASE ~\E n \in Notes : ReadsHeader(n)
    <3>1. probes' = probes
      BY <1>2, <2>4, QuietWalk DEF vars
    <3> QED BY <1>2, <2>1, <3>1 DEF LocatesProbe
  <2> QED BY <2>1, <2>3, <2>4
<1>3. LinkedFiles => LinkedFiles'
  BY DEF LinkedFiles, WellBased, WellLoaded, HasBase, Placed, NeverZero, Covers, Loads
<1> QED BY <1>1, <1>2, <1>3, PTL DEF Spec

-----------------------------------------------------------------------------
(***************************************************************************)
(* The file: what holds at the end of Returns, whichever exit is taken.    *)
(***************************************************************************)
\* A file of OpenELF's is open from the call of os.Open to the return and at no other
\* time; a file of the caller's own is always open.
FileInv ==
  /\ pc \in {"start", "header", "sections", "scan", "notes", "done", "failed", "returned"}
  /\ closer \in BOOLEAN
  /\ fd = (~closer \/ pc \notin {"start", "returned"})

\* No step leaves an opened file behind or closes the caller's.
LEMMA FileStep == FileInv /\ [Next]_vars => FileInv'
<1> SUFFICES ASSUME FileInv, [Next]_vars PROVE FileInv'
  OBVIOUS
<1>1. CASE OpenFile
  BY <1>1 DEF OpenFile, FileInv
<1>2. CASE RejectFile \/ CloseFile
  BY <1>2 DEF RejectFile, CloseFile, FileInv
<1>3. CASE ReadHeader \/ Sections \/ ScanSection \/ ScanEnd \/ WalkEnd
  BY <1>3 DEF ReadHeader, Sections, ScanSection, ScanEnd, WalkEnd, FileInv
<1>4. ASSUME NEW n \in Notes, SkipForeign(n) \/ Overrun(n) \/ SkipShort(n) \/ TakeNote(n)
      PROVE  FileInv'
  BY <1>4 DEF SkipForeign, Overrun, SkipShort, TakeNote, HasHeader, FileInv
<1>5. CASE UNCHANGED vars
  BY <1>5 DEF vars, FileInv
<1> QED BY <1>1, <1>2, <1>3, <1>4, <1>5 DEF Next

\* Whichever read fails and wherever the walk stops, a call that has returned has closed
\* the file if OpenELF opened it, and has left it open if it is the caller's.
THEOREM FileReleased == Spec => [](pc = "returned" => fd = ~closer)
<1>1. Init => FileInv
  BY DEF Init, FileInv
<1>2. FileInv => (pc = "returned" => fd = ~closer)
  BY DEF FileInv
<1> QED BY <1>1, <1>2, FileStep, PTL DEF Spec
=============================================================================
