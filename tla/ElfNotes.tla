------------------------------ MODULE ElfNotes ------------------------------
(***************************************************************************)
(* ParseProbesFromFile (elfreader.go) and ParseProbes (elfparse.go): the   *)
(* file is opened, its sections are scanned, the notes of .note.stapsdt    *)
(* are walked, each probe's virtual addresses become file offsets, and the *)
(* file is closed.  A caller may instead hand over a reader of its own     *)
(* (NewStdlibELFReader), which stays the caller's to close.                *)
(*                                                                         *)
(* Every read of the file may fail.                                        *)
(* The content of the note section is arbitrary: wherever the walk reads a *)
(* header it finds some member of Notes.  Offsets and sizes are counted in *)
(* bytes.  A note is written by a linker that knows where the probe is in  *)
(* the file; it records virtual addresses, and prelink may have moved the  *)
(* file's segments since.                                                  *)
(***************************************************************************)
EXTENDS Integers, Sequences, FiniteSets, FiniteSetsExt

CONSTANTS
  Files,  \* the files: sections, program headers, prelink shift
  Notes,  \* notes a header may announce
  U32,    \* values of a uint32
  U64,    \* values of a uint64
  Hole    \* an address that no segment contains

ASSUME Widths == U32 \in Nat /\ U32 % 4 = 0 /\ U64 \in Nat \ {0} /\ Hole \in Nat \ {0}

\* What a note's header and descriptor can say; at and sema are file offsets.
NoteType ==
  [namesz : 0..(U32 - 1), descsz : 0..(U32 - 1), type : 0..(U32 - 1),
   parts : Nat, at : Nat, sema : Nat]

SectionType == [name : STRING, len : Nat \cup {-1}, addr : 0..(U64 - 1)]
ProgType ==
  [type : STRING, vaddr : 0..(U64 - 1), memsz : 0..(U64 - 1), off : 0..(U64 - 1)]

ASSUME NotesAreNotes == Notes \subseteq NoteType
ASSUME FilesAreFiles ==
  \A f \in Files : /\ f.sections \in Seq(SectionType) /\ f.progs \in Seq(ProgType)
                   /\ f.shift \in Int /\ f.base \in 0..(U64 - 1)

VARIABLES
  file,      \* the ELF file
  pc,        \* "start", "header", "sections", "scan", "notes", "done", "failed", "returned"
  closer,    \* the reader was made by OpenELF, which opens the file
  fd,        \* the file is open
  i,         \* loop index over the sections
  data,      \* length of stapsdtData, or -1 for nil
  baseAddr,  \* address of .stapsdt.base, or 0
  offset,    \* position in stapsdtData
  probes,    \* the probes found
  walked     \* history: the notes whose header was read, and where

vars == <<file, pc, closer, fd, i, data, baseAddr, offset, probes, walked>>

Init ==
  /\ file \in Files
  /\ pc = "start" /\ closer \in BOOLEAN /\ fd = ~closer /\ i = 1
  /\ data = -1 /\ baseAddr = 0 /\ offset = 0
  /\ probes = <<>> /\ walked = <<>>

-----------------------------------------------------------------------------
(***************************************************************************)
(* Addresses.                                                              *)
(***************************************************************************)
Contains(seg, addr) == addr >= seg.vaddr /\ addr < (seg.vaddr + seg.memsz) % U64

Covers(seg, off) == off >= seg.off /\ off < seg.off + seg.memsz

\* The places of the PT_LOAD headers among the program headers debug/elf lists.
Loads(f) == {k \in DOMAIN f.progs : f.progs[k].type = "PT_LOAD"}
LoadSegments == {file.progs[k] : k \in Loads(file)}

\* The first segment that contains the address, as a set.
findLoadSegment(addr) ==
  LET hits == {k \in Loads(file) : Contains(file.progs[k], addr)}
  IN  IF hits = {} THEN {} ELSE {file.progs[Min(hits)]}

\* Where the linker put a file offset, before and after prelink moved the file.
Linked(off) ==
  LET seg == CHOOSE s \in LoadSegments : Covers(s, off)
  IN  (off - seg.off + seg.vaddr - file.shift) % U64

\* The three addresses in a note's descriptor.
location(n) == IF n.at = Hole THEN Hole ELSE Linked(n.at)
semaphore(n) == IF n.sema = 0 THEN 0 ELSE Linked(n.sema)
noteBase == (file.base - file.shift) % U64

\* Mutant of Adjust: the difference is taken the other way round.
AdjustBackwards(addr) ==
  IF baseAddr # 0 /\ noteBase # 0 THEN (addr + noteBase - baseAddr) % U64 ELSE addr

\* The prelink adjustment, in uint64 arithmetic.
Adjust(addr) ==
  IF baseAddr # 0 /\ noteBase # 0 THEN (addr + baseAddr - noteBase) % U64 ELSE addr

\* An address no segment contains stays a virtual address.
LocationOf(n) ==
  LET addr == Adjust(location(n))
      offs == {(addr - s.vaddr + s.off) % U64 : s \in findLoadSegment(addr)}
  IN  IF offs = {} THEN addr ELSE CHOOSE o \in offs : TRUE

\* A semaphore no segment contains is dropped.
SemaphoreOffset(n) ==
  LET addr == IF semaphore(n) = 0 THEN 0 ELSE Adjust(semaphore(n))
      offs == {(addr - s.vaddr + s.off) % U64 : s \in findLoadSegment(addr)}
  IN  IF addr = 0 \/ offs = {} THEN 0 ELSE CHOOSE o \in offs : TRUE

-----------------------------------------------------------------------------
(***************************************************************************)
(* The file.                                                               *)
(***************************************************************************)
\* os.Open, unless the caller brings an open reader.
OpenFile ==
  /\ pc = "start"
  /\ \/ pc' = "header" /\ fd' = TRUE
     \/ closer /\ pc' = "returned" /\ UNCHANGED fd
  /\ UNCHANGED <<file, closer, i, data, baseAddr, offset, probes, walked>>

\* elf.NewFile accepts the file.
ReadHeader ==
  /\ pc = "header"
  /\ pc' = "sections"
  /\ UNCHANGED <<file, closer, fd, i, data, baseAddr, offset, probes, walked>>

\* Mutant of RejectFile: the error return does not close the file.
RejectFileOpen ==
  /\ pc = "header"
  /\ pc' = "returned"
  /\ UNCHANGED <<file, closer, fd, i, data, baseAddr, offset, probes, walked>>

\* elf.NewFile rejects it; OpenELF closes it, there is no reader to close.
RejectFile ==
  /\ pc = "header"
  /\ pc' = "returned" /\ fd' = (fd /\ ~closer)
  /\ UNCHANGED <<file, closer, i, data, baseAddr, offset, probes, walked>>

\* Sections() reads the data of the two sections ParseProbes needs, no other.
Needed == {".note.stapsdt", ".stapsdt.base"}

Sections ==
  /\ pc = "sections"
  /\ \/ pc' = "scan"
     \/ /\ \E k \in DOMAIN file.sections : file.sections[k].name \in Needed
        /\ pc' = "failed"
  /\ UNCHANGED <<file, closer, fd, i, data, baseAddr, offset, probes, walked>>

\* The deferred Close, after the probes or after an error; without a closer it
\* does nothing.
CloseFile ==
  /\ pc \in {"done", "failed"}
  /\ pc' = "returned" /\ fd' = (fd /\ ~closer)
  /\ UNCHANGED <<file, closer, i, data, baseAddr, offset, probes, walked>>

-----------------------------------------------------------------------------
(***************************************************************************)
(* The sections.                                                           *)
(***************************************************************************)
\* The last section of each name wins.
ScanSection ==
  LET s == file.sections[i] IN
  /\ pc = "scan" /\ i <= Len(file.sections)
  /\ data' = IF s.name = ".note.stapsdt" THEN s.len ELSE data
  /\ baseAddr' = IF s.name = ".stapsdt.base" THEN s.addr ELSE baseAddr
  /\ i' = i + 1
  /\ UNCHANGED <<file, pc, closer, fd, offset, probes, walked>>

ScanEnd ==
  /\ pc = "scan" /\ i > Len(file.sections)
  /\ pc' = IF data = -1 THEN "done" ELSE "notes"
  /\ UNCHANGED <<file, closer, fd, i, data, baseAddr, offset, probes, walked>>

-----------------------------------------------------------------------------
(***************************************************************************)
(* The notes.                                                              *)
(***************************************************************************)
\* Mutant of Align4: a size is not rounded up.
Align4Down(n) == (n % U32) - (n % 4)

\* (n+3)&^3 in uint32 arithmetic: the sum wraps before the mask.
Align4(n) == LET m == (n + 3) % U32 IN m - (m % 4)

\* The loop ends, or a header does not fit any more.
WalkEnd ==
  /\ pc = "notes" /\ offset + 12 > data
  /\ pc' = "done"
  /\ UNCHANGED <<file, closer, fd, i, data, baseAddr, offset, probes, walked>>

HasHeader == pc = "notes" /\ offset + 12 <= data

\* Mutant of NameEnd: the note's own header is not counted.
NameEndInPlace(n) == offset + Align4(n.namesz)

NameEnd(n) == offset + 12 + Align4(n.namesz)

\* Mutant of Fits: a note that ends where the section ends is dropped.
FitsBefore(n) == NameEnd(n) + n.descsz < data

\* The descriptor lies within the section.
Fits(n) == NameEnd(n) + n.descsz <= data

Read(n) == walked' = Append(walked, [note |-> n, at |-> offset])
Skip(n) == offset' = NameEnd(n) + Align4(n.descsz) /\ Read(n)

\* NT_STAPSDT is 3; any other note is passed over, whatever its sizes say.
SkipForeign(n) ==
  /\ HasHeader /\ n.type # 3
  /\ Skip(n)
  /\ UNCHANGED <<file, pc, closer, fd, i, data, baseAddr, probes>>

\* A descriptor that runs out of the section ends the walk.
Overrun(n) ==
  /\ HasHeader /\ n.type = 3 /\ ~Fits(n)
  /\ pc' = "done"
  /\ Read(n)
  /\ UNCHANGED <<file, closer, fd, i, data, baseAddr, offset, probes>>

SkipShort(n) ==
  /\ HasHeader /\ n.type = 3 /\ Fits(n) /\ n.descsz < 24
  /\ Skip(n)
  /\ UNCHANGED <<file, pc, closer, fd, i, data, baseAddr, probes>>

\* A complete stapsdt note; without its three strings it is no probe.
TakeNote(n) ==
  /\ HasHeader /\ n.type = 3 /\ Fits(n) /\ n.descsz >= 24
  /\ probes' = IF n.parts < 3 THEN probes
               ELSE Append(probes, [location |-> LocationOf(n), base |-> noteBase,
                                    sema |-> SemaphoreOffset(n), note |-> n])
  /\ Skip(n)
  /\ UNCHANGED <<file, pc, closer, fd, i, data, baseAddr>>

Next ==
  \/ OpenFile \/ ReadHeader \/ RejectFile \/ Sections \/ CloseFile
  \/ ScanSection \/ ScanEnd \/ WalkEnd
  \/ \E n \in Notes : SkipForeign(n) \/ Overrun(n) \/ SkipShort(n) \/ TakeNote(n)

Spec == Init /\ [][Next]_vars
FairSpec == Spec /\ WF_vars(Next)
-----------------------------------------------------------------------------
(***************************************************************************)
(* Properties.                                                             *)
(***************************************************************************)
\* The files a linker and prelink leave behind: the base section is where the file
\* says, a file that was moved has one, segments do not overlap in memory nor reach
\* the end of the address space, and the probes of the notes lie in segments.
HasBase(f) == \E k \in DOMAIN f.sections : f.sections[k].name = ".stapsdt.base"

WellBased(f) ==
  /\ \A k \in DOMAIN f.sections :
       f.sections[k].name = ".stapsdt.base" => f.sections[k].addr = f.base
  /\ f.shift = 0 \/ (HasBase(f) /\ f.base # 0 /\ (f.base - f.shift) % U64 # 0)

WellLoaded(f) ==
  \A k \in Loads(f) :
    /\ f.progs[k].vaddr + f.progs[k].memsz < U64
    /\ \A l \in Loads(f) \ {k} :
         \/ f.progs[k].vaddr + f.progs[k].memsz <= f.progs[l].vaddr
         \/ f.progs[l].vaddr + f.progs[l].memsz <= f.progs[k].vaddr

\* An offset that a note refers to; the address of a semaphore is never 0.
Placed(f, off) == off < U64 /\ \E k \in Loads(f) : Covers(f.progs[k], off)
NeverZero(f, off) ==
  \A k \in Loads(f) : Covers(f.progs[k], off) =>
    LET addr == off - f.progs[k].off + f.progs[k].vaddr
    IN  addr # 0 /\ (addr - f.shift) % U64 # 0

LinkedFiles ==
  \A f \in Files : WellBased(f) /\ WellLoaded(f) /\ \A n \in Notes :
    /\ n.at # Hole => Placed(f, n.at)
    /\ n.sema # 0 => Placed(f, n.sema) /\ NeverZero(f, n.sema)

\* The layout of an ELF note section, without the width of a uint32.
Pad4(n) == 4 * ((n + 3) \div 4)
NoteLen(n) == 12 + Pad4(n.namesz) + Pad4(n.descsz)

\* The section whose notes count: the last one of the name, if it has data.
NoteSections == {k \in DOMAIN file.sections : file.sections[k].name = ".note.stapsdt"}
SectionLen == IF NoteSections = {} THEN -1 ELSE file.sections[Max(NoteSections)].len

IsProbe(w) ==
  /\ w.note.type = 3 /\ w.note.descsz >= 24 /\ w.note.parts >= 3
  /\ w.at + 12 + Pad4(w.note.namesz) + w.note.descsz <= SectionLen

\* The walk follows the layout of the section: each header is read where the note
\* before it ends.  Sizes within 3 of the largest uint32, whose rounding wraps,
\* are excluded.
WalksLayout ==
  \A k \in 1..(Len(walked) - 1) :
    LET n == walked[k].note
    IN  n.namesz + 3 < U32 /\ n.descsz + 3 < U32 =>
          walked[k + 1].at = walked[k].at + NoteLen(n)

\* The probes are the complete stapsdt notes of the section, each one once and in
\* their order; none is lost at the end of the section, and of several sections
\* with the name the last one counts.
FindsProbes ==
  pc \in {"notes", "done"} /\ (\A k \in DOMAIN walked : walked[k].note.namesz + 3 < U32) =>
    LET found == {k \in DOMAIN walked : IsProbe(walked[k])}
    IN  /\ Len(probes) = Cardinality(found)
        /\ \A k \in found : probes[Cardinality({m \in found : m <= k})].note = walked[k].note

\* Location and SemaphoreOffset are the file offsets the linker meant, also in a
\* file that prelink has moved: both addresses are shifted by the same amount
\* before the segments are searched, and only PT_LOAD segments are.
LocatesProbe ==
  \A k \in DOMAIN probes :
    /\ probes[k].note.at # Hole => probes[k].location = probes[k].note.at
    /\ probes[k].sema = probes[k].note.sema

\* The walk always moves forward by at least a header, whatever the sizes say, so
\* that it cannot read a note twice.
MovesForward == [][walked' # walked => pc' = "done" \/ offset' >= offset + 12]_vars

\* ParseProbesFromFile returns, whatever the section contains and whichever read
\* fails, with the file closed on every exit; a reader of the caller's own is
\* left open.
Returns == <>(pc = "returned" /\ fd = ~closer)

\* What probe.go says of Probe.Location (line 11): it is a file offset, so it lies
\* in the part of the file that some segment loads.
LocationIsFileOffset ==
  \A k \in DOMAIN probes :
    \E s \in LoadSegments : Covers(s, probes[k].location)
=============================================================================
