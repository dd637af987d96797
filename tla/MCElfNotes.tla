----------------------------- MODULE MCElfNotes -----------------------------
(***************************************************************************)
(* Files and notes for ElfNotes.  A uint32 counts to 64, so that sizes     *)
(* that wrap when they are rounded are among the notes; a uint64 to 4096.  *)
(***************************************************************************)
EXTENDS ElfNotes

\* Two segments, adjacent in the file and apart in memory, behind a header
\* of another type.
Prog(type, vaddr, memsz, off) == [type |-> type, vaddr |-> vaddr, memsz |-> memsz, off |-> off]
TwoSegs == <<Prog("PT_PHDR", 100, 90, 30), Prog("PT_LOAD", 100, 40, 0),
             Prog("PT_LOAD", 200, 40, 40)>>

Stap(len) == [name |-> ".note.stapsdt", len |-> len, addr |-> 0]
Base(addr) == [name |-> ".stapsdt.base", len |-> 1, addr |-> addr]
Text == [name |-> ".text", len |-> 40, addr |-> 100]

Elf(sections, shift) ==
  [sections |-> sections, progs |-> TwoSegs, shift |-> shift, base |-> 120]

\* A file without probes, without a base, prelinked up, down and not at all, with
\* an empty note section, with two note sections, and with one without data, as a
\* reader of the caller's own may present it.
MCFiles ==
  { Elf(<<Text>>, 0),
    Elf(<<Text, Stap(0)>>, 0),
    Elf(<<Stap(100), Stap(-1)>>, 0),
    Elf(<<Stap(104), Text>>, 0),
    Elf(<<Text, Stap(128), Base(120)>>, 0),
    Elf(<<Base(120), Stap(100)>>, 90),
    Elf(<<Stap(24), Stap(103), Base(120)>>, -70) }

Note(namesz, descsz, type, parts, at, sema) ==
  [namesz |-> namesz, descsz |-> descsz, type |-> type,
   parts |-> parts, at |-> at, sema |-> sema]

MCNotes ==
  { Note(8, 28, 3, 4, 10, 0),       \* a probe without a semaphore
    Note(8, 27, 3, 4, 39, 40),      \* an unaligned size, the ends of the segments
    Note(5, 26, 3, 3, 0, 79),       \* an unaligned name
    Note(8, 24, 3, 1, 10, 0),       \* no strings
    Note(8, 20, 3, 1, 10, 0),       \* a short descriptor
    Note(8, 60, 3, 4, 12, 44),      \* the rounded size is still a uint32
    Note(63, 24, 3, 1, 10, 0),      \* the name's size wraps when it is rounded
    Note(0, 62, 3, 4, 10, 0),       \* so does the descriptor's
    Note(4, 16, 1, 1, 10, 0),       \* a foreign note
    Note(62, 63, 1, 1, 10, 0) }     \* a foreign note whose sizes both wrap

\* A probe whose address lies in no segment.
UnmappedNotes == MCNotes \cup {Note(8, 28, 3, 4, Hole, 0)}

\* The premise of LocatesProbe for every file, evaluated on the instance above.
ASSUME LinkedInstance == LinkedFiles
=============================================================================
