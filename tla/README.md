# Verification of the usdt library

TLA+ models, TLC runs and TLAPS proofs for `github.com/parca-dev/usdt`, a Go
library that finds USDT probes in ELF files, parses their argument
specifications, stores these in a BPF map and attaches BPF programs that decode
the arguments when a probe fires.

## 1. Inventory

| Component | State | Operations | Interacts with |
|---|---|---|---|
| ELF probe parser (`elfparse.go`, `elfreader.go`) | an open file and who owns it, position in the note section, probes found | `OpenELF`, `NewStdlibELFReader`, `Sections`, `LoadSegments`, `ParseProbes`, `Close` | produces `Probe` values for everything below |
| Argument parser (`args.go`) | position, `inBrackets`, current argument, spec so far | `splitUSDTArgs`, `ParseUSDTArgSpec`, `ParseUSDTArguments`, `lookupRegister`, `SpecToBytes` | called by `PopulateSpecMap`; its `Spec` is what `bpf_usdt_arg` decodes |
| Attachment pipeline (`attach.go`) | spec IDs, links, `ProbeLinks` | `PopulateSpecMap`, `MergeCookies`, `AttachUprobes`, `Close`/`Unload` | writes the spec map, creates and closes uprobe links |
| Spec map and BPF programs (`ebpf/usdt.ebpf.c`, `ebpf/usdt_args.h`) | hash map entries, running programs, their cookie | `__bpf_usdt_spec_id`, `bpf_usdt_arg`, the `BPF_USDT` macros | read the map concurrently with the pipeline, on any CPU |
| Shared layouts (`usdt_defs.h`, `types.go`) | the bytes of a map element | written by `SpecToBytes`, read by `bpf_usdt_arg` | two declarations of one struct, two lists of register and argument type numbers |
| CLI (`cmd/usdt`) | words left, flags, lines printed, exit status | `list`, `parse-args` | prints what the two parsers return |
| Tests (`internal/testbpf`, `usdt_test.ebpf.c`) | none | fixtures, generated loaders | |

The library takes no locks and starts no goroutines.  Its concurrency is with
the kernel: from the moment `exe.Uprobe` returns for a probe, the program
of that probe runs on any CPU at any time, looks its spec up in the map and reads
it through a pointer, while the same or another caller populates, attaches,
closes and deletes.  What is hard:

* the order of the four map and link operations (store, attach, close, delete)
  relative to programs that are running;
* errors in the middle of a loop (a full map, a probe that cannot be attached, a
  link that does not close);
* spec IDs: who owns which, what 0 means, what fits the high half of a cookie;
* two hand-written tables, one bit-shift convention and one struct layout that the
  Go parser and the C decoder must agree on;
* sizes and addresses read from a file: rounding, truncation, wrap-around.

What makes the components correct: a program decodes its arguments with its own
probe's spec, and gets them for as long as it runs; failures and `Close` leave
nothing attached; every call returns; the value a program reads is the one the
argument text denotes; every complete note of a section yields its probe at its
file offset.  `PROJECT.json` lists the hazards one by one with the properties
that cover them.

## 2. Modules

| Module | Models | Used by |
|---|---|---|
| `ProbeService` | what a caller is promised: no map, no IDs | `AttachService` |
| `Attach` | `attach.go`, the spec map, the lookups of `bpf_usdt_arg` | `AttachService`, `MCAttachCallers`, `AttachProofs` |
| `AttachService` | the refinement mapping from `Attach` to `ProbeService` | `MCAttach` |
| `SpecLayout` | the Go and the C layout of a spec, `SpecToBytes` and the reads | `UsdtArgs`, `SpecLayoutProofs` |
| `UsdtArgs` | `args.go` and the decoding in `bpf_usdt_arg` | `MCUsdtArgs`, `UsdtArgsProofs` |
| `UsdtCLI` | `cmd/usdt` | `MCUsdtCLI` |
| `ElfNotes` | `ParseProbesFromFile`, `ParseProbes`, `StdlibELFReader` | `MCElfNotes` |
| `AttachProofs` | theorems about `Attach`, with its inductive invariant | `AttachCloseProofs`, `AttachServiceProofs` |
| `AttachCloseProofs` | the theorem that a `Close` without an error has cleaned up | |
| `AttachServiceProofs` | the proof that `Attach` implements `ProbeService` | |
| `ElfNotesProofs`, `UsdtArgsProofs`, `UsdtCLIProofs` | theorems about `ElfNotes`, `UsdtArgs` and `UsdtCLI` | |
| `SpecLayoutProofs` | that the two layouts agree and what is written is read back | `UsdtArgsProofs` |
| `NumberSets` | lemmas on remainders, least and greatest members, places in a set of numbers | the four modules above |
| `MC...` | the instances TLC checks | |

### Attach

A *session* is one trip of a caller through the pipeline.  `pc[s]` says in which
call it is, `loop[s]` is the index of the call's loop.  Every `Map.Put`,
`Map.Delete`, `exe.Uprobe` and `Link.Close` is a step, so anything may happen
between two of them.

| Actions | Code |
|---|---|
| `CallPopulate`, `PopulateSkip`, `PopulatePut`, `PopulatePutFails`, `PopulateReturns` | `PopulateSpecMap` |
| `CallAttach`, `AttachOne`, `AttachFails`, `UndoReturns`, `AttachReturns` | `AttachUprobes`; the cookies are `MergeCookies`' result or nil |
| `CallClose`, `LinksClosed`, `DeleteSkip`, `DeleteOne`, `DeleteFails`, `UnloadReturns` | `Close`/`Unload` |
| `CloseBegin`, `CloseEnd`, `CloseFails` | one `Link.Close`, in `Unload` or in the clean-up of `AttachUprobes` |
| `AdoptSpecIDs` | a caller that assigns the exported field `ProbeLinks.SpecIDs` |
| `Fire`, `ArgLookup`, `ArgMiss`, `ArgRead`, `Return` | a program: the hit, each `bpf_usdt_arg` as lookup and read, the end |

Data: the spec of a probe is represented by the probe itself, so that "decoded with
the spec of another probe" is visible; an argument string is empty, refused,
or parsed into a number of arguments.  Cookies are numbers with the halves the
code gives them, and `U32` is the width of a `uint32`.

Assumptions about what is not in the repository:

* *The hash map* is preallocated.  An update never writes in place: it takes a free
  element and frees the replaced one; a freed element keeps its content until it
  is taken again.  Put may fail at any time and fails when the map is full.
* *A uprobe link.*  Closing it stops new hits and then waits for the programs
  that are running on it; a close that fails may leave the link attached.  A
  second close may succeed or fail.
* *Callers* follow the README's order.  Sessions that share the map use
  overlapping ranges of spec IDs only when the earlier session will not touch its
  IDs any more (`Settled`, `Overlap` in the guard of `CallPopulate`): nothing in the
  library allocates ranges, so this is the least a caller must guarantee.  A
  caller may close up to `MaxCloses` times.  With `LateClose` the IDs of a session
  are handed out again after its first `Close`, although it may close once more; the
  run `late` shows what that costs the next caller.

`AttachUprobes` returns a `ProbeLinks` without `SpecIDs`.  To check the deletion in
`Unload` at all, the callers in `Adopters` assign the field themselves.

### ProbeService and AttachService

`ProbeService` knows probes, CPUs and nothing else.  A probe goes from off to on to
stopping to done; a program that hits a probe which is on sees that probe's user
cookie and, argument by argument, that probe's arguments or nothing where it has
none; a probe is done only when its last program has ended.  A probe whose link
could not be closed is broken, and the service promises nothing more about it.

`AttachService` maps `Attach` onto it: the phase of a probe is the state of its
link, the user cookie is the low half of the link's cookie (`__bpf_usdt_cookie`), and
what a program was given is what it has fetched.  The map, its elements, the spec
IDs, the program counters of the calls and the deletions disappear: every step on
them is a stutter.  That is what the order of operations in `attach.go` is for, and
`ImplementsService` states it.

### SpecLayout and UsdtArgs

`SpecLayout` declares the argument struct twice, as `types.go` and as `usdt_defs.h`
do, and lays each out by the rule both compilers follow.  `SpecToBytes` writes
the bytes of the Go struct, padding and unused array entries as zeroes;
`ReadArg` and `ReadCnt` read at the offsets of the C struct, with the widths and signs of
its fields.  The numbers of argument types and registers are declared twice as
well.  Nothing in the model makes the two sides agree; `FetchMeansText` fails when
they do not.

The loop of `splitUSDTArgs` and the loop of `ParseUSDTArguments` are state
machines over tokens; `ParseUSDTArgSpec` is an operator: the seven regular
expressions in the order they are tried, as patterns of tokens.  White space,
brackets and punctuation are tokens of their own.  After parsing, `Fetch` calls
`bpf_usdt_arg` for any argument number, register file and memory.  A word keeps
its eight bytes, a byte has `Base` values, so shifts by whole bytes are
multiplications and divisions by powers of `Base`.

A member of `Texts` carries the arguments it was written from (`args`) or is marked
as no list.  What a register name means is its field of `pt_regs` (`Registers`, written
from the names the architectures give their registers), not what the parser's table
or the BPF side's says: a name filed under a wrong register shows in `FetchMeansText`.
`TextsAreWritten` ties the two together without the parser: the runs of
the text, cut at separators, spell the arguments in order, each in one of the
`Spellings` of the assembler; text that is no list has a run that spells none.

### ElfNotes

The file is opened, checked, scanned and closed; every read of it may fail.  `closer`
tells the reader of `OpenELF`, which owns its file, from one the caller made with
`NewStdlibELFReader`, whose file is not the library's to close.  The
content of the note section is arbitrary: at each header the walk finds any member
of `Notes`.  A note carries the file offset its probe really has (`at`), from
which `Linked` computes the virtual address the linker wrote, before prelink moved
the file by `shift`; the code's conversion has to find the way back.
`int` is taken to be 64 bits wide, as on both supported architectures.  With several
`.note.stapsdt` sections the code parses the last one only; the comment on `ParseProbes`
speaks of "sections" and leaves open which.  `FindsProbes` states what the code does.

### UsdtCLI

A word of the command line is a token: a word, `--`, or a flag with or without
`=value`.  Package flag is external and modelled by one action per flag it takes:
a string flag without a value swallows the next word, the flags end at the first
word that is none.  `-args=` takes what `strconv.ParseBool` reads: `1`, `t`, `T`,
`TRUE`, `true`, `True` and the six words for false.  Then one action per probe of the file, with the two filters,
and the exit status from the number of lines.  A command line carries the request it
spells (`ask`), against which the output is compared; `AsksList` says in terms of the
words which request that is.

## 3. Runs

| Run | Bounds | Shows |
|---|---|---|
| `reuse` | 2 sessions with 2 probes each and the same start ID, 3 elements, room for 2 entries, 1 CPU, 2 fetches, 2 closes | `TypeOK`, `OwnSpec`, `Delivered`, `CloseCleansUp`, `FailureDetaches`, `ImplementsService`, `StableUnderReader` |
| `shared` | 2 sessions at once, 3 specs for 2 entries, both adopt their IDs, 1 close | `CloseCleansUp`, `KeepsSpecs`, `ImplementsService`, `DeletesOwnOnly`, `StableUnderReader` with interleaved callers and a full map |
| `live` | 1 session, 2 CPUs, fairness | `CallsReturn` |
| `args` | both architectures with all register names of each, sizes of 1 to 8 bytes with either sign, up to 3 arguments for a limit of 2, malformed brackets, dereferences with a wrong end | `SplitsRuns`, `AcceptsRuns`, `AcceptsExactly`, `FetchMeansText` |
| `notes` | 7 files, 10 kinds of notes, sections of up to 128 bytes, `uint32` with 64 values, both kinds of reader | `WalksLayout`, `FindsProbes`, `LocatesProbe`, `MovesForward`, `Returns` |
| `cli` | 6 spellings of each string flag, 4 of `-args` and all 12 Boolean values, with and without `--`, 3 files; 12 refused command lines; 5 calls of `parse-args` | `ListsAsked`, `PrintsSelected`, `ShowsParsed` |
| `leak`, `zero`, `late`, `sizes`, `unmapped`, `flags` | as above | the findings below |

Why the bounds are enough: the hazards of the pipeline involve one program and two
sessions, or two programs of one session; three elements are the fewest with which
a deleted element is reused while the other entries are in place.  User cookies
include one wider than 32 bits (`U32` is 8 here) and a slice longer than the
probes.  Slots are symmetric: no constant names one.  The `notes` run has sizes that
wrap when rounded, sizes that need padding, a section that ends in the middle of
a header, and probes at both ends of their segments.  All safety properties are proved
for every value of the constants; the runs check them on instances that also satisfy
the premises of the theorems.  Runs that may stop (all calls made, file parsed) switch
the deadlock check off.

Fairness.  In `Attach` each library call and each program is weakly fair: the Go
scheduler runs a runnable goroutine, and the verifier accepts only
programs that end.  The caller's own steps and the hits are not fair.  `Close`
ends without any fairness on hits because closing a link stops new ones first.  In
`ElfNotes` the one thread of the parser is weakly fair.

### Findings

1. `leak` (`attach.go:124`): `Close` never removes spec map entries, because
   `AttachUprobes` does not fill in `SpecIDs`; the comments on both say it does.
2. `zero` (`usdt_args.h:117`): the BPF side does not treat spec ID 0 as "no
   spec"; with `startID` 0 a probe without arguments is decoded with another
   probe's spec.
3. `unmapped` (`elfparse.go:128`): `Location` stays a virtual address when no
   segment contains it, as in a relocatable object, which has no PT_LOAD segment.
4. `sizes` (`args.go:183`): any argument size is accepted, although the cast is meant
   for 1, 2, 4 and 8 bytes.  `args` shows that 3, 5, 6 and 7 come out right, because
   the shifts are by whole bytes; `sizes` has 0, 9 and 16, whose bit shifts leave
   the range and are taken modulo 64.
5. `flags` (`cmd/usdt/main.go:56`): the documented order `usdt list <binary> [flags]` is
   refused; flags have to precede the binary.
6. `late` (`attach.go:37`): `Close` leaves `Links` and `SpecIDs` as they are, so that a
   second `Close` deletes the specs of a caller that has got the IDs in the meantime.
   Only callers that fill in `SpecIDs` meet this (see `leak`).

A divergence that no run of its own shows: the example `-8f@%xmm0` in the comment on
`ParseUSDTArgSpec` (`args.go:120`) is rejected, because no register table has an
`xmm` register.  The texts of `args` contain it, among the lists that are refused.

## 4. Proofs

All theorems hold for every value of the constants that satisfies the named
assumptions of the modules.  These give types and widths; `StatesOfPrograms` says that
registers hold words and memory bytes, and `TextsAreWritten` what the arguments of a
text are.  Some theorems have a premise about what the library is given.  TLC
evaluates assumptions and premises on the instances of the runs.

| Theorem | Statement |
|---|---|
| `TypeCorrect` | `Spec => []TypeOK` |
| `OwnSpecHolds`, `DeliveredHolds`, `FailureDetachesHolds`, `KeepsSpecsHolds`, `StableUnderReaderHolds`, `DeletesOwnOnlyHolds` | the invariants and action properties of that name, under `CarefulCallers` |
| `CloseCleansUpHolds` | `CarefulCallers /\ Spec => []CloseCleansUp` |
| `ImplementsServiceHolds` | `CarefulCallers /\ Spec => ImplementsService` |
| `WalksLayoutHolds`, `MovesForwardHolds`, `FindsProbesHolds` | `Spec => []WalksLayout`, `Spec => MovesForward`, `Spec => []FindsProbes` |
| `LocatesProbeHolds` | `LinkedFiles /\ Spec => []LocatesProbe` |
| `FileReleased` | a call that has returned closed its own file and no other: the safety half of `Returns` |
| `SplitsRunsHolds`, `AcceptsRunsHolds` | `Spec => []SplitsRuns`, `Spec => []AcceptsRuns` |
| `CastWidens` | what the two shifts of the cast compute, under `PowersOf(Base, 8)` |
| `LayoutsAgree` | both layouts have the same offsets, stride and size |
| `ReadsBack` | `ReadCnt` and `ReadArg` of `SpecToBytes` return what was written, under `PowersOf(Base, 8)` |
| `AcceptsExactlyHolds` | `Spec => []AcceptsExactly`, under `PowersOf(Base, 8)` and `WordSized` |
| `FetchMeansTextHolds` | `Spec => []FetchMeansText`, under `PowersOf(Base, 8)` and `WordSized` |
| `PrintsSelectedHolds` | `Spec => []PrintsSelected` |
| `ListsAskedHolds` | `AsksList /\ Spec => []ListsAsked` |
| `ShowsParsedHolds` | `AsksText /\ Spec => []ShowsParsed` |

The premises:

* `CarefulCallers`: IDs start above 0 and stay below half the width, so that they are
  positive in the `int` of `__bpf_usdt_spec_id` (`SaneStartIDs`), and they are not handed
  out again before the last `Close` (`~LateClose`).  The runs `reuse`, `shared` and
  `live` have such callers; `zero` and `late` show what happens with an ID of
  0 and with IDs that are reused too early.  An ID of 2^31 or more, which the comment on the cookie
  (`usdt_args.h:92`) allows, is refused by `bpf_usdt_arg`: the program gets no argument.
* `LinkedFiles`: the base section is where the file says, a file that was moved has
  one, PT_LOAD segments do not overlap in memory or reach the end of the address
  space, and the probes of the notes lie in segments.  Segments may overlap in the
  file, and prelink may move a file up or down and across address 0.
* `AsksText`: a `parse-args` line asks for the text it spells.
* `AsksList`: a line asks for what its words say.  They can be cut into flags with
  their values, a terminator and one binary; the last flag of a name counts.  A line
  that is marked otherwise has no such cut.
* `WordSized`: no argument is wider than a word or has size 0.  The run `sizes` shows
  what happens otherwise.
* `PowersOf(Base, 8)`: `Base^0 = 1` and `Base^(k + 1) = Base * Base^k`.  The provers know
  no law of exponentiation, so these are a premise.

### The attachment pipeline

`AttachProofs` rests on one inductive invariant, `IInv`:

* `TypeInv`: types, and a program that holds a pointer is in the middle of a fetch;
* `IDInv`: the IDs of a session lie in its range, each once, and every probe with a
  spec that `PopulateSpecMap` has passed has one;
* `LinkInv`: links are a prefix of the probes; a link that is open and never failed
  to close belongs to a session that has still to close it for the first time;
  programs run only on open links;
* `MapInv`: key 0 is unused; of two sessions with overlapping ranges one is settled;
  an entry under a used ID is the session's own; until the first `Close` has closed
  the links, all entries are there;
* `CookieInv`: the high half of a link's cookie is its probe's spec ID;
* `HoldsOwn`: the element a program holds is the one its own ID leads to;
* `SeenInv`: what was fetched so far is the program's own spec.

`OwnSpec` alone is not inductive: it speaks about what programs have fetched, and
the next fetch depends on the cookie, the map and the fact that no session
deletes the entry while the link is open.  The chain is: a running program means an
open link (`RunsOnLive`); an open, untainted link means a session before the end
of its first close loop (`LiveLinks`); such a session still holds its entries
(`Stored`) and they are its own (`OwnEntry`), because no other session's range meets
them (`RangesDisjoint`); the cookie leads there (`CookieInv`).

`AttachCloseProofs` adds `CloseInv`: while no error was collected, the links that
the first loop of `Unload` has passed are closed (`LinksDown`) and the probes that the
second has passed have no entry (`SpecsDown`).  For the latter every
entry must lie under the ID of the probe whose spec it holds (`UnderOwnID`), or the loop
over `SpecIDs` would miss it; a session whose `PopulateSpecMap` failed is exempt,
because it returned no IDs.

`AttachServiceProofs` maps each action to a step of `ProbeService` or a stutter.
Beyond `IInv` it needs `RefInv`: only probes whose arguments parsed have an ID, a
program holds an element only where cookies were merged, and a link that does
not exist has no cookie.  The arithmetic is that the low half of a merged cookie
is the user's, masked, and the high half the ID.

### The ELF parser

`WalkInv` strengthens `WalksLayout` by where the walk is: the offset is the end of
the last note read (`WalkAt`), and before the walk there is none.  `NoteSizes` and
`Rounding` relate the wrapping `Align4` to the layout's `Pad4`.  `ScanInv` says
what the section loop has seen: the data is that of the last note section so far
(`DataSeen`), the base address one of a base section (`BaseSeen`).  `ProbesInv`
counts: the probes are as many as the complete notes read, and the probe of a note
stands at the note's place among them (`PlacesCounted` and `PlaceAdded` of
`NumberSets`).  `LocatesProbe` comes down to `MovedBack`: taking off the shift of
prelink modulo `U64` and adding the difference of the bases modulo `U64` gives the
address back; in a linked file only one segment contains it, so the first one that
does is the right one.  `FileInv` follows the descriptor: a file of `OpenELF`'s is
open exactly between opening and return.

### The argument parser

`SplitInv` states `SplitsRuns` at each position together with `inBrackets`, which is
`Inside` of the next character; `InsideStep`, `BeginsStep` and `EndsStep` say how the
declarative definitions change by one character, and match the four cases of the
loop.  `ParseInv` carries the runs through the second loop and says of how many a
spec was made.  `ParseUSDTArgSpec` stays unexpanded there: the theorem holds
whatever single arguments parse.  `CastWidens` is about that operator's `bitshift` and
the cast of `bpf_usdt_arg`: for every word, every `Base` and every size from 1 to
8 bytes of either sign, the shifts keep the low bytes and widen them as `Widened`,
which defines the meaning in `FetchMeansText`, says.

`AcceptsExactly` needs no further invariant.  `SpelledParses`: tokens that spell an
argument match the pattern of their spelling and, because no earlier pattern of the
same length has the same kinds (`PatternsDiffer`, `EarlierPatterns`), parse to that
argument, if its numbers fit a word and its register is known.  `ParsedIsSpelled`:
nothing else parses.  `RunsSpell` takes both from single runs to the list: the runs
found are those that `TextsAreWritten` speaks of, each at its place (`PlacesOnto`).

`FetchInv` adds that the map element holds the bytes of the accepted spec (`Sent`) and
that nothing is fetched before.  `FetchStep` follows one call: the bytes decode to the
fields of the argument (`BytesDecode`, from `ReadsBack`), the register ID leads to the
field of the register that was named (`RegisterFound`; `RegisterTables` compares
the tables of both sides with the names of the registers), the address
wraps as the sum does (`ModOfSum`), the low bytes of the word read there are the
number that the argument stands for (`WordAt`), and the cast widens it.

### The layouts

`LayoutsAgree` computes the offsets of both declarations: a recursive function that
gives the end of each field is equal to a table that satisfies its equation
(`OffsetPlaced`).  `PlacesApart` says that no two bytes of a spec fall on one place,
so that `SpecToBytes`, which picks the value written to a place, has no choice
(`FieldByte`, `CntByte`).  A load adds up digits; `DigitsRestore` shows for up to eight
digits that the sum of the digits of a number is the number, with `ValueIsSum` for
the sum over a set in `ValueOf`.

### The CLI

`ListInv`: nothing is printed before the loop of `cmdList`, and in it the lines are
those of the selected probes it has passed, counted by their places as above.
`TextInv` follows a `parse-args` line from `main` to its end; the arithmetic is
that `int64` of a number taken modulo the word gives the number back.

`AskInv` follows the flags: the words read so far are cut into flags and values, and
the options are those of the last flag of each name (`AtFlags`); in the loop the probes
are those of the binary named last (`AtList`); a line that failed is no list command or
names no file (`AtDone`).  For the failures it matters that a line can be cut in one
way only: two cuts agree on the words that both cover (`CutsAgree`, by the least word
on which they differ), so that a flag that is refused is in no cut.

### Only model-checked

* The liveness properties `CallsReturn` and `Returns`, which are out of the prover's
  reach; `FileReleased` and `MovesForwardHolds` are the safety facts behind
  `Returns`.
* The premises and assumptions above, on the instances; in particular the laws of
  exponentiation in `PowersOf`, for the `Base` of the runs.

## 5. Not modelled

* The test fixtures (`internal/testbpf/probes_linux.go`, `usdt_test.ebpf.c`) and the
  loaders bpf2go generated for them: they are no part of the library, and the
  loaders only unpack an embedded object file.  `kernel.h`, which only declares.
* The generation of `types.go` from `types_def.go`, which happens before the build;
  its result is modelled.
* In the CLI, the heading, the column widths and the messages on standard error.
* The big-endian branch of `bpf_usdt_arg`.
* Semaphore counting by the kernel (`RefCtrOffset`).
* `arm64` and `amd64` are both in `UsdtArgs`; a file parsed on one and attached on the
  other is not.

## 6. State

All modules of the plan exist.  Every invariant and action property of the runs, and the
refinement, is proved; the two liveness properties are model-checked.  What would
extend the project:

1. the big-endian branch of `bpf_usdt_arg`, once the library supports such an
   architecture;
2. semaphore counting (`RefCtrOffset`) as part of the model of a link;
3. a model of the laws of exponentiation for which `PowersOf` is a theorem.
