------------------------------ MODULE UsdtCLI ------------------------------
(***************************************************************************)
(* The command-line tool cmd/usdt: main, cmdList with its flag loop and    *)
(* its filter loop, and cmdParseArgs.  A word of the command line is a     *)
(* token that keeps its spelling (raw) and what package flag sees in it:   *)
(* a "word", the terminator "--", or a "flag" with a name and, after '=',  *)
(* a value.  A printed line is a record of its columns; the heading is     *)
(* left out.                                                               *)
(***************************************************************************)
EXTENDS Integers, Sequences, FiniteSets, FiniteSetsExt

CONSTANTS
  Lines,     \* command lines: os.Args[1:] and what they ask for
  Files,     \* path -> probes of a binary ParseProbesFromFile can read
  ArgTexts,  \* argument string -> its arguments, where it can be parsed
  Word       \* values of a machine word, scaled down from 2^64

ASSUME WordIsEven == Word \in Nat \ {0} /\ Word % 2 = 0

\* A word of the command line, a probe, and an argument of a text, whose number is an
\* int64; a constant has no register, and a plain register no number.
Words == [raw : STRING, kind : STRING, name : STRING, assigned : BOOLEAN, val : STRING]
Probes ==
  [provider : STRING, name : STRING, location : Nat, semaphore : Nat, args : STRING]
Arguments ==
  {a \in [type : 0..2, reg : Nat, number : -(Word \div 2)..((Word \div 2) - 1), size : Int,
          float : BOOLEAN] :
     (a.type = 0 => a.reg = 0) /\ (a.type = 1 => a.number = 0)}

ASSUME LinesAreWords == \A l \in Lines : l.argv \in Seq(Words)
ASSUME FilesAreProbes == \A f \in DOMAIN Files : Files[f] \in Seq(Probes)
ASSUME TextsAreArguments == \A t \in DOMAIN ArgTexts : ArgTexts[t] \in Seq(Arguments)

VARIABLES
  line,    \* the member of Lines that runs
  pc,      \* "main", "flags", "binary", "list", "parse-args" or "done"
  rest,    \* the words that are left
  opts,    \* the flags of cmdList
  probes,  \* result of ParseProbesFromFile
  pos,     \* index of the loop over probes
  out,     \* lines printed to standard output
  exit     \* exit status, once pc is "done"

vars == <<line, pc, rest, opts, probes, pos, out, exit>>
listVars == <<probes, pos>>

Defaults == [provider |-> "", name |-> "", args |-> FALSE]

Init ==
  /\ line \in Lines
  /\ pc = "main" /\ rest = line.argv /\ opts = Defaults
  /\ probes = <<>> /\ pos = 1 /\ out = <<>> /\ exit = 0

\* The kind of the next word, and the only word that is left, as sets.
NextKind == {rest[i].kind : i \in {1} \cap DOMAIN rest}
OnlyWord == {rest[i].raw : i \in {1} \cap {Len(rest)}}

Exit(status) == pc' = "done" /\ exit' = status

\* main: the first word selects a command.
Dispatch ==
  /\ pc = "main" /\ rest # <<>> /\ Head(rest).raw \in {"list", "parse-args"}
  /\ pc' = IF Head(rest).raw = "list" THEN "flags" ELSE "parse-args"
  /\ rest' = Tail(rest)
  /\ UNCHANGED <<line, opts, listVars, out, exit>>

NoCommand ==
  /\ pc = "main" /\ ~(rest # <<>> /\ Head(rest).raw \in {"list", "parse-args"})
  /\ Exit(1)
  /\ UNCHANGED <<line, rest, opts, listVars, out>>

-----------------------------------------------------------------------------
(***************************************************************************)
(* cmdList.                                                                *)
(***************************************************************************)
\* fs.Parse assigns one flag.  A string flag without '=' takes the next word,
\* whatever it looks like; a Boolean flag never does.
SetString(flag) ==
  /\ flag.name \in {"provider", "name"}
  /\ \/ /\ flag.assigned
        /\ opts' = [opts EXCEPT ![flag.name] = flag.val]
        /\ rest' = Tail(rest)
     \/ /\ ~flag.assigned /\ Len(rest) > 1
        /\ opts' = [opts EXCEPT ![flag.name] = rest[2].raw]
        /\ rest' = Tail(Tail(rest))

\* What strconv.ParseBool reads as true and as false.
Truths == {"1", "t", "T", "TRUE", "true", "True"}
Falsehoods == {"0", "f", "F", "FALSE", "false", "False"}

SetBool(flag) ==
  /\ flag.name = "args"
  /\ ~flag.assigned \/ flag.val \in Truths \cup Falsehoods
  /\ opts' = [opts EXCEPT !.args = ~flag.assigned \/ flag.val \in Truths]
  /\ rest' = Tail(rest)

ParseFlag ==
  /\ pc = "flags" /\ NextKind = {"flag"}
  /\ SetString(Head(rest)) \/ SetBool(Head(rest))
  /\ UNCHANGED <<line, pc, listVars, out, exit>>

\* A flag nobody defined (-h too), a missing value, or no Boolean.
Malformed(flag) ==
  \/ flag.name \notin DOMAIN opts
  \/ flag.name \in {"provider", "name"} /\ ~flag.assigned /\ Len(rest) = 1
  \/ flag.name = "args" /\ flag.assigned /\ flag.val \notin Truths \cup Falsehoods

FlagFails ==
  /\ pc = "flags" /\ NextKind = {"flag"} /\ Malformed(Head(rest))
  /\ Exit(1)
  /\ UNCHANGED <<line, rest, opts, listVars, out>>

\* The flags end at the first word that is none, and at "--", which is dropped.
FlagsEnd ==
  /\ pc = "flags" /\ NextKind # {"flag"}
  /\ pc' = "binary"
  /\ rest' = IF NextKind = {"--"} THEN Tail(rest) ELSE rest
  /\ UNCHANGED <<line, opts, listVars, out, exit>>

ReadBinary ==
  /\ pc = "binary"
  /\ \E binary \in OnlyWord \cap DOMAIN Files : probes' = Files[binary]
  /\ pos' = 1
  /\ pc' = "list"
  /\ UNCHANGED <<line, rest, opts, out, exit>>

\* fs.NArg() is not 1, or ParseProbesFromFile fails.
BinaryFails ==
  /\ pc = "binary" /\ OnlyWord \cap DOMAIN Files = {}
  /\ Exit(1)
  /\ UNCHANGED <<line, rest, opts, listVars, out>>

\* Mutant of Selected: a probe is listed when either filter lets it through.
SelectedByEither(p) == opts.provider \in {"", p.provider} \/ opts.name \in {"", p.name}

\* The two continue statements: an empty filter selects every probe.
Selected(p) == opts.provider \in {"", p.provider} /\ opts.name \in {"", p.name}

\* The columns; a semaphore offset of 0 is printed as "-".
Row(p, showArgs) ==
  [provider |-> p.provider, name |-> p.name, location |-> p.location,
   semaphore |-> {p.semaphore} \ {0}, args |-> IF showArgs THEN <<p.args>> ELSE <<>>]

\* Mutant of ListNext: a probe that is not selected ends the loop.
ListNextBreaks ==
  /\ pc = "list" /\ pos <= Len(probes)
  /\ out' = IF Selected(probes[pos]) THEN Append(out, Row(probes[pos], opts.args)) ELSE out
  /\ pos' = IF Selected(probes[pos]) THEN pos + 1 ELSE Len(probes) + 1
  /\ UNCHANGED <<line, pc, rest, opts, probes, exit>>

ListNext ==
  /\ pc = "list" /\ pos <= Len(probes)
  /\ out' = IF Selected(probes[pos]) THEN Append(out, Row(probes[pos], opts.args)) ELSE out
  /\ pos' = pos + 1
  /\ UNCHANGED <<line, pc, rest, opts, probes, exit>>

\* Listing nothing is a failure.
ListEnd ==
  /\ pc = "list" /\ pos > Len(probes)
  /\ Exit(IF out = <<>> THEN 1 ELSE 0)
  /\ UNCHANGED <<line, rest, opts, listVars, out>>

-----------------------------------------------------------------------------
(***************************************************************************)
(* cmdParseArgs.                                                           *)
(***************************************************************************)
TypeName == [t \in {0, 1, 2} |-> <<"const", "reg", "reg_deref">>[t + 1]]

\* ParseUSDTArgSpec keeps the number of an argument as a uint64; module UsdtArgs
\* has its parsing in full.
Int8(n) == ((n + 128) % 256) - 128

SpecOf(a) ==
  [type |-> a.type, reg |-> a.reg, val_off |-> a.number % Word, signed |-> a.size < 0,
   float |-> a.float, bitshift |-> Int8(64 - 8 * (IF a.size < 0 THEN -a.size ELSE a.size))]

\* Mutant of ArgRow: the number is printed without the conversion to int64.
ArgRowUnsigned(s) == [s EXCEPT !.type = TypeName[s.type]]

\* The type by its name, and int64(a.Val_off).
ArgRow(s) ==
  [s EXCEPT !.type = TypeName[s.type],
            !.val_off = IF 2 * s.val_off < Word THEN s.val_off ELSE s.val_off - Word]

\* No flag parsing: the argument string may itself start with '-'.
ParseArgs ==
  /\ pc = "parse-args"
  /\ \E argStr \in OnlyWord \cap DOMAIN ArgTexts :
       out' = [i \in DOMAIN ArgTexts[argStr] |-> ArgRow(SpecOf(ArgTexts[argStr][i]))]
  /\ Exit(0)
  /\ UNCHANGED <<line, rest, opts, listVars>>

ParseArgsFails ==
  /\ pc = "parse-args" /\ OnlyWord \cap DOMAIN ArgTexts = {}
  /\ Exit(1)
  /\ UNCHANGED <<line, rest, opts, listVars, out>>

Next ==
  \/ Dispatch \/ NoCommand
  \/ ParseFlag \/ FlagFails \/ FlagsEnd \/ ReadBinary \/ BinaryFails \/ ListNext \/ ListEnd
  \/ ParseArgs \/ ParseArgsFails

Spec == Init /\ [][Next]_vars
-----------------------------------------------------------------------------
(***************************************************************************)
(* What a command line says.  The words of a list command are the command, *)
(* the flags with their values, perhaps a "--", and one binary.            *)
(***************************************************************************)
TakesNext(w) == w.name \in {"provider", "name"} /\ ~w.assigned

IsFlag(w) ==
  /\ w.kind = "flag" /\ w.name \in DOMAIN Defaults
  /\ w.name = "args" /\ w.assigned => w.val \in Truths \cup Falsehoods

\* F are the flags in words 2 to e of c: every word there is a flag, or the value
\* that the flag before it takes.
FlagsAre(c, F, e) ==
  /\ F \subseteq 2..e
  /\ \A p \in 2..e : p \in F <=> ~(p - 1 \in F /\ TakesNext(c[p - 1]))
  /\ \A p \in F : IsFlag(c[p]) /\ (TakesNext(c[p]) => p < e)

IsList(c, F, e) ==
  /\ Len(c) > e /\ c[1].raw = "list" /\ FlagsAre(c, F, e)
  /\ IF c[e + 1].kind = "--" THEN Len(c) = e + 2 ELSE Len(c) = e + 1 /\ c[e + 1].kind # "flag"

\* The values of the flags: the last one of a name counts.
Named(c, F, name) == {p \in F : c[p].name = name}

StringFlag(c, F, name) ==
  LET p == Max(Named(c, F, name))
  IN  IF Named(c, F, name) = {} THEN "" ELSE IF c[p].assigned THEN c[p].val ELSE c[p + 1].raw

BoolFlag(c, F, name) ==
  LET p == Max(Named(c, F, name))
  IN  Named(c, F, name) # {} /\ (~c[p].assigned \/ c[p].val \in Truths)

Options(c, F) ==
  [provider |-> StringFlag(c, F, "provider"), name |-> StringFlag(c, F, "name"),
   args |-> BoolFlag(c, F, "args")]

\* A line whose flags precede its binary asks for what its words say; another one
\* is no list command.
AsksList ==
  \A l \in Lines : l.command # "parse-args" =>
    LET c == l.argv
        cuts == (SUBSET (2..Len(c))) \X (1..Len(c))
    IN  /\ c = <<>> \/ c[1].raw # "parse-args"
        /\ l.flagsFirst =>
             \E x \in cuts : /\ IsList(c, x[1], x[2]) /\ l.ask.file = c[Len(c)].raw
                            /\ \A f \in DOMAIN Defaults : l.ask[f] = Options(c, x[1])[f]
        /\ ~l.flagsFirst => \A x \in cuts : ~IsList(c, x[1], x[2])

-----------------------------------------------------------------------------
(***************************************************************************)
(* Properties.  line.ask is the request behind a command line: a command,  *)
(* its filters and its file or text, however and in whatever order they    *)
(* are spelled.                                                            *)
(***************************************************************************)
\* The rows a list request is answered with: those of the probes that are wanted, in
\* the order of the file.
Answer(ask) ==
  LET file == Files[ask.file]
      wanted == {k \in DOMAIN file : /\ ask.provider \in {"", file[k].provider}
                                    /\ ask.name \in {"", file[k].name}}
      nth(i) == CHOOSE k \in wanted : Cardinality({m \in wanted : m <= k}) = i
  IN  [i \in 1..Cardinality(wanted) |-> Row(file[nth(i)], ask.args)]

\* A list command whose flags precede its binary prints exactly the probes of the
\* binary that pass both filters, in the order of the file and however the flags
\* are spelled, repeated or ended, and it succeeds only if there is one; any other
\* command line, and a binary that cannot be read, prints nothing and fails.
ListsAsked ==
  pc = "done" /\ line.command # "parse-args" =>
    IF line.flagsFirst /\ line.ask.file \in DOMAIN Files
    THEN out = Answer(line.ask) /\ exit = (IF out = <<>> THEN 1 ELSE 0)
    ELSE out = <<>> /\ exit = 1

\* Whatever the command line, unless it is one of parse-args: the lines printed are
\* those of the probes that the filters in force select, each once and in the order
\* of the file, and the exit status says whether there was one.
PrintsSelected ==
  LET listed == {k \in 1..(pos - 1) : Selected(probes[k])}
      isText == line.argv # <<>> /\ Head(line.argv).raw = "parse-args"
  IN  pc \in {"list", "done"} /\ ~isText =>
        /\ Len(out) = Cardinality(listed)
        /\ \A k \in listed :
             out[Cardinality({m \in listed : m <= k})] = Row(probes[k], opts.args)
        /\ pc = "done" => pos > Len(probes) /\ exit = (IF listed = {} THEN 1 ELSE 0)

\* What a parse-args line asks for: it is the command and its text, or it asks for
\* a text that does not exist.
AsksText ==
  \A l \in Lines : l.command = "parse-args" =>
    /\ l.argv # <<>> /\ l.argv[1].raw = "parse-args"
    /\ IF Len(l.argv) = 2 THEN l.argv[2].raw = l.ask.file ELSE l.ask.file \notin DOMAIN ArgTexts

\* parse-args prints one line per argument with the number that was written, a
\* negative one included, although the spec keeps numbers unsigned.
ShowsParsed ==
  pc = "done" /\ line.command = "parse-args" =>
    IF line.ask.file \in DOMAIN ArgTexts
    THEN /\ exit = 0
         /\ [i \in DOMAIN out |-> out[i].val_off]
            = [i \in DOMAIN ArgTexts[line.ask.file] |-> ArgTexts[line.ask.file][i].number]
    ELSE out = <<>> /\ exit = 1

\* What the usage in the package comment and in README.md says, "usdt list <binary>
\* [flags]": a request spelled that way is answered.
DocumentedOrder ==
  pc = "done" /\ line.ask.file \in DOMAIN Files => out = Answer(line.ask)
=============================================================================
