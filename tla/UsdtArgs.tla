------------------------------ MODULE UsdtArgs ------------------------------
(***************************************************************************)
(* A USDT argument from its text to the value a BPF program reads: the     *)
(* parser of args.go (splitUSDTArgs, ParseUSDTArgSpec, ParseUSDTArguments) *)
(* SpecToBytes with the layout of module SpecLayout, and bpf_usdt_arg of   *)
(* ebpf/usdt_args.h, which decodes the bytes.                              *)
(*                                                                         *)
(* An argument text is a sequence of tokens.  A token is what the parser   *)
(* cannot tear apart: a bracket, a white space, a punctuation mark, a size *)
(* with its '@', a number or a name.  A machine word keeps its eight bytes *)
(* and a byte is scaled down to a digit with Base values (256 in the code), *)
(* so that shifts by whole bytes keep their meaning.                       *)
(***************************************************************************)
EXTENDS Integers, Sequences, FiniteSets, FiniteSetsExt, SpecLayout

CONSTANTS
  Texts,    \* argument lists a note may carry: arch, args and their chars
  RegFiles, \* register contents when a probe fires: arch, then field to word
  Memories  \* memory contents: address to byte, or Fault

Word == Base^8
Fault == -1

\* A token: its kind, the number or the size it writes, its name, and whether a
\* size has the suffix of a float.
Token == [t : STRING, n : Int, s : STRING, f : BOOLEAN]

Archs == {"amd64", "arm64"}

ASSUME TextsAreTokens ==
  \A t \in Texts : t.arch \in Archs /\ t.wellformed \in BOOLEAN /\ t.chars \in Seq(Token)

-----------------------------------------------------------------------------
(***************************************************************************)
(* Registers.                                                              *)
(***************************************************************************)
\* x86_64RegNameToID: the names of RegRax, RegRbx, ...
X86Names == <<
  {"rax", "eax", "ax", "al"}, {"rbx", "ebx", "bx", "bl"}, {"rcx", "ecx", "cx", "cl"},
  {"rdx", "edx", "dx", "dl"}, {"rsi", "esi", "si", "sil"}, {"rdi", "edi", "di", "dil"},
  {"rbp", "ebp", "bp", "bpl"}, {"rsp", "esp", "sp", "spl"}, {"r8", "r8d", "r8w", "r8b"},
  {"r9", "r9d", "r9w", "r9b"}, {"r10", "r10d", "r10w", "r10b"},
  {"r11", "r11d", "r11w", "r11b"}, {"r12", "r12d", "r12w", "r12b"},
  {"r13", "r13d", "r13w", "r13b"}, {"r14", "r14d", "r14w", "r14b"},
  {"r15", "r15d", "r15w", "r15b"}, {"rip", "eip", "ip"} >>

\* arm64RegNameToID: the names of RegX0, RegX1, ...
ARM64Names == <<
  {"x0", "w0"}, {"x1", "w1"}, {"x2", "w2"}, {"x3", "w3"}, {"x4", "w4"}, {"x5", "w5"},
  {"x6", "w6"}, {"x7", "w7"}, {"x8", "w8"}, {"x9", "w9"}, {"x10", "w10"}, {"x11", "w11"},
  {"x12", "w12"}, {"x13", "w13"}, {"x14", "w14"}, {"x15", "w15"}, {"x16", "w16"},
  {"x17", "w17"}, {"x18", "w18"}, {"x19", "w19"}, {"x20", "w20"}, {"x21", "w21"},
  {"x22", "w22"}, {"x23", "w23"}, {"x24", "w24"}, {"x25", "w25"}, {"x26", "w26"},
  {"x27", "w27"}, {"x28", "w28"}, {"x29", "w29", "fp"}, {"x30", "w30", "lr"},
  {"sp", "wsp"}, {"pc"} >>

RegNames == [amd64 |-> X86Names, arm64 |-> ARM64Names]

\* The ID of a name as a set: empty when the register is unknown.
lookupRegister(arch, name) ==
  {GoFirstReg[arch] + i - 1 : i \in {k \in DOMAIN RegNames[arch] : name \in RegNames[arch][k]}}

\* The fields of struct pt_regs in the order of the C enum; regs[n] of arm64 is "xn".
X86Fields == <<"ax", "bx", "cx", "dx", "si", "di", "bp", "sp",
               "r8", "r9", "r10", "r11", "r12", "r13", "r14", "r15", "ip">>
ARM64Fields == <<"x0", "x1", "x2", "x3", "x4", "x5", "x6", "x7", "x8", "x9", "x10", "x11",
  "x12", "x13", "x14", "x15", "x16", "x17", "x18", "x19", "x20", "x21", "x22", "x23",
  "x24", "x25", "x26", "x27", "x28", "x29", "x30", "sp", "pc">>

RegFields == [amd64 |-> X86Fields, arm64 |-> ARM64Fields]

\* A register holds a word and a mapped place of memory a byte.
ASSUME StatesOfPrograms ==
  /\ \A r \in RegFiles : \A i \in DOMAIN RegFields[r.arch] :
       r.regs[RegFields[r.arch][i]] \in 0..(Word - 1)
  /\ \A m \in Memories : \A a \in 0..(Word - 1) : m[a] \in 0..(Base - 1) \cup {Fault}

\* __bpf_usdt_get_reg_off as a set: empty where the code returns -1.
get_reg_off(arch, id) ==
  {RegFields[arch][i] : i \in {k \in DOMAIN RegFields[arch] : id = CFirstReg[arch] + k - 1}}

-----------------------------------------------------------------------------
(***************************************************************************)
(* Parsing one argument.                                                   *)
(***************************************************************************)
\* The patterns in the order ParseUSDTArgSpec tries them, and where the number
\* and the register name stand.  regexReg, whose '%' is optional, is two rows.
Patterns == <<
  [regex |-> <<"sz", "num", "lp", "pct", "name", "rp">>,   type |-> "deref", num |-> 2, name |-> 5],
  [regex |-> <<"sz", "lb", "name", "comma", "num", "rb">>, type |-> "deref", num |-> 5, name |-> 3],
  [regex |-> <<"sz", "lp", "pct", "name", "rp">>,          type |-> "deref", num |-> 0, name |-> 4],
  [regex |-> <<"sz", "lb", "name", "rb">>,                 type |-> "deref", num |-> 0, name |-> 3],
  [regex |-> <<"sz", "dollar", "num">>,                    type |-> "const", num |-> 3, name |-> 0],
  [regex |-> <<"sz", "num">>,                              type |-> "const", num |-> 2, name |-> 0],
  [regex |-> <<"sz", "pct", "name">>,                      type |-> "reg",   num |-> 0, name |-> 3],
  [regex |-> <<"sz", "name">>,                             type |-> "reg",   num |-> 0, name |-> 2] >>

\* [a-z0-9]+ also takes digits; a name has no sign.
IsA(tok, kind) ==
  IF kind = "name" THEN tok.t = "name" \/ (tok.t = "num" /\ tok.n >= 0) ELSE tok.t = kind

Match(regex, toks) ==
  Len(toks) = Len(regex) /\ \A i \in DOMAIN regex : IsA(toks[i], regex[i])

\* White space is allowed between any two tokens that survive the split together.
NoSpace(toks) == SelectSeq(toks, LAMBDA tok : tok.t # "ws")

\* strconv.ParseInt(_, 10, 64) succeeds.
IsInt64(n) == -Word <= 2 * n /\ 2 * n < Word

Int8(n) == ((n + 128) % 256) - 128
Abs(n) == IF n < 0 THEN -n ELSE n

\* Arg_bitshift, an int8.
bitshift(size) == Int8(64 - Abs(size) * 8)

\* Mutant of FirstMatch: regexReg gets its chance before regexBareConst.
LastMatch(toks) ==
  LET hits == {i \in DOMAIN Patterns : Match(Patterns[i].regex, toks)}
  IN  IF hits = {} THEN {} ELSE {Patterns[Max(hits)]}

FirstMatch(toks) ==
  LET hits == {i \in DOMAIN Patterns : Match(Patterns[i].regex, toks)}
  IN  IF hits = {} THEN {} ELSE {Patterns[Min(hits)]}

\* ParseUSDTArgSpec as a set: the ArgSpec, or nothing where the code returns an
\* error (no pattern matches, a number overflows, the register is unknown, as every
\* name made of digits is).
ParseUSDTArgSpec(arch, arg) ==
  LET toks == NoSpace(arg)
      size == toks[1].n
      Number(p) == IF p.num = 0 THEN 0 ELSE toks[p.num].n
      Reg(p) == IF p.name = 0 THEN {RegNone}
                ELSE IF toks[p.name].t = "name" THEN lookupRegister(arch, toks[p.name].s) ELSE {}
  IN  UNION {{[type |-> GoArgType[p.type], val_off |-> Number(p) % Word, reg |-> id,
               signed |-> size < 0, float |-> toks[1].f, bitshift |-> bitshift(size)]
              : id \in {i \in Reg(p) : IsInt64(size) /\ IsInt64(Number(p))}}
             : p \in FirstMatch(toks)}

-----------------------------------------------------------------------------
(***************************************************************************)
(* ParseUSDTArguments: one action per iteration of its loops and of the    *)
(* loop of splitUSDTArgs.                                                  *)
(***************************************************************************)
VARIABLES
  text,        \* the member of Texts that is parsed
  pc,          \* "start", "split", "parse", "ok" or "error"
  pos,         \* loop index of splitUSDTArgs, then of ParseUSDTArguments
  inBrackets,  \* local of splitUSDTArgs
  current,     \* local of splitUSDTArgs
  args,        \* result of splitUSDTArgs
  spec,        \* Spec.Args so far; Arg_cnt is Len(args)
  bytes,       \* the map element, written by SpecToBytes
  fetch        \* the last call of bpf_usdt_arg: its arguments and its result

vars == <<text, pc, pos, inBrackets, current, args, spec, bytes, fetch>>
splitVars == <<inBrackets, current, args>>

NoFetch == [n |-> 0, regs |-> <<>>, mem |-> <<>>, err |-> FALSE, res |-> 0]

\* strings.TrimSpace.
Trim(chars) ==
  LET solid == {i \in DOMAIN chars : chars[i].t # "ws"}
  IN  IF solid = {} THEN <<>> ELSE SubSeq(chars, Min(solid), Max(solid))

chars == Trim(text.chars)
arch == text.arch

Init ==
  /\ text \in Texts
  /\ pc = "start" /\ pos = 1
  /\ inBrackets = FALSE /\ current = <<>> /\ args = <<>>
  /\ spec = <<>> /\ bytes = <<>> /\ fetch = NoFetch

\* An empty text is a valid list of no arguments.
Start ==
  /\ pc = "start"
  /\ pc' = IF chars = <<>> THEN "ok" ELSE "split"
  /\ bytes' = IF chars = <<>> THEN SpecToBytes(<<>>, 0) ELSE bytes
  /\ UNCHANGED <<text, pos, splitVars, spec, fetch>>

\* Mutant of SplitBracket: a closing bracket does not leave the bracket.
SplitBracketStays ==
  /\ pc = "split" /\ pos <= Len(chars) /\ chars[pos].t \in {"lb", "rb"}
  /\ inBrackets' = (inBrackets \/ chars[pos].t = "lb")
  /\ current' = Append(current, chars[pos])
  /\ pos' = pos + 1
  /\ UNCHANGED <<text, pc, args, spec, bytes, fetch>>

SplitBracket ==
  /\ pc = "split" /\ pos <= Len(chars) /\ chars[pos].t \in {"lb", "rb"}
  /\ inBrackets' = (chars[pos].t = "lb")
  /\ current' = Append(current, chars[pos])
  /\ pos' = pos + 1
  /\ UNCHANGED <<text, pc, args, spec, bytes, fetch>>

\* White space ends an argument, except inside brackets.
SplitSpace ==
  /\ pc = "split" /\ pos <= Len(chars) /\ chars[pos].t = "ws"
  /\ current' = IF inBrackets THEN Append(current, chars[pos]) ELSE <<>>
  /\ args' = IF ~inBrackets /\ current # <<>> THEN Append(args, current) ELSE args
  /\ pos' = pos + 1
  /\ UNCHANGED <<text, pc, inBrackets, spec, bytes, fetch>>

SplitOther ==
  /\ pc = "split" /\ pos <= Len(chars) /\ chars[pos].t \notin {"lb", "rb", "ws"}
  /\ current' = Append(current, chars[pos])
  /\ pos' = pos + 1
  /\ UNCHANGED <<text, pc, inBrackets, args, spec, bytes, fetch>>

\* The final argument, and the check of the number of arguments.
SplitEnd ==
  /\ pc = "split" /\ pos > Len(chars)
  /\ args' = IF current # <<>> THEN Append(args, current) ELSE args
  /\ pc' = IF Len(args') > MaxArgs THEN "error" ELSE "parse"
  /\ pos' = 1
  /\ UNCHANGED <<text, inBrackets, current, spec, bytes, fetch>>

ParseNext ==
  /\ pc = "parse" /\ pos <= Len(args)
  /\ \E a \in ParseUSDTArgSpec(arch, args[pos]) : spec' = Append(spec, a)
  /\ pos' = pos + 1
  /\ UNCHANGED <<text, pc, splitVars, bytes, fetch>>

\* Mutant of ParseFails: the spec of the arguments before the bad one is returned.
ParseFailsHalfway ==
  /\ pc = "parse" /\ pos <= Len(args)
  /\ ParseUSDTArgSpec(arch, args[pos]) = {}
  /\ pc' = "error"
  /\ UNCHANGED <<text, pos, splitVars, spec, bytes, fetch>>

\* One bad argument fails the whole list: no partial spec is returned.
ParseFails ==
  /\ pc = "parse" /\ pos <= Len(args)
  /\ ParseUSDTArgSpec(arch, args[pos]) = {}
  /\ pc' = "error" /\ spec' = <<>>
  /\ UNCHANGED <<text, pos, splitVars, bytes, fetch>>

ParseEnd ==
  /\ pc = "parse" /\ pos > Len(args)
  /\ pc' = "ok"
  /\ bytes' = SpecToBytes(spec, Len(args))
  /\ UNCHANGED <<text, pos, splitVars, spec, fetch>>

-----------------------------------------------------------------------------
(***************************************************************************)
(* bpf_usdt_arg.                                                           *)
(***************************************************************************)
\* n bytes of memory as a little-endian number.
LittleEndian(mem, addr, n) ==
  ValueOf([k \in 0..(n - 1) |-> mem[(addr + k) % Word]], n, Base)

Mapped(mem, addr, n) == \A k \in 0..(n - 1) : mem[(addr + k) % Word] # Fault

\* The shift count of a 64-bit BPF shift: the low six bits, in whole bytes.
Bytes(shift) == (shift % 64) \div 8

shl(w, k) == (w * Base^k) % Word
shr(w, k) == w \div Base^k
sar(w, k) == IF 2 * w < Word THEN shr(w, k) ELSE shr(w, k) + Word - Base^(8 - k)

\* The cast at the end of bpf_usdt_arg.
cast(w, a) ==
  LET k == Bytes(a.bitshift)
  IN  IF a.signed THEN sar(shl(w, k), k) ELSE shr(shl(w, k), k)

\* __bpf_usdt_get_reg_val as a set: empty where the register has no field.
get_reg_val(id, regs) == {regs[f] : f \in get_reg_off(arch, id)}

\* The value before the cast, as a set that is empty where the code returns an
\* error.  A dereference always reads a whole word.
RawValue(a, regs, mem) ==
  LET reg == get_reg_val(a.reg, regs)
      addr == {(r + a.val_off) % Word : r \in reg}
  IN  CASE a.type = CArgType.const -> {a.val_off}
        [] a.type = CArgType.reg   -> reg
        [] a.type = CArgType.deref -> {LittleEndian(mem, x, 8) : x \in {y \in addr : Mapped(mem, y, 8)}}
        [] OTHER -> {}

\* One call for argument n, counted from 0; *res is 0 unless the call succeeds.
bpf_usdt_arg(n, regs, mem) ==
  LET a == ReadArg(bytes, n)
      vals == IF n >= MaxArgs \/ n >= ReadCnt(bytes) THEN {}
              ELSE {cast(w, a) : w \in RawValue(a, regs, mem)}
  IN  fetch' = [n |-> n, regs |-> regs, mem |-> mem, err |-> vals = {},
                res |-> IF vals = {} THEN 0 ELSE CHOOSE v \in vals : TRUE]

\* A probe with this spec fires in any state of the traced program.
Fetch ==
  /\ pc = "ok"
  /\ \E n \in 0..MaxArgs, r \in {x \in RegFiles : x.arch = arch}, m \in Memories :
       bpf_usdt_arg(n, r.regs, m)
  /\ UNCHANGED <<text, pc, pos, splitVars, spec, bytes>>

Next ==
  \/ Start \/ SplitBracket \/ SplitSpace \/ SplitOther \/ SplitEnd
  \/ ParseNext \/ ParseFails \/ ParseEnd \/ Fetch

Spec == Init /\ [][Next]_vars
-----------------------------------------------------------------------------
(***************************************************************************)
(* What a text says.  The lists that a compiler writes consist of runs,    *)
(* one for each argument, and a run spells its argument in one of the ways *)
(* of the assembler.                                                       *)
(***************************************************************************)
\* Whether a position lies inside brackets: the last bracket before it opens.
Inside(c, i) ==
  \E k \in 1..(i - 1) : c[k].t = "lb" /\ \A m \in (k + 1)..(i - 1) : c[m].t # "rb"

Separator(c, i) == c[i].t = "ws" /\ ~Inside(c, i)

\* The end positions of the runs in the first n characters.
Ends(c, n) ==
  {i \in 1..n : ~Separator(c, i) /\ i < Len(c) /\ i < n /\ Separator(c, i + 1)}

\* Where the run that ends at e begins.
Begins(c, e) == Max({0} \cup {i \in 1..e : Separator(c, i)}) + 1

Run(c, e) == SubSeq(c, Begins(c, e), e)

\* The end positions of all runs, and the place of one of them.
AllRuns(c) == Ends(c, Len(c)) \cup ({Len(c)} \ {0})
PlaceOf(ended, e) == Cardinality({x \in ended : x <= e})

\* A lists the runs that end at these positions, in order.
ListsRuns(c, A, ended) ==
  Len(A) = Cardinality(ended) /\ \A e \in ended : A[PlaceOf(ended, e)] = Run(c, e)

\* AT&T syntax for amd64, and the syntax of arm64.
Spellings ==
  [const    |-> {<<"sz", "dollar", "num">>},
   bare     |-> {<<"sz", "num">>},
   reg      |-> {<<"sz", "pct", "name">>, <<"sz", "name">>},
   deref    |-> {<<"sz", "lp", "pct", "name", "rp">>, <<"sz", "lb", "name", "rb">>},
   derefoff |-> {<<"sz", "num", "lp", "pct", "name", "rp">>,
                 <<"sz", "lb", "name", "comma", "num", "rb">>}]

Forms == DOMAIN Spellings

\* Only a constant and a dereference with an offset write a number.
IsArgument(a) ==
  /\ a.form \in Forms /\ a.size \in Int /\ a.off \in Int
  /\ a.form \in {"reg", "deref"} => a.off = 0

HasKinds(toks, kinds) == Len(toks) = Len(kinds) /\ \A i \in DOMAIN kinds : toks[i].t = kinds[i]

\* Tokens that write the size, the offset and the name of argument a.
Spells(toks, a) ==
  /\ \E kinds \in Spellings[a.form] : HasKinds(toks, kinds)
  /\ \A i \in 1..Len(toks) :
       /\ toks[i].t = "sz" => toks[i].n = a.size
       /\ toks[i].t = "num" => toks[i].n = a.off
       /\ toks[i].t = "name" => toks[i].s = a.name

SpellsNothing(toks) == \A form \in Forms : \A kinds \in Spellings[form] : ~HasKinds(toks, kinds)

\* The arguments of a text that is a list; other text has a run that is none.
ASSUME TextsAreWritten ==
  \A t \in Texts :
    LET c == Trim(t.chars)
        ended == AllRuns(c)
    IN  /\ t.wellformed =>
             /\ Len(t.args) = Cardinality(ended) /\ DOMAIN t.args = 1..Len(t.args)
             /\ \A e \in ended : Spells(NoSpace(Run(c, e)), t.args[PlaceOf(ended, e)])
             /\ \A i \in DOMAIN t.args : IsArgument(t.args[i])
        /\ ~t.wellformed => \E e \in ended : SpellsNothing(NoSpace(Run(c, e)))

\* No argument is wider than a word.
WordSized == \A t \in Texts : \A i \in DOMAIN t.args : t.args[i].size \in (-8..8) \ {0}

-----------------------------------------------------------------------------
(***************************************************************************)
(* Properties.                                                             *)
(***************************************************************************)
\* splitUSDTArgs yields the maximal runs of characters that are no separators:
\* at every step of its loop the arguments found so far are the runs that ended,
\* in order, and the builder holds the run that has not ended yet.
SplitsRuns ==
  pc = "split" =>
    LET n == pos - 1
    IN  ListsRuns(chars, args, Ends(chars, n)) /\ current = Run(chars, n)

\* ParseUSDTArguments accepts a text exactly when it has at most MaxArgs runs and
\* each of them parses; then it returns the spec of every run, in order, and
\* otherwise no part of a spec.
AcceptsRuns ==
  LET parsed(k) == ParseUSDTArgSpec(arch, args[k])
  IN  /\ pc \in {"ok", "error"} => ListsRuns(chars, args, AllRuns(chars))
      /\ pc = "ok" => /\ Len(args) <= MaxArgs /\ Len(spec) = Len(args)
                      /\ \A k \in DOMAIN args : spec[k] \in parsed(k)
      /\ pc = "error" => /\ spec = <<>>
                         /\ Len(args) > MaxArgs \/ \E k \in DOMAIN args : parsed(k) = {}

\* The names that the assembler has for the registers of the traced program, by the
\* field of struct pt_regs where the kernel saves each of them.
X86Registers ==
  [ax |-> {"rax", "eax", "ax", "al"}, bx |-> {"rbx", "ebx", "bx", "bl"},
   cx |-> {"rcx", "ecx", "cx", "cl"}, dx |-> {"rdx", "edx", "dx", "dl"},
   si |-> {"rsi", "esi", "si", "sil"}, di |-> {"rdi", "edi", "di", "dil"},
   bp |-> {"rbp", "ebp", "bp", "bpl"}, sp |-> {"rsp", "esp", "sp", "spl"},
   r8 |-> {"r8", "r8d", "r8w", "r8b"}, r9 |-> {"r9", "r9d", "r9w", "r9b"},
   r10 |-> {"r10", "r10d", "r10w", "r10b"}, r11 |-> {"r11", "r11d", "r11w", "r11b"},
   r12 |-> {"r12", "r12d", "r12w", "r12b"}, r13 |-> {"r13", "r13d", "r13w", "r13b"},
   r14 |-> {"r14", "r14d", "r14w", "r14b"}, r15 |-> {"r15", "r15d", "r15w", "r15b"},
   ip |-> {"rip", "eip", "ip"}]

ARM64Registers ==
  [x0 |-> {"x0", "w0"}, x1 |-> {"x1", "w1"}, x2 |-> {"x2", "w2"}, x3 |-> {"x3", "w3"},
   x4 |-> {"x4", "w4"}, x5 |-> {"x5", "w5"}, x6 |-> {"x6", "w6"}, x7 |-> {"x7", "w7"},
   x8 |-> {"x8", "w8"}, x9 |-> {"x9", "w9"}, x10 |-> {"x10", "w10"},
   x11 |-> {"x11", "w11"}, x12 |-> {"x12", "w12"}, x13 |-> {"x13", "w13"},
   x14 |-> {"x14", "w14"}, x15 |-> {"x15", "w15"}, x16 |-> {"x16", "w16"},
   x17 |-> {"x17", "w17"}, x18 |-> {"x18", "w18"}, x19 |-> {"x19", "w19"},
   x20 |-> {"x20", "w20"}, x21 |-> {"x21", "w21"}, x22 |-> {"x22", "w22"},
   x23 |-> {"x23", "w23"}, x24 |-> {"x24", "w24"}, x25 |-> {"x25", "w25"},
   x26 |-> {"x26", "w26"}, x27 |-> {"x27", "w27"}, x28 |-> {"x28", "w28"},
   x29 |-> {"x29", "w29", "fp"}, x30 |-> {"x30", "w30", "lr"}, sp |-> {"sp", "wsp"},
   pc |-> {"pc"}]

Registers == [amd64 |-> X86Registers, arm64 |-> ARM64Registers]

\* The location of an argument can be decoded on this architecture.
Supported(a) ==
  a.form \in {"const", "bare"} \/ \E f \in DOMAIN Registers[arch] : a.name \in Registers[arch][f]

\* ParseUSDTArguments accepts a list that was written down correctly exactly when
\* it has at most MaxArgs arguments and knows all their registers, whatever the
\* white space between and inside them; it rejects text that is no list.
AcceptsExactly ==
  /\ pc = "ok" =>
       /\ text.wellformed
       /\ Len(args) = Len(text.args) /\ Len(spec) = Len(text.args)
       /\ Len(text.args) <= MaxArgs /\ \A i \in DOMAIN text.args : Supported(text.args[i])
  /\ pc = "error" /\ text.wellformed =>
       \/ Len(text.args) > MaxArgs
       \/ \E i \in DOMAIN text.args : ~Supported(text.args[i]) \/ ~IsInt64(text.args[i].off)

\* What an argument stands for: the field that holds a register ...
FieldOf(name) == CHOOSE f \in DOMAIN Registers[arch] : name \in Registers[arch][f]

\* ... a number of as many bytes as the size says, widened to a word ...
Widened(low, size) ==
  IF size < 0 /\ 2 * low >= Base^Abs(size) THEN low + Word - Base^Abs(size) ELSE low

\* ... and its value.
Meaning(a, regs, mem) ==
  LET size == Abs(a.size)
      low == CASE a.form \in {"const", "bare"} -> a.off % Base^size
               [] a.form = "reg" -> regs[FieldOf(a.name)] % Base^size
               [] a.form \in {"deref", "derefoff"} ->
                    LittleEndian(mem, (regs[FieldOf(a.name)] + a.off) % Word, size)
  IN  Widened(low, a.size)

\* Whatever the registers and the memory hold, bpf_usdt_arg returns the value
\* that the text of the argument stands for; it fails for arguments the list
\* does not have and for memory that cannot be read, and then the result is 0.
FetchMeansText ==
  fetch # NoFetch =>
    IF fetch.err
    THEN /\ fetch.res = 0
         /\ \/ fetch.n >= Len(text.args)
            \/ LET a == text.args[fetch.n + 1]
               IN  /\ a.form \in {"deref", "derefoff"}
                   /\ ~Mapped(fetch.mem, (fetch.regs[FieldOf(a.name)] + a.off) % Word, 8)
    ELSE fetch.res = Meaning(text.args[fetch.n + 1], fetch.regs, fetch.mem)

\* What the comment on the cast in bpf_usdt_arg says: it widens values of 1, 2, 4
\* or 8 bytes.  ParseUSDTArgSpec takes any number for a size.
CastsKnownSizes ==
  fetch # NoFetch /\ ~fetch.err => Abs(text.args[fetch.n + 1].size) \in {1, 2, 4, 8}
=============================================================================
