----------------------------- MODULE MCUsdtArgs -----------------------------
(***************************************************************************)
(* Instances of UsdtArgs for TLC: argument lists as a compiler writes them *)
(* into a note, with varying white space, and text that is no list.        *)
(***************************************************************************)
EXTENDS UsdtArgs, TLC

T(t, n, s, f) == [t |-> t, n |-> n, s |-> s, f |-> f]
mark(t) == T(t, 0, "", FALSE)
ws == mark("ws")
num(n) == T("num", n, "", FALSE)
name(s) == T("name", 0, s, FALSE)

Arg(form, size, float, nm, off) ==
  [form |-> form, size |-> size, float |-> float, name |-> nm, off |-> off]

\* The text of one argument; pad is white space written inside brackets.
Render(ar, a, pad) ==
  LET sz == T("sz", a.size, "", a.float)
      amd == ar = "amd64"
      nm == name(a.name)
  IN  CASE a.form = "const" -> <<sz, mark("dollar"), num(a.off)>>
        [] a.form = "bare" -> <<sz, num(a.off)>>
        [] a.form = "reg" -> IF amd THEN <<sz, mark("pct"), nm>> ELSE <<sz, nm>>
        [] a.form = "deref" ->
             IF amd THEN <<sz, mark("lp"), mark("pct"), nm, mark("rp")>>
             ELSE <<sz, mark("lb")>> \o pad \o <<nm>> \o pad \o <<mark("rb")>>
        [] a.form = "derefoff" ->
             IF amd THEN <<sz, num(a.off), mark("lp"), mark("pct"), nm, mark("rp")>>
             ELSE <<sz, mark("lb"), nm, mark("comma")>> \o pad \o <<num(a.off)>> \o pad
                  \o <<mark("rb")>>

Text(ar, as, pad, sep) ==
  [arch |-> ar, args |-> as, wellformed |-> TRUE,
   chars |-> CASE Len(as) = 0 -> sep
               [] Len(as) = 1 -> pad \o Render(ar, as[1], pad)
               [] Len(as) = 2 -> Render(ar, as[1], pad) \o sep \o Render(ar, as[2], pad) \o sep
               [] Len(as) = 3 -> Render(ar, as[1], pad) \o sep \o Render(ar, as[2], pad)
                                 \o sep \o Render(ar, as[3], pad)]

Bad(chs) == [arch |-> "arm64", args |-> <<>>, wellformed |-> FALSE, chars |-> chs]

\* Every size up to a word; compilers write 1, 2, 4 and 8.
Sizes == (-8..8) \ {0}
Frame(ar) == IF ar = "amd64" THEN "rbp" ELSE "sp"
Names(ar) == UNION {Registers[ar][f] : f \in DOMAIN Registers[ar]}

\* Every register name, every size of every form, and locations that are refused:
\* a vector register, a register of the other architecture, a huge offset.
Singles(ar) ==
  {Arg("reg", 8, FALSE, nm, 0) : nm \in Names(ar)}
  \cup {Arg(f, sz, FALSE, Frame(ar), o) : f \in {"reg", "deref"}, sz \in Sizes, o \in {0}}
  \cup {Arg("derefoff", sz, FALSE, Frame(ar), o) : sz \in Sizes, o \in {-3, 2}}
  \cup {Arg(f, sz, FALSE, "", o) : f \in {"const", "bare"}, sz \in Sizes, o \in {-9, 0, 77, 100}}
  \cup {Arg("reg", -8, TRUE, "xmm0", 0), Arg("reg", 8, FALSE, "x1", 0),
        Arg("reg", 8, FALSE, "rax", 0), Arg("derefoff", 4, FALSE, Frame(ar), 200)}

Few(ar) ==
  {Arg("derefoff", -4, FALSE, Frame(ar), 2), Arg("bare", 4, FALSE, "", 100),
   Arg("deref", 8, FALSE, Frame(ar), 0), Arg("reg", -8, TRUE, "xmm0", 0)}

Pads == {<<>>, <<ws>>}

Lists ==
  {Text(ar, <<>>, <<>>, sep) : ar \in Archs, sep \in Pads}
  \cup UNION {{Text(ar, <<a>>, pad, <<>>) : a \in Singles(ar), pad \in Pads} : ar \in Archs}
  \cup UNION {{Text(ar, <<a, b>>, pad, sep) :
                 a \in Few(ar), b \in Few(ar), pad \in Pads, sep \in {<<ws>>, <<ws, ws>>}}
              : ar \in Archs}
  \cup {Text("arm64", <<a, b, c>>, <<>>, <<ws>>) : a, b, c \in Few("arm64")}

\* Brackets that nest, do not close or close twice.
Torn == {Bad(<<name("x0")>> \o s) : s \in [1..4 -> {ws, mark("lb"), mark("rb"), name("x1")}]}

\* The beginning of a dereference, with an end that is wrong.
Broken ==
  {t \in {Bad(<<T("sz", 8, "", FALSE), mark("lb"), name("x0")>> \o s) :
            s \in [1..4 -> {ws, mark("rb"), mark("comma"), name("x1"), num(2)}]} :
     LET c == Trim(t.chars) IN \E e \in AllRuns(c) : SpellsNothing(NoSpace(Run(c, e)))}

NoteTexts == Lists \cup Torn \cup Broken

Fields(ar) == RegFields[ar]
Numbered(ar, first, step) ==
  [arch |-> ar,
   regs |-> [f \in {Fields(ar)[i] : i \in DOMAIN Fields(ar)} |->
               (first + step * (CHOOSE i \in DOMAIN Fields(ar) : Fields(ar)[i] = f)) % Word]]

\* Every register of a file holds a value of its own.
SomeRegFiles == {Numbered(ar, first, 7) : ar \in Archs, first \in {0, 129}}

\* Two readable memories and one whose upper part is not mapped.
SomeMemories ==
  {[a \in 0..(Word - 1) |-> (a \div 3) % Base], [a \in 0..(Word - 1) |-> (a * a + a \div 5) % Base],
   [a \in 0..(Word - 1) |-> IF a < Word \div 2 THEN (a \div 2) % Base ELSE Fault]}

\* Sizes that no shift of a word can express.
OddSizeTexts == {Text("amd64", <<Arg("reg", sz, FALSE, "rax", 0)>>, <<>>, <<>>) : sz \in {-16, 0, 9}}

OneRegFile == {Numbered("amd64", 0, 7)}
OneMemory == {[a \in 0..(Word - 1) |-> 0]}

\* The premises of the theorems of UsdtArgsProofs.
ASSUME PremisesHold == PowersOf(Base, 8) /\ (Texts # OddSizeTexts => WordSized)
=============================================================================
