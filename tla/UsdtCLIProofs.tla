---------------------------- MODULE UsdtCLIProofs ----------------------------
(***************************************************************************)
(* Proofs about cmdParseArgs and about cmdList, its flags and its loop,    *)
(* for every command line, every file, every text and every width of a     *)
(* word.                                                                   *)
(***************************************************************************)
EXTENDS UsdtCLI, NumberSets

\* int64(uint64(n)) is n for every int64 n.
LEMMA SignedAgain ==
  ASSUME NEW n \in -(Word \div 2)..((Word \div 2) - 1)
  PROVE  n = IF 2 * (n % Word) < Word THEN n % Word ELSE (n % Word) - Word
<1> DEFINE h == Word \div 2
<1>1. h \in Nat /\ Word = 2 * h /\ h > 0
  BY WordIsEven
<1>2. n \in Int /\ -h <= n /\ n < h
  BY <1>1
<1> HIDE DEF h
<1>3. CASE n >= 0
  <2>1. n % Word = n
    BY <1>1, <1>2, <1>3
  <2> QED BY <1>1, <1>2, <1>3, <2>1
<1>4. CASE n < 0
  <2>1. n % Word = n + Word
    BY <1>1, <1>2, <1>4
  <2> QED BY <1>1, <1>2, <1>4, <2>1
<1> QED BY <1>2, <1>3, <1>4

\* The printed number of an argument is the number that was parsed.
LEMMA NumberShown ==
  ASSUME NEW a \in Arguments
  PROVE  ArgRow(SpecOf(a)).val_off = a.number
<1>1. a.number \in -(Word \div 2)..((Word \div 2) - 1)
  BY DEF Arguments
<1>2. ArgRow(SpecOf(a)).val_off = IF 2 * (a.number % Word) < Word THEN a.number % Word
                                  ELSE (a.number % Word) - Word
  BY DEF ArgRow, SpecOf
<1> QED BY <1>1, <1>2, SignedAgain

-----------------------------------------------------------------------------
(***************************************************************************)
(* A parse-args line goes from main to cmdParseArgs and ends there.        *)
(***************************************************************************)
TextRequest ==
  line.command = "parse-args" =>
    \/ pc = "main" /\ rest = line.argv /\ out = <<>>
    \/ pc = "parse-args" /\ rest = Tail(line.argv) /\ out = <<>>
    \/ pc = "done" /\ ShowsParsed

TextInv == line \in Lines /\ TextRequest

\* The word that is left is the text that the line asks for.
LEMMA OnlyText ==
  ASSUME AsksText, line \in Lines, line.command = "parse-args", rest = Tail(line.argv)
  PROVE  OnlyWord \cap DOMAIN ArgTexts = {line.ask.file} \cap DOMAIN ArgTexts
<1>1. line.argv \in Seq(Words) /\ line.argv # <<>>
  BY LinesAreWords DEF AsksText
<1>2. Len(rest) = Len(line.argv) - 1 /\ Len(line.argv) \in Nat
  BY <1>1
<1>3. CASE Len(line.argv) = 2
  <2>1. rest[1] = line.argv[2] /\ Len(rest) = 1
    BY <1>1, <1>2, <1>3
  <2>2. OnlyWord = {line.argv[2].raw}
    BY <2>1 DEF OnlyWord
  <2> QED BY <1>3, <2>2 DEF AsksText
<1>4. CASE Len(line.argv) # 2
  <2>1. {1} \cap {Len(rest)} = {}
    BY <1>2, <1>4
  <2>2. OnlyWord = {}
    BY <2>1 DEF OnlyWord
  <2> QED BY <1>4, <2>2 DEF AsksText
<1> QED BY <1>3, <1>4

\* Every step keeps to that course.
LEMMA TextStep ==
  ASSUME AsksText, TextInv, [Next]_vars
  PROVE  TextInv'
<1>1. line' = line /\ line \in Lines
  BY DEF TextInv, Next, vars, Dispatch, NoCommand, ParseFlag, FlagFails, FlagsEnd, ReadBinary,
     BinaryFails, ListNext, ListEnd, ParseArgs, ParseArgsFails
<1> SUFFICES ASSUME line.command = "parse-args" PROVE TextRequest'
  BY <1>1 DEF TextInv, TextRequest
<1>2. CASE pc = "main" /\ rest = line.argv /\ out = <<>>
  <2>1. line.argv \in Seq(Words) /\ line.argv # <<>> /\ Head(line.argv).raw = "parse-args"
    BY <1>1, LinesAreWords DEF AsksText
  <2>2. Dispatch \/ UNCHANGED vars
    BY <1>2, <2>1 DEF Next, Dispatch, NoCommand, ParseFlag, FlagFails, FlagsEnd, ReadBinary,
       BinaryFails, ListNext, ListEnd, ParseArgs, ParseArgsFails
  <2>3. CASE Dispatch
    BY <1>1, <1>2, <2>1, <2>3 DEF Dispatch, TextRequest
  <2>4. CASE UNCHANGED vars
    BY <1>2, <2>4 DEF vars, TextRequest
  <2> QED BY <2>2, <2>3, <2>4
<1>3. CASE pc = "parse-args" /\ rest = Tail(line.argv) /\ out = <<>>
  <2>1. OnlyWord \cap DOMAIN ArgTexts = {line.ask.file} \cap DOMAIN ArgTexts
    BY <1>1, <1>3, OnlyText
  <2>2. ParseArgs \/ ParseArgsFails \/ UNCHANGED vars
    BY <1>3 DEF Next, Dispatch, NoCommand, ParseFlag, FlagFails, FlagsEnd, ReadBinary,
       BinaryFails, ListNext, ListEnd, ParseArgs, ParseArgsFails
  <2>3. CASE ParseArgs
    <3> DEFINE t == line.ask.file
               row(k) == ArgRow(SpecOf(ArgTexts[t][k]))
    <3>1. t \in DOMAIN ArgTexts /\ out' = [k \in DOMAIN ArgTexts[t] |-> row(k)]
      BY <2>1, <2>3 DEF ParseArgs
    <3>2. ArgTexts[t] \in Seq(Arguments)
      BY <3>1, TextsAreArguments
    <3>3. \A k \in DOMAIN ArgTexts[t] : row(k).val_off = ArgTexts[t][k].number
      BY <3>2, NumberShown
    <3> HIDE DEF row
    <3>4. [k \in DOMAIN out' |-> out'[k].val_off]
            = [k \in DOMAIN ArgTexts[t] |-> ArgTexts[t][k].number]
      BY <3>1, <3>3
    <3>5. pc' = "done" /\ exit' = 0
      BY <2>3 DEF ParseArgs, Exit
    <3> QED BY <1>1, <3>1, <3>4, <3>5 DEF TextRequest, ShowsParsed
  <2>4. CASE ParseArgsFails
    <3>1. line.ask.file \notin DOMAIN ArgTexts
      BY <2>1, <2>4 DEF ParseArgsFails
    <3> QED BY <1>1, <1>3, <2>4, <3>1 DEF ParseArgsFails, Exit, TextRequest, ShowsParsed
  <2>5. CASE UNCHANGED vars
    BY <1>3, <2>5 DEF vars, TextRequest
  <2> QED BY <2>2, <2>3, <2>4, <2>5
<1>4. CASE pc = "done" /\ ShowsParsed
  <2>1. UNCHANGED vars
    BY <1>4 DEF Next, Dispatch, NoCommand, ParseFlag, FlagFails, FlagsEnd, ReadBinary,
       BinaryFails, ListNext, ListEnd, ParseArgs, ParseArgsFails
  <2> QED BY <1>4, <2>1 DEF vars, TextRequest, ShowsParsed
<1> QED BY <1>2, <1>3, <1>4 DEF TextInv, TextRequest

\* parse-args shows every number as it was written, whatever the texts and the width
\* of a word, and a line without a text or with one that cannot be parsed fails.
THEOREM ShowsParsedHolds == AsksText /\ Spec => []ShowsParsed
<1>1. Init => TextInv
  BY DEF Init, TextInv, TextRequest
<1>2. TextInv => ShowsParsed
  BY DEF TextInv, TextRequest, ShowsParsed
<1>3. AsksText => AsksText'
  BY DEF AsksText
<1>4. AsksText /\ TextInv /\ [Next]_vars => TextInv'
  BY TextStep
<1> QED BY <1>1, <1>2, <1>3, <1>4, PTL DEF Spec

-----------------------------------------------------------------------------
(***************************************************************************)
(* The loop of cmdList.  Nothing is printed before it, and in it the lines *)
(* printed are those of the selected probes it has passed.                 *)
(***************************************************************************)
IsText == line.argv # <<>> /\ Head(line.argv).raw = "parse-args"
Listed == {k \in 1..(pos - 1) : Selected(probes[k])}

Printed ==
  /\ \E S : out \in Seq(S)
  /\ Len(out) = Cardinality(Listed)
  /\ \A k \in Listed : out[Cardinality(UpTo(Listed, k))] = Row(probes[k], opts.args)

Quiet == pos = 1 /\ probes = <<>> /\ out = <<>>

BeforeList == pc \in {"main", "flags", "binary"} => Quiet
Dispatched == (pc = "main" => rest = line.argv) /\ (pc = "parse-args" => IsText)
ListAt == pc = "list" => probes \in Seq(Probes) /\ pos \in 1..(Len(probes) + 1) /\ Printed
ListDone ==
  pc = "done" /\ ~IsText =>
    Printed /\ pos > Len(probes) /\ exit = (IF Listed = {} THEN 1 ELSE 0)

ListInv == BeforeList /\ Dispatched /\ ListAt /\ ListDone

\* One iteration prints the probe it passes if it is selected, and keeps the lines
\* that were printed.
LEMMA ListsOne ==
  ASSUME probes \in Seq(Probes), pos \in 1..(Len(probes) + 1), Printed, ListNext
  PROVE  Printed'
<1> DEFINE n == pos - 1
           row == Row(probes[pos], opts.args)
<1>1. /\ pos' = pos + 1 /\ UNCHANGED <<opts, probes>>
      /\ out' = IF Selected(probes[pos]) THEN Append(out, row) ELSE out
  BY DEF ListNext
<1>2. n \in Nat /\ n + 1 = pos /\ pos' - 1 = n + 1
  BY <1>1
<1>3. Listed \in SUBSET (1..n)
  BY DEF Listed
<1>4. PICK S : out \in Seq(S)
  BY DEF Printed
<1>5. /\ Len(out) = Cardinality(Listed) /\ Len(out) \in Nat
      /\ \A k \in Listed : out[Cardinality(UpTo(Listed, k))] = Row(probes[k], opts.args)
  BY <1>4 DEF Printed
<1>6. Listed' = {k \in 1..(n + 1) : Selected(probes[k])}
  BY <1>1, <1>2 DEF Listed, Selected
<1>7. \A x, b : Row(x, b)' = Row(x, b)
  BY DEF Row
<1> HIDE DEF n
<1>8. CASE ~Selected(probes[pos])
  <2>1. Listed' = Listed
    <3>1. \A k \in 1..(n + 1) : k = pos \/ k \in 1..n
      BY <1>2
    <3>2. \A k \in 1..n : k \in 1..(n + 1)
      BY <1>2
    <3>3. Listed = {k \in 1..n : Selected(probes[k])}
      BY DEF Listed, n
    <3> QED BY <1>6, <1>8, <3>1, <3>2, <3>3
  <2>2. out' = out
    BY <1>1, <1>8
  <2> QED BY <1>1, <1>4, <1>5, <2>1, <2>2 DEF Printed, Row
<1>9. CASE Selected(probes[pos])
  <2>1. Listed' = Listed \cup {n + 1}
    <3>1. \A k : k \in 1..(n + 1) <=> k = n + 1 \/ k \in 1..n
      BY <1>2
    <3>2. Listed = {k \in 1..n : Selected(probes[k])} /\ Selected(probes[n + 1])
      BY <1>2, <1>9 DEF Listed, n
    <3> QED BY <1>6, <3>1, <3>2
  <2>2. /\ Cardinality(Listed') = Len(out) + 1
        /\ UpTo(Listed', n + 1) = Listed'
        /\ \A k \in Listed : UpTo(Listed', k) = UpTo(Listed, k)
    <3> DEFINE more == Listed \cup {n + 1}
    <3>1. /\ Cardinality(more) = Cardinality(Listed) + 1
          /\ UpTo(more, n + 1) = more
          /\ \A k \in Listed : UpTo(more, k) = UpTo(Listed, k)
      BY <1>2, <1>3, PlaceAdded DEF n
    <3> QED BY <1>5, <2>1, <3>1
  <2>3. \A k \in Listed : Cardinality(UpTo(Listed, k)) \in 1..Len(out)
    BY <1>2, <1>3, <1>5, PlacesCounted DEF n
  <2> DEFINE T == S \cup {row}
  <2>4. out \in Seq(T) /\ row \in T /\ out' = Append(out, row)
    BY <1>1, <1>4, <1>9
  <2> HIDE DEF T, row
  <2>5. /\ out' \in Seq(T) /\ Len(out') = Len(out) + 1 /\ out'[Len(out) + 1] = row
        /\ \A c \in 1..Len(out) : out'[c] = out[c]
    BY <2>4
  <2>6. ASSUME NEW k \in Listed'
        PROVE  out'[Cardinality(UpTo(Listed', k))] = Row(probes[k], opts.args)
    <3>1. CASE k \in Listed
      BY <1>5, <2>2, <2>3, <2>5, <3>1
    <3>2. CASE k = n + 1
      <4>1. Cardinality(UpTo(Listed', k)) = Len(out) + 1
        BY <2>2, <3>2
      <4> QED BY <1>2, <2>5, <3>2, <4>1 DEF row
    <3> QED BY <2>1, <3>1, <3>2
  <2> QED BY <1>1, <2>2, <2>5, <2>6 DEF Printed, Row
<1> QED BY <1>8, <1>9

\* Nothing is printed exactly when no probe passed is selected.
LEMMA NothingListed ==
  ASSUME Printed, pos \in Nat \ {0}
  PROVE  out = <<>> <=> Listed = {}
<1>1. pos - 1 \in Nat /\ Listed \in SUBSET (1..(pos - 1))
  BY DEF Listed
<1>2. IsFiniteSet(Listed)
  BY <1>1, PlacesCounted
<1>3. Cardinality(Listed) = 0 <=> Listed = {}
  BY <1>2, FS_EmptySet
<1>4. PICK S : out \in Seq(S)
  BY DEF Printed
<1>5. Len(out) = 0 <=> out = <<>>
  BY <1>4
<1> QED BY <1>3, <1>5 DEF Printed

\* Every step keeps the lines in line with the probes passed.
LEMMA ListStep == ListInv /\ [Next]_vars => ListInv'
<1> SUFFICES ASSUME ListInv, [Next]_vars PROVE ListInv'
  OBVIOUS
<1>0. line' = line /\ IsText' = IsText
  BY DEF IsText, Next, vars, Dispatch, NoCommand, ParseFlag, FlagFails, FlagsEnd, ReadBinary,
     BinaryFails, ListNext, ListEnd, ParseArgs, ParseArgsFails
<1>1. CASE Dispatch
  <2>1. /\ pc = "main" /\ pc' \in {"flags", "parse-args"} /\ rest # <<>>
        /\ pc' = "parse-args" => Head(rest).raw = "parse-args"
        /\ UNCHANGED <<pos, probes, out>>
    BY <1>1 DEF Dispatch, listVars
  <2>2. Quiet /\ rest = line.argv
    BY <2>1 DEF ListInv, BeforeList, Dispatched
  <2>3. pc' = "parse-args" => IsText
    BY <2>1, <2>2 DEF IsText
  <2>4. BeforeList' /\ ListAt' /\ ListDone'
    BY <2>1, <2>2 DEF BeforeList, Quiet, ListAt, ListDone
  <2>5. Dispatched'
    BY <1>0, <2>1, <2>3 DEF Dispatched
  <2> QED BY <2>4, <2>5 DEF ListInv
<1>2. CASE NoCommand \/ FlagFails \/ BinaryFails
  <2>1. /\ pc \in {"main", "flags", "binary"} /\ pc' = "done" /\ exit' = 1
        /\ UNCHANGED <<pos, probes, out>>
    BY <1>2 DEF NoCommand, FlagFails, BinaryFails, Exit, listVars
  <2>2. pos' = 1 /\ probes' = <<>> /\ out' = <<>>
    BY <2>1 DEF ListInv, BeforeList, Quiet
  <2>3. Listed' = {} /\ Printed'
    <3>1. Listed' = {}
      BY <2>2 DEF Listed
    <3>2. Cardinality(Listed') = 0 /\ <<>> \in Seq({}) /\ Len(<<>>) = 0
      BY <3>1, FS_EmptySet
    <3> QED BY <2>2, <3>1, <3>2 DEF Printed
  <2>4. pos' > Len(probes')
    BY <2>2
  <2> QED BY <2>1, <2>3, <2>4 DEF ListInv, BeforeList, Dispatched, ListAt, ListDone
<1>3. CASE ParseFlag \/ FlagsEnd
  <2>1. /\ pc \in {"flags", "binary"} /\ pc' \in {"flags", "binary"}
        /\ UNCHANGED <<pos, probes, out>>
    BY <1>3 DEF ParseFlag, FlagsEnd, listVars
  <2> QED BY <2>1 DEF ListInv, BeforeList, Quiet, Dispatched, ListAt, ListDone
<1>4. CASE ReadBinary
  <2>1. /\ pc = "binary" /\ pc' = "list" /\ pos' = 1 /\ out' = out
        /\ \E binary \in DOMAIN Files : probes' = Files[binary]
    BY <1>4 DEF ReadBinary
  <2>2. out' = <<>> /\ probes' \in Seq(Probes)
    BY <2>1, FilesAreProbes DEF ListInv, BeforeList, Quiet
  <2>3. Printed'
    <3>1. Listed' = {}
      BY <2>1 DEF Listed
    <3>2. Cardinality(Listed') = 0 /\ <<>> \in Seq({}) /\ Len(<<>>) = 0
      BY <3>1, FS_EmptySet
    <3> QED BY <2>2, <3>1, <3>2 DEF Printed
  <2>4. pos' \in 1..(Len(probes') + 1)
    BY <2>1, <2>2
  <2> QED BY <2>1, <2>2, <2>3, <2>4 DEF ListInv, BeforeList, Dispatched, ListAt, ListDone
<1>5. CASE ListNext
  <2>1. /\ pc = "list" /\ pc' = "list" /\ pos <= Len(probes) /\ pos' = pos + 1
        /\ probes' = probes
    BY <1>5 DEF ListNext
  <2>2. probes \in Seq(Probes) /\ pos \in 1..(Len(probes) + 1) /\ Printed
    BY <2>1 DEF ListInv, ListAt
  <2>3. Printed'
    BY <1>5, <2>2, ListsOne
  <2>4. pos' \in 1..(Len(probes') + 1)
    BY <2>1, <2>2
  <2> QED BY <2>1, <2>2, <2>3, <2>4 DEF ListInv, BeforeList, Dispatched, ListAt, ListDone
<1>6. CASE ListEnd
  <2>1. /\ pc = "list" /\ pc' = "done" /\ pos > Len(probes)
        /\ exit' = (IF out = <<>> THEN 1 ELSE 0) /\ UNCHANGED <<opts, pos, probes, out>>
    BY <1>6 DEF ListEnd, Exit, listVars
  <2>2. probes \in Seq(Probes) /\ pos \in 1..(Len(probes) + 1) /\ Printed
    BY <2>1 DEF ListInv, ListAt
  <2>3. Listed' = Listed /\ Printed'
    <3>1. Listed' = Listed
      BY <2>1 DEF Listed, Selected
    <3>2. Printed' <=> Printed
      BY <2>1, <3>1 DEF Printed, Row
    <3> QED BY <2>2, <3>1, <3>2
  <2>4. out = <<>> <=> Listed = {}
    BY <2>2, NothingListed
  <2> QED BY <2>1, <2>3, <2>4 DEF ListInv, BeforeList, Dispatched, ListAt, ListDone
<1>7. CASE ParseArgs \/ ParseArgsFails
  <2>1. pc = "parse-args" /\ pc' = "done"
    BY <1>7 DEF ParseArgs, ParseArgsFails, Exit
  <2>2. IsText'
    BY <1>0, <2>1 DEF ListInv, Dispatched
  <2> QED BY <2>1, <2>2 DEF ListInv, BeforeList, Dispatched, ListAt, ListDone
<1>8. CASE UNCHANGED vars
  <2>1. UNCHANGED <<pc, rest, opts, probes, pos, out, exit>>
    BY <1>8 DEF vars
  <2>2. Listed' = Listed /\ (Printed' <=> Printed)
    BY <2>1 DEF Listed, Selected, Printed, Row
  <2> QED BY <1>0, <2>1, <2>2 DEF ListInv, BeforeList, Quiet, Dispatched, ListAt, ListDone
<1> QED BY <1>1, <1>2, <1>3, <1>4, <1>5, <1>6, <1>7, <1>8 DEF Next

\* Whatever the words of the command line and the probes of the file, list prints the
\* selected probes, each once and in order, and its exit status says whether there is
\* one; nothing else prints.
THEOREM PrintsSelectedHolds == Spec => []PrintsSelected
<1>1. Init => ListInv
  BY DEF Init, ListInv, BeforeList, Quiet, Dispatched, ListAt, ListDone
<1>2. ListInv => PrintsSelected
  BY DEF ListInv, ListAt, ListDone, Printed, Listed, UpTo, IsText, PrintsSelected
<1> QED BY <1>1, <1>2, ListStep, PTL DEF Spec

-----------------------------------------------------------------------------
(***************************************************************************)
(* The flags of a command line.  Its words can be cut into flags and       *)
(* values in one way only, which the loop of package flag finds.           *)
(***************************************************************************)
\* Two cuts into flags agree on the words that both cover.
LEMMA CutsAgree ==
  ASSUME NEW c, NEW F, NEW G, NEW e \in Nat \ {0}, NEW f \in Nat, e <= f,
         FlagsAre(c, F, e), FlagsAre(c, G, f)
  PROVE  F = G \cap (2..e) /\ (e < f => e + 1 \in G)
<1> DEFINE D == {p \in 2..e : ~(p \in F <=> p \in G)}
<1>1. /\ F \subseteq 2..e /\ G \subseteq 2..f
      /\ \A p \in 2..e : p \in F <=> ~(p - 1 \in F /\ TakesNext(c[p - 1]))
      /\ \A p \in 2..f : p \in G <=> ~(p - 1 \in G /\ TakesNext(c[p - 1]))
      /\ \A p \in F : TakesNext(c[p]) => p < e
  BY DEF FlagsAre
<1>2. D = {}
  <2> SUFFICES ASSUME D # {} PROVE FALSE
    OBVIOUS
  <2> DEFINE m == Min(D)
  <2>1. D \in SUBSET Nat
    OBVIOUS
  <2>2. m \in D /\ \A y \in D : m <= y
    <3> HIDE DEF D
    <3> QED BY <2>1, MinPicks
  <2>3. m \in 2..e /\ m \in 2..f /\ ~(m \in F <=> m \in G) /\ m - 1 \notin D
    BY <2>2
  <2> HIDE DEF m
  <2>4. m - 1 \in F <=> m - 1 \in G
    <3>1. CASE m = 2
      BY <1>1, <3>1
    <3>2. CASE m # 2
      BY <2>3, <3>2
    <3> QED BY <3>1, <3>2
  <2> QED BY <1>1, <2>3, <2>4
<1>3. F = G \cap (2..e)
  BY <1>1, <1>2
<1>4. ASSUME e < f PROVE e + 1 \in G
  <2>1. e + 1 \in 2..f /\ (e + 1) - 1 = e
    BY <1>4
  <2>2. ~(e \in G /\ TakesNext(c[e]))
    <3>1. e \in G => e \in F
      BY <1>1, <1>3
    <3> QED BY <1>1, <3>1
  <2> QED BY <1>1, <2>1, <2>2
<1> QED BY <1>3, <1>4

\* The first e words are a command and its flags; they are all its flags; and r is
\* what is left behind them.
Flagged(c, F, e) == c \in Seq(Words) /\ e \in 1..Len(c) /\ c[1].raw = "list" /\ FlagsAre(c, F, e)
Ended(c, e) == e < Len(c) => c[e + 1].kind # "flag"
Left(c, e, r) ==
  r \in Seq(Words) /\ e \in Nat /\ Len(r) = Len(c) - e /\ \A i \in 1..Len(r) : r[i] = c[e + i]

\* A cut that ends at a word that is no flag is that of the whole command line.
LEMMA EndsAgree ==
  ASSUME NEW c, NEW F, NEW G, NEW e, NEW f,
         Flagged(c, F, e), Ended(c, e), Flagged(c, G, f), IsList(c, G, f)
  PROVE  F = G /\ e = f
<1>1. /\ e \in Nat \ {0} /\ f \in Nat \ {0} /\ Len(c) \in Nat /\ f < Len(c) /\ e <= Len(c)
      /\ FlagsAre(c, F, e) /\ FlagsAre(c, G, f)
  BY DEF Flagged, IsList
<1>2. c[f + 1].kind # "flag"
  BY DEF IsList
<1>3. (\A p \in F : c[p].kind = "flag") /\ (\A p \in G : c[p].kind = "flag") /\ G \subseteq 2..f
  BY <1>1 DEF FlagsAre, IsFlag
<1>4. ~(e < f)
  <2> SUFFICES ASSUME e < f PROVE FALSE
    OBVIOUS
  <2>1. e + 1 \in G
    BY <1>1, CutsAgree
  <2> QED BY <1>1, <1>3, <2>1 DEF Ended
<1>5. ~(f < e)
  <2> SUFFICES ASSUME f < e PROVE FALSE
    OBVIOUS
  <2>1. f + 1 \in F
    BY <1>1, CutsAgree
  <2> QED BY <1>2, <1>3, <2>1
<1>6. e = f
  BY <1>1, <1>4, <1>5
<1>7. F = G \cap (2..e)
  <2>1. e <= f
    BY <1>1, <1>6
  <2> QED BY <1>1, <2>1, CutsAgree
<1> QED BY <1>3, <1>6, <1>7

\* One more flag belongs to the flags, and so does the word that it takes.
LEMMA FlagAdded ==
  ASSUME NEW c, NEW F, NEW e, NEW len, Flagged(c, F, e), e < Len(c), IsFlag(c[e + 1]),
         len = (IF TakesNext(c[e + 1]) THEN e + 2 ELSE e + 1), len <= Len(c)
  PROVE  Flagged(c, F \cup {e + 1}, len)
<1> DEFINE G == F \cup {e + 1}
<1>1. /\ c \in Seq(Words) /\ e \in 1..Len(c) /\ Len(c) \in Nat /\ e \in Nat /\ c[1].raw = "list"
      /\ F \subseteq 2..e
      /\ \A p \in 2..e : p \in F <=> ~(p - 1 \in F /\ TakesNext(c[p - 1]))
      /\ \A p \in F : IsFlag(c[p]) /\ (TakesNext(c[p]) => p < e)
  BY DEF Flagged, FlagsAre
<1>2. len \in 1..Len(c) /\ len \in {e + 1, e + 2} /\ (TakesNext(c[e + 1]) => e + 1 < len)
  BY <1>1
<1>3. G \subseteq 2..len
  BY <1>1, <1>2
<1>4. \A p \in G : IsFlag(c[p]) /\ (TakesNext(c[p]) => p < len)
  BY <1>1, <1>2
<1>5. ASSUME NEW p \in 2..len PROVE p \in G <=> ~(p - 1 \in G /\ TakesNext(c[p - 1]))
  <2>1. CASE p \in 2..e
    <3>1. p # e + 1 /\ p - 1 # e + 1
      BY <1>1, <2>1
    <3> QED BY <1>1, <2>1, <3>1
  <2>2. CASE p = e + 1
    <3>1. p - 1 = e /\ e # e + 1
      BY <1>1, <2>2
    <3> QED BY <1>1, <2>2, <3>1
  <2>3. CASE p = e + 2
    <3>1. p - 1 = e + 1 /\ p \notin F /\ p # e + 1 /\ len = e + 2
      BY <1>1, <1>2, <2>3
    <3>2. TakesNext(c[e + 1])
      BY <1>1, <3>1
    <3> QED BY <3>1, <3>2
  <2> QED BY <1>1, <1>2, <2>1, <2>2, <2>3
<1> QED BY <1>1, <1>2, <1>3, <1>4, <1>5 DEF Flagged, FlagsAre

\* The flag added last decides the value of its name.
LEMMA OptionAdded ==
  ASSUME NEW c, NEW F, NEW e \in Nat, F \subseteq 2..e
  PROVE  /\ \A nm : nm # c[e + 1].name => Named(c, F \cup {e + 1}, nm) = Named(c, F, nm)
         /\ LET S == Named(c, F \cup {e + 1}, c[e + 1].name) IN S # {} /\ Max(S) = e + 1
<1> DEFINE S == Named(c, F \cup {e + 1}, c[e + 1].name)
<1>1. \A nm : nm # c[e + 1].name => Named(c, F \cup {e + 1}, nm) = Named(c, F, nm)
  BY DEF Named
<1> DEFINE n == e + 1
<1>2. n \in S /\ S # {} /\ S \subseteq F \cup {n}
  BY DEF Named
<1>3. n \in Nat /\ S \in SUBSET (0..n)
  <2> HIDE DEF S
  <2>1. F \subseteq 0..n /\ n \in 0..n
    OBVIOUS
  <2> QED BY <1>2, <2>1
<1> HIDE DEF S, n
<1>4. Max(S) \in S /\ \A y \in S : y <= Max(S)
  BY <1>2, <1>3, MaxPicks
<1>5. Max(S) = n
  <2> DEFINE m == Max(S)
  <2>1. m \in 0..n /\ n <= m
    BY <1>2, <1>3, <1>4
  <2> HIDE DEF m
  <2>2. m = n
    BY <1>3, <2>1
  <2> QED BY <2>2 DEF m
<1> QED BY <1>1, <1>2, <1>5 DEF S, n

\* The assignment of one flag, whose value may be the next word.
Assign(o, w, next) ==
  [o EXCEPT ![w.name] = IF w.name = "args" THEN ~w.assigned \/ w.val \in Truths
                        ELSE IF w.assigned THEN w.val ELSE next]

\* Assigning the value of a flag gives the options of the flags with it.
LEMMA OptionsStep ==
  ASSUME NEW c, NEW F, NEW e \in Nat, F \subseteq 2..e, IsFlag(c[e + 1])
  PROVE  Options(c, F \cup {e + 1}) = Assign(Options(c, F), c[e + 1], c[e + 2].raw)
<1> DEFINE w == c[e + 1]
           G == F \cup {e + 1}
<1>1. w.name \in {"provider", "name", "args"}
  BY DEF IsFlag, Defaults
<1>2. \A nm : nm # w.name => Named(c, G, nm) = Named(c, F, nm)
  BY OptionAdded
<1>3. Named(c, G, w.name) # {} /\ Max(Named(c, G, w.name)) = e + 1
  BY OptionAdded, Zenon
<1>9. (e + 1) + 1 = e + 2
  OBVIOUS
<1> HIDE DEF G
<1>4. \A nm : nm # w.name =>
        StringFlag(c, G, nm) = StringFlag(c, F, nm) /\ BoolFlag(c, G, nm) = BoolFlag(c, F, nm)
  <2>1. ASSUME NEW nm, Named(c, G, nm) = Named(c, F, nm)
        PROVE  StringFlag(c, G, nm) = StringFlag(c, F, nm)
    BY <2>1 DEF StringFlag
  <2>2. ASSUME NEW nm, Named(c, G, nm) = Named(c, F, nm)
        PROVE  BoolFlag(c, G, nm) = BoolFlag(c, F, nm)
    BY <2>2, Zenon DEF BoolFlag
  <2> QED BY <1>2, <2>1, <2>2
<1>5. /\ StringFlag(c, G, w.name) = IF w.assigned THEN w.val ELSE c[e + 2].raw
      /\ BoolFlag(c, G, w.name) = (~w.assigned \/ w.val \in Truths)
  BY <1>3, <1>9 DEF StringFlag, BoolFlag
<1> HIDE DEF w
<1>6. CASE w.name = "provider"
  BY <1>4, <1>5, <1>6 DEF Options, Assign, G, w
<1>7. CASE w.name = "name"
  BY <1>4, <1>5, <1>7 DEF Options, Assign, G, w
<1>8. CASE w.name = "args"
  BY <1>4, <1>5, <1>8 DEF Options, Assign, G, w
<1> QED BY <1>1, <1>6, <1>7, <1>8

-----------------------------------------------------------------------------
(***************************************************************************)
(* cmdList reads the flags that the line has, then its binary.             *)
(***************************************************************************)
\* Where the words behind the flags begin, a terminator skipped.
Behind(c, e) == IF e < Len(c) /\ c[e + 1].kind = "--" THEN e + 1 ELSE e

AtFlags ==
  pc = "flags" =>
    \E F, e : Flagged(line.argv, F, e) /\ opts = Options(line.argv, F) /\ Left(line.argv, e, rest)

AtBinary ==
  pc = "binary" =>
    \E F, e : /\ Flagged(line.argv, F, e) /\ opts = Options(line.argv, F)
              /\ Ended(line.argv, e) /\ Left(line.argv, Behind(line.argv, e), rest)

\* The probes of the binary that the line names, and the options of its flags.
Answers(c) ==
  LET binary == c[Len(c)].raw
  IN  /\ binary \in DOMAIN Files /\ probes = Files[binary]
      /\ \E F, e : Flagged(c, F, e) /\ IsList(c, F, e) /\ opts = Options(c, F)

\* No line with these words is answered.
Unreadable(c) == \A F, e : Flagged(c, F, e) /\ IsList(c, F, e) => c[Len(c)].raw \notin DOMAIN Files

AtList == pc = "list" => Answers(line.argv)
AtDone ==
  pc = "done" /\ ~IsText =>
    \/ Answers(line.argv) /\ pos = Len(probes) + 1
    \/ Unreadable(line.argv) /\ out = <<>> /\ exit = 1

AtMain == pc = "main" => opts = Defaults

AskInv == line \in Lines /\ AtMain /\ AtFlags /\ AtBinary /\ AtList /\ AtDone

\* The kind of the next word, if there is one.
LEMMA NextWord ==
  ASSUME rest \in Seq(Words)
  PROVE  NextKind = IF rest = <<>> THEN {} ELSE {rest[1].kind}
<1>1. Len(rest) \in Nat /\ DOMAIN rest = 1..Len(rest) /\ (rest = <<>> <=> Len(rest) = 0)
  OBVIOUS
<1>2. {1} \cap DOMAIN rest = IF rest = <<>> THEN {} ELSE {1}
  BY <1>1
<1> QED BY <1>2 DEF NextKind

\* fs.Parse reads one flag of the line.
LEMMA FlagRead ==
  ASSUME ParseFlag, NEW F, NEW e, NEW c, Flagged(c, F, e), opts = Options(c, F), Left(c, e, rest)
  PROVE  \E G, f : Flagged(c, G, f) /\ opts' = Options(c, G) /\ Left(c, f, rest')
<1> DEFINE w == c[e + 1]
           G == F \cup {e + 1}
           f == IF TakesNext(w) THEN e + 2 ELSE e + 1
<1>1. /\ c \in Seq(Words) /\ e \in 1..Len(c) /\ Len(c) \in Nat /\ e \in Nat /\ F \subseteq 2..e
      /\ rest \in Seq(Words) /\ Len(rest) = Len(c) - e /\ \A i \in 1..Len(rest) : rest[i] = c[e + i]
  BY DEF Flagged, FlagsAre, Left
<1>2. rest # <<>> /\ rest[1].kind = "flag"
  BY <1>1, NextWord DEF ParseFlag
<1>3. Len(rest) >= 1 /\ e < Len(c) /\ Head(rest) = rest[1] /\ w = rest[1]
  BY <1>1, <1>2
<1>4. SetString(w) \/ SetBool(w)
  BY <1>3 DEF ParseFlag
<1>5. IsFlag(c[e + 1]) /\ (w.name = "args" => ~TakesNext(w))
  BY <1>2, <1>3, <1>4 DEF IsFlag, Defaults, SetString, SetBool, TakesNext
<1>6. ASSUME TakesNext(w) PROVE Len(rest) > 1 /\ rest[2] = c[e + 2]
  <2>1. Len(rest) > 1
    BY <1>4, <1>6 DEF SetString, SetBool, TakesNext
  <2>2. 2 \in 1..Len(rest)
    BY <1>1, <2>1
  <2> QED BY <1>1, <2>1, <2>2
<1>7. f <= Len(c)
  BY <1>1, <1>3, <1>6
<1>8. Flagged(c, G, f)
  BY <1>3, <1>5, <1>7, FlagAdded
<1>9. opts' = Options(c, G)
  <2>1. Options(c, G) = Assign(opts, w, c[e + 2].raw)
    BY <1>1, <1>5, OptionsStep
  <2> HIDE DEF w, G
  <2>2. CASE SetString(w)
    <3>1. w.name # "args" /\ (~w.assigned => rest[2].raw = c[e + 2].raw)
      BY <1>6, <2>2 DEF SetString, TakesNext
    <3> QED BY <2>1, <2>2, <3>1 DEF SetString, Assign
  <2>3. CASE SetBool(w)
    <3>1. w.name = "args"
      BY <2>3 DEF SetBool
    <3> QED BY <2>1, <2>3, <3>1 DEF SetBool, Assign
  <2> QED BY <1>4, <2>2, <2>3
<1>10. Left(c, f, rest')
  <2> HIDE DEF f, w, G
  <2>1. CASE TakesNext(w)
    <3>1. rest' = Tail(Tail(rest)) /\ f = e + 2 /\ Len(rest) > 1
      BY <1>4, <1>6, <2>1 DEF SetString, SetBool, TakesNext, f
    <3> DEFINE t == Tail(rest)
    <3>2. /\ t \in Seq(Words) /\ Len(t) = Len(rest) - 1 /\ Len(t) > 0
          /\ \A i \in 1..Len(t) : t[i] = rest[i + 1]
      BY <1>1, <1>2, <3>1
    <3> HIDE DEF t
    <3>3. /\ rest' \in Seq(Words) /\ Len(rest') = Len(t) - 1
          /\ \A i \in 1..Len(rest') : rest'[i] = t[i + 1]
      <4>1. t # <<>>
        BY <3>2
      <4> QED BY <3>1, <3>2, <4>1 DEF t
    <3>4. ASSUME NEW i \in 1..Len(rest') PROVE rest'[i] = c[f + i]
      <4>1. i + 1 \in 1..Len(t) /\ (i + 1) + 1 \in 1..Len(rest) /\ e + ((i + 1) + 1) = f + i
        BY <1>1, <3>1, <3>2, <3>3
      <4> QED BY <1>1, <3>2, <3>3, <4>1
    <3>5. Len(rest') = Len(c) - f /\ f \in Nat
      BY <1>1, <3>1, <3>2, <3>3
    <3> QED BY <3>3, <3>4, <3>5 DEF Left
  <2>2. CASE ~TakesNext(w)
    <3>1. rest' = Tail(rest) /\ f = e + 1
      BY <1>4, <2>2 DEF SetString, SetBool, TakesNext, f
    <3>2. /\ rest' \in Seq(Words) /\ Len(rest') = Len(rest) - 1
          /\ \A i \in 1..Len(rest') : rest'[i] = rest[i + 1]
      BY <1>1, <1>3, <3>1
    <3>3. ASSUME NEW i \in 1..Len(rest') PROVE rest'[i] = c[f + i]
      <4>1. i + 1 \in 1..Len(rest) /\ e + (i + 1) = f + i
        BY <1>1, <3>1, <3>2
      <4> QED BY <1>1, <3>2, <4>1
    <3> QED BY <1>1, <3>1, <3>2, <3>3 DEF Left
  <2> QED BY <2>1, <2>2
<1> QED BY <1>8, <1>9, <1>10

\* A flag that fs.Parse refuses is in no list command.
LEMMA FlagRefused ==
  ASSUME FlagFails, NEW F, NEW e, NEW c, Flagged(c, F, e), opts = Options(c, F), Left(c, e, rest)
  PROVE  Unreadable(c)
<1> DEFINE w == Head(rest)
<1> SUFFICES ASSUME NEW G, NEW f, Flagged(c, G, f), IsList(c, G, f) PROVE FALSE
  BY DEF Unreadable
<1>1. /\ c \in Seq(Words) /\ e \in 1..Len(c) /\ Len(c) \in Nat /\ e \in Nat \ {0}
      /\ FlagsAre(c, F, e) /\ f \in Nat \ {0} /\ FlagsAre(c, G, f) /\ f < Len(c)
      /\ rest \in Seq(Words) /\ Len(rest) = Len(c) - e /\ \A i \in 1..Len(rest) : rest[i] = c[e + i]
  BY DEF Flagged, Left, IsList
<1>2. rest # <<>> /\ rest[1].kind = "flag"
  BY <1>1, NextWord DEF FlagFails
<1>3. Len(rest) >= 1 /\ e < Len(c) /\ w = rest[1] /\ w = c[e + 1]
  BY <1>1, <1>2
<1>4. Malformed(w) /\ DOMAIN opts = DOMAIN Defaults
  BY DEF FlagFails, Options, Defaults
<1>5. CASE e < f
  <2>1. e + 1 \in G /\ e <= f
    BY <1>1, <1>5, CutsAgree
  <2>2. IsFlag(w) /\ (TakesNext(w) => e + 1 < f)
    BY <1>1, <1>3, <2>1 DEF FlagsAre
  <2>3. TakesNext(w) => Len(rest) > 1
    BY <1>1, <2>2
  <2> QED BY <1>1, <1>4, <2>2, <2>3 DEF Malformed, IsFlag, TakesNext
<1>6. CASE e = f
  BY <1>2, <1>3, <1>6 DEF IsList
<1>7. CASE f < e
  <2>1. f + 1 \in F
    BY <1>1, <1>7, CutsAgree
  <2>2. c[f + 1].kind = "flag"
    BY <1>1, <2>1 DEF FlagsAre, IsFlag
  <2> QED BY <2>2 DEF IsList
<1> QED BY <1>1, <1>5, <1>6, <1>7

\* When the flags end, the words behind them are left.
LEMMA FlagsLeft ==
  ASSUME FlagsEnd, NEW e, NEW c, c \in Seq(Words), e \in 1..Len(c), Left(c, e, rest)
  PROVE  Ended(c, e) /\ Left(c, Behind(c, e), rest')
<1>1. /\ Len(c) \in Nat /\ e \in Nat /\ rest \in Seq(Words) /\ Len(rest) = Len(c) - e
      /\ \A i \in 1..Len(rest) : rest[i] = c[e + i]
  BY DEF Left
<1>2. NextKind = (IF e < Len(c) THEN {c[e + 1].kind} ELSE {})
  <2>1. NextKind = IF rest = <<>> THEN {} ELSE {rest[1].kind}
    BY <1>1, NextWord
  <2>2. (rest = <<>> <=> ~(e < Len(c))) /\ (rest # <<>> => rest[1] = c[e + 1])
    BY <1>1
  <2> QED BY <2>1, <2>2
<1>3. Ended(c, e)
  BY <1>2 DEF FlagsEnd, Ended
<1>4. rest' = IF NextKind = {"--"} THEN Tail(rest) ELSE rest
  BY DEF FlagsEnd
<1>5. CASE e < Len(c) /\ c[e + 1].kind = "--"
  <2>1. rest' = Tail(rest) /\ Behind(c, e) = e + 1
    BY <1>2, <1>4, <1>5 DEF Behind
  <2>2. rest # <<>>
    BY <1>1, <1>5
  <2>3. /\ rest' \in Seq(Words) /\ Len(rest') = Len(rest) - 1
        /\ \A i \in 1..Len(rest') : rest'[i] = rest[i + 1]
    BY <1>1, <2>1, <2>2
  <2>4. ASSUME NEW i \in 1..Len(rest') PROVE rest'[i] = c[(e + 1) + i]
    <3>1. i + 1 \in 1..Len(rest) /\ e + (i + 1) = (e + 1) + i
      BY <1>1, <2>3
    <3> QED BY <1>1, <2>3, <3>1
  <2>5. Len(rest') = Len(c) - (e + 1) /\ e + 1 \in Nat
    BY <1>1, <2>3
  <2> QED BY <1>3, <2>1, <2>3, <2>4, <2>5 DEF Left
<1>6. CASE ~(e < Len(c) /\ c[e + 1].kind = "--")
  <2>1. rest' = rest /\ Behind(c, e) = e
    BY <1>2, <1>4, <1>6 DEF Behind
  <2> QED BY <1>3, <2>1 DEF Left
<1> QED BY <1>5, <1>6

\* One word is left exactly when the line is a list command, and it is the binary.
LEMMA BinaryLeft ==
  ASSUME NEW F, NEW e, NEW c, Flagged(c, F, e), Ended(c, e), Left(c, Behind(c, e), rest)
  PROVE  OnlyWord = IF IsList(c, F, e) THEN {c[Len(c)].raw} ELSE {}
<1>1. /\ Len(c) \in Nat /\ e \in Nat /\ e <= Len(c) /\ c[1].raw = "list" /\ FlagsAre(c, F, e)
  BY DEF Flagged
<1>2. /\ rest \in Seq(Words) /\ Len(rest) = Len(c) - Behind(c, e) /\ Behind(c, e) \in Nat
      /\ \A i \in 1..Len(rest) : rest[i] = c[Behind(c, e) + i]
  BY DEF Left
<1>3. OnlyWord = IF Len(rest) = 1 THEN {rest[1].raw} ELSE {}
  BY DEF OnlyWord
<1>4. ASSUME Len(rest) = 1 PROVE rest[1] = c[Len(c)]
  <2> DEFINE b == Behind(c, e)
             l == Len(c)
  <2>1. 1 \in 1..Len(rest) /\ Behind(c, e) + 1 = Len(c)
    <3>1. b \in Nat /\ l \in Nat /\ 1 = l - b
      BY <1>1, <1>2, <1>4
    <3> HIDE DEF b, l
    <3>2. b + 1 = l
      BY <3>1
    <3> QED BY <1>4, <3>2 DEF b, l
  <2> QED BY <1>2, <2>1
<1>5. Len(rest) = 1 <=> IsList(c, F, e)
  <2>1. CASE e < Len(c) /\ c[e + 1].kind = "--"
    <3>1. Behind(c, e) = e + 1
      BY <2>1 DEF Behind
    <3> QED BY <1>1, <1>2, <2>1, <3>1 DEF IsList
  <2>2. CASE e < Len(c) /\ c[e + 1].kind # "--"
    <3>1. Behind(c, e) = e /\ c[e + 1].kind # "flag"
      BY <2>2 DEF Behind, Ended
    <3> QED BY <1>1, <1>2, <2>2, <3>1 DEF IsList
  <2>3. CASE ~(e < Len(c))
    <3>1. Behind(c, e) = e
      BY <2>3 DEF Behind
    <3> QED BY <1>1, <1>2, <2>3, <3>1 DEF IsList
  <2> QED BY <2>1, <2>2, <2>3
<1> QED BY <1>3, <1>4, <1>5

\* Every step keeps to the line.
LEMMA AskStep ==
  ASSUME ListInv, AskInv, [Next]_vars
  PROVE  AskInv'
<1> DEFINE c == line.argv
<1>1. line' = line /\ line \in Lines /\ c' = c /\ c \in Seq(Words) /\ IsText' = IsText
  BY LinesAreWords DEF AskInv, IsText, Next, vars, Dispatch, NoCommand, ParseFlag, FlagFails,
     FlagsEnd, ReadBinary, BinaryFails, ListNext, ListEnd, ParseArgs, ParseArgsFails
<1>2. CASE Dispatch
  <2>1. /\ pc = "main" /\ pc' = (IF Head(rest).raw = "list" THEN "flags" ELSE "parse-args")
        /\ rest # <<>> /\ rest' = Tail(rest) /\ opts' = opts
    BY <1>2 DEF Dispatch
  <2>2. rest = c
    BY <2>1 DEF ListInv, Dispatched
  <2>3. pc' # "binary" /\ pc' # "list" /\ pc' # "done"
    BY <2>1
  <2>4. ASSUME pc' = "flags"
        PROVE  Flagged(c, {}, 1) /\ opts' = Options(c, {}) /\ Left(c, 1, rest')
    <3>1. c # <<>> /\ c[1].raw = "list" /\ Len(c) \in Nat /\ Len(c) >= 1
      BY <1>1, <2>1, <2>2, <2>4
    <3>2. Flagged(c, {}, 1)
      BY <1>1, <3>1 DEF Flagged, FlagsAre
    <3>3. Left(c, 1, rest')
      <4>1. /\ rest' \in Seq(Words) /\ Len(rest') = Len(c) - 1
            /\ \A i \in 1..Len(rest') : rest'[i] = c[i + 1]
        BY <1>1, <2>1, <2>2, <3>1
      <4>2. \A i \in 1..Len(rest') : i + 1 = 1 + i
        BY <3>1, <4>1
      <4> QED BY <4>1, <4>2 DEF Left
    <3>4. Options(c, {}) = Defaults
      BY DEF Options, Defaults, StringFlag, BoolFlag, Named
    <3>5. opts = Defaults
      BY <2>1 DEF AskInv, AtMain
    <3> QED BY <2>1, <3>2, <3>3, <3>4, <3>5
  <2>5. AtFlags'
    BY <1>1, <2>4 DEF AtFlags
  <2> QED BY <1>1, <2>1, <2>3, <2>5 DEF AskInv, AtMain, AtBinary, AtList, AtDone
<1>3. CASE NoCommand
  <2>1. pc = "main" /\ pc' = "done" /\ exit' = 1 /\ out' = out
    BY <1>3 DEF NoCommand, Exit
  <2>2. rest = c /\ out' = <<>>
    BY <2>1 DEF ListInv, Dispatched, BeforeList, Quiet
  <2>3. ~(c # <<>> /\ Head(c).raw = "list")
    BY <1>3, <2>2 DEF NoCommand
  <2>4. Unreadable(c)
    <3> SUFFICES ASSUME NEW F, NEW e, Flagged(c, F, e) PROVE FALSE
      BY DEF Unreadable
    <3>1. e \in 1..Len(c) /\ c[1].raw = "list" /\ Len(c) \in Nat
      BY <1>1 DEF Flagged
    <3>2. c # <<>>
      BY <1>1, <3>1
    <3> QED BY <1>1, <2>3, <3>1, <3>2
  <2>5. AtDone'
    BY <1>1, <2>1, <2>2, <2>4 DEF AtDone
  <2> QED BY <1>1, <2>1, <2>5 DEF AskInv, AtMain, AtFlags, AtBinary, AtList
<1>4. CASE ParseFlag
  <2>1. pc = "flags" /\ pc' = "flags"
    BY <1>4 DEF ParseFlag
  <2>2. PICK F, e : Flagged(c, F, e) /\ opts = Options(c, F) /\ Left(c, e, rest)
    BY <2>1 DEF AskInv, AtFlags
  <2>3. \E G, f : Flagged(c, G, f) /\ opts' = Options(c, G) /\ Left(c, f, rest')
    BY <1>4, <2>2, FlagRead
  <2> QED BY <1>1, <2>1, <2>3 DEF AskInv, AtMain, AtFlags, AtBinary, AtList, AtDone
<1>5. CASE FlagFails
  <2>1. pc = "flags" /\ pc' = "done" /\ exit' = 1 /\ out' = out
    BY <1>5 DEF FlagFails, Exit
  <2>2. PICK F, e : Flagged(c, F, e) /\ opts = Options(c, F) /\ Left(c, e, rest)
    BY <2>1 DEF AskInv, AtFlags
  <2>3. Unreadable(c) /\ out' = <<>>
    BY <1>5, <2>1, <2>2, FlagRefused DEF ListInv, BeforeList, Quiet
  <2>4. AtDone'
    BY <1>1, <2>1, <2>3 DEF AtDone
  <2> QED BY <1>1, <2>1, <2>4 DEF AskInv, AtMain, AtFlags, AtBinary, AtList
<1>6. CASE FlagsEnd
  <2>1. pc = "flags" /\ pc' = "binary" /\ opts' = opts
    BY <1>6 DEF FlagsEnd
  <2>2. PICK F, e : Flagged(c, F, e) /\ opts = Options(c, F) /\ Left(c, e, rest)
    BY <2>1 DEF AskInv, AtFlags
  <2>3. Ended(c, e) /\ Left(c, Behind(c, e), rest')
    <3>1. e \in 1..Len(c)
      BY <2>2 DEF Flagged
    <3> QED BY <1>1, <1>6, <2>2, <3>1, FlagsLeft
  <2> QED BY <1>1, <2>1, <2>2, <2>3 DEF AskInv, AtMain, AtFlags, AtBinary, AtList, AtDone
<1>7. ASSUME pc = "binary"
      PROVE  \E F, e : /\ Flagged(c, F, e) /\ Ended(c, e) /\ opts = Options(c, F)
                       /\ OnlyWord = IF IsList(c, F, e) THEN {c[Len(c)].raw} ELSE {}
  BY <1>7, BinaryLeft DEF AskInv, AtBinary
<1>8. CASE ReadBinary
  <2>1. /\ pc = "binary" /\ pc' = "list" /\ opts' = opts
        /\ \E binary \in OnlyWord \cap DOMAIN Files : probes' = Files[binary]
    BY <1>8 DEF ReadBinary
  <2>2. PICK F, e : /\ Flagged(c, F, e) /\ opts = Options(c, F)
                    /\ OnlyWord = IF IsList(c, F, e) THEN {c[Len(c)].raw} ELSE {}
    BY <1>7, <2>1
  <2>3. /\ IsList(c, F, e) /\ c[Len(c)].raw \in DOMAIN Files /\ probes' = Files[c[Len(c)].raw]
    BY <2>1, <2>2
  <2>4. Answers(c)'
    BY <1>1, <2>1, <2>2, <2>3 DEF Answers
  <2> QED BY <1>1, <2>1, <2>4 DEF AskInv, AtMain, AtFlags, AtBinary, AtList, AtDone
<1>9. CASE BinaryFails
  <2>1. /\ pc = "binary" /\ pc' = "done" /\ exit' = 1 /\ out' = out
        /\ OnlyWord \cap DOMAIN Files = {}
    BY <1>9 DEF BinaryFails, Exit
  <2>2. PICK F, e : /\ Flagged(c, F, e) /\ Ended(c, e)
                    /\ OnlyWord = IF IsList(c, F, e) THEN {c[Len(c)].raw} ELSE {}
    BY <1>7, <2>1
  <2>3. ASSUME NEW G, NEW f, Flagged(c, G, f), IsList(c, G, f)
        PROVE  c[Len(c)].raw \notin DOMAIN Files
    <3>1. F = G /\ e = f
      BY <2>2, <2>3, EndsAgree
    <3> QED BY <2>1, <2>2, <2>3, <3>1
  <2>4. Unreadable(c) /\ out' = <<>>
    BY <2>1, <2>3 DEF Unreadable, ListInv, BeforeList, Quiet
  <2>5. AtDone'
    BY <1>1, <2>1, <2>4 DEF AtDone
  <2> QED BY <1>1, <2>1, <2>5 DEF AskInv, AtMain, AtFlags, AtBinary, AtList
<1>10. CASE ListNext \/ ListEnd
  <2>1. pc = "list" /\ pc' \in {"list", "done"} /\ UNCHANGED <<opts, probes>>
    BY <1>10 DEF ListNext, ListEnd, Exit, listVars
  <2>2. Answers(c)
    BY <2>1 DEF AskInv, AtList
  <2>3. Answers(c)'
    BY <1>1, <2>1, <2>2 DEF Answers
  <2>4. ASSUME pc' = "done" PROVE pos' = Len(probes') + 1
    <3>1. pos' = pos /\ pos > Len(probes)
      BY <1>10, <2>1, <2>4 DEF ListNext, ListEnd, listVars
    <3>2. probes \in Seq(Probes) /\ pos \in 1..(Len(probes) + 1)
      BY <2>1 DEF ListInv, ListAt
    <3> QED BY <2>1, <3>1, <3>2
  <2> QED BY <1>1, <2>1, <2>3, <2>4 DEF AskInv, AtMain, AtFlags, AtBinary, AtList, AtDone
<1>11. CASE ParseArgs \/ ParseArgsFails
  <2>1. pc = "parse-args" /\ pc' = "done"
    BY <1>11 DEF ParseArgs, ParseArgsFails, Exit
  <2>2. IsText'
    BY <1>1, <2>1 DEF ListInv, Dispatched
  <2> QED BY <1>1, <2>1, <2>2 DEF AskInv, AtMain, AtFlags, AtBinary, AtList, AtDone
<1>12. CASE UNCHANGED vars
  <2>1. UNCHANGED <<line, pc, rest, opts, probes, pos, out, exit>>
    BY <1>12 DEF vars
  <2>2. Answers(c)' <=> Answers(c)
    BY <1>1, <2>1 DEF Answers
  <2> QED BY <1>1, <2>1, <2>2 DEF AskInv, AtMain, AtFlags, AtBinary, AtList, AtDone
<1> QED BY <1>2, <1>3, <1>4, <1>5, <1>6, <1>8, <1>9, <1>10, <1>11, <1>12 DEF Next

\* At the end of the loop the lines printed are the answer to a request for these
\* probes with these options.
LEMMA Answered ==
  ASSUME NEW ask, Printed, probes = Files[ask.file], probes \in Seq(Probes), pos = Len(probes) + 1,
         ask.provider = opts.provider, ask.name = opts.name, ask.args = opts.args
  PROVE  out = Answer(ask)
<1> DEFINE file == Files[ask.file]
           wanted == {k \in DOMAIN file : /\ ask.provider \in {"", file[k].provider}
                                          /\ ask.name \in {"", file[k].name}}
           nth(i) == CHOOSE k \in wanted : Cardinality({m \in wanted : m <= k}) = i
<1>1. Answer(ask) = [i \in 1..Cardinality(wanted) |-> Row(file[nth(i)], ask.args)]
  BY DEF Answer
<1>2. Len(probes) \in Nat /\ pos - 1 = Len(probes) /\ DOMAIN file = 1..Len(probes)
  OBVIOUS
<1>3. wanted = Listed
  BY <1>2 DEF Listed, Selected
<1> DEFINE n == Len(probes)
<1>4. n \in Nat /\ Listed \in SUBSET (1..n)
  BY <1>2 DEF Listed
<1>5. /\ Cardinality(Listed) \in Nat
      /\ \A i \in 1..Cardinality(Listed) : \E k \in Listed : Cardinality(UpTo(Listed, k)) = i
  <2> HIDE DEF n, wanted, nth
  <2> QED BY <1>4, PlacesCounted, PlacesOnto
<1>6. \A i : nth(i) = CHOOSE k \in Listed : Cardinality(UpTo(Listed, k)) = i
  BY <1>3 DEF UpTo
<1> HIDE DEF wanted, nth, n, file
<1>7. ASSUME NEW i \in 1..Cardinality(Listed)
      PROVE  nth(i) \in Listed /\ Cardinality(UpTo(Listed, nth(i))) = i
  BY <1>5, <1>6, <1>7
<1>8. PICK S : out \in Seq(S)
  BY DEF Printed
<1>9. /\ out = [i \in 1..Len(out) |-> out[i]] /\ Len(out) = Cardinality(Listed)
      /\ \A k \in Listed : out[Cardinality(UpTo(Listed, k))] = Row(probes[k], opts.args)
  BY <1>8 DEF Printed
<1>10. \A i \in 1..Len(out) : out[i] = Row(file[nth(i)], ask.args)
  BY <1>7, <1>9 DEF file
<1> QED BY <1>1, <1>3, <1>9, <1>10

\* A line asks for what its words say.
LEMMA AsksWords ==
  ASSUME AsksList, line \in Lines, line.command # "parse-args"
  PROVE  LET c == line.argv
         IN  /\ ~IsText
             /\ line.flagsFirst =>
                  \E F, e : /\ Flagged(c, F, e) /\ IsList(c, F, e) /\ line.ask.file = c[Len(c)].raw
                            /\ \A f \in DOMAIN Defaults : line.ask[f] = Options(c, F)[f]
             /\ ~line.flagsFirst => \A F, e : ~(Flagged(c, F, e) /\ IsList(c, F, e))
<1> DEFINE c == line.argv
           cuts == (SUBSET (2..Len(c))) \X (1..Len(c))
<1>1. c \in Seq(Words) /\ Len(c) \in Nat
  BY LinesAreWords
<1>2. /\ c = <<>> \/ c[1].raw # "parse-args"
      /\ line.flagsFirst =>
           \E x \in cuts : /\ IsList(c, x[1], x[2]) /\ line.ask.file = c[Len(c)].raw
                           /\ \A f \in DOMAIN Defaults : line.ask[f] = Options(c, x[1])[f]
      /\ ~line.flagsFirst => \A x \in cuts : ~IsList(c, x[1], x[2])
  BY Zenon DEF AsksList
<1>3. ~IsText
  BY <1>1, <1>2 DEF IsText
<1>4. ASSUME NEW x \in cuts, IsList(c, x[1], x[2]) PROVE Flagged(c, x[1], x[2])
  BY <1>1, <1>4 DEF IsList, Flagged
<1>5. ASSUME NEW F, NEW e, Flagged(c, F, e), IsList(c, F, e)
      PROVE  \E x \in cuts : IsList(c, x[1], x[2])
  <2>1. e \in 1..Len(c) /\ F \subseteq 2..e
    BY <1>5 DEF Flagged, FlagsAre
  <2>2. F \in SUBSET (2..Len(c))
    BY <1>1, <2>1
  <2>3. <<F, e>> \in cuts /\ <<F, e>>[1] = F /\ <<F, e>>[2] = e
    BY <2>1, <2>2
  <2> QED BY <1>5, <2>3
<1> HIDE DEF cuts
<1> QED BY <1>2, <1>3, <1>4, <1>5

\* Whatever the words and the files: a list command whose flags precede its binary
\* prints the probes of the binary that it asks for, in order and however the flags
\* are spelled, repeated or ended, and succeeds if there is one; every other line
\* prints nothing and fails.
THEOREM ListsAskedHolds == AsksList /\ Spec => []ListsAsked
<1>1. Init => ListInv /\ AskInv
  BY DEF Init, ListInv, BeforeList, Quiet, Dispatched, ListAt, ListDone, AskInv, AtMain, AtFlags,
     AtBinary, AtList, AtDone
<1>2. ASSUME AsksList, ListInv, AskInv PROVE ListsAsked
  <2> SUFFICES ASSUME pc = "done", line.command # "parse-args"
               PROVE  IF line.flagsFirst /\ line.ask.file \in DOMAIN Files
                      THEN out = Answer(line.ask) /\ exit = (IF out = <<>> THEN 1 ELSE 0)
                      ELSE out = <<>> /\ exit = 1
    BY DEF ListsAsked
  <2> DEFINE c == line.argv
             ask == line.ask
  <2>1. line \in Lines
    BY <1>2 DEF AskInv
  <2>2. /\ ~IsText
        /\ line.flagsFirst =>
             \E F, e : /\ Flagged(c, F, e) /\ IsList(c, F, e) /\ ask.file = c[Len(c)].raw
                       /\ \A f \in DOMAIN Defaults : ask[f] = Options(c, F)[f]
        /\ ~line.flagsFirst => \A F, e : ~(Flagged(c, F, e) /\ IsList(c, F, e))
    BY <1>2, <2>1, AsksWords
  <2>3. /\ Printed /\ exit = (IF Listed = {} THEN 1 ELSE 0)
        /\ \/ Answers(c) /\ pos = Len(probes) + 1
           \/ Unreadable(c) /\ out = <<>> /\ exit = 1
    BY <1>2, <2>2 DEF ListInv, ListDone, AskInv, AtDone
  <2>4. CASE Answers(c) /\ pos = Len(probes) + 1
    <3>1. PICK F, e : Flagged(c, F, e) /\ IsList(c, F, e) /\ opts = Options(c, F)
      BY <2>4 DEF Answers
    <3>2. c[Len(c)].raw \in DOMAIN Files /\ probes = Files[c[Len(c)].raw] /\ line.flagsFirst
      BY <2>2, <2>4, <3>1 DEF Answers
    <3>3. PICK G, f : /\ Flagged(c, G, f) /\ IsList(c, G, f) /\ ask.file = c[Len(c)].raw
                      /\ \A o \in DOMAIN Defaults : ask[o] = Options(c, G)[o]
      BY <2>2, <3>2
    <3>4. F = G
      <4>1. Ended(c, e)
        BY <3>1 DEF IsList, Ended
      <4> QED BY <3>1, <3>3, <4>1, EndsAgree
    <3>5. ask.provider = opts.provider /\ ask.name = opts.name /\ ask.args = opts.args
      BY <3>1, <3>3, <3>4 DEF Defaults
    <3>6. probes \in Seq(Probes) /\ probes = Files[ask.file]
      BY <3>2, <3>3, FilesAreProbes
    <3>7. out = Answer(ask)
      BY <2>3, <2>4, <3>5, <3>6, Answered
    <3>8. out = <<>> <=> Listed = {}
      BY <2>3, <2>4, <3>6, NothingListed
    <3> QED BY <2>3, <3>2, <3>3, <3>7, <3>8
  <2>5. CASE Unreadable(c) /\ out = <<>> /\ exit = 1
    <3>1. ~(line.flagsFirst /\ ask.file \in DOMAIN Files)
      BY <2>2, <2>5 DEF Unreadable
    <3> QED BY <2>5, <3>1
  <2> QED BY <2>3, <2>4, <2>5
<1>3. AsksList => AsksList'
  BY DEF AsksList
<1>4. ListInv /\ AskInv /\ [Next]_vars => AskInv'
  BY AskStep
<1> QED BY <1>1, <1>2, <1>3, <1>4, ListStep, PTL DEF Spec
=============================================================================
