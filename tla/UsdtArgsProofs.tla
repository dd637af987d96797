--------------------------- MODULE UsdtArgsProofs ---------------------------
(***************************************************************************)
(* Proofs about an argument on its way from the text to the BPF program:   *)
(* the split of the text, the list of specs made of it, what a spelled     *)
(* argument parses to, the cast of bpf_usdt_arg and the value it returns,  *)
(* for texts of any length and bytes with any number of values.            *)
(***************************************************************************)
EXTENDS UsdtArgs, SpecLayoutProofs, SequenceTheorems

-----------------------------------------------------------------------------
(***************************************************************************)
(* The trimmed text is a sequence of tokens.                               *)
(***************************************************************************)
\* What TrimSpace leaves of an argument text is a sequence of tokens that does not
\* end with white space.
LEMMA CharsAreTokens ==
  ASSUME text \in Texts
  PROVE  chars \in Seq(Token) /\ (chars # <<>> => chars[Len(chars)].t # "ws")
<1> DEFINE c == text.chars
           solid == {k \in DOMAIN c : c[k].t # "ws"}
<1>1. c \in Seq(Token)
  BY TextsAreTokens
<1>2. chars = IF solid = {} THEN <<>> ELSE SubSeq(c, Min(solid), Max(solid))
  BY DEF chars, Trim
<1>3. Len(c) \in Nat /\ solid \subseteq 1..Len(c)
  BY <1>1
<1> HIDE DEF c, solid
<1>4. CASE solid # {}
  <2> DEFINE m == Min(solid)
             n == Max(solid)
             t == SubSeq(c, m, n)
  <2>1. solid \in SUBSET Nat /\ solid \in SUBSET (0..Len(c))
    BY <1>3
  <2>2. n \in solid
    BY <1>3, <1>4, <2>1, MaxPicks
  <2>3. m \in solid /\ m <= n
    BY <1>4, <2>1, <2>2, MinPicks
  <2> HIDE DEF m, n
  <2>4. m \in 1..Len(c) /\ n \in 1..Len(c)
    BY <1>3, <2>2, <2>3
  <2>5. \A k \in m..n : c[k] \in Token
    BY <1>1, <2>4
  <2>6. /\ t \in Seq(Token) /\ Len(t) = n - m + 1
        /\ \A k \in 1..(n - m + 1) : t[k] = c[m + k - 1]
    BY <2>3, <2>4, <2>5, SubSeqProperties
  <2>7. n - m + 1 \in 1..(n - m + 1) /\ m + (n - m + 1) - 1 = n
    BY <2>3, <2>4
  <2>8. t[Len(t)] = c[n]
    BY <2>6, <2>7
  <2>9. c[n].t # "ws"
    BY <2>2 DEF solid
  <2>10. chars = t
    BY <1>2, <1>4 DEF m, n
  <2> QED BY <2>6, <2>8, <2>9, <2>10
<1> QED BY <1>2, <1>4

-----------------------------------------------------------------------------
(***************************************************************************)
(* Runs.  The first n characters of the text are cut into the runs A that  *)
(* have ended and the run C that has not.                                  *)
(***************************************************************************)
Runs(n, A, C) == ListsRuns(chars, A, Ends(chars, n)) /\ C = Run(chars, n)

\* A bracket opens or closes at every character by what the character is.
LEMMA InsideStep ==
  ASSUME NEW p \in Nat \ {0}
  PROVE  Inside(chars, p + 1) <=> \/ chars[p].t = "lb"
                                  \/ chars[p].t # "rb" /\ Inside(chars, p)
<1>1. ASSUME chars[p].t = "lb" PROVE Inside(chars, p + 1)
  BY <1>1 DEF Inside
<1>2. ASSUME chars[p].t # "rb", Inside(chars, p) PROVE Inside(chars, p + 1)
  <2>1. PICK k \in 1..(p - 1) : chars[k].t = "lb" /\ \A m \in (k + 1)..(p - 1) : chars[m].t # "rb"
    BY <1>2 DEF Inside
  <2>2. k \in 1..(p + 1 - 1) /\ \A m \in (k + 1)..(p + 1 - 1) : chars[m].t # "rb"
    BY <1>2, <2>1
  <2> QED BY <2>1, <2>2 DEF Inside
<1>3. ASSUME Inside(chars, p + 1), chars[p].t # "lb" PROVE chars[p].t # "rb" /\ Inside(chars, p)
  <2>1. PICK k \in 1..(p + 1 - 1) :
          chars[k].t = "lb" /\ \A m \in (k + 1)..(p + 1 - 1) : chars[m].t # "rb"
    BY <1>3 DEF Inside
  <2>2. k \in 1..(p - 1) /\ p \in (k + 1)..(p + 1 - 1)
    BY <1>3, <2>1
  <2>3. \A m \in (k + 1)..(p - 1) : chars[m].t # "rb"
    BY <2>1
  <2> QED BY <2>1, <2>2, <2>3 DEF Inside
<1> QED BY <1>1, <1>2, <1>3

\* Where the run that reaches n begins; it is empty behind a separator.
LEMMA BeginsBound ==
  ASSUME NEW n \in Nat
  PROVE  /\ Begins(chars, n) \in 1..(n + 1)
         /\ Begins(chars, n) = n + 1 <=> n = 0 \/ Separator(chars, n)
<1> DEFINE B == {0} \cup {k \in 1..n : Separator(chars, k)}
<1>1. B \in SUBSET (0..n) /\ B # {}
  OBVIOUS
<1>2. n \in B <=> n = 0 \/ Separator(chars, n)
  OBVIOUS
<1>3. Begins(chars, n) = Max(B) + 1
  BY DEF Begins
<1> HIDE DEF B
<1>4. Max(B) \in B /\ \A y \in B : y <= Max(B)
  BY <1>1, MaxPicks
<1>5. Max(B) \in 0..n /\ (n \in B <=> Max(B) = n)
  <2>1. Max(B) \in 0..n
    BY <1>1, <1>4
  <2>2. n \in B => n <= Max(B)
    BY <1>4
  <2>3. Max(B) = n => n \in B
    BY <1>4
  <2> QED BY <2>1, <2>2, <2>3
<1> QED BY <1>2, <1>3, <1>5

\* A character that is no separator leaves the beginning where it was.
LEMMA BeginsStep ==
  ASSUME NEW p \in Nat \ {0}, ~Separator(chars, p)
  PROVE  Begins(chars, p) = Begins(chars, p - 1)
<1>1. {k \in 1..p : Separator(chars, k)} = {k \in 1..(p - 1) : Separator(chars, k)}
  OBVIOUS
<1> QED BY <1>1 DEF Begins

\* A separator behind a run ends it, and nothing else does.
LEMMA EndsStep ==
  ASSUME chars \in Seq(Token), NEW p \in 1..Len(chars)
  PROVE  /\ Ends(chars, p) = Ends(chars, p - 1) \cup {x \in {p - 1} : p > 1 /\ Separator(chars, p) /\ ~Separator(chars, x)}
         /\ Ends(chars, p - 1) \subseteq 1..(p - 2)
<1>1. p \in Nat /\ Len(chars) \in Nat /\ p <= Len(chars) /\ p >= 1
  OBVIOUS
<1>2. Ends(chars, p - 1) \subseteq 1..(p - 2)
  BY <1>1 DEF Ends
<1>3. ASSUME NEW x \in Ends(chars, p)
      PROVE  x \in Ends(chars, p - 1) \/ (x = p - 1 /\ p > 1 /\ Separator(chars, p) /\ ~Separator(chars, x))
  <2>1. x \in 1..p /\ ~Separator(chars, x) /\ x < Len(chars) /\ x < p /\ Separator(chars, x + 1)
    BY <1>3 DEF Ends
  <2>2. CASE x = p - 1
    <3>1. x + 1 = p /\ p > 1
      BY <1>1, <2>1, <2>2
    <3> QED BY <2>1, <2>2, <3>1
  <2>3. CASE x # p - 1
    <3>1. x \in 1..(p - 1) /\ x < p - 1
      BY <1>1, <2>1, <2>3
    <3> QED BY <2>1, <3>1 DEF Ends
  <2> QED BY <2>2, <2>3
<1>4. ASSUME NEW x \in Ends(chars, p - 1) PROVE x \in Ends(chars, p)
  <2>1. x \in 1..(p - 1) /\ ~Separator(chars, x) /\ x < Len(chars) /\ x < p - 1 /\ Separator(chars, x + 1)
    BY <1>4 DEF Ends
  <2>2. x \in 1..p /\ x < p
    BY <1>1, <2>1
  <2> QED BY <2>1, <2>2 DEF Ends
<1>5. ASSUME p > 1, Separator(chars, p), ~Separator(chars, p - 1) PROVE p - 1 \in Ends(chars, p)
  <2>1. p - 1 \in 1..p /\ p - 1 < Len(chars) /\ p - 1 < p /\ p - 1 + 1 = p
    BY <1>1, <1>5
  <2> QED BY <1>5, <2>1 DEF Ends
<1> QED BY <1>2, <1>3, <1>4, <1>5

\* A character that is no separator extends the run that has not ended.
LEMMA RunGoesOn ==
  ASSUME chars \in Seq(Token), NEW p \in 1..Len(chars), ~Separator(chars, p),
         NEW A, NEW C, Runs(p - 1, A, C)
  PROVE  Runs(p, A, Append(C, chars[p]))
<1>1. p \in Nat \ {0} /\ p - 1 \in Nat
  OBVIOUS
<1>2. Ends(chars, p) = Ends(chars, p - 1)
  BY EndsStep
<1>3. Begins(chars, p) = Begins(chars, p - 1)
  BY <1>1, BeginsStep
<1>4. Begins(chars, p) \in 1..p
  BY <1>1, <1>3, BeginsBound
<1>5. Append(SubSeq(chars, Begins(chars, p), p - 1), chars[p]) = Run(chars, p)
  BY <1>4 DEF Run
<1> QED BY <1>2, <1>3, <1>5 DEF Runs, Run

\* The run that reaches n is empty behind a separator only.
LEMMA RunEmpty ==
  ASSUME chars \in Seq(Token), NEW n \in 0..Len(chars)
  PROVE  /\ Run(chars, n) \in Seq(Token)
         /\ Run(chars, n) = <<>> <=> n = 0 \/ Separator(chars, n)
<1> DEFINE b == Begins(chars, n)
           C == SubSeq(chars, b, n)
<1>1. n \in Nat /\ Len(chars) \in Nat /\ n <= Len(chars)
  OBVIOUS
<1>2. b \in 1..(n + 1) /\ (b = n + 1 <=> n = 0 \/ Separator(chars, n))
  BY <1>1, BeginsBound
<1> HIDE DEF b
<1>3. \A k \in b..n : chars[k] \in Token
  BY <1>1, <1>2
<1>4. C \in Seq(Token) /\ Len(C) = IF b <= n THEN n - b + 1 ELSE 0
  BY <1>1, <1>2, <1>3, SubSeqProperties
<1> HIDE DEF C
<1>5. Len(C) = 0 <=> b = n + 1
  BY <1>1, <1>2, <1>4
<1>6. C = <<>> <=> Len(C) = 0
  BY <1>4
<1> QED BY <1>2, <1>4, <1>5, <1>6 DEF b, C, Run

\* A run that ends behind the others is listed behind them.
LEMMA RunAppended ==
  ASSUME NEW n \in Nat, NEW ended \in SUBSET (1..n), NEW A \in Seq(Seq(Token)),
         NEW C \in Seq(Token), ListsRuns(chars, A, ended), C = Run(chars, n + 1)
  PROVE  ListsRuns(chars, Append(A, C), ended \cup {n + 1})
<1> DEFINE more == ended \cup {n + 1}
<1>1. /\ Len(A) = Cardinality(ended)
      /\ \A e \in ended : A[Cardinality(UpTo(ended, e))] = Run(chars, e)
  BY DEF ListsRuns, PlaceOf, UpTo
<1>2. \A e \in ended : Cardinality(UpTo(ended, e)) \in 1..Len(A)
  BY <1>1, PlacesCounted
<1>3. /\ Cardinality(more) = Len(A) + 1
      /\ UpTo(more, n + 1) = more
      /\ \A e \in ended : UpTo(more, e) = UpTo(ended, e)
  BY <1>1, PlaceAdded
<1>4. /\ Len(Append(A, C)) = Len(A) + 1 /\ Append(A, C)[Len(A) + 1] = C
      /\ \A k \in 1..Len(A) : Append(A, C)[k] = A[k]
  BY AppendProperties
<1>5. ASSUME NEW e \in more
      PROVE  Append(A, C)[Cardinality(UpTo(more, e))] = Run(chars, e)
  <2>1. CASE e \in ended
    BY <1>1, <1>2, <1>3, <1>4, <2>1
  <2>2. CASE e = n + 1
    BY <1>3, <1>4, <2>2
  <2> QED BY <2>1, <2>2
<1> HIDE DEF more
<1>6. ListsRuns(chars, Append(A, C), more)
  BY <1>3, <1>4, <1>5 DEF ListsRuns, PlaceOf, UpTo
<1> QED BY <1>6 DEF more

\* A separator ends the run before it, if there is one.
LEMMA RunEnds ==
  ASSUME chars \in Seq(Token), NEW p \in 1..Len(chars), Separator(chars, p),
         NEW A \in Seq(Seq(Token)), NEW C \in Seq(Token), Runs(p - 1, A, C)
  PROVE  Runs(p, IF C # <<>> THEN Append(A, C) ELSE A, <<>>)
<1> DEFINE ended == Ends(chars, p - 1)
<1>1. p \in Nat \ {0} /\ p - 1 \in 0..Len(chars) /\ p \in 0..Len(chars)
  OBVIOUS
<1>2. Run(chars, p) = <<>>
  BY <1>1, RunEmpty
<1>3. /\ C = Run(chars, p - 1) /\ ListsRuns(chars, A, ended)
      /\ C = <<>> <=> p - 1 = 0 \/ Separator(chars, p - 1)
  BY <1>1, RunEmpty DEF Runs
<1>4. CASE C = <<>>
  <2>1. Ends(chars, p) = ended
    <3>1. ~(p > 1 /\ ~Separator(chars, p - 1))
      BY <1>1, <1>3, <1>4
    <3>2. {x \in {p - 1} : p > 1 /\ Separator(chars, p) /\ ~Separator(chars, x)} = {}
      BY <3>1
    <3>3. Ends(chars, p) = ended \cup {x \in {p - 1} : p > 1 /\ Separator(chars, p) /\ ~Separator(chars, x)}
      BY EndsStep
    <3> HIDE DEF ended
    <3> QED BY <3>2, <3>3
  <2> QED BY <1>2, <1>3, <1>4, <2>1 DEF Runs
<1>5. CASE C # <<>>
  <2> DEFINE n == p - 2
  <2>1. p > 1 /\ Ends(chars, p) = ended \cup {p - 1} /\ ended \subseteq 1..n
    <3>1. p > 1 /\ ~Separator(chars, p - 1)
      BY <1>1, <1>3, <1>5
    <3>2. /\ Ends(chars, p) = ended \cup {x \in {p - 1} : p > 1 /\ Separator(chars, p) /\ ~Separator(chars, x)}
          /\ ended \subseteq 1..n
      BY EndsStep
    <3> HIDE DEF ended, n
    <3> QED BY <3>1, <3>2
  <2>2. n \in Nat /\ p - 1 = n + 1 /\ ended \in SUBSET (1..n)
    BY <1>1, <2>1
  <2> HIDE DEF ended, n
  <2>3. ListsRuns(chars, Append(A, C), ended \cup {n + 1})
    BY <1>3, <2>2, RunAppended
  <2> QED BY <1>2, <1>5, <2>1, <2>2, <2>3 DEF Runs
<1> QED BY <1>4, <1>5

-----------------------------------------------------------------------------
(***************************************************************************)
(* splitUSDTArgs.  Its flag says whether the next character lies inside    *)
(* brackets, and what it has collected are the runs before that character. *)
(***************************************************************************)
SplitStarts ==
  pc = "start" => pos = 1 /\ inBrackets = FALSE /\ current = <<>> /\ args = <<>>

SplitAt ==
  pc = "split" =>
    /\ chars # <<>> /\ pos \in 1..(Len(chars) + 1) /\ inBrackets = Inside(chars, pos)
    /\ args \in Seq(Seq(Token)) /\ current \in Seq(Token)
    /\ Runs(pos - 1, args, current)

SplitInv == text \in Texts /\ SplitStarts /\ SplitAt

\* A step of the loop of splitUSDTArgs consumes one character.
LEMMA SplitStep ==
  ASSUME SplitInv, pc = "split", SplitBracket \/ SplitSpace \/ SplitOther
  PROVE  /\ UNCHANGED <<text, pc>> /\ pos' = pos + 1 /\ pos \in 1..Len(chars)
         /\ inBrackets' = Inside(chars, pos + 1)
         /\ args' \in Seq(Seq(Token)) /\ current' \in Seq(Token)
         /\ Runs(pos, args', current')
<1>1. /\ chars \in Seq(Token) /\ pos \in 1..(Len(chars) + 1) /\ inBrackets = Inside(chars, pos)
      /\ args \in Seq(Seq(Token)) /\ current \in Seq(Token) /\ Runs(pos - 1, args, current)
  BY CharsAreTokens DEF SplitInv, SplitAt
<1>2. UNCHANGED <<text, pc>> /\ pos' = pos + 1 /\ pos <= Len(chars)
  BY DEF SplitBracket, SplitSpace, SplitOther
<1>3. pos \in 1..Len(chars) /\ pos \in Nat \ {0} /\ chars[pos] \in Token
  BY <1>1, <1>2
<1>4. Inside(chars, pos) \in BOOLEAN /\ Inside(chars, pos + 1) \in BOOLEAN
  BY DEF Inside
<1>5. Inside(chars, pos + 1) <=> \/ chars[pos].t = "lb"
                                 \/ chars[pos].t # "rb" /\ Inside(chars, pos)
  BY <1>3, InsideStep
<1>6. inBrackets' = Inside(chars, pos + 1)
  BY <1>1, <1>4, <1>5 DEF SplitBracket, SplitSpace, SplitOther
<1>7. CASE Separator(chars, pos)
  <2>1. chars[pos].t = "ws" /\ ~inBrackets
    BY <1>1, <1>7 DEF Separator
  <2>2. current' = <<>> /\ args' = IF current # <<>> THEN Append(args, current) ELSE args
    BY <2>1 DEF SplitBracket, SplitSpace, SplitOther
  <2>3. Runs(pos, args', current')
    BY <1>1, <1>3, <1>7, <2>2, RunEnds
  <2>4. args' \in Seq(Seq(Token)) /\ current' \in Seq(Token)
    BY <1>1, <2>2
  <2> QED BY <1>2, <1>3, <1>6, <2>3, <2>4
<1>8. CASE ~Separator(chars, pos)
  <2>1. chars[pos].t = "ws" => inBrackets
    BY <1>1, <1>8 DEF Separator
  <2>2. current' = Append(current, chars[pos]) /\ args' = args
    BY <2>1 DEF SplitBracket, SplitSpace, SplitOther
  <2>3. Runs(pos, args', current')
    BY <1>1, <1>3, <1>8, <2>2, RunGoesOn
  <2>4. args' \in Seq(Seq(Token)) /\ current' \in Seq(Token)
    BY <1>1, <1>3, <2>2
  <2> QED BY <1>2, <1>3, <1>6, <2>3, <2>4
<1> QED BY <1>7, <1>8

\* Every step keeps what was collected the runs of the text.
LEMMA SplitInvStep == SplitInv /\ [Next]_vars => SplitInv'
<1> SUFFICES ASSUME SplitInv, [Next]_vars PROVE SplitInv'
  OBVIOUS
<1>0. text' = text
  BY DEF Next, vars, Start, SplitBracket, SplitSpace, SplitOther, SplitEnd, ParseNext,
     ParseFails, ParseEnd, Fetch
<1>1. /\ text \in Texts /\ text' \in Texts /\ chars \in Seq(Token) /\ chars' = chars
  BY <1>0, CharsAreTokens DEF SplitInv, chars
<1>2. \A n, A, C : Runs(n, A, C)' <=> Runs(n, A, C)
  BY <1>1 DEF Runs, ListsRuns, Run, Ends, Begins, Separator, Inside
<1>3. \A n : Inside(chars, n)' = Inside(chars, n)
  BY <1>1 DEF Inside
<1>4. CASE Start
  <2>1. /\ pc' # "start" /\ (pc' = "split" => chars # <<>>)
        /\ pos' = 1 /\ inBrackets' = FALSE /\ current' = <<>> /\ args' = <<>>
    BY <1>4 DEF Start, splitVars, SplitInv, SplitStarts
  <2>2. Inside(chars, 1) = FALSE
    BY DEF Inside
  <2>3. Runs(0, <<>>, <<>>)
    <3>1. Ends(chars, 0) = {} /\ Begins(chars, 0) = 1
      <4>1. Begins(chars, 0) \in 1..1
        BY BeginsBound
      <4> QED BY <4>1 DEF Ends
    <3>2. SubSeq(chars, 1, 0) = <<>> /\ Cardinality({}) = 0 /\ Len(<<>>) = 0
      BY SubSeqEmpty, FS_EmptySet
    <3> QED BY <3>1, <3>2 DEF Runs, ListsRuns, Run
  <2>4. /\ 1 \in 1..(Len(chars) + 1) /\ pos' - 1 = 0
        /\ <<>> \in Seq(Seq(Token)) /\ <<>> \in Seq(Token)
    BY <1>1, <2>1
  <2>5. SplitStarts' /\ SplitAt'
    BY <1>1, <1>2, <1>3, <2>1, <2>2, <2>3, <2>4 DEF SplitStarts, SplitAt
  <2> QED BY <1>1, <2>5 DEF SplitInv
<1>5. CASE SplitBracket \/ SplitSpace \/ SplitOther
  <2>1. pc = "split"
    BY <1>5 DEF SplitBracket, SplitSpace, SplitOther
  <2>2. /\ UNCHANGED <<text, pc>> /\ pos' = pos + 1 /\ pos \in 1..Len(chars)
        /\ inBrackets' = Inside(chars, pos + 1)
        /\ args' \in Seq(Seq(Token)) /\ current' \in Seq(Token)
        /\ Runs(pos, args', current')
    BY <1>5, <2>1, SplitStep
  <2>3. pos' \in 1..(Len(chars) + 1) /\ pos' - 1 = pos
    BY <1>1, <2>2
  <2>4. SplitStarts'
    BY <2>1, <2>2 DEF SplitStarts
  <2>5. SplitAt'
    BY <1>1, <1>2, <1>3, <2>1, <2>2, <2>3 DEF SplitInv, SplitAt
  <2> QED BY <1>1, <2>4, <2>5 DEF SplitInv
<1>6. CASE SplitEnd \/ ParseNext \/ ParseFails \/ ParseEnd \/ Fetch
  <2>1. pc' \notin {"start", "split"}
    BY <1>6 DEF SplitEnd, ParseNext, ParseFails, ParseEnd, Fetch
  <2> QED BY <1>1, <2>1 DEF SplitInv, SplitStarts, SplitAt
<1>7. CASE UNCHANGED vars
  BY <1>1, <1>2, <1>3, <1>7 DEF vars, SplitInv, SplitStarts, SplitAt
<1> QED BY <1>4, <1>5, <1>6, <1>7 DEF Next

\* splitUSDTArgs cuts every text, of any length and with brackets that nest or do
\* not close, into its maximal runs without a separator.
THEOREM SplitsRunsHolds == Spec => []SplitsRuns
<1>1. Init => SplitInv
  BY DEF Init, SplitInv, SplitStarts, SplitAt
<1>2. SplitInv => SplitsRuns
  BY DEF SplitInv, SplitAt, SplitsRuns, Runs
<1> QED BY <1>1, <1>2, SplitInvStep, PTL DEF Spec

-----------------------------------------------------------------------------
(***************************************************************************)
(* ParseUSDTArguments.  After the split the arguments are the runs of the  *)
(* whole text, and the spec has one entry for each argument parsed.        *)
(***************************************************************************)
Parsed(A, S, n) ==
  /\ \E T : S \in Seq(T)
  /\ Len(S) = n /\ \A k \in 1..n : S[k] \in ParseUSDTArgSpec(arch, A[k])

Refused(A) == Len(A) > MaxArgs \/ \E k \in DOMAIN A : ParseUSDTArgSpec(arch, A[k]) = {}

SpecStarts == pc \in {"start", "split"} => spec = <<>>
ArgsCut ==
  pc \in {"parse", "ok", "error"} =>
    args \in Seq(Seq(Token)) /\ ListsRuns(chars, args, AllRuns(chars))
ParseAt ==
  pc = "parse" =>
    Len(args) <= MaxArgs /\ pos \in 1..(Len(args) + 1) /\ Parsed(args, spec, pos - 1)
Accepted == pc = "ok" => Len(args) <= MaxArgs /\ Parsed(args, spec, Len(args))
Rejected == pc = "error" => spec = <<>> /\ Refused(args)

ParseInv == SpecStarts /\ ArgsCut /\ ParseAt /\ Accepted /\ Rejected

\* When the loop of splitUSDTArgs ends, the builder holds the last run.
LEMMA LastRun ==
  ASSUME SplitInv, SplitEnd
  PROVE  /\ args' = Append(args, current) /\ args' \in Seq(Seq(Token))
         /\ ListsRuns(chars, args', AllRuns(chars))
<1> DEFINE len == Len(chars)
           n == len - 1
<1>1. /\ pc = "split" /\ pos > len
      /\ args' = IF current # <<>> THEN Append(args, current) ELSE args
  BY DEF SplitEnd
<1>2. /\ chars \in Seq(Token) /\ chars[len].t # "ws" /\ chars # <<>>
      /\ pos \in 1..(len + 1) /\ args \in Seq(Seq(Token)) /\ current \in Seq(Token)
      /\ Runs(pos - 1, args, current)
  BY <1>1, CharsAreTokens DEF SplitInv, SplitAt
<1>3. len \in Nat \ {0} /\ pos - 1 = len
  BY <1>1, <1>2
<1>4. ListsRuns(chars, args, Ends(chars, len)) /\ current = Run(chars, len)
  BY <1>2, <1>3 DEF Runs
<1>5. ~Separator(chars, len)
  BY <1>2 DEF Separator
<1>6. current # <<>>
  <2>1. len \in 0..Len(chars) /\ len # 0
    BY <1>3
  <2> QED BY <1>2, <1>4, <1>5, <2>1, RunEmpty
<1>7. n \in Nat /\ n + 1 = len
  BY <1>3
<1>8. Ends(chars, len) \in SUBSET (1..n)
  BY <1>3 DEF Ends
<1>9. AllRuns(chars) = Ends(chars, len) \cup {n + 1}
  BY <1>3, <1>7 DEF AllRuns
<1> HIDE DEF len, n
<1>10. ListsRuns(chars, Append(args, current), Ends(chars, len) \cup {n + 1})
  BY <1>2, <1>4, <1>7, <1>8, RunAppended
<1> QED BY <1>1, <1>2, <1>6, <1>9, <1>10

\* Every step keeps the spec in line with the arguments.
LEMMA ParseInvStep == SplitInv /\ ParseInv /\ [Next]_vars => ParseInv'
<1> SUFFICES ASSUME SplitInv, ParseInv, [Next]_vars PROVE ParseInv'
  OBVIOUS
<1>0. text' = text
  BY DEF Next, vars, Start, SplitBracket, SplitSpace, SplitOther, SplitEnd, ParseNext,
     ParseFails, ParseEnd, Fetch
<1>1. chars \in Seq(Token) /\ chars' = chars /\ arch' = arch
  BY <1>0, CharsAreTokens DEF SplitInv, chars, arch
<1>2. \A A : ListsRuns(chars, A, AllRuns(chars))' <=> ListsRuns(chars, A, AllRuns(chars))
  BY <1>1 DEF AllRuns, ListsRuns, Run, Ends, Begins, Separator, Inside
<1>3. \A A, S, n : Parsed(A, S, n)' <=> Parsed(A, S, n)
  BY <1>1 DEF Parsed
<1>4. \A A : Refused(A)' <=> Refused(A)
  BY <1>1 DEF Refused
<1>5. CASE Start
  <2>1. pc = "start" /\ spec' = <<>> /\ args' = <<>>
    BY <1>5 DEF Start, splitVars, SplitInv, SplitStarts, ParseInv, SpecStarts
  <2>2. pc' = "split" \/ (pc' = "ok" /\ chars = <<>>)
    BY <1>5 DEF Start
  <2>3. ASSUME chars = <<>> PROVE ListsRuns(chars, <<>>, AllRuns(chars))
    <3>1. AllRuns(chars) = {}
      BY <2>3 DEF AllRuns, Ends
    <3> QED BY <3>1, FS_EmptySet DEF ListsRuns
  <2>4. Parsed(<<>>, <<>>, 0) /\ Len(<<>>) = 0 /\ 0 <= MaxArgs
    <3>1. <<>> \in Seq({})
      OBVIOUS
    <3> QED BY <3>1, ArgBounds DEF Parsed
  <2>5. <<>> \in Seq(Seq(Token))
    OBVIOUS
  <2>6. SpecStarts' /\ ParseAt' /\ Rejected'
    BY <2>1, <2>2 DEF SpecStarts, ParseAt, Rejected
  <2>7. ArgsCut'
    BY <1>2, <2>1, <2>2, <2>3, <2>5 DEF ArgsCut
  <2>8. Accepted'
    BY <1>3, <2>1, <2>4 DEF Accepted
  <2> QED BY <2>6, <2>7, <2>8 DEF ParseInv
<1>6. CASE SplitBracket \/ SplitSpace \/ SplitOther
  <2>1. pc = "split" /\ pc' = "split" /\ spec' = spec
    BY <1>6 DEF SplitBracket, SplitSpace, SplitOther
  <2> QED BY <2>1 DEF ParseInv, SpecStarts, ArgsCut, ParseAt, Accepted, Rejected
<1>7. CASE SplitEnd
  <2>1. /\ pc = "split" /\ pos' = 1 /\ spec' = <<>>
        /\ pc' = IF Len(args') > MaxArgs THEN "error" ELSE "parse"
    BY <1>7 DEF SplitEnd, ParseInv, SpecStarts
  <2>2. args' \in Seq(Seq(Token)) /\ ListsRuns(chars, args', AllRuns(chars))
    BY <1>7, LastRun
  <2>3. ArgsCut'
    BY <1>2, <2>2 DEF ArgsCut
  <2>4. SpecStarts' /\ Accepted'
    BY <2>1 DEF SpecStarts, Accepted
  <2>5. Len(args') \in Nat /\ (Len(args') <= MaxArgs <=> ~(Len(args') > MaxArgs))
    BY <2>2, ArgBounds
  <2>6. Rejected'
    BY <1>4, <2>1 DEF Rejected, Refused
  <2>7. Parsed(args', <<>>, 0)
    <3>1. <<>> \in Seq({}) /\ Len(<<>>) = 0
      OBVIOUS
    <3> QED BY <3>1 DEF Parsed
  <2>8. ParseAt'
    <3>1. pos' \in 1..(Len(args') + 1) /\ pos' - 1 = 0
      BY <2>1, <2>5
    <3> QED BY <1>3, <2>1, <2>5, <2>7, <3>1 DEF ParseAt
  <2> QED BY <2>3, <2>4, <2>6, <2>8 DEF ParseInv
<1>8. CASE ParseNext
  <2>1. /\ pc = "parse" /\ pc' = "parse" /\ pos <= Len(args) /\ pos' = pos + 1 /\ args' = args
        /\ \E a \in ParseUSDTArgSpec(arch, args[pos]) : spec' = Append(spec, a)
    BY <1>8 DEF ParseNext, splitVars
  <2>2. PICK a \in ParseUSDTArgSpec(arch, args[pos]) : spec' = Append(spec, a)
    BY <2>1
  <2>3. /\ args \in Seq(Seq(Token)) /\ ListsRuns(chars, args, AllRuns(chars)) /\ Len(args) <= MaxArgs
        /\ pos \in 1..(Len(args) + 1) /\ Parsed(args, spec, pos - 1)
    BY <2>1 DEF ParseInv, ArgsCut, ParseAt
  <2>4. PICK T : spec \in Seq(T)
    BY <2>3 DEF Parsed
  <2>5. Len(spec) = pos - 1 /\ \A k \in 1..(pos - 1) : spec[k] \in ParseUSDTArgSpec(arch, args[k])
    BY <2>3 DEF Parsed
  <2> DEFINE U == T \cup {a}
  <2>6. spec \in Seq(U) /\ a \in U
    BY <2>4
  <2> HIDE DEF U
  <2>7. /\ spec' \in Seq(U) /\ Len(spec') = Len(spec) + 1 /\ spec'[Len(spec) + 1] = a
        /\ \A k \in 1..Len(spec) : spec'[k] = spec[k]
    BY <2>2, <2>6, AppendProperties
  <2>8. pos \in Nat /\ Len(spec) + 1 = pos /\ pos' - 1 = pos /\ pos' \in 1..(Len(args) + 1)
    BY <2>1, <2>3, <2>5
  <2>9. \A k \in 1..pos : spec'[k] \in ParseUSDTArgSpec(arch, args[k])
    <3>1. \A k \in 1..pos : k \in 1..(pos - 1) \/ k = pos
      BY <2>8
    <3> QED BY <2>2, <2>5, <2>7, <2>8, <3>1
  <2>10. Parsed(args', spec', pos' - 1)
    BY <2>1, <2>7, <2>8, <2>9 DEF Parsed
  <2>11. ParseAt'
    BY <1>3, <2>1, <2>3, <2>8, <2>10 DEF ParseAt
  <2>12. ArgsCut'
    BY <1>2, <2>1, <2>3 DEF ArgsCut
  <2> QED BY <2>1, <2>11, <2>12 DEF ParseInv, SpecStarts, Accepted, Rejected
<1>9. CASE ParseFails
  <2>1. /\ pc = "parse" /\ pc' = "error" /\ spec' = <<>> /\ args' = args /\ pos <= Len(args)
        /\ ParseUSDTArgSpec(arch, args[pos]) = {}
    BY <1>9 DEF ParseFails, splitVars
  <2>2. /\ args \in Seq(Seq(Token)) /\ ListsRuns(chars, args, AllRuns(chars)) /\ pos \in 1..(Len(args) + 1)
    BY <2>1 DEF ParseInv, ArgsCut, ParseAt
  <2>3. pos \in DOMAIN args
    BY <2>1, <2>2
  <2>4. Refused(args')
    BY <2>1, <2>3 DEF Refused
  <2>5. ArgsCut' /\ Rejected'
    BY <1>2, <1>4, <2>1, <2>2, <2>4 DEF ArgsCut, Rejected
  <2> QED BY <2>1, <2>5 DEF ParseInv, SpecStarts, ParseAt, Accepted
<1>10. CASE ParseEnd
  <2>1. pc = "parse" /\ pc' = "ok" /\ spec' = spec /\ args' = args /\ pos > Len(args)
    BY <1>10 DEF ParseEnd, splitVars
  <2>2. /\ args \in Seq(Seq(Token)) /\ ListsRuns(chars, args, AllRuns(chars)) /\ Len(args) <= MaxArgs
        /\ pos \in 1..(Len(args) + 1) /\ Parsed(args, spec, pos - 1)
    BY <2>1 DEF ParseInv, ArgsCut, ParseAt
  <2>3. pos - 1 = Len(args)
    BY <2>1, <2>2
  <2>4. ArgsCut' /\ Accepted'
    BY <1>2, <1>3, <2>1, <2>2, <2>3 DEF ArgsCut, Accepted
  <2> QED BY <2>1, <2>4 DEF ParseInv, SpecStarts, ParseAt, Rejected
<1>11. CASE Fetch \/ UNCHANGED vars
  <2>1. UNCHANGED <<pc, pos, args, spec>>
    BY <1>11 DEF Fetch, splitVars, vars
  <2> QED BY <1>2, <1>3, <1>4, <2>1 DEF ParseInv, SpecStarts, ArgsCut, ParseAt, Accepted, Rejected
<1> QED BY <1>5, <1>6, <1>7, <1>8, <1>9, <1>10, <1>11 DEF Next

\* ParseUSDTArguments returns the specs of all runs of the text or none, whatever the
\* text and whatever single arguments it can parse.
THEOREM AcceptsRunsHolds == Spec => []AcceptsRuns
<1>1. Init => SplitInv /\ ParseInv
  BY DEF Init, SplitInv, SplitStarts, SplitAt, ParseInv, SpecStarts, ArgsCut, ParseAt,
     Accepted, Rejected
<1>2. ParseInv => AcceptsRuns
  <2> SUFFICES ASSUME ParseInv PROVE AcceptsRuns
    OBVIOUS
  <2>1. pc \in {"ok", "error"} => ListsRuns(chars, args, AllRuns(chars))
    BY DEF ParseInv, ArgsCut
  <2>2. pc = "ok" => /\ Len(args) <= MaxArgs /\ Len(spec) = Len(args)
                     /\ \A k \in DOMAIN args : spec[k] \in ParseUSDTArgSpec(arch, args[k])
    BY DEF ParseInv, ArgsCut, Accepted, Parsed
  <2> QED BY <2>1, <2>2 DEF AcceptsRuns, AllRuns, ParseInv, Rejected, Refused
<1> QED BY <1>1, <1>2, SplitInvStep, ParseInvStep, PTL DEF Spec

-----------------------------------------------------------------------------
(***************************************************************************)
(* The cast.  A word is cut into P = Base^k high values and Q low ones:    *)
(* shifting left by k bytes drops the high part, shifting right brings     *)
(* the low part back.                                                      *)
(***************************************************************************)
\* A shift to the left by k bytes keeps the 8 - k low ones.
LEMMA LeftShift ==
  ASSUME NEW P \in Nat \ {0}, NEW Q \in Nat \ {0}, NEW w \in Nat
  PROVE  /\ (w * P) % (P * Q) = (w % Q) * P
         /\ w % Q \in 0..(Q - 1)
<1> DEFINE q == w \div Q
           low == w % Q
<1>1. q \in Nat /\ low \in 0..(Q - 1) /\ w = (Q * q) + low
  OBVIOUS
<1> HIDE DEF q, low
<1>2. P * Q \in Nat \ {0} /\ low * P \in Nat /\ (P * Q) * q \in Nat
  BY <1>1
<1>3. w * P = ((P * Q) * q) + (low * P)
  BY <1>1
<1>4. low * P < P * Q
  BY <1>1
<1>5. low * P \in 0..((P * Q) - 1)
  BY <1>2, <1>4
<1>6. (w * P) % (P * Q) = low * P
  <2> DEFINE M == P * Q
             x == low * P
  <2>1. M \in Nat \ {0} /\ q \in Int /\ x \in 0..(M - 1) /\ w * P = (M * q) + x
    BY <1>1, <1>2, <1>3, <1>5
  <2> HIDE DEF M, x
  <2>2. ((M * q) + x) % M = x
    BY <2>1, ModUnique
  <2>3. (w * P) % M = x
    BY <2>1, <2>2
  <2> QED BY <2>3 DEF M, x
<1> QED BY <1>1, <1>6 DEF low

\* A shift to the right by as many bytes takes the factor away again.
LEMMA RightShift ==
  ASSUME NEW P \in Nat \ {0}, NEW Q \in Nat \ {0}, NEW low \in Nat
  PROVE  /\ (low * P) \div P = low
         /\ 2 * (low * P) < P * Q <=> 2 * low < Q
OBVIOUS

\* The bit shift of a size up to a word is the number of bytes above it.
LEMMA ShiftOfSize ==
  ASSUME NEW size \in (-8..8) \ {0}
  PROVE  Abs(size) \in 1..8 /\ Bytes(bitshift(size)) = 8 - Abs(size)
<1>1. Abs(size) \in 1..8
  BY DEF Abs
<1>2. \A n \in 1..8 : (Int8(64 - n * 8) % 64) \div 8 = 8 - n
  BY DEF Int8
<1> QED BY <1>1, <1>2 DEF Bytes, bitshift

\* The cast at the end of bpf_usdt_arg: with the bit shift and the sign that
\* ParseUSDTArgSpec records for a size, the two shifts keep exactly that many bytes of
\* any word and widen them by their sign.
THEOREM CastWidens ==
  ASSUME PowersOf(Base, 8), NEW w \in 0..(Word - 1), NEW size \in (-8..8) \ {0}, NEW a,
         a.signed = (size < 0), a.bitshift = bitshift(size)
  PROVE  cast(w, a) = Widened(w % Base^Abs(size), size)
<1> DEFINE k == 8 - Abs(size)
           P == Base^k
           Q == Base^Abs(size)
           low == w % Q
<1>1. Abs(size) \in 1..8 /\ Bytes(a.bitshift) = k /\ k \in 0..8 /\ 8 - k = Abs(size)
  BY ShiftOfSize
<1>2. P \in Nat \ {0} /\ Q \in Nat \ {0} /\ Word = P * Q
  <2>1. /\ \A j \in 0..8 : Base^j \in Nat \ {0}
        /\ \A j \in 0..8 : Base^j * Base^(8 - j) = Base^8
    BY Bounds, PowersPositive, PowersComplement
  <2>2. Abs(size) \in 0..8
    BY <1>1
  <2> QED BY <1>1, <2>1, <2>2, Zenon DEF Word
<1>3. w \in Nat
  BY <1>2
<1>4. shl(w, k) = low * P /\ low \in 0..(Q - 1)
  <2> HIDE DEF P, Q, k
  <2>1. (w * P) % (P * Q) = low * P /\ low \in 0..(Q - 1)
    BY <1>2, <1>3, LeftShift
  <2> QED BY <1>2, <2>1 DEF shl, P
<1>5. shr(low * P, k) = low /\ (2 * (low * P) < Word <=> 2 * low < Q)
  <2> HIDE DEF P, Q, k, low
  <2>1. low \in Nat
    BY <1>2, <1>4
  <2>2. (low * P) \div P = low /\ (2 * (low * P) < P * Q <=> 2 * low < Q)
    BY <1>2, <2>1, RightShift
  <2> QED BY <1>2, <2>2 DEF shr, P
<1>6. Widened(low, size) = IF size < 0 /\ 2 * low >= Q THEN low + Word - Q ELSE low
  BY DEF Widened
<1>7. sar(low * P, k) = IF 2 * low < Q THEN low ELSE low + Word - Q
  <2>1. Base^(8 - k) = Q
    BY <1>1
  <2> QED BY <1>5, <2>1 DEF sar
<1>8. cast(w, a) = IF size < 0 THEN sar(low * P, k) ELSE shr(low * P, k)
  BY <1>1, <1>4 DEF cast
<1>9. 2 * low >= Q <=> ~(2 * low < Q)
  BY <1>2, <1>4
<1> QED BY <1>5, <1>6, <1>7, <1>8, <1>9

-----------------------------------------------------------------------------
(***************************************************************************)
(* Parsing one argument.  Only the tokens of a spelling parse, and they    *)
(* parse to what they spell.                                               *)
(***************************************************************************)
NumberOf(toks, p) == IF p.num = 0 THEN 0 ELSE toks[p.num].n

RegsOf(ar, toks, p) ==
  IF p.name = 0 THEN {RegNone}
  ELSE IF toks[p.name].t = "name" THEN lookupRegister(ar, toks[p.name].s) ELSE {}

SpecOfTokens(toks, p, id) ==
  [type |-> GoArgType[p.type], val_off |-> NumberOf(toks, p) % Word, reg |-> id,
   signed |-> toks[1].n < 0, float |-> toks[1].f, bitshift |-> bitshift(toks[1].n)]

\* The first pattern that matches decides.
LEMMA ParseBy ==
  ASSUME NEW ar, NEW arg
  PROVE  ParseUSDTArgSpec(ar, arg) =
           UNION {{SpecOfTokens(NoSpace(arg), p, id) :
                     id \in {i \in RegsOf(ar, NoSpace(arg), p) :
                               IsInt64(NoSpace(arg)[1].n) /\ IsInt64(NumberOf(NoSpace(arg), p))}}
                  : p \in FirstMatch(NoSpace(arg))}
BY DEF ParseUSDTArgSpec, SpecOfTokens, RegsOf, NumberOf

\* Two patterns of one length differ in their second token.
LEMMA PatternsDiffer ==
  /\ DOMAIN Patterns = 1..8
  /\ \A j \in 1..8 : /\ DOMAIN Patterns[j].regex = 1..Len(Patterns[j].regex)
                      /\ Len(Patterns[j].regex) \in 2..6
  /\ \A i, j \in 1..8 :
       i < j /\ Len(Patterns[i].regex) = Len(Patterns[j].regex) =>
         Patterns[i].regex[2] # "name" /\ Patterns[i].regex[2] # Patterns[j].regex[2]
<1> DEFINE L(j) == Len(Patterns[j].regex)
           K(j) == Patterns[j].regex[2]
<1>1. L(1) = 6 /\ L(2) = 6 /\ L(3) = 5 /\ L(4) = 4 /\ L(5) = 3 /\ L(6) = 2 /\ L(7) = 3 /\ L(8) = 2
  BY DEF Patterns
<1>2. /\ K(1) = "num" /\ K(2) = "lb" /\ K(5) = "dollar" /\ K(6) = "num"
      /\ K(7) = "pct" /\ K(8) = "name"
  BY DEF Patterns
<1>3. /\ DOMAIN Patterns = 1..8
      /\ \A j \in 1..8 : DOMAIN Patterns[j].regex = 1..Len(Patterns[j].regex)
  BY DEF Patterns
<1> HIDE DEF L, K
<1>4. \A j \in 1..8 : L(j) \in 2..6
  BY <1>1
<1>5. ASSUME NEW i \in 1..8, NEW j \in 1..8, i < j, L(i) = L(j)
      PROVE  K(i) # "name" /\ K(i) # K(j)
  <2>1. (i = 1 /\ j = 2) \/ (i = 5 /\ j = 7) \/ (i = 6 /\ j = 8)
    BY <1>1, <1>5
  <2> QED BY <1>2, <2>1
<1> QED BY <1>3, <1>4, <1>5 DEF L, K

\* Tokens of the kinds of a pattern match none before it.
LEMMA EarlierPatterns ==
  ASSUME NEW toks, NEW j \in 1..8, HasKinds(toks, Patterns[j].regex)
  PROVE  /\ Match(Patterns[j].regex, toks)
         /\ \A i \in 1..8 : i < j => ~Match(Patterns[i].regex, toks)
<1> DEFINE R(i) == Patterns[i].regex
<1>1. \A i \in 1..8 : DOMAIN R(i) = 1..Len(R(i)) /\ 2 \in DOMAIN R(i)
  <2>1. \A n \in 2..6 : 2 \in 1..n
    OBVIOUS
  <2> QED BY <2>1, PatternsDiffer
<1>2. ASSUME NEW i \in 1..8, i < j, Match(R(i), toks) PROVE FALSE
  <2>1. Len(R(i)) = Len(R(j)) /\ toks[2].t = R(j)[2]
    BY <1>1, <1>2 DEF Match, HasKinds
  <2>2. R(i)[2] # "name" /\ R(i)[2] # R(j)[2]
    BY <1>2, <2>1, PatternsDiffer
  <2>3. toks[2].t = R(i)[2]
    BY <1>1, <1>2, <2>2 DEF Match, IsA
  <2> QED BY <2>1, <2>2, <2>3
<1>3. Match(R(j), toks)
  BY DEF HasKinds, Match, IsA
<1> QED BY <1>2, <1>3

\* Tokens that have the kinds of a pattern are taken by that pattern.
LEMMA FirstMatchIs ==
  ASSUME NEW toks, NEW j \in 1..8, HasKinds(toks, Patterns[j].regex)
  PROVE  FirstMatch(toks) = {Patterns[j]}
<1> DEFINE hits == {i \in DOMAIN Patterns : Match(Patterns[i].regex, toks)}
<1>1. DOMAIN Patterns = 1..8
  BY DEF Patterns
<1>2. j \in hits /\ \A i \in hits : i \in 1..8 /\ ~(i < j)
  BY <1>1, EarlierPatterns
<1>3. hits \in SUBSET Nat /\ hits # {}
  BY <1>2
<1>4. FirstMatch(toks) = IF hits = {} THEN {} ELSE {Patterns[Min(hits)]}
  BY DEF FirstMatch
<1> HIDE DEF hits
<1>5. Min(hits) \in hits /\ \A y \in hits : Min(hits) <= y
  BY <1>3, MinPicks
<1>6. Min(hits) = j
  <2>1. Min(hits) <= j /\ Min(hits) \in 1..8 /\ ~(Min(hits) < j)
    BY <1>2, <1>5
  <2> QED BY <2>1
<1> QED BY <1>3, <1>4, <1>6

\* A pattern whose name is no number is one of the spellings.
LEMMA OnlySpellings ==
  ASSUME NEW toks, NEW j \in 1..8, Match(Patterns[j].regex, toks),
         Patterns[j].name = 0 \/ toks[Patterns[j].name].t = "name"
  PROVE  HasKinds(toks, Patterns[j].regex)
<1>1. \A i \in DOMAIN Patterns[j].regex : Patterns[j].regex[i] = "name" <=> i = Patterns[j].name
  BY DEF Patterns
<1> QED BY <1>1 DEF Match, HasKinds, IsA

\* What the parser makes of each form.
TypeOf(form) == IF form \in {"const", "bare"} THEN "const" ELSE IF form = "reg" THEN "reg" ELSE "deref"

\* The IDs of the register of an argument, and the spec of the argument.
IDs(ar, a) == IF a.form \in {"const", "bare"} THEN {RegNone} ELSE lookupRegister(ar, a.name)

SpecFor(a, float, id) ==
  [type |-> GoArgType[TypeOf(a.form)], val_off |-> a.off % Word, reg |-> id,
   signed |-> a.size < 0, float |-> float, bitshift |-> bitshift(a.size)]

\* A pattern fits a form: it has its type and finds its number and its name.
Suits(p, form) ==
  /\ p.type = TypeOf(form) /\ p.regex[1] = "sz" /\ 1 \in 1..Len(p.regex)
  /\ form \in {"reg", "deref"} => p.num = 0
  /\ form \notin {"reg", "deref"} => p.num # 0 /\ p.num \in 1..Len(p.regex) /\ p.regex[p.num] = "num"
  /\ form \in {"const", "bare"} => p.name = 0
  /\ form \notin {"const", "bare"} =>
       p.name # 0 /\ p.name \in 1..Len(p.regex) /\ p.regex[p.name] = "name"

\* The patterns are the spellings.
LEMMA SpellingsArePatterns ==
  /\ \A form \in Forms : \A kinds \in Spellings[form] :
       \E j \in 1..8 : kinds = Patterns[j].regex /\ Suits(Patterns[j], form)
  /\ \A j \in 1..8 : \E form \in Forms : Patterns[j].regex \in Spellings[form]
<1> DEFINE F == <<"derefoff", "derefoff", "deref", "deref", "const", "bare", "reg", "reg">>
<1>1. \A j \in 1..8 : F[j] \in Forms /\ Patterns[j].regex \in Spellings[F[j]]
  BY DEF Patterns, Spellings, Forms
<1>2. ASSUME NEW j \in 1..8 PROVE Suits(Patterns[j], F[j])
  <2> USE DEF Suits, TypeOf, Patterns
  <2>1. CASE j = 1
    BY <2>1
  <2>2. CASE j = 2
    BY <2>2
  <2>3. CASE j \in {3, 4}
    BY <2>3
  <2>4. CASE j = 5
    BY <2>4
  <2>5. CASE j = 6
    BY <2>5
  <2>6. CASE j \in {7, 8}
    BY <2>6
  <2> HIDE DEF Suits, TypeOf, Patterns
  <2> QED BY <2>1, <2>2, <2>3, <2>4, <2>5, <2>6
<1>3. ASSUME NEW form \in Forms, NEW kinds \in Spellings[form]
      PROVE  \E j \in 1..8 : kinds = Patterns[j].regex /\ form = F[j]
  BY DEF Patterns, Spellings, Forms
<1> HIDE DEF F
<1> QED BY <1>1, <1>2, <1>3

\* The text of an argument parses to that argument if its numbers fit a word.
ParsesTo(ar, arg, a) ==
  ParseUSDTArgSpec(ar, arg) =
    {SpecFor(a, NoSpace(arg)[1].f, id) :
       id \in {i \in IDs(ar, a) : IsInt64(a.size) /\ IsInt64(a.off)}}

\* A run that spells an argument parses to it, if its numbers and its register do.
LEMMA SpelledParses ==
  ASSUME NEW ar, NEW arg, NEW a, IsArgument(a), Spells(NoSpace(arg), a)
  PROVE  ParsesTo(ar, arg, a)
<1> DEFINE toks == NoSpace(arg)
<1>1. PICK kinds \in Spellings[a.form] : HasKinds(toks, kinds)
  BY DEF Spells
<1>2. a.form \in Forms /\ (a.form \in {"reg", "deref"} => a.off = 0)
  BY DEF IsArgument
<1>3. PICK j \in 1..8 : kinds = Patterns[j].regex /\ Suits(Patterns[j], a.form)
  BY <1>1, <1>2, SpellingsArePatterns
<1> DEFINE p == Patterns[j]
<1>4. FirstMatch(toks) = {p}
  BY <1>1, <1>3, FirstMatchIs
<1>5. /\ Len(toks) = Len(p.regex) /\ \A i \in 1..Len(p.regex) : toks[i].t = p.regex[i]
  BY <1>1, <1>3, PatternsDiffer DEF HasKinds
<1>6. \A i \in 1..Len(p.regex) :
        /\ p.regex[i] = "sz" => toks[i].n = a.size
        /\ p.regex[i] = "num" => toks[i].n = a.off
        /\ p.regex[i] = "name" => toks[i].t = "name" /\ toks[i].s = a.name
  BY <1>5 DEF Spells
<1>7. Suits(p, a.form)
  BY <1>3
<1> HIDE DEF toks, p
<1>8. toks[1].n = a.size
  BY <1>6, <1>7 DEF Suits
<1>9. NumberOf(toks, p) = a.off
  BY <1>2, <1>6, <1>7 DEF Suits, NumberOf
<1>10. RegsOf(ar, toks, p) = IDs(ar, a)
  BY <1>6, <1>7 DEF Suits, RegsOf, IDs
<1>11. \A id : SpecOfTokens(toks, p, id) = SpecFor(a, toks[1].f, id)
  BY <1>7, <1>8, <1>9 DEF Suits, SpecOfTokens, SpecFor
<1>12. ParseUSDTArgSpec(ar, arg) =
         UNION {{SpecOfTokens(toks, q, id) :
                   id \in {i \in RegsOf(ar, toks, q) : IsInt64(toks[1].n) /\ IsInt64(NumberOf(toks, q))}}
                : q \in FirstMatch(toks)}
  BY ParseBy DEF toks
<1>13. ParseUSDTArgSpec(ar, arg) =
         {SpecOfTokens(toks, p, id) :
            id \in {i \in RegsOf(ar, toks, p) : IsInt64(toks[1].n) /\ IsInt64(NumberOf(toks, p))}}
  BY <1>4, <1>12
<1> QED BY <1>8, <1>9, <1>10, <1>11, <1>13 DEF toks, ParsesTo

\* A run that parses is spelled.
LEMMA ParsedIsSpelled ==
  ASSUME NEW ar, NEW arg, ParseUSDTArgSpec(ar, arg) # {}
  PROVE  ~SpellsNothing(NoSpace(arg))
<1> DEFINE toks == NoSpace(arg)
           hits == {i \in DOMAIN Patterns : Match(Patterns[i].regex, toks)}
<1>1. PICK p \in FirstMatch(toks) : RegsOf(ar, toks, p) # {}
  BY ParseBy
<1>2. hits # {} /\ p = Patterns[Min(hits)]
  BY <1>1 DEF FirstMatch
<1>3. hits \in SUBSET Nat /\ hits \in SUBSET (1..8)
  BY PatternsDiffer
<1> DEFINE j == Min(hits)
<1>4. j \in hits
  <2> HIDE DEF hits
  <2> QED BY <1>2, <1>3, MinPicks
<1>5. j \in 1..8 /\ Match(Patterns[j].regex, toks)
  BY <1>3, <1>4
<1> HIDE DEF j, hits
<1>6. Patterns[j].name = 0 \/ toks[Patterns[j].name].t = "name"
  BY <1>1, <1>2 DEF RegsOf, j
<1>7. HasKinds(toks, Patterns[j].regex)
  BY <1>5, <1>6, OnlySpellings
<1> QED BY <1>5, <1>7, SpellingsArePatterns DEF SpellsNothing

-----------------------------------------------------------------------------
(***************************************************************************)
(* The arguments of a text.                                                *)
(***************************************************************************)
\* The arguments that splitUSDTArgs finds spell those of a list, in order; in other
\* text one of them spells nothing.
LEMMA RunsSpell ==
  ASSUME text \in Texts, ListsRuns(chars, args, AllRuns(chars))
  PROVE  /\ text.wellformed =>
              /\ Len(text.args) = Len(args) /\ Len(args) \in Nat /\ DOMAIN text.args = 1..Len(args)
              /\ \A k \in 1..Len(args) :
                   IsArgument(text.args[k]) /\ Spells(NoSpace(args[k]), text.args[k])
         /\ ~text.wellformed => \E k \in 1..Len(args) : SpellsNothing(NoSpace(args[k]))
<1> DEFINE F == AllRuns(chars)
           n == Len(chars)
<1>1. n \in Nat /\ F \in SUBSET (1..n)
  BY CharsAreTokens DEF AllRuns, Ends
<1> HIDE DEF F, n
<1>2. /\ Len(args) = Cardinality(F) /\ Len(args) \in Nat
      /\ \A e \in F : PlaceOf(F, e) \in 1..Len(args) /\ args[PlaceOf(F, e)] = Run(chars, e)
  BY <1>1, PlacesCounted DEF ListsRuns, PlaceOf, UpTo, F
<1>3. \A k \in 1..Len(args) : \E e \in F : PlaceOf(F, e) = k
  BY <1>1, <1>2, PlacesOnto DEF PlaceOf, UpTo
<1>4. /\ text.wellformed =>
           /\ Len(text.args) = Cardinality(F) /\ DOMAIN text.args = 1..Len(text.args)
           /\ \A e \in F : Spells(NoSpace(Run(chars, e)), text.args[PlaceOf(F, e)])
           /\ \A i \in DOMAIN text.args : IsArgument(text.args[i])
      /\ ~text.wellformed => \E e \in F : SpellsNothing(NoSpace(Run(chars, e)))
  BY TextsAreWritten, Zenon DEF chars, F
<1> QED BY <1>2, <1>3, <1>4

\* Sizes up to a word are 64-bit integers.
LEMMA SizesAreInt64 ==
  ASSUME PowersOf(Base, 8), NEW size \in (-8..8) \ {0}
  PROVE  IsInt64(size)
<1>1. Base \in Nat /\ Base >= 2
  BY ArgBounds
<1> DEFINE P(k) == Base^k
<1>2. P(0) = 1 /\ \A k \in 0..7 : P(k + 1) = Base * P(k)
  BY DEF PowersOf
<1>3. \A k \in 0..8 : P(k) \in Nat
  BY Bounds, PowersPositive
<1> HIDE DEF P
<1>4. ASSUME NEW k \in 0..7 PROVE P(k + 1) >= 2 * P(k)
  <2> DEFINE u == P(k)
  <2>1. u \in Nat /\ P(k + 1) = Base * u
    BY <1>2, <1>3
  <2> HIDE DEF u
  <2>2. Base * u >= 2 * u
    BY <1>1, <2>1
  <2> QED BY <2>1, <2>2 DEF u
<1>5. P(4) >= 16
  BY <1>2, <1>3, <1>4
<1>6. P(8) >= 256
  BY <1>3, <1>4, <1>5
<1>7. Word >= 256 /\ Word \in Nat
  BY <1>3, <1>6 DEF P, Word
<1> QED BY <1>7 DEF IsInt64

-----------------------------------------------------------------------------
(***************************************************************************)
(* Registers.                                                              *)
(***************************************************************************)
\* The number of registers of an architecture.
RowsOf(ar) == IF ar = "amd64" THEN 17 ELSE 33

\* The fields of the C side are the registers there are, the rows of the parser hold
\* their names, in the order of the fields, and no name is in two rows.
TablesAgree(names, fields, registers, n) ==
  /\ DOMAIN names = 1..n /\ DOMAIN fields = 1..n
  /\ DOMAIN registers = {fields[i] : i \in 1..n}
  /\ \A i \in 1..n : names[i] = registers[fields[i]]
  /\ \A i, j \in 1..n : \A nm \in names[i] : nm \in names[j] => i = j

\* The tables of the parser and of the C side agree with the names that registers
\* have.
LEMMA RegisterTables ==
  ASSUME NEW ar \in Archs
  PROVE  TablesAgree(RegNames[ar], RegFields[ar], Registers[ar], RowsOf(ar))
<1>1. TablesAgree(X86Names, X86Fields, X86Registers, 17)
  <2>1. DOMAIN X86Names = 1..17 /\ DOMAIN X86Fields = 1..17
    BY DEF X86Names, X86Fields
  <2>2. DOMAIN X86Registers = {X86Fields[i] : i \in 1..17}
    BY SMTT(120) DEF X86Fields, X86Registers
  <2>3. \A i \in 1..17 : X86Names[i] = X86Registers[X86Fields[i]]
    BY SMTT(120) DEF X86Names, X86Fields, X86Registers
  <2>4. \A i, j \in 1..17 : \A nm \in X86Names[i] : nm \in X86Names[j] => i = j
    BY SMTT(120) DEF X86Names
  <2> QED BY <2>1, <2>2, <2>3, <2>4 DEF TablesAgree
<1>2. TablesAgree(ARM64Names, ARM64Fields, ARM64Registers, 33)
  <2>1. DOMAIN ARM64Names = 1..33 /\ DOMAIN ARM64Fields = 1..33
    BY DEF ARM64Names, ARM64Fields
  <2>2. DOMAIN ARM64Registers = {ARM64Fields[i] : i \in 1..33}
    BY SMTT(120) DEF ARM64Fields, ARM64Registers
  <2>3. \A i \in 1..33 : ARM64Names[i] = ARM64Registers[ARM64Fields[i]]
    <3> DEFINE R(i) == ARM64Names[i] = ARM64Registers[ARM64Fields[i]]
    <3>1. /\ R(1) /\ R(2) /\ R(3) /\ R(4) /\ R(5) /\ R(6) /\ R(7) /\ R(8)
          /\ R(9) /\ R(10) /\ R(11) /\ R(12) /\ R(13) /\ R(14) /\ R(15) /\ R(16)
          /\ R(17) /\ R(18) /\ R(19) /\ R(20) /\ R(21) /\ R(22) /\ R(23) /\ R(24)
          /\ R(25) /\ R(26) /\ R(27) /\ R(28) /\ R(29) /\ R(30) /\ R(31) /\ R(32)
          /\ R(33)
      BY SMTT(120) DEF ARM64Names, ARM64Fields, ARM64Registers
    <3> HIDE DEF R
    <3>2. \A i \in 1..33 : R(i)
      BY <3>1
    <3> QED BY <3>2 DEF R
  <2>4. \A i, j \in 1..33 : \A nm \in ARM64Names[i] : nm \in ARM64Names[j] => i = j
    BY SMTT(120) DEF ARM64Names
  <2> QED BY <2>1, <2>2, <2>3, <2>4 DEF TablesAgree
<1>3. CASE ar = "amd64"
  BY <1>1, <1>3 DEF RegNames, RegFields, Registers, RowsOf
<1>4. CASE ar = "arm64"
  BY <1>2, <1>4 DEF RegNames, RegFields, Registers, RowsOf
<1> QED BY <1>3, <1>4 DEF Archs

\* The parser knows exactly the names that registers have.
LEMMA KnownNames ==
  ASSUME arch \in Archs, NEW nm
  PROVE  lookupRegister(arch, nm) # {} <=> \E f \in DOMAIN Registers[arch] : nm \in Registers[arch][f]
<1> DEFINE n == RowsOf(arch)
<1>1. lookupRegister(arch, nm) # {} <=> \E i \in 1..n : nm \in RegNames[arch][i]
  <2>1. DOMAIN RegNames[arch] = 1..n
    BY RegisterTables DEF TablesAgree
  <2> QED BY <2>1 DEF lookupRegister
<1> QED BY <1>1, RegisterTables DEF TablesAgree

\* ParseUSDTArguments accepts every list that was written down correctly, has at most
\* MaxArgs arguments and names registers it knows, and nothing else.
THEOREM AcceptsExactlyHolds ==
  ASSUME PowersOf(Base, 8), WordSized
  PROVE  Spec => []AcceptsExactly
<1>1. Init => SplitInv /\ ParseInv
  BY DEF Init, SplitInv, SplitStarts, SplitAt, ParseInv, SpecStarts, ArgsCut, ParseAt,
     Accepted, Rejected
<1>2. ASSUME SplitInv, ParseInv PROVE AcceptsExactly
  <2>1. text \in Texts /\ text.arch = arch
    BY <1>2 DEF SplitInv, arch
  <2>2. ASSUME pc \in {"ok", "error"} PROVE args \in Seq(Seq(Token)) /\ ListsRuns(chars, args, AllRuns(chars))
    BY <1>2, <2>2 DEF ParseInv, ArgsCut
  <2>3. ASSUME pc = "ok"
        PROVE  /\ text.wellformed
               /\ Len(args) = Len(text.args) /\ Len(spec) = Len(text.args)
               /\ Len(text.args) <= MaxArgs /\ \A i \in DOMAIN text.args : Supported(text.args[i])
    <3>1. /\ ListsRuns(chars, args, AllRuns(chars)) /\ Len(args) <= MaxArgs /\ Len(spec) = Len(args)
          /\ \A k \in 1..Len(args) : ParseUSDTArgSpec(arch, args[k]) # {}
      BY <1>2, <2>2, <2>3 DEF ParseInv, Accepted, Parsed
    <3>2. text.wellformed
      BY <2>1, <3>1, RunsSpell, ParsedIsSpelled
    <3>3. /\ Len(text.args) = Len(args) /\ DOMAIN text.args = 1..Len(args)
          /\ \A k \in 1..Len(args) : IsArgument(text.args[k]) /\ Spells(NoSpace(args[k]), text.args[k])
      BY <2>1, <3>1, <3>2, RunsSpell
    <3>4. ASSUME NEW k \in 1..Len(args) PROVE Supported(text.args[k])
      <4>1. ParsesTo(arch, args[k], text.args[k])
        BY <3>3, SpelledParses
      <4>2. IDs(arch, text.args[k]) # {}
        BY <3>1, <4>1 DEF ParsesTo
      <4> QED BY <2>1, <4>2, KnownNames, TextsAreTokens DEF IDs, Supported
    <3> QED BY <3>1, <3>2, <3>3, <3>4
  <2>4. ASSUME pc = "error", text.wellformed
        PROVE  \/ Len(text.args) > MaxArgs
               \/ \E i \in DOMAIN text.args : ~Supported(text.args[i]) \/ ~IsInt64(text.args[i].off)
    <3>1. /\ Len(text.args) = Len(args) /\ Len(args) \in Nat /\ DOMAIN text.args = 1..Len(args)
          /\ \A k \in 1..Len(args) : IsArgument(text.args[k]) /\ Spells(NoSpace(args[k]), text.args[k])
      BY <2>1, <2>2, <2>4, RunsSpell
    <3>2. DOMAIN args = 1..Len(args)
      BY <2>2, <2>4
    <3>3. Len(args) > MaxArgs \/ \E k \in 1..Len(args) : ParseUSDTArgSpec(arch, args[k]) = {}
      BY <1>2, <2>4, <3>2 DEF ParseInv, Rejected, Refused
    <3>4. ASSUME NEW k \in 1..Len(args), ParseUSDTArgSpec(arch, args[k]) = {}
          PROVE  ~Supported(text.args[k]) \/ ~IsInt64(text.args[k].off)
      <4>1. ParsesTo(arch, args[k], text.args[k])
        BY <3>1, SpelledParses
      <4>2. IsInt64(text.args[k].size)
        BY <2>1, <3>1, SizesAreInt64 DEF WordSized
      <4>3. IDs(arch, text.args[k]) = {} \/ ~IsInt64(text.args[k].off)
        BY <3>4, <4>1, <4>2 DEF ParsesTo
      <4> QED BY <2>1, <4>3, KnownNames, TextsAreTokens DEF IDs, Supported
    <3> QED BY <3>1, <3>3, <3>4
  <2> QED BY <2>3, <2>4 DEF AcceptsExactly
<1> QED BY <1>1, <1>2, SplitInvStep, ParseInvStep, PTL DEF Spec

\* The ID that ParseUSDTArgSpec finds for a name leads the BPF side to the field that
\* holds the register of that name.
LEMMA RegisterFound ==
  ASSUME arch \in Archs, NEW nm, NEW id \in lookupRegister(arch, nm)
  PROVE  /\ id \in 0..255 /\ get_reg_off(arch, id) = {FieldOf(nm)}
         /\ \E i \in DOMAIN RegFields[arch] : FieldOf(nm) = RegFields[arch][i]
<1> DEFINE n == RowsOf(arch)
           first == GoFirstReg[arch]
<1>1. /\ DOMAIN RegNames[arch] = 1..n /\ DOMAIN RegFields[arch] = 1..n
      /\ DOMAIN Registers[arch] = {RegFields[arch][i] : i \in 1..n}
      /\ \A i \in 1..n : RegNames[arch][i] = Registers[arch][RegFields[arch][i]]
      /\ \A i, j \in 1..n : \A x \in RegNames[arch][i] : x \in RegNames[arch][j] => i = j
  BY RegisterTables DEF TablesAgree
<1>2. n \in 1..33 /\ first \in 1..32 /\ CFirstReg[arch] = first
  BY DEF Archs, RowsOf, GoFirstReg, CFirstReg
<1> HIDE DEF n, first
<1>3. PICK i \in 1..n : nm \in RegNames[arch][i] /\ id = first + i - 1
  BY <1>1 DEF lookupRegister, first
<1>4. \A k \in 1..n : id = first + k - 1 <=> k = i
  BY <1>2, <1>3
<1>5. get_reg_off(arch, id) = {RegFields[arch][i]}
  <2>1. {k \in DOMAIN RegFields[arch] : id = CFirstReg[arch] + k - 1} = {i}
    <3>1. \A k \in DOMAIN RegFields[arch] : id = CFirstReg[arch] + k - 1 <=> k = i
      BY <1>1, <1>2, <1>4
    <3>2. i \in DOMAIN RegFields[arch]
      BY <1>1
    <3> DEFINE D == DOMAIN RegFields[arch]
               C(k) == id = CFirstReg[arch] + k - 1
    <3>3. i \in D /\ \A k \in D : C(k) <=> k = i
      BY <3>1, <3>2
    <3> HIDE DEF D, C
    <3>4. {k \in D : C(k)} = {i}
      BY <3>3
    <3> QED BY <3>4 DEF C, D
  <2> QED BY <2>1 DEF get_reg_off
<1>6. FieldOf(nm) = RegFields[arch][i]
  <2> DEFINE S == DOMAIN Registers[arch]
             Q(f) == nm \in Registers[arch][f]
  <2>1. RegFields[arch][i] \in S /\ Q(RegFields[arch][i])
    BY <1>1, <1>3
  <2>2. ASSUME NEW f \in S, Q(f) PROVE f = RegFields[arch][i]
    <3>1. PICK k \in 1..n : f = RegFields[arch][k]
      BY <1>1
    <3>2. k = i
      BY <1>1, <1>3, <2>2, <3>1
    <3> QED BY <3>1, <3>2
  <2>3. FieldOf(nm) = CHOOSE f \in S : Q(f)
    BY DEF FieldOf
  <2> HIDE DEF S, Q
  <2> QED BY <2>1, <2>2, <2>3
<1>7. id \in 0..255
  BY <1>2, <1>3
<1> QED BY <1>1, <1>5, <1>6, <1>7

-----------------------------------------------------------------------------
(***************************************************************************)
(* bpf_usdt_arg.  What it makes of the fields of an argument is what the   *)
(* argument means.                                                         *)
(***************************************************************************)
\* Reducing modulo a multiple first changes nothing.
LEMMA ModOfMod ==
  ASSUME NEW P \in Nat \ {0}, NEW Q \in Nat \ {0}, NEW x \in Int
  PROVE  (x % (P * Q)) % Q = x % Q
<1> DEFINE M == P * Q
           q == x \div M
           y == x % M
           h == y \div Q
           z == y % Q
<1>1. M \in Nat \ {0}
  OBVIOUS
<1>2. q \in Int /\ y \in Nat /\ x = (M * q) + y
  <2> HIDE DEF M
  <2> QED BY <1>1
<1> HIDE DEF q, y
<1>3. h \in Nat /\ z \in 0..(Q - 1) /\ y = (Q * h) + z
  BY <1>2
<1> HIDE DEF h, z
<1> DEFINE g == (P * q) + h
<1>4. g \in Int /\ x = (Q * g) + z
  BY <1>2, <1>3 DEF M
<1> HIDE DEF g
<1>5. x % Q = z
  BY <1>3, <1>4, ModUnique
<1> QED BY <1>5 DEF z, y, M

\* An offset is added to an address modulo the word either way.
LEMMA ModOfSum ==
  ASSUME NEW M \in Nat \ {0}, NEW r \in Int, NEW x \in Int
  PROVE  (r + (x % M)) % M = (r + x) % M
<1> DEFINE q == x \div M
           y == x % M
           h == (r + y) \div M
           z == (r + y) % M
<1>1. q \in Int /\ y \in Int /\ x = (M * q) + y
  OBVIOUS
<1> HIDE DEF q, y
<1>2. h \in Int /\ z \in 0..(M - 1) /\ r + y = (M * h) + z
  BY <1>1
<1> HIDE DEF h, z
<1> DEFINE g == q + h
<1>3. g \in Int /\ r + x = (M * g) + z
  BY <1>1, <1>2
<1> HIDE DEF g
<1>4. (r + x) % M = z
  BY <1>2, <1>3, ModUnique
<1> QED BY <1>4 DEF z, y

\* The word at an address, and its low bytes.
LEMMA WordAt ==
  ASSUME PowersOf(Base, 8), NEW m \in Memories, NEW x \in 0..(Word - 1), Mapped(m, x, 8),
         NEW size \in 1..8
  PROVE  /\ LittleEndian(m, x, 8) \in 0..(Word - 1)
         /\ LittleEndian(m, x, 8) % Base^size = LittleEndian(m, x, size)
<1> DEFINE d == [k \in 0..(8 - 1) |-> m[(x + k) % Word]]
           e == [k \in 0..(size - 1) |-> m[(x + k) % Word]]
<1>1. Word \in Nat \ {0} /\ Base \in Nat \ {0}
  BY Bounds, PowersPositive DEF Word
<1>2. ASSUME NEW k \in 0..7 PROVE d[k] \in 0..(Base - 1)
  <2> DEFINE y == (x + k) % Word
  <2>1. x \in Nat
    BY <1>1
  <2>2. y \in 0..(Word - 1)
    <3> HIDE DEF d, e
    <3> QED BY <1>1, <2>1
  <2>3. m[y] # Fault
    BY DEF Mapped
  <2>4. m[y] \in 0..(Base - 1)
    <3> HIDE DEF y
    <3> QED BY <2>2, <2>3, StatesOfPrograms
  <2>5. d[k] = m[y]
    OBVIOUS
  <2> QED BY <2>4, <2>5
<1>3. \A k \in 0..(size - 1) : e[k] = d[k]
  OBVIOUS
<1>4. LittleEndian(m, x, 8) = ValueOf(d, 8, Base) /\ LittleEndian(m, x, size) = ValueOf(e, size, Base)
  BY DEF LittleEndian
<1> HIDE DEF d, e
<1>5. size \in 0..8
  OBVIOUS
<1>6. ValueOf(d, 8, Base) \in 0..(Base^8 - 1) /\ ValueOf(d, 8, Base) % Base^size = ValueOf(e, size, Base)
  BY <1>1, <1>2, <1>3, <1>5, LowDigits
<1> QED BY <1>4, <1>6 DEF Word

\* The fields that bpf_usdt_arg reads for argument a, and a register file.
Decoded(r, a, id) ==
  /\ r.type = GoArgType[TypeOf(a.form)] /\ r.val_off = a.off % Word /\ r.reg = id
  /\ r.signed = (a.size < 0) /\ r.bitshift = bitshift(a.size)

HoldsWords(regs) == \A i \in DOMAIN RegFields[arch] : regs[RegFields[arch][i]] \in 0..(Word - 1)

\* The address of a dereference, and what bpf_usdt_arg returns as a set.
AddressOf(a, regs) == (regs[FieldOf(a.name)] + a.off) % Word
Unreadable(a, regs, mem) ==
  a.form \in {"deref", "derefoff"} /\ ~Mapped(mem, AddressOf(a, regs), 8)

Results(r, regs, mem) == {cast(w, r) : w \in RawValue(r, regs, mem)}

\* Decoded fields give the value of the argument, or nothing where memory cannot be
\* read.
LEMMA MeaningRead ==
  ASSUME PowersOf(Base, 8), arch \in Archs, NEW a, IsArgument(a), a.size \in (-8..8) \ {0},
         NEW id \in IDs(arch, a), NEW r, Decoded(r, a, id),
         NEW regs, HoldsWords(regs), NEW mem \in Memories
  PROVE  Results(r, regs, mem) =
           IF Unreadable(a, regs, mem) THEN {} ELSE {Meaning(a, regs, mem)}
<1> DEFINE size == Abs(a.size)
           f == FieldOf(a.name)
           x == AddressOf(a, regs)
           low(w) == w % Base^size
<1>1. /\ size \in 1..8 /\ size \in 0..8 /\ a.off \in Int /\ a.form \in Forms
      /\ a.form \in {"reg", "deref"} => a.off = 0
  BY ShiftOfSize DEF IsArgument
<1>2. Word \in Nat \ {0} /\ Base^size \in Nat \ {0} /\ Base^(8 - size) \in Nat \ {0}
      /\ Word = Base^(8 - size) * Base^size
  <2>1. /\ \A j \in 0..8 : Base^j \in Nat \ {0}
        /\ \A j \in 0..8 : Base^j * Base^(8 - j) = Base^8
    BY Bounds, PowersPositive, PowersComplement
  <2> HIDE DEF size
  <2>2. 8 - size \in 0..8 /\ 8 - (8 - size) = size
    BY <1>1
  <2>3. Base^size \in Nat \ {0} /\ Base^(8 - size) \in Nat \ {0}
    BY <1>1, <2>1, <2>2
  <2>4. Base^(8 - size) * Base^size = Base^8
    BY <2>1, <2>2
  <2>5. Base^8 \in Nat \ {0}
    BY <2>1
  <2> QED BY <2>3, <2>4, <2>5 DEF Word
<1>3. ASSUME NEW w \in 0..(Word - 1) PROVE cast(w, r) = Widened(low(w), a.size)
  BY CastWidens DEF Decoded
<1>4. a.form \in {"const", "bare", "reg", "deref", "derefoff"}
  BY <1>1 DEF Forms, Spellings
<1> HIDE DEF size, low
<1>5. CASE a.form \in {"const", "bare"}
  <2>1. r.type = CArgType.const
    BY <1>5 DEF Decoded, TypeOf, GoArgType, CArgType
  <2>2. RawValue(r, regs, mem) = {r.val_off}
    BY <2>1 DEF RawValue, CArgType
  <2> DEFINE w == a.off % Word
  <2>3. w \in 0..(Word - 1) /\ r.val_off = w
    BY <1>1, <1>2 DEF Decoded
  <2>4. low(w) = a.off % Base^size
    BY <1>1, <1>2, ModOfMod DEF low
  <2>5. cast(w, r) = Widened(a.off % Base^size, a.size)
    BY <1>3, <2>3, <2>4
  <2>6. Meaning(a, regs, mem) = Widened(a.off % Base^size, a.size)
    BY <1>5 DEF Meaning, size
  <2>7. ~Unreadable(a, regs, mem)
    BY <1>5 DEF Unreadable
  <2> HIDE DEF w
  <2> QED BY <2>2, <2>3, <2>5, <2>6, <2>7 DEF Results
<1>6. ASSUME a.form \in {"reg", "deref", "derefoff"}
      PROVE  get_reg_val(r.reg, regs) = {regs[f]} /\ regs[f] \in 0..(Word - 1) /\ regs[f] \in Int
  <2>1. r.reg = id /\ id \in lookupRegister(arch, a.name)
    BY <1>6 DEF Decoded, IDs
  <2>2. /\ get_reg_off(arch, id) = {f}
        /\ \E i \in DOMAIN RegFields[arch] : f = RegFields[arch][i]
    BY <2>1, RegisterFound
  <2> HIDE DEF f
  <2>3. get_reg_val(r.reg, regs) = {regs[f]} /\ regs[f] \in 0..(Word - 1)
    BY <2>1, <2>2 DEF get_reg_val, HoldsWords
  <2> QED BY <1>2, <2>3
<1>7. CASE a.form = "reg"
  <2>1. r.type = CArgType.reg
    BY <1>7 DEF Decoded, TypeOf, GoArgType, CArgType
  <2>2. RawValue(r, regs, mem) = {regs[f]}
    BY <1>6, <1>7, <2>1 DEF RawValue, CArgType
  <2>3. cast(regs[f], r) = Widened(regs[f] % Base^size, a.size)
    BY <1>3, <1>6, <1>7 DEF low
  <2>4. Meaning(a, regs, mem) = Widened(regs[f] % Base^size, a.size)
    BY <1>7 DEF Meaning, size
  <2>5. ~Unreadable(a, regs, mem)
    BY <1>7 DEF Unreadable
  <2> HIDE DEF f
  <2> QED BY <2>2, <2>3, <2>4, <2>5 DEF Results
<1>8. CASE a.form \in {"deref", "derefoff"}
  <2>1. r.type = CArgType.deref
    BY <1>8 DEF Decoded, TypeOf, GoArgType, CArgType
  <2>2. (regs[f] + r.val_off) % Word = x /\ x \in 0..(Word - 1)
    <3>1. regs[f] \in Int /\ r.val_off = a.off % Word
      BY <1>6, <1>8 DEF Decoded
    <3> HIDE DEF f
    <3>2. (regs[f] + (a.off % Word)) % Word = (regs[f] + a.off) % Word
      BY <1>1, <1>2, <3>1, ModOfSum
    <3>3. (regs[f] + a.off) % Word \in 0..(Word - 1)
      BY <1>1, <1>2, <3>1
    <3>4. x = (regs[f] + a.off) % Word
      BY DEF AddressOf, f
    <3> QED BY <3>1, <3>2, <3>3, <3>4
  <2>3. {(q + r.val_off) % Word : q \in get_reg_val(r.reg, regs)} = {x}
    BY <1>6, <1>8, <2>2
  <2> HIDE DEF x, f
  <2>4. RawValue(r, regs, mem) = {LittleEndian(mem, y, 8) : y \in {z \in {x} : Mapped(mem, z, 8)}}
    BY <2>1, <2>3 DEF RawValue, CArgType
  <2>5. CASE Mapped(mem, x, 8)
    <3> DEFINE w == LittleEndian(mem, x, 8)
    <3>1. w \in 0..(Word - 1) /\ low(w) = LittleEndian(mem, x, size)
      BY <1>1, <2>2, <2>5, WordAt DEF low
    <3>2. RawValue(r, regs, mem) = {w}
      BY <2>4, <2>5
    <3>3. cast(w, r) = Widened(LittleEndian(mem, x, size), a.size)
      BY <1>3, <3>1
    <3>4. Meaning(a, regs, mem) = Widened(LittleEndian(mem, x, size), a.size)
      BY <1>8 DEF Meaning, size, x, AddressOf
    <3>5. ~Unreadable(a, regs, mem)
      BY <2>5 DEF Unreadable, x
    <3> HIDE DEF w
    <3> QED BY <3>2, <3>3, <3>4, <3>5 DEF Results
  <2>6. CASE ~Mapped(mem, x, 8)
    <3>1. RawValue(r, regs, mem) = {}
      BY <2>4, <2>6
    <3>2. Unreadable(a, regs, mem)
      BY <1>8, <2>6 DEF Unreadable, x
    <3> QED BY <3>1, <3>2 DEF Results
  <2> QED BY <2>5, <2>6
<1> QED BY <1>4, <1>5, <1>7, <1>8

-----------------------------------------------------------------------------
(***************************************************************************)
(* A probe fires.  The map element holds the bytes of the spec, which the  *)
(* BPF side reads back argument by argument.                               *)
(***************************************************************************)
Sent == pc = "ok" => bytes = SpecToBytes(spec, Len(args))
Waits == pc # "ok" => fetch = NoFetch

FetchInv == Sent /\ Waits /\ FetchMeansText

\* What ParseUSDTArgSpec makes of an argument fits into its fields.
LEMMA SpecForFits ==
  ASSUME PowersOf(Base, 8), arch \in Archs, NEW a, IsArgument(a), NEW fl,
         NEW id \in IDs(arch, a)
  PROVE  ArgSpecOK(SpecFor(a, fl, id))
<1> DEFINE s == SpecFor(a, fl, id)
<1>1. a.form \in Forms /\ a.size \in Int /\ a.off \in Int
  BY DEF IsArgument
<1>2. s.type \in 0..2
  BY <1>1 DEF SpecFor, TypeOf, GoArgType, Forms, Spellings
<1>3. s.val_off \in 0..(Base^8 - 1)
  <2>1. Base^8 \in Nat \ {0}
    BY Bounds, PowersPositive
  <2>2. s.val_off = a.off % Base^8
    BY DEF SpecFor, Word
  <2> HIDE DEF s
  <2> QED BY <1>1, <2>1, <2>2
<1>4. s.reg \in 0..255
  <2>1. CASE id \in lookupRegister(arch, a.name)
    BY <2>1, RegisterFound DEF SpecFor
  <2>2. CASE id = RegNone
    BY <2>2 DEF SpecFor, RegNone
  <2> QED BY <2>1, <2>2 DEF IDs
<1>5. s.signed \in BOOLEAN
  BY <1>1 DEF SpecFor
<1>6. s.bitshift \in -128..127
  <2> DEFINE z == 64 - Abs(a.size) * 8 + 128
  <2>1. z \in Int
    BY <1>1 DEF Abs
  <2>2. s.bitshift = (z % 256) - 128
    BY DEF SpecFor, bitshift, Int8
  <2> HIDE DEF z, s
  <2> QED BY <2>1, <2>2
<1> QED BY <1>2, <1>3, <1>4, <1>5, <1>6 DEF ArgSpecOK

\* The bytes in the map decode to argument k of the text.
Readable(k) ==
  /\ IsArgument(text.args[k]) /\ text.args[k].size \in (-8..8) \ {0}
  /\ \E id \in IDs(arch, text.args[k]) : Decoded(ReadArg(bytes, k - 1), text.args[k], id)

\* Once a list is accepted, the bytes in the map decode to its arguments.
LEMMA BytesDecode ==
  ASSUME PowersOf(Base, 8), WordSized, SplitInv, ParseInv, Sent, pc = "ok"
  PROVE  /\ Len(args) \in Nat /\ Len(args) <= MaxArgs /\ Len(text.args) = Len(args)
         /\ ReadCnt(bytes) = Len(args)
         /\ \A k \in 1..Len(args) : Readable(k)
<1> DEFINE n == Len(args)
<1>1. text \in Texts /\ arch \in Archs
  BY TextsAreTokens DEF SplitInv, arch
<1>2. /\ args \in Seq(Seq(Token)) /\ ListsRuns(chars, args, AllRuns(chars)) /\ n <= MaxArgs
      /\ Len(spec) = n /\ \A k \in 1..n : spec[k] \in ParseUSDTArgSpec(arch, args[k])
  BY DEF ParseInv, ArgsCut, Accepted, Parsed
<1>3. \A k \in 1..n : ParseUSDTArgSpec(arch, args[k]) # {}
  BY <1>2
<1>4. text.wellformed
  BY <1>1, <1>2, <1>3, RunsSpell, ParsedIsSpelled
<1>5. /\ Len(text.args) = n /\ n \in Nat /\ DOMAIN text.args = 1..n
      /\ \A k \in 1..n : IsArgument(text.args[k]) /\ Spells(NoSpace(args[k]), text.args[k])
  BY <1>1, <1>2, <1>4, RunsSpell
<1>6. \A k \in 1..n : text.args[k].size \in (-8..8) \ {0}
  BY <1>1, <1>5 DEF WordSized
<1>7. ASSUME NEW k \in 1..n
      PROVE  \E id \in IDs(arch, text.args[k]) : \E fl : spec[k] = SpecFor(text.args[k], fl, id)
  <2>1. ParsesTo(arch, args[k], text.args[k])
    BY <1>5, SpelledParses
  <2> QED BY <1>2, <2>1 DEF ParsesTo
<1>8. \A k \in 1..n : ArgSpecOK(spec[k])
  BY <1>1, <1>5, <1>7, SpecForFits
<1>9. Fits(spec, n)
  <2>1. spec \in Seq(Range(spec)) \/ DOMAIN spec = 1..n
    BY <1>2, <1>5 DEF ParseInv, Accepted, Parsed
  <2> QED BY <1>2, <1>5, <2>1 DEF Fits
<1>10. bytes = SpecToBytes(spec, n)
  BY DEF Sent
<1> HIDE DEF n
<1>11. /\ ReadCnt(bytes) = n
       /\ \A k \in 1..n : ReadArg(bytes, k - 1) =
            [type |-> spec[k].type, val_off |-> spec[k].val_off, reg |-> spec[k].reg,
             signed |-> spec[k].signed, bitshift |-> spec[k].bitshift]
  BY <1>8, <1>9, <1>10, ReadsBack
<1>12. ASSUME NEW k \in 1..n PROVE Readable(k)
  <2> DEFINE r == ReadArg(bytes, k - 1)
             a == text.args[k]
  <2>1. PICK id \in IDs(arch, a) : \E fl : spec[k] = SpecFor(a, fl, id)
    BY <1>7
  <2>2. r = [type |-> spec[k].type, val_off |-> spec[k].val_off, reg |-> spec[k].reg,
             signed |-> spec[k].signed, bitshift |-> spec[k].bitshift]
    BY <1>11
  <2> HIDE DEF r
  <2>3. Decoded(r, a, id)
    BY <2>1, <2>2 DEF Decoded, SpecFor
  <2> QED BY <1>5, <1>6, <2>1, <2>3 DEF Readable, r
<1> QED BY <1>2, <1>5, <1>11, <1>12 DEF n

\* What an argument stands for does not change while the text stays.
LEMMA MeaningStays ==
  ASSUME text' = text
  PROVE  /\ arch' = arch /\ \A nm : FieldOf(nm)' = FieldOf(nm)
         /\ \A a, regs, mem : Meaning(a, regs, mem)' = Meaning(a, regs, mem)
<1>1. arch' = arch
  BY DEF arch
<1>2. \A nm : FieldOf(nm)' = FieldOf(nm)
  BY <1>1 DEF FieldOf
<1>3. \A a, regs, mem : Meaning(a, regs, mem)' = Meaning(a, regs, mem)
  BY <1>2, Zenon DEF Meaning
<1> QED BY <1>1, <1>2, <1>3

\* A call of bpf_usdt_arg returns what the text of the argument stands for.
LEMMA FetchStep ==
  ASSUME PowersOf(Base, 8), WordSized, SplitInv, ParseInv, Sent, Fetch
  PROVE  FetchMeansText'
<1>1. pc = "ok" /\ text' = text /\ arch' = arch /\ arch \in Archs
  BY TextsAreTokens DEF Fetch, arch, SplitInv
<1>2. PICK n \in 0..MaxArgs, q \in {x \in RegFiles : x.arch = arch}, m \in Memories :
        bpf_usdt_arg(n, q.regs, m)
  BY DEF Fetch
<1> DEFINE regs == q.regs
           a == text.args[n + 1]
           vals == IF n >= MaxArgs \/ n >= ReadCnt(bytes) THEN {}
                   ELSE Results(ReadArg(bytes, n), regs, m)
<1>3. /\ Len(args) \in Nat /\ Len(args) <= MaxArgs /\ Len(text.args) = Len(args)
      /\ ReadCnt(bytes) = Len(args) /\ \A k \in 1..Len(args) : Readable(k)
  BY <1>1, BytesDecode
<1>4. HoldsWords(regs)
  BY StatesOfPrograms DEF HoldsWords
<1>5. fetch' = [n |-> n, regs |-> regs, mem |-> m, err |-> vals = {},
                res |-> IF vals = {} THEN 0 ELSE CHOOSE v \in vals : TRUE]
  BY <1>2 DEF bpf_usdt_arg, Results
<1> HIDE DEF regs, a
<1>6. CASE n >= Len(text.args)
  <2>1. vals = {}
    BY <1>3, <1>6
  <2> HIDE DEF vals
  <2>2. fetch'.n = n /\ fetch'.err = TRUE /\ fetch'.res = 0
    BY <1>5, <2>1
  <2> QED BY <1>1, <1>6, <2>2 DEF FetchMeansText
<1>7. CASE n < Len(text.args)
  <2>1. n + 1 \in 1..Len(args) /\ n + 1 - 1 = n /\ ~(n >= MaxArgs) /\ ~(n >= ReadCnt(bytes))
    BY <1>3, <1>7, Bounds
  <2>2. PICK id \in IDs(arch, a) : Decoded(ReadArg(bytes, n), a, id)
    BY <1>3, <2>1 DEF Readable, a
  <2>3. IsArgument(a) /\ a.size \in (-8..8) \ {0}
    BY <1>3, <2>1 DEF Readable, a
  <2>4. vals = IF Unreadable(a, regs, m) THEN {} ELSE {Meaning(a, regs, m)}
    <3>1. Results(ReadArg(bytes, n), regs, m) =
            IF Unreadable(a, regs, m) THEN {} ELSE {Meaning(a, regs, m)}
      BY <1>1, <1>4, <2>2, <2>3, MeaningRead
    <3> QED BY <2>1, <3>1
  <2> HIDE DEF vals
  <2>5. fetch'.n = n /\ fetch'.regs = regs /\ fetch'.mem = m
    BY <1>5
  <2>6. CASE Unreadable(a, regs, m)
    <3>1. fetch'.err = TRUE /\ fetch'.res = 0
      BY <1>5, <2>4, <2>6
    <3>2. /\ a.form \in {"deref", "derefoff"}
          /\ ~Mapped(m, (regs[FieldOf(a.name)] + a.off) % Word, 8)
      BY <2>6 DEF Unreadable, AddressOf
    <3> QED BY <1>1, <2>5, <3>1, <3>2, MeaningStays DEF FetchMeansText, Mapped, a
  <2>7. CASE ~Unreadable(a, regs, m)
    <3>1. vals = {Meaning(a, regs, m)}
      BY <2>4, <2>7
    <3>2. fetch'.err = FALSE /\ fetch'.res = Meaning(a, regs, m)
      BY <1>5, <3>1
    <3> QED BY <1>1, <2>5, <3>2, MeaningStays DEF FetchMeansText, a
  <2> QED BY <2>6, <2>7
<1> QED BY <1>2, <1>3, <1>6, <1>7

\* Whatever the registers and the memory hold, for every list that was written down
\* correctly, bpf_usdt_arg returns the value that the text of the argument stands
\* for, and fails only for arguments that are not there or cannot be read.
THEOREM FetchMeansTextHolds ==
  ASSUME PowersOf(Base, 8), WordSized
  PROVE  Spec => []FetchMeansText
<1>1. Init => SplitInv /\ ParseInv /\ FetchInv
  BY DEF Init, SplitInv, SplitStarts, SplitAt, ParseInv, SpecStarts, ArgsCut, ParseAt,
     Accepted, Rejected, FetchInv, Sent, Waits, FetchMeansText
<1>2. ASSUME SplitInv, ParseInv, FetchInv, [Next]_vars PROVE FetchInv'
  <2>2. CASE Start
    <3>1. args' = <<>> /\ spec' = <<>> /\ fetch' = NoFetch
      BY <1>2, <2>2 DEF Start, splitVars, SplitInv, SplitStarts, ParseInv, SpecStarts, FetchInv, Waits
    <3>2. Len(<<>>) = 0
      OBVIOUS
    <3>3. Sent'
      BY <2>2, <3>1, <3>2 DEF Start, Sent
    <3> QED BY <3>1, <3>3 DEF FetchInv, Waits, FetchMeansText
  <2>3. CASE SplitBracket \/ SplitSpace \/ SplitOther \/ SplitEnd \/ ParseNext \/ ParseFails
    <3>1. pc # "ok" /\ pc' # "ok" /\ fetch' = fetch
      BY <2>3 DEF SplitBracket, SplitSpace, SplitOther, SplitEnd, ParseNext, ParseFails
    <3>2. fetch' = NoFetch
      BY <1>2, <3>1 DEF FetchInv, Waits
    <3> QED BY <3>1, <3>2 DEF FetchInv, Sent, Waits, FetchMeansText
  <2>4. CASE ParseEnd
    <3>1. pc # "ok" /\ pc' = "ok" /\ fetch' = fetch
      BY <2>4 DEF ParseEnd
    <3>2. fetch' = NoFetch
      BY <1>2, <3>1 DEF FetchInv, Waits
    <3>3. Sent'
      BY <2>4 DEF ParseEnd, splitVars, Sent
    <3> QED BY <3>1, <3>2, <3>3 DEF FetchInv, Waits, FetchMeansText
  <2>5. CASE Fetch
    <3>1. FetchMeansText'
      BY <1>2, <2>5, FetchStep DEF FetchInv
    <3>2. UNCHANGED <<pc, bytes, spec, args>> /\ pc = "ok"
      BY <2>5 DEF Fetch, splitVars
    <3> QED BY <1>2, <3>1, <3>2 DEF FetchInv, Sent, Waits
  <2>6. CASE UNCHANGED vars
    <3>1. UNCHANGED <<text, pc, args, spec, bytes, fetch>>
      BY <2>6 DEF vars
    <3>2. FetchMeansText'
      <4> DEFINE a == text.args[fetch.n + 1]
      <4>1. FetchMeansText /\ fetch' = fetch /\ text' = text /\ a' = a
        BY <1>2, <3>1 DEF FetchInv
      <4>2. FieldOf(a.name)' = FieldOf(a.name)
        BY <4>1, MeaningStays
      <4>3. Meaning(a, fetch.regs, fetch.mem)' = Meaning(a, fetch.regs, fetch.mem)
        BY <4>1, MeaningStays
      <4>4. CASE fetch.err
        BY <4>1, <4>2, <4>4 DEF FetchMeansText, Mapped
      <4>5. CASE ~fetch.err
        BY <4>1, <4>3, <4>5 DEF FetchMeansText
      <4> QED BY <4>4, <4>5
    <3> QED BY <1>2, <3>1, <3>2 DEF FetchInv, Sent, Waits
  <2> QED BY <1>2, <2>2, <2>3, <2>4, <2>5, <2>6 DEF Next
<1>3. FetchInv => FetchMeansText
  BY DEF FetchInv
<1> QED BY <1>1, <1>2, <1>3, SplitInvStep, ParseInvStep, PTL DEF Spec
=============================================================================
