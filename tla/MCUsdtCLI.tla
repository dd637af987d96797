----------------------------- MODULE MCUsdtCLI -----------------------------
(***************************************************************************)
(* Instances of UsdtCLI for TLC: requests with every spelling of the flags.*)
(***************************************************************************)
EXTENDS UsdtCLI, TLC

Tok(raw, kind, nm, assigned, val) ==
  [raw |-> raw, kind |-> kind, name |-> nm, assigned |-> assigned, val |-> val]
W(s) == Tok(s, "word", "", FALSE, "")
F(nm) == Tok("-" \o nm, "flag", nm, FALSE, "")
FV(nm, val) == Tok("-" \o nm \o "=" \o val, "flag", nm, TRUE, val)
Stop == Tok("--", "--", "", FALSE, "")

Ask(prov, nm, args, file) == [provider |-> prov, name |-> nm, args |-> args, file |-> file]
Line(command, argv, flagsFirst, ask) ==
  [command |-> command, argv |-> argv, flagsFirst |-> flagsFirst, ask |-> ask]

Probe(prov, nm, location, semaphore) ==
  [provider |-> prov, name |-> nm, location |-> location, semaphore |-> semaphore, args |-> nm]

\* Two providers that share a probe name, one probe inlined twice; no probes.
SomeFiles ==
  ("python" :> <<Probe("py", "gc", 1, 0), Probe("vm", "gc", 2, 7), Probe("py", "line", 3, 7),
                 Probe("py", "gc", 4, 0)>>)
  @@ ("empty" :> <<>>)

\* The spellings of a string flag and the value they give it.
Spell(flag, a, b) ==
  {<<<<>>, "">>, <<<<F(flag), W(a)>>, a>>, <<<<FV(flag, b)>>, b>>, <<<<FV(flag, "")>>, "">>,
   <<<<F(flag), W(b), FV(flag, a)>>, a>>, <<<<F(flag), F("args")>>, "-args">>}
SpellArgs ==
  {<<<<>>, FALSE>>, <<<<F("args")>>, TRUE>>, <<<<F("args"), FV("args", "F")>>, FALSE>>,
   <<<<FV("args", "0"), FV("args", "1")>>, TRUE>>}

\* Every value of the Boolean flag, with and without a filter.
Values ==
  {<<<<FV("args", v)>>, TRUE>> : v \in {"1", "t", "T", "TRUE", "true", "True"}}
  \cup {<<<<F("args"), FV("args", v)>>, FALSE>> : v \in {"0", "f", "F", "FALSE", "false", "False"}}

Requests(provs, names, args, ends, files) ==
  {Line("list", <<W("list")>> \o p[1] \o n[1] \o a[1] \o end \o <<W(file)>>, TRUE,
        Ask(p[2], n[2], a[2], file)) :
     p \in provs, n \in names, a \in args, end \in ends, file \in files}

\* A missing command, value, binary or definition, no Boolean, a second binary, flags at
\* the end.
Refused ==
  {Line("list", argv, FALSE, Ask("", "", FALSE, "python")) :
     argv \in {<<>>, <<W("show")>>, <<W("list")>>, <<W("list"), F("name")>>,
               <<W("list"), F("h"), W("python")>>, <<W("list"), FV("args", "py"), W("python")>>,
               <<W("list"), FV("args", ""), W("python")>>, <<W("list"), FV("args", "tRUE"), W("python")>>,
               <<W("list"), F("args"), W("false"), W("python")>>,
               <<W("list"), W("python"), W("empty")>>, <<W("list"), W("python"), F("args")>>,
               <<W("list"), W("python"), Stop>>}}

\* Arguments -4@%esi, 8@$-3 and -4@-24(%rbp), scaled, and a text that is refused.
A(type, reg, number, size) ==
  [type |-> type, reg |-> reg, number |-> number, size |-> size, float |-> FALSE]
SomeArgTexts ==
  ("" :> <<>>) @@ ("-4@%esi" :> <<A(1, 5, 0, -4)>>)
  @@ ("8@$-3 -4@-6(%rbp)" :> <<A(0, 0, -3, 8), A(2, 7, -6, -4)>>)

TextLines ==
  {Line("parse-args", <<W("parse-args"), W(t)>>, TRUE, Ask("", "", FALSE, t)) :
     t \in DOMAIN SomeArgTexts \cup {"8@%xmm0"}}
  \cup {Line("parse-args", <<W("parse-args")>>, TRUE, Ask("", "", FALSE, "none"))}

SomeLines ==
  Requests(Spell("provider", "py", "vm"), Spell("name", "gc", "line"), SpellArgs,
           {<<>>, <<Stop>>}, {"python", "empty", "missing"})
  \cup Requests({<<<<>>, "">>, <<<<F("provider"), W("vm")>>, "vm">>}, {<<<<>>, "">>}, Values,
                {<<>>}, {"python"})
  \cup Refused \cup TextLines

\* The order of README.md.
BinaryFirst ==
  {Line("list", <<W("list"), W("python"), F("provider"), W("py")>>, FALSE,
        Ask("py", "", FALSE, "python")),
   Line("list", <<W("list"), W("python")>>, TRUE, Ask("", "", FALSE, "python"))}

\* The premises of the theorems, evaluated on the instances above.
ASSUME PremisesHold == AsksText /\ AsksList
=============================================================================
