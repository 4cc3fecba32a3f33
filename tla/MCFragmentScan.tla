---------------------------- MODULE MCFragmentScan ----------------------------
(***************************************************************************)
(* Small instances of FragmentScan: configurations that are one file or    *)
(* put together from several, with every mistake, and texts with runs in   *)
(* every position to each other and to line feeds.                         *)
(***************************************************************************)
EXTENDS FragmentScan

MCPrecedence == [percent |-> 4, unicode |-> 3, hex |-> 2, base64 |-> 1]
MCGenericIds == {2}

Rule(id) ==
  [id |-> id, keywords |-> {}, skipReport |-> FALSE, allowlists |-> {}, path |-> Absent,
   regex |-> Absent, group |-> {}, entropy |-> 0, required |-> <<>>]

List == [condition |-> "Or", commits |-> {}, paths |-> {}, regexes |-> {},
         stopWords |-> {}, target |-> "secret"]

Requires(id, lines, columns) ==
  [id |-> id, withinLines |-> lines, withinColumns |-> columns]

\* A rule gated by a keyword and by its path, a generic one with an entropy
\* threshold, one that reports names of files, a composite one, and one that is
\* only searched for the composite.
Gated == [Rule(1) EXCEPT !.keywords = {"key"}, !.path = {"a"}, !.group = {"s", "t"},
                         !.regex = {"key", "s", "t", "nl"}]
StopInB == [List EXCEPT !.condition = "And", !.paths = {"b"}, !.stopWords = {"u"}]
GenericRule == [Rule(2) EXCEPT !.entropy = 1, !.regex = {"s", "t"}]
NameRule == [Rule(3) EXCEPT !.path = {"a"}]
Composed == [Rule(4) EXCEPT !.regex = {"s", "t"}, !.group = {"s"},
                            !.required = <<Requires(5, 1, Absent), Requires(2, Absent, 0)>>]
Hidden == [Rule(5) EXCEPT !.skipReport = TRUE, !.regex = {"t", "u"}]

ForAll(list) == [targets |-> {}, list |-> list]

Ok == [List EXCEPT !.commits = {"ok"}]
LineInB == [List EXCEPT !.condition = "And", !.paths = {"b"}, !.regexes = {"u"},
                        !.target = "line"]

File(rules, allowlists, extends, disabled) ==
  [rules |-> rules, allowlists |-> allowlists, extends |-> extends, disabled |-> disabled]

AllowAll == {ForAll(Ok), ForAll(LineInB), [targets |-> {2}, list |-> StopInB]}

\* All of it in one file, with a first version of a rule that the second replaces.
Whole == File(<<[Gated EXCEPT !.keywords = {"u"}], Gated, GenericRule, NameRule, Composed,
                Hidden>>, AllowAll, {}, {})

\* The same from three files, the last of which extends a fourth that is too deep: fields
\* given above and below, a rule disabled in the middle and one disabled at the top
\* that has it, and an allowlist for a rule of a file above.
Upper == File(<<[Rule(1) EXCEPT !.regex = Gated.regex], NameRule>>,
              {ForAll(Ok), [targets |-> {2}, list |-> StopInB]}, {"middle"}, {3})
Middle == File(<<[Rule(1) EXCEPT !.group = {"s", "t"}, !.regex = {"x"}, !.path = {"a"}],
                 [Rule(2) EXCEPT !.entropy = 1, !.regex = {"s", "t"}]>>,
               {ForAll(LineInB)}, {"lower"}, {6})
Lower == File(<<[Rule(1) EXCEPT !.keywords = {"key"}, !.regex = {"t"}],
                [Rule(2) EXCEPT !.regex = {"x"}],
                [Rule(3) EXCEPT !.path = {"b"}], Composed, Hidden, Rule(6)>>,
              {[targets |-> {1}, list |-> StopInB]}, {"deep"}, {})

Deep == File(<<[Rule(7) EXCEPT !.regex = {"s"}]>>, {}, {"upper"}, {})

MCFiles ==
  [whole |-> Whole, upper |-> Upper, middle |-> Middle, lower |-> Lower, deep |-> Deep,
   own |-> [Whole EXCEPT !.extends = {"own"}],
   lost |-> [Upper EXCEPT !.extends = {"nowhere"}],
   both |-> [Upper EXCEPT !.extends = {"middle", "lower"}],
   above |-> [Upper EXCEPT !.extends = {"both"}],
   alone |-> File(<<Composed>>, {}, {"whole"}, {}),
   empty |-> [Whole EXCEPT !.extends = {"patternless"}],
   patternless |-> File(<<Rule(6)>>, {}, {}, {}),
   aimless |-> [Whole EXCEPT !.allowlists = {[targets |-> {6}, list |-> Ok]}]]

Request(top, enabled) == [top |-> top, enabled |-> enabled]

MCRequests ==
  {Request("whole", {}), Request("upper", {}), Request("own", {1, 4})}
  \cup {Request(top, {}) : top \in {"lost", "both", "above", "alone", "empty", "aimless"}}
  \cup {Request("upper", {1, 7})}

Names(path, windows, commit) ==
  [path |-> path, windows |-> windows, commit |-> commit, inherited |-> FALSE]

MCFragments ==
  {Names("a", Absent, Absent), [Names("a", Absent, Absent) EXCEPT !.inherited = TRUE],
   Names(Absent, "a", "id"), Names("b", Absent, "id"),
   Names("b", Absent, "ok")}

PlainText(marks) == [i \in DOMAIN marks |-> Plain(marks[i])]

st == PlainText(<<"s", "t">>)
key == PlainText(<<"key">>)
nl == PlainText(<<"nl">>)
u == PlainText(<<"u">>)
x == PlainText(<<"x">>)
t == PlainText(<<"t">>)

Split == Encoded("hex", st, 4)

MCTexts ==
  {key \o st \o nl \o t \o u,                                    \* plain, two lines
   nl \o st \o nl \o nl \o key \o t \o nl \o u,                  \* line feeds to trim
   x \o Encoded("percent", key \o st, 5) \o nl \o u,             \* one run
   Encoded("percent", x \o Encoded("base64", st, 4), 7) \o key,  \* nested runs
   x \o Encoded("percent", x \o Encoded("base64", st, 4) \o t, 7)  \* the same with a match
     \o nl \o Encoded("hex", key \o t, 3),                       \* that goes on behind both
   Encoded("percent", Encoded("unicode", Encoded("hex", st, 3) \o t, 5) \o u, 7),  \* too deep
   Encoded("percent", t, 2) \o Encoded("unicode", st, 3)         \* each shadows the next
     \o Encoded("hex", key, 2) \o x,
   Encoded("hex", st, 3) \o t \o Encoded("base64", key \o t, 3), \* a match across two runs
   Encoded("percent", SubSeq(Split, 1, 2), 4)                    \* a run that is put together
     \o SubSeq(Split, 3, 4) \o nl \o key,
   st \o PlainText(<<"allow">>) \o nl \o st \o nl                \* markers on a line
     \o Encoded("hex", st, 3),                                   \* and in the tail
   Encoded("base64", <<>>, 2) \o nl \o st}                       \* a run of nothing

\* The bytes of the texts and, as runs are nested three deep, of what they decode to.
BytesOf(texts) == UNION {ToSet(some) : some \in texts}
Inners(bytes) == bytes \cup BytesOf({byte.inner : byte \in bytes})
MCByte == Inners(Inners(Inners(BytesOf(MCTexts))))

Limits(decoded, work, records) ==
  [DecodedBytes |-> decoded, WorkUnits |-> work, FindingRecords |-> records]

MCBudgets ==
  {Limits(Absent, Absent, Absent), Limits(0, Absent, Absent), Limits(6, 30, 3),
   Limits(Absent, 9, Absent), Limits(Absent, Absent, 0), Limits(Absent, Absent, 5)}
=============================================================================
