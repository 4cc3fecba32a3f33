------------------------- MODULE ScanAndCommand_proofs -------------------------
(***************************************************************************)
(* Theorems about FragmentScan, for every set of configuration files,      *)
(* every text, every decoding, every budget and every moment a signal is   *)
(* raised, and about CliRun, for every set of commits, every number of     *)
(* fragments and every exit code a user may choose.                        *)
(*                                                                         *)
(* A scan executes a fixed sequence of units.  However it is cut, the      *)
(* records charged in the first part are at least the findings committed   *)
(* in it, with all that is attached to them (Balanced): that follows the   *)
(* sequence from the candidates of a rule up to the passes.  What is       *)
(* committed is what the first rules of the plan find (Progress), and the  *)
(* final filter gives the verdicts on it one by one (Filtered).            *)
(*                                                                         *)
(* The invariant of the command follows the caller's thread: what is known *)
(* of the timer, of the outcome and of the summary at each place it can    *)
(* be.                                                                     *)
(***************************************************************************)
EXTENDS DecodedText_proofs, CliRun, FiniteSetTheorems, SequenceTheorems, WellFoundedInduction,
        TLAPS

-----------------------------------------------------------------------------
(* Configurations.                                                         *)

\* A rule has all its fields, and what it requires is a list.
GoodRule(rule) ==
  /\ rule = [id |-> rule.id, keywords |-> rule.keywords, skipReport |-> rule.skipReport,
             allowlists |-> rule.allowlists, path |-> rule.path, regex |-> rule.regex,
             group |-> rule.group, entropy |-> rule.entropy, required |-> rule.required]
  /\ Sized(rule.required)

GoodRules(rules) == \A id \in DOMAIN rules : GoodRule(rules[id])

\* A configuration that could be compiled has all its fields and good rules.
GoodConfig(config) ==
  \/ config = Absent
  \/ /\ config = [rules |-> config.rules, keywords |-> config.keywords,
                  allowlists |-> config.allowlists, targeted |-> config.targeted]
     /\ GoodRules(config.rules)

\* Every step of the compilation, from a file of its own to the merge of what it
\* extends, keeps that so.
LEMMA RuleOfIsGood ==
  ASSUME NEW name \in DOMAIN Files, NEW id \in IdsOf(Files[name])
  PROVE  GoodRule(RuleOf(Files[name], id))
<1> DEFINE rules == Files[name].rules
           with == {i \in DOMAIN rules : rules[i].id = id}
<1>1. rules \in Seq(ToSet(rules)) /\ \A i \in DOMAIN rules : IsRule(rules[i])
  BY FileAssumption
<1>2. DOMAIN rules = 1 .. Len(rules) /\ Len(rules) \in Nat
  BY <1>1
<1>3. with # {}
  BY DEF IdsOf
<1>4. with \in SUBSET (1 .. Len(rules))
  BY <1>2
<1> HIDE DEF with
<1>5. Max(with) \in with
  BY <1>2, <1>3, <1>4, BoundedHasMax
<1>6. IsRule(rules[Max(with)])
  BY <1>1, <1>5 DEF with
<1>7. RuleOf(Files[name], id) = rules[Max(with)]
  BY DEF RuleOf, with
<1> HIDE DEF rules
<1>8. ASSUME NEW rule, IsRule(rule) PROVE GoodRule(rule)
  <2>1. rule.required \in Seq(ToSet(rule.required))
    BY <1>8 DEF IsRule
  <2>2. DOMAIN rule.required = 1 .. Len(rule.required) /\ Len(rule.required) \in Nat
    BY <2>1
  <2>3. Sized(rule.required)
    BY <2>2 DEF Sized
  <2> QED
    BY <1>8, <2>3, Zenon DEF IsRule, GoodRule
<1> QED
  BY <1>6, <1>7, <1>8

LEMMA CompileLocalIsGood ==
  ASSUME NEW name \in DOMAIN Files
  PROVE  GoodConfig(CompileLocal(Files[name]))
<1>1. \A id \in IdsOf(Files[name]) : GoodRule(RuleOf(Files[name], id))
  BY RuleOfIsGood
<1> DEFINE rules == [id \in IdsOf(Files[name]) |-> RuleOf(Files[name], id)]
<1>2. GoodRules(rules)
  BY <1>1 DEF GoodRules
<1> HIDE DEF rules
<1>3. CompileLocal(Files[name]).rules = rules
  BY DEF CompileLocal, rules
<1> QED
  BY <1>2, <1>3 DEF CompileLocal, GoodConfig

LEMMA OverrideIsGood ==
  ASSUME NEW base, NEW own, GoodRule(base)
  PROVE  GoodRule(Override(base, own))
<1> DEFINE entropy == IF own.entropy # 0 THEN own.entropy ELSE base.entropy
           group == IF own.group # {} THEN own.group ELSE base.group
           regex == IF own.regex # Absent THEN own.regex ELSE base.regex
           path == IF own.path # Absent THEN own.path ELSE base.path
<1>1. Override(base, own) =
        [base EXCEPT !.entropy = entropy, !.group = group, !.regex = regex, !.path = path,
                     !.keywords = @ \cup own.keywords,
                     !.allowlists = @ \cup own.allowlists]
  BY DEF Override
<1> HIDE DEF entropy, group, regex, path
<1> QED
  BY <1>1 DEF GoodRule

LEMMA MergeIsGood ==
  ASSUME NEW own, NEW base, NEW disabled, GoodConfig(own), GoodConfig(base),
         own # Absent, base # Absent
  PROVE  GoodConfig(MergeExtension(own, base, disabled))
<1> DEFINE kept == DOMAIN base.rules \ disabled
           rules == Merged(own, base, kept)
<1>1. GoodRules(own.rules) /\ GoodRules(base.rules)
  BY DEF GoodConfig
<1>2. GoodRules(rules)
  <2>1. SUFFICES ASSUME NEW id \in kept \cup DOMAIN own.rules PROVE GoodRule(rules[id])
    BY DEF Merged, GoodRules
  <2>2. id \in kept => GoodRule(base.rules[id])
    BY <1>1 DEF GoodRules
  <2>3. id \in DOMAIN own.rules => GoodRule(own.rules[id])
    BY <1>1 DEF GoodRules
  <2>4. rules[id] = IF id \notin kept THEN own.rules[id]
                    ELSE IF id \notin DOMAIN own.rules THEN base.rules[id]
                    ELSE Override(base.rules[id], own.rules[id])
    BY DEF Merged
  <2> HIDE DEF kept, rules
  <2> QED
    BY <2>1, <2>2, <2>3, <2>4, OverrideIsGood
<1> DEFINE keywords == own.keywords \cup UNION {rules[id].keywords : id \in kept}
           allowlists == own.allowlists \cup base.allowlists
<1>3. MergeExtension(own, base, disabled) =
        [own EXCEPT !.rules = rules, !.keywords = keywords, !.allowlists = allowlists]
  BY DEF MergeExtension
<1> HIDE DEF rules, keywords, allowlists
<1> QED
  BY <1>2, <1>3 DEF GoodConfig

LEMMA CompileAloneIsGood ==
  ASSUME NEW name \in DOMAIN Files
  PROVE  GoodConfig(CompileAlone(Files[name]))
<1>1. CompileAlone(Files[name]) = CompileLocal(Files[name]) \/ CompileAlone(Files[name]) = Absent
  BY DEF CompileAlone
<1> QED
  BY <1>1, CompileLocalIsGood DEF GoodConfig

\* The configuration of every file, at one depth of extension, is good.
GoodLevel(compiled) ==
  DOMAIN compiled = DOMAIN Files /\ \A name \in DOMAIN Files : GoodConfig(compiled[name])

LEMMA NamedIsGood ==
  ASSUME NEW compiled, GoodLevel(compiled), NEW name
  PROVE  GoodConfig(Named(compiled, name))
BY DEF GoodLevel, Named, GoodConfig

LEMMA CompileOverIsGood ==
  ASSUME NEW name \in DOMAIN Files, NEW bases, GoodLevel(bases)
  PROVE  GoodConfig(CompileOver(Files[name], bases))
<1> DEFINE file == Files[name]
           own == CompileAlone(file)
           base == Named(bases, CHOOSE b \in file.extends : TRUE)
<1>1. GoodConfig(own)
  BY CompileAloneIsGood
<1>2. GoodConfig(base)
  BY NamedIsGood
<1>3. CompileOver(file, bases) = IF own = Absent \/ file.extends = {} THEN own
     ELSE IF Cardinality(file.extends) > 1 \/ base = Absent THEN Absent
     ELSE MergeExtension(own, base, file.disabled)
  BY DEF CompileOver
<1>4. GoodConfig(Absent)
  BY DEF GoodConfig
<1> HIDE DEF file, own, base
<1>5. GoodConfig(CompileOver(file, bases))
  BY <1>1, <1>2, <1>3, <1>4, MergeIsGood
<1> QED
  BY <1>5 DEF file

\* A function that is defined by what it is one below.
LEMMA CompileLevelSteps ==
  /\ CompileLevel[0] = [name \in DOMAIN Files |-> CompileAlone(Files[name])]
  /\ \A left \in 1 .. MaxExtendDepth :
       CompileLevel[left] =
         [name \in DOMAIN Files |-> CompileOver(Files[name], CompileLevel[left - 1])]
<1> DEFINE first == [name \in DOMAIN Files |-> CompileAlone(Files[name])]
           Over(bases) == [name \in DOMAIN Files |-> CompileOver(Files[name], bases)]
           Is(f, m) == f = [i \in 0 .. m |-> IF i = 0 THEN first ELSE Over(f[i - 1])]
           S == {m \in Nat : \E f : Is(f, m)}
<1> HIDE DEF first, Over
<1>1. 0 \in S
  <2> DEFINE f == [i \in 0 .. 0 |-> first]
  <2>1. Is(f, 0)
    OBVIOUS
  <2> QED
    BY <2>1
<1>2. ASSUME NEW m \in Nat, m \in S PROVE m + 1 \in S
  <2>1. PICK f : Is(f, m)
    BY <1>2
  <2> DEFINE g == [i \in 0 .. m + 1 |-> IF i \in 0 .. m THEN f[i] ELSE Over(f[m])]
  <2>2. \A i \in 0 .. m : f[i] = IF i = 0 THEN first ELSE Over(f[i - 1])
    BY <2>1
  <2>3. ASSUME NEW i \in 0 .. m + 1
        PROVE  g[i] = IF i = 0 THEN first ELSE Over(g[i - 1])
    <3>1. CASE i = 0
      BY <3>1, <2>2
    <3>2. CASE i \in 1 .. m
      <4>1. i - 1 \in 0 .. m /\ i \in 0 .. m /\ i # 0
        BY <3>2
      <4>2. g[i] = f[i] /\ g[i - 1] = f[i - 1]
        BY <4>1
      <4> HIDE DEF g
      <4> QED
        BY <4>1, <4>2, <2>2
    <3>3. CASE i = m + 1
      <4>1. i - 1 = m /\ i \notin 0 .. m /\ m \in 0 .. m /\ m \in 0 .. m + 1 /\ i # 0
        BY <3>3
      <4> QED
        BY <4>1, <3>3
    <3> QED
      BY <3>1, <3>2, <3>3
  <2> HIDE DEF g
  <2>4. g = [i \in 0 .. m + 1 |-> g[i]]
    BY DEF g
  <2>5. Is(g, m + 1)
    BY <2>3, <2>4
  <2> QED
    BY <2>5
<1>3. MaxExtendDepth \in S
  <2>1. MaxExtendDepth \in Nat
    BY FileAssumption
  <2> HIDE DEF S
  <2> QED
    BY <1>1, <1>2, <2>1, SetInduction
<1>4. Is(CompileLevel, MaxExtendDepth)
  <2> DEFINE choice == CHOOSE f : Is(f, MaxExtendDepth)
  <2>1. Is(choice, MaxExtendDepth)
    BY <1>3
  <2>2. CompileLevel = choice
    BY DEF CompileLevel, Over, first
  <2> QED
    BY <2>1, <2>2
<1>5. \A i \in 0 .. MaxExtendDepth :
        CompileLevel[i] = IF i = 0 THEN first ELSE Over(CompileLevel[i - 1])
  BY <1>4
<1>6. 0 \in 0 .. MaxExtendDepth /\ \A i \in 1 .. MaxExtendDepth : i \in 0 .. MaxExtendDepth /\ i # 0
  BY FileAssumption
<1> HIDE DEF Is, S
<1>7. CompileLevel[0] = first
  BY <1>5, <1>6
<1>8. \A i \in 1 .. MaxExtendDepth : CompileLevel[i] = Over(CompileLevel[i - 1])
  BY <1>5, <1>6
<1> QED
  BY <1>7, <1>8 DEF first, Over

\* So are they at the depth the loader goes to.
LEMMA CompileLevelIsGood == GoodLevel(CompileLevel[MaxExtendDepth])
<1> DEFINE P == {m \in Nat : m <= MaxExtendDepth => GoodLevel(CompileLevel[m])}
<1>0. MaxExtendDepth \in Nat
  BY FileAssumption
<1>1. 0 \in P
  BY CompileLevelSteps, CompileAloneIsGood DEF GoodLevel
<1>2. ASSUME NEW m \in Nat, m \in P PROVE m + 1 \in P
  <2>1. SUFFICES ASSUME m + 1 <= MaxExtendDepth PROVE GoodLevel(CompileLevel[m + 1])
    OBVIOUS
  <2>2. m + 1 \in 1 .. MaxExtendDepth /\ (m + 1) - 1 = m /\ GoodLevel(CompileLevel[m])
    BY <1>0, <1>2, <2>1
  <2>3. CompileLevel[m + 1] = [name \in DOMAIN Files |-> CompileOver(Files[name], CompileLevel[m])]
    BY <2>2, CompileLevelSteps
  <2> QED
    BY <2>2, <2>3, CompileOverIsGood DEF GoodLevel
<1>3. MaxExtendDepth \in P
  <2> HIDE DEF P
  <2> QED
    BY <1>0, <1>1, <1>2, SetInduction
<1> QED
  BY <1>0, <1>3

\* Whatever a user asks for, the rules of the engine are good ones.
LEMMA LoadedIsGood ==
  ASSUME NEW asked
  PROVE  GoodConfig(LoadConfig(asked))
<1> DEFINE config == Named(CompileLevel[MaxExtendDepth], asked.top)
           at == CompileAt(asked.top)
<1>1. GoodConfig(config)
  BY CompileLevelIsGood, NamedIsGood
<1>2. config # Absent => GoodConfig(WithTargeted(config))
  <2>1. SUFFICES ASSUME config # Absent PROVE GoodConfig(WithTargeted(config))
    OBVIOUS
  <2> HIDE DEF config
  <2>2. /\ config = [rules |-> config.rules, keywords |-> config.keywords,
                     allowlists |-> config.allowlists, targeted |-> config.targeted]
        /\ GoodRules(config.rules)
    BY <1>1, <2>1 DEF GoodConfig
  <2> DEFINE For(id) == {a.list : a \in {b \in config.targeted : id \in b.targets}}
             rules == [id \in DOMAIN config.rules |->
                         [config.rules[id] EXCEPT !.allowlists = @ \cup For(id)]]
  <2>3. WithTargeted(config) = [config EXCEPT !.rules = rules]
    BY DEF WithTargeted
  <2>4. GoodRules(rules)
    <3>1. ASSUME NEW rule, GoodRule(rule), NEW lists
          PROVE  GoodRule([rule EXCEPT !.allowlists = @ \cup lists])
      BY <3>1 DEF GoodRule
    <3>2. \A id \in DOMAIN config.rules : GoodRule(config.rules[id])
      BY <2>2 DEF GoodRules
    <3> HIDE DEF For
    <3> QED
      BY <3>1, <3>2 DEF GoodRules
  <2> HIDE DEF rules
  <2> QED
    BY <2>2, <2>3, <2>4 DEF GoodConfig
<1>3. GoodConfig(at)
  <2>1. \/ at = Absent
        \/ config # Absent /\ at = WithTargeted(config)
    BY DEF CompileAt
  <2> HIDE DEF at, config
  <2> QED
    BY <1>2, <2>1 DEF GoodConfig
<1> HIDE DEF at
<1>4. \/ LoadConfig(asked) = at \/ LoadConfig(asked) = Absent
      \/ /\ at # Absent /\ asked.enabled \subseteq DOMAIN at.rules
         /\ LoadConfig(asked) =
              [at EXCEPT !.rules = [id \in asked.enabled |-> at.rules[id]],
                         !.keywords = UNION {at.rules[id].keywords : id \in asked.enabled}]
  BY DEF LoadConfig, SelectRules, at
<1>5. CASE LoadConfig(asked) = at \/ LoadConfig(asked) = Absent
  BY <1>3, <1>5 DEF GoodConfig
<1>6. CASE /\ at # Absent /\ asked.enabled \subseteq DOMAIN at.rules
           /\ LoadConfig(asked) =
                [at EXCEPT !.rules = [id \in asked.enabled |-> at.rules[id]],
                           !.keywords = UNION {at.rules[id].keywords : id \in asked.enabled}]
  <2> DEFINE rules == [id \in asked.enabled |-> at.rules[id]]
             keywords == UNION {at.rules[id].keywords : id \in asked.enabled}
  <2>1. GoodRules(rules)
    BY <1>3, <1>6 DEF GoodConfig, GoodRules
  <2>2. LoadConfig(asked) = [at EXCEPT !.rules = rules, !.keywords = keywords]
    BY <1>6
  <2>3. at = [rules |-> at.rules, keywords |-> at.keywords,
              allowlists |-> at.allowlists, targeted |-> at.targeted]
    BY <1>3, <1>6 DEF GoodConfig
  <2> HIDE DEF rules, keywords
  <2> QED
    BY <2>1, <2>2, <2>3 DEF GoodConfig
<1> QED
  BY <1>4, <1>5, <1>6

-----------------------------------------------------------------------------
(* Configurations that are put together.                                   *)

\* The rule that a file has for an id, and all that is compiled from files, is of
\* the type of what it is compiled to.
LEMMA RuleOfType ==
  ASSUME NEW name \in DOMAIN Files, NEW id \in IdsOf(Files[name])
  PROVE  /\ id \in 1 .. MaxRuleId
         /\ RuleOf(Files[name], id) \in CompiledRule
         /\ \E i \in DOMAIN Files[name].rules : RuleOf(Files[name], id) = Files[name].rules[i]
<1> DEFINE rules == Files[name].rules
           with == {i \in DOMAIN rules : rules[i].id = id}
<1>1. rules \in Seq(ToSet(rules)) /\ \A i \in DOMAIN rules : IsRule(rules[i])
  BY FileAssumption
<1>2. DOMAIN rules = 1 .. Len(rules) /\ Len(rules) \in Nat
  BY <1>1
<1>3. with # {} /\ with \in SUBSET (1 .. Len(rules))
  BY <1>2 DEF IdsOf
<1> HIDE DEF with
<1>4. Max(with) \in with
  BY <1>2, <1>3, BoundedHasMax
<1>5. Max(with) \in DOMAIN rules /\ rules[Max(with)].id = id
  BY <1>4 DEF with
<1>6. RuleOf(Files[name], id) = rules[Max(with)]
  BY DEF RuleOf, with
<1>7. ASSUME NEW i \in DOMAIN rules
      PROVE  rules[i] \in CompiledRule /\ rules[i].id \in 1 .. MaxRuleId
  <2> DEFINE rule == rules[i]
  <2>1. rule \in Stated
    BY DEF Stated, ToSet
  <2>2. IsRule(rule)
    BY <1>1
  <2> HIDE DEF rule
  <2>3. rule.keywords \in SUBSET Words /\ rule.allowlists \in SUBSET Lists
    BY <2>1 DEF Words, Lists
  <2> QED
    BY <2>1, <2>2, <2>3 DEF IsRule, CompiledRule, rule
<1> QED
  BY <1>5, <1>6, <1>7

LEMMA CompileLocalType ==
  ASSUME NEW name \in DOMAIN Files
  PROVE  CompileLocal(Files[name]) \in CompiledConfig
<1> DEFINE file == Files[name]
           rules == [id \in IdsOf(file) |-> RuleOf(file, id)]
           keywords == UNION {file.rules[i].keywords : i \in DOMAIN file.rules}
           allowlists == {a.list : a \in {b \in file.allowlists : b.targets = {}}}
           targeted == {a \in file.allowlists : a.targets # {}}
<1>1. IdsOf(file) \in SUBSET (1 .. MaxRuleId)
  BY RuleOfType
<1>2. rules \in [IdsOf(file) -> CompiledRule]
  BY RuleOfType
<1>3. keywords \in SUBSET Words
  BY DEF Words, Stated, ToSet
<1>4. file.allowlists \subseteq Targeting
  BY DEF Targeting
<1>5. allowlists \in SUBSET Lists /\ targeted \in SUBSET Targeting
  BY <1>4 DEF Lists
<1>6. CompileLocal(file) = [rules |-> rules, keywords |-> keywords,
                            allowlists |-> allowlists, targeted |-> targeted]
  BY DEF CompileLocal
<1> HIDE DEF rules, keywords, allowlists, targeted, file
<1>7. rules \in UNION {[ids -> CompiledRule] : ids \in SUBSET (1 .. MaxRuleId)}
  BY <1>1, <1>2
<1>8. CompileLocal(file) \in CompiledConfig
  BY <1>3, <1>5, <1>6, <1>7 DEF CompiledConfig
<1> QED
  BY <1>8 DEF file

\* A configuration, opened.
LEMMA ConfigFields ==
  ASSUME NEW config \in CompiledConfig
  PROVE  /\ config # Absent
         /\ config = [rules |-> config.rules, keywords |-> config.keywords,
                      allowlists |-> config.allowlists, targeted |-> config.targeted]
         /\ DOMAIN config.rules \subseteq 1 .. MaxRuleId
         /\ config.rules \in [DOMAIN config.rules -> CompiledRule]
         /\ config.keywords \in SUBSET Words /\ config.allowlists \in SUBSET Lists
         /\ config.targeted \in SUBSET Targeting
<1>1. config # Absent
  BY AbsentAssumption
<1>2. /\ config = [rules |-> config.rules, keywords |-> config.keywords,
                   allowlists |-> config.allowlists, targeted |-> config.targeted]
      /\ config.rules \in UNION {[ids -> CompiledRule] : ids \in SUBSET (1 .. MaxRuleId)}
      /\ config.keywords \in SUBSET Words /\ config.allowlists \in SUBSET Lists
      /\ config.targeted \in SUBSET Targeting
  BY DEF CompiledConfig
<1>3. PICK ids \in SUBSET (1 .. MaxRuleId) : config.rules \in [ids -> CompiledRule]
  BY <1>2
<1>4. DOMAIN config.rules = ids
  BY <1>3
<1> QED
  BY <1>1, <1>2, <1>3, <1>4

LEMMA ConfigWith ==
  ASSUME NEW config \in CompiledConfig, NEW ids \in SUBSET (1 .. MaxRuleId),
         NEW rules \in [ids -> CompiledRule],
         NEW keywords \in SUBSET Words, NEW allowlists \in SUBSET Lists
  PROVE  [config EXCEPT !.rules = rules, !.keywords = keywords, !.allowlists = allowlists]
           \in CompiledConfig
<1>1. rules \in UNION {[some -> CompiledRule] : some \in SUBSET (1 .. MaxRuleId)}
  OBVIOUS
<1> QED
  BY <1>1 DEF CompiledConfig

LEMMA OverrideType ==
  ASSUME NEW base \in CompiledRule, NEW own \in CompiledRule
  PROVE  Override(base, own) \in CompiledRule
<1> DEFINE entropy == IF own.entropy # 0 THEN own.entropy ELSE base.entropy
           group == IF own.group # {} THEN own.group ELSE base.group
           regex == IF own.regex # Absent THEN own.regex ELSE base.regex
           path == IF own.path # Absent THEN own.path ELSE base.path
<1>1. Override(base, own) =
        [base EXCEPT !.entropy = entropy, !.group = group, !.regex = regex, !.path = path,
                     !.keywords = base.keywords \cup own.keywords,
                     !.allowlists = base.allowlists \cup own.allowlists]
  BY DEF Override, CompiledRule
<1>2. /\ entropy \in {rule.entropy : rule \in Stated} /\ group \in {rule.group : rule \in Stated}
      /\ regex \in {rule.regex : rule \in Stated} /\ path \in {rule.path : rule \in Stated}
  BY DEF CompiledRule
<1> HIDE DEF entropy, group, regex, path
<1>3. base.keywords \cup own.keywords \in SUBSET Words
      /\ base.allowlists \cup own.allowlists \in SUBSET Lists
  BY DEF CompiledRule
<1> QED
  BY <1>1, <1>2, <1>3 DEF CompiledRule

\* The places that are asked first.
SaidIn(chain, id, S, field, nothing) ==
  LET saying == {j \in S : RuleAt(chain, id, j)[field] # nothing}
  IN IF saying = {} THEN nothing ELSE RuleAt(chain, id, Min(saying))[field]

\* A rule has each field from the first of these places that has a say about it, what it
\* requires from the last one, and the keywords and allowlists of all.
AsStated(rule, chain, id, S) ==
  /\ rule.regex = SaidIn(chain, id, S, "regex", Absent)
  /\ rule.path = SaidIn(chain, id, S, "path", Absent)
  /\ rule.group = SaidIn(chain, id, S, "group", {})
  /\ rule.entropy = SaidIn(chain, id, S, "entropy", 0)
  /\ rule.required = RuleAt(chain, id, Max(S)).required
  /\ rule.skipReport = RuleAt(chain, id, Max(S)).skipReport
  /\ rule.keywords = UNION {RuleAt(chain, id, j).keywords : j \in S}
  /\ rule.allowlists = UNION {RuleAt(chain, id, j).allowlists : j \in S}

\* A place alone says what its rule says; one more place above others is asked first.
LEMMA SaidAlone ==
  ASSUME NEW chain, NEW id, NEW k \in Nat, NEW field, NEW nothing
  PROVE  SaidIn(chain, id, {k}, field, nothing) = RuleAt(chain, id, k)[field]
<1> DEFINE saying == {j \in {k} : RuleAt(chain, id, j)[field] # nothing}
<1>1. SaidIn(chain, id, {k}, field, nothing) =
        IF saying = {} THEN nothing ELSE RuleAt(chain, id, Min(saying))[field]
  BY DEF SaidIn
<1>2. CASE RuleAt(chain, id, k)[field] = nothing
  <2>1. saying = {}
    BY <1>2
  <2> QED
    BY <1>1, <1>2, <2>1
<1>3. CASE RuleAt(chain, id, k)[field] # nothing
  <2>1. saying = {k}
    BY <1>3
  <2>2. Min({k}) = k
    BY MinIs
  <2>3. saying # {}
    BY <2>1
  <2> HIDE DEF saying
  <2> QED
    BY <1>1, <2>1, <2>2, <2>3
<1> QED
  BY <1>2, <1>3

LEMMA SaidAbove ==
  ASSUME NEW chain, NEW id, NEW k \in Nat, NEW n \in Nat, NEW S \in SUBSET (k + 1 .. n),
         NEW field, NEW nothing
  PROVE  SaidIn(chain, id, {k} \cup S, field, nothing) =
           IF RuleAt(chain, id, k)[field] # nothing THEN RuleAt(chain, id, k)[field]
           ELSE SaidIn(chain, id, S, field, nothing)
<1> DEFINE Says(j) == RuleAt(chain, id, j)[field] # nothing
           all == {j \in {k} \cup S : Says(j)}
           below == {j \in S : Says(j)}
<1>1. /\ SaidIn(chain, id, {k} \cup S, field, nothing) =
           IF all = {} THEN nothing ELSE RuleAt(chain, id, Min(all))[field]
      /\ SaidIn(chain, id, S, field, nothing) =
           IF below = {} THEN nothing ELSE RuleAt(chain, id, Min(below))[field]
  BY DEF SaidIn
<1>2. CASE Says(k)
  <2>3. ASSUME NEW j \in all PROVE j \in Int /\ k <= j
    <3>1. j = k \/ j \in k + 1 .. n
      OBVIOUS
    <3> QED
      BY <3>1
  <2>1. k \in all /\ all \in SUBSET Int /\ \A j \in all : k <= j
    BY <1>2, <2>3
  <2> HIDE DEF all
  <2>2. Min(all) = k
    BY <2>1, MinIs
  <2> QED
    BY <1>1, <1>2, <2>1, <2>2
<1>3. CASE ~Says(k)
  <2>1. all = below
    BY <1>3
  <2> QED
    BY <1>1, <1>3, <2>1
<1> QED
  BY <1>2, <1>3

LEMMA StatedAlone ==
  ASSUME NEW chain, NEW id, NEW k \in Nat
  PROVE  AsStated(RuleAt(chain, id, k), chain, id, {k})
<1>1. Max({k}) = k
  BY MaxIs
<1>2. /\ UNION {RuleAt(chain, id, j).keywords : j \in {k}} = RuleAt(chain, id, k).keywords
      /\ UNION {RuleAt(chain, id, j).allowlists : j \in {k}} = RuleAt(chain, id, k).allowlists
  OBVIOUS
<1>3. /\ SaidIn(chain, id, {k}, "regex", Absent) = RuleAt(chain, id, k).regex
      /\ SaidIn(chain, id, {k}, "path", Absent) = RuleAt(chain, id, k).path
      /\ SaidIn(chain, id, {k}, "group", {}) = RuleAt(chain, id, k).group
      /\ SaidIn(chain, id, {k}, "entropy", 0) = RuleAt(chain, id, k).entropy
  BY SaidAlone, SMTT(30)
<1> QED
  BY <1>1, <1>2, <1>3 DEF AsStated

\* What is above replaces what is below, as far as it says something.
LEMMA StatedAbove ==
  ASSUME NEW chain, NEW id, NEW k \in Nat, NEW n \in Nat, NEW S \in SUBSET (k + 1 .. n),
         S # {}, NEW base \in CompiledRule, AsStated(base, chain, id, S)
  PROVE  AsStated(Override(base, RuleAt(chain, id, k)), chain, id, {k} \cup S)
<1> DEFINE own == RuleAt(chain, id, k)
           rule == Override(base, own)
           both == {k} \cup S
<1>0. \A j \in S : j \in 1 .. n /\ j \in Int /\ k <= j
  <2>1. ASSUME NEW j \in S PROVE j \in 1 .. n /\ j \in Int /\ k <= j
    <3>1. j \in k + 1 .. n
      OBVIOUS
    <3> QED
      BY <3>1
  <2> QED
    BY <2>1
<1>1. Max(both) = Max(S)
  <2>1. S \in SUBSET (1 .. n)
    BY <1>0
  <2>2. Max(S) \in S /\ \A j \in S : Max(S) >= j
    BY <2>1, BoundedHasMax
  <2>3. Max(S) \in both /\ both \in SUBSET Int /\ \A j \in both : Max(S) >= j
    <3>1. Max(S) \in Int /\ Max(S) >= k
      BY <1>0, <2>2
    <3> QED
      BY <1>0, <2>2, <3>1
  <2> HIDE DEF both
  <2> QED
    BY <2>3, MaxIs
<1>2. /\ UNION {RuleAt(chain, id, j).keywords : j \in both}
           = own.keywords \cup UNION {RuleAt(chain, id, j).keywords : j \in S}
      /\ UNION {RuleAt(chain, id, j).allowlists : j \in both}
           = own.allowlists \cup UNION {RuleAt(chain, id, j).allowlists : j \in S}
  <2> DEFINE K(j) == RuleAt(chain, id, j).keywords
             L(j) == RuleAt(chain, id, j).allowlists
  <2> HIDE DEF K, L
  <2>1. /\ UNION {K(j) : j \in both} = K(k) \cup UNION {K(j) : j \in S}
        /\ UNION {L(j) : j \in both} = L(k) \cup UNION {L(j) : j \in S}
    OBVIOUS
  <2> QED
    BY <2>1 DEF K, L
<1>3. /\ SaidIn(chain, id, both, "regex", Absent) =
           IF own.regex # Absent THEN own.regex ELSE SaidIn(chain, id, S, "regex", Absent)
      /\ SaidIn(chain, id, both, "path", Absent) =
           IF own.path # Absent THEN own.path ELSE SaidIn(chain, id, S, "path", Absent)
      /\ SaidIn(chain, id, both, "group", {}) =
           IF own.group # {} THEN own.group ELSE SaidIn(chain, id, S, "group", {})
      /\ SaidIn(chain, id, both, "entropy", 0) =
           IF own.entropy # 0 THEN own.entropy ELSE SaidIn(chain, id, S, "entropy", 0)
  <2> HIDE DEF rule
  <2>1. \A field, nothing : SaidIn(chain, id, {k} \cup S, field, nothing) =
           IF RuleAt(chain, id, k)[field] # nothing THEN RuleAt(chain, id, k)[field]
           ELSE SaidIn(chain, id, S, field, nothing)
    BY SaidAbove
  <2> QED
    BY <2>1
<1>4. /\ rule.regex = IF own.regex # Absent THEN own.regex ELSE base.regex
      /\ rule.path = IF own.path # Absent THEN own.path ELSE base.path
      /\ rule.group = IF own.group # {} THEN own.group ELSE base.group
      /\ rule.entropy = IF own.entropy # 0 THEN own.entropy ELSE base.entropy
      /\ rule.required = base.required /\ rule.skipReport = base.skipReport
      /\ rule.keywords = base.keywords \cup own.keywords
      /\ rule.allowlists = base.allowlists \cup own.allowlists
  BY DEF Override, CompiledRule
<1>5. AsStated(base, chain, id, S)
  OBVIOUS
<1> HIDE DEF own, rule, both
<1>6. AsStated(rule, chain, id, both)
  BY <1>1, <1>2, <1>3, <1>4, <1>5 DEF AsStated
<1> QED
  BY <1>6 DEF own, rule, both

\* Saying and Remaining, for the part of a chain from k to n.
SayingIn(chain, k, n, id) ==
  {j \in k .. n :
     /\ id \in IdsOf(Files[chain[j]])
     /\ \A i \in k .. j - 1 : id \notin Files[chain[i]].disabled}

\* The allowlists of a file that are not for some rules only.
ForAllRules(file) == {a.list : a \in {b \in file.allowlists : b.targets = {}}}

\* A configuration is what the files from k to n say.
StatedFrom(config, chain, k, n) ==
  /\ config \in CompiledConfig
  /\ \A id : id \in DOMAIN config.rules <=> SayingIn(chain, k, n, id) # {}
  /\ \A id \in DOMAIN config.rules :
       /\ AsStated(config.rules[id], chain, id, SayingIn(chain, k, n, id))
       /\ config.rules[id].keywords \subseteq config.keywords
  /\ config.allowlists = UNION {ForAllRules(Files[chain[j]]) : j \in k .. n}
  /\ config.targeted = {a \in Files[chain[k]].allowlists : a.targets # {}}

LEMMA SayingSteps ==
  ASSUME NEW chain, NEW k \in Nat, NEW n \in Nat, k <= n, NEW id
  PROVE  /\ SayingIn(chain, k + 1, n, id) \in SUBSET (k + 1 .. n)
         /\ SayingIn(chain, k, n, id) =
              (IF id \in IdsOf(Files[chain[k]]) THEN {k} ELSE {})
                \cup (IF id \in Files[chain[k]].disabled THEN {}
                      ELSE SayingIn(chain, k + 1, n, id))
<1> DEFINE Has(j) == id \in IdsOf(Files[chain[j]])
           Off(j) == id \in Files[chain[j]].disabled
           all == {j \in k .. n : Has(j) /\ \A i \in k .. j - 1 : ~Off(i)}
           below == {j \in k + 1 .. n : Has(j) /\ \A i \in k + 1 .. j - 1 : ~Off(i)}
<1>1. SayingIn(chain, k, n, id) = all /\ SayingIn(chain, k + 1, n, id) = below
  BY DEF SayingIn
<1> HIDE DEF Has, Off
<1>2. \A j : j \in all <=> (j = k /\ Has(k)) \/ (j \in below /\ ~Off(k))
  <2>1. k \in all <=> Has(k)
    <3>1. k .. k - 1 = {} /\ k \in k .. n
      OBVIOUS
    <3> QED
      BY <3>1
  <2>2. k \notin below
    OBVIOUS
  <2>3. ASSUME NEW j, j # k PROVE j \in all <=> j \in below /\ ~Off(k)
    <3>1. j \in k .. n <=> j \in k + 1 .. n
      BY <2>3
    <3>2. ASSUME j \in k + 1 .. n
          PROVE  \A i : i \in k .. j - 1 <=> i = k \/ i \in k + 1 .. j - 1
      BY <3>2
    <3>3. CASE j \in k + 1 .. n
      <4>1. (\A i \in k .. j - 1 : ~Off(i)) <=> ~Off(k) /\ \A i \in k + 1 .. j - 1 : ~Off(i)
        BY <3>2, <3>3
      <4> QED
        BY <3>1, <3>3, <4>1
    <3>4. CASE j \notin k + 1 .. n
      BY <3>1, <3>4
    <3> QED
      BY <3>3, <3>4
  <2> QED
    BY <2>1, <2>2, <2>3
<1>3. below \in SUBSET (k + 1 .. n)
  OBVIOUS
<1> HIDE DEF all, below
<1>4. all = (IF Has(k) THEN {k} ELSE {}) \cup (IF Off(k) THEN {} ELSE below)
  BY <1>2
<1> QED
  BY <1>1, <1>3, <1>4 DEF Has, Off

\* A file alone, and a file that is merged with what it extends.
LEMMA LocalIsStated ==
  ASSUME NEW chain, NEW k \in Nat, chain[k] \in DOMAIN Files
  PROVE  StatedFrom(CompileLocal(Files[chain[k]]), chain, k, k)
<1> DEFINE file == Files[chain[k]]
           config == CompileLocal(file)
<1>1. config \in CompiledConfig
  BY CompileLocalType
<1>2. /\ config.rules = [id \in IdsOf(file) |-> RuleOf(file, id)]
      /\ config.keywords = UNION {file.rules[i].keywords : i \in DOMAIN file.rules}
      /\ config.allowlists = ForAllRules(file)
      /\ config.targeted = {a \in file.allowlists : a.targets # {}}
  BY DEF CompileLocal, ForAllRules
<1>3. ASSUME NEW id
      PROVE  SayingIn(chain, k, k, id) = IF id \in IdsOf(file) THEN {k} ELSE {}
  <2>1. SayingIn(chain, k + 1, k, id) = {}
    <3>1. k + 1 .. k = {}
      OBVIOUS
    <3> QED
      BY <3>1 DEF SayingIn
  <2> QED
    BY <2>1, SayingSteps
<1> HIDE DEF config
<1>4. ASSUME NEW id \in IdsOf(file)
      PROVE  /\ AsStated(config.rules[id], chain, id, {k})
             /\ config.rules[id].keywords \subseteq config.keywords
  <2>1. config.rules[id] = RuleAt(chain, id, k)
    BY <1>2 DEF RuleAt
  <2>2. PICK i \in DOMAIN file.rules : RuleOf(file, id) = file.rules[i]
    BY RuleOfType
  <2>3. config.rules[id].keywords \subseteq config.keywords
    BY <1>2, <2>2
  <2> QED
    BY <2>1, <2>3, StatedAlone
<1>5. UNION {ForAllRules(Files[chain[j]]) : j \in k .. k} = ForAllRules(file)
  <2>1. k .. k = {k}
    OBVIOUS
  <2> QED
    BY <2>1
<1>6. StatedFrom(config, chain, k, k)
  <2>1. DOMAIN config.rules = IdsOf(file)
    BY <1>2
  <2>2. \A id : id \in DOMAIN config.rules <=> SayingIn(chain, k, k, id) # {}
    BY <1>3, <2>1
  <2> HIDE DEF file
  <2>3. \A id \in DOMAIN config.rules :
          /\ AsStated(config.rules[id], chain, id, SayingIn(chain, k, k, id))
          /\ config.rules[id].keywords \subseteq config.keywords
    BY <1>3, <1>4, <2>1
  <2> QED
    BY <1>1, <1>2, <1>5, <2>2, <2>3 DEF StatedFrom, file
<1> QED
  BY <1>6 DEF config

LEMMA MergeIsStated ==
  ASSUME NEW chain, NEW k \in Nat, NEW n \in Nat, k < n, chain[k] \in DOMAIN Files,
         NEW base, StatedFrom(base, chain, k + 1, n)
  PROVE  StatedFrom(MergeExtension(CompileLocal(Files[chain[k]]), base,
                                   Files[chain[k]].disabled), chain, k, n)
<1> DEFINE file == Files[chain[k]]
           own == CompileLocal(file)
           kept == DOMAIN base.rules \ file.disabled
           rules == Merged(own, base, kept)
           keywords == own.keywords \cup UNION {rules[id].keywords : id \in kept}
           allowlists == own.allowlists \cup base.allowlists
           config == MergeExtension(own, base, file.disabled)
           Upper(id) == SayingIn(chain, k + 1, n, id)
           Whole(id) == SayingIn(chain, k, n, id)
<1>1. StatedFrom(own, chain, k, k) /\ own \in CompiledConfig /\ base \in CompiledConfig
  BY LocalIsStated DEF StatedFrom
<1>2. /\ own.rules = [id \in IdsOf(file) |-> RuleOf(file, id)]
      /\ own.keywords = UNION {file.rules[i].keywords : i \in DOMAIN file.rules}
      /\ own.allowlists = ForAllRules(file)
      /\ own.targeted = {a \in file.allowlists : a.targets # {}}
  BY DEF CompileLocal, ForAllRules
<1>3. config = [own EXCEPT !.rules = rules, !.keywords = keywords, !.allowlists = allowlists]
  <2>1. own = [own EXCEPT !.rules = own.rules]
    BY <1>1 DEF CompiledConfig
  <2> QED
    BY <1>1 DEF MergeExtension, CompiledConfig
<1>4. \A id : /\ Upper(id) \in SUBSET (k + 1 .. n)
              /\ Whole(id) = (IF id \in IdsOf(file) THEN {k} ELSE {})
                                \cup (IF id \in file.disabled THEN {} ELSE Upper(id))
  BY SayingSteps
<1>5. /\ \A id : id \in DOMAIN base.rules <=> Upper(id) # {}
      /\ \A id \in DOMAIN base.rules :
           /\ AsStated(base.rules[id], chain, id, Upper(id))
           /\ base.rules[id].keywords \subseteq base.keywords
      /\ base.allowlists = UNION {ForAllRules(Files[chain[j]]) : j \in k + 1 .. n}
  BY DEF StatedFrom
<1>6. /\ base.rules \in [DOMAIN base.rules -> CompiledRule]
      /\ own.rules \in [DOMAIN own.rules -> CompiledRule]
      /\ DOMAIN base.rules \subseteq 1 .. MaxRuleId /\ DOMAIN own.rules \subseteq 1 .. MaxRuleId
      /\ own.keywords \in SUBSET Words
      /\ own.allowlists \in SUBSET Lists /\ base.allowlists \in SUBSET Lists
  BY <1>1, ConfigFields
<1>7. /\ DOMAIN rules = kept \cup IdsOf(file)
      /\ \A id \in DOMAIN rules :
           rules[id] = IF id \notin kept THEN own.rules[id]
                       ELSE IF id \notin DOMAIN own.rules THEN base.rules[id]
                       ELSE Override(base.rules[id], own.rules[id])
  BY <1>2 DEF Merged
<1>8. DOMAIN own.rules = IdsOf(file)
      /\ \A id \in IdsOf(file) : own.rules[id] = RuleAt(chain, id, k)
  BY <1>2 DEF RuleAt
<1>9. \A id \in DOMAIN own.rules : own.rules[id].keywords \subseteq own.keywords
  BY <1>1 DEF StatedFrom
<1> HIDE DEF own, rules, Upper, Whole
<1>10. ASSUME NEW id \in DOMAIN rules
       PROVE  /\ rules[id] \in CompiledRule
              /\ AsStated(rules[id], chain, id, Whole(id))
              /\ id \notin kept => rules[id].keywords \subseteq own.keywords
  <2> HIDE DEF file, kept
  <2>1. CASE id \notin kept
    <3>1. id \in IdsOf(file) /\ rules[id] = RuleAt(chain, id, k)
      BY <1>7, <1>8, <2>1
    <3>2. Whole(id) = {k}
      BY <1>4, <1>5, <2>1, <3>1 DEF kept
    <3>3. rules[id] = own.rules[id]
      BY <1>7, <2>1
    <3> QED
      BY <1>6, <1>8, <1>9, <3>1, <3>2, <3>3, StatedAlone
  <2>2. CASE id \in kept /\ id \notin IdsOf(file)
    <3>1. Whole(id) = Upper(id)
      BY <1>4, <2>2 DEF kept
    <3>2. id \in DOMAIN base.rules /\ rules[id] = base.rules[id]
      BY <1>7, <1>8, <2>2 DEF kept
    <3> QED
      BY <1>5, <1>6, <2>2, <3>1, <3>2
  <2>3. CASE id \in kept /\ id \in IdsOf(file)
    <3>1. Whole(id) = {k} \cup Upper(id)
      BY <1>4, <2>3 DEF kept
    <3>2. id \in DOMAIN base.rules /\ id \in DOMAIN own.rules
      BY <1>8, <2>3 DEF kept
    <3>3. rules[id] = Override(base.rules[id], own.rules[id])
      BY <1>7, <2>3, <3>2
    <3>4. base.rules[id] \in CompiledRule /\ own.rules[id] \in CompiledRule
      BY <1>6, <3>2
    <3>5. own.rules[id] = RuleAt(chain, id, k)
      BY <1>8, <2>3
    <3>6. Upper(id) \in SUBSET (k + 1 .. n) /\ Upper(id) # {}
          /\ AsStated(base.rules[id], chain, id, Upper(id))
      BY <1>4, <1>5, <3>2
    <3>7. AsStated(Override(base.rules[id], RuleAt(chain, id, k)), chain, id,
                   {k} \cup Upper(id))
      BY <3>4, <3>6, StatedAbove
    <3>8. Override(base.rules[id], own.rules[id]) \in CompiledRule
      BY <3>4, OverrideType
    <3> QED
      BY <2>3, <3>1, <3>3, <3>5, <3>7, <3>8
  <2> QED
    BY <2>1, <2>2, <2>3
<1>11. config \in CompiledConfig
  <2>1. DOMAIN rules \in SUBSET (1 .. MaxRuleId)
    BY <1>6, <1>7, <1>8
  <2>2. rules \in [DOMAIN rules -> CompiledRule]
    BY <1>7, <1>10 DEF rules, Merged
  <2>3. keywords \in SUBSET Words
    <3>1. \A id \in kept : rules[id] \in CompiledRule
      BY <1>7, <1>10
    <3> HIDE DEF kept
    <3>2. \A id \in kept : rules[id].keywords \in SUBSET Words
      BY <3>1 DEF CompiledRule
    <3> QED
      BY <1>6, <3>2
  <2>4. allowlists \in SUBSET Lists
    BY <1>6
  <2> HIDE DEF config, keywords, allowlists
  <2> QED
    BY <1>1, <1>3, <2>1, <2>2, <2>3, <2>4, ConfigWith
<1>12. /\ config.rules = rules /\ config.keywords = keywords
       /\ config.allowlists = allowlists /\ config.targeted = own.targeted
  <2> HIDE DEF config, keywords, allowlists
  <2> QED
    BY <1>1, <1>3 DEF CompiledConfig
<1>13. \A id : id \in DOMAIN rules <=> Whole(id) # {}
  <2> HIDE DEF file
  <2>1. ASSUME NEW id PROVE id \in DOMAIN rules <=> Whole(id) # {}
    BY <1>4, <1>5, <1>7
  <2> QED
    BY <2>1
<1>14. \A id \in DOMAIN rules : rules[id].keywords \subseteq keywords
  <2> HIDE DEF kept
  <2> QED
    BY <1>10
<1>15. allowlists = UNION {ForAllRules(Files[chain[j]]) : j \in k .. n}
  <2> DEFINE L(j) == ForAllRules(Files[chain[j]])
  <2>1. own.allowlists = L(k) /\ base.allowlists = UNION {L(j) : j \in k + 1 .. n}
    BY <1>2, <1>5
  <2> HIDE DEF L
  <2>2. k .. n = {k} \cup (k + 1 .. n)
    OBVIOUS
  <2>3. allowlists = UNION {L(j) : j \in k .. n}
    BY <2>1, <2>2
  <2> QED
    BY <2>3 DEF L
<1>16. own.targeted = {a \in Files[chain[k]].allowlists : a.targets # {}}
  BY <1>2
<1> HIDE DEF config, keywords, allowlists, kept
<1>17. StatedFrom(config, chain, k, n)
  BY <1>10, <1>11, <1>12, <1>13, <1>14, <1>15, <1>16 DEF StatedFrom, Whole
<1> QED
  BY <1>17 DEF config, own

\* What the next file of a chain is, unless it ends.
Extended(name) == CHOOSE b \in Files[name].extends : TRUE
Ends(name) == name \notin DOMAIN Files \/ Cardinality(Files[name].extends) # 1

\* A chain goes on until it ends or has as many files as there are depths.
IsChain(chain, top, depth) ==
  /\ Len(chain) \in 1 .. depth + 1 /\ DOMAIN chain = 1 .. Len(chain)
  /\ chain[1] = top
  /\ \A k \in 1 .. Len(chain) - 1 : ~Ends(chain[k]) /\ chain[k + 1] = Extended(chain[k])
  /\ Len(chain) <= depth => Ends(chain[Len(chain)])

LEMMA OneMoreFile ==
  ASSUME NEW S, NEW above \in Seq(S), NEW top, NEW depth \in Nat, IsChain(above, top, depth)
  PROVE  /\ Ends(Last(above)) => IsChain(above, top, depth + 1)
         /\ ~Ends(Last(above)) =>
              IsChain(Append(above, Extended(Last(above))), top, depth + 1)
<1> DEFINE n == Len(above)
           next == Extended(Last(above))
           longer == Append(above, next)
<1>1. n \in 1 .. depth + 1 /\ n \in Nat /\ Last(above) = above[n]
  BY DEF IsChain, Last
<1>2. CASE Ends(Last(above))
  <2>1. n \in 1 .. (depth + 1) + 1
    BY <1>1
  <2> QED
    BY <1>1, <1>2, <2>1 DEF IsChain
<1>3. CASE ~Ends(Last(above))
  <2>1. n = depth + 1
    <3>1. ~(n <= depth)
      BY <1>1, <1>3 DEF IsChain
    <3> HIDE DEF n
    <3> QED
      BY <1>1, <3>1
  <2>2. /\ Len(longer) = n + 1 /\ DOMAIN longer = 1 .. n + 1
        /\ longer[n + 1] = next /\ \A k \in 1 .. n : longer[k] = above[k]
    <3> HIDE DEF next
    <3>1. above \in Seq(S \cup {next})
      OBVIOUS
    <3>2. longer \in Seq(S \cup {next}) /\ Len(longer) = n + 1
          /\ longer[n + 1] = next /\ \A k \in 1 .. n : longer[k] = above[k]
      BY <3>1, AppendProperties
    <3> HIDE DEF longer, n
    <3> QED
      BY <3>2
  <2> HIDE DEF longer
  <2>3. longer[1] = top
    BY <1>1, <2>2 DEF IsChain
  <2>4. ASSUME NEW k \in 1 .. n
        PROVE  ~Ends(longer[k]) /\ longer[k + 1] = Extended(longer[k])
    <3>1. CASE k = n
      BY <1>1, <1>3, <2>2, <3>1
    <3>2. CASE k # n
      <4>1. k \in 1 .. n - 1 /\ k + 1 \in 1 .. n /\ k \in 1 .. n
        BY <1>1, <3>2
      <4>2. ~Ends(above[k]) /\ above[k + 1] = Extended(above[k])
        BY <4>1 DEF IsChain
      <4>3. longer[k] = above[k] /\ longer[k + 1] = above[k + 1]
        BY <2>2, <4>1
      <4> QED
        BY <4>2, <4>3
    <3> QED
      BY <3>1, <3>2
  <2>5. Len(longer) \in 1 .. (depth + 1) + 1 /\ Len(longer) - 1 = n
        /\ ~(Len(longer) <= depth + 1)
    BY <1>1, <2>1, <2>2
  <2> HIDE DEF n
  <2>6. IsChain(longer, top, depth + 1)
    BY <2>2, <2>3, <2>4, <2>5 DEF IsChain
  <2> QED
    BY <1>3, <2>6 DEF longer
<1> QED
  BY <1>2, <1>3

\* The chain of a request is one.
LEMMA ChainIsChain ==
  ASSUME NEW asked
  PROVE  IsChain(Chain(asked), asked.top, MaxExtendDepth)
<1> DEFINE More(above) ==
             LET extends == Files[Last(above)].extends
             IN IF Last(above) \notin DOMAIN Files \/ Cardinality(extends) # 1 THEN above
                ELSE Append(above, CHOOSE b \in extends : TRUE)
           first == <<asked.top>>
           Is(f, m) == f = [d \in 0 .. m |-> IF d = 0 THEN first ELSE More(f[d - 1])]
           S == {m \in Nat : \E f : Is(f, m)}
           chains == CHOOSE f : Is(f, MaxExtendDepth)
<1>0. Chain(asked) = chains[MaxExtendDepth]
  BY DEF Chain
<1>a. \A above : More(above) = IF Ends(Last(above)) THEN above
                               ELSE Append(above, Extended(Last(above)))
  BY DEF Ends, Extended
<1>b. MaxExtendDepth \in Nat
  BY FileAssumption
<1> HIDE DEF first, More
<1>1. 0 \in S
  <2> DEFINE f == [i \in 0 .. 0 |-> first]
  <2>1. Is(f, 0)
    OBVIOUS
  <2> QED
    BY <2>1
<1>2. ASSUME NEW m \in Nat, m \in S PROVE m + 1 \in S
  <2>1. PICK f : Is(f, m)
    BY <1>2
  <2> DEFINE g == [i \in 0 .. m + 1 |-> IF i \in 0 .. m THEN f[i] ELSE More(f[m])]
  <2>2. \A i \in 0 .. m : f[i] = IF i = 0 THEN first ELSE More(f[i - 1])
    BY <2>1
  <2>3. ASSUME NEW i \in 0 .. m + 1
        PROVE  g[i] = IF i = 0 THEN first ELSE More(g[i - 1])
    <3>1. CASE i = 0
      BY <3>1, <2>2
    <3>2. CASE i \in 1 .. m
      <4>1. i - 1 \in 0 .. m /\ i \in 0 .. m /\ i # 0
        BY <3>2
      <4>2. g[i] = f[i] /\ g[i - 1] = f[i - 1]
        BY <4>1
      <4> HIDE DEF g
      <4> QED
        BY <4>1, <4>2, <2>2
    <3>3. CASE i = m + 1
      <4>1. i - 1 = m /\ i \notin 0 .. m /\ m \in 0 .. m /\ m \in 0 .. m + 1 /\ i # 0
        BY <3>3
      <4> QED
        BY <4>1, <3>3
    <3> QED
      BY <3>1, <3>2, <3>3
  <2> HIDE DEF g
  <2>4. g = [i \in 0 .. m + 1 |-> g[i]]
    BY DEF g
  <2>5. Is(g, m + 1)
    BY <2>3, <2>4
  <2> QED
    BY <2>5
<1>3. MaxExtendDepth \in S
  <2> HIDE DEF S
  <2> QED
    BY <1>1, <1>2, <1>b, SetInduction
<1>4. Is(chains, MaxExtendDepth)
  <2> HIDE DEF Is
  <2> QED
    BY <1>3
<1>5. \A d \in 0 .. MaxExtendDepth :
        chains[d] = IF d = 0 THEN first ELSE More(chains[d - 1])
  BY <1>4
<1> HIDE DEF Is, S, chains
<1> DEFINE Names == {asked.top} \cup {Extended(name) : name \in DOMAIN Files}
           P == {m \in Nat : m <= MaxExtendDepth =>
                   chains[m] \in Seq(Names) /\ IsChain(chains[m], asked.top, m)}
<1>6. 0 \in P
  <2>1. chains[0] = <<asked.top>>
    BY <1>5, <1>b DEF first
  <2>2. <<asked.top>> \in Seq(Names)
    OBVIOUS
  <2>3. IsChain(<<asked.top>>, asked.top, 0)
    BY DEF IsChain
  <2> QED
    BY <2>1, <2>2, <2>3
<1>7. ASSUME NEW m \in Nat, m \in P PROVE m + 1 \in P
  <2>1. SUFFICES ASSUME m + 1 <= MaxExtendDepth
                 PROVE  chains[m + 1] \in Seq(Names) /\ IsChain(chains[m + 1], asked.top, m + 1)
    OBVIOUS
  <2> DEFINE above == chains[m]
  <2>2. above \in Seq(Names) /\ IsChain(above, asked.top, m)
    BY <1>7, <1>b, <2>1
  <2>3. chains[m + 1] = More(above)
    <3>1. m + 1 \in 0 .. MaxExtendDepth /\ m + 1 # 0 /\ (m + 1) - 1 = m
      BY <1>b, <2>1
    <3> QED
      BY <1>5, <3>1
  <2>4. chains[m + 1] = IF Ends(Last(above)) THEN above
                        ELSE Append(above, Extended(Last(above)))
    BY <1>a, <2>3
  <2>5. ~Ends(Last(above)) => Extended(Last(above)) \in Names
    BY DEF Ends
  <2> HIDE DEF above, Names
  <2> QED
    BY <2>2, <2>4, <2>5, OneMoreFile
<1>8. MaxExtendDepth \in P
  <2> HIDE DEF P
  <2> QED
    BY <1>6, <1>7, <1>b, SetInduction
<1> QED
  BY <1>0, <1>8, <1>b

\* A mistake in one file of a chain.
Wrong(chain, k) ==
  \/ chain[k] \notin DOMAIN Files
  \/ k <= MaxExtendDepth /\ Cardinality(Files[chain[k]].extends) > 1
  \/ ~RequiredExist(CompileLocal(Files[chain[k]]).rules)

\* What the loader makes of the file at a place and of what it extends.
CompiledAt(chain, k) == Named(CompileLevel[(MaxExtendDepth + 1) - k], chain[k])

\* It is what the files from there on say, and nothing if one of them has a mistake.
IsCompiled(chain, k, n) ==
  /\ CompiledAt(chain, k) = Absent <=> \E j \in k .. n : Wrong(chain, j)
  /\ CompiledAt(chain, k) # Absent => StatedFrom(CompiledAt(chain, k), chain, k, n)

LEMMA AloneIs ==
  ASSUME NEW name \in DOMAIN Files
  PROVE  /\ RequiredExist(CompileLocal(Files[name]).rules) =>
              CompileAlone(Files[name]) = CompileLocal(Files[name])
         /\ RequiredExist(CompileLocal(Files[name]).rules) <=> CompileAlone(Files[name]) # Absent
<1>1. CompileLocal(Files[name]) # Absent
  BY CompileLocalType, ConfigFields
<1> QED
  BY <1>1 DEF CompileAlone

LEMMA LastIsCompiled ==
  ASSUME NEW chain, NEW top, IsChain(chain, top, MaxExtendDepth), NEW n, n = Len(chain)
  PROVE  IsCompiled(chain, n, n)
<1> DEFINE name == chain[n]
           file == Files[name]
           level == (MaxExtendDepth + 1) - n
<1>1. MaxExtendDepth \in Nat /\ n \in 1 .. MaxExtendDepth + 1 /\ n \in Nat
  BY FileAssumption DEF IsChain
<1>2. level \in 0 .. MaxExtendDepth /\ (level = 0 <=> ~(n <= MaxExtendDepth))
  BY <1>1
<1>3. (\E j \in n .. n : Wrong(chain, j)) <=> Wrong(chain, n)
  <2>1. \A j : j \in n .. n <=> j = n
    BY <1>1
  <2> QED
    BY <2>1
<1>4. CASE name \notin DOMAIN Files
  <2>1. DOMAIN CompileLevel[level] = DOMAIN Files
    <3>1. level = 0 \/ level \in 1 .. MaxExtendDepth
      BY <1>2
    <3> QED
      BY <3>1, CompileLevelSteps
  <2>2. CompiledAt(chain, n) = Absent
    BY <1>4, <2>1 DEF CompiledAt, Named
  <2> QED
    BY <1>3, <1>4, <2>2 DEF IsCompiled, Wrong
<1>5. CASE name \in DOMAIN Files
  <2>1. CASE level = 0
    <3>1. CompiledAt(chain, n) = CompileAlone(file)
      BY <1>5, <2>1, CompileLevelSteps DEF CompiledAt, Named
    <3>2. Wrong(chain, n) <=> ~RequiredExist(CompileLocal(file).rules)
      BY <1>2, <1>5, <2>1 DEF Wrong
    <3> QED
      BY <1>1, <1>3, <1>5, <3>1, <3>2, AloneIs, LocalIsStated DEF IsCompiled
  <2>2. CASE level # 0
    <3> DEFINE own == CompileAlone(file)
               bases == CompileLevel[level - 1]
               base == Named(bases, CHOOSE b \in file.extends : TRUE)
    <3>1. level \in 1 .. MaxExtendDepth /\ n <= MaxExtendDepth
      BY <1>2, <2>2
    <3>2. CompiledAt(chain, n) = CompileOver(file, bases)
      <4>1. CompileLevel[level] = [some \in DOMAIN Files |-> CompileOver(Files[some], bases)]
        BY <3>1, CompileLevelSteps
      <4>2. CompiledAt(chain, n) = Named(CompileLevel[level], name)
        BY DEF CompiledAt
      <4> HIDE DEF bases, level, name
      <4> QED
        BY <1>5, <4>1, <4>2 DEF Named
    <3>3. CompiledAt(chain, n) =
            IF own = Absent \/ file.extends = {} THEN own
            ELSE IF Cardinality(file.extends) > 1 \/ base = Absent THEN Absent
            ELSE MergeExtension(own, base, file.disabled)
      BY <3>2 DEF CompileOver
    <3>4. Cardinality(file.extends) # 1
      BY <1>5, <3>1 DEF IsChain, Ends
    <3>5. file.extends # {} <=> Cardinality(file.extends) > 1
      <4>1. IsFiniteSet(file.extends)
        BY <1>5, FileAssumption
      <4>2. Cardinality(file.extends) \in Nat
            /\ (Cardinality(file.extends) = 0 <=> file.extends = {})
        BY <4>1, FS_CardinalityType, FS_EmptySet
      <4> QED
        BY <3>4, <4>2
    <3> HIDE DEF base, bases
    <3>6. CompiledAt(chain, n) = IF file.extends = {} THEN own ELSE Absent
      BY <3>3, <3>5
    <3>7. Wrong(chain, n) <=> file.extends # {} \/ ~RequiredExist(CompileLocal(file).rules)
      BY <1>5, <3>1, <3>5 DEF Wrong
    <3> QED
      BY <1>1, <1>3, <1>5, <3>6, <3>7, AloneIs, LocalIsStated DEF IsCompiled
  <2> QED
    BY <2>1, <2>2
<1> QED
  BY <1>4, <1>5

LEMMA OneAboveIsCompiled ==
  ASSUME NEW chain, NEW top, IsChain(chain, top, MaxExtendDepth), NEW n, n = Len(chain),
         NEW k \in 1 .. n - 1, IsCompiled(chain, k + 1, n)
  PROVE  IsCompiled(chain, k, n)
<1> DEFINE name == chain[k]
           file == Files[name]
           level == (MaxExtendDepth + 1) - k
           own == CompileAlone(file)
           base == CompiledAt(chain, k + 1)
<1>1. MaxExtendDepth \in Nat /\ n \in 1 .. MaxExtendDepth + 1 /\ n \in Nat
  BY FileAssumption DEF IsChain
<1>2. /\ level \in 1 .. MaxExtendDepth /\ level - 1 = (MaxExtendDepth + 1) - (k + 1)
      /\ k \in Nat /\ k < n /\ k <= MaxExtendDepth
  BY <1>1
<1>3. name \in DOMAIN Files /\ Cardinality(file.extends) = 1 /\ chain[k + 1] = Extended(name)
  BY DEF IsChain, Ends
<1>4. file.extends # {} /\ ~(Cardinality(file.extends) > 1)
  <2>1. IsFiniteSet(file.extends)
    BY <1>3, FileAssumption
  <2>2. Cardinality(file.extends) = 0 <=> file.extends = {}
    BY <2>1, FS_EmptySet
  <2> QED
    BY <1>3, <2>2
<1>5. CompiledAt(chain, k) =
        IF own = Absent \/ base = Absent THEN Absent
        ELSE MergeExtension(own, base, file.disabled)
  <2>1. CompiledAt(chain, k) = CompileOver(file, CompileLevel[level - 1])
    BY <1>2, <1>3, CompileLevelSteps DEF CompiledAt, Named
  <2>2. base = Named(CompileLevel[level - 1], CHOOSE b \in file.extends : TRUE)
    BY <1>2, <1>3 DEF CompiledAt, Extended
  <2> HIDE DEF base, level
  <2> QED
    BY <1>4, <2>1, <2>2 DEF CompileOver
<1>6. Wrong(chain, k) <=> ~RequiredExist(CompileLocal(file).rules)
  BY <1>3, <1>4 DEF Wrong
<1>7. (\E j \in k .. n : Wrong(chain, j))
        <=> Wrong(chain, k) \/ \E j \in k + 1 .. n : Wrong(chain, j)
  <2>1. k .. n = {k} \cup (k + 1 .. n)
    BY <1>1, <1>2
  <2> QED
    BY <2>1
<1>8. base = Absent <=> \E j \in k + 1 .. n : Wrong(chain, j)
  BY DEF IsCompiled
<1>9. base # Absent => StatedFrom(base, chain, k + 1, n)
  BY DEF IsCompiled
<1>10. /\ own # Absent <=> RequiredExist(CompileLocal(file).rules)
       /\ own # Absent => own = CompileLocal(file)
  BY <1>3, AloneIs
<1> HIDE DEF base, own, level
<1>11. own # Absent /\ base # Absent =>
         StatedFrom(MergeExtension(own, base, file.disabled), chain, k, n)
  BY <1>1, <1>2, <1>3, <1>9, <1>10, MergeIsStated
<1>12. own # Absent /\ base # Absent => MergeExtension(own, base, file.disabled) # Absent
  BY <1>11, ConfigFields DEF StatedFrom
<1> QED
  BY <1>5, <1>6, <1>7, <1>8, <1>10, <1>11, <1>12 DEF IsCompiled

LEMMA TopIsCompiled ==
  ASSUME NEW chain, NEW top, IsChain(chain, top, MaxExtendDepth)
  PROVE  IsCompiled(chain, 1, Len(chain))
<1> DEFINE n == Len(chain)
           P == {m \in Nat : m <= n - 1 => IsCompiled(chain, n - m, n)}
<1>1. n \in Nat /\ n >= 1
  BY FileAssumption DEF IsChain
<1>2. 0 \in P
  <2>1. n - 0 = n
    BY <1>1
  <2> QED
    BY <2>1, LastIsCompiled
<1>3. ASSUME NEW m \in Nat, m \in P PROVE m + 1 \in P
  <2>1. SUFFICES ASSUME m + 1 <= n - 1 PROVE IsCompiled(chain, n - (m + 1), n)
    OBVIOUS
  <2> DEFINE k == n - (m + 1)
  <2>2. k \in 1 .. n - 1 /\ k + 1 = n - m /\ m <= n - 1
    BY <1>1, <2>1
  <2>3. IsCompiled(chain, k + 1, n)
    BY <1>3, <2>2
  <2> HIDE DEF k
  <2>4. IsCompiled(chain, k, n)
    BY <2>2, <2>3, OneAboveIsCompiled
  <2> QED
    BY <2>4 DEF k
<1>4. n - 1 \in P
  <2>1. n - 1 \in Nat
    BY <1>1
  <2> HIDE DEF P, n
  <2> QED
    BY <1>2, <1>3, <2>1, SetInduction
<1>5. n - (n - 1) = 1 /\ n - 1 <= n - 1
  BY <1>1
<1> HIDE DEF n
<1> QED
  BY <1>4, <1>5 DEF n

\* What the whole chain says.
LEMMA SayingAll ==
  ASSUME NEW chain, NEW n, DOMAIN chain = 1 .. n, NEW id
  PROVE  /\ Saying(chain, id) = SayingIn(chain, 1, n, id)
         /\ id \in Remaining(chain) <=> Saying(chain, id) # {}
         /\ \A field, nothing : Said(chain, id, field, nothing) =
              SaidIn(chain, id, Saying(chain, id), field, nothing)
<1>1. Saying(chain, id) = SayingIn(chain, 1, n, id)
  BY DEF Saying, SayingIn
<1>2. id \in Remaining(chain) <=> Saying(chain, id) # {}
  <2>1. Saying(chain, id) # {} => \E k \in DOMAIN chain : id \in IdsOf(Files[chain[k]])
    BY DEF Saying
  <2> QED
    BY <2>1 DEF Remaining
<1> QED
  BY <1>1, <1>2 DEF Said, SaidIn

\* The mistakes of a chain are those of its files.
WrongChain(chain) ==
  \/ \E k \in DOMAIN chain : chain[k] \notin DOMAIN Files
  \/ \E k \in 1 .. Min({MaxExtendDepth, Len(chain)}) :
       Cardinality(Files[chain[k]].extends) > 1
  \/ \E k \in DOMAIN chain : ~RequiredExist(CompileLocal(Files[chain[k]]).rules)

LEMMA WrongChainIs ==
  ASSUME NEW chain, NEW top, IsChain(chain, top, MaxExtendDepth)
  PROVE  WrongChain(chain) <=> \E k \in 1 .. Len(chain) : Wrong(chain, k)
<1> DEFINE n == Len(chain)
           both == {MaxExtendDepth, n}
<1>1. MaxExtendDepth \in Nat /\ n \in Nat /\ DOMAIN chain = 1 .. n
  BY FileAssumption DEF IsChain
<1>2. \A k : k \in 1 .. Min(both) <=> k \in 1 .. n /\ k <= MaxExtendDepth
  <2>1. CASE n <= MaxExtendDepth
    <3>1. Min(both) = n
      <4>1. n \in both /\ both \in SUBSET Int /\ \A y \in both : n <= y
        BY <1>1, <2>1
      <4> HIDE DEF both
      <4> QED
        BY <4>1, MinIs
    <3> HIDE DEF both, n
    <3> QED
      BY <1>1, <2>1, <3>1
  <2>2. CASE ~(n <= MaxExtendDepth)
    <3>1. Min(both) = MaxExtendDepth
      <4>1. MaxExtendDepth \in both /\ both \in SUBSET Int /\ \A y \in both : MaxExtendDepth <= y
        BY <1>1, <2>2
      <4> HIDE DEF both
      <4> QED
        BY <4>1, MinIs
    <3> HIDE DEF both, n
    <3> QED
      BY <1>1, <2>2, <3>1
  <2> QED
    BY <2>1, <2>2
<1> HIDE DEF n, both
<1>3. (\E k \in 1 .. Min(both) : Cardinality(Files[chain[k]].extends) > 1)
        <=> \E k \in 1 .. n : k <= MaxExtendDepth /\ Cardinality(Files[chain[k]].extends) > 1
  BY <1>2
<1>4. WrongChain(chain) <=>
        \/ \E k \in 1 .. n : chain[k] \notin DOMAIN Files
        \/ \E k \in 1 .. n : k <= MaxExtendDepth /\ Cardinality(Files[chain[k]].extends) > 1
        \/ \E k \in 1 .. n : ~RequiredExist(CompileLocal(Files[chain[k]]).rules)
  BY <1>1, <1>3 DEF WrongChain, both, n
<1>5. (\E k \in 1 .. n : Wrong(chain, k)) <=>
        \/ \E k \in 1 .. n : chain[k] \notin DOMAIN Files
        \/ \E k \in 1 .. n : k <= MaxExtendDepth /\ Cardinality(Files[chain[k]].extends) > 1
        \/ \E k \in 1 .. n : ~RequiredExist(CompileLocal(Files[chain[k]]).rules)
  BY DEF Wrong
<1> QED
  BY <1>4, <1>5 DEF n

\* The file at the top also aims allowlists at rules.
Aimed(top, id) == {a.list : a \in {b \in Files[top].allowlists : id \in b.targets}}

\* A rule of an engine is what the chain says, with the allowlists that are aimed at it.
IsConfigured(rule, chain, top, id) ==
  /\ rule.regex = Said(chain, id, "regex", Absent)
  /\ rule.path = Said(chain, id, "path", Absent)
  /\ rule.group = Said(chain, id, "group", {})
  /\ rule.entropy = Said(chain, id, "entropy", 0)
  /\ rule.required = RuleAt(chain, id, Max(Saying(chain, id))).required
  /\ rule.skipReport = RuleAt(chain, id, Max(Saying(chain, id))).skipReport
  /\ rule.keywords = UNION {RuleAt(chain, id, k).keywords : k \in Saying(chain, id)}
  /\ rule.allowlists = (UNION {RuleAt(chain, id, k).allowlists : k \in Saying(chain, id)})
                         \cup Aimed(top, id)

LEMMA AimedIsConfigured ==
  ASSUME NEW chain, NEW top, NEW id, NEW rule \in CompiledRule,
         AsStated(rule, chain, id, Saying(chain, id)), DOMAIN chain = 1 .. Len(chain)
  PROVE  IsConfigured([rule EXCEPT !.allowlists = @ \cup Aimed(top, id)], chain, top, id)
<1> DEFINE lists == rule.allowlists \cup Aimed(top, id)
           aimed == [rule EXCEPT !.allowlists = lists]
<1>1. /\ aimed.regex = rule.regex /\ aimed.path = rule.path
      /\ aimed.group = rule.group /\ aimed.entropy = rule.entropy
      /\ aimed.required = rule.required /\ aimed.skipReport = rule.skipReport
      /\ aimed.keywords = rule.keywords /\ aimed.allowlists = lists
  BY DEF CompiledRule
<1>2. [rule EXCEPT !.allowlists = @ \cup Aimed(top, id)] = aimed
  BY DEF CompiledRule
<1> HIDE DEF aimed
<1>3. IsConfigured(aimed, chain, top, id)
  <2>1. \A field, nothing : Said(chain, id, field, nothing) =
              SaidIn(chain, id, Saying(chain, id), field, nothing)
    BY SayingAll
  <2> DEFINE saying == Saying(chain, id)
  <2>2. /\ Said(chain, id, "regex", Absent) = SaidIn(chain, id, saying, "regex", Absent)
        /\ Said(chain, id, "path", Absent) = SaidIn(chain, id, saying, "path", Absent)
        /\ Said(chain, id, "group", {}) = SaidIn(chain, id, saying, "group", {})
        /\ Said(chain, id, "entropy", 0) = SaidIn(chain, id, saying, "entropy", 0)
    BY <2>1
  <2>3. AsStated(rule, chain, id, saying)
    OBVIOUS
  <2> HIDE DEF saying
  <2>4. /\ aimed.regex = Said(chain, id, "regex", Absent)
        /\ aimed.path = Said(chain, id, "path", Absent)
        /\ aimed.group = Said(chain, id, "group", {})
        /\ aimed.entropy = Said(chain, id, "entropy", 0)
        /\ aimed.required = RuleAt(chain, id, Max(saying)).required
        /\ aimed.skipReport = RuleAt(chain, id, Max(saying)).skipReport
    BY <1>1, <2>2, <2>3 DEF AsStated
  <2>5. /\ aimed.keywords = UNION {RuleAt(chain, id, k).keywords : k \in saying}
        /\ aimed.allowlists = (UNION {RuleAt(chain, id, k).allowlists : k \in saying})
                                \cup Aimed(top, id)
    BY <1>1, <2>3 DEF AsStated
  <2> QED
    BY <2>4, <2>5 DEF IsConfigured, saying
<1> QED
  BY <1>2, <1>3

LEMMA ConfigWithRules ==
  ASSUME NEW config \in CompiledConfig, NEW ids \in SUBSET (1 .. MaxRuleId),
         NEW rules \in [ids -> CompiledRule], NEW keywords \in SUBSET Words
  PROVE  /\ [config EXCEPT !.rules = rules] \in CompiledConfig
         /\ [config EXCEPT !.rules = rules, !.keywords = keywords] \in CompiledConfig
<1>1. rules \in UNION {[some -> CompiledRule] : some \in SUBSET (1 .. MaxRuleId)}
  OBVIOUS
<1> QED
  BY <1>1 DEF CompiledConfig

\* What is compiled before rules are selected.
CompiledTop(at, chain, top) ==
  /\ at \in CompiledConfig
  /\ DOMAIN at.rules = Remaining(chain)
  /\ at.allowlists = UNION {ForAllRules(Files[chain[k]]) : k \in DOMAIN chain}
  /\ \A id \in DOMAIN at.rules :
       /\ IsConfigured(at.rules[id], chain, top, id)
       /\ at.rules[id].keywords \subseteq at.keywords

\* The mistakes that are found when the chain is compiled.
WrongWhole(chain, top) ==
  \/ \E id \in Remaining(chain) :
       Said(chain, id, "regex", Absent) = Absent /\ Said(chain, id, "path", Absent) = Absent
  \/ \E a \in Files[top].allowlists : ~(a.targets \subseteq Remaining(chain))

LEMMA TargetedIsConfigured ==
  ASSUME NEW chain, NEW top, chain[1] = top, DOMAIN chain = 1 .. Len(chain), 1 \in DOMAIN chain,
         NEW config, StatedFrom(config, chain, 1, Len(chain))
  PROVE  /\ CompiledTop(WithTargeted(config), chain, top)
         /\ HavePatterns(config.rules) /\ TargetsExist(config) <=> ~WrongWhole(chain, top)
<1> DEFINE For(id) == {a.list : a \in {b \in config.targeted : id \in b.targets}}
           rules == [id \in DOMAIN config.rules |->
                       [config.rules[id] EXCEPT !.allowlists = @ \cup For(id)]]
           at == WithTargeted(config)
<1>1. /\ config \in CompiledConfig
      /\ \A id : id \in DOMAIN config.rules <=> SayingIn(chain, 1, Len(chain), id) # {}
      /\ \A id \in DOMAIN config.rules :
           /\ AsStated(config.rules[id], chain, id, SayingIn(chain, 1, Len(chain), id))
           /\ config.rules[id].keywords \subseteq config.keywords
      /\ config.allowlists = UNION {ForAllRules(Files[chain[j]]) : j \in DOMAIN chain}
      /\ config.targeted = {a \in Files[top].allowlists : a.targets # {}}
  BY DEF StatedFrom
<1>2. /\ DOMAIN config.rules \in SUBSET (1 .. MaxRuleId)
      /\ config.rules \in [DOMAIN config.rules -> CompiledRule]
      /\ config.targeted \in SUBSET Targeting
  BY <1>1, ConfigFields
<1>3. DOMAIN config.rules = Remaining(chain)
  <2>1. \A id : id \in DOMAIN config.rules <=> id \in Remaining(chain)
    BY <1>1, SayingAll
  <2>2. \A id \in Remaining(chain) : id \in DOMAIN config.rules
    BY <2>1
  <2> QED
    BY <2>1 DEF Remaining
<1>4. \A id : For(id) = Aimed(top, id)
  BY <1>1 DEF Aimed
<1>5. \A id : For(id) \subseteq Lists
  BY <1>2 DEF Lists
<1>6. at = [config EXCEPT !.rules = rules]
  BY DEF WithTargeted
<1>7. ASSUME NEW id \in DOMAIN config.rules
      PROVE  /\ rules[id] = [config.rules[id] EXCEPT !.allowlists = @ \cup Aimed(top, id)]
             /\ rules[id] \in CompiledRule
             /\ rules[id].keywords = config.rules[id].keywords
             /\ IsConfigured(rules[id], chain, top, id)
  <2>1. rules[id] = [config.rules[id] EXCEPT !.allowlists = @ \cup For(id)]
    OBVIOUS
  <2>2. rules[id] = [config.rules[id] EXCEPT !.allowlists = @ \cup Aimed(top, id)]
    BY <1>4, <2>1
  <2>3. config.rules[id] \in CompiledRule
    BY <1>2
  <2>4. config.rules[id].allowlists \cup Aimed(top, id) \in SUBSET Lists
    BY <1>4, <1>5, <2>3 DEF CompiledRule
  <2> HIDE DEF rules, For
  <2>5. rules[id] \in CompiledRule /\ rules[id].keywords = config.rules[id].keywords
    BY <2>2, <2>3, <2>4 DEF CompiledRule
  <2>6. AsStated(config.rules[id], chain, id, Saying(chain, id))
    BY <1>1, SayingAll
  <2>7. IsConfigured([config.rules[id] EXCEPT !.allowlists = @ \cup Aimed(top, id)],
                     chain, top, id)
    BY <2>3, <2>6, AimedIsConfigured
  <2> QED
    BY <2>2, <2>5, <2>7
<1>8. rules \in [DOMAIN config.rules -> CompiledRule]
  BY <1>7
<1>9. DOMAIN rules = DOMAIN config.rules
  OBVIOUS
<1> HIDE DEF rules, at, For
<1>10. at \in CompiledConfig
  <2>1. config.keywords \in SUBSET Words
    BY <1>1, ConfigFields
  <2> QED
    BY <1>1, <1>2, <1>6, <1>8, <2>1, ConfigWithRules
<1>11. at.rules = rules /\ at.keywords = config.keywords /\ at.allowlists = config.allowlists
  BY <1>1, <1>6 DEF CompiledConfig
<1>12. CompiledTop(at, chain, top)
  BY <1>1, <1>3, <1>7, <1>9, <1>10, <1>11 DEF CompiledTop
<1>13. HavePatterns(config.rules) <=>
         ~\E id \in Remaining(chain) :
            Said(chain, id, "regex", Absent) = Absent /\ Said(chain, id, "path", Absent) = Absent
  <2>1. \A id \in DOMAIN config.rules :
          /\ config.rules[id].regex = Said(chain, id, "regex", Absent)
          /\ config.rules[id].path = Said(chain, id, "path", Absent)
    BY <1>1, SayingAll DEF AsStated
  <2> QED
    BY <1>3, <2>1 DEF HavePatterns
<1>14. TargetsExist(config) <=>
         ~\E a \in Files[top].allowlists : ~(a.targets \subseteq Remaining(chain))
  BY <1>1, <1>3 DEF TargetsExist
<1> QED
  BY <1>12, <1>13, <1>14 DEF at, WrongWhole

\* Whatever a user asks for, the engine is as the files say.
LEMMA TopIsConfigured ==
  ASSUME NEW asked, NEW chain, chain = Chain(asked)
  PROVE  /\ CompileAt(asked.top) = Absent
              <=> WrongChain(chain) \/ WrongWhole(chain, asked.top)
         /\ CompileAt(asked.top) # Absent =>
              CompiledTop(CompileAt(asked.top), chain, asked.top)
<1> DEFINE top == asked.top
           config == Named(CompileLevel[MaxExtendDepth], top)
           at == CompileAt(top)
<1>1. IsChain(chain, top, MaxExtendDepth)
  BY ChainIsChain
<1>2. DOMAIN chain = 1 .. Len(chain) /\ 1 \in DOMAIN chain /\ chain[1] = top
  BY <1>1 DEF IsChain
<1>3. CompiledAt(chain, 1) = config
  <2>1. (MaxExtendDepth + 1) - 1 = MaxExtendDepth
    BY FileAssumption
  <2> QED
    BY <1>2, <2>1 DEF CompiledAt
<1>4. /\ config = Absent <=> WrongChain(chain)
      /\ config # Absent => StatedFrom(config, chain, 1, Len(chain))
  BY <1>1, <1>3, TopIsCompiled, WrongChainIs DEF IsCompiled
<1>5. at = IF config = Absent THEN Absent
           ELSE IF ~HavePatterns(config.rules) \/ ~TargetsExist(config) THEN Absent
           ELSE WithTargeted(config)
  BY DEF CompileAt
<1> HIDE DEF config, at
<1>6. config # Absent =>
        /\ CompiledTop(WithTargeted(config), chain, top)
        /\ HavePatterns(config.rules) /\ TargetsExist(config) <=> ~WrongWhole(chain, top)
  BY <1>2, <1>4, TargetedIsConfigured
<1>7. config # Absent => WithTargeted(config) # Absent
  BY <1>6, ConfigFields DEF CompiledTop
<1>8. /\ at = Absent <=> WrongChain(chain) \/ WrongWhole(chain, top)
      /\ at # Absent => CompiledTop(at, chain, top)
  BY <1>4, <1>5, <1>6, <1>7
<1> QED
  BY <1>8 DEF at

LEMMA LoadedIsConfigured ==
  ASSUME NEW asked, NEW chain, chain = Chain(asked)
  PROVE  /\ LoadConfig(asked) = Absent <=> Mistaken(asked, chain)
         /\ LoadConfig(asked) # Absent =>
              /\ DOMAIN LoadConfig(asked).rules =
                   IF asked.enabled = {} THEN Remaining(chain) ELSE asked.enabled
              /\ LoadConfig(asked).allowlists =
                   UNION {ForAllRules(Files[chain[k]]) : k \in DOMAIN chain}
              /\ \A id \in DOMAIN LoadConfig(asked).rules :
                   /\ IsConfigured(LoadConfig(asked).rules[id], chain, asked.top, id)
                   /\ LoadConfig(asked).rules[id].keywords \subseteq LoadConfig(asked).keywords
<1> DEFINE at == CompileAt(asked.top)
           ids == asked.enabled
           loaded == LoadConfig(asked)
           rules == [id \in ids |-> at.rules[id]]
           keywords == UNION {at.rules[id].keywords : id \in ids}
<1>1. /\ at = Absent <=> WrongChain(chain) \/ WrongWhole(chain, asked.top)
      /\ at # Absent => CompiledTop(at, chain, asked.top)
  BY TopIsConfigured
<1>2. Mistaken(asked, chain) <=>
        \/ WrongChain(chain) \/ WrongWhole(chain, asked.top)
        \/ ~(ids \subseteq Remaining(chain))
  BY DEF Mistaken, WrongChain, WrongWhole
<1>3. CASE at = Absent
  <2>1. loaded = Absent
    BY <1>3 DEF LoadConfig, SelectRules
  <2> QED
    BY <1>1, <1>2, <1>3, <2>1
<1>4. CASE at # Absent
  <2> HIDE DEF at
  <2>1. /\ at \in CompiledConfig /\ DOMAIN at.rules = Remaining(chain)
        /\ at.allowlists = UNION {ForAllRules(Files[chain[k]]) : k \in DOMAIN chain}
        /\ \A id \in DOMAIN at.rules :
             /\ IsConfigured(at.rules[id], chain, asked.top, id)
             /\ at.rules[id].keywords \subseteq at.keywords
    BY <1>1, <1>4 DEF CompiledTop
  <2>2. /\ at # Absent /\ DOMAIN at.rules \in SUBSET (1 .. MaxRuleId)
        /\ at.rules \in [DOMAIN at.rules -> CompiledRule]
    BY <2>1, ConfigFields
  <2>3. Mistaken(asked, chain) <=> ~(ids \subseteq DOMAIN at.rules)
    BY <1>1, <1>2, <1>4, <2>1
  <2>4. loaded = IF ids = {} THEN at ELSE IF ~(ids \subseteq DOMAIN at.rules) THEN Absent
                 ELSE [at EXCEPT !.rules = rules, !.keywords = keywords]
    BY <1>4, <2>1 DEF LoadConfig, SelectRules, at, CompiledConfig
  <2> HIDE DEF loaded
  <2>5. CASE ids = {}
    <3>1. loaded = at
      BY <2>4, <2>5
    <3> QED
      BY <2>1, <2>2, <2>3, <2>5, <3>1 DEF loaded
  <2>6. CASE ids # {} /\ ~(ids \subseteq DOMAIN at.rules)
    BY <2>3, <2>4, <2>6 DEF loaded
  <2>7. CASE ids # {} /\ ids \subseteq DOMAIN at.rules
    <3>1. loaded = [at EXCEPT !.rules = rules, !.keywords = keywords]
      BY <2>4, <2>7
    <3>2. rules \in [ids -> CompiledRule] /\ ids \in SUBSET (1 .. MaxRuleId)
      BY <2>2, <2>7
    <3>3. keywords \in SUBSET Words
      <4>1. \A id \in ids : at.rules[id] \in CompiledRule
        BY <2>2, <2>7
      <4>2. \A id \in ids : at.rules[id].keywords \in SUBSET Words
        BY <4>1 DEF CompiledRule
      <4> QED
        BY <4>2
    <3>4. /\ DOMAIN rules = ids /\ \A id \in ids : rules[id] = at.rules[id]
          /\ \A id \in ids : at.rules[id].keywords \subseteq keywords
      OBVIOUS
    <3> HIDE DEF rules, keywords, ids
    <3>5. loaded \in CompiledConfig
      BY <2>1, <3>1, <3>2, <3>3, ConfigWithRules
    <3>6. loaded # Absent
      BY <3>5, ConfigFields
    <3>7. loaded.rules = rules /\ loaded.keywords = keywords /\ loaded.allowlists = at.allowlists
      BY <2>1, <3>1 DEF CompiledConfig
    <3>8. \A id \in ids : IsConfigured(rules[id], chain, asked.top, id)
      BY <2>1, <2>7, <3>4
    <3>9. \A id \in ids : rules[id].keywords \subseteq keywords
      BY <3>4
    <3>10. /\ ~Mistaken(asked, chain) /\ DOMAIN loaded.rules = ids
           /\ loaded.allowlists = UNION {ForAllRules(Files[chain[k]]) : k \in DOMAIN chain}
      BY <2>1, <2>3, <2>7, <3>4, <3>7
    <3> QED
      BY <2>7, <3>4, <3>6, <3>7, <3>8, <3>9, <3>10 DEF loaded, ids
  <2> QED
    BY <2>5, <2>6, <2>7
<1> QED
  BY <1>3, <1>4

-----------------------------------------------------------------------------
(* Findings.                                                               *)

\* What a scan reads: it is fixed when it begins.
GoodInput ==
  /\ fragment.inherited \in BOOLEAN
  /\ \A r \in DOMAIN Rules : Sized(Rules[r].required)
  /\ Sized(passes) /\ \E S : passes \in Seq(S)
  /\ \A p \in DOMAIN passes : GoodPass(passes[p])

\* A sequence of at most one element.
LEMMA AtMostOne ==
  ASSUME NEW T, NEW x \in T, NEW s, s = <<>> \/ s = <<x>>
  PROVE  s \in Seq(T)
<1>1. <<>> \in Seq(T) /\ <<x>> \in Seq(T)
  OBVIOUS
<1> QED
  BY <1>1, Zenon

\* The candidates a pass has for a rule that may be reported: in a decoded text, the
\* ones whose offsets can be mapped back.
Reportable(p, r) == {c \in ToSet(passes[p].candidates[r]) : p > 1 => c.mapped}
\* What a rule can find in a pass by itself.
OwnSet(p, r) ==
  {ContentFinding(p, r, c) : c \in Reportable(p, r)}
    \cup {f \in {PathFinding(p, r)} : Rules[r].regex = Absent}
\* The same of any rule in a pass, and in any pass.
AloneIn(p) == UNION {OwnSet(p, r) : r \in DOMAIN Rules}
Alone == UNION {AloneIn(p) : p \in DOMAIN passes}
\* A finding may have others attached to it; the ones that are whole have all they
\* require.
Finding == Alone \cup {[f EXCEPT !.required = s] : f \in Alone, s \in Seq(Alone)}
WholeFinding == {f \in Finding : IsWhole(f)}

LEMMA OwnSetFacts ==
  ASSUME NEW p, NEW r, NEW f \in OwnSet(p, r)
  PROVE  /\ f.rule = r /\ f.pass = p /\ f.required = <<>>
         /\ \A s : /\ [f EXCEPT !.required = s].rule = r
                   /\ [f EXCEPT !.required = s].pass = p
                   /\ [f EXCEPT !.required = s].required = s
BY DEF OwnSet, ContentFinding, PathFinding

\* What each step of detect_rule finds, up to the findings of a rule with all they
\* require.
LEMMA CandidatesType ==
  ASSUME GoodInput, NEW p \in DOMAIN passes, NEW r \in DOMAIN Rules, NEW inherited
  PROVE  /\ \E n \in Nat : DOMAIN Candidates(p, r, inherited) = 1 .. n
         /\ \A i \in DOMAIN Candidates(p, r, inherited) :
              Candidates(p, r, inherited)[i] \in ToSet(passes[p].candidates[r])
<1>1. PICK n \in Nat : DOMAIN passes[p].candidates[r] = 1 .. n
  BY DEF GoodInput, GoodPass, Sized
<1>2. CASE Candidates(p, r, inherited) = <<>>
  <2>1. DOMAIN <<>> = 1 .. 0
    OBVIOUS
  <2> QED
    BY <1>2, <2>1
<1>3. CASE Candidates(p, r, inherited) = passes[p].candidates[r]
  BY <1>1, <1>3 DEF ToSet
<1> QED
  BY <1>2, <1>3 DEF Candidates

\* The parts that OwnFindings puts together, when there are candidates.
LEMMA OwnFindingsType ==
  ASSUME GoodInput, NEW p \in DOMAIN passes, NEW r \in DOMAIN Rules, NEW inherited
  PROVE  OwnFindings(p, r, inherited) \in Seq(OwnSet(p, r))
<1> DEFINE candidates == Candidates(p, r, inherited)
           parts == [i \in DOMAIN candidates |-> IF Accepted(p, r, candidates[i])
                       THEN <<ContentFinding(p, r, candidates[i])>> ELSE <<>>]
<1>1. CASE PathOnly(p, r, inherited)
  <2>1. OwnFindings(p, r, inherited) = <<PathFinding(p, r)>>
    BY <1>1 DEF OwnFindings
  <2>2. PathFinding(p, r) \in OwnSet(p, r)
    BY <1>1 DEF OwnSet, PathOnly
  <2> QED
    BY <2>1, <2>2
<1>2. CASE ~PathOnly(p, r, inherited)
  <2>1. OwnFindings(p, r, inherited) = Concat(parts)
    BY <1>2 DEF OwnFindings, Collect
  <2>2. PICK n \in Nat : DOMAIN candidates = 1 .. n
    BY CandidatesType
  <2>3. DOMAIN parts = 1 .. n
    BY <2>2
  <2>4. ASSUME NEW i \in 1 .. n PROVE parts[i] \in Seq(OwnSet(p, r))
    <3>1. candidates[i] \in ToSet(passes[p].candidates[r])
      BY <2>2, CandidatesType
    <3>2. Accepted(p, r, candidates[i])
            => ContentFinding(p, r, candidates[i]) \in OwnSet(p, r)
      BY <3>1 DEF OwnSet, Reportable, Accepted
    <3>3. parts[i] = IF Accepted(p, r, candidates[i])
                     THEN <<ContentFinding(p, r, candidates[i])>> ELSE <<>>
      BY <2>2
    <3> HIDE DEF parts, candidates
    <3>4. CASE Accepted(p, r, candidates[i])
      BY <3>2, <3>3, <3>4, AtMostOne
    <3>5. CASE ~Accepted(p, r, candidates[i])
      <4>1. parts[i] = <<>>
        BY <3>3, <3>5
      <4> QED
        BY <4>1
    <3> QED
      BY <3>4, <3>5
  <2> HIDE DEF parts
  <2> QED
    BY <2>1, <2>3, <2>4, ConcatType
<1> QED
  BY <1>1, <1>2

LEMMA FoundType ==
  ASSUME GoodInput, NEW p \in DOMAIN passes, NEW spec
  PROVE  Found(p, spec) \in Seq(AloneIn(p))
<1>1. CASE spec.id \in DOMAIN Rules
  <2>1. OwnFindings(p, spec.id, TRUE) \in Seq(OwnSet(p, spec.id))
    BY <1>1, OwnFindingsType
  <2>2. OwnSet(p, spec.id) \subseteq AloneIn(p)
    BY <1>1 DEF AloneIn
  <2>3. Found(p, spec) = OwnFindings(p, spec.id, TRUE)
    BY <1>1 DEF Found
  <2>4. OwnFindings(p, spec.id, TRUE) \in Seq(AloneIn(p))
    BY <2>1, <2>2, SeqOfMore
  <2> QED
    BY <2>3, <2>4
<1>2. CASE spec.id \notin DOMAIN Rules
  <2>1. Found(p, spec) = <<>>
    BY <1>2 DEF Found
  <2> QED
    BY <2>1
<1> QED
  BY <1>1, <1>2

LEMMA NearType ==
  ASSUME GoodInput, NEW p \in DOMAIN passes, NEW f, NEW spec
  PROVE  Near(p, f, spec) \in Seq(AloneIn(p))
<1> DEFINE found == Found(p, spec)
           parts == [i \in DOMAIN found |->
                       IF WithinProximity(f, found[i], spec) THEN <<found[i]>> ELSE <<>>]
<1>1. found \in Seq(AloneIn(p))
  BY FoundType
<1>2. Near(p, f, spec) = Concat(parts)
  BY DEF Near, Only
<1> HIDE DEF found
<1>3. DOMAIN found = 1 .. Len(found) /\ Len(found) \in Nat
      /\ \A i \in 1 .. Len(found) : found[i] \in AloneIn(p)
  BY <1>1
<1>4. DOMAIN parts = 1 .. Len(found)
  BY <1>3
<1>5. ASSUME NEW i \in 1 .. Len(found) PROVE parts[i] \in Seq(AloneIn(p))
  <2>1. parts[i] = <<>> \/ parts[i] = <<found[i]>>
    BY <1>3
  <2> HIDE DEF parts
  <2> QED
    BY <1>3, <2>1, AtMostOne
<1> HIDE DEF parts
<1> QED
  BY <1>2, <1>3, <1>4, <1>5, ConcatType

LEMMA ProjectedType ==
  ASSUME GoodInput, NEW p \in DOMAIN passes, NEW f, f.rule \in DOMAIN Rules
  PROVE  Projected(p, f) \in Seq(AloneIn(p))
<1> DEFINE specs == Rules[f.rule].required
           parts == [k \in DOMAIN specs |-> Near(p, f, specs[k])]
<1>1. PICK n \in Nat : DOMAIN specs = 1 .. n
  BY DEF GoodInput, Sized
<1>2. DOMAIN parts = 1 .. n /\ \A k \in 1 .. n : parts[k] \in Seq(AloneIn(p))
  BY <1>1, NearType
<1>3. Projected(p, f) = Concat(parts)
  BY DEF Projected
<1> HIDE DEF parts
<1> QED
  BY <1>2, <1>3, ConcatType

\* A finding with all it requires.
WithRequired(p, f) == [f EXCEPT !.required = Projected(p, f)]

LEMMA CompletedIsWhole ==
  ASSUME GoodInput, NEW p \in DOMAIN passes, NEW r \in DOMAIN Rules, NEW f \in OwnSet(p, r),
         HasAll(p, f)
  PROVE  WithRequired(p, f) \in WholeFinding
<1>1. f.rule = r /\ WithRequired(p, f).rule = r /\ WithRequired(p, f).pass = p
      /\ WithRequired(p, f).required = Projected(p, f)
  BY OwnSetFacts DEF WithRequired
<1>2. Projected(p, f) \in Seq(AloneIn(p))
  BY <1>1, ProjectedType
<1>3. AloneIn(p) \subseteq Alone /\ f \in Alone
  BY DEF Alone, AloneIn
<1>4. WithRequired(p, f) \in Finding
  <2>1. Projected(p, f) \in Seq(Alone)
    BY <1>2, <1>3
  <2> QED
    BY <1>3, <2>1 DEF Finding, WithRequired
<1>5. \A g \in ToSet(Projected(p, f)) : g.pass = p
  <2>1. SUFFICES ASSUME NEW g \in ToSet(Projected(p, f)) PROVE g.pass = p
    OBVIOUS
  <2>2. g \in AloneIn(p)
    BY <1>2 DEF ToSet
  <2>3. PICK some \in DOMAIN Rules : g \in OwnSet(p, some)
    BY <2>2 DEF AloneIn
  <2> QED
    BY <2>3, OwnSetFacts
<1>6. IsWhole(WithRequired(p, f))
  BY <1>1, <1>5 DEF IsWhole, HasAll
<1> QED
  BY <1>4, <1>6 DEF WholeFinding

LEMMA RuleFindingsType ==
  ASSUME GoodInput, NEW p \in DOMAIN passes, NEW r \in DOMAIN Rules
  PROVE  RuleFindings(p, r) \in Seq(WholeFinding)
<1> DEFINE own == OwnFindings(p, r, fragment.inherited)
           parts == [i \in DOMAIN own |->
                       IF HasAll(p, own[i]) THEN <<WithRequired(p, own[i])>> ELSE <<>>]
<1>1. own \in Seq(OwnSet(p, r))
  BY OwnFindingsType
<1>2. CASE Composite(p, r)
  <2>1. RuleFindings(p, r) = Concat(parts)
    BY <1>2 DEF RuleFindings, Completed, Collect, WithRequired
  <2> HIDE DEF own
  <2>2. DOMAIN own = 1 .. Len(own) /\ Len(own) \in Nat
        /\ \A i \in 1 .. Len(own) : own[i] \in OwnSet(p, r)
    BY <1>1
  <2>3. DOMAIN parts = 1 .. Len(own)
    BY <2>2
  <2>4. ASSUME NEW i \in 1 .. Len(own) PROVE parts[i] \in Seq(WholeFinding)
    <3>1. CASE HasAll(p, own[i])
      <4>1. WithRequired(p, own[i]) \in WholeFinding
        BY <2>2, <3>1, CompletedIsWhole
      <4>2. parts[i] = <<WithRequired(p, own[i])>>
        BY <2>2, <3>1
      <4> HIDE DEF parts
      <4> QED
        BY <4>1, <4>2
    <3>2. CASE ~HasAll(p, own[i])
      <4>1. parts[i] = <<>>
        BY <2>2, <3>2
      <4> HIDE DEF parts
      <4> QED
        BY <4>1
    <3> QED
      BY <3>1, <3>2
  <2> HIDE DEF parts
  <2> QED
    BY <2>1, <2>2, <2>3, <2>4, ConcatType
<1>3. CASE ~Composite(p, r)
  <2>1. RuleFindings(p, r) = own
    BY <1>3 DEF RuleFindings
  <2>2. \/ fragment.inherited \/ Rules[r].regex = Absent \/ Rules[r].required = <<>>
        \/ own = <<>>
    <3>1. CASE fragment.inherited = TRUE
      BY <3>1
    <3>2. CASE fragment.inherited = FALSE
      BY <1>3, <3>2 DEF Composite
    <3> QED
      BY <3>1, <3>2 DEF GoodInput
  <2> HIDE DEF own
  <2>3. CASE own = <<>>
    BY <2>1, <2>3
  <2>4. CASE fragment.inherited \/ Rules[r].regex = Absent \/ Rules[r].required = <<>>
    <3>1. OwnSet(p, r) \subseteq WholeFinding
      <4>1. SUFFICES ASSUME NEW f \in OwnSet(p, r) PROVE f \in WholeFinding
        OBVIOUS
      <4>2. f \in Finding
        BY DEF Finding, Alone, AloneIn
      <4>3. f.rule = r
        BY OwnSetFacts
      <4>4. IsWhole(f)
        BY <2>4, <4>3 DEF IsWhole
      <4> QED
        BY <4>2, <4>4 DEF WholeFinding
    <3> QED
      BY <1>1, <2>1, <3>1
  <2> QED
    BY <2>2, <2>3, <2>4
<1> QED
  BY <1>2, <1>3

-----------------------------------------------------------------------------
(* Units.                                                                  *)

\* The units of a scan before its final filter: those that commit nothing, and the commits.
Quiet == {Poll, Work, Record} \cup {Charge("DecodedBytes", n) : n \in Nat}
\* The commits of finished rules, which only commit whole findings.
Commits == {CommitUnit(findings) : findings \in Seq(WholeFinding)}
ScanUnit == Quiet \cup Commits

\* How the units are told apart.
LEMMA UnitFacts ==
  /\ \A u \in Quiet : u.kind \in {"Poll", "Charge"} /\ u.kind # "Commit"
  /\ \A u \in Commits : u.kind = "Commit" /\ u.findings \in Seq(WholeFinding) /\ u # Record
  /\ Poll # Record /\ Work # Record /\ Record.kind = "Charge"
  /\ \A n : Charge("DecodedBytes", n) # Record
BY DEF Quiet, Commits, Poll, Work, Record, Charge, CommitUnit

\* The record a unit charges, the findings it commits, and these with all that is
\* attached to them.
recordOf == [u \in ScanUnit |-> IF u = Record THEN <<u>> ELSE <<>>]
commitOf == [u \in ScanUnit |-> IF u.kind = "Commit" THEN <<u.findings>> ELSE <<>>]
withAttached == [f \in Finding |-> <<f>> \o f.required]
Flat(findings) == Image(withAttached, findings)
weightOf == [u \in ScanUnit |-> IF u.kind = "Commit" THEN Flat(u.findings) ELSE <<>>]

Records(some) == Image(recordOf, some)
Committed(some) == Image(commitOf, some)
Weight(some) == Image(weightOf, some)

\* What each unit makes is a sequence.
LEMMA RecordOfMakes == Makes(recordOf, ScanUnit, {Record})
BY DEF Makes, recordOf

LEMMA CommitOfMakes == Makes(commitOf, ScanUnit, Seq(WholeFinding))
<1>1. ASSUME NEW u \in ScanUnit PROVE commitOf[u] \in Seq(Seq(WholeFinding))
  <2>1. CASE u \in Quiet
    <3>1. commitOf[u] = <<>>
      BY <2>1, UnitFacts DEF commitOf
    <3> QED
      BY <3>1
  <2>2. CASE u \in Commits
    <3>1. commitOf[u] = <<u.findings>> /\ u.findings \in Seq(WholeFinding)
      BY <2>2, UnitFacts DEF commitOf
    <3> QED
      BY <3>1, AtMostOne
  <2> QED
    BY <2>1, <2>2 DEF ScanUnit
<1>2. commitOf = [u \in ScanUnit |-> commitOf[u]]
  BY DEF commitOf
<1> QED
  BY <1>1, <1>2 DEF Makes

\* What is attached to a finding are findings.
LEMMA RequiredType ==
  ASSUME NEW f \in Finding
  PROVE  f.required \in Seq(Finding)
<1>1. f.required \in Seq(Alone)
  <2>1. CASE f \in Alone
    <3>1. PICK p \in DOMAIN passes : \E r \in DOMAIN Rules : f \in OwnSet(p, r)
      BY <2>1 DEF Alone, AloneIn
    <3>2. f.required = <<>>
      BY <3>1, OwnSetFacts
    <3> QED
      BY <3>2
  <2>2. CASE f \notin Alone
    <3>1. PICK g \in Alone, s \in Seq(Alone) : f = [g EXCEPT !.required = s]
      BY <2>2 DEF Finding
    <3>2. PICK p \in DOMAIN passes, r \in DOMAIN Rules : g \in OwnSet(p, r)
      BY <3>1 DEF Alone, AloneIn
    <3>3. f.required = s
      BY <3>1, <3>2, OwnSetFacts
    <3> QED
      BY <3>1, <3>3
  <2> QED
    BY <2>1, <2>2
<1>2. Alone \subseteq Finding
  BY DEF Finding
<1> QED
  BY <1>1, <1>2, SeqOfMore

LEMMA WithAttachedMakes == Makes(withAttached, Finding, Finding)
<1>1. ASSUME NEW f \in Finding PROVE withAttached[f] \in Seq(Finding)
  <2>1. f.required \in Seq(Finding)
    BY RequiredType
  <2>2. withAttached[f] = <<f>> \o f.required
    BY DEF withAttached
  <2> QED
    BY <2>1, <2>2
<1>2. withAttached = [f \in Finding |-> withAttached[f]]
  BY DEF withAttached
<1> QED
  BY <1>1, <1>2 DEF Makes

LEMMA FlatType ==
  ASSUME NEW findings \in Seq(Finding)
  PROVE  Flat(findings) \in Seq(Finding)
BY WithAttachedMakes, ImageType DEF Flat

LEMMA WeightOfMakes == Makes(weightOf, ScanUnit, Finding)
<1>1. ASSUME NEW u \in ScanUnit PROVE weightOf[u] \in Seq(Finding)
  <2>1. CASE u \in Quiet
    <3>1. weightOf[u] = <<>>
      BY <2>1, UnitFacts DEF weightOf
    <3> QED
      BY <3>1
  <2>2. CASE u \in Commits
    <3>1. weightOf[u] = Flat(u.findings) /\ u.findings \in Seq(WholeFinding)
      BY <2>2, UnitFacts DEF weightOf
    <3>2. WholeFinding \subseteq Finding
      BY DEF WholeFinding
    <3>3. u.findings \in Seq(Finding)
      BY <3>1, <3>2, SeqOfMore
    <3> QED
      BY <3>1, <3>3, FlatType
  <2> QED
    BY <2>1, <2>2 DEF ScanUnit
<1>2. weightOf = [u \in ScanUnit |-> weightOf[u]]
  BY DEF weightOf
<1> QED
  BY <1>1, <1>2 DEF Makes

LEMMA QuietIsScanUnit ==
  ASSUME NEW some \in Seq(Quiet)
  PROVE  some \in Seq(ScanUnit)
BY SeqOfMore DEF ScanUnit

\* There are no more elements than the units charge records.
Charged(found, some) == some \in Seq(Quiet) /\ Len(found) <= Len(Records(some))

\* Many pieces that are charged are charged together.
LEMMA ChargedParts ==
  ASSUME NEW T, NEW n \in Nat,
         NEW parts, DOMAIN parts = 1 .. n, \A i \in 1 .. n : parts[i] \in Seq(T),
         NEW pieces, DOMAIN pieces = 1 .. n, \A i \in 1 .. n : Charged(parts[i], pieces[i])
  PROVE  Charged(Concat(parts), Concat(pieces))
<1>1. \A i \in 1 .. n : pieces[i] \in Seq(Quiet) /\ pieces[i] \in Seq(ScanUnit)
                        /\ Len(parts[i]) <= Len(Records(pieces[i]))
  BY QuietIsScanUnit DEF Charged
<1> DEFINE records == [i \in 1 .. n |-> Image(recordOf, pieces[i])]
<1>a. \A i \in 1 .. n : pieces[i] \in Seq(ScanUnit)
  BY <1>1
<1>b. Image(recordOf, Concat(pieces)) = Concat([i \in 1 .. n |-> Image(recordOf, pieces[i])])
  BY <1>a, RecordOfMakes, ImageOfConcat
<1>2. Records(Concat(pieces)) = Concat(records)
  BY <1>b DEF Records
<1>3. \A i \in 1 .. n : Image(recordOf, pieces[i]) \in Seq({Record})
  BY <1>1, RecordOfMakes, ImageType
<1>4. DOMAIN records = 1 .. n
      /\ \A i \in 1 .. n : records[i] \in Seq({Record}) /\ Len(parts[i]) <= Len(records[i])
  BY <1>1, <1>3 DEF Records
<1> HIDE DEF records
<1>5. Len(Concat(parts)) <= Len(Concat(records))
  BY <1>4, ConcatLonger
<1>6. Concat(pieces) \in Seq(Quiet)
  BY <1>1, ConcatType
<1> QED
  BY <1>2, <1>5, <1>6 DEF Charged

LEMMA PairJoined ==
  ASSUME NEW a, NEW b
  PROVE  <<a>> \o <<b>> = <<a, b>>
<1> DEFINE T == {a, b}
           s == <<a>> \o <<b>>
           t == <<a, b>>
<1>1. s \in Seq(T) /\ t \in Seq(T) /\ Len(s) = 2 /\ Len(t) = 2
  OBVIOUS
<1>2. s[1] = a /\ s[2] = b /\ t[1] = a /\ t[2] = b
  OBVIOUS
<1> HIDE DEF s, t, T
<1>3. \A i \in 1 .. Len(s) : s[i] = t[i]
  <2>1. \A i \in 1 .. Len(s) : i = 1 \/ i = 2
    BY <1>1
  <2> QED
    BY <1>2, <2>1
<1>4. s = t
  BY <1>1, <1>3, SeqEqual
<1> QED
  BY <1>4 DEF s, t

\* The records that are charged by one and two units, and by many.
LEMMA RecordsOfUnits ==
  /\ Records(<<Work>>) = <<>>
  /\ Records(<<Record>>) = <<Record>>
  /\ Records(<<Work, Record>>) = <<Record>>
<1>1. Work \in ScanUnit /\ Record \in ScanUnit
  BY DEF ScanUnit, Quiet
<1>2. recordOf[Work] = <<>> /\ recordOf[Record] = <<Record>>
  BY <1>1, UnitFacts DEF recordOf
<1>3. Records(<<Work>>) = <<>> /\ Records(<<Record>>) = <<Record>>
  BY <1>1, <1>2, RecordOfMakes, ImageOne DEF Records
<1>4. <<Work>> \in Seq(ScanUnit) /\ <<Record>> \in Seq(ScanUnit)
  BY <1>1, AtMostOne
<1>5. <<Work, Record>> = <<Work>> \o <<Record>>
  BY PairJoined
<1> DEFINE a == <<Work>>
           b == <<Record>>
<1>6. Image(recordOf, a \o b) = Image(recordOf, a) \o Image(recordOf, b)
  <2>1. a \in Seq(ScanUnit) /\ b \in Seq(ScanUnit)
    BY <1>4
  <2> HIDE DEF a, b
  <2> QED
    BY <2>1, RecordOfMakes, ImageJoins
<1>7. <<>> \o <<Record>> = <<Record>>
  OBVIOUS
<1> QED
  BY <1>3, <1>5, <1>6, <1>7 DEF Records

LEMMA RecordsJoin ==
  ASSUME NEW a \in Seq(ScanUnit), NEW b \in Seq(ScanUnit)
  PROVE  /\ Records(a) \in Seq({Record}) /\ Records(b) \in Seq({Record})
         /\ Records(a \o b) = Records(a) \o Records(b)
         /\ Len(Records(a \o b)) = Len(Records(a)) + Len(Records(b))
         /\ Len(Records(a)) \in Nat /\ Len(Records(b)) \in Nat
<1>1. Records(a) \in Seq({Record}) /\ Records(b) \in Seq({Record})
  BY RecordOfMakes, ImageType DEF Records
<1>2. Records(a \o b) = Records(a) \o Records(b)
  BY RecordOfMakes, ImageJoins DEF Records
<1> QED
  BY <1>1, <1>2

\* More units charge no less.
LEMMA ChargedByMore ==
  ASSUME NEW found, Len(found) \in Nat, NEW a \in Seq(Quiet), NEW b, Charged(found, b)
  PROVE  Charged(found, a \o b)
<1>1. b \in Seq(Quiet) /\ a \in Seq(ScanUnit) /\ b \in Seq(ScanUnit)
  BY QuietIsScanUnit DEF Charged
<1>2. a \o b \in Seq(Quiet)
  BY <1>1
<1>3. Len(Records(a \o b)) = Len(Records(a)) + Len(Records(b))
      /\ Len(Records(a)) \in Nat /\ Len(Records(b)) \in Nat
  BY <1>1, RecordsJoin
<1>4. Len(found) <= Len(Records(b))
  BY DEF Charged
<1>5. Len(found) <= Len(Records(a \o b))
  BY <1>3, <1>4
<1> QED
  BY <1>2, <1>5 DEF Charged

LEMMA QuietUnits ==
  /\ <<>> \in Seq(Quiet) /\ <<Poll>> \in Seq(Quiet)
  /\ <<Work>> \in Seq(Quiet) /\ <<Record>> \in Seq(Quiet) /\ <<Work, Record>> \in Seq(Quiet)
BY DEF Quiet

\* A candidate that is found is charged, and one that is not need not be.
LEMMA PiecesCharged ==
  /\ \A x : Charged(<<x>>, <<Work, Record>>)
  /\ Charged(<<>>, <<Work>>)
<1>1. Len(<<Record>>) = 1 /\ Len(<<>>) = 0 /\ \A x : Len(<<x>>) = 1
  OBVIOUS
<1>2. Charged(<<>>, <<Work>>)
  BY <1>1, RecordsOfUnits, QuietUnits DEF Charged
<1>3. ASSUME NEW x PROVE Charged(<<x>>, <<Work, Record>>)
  <2>1. Len(<<x>>) = 1 /\ Len(Records(<<Work, Record>>)) = 1
    BY <1>1, RecordsOfUnits
  <2>2. Len(<<x>>) <= Len(Records(<<Work, Record>>))
    BY <2>1
  <2> QED
    BY <2>2, QuietUnits DEF Charged
<1> QED
  BY <1>2, <1>3

\* The findings of a rule, the ones near a finding, and all that are attached to one
\* are charged while they are found.
LEMMA OwnUnitsCharged ==
  ASSUME GoodInput, NEW p \in DOMAIN passes, NEW r \in DOMAIN Rules, NEW inherited
  PROVE  Charged(OwnFindings(p, r, inherited), OwnUnits(p, r, inherited))
<1> DEFINE candidates == Candidates(p, r, inherited)
           parts == [i \in DOMAIN candidates |-> IF Accepted(p, r, candidates[i])
                       THEN <<ContentFinding(p, r, candidates[i])>> ELSE <<>>]
           pieces == [i \in DOMAIN candidates |->
                        IF Accepted(p, r, candidates[i]) THEN <<Work, Record>> ELSE <<Work>>]
           extra == IF PathOnly(p, r, inherited) THEN <<Record>> ELSE <<>>
           own == OwnFindings(p, r, inherited)
<1>1. OwnUnits(p, r, inherited) = (<<Work>> \o extra) \o Concat(pieces)
  <2>1. OwnUnits(p, r, inherited) = <<Work>> \o extra \o Concat(pieces)
    BY DEF OwnUnits
  <2> QED
    BY <2>1
<1>2. PICK n \in Nat : DOMAIN candidates = 1 .. n
  BY CandidatesType
<1>3. DOMAIN parts = 1 .. n /\ DOMAIN pieces = 1 .. n
  BY <1>2
<1>4. ASSUME NEW i \in 1 .. n
      PROVE  /\ parts[i] \in Seq({ContentFinding(p, r, candidates[j]) : j \in 1 .. n})
             /\ Charged(parts[i], pieces[i])
  <2> DEFINE f == ContentFinding(p, r, candidates[i])
             T == {ContentFinding(p, r, candidates[j]) : j \in 1 .. n}
  <2>1. f \in T
    OBVIOUS
  <2>2. \/ parts[i] = <<f>> /\ pieces[i] = <<Work, Record>>
        \/ parts[i] = <<>> /\ pieces[i] = <<Work>>
    BY <1>2
  <2> HIDE DEF parts, pieces, f, T
  <2>3. parts[i] \in Seq(T)
    BY <2>1, <2>2, AtMostOne
  <2>5. Charged(parts[i], pieces[i])
    BY <2>2, PiecesCharged, Zenon
  <2> QED
    BY <2>3, <2>5 DEF T
<1> HIDE DEF candidates
<1>5. Charged(Concat(parts), Concat(pieces))
  <2> HIDE DEF parts, pieces
  <2> QED
    BY <1>3, <1>4, ChargedParts
<1>6. extra \in Seq(Quiet) /\ <<Work>> \o extra \in Seq(Quiet)
  <2>1. extra \in Seq(Quiet)
    BY QuietUnits
  <2> HIDE DEF extra
  <2> QED
    BY <2>1, QuietUnits
<1>7. own \in Seq(OwnSet(p, r))
  BY OwnFindingsType
<1>8. CASE ~PathOnly(p, r, inherited)
  <2>1. own = Concat(parts)
    BY <1>8 DEF OwnFindings, Collect, candidates
  <2> HIDE DEF own, parts, pieces, extra
  <2>2. Len(own) \in Nat
    BY <1>7
  <2>3. Charged(own, (<<Work>> \o extra) \o Concat(pieces))
    BY <1>5, <1>6, <2>1, <2>2, ChargedByMore
  <2> QED
    BY <1>1, <2>3 DEF own
<1>9. CASE PathOnly(p, r, inherited)
  <2>1. own = <<PathFinding(p, r)>> /\ extra = <<Record>>
    BY <1>9 DEF OwnFindings
  <2> HIDE DEF parts, pieces, extra, own
  <2> DEFINE a == <<Work>> \o <<Record>>
             b == Concat(pieces)
  <2>2. a \in Seq(ScanUnit) /\ b \in Seq(Quiet) /\ b \in Seq(ScanUnit) /\ a \in Seq(Quiet)
    BY <1>5, <1>6, <2>1, QuietIsScanUnit DEF Charged
  <2>3. a = <<Work, Record>> /\ Records(a) = <<Record>>
    BY PairJoined, RecordsOfUnits
  <2> HIDE DEF a, b
  <2>4. Len(Records(a \o b)) = Len(Records(a)) + Len(Records(b)) /\ Len(Records(b)) \in Nat
    BY <2>2, RecordsJoin
  <2>5. Len(Records(a)) = 1 /\ Len(own) = 1
    BY <2>1, <2>3
  <2>6. a \o b \in Seq(Quiet)
    BY <2>2
  <2>7. Len(own) <= Len(Records(a \o b))
    BY <2>4, <2>5
  <2>8. Charged(own, a \o b)
    BY <2>6, <2>7 DEF Charged
  <2> QED
    BY <1>1, <2>1, <2>8 DEF a, b, own
<1> QED
  BY <1>8, <1>9

LEMMA NearUnitsCharged ==
  ASSUME GoodInput, NEW p \in DOMAIN passes, NEW f, NEW spec
  PROVE  Charged(Near(p, f, spec), NearUnits(p, f, spec))
<1> DEFINE found == Found(p, spec)
           parts == [i \in DOMAIN found |->
                       IF WithinProximity(f, found[i], spec) THEN <<found[i]>> ELSE <<>>]
           pieces == [i \in DOMAIN found |->
                        IF WithinProximity(f, found[i], spec) THEN <<Work, Record>> ELSE <<Work>>]
<1>1. found \in Seq(AloneIn(p))
  BY FoundType
<1>2. Near(p, f, spec) = Concat(parts) /\ NearUnits(p, f, spec) = <<Work>> \o Concat(pieces)
  BY DEF Near, Only, NearUnits
<1> HIDE DEF found
<1>3. DOMAIN found = 1 .. Len(found) /\ Len(found) \in Nat
      /\ \A i \in 1 .. Len(found) : found[i] \in AloneIn(p)
  BY <1>1
<1>4. DOMAIN parts = 1 .. Len(found) /\ DOMAIN pieces = 1 .. Len(found)
  BY <1>3
<1>5. ASSUME NEW i \in 1 .. Len(found)
      PROVE  parts[i] \in Seq(AloneIn(p)) /\ Charged(parts[i], pieces[i])
  <2> DEFINE g == found[i]
  <2>1. \/ parts[i] = <<g>> /\ pieces[i] = <<Work, Record>>
        \/ parts[i] = <<>> /\ pieces[i] = <<Work>>
    BY <1>3
  <2>2. g \in AloneIn(p)
    BY <1>3
  <2> HIDE DEF parts, pieces, g
  <2>3. parts[i] \in Seq(AloneIn(p))
    BY <2>1, <2>2, AtMostOne
  <2>5. Charged(parts[i], pieces[i])
    BY <2>1, PiecesCharged, Zenon
  <2> QED
    BY <2>3, <2>5
<1> HIDE DEF parts, pieces
<1>6. Charged(Concat(parts), Concat(pieces))
  BY <1>3, <1>4, <1>5, ChargedParts
<1>7. Concat(parts) \in Seq(AloneIn(p))
  BY <1>3, <1>4, <1>5, ConcatType
<1>8. Len(Concat(parts)) \in Nat
  BY <1>7
<1>9. Charged(Concat(parts), <<Work>> \o Concat(pieces))
  BY <1>6, <1>8, QuietUnits, ChargedByMore
<1> QED
  BY <1>2, <1>9

LEMMA ProjectUnitsCharged ==
  ASSUME GoodInput, NEW p \in DOMAIN passes, NEW f, f.rule \in DOMAIN Rules
  PROVE  Charged(Projected(p, f), ProjectUnits(p, f))
<1> DEFINE specs == Rules[f.rule].required
           parts == [k \in DOMAIN specs |-> Near(p, f, specs[k])]
           pieces == [k \in DOMAIN specs |-> NearUnits(p, f, specs[k])]
<1>1. PICK n \in Nat : DOMAIN specs = 1 .. n
  BY DEF GoodInput, Sized
<1>2. DOMAIN parts = 1 .. n /\ DOMAIN pieces = 1 .. n
  BY <1>1
<1>3. \A k \in 1 .. n : parts[k] \in Seq(AloneIn(p)) /\ Charged(parts[k], pieces[k])
  BY <1>1, NearType, NearUnitsCharged
<1>4. Projected(p, f) = Concat(parts) /\ ProjectUnits(p, f) = Concat(pieces)
  BY DEF Projected, ProjectUnits
<1> HIDE DEF parts, pieces
<1> QED
  BY <1>2, <1>3, <1>4, ChargedParts

\* Looking for required rules commits nothing.
LEMMA RequiredUnitsQuiet ==
  ASSUME GoodInput, NEW p \in DOMAIN passes, NEW r \in DOMAIN Rules
  PROVE  RequiredUnits(p, r) \in Seq(Quiet)
<1> DEFINE specs == Rules[r].required
           For(id) == IF id \in DOMAIN Rules THEN OwnUnits(p, id, TRUE) ELSE <<>>
           parts == [k \in DOMAIN specs |-> <<Work>> \o For(specs[k].id)]
<1>1. PICK n \in Nat : DOMAIN specs = 1 .. n
  BY DEF GoodInput, Sized
<1>2. ASSUME NEW id PROVE For(id) \in Seq(Quiet)
  <2>1. CASE id \in DOMAIN Rules
    <3>1. Charged(OwnFindings(p, id, TRUE), OwnUnits(p, id, TRUE))
      BY <2>1, OwnUnitsCharged
    <3> QED
      BY <2>1, <3>1 DEF Charged
  <2>2. CASE id \notin DOMAIN Rules
    BY <2>2, QuietUnits
  <2> QED
    BY <2>1, <2>2
<1>3. RequiredUnits(p, r) = Concat(parts)
  BY DEF RequiredUnits
<1> HIDE DEF For
<1>4. DOMAIN parts = 1 .. n /\ \A k \in 1 .. n : parts[k] \in Seq(Quiet)
  BY <1>1, <1>2, QuietUnits
<1> HIDE DEF parts
<1> QED
  BY <1>3, <1>4, ConcatType

\* The units of a rule before its findings are committed.
Before(p, r) ==
  LET own == OwnFindings(p, r, fragment.inherited)
  IN OwnUnits(p, r, fragment.inherited)
     \o (IF Composite(p, r)
         THEN RequiredUnits(p, r)
              \o Concat([i \in DOMAIN own |-> ProjectUnits(p, own[i])])
         ELSE <<>>)

\* A finding with nothing attached to it counts once.
LEMMA FlatOfAlone ==
  ASSUME NEW p \in DOMAIN passes, NEW r \in DOMAIN Rules, NEW own \in Seq(OwnSet(p, r))
  PROVE  Len(Flat(own)) <= Len(own)
<1> DEFINE n == Len(own)
           parts == [i \in 1 .. n |-> withAttached[own[i]]]
           singles == [i \in 1 .. n |-> <<own[i]>>]
<1>1. n \in Nat /\ DOMAIN own = 1 .. n /\ \A i \in 1 .. n : own[i] \in OwnSet(p, r)
  OBVIOUS
<1>2. Flat(own) = Concat(parts)
  BY DEF Flat, Image
<1>3. ASSUME NEW i \in 1 .. n PROVE withAttached[own[i]] = <<own[i]>>
  <2>1. own[i] \in Finding /\ own[i].required = <<>>
    BY <1>1, OwnSetFacts DEF Finding, Alone, AloneIn
  <2>2. withAttached[own[i]] = <<own[i]>> \o <<>>
    BY <2>1 DEF withAttached
  <2>3. <<own[i]>> \o <<>> = <<own[i]>>
    OBVIOUS
  <2> QED
    BY <2>2, <2>3
<1>4. own = [i \in 1 .. n |-> own[i]]
  OBVIOUS
<1>5. DOMAIN parts = 1 .. n /\ \A i \in 1 .. n : parts[i] = <<own[i]>>
  BY <1>3
<1> HIDE DEF n, parts
<1>6. Concat(parts) = own
  BY <1>1, <1>4, <1>5, ConcatOfSingles
<1>7. Len(own) \in Nat
  BY <1>1 DEF n
<1> QED
  BY <1>2, <1>6, <1>7

\* A composite finding counts with what it requires.
LEMMA FlatOfCompleted ==
  ASSUME GoodInput, NEW p \in DOMAIN passes, NEW r \in DOMAIN Rules, NEW f \in OwnSet(p, r),
         NEW some, some = IF HasAll(p, f) THEN <<WithRequired(p, f)>> ELSE <<>>
  PROVE  /\ some \in Seq(Finding) /\ Flat(some) \in Seq(Finding)
         /\ Projected(p, f) \in Seq(Finding)
         /\ Len(Flat(some)) <= Len(<<f>> \o Projected(p, f))
<1>0. f.rule = r /\ f \in Finding /\ Alone \subseteq Finding /\ AloneIn(p) \subseteq Alone
  BY OwnSetFacts DEF Finding, Alone, AloneIn
<1>1. Projected(p, f) \in Seq(Finding)
  <2>1. Projected(p, f) \in Seq(AloneIn(p))
    BY <1>0, ProjectedType
  <2>2. AloneIn(p) \subseteq Finding
    BY <1>0
  <2> QED
    BY <2>1, <2>2, SeqOfMore
<1>2. <<f>> \o Projected(p, f) \in Seq(Finding)
      /\ Len(<<f>> \o Projected(p, f)) = 1 + Len(Projected(p, f))
      /\ Len(Projected(p, f)) \in Nat
  BY <1>0, <1>1
<1>3. CASE HasAll(p, f)
  <2> DEFINE g == WithRequired(p, f)
  <2>1. g \in WholeFinding
    BY <1>3, CompletedIsWhole
  <2>2. g \in Finding /\ g.required = Projected(p, f)
    BY <2>1, OwnSetFacts DEF WholeFinding, WithRequired
  <2>3. some = <<g>>
    BY <1>3
  <2> HIDE DEF g
  <2>4. Flat(<<g>>) = withAttached[g]
    BY <2>2, WithAttachedMakes, ImageOne DEF Flat
  <2>5. withAttached[g] = <<g>> \o Projected(p, f)
    BY <2>2 DEF withAttached
  <2>6. <<g>> \o Projected(p, f) \in Seq(Finding)
        /\ Len(<<g>> \o Projected(p, f)) = 1 + Len(Projected(p, f))
    BY <1>1, <2>2
  <2>7. some \in Seq(Finding)
    BY <2>2, <2>3, AtMostOne
  <2>8. Len(Flat(some)) <= Len(<<f>> \o Projected(p, f))
    BY <1>2, <2>3, <2>4, <2>5, <2>6
  <2> QED
    BY <1>1, <2>3, <2>4, <2>5, <2>6, <2>7, <2>8
<1>4. CASE ~HasAll(p, f)
  <2>1. some = <<>>
    BY <1>4
  <2>2. Flat(<<>>) = <<>>
    BY ImageEmpty DEF Flat
  <2>3. Len(<<>>) = 0 /\ <<>> \in Seq(Finding)
    OBVIOUS
  <2>4. some \in Seq(Finding) /\ Flat(some) \in Seq(Finding) /\ Len(Flat(some)) = 0
    BY <2>1, <2>2, <2>3, Zenon
  <2>5. Len(Flat(some)) <= Len(<<f>> \o Projected(p, f))
    BY <1>2, <2>4
  <2> QED
    BY <1>1, <2>4, <2>5
<1> QED
  BY <1>3, <1>4

\* What a rule commits, with all that is attached, has been charged before.
LEMMA BeforeIsCharged ==
  ASSUME GoodInput, NEW p \in DOMAIN passes, NEW r \in DOMAIN Rules
  PROVE  Charged(Flat(RuleFindings(p, r)), Before(p, r))
<1> DEFINE own == OwnFindings(p, r, fragment.inherited)
           first == OwnUnits(p, r, fragment.inherited)
<1>1. own \in Seq(OwnSet(p, r)) /\ Charged(own, first)
  BY OwnFindingsType, OwnUnitsCharged
<1>2. first \in Seq(Quiet) /\ Len(own) <= Len(Records(first))
  BY <1>1 DEF Charged
<1>3. CASE ~Composite(p, r)
  <2>1. RuleFindings(p, r) = own /\ Before(p, r) = first \o <<>>
    BY <1>3 DEF RuleFindings, Before
  <2>2. Len(Flat(own)) <= Len(own)
    BY <1>1, FlatOfAlone
  <2> HIDE DEF own, first
  <2>3. Before(p, r) = first
    BY <1>2, <2>1
  <2>4. WholeFinding \subseteq Finding
    BY DEF WholeFinding
  <2>5. RuleFindings(p, r) \in Seq(Finding)
    BY <2>4, RuleFindingsType, SeqOfMore
  <2>6. Len(Flat(own)) \in Nat
    BY <2>1, <2>5, FlatType
  <2>7. Len(own) \in Nat /\ Len(Records(first)) \in Nat
    BY <1>1, <1>2, QuietIsScanUnit, RecordsJoin
  <2>8. Len(Flat(own)) <= Len(Records(first))
    BY <1>2, <2>2, <2>6, <2>7
  <2> QED
    BY <1>2, <2>1, <2>3, <2>8 DEF Charged
<1>4. CASE Composite(p, r)
  <2> DEFINE n == Len(own)
             completed == [i \in DOMAIN own |->
                             IF HasAll(p, own[i]) THEN <<WithRequired(p, own[i])>> ELSE <<>>]
             flats == [i \in 1 .. n |-> Flat(completed[i])]
             pairs == [i \in 1 .. n |-> <<own[i]>> \o Projected(p, own[i])]
             singles == [i \in 1 .. n |-> <<own[i]>>]
             projected == [i \in 1 .. n |-> Projected(p, own[i])]
             pieces == [i \in DOMAIN own |-> ProjectUnits(p, own[i])]
             required == RequiredUnits(p, r)
  <2>1. RuleFindings(p, r) = Concat(completed)
    BY <1>4 DEF RuleFindings, Completed, Collect, WithRequired
  <2>2. Before(p, r) = first \o (required \o Concat(pieces))
    BY <1>4 DEF Before
  <2>3. required \in Seq(Quiet)
    BY RequiredUnitsQuiet
  <2> HIDE DEF own, first, required
  <2>4. n \in Nat /\ DOMAIN own = 1 .. n /\ \A i \in 1 .. n : own[i] \in OwnSet(p, r)
    BY <1>1
  <2> HIDE DEF n
  <2>5. DOMAIN completed = 1 .. n /\ DOMAIN flats = 1 .. n /\ DOMAIN pairs = 1 .. n
        /\ DOMAIN singles = 1 .. n /\ DOMAIN projected = 1 .. n /\ DOMAIN pieces = 1 .. n
    BY <2>4
  <2>6. \A i \in 1 .. n :
          /\ completed[i] \in Seq(Finding) /\ flats[i] \in Seq(Finding)
          /\ projected[i] \in Seq(Finding)
          /\ Len(flats[i]) <= Len(pairs[i])
    <3>1. TAKE i \in 1 .. n
    <3>2. own[i] \in OwnSet(p, r)
          /\ completed[i] = IF HasAll(p, own[i]) THEN <<WithRequired(p, own[i])>> ELSE <<>>
      BY <2>4
    <3>3. /\ flats[i] = Flat(completed[i]) /\ projected[i] = Projected(p, own[i])
          /\ pairs[i] = <<own[i]>> \o Projected(p, own[i])
      OBVIOUS
    <3> HIDE DEF completed, flats, projected, pairs
    <3>4. /\ completed[i] \in Seq(Finding) /\ Flat(completed[i]) \in Seq(Finding)
          /\ Projected(p, own[i]) \in Seq(Finding)
          /\ Len(Flat(completed[i])) <= Len(<<own[i]>> \o Projected(p, own[i]))
      BY <3>2, FlatOfCompleted
    <3> QED
      BY <3>3, <3>4
  <2>7. \A i \in 1 .. n :
          /\ pairs[i] \in Seq(Finding) /\ singles[i] \in Seq(Finding)
          /\ Len(pairs[i]) = Len(singles[i]) + Len(projected[i])
    <3>1. TAKE i \in 1 .. n
    <3> DEFINE a == <<own[i]>>
               b == Projected(p, own[i])
    <3>2. own[i] \in Finding
      BY <2>4 DEF Finding, Alone, AloneIn
    <3>3. a \in Seq(Finding)
      BY <3>2, AtMostOne
    <3>4. b \in Seq(Finding)
      BY <2>6
    <3>5. pairs[i] = a \o b /\ singles[i] = a /\ projected[i] = b
      OBVIOUS
    <3> HIDE DEF a, b, pairs, singles, projected
    <3>6. a \o b \in Seq(Finding) /\ Len(a \o b) = Len(a) + Len(b)
      BY <3>3, <3>4
    <3> QED
      BY <3>3, <3>5, <3>6
  <2>8. \A i \in 1 .. n : projected[i] \in Seq(Finding) /\ Charged(projected[i], pieces[i])
    <3>1. TAKE i \in 1 .. n
    <3>2. own[i].rule \in DOMAIN Rules
      BY <2>4, OwnSetFacts
    <3>3. Charged(Projected(p, own[i]), ProjectUnits(p, own[i]))
      BY <3>2, ProjectUnitsCharged
    <3>4. projected[i] = Projected(p, own[i]) /\ pieces[i] = ProjectUnits(p, own[i])
      BY <2>4
    <3> QED
      BY <2>6, <3>3, <3>4
  <2>9. \A i \in 1 .. n : singles[i] = <<own[i]>>
    OBVIOUS
  <2>10. own = [i \in 1 .. n |-> own[i]]
    BY <1>1 DEF n
  <2>11. Flat(Concat(completed)) = Concat(flats)
    <3> HIDE DEF completed
    <3>1. \A i \in 1 .. n : completed[i] \in Seq(Finding)
      BY <2>6
    <3>2. Image(withAttached, Concat(completed))
            = Concat([i \in 1 .. n |-> Image(withAttached, completed[i])])
      BY <2>4, <2>5, <3>1, WithAttachedMakes, ImageOfConcat
    <3> QED
      BY <3>2 DEF Flat
  <2> HIDE DEF completed, flats, pairs, singles, projected, pieces
  <2>12. Len(Concat(flats)) <= Len(Concat(pairs))
    BY <2>4, <2>5, <2>6, <2>7, ConcatLonger
  <2>13. Len(Concat(pairs)) = Len(Concat(singles)) + Len(Concat(projected))
    <3>1. \A i \in 1 .. n : AsLong(pairs[i], singles[i], projected[i], Finding)
      BY <2>6, <2>7 DEF AsLong
    <3>2. Pairwise(pairs, singles, projected, n, Finding)
      BY <2>4, <2>5, <3>1 DEF Pairwise
    <3> QED
      BY <3>2, LengthOfPairs
  <2>14. Concat(singles) = own
    BY <2>4, <2>5, <2>9, <2>10, ConcatOfSingles
  <2>15. Charged(Concat(projected), Concat(pieces))
    BY <2>4, <2>5, <2>8, ChargedParts
  <2>16. Concat(projected) \in Seq(Finding) /\ Concat(flats) \in Seq(Finding)
    BY <2>4, <2>5, <2>6, ConcatType
  <2>17. Charged(Concat(projected), required \o Concat(pieces))
    <3>1. Len(Concat(projected)) \in Nat
      BY <2>16
    <3> QED
      BY <2>3, <2>15, <3>1, ChargedByMore
  <2> DEFINE second == required \o Concat(pieces)
  <2>18. second \in Seq(Quiet) /\ Len(Concat(projected)) <= Len(Records(second))
    BY <2>17 DEF Charged
  <2> HIDE DEF second
  <2>19. Len(Records(first \o second)) = Len(Records(first)) + Len(Records(second))
         /\ Len(Records(first)) \in Nat /\ Len(Records(second)) \in Nat
    BY <1>2, <2>18, QuietIsScanUnit, RecordsJoin
  <2>20. Len(own) \in Nat /\ Len(Concat(projected)) \in Nat /\ Len(Concat(flats)) \in Nat
    BY <1>1, <2>16
  <2>21. Len(Concat(flats)) <= Len(Records(first \o second))
    <3>1. Len(own) + Len(Concat(projected)) <= Len(Records(first)) + Len(Records(second))
      BY <1>2, <2>18, <2>19, <2>20, SumsCompare
    <3>2. Len(Concat(flats)) <= Len(own) + Len(Concat(projected))
      BY <2>12, <2>13, <2>14
    <3> QED
      BY <2>19, <2>20, <3>1, <3>2
  <2>22. first \o second \in Seq(Quiet)
    BY <1>2, <2>18
  <2>23. Charged(Flat(Concat(completed)), first \o second)
    BY <2>11, <2>21, <2>22 DEF Charged
  <2> QED
    BY <2>1, <2>2, <2>23 DEF second
<1> QED
  BY <1>3, <1>4

-----------------------------------------------------------------------------
(* Balanced units.                                                         *)

\* Nothing put together is nothing.
LEMMA ConcatOfNothing ==
  ASSUME NEW n \in Nat, NEW parts, DOMAIN parts = 1 .. n, \A i \in 1 .. n : parts[i] = <<>>
  PROVE  Concat(parts) = <<>>
<1> DEFINE f == [i \in 0 .. n |-> <<>>]
<1>1. <<>> \o <<>> = <<>>
  OBVIOUS
<1>2. f[0] = <<>> /\ f[n] = <<>> /\ \A i \in 1 .. n : f[i] = <<>> /\ f[i - 1] = <<>>
  OBVIOUS
<1> HIDE DEF f
<1>3. Steps(f, parts, n)
  BY <1>1, <1>2 DEF Steps
<1> QED
  BY <1>2, <1>3, ConcatUnique

LEMMA QuietCommitsNothing ==
  ASSUME NEW some \in Seq(Quiet)
  PROVE  Weight(some) = <<>> /\ Committed(some) = <<>>
<1> DEFINE n == Len(some)
           weights == [i \in 1 .. n |-> weightOf[some[i]]]
           given == [i \in 1 .. n |-> commitOf[some[i]]]
<1>1. n \in Nat /\ \A i \in 1 .. n : some[i] \in Quiet
  OBVIOUS
<1>2. \A u \in Quiet : weightOf[u] = <<>> /\ commitOf[u] = <<>>
  BY UnitFacts DEF weightOf, commitOf, ScanUnit
<1>3. /\ DOMAIN weights = 1 .. n /\ \A i \in 1 .. n : weights[i] = <<>>
      /\ DOMAIN given = 1 .. n /\ \A i \in 1 .. n : given[i] = <<>>
  BY <1>1, <1>2
<1>4. Weight(some) = Concat(weights) /\ Committed(some) = Concat(given)
  BY DEF Weight, Committed, Image
<1> HIDE DEF n, weights, given
<1> QED
  BY <1>1, <1>3, <1>4, ConcatOfNothing

\* However far the units are executed, the findings that are committed with all that is
\* attached to them have been charged.
Balanced(some) ==
  /\ some \in Seq(ScanUnit)
  /\ \A v, w \in Seq(ScanUnit) : some = v \o w => Len(Weight(v)) <= Len(Records(v))

\* What joined units commit is what both commit.
LEMMA WeightJoins ==
  ASSUME NEW a \in Seq(ScanUnit), NEW b \in Seq(ScanUnit)
  PROVE  /\ Weight(a) \in Seq(Finding) /\ Weight(b) \in Seq(Finding)
         /\ Weight(a \o b) = Weight(a) \o Weight(b)
         /\ Len(Weight(a \o b)) = Len(Weight(a)) + Len(Weight(b))
         /\ Len(Weight(a)) \in Nat /\ Len(Weight(b)) \in Nat
<1>1. Weight(a) \in Seq(Finding) /\ Weight(b) \in Seq(Finding)
  BY WeightOfMakes, ImageType DEF Weight
<1>2. Weight(a \o b) = Weight(a) \o Weight(b)
  BY WeightOfMakes, ImageJoins DEF Weight
<1> QED
  BY <1>1, <1>2

\* Units that commit nothing are balanced, and so are balanced ones that are joined.
LEMMA BeginningOfQuiet ==
  ASSUME NEW v \in Seq(ScanUnit), NEW w \in Seq(ScanUnit), v \o w \in Seq(Quiet)
  PROVE  v \in Seq(Quiet)
<1>1. v \in [1 .. Len(v) -> ScanUnit] /\ Len(v) \in Nat /\ Len(w) \in Nat
  BY LenProperties
<1>2. Len(v \o w) = Len(v) + Len(w)
  OBVIOUS
<1>3. ASSUME NEW i \in 1 .. Len(v) PROVE v[i] \in Quiet
  <2>1. i \in 1 .. Len(v) + Len(w)
    BY <1>1
  <2>2. (v \o w)[i] = v[i]
    BY <2>1, JoinedAt
  <2>3. (v \o w)[i] \in Quiet
    BY <1>2, <2>1
  <2> QED
    BY <2>2, <2>3
<1>4. v \in [1 .. Len(v) -> Quiet]
  BY <1>1, <1>3
<1> QED
  BY <1>1, <1>4, FunctionIsSeq

LEMMA QuietIsBalanced ==
  ASSUME NEW some \in Seq(Quiet)
  PROVE  Balanced(some)
<1>1. some \in Seq(ScanUnit)
  BY QuietIsScanUnit
<1>2. ASSUME NEW v \in Seq(ScanUnit), NEW w \in Seq(ScanUnit), some = v \o w
      PROVE  Len(Weight(v)) <= Len(Records(v))
  <2>1. v \in Seq(Quiet)
    BY <1>2, BeginningOfQuiet
  <2>2. Weight(v) = <<>>
    BY <2>1, QuietCommitsNothing
  <2>3. Len(Records(v)) \in Nat
    BY RecordsJoin
  <2>4. Len(<<>>) = 0
    OBVIOUS
  <2> QED
    BY <2>2, <2>3, <2>4
<1> QED
  BY <1>1, <1>2 DEF Balanced

LEMMA BalancedWhole ==
  ASSUME NEW some, Balanced(some)
  PROVE  Len(Weight(some)) <= Len(Records(some))
<1>1. some \in Seq(ScanUnit) /\ <<>> \in Seq(ScanUnit) /\ some = some \o <<>>
  BY DEF Balanced
<1> QED
  BY <1>1 DEF Balanced

LEMMA BalancedJoins ==
  ASSUME NEW a, NEW b, Balanced(a), Balanced(b)
  PROVE  Balanced(a \o b)
<1>1. a \in Seq(ScanUnit) /\ b \in Seq(ScanUnit) /\ a \o b \in Seq(ScanUnit)
  BY DEF Balanced
<1>2. ASSUME NEW v \in Seq(ScanUnit), NEW w \in Seq(ScanUnit), a \o b = v \o w
      PROVE  Len(Weight(v)) <= Len(Records(v))
  <2>1. CASE \E x \in Seq(ScanUnit) : v = a \o x /\ b = x \o w
    <3>1. PICK x \in Seq(ScanUnit) : v = a \o x /\ b = x \o w
      BY <2>1
    <3>2. Len(Weight(a)) <= Len(Records(a)) /\ Len(Weight(x)) <= Len(Records(x))
      BY <3>1, BalancedWhole DEF Balanced
    <3>3. /\ Len(Weight(v)) = Len(Weight(a)) + Len(Weight(x))
          /\ Len(Weight(a)) \in Nat /\ Len(Weight(x)) \in Nat
      BY <1>1, <3>1, WeightJoins
    <3>4. /\ Len(Records(v)) = Len(Records(a)) + Len(Records(x))
          /\ Len(Records(a)) \in Nat /\ Len(Records(x)) \in Nat
      BY <1>1, <3>1, RecordsJoin
    <3>5. Len(Weight(a)) + Len(Weight(x)) <= Len(Records(a)) + Len(Records(x))
      BY <3>2, <3>3, <3>4, SumsCompare
    <3> QED
      BY <3>3, <3>4, <3>5
  <2>2. CASE \E x \in Seq(ScanUnit) : a = v \o x /\ w = x \o b
    BY <2>2 DEF Balanced
  <2>3. Cut(v, w, a, b, ScanUnit)
    BY <1>1, <1>2, TwoCuts
  <2> QED
    BY <2>1, <2>2, <2>3 DEF Cut
<1> QED
  BY <1>1, <1>2 DEF Balanced

LEMMA BalancedConcat ==
  ASSUME NEW n \in Nat, NEW parts, DOMAIN parts = 1 .. n, \A i \in 1 .. n : Balanced(parts[i])
  PROVE  Balanced(Concat(parts))
<1>1. PICK f : Steps(f, parts, n) /\ Concat(parts) = f[n]
  BY ConcatSteps
<1> DEFINE P == {m \in Nat : m <= n => Balanced(f[m])}
<1>2. 0 \in P
  <2>1. f[0] = <<>>
    BY <1>1, Zenon DEF Steps
  <2>2. Balanced(<<>>)
    BY QuietUnits, QuietIsBalanced
  <2> QED
    BY <2>1, <2>2
<1>3. ASSUME NEW m \in Nat, m \in P PROVE m + 1 \in P
  <2>1. SUFFICES ASSUME m + 1 <= n PROVE Balanced(f[m + 1])
    OBVIOUS
  <2>2. m + 1 \in 1 .. n /\ (m + 1) - 1 = m /\ Balanced(f[m])
    BY <1>3, <2>1
  <2>3. f[m + 1] = f[m] \o parts[m + 1]
    BY <1>1, <2>2, Zenon DEF Steps
  <2>4. Balanced(parts[m + 1])
    BY <2>2
  <2>5. Balanced(f[m] \o parts[m + 1])
    BY <2>2, <2>4, BalancedJoins
  <2> QED
    BY <2>3, <2>5
<1>4. n \in P
  <2> HIDE DEF P
  <2> QED
    BY <1>2, <1>3, SetInduction
<1> QED
  BY <1>1, <1>4

LEMMA CommittedJoins ==
  ASSUME NEW a \in Seq(ScanUnit), NEW b \in Seq(ScanUnit)
  PROVE  /\ Committed(a) \in Seq(Seq(WholeFinding)) /\ Committed(b) \in Seq(Seq(WholeFinding))
         /\ Committed(a \o b) = Committed(a) \o Committed(b)
BY CommitOfMakes, ImageType, ImageJoins DEF Committed

\* The units of a rule are balanced, and what they commit are its findings.
LEMMA RuleUnitsBalanced ==
  ASSUME GoodInput, NEW p \in DOMAIN passes, NEW r \in DOMAIN Rules
  PROVE  /\ Balanced(RuleUnits(p, r))
         /\ Committed(RuleUnits(p, r)) = <<RuleFindings(p, r)>>
<1> DEFINE a == Before(p, r)
           c == CommitUnit(RuleFindings(p, r))
<1>1. Charged(Flat(RuleFindings(p, r)), a)
  BY BeforeIsCharged
<1>2. RuleFindings(p, r) \in Seq(WholeFinding)
  BY RuleFindingsType
<1>3. c \in Commits /\ c \in ScanUnit /\ c.kind = "Commit" /\ c.findings = RuleFindings(p, r)
      /\ c # Record
  BY <1>2, UnitFacts DEF Commits, ScanUnit, CommitUnit
<1>4. RuleUnits(p, r) = a \o <<c>>
  <2> DEFINE own == OwnFindings(p, r, fragment.inherited)
             first == OwnUnits(p, r, fragment.inherited)
             second == IF Composite(p, r)
                       THEN RequiredUnits(p, r)
                            \o Concat([i \in DOMAIN own |-> ProjectUnits(p, own[i])])
                       ELSE <<>>
  <2>1. RuleUnits(p, r) = first \o second \o <<c>> /\ a = first \o second
    BY DEF RuleUnits, Before
  <2> QED
    BY <2>1
<1> HIDE DEF a, c
<1>5. a \in Seq(Quiet) /\ a \in Seq(ScanUnit) /\ <<c>> \in Seq(ScanUnit)
      /\ Len(Flat(RuleFindings(p, r))) <= Len(Records(a))
  BY <1>1, <1>3, QuietIsScanUnit, AtMostOne DEF Charged
<1>6. commitOf[c] = <<RuleFindings(p, r)>> /\ weightOf[c] = Flat(RuleFindings(p, r))
      /\ recordOf[c] = <<>>
  BY <1>3 DEF commitOf, weightOf, recordOf
<1>7. /\ Committed(<<c>>) = <<RuleFindings(p, r)>>
      /\ Weight(<<c>>) = Flat(RuleFindings(p, r))
      /\ Records(<<c>>) = <<>>
  BY <1>3, <1>6, ImageOne, CommitOfMakes, WeightOfMakes, RecordOfMakes
  DEF Committed, Weight, Records
<1>8. Committed(a \o <<c>>) = <<RuleFindings(p, r)>>
  <2>1. Committed(a \o <<c>>) = Committed(a) \o Committed(<<c>>)
    BY <1>5, CommittedJoins
  <2>2. Committed(a) = <<>>
    BY <1>5, QuietCommitsNothing
  <2>3. <<>> \o <<RuleFindings(p, r)>> = <<RuleFindings(p, r)>>
    OBVIOUS
  <2> QED
    BY <1>7, <2>1, <2>2, <2>3
<1>9. Len(Weight(a \o <<c>>)) <= Len(Records(a \o <<c>>))
  <2>1. Len(Weight(a \o <<c>>)) = Len(Weight(a)) + Len(Weight(<<c>>))
        /\ Len(Weight(<<c>>)) \in Nat
    BY <1>5, WeightJoins
  <2>2. Len(Records(a \o <<c>>)) = Len(Records(a)) + Len(Records(<<c>>))
        /\ Len(Records(a)) \in Nat
    BY <1>5, RecordsJoin
  <2>3. Weight(a) = <<>>
    BY <1>5, QuietCommitsNothing
  <2>4. Len(<<>>) = 0
    OBVIOUS
  <2>5. Len(Weight(<<c>>)) <= Len(Records(a))
    BY <1>5, <1>7
  <2>6. Len(Weight(a)) = 0 /\ Len(Records(<<c>>)) = 0
    BY <1>7, <2>3, <2>4
  <2> QED
    BY <2>1, <2>2, <2>5, <2>6
<1>10. ASSUME NEW v \in Seq(ScanUnit), NEW w \in Seq(ScanUnit), a \o <<c>> = v \o w
       PROVE  Len(Weight(v)) <= Len(Records(v))
  <2>1. CASE \E x \in Seq(ScanUnit) : v = a \o x /\ <<c>> = x \o w
    <3>1. PICK x \in Seq(ScanUnit) : v = a \o x /\ <<c>> = x \o w
      BY <2>1
    <3>2. Len(x) + Len(w) = 1 /\ Len(x) \in Nat /\ Len(w) \in Nat
      <4>1. Len(x \o w) = Len(x) + Len(w) /\ Len(<<c>>) = 1
        OBVIOUS
      <4> QED
        BY <3>1, <4>1
    <3>3. CASE Len(x) = 0
      <4>1. x = <<>>
        BY <3>3, EmptySeq
      <4>2. v = a
        BY <1>5, <3>1, <4>1
      <4> QED
        BY <1>5, <4>2, QuietIsBalanced, BalancedWhole
    <3>4. CASE Len(w) = 0
      <4>1. w = <<>>
        BY <3>4, EmptySeq
      <4>2. x = <<c>>
        BY <3>1, <4>1
      <4> QED
        BY <1>9, <3>1, <4>2
    <3> QED
      BY <3>2, <3>3, <3>4
  <2>2. CASE \E x \in Seq(ScanUnit) : a = v \o x /\ w = x \o <<c>>
    <3>1. PICK x \in Seq(ScanUnit) : a = v \o x
      BY <2>2
    <3>2. Balanced(a)
      BY <1>5, QuietIsBalanced
    <3> QED
      BY <3>1, <3>2 DEF Balanced
  <2> DEFINE b == <<c>>
  <2>3. b \in Seq(ScanUnit) /\ a \o b = v \o w
    BY <1>5, <1>10
  <2>4. Cut(v, w, a, b, ScanUnit)
    <3> HIDE DEF b
    <3> QED
      BY <1>5, <2>3, TwoCuts
  <2> QED
    BY <2>1, <2>2, <2>4 DEF Cut
<1>11. a \o <<c>> \in Seq(ScanUnit)
  BY <1>5
<1>12. Balanced(a \o <<c>>)
  BY <1>10, <1>11 DEF Balanced
<1> QED
  BY <1>4, <1>8, <1>12

-----------------------------------------------------------------------------
(* Passes.                                                                 *)

\* The selected rules are rules of the configuration.
LEMMA SelectedType ==
  ASSUME NEW p
  PROVE  Selected(p) \in Seq(DOMAIN Rules)
<1> DEFINE parts == [r \in 1 .. MaxRuleId |->
                       IF /\ r \in DOMAIN Rules
                          /\ \/ Rules[r].keywords = {}
                             \/ Rules[r].keywords \cap passes[p].hits # {}
                       THEN <<r>> ELSE <<>>]
<1>1. Selected(p) = Concat(parts)
  BY DEF Selected, Numbers
<1>2. MaxRuleId \in Nat /\ DOMAIN parts = 1 .. MaxRuleId
  BY FileAssumption
<1>3. ASSUME NEW r \in 1 .. MaxRuleId PROVE parts[r] \in Seq(DOMAIN Rules)
  <2>1. CASE r \in DOMAIN Rules
    <3>1. parts[r] = <<>> \/ parts[r] = <<r>>
      OBVIOUS
    <3> HIDE DEF parts
    <3> QED
      BY <2>1, <3>1, AtMostOne
  <2>2. CASE r \notin DOMAIN Rules
    <3>1. parts[r] = <<>>
      BY <2>2
    <3> HIDE DEF parts
    <3> QED
      BY <3>1
  <2> QED
    BY <2>1, <2>2
<1> HIDE DEF parts
<1> QED
  BY <1>1, <1>2, <1>3, ConcatType

LEMMA RepeatIsQuiet ==
  ASSUME NEW n \in Nat, NEW u \in Quiet
  PROVE  Repeat(n, u) \in Seq(Quiet)
<1>1. Repeat(n, u) \in [1 .. n -> Quiet]
  BY DEF Repeat
<1> QED
  BY <1>1, FunctionIsSeq

LEMMA CommittedConcat ==
  ASSUME NEW n \in Nat, NEW parts, DOMAIN parts = 1 .. n,
         \A i \in 1 .. n : parts[i] \in Seq(ScanUnit)
  PROVE  Committed(Concat(parts)) = Concat([i \in 1 .. n |-> Committed(parts[i])])
<1>1. Image(commitOf, Concat(parts)) = Concat([i \in 1 .. n |-> Image(commitOf, parts[i])])
  BY CommitOfMakes, ImageOfConcat
<1> QED
  BY <1>1 DEF Committed

\* What the selected rules of a pass find.
FoundIn(p) == [i \in DOMAIN Selected(p) |-> RuleFindings(p, Selected(p)[i])]

LEMMA FoundInType ==
  ASSUME GoodInput, NEW p \in DOMAIN passes
  PROVE  /\ FoundIn(p) \in Seq(Seq(WholeFinding))
         /\ DOMAIN FoundIn(p) = 1 .. Len(Selected(p)) /\ Len(Selected(p)) \in Nat
<1>1. Selected(p) \in Seq(DOMAIN Rules)
  BY SelectedType
<1>2. DOMAIN Selected(p) = 1 .. Len(Selected(p)) /\ Len(Selected(p)) \in Nat
      /\ \A i \in 1 .. Len(Selected(p)) : Selected(p)[i] \in DOMAIN Rules
  BY <1>1
<1>3. FoundIn(p) \in [1 .. Len(Selected(p)) -> Seq(WholeFinding)]
  BY <1>2, RuleFindingsType DEF FoundIn
<1>4. FoundIn(p) \in Seq(Seq(WholeFinding))
  BY <1>2, <1>3, FunctionIsSeq
<1> QED
  BY <1>2, <1>3, <1>4

\* The units of all selected rules of a pass, of the pass, and of the decoding after
\* it.
LEMMA SelectedUnits ==
  ASSUME GoodInput, NEW p \in DOMAIN passes
  PROVE  LET rules == Concat([i \in DOMAIN Selected(p) |-> RuleUnits(p, Selected(p)[i])])
         IN Balanced(rules) /\ Committed(rules) = FoundIn(p)
<1> DEFINE parts == [i \in DOMAIN Selected(p) |-> RuleUnits(p, Selected(p)[i])]
           n == Len(Selected(p))
           given == [i \in 1 .. n |-> Committed(parts[i])]
<1>1. Selected(p) \in Seq(DOMAIN Rules)
  BY SelectedType
<1>2. DOMAIN Selected(p) = 1 .. n /\ n \in Nat
      /\ \A i \in 1 .. n : Selected(p)[i] \in DOMAIN Rules
  BY <1>1
<1>3. DOMAIN parts = 1 .. n
      /\ \A i \in 1 .. n : parts[i] = RuleUnits(p, Selected(p)[i])
  BY <1>2
<1> HIDE DEF parts, n
<1>4. \A i \in 1 .. n : /\ Balanced(parts[i])
                        /\ Committed(parts[i]) = <<RuleFindings(p, Selected(p)[i])>>
  BY <1>2, <1>3, RuleUnitsBalanced
<1>5. Balanced(Concat(parts))
  BY <1>2, <1>3, <1>4, BalancedConcat
<1>6. \A i \in 1 .. n : parts[i] \in Seq(ScanUnit)
  BY <1>4 DEF Balanced
<1>7. Committed(Concat(parts)) = Concat(given)
  BY <1>2, <1>3, <1>6, CommittedConcat
<1>8. DOMAIN given = 1 .. n
      /\ \A i \in 1 .. n : given[i] = <<FoundIn(p)[i]>>
  BY <1>2, <1>4 DEF FoundIn
<1>9. DOMAIN FoundIn(p) = 1 .. n /\ FoundIn(p) = [i \in 1 .. n |-> FoundIn(p)[i]]
  BY <1>2 DEF FoundIn
<1> HIDE DEF given
<1>10. Concat(given) = FoundIn(p)
  BY <1>2, <1>8, <1>9, ConcatOfSingles
<1> QED
  BY <1>5, <1>7, <1>10 DEF parts

LEMMA PassUnitsBalanced ==
  ASSUME GoodInput, NEW p \in DOMAIN passes
  PROVE  Balanced(PassUnits(p)) /\ Committed(PassUnits(p)) = FoundIn(p)
<1> DEFINE first == <<Work>> \o Repeat(passes[p].hitCount, Work)
           rules == Concat([i \in DOMAIN Selected(p) |-> RuleUnits(p, Selected(p)[i])])
<1>1. Repeat(passes[p].hitCount, Work) \in Seq(Quiet)
  <2>1. passes[p].hitCount \in Nat /\ Work \in Quiet
    BY DEF GoodInput, GoodPass, Quiet
  <2> QED
    BY <2>1, RepeatIsQuiet
<1>2. first \in Seq(Quiet)
  BY <1>1, QuietUnits
<1>3. Balanced(rules) /\ Committed(rules) = FoundIn(p)
  BY SelectedUnits
<1>4. PassUnits(p) = first \o rules
  BY DEF PassUnits
<1> HIDE DEF first, rules
<1>5. Balanced(first) /\ first \in Seq(ScanUnit) /\ rules \in Seq(ScanUnit)
  BY <1>2, <1>3, QuietIsBalanced DEF Balanced
<1>6. Balanced(first \o rules)
  BY <1>3, <1>5, BalancedJoins
<1>7. Committed(first \o rules) = Committed(first) \o Committed(rules)
  BY <1>5, CommittedJoins
<1>8. Committed(first) = <<>>
  BY <1>2, QuietCommitsNothing
<1>9. FoundIn(p) \in Seq(Seq(WholeFinding))
  BY FoundInType
<1>10. <<>> \o FoundIn(p) = FoundIn(p)
  BY <1>9
<1> QED
  BY <1>3, <1>4, <1>6, <1>7, <1>8, <1>10

LEMMA DecodeUnitsAreQuiet ==
  ASSUME GoodInput, NEW p \in DOMAIN passes
  PROVE  DecodeUnits(p) \in Seq(Quiet)
<1> DEFINE d == passes[p]
           compared == IF d.captures > 1 THEN d.captures ELSE 0
           n == d.captures + compared + d.kept + d.segments * Segments(p - 1) + d.segments
           many == Repeat(n, Work)
<1>1. d.captures \in Nat /\ d.kept \in Nat /\ d.segments \in Nat
  BY DEF GoodInput, GoodPass
<1>2. Segments(p - 1) \in Nat
  <2>1. PICK m \in Nat : DOMAIN passes = 1 .. m
    BY DEF GoodInput, Sized
  <2>2. CASE p - 1 = 0
    BY <2>2 DEF Segments
  <2>3. CASE p - 1 # 0
    <3>1. p - 1 \in DOMAIN passes
      BY <2>1, <2>3
    <3> QED
      BY <2>3, <3>1 DEF Segments, GoodInput, GoodPass
  <2> QED
    BY <2>2, <2>3
<1>3. d.segments * Segments(p - 1) \in Nat
  BY <1>1, <1>2
<1>4. n \in Nat
  BY <1>1, <1>3
<1>5. Work \in Quiet
  BY DEF Quiet
<1>6. DecodeUnits(p) = <<Work>> \o many \o <<Poll>>
  BY DEF DecodeUnits
<1> HIDE DEF n, d
<1>7. many \in Seq(Quiet)
  BY <1>4, <1>5, RepeatIsQuiet
<1> HIDE DEF many
<1> QED
  BY <1>6, <1>7, QuietUnits

\* Everything the pass over one text is charged for.
PassAndDecodeUnits(p) ==
  PassUnits(p)
  \o (IF Decodes(p) THEN DecodeUnits(p) ELSE <<>>)
  \o (IF Continues(p) THEN <<Charge("DecodedBytes", passes[p + 1].bytes)>> ELSE <<>>)

LEMMA PassAndDecodeBalanced ==
  ASSUME GoodInput, NEW p \in DOMAIN passes
  PROVE  Balanced(PassAndDecodeUnits(p)) /\ Committed(PassAndDecodeUnits(p)) = FoundIn(p)
<1> DEFINE a == PassUnits(p)
           b == IF Decodes(p) THEN DecodeUnits(p) ELSE <<>>
           c == IF Continues(p) THEN <<Charge("DecodedBytes", passes[p + 1].bytes)>> ELSE <<>>
<1>1. Balanced(a) /\ Committed(a) = FoundIn(p)
  BY PassUnitsBalanced
<1>2. b \in Seq(Quiet)
  BY DecodeUnitsAreQuiet, QuietUnits
<1>3. c \in Seq(Quiet)
  <2>1. CASE Continues(p)
    <3>1. PICK m \in Nat : DOMAIN passes = 1 .. m
      BY DEF GoodInput, Sized
    <3>2. Len(passes) = m
      <4>1. PICK S : passes \in Seq(S)
        BY DEF GoodInput
      <4> QED
        BY <3>1, <4>1
    <3>3. p + 1 \in DOMAIN passes
      BY <2>1, <3>1, <3>2 DEF Continues
    <3>4. passes[p + 1].bytes \in Nat
      BY <3>3 DEF GoodInput, GoodPass
    <3>5. Charge("DecodedBytes", passes[p + 1].bytes) \in Quiet
      BY <3>4 DEF Quiet
    <3> QED
      BY <2>1, <3>5
  <2>2. CASE ~Continues(p)
    BY <2>2, QuietUnits
  <2> QED
    BY <2>1, <2>2
<1>4. PassAndDecodeUnits(p) = a \o b \o c
  BY DEF PassAndDecodeUnits
<1>5. FoundIn(p) \in Seq(Seq(WholeFinding))
  BY FoundInType
<1> HIDE DEF a, b, c
<1> DEFINE q == b \o c
<1>6. q \in Seq(Quiet) /\ a \in Seq(ScanUnit) /\ b \in Seq(ScanUnit) /\ c \in Seq(ScanUnit)
  BY <1>1, <1>2, <1>3, QuietIsScanUnit DEF Balanced
<1>7. a \o b \o c = a \o q
  BY <1>6
<1> HIDE DEF q
<1>8. Balanced(q) /\ q \in Seq(ScanUnit)
  BY <1>6, QuietIsBalanced, QuietIsScanUnit
<1>9. Balanced(a \o q)
  BY <1>1, <1>8, BalancedJoins
<1>10. Committed(a \o q) = Committed(a) \o Committed(q)
  BY <1>6, <1>8, CommittedJoins
<1>11. Committed(q) = <<>>
  BY <1>6, QuietCommitsNothing
<1>12. FoundIn(p) \o <<>> = FoundIn(p)
  BY <1>5
<1> QED
  BY <1>1, <1>4, <1>7, <1>9, <1>10, <1>11, <1>12

\* What is committed when all units are executed.
Planned == IF Allowed(Allowlists) THEN <<>> ELSE TopLevel

\* The plan is a list of lists of whole findings.
LEMMA TopLevelType ==
  ASSUME GoodInput
  PROVE  TopLevel \in Seq(Seq(WholeFinding)) /\ Planned \in Seq(Seq(WholeFinding))
<1> DEFINE parts == [p \in DOMAIN passes |-> FoundIn(p)]
<1>1. PICK m \in Nat : DOMAIN passes = 1 .. m
  BY DEF GoodInput, Sized
<1>2. DOMAIN parts = 1 .. m /\ \A p \in 1 .. m : parts[p] \in Seq(Seq(WholeFinding))
  BY <1>1, FoundInType
<1>3. TopLevel = Concat(parts)
  BY DEF TopLevel, FoundIn
<1> HIDE DEF parts
<1>4. TopLevel \in Seq(Seq(WholeFinding))
  BY <1>2, <1>3, ConcatType
<1> QED
  BY <1>4 DEF Planned

\* The whole scan is balanced, and it commits what is planned.
LEMMA ScanUnitsBalanced ==
  ASSUME GoodInput
  PROVE  Balanced(ScanUnits) /\ Committed(ScanUnits) = Planned
<1>1. Balanced(<<Poll>>) /\ <<Poll>> \in Seq(Quiet) /\ Committed(<<Poll>>) = <<>>
      /\ <<Poll>> \in Seq(ScanUnit)
  BY QuietUnits, QuietIsBalanced, QuietCommitsNothing, QuietIsScanUnit
<1>2. CASE Allowed(Allowlists)
  <2>1. ScanUnits = <<Poll>>
    <3>1. ScanUnits = <<Poll>> \o <<>>
      BY <1>2 DEF ScanUnits
    <3> QED
      BY <3>1
  <2> QED
    BY <1>1, <1>2, <2>1 DEF Planned
<1>3. CASE ~Allowed(Allowlists)
  <2> DEFINE parts == [p \in DOMAIN passes |-> PassAndDecodeUnits(p)]
             rest == Concat(parts)
  <2>1. PICK m \in Nat : DOMAIN passes = 1 .. m
    BY DEF GoodInput, Sized
  <2>2. DOMAIN parts = 1 .. m /\ \A p \in 1 .. m : /\ Balanced(parts[p])
                                                  /\ Committed(parts[p]) = FoundIn(p)
    BY <2>1, PassAndDecodeBalanced
  <2>3. ScanUnits = <<Poll>> \o rest
    BY <1>3 DEF ScanUnits, PassAndDecodeUnits
  <2> DEFINE given == [p \in 1 .. m |-> Committed(parts[p])]
  <2>4. given = [p \in DOMAIN passes |-> FoundIn(p)]
    BY <2>1, <2>2
  <2>5. TopLevel = Concat([p \in DOMAIN passes |-> FoundIn(p)])
    BY DEF TopLevel, FoundIn
  <2>6. \A p \in 1 .. m : parts[p] \in Seq(ScanUnit)
    BY <2>2 DEF Balanced
  <2> HIDE DEF parts
  <2>7. Committed(rest) = Concat(given)
    BY <2>2, <2>6, CommittedConcat
  <2>8. Balanced(rest)
    BY <2>2, BalancedConcat
  <2> HIDE DEF rest, given
  <2>9. Committed(rest) = TopLevel /\ rest \in Seq(ScanUnit)
    BY <2>4, <2>5, <2>7, <2>8 DEF Balanced
  <2>10. Committed(<<Poll>> \o rest) = Committed(<<Poll>>) \o Committed(rest)
    <3> DEFINE a == <<Poll>>
    <3>1. a \in Seq(ScanUnit)
      BY <1>1
    <3> HIDE DEF a
    <3>2. Committed(a \o rest) = Committed(a) \o Committed(rest)
      BY <2>9, <3>1, CommittedJoins
    <3> QED
      BY <3>2 DEF a
  <2>11. <<>> \o TopLevel = TopLevel
    BY TopLevelType
  <2>12. Balanced(<<Poll>> \o rest)
    BY <1>1, <2>8, BalancedJoins
  <2> QED
    BY <1>1, <1>3, <2>3, <2>9, <2>10, <2>11, <2>12 DEF Planned
<1> QED
  BY <1>2, <1>3

-----------------------------------------------------------------------------
(* The final filter.                                                       *)

\* The units of the final filter: polls and verdicts.
FilterUnit == {Poll} \cup {Include(retained) : retained \in BOOLEAN}

\* The verdict a unit gives, and the verdicts on all findings.
verdictOf == [u \in FilterUnit |-> IF u.kind = "Include" THEN <<u.retained>> ELSE <<>>]
Verdicts(findings) == [i \in 1 .. Len(findings) |-> Retained(findings, findings[i])]

\* How they are told apart.
LEMMA FilterUnitFacts ==
  /\ Poll.kind # "Include" /\ Poll \in FilterUnit
  /\ \A b \in BOOLEAN : /\ Include(b).kind = "Include" /\ Include(b).retained = b
                        /\ Include(b) \in FilterUnit
  /\ \A u \in FilterUnit : u.kind \in {"Poll", "Include"}
                           /\ (u.kind = "Include" => u.retained \in BOOLEAN)
<1>1. Poll.kind = "Poll" /\ Poll \in FilterUnit
  BY DEF FilterUnit, Poll
<1>2. ASSUME NEW b \in BOOLEAN
      PROVE  Include(b).kind = "Include" /\ Include(b).retained = b
  BY DEF Include
<1>3. \A b \in BOOLEAN : Include(b) \in FilterUnit
  BY DEF FilterUnit
<1>4. ASSUME NEW u \in FilterUnit
      PROVE  /\ u.kind \in {"Poll", "Include"}
             /\ u.kind = "Include" => u.retained \in BOOLEAN
  <2>1. CASE u = Poll
    BY <1>1, <2>1
  <2>2. CASE u # Poll
    <3>1. PICK b \in BOOLEAN : u = Include(b)
      BY <2>2 DEF FilterUnit
    <3>2. u.kind = "Include" /\ u.retained = b
      BY <1>2, <3>1
    <3> QED
      BY <3>2
  <2> QED
    BY <2>1, <2>2
<1> QED
  BY <1>1, <1>2, <1>3, <1>4

Verdict == BOOLEAN

LEMMA VerdictOfMakes == Makes(verdictOf, FilterUnit, Verdict)
<1>1. ASSUME NEW u \in FilterUnit PROVE verdictOf[u] \in Seq(BOOLEAN)
  <2>1. CASE u.kind = "Include"
    <3>1. verdictOf[u] = <<u.retained>> /\ u.retained \in BOOLEAN
      BY <2>1, FilterUnitFacts DEF verdictOf
    <3> QED
      BY <3>1, AtMostOne
  <2>2. CASE u.kind # "Include"
    <3>1. verdictOf[u] = <<>>
      BY <2>2 DEF verdictOf
    <3> QED
      BY <3>1
  <2> QED
    BY <2>1, <2>2
<1>2. verdictOf = [u \in FilterUnit |-> verdictOf[u]]
  BY DEF verdictOf
<1> QED
  BY <1>1, <1>2 DEF Makes, Verdict

LEMMA VerdictsJoin ==
  ASSUME NEW a \in Seq(FilterUnit), NEW c \in Seq(FilterUnit)
  PROVE  Image(verdictOf, a \o c) = Image(verdictOf, a) \o Image(verdictOf, c)
BY VerdictOfMakes, ImageJoins

LEMMA RetainedType ==
  ASSUME NEW findings, NEW f
  PROVE  Retained(findings, f) \in BOOLEAN
BY DEF Retained

LEMMA ComparedCounted ==
  ASSUME NEW T, NEW findings \in Seq(T), NEW f
  PROVE  Cardinality(Compared(findings, f)) \in Nat
<1>1. DOMAIN findings = 1 .. Len(findings) /\ Len(findings) \in Int
  OBVIOUS
<1>2. Compared(findings, f) \in SUBSET (1 .. Len(findings))
  BY <1>1 DEF Compared
<1>3. IsFiniteSet(1 .. Len(findings))
  BY <1>1, FS_Interval
<1>4. IsFiniteSet(Compared(findings, f))
  BY <1>2, <1>3, FS_Subset
<1> QED
  BY <1>4, FS_CardinalityType

LEMMA PollsGiveNothing ==
  ASSUME NEW n \in Nat
  PROVE  /\ Repeat(n, Poll) \in Seq(FilterUnit)
         /\ Image(verdictOf, Repeat(n, Poll)) = <<>>
<1>1. Repeat(n, Poll) \in [1 .. n -> FilterUnit]
  BY FilterUnitFacts DEF Repeat
<1>2. Repeat(n, Poll) \in Seq(FilterUnit) /\ Len(Repeat(n, Poll)) = n
  BY <1>1, FunctionIsSeq
<1> DEFINE parts == [i \in 1 .. n |-> verdictOf[Repeat(n, Poll)[i]]]
<1>3. Image(verdictOf, Repeat(n, Poll)) = Concat(parts)
  BY <1>2 DEF Image
<1>4. verdictOf[Poll] = <<>>
  BY FilterUnitFacts DEF verdictOf
<1>5. DOMAIN parts = 1 .. n /\ \A i \in 1 .. n : parts[i] = <<>>
  BY <1>4 DEF Repeat
<1> HIDE DEF parts
<1>6. Concat(parts) = <<>>
  BY <1>5, ConcatOfNothing
<1> QED
  BY <1>2, <1>3, <1>6

LEMMA OneVerdict ==
  ASSUME NEW n \in Nat, NEW b \in BOOLEAN
  PROVE  /\ Repeat(n, Poll) \o <<Include(b)>> \in Seq(FilterUnit)
         /\ Image(verdictOf, Repeat(n, Poll) \o <<Include(b)>>) = <<b>>
<1> DEFINE a == Repeat(n, Poll)
           u == Include(b)
           c == <<u>>
<1>1. a \in Seq(FilterUnit) /\ Image(verdictOf, a) = <<>>
  BY PollsGiveNothing
<1>2. u \in FilterUnit /\ u.kind = "Include" /\ u.retained = b
  BY FilterUnitFacts
<1>3. verdictOf[u] = <<b>>
  BY <1>2 DEF verdictOf
<1> HIDE DEF a, u
<1>4. Image(verdictOf, c) = <<b>>
  BY <1>2, <1>3, VerdictOfMakes, ImageOne
<1>5. c \in Seq(FilterUnit)
  BY <1>2
<1> HIDE DEF c
<1>6. Image(verdictOf, a \o c) = Image(verdictOf, a) \o Image(verdictOf, c)
  BY <1>1, <1>5, VerdictsJoin
<1>7. <<>> \o <<b>> = <<b>>
  OBVIOUS
<1>8. a \o c \in Seq(FilterUnit)
  BY <1>1, <1>5
<1> QED
  BY <1>1, <1>4, <1>6, <1>7, <1>8 DEF a, c, u

\* The units of the filter give the verdict on every finding, in their order.
LEMMA FilterUnitsGiveVerdicts ==
  ASSUME NEW T, NEW findings \in Seq(T)
  PROVE  /\ FilterUnits(findings) \in Seq(FilterUnit)
         /\ Image(verdictOf, FilterUnits(findings)) = Verdicts(findings)
<1> DEFINE n == Len(findings)
           count(i) == 1 + Cardinality(Compared(findings, findings[i]))
           verdict(i) == Retained(findings, findings[i])
           parts == [i \in DOMAIN findings |-> Repeat(count(i), Poll) \o <<Include(verdict(i))>>]
           images == [i \in 1 .. n |-> Image(verdictOf, parts[i])]
<1>1. DOMAIN findings = 1 .. n /\ n \in Nat
  OBVIOUS
<1>2. FilterUnits(findings) = Concat(parts)
  BY DEF FilterUnits
<1>3. DOMAIN parts = 1 .. n
  BY <1>1
<1>4. ASSUME NEW i \in 1 .. n
      PROVE  parts[i] \in Seq(FilterUnit) /\ Image(verdictOf, parts[i]) = <<Verdicts(findings)[i]>>
  <2>1. parts[i] = Repeat(count(i), Poll) \o <<Include(verdict(i))>>
    BY <1>1
  <2>2. count(i) \in Nat
    BY ComparedCounted
  <2>3. verdict(i) \in BOOLEAN
    BY RetainedType
  <2>4. Verdicts(findings)[i] = verdict(i)
    BY DEF Verdicts
  <2> HIDE DEF parts, count, verdict
  <2> QED
    BY <2>1, <2>2, <2>3, <2>4, OneVerdict
<1> HIDE DEF parts
<1>5. Concat(parts) \in Seq(FilterUnit)
  BY <1>1, <1>3, <1>4, ConcatType
<1>6. Image(verdictOf, Concat(parts)) = Concat(images)
  <2>1. \A i \in 1 .. n : parts[i] \in Seq(FilterUnit)
    BY <1>4
  <2> HIDE DEF n
  <2> QED
    BY <1>1, <1>3, <2>1, VerdictOfMakes, ImageOfConcat
<1>7. DOMAIN images = 1 .. n /\ \A i \in 1 .. n : images[i] = <<Verdicts(findings)[i]>>
  BY <1>4
<1>8. DOMAIN Verdicts(findings) = 1 .. n
      /\ Verdicts(findings) = [i \in 1 .. n |-> Verdicts(findings)[i]]
  BY DEF Verdicts
<1> HIDE DEF images, n
<1>9. Concat(images) = Verdicts(findings)
  BY <1>1, <1>7, <1>8, ConcatOfSingles
<1> QED
  BY <1>2, <1>5, <1>6, <1>9

\* The pieces a filter puts together.
Kept(findings, verdicts) ==
  [i \in 1 .. Len(verdicts) |-> IF verdicts[i] THEN <<findings[i]>> ELSE <<>>]

\* The filter of a partial outcome and the one of a complete outcome are one.
LEMMA KeptPieces ==
  ASSUME NEW findings, NEW verdicts \in Seq(BOOLEAN)
  PROVE  /\ ApplyFindingFilter(findings, verdicts) = Concat(Kept(findings, verdicts))
         /\ DOMAIN Kept(findings, verdicts) = 1 .. Len(verdicts) /\ Len(verdicts) \in Nat
<1>1. DOMAIN verdicts = 1 .. Len(verdicts) /\ Len(verdicts) \in Nat
  OBVIOUS
<1> QED
  BY <1>1 DEF ApplyFindingFilter, Kept

LEMMA VerdictsType ==
  ASSUME NEW T, NEW findings \in Seq(T)
  PROVE  Verdicts(findings) \in Seq(BOOLEAN) /\ Len(Verdicts(findings)) = Len(findings)
<1>1. Verdicts(findings) \in [1 .. Len(findings) -> BOOLEAN] /\ Len(findings) \in Nat
  BY RetainedType DEF Verdicts
<1> QED
  BY <1>1, FunctionIsSeq

LEMMA FilterIsApplied ==
  ASSUME NEW T, NEW findings \in Seq(T)
  PROVE  FilterFindings(findings) = ApplyFindingFilter(findings, Verdicts(findings))
<1>1. DOMAIN findings = 1 .. Len(findings)
  OBVIOUS
<1>2. DOMAIN Verdicts(findings) = 1 .. Len(findings)
  BY DEF Verdicts
<1>3. \A i \in 1 .. Len(findings) : Verdicts(findings)[i] = Retained(findings, findings[i])
  BY DEF Verdicts
<1> DEFINE one == [i \in DOMAIN findings |->
                     IF Retained(findings, findings[i]) THEN <<findings[i]>> ELSE <<>>]
           two == [i \in DOMAIN Verdicts(findings) |->
                     IF Verdicts(findings)[i] THEN <<findings[i]>> ELSE <<>>]
<1>4. one = two
  BY <1>1, <1>2, <1>3
<1>5. FilterFindings(findings) = Concat(one)
  BY DEF FilterFindings, Only
<1>6. ApplyFindingFilter(findings, Verdicts(findings)) = Concat(two)
  BY DEF ApplyFindingFilter
<1> QED
  BY <1>4, <1>5, <1>6

\* The verdicts so far are the first of all.
FirstVerdicts(findings, verdicts) ==
  /\ verdicts \in Seq(BOOLEAN)
  /\ Len(verdicts) <= Len(findings)
  /\ \A i \in 1 .. Len(verdicts) : verdicts[i] = Retained(findings, findings[i])

\* All verdicts are the first ones of all.
LEMMA AllVerdicts ==
  ASSUME NEW T, NEW findings \in Seq(T)
  PROVE  FirstVerdicts(findings, Verdicts(findings))
<1>1. Verdicts(findings) \in Seq(BOOLEAN) /\ Len(Verdicts(findings)) = Len(findings)
  BY VerdictsType
<1>2. \A i \in 1 .. Len(findings) : Verdicts(findings)[i] = Retained(findings, findings[i])
  BY DEF Verdicts
<1>3. Len(findings) <= Len(findings)
  OBVIOUS
<1> QED
  BY <1>1, <1>2, <1>3 DEF FirstVerdicts

\* What a filter keeps is retained.
LEMMA KeptAreRetained ==
  ASSUME NEW T, NEW findings \in Seq(T), NEW verdicts, FirstVerdicts(findings, verdicts)
  PROVE  /\ \A i \in 1 .. Len(verdicts) :
              Kept(findings, verdicts)[i] \in Seq({f \in T : Retained(findings, f)})
         /\ ApplyFindingFilter(findings, verdicts) \in Seq({f \in T : Retained(findings, f)})
<1> DEFINE R == {f \in T : Retained(findings, f)}
           kept == Kept(findings, verdicts)
<1>1. verdicts \in Seq(BOOLEAN)
  BY DEF FirstVerdicts
<1>2. ApplyFindingFilter(findings, verdicts) = Concat(kept)
      /\ DOMAIN kept = 1 .. Len(verdicts) /\ Len(verdicts) \in Nat
  BY <1>1, KeptPieces
<1>3. ASSUME NEW i \in 1 .. Len(verdicts) PROVE kept[i] \in Seq(R)
  <2>1. i \in 1 .. Len(findings) /\ verdicts[i] = Retained(findings, findings[i])
    BY <1>2 DEF FirstVerdicts
  <2>2. findings[i] \in T
    BY <2>1
  <2>3. kept[i] = IF verdicts[i] THEN <<findings[i]>> ELSE <<>>
    BY <1>2 DEF Kept
  <2>4. CASE verdicts[i]
    <3>1. findings[i] \in R
      BY <2>1, <2>2, <2>4
    <3>2. kept[i] = <<findings[i]>>
      BY <2>3, <2>4
    <3> HIDE DEF R, kept
    <3> QED
      BY <3>1, <3>2, AtMostOne
  <2>5. CASE ~verdicts[i]
    <3>1. kept[i] = <<>>
      BY <2>3, <2>5
    <3> HIDE DEF R, kept
    <3> QED
      BY <3>1
  <2> QED
    BY <2>4, <2>5
<1> HIDE DEF R, kept
<1>4. Concat(kept) \in Seq(R)
  BY <1>2, <1>3, ConcatType
<1> QED
  BY <1>2, <1>3, <1>4 DEF R, kept

LEMMA FilterKeepsRetained ==
  ASSUME NEW T, NEW findings \in Seq(T)
  PROVE  FilterFindings(findings) \in Seq({f \in T : Retained(findings, f)})
BY AllVerdicts, KeptAreRetained, FilterIsApplied

\* What the first verdicts keep is the beginning of what all keep.
LEMMA AppliedBegins ==
  ASSUME NEW T, NEW findings \in Seq(T), NEW verdicts, FirstVerdicts(findings, verdicts)
  PROVE  Begins(ApplyFindingFilter(findings, verdicts), FilterFindings(findings), T)
<1> DEFINE R == {f \in T : Retained(findings, f)}
           every == Verdicts(findings)
           parts == Kept(findings, every)
           some == Kept(findings, verdicts)
<1>1. verdicts \in Seq(BOOLEAN) /\ Len(verdicts) <= Len(findings)
      /\ \A i \in 1 .. Len(verdicts) : verdicts[i] = Retained(findings, findings[i])
  BY DEF FirstVerdicts
<1>2. every \in Seq(BOOLEAN) /\ Len(every) = Len(findings)
      /\ \A i \in 1 .. Len(findings) : every[i] = Retained(findings, findings[i])
  BY VerdictsType DEF Verdicts
<1>3. /\ ApplyFindingFilter(findings, verdicts) = Concat(some)
      /\ DOMAIN some = 1 .. Len(verdicts) /\ Len(verdicts) \in Nat
  BY <1>1, KeptPieces
<1>4. /\ ApplyFindingFilter(findings, every) = Concat(parts)
      /\ DOMAIN parts = 1 .. Len(findings) /\ Len(findings) \in Nat
  BY <1>2, KeptPieces
<1>5. ASSUME NEW i \in 1 .. Len(verdicts) PROVE some[i] = parts[i]
  <2>1. i \in 1 .. Len(findings)
    BY <1>1, <1>3, <1>4
  <2>2. some[i] = (IF verdicts[i] THEN <<findings[i]>> ELSE <<>>)
        /\ parts[i] = (IF every[i] THEN <<findings[i]>> ELSE <<>>)
    BY <1>2, <2>1 DEF Kept
  <2>3. verdicts[i] = every[i]
    BY <1>1, <1>2, <2>1
  <2> QED
    BY <2>2, <2>3
<1>6. R \subseteq T /\ FirstVerdicts(findings, every)
  BY AllVerdicts
<1>7. \A i \in 1 .. Len(findings) : parts[i] \in Seq(T)
  <2>1. \A i \in 1 .. Len(every) : parts[i] \in Seq(R)
    BY <1>6, KeptAreRetained
  <2> HIDE DEF R, parts, every
  <2> QED
    BY <1>2, <1>6, <2>1, SeqOfMore
<1>8. Concat(some) \in Seq(T)
  <2>1. ApplyFindingFilter(findings, verdicts) \in Seq(R)
    BY KeptAreRetained
  <2> HIDE DEF R
  <2> QED
    BY <1>3, <1>6, <2>1, SeqOfMore
<1>9. FilterFindings(findings) = Concat(parts)
  BY <1>4, FilterIsApplied
<1> HIDE DEF parts, some, every, R
<1>11. Len(verdicts) \in 0 .. Len(findings)
  BY <1>1, <1>3, <1>4
<1>12. Begins(Concat(some), Concat(parts), T)
  <2> DEFINE n == Len(findings)
             k == Len(verdicts)
  <2>1. n \in Nat /\ k \in 0 .. n /\ DOMAIN parts = 1 .. n /\ DOMAIN some = 1 .. k
    BY <1>3, <1>4, <1>11
  <2>2. \A i \in 1 .. n : parts[i] \in Seq(T)
    BY <1>7
  <2>3. \A i \in 1 .. k : some[i] = parts[i]
    BY <1>5
  <2> HIDE DEF n, k
  <2> QED
    BY <2>1, <2>2, <2>3, ConcatBegins
<1> QED
  BY <1>3, <1>9, <1>12

\* That is what IsPrefix says.
LEMMA BeginningIsPrefix ==
  ASSUME NEW T, NEW some, NEW all, Begins(some, all, T)
  PROVE  IsPrefix(some, all)
<1>1. PICK rest \in Seq(T) : all = some \o rest
  BY DEF Begins
<1>2. some \in Seq(T) /\ all \in Seq(T)
  BY DEF Begins
<1>3. Len(all) = Len(some) + Len(rest) /\ Len(some) \in Nat /\ Len(rest) \in Nat
  BY <1>1, <1>2
<1>4. SubSeq(some, 1, Len(some)) = some
  BY <1>2
<1>5. SubSeq(all, 1, Len(some)) = some
  <2> DEFINE s == SubSeq(all, 1, Len(some))
  <2>1. s \in Seq(T) /\ Len(s) = Len(some)
    BY <1>2, <1>3
  <2>2. \A i \in 1 .. Len(some) : s[i] = some[i]
    <3>1. \A i \in 1 .. Len(some) : s[i] = all[i]
      BY <1>2, <1>3
    <3>2. \A i \in 1 .. Len(some) : (some \o rest)[i] = some[i]
      BY <1>2, <1>3, JoinedAt
    <3> QED
      BY <1>1, <3>1, <3>2
  <2> HIDE DEF s
  <2>3. s = some
    BY <1>2, <2>1, <2>2, SeqEqual
  <2> QED
    BY <2>3 DEF s
<1> QED
  BY <1>3, <1>4, <1>5 DEF IsPrefix

-----------------------------------------------------------------------------
(* Counting findings with all that is attached to them.                    *)

\* What is attached to joined findings is what is attached to both.
LEMMA FlatJoins ==
  ASSUME NEW a \in Seq(Finding), NEW b \in Seq(Finding)
  PROVE  /\ Flat(a \o b) = Flat(a) \o Flat(b)
         /\ Len(Flat(a \o b)) = Len(Flat(a)) + Len(Flat(b))
         /\ Len(Flat(a)) \in Nat /\ Len(Flat(b)) \in Nat
<1>1. Flat(a \o b) = Flat(a) \o Flat(b)
  BY WithAttachedMakes, ImageJoins DEF Flat
<1>2. Flat(a) \in Seq(Finding) /\ Flat(b) \in Seq(Finding)
  BY FlatType
<1> QED
  BY <1>1, <1>2

LEMMA FlatConcat ==
  ASSUME NEW n \in Nat, NEW parts, DOMAIN parts = 1 .. n,
         \A i \in 1 .. n : parts[i] \in Seq(Finding)
  PROVE  Flat(Concat(parts)) = Concat([i \in 1 .. n |-> Flat(parts[i])])
<1>1. Image(withAttached, Concat(parts))
        = Concat([i \in 1 .. n |-> Image(withAttached, parts[i])])
  BY WithAttachedMakes, ImageOfConcat
<1> QED
  BY <1>1 DEF Flat

\* Findings with all that is attached are as many as both together.
LEMMA FlatCounts ==
  ASSUME NEW findings \in Seq(Finding)
  PROVE  Len(Flat(findings))
           = Len(findings) + Len(Concat([i \in DOMAIN findings |-> findings[i].required]))
<1> DEFINE n == Len(findings)
           parts == [i \in 1 .. n |-> withAttached[findings[i]]]
           lefts == [i \in 1 .. n |-> <<findings[i]>>]
           rights == [i \in DOMAIN findings |-> findings[i].required]
<1>1. DOMAIN findings = 1 .. n /\ n \in Nat /\ \A i \in 1 .. n : findings[i] \in Finding
  OBVIOUS
<1>2. Flat(findings) = Concat(parts)
  BY DEF Flat, Image
<1>3. DOMAIN parts = 1 .. n /\ DOMAIN lefts = 1 .. n /\ DOMAIN rights = 1 .. n
  BY <1>1
<1>4. ASSUME NEW i \in 1 .. n
      PROVE  AsLong(parts[i], lefts[i], rights[i], Finding)
  <2> DEFINE f == findings[i]
             s == f.required
  <2>1. f \in Finding /\ s \in Seq(Finding)
    BY <1>1, RequiredType
  <2>2. parts[i] = <<f>> \o s /\ lefts[i] = <<f>> /\ rights[i] = s
    BY <1>1 DEF withAttached
  <2> HIDE DEF parts, lefts, rights, f, s
  <2>3. <<f>> \in Seq(Finding) /\ <<f>> \o s \in Seq(Finding)
        /\ Len(<<f>> \o s) = Len(<<f>>) + Len(s)
    BY <2>1
  <2> QED
    BY <2>1, <2>2, <2>3 DEF AsLong
<1>5. \A i \in 1 .. n : lefts[i] = <<findings[i]>>
  OBVIOUS
<1>6. findings = [i \in 1 .. n |-> findings[i]]
  BY <1>1
<1> HIDE DEF parts, lefts, rights, n
<1>7. Concat(lefts) = findings
  BY <1>1, <1>3, <1>5, <1>6, ConcatOfSingles
<1>8. Pairwise(parts, lefts, rights, n, Finding)
  BY <1>1, <1>3, <1>4 DEF Pairwise
<1>9. Len(Concat(parts)) = Len(Concat(lefts)) + Len(Concat(rights))
  BY <1>8, LengthOfPairs
<1> QED
  BY <1>2, <1>7, <1>9 DEF rights

\* A filter leaves no more findings and attached findings than there were.
LEMMA FilterIsShorter ==
  ASSUME NEW findings \in Seq(Finding)
  PROVE  Len(Flat(FilterFindings(findings))) <= Len(Flat(findings))
<1> DEFINE n == Len(findings)
           every == Verdicts(findings)
           kept == Kept(findings, every)
           parts == [i \in 1 .. n |-> Flat(kept[i])]
           others == [i \in 1 .. n |-> withAttached[findings[i]]]
<1>1. /\ FilterFindings(findings) = Concat(kept)
      /\ DOMAIN kept = 1 .. n /\ n \in Nat
  BY VerdictsType, KeptPieces, FilterIsApplied
<1>2. Flat(findings) = Concat(others)
  BY DEF Flat, Image
<1>3. ASSUME NEW i \in 1 .. n
      PROVE  /\ kept[i] \in Seq(Finding)
             /\ kept[i] = <<>> \/ kept[i] = <<findings[i]>>
             /\ findings[i] \in Finding
  <2>1. kept[i] = IF every[i] THEN <<findings[i]>> ELSE <<>>
    BY VerdictsType DEF Kept
  <2>2. findings[i] \in Finding
    BY <1>1
  <2> HIDE DEF kept, every
  <2>3. kept[i] = <<>> \/ kept[i] = <<findings[i]>>
    BY <2>1
  <2>4. kept[i] \in Seq(Finding)
    BY <2>2, <2>3, AtMostOne
  <2> QED
    BY <2>2, <2>3, <2>4
<1>4. Flat(Concat(kept)) = Concat(parts)
  <2>1. \A i \in 1 .. n : kept[i] \in Seq(Finding)
    BY <1>3
  <2> HIDE DEF kept, n
  <2> QED
    BY <1>1, <2>1, FlatConcat
<1>5. ASSUME NEW i \in 1 .. n
      PROVE  /\ parts[i] \in Seq(Finding) /\ others[i] \in Seq(Finding)
             /\ Len(parts[i]) <= Len(others[i])
  <2> DEFINE f == findings[i]
  <2>1. parts[i] = Flat(kept[i]) /\ others[i] = withAttached[f]
    OBVIOUS
  <2>2. f \in Finding /\ (kept[i] = <<>> \/ kept[i] = <<f>>)
    BY <1>3
  <2> HIDE DEF parts, others, kept, f
  <2>3. withAttached[f] \in Seq(Finding)
    BY <2>2, WithAttachedMakes DEF Makes
  <2>4. Len(withAttached[f]) \in Nat
    BY <2>3
  <2>5. CASE kept[i] = <<>>
    <3>1. Flat(kept[i]) = <<>>
      BY <2>5, ImageEmpty DEF Flat
    <3> QED
      BY <2>1, <2>3, <2>4, <3>1
  <2>6. CASE kept[i] = <<f>>
    <3>1. Flat(kept[i]) = withAttached[f]
      BY <2>2, <2>6, WithAttachedMakes, ImageOne DEF Flat
    <3> QED
      BY <2>1, <2>3, <2>4, <3>1
  <2> QED
    BY <2>2, <2>5, <2>6
<1>6. DOMAIN parts = 1 .. n /\ DOMAIN others = 1 .. n
  OBVIOUS
<1> HIDE DEF parts, others, n
<1>7. Len(Concat(parts)) <= Len(Concat(others))
  BY <1>1, <1>5, <1>6, ConcatLonger
<1> QED
  BY <1>1, <1>2, <1>4, <1>7

\* Nor do the first verdicts leave more.
LEMMA AppliedIsShorter ==
  ASSUME NEW findings \in Seq(Finding), NEW verdicts, FirstVerdicts(findings, verdicts)
  PROVE  Len(Flat(ApplyFindingFilter(findings, verdicts))) <= Len(Flat(findings))
<1> DEFINE some == ApplyFindingFilter(findings, verdicts)
           all == FilterFindings(findings)
<1>1. Begins(some, all, Finding)
  BY AppliedBegins
<1>2. Len(Flat(all)) <= Len(Flat(findings))
  BY FilterIsShorter
<1> HIDE DEF some, all
<1>3. PICK rest \in Seq(Finding) : all = some \o rest
  BY <1>1 DEF Begins
<1>4. some \in Seq(Finding)
  BY <1>1 DEF Begins
<1>5. Len(Flat(all)) = Len(Flat(some)) + Len(Flat(rest))
      /\ Len(Flat(some)) \in Nat /\ Len(Flat(rest)) \in Nat
  BY <1>3, <1>4, FlatJoins
<1>6. Flat(findings) \in Seq(Finding)
  BY FlatType
<1>7. Len(Flat(findings)) \in Nat
  BY <1>6
<1>8. Len(Flat(some)) <= Len(Flat(findings))
  BY <1>2, <1>5, <1>7
<1> QED
  BY <1>8 DEF some

\* One more part is put at the end.
LEMMA ConcatMore ==
  ASSUME NEW T, NEW parts \in Seq(Seq(T)), NEW last \in Seq(T)
  PROVE  Concat(parts \o <<last>>) = Concat(parts) \o last
<1> DEFINE n == Len(parts)
           more == parts \o <<last>>
<1>1. n \in Nat /\ DOMAIN parts = 1 .. n
  OBVIOUS
<1>2. <<last>> \in Seq(Seq(T)) /\ Len(<<last>>) = 1 /\ <<last>>[1] = last
  OBVIOUS
<1>3. more \in Seq(Seq(T)) /\ Len(more) = n + 1
  BY <1>2
<1>4. DOMAIN more = 1 .. n + 1
  BY <1>3
<1>5. (\A i \in 1 .. n : more[i] = parts[i]) /\ more[n + 1] = last
  BY <1>1, <1>2
<1> HIDE DEF n, more
<1>6. PICK f : Steps(f, parts, n) /\ Concat(parts) = f[n]
  BY <1>1, ConcatSteps
<1> DEFINE g == [i \in 0 .. n + 1 |-> IF i = n + 1 THEN f[n] \o last ELSE f[i]]
<1>7. g[0] = <<>> /\ g[n + 1] = f[n] \o last
  <2>1. 0 \in 0 .. n + 1 /\ n + 1 \in 0 .. n + 1 /\ 0 # n + 1
    BY <1>1
  <2>2. f[0] = <<>>
    BY <1>6, Zenon DEF Steps
  <2> QED
    BY <2>1, <2>2
<1>8. ASSUME NEW i \in 1 .. n + 1 PROVE g[i] = g[i - 1] \o more[i]
  <2>1. i - 1 \in 0 .. n + 1 /\ i \in 0 .. n + 1 /\ i - 1 # n + 1
    BY <1>1
  <2>2. CASE i = n + 1
    <3>1. i - 1 = n
      BY <1>1, <2>2
    <3>2. g[i - 1] = f[n] /\ g[i] = f[n] \o last /\ more[i] = last
      BY <1>5, <2>1, <2>2, <3>1
    <3> QED
      BY <3>2
  <2>3. CASE i # n + 1
    <3>1. i \in 1 .. n
      BY <1>1, <2>3
    <3>2. f[i] = f[i - 1] \o parts[i]
      BY <1>6, <3>1, Zenon DEF Steps
    <3>3. g[i] = f[i] /\ g[i - 1] = f[i - 1] /\ more[i] = parts[i]
      BY <1>5, <2>1, <2>3, <3>1
    <3> QED
      BY <3>2, <3>3
  <2> QED
    BY <2>2, <2>3
<1> HIDE DEF g
<1>9. Steps(g, more, n + 1)
  BY <1>7, <1>8 DEF Steps
<1>10. n + 1 \in Nat
  BY <1>1
<1>11. Concat(more) = g[n + 1]
  BY <1>4, <1>9, <1>10, ConcatUnique
<1> QED
  BY <1>6, <1>7, <1>11 DEF more

\* A beginning is what SubSeq cuts off.
LEMMA BeginningIsSubSeq ==
  ASSUME NEW T, NEW a \in Seq(T), NEW b \in Seq(T)
  PROVE  /\ a = SubSeq(a \o b, 1, Len(a))
         /\ Len(a) \in 0 .. Len(a \o b)
<1> DEFINE all == a \o b
<1>1. all \in Seq(T)
  OBVIOUS
<1>2. Len(all) = Len(a) + Len(b) /\ Len(a) \in Nat /\ Len(b) \in Nat
  OBVIOUS
<1>3. Begins(a, all, T)
  BY <1>1 DEF Begins
<1> HIDE DEF all
<1>4. IsPrefix(a, all)
  BY <1>3, BeginningIsPrefix
<1>5. SubSeq(a, 1, Len(a)) = SubSeq(all, 1, Len(a))
  BY <1>4 DEF IsPrefix
<1>6. SubSeq(a, 1, Len(a)) = a
  OBVIOUS
<1>7. Len(a) \in 0 .. Len(all)
  BY <1>2
<1> QED
  BY <1>5, <1>6, <1>7 DEF all

-----------------------------------------------------------------------------
(* What is found is fixed by the configuration and the input.              *)

\* One operator after another: what depends on nothing else stays as it is.
LEMMA RulesStay ==
  ASSUME UNCHANGED inputVars
  PROVE  /\ Rules' = Rules /\ Allowlists' = Allowlists
         /\ engine' = engine /\ fragment' = fragment /\ passes' = passes
         /\ budget' = budget
BY DEF inputVars, Rules, Allowlists

LEMMA AllowedStays ==
  ASSUME UNCHANGED inputVars
  PROVE  \A lists : Allowed(lists)' <=> Allowed(lists)
BY RulesStay DEF Allowed, CommitAllowed, PathAllowed

LEMMA FindingAllowedStays ==
  ASSUME UNCHANGED inputVars
  PROVE  \A lists, p, c : FindingAllowed(lists, p, c)' <=> FindingAllowed(lists, p, c)
BY RulesStay DEF FindingAllowed, CommitAllowed, PathAllowed

LEMMA SuppressedStays ==
  ASSUME UNCHANGED inputVars
  PROVE  \A r, inherited : RuleSuppressed(r, inherited)' <=> RuleSuppressed(r, inherited)
BY RulesStay, AllowedStays DEF RuleSuppressed

LEMMA PathMatchesStays ==
  ASSUME UNCHANGED inputVars
  PROVE  \A r : PathMatches(r)' <=> PathMatches(r)
BY RulesStay DEF PathMatches

LEMMA CandidatesStay ==
  ASSUME UNCHANGED inputVars
  PROVE  \A p, r, inherited : Candidates(p, r, inherited)' = Candidates(p, r, inherited)
<1>1. \A p, r, inherited : Matched(p, r, inherited)' <=> Matched(p, r, inherited)
  BY RulesStay, SuppressedStays, PathMatchesStays DEF Matched
<1> QED
  BY <1>1, RulesStay DEF Candidates

LEMMA AcceptedStays ==
  ASSUME UNCHANGED inputVars
  PROVE  \A p, r, c : Accepted(p, r, c)' <=> Accepted(p, r, c)
BY RulesStay, FindingAllowedStays DEF Accepted

LEMMA PathOnlyStays ==
  ASSUME UNCHANGED inputVars
  PROVE  \A p, r, inherited : PathOnly(p, r, inherited)' <=> PathOnly(p, r, inherited)
BY RulesStay, SuppressedStays, PathMatchesStays DEF PathOnly

LEMMA OwnFindingsStay ==
  ASSUME UNCHANGED inputVars
  PROVE  \A p, r, inherited : OwnFindings(p, r, inherited)' = OwnFindings(p, r, inherited)
BY CandidatesStay, AcceptedStays, PathOnlyStays DEF OwnFindings, Collect

LEMMA CompositeStays ==
  ASSUME UNCHANGED inputVars
  PROVE  \A p, r : Composite(p, r)' <=> Composite(p, r)
BY RulesStay, OwnFindingsStay DEF Composite

LEMMA ProjectedStays ==
  ASSUME UNCHANGED inputVars
  PROVE  \A p, f : Projected(p, f)' = Projected(p, f)
<1>1. \A p, spec : Found(p, spec)' = Found(p, spec)
  BY RulesStay, OwnFindingsStay DEF Found
<1>2. \A p, f, spec : Near(p, f, spec)' = Near(p, f, spec)
  BY <1>1 DEF Near, Only
<1> QED
  BY <1>2, RulesStay DEF Projected

LEMMA RuleFindingsStay ==
  ASSUME UNCHANGED inputVars
  PROVE  \A p, r : RuleFindings(p, r)' = RuleFindings(p, r)
<1>1. \A p, f : HasAll(p, f)' <=> HasAll(p, f)
  BY RulesStay, ProjectedStays DEF HasAll
<1>2. \A p, r : Completed(p, r)' = Completed(p, r)
  BY <1>1, RulesStay, OwnFindingsStay, ProjectedStays DEF Completed, Collect
<1> QED
  BY <1>2, RulesStay, OwnFindingsStay, CompositeStays DEF RuleFindings

\* So the plan stays as it is, and what a finding and a unit are.
LEMMA TopLevelStays ==
  ASSUME UNCHANGED inputVars
  PROVE  TopLevel' = TopLevel /\ Planned' = Planned
<1>1. \A p : Selected(p)' = Selected(p)
  BY RulesStay DEF Selected, Numbers
<1>2. TopLevel' = TopLevel
  BY <1>1, RulesStay, RuleFindingsStay DEF TopLevel
<1> QED
  BY <1>2, RulesStay, AllowedStays DEF Planned

LEMMA FindingStays ==
  ASSUME UNCHANGED inputVars
  PROVE  Finding' = Finding /\ WholeFinding' = WholeFinding
<1>1. \A p, r : OwnSet(p, r)' = OwnSet(p, r)
  BY RulesStay DEF OwnSet, Reportable
<1>2. \A p : AloneIn(p)' = AloneIn(p)
  BY <1>1, RulesStay DEF AloneIn
<1>3. Alone' = Alone
  BY <1>2, RulesStay DEF Alone
<1>4. Finding' = Finding
  BY <1>3 DEF Finding
<1>5. \A f : IsWhole(f)' <=> IsWhole(f)
  BY RulesStay DEF IsWhole
<1> QED
  BY <1>4, <1>5 DEF WholeFinding

LEMMA UnitsStay ==
  ASSUME UNCHANGED inputVars
  PROVE  /\ ScanUnit' = ScanUnit
         /\ withAttached' = withAttached /\ recordOf' = recordOf
         /\ commitOf' = commitOf /\ weightOf' = weightOf
<1>1. ScanUnit' = ScanUnit
  BY FindingStays DEF ScanUnit, Commits
<1>2. withAttached' = withAttached
  BY FindingStays DEF withAttached
<1> QED
  BY <1>1, <1>2 DEF recordOf, commitOf, weightOf, Flat

LEMMA GoodInputStays ==
  ASSUME UNCHANGED inputVars, GoodInput
  PROVE  GoodInput'
<1>1. \A pass : GoodPass(pass)' <=> GoodPass(pass)
  BY RulesStay DEF GoodPass
<1> QED
  BY <1>1, RulesStay DEF GoodInput

-----------------------------------------------------------------------------
(* The invariant.                                                          *)

\* Usage counts, and budgets are limits or none.
ScanTypeOK ==
  /\ budget \in [Dim -> (0 .. MaxUsize) \cup {Absent}]
  /\ usage \in [Dim -> Nat]
  /\ signal \in BOOLEAN /\ filtering \in BOOLEAN

\* No counter is over its limit.
WithinBudget == \A d \in Dim : usage[d] <= Ceiling(budget[d])

\* Some of the units are executed and the rest is not.
Progress(done, rest, found, records) ==
  /\ done \in Seq(ScanUnit) /\ rest \in Seq(ScanUnit)
  /\ Balanced(done \o rest) /\ Committed(done \o rest) = Planned
  /\ found = Concat(Committed(done)) /\ Flat(found) = Weight(done)
  /\ records = Len(Records(done))

\* Before the filter nothing is included, and the units left are the rest of a balanced
\* scan.
Scanning ==
  /\ included = <<>>
  /\ \E done : Progress(done, units, committed, usage["FindingRecords"])

\* Some of the verdicts are given and the rest is not.
Filtered(given, rest, found, records) ==
  /\ found \in Seq(WholeFinding) /\ found = Concat(Planned)
  /\ given \in Seq(BOOLEAN) /\ rest \in Seq(FilterUnit)
  /\ given \o Image(verdictOf, rest) = Verdicts(found)
  /\ Len(Flat(found)) <= records

\* In the filter.
Filtering == Filtered(included, units, committed, usage["FindingRecords"])

\* A scan is cut short for a reason that is so.
Accounted(t) ==
  \/ t.reason = "Cancelled" /\ signal
  \/ /\ t.reason = "BudgetExceeded"
     /\ t.limit = Ceiling(budget[t.kind])
     /\ t.consumed = usage[t.kind]
     /\ t.consumed + t.requested > t.limit
  \/ t.reason = "NotLoaded" /\ engine = Absent

\* What is returned is what the filter makes of what is committed.
OutcomeInv ==
  outcome # Absent =>
    /\ outcome.usage = usage
    /\ outcome.findings = PartialFindings
    /\ filtering /\ outcome.termination = Absent => units = <<>>
    /\ outcome.termination # Absent => Accounted(outcome.termination)

\* The inductive invariant.
ScanInv ==
  /\ GoodInput /\ ScanTypeOK /\ WithinBudget
  /\ ~filtering => Scanning
  /\ filtering => Filtering
  /\ OutcomeInv

\* Without passes nothing is planned.
LEMMA EmptyPlan ==
  ASSUME GoodInput, passes = <<>>
  PROVE  Planned = <<>>
<1> DEFINE parts == [p \in DOMAIN passes |-> FoundIn(p)]
<1>1. TopLevel = Concat(parts)
  BY DEF TopLevel, FoundIn
<1>2. DOMAIN parts = 1 .. 0 /\ \A i \in 1 .. 0 : parts[i] = <<>>
  OBVIOUS
<1> HIDE DEF parts
<1>3. TopLevel = <<>>
  BY <1>1, <1>2, ConcatOfNothing
<1> QED
  BY <1>3 DEF Planned

\* The invariant holds when the scan begins.
LEMMA InitIsGood ==
  ASSUME ScanInit
  PROVE  GoodInput
<1>1. fragment.inherited \in BOOLEAN
  BY InputAssumption DEF ScanInit
<1>2. GoodConfig(engine)
  BY LoadedIsGood DEF ScanInit
<1>3. ASSUME NEW r \in DOMAIN Rules PROVE Sized(Rules[r].required)
  <2>1. CASE engine = Absent
    BY <1>3, <2>1 DEF Rules
  <2>2. CASE engine # Absent
    BY <1>2, <1>3, <2>2 DEF GoodConfig, GoodRules, GoodRule, Rules
  <2> QED
    BY <2>1, <2>2
<1>4. GoodPasses(passes)
  <2>1. CASE engine = Absent
    <3>1. passes = <<>>
      BY <2>1 DEF ScanInit
    <3>2. passes \in Seq({}) /\ \A pass \in {} : GoodPass(pass)
      BY <3>1
    <3> QED
      BY <3>2 DEF GoodPasses
  <2>2. CASE engine # Absent
    <3>1. passes = Passes /\ text \in Texts
      BY <2>2 DEF ScanInit
    <3> QED
      BY <3>1, PassesAreGood
  <2> QED
    BY <2>1, <2>2
<1>5. PICK S : passes \in Seq(S) /\ \A pass \in S : GoodPass(pass)
  BY <1>4 DEF GoodPasses
<1>6. DOMAIN passes = 1 .. Len(passes) /\ Len(passes) \in Nat
      /\ \A p \in DOMAIN passes : passes[p] \in S
  BY <1>5
<1>7. Sized(passes)
  BY <1>6 DEF Sized
<1> QED
  BY <1>1, <1>3, <1>5, <1>6, <1>7 DEF GoodInput

LEMMA InitScans ==
  ASSUME ScanInit, GoodInput
  PROVE  Scanning
<1> DEFINE done == <<>>
<1>1. committed = <<>> /\ included = <<>> /\ usage["FindingRecords"] = 0
  BY DEF ScanInit, Dim
<1>2. Balanced(units) /\ Committed(units) = Planned
  <2>1. CASE engine = Absent
    <3>1. units = <<>> /\ passes = <<>>
      BY <2>1 DEF ScanInit
    <3>2. <<>> \in Seq(Quiet)
      BY QuietUnits
    <3> QED
      BY <3>1, <3>2, EmptyPlan, QuietIsBalanced, QuietCommitsNothing
  <2>2. CASE engine # Absent
    <3>1. units = ScanUnits
      BY <2>2 DEF ScanInit
    <3> QED
      BY <3>1, ScanUnitsBalanced
  <2> QED
    BY <2>1, <2>2
<1>3. units \in Seq(ScanUnit) /\ done \in Seq(ScanUnit) /\ done \o units = units
  BY <1>2 DEF Balanced
<1>4. Committed(done) = <<>> /\ Weight(done) = <<>>
  BY QuietUnits, QuietCommitsNothing
<1>5. Records(done) = <<>> /\ Flat(<<>>) = <<>>
  BY ImageEmpty DEF Records, Flat
<1>6. Concat(<<>>) = <<>>
  BY <1>4, QuietUnits, ConcatOfNothing
<1>7. Len(<<>>) = 0
  OBVIOUS
<1> HIDE DEF done
<1>8. Progress(done, units, committed, usage["FindingRecords"])
  BY <1>1, <1>2, <1>3, <1>4, <1>5, <1>6, <1>7 DEF Progress
<1> QED
  BY <1>1, <1>8 DEF Scanning

LEMMA InitHolds ==
  ASSUME ScanInit
  PROVE  ScanInv
<1>1. GoodInput
  BY InitIsGood
<1>2. Scanning /\ ~filtering
  BY <1>1, InitScans DEF ScanInit
<1>3. ScanTypeOK
  BY LimitAssumption DEF ScanInit, ScanTypeOK
<1>4. WithinBudget
  BY <1>3, LimitAssumption DEF ScanInit, ScanTypeOK, WithinBudget, Ceiling
<1>5. OutcomeInv
  <2>1. SUFFICES ASSUME outcome # Absent
                 PROVE  /\ outcome.usage = usage
                        /\ outcome.findings = PartialFindings
                        /\ outcome.termination # Absent => Accounted(outcome.termination)
    BY <1>2 DEF OutcomeInv
  <2>2. engine = Absent /\ outcome = NotLoaded /\ committed = <<>>
        /\ usage = [d \in Dim |-> 0]
    BY <2>1 DEF ScanInit
  <2>3. outcome.usage = usage /\ outcome.findings = <<>>
        /\ outcome.termination.reason = "NotLoaded"
    BY <2>2 DEF NotLoaded
  <2>4. FilterFindings(<<>>) = <<>>
    <3> DEFINE parts == [i \in DOMAIN <<>> |->
                           IF Retained(<<>>, <<>>[i]) THEN <<<<>>[i]>> ELSE <<>>]
    <3>1. FilterFindings(<<>>) = Concat(parts)
      BY DEF FilterFindings, Only
    <3>2. DOMAIN parts = 1 .. 0 /\ \A i \in 1 .. 0 : parts[i] = <<>>
      OBVIOUS
    <3> HIDE DEF parts
    <3> QED
      BY <3>1, <3>2, ConcatOfNothing
  <2>5. outcome.findings = PartialFindings
    BY <1>2, <2>2, <2>3, <2>4 DEF PartialFindings
  <2>6. Accounted(outcome.termination)
    BY <2>2, <2>3 DEF Accounted
  <2> QED
    BY <2>3, <2>5, <2>6
<1> QED
  BY <1>1, <1>2, <1>3, <1>4, <1>5 DEF ScanInv

-----------------------------------------------------------------------------
(* Its steps.                                                              *)

\* No step changes what is scanned.
LEMMA InputStays ==
  ASSUME [ScanNext]_fragmentVars
  PROVE  UNCHANGED inputVars
<1>1. CASE UNCHANGED fragmentVars
  BY <1>1 DEF fragmentVars
<1>2. CASE Signal
  BY <1>2 DEF Signal
<1>3. CASE PollPasses \/ ChargePasses \/ CommitRule \/ IncludeFinding
  BY <1>3 DEF PollPasses, ChargePasses, CommitRule, IncludeFinding, Advance
<1>4. CASE BeginFilter
  BY <1>4 DEF BeginFilter
<1>5. CASE ScanIsCancelled \/ ScanExceeds \/ ScanCompletes
  BY <1>5 DEF ScanIsCancelled, ScanExceeds, ScanCompletes, Finish
<1>6. CASE ScanReturned
  BY <1>6 DEF ScanReturned, fragmentVars
<1> QED
  BY <1>1, <1>2, <1>3, <1>4, <1>5, <1>6 DEF ScanNext

\* A sequence is its first element and the rest.
LEMMA HeadAndTail ==
  ASSUME NEW S, NEW s \in Seq(S), s # <<>>
  PROVE  Head(s) \in S /\ Tail(s) \in Seq(S) /\ s = <<Head(s)>> \o Tail(s)
<1>1. Head(s) \in S /\ Tail(s) \in Seq(S) /\ Len(Tail(s)) = Len(s) - 1 /\ Len(s) \in Nat
      /\ Len(s) # 0
  BY EmptySeq
<1> DEFINE a == <<Head(s)>>
           t == a \o Tail(s)
<1>2. a \in Seq(S) /\ Len(a) = 1 /\ a[1] = Head(s)
  BY <1>1
<1>3. t \in Seq(S) /\ Len(t) = Len(s)
  BY <1>1, <1>2
<1>4. \A i \in 1 .. Len(s) : t[i] = s[i]
  <2>1. ASSUME NEW i \in 1 .. Len(s) PROVE t[i] = s[i]
    <3>1. t[i] = IF i <= Len(a) THEN a[i] ELSE Tail(s)[i - Len(a)]
      <4>1. i \in 1 .. Len(a) + Len(Tail(s))
        BY <1>1, <1>2
      <4> HIDE DEF a
      <4> QED
        BY <1>1, <1>2, <4>1, JoinedAt
    <3>2. CASE i = 1
      BY <1>1, <1>2, <3>1, <3>2
    <3>3. CASE i # 1
      <4>1. i - 1 \in 1 .. Len(s) - 1
        BY <1>1, <3>3
      <4>2. Tail(s)[i - 1] = s[i]
        BY <1>1, <4>1
      <4> QED
        BY <1>1, <1>2, <3>1, <3>3, <4>1, <4>2
    <3> QED
      BY <3>2, <3>3
  <2> QED
    BY <2>1
<1> HIDE DEF t
<1>5. t = s
  BY <1>3, <1>4, SeqEqual
<1> QED
  BY <1>1, <1>5 DEF t, a

\* One more unit is executed.
LEMMA OneMore ==
  ASSUME NEW done \in Seq(ScanUnit), NEW u \in ScanUnit, NEW rest \in Seq(ScanUnit)
  PROVE  /\ done \o <<u>> \in Seq(ScanUnit)
         /\ (done \o <<u>>) \o rest = done \o (<<u>> \o rest)
         /\ Committed(done \o <<u>>) = Committed(done) \o commitOf[u]
         /\ Weight(done \o <<u>>) = Weight(done) \o weightOf[u]
         /\ Records(done \o <<u>>) = Records(done) \o recordOf[u]
<1> DEFINE a == <<u>>
<1>1. a \in Seq(ScanUnit)
  OBVIOUS
<1>2. /\ Committed(a) = commitOf[u] /\ Weight(a) = weightOf[u] /\ Records(a) = recordOf[u]
  BY ImageOne, CommitOfMakes, WeightOfMakes, RecordOfMakes DEF Committed, Weight, Records
<1> HIDE DEF a
<1>3. Committed(done \o a) = Committed(done) \o Committed(a)
  BY <1>1, CommittedJoins
<1>4. Weight(done \o a) = Weight(done) \o Weight(a)
  BY <1>1, WeightJoins
<1>5. Records(done \o a) = Records(done) \o Records(a)
  BY <1>1, RecordsJoin
<1>6. done \o a \in Seq(ScanUnit) /\ (done \o a) \o rest = done \o (a \o rest)
  BY <1>1
<1> QED
  BY <1>2, <1>3, <1>4, <1>5, <1>6 DEF a

\* What is said of fixed values stays so while the input does.
LEMMA ProgressStays ==
  ASSUME UNCHANGED inputVars, NEW done, NEW rest, NEW found, NEW records,
         Progress(done, rest, found, records)
  PROVE  Progress(done, rest, found, records)'
BY UnitsStay, TopLevelStays
DEF Progress, Balanced, Committed, Weight, Records, Flat

LEMMA FilteredStays ==
  ASSUME UNCHANGED inputVars, NEW given, NEW rest, NEW found, NEW records,
         Filtered(given, rest, found, records)
  PROVE  Filtered(given, rest, found, records)'
BY UnitsStay, TopLevelStays, FindingStays DEF Filtered, Flat

\* A unit that charges no record and commits nothing.
LEMMA QuietProgress ==
  ASSUME NEW done, NEW rest, NEW found, NEW records, Progress(done, rest, found, records),
         rest # <<>>, Head(rest) \in Quiet
  PROVE  Progress(done \o <<Head(rest)>>, Tail(rest), found,
                  records + (IF Head(rest) = Record THEN 1 ELSE 0))
<1> DEFINE u == Head(rest)
           more == done \o <<u>>
           left == Tail(rest)
<1>1. done \in Seq(ScanUnit) /\ rest \in Seq(ScanUnit)
  BY DEF Progress
<1>2. u \in ScanUnit /\ left \in Seq(ScanUnit) /\ rest = <<u>> \o left
  BY <1>1, HeadAndTail
<1>3. u \in Quiet
  OBVIOUS
<1> HIDE DEF u, left
<1>4. commitOf[u] = <<>> /\ weightOf[u] = <<>>
      /\ recordOf[u] = IF u = Record THEN <<Record>> ELSE <<>>
  BY <1>2, <1>3, UnitFacts DEF commitOf, weightOf, recordOf
<1>5. /\ more \in Seq(ScanUnit) /\ more \o left = done \o rest
      /\ Committed(more) = Committed(done) \o <<>>
      /\ Weight(more) = Weight(done) \o <<>>
      /\ Records(more) = Records(done) \o recordOf[u]
  <2>1. /\ more \in Seq(ScanUnit) /\ more \o left = done \o (<<u>> \o left)
        /\ Committed(more) = Committed(done) \o commitOf[u]
        /\ Weight(more) = Weight(done) \o weightOf[u]
        /\ Records(more) = Records(done) \o recordOf[u]
    BY <1>1, <1>2, OneMore
  <2> HIDE DEF more
  <2> QED
    BY <1>2, <1>4, <2>1
<1>6. Committed(more) = Committed(done) /\ Weight(more) = Weight(done)
  <2>1. Committed(done) \in Seq(Seq(WholeFinding)) /\ Weight(done) \in Seq(Finding)
    BY <1>1, CommittedJoins, WeightJoins
  <2> QED
    BY <1>5, <2>1
<1>7. Len(Records(more)) = Len(Records(done)) + (IF u = Record THEN 1 ELSE 0)
  <2>1. Records(done) \in Seq({Record})
    BY <1>1, RecordsJoin
  <2>2. CASE u = Record
    <3>1. Records(more) = Records(done) \o <<Record>>
      BY <1>4, <1>5, <2>2
    <3>2. <<Record>> \in Seq({Record}) /\ Len(<<Record>>) = 1
      OBVIOUS
    <3>3. Len(Records(more)) = Len(Records(done)) + 1
      BY <2>1, <3>1, <3>2
    <3> QED
      BY <2>2, <3>3
  <2>3. CASE u # Record
    <3>1. Records(more) = Records(done) \o <<>>
      BY <1>4, <1>5, <2>3
    <3>2. Len(Records(more)) = Len(Records(done)) /\ Len(Records(done)) \in Nat
      BY <2>1, <3>1
    <3> QED
      BY <2>3, <3>2
  <2> QED
    BY <2>2, <2>3
<1> HIDE DEF more
<1>8. Progress(more, left, found, records + (IF u = Record THEN 1 ELSE 0))
  BY <1>2, <1>5, <1>6, <1>7 DEF Progress
<1> QED
  BY <1>8 DEF more, left, u

\* A unit that commits.
LEMMA CommitProgress ==
  ASSUME NEW done, NEW rest, NEW found, NEW records, Progress(done, rest, found, records),
         rest # <<>>, Head(rest) \in Commits
  PROVE  Progress(done \o <<Head(rest)>>, Tail(rest), found \o Head(rest).findings, records)
<1> DEFINE u == Head(rest)
           more == done \o <<u>>
           left == Tail(rest)
           new == u.findings
<1>1. done \in Seq(ScanUnit) /\ rest \in Seq(ScanUnit)
  BY DEF Progress
<1>2. u \in ScanUnit /\ left \in Seq(ScanUnit) /\ rest = <<u>> \o left
  BY <1>1, HeadAndTail
<1>3. u.kind = "Commit" /\ new \in Seq(WholeFinding) /\ u # Record
  BY UnitFacts
<1> HIDE DEF u, left
<1>4. commitOf[u] = <<new>> /\ weightOf[u] = Flat(new) /\ recordOf[u] = <<>>
  BY <1>2, <1>3 DEF commitOf, weightOf, recordOf
<1>5. /\ more \in Seq(ScanUnit) /\ more \o left = done \o rest
      /\ Committed(more) = Committed(done) \o <<new>>
      /\ Weight(more) = Weight(done) \o Flat(new)
      /\ Records(more) = Records(done) \o <<>>
  <2>1. /\ more \in Seq(ScanUnit) /\ more \o left = done \o (<<u>> \o left)
        /\ Committed(more) = Committed(done) \o commitOf[u]
        /\ Weight(more) = Weight(done) \o weightOf[u]
        /\ Records(more) = Records(done) \o recordOf[u]
    BY <1>1, <1>2, OneMore
  <2> HIDE DEF more
  <2> QED
    BY <1>2, <1>4, <2>1
<1> HIDE DEF new, more
<1>6. Committed(done) \in Seq(Seq(WholeFinding)) /\ Records(done) \in Seq({Record})
  BY <1>1, CommittedJoins, RecordsJoin
<1>7. Concat(Committed(more)) = found \o new
  <2>1. Concat(Committed(done) \o <<new>>) = Concat(Committed(done)) \o new
    BY <1>3, <1>6, ConcatMore
  <2> QED
    BY <1>5, <2>1 DEF Progress
<1>8. Flat(found \o new) = Weight(more)
  <2>1. found \in Seq(WholeFinding)
    <3>1. /\ DOMAIN Committed(done) = 1 .. Len(Committed(done)) /\ Len(Committed(done)) \in Nat
          /\ \A i \in 1 .. Len(Committed(done)) : Committed(done)[i] \in Seq(WholeFinding)
      BY <1>6
    <3>2. Concat(Committed(done)) \in Seq(WholeFinding)
      BY <3>1, ConcatType
    <3> QED
      BY <3>2 DEF Progress
  <2>2. WholeFinding \subseteq Finding
    BY DEF WholeFinding
  <2>3. found \in Seq(Finding) /\ new \in Seq(Finding)
    BY <1>3, <2>1, <2>2, SeqOfMore
  <2>4. Flat(found \o new) = Flat(found) \o Flat(new)
    BY <2>3, FlatJoins
  <2> QED
    BY <1>5, <2>4 DEF Progress
<1>9. Records(more) = Records(done)
  BY <1>5, <1>6
<1>10. Progress(more, left, found \o new, records)
  BY <1>2, <1>5, <1>7, <1>8, <1>9 DEF Progress
<1> QED
  BY <1>10 DEF more, left, new, u

\* What a charge is about.
LEMMA ChargeFacts ==
  ASSUME NEW u \in Quiet, u.kind = "Charge"
  PROVE  /\ u.dim \in Dim /\ u.amount \in Nat
         /\ u.dim = "FindingRecords" <=> u = Record
         /\ u = Record => u.amount = 1
<1>1. Poll.kind = "Poll"
  BY DEF Poll
<1>2. /\ Work.dim = "WorkUnits" /\ Work.amount = 1
      /\ Record.dim = "FindingRecords" /\ Record.amount = 1
      /\ \A n : Charge("DecodedBytes", n).dim = "DecodedBytes"
                /\ Charge("DecodedBytes", n).amount = n
  BY DEF Work, Record, Charge
<1>3. u = Work \/ u = Record \/ \E n \in Nat : u = Charge("DecodedBytes", n)
  BY <1>1 DEF Quiet
<1>4. CASE u = Work
  BY <1>2, <1>4 DEF Dim
<1>5. CASE u = Record
  BY <1>2, <1>5 DEF Dim
<1>6. CASE \E n \in Nat : u = Charge("DecodedBytes", n)
  BY <1>2, <1>6 DEF Dim
<1> QED
  BY <1>3, <1>4, <1>5, <1>6

\* Of the units of a scan a charge or a poll is quiet; the filter charges nothing.
LEMMA DueUnit ==
  ASSUME ScanInv, units # <<>>
  PROVE  /\ ~filtering => Unit \in Quiet \cup Commits /\ Tail(units) \in Seq(ScanUnit)
         /\ filtering => Unit \in FilterUnit
<1>1. ASSUME ~filtering PROVE Unit \in Quiet \cup Commits /\ Tail(units) \in Seq(ScanUnit)
  <2>1. units \in Seq(ScanUnit)
    BY <1>1 DEF ScanInv, Scanning, Progress
  <2> QED
    BY <2>1, HeadAndTail DEF Unit, ScanUnit
<1>2. ASSUME filtering PROVE Unit \in FilterUnit
  <2>1. units \in Seq(FilterUnit)
    BY <1>2 DEF ScanInv, Filtering, Filtered
  <2> QED
    BY <2>1, HeadAndTail DEF Unit
<1> QED
  BY <1>1, <1>2

\* A charge is made before the filter, and is one of the three.
LEMMA ChargeInScan ==
  ASSUME ScanInv, Due({"Charge"})
  PROVE  /\ ~filtering /\ Unit \in Quiet /\ Unit.kind = "Charge"
         /\ Unit.dim \in Dim /\ Unit.amount \in Nat
<1>1. units # <<>> /\ Unit.kind = "Charge"
  BY DEF Due
<1>2. ~filtering
  BY <1>1, DueUnit, FilterUnitFacts
<1>3. Unit \in Quiet
  BY <1>1, <1>2, DueUnit, UnitFacts
<1> QED
  BY <1>1, <1>2, <1>3, ChargeFacts

\* No step takes usage over its limit.
LEMMA UsageStep ==
  ASSUME ScanInv, [ScanNext]_fragmentVars
  PROVE  ScanTypeOK' /\ WithinBudget'
<1>1. budget' = budget
  BY InputStays, RulesStay
<1>2. usage' \in [Dim -> Nat] /\ \A d \in Dim : usage'[d] <= Ceiling(budget[d])
  <2>1. CASE ChargePasses
    <3> DEFINE d == Unit.dim
               n == Unit.amount
    <3>1. d \in Dim /\ n \in Nat
      BY <2>1, ChargeInScan DEF ChargePasses
    <3>2. usage' = [usage EXCEPT ![d] = usage[d] + n] /\ ~Exceeds(d, n)
      BY <2>1 DEF ChargePasses
    <3>3. usage \in [Dim -> Nat] /\ (\A e \in Dim : usage[e] <= Ceiling(budget[e]))
          /\ budget \in [Dim -> (0 .. MaxUsize) \cup {Absent}]
      BY DEF ScanInv, ScanTypeOK, WithinBudget
    <3> HIDE DEF d, n
    <3>4. usage[d] + n <= Ceiling(budget[d])
      <4>1. usage[d] + n \in Nat /\ MaxUsize \in Nat
        BY <3>1, <3>3, LimitAssumption
      <4>2. CASE budget[d] = Absent
        BY <3>2, <4>1, <4>2 DEF Exceeds, Ceiling
      <4>3. CASE budget[d] # Absent
        <5>1. budget[d] \in Nat
          BY <3>1, <3>3, <4>3, LimitAssumption
        <5> QED
          BY <3>2, <4>1, <4>3, <5>1 DEF Exceeds, Ceiling
      <4> QED
        BY <4>2, <4>3
    <3>5. usage' \in [Dim -> Nat]
      BY <3>1, <3>2, <3>3
    <3>6. ASSUME NEW e \in Dim PROVE usage'[e] <= Ceiling(budget[e])
      <4>1. CASE e = d
        BY <3>1, <3>2, <3>3, <3>4, <4>1
      <4>2. CASE e # d
        BY <3>1, <3>2, <3>3, <4>2
      <4> QED
        BY <4>1, <4>2
    <3> QED
      BY <3>5, <3>6
  <2>2. CASE ~ChargePasses
    <3>1. usage' = usage
      BY <2>2 DEF ScanNext, Signal, PollPasses, CommitRule, BeginFilter, IncludeFinding,
                  ScanIsCancelled, ScanExceeds, ScanCompletes, Finish, ScanReturned,
                  fragmentVars, resultVars
    <3> QED
      BY <3>1 DEF ScanInv, ScanTypeOK, WithinBudget
  <2> QED
    BY <2>1, <2>2
<1>3. signal' \in BOOLEAN /\ filtering' \in BOOLEAN
  BY DEF ScanInv, ScanTypeOK, ScanNext, Signal, PollPasses, ChargePasses, CommitRule, BeginFilter,
         IncludeFinding, Advance, ScanIsCancelled, ScanExceeds, ScanCompletes, Finish,
         ScanReturned, fragmentVars, controlVars
<1>4. ScanTypeOK'
  BY <1>1, <1>2, <1>3 DEF ScanInv, ScanTypeOK
<1>5. WithinBudget'
  BY <1>1, <1>2 DEF WithinBudget, Ceiling
<1> QED
  BY <1>4, <1>5

\* What stays as it is scans on.
LEMMA ScansOn ==
  ASSUME UNCHANGED inputVars, included' = <<>>, NEW done,
         Progress(done, units', committed', usage'["FindingRecords"])
  PROVE  Scanning'
<1>1. PICK rest, found, records :
        rest = units' /\ found = committed' /\ records = usage'["FindingRecords"]
  OBVIOUS
<1>2. Progress(done, rest, found, records)
  BY <1>1
<1>3. Progress(done, rest, found, records)'
  BY <1>2, ProgressStays
<1>4. Progress(done, units, committed, usage["FindingRecords"])'
  BY <1>1, <1>3 DEF Progress
<1> QED
  BY <1>4 DEF Scanning

\* What stays as it is filters on.
LEMMA FiltersOn ==
  ASSUME UNCHANGED inputVars,
         Filtered(included', units', committed', usage'["FindingRecords"])
  PROVE  Filtering'
<1>1. PICK given, rest, found, records :
        /\ given = included' /\ rest = units' /\ found = committed'
        /\ records = usage'["FindingRecords"]
  OBVIOUS
<1>2. Filtered(given, rest, found, records)
  BY <1>1
<1>3. Filtered(given, rest, found, records)'
  BY <1>2, FilteredStays
<1> QED
  BY <1>1, <1>3 DEF Filtering, Filtered, Verdicts, Flat

\* Each step before the filter executes one unit or none.
LEMMA ScanningStep ==
  ASSUME ScanInv, [ScanNext]_fragmentVars, ~filtering, ~filtering'
  PROVE  Scanning'
<1>1. UNCHANGED inputVars
  BY InputStays
<1>2. PICK done : Progress(done, units, committed, usage["FindingRecords"])
  BY DEF ScanInv, Scanning
<1>3. included = <<>>
  BY DEF ScanInv, Scanning
<1>4. usage \in [Dim -> Nat] /\ "FindingRecords" \in Dim
  BY DEF ScanInv, ScanTypeOK, Dim
<1>5. CASE PollPasses
  <2>1. /\ units # <<>> /\ Unit.kind = "Poll" /\ units' = Tail(units)
        /\ committed' = committed /\ usage' = usage /\ included' = included
    BY <1>5 DEF PollPasses, Due, Advance, resultVars
  <2>2. Unit \in Quiet /\ Unit # Record
    BY <2>1, DueUnit, UnitFacts
  <2>3. Progress(done \o <<Unit>>, Tail(units), committed, usage["FindingRecords"] + 0)
    BY <1>2, <2>1, <2>2, QuietProgress DEF Unit
  <2>4. usage["FindingRecords"] + 0 = usage["FindingRecords"]
    BY <1>4
  <2> QED
    BY <1>1, <1>3, <2>1, <2>3, <2>4, ScansOn
<1>6. CASE ChargePasses
  <2>1. /\ units # <<>> /\ units' = Tail(units) /\ committed' = committed /\ included' = included
        /\ usage' = [usage EXCEPT ![Unit.dim] = usage[Unit.dim] + Unit.amount]
        /\ Due({"Charge"})
    BY <1>6 DEF ChargePasses, Due, Advance
  <2>2. Unit \in Quiet /\ Unit.kind = "Charge" /\ Unit.dim \in Dim /\ Unit.amount \in Nat
    BY <2>1, ChargeInScan
  <2>3. Progress(done \o <<Unit>>, Tail(units), committed,
                 usage["FindingRecords"] + (IF Unit = Record THEN 1 ELSE 0))
    BY <1>2, <2>1, <2>2, QuietProgress DEF Unit
  <2>4. usage'["FindingRecords"] = usage["FindingRecords"] + (IF Unit = Record THEN 1 ELSE 0)
    <3>1. (Unit.dim = "FindingRecords" <=> Unit = Record) /\ (Unit = Record => Unit.amount = 1)
      BY <2>2, ChargeFacts
    <3>2. CASE Unit = Record
      <4>1. Unit.dim = "FindingRecords" /\ Unit.amount = 1
        BY <3>1, <3>2
      <4> QED
        BY <1>4, <2>1, <3>2, <4>1
    <3>3. CASE Unit # Record
      <4>1. Unit.dim # "FindingRecords"
        BY <3>1, <3>3
      <4> QED
        BY <1>4, <2>1, <2>2, <3>3, <4>1
    <3> QED
      BY <3>2, <3>3
  <2> QED
    BY <1>1, <1>3, <2>1, <2>3, <2>4, ScansOn
<1>7. CASE CommitRule
  <2>1. /\ units # <<>> /\ Unit.kind = "Commit" /\ units' = Tail(units)
        /\ committed' = committed \o Unit.findings /\ usage' = usage /\ included' = included
    BY <1>7 DEF CommitRule, Due, Advance
  <2>2. Unit \in Commits
    BY <2>1, DueUnit, UnitFacts
  <2>3. Progress(done \o <<Unit>>, Tail(units), committed \o Unit.findings,
                 usage["FindingRecords"])
    BY <1>2, <2>1, <2>2, CommitProgress DEF Unit
  <2> QED
    BY <1>1, <1>3, <2>1, <2>3, ScansOn
<1>8. CASE IncludeFinding
  <2>1. units # <<>> /\ Unit.kind = "Include"
    BY <1>8 DEF IncludeFinding, Due
  <2> QED
    BY <2>1, DueUnit, UnitFacts
<1>9. CASE BeginFilter
  BY <1>9 DEF BeginFilter
<1>10. CASE \/ Signal \/ ScanIsCancelled \/ ScanExceeds \/ ScanCompletes \/ ScanReturned
            \/ UNCHANGED fragmentVars
  <2>1. UNCHANGED <<units, committed, usage, included>>
    BY <1>10 DEF Signal, ScanIsCancelled, ScanExceeds, ScanCompletes, Finish, ScanReturned,
                 fragmentVars, controlVars, resultVars
  <2> QED
    BY <1>1, <1>2, <1>3, <2>1, ScansOn
<1> QED
  BY <1>5, <1>6, <1>7, <1>8, <1>9, <1>10 DEF ScanNext

\* When the filter begins all of the plan is committed.
LEMMA FilterBegins ==
  ASSUME ScanInv, BeginFilter
  PROVE  Filtered(included, FilterUnits(committed), committed, usage["FindingRecords"])
<1>1. ~filtering /\ units = <<>>
  BY DEF BeginFilter
<1>2. included = <<>>
  BY <1>1 DEF ScanInv, Scanning
<1>3. PICK done : Progress(done, units, committed, usage["FindingRecords"])
  BY <1>1 DEF ScanInv, Scanning
<1>4. done \in Seq(ScanUnit) /\ done \o units = done
  BY <1>1, <1>3 DEF Progress
<1>5. /\ Balanced(done) /\ Committed(done) = Planned
      /\ committed = Concat(Planned) /\ Flat(committed) = Weight(done)
      /\ usage["FindingRecords"] = Len(Records(done))
  <2>1. /\ Balanced(done \o units) /\ Committed(done \o units) = Planned
        /\ committed = Concat(Committed(done)) /\ Flat(committed) = Weight(done)
        /\ usage["FindingRecords"] = Len(Records(done))
    BY <1>3 DEF Progress
  <2> QED
    BY <1>4, <2>1
<1>6. Len(Flat(committed)) <= usage["FindingRecords"]
  BY <1>5, BalancedWhole
<1>7. committed \in Seq(WholeFinding)
  <2>1. Planned \in Seq(Seq(WholeFinding))
    BY TopLevelType DEF ScanInv
  <2>2. /\ DOMAIN Planned = 1 .. Len(Planned) /\ Len(Planned) \in Nat
        /\ \A i \in 1 .. Len(Planned) : Planned[i] \in Seq(WholeFinding)
    BY <2>1
  <2> QED
    BY <1>5, <2>2, ConcatType
<1>8. /\ FilterUnits(committed) \in Seq(FilterUnit)
      /\ Image(verdictOf, FilterUnits(committed)) = Verdicts(committed)
  BY <1>7, FilterUnitsGiveVerdicts
<1>9. Verdicts(committed) \in Seq(BOOLEAN) /\ <<>> \in Seq(BOOLEAN)
  BY <1>7, VerdictsType
<1>10. <<>> \o Verdicts(committed) = Verdicts(committed)
  BY <1>9
<1> QED
  BY <1>2, <1>5, <1>6, <1>7, <1>8, <1>9, <1>10 DEF Filtered

\* A poll gives no verdict, and an inclusion the next one.
LEMMA OneUnitFiltered ==
  ASSUME NEW given, NEW rest, NEW found, NEW records, Filtered(given, rest, found, records),
         rest # <<>>
  PROVE  /\ Head(rest).kind = "Poll" => Filtered(given, Tail(rest), found, records)
         /\ Head(rest).kind = "Include" =>
              Filtered(Append(given, Head(rest).retained), Tail(rest), found, records)
<1> DEFINE u == Head(rest)
           left == Tail(rest)
           one == <<u>>
<1>1. rest \in Seq(FilterUnit) /\ given \in Seq(BOOLEAN)
      /\ given \o Image(verdictOf, rest) = Verdicts(found)
  BY DEF Filtered
<1>2. u \in FilterUnit /\ left \in Seq(FilterUnit) /\ rest = one \o left
  BY <1>1, HeadAndTail
<1>3. one \in Seq(FilterUnit)
  BY <1>2
<1>4. Image(verdictOf, one) = verdictOf[u]
  <2> HIDE DEF u
  <2> QED
    BY <1>2, VerdictOfMakes, ImageOne
<1> HIDE DEF u, left, one
<1>5. Image(verdictOf, rest) = verdictOf[u] \o Image(verdictOf, left)
  BY <1>2, <1>3, <1>4, VerdictsJoin
<1>6. Image(verdictOf, left) \in Seq(BOOLEAN)
  <2>1. Image(verdictOf, left) \in Seq(Verdict)
    BY <1>2, VerdictOfMakes, ImageType
  <2> QED
    BY <2>1 DEF Verdict
<1>7. ASSUME u.kind = "Poll" PROVE Filtered(given, left, found, records)
  <2>1. verdictOf[u] = <<>>
    BY <1>2, <1>7 DEF verdictOf
  <2>2. <<>> \o Image(verdictOf, left) = Image(verdictOf, left)
    BY <1>6
  <2>3. given \o Image(verdictOf, left) = Verdicts(found)
    BY <1>1, <1>5, <2>1, <2>2
  <2> QED
    BY <1>2, <2>3 DEF Filtered
<1>8. ASSUME u.kind = "Include"
      PROVE  Filtered(Append(given, u.retained), left, found, records)
  <2> DEFINE b == u.retained
             next == <<b>>
             tail == Image(verdictOf, left)
             more == Append(given, b)
  <2>1. verdictOf[u] = next /\ b \in BOOLEAN
    BY <1>2, <1>8, FilterUnitFacts DEF verdictOf
  <2>2. next \in Seq(BOOLEAN)
    BY <2>1, AtMostOne
  <2>3. more = given \o next
    BY <1>1, <2>1, AppendIsConcat
  <2> HIDE DEF b, next, tail, more
  <2>4. more \in Seq(BOOLEAN)
    BY <1>1, <2>2, <2>3, ConcatProperties
  <2>5. given \o (next \o tail) = (given \o next) \o tail
    BY <1>1, <1>6, <2>2, ConcatAssociative DEF tail
  <2>6. more \o tail = Verdicts(found)
    BY <1>1, <1>5, <2>1, <2>3, <2>5 DEF tail
  <2>7. Filtered(more, left, found, records)
    BY <1>2, <2>4, <2>6 DEF Filtered, tail
  <2> QED
    BY <2>7 DEF more, b
<1> QED
  BY <1>7, <1>8 DEF u, left

\* Each step of the filter gives one verdict or none.
LEMMA FilterStep ==
  ASSUME ScanInv, [ScanNext]_fragmentVars, filtering'
  PROVE  Filtering'
<1>1. UNCHANGED inputVars
  BY InputStays
<1>2. CASE BeginFilter
  <2>1. /\ units' = FilterUnits(committed) /\ included' = included /\ committed' = committed
        /\ usage' = usage
    BY <1>2 DEF BeginFilter, resultVars
  <2> QED
    BY <1>1, <1>2, <2>1, FilterBegins, FiltersOn
<1>3. CASE ~BeginFilter
  <2>1. filtering
    BY <1>3 DEF ScanNext, Signal, PollPasses, ChargePasses, CommitRule, IncludeFinding, Advance,
                ScanIsCancelled, ScanExceeds, ScanCompletes, Finish, ScanReturned,
                fragmentVars, controlVars
  <2>2. Filtered(included, units, committed, usage["FindingRecords"])
    BY <2>1 DEF ScanInv, Filtering
  <2>3. CASE PollPasses
    <3>1. /\ units # <<>> /\ Unit.kind = "Poll" /\ units' = Tail(units)
          /\ committed' = committed /\ usage' = usage /\ included' = included
      BY <2>3 DEF PollPasses, Due, Advance, resultVars
    <3>2. Filtered(included, Tail(units), committed, usage["FindingRecords"])
      BY <2>2, <3>1, OneUnitFiltered DEF Unit
    <3> QED
      BY <1>1, <3>1, <3>2, FiltersOn
  <2>4. CASE IncludeFinding
    <3>1. /\ units # <<>> /\ Unit.kind = "Include" /\ units' = Tail(units)
          /\ committed' = committed /\ usage' = usage
          /\ included' = Append(included, Unit.retained)
      BY <2>4 DEF IncludeFinding, Due, Advance
    <3>2. Filtered(Append(included, Unit.retained), Tail(units), committed,
                   usage["FindingRecords"])
      BY <2>2, <3>1, OneUnitFiltered DEF Unit
    <3> QED
      BY <1>1, <3>1, <3>2, FiltersOn
  <2>5. CASE ChargePasses
    BY <2>1, <2>5, ChargeInScan DEF ChargePasses
  <2>6. CASE CommitRule
    <3>1. units # <<>> /\ Unit.kind = "Commit"
      BY <2>6 DEF CommitRule, Due
    <3> QED
      BY <2>1, <3>1, DueUnit, FilterUnitFacts
  <2>7. CASE \/ Signal \/ ScanIsCancelled \/ ScanExceeds \/ ScanCompletes \/ ScanReturned
             \/ UNCHANGED fragmentVars
    <3>1. UNCHANGED <<units, committed, usage, included>>
      BY <2>7 DEF Signal, ScanIsCancelled, ScanExceeds, ScanCompletes, Finish, ScanReturned,
                  fragmentVars, controlVars, resultVars
    <3>2. Filtered(included', units', committed', usage'["FindingRecords"])
      BY <2>2, <3>1
    <3> QED
      BY <1>1, <3>2, FiltersOn
  <2> QED
    BY <1>3, <2>3, <2>4, <2>5, <2>6, <2>7 DEF ScanNext
<1> QED
  BY <1>2, <1>3

\* A reason stays true.
LEMMA AccountedStays ==
  ASSUME UNCHANGED <<inputVars, usage>>, signal => signal', NEW t, Accounted(t)
  PROVE  Accounted(t)'
<1>1. engine' = engine /\ budget' = budget
  BY RulesStay
<1>2. \A d : Ceiling(budget[d])' = Ceiling(budget[d])
  BY <1>1 DEF Ceiling
<1> QED
  BY <1>1, <1>2 DEF Accounted, Ceiling

\* Each way to end the scan returns what it should.
LEMMA ReturnStep ==
  ASSUME ScanInv, [ScanNext]_fragmentVars
  PROVE  OutcomeInv'
<1>1. UNCHANGED inputVars
  BY InputStays
<1>2. SUFFICES ASSUME outcome' # Absent
      PROVE  /\ outcome'.usage = usage'
             /\ outcome'.findings = PartialFindings'
             /\ filtering' /\ outcome'.termination = Absent => units' = <<>>
             /\ outcome'.termination # Absent => Accounted(outcome.termination)'
  BY DEF OutcomeInv
<1>3. CASE outcome = Absent
  <2>1. CASE ScanIsCancelled \/ ScanExceeds \/ ScanCompletes
    <3>1. UNCHANGED <<inputVars, controlVars, usage, committed, included>>
      BY <2>1 DEF ScanIsCancelled, ScanExceeds, ScanCompletes, Finish
    <3>2. PartialFindings' = PartialFindings
      BY <3>1 DEF controlVars, PartialFindings, FilterFindings, Only, ApplyFindingFilter
    <3>3. CASE ScanIsCancelled
      <4>1. /\ outcome' = [findings |-> PartialFindings, usage |-> usage,
                           termination |-> [reason |-> "Cancelled"]]
            /\ signal
        BY <3>3 DEF ScanIsCancelled, Finish
      <4>2. outcome'.usage = usage /\ outcome'.findings = PartialFindings
            /\ outcome'.termination = [reason |-> "Cancelled"]
        BY <4>1
      <4>3. outcome'.termination # Absent
        BY <4>2, LimitAssumption
      <4>4. Accounted(outcome.termination)'
        <5>1. signal' /\ outcome'.termination.reason = "Cancelled"
          BY <3>1, <4>1, <4>2 DEF controlVars
        <5> QED
          BY <5>1 DEF Accounted
      <4> QED
        BY <3>1, <3>2, <4>2, <4>3, <4>4
    <3>4. CASE ScanExceeds
      <4> DEFINE d == Unit.dim
                 n == Unit.amount
                 t == [reason |-> "BudgetExceeded", kind |-> d, limit |-> Ceiling(budget[d]),
                       consumed |-> usage[d], requested |-> n]
      <4>1. /\ outcome' = [findings |-> PartialFindings, usage |-> usage, termination |-> t]
            /\ Exceeds(d, n)
        BY <3>4 DEF ScanExceeds, Finish
      <4>2. d \in Dim /\ n \in Nat /\ ~filtering
        BY <3>4, ChargeInScan DEF ScanExceeds
      <4>3. /\ t.reason = "BudgetExceeded" /\ t.kind = d /\ t.limit = Ceiling(budget[d])
            /\ t.consumed = usage[d] /\ t.requested = n
        OBVIOUS
      <4>4. usage[d] + n > Ceiling(budget[d])
        <5>1. usage[d] \in Nat /\ budget[d] \in (0 .. MaxUsize) \cup {Absent}
          BY <4>2 DEF ScanInv, ScanTypeOK
        <5>2. MaxUsize \in Nat
          BY LimitAssumption
        <5> HIDE DEF d, n, t
        <5>3. CASE budget[d] = Absent
          BY <4>1, <5>3 DEF Exceeds, Ceiling
        <5>4. CASE budget[d] # Absent
          <6>1. budget[d] \in 0 .. MaxUsize
            BY <5>1, <5>4
          <6> QED
            BY <4>1, <4>2, <5>1, <5>2, <5>4, <6>1 DEF Exceeds, Ceiling
        <5> QED
          BY <5>3, <5>4
      <4> HIDE DEF d, n, t
      <4>5. outcome'.usage = usage /\ outcome'.findings = PartialFindings
            /\ outcome'.termination = t
        BY <4>1
      <4>6. usage' = usage /\ budget' = budget
        BY <1>1, <3>1, RulesStay
      <4>7. PICK term, dim : term = outcome'.termination /\ dim = d
        OBVIOUS
      <4>8. /\ term.reason = "BudgetExceeded" /\ term.kind = d /\ term.limit = Ceiling(budget[d])
            /\ term.consumed = usage[d] /\ term.requested = n
        BY <4>3, <4>5, <4>7
      <4>9. Accounted(term)
        BY <4>4, <4>8 DEF Accounted
      <4>10. Accounted(term)'
        BY <3>1, <4>9, AccountedStays DEF controlVars
      <4>11. Accounted(outcome.termination)'
        BY <4>7, <4>10 DEF Accounted
      <4> QED
        BY <3>1, <3>2, <4>2, <4>5, <4>6, <4>11 DEF controlVars
    <3>5. CASE ScanCompletes
      <4>1. /\ outcome' = [findings |-> ApplyFindingFilter(committed, included),
                           usage |-> usage, termination |-> Absent]
            /\ units = <<>> /\ filtering
        BY <3>5 DEF ScanCompletes, Finish
      <4>2. outcome'.usage = usage /\ outcome'.findings = PartialFindings
            /\ outcome'.termination = Absent
        BY <4>1 DEF PartialFindings
      <4>3. units' = <<>>
        BY <3>1, <4>1 DEF controlVars
      <4> QED
        BY <3>1, <3>2, <4>2, <4>3
    <3> QED
      BY <2>1, <3>3, <3>4, <3>5
  <2>2. CASE ~(ScanIsCancelled \/ ScanExceeds \/ ScanCompletes)
    <3>1. outcome' = outcome
      BY <1>3, <2>2 DEF ScanNext, Signal, PollPasses, ChargePasses, CommitRule, BeginFilter,
                  IncludeFinding, ScanReturned, fragmentVars, resultVars
    <3> QED
      BY <1>2, <1>3, <3>1
  <2> QED
    BY <2>1, <2>2
<1>4. CASE outcome # Absent
  <2>1. UNCHANGED <<units, filtering, usage, committed, included, outcome>>
        /\ (signal => signal')
    BY <1>4 DEF ScanNext, Signal, PollPasses, ChargePasses, CommitRule, BeginFilter,
                IncludeFinding, ScanIsCancelled, ScanExceeds, ScanCompletes, Due,
                ScanReturned, fragmentVars, controlVars, resultVars
  <2>2. PartialFindings' = PartialFindings
    BY <2>1 DEF PartialFindings, FilterFindings, Only, ApplyFindingFilter
  <2>3. /\ outcome.usage = usage /\ outcome.findings = PartialFindings
        /\ filtering /\ outcome.termination = Absent => units = <<>>
        /\ outcome.termination # Absent => Accounted(outcome.termination)
    BY <1>4 DEF ScanInv, OutcomeInv
  <2>4. ASSUME outcome.termination # Absent PROVE Accounted(outcome.termination)'
    <3>1. PICK t : t = outcome.termination
      OBVIOUS
    <3>2. Accounted(t)
      BY <2>3, <2>4, <3>1
    <3>3. Accounted(t)'
      BY <1>1, <2>1, <3>2, AccountedStays
    <3> QED
      BY <2>1, <3>1, <3>3 DEF Accounted
  <2> QED
    BY <2>1, <2>2, <2>3, <2>4
<1> QED
  BY <1>3, <1>4

\* Every step preserves the invariant.
LEMMA ScanNextHolds ==
  ASSUME ScanInv, [ScanNext]_fragmentVars
  PROVE  ScanInv'
<1>1. GoodInput'
  BY InputStays, GoodInputStays DEF ScanInv
<1>2. ScanTypeOK' /\ WithinBudget'
  BY UsageStep
<1>3. ASSUME ~filtering' PROVE Scanning'
  <2>1. ~filtering
    BY <1>3 DEF ScanInv, ScanTypeOK, ScanNext, Signal, PollPasses, ChargePasses, CommitRule,
         BeginFilter, IncludeFinding, Advance, ScanIsCancelled, ScanExceeds, ScanCompletes,
         Finish, ScanReturned, fragmentVars, controlVars
  <2> QED
    BY <1>3, <2>1, ScanningStep
<1>4. ASSUME filtering' PROVE Filtering'
  BY <1>4, FilterStep
<1>5. OutcomeInv'
  BY ReturnStep
<1> QED
  BY <1>1, <1>2, <1>3, <1>4, <1>5 DEF ScanInv

\* The invariant of the scan holds in every behaviour: the units that are left are
\* the rest of the code's fixed sequence, in which every commit is preceded by the
\* charges for what it commits.
THEOREM ScanInvHolds == ScanSpec => []ScanInv
<1>1. ScanInit => ScanInv
  BY InitHolds
<1>2. ScanInv /\ [ScanNext]_fragmentVars => ScanInv'
  BY ScanNextHolds
<1> QED
  BY <1>1, <1>2, PTL DEF ScanSpec

-----------------------------------------------------------------------------
(* What follows from it.                                                   *)

\* The verdicts that were given are the first of all, and all once no unit is left.
LEMMA GivenAreFirst ==
  ASSUME NEW given, NEW rest, NEW found, NEW records, Filtered(given, rest, found, records)
  PROVE  /\ FirstVerdicts(found, given)
         /\ rest = <<>> => given = Verdicts(found)
<1> DEFINE left == Image(verdictOf, rest)
           every == Verdicts(found)
<1>1. given \in Seq(BOOLEAN) /\ rest \in Seq(FilterUnit) /\ given \o left = every
      /\ found \in Seq(WholeFinding)
  BY DEF Filtered
<1>2. left \in Seq(BOOLEAN)
  <2>1. left \in Seq(Verdict)
    BY <1>1, VerdictOfMakes, ImageType
  <2> QED
    BY <2>1 DEF Verdict
<1>3. every \in Seq(BOOLEAN) /\ Len(every) = Len(found)
      /\ \A i \in 1 .. Len(found) : every[i] = Retained(found, found[i])
  BY <1>1, VerdictsType DEF Verdicts
<1>4. rest = <<>> => left = <<>>
  BY ImageEmpty
<1> HIDE DEF left, every
<1>5. Len(given) + Len(left) = Len(found) /\ Len(given) \in Nat /\ Len(left) \in Nat
  <2>1. Len(given \o left) = Len(given) + Len(left)
    BY <1>1, <1>2
  <2> QED
    BY <1>1, <1>2, <1>3, <2>1
<1>6. \A i \in 1 .. Len(given) : given[i] = Retained(found, found[i])
  <2>1. ASSUME NEW i \in 1 .. Len(given) PROVE given[i] = Retained(found, found[i])
    <3>1. i \in 1 .. Len(given) + Len(left) /\ i \in 1 .. Len(found) /\ i <= Len(given)
      BY <1>5
    <3>2. (given \o left)[i] = given[i]
      BY <1>1, <1>2, <3>1, JoinedAt
    <3> QED
      BY <1>1, <1>3, <3>1, <3>2, Zenon
  <2> QED
    BY <2>1
<1>7. FirstVerdicts(found, given)
  <2>1. Len(given) <= Len(found)
    BY <1>5
  <2> QED
    BY <1>1, <1>6, <2>1 DEF FirstVerdicts
<1>8. ASSUME rest = <<>> PROVE given = every
  <2>1. given \o <<>> = given
    BY <1>1
  <2> QED
    BY <1>1, <1>4, <1>8, <2>1
<1> QED
  BY <1>7, <1>8 DEF every

\* Before the filter every finding that is committed, and every one attached, is
\* charged.
LEMMA ScannedSoFar ==
  ASSUME ScanInv, ~filtering
  PROVE  /\ committed \in Seq(WholeFinding)
         /\ Len(Flat(committed)) <= usage["FindingRecords"]
<1>1. PICK done : Progress(done, units, committed, usage["FindingRecords"])
  BY DEF ScanInv, Scanning
<1>2. done \in Seq(ScanUnit) /\ units \in Seq(ScanUnit) /\ Balanced(done \o units)
      /\ committed = Concat(Committed(done)) /\ Flat(committed) = Weight(done)
      /\ usage["FindingRecords"] = Len(Records(done))
  BY <1>1 DEF Progress
<1>3. Len(Weight(done)) <= Len(Records(done))
  BY <1>2 DEF Balanced
<1>4. Committed(done) \in Seq(Seq(WholeFinding))
  BY <1>2, CommittedJoins
<1>5. /\ DOMAIN Committed(done) = 1 .. Len(Committed(done)) /\ Len(Committed(done)) \in Nat
      /\ \A i \in 1 .. Len(Committed(done)) : Committed(done)[i] \in Seq(WholeFinding)
  BY <1>4
<1>6. Concat(Committed(done)) \in Seq(WholeFinding)
  BY <1>5, ConcatType
<1> QED
  BY <1>2, <1>3, <1>6

\* What is returned is whole, is retained, and has been charged.
LEMMA ReturnedFindings ==
  ASSUME ScanInv
  PROVE  /\ PartialFindings \in Seq({f \in WholeFinding : Retained(committed, f)})
         /\ Len(Flat(PartialFindings)) <= usage["FindingRecords"]
<1>1. WholeFinding \subseteq Finding
  BY DEF WholeFinding
<1>2. committed \in Seq(WholeFinding) /\ Len(Flat(committed)) <= usage["FindingRecords"]
  <2>1. CASE filtering
    BY <2>1 DEF ScanInv, Filtering, Filtered
  <2>2. CASE ~filtering
    BY <2>2, ScannedSoFar
  <2> QED
    BY <2>1, <2>2
<1>3. committed \in Seq(Finding)
  BY <1>1, <1>2, SeqOfMore
<1>4. /\ PartialFindings \in Seq({f \in WholeFinding : Retained(committed, f)})
      /\ Len(Flat(PartialFindings)) <= Len(Flat(committed))
  <2>1. CASE filtering
    <3>1. FirstVerdicts(committed, included)
      BY <2>1, GivenAreFirst DEF ScanInv, Filtering
    <3>2. PartialFindings = ApplyFindingFilter(committed, included)
      BY <2>1 DEF PartialFindings
    <3>3. ApplyFindingFilter(committed, included)
            \in Seq({f \in WholeFinding : Retained(committed, f)})
      BY <1>2, <3>1, KeptAreRetained
    <3>4. Len(Flat(ApplyFindingFilter(committed, included))) <= Len(Flat(committed))
      BY <1>3, <3>1, AppliedIsShorter
    <3> QED
      BY <3>2, <3>3, <3>4
  <2>2. CASE ~filtering
    <3>1. PartialFindings = FilterFindings(committed)
      BY <2>2 DEF PartialFindings
    <3>2. FilterFindings(committed) \in Seq({f \in WholeFinding : Retained(committed, f)})
      BY <1>2, FilterKeepsRetained
    <3>3. Len(Flat(FilterFindings(committed))) <= Len(Flat(committed))
      BY <1>3, FilterIsShorter
    <3> QED
      BY <3>1, <3>2, <3>3
  <2> QED
    BY <2>1, <2>2
<1>5. PartialFindings \in Seq(Finding)
  <2> DEFINE R == {f \in WholeFinding : Retained(committed, f)}
  <2>1. R \subseteq Finding /\ PartialFindings \in Seq(R)
    BY <1>1, <1>4
  <2> HIDE DEF R
  <2> QED
    BY <2>1, SeqOfMore
<1>6. Len(Flat(PartialFindings)) \in Nat /\ Len(Flat(committed)) \in Nat
  <2>1. Flat(PartialFindings) \in Seq(Finding) /\ Flat(committed) \in Seq(Finding)
    BY <1>3, <1>5, FlatType
  <2> QED
    BY <2>1
<1>7. usage["FindingRecords"] \in Nat
  BY DEF ScanInv, ScanTypeOK, Dim
<1>8. Len(Flat(PartialFindings)) <= usage["FindingRecords"]
  BY <1>2, <1>4, <1>6, <1>7
<1> QED
  BY <1>4, <1>8

\* The contract follows.
LEMMA ContractFollows ==
  ASSUME ScanInv
  PROVE  ScanContract
<1>1. \A d \in Dim : usage[d] <= Ceiling(budget[d])
  BY DEF ScanInv, WithinBudget
<1>2. ASSUME outcome # Absent
      PROVE  /\ outcome.usage = usage
             /\ Len(outcome.findings)
                  + Len(Concat([i \in DOMAIN outcome.findings |->
                                      outcome.findings[i].required]))
                <= outcome.usage["FindingRecords"]
             /\ outcome.termination # Absent => Accounted(outcome.termination)
  <2>1. /\ outcome.usage = usage /\ outcome.findings = PartialFindings
        /\ outcome.termination # Absent => Accounted(outcome.termination)
    BY <1>2 DEF ScanInv, OutcomeInv
  <2> DEFINE found == outcome.findings
             R == {f \in WholeFinding : Retained(committed, f)}
  <2>2. found \in Seq(R) /\ R \subseteq Finding /\ Len(Flat(found)) <= usage["FindingRecords"]
    BY <2>1, ReturnedFindings DEF WholeFinding
  <2> HIDE DEF found, R
  <2>3. found \in Seq(Finding)
    BY <2>2, SeqOfMore
  <2>4. Len(Flat(found)) = Len(found) + Len(Concat([i \in DOMAIN found |-> found[i].required]))
    BY <2>3, FlatCounts
  <2>5. Len(found) + Len(Concat([i \in DOMAIN found |-> found[i].required]))
          <= outcome.usage["FindingRecords"]
    BY <2>1, <2>2, <2>4
  <2> QED
    BY <2>1, <2>5 DEF found
<1>3. ASSUME NEW t, Accounted(t)
      PROVE  CASE t.reason = "Cancelled" -> signal
               [] t.reason = "BudgetExceeded" ->
                    /\ t.limit = Ceiling(budget[t.kind])
                    /\ t.consumed = usage[t.kind]
                    /\ t.consumed + t.requested > t.limit
               [] t.reason = "NotLoaded" -> engine = Absent
  BY <1>3 DEF Accounted
<1> QED
  BY <1>1, <1>2, <1>3 DEF ScanContract

\* No lists put together are nothing.
LEMMA NothingPlanned ==
  ASSUME NEW committedLists, committedLists = <<>>
  PROVE  Concat(committedLists) = <<>>
<1>1. DOMAIN committedLists = 1 .. 0 /\ \A i \in 1 .. 0 : committedLists[i] = <<>>
  OBVIOUS
<1> QED
  BY <1>1, ConcatOfNothing

\* The first of all rules are all of them.
LEMMA FoundByAll ==
  ASSUME GoodInput
  PROVE  FoundByFirst(Len(TopLevel), TopLevel) = Concat(TopLevel)
<1>1. TopLevel \in Seq(Seq(WholeFinding))
  BY TopLevelType
<1>2. SubSeq(TopLevel, 1, Len(TopLevel)) = TopLevel
  BY <1>1
<1> QED
  BY <1>2 DEF FoundByFirst

\* A scan that is cut short has committed what some of the rules found.
LEMMA CutShort ==
  ASSUME ScanInv, ~filtering
  PROVE  \E k \in 0 .. Len(TopLevel) : committed = FoundByFirst(k, TopLevel)
<1>1. PICK done : Progress(done, units, committed, usage["FindingRecords"])
  BY DEF ScanInv, Scanning
<1> DEFINE a == Committed(done)
           b == Committed(units)
<1>2. /\ done \in Seq(ScanUnit) /\ units \in Seq(ScanUnit)
      /\ Committed(done \o units) = Planned /\ committed = Concat(a)
  BY <1>1 DEF Progress
<1>3. a \in Seq(Seq(WholeFinding)) /\ b \in Seq(Seq(WholeFinding)) /\ a \o b = Planned
  BY <1>2, CommittedJoins
<1>4. TopLevel \in Seq(Seq(WholeFinding))
  BY TopLevelType DEF ScanInv
<1> HIDE DEF a, b
<1>5. CASE Allowed(Allowlists)
  <2>1. a \o b = <<>>
    BY <1>3, <1>5 DEF Planned
  <2>2. a = <<>>
    BY <1>3, <2>1
  <2>3. committed = <<>>
    BY <1>2, <2>2, NothingPlanned
  <2>4. SubSeq(TopLevel, 1, 0) = <<>> /\ 0 \in 0 .. Len(TopLevel)
    BY <1>4
  <2>5. FoundByFirst(0, TopLevel) = <<>>
    BY <2>4, NothingPlanned DEF FoundByFirst
  <2> QED
    BY <2>3, <2>4, <2>5
<1>6. CASE ~Allowed(Allowlists)
  <2>1. a \o b = TopLevel
    BY <1>3, <1>6 DEF Planned
  <2>2. a = SubSeq(a \o b, 1, Len(a)) /\ Len(a) \in 0 .. Len(a \o b)
    BY <1>3, BeginningIsSubSeq
  <2>3. committed = FoundByFirst(Len(a), TopLevel) /\ Len(a) \in 0 .. Len(TopLevel)
    BY <1>2, <2>1, <2>2 DEF FoundByFirst
  <2> QED
    BY <2>3
<1> QED
  BY <1>5, <1>6

LEMMA EmptyIsPrefix ==
  ASSUME NEW T, NEW all \in Seq(T)
  PROVE  IsPrefix(<<>>, all)
<1>1. <<>> \in Seq(T) /\ all = <<>> \o all
  OBVIOUS
<1>2. Begins(<<>>, all, T)
  BY <1>1 DEF Begins
<1> QED
  BY <1>2, BeginningIsPrefix

\* What is returned is final.
LEMMA FinalizedFollows ==
  ASSUME ScanInv
  PROVE  OnlyFinalizedFindings
<1> DEFINE complete == FilterFindings(FoundByFirst(Len(TopLevel), TopLevel))
<1>1. SUFFICES ASSUME outcome # Absent, engine # Absent
               PROVE  /\ \A i \in DOMAIN outcome.findings : IsWhole(outcome.findings[i])
                      /\ \A i \in DOMAIN outcome.findings :
                           Retained(committed, outcome.findings[i])
                      /\ IF filtering
                         THEN IF outcome.termination = Absent /\ ~Allowed(Allowlists)
                              THEN outcome.findings = complete
                              ELSE IsPrefix(outcome.findings, complete)
                         ELSE \E k \in 0 .. Len(TopLevel) :
                                outcome.findings = FilterFindings(FoundByFirst(k, TopLevel))
  BY DEF OnlyFinalizedFindings
<1>2. /\ outcome.findings = PartialFindings
      /\ filtering /\ outcome.termination = Absent => units = <<>>
  BY <1>1 DEF ScanInv, OutcomeInv
<1>3. \A i \in DOMAIN outcome.findings :
        IsWhole(outcome.findings[i]) /\ Retained(committed, outcome.findings[i])
  <2>1. outcome.findings \in Seq({f \in WholeFinding : Retained(committed, f)})
    BY <1>2, ReturnedFindings
  <2>2. \A i \in DOMAIN outcome.findings :
          outcome.findings[i] \in {f \in WholeFinding : Retained(committed, f)}
    BY <2>1
  <2> QED
    BY <2>2 DEF WholeFinding
<1>4. GoodInput
  BY DEF ScanInv
<1>5. complete = FilterFindings(Concat(TopLevel))
  BY <1>4, FoundByAll
<1>6. CASE filtering
  <2>1. Filtered(included, units, committed, usage["FindingRecords"])
    BY <1>6 DEF ScanInv, Filtering
  <2>2. committed \in Seq(WholeFinding) /\ committed = Concat(Planned)
    BY <2>1 DEF Filtered
  <2>3. outcome.findings = ApplyFindingFilter(committed, included)
    BY <1>2, <1>6 DEF PartialFindings
  <2>4. FirstVerdicts(committed, included)
        /\ (units = <<>> => included = Verdicts(committed))
    BY <2>1, GivenAreFirst
  <2>5. CASE ~Allowed(Allowlists)
    <3>1. complete = FilterFindings(committed)
      BY <1>5, <2>2, <2>5 DEF Planned
    <3> HIDE DEF complete
    <3>2. Begins(ApplyFindingFilter(committed, included), FilterFindings(committed), WholeFinding)
      BY <2>2, <2>4, AppliedBegins
    <3>3. IsPrefix(outcome.findings, complete)
      BY <2>3, <3>1, <3>2, BeginningIsPrefix
    <3>4. outcome.termination = Absent => outcome.findings = complete
      BY <1>2, <1>6, <2>2, <2>3, <2>4, <3>1, FilterIsApplied
    <3> QED
      BY <1>3, <1>6, <2>5, <3>3, <3>4 DEF complete
  <2>6. CASE Allowed(Allowlists)
    <3>1. committed = <<>>
      BY <2>2, <2>6, NothingPlanned DEF Planned
    <3>2. outcome.findings = <<>>
      <4>1. outcome.findings \in Seq(WholeFinding)
        <5>1. Begins(ApplyFindingFilter(committed, included), FilterFindings(committed),
                     WholeFinding)
          BY <2>2, <2>4, AppliedBegins
        <5> QED
          BY <2>3, <5>1 DEF Begins
      <4>2. Len(included) = 0 /\ included \in Seq(BOOLEAN)
        <5>1. included \in Seq(BOOLEAN) /\ Len(included) <= Len(committed)
          BY <2>4 DEF FirstVerdicts
        <5>2. Len(<<>>) = 0
          OBVIOUS
        <5> QED
          BY <3>1, <5>1, <5>2
      <4>3. ApplyFindingFilter(committed, included) = Concat(Kept(committed, included))
            /\ DOMAIN Kept(committed, included) = 1 .. 0
        BY <4>2, KeptPieces
      <4>4. Concat(Kept(committed, included)) = <<>>
        BY <4>3, ConcatOfNothing
      <4> QED
        BY <2>3, <4>3, <4>4
    <3>3. complete \in Seq({f \in WholeFinding : Retained(Concat(TopLevel), f)})
      <4>1. TopLevel \in Seq(Seq(WholeFinding))
        BY <1>4, TopLevelType
      <4>2. /\ DOMAIN TopLevel = 1 .. Len(TopLevel) /\ Len(TopLevel) \in Nat
            /\ \A i \in 1 .. Len(TopLevel) : TopLevel[i] \in Seq(WholeFinding)
        BY <4>1
      <4>3. Concat(TopLevel) \in Seq(WholeFinding)
        BY <4>2, ConcatType
      <4> QED
        BY <1>5, <4>3, FilterKeepsRetained
    <3> HIDE DEF complete
    <3>4. IsPrefix(outcome.findings, complete)
      BY <3>2, <3>3, EmptyIsPrefix
    <3> QED
      BY <1>3, <1>6, <2>6, <3>4 DEF complete
  <2> QED
    BY <2>5, <2>6
<1>7. CASE ~filtering
  <2>1. PICK k \in 0 .. Len(TopLevel) : committed = FoundByFirst(k, TopLevel)
    BY <1>7, CutShort
  <2>2. outcome.findings = FilterFindings(committed)
    BY <1>2, <1>7 DEF PartialFindings
  <2> HIDE DEF complete
  <2> QED
    BY <1>3, <1>7, <2>1, <2>2 DEF complete
<1> QED
  BY <1>6, <1>7

\* scan_fragment_controlled keeps its contract with the runner for every
\* configuration, text, budget and signal: usage is within the budget, a scan is cut
\* short only by its signal or by a request that does not fit, and every finding that
\* is returned, and every one attached to it, has been charged.
THEOREM ScanContractHolds == ScanSpec => []ScanContract
<1>1. ScanInv => ScanContract
  BY ContractFollows
<1> QED
  BY <1>1, ScanInvHolds, PTL

\* scan_fragment_controlled returns only findings of top-level rules that were
\* completed, whole, and not suppressed by another that is committed; a filter that is
\* cut short returns a prefix of what the complete scan returns.
THEOREM OnlyFinalizedAreReturned == ScanSpec => []OnlyFinalizedFindings
<1>1. ScanInv => OnlyFinalizedFindings
  BY FinalizedFollows
<1> QED
  BY <1>1, ScanInvHolds, PTL

\* What the passes are known to have found: see LocatedPass.
PassesLocated == \A p \in DOMAIN passes : LocatedPass(passes, p)

LEMMA PassesLocatedInitially ==
  ASSUME ScanInit
  PROVE  PassesLocated
<1>1. CASE engine = Absent
  <2>1. DOMAIN passes = {}
    BY <1>1 DEF ScanInit
  <2> QED
    BY <2>1 DEF PassesLocated
<1>2. CASE engine # Absent
  <2>1. passes = Passes /\ text \in Texts
    BY <1>2 DEF ScanInit
  <2> QED
    BY <2>1, PassesAreLocated DEF PassesLocated
<1> QED
  BY <1>1, <1>2

LEMMA PassesLocatedStays ==
  ASSUME PassesLocated, UNCHANGED inputVars
  PROVE  PassesLocated'
<1>1. /\ text' = text /\ passes' = passes /\ DOMAIN Rules' = DOMAIN Rules
      /\ \A r : Rules'[r] = Rules[r]
  BY RulesStay DEF inputVars
<1>2. \A f : IsLocated(f)' <=> IsLocated(f)
  BY <1>1 DEF IsLocated, NewlinesUpTo
<1>3. \A p, r, c : IsLocated(ContentFinding(p, r, c))' <=> IsLocated(ContentFinding(p, r, c))
  BY <1>1 DEF IsLocated, NewlinesUpTo, ContentFinding
<1> QED
  BY <1>1, <1>3 DEF PassesLocated, LocatedPass

\* So is every finding that any rule has in any pass, with or without the findings it
\* requires, which are such findings too.
LEMMA OwnIsLocated ==
  ASSUME PassesLocated, NEW f \in Alone, Rules[f.rule].regex # Absent
  PROVE  IsLocated(f) /\ f.required = <<>> /\ \A s : IsLocated([f EXCEPT !.required = s])
<1>1. PICK p \in DOMAIN passes, r \in DOMAIN Rules : f \in OwnSet(p, r)
  BY DEF Alone, AloneIn
<1>2. f.rule = r /\ f.required = <<>>
  BY <1>1, OwnSetFacts
<1>3. PICK c \in Reportable(p, r) : f = ContentFinding(p, r, c)
  BY <1>1, <1>2 DEF OwnSet
<1>4. IsLocated(ContentFinding(p, r, c))
  BY <1>1, <1>3 DEF PassesLocated, LocatedPass, Reportable
<1>5. IsLocated(f)
  BY <1>3, <1>4
<1>6. ASSUME NEW s PROVE IsLocated([f EXCEPT !.required = s])
  <2> DEFINE g == [f EXCEPT !.required = s]
  <2>1. g.raw = f.raw /\ g.row = f.row /\ g.from = f.from /\ g.pass = f.pass
    BY <1>3 DEF ContentFinding
  <2> HIDE DEF g
  <2>2. IsLocated(g)
    BY <1>5, <2>1 DEF IsLocated
  <2> QED
    BY <2>2 DEF g
<1> QED
  BY <1>2, <1>5, <1>6

LEMMA FoundAreLocated ==
  ASSUME PassesLocated, NEW f \in Finding, NEW g \in {f} \cup ToSet(f.required),
         Rules[g.rule].regex # Absent
  PROVE  IsLocated(g)
<1>1. CASE f \in Alone
  <2>1. PICK p \in DOMAIN passes, r \in DOMAIN Rules : f \in OwnSet(p, r)
    BY <1>1 DEF Alone, AloneIn
  <2>2. f.required = <<>>
    BY <2>1, OwnSetFacts
  <2>3. ToSet(f.required) = {}
    BY <2>2 DEF ToSet
  <2>4. g = f
    BY <2>3
  <2> QED
    BY <1>1, <2>4, OwnIsLocated
<1>2. CASE f \in {[h EXCEPT !.required = s] : h \in Alone, s \in Seq(Alone)}
  <2>1. PICK h \in Alone, s \in Seq(Alone) : f = [h EXCEPT !.required = s]
    BY <1>2
  <2>2. PICK p \in DOMAIN passes, r \in DOMAIN Rules : h \in OwnSet(p, r)
    BY <2>1 DEF Alone, AloneIn
  <2>3. f.rule = h.rule /\ f.required = s
    BY <2>1, <2>2, OwnSetFacts
  <2>4. CASE g = f
    BY <2>1, <2>3, <2>4, OwnIsLocated
  <2>5. CASE g \in ToSet(f.required)
    <3>1. g \in Alone
      BY <2>1, <2>3, <2>5 DEF ToSet
    <3> QED
      BY <3>1, OwnIsLocated
  <2> QED
    BY <2>4, <2>5
<1> QED
  BY <1>1, <1>2 DEF Finding

\* What is returned is of the passes, and where it says it is.
LEMMA LocatedFollows ==
  ASSUME ScanInv, PassesLocated
  PROVE  FindingsAreLocated
<1>1. SUFFICES ASSUME outcome # Absent
               PROVE  /\ \A i \in DOMAIN outcome.findings :
                           \A g \in {outcome.findings[i]} \cup ToSet(outcome.findings[i].required) :
                             Rules[g.rule].regex # Absent => IsLocated(g)
                      /\ \A p \in DOMAIN passes : \A r \in DOMAIN Rules :
                           \A c \in ToSet(passes[p].candidates[r]) :
                             c.mapped \/ \E d \in ToSet(passes[p - 1].candidates[r]) :
                                           d.match = c.match /\ d.from = c.from
  BY DEF FindingsAreLocated
<1>2. outcome.findings = PartialFindings
  BY <1>1 DEF ScanInv, OutcomeInv
<1>3. ASSUME NEW i \in DOMAIN outcome.findings PROVE outcome.findings[i] \in Finding
  <2>1. outcome.findings \in Seq({f \in WholeFinding : Retained(committed, f)})
    BY <1>2, ReturnedFindings
  <2>2. outcome.findings[i] \in {f \in WholeFinding : Retained(committed, f)}
    BY <1>3, <2>1
  <2> QED
    BY <2>2 DEF WholeFinding
<1>4. ASSUME NEW i \in DOMAIN outcome.findings,
             NEW g \in {outcome.findings[i]} \cup ToSet(outcome.findings[i].required),
             Rules[g.rule].regex # Absent
      PROVE  IsLocated(g)
  BY <1>3, <1>4, FoundAreLocated
<1>5. ASSUME NEW p \in DOMAIN passes, NEW r \in DOMAIN Rules,
             NEW c \in ToSet(passes[p].candidates[r])
      PROVE  c.mapped \/ \E d \in ToSet(passes[p - 1].candidates[r]) :
                           d.match = c.match /\ d.from = c.from
  <2>1. LocatedPass(passes, p)
    BY DEF PassesLocated
  <2>2. p = 1 \/ p > 1
    BY DEF ScanInv, GoodInput, Sized
  <2> QED
    BY <2>1, <2>2 DEF LocatedPass
<1> QED
  BY <1>4, <1>5

\* Every finding that scan_fragment_controlled returns for its content, and every one
\* attached to it, is reported on the line its range begins in, and what was decoded is
\* mapped back through any number of decoders to a range that has every byte the match
\* came from and nothing besides but encoded bytes and trimmed line feeds; a match that
\* cannot be mapped back was found by the pass before.
THEOREM FindingsAreLocatedHolds == ScanSpec => []FindingsAreLocated
<1>1. ScanInit => PassesLocated
  BY PassesLocatedInitially
<1>2. PassesLocated /\ [ScanNext]_fragmentVars => PassesLocated'
  <2>1. [ScanNext]_fragmentVars => UNCHANGED inputVars
    BY InputStays
  <2> QED
    BY <2>1, PassesLocatedStays
<1>3. ScanInv /\ PassesLocated => FindingsAreLocated
  BY LocatedFollows
<1> QED
  BY <1>1, <1>2, <1>3, ScanInvHolds, PTL DEF ScanSpec

\* The engine is loaded once, before the scan, and stays what it is.
Loaded == engine = LoadConfig(request)

LEMMA ConfiguredFollows == Loaded => RulesAreAsConfigured
<1> SUFFICES ASSUME Loaded PROVE RulesAreAsConfigured
  OBVIOUS
<1> DEFINE chain == Chain(request)
           top == request.top
<1>1. /\ engine = Absent <=> Mistaken(request, chain)
      /\ engine # Absent =>
           /\ DOMAIN engine.rules =
                IF request.enabled = {} THEN Remaining(chain) ELSE request.enabled
           /\ engine.allowlists = UNION {ForAllRules(Files[chain[k]]) : k \in DOMAIN chain}
           /\ \A id \in DOMAIN engine.rules :
                /\ IsConfigured(engine.rules[id], chain, top, id)
                /\ engine.rules[id].keywords \subseteq engine.keywords
  BY LoadedIsConfigured DEF Loaded
<1>2. engine # Absent => Rules = engine.rules /\ Allowlists = engine.allowlists
  BY DEF Rules, Allowlists
<1> HIDE DEF chain
<1>3. ASSUME engine # Absent, NEW id \in DOMAIN Rules
      PROVE  LET saying == Saying(chain, id)
                 base == RuleAt(chain, id, Max(saying))
             IN /\ Rules[id].regex = Said(chain, id, "regex", Absent)
                /\ Rules[id].path = Said(chain, id, "path", Absent)
                /\ Rules[id].group = Said(chain, id, "group", {})
                /\ Rules[id].entropy = Said(chain, id, "entropy", 0)
                /\ Rules[id].required = base.required
                /\ Rules[id].skipReport = base.skipReport
                /\ Rules[id].keywords = UNION {RuleAt(chain, id, k).keywords : k \in saying}
                /\ Rules[id].keywords \subseteq engine.keywords
                /\ Rules[id].allowlists =
                     (UNION {RuleAt(chain, id, k).allowlists : k \in saying})
                       \cup {a.list : a \in {b \in Files[top].allowlists : id \in b.targets}}
  BY <1>1, <1>2, <1>3 DEF IsConfigured, Aimed
<1> QED
  BY <1>1, <1>2, <1>3 DEF RulesAreAsConfigured, ForAllRules, chain

LEMMA LoadedInvariant == ScanSpec => []Loaded
<1>1. ScanInit => Loaded
  BY DEF ScanInit, Loaded
<1>2. Loaded /\ UNCHANGED inputVars => Loaded'
  BY DEF inputVars, Loaded
<1>3. Loaded /\ [ScanNext]_fragmentVars => Loaded'
  BY <1>2, InputStays
<1> QED
  BY <1>1, <1>3, PTL DEF ScanSpec

\* However configuration files extend each other, disable rules of each other, aim
\* allowlists at them and run into the maximum depth, the loader's merges give every
\* rule what the files say, read from the top without merging; and nothing is loaded
\* exactly when one of the files has a mistake.
THEOREM RulesAreAsConfiguredHolds == ScanSpec => []RulesAreAsConfigured
BY LoadedInvariant, ConfiguredFollows, PTL

-----------------------------------------------------------------------------
(* The command.                                                            *)

Terminations == {"Completed", "Stopped", "Cancelled", "SourceError", "WorkerPanic"}

\* Until the timer is due there is none, and from its join on there is none any more.
TimerInv ==
  /\ caller = "start" => timer = "none"
  /\ command.name = "Directory" /\ caller \in {"banner", "assemble", "assembled"} =>
       timer = "none"
  /\ caller \in {"report", "fail", "exit", "returned"} => timer \in {"none", "ended"}

\* The outcome is what was merged, and a normal one is everything.
ResultInv ==
  caller \in {"finish", "join", "report", "exit"} /\ ~failed =>
    /\ result \in [termination : Terminations, findings : SUBSET (1 .. observed)]
    /\ result.findings = merged
    /\ result.termination \in {"Completed", "Stopped"} => merged = 1 .. observed
    /\ result.termination = "WorkerPanic" => panicked

CommitsInv ==
  /\ commits \in SUBSET Commit
  /\ excluded \in [fragments : Nat, commits : SUBSET Commit]

\* What the files a command meets make of it.
Given == AssembledPolicy(command.ignoreFiles, command.baseline, command.redact)

\* Where the caller is tells whether there is a summary and an exit code.
EndInv ==
  /\ caller \in {"report", "exit"} => ~failed
  /\ caller = "fail" => failed
  /\ caller # "returned" => exit = None
  /\ caller \notin {"exit", "returned"} => summary = None
  /\ caller = "exit" => summary = [findings |-> Reported, commits |-> CommitCount]

\* From its assembly on the policy is the one the user's files make.
PolicyInv ==
  /\ caller \in {"assembled", "prepare", "discover", "scan"} => policy = Given
  /\ caller \in {"finish", "join", "report", "exit"} /\ ~failed => policy = Given

CliInv ==
  /\ TypeOK /\ TimerInv /\ ResultInv /\ CommitsInv /\ EndInv /\ PolicyInv
  /\ ExitCodeIsTruthful /\ NothingLeftBehind

-----------------------------------------------------------------------------
(* Lemmas.                                                                 *)

\* commit_union_count is the size of the union.
LEMMA CommitCountIsUnion ==
  ASSUME CommitsInv
  PROVE  CommitCount = Cardinality(commits \cup excluded.commits)
<1>1. IsFiniteSet(commits) /\ IsFiniteSet(excluded.commits)
  BY FS_Subset, CommandAssumption DEF CommitsInv
<1>2. {c \in excluded.commits : c \in commits} = commits \cap excluded.commits
  OBVIOUS
<1> QED
  BY <1>1, <1>2, FS_Union DEF CommitCount

\* An entry of an ignore file counts exactly when it is read.
LEMMA EntryIsRead ==
  ASSUME NEW files \in IgnoreFiles, NEW entry
  PROVE  entry \in Ignores(files) <=>
           \E file \in files : \E i \in DOMAIN file :
             file[i] = entry /\ \A j \in 1 .. i : file[j] # Overlong
BY DEF Ignores, ReadEntries

\* The policy suppresses what the user has reviewed, and nothing else.
LEMMA SuppressedIsReviewed ==
  ASSUME CliInv, policy = Given, NEW finding \in Findings
  PROVE  Suppressed(policy, finding) <=> Reviewed(finding)
<1> DEFINE files == command.ignoreFiles
           known == {Global(finding), Qualified(finding)} \cap policy.ignores # {}
<1>1. /\ files \in IgnoreFiles /\ command.baseline \in Baselines
      /\ command.redact \in BOOLEAN
  BY DEF CliInv, TypeOK, Commands
<1>2. /\ policy.ignores = Ignores(files)
      /\ policy.redact = command.redact
      /\ policy.baseline = IF command.baseline \in {None, Unreadable} THEN {}
                           ELSE command.baseline
  BY DEF Given, AssembledPolicy
<1>3. known <=> \E file \in files : NamedIn(file, finding)
  <2>1. ASSUME known PROVE \E file \in files : NamedIn(file, finding)
    <3>1. PICK entry \in {Global(finding), Qualified(finding)} : entry \in Ignores(files)
      BY <2>1, <1>2
    <3>2. PICK file \in files : \E i \in DOMAIN file :
             file[i] = entry /\ \A j \in 1 .. i : file[j] # Overlong
      BY <3>1, <1>1, EntryIsRead
    <3> QED
      BY <3>1, <3>2 DEF NamedIn
  <2>2. ASSUME NEW file \in files, NamedIn(file, finding) PROVE known
    <3>1. PICK i \in DOMAIN file :
             /\ file[i] \in {Global(finding), Qualified(finding)}
             /\ \A j \in 1 .. i : file[j] # Overlong
      BY <2>2 DEF NamedIn
    <3>2. file[i] \in Ignores(files)
      BY <3>1, <1>1, EntryIsRead
    <3> QED
      BY <3>1, <3>2, <1>2
  <2> QED
    BY <2>1, <2>2
<1>4. known <=> \/ Global(finding) \in policy.ignores
                \/ finding.commit # None /\ Qualified(finding) \in policy.ignores
  BY DEF Global, Qualified
<1>5. ~IsNew(policy.baseline, finding, policy.redact) <=>
        /\ command.baseline \notin {None, Unreadable}
        /\ \E secret \in IF command.redact THEN Secret ELSE {finding.secret} :
             [finding EXCEPT !.secret = secret] \in command.baseline
  <2>1. CASE command.baseline \in {None, Unreadable}
    BY <2>1, <1>2 DEF IsNew
  <2>2. CASE command.baseline \notin {None, Unreadable}
    <3>1. policy.baseline = command.baseline /\ command.baseline \subseteq Findings
      BY <2>2, <1>1, <1>2, CommandAssumption
    <3>2. \A entry \in Findings :
            entry.place = finding.place /\ entry.commit = finding.commit <=>
              entry = [finding EXCEPT !.secret = entry.secret]
      BY DEF Findings
    <3>3. \A secret \in Secret :
            /\ [finding EXCEPT !.secret = secret].place = finding.place
            /\ [finding EXCEPT !.secret = secret].commit = finding.commit
            /\ [finding EXCEPT !.secret = secret].secret = secret
      BY DEF Findings
    <3>4. finding.secret \in Secret /\ \A entry \in Findings : entry.secret \in Secret
      BY DEF Findings
    <3> DEFINE secrets == IF command.redact THEN Secret ELSE {finding.secret}
    <3>5. ASSUME NEW entry \in command.baseline,
                 BaselineEqual(entry, finding, command.redact)
          PROVE  \E secret \in secrets : [finding EXCEPT !.secret = secret] \in command.baseline
      <4>1. entry \in Findings
        BY <3>1, <3>5
      <4>2. entry = [finding EXCEPT !.secret = entry.secret]
        BY <4>1, <3>2, <3>5 DEF BaselineEqual
      <4>3. entry.secret \in secrets
        BY <4>1, <3>4, <3>5 DEF BaselineEqual
      <4> QED
        BY <3>5, <4>2, <4>3
    <3>6. ASSUME NEW secret \in secrets, [finding EXCEPT !.secret = secret] \in command.baseline
          PROVE  \E entry \in command.baseline : BaselineEqual(entry, finding, command.redact)
      <4>1. secret \in Secret
        BY <3>4
      <4>2. BaselineEqual([finding EXCEPT !.secret = secret], finding, command.redact)
        BY <4>1, <3>3, <1>1 DEF BaselineEqual
      <4> QED
        BY <3>6, <4>2
    <3> QED
      BY <1>2, <2>2, <3>1, <3>5, <3>6 DEF IsNew
  <2> QED
    BY <2>1, <2>2
<1> QED
  BY <1>3, <1>4, <1>5 DEF Suppressed, Reviewed

\* The invariant holds of a command that has not started.
LEMMA CliInit == Init => CliInv
<1> SUFFICES ASSUME Init PROVE CliInv
  OBVIOUS
<1>1. TypeOK
  <2>1. contents \in Seq(Findings \cup {None}) /\ Len(contents) = 0
    BY DEF Init
  <2> QED
    BY <2>1 DEF Init, Run!Init, TypeOK
<1>2. TimerInv /\ ResultInv /\ CommitsInv /\ EndInv /\ PolicyInv
  BY DEF Init, Run!Init, TimerInv, ResultInv, CommitsInv, EndInv, PolicyInv
<1>3. ExitCodeIsTruthful /\ NothingLeftBehind
  BY CommandAssumption DEF Init, Run!Init, ExitCodeIsTruthful, NothingLeftBehind
<1> QED
  BY <1>1, <1>2, <1>3 DEF CliInv

-----------------------------------------------------------------------------
(* One lemma for each group of steps.                                      *)

\* The timer's thread touches itself and the token.
LEMMA TimerKeeps ==
  ASSUME CliInv, TimerStep
  PROVE  CliInv'
<1>1. /\ timer \in {"waiting", "firing"} /\ timer' \in {"firing", "ended"}
      /\ token' \in BOOLEAN
      /\ UNCHANGED <<command, caller, told, observed, merged, panicked, result,
                     policy, contents, commits, excluded, endVars>>
  BY DEF CliInv, TypeOK, TimerStep, Expire, CancelByTimer, IsTold, Run!Cancel, scanVars, runVars
<1>2. Leaky' = Leaky /\ Reported' = Reported /\ CommitCount' = CommitCount
  BY <1>1 DEF Leaky, Reviewed, Reported, CommitCount
<1>3. TypeOK' /\ TimerInv' /\ ResultInv' /\ CommitsInv' /\ EndInv' /\ PolicyInv'
  BY <1>1, <1>2 DEF CliInv, TypeOK, TimerInv, ResultInv, CommitsInv, EndInv, PolicyInv, Given, endVars
<1>4. ExitCodeIsTruthful' /\ NothingLeftBehind'
  BY <1>1, <1>2 DEF CliInv, TimerInv, ExitCodeIsTruthful, NothingLeftBehind, endVars
<1> QED
  BY <1>3, <1>4 DEF CliInv

\* Before the scan only the caller's place changes, and the timer when it is due.
LEMMA PreparationKeeps ==
  ASSUME CliInv, PreparationStep \/ TimerFails \/ PreparationFails
  PROVE  CliInv'
<1>1. /\ caller \in {"start", "banner", "assemble", "assembled", "prepare", "discover"}
      /\ exit = None /\ summary = None
      /\ UNCHANGED <<command, told, runVars, contents, commits, excluded, summary>>
  BY DEF CliInv, EndInv, PreparationStep, StartTimer, SkipTimer, Prepare, Discover,
         Assemble, TimerFails, PreparationFails, TimerDue, timerVars, scanVars, endVars
<1>2. CASE StartTimer
  <2>1. /\ timer' \in {"none", "waiting"} /\ UNCHANGED <<policy, failed, exit>>
        /\ \/ caller' = "banner" /\ command.name # "Directory"
           \/ caller' = "prepare"
    BY <1>2 DEF StartTimer, TimerDue, AfterTimer, Goto, endVars, scanVars
  <2> QED
    BY <1>1, <2>1, CommandAssumption DEF CliInv, TypeOK, TimerInv, ResultInv, CommitsInv, EndInv, PolicyInv, Given,
       ExitCodeIsTruthful, NothingLeftBehind, scanVars, runVars
<1>3. CASE SkipTimer
  <2>1. /\ UNCHANGED <<timer, policy, failed, exit>>
        /\ \/ caller = "start" /\ caller' = "banner" 
           \/ caller = "assembled" /\ caller' = "prepare"
    BY <1>3 DEF SkipTimer, AfterTimer, Goto, endVars, timerVars, scanVars
  <2> QED
    BY <1>1, <2>1, CommandAssumption DEF CliInv, TypeOK, TimerInv, ResultInv, CommitsInv, EndInv, PolicyInv, Given,
       ExitCodeIsTruthful, NothingLeftBehind, scanVars, runVars
<1>4. CASE Prepare \/ Discover
  <2>1. /\ UNCHANGED <<timer, policy, failed, exit>>
        /\ \/ caller = "banner" /\ caller' = "assemble"
           \/ caller \in {"prepare", "discover"} /\ caller' \in {"discover", "scan"}
    BY <1>4 DEF Prepare, Prepared, Discover, Goto, endVars, timerVars, scanVars
  <2> QED
    BY <1>1, <2>1, CommandAssumption DEF CliInv, TypeOK, TimerInv, ResultInv, CommitsInv, EndInv, PolicyInv, Given,
       ExitCodeIsTruthful, NothingLeftBehind, scanVars, runVars
<1>5. CASE PreparationFails
  <2>1. UNCHANGED <<timer, policy, exit>> /\ failed' = TRUE /\ caller' = "finish"
    BY <1>5 DEF PreparationFails, Goto, timerVars, scanVars
  <2> QED
    BY <1>1, <2>1, CommandAssumption DEF CliInv, TypeOK, TimerInv, ResultInv, CommitsInv, EndInv, PolicyInv, Given,
       ExitCodeIsTruthful, NothingLeftBehind, scanVars, runVars
<1>6. CASE TimerFails
  <2>1. /\ timer = "none" /\ UNCHANGED <<timer, policy>>
        /\ exit' = 1 /\ failed' = TRUE /\ caller' = "returned"
    BY <1>6 DEF CliInv, TimerInv, TimerFails, TimerDue, Goto, timerVars, scanVars
  <2> QED
    BY <1>1, <2>1, CommandAssumption DEF CliInv, TypeOK, TimerInv, ResultInv, CommitsInv, EndInv, PolicyInv, Given,
       ExitCodeIsTruthful, NothingLeftBehind, scanVars, runVars
<1>7. CASE Assemble
  <2>1. /\ UNCHANGED <<timer, failed, exit>>
        /\ caller = "assemble" /\ caller' = "assembled"
        /\ policy' = Given
    BY <1>7 DEF Assemble, Given, Goto, endVars, timerVars
  <2> QED
    BY <1>1, <2>1, CommandAssumption DEF CliInv, TypeOK, TimerInv, ResultInv, CommitsInv, EndInv, PolicyInv, Given,
       ExitCodeIsTruthful, NothingLeftBehind, runVars
<1> QED
  BY <1>2, <1>3, <1>4, <1>5, <1>6, <1>7 DEF PreparationStep

\* While the scan runs there is no outcome; its return is what ScanRun permits.
LEMMA ScanKeeps ==
  ASSUME CliInv, ScanStep \/ RunReturns
  PROVE  CliInv'
<1>1. /\ caller = "scan" /\ exit = None /\ summary = None
      /\ UNCHANGED <<command, timerVars, endVars>>
  BY DEF CliInv, EndInv, ScanStep, RunReturns, Exclude, Observe, Scan
<1> USE DEF CliInv, TypeOK, TimerInv, ResultInv, CommitsInv, EndInv, PolicyInv, Given,
            ExitCodeIsTruthful, NothingLeftBehind, timerVars, endVars
<1>2. ASSUME NEW commit \in CommitsOf(command.name), Exclude(commit)
      PROVE  CliInv'
  <2>1. excluded' \in [fragments : Nat, commits : SUBSET Commit]
    BY <1>2 DEF Exclude, CommitsOf, CommitsWith
  <2> QED
    BY <1>1, <1>2, <2>1, CommandAssumption DEF Exclude, runVars
<1>3. ASSUME NEW commit \in CommitsOf(command.name), NEW content \in ContentsOf(commit),
             Observe(commit, content)
      PROVE  CliInv'
  <2>1. commits' \in SUBSET Commit
    BY <1>3 DEF Observe, CommitsOf, CommitsWith
  <2>2. /\ result = None /\ observed' = observed + 1
        /\ UNCHANGED <<caller, token, merged, panicked, result, excluded>>
        /\ contents' = Append(contents, content) /\ UNCHANGED policy
    BY <1>3 DEF Observe, Run!Observe
  <2>3. 1 .. observed \subseteq 1 .. observed' /\ observed' \in 1 .. observed'
    BY <2>2
  <2>4. content \in Findings \cup {None}
    BY <1>3 DEF ContentsOf, CommitsOf, Findings
  <2>5. contents' \in Seq(Findings \cup {None}) /\ Len(contents') = observed'
    BY <2>2, <2>4
  <2> QED
    BY <1>1, <2>1, <2>2, <2>3, <2>5, CommandAssumption
<1>4. CASE Scan
  <2>1. /\ result = None /\ merged' \subseteq 1 .. observed /\ panicked' \in BOOLEAN
        /\ UNCHANGED <<caller, token, observed, result, policy, contents, commits, excluded>>
    BY <1>4 DEF Scan, Run!Merge, Run!Panic, Run!Fragment
  <2> QED
    BY <1>1, <2>1, CommandAssumption
<1>5. CASE RunReturns
  <2>1. /\ caller' = "finish"
        /\ UNCHANGED <<token, observed, merged, panicked, policy, contents, commits, excluded>>
    BY <1>5 DEF RunReturns, Run!Return, Goto
  <2>2. PICK termination \in Terminations :
          /\ Run!Permitted(termination)
          /\ result' = [termination |-> termination, findings |-> merged]
    BY <1>5 DEF RunReturns, Run!Return, Terminations
  <2>3. /\ termination \in {"Completed", "Stopped"} => merged = 1 .. observed
        /\ termination = "WorkerPanic" => panicked
    BY <2>2 DEF Run!Permitted, Run!Fragment
  <2>4. result'.findings = merged /\ merged \subseteq 1 .. observed
    BY <2>2
  <2>5. result' \in [termination : Terminations, findings : SUBSET (1 .. observed)]
    BY <2>2, <2>4
  <2> QED
    BY <1>1, <2>1, <2>2, <2>3, <2>4, <2>5, CommandAssumption
<1> QED
  BY <1>2, <1>3, <1>4, <1>5 DEF ScanStep

\* From the end of the scan on the outcome is only read.
LEMMA EndKeeps ==
  ASSUME CliInv, EndStep \/ ReportFails
  PROVE  CliInv'
<1>1. UNCHANGED <<command, timer, scanVars>>
  BY DEF EndStep, ReportFails, TellTimer, JoinTimer, WriteReport, Exit, timerVars
<1>0. Leaky' = Leaky
  BY <1>1 DEF Leaky, Reviewed, scanVars, runVars
<1> USE DEF CliInv, TypeOK, TimerInv, ResultInv, CommitsInv, EndInv, PolicyInv, Given,
            ExitCodeIsTruthful, NothingLeftBehind, scanVars, runVars
<1>2. CASE TellTimer
  BY <1>0, <1>1, <1>2 DEF TellTimer, Goto, endVars
<1>3. CASE JoinTimer
  BY <1>0, <1>1, <1>3 DEF JoinTimer, Goto, endVars, timerVars
<1>4. CASE ReportFails
  BY <1>0, <1>1, <1>4 DEF ReportFails, Goto, timerVars
<1>5. CASE WriteReport
  <2>1. /\ caller = "report" /\ caller' = "exit"
        /\ UNCHANGED <<told, failed, exit>>
        /\ summary' = [findings |-> Reported, commits |-> CommitCount]
    BY <1>5 DEF WriteReport, Goto, timerVars
  <2>2. Reported' = Reported /\ CommitCount' = CommitCount
    BY <1>1 DEF Reported, CommitCount
  <2>3. CommitCount = Cardinality(commits \cup excluded.commits)
    BY CommitCountIsUnion
  <2> QED
    BY <1>0, <1>1, <2>1, <2>2, <2>3
<1>6. CASE Exit
  <2>1. /\ caller \in {"exit", "fail"} /\ caller' = "returned"
        /\ UNCHANGED <<told, failed, summary>>
    BY <1>6 DEF Exit, Goto, timerVars
  <2>2. CASE caller = "fail"
    <3>1. exit' = 1 /\ failed'
      BY <1>6, <2>1, <2>2 DEF Exit
    <3> QED
      BY <1>0, <1>1, <2>1, <2>2, <3>1
  <2>3. CASE caller = "exit"
    <3>1. exit' = ExitCode /\ summary.findings = Reported
      BY <1>6, <2>3 DEF Exit
    <3>2. exit' \in Int
      <4>1. command.exitCode \in ExitCodes
        BY DEF Commands
      <4>2. command.exitCode \in Int
        BY <4>1, CommandAssumption
      <4>3. ExitCode \in {0, 1, command.exitCode}
        BY ONLY DEF ExitCode
      <4> QED
        BY ONLY <3>1, <4>2, <4>3
    <3>3. Partial <=> result.termination \in {"Cancelled", "SourceError", "WorkerPanic"}
      BY <2>3 DEF Partial, Terminations
    <3>4. ExitCodeIsTruthful'
      <4>0. Leaky' = Leaky
        BY <1>0, <1>1, <2>1 DEF Leaky, Reviewed
      <4>1. CASE Partial
        BY <1>0, <1>1, <2>1, <2>3, <3>1, <3>3, <4>1 DEF ExitCode
      <4>2. CASE ~Partial
        <5>1. result.findings = 1 .. observed /\ merged = 1 .. observed /\ policy = Given
          BY <2>3, <3>1, <3>3, <4>2 DEF Partial
        <5>2. ASSUME NEW f \in 1 .. observed, contents[f] # None
              PROVE  Suppressed(policy, contents[f]) <=> Reviewed(contents[f])
          BY <5>1, <5>2, SuppressedIsReviewed
        <5>3. Reported = Leaky
          BY <5>1, <5>2 DEF Reported, Leaky
        <5> QED
          BY <1>0, <1>1, <2>1, <3>1, <4>2, <5>1, <5>3 DEF ExitCode
      <4> QED
        BY <4>1, <4>2
    <3> QED
      BY <1>0, <1>1, <2>1, <2>3, <3>2, <3>4
  <2> QED
    BY <2>1, <2>2, <2>3
<1> QED
  BY <1>2, <1>3, <1>4, <1>5, <1>6 DEF EndStep

-----------------------------------------------------------------------------
(* Theorems.                                                               *)

\* What is known at each place of run_scan holds in every behaviour.
THEOREM CommandInvariant == Spec => []CliInv
<1>1. CliInv /\ [Next]_vars => CliInv'
  <2> SUFFICES ASSUME CliInv, [Next]_vars PROVE CliInv'
    OBVIOUS
  <2>1. CASE UNCHANGED vars \/ Returned
    <3>1. UNCHANGED <<command, caller, timer, told, token, observed, merged, panicked, result,
                      policy, contents, commits, excluded, failed, summary, exit>>
      BY <2>1 DEF Returned, vars, timerVars, scanVars, runVars, endVars
    <3>2. Reported' = Reported /\ CommitCount' = CommitCount /\ Leaky' = Leaky
      BY <3>1 DEF Reported, CommitCount, Leaky, Reviewed
    <3>3. TypeOK' /\ TimerInv' /\ ResultInv' /\ CommitsInv' /\ PolicyInv'
      BY <3>1 DEF CliInv, TypeOK, TimerInv, ResultInv, CommitsInv, PolicyInv, Given
    <3>4. EndInv' /\ ExitCodeIsTruthful' /\ NothingLeftBehind'
      BY <3>1, <3>2 DEF CliInv, EndInv, ExitCodeIsTruthful, NothingLeftBehind
    <3> QED
      BY <3>3, <3>4 DEF CliInv
  <2> QED
    BY <2>1, TimerKeeps, PreparationKeeps, ScanKeeps, EndKeeps DEF Next
<1> QED
  BY CliInit, <1>1, PTL DEF Spec

\* A command is type-correct.
THEOREM TypeCorrect == Spec => []TypeOK
BY CommandInvariant, PTL DEF CliInv

\* The exit code of run_scan tells the truth about the fragments, the findings and the
\* causes of an incomplete run, whenever the timer fires.
THEOREM ExitCodeTellsTruth == Spec => []ExitCodeIsTruthful
BY CommandInvariant, PTL DEF CliInv

\* No command leaves a timer behind, and commits are counted once.
THEOREM CommandLeavesNothing == Spec => []NothingLeftBehind
BY CommandInvariant, PTL DEF CliInv

=============================================================================
