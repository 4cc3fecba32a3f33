------------------------------ MODULE RuleConfig ------------------------------
(***************************************************************************)
(* Which rules and allowlists an engine gets: the extension of             *)
(* configuration files in crates/rustleaks-core/src/config/loader.rs and   *)
(* the selection of rules in config/compiled.rs.                           *)
(*                                                                         *)
(* A file has rules in the order they stand in it, allowlists for all      *)
(* rules or for some, the files it extends and the rules of theirs it      *)
(* does not want.  The embedded default configuration is a file like any   *)
(* other.  Rule ids are numbers in the order of the BTreeMap; a pattern    *)
(* may be Absent, a group {} and a threshold 0.                            *)
(***************************************************************************)
EXTENDS Integers, Sequences, FiniteSets, SequencesExt, FiniteSetsExt

CONSTANTS
  Absent,             \* Rust's None, an empty path or an empty commit
  MaxExtendDepth,   \* MAX_EXTEND_DEPTH
  MaxRuleId,        \* bound: rule ids
  Files             \* the configuration files there are, by name

IsRule(rule) ==
  /\ rule = [id |-> rule.id, keywords |-> rule.keywords, skipReport |-> rule.skipReport,
             allowlists |-> rule.allowlists, path |-> rule.path, regex |-> rule.regex,
             group |-> rule.group, entropy |-> rule.entropy, required |-> rule.required]
  /\ rule.id \in 1 .. MaxRuleId
  /\ rule.required \in Seq(ToSet(rule.required))

ASSUME FileAssumption ==
  /\ MaxExtendDepth \in Nat
  /\ MaxRuleId \in Nat
  /\ \A name \in DOMAIN Files :
       LET rules == Files[name].rules
       IN /\ rules \in Seq(ToSet(rules)) /\ \A i \in DOMAIN rules : IsRule(rules[i])
          /\ IsFiniteSet(Files[name].extends)

\* What a configuration can be put together from: the rules that stand in a file, with
\* any field taken from another of them, and the allowlists of all files.
Stated == UNION {ToSet(Files[name].rules) : name \in DOMAIN Files}
Targeting == UNION {Files[name].allowlists : name \in DOMAIN Files}
Lists == {a.list : a \in Targeting} \cup UNION {rule.allowlists : rule \in Stated}
Words == UNION {rule.keywords : rule \in Stated}

\* CompiledRule.
CompiledRule ==
  [id : 1 .. MaxRuleId, keywords : SUBSET Words,
   skipReport : {rule.skipReport : rule \in Stated}, allowlists : SUBSET Lists,
   path : {rule.path : rule \in Stated}, regex : {rule.regex : rule \in Stated},
   group : {rule.group : rule \in Stated}, entropy : {rule.entropy : rule \in Stated},
   required : {rule.required : rule \in Stated}]

\* CompiledConfig.
CompiledConfig ==
  [rules : UNION {[ids -> CompiledRule] : ids \in SUBSET (1 .. MaxRuleId)},
   keywords : SUBSET Words, allowlists : SUBSET Lists, targeted : SUBSET Targeting]

ASSUME AbsentAssumption == Absent \notin CompiledConfig

IdsOf(file) == {file.rules[i].id : i \in DOMAIN file.rules}

\* Of several rules with one id, the last one.
RuleOf(file, id) ==
  file.rules[Max({i \in DOMAIN file.rules : file.rules[i].id = id})]

\* compile_local: the keywords are those of all rules, also of the ones that another
\* replaces.
CompileLocal(file) ==
  [rules |-> [id \in IdsOf(file) |-> RuleOf(file, id)],
   keywords |-> UNION {file.rules[i].keywords : i \in DOMAIN file.rules},
   allowlists |-> {a.list : a \in {b \in file.allowlists : b.targets = {}}},
   targeted |-> {a \in file.allowlists : a.targets # {}}]

\* validate_required_ids: a rule may only require rules of its own file.
RequiredExist(rules) ==
  \A id \in DOMAIN rules : \A k \in DOMAIN rules[id].required :
    rules[id].required[k].id \in DOMAIN rules

\* What an extending rule says replaces what the base says; keywords and allowlists
\* add up; what is required and whether it is reported stay with the base.
Override(base, own) ==
  [base EXCEPT !.entropy = IF own.entropy # 0 THEN own.entropy ELSE @,
               !.group = IF own.group # {} THEN own.group ELSE @,
               !.regex = IF own.regex # Absent THEN own.regex ELSE @,
               !.path = IF own.path # Absent THEN own.path ELSE @,
               !.keywords = @ \cup own.keywords,
               !.allowlists = @ \cup own.allowlists]

Merged(own, base, kept) ==
  [id \in kept \cup DOMAIN own.rules |->
     IF id \notin kept THEN own.rules[id]
     ELSE IF id \notin DOMAIN own.rules THEN base.rules[id]
     ELSE Override(base.rules[id], own.rules[id])]

MergeExtensionForgettingKeywords(own, base, disabled) ==
  [own EXCEPT !.rules = Merged(own, base, DOMAIN base.rules \ disabled),
              !.allowlists = @ \cup base.allowlists]

\* merge_extension: the allowlists that a base has for some rules are not taken over.
MergeExtension(own, base, disabled) ==
  LET kept == DOMAIN base.rules \ disabled
      rules == Merged(own, base, kept)
  IN [own EXCEPT !.rules = rules,
                 !.keywords = @ \cup UNION {rules[id].keywords : id \in kept},
                 !.allowlists = @ \cup base.allowlists]

\* compile_level at the maximum depth: a file is taken as it stands, whatever it extends.
\* A mistake makes a file Absent.
CompileAlone(file) ==
  LET own == CompileLocal(file)
  IN IF RequiredExist(own.rules) THEN own ELSE Absent

Named(compiled, name) == IF name \in DOMAIN compiled THEN compiled[name] ELSE Absent

\* compile_level above that, when `bases` are the files compiled at the next depth.
CompileOver(file, bases) ==
  LET own == CompileAlone(file)
      base == Named(bases, CHOOSE b \in file.extends : TRUE)
  IN IF own = Absent \/ file.extends = {} THEN own
     ELSE IF Cardinality(file.extends) > 1 \/ base = Absent THEN Absent
     ELSE MergeExtension(own, base, file.disabled)

CompileLevel[left \in 0 .. MaxExtendDepth] ==
  IF left = 0 THEN [name \in DOMAIN Files |-> CompileAlone(Files[name])]
  ELSE [name \in DOMAIN Files |-> CompileOver(Files[name], CompileLevel[left - 1])]

\* validate_effective_rules.
HavePatterns(rules) ==
  \A id \in DOMAIN rules : rules[id].regex # Absent \/ rules[id].path # Absent

\* attach_targeted_allowlists.
TargetsExist(config) == \A a \in config.targeted : a.targets \subseteq DOMAIN config.rules

WithTargeted(config) ==
  LET For(id) == {a.list : a \in {b \in config.targeted : id \in b.targets}}
      rules == [id \in DOMAIN config.rules |->
                  [config.rules[id] EXCEPT !.allowlists = @ \cup For(id)]]
  IN [config EXCEPT !.rules = rules]

\* compile_at.
CompileAt(top) ==
  LET config == Named(CompileLevel[MaxExtendDepth], top)
  IN IF config = Absent THEN Absent
     ELSE IF ~HavePatterns(config.rules) \/ ~TargetsExist(config) THEN Absent
     ELSE WithTargeted(config)

\* select_rules, unless no rules are named.
SelectRules(config, ids) ==
  IF config = Absent \/ ids = {} THEN config
  ELSE IF ~(ids \subseteq DOMAIN config.rules) THEN Absent
  ELSE [config EXCEPT !.rules = [id \in ids |-> @[id]],
                      !.keywords = UNION {config.rules[id].keywords : id \in ids}]

\* The configuration for a request: the file to begin with, and the rules that are
\* enabled.
LoadConfig(request) == SelectRules(CompileAt(request.top), request.enabled)

-----------------------------------------------------------------------------
(* What the files say, read without merging.                               *)

\* The files of the chain from the top; it ends at the maximum depth, or where
\* a file is missing or extends none or several.
Chain(request) ==
  LET upTo[d \in 0 .. MaxExtendDepth] ==
        IF d = 0 THEN <<request.top>>
        ELSE LET above == upTo[d - 1]
                 extends == Files[Last(above)].extends
             IN IF Last(above) \notin DOMAIN Files \/ Cardinality(extends) # 1 THEN above
                ELSE Append(above, CHOOSE b \in extends : TRUE)
  IN upTo[MaxExtendDepth]

\* The places in a chain whose rule with this id has a say: no file above disables it.
Saying(chain, id) ==
  {k \in DOMAIN chain :
     /\ id \in IdsOf(Files[chain[k]])
     /\ \A j \in 1 .. k - 1 : id \notin Files[chain[j]].disabled}

\* All rules of all files that remain.
Remaining(chain) ==
  {id \in UNION {IdsOf(Files[chain[k]]) : k \in DOMAIN chain} : Saying(chain, id) # {}}

RuleAt(chain, id, k) == RuleOf(Files[chain[k]], id)

\* The first file that says something else than `nothing` about a field.
Said(chain, id, field, nothing) ==
  LET saying == {k \in Saying(chain, id) : RuleAt(chain, id, k)[field] # nothing}
  IN IF saying = {} THEN nothing ELSE RuleAt(chain, id, Min(saying))[field]

\* A user's mistake for which nothing may be loaded.
Mistaken(request, chain) ==
  LET top == Files[request.top]
  IN \/ \E k \in DOMAIN chain : chain[k] \notin DOMAIN Files
     \/ \E k \in 1 .. Min({MaxExtendDepth, Len(chain)}) :
          Cardinality(Files[chain[k]].extends) > 1
     \/ \E k \in DOMAIN chain : ~RequiredExist(CompileLocal(Files[chain[k]]).rules)
     \/ \E id \in Remaining(chain) :
          Said(chain, id, "regex", Absent) = Absent /\ Said(chain, id, "path", Absent) = Absent
     \/ \E a \in top.allowlists : ~(a.targets \subseteq Remaining(chain))
     \/ ~(request.enabled \subseteq Remaining(chain))

=============================================================================
