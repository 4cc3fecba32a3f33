----------------------------- MODULE FragmentScan -----------------------------
(***************************************************************************)
(* One controlled scan of one fragment: Engine::scan_fragment_controlled   *)
(* of crates/rustleaks-core/src/engine.rs, with the work the decoder       *)
(* (decoder/mod.rs) charges between passes.                                *)
(*                                                                         *)
(* Given the fragment's bytes the scan is a fixed sequence of indivisible  *)
(* units.  Each is a poll of the cancellation signal, a charge to one of   *)
(* the three budgets (which polls first), the commit of a finished         *)
(* top-level rule, or a verdict of the final filter.  The operators below  *)
(* build that sequence as the code runs through it; the actions execute    *)
(* it against a signal that may be raised between any two units and        *)
(* against a budget.  The rules are those RuleConfig makes of the user's   *)
(* files; the text is a sequence of marks and encoded runs (DecodedText).  *)
(* A rule matches the longest runs of its marks, an allowlist what has a   *)
(* mark in common with it, and a secret contains one that has no others.   *)
(***************************************************************************)
EXTENDS RuleConfig, DecodedText

CONSTANTS
  GenericIds,       \* the rules with "generic" in their id
  AllowMark,        \* the mark of a line with an allow marker
  MaxTargetBytes,   \* ScanOptions.max_target_bytes
  HonorMarkers,     \* ScanOptions.honor_allow_markers
  MaxUsize,         \* usize::MAX
  Requests,         \* the configurations a user may ask for
  Fragments,        \* the paths and commits a fragment may have
  Texts,            \* the contents it may have
  Byte,             \* the bytes of these, and of what they decode to
  Budgets           \* the budgets a caller may give

Dim == {"DecodedBytes", "WorkUnits", "FindingRecords"}

ASSUME LimitAssumption ==
  /\ MaxUsize \in Nat \ {0}
  /\ Absent \notin Int /\ Absent # [reason |-> "Cancelled"]
  /\ Budgets \subseteq [Dim -> (0 .. MaxUsize) \cup {Absent}]

ASSUME OptionAssumption ==
  /\ MaxDecodeDepth \in Nat
  /\ MaxTargetBytes \in Nat \cup {Absent}
  /\ HonorMarkers \in BOOLEAN

ASSUME InputAssumption ==
  /\ \A f \in Fragments : f.inherited \in BOOLEAN
  /\ Texts \subseteq Seq(Byte)
  /\ \A byte \in Byte :
       /\ byte = [mark |-> byte.mark, encoding |-> byte.encoding, inner |-> byte.inner,
                  at |-> byte.at, size |-> byte.size]
       /\ byte.inner \in Seq(Byte) /\ byte.size \in Nat /\ Len(byte.inner) < byte.size

VARIABLES
  request,    \* which configuration the user asks for
  engine,     \* Engine.config, Absent when it could not be loaded
  fragment,   \* its path, Windows path, commit and whether a finding led to it
  text,       \* its content
  passes,     \* what is found in each pass
  budget,     \* ScanControl.budget
  signal,     \* ScanControl.cancellation has been raised
  units,      \* what is left to execute
  filtering,  \* the final filter has begun
  usage,      \* ScanContext.usage
  committed,  \* the findings of completed top-level rules
  included,   \* the filter's verdicts so far
  outcome     \* the ScanOutcome, Absent until it is returned

inputVars == <<request, engine, fragment, text, passes, budget>>
resultVars == <<usage, committed, included, outcome>>
controlVars == <<signal, units, filtering>>
fragmentVars == <<inputVars, controlVars, resultVars>>

Rules == IF engine = Absent THEN <<>> ELSE engine.rules
Allowlists == IF engine = Absent THEN {} ELSE engine.allowlists
Generic(id) == id \in GenericIds

-----------------------------------------------------------------------------
(* Allowlists.                                                             *)

CommitAllowed(a) == fragment.commit \in a.commits
PathAllowed(a) == {fragment.path, fragment.windows} \cap a.paths # {}

\* commit_or_path_allowed: the check before a fragment or a rule is scanned.
Allowed(lists) ==
  /\ fragment.path # Absent \/ fragment.commit # Absent
  /\ \E a \in lists :
       \/ a.condition = "Or" /\ (CommitAllowed(a) \/ PathAllowed(a))
       \/ /\ a.condition = "And"
          /\ a.regexes = {} /\ a.stopWords = {}
          /\ a.commits # {} => CommitAllowed(a)
          /\ a.paths # {} => PathAllowed(a)

\* The line an allowlist sees: a decoded pass's own line, if it has one.
AllowlistLine(p, c) == IF p > 1 /\ c.decodedLine # {} THEN c.decodedLine ELSE c.line

Target(a, p, c) ==
  CASE a.target = "match" -> c.match
    [] a.target = "line" -> AllowlistLine(p, c)
    [] OTHER -> c.secret

\* finding_allowed: the check of one candidate.
FindingAllowed(lists, p, c) ==
  \E a \in lists :
    LET regex == a.regexes \cap Target(a, p, c) # {}
        stopWord == a.stopWords \cap c.secret # {}
    IN \/ a.condition = "Or" /\ (regex \/ stopWord)
       \/ /\ a.condition = "And"
          /\ a.commits # {} => CommitAllowed(a)
          /\ a.paths # {} => PathAllowed(a)
          /\ a.regexes # {} => regex
          /\ a.stopWords # {} => stopWord

-----------------------------------------------------------------------------
(* The units of one rule in one pass.                                      *)

Poll == [kind |-> "Poll"]
Charge(dim, amount) == [kind |-> "Charge", dim |-> dim, amount |-> amount]
Work == Charge("WorkUnits", 1)
Record == Charge("FindingRecords", 1)
CommitUnit(findings) == [kind |-> "Commit", findings |-> findings]
Include(retained) == [kind |-> "Include", retained |-> retained]
Repeat(n, unit) == [i \in 1 .. n |-> unit]

RuleSuppressed(r, inherited) ==
  (Rules[r].skipReport /\ ~inherited) \/ Allowed(Rules[r].allowlists)

PathMatches(r) ==
  \/ fragment.path \in Rules[r].path
  \/ fragment.windows # Absent /\ fragment.windows \in Rules[r].path

\* detect_rule reaches the loop over the matches of the rule's expression.
Matched(p, r, inherited) ==
  /\ ~RuleSuppressed(r, inherited)
  /\ Rules[r].regex # Absent
  /\ Rules[r].path # Absent => PathMatches(r)
  /\ MaxTargetBytes # Absent => passes[p].bytes <= MaxTargetBytes

\* content_finding keeps a candidate: it can be mapped back to the fragment,
\* its line is not marked, its secret has enough entropy, and no allowlist names it.
Accepted(p, r, c) ==
  /\ p > 1 => c.mapped
  /\ ~(HonorMarkers /\ AllowMark \in c.line)
  /\ Rules[r].entropy # 0 => c.entropy > Rules[r].entropy
  /\ ~FindingAllowed(Allowlists, p, c)
  /\ ~FindingAllowed(Rules[r].allowlists, p, c)

Candidates(p, r, inherited) ==
  IF Matched(p, r, inherited) THEN passes[p].candidates[r] ELSE <<>>

ContentFinding(p, r, c) ==
  [rule |-> r, pass |-> p, row |-> c.row, column |-> c.column, secret |-> c.secret,
   required |-> <<>>, raw |-> c.raw, from |-> c.from]

PathFinding(p, r) ==
  [rule |-> r, pass |-> p, row |-> 0, column |-> 0, secret |-> {},
   required |-> <<>>, raw |-> Span(0, 0), from |-> {}]

\* A rule without an expression: one finding, in the pass over the raw bytes.
PathOnly(p, r, inherited) ==
  /\ ~RuleSuppressed(r, inherited)
  /\ Rules[r].regex = Absent /\ Rules[r].path # Absent
  /\ p = 1 /\ PathMatches(r)

\* What detect_rule finds before required rules are looked at.
OwnFindings(p, r, inherited) ==
  IF PathOnly(p, r, inherited) THEN <<PathFinding(p, r)>>
  ELSE Collect(Candidates(p, r, inherited),
               LAMBDA c : Accepted(p, r, c), LAMBDA c : ContentFinding(p, r, c))

OwnUnits(p, r, inherited) ==
  <<Work>>
  \o (IF PathOnly(p, r, inherited) THEN <<Record>> ELSE <<>>)
  \o LET candidates == Candidates(p, r, inherited)
     IN Concat([i \in DOMAIN candidates |->
          IF Accepted(p, r, candidates[i]) THEN <<Work, Record>> ELSE <<Work>>])

-----------------------------------------------------------------------------
(* Required rules of a composite rule.                                     *)

Composite(p, r) ==
  /\ ~fragment.inherited
  /\ Rules[r].regex # Absent /\ Rules[r].required # <<>>
  /\ OwnFindings(p, r, FALSE) # <<>>

\* A rule named in `required` that the configuration does not have is skipped.
Found(p, spec) ==
  IF spec.id \in DOMAIN Rules THEN OwnFindings(p, spec.id, TRUE) ELSE <<>>

RequiredUnits(p, r) ==
  Concat([k \in DOMAIN Rules[r].required |->
    LET id == Rules[r].required[k].id
    IN <<Work>> \o (IF id \in DOMAIN Rules THEN OwnUnits(p, id, TRUE) ELSE <<>>)])

Distance(a, b) == IF a >= b THEN a - b ELSE b - a

Within(a, b, bound) == bound # Absent => bound >= 0 /\ Distance(a, b) <= bound

WithinProximity(f, g, spec) ==
  Within(f.row, g.row, spec.withinLines) /\ Within(f.column, g.column, spec.withinColumns)

\* The findings of one required rule that are near enough, and the units it takes to
\* compare them: one per pair, and one record per match.
Near(p, f, spec) == Only(Found(p, spec), LAMBDA g : WithinProximity(f, g, spec))

NearUnits(p, f, spec) ==
  LET found == Found(p, spec)
  IN <<Work>> \o Concat([i \in DOMAIN found |->
       IF WithinProximity(f, found[i], spec) THEN <<Work, Record>> ELSE <<Work>>])

Projected(p, f) ==
  LET specs == Rules[f.rule].required
  IN Concat([k \in DOMAIN specs |-> Near(p, f, specs[k])])

ProjectUnits(p, f) ==
  LET specs == Rules[f.rule].required
  IN Concat([k \in DOMAIN specs |-> NearUnits(p, f, specs[k])])

HasAll(p, f) ==
  \A k \in DOMAIN Rules[f.rule].required :
    \E g \in ToSet(Projected(p, f)) : g.rule = Rules[f.rule].required[k].id

Completed(p, r) ==
  Collect(OwnFindings(p, r, fragment.inherited),
          LAMBDA f : HasAll(p, f), LAMBDA f : [f EXCEPT !.required = Projected(p, f)])

\* What a top-level rule contributes, and the units it takes.
RuleFindings(p, r) ==
  IF Composite(p, r) THEN Completed(p, r) ELSE OwnFindings(p, r, fragment.inherited)

RuleUnitsCommittingEarly(p, r) ==
  LET own == OwnFindings(p, r, fragment.inherited)
  IN OwnUnits(p, r, fragment.inherited) \o <<CommitUnit(own)>>
     \o (IF Composite(p, r) THEN RequiredUnits(p, r) ELSE <<>>)

RuleUnits(p, r) ==
  LET own == OwnFindings(p, r, fragment.inherited)
  IN OwnUnits(p, r, fragment.inherited)
     \o (IF Composite(p, r)
         THEN RequiredUnits(p, r)
              \o Concat([i \in DOMAIN own |-> ProjectUnits(p, own[i])])
         ELSE <<>>)
     \o <<CommitUnit(RuleFindings(p, r))>>

-----------------------------------------------------------------------------
(* What is found in a pass over a text, whose bytes come from the bytes    *)
(* `origins` of the fragment, and which `segments` led to.                 *)

\* The secret is what the expression has in a group, which may be nothing, or all of
\* the match.
SecretOf(r, match) == IF Rules[r].group = {} THEN match ELSE match \cap Rules[r].group

\* content_finding, as far as it depends on the texts only.
Candidate(r, current, segments, origins, span) ==
  LET near == NearTo(segments, span)
      trimmed == Trimmed(current, span)
      match == Marks(current, trimmed)
      secret == SecretOf(r, match)
      raw == Adjusted(segments, current, span)
      location == UpstreamLocation(text, raw)
  IN [match |-> match, secret |-> secret,
      from |-> UNION {origins[i] : i \in trimmed.start + 1 .. trimmed.end},
      mapped |-> segments = <<>> \/ near # <<>>,
      raw |-> raw, row |-> location.row, column |-> location.column,
      line |-> Marks(text, location.line),
      decodedLine |-> IF near = <<>> THEN {} ELSE Marks(current, CurrentLine(near, current)),
      entropy |-> Cardinality(secret)]

CandidatesIn(r, current, segments, origins) ==
  IF Rules[r].regex = Absent THEN <<>>
  ELSE LET spans == Matches(current, Rules[r].regex)
       IN [i \in DOMAIN spans |-> Candidate(r, current, segments, origins, spans[i])]

\* A text, the segments that led to it, the bytes of the fragment that each of its bytes
\* comes from, and the segments in it.
Level(current, segments, origins) ==
  [current |-> current, segments |-> segments, origins |-> origins,
   next |-> FindEncodedSegments(current, segments)]

Undecoded == Level(text, <<>>, [i \in DOMAIN text |-> {i - 1}])

\* What the segments in a text decode to, in their places.
Decoded(level) ==
  LET inners == [n \in DOMAIN level.next |->
                   RunAt(level.current, level.next[n].encoded).inner]
      Origin(n) == UNION ToSet(Bytes(level.origins, level.next[n].encoded))
      sources == [n \in DOMAIN level.next |-> [i \in DOMAIN inners[n] |-> Origin(n)]]
  IN Level(Replaced(level.current, level.next, inners), level.next,
           Replaced(level.origins, level.next, sources))

\* The prefilter finds the keywords of the configuration.
PassOver(level) ==
  LET current == level.current
  IN [bytes |-> Len(current),
      hits |-> engine.keywords \cap Marks(current, Span(0, Len(current))),
      hitCount |-> Cardinality({i \in DOMAIN current : current[i].mark \in engine.keywords}),
      candidates |->
        [r \in DOMAIN Rules |-> CandidatesIn(r, current, level.segments, level.origins)],
      captures |-> Len(Captures(current)),
      kept |-> Len(FindEncodingMatches(current)),
      segments |-> Len(level.next)]

\* The passes over the text and over what it decodes to, until nothing is encoded or the
\* depth is reached: what the passes so far have found, and the text of the next one.
NoPasses == [passes |-> <<>>, level |-> Undecoded]

NextPass(before) ==
  IF before.passes # <<>> /\ Last(before.passes).segments = 0 THEN before
  ELSE [passes |-> Append(before.passes, PassOver(before.level)),
        level |-> Decoded(before.level)]

Passes ==
  LET upTo[p \in 0 .. MaxDecodeDepth + 1] == IF p = 0 THEN NoPasses ELSE NextPass(upTo[p - 1])
  IN upTo[MaxDecodeDepth + 1].passes

-----------------------------------------------------------------------------
(* Passes.                                                                 *)

\* A rule with keywords is only looked at when one of them was found.
Selected(p) ==
  Numbers(MaxRuleId, LAMBDA r :
    /\ r \in DOMAIN Rules
    /\ Rules[r].keywords = {} \/ Rules[r].keywords \cap passes[p].hits # {})

PassUnits(p) ==
  <<Work>> \o Repeat(passes[p].hitCount, Work)
  \o Concat([i \in DOMAIN Selected(p) |-> RuleUnits(p, Selected(p)[i])])

Segments(p) == IF p = 0 THEN 0 ELSE passes[p].segments

\* Decoder::decode_controlled: one unit per capture, per capture compared with its
\* neighbours, per match decoded, per predecessor of a segment, and per segment
\* copied; `kept` are the matches no neighbour shadows.
DecodeUnits(p) ==
  LET d == passes[p]
      compared == IF d.captures > 1 THEN d.captures ELSE 0
  IN <<Work>> \o Repeat(d.captures + compared + d.kept
                        + d.segments * Segments(p - 1) + d.segments, Work)
     \o <<Poll>>

\* The pass after p: it exists when the depth allows it and p had segments.
Decodes(p) == p <= MaxDecodeDepth
Continues(p) == p < Len(passes)

ScanUnits ==
  <<Poll>> \o
  IF Allowed(Allowlists) THEN <<>>
  ELSE Concat([p \in DOMAIN passes |->
         PassUnits(p)
         \o (IF Decodes(p) THEN DecodeUnits(p) ELSE <<>>)
         \o (IF Continues(p) THEN <<Charge("DecodedBytes", passes[p + 1].bytes)>>
                             ELSE <<>>)])

-----------------------------------------------------------------------------
(* The final filter.                                                       *)

Suppresses(other, f) ==
  /\ other.row = f.row
  /\ other.rule # f.rule
  /\ f.secret \subseteq other.secret
  /\ ~Generic(other.rule)

Retained(findings, f) ==
  Generic(f.rule) => \A i \in DOMAIN findings : ~Suppresses(findings[i], f)

\* filter_findings: the atomic filter of a partial outcome.
FilterFindings(findings) == Only(findings, LAMBDA f : Retained(findings, f))

\* filter_findings_cancellable polls before each finding and, for a generic one,
\* before each finding it is compared with up to the first that suppresses it.
Compared(findings, f) ==
  IF ~Generic(f.rule) THEN {}
  ELSE {j \in DOMAIN findings : \A k \in 1 .. j - 1 : ~Suppresses(findings[k], f)}

FilterUnits(findings) ==
  Concat([i \in DOMAIN findings |->
    Repeat(1 + Cardinality(Compared(findings, findings[i])), Poll)
    \o <<Include(Retained(findings, findings[i]))>>])

\* apply_finding_filter on the findings that have a verdict.
ApplyFindingFilter(findings, verdicts) ==
  Concat([i \in DOMAIN verdicts |-> IF verdicts[i] THEN <<findings[i]>> ELSE <<>>])

-----------------------------------------------------------------------------
(* Executing the units.                                                    *)

\* There is no engine, and no scan, without a configuration.
NotLoaded ==
  [findings |-> <<>>, usage |-> [d \in Dim |-> 0], termination |-> [reason |-> "NotLoaded"]]

ScanInit ==
  /\ request \in Requests
  /\ engine = LoadConfig(request)
  /\ text \in Texts
  /\ passes = IF engine = Absent THEN <<>> ELSE Passes
  /\ fragment \in Fragments
  /\ units = IF engine = Absent THEN <<>> ELSE ScanUnits
  /\ budget \in Budgets
  /\ signal = FALSE
  /\ filtering = FALSE
  /\ usage = [d \in Dim |-> 0]
  /\ committed = <<>>
  /\ included = <<>>
  /\ outcome = IF engine = Absent THEN NotLoaded ELSE Absent

\* The caller's signal: another thread, at any time.
Signal ==
  /\ ~signal
  /\ signal' = TRUE
  /\ UNCHANGED <<inputVars, units, filtering, resultVars>>

Ceiling(limit) == IF limit = Absent THEN MaxUsize ELSE limit

ExceedsAtLimit(dim, amount) ==
  \/ usage[dim] + amount > MaxUsize
  \/ budget[dim] # Absent /\ usage[dim] + amount >= budget[dim]

\* charge_counter refuses what would pass the limit or leave usize.
Exceeds(dim, amount) ==
  \/ usage[dim] + amount > MaxUsize
  \/ budget[dim] # Absent /\ usage[dim] + amount > budget[dim]

Unit == Head(units)

\* The next unit is one of these kinds.
Due(kinds) == outcome = Absent /\ units # <<>> /\ Unit.kind \in kinds

Advance ==
  /\ units' = Tail(units)
  /\ UNCHANGED <<inputVars, signal, filtering>>

PollPasses ==
  /\ Due({"Poll"}) /\ ~signal
  /\ Advance
  /\ UNCHANGED resultVars

ChargePasses ==
  /\ Due({"Charge"}) /\ ~signal
  /\ ~Exceeds(Unit.dim, Unit.amount)
  /\ usage' = [usage EXCEPT ![Unit.dim] = @ + Unit.amount]
  /\ Advance
  /\ UNCHANGED <<committed, included, outcome>>

CommitRule ==
  /\ Due({"Commit"})
  /\ committed' = committed \o Unit.findings
  /\ Advance
  /\ UNCHANGED <<usage, included, outcome>>

\* finish_complete, once every pass is through.
BeginFilter ==
  /\ outcome = Absent /\ units = <<>> /\ ~filtering
  /\ filtering' = TRUE
  /\ units' = FilterUnits(committed)
  /\ UNCHANGED <<inputVars, signal, resultVars>>

IncludeFinding ==
  /\ Due({"Include"})
  /\ included' = Append(included, Unit.retained)
  /\ Advance
  /\ UNCHANGED <<usage, committed, outcome>>

Finish(findings, termination) ==
  /\ outcome' = [findings |-> findings, usage |-> usage, termination |-> termination]
  /\ UNCHANGED <<inputVars, controlVars, usage, committed, included>>

\* What is returned of a scan that is cut short: finish_partial, or the prefix that
\* filter_findings_cancellable has finalized.
PartialFindings ==
  IF filtering THEN ApplyFindingFilter(committed, included)
               ELSE FilterFindings(committed)

ScanIsCancelled ==
  /\ Due({"Poll", "Charge"}) /\ signal
  /\ Finish(PartialFindings, [reason |-> "Cancelled"])

ScanExceeds ==
  /\ Due({"Charge"}) /\ ~signal
  /\ Exceeds(Unit.dim, Unit.amount)
  /\ Finish(PartialFindings,
            [reason |-> "BudgetExceeded", kind |-> Unit.dim,
             limit |-> Ceiling(budget[Unit.dim]),
             consumed |-> usage[Unit.dim], requested |-> Unit.amount])

ScanCompletes ==
  /\ outcome = Absent /\ units = <<>> /\ filtering
  /\ Finish(ApplyFindingFilter(committed, included), Absent)

\* The outcome has been returned.
ScanReturned == outcome # Absent /\ UNCHANGED fragmentVars

ScanNext ==
  \/ Signal
  \/ PollPasses \/ ChargePasses \/ CommitRule \/ BeginFilter \/ IncludeFinding
  \/ ScanIsCancelled \/ ScanExceeds \/ ScanCompletes
  \/ ScanReturned

ScanSpec == ScanInit /\ [][ScanNext]_fragmentVars

-----------------------------------------------------------------------------
(* Properties.                                                             *)

\* Every top-level rule of every pass, in the order of the code, and what
\* the first k of them find.
TopLevel ==
  Concat([p \in DOMAIN passes |->
    [i \in DOMAIN Selected(p) |-> RuleFindings(p, Selected(p)[i])]])

FoundByFirst(k, topLevel) == Concat(SubSeq(topLevel, 1, k))

\* A composite finding with a finding near it for each rule it requires.
IsWhole(f) ==
  Rules[f.rule].regex # Absent /\ ~fragment.inherited =>
    \A k \in DOMAIN Rules[f.rule].required :
      \E g \in ToSet(f.required) :
        /\ g.rule = Rules[f.rule].required[k].id
        /\ g.pass = f.pass

\* scan_fragment_controlled: "A partial outcome contains only findings from top-level
\* rules completed before termination", composite findings only whole, and
\* generic findings only if nothing committed suppresses them; a cancellation
\* during final filtering returns a prefix of what the complete scan returns.
OnlyFinalizedFindings ==
  outcome # Absent /\ engine # Absent =>
    LET findings == outcome.findings
        topLevel == TopLevel
        complete == FilterFindings(FoundByFirst(Len(topLevel), topLevel))
    IN /\ \A i \in DOMAIN findings : IsWhole(findings[i])
       /\ \A i \in DOMAIN findings : Retained(committed, findings[i])
       /\ IF filtering
          THEN IF outcome.termination = Absent /\ ~Allowed(Allowlists)
               THEN findings = complete ELSE IsPrefix(findings, complete)
          ELSE \E k \in 0 .. Len(topLevel) :
                 findings = FilterFindings(FoundByFirst(k, topLevel))

\* What the runner relies on (ScanCompletes, ScanIsCancelled and ScanExceeds of
\* BudgetAccounting): usage stays within the budget, a scan is only cut short by
\* its signal or by a request that does not fit, and a refused request has
\* not been charged.  max_finding_records is "a hard cardinality ceiling"
\* (finish_partial): every finding that is returned, and every required finding
\* attached to one, has been charged, although the filter itself charges nothing.
ScanContract ==
  /\ \A d \in Dim : usage[d] <= Ceiling(budget[d])
  /\ outcome # Absent =>
       /\ outcome.usage = usage
       /\ Len(outcome.findings)
            + Len(Concat([i \in DOMAIN outcome.findings |->
                                outcome.findings[i].required]))
          <= outcome.usage["FindingRecords"]
       /\ outcome.termination # Absent =>
            LET t == outcome.termination
            IN CASE t.reason = "Cancelled" -> signal
                 [] t.reason = "BudgetExceeded" ->
                      /\ t.limit = Ceiling(budget[t.kind])
                      /\ t.consumed = usage[t.kind]
                      /\ t.consumed + t.requested > t.limit
                 [] t.reason = "NotLoaded" -> engine = Absent

NewlinesUpTo(place) ==
  Cardinality({i \in DOMAIN text : i - 1 <= place /\ text[i].mark = Newline})

\* A finding is reported on the line its range begins in.  A range in the fragment
\* itself begins no later than the match; one that was found in a decoded text contains
\* every byte that any of the match was decoded from, and besides only encoded bytes
\* and the line feeds that were trimmed.
IsLocated(f) ==
  LET range == f.raw.start .. f.raw.end - 1
  IN /\ f.row = NewlinesUpTo(f.raw.start)
     /\ \A place \in f.from : f.raw.start <= place
     /\ f.pass > 1 =>
          /\ f.from \subseteq range
          /\ \A place \in range \ f.from :
               text[place + 1].encoding # Unencoded \/ text[place + 1].mark = Newline

\* Offsets are mapped back through every text between a finding and its fragment, whose
\* lengths all differ: wherever runs are nested in each other, stand next to each other,
\* or are put together by a decoding, a finding is located; and a match is only
\* dropped for not being near what was decoded last when the pass before had it too.
FindingsAreLocated ==
  outcome # Absent =>
    /\ \A i \in DOMAIN outcome.findings :
         LET f == outcome.findings[i]
         IN \A g \in {f} \cup ToSet(f.required) : Rules[g.rule].regex # Absent => IsLocated(g)
    /\ \A p \in DOMAIN passes : \A r \in DOMAIN Rules :
         \A c \in ToSet(passes[p].candidates[r]) :
           c.mapped \/ \E d \in ToSet(passes[p - 1].candidates[r]) :
                         d.match = c.match /\ d.from = c.from

\* Files that extend each other give every rule that no file above disables, each
\* field from the first file that has a say about it, all allowlists of all files, and
\* the keywords without which a rule would never be tried; and a mistake
\* in any of the files gives no engine at all.
RulesAreAsConfigured ==
  outcome # Absent =>
    LET chain == Chain(request)
        top == Files[request.top]
        ForAll(file) == {a.list : a \in {b \in file.allowlists : b.targets = {}}}
    IN /\ engine = Absent <=> Mistaken(request, chain)
       /\ engine # Absent =>
            /\ DOMAIN Rules =
                 IF request.enabled = {} THEN Remaining(chain) ELSE request.enabled
            /\ Allowlists = UNION {ForAll(Files[chain[k]]) : k \in DOMAIN chain}
            /\ \A id \in DOMAIN Rules :
                 LET saying == Saying(chain, id)
                     base == RuleAt(chain, id, Max(saying))
                 IN /\ Rules[id].regex = Said(chain, id, "regex", Absent)
                    /\ Rules[id].path = Said(chain, id, "path", Absent)
                    /\ Rules[id].group = Said(chain, id, "group", {})
                    /\ Rules[id].entropy = Said(chain, id, "entropy", 0)
                    /\ Rules[id].required = base.required
                    /\ Rules[id].skipReport = base.skipReport
                    /\ Rules[id].keywords =
                         UNION {RuleAt(chain, id, k).keywords : k \in saying}
                    /\ Rules[id].keywords \subseteq engine.keywords
                    /\ Rules[id].allowlists =
                         (UNION {RuleAt(chain, id, k).allowlists : k \in saying})
                           \cup {a.list : a \in {b \in top.allowlists : id \in b.targets}}

=============================================================================
