-------------------------- MODULE BudgetAccounting --------------------------
(***************************************************************************)
(* The accounting of one budgeted source operation: the Operation,         *)
(* Accounting and Reservation types of                                     *)
(* crates/rustleaks-sources/src/runner/budget.rs.                          *)
(*                                                                         *)
(* A worker reserves its fragment's scan allowance from the aggregate      *)
(* limits before it scans, and settles the reservation with what the scan  *)
(* really used.  A reservation dropped without being settled belongs to a  *)
(* panicking scan and is charged in full.  Every action below is one       *)
(* critical section of the accounting mutex, or one store of an atomic.    *)
(* The threads that call them are in BudgetRunner.                         *)
(***************************************************************************)
EXTENDS Integers, FiniteSets

CONSTANTS
  Worker,           \* the detection workers
  None,             \* Rust's None
  FragmentLimit,    \* SourceBudget.fragment: one scan's ceiling per dimension
  AggregateLimit,   \* SourceBudget.operation: the ceiling over all scans
  MaxFragmentBytes, \* SourceBudget.fragment_bytes
  MaxOriginalBytes, \* SourceBudget.original_bytes
  MaxFragments,     \* SourceBudget.fragments
  MaxIssues,        \* SourceBudget.issues
  MaxUsize,         \* usize::MAX
  FragmentBytes,    \* the content lengths a source may emit
  ScanUse,          \* the usage vectors the engine may report
  ScanRequest       \* the amounts a refused engine charge may ask for

\* The three resources of a fragment scan, in the order of the code's arrays.
Dim == {"DecodedBytes", "WorkUnits", "FindingRecords"}
Ordinal == [DecodedBytes |-> 0, WorkUnits |-> 1, FindingRecords |-> 2]

Kind == Dim \cup {"OriginalBytes", "Fragments", "Issues"}
Scope == {"Fragment", "Operation"}

Usize == 0 .. MaxUsize
Limit == Usize \cup {None}
Report == [scope : Scope, kind : Kind,
           limit : Usize, consumed : Usize, requested : Usize]

\* SourceBudget::validate: a finite aggregate limit needs a finite fragment one.
ValidBudget(fragment, aggregate) ==
  \A d \in Dim : aggregate[d] # None => fragment[d] # None

ASSUME NoneAssumption ==
  /\ None \notin Int
  /\ None \notin [Dim -> Int]
  /\ None \notin [scope : Scope, kind : Kind,
                  limit : Int, consumed : Int, requested : Int]
  /\ None \notin [kind : Dim, limit : Int, consumed : Int, requested : Int]

ASSUME BudgetAssumption ==
  /\ IsFiniteSet(Worker)
  /\ MaxUsize \in Nat \ {0}
  /\ FragmentLimit \in [Dim -> Limit]
  /\ AggregateLimit \in [Dim -> Limit]
  /\ {MaxFragmentBytes, MaxOriginalBytes, MaxFragments, MaxIssues} \subseteq Limit
  /\ ValidBudget(FragmentLimit, AggregateLimit)

ASSUME InputAssumption ==
  /\ FragmentBytes \subseteq Usize
  /\ ScanUse \subseteq [Dim -> Usize]
  /\ [d \in Dim |-> 0] \in ScanUse
  /\ ScanRequest \subseteq Usize \ {0}
  /\ 1 \in ScanRequest

VARIABLES
  token,              \* the caller's CancellationToken
  stopped,            \* Operation.stopped
  exceeded,           \* Accounting.exceeded: the first limit that was hit
  originalBytes,      \* SourceUsage.original_bytes
  fragments,          \* SourceUsage.fragments
  completedFragments, \* SourceUsage.completed_fragments
  engine,             \* SourceUsage.engine: units charged per dimension
  inexact,            \* SourceUsage.inexact
  reserved,           \* Accounting.reserved: units promised to running scans
  active,             \* Accounting.active: the number of running scans
  issues,             \* the number of retained source issues
  held                \* each worker's Reservation.reserved, None without one

counterVars == <<originalBytes, fragments, issues>>
scanVars == <<completedFragments, engine, inexact, reserved, active, held>>
stopVars == <<stopped, exceeded>>
accountingVars == <<token, stopVars, counterVars, scanVars>>

AccountingInit ==
  /\ token = FALSE
  /\ stopped = FALSE
  /\ exceeded = None
  /\ originalBytes = 0
  /\ fragments = 0
  /\ completedFragments = 0
  /\ engine = [d \in Dim |-> 0]
  /\ inexact = FALSE
  /\ reserved = [d \in Dim |-> 0]
  /\ active = 0
  /\ issues = 0
  /\ held = [w \in Worker |-> None]

-----------------------------------------------------------------------------
(* Cancellation and the internal stop.                                     *)

\* What sources, scans and workers poll: the caller's token or an internal stop.
IsCancelled == stopped \/ token

\* CancellationToken::cancel, by the caller or its timer, at any time.
Cancel ==
  /\ ~token
  /\ token' = TRUE
  /\ UNCHANGED <<stopVars, counterVars, scanVars>>

\* The store of `stopped` by a panicking worker's guard and by a failed spawn.
StopInternally ==
  /\ stopped' = TRUE
  /\ UNCHANGED <<token, exceeded, counterVars, scanVars>>

StopOverwrites(report) ==
  /\ exceeded' = report
  /\ stopped' = TRUE

\* Operation::stop keeps the first report it is given.
Stop(report) ==
  /\ exceeded' = IF exceeded = None THEN report ELSE exceeded
  /\ stopped' = TRUE

-----------------------------------------------------------------------------
(* Admission by the producer.                                              *)

\* limit.unwrap_or(usize::MAX)
Ceiling(limit) == IF limit = None THEN MaxUsize ELSE limit

\* The three checks of Operation::admit, in its order.
AdmissionCheck(bytes) ==
  << [scope |-> "Fragment", kind |-> "OriginalBytes",
      limit |-> Ceiling(MaxFragmentBytes), consumed |-> 0, requested |-> bytes],
     [scope |-> "Operation", kind |-> "OriginalBytes",
      limit |-> Ceiling(MaxOriginalBytes), consumed |-> originalBytes,
      requested |-> bytes],
     [scope |-> "Operation", kind |-> "Fragments",
      limit |-> Ceiling(MaxFragments), consumed |-> fragments, requested |-> 1] >>

SaturatingSub(a, b) == IF a >= b THEN a - b ELSE 0

OverLimit(report) == report.requested > SaturatingSub(report.limit, report.consumed)

Refusals(bytes) == {i \in 1 .. 3 : OverLimit(AdmissionCheck(bytes)[i])}

Admit(bytes) ==
  /\ ~IsCancelled
  /\ Refusals(bytes) = {}
  /\ originalBytes' = originalBytes + bytes
  /\ fragments' = fragments + 1
  /\ UNCHANGED <<token, stopVars, issues, scanVars>>

RefuseFragment(bytes) ==
  /\ ~IsCancelled
  /\ \E i \in Refusals(bytes) :
       /\ \A j \in Refusals(bytes) : i <= j
       /\ Stop(AdmissionCheck(bytes)[i])
  /\ UNCHANGED <<token, counterVars, scanVars>>

\* Operation::retain_issue keeps an issue, or stops at the issue limit.
RetainIssue ==
  /\ issues # MaxIssues
  /\ issues' = issues + 1
  /\ UNCHANGED <<token, stopVars, originalBytes, fragments, scanVars>>

RefuseIssue ==
  /\ issues = MaxIssues
  /\ Stop([scope |-> "Operation", kind |-> "Issues",
           limit |-> MaxIssues, consumed |-> MaxIssues, requested |-> 1])
  /\ UNCHANGED <<token, counterVars, scanVars>>

-----------------------------------------------------------------------------
(* Reservations.                                                           *)

Bounded == {d \in Dim : AggregateLimit[d] # None}

Available(d) == AggregateLimit[d] - engine[d] - reserved[d]

MustWaitOnlyWhenExhausted ==
  active # 0 /\ \E d \in Bounded : Available(d) = 0

\* A worker waits while another scan runs and less than a full fragment
\* allowance is free: the remainder goes to one scan at a time.
MustWait == active # 0 /\ \E d \in Bounded : Available(d) < FragmentLimit[d]

SmallerOf(a, b) == IF a <= b THEN a ELSE b

GrantWholeAllowance ==
  [d \in Dim |-> IF d \in Bounded THEN FragmentLimit[d] ELSE 0]

Grant ==
  [d \in Dim |-> IF d \in Bounded THEN SmallerOf(Available(d), FragmentLimit[d])
                                  ELSE 0]

\* The critical section of Operation::reserve that takes a reservation.
Reserve(w) ==
  /\ held[w] = None
  /\ ~MustWait
  /\ held' = [held EXCEPT ![w] = Grant]
  /\ reserved' = [d \in Dim |-> reserved[d] + Grant[d]]
  /\ active' = active + 1
  /\ UNCHANGED <<token, stopVars, counterVars, completedFragments, engine, inexact>>

\* Reservation.budget: the ceilings given to the engine for w's scan.
ScanLimit(w, d) == IF d \in Bounded THEN held[w][d] ELSE FragmentLimit[d]

-----------------------------------------------------------------------------
(* Settling a reservation with the outcome of the scan.                    *)

\* Dimensions whose running total would leave usize.
Overflowing(used) == {d \in Dim : engine[d] + used[d] > MaxUsize}

FirstOverflow(used) ==
  CHOOSE d \in Overflowing(used) :
    \A e \in Overflowing(used) : Ordinal[d] <= Ordinal[e]

OverflowReport(used) ==
  [scope |-> "Operation", kind |-> FirstOverflow(used), limit |-> MaxUsize,
   consumed |-> engine[FirstOverflow(used)], requested |-> used[FirstOverflow(used)]]

EngineAfterUnchecked(used) == [d \in Dim |-> engine[d] + used[d]]

EngineAfter(used) ==
  [d \in Dim |-> IF d \in Overflowing(used) THEN MaxUsize ELSE engine[d] + used[d]]

\* A scan refused below the fragment ceiling was limited by the aggregate:
\* the report then speaks of the operation's limit and total.
OperationLimited(excess) ==
  FragmentLimit[excess.kind] # None /\ excess.limit < FragmentLimit[excess.kind]

ScanReport(used, excess) ==
  IF OperationLimited(excess)
  THEN [scope |-> "Operation", kind |-> excess.kind,
        limit |-> IF AggregateLimit[excess.kind] = None
                  THEN excess.limit ELSE AggregateLimit[excess.kind],
        consumed |-> EngineAfter(used)[excess.kind],
        requested |-> excess.requested]
  ELSE [scope |-> "Fragment", kind |-> excess.kind, limit |-> excess.limit,
        consumed |-> excess.consumed, requested |-> excess.requested]

\* The reports one settlement gives to Operation::stop; the first one counts.
SettleStop(used, excess) ==
  IF Overflowing(used) # {} THEN Stop(OverflowReport(used))
  ELSE IF excess # None THEN Stop(ScanReport(used, excess))
  ELSE UNCHANGED stopVars

SettleKeepsActive(w, used, complete, excess) ==
  /\ held[w] # None
  /\ SettleStop(used, excess)
  /\ engine' = EngineAfter(used)
  /\ inexact' = (inexact \/ Overflowing(used) # {})
  /\ reserved' = [d \in Dim |-> reserved[d] - held[w][d]]
  /\ completedFragments' = completedFragments + (IF complete THEN 1 ELSE 0)
  /\ active' = active
  /\ held' = [held EXCEPT ![w] = None]
  /\ UNCHANGED <<token, counterVars>>

\* Reservation::settle.
Settle(w, used, complete, excess) ==
  /\ held[w] # None
  /\ SettleStop(used, excess)
  /\ engine' = EngineAfter(used)
  /\ inexact' = (inexact \/ Overflowing(used) # {})
  /\ reserved' = [d \in Dim |-> reserved[d] - held[w][d]]
  /\ completedFragments' = completedFragments + (IF complete THEN 1 ELSE 0)
  /\ active' = active - 1
  /\ held' = [held EXCEPT ![w] = None]
  /\ UNCHANGED <<token, counterVars>>

\* Drop of an unsettled Reservation: the scan panicked, so its whole
\* reservation is charged, usage becomes inexact and the operation stops.
Abandon(w) ==
  /\ held[w] # None
  /\ reserved' = [d \in Dim |-> reserved[d] - held[w][d]]
  /\ engine' = [d \in Dim |-> engine[d] + held[w][d]]
  /\ active' = active - 1
  /\ inexact' = TRUE
  /\ stopped' = TRUE
  /\ held' = [held EXCEPT ![w] = None]
  /\ UNCHANGED <<token, exceeded, counterVars, completedFragments>>

-----------------------------------------------------------------------------
(* What Engine::scan_fragment_controlled returns under a budget.           *)

\* charge_counter never lets a counter pass its limit.
WithinLimits(w, used) ==
  /\ held[w] # None
  /\ \A d \in Dim : ScanLimit(w, d) # None => used[d] <= ScanLimit(w, d)

ScanCompletes(w, used) ==
  /\ WithinLimits(w, used)
  /\ Settle(w, used, TRUE, None)

\* A scan is cut short only after its cancellation signal was raised.
ScanIsCancelled(w, used) ==
  /\ IsCancelled
  /\ WithinLimits(w, used)
  /\ Settle(w, used, FALSE, None)

\* A charge of `requested` more units of d was refused.
ScanExceeds(w, used, d, requested) ==
  /\ WithinLimits(w, used)
  /\ used[d] + requested > Ceiling(ScanLimit(w, d))
  /\ Settle(w, used, FALSE,
            [kind |-> d, limit |-> Ceiling(ScanLimit(w, d)),
             consumed |-> used[d], requested |-> requested])

-----------------------------------------------------------------------------

AccountingNext ==
  \/ Cancel
  \/ StopInternally
  \/ \E bytes \in FragmentBytes : Admit(bytes) \/ RefuseFragment(bytes)
  \/ RetainIssue
  \/ RefuseIssue
  \/ \E w \in Worker :
       \/ Reserve(w)
       \/ Abandon(w)
       \/ \E used \in ScanUse :
            \/ ScanCompletes(w, used)
            \/ ScanIsCancelled(w, used)
            \/ \E d \in Dim, requested \in ScanRequest :
                 ScanExceeds(w, used, d, requested)

AccountingSpec == AccountingInit /\ [][AccountingNext]_accountingVars

-----------------------------------------------------------------------------
(* Properties.                                                             *)

AccountingTypeOK ==
  /\ token \in BOOLEAN
  /\ stopped \in BOOLEAN
  /\ exceeded \in Report \cup {None}
  /\ originalBytes \in Usize
  /\ fragments \in Usize
  /\ completedFragments \in Nat
  /\ engine \in [Dim -> Usize]
  /\ inexact \in BOOLEAN
  /\ reserved \in [Dim -> Nat]
  /\ active \in Nat
  /\ issues \in Nat
  /\ held \in [Worker -> [Dim -> Usize] \cup {None}]

Holders == {w \in Worker : held[w] # None}

\* "Limits never multiply with the worker count" (budget.rs, SourceBudget):
\* what has been charged plus what running scans may still charge stays within
\* each aggregate limit, and every release subtracts no more than is reserved,
\* so the unsigned subtractions in reserve, settle and drop cannot underflow.
AggregateNeverExceeded ==
  /\ \A d \in Bounded : engine[d] + reserved[d] <= AggregateLimit[d]
  /\ \A w \in Holders : \A d \in Dim : held[w][d] <= reserved[d]
  /\ active = Cardinality(Holders)

\* No sequence of events is admitted beyond the operation's byte and fragment
\* limits, and the counters of an unlimited operation never wrap: the unchecked
\* additions in Operation::admit rely on the checks before them.
AdmissionStaysInBudget ==
  /\ originalBytes <= Ceiling(MaxOriginalBytes)
  /\ fragments <= Ceiling(MaxFragments)
  /\ MaxIssues # None => issues <= MaxIssues

\* Both kinds of limits of SourceBudget: what scans may use and what the producer
\* may admit, however many workers reserve, settle and drop meanwhile.
LimitsAreNeverPassed == AggregateNeverExceeded /\ AdmissionStaysInBudget

\* Whichever thread hits a limit first decides what is reported: no other thread
\* replaces the report, and nothing is admitted any more (Operation::stop, admit).
FirstLimitIsFinal ==
  [][exceeded # None => UNCHANGED <<exceeded, originalBytes, fragments>>]_accountingVars

\* In a bounded dimension the running scans either hold full fragment shares,
\* or one scan alone holds a smaller remainder and nothing is left beside it.
FullShares(d) ==
  /\ \A w \in Holders : held[w][d] = FragmentLimit[d]
  /\ reserved[d] = active * FragmentLimit[d]

SoleRemainder(d) ==
  \E w \in Worker :
    /\ Holders = {w}
    /\ held[w][d] < FragmentLimit[d]
    /\ reserved[d] = held[w][d]
    /\ engine[d] + reserved[d] = AggregateLimit[d]

\* The inductive invariant behind AggregateNeverExceeded and ExceededIsTruthful:
\* what reserve's waiting rule makes of the reservations that exist together.
ReservationInv ==
  /\ active = Cardinality(Holders)
  /\ \A d \in Bounded :
       /\ engine[d] + reserved[d] <= AggregateLimit[d]
       /\ FullShares(d) \/ SoleRemainder(d)
  /\ \A d \in Dim \ Bounded :
       /\ reserved[d] = 0
       /\ \A w \in Holders : held[w][d] = 0

LimitOf(scope, kind) ==
  Ceiling(CASE kind = "Fragments" -> MaxFragments
            [] kind = "Issues" -> MaxIssues
            [] kind = "OriginalBytes" /\ scope = "Fragment" -> MaxFragmentBytes
            [] kind = "OriginalBytes" /\ scope = "Operation" -> MaxOriginalBytes
            [] kind \in Dim /\ scope = "Fragment" -> FragmentLimit[kind]
            [] kind \in Dim /\ scope = "Operation" -> AggregateLimit[kind])

\* The report names a configured inclusive limit that the request really broke,
\* also when a scan that was given a remainder is reported against the aggregate
\* (budget.rs, SourceBudgetExceeded and Reservation::settle).
ExceededIsTruthful ==
  exceeded # None =>
    /\ stopped
    /\ exceeded.limit = LimitOf(exceeded.scope, exceeded.kind)
    /\ exceeded.consumed <= exceeded.limit
    /\ exceeded.consumed + exceeded.requested > exceeded.limit

=============================================================================
