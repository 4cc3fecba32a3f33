-------------------------- MODULE BudgetRunner_proofs --------------------------
(***************************************************************************)
(* Proofs about BudgetAccounting and BudgetRunner, for every number of     *)
(* workers, every queue capacity and every budget that                     *)
(* SourceBudget::validate accepts.  The first part is about the ledger     *)
(* alone.  The second shows that the threads of a budgeted run only ever   *)
(* take its steps, so what was shown of the ledger holds of the run.  The  *)
(* third is about fragments: where each admitted fragment is, how many of  *)
(* them can be unfinished, and that what a run reports is what happened to *)
(* them.                                                                   *)
(***************************************************************************)
EXTENDS BudgetRunner, FiniteSetTheorems, TLAPS

-----------------------------------------------------------------------------
(* Facts about the constants and the pure operators.                       *)

\* Limits are unsigned machine integers, or absent.
LEMMA LimitFacts ==
  /\ MaxUsize \in Nat \ {0}
  /\ \A d \in Bounded : AggregateLimit[d] \in Usize /\ FragmentLimit[d] \in Usize
  /\ \A d \in Dim : FragmentLimit[d] \in Usize \cup {None}
  /\ \A l \in Limit : Ceiling(l) \in Usize
  /\ Usize \subseteq Nat
  /\ None \notin Int
BY BudgetAssumption, NoneAssumption DEF Limit, Usize, Bounded, ValidBudget, Ceiling

\* The ceilings of the admission checks are unsigned machine integers.
LEMMA AdmissionCeilings ==
  /\ Ceiling(MaxFragmentBytes) \in Usize
  /\ Ceiling(MaxOriginalBytes) \in Usize
  /\ Ceiling(MaxFragments) \in Usize
BY LimitFacts, BudgetAssumption

\* A reservation is granted out of what is available and never beyond a fragment's
\* allowance.
LEMMA GrantFacts ==
  ASSUME AccountingTypeOK,
         \A d \in Bounded : engine[d] + reserved[d] <= AggregateLimit[d]
  PROVE  /\ Grant \in [Dim -> Usize]
         /\ \A d \in Bounded : /\ Available(d) \in Nat
                               /\ Grant[d] <= Available(d)
                               /\ Grant[d] <= FragmentLimit[d]
                               /\ \/ Grant[d] = FragmentLimit[d]
                                  \/ Grant[d] = Available(d)
         /\ \A d \in Dim \ Bounded : Grant[d] = 0
<1>1. \A d \in Bounded : Available(d) \in Nat
  BY LimitFacts DEF AccountingTypeOK, Available, Usize, Bounded
<1>2. \A d \in Bounded : /\ SmallerOf(Available(d), FragmentLimit[d]) \in Usize
                         /\ SmallerOf(Available(d), FragmentLimit[d]) <= Available(d)
                         /\ SmallerOf(Available(d), FragmentLimit[d]) <= FragmentLimit[d]
                         /\ \/ SmallerOf(Available(d), FragmentLimit[d]) = FragmentLimit[d]
                            \/ SmallerOf(Available(d), FragmentLimit[d]) = Available(d)
  BY <1>1, LimitFacts DEF SmallerOf, Usize
<1>3. 0 \in Usize
  BY LimitFacts DEF Usize
<1>4. \A d \in Dim : Grant[d] = IF d \in Bounded
                                THEN SmallerOf(Available(d), FragmentLimit[d]) ELSE 0
  BY DEF Grant
<1>5. Grant \in [Dim -> Usize]
  BY <1>2, <1>3 DEF Grant
<1>6. Bounded \subseteq Dim
  BY DEF Bounded
<1> QED
  BY <1>1, <1>2, <1>4, <1>5, <1>6

\* The reports of the admission checks are well formed.
LEMMA AdmissionCheckType ==
  ASSUME AccountingTypeOK, NEW bytes \in FragmentBytes, NEW i \in 1 .. 3
  PROVE  AdmissionCheck(bytes)[i] \in Report
<1>1. /\ bytes \in Usize /\ 0 \in Usize /\ 1 \in Usize
      /\ originalBytes \in Usize /\ fragments \in Usize
  BY InputAssumption, LimitFacts DEF AccountingTypeOK, Usize
<1>2. CASE i = 1
  BY <1>1, <1>2, AdmissionCeilings DEF AdmissionCheck, Report, Scope, Kind
<1>3. CASE i = 2
  BY <1>1, <1>3, AdmissionCeilings DEF AdmissionCheck, Report, Scope, Kind
<1>4. CASE i = 3
  BY <1>1, <1>4, AdmissionCeilings DEF AdmissionCheck, Report, Scope, Kind
<1> QED
  BY <1>2, <1>3, <1>4

\* Operation::stop keeps the accounting's stop state well formed.
LEMMA StopType ==
  ASSUME AccountingTypeOK, NEW report \in Report, Stop(report)
  PROVE  stopped' \in BOOLEAN /\ exceeded' \in Report \cup {None}
BY DEF AccountingTypeOK, Stop

-----------------------------------------------------------------------------
(* Settlements.                                                            *)

\* What a scan that keeps within its limits may charge fits its reservation.
LEMMA ScanFitsReservation ==
  ASSUME NEW w \in Worker, NEW used \in [Dim -> Usize], WithinLimits(w, used),
         AccountingTypeOK, held[w] # None
  PROVE  \A d \in Bounded : used[d] <= held[w][d]
<1>1. held[w] \in [Dim -> Usize]
  BY DEF AccountingTypeOK
<1>2. \A d \in Bounded : held[w][d] # None
  BY <1>1, LimitFacts DEF Bounded, Usize
<1> QED
  BY <1>2 DEF WithinLimits, ScanLimit, Bounded

\* No dimension with an aggregate limit can overflow.
LEMMA BoundedNeverOverflows ==
  ASSUME NEW w \in Worker, NEW used \in [Dim -> Usize], WithinLimits(w, used),
         AccountingTypeOK, AggregateNeverExceeded, held[w] # None
  PROVE  \A d \in Bounded : /\ d \notin Overflowing(used)
                            /\ EngineAfter(used)[d] = engine[d] + used[d]
<1> SUFFICES ASSUME NEW d \in Bounded
             PROVE  /\ d \notin Overflowing(used)
                    /\ EngineAfter(used)[d] = engine[d] + used[d]
  OBVIOUS
<1>1. used[d] <= held[w][d]
  BY ScanFitsReservation
<1>2. held[w][d] <= reserved[d] /\ engine[d] + reserved[d] <= AggregateLimit[d]
  BY DEF AggregateNeverExceeded, Holders, Bounded
<1>3. /\ held[w][d] \in Nat /\ reserved[d] \in Nat /\ engine[d] \in Nat
      /\ used[d] \in Nat /\ AggregateLimit[d] \in Nat
      /\ AggregateLimit[d] <= MaxUsize /\ d \in Dim
  BY LimitFacts DEF AccountingTypeOK, Usize, Bounded
<1>4. ~(engine[d] + used[d] > MaxUsize)
  BY <1>1, <1>2, <1>3, LimitFacts
<1> QED
  BY <1>3, <1>4 DEF Overflowing, EngineAfter

\* Totals stay machine integers: an overflow saturates.
LEMMA EngineAfterType ==
  ASSUME NEW used \in [Dim -> Usize], AccountingTypeOK
  PROVE  EngineAfter(used) \in [Dim -> Usize]
BY LimitFacts DEF EngineAfter, Overflowing, AccountingTypeOK, Usize

\* The first overflowing dimension exists when one overflows.
LEMMA FirstOverflowExists ==
  ASSUME NEW used, Overflowing(used) # {}
  PROVE  FirstOverflow(used) \in Overflowing(used)
<1>1. Overflowing(used) \subseteq Dim
  BY DEF Overflowing
<1>2. \A d \in Dim : Ordinal[d] \in Int
  BY DEF Dim, Ordinal
<1>3. \E d \in Overflowing(used) :
        \A e \in Overflowing(used) : Ordinal[d] <= Ordinal[e]
  BY <1>1, <1>2 DEF Dim, Ordinal
<1> QED
  BY <1>3 DEF FirstOverflow

-----------------------------------------------------------------------------
(* The set of running scans.                                               *)

\* Every running scan is counted in `active`.
LEMMA HoldersFacts ==
  /\ IsFiniteSet(Holders)
  /\ Cardinality(Holders) \in Nat
  /\ \A w \in Holders : Cardinality(Holders) >= 1
<1>1. Holders \in SUBSET Worker
  BY DEF Holders
<1>2. IsFiniteSet(Holders)
  BY <1>1, FS_Subset, BudgetAssumption
<1>3. Cardinality(Holders) \in Nat
  BY <1>2, FS_CardinalityType
<1>4. Holders # {} => Cardinality(Holders) # 0
  BY <1>2, FS_EmptySet
<1> QED
  BY <1>2, <1>3, <1>4

\* Multiplication by a count, one share more and one share fewer.
LEMMA Shares ==
  ASSUME NEW n \in Nat, NEW f \in Nat
  PROVE  /\ n * f \in Nat
         /\ (n + 1) * f = n * f + f
         /\ n >= 1 => (n - 1) * f = n * f - f /\ f <= n * f
<1>1. n * f \in Nat /\ (n + 1) * f = n * f + f
  OBVIOUS
<1>2. ASSUME n >= 1 PROVE (n - 1) * f = n * f - f /\ f <= n * f
  <2>1. n - 1 \in Nat
    BY <1>2
  <2>2. (n - 1) * f \in Nat
    BY <2>1
  <2>3. (n - 1) * f = n * f - f
    BY <2>1
  <2> QED
    BY <1>1, <2>2, <2>3
<1> QED
  BY <1>1, <1>2

\* The reservation invariant gives the bound on the aggregate.
LEMMA ReservationsFit ==
  ASSUME AccountingTypeOK, ReservationInv
  PROVE  AggregateNeverExceeded
<1>1. ASSUME NEW w \in Holders, NEW d \in Bounded
      PROVE  held[w][d] <= reserved[d]
  <2>1. FragmentLimit[d] \in Nat /\ active \in Nat /\ active >= 1
    BY <1>1, HoldersFacts, LimitFacts DEF ReservationInv, Usize
  <2>2. CASE FullShares(d)
    BY <1>1, <2>1, <2>2, Shares DEF FullShares
  <2>3. CASE SoleRemainder(d)
    <3>1. PICK v \in Worker : Holders = {v} /\ reserved[d] = held[v][d]
      BY <2>3 DEF SoleRemainder
    <3>2. w = v /\ reserved[d] \in Nat
      BY <1>1, <3>1 DEF AccountingTypeOK, Bounded
    <3> QED
      BY <3>1, <3>2
  <2> QED
    BY <1>1, <2>2, <2>3 DEF ReservationInv
<1>2. ASSUME NEW w \in Holders, NEW d \in Dim \ Bounded
      PROVE  held[w][d] <= reserved[d]
  BY <1>2 DEF ReservationInv
<1> QED
  BY <1>1, <1>2 DEF AggregateNeverExceeded, ReservationInv

-----------------------------------------------------------------------------
(* Steps that leave reservations alone.                                    *)

\* The reservation invariant speaks of scanVars only.
LEMMA ReservationsUntouched ==
  ASSUME ReservationInv, UNCHANGED scanVars
  PROVE  ReservationInv'
<1>1. /\ held' = held /\ reserved' = reserved /\ active' = active /\ engine' = engine
      /\ Holders' = Holders
  BY DEF scanVars, Holders
<1>2. \A d \in Bounded : (FullShares(d) => FullShares(d)')
                       /\ (SoleRemainder(d) => SoleRemainder(d)')
  BY <1>1 DEF FullShares, SoleRemainder
<1> QED
  BY <1>1, <1>2 DEF ReservationInv, Bounded

\* Keeping the first report keeps a true report.
LEMMA StopTruthful ==
  ASSUME ExceededIsTruthful, NEW report, Stop(report),
         /\ report.limit = LimitOf(report.scope, report.kind)
         /\ report.consumed <= report.limit
         /\ report.consumed + report.requested > report.limit
  PROVE  ExceededIsTruthful'
<1>1. \A scope, kind : LimitOf(scope, kind)' = LimitOf(scope, kind)
  BY DEF LimitOf, Ceiling
<1> QED
  BY <1>1 DEF ExceededIsTruthful, Stop

\* A report that was not touched stays true.
LEMMA UnstoppedTruthful ==
  ASSUME ExceededIsTruthful, exceeded' = exceeded, stopped => stopped'
  PROVE  ExceededIsTruthful'
BY DEF ExceededIsTruthful, LimitOf, Ceiling

\* A refused fragment is reported against the limit that refused it.
LEMMA RefusalTruthful ==
  ASSUME AccountingTypeOK, AdmissionStaysInBudget, NEW bytes \in FragmentBytes,
         NEW i \in Refusals(bytes)
  PROVE  LET report == AdmissionCheck(bytes)[i]
         IN  /\ report.limit = LimitOf(report.scope, report.kind)
             /\ report.consumed <= report.limit
             /\ report.consumed + report.requested > report.limit
<1>1. /\ bytes \in Nat /\ originalBytes \in Nat /\ fragments \in Nat
      /\ Ceiling(MaxFragmentBytes) \in Nat
      /\ Ceiling(MaxOriginalBytes) \in Nat
      /\ Ceiling(MaxFragments) \in Nat
  BY InputAssumption, AdmissionCeilings, LimitFacts DEF AccountingTypeOK, Usize
<1>2. i \in 1 .. 3 /\ OverLimit(AdmissionCheck(bytes)[i])
  BY DEF Refusals
<1>3. CASE i = 1
  BY <1>1, <1>2, <1>3 DEF AdmissionCheck, OverLimit, SaturatingSub, LimitOf, Dim
<1>4. CASE i = 2
  BY <1>1, <1>2, <1>4 DEF AdmissionCheck, OverLimit, SaturatingSub, LimitOf, Dim,
                          AdmissionStaysInBudget
<1>5. CASE i = 3
  BY <1>1, <1>2, <1>5 DEF AdmissionCheck, OverLimit, SaturatingSub, LimitOf, Dim,
                          AdmissionStaysInBudget
<1> QED
  BY <1>2, <1>3, <1>4, <1>5

-----------------------------------------------------------------------------
(* The invariant of the accounting, and what each step does to it.         *)

AccountingInv ==
  AccountingTypeOK /\ ReservationInv /\ AdmissionStaysInBudget /\ ExceededIsTruthful

\* Nothing is charged, reserved or admitted at the start.
LEMMA InitialAccounting ==
  ASSUME AccountingInit PROVE AccountingInv
<1>1. Holders = {} /\ Cardinality(Holders) = 0
  BY FS_EmptySet DEF AccountingInit, Holders
<1>2. AccountingTypeOK
  <2>1. 0 \in Usize
    BY LimitFacts DEF Usize
  <2>2. held \in [Worker -> [Dim -> Usize] \cup {None}]
    BY DEF AccountingInit
  <2>3. engine \in [Dim -> Usize] /\ reserved \in [Dim -> Nat]
    BY <2>1 DEF AccountingInit
  <2> QED
    BY <2>1, <2>2, <2>3 DEF AccountingInit, AccountingTypeOK
<1>3. ReservationInv
  <2>1. \A d \in Bounded : d \in Dim /\ AggregateLimit[d] \in Nat /\ FragmentLimit[d] \in Nat
    BY LimitFacts DEF Bounded, Usize
  <2>2. \A d \in Dim : reserved[d] = 0 /\ engine[d] = 0
    BY DEF AccountingInit
  <2>3. active = 0
    BY DEF AccountingInit
  <2>4. \A d \in Bounded : FullShares(d)
    BY <1>1, <2>1, <2>2, <2>3, Shares DEF FullShares
  <2> QED
    BY <1>1, <2>1, <2>2, <2>3, <2>4 DEF ReservationInv
<1>4. AdmissionStaysInBudget
  <2>1. MaxIssues # None => MaxIssues \in Nat
    BY BudgetAssumption, LimitFacts DEF Limit
  <2> QED
    BY <2>1, AdmissionCeilings DEF AccountingInit, AdmissionStaysInBudget, Usize
<1>5. ExceededIsTruthful
  BY DEF AccountingInit, ExceededIsTruthful
<1> QED
  BY <1>2, <1>3, <1>4, <1>5 DEF AccountingInv

\* The caller's cancellation.
LEMMA CancelStep ==
  ASSUME AccountingInv, Cancel PROVE AccountingInv'
<1>1. AccountingTypeOK'
  BY DEF AccountingInv, AccountingTypeOK, Cancel, stopVars, counterVars, scanVars
<1>2. ReservationInv'
  BY ReservationsUntouched DEF AccountingInv, Cancel
<1>3. AdmissionStaysInBudget'
  BY DEF AccountingInv, AdmissionStaysInBudget, Cancel, counterVars, Ceiling
<1>4. ExceededIsTruthful'
  BY UnstoppedTruthful DEF AccountingInv, Cancel, stopVars
<1> QED
  BY <1>1, <1>2, <1>3, <1>4 DEF AccountingInv

\* The store of `stopped` alone.
LEMMA StopInternallyStep ==
  ASSUME AccountingInv, StopInternally PROVE AccountingInv'
<1>1. AccountingTypeOK'
  BY DEF AccountingInv, AccountingTypeOK, StopInternally, counterVars, scanVars
<1>2. ReservationInv'
  BY ReservationsUntouched DEF AccountingInv, StopInternally
<1>3. AdmissionStaysInBudget'
  BY DEF AccountingInv, AdmissionStaysInBudget, StopInternally, counterVars, Ceiling
<1>4. ExceededIsTruthful'
  BY UnstoppedTruthful DEF AccountingInv, StopInternally
<1> QED
  BY <1>1, <1>2, <1>3, <1>4 DEF AccountingInv

\* A fragment admitted within every limit leaves the totals within them.
LEMMA AdmitStep ==
  ASSUME AccountingInv, NEW bytes \in FragmentBytes, Admit(bytes)
  PROVE  AccountingInv'
<1>1. /\ bytes \in Nat /\ originalBytes \in Nat /\ fragments \in Nat
      /\ originalBytes <= Ceiling(MaxOriginalBytes)
      /\ fragments <= Ceiling(MaxFragments)
      /\ Ceiling(MaxOriginalBytes) \in Nat /\ Ceiling(MaxOriginalBytes) <= MaxUsize
      /\ Ceiling(MaxFragments) \in Nat /\ Ceiling(MaxFragments) <= MaxUsize
  BY InputAssumption, AdmissionCeilings, LimitFacts
     DEF AccountingInv, AdmissionStaysInBudget, AccountingTypeOK, Usize
<1>2. ~OverLimit(AdmissionCheck(bytes)[2]) /\ ~OverLimit(AdmissionCheck(bytes)[3])
  BY DEF Admit, Refusals
<1>3. originalBytes + bytes <= Ceiling(MaxOriginalBytes)
  BY <1>1, <1>2 DEF AdmissionCheck, OverLimit, SaturatingSub
<1>4. fragments + 1 <= Ceiling(MaxFragments)
  BY <1>1, <1>2 DEF AdmissionCheck, OverLimit, SaturatingSub
<1>5. originalBytes' \in Usize /\ fragments' \in Usize
  BY <1>1, <1>3, <1>4, LimitFacts DEF Admit, Usize
<1>6. AccountingTypeOK'
  BY <1>5 DEF AccountingInv, AccountingTypeOK, Admit, stopVars, scanVars
<1>7. ReservationInv'
  BY ReservationsUntouched DEF AccountingInv, Admit
<1>8. AdmissionStaysInBudget'
  BY <1>3, <1>4 DEF AccountingInv, AdmissionStaysInBudget, Admit, Ceiling
<1>9. ExceededIsTruthful'
  BY UnstoppedTruthful DEF AccountingInv, Admit, stopVars
<1> QED
  BY <1>6, <1>7, <1>8, <1>9 DEF AccountingInv

\* A refused fragment changes only the stop state.
LEMMA RefuseFragmentStep ==
  ASSUME AccountingInv, NEW bytes \in FragmentBytes, RefuseFragment(bytes)
  PROVE  AccountingInv'
<1>1. PICK i \in Refusals(bytes) : Stop(AdmissionCheck(bytes)[i])
  BY DEF RefuseFragment
<1>2. i \in 1 .. 3
  BY DEF Refusals
<1>3. AdmissionCheck(bytes)[i] \in Report
  BY <1>2, AdmissionCheckType DEF AccountingInv
<1>4. AccountingTypeOK'
  BY <1>1, <1>3, StopType
     DEF AccountingInv, AccountingTypeOK, RefuseFragment, counterVars, scanVars
<1>5. ReservationInv'
  BY ReservationsUntouched DEF AccountingInv, RefuseFragment
<1>6. AdmissionStaysInBudget'
  BY DEF AccountingInv, AdmissionStaysInBudget, RefuseFragment, counterVars, Ceiling
<1>7. ExceededIsTruthful'
  BY <1>1, RefusalTruthful, StopTruthful DEF AccountingInv
<1> QED
  BY <1>4, <1>5, <1>6, <1>7 DEF AccountingInv

\* An issue is kept.
LEMMA RetainIssueStep ==
  ASSUME AccountingInv, RetainIssue PROVE AccountingInv'
<1>1. AccountingTypeOK'
  BY DEF AccountingInv, AccountingTypeOK, RetainIssue, stopVars, scanVars
<1>2. ReservationInv'
  BY ReservationsUntouched DEF AccountingInv, RetainIssue
<1>3. AdmissionStaysInBudget'
  <2>1. MaxIssues # None => MaxIssues \in Nat
    BY BudgetAssumption, LimitFacts DEF Limit
  <2>2. issues \in Nat /\ issues # MaxIssues /\ issues' = issues + 1
    BY DEF AccountingInv, AccountingTypeOK, RetainIssue
  <2>3. MaxIssues # None => issues' <= MaxIssues
    BY <2>1, <2>2 DEF AccountingInv, AdmissionStaysInBudget
  <2> QED
    BY <2>3 DEF AccountingInv, AdmissionStaysInBudget, RetainIssue, Ceiling
<1>4. ExceededIsTruthful'
  BY UnstoppedTruthful DEF AccountingInv, RetainIssue, stopVars
<1> QED
  BY <1>1, <1>2, <1>3, <1>4 DEF AccountingInv

\* The issue limit is reached.
LEMMA RefuseIssueStep ==
  ASSUME AccountingInv, RefuseIssue PROVE AccountingInv'
<1> DEFINE report == [scope |-> "Operation", kind |-> "Issues", limit |-> MaxIssues,
                      consumed |-> MaxIssues, requested |-> 1]
<1>1. MaxIssues \in Usize /\ MaxIssues # None /\ 1 \in Usize
  <2>1. issues \in Nat /\ issues = MaxIssues
    BY DEF AccountingInv, AccountingTypeOK, RefuseIssue
  <2> QED
    BY <2>1, BudgetAssumption, LimitFacts DEF Limit, Usize
<1>2. Stop(report)
  BY DEF RefuseIssue
<1>3. report \in Report
  BY <1>1 DEF Report, Scope, Kind
<1>4. AccountingTypeOK'
  BY <1>2, <1>3, StopType
     DEF AccountingInv, AccountingTypeOK, RefuseIssue, counterVars, scanVars
<1>5. ReservationInv'
  BY ReservationsUntouched DEF AccountingInv, RefuseIssue
<1>6. AdmissionStaysInBudget'
  BY DEF AccountingInv, AdmissionStaysInBudget, RefuseIssue, counterVars, Ceiling
<1>7. /\ report.limit = LimitOf(report.scope, report.kind)
      /\ report.consumed <= report.limit
      /\ report.consumed + report.requested > report.limit
  BY <1>1, LimitFacts DEF LimitOf, Ceiling, Dim, Usize
<1>8. ExceededIsTruthful'
  BY <1>2, <1>7, StopTruthful DEF AccountingInv
<1> QED
  BY <1>4, <1>5, <1>6, <1>8 DEF AccountingInv

-----------------------------------------------------------------------------
(* Taking a reservation.                                                   *)

\* A worker that need not wait while scans run finds full shares everywhere and
\* takes a full share; a worker that is alone takes a full share or the rest.
LEMMA ReserveShares ==
  ASSUME AccountingTypeOK, ReservationInv, NEW w \in Worker, Reserve(w),
         NEW d \in Bounded, Holders' = Holders \cup {w}, w \notin Holders
  PROVE  /\ engine'[d] + reserved'[d] <= AggregateLimit[d]
         /\ FullShares(d)' \/ SoleRemainder(d)'
<1>1. /\ d \in Dim /\ AggregateLimit[d] \in Nat /\ FragmentLimit[d] \in Nat
      /\ engine[d] \in Nat /\ reserved[d] \in Nat /\ active \in Nat
  BY LimitFacts DEF AccountingTypeOK, Bounded, Usize
<1>2. /\ Grant[d] \in Nat /\ Grant[d] <= Available(d) /\ Available(d) \in Nat
      /\ \/ Grant[d] = FragmentLimit[d]
         \/ Grant[d] < FragmentLimit[d] /\ Grant[d] = Available(d)
  BY GrantFacts, LimitFacts, <1>1 DEF ReservationInv, Usize
<1>3. /\ engine' = engine /\ reserved'[d] = reserved[d] + Grant[d]
      /\ active' = active + 1
  BY <1>1 DEF Reserve
<1>4. /\ held'[w] = Grant
      /\ \A v \in Holders : held'[v] = held[v] /\ v \in Worker
  BY DEF Reserve, AccountingTypeOK, Holders
<1>5. engine'[d] + reserved'[d] <= AggregateLimit[d]
  BY <1>1, <1>2, <1>3 DEF Available
<1>6. CASE active = 0
  <2>1. Holders = {} /\ reserved[d] = 0
    <3>1. Holders = {}
      BY <1>6, HoldersFacts, FS_EmptySet DEF ReservationInv
    <3>2. FullShares(d)
      BY <3>1 DEF ReservationInv, SoleRemainder
    <3> QED
      BY <1>1, <1>6, <3>1, <3>2, Shares DEF FullShares
  <2>2. Holders' = {w} /\ active' = 1 /\ reserved'[d] = Grant[d]
    BY <1>1, <1>2, <1>3, <1>6, <2>1
  <2>3. CASE Grant[d] = FragmentLimit[d]
    <3>1. reserved'[d] = active' * FragmentLimit[d]
      BY <1>1, <2>2, <2>3
    <3>2. \A v \in Holders' : held'[v][d] = FragmentLimit[d]
      BY <1>4, <2>2, <2>3
    <3> QED
      BY <1>5, <3>1, <3>2 DEF FullShares
  <2>4. CASE Grant[d] < FragmentLimit[d] /\ Grant[d] = Available(d)
    <3>1. engine'[d] + reserved'[d] = AggregateLimit[d]
      BY <1>1, <1>2, <1>3, <2>1, <2>4 DEF Available
    <3>2. held'[w][d] = Grant[d]
      BY <1>4
    <3> QED
      BY <1>5, <2>2, <2>4, <3>1, <3>2 DEF SoleRemainder
  <2> QED
    BY <1>2, <1>5, <2>3, <2>4
<1>7. CASE active # 0
  <2>1. ~(Available(d) < FragmentLimit[d])
    BY <1>7 DEF Reserve, MustWait
  <2>2. Grant[d] = FragmentLimit[d]
    BY <1>1, <1>2, <2>1
  <2>3. FullShares(d)
    <3>1. ASSUME SoleRemainder(d) PROVE FALSE
      <4>1. PICK v \in Worker : /\ Holders = {v} /\ held[v][d] < FragmentLimit[d]
                                /\ engine[d] + reserved[d] = AggregateLimit[d]
                                /\ reserved[d] = held[v][d]
        BY <3>1 DEF SoleRemainder
      <4>2. Available(d) = 0 /\ FragmentLimit[d] > 0
        BY <1>1, <4>1 DEF Available
      <4> QED
        BY <2>1, <4>2
    <3> QED
      BY <3>1 DEF ReservationInv
  <2>4. reserved'[d] = active' * FragmentLimit[d]
    BY <1>1, <1>3, <2>2, <2>3, Shares DEF FullShares
  <2>5. \A v \in Holders' : held'[v][d] = FragmentLimit[d]
    BY <1>4, <2>2, <2>3 DEF FullShares
  <2> QED
    BY <1>5, <2>4, <2>5 DEF FullShares
<1> QED
  BY <1>6, <1>7

\* Taking a reservation keeps the ledger: reserve grants full shares, or, to a scan that is
\* alone, the remainder.
LEMMA ReserveStep ==
  ASSUME AccountingInv, NEW w \in Worker, Reserve(w)
  PROVE  AccountingInv'
<1>1. Grant \in [Dim -> Usize] /\ \A d \in Dim \ Bounded : Grant[d] = 0
  BY GrantFacts DEF AccountingInv, ReservationInv
<1>2. Grant # None
  BY <1>1, NoneAssumption DEF Usize
<1>3. w \notin Holders /\ Holders' = Holders \cup {w}
  BY <1>2 DEF Reserve, Holders, AccountingInv, AccountingTypeOK
<1>4. AccountingTypeOK'
  <2>1. held' \in [Worker -> [Dim -> Usize] \cup {None}]
    BY <1>1 DEF Reserve, AccountingInv, AccountingTypeOK
  <2>2. reserved' \in [Dim -> Nat]
    BY <1>1, LimitFacts DEF Reserve, AccountingInv, AccountingTypeOK, Usize
  <2> QED
    BY <2>1, <2>2 DEF Reserve, AccountingInv, AccountingTypeOK, stopVars, counterVars
<1>5. ReservationInv'
  <2>1. active' = Cardinality(Holders)'
    BY <1>3, HoldersFacts, FS_AddElement DEF Reserve, AccountingInv, ReservationInv
  <2>2. \A d \in Bounded : /\ engine'[d] + reserved'[d] <= AggregateLimit[d]
                           /\ FullShares(d)' \/ SoleRemainder(d)'
    BY <1>3, ReserveShares DEF AccountingInv
  <2>3. ASSUME NEW d \in Dim \ Bounded
        PROVE  reserved'[d] = 0 /\ \A v \in Holders' : held'[v][d] = 0
    <3>1. reserved'[d] = reserved[d] + Grant[d] /\ reserved[d] = 0 /\ Grant[d] = 0
      BY <1>1 DEF Reserve, AccountingInv, ReservationInv
    <3>2. held'[w] = Grant /\ \A v \in Holders : held'[v] = held[v]
      BY <1>3 DEF Reserve, AccountingInv, AccountingTypeOK, Holders
    <3> QED
      BY <1>1, <1>3, <3>1, <3>2 DEF AccountingInv, ReservationInv
  <2> QED
    BY <2>1, <2>2, <2>3 DEF ReservationInv, Bounded
<1>6. AdmissionStaysInBudget'
  BY DEF AccountingInv, AdmissionStaysInBudget, Reserve, counterVars, Ceiling
<1>7. ExceededIsTruthful'
  BY UnstoppedTruthful DEF AccountingInv, Reserve, stopVars
<1> QED
  BY <1>4, <1>5, <1>6, <1>7 DEF AccountingInv

-----------------------------------------------------------------------------
(* Giving a reservation back.                                              *)

\* The release that settle and drop share: the reservation goes, and at most
\* what it held is charged in its place.
Release(w, charged) ==
  /\ held[w] # None
  /\ held' = [held EXCEPT ![w] = None]
  /\ reserved' = [d \in Dim |-> reserved[d] - held[w][d]]
  /\ active' = active - 1
  /\ \A d \in Bounded : /\ engine'[d] = engine[d] + charged[d]
                         /\ charged[d] <= held[w][d]

\* Returning a reservation keeps the shape of those that remain, when no more than was held
\* has been charged for it (settle and the drop of a Reservation).
LEMMA ReleaseKeepsReservations ==
  ASSUME AccountingTypeOK, ReservationInv, NEW w \in Worker,
         NEW charged \in [Dim -> Usize], Release(w, charged)
  PROVE  ReservationInv' /\ active' \in Nat /\ reserved' \in [Dim -> Nat]
<1>1. w \in Holders /\ Holders' = Holders \ {w}
  BY DEF Release, Holders, AccountingTypeOK
<1>2. active' = Cardinality(Holders') /\ active >= 1 /\ active \in Nat
  BY <1>1, HoldersFacts, FS_RemoveElement DEF Release, ReservationInv, AccountingTypeOK
<1>3. \A v \in Holders' : held'[v] = held[v]
  BY <1>1 DEF Release, AccountingTypeOK, Holders
<1>4. held[w] \in [Dim -> Usize]
  BY <1>1 DEF AccountingTypeOK, Holders
<1>5. \A d \in Dim : held[w][d] <= reserved[d]
  BY <1>1, ReservationsFit DEF AggregateNeverExceeded
<1>6. reserved' \in [Dim -> Nat]
  BY <1>4, <1>5, LimitFacts DEF Release, AccountingTypeOK, Usize
<1>7. ASSUME NEW d \in Bounded
      PROVE  /\ engine'[d] + reserved'[d] <= AggregateLimit[d]
             /\ FullShares(d)' \/ SoleRemainder(d)'
  <2>1. /\ d \in Dim /\ AggregateLimit[d] \in Nat /\ FragmentLimit[d] \in Nat
        /\ engine[d] \in Nat /\ reserved[d] \in Nat /\ held[w][d] \in Nat
        /\ charged[d] \in Nat
    BY <1>4, LimitFacts DEF AccountingTypeOK, Bounded, Usize
  <2>2. /\ engine'[d] = engine[d] + charged[d] /\ charged[d] <= held[w][d]
        /\ reserved'[d] = reserved[d] - held[w][d] /\ active' = active - 1
    BY <2>1 DEF Release
  <2>3. engine'[d] + reserved'[d] <= AggregateLimit[d]
    BY <2>1, <2>2 DEF ReservationInv
  <2>4. CASE FullShares(d)
    <3>1. held[w][d] = FragmentLimit[d] /\ reserved[d] = active * FragmentLimit[d]
      BY <1>1, <2>4 DEF FullShares
    <3>2. reserved'[d] = active' * FragmentLimit[d]
      BY <1>2, <2>1, <2>2, <3>1, Shares
    <3> QED
      BY <1>1, <1>3, <2>3, <2>4, <3>2 DEF FullShares
  <2>5. CASE SoleRemainder(d)
    <3>1. Holders = {w} /\ reserved[d] = held[w][d]
      BY <1>1, <2>5 DEF SoleRemainder
    <3>2. Holders' = {}
      BY <1>1, <3>1
    <3>3. active' = 0
      BY <1>2, <3>2, FS_EmptySet
    <3>4. reserved'[d] = 0
      BY <2>1, <2>2, <3>1
    <3> QED
      BY <2>1, <2>3, <3>2, <3>3, <3>4 DEF FullShares
  <2> QED
    BY <2>4, <2>5 DEF ReservationInv
<1>8. ASSUME NEW d \in Dim \ Bounded
      PROVE  reserved'[d] = 0 /\ \A v \in Holders' : held'[v][d] = 0
  BY <1>1, <1>3, <1>8 DEF Release, ReservationInv
<1>9. ReservationInv'
  BY <1>2, <1>7, <1>8 DEF ReservationInv, Bounded
<1> QED
  BY <1>2, <1>6, <1>9 DEF Release

\* A refused charge of the scan that worker w runs.
RefusedCharge(w, used, excess) ==
  /\ excess.kind \in Dim
  /\ excess.limit = Ceiling(ScanLimit(w, excess.kind))
  /\ excess.consumed = used[excess.kind]
  /\ excess.requested \in Usize \ {0}
  /\ used[excess.kind] + excess.requested > excess.limit

TrueReport(report) ==
  /\ report \in Report
  /\ report.limit = LimitOf(report.scope, report.kind)
  /\ report.consumed <= report.limit
  /\ report.consumed + report.requested > report.limit

\* Only a dimension without limits can overflow, and it is reported as such.
LEMMA OverflowReportTrue ==
  ASSUME AccountingInv, NEW w \in Worker, NEW used \in [Dim -> Usize],
         held[w] # None, WithinLimits(w, used), Overflowing(used) # {}
  PROVE  TrueReport(OverflowReport(used))
<1> DEFINE d == FirstOverflow(used)
<1>1. AggregateNeverExceeded
  BY ReservationsFit DEF AccountingInv
<1>2. d \in Overflowing(used) /\ d \in Dim
  BY FirstOverflowExists DEF Overflowing
<1>3. d \notin Bounded
  BY <1>1, <1>2, BoundedNeverOverflows DEF AccountingInv
<1>4. LimitOf("Operation", d) = MaxUsize
  BY <1>2, <1>3 DEF LimitOf, Ceiling, Bounded, Dim
<1>5. engine[d] \in Usize /\ used[d] \in Usize /\ MaxUsize \in Usize
  BY <1>2, LimitFacts DEF AccountingInv, AccountingTypeOK, Usize
<1>6. engine[d] + used[d] > MaxUsize /\ engine[d] <= MaxUsize
  BY <1>2, <1>5 DEF Overflowing, Usize
<1>7. OverflowReport(used) = [scope |-> "Operation", kind |-> d, limit |-> MaxUsize,
                              consumed |-> engine[d], requested |-> used[d]]
  BY DEF OverflowReport
<1> HIDE DEF d
<1> QED
  BY <1>2, <1>4, <1>5, <1>6, <1>7 DEF TrueReport, Report, Scope, Kind

\* A scan stopped by the remainder of an aggregate is reported against that
\* aggregate, every other refused scan against its fragment limit.
LEMMA ScanReportTrue ==
  ASSUME AccountingInv, NEW w \in Worker, NEW used \in [Dim -> Usize],
         held[w] # None, WithinLimits(w, used), NEW excess, RefusedCharge(w, used, excess)
  PROVE  TrueReport(ScanReport(used, excess))
<1> DEFINE d == excess.kind
           r == excess.requested
<1>1. /\ d \in Dim /\ r \in Usize /\ r \in Nat
      /\ used[d] \in Usize /\ used[d] \in Nat /\ MaxUsize \in Nat
      /\ excess.limit = Ceiling(ScanLimit(w, d)) /\ excess.consumed = used[d]
      /\ used[d] + r > excess.limit
  BY LimitFacts DEF RefusedCharge, Usize
<1>2. held[w] \in [Dim -> Usize] /\ w \in Holders
  BY DEF AccountingInv, AccountingTypeOK, Holders
<1>3. CASE d \in Bounded
  <2>1. /\ AggregateLimit[d] \in Usize /\ FragmentLimit[d] \in Usize
        /\ AggregateLimit[d] \in Nat /\ FragmentLimit[d] \in Nat
        /\ AggregateLimit[d] # None /\ FragmentLimit[d] # None
        /\ held[w][d] \in Nat /\ held[w][d] # None
        /\ engine[d] \in Nat
    BY <1>1, <1>2, <1>3, LimitFacts
       DEF AccountingInv, AccountingTypeOK, Usize, Bounded
  <2>2. excess.limit = held[w][d] /\ used[d] <= held[w][d]
    BY <1>1, <1>3, <2>1, ScanFitsReservation DEF ScanLimit, Ceiling, AccountingInv
  <2>3. EngineAfter(used)[d] = engine[d] + used[d]
    BY <1>3, BoundedNeverOverflows, ReservationsFit DEF AccountingInv
  <2>4. CASE held[w][d] < FragmentLimit[d]
    <3>1. engine[d] + held[w][d] = AggregateLimit[d]
      <4>1. ~FullShares(d)
        BY <1>2, <2>1, <2>4 DEF FullShares
      <4>2. SoleRemainder(d)
        BY <1>3, <4>1 DEF AccountingInv, ReservationInv
      <4>3. PICK v \in Worker : /\ Holders = {v} /\ reserved[d] = held[v][d]
                                /\ engine[d] + reserved[d] = AggregateLimit[d]
        BY <4>2 DEF SoleRemainder
      <4> QED
        BY <1>2, <4>3
    <3>2. ScanReport(used, excess) =
            [scope |-> "Operation", kind |-> d, limit |-> AggregateLimit[d],
             consumed |-> engine[d] + used[d], requested |-> r]
      BY <2>1, <2>2, <2>3, <2>4 DEF ScanReport, OperationLimited
    <3>3. LimitOf("Operation", d) = AggregateLimit[d]
      BY <1>1, <2>1 DEF LimitOf, Ceiling, Dim
    <3>4. engine[d] + used[d] \in Usize
      BY <1>1, <2>1, <2>2, <3>1 DEF Usize
    <3>5. /\ engine[d] + used[d] <= AggregateLimit[d]
          /\ engine[d] + used[d] + r > AggregateLimit[d]
      BY <1>1, <2>1, <2>2, <3>1
    <3> HIDE DEF d, r
    <3> QED
      BY <1>1, <2>1, <3>2, <3>3, <3>4, <3>5 DEF TrueReport, Report, Scope, Kind
  <2>5. CASE ~(held[w][d] < FragmentLimit[d])
    <3>1. held[w][d] = FragmentLimit[d]
      <4>1. FullShares(d) \/ SoleRemainder(d)
        BY <1>3 DEF AccountingInv, ReservationInv
      <4>2. ~SoleRemainder(d)
        BY <1>2, <2>1, <2>5 DEF SoleRemainder
      <4> QED
        BY <1>2, <4>1, <4>2 DEF FullShares
    <3>2. ScanReport(used, excess) =
            [scope |-> "Fragment", kind |-> d, limit |-> FragmentLimit[d],
             consumed |-> used[d], requested |-> r]
      BY <1>1, <2>1, <2>2, <3>1 DEF ScanReport, OperationLimited
    <3>3. LimitOf("Fragment", d) = FragmentLimit[d]
      BY <1>1, <2>1 DEF LimitOf, Ceiling, Dim
    <3>4. used[d] <= FragmentLimit[d] /\ used[d] + r > FragmentLimit[d]
      BY <1>1, <2>2, <3>1
    <3> HIDE DEF d, r
    <3> QED
      BY <1>1, <2>1, <3>2, <3>3, <3>4 DEF TrueReport, Report, Scope, Kind
  <2> QED
    BY <2>4, <2>5
<1>4. CASE d \notin Bounded
  <2> DEFINE l == Ceiling(FragmentLimit[d])
  <2>1. l \in Usize /\ l \in Nat /\ FragmentLimit[d] \in Usize \cup {None}
    BY <1>1, LimitFacts DEF Limit, Usize
  <2>2. excess.limit = l /\ used[d] <= l
    BY <1>1, <1>4, <2>1, LimitFacts DEF ScanLimit, WithinLimits, Ceiling, Usize
  <2>3. ~OperationLimited(excess)
    BY <2>1, <2>2, LimitFacts DEF OperationLimited, Ceiling, Usize
  <2>4. ScanReport(used, excess) =
          [scope |-> "Fragment", kind |-> d, limit |-> l,
           consumed |-> used[d], requested |-> r]
    BY <1>1, <2>2, <2>3 DEF ScanReport
  <2>5. LimitOf("Fragment", d) = l
    BY <1>1 DEF LimitOf, Dim
  <2>6. used[d] + r > l
    BY <1>1, <2>2
  <2> HIDE DEF d, r, l
  <2> QED
    BY <1>1, <2>1, <2>2, <2>4, <2>5, <2>6 DEF TrueReport, Report, Scope, Kind
<1> QED
  BY <1>3, <1>4

\* Reservation::settle keeps the inductive invariant.
LEMMA SettleStep ==
  ASSUME AccountingInv, NEW w \in Worker, NEW used \in ScanUse,
         WithinLimits(w, used), NEW complete \in BOOLEAN, NEW excess,
         excess = None \/ RefusedCharge(w, used, excess),
         Settle(w, used, complete, excess)
  PROVE  AccountingInv'
<1>1. used \in [Dim -> Usize] /\ held[w] # None
  BY InputAssumption DEF Settle
<1>2. Release(w, used)
  <2>1. \A d \in Bounded : EngineAfter(used)[d] = engine[d] + used[d]
    BY <1>1, BoundedNeverOverflows, ReservationsFit DEF AccountingInv
  <2>2. \A d \in Bounded : used[d] <= held[w][d]
    BY <1>1, ScanFitsReservation DEF AccountingInv
  <2> QED
    BY <2>1, <2>2 DEF Settle, Release
<1>3. ReservationInv' /\ active' \in Nat /\ reserved' \in [Dim -> Nat]
  BY <1>1, <1>2, ReleaseKeepsReservations DEF AccountingInv
<1>4. \/ \E report : TrueReport(report) /\ Stop(report)
      \/ UNCHANGED stopVars
  <2>1. CASE Overflowing(used) # {}
    BY <1>1, <2>1, OverflowReportTrue DEF Settle, SettleStop
  <2>2. CASE Overflowing(used) = {} /\ excess # None
    BY <1>1, <2>2, ScanReportTrue DEF Settle, SettleStop
  <2>3. CASE Overflowing(used) = {} /\ excess = None
    BY <2>3 DEF Settle, SettleStop
  <2> QED
    BY <2>1, <2>2, <2>3
<1>5. /\ stopped' \in BOOLEAN /\ exceeded' \in Report \cup {None}
      /\ ExceededIsTruthful'
  <2>1. CASE UNCHANGED stopVars
    BY <2>1, UnstoppedTruthful DEF stopVars, AccountingInv, AccountingTypeOK
  <2>2. ASSUME NEW report, TrueReport(report), Stop(report)
        PROVE  /\ stopped' \in BOOLEAN /\ exceeded' \in Report \cup {None}
               /\ ExceededIsTruthful'
    BY <2>2, StopType, StopTruthful DEF TrueReport, AccountingInv
  <2> QED
    BY <1>4, <2>1, <2>2
<1>6. engine' \in [Dim -> Usize]
  BY <1>1, EngineAfterType DEF Settle, AccountingInv
<1>7. held' \in [Worker -> [Dim -> Usize] \cup {None}]
  BY DEF Settle, AccountingInv, AccountingTypeOK
<1>8. completedFragments' \in Nat /\ inexact' \in BOOLEAN
  BY DEF Settle, AccountingInv, AccountingTypeOK
<1>9. AccountingTypeOK'
  BY <1>3, <1>5, <1>6, <1>7, <1>8
     DEF Settle, AccountingInv, AccountingTypeOK, counterVars
<1>10. AdmissionStaysInBudget'
  BY DEF Settle, AccountingInv, AdmissionStaysInBudget, counterVars, Ceiling
<1> QED
  BY <1>3, <1>5, <1>9, <1>10 DEF AccountingInv

\* The drop of an unsettled Reservation keeps the inductive invariant.
LEMMA AbandonStep ==
  ASSUME AccountingInv, NEW w \in Worker, Abandon(w)
  PROVE  AccountingInv'
<1>1. held[w] \in [Dim -> Usize] /\ held[w] # None /\ w \in Holders
  BY DEF Abandon, AccountingInv, AccountingTypeOK, Holders
<1>2. \A d \in Dim : held[w][d] \in Nat /\ engine[d] \in Usize /\ reserved[d] \in Nat
  BY <1>1, LimitFacts DEF AccountingInv, AccountingTypeOK, Usize
<1>3. Release(w, held[w])
  BY <1>1, <1>2, LimitFacts DEF Abandon, Release, Bounded
<1>4. ReservationInv' /\ active' \in Nat /\ reserved' \in [Dim -> Nat]
  BY <1>1, <1>3, ReleaseKeepsReservations DEF AccountingInv
<1>5. \A d \in Dim : engine[d] + held[w][d] \in Usize
  <2>1. ASSUME NEW d \in Bounded PROVE engine[d] + held[w][d] \in Usize
    <3>1. /\ held[w][d] <= reserved[d] /\ engine[d] + reserved[d] <= AggregateLimit[d]
          /\ AggregateLimit[d] \in Usize /\ d \in Dim
      BY <1>1, ReservationsFit, LimitFacts
         DEF AccountingInv, AggregateNeverExceeded, Bounded
    <3> QED
      BY <1>2, <3>1, LimitFacts DEF Usize
  <2>2. ASSUME NEW d \in Dim \ Bounded PROVE engine[d] + held[w][d] \in Usize
    BY <1>1, <1>2, <2>2, LimitFacts DEF AccountingInv, ReservationInv, Usize
  <2> QED
    BY <2>1, <2>2
<1>6. engine' \in [Dim -> Usize]
  BY <1>5 DEF Abandon
<1>7. held' \in [Worker -> [Dim -> Usize] \cup {None}]
  BY DEF Abandon, AccountingInv, AccountingTypeOK
<1>8. AccountingTypeOK'
  BY <1>4, <1>6, <1>7 DEF Abandon, AccountingInv, AccountingTypeOK, counterVars
<1>9. AdmissionStaysInBudget'
  BY DEF Abandon, AccountingInv, AdmissionStaysInBudget, counterVars, Ceiling
<1>10. ExceededIsTruthful'
  BY UnstoppedTruthful DEF Abandon, AccountingInv
<1> QED
  BY <1>4, <1>8, <1>9, <1>10 DEF AccountingInv

\* A scan outcome of any of the three kinds settles its reservation.
LEMMA ScanStep ==
  ASSUME AccountingInv, NEW w \in Worker, NEW used \in ScanUse,
         \/ ScanCompletes(w, used)
         \/ ScanIsCancelled(w, used)
         \/ \E d \in Dim, requested \in ScanRequest :
              ScanExceeds(w, used, d, requested)
  PROVE  AccountingInv'
<1>1. CASE ScanCompletes(w, used)
  BY <1>1, SettleStep DEF ScanCompletes
<1>2. CASE ScanIsCancelled(w, used)
  BY <1>2, SettleStep DEF ScanIsCancelled
<1>3. ASSUME NEW d \in Dim, NEW requested \in ScanRequest,
             ScanExceeds(w, used, d, requested)
      PROVE  AccountingInv'
  <2> DEFINE excess == [kind |-> d, limit |-> Ceiling(ScanLimit(w, d)),
                        consumed |-> used[d], requested |-> requested]
  <2>1. requested \in Usize \ {0}
    BY InputAssumption
  <2>2. RefusedCharge(w, used, excess)
    BY <1>3, <2>1 DEF RefusedCharge, ScanExceeds
  <2>3. WithinLimits(w, used) /\ Settle(w, used, FALSE, excess)
    BY <1>3 DEF ScanExceeds
  <2> HIDE DEF excess
  <2> QED
    BY <2>2, <2>3, SettleStep
<1> QED
  BY <1>1, <1>2, <1>3

-----------------------------------------------------------------------------
(* The theorems.                                                           *)

\* Every step of the accounting keeps its invariant.
LEMMA AccountingStep ==
  ASSUME AccountingInv, [AccountingNext]_accountingVars
  PROVE  AccountingInv'
<1>1. CASE Cancel
  BY <1>1, CancelStep
<1>2. CASE StopInternally
  BY <1>2, StopInternallyStep
<1>3. ASSUME NEW bytes \in FragmentBytes, Admit(bytes) \/ RefuseFragment(bytes)
      PROVE  AccountingInv'
  BY <1>3, AdmitStep, RefuseFragmentStep
<1>4. CASE RetainIssue \/ RefuseIssue
  BY <1>4, RetainIssueStep, RefuseIssueStep
<1>5. ASSUME NEW w \in Worker, Reserve(w) \/ Abandon(w)
      PROVE  AccountingInv'
  BY <1>5, ReserveStep, AbandonStep
<1>6. ASSUME NEW w \in Worker, NEW used \in ScanUse,
             \/ ScanCompletes(w, used)
             \/ ScanIsCancelled(w, used)
             \/ \E d \in Dim, requested \in ScanRequest :
                  ScanExceeds(w, used, d, requested)
      PROVE  AccountingInv'
  BY <1>6, ScanStep
<1>7. CASE UNCHANGED accountingVars
  <2>1. AccountingTypeOK' /\ AdmissionStaysInBudget'
    BY <1>7 DEF AccountingInv, AccountingTypeOK, AdmissionStaysInBudget, accountingVars,
                stopVars, counterVars, scanVars, Ceiling
  <2>2. ReservationInv'
    BY <1>7, ReservationsUntouched DEF AccountingInv, accountingVars
  <2>3. ExceededIsTruthful'
    BY <1>7, UnstoppedTruthful DEF AccountingInv, accountingVars, stopVars
  <2> QED
    BY <2>1, <2>2, <2>3 DEF AccountingInv
<1> QED
  BY <1>1, <1>2, <1>3, <1>4, <1>5, <1>6, <1>7 DEF AccountingNext

\* The accounting of budget.rs keeps the whole invariant for every number of
\* workers and every valid budget.
THEOREM AccountingInvariant == AccountingSpec => []AccountingInv
<1>1. AccountingInit => AccountingInv
  BY InitialAccounting
<1>2. AccountingInv /\ [AccountingNext]_accountingVars => AccountingInv'
  BY AccountingStep
<1> QED
  BY <1>1, <1>2, PTL DEF AccountingSpec

\* Every accounting variable keeps its type.
THEOREM AccountingTypeCorrect == AccountingSpec => []AccountingTypeOK
<1>1. AccountingInv => AccountingTypeOK
  BY DEF AccountingInv
<1> QED
  BY <1>1, AccountingInvariant, PTL

\* Charged and reserved units together stay within every aggregate limit, and
\* no release subtracts more than is reserved.
THEOREM AggregateBound == AccountingSpec => []AggregateNeverExceeded
<1>1. AccountingInv => AggregateNeverExceeded
  BY ReservationsFit DEF AccountingInv
<1> QED
  BY <1>1, AccountingInvariant, PTL

\* The reported limit is a configured one and was really broken.
THEOREM TruthfulReports == AccountingSpec => []ExceededIsTruthful
<1>1. AccountingInv => ExceededIsTruthful
  BY DEF AccountingInv
<1> QED
  BY <1>1, AccountingInvariant, PTL


\* The unchecked additions of admit and the issue limit hold for every budget.
THEOREM AdmissionBound == AccountingSpec => []AdmissionStaysInBudget
<1>1. AccountingInv => AdmissionStaysInBudget
  BY DEF AccountingInv
<1> QED
  BY <1>1, AccountingInvariant, PTL

\* Neither the limits of the scans nor those of the producer are passed.
THEOREM LimitsBound == AccountingSpec => []LimitsAreNeverPassed
<1>1. AggregateNeverExceeded /\ AdmissionStaysInBudget => LimitsAreNeverPassed
  BY DEF LimitsAreNeverPassed
<1> QED
  BY <1>1, AggregateBound, AdmissionBound, PTL

\* Once a limit is hit the operation is stopped, so the report stays the first one
\* and no fragment is admitted.
LEMMA LimitStepIsFinal ==
  ASSUME AccountingInv, [AccountingNext]_accountingVars, exceeded # None
  PROVE  UNCHANGED <<exceeded, originalBytes, fragments>>
<1>1. IsCancelled
  BY DEF AccountingInv, ExceededIsTruthful, IsCancelled
<1>2. \A report : Stop(report) => exceeded' = exceeded
  BY DEF Stop
<1>3. CASE Cancel \/ StopInternally \/ RetainIssue \/ RefuseIssue
  BY <1>2, <1>3 DEF Cancel, StopInternally, RetainIssue, RefuseIssue, stopVars, counterVars
<1>4. ASSUME NEW bytes \in FragmentBytes, Admit(bytes) \/ RefuseFragment(bytes)
      PROVE  UNCHANGED <<exceeded, originalBytes, fragments>>
  BY <1>1, <1>4 DEF Admit, RefuseFragment
<1>5. ASSUME NEW w \in Worker, Reserve(w) \/ Abandon(w)
      PROVE  UNCHANGED <<exceeded, originalBytes, fragments>>
  BY <1>5 DEF Reserve, Abandon, stopVars, counterVars
<1>6. ASSUME NEW w \in Worker, NEW used, NEW complete, NEW excess,
             Settle(w, used, complete, excess)
      PROVE  UNCHANGED <<exceeded, originalBytes, fragments>>
  BY <1>2, <1>6 DEF Settle, SettleStop, stopVars, counterVars
<1>7. ASSUME NEW w \in Worker, NEW used \in ScanUse,
             \/ ScanCompletes(w, used)
             \/ ScanIsCancelled(w, used)
             \/ \E d \in Dim, requested \in ScanRequest :
                  ScanExceeds(w, used, d, requested)
      PROVE  UNCHANGED <<exceeded, originalBytes, fragments>>
  BY <1>6, <1>7 DEF ScanCompletes, ScanIsCancelled, ScanExceeds
<1>8. CASE UNCHANGED accountingVars
  BY <1>8 DEF accountingVars, stopVars, counterVars
<1> QED
  BY <1>3, <1>4, <1>5, <1>7, <1>8 DEF AccountingNext

\* Whichever thread hits a limit first, its report is the one that is returned,
\* and nothing is admitted afterwards.
THEOREM FirstLimitWins == AccountingSpec => FirstLimitIsFinal
<1>1. AccountingInv /\ [AccountingNext]_accountingVars =>
        [exceeded # None => UNCHANGED <<exceeded, originalBytes, fragments>>]_accountingVars
  BY LimitStepIsFinal
<1> QED
  BY <1>1, AccountingInvariant, PTL DEF AccountingSpec, FirstLimitIsFinal

-----------------------------------------------------------------------------
(* The threads of a budgeted run.                                          *)

ProducerTypeOK ==
  /\ producer \in ProducerPc
  /\ emitted \in 0 .. MaxEvents
  /\ event \in Event \cup {None}
  /\ pending \in Usize \cup {None}
  /\ commits \in SUBSET Commit
  /\ sourceResult \in SourceResult
  /\ outcome \in Outcome \cup {None}

WorkerTypeOK ==
  /\ receiver \in Worker \cup {None}
  /\ worker \in [Worker -> WorkerPc]
  /\ job \in [Worker -> Usize \cup {None}]
  /\ batch \in [Worker -> SUBSET Usize]

ProducerInv == ProducerTypeOK /\ ProducerHolds
WorkersInv == WorkerTypeOK /\ WorkerHolds
QueueInv == queue \in Seq(Usize)

RunnerInv == AccountingInv /\ ProducerInv /\ QueueInv /\ WorkersInv

-----------------------------------------------------------------------------
(* Lemmas.                                                                 *)

\* The values a thread can have in its hands are not None.
LEMMA NothingIsNone ==
  /\ None \notin Usize
  /\ 0 \in Usize
  /\ Usize \subseteq Int
BY LimitFacts DEF Usize

\* The bytes a callback admits or refuses come from the source.
LEMMA EventBytes ==
  ASSUME ProducerInv, producer = "accepted", ~event.issue
  PROVE  event.bytes \in FragmentBytes /\ event.commit \in Commit \cup {None}
<1>1. event \in Event
  BY DEF ProducerInv, ProducerHolds
<1>2. event # IssueEvent
  BY DEF IssueEvent
<1>3. event \in [issue : {FALSE}, bytes : FragmentBytes, commit : Commit \cup {None}]
  BY <1>1, <1>2 DEF Event
<1> QED
  BY <1>3

\* A thread that only reads leaves the producer's part of the invariant alone.
LEMMA ProducerUntouched ==
  ASSUME ProducerInv, UNCHANGED producerVars
  PROVE  ProducerInv'
BY DEF ProducerInv, ProducerTypeOK, ProducerHolds, producerVars, Outcome

\* Without a step of a worker, and with no reservation taken or given back, the
\* workers' part of the invariant stays.
LEMMA WorkersUntouched ==
  ASSUME WorkersInv, UNCHANGED <<workerVars, held>>
  PROVE  WorkersInv'
BY DEF WorkersInv, WorkerTypeOK, WorkerHolds, workerVars

-----------------------------------------------------------------------------
(* Every step of a thread is a step of the accounting, or none.            *)

\* The callback's steps on the accounting.
LEMMA ProducerAccounts ==
  ASSUME ProducerInv, ProducerStep
  PROVE  [AccountingNext]_accountingVars
<1>1. CASE SpawnFails
  BY <1>1 DEF SpawnFails, AccountingNext
<1>2. CASE CallbackTakesIssue
  BY <1>2 DEF CallbackTakesIssue, AccountingNext
<1>3. CASE CallbackRefusesFragment
  <2>1. event.bytes \in FragmentBytes
    BY <1>3, EventBytes DEF CallbackRefusesFragment
  <2> QED
    BY <1>3, <2>1 DEF CallbackRefusesFragment, AccountingNext
<1>4. CASE CallbackAdmitsFragment
  <2>1. event.bytes \in FragmentBytes
    BY <1>4, EventBytes DEF CallbackAdmitsFragment
  <2> QED
    BY <1>4, <2>1 DEF CallbackAdmitsFragment, AccountingNext
<1>5. CASE SpawnWorker \/ StartVisit \/ AllocateHandlesFails
  BY <1>5 DEF SpawnWorker, StartVisit, AllocateHandlesFails
<1>6. CASE SourceSeesCancellation \/ SourceReturns \/ SourceEmits \/ CallbackPolls
  BY <1>6 DEF SourceSeesCancellation, SourceReturns, SourceEmits, CallbackPolls
<1>7. CASE ScheduleEnsuresActive \/ SchedulePolls \/ TrySend \/ SendFails
  BY <1>7 DEF ScheduleEnsuresActive, SchedulePolls, TrySend, SendFails
<1>8. CASE JoinWorkers \/ FinishRun \/ ReportBudget
  BY <1>8 DEF JoinWorkers, FinishRun, ReportBudget
<1> QED
  BY <1>1, <1>2, <1>3, <1>4, <1>5, <1>6, <1>7, <1>8 DEF ProducerStep

\* A worker's steps on the accounting.
LEMMA WorkerAccounts ==
  ASSUME NEW w \in Worker, WorkerStep(w)
  PROVE  [AccountingNext]_accountingVars
<1>1. CASE AcquireReservation(w)
  BY <1>1 DEF AcquireReservation, AccountingNext
<1>2. CASE ScanReturns(w)
  BY <1>2 DEF ScanReturns, AccountingNext
<1>3. CASE ScanPanics(w)
  BY <1>3 DEF ScanPanics, AccountingNext
<1>4. CASE MergePanics(w)
  BY <1>4 DEF MergePanics, AccountingNext
<1>5. CASE \/ WorkerPolls(w) \/ LockReceiver(w) \/ Receive(w)
           \/ ReservePolls(w) \/ MergeCompleteScan(w)
  BY <1>5 DEF WorkerPolls, LockReceiver, Receive, ReservePolls, MergeCompleteScan
<1> QED
  BY <1>1, <1>2, <1>3, <1>4, <1>5 DEF WorkerStep

\* Every step of the run is a step of the accounting, or leaves it alone.
LEMMA RunAccounts ==
  ASSUME ProducerInv, [Next]_vars
  PROVE  [AccountingNext]_accountingVars
<1>1. CASE CancelRun
  BY <1>1 DEF CancelRun, AccountingNext
<1>2. CASE ProducerStep
  BY <1>2, ProducerAccounts
<1>3. ASSUME NEW w \in Worker, WorkerStep(w)
      PROVE  [AccountingNext]_accountingVars
  BY <1>3, WorkerAccounts
<1>4. CASE Returned \/ UNCHANGED vars
  BY <1>4 DEF Returned, vars
<1> QED
  BY <1>1, <1>2, <1>3, <1>4 DEF Next

-----------------------------------------------------------------------------
(* The steps of the producer.                                              *)

\* Spawning, and the ways it can fail.
LEMMA SpawnSteps ==
  ASSUME ProducerInv, QueueInv, WorkersInv,
         SpawnWorker \/ StartVisit \/ AllocateHandlesFails \/ SpawnFails
  PROVE  ProducerInv' /\ QueueInv' /\ WorkersInv'
<1>1. CASE SpawnWorker
  <2>1. PICK w \in Worker : worker[w] = "unspawned" /\ worker' = [worker EXCEPT ![w] = "top"]
    BY <1>1 DEF SpawnWorker
  <2>2. UNCHANGED <<held, receiver, job, batch, queue>> /\ UNCHANGED producerVars
    BY <1>1 DEF SpawnWorker, accountingVars, scanVars
  <2>3. WorkersInv'
    BY <2>1, <2>2 DEF WorkersInv, WorkerTypeOK, WorkerHolds, WorkerPc, Ended
  <2> QED
    BY <2>2, <2>3, ProducerUntouched DEF QueueInv
<1>2. CASE StartVisit \/ AllocateHandlesFails \/ SpawnFails
  <2>1. UNCHANGED <<workerVars, held, queue>>
    BY <1>2 DEF StartVisit, AllocateHandlesFails, SpawnFails, StopInternally,
                accountingVars, scanVars
  <2>2. ProducerInv'
    BY <1>2 DEF StartVisit, AllocateHandlesFails, SpawnFails, Goto, Return, ProducerInv,
                ProducerTypeOK, ProducerHolds, ProducerPc, Visiting, SourceResult, Outcome
  <2> QED
    BY <2>1, <2>2, WorkersUntouched DEF QueueInv
<1> QED
  BY <1>1, <1>2

\* The source's own steps and the callback's poll.
LEMMA SourceSteps ==
  ASSUME ProducerInv, QueueInv, WorkersInv,
         SourceSeesCancellation \/ SourceReturns \/ SourceEmits \/ CallbackPolls
  PROVE  ProducerInv' /\ QueueInv' /\ WorkersInv'
<1>1. UNCHANGED <<workerVars, held, queue>>
  BY DEF SourceSeesCancellation, SourceReturns, SourceEmits, CallbackPolls,
         accountingVars, scanVars
<1> SUFFICES ProducerInv'
  BY <1>1, WorkersUntouched DEF QueueInv
<1>2. CASE SourceSeesCancellation \/ SourceReturns \/ CallbackPolls
  BY <1>2 DEF SourceSeesCancellation, SourceReturns, CallbackPolls, Goto, Return,
       ProducerInv, ProducerTypeOK, ProducerHolds, ProducerPc, Visiting, SourceResult,
       Outcome
<1>3. CASE SourceEmits
  <2>1. emitted' \in 0 .. MaxEvents
    BY <1>3, RunnerAssumption DEF SourceEmits, ProducerInv, ProducerTypeOK
  <2>2. /\ producer' \in {"join", "received"} /\ sourceResult' \in SourceResult
        /\ event' \in Event \cup {None}
        /\ producer' = "received" => event' \in Event
        /\ producer = "visit" /\ UNCHANGED <<pending, commits, outcome>>
    BY <1>3 DEF SourceEmits, Goto, Return, ProducerInv, ProducerTypeOK, SourceResult
  <2> QED
    BY <2>1, <2>2 DEF ProducerInv, ProducerTypeOK, ProducerHolds, ProducerPc, Visiting
<1> QED
  BY <1>2, <1>3


\* The callback takes, refuses or admits an event.
LEMMA CallbackSteps ==
  ASSUME ProducerInv, QueueInv, WorkersInv, AccountingTypeOK',
         CallbackTakesIssue \/ CallbackRefusesFragment \/ CallbackAdmitsFragment
  PROVE  ProducerInv' /\ QueueInv' /\ WorkersInv'
<1>1. UNCHANGED <<workerVars, held, queue>>
  <2>1. UNCHANGED <<workerVars, queue>>
    BY DEF CallbackTakesIssue, CallbackRefusesFragment, CallbackAdmitsFragment
  <2>2. UNCHANGED scanVars
    BY DEF CallbackTakesIssue, CallbackRefusesFragment, CallbackAdmitsFragment,
           RetainIssue, RefuseIssue, RefuseFragment, Admit, accountingVars
  <2> QED
    BY <2>1, <2>2 DEF scanVars
<1> SUFFICES ProducerInv'
  BY <1>1, WorkersUntouched DEF QueueInv
<1>2. CASE CallbackTakesIssue \/ CallbackRefusesFragment
  <2>1. /\ producer = "accepted" /\ producer' \in {"visit", "join"}
        /\ sourceResult' \in {sourceResult, "Stop"}
        /\ UNCHANGED <<emitted, event, pending, commits, outcome>>
    BY <1>2 DEF CallbackTakesIssue, CallbackRefusesFragment, Goto, Return
  <2> QED
    BY <2>1 DEF ProducerInv, ProducerTypeOK, ProducerHolds, ProducerPc, Visiting,
                SourceResult
<1>3. CASE CallbackAdmitsFragment
  <2>1. event.commit \in Commit \cup {None}
    BY <1>3, EventBytes DEF CallbackAdmitsFragment
  <2>2. fragments' \in Usize
    BY DEF AccountingTypeOK
  <2>3. /\ producer = "accepted" /\ UNCHANGED <<emitted, event, outcome>>
        /\ commits' \in SUBSET Commit
        /\ \/ producer' = "schedule" /\ pending' = fragments' /\ UNCHANGED sourceResult
           \/ producer' = "join" /\ sourceResult' = "Rejected" /\ UNCHANGED pending
    BY <1>3, <2>1 DEF CallbackAdmitsFragment, Goto, Return, ProducerInv, ProducerTypeOK
  <2> QED
    BY <2>2, <2>3, NothingIsNone DEF ProducerInv, ProducerTypeOK, ProducerHolds,
       ProducerPc, Visiting, SourceResult
<1> QED
  BY <1>2, <1>3

\* The attempts to hand the fragment to a worker.
LEMMA ScheduleSteps ==
  ASSUME ProducerInv, QueueInv, WorkersInv,
         ScheduleEnsuresActive \/ SchedulePolls \/ TrySend \/ SendFails
  PROVE  ProducerInv' /\ QueueInv' /\ WorkersInv'
<1>1. UNCHANGED <<workerVars, held>>
  BY DEF ScheduleEnsuresActive, SchedulePolls, TrySend, SendFails, accountingVars,
         scanVars
<1>2. QueueInv'
  <2>1. CASE TrySend
    <3>1. pending \in Usize
      BY <2>1, NothingIsNone DEF TrySend, ProducerInv, ProducerTypeOK, ProducerHolds
    <3>2. CASE queue' = Append(queue, pending)
      BY <3>1, <3>2 DEF QueueInv
    <3>3. CASE queue' = queue
      BY <3>3 DEF QueueInv
    <3> QED
      BY <2>1, <3>2, <3>3 DEF TrySend
  <2>2. CASE ScheduleEnsuresActive \/ SchedulePolls \/ SendFails
    BY <2>2 DEF ScheduleEnsuresActive, SchedulePolls, SendFails, QueueInv
  <2> QED
    BY <2>1, <2>2
<1>3. ProducerInv'
  <2>1. UNCHANGED <<emitted, event, commits, outcome>>
    BY DEF ScheduleEnsuresActive, SchedulePolls, TrySend, SendFails
  <2>2. producer \in {"schedule", "poll", "send"}
    BY DEF ScheduleEnsuresActive, SchedulePolls, TrySend, SendFails
  <2>3. \/ /\ producer' \in {"schedule", "poll", "send"}
           /\ UNCHANGED <<pending, sourceResult>>
        \/ /\ producer' \in {"join", "visit"} /\ pending' = None
           /\ sourceResult' \in {sourceResult, "Inactive", "Stop", "Disconnected"}
    BY DEF ScheduleEnsuresActive, SchedulePolls, TrySend, SendFails, Goto, Return,
           DisconnectedResult
  <2> QED
    BY <2>1, <2>2, <2>3 DEF ProducerInv, ProducerTypeOK, ProducerHolds, ProducerPc,
       Visiting, SourceResult
<1> QED
  BY <1>1, <1>2, <1>3, WorkersUntouched

\* Joining, finish_run and the budget's report.
LEMMA FinishSteps ==
  ASSUME ProducerInv, QueueInv, WorkersInv, AccountingTypeOK,
         JoinWorkers \/ FinishRun \/ ReportBudget
  PROVE  ProducerInv' /\ QueueInv' /\ WorkersInv'
<1>1. UNCHANGED <<workerVars, held, queue>>
  BY DEF JoinWorkers, FinishRun, ReportBudget, accountingVars, scanVars
<1> SUFFICES ProducerInv'
  BY <1>1, WorkersUntouched DEF QueueInv
<1>2. CASE JoinWorkers
  BY <1>2 DEF JoinWorkers, Goto, ProducerInv, ProducerTypeOK, ProducerHolds, ProducerPc,
              Visiting
<1>3. CASE FinishRun
  <2>1. RunTermination(token) \in Termination
    BY DEF RunTermination, Termination
  <2>2. FindingsOfJoined \in SUBSET Usize
    BY DEF FindingsOfJoined, WorkersInv, WorkerTypeOK
  <2>3. issues + (IF WorkerPanicked THEN 1 ELSE 0) \in Nat
    BY DEF AccountingTypeOK
  <2>4. outcome' \in Outcome
    BY <1>3, <2>1, <2>2, <2>3 DEF FinishRun, Outcome
  <2> QED
    BY <1>3, <2>4 DEF FinishRun, Goto, ProducerInv, ProducerTypeOK, ProducerHolds,
                      ProducerPc, Visiting
<1>4. CASE ReportBudget
  <2>1. outcome \in Outcome
    BY <1>4 DEF ReportBudget, ProducerInv, ProducerHolds
  <2>2. MaxIssues # None => MaxIssues \in Nat
    BY BudgetAssumption, LimitFacts DEF Limit
  <2>3. outcome' \in Outcome
    BY <1>4, <2>1, <2>2 DEF ReportBudget, Outcome, Termination, SmallerOf
  <2> QED
    BY <1>4, <2>3 DEF ReportBudget, Goto, ProducerInv, ProducerTypeOK, ProducerHolds,
                      ProducerPc, Visiting
<1> QED
  BY <1>2, <1>3, <1>4


-----------------------------------------------------------------------------
(* The steps of a worker.                                                  *)

\* A worker that moves to pc with fragment j in its hand, reservation h and
\* batch b keeps the invariant when pc calls for what it holds.
LEMMA WorkerMoves ==
  ASSUME WorkersInv, AccountingTypeOK, NEW w \in Worker, NEW pc \in WorkerPc,
         NEW j \in Usize \cup {None}, NEW h, NEW b \in SUBSET Usize,
         receiver' \in Worker \cup {None},
         worker' = [worker EXCEPT ![w] = pc],
         job' = [job EXCEPT ![w] = j],
         held' = [held EXCEPT ![w] = h],
         batch' = [batch EXCEPT ![w] = b],
         pc \in {"reserve", "acquire", "scan", "merge"} <=> j # None,
         pc = "scan" <=> h # None
  PROVE  WorkersInv'
<1>1. WorkerTypeOK'
  BY DEF WorkersInv, WorkerTypeOK, WorkerPc, Ended
<1>2. ASSUME NEW v \in Worker
      PROVE  /\ worker'[v] \in {"reserve", "acquire", "scan", "merge"} <=> job'[v] # None
             /\ worker'[v] = "scan" <=> held'[v] # None
  <2>1. CASE v = w
    BY <2>1 DEF WorkersInv, WorkerTypeOK, AccountingTypeOK
  <2>2. CASE v # w
    <3>1. worker'[v] = worker[v] /\ job'[v] = job[v] /\ held'[v] = held[v]
      BY <2>2 DEF WorkersInv, WorkerTypeOK, AccountingTypeOK
    <3> QED
      BY <3>1 DEF WorkersInv, WorkerHolds
  <2> QED
    BY <2>1, <2>2
<1> QED
  BY <1>1, <1>2 DEF WorkersInv, WorkerHolds

\* Giving a settled reservation back leaves the worker without one.
LEMMA ReservationGivenBack ==
  ASSUME NEW w \in Worker,
         \/ Abandon(w)
         \/ \E used \in ScanUse :
              \/ ScanCompletes(w, used)
              \/ ScanIsCancelled(w, used)
              \/ \E d \in Dim, requested \in ScanRequest :
                   ScanExceeds(w, used, d, requested)
  PROVE  held' = [held EXCEPT ![w] = None]
BY DEF Abandon, ScanCompletes, ScanIsCancelled, ScanExceeds, Settle

\* A worker's step keeps the workers' part of the invariant.
LEMMA WorkerSteps ==
  ASSUME WorkersInv, QueueInv, AccountingInv, NEW w \in Worker, WorkerStep(w)
  PROVE  WorkersInv' /\ QueueInv'
<1>1. /\ AccountingTypeOK
      /\ worker = [worker EXCEPT ![w] = worker[w]]
      /\ job = [job EXCEPT ![w] = job[w]] /\ job[w] \in Usize \cup {None}
      /\ held = [held EXCEPT ![w] = held[w]]
      /\ batch = [batch EXCEPT ![w] = batch[w]] /\ batch[w] \in SUBSET Usize
      /\ receiver \in Worker \cup {None}
      /\ worker[w] \in {"reserve", "acquire", "scan", "merge"} <=> job[w] # None
      /\ worker[w] = "scan" <=> held[w] # None
      /\ None \in Usize \cup {None}
  BY DEF AccountingInv, AccountingTypeOK, WorkersInv, WorkerTypeOK, WorkerHolds
<1>2. CASE WorkerPolls(w)
  <2>1. PICK pc \in {"exited", "lock"} : WorkerGoto(w, pc)
    BY <1>2 DEF WorkerPolls
  <2>2. UNCHANGED <<held, queue, receiver, job, batch>> /\ worker[w] = "top"
    BY <1>2 DEF WorkerPolls, accountingVars, scanVars
  <2>3. pc \in WorkerPc
    BY DEF WorkerPc, Ended
  <2> QED
    BY <1>1, <2>1, <2>2, <2>3, WorkerMoves DEF WorkerGoto, QueueInv
<1>3. CASE LockReceiver(w)
  <2>1. /\ UNCHANGED <<held, queue, job, batch>> /\ worker[w] = "lock"
        /\ receiver' \in Worker \cup {None} /\ WorkerGoto(w, "recv")
    BY <1>3 DEF LockReceiver, accountingVars, scanVars
  <2>2. "recv" \in WorkerPc
    BY DEF WorkerPc
  <2> QED
    BY <1>1, <2>1, <2>2, WorkerMoves DEF WorkerGoto, QueueInv
<1>4. CASE Receive(w)
  <2>1. /\ UNCHANGED <<held, batch>> /\ worker[w] = "recv"
        /\ receiver' \in Worker \cup {None}
    BY <1>4 DEF Receive, accountingVars, scanVars
  <2>2. "reserve" \in WorkerPc /\ "exited" \in WorkerPc
    BY DEF WorkerPc, Ended
  <2>3. CASE queue # <<>>
    <3>1. Head(queue) \in Usize /\ Tail(queue) \in Seq(Usize)
      BY <2>3 DEF QueueInv
    <3>2. /\ job' = [job EXCEPT ![w] = Head(queue)] /\ queue' = Tail(queue)
          /\ WorkerGoto(w, "reserve")
      BY <1>4, <2>3 DEF Receive
    <3> QED
      BY <1>1, <2>1, <2>2, <3>1, <3>2, NothingIsNone, WorkerMoves DEF WorkerGoto, QueueInv
  <2>4. CASE queue = <<>>
    <3>1. UNCHANGED <<job, queue>> /\ WorkerGoto(w, "exited")
      BY <1>4, <2>4 DEF Receive
    <3> QED
      BY <1>1, <2>1, <2>2, <3>1, WorkerMoves DEF WorkerGoto, QueueInv
  <2> QED
    BY <2>3, <2>4
<1>5. CASE ReservePolls(w)
  <2>1. UNCHANGED <<held, queue, receiver, batch>> /\ worker[w] = "reserve"
    BY <1>5 DEF ReservePolls, accountingVars, scanVars
  <2>2. "acquire" \in WorkerPc /\ "exited" \in WorkerPc
    BY DEF WorkerPc, Ended
  <2>3. \/ job' = [job EXCEPT ![w] = None] /\ WorkerGoto(w, "exited")
        \/ job' = job /\ WorkerGoto(w, "acquire")
    BY <1>5 DEF ReservePolls
  <2>4. QueueInv'
    BY <2>1 DEF QueueInv
  <2>5. CASE job' = [job EXCEPT ![w] = None] /\ WorkerGoto(w, "exited")
    BY <1>1, <2>1, <2>2, <2>4, <2>5, WorkerMoves DEF WorkerGoto
  <2>6. CASE job' = job /\ WorkerGoto(w, "acquire")
    BY <1>1, <2>1, <2>2, <2>4, <2>6, WorkerMoves DEF WorkerGoto
  <2> QED
    BY <2>3, <2>5, <2>6
<1>6. CASE AcquireReservation(w)
  <2>1. UNCHANGED <<queue, receiver, job, batch>> /\ worker[w] = "acquire"
    BY <1>6 DEF AcquireReservation
  <2>2. "scan" \in WorkerPc /\ "reserve" \in WorkerPc
    BY DEF WorkerPc, Ended
  <2>3. CASE Reserve(w) /\ WorkerGoto(w, "scan")
    <3>1. Grant # None
      <4>1. Grant \in [Dim -> Usize]
        BY GrantFacts DEF AccountingInv, ReservationInv
      <4>2. Grant \in [Dim -> Int]
        BY <4>1, NothingIsNone
      <4> QED
        BY <4>2, NoneAssumption
    <3>2. held' = [held EXCEPT ![w] = Grant]
      BY <2>3 DEF Reserve
    <3> QED
      BY <1>1, <2>1, <2>2, <2>3, <3>1, <3>2, WorkerMoves DEF WorkerGoto, QueueInv
  <2>4. CASE WorkerGoto(w, "reserve") /\ UNCHANGED accountingVars
    <3>1. UNCHANGED held
      BY <2>4 DEF accountingVars, scanVars
    <3> QED
      BY <1>1, <2>1, <2>2, <2>4, <3>1, WorkerMoves DEF WorkerGoto, QueueInv
  <2> QED
    BY <1>6, <2>3, <2>4 DEF AcquireReservation
<1>7. CASE ScanReturns(w) \/ ScanPanics(w)
  <2>1. held' = [held EXCEPT ![w] = None] /\ worker[w] = "scan"
    BY <1>7, ReservationGivenBack DEF ScanReturns, ScanPanics
  <2>2. UNCHANGED <<queue, receiver, batch>>
    BY <1>7 DEF ScanReturns, ScanPanics
  <2>3. "merge" \in WorkerPc /\ "exited" \in WorkerPc /\ "panicked" \in WorkerPc
    BY DEF WorkerPc, Ended
  <2>4. \/ WorkerGoto(w, "merge") /\ UNCHANGED job
        \/ WorkerGoto(w, "exited") /\ job' = [job EXCEPT ![w] = None]
        \/ WorkerGoto(w, "panicked") /\ job' = [job EXCEPT ![w] = None]
    BY <1>7 DEF ScanReturns, ScanPanics
  <2>5. QueueInv'
    BY <2>2 DEF QueueInv
  <2>6. CASE WorkerGoto(w, "merge") /\ UNCHANGED job
    BY <1>1, <2>1, <2>2, <2>3, <2>5, <2>6, WorkerMoves DEF WorkerGoto
  <2>7. CASE WorkerGoto(w, "exited") /\ job' = [job EXCEPT ![w] = None]
    BY <1>1, <2>1, <2>2, <2>3, <2>5, <2>7, WorkerMoves DEF WorkerGoto
  <2>8. CASE WorkerGoto(w, "panicked") /\ job' = [job EXCEPT ![w] = None]
    BY <1>1, <2>1, <2>2, <2>3, <2>5, <2>8, WorkerMoves DEF WorkerGoto
  <2> QED
    BY <2>4, <2>6, <2>7, <2>8
<1>8. CASE MergeCompleteScan(w)
  <2>1. /\ UNCHANGED <<held, queue, receiver>> /\ worker[w] = "merge"
        /\ batch' = [batch EXCEPT ![w] = batch[w] \cup {job[w]}]
        /\ job' = [job EXCEPT ![w] = None] /\ WorkerGoto(w, "top")
    BY <1>8, <1>1 DEF MergeCompleteScan, accountingVars, scanVars, WorkersInv, WorkerTypeOK
  <2>2. batch[w] \cup {job[w]} \in SUBSET Usize
    BY <1>1, <2>1
  <2>3. "top" \in WorkerPc
    BY DEF WorkerPc
  <2> QED
    BY <1>1, <2>1, <2>2, <2>3, WorkerMoves DEF WorkerGoto, QueueInv
<1>9. CASE MergePanics(w)
  <2>1. /\ UNCHANGED <<held, queue, receiver, batch>> /\ worker[w] = "merge"
        /\ job' = [job EXCEPT ![w] = None] /\ WorkerGoto(w, "panicked")
    BY <1>9 DEF MergePanics, StopInternally, scanVars
  <2>2. "panicked" \in WorkerPc
    BY DEF WorkerPc, Ended
  <2> QED
    BY <1>1, <2>1, <2>2, WorkerMoves DEF WorkerGoto, QueueInv
<1> QED
  BY <1>2, <1>3, <1>4, <1>5, <1>6, <1>7, <1>8, <1>9 DEF WorkerStep


-----------------------------------------------------------------------------
(* The theorems.                                                           *)

\* The initial state satisfies the invariant.
LEMMA InitialRun ==
  ASSUME Init PROVE RunnerInv
<1>1. AccountingInv
  BY InitialAccounting DEF Init
<1>2. ProducerInv
  BY RunnerAssumption DEF Init, ProducerInv, ProducerTypeOK, ProducerHolds, ProducerPc,
                          Visiting, SourceResult
<1>3. QueueInv
  BY DEF Init, QueueInv
<1>4. WorkersInv
  BY DEF Init, AccountingInit, WorkersInv, WorkerTypeOK, WorkerHolds, WorkerPc, Ended
<1> QED
  BY <1>1, <1>2, <1>3, <1>4 DEF RunnerInv

\* Every step of the run keeps the invariant.
LEMMA RunnerStep ==
  ASSUME RunnerInv, [Next]_vars PROVE RunnerInv'
<1>1. AccountingInv'
  BY RunAccounts, AccountingStep DEF RunnerInv
<1>2. AccountingTypeOK /\ AccountingTypeOK'
  BY <1>1 DEF AccountingInv, RunnerInv
<1>3. CASE CancelRun
  <2>1. UNCHANGED <<producerVars, queue, workerVars, held>>
    BY <1>3 DEF CancelRun, Cancel, scanVars
  <2> QED
    BY <1>1, <2>1, ProducerUntouched, WorkersUntouched DEF RunnerInv, QueueInv
<1>4. CASE ProducerStep
  BY <1>1, <1>2, <1>4, SpawnSteps, SourceSteps, CallbackSteps, ScheduleSteps, FinishSteps
     DEF RunnerInv, ProducerStep
<1>5. ASSUME NEW w \in Worker, WorkerStep(w)
      PROVE  RunnerInv'
  <2>1. UNCHANGED producerVars
    BY <1>5 DEF WorkerStep, WorkerPolls, LockReceiver, Receive, ReservePolls,
       AcquireReservation, ScanReturns, ScanPanics, MergeCompleteScan, MergePanics
  <2> QED
    BY <1>1, <1>5, <2>1, WorkerSteps, ProducerUntouched DEF RunnerInv
<1>6. CASE Returned \/ UNCHANGED vars
  <2>1. UNCHANGED <<producerVars, queue, workerVars, held>>
    BY <1>6 DEF Returned, vars, accountingVars, scanVars
  <2> QED
    BY <1>1, <2>1, ProducerUntouched, WorkersUntouched DEF RunnerInv, QueueInv
<1> QED
  BY <1>3, <1>4, <1>5, <1>6 DEF Next

\* The invariant of the run: the accounting's invariant, the types of the threads'
\* variables, and what a thread holds at each of its program counters.
THEOREM RunnerInvariant == Spec => []RunnerInv
<1>1. Init => RunnerInv
  BY InitialRun
<1>2. RunnerInv /\ [Next]_vars => RunnerInv'
  BY RunnerStep
<1> QED
  BY <1>1, <1>2, PTL DEF Spec

\* The threads of run_with_scan implement the accounting: whatever their
\* interleaving, each of their steps is one critical section of Operation or none.
THEOREM RunnerImplementsAccounting == Spec => AccountingSpec
<1>1. Init => AccountingInit
  BY DEF Init
<1>2. RunnerInv /\ [Next]_vars => [AccountingNext]_accountingVars
  BY RunAccounts DEF RunnerInv
<1> QED
  BY <1>1, <1>2, RunnerInvariant, PTL DEF Spec, AccountingSpec

\* Every variable of the run keeps its type.
THEOREM TypeCorrect == Spec => []TypeOK
<1>1. RunnerInv => TypeOK
  BY DEF RunnerInv, AccountingInv, ProducerInv, ProducerTypeOK, QueueInv, WorkersInv,
         WorkerTypeOK, TypeOK
<1> QED
  BY <1>1, RunnerInvariant, PTL

\* "Limits never multiply with the worker count": in a run with any number of
\* workers, charged and reserved units stay within every aggregate limit, and no more
\* fragments, bytes or issues are admitted than the budget allows.
THEOREM RunStaysInBudget == Spec => []LimitsAreNeverPassed
BY RunnerImplementsAccounting, LimitsBound, PTL

\* The limit a run reports is a configured one and was really broken.
THEOREM RunReportsTruthfully == Spec => []ExceededIsTruthful
BY RunnerImplementsAccounting, TruthfulReports, PTL

\* The first limit that any thread of a run hits is final.
THEOREM RunFirstLimitWins == Spec => FirstLimitIsFinal
BY RunnerImplementsAccounting, FirstLimitWins, PTL

-----------------------------------------------------------------------------
(* Fragments.  They are located as in SourceRunner_proofs.  What is new is *)
(* the internal stop: a fragment may be dropped whenever the operation is  *)
(* cancelled, so each reason to stop has to be followed to the outcome.    *)

\* Every fragment anywhere has been admitted.
Known ==
  /\ Queued \subseteq Fragment
  /\ pending \in Fragment \cup {None}
  /\ \A w \in Worker : job[w] \in Fragment \cup {None} /\ batch[w] \subseteq Fragment

\* No fragment is in two places.
Elements(q) == {q[i] : i \in 1 .. Len(q)}
NoRepeats(q) == \A i, j \in 1 .. Len(q) : q[i] = q[j] => i = j

Unique ==
  /\ NoRepeats(queue)
  /\ pending \notin Queued
  /\ \A w \in Worker :
       /\ job[w] # None => job[w] # pending /\ job[w] \notin Queued
       /\ batch[w] \cap (Queued \cup {pending}) = {}
       /\ \A v \in Worker : /\ job[v] \notin batch[w]
                            /\ v # w /\ job[v] # None => job[v] # job[w]
                            /\ v # w => batch[v] \cap batch[w] = {}

Somewhere(f) ==
  \/ f \in Queued
  \/ f = pending
  \/ \E w \in Worker : f = job[w] \/ f \in batch[w]

Spawned == \A w \in Worker : worker[w] # "unspawned"

\* Until the operation is cancelled no worker panics, none leaves before all has been
\* received, and every admitted fragment is somewhere.
Whole ==
  /\ producer \in Visiting => Spawned
  /\ producer \in {"join", "finish", "report", "done"} /\ sourceResult # "Setup" => Spawned
  /\ \A w \in Worker : worker[w] = "unspawned" => batch[w] = {}
  /\ ~IsCancelled =>
       /\ ~WorkerPanicked
       /\ \A w \in Worker : worker[w] = "exited" => queue = <<>> /\ ~SenderOpen
       /\ sourceResult # "Rejected" => \A f \in Fragment : Somewhere(f)

\* What stands behind an internal stop and behind each result of the source.
Causes ==
  /\ exceeded # None => stopped
  /\ stopped => exceeded # None \/ WorkerPanicked \/ sourceResult = "Setup"
  /\ producer \in {"spawn"} \cup Visiting => sourceResult = "Continue"
  /\ sourceResult = "Cancelled" => IsCancelled
  /\ sourceResult \in {"Inactive", "Disconnected"} => token
  /\ producer \in {"finish", "report", "done"} => Disconnected

\* A fragment that is neither completed nor in the channel is with the producer, or a
\* worker has it or has left with it; those that are waiting have been admitted.
Early == {"spawn", "visit", "received", "accepted"}
Busy == {w \in Worker : worker[w] \in {"reserve", "acquire", "scan"}}
Gone == {w \in Worker : worker[w] \in {"exited", "panicked"}}
Behind == Busy \cup Gone

Counts ==
  /\ Len(queue) <= QueueCapacity
  /\ fragments - completedFragments <=
       Len(queue) + (IF producer \in Early THEN 0 ELSE 1) + Cardinality(Behind)
  /\ completedFragments + Len(queue) + (IF pending = None THEN 0 ELSE 1)
       + Cardinality(Busy) <= fragments

\* The fragments whose scans are known to be complete.
Merging == {w \in Worker : worker[w] = "merge"}
Scanned == (UNION {batch[w] : w \in Worker}) \cup {job[w] : w \in Merging}

Usage ==
  /\ Cardinality(Scanned) <= completedFragments
  /\ ~WorkerPanicked => Cardinality(Scanned) = completedFragments

\* What finish_run and the budget's report have made of all that.
Reported ==
  /\ producer \in {"report", "done"} =>
       /\ outcome.findings = FindingsOfJoined
       /\ outcome.termination = "WorkerPanic" <=> WorkerPanicked
       /\ outcome.termination = "SourceError" =>
            sourceResult \in {"Terminal", "Setup", "Rejected"}
       /\ outcome.termination \in {"Completed", "Stopped"} =>
            /\ sourceResult \in {"Continue", "Stop"}
            /\ ~stopped => outcome.findings = Fragment
  /\ producer = "report" /\ outcome.termination = "Cancelled" =>
       token \/ sourceResult = "Cancelled"
  /\ producer = "report" => outcome.termination # "BudgetExceeded"
  /\ TerminationHasCause /\ LimitIsReported
  /\ producer = "done" /\ outcome.termination \in {"Completed", "Stopped"} =>
       exceeded = None \/ token

FragmentsInv == Known /\ Unique /\ Whole /\ Causes /\ Counts /\ Usage /\ Reported

-----------------------------------------------------------------------------
(* What a step of a worker may do, in terms of fragments and of the stop.  *)

StopKept == UNCHANGED <<token, stopVars>>
NoneCompleted == completedFragments' = completedFragments
NothingMoved == UNCHANGED <<queue, job, batch>>
Drops(w) == job' = [job EXCEPT ![w] = None] /\ UNCHANGED <<queue, batch>>

Moves(w, from, to) == worker[w] \in from /\ worker' = [worker EXCEPT ![w] = to]

MovesOn(w) ==
  /\ \/ Moves(w, {"top"}, "lock") \/ Moves(w, {"lock"}, "recv")
     \/ Moves(w, {"reserve"}, "acquire") \/ Moves(w, {"acquire"}, "scan")
     \/ Moves(w, {"acquire"}, "reserve")
  /\ StopKept /\ NoneCompleted /\ NothingMoved

Leaves(w) ==
  /\ \/ Moves(w, {"top"}, "exited") /\ IsCancelled
     \/ Moves(w, {"recv"}, "exited") /\ queue = <<>> /\ ~SenderOpen
  /\ StopKept /\ NoneCompleted /\ NothingMoved

Takes(w) ==
  /\ Moves(w, {"recv"}, "reserve")
  /\ queue # <<>> /\ job' = [job EXCEPT ![w] = Head(queue)] /\ queue' = Tail(queue)
  /\ UNCHANGED batch
  /\ StopKept /\ NoneCompleted

GivesUp(w) ==
  /\ Moves(w, {"reserve", "scan"}, "exited")
  /\ Drops(w)
  /\ IsCancelled' /\ NoneCompleted

Completes(w) ==
  /\ Moves(w, {"scan"}, "merge")
  /\ NothingMoved
  /\ completedFragments' = completedFragments + 1

Merges(w) ==
  /\ Moves(w, {"merge"}, "top")
  /\ batch' = [batch EXCEPT ![w] = @ \cup {job[w]}]
  /\ job' = [job EXCEPT ![w] = None]
  /\ UNCHANGED queue
  /\ StopKept /\ NoneCompleted

Panics(w) ==
  /\ Moves(w, {"scan", "merge"}, "panicked")
  /\ Drops(w)
  /\ stopped' /\ NoneCompleted

\* A stop is never taken back, and its cause stays visible.
StopGrows(w) ==
  /\ token' = token
  /\ stopped => stopped'
  /\ exceeded # None => exceeded' # None
  /\ stopped' => stopped \/ exceeded' # None \/ worker'[w] = "panicked"
  /\ exceeded' # None => exceeded # None \/ stopped'

\* A settlement stops the operation when a charge was refused, and says which.
LEMMA SettleStops ==
  ASSUME AccountingInv, NEW w \in Worker, NEW used \in ScanUse,
         WithinLimits(w, used), NEW complete, NEW excess,
         excess = None \/ RefusedCharge(w, used, excess),
         Settle(w, used, complete, excess)
  PROVE  /\ token' = token
         /\ stopped => stopped'
         /\ exceeded # None => exceeded' # None
         /\ stopped' => stopped \/ exceeded' # None
         /\ exceeded' # None => exceeded # None \/ stopped'
         /\ excess # None => stopped'
<1>1. used \in [Dim -> Usize] /\ held[w] # None
  BY InputAssumption DEF Settle
<1>2. \/ Overflowing(used) = {} /\ excess = None /\ UNCHANGED stopVars
      \/ \E report : TrueReport(report) /\ Stop(report)
  <2>1. CASE Overflowing(used) # {}
    BY <1>1, <2>1, OverflowReportTrue DEF Settle, SettleStop
  <2>2. CASE Overflowing(used) = {} /\ excess # None
    BY <1>1, <2>2, ScanReportTrue DEF Settle, SettleStop
  <2>3. CASE Overflowing(used) = {} /\ excess = None
    BY <2>3 DEF Settle, SettleStop
  <2> QED
    BY <2>1, <2>2, <2>3
<1>3. token' = token
  BY DEF Settle
<1>4. ASSUME NEW report, TrueReport(report), Stop(report)
      PROVE  stopped' /\ exceeded' # None
  <2>1. report # None
    BY <1>4, NoneAssumption DEF TrueReport, Report, Usize
  <2> QED
    BY <1>4, <2>1 DEF Stop
<1> QED
  BY <1>2, <1>3, <1>4 DEF stopVars

\* What ScanReturns does, whatever the scan's outcome.
LEMMA ScanReturnMoves ==
  ASSUME AccountingInv, NEW w \in Worker, ScanReturns(w), worker \in [Worker -> WorkerPc]
  PROVE  StopGrows(w) /\ (GivesUp(w) \/ Completes(w))
<1>1. PICK used \in ScanUse :
        \/ ScanCompletes(w, used) /\ WorkerGoto(w, "merge") /\ UNCHANGED job
        \/ /\ \/ ScanIsCancelled(w, used)
              \/ \E d \in Dim, requested \in ScanRequest : ScanExceeds(w, used, d, requested)
           /\ WorkerGoto(w, "exited")
           /\ job' = [job EXCEPT ![w] = None]
  BY DEF ScanReturns
<1>2. worker[w] = "scan" /\ UNCHANGED <<producerVars, queue, receiver, batch>>
  BY DEF ScanReturns
<1>3. CASE ScanCompletes(w, used) /\ WorkerGoto(w, "merge") /\ UNCHANGED job
  <2>1. WithinLimits(w, used) /\ Settle(w, used, TRUE, None)
    BY <1>3 DEF ScanCompletes
  <2>2. StopGrows(w)
    BY <2>1, SettleStops DEF StopGrows
  <2>3. completedFragments' = completedFragments + 1
    BY <2>1 DEF Settle
  <2> QED
    BY <1>2, <1>3, <2>2, <2>3 DEF Completes, Moves, WorkerGoto, NothingMoved
<1>4. CASE /\ ScanIsCancelled(w, used) /\ WorkerGoto(w, "exited")
           /\ job' = [job EXCEPT ![w] = None]
  <2>1. IsCancelled /\ WithinLimits(w, used) /\ Settle(w, used, FALSE, None)
    BY <1>4 DEF ScanIsCancelled
  <2>2. StopGrows(w)
    BY <2>1, SettleStops DEF StopGrows
  <2>3. NoneCompleted /\ IsCancelled'
    BY <2>1, <2>2 DEF Settle, IsCancelled, StopGrows, NoneCompleted, AccountingInv, AccountingTypeOK
  <2> QED
    BY <1>2, <1>4, <2>2, <2>3 DEF GivesUp, Moves, WorkerGoto, Drops
<1>5. ASSUME NEW d \in Dim, NEW requested \in ScanRequest, ScanExceeds(w, used, d, requested),
             WorkerGoto(w, "exited"), job' = [job EXCEPT ![w] = None]
      PROVE  StopGrows(w) /\ GivesUp(w)
  <2> DEFINE excess == [kind |-> d, limit |-> Ceiling(ScanLimit(w, d)),
                        consumed |-> used[d], requested |-> requested]
  <2>1. /\ WithinLimits(w, used) /\ Settle(w, used, FALSE, excess)
        /\ used[d] + requested > Ceiling(ScanLimit(w, d))
    BY <1>5 DEF ScanExceeds
  <2>2. RefusedCharge(w, used, excess)
    BY <2>1, InputAssumption DEF RefusedCharge
  <2>3. excess # None
    <3>1. requested \in Int /\ used[d] \in Int
      BY InputAssumption, LimitFacts DEF Usize
    <3>2. Ceiling(ScanLimit(w, d)) \in Int
      <4> HIDE DEF excess
      <4>1. held[w] \in [Dim -> Usize]
        BY <2>1 DEF WithinLimits, AccountingInv, AccountingTypeOK
      <4>2. ScanLimit(w, d) \in Usize \cup {None}
        BY <4>1, LimitFacts DEF ScanLimit
      <4> QED
        BY <4>2, LimitFacts DEF Ceiling, Usize
    <3>3. excess \in [kind : Dim, limit : Int, consumed : Int, requested : Int]
      BY <3>1, <3>2
    <3> QED
      BY <3>3, NoneAssumption
  <2> HIDE DEF excess
  <2>4. StopGrows(w) /\ stopped'
    BY <2>1, <2>2, <2>3, SettleStops DEF StopGrows
  <2>5. NoneCompleted /\ IsCancelled'
    BY <2>1, <2>4 DEF Settle, IsCancelled, NoneCompleted, AccountingInv, AccountingTypeOK
  <2> QED
    BY <1>2, <1>5, <2>4, <2>5 DEF GivesUp, Moves, WorkerGoto, Drops
<1> QED
  BY <1>1, <1>3, <1>4, <1>5

\* Every step of a worker is one of these moves.
LEMMA WorkerMovesFragments ==
  ASSUME AccountingInv, WorkersInv, NEW w \in Worker, WorkerStep(w)
  PROVE  /\ UNCHANGED <<producerVars, fragments>> /\ StopGrows(w)
         /\ \/ MovesOn(w) \/ Leaves(w) \/ Takes(w) \/ GivesUp(w)
            \/ Completes(w) \/ Merges(w) \/ Panics(w)
<1> USE DEF Moves, NoneCompleted, NothingMoved, StopKept, WorkerGoto
<1>1. UNCHANGED <<producerVars, fragments>>
  BY DEF WorkerStep, WorkerPolls, LockReceiver, Receive, ReservePolls, AcquireReservation,
     ScanReturns, ScanPanics, MergeCompleteScan, MergePanics, accountingVars, counterVars,
     Reserve, ScanCompletes, ScanIsCancelled, ScanExceeds, Settle, Abandon, StopInternally
<1>2. CASE WorkerPolls(w) \/ LockReceiver(w)
  BY <1>1, <1>2 DEF WorkerPolls, LockReceiver, accountingVars, scanVars, stopVars,
     MovesOn, Leaves, StopGrows
<1>3. CASE Receive(w)
  BY <1>1, <1>3 DEF Receive, accountingVars, scanVars, stopVars, Takes, Leaves, StopGrows
<1>4. CASE ReservePolls(w)
  BY <1>1, <1>4 DEF ReservePolls, accountingVars, scanVars, stopVars, MovesOn, GivesUp,
     StopGrows, Drops, IsCancelled
<1>5. CASE AcquireReservation(w)
  BY <1>1, <1>5 DEF AcquireReservation, Reserve, accountingVars, scanVars, stopVars,
     MovesOn, StopGrows
<1>6. CASE ScanReturns(w)
  BY <1>1, <1>6, ScanReturnMoves DEF WorkersInv, WorkerTypeOK
<1>7. CASE ScanPanics(w)
  BY <1>1, <1>7 DEF ScanPanics, Abandon, Panics, Drops, StopGrows, WorkersInv, WorkerTypeOK
<1>8. CASE MergeCompleteScan(w)
  BY <1>1, <1>8 DEF MergeCompleteScan, accountingVars, scanVars, stopVars, Merges, StopGrows
<1>9. CASE MergePanics(w)
  BY <1>1, <1>9 DEF MergePanics, StopInternally, scanVars, Panics, Drops, StopGrows,
     WorkersInv, WorkerTypeOK
<1> QED
  BY <1>2, <1>3, <1>4, <1>5, <1>6, <1>7, <1>8, <1>9 DEF WorkerStep

-----------------------------------------------------------------------------
(* The channel as a sequence.                                              *)

\* Sending adds one element at the end.
LEMMA AppendFacts ==
  ASSUME NEW q \in Seq(Usize), NEW x \in Usize
  PROVE  /\ Len(Append(q, x)) = Len(q) + 1
         /\ Elements(Append(q, x)) = Elements(q) \cup {x}
         /\ NoRepeats(q) /\ x \notin Elements(q) => NoRepeats(Append(q, x))
<1> DEFINE a == Append(q, x)
<1>1. /\ Len(a) = Len(q) + 1 /\ a[Len(q) + 1] = x
      /\ \A i \in 1 .. Len(q) : a[i] = q[i]
      /\ Len(q) \in Nat
  OBVIOUS
<1> HIDE DEF a
<1>2. Elements(a) = Elements(q) \cup {x}
  BY <1>1 DEF Elements
<1>3. NoRepeats(q) /\ x \notin Elements(q) => NoRepeats(a)
  BY <1>1 DEF Elements, NoRepeats
<1> QED
  BY <1>1, <1>2, <1>3 DEF a

\* Receiving removes the first element.
LEMMA TailFacts ==
  ASSUME NEW q \in Seq(Usize), q # <<>>
  PROVE  /\ Head(q) \in Usize /\ Len(q) = Len(Tail(q)) + 1
         /\ Elements(q) = {Head(q)} \cup Elements(Tail(q))
         /\ NoRepeats(q) => NoRepeats(Tail(q)) /\ Head(q) \notin Elements(Tail(q))
<1> DEFINE t == Tail(q)
<1>1. /\ Len(q) = Len(t) + 1 /\ q[1] = Head(q) /\ Head(q) \in Usize
      /\ \A i \in 1 .. Len(t) : t[i] = q[i + 1]
      /\ Len(t) \in Nat
  OBVIOUS
<1> HIDE DEF t
<1>2. \A i \in 1 .. Len(t) : i + 1 \in 1 .. Len(q) /\ i + 1 # 1
  BY <1>1
<1>3. ASSUME NEW i \in 1 .. Len(q)
      PROVE  q[i] \in {Head(q)} \cup Elements(t)
  <2>1. CASE i = 1
    BY <2>1, <1>1
  <2>2. CASE i - 1 \in 1 .. Len(t)
    <3>1. t[i - 1] = q[(i - 1) + 1] /\ (i - 1) + 1 = i
      BY <2>2, <1>1
    <3> QED
      BY <2>2, <3>1 DEF Elements
  <2> QED
    BY <1>1, <2>1, <2>2
<1>4. {Head(q)} \cup Elements(t) \subseteq Elements(q)
  <2>1. 1 \in 1 .. Len(q)
    BY <1>1
  <2> QED
    BY <1>1, <1>2, <2>1 DEF Elements
<1>5. Elements(q) = {Head(q)} \cup Elements(t)
  BY <1>3, <1>4 DEF Elements
<1>6. ASSUME NoRepeats(q)
      PROVE  NoRepeats(t) /\ Head(q) \notin Elements(t)
  <2>1. ASSUME NEW i \in 1 .. Len(t), NEW j \in 1 .. Len(t), t[i] = t[j]
        PROVE  i = j
    <3>1. i + 1 = j + 1
      BY <1>1, <1>2, <1>6, <2>1 DEF NoRepeats
    <3> QED
      BY <3>1
  <2>2. ASSUME NEW i \in 1 .. Len(t)
        PROVE  t[i] # Head(q)
    <3>1. t[i] = q[i + 1] /\ 1 \in 1 .. Len(q)
      BY <1>1
    <3> QED
      BY <1>1, <1>2, <1>6, <3>1 DEF NoRepeats
  <2> QED
    BY <2>1, <2>2 DEF Elements, NoRepeats
<1> QED
  BY <1>1, <1>5, <1>6 DEF t

\* A channel without repetitions has as many elements as places.
LEMMA ElementsCounted ==
  ASSUME NEW q \in Seq(Usize), NoRepeats(q)
  PROVE  IsFiniteSet(Elements(q)) /\ Cardinality(Elements(q)) = Len(q)
<1> DEFINE f == [i \in 1 .. Len(q) |-> q[i]]
<1>1. IsFiniteSet(1 .. Len(q)) /\ Cardinality(1 .. Len(q)) = Len(q)
  <2>1. Len(q) \in Nat
    OBVIOUS
  <2> QED
    BY <2>1, FS_Interval
<1>2. f \in Surjection(1 .. Len(q), Elements(q))
  BY DEF Surjection, Elements
<1>3. f \in Injection(1 .. Len(q), Elements(q))
  BY DEF Injection, IsInjective, Elements, NoRepeats
<1> QED
  BY <1>1, <1>2, <1>3, FS_Surjection

-----------------------------------------------------------------------------
(* How a fragment moves: what each move does to Known and Unique.          *)

\* Fragments are numbers.
LEMMA FragmentFacts ==
  ASSUME AccountingTypeOK
  PROVE  /\ None \notin Fragment /\ Fragment \subseteq Usize
         /\ fragments \in Nat
         /\ IsFiniteSet(Fragment) /\ Cardinality(Fragment) = fragments
<1>1. fragments \in Nat /\ fragments <= MaxUsize
  BY LimitFacts DEF AccountingTypeOK, Usize
<1>2. IsFiniteSet(Fragment) /\ Cardinality(Fragment) = fragments
  BY <1>1, FS_Interval DEF Fragment
<1> QED
  BY <1>1, <1>2, LimitFacts DEF Fragment, Usize

\* A step that moves no fragment.
LEMMA NothingMoves ==
  ASSUME Known, Unique, UNCHANGED <<fragments, pending, queue, job, batch>>
  PROVE  Known' /\ Unique' /\ \A f : Somewhere(f)' = Somewhere(f)
<1>1. Queued' = Queued /\ NoRepeats(queue)' = NoRepeats(queue)
  BY DEF Queued, NoRepeats
<1> QED
  BY <1>1 DEF Known, Unique, Fragment, Somewhere

\* The producer gives up its fragment.
LEMMA PendingDropped ==
  ASSUME AccountingTypeOK, Known, Unique, pending' = None,
         UNCHANGED <<fragments, queue, job, batch>>
  PROVE  Known' /\ Unique'
<1>1. Queued' = Queued /\ NoRepeats(queue)' = NoRepeats(queue)
  BY DEF Queued, NoRepeats
<1>2. Fragment' = Fragment /\ None \notin Fragment
  BY FragmentFacts DEF Fragment
<1>3. Known'
  BY <1>1, <1>2 DEF Known
<1>4. None \notin Queued /\ \A w \in Worker : None \notin batch[w]
  BY <1>2 DEF Known
<1> QED
  BY <1>1, <1>3, <1>4 DEF Unique

\* A fragment is admitted, and in the producer's hand or nowhere.
LEMMA FragmentAdmitted ==
  ASSUME AccountingTypeOK, Known, Unique, pending = None,
         fragments' = fragments + 1, pending' \in {fragments + 1, None},
         UNCHANGED <<queue, job, batch>>
  PROVE  Known' /\ Unique' /\ Fragment' = Fragment \cup {fragments + 1}
<1>1. Queued' = Queued /\ NoRepeats(queue)' = NoRepeats(queue)
  BY DEF Queued, NoRepeats
<1>2. /\ Fragment' = Fragment \cup {fragments + 1}
      /\ fragments + 1 \notin Fragment /\ fragments + 1 # None
      /\ None \notin Fragment
  BY FragmentFacts, LimitFacts DEF Fragment
<1>3. Known'
  BY <1>1, <1>2 DEF Known
<1>4. /\ \A x \in {fragments + 1, None} : x \notin Queued /\ \A w \in Worker : x \notin batch[w]
      /\ \A w \in Worker : job[w] # fragments + 1
  BY <1>2 DEF Known
<1> QED
  BY <1>1, <1>2, <1>3, <1>4 DEF Unique

\* The producer sends its fragment.
LEMMA PendingSent ==
  ASSUME AccountingTypeOK, QueueInv, Known, Unique, pending # None,
         queue' = Append(queue, pending), pending' = None, UNCHANGED <<fragments, job, batch>>
  PROVE  Known' /\ Unique' /\ Queued' = Queued \cup {pending}
<1>1. pending \in Usize /\ queue \in Seq(Usize) /\ None \notin Fragment /\ Fragment' = Fragment
  BY FragmentFacts DEF Known, QueueInv, Fragment
<1>2. Queued' = Queued \cup {pending} /\ NoRepeats(queue)'
  BY <1>1, AppendFacts DEF Unique, Queued, Elements
<1>3. Known'
  BY <1>1, <1>2 DEF Known
<1>4. None \notin Queued' /\ \A w \in Worker : None \notin batch[w]
  BY <1>1, <1>3 DEF Known
<1> QED
  BY <1>2, <1>3, <1>4 DEF Unique

\* A worker receives the fragment at the head of the channel.
LEMMA HeadReceived ==
  ASSUME AccountingTypeOK, WorkerTypeOK, QueueInv, Known, Unique, NEW w \in Worker,
         job[w] = None, queue # <<>>,
         job' = [job EXCEPT ![w] = Head(queue)], queue' = Tail(queue),
         UNCHANGED <<fragments, pending, batch>>
  PROVE  /\ Known' /\ Unique' /\ job'[w] # None
         /\ Queued = {job'[w]} \cup Queued'
<1>1. queue \in Seq(Usize) /\ None \notin Fragment /\ Fragment' = Fragment
      /\ job \in [Worker -> Usize \cup {None}]
  BY FragmentFacts DEF WorkerTypeOK, QueueInv, Fragment
<1>2. /\ job'[w] = Head(queue)
      /\ \A v \in Worker : v # w => job'[v] = job[v]
  BY <1>1
<1>3. /\ Queued = {Head(queue)} \cup Queued'
      /\ NoRepeats(queue)' /\ Head(queue) \notin Queued'
  BY <1>1, TailFacts DEF Unique, Queued, Elements
<1>4. Known'
  BY <1>1, <1>2, <1>3 DEF Known
<1>5. Unique'
  <2>1. \A v \in Worker : job[v] # Head(queue) /\ Head(queue) \notin batch[v]
    BY <1>1, <1>3 DEF Unique, Known
  <2> QED
    BY <1>1, <1>2, <1>3, <2>1 DEF Unique
<1>6. job'[w] # None
  BY <1>1, <1>2, <1>3 DEF Known
<1> QED
  BY <1>2, <1>3, <1>4, <1>5, <1>6

\* A worker gives up its fragment.
LEMMA JobDropped ==
  ASSUME AccountingTypeOK, WorkerTypeOK, Known, Unique, NEW w \in Worker, Drops(w),
         UNCHANGED <<fragments, pending>>
  PROVE  Known' /\ Unique'
<1>1. Queued' = Queued /\ NoRepeats(queue)' = NoRepeats(queue)
  BY DEF Queued, NoRepeats, Drops
<1>2. Fragment' = Fragment /\ None \notin Fragment /\ job \in [Worker -> Usize \cup {None}]
  BY FragmentFacts DEF Fragment, WorkerTypeOK
<1>3. job'[w] = None /\ (\A v \in Worker : v # w => job'[v] = job[v]) /\ batch' = batch
  BY <1>2 DEF Drops
<1>4. Known'
  BY <1>1, <1>2, <1>3 DEF Known
<1>5. \A v \in Worker : None \notin batch[v]
  BY <1>2 DEF Known
<1>6. Unique'
  BY <1>1, <1>3, <1>5 DEF Unique
<1> QED
  BY <1>4, <1>6

\* A worker merges its fragment's findings into its batch.
LEMMA JobMerged ==
  ASSUME AccountingTypeOK, WorkerTypeOK, Known, Unique, NEW w \in Worker, job[w] # None,
         Merges(w), UNCHANGED <<fragments, pending>>
  PROVE  Known' /\ Unique'
<1>1. Queued' = Queued /\ NoRepeats(queue)' = NoRepeats(queue)
  BY DEF Queued, NoRepeats, Merges
<1>2. /\ Fragment' = Fragment /\ None \notin Fragment
      /\ job \in [Worker -> Usize \cup {None}] /\ batch \in [Worker -> SUBSET Usize]
  BY FragmentFacts DEF Fragment, WorkerTypeOK
<1>3. /\ job'[w] = None /\ \A v \in Worker : v # w => job'[v] = job[v]
      /\ batch'[w] = batch[w] \cup {job[w]}
      /\ \A v \in Worker : v # w => batch'[v] = batch[v]
  BY <1>2 DEF Merges
<1>4. Known'
  BY <1>1, <1>2, <1>3 DEF Known
<1>5. \A v \in Worker : None \notin batch'[v]
  BY <1>2, <1>4 DEF Known
<1>6. Unique'
  BY <1>1, <1>3, <1>5 DEF Unique
<1> QED
  BY <1>4, <1>6

-----------------------------------------------------------------------------
(* What a step of the producer may do.                                     *)

WorkersRest == UNCHANGED <<workerVars, completedFragments>>

Spawns ==
  /\ producer = "spawn"
  /\ \E w \in Worker : Moves(w, {"unspawned"}, "top")
  /\ UNCHANGED <<token, stopVars, fragments, completedFragments, producerVars, queue, job, batch>>

GoesOn ==
  /\ \/ producer = "spawn" /\ producer' = "visit" /\ Spawned
     \/ producer = "visit" /\ producer' = "received"
     \/ producer = "received" /\ producer' = "accepted"
     \/ producer = "accepted" /\ producer' = "visit"
     \/ producer = "schedule" /\ producer' = "poll"
     \/ producer = "poll" /\ producer' = "send"
     \/ producer = "send" /\ producer' = "schedule"
     \/ producer = "join" /\ producer' = "finish" /\ Disconnected
  /\ UNCHANGED <<token, stopVars, fragments, pending, sourceResult, outcome, queue>>
  /\ WorkersRest

EndsVisit(result) ==
  /\ producer \in {"spawn"} \cup Visiting /\ producer' = "join"
  /\ sourceResult' = result /\ pending' = None
  /\ UNCHANGED <<token, fragments, outcome, queue>>
  /\ WorkersRest
  /\ stopped => stopped'
  /\ exceeded # None => exceeded' # None
  /\ stopped' => stopped \/ exceeded' # None \/ result = "Setup"
  /\ exceeded' # None => exceeded # None \/ stopped'
  /\ result \in SourceResult \ {"Rejected"}
  /\ result = "Setup" <=> producer = "spawn"
  /\ result = "Cancelled" => IsCancelled
  /\ result = "Inactive" => token
  /\ result = "Disconnected" => producer = "send" /\ Disconnected /\ ~stopped
  /\ pending # None => IsCancelled' \/ result = "Disconnected"

Admits ==
  /\ producer = "accepted" /\ ~IsCancelled
  /\ fragments' = fragments + 1
  /\ \/ producer' = "schedule" /\ pending' = fragments' /\ UNCHANGED sourceResult
     \/ producer' = "join" /\ pending' = None /\ sourceResult' = "Rejected"
  /\ UNCHANGED <<token, stopVars, outcome, queue>>
  /\ WorkersRest

Sends ==
  /\ producer = "send" /\ producer' = "visit"
  /\ Len(queue) < QueueCapacity
  /\ queue' = Append(queue, pending) /\ pending' = None
  /\ UNCHANGED <<token, stopVars, fragments, sourceResult, outcome>>
  /\ WorkersRest

\* A report of a refused admission stops the operation.
LEMMA RefusalStops ==
  ASSUME AccountingTypeOK,
         \/ RefuseIssue
         \/ \E bytes \in FragmentBytes : RefuseFragment(bytes)
  PROVE  /\ stopped' /\ exceeded' # None
         /\ UNCHANGED <<token, fragments, completedFragments>>
<1>1. CASE RefuseIssue
  <2> DEFINE report == [scope |-> "Operation", kind |-> "Issues", limit |-> MaxIssues,
                        consumed |-> MaxIssues, requested |-> 1]
  <2>1. MaxIssues \in Int
    BY <1>1 DEF RefuseIssue, AccountingTypeOK
  <2>2. report \in [scope : Scope, kind : Kind, limit : Int, consumed : Int, requested : Int]
    BY <2>1 DEF Scope, Kind
  <2>3. report # None
    BY <2>2, NoneAssumption
  <2>4. Stop(report) /\ UNCHANGED <<token, counterVars, scanVars>>
    BY <1>1 DEF RefuseIssue
  <2> QED
    BY <2>3, <2>4 DEF Stop, counterVars, scanVars
<1>2. ASSUME NEW bytes \in FragmentBytes, RefuseFragment(bytes)
      PROVE  /\ stopped' /\ exceeded' # None
             /\ UNCHANGED <<token, fragments, completedFragments>>
  <2>1. PICK i \in Refusals(bytes) : Stop(AdmissionCheck(bytes)[i])
    BY <1>2 DEF RefuseFragment
  <2>2. AdmissionCheck(bytes)[i] \in Report
    BY <2>1, AdmissionCheckType DEF Refusals
  <2>3. AdmissionCheck(bytes)[i] # None
    BY <2>2, NoneAssumption DEF Report, Usize
  <2> QED
    BY <1>2, <2>1, <2>3 DEF Stop, RefuseFragment, counterVars, scanVars
<1> QED
  BY <1>1, <1>2

\* Every step of the producer before the end of the run is one of these.
LEMMA ProducerMovesFragments ==
  ASSUME AccountingInv, ProducerInv, ProducerStep, Causes
  PROVE  \/ Spawns \/ GoesOn \/ Admits \/ Sends \/ FinishRun \/ ReportBudget
         \/ \E result \in SourceResult : EndsVisit(result)
<1>1. /\ AccountingTypeOK
      /\ producer \notin {"schedule", "poll", "send"} => pending = None
      /\ producer \in {"schedule", "poll", "send"} => pending # None
      /\ exceeded # None => stopped
  BY DEF AccountingInv, ProducerInv, ProducerHolds, Causes
<1> USE DEF Goto, Return, WorkersRest, Visiting, SourceResult
<1>2. CASE SpawnWorker
  BY <1>2 DEF SpawnWorker, Spawns, Moves, accountingVars, stopVars, counterVars, scanVars
<1>3. CASE StartVisit \/ CallbackPolls \/ JoinWorkers \/ ScheduleEnsuresActive \/ SchedulePolls
  <2>1. UNCHANGED <<token, stopVars, fragments, completedFragments, outcome, queue, workerVars>>
    BY <1>3 DEF StartVisit, CallbackPolls, JoinWorkers, ScheduleEnsuresActive, SchedulePolls,
       accountingVars, counterVars, scanVars
  <2>2. UNCHANGED <<stopped, exceeded>> /\ IsCancelled' = IsCancelled
    BY <2>1 DEF stopVars, IsCancelled
  <2>3. CASE StartVisit \/ JoinWorkers
    BY <2>1, <2>3 DEF StartVisit, JoinWorkers, GoesOn, Spawned
  <2>4. CASE CallbackPolls
    <3>1. CASE producer' = "accepted"
      BY <2>1, <2>4, <3>1 DEF CallbackPolls, GoesOn
    <3>2. CASE producer' = "join"
      <4>1. EndsVisit("Stop")
        BY <1>1, <2>1, <2>2, <2>4, <3>2 DEF CallbackPolls, EndsVisit
      <4> QED
        BY <4>1
    <3> QED
      BY <2>4, <3>1, <3>2 DEF CallbackPolls
  <2>5. CASE ScheduleEnsuresActive
    <3>1. CASE producer' = "poll"
      BY <2>1, <2>5, <3>1 DEF ScheduleEnsuresActive, GoesOn
    <3>2. CASE producer' = "join"
      <4>1. EndsVisit("Inactive")
        BY <1>1, <2>1, <2>2, <2>5, <3>2 DEF ScheduleEnsuresActive, EndsVisit, IsCancelled
      <4> QED
        BY <4>1
    <3> QED
      BY <2>5, <3>1, <3>2 DEF ScheduleEnsuresActive
  <2>6. CASE SchedulePolls
    <3>1. CASE producer' = "send"
      BY <2>1, <2>6, <3>1 DEF SchedulePolls, GoesOn
    <3>2. CASE producer' = "join"
      <4>1. EndsVisit("Stop")
        BY <1>1, <2>1, <2>2, <2>6, <3>2 DEF SchedulePolls, EndsVisit
      <4> QED
        BY <4>1
    <3> QED
      BY <2>6, <3>1, <3>2 DEF SchedulePolls
  <2> QED
    BY <1>3, <2>3, <2>4, <2>5, <2>6
<1>4. CASE AllocateHandlesFails \/ SpawnFails
  <2>1. EndsVisit("Setup")
    BY <1>1, <1>4 DEF AllocateHandlesFails, SpawnFails, StopInternally, EndsVisit,
       accountingVars, stopVars, counterVars, scanVars, IsCancelled
  <2> QED
    BY <2>1
<1>5. CASE SourceSeesCancellation \/ SourceReturns
  <2>1. PICK result \in {"Cancelled", "Continue", "Stop", "Terminal"} :
          /\ producer = "visit" /\ Return(result) /\ (result = "Cancelled" => IsCancelled)
          /\ UNCHANGED <<accountingVars, emitted, event, pending, commits, outcome,
                         queue, workerVars>>
    BY <1>5 DEF SourceSeesCancellation, SourceReturns
  <2>2. EndsVisit(result)
    BY <1>1, <2>1 DEF EndsVisit, accountingVars, stopVars, counterVars, scanVars
  <2> QED
    BY <2>2
<1>6. CASE SourceEmits
  <2>1. CASE producer' = "received"
    BY <1>6, <2>1 DEF SourceEmits, GoesOn, accountingVars, stopVars, counterVars, scanVars
  <2>2. CASE producer' = "join"
    <3>1. EndsVisit("Inactive")
      BY <1>1, <1>6, <2>2 DEF SourceEmits, EndsVisit, accountingVars, stopVars, counterVars,
         scanVars
    <3> QED
      BY <3>1
  <2> QED
    BY <1>6, <2>1, <2>2 DEF SourceEmits
<1>7. CASE CallbackTakesIssue
  <2>1. CASE RetainIssue /\ Goto("visit") /\ UNCHANGED sourceResult
    BY <1>7, <2>1 DEF CallbackTakesIssue, RetainIssue, GoesOn, stopVars, scanVars
  <2>2. CASE RefuseIssue /\ Return("Stop")
    <3>1. /\ stopped' /\ exceeded' # None
          /\ UNCHANGED <<token, fragments, completedFragments>>
      BY <1>1, <2>2, RefusalStops
    <3>2. EndsVisit("Stop")
      BY <1>1, <1>7, <2>2, <3>1 DEF CallbackTakesIssue, EndsVisit
    <3> QED
      BY <3>2
  <2> QED
    BY <1>7, <2>1, <2>2 DEF CallbackTakesIssue
<1>8. CASE CallbackRefusesFragment
  <2>1. CASE IsCancelled /\ UNCHANGED accountingVars
    <3>1. EndsVisit("Stop")
      BY <1>1, <1>8, <2>1 DEF CallbackRefusesFragment, EndsVisit, accountingVars, stopVars,
         counterVars, scanVars
    <3> QED
      BY <3>1
  <2>2. CASE RefuseFragment(event.bytes)
    <3>1. event.bytes \in FragmentBytes
      BY <1>8, EventBytes DEF CallbackRefusesFragment
    <3>2. /\ stopped' /\ exceeded' # None
          /\ UNCHANGED <<token, fragments, completedFragments>>
      BY <1>1, <2>2, <3>1, RefusalStops
    <3>3. EndsVisit("Stop")
      BY <1>1, <1>8, <3>2 DEF CallbackRefusesFragment, EndsVisit
    <3> QED
      BY <3>3
  <2> QED
    BY <1>8, <2>1, <2>2 DEF CallbackRefusesFragment
<1>9. CASE CallbackAdmitsFragment
  BY <1>1, <1>9 DEF CallbackAdmitsFragment, Admit, Admits, scanVars
<1>10. CASE TrySend
  BY <1>1, <1>10 DEF TrySend, Sends, GoesOn, accountingVars, counterVars, scanVars
<1>11. CASE SendFails
  <2>1. EndsVisit(DisconnectedResult)
    BY <1>1, <1>11 DEF SendFails, EndsVisit, DisconnectedResult, accountingVars, stopVars,
       counterVars, scanVars, IsCancelled
  <2>2. DisconnectedResult \in SourceResult
    BY DEF DisconnectedResult
  <2> QED
    BY <2>1, <2>2
<1> QED
  BY <1>2, <1>3, <1>4, <1>5, <1>6, <1>7, <1>8, <1>9, <1>10, <1>11 DEF ProducerStep

-----------------------------------------------------------------------------
(* No step puts a fragment in two places.                                  *)

LEMMA ProducerPlaces ==
  ASSUME RunnerInv, Known, Unique, Causes, ProducerStep
  PROVE  Known' /\ Unique'
<1>1. AccountingTypeOK /\ QueueInv /\ (producer \notin {"schedule", "poll", "send"} <=> pending = None)
  BY DEF RunnerInv, AccountingInv, ProducerInv, ProducerHolds
<1>2. CASE Spawns \/ GoesOn
  BY <1>2, NothingMoves DEF Spawns, GoesOn, WorkersRest, workerVars, producerVars
<1>3. CASE FinishRun \/ ReportBudget
  BY <1>3, NothingMoves DEF FinishRun, ReportBudget, workerVars, accountingVars, counterVars
<1>4. CASE Admits
  BY <1>1, <1>4, FragmentAdmitted DEF Admits, WorkersRest, workerVars
<1>5. CASE Sends
  BY <1>1, <1>5, PendingSent DEF Sends, WorkersRest, workerVars
<1>6. ASSUME NEW result \in SourceResult, EndsVisit(result)
      PROVE  Known' /\ Unique'
  BY <1>1, <1>6, PendingDropped DEF EndsVisit, WorkersRest, workerVars
<1> QED
  BY <1>2, <1>3, <1>4, <1>5, <1>6, ProducerMovesFragments DEF RunnerInv

LEMMA WorkerPlaces ==
  ASSUME RunnerInv, Known, Unique, NEW w \in Worker, WorkerStep(w)
  PROVE  Known' /\ Unique'
<1>1. /\ AccountingTypeOK /\ QueueInv /\ WorkerTypeOK
      /\ worker[w] \in {"reserve", "acquire", "scan", "merge"} <=> job[w] # None
  BY DEF RunnerInv, AccountingInv, WorkersInv, WorkerHolds
<1>2. UNCHANGED <<fragments, pending>>
  BY WorkerMovesFragments DEF RunnerInv, producerVars
<1>3. CASE MovesOn(w) \/ Leaves(w) \/ Completes(w)
  BY <1>2, <1>3, NothingMoves DEF MovesOn, Leaves, Completes, NothingMoved
<1>4. CASE Takes(w)
  BY <1>1, <1>2, <1>4, HeadReceived DEF Takes, Moves
<1>5. CASE GivesUp(w) \/ Panics(w)
  BY <1>1, <1>2, <1>5, JobDropped DEF GivesUp, Panics
<1>6. CASE Merges(w)
  <2>1. job[w] # None
    BY <1>1, <1>6 DEF Merges, Moves
  <2> QED
    BY <1>1, <1>2, <1>6, <2>1, JobMerged
<1> QED
  BY <1>3, <1>4, <1>5, <1>6, WorkerMovesFragments DEF RunnerInv

-----------------------------------------------------------------------------
(* Only a cancelled operation loses a fragment.                            *)

\* With every worker spawned and none running, a channel that is still fed means that
\* the operation was cancelled.
LEMMA DisconnectedMeansCancelled ==
  ASSUME Whole, Spawned, Disconnected, SenderOpen
  PROVE  IsCancelled
<1> SUFFICES ASSUME ~IsCancelled PROVE FALSE
  OBVIOUS
<1>1. PICK w \in Worker : TRUE
  BY RunnerAssumption
<1>2. worker[w] = "exited"
  BY <1>1 DEF Whole, Spawned, Disconnected, Ended, WorkerPanicked
<1> QED
  BY <1>1, <1>2 DEF Whole

LEMMA ProducerWhole ==
  ASSUME RunnerInv, Known, Unique, Whole, Causes, ProducerStep
  PROVE  Whole'
<1>1. /\ AccountingTypeOK /\ QueueInv /\ WorkerTypeOK
      /\ producer \notin {"schedule", "poll", "send"} <=> pending = None
  BY DEF RunnerInv, AccountingInv, WorkersInv, ProducerInv, ProducerHolds
<1>2. CASE Spawns
  <2>1. PICK w \in Worker : Moves(w, {"unspawned"}, "top")
    BY <1>2 DEF Spawns
  <2>2. /\ UNCHANGED <<token, stopped, fragments, producer, sourceResult, pending, queue, job, batch>>
        /\ producer = "spawn"
    BY <1>2 DEF Spawns, producerVars, stopVars
  <2>3. /\ \A v \in Worker : worker'[v] = "unspawned" => worker[v] = "unspawned"
        /\ \A v \in Worker : worker'[v] = "exited" => worker[v] = "exited"
        /\ WorkerPanicked' => WorkerPanicked
        /\ SenderOpen' = SenderOpen /\ IsCancelled' = IsCancelled
    BY <1>1, <2>1, <2>2 DEF WorkerTypeOK, WorkerPanicked, SenderOpen, IsCancelled, Moves
  <2>4. Fragment' = Fragment /\ \A f : Somewhere(f)' = Somewhere(f)
    BY <2>2, NothingMoves DEF Fragment
  <2> QED
    BY <2>2, <2>3, <2>4 DEF Whole, Visiting
<1>3. CASE GoesOn
  <2>1. /\ UNCHANGED <<token, stopped, fragments, pending, sourceResult, queue, worker, job, batch>>
    BY <1>3 DEF GoesOn, WorkersRest, workerVars, stopVars
  <2>2. /\ Fragment' = Fragment /\ \A f : Somewhere(f)' = Somewhere(f)
        /\ IsCancelled' = IsCancelled /\ WorkerPanicked' = WorkerPanicked
        /\ Spawned' = Spawned
    BY <2>1, NothingMoves DEF Fragment, IsCancelled, WorkerPanicked, Spawned
  <2>3. /\ SenderOpen' => SenderOpen
        /\ producer' \in Visiting => Spawned
        /\ producer' \in {"join", "finish", "report", "done"} =>
             producer \in {"join", "finish", "report", "done"}
    BY <1>3 DEF GoesOn, SenderOpen, Visiting, Whole
  <2> QED
    BY <2>1, <2>2, <2>3 DEF Whole
<1>4. CASE FinishRun \/ ReportBudget
  <2>1. /\ UNCHANGED <<token, stopped, fragments, pending, sourceResult, queue, worker, job, batch>>
        /\ producer \in {"finish", "report"} /\ producer' \in {"report", "done"}
    BY <1>4 DEF FinishRun, ReportBudget, Goto, accountingVars, counterVars, stopVars, workerVars
  <2>2. /\ Fragment' = Fragment /\ \A f : Somewhere(f)' = Somewhere(f)
        /\ IsCancelled' = IsCancelled /\ WorkerPanicked' = WorkerPanicked
        /\ Spawned' = Spawned /\ ~SenderOpen'
    BY <2>1, NothingMoves DEF Fragment, IsCancelled, WorkerPanicked, Spawned, SenderOpen, Visiting
  <2> QED
    BY <2>1, <2>2 DEF Whole, Visiting
<1>5. CASE Admits
  <2>1. /\ UNCHANGED <<token, stopped, queue, worker, job, batch>> /\ producer = "accepted"
        /\ \/ producer' = "schedule" /\ pending' = fragments + 1 /\ UNCHANGED sourceResult
           \/ producer' = "join" /\ sourceResult' = "Rejected"
    BY <1>5 DEF Admits, WorkersRest, workerVars, stopVars
  <2>2. Fragment' = Fragment \cup {fragments + 1} /\ pending = None
    BY <1>1, <1>5, FragmentAdmitted DEF Admits, WorkersRest, workerVars
  <2>3. /\ IsCancelled' = IsCancelled /\ WorkerPanicked' = WorkerPanicked
        /\ Spawned' = Spawned /\ Queued' = Queued /\ SenderOpen /\ Spawned
    BY <2>1 DEF IsCancelled, WorkerPanicked, Spawned, Queued, SenderOpen, Visiting, Whole
  <2>4. ASSUME NEW f \in Fragment', ~IsCancelled, sourceResult' # "Rejected"
        PROVE  Somewhere(f)'
    <3>1. CASE f = fragments + 1
      BY <2>1, <2>4, <3>1 DEF Somewhere
    <3>2. CASE f \in Fragment
      <4>1. Somewhere(f) /\ f # None
        BY <1>1, <2>1, <2>4, <3>2, FragmentFacts DEF Whole
      <4> QED
        BY <2>1, <2>2, <2>3, <4>1 DEF Somewhere
    <3> QED
      BY <2>2, <3>1, <3>2
  <2> QED
    BY <2>1, <2>3, <2>4 DEF Whole
<1>6. CASE Sends
  <2>1. /\ UNCHANGED <<token, stopped, fragments, sourceResult, worker, job, batch>>
        /\ producer = "send" /\ producer' = "visit" /\ pending # None
    BY <1>1, <1>6 DEF Sends, WorkersRest, workerVars, stopVars
  <2>2. Queued' = Queued \cup {pending} /\ Fragment' = Fragment
    BY <1>1, <1>6, <2>1, PendingSent DEF Sends, WorkersRest, workerVars, Fragment
  <2>3. /\ IsCancelled' = IsCancelled /\ WorkerPanicked' = WorkerPanicked
        /\ Spawned' = Spawned /\ SenderOpen /\ SenderOpen' /\ Spawned
    BY <2>1 DEF IsCancelled, WorkerPanicked, Spawned, SenderOpen, Visiting, Whole
  <2>4. \A f : Somewhere(f) => Somewhere(f)'
    BY <2>1, <2>2 DEF Somewhere
  <2> QED
    BY <2>1, <2>2, <2>3, <2>4 DEF Whole
<1>7. ASSUME NEW result \in SourceResult, EndsVisit(result)
      PROVE  Whole'
  <2>1. /\ UNCHANGED <<token, fragments, queue, worker, job, batch>>
        /\ sourceResult' = result /\ producer' = "join" /\ pending' = None
        /\ producer \in {"spawn"} \cup Visiting
    BY <1>7 DEF EndsVisit, WorkersRest, workerVars
  <2>2. /\ WorkerPanicked' = WorkerPanicked /\ Spawned' = Spawned /\ Queued' = Queued
        /\ Fragment' = Fragment /\ SenderOpen /\ ~SenderOpen'
        /\ result # "Setup" => Spawned
    BY <1>7, <2>1 DEF WorkerPanicked, Spawned, Queued, Fragment, SenderOpen, Visiting, Whole,
       EndsVisit
  <2>3. ASSUME ~IsCancelled'
        PROVE  pending = None /\ ~IsCancelled
    <3>1. ~IsCancelled
      BY <1>7, <2>3 DEF EndsVisit, IsCancelled
    <3>2. result # "Disconnected"
      BY <1>7, <2>2, <3>1, DisconnectedMeansCancelled DEF EndsVisit
    <3> QED
      BY <1>7, <2>3, <3>1, <3>2 DEF EndsVisit
  <2>4. ASSUME ~IsCancelled', NEW f \in Fragment
        PROVE  Somewhere(f)'
    <3>1. Somewhere(f)
      BY <2>1, <2>3, <2>4 DEF Whole, Causes
    <3> QED
      BY <2>1, <2>2, <2>3, <2>4, <3>1 DEF Somewhere
  <2> QED
    BY <2>1, <2>2, <2>3, <2>4 DEF Whole, Visiting
<1> QED
  BY <1>2, <1>3, <1>4, <1>5, <1>6, <1>7, ProducerMovesFragments DEF RunnerInv

LEMMA WorkerWhole ==
  ASSUME RunnerInv, Known, Unique, Whole, NEW w \in Worker, WorkerStep(w)
  PROVE  Whole'
<1>1. /\ AccountingTypeOK /\ QueueInv /\ WorkerTypeOK
      /\ worker[w] \in {"reserve", "acquire", "scan", "merge"} <=> job[w] # None
  BY DEF RunnerInv, AccountingInv, WorkersInv, WorkerHolds
<1>2. /\ UNCHANGED <<producer, pending, sourceResult, fragments, token>> /\ StopGrows(w)
      /\ Fragment' = Fragment /\ SenderOpen' = SenderOpen
  BY WorkerMovesFragments DEF RunnerInv, producerVars, StopGrows, Fragment, SenderOpen
<1>3. PICK pc \in WorkerPc \ {"unspawned"} :
        /\ worker' = [worker EXCEPT ![w] = pc] /\ worker[w] \notin Ended
        /\ pc = "panicked" => Panics(w)
        /\ pc = "exited" => Leaves(w) \/ GivesUp(w)
  BY WorkerMovesFragments DEF RunnerInv, MovesOn, Leaves, Takes, GivesUp, Completes, Merges,
     Panics, Moves, WorkerPc, Ended
<1>4. /\ worker'[w] = pc /\ \A v \in Worker : v # w => worker'[v] = worker[v]
      /\ Spawned => Spawned'
      /\ ~IsCancelled' => ~IsCancelled
  BY <1>1, <1>2, <1>3 DEF WorkerTypeOK, Spawned, IsCancelled, StopGrows, Ended
<1>5. \A v \in Worker : worker'[v] = "unspawned" => batch'[v] = {}
  <2>1. batch' = batch \/ batch' = [batch EXCEPT ![w] = batch[w] \cup {job[w]}]
    BY WorkerMovesFragments DEF RunnerInv, MovesOn, Leaves, Takes, GivesUp, Completes, Merges,
       Panics, NothingMoved, Drops
  <2> QED
    BY <1>1, <1>3, <1>4, <2>1 DEF Whole, WorkerTypeOK
<1>6. ASSUME ~IsCancelled'
      PROVE  ~WorkerPanicked'
  <2>1. pc # "panicked"
    BY <1>3, <1>6 DEF Panics, IsCancelled
  <2> QED
    BY <1>4, <1>6, <2>1 DEF WorkerPanicked, Whole
<1>7. ASSUME ~IsCancelled', NEW v \in Worker, worker'[v] = "exited"
      PROVE  queue' = <<>> /\ ~SenderOpen
  <2>1. CASE v # w
    <3>1. queue = <<>> /\ ~SenderOpen
      BY <1>4, <1>7, <2>1 DEF Whole
    <3>2. queue' = queue
      BY <3>1, WorkerMovesFragments DEF RunnerInv, MovesOn, Leaves, Takes, GivesUp, Completes,
         Merges, Panics, NothingMoved, Drops
    <3> QED
      BY <3>1, <3>2
  <2>2. CASE v = w
    BY <1>3, <1>4, <1>7, <2>2 DEF Leaves, GivesUp, NothingMoved
  <2> QED
    BY <2>1, <2>2
<1>8. ASSUME ~IsCancelled', NEW f \in Fragment, Somewhere(f)
      PROVE  Somewhere(f)'
  <2>1. CASE MovesOn(w) \/ Leaves(w) \/ Completes(w)
    BY <1>2, <1>8, <2>1, NothingMoves DEF MovesOn, Leaves, Completes, NothingMoved
  <2>2. CASE Takes(w)
    <3>1. /\ Queued = {job'[w]} \cup Queued' /\ job[w] = None /\ batch' = batch
      BY <1>1, <1>2, <2>2, HeadReceived DEF Takes, Moves
    <3>2. f # None /\ \A v \in Worker : v # w => job'[v] = job[v]
      BY <1>1, <2>2, FragmentFacts DEF Takes, WorkerTypeOK
    <3> QED
      BY <1>2, <1>8, <3>1, <3>2 DEF Somewhere
  <2>3. CASE GivesUp(w)
    BY <1>8, <2>3 DEF GivesUp
  <2>4. CASE Panics(w)
    BY <1>8, <2>4 DEF Panics, IsCancelled
  <2>5. CASE Merges(w)
    <3>1. /\ UNCHANGED queue /\ batch'[w] = batch[w] \cup {job[w]}
          /\ \A v \in Worker : v # w => job'[v] = job[v] /\ batch'[v] = batch[v]
      BY <1>1, <2>5 DEF Merges, WorkerTypeOK
    <3>2. Queued' = Queued
      BY <3>1 DEF Queued
    <3> QED
      BY <1>2, <1>8, <3>1, <3>2 DEF Somewhere
  <2> QED
    BY <2>1, <2>2, <2>3, <2>4, <2>5, WorkerMovesFragments DEF RunnerInv
<1> QED
  BY <1>2, <1>4, <1>5, <1>6, <1>7, <1>8 DEF Whole

-----------------------------------------------------------------------------
(* Every stop keeps its cause.                                             *)

LEMMA ProducerCauses ==
  ASSUME RunnerInv, Whole, Causes, ProducerStep
  PROVE  Causes'
<1> USE DEF Visiting, IsCancelled
<1>1. WorkerTypeOK
  BY DEF RunnerInv, WorkersInv
<1>2. CASE Spawns
  <2>1. PICK w \in Worker : Moves(w, {"unspawned"}, "top")
    BY <1>2 DEF Spawns
  <2>2. WorkerPanicked => WorkerPanicked'
    BY <1>1, <2>1 DEF WorkerTypeOK, WorkerPanicked, Moves
  <2>3. UNCHANGED <<token, stopped, exceeded, producer, sourceResult>> /\ producer = "spawn"
    BY <1>2 DEF Spawns, stopVars, producerVars
  <2> QED
    BY <2>2, <2>3 DEF Causes
<1>3. CASE GoesOn \/ Sends \/ FinishRun \/ ReportBudget
  <2>1. /\ UNCHANGED <<token, stopped, exceeded, sourceResult, worker>>
        /\ producer' \in {"spawn"} \cup Visiting => producer \in {"spawn"} \cup Visiting
        /\ producer' \in {"finish", "report", "done"} =>
             producer \in {"finish", "report", "done"} \/ Disconnected
    BY <1>3 DEF GoesOn, Sends, FinishRun, ReportBudget, Goto, WorkersRest, workerVars,
       accountingVars, stopVars
  <2>2. Disconnected' = Disconnected /\ WorkerPanicked' = WorkerPanicked
    BY <2>1 DEF Disconnected, WorkerPanicked
  <2> QED
    BY <2>1, <2>2 DEF Causes
<1>4. CASE Admits
  <2>1. /\ UNCHANGED <<token, stopped, exceeded, worker>> /\ producer = "accepted"
        /\ \/ producer' = "schedule" /\ UNCHANGED sourceResult
           \/ producer' = "join" /\ sourceResult' = "Rejected"
    BY <1>4 DEF Admits, WorkersRest, workerVars, stopVars
  <2>2. WorkerPanicked' = WorkerPanicked
    BY <2>1 DEF WorkerPanicked
  <2> QED
    BY <2>1, <2>2 DEF Causes
<1>5. ASSUME NEW result \in SourceResult, EndsVisit(result)
      PROVE  Causes'
  <2>1. WorkerPanicked' = WorkerPanicked
    BY <1>5 DEF EndsVisit, WorkersRest, workerVars, WorkerPanicked
  <2>2. sourceResult = "Continue"
    BY <1>5 DEF EndsVisit, Causes
  <2>3. result = "Disconnected" => token
    <3>1. SUFFICES ASSUME result = "Disconnected" PROVE token
      OBVIOUS
    <3>2. producer = "send" /\ Disconnected /\ ~stopped
      BY <1>5, <3>1 DEF EndsVisit
    <3>3. IsCancelled
      BY <3>2, DisconnectedMeansCancelled DEF Whole, SenderOpen
    <3> QED
      BY <3>2, <3>3
  <2> QED
    BY <1>5, <2>1, <2>2, <2>3 DEF EndsVisit, Causes
<1> QED
  BY <1>2, <1>3, <1>4, <1>5, ProducerMovesFragments DEF RunnerInv

LEMMA WorkerCauses ==
  ASSUME RunnerInv, Causes, NEW w \in Worker, WorkerStep(w)
  PROVE  Causes'
<1>1. UNCHANGED <<producer, sourceResult>> /\ StopGrows(w)
  BY WorkerMovesFragments DEF RunnerInv, producerVars
<1>2. PICK pc : worker' = [worker EXCEPT ![w] = pc] /\ worker[w] \notin Ended
  BY WorkerMovesFragments DEF RunnerInv, MovesOn, Leaves, Takes, GivesUp, Completes, Merges,
     Panics, Moves, Ended
<1>3. producer \notin {"finish", "report", "done"}
  BY <1>2 DEF Causes, Disconnected
<1>4. /\ WorkerPanicked => WorkerPanicked'
      /\ worker'[w] = "panicked" => WorkerPanicked'
  BY <1>2 DEF RunnerInv, WorkersInv, WorkerTypeOK, WorkerPanicked, Ended
<1> QED
  BY <1>1, <1>3, <1>4 DEF Causes, StopGrows, IsCancelled

-----------------------------------------------------------------------------
(* How many fragments are unfinished.                                      *)

LEMMA WorkersCounted ==
  /\ IsFiniteSet(Busy) /\ Cardinality(Busy) \in Nat
  /\ IsFiniteSet(Behind) /\ Cardinality(Behind) \in 0 .. Cardinality(Worker)
<1>1. IsFiniteSet(Worker) /\ Busy \in SUBSET Worker /\ Behind \in SUBSET Worker
  BY BudgetAssumption DEF Busy, Gone, Behind
<1>2. IsFiniteSet(Busy) /\ IsFiniteSet(Behind) /\ Cardinality(Behind) <= Cardinality(Worker)
  BY <1>1, FS_Subset
<1> QED
  BY <1>1, <1>2, FS_CardinalityType

BusyPc == {"reserve", "acquire", "scan"}
BehindPc == BusyPc \cup {"exited", "panicked"}

\* A worker that moves enters or leaves those sets alone.
LEMMA WorkerCounted ==
  ASSUME WorkerTypeOK, NEW w \in Worker, NEW pc, worker' = [worker EXCEPT ![w] = pc]
  PROVE  /\ Cardinality(Busy') = Cardinality(Busy) + (IF pc \in BusyPc THEN 1 ELSE 0)
                                   - (IF worker[w] \in BusyPc THEN 1 ELSE 0)
         /\ Cardinality(Behind') = Cardinality(Behind) + (IF pc \in BehindPc THEN 1 ELSE 0)
                                     - (IF worker[w] \in BehindPc THEN 1 ELSE 0)
<1>1. worker'[w] = pc /\ \A v \in Worker : v # w => worker'[v] = worker[v]
  BY DEF WorkerTypeOK
<1> DEFINE Where(pcs) == {v \in Worker : worker[v] \in pcs}
<1>2. ASSUME NEW pcs
      PROVE  Cardinality(Where(pcs)') = Cardinality(Where(pcs)) + (IF pc \in pcs THEN 1 ELSE 0)
                                         - (IF worker[w] \in pcs THEN 1 ELSE 0)
  <2> DEFINE old == Where(pcs)
             new == {v \in Worker : worker'[v] \in pcs}
  <2>1. IsFiniteSet(old) /\ Cardinality(old) \in Nat
    BY BudgetAssumption, FS_Subset, FS_CardinalityType
  <2>2. /\ new = IF pc \in pcs THEN old \cup {w} ELSE old \ {w}
        /\ w \in old <=> worker[w] \in pcs
    BY <1>1
  <2> HIDE DEF old, new
  <2>3. /\ Cardinality(old \cup {w}) = IF w \in old THEN Cardinality(old) ELSE Cardinality(old) + 1
        /\ Cardinality(old \ {w}) = IF w \in old THEN Cardinality(old) - 1 ELSE Cardinality(old)
    BY <2>1, FS_AddElement, FS_RemoveElement
  <2>4. Cardinality(new) = Cardinality(old) + (IF pc \in pcs THEN 1 ELSE 0)
                                             - (IF worker[w] \in pcs THEN 1 ELSE 0)
    BY <2>1, <2>2, <2>3
  <2> QED
    BY <2>4 DEF old, new
<1>3. Busy = Where(BusyPc) /\ Busy' = Where(BusyPc)'
  BY DEF Busy, BusyPc
<1>4. Behind = Where(BehindPc) /\ Behind' = Where(BehindPc)'
  BY DEF Behind, Busy, Gone, BusyPc, BehindPc
<1> HIDE DEF Where
<1> QED
  BY <1>2, <1>3, <1>4

LEMMA ProducerCounts ==
  ASSUME RunnerInv, Known, Unique, Causes, Counts, ProducerStep
  PROVE  Counts'
<1>1. /\ AccountingTypeOK /\ WorkerTypeOK /\ queue \in Seq(Usize) /\ Len(queue) \in Nat
      /\ fragments \in Nat /\ completedFragments \in Nat
      /\ producer \notin {"schedule", "poll", "send"} <=> pending = None
      /\ QueueCapacity \in Nat
  BY LimitFacts, RunnerAssumption DEF RunnerInv, AccountingInv, AccountingTypeOK, WorkersInv, ProducerInv, ProducerHolds,
     QueueInv, Usize
<1>2. Cardinality(Busy) \in Nat /\ Cardinality(Behind) \in Nat
  BY WorkersCounted, FS_CardinalityType
<1>3. CASE Spawns
  <2>1. PICK w \in Worker : Moves(w, {"unspawned"}, "top")
    BY <1>3 DEF Spawns
  <2>2. Cardinality(Busy') = Cardinality(Busy) /\ Cardinality(Behind') = Cardinality(Behind)
    <3>1. worker[w] = "unspawned" /\ worker' = [worker EXCEPT ![w] = "top"]
      BY <2>1 DEF Moves
    <3>2. /\ Cardinality(Busy') = Cardinality(Busy) + (IF "top" \in BusyPc THEN 1 ELSE 0)
                                     - (IF worker[w] \in BusyPc THEN 1 ELSE 0)
          /\ Cardinality(Behind') = Cardinality(Behind) + (IF "top" \in BehindPc THEN 1 ELSE 0)
                                       - (IF worker[w] \in BehindPc THEN 1 ELSE 0)
      BY <1>1, <3>1, WorkerCounted
    <3> QED
      BY <1>2, <3>1, <3>2 DEF BusyPc, BehindPc
  <2>3. UNCHANGED <<fragments, completedFragments, producer, pending, queue>>
    BY <1>3 DEF Spawns, producerVars
  <2> QED
    BY <2>2, <2>3 DEF Counts
<1>4. ASSUME UNCHANGED worker
      PROVE  Busy' = Busy /\ Behind' = Behind
  BY <1>4 DEF Busy, Gone, Behind
<1>5. CASE GoesOn
  <2>1. /\ UNCHANGED <<fragments, completedFragments, queue, worker, pending>>
        /\ producer' \in Early <=> producer \in Early
    BY <1>5 DEF GoesOn, WorkersRest, workerVars, Early
  <2> QED
    BY <1>4, <2>1 DEF Counts
<1>6. CASE FinishRun \/ ReportBudget
  <2>1. /\ UNCHANGED <<fragments, completedFragments, queue, worker, pending>>
        /\ producer' \notin Early /\ producer \notin Early
    BY <1>6 DEF FinishRun, ReportBudget, Goto, workerVars, accountingVars, counterVars, scanVars,
       Early
  <2> QED
    BY <1>4, <2>1 DEF Counts
<1>7. CASE Admits
  <2>1. /\ UNCHANGED <<completedFragments, queue, worker>> /\ fragments' = fragments + 1
        /\ producer' \notin Early /\ producer \in Early /\ pending = None
    BY <1>1, <1>7 DEF Admits, WorkersRest, workerVars, Early
  <2> QED
    BY <1>1, <1>2, <1>4, <2>1 DEF Counts
<1>8. CASE Sends
  <2>1. /\ UNCHANGED <<completedFragments, fragments, worker>>
        /\ producer' \in Early /\ producer \notin Early /\ pending # None /\ pending' = None
        /\ Len(queue) < QueueCapacity /\ queue' = Append(queue, pending)
    BY <1>1, <1>8 DEF Sends, WorkersRest, workerVars, Early
  <2>2. Len(queue') = Len(queue) + 1
    BY <1>1, <2>1, AppendFacts DEF RunnerInv, ProducerInv, ProducerTypeOK
  <2> QED
    BY <1>1, <1>2, <1>4, <2>1, <2>2 DEF Counts
<1>9. ASSUME NEW result \in SourceResult, EndsVisit(result)
      PROVE  Counts'
  <2>1. /\ UNCHANGED <<completedFragments, fragments, queue, worker>>
        /\ producer' \notin Early /\ pending' = None
    BY <1>9 DEF EndsVisit, WorkersRest, workerVars, Early
  <2> QED
    BY <1>1, <1>2, <1>4, <2>1 DEF Counts
<1> QED
  BY <1>3, <1>5, <1>6, <1>7, <1>8, <1>9, ProducerMovesFragments DEF RunnerInv

LEMMA WorkerCounts ==
  ASSUME RunnerInv, Counts, NEW w \in Worker, WorkerStep(w)
  PROVE  Counts'
<1>1. /\ WorkerTypeOK /\ queue \in Seq(Usize) /\ Len(queue) \in Nat
      /\ fragments \in Nat /\ completedFragments \in Nat /\ QueueCapacity \in Nat
  BY LimitFacts, RunnerAssumption DEF RunnerInv, AccountingInv, AccountingTypeOK, WorkersInv,
     QueueInv, Usize
<1>2. Cardinality(Busy) \in Nat /\ Cardinality(Behind) \in Nat
  BY WorkersCounted
<1>3. UNCHANGED <<producer, pending, fragments>>
  BY WorkerMovesFragments DEF RunnerInv, producerVars
<1>4. ASSUME NEW from, NEW pc, Moves(w, from, pc)
      PROVE  /\ Cardinality(Busy') = Cardinality(Busy) + (IF pc \in BusyPc THEN 1 ELSE 0)
                                       - (IF worker[w] \in BusyPc THEN 1 ELSE 0)
             /\ Cardinality(Behind') = Cardinality(Behind) + (IF pc \in BehindPc THEN 1 ELSE 0)
                                         - (IF worker[w] \in BehindPc THEN 1 ELSE 0)
             /\ worker[w] \in from
  BY <1>1, <1>4, WorkerCounted DEF Moves
<1> USE DEF BusyPc, BehindPc
<1>5. CASE MovesOn(w) \/ Merges(w)
  <2>1. Cardinality(Busy') = Cardinality(Busy) /\ Cardinality(Behind') = Cardinality(Behind)
    BY <1>2, <1>4, <1>5 DEF MovesOn, Merges
  <2>2. UNCHANGED <<queue, completedFragments>>
    BY <1>5 DEF MovesOn, Merges, NothingMoved, NoneCompleted
  <2> QED
    BY <1>3, <2>1, <2>2 DEF Counts
<1>6. CASE Leaves(w)
  <2>1. Cardinality(Busy') = Cardinality(Busy) /\ Cardinality(Behind') = Cardinality(Behind) + 1
    BY <1>2, <1>4, <1>6 DEF Leaves
  <2>2. UNCHANGED <<queue, completedFragments>>
    BY <1>6 DEF Leaves, NothingMoved, NoneCompleted
  <2> QED
    BY <1>1, <1>2, <1>3, <2>1, <2>2 DEF Counts
<1>7. CASE Takes(w)
  <2>1. Cardinality(Busy') = Cardinality(Busy) + 1 /\ Cardinality(Behind') = Cardinality(Behind) + 1
    BY <1>2, <1>4, <1>7 DEF Takes
  <2>2. queue # <<>> /\ queue' = Tail(queue) /\ UNCHANGED completedFragments
    BY <1>7 DEF Takes, NoneCompleted
  <2>3. Len(queue) = Len(queue') + 1 /\ Len(queue') \in Nat
    BY <1>1, <2>2, TailFacts
  <2> QED
    BY <1>1, <1>2, <1>3, <2>1, <2>2, <2>3 DEF Counts
<1>8. CASE GivesUp(w)
  <2>1. Cardinality(Busy') = Cardinality(Busy) - 1 /\ Cardinality(Behind') = Cardinality(Behind)
    BY <1>2, <1>4, <1>8 DEF GivesUp
  <2>2. UNCHANGED <<queue, completedFragments>>
    BY <1>8 DEF GivesUp, Drops, NoneCompleted
  <2> QED
    BY <1>1, <1>2, <1>3, <2>1, <2>2 DEF Counts
<1>9. CASE Completes(w)
  <2>1. /\ Cardinality(Busy') = Cardinality(Busy) - 1
        /\ Cardinality(Behind') = Cardinality(Behind) - 1
    BY <1>2, <1>4, <1>9 DEF Completes
  <2>2. UNCHANGED queue /\ completedFragments' = completedFragments + 1
    BY <1>9 DEF Completes, NothingMoved
  <2> QED
    BY <1>1, <1>2, <1>3, <2>1, <2>2 DEF Counts
<1>10. CASE Panics(w)
  <2>1. /\ Cardinality(Busy') <= Cardinality(Busy)
        /\ Cardinality(Behind') >= Cardinality(Behind)
        /\ Cardinality(Busy') \in Int /\ Cardinality(Behind') \in Int
    BY <1>2, <1>4, <1>10 DEF Panics
  <2>2. UNCHANGED <<queue, completedFragments>>
    BY <1>10 DEF Panics, Drops, NoneCompleted
  <2> QED
    BY <1>1, <1>2, <1>3, <2>1, <2>2 DEF Counts
<1> QED
  BY <1>5, <1>6, <1>7, <1>8, <1>9, <1>10, WorkerMovesFragments DEF RunnerInv

-----------------------------------------------------------------------------
(* A completed scan is merged, unless a worker panics.                     *)

HasScanned(f) ==
  \E w \in Worker : f \in batch[w] \/ (worker[w] = "merge" /\ f = job[w])

LEMMA ScannedElements ==
  /\ \A f : f \in Scanned <=> HasScanned(f)
  /\ \A f : f \in Scanned' <=> HasScanned(f)'
<1>1. \A f : f \in Scanned <=> HasScanned(f)
  BY DEF Scanned, Merging, HasScanned
<1>2. \A f : f \in Scanned' <=> HasScanned(f)'
  BY DEF Scanned, Merging, HasScanned
<1> QED
  BY <1>1, <1>2

\* The completed scans are of admitted fragments, so there are finitely many.
LEMMA ScannedFinite ==
  ASSUME AccountingTypeOK, WorkersInv, Known
  PROVE  IsFiniteSet(Scanned) /\ Cardinality(Scanned) \in Nat
<1>1. \A f : HasScanned(f) => f \in Fragment
  BY DEF HasScanned, Known, WorkersInv, WorkerHolds
<1>2. Scanned \in SUBSET Fragment
  BY <1>1, ScannedElements
<1> QED
  BY <1>2, FragmentFacts, FS_Subset, FS_CardinalityType

LEMMA ProducerUsage ==
  ASSUME RunnerInv, Causes, Usage, ProducerStep
  PROVE  Usage'
<1>1. WorkerTypeOK
  BY DEF RunnerInv, WorkersInv
<1>2. UNCHANGED <<job, batch, completedFragments>>
  BY ProducerMovesFragments DEF RunnerInv, Spawns, GoesOn, Sends, Admits, EndsVisit, WorkersRest,
     workerVars, FinishRun, ReportBudget, accountingVars, scanVars
<1>3. UNCHANGED worker \/ \E w \in Worker : Moves(w, {"unspawned"}, "top")
  BY ProducerMovesFragments DEF RunnerInv, Spawns, GoesOn, Sends, Admits, EndsVisit, WorkersRest,
     workerVars, FinishRun, ReportBudget
<1>4. Merging' = Merging /\ WorkerPanicked' = WorkerPanicked
  BY <1>1, <1>3 DEF Merging, WorkerPanicked, Moves, WorkerTypeOK
<1>5. Scanned' = Scanned
  BY <1>2, <1>4 DEF Scanned
<1> QED
  BY <1>2, <1>4, <1>5 DEF Usage

LEMMA WorkerUsage ==
  ASSUME RunnerInv, Known, Unique, Usage, NEW w \in Worker, WorkerStep(w)
  PROVE  Usage'
<1>1. /\ AccountingTypeOK /\ WorkersInv /\ WorkerTypeOK /\ completedFragments \in Nat
      /\ \A v \in Worker : worker[v] = "merge" => job[v] # None
      /\ worker[w] \in {"reserve", "acquire", "scan", "merge"} <=> job[w] # None
  BY LimitFacts DEF RunnerInv, AccountingInv, AccountingTypeOK, WorkersInv, WorkerHolds, Usize
<1>2. IsFiniteSet(Scanned) /\ Cardinality(Scanned) \in Nat
  BY <1>1, ScannedFinite
<1>3. ASSUME NEW from, NEW pc, Moves(w, from, pc)
      PROVE  /\ worker[w] \in from /\ worker'[w] = pc
             /\ \A v \in Worker : v # w => worker'[v] = worker[v]
  BY <1>1, <1>3 DEF Moves, WorkerTypeOK
<1>4. CASE MovesOn(w) \/ Leaves(w) \/ Takes(w) \/ GivesUp(w)
  <2>1. PICK pc \in WorkerPc \ {"merge", "panicked"} :
          Moves(w, WorkerPc \ {"merge", "panicked"}, pc)
    BY <1>4 DEF MovesOn, Leaves, Takes, GivesUp, Moves, WorkerPc, Ended
  <2>2. WorkerPanicked' = WorkerPanicked
    BY <1>3, <2>1 DEF WorkerPanicked
  <2>3. /\ UNCHANGED <<batch, completedFragments>>
        /\ \A v \in Worker : v # w => job'[v] = job[v]
    BY <1>1, <1>4 DEF MovesOn, Leaves, Takes, GivesUp, Drops, NothingMoved, NoneCompleted,
       WorkerTypeOK
  <2>4. \A f : HasScanned(f)' <=> HasScanned(f)
    BY <1>3, <2>1, <2>3 DEF HasScanned
  <2>5. Scanned' = Scanned
    BY <2>4, ScannedElements
  <2> QED
    BY <2>2, <2>3, <2>5 DEF Usage
<1>5. CASE Completes(w)
  <2>1. Moves(w, {"scan"}, "merge") /\ UNCHANGED <<job, batch>>
        /\ completedFragments' = completedFragments + 1
    BY <1>5 DEF Completes, NothingMoved
  <2>2. WorkerPanicked' = WorkerPanicked
    BY <1>3, <2>1 DEF WorkerPanicked
  <2>3. \A f : HasScanned(f)' <=> HasScanned(f) \/ f = job[w]
    BY <1>3, <2>1 DEF HasScanned
  <2>4. ~HasScanned(job[w])
    BY <1>1, <1>3, <2>1 DEF HasScanned, Unique, Moves
  <2>5. Scanned' = Scanned \cup {job[w]} /\ job[w] \notin Scanned
    BY <2>3, <2>4, ScannedElements
  <2>6. Cardinality(Scanned') = Cardinality(Scanned) + 1
    BY <1>2, <2>5, FS_AddElement
  <2> QED
    BY <1>1, <1>2, <2>1, <2>2, <2>6 DEF Usage
<1>6. CASE Merges(w)
  <2>1. /\ Moves(w, {"merge"}, "top") /\ UNCHANGED completedFragments
        /\ batch'[w] = batch[w] \cup {job[w]}
        /\ \A v \in Worker : v # w => batch'[v] = batch[v] /\ job'[v] = job[v]
    BY <1>1, <1>6 DEF Merges, NoneCompleted, WorkerTypeOK
  <2>2. WorkerPanicked' = WorkerPanicked
    BY <1>3, <2>1 DEF WorkerPanicked
  <2>3. ASSUME NEW f
        PROVE  HasScanned(f)' <=> HasScanned(f)
    BY <1>3, <2>1 DEF HasScanned
  <2>4. Scanned' = Scanned
    BY <2>3, ScannedElements
  <2> QED
    BY <2>1, <2>2, <2>4 DEF Usage
<1>7. CASE Panics(w)
  <2>1. /\ Moves(w, {"scan", "merge"}, "panicked") /\ UNCHANGED <<batch, completedFragments>>
        /\ \A v \in Worker : v # w => job'[v] = job[v]
    BY <1>1, <1>7 DEF Panics, Drops, NoneCompleted, WorkerTypeOK
  <2>2. WorkerPanicked'
    BY <1>3, <2>1 DEF WorkerPanicked
  <2>3. \A f : HasScanned(f)' => HasScanned(f)
    BY <1>3, <2>1 DEF HasScanned
  <2>4. Scanned' \in SUBSET Scanned
    BY <2>3, ScannedElements
  <2>5. Cardinality(Scanned') <= Cardinality(Scanned) /\ Cardinality(Scanned') \in Nat
    BY <1>2, <2>4, FS_Subset, FS_CardinalityType
  <2> QED
    BY <1>1, <1>2, <2>1, <2>2, <2>5 DEF Usage
<1> QED
  BY <1>4, <1>5, <1>6, <1>7, WorkerMovesFragments DEF RunnerInv

-----------------------------------------------------------------------------
(* What the run reports.                                                   *)

\* When every worker has gone without a panic and nothing has stopped the operation, the
\* batches hold every admitted fragment.
LEMMA AllMerged ==
  ASSUME RunnerInv, Known, Whole, Disconnected, ~IsCancelled, producer = "finish",
         sourceResult \in {"Continue", "Stop"}
  PROVE  FindingsOfJoined = Fragment
<1>1. /\ \A w \in Worker : worker[w] = "exited" /\ job[w] = None
      /\ pending = None /\ None \notin Fragment
  BY FragmentFacts DEF RunnerInv, AccountingInv, WorkersInv, WorkerHolds, ProducerInv,
     ProducerHolds, Whole, Spawned, Disconnected, Ended, WorkerPanicked
<1>2. queue = <<>>
  BY <1>1, RunnerAssumption DEF Whole
<1>3. Queued = {}
  BY <1>2 DEF Queued
<1>4. ASSUME NEW f \in Fragment
      PROVE  f \in FindingsOfJoined
  <2>1. Somewhere(f)
    BY DEF Whole
  <2>2. PICK w \in Worker : f \in batch[w]
    BY <1>1, <1>3, <2>1 DEF Somewhere
  <2> QED
    BY <1>1, <2>2 DEF FindingsOfJoined
<1>5. FindingsOfJoined \subseteq Fragment
  BY DEF Known, FindingsOfJoined
<1> QED
  BY <1>4, <1>5

LEMMA FinishReported ==
  ASSUME RunnerInv, Known, Whole, Causes, FinishRun
  PROVE  Reported'
<1>1. /\ producer = "finish" /\ producer' = "report" /\ Disconnected
      /\ outcome'.termination = RunTermination(token)
      /\ outcome'.findings = FindingsOfJoined
      /\ UNCHANGED <<token, stopped, exceeded, fragments, sourceResult, worker, batch>>
  BY DEF FinishRun, Goto, accountingVars, stopVars, counterVars, workerVars, Causes
<1>2. /\ FindingsOfJoined' = FindingsOfJoined /\ WorkerPanicked' = WorkerPanicked
      /\ Fragment' = Fragment
  BY <1>1 DEF FindingsOfJoined, WorkerPanicked, Fragment
<1>3. sourceResult \in SourceResult
  BY DEF RunnerInv, ProducerInv, ProducerTypeOK
<1>4. /\ RunTermination(token) = "WorkerPanic" <=> WorkerPanicked
      /\ RunTermination(token) # "BudgetExceeded"
      /\ RunTermination(token) = "Cancelled" => token \/ sourceResult = "Cancelled"
      /\ RunTermination(token) \in {"Completed", "Stopped"} =>
           ~token /\ sourceResult \in {"Continue", "Stop"}
      /\ RunTermination(token) = "SourceError" =>
           ~token /\ sourceResult \in SourceResult \ {"Continue", "Stop", "Cancelled"}
  <2>1. CASE WorkerPanicked
    BY <2>1 DEF RunTermination
  <2>2. CASE ~WorkerPanicked /\ (token \/ sourceResult = "Cancelled")
    BY <2>2 DEF RunTermination
  <2>3. CASE ~WorkerPanicked /\ ~token /\ sourceResult # "Cancelled"
    <3>1. RunTermination(token) = CASE sourceResult = "Continue" -> "Completed"
                                    [] sourceResult = "Stop" -> "Stopped"
                                    [] OTHER -> "SourceError"
      BY <2>3 DEF RunTermination
    <3> QED
      BY <1>3, <2>3, <3>1
  <2> QED
    BY <2>1, <2>2, <2>3
<1>5. RunTermination(token) = "SourceError" => sourceResult \in {"Terminal", "Setup", "Rejected"}
  BY <1>4 DEF Causes, SourceResult
<1>6. RunTermination(token) \in {"Completed", "Stopped"} /\ ~stopped => FindingsOfJoined = Fragment
  BY <1>1, <1>4, AllMerged DEF IsCancelled
<1> QED
  BY <1>1, <1>2, <1>4, <1>5, <1>6 DEF Reported, TerminationHasCause, LimitIsReported, Done

LEMMA BudgetReported ==
  ASSUME RunnerInv, Causes, Reported, ReportBudget
  PROVE  Reported'
<1>1. /\ producer = "report" /\ producer' = "done"
      /\ UNCHANGED <<token, stopped, exceeded, fragments, sourceResult, worker, batch>>
  BY DEF ReportBudget, Goto, accountingVars, stopVars, counterVars, workerVars
<1>2. /\ outcome \in Outcome
      /\ outcome'.findings = outcome.findings
      /\ outcome'.termination = IF ~WorkerPanicked /\ ~token /\ StoppedForBudget
                                THEN "BudgetExceeded" ELSE outcome.termination
  BY <1>1 DEF ReportBudget, RunnerInv, ProducerInv, ProducerHolds, Outcome
<1>3. /\ FindingsOfJoined' = FindingsOfJoined /\ WorkerPanicked' = WorkerPanicked
      /\ Fragment' = Fragment
  BY <1>1 DEF FindingsOfJoined, WorkerPanicked, Fragment
<1>4. outcome.termination \in Termination \ {"BudgetExceeded"}
  BY <1>1, <1>2 DEF Outcome, Reported
<1>5. /\ outcome.termination = "WorkerPanic" <=> WorkerPanicked
      /\ outcome.termination = "SourceError" =>
            sourceResult \in {"Terminal", "Setup", "Rejected"}
      /\ outcome.termination \in {"Completed", "Stopped"} => sourceResult \in {"Continue", "Stop"}
      /\ outcome.termination = "Cancelled" => token \/ sourceResult = "Cancelled"
  BY <1>1 DEF Reported
<1>6. outcome'.termination = "Cancelled" => token
  <2> SUFFICES ASSUME outcome'.termination = "Cancelled", ~token PROVE FALSE
    OBVIOUS
  <2>1. outcome.termination = "Cancelled" /\ sourceResult = "Cancelled" /\ ~WorkerPanicked
    BY <1>2, <1>5
  <2>2. exceeded # None
    BY <2>1 DEF Causes, IsCancelled
  <2> QED
    BY <1>2, <2>1, <2>2 DEF StoppedForBudget
<1>7. exceeded # None /\ ~token =>
        outcome'.termination \in {"BudgetExceeded", "WorkerPanic", "SourceError"}
  BY <1>2, <1>4, <1>5 DEF StoppedForBudget, Termination
<1>8. outcome'.termination \in {"Completed", "Stopped"} =>
        outcome'.termination = outcome.termination /\ (exceeded = None \/ token)
  BY <1>2, <1>5, <1>7
<1>9. outcome'.termination \in {"WorkerPanic", "SourceError"} =>
        outcome'.termination = outcome.termination
  BY <1>2
<1>10. WorkerPanicked => outcome'.termination = "WorkerPanic"
  BY <1>2, <1>5
<1>11. outcome'.termination \in {"Completed", "Stopped"} /\ ~stopped =>
         outcome'.findings = Fragment
  BY <1>1, <1>2, <1>8 DEF Reported
<1>12. outcome'.findings = FindingsOfJoined
  BY <1>1, <1>2 DEF Reported
<1> QED
  BY <1>1, <1>3, <1>5, <1>6, <1>7, <1>8, <1>9, <1>10, <1>11, <1>12
     DEF Reported, TerminationHasCause, LimitIsReported, Done

LEMMA ProducerReported ==
  ASSUME RunnerInv, Known, Whole, Causes, Reported, ProducerStep
  PROVE  Reported'
<1>1. CASE Spawns \/ GoesOn \/ Sends \/ Admits \/ \E result \in SourceResult : EndsVisit(result)
  <2>1. producer' \notin {"report", "done"}
    BY <1>1 DEF Spawns, GoesOn, Sends, Admits, EndsVisit, producerVars
  <2> QED
    BY <2>1 DEF Reported, TerminationHasCause, LimitIsReported, Done
<1> QED
  BY <1>1, ProducerMovesFragments, FinishReported, BudgetReported DEF RunnerInv

LEMMA WorkerReported ==
  ASSUME RunnerInv, Causes, NEW w \in Worker, WorkerStep(w)
  PROVE  Reported'
<1>1. UNCHANGED producer
  BY WorkerMovesFragments DEF RunnerInv, producerVars
<1>2. worker[w] \notin Ended
  BY WorkerMovesFragments DEF RunnerInv, MovesOn, Leaves, Takes, GivesUp, Completes, Merges,
     Panics, Moves, Ended
<1>3. producer' \notin {"report", "done"}
  BY <1>1, <1>2 DEF Causes, Disconnected
<1> QED
  BY <1>3 DEF Reported, TerminationHasCause, LimitIsReported, Done

-----------------------------------------------------------------------------
(* The theorems.                                                           *)

LEMMA InitialFragments ==
  ASSUME Init PROVE FragmentsInv
<1>1. /\ fragments = 0 /\ completedFragments = 0 /\ queue = <<>> /\ pending = None
      /\ ~token /\ ~stopped /\ exceeded = None
      /\ producer = "spawn" /\ sourceResult = "Continue"
      /\ \A w \in Worker : worker[w] = "unspawned" /\ job[w] = None /\ batch[w] = {}
  BY DEF Init, AccountingInit
<1>2. Fragment = {} /\ Queued = {}
  BY <1>1 DEF Fragment, Queued
<1>3. Known /\ Unique
  BY <1>1, <1>2 DEF Known, Unique, NoRepeats
<1>4. Whole /\ Causes
  BY <1>1, <1>2 DEF Whole, Causes, Visiting, WorkerPanicked
<1>5. Busy = {} /\ Behind = {} /\ Scanned = {}
  BY <1>1 DEF Busy, Behind, Gone, Scanned, Merging
<1>6. Counts /\ Usage
  BY <1>1, <1>5, FS_EmptySet, RunnerAssumption DEF Counts, Early, Usage
<1>7. Reported
  BY <1>1 DEF Reported, TerminationHasCause, LimitIsReported, Done
<1> QED
  BY <1>3, <1>4, <1>6, <1>7 DEF FragmentsInv

\* The caller only ever adds a reason to stop.
LEMMA CancelKeeps ==
  ASSUME RunnerInv, FragmentsInv, CancelRun
  PROVE  FragmentsInv'
<1>1. /\ UNCHANGED <<stopped, exceeded, fragments, completedFragments, queue>>
      /\ UNCHANGED <<producer, pending, sourceResult, outcome, worker, job, batch>>
      /\ token' /\ producer # "done"
  BY DEF CancelRun, Cancel, stopVars, counterVars, scanVars, producerVars, workerVars
<1>2. Known' /\ Unique'
  BY <1>1, NothingMoves DEF FragmentsInv
<1>3. /\ WorkerPanicked' = WorkerPanicked /\ Disconnected' = Disconnected
      /\ Spawned' = Spawned /\ IsCancelled'
      /\ FindingsOfJoined' = FindingsOfJoined /\ Fragment' = Fragment
      /\ Busy' = Busy /\ Behind' = Behind /\ Scanned' = Scanned
  BY <1>1 DEF WorkerPanicked, Disconnected, Spawned, IsCancelled, FindingsOfJoined, Fragment,
     Busy, Behind, Gone, Scanned, Merging
<1>4. Whole' /\ Causes'
  BY <1>1, <1>3 DEF FragmentsInv, Whole, Causes
<1>5. Counts' /\ Usage'
  BY <1>1, <1>3 DEF FragmentsInv, Counts, Usage
<1>6. Reported'
  BY <1>1, <1>3 DEF FragmentsInv, Reported, TerminationHasCause, LimitIsReported, Done
<1> QED
  BY <1>2, <1>4, <1>5, <1>6 DEF FragmentsInv

LEMMA FragmentsStutter ==
  ASSUME FragmentsInv, UNCHANGED vars
  PROVE  FragmentsInv'
<1>1. /\ UNCHANGED <<token, stopped, exceeded, fragments, completedFragments, queue>>
      /\ UNCHANGED <<producer, pending, sourceResult, outcome, worker, job, batch>>
  BY DEF vars, accountingVars, stopVars, counterVars, scanVars, producerVars, workerVars
<1>2. Known' /\ Unique' /\ \A f : Somewhere(f)' = Somewhere(f)
  BY <1>1, NothingMoves DEF FragmentsInv
<1>3. /\ WorkerPanicked' = WorkerPanicked /\ Disconnected' = Disconnected
      /\ Spawned' = Spawned /\ IsCancelled' = IsCancelled /\ SenderOpen' = SenderOpen
      /\ FindingsOfJoined' = FindingsOfJoined /\ Fragment' = Fragment
      /\ Busy' = Busy /\ Behind' = Behind /\ Scanned' = Scanned
  BY <1>1 DEF WorkerPanicked, Disconnected, Spawned, IsCancelled, FindingsOfJoined, Fragment,
     Busy, Behind, Gone, Scanned, Merging, SenderOpen
<1>4. Whole' /\ Causes'
  BY <1>1, <1>2, <1>3 DEF FragmentsInv, Whole, Causes
<1>5. Counts' /\ Usage'
  BY <1>1, <1>3 DEF FragmentsInv, Counts, Usage
<1>6. Reported'
  BY <1>1, <1>3 DEF FragmentsInv, Reported, TerminationHasCause, LimitIsReported, Done
<1> QED
  BY <1>2, <1>4, <1>5, <1>6 DEF FragmentsInv

LEMMA FragmentsStep ==
  ASSUME RunnerInv, FragmentsInv, [Next]_vars
  PROVE  FragmentsInv'
<1>1. CASE CancelRun
  BY <1>1, CancelKeeps
<1>2. CASE ProducerStep
  BY <1>2, ProducerPlaces, ProducerWhole, ProducerCauses, ProducerCounts, ProducerUsage,
     ProducerReported DEF FragmentsInv
<1>3. ASSUME NEW w \in Worker, WorkerStep(w)
      PROVE  FragmentsInv'
  BY <1>3, WorkerPlaces, WorkerWhole, WorkerCauses, WorkerCounts, WorkerUsage, WorkerReported
     DEF FragmentsInv
<1>4. CASE Returned \/ UNCHANGED vars
  BY <1>4, FragmentsStutter DEF Returned
<1> QED
  BY <1>1, <1>2, <1>3, <1>4 DEF Next

\* The invariant of the fragments: where each is, how many are unfinished, why the
\* operation stopped, and what the outcome says of it.
THEOREM FragmentsInvariant == Spec => [](RunnerInv /\ FragmentsInv)
<1>1. Init => FragmentsInv
  BY InitialFragments
<1>2. RunnerInv /\ FragmentsInv /\ [Next]_vars => FragmentsInv'
  BY FragmentsStep
<1> QED
  BY <1>1, <1>2, RunnerInvariant, PTL DEF Spec

\* Threads and stops never duplicate a fragment, and while nothing has cancelled the
\* operation none is lost between admission and its worker's batch.
THEOREM FragmentsAreKept == Spec => []EveryFragmentOnce
<1>1. RunnerInv /\ FragmentsInv => EveryFragmentOnce
  <2> SUFFICES ASSUME RunnerInv, FragmentsInv PROVE EveryFragmentOnce
    OBVIOUS
  <2>1. None \notin Fragment /\ Known /\ Unique
    BY FragmentFacts DEF RunnerInv, AccountingInv, FragmentsInv
  <2>2. Cardinality(Queued) = Len(queue)
    BY <2>1, ElementsCounted DEF RunnerInv, QueueInv, Unique, Queued, Elements
  <2>3. /\ \A w \in Worker : (Queued \cup {pending}) \cap (InHand(w) \cup batch[w]) = {}
        /\ \A w \in Worker : InHand(w) \cap batch[w] = {}
        /\ pending \notin Queued
    BY <2>1 DEF Unique, InHand
  <2>4. ASSUME NEW v \in Worker, NEW w \in Worker, v # w
        PROVE  (InHand(v) \cup batch[v]) \cap (InHand(w) \cup batch[w]) = {}
    BY <2>1, <2>4 DEF Unique, InHand
  <2>5. ASSUME ~IsCancelled, sourceResult # "Rejected"
        PROVE  Fragment = (Queued \cup {pending} \cup
                           UNION {InHand(w) \cup batch[w] : w \in Worker}) \ {None}
    <3>1. \A f \in Fragment : Somewhere(f) /\ f # None
      BY <2>1, <2>5 DEF FragmentsInv, Whole
    <3>2. \A w \in Worker : InHand(w) \cup batch[w] \subseteq Fragment
      BY <2>1 DEF Known, InHand
    <3>3. ASSUME NEW f \in Fragment
          PROVE  f \in (Queued \cup {pending} \cup
                           UNION {InHand(w) \cup batch[w] : w \in Worker}) \ {None}
      BY <3>1 DEF Somewhere, InHand
    <3>4. (Queued \cup {pending} \cup
                           UNION {InHand(w) \cup batch[w] : w \in Worker}) \ {None} \subseteq Fragment
      BY <2>1, <3>2 DEF Known
    <3> QED
      BY <3>3, <3>4
  <2> QED
    BY <2>2, <2>3, <2>4, <2>5 DEF EveryFragmentOnce
<1> QED
  BY <1>1, FragmentsInvariant, PTL

\* A run that claims to have scanned everything has, whichever limit, panic, cancellation
\* or failure threatened it, unless a limit and the caller's token met.
THEOREM TruncationIsReported == Spec => []NoSilentTruncation
<1>1. RunnerInv /\ FragmentsInv => NoSilentTruncation
  BY DEF FragmentsInv, Reported, Causes, NoSilentTruncation, Done
<1> QED
  BY <1>1, FragmentsInvariant, PTL

\* Neither the internal stop nor the token is ever mistaken for something else.
THEOREM CausesAreTrue == Spec => []TerminationHasCause
<1>1. RunnerInv /\ FragmentsInv => TerminationHasCause
  BY DEF FragmentsInv, Reported
<1> QED
  BY <1>1, FragmentsInvariant, PTL

\* A limit that was hit is reported.
THEOREM LimitsAreReported == Spec => []LimitIsReported
<1>1. RunnerInv /\ FragmentsInv => LimitIsReported
  BY DEF FragmentsInv, Reported
<1> QED
  BY <1>1, FragmentsInvariant, PTL

\* Memory for unfinished fragments is bounded by the worker count and the channel.
THEOREM BacklogBound == Spec => []BacklogIsBounded
<1>1. RunnerInv /\ FragmentsInv => BacklogIsBounded
  <2> SUFFICES ASSUME RunnerInv, FragmentsInv PROVE BacklogIsBounded
    OBVIOUS
  <2>1. /\ fragments \in Nat /\ completedFragments \in Nat /\ Len(queue) \in Nat
        /\ QueueCapacity \in Nat
    BY LimitFacts, RunnerAssumption DEF RunnerInv, AccountingInv, AccountingTypeOK, QueueInv, Usize
  <2>2. /\ Cardinality(Busy) \in Nat /\ Cardinality(Behind) \in 0 .. Cardinality(Worker)
        /\ Cardinality(Worker) \in Nat
    BY WorkersCounted, BudgetAssumption, FS_CardinalityType
  <2>3. Counts
    BY DEF FragmentsInv
  <2> QED
    BY <2>1, <2>2, <2>3 DEF Counts, BacklogIsBounded
<1> QED
  BY <1>1, FragmentsInvariant, PTL

\* The usage returned to the caller counts the fragments whose findings it returns.
THEOREM UsageIsTrue == Spec => []UsageAgreesWithFindings
<1>1. RunnerInv /\ FragmentsInv => UsageAgreesWithFindings
  <2> SUFFICES ASSUME RunnerInv, FragmentsInv, Done
               PROVE  /\ Cardinality(outcome.findings) <= completedFragments
                      /\ outcome.termination # "WorkerPanic" =>
                           Cardinality(outcome.findings) = completedFragments
    BY DEF UsageAgreesWithFindings
  <2>1. /\ outcome.findings = FindingsOfJoined
        /\ outcome.termination = "WorkerPanic" <=> WorkerPanicked
        /\ Disconnected /\ completedFragments \in Nat
    BY LimitFacts DEF Done, FragmentsInv, Reported, Causes, RunnerInv, AccountingInv,
       AccountingTypeOK, Usize
  <2>2. IsFiniteSet(Scanned) /\ Cardinality(Scanned) \in Nat
    BY ScannedFinite DEF RunnerInv, AccountingInv, FragmentsInv
  <2>3. FindingsOfJoined \in SUBSET Scanned
    BY DEF FindingsOfJoined, Scanned
  <2>4. ~WorkerPanicked => FindingsOfJoined = Scanned
    <3> SUFFICES ASSUME ~WorkerPanicked, NEW f \in Scanned PROVE f \in FindingsOfJoined
      BY <2>3
    <3>1. PICK w \in Worker : f \in batch[w] \/ (worker[w] = "merge" /\ f = job[w])
      BY ScannedElements DEF HasScanned
    <3>2. worker[w] = "exited"
      BY <2>1, <3>1 DEF Disconnected, Ended, WorkerPanicked, FragmentsInv, Whole
    <3> QED
      BY <3>1, <3>2 DEF FindingsOfJoined
  <2>5. Cardinality(FindingsOfJoined) <= Cardinality(Scanned) /\ Cardinality(FindingsOfJoined) \in Nat
    BY <2>2, <2>3, FS_Subset, FS_CardinalityType
  <2> QED
    BY <2>1, <2>2, <2>4, <2>5 DEF FragmentsInv, Usage
<1> QED
  BY <1>1, FragmentsInvariant, PTL

=============================================================================
