--------------------------- MODULE ReportingProofs ---------------------------
(***************************************************************************)
(* Proofs about the ledger liability exports, for every value of the       *)
(* constants: any number of workers, exporters, redemptions, adjustments   *)
(* and dates, and all faults.                                              *)
(***************************************************************************)
EXTENDS Reporting, ProcessingProofs

\* The first date, and the order of dates.
LEMMA Dates == 1 \in Date /\ Date \subseteq Int /\ NoDate \notin Date
  BY DateAssumption

-----------------------------------------------------------------------------
(* The steps of the others.                                                *)

\* What the other services post: no earn and no refund, and a capture moves no
\* available points.
LEMMA ElsewhereEntries ==
    ASSUME NEW f \in Elsewhere
    PROVE  /\ f.account \in Account /\ f.type \in EntryTypes /\ f.delta \in Buckets
           /\ f.source \in Redemption \cup AdjustmentSource /\ f.source \notin Event
           /\ f = [account |-> f.account, type |-> f.type, source |-> f.source,
                   delta |-> f.delta]
           /\ \/ f.type \in {"redemption_reserve", "reservation_release", "adjustment"}
              \/ f.type = "redemption_capture" /\ f.delta.available = 0
<1>1. \A r \in Redemption : Redeemer[r] \in Account /\ Cost[r] \in Int /\ -Cost[r] \in Int
  BY PostingAssumption
<1>2. \A s \in AdjustmentSource : Adjusted[s] \in Account /\ AdjustmentDelta[s] \in Buckets
  BY PostingAssumption
<1>3. \A s \in Redemption \cup AdjustmentSource : s \notin Event
  BY PostingAssumption
<1>4. ASSUME NEW r \in Redemption, f \in {Reserve(r), Capture(r), Release(r)}
      PROVE  /\ f.account \in Account /\ f.type \in EntryTypes /\ f.delta \in Buckets
             /\ f.source = r
             /\ f = [account |-> f.account, type |-> f.type, source |-> f.source,
                     delta |-> f.delta]
             /\ \/ f.type \in {"redemption_reserve", "reservation_release", "adjustment"}
                \/ f.type = "redemption_capture" /\ f.delta.available = 0
  BY <1>1, <1>4 DEF Reserve, Capture, Release, Entry, Buckets, EntryTypes
<1>5. ASSUME NEW s \in AdjustmentSource, f = Adjustment(s)
      PROVE  /\ f.account \in Account /\ f.type \in EntryTypes /\ f.delta \in Buckets
             /\ f.source = s
             /\ f = [account |-> f.account, type |-> f.type, source |-> f.source,
                     delta |-> f.delta]
             /\ f.type = "adjustment"
  BY <1>2, <1>5 DEF Adjustment, Entry, EntryTypes
<1> QED BY <1>3, <1>4, <1>5 DEF Elsewhere

(***************************************************************************)
(* A step posts for another service, or is one of reward processing or     *)
(* leaves reward processing alone.                                         *)
(***************************************************************************)
LEMMA PostsOrProcesses ==
    [ReportingNext]_reportingVars => [Next]_vars \/ \E f \in Elsewhere : CommitPosting(f)
BY DEF ReportingNext, reportingVars, Receive, Process, Midnight, BeginPosting, AbandonPosting,
       SumTotals, SumBreakdown, Upsert, AbandonExport, Next

\* A post of another service does not concern the events.
LEMMA PostKeepsAmounts ==
    ASSUME AmountInv, NEW f \in Elsewhere, CommitPosting(f)
    PROVE  AmountInv'
<1>1. /\ PostLedgerEntry(f) /\ UNCHANGED <<status, calculation, usage, usageLock, work>>
      /\ f.account \in Account /\ f.delta \in Buckets /\ f.source \notin Event
  BY ElsewhereEntries DEF CommitPosting
<1>2. /\ LedgerSound' /\ entries' = entries \cup {f}
      /\ balance' = [balance EXCEPT ![f.account] = Plus(balance[f.account], f.delta)]
  BY <1>1, PostKeepsSound DEF AmountInv, Amounts
<1>3. Amounts'
  BY <1>1, <1>2 DEF AmountInv, Amounts, Ingested, Succeeded, OriginalCalculated
<1>4. Shapes'
  BY <1>1, <1>2 DEF AmountInv, Inv, Shapes, LedgerSound
<1>5. WorkersOnBatch' /\ ClaimedOnce' /\ CalculatedIsSettled'
  BY <1>1 DEF AmountInv, Inv, WorkersOnBatch, ClaimedOnce, CalculatedIsSettled
<1>6. LedgerMatchesCalculation'
  <2>1. \A e \in Event : {g \in entries' : g.source = e} = {g \in entries : g.source = e}
    BY <1>1, <1>2
  <2> QED BY <1>1, <2>1 DEF AmountInv, Inv, LedgerMatchesCalculation, Succeeded
<1> QED BY <1>3, <1>4, <1>5, <1>6 DEF AmountInv, Inv

LEMMA ReportingAmounts == AmountInv /\ [ReportingNext]_reportingVars => AmountInv'
  BY PostsOrProcesses, AmountNext, PostKeepsAmounts

\* No post breaks the snapshots.
LEMMA ReportingSnapshot ==
    ASSUME AmountInv, SnapshotIsLedgerSum, [ReportingNext]_reportingVars
    PROVE  SnapshotIsLedgerSum'
<1>1. ASSUME NEW f \in Elsewhere, CommitPosting(f) PROVE SnapshotIsLedgerSum'
  <2>1. /\ PostLedgerEntry(f) /\ f.account \in Account /\ f.delta \in Buckets
        /\ LedgerSound
    BY <1>1, ElsewhereEntries DEF CommitPosting, AmountInv, Amounts
  <2> QED BY <2>1, PostKeepsSnapshot
<1> QED BY <1>1, PostsOrProcesses, SnapshotNext

\* An entry of an event is its reward or its reversal.
LEMMA EntriesOfEvents ==
    ASSUME Inv, NEW f \in entries, f.source \in Event
    PROVE  f.type \in {"earn", "refund"}
<1> DEFINE e == f.source
           only == Entry(Member[e], IF Type[e] = "purchase" THEN "earn" ELSE "refund", e,
                         AvailableDelta(Points(calculation[e].awards)))
<1>1. {g \in entries : g.source = e} \subseteq {only}
  BY DEF Inv, LedgerMatchesCalculation
<1>2. only.type \in {"earn", "refund"}
  BY DEF Entry
<1> QED BY <1>1, <1>2

\* An entry reward processing posts is one a worker commits in its transaction.
LEMMA NewEntries ==
    ASSUME AmountInv, [Next]_vars, entries' # entries
    PROVE  \E w \in Worker : InTransaction(w) /\ ~InTransaction(w)'
<1>1. PICK w \in Worker, calc \in Calculations : Rewards(w, calc)
  BY StepKinds DEF RecordFailure
<1>2. InTransaction(w) /\ ~InTransaction(w)'
  BY <1>1, RewardsChange DEF Rewards, Active, InTransaction
<1> QED BY <1>2

\* A step of one worker leaves the others where they are.
LEMMA OthersStay ==
    ASSUME AmountInv, NEW w \in Worker, Work(w) \/ Fail(w) \/ LoseFailure(w) \/ Crash(w)
    PROVE  \A v \in Worker \ {w} : work'[v] = work[v]
<1>1. ASSUME NEW row, work' = [work EXCEPT ![w] = row]
      PROVE  \A v \in Worker \ {w} : work'[v] = work[v]
  BY <1>1 DEF AmountInv, Amounts
<1>2. ASSUME Claim(w) PROVE \E row : work' = [work EXCEPT ![w] = row]
  BY <1>2, ClaimRow
<1>3. ASSUME NEW e \in Event, StartPurchaseRules(w, e) \/ StartReversal(w, e)
      PROVE  \E row : work' = [work EXCEPT ![w] = row]
  BY <1>3 DEF StartPurchaseRules, StartReversal
<1>4. ASSUME ReadLimitUsage(w) \/ Fail(w) PROVE \E row : work' = [work EXCEPT ![w] = row]
  BY <1>4 DEF ReadLimitUsage, Fail
<1>5. ASSUME RecordFailure(w) \/ LoseFailure(w) \/ Crash(w)
      PROVE  \E row : work' = [work EXCEPT ![w] = row]
  BY <1>5 DEF RecordFailure, LoseFailure, Crash
<1>6. ASSUME CommitPurchase(w) \/ CommitFallbackRefund(w) \/ CommitReversal(w)
      PROVE  \E row : work' = [work EXCEPT ![w] = row]
  <2>1. Committed(w)
    BY <1>6 DEF CommitPurchase, CommitFallbackRefund, CommitReversal
  <2> QED BY <2>1 DEF Committed
<1> QED BY <1>1, <1>2, <1>3, <1>4, <1>5, <1>6 DEF Work

-----------------------------------------------------------------------------
(***************************************************************************)
(* The dates of transactions and entries: none is ahead of the clock.      *)
(***************************************************************************)
Times ==
    /\ today \in Date
    /\ began \in [Worker -> Date \cup {NoDate}]
    /\ posting \in [Elsewhere -> Date \cup {NoDate}]
    /\ created \in [entries -> Date]
    /\ entries \subseteq EventEntries \cup Elsewhere
    /\ \A w \in Worker : InTransaction(w) => began[w] \in Date /\ began[w] <= today
    /\ \A f \in Elsewhere : posting[f] # NoDate => posting[f] <= today
    /\ \A f \in entries : created[f] <= today

\* At the start no transaction is open.
LEMMA TimesInit == ReportingInit => Times
<1> SUFFICES ASSUME ReportingInit PROVE Times
  OBVIOUS
<1>1. entries = {} /\ \A w \in Worker : ~InTransaction(w)
  BY DEF ReportingInit, Init, LedgerInit, InTransaction, Idle
<1>2. created \in [entries -> Date]
  BY <1>1 DEF ReportingInit
<1>3. /\ posting \in [Elsewhere -> Date \cup {NoDate}]
      /\ \A f \in Elsewhere : posting[f] = NoDate
  BY DEF ReportingInit
<1> QED BY <1>1, <1>2, <1>3, Dates DEF ReportingInit, Times

\* A transaction keeps the date it began; a new one begins today.
LEMMA Transactions ==
    ASSUME AmountInv, Times, [ReportingNext]_reportingVars
    PROVE  /\ today' \in Date /\ today <= today'
           /\ began' \in [Worker -> Date \cup {NoDate}]
           /\ posting' \in [Elsewhere -> Date \cup {NoDate}]
           /\ \A v \in Worker : InTransaction(v)' =>
                 (InTransaction(v) /\ began'[v] = began[v]) \/ began'[v] = today
           /\ \A f \in Elsewhere : posting'[f] # NoDate => posting'[f] \in {posting[f], today}
<1> DEFINE Goal ==
        /\ today' \in Date /\ today <= today'
        /\ began' \in [Worker -> Date \cup {NoDate}]
        /\ posting' \in [Elsewhere -> Date \cup {NoDate}]
        /\ \A v \in Worker : InTransaction(v)' =>
              (InTransaction(v) /\ began'[v] = began[v]) \/ began'[v] = today
        /\ \A f \in Elsewhere : posting'[f] # NoDate => posting'[f] \in {posting[f], today}
<1>1. today \in Date /\ today \in Int /\ today <= today /\ today <= today + 1
  BY Dates DEF Times
<1>2. ASSUME NEW w \in Worker, Process(w) PROVE Goal
  <2>1. today' = today /\ posting' = posting
        /\ began' = [began EXCEPT ![w] =
              IF ~InTransaction(w)' THEN NoDate ELSE IF InTransaction(w) THEN @ ELSE today]
    BY <1>2 DEF Process
  <2>2. \A v \in Worker \ {w} : InTransaction(v)' <=> InTransaction(v)
    BY <1>2, OthersStay DEF Process, InTransaction
  <2>3. began' \in [Worker -> Date \cup {NoDate}]
    BY <1>1, <2>1 DEF Times
  <2>4. \A v \in Worker : began'[v] =
            IF v # w THEN began[v]
            ELSE IF ~InTransaction(w)' THEN NoDate
            ELSE IF InTransaction(w) THEN began[w] ELSE today
    BY <2>1 DEF Times
  <2>5. \A v \in Worker : InTransaction(v)' =>
            (InTransaction(v) /\ began'[v] = began[v]) \/ began'[v] = today
    BY <2>2, <2>4
  <2> QED BY <1>1, <2>1, <2>3, <2>5 DEF Times
<1>3. ASSUME work' = work /\ began' = began,
             today' \in Date /\ today <= today',
             \/ posting' = posting
             \/ \E f \in Elsewhere, d \in {today, NoDate} : posting' = [posting EXCEPT ![f] = d]
      PROVE  Goal
  <2>1. \A v \in Worker : InTransaction(v)' <=> InTransaction(v)
    BY <1>3 DEF InTransaction
  <2>2. posting' \in [Elsewhere -> Date \cup {NoDate}]
    BY <1>1, <1>3 DEF Times
  <2>3. \A f \in Elsewhere : posting'[f] # NoDate => posting'[f] \in {posting[f], today}
    BY <1>3 DEF Times
  <2> QED BY <1>3, <2>1, <2>2, <2>3 DEF Times
<1>4. ASSUME NEW f \in Elsewhere, BeginPosting(f) \/ CommitPosting(f) \/ AbandonPosting(f)
      PROVE  Goal
  <2>1. work' = work /\ began' = began /\ today' = today
    BY <1>4 DEF BeginPosting, CommitPosting, AbandonPosting, vars
  <2>2. \E d \in {today, NoDate} : posting' = [posting EXCEPT ![f] = d]
    BY <1>4 DEF BeginPosting, CommitPosting, AbandonPosting
  <2> QED BY <1>1, <1>3, <2>1, <2>2
<1>5. ASSUME NEW e \in Event, Receive(e) PROVE Goal
  <2>1. work' = work /\ began' = began /\ today' = today /\ posting' = posting
    BY <1>5 DEF Receive, Ingest
  <2> QED BY <1>1, <1>3, <2>1
<1>6. ASSUME Midnight PROVE Goal
  BY <1>1, <1>3, <1>6 DEF Midnight, vars
<1>7. ASSUME UNCHANGED <<vars, today, began, posting, created>> PROVE Goal
  <2>1. work' = work /\ began' = began /\ today' = today /\ posting' = posting
    BY <1>7 DEF vars
  <2> QED BY <1>1, <1>3, <2>1
<1> HIDE DEF Goal
<1>8. ASSUME NEW x \in Exporter,
             \/ \E d \in Requested[today] : SumTotals(x, d)
             \/ SumBreakdown(x) \/ Upsert(x) \/ AbandonExport(x)
      PROVE  Goal
  <2>1. UNCHANGED <<vars, today, began, posting, created>>
    BY <1>8 DEF SumTotals, SumBreakdown, Upsert, AbandonExport
  <2> QED BY <1>7, <2>1
<1>9. ASSUME UNCHANGED reportingVars PROVE Goal
  BY <1>7, <1>9 DEF reportingVars
<1>10. Goal
  BY <1>2, <1>4, <1>5, <1>6, <1>8, <1>9 DEF ReportingNext
<1> QED BY <1>10 DEF Goal

\* An entry keeps its date, and a new one has that of an open transaction.
LEMMA EntriesDated ==
    ASSUME AmountInv, Times, [ReportingNext]_reportingVars
    PROVE  /\ entries \subseteq entries' /\ entries' \subseteq EventEntries \cup Elsewhere
           /\ created' \in [entries' -> Date]
           /\ \A f \in entries : created'[f] = created[f]
           /\ \A f \in entries' \ entries :
                 \/ \E w \in Worker : InTransaction(w) /\ created'[f] = began[w]
                 \/ \E g \in Elsewhere : posting[g] # NoDate /\ created'[f] = posting[g]
<1> DEFINE Goal ==
        /\ entries \subseteq entries' /\ entries' \subseteq EventEntries \cup Elsewhere
        /\ created' \in [entries' -> Date]
        /\ \A f \in entries : created'[f] = created[f]
        /\ \A f \in entries' \ entries :
              \/ \E w \in Worker : InTransaction(w) /\ created'[f] = began[w]
              \/ \E g \in Elsewhere : posting[g] # NoDate /\ created'[f] = posting[g]
<1>1. ASSUME NEW date, Stamp(date), entries \subseteq entries',
             entries' # entries => date \in Date
      PROVE  /\ created' \in [entries' -> Date]
             /\ \A f \in entries : created'[f] = created[f]
             /\ \A f \in entries' \ entries : created'[f] = date
  BY <1>1 DEF Stamp, Times
<1>2. ASSUME [Next]_vars
      PROVE  entries \subseteq entries' /\ entries' \subseteq EventEntries \cup Elsewhere
  BY <1>2, LedgerNext, PostKeepsEntries DEF Times
<1>3. ASSUME NEW w \in Worker, Process(w) PROVE Goal
  <2>1. [Next]_vars /\ Stamp(began[w])
    BY <1>3 DEF Process, Next
  <2>2. ASSUME entries' # entries PROVE InTransaction(w) /\ began[w] \in Date
    <3>1. \A v \in Worker \ {w} : InTransaction(v)' <=> InTransaction(v)
      BY <1>3, OthersStay DEF Process, InTransaction
    <3> QED BY <2>1, <2>2, <3>1, NewEntries DEF Times
  <2> QED BY <1>1, <1>2, <2>1, <2>2
<1>4. ASSUME NEW f \in Elsewhere, CommitPosting(f) PROVE Goal
  <2>1. /\ posting[f] # NoDate /\ posting[f] \in Date /\ Stamp(posting[f])
        /\ entries' = entries \cup {f}
    BY <1>4 DEF CommitPosting, PostLedgerEntry, Times
  <2>2. entries \subseteq entries' /\ entries' \subseteq EventEntries \cup Elsewhere
    BY <2>1 DEF Times
  <2> QED BY <1>1, <2>1, <2>2
<1>5. ASSUME entries' = entries, created' = created PROVE Goal
  BY <1>5 DEF Times
<1> HIDE DEF Goal
<1>6. ASSUME NEW f \in Elsewhere, BeginPosting(f) \/ AbandonPosting(f) PROVE Goal
  BY <1>5, <1>6 DEF BeginPosting, AbandonPosting, vars
<1>7. ASSUME NEW e \in Event, Receive(e) PROVE Goal
  BY <1>5, <1>7 DEF Receive, Ingest
<1>8. ASSUME UNCHANGED <<vars, created>> PROVE Goal
  BY <1>5, <1>8 DEF vars
<1>9. ASSUME NEW x \in Exporter,
             \/ \E d \in Requested[today] : SumTotals(x, d)
             \/ SumBreakdown(x) \/ Upsert(x) \/ AbandonExport(x)
      PROVE  Goal
  <2>1. UNCHANGED <<vars, created>>
    BY <1>9 DEF SumTotals, SumBreakdown, Upsert, AbandonExport
  <2> QED BY <1>8, <2>1
<1>10. ASSUME Midnight PROVE Goal
  BY <1>8, <1>10 DEF Midnight
<1>11. ASSUME UNCHANGED reportingVars PROVE Goal
  BY <1>8, <1>11 DEF reportingVars
<1>12. Goal
  BY <1>3, <1>4, <1>6, <1>7, <1>9, <1>10, <1>11 DEF ReportingNext
<1> QED BY <1>12 DEF Goal

\* The dates stay behind the clock.
LEMMA TimesNext ==
    ASSUME AmountInv, Times, [ReportingNext]_reportingVars
    PROVE  Times'
<1>1. /\ today \in Date /\ today' \in Date /\ today <= today'
      /\ \A d \in Date : d \in Int
  BY Transactions, Dates DEF Times
<1>2. ASSUME NEW d \in Date, d <= today PROVE d <= today'
  BY <1>1, <1>2
<1>3. today <= today
  BY <1>1
<1>4. ASSUME NEW v \in Worker, InTransaction(v)' PROVE began'[v] \in Date /\ began'[v] <= today'
  BY <1>1, <1>2, <1>3, <1>4, Transactions DEF Times
<1>5. ASSUME NEW f \in Elsewhere, posting'[f] # NoDate PROVE posting'[f] <= today'
  <2>1. posting'[f] \in {posting[f], today}
    BY <1>5, Transactions
  <2>2. posting'[f] \in Date /\ posting'[f] <= today
    BY <1>1, <1>3, <1>5, <2>1 DEF Times
  <2> QED BY <1>2, <2>2
<1>6. ASSUME NEW f \in entries' PROVE created'[f] <= today'
  <2>1. CASE f \in entries
    <3>1. created'[f] = created[f] /\ created[f] \in Date /\ created[f] <= today
      BY <2>1, EntriesDated DEF Times
    <3> QED BY <1>2, <3>1
  <2>2. ASSUME NEW w \in Worker, InTransaction(w), created'[f] = began[w]
        PROVE  created'[f] <= today'
    <3>1. began[w] \in Date /\ began[w] <= today
      BY <2>2 DEF Times
    <3> QED BY <1>2, <2>2, <3>1
  <2>3. ASSUME NEW g \in Elsewhere, posting[g] # NoDate, created'[f] = posting[g]
        PROVE  created'[f] <= today'
    <3>1. posting[g] \in Date /\ posting[g] <= today
      BY <2>3 DEF Times
    <3> QED BY <1>2, <2>3, <3>1
  <2> QED BY <1>6, <2>1, <2>2, <2>3, EntriesDated
<1>7. /\ began' \in [Worker -> Date \cup {NoDate}]
      /\ posting' \in [Elsewhere -> Date \cup {NoDate}]
  BY Transactions
<1>8. created' \in [entries' -> Date] /\ entries' \subseteq EventEntries \cup Elsewhere
  BY EntriesDated
<1> QED BY <1>1, <1>4, <1>5, <1>6, <1>7, <1>8 DEF Times

-----------------------------------------------------------------------------
(***************************************************************************)
(* The entries of a settled date are the same for ever: a new entry is     *)
(* dated when its transaction began, and every transaction that can still  *)
(* commit one began later.                                                 *)
(***************************************************************************)
LEMMA SettledForGood ==
    ASSUME AmountInv, Times, [ReportingNext]_reportingVars, NEW d \in Date, Settled(d)
    PROVE  Settled(d)' /\ EntriesBy(d)' = EntriesBy(d)
<1>1. /\ d \in Int /\ today \in Int /\ today' \in Int /\ today <= today'
      /\ \A c \in Date : c \in Int
  BY Transactions, Dates DEF Times
<1>2. today > d /\ today' > d
  BY <1>1 DEF Settled
<1>3. ASSUME NEW v \in Worker, InTransaction(v)' PROVE began'[v] > d
  BY <1>2, <1>3, Transactions DEF Settled
<1>4. ASSUME NEW f \in Elsewhere, posting'[f] # NoDate PROVE posting'[f] > d
  BY <1>2, <1>4, Transactions DEF Settled
<1>5. Settled(d)'
  BY <1>2, <1>3, <1>4 DEF Settled
<1>6. ASSUME NEW f \in entries' \ entries PROVE ~(created'[f] <= d)
  <2>1. created'[f] > d /\ created'[f] \in Int
    <3>1. ASSUME NEW w \in Worker, InTransaction(w), created'[f] = began[w]
          PROVE  created'[f] > d
      BY <3>1 DEF Settled
    <3>2. ASSUME NEW g \in Elsewhere, posting[g] # NoDate, created'[f] = posting[g]
          PROVE  created'[f] > d
      BY <3>2 DEF Settled
    <3>3. created'[f] \in Date
      BY <1>6, EntriesDated
    <3> QED BY <1>1, <1>6, <3>1, <3>2, <3>3, EntriesDated
  <2> QED BY <1>1, <2>1
<1>7. entries \subseteq entries' /\ \A f \in entries : created'[f] = created[f]
  BY EntriesDated
<1>8. EntriesBy(d)' = EntriesBy(d)
  BY <1>6, <1>7 DEF EntriesBy
<1> QED BY <1>5, <1>8

-----------------------------------------------------------------------------
(* What exports report.                                                    *)

\* The entries of one type by the end of a date.
OfType(type, d) == {f \in EntriesBy(d) : f.type = type}

SumsOf(d) == [available |-> Amount(EntriesBy(d), "available"),
              reserved  |-> Amount(EntriesBy(d), "reserved"),
              expired   |-> Amount(EntriesBy(d), "expired")]

PartsOf(d) == [earned   |-> Amount(OfType("earn", d), "available"),
               refunded |-> Amount(OfType("refund", d), "available"),
               adjusted |-> Amount(OfType("adjustment", d), "available")]

ExportsAreAmounts ==
    /\ \A d : TotalsBy(d) = SumsOf(d) /\ BreakdownBy(d) = PartsOf(d)
    /\ \A type, d : AvailableOf(type, d) = Amount(OfType(type, d), "available")

LEMMA ExportSums == ExportsAreAmounts
<1>1. \A d : TotalsBy(d) = SumsOf(d)
  BY AvailableSum, ReservedSum, ExpiredSum DEF TotalsBy, SumsOf
<1>2. \A type, d : AvailableOf(type, d) = Amount(OfType(type, d), "available")
  BY AvailableSum DEF AvailableOf, OfType
<1>3. \A d : BreakdownBy(d) = PartsOf(d)
  BY <1>2 DEF BreakdownBy, PartsOf
<1> QED BY <1>1, <1>2, <1>3 DEF ExportsAreAmounts

\* While the entries of a date stay, so does what is reported of it.
LEMMA ReportsStay ==
    ASSUME NEW d, EntriesBy(d)' = EntriesBy(d)
    PROVE  TotalsBy(d)' = TotalsBy(d) /\ BreakdownBy(d)' = BreakdownBy(d)
<1>1. ExportsAreAmounts'
  BY ExportSums, PTL
<1>2. TotalsBy(d)' = SumsOf(d)' /\ BreakdownBy(d)' = PartsOf(d)'
  BY <1>1 DEF ExportsAreAmounts
<1>3. TotalsBy(d) = SumsOf(d) /\ BreakdownBy(d) = PartsOf(d)
  BY ExportSums DEF ExportsAreAmounts
<1>4. SumsOf(d)' = SumsOf(d)
  BY DEF SumsOf, Amount
<1>5. PartsOf(d)' = PartsOf(d)
  BY DEF PartsOf, Amount, OfType
<1> QED BY <1>2, <1>3, <1>4, <1>5

\* The amounts of a set are those of a part of it and those of the rest.
LEMMA AmountSplit ==
    ASSUME NEW S, IsFiniteSet(S), \A e \in S : e.delta \in Buckets, NEW T \in SUBSET S
    PROVE  /\ IsFiniteSet(T) /\ IsFiniteSet(S \ T)
           /\ Amount(T, "available") \in Int /\ Amount(S \ T, "available") \in Int
           /\ Amount(S, "available") = Amount(T, "available") + Amount(S \ T, "available")
<1> DEFINE f == [e \in S |-> e.delta["available"]]
           g == [e \in T |-> e.delta["available"]]
           h == [e \in S \ T |-> e.delta["available"]]
<1>1. \A e \in S : f[e] \in Int
  BY DEF Buckets
<1>2. (\A e \in T : g[e] = f[e]) /\ (\A e \in S \ T : h[e] = f[e])
  OBVIOUS
<1>3. IsFiniteSet(T) /\ IsFiniteSet(S \ T)
  BY FS_Subset
<1>4. Summable(f, S) /\ Summable(f, T) /\ Summable(f, S \ T)
  BY <1>1, <1>3 DEF Summable
<1>5. /\ Amount(S, "available") = Total(f, S) /\ Amount(T, "available") = Total(g, T)
      /\ Amount(S \ T, "available") = Total(h, S \ T)
  BY DEF Amount
<1> HIDE DEF f, g, h
<1>6. Total(f, T) = Total(g, T) /\ Total(f, S \ T) = Total(h, S \ T)
  BY <1>2, <1>4, TotalEqual
<1>7. S = T \cup (S \ T) /\ T \cap (S \ T) = {}
  OBVIOUS
<1>8. Total(f, S) = Total(f, T) + Total(f, S \ T)
  BY <1>4, <1>7, TotalUnion
<1>9. Total(f, T) \in Int /\ Total(f, S \ T) \in Int
  BY <1>4, TotalWithout
<1> QED BY <1>3, <1>5, <1>6, <1>8, <1>9

\* Entries that move nothing sum up to nothing.
LEMMA AmountOfNothing ==
    ASSUME NEW S, IsFiniteSet(S), \A e \in S : e.delta.available = 0
    PROVE  Amount(S, "available") = 0
<1> DEFINE f == [e \in S |-> e.delta["available"]]
<1>1. \A e \in S : f[e] = 0
  OBVIOUS
<1>2. Amount(S, "available") = Total(f, S)
  BY DEF Amount
<1> HIDE DEF f
<1>3. Summable(f, S) /\ \A e \in S : f[e] = f[e] + f[e]
  BY <1>1 DEF Summable
<1> DEFINE sum == Total(f, S)
<1>4. sum = sum + sum
  BY <1>3, TotalPlus
<1>5. sum \in Int
  BY <1>3, TotalWithout
<1>6. sum = 0
  <2> HIDE DEF sum
  <2> QED BY <1>4, <1>5
<1> QED BY <1>2, <1>6

(***************************************************************************)
(* Reports are integers, and the available points are those earned,        *)
(* refunded and adjusted, less those reserved and not given back.          *)
(***************************************************************************)
LEMMA ReportsAddUp ==
    ASSUME AmountInv, Times, NEW d
    PROVE  /\ TotalsBy(d) \in Totals /\ BreakdownBy(d) \in Breakdowns
           /\ TotalsBy(d).available = BreakdownBy(d).earned + BreakdownBy(d).refunded
                                         + BreakdownBy(d).adjusted
                                         + AvailableOf("redemption_reserve", d)
                                         + AvailableOf("reservation_release", d)
<1> DEFINE all == EntriesBy(d)
           earned == OfType("earn", d)
           refunded == OfType("refund", d)
           adjusted == OfType("adjustment", d)
           reserved == OfType("redemption_reserve", d)
           released == OfType("reservation_release", d)
           rest == ((((all \ earned) \ refunded) \ adjusted) \ reserved) \ released
<1>1. IsFiniteSet(all) /\ \A f \in all : f.delta \in Buckets
  BY FS_Subset DEF AmountInv, Amounts, LedgerSound, EntriesBy
<1>2. /\ earned \subseteq all
      /\ refunded \subseteq all \ earned
      /\ adjusted \subseteq (all \ earned) \ refunded
      /\ reserved \subseteq ((all \ earned) \ refunded) \ adjusted
      /\ released \subseteq (((all \ earned) \ refunded) \ adjusted) \ reserved
  BY DEF OfType
<1>3. \A f \in rest : f.delta.available = 0
  <2>1. ASSUME NEW f \in all
        PROVE  \/ f.type \in {"earn", "refund", "redemption_reserve", "reservation_release",
                              "adjustment"}
               \/ f.delta.available = 0
    <3>1. CASE f \in Elsewhere
      BY <3>1, ElsewhereEntries
    <3>2. CASE f \in EventEntries
      BY <3>2, EntriesOfEvents DEF AmountInv, Amounts, EventEntries, EntriesBy
    <3> QED BY <3>1, <3>2 DEF Times, EntriesBy
  <2> QED BY <2>1 DEF OfType
<1>4. \A bucket \in BucketNames : Amount(all, bucket) \in Int
  <2> HIDE DEF all
  <2> QED BY <1>1, AmountInt
<1>5. "available" \in BucketNames /\ "reserved" \in BucketNames /\ "expired" \in BucketNames
  BY DEF BucketNames
<1>6. /\ TotalsBy(d) = SumsOf(d) /\ BreakdownBy(d) = PartsOf(d)
      /\ AvailableOf("redemption_reserve", d) = Amount(reserved, "available")
      /\ AvailableOf("reservation_release", d) = Amount(released, "available")
  BY ExportSums DEF ExportsAreAmounts
<1>7. SumsOf(d) \in Totals
  BY <1>4, <1>5 DEF SumsOf, Totals
<1>8. PartsOf(d) = [earned |-> Amount(earned, "available"),
                    refunded |-> Amount(refunded, "available"),
                    adjusted |-> Amount(adjusted, "available")]
  BY DEF PartsOf
<1>9. SumsOf(d).available = Amount(all, "available")
  BY DEF SumsOf
<1> HIDE DEF all, earned, refunded, adjusted, reserved, released
<1> DEFINE rest1 == all \ earned
           rest2 == rest1 \ refunded
           rest3 == rest2 \ adjusted
           rest4 == rest3 \ reserved
           Sum(S) == Amount(S, "available")
<1>10. rest = rest4 \ released
  OBVIOUS
<1>11. /\ IsFiniteSet(rest1) /\ Sum(earned) \in Int /\ Sum(rest1) \in Int
       /\ Sum(all) = Sum(earned) + Sum(rest1)
  BY <1>1, <1>2, AmountSplit
<1>12. /\ IsFiniteSet(rest2) /\ Sum(refunded) \in Int /\ Sum(rest2) \in Int
       /\ Sum(rest1) = Sum(refunded) + Sum(rest2)
  BY <1>1, <1>2, <1>11, AmountSplit
<1>13. /\ IsFiniteSet(rest3) /\ Sum(adjusted) \in Int /\ Sum(rest3) \in Int
       /\ Sum(rest2) = Sum(adjusted) + Sum(rest3)
  BY <1>1, <1>2, <1>12, AmountSplit
<1>14. /\ IsFiniteSet(rest4) /\ Sum(reserved) \in Int /\ Sum(rest4) \in Int
       /\ Sum(rest3) = Sum(reserved) + Sum(rest4)
  BY <1>1, <1>2, <1>13, AmountSplit
<1>15. /\ IsFiniteSet(rest) /\ Sum(released) \in Int /\ Sum(rest) \in Int
       /\ Sum(rest4) = Sum(released) + Sum(rest)
  BY <1>1, <1>2, <1>10, <1>14, AmountSplit
<1>16. Sum(rest) = 0
  <2> HIDE DEF rest
  <2> QED BY <1>3, <1>15, AmountOfNothing
<1> HIDE DEF rest, rest1, rest2, rest3, rest4
<1>17. Sum(all) = Sum(earned) + Sum(refunded) + Sum(adjusted) + Sum(reserved) + Sum(released)
  <2> HIDE DEF Sum
  <2> QED BY <1>11, <1>12, <1>13, <1>14, <1>15, <1>16
<1>18. PartsOf(d) \in Breakdowns
  BY <1>8, <1>11, <1>12, <1>13 DEF Breakdowns
<1> QED BY <1>6, <1>7, <1>8, <1>9, <1>17, <1>18

(***************************************************************************)
(* A report that was requested of a settled date says what the ledger says *)
(* of it now.  In progress or stored, each one is of that kind.            *)
(***************************************************************************)
Faithful(row, d) ==
    row.settled => /\ d \in Date
                   /\ Settled(d)
                   /\ row.totals = TotalsBy(d)
                   /\ row.pc \in {"breakdown", "complete"} => row.breakdown = BreakdownBy(d)

InProgress(row) ==
    /\ row \in Exports
    /\ row.pc \in {"idle", "totals", "breakdown"}
    /\ row.pc # "idle" => row.date \in Date
    /\ Faithful(row, row.date)

Stored(row, d) ==
    /\ row \in Exports
    /\ row.pc \in {"idle", "complete"}
    /\ Faithful(row, d)

Reports ==
    /\ export \in [Exporter -> Exports]
    /\ exports \in [Date -> Exports]
    /\ \A x \in Exporter : InProgress(export[x])
    /\ \A d \in Date : Stored(exports[d], d)

LEMMA FaithfulStays ==
    ASSUME AmountInv, Times, [ReportingNext]_reportingVars, NEW row, NEW d, Faithful(row, d)
    PROVE  Faithful(row, d)'
<1>1. CASE ~row.settled
  BY <1>1 DEF Faithful
<1>2. CASE row.settled
  <2>1. /\ d \in Date /\ Settled(d) /\ row.totals = TotalsBy(d)
        /\ row.pc \in {"breakdown", "complete"} => row.breakdown = BreakdownBy(d)
    BY <1>2 DEF Faithful
  <2>2. Settled(d)' /\ EntriesBy(d)' = EntriesBy(d)
    BY <2>1, SettledForGood
  <2>3. TotalsBy(d)' = TotalsBy(d) /\ BreakdownBy(d)' = BreakdownBy(d)
    BY <2>2, ReportsStay
  <2> QED BY <2>1, <2>2, <2>3 DEF Faithful
<1> QED BY <1>1, <1>2

\* It is enough that what a step writes is faithful to the ledger it finds.
LEMMA ReportsWritten ==
    ASSUME AmountInv, Times, [ReportingNext]_reportingVars,
           export' \in [Exporter -> Exports], exports' \in [Date -> Exports],
           \A x \in Exporter : \E row : row = export'[x] /\ InProgress(row),
           \A d \in Date : \E row : row = exports'[d] /\ Stored(row, d)
    PROVE  Reports'
<1>1. ASSUME NEW x \in Exporter PROVE InProgress(export[x])'
  <2>1. PICK row : row = export'[x] /\ InProgress(row)
    OBVIOUS
  <2>2. Faithful(row, row.date)'
    BY <2>1, FaithfulStays DEF InProgress
  <2>3. Faithful(export[x], export[x].date)'
    BY <2>1, <2>2 DEF Faithful
  <2> QED BY <2>1, <2>3 DEF InProgress
<1>2. ASSUME NEW d \in Date PROVE Stored(exports[d], d)'
  <2>1. PICK row : row = exports'[d] /\ Stored(row, d)
    OBVIOUS
  <2>2. Faithful(row, d)'
    BY <2>1, FaithfulStays DEF Stored
  <2>3. Faithful(exports[d], d)'
    BY <2>1, <2>2 DEF Faithful
  <2> QED BY <2>1, <2>3 DEF Stored
<1> QED BY <1>1, <1>2 DEF Reports

LEMMA IdleReport == NoExport \in Exports /\ InProgress(NoExport) /\ \A d : Stored(NoExport, d)
<1>1. NoExport \in Exports /\ NoExport.pc = "idle" /\ ~NoExport.settled
  BY DEF NoExport, Exports, NoTotals, NoBreakdown, Totals, Breakdowns
<1> QED BY <1>1 DEF InProgress, Stored, Faithful

LEMMA ReportsInit == ReportingInit => Reports
<1> SUFFICES ASSUME ReportingInit PROVE Reports
  OBVIOUS
<1>1. /\ export = [x \in Exporter |-> NoExport]
      /\ exports = [d \in Date |-> NoExport]
  BY DEF ReportingInit
<1>2. \A x \in Exporter : export[x] = NoExport
  BY <1>1
<1>3. \A d \in Date : exports[d] = NoExport
  BY <1>1
<1>4. /\ export \in [Exporter -> Exports]
      /\ exports \in [Date -> Exports]
  BY <1>1, IdleReport
<1> QED BY <1>2, <1>3, <1>4, IdleReport DEF Reports

LEMMA SumTotalsReports ==
    ASSUME AmountInv, Times, Reports, NEW x \in Exporter,
           NEW requested \in Requested[today], SumTotals(x, requested)
    PROVE  \E row : InProgress(row) /\ export' = [export EXCEPT ![x] = row]
<1> DEFINE d == BusinessDate(requested)
<1>1. d \in Date
  BY DateAssumption DEF BusinessDate, Times
<1>2. TotalsBy(d) \in Totals /\ NoBreakdown \in Breakdowns
  BY ReportsAddUp DEF NoBreakdown, Breakdowns
<1>3. PICK row : /\ row = [NoExport EXCEPT !.pc = "totals", !.date = d, !.settled = Settled(d),
                                           !.totals = TotalsBy(d)]
                 /\ export' = [export EXCEPT ![x] = row]
  BY Zenon DEF SumTotals
<1> HIDE DEF d
<1>4. /\ row.pc = "totals" /\ row.date = d /\ row.totals = TotalsBy(d)
      /\ row.breakdown = NoBreakdown
      /\ row = [pc |-> row.pc, date |-> row.date, settled |-> row.settled,
                totals |-> row.totals, breakdown |-> row.breakdown]
  BY <1>3 DEF NoExport
<1>5. row.settled = Settled(d)
  BY <1>3 DEF NoExport
<1>6. row.settled \in BOOLEAN
  BY <1>5 DEF Settled
<1>7. row \in Exports
  BY <1>1, <1>2, <1>4, <1>6 DEF Exports
<1>8. Faithful(row, d)
  BY <1>1, <1>4, <1>5 DEF Faithful
<1>9. InProgress(row)
  BY <1>1, <1>4, <1>7, <1>8 DEF InProgress
<1> QED BY <1>3, <1>9

LEMMA SumBreakdownReports ==
    ASSUME AmountInv, Times, Reports, NEW x \in Exporter, SumBreakdown(x)
    PROVE  \E row : InProgress(row) /\ export' = [export EXCEPT ![x] = row]
<1> DEFINE old == export[x]
           d == old.date
           row == [old EXCEPT !.pc = "breakdown", !.breakdown = BreakdownBy(d)]
<1>1. old \in Exports /\ old.pc = "totals" /\ d \in Date /\ Faithful(old, d)
  BY DEF SumBreakdown, Reports, InProgress
<1>2. BreakdownBy(d) \in Breakdowns
  BY ReportsAddUp
<1>3. export' = [export EXCEPT ![x] = row]
  BY DEF SumBreakdown, Reports
<1> HIDE DEF d, old
<1>4. /\ row \in Exports /\ row.pc = "breakdown" /\ row.date = old.date
      /\ row.settled = old.settled /\ row.totals = old.totals /\ row.breakdown = BreakdownBy(d)
  BY <1>1, <1>2 DEF Exports
<1> HIDE DEF row
<1>5. Faithful(row, d)
  BY <1>1, <1>4 DEF Faithful
<1>6. InProgress(row)
  BY <1>1, <1>4, <1>5 DEF InProgress, d
<1> QED BY <1>3, <1>6

LEMMA UpsertReports ==
    ASSUME Reports, NEW x \in Exporter, Upsert(x)
    PROVE  \E d \in Date : \E row : Stored(row, d) /\ exports' = [exports EXCEPT ![d] = row]
<1> DEFINE old == export[x]
           d == old.date
           row == [old EXCEPT !.pc = "complete"]
<1>1. old \in Exports /\ old.pc = "breakdown" /\ d \in Date /\ Faithful(old, d)
  BY DEF Upsert, Reports, InProgress
<1>2. exports' = [exports EXCEPT ![d] = row]
  BY DEF Upsert
<1> HIDE DEF d, old
<1>3. /\ row \in Exports /\ row.pc = "complete"
      /\ row.settled = old.settled /\ row.totals = old.totals /\ row.breakdown = old.breakdown
  BY <1>1 DEF Exports
<1> HIDE DEF row
<1>4. Faithful(row, d)
  BY <1>1, <1>3 DEF Faithful
<1>5. Stored(row, d)
  BY <1>3, <1>4 DEF Stored
<1> QED BY <1>1, <1>2, <1>5

\* No step stores or keeps a report that is not faithful.
LEMMA ReportsNext ==
    ASSUME AmountInv, Times, Reports, [ReportingNext]_reportingVars
    PROVE  Reports'
<1>1. ASSUME export' = export
      PROVE  /\ export' \in [Exporter -> Exports]
             /\ \A x \in Exporter : \E row : row = export'[x] /\ InProgress(row)
  BY <1>1 DEF Reports
<1>2. ASSUME exports' = exports
      PROVE  /\ exports' \in [Date -> Exports]
             /\ \A d \in Date : \E row : row = exports'[d] /\ Stored(row, d)
  BY <1>2 DEF Reports
<1>3. ASSUME NEW x \in Exporter, NEW row, InProgress(row), export' = [export EXCEPT ![x] = row]
      PROVE  /\ export' \in [Exporter -> Exports]
             /\ \A y \in Exporter : \E r : r = export'[y] /\ InProgress(r)
  <2>1. row \in Exports /\ export \in [Exporter -> Exports]
    BY <1>3 DEF InProgress, Reports
  <2>2. \A y \in Exporter : export'[y] = IF y = x THEN row ELSE export[y]
    BY <1>3, <2>1
  <2>3. export' \in [Exporter -> Exports]
    BY <1>3, <2>1
  <2> QED BY <1>3, <2>2, <2>3 DEF Reports
<1>4. ASSUME NEW d \in Date, NEW row, Stored(row, d), exports' = [exports EXCEPT ![d] = row]
      PROVE  /\ exports' \in [Date -> Exports]
             /\ \A c \in Date : \E r : r = exports'[c] /\ Stored(r, c)
  <2>1. row \in Exports /\ exports \in [Date -> Exports]
    BY <1>4 DEF Stored, Reports
  <2>2. \A c \in Date : exports'[c] = IF c = d THEN row ELSE exports[c]
    BY <1>4, <2>1
  <2>3. exports' \in [Date -> Exports]
    BY <1>4, <2>1
  <2> QED BY <1>4, <2>2, <2>3 DEF Reports
<1>5. CASE UNCHANGED <<export, exports>>
  BY <1>1, <1>2, <1>5, ReportsWritten
<1>6. ASSUME NEW x \in Exporter, NEW d \in Requested[today], SumTotals(x, d) PROVE Reports'
  <2>1. exports' = exports
    BY <1>6 DEF SumTotals
  <2>2. PICK row : InProgress(row) /\ export' = [export EXCEPT ![x] = row]
    BY <1>6, SumTotalsReports
  <2> QED BY <1>2, <1>3, <2>1, <2>2, ReportsWritten
<1>7. ASSUME NEW x \in Exporter, SumBreakdown(x) PROVE Reports'
  <2>1. exports' = exports
    BY <1>7 DEF SumBreakdown
  <2>2. PICK row : InProgress(row) /\ export' = [export EXCEPT ![x] = row]
    BY <1>7, SumBreakdownReports
  <2> QED BY <1>2, <1>3, <2>1, <2>2, ReportsWritten
<1>8. ASSUME NEW x \in Exporter, Upsert(x) PROVE Reports'
  <2>1. export' = [export EXCEPT ![x] = NoExport]
    BY <1>8 DEF Upsert
  <2>2. PICK d \in Date : \E row : Stored(row, d) /\ exports' = [exports EXCEPT ![d] = row]
    BY <1>8, UpsertReports
  <2> QED BY <1>3, <1>4, <2>1, <2>2, IdleReport, ReportsWritten
<1>9. ASSUME NEW x \in Exporter, AbandonExport(x) PROVE Reports'
  <2>1. export' = [export EXCEPT ![x] = NoExport] /\ exports' = exports
    BY <1>9 DEF AbandonExport
  <2> QED BY <1>2, <1>3, <2>1, IdleReport, ReportsWritten
<1>10. ASSUME \/ \E e \in Event : Receive(e)
              \/ \E w \in Worker : Process(w)
              \/ \E f \in Elsewhere : BeginPosting(f) \/ CommitPosting(f) \/ AbandonPosting(f)
              \/ Midnight
       PROVE  Reports'
  BY <1>5, <1>10 DEF Receive, Process, BeginPosting, CommitPosting, AbandonPosting, Midnight
<1>11. CASE UNCHANGED reportingVars
  BY <1>5, <1>11 DEF reportingVars
<1> QED BY <1>6, <1>7, <1>8, <1>9, <1>10, <1>11 DEF ReportingNext

ReportingInv == AmountInv /\ Times /\ Reports

\* Amounts are numbers, dates are behind the clock and reports are faithful.
THEOREM ReportingInvariance == ReportingSpec => []ReportingInv
<1>1. ReportingInit => ReportingInv
  BY AmountInit, TimesInit, ReportsInit DEF ReportingInit, ReportingInv
<1>2. ReportingInv /\ [ReportingNext]_reportingVars => ReportingInv'
  <2> SUFFICES ASSUME ReportingInv, [ReportingNext]_reportingVars PROVE ReportingInv'
    OBVIOUS
  <2>1. AmountInv'
    BY ReportingAmounts DEF ReportingInv
  <2>2. Times' /\ Reports'
    BY TimesNext, ReportsNext DEF ReportingInv
  <2> QED BY <2>1, <2>2 DEF ReportingInv
<1> QED BY <1>1, <1>2, PTL DEF ReportingSpec

\* The exports keep their types.
THEOREM ReportingTypeCorrect == ReportingSpec => []ReportingTypeOK
<1>1. AmountInv => RowsOK
  BY DEF AmountInv, Amounts, Inv, Shapes, EventStatuses, LedgerSound, RowsOK
<1>2. ASSUME Times, NEW f \in entries
      PROVE  f \in [account : Account, type : EntryTypes, delta : Buckets,
                    source : Event \cup Redemption \cup AdjustmentSource]
  <2>1. CASE f \in EventEntries
    BY <2>1 DEF EventEntries
  <2>2. CASE f \in Elsewhere
    <3>1. /\ f.account \in Account /\ f.type \in EntryTypes /\ f.delta \in Buckets
          /\ f.source \in Event \cup Redemption \cup AdjustmentSource
          /\ f = [account |-> f.account, type |-> f.type, source |-> f.source,
                  delta |-> f.delta]
      BY <2>2, ElsewhereEntries
    <3> QED BY <3>1
  <2> QED BY <1>2, <2>1, <2>2 DEF Times
<1>3. Times /\ Reports /\ RowsOK => ReportingTypeOK
  BY <1>2 DEF Times, Reports, InProgress, ReportingTypeOK
<1> QED BY <1>1, <1>3, ReportingInvariance, PTL DEF ReportingInv

(***************************************************************************)
(* An export that was requested once its date is settled is reproducible:  *)
(* whatever is processed, redeemed, adjusted, crashes or is exported       *)
(* meanwhile, the row that is stored for the date says what the ledger     *)
(* says of it then and at any later time, and its two halves, summed by    *)
(* two statements at different moments, agree: the available total is what *)
(* was earned, refunded and adjusted, less what redemptions reserved and   *)
(* have not released.                                                      *)
(***************************************************************************)
THEOREM SettledExportsReproducible == ReportingSpec => []SettledExportReproducible
<1>1. ReportingInv => SettledExportReproducible
  <2> SUFFICES ASSUME ReportingInv, NEW d \in Date,
                      exports[d].pc = "complete", exports[d].settled
               PROVE  /\ exports[d].totals = TotalsBy(d)
                      /\ exports[d].breakdown = BreakdownBy(d)
                      /\ exports[d].totals.available = exports[d].breakdown.earned
                            + exports[d].breakdown.refunded + exports[d].breakdown.adjusted
                            + AvailableOf("redemption_reserve", d)
                            + AvailableOf("reservation_release", d)
    BY DEF SettledExportReproducible
  <2>1. /\ exports[d].totals = TotalsBy(d)
        /\ exports[d].breakdown = BreakdownBy(d)
    BY DEF ReportingInv, Reports, Stored, Faithful
  <2> QED BY <2>1, ReportsAddUp DEF ReportingInv
<1> QED BY <1>1, ReportingInvariance, PTL

-----------------------------------------------------------------------------
(* What exports report against what members see.                           *)

MembersSee == MapThenSumSet(LAMBDA a : balance[a].available + balance[a].reserved, Account)

LiabilityStep ==
    \A x \in Exporter :
        export[x].pc = "idle" /\ export'[x].pc = "totals" /\ export'[x].date >= today =>
            export'[x].totals.available + export'[x].totals.reserved = MembersSee

\* The sums for a date that has not passed are over the whole ledger.
LEMMA LiabilityOfToday ==
    ASSUME ReportingInv, SnapshotIsLedgerSum, IsFiniteSet(Account),
           NEW d \in Date, d >= today
    PROVE  TotalsBy(d).available + TotalsBy(d).reserved = MembersSee
<1>1. EntriesBy(d) = entries
  <2>1. ASSUME NEW f \in entries PROVE created[f] <= d
    <3>1. today \in Int /\ d \in Int /\ created[f] \in Int /\ created[f] <= today
      BY Dates DEF ReportingInv, Times
    <3> QED BY <3>1
  <2> QED BY <2>1 DEF EntriesBy
<1>2. /\ TotalsBy(d).available = Amount(entries, "available")
      /\ TotalsBy(d).reserved = Amount(entries, "reserved")
  <2>1. TotalsBy(d) = SumsOf(d)
    BY ExportSums DEF ExportsAreAmounts
  <2> QED BY <1>1, <2>1 DEF SumsOf
<1>3. SnapshotIsAmount /\ LedgerSound
  BY LedgerSums DEF SumsAreAmounts, ReportingInv, AmountInv, Amounts
<1>4. MembersSee = Amount(entries, "available") + Amount(entries, "reserved")
  BY <1>3, LiabilityTwoWays DEF MembersSee
<1> QED BY <1>2, <1>4

\* Only the first statement of an export starts one.
LEMMA ExportStarts ==
    ASSUME ReportingInv, ReportingNext, NEW x \in Exporter,
           export[x].pc = "idle", export'[x].pc = "totals"
    PROVE  \E d \in Date : export'[x].date = d /\ export'[x].totals = TotalsBy(d)
<1>0. export \in [Exporter -> Exports] /\ NoExport.pc = "idle"
  BY DEF ReportingInv, Reports, NoExport
<1>1. \/ \E y \in Exporter, d \in Requested[today] : SumTotals(y, d)
      \/ export' = export
      \/ \E y \in Exporter : export' = [export EXCEPT ![y] = NoExport]
      \/ \E y \in Exporter : SumBreakdown(y)
  BY DEF ReportingNext, Receive, Process, BeginPosting, CommitPosting, AbandonPosting, Midnight,
         Upsert, AbandonExport
<1>2. ASSUME NEW y \in Exporter, SumBreakdown(y) PROVE FALSE
  <2>1. export[y].pc = "totals" /\ y # x
    BY <1>2 DEF SumBreakdown
  <2>2. export'[x] = export[x]
    BY <1>0, <1>2, <2>1 DEF SumBreakdown
  <2> QED BY <2>2
<1>3. PICK y \in Exporter, requested \in Requested[today] : SumTotals(y, requested)
  BY <1>0, <1>1, <1>2
<1> DEFINE d == BusinessDate(requested)
<1>4. d \in Date
  BY DateAssumption DEF BusinessDate, ReportingInv, Times
<1>5. PICK row : /\ row = [NoExport EXCEPT !.pc = "totals", !.date = d, !.settled = Settled(d),
                                           !.totals = TotalsBy(d)]
                 /\ export' = [export EXCEPT ![y] = row]
  BY <1>3, Zenon DEF SumTotals
<1> HIDE DEF d
<1>6. row.date = d /\ row.totals = TotalsBy(d)
  BY <1>5 DEF NoExport
<1>7. x = y /\ export'[x] = row
  BY <1>0, <1>5
<1> QED BY <1>4, <1>6, <1>7

(***************************************************************************)
(* At any moment, however many transactions are open, the liability that   *)
(* an export of the current date sums up from the entries is what the      *)
(* members together see in their snapshots.  Accounts must be finitely     *)
(* many for their balances to have a sum.                                  *)
(***************************************************************************)
THEOREM LiabilityIsWhatMembersSee ==
    IsFiniteSet(Account) => (ReportingSpec => LiabilityIsBalances)
<1> SUFFICES ASSUME IsFiniteSet(Account) PROVE ReportingSpec => LiabilityIsBalances
  OBVIOUS
<1>1. ReportingInit => SnapshotIsLedgerSum
  BY LedgerSoundInit DEF ReportingInit, Init
<1>2. ReportingInv /\ SnapshotIsLedgerSum /\ [ReportingNext]_reportingVars
        => SnapshotIsLedgerSum'
  BY ReportingSnapshot DEF ReportingInv
<1>3. ReportingInv /\ SnapshotIsLedgerSum /\ [ReportingNext]_reportingVars
        => [LiabilityStep]_reportingVars
  <2> SUFFICES ASSUME ReportingInv, SnapshotIsLedgerSum, ReportingNext, NEW x \in Exporter,
                      export[x].pc = "idle", export'[x].pc = "totals", export'[x].date >= today
               PROVE  export'[x].totals.available + export'[x].totals.reserved = MembersSee
    BY DEF LiabilityStep
  <2>1. PICK d \in Date : export'[x].date = d /\ export'[x].totals = TotalsBy(d)
    BY ExportStarts
  <2> QED BY <2>1, LiabilityOfToday
<1>4. LiabilityIsBalances <=> [][LiabilityStep]_reportingVars
  BY DEF LiabilityIsBalances, LiabilityStep, MembersSee
<1> QED BY <1>1, <1>2, <1>3, <1>4, ReportingInvariance, PTL DEF ReportingSpec
=============================================================================
