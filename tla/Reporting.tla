----------------------------- MODULE Reporting -----------------------------
(***************************************************************************)
(* Ledger liability exports, while reward processing, redemptions and      *)
(* manual adjustments post to the ledger.                                  *)
(*                                                                         *)
(* An export is for a business date: two statements sum the entries        *)
(* created by the end of that date, a third stores the sums under the      *)
(* date.  No transaction encloses them.  An entry is created at the time   *)
(* its transaction began, not when it was committed, so for a while after  *)
(* midnight entries of the day before may still appear.                    *)
(*                                                                         *)
(* Of redemptions and adjustments (Redemption models them) only what       *)
(* exports depend on is here: the entries they post, in what order, and    *)
(* the time between the begin and the commit of their transactions.        *)
(***************************************************************************)
EXTENDS RewardProcessing

CONSTANTS
    Redemption,         \* redemptions made meanwhile
    Redeemer,           \* Redeemer[r]: the account redemption r takes points of
    Cost,               \* Cost[r]: the points it reserves
    AdjustmentSource,   \* source ids of manual adjustments
    Adjusted,           \* Adjusted[s]: the account adjustment s is of
    AdjustmentDelta,    \* AdjustmentDelta[s]: what it adds
    Exporter,           \* concurrent export requests
    Date,               \* the dates the clock reaches, 1 to the last
    Requested,          \* Requested[d]: the dates requests of day d name, or NoDate
    NoDate

ASSUME DateAssumption ==
    /\ Cardinality(Date) \in Nat \ {0}
    /\ Date = 1..Cardinality(Date)
    /\ Requested \in [Date -> SUBSET (Date \cup {NoDate})]
    /\ NoDate \notin Date

ASSUME PostingAssumption ==
    /\ (Redemption \cup AdjustmentSource) \cap Event = {}
    /\ Redeemer \in [Redemption -> Account]
    /\ Cost \in [Redemption -> Nat \ {0}]
    /\ Adjusted \in [AdjustmentSource -> Account]
    /\ AdjustmentDelta \in [AdjustmentSource -> Buckets]

Reserve(r) == Entry(Redeemer[r], "redemption_reserve", r,
                    [available |-> -Cost[r], reserved |-> Cost[r], expired |-> 0])
Capture(r) == Entry(Redeemer[r], "redemption_capture", r,
                    [available |-> 0, reserved |-> -Cost[r], expired |-> 0])
Release(r) == Entry(Redeemer[r], "reservation_release", r,
                    [available |-> Cost[r], reserved |-> -Cost[r], expired |-> 0])
Adjustment(s) == Entry(Adjusted[s], "adjustment", s, AdjustmentDelta[s])

\* What the other services post.
Elsewhere == {Reserve(r) : r \in Redemption} \cup {Capture(r) : r \in Redemption}
                \cup {Release(r) : r \in Redemption}
                \cup {Adjustment(s) : s \in AdjustmentSource}

VARIABLES
    today,              \* the date of the database's clock
    began,              \* the date a worker's open transaction began, or NoDate
    posting,            \* the same of the transaction that is to post an entry
    created,            \* ledger_entries.created_at, by entry
    export,             \* the export requests in progress
    exports             \* ledger_exports, by business date

reportingVars == <<vars, today, began, posting, created, export, exports>>

Totals == [available : Int, reserved : Int, expired : Int]
Breakdowns == [earned : Int, refunded : Int, adjusted : Int]

NoTotals == [available |-> 0, reserved |-> 0, expired |-> 0]
NoBreakdown == [earned |-> 0, refunded |-> 0, adjusted |-> 0]

NoExport == [pc |-> "idle", date |-> NoDate, settled |-> FALSE,
             totals |-> NoTotals, breakdown |-> NoBreakdown]

Exports == [pc : {"idle", "totals", "breakdown", "complete"}, date : Date \cup {NoDate},
            settled : BOOLEAN, totals : Totals, breakdown : Breakdowns]

ReportingTypeOK ==
    /\ RowsOK
    /\ entries \subseteq [account : Account, type : EntryTypes, delta : Buckets,
                           source : Event \cup Redemption \cup AdjustmentSource]
    /\ today \in Date
    /\ began \in [Worker -> Date \cup {NoDate}]
    /\ posting \in [Elsewhere -> Date \cup {NoDate}]
    /\ created \in [entries -> Date]
    /\ export \in [Exporter -> Exports]
    /\ \A x \in Exporter : export[x].pc # "idle" => export[x].date \in Date
    /\ exports \in [Date -> Exports]

ReportingInit ==
    /\ Init
    /\ today = 1
    /\ began = [w \in Worker |-> NoDate]
    /\ posting = [f \in Elsewhere |-> NoDate]
    /\ created = [f \in entries |-> NoDate]
    /\ export = [x \in Exporter |-> NoExport]
    /\ exports = [d \in Date |-> NoExport]

-----------------------------------------------------------------------------
(* Time, and the steps of other components with the dates of their         *)
(* transactions.                                                           *)

InTransaction(w) == work[w].pc \in {"limit", "award", "reverse"}

\* created_at of a new entry is now(), which in a transaction is the time it began.
Stamp(date) == created' = [f \in entries' |-> IF f \in entries THEN created[f] ELSE date]

\* A worker takes a step of its own.
Process(w) ==
    /\ Work(w) \/ Fail(w) \/ LoseFailure(w) \/ Crash(w)
    /\ began' = [began EXCEPT ![w] =
           IF ~InTransaction(w)' THEN NoDate ELSE IF InTransaction(w) THEN @ ELSE today]
    /\ Stamp(began[w])
    /\ UNCHANGED <<today, posting, export, exports>>

Receive(e) == Ingest(e) /\ UNCHANGED <<today, began, posting, created, export, exports>>

Midnight ==
    /\ today + 1 \in Date
    /\ today' = today + 1
    /\ UNCHANGED <<vars, began, posting, created, export, exports>>

\* A request begins its transaction.  One that is to settle a redemption already
\* settled will read that it is and end.
BeginPosting(f) ==
    /\ posting[f] = NoDate /\ f \notin entries
    /\ \A r \in Redemption :
          f \in {Capture(r), Release(r)} => entries \cap {Capture(r), Release(r)} = {}
    /\ posting' = [posting EXCEPT ![f] = today]
    /\ UNCHANGED <<vars, today, began, created, export, exports>>

\* It posts and commits: a settlement, if its redemption exists by then.  The status
\* is read without a lock, so another settlement may have committed since the begin.
CommitPosting(f) ==
    /\ posting[f] # NoDate
    /\ \A r \in Redemption : f \in {Capture(r), Release(r)} => Reserve(r) \in entries
    /\ PostLedgerEntry(f)
    /\ Stamp(posting[f])
    /\ posting' = [posting EXCEPT ![f] = NoDate]
    /\ UNCHANGED <<status, calculation, usage, usageLock, work, today, began, export, exports>>

\* It is refused, fails or its client goes away.
AbandonPosting(f) ==
    /\ posting[f] # NoDate
    /\ posting' = [posting EXCEPT ![f] = NoDate]
    /\ UNCHANGED <<vars, today, began, created, export, exports>>

-----------------------------------------------------------------------------
(* An export request.                                                      *)

\* Seeded bug: the sums are over the whole ledger, whatever the date.
AllEntries(d) == entries

EntriesBy(d) == {f \in entries : created[f] <= d}

\* Seeded bug: liability counts what was earned and forgets what was refunded.
TotalsEarned(d) ==
    LET earned == {f \in EntriesBy(d) : f.type = "earn"}
    IN [available |-> MapThenSumSet(LAMBDA f : f.delta.available, earned),
        reserved  |-> MapThenSumSet(LAMBDA f : f.delta.reserved, earned),
        expired   |-> MapThenSumSet(LAMBDA f : f.delta.expired, earned)]

TotalsBy(d) ==
    [available |-> MapThenSumSet(LAMBDA f : f.delta.available, EntriesBy(d)),
     reserved  |-> MapThenSumSet(LAMBDA f : f.delta.reserved, EntriesBy(d)),
     expired   |-> MapThenSumSet(LAMBDA f : f.delta.expired, EntriesBy(d))]

AvailableOf(type, d) ==
    MapThenSumSet(LAMBDA f : f.delta.available, {f \in EntriesBy(d) : f.type = type})

BreakdownBy(d) == [earned   |-> AvailableOf("earn", d),
                   refunded |-> AvailableOf("refund", d),
                   adjusted |-> AvailableOf("adjustment", d)]

\* A date is settled when no entry can be created on it any more: it has passed,
\* and so have the transactions that began on it.  History for the properties.
Settled(d) ==
    /\ today > d
    /\ \A w \in Worker : InTransaction(w) => began[w] > d
    /\ \A f \in Elsewhere : posting[f] # NoDate => posting[f] > d

\* Seeded bug: an empty date is not replaced.
DateAsGiven(d) == d

\* A request without a date is for the current one.
BusinessDate(d) == IF d = NoDate THEN today ELSE d

\* LedgerSummary, first statement.
SumTotals(x, requested) ==
    LET d == BusinessDate(requested)
    IN /\ export[x].pc = "idle"
       /\ export' = [export EXCEPT ![x] =
              [NoExport EXCEPT !.pc = "totals", !.date = d, !.settled = Settled(d),
                               !.totals = TotalsBy(d)]]
       /\ UNCHANGED <<vars, today, began, posting, created, exports>>

\* LedgerSummary, second statement.
SumBreakdown(x) ==
    /\ export[x].pc = "totals"
    /\ export' = [export EXCEPT ![x] =
           [@ EXCEPT !.pc = "breakdown", !.breakdown = BreakdownBy(export[x].date)]]
    /\ UNCHANGED <<vars, today, began, posting, created, exports>>

\* UpsertLedgerLiabilityExport: the row of the date is replaced, if there is one.
Upsert(x) ==
    /\ export[x].pc = "breakdown"
    /\ exports' = [exports EXCEPT ![export[x].date] = [export[x] EXCEPT !.pc = "complete"]]
    /\ export' = [export EXCEPT ![x] = NoExport]
    /\ UNCHANGED <<vars, today, began, posting, created>>

\* A statement fails or the client goes away.
AbandonExport(x) ==
    /\ export[x].pc # "idle"
    /\ export' = [export EXCEPT ![x] = NoExport]
    /\ UNCHANGED <<vars, today, began, posting, created, exports>>

-----------------------------------------------------------------------------
ReportingNext ==
    \/ \E e \in Event : Receive(e)
    \/ \E w \in Worker : Process(w)
    \/ \E f \in Elsewhere : BeginPosting(f) \/ CommitPosting(f) \/ AbandonPosting(f)
    \/ Midnight
    \/ \E x \in Exporter :
          \/ \E d \in Requested[today] : SumTotals(x, d)
          \/ SumBreakdown(x)
          \/ Upsert(x)
          \/ AbandonExport(x)

ReportingSpec == ReportingInit /\ [][ReportingNext]_reportingVars

-----------------------------------------------------------------------------
(* Properties.                                                             *)

\* "Daily liability export is reproducible for a partner and business date":
\* an export requested once its date is settled says what the ledger says of
\* that date at any later time, and its two halves, summed at different moments,
\* agree: the available total is what was earned, refunded and adjusted, less what
\* reservations took and releases have not given back.  Whatever is processed,
\* redeemed, adjusted or exported meanwhile.
SettledExportReproducible ==
    \A d \in Date :
        LET stored == exports[d]
        IN stored.pc = "complete" /\ stored.settled =>
              /\ stored.totals = TotalsBy(d)
              /\ stored.breakdown = BreakdownBy(d)
              /\ stored.totals.available = stored.breakdown.earned
                    + stored.breakdown.refunded + stored.breakdown.adjusted
                    + AvailableOf("redemption_reserve", d)
                    + AvailableOf("reservation_release", d)

\* The liability reported for a date that has not passed is what the balances
\* of all accounts come to at that moment, however many transactions are open:
\* exports sum the entries, members see the snapshots.
LiabilityIsBalances ==
    [][\A x \in Exporter :
          export[x].pc = "idle" /\ export'[x].pc = "totals" /\ export'[x].date >= today =>
              export'[x].totals.available + export'[x].totals.reserved
                = MapThenSumSet(LAMBDA a : balance[a].available + balance[a].reserved,
                                Account)]_reportingVars
=============================================================================
