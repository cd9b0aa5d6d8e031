-------------------------- MODULE RewardProcessing --------------------------
(***************************************************************************)
(* Reward processing: the job that turns accepted transaction events into  *)
(* reward calculations and ledger entries.                                 *)
(*                                                                         *)
(* Each call of the job is a worker.  It claims a batch of accepted events *)
(* in one transaction, then handles them one after another, each in a      *)
(* READ COMMITTED transaction of its own: it reads the history the rules   *)
(* ask for, then writes limit usage, calculation, ledger and event status  *)
(* and commits.  When that transaction fails, a second one records the     *)
(* failure.  The reads take no lock, except that of the limit usage row,   *)
(* when there is one.                                                      *)
(*                                                                         *)
(* The published rules are one stack group: a bonus for the first purchase *)
(* and then points for the eligible amount, the latter under a limit of    *)
(* MaxPoints per member.  They are chosen because their two inputs, the    *)
(* member's processed purchases and limit usage, are what other workers    *)
(* change meanwhile.                                                       *)
(***************************************************************************)
EXTENDS Ledger, FiniteSets

CONSTANTS
    Worker,             \* concurrent calls of the job
    Event,              \* transaction events, numbered in created_at order
    Type,               \* Type[e] is "purchase" or "refund"
    Member,             \* Member[e]: the account of the event's member
    Original,           \* Original[e]: the event a refund refers to, or NoEvent
    Eligible,           \* Eligible[e]: the eligible amount
    Unit,               \* the amount that earns one point
    FirstBonus,         \* the points of the first purchase bonus
    MaxPoints,          \* the limit on earned points of a member
    PriorUsage,         \* limit usage rows before the modelled events
    BatchSize,          \* the largest number of events of a claim
    Faults,             \* which infrastructure faults happen
    NoEvent, NoWorker

\* A worker stops; a failure is not recorded; a commit that took effect is
\* reported as an error, that of a claim or that of an event.
FaultKinds == {"crash", "lost_failure", "lost_claim_ack", "lost_commit_ack"}

Usages == [exists : BOOLEAN, points : Nat]

ASSUME EventAssumption == Event \subseteq Nat /\ NoEvent \notin Event
ASSUME WorkerAssumption == NoWorker \notin Worker
ASSUME InputAssumption ==
    /\ Type \in [Event -> {"purchase", "refund"}]
    /\ Member \in [Event -> Account]
    /\ Original \in [Event -> Event \cup {NoEvent}]
    /\ Eligible \in [Event -> Int]
ASSUME RuleAssumption ==
    /\ Unit \in Nat \ {0}
    /\ FirstBonus \in Nat
    /\ MaxPoints \in Nat \ {0}
    /\ PriorUsage \in [Account -> Usages]
ASSUME BatchAssumption == BatchSize \in Nat \ {0}
ASSUME FaultAssumption == Faults \subseteq FaultKinds

VARIABLES
    status,             \* transaction_events.status, "absent" before ingestion
    calculation,        \* reward_calculations, by event
    usage,              \* rule_limit_usage of the limit, by account
    usageLock,          \* the worker that holds the lock of the usage row
    work                \* what each worker is doing

vars == <<balance, entries, status, calculation, usage, usageLock, work>>

Awards == [bonus : Int, earn : Int]
NoAwards == [bonus |-> 0, earn |-> 0]
Points(awards) == awards.bonus + awards.earn

Calculations == [status : {"none", "succeeded", "failed"}, awards : Awards,
                 basis : Int, fallback : BOOLEAN]

Calculation(s, awards, basis, fallback) ==
    [status |-> s, awards |-> awards, basis |-> basis, fallback |-> fallback]

NoCalculation == Calculation("none", NoAwards, 0, FALSE)

Idle == [pc |-> "idle", batch |-> {}, event |-> NoEvent,
         first |-> FALSE, used |-> 0, prior |-> 0]

PCs == {"idle", "next", "limit", "award", "reverse", "failing"}

Works == [pc : PCs, batch : SUBSET Event, event : Event \cup {NoEvent},
          first : BOOLEAN, used : Nat, prior : Nat]

RowsOK ==
    /\ balance \in [Account -> Balances]
    /\ status \in [Event -> {"absent", "accepted", "processing", "processed", "failed"}]
    /\ calculation \in [Event -> Calculations]
    /\ usage \in [Account -> Usages]
    /\ usageLock \in [Account -> Worker \cup {NoWorker}]
    /\ work \in [Worker -> Works]

TypeOK ==
    /\ RowsOK
    /\ entries \subseteq [account : Account, type : EntryTypes, source : Event, delta : Buckets]

Init ==
    /\ LedgerInit
    /\ status = [e \in Event |-> "absent"]
    /\ calculation = [e \in Event |-> NoCalculation]
    /\ usage = PriorUsage
    /\ usageLock = [a \in Account |-> NoWorker]
    /\ work = [w \in Worker |-> Idle]

-----------------------------------------------------------------------------
(* The arithmetic of awards and refunds.                                   *)

Smaller(a, b) == IF a < b THEN a ELSE b
Larger(a, b) == IF a > b THEN a ELSE b

\* Integer division of Go: the quotient is rounded towards zero.
Quotient(n, d) == IF n >= 0 THEN n \div d ELSE -((-n) \div d)

Prorate(value, numerator, denominator) ==
    IF denominator = 0 THEN 0 ELSE Quotient(value * numerator, denominator)

PointsForBasis(basis) == IF basis <= 0 THEN 0 ELSE basis \div Unit

\* The stack of the two rules, for a member who has used so much of the limit.
PurchaseAwards(basis, first, used) ==
    [bonus |-> IF first THEN FirstBonus ELSE 0,
     earn |-> Smaller(PointsForBasis(basis), Larger(0, MaxPoints - used))]

\* A refund of nothing is a refund of the smallest amount.
RefundBasis(e) == IF Eligible[e] <= 0 THEN 1 ELSE Eligible[e]

\* What the event is worth to the purchase rules.
Basis(e) == IF Type[e] = "refund" THEN RefundBasis(e) ELSE Eligible[e]

\* Seeded bug: purchases still to be processed count, processed ones do not.
PriorPurchasesAccepted(e) == {p \in Event \ {e} : /\ Type[p] = "purchase"
                                                  /\ Member[p] = Member[e]
                                                  /\ status[p] = "accepted"}

PriorPurchases(e) == {p \in Event \ {e} : /\ Type[p] = "purchase"
                                          /\ Member[p] = Member[e]
                                          /\ status[p] = "processed"}

\* OriginalForRefund finds a succeeded calculation of the event referred to.
OriginalCalculated(e) ==
    Original[e] # NoEvent /\ calculation[Original[e]].status = "succeeded"

Refunds(o) == {e \in Event : Type[e] = "refund" /\ Original[e] = o
                               /\ calculation[e].status = "succeeded"}

SumOver(S, Amount(_)) == MapThenSumSet(Amount, S)

PriorRefundedBasis(e) ==
    SumOver(Refunds(Original[e]) \ {e}, LAMBDA r : calculation[r].basis)

\* Seeded bug: earlier refunds are not looked at.
ReversalIgnoringPrior(e, prior) ==
    LET o == Original[e]
        effective == Smaller(RefundBasis(e), Larger(0, Eligible[o]))
        denominator == IF Eligible[o] <= 0 THEN effective ELSE Eligible[o]
        Reversed(points) == -Prorate(points, effective, denominator)
    IN Calculation("succeeded",
                   [bonus |-> Reversed(calculation[o].awards.bonus),
                    earn |-> Reversed(calculation[o].awards.earn)],
                   effective, FALSE)

\* The reversal of an original's awards for the basis still refundable, given
\* the basis that earlier refunds took.
Reversal(e, prior) ==
    LET o == Original[e]
        remaining == Larger(0, Eligible[o] - prior)
        effective == Smaller(RefundBasis(e), remaining)
        denominator == IF Eligible[o] <= 0 THEN effective ELSE Eligible[o]
        Reversed(points) == -Prorate(points, effective, denominator)
    IN Calculation("succeeded",
                   [bonus |-> Reversed(calculation[o].awards.bonus),
                    earn |-> Reversed(calculation[o].awards.earn)],
                   effective, FALSE)

-----------------------------------------------------------------------------
(* Ingestion and claiming.                                                 *)

Ingest(e) ==
    /\ status[e] = "absent"
    /\ status' = [status EXCEPT ![e] = "accepted"]
    /\ UNCHANGED <<balance, entries, calculation, usage, usageLock, work>>

\* Seeded bug: a claim takes events another worker has.
AcceptedOrProcessing == {e \in Event : status[e] \in {"accepted", "processing"}}

Accepted == {e \in Event : status[e] = "accepted"}

\* The n oldest of a set of events, all of them when there are fewer.
Oldest(S, n) == {e \in S : Cardinality({f \in S : f < e}) < n}

\* A call that does not learn that its claim was committed returns the error, and
\* the events stay claimed by nobody.
Claimed(w, batch) ==
    \/ work' = [work EXCEPT ![w] = [Idle EXCEPT !.pc = "next", !.batch = batch]]
    \/ /\ "lost_claim_ack" \in Faults
       /\ work' = [work EXCEPT ![w] = Idle]

\* SKIP LOCKED passes over events locked by a claim still in progress.
Claim(w) ==
    /\ work[w].pc = "idle"
    /\ \E locked \in SUBSET Accepted :
          /\ locked # {} => \E v \in Worker \ {w} : work[v].pc = "idle"
          /\ LET batch == Oldest(Accepted \ locked, BatchSize)
             IN /\ batch # {}
                /\ status' = [e \in Event |-> IF e \in batch THEN "processing" ELSE status[e]]
                /\ Claimed(w, batch)
    /\ UNCHANGED <<balance, entries, calculation, usage, usageLock>>

-----------------------------------------------------------------------------
(* One event.  RETURNING gives the claimed events in no order.             *)

\* Seeded bug: the call ends with its first event.
FinishedBatch(w) == Idle

\* The event is done with; the next of the batch, or the end of the call.
Finished(w) ==
    LET rest == work[w].batch \ {work[w].event}
    IN [Idle EXCEPT !.pc = IF rest = {} THEN "idle" ELSE "next", !.batch = rest]

Unlock(w) == [a \in Account |-> IF usageLock[a] = w THEN NoWorker ELSE usageLock[a]]

\* A purchase, or a refund whose original has no calculation and is computed
\* from the current rules: the purchases processed so far are counted.
StartPurchaseRules(w, e) ==
    /\ work[w].pc = "next" /\ e \in work[w].batch
    /\ Type[e] = "purchase" \/ ~OriginalCalculated(e)
    /\ work' = [work EXCEPT ![w] =
           [@ EXCEPT !.pc = "limit", !.event = e, !.first = PriorPurchases(e) = {}]]
    /\ UNCHANGED <<balance, entries, status, calculation, usage, usageLock>>

\* Seeded bug: the usage row is read without its lock.
ReadLimitUsageUnlocked(w) ==
    /\ work[w].pc = "limit"
    /\ work' = [work EXCEPT ![w] =
           [@ EXCEPT !.pc = "award", !.used = usage[Member[work[w].event]].points]]
    /\ UNCHANGED <<balance, entries, status, calculation, usage, usageLock>>

\* CurrentLimitUsage, for an event with a basis: it locks the row if there is one.
ReadLimitUsage(w) ==
    LET e == work[w].event
        a == Member[e]
    IN /\ work[w].pc = "limit"
       /\ \/ /\ Basis(e) > 0 /\ usage[a].exists
             /\ usageLock[a] = NoWorker
             /\ usageLock' = [usageLock EXCEPT ![a] = w]
          \/ /\ ~(Basis(e) > 0 /\ usage[a].exists)
             /\ UNCHANGED usageLock
       /\ work' = [work EXCEPT ![w] = [@ EXCEPT !.pc = "award", !.used = usage[a].points]]
       /\ UNCHANGED <<balance, entries, status, calculation, usage>>

\* Seeded bug: the upsert replaces the usage.
ReplaceLimitUsage(a, points) ==
    usage' = IF points = 0 THEN usage
             ELSE [usage EXCEPT ![a] = [exists |-> TRUE, points |-> points]]

\* CommitLimitUsage: an upsert that adds, only for a selected award.
CommitLimitUsage(a, points) ==
    usage' = IF points = 0 THEN usage
             ELSE [usage EXCEPT ![a] = [exists |-> TRUE, points |-> @.points + points]]

\* Seeded bug: only positive points reach the ledger.
PersistEarnOnly(e, entryType, calc) ==
    LET points == Points(calc.awards)
        entry == Entry(Member[e], entryType, e, AvailableDelta(points))
    IN /\ calculation[e] = NoCalculation
       /\ calculation' = [calculation EXCEPT ![e] = calc]
       /\ IF points <= 0 THEN UNCHANGED <<balance, entries>> ELSE PostLedgerEntry(entry)
       /\ status' = [status EXCEPT ![e] = "processed"]

\* CreateSucceeded, the ledger entry if points move, MarkProcessed.
PersistSuccess(e, entryType, calc) ==
    LET points == Points(calc.awards)
        entry == Entry(Member[e], entryType, e, AvailableDelta(points))
    IN /\ calculation[e] = NoCalculation
       /\ calculation' = [calculation EXCEPT ![e] = calc]
       /\ IF points = 0 THEN UNCHANGED <<balance, entries>> ELSE PostLedgerEntry(entry)
       /\ status' = [status EXCEPT ![e] = "processed"]

\* What the worker learns of a commit: a lost acknowledgement is an error.
Committed(w) ==
    \/ work' = [work EXCEPT ![w] = Finished(w)]
    \/ /\ "lost_commit_ack" \in Faults
       /\ work' = [work EXCEPT ![w].pc = "failing"]

CommitPurchase(w) ==
    LET e == work[w].event
        awards == PurchaseAwards(Basis(e), work[w].first, work[w].used)
    IN /\ work[w].pc = "award" /\ Type[e] = "purchase"
       /\ awards.earn # 0 => usageLock[Member[e]] \in {w, NoWorker}
       /\ CommitLimitUsage(Member[e], awards.earn)
       /\ PersistSuccess(e, "earn", Calculation("succeeded", awards, Eligible[e], FALSE))
       /\ usageLock' = Unlock(w)
       /\ Committed(w)

\* A refund without an original calculation uses no part of the limit.
CommitFallbackRefund(w) ==
    LET e == work[w].event
        awards == PurchaseAwards(Basis(e), work[w].first, work[w].used)
        negated == [bonus |-> -awards.bonus, earn |-> -awards.earn]
    IN /\ work[w].pc = "award" /\ Type[e] = "refund"
       /\ PersistSuccess(e, "refund", Calculation("succeeded", negated, Basis(e), TRUE))
       /\ usageLock' = Unlock(w)
       /\ Committed(w)
       /\ UNCHANGED usage

\* A refund whose original has a calculation reads the basis refunded before.
StartReversal(w, e) ==
    /\ work[w].pc = "next" /\ e \in work[w].batch
    /\ Type[e] = "refund" /\ OriginalCalculated(e)
    /\ work' = [work EXCEPT ![w] =
           [@ EXCEPT !.pc = "reverse", !.event = e, !.prior = PriorRefundedBasis(e)]]
    /\ UNCHANGED <<balance, entries, status, calculation, usage, usageLock>>

CommitReversal(w) ==
    LET e == work[w].event
    IN /\ work[w].pc = "reverse"
       /\ PersistSuccess(e, "refund", Reversal(e, work[w].prior))
       /\ Committed(w)
       /\ UNCHANGED <<usage, usageLock>>

-----------------------------------------------------------------------------
(* Failure.                                                                *)

\* Any error rolls the event's transaction back: no active enrollment, no
\* published rules, an inactive account, a database error.
Fail(w) ==
    /\ work[w].pc \in {"limit", "award", "reverse"}
    /\ work' = [work EXCEPT ![w] = [@ EXCEPT !.pc = "failing", !.used = 0, !.prior = 0,
                                            !.first = FALSE]]
    /\ usageLock' = Unlock(w)
    /\ UNCHANGED <<balance, entries, status, calculation, usage>>

\* Seeded bug: the event is marked failed without a calculation.
RecordFailureMarkOnly(w) ==
    /\ work[w].pc = "failing"
    /\ status' = [status EXCEPT ![work[w].event] = "failed"]
    /\ work' = [work EXCEPT ![w] = Finished(w)]
    /\ UNCHANGED <<balance, entries, calculation, usage, usageLock>>

\* Seeded bug: the failure replaces the calculation there is.
RecordFailureOverwrites(w) ==
    LET e == work[w].event
    IN /\ work[w].pc = "failing"
       /\ calculation' = [calculation EXCEPT ![e] =
              Calculation("failed", NoAwards, Eligible[e], FALSE)]
       /\ status' = [status EXCEPT ![e] = "failed"]
       /\ work' = [work EXCEPT ![w] = Finished(w)]
       /\ UNCHANGED <<balance, entries, usage, usageLock>>

\* CreateFailed does nothing when the event has a calculation; MarkFailed does
\* not look at the status it replaces.
RecordFailure(w) ==
    LET e == work[w].event
    IN /\ work[w].pc = "failing"
       /\ calculation' = [calculation EXCEPT ![e] =
              IF @ = NoCalculation THEN Calculation("failed", NoAwards, Eligible[e], FALSE) ELSE @]
       /\ status' = [status EXCEPT ![e] = "failed"]
       /\ work' = [work EXCEPT ![w] = Finished(w)]
       /\ UNCHANGED <<balance, entries, usage, usageLock>>

\* The transaction that records the failure fails as well.
LoseFailure(w) ==
    /\ "lost_failure" \in Faults
    /\ work[w].pc = "failing"
    /\ work' = [work EXCEPT ![w] = Finished(w)]
    /\ UNCHANGED <<balance, entries, status, calculation, usage, usageLock>>

\* The process stops, or the caller of the job goes away and cancels the
\* context of every transaction still to come.
Crash(w) ==
    /\ "crash" \in Faults
    /\ work[w].pc # "idle"
    /\ work' = [work EXCEPT ![w] = Idle]
    /\ usageLock' = Unlock(w)
    /\ UNCHANGED <<balance, entries, status, calculation, usage>>

-----------------------------------------------------------------------------
Work(w) ==
    \/ Claim(w)
    \/ \E e \in Event : StartPurchaseRules(w, e) \/ StartReversal(w, e)
    \/ ReadLimitUsage(w)
    \/ CommitPurchase(w)
    \/ CommitFallbackRefund(w)
    \/ CommitReversal(w)
    \/ RecordFailure(w)

Next ==
    \/ \E e \in Event : Ingest(e)
    \/ \E w \in Worker : Work(w) \/ Fail(w) \/ LoseFailure(w) \/ Crash(w)

Spec == Init /\ [][Next]_vars

\* The job is called again and again, and a call that is not interrupted goes
\* on to its next statement.
FairSpec == Spec /\ \A w \in Worker : WF_vars(Work(w))

-----------------------------------------------------------------------------
(* Properties.                                                             *)

Succeeded(e) == calculation[e].status = "succeeded"

Purchases(a) == {e \in Event : Type[e] = "purchase" /\ Member[e] = a /\ Succeeded(e)}

\* No event is in the hands of two workers, and one a worker has not started is
\* marked processing: concurrent claims never hand out an event twice.
ClaimedOnce ==
    \A w \in Worker : \A e \in work[w].batch :
        /\ \A v \in Worker \ {w} : e \notin work[v].batch
        /\ work[w].event # e => status[e] = "processing"

\* The ledger has one entry for an event whose calculation succeeded with
\* points, of exactly those points and on the member's account, and none for
\* any other event, whatever crashed, failed or was lost on the way.
LedgerMatchesCalculation ==
    \A e \in Event :
        {f \in entries : f.source = e}
          = IF Succeeded(e) /\ Points(calculation[e].awards) # 0
            THEN {Entry(Member[e], IF Type[e] = "purchase" THEN "earn" ELSE "refund", e,
                        AvailableDelta(Points(calculation[e].awards)))}
            ELSE {}

\* "Processing success persists calculation, limit usage, ledger movement,
\* balance update, and event status together."
SuccessPersistedTogether == \A e \in Event : Succeeded(e) <=> status[e] = "processed"

\* "Processing failure persists a sanitized failed calculation and marks the
\* event failed together."
FailurePersistedTogether ==
    \A e \in Event : calculation[e].status = "failed" <=> status[e] = "failed"

\* Outcome and status of an event agree at any moment, and an event still to be
\* settled has no calculation, across crashes and failures that are not recorded.
OutcomeRecorded == SuccessPersistedTogether /\ FailurePersistedTogether

\* What status and calculation of an event mean to its member.
Outcome(s, calc) ==
    [state |-> CASE s = "absent" -> "absent"
                 [] s # "absent" /\ calc.status = "none" -> "accepted"
                 [] s # "absent" /\ calc.status = "succeeded" -> "rewarded"
                 [] s # "absent" /\ calc.status = "failed" -> "refused",
     points |-> Points(calc.awards)]

outcomeBar == [e \in Event |-> Outcome(status[e], calculation[e])]

availableBar == [a \in Account |-> balance[a].available]

Outcomes == INSTANCE Outcomes WITH outcome <- outcomeBar, available <- availableBar

\* An event gets one outcome, which no later worker, retry or failure changes,
\* and its points move in the step that decides it, whatever crashes, fails to
\* be recorded or is committed without the worker learning of it.
ImplementsOutcomes == Outcomes!Spec

\* Limit usage is what the selected awards of succeeded purchases used, no more
\* and no less: refunds use nothing, rolled back purchases leave nothing.
UsageMatchesAwards ==
    \A a \in Account :
        usage[a].points = PriorUsage[a].points
                            + SumOver(Purchases(a), LAMBDA e : calculation[e].awards.earn)

\* No member earns more than the limit.
LimitRespected == \A a \in Account : usage[a].points <= MaxPoints

\* A member gets the first purchase bonus once.
FirstBonusOnce ==
    \A a \in Account : \A e, f \in Purchases(a) :
        calculation[e].awards.bonus # 0 /\ calculation[f].awards.bonus # 0 => e = f

\* A purchase is not refunded twice.  Refunds processed after it take back no more
\* than its eligible amount less what refunds processed before it refunded, and of
\* each award no more than the share of that rest, for any amounts and orders.
\* (What a refund processed before it takes back is computed from the rules of the
\* time, not from its awards.)
RefundsWithinOriginal ==
    \A o \in Event : Type[o] = "purchase" /\ Succeeded(o) =>
        LET early == {r \in Refunds(o) : calculation[r].fallback}
            late == Refunds(o) \ early
            refundable == Larger(0, Eligible[o] - SumOver(early, LAMBDA r : calculation[r].basis))
            Within(taken, award) == taken * Larger(1, Eligible[o]) <= award * refundable
        IN /\ SumOver(late, LAMBDA r : calculation[r].basis) <= refundable
           /\ Within(-SumOver(late, LAMBDA r : calculation[r].awards.earn),
                     calculation[o].awards.earn)
           /\ Within(-SumOver(late, LAMBDA r : calculation[r].awards.bonus),
                     calculation[o].awards.bonus)

\* Every accepted event is eventually processed or failed: not by a refusal, an
\* error, a lock it waits for or a lost acknowledgement of its own commit does it
\* stay behind.  (Nothing brings back an event whose call is interrupted, learns
\* nothing of its claim, or cannot record a failure.)
EventuallySettled ==
    \A e \in Event : status[e] = "accepted" ~> status[e] \in {"processed", "failed"}
=============================================================================
