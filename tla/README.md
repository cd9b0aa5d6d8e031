# Paisa, specified and checked

A TLA+ model of the Paisa loyalty platform (Go service `accts-api`, PostgreSQL
schema `db/schema.sql`): modules, TLC runs, and proofs checked by TLAPS.
`PROJECT.json` lists components, runs, seeded bugs, the source lines of every
definition, hazards, findings and theorems.

## 1. The system

A partner (merchant) enrols members in programs. Sales and refunds arrive as
transaction events; a job turns them into reward calculations and ledger
entries; members spend points by redeeming catalog items. The state is a
PostgreSQL database. Every service method is a function of one request and one
or more database transactions (`WithinTx`, READ COMMITTED); there is no lock and
no state outside the database but a cache of published rule graphs. What is hard
is therefore what runs between the statements of a transaction, and between the
transactions of one request.

| Component (source) | State | Operations | Hard behaviour | Correct when |
|---|---|---|---|---|
| Ledger (`repository/ledger.go`, `domain/ledger.go`) | `balance_snapshots`, `ledger_entries` | post, lock, adjust | posts of several services on one account | snapshot = sum of entries; no point appears or is lost; one entry per source and type |
| Redemption (`merchant_services.go`, `merchant_ops.go`) | `redemptions`, `redemption_events` | create, validate, capture, release | status is checked on an unlocked read, written later | status, entries and balance agree; settled is final |
| Catalog (same files) | `catalog_items` | create, update | prices change under open redemptions | a settlement is for the reserved price |
| Reward processing (`reward_processing_service.go`, `reward_calculation.go`, `transaction.go`) | event status, `reward_calculations` | claim batch, purchase, refund, record failure | concurrent calls, crash after claim, lost acknowledgement of a claim or an event, refunds out of order | one outcome per event, recorded with its ledger entry; refunds within the purchase |
| Rule engine (`rule_engine.go`, `domain/rules.go`, `rule.go`) | `rule_limit_usage` | stack, max-of, waterfall, limits, dependencies, publish validation | usage read and committed in different statements; a limit, a dependency and a group strategy all change the same candidate | limits hold in every period, usage is what was selected, a limit never raises a candidate, the highest wins, a waterfall earns on no amount twice, dependencies hold in the outcome |
| Ingestion (`transaction_service.go`) | `transaction_events`, lines | ingest, manual entry | duplicates with equal and different payloads, concurrent first copies, answers lost after any step | one event per external id, never rewritten; a replay is accepted, a different payload is a conflict |
| Members (`member_service.go`, `member.go`) | members, identifiers, accounts, enrollments, assignments | resolve or create, enrol, assign | concurrent resolution of one customer; enrollments that race and fail | a known customer is not created again; exactly one active enrollment once enrolled |
| Programs (`program_service.go`, `program.go`) | programs, rule versions | create, publish, archive, delete draft | publish, archive, delete and read, each of several statements | draft to published to archived and never back; a program never loses its published base version; a calculation's rules are of one program |
| Rule graph cache (`services.go`) | map of published graphs | get, put | staleness, graphs of deleted versions | every cached graph has its row |
| Reporting (`reporting_service.go`, `reporting.go`) | `ledger_exports`, by business date | generate, list | two sums and an upsert without a transaction; entries dated by the start of their transaction; racing exports | the export of a settled date is reproducible and agrees with itself |
| Auth, API keys, partners, locations, integrations, campaigns, HTTP, frontend, scripts | rows of their own | create, list, revoke | but for onboarding (find or create a partner, then its user, in one transaction) each operation is one statement | not about points |

Interactions: processing and redemption meet only in the ledger (`PostLedgerEntry`, on
the locked snapshot of an account); ingestion feeds processing through event status; the
rule engine reads what programs and members write and keeps limit usage; reporting sums
the ledger while processing, redemptions and adjustments post to it; the HTTP layer supplies the request context
whose cancellation aborts whatever transaction comes next.

## 2. The modules

| Module | Models | Extends |
|---|---|---|
| `Ledger` | snapshots, entries, the atomic post | - |
| `Redemption` | the four redemption handlers, catalog updates, adjustments; rewards as an environment | `Ledger` |
| `RewardProcessing` | the processing job with several workers | `Ledger` |
| `RuleEngine` | publish validation, evaluation of a purchase, limit usage | - |
| `Intake` | resolve or create a member, ingest an event | - |
| `Programs` | programs, rule versions, enrollments, assignments, the graph cache | - |
| `Reporting` | liability exports, composed with processing and with the entries redemptions and adjustments post meanwhile | `RewardProcessing` |
| `Settlement` | abstract: points are held, and a hold is settled once, in full | - |
| `Outcomes` | abstract: an event gets one outcome, and its points move with it | - |
| `FiniteSums` | lemmas: folds and sums over finite sets, folds over sequences | - |
| `LedgerProofs` | lemmas: the sums of the ledger, and what a post does to them | `Ledger`, `FiniteSums` |
| `RedemptionProofs` | theorems about `Redemption`; that it implements `Settlement` | `Redemption`, `LedgerProofs` |
| `ProcessingProofs` | theorems about `RewardProcessing`; that it implements `Outcomes` | `RewardProcessing`, `LedgerProofs` |
| `ReportingProofs` | theorems about `Reporting` | `Reporting`, `ProcessingProofs` |
| `RuleEngineProofs` | theorems about `RuleEngine` | `RuleEngine`, `FiniteSums` |
| `ProgramsProofs`, `IntakeProofs` | theorems about `Programs`, `Intake` | `Programs`, `Intake` |
| `MCRedemption`, `MCRewardProcessing`, `MCReporting`, `MCRuleEngine`, `MCIntake`, `MCPrograms` | instances for TLC | |

**Ledger.** `balance` is `balance_snapshots`, `entries` is `ledger_entries` of one
partner. `PostLedgerEntry` is enabled exactly when the code's post succeeds:
`ApplyLedgerDelta` accepts the bucket totals and the unique index admits the
entry. The code locks the snapshot with `SELECT ... FOR UPDATE` and holds the
lock until its transaction commits, and every caller posts at the end of its
transaction, so a post and the writes after it are one step. (Source type and
entry type determine each other, so `(type, source)` is the index's key.)

**Redemption.** A request is two steps, because its first read takes no lock:
`BeginCreate`/`BeginSettle` read the item or check the status; `FinishCreate`,
`FinishValidate`, `FinishCapture`, `FinishRelease` post and write. Between them
anything may commit. `Abandon` is every way a request ends without effect: a
refused post, a database error, a cancelled context. `Handles[t]` says which
redemptions a client works on. `PassExpiry` lets the reservation deadline pass,
which only validation looks at. `PostReward` stands for the processing job.

**RewardProcessing.** A worker is one call of the job. `Claim` is the claim
transaction (`FOR UPDATE SKIP LOCKED`: the set `locked` is what another claim in
progress holds); `Claimed` is how the call goes on, or that it learns nothing of
its claim and returns, so that its events stay claimed by nobody. An event is then two or three steps: the unlocked history reads
(`StartPurchaseRules`, `StartReversal`), the limit usage read with its row lock if
the row exists (`ReadLimitUsage`), and the writes with the commit
(`CommitPurchase`, `CommitFallbackRefund`, `CommitReversal`). Reads of rows that
cannot change any more are merged with their neighbours. `Fail` is any error before the
commit; `RecordFailure` the second transaction; `LoseFailure` that transaction
failing; `Crash` a stopped process or a cancelled request; `Committed` includes
a commit that took effect and is reported as an error. The rules are one stack
group: a first purchase bonus and limited points per amount, the two rule kinds
whose inputs other workers change.

**Settlement** and **Outcomes** are what members are promised, without requests,
workers, batches or faults. `ImplementsSettlement` (in `Redemption`) maps `funds` to the
available and reserved points of the snapshots and `hold` to the rows of `redemptions`:
a reserved or validated one holds its cost, a captured one has spent it, a released one
returned it. Prices, requests and the ledger's entries disappear. `ImplementsOutcomes`
(in `RewardProcessing`) maps the outcome of an event to its calculation and the points
of its awards; a claimed or stuck event is one that is still accepted. The failure
recorded after a lost acknowledgement changes the event's status and not its outcome.
(The mappings are part of the properties, so the line map does not list them.)

**Reporting.** An export is `SumTotals`, `SumBreakdown`, `Upsert`, one per
statement, or `AbandonExport` between them. `created` is `ledger_entries.created_at`,
`now()` in PostgreSQL and so the date on which the posting transaction began:
`began` keeps it while a worker is inside one. What other services post is `Elsewhere`:
the reserve, capture and release entries of redemptions and the adjustments, each with
the date its transaction began in `posting` from `BeginPosting` to `CommitPosting` or
`AbandonPosting`. Their handlers are `Redemption`'s; here they are the order of their
entries, a release after a capture included. `Midnight` moves `today` at any moment.
`Requested` says which dates requests name on which day; no date means the current one. `settled`
records whether a later entry could still be dated on the exported date: history
for the property, read by no action.

**RuleEngine.** `Publish` admits one valid draft (`ValidateRuleGraphForPublish`);
`CalculatePurchase` evaluates it for one purchase of one member and commits the
usage of its limits, in any order of the purchases. A candidate is the code's
`calcCandidate`; `EvaluateRuleCandidate` folds over the limits of a rule as the
loop does (`Limited` is its body), `EvaluateGroup` over the rules of a group for each
strategy (`EvaluateNext`), in every order of equal priorities, since the sort is not
stable, and `ConsumeWaterfallBasis` over the categories that pay (`Consume`). `RewardProcessing` has
the same rules with concurrency and without the strategies; the two modules
divide the calculation, they do not repeat it.

**Intake.** A request is its lookups, an optional creation and the insertion: one
transaction or one read per action, nothing locked between. `ByExternal`,
`ByIdentifier` and `CreateResolved` are `ResolveOrCreateMemberForPartnerID`;
`Insert` is the insertion with its `ON CONFLICT` outcome. `Receive` keeps
`known` and `replay`, what the lookups would have found at the start: history
for the properties, read by no action. `CreateMember` is the members endpoint.
A blank identifier is passed over in the loop, as the code does; a manual entry that
describes a customer instead of naming a member goes on as a normalized one.

**Programs.** Publication is three steps (lock and validate the draft, archive
what the statement sees published, publish); deletion is two (check, delete);
enrollment two; the reading of a rule set by processing four. The unique indexes
and foreign keys are guards of the step that writes, because PostgreSQL decides
them then. Versions are valid or not (`ValidVersions`): what valid means is
`RuleEngine`'s. `clock` orders publications as `published_at` does, the start of
their transactions. Assignments have dates from which and until which they hold; `ReadAddOns`
takes any of the active ones, so that the dates are open. The enrollment that may
come with a new member is one of a member without any.

Comments marked "Seeded bug" precede variants of a definition with a plausible
mistake; each property is violated when its variant replaces the definition.

## 3. The runs

| Run | Question | Instance |
|---|---|---|
| `redemption_partitioned` | one client per redemption: do status, ledger and balance agree for ever, and is that the abstract settlement? | 2 redemptions, 2 clients, 1 account, prices 1 and 2, an adjustment that adds or takes reserved points, a reward that earns or claws back |
| `redemption_shared` | which promises survive clients racing on the same redemption? | the same with both clients on both redemptions, symmetric in both |
| `processing_concurrent` | two workers, crashes, unrecorded failures, unacknowledged claims, and liability exports while a redemption posts too | one exporter, 2 dates, exports of day 1 requested on that day and the next; 2 purchases that together exceed the limit and a refund of the first; one redemption, reserved, captured, released; batches of 2; usage row exists |
| `processing_serial` | one worker: are refunds and bonus exact? | 6 events, with a purchase of nothing and a refund of it, refunds before and after their purchase; crashes, unrecorded failures, unacknowledged claims |
| `processing_live` | does every event get an outcome, and one only; does a lost acknowledgement corrupt the ledger? | acknowledged claims, lost acknowledgements of events; 2 workers, 2 accounts, refunds with unknown and with one common original, non-positive amounts |
| `rule_engine` | are limits, dependencies and strategies right for every order of purchases? | 4 valid graphs (stack, max-of, two waterfalls), 3 invalid; 5 purchases in 3 days and 2 months, with lines and without; at most one limit per rule |
| `intake` | one event per external id, one member per known customer? | 2 clients, 2 members, 1 card (also with a space), 2 identifiers and a blank one, 2 external ids, manual, direct and normalized requests |
| `programs` | do publish, delete, enrol and processing keep each other's promises? | 2 callers, 2 programs, 4 versions (2 base and 1 add-on of one program), 1 member, 2 enrollments, 3 publications |
| `release_after_capture`, `refund_race`, `crash_stuck`, `several_limits` | see Findings | |

Bounds and why they suffice: the races are between two requests on one row or
one account, so two clients, two workers and one account per race show them; two
redemptions are needed because a wrong release can only post while something
else is reserved; the prices, limits and amounts are the smallest that make a
limit bind, a refund exceed and a reserve fail. Each external posting source may
post once, which bounds the ledger. A request may begin and be abandoned without bound.
The names of members, enrollments and versions bound how many are made;
`MaxClock` bounds publications at three, so that one can begin while another is
under way and one after both. In `intake` the blank customer shows what happens without any
usable identifier, and the padded card what trimming does; `rule_engine` has purchases
that fill each limit exactly, exceed it and come after it is full. Amounts there are not
negative. Exports need two dates, because what matters is whether a
transaction began before or after the exported date ended, and one exporter, because
two can already put older sums back (see below); it may export any number of times. The run has a
redemption and no adjustment, with which it would be too large: adjustments are in the
model and covered by the proofs.

Fairness: only `EventuallySettled` needs any. `FairSpec` assumes each worker keeps
taking its next step, which is what a Go call does that is not interrupted, and
that the job is called again while events are accepted, which is the operator's
part (`POST .../process`). No fairness is assumed of failures or crashes. The
processing instances do stop (all events settled or stuck), the rule engine's too
(every purchase calculated), and so do programs (all deleted), so deadlock is not
checked there. In `intake` and in the redemption runs it is.

Symmetry is used in `redemption_shared` (terminals and redemptions), `processing_concurrent`
(workers), `intake`
(clients) and `programs` (callers and enrollments): they are not told apart by any
constant, and no liveness is checked there.

## 4. What the runs show of the code

Findings (each run produces the trace):

* `release_after_capture`: `ReleaseRedemption` and `CaptureRedemption` check an
  unlocked read; if both read while open, both post, and the release gives back
  points the capture has spent, at the expense of the reserved points of another
  redemption. Under one client per redemption this cannot happen (proved).
* `refund_race`: refunds of one purchase processed concurrently each take the
  whole remaining basis.
* `crash_stuck`: a claimed event whose call is interrupted stays `processing`. So does a
  batch whose claim commits and is reported as failed (`reward_processing_service.go:22-24`):
  with `"lost_claim_ack"` instead of `"crash"` in `Faults` the run shows that.
* `several_limits`: all limits of a rule apply one after another, but usage is
  recorded for the last one only, so an earlier limit is exceeded over time.

Variations that also break a property, for a reader who wants the traces: with
`SharedHandles`, `SettledIsFinal` fails (a validation overwrites a captured
status); with two workers `FirstBonusOnce` fails; with `PriorUsage <- NoUsage`
and two workers `LimitRespected` fails, because the first use of a limit finds
no row to lock; with `"lost_commit_ack"` in `Faults`, `OutcomeRecorded` fails (a
succeeded calculation on an event marked failed), although the ledger stays right.

Behaviour met while modelling that a reader may not expect, none of which a run
calls an error:

* A refund whose known original has no succeeded calculation yet is computed
  from the current rules; a refund that names a refund awards points. Such an early refund
  counts against the amount later ones can refund (their basis is what it left), but
  the points it takes back are not those the purchase was awarded, so that all refunds
  together may take back more or less than the awards. `RefundsWithinOriginal` is about
  the amounts and points of the later ones.
* A waterfall rule without categories is paid from the lines without a category
  only (`rule_engine.go:322-335`): over categorised lines, a later rule earns on the same amount
  again, and a rule that names a category twice counts it twice.
  `WaterfallEarnsOnce` says which awards it is about. A points limit in a
  waterfall leaves the consumed basis as it was.
* Under a basis limit a fixed award is replaced by points for the remaining
  basis, at rate 1 if the rule has none (`rule_engine.go:189-197`): it may become larger. The limits of a graph are ordered
  by `created_at`, equal within a transaction, so their order is arbitrary.
* A card number with outer spaces is looked up as given and stored trimmed
  (`member_service.go:73`, `:105`): sent again it is refused. A customer with blank
  identifiers only becomes a new member on every retry, which then conflicts.
  `ReplayAccepted` excludes both, and an external id of spaces only, which is refused
  when no identifier is given besides. Two concurrent first requests of one customer
  known by identifiers only create two members.
* Two publications that overlap leave two published base versions; processing
  takes the one that began last, and the next publication archives both. The
  deletion of a draft program checks the versions before it deletes them, so one
  published in between is deleted with its program.
* The export of a date that is not settled is not reproducible: a transaction that
  began before midnight and commits after the export adds to the exported date, and
  the totals and the breakdown of the current day, two statements, can disagree. Of a
  settled date they differ by what reservations hold or spent: the available total
  includes reserve and release entries, which the breakdown has no column for.
  `docs/loyalty-platform-bounded-contexts.md:393` promises reproducibility for a
  business date; `SettledExportReproducible` says for which exports it holds. Two
  exports of one date that race store in any order, so that the older sums can
  replace the newer ones (`reporting.go:47`).
* An assignment made under an ended enrollment stays active and blocks a new one
  of the same version after re-enrollment.

## 5. The proofs

All are for every value of the constants, under the named assumptions of the
modules they are about (for `Redemption`: prices are positive, deltas are integers,
`NoAccount` is no account). `PROJECT.json` lists the theorems.

**Sums** (`FiniteSums`). The sums of the models are the folds of the community modules,
which choose the elements in an order nobody knows. `SubsetInduction` (no bad subset
is minimal, since the subsets of a finite set are well-founded) shows that such a
fold exists and is unique, and from there that a total does not depend on the
order (`TotalWithout`), what a new or a changed element does to it
(`TotalAdd`, `TotalChange`, `TotalMove`), and how totals of parts and of bounded
terms compare (`TotalUnion`, `TotalOfParts`, `TotalBound`, `TotalPart`). The library's
induction theorems take an operator, which the provers cannot instantiate; here the set of what is
to be shown is a set, which they can. A theorem about a sum of a state is first
one about the total of a function, and a bridge (`BalanceSum`, `UsageSums`,
`MembersSee`) says that they are one.

**Ledger** (`LedgerProofs`). `AccountsAddUp`: if each snapshot is the total of the
entries of its account, it still is after a post. `LiabilityTwoWays`: the bucket
totals of all entries are those of the snapshots, account by account.

**Redemption** (`RedemptionProofs`). With any races: `TypeCorrect` (reserved and
expired points are never negative), `SettlementsMatchReservations`,
`SnapshotsAddUp` (the snapshot is the sum of the entries, so that neither is ever
written without the other), `PointsAlwaysConserved` (what was granted is available, reserved
or taken by a capture: `ConservedInv`, in which a captured redemption exists and keeps its account and
cost (`CapturesKnown`), a reserve or a release moves points from one bucket to the other, and
the unique index admits one capture each). If no redemption is worked on by two terminals (`DisjointHandles`):
`StatusAlwaysMatchesLedger`, `SettledStaysSettled`, `PointsAlwaysAccountedFor` (every
point granted is available, held by one open redemption or spent). `TypeOK` is not inductive: a
settling request posts to the account of the row it read, which is an account
only if that row exists. `Inv` adds that requests in flight are about existing
redemptions (`RequestsKnown`), and that each row still carries the account and
cost of its reserve entry (`RowsReserved`), which is also why settlements match.
`OwnedInv` adds that with disjoint handles the redemption of a request in flight
is still open (`RequestsOpen`): the status check, made before any lock, is still
good at the write. That is exactly what the race of `release_after_capture` destroys.
`RedemptionImplementsSettlement`, with disjoint
handles, by `OwnedInv`: each posting step maps to a hold, a settlement or a change, and every other
step leaves the mapped state alone, because only a posted entry changes it.

**Reward processing** (`ProcessingProofs`), under all faults: `ClaimedOnceAlways`,
`LedgerAlwaysMatches`, `ProcessingImplementsOutcomes`. The invariant says that what a
worker holds is claimed (`WorkersOnBatch`), that no two workers hold one event
(`ClaimedOnce`), that a calculation exists only for a processed or failed event
(`CalculatedIsSettled`), and that the ledger has the entry each succeeded calculation
calls for and no other (`LedgerMatchesCalculation`): what makes a second
posting impossible is the status of the event, not the worker's memory.

Under conditions: `OutcomeAlwaysRecorded` needs that no commit is
reported as failed: then an event that a worker is about to record as failed has
no calculation yet (`Pending`). `LimitHoldsOnceUsed` needs that every usage row
exists: then (`UsageKnown`) a worker that has read usage holds the row until it
commits, and what it read is still what is stored (`AwardsLocked`). Without the row
there is nothing to lock, which is the race described above. `BonusGivenOnce` needs
one worker and no commit reported as failed: then what was read of the member's
purchases is still so at the commit (`FirstKnown`), which nothing else ensures.

Amounts: `ProcessingTypeCorrect`, `RewardSnapshotsAddUp`,
`UsageAlwaysMatches` (usage is what it was before plus what succeeded purchases earned under the
limit: nothing is lost, counted twice or given back), under all faults.
`AmountInv` adds that what a worker has computed and not yet
committed is of the right kind. `RefundsAlwaysWithin`, that the refunds processed after a purchase
take no more of its amount than those before it left, and no more than that share of its
points, needs one worker: then the earlier refunds it read are all there
are at the commit, and each takes its share of the original's points for its
share of the basis, rounded down, so that all together take at most the share of what was left.

**Reporting** (`ReportingProofs`): `ReportingTypeCorrect`, `SettledExportsReproducible`,
`LiabilityIsWhatMembersSee`. No transaction and no entry is dated
after today (`Times`), a worker's or another service's. A date is settled when it has passed and no transaction in
progress began on it; from then on every entry that is posted is dated later, since it carries the
date on which its transaction began, so the entries of the date are a fixed set.
`Reports` says that an exporter in the middle of a settled export holds the sums of that set.
That its two sums agree is the partition of the set by entry type, of which captures move no
available points; reservations and releases do, and are in the equation.
The third theorem equates the totals of the current date's export with the sum of
what members see, and needs finitely many accounts. That entries are finitely many is
in the invariants, never assumed.

**Programs** (`ProgramsProofs`): all seven properties of the run. `ProgramsInv` adds
what calls in flight have seen: a publication holds the lock of its draft
(`PublishingDrafts`); it archives every base version that was published before it
began (`ArchivesAll`, in `Publications`), which is why only overlapping ones
coexist and one always remains; the base version and the add-ons read are of the program
that was read first (`RuleSetsRead`); an enrollment is ended only together with the
insertion of the next (`EnrolledOnce`, `SeenEnrollments`); and a program whose
graphs are cached has had members, and their enrollments forbid its deletion (`CacheRead`).

**Intake** (`IntakeProofs`): `NothingRewritten` needs no invariant. `IntakeTypeCorrect`,
`RepliesAlwaysTellTheEvent` and `KnownNeverDuplicated` follow from `IntakeInv`: external
ids are unique and a hash is that of its row (`Tables`), so equal hashes mean one
member and one payload; and what makes a customer known is still to be looked
up at every stage of the search (`Searched`), because nothing that is found later is ever rewritten.
`ReplaysAlwaysAccepted` adds (`Replaying`) that at every stage of a replay the next lookup
that succeeds finds the member of the event, however many others were created.

**Rule engine** (`RuleEngineProofs`). The three loops are folds over sequences. A fold
has a run, one value per position and each the step of the one before (`RunOfFold` in
`FiniteSums`), so that what every turn of a loop preserves is shown by induction
over the positions (`CountingInduction`):
`LimitsRun`, `ConsumeRun`, `EvaluationRun`. `EngineInv` says what a group's candidates are:
those of the rules of the published graph in an order of their priorities, each
with the answers its dependencies ask for, selected if it is worth points and, in a
`max_of` group, the first of the best, and, on the conditions below, with at most its raw
points and no negative basis (`GroupOutcome`). `LimitInv` adds that the awards under a limit in one period
sum to its usage row and stay within the limit: a candidate was put under the limit with
the usage that was then stored, and nothing commits in between. `BasisInv` adds that
no usage is negative. `WaterfallInv` says that the awards of a waterfall group that draw
on some categories only have together at most the purchase's basis in those: at every
turn of the loop the basis awarded and what remains are at most that (`WaterfallStep`).

| theorem | needs |
|---|---|
| `DependenciesAlwaysFirst`, `DependenciesAlwaysRespected`, `HighestAlwaysWins` | nothing |
| `LimitsAlwaysHold`, `UsageAlwaysSelection` | `OneLimitEach`: no rule has two limits |
| `LimitsNeverGive` | `BasisLimitsOnRates`: only rules with a rate have a basis limit |
| `RuleEngineTypeCorrect` | `AmountsNotNegative`: the amounts of purchases |
| `WaterfallAlwaysEarnsOnce` | `AmountsNotNegative`, and `WaterfallsInTurn`: a waterfall rule names no category twice, and one without categories comes after the others |

The code checks none of these conditions. The run's instance meets them all; on
instances that do not, TLC finds each of the properties violated, so that the conditions
are where the behaviours listed in section 4 begin (two limits on one rule are the
finding `several_limits`).

Only model-checked: liveness under fairness. Every safety property that a passing run
checks is a theorem, under the conditions named here.

## 6. Not modelled

Authentication, API keys, partners, locations, integrations, campaigns and the
dashboard: every operation is one insert, update, count or lookup on rows that no
balance depends on, so a model would restate SQL statements. HTTP routing, frontend and
scripts: no state. 32-bit column widths; several partners (every key starts with the
partner); the expiry job, which the repository defers; the creation of catalog items
after the start. Of the modelled parts: version numbers; rates that are not whole, for
which `floor((basis/100)*rate)` can lose a point to floating point; defaults of missing
amounts (`normalizeTransaction`); in reporting, time zones that differ between service
and database, and the balances, prices and rows that decide which redemption is made
(`Redemption` has them; the export sees their entries). In processing, one stack group stands
for the rules: the summing of the awards of the base version and the add-ons
(`reward_processing_service.go:286-333`) is not modelled. That posts to one account wait for each other
is the row lock of `ledger.go:104`, and that claims split the accepted events is
`SKIP LOCKED`: both are assumed of PostgreSQL.

## 7. Plan

Done: every component of section 1 that moves points or decides about them, with its
runs; the refinements to `Settlement` and `Outcomes`; the proofs of section 5.
Left, in this order:

1. An abstract map from external ids to events that `Intake` implements, and its
   composition with `RewardProcessing` over event status.
2. Negative amounts and non-integral rates in the rule engine.
3. Integration credentials and campaigns, if their lifecycles get transitions
   of more than one statement.
