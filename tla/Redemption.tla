----------------------------- MODULE Redemption -----------------------------
(***************************************************************************)
(* Reward redemptions at the point of sale: a redemption reserves the      *)
(* points of a catalog item, may be validated, and is then captured (the   *)
(* points are spent) or released (they are given back).                    *)
(*                                                                         *)
(* A handler is one READ COMMITTED transaction.  It first reads without a  *)
(* lock (the catalog item, or the redemption row whose status it checks),  *)
(* then posts to the ledger, which locks the balance until commit, and     *)
(* updates the redemption row.  So a request is two steps, Begin and       *)
(* Finish, and between them other requests may commit.  Abandon is a       *)
(* request that ends without effect: the post or a statement fails, the    *)
(* client goes away, the server stops; the transaction is rolled back.     *)
(*                                                                         *)
(* The rewards that processing posts, and manual adjustments, move points  *)
(* on the same accounts meanwhile.                                         *)
(***************************************************************************)
EXTENDS Ledger

CONSTANTS
    Redemption,         \* identifiers of redemptions, fresh ones included
    Item,               \* catalog items
    Price,              \* the prices an item may have
    Terminal,           \* clients that send requests, one at a time each
    Handles,            \* Handles[t]: the redemptions terminal t works on
    AdjustmentSource,   \* source ids of manual adjustments
    AdjustmentDelta,    \* the deltas an adjustment may have
    RewardSource,       \* reward calculations that post points
    RewardPoints,       \* the points such a calculation may post
    NoAccount           \* the account of a redemption that does not exist

ASSUME PriceAssumption == Price \subseteq Nat \ {0}
ASSUME HandlesAssumption == Handles \in [Terminal -> SUBSET Redemption]
ASSUME DeltaAssumption == AdjustmentDelta \subseteq Buckets /\ RewardPoints \subseteq Int
ASSUME NoAccountAssumption == NoAccount \notin Account

VARIABLES
    catalog,            \* catalog_items, by item
    redemption,         \* redemptions, by identifier
    events,             \* the statuses redemption_events has a row for
    request             \* what each terminal's request in flight has read

vars == <<balance, entries, catalog, redemption, events, request>>

Open == {"reserved", "validated"}
Settled == {"captured", "released"}
Statuses == {"none"} \cup Open \cup Settled

Absent == [status |-> "none", account |-> NoAccount, cost |-> 0, expired |-> FALSE]
Idle == [op |-> "idle"]

SettleOps == {"validate", "capture", "release"}

Requests == {Idle} \cup [op : {"create"}, account : Account, cost : Price]
                   \cup [op : SettleOps, redemption : Redemption]

TypeOK ==
    /\ balance \in [Account -> Balances]
    /\ entries \subseteq
          [account : Account, type : EntryTypes, delta : Buckets,
           source : Redemption \cup AdjustmentSource \cup RewardSource]
    /\ catalog \in [Item -> [status : {"active", "inactive"}, cost : Price]]
    /\ redemption \in [Redemption -> [status : Statuses, cost : Nat, expired : BOOLEAN,
                                      account : Account \cup {NoAccount}]]
    /\ events \in [Redemption -> SUBSET (Open \cup Settled)]
    /\ request \in [Terminal -> Requests]

Init ==
    /\ LedgerInit
    /\ catalog \in [Item -> [status : {"active"}, cost : Price]]
    /\ redemption = [r \in Redemption |-> Absent]
    /\ events = [r \in Redemption |-> {}]
    /\ request = [t \in Terminal |-> Idle]

-----------------------------------------------------------------------------
(* What each handler posts for a redemption of a given account and cost.   *)

\* Seeded bug: the price is read again for the entry.
ReserveAtCurrentPrice(r, account, cost) ==
    LET price == catalog[CHOOSE i \in Item : TRUE].cost
    IN Entry(account, "redemption_reserve", r,
             [available |-> -price, reserved |-> price, expired |-> 0])

ReserveEntry(r, account, cost) ==
    Entry(account, "redemption_reserve", r,
          [available |-> -cost, reserved |-> cost, expired |-> 0])

CaptureEntry(r) ==
    Entry(redemption[r].account, "redemption_capture", r,
          [available |-> 0, reserved |-> -redemption[r].cost, expired |-> 0])

\* Seeded bug: a release gives points back and keeps them reserved.
ReleaseKeepsReserved(r) ==
    Entry(redemption[r].account, "reservation_release", r,
          [available |-> redemption[r].cost, reserved |-> 0, expired |-> 0])

ReleaseEntry(r) ==
    Entry(redemption[r].account, "reservation_release", r,
          [available |-> redemption[r].cost, reserved |-> -redemption[r].cost, expired |-> 0])

\* UpdateStatus and InsertEvent: neither looks at the status it replaces.
SetStatus(r, s) ==
    /\ redemption' = [redemption EXCEPT ![r].status = s]
    /\ events' = [events EXCEPT ![r] = @ \cup {s}]

Begin(t, req) == request[t] = Idle /\ request' = [request EXCEPT ![t] = req]

End(t) == request' = [request EXCEPT ![t] = Idle]

-----------------------------------------------------------------------------
\* CreateRedemption reads the item, which must be active, and its price.
BeginCreate(t, i, a) ==
    /\ catalog[i].status = "active"
    /\ Begin(t, [op |-> "create", account |-> a, cost |-> catalog[i].cost])
    /\ UNCHANGED <<balance, entries, catalog, redemption, events>>

\* It inserts the row and posts the reserve entry with the price it read.
FinishCreate(t, r) ==
    /\ request[t].op = "create"
    /\ redemption[r] = Absent
    /\ PostLedgerEntry(ReserveEntry(r, request[t].account, request[t].cost))
    /\ redemption' = [redemption EXCEPT ![r] =
           [status |-> "reserved", account |-> request[t].account,
            cost |-> request[t].cost, expired |-> FALSE]]
    /\ events' = [events EXCEPT ![r] = {"reserved"}]
    /\ End(t)
    /\ UNCHANGED catalog

\* Seeded bugs: the release handler checks nothing, the validate handler checks
\* the expiry only.
ReleaseAdmitsAll(op, r) ==
    \/ op = "validate" /\ redemption[r].status = "reserved" /\ ~redemption[r].expired
    \/ op = "capture" /\ redemption[r].status \in Open
    \/ op = "release" /\ redemption[r].status # "none"
ValidateAdmitsAll(op, r) ==
    \/ op = "validate" /\ redemption[r].status # "none" /\ ~redemption[r].expired
    \/ op \in {"capture", "release"} /\ redemption[r].status \in Open

\* The status each settling handler insists on when it reads the row.
Admits(op, r) ==
    \/ op = "validate" /\ redemption[r].status = "reserved" /\ ~redemption[r].expired
    \/ op \in {"capture", "release"} /\ redemption[r].status \in Open

BeginSettle(t, op, r) ==
    /\ r \in Handles[t]
    /\ Admits(op, r)
    /\ Begin(t, [op |-> op, redemption |-> r])
    /\ UNCHANGED <<balance, entries, catalog, redemption, events>>

FinishValidate(t) ==
    /\ request[t].op = "validate"
    /\ SetStatus(request[t].redemption, "validated")
    /\ End(t)
    /\ UNCHANGED <<balance, entries, catalog>>

FinishCapture(t) ==
    /\ request[t].op = "capture"
    /\ PostLedgerEntry(CaptureEntry(request[t].redemption))
    /\ SetStatus(request[t].redemption, "captured")
    /\ End(t)
    /\ UNCHANGED catalog

FinishRelease(t) ==
    /\ request[t].op = "release"
    /\ PostLedgerEntry(ReleaseEntry(request[t].redemption))
    /\ SetStatus(request[t].redemption, "released")
    /\ End(t)
    /\ UNCHANGED catalog

Abandon(t) ==
    /\ request[t] # Idle
    /\ End(t)
    /\ UNCHANGED <<balance, entries, catalog, redemption, events>>

-----------------------------------------------------------------------------
\* UpdateCatalogItem replaces price and status while redemptions are open.
UpdateCatalogItem(i, item) ==
    /\ catalog' = [catalog EXCEPT ![i] = item]
    /\ UNCHANGED <<balance, entries, redemption, events, request>>

\* CreateAdjustment: any delta, once per source id.
CreateAdjustment(a, s, d) ==
    /\ PostLedgerEntry(Entry(a, "adjustment", s, d))
    /\ UNCHANGED <<catalog, redemption, events, request>>

\* Reward processing posts an earn or a refund, once per calculation.
PostReward(a, type, c, points) ==
    /\ PostLedgerEntry(Entry(a, type, c, AvailableDelta(points)))
    /\ UNCHANGED <<catalog, redemption, events, request>>

\* The clock passes reservation_expires_at.  No job acts on it.
PassExpiry(r) ==
    /\ redemption[r].status # "none"
    /\ redemption' = [redemption EXCEPT ![r].expired = TRUE]
    /\ UNCHANGED <<balance, entries, catalog, events, request>>

TerminalStep(t) ==
    \/ \E i \in Item, a \in Account : BeginCreate(t, i, a)
    \/ \E r \in Redemption : FinishCreate(t, r)
    \/ \E op \in SettleOps, r \in Redemption : BeginSettle(t, op, r)
    \/ FinishValidate(t)
    \/ FinishCapture(t)
    \/ FinishRelease(t)
    \/ Abandon(t)

Next ==
    \/ \E t \in Terminal : TerminalStep(t)
    \/ \E i \in Item, item \in [status : {"active", "inactive"}, cost : Price] :
           UpdateCatalogItem(i, item)
    \/ \E a \in Account, s \in AdjustmentSource, d \in AdjustmentDelta :
           CreateAdjustment(a, s, d)
    \/ \E a \in Account, type \in {"earn", "refund"}, c \in RewardSource,
          points \in RewardPoints : PostReward(a, type, c, points)
    \/ \E r \in Redemption : PassExpiry(r)

Spec == Init /\ [][Next]_vars

-----------------------------------------------------------------------------
(* Properties.                                                             *)

\* No redemption is worked on by two terminals: what keeps the two steps of a
\* handler from being separated by another handler of the same redemption.
DisjointHandles ==
    \A t1, t2 \in Terminal : t1 # t2 => Handles[t1] \cap Handles[t2] = {}

Negated(d) == [available |-> -d.available, reserved |-> -d.reserved, expired |-> -d.expired]

\* What a redemption settles is what it reserved: a capture or release entry
\* has a reserve entry of the same redemption, on the same account, and takes
\* exactly the reserved amount out of the reserved bucket; a release gives the
\* whole of it back.  Price changes meanwhile do not matter, and this holds
\* even for requests that race on one redemption.
SettlementMatchesReservation ==
    \A e \in entries : e.type \in {"redemption_capture", "reservation_release"} =>
        \E f \in entries :
            /\ f.type = "redemption_reserve" /\ f.source = e.source
            /\ f.account = e.account
            /\ e.delta.reserved = -f.delta.reserved
            /\ e.type = "reservation_release" => e.delta = Negated(f.delta)

\* The status of a redemption and the ledger agree: points are held for an
\* open redemption, and exactly one of capture and release was posted for a
\* settled one, the one its status names.
StatusMatchesLedger ==
    \A r \in Redemption :
        LET status == redemption[r].status
        IN /\ HasEntry("redemption_reserve", r) <=> status # "none"
           /\ HasEntry("redemption_capture", r) <=> status = "captured"
           /\ HasEntry("reservation_release", r) <=> status = "released"

Held(a) == MapThenSumSet(LAMBDA r : redemption[r].cost,
               {r \in Redemption : redemption[r].account = a /\ redemption[r].status \in Open})

Spent(a) == MapThenSumSet(LAMBDA r : redemption[r].cost,
                {r \in Redemption : redemption[r].account = a /\ redemption[r].status = "captured"})

Granted(a, Amount(_)) ==
    MapThenSumSet(Amount, {e \in entries : /\ e.account = a
                                           /\ e.type \in {"adjustment", "earn", "refund"}})

\* Every point granted to an account is available, held by one open redemption
\* or spent by one captured redemption, and the reserved bucket holds exactly
\* the points of the open redemptions (plus what adjustments put there).
PointsAccountedFor ==
    \A a \in Account :
        /\ balance[a].reserved = Held(a) + Granted(a, LAMBDA e : e.delta.reserved)
        /\ balance[a].available + Held(a) + Spent(a)
              = Granted(a, LAMBDA e : e.delta.available)

Taken(a) ==
    MapThenSumSet(LAMBDA r : redemption[r].cost,
        {r \in Redemption : redemption[r].account = a /\ HasEntry("redemption_capture", r)})

\* No point appears or is lost, whichever requests race on one redemption: what was
\* granted to an account is available, reserved or was taken by a capture, once and
\* at the redemption's cost.  So a release of a captured redemption, which returns
\* spent points, does it at the expense of what other redemptions hold.
PointsConserved ==
    \A a \in Account :
        balance[a].available + balance[a].reserved + Taken(a)
            = Granted(a, LAMBDA e : e.delta.available) + Granted(a, LAMBDA e : e.delta.reserved)

\* A captured or released redemption is never touched again.
SettledIsFinal ==
    [][\A r \in Redemption : redemption[r].status \in Settled =>
          redemption'[r].status = redemption[r].status /\ events'[r] = events[r]]_vars

\* What a status means to the member.
Stage(status) ==
    CASE status = "none" -> "none"
      [] status \in Open -> "held"
      [] status = "captured" -> "spent"
      [] status = "released" -> "returned"

\* What adjustments and rewards add to an account.
OtherAmounts ==
    {[available |-> d.available, reserved |-> d.reserved] : d \in AdjustmentDelta}
        \cup {[available |-> points, reserved |-> 0] : points \in RewardPoints}

fundsBar == [a \in Account |-> [available |-> balance[a].available,
                                reserved |-> balance[a].reserved]]

holdBar == [r \in Redemption |-> [state |-> Stage(redemption[r].status),
                                 account |-> redemption[r].account,
                                 points |-> redemption[r].cost]]

Settlement == INSTANCE Settlement WITH
    Points <- Price, Amount <- OtherAmounts, funds <- fundsBar, hold <- holdBar

\* Requests of several steps, price changes, validations and abandoned requests
\* come to no more than holding points and settling each hold once, in full.
ImplementsSettlement == Settlement!Spec

\* What the release handler says of itself, "only reserved or validated
\* redemptions can be released": points a capture has spent are not returned.
ReleasedOnlyIfHeld ==
    [][\A r \in Redemption :
          HasEntry("reservation_release", r)' /\ ~HasEntry("reservation_release", r)
             => redemption[r].status \in Open]_vars
=============================================================================
