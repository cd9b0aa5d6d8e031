-------------------------- MODULE RedemptionProofs --------------------------
(***************************************************************************)
(* Proofs about Redemption, for every value of its constants.              *)
(***************************************************************************)
EXTENDS Redemption, LedgerProofs

(***************************************************************************)
(* A post, whichever handler makes it, keeps the balances in their type    *)
(* when the delta and the rest of the entry are of theirs.                 *)
(***************************************************************************)
Sources == Redemption \cup AdjustmentSource \cup RewardSource

EntryRows == [account : Account, type : EntryTypes, delta : Buckets, source : Sources]

\* A post of a well-formed entry keeps balances and entries well-formed.
LEMMA PostKeepsTypes ==
    ASSUME NEW account \in Account, NEW type \in EntryTypes, NEW source \in Sources,
           NEW delta \in Buckets,
           balance \in [Account -> Balances], entries \subseteq EntryRows,
           PostLedgerEntry(Entry(account, type, source, delta))
    PROVE  /\ balance' \in [Account -> Balances]
           /\ entries' \subseteq EntryRows
<1> DEFINE e == Entry(account, type, source, delta)
<1>1. e \in EntryRows /\ e.account = account /\ e.type = type /\ e.delta = delta
  BY DEF Entry, EntryRows
<1>2. entries' \subseteq EntryRows
  BY <1>1 DEF PostLedgerEntry
<1> DEFINE next == Plus(balance[account], delta)
<1>3. next \in Balances
  <2>1. ApplyLedgerDelta(type, next)
    BY <1>1 DEF PostLedgerEntry, CanPost
  <2>2. balance[account] \in Balances
    OBVIOUS
  <2> QED
    BY <2>1, <2>2 DEF ApplyLedgerDelta, Plus, Balances, Buckets
<1>4. balance' = [balance EXCEPT ![account] = next]
  BY <1>1 DEF PostLedgerEntry
<1> QED
  BY <1>2, <1>3, <1>4

-----------------------------------------------------------------------------
Rows == [status : Statuses, cost : Nat, expired : BOOLEAN, account : Account \cup {NoAccount}]

(***************************************************************************)
(* What a request in flight carries.                                       *)
(***************************************************************************)
LEMMA RequestShape ==
    ASSUME request \in [Terminal -> Requests], NEW t \in Terminal
    PROVE  /\ request[t].op = "create" =>
                 request[t].account \in Account /\ request[t].cost \in Price
           /\ request[t].op \in SettleOps => request[t].redemption \in Redemption
  BY DEF Requests, Idle, SettleOps

(***************************************************************************)
(* Setting the status of a redemption leaves the rest of its row and every *)
(* other row alone.                                                        *)
(***************************************************************************)
LEMMA StatusIsSet ==
    ASSUME NEW r \in Redemption, NEW s \in Open \cup Settled,
           redemption \in [Redemption -> Rows],
           events \in [Redemption -> SUBSET (Open \cup Settled)],
           SetStatus(r, s)
    PROVE  /\ redemption' \in [Redemption -> Rows]
           /\ events' \in [Redemption -> SUBSET (Open \cup Settled)]
           /\ \A q \in Redemption :
                 /\ redemption'[q].status = IF q = r THEN s ELSE redemption[q].status
                 /\ redemption'[q].cost = redemption[q].cost
                 /\ redemption'[q].account = redemption[q].account
                 /\ q # r => events'[q] = events[q]
<1> DEFINE row == [redemption[r] EXCEPT !.status = s]
<1>1. redemption[r] \in Rows
  OBVIOUS
<1>2. row = [status |-> s, cost |-> redemption[r].cost, expired |-> redemption[r].expired,
             account |-> redemption[r].account]
  BY <1>1 DEF Rows
<1>3. row \in Rows
  BY <1>1, <1>2 DEF Rows, Statuses
<1>4. redemption' = [redemption EXCEPT ![r] = row]
  BY DEF SetStatus
<1> HIDE DEF row
<1>5. redemption' \in [Redemption -> Rows]
  BY <1>3, <1>4
<1>6. \A q \in Redemption : redemption'[q] = IF q = r THEN row ELSE redemption[q]
  BY <1>4
<1>7. events' = [events EXCEPT ![r] = @ \cup {s}]
  BY DEF SetStatus
<1> QED
  BY <1>2, <1>5, <1>6, <1>7
-----------------------------------------------------------------------------
(***************************************************************************)
(* The inductive invariant.  The types alone are not inductive: a settling *)
(* request posts to the account of the row it read, which is an account    *)
(* only because such a request is about a redemption that exists.  And a   *)
(* settlement matches the reserve entry because the row still has the      *)
(* account and the cost of that entry.                                     *)
(***************************************************************************)
RowsReserved ==
    \A r \in Redemption : redemption[r].status # "none" =>
        /\ redemption[r].account \in Account
        /\ ReserveEntry(r, redemption[r].account, redemption[r].cost) \in entries

RequestsKnown ==
    \A t \in Terminal : request[t].op \in SettleOps =>
        redemption[request[t].redemption].status # "none"

Inv == TypeOK /\ RowsReserved /\ RequestsKnown /\ SettlementMatchesReservation

SettlementTypes == {"redemption_capture", "reservation_release"}

Settles(e, f) ==
    /\ f.type = "redemption_reserve" /\ f.source = e.source
    /\ f.account = e.account
    /\ e.delta.reserved = -f.delta.reserved
    /\ e.type = "reservation_release" => e.delta = Negated(f.delta)

\* The inductive invariant holds of the empty program.
LEMMA InvInit == Init => Inv
  BY NoAccountAssumption, PriceAssumption
  DEF Init, LedgerInit, Inv, TypeOK, RowsReserved, RequestsKnown,
      SettlementMatchesReservation, Balances, Zero, Absent, Statuses, Idle, Requests,
      SettleOps

(***************************************************************************)
(* A post that is no settlement, or the settlement of a reserve entry.     *)
(***************************************************************************)
LEMMA PostKeepsSettlements ==
    ASSUME NEW e, entries' = entries \cup {e}, SettlementMatchesReservation,
           e.type \in SettlementTypes => \E f \in entries : Settles(e, f)
    PROVE  SettlementMatchesReservation'
  BY DEF SettlementMatchesReservation, Settles, SettlementTypes

(***************************************************************************)
(* Capture and release: the posted entry settles the reserve entry.        *)
(***************************************************************************)
LEMMA SettlementKeepsInv ==
    ASSUME Inv, NEW t \in Terminal, NEW s \in Settled, NEW e, NEW type, NEW delta,
           request[t].op \in SettleOps,
           PostLedgerEntry(e),
           SetStatus(request[t].redemption, s), End(t), UNCHANGED catalog,
           e = Entry(redemption[request[t].redemption].account, type,
                     request[t].redemption, delta),
           type \in SettlementTypes,
           delta \in Buckets,
           delta.reserved = -redemption[request[t].redemption].cost,
           type = "reservation_release" =>
               /\ delta.available = redemption[request[t].redemption].cost
               /\ delta.expired = 0
    PROVE  Inv'
<1> DEFINE r == request[t].redemption
           f == ReserveEntry(r, redemption[r].account, redemption[r].cost)
<1>1. r \in Redemption
  BY RequestShape DEF Inv, TypeOK
<1>2. redemption[r].status # "none" /\ redemption[r].account \in Account /\ f \in entries
  BY <1>1 DEF Inv, RequestsKnown, RowsReserved
<1>3. redemption[r].cost \in Nat
  BY <1>1 DEF Inv, TypeOK
<1>4. entries' = entries \cup {e}
  BY DEF PostLedgerEntry
<1>5. balance' \in [Account -> Balances] /\ entries' \subseteq EntryRows
  <2>1. type \in EntryTypes /\ r \in Sources
    BY <1>1 DEF SettlementTypes, EntryTypes, Sources
  <2>2. balance \in [Account -> Balances] /\ entries \subseteq EntryRows
    BY DEF Inv, TypeOK, EntryRows, Sources
  <2> QED
    BY <1>2, <2>1, <2>2, PostKeepsTypes
<1>6. /\ redemption' \in [Redemption -> Rows]
      /\ events' \in [Redemption -> SUBSET (Open \cup Settled)]
      /\ \A q \in Redemption :
            /\ redemption'[q].status = IF q = r THEN s ELSE redemption[q].status
            /\ redemption'[q].cost = redemption[q].cost
            /\ redemption'[q].account = redemption[q].account
  BY <1>1, StatusIsSet DEF Inv, TypeOK, Rows
<1>7. /\ request' \in [Terminal -> Requests]
      /\ \A u \in Terminal : request'[u] = IF u = t THEN Idle ELSE request[u]
  BY DEF Inv, TypeOK, End, Requests
<1>8. TypeOK'
  BY <1>5, <1>6, <1>7 DEF Inv, TypeOK, EntryRows, Sources, Rows
<1>9. RowsReserved'
  BY <1>2, <1>4, <1>6 DEF Inv, RowsReserved, ReserveEntry
<1>10. RequestsKnown'
  <2>1. s # "none"
    BY DEF Settled
  <2>2. \A u \in Terminal : request[u].op \in SettleOps => request[u].redemption \in Redemption
    BY RequestShape DEF Inv, TypeOK
  <2>3. Idle.op \notin SettleOps
    BY DEF Idle, SettleOps
  <2> QED
    BY <1>6, <1>7, <2>1, <2>2, <2>3 DEF Inv, RequestsKnown
<1>11. Settles(e, f)
  BY <1>3 DEF Settles, ReserveEntry, Entry, Negated, Buckets
<1>12. SettlementMatchesReservation'
  BY <1>2, <1>4, <1>11, PostKeepsSettlements DEF Inv
<1> QED
  BY <1>8, <1>9, <1>10, <1>12 DEF Inv

(***************************************************************************)
(* An adjustment or a reward: a post that touches no redemption.           *)
(***************************************************************************)
LEMMA OtherPostKeepsInv ==
    ASSUME Inv, NEW a \in Account, NEW type \in EntryTypes \ SettlementTypes,
           NEW source \in Sources, NEW delta \in Buckets,
           PostLedgerEntry(Entry(a, type, source, delta)),
           UNCHANGED <<catalog, redemption, events, request>>
    PROVE  Inv'
<1> DEFINE e == Entry(a, type, source, delta)
<1>1. entries' = entries \cup {e}
  BY DEF PostLedgerEntry
<1>2. balance' \in [Account -> Balances] /\ entries' \subseteq EntryRows
  BY PostKeepsTypes DEF Inv, TypeOK, EntryRows, Sources
<1>3. TypeOK'
  BY <1>2 DEF Inv, TypeOK, EntryRows, Sources
<1>4. RowsReserved'
  BY <1>1 DEF Inv, RowsReserved, ReserveEntry
<1>5. RequestsKnown'
  BY DEF Inv, RequestsKnown
<1>6. SettlementMatchesReservation'
  BY <1>1, PostKeepsSettlements DEF Inv, Entry
<1> QED
  BY <1>3, <1>4, <1>5, <1>6 DEF Inv

\* Creating a redemption is the only step that reserves for a new one.
LEMMA CreateKeepsInv ==
    ASSUME Inv, NEW t \in Terminal, NEW r \in Redemption, FinishCreate(t, r)
    PROVE  Inv'
<1> DEFINE account == request[t].account
           cost == request[t].cost
           delta == [available |-> -cost, reserved |-> cost, expired |-> 0]
           row == [status |-> "reserved", account |-> account,
                   cost |-> cost, expired |-> FALSE]
           e == Entry(account, "redemption_reserve", r, delta)
<1>1. account \in Account /\ cost \in Nat
  BY RequestShape, PriceAssumption DEF FinishCreate, Inv, TypeOK
<1>2. e = ReserveEntry(r, account, cost) /\ PostLedgerEntry(e)
  BY DEF FinishCreate, ReserveEntry
<1>3. entries' = entries \cup {e}
  BY <1>2 DEF PostLedgerEntry
<1>4. balance' \in [Account -> Balances] /\ entries' \subseteq EntryRows
  <2>1. delta \in Buckets /\ "redemption_reserve" \in EntryTypes /\ r \in Sources
    BY <1>1 DEF Buckets, EntryTypes, Sources
  <2>2. balance \in [Account -> Balances] /\ entries \subseteq EntryRows
    BY DEF Inv, TypeOK, EntryRows, Sources
  <2> QED
    BY <1>1, <1>2, <2>1, <2>2, PostKeepsTypes
<1>5. row \in Rows
  BY <1>1 DEF Rows, Statuses, Open
<1>6. /\ redemption' \in [Redemption -> Rows]
      /\ \A q \in Redemption : redemption'[q] = IF q = r THEN row ELSE redemption[q]
  BY <1>5 DEF FinishCreate, Inv, TypeOK, Rows
<1>7. /\ request' \in [Terminal -> Requests]
      /\ \A u \in Terminal : request'[u] = IF u = t THEN Idle ELSE request[u]
  BY DEF FinishCreate, Inv, TypeOK, End, Requests
<1>8. events' \in [Redemption -> SUBSET (Open \cup Settled)]
  BY DEF FinishCreate, Inv, TypeOK, Open
<1>9. TypeOK'
  BY <1>4, <1>6, <1>7, <1>8 DEF FinishCreate, Inv, TypeOK, EntryRows, Sources, Rows
<1>10. RowsReserved'
  BY <1>1, <1>2, <1>3, <1>6 DEF Inv, RowsReserved, ReserveEntry
<1>11. RequestsKnown'
  <2>1. \A u \in Terminal : request[u].op \in SettleOps => request[u].redemption \in Redemption
    BY RequestShape DEF Inv, TypeOK
  <2>2. Idle.op \notin SettleOps /\ row.status # "none"
    BY DEF Idle, SettleOps
  <2> QED
    BY <1>6, <1>7, <2>1, <2>2 DEF Inv, RequestsKnown
<1>12. SettlementMatchesReservation'
  BY <1>3, PostKeepsSettlements DEF Inv, Entry, SettlementTypes
<1> QED
  BY <1>9, <1>10, <1>11, <1>12 DEF Inv

\* Every step keeps the inductive invariant.
LEMMA InvNext == Inv /\ [Next]_vars => Inv'
<1> SUFFICES ASSUME Inv, [Next]_vars PROVE Inv'
  OBVIOUS
<1> DEFINE Unmoved == UNCHANGED <<balance, entries>>
<1>a. \A t \in Terminal : request[t].op \in SettleOps => request[t].redemption \in Redemption
  BY RequestShape DEF Inv, TypeOK
\* A step that posts nothing and leaves the rows alone.
<1>b. ASSUME Unmoved, UNCHANGED <<redemption, events>>,
             catalog' \in [Item -> [status : {"active", "inactive"}, cost : Price]],
             request' \in [Terminal -> Requests],
             \A t \in Terminal : request'[t].op \in SettleOps =>
                 \/ request'[t] = request[t]
                 \/ redemption[request'[t].redemption].status # "none"
      PROVE  Inv'
  BY <1>b DEF Inv, TypeOK, RowsReserved, RequestsKnown, SettlementMatchesReservation,
              ReserveEntry
<1>1. ASSUME NEW t \in Terminal, NEW i \in Item, NEW a \in Account, BeginCreate(t, i, a)
      PROVE  Inv'
  <2> DEFINE req == [op |-> "create", account |-> a, cost |-> catalog[i].cost]
  <2>1. req \in Requests /\ req.op \notin SettleOps
    BY DEF Inv, TypeOK, Requests, SettleOps
  <2>2. request' = [request EXCEPT ![t] = req]
    BY <1>1 DEF BeginCreate, Begin
  <2> HIDE DEF req
  <2> QED
    BY <1>1, <1>b, <2>1, <2>2 DEF BeginCreate, Inv, TypeOK
<1>2. ASSUME NEW t \in Terminal, NEW r \in Redemption, FinishCreate(t, r)
      PROVE  Inv'
  BY <1>2, CreateKeepsInv
<1>3. ASSUME NEW t \in Terminal, NEW op \in SettleOps, NEW r \in Redemption,
             BeginSettle(t, op, r)
      PROVE  Inv'
  <2> DEFINE req == [op |-> op, redemption |-> r]
  <2>1. req \in Requests /\ req.redemption = r
    BY DEF Requests
  <2>2. request' = [request EXCEPT ![t] = req]
    BY <1>3 DEF BeginSettle, Begin
  <2>3. redemption[r].status # "none"
    BY <1>3 DEF BeginSettle, Admits, Open
  <2> HIDE DEF req
  <2> QED
    BY <1>3, <1>b, <2>1, <2>2, <2>3 DEF BeginSettle, Inv, TypeOK
<1>4. ASSUME NEW t \in Terminal, FinishValidate(t)
      PROVE  Inv'
  <2> DEFINE r == request[t].redemption
  <2>1. r \in Redemption
    BY <1>4, <1>a DEF FinishValidate, SettleOps
  <2>2. /\ redemption' \in [Redemption -> Rows]
        /\ events' \in [Redemption -> SUBSET (Open \cup Settled)]
        /\ \A q \in Redemption :
              /\ redemption'[q].status = IF q = r THEN "validated" ELSE redemption[q].status
              /\ redemption'[q].cost = redemption[q].cost
              /\ redemption'[q].account = redemption[q].account
    BY <1>4, <2>1, StatusIsSet DEF FinishValidate, Inv, TypeOK, Rows, Open
  <2>3. /\ request' \in [Terminal -> Requests]
        /\ \A u \in Terminal : request'[u] = IF u = t THEN Idle ELSE request[u]
    BY <1>4 DEF FinishValidate, Inv, TypeOK, End, Requests
  <2>4. TypeOK'
    BY <1>4, <2>2, <2>3 DEF FinishValidate, Inv, TypeOK, Rows
  <2>5. RowsReserved'
    <3>1. redemption[r].status # "none"
      BY <1>4 DEF FinishValidate, Inv, RequestsKnown, SettleOps
    <3> QED
      BY <1>4, <2>1, <2>2, <3>1 DEF FinishValidate, Inv, RowsReserved, ReserveEntry
  <2>6. RequestsKnown'
    <3>1. Idle.op \notin SettleOps
      BY DEF Idle, SettleOps
    <3> QED
      BY <1>a, <2>2, <2>3, <3>1 DEF Inv, RequestsKnown
  <2>7. SettlementMatchesReservation'
    BY <1>4 DEF FinishValidate, Inv, SettlementMatchesReservation
  <2> QED
    BY <2>4, <2>5, <2>6, <2>7 DEF Inv
<1>5. ASSUME NEW t \in Terminal, FinishCapture(t)
      PROVE  Inv'
  <2> DEFINE r == request[t].redemption
             delta == [available |-> 0, reserved |-> -redemption[r].cost, expired |-> 0]
  <2>1. delta \in Buckets /\ delta.reserved = -redemption[r].cost
    BY <1>5, <1>a DEF FinishCapture, SettleOps, Buckets, Inv, TypeOK
  <2>2. CaptureEntry(r) = Entry(redemption[r].account, "redemption_capture", r, delta)
    BY DEF CaptureEntry
  <2> HIDE DEF delta
  <2> QED
    BY <1>5, <2>1, <2>2, SettlementKeepsInv
    DEF FinishCapture, SettleOps, Settled, SettlementTypes
<1>6. ASSUME NEW t \in Terminal, FinishRelease(t)
      PROVE  Inv'
  <2> DEFINE r == request[t].redemption
             delta == [available |-> redemption[r].cost, reserved |-> -redemption[r].cost,
                       expired |-> 0]
  <2>1. /\ delta \in Buckets /\ delta.reserved = -redemption[r].cost
        /\ delta.available = redemption[r].cost /\ delta.expired = 0
    BY <1>6, <1>a DEF FinishRelease, SettleOps, Buckets, Inv, TypeOK
  <2>2. ReleaseEntry(r) = Entry(redemption[r].account, "reservation_release", r, delta)
    BY DEF ReleaseEntry
  <2> HIDE DEF delta
  <2> QED
    BY <1>6, <2>1, <2>2, SettlementKeepsInv
    DEF FinishRelease, SettleOps, Settled, SettlementTypes
<1>7. ASSUME NEW t \in Terminal, Abandon(t)
      PROVE  Inv'
  <2>1. request' = [request EXCEPT ![t] = Idle] /\ Idle \in Requests /\ Idle.op \notin SettleOps
    BY <1>7 DEF Abandon, End, Requests, Idle, SettleOps
  <2> QED
    BY <1>7, <1>b, <2>1 DEF Abandon, Inv, TypeOK
<1>8. ASSUME NEW i \in Item, NEW item \in [status : {"active", "inactive"}, cost : Price],
             UpdateCatalogItem(i, item)
      PROVE  Inv'
  BY <1>8, <1>b DEF UpdateCatalogItem, Inv, TypeOK
<1>9. ASSUME NEW a \in Account, NEW s \in AdjustmentSource, NEW d \in AdjustmentDelta,
             CreateAdjustment(a, s, d)
      PROVE  Inv'
  <2>1. d \in Buckets
    BY DeltaAssumption
  <2>2. "adjustment" \in EntryTypes \ SettlementTypes /\ s \in Sources
    BY DEF EntryTypes, SettlementTypes, Sources
  <2> QED
    BY <1>9, <2>1, <2>2, OtherPostKeepsInv DEF CreateAdjustment
<1>10. ASSUME NEW a \in Account, NEW type \in {"earn", "refund"}, NEW c \in RewardSource,
              NEW points \in RewardPoints, PostReward(a, type, c, points)
       PROVE  Inv'
  <2>1. AvailableDelta(points) \in Buckets
    BY DeltaAssumption DEF AvailableDelta, Buckets
  <2>2. type \in EntryTypes \ SettlementTypes /\ c \in Sources
    BY DEF EntryTypes, SettlementTypes, Sources
  <2> QED
    BY <1>10, <2>1, <2>2, OtherPostKeepsInv DEF PostReward
<1>11. ASSUME NEW r \in Redemption, PassExpiry(r)
       PROVE  Inv'
  <2> DEFINE row == [redemption[r] EXCEPT !.expired = TRUE]
  <2>1. redemption[r] \in Rows
    BY DEF Inv, TypeOK, Rows
  <2>2. row = [status |-> redemption[r].status, cost |-> redemption[r].cost,
               expired |-> TRUE, account |-> redemption[r].account]
    <3>1. ASSUME NEW x \in Rows, NEW v
          PROVE  [x EXCEPT !.expired = v] = [status |-> x.status, cost |-> x.cost,
                                             expired |-> v, account |-> x.account]
      BY DEF Rows
    <3> QED
      BY <2>1, <3>1
  <2>3. row \in Rows
    BY <2>1, <2>2 DEF Rows
  <2>4. redemption' = [redemption EXCEPT ![r] = row]
    BY <1>11 DEF PassExpiry
  <2> HIDE DEF row
  <2>5. /\ redemption' \in [Redemption -> Rows]
        /\ \A q \in Redemption :
              /\ redemption'[q].status = redemption[q].status
              /\ redemption'[q].cost = redemption[q].cost
              /\ redemption'[q].account = redemption[q].account
    BY <2>2, <2>3, <2>4 DEF Inv, TypeOK, Rows
  <2> QED
    BY <1>11, <1>a, <2>5 DEF PassExpiry, Inv, TypeOK, Rows, RowsReserved, RequestsKnown,
                             SettlementMatchesReservation, ReserveEntry
<1>12. CASE UNCHANGED vars
  BY <1>12, <1>b DEF vars, Inv, TypeOK
<1> QED
  BY <1>1, <1>2, <1>3, <1>4, <1>5, <1>6, <1>7, <1>8, <1>9, <1>10, <1>11, <1>12
  DEF Next, TerminalStep

\* The inductive invariant always holds, with any number of terminals, even when
\* two of them settle the same redemption.
THEOREM Invariance == Spec => []Inv
BY InvInit, InvNext, PTL DEF Spec

(***************************************************************************)
(* Type correctness.  In particular the reserved and expired buckets are   *)
(* never negative, whatever settlements and adjustments race.              *)
(***************************************************************************)
THEOREM TypeCorrect == Spec => []TypeOK
<1>1. Inv => TypeOK
  BY DEF Inv
<1> QED
  BY <1>1, Invariance, PTL

(***************************************************************************)
(* Every capture and release settles exactly what was reserved, even when  *)
(* requests race on one redemption and prices change meanwhile.            *)
(***************************************************************************)
THEOREM SettlementsMatchReservations == Spec => []SettlementMatchesReservation
<1>1. Inv => SettlementMatchesReservation
  BY DEF Inv
<1> QED
  BY <1>1, Invariance, PTL

-----------------------------------------------------------------------------
(***************************************************************************)
(* The rest holds when no redemption is worked on by two terminals.  A     *)
(* handler checks the status before it locks anything, so the check is     *)
(* good at the write only if nobody else writes in between: the requests   *)
(* in flight are about redemptions that are still open.                    *)
(***************************************************************************)
RequestsOpen ==
    \A t \in Terminal : request[t].op \in SettleOps =>
        /\ request[t].redemption \in Handles[t]
        /\ redemption[request[t].redemption].status \in Open

OwnedInv == Inv /\ RequestsOpen /\ StatusMatchesLedger

\* No request is open at the start.
LEMMA OwnedInit == Init => OwnedInv
  BY InvInit
  DEF Init, LedgerInit, OwnedInv, RequestsOpen, StatusMatchesLedger, HasEntry, Absent,
      Idle, SettleOps

\* What a post does to the question whether a redemption has an entry of a type.
LEMMA EntriesAfterPost ==
    ASSUME NEW e, PostLedgerEntry(e), NEW type, NEW source
    PROVE  HasEntry(type, source)' <=>
              HasEntry(type, source) \/ (e.type = type /\ e.source = source)
  BY DEF PostLedgerEntry, HasEntry

(***************************************************************************)
(* What a settling request writes does not touch a redemption that another *)
(* request in flight is about.                                             *)
(***************************************************************************)
LEMMA SettleKeepsRequestsOpen ==
    ASSUME DisjointHandles, OwnedInv, NEW t \in Terminal, NEW s \in Open \cup Settled,
           request[t].op \in SettleOps, SetStatus(request[t].redemption, s), End(t)
    PROVE  RequestsOpen'
<1> DEFINE r == request[t].redemption
<1>1. \A u \in Terminal : request[u].op \in SettleOps => request[u].redemption \in Redemption
  BY RequestShape DEF OwnedInv, Inv, TypeOK
<1>2. \A q \in Redemption : redemption'[q].status = IF q = r THEN s ELSE redemption[q].status
  BY <1>1, StatusIsSet DEF OwnedInv, Inv, TypeOK, Rows
<1>3. \A u \in Terminal : request'[u] = IF u = t THEN Idle ELSE request[u]
  BY DEF OwnedInv, Inv, TypeOK, End
<1>4. Idle.op \notin SettleOps
  BY DEF Idle, SettleOps
<1>5. ASSUME NEW u \in Terminal, request'[u].op \in SettleOps
      PROVE  /\ request'[u].redemption \in Handles[u]
             /\ redemption'[request'[u].redemption].status \in Open
  <2>1. u # t /\ request'[u] = request[u]
    BY <1>3, <1>4, <1>5
  <2>2. r \in Handles[t] /\ request[u].redemption \in Handles[u]
    BY <1>5, <2>1 DEF OwnedInv, RequestsOpen
  <2>3. request[u].redemption # r
    BY <2>1, <2>2 DEF DisjointHandles
  <2> QED
    BY <1>1, <1>2, <1>5, <2>1, <2>2, <2>3 DEF OwnedInv, RequestsOpen
<1> QED
  BY <1>5 DEF RequestsOpen

(***************************************************************************)
(* A capture or a release of an open redemption.                           *)
(***************************************************************************)
LEMMA SettleKeepsStatus ==
    ASSUME OwnedInv, NEW t \in Terminal, NEW e,
           request[t].op \in SettleOps,
           NEW s \in Settled, SetStatus(request[t].redemption, s),
           PostLedgerEntry(e), e.source = request[t].redemption,
           e.type = IF s = "captured" THEN "redemption_capture" ELSE "reservation_release"
    PROVE  StatusMatchesLedger'
<1> DEFINE r == request[t].redemption
<1>1. r \in Redemption /\ redemption[r].status \in Open
  BY RequestShape DEF OwnedInv, Inv, TypeOK, RequestsOpen
<1>2. \A q \in Redemption : redemption'[q].status = IF q = r THEN s ELSE redemption[q].status
  BY <1>1, StatusIsSet DEF OwnedInv, Inv, TypeOK, Rows
<1>3. \A type, source : HasEntry(type, source)' <=>
          HasEntry(type, source) \/ (e.type = type /\ e.source = source)
  BY EntriesAfterPost
<1>4. s \in {"captured", "released"} /\ redemption[r].status \in {"reserved", "validated"}
  BY <1>1 DEF Settled, Open
<1> QED
  BY <1>1, <1>2, <1>3, <1>4 DEF OwnedInv, StatusMatchesLedger

\* Every step keeps status and ledger of a redemption in agreement.
LEMMA OwnedNext == DisjointHandles /\ OwnedInv /\ [Next]_vars => OwnedInv'
<1> SUFFICES ASSUME DisjointHandles, OwnedInv, [Next]_vars
             PROVE  RequestsOpen' /\ StatusMatchesLedger'
  BY InvNext DEF OwnedInv
<1>a. \A t \in Terminal : request[t].op \in SettleOps => request[t].redemption \in Redemption
  BY RequestShape DEF OwnedInv, Inv, TypeOK
<1>b. Idle.op \notin SettleOps
  BY DEF Idle, SettleOps
<1>c. request \in [Terminal -> Requests] /\ redemption \in [Redemption -> Rows]
  BY DEF OwnedInv, Inv, TypeOK, Rows
\* A post of another type than those of redemptions, and no status changed.
<1>d. ASSUME \/ UNCHANGED entries
             \/ \E e : PostLedgerEntry(e) /\ e.type \in {"adjustment", "earn", "refund"},
             \A r \in Redemption : redemption'[r].status = redemption[r].status
      PROVE  StatusMatchesLedger'
  <2>1. \A type \in SettlementTypes \cup {"redemption_reserve"} : \A source :
            HasEntry(type, source)' <=> HasEntry(type, source)
    BY <1>d, EntriesAfterPost DEF HasEntry, SettlementTypes
  <2> QED
    BY <1>d, <2>1 DEF OwnedInv, StatusMatchesLedger, SettlementTypes
<1>e. ASSUME UNCHANGED request, 
             \A r \in Redemption : redemption'[r].status = redemption[r].status
      PROVE  RequestsOpen'
  BY <1>a, <1>e DEF OwnedInv, RequestsOpen
<1>1. ASSUME NEW t \in Terminal, NEW i \in Item, NEW a \in Account, BeginCreate(t, i, a)
      PROVE  RequestsOpen' /\ StatusMatchesLedger'
  <2> DEFINE req == [op |-> "create", account |-> a, cost |-> catalog[i].cost]
  <2>1. req.op \notin SettleOps /\ request' = [request EXCEPT ![t] = req]
    BY <1>1 DEF BeginCreate, Begin, SettleOps
  <2> HIDE DEF req
  <2> QED
    BY <1>1, <1>c, <1>d, <2>1 DEF BeginCreate, OwnedInv, RequestsOpen
<1>2. ASSUME NEW t \in Terminal, NEW r \in Redemption, FinishCreate(t, r)
      PROVE  RequestsOpen' /\ StatusMatchesLedger'
  <2> DEFINE e == ReserveEntry(r, request[t].account, request[t].cost)
             row == [status |-> "reserved", account |-> request[t].account,
                     cost |-> request[t].cost, expired |-> FALSE]
  <2>1. \A q \in Redemption :
            redemption'[q].status = IF q = r THEN "reserved" ELSE redemption[q].status
    BY <1>2, <1>c DEF FinishCreate
  <2>2. redemption[r].status = "none"
    BY <1>2 DEF FinishCreate, Absent
  <2>3. RequestsOpen'
    <3>1. \A u \in Terminal : request'[u] = IF u = t THEN Idle ELSE request[u]
      BY <1>2, <1>c DEF FinishCreate, End
    <3> QED
      BY <1>a, <1>b, <2>1, <3>1 DEF OwnedInv, RequestsOpen, Open
  <2>4. \A type, source : HasEntry(type, source)' <=>
            HasEntry(type, source) \/ (e.type = type /\ e.source = source)
    BY <1>2, EntriesAfterPost DEF FinishCreate
  <2>5. e.type = "redemption_reserve" /\ e.source = r
    BY DEF ReserveEntry, Entry
  <2>6. StatusMatchesLedger'
    BY <2>1, <2>2, <2>4, <2>5 DEF OwnedInv, StatusMatchesLedger
  <2> QED
    BY <2>3, <2>6
<1>3. ASSUME NEW t \in Terminal, NEW op \in SettleOps, NEW r \in Redemption,
             BeginSettle(t, op, r)
      PROVE  RequestsOpen' /\ StatusMatchesLedger'
  <2>1. r \in Handles[t] /\ redemption[r].status \in Open
    BY <1>3 DEF BeginSettle, Admits, Open
  <2>2. \A u \in Terminal :
            request'[u] = IF u = t THEN [op |-> op, redemption |-> r] ELSE request[u]
    BY <1>3, <1>c DEF BeginSettle, Begin
  <2>3. [op |-> op, redemption |-> r].redemption = r
    OBVIOUS
  <2> QED
    BY <1>3, <1>d, <2>1, <2>2, <2>3 DEF BeginSettle, OwnedInv, RequestsOpen
<1>4. ASSUME NEW t \in Terminal, FinishValidate(t)
      PROVE  RequestsOpen' /\ StatusMatchesLedger'
  <2> DEFINE r == request[t].redemption
  <2>1. request[t].op \in SettleOps /\ "validated" \in Open \cup Settled
    BY <1>4 DEF FinishValidate, SettleOps, Open
  <2>2. RequestsOpen'
    BY <1>4, <2>1, SettleKeepsRequestsOpen DEF FinishValidate
  <2>3. redemption[r].status \in {"reserved", "validated"}
    BY <2>1 DEF OwnedInv, RequestsOpen, Open
  <2>4. \A q \in Redemption :
            redemption'[q].status = IF q = r THEN "validated" ELSE redemption[q].status
    BY <1>4, <1>a, <2>1, StatusIsSet DEF FinishValidate, OwnedInv, Inv, TypeOK, Rows
  <2>5. StatusMatchesLedger'
    BY <1>4, <2>3, <2>4 DEF FinishValidate, OwnedInv, StatusMatchesLedger, HasEntry
  <2> QED
    BY <2>2, <2>5
<1>5. ASSUME NEW t \in Terminal, FinishCapture(t)
      PROVE  RequestsOpen' /\ StatusMatchesLedger'
  <2>1. request[t].op \in SettleOps /\ "captured" \in Settled
    BY <1>5 DEF FinishCapture, SettleOps, Settled
  <2>2. CaptureEntry(request[t].redemption).source = request[t].redemption
        /\ CaptureEntry(request[t].redemption).type = "redemption_capture"
    BY DEF CaptureEntry, Entry
  <2> QED
    BY <1>5, <2>1, <2>2, SettleKeepsRequestsOpen, SettleKeepsStatus DEF FinishCapture
<1>6. ASSUME NEW t \in Terminal, FinishRelease(t)
      PROVE  RequestsOpen' /\ StatusMatchesLedger'
  <2>1. request[t].op \in SettleOps /\ "released" \in Settled
    BY <1>6 DEF FinishRelease, SettleOps, Settled
  <2>2. ReleaseEntry(request[t].redemption).source = request[t].redemption
        /\ ReleaseEntry(request[t].redemption).type = "reservation_release"
    BY DEF ReleaseEntry, Entry
  <2> QED
    BY <1>6, <2>1, <2>2, SettleKeepsRequestsOpen, SettleKeepsStatus DEF FinishRelease
<1>7. ASSUME NEW t \in Terminal, Abandon(t)
      PROVE  RequestsOpen' /\ StatusMatchesLedger'
  BY <1>7, <1>b, <1>c, <1>d DEF Abandon, End, OwnedInv, RequestsOpen
<1>8. ASSUME NEW i \in Item, NEW item \in [status : {"active", "inactive"}, cost : Price],
             UpdateCatalogItem(i, item)
      PROVE  RequestsOpen' /\ StatusMatchesLedger'
  BY <1>8, <1>d, <1>e DEF UpdateCatalogItem
<1>9. ASSUME NEW a \in Account, NEW s \in AdjustmentSource, NEW d \in AdjustmentDelta,
             CreateAdjustment(a, s, d)
      PROVE  RequestsOpen' /\ StatusMatchesLedger'
  BY <1>9, <1>d, <1>e DEF CreateAdjustment, Entry
<1>10. ASSUME NEW a \in Account, NEW type \in {"earn", "refund"}, NEW c \in RewardSource,
              NEW points \in RewardPoints, PostReward(a, type, c, points)
       PROVE  RequestsOpen' /\ StatusMatchesLedger'
  BY <1>10, <1>d, <1>e DEF PostReward, Entry
<1>11. ASSUME NEW r \in Redemption, PassExpiry(r)
       PROVE  RequestsOpen' /\ StatusMatchesLedger'
  <2>1. \A q \in Redemption : redemption'[q].status = redemption[q].status
    BY <1>11, <1>c DEF PassExpiry, Rows
  <2> QED
    BY <1>11, <1>d, <1>e, <2>1 DEF PassExpiry
<1>12. CASE UNCHANGED vars
  BY <1>12, <1>d, <1>e DEF vars
<1> QED
  BY <1>1, <1>2, <1>3, <1>4, <1>5, <1>6, <1>7, <1>8, <1>9, <1>10, <1>11, <1>12
  DEF Next, TerminalStep

\* Status and ledger of each redemption agree when no redemption is worked on by
\* two terminals.
THEOREM OwnedInvariance == DisjointHandles => (Spec => []OwnedInv)
<1> SUFFICES ASSUME DisjointHandles PROVE Spec => []OwnedInv
  OBVIOUS
<1>1. OwnedInv /\ [Next]_vars => OwnedInv'
  BY OwnedNext
<1> QED
  BY OwnedInit, <1>1, PTL DEF Spec

(***************************************************************************)
(* With one terminal per redemption, status and ledger always agree.       *)
(***************************************************************************)
THEOREM StatusAlwaysMatchesLedger == DisjointHandles => (Spec => []StatusMatchesLedger)
<1>1. OwnedInv => StatusMatchesLedger
  BY DEF OwnedInv
<1> QED
  BY <1>1, OwnedInvariance, PTL

(***************************************************************************)
(* And no step changes a captured or released redemption.                  *)
(***************************************************************************)
THEOREM SettledStaysSettled == DisjointHandles => (Spec => SettledIsFinal)
<1> SUFFICES ASSUME DisjointHandles PROVE Spec => SettledIsFinal
  OBVIOUS
<1> DEFINE Final == \A r \in Redemption : redemption[r].status \in Settled =>
               redemption'[r].status = redemption[r].status /\ events'[r] = events[r]
<1>1. OwnedInv /\ [Next]_vars => [Final]_vars
  <2> SUFFICES ASSUME OwnedInv, Next PROVE Final
    OBVIOUS
  <2>a. redemption \in [Redemption -> Rows] /\ events \in [Redemption -> SUBSET (Open \cup Settled)]
    BY DEF OwnedInv, Inv, TypeOK, Rows
  <2>b. ASSUME NEW t \in Terminal, NEW s \in Open \cup Settled, request[t].op \in SettleOps,
               SetStatus(request[t].redemption, s)
        PROVE  Final
    <3>1. /\ request[t].redemption \in Redemption
          /\ redemption[request[t].redemption].status \in Open
      BY <2>b, RequestShape DEF OwnedInv, Inv, TypeOK, RequestsOpen
    <3>2. Open \cap Settled = {}
      BY DEF Open, Settled
    <3> QED
      BY <2>a, <2>b, <3>1, <3>2, StatusIsSet
  <2>1. ASSUME NEW t \in Terminal, NEW r \in Redemption, FinishCreate(t, r)
        PROVE  Final
    BY <2>a, <2>1 DEF FinishCreate, Absent, Settled
  <2>2. ASSUME NEW t \in Terminal, FinishValidate(t) \/ FinishCapture(t) \/ FinishRelease(t)
        PROVE  Final
    BY <2>b, <2>2
    DEF FinishValidate, FinishCapture, FinishRelease, SettleOps, Open, Settled
  <2>3. ASSUME NEW r \in Redemption, PassExpiry(r)
        PROVE  Final
    BY <2>a, <2>3 DEF PassExpiry, Rows
  <2> QED
    BY <2>1, <2>2, <2>3
    DEF Next, TerminalStep, BeginCreate, BeginSettle, Abandon, UpdateCatalogItem,
        CreateAdjustment, PostReward
<1> QED
  BY <1>1, OwnedInvariance, PTL DEF Spec, SettledIsFinal

-----------------------------------------------------------------------------
(***************************************************************************)
(* Sums: the ledger and the snapshots, and where the points of an account  *)
(* are.  Every step leaves the ledger alone or posts one entry.            *)
(***************************************************************************)
LEMMA StepPosts ==
    ASSUME Inv, [Next]_vars
    PROVE  UNCHANGED ledgerVars \/ \E e \in EntryRows : PostLedgerEntry(e)
<1> DEFINE Posts == \E e \in EntryRows : PostLedgerEntry(e)
<1>1. ASSUME NEW t \in Terminal, NEW r \in Redemption, FinishCreate(t, r) PROVE Posts
  <2>1. request[t].account \in Account /\ request[t].cost \in Nat
    BY <1>1, RequestShape, PriceAssumption DEF FinishCreate, Inv, TypeOK
  <2>2. ReserveEntry(r, request[t].account, request[t].cost) \in EntryRows
    BY <2>1 DEF ReserveEntry, Entry, EntryRows, Sources, EntryTypes, Buckets
  <2> QED BY <1>1, <2>2 DEF FinishCreate
<1>2. ASSUME NEW t \in Terminal, FinishCapture(t) \/ FinishRelease(t) PROVE Posts
  <2> DEFINE r == request[t].redemption
  <2>1. request[t].op \in SettleOps /\ r \in Redemption
    BY <1>2, RequestShape DEF FinishCapture, FinishRelease, SettleOps, Inv, TypeOK
  <2>2. redemption[r].account \in Account /\ redemption[r].cost \in Nat
    BY <2>1 DEF Inv, TypeOK, RowsReserved, RequestsKnown
  <2>3. CaptureEntry(r) \in EntryRows /\ ReleaseEntry(r) \in EntryRows
    BY <2>1, <2>2 DEF CaptureEntry, ReleaseEntry, Entry, EntryRows, Sources, EntryTypes, Buckets
  <2> QED BY <1>2, <2>3 DEF FinishCapture, FinishRelease
<1>3. ASSUME NEW a \in Account, NEW s \in AdjustmentSource, NEW d \in AdjustmentDelta,
             CreateAdjustment(a, s, d)
      PROVE  Posts
  BY <1>3, DeltaAssumption DEF CreateAdjustment, Entry, EntryRows, Sources, EntryTypes
<1>4. ASSUME NEW a \in Account, NEW type \in {"earn", "refund"}, NEW c \in RewardSource,
             NEW points \in RewardPoints, PostReward(a, type, c, points)
      PROVE  Posts
  BY <1>4, DeltaAssumption
  DEF PostReward, Entry, EntryRows, Sources, EntryTypes, AvailableDelta, Buckets
<1> QED
  BY <1>1, <1>2, <1>3, <1>4
  DEF Next, TerminalStep, BeginCreate, BeginSettle, FinishValidate, Abandon,
      UpdateCatalogItem, PassExpiry, vars, ledgerVars

(***************************************************************************)
(* The snapshot of every account is the sum of its entries.                *)
(***************************************************************************)
SummedInv == Inv /\ LedgerSound /\ SnapshotIsLedgerSum

\* A step that posts keeps snapshot and entries of an account together.
LEMMA SummedNext == SummedInv /\ [Next]_vars => SummedInv'
<1> SUFFICES ASSUME SummedInv, [Next]_vars PROVE LedgerSound' /\ SnapshotIsLedgerSum'
  BY InvNext DEF SummedInv
<1>1. ASSUME UNCHANGED ledgerVars PROVE LedgerSound' /\ SnapshotIsLedgerSum'
  <2>1. SumsAreAmounts /\ SumsAreAmounts'
    BY LedgerSums, PTL
  <2> QED
    BY <1>1, <2>1
    DEF ledgerVars, SummedInv, LedgerSound, SumsAreAmounts, SnapshotIsAmount, EntriesOf
<1>2. ASSUME NEW e \in EntryRows, PostLedgerEntry(e)
      PROVE  LedgerSound' /\ SnapshotIsLedgerSum'
  BY <1>2, PostKeepsSnapshot DEF EntryRows, SummedInv
<1> QED BY <1>1, <1>2, StepPosts DEF SummedInv

\* The snapshot row of an account, which every handler changes in place, is what
\* its ledger entries add up to, in any interleaving of the handlers.
THEOREM SnapshotsAddUp == Spec => []SnapshotIsLedgerSum
<1>1. Init => SummedInv
  BY InvInit, LedgerSoundInit DEF Init, SummedInv
<1>2. SummedInv => SnapshotIsLedgerSum
  BY DEF SummedInv
<1> QED BY <1>1, <1>2, SummedNext, PTL DEF Spec

-----------------------------------------------------------------------------
HeldBy(a) == {r \in Redemption : redemption[r].account = a /\ redemption[r].status \in Open}

SpentBy(a) == {r \in Redemption : redemption[r].account = a /\ redemption[r].status = "captured"}

GrantTypes == {"adjustment", "earn", "refund"}

Grants(a) == {e \in entries : e.account = a /\ e.type \in GrantTypes}

Costs == [r \in Redemption |-> redemption[r].cost]

\* Held is the total of the costs of the open redemptions.
LEMMA HeldTotal == \A a : Held(a) = Total(Costs, HeldBy(a))
<1> SUFFICES ASSUME NEW a PROVE Held(a) = Total(Costs, HeldBy(a))
  OBVIOUS
<1> DEFINE P(g) == g = [T \in SUBSET HeldBy(a) |->
                           IF T = {} THEN 0 ELSE redemption[Some(T)].cost + g[T \ {Some(T)}]]
<1>1. Held(a) = (CHOOSE g : P(g))[HeldBy(a)]
  BY DEF Held, HeldBy, MapThenSumSet, MapThenFoldSet, Some
<1>2. \A T \in SUBSET HeldBy(a) : T # {} => Costs[Some(T)] = redemption[Some(T)].cost
  BY DEF Some, Costs, HeldBy
<1>3. \A g : P(g) <=> Sums(g, Costs, HeldBy(a))
  BY <1>2 DEF Sums
<1>4. (CHOOSE g : P(g)) = CHOOSE g : Sums(g, Costs, HeldBy(a))
  <2> HIDE DEF Sums, P
  <2> QED BY <1>3
<1> QED BY <1>1, <1>4, TotalChosen

\* Spent is the total of the costs of the captured redemptions.
LEMMA SpentTotal == \A a : Spent(a) = Total(Costs, SpentBy(a))
<1> SUFFICES ASSUME NEW a PROVE Spent(a) = Total(Costs, SpentBy(a))
  OBVIOUS
<1> DEFINE P(g) == g = [T \in SUBSET SpentBy(a) |->
                           IF T = {} THEN 0 ELSE redemption[Some(T)].cost + g[T \ {Some(T)}]]
<1>1. Spent(a) = (CHOOSE g : P(g))[SpentBy(a)]
  BY DEF Spent, SpentBy, MapThenSumSet, MapThenFoldSet, Some
<1>2. \A T \in SUBSET SpentBy(a) : T # {} => Costs[Some(T)] = redemption[Some(T)].cost
  BY DEF Some, Costs, SpentBy
<1>3. \A g : P(g) <=> Sums(g, Costs, SpentBy(a))
  BY <1>2 DEF Sums
<1>4. (CHOOSE g : P(g)) = CHOOSE g : Sums(g, Costs, SpentBy(a))
  <2> HIDE DEF Sums, P
  <2> QED BY <1>3
<1> QED BY <1>1, <1>4, TotalChosen

Accounted(a) ==
    /\ balance[a].reserved = Total(Costs, HeldBy(a)) + Amount(Grants(a), "reserved")
    /\ balance[a].available + Total(Costs, HeldBy(a)) + Total(Costs, SpentBy(a))
          = Amount(Grants(a), "available")

AccountSumsAreTotals == PointsAccountedFor <=> \A a \in Account : Accounted(a)

\* The equations of PointsAccountedFor, as equations of totals.
LEMMA AccountSums == AccountSumsAreTotals
  BY HeldTotal, SpentTotal, AvailableSum, ReservedSum
  DEF AccountSumsAreTotals, PointsAccountedFor, Accounted, Granted, Grants, GrantTypes
(***************************************************************************)
(* What the sums of an account need: finitely many entries and redemptions.*)
(***************************************************************************)
Known == {r \in Redemption : redemption[r].status # "none"}

Moderate == IsFiniteSet(Known) /\ redemption \in [Redemption -> Rows]

\* The sets of an account are finite, and their costs integers.
LEMMA SetsSummable ==
    ASSUME Moderate, NEW a
    PROVE  /\ Summable(Costs, HeldBy(a)) /\ Summable(Costs, SpentBy(a))
           /\ Total(Costs, HeldBy(a)) \in Int /\ Total(Costs, SpentBy(a)) \in Int
<1>1. HeldBy(a) \in SUBSET Known /\ SpentBy(a) \in SUBSET Known
  BY DEF HeldBy, SpentBy, Known, Open
<1>2. IsFiniteSet(HeldBy(a)) /\ IsFiniteSet(SpentBy(a))
  BY <1>1, FS_Subset DEF Moderate
<1>3. \A r \in Redemption : Costs[r] \in Int
  BY DEF Costs, Moderate, Rows
<1>4. Summable(Costs, HeldBy(a)) /\ Summable(Costs, SpentBy(a))
  BY <1>2, <1>3 DEF Summable, HeldBy, SpentBy
<1> QED BY <1>4, TotalWithout

\* A step that changes the row of one redemption, r.
Moves(r) ==
    /\ redemption' \in [Redemption -> Rows]
    /\ \A q \in Redemption \ {r} : /\ redemption'[q].status = redemption[q].status
                                  /\ redemption'[q].cost = redemption[q].cost
                                  /\ redemption'[q].account = redemption[q].account

HeldAs(row, a) == IF row.account = a /\ row.status \in Open THEN row.cost ELSE 0

SpentAs(row, a) == IF row.account = a /\ row.status = "captured" THEN row.cost ELSE 0

\* A change of one row adds at most one redemption.
LEMMA MoveKeepsModerate ==
    ASSUME Moderate, NEW r \in Redemption, Moves(r)
    PROVE  Moderate'
<1>1. IsFiniteSet(Known \cup {r})
  BY FS_AddElement DEF Moderate
<1>2. Known' \in SUBSET (Known \cup {r})
  BY DEF Known, Moves
<1>3. IsFiniteSet(Known')
  BY <1>1, <1>2, FS_Subset
<1> QED BY <1>3 DEF Moderate, Moves

\* The sums of an account after one row changed.
LEMMA MoveMovesSums ==
    ASSUME Moderate, NEW r \in Redemption, Moves(r), NEW a
    PROVE  /\ Total(Costs, HeldBy(a))' = Total(Costs, HeldBy(a))
                 - HeldAs(redemption[r], a) + HeldAs(redemption'[r], a)
           /\ Total(Costs, SpentBy(a))' = Total(Costs, SpentBy(a))
                 - SpentAs(redemption[r], a) + SpentAs(redemption'[r], a)
<1>1. Moderate'
  BY MoveKeepsModerate
<1>2. /\ Summable(Costs, HeldBy(a)) /\ Summable(Costs, SpentBy(a))
  BY SetsSummable
<1>3. (Moderate => Summable(Costs, HeldBy(a)) /\ Summable(Costs, SpentBy(a)))'
  BY SetsSummable, PTL
<1>4. Summable(Costs', HeldBy(a)') /\ Summable(Costs', SpentBy(a)')
  BY <1>1, <1>3 DEF Summable
<1>5. HeldBy(a) \ {r} = HeldBy(a)' \ {r} /\ SpentBy(a) \ {r} = SpentBy(a)' \ {r}
  BY DEF HeldBy, SpentBy, Moves
<1>6. \A q \in Redemption \ {r} : Costs'[q] = Costs[q]
  BY DEF Costs, Moves
<1>7. (\A q \in HeldBy(a) \ {r} : Costs'[q] = Costs[q])
      /\ (\A q \in SpentBy(a) \ {r} : Costs'[q] = Costs[q])
  BY <1>6 DEF HeldBy, SpentBy
<1>8. Total(Costs', HeldBy(a)') = Total(Costs, HeldBy(a))
           - (IF r \in HeldBy(a) THEN Costs[r] ELSE 0) + (IF r \in HeldBy(a)' THEN Costs'[r] ELSE 0)
  BY <1>2, <1>4, <1>5, <1>7, TotalMove
<1>9. Total(Costs', SpentBy(a)') = Total(Costs, SpentBy(a))
           - (IF r \in SpentBy(a) THEN Costs[r] ELSE 0) + (IF r \in SpentBy(a)' THEN Costs'[r] ELSE 0)
  BY <1>2, <1>4, <1>5, <1>7, TotalMove
<1>10. /\ (IF r \in HeldBy(a) THEN Costs[r] ELSE 0) = HeldAs(redemption[r], a)
       /\ (IF r \in SpentBy(a) THEN Costs[r] ELSE 0) = SpentAs(redemption[r], a)
  BY DEF HeldBy, SpentBy, Costs, HeldAs, SpentAs
<1>11. /\ (IF r \in HeldBy(a)' THEN Costs'[r] ELSE 0) = HeldAs(redemption'[r], a)
       /\ (IF r \in SpentBy(a)' THEN Costs'[r] ELSE 0) = SpentAs(redemption'[r], a)
  BY DEF HeldBy, SpentBy, Costs, HeldAs, SpentAs
<1>12. Total(Costs, HeldBy(a))' = Total(Costs', HeldBy(a)')
       /\ Total(Costs, SpentBy(a))' = Total(Costs', SpentBy(a)')
  BY DEF Total
<1> QED BY <1>8, <1>9, <1>10, <1>11, <1>12

\* The grants of an account when an entry is posted.
LEMMA PostMovesGrants ==
    ASSUME LedgerSound, NEW e, e.delta \in Buckets, PostLedgerEntry(e), NEW a,
           NEW bucket \in BucketNames
    PROVE  /\ Amount(Grants(a)', bucket) = Amount(Grants(a), bucket)
                 + (IF e.account = a /\ e.type \in GrantTypes THEN e.delta[bucket] ELSE 0)
           /\ Amount(Grants(a), bucket) \in Int
<1>1. e \notin entries /\ entries' = entries \cup {e}
  BY DEF PostLedgerEntry, CanPost, UniqueSource
<1>2. IsFiniteSet(Grants(a)) /\ \A f \in Grants(a) : f.delta \in Buckets
  BY FS_Subset DEF Grants, LedgerSound
<1>3. Amount(Grants(a), bucket) \in Int
  BY <1>2, AmountInt
<1>4. CASE e.account = a /\ e.type \in GrantTypes
  <2>1. Grants(a)' = Grants(a) \cup {e} /\ e \notin Grants(a)
    BY <1>1, <1>4 DEF Grants
  <2> QED BY <1>2, <1>3, <1>4, <2>1, AmountAdd
<1>5. CASE ~(e.account = a /\ e.type \in GrantTypes)
  <2>1. Grants(a)' = Grants(a)
    BY <1>1, <1>5 DEF Grants
  <2> QED BY <1>3, <1>5, <2>1
<1> QED BY <1>4, <1>5
(***************************************************************************)
(* Points are accounted for when the statuses agree with the ledger, so    *)
(* that a captured redemption is never released as well.                   *)
(***************************************************************************)
AccountInv ==
    OwnedInv /\ LedgerSound /\ IsFiniteSet(Known) /\ \A a \in Account : Accounted(a)

\* A post that comes with a change of one row, when the amounts agree.
LEMMA PostAndMove ==
    ASSUME LedgerSound, Moderate, \A a \in Account : Accounted(a),
           NEW e, e.account \in Account, e.delta \in Buckets, PostLedgerEntry(e),
           e.type \notin GrantTypes,
           NEW r \in Redemption, Moves(r),
           \A a \in Account :
              LET held == HeldAs(redemption'[r], a) - HeldAs(redemption[r], a)
                  spent == SpentAs(redemption'[r], a) - SpentAs(redemption[r], a)
              IN IF a = e.account
                 THEN e.delta.reserved = held /\ e.delta.available + held + spent = 0
                 ELSE held = 0 /\ spent = 0
    PROVE  \A a \in Account : Accounted(a)'
<1> SUFFICES ASSUME NEW a \in Account PROVE Accounted(a)'
  OBVIOUS
<1> DEFINE H == Total(Costs, HeldBy(a))
           S == Total(Costs, SpentBy(a))
           GR == Amount(Grants(a), "reserved")
           GA == Amount(Grants(a), "available")
           h0 == HeldAs(redemption[r], a)
           h1 == HeldAs(redemption'[r], a)
           s0 == SpentAs(redemption[r], a)
           s1 == SpentAs(redemption'[r], a)
<1>1. /\ H' = H - h0 + h1
      /\ S' = S - s0 + s1
      /\ H \in Int /\ S \in Int
  BY MoveMovesSums, SetsSummable
<1>2. h0 \in Int /\ h1 \in Int /\ s0 \in Int /\ s1 \in Int
  BY DEF HeldAs, SpentAs, Moderate, Moves, Rows
<1>3. GR' = GR /\ GA' = GA /\ GR \in Int /\ GA \in Int
  <2>1. \A bucket \in BucketNames : /\ Amount(Grants(a)', bucket) = Amount(Grants(a), bucket) + 0
                                    /\ Amount(Grants(a), bucket) \in Int
    BY PostMovesGrants
  <2> QED BY <2>1 DEF BucketNames, Amount
<1>4. balance[a].reserved = H + GR /\ balance[a].available + H + S = GA
  BY DEF Accounted
<1>5. balance[a].available \in Int /\ balance[a].reserved \in Int
      /\ e.delta.available \in Int /\ e.delta.reserved \in Int
  BY DEF LedgerSound, Balances, Buckets
<1>6. /\ balance'[a].available = balance[a].available + (IF a = e.account THEN e.delta.available ELSE 0)
      /\ balance'[a].reserved = balance[a].reserved + (IF a = e.account THEN e.delta.reserved ELSE 0)
  BY <1>5 DEF PostLedgerEntry, LedgerSound, Plus
<1>7. IF a = e.account
      THEN e.delta.reserved = h1 - h0 /\ e.delta.available + (h1 - h0) + (s1 - s0) = 0
      ELSE h1 - h0 = 0 /\ s1 - s0 = 0
  OBVIOUS
<1> HIDE DEF H, S, GR, GA, h0, h1, s0, s1
<1>8. balance'[a].reserved = H' + GR' /\ balance'[a].available + H' + S' = GA'
  BY <1>1, <1>2, <1>3, <1>4, <1>5, <1>6, <1>7
<1> QED BY <1>8 DEF Accounted, H, S, GR, GA

\* A grant, which leaves the redemptions alone.
LEMMA PostGrant ==
    ASSUME LedgerSound, Moderate, \A a \in Account : Accounted(a),
           NEW e, e.account \in Account, e.delta \in Buckets, PostLedgerEntry(e),
           e.type \in GrantTypes, UNCHANGED redemption
    PROVE  \A a \in Account : Accounted(a)'
<1> SUFFICES ASSUME NEW a \in Account PROVE Accounted(a)'
  OBVIOUS
<1> DEFINE H == Total(Costs, HeldBy(a))
           S == Total(Costs, SpentBy(a))
           GR == Amount(Grants(a), "reserved")
           GA == Amount(Grants(a), "available")
<1>1. H' = H /\ S' = S /\ H \in Int /\ S \in Int
  <2>1. HeldBy(a)' = HeldBy(a) /\ SpentBy(a)' = SpentBy(a) /\ Costs' = Costs
    BY DEF HeldBy, SpentBy, Costs
  <2> QED BY <2>1, SetsSummable DEF Total
<1>3. /\ GR' = GR + (IF a = e.account THEN e.delta.reserved ELSE 0)
      /\ GA' = GA + (IF a = e.account THEN e.delta.available ELSE 0)
      /\ GR \in Int /\ GA \in Int
  <2>1. \A bucket \in BucketNames :
            /\ Amount(Grants(a)', bucket)
                  = Amount(Grants(a), bucket) + (IF a = e.account THEN e.delta[bucket] ELSE 0)
            /\ Amount(Grants(a), bucket) \in Int
    BY PostMovesGrants
  <2> QED BY <2>1 DEF BucketNames, Amount
<1>4. balance[a].reserved = H + GR /\ balance[a].available + H + S = GA
  BY DEF Accounted
<1>5. balance[a].available \in Int /\ balance[a].reserved \in Int
      /\ e.delta.available \in Int /\ e.delta.reserved \in Int
  BY DEF LedgerSound, Balances, Buckets
<1>6. /\ balance'[a].available = balance[a].available + (IF a = e.account THEN e.delta.available ELSE 0)
      /\ balance'[a].reserved = balance[a].reserved + (IF a = e.account THEN e.delta.reserved ELSE 0)
  BY <1>5 DEF PostLedgerEntry, LedgerSound, Plus
<1> HIDE DEF H, S, GR, GA
<1>8. balance'[a].reserved = H' + GR' /\ balance'[a].available + H' + S' = GA'
  BY <1>1, <1>3, <1>4, <1>5, <1>6
<1> QED BY <1>8 DEF Accounted, H, S, GR, GA

\* A row changes in what the sums do not look at.
LEMMA MoveInPlace ==
    ASSUME Moderate, \A a \in Account : Accounted(a), UNCHANGED ledgerVars,
           NEW r \in Redemption, Moves(r),
           \A a \in Account : /\ HeldAs(redemption'[r], a) = HeldAs(redemption[r], a)
                              /\ SpentAs(redemption'[r], a) = SpentAs(redemption[r], a)
    PROVE  \A a \in Account : Accounted(a)'
<1> SUFFICES ASSUME NEW a \in Account PROVE Accounted(a)'
  OBVIOUS
<1> DEFINE H == Total(Costs, HeldBy(a))
           S == Total(Costs, SpentBy(a))
<1>1. HeldAs(redemption[r], a) \in Int /\ SpentAs(redemption[r], a) \in Int
  BY DEF HeldAs, SpentAs, Moderate, Moves, Rows
<1>2. H' = H /\ S' = S
  <2>1. /\ H' = H - HeldAs(redemption[r], a) + HeldAs(redemption'[r], a)
        /\ S' = S - SpentAs(redemption[r], a) + SpentAs(redemption'[r], a)
        /\ H \in Int /\ S \in Int
    BY MoveMovesSums, SetsSummable
  <2> HIDE DEF H, S
  <2> QED BY <1>1, <2>1
<1>3. Amount(Grants(a), "reserved")' = Amount(Grants(a), "reserved")
      /\ Amount(Grants(a), "available")' = Amount(Grants(a), "available")
      /\ balance' = balance
  BY DEF ledgerVars, Grants, Amount
<1> QED BY <1>2, <1>3 DEF Accounted

\* What a handler that settles a redemption does to its row.
LEMMA SettleMoves ==
    ASSUME OwnedInv, NEW t \in Terminal, request[t].op \in SettleOps,
           NEW s \in Open \cup Settled, SetStatus(request[t].redemption, s)
    PROVE  LET r == request[t].redemption
           IN /\ r \in Redemption /\ Moves(r)
              /\ redemption[r].status \in Open /\ redemption[r].account \in Account
              /\ redemption[r].cost \in Nat
              /\ redemption'[r].status = s
              /\ redemption'[r].account = redemption[r].account
              /\ redemption'[r].cost = redemption[r].cost
<1> DEFINE r == request[t].redemption
<1>1. r \in Redemption
  BY RequestShape DEF OwnedInv, Inv, TypeOK
<1>2. redemption \in [Redemption -> Rows] /\ events \in [Redemption -> SUBSET (Open \cup Settled)]
  BY DEF OwnedInv, Inv, TypeOK, Rows
<1>3. redemption[r].status \in Open /\ redemption[r].status # "none"
  BY DEF OwnedInv, RequestsOpen, Open
<1>4. redemption[r].account \in Account /\ redemption[r].cost \in Nat
  BY <1>1, <1>2, <1>3 DEF OwnedInv, Inv, RowsReserved, Rows
<1> HIDE DEF r
<1>5. SetStatus(r, s)
  BY DEF r
<1>6. /\ redemption' \in [Redemption -> Rows]
      /\ \A q \in Redemption :
            /\ redemption'[q].status = IF q = r THEN s ELSE redemption[q].status
            /\ redemption'[q].cost = redemption[q].cost
            /\ redemption'[q].account = redemption[q].account
  BY <1>1, <1>2, <1>5, StatusIsSet
<1> QED BY <1>1, <1>3, <1>4, <1>6 DEF Moves, r

\* Every step changes balance, rows and entries by the same amounts.
LEMMA AccountNext == DisjointHandles /\ AccountInv /\ [Next]_vars => AccountInv'
<1> SUFFICES ASSUME DisjointHandles, AccountInv, [Next]_vars PROVE AccountInv'
  OBVIOUS
<1> SUFFICES IsFiniteSet(Known') /\ \A a \in Account : Accounted(a)'
  <2>1. UNCHANGED ledgerVars => LedgerSound'
    BY DEF ledgerVars, AccountInv, LedgerSound
  <2>2. ASSUME NEW e \in EntryRows, PostLedgerEntry(e) PROVE LedgerSound'
    BY <2>2, PostKeepsSound DEF EntryRows, AccountInv
  <2>3. LedgerSound'
    BY <2>1, <2>2, StepPosts DEF AccountInv, OwnedInv
  <2> QED BY <2>3, OwnedNext DEF AccountInv
<1>a. Moderate /\ LedgerSound /\ (\A a \in Account : Accounted(a)) /\ OwnedInv
  BY DEF AccountInv, Moderate, OwnedInv, Inv, TypeOK, Rows
<1>b. request \in [Terminal -> Requests]
  BY DEF AccountInv, OwnedInv, Inv, TypeOK
<1>c. ASSUME UNCHANGED <<ledgerVars, redemption>>
      PROVE  IsFiniteSet(Known') /\ \A a \in Account : Accounted(a)'
  <2>1. Known' = Known
    BY <1>c DEF Known
  <2>2. \A a : /\ HeldBy(a)' = HeldBy(a) /\ SpentBy(a)' = SpentBy(a) /\ Costs' = Costs
              /\ Grants(a)' = Grants(a) /\ balance' = balance
    BY <1>c DEF HeldBy, SpentBy, Costs, Grants, ledgerVars
  <2>3. \A a \in Account : Accounted(a)'
    BY <1>a, <2>2 DEF Accounted, Total, Amount
  <2> QED BY <2>1, <2>3 DEF AccountInv
<1>d. ASSUME UNCHANGED redemption, NEW e, e.account \in Account, e.delta \in Buckets,
             PostLedgerEntry(e), e.type \in GrantTypes
      PROVE  IsFiniteSet(Known') /\ \A a \in Account : Accounted(a)'
  <2>1. Known' = Known
    BY <1>d DEF Known
  <2>2. \A a \in Account : Accounted(a)'
    BY <1>a, <1>d, PostGrant
  <2> QED BY <2>1, <2>2 DEF AccountInv
<1>1. ASSUME NEW t \in Terminal, NEW r \in Redemption, FinishCreate(t, r)
      PROVE  IsFiniteSet(Known') /\ \A a \in Account : Accounted(a)'
  <2> DEFINE account == request[t].account
             cost == request[t].cost
             row == [status |-> "reserved", account |-> account, cost |-> cost, expired |-> FALSE]
             e == ReserveEntry(r, account, cost)
  <2>1. account \in Account /\ cost \in Nat
    BY <1>1, <1>b, RequestShape, PriceAssumption DEF FinishCreate
  <2>2. row \in Rows /\ redemption' = [redemption EXCEPT ![r] = row]
    BY <1>1, <2>1 DEF FinishCreate, Rows, Statuses, Open
  <2>3. row.status = "reserved" /\ row.account = account /\ row.cost = cost
    OBVIOUS
  <2>4. /\ e.account = account /\ e.type = "redemption_reserve" /\ e.delta \in Buckets
        /\ e.delta.available = -cost /\ e.delta.reserved = cost
        /\ PostLedgerEntry(e)
    BY <1>1, <2>1 DEF ReserveEntry, Entry, Buckets, FinishCreate
  <2> HIDE DEF row, e, cost, account
  <2>5. Moves(r) /\ redemption'[r] = row
    BY <1>a, <2>2 DEF Moves, Moderate
  <2>6. redemption[r].status = "none"
    BY <1>1 DEF FinishCreate, Absent
  <2>7. \A a \in Account :
            /\ HeldAs(redemption'[r], a) = IF a = account THEN cost ELSE 0
            /\ HeldAs(redemption[r], a) = 0
            /\ SpentAs(redemption'[r], a) = 0 /\ SpentAs(redemption[r], a) = 0
    BY <2>3, <2>5, <2>6 DEF HeldAs, SpentAs, Open
  <2>8. \A a \in Account :
            LET held == HeldAs(redemption'[r], a) - HeldAs(redemption[r], a)
                spent == SpentAs(redemption'[r], a) - SpentAs(redemption[r], a)
            IN IF a = e.account
               THEN e.delta.reserved = held /\ e.delta.available + held + spent = 0
               ELSE held = 0 /\ spent = 0
    BY <2>1, <2>4, <2>7
  <2>9. e.type \notin GrantTypes /\ e.account \in Account
    BY <2>1, <2>4 DEF GrantTypes
  <2>10. \A a \in Account : Accounted(a)'
    BY <1>a, <2>4, <2>5, <2>8, <2>9, PostAndMove
  <2> QED BY <1>a, <2>5, <2>10, MoveKeepsModerate DEF Moderate
<1>2. ASSUME NEW t \in Terminal, FinishValidate(t)
      PROVE  IsFiniteSet(Known') /\ \A a \in Account : Accounted(a)'
  <2> DEFINE r == request[t].redemption
  <2>1. /\ r \in Redemption /\ Moves(r) /\ redemption[r].status \in Open
        /\ redemption'[r].status = "validated"
        /\ redemption'[r].account = redemption[r].account /\ redemption'[r].cost = redemption[r].cost
    BY <1>2, <1>a, SettleMoves DEF FinishValidate, SettleOps, Open
  <2> HIDE DEF r
  <2>2. \A a \in Account : /\ HeldAs(redemption'[r], a) = HeldAs(redemption[r], a)
                           /\ SpentAs(redemption'[r], a) = SpentAs(redemption[r], a)
    BY <2>1 DEF HeldAs, SpentAs, Open
  <2>3. UNCHANGED ledgerVars
    BY <1>2 DEF FinishValidate, ledgerVars
  <2>4. \A a \in Account : Accounted(a)'
    BY <1>a, <2>1, <2>2, <2>3, MoveInPlace
  <2> QED BY <1>a, <2>1, <2>4, MoveKeepsModerate DEF Moderate
<1>3. ASSUME NEW t \in Terminal, FinishCapture(t)
      PROVE  IsFiniteSet(Known') /\ \A a \in Account : Accounted(a)'
  <2> DEFINE r == request[t].redemption
             e == CaptureEntry(r)
  <2>1. /\ r \in Redemption /\ Moves(r) /\ redemption[r].status \in Open
        /\ redemption'[r].status = "captured"
        /\ redemption'[r].account = redemption[r].account /\ redemption'[r].cost = redemption[r].cost
        /\ redemption[r].account \in Account /\ redemption[r].cost \in Nat
    BY <1>3, <1>a, SettleMoves DEF FinishCapture, SettleOps, Settled
  <2>2. /\ e.account = redemption[r].account /\ e.type = "redemption_capture"
        /\ e.delta \in Buckets
        /\ e.delta.available = 0 /\ e.delta.reserved = -redemption[r].cost
        /\ PostLedgerEntry(e)
    BY <1>3, <2>1 DEF CaptureEntry, Entry, Buckets, FinishCapture
  <2> HIDE DEF r, e
  <2>3. \A a \in Account :
            LET cost == IF a = redemption[r].account THEN redemption[r].cost ELSE 0
            IN /\ HeldAs(redemption[r], a) = cost /\ HeldAs(redemption'[r], a) = 0
               /\ SpentAs(redemption[r], a) = 0 /\ SpentAs(redemption'[r], a) = cost
    BY <2>1 DEF HeldAs, SpentAs, Open
  <2>4. \A a \in Account :
            LET held == HeldAs(redemption'[r], a) - HeldAs(redemption[r], a)
                spent == SpentAs(redemption'[r], a) - SpentAs(redemption[r], a)
            IN IF a = e.account
               THEN e.delta.reserved = held /\ e.delta.available + held + spent = 0
               ELSE held = 0 /\ spent = 0
    BY <2>1, <2>2, <2>3
  <2>5. e.type \notin GrantTypes /\ e.account \in Account
    BY <2>1, <2>2 DEF GrantTypes
  <2>6. \A a \in Account : Accounted(a)'
    BY <1>a, <2>1, <2>2, <2>4, <2>5, PostAndMove
  <2> QED BY <1>a, <2>1, <2>6, MoveKeepsModerate DEF Moderate
<1>4. ASSUME NEW t \in Terminal, FinishRelease(t)
      PROVE  IsFiniteSet(Known') /\ \A a \in Account : Accounted(a)'
  <2> DEFINE r == request[t].redemption
             e == ReleaseEntry(r)
  <2>1. /\ r \in Redemption /\ Moves(r) /\ redemption[r].status \in Open
        /\ redemption'[r].status = "released"
        /\ redemption'[r].account = redemption[r].account /\ redemption'[r].cost = redemption[r].cost
        /\ redemption[r].account \in Account /\ redemption[r].cost \in Nat
    BY <1>4, <1>a, SettleMoves DEF FinishRelease, SettleOps, Settled
  <2>2. /\ e.account = redemption[r].account /\ e.type = "reservation_release"
        /\ e.delta \in Buckets
        /\ e.delta.available = redemption[r].cost /\ e.delta.reserved = -redemption[r].cost
        /\ PostLedgerEntry(e)
    BY <1>4, <2>1 DEF ReleaseEntry, Entry, Buckets, FinishRelease
  <2> HIDE DEF r, e
  <2>3. \A a \in Account :
            LET cost == IF a = redemption[r].account THEN redemption[r].cost ELSE 0
            IN /\ HeldAs(redemption[r], a) = cost /\ HeldAs(redemption'[r], a) = 0
               /\ SpentAs(redemption[r], a) = 0 /\ SpentAs(redemption'[r], a) = 0
    BY <2>1 DEF HeldAs, SpentAs, Open
  <2>4. \A a \in Account :
            LET held == HeldAs(redemption'[r], a) - HeldAs(redemption[r], a)
                spent == SpentAs(redemption'[r], a) - SpentAs(redemption[r], a)
            IN IF a = e.account
               THEN e.delta.reserved = held /\ e.delta.available + held + spent = 0
               ELSE held = 0 /\ spent = 0
    BY <2>1, <2>2, <2>3
  <2>5. e.type \notin GrantTypes /\ e.account \in Account
    BY <2>1, <2>2 DEF GrantTypes
  <2>6. \A a \in Account : Accounted(a)'
    BY <1>a, <2>1, <2>2, <2>4, <2>5, PostAndMove
  <2> QED BY <1>a, <2>1, <2>6, MoveKeepsModerate DEF Moderate
<1>5. ASSUME NEW a \in Account, NEW s \in AdjustmentSource, NEW d \in AdjustmentDelta,
             CreateAdjustment(a, s, d)
      PROVE  IsFiniteSet(Known') /\ \A b \in Account : Accounted(b)'
  <2> DEFINE e == Entry(a, "adjustment", s, d)
  <2>1. e.account \in Account /\ e.delta \in Buckets /\ e.type \in GrantTypes
    BY DeltaAssumption DEF Entry, GrantTypes
  <2> QED BY <1>5, <1>d, <2>1 DEF CreateAdjustment
<1>6. ASSUME NEW a \in Account, NEW type \in {"earn", "refund"}, NEW c \in RewardSource,
             NEW points \in RewardPoints, PostReward(a, type, c, points)
      PROVE  IsFiniteSet(Known') /\ \A b \in Account : Accounted(b)'
  <2> DEFINE e == Entry(a, type, c, AvailableDelta(points))
  <2>1. e.account \in Account /\ e.delta \in Buckets /\ e.type \in GrantTypes
    BY DeltaAssumption DEF Entry, GrantTypes, AvailableDelta, Buckets
  <2> QED BY <1>6, <1>d, <2>1 DEF PostReward
<1>7. ASSUME NEW r \in Redemption, PassExpiry(r)
      PROVE  IsFiniteSet(Known') /\ \A a \in Account : Accounted(a)'
  <2> DEFINE row == [redemption[r] EXCEPT !.expired = TRUE]
  <2>1. /\ row \in Rows /\ row.status = redemption[r].status
        /\ row.account = redemption[r].account /\ row.cost = redemption[r].cost
    BY <1>a DEF Rows, Moderate
  <2>2. redemption' = [redemption EXCEPT ![r] = row]
    BY <1>7 DEF PassExpiry
  <2> HIDE DEF row
  <2>3. Moves(r) /\ redemption'[r] = row
    BY <1>a, <2>1, <2>2 DEF Moves, Moderate
  <2>4. \A a \in Account : /\ HeldAs(redemption'[r], a) = HeldAs(redemption[r], a)
                           /\ SpentAs(redemption'[r], a) = SpentAs(redemption[r], a)
    BY <2>1, <2>3 DEF HeldAs, SpentAs
  <2>5. UNCHANGED ledgerVars
    BY <1>7 DEF PassExpiry, ledgerVars
  <2>6. \A a \in Account : Accounted(a)'
    BY <1>a, <2>3, <2>4, <2>5, MoveInPlace
  <2> QED BY <1>a, <2>3, <2>6, MoveKeepsModerate DEF Moderate
<1>8. CASE UNCHANGED vars
  BY <1>8, <1>c DEF vars, ledgerVars
<1>9. ASSUME NEW t \in Terminal, NEW i \in Item, NEW a \in Account, BeginCreate(t, i, a)
      PROVE  IsFiniteSet(Known') /\ \A b \in Account : Accounted(b)'
  BY <1>9, <1>c DEF BeginCreate, ledgerVars
<1>10. ASSUME NEW t \in Terminal, NEW op \in SettleOps, NEW r \in Redemption,
             BeginSettle(t, op, r)
      PROVE  IsFiniteSet(Known') /\ \A b \in Account : Accounted(b)'
  BY <1>10, <1>c DEF BeginSettle, ledgerVars
<1>11. ASSUME NEW t \in Terminal, Abandon(t)
      PROVE  IsFiniteSet(Known') /\ \A b \in Account : Accounted(b)'
  BY <1>11, <1>c DEF Abandon, ledgerVars
<1>12. ASSUME NEW i \in Item, NEW item \in [status : {"active", "inactive"}, cost : Price],
             UpdateCatalogItem(i, item)
      PROVE  IsFiniteSet(Known') /\ \A b \in Account : Accounted(b)'
  BY <1>12, <1>c DEF UpdateCatalogItem, ledgerVars
<1> QED
  BY <1>1, <1>2, <1>3, <1>4, <1>5, <1>6, <1>7, <1>8, <1>9, <1>10, <1>11, <1>12
  DEF Next, TerminalStep

\* At the start there are no points, rows or entries.
LEMMA AccountInit == Init => AccountInv
<1> SUFFICES ASSUME Init PROVE IsFiniteSet(Known) /\ \A a \in Account : Accounted(a)
  BY OwnedInit, LedgerSoundInit DEF Init, AccountInv
<1>1. Known = {} /\ IsFiniteSet({})
  BY FS_EmptySet DEF Known, Init, Absent
<1>2. \A a : HeldBy(a) = {} /\ SpentBy(a) = {} /\ Grants(a) = {}
  BY DEF HeldBy, SpentBy, Grants, Init, LedgerInit, Absent, Open
<1>3. \A a : /\ Total(Costs, HeldBy(a)) = 0 /\ Total(Costs, SpentBy(a)) = 0
           /\ \A bucket : Amount(Grants(a), bucket) = 0
  BY <1>2, TotalEmpty DEF Amount
<1>4. \A a \in Account : Accounted(a)
  BY <1>3 DEF Accounted, Init, LedgerInit, Zero
<1> QED BY <1>1, <1>4

\* When no redemption is worked on by two terminals, every point of an account is
\* available, held by an open redemption or spent by a captured one, and was
\* granted by a reward or an adjustment: none is lost, and none is held twice.
THEOREM PointsAlwaysAccountedFor == DisjointHandles => (Spec => []PointsAccountedFor)
<1> SUFFICES ASSUME DisjointHandles PROVE Spec => []PointsAccountedFor
  OBVIOUS
<1>1. AccountInv => PointsAccountedFor
  BY AccountSums DEF AccountInv, AccountSumsAreTotals
<1>2. AccountInv /\ [Next]_vars => AccountInv'
  BY AccountNext
<1> QED BY <1>1, <1>2, AccountInit, PTL DEF Spec

-----------------------------------------------------------------------------
(***************************************************************************)
(* Conservation, whichever terminals race: a post moves points between the *)
(* buckets, grants them, or is the capture of a redemption at its cost.    *)
(***************************************************************************)
TakenBy(a) ==
    {r \in Redemption : redemption[r].account = a /\ HasEntry("redemption_capture", r)}

\* Taken is the total of the costs of the redemptions with a capture entry.
LEMMA TakenTotal == \A a : Taken(a) = Total(Costs, TakenBy(a))
<1> SUFFICES ASSUME NEW a PROVE Taken(a) = Total(Costs, TakenBy(a))
  OBVIOUS
<1> DEFINE P(g) == g = [T \in SUBSET TakenBy(a) |->
                           IF T = {} THEN 0 ELSE redemption[Some(T)].cost + g[T \ {Some(T)}]]
<1>1. Taken(a) = (CHOOSE g : P(g))[TakenBy(a)]
  BY DEF Taken, TakenBy, MapThenSumSet, MapThenFoldSet, Some
<1>2. \A T \in SUBSET TakenBy(a) : T # {} => Costs[Some(T)] = redemption[Some(T)].cost
  BY DEF Some, Costs, TakenBy
<1>3. \A g : P(g) <=> Sums(g, Costs, TakenBy(a))
  BY <1>2 DEF Sums
<1>4. (CHOOSE g : P(g)) = CHOOSE g : Sums(g, Costs, TakenBy(a))
  <2> HIDE DEF Sums, P
  <2> QED BY <1>3
<1> QED BY <1>1, <1>4, TotalChosen

Conserved(a) ==
    balance[a].available + balance[a].reserved + Total(Costs, TakenBy(a))
        = Amount(Grants(a), "available") + Amount(Grants(a), "reserved")

ConservationIsOfTotals == PointsConserved <=> \A a \in Account : Conserved(a)

\* The equation of PointsConserved, as an equation of totals.
LEMMA ConservationSums == ConservationIsOfTotals
  BY TakenTotal, AvailableSum, ReservedSum
  DEF ConservationIsOfTotals, PointsConserved, Conserved, Granted, Grants, GrantTypes

(***************************************************************************)
(* What the equation rests on: a redemption with a capture entry exists,   *)
(* and so keeps its account and its cost.                                  *)
(***************************************************************************)
CapturesKnown == \A r \in Redemption : HasEntry("redemption_capture", r) => r \in Known

ConservedInv ==
    Inv /\ LedgerSound /\ CapturesKnown /\ IsFiniteSet(Known) /\ \A a \in Account : Conserved(a)

\* An entry that leaves the sum of the buckets to the grants and the captures.
Balanced(e) ==
    \/ e.type \in GrantTypes
    \/ /\ e.type \in {"redemption_reserve", "reservation_release"}
       /\ e.delta.available + e.delta.reserved = 0
    \/ /\ e.type = "redemption_capture" /\ e.source \in Known
       /\ e.account = redemption[e.source].account
       /\ e.delta.available = 0 /\ e.delta.reserved = -redemption[e.source].cost

KnownStay ==
    \A r \in Known : /\ redemption'[r].status # "none"
                     /\ redemption'[r].account = redemption[r].account
                     /\ redemption'[r].cost = redemption[r].cost

\* A step changes at most one row, and of a redemption that exists only the status.
LEMMA RowsStay ==
    ASSUME Inv, IsFiniteSet(Known), [Next]_vars
    PROVE  KnownStay /\ IsFiniteSet(Known')
<1>a. redemption \in [Redemption -> Rows] /\ Moderate
  BY DEF Inv, TypeOK, Rows, Moderate
<1>1. ASSUME UNCHANGED redemption PROVE KnownStay /\ Known' = Known
  BY <1>1 DEF KnownStay, Known
<1>2. ASSUME NEW t \in Terminal, NEW r \in Redemption, FinishCreate(t, r)
      PROVE  KnownStay /\ Moves(r)
  <2> DEFINE row == [status |-> "reserved", account |-> request[t].account,
                     cost |-> request[t].cost, expired |-> FALSE]
  <2>1. row \in Rows
    BY <1>2, RequestShape, PriceAssumption DEF FinishCreate, Inv, TypeOK, Rows, Statuses, Open
  <2>2. redemption' = [redemption EXCEPT ![r] = row] /\ r \notin Known
    BY <1>2 DEF FinishCreate, Known, Absent
  <2> HIDE DEF row
  <2> QED BY <1>a, <2>1, <2>2 DEF KnownStay, Known, Moves
<1>3. ASSUME NEW t \in Terminal, FinishValidate(t) \/ FinishCapture(t) \/ FinishRelease(t)
      PROVE  \E r \in Redemption : KnownStay /\ Moves(r)
  <2> DEFINE r == request[t].redemption
  <2>1. request[t].op \in SettleOps /\ r \in Redemption
    BY <1>3, RequestShape
    DEF FinishValidate, FinishCapture, FinishRelease, SettleOps, Inv, TypeOK
  <2>2. PICK s \in Open \cup Settled : SetStatus(r, s)
    BY <1>3 DEF FinishValidate, FinishCapture, FinishRelease, Open, Settled
  <2>3. s # "none"
    BY DEF Open, Settled
  <2> HIDE DEF r
  <2>4. /\ redemption' \in [Redemption -> Rows]
        /\ \A q \in Redemption :
              /\ redemption'[q].status = IF q = r THEN s ELSE redemption[q].status
              /\ redemption'[q].cost = redemption[q].cost
              /\ redemption'[q].account = redemption[q].account
    BY <1>a, <2>1, <2>2, StatusIsSet DEF Inv, TypeOK
  <2> QED BY <2>1, <2>3, <2>4 DEF KnownStay, Known, Moves
<1>4. ASSUME NEW r \in Redemption, PassExpiry(r) PROVE KnownStay /\ Moves(r)
  <2> DEFINE row == [redemption[r] EXCEPT !.expired = TRUE]
  <2>1. /\ row \in Rows /\ row.status = redemption[r].status
        /\ row.cost = redemption[r].cost /\ row.account = redemption[r].account
    BY <1>a DEF Rows
  <2>2. redemption' = [redemption EXCEPT ![r] = row]
    BY <1>4 DEF PassExpiry
  <2> HIDE DEF row
  <2> QED BY <1>a, <2>1, <2>2 DEF KnownStay, Known, Moves
<1>5. ASSUME NEW r \in Redemption, Moves(r) PROVE IsFiniteSet(Known')
  BY <1>5, <1>a, MoveKeepsModerate DEF Moderate
<1> QED
  BY <1>1, <1>2, <1>3, <1>4, <1>5
  DEF Next, TerminalStep, BeginCreate, BeginSettle, Abandon, UpdateCatalogItem,
      CreateAdjustment, PostReward, vars

\* Whatever a step posts is balanced.
LEMMA StepBalanced ==
    ASSUME Inv, [Next]_vars
    PROVE  UNCHANGED ledgerVars \/ \E e \in EntryRows : PostLedgerEntry(e) /\ Balanced(e)
<1> DEFINE Posts == \E e \in EntryRows : PostLedgerEntry(e) /\ Balanced(e)
<1>1. ASSUME NEW t \in Terminal, NEW r \in Redemption, FinishCreate(t, r) PROVE Posts
  <2> DEFINE e == ReserveEntry(r, request[t].account, request[t].cost)
  <2>1. request[t].account \in Account /\ request[t].cost \in Nat
    BY <1>1, RequestShape, PriceAssumption DEF FinishCreate, Inv, TypeOK
  <2>2. e \in EntryRows /\ Balanced(e)
    BY <2>1 DEF ReserveEntry, Entry, EntryRows, Sources, EntryTypes, Buckets, Balanced
  <2> QED BY <1>1, <2>2 DEF FinishCreate
<1>2. ASSUME NEW t \in Terminal, FinishCapture(t) \/ FinishRelease(t) PROVE Posts
  <2> DEFINE r == request[t].redemption
  <2>1. request[t].op \in SettleOps /\ r \in Redemption
    BY <1>2, RequestShape DEF FinishCapture, FinishRelease, SettleOps, Inv, TypeOK
  <2>2. redemption[r].account \in Account /\ redemption[r].cost \in Nat /\ r \in Known
    BY <2>1 DEF Inv, TypeOK, RowsReserved, RequestsKnown, Known
  <2>3. CaptureEntry(r) \in EntryRows /\ ReleaseEntry(r) \in EntryRows
    BY <2>1, <2>2 DEF CaptureEntry, ReleaseEntry, Entry, EntryRows, Sources, EntryTypes, Buckets
  <2>4. Balanced(CaptureEntry(r)) /\ Balanced(ReleaseEntry(r))
    BY <2>2 DEF CaptureEntry, ReleaseEntry, Entry, Balanced
  <2> QED BY <1>2, <2>3, <2>4 DEF FinishCapture, FinishRelease
<1>3. ASSUME NEW a \in Account, NEW s \in AdjustmentSource, NEW d \in AdjustmentDelta,
             CreateAdjustment(a, s, d)
      PROVE  Posts
  BY <1>3, DeltaAssumption
  DEF CreateAdjustment, Entry, EntryRows, Sources, EntryTypes, Balanced, GrantTypes
<1>4. ASSUME NEW a \in Account, NEW type \in {"earn", "refund"}, NEW c \in RewardSource,
             NEW points \in RewardPoints, PostReward(a, type, c, points)
      PROVE  Posts
  BY <1>4, DeltaAssumption
  DEF PostReward, Entry, EntryRows, Sources, EntryTypes, AvailableDelta, Buckets, Balanced,
      GrantTypes
<1> QED
  BY <1>1, <1>2, <1>3, <1>4
  DEF Next, TerminalStep, BeginCreate, BeginSettle, FinishValidate, Abandon,
      UpdateCatalogItem, PassExpiry, vars, ledgerVars

\* What the captures took of an account is a sum of integers.
LEMMA TakenSummable ==
    ASSUME Inv, CapturesKnown, IsFiniteSet(Known), NEW a
    PROVE  Summable(Costs, TakenBy(a)) /\ Total(Costs, TakenBy(a)) \in Int
<1>1. TakenBy(a) \in SUBSET Known
  BY DEF TakenBy, CapturesKnown
<1>2. IsFiniteSet(TakenBy(a))
  BY <1>1, FS_Subset
<1>3. \A r \in TakenBy(a) : Costs[r] \in Int
  BY DEF TakenBy, Costs, Inv, TypeOK
<1>4. Summable(Costs, TakenBy(a))
  BY <1>2, <1>3 DEF Summable
<1> QED BY <1>4, TotalWithout

\* A balanced post keeps the equation of every account.
LEMMA PostConserves ==
    ASSUME ConservedInv, Inv', KnownStay, IsFiniteSet(Known'),
           NEW e \in EntryRows, PostLedgerEntry(e), Balanced(e)
    PROVE  CapturesKnown' /\ \A a \in Account : Conserved(a)'
<1>1. /\ e \notin entries /\ entries' = entries \cup {e}
      /\ balance' = [balance EXCEPT ![e.account] = Plus(balance[e.account], e.delta)]
      /\ e.account \in Account /\ e.delta \in Buckets
  BY PostKeepsSound DEF ConservedInv, EntryRows
<1>2. \A r : HasEntry("redemption_capture", r)' <=>
          HasEntry("redemption_capture", r) \/ (e.type = "redemption_capture" /\ e.source = r)
  BY <1>1 DEF HasEntry
<1>3. e.type = "redemption_capture" => e.source \in Known
  BY DEF Balanced, GrantTypes
<1>4. CapturesKnown'
  BY <1>2, <1>3 DEF ConservedInv, CapturesKnown, KnownStay, Known
<1>5. ASSUME NEW a \in Account PROVE Conserved(a)'
  <2> DEFINE T == Total(Costs, TakenBy(a))
             GR == Amount(Grants(a), "reserved")
             GA == Amount(Grants(a), "available")
             taken == IF e.type = "redemption_capture" /\ e.account = a
                      THEN -e.delta.reserved ELSE 0
  <2>1. Summable(Costs, TakenBy(a)) /\ T \in Int
    BY TakenSummable DEF ConservedInv
  <2>2. Summable(Costs', TakenBy(a)')
    <3>1. (Inv /\ CapturesKnown /\ IsFiniteSet(Known) => Summable(Costs, TakenBy(a)))'
      BY TakenSummable, PTL
    <3> QED BY <1>4, <3>1 DEF Summable
  <2>3. \A r \in TakenBy(a) : r \in Known /\ Costs'[r] = Costs[r]
    BY DEF TakenBy, Costs, ConservedInv, CapturesKnown, KnownStay, Known
  <2>4. T' = T + taken
    <3>1. CASE e.type = "redemption_capture" /\ e.account = a
      <4> DEFINE r == e.source
      <4>1. /\ r \in Redemption /\ r \in Known /\ redemption[r].account = a
            /\ -e.delta.reserved = redemption[r].cost
        <5>1. /\ r \in Known /\ redemption[r].account = a
              /\ e.delta.reserved = -redemption[r].cost
          BY <3>1 DEF Balanced, GrantTypes
        <5>2. redemption[r].cost \in Nat /\ r \in Redemption
          BY <5>1 DEF ConservedInv, Inv, TypeOK, Known
        <5> QED BY <5>1, <5>2
      <4>2. r \notin TakenBy(a)
        BY <3>1 DEF TakenBy, HasEntry, PostLedgerEntry, CanPost, UniqueSource
      <4>3. TakenBy(a)' = TakenBy(a) \cup {r}
        <5>1. \A q \in Redemption : q \in TakenBy(a)' <=> q \in TakenBy(a) \/ q = r
          <6>1. ASSUME NEW q \in Redemption, HasEntry("redemption_capture", q) \/ q = r
                PROVE  redemption'[q].account = redemption[q].account
            BY <4>1, <6>1 DEF ConservedInv, CapturesKnown, KnownStay
          <6> QED BY <1>2, <3>1, <4>1, <6>1 DEF TakenBy
        <5> QED BY <4>1, <5>1 DEF TakenBy
      <4>4. Total(Costs', TakenBy(a)') = Costs'[r] + Total(Costs', TakenBy(a))
        BY <2>2, <4>2, <4>3, TotalAdd
      <4>5. Costs'[r] = redemption[r].cost
        BY <4>1 DEF Costs, KnownStay
      <4>6. Total(Costs', TakenBy(a)) = T
        BY <2>1, <2>3, TotalEqual
      <4>7. redemption[r].cost \in Int
        BY <4>1 DEF ConservedInv, Inv, TypeOK
      <4>8. T' = Total(Costs', TakenBy(a)')
        BY DEF Total
      <4>9. taken = redemption[r].cost
        BY <3>1, <4>1
      <4> HIDE DEF T, taken, r
      <4> QED BY <2>1, <4>4, <4>5, <4>6, <4>7, <4>8, <4>9
    <3>2. CASE ~(e.type = "redemption_capture" /\ e.account = a)
      <4>1. TakenBy(a)' = TakenBy(a)
        <5>1. ASSUME NEW r \in Redemption, HasEntry("redemption_capture", r)
              PROVE  redemption'[r].account = redemption[r].account
          BY <5>1 DEF ConservedInv, CapturesKnown, KnownStay
        <5>2. ASSUME NEW r \in Redemption, e.type = "redemption_capture", e.source = r
              PROVE  redemption'[r].account # a /\ redemption[r].account # a
          BY <3>2, <5>2 DEF Balanced, GrantTypes, KnownStay
        <5> QED BY <1>2, <5>1, <5>2 DEF TakenBy
      <4>2. Total(Costs', TakenBy(a)) = T
        BY <2>1, <2>3, TotalEqual
      <4>3. T' = Total(Costs', TakenBy(a)')
        BY DEF Total
      <4>4. taken = 0
        BY <3>2
      <4> HIDE DEF taken
      <4> QED BY <2>1, <4>1, <4>2, <4>3, <4>4
    <3> QED BY <3>1, <3>2
  <2>5. /\ GR' = GR + (IF e.account = a /\ e.type \in GrantTypes THEN e.delta.reserved ELSE 0)
        /\ GA' = GA + (IF e.account = a /\ e.type \in GrantTypes THEN e.delta.available ELSE 0)
        /\ GR \in Int /\ GA \in Int
    <3>1. \A bucket \in BucketNames :
              /\ Amount(Grants(a)', bucket) = Amount(Grants(a), bucket)
                    + (IF e.account = a /\ e.type \in GrantTypes THEN e.delta[bucket] ELSE 0)
              /\ Amount(Grants(a), bucket) \in Int
      BY <1>1, PostMovesGrants DEF ConservedInv
    <3> QED BY <3>1 DEF BucketNames, Amount
  <2>6. balance[a].available + balance[a].reserved + T = GA + GR
    BY DEF ConservedInv, Conserved
  <2>7. balance[a].available \in Int /\ balance[a].reserved \in Int
        /\ e.delta.available \in Int /\ e.delta.reserved \in Int
    BY <1>1 DEF ConservedInv, LedgerSound, Balances, Buckets
  <2>8. /\ balance'[a].available = balance[a].available
              + (IF a = e.account THEN e.delta.available ELSE 0)
        /\ balance'[a].reserved = balance[a].reserved
              + (IF a = e.account THEN e.delta.reserved ELSE 0)
    BY <1>1, <2>7 DEF ConservedInv, LedgerSound, Plus
  <2>9. e.account = a =>
            \/ e.type \in GrantTypes /\ taken = 0
            \/ e.type \notin GrantTypes /\ e.delta.available + e.delta.reserved + taken = 0
    BY <2>7 DEF Balanced, GrantTypes
  <2>10. taken \in Int /\ (e.account # a => taken = 0)
    BY <2>7
  <2> HIDE DEF T, GR, GA, taken
  <2>11. balance'[a].available + balance'[a].reserved + T' = GA' + GR'
    <3>1. CASE e.account # a
      BY <2>1, <2>4, <2>5, <2>6, <2>7, <2>8, <2>10, <3>1
    <3>2. CASE e.account = a /\ e.type \in GrantTypes
      BY <2>1, <2>4, <2>5, <2>6, <2>7, <2>8, <2>9, <3>2
    <3>3. CASE e.account = a /\ e.type \notin GrantTypes
      <4>1. GA' = GA /\ GR' = GR
        BY <2>5, <3>3
      <4>2. e.delta.available + e.delta.reserved + taken = 0
        BY <2>9, <3>3
      <4>3. /\ balance'[a].available = balance[a].available + e.delta.available
            /\ balance'[a].reserved = balance[a].reserved + e.delta.reserved
        BY <2>8, <3>3
      <4> QED BY <2>1, <2>4, <2>5, <2>6, <2>7, <2>10, <4>1, <4>2, <4>3
    <3> QED BY <3>1, <3>2, <3>3
  <2> QED BY <2>11 DEF Conserved, T, GR, GA
<1> QED BY <1>4, <1>5

\* Every step keeps the equation.
LEMMA ConservedNext == ConservedInv /\ [Next]_vars => ConservedInv'
<1> SUFFICES ASSUME ConservedInv, [Next]_vars PROVE ConservedInv'
  OBVIOUS
<1>1. Inv' /\ KnownStay /\ IsFiniteSet(Known')
  BY InvNext, RowsStay DEF ConservedInv
<1>2. ASSUME NEW e \in EntryRows, PostLedgerEntry(e), Balanced(e) PROVE ConservedInv'
  <2>1. LedgerSound'
    BY <1>2, PostKeepsSound DEF ConservedInv, EntryRows
  <2> QED BY <1>1, <1>2, <2>1, PostConserves DEF ConservedInv
<1>3. ASSUME UNCHANGED ledgerVars PROVE ConservedInv'
  <2>1. LedgerSound' /\ \A r : HasEntry("redemption_capture", r)' <=> HasEntry("redemption_capture", r)
    BY <1>3 DEF ledgerVars, ConservedInv, LedgerSound, HasEntry
  <2>2. CapturesKnown'
    BY <1>1, <2>1 DEF ConservedInv, CapturesKnown, KnownStay, Known
  <2>3. ASSUME NEW a \in Account PROVE Conserved(a)'
    <3>1. TakenBy(a)' = TakenBy(a)
      BY <1>1, <2>1 DEF TakenBy, ConservedInv, CapturesKnown, KnownStay
    <3>2. Summable(Costs, TakenBy(a))
      BY TakenSummable DEF ConservedInv
    <3>3. \A r \in TakenBy(a) : Costs'[r] = Costs[r]
      BY <1>1 DEF TakenBy, Costs, ConservedInv, CapturesKnown, KnownStay
    <3>4. Total(Costs', TakenBy(a)) = Total(Costs, TakenBy(a))
      BY <3>2, <3>3, TotalEqual
    <3>5. Total(Costs, TakenBy(a))' = Total(Costs', TakenBy(a)')
      BY DEF Total
    <3>6. Amount(Grants(a), "reserved")' = Amount(Grants(a), "reserved")
          /\ Amount(Grants(a), "available")' = Amount(Grants(a), "available")
          /\ balance' = balance
      BY <1>3 DEF ledgerVars, Grants, Amount
    <3> QED BY <3>1, <3>4, <3>5, <3>6 DEF ConservedInv, Conserved
  <2> QED BY <1>1, <2>1, <2>2, <2>3 DEF ConservedInv
<1> QED BY <1>2, <1>3, StepBalanced DEF ConservedInv

LEMMA ConservedInit == Init => ConservedInv
<1> SUFFICES ASSUME Init
             PROVE  CapturesKnown /\ IsFiniteSet(Known) /\ \A a \in Account : Conserved(a)
  BY InvInit, LedgerSoundInit DEF Init, ConservedInv
<1>1. Known = {} /\ IsFiniteSet({})
  BY FS_EmptySet DEF Known, Init, Absent
<1>2. CapturesKnown /\ \A a : TakenBy(a) = {} /\ Grants(a) = {}
  BY DEF CapturesKnown, HasEntry, TakenBy, Grants, Init, LedgerInit
<1>3. \A a : Total(Costs, TakenBy(a)) = 0 /\ \A bucket : Amount(Grants(a), bucket) = 0
  BY <1>2, TotalEmpty DEF Amount
<1>4. \A a \in Account : Conserved(a)
  BY <1>3 DEF Conserved, Init, LedgerInit, Zero
<1> QED BY <1>1, <1>2, <1>4

(***************************************************************************)
(* However many terminals race on a redemption, no point of an account     *)
(* appears or is lost: what was granted is available, reserved or was      *)
(* taken by a capture, one for each captured redemption and at its cost.   *)
(***************************************************************************)
THEOREM PointsAlwaysConserved == Spec => []PointsConserved
<1>1. ConservedInv => PointsConserved
  BY ConservationSums DEF ConservedInv, ConservationIsOfTotals
<1> QED BY <1>1, ConservedInit, ConservedNext, PTL DEF Spec

-----------------------------------------------------------------------------
(***************************************************************************)
(* Redemption implements Settlement, when no redemption is worked on by    *)
(* two terminals.                                                          *)
(***************************************************************************)
(***************************************************************************)
(* A post is a move of the abstract funds: it takes no more than is        *)
(* reserved, because ApplyLedgerDelta checks the bucket.                   *)
(***************************************************************************)
LEMMA PostMovesFunds ==
    ASSUME balance \in [Account -> Balances], NEW account \in Account, NEW delta \in Buckets,
           NEW type, NEW source,
           PostLedgerEntry(Entry(account, type, source, delta))
    PROVE  Settlement!Move(account, delta.available, delta.reserved)
<1> DEFINE next == Plus(balance[account], delta)
<1>1. balance' = [balance EXCEPT ![account] = next]
  BY DEF PostLedgerEntry, Entry
<1>2. next.reserved >= 0
  BY DEF PostLedgerEntry, CanPost, ApplyLedgerDelta, Entry
<1>3. /\ next.available = balance[account].available + delta.available
      /\ next.reserved = balance[account].reserved + delta.reserved
  BY DEF Plus
<1> HIDE DEF next
<1> QED
  BY <1>1, <1>2, <1>3 DEF Settlement!Move, fundsBar

(***************************************************************************)
(* What each status means.                                                 *)
(***************************************************************************)
LEMMA StageOfStatus ==
    /\ Stage("none") = "none"
    /\ \A status \in Open : Stage(status) = "held"
    /\ Stage("captured") = "spent"
    /\ Stage("released") = "returned"
  BY DEF Stage, Open

(***************************************************************************)
(* A step after which each row has the stage, the account and the cost it  *)
(* had changes no hold.                                                    *)
(***************************************************************************)
LEMMA HoldsUnchanged ==
    ASSUME \A r \in Redemption :
              /\ Stage(redemption'[r].status) = Stage(redemption[r].status)
              /\ redemption'[r].cost = redemption[r].cost
              /\ redemption'[r].account = redemption[r].account
    PROVE  UNCHANGED holdBar
  BY DEF holdBar

(***************************************************************************)
(* Setting a status makes the hold what the status means.                  *)
(***************************************************************************)
LEMMA StatusIsStage ==
    ASSUME redemption \in [Redemption -> Rows],
           events \in [Redemption -> SUBSET (Open \cup Settled)],
           NEW r \in Redemption, NEW s \in Open \cup Settled, SetStatus(r, s)
    PROVE  Settlement!Become(r, Stage(s))
<1>1. \A q \in Redemption :
          /\ redemption'[q].status = IF q = r THEN s ELSE redemption[q].status
          /\ redemption'[q].cost = redemption[q].cost
          /\ redemption'[q].account = redemption[q].account
  BY StatusIsSet
<1> HIDE DEF Stage
<1> QED
  BY <1>1 DEF Settlement!Become, holdBar

\* The initial states map to the initial state of Settlement.
LEMMA InitImplements == Init => Settlement!Init
  BY StageOfStatus
  DEF Init, LedgerInit, Zero, Absent, Settlement!Init, Settlement!Nothing, fundsBar, holdBar

(***************************************************************************)
(* A step that moves no points and leaves each redemption at its stage is  *)
(* a step of Settlement that changes nothing.                              *)
(***************************************************************************)
LEMMA NothingMoves ==
    ASSUME UNCHANGED balance,
           \A r \in Redemption :
              /\ Stage(redemption'[r].status) = Stage(redemption[r].status)
              /\ redemption'[r].cost = redemption[r].cost
              /\ redemption'[r].account = redemption[r].account
    PROVE  UNCHANGED <<fundsBar, holdBar>>
  BY HoldsUnchanged DEF fundsBar

\* Creating a redemption holds its points.
LEMMA CreateHolds ==
    ASSUME OwnedInv, NEW t \in Terminal, NEW r \in Redemption, FinishCreate(t, r)
    PROVE  Settlement!Next
<1> DEFINE a == request[t].account
           points == request[t].cost
           delta == [available |-> -points, reserved |-> points, expired |-> 0]
           row == [status |-> "reserved", account |-> a, cost |-> points, expired |-> FALSE]
<1>1. a \in Account /\ points \in Price /\ points \in Nat
  BY RequestShape, PriceAssumption DEF FinishCreate, OwnedInv, Inv, TypeOK
<1>2. delta \in Buckets /\ PostLedgerEntry(Entry(a, "redemption_reserve", r, delta))
  BY <1>1 DEF FinishCreate, ReserveEntry, Buckets
<1>3. balance \in [Account -> Balances] /\ redemption \in [Redemption -> Rows]
  BY DEF OwnedInv, Inv, TypeOK, Rows
<1>4. Settlement!Move(a, -points, points)
  BY <1>1, <1>2, <1>3, PostMovesFunds
<1>5. points <= fundsBar[a].available
  <2>1. Plus(balance[a], delta).available >= 0
    BY <1>2 DEF PostLedgerEntry, CanPost, ApplyLedgerDelta, Entry
  <2>2. balance[a].available \in Int
    BY <1>1, <1>3 DEF Balances
  <2> QED
    BY <1>1, <2>1, <2>2 DEF Plus, fundsBar
<1>6. holdBar[r] = Settlement!Nothing
  BY StageOfStatus DEF FinishCreate, Absent, holdBar, Settlement!Nothing
<1>7. holdBar' = [holdBar EXCEPT ![r] = [state |-> "held", account |-> a, points |-> points]]
  <2>1. \A q \in Redemption : redemption'[q] = IF q = r THEN row ELSE redemption[q]
    BY <1>3 DEF FinishCreate
  <2>2. Stage(row.status) = "held" /\ row.account = a /\ row.cost = points
    BY StageOfStatus DEF Open
  <2> HIDE DEF row, a, points
  <2>3. \A q \in Redemption :
            holdBar'[q] = IF q = r THEN [state |-> "held", account |-> a, points |-> points]
                          ELSE holdBar[q]
    BY <2>1, <2>2 DEF holdBar
  <2> QED
    BY <2>3 DEF holdBar
<1>8. Settlement!Hold(r, a, points)
  BY <1>4, <1>5, <1>6, <1>7 DEF Settlement!Hold
<1> QED
  BY <1>1, <1>8 DEF Settlement!Next

(***************************************************************************)
(* A capture or a release settles the hold of an open redemption.          *)
(***************************************************************************)
LEMMA SettlingRequest ==
    ASSUME OwnedInv, NEW t \in Terminal, request[t].op \in SettleOps
    PROVE  LET r == request[t].redemption
           IN /\ r \in Redemption
              /\ redemption[r].status \in Open
              /\ redemption[r].account \in Account
              /\ redemption[r].cost \in Nat
              /\ holdBar[r] = [state |-> "held", account |-> redemption[r].account,
                               points |-> redemption[r].cost]
<1> DEFINE r == request[t].redemption
<1>1. r \in Redemption /\ redemption[r].status \in Open
  BY RequestShape DEF OwnedInv, Inv, TypeOK, RequestsOpen
<1>2. redemption[r].account \in Account /\ redemption[r].cost \in Nat
  BY <1>1 DEF OwnedInv, Inv, TypeOK, RowsReserved, Open
<1>3. Stage(redemption[r].status) = "held"
  BY <1>1, StageOfStatus
<1> QED
  BY <1>1, <1>2, <1>3 DEF holdBar

\* Capturing spends the held points.
LEMMA CaptureSpends ==
    ASSUME OwnedInv, NEW t \in Terminal, FinishCapture(t)
    PROVE  Settlement!Next
<1> DEFINE r == request[t].redemption
           cost == redemption[r].cost
           delta == [available |-> 0, reserved |-> -cost, expired |-> 0]
<1>1. request[t].op \in SettleOps
  BY DEF FinishCapture, SettleOps
<1>2. /\ r \in Redemption /\ redemption[r].account \in Account /\ cost \in Nat
      /\ holdBar[r] = [state |-> "held", account |-> redemption[r].account, points |-> cost]
  BY <1>1, SettlingRequest
<1>3. delta \in Buckets
      /\ PostLedgerEntry(Entry(redemption[r].account, "redemption_capture", r, delta))
  BY <1>2 DEF FinishCapture, CaptureEntry, Buckets
<1>4. Settlement!Move(redemption[r].account, 0, -cost)
  BY <1>2, <1>3, PostMovesFunds DEF OwnedInv, Inv, TypeOK
<1>5. Settlement!Become(r, "spent")
  BY <1>2, StatusIsStage, StageOfStatus
  DEF FinishCapture, Settled, OwnedInv, Inv, TypeOK, Rows
<1> QED
  BY <1>2, <1>4, <1>5 DEF Settlement!Next, Settlement!Spend

\* Releasing returns the held points.
LEMMA ReleaseReturns ==
    ASSUME OwnedInv, NEW t \in Terminal, FinishRelease(t)
    PROVE  Settlement!Next
<1> DEFINE r == request[t].redemption
           cost == redemption[r].cost
           delta == [available |-> cost, reserved |-> -cost, expired |-> 0]
<1>1. request[t].op \in SettleOps
  BY DEF FinishRelease, SettleOps
<1>2. /\ r \in Redemption /\ redemption[r].account \in Account /\ cost \in Nat
      /\ holdBar[r] = [state |-> "held", account |-> redemption[r].account, points |-> cost]
  BY <1>1, SettlingRequest
<1>3. delta \in Buckets
      /\ PostLedgerEntry(Entry(redemption[r].account, "reservation_release", r, delta))
  BY <1>2 DEF FinishRelease, ReleaseEntry, Buckets
<1>4. Settlement!Move(redemption[r].account, cost, -cost)
  BY <1>2, <1>3, PostMovesFunds DEF OwnedInv, Inv, TypeOK
<1>5. Settlement!Become(r, "returned")
  BY <1>2, StatusIsStage, StageOfStatus
  DEF FinishRelease, Settled, OwnedInv, Inv, TypeOK, Rows
<1> QED
  BY <1>2, <1>4, <1>5 DEF Settlement!Next, Settlement!Return

(***************************************************************************)
(* Every other step is a change by others, or no step of Settlement.       *)
(***************************************************************************)
LEMMA StepImplements == OwnedInv /\ [Next]_vars => [Settlement!Next]_<<fundsBar, holdBar>>
<1> SUFFICES ASSUME OwnedInv, [Next]_vars
             PROVE  Settlement!Next \/ UNCHANGED <<fundsBar, holdBar>>
  OBVIOUS
<1>a. balance \in [Account -> Balances] /\ redemption \in [Redemption -> Rows]
  BY DEF OwnedInv, Inv, TypeOK, Rows
<1>b. ASSUME UNCHANGED <<balance, redemption>>
      PROVE  UNCHANGED <<fundsBar, holdBar>>
  BY <1>b, NothingMoves
<1>1. ASSUME NEW t \in Terminal, FinishValidate(t)
      PROVE  UNCHANGED <<fundsBar, holdBar>>
  <2> DEFINE r == request[t].redemption
  <2>1. request[t].op \in SettleOps /\ "validated" \in Open
    BY <1>1 DEF FinishValidate, SettleOps, Open
  <2>2. r \in Redemption /\ redemption[r].status \in Open
    BY <2>1, SettlingRequest
  <2>3. \A q \in Redemption :
            /\ redemption'[q].status = IF q = r THEN "validated" ELSE redemption[q].status
            /\ redemption'[q].cost = redemption[q].cost
            /\ redemption'[q].account = redemption[q].account
    BY <1>1, <1>a, <2>1, <2>2, StatusIsSet DEF FinishValidate, OwnedInv, Inv, TypeOK
  <2>4. Stage("validated") = Stage(redemption[r].status)
    BY <2>1, <2>2, StageOfStatus
  <2> HIDE DEF Stage
  <2>5. UNCHANGED balance
    BY <1>1 DEF FinishValidate
  <2> QED
    BY <2>3, <2>4, <2>5, NothingMoves
<1>2. ASSUME NEW a \in Account, NEW s \in AdjustmentSource, NEW d \in AdjustmentDelta,
             CreateAdjustment(a, s, d)
      PROVE  Settlement!Next
  <2> DEFINE amount == [available |-> d.available, reserved |-> d.reserved]
  <2>1. Settlement!Move(a, d.available, d.reserved)
    BY <1>2, <1>a, DeltaAssumption, PostMovesFunds DEF CreateAdjustment
  <2>2. UNCHANGED holdBar
    BY <1>2 DEF CreateAdjustment, holdBar
  <2>3. amount \in OtherAmounts
    BY DEF OtherAmounts
  <2> QED
    BY <2>1, <2>2, <2>3 DEF Settlement!Next, Settlement!Change
<1>3. ASSUME NEW a \in Account, NEW type \in {"earn", "refund"}, NEW c \in RewardSource,
             NEW points \in RewardPoints, PostReward(a, type, c, points)
      PROVE  Settlement!Next
  <2> DEFINE amount == [available |-> points, reserved |-> 0]
  <2>1. AvailableDelta(points) \in Buckets
    BY DeltaAssumption DEF AvailableDelta, Buckets
  <2>2. Settlement!Move(a, points, 0)
    <3>1. Settlement!Move(a, AvailableDelta(points).available, AvailableDelta(points).reserved)
      BY <1>3, <1>a, <2>1, PostMovesFunds DEF PostReward
    <3> QED
      BY <3>1 DEF AvailableDelta
  <2>3. UNCHANGED holdBar
    BY <1>3 DEF PostReward, holdBar
  <2>4. amount \in OtherAmounts
    BY DEF OtherAmounts
  <2> QED
    BY <2>2, <2>3, <2>4 DEF Settlement!Next, Settlement!Change
<1>4. ASSUME NEW r \in Redemption, PassExpiry(r)
      PROVE  UNCHANGED <<fundsBar, holdBar>>
  <2>1. \A q \in Redemption : /\ redemption'[q].status = redemption[q].status
                              /\ redemption'[q].cost = redemption[q].cost
                              /\ redemption'[q].account = redemption[q].account
    BY <1>4, <1>a DEF PassExpiry, Rows
  <2>2. UNCHANGED balance
    BY <1>4 DEF PassExpiry
  <2> QED
    BY <2>1, <2>2, NothingMoves
<1> QED
  BY <1>b, <1>1, <1>2, <1>3, <1>4, CreateHolds, CaptureSpends, ReleaseReturns
  DEF Next, TerminalStep, BeginCreate, BeginSettle, Abandon, UpdateCatalogItem, vars

(***************************************************************************)
(* With one terminal per redemption, what the handlers do in their several *)
(* steps comes to holding points and settling each hold once, in full.     *)
(***************************************************************************)
THEOREM RedemptionImplementsSettlement == DisjointHandles => (Spec => ImplementsSettlement)
<1> SUFFICES ASSUME DisjointHandles PROVE Spec => ImplementsSettlement
  OBVIOUS
<1> QED
  BY InitImplements, StepImplements, OwnedInvariance, PTL
  DEF Spec, ImplementsSettlement, Settlement!Spec, Settlement!vars
=============================================================================
