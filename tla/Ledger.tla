------------------------------- MODULE Ledger -------------------------------
(***************************************************************************)
(* The points ledger: insert-only entries and, per member account, a       *)
(* snapshot of the three balance buckets.  Every service that moves points *)
(* does it through PostLedgerEntry, inside its own database transaction.   *)
(*                                                                         *)
(* PostLedgerEntry takes the row lock of the snapshot (SELECT ... FOR      *)
(* UPDATE) and keeps it until its transaction commits, so the post and     *)
(* everything after it in the transaction is one atomic step here, and the *)
(* snapshot it reads is the latest committed one.                          *)
(*                                                                         *)
(* An entry type belongs to one source type ("redemption" for the three    *)
(* redemption types, "reward_calculation" for earn and refund,             *)
(* "manual_adjustment" for adjustment), so the pair (type, source) stands  *)
(* for the unique key (partner, source_type, source_id, entry_type) of one *)
(* partner.                                                                *)
(***************************************************************************)
EXTENDS Integers, FiniteSetsExt

CONSTANT Account        \* the member accounts of one partner

VARIABLES balance,      \* balance_snapshots, by account
          entries       \* the rows of ledger_entries

ledgerVars == <<balance, entries>>

EntryTypes == {"earn", "refund", "redemption_reserve", "redemption_capture",
               "reservation_release", "adjustment", "points_expiration"}

\* An amount in each bucket; of a snapshot, or the delta of an entry.
Buckets == [available : Int, reserved : Int, expired : Int]

Zero == [available |-> 0, reserved |-> 0, expired |-> 0]

AvailableDelta(points) == [available |-> points, reserved |-> 0, expired |-> 0]

Balances == [available : Int, reserved : Nat, expired : Nat]

Entry(account, type, source, delta) ==
    [account |-> account, type |-> type, source |-> source, delta |-> delta]

Plus(b, d) == [available |-> b.available + d.available,
               reserved  |-> b.reserved + d.reserved,
               expired   |-> b.expired + d.expired]

\* Seeded bug: the reserved bucket is not checked.
ReservedUnchecked(type, next) ==
    /\ next.expired >= 0
    /\ type \in {"redemption_reserve", "points_expiration"} => next.available >= 0

\* The bucket totals ApplyLedgerDelta accepts for an entry type.
ApplyLedgerDelta(type, next) ==
    /\ next.reserved >= 0
    /\ next.expired >= 0
    /\ type \in {"redemption_reserve", "points_expiration"} => next.available >= 0

\* Seeded bug: captures are not in the unique index.
UniqueUnlessCapture(e) ==
    e.type # "redemption_capture" => \A f \in entries : ~(f.type = e.type /\ f.source = e.source)

\* The unique index over the source and the type of an entry.
UniqueSource(e) == \A f \in entries : ~(f.type = e.type /\ f.source = e.source)

CanPost(e) == /\ ApplyLedgerDelta(e.type, Plus(balance[e.account], e.delta))
              /\ UniqueSource(e)

\* Seeded bug: a post that moves no available points skips the snapshot.
PostAvailableOnly(e) ==
    /\ CanPost(e)
    /\ entries' = entries \cup {e}
    /\ balance' = IF e.delta.available = 0 THEN balance
                  ELSE [balance EXCEPT ![e.account] = Plus(@, e.delta)]

\* Lock, apply, insert, update.  When it is not enabled the code returns an
\* error and the calling transaction is rolled back.
PostLedgerEntry(e) ==
    /\ CanPost(e)
    /\ entries' = entries \cup {e}
    /\ balance' = [balance EXCEPT ![e.account] = Plus(@, e.delta)]

LedgerInit == /\ balance = [a \in Account |-> Zero]
              /\ entries = {}

-----------------------------------------------------------------------------
HasEntry(type, source) == \E e \in entries : e.type = type /\ e.source = source

LedgerTotal(account, Amount(_)) ==
    MapThenSumSet(Amount, {e \in entries : e.account = account})

\* The snapshot of an account is what replaying its ledger entries gives, in
\* every bucket: snapshot and entries are written by one transaction and no
\* post works from a stale snapshot, whichever requests and workers race.
SnapshotIsLedgerSum ==
    \A a \in Account :
        balance[a] = [available |-> LedgerTotal(a, LAMBDA e : e.delta.available),
                      reserved  |-> LedgerTotal(a, LAMBDA e : e.delta.reserved),
                      expired   |-> LedgerTotal(a, LAMBDA e : e.delta.expired)]
=============================================================================
