---------------------------- MODULE LedgerProofs ----------------------------
(***************************************************************************)
(* Proofs about the ledger, for whatever posts to it.                      *)
(***************************************************************************)
EXTENDS Ledger, FiniteSums

BucketNames == {"available", "reserved", "expired"}

\* The sum of one bucket over a set of entries.
Amount(S, bucket) == Total([e \in S |-> e.delta[bucket]], S)

\* The sums of the model, which add up entries in the order CHOOSE gives them, are
\* totals of functions, one lemma for each bucket.
LEMMA AvailableSum ==
    ASSUME NEW S
    PROVE  MapThenSumSet(LAMBDA e : e.delta.available, S) = Amount(S, "available")
<1> DEFINE f == [e \in S |-> e.delta.available]
           P(g) == g = [T \in SUBSET S |->
                           IF T = {} THEN 0 ELSE Some(T).delta.available + g[T \ {Some(T)}]]
<1>1. MapThenSumSet(LAMBDA e : e.delta.available, S) = (CHOOSE g : P(g))[S]
  BY DEF MapThenSumSet, MapThenFoldSet, Some
<1>2. \A T \in SUBSET S : T # {} => f[Some(T)] = Some(T).delta.available
  BY DEF Some
<1>3. \A g : P(g) <=> Sums(g, f, S)
  BY <1>2 DEF Sums
<1>4. (CHOOSE g : P(g)) = CHOOSE g : Sums(g, f, S)
  <2> HIDE DEF Sums, P, f
  <2> QED BY <1>3
<1> QED BY <1>1, <1>4, TotalChosen DEF Amount

LEMMA ReservedSum ==
    ASSUME NEW S
    PROVE  MapThenSumSet(LAMBDA e : e.delta.reserved, S) = Amount(S, "reserved")
<1> DEFINE f == [e \in S |-> e.delta.reserved]
           P(g) == g = [T \in SUBSET S |->
                           IF T = {} THEN 0 ELSE Some(T).delta.reserved + g[T \ {Some(T)}]]
<1>1. MapThenSumSet(LAMBDA e : e.delta.reserved, S) = (CHOOSE g : P(g))[S]
  BY DEF MapThenSumSet, MapThenFoldSet, Some
<1>2. \A T \in SUBSET S : T # {} => f[Some(T)] = Some(T).delta.reserved
  BY DEF Some
<1>3. \A g : P(g) <=> Sums(g, f, S)
  BY <1>2 DEF Sums
<1>4. (CHOOSE g : P(g)) = CHOOSE g : Sums(g, f, S)
  <2> HIDE DEF Sums, P, f
  <2> QED BY <1>3
<1> QED BY <1>1, <1>4, TotalChosen DEF Amount

LEMMA ExpiredSum ==
    ASSUME NEW S
    PROVE  MapThenSumSet(LAMBDA e : e.delta.expired, S) = Amount(S, "expired")
<1> DEFINE f == [e \in S |-> e.delta.expired]
           P(g) == g = [T \in SUBSET S |->
                           IF T = {} THEN 0 ELSE Some(T).delta.expired + g[T \ {Some(T)}]]
<1>1. MapThenSumSet(LAMBDA e : e.delta.expired, S) = (CHOOSE g : P(g))[S]
  BY DEF MapThenSumSet, MapThenFoldSet, Some
<1>2. \A T \in SUBSET S : T # {} => f[Some(T)] = Some(T).delta.expired
  BY DEF Some
<1>3. \A g : P(g) <=> Sums(g, f, S)
  BY <1>2 DEF Sums
<1>4. (CHOOSE g : P(g)) = CHOOSE g : Sums(g, f, S)
  <2> HIDE DEF Sums, P, f
  <2> QED BY <1>3
<1> QED BY <1>1, <1>4, TotalChosen DEF Amount

\* A new entry adds its amount to the sum.
LEMMA AmountAdd ==
    ASSUME NEW S, IsFiniteSet(S), \A e \in S : e.delta \in Buckets,
           NEW x, x \notin S, x.delta \in Buckets, NEW bucket \in BucketNames
    PROVE  /\ Amount(S \cup {x}, bucket) = Amount(S, bucket) + x.delta[bucket]
           /\ Amount(S, bucket) \in Int
<1> DEFINE f == [e \in S \cup {x} |-> e.delta[bucket]]
           g == [e \in S |-> e.delta[bucket]]
<1>1. \A e \in S \cup {x} : f[e] \in Int
  BY DEF Buckets, BucketNames
<1>2. Summable(f, S \cup {x}) /\ Summable(g, S)
  BY <1>1, FS_AddElement DEF Summable
<1>3. Total(f, S \cup {x}) = f[x] + Total(f, S)
  BY <1>2, TotalAdd
<1>4. Total(g, S) = Total(f, S) /\ Total(g, S) \in Int
  BY <1>2, TotalEqual, TotalWithout
<1>5. f[x] = x.delta[bucket] /\ f[x] \in Int
  BY <1>1
<1> QED BY <1>3, <1>4, <1>5 DEF Amount

\* A sum of amounts is an integer.
LEMMA AmountInt ==
    ASSUME NEW S, IsFiniteSet(S), \A e \in S : e.delta \in Buckets, NEW bucket \in BucketNames
    PROVE  Amount(S, bucket) \in Int
<1> DEFINE g == [e \in S |-> e.delta[bucket]]
<1>1. Summable(g, S)
  BY DEF Buckets, BucketNames, Summable
<1> QED BY <1>1, TotalWithout DEF Amount

-----------------------------------------------------------------------------
EntriesOf(a) == {e \in entries : e.account = a}

SnapshotIsAmount ==
    \A a \in Account :
        balance[a] = [available |-> Amount(EntriesOf(a), "available"),
                      reserved  |-> Amount(EntriesOf(a), "reserved"),
                      expired   |-> Amount(EntriesOf(a), "expired")]

SumsAreAmounts == SnapshotIsLedgerSum <=> SnapshotIsAmount

LEMMA LedgerSums == SumsAreAmounts
  BY AvailableSum, ReservedSum, ExpiredSum
  DEF SumsAreAmounts, SnapshotIsLedgerSum, SnapshotIsAmount, LedgerTotal, EntriesOf

\* What a proof about the ledger needs to know of its rows.
LedgerSound ==
    /\ balance \in [Account -> Balances]
    /\ IsFiniteSet(entries)
    /\ \A e \in entries : e.account \in Account /\ e.delta \in Buckets

LEMMA LedgerSoundInit == LedgerInit => LedgerSound /\ SnapshotIsLedgerSum
<1> SUFFICES ASSUME LedgerInit PROVE LedgerSound /\ SnapshotIsAmount
  BY LedgerSums DEF SumsAreAmounts
<1>1. LedgerSound
  BY FS_EmptySet DEF LedgerInit, LedgerSound, Balances, Zero
<1>2. \A a \in Account : EntriesOf(a) = {}
  BY DEF LedgerInit, EntriesOf
<1>3. \A bucket : Amount({}, bucket) = 0
  BY TotalEmpty DEF Amount
<1>4. SnapshotIsAmount
  BY <1>2, <1>3 DEF SnapshotIsAmount, LedgerInit, Zero
<1> QED BY <1>1, <1>4

\* A post keeps the rows sound.
LEMMA PostKeepsSound ==
    ASSUME LedgerSound, NEW e, e.account \in Account, e.delta \in Buckets, PostLedgerEntry(e)
    PROVE  /\ LedgerSound'
           /\ balance' = [balance EXCEPT ![e.account] = Plus(balance[e.account], e.delta)]
           /\ e \notin entries /\ entries' = entries \cup {e}
<1> DEFINE next == Plus(balance[e.account], e.delta)
<1>1. e \notin entries /\ entries' = entries \cup {e}
  BY DEF PostLedgerEntry, CanPost, UniqueSource
<1>2. balance' = [balance EXCEPT ![e.account] = next]
  BY DEF PostLedgerEntry
<1>3. next \in Balances
  <2>1. ApplyLedgerDelta(e.type, next) /\ balance[e.account] \in Balances
    BY DEF PostLedgerEntry, CanPost, LedgerSound
  <2> QED BY <2>1 DEF ApplyLedgerDelta, Plus, Balances, Buckets
<1>4. balance' \in [Account -> Balances]
  BY <1>2, <1>3 DEF LedgerSound
<1>5. IsFiniteSet(entries')
  BY <1>1, FS_AddElement DEF LedgerSound
<1> QED BY <1>1, <1>2, <1>4, <1>5 DEF LedgerSound

\* A post keeps the snapshots what the entries add up to.
LEMMA PostKeepsSnapshot ==
    ASSUME LedgerSound, SnapshotIsLedgerSum,
           NEW e, e.account \in Account, e.delta \in Buckets, PostLedgerEntry(e)
    PROVE  LedgerSound' /\ SnapshotIsLedgerSum'
<1>1. SnapshotIsAmount /\ (SnapshotIsLedgerSum' <=> SnapshotIsAmount')
  <2>1. SumsAreAmounts'
    BY LedgerSums, PTL
  <2> QED BY <2>1, LedgerSums DEF SumsAreAmounts
<1> DEFINE next == Plus(balance[e.account], e.delta)
<1>2. LedgerSound' /\ e \notin entries /\ entries' = entries \cup {e}
  BY PostKeepsSound
<1>3. balance' = [balance EXCEPT ![e.account] = next]
  BY PostKeepsSound
<1>6. \A a \in Account : IsFiniteSet(EntriesOf(a)) /\ \A f \in EntriesOf(a) : f.delta \in Buckets
  BY FS_Subset DEF EntriesOf, LedgerSound
<1>7. ASSUME NEW a \in Account, a # e.account
      PROVE  EntriesOf(a)' = EntriesOf(a) /\ balance'[a] = balance[a]
  BY <1>2, <1>3, <1>7 DEF EntriesOf, LedgerSound
<1>8. EntriesOf(e.account)' = EntriesOf(e.account) \cup {e} /\ e \notin EntriesOf(e.account)
  BY <1>2 DEF EntriesOf
<1>9. \A bucket \in BucketNames :
          Amount(EntriesOf(e.account)', bucket)
             = Amount(EntriesOf(e.account), bucket) + e.delta[bucket]
  BY <1>6, <1>8, AmountAdd
<1>10. balance'[e.account] = next
  BY <1>3 DEF LedgerSound
<1>11. SnapshotIsAmount'
  <2> SUFFICES ASSUME NEW a \in Account
               PROVE  balance'[a] = [available |-> Amount(EntriesOf(a)', "available"),
                                     reserved  |-> Amount(EntriesOf(a)', "reserved"),
                                     expired   |-> Amount(EntriesOf(a)', "expired")]
    BY DEF SnapshotIsAmount, Amount
  <2>1. balance[a] = [available |-> Amount(EntriesOf(a), "available"),
                      reserved  |-> Amount(EntriesOf(a), "reserved"),
                      expired   |-> Amount(EntriesOf(a), "expired")]
    BY <1>1 DEF SnapshotIsAmount
  <2>2. CASE a # e.account
    BY <1>7, <2>1, <2>2
  <2>3. CASE a = e.account
    BY <1>9, <1>10, <2>1, <2>3 DEF Plus, BucketNames
  <2> QED BY <2>2, <2>3
<1> QED BY <1>1, <1>2, <1>11

-----------------------------------------------------------------------------
(* The snapshots of all accounts together.                                 *)

\* A bucket over all accounts comes to the bucket over all entries.
LEMMA AccountsAddUp ==
    ASSUME LedgerSound, IsFiniteSet(Account), NEW bucket \in BucketNames,
           NEW h, \A a \in Account : h[a] = Amount(EntriesOf(a), bucket)
    PROVE  /\ Summable(h, Account)
           /\ Total(h, Account) = Amount(entries, bucket)
           /\ Amount(entries, bucket) \in Int
<1> DEFINE f == [e \in entries |-> e.delta[bucket]]
           part == [e \in entries |-> e.account]
<1>1. IsFiniteSet(entries) /\ \A e \in entries : e.account \in Account /\ e.delta \in Buckets
  BY DEF LedgerSound
<1>2. \A e \in entries : f[e] \in Int /\ part[e] \in Account
  BY <1>1 DEF Buckets, BucketNames
<1>3. Summable(f, entries) /\ Total(f, entries) = Amount(entries, bucket)
  BY <1>1, <1>2 DEF Summable, Amount
<1>4. ASSUME NEW a \in Account
      PROVE  h[a] = Total(f, {e \in entries : part[e] = a}) /\ h[a] \in Int
  <2> DEFINE own == {e \in entries : part[e] = a}
             g == [e \in own |-> e.delta[bucket]]
  <2>1. own = EntriesOf(a) /\ own \subseteq entries
    BY DEF EntriesOf
  <2>2. h[a] = Total(g, own)
    BY <2>1 DEF Amount
  <2>3. \A e \in own : f[e] = g[e]
    OBVIOUS
  <2> HIDE DEF own
  <2>4. Summable(f, own)
    BY <1>2, <1>3, <2>1, FS_Subset DEF Summable
  <2> HIDE DEF f, g
  <2>5. Total(f, own) = Total(g, own) /\ Total(f, own) \in Int
    BY <2>3, <2>4, TotalEqual, TotalWithout
  <2> QED BY <2>2, <2>5 DEF own
<1>5. Summable(h, Account)
  BY <1>4 DEF Summable
<1>6. Total(h, Account) = Total(f, entries)
  <2> HIDE DEF f, part
  <2> QED BY <1>2, <1>3, <1>4, TotalOfParts
<1>7. Total(f, entries) \in Int
  <2> HIDE DEF f
  <2> QED BY <1>3, TotalWithout
<1> QED BY <1>3, <1>5, <1>6, <1>7

\* What the members together can spend or have reserved, summed over accounts as the
\* model sums, is a total.
LEMMA BalanceSum ==
    MapThenSumSet(LAMBDA a : balance[a].available + balance[a].reserved, Account)
      = Total([a \in Account |-> balance[a].available + balance[a].reserved], Account)
<1> DEFINE f == [a \in Account |-> balance[a].available + balance[a].reserved]
           P(g) == g = [T \in SUBSET Account |->
                           IF T = {} THEN 0
                           ELSE balance[Some(T)].available + balance[Some(T)].reserved
                                  + g[T \ {Some(T)}]]
<1>1. MapThenSumSet(LAMBDA a : balance[a].available + balance[a].reserved, Account)
        = (CHOOSE g : P(g))[Account]
  BY DEF MapThenSumSet, MapThenFoldSet, Some
<1>2. \A T \in SUBSET Account : T # {} =>
         f[Some(T)] = balance[Some(T)].available + balance[Some(T)].reserved
  BY DEF Some
<1>3. \A g : P(g) <=> Sums(g, f, Account)
  BY <1>2 DEF Sums
<1>4. (CHOOSE g : P(g)) = CHOOSE g : Sums(g, f, Account)
  <2> HIDE DEF Sums, P, f
  <2> QED BY <1>3
<1> QED BY <1>1, <1>4, TotalChosen

\* Summed over the accounts or over the entries, the liability is the same.
LEMMA LiabilityTwoWays ==
    ASSUME LedgerSound, SnapshotIsAmount, IsFiniteSet(Account)
    PROVE  MapThenSumSet(LAMBDA a : balance[a].available + balance[a].reserved, Account)
             = Amount(entries, "available") + Amount(entries, "reserved")
<1> DEFINE f == [a \in Account |-> Amount(EntriesOf(a), "available")]
           g == [a \in Account |-> Amount(EntriesOf(a), "reserved")]
           h == [a \in Account |-> balance[a].available + balance[a].reserved]
<1>1. "available" \in BucketNames /\ "reserved" \in BucketNames
  BY DEF BucketNames
<1>2. \A a \in Account : /\ f[a] = Amount(EntriesOf(a), "available")
                         /\ g[a] = Amount(EntriesOf(a), "reserved")
                         /\ h[a] = f[a] + g[a]
  <2> SUFFICES ASSUME NEW a \in Account
               PROVE  h[a] = Amount(EntriesOf(a), "available") + Amount(EntriesOf(a), "reserved")
    OBVIOUS
  <2>1. /\ balance[a].available = Amount(EntriesOf(a), "available")
        /\ balance[a].reserved = Amount(EntriesOf(a), "reserved")
    <3>1. balance[a] = [available |-> Amount(EntriesOf(a), "available"),
                        reserved  |-> Amount(EntriesOf(a), "reserved"),
                        expired   |-> Amount(EntriesOf(a), "expired")]
      BY DEF SnapshotIsAmount
    <3> QED BY <3>1
  <2>2. h[a] = balance[a].available + balance[a].reserved
    OBVIOUS
  <2> QED BY <2>1, <2>2
<1> HIDE DEF f, g
<1>3. Summable(f, Account) /\ Total(f, Account) = Amount(entries, "available")
  BY <1>1, <1>2, AccountsAddUp
<1>4. Summable(g, Account) /\ Total(g, Account) = Amount(entries, "reserved")
  BY <1>1, <1>2, AccountsAddUp
<1>5. MapThenSumSet(LAMBDA a : balance[a].available + balance[a].reserved, Account)
        = Total(h, Account)
  BY BalanceSum
<1> HIDE DEF h
<1>6. Total(h, Account) = Total(f, Account) + Total(g, Account)
  BY <1>2, <1>3, <1>4, TotalPlus
<1> QED BY <1>3, <1>4, <1>5, <1>6
=============================================================================
