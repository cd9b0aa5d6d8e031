---------------------------- MODULE IntakeProofs ----------------------------
(***************************************************************************)
(* Proofs about Intake, for every value of its constants: any number of    *)
(* clients, members, identifiers and transactions, and any requests.       *)
(***************************************************************************)
EXTENDS Intake, TLAPS

(***************************************************************************)
(* Nothing is rewritten: this needs no invariant.                          *)
(***************************************************************************)
Kept ==
    /\ \A m \in DOMAIN members : m \in DOMAIN members' /\ members'[m] = members[m]
    /\ \A i \in Identifiers : owner[i] # NoMember => owner'[i] = owner[i]
    /\ \A t \in DOMAIN events : t \in DOMAIN events' /\ events'[t] = events[t]

LEMMA RowsCreated ==
  ASSUME NEW m, NEW external, NEW given, CreateRows(m, external, given)
  PROVE  /\ m \in Members \ DOMAIN members /\ Named(external) = {}
         /\ DOMAIN members' = DOMAIN members \cup {m} /\ members'[m] = external
         /\ \A n \in DOMAIN members : members'[n] = members[n]
         /\ owner' = [i \in Identifiers |-> IF i \in Range(given) /\ owner[i] = NoMember
                                            THEN m ELSE owner[i]]
<1>1. m \in Members \ DOMAIN members /\ Named(external) = {}
  BY DEF CreateRows
<1>2. members' = [n \in DOMAIN members \cup {m} |-> IF n = m THEN external ELSE members[n]]
  BY DEF CreateRows, Inserted
<1>3. /\ DOMAIN members' = DOMAIN members \cup {m} /\ members'[m] = external
      /\ \A n \in DOMAIN members : members'[n] = members[n]
  BY <1>1, <1>2
<1>4. owner' = [i \in Identifiers |-> IF i \in Range(given) /\ owner[i] = NoMember THEN m ELSE owner[i]]
  BY DEF CreateRows, InsertIdentifierHash
<1> QED
  BY <1>1, <1>3, <1>4

LEMMA StepKeeps == [Next]_vars => Kept
<1> SUFFICES ASSUME [Next]_vars PROVE Kept
  OBVIOUS
<1>1. CASE UNCHANGED <<members, owner, events>>
  BY <1>1 DEF Kept
<1>2. ASSUME NEW m, NEW external, NEW given, CreateRows(m, external, given), UNCHANGED events
      PROVE  Kept
  BY <1>2, RowsCreated DEF Kept
<1>3. ASSUME NEW c \in Clients, Insert(c) PROVE Kept
  BY <1>3 DEF Insert, Kept, Inserted
<1> QED
  BY <1>1, <1>2, <1>3
  DEF Next, vars, Receive, ByExternal, ByIdentifier, CreateResolved, Abandon, CreateMember

(***************************************************************************)
(* No request changes what another one wrote.                              *)
(***************************************************************************)
THEOREM NothingRewritten == Spec => WrittenOnce
<1>1. [Next]_vars => [Kept]_vars
  BY StepKeeps
<1> QED
  BY <1>1, PTL DEF Spec, WrittenOnce, Kept

-----------------------------------------------------------------------------
(***************************************************************************)
(* The tables: whoever an identifier or an event names exists, external    *)
(* ids are unique, and a hash is that of its event's row.                  *)
(***************************************************************************)
Tables ==
    /\ DOMAIN members \subseteq Members
    /\ \A m \in DOMAIN members : members[m] \in Externals \cup {m}
    /\ \A m, n \in DOMAIN members : members[m] = members[n] => m = n
    /\ owner \in [Identifiers -> Members \cup {NoMember}]
    /\ \A i \in Identifiers : owner[i] \in DOMAIN members \cup {NoMember}
    /\ \A t \in DOMAIN events :
          /\ t \in Transactions \cup Generated
          /\ events[t].member \in DOMAIN members
          /\ events[t].hash = <<members[events[t].member], events[t].payload>>

(***************************************************************************)
(* The shapes of the requests.                                             *)
(***************************************************************************)
Stages == {"idle", "external", "identifiers", "create", "insert"}
Replies == {"none", "refused", "accepted", "conflict"}

Requests ==
    [stage : Stages, kind : {"none", "direct", "normalized", "manual"},
     customer : {b.customer : b \in Bodies} \cup {NoCustomer},
     transaction : Transactions \cup Generated \cup {NoTransaction},
     payload : {b.payload : b \in Bodies} \cup {"none"},
     left : Seq(Identifiers \cup {Blank}), member : Members \cup {NoMember},
     created : BOOLEAN, known : BOOLEAN, replay : BOOLEAN, reply : Replies]

(***************************************************************************)
(* A request at work has no answer yet, and has a transaction id; one that *)
(* inserts has found or created its member.                                *)
(***************************************************************************)
Working(c) ==
    /\ req[c].stage # "idle" => /\ req[c].reply = "refused" /\ req[c].kind # "none"
                                /\ req[c].transaction # NoTransaction
    /\ req[c].stage = "insert" => req[c].member \in DOMAIN members

RequestsKnown == \A c \in Clients : Working(c)

(***************************************************************************)
(* How far the search of a customer has come who was known when it began:  *)
(* what makes the customer known is still to be looked up.                 *)
(***************************************************************************)
OwnerLeft(c) == \E i \in Range(req[c].left) \cap Identifiers : owner[i] # NoMember

Searching(c) ==
    req[c].known =>
        /\ ~req[c].created /\ req[c].stage # "create"
        /\ req[c].stage = "external" => Named(req[c].customer.external) # {} \/ OwnerLeft(c)
        /\ req[c].stage = "identifiers" => OwnerLeft(c)

Searched == \A c \in Clients : Searching(c)

IntakeInv ==
    /\ Tables
    /\ req \in [Clients -> Requests]
    /\ RequestsKnown
    /\ Searched
    /\ RepliesTellTheEvent

LEMMA IntakeInit == Init => IntakeInv
<1> SUFFICES ASSUME Init PROVE IntakeInv
  OBVIOUS
<1>1. DOMAIN members = {} /\ DOMAIN events = {}
  BY DEF Init
<1>2. Tables
  BY <1>1 DEF Init, Tables
<1>3. Idle \in Requests
  BY DEF Idle, Requests, Stages, Replies
<1>4. req \in [Clients -> Requests]
  BY <1>3 DEF Init
<1>5. RequestsKnown /\ Searched /\ RepliesTellTheEvent
  BY DEF Init, Idle, RequestsKnown, Working, Searched, Searching, RepliesTellTheEvent, Asked
<1> QED
  BY <1>2, <1>4, <1>5 DEF IntakeInv

LEMMA TablesNext ==
  ASSUME Tables, req \in [Clients -> Requests], RequestsKnown, [Next]_vars
  PROVE  Tables'
<1>1. CASE UNCHANGED <<members, owner, events>>
  BY <1>1 DEF Tables
<1>2. ASSUME NEW m, NEW external, NEW given, CreateRows(m, external, given), UNCHANGED events,
             external \in Externals \cup {m}
      PROVE  Tables'
  <2>1. /\ m \in Members \ DOMAIN members /\ Named(external) = {}
        /\ DOMAIN members' = DOMAIN members \cup {m} /\ members'[m] = external
        /\ \A n \in DOMAIN members : members'[n] = members[n]
    BY <1>2, RowsCreated
  <2>2. owner' = [i \in Identifiers |-> IF i \in Range(given) /\ owner[i] = NoMember
                                         THEN m ELSE owner[i]]
    BY <1>2 DEF CreateRows, InsertIdentifierHash
  <2>3. \A n \in DOMAIN members : members[n] # external
    BY <2>1 DEF Named
  <2>4. \A n, o \in DOMAIN members' : members'[n] = members'[o] => n = o
    BY <2>1, <2>3 DEF Tables
  <2>5. /\ owner' \in [Identifiers -> Members \cup {NoMember}]
        /\ \A i \in Identifiers : owner'[i] \in DOMAIN members' \cup {NoMember}
    <3>1. /\ owner \in [Identifiers -> Members \cup {NoMember}]
          /\ \A i \in Identifiers : owner[i] \in DOMAIN members \cup {NoMember}
      BY DEF Tables
    <3> QED
      BY <2>1, <2>2, <3>1
  <2>6. \A t \in DOMAIN events' :
          /\ t \in Transactions \cup Generated
          /\ events'[t].member \in DOMAIN members'
          /\ events'[t].hash = <<members'[events'[t].member], events'[t].payload>>
    BY <1>2, <2>1 DEF Tables
  <2>7. /\ DOMAIN members' \subseteq Members
        /\ \A n \in DOMAIN members' : members'[n] \in Externals \cup {n}
    BY <1>2, <2>1 DEF Tables
  <2> QED
    BY <2>4, <2>5, <2>6, <2>7 DEF Tables
<1>3. ASSUME NEW c \in Clients, Insert(c) PROVE Tables'
  <2> DEFINE t == req[c].transaction
             row == [member |-> req[c].member, payload |-> req[c].payload,
                     hash |-> HashTransactionPayload(req[c].member, req[c].payload)]
  <2>1. t \in Transactions \cup Generated /\ row.member \in DOMAIN members
        /\ row.hash = <<members[row.member], row.payload>>
    <3>1. req[c].stage = "insert" /\ req[c] \in Requests
      BY <1>3 DEF Insert
    <3>2. t \in Transactions \cup Generated
      BY <3>1 DEF RequestsKnown, Working, Requests
    <3>3. req[c].member \in DOMAIN members
      BY <3>1 DEF RequestsKnown, Working
    <3> QED
      BY <3>2, <3>3 DEF HashTransactionPayload
  <2>2. \/ events' = events
        \/ events' = [k \in DOMAIN events \cup {t} |-> IF k = t THEN row ELSE events[k]]
    BY <1>3 DEF Insert, Inserted
  <2> HIDE DEF row, t
  <2> QED
    BY <1>3, <2>1, <2>2 DEF Insert, Tables
<1>4. ASSUME NEW c \in Clients, CreateResolved(c) PROVE Tables'
  <2>1. req[c].customer.external \in Externals
    <3>1. req[c].customer \in {b.customer : b \in Bodies} \cup {NoCustomer}
      BY DEF Requests
    <3> QED
      BY <3>1, BodyAssumption, TrimmedAssumption DEF IsCustomer, NoCustomer
  <2>2. \A m : ExternalFor(m, req[c].customer.external) \in Externals \cup {m}
    BY <2>1, TrimmedAssumption DEF ExternalFor
  <2> QED
    BY <1>1, <1>2, <1>4, <2>2 DEF CreateResolved
<1>5. ASSUME NEW k \in Customers, CreateMember(k) PROVE Tables'
  BY <1>2, <1>5, CustomerAssumption DEF CreateMember, IsCustomer
<1> QED
  BY <1>1, <1>3, <1>4, <1>5
  DEF Next, vars, Receive, ByExternal, ByIdentifier, Abandon

(***************************************************************************)
(* Requests.                                                               *)
(***************************************************************************)
LEMMA RequestStep ==
  ASSUME req \in [Clients -> Requests], [Next]_vars, NEW c \in Clients
  PROVE  \/ req'[c] = req[c]
         \/ \E b \in Bodies : Receive(c, b)
         \/ ByExternal(c) \/ ByIdentifier(c) \/ CreateResolved(c) \/ Insert(c) \/ Abandon(c)
<1> SUFFICES ASSUME req'[c] # req[c]
             PROVE  \/ \E b \in Bodies : Receive(c, b)
                    \/ ByExternal(c) \/ ByIdentifier(c) \/ CreateResolved(c) \/ Insert(c) \/ Abandon(c)
  OBVIOUS
<1>1. \A d \in Clients : \A row : req' = [req EXCEPT ![d] = row] => d = c
  OBVIOUS
<1>2. ASSUME NEW d \in Clients, NEW b \in Bodies, Receive(d, b) PROVE d = c
  BY <1>1, <1>2 DEF Receive
<1>3. ASSUME NEW d \in Clients, ByExternal(d) PROVE d = c
  BY <1>1, <1>3 DEF ByExternal, Found, Reply, Go
<1>4. ASSUME NEW d \in Clients, ByIdentifier(d) PROVE d = c
  BY <1>1, <1>4 DEF ByIdentifier, Found, Go
<1>5. ASSUME NEW d \in Clients, CreateResolved(d) PROVE d = c
  BY <1>1, <1>5 DEF CreateResolved, Reply
<1>6. ASSUME NEW d \in Clients, Insert(d) PROVE d = c
  BY <1>1, <1>6 DEF Insert, Reply
<1>7. ASSUME NEW d \in Clients, Abandon(d) PROVE d = c
  BY <1>1, <1>7 DEF Abandon, Reply
<1> QED
  BY <1>2, <1>3, <1>4, <1>5, <1>6, <1>7 DEF Next, vars, CreateMember

(***************************************************************************)
(* What each way a request goes on does to it.                             *)
(***************************************************************************)
LEMMA GoesOn ==
  ASSUME req \in [Clients -> Requests], NEW c \in Clients
  PROVE  /\ \A stage \in Stages : Go(c, stage) =>
                /\ req' \in [Clients -> Requests]
                /\ req'[c] = [req[c] EXCEPT !.stage = stage]
         /\ \A m \in Members : Found(c, m) =>
                /\ req' \in [Clients -> Requests]
                /\ req'[c] = [req[c] EXCEPT !.stage = "insert", !.member = m]
         /\ \A reply \in Replies : Reply(c, reply) =>
                /\ req' \in [Clients -> Requests]
                /\ req'[c] = [req[c] EXCEPT !.stage = "idle", !.reply = reply, !.left = <<>>]
<1>1. ASSUME NEW stage \in Stages, Go(c, stage)
      PROVE  /\ req' \in [Clients -> Requests]
             /\ req'[c] = [req[c] EXCEPT !.stage = stage]
  <2> DEFINE row == [req[c] EXCEPT !.stage = stage]
  <2>1. row \in Requests
    <3>1. req[c] \in Requests
      OBVIOUS
    <3> QED
      BY <3>1 DEF Requests
  <2>2. req' = [req EXCEPT ![c] = row]
    BY <1>1 DEF Go
  <2> HIDE DEF row
  <2>3. req' \in [Clients -> Requests] /\ req'[c] = row
    BY <2>1, <2>2
  <2> QED
    BY <2>3 DEF row
<1>2. ASSUME NEW m \in Members, Found(c, m)
      PROVE  /\ req' \in [Clients -> Requests]
             /\ req'[c] = [req[c] EXCEPT !.stage = "insert", !.member = m]
  <2> DEFINE row == [req[c] EXCEPT !.stage = "insert", !.member = m]
  <2>1. row \in Requests
    BY DEF Requests, Stages
  <2>2. req' = [req EXCEPT ![c] = row]
    BY <1>2 DEF Found
  <2> HIDE DEF row
  <2>3. req' \in [Clients -> Requests] /\ req'[c] = row
    BY <2>1, <2>2
  <2> QED
    BY <2>3 DEF row
<1>3. ASSUME NEW reply \in Replies, Reply(c, reply)
      PROVE  /\ req' \in [Clients -> Requests]
             /\ req'[c] = [req[c] EXCEPT !.stage = "idle", !.reply = reply, !.left = <<>>]
  <2> DEFINE row == [req[c] EXCEPT !.stage = "idle", !.reply = reply, !.left = <<>>]
  <2>1. row \in Requests
    <3>1. req[c] \in Requests /\ <<>> \in Seq(Identifiers \cup {Blank}) /\ "idle" \in Stages
      BY DEF Stages
    <3> QED
      BY <3>1 DEF Requests
  <2>2. req' = [req EXCEPT ![c] = row]
    BY <1>3 DEF Reply
  <2> HIDE DEF row
  <2>3. req' \in [Clients -> Requests] /\ req'[c] = row
    BY <2>1, <2>2
  <2> QED
    BY <2>3 DEF row
<1> QED
  BY <1>1, <1>2, <1>3

(***************************************************************************)
(* A request that did not go on stays as it should be, because nothing it  *)
(* relies on is rewritten.                                                 *)
(***************************************************************************)
LEMMA StillSound ==
  ASSUME Kept, NEW c \in Clients, Working(c), Searching(c), req'[c] = req[c]
  PROVE  Working(c)' /\ Searching(c)'
<1>1. Working(c)'
  BY DEF Working, Kept
<1>2. OwnerLeft(c) => OwnerLeft(c)'
  BY DEF OwnerLeft, Kept
<1>3. \A e : Named(e) # {} => Named(e)' # {}
  BY DEF Named, Kept
<1>4. Searching(c)'
  BY <1>2, <1>3 DEF Searching
<1> QED
  BY <1>1, <1>4

LEMMA ReceiveSound ==
  ASSUME req \in [Clients -> Requests], NEW c \in Clients, NEW b \in Bodies, Receive(c, b)
  PROVE  /\ req' \in [Clients -> Requests] /\ Working(c)' /\ Searching(c)'
         /\ req'[c].reply = "refused"
<1>1. PICK t \in Transactions \cup Generated :
        req' = [req EXCEPT ![c] =
            [stage |-> FirstStage(b), kind |-> b.kind, customer |-> b.customer, transaction |-> t,
             payload |-> b.payload, left |-> b.customer.identifiers,
             member |-> IF b.kind = "manual" THEN b.member ELSE NoMember,
             created |-> FALSE, known |-> IsKnown(b.customer), replay |-> IsReplay(b),
             reply |-> "refused"]]
  <2>1. b.transaction # NoTransaction => b.transaction \in Transactions \cup Generated
    BY BodyAssumption
  <2> QED
    BY <2>1 DEF Receive
<1> DEFINE row == [stage |-> FirstStage(b), kind |-> b.kind, customer |-> b.customer,
                   transaction |-> t, payload |-> b.payload, left |-> b.customer.identifiers,
                   member |-> IF b.kind = "manual" THEN b.member ELSE NoMember,
                   created |-> FALSE, known |-> IsKnown(b.customer), replay |-> IsReplay(b),
                   reply |-> "refused"]
<1>2. /\ FirstStage(b) \in Stages /\ FirstStage(b) # "create"
      /\ FirstStage(b) = "insert" => b.kind = "manual" /\ b.member \in DOMAIN members
      /\ FirstStage(b) = "identifiers" => b.customer.external = Empty
  BY BodyAssumption DEF FirstStage, Stages, MemberExists
<1>3. IsKnown(b.customer) \in BOOLEAN /\ IsReplay(b) \in BOOLEAN
  BY DEF IsKnown, IsReplay
<1>4. row \in Requests
  BY <1>2, <1>3, BodyAssumption DEF Requests, Replies, IsCustomer
<1>5. req' \in [Clients -> Requests] /\ req'[c] = row
  <2> HIDE DEF row
  <2>1. req' = [req EXCEPT ![c] = row]
    BY <1>1 DEF row
  <2> QED
    BY <2>1, <1>4
<1>6. t # NoTransaction /\ b.kind # "none"
  BY BodyAssumption
<1>7. Working(c)'
  BY <1>2, <1>5, <1>6 DEF Working, Receive
<1>8. Searching(c)'
  <2>1. UNCHANGED <<members, owner>>
    BY DEF Receive
  <2>2. IsKnown(b.customer) =>
          \/ b.customer.external # Empty /\ Named(b.customer.external)' # {}
          \/ OwnerLeft(c)'
    BY <1>5, <2>1 DEF IsKnown, OwnerLeft, Named
  <2> QED
    BY <1>2, <1>5, <2>2 DEF Searching
<1> QED
  BY <1>5, <1>7, <1>8

LEMMA ByExternalSound ==
  ASSUME req \in [Clients -> Requests], DOMAIN members \subseteq Members,
         NEW c \in Clients, Working(c), Searching(c), ByExternal(c)
  PROVE  /\ req' \in [Clients -> Requests] /\ Working(c)' /\ Searching(c)'
         /\ req'[c].reply = "refused"
<1>1. req[c].stage = "external" /\ UNCHANGED <<members, owner>> /\ req[c] \in Requests
  BY DEF ByExternal
<1>2. ASSUME NEW m \in Named(req[c].customer.external), Found(c, m)
      PROVE  /\ req' \in [Clients -> Requests] /\ Working(c)' /\ Searching(c)'
             /\ req'[c].reply = "refused"
  <2>1. m \in Members /\ m \in DOMAIN members
    BY DEF Named
  <2>2. /\ req' \in [Clients -> Requests]
        /\ req'[c] = [req[c] EXCEPT !.stage = "insert", !.member = m]
    BY <1>2, <2>1, GoesOn
  <2> QED
    BY <1>1, <2>1, <2>2 DEF Working, Searching, Requests
<1>3. ASSUME Reply(c, "refused")
      PROVE  /\ req' \in [Clients -> Requests] /\ Working(c)' /\ Searching(c)'
             /\ req'[c].reply = "refused"
  <2>1. /\ req' \in [Clients -> Requests]
        /\ req'[c] = [req[c] EXCEPT !.stage = "idle", !.reply = "refused", !.left = <<>>]
    BY <1>3, GoesOn DEF Replies
  <2> QED
    BY <1>1, <2>1 DEF Working, Searching, Requests
<1>4. ASSUME Named(req[c].customer.external) = {}, Go(c, "identifiers")
      PROVE  /\ req' \in [Clients -> Requests] /\ Working(c)' /\ Searching(c)'
             /\ req'[c].reply = "refused"
  <2>1. /\ req' \in [Clients -> Requests]
        /\ req'[c] = [req[c] EXCEPT !.stage = "identifiers"]
    BY <1>4, GoesOn DEF Stages
  <2>2. OwnerLeft(c) => OwnerLeft(c)'
    BY <1>1, <2>1 DEF OwnerLeft, Requests
  <2> QED
    BY <1>1, <1>4, <2>1, <2>2 DEF Working, Searching, Requests
<1> QED
  BY <1>2, <1>3, <1>4 DEF ByExternal

LEMMA ByIdentifierSound ==
  ASSUME req \in [Clients -> Requests], owner \in [Identifiers -> Members \cup {NoMember}],
         \A i \in Identifiers : owner[i] \in DOMAIN members \cup {NoMember},
         NEW c \in Clients, Working(c), Searching(c), ByIdentifier(c)
  PROVE  /\ req' \in [Clients -> Requests] /\ Working(c)' /\ Searching(c)'
         /\ req'[c].reply = "refused"
<1>1. /\ req[c].stage = "identifiers" /\ UNCHANGED <<members, owner>> /\ req[c] \in Requests
      /\ req[c].left \in Seq(Identifiers \cup {Blank})
  BY DEF ByIdentifier, Requests
<1>2. ASSUME req[c].left = <<>>, Go(c, "create")
      PROVE  /\ req' \in [Clients -> Requests] /\ Working(c)' /\ Searching(c)'
             /\ req'[c].reply = "refused"
  <2>1. /\ req' \in [Clients -> Requests]
        /\ req'[c] = [req[c] EXCEPT !.stage = "create"]
    BY <1>2, GoesOn DEF Stages
  <2>2. ~req[c].known
    BY <1>1, <1>2 DEF Searching, OwnerLeft, Range
  <2> QED
    BY <1>1, <2>1, <2>2 DEF Working, Searching, Requests
<1> DEFINE i == Head(req[c].left)
<1>3. ASSUME req[c].left # <<>>, i # Blank, owner[i] # NoMember, Found(c, owner[i])
      PROVE  /\ req' \in [Clients -> Requests] /\ Working(c)' /\ Searching(c)'
             /\ req'[c].reply = "refused"
  <2>1. i \in Identifiers
    BY <1>1, <1>3
  <2> HIDE DEF i
  <2>2. owner[i] \in Members /\ owner[i] \in DOMAIN members
    BY <1>3, <2>1
  <2>3. /\ req' \in [Clients -> Requests]
        /\ req'[c] = [req[c] EXCEPT !.stage = "insert", !.member = owner[i]]
    BY <1>3, <2>2, GoesOn
  <2> QED
    BY <1>1, <2>2, <2>3 DEF Working, Searching, Requests
<1>4. ASSUME req[c].left # <<>>, ~(i # Blank /\ owner[i] # NoMember),
             req' = [req EXCEPT ![c].left = Tail(@)]
      PROVE  /\ req' \in [Clients -> Requests] /\ Working(c)' /\ Searching(c)'
             /\ req'[c].reply = "refused"
  <2> DEFINE row == [req[c] EXCEPT !.left = Tail(@)]
  <2>1. Tail(req[c].left) \in Seq(Identifiers \cup {Blank})
    BY <1>1, <1>4
  <2>2. row \in Requests
    BY <1>1, <2>1 DEF Requests
  <2>3. req' \in [Clients -> Requests] /\ req'[c] = row
    <3>1. req' = [req EXCEPT ![c] = row]
      BY <1>4
    <3> HIDE DEF row
    <3> QED
      BY <2>2, <3>1
  <2>4. OwnerLeft(c) => OwnerLeft(c)'
    <3> SUFFICES ASSUME NEW k \in Identifiers, k \in Range(req[c].left), owner[k] # NoMember
                 PROVE  k \in Range(Tail(req[c].left))
      BY <1>1, <2>3 DEF OwnerLeft, Requests
    <3>1. PICK n \in 1 .. Len(req[c].left) : req[c].left[n] = k
      BY <1>1 DEF Range
    <3>2. k # Blank
      BY NamesAssumption
    <3>3. n # 1
      BY <1>4, <3>1, <3>2
    <3>4. n - 1 \in 1 .. Len(Tail(req[c].left)) /\ Tail(req[c].left)[n - 1] = k
      BY <1>1, <1>4, <3>1, <3>3
    <3>5. n - 1 \in DOMAIN Tail(req[c].left)
      BY <2>1, <3>4
    <3> QED
      BY <3>4, <3>5 DEF Range
  <2> QED
    BY <1>1, <2>3, <2>4 DEF Working, Searching, Requests
<1> QED
  BY <1>2, <1>3, <1>4 DEF ByIdentifier

LEMMA CreateResolvedSound ==
  ASSUME req \in [Clients -> Requests], NEW c \in Clients, Working(c), Searching(c),
         CreateResolved(c)
  PROVE  /\ req' \in [Clients -> Requests] /\ Working(c)' /\ Searching(c)'
         /\ req'[c].reply = "refused"
<1>1. req[c].stage = "create" /\ req[c] \in Requests /\ ~req[c].known
  BY DEF CreateResolved, Searching
<1>2. ASSUME NEW m \in Members, m \in DOMAIN members',
             req' = [req EXCEPT ![c].stage = "insert", ![c].member = m, ![c].created = TRUE]
      PROVE  /\ req' \in [Clients -> Requests] /\ Working(c)' /\ Searching(c)'
             /\ req'[c].reply = "refused"
  <2> DEFINE row == [req[c] EXCEPT !.stage = "insert", !.member = m, !.created = TRUE]
  <2>1. row \in Requests
    BY <1>1 DEF Requests, Stages
  <2>2. req' \in [Clients -> Requests] /\ req'[c] = row
    <3>1. req' = [req EXCEPT ![c] = row]
      BY <1>2
    <3> HIDE DEF row
    <3> QED
      BY <2>1, <3>1
  <2> QED
    BY <1>1, <1>2, <2>2 DEF Working, Searching, Requests
<1>3. ASSUME Reply(c, "refused")
      PROVE  /\ req' \in [Clients -> Requests] /\ Working(c)' /\ Searching(c)'
             /\ req'[c].reply = "refused"
  <2>1. /\ req' \in [Clients -> Requests]
        /\ req'[c] = [req[c] EXCEPT !.stage = "idle", !.reply = "refused", !.left = <<>>]
    BY <1>3, GoesOn DEF Replies
  <2> QED
    BY <1>1, <2>1 DEF Working, Searching, Requests
<1>4. \A m, external, given : CreateRows(m, external, given) => m \in DOMAIN members'
  BY DEF CreateRows, Inserted
<1> QED
  BY <1>2, <1>3, <1>4 DEF CreateResolved

LEMMA ReplySound ==
  ASSUME req \in [Clients -> Requests], NEW c \in Clients, Searching(c),
         NEW reply \in Replies, Reply(c, reply), UNCHANGED members
  PROVE  /\ req' \in [Clients -> Requests] /\ Working(c)' /\ Searching(c)'
         /\ req'[c].reply = reply /\ req'[c].transaction = req[c].transaction
         /\ req'[c].payload = req[c].payload /\ req'[c].member = req[c].member
<1>1. /\ req' \in [Clients -> Requests]
      /\ req'[c] = [req[c] EXCEPT !.stage = "idle", !.reply = reply, !.left = <<>>]
  BY GoesOn
<1>2. req[c] \in Requests
  OBVIOUS
<1> QED
  BY <1>1, <1>2 DEF Working, Searching, Requests

(***************************************************************************)
(* What one request does keeps all requests as they should be.             *)
(***************************************************************************)
LEMMA RequestsNext ==
  ASSUME IntakeInv, [Next]_vars
  PROVE  req' \in [Clients -> Requests] /\ RequestsKnown' /\ Searched'
<1>1. /\ req \in [Clients -> Requests] /\ Kept
      /\ \A c \in Clients : Working(c) /\ Searching(c)
      /\ DOMAIN members \subseteq Members
      /\ owner \in [Identifiers -> Members \cup {NoMember}]
      /\ \A i \in Identifiers : owner[i] \in DOMAIN members \cup {NoMember}
  BY StepKeeps DEF IntakeInv, RequestsKnown, Searched, Tables
<1>2. ASSUME NEW c \in Clients
      PROVE  Working(c)' /\ Searching(c)'
  <2>1. CASE req'[c] = req[c]
    BY <1>1, <2>1, StillSound
  <2>2. ASSUME NEW b \in Bodies, Receive(c, b) PROVE Working(c)' /\ Searching(c)'
    BY <1>1, <2>2, ReceiveSound
  <2>3. CASE ByExternal(c)
    BY <1>1, <2>3, ByExternalSound
  <2>4. CASE ByIdentifier(c)
    BY <1>1, <2>4, ByIdentifierSound
  <2>5. CASE CreateResolved(c)
    BY <1>1, <2>5, CreateResolvedSound
  <2>6. CASE Insert(c)
    BY <1>1, <2>6, ReplySound DEF Insert, Replies
  <2>7. CASE Abandon(c)
    BY <1>1, <2>7, ReplySound DEF Abandon, Replies
  <2> QED
    BY <1>1, <2>1, <2>2, <2>3, <2>4, <2>5, <2>6, <2>7, RequestStep
<1>3. req' \in [Clients -> Requests]
  <2>1. ASSUME NEW c \in Clients, NEW b \in Bodies, Receive(c, b)
        PROVE  req' \in [Clients -> Requests]
    BY <1>1, <2>1, ReceiveSound
  <2>2. ASSUME NEW c \in Clients, ByExternal(c) PROVE req' \in [Clients -> Requests]
    BY <1>1, <2>2, ByExternalSound
  <2>3. ASSUME NEW c \in Clients, ByIdentifier(c) PROVE req' \in [Clients -> Requests]
    BY <1>1, <2>3, ByIdentifierSound
  <2>4. ASSUME NEW c \in Clients, CreateResolved(c) PROVE req' \in [Clients -> Requests]
    BY <1>1, <2>4, CreateResolvedSound
  <2>5. ASSUME NEW c \in Clients, Insert(c) \/ Abandon(c) PROVE req' \in [Clients -> Requests]
    BY <1>1, <2>5, ReplySound DEF Insert, Abandon, Replies
  <2> QED
    BY <1>1, <2>1, <2>2, <2>3, <2>4, <2>5 DEF Next, vars, CreateMember
<1> QED
  BY <1>2, <1>3 DEF RequestsKnown, Searched

(***************************************************************************)
(* What a request is told of the event with its transaction id.            *)
(***************************************************************************)
Told(c) ==
    req[c].kind # "none" /\ req[c].reply \in {"accepted", "conflict"} =>
        /\ req[c].transaction \in DOMAIN events
        /\ (req[c].reply = "accepted") <=>
              /\ events[req[c].transaction].member = req[c].member
              /\ events[req[c].transaction].payload = req[c].payload

LEMMA InsertTells ==
  ASSUME IntakeInv, NEW c \in Clients, Insert(c)
  PROVE  Told(c)'
<1> DEFINE t == req[c].transaction
           m == req[c].member
           p == req[c].payload
           row == [member |-> m, payload |-> p, hash |-> HashTransactionPayload(m, p)]
<1>1. /\ req \in [Clients -> Requests] /\ Searching(c)
      /\ req[c].stage = "insert" /\ m \in DOMAIN members
  BY DEF IntakeInv, Searched, RequestsKnown, Working, Insert
<1>2. ASSUME NEW reply \in Replies, Reply(c, reply)
      PROVE  /\ req'[c].reply = reply /\ req'[c].transaction = t
             /\ req'[c].payload = p /\ req'[c].member = m
  BY <1>1, <1>2, ReplySound DEF Insert
<1>3. CASE t \in DOMAIN events
  <2>1. events' = events
    BY <1>3 DEF Insert
  <2>2. (events[t].hash = HashTransactionPayload(m, p)) <=> (events[t].member = m /\ events[t].payload = p)
    <3>1. /\ events[t].member \in DOMAIN members
          /\ events[t].hash = <<members[events[t].member], events[t].payload>>
          /\ members[events[t].member] = members[m] => events[t].member = m
      BY <1>1, <1>3 DEF IntakeInv, Tables
    <3> QED
      BY <3>1 DEF HashTransactionPayload
  <2>3. Reply(c, IF events[t].hash = HashTransactionPayload(m, p) THEN "accepted" ELSE "conflict")
    BY <1>3 DEF Insert
  <2>4. CASE events[t].hash = HashTransactionPayload(m, p)
    <3>1. Reply(c, "accepted") /\ "accepted" \in Replies
      BY <2>3, <2>4 DEF Replies
    <3> QED
      BY <1>2, <1>3, <2>1, <2>2, <2>4, <3>1 DEF Told
  <2>5. CASE events[t].hash # HashTransactionPayload(m, p)
    <3>1. Reply(c, "conflict") /\ "conflict" \in Replies
      BY <2>3, <2>5 DEF Replies
    <3> QED
      BY <1>2, <1>3, <2>1, <2>2, <2>5, <3>1 DEF Told
  <2> QED
    BY <2>4, <2>5
<1>4. CASE t \notin DOMAIN events
  <2>1. Reply(c, "accepted") /\ "accepted" \in Replies
    BY <1>4 DEF Insert, Replies
  <2>2. events' = [k \in DOMAIN events \cup {t} |-> IF k = t THEN row ELSE events[k]]
    BY <1>4 DEF Insert, Inserted
  <2>3. t \in DOMAIN events' /\ events'[t].member = m /\ events'[t].payload = p
    BY <2>2
  <2> QED
    BY <1>2, <2>1, <2>3 DEF Told
<1> QED
  BY <1>3, <1>4

LEMMA RepliesNext ==
  ASSUME IntakeInv, [Next]_vars
  PROVE  RepliesTellTheEvent'
<1>1. /\ req \in [Clients -> Requests] /\ Kept
      /\ \A c \in Clients : Working(c) /\ Searching(c) /\ Told(c)
      /\ DOMAIN members \subseteq Members
      /\ owner \in [Identifiers -> Members \cup {NoMember}]
      /\ \A i \in Identifiers : owner[i] \in DOMAIN members \cup {NoMember}
  BY StepKeeps DEF IntakeInv, RequestsKnown, Searched, Tables, RepliesTellTheEvent, Told, Asked
<1>2. ASSUME NEW c \in Clients
      PROVE  Told(c)'
  <2>1. CASE req'[c] = req[c]
    BY <1>1, <2>1 DEF Told, Kept
  <2>2. ASSUME NEW b \in Bodies, Receive(c, b) PROVE Told(c)'
    BY <1>1, <2>2, ReceiveSound DEF Told
  <2>3. CASE ByExternal(c)
    BY <1>1, <2>3, ByExternalSound DEF Told
  <2>4. CASE ByIdentifier(c)
    BY <1>1, <2>4, ByIdentifierSound DEF Told
  <2>5. CASE CreateResolved(c)
    BY <1>1, <2>5, CreateResolvedSound DEF Told
  <2>6. CASE Insert(c)
    BY <2>6, InsertTells
  <2>7. CASE Abandon(c)
    <3>1. req'[c].reply = "none"
      BY <1>1, <2>7, ReplySound DEF Abandon, Replies
    <3> QED
      BY <3>1 DEF Told
  <2> QED
    BY <1>1, <2>1, <2>2, <2>3, <2>4, <2>5, <2>6, <2>7, RequestStep
<1> QED
  BY <1>2 DEF RepliesTellTheEvent, Asked, Told

-----------------------------------------------------------------------------
(***************************************************************************)
(* The inductive invariant of the intake: tables that agree with each      *)
(* other, requests in order, and searches that will find whom they must.   *)
(***************************************************************************)
THEOREM IntakeInvariance == Spec => []IntakeInv
<1>1. IntakeInv /\ [Next]_vars => IntakeInv'
  <2> SUFFICES ASSUME IntakeInv, [Next]_vars PROVE IntakeInv'
    OBVIOUS
  <2>1. Tables'
    BY TablesNext DEF IntakeInv
  <2> QED
    BY <2>1, RequestsNext, RepliesNext DEF IntakeInv
<1> QED
  BY <1>1, IntakeInit, PTL DEF Spec

(***************************************************************************)
(* Types, and every identifier and event belongs to a member that exists.  *)
(***************************************************************************)
THEOREM IntakeTypeCorrect == Spec => []TypeOK
<1>1. IntakeInv => TypeOK
  BY DEF IntakeInv, Tables, Requests, Stages, Replies, RequestsKnown, Working, TypeOK
<1> QED
  BY <1>1, IntakeInvariance, PTL

(***************************************************************************)
(* A reply tells of the event what the event says, whoever inserted it.    *)
(***************************************************************************)
THEOREM RepliesAlwaysTellTheEvent == Spec => []RepliesTellTheEvent
<1>1. IntakeInv => RepliesTellTheEvent
  BY DEF IntakeInv
<1> QED
  BY <1>1, IntakeInvariance, PTL

(***************************************************************************)
(* Whoever was known when the request began is not created again.          *)
(***************************************************************************)
THEOREM KnownNeverDuplicated == Spec => []KnownCustomerNotDuplicated
<1>1. IntakeInv => KnownCustomerNotDuplicated
  BY DEF IntakeInv, Searched, Searching, KnownCustomerNotDuplicated, Asked
<1> QED
  BY <1>1, IntakeInvariance, PTL

-----------------------------------------------------------------------------
(***************************************************************************)
(* A replay goes straight to the member of its event: at every stage, what *)
(* is looked up next is what identifies that member, and its row, the      *)
(* identifier's owner and the event stay as they are.                      *)
(***************************************************************************)
Replaying(c) ==
    req[c].replay =>
        /\ req[c].transaction \in DOMAIN events
        /\ events[req[c].transaction].payload = req[c].payload
        /\ req[c].reply # "conflict" /\ req[c].stage # "create"
        /\ req[c].stage = "idle" => req[c].reply # "refused"
        /\ req[c].stage = "external" =>
              members[events[req[c].transaction].member] = req[c].customer.external
        /\ req[c].stage = "identifiers" =>
              LeadsTo(req[c].left, events[req[c].transaction].member)
        /\ req[c].stage = "insert" => req[c].member = events[req[c].transaction].member

\* What identified a member identifies it ever after.
LEMMA StillReplaying ==
  ASSUME IntakeInv, Kept, NEW c \in Clients, Replaying(c), req'[c] = req[c]
  PROVE  Replaying(c)'
<1> SUFFICES ASSUME req[c].replay PROVE Replaying(c)'
  BY DEF Replaying
<1> DEFINE t == req[c].transaction
           m == events[t].member
<1>1. t \in DOMAIN events /\ m \in DOMAIN members /\ m \in Members
  BY DEF Replaying, IntakeInv, Tables
<1>2. events'[t] = events[t] /\ t \in DOMAIN events' /\ members'[m] = members[m]
  BY <1>1 DEF Kept
<1>3. LeadsTo(req[c].left, m) => LeadsTo(req[c].left, m)'
  <2> HIDE DEF m
  <2>1. req[c].left \in Seq(Identifiers \cup {Blank})
    BY DEF IntakeInv, Requests
  <2>2. \A n \in DOMAIN req[c].left : req[c].left[n] \in Identifiers \cup {Blank}
    BY <2>1
  <2>3. \A i \in Identifiers : owner[i] = m => owner'[i] = m
    BY <1>1, NamesAssumption DEF Kept
  <2>4. PICK given : given = req[c].left
    OBVIOUS
  <2>5. LeadsTo(given, m) =>
          \E n \in DOMAIN given : /\ given[n] # Blank /\ owner'[given[n]] = m
                                  /\ \A k \in DOMAIN given : k < n => given[k] = Blank
    BY <2>2, <2>3, <2>4 DEF LeadsTo
  <2> QED
    BY <2>4, <2>5, <1>2 DEF LeadsTo, m
<1> QED
  BY <1>1, <1>2, <1>3 DEF Replaying

\* A request that is a replay when it comes is on its way to the member.
LEMMA ReceiveReplays ==
  ASSUME IntakeInv, NEW c \in Clients, NEW b \in Bodies, Receive(c, b)
  PROVE  Replaying(c)'
<1>1. PICK t :
        /\ b.transaction # NoTransaction => t = b.transaction
        /\ req' = [req EXCEPT ![c] =
              [stage |-> FirstStage(b), kind |-> b.kind, customer |-> b.customer,
               transaction |-> t, payload |-> b.payload, left |-> b.customer.identifiers,
               member |-> IF b.kind = "manual" THEN b.member ELSE NoMember, created |-> FALSE,
               known |-> IsKnown(b.customer), replay |-> IsReplay(b), reply |-> "refused"]]
  BY DEF Receive
<1> DEFINE m == events[b.transaction].member
           row == req'[c]
<1>2. /\ row.stage = FirstStage(b) /\ row.transaction = t /\ row.customer = b.customer
      /\ row.payload = b.payload /\ row.left = b.customer.identifiers
      /\ row.member = IF b.kind = "manual" THEN b.member ELSE NoMember
      /\ row.reply = "refused" /\ row.replay = IsReplay(b)
  BY <1>1 DEF IntakeInv
<1> SUFFICES ASSUME IsReplay(b) PROVE Replaying(c)'
  BY <1>2 DEF Replaying
<1>3. UNCHANGED <<members, owner, events>>
  BY DEF Receive
<1>4. b.transaction \in DOMAIN events /\ events[b.transaction].payload = b.payload
  BY DEF IsReplay
<1>5. b.transaction # NoTransaction /\ m \in DOMAIN members /\ t = b.transaction
  <2>1. b.transaction \in Transactions \cup Generated
    BY <1>4 DEF IntakeInv, Tables
  <2> QED
    BY <1>1, <1>4, <2>1, BodyAssumption DEF IntakeInv, Tables
<1>6. \/ b.kind = "manual" /\ b.member = m
      \/ /\ b.kind # "manual" /\ b.customer.external # Empty
         /\ members[m] = b.customer.external
         /\ b.kind = "normalized" => Trimmed[b.customer.external] # Empty
      \/ /\ b.kind = "normalized" /\ b.customer.external = Empty
         /\ LeadsTo(b.customer.identifiers, m)
  BY DEF IsReplay
<1>7. b.kind \in {"direct", "normalized", "manual"}
  BY BodyAssumption
<1>8. /\ FirstStage(b) \in {"insert", "external", "identifiers"}
      /\ FirstStage(b) = "insert" => b.kind = "manual" /\ b.member = m
      /\ FirstStage(b) = "external" => members[m] = b.customer.external
      /\ FirstStage(b) = "identifiers" => LeadsTo(b.customer.identifiers, m)
  <2>1. CASE b.kind = "manual"
    BY <1>5, <1>6, <2>1 DEF FirstStage, MemberExists
  <2>2. CASE b.kind = "direct"
    BY <1>6, <2>2 DEF FirstStage
  <2>3. CASE b.kind = "normalized" /\ b.customer.external # Empty
    BY <1>6, <2>3 DEF FirstStage
  <2>4. CASE b.kind = "normalized" /\ b.customer.external = Empty
    <3>1. LeadsTo(b.customer.identifiers, m)
      BY <1>6, <2>4
    <3>2. b.customer.identifiers # <<>>
      BY <3>1 DEF LeadsTo
    <3> QED
      BY <2>4, <3>1, <3>2 DEF FirstStage
  <2> QED
    BY <1>7, <2>1, <2>2, <2>3, <2>4
<1>9. \A given, n : LeadsTo(given, n)' <=> LeadsTo(given, n)
  BY <1>3 DEF LeadsTo
<1> QED
  BY <1>2, <1>3, <1>4, <1>5, <1>8, <1>9 DEF Replaying

\* Its external id finds it.
LEMMA ByExternalReplays ==
  ASSUME IntakeInv, NEW c \in Clients, Replaying(c), ByExternal(c)
  PROVE  Replaying(c)'
<1> DEFINE t == req[c].transaction
           m == events[t].member
<1>1. req[c].stage = "external" /\ UNCHANGED <<members, owner, events>> /\ req[c] \in Requests
  BY DEF ByExternal, IntakeInv
<1>2. ASSUME req[c].replay
      PROVE  /\ t \in DOMAIN events /\ events[t].payload = req[c].payload
             /\ req[c].reply # "conflict"
             /\ Named(req[c].customer.external) = {m} /\ m \in Members
  <2>1. /\ t \in DOMAIN events /\ members[m] = req[c].customer.external
        /\ events[t].payload = req[c].payload /\ req[c].reply # "conflict"
    BY <1>1, <1>2 DEF Replaying
  <2> QED
    BY <2>1 DEF IntakeInv, Tables, Named
<1>3. ASSUME NEW stage \in Stages, Go(c, stage), ~req[c].replay PROVE Replaying(c)'
  <2>1. req'[c] = [req[c] EXCEPT !.stage = stage]
    BY <1>3, GoesOn DEF IntakeInv
  <2> QED
    BY <1>1, <1>3, <2>1 DEF Replaying, Requests
<1>4. ASSUME Reply(c, "refused"), ~req[c].replay PROVE Replaying(c)'
  <2>1. req'[c] = [req[c] EXCEPT !.stage = "idle", !.reply = "refused", !.left = <<>>]
    BY <1>4, GoesOn DEF IntakeInv, Replies
  <2> QED
    BY <1>1, <1>4, <2>1 DEF Replaying, Requests
<1>5. ASSUME NEW n \in Named(req[c].customer.external), Found(c, n) PROVE Replaying(c)'
  <2>1. n \in Members
    BY DEF Named, IntakeInv, Tables
  <2>2. req'[c] = [req[c] EXCEPT !.stage = "insert", !.member = n]
    BY <1>5, <2>1, GoesOn DEF IntakeInv
  <2>3. /\ req'[c].stage = "insert" /\ req'[c].member = n /\ req'[c].replay = req[c].replay
        /\ req'[c].transaction = t /\ req'[c].payload = req[c].payload
        /\ req'[c].reply = req[c].reply
    BY <1>1, <2>2 DEF Requests
  <2>4. req[c].replay => n = m
    BY <1>2
  <2> QED
    BY <1>1, <1>2, <2>3, <2>4 DEF Replaying
<1>6. req[c].replay => Named(req[c].customer.external) # {}
  BY <1>2
<1> QED
  BY <1>3, <1>4, <1>5, <1>6 DEF ByExternal, Stages

\* Its first identifier finds it.
LEMMA ByIdentifierReplays ==
  ASSUME IntakeInv, NEW c \in Clients, Replaying(c), ByIdentifier(c)
  PROVE  Replaying(c)'
<1> DEFINE t == req[c].transaction
           m == events[t].member
           left == req[c].left
           i == Head(left)
<1>1. /\ req[c].stage = "identifiers" /\ UNCHANGED <<members, owner, events>>
      /\ req[c] \in Requests /\ left \in Seq(Identifiers \cup {Blank})
  BY DEF ByIdentifier, IntakeInv, Requests
<1>2. ASSUME req[c].replay
      PROVE  /\ t \in DOMAIN events /\ events[t].payload = req[c].payload
             /\ req[c].reply # "conflict" /\ LeadsTo(left, m) /\ m # NoMember
  <2>1. /\ t \in DOMAIN events /\ LeadsTo(left, m)
        /\ events[t].payload = req[c].payload /\ req[c].reply # "conflict"
    BY <1>1, <1>2 DEF Replaying
  <2>2. m \in Members
    BY <2>1 DEF IntakeInv, Tables
  <2> QED
    BY <2>1, <2>2, NamesAssumption
<1>3. CASE left = <<>>
  <2>1. ~req[c].replay
    BY <1>2, <1>3 DEF LeadsTo
  <2>2. req'[c] = [req[c] EXCEPT !.stage = "create"]
    BY <1>3, GoesOn DEF ByIdentifier, IntakeInv, Stages
  <2> QED
    BY <1>1, <2>1, <2>2 DEF Replaying, Requests
<1>4. ASSUME left # <<>>, req[c].replay
      PROVE  IF i = Blank THEN LeadsTo(Tail(left), m) ELSE owner[i] = m
  <2>1. PICK n \in DOMAIN left : /\ left[n] # Blank /\ owner[left[n]] = m
                                 /\ \A k \in DOMAIN left : k < n => left[k] = Blank
    BY <1>2, <1>4 DEF LeadsTo
  <2> HIDE DEF m
  <2>2. DOMAIN left = 1 .. Len(left) /\ Len(left) \in Nat /\ 1 \in DOMAIN left /\ i = left[1]
    BY <1>1, <1>4
  <2>3. CASE i # Blank
    <3>1. n = 1
      BY <2>1, <2>2, <2>3
    <3> QED
      BY <2>1, <2>2, <2>3, <3>1
  <2>4. CASE i = Blank
    <3> DEFINE rest == Tail(left)
    <3>1. n # 1
      BY <2>1, <2>2, <2>4
    <3>2. /\ DOMAIN rest = 1 .. (Len(left) - 1)
          /\ \A k \in 1 .. (Len(left) - 1) : rest[k] = left[k + 1]
      BY <1>1, <1>4
    <3> HIDE DEF rest, left
    <3>3. n - 1 \in DOMAIN rest /\ rest[n - 1] = left[n]
      BY <2>1, <2>2, <3>1, <3>2
    <3>4. ASSUME NEW k \in DOMAIN rest, k < n - 1 PROVE rest[k] = Blank
      <4>1. k \in 1 .. (Len(left) - 1) /\ n \in 1 .. Len(left) /\ Len(left) \in Nat
        BY <2>1, <2>2, <3>2
      <4>2. k + 1 \in 1 .. Len(left) /\ k + 1 < n
        BY <4>1, <3>4
      <4> QED
        BY <2>1, <2>2, <3>2, <4>1, <4>2
    <3>5. LeadsTo(rest, m)
      <4>1. PICK q \in DOMAIN rest : q = n - 1
        BY <3>3
      <4>2. rest[q] # Blank /\ owner[rest[q]] = m /\ \A k \in DOMAIN rest : k < q => rest[k] = Blank
        BY <2>1, <3>3, <3>4, <4>1
      <4> QED
        BY <4>2 DEF LeadsTo
    <3> QED
      BY <2>4, <3>5 DEF rest
  <2> QED
    BY <2>3, <2>4
<1>5. CASE left # <<>> /\ i # Blank /\ owner[i] # NoMember
  <2>1. i \in Identifiers
    BY <1>1, <1>5
  <2>2. PICK n \in Members : n = owner[i]
    BY <1>5, <2>1 DEF IntakeInv, Tables
  <2>3. Found(c, n)
    BY <1>5, <2>2 DEF ByIdentifier
  <2>4. req'[c] = [req[c] EXCEPT !.stage = "insert", !.member = n]
    BY <2>3, GoesOn DEF IntakeInv
  <2>5. /\ req'[c].stage = "insert" /\ req'[c].member = n /\ req'[c].replay = req[c].replay
        /\ req'[c].transaction = t /\ req'[c].payload = req[c].payload
        /\ req'[c].reply = req[c].reply
    BY <1>1, <2>4 DEF Requests
  <2>6. req[c].replay => n = m
    BY <1>4, <1>5, <2>2
  <2> QED
    BY <1>1, <1>2, <2>5, <2>6 DEF Replaying
<1>6. CASE left # <<>> /\ ~(i # Blank /\ owner[i] # NoMember)
  <2>1. req' = [req EXCEPT ![c].left = Tail(@)]
    BY <1>6 DEF ByIdentifier
  <2>2. req'[c] = [req[c] EXCEPT !.left = Tail(@)]
    BY <2>1 DEF IntakeInv
  <2>3. /\ req'[c].stage = "identifiers" /\ req'[c].left = Tail(left)
        /\ req'[c].replay = req[c].replay
        /\ req'[c].transaction = t /\ req'[c].payload = req[c].payload
        /\ req'[c].reply = req[c].reply
    BY <1>1, <2>2 DEF Requests
  <2>4. req[c].replay => LeadsTo(Tail(left), m)
    BY <1>2, <1>4, <1>6
  <2>5. \A given, n : LeadsTo(given, n)' <=> LeadsTo(given, n)
    BY <1>1 DEF LeadsTo
  <2> QED
    BY <1>1, <1>2, <2>3, <2>4, <2>5 DEF Replaying
<1> QED
  BY <1>3, <1>5, <1>6

\* The event it finds is its own.
LEMMA ReplyReplays ==
  ASSUME IntakeInv, NEW c \in Clients, Replaying(c),
         Insert(c) \/ Abandon(c) \/ CreateResolved(c)
  PROVE  Replaying(c)'
<1> DEFINE t == req[c].transaction
           m == events[t].member
<1>0. req[c] \in Requests
  BY DEF IntakeInv
<1>1. ASSUME NEW reply \in Replies, Reply(c, reply), UNCHANGED events,
             req[c].replay => reply \notin {"conflict", "refused"}
      PROVE  Replaying(c)'
  <2>1. req'[c] = [req[c] EXCEPT !.stage = "idle", !.reply = reply, !.left = <<>>]
    BY <1>1, GoesOn DEF IntakeInv
  <2>2. /\ req'[c].stage = "idle" /\ req'[c].reply = reply /\ req'[c].replay = req[c].replay
        /\ req'[c].transaction = t /\ req'[c].payload = req[c].payload
    BY <1>0, <2>1 DEF Requests
  <2> QED
    BY <1>1, <2>2 DEF Replaying
<1>2. CASE Abandon(c)
  BY <1>1, <1>2 DEF Abandon, Replies
<1>3. CASE CreateResolved(c)
  <2>1. ~req[c].replay
    BY <1>3 DEF CreateResolved, Replaying
  <2>2. req'[c].replay = req[c].replay
    <3>1. ASSUME NEW n, req' = [req EXCEPT ![c].stage = "insert", ![c].member = n,
                                           ![c].created = TRUE]
          PROVE  req'[c].replay = req[c].replay
      <4> DEFINE row == [req[c] EXCEPT !.stage = "insert", !.member = n, !.created = TRUE]
      <4>1. req' = [req EXCEPT ![c] = row] /\ row.replay = req[c].replay
        BY <1>0, <3>1 DEF Requests
      <4> HIDE DEF row
      <4> QED
        BY <4>1 DEF IntakeInv
    <3>2. ASSUME Reply(c, "refused") PROVE req'[c].replay = req[c].replay
      BY <1>0, <3>2 DEF Reply, IntakeInv, Requests
    <3> QED
      BY <1>3, <3>1, <3>2 DEF CreateResolved
  <2> QED
    BY <2>1, <2>2 DEF Replaying
<1>4. CASE Insert(c)
  <2>1. ASSUME req[c].replay
        PROVE  /\ t \in DOMAIN events
               /\ events[t].hash = HashTransactionPayload(req[c].member, req[c].payload)
    BY <1>4, <2>1 DEF Insert, Replaying, IntakeInv, Tables, HashTransactionPayload
  <2>2. CASE req[c].replay
    <3>1. Reply(c, "accepted") /\ UNCHANGED events
      BY <1>4, <2>1, <2>2 DEF Insert
    <3> QED
      BY <1>1, <3>1 DEF Replies
  <2>3. CASE ~req[c].replay
    <3>1. PICK reply \in Replies : Reply(c, reply)
      BY <1>4 DEF Insert, Replies
    <3>2. req'[c] = [req[c] EXCEPT !.stage = "idle", !.reply = reply, !.left = <<>>]
      BY <3>1, GoesOn DEF IntakeInv
    <3>3. req'[c].replay = req[c].replay
      BY <1>0, <3>2 DEF Requests
    <3> QED
      BY <2>3, <3>3 DEF Replaying
  <2> QED
    BY <2>2, <2>3
<1> QED
  BY <1>2, <1>3, <1>4

(***************************************************************************)
(* A request that is sent again after its answer was lost is answered with *)
(* its event, whatever other requests create meanwhile.                    *)
(***************************************************************************)
THEOREM ReplaysAlwaysAccepted == Spec => []ReplayAccepted
<1> DEFINE AllReplaying == \A c \in Clients : Replaying(c)
<1>1. Init => AllReplaying
  BY DEF Init, Idle, Replaying
<1>2. IntakeInv /\ AllReplaying /\ [Next]_vars => AllReplaying'
  <2> SUFFICES ASSUME IntakeInv, AllReplaying, [Next]_vars, NEW c \in Clients
               PROVE  Replaying(c)'
    OBVIOUS
  <2>1. Replaying(c)
    OBVIOUS
  <2> HIDE DEF AllReplaying
  <2> QED
    BY <2>1, RequestStep, StepKeeps, StillReplaying, ReceiveReplays, ByExternalReplays,
       ByIdentifierReplays, ReplyReplays
    DEF IntakeInv
<1>3. AllReplaying => ReplayAccepted
  BY DEF Replaying, ReplayAccepted, Asked
<1> HIDE DEF AllReplaying
<1> QED
  BY <1>1, <1>2, <1>3, IntakeInvariance, PTL DEF Spec
=============================================================================
