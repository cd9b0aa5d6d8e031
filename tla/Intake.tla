------------------------------- MODULE Intake -------------------------------
(***************************************************************************)
(* The intake of transactions: who the customer is, and the one event that *)
(* an external transaction id stands for.                                  *)
(*                                                                         *)
(* A request first finds its member, or creates one, and then inserts its  *)
(* event.  Only the creation and the insertion are transactions; every     *)
(* lookup before them is a read of its own, and nothing is locked between. *)
(* Nothing in the code ends a member or a partner, so that both are        *)
(* active.  Amounts, lines and dates are one value, the payload.           *)
(***************************************************************************)
EXTENDS Naturals, Sequences, Functions

CONSTANTS
    Clients,
    Members,            \* names for the members that may be created (a bound)
    NoMember,
    Externals,          \* external customer ids, Empty among them
    Empty,
    Trimmed,            \* of an external id: the id without its outer spaces
    Identifiers,        \* normalised identifiers, such as a phone number
    Blank,              \* an identifier that is only spaces
    Transactions,       \* external transaction ids
    Generated,          \* ids generated for manual entries without one
    NoTransaction,
    Customers,          \* [external, identifiers]
    Bodies              \* requests, as records

ASSUME TrimmedAssumption ==
    /\ Empty \in Externals /\ Trimmed \in [Externals -> Externals]
    /\ \A e \in Externals : Trimmed[Trimmed[e]] = Trimmed[e]
    /\ Trimmed[Empty] = Empty
ASSUME NamesAssumption ==
    NoMember \notin Members /\ Members \cap Externals = {} /\ Blank \notin Identifiers
IsCustomer(k) == k.external \in Externals /\ k.identifiers \in Seq(Identifiers \cup {Blank})

ASSUME CustomerAssumption == \A k \in Customers : IsCustomer(k)
ASSUME BodyAssumption ==
    /\ NoTransaction \notin Transactions \cup Generated
    /\ \A b \in Bodies : /\ b.kind \in {"direct", "normalized", "manual"}
                         /\ b.transaction \in Transactions \cup {NoTransaction}
                         /\ IsCustomer(b.customer) /\ b.member \in Members \cup {NoMember}
                         /\ b.kind = "manual" => b.member \in Members

VARIABLES
    members,            \* of each member created: its external id
    owner,              \* member_identifiers: the member an identifier belongs to
    events,             \* transaction_events, by external transaction id
    req                 \* of each client: its request in flight or its last one

vars == <<members, owner, events, req>>

-----------------------------------------------------------------------------
(* Lookups.                                                                *)

Named(e) == {m \in DOMAIN members : members[m] = e}

\* Seeded bug: the member id of a manual entry is taken on trust.
MemberTrusted(m) == TRUE

\* GetByID
MemberExists(m) == m \in DOMAIN members

\* A member without an external id gets a generated one: its own name.
ExternalFor(m, e) == IF Trimmed[e] = Empty THEN m ELSE Trimmed[e]

\* Seeded bug: the hash leaves the customer out.
HashOfPayload(m, payload) == <<payload>>

\* The hash of a request covers its payload and its member's external id.
HashTransactionPayload(m, payload) == <<members[m], payload>>

\* Whether the lookups would find somebody if nothing changed meanwhile.
IsKnown(k) ==
    \/ k.external # Empty /\ Named(k.external) # {}
    \/ \E i \in Range(k.identifiers) \cap Identifiers : owner[i] # NoMember

\* The first identifier that is not blank is the member's.
LeadsTo(given, m) ==
    \E n \in DOMAIN given : /\ given[n] # Blank /\ owner[given[n]] = m
                            /\ \A k \in DOMAIN given : k < n => given[k] = Blank

\* The request says again what an event of its customer says, and the customer
\* is identified by what is looked up first.  (An external id that is only spaces
\* is no identification of a normalized request.)
IsReplay(b) ==
    /\ b.transaction \in DOMAIN events
    /\ events[b.transaction].payload = b.payload
    /\ LET m == events[b.transaction].member
           external == b.customer.external
       IN \/ b.kind = "manual" /\ b.member = m
          \/ /\ b.kind # "manual" /\ external # Empty /\ members[m] = external
             /\ b.kind = "normalized" => Trimmed[external] # Empty
          \/ b.kind = "normalized" /\ external = Empty /\ LeadsTo(b.customer.identifiers, m)

-----------------------------------------------------------------------------
NoCustomer == [external |-> Empty, identifiers |-> <<>>]

Idle == [stage |-> "idle", kind |-> "none", customer |-> NoCustomer,
         transaction |-> NoTransaction, payload |-> "none", left |-> <<>>, member |-> NoMember,
         created |-> FALSE, known |-> FALSE, replay |-> FALSE, reply |-> "none"]

Init ==
    /\ members = <<>>
    /\ owner = [i \in Identifiers |-> NoMember]
    /\ events = <<>>
    /\ req = [c \in Clients |-> Idle]

Go(c, stage) == req' = [req EXCEPT ![c].stage = stage]
Found(c, m) == req' = [req EXCEPT ![c].stage = "insert", ![c].member = m]
Reply(c, reply) == req' = [req EXCEPT ![c].stage = "idle", ![c].reply = reply, ![c].left = <<>>]

\* A direct request names an existing member's external id; a normalized one
\* describes a customer; a manual one names the member itself (one that describes
\* a customer goes on as a normalized one).  A request that says nothing of its
\* customer, or names a member who does not exist, is refused.
FirstStage(b) ==
    CASE b.kind = "manual" -> IF MemberExists(b.member) THEN "insert" ELSE "idle"
      [] b.kind = "direct" -> "external"
      [] b.kind = "normalized" ->
           IF Trimmed[b.customer.external] = Empty /\ b.customer.identifiers = <<>> THEN "idle"
           ELSE IF b.customer.external # Empty THEN "external" ELSE "identifiers"

Receive(c, b) ==
    /\ req[c].stage = "idle"
    /\ \E t \in IF b.transaction # NoTransaction THEN {b.transaction}
                ELSE Generated \ (DOMAIN events \cup {req[d].transaction : d \in
                                     {e \in Clients : req[e].stage # "idle"}}) :
          req' = [req EXCEPT ![c] =
            [stage |-> FirstStage(b), kind |-> b.kind, customer |-> b.customer, transaction |-> t,
             payload |-> b.payload, left |-> b.customer.identifiers,
             member |-> IF b.kind = "manual" THEN b.member ELSE NoMember,
             created |-> FALSE, known |-> IsKnown(b.customer), replay |-> IsReplay(b),
             reply |-> "refused"]]
    /\ UNCHANGED <<members, owner, events>>

\* Seeded bug: a known identifier goes before the external id.
ByIdentifierFirst(c) ==
    /\ req[c].stage = "external"
    /\ LET known == {i \in Range(req[c].left) \cap Identifiers : owner[i] # NoMember}
           named == Named(req[c].customer.external)
       IN \/ \E i \in known : Found(c, owner[i])
          \/ known = {} /\ \E m \in named : Found(c, m)
          \/ known \cup named = {} /\ req[c].kind = "direct" /\ Reply(c, "refused")
          \/ known \cup named = {} /\ req[c].kind # "direct" /\ Go(c, "identifiers")
    /\ UNCHANGED <<members, owner, events>>

\* GetByExternalID, with the external id as it was given.
ByExternal(c) ==
    /\ req[c].stage = "external"
    /\ LET named == Named(req[c].customer.external)
       IN \/ \E m \in named : Found(c, m)
          \/ named = {} /\ req[c].kind = "direct" /\ Reply(c, "refused")
          \/ named = {} /\ req[c].kind # "direct" /\ Go(c, "identifiers")
    /\ UNCHANGED <<members, owner, events>>

\* Seeded bug: only the first identifier is looked up.
ByFirstIdentifier(c) ==
    /\ req[c].stage = "identifiers"
    /\ IF req[c].left # <<>> /\ Head(req[c].left) # Blank /\ owner[Head(req[c].left)] # NoMember
       THEN Found(c, owner[Head(req[c].left)])
       ELSE Go(c, "create")
    /\ UNCHANGED <<members, owner, events>>

\* GetByIdentifierHash, one identifier after another; blank ones are passed over.
ByIdentifier(c) ==
    /\ req[c].stage = "identifiers"
    /\ IF req[c].left = <<>> THEN Go(c, "create")
       ELSE LET i == Head(req[c].left)
            IN IF i # Blank /\ owner[i] # NoMember THEN Found(c, owner[i])
               ELSE req' = [req EXCEPT ![c].left = Tail(@)]
    /\ UNCHANGED <<members, owner, events>>

\* The table with a row more.
Inserted(table, key, row) == [k \in DOMAIN table \cup {key} |-> IF k = key THEN row ELSE table[k]]

\* Seeded bug: an identifier moves to the member created last.
MoveIdentifiers(m, given) ==
    owner' = [i \in Identifiers |-> IF i \in Range(given) THEN m ELSE owner[i]]

\* ON CONFLICT DO NOTHING: an identifier that has an owner keeps it.
InsertIdentifierHash(m, given) ==
    owner' = [i \in Identifiers |-> IF i \in Range(given) /\ owner[i] = NoMember THEN m ELSE owner[i]]

\* The member with its account, balance snapshot and identifiers, if its
\* external id is free.
CreateRows(m, external, given) ==
    /\ m \in Members \ DOMAIN members
    /\ Named(external) = {}
    /\ members' = Inserted(members, m, external)
    /\ InsertIdentifierHash(m, given)

CreateResolved(c) ==
    /\ req[c].stage = "create"
    /\ \/ /\ \E m \in Members :
                /\ CreateRows(m, ExternalFor(m, req[c].customer.external),
                              req[c].customer.identifiers)
                /\ req' = [req EXCEPT ![c].stage = "insert", ![c].member = m, ![c].created = TRUE]
       \/ /\ Trimmed[req[c].customer.external] # Empty
          /\ Named(Trimmed[req[c].customer.external]) # {}
          /\ Reply(c, "refused")
          /\ UNCHANGED <<members, owner>>
    /\ UNCHANGED events

\* MemberService.CreateMember: one transaction, the external id not trimmed.  (A
\* blank identifier is stored, and never looked up.)
CreateMember(k) ==
    /\ \E m \in Members : CreateRows(m, k.external, k.identifiers)
    /\ UNCHANGED <<events, req>>

\* The insertion of the event with its lines.  If the transaction id is taken,
\* the hashes tell a replay from a conflict.
Insert(c) ==
    /\ req[c].stage = "insert"
    /\ LET t == req[c].transaction
           hash == HashTransactionPayload(req[c].member, req[c].payload)
       IN IF t \in DOMAIN events
          THEN /\ Reply(c, IF events[t].hash = hash THEN "accepted" ELSE "conflict")
               /\ UNCHANGED events
          ELSE /\ events' = Inserted(events, t, [member |-> req[c].member,
                                                 payload |-> req[c].payload, hash |-> hash])
               /\ Reply(c, "accepted")
    /\ UNCHANGED <<members, owner>>

\* The request is cancelled, or a statement fails: the transaction in progress
\* has no effect, those before it remain.  The client may send it again.
Abandon(c) ==
    /\ req[c].stage # "idle"
    /\ Reply(c, "none")
    /\ UNCHANGED <<members, owner, events>>

Next ==
    \/ \E c \in Clients :
          \/ \E b \in Bodies : Receive(c, b)
          \/ ByExternal(c)
          \/ ByIdentifier(c)
          \/ CreateResolved(c)
          \/ Insert(c)
          \/ Abandon(c)
    \/ \E k \in Customers : CreateMember(k)

Spec == Init /\ [][Next]_vars
-----------------------------------------------------------------------------
(* Properties.                                                             *)

Asked == {c \in Clients : req[c].kind # "none"}

\* Types; every identifier and every event belongs to a member that exists.
TypeOK ==
    /\ DOMAIN members \subseteq Members /\ \A m \in DOMAIN members : members[m] \in Externals \cup {m}
    /\ \A i \in Identifiers : owner[i] \in DOMAIN members \cup {NoMember}
    /\ \A t \in DOMAIN events : /\ t \in Transactions \cup Generated
                                /\ events[t].member \in DOMAIN members
    /\ \A c \in Clients : /\ req[c].stage \in {"idle", "external", "identifiers", "create", "insert"}
                          /\ req[c].reply \in {"none", "refused", "accepted", "conflict"}
                          /\ req[c].stage = "insert" => req[c].member \in DOMAIN members

\* An accepted request is told of an event that says what it says of the member
\* it was resolved to, and a conflict means that the event says something else:
\* also when two first copies of one event race.
RepliesTellTheEvent ==
    \A c \in Asked : req[c].reply \in {"accepted", "conflict"} =>
        /\ req[c].transaction \in DOMAIN events
        /\ LET event == events[req[c].transaction]
           IN (req[c].reply = "accepted") <=>
                (event.member = req[c].member /\ event.payload = req[c].payload)

\* A request that is sent again, after its answer was lost, is answered with its
\* event: neither refused nor taken for a conflict, whatever members and
\* identifiers other requests create meanwhile.  The customer must be identified
\* by what is looked up first: the external id, or else the first identifier.
ReplayAccepted ==
    \A c \in Asked : req[c].replay => req[c].reply # "conflict"
                     /\ (req[c].stage = "idle" => req[c].reply # "refused")

\* A customer whom an external id or any identifier makes known when the request
\* starts is not created a second time.
KnownCustomerNotDuplicated ==
    \A c \in Asked : req[c].created => ~req[c].known

\* No request, late or racing, changes what another one wrote: a member's
\* external id, an identifier's owner, an event.
WrittenOnce ==
    [][/\ \A m \in DOMAIN members : m \in DOMAIN members' /\ members'[m] = members[m]
       /\ \A i \in Identifiers : owner[i] # NoMember => owner'[i] = owner[i]
       /\ \A t \in DOMAIN events : t \in DOMAIN events' /\ events'[t] = events[t]]_vars
=============================================================================
