------------------------------ MODULE MCIntake ------------------------------
(* A small instance of Intake for TLC. *)
EXTENDS Intake, TLC

CONSTANTS m1, card, padded, phone, mail, t1, t2, p1, p2

MCTrimmed == (card :> card) @@ (padded :> card) @@ (Empty :> Empty)

Customer(external, identifiers) == [external |-> external, identifiers |-> identifiers]

\* A card holder with a phone, the same typed with a space, a customer known by
\* phone or mail only, and one without anything but a blank identifier.
CardHolder == Customer(card, <<phone>>)
Padded == Customer(padded, <<mail>>)
Caller == Customer(Empty, <<phone, mail>>)
Nobody == Customer(Empty, <<Blank>>)

MCCustomers == {CardHolder, Caller}

Body(kind, transaction, customer, payload) ==
    [kind |-> kind, transaction |-> transaction, customer |-> customer, payload |-> payload,
     member |-> NoMember]

MCBodies ==
    {Body("normalized", t1, CardHolder, p1),
     Body("normalized", t1, Caller, p1),
     Body("normalized", t1, Nobody, p1),
     Body("normalized", t2, Padded, p1),
     Body("normalized", NoTransaction, Caller, p1),
     Body("direct", t1, Customer(card, <<>>), p2),
     [Body("manual", t2, Customer(Empty, <<>>), p1) EXCEPT !.member = m1]}

Symmetry == Permutations(Clients)
=============================================================================
