---------------------------- MODULE MCReporting ----------------------------
(* A small instance of Reporting. *)
EXTENDS Reporting, TLC

CONSTANTS a1

\* Two purchases of one member that together exceed the limit, and a refund of the
\* first.
ThreeEvents == [type     |-> <<"purchase", "purchase", "refund">>,
                original |-> <<0, 0, 1>>,
                eligible |-> <<5, 4, 3>>]

REType == ThreeEvents.type
REMember == [e \in Event |-> a1]
REOriginal == ThreeEvents.original
REEligible == ThreeEvents.eligible

\* A limit usage row with a point used.
REUsage == [a \in Account |-> [exists |-> TRUE, points |-> 1]]

\* Redemptions of two points each, and corrections that take one away.
Redeemers == [r \in Redemption |-> a1]
TwoPoints == [r \in Redemption |-> 2]
Adjustees == [s \in AdjustmentSource |-> a1]
Corrections == [s \in AdjustmentSource |-> [available |-> -1, reserved |-> 0, expired |-> 0]]

\* The export of the first day is requested on that day, without a date, and
\* again on the second.
TodayThenAgain == <<{NoDate}, {1}>>

\* Two concurrent calls of the job cannot be told apart.
Calls == Permutations(Worker)
=============================================================================
