------------------------------ MODULE Outcomes ------------------------------
(***************************************************************************)
(* What reward processing promises for an event: one outcome, for good.    *)
(* An accepted event is either rewarded, and then its points reach its     *)
(* member in the same step, or refused; it is never both, and never twice. *)
(* No batches, no workers, no failures, nothing read ahead of its use.     *)
(***************************************************************************)
EXTENDS Integers

CONSTANTS
    Account,
    Event,
    Member              \* Member[e]: the account the event is about

VARIABLES
    outcome,            \* per event: how far it is, and the points it gave
    available           \* the points available to each account

vars == <<outcome, available>>

Stage(state, points) == [state |-> state, points |-> points]

Init ==
    /\ outcome = [e \in Event |-> Stage("absent", 0)]
    /\ available = [a \in Account |-> 0]

Accept(e) ==
    /\ outcome[e].state = "absent"
    /\ outcome' = [outcome EXCEPT ![e] = Stage("accepted", 0)]
    /\ UNCHANGED available

\* The points given or taken back, if any, move with the outcome.
Reward(e) ==
    LET points == outcome'[e].points
    IN /\ outcome[e].state = "accepted"
       /\ outcome' = [outcome EXCEPT ![e] = Stage("rewarded", points)]
       /\ available' = IF points = 0 THEN available
                       ELSE [available EXCEPT ![Member[e]] = @ + points]

Refuse(e) ==
    /\ outcome[e].state = "accepted"
    /\ outcome' = [outcome EXCEPT ![e] = Stage("refused", 0)]
    /\ UNCHANGED available

Next == \E e \in Event : Accept(e) \/ Reward(e) \/ Refuse(e)

Spec == Init /\ [][Next]_vars
=============================================================================
