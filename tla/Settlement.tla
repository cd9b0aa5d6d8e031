----------------------------- MODULE Settlement -----------------------------
(***************************************************************************)
(* What redemptions promise a member: points taken for a redemption are    *)
(* held, and what is held is settled once, spent or returned in full.      *)
(* A hold is one step here, and so is its settlement: no requests, no      *)
(* prices, no ledger, nothing that can happen in between.  Other parts of  *)
(* the program give and take points on the same accounts.                  *)
(***************************************************************************)
EXTENDS Integers

CONSTANTS
    Account,
    Redemption,
    NoAccount,
    Points,             \* the points a hold may take
    Amount              \* what others may add to an account in one step

VARIABLES
    funds,              \* the available and the reserved points of an account
    hold                \* per redemption: its state, account and points

vars == <<funds, hold>>

Nothing == [state |-> "none", account |-> NoAccount, points |-> 0]

Init ==
    /\ funds = [a \in Account |-> [available |-> 0, reserved |-> 0]]
    /\ hold = [r \in Redemption |-> Nothing]

\* An account gets an amount; more than is reserved cannot be taken from reserved.
Move(a, available, reserved) ==
    /\ funds[a].reserved + reserved >= 0
    /\ funds' = [funds EXCEPT ![a] = [available |-> @.available + available,
                                      reserved |-> @.reserved + reserved]]

Become(r, state) == hold' = [hold EXCEPT ![r] = [@ EXCEPT !.state = state]]

\* Available points, no more than there are, are set aside for a redemption.
Hold(r, a, points) ==
    /\ hold[r] = Nothing
    /\ points <= funds[a].available
    /\ Move(a, -points, points)
    /\ hold' = [hold EXCEPT ![r] = [state |-> "held", account |-> a, points |-> points]]

Spend(r) ==
    /\ hold[r].state = "held"
    /\ Move(hold[r].account, 0, -hold[r].points)
    /\ Become(r, "spent")

Return(r) ==
    /\ hold[r].state = "held"
    /\ Move(hold[r].account, hold[r].points, -hold[r].points)
    /\ Become(r, "returned")

\* Rewards, refunds and adjustments.
Change(a, amount) ==
    /\ Move(a, amount.available, amount.reserved)
    /\ UNCHANGED hold

Next ==
    \/ \E r \in Redemption, a \in Account, points \in Points : Hold(r, a, points)
    \/ \E r \in Redemption : Spend(r) \/ Return(r)
    \/ \E a \in Account, amount \in Amount : Change(a, amount)

Spec == Init /\ [][Next]_vars
=============================================================================
