------------------------- MODULE MCRewardProcessing -------------------------
(* Small instances of RewardProcessing for TLC. *)
EXTENDS RewardProcessing, TLC

CONSTANTS a1, a2

\* Two purchases of one member, then two refunds of the first that together
\* exceed it.
PurchasesAndRefunds == [type     |-> <<"purchase", "purchase", "refund", "refund">>,
                        member   |-> <<a1, a1, a1, a1>>,
                        original |-> <<0, 0, 1, 1>>,
                        eligible |-> <<5, 4, 3, 4>>]

\* Refunds that exceed a purchase, a purchase of nothing that only earns the
\* bonus, a refund of it, and a purchase at the limit.
ManyRefunds == [type     |-> <<"purchase", "refund", "refund", "purchase", "refund", "purchase">>,
                member   |-> <<a1, a1, a1, a1, a1, a1>>,
                original |-> <<0, 1, 1, 0, 4, 0>>,
                eligible |-> <<5, 3, 4, 0, 3, 4>>]

\* Two members; a refund of no known event, and two of a purchase, one of them
\* without a positive amount.
TwoMembers == [type     |-> <<"purchase", "refund", "refund", "refund">>,
               member   |-> <<a2, a1, a2, a2>>,
               original |-> <<0, 0, 1, 1>>,
               eligible |-> <<2, 2, -1, 2>>]

PRType == PurchasesAndRefunds.type
PRMember == PurchasesAndRefunds.member
PROriginal == PurchasesAndRefunds.original
PREligible == PurchasesAndRefunds.eligible

MRType == ManyRefunds.type
MRMember == ManyRefunds.member
MROriginal == ManyRefunds.original
MREligible == ManyRefunds.eligible

TMType == TwoMembers.type
TMMember == TwoMembers.member
TMOriginal == TwoMembers.original
TMEligible == TwoMembers.eligible

\* No limit usage row before the first purchase, or one with a point used.
NoUsage == [a \in Account |-> [exists |-> FALSE, points |-> 0]]
SomeUsage == [a \in Account |-> [exists |-> TRUE, points |-> 1]]
=============================================================================
