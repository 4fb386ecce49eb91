------------------------------ MODULE MCPayments ------------------------------
(* A small instance of Payments: an account that owes 1, and 3 more once a  *)
(* clearing comes; payments of 2 and 3, and one from a wrong source.        *)
EXTENDS Payments

MCAccounts   == {"a"}
MCSeedLimit  == [a \in MCAccounts |-> 20]
MCSeedEvents == << Event("decisioned", "a", "s", 1, "approved"),
                   Event("cleared", "a", "s", 1, "CLEAN"),
                   Event("decisioned", "a", "t", 3, "approved") >>

MCCardCommands == { [kind |-> "clear", account |-> "a", ref |-> "t", amount |-> 3,
                     allowed |-> TRUE, limit |-> 0] }

Submit(n, k) == [account |-> "a", amount |-> n, known |-> k]

MCSubmissions == << Submit(4, FALSE), Submit(2, TRUE), Submit(3, TRUE) >>
MCPaymentIds  == << "p1", "p2", "p3", "p4", "p5", "p6" >>
=============================================================================
