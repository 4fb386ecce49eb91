---------------------------- MODULE MCTransactions ----------------------------
(* Small instances of Transactions: the account and card transactions of    *)
(* local.scala, scaled down, and what each run sends.                       *)
EXTENDS Transactions

Cmd(kind, ref, amount, allowed) ==
    [kind |-> kind, account |-> "a", ref |-> ref, amount |-> amount,
     allowed |-> allowed, limit |-> 0]

MCAccounts   == {"a"}
MCSeedLimit  == [a \in MCAccounts |-> 9]
MCSeedEvents == << Event("decisioned", "a", "s", 3, "approved"),
                   Event("cleared", "a", "s", 3, "CLEAN") >>

T1  == << Cmd("authorize", "t1", 6, TRUE) >>
T2  == << Cmd("authorize", "t2", 4, TRUE) >>
C1  == << Cmd("clear", "t1", 6, TRUE), Cmd("clear", "s", 3, TRUE) >>

P    == Cmd("submitted", "p", 2, TRUE)
R    == Cmd("returned", "p", 2, TRUE)
L(l) == Cmd("limitUpdated", "l", l, TRUE)

NoTopic == [c \in Consumers |-> << >>]

\* Run payments: a payment, its return and two changes of the limit, beside a
\* request.
PaymentRequests == {T1}
OnePayment      == [NoTopic EXCEPT !["submitted"] = <<P>>]
PaymentTopic    == [OnePayment EXCEPT !["returned"] = <<R>>, !["limits"] = <<L(5), L(12)>>]

\* Run limits: card transactions, and a limit that is lowered beside them.
CardRequests == {T1, T2, C1}
LimitTopic   == [NoTopic EXCEPT !["limits"] = <<L(7)>>]
=============================================================================
