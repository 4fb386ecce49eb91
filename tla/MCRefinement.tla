----------------------------- MODULE MCRefinement -----------------------------
(* A handler and three consumers that work one at a time, in any order.     *)
EXTENDS TransactionsRefinement

Cmd(kind, ref, amount, allowed) ==
    [kind |-> kind, account |-> "a", ref |-> ref, amount |-> amount,
     allowed |-> allowed, limit |-> 0]

MCAccounts   == {"a"}
MCSeedLimit  == [a \in MCAccounts |-> 9]
MCSeedEvents == << Event("decisioned", "a", "s", 3, "approved"),
                   Event("cleared", "a", "s", 3, "CLEAN") >>

\* Two transactions, the second sometimes refused, and a clearing of both.
MCRequests == { << Cmd("authorize", "t1", 6, TRUE) >>,
                << Cmd("authorize", "t2", 4, TRUE) >>,
                << Cmd("authorize", "t2", 1, FALSE) >>,
                << Cmd("clear", "t1", 6, TRUE), Cmd("clear", "t2", 2, TRUE) >> }

\* A payment, its return, and a limit that is lowered and raised.
P == Cmd("submitted", "p", 2, TRUE)

MCTopic ==
    [submitted |-> << P >>,
     returned  |-> << Cmd("returned", "p", 2, TRUE) >>,
     limits    |-> << Cmd("limitUpdated", "l", 5, TRUE), Cmd("limitUpdated", "l", 12, TRUE) >>]
=============================================================================
