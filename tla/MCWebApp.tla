------------------------------- MODULE MCWebApp -------------------------------
(* A small instance of WebApp: an account that owes 5, and forms with        *)
(* amounts that lose a cent and amounts that do not.                         *)
EXTENDS WebApp

\* All such amounts up to 1.20.
MCTruncated == {29, 57, 58, 113, 114, 115, 116}

MCSeedEvents == << Event("decisioned", "a", "s", 5, "approved"),
                   Event("cleared", "a", "s", 5, "CLEAN") >>

Cmd(kind, ref, amount) ==
    [kind |-> kind, account |-> "a", ref |-> ref, amount |-> amount, allowed |-> TRUE, limit |-> 0]

MCPurchases   == { [amount |-> 29, allowed |-> TRUE] }
MCPurchaseIds == << "t1", "t2" >>
MCPaymentIds  == << "p", "q" >>
MCMeanwhile   == { Cmd("clear", "t1", 28), Cmd("returned", "p", 4) }
=============================================================================
