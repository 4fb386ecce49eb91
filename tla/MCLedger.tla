------------------------------- MODULE MCLedger -------------------------------
(* A small instance of Ledger: one known account and one unknown, two card  *)
(* transactions, one payment, and a limit that is lowered and raised.       *)
EXTENDS Ledger

Command(kind, account, ref, amount, allowed) ==
    [kind |-> kind, account |-> account, ref |-> ref, amount |-> amount,
     allowed |-> allowed, limit |-> 0]

MCAccounts == {"a"}

MCSeedEvents == << Event("decisioned", "a", "s", 3, "approved"),
                   Event("cleared", "a", "s", 3, "CLEAN") >>

MCSeedLimit == [a \in MCAccounts |-> 12]

\* t1 and t2 come with two amounts each, the second of t1 from a place where
\* cards are refused; t2 is sometimes cleared for the wrong amount.  14 does
\* not fit beside what is owed already in an Int of 5 bits (IntHalf = 16).
MCCommands ==
    { Command("authorize", "a", "t1", 6, TRUE),
      Command("authorize", "a", "t1", 2, FALSE),
      Command("authorize", "a", "t2", 5, TRUE),
      Command("authorize", "a", "t2", 14, TRUE),
      Command("authorize", "b", "t1", 1, TRUE),
      Command("clear", "a", "t1", 6, TRUE),
      Command("clear", "a", "t1", 2, TRUE),
      Command("clear", "a", "t2", 5, TRUE),
      Command("submitted", "a", "p", 4, TRUE),
      Command("submitted", "b", "p", 4, TRUE),
      Command("returned", "a", "p", 4, TRUE),
      Command("limitUpdated", "a", "l1", 4, TRUE),
      Command("limitUpdated", "a", "l2", 13, TRUE),
      Command("limitUpdated", "b", "l3", 4, TRUE) }

=============================================================================
