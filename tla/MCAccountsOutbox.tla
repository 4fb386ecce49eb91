--------------------------- MODULE MCAccountsOutbox ---------------------------
(* Small instances of AccountsOutbox: the one account of local.scala, and   *)
(* updates that lower and raise its limit, one of an account not known.     *)
EXTENDS AccountsOutbox

MCAccounts  == {"a"}
MCSeedLimit == [a \in MCAccounts |-> 9]

To(a, l) == [account |-> a, newCreditLimit |-> l]

TwoUpdates == << To("a", 5), To("a", 12) >>
AllUpdates == << To("a", 5), To("b", 7), To("a", 12) >>
=============================================================================
