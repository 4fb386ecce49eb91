------------------------ MODULE TransactionsRefinement ------------------------
(***************************************************************************)
(* Transactions implements Ledger as long as one thread at a time is at    *)
(* work: each command then takes effect at its Link or RestoreAccount      *)
(* step.  With more, it does not: two decisions on the same events are no  *)
(* steps of Ledger.                                                        *)
(***************************************************************************)
EXTENDS Transactions

Working(t) == pc[t] \notin {"idle", "dead"}

OneAtWork == \A t, u \in Threads : (Working(t) /\ Working(u)) => t = u

\* Clients and producers leave one another alone, and the service does not
\* restart: that would undo what the ledger holds.
SequentialNext == Next /\ OneAtWork' /\ UNCHANGED crashes

SequentialSpec == Init /\ [][SequentialNext]_vars

\* Every command a thread may be given.
AllCommands == (UNION {ToSet(r) : r \in Requests})
          \cup (UNION {ToSet(Topic[c]) : c \in Consumers})

L == INSTANCE Ledger WITH Commands <- AllCommands, events <- Events

\* The service, seen through its event buffer and its credit limits, executes
\* whole commands in some order: reads, allocations, the two pointer writes
\* of an append, the gap in save and redelivery are not visible.
ImplementsLedger == L!Spec
=============================================================================
