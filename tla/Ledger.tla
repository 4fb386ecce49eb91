-------------------------------- MODULE Ledger --------------------------------
(***************************************************************************)
(* What the transactions service promises: a ledger in which every command *)
(* is one atomic step.  A command reads all events stored so far, decides, *)
(* and appends its event before any other command reads.  Transactions.tla *)
(* is the service as it runs, where these are separate steps of concurrent *)
(* threads; with one thread at work it implements this module.             *)
(***************************************************************************)
EXTENDS TransactionAggregate

CONSTANTS
    Accounts,       \* the accounts the service holds account info for
    Commands,       \* the requests and records that may reach it
    SeedEvents,     \* the events local.scala puts in the store
    SeedLimit       \* the credit limits local.scala puts in the account store

ASSUME LedgerAssumption ==
    /\ Accounts \subseteq STRING
    /\ Commands \subseteq CommandType
    /\ SeedEvents \in Seq(EventType)
    /\ SeedLimit \in [Accounts -> Int]

\* The limits, and the amounts that come with commands, are Ints.
ASSUME AmountAssumption ==
    /\ \A command \in Commands : command.amount \in ScalaInt
    /\ \A a \in Accounts : SeedLimit[a] \in ScalaInt

\* A log holds nothing twice.
NothingTwice(log) ==
    \A i, j \in DOMAIN log :
        (/\ log[i].account = log[j].account
         /\ log[i].type = log[j].type
         /\ log[i].ref = log[j].ref) => i = j

\* What it clears it decisioned before, for the same amount.
ClearsDecisions(log) ==
    \A i \in DOMAIN log : log[i].type = "cleared" =>
        \E j \in 1..(i-1) : /\ log[j].type = "decisioned"
                            /\ log[j].account = log[i].account
                            /\ log[j].ref = log[i].ref
                            /\ log[j].amount = log[i].amount

\* The seed is such a log.
ASSUME SeedAssumption == NothingTwice(SeedEvents) /\ ClearsDecisions(SeedEvents)

VARIABLES
    events,         \* TransactionStoreInMemory.data
    limit           \* AccountInfoStoreInMemory.data: each account's credit limit

vars == <<events, limit>>

Init == events = SeedEvents /\ limit = SeedLimit

-----------------------------------------------------------------------------

Store(command) ==
    /\ Accepts(command, events)
    /\ events' = Append(events, ResultOf(command, events))
    /\ UNCHANGED limit

\* AuthorizeTransaction: the limit is the one the account store holds.
Authorize(request) ==
    /\ request.kind = "authorize"
    /\ request.account \in Accounts
    /\ Store([request EXCEPT !.limit = limit[request.account]])

\* One item of ClearTransactions.
Clear(item) == item.kind = "clear" /\ Store(item)

\* ProcessPaymentEvent, for the two kinds of payment events.
ProcessPayment(payment) == payment.kind \in {"submitted", "returned"} /\ Store(payment)

\* A fault: an account that is not known is saved too.
UpdateAnyLimit(update) ==
    /\ update.kind = "limitUpdated"
    /\ limit' = (update.account :> update.amount) @@ limit
    /\ UNCHANGED events

\* ProcessAccountChangeEvents for a changed credit limit.
UpdateLimit(update) ==
    /\ update.kind = "limitUpdated"
    /\ update.account \in Accounts
    /\ limit' = [limit EXCEPT ![update.account] = update.amount]
    /\ UNCHANGED events

Next == \E command \in Commands : \/ Authorize(command)
                                  \/ Clear(command)
                                  \/ ProcessPayment(command)
                                  \/ UpdateLimit(command)

Spec == Init /\ [][Next]_vars

-----------------------------------------------------------------------------
(* Properties                                                              *)

TypeOK == events \in Seq(EventType) /\ limit \in [Accounts -> Int]

\* A transaction is decisioned at most once and cleared at most once, and a
\* payment is applied at most once and returned at most once, however often
\* the command is repeated (TransactionAggregate's .exists checks).
AtMostOnce == NothingTwice(events)

\* Every clearing settles an earlier decision on the same transaction, for
\* the decision's amount and not for the amount of the clearing item.
ClearedAfterDecision == ClearsDecisions(events)

(* The books of an account, computed transaction by transaction instead of *)
(* event by event: the reference the projection is compared with.          *)

Total(log, places) == SumFunctionOnSet([i \in DOMAIN log |-> log[i].amount], places)

Settled(log, e) == \E i \in DOMAIN log : /\ log[i].outcome = "CLEAN"
                                         /\ log[i].account = e.account
                                         /\ log[i].ref = e.ref

\* Where an account's decisions with this outcome are that are settled, or not.
Decisions(log, a, outcome, settled) ==
    {i \in DOMAIN log : /\ log[i].account = a
                        /\ log[i].outcome = outcome
                        /\ Settled(log, log[i]) = settled}

PaymentEvents(log, a, type) == {i \in DOMAIN log : log[i].account = a /\ log[i].type = type}

\* Approved and not yet settled, less what was settled though declined:
\* clearTransactions does not look at the decision.
Pending(log, a) == Total(log, Decisions(log, a, "approved", FALSE))
                 - Total(log, Decisions(log, a, "declined", TRUE))

Balance(log, a) == Total(log, Decisions(log, a, "approved", TRUE))
                 + Total(log, Decisions(log, a, "declined", TRUE))
                 - Total(log, PaymentEvents(log, a, "paymentApplied"))
                 + Total(log, PaymentEvents(log, a, "paymentReturned"))

\* The projection computes each account's books, in Int arithmetic, whatever
\* the order in which the events came.
ProjectionIsBooks ==
    \A a \in Accounts :
        TransactionBalance(events, a) = [balance |-> Wrap(Balance(events, a)),
                                         pending |-> Wrap(Pending(events, a))]

Appended == events'[Len(events')]

\* An approval leaves the account within the credit limit in force, except
\* when the amount owed no longer fits an Int: then Rule1 compares a sum that
\* has wrapped.
ApprovalKeepsLimit ==
    [][\A a \in Accounts :
         (/\ Len(events') > Len(events)
          /\ Appended.outcome = "approved"
          /\ Appended.account = a)
         => LET owed == Balance(events', a) + Pending(events', a)
            IN  owed <= limit[a] \/ owed > IntHalf - 1]_vars

\* Clearing moves an amount from pending to balance and never changes what
\* the account owes, CLEAN or BAD, approved or not.
ClearingKeepsOwed ==
    [][\A a \in Accounts :
         (Len(events') > Len(events) /\ Appended.type = "cleared")
         => LET s == TransactionBalance(events, a)
                t == TransactionBalance(events', a)
            IN  Wrap(s.balance + s.pending) = Wrap(t.balance + t.pending)]_vars
=============================================================================
