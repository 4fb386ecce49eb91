------------------------------- MODULE Payments -------------------------------
(***************************************************************************)
(* The payments service beside the transactions service.  Its one loop     *)
(* consumes submitPayment.v1: it asks the transactions service for the     *)
(* account's balance, or estimates it from earlier payments, checks the    *)
(* amount, stores the payment and publishes it to paymentSubmitted.v1.     *)
(* The transactions service, which applies the published payments and goes *)
(* on with card transactions, is Ledger; it may lose its last events, its  *)
(* memory and its offset (Transactions).                                   *)
(***************************************************************************)
EXTENDS TransactionAggregate

CONSTANTS
    Accounts, SeedEvents, SeedLimit,    \* as in Ledger
    CardCommands,   \* authorizations and clearings that come meanwhile
    Submissions,    \* the records of submitPayment.v1
    PaymentIds,     \* fresh ids, in the order they are drawn
    MaxResets,      \* bound: times this service's offset is lost
    MaxCrashes,     \* bound: restarts of the payments service
    MaxLosses       \* bound: times the transactions service loses events or its offset

\* "known": the source is one of PaymentSource.
SubmissionType == [account : STRING, amount : Int, known : BOOLEAN]
PaymentType    == [account : STRING, id : STRING, amount : Int]

ASSUME PaymentsAssumption ==
    /\ Accounts \subseteq STRING
    /\ SeedEvents \in Seq(EventType) /\ SeedLimit \in [Accounts -> Int]
    /\ CardCommands \subseteq CommandType
    /\ Submissions \in Seq(SubmissionType)
    /\ PaymentIds \in Seq(STRING) /\ IsInjective(PaymentIds)
    /\ MaxResets \in Nat /\ MaxCrashes \in Nat /\ MaxLosses \in Nat
    /\ Len(Submissions) * (MaxResets + 1) <= Len(PaymentIds)

\* The amounts the web pages let through (MakePayment, MakePurchase).
Amounts == 1..(IntHalf - 1)

\* Nobody is paid below zero to begin with.
ASSUME AmountsAssumption ==
    /\ \A i \in DOMAIN Submissions : Submissions[i].amount \in Amounts
    /\ \A command \in CardCommands : command.amount \in Amounts
    /\ \A i \in DOMAIN SeedEvents : SeedEvents[i].amount >= 0
    /\ \A a \in Accounts : TransactionBalance(SeedEvents, a).balance >= 0

VARIABLES
    consumer,       \* what the loop does next
    submission,     \* what it has in hand: a sequence of one, or empty
    balance,        \* the balance it established
    store,          \* PaymentStoreInMemory.data
    offset,         \* its committed offset
    published,      \* paymentSubmitted.v1
    events, limit,  \* the transactions service
    applied,        \* how many published payments it went through
    made,           \* history: all payments ever stored
    unsent,         \* history: payments whose send failed
    guessed,        \* history: places in made of payments checked against an estimate
    guess,          \* history: the balance in hand is an estimate
    outdated,       \* history: the balance in hand need not be there any more
    risky,          \* history: payments that were checked against such a balance,
                    \* or lost it later
    overdrawn,      \* history: what they took from each account
    resets, crashes, losses     \* counters for the bounds

consumerVars == <<consumer, submission, balance, guess, outdated>>
ledgerVars   == <<events, limit, applied, overdrawn>>
historyVars  == <<made, unsent, guessed, risky>>
boundVars    == <<resets, crashes, losses>>
vars == <<consumerVars, store, offset, published, ledgerVars, historyVars, boundVars>>

L == INSTANCE Ledger WITH Commands <- CardCommands

Init ==
    /\ consumer = "idle" /\ submission = << >> /\ balance = 0
    /\ guess = FALSE /\ outdated = FALSE
    /\ store = << >> /\ offset = 0 /\ published = << >>
    /\ L!Init /\ applied = 0 /\ overdrawn = [a \in Accounts |-> 0]
    /\ made = << >> /\ unsent = {} /\ guessed = {} /\ risky = {}
    /\ resets = 0 /\ crashes = 0 /\ losses = 0

-----------------------------------------------------------------------------
(* The loop of PaymentsApp, and SubmitPayment.                              *)

Take ==
    /\ consumer = "idle"
    /\ offset < Len(Submissions)
    /\ offset' = offset + 1
    /\ submission' = << Submissions[offset + 1] >>
    /\ consumer' = "ask"
    /\ UNCHANGED <<balance, guess, outdated, store, published, ledgerVars, historyVars, boundVars>>

Forget == submission' = << >> /\ balance' = 0 /\ guess' = FALSE /\ outdated' = FALSE

\* What is thrown out of take, getBalance or withName ends the loop.
Dies ==
    /\ consumer' = "dead" /\ Forget
    /\ UNCHANGED <<store, published, ledgerVars, historyVars, boundVars>>

\* commitSync may throw after the broker has stored the offset.
TakeFails ==
    /\ consumer = "idle"
    /\ offset' \in {offset, offset + 1} \cap 0..Len(Submissions)
    /\ Dies

\* SubmitPayment is done, with the payment's id or with an error.
Done == consumer' = "idle" /\ Forget

Submission == Head(submission)

\* A payment that the transactions service holds.
Paid(p) == Recorded(events, p.account, "paymentApplied", p.id)

\* The places of the published payments that will be applied.
OnWay == {i \in (applied + 1)..Len(published) : ~ Paid(published[i])}

OnItsWay(a) == \E i \in OnWay : published[i].account = a

\* GET /balance: the account is known and has events.
AskBalance ==
    /\ consumer = "ask"
    /\ Submission.account \in Accounts
    /\ HasEvents(events, Submission.account)
    /\ balance' = TransactionBalance(events, Submission.account).balance
    /\ outdated' = OnItsWay(Submission.account)
    /\ consumer' = "check"
    /\ UNCHANGED <<submission, guess, store, offset, published, ledgerVars, historyVars, boundVars>>

\* Scala's division rounds towards zero.
Quotient(n, d) == IF n >= 0 THEN n \div d ELSE - ((- n) \div d)

AmountsSum(payments) ==
    Wrap(SumFunctionOnSet([i \in DOMAIN payments |-> payments[i].amount], DOMAIN payments))

\* A fault: the sum is not divided.
FallbackSum(payments) == AmountsSum(payments)

\* The average of the payments of all accounts.
Fallback(payments) ==
    IF payments = << >> THEN 0 ELSE Quotient(AmountsSum(payments), Len(payments))

\* The answer holds an error instead of a balance: the account has none, or
\* the read met an append.
AskFails ==
    /\ consumer = "ask"
    /\ balance' = Fallback(store)
    /\ guess' = TRUE
    /\ consumer' = "check"
    /\ UNCHANGED <<submission, outdated, store, offset, published, ledgerVars, historyVars, boundVars>>

\* The transactions service cannot be reached.
AskThrows == consumer = "ask" /\ Dies /\ UNCHANGED offset

\* A fault: a refused submission is taken again.
RefuseRetries ==
    /\ consumer = "check"
    /\ Submission.amount > balance
    /\ consumer' = "ask"
    /\ UNCHANGED <<submission, balance, guess, outdated, store, offset, published, ledgerVars,
                   historyVars, boundVars>>

Refuse ==
    /\ consumer = "check"
    /\ Submission.amount > balance
    /\ Done
    /\ UNCHANGED <<store, offset, published, ledgerVars, historyVars, boundVars>>

UnknownSource ==
    /\ consumer = "check"
    /\ Submission.amount <= balance
    /\ ~ Submission.known
    /\ Dies
    /\ UNCHANGED offset

Payment == [account |-> Submission.account, id |-> PaymentIds[Len(made) + 1],
            amount |-> Submission.amount]

\* A fault: the amount is not checked.
StoreUnchecked ==
    /\ consumer = "check"
    /\ Submission.known
    /\ store' = Append(store, Payment)
    /\ made' = Append(made, Payment)
    /\ guessed' = IF guess THEN guessed \cup {Len(made')} ELSE guessed
    /\ risky' = IF guess \/ outdated THEN risky \cup {Payment} ELSE risky
    /\ consumer' = "publish"
    /\ UNCHANGED <<submission, balance, guess, outdated, offset, published, ledgerVars, unsent,
                   boundVars>>

StorePayment ==
    /\ consumer = "check"
    /\ Submission.amount <= balance
    /\ Submission.known
    /\ store' = Append(store, Payment)
    /\ made' = Append(made, Payment)
    /\ guessed' = IF guess THEN guessed \cup {Len(made')} ELSE guessed
    /\ risky' = IF guess \/ outdated THEN risky \cup {Payment} ELSE risky
    /\ consumer' = "publish"
    /\ UNCHANGED <<submission, balance, guess, outdated, offset, published, ledgerVars, unsent,
                   boundVars>>

\* A fault: what is published is the oldest payment.
PublishOldest ==
    /\ consumer = "publish"
    /\ published' = Append(published, Head(store))
    /\ Done
    /\ UNCHANGED <<store, offset, ledgerVars, historyVars, boundVars>>

Publish ==
    /\ consumer = "publish"
    /\ published' = Append(published, Last(store))
    /\ Done
    /\ UNCHANGED <<store, offset, ledgerVars, historyVars, boundVars>>

\* The send fails, or its answer is lost; the payment stays stored.
PublishFails ==
    /\ consumer = "publish"
    /\ published' \in {published, Append(published, Last(store))}
    /\ unsent' = unsent \cup {Last(store)}
    /\ Done
    /\ UNCHANGED <<store, offset, ledgerVars, made, guessed, risky, boundVars>>

-----------------------------------------------------------------------------
(* The transactions service.                                               *)

Submitted(p) == [kind |-> "submitted", account |-> p.account, ref |-> p.id,
                 amount |-> p.amount, allowed |-> TRUE, limit |-> 0]

\* The next payment, when it is accepted.
Apply ==
    /\ applied < Len(published)
    /\ LET p == published[applied + 1]
       IN  /\ L!ProcessPayment(Submitted(p))
           /\ overdrawn' = IF p \in risky /\ p.account \in Accounts
                             THEN [overdrawn EXCEPT ![p.account] = @ + p.amount] ELSE overdrawn
    /\ applied' = applied + 1
    /\ UNCHANGED <<consumerVars, store, offset, published, historyVars, boundVars>>

\* A fault: the consumer steps beyond the end of the topic.
DropAny ==
    /\ applied <= Len(published)
    /\ applied' = applied + 1
    /\ UNCHANGED <<consumerVars, store, offset, published, events, limit, overdrawn, historyVars,
                   boundVars>>

\* The next payment was applied before, or its read of the store fails
\* (Transactions!ReadRejected, ReadFails), or its commit ended the loop.
Drop ==
    /\ applied < Len(published)
    /\ applied' = applied + 1
    /\ UNCHANGED <<consumerVars, store, offset, published, events, limit, overdrawn, historyVars,
                   boundVars>>

CardTransaction ==
    /\ \E c \in CardCommands : L!Authorize(c) \/ L!Clear(c)
    /\ UNCHANGED <<consumerVars, store, offset, published, applied, overdrawn, historyVars, boundVars>>

\* Events are gone: no balance that is in hand can be relied on, nor was that
\* of a payment that is yet to be published or applied.
Endangered ==
    /\ losses < MaxLosses
    /\ losses' = losses + 1
    /\ UNCHANGED <<consumer, submission, balance, guess, store, offset, published, limit, applied,
                   made, unsent, guessed, resets, crashes>>
    /\ outdated' = (consumer = "check")
    /\ risky' = risky \cup {published[i] : i \in OnWay'}
                     \cup (IF consumer = "publish" THEN {Last(store)} ELSE {})

\* Appends overlap, and one cuts off what others appended (Transactions!Link).
LoseEvents ==
    /\ \E n \in Len(SeedEvents)..(Len(events) - 1) : events' = SubSeq(events, 1, n)
    /\ Endangered
    /\ UNCHANGED overdrawn

\* The transactions service starts again; its offset stays.  (Its limits are
\* those of the start all along: here no update comes.)
RestartTransactions ==
    /\ events' = SeedEvents
    /\ overdrawn' = [a \in Accounts |-> 0]
    /\ Endangered

\* The transactions service has lost its offset: every payment is delivered
\* again, and one that it dropped or lost is applied after all.
ResetApplied ==
    /\ applied > 0
    /\ losses < MaxLosses
    /\ losses' = losses + 1
    /\ applied' = 0
    /\ risky' = risky \cup {published[i] : i \in {j \in 1..applied : ~ Paid(published[j])}}
    /\ UNCHANGED <<consumerVars, store, offset, published, events, limit, overdrawn, made, unsent,
                   guessed, resets, crashes>>

-----------------------------------------------------------------------------

\* The broker no longer has the group's offset.
ResetOffset ==
    /\ consumer = "idle"
    /\ offset > 0
    /\ resets < MaxResets
    /\ resets' = resets + 1
    /\ offset' = 0
    /\ UNCHANGED <<consumerVars, store, published, ledgerVars, historyVars, crashes, losses>>

\* The payments service starts again with an empty store.
Restart ==
    /\ crashes < MaxCrashes
    /\ crashes' = crashes + 1
    /\ Done
    /\ store' = << >>
    /\ UNCHANGED <<offset, published, ledgerVars, historyVars, resets, losses>>

SubmitPayment == \/ AskBalance \/ AskFails \/ AskThrows
                 \/ Refuse \/ UnknownSource \/ StorePayment
                 \/ Publish \/ PublishFails

Next == \/ Take \/ TakeFails \/ SubmitPayment
        \/ Apply \/ Drop \/ CardTransaction
        \/ LoseEvents \/ RestartTransactions \/ ResetApplied
        \/ ResetOffset \/ Restart

Spec == Init /\ [][Next]_vars

\* The two loops are run, and what they wait for is answered or times out.
Fairness == WF_vars(Take) /\ WF_vars(SubmitPayment) /\ WF_vars(Apply)

FairSpec == Spec /\ Fairness

-----------------------------------------------------------------------------
(* Properties                                                              *)

TypeOK ==
    /\ consumer \in {"idle", "ask", "check", "publish", "dead"}
    /\ submission \in Seq(SubmissionType)
    /\ submission = << >> <=> consumer \in {"idle", "dead"}
    /\ balance \in Int /\ guess \in BOOLEAN /\ outdated \in BOOLEAN
    /\ store \in Seq(PaymentType) /\ offset \in 0..Len(Submissions)
    /\ published \in Seq(PaymentType)
    /\ events \in Seq(EventType) /\ limit \in [Accounts -> Int]
    /\ applied \in 0..Len(published) /\ overdrawn \in [Accounts -> Nat]
    /\ made \in Seq(PaymentType) /\ Len(made) <= Len(PaymentIds)
    /\ unsent \subseteq PaymentType /\ guessed \subseteq DOMAIN made
    /\ risky \subseteq PaymentType /\ resets \in Nat /\ crashes \in Nat /\ losses \in Nat

\* An account is below zero by no more than the payments applied to it whose
\* check could not hold: the balance was estimated, or was asked while another
\* payment of the account was on its way, or the transactions service lost
\* events or its memory before it applied the payment, or it skipped the
\* payment and was delivered it again.  Any other payment is covered when it is
\* applied, whatever came between the answer and its application.
NotOverpaid ==
    \A a \in Accounts : TransactionBalance(events, a).balance + overdrawn[a] >= 0

\* A payment that is admitted by an estimate is no larger than one that was
\* admitted before: the fallback cannot let amounts grow, not even over
\* several failures in a row.
EstimateAdmitsNoMore ==
    \A i \in guessed : \E j \in 1..(i - 1) : made[j].amount >= made[i].amount

\* Every payment that was stored is published as it was stored, and once, or
\* is about to be, or its send failed, or a restart came in between; and
\* nothing else is applied to an account.
StoredIsPublished ==
    /\ crashes = 0 =>
          \A i \in DOMAIN made : \/ made[i] \in ToSet(published) \cup unsent
                                 \/ i = Len(made) /\ consumer = "publish"
    /\ ToSet(published) \subseteq ToSet(made)
    /\ IsInjective(published)
    /\ \A i \in (Len(SeedEvents) + 1)..Len(events) : events[i].type = "paymentApplied" =>
          \E p \in ToSet(made) : events[i] = ResultOf(Submitted(p), events)

\* The loop goes through its topic to the end, or dies.
SubmissionsDrained ==
    <>[](consumer = "dead" \/ (consumer = "idle" /\ offset = Len(Submissions)))
=============================================================================
