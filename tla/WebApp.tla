-------------------------------- MODULE WebApp --------------------------------
(***************************************************************************)
(* The web application between its visitors and the services: the page of  *)
(* transactions, which it reads in three calls, and the forms for a        *)
(* purchase, a payment and the credit limit.  HomeController keeps no      *)
(* state; what a visitor has before him does.                              *)
(*                                                                         *)
(* The transactions service is Ledger and the accounts service is          *)
(* AccountChanges, joined by accountCreditLimitUpdated.v1: the ledger's    *)
(* limit is a copy.  What the payments service does with a submission is   *)
(* Payments; here it may make any payment that was submitted.              *)
(*                                                                         *)
(* Amounts in forms and on pages are in cents, as the services' are.       *)
(***************************************************************************)
EXTENDS TransactionAggregate

CONSTANTS
    Account,        \* the account of the pages, 123
    SeedEvents,     \* the events local.scala puts in the transactions service
    SeedLimit,      \* the account's credit limit in either service's local.scala
    PageSize,       \* how many transactions a page lists (30)
    Truncated,      \* the amounts that lose a cent: see Cents
    Purchases,      \* what visitors try to buy: amounts, and if the place is allowed
    PurchaseIds,    \* fresh ids, in the order they are drawn
    PaymentAmounts, \* what they type into the payment form
    PaymentIds,     \* likewise; as many payments are made at most
    Meanwhile,      \* clearings and returned payments that come meanwhile
    TypedLimits,    \* what they type into the form of the credit limit
    MaxForms,       \* bound: forms that are submitted
    MaxChanges,     \* bound: no event is published again once so many were
    MaxFaults       \* bound: restarts of a service

\* The amounts that fit into an Int.
Amounts == 0..(IntHalf - 1)

ASSUME WebAppAssumption ==
    /\ Account \in STRING /\ SeedLimit \in Amounts
    /\ SeedEvents \in Seq(EventType)
    /\ Truncated \subseteq Nat \ {0}
    /\ Purchases \subseteq [amount : Amounts, allowed : BOOLEAN]
    /\ PurchaseIds \in Seq(STRING) /\ IsInjective(PurchaseIds)
    /\ PaymentIds \in Seq(STRING) /\ IsInjective(PaymentIds)
    /\ MaxForms <= Len(PurchaseIds)
    /\ Meanwhile \subseteq CommandType
    /\ PaymentAmounts \subseteq Amounts /\ TypedLimits \subseteq Amounts
    /\ {PageSize, MaxForms, MaxChanges, MaxFaults} \subseteq Nat

VARIABLES
    events, limit,  \* the transactions service
    copied,         \* how many changes of the limit it has consumed
    accountLimit,   \* the accounts service
    unpublished,
    changes,
    taken,          \* how many updates of the limit it has consumed
    updates,        \* updateCreditLimit.v1
    submissions,    \* submitPayment.v1: the amounts
    paid,           \* how many payments were made
    page,           \* the page of transactions, as far as it is read
    field,          \* the credit limit in the form: a sequence of one, or empty
    tried,          \* how many purchases were submitted
    told,           \* history: what visitors were told of their purchases
    confirmed,      \* history: the limit they were last told is set; 0 if none
    typed,          \* history: the limits typed and submitted
    strayed,        \* history: a change was never published, or out of order
    faults          \* history: the restarts that occurred

ledgerVars  == <<events, limit>>
accountVars == <<accountLimit, unpublished, changes>>
flowVars    == <<updates, taken, copied>>
paymentVars == <<submissions, paid>>
buyVars     == <<tried, told>>
adminVars   == <<field, confirmed, typed>>
vars == <<ledgerVars, accountVars, flowVars, paymentVars, page, buyVars, adminVars,
          strayed, faults>>

Here == {Account}

L == INSTANCE Ledger WITH
    Accounts <- Here, Commands <- Meanwhile, SeedLimit <- [a \in Here |-> SeedLimit]

A == INSTANCE AccountChanges WITH
    Accounts <- Here, SeedLimit <- [a \in Here |-> SeedLimit],
    Updates <- {}, EventIds <- 1..MaxForms, limit <- accountLimit

Blank == [stage |-> "transactions", list |-> << >>, from |-> 0, creditLimit |-> 0,
          changing |-> FALSE, whole |-> TRUE]

Init ==
    /\ L!Init /\ copied = 0
    /\ A!Init /\ taken = 0
    /\ updates = << >> /\ submissions = << >> /\ paid = 0
    /\ page = Blank /\ field = << >>
    /\ tried = 0 /\ told = [approved |-> 0, unclear |-> 0]
    /\ confirmed = 0 /\ typed = {} /\ strayed = FALSE /\ faults = {}

\* (x.toDouble * 100).toInt, of an amount of n cents: the double nearest to
\* n/100 may lie so far below it that its hundredfold, rounded, is less than
\* n, and toInt cuts the rest off.  So 0.29, 0.57, 0.58, 1.13 lose a cent.
Cents(n) == IF n \in Truncated THEN n - 1 ELSE n

\* The bound on what visitors submit.
FormAllowed == tried + Len(submissions) + Len(updates) < MaxForms

-----------------------------------------------------------------------------
(* What the pages ask the services.                                        *)

IsListed(e) == e.account = Account /\ e.type \in {"decisioned", "paymentApplied"}

\* A fault: the newest events are taken, and then the listed ones of them.
TakeThenCollect(es) ==
    SelectSeq(SubSeq(Reverse(es), 1, Min({PageSize, Len(es)})), IsListed)

\* The decisions and payments of the account, newest first.
AllTransactions(es) ==
    FoldLeft(LAMBDA list, e : IF IsListed(e) THEN << e >> \o list ELSE list, << >>, es)

\* GetRecentTransactions.
RecentTransactions(es) ==
    LET listed == AllTransactions(es)
    IN  SubSeq(listed, 1, Min({PageSize, Len(listed)}))

\* A fault: what is pending is not taken off.
SummaryIgnoresPending(es, creditLimit) ==
    LET s == TransactionBalance(es, Account)
    IN  [balance |-> s.balance, pending |-> s.pending,
         available |-> Wrap(creditLimit - s.balance)]

\* GetAccountSummary.
AccountSummary(es, creditLimit) ==
    LET s == TransactionBalance(es, Account)
    IN  [balance |-> s.balance, pending |-> s.pending,
         available |-> Wrap(creditLimit - s.balance - s.pending)]

\* A change of the limit has not reached the transactions service yet.
OnItsWay == ~ (unpublished \subseteq ToSet(changes)) \/ copied < Len(changes)

Unread == <<ledgerVars, accountVars, flowVars, paymentVars, buyVars, adminVars, strayed, faults>>

\* HomeController.transactions: GetTransactions.
ReadTransactions ==
    /\ page.stage = "transactions"
    /\ page' = [Blank EXCEPT !.stage = "account",
                             !.list = RecentTransactions(events),
                             !.from = Len(events)]
    /\ UNCHANGED Unread

\* GetAccountInfo.
ReadAccount ==
    /\ page.stage = "account"
    /\ page' = [page EXCEPT !.stage = "balance",
                            !.creditLimit = accountLimit[Account],
                            !.changing = OnItsWay]
    /\ UNCHANGED Unread

\* What GetBalance is answered, unless by an error.
Summary == AccountSummary(events, limit[Account])

\* The page can be completed: it will be the list, the credit limit and Summary.
Ready == page.stage = "balance" /\ HasEvents(events, Account)

\* GetBalance.  The page goes to the visitor, and nothing of it is kept.
ReadBalance == Ready /\ page' = Blank /\ UNCHANGED Unread

\* Any of the three calls is answered by an error, or not at all: the visitor
\* gets an error page.
PageFails == page' = Blank /\ UNCHANGED Unread

-----------------------------------------------------------------------------
(* Buying: HomeController.makePurchase.                                    *)

\* TransactionServiceLive.makePurchase draws a new id for each submission.
Request(p) ==
    [kind |-> "authorize", account |-> Account, ref |-> PurchaseIds[tried + 1],
     amount |-> Cents(p.amount), allowed |-> p.allowed, limit |-> 0]

Submit(p) ==
    /\ FormAllowed
    /\ Cents(p.amount) > 0
    /\ tried' = tried + 1
    /\ UNCHANGED <<accountVars, flowVars, paymentVars, page, adminVars, strayed, faults>>

\* The visitor is told the decision.
PurchaseAnswered(p) ==
    /\ Submit(p)
    /\ L!Authorize(Request(p))
    /\ told' = IF events'[Len(events')].outcome = "approved"
                 THEN [told EXCEPT !.approved = @ + p.amount] ELSE told

\* A fault: an error is shown as a success.
PurchaseUnansweredIsApproved(p) ==
    /\ Submit(p)
    /\ L!Authorize(Request(p)) \/ UNCHANGED ledgerVars
    /\ told' = [told EXCEPT !.approved = @ + p.amount]

\* The decision is stored, and its publication fails or its answer gets lost;
\* or it never came to a decision.  Either way he sees an error.
PurchaseUnanswered(p) ==
    /\ Submit(p)
    /\ L!Authorize(Request(p)) \/ UNCHANGED ledgerVars
    /\ told' = [told EXCEPT !.unclear = @ + p.amount]

-----------------------------------------------------------------------------
(* Paying: HomeController.makePayment, and what comes of it.                *)

\* The form's record is sent, or that fails, or only its answer is lost.
SubmitPayment(n) ==
    /\ Cents(n) > 0
    /\ FormAllowed
    /\ submissions' \in {submissions, Append(submissions, Cents(n))}
    /\ UNCHANGED <<ledgerVars, accountVars, flowVars, paid, page, buyVars, adminVars,
                   strayed, faults>>

\* The payments service admits a submission, once or (delivered again) more
\* often, and the transactions service applies it.
MakePayment ==
    /\ paid < Len(PaymentIds)
    /\ \E i \in DOMAIN submissions :
          L!ProcessPayment([kind |-> "submitted", account |-> Account, ref |-> PaymentIds[paid + 1],
                            amount |-> submissions[i], allowed |-> TRUE, limit |-> 0])
    /\ paid' = paid + 1
    /\ UNCHANGED <<accountVars, flowVars, submissions, page, buyVars, adminVars, strayed, faults>>

\* Clearings and returned payments.
Elsewhere ==
    /\ \E c \in Meanwhile : L!Clear(c) \/ L!ProcessPayment(c)
    /\ UNCHANGED <<accountVars, flowVars, paymentVars, page, buyVars, adminVars, strayed, faults>>

-----------------------------------------------------------------------------
(* The credit limit: HomeController.admin, and what comes of it.            *)

Unsubmitted == <<ledgerVars, accountVars, flowVars, paymentVars, page, buyVars, confirmed,
                 typed, strayed, faults>>

\* A fault: the cents are shown as dollars.
OpenFormInCents == field' = << 100 * accountLimit[Account] >> /\ UNCHANGED Unsubmitted

\* GET: the form holds the limit the accounts service has now.
OpenForm == field' = << accountLimit[Account] >> /\ UNCHANGED Unsubmitted

\* That call fails: an error page, without a form.
OpenFormFails == field' = << >> /\ UNCHANGED Unsubmitted

\* POST, of what was typed or of what the form held: UpdateCreditLimit
\* validates it, and the form comes back with it.
SubmitLimit(n) ==
    /\ field # << >>
    /\ n \in TypedLimits \cup {Head(field)}
    /\ Cents(n) > 0
    /\ FormAllowed
    /\ field' = << n >>
    /\ typed' = typed \cup ({n} \cap TypedLimits)
    /\ UNCHANGED <<ledgerVars, accountVars, taken, copied, paymentVars, page, buyVars,
                   strayed, faults>>

UpdateOf(n) == [account |-> Account, newCreditLimit |-> Cents(n)]

\* A fault: the limit is confirmed although its publication failed.
ConfirmUnpublished(n) ==
    /\ SubmitLimit(n)
    /\ UNCHANGED updates
    /\ confirmed' = Cents(n)

\* "Account credit limit has been updated!"
ConfirmLimit(n) ==
    /\ SubmitLimit(n)
    /\ updates' = Append(updates, UpdateOf(n))
    /\ confirmed' = Cents(n)

\* The publication fails, or its answer is lost: an error is shown.
ConfirmLimitFails(n) ==
    /\ SubmitLimit(n)
    /\ updates' \in {updates, Append(updates, UpdateOf(n))}
    /\ confirmed' = 0

\* What was typed is refused, and the form comes back with it all the same.
RefuseLimit(n) ==
    /\ field # << >>
    /\ n \in TypedLimits \cup {Head(field)}
    /\ Cents(n) <= 0
    /\ field' = << n >>
    /\ confirmed' = 0
    /\ UNCHANGED <<ledgerVars, accountVars, flowVars, paymentVars, page, buyVars, typed,
                   strayed, faults>>

\* The accounts service consumes an update.
TakeUpdate ==
    /\ taken < Len(updates)
    /\ A!Change(updates[taken + 1], taken + 1)
    /\ taken' = taken + 1
    /\ page' = [page EXCEPT !.changing = @ \/ page.stage = "balance"]
    /\ UNCHANGED <<ledgerVars, updates, copied, paymentVars, buyVars, adminVars, strayed, faults>>

Elapsed == <<ledgerVars, flowVars, paymentVars, page, buyVars, adminVars, faults>>

\* Its poller publishes an event, for the first time or again.
PublishFirst ==
    /\ \E e \in unpublished \ ToSet(changes) :
          /\ A!Publish(e)
          /\ strayed' = (strayed \/ \E i \in DOMAIN changes : changes[i].id > e.id)
    /\ UNCHANGED Elapsed

PublishAgain ==
    /\ Len(changes) < MaxChanges
    /\ \E e \in unpublished \cap ToSet(changes) :
          /\ A!Publish(e)
          /\ strayed' = (strayed \/ \E i \in DOMAIN changes : changes[i].id > e.id)
    /\ UNCHANGED Elapsed

\* It deletes an event, whether its publication succeeded or failed.
DiscardEvent ==
    /\ \E e \in unpublished :
          /\ A!Discard({e})
          /\ strayed' = (strayed \/ e \notin ToSet(changes))
    /\ UNCHANGED Elapsed

\* The transactions service consumes a change.
CopyChange ==
    /\ copied < Len(changes)
    /\ L!UpdateLimit([kind |-> "limitUpdated", account |-> changes[copied + 1].account,
                      ref |-> "", amount |-> changes[copied + 1].limit,
                      allowed |-> TRUE, limit |-> 0])
    /\ copied' = copied + 1
    /\ UNCHANGED <<accountVars, updates, taken, paymentVars, page, buyVars, adminVars,
                   strayed, faults>>

-----------------------------------------------------------------------------
(* Restarts of the services.  Offsets and topics stay.                      *)

Fault(f) ==
    /\ Cardinality(faults) < MaxFaults
    /\ f \notin faults
    /\ faults' = faults \cup {f}
    /\ UNCHANGED <<flowVars, paymentVars, buyVars, adminVars, strayed>>

RestartAccounts ==
    /\ Fault("accounts restarted")
    /\ A!Restart
    /\ UNCHANGED <<ledgerVars, page>>

RestartTransactions ==
    /\ Fault("transactions restarted")
    /\ events' = SeedEvents /\ limit' = [a \in Here |-> SeedLimit]
    /\ page' = [page EXCEPT !.whole = FALSE]
    /\ UNCHANGED accountVars

-----------------------------------------------------------------------------

Next ==
    \/ ReadTransactions \/ ReadAccount \/ ReadBalance \/ PageFails
    \/ \E p \in Purchases : PurchaseAnswered(p) \/ PurchaseUnanswered(p)
    \/ \E n \in PaymentAmounts : SubmitPayment(n)
    \/ MakePayment \/ Elsewhere
    \/ OpenForm \/ OpenFormFails
    \/ \E n \in TypedLimits \cup ToSet(field) :
          ConfirmLimit(n) \/ ConfirmLimitFails(n) \/ RefuseLimit(n)
    \/ TakeUpdate \/ PublishFirst \/ PublishAgain \/ DiscardEvent \/ CopyChange
    \/ RestartAccounts \/ RestartTransactions

Spec == Init /\ [][Next]_vars

\* The loops of the services and the poller are run.
Fairness == WF_vars(TakeUpdate) /\ WF_vars(PublishFirst) /\ WF_vars(CopyChange)

FairSpec == Spec /\ Fairness

-----------------------------------------------------------------------------
(* Properties                                                              *)

TypeOK ==
    /\ L!TypeOK /\ copied \in 0..Len(changes)
    /\ accountLimit \in [Here -> Int] /\ unpublished \subseteq A!EventType
    /\ changes \in Seq(A!EventType) /\ taken \in 0..Len(updates)
    /\ updates \in Seq(A!UpdateType) /\ submissions \in Seq(Nat)
    /\ paid \in 0..Len(PaymentIds) /\ tried \in 0..Len(PurchaseIds)
    /\ page.stage \in {"transactions", "account", "balance"}
    /\ page.list \in Seq(EventType) /\ Len(page.list) <= PageSize
    /\ page.changing \in BOOLEAN /\ page.whole \in BOOLEAN
    /\ Len(field) <= 1 /\ field \in Seq(Nat)
    /\ told \in [approved : Nat, unclear : Nat]
    /\ confirmed \in Nat /\ typed \subseteq TypedLimits /\ strayed \in BOOLEAN

\* What an event adds to what the account owes.
Effect(e) ==
    IF e.account # Account THEN 0
    ELSE CASE e.outcome = "approved"     -> e.amount
           [] e.type = "paymentReturned" -> e.amount
           [] e.type = "paymentApplied"  -> - e.amount
           [] OTHER                      -> 0

Effects(log) == [i \in DOMAIN log |-> Effect(log[i])]
Returns(log) == [i \in DOMAIN log |-> IF log[i].type = "paymentReturned" THEN Effect(log[i]) ELSE 0]

\* A page that lists everything adds up, though it is read in three calls: its
\* balance and pending amount are what the transactions on its list come to,
\* but for returned payments, which it does not list, and what was stored
\* between the first call and the third.  Here as in Ledger no two appends of
\* the transactions service overlap: one that cuts off events that the page
\* lists (Transactions!Link) makes it disagree.
PageAddsUp ==
    (Ready /\ page.whole /\ Len(page.list) < PageSize) =>
        Wrap(Summary.balance + Summary.pending)
            = Wrap(SumFunctionOnSet(Effects(page.list), DOMAIN page.list)
                 + SumFunctionOnSet(Returns(events), 1..page.from)
                 + SumFunctionOnSet(Effects(events), (page.from + 1)..Len(events)))

\* The credit limit on the page, which the accounts service gave, is the one
\* its other amounts come from, the transactions service's copy: unless a
\* change was on its way when it was read or came before the page was done,
\* or an earlier one got lost or out of order, or a service was restarted.
\* (The loops run, as for ConfirmedLimitDecides.)
PageAgrees ==
    (Ready /\ ~ page.changing /\ ~ strayed /\ faults = {}) =>
        page.creditLimit = Wrap(Summary.available + Summary.balance + Summary.pending)

Charges(log) == [i \in DOMAIN log |-> IF log[i].outcome = "approved" THEN log[i].amount ELSE 0]

Bought == SumFunctionOnSet(Charges(events), (Len(SeedEvents) + 1)..Len(events))

\* Visitors are charged what they were told, up to a cent less for each
\* purchase, and up to as much more as they saw errors about: a purchase
\* that was answered by an error may count, also if it is then tried again.
\* They may be charged less where appends of the transactions service overlap
\* (Transactions!Link), which Ledger leaves out.
ChargedAsTold ==
    /\ Bought <= told.approved + told.unclear
    /\ "transactions restarted" \notin faults => Bought >= told.approved - tried

\* The limit in force, in either service and on its way, is one that was
\* typed or the first one, up to a cent less for each submission: forms that
\* are sent off untouched never raise it, however old what they hold.
LimitWasTyped ==
    \A l \in {accountLimit[Account], limit[Account]} \cup {e.limit : e \in ToSet(changes)} :
        \E n \in typed \cup {SeedLimit} : l \in (n - Len(updates))..n

\* The limit that was last confirmed is in the end the one decisions are made
\* with, unless a change got lost or out of order, or a service was restarted.
\* (That a loop may die, with or without the record that it was about to take,
\* is for AccountsOutbox and Transactions; here the loops run.)
ConfirmedLimitDecides ==
    <>[](confirmed = 0 \/ strayed \/ faults # {} \/ limit[Account] = confirmed)
=============================================================================
