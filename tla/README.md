# A TLA+ model of the event-driven card transaction services

The repository is a small system of four services that talk over Kafka and HTTP. Each keeps
its data in memory. This directory models the services that decide, store and pass on state,
and the web application in front of them, checks the models with TLC, and proves what matters
most with TLAPS.

## 1. The system

```
 webapp --submitPayment.v1--> payments --paymentSubmitted.v1--> transactions --transactionDecisioned.v1-->
   |                             |                                ^  ^   ^
   |                             +--------- GET /balance ---------+  |   |
   +--updateCreditLimit.v1--> accounts --accountCreditLimitUpdated.v1+   |
   |                          (outbox poller)                            |
   +---------- POST authorize, clear; GET balance, transactions ---------+
```

| component | state | operations | what makes it correct |
|---|---|---|---|
| transactions: domain (`domain/`) | none: pure functions of an account's events | decide an authorization (Rule1), clear a transaction, apply a payment or its return, project the balance | nothing is recorded twice; a clearing settles an earlier decision; the projection equals the account's books; an approval keeps the credit limit |
| transactions: service (`usecase/`, `infrastructure/`, `web/`) | two `ListBuffer`s without a lock: events and account infos; the committed offsets of three consumers | HTTP `authorize` and clearing; loops over `paymentSubmitted`, `paymentReturned`, `accountCreditLimitUpdated`; publishing of decisions | what was appended is read; no payment applied twice or lost without cause; the local limit follows its topic; requests are answered; overspending is bounded |
| accounts service | `ListBuffer`s of accounts and of outbox events; a committed offset | loop over `updateCreditLimit.v1`: save, put an event in the outbox, poke | every change is published, and the last one published is the limit in force |
| outbox poller (core) | `lastCheckTimestamp`; the batch it found | check, publish each event, delete it, rest, wake up | no event is lost, sent twice or left behind |
| payments service | `ListBuffer` of payments; a committed offset | loop over `submitPayment.v1`: ask the balance or estimate it, validate, store, publish | a payment is at most the balance; stored and published agree |
| transactions: queries | none | recent transactions; balance, pending and available amount | what they answer is what is stored |
| webapp | none of its own; a visitor has a page or a form before him | the page of transactions, read in three calls; forms for purchases, payments, the credit limit | the page adds up though it is not read at once; visitors are charged what they are told; the limit is one that somebody typed, and the one confirmed comes into force |
| messaging wrappers (core) | Kafka clients | `take` (poll one record, commit, return it), `publish` (send and wait) | at-most-once delivery |
| `CacheInMem`, `core/App.scala`, JSON records | - | not used, or data only | - |

How they interact, and what is hard about it:

* **Shared memory.** Akka runs each request and each consumer loop on a thread of one
  dispatcher. They share the `ListBuffer`s with no lock: an authorization is a read, a
  decision and an append, and other threads come in between. `ListBuffer.addOne` is itself
  several writes; its iterators throw when an append meets them.
* **Delivery.** `KafkaEventListener.take` commits the offset *before* the record is processed,
  so a record whose processing fails is not seen again; a group offset that the broker lost
  starts again at the `earliest` record, so everything is seen again. An exception out of
  `take` ends the loop for good, and one out of `commitSync` may come after the broker has
  stored the offset: then the record is lost with the loop.
* **Restarts.** Memory is rebuilt from `local.scala`; topics and offsets survive.
* **The outbox.** The poller is a second thread on the outbox, reads it newest first, ignores
  the results of sending and deleting, and shares a timestamp with `poke`.
* **Arithmetic.** Amounts are `Int`s, added without a check. The web application multiplies a
  `Double` by 100 and cuts the rest off, so some amounts lose a cent.
* **The page and the forms.** Nothing ties the three calls of a page together, nor a form to
  the state it was opened in; a confirmation means that a record was sent, no more.

The hazards are listed line by line in `PROJECT.json`.

## 2. The modules

| module | models | by |
|---|---|---|
| `TransactionAggregate` | `TransactionAggregate.scala`, `TransactionBalanceProjection.scala`, `rules.scala`, `clearing.scala` | pure operators on the sequence of events; `Accepts` is the `Right`/`Left` of each method, `ResultOf` its event |
| `Ledger` | what the transactions service promises | each command is one atomic step |
| `Transactions` | the transactions service as it runs | every thread has a program counter; reading, the three writes of an append, publishing and the two halves of `save` are steps of their own |
| `TransactionsRefinement` | that `Transactions` with one thread at work implements `Ledger` | `INSTANCE Ledger WITH` the events that were stored |
| `AccountChanges` | what the accounts service promises | a change of a limit comes with its event; only such events are published |
| `AccountsOutbox` | the accounts service and its outbox poller; that it implements `AccountChanges` | a consumer and a poller that share the outbox |
| `Payments` | the payments service beside `Ledger` | a loop whose query, check, store and publication are steps, and between them the ledger's steps, its restarts, and the events and offsets it loses |
| `WebApp` | the web application and the two queries | the page in its three calls and the forms; the services behind it are `Ledger` and `AccountChanges`, joined by their topic |
| `AggregateProofs`, `LedgerProofs`, `TransactionsProofs`, `TransactionsSafetyProofs`, `TransactionsRefinementProofs`, `AccountsOutboxProofs`, `PaymentsProofs`, `WebAppProofs` | - | lemmas and theorems |
| `MCLedger`, `MCTransactions`, `MCRefinement`, `MCAccountsOutbox`, `MCPayments`, `MCWebApp` | - | small instances |

`WebApp` stands on the abstract modules: `Transactions` with one thread at work implements
`Ledger`, and `AccountsOutbox` implements `AccountChanges` whatever fails (both proved). So what
`WebApp` shows of the joined system does not repeat their detail. What overlapping threads of the
transactions service do to each other is in `Transactions`; `Payments` has its outcome, the loss
of the last events (`LoseEvents`); `WebApp` leaves it out, so `PageAddsUp` and the lower bound of
`ChargedAsTold` hold as long as appends do not overlap: a purchase that an overlapping append cuts
off is not charged, and a page that listed it does not add up.

How code becomes TLA+:

* A **command** is a record of kind, account, reference (transaction or payment id), amount,
  and for authorizations whether the place allows the card and the limit that was read. An
  **event** is a record of type, account, reference, amount and outcome. Card numbers, time
  stamps, addresses and texts are left out: nothing that is decided depends on them, except
  the zip code and the merchant, which `allowed` stands for.
* `Wrap` gives sums the width of an `Int`: values are kept in `-IntHalf .. IntHalf-1`.
  `RequestedBalance` wraps as `rules.scala` does.
* In `Transactions`, `log` is the list a reader sees from the head of the buffer, a **cell** is
  an event with an id, and `last0` is the id of the cell that `addOne` hangs the next one on.
  `BeginAppend` counts the mutation and reads `last0`, `Link` writes `last0.next`, `EndAppend`
  writes `last0` and returns. When two appends overlap, `Link` cuts off what followed the old
  last cell, or hangs the new cell on one that was cut off. A read is one step: the state it
  returns is one the list had, or it fails because an append counted its mutation meanwhile.
* `TakeFails` is an exception out of `take`. The loop is dead, and the offset is committed or not:
  `commitSync` may throw after the broker has stored it. `dropped` is the history of the records
  that are committed and were not processed since the service started, for whatever reason: a read
  that met an append, such a commit, or a restart.
* A clearing request is a batch; a consumer's `todo` is the record in hand. A step that answers
  with `Left` is `ReadRejected` or `ReadFails`.
* In `AccountsOutbox`, an append or a removal takes effect when it ends. If one of each overlap,
  the buffer is `torn`, after which any event of it may be cut off when it is next written or
  read (`Remains`). `due` says that `lastCheckTimestamp` lies more than a minute back; `poke` and the
  poller both write it. `Limit` is the poller's `limit` (100), at which it goes on at once.
* In `Payments`, the balance that is asked is the projection of the ledger's events at that
  moment. An answer that holds an error (the account has no events, or a read of the store
  met an append) leads to `Fallback`; an answer that does not come throws, and the loop is
  dead, as after a source that `PaymentSource.withName` does not know. The transactions service
  beside it is `Ledger`, which may also lose its last events (`LoseEvents`), start again from its
  seed with its offset kept (`RestartTransactions`), skip a payment (`Drop`), and be delivered
  payments again (`ResetApplied`). `risky` is the history of payments whose check could not hold
  until they are applied: the balance was an estimate; another payment of the account was on its
  way when it was asked (`outdated`); or between its check and its application events were lost, or
  it was skipped and delivered again. `overdrawn` is what these took from each account.
* In `WebApp`, `page` is the page of transactions as far as it is read: what
  `GetTransactions` and `GetAccountInfo` answered, and how long the list of events was at the first call.
  `GetBalance` completes it, so a property of whole pages is one of states that are `Ready`
  for that call. `field` is the limit in the form. `Cents` is `(x.toDouble * 100).toInt` on
  an amount with two decimals: it is the amount in cents, less one for those in `Truncated`
  (0.29, 0.57, 0.58, 1.13, ...). A post may fail before or after its record was sent. What
  the payments service does with a submission is left to `Payments`; here any submission may
  be paid, once or more often.
* The brokers are external: a topic is the sequence of its records, with one partition, which
  is what the repository's compose file gives it. A send may fail, with or without effect.
* Memory is taken to be sequentially consistent.

Each module also has a few definitions under the heading "A fault": a variant of an action, as
a mistake in the code would make it. No specification uses them. Each property below is known
to be violated when one of them takes the place of the action it varies.

## 3. What is checked

| run | question | result |
|---|---|---|
| `ledger` | Is the domain logic right when commands come one at a time, in any order and repeated? | Nothing twice; clearings settle earlier decisions for their amount; the projection equals books kept transaction by transaction (`ProjectionIsBooks`); approvals keep the limit unless the `Int` sum wraps (`ApprovalKeepsLimit`); clearing does not change what is owed |
| `payments` | What becomes of records that are delivered again, or whose commit fails, and of decisions, beside requests and a restart? | Payments are applied once, returned once; no stored event is lost while appends do not overlap (`StoredIsKept`); each committed payment is in the store, in hand, or dropped for one of three causes (`PaymentsAccounted`); the copy of the limits is always the last update it took (`LimitFollowsTopic`); each stored decision is on its topic or its send failed (`DecisionsPublished`) |
| `limits` | How wrong can concurrent authorizations be, and does all work end? | The account can be overspent, by at most one amount for each other handler, also beside an update that lowers the limit (`OvershootBounded`: the bound is on the largest limit, and on what the log says is owed; approvals that overlapping appends cut off do not count); requests are answered, topics drained, an account taken out by a save comes back |
| `refinement` | Is the service the ledger when its threads do not overlap? | Yes (`ImplementsLedger`), with failing sends, commits that fail with or without effect, dying loops and redelivery |
| `outbox` | What becomes of outbox events beside failing sends, overlapping writes, redelivered updates and a restart? | Each is in the outbox, on the topic, or its send failed; one is published again only if it could not be deleted; each is sent in the end, though a poke can be overwritten (`OutboxDrained`: the minute's check finds it); the topic ends with the limit in force if no check found two events; whatever fails, a limit changes only with its event, and only such events are published (`ImplementsAccountChanges`) |
| `payment_flow` | Can an account be overpaid, and what becomes of payments? | By no more than the payments applied to it whose check could not hold (`NotOverpaid`): the balance was estimated, or asked while another payment was on its way, or the transactions service lost events or its memory while the payment was, or skipped it and was delivered it again. Any other payment is covered when it is applied. Estimates never admit larger amounts than were paid before; what is stored is published as stored, or its send failed; submissions are gone through to the end |
| `web_pages` | Can visitors believe what the web application shows and tells them? | A page that lists everything adds up but for returned payments and what came between its calls (`PageAddsUp`); its credit limit is the one its available amount comes from unless a change is on its way or got lost (`PageAgrees`); visitors are charged what they were told, less cents, and more only by purchases they saw errors about (`ChargedAsTold`); no limit is in force that nobody typed, but for a cent less per submission (`LimitWasTyped`); the limit confirmed last comes into force (`ConfirmedLimitDecides`) |

Five runs end in a violation, each of a sentence in the repository's documents or comments:

| run | the code does | the sentence |
|---|---|---|
| `lost_append` | overlapping appends lose an event whose `append` returned `Right` | "Get all events for given entity" (`EventStore.scala:7`) |
| `duplicate_decision` | one transaction sent twice at once is decisioned twice | aggregates "should handle duplicate commands" (`docs/event_driven.md:15`) |
| `dropped_payment` | a payment whose read meets a request's append is never applied, though its loop lives | "listens to payments platform and applies payment events" (`README.md:32`) |
| `unpublished_change` | an event whose send failed is deleted from the outbox | "change to credit limit will result in publishing state change event" (`README.md:24`) |
| `stale_copy` | two changes found by one check are published newest first | "listens to account change events to maintain local state" (`README.md:33`) |

### Bounds

* `ledger`: one known and one unknown account, two transactions with two amounts each, a
  payment, its return and two limits, each usable any number of times: the deduplication
  bounds the buffer. `IntHalf` is 16, so that one request wraps and the others do not.
* `payments`: all three consumers and a handler, so three threads append; a payment, its return,
  two limits, one request, one lost offset of any consumer, one restart, a failing commit of each
  loop before and after the restart. 3.1 million states.
* `limits`: two handlers and three requests out of two authorizations and a clearing of two
  items, while the limit of the account is lowered. Two threads are enough for every way in
  which two appends overlap, and three requests let one follow such an overlap, and let one
  read what two others stored.
* `refinement`: one thread of each kind at work at a time, in every order; two requests, the two
  limits, a payment and its return, one lost offset. At most one thread is `Working`
  (`OneAtWork`): with two, `duplicate_decision` shows a behaviour that is none of `Ledger`. Nor
  does the service restart, which would undo what the ledger holds.
* `outbox`: three updates, one of an unknown account; the offset may be lost while fewer than
  `MaxSaves` events were saved, so up to three are; `Limit` 2; one restart; removals may fail
  until the topic has `MaxTopic` events. A full batch, two events in one check and an
  overlap of a removal with an append all occur.
* `payment_flow`: an account that owes 1, and 3 more once a clearing comes; three submissions, of 2
  and 3 and one from an unknown source, delivered again once, so up to six payments; one restart of
  the payments service; the transactions service loses events or its offset, or restarts, once
  (`MaxLosses`), at any moment. A payment is then applied to a balance that lacks the clearing it was
  checked with, and two payments are checked against one balance. 1.1 million states.
* `web_pages`: two forms are submitted (a purchase, a payment or a limit: a form can be tried
  again, and an old form sent off after a newer one), and two payments made, which may be of
  one submission; a clearing and a returned payment come meanwhile. A page lists three
  transactions, so that it overflows. Two events are published before one is published
  again; either service restarts once at most. The purchase is of an amount that loses a
  cent, and so is the first limit, so an untouched form loses one more; one limit that is
  typed is refused.

The runs set `CHECK_DEADLOCK FALSE`: with the bounds used up and the topics read, the services
wait for clients.

### Fairness

`Transactions!Fairness` runs every thread that can go on: the dispatcher has at least eight
threads and three of them are taken by loops, a request's work is finite, and a send ends by
its delivery timeout. Taking is fair because `poll` returns. Nothing obliges clients to call,
and a loop may die at any time, which is why `TopicsDrained` allows for it.
`AccountsOutbox!Fairness` is the same for its two threads, and lets time pass; so is
`Payments!Fairness` for the payments loop and the consumer of its payments. `WebApp!Fairness`
runs the two consumers and the poller of the joined system (`TakeUpdate`, `CopyChange`,
`PublishFirst`); that a loop may die is in the modules of the services, where the properties
allow for it. No property needs strong fairness.

## 4. What is proved

The proofs hold for all values of the constants that the named assumptions allow: any sets of
handlers and accounts, any requests, topics and seeds, any `IntHalf`, and any bounds. They rest
on the assumptions next to the constants, each of which TLC evaluates in the runs. Besides
types, the assumptions say:

* the seed in `local.scala` holds nothing twice and clears only what it decided
  (`SeedAssumption`);
* amounts and limits that reach the ledger are `Int`s (`AmountAssumption`: they are decoded as
  `Int`s);
* amounts in forms fit an `Int` (`WebAppAssumption`), and what is paid or bought is more than zero
  when it reaches the payments service and the ledger beside it (`AmountsAssumption`), which
  `validateAmount` of the web application sees to (`MakePayment.scala:38`,
  `MakePurchase.scala:42`); the seed of that ledger has no account below zero.

Every safety property of the passing runs is proved, and both refinements are.

* `AggregateProofs`: the lemmas about the operators.
  - An accepted command yields an event of the right type, account and reference
    (`ResultOfCommand` and the lemmas beside it); `Wrap` yields an `Int`, which is the only one
    that differs by a multiple of the range, and wrapping the parts of a sum does not change
    the wrapped sum (`WrapOf`, `WrapUnique`, `WrapSums`).
  - What a fold or a sum over a log of any length comes to. The library's induction theorems
    take a predicate, which no prover here can instantiate, so induction is stated for a *set* of
    numbers (`NatSetInduction`) and of subsets (`SubsetInduction`). The community modules define
    sums and folds by a `CHOOSE` of a recursive function: `FoldExists` and `SumUnfolded` show that
    there is one, and that its value does not depend on the order in which elements are
    taken. From these, `SumPush`, `SumShift`, `SumSplit`, `SumBounded` say what sums do when a log
    grows, and `BalanceOfEmpty` and `BalanceOfAppend` that the projection of a longer log is
    `ApplyEvent` of the projection of the shorter one.
  - What an account owes is a sum over the log, as long as balance and pending amount fit an `Int`
    (`ProjectionIsSums`, `OwedIsSum`); a log that is cut off and appended to owes no more than the
    new event adds, if no event reduces what is owed (`OwedOfCut`).
* `LedgerProofs`: `LedgerTypeCorrect`, `LedgerAtMostOnce` and `LedgerClearedAfterDecision`, which
  are inductive with type correctness: only `Store` changes `events`, it appends one event, and
  `Accepts` excludes an event that repeats one. On them rest the theorems about money:
  - `LedgerProjectionIsBooks`. A log in which nothing is there twice and every clearing follows
    its decision is `Sound`; so is every prefix of it. By induction over the length of a sound
    log, the projection is the wrapped books: an appended decision enters one sum, a clearing
    moves its decision from one sum to another (it has exactly one, for the same amount), a
    payment enters its own.
  - `LedgerClearingKeepsOwed`, by `BalanceOfAppend` and the arithmetic of `Wrap`.
  - `LedgerApprovalKeepsLimit`: `RequestedBalance` is the wrapped sum of what the books say is owed
    after the approval, so if that sum does not exceed the range of `Int`, it is what was
    compared with the limit, or it is below the range and thereby below the limit (`LimitsFit`:
    limits are `Int`s).
* `TransactionsProofs`: `ShapeHolds` and `TypeCorrect`. Type correctness is not inductive by
  itself: `EndAppend` and `Finish` take the head and the tail of `todo`, and `ResultOf` yields
  an event only for a command of a kind that the thread may have. `Shape` adds what is needed
  to `TypeOK`: a thread is at work exactly when `todo` is not empty, its commands are of its
  own kinds, and the cell it appends holds the event its command asks for (`ThreadInv`); no
  offset lies beyond its topic. One lemma for each group of actions shows that `Shape` is
  kept.
* `TransactionsSafetyProofs`: `PaymentsOnceHolds`, `StoredIsKeptHolds`, `PaymentsAccountedHolds`,
  `LimitFollowsTopicHolds`, `DecisionsPublishedHolds` and `OvershootBoundedHolds`, on top of `Shape`.
  - `PaymentsOnce` says nothing about a payment between its consumer's read and its `Link`, when
    other threads go on appending; `PaymentInv` adds that it is not in the buffer all that
    time, which holds because each of the two payment types is appended by one loop only
    (`WhoAppends`). `Link` cuts off or appends (`LinkStep`), and cutting off cannot break the
    property.
  - `StoredIsKept` needs `TailInv`: while `raced` is false at most one thread is linking, and
    `last0`, or the cell being linked, is the end of the list, so `Link` cuts nothing off. That
    the cell with the id `tail[t]` *is* the last one uses `IdInv`: no two cells have the same id.
  - `PaymentsAccounted` then follows step by step (`AccountInv`): what was recorded stays
    recorded (`LinkRecords`), and a loop that finishes its record leaves an event of it, found
    one, or noted that its read failed (`AccountFinish`). A commit that takes effect and fails
    notes its record in `dropped`, a restart all that are committed; `Take` removes a record
    from it when it is delivered again.
  - `LimitFollowsTopic` needs that no account is out of the store but between the halves of a
    save (`SaveInv`), so that an update is skipped only if its account is unknown; `CopyInv`
    states the property without the maximum, update by update, of those taken since the service
    started. The record of a failing commit is not among them.
  - `DecisionsPublished` needs that what is about to be published was stored (`PublishInv`). It
    does not need the list: it holds also when appends overlap.
  - `OvershootBounded`: what an account owes and what is approved and not yet linked stay within
    the largest limit and one amount for each other handler. One that approves read what is owed
    and found room for its own amount under a limit that was in force (`ApprovedWithin`); it is not in
    flight itself yet, so what is in flight are at most the amounts of the others, one each, as
    a handler appends one cell at a time (`FlightBounded`, `ReadBound`). `Link` moves an amount from
    what is in flight to what is owed, or loses it, and may lose more (`LinkBound`); no other
    step but a restart touches either (`StepKinds`). `CardInv`, which TLC checked on the instance of
    `limits` before, bounds the commands in hand and the limits, and says that no event in the
    buffer reduces what is owed. The theorem has two hypotheses. `CardsOnly` is about the
    constants: no payments, amounts and limits from 0 up as the forms let them through
    (`MakePurchase.scala`, `UpdateCreditLimit.scala`), a seed within its limits, and a limit and one amount
    for each handler below the largest `Int`. `SumsFit` is about the states: balance and pending
    amount each fit an `Int`. The projection adds without a check, so where a sum wraps a balance
    may be anything, and so may the decision.
* `TransactionsRefinementProofs`: `ImplementsLedgerHolds`. Every step of a service with one thread at
  work is a step of `Ledger` or a stutter: `Link` is the ledger's `Store`, `RestoreAccount` its
  `UpdateLimit`. A command is decided at its read and takes effect at its `Link`, so `SeqInv`
  carries what was decided over the steps between: the command in hand is one that was sent, an
  authorization with the limit that is still in force (`HandInv`), and the cell being appended
  holds the event that the log, as it is now, accepts and asks for (`DecidedInv`). Nobody else
  is at work, so nothing changes the log or the limits meanwhile, no two appends overlap, and
  `Link` appends.
* `AccountsOutboxProofs`: type correctness again needs a strengthening, `Shape`: the consumer has
  a record of its topic in hand, and its account has the new limit once it is put back
  (`RecordInv`); the bound on lost offsets bounds the saves (`SavesInv`); the outbox, the batch
  and the topic hold saved events, the first two none twice (`EventsInv`); what is deleted
  was sent or its send failed (`PollerInv`). On it rest
  - `EventsAccountedHolds`, an invariant by itself then;
  - `RepublishedIfKeptHolds`, by `SentInv`: an event on the topic that is not `kept` is neither in
    the outbox nor before the poller, but for the one whose deletion is under way;
  - `TopicEndsWithLimitHolds`, by `LimitInv` (the last save of an account has its limit) and
    `OrderInv` (while no check finds two events, topic, batch and outbox are in the order of the
    saves);
  - `ImplementsAccountChangesHolds`: the refinement, with what may yet be published (the event
    on its way into the outbox, the outbox, the rest of the batch) as the abstract
    `unpublished`. It has no condition: it holds with torn buffers and through restarts.
* `PaymentsProofs`: the steps of the ledger are dealt with through what they append.
  - `StoredIsPublishedHolds`. Its invariant, `Shape`, adds that there is an id left for every
    payment (`CountInv`: each pass through the topic makes at most one payment per record, and
    `PaymentIds` suffices for all passes), and that ids are drawn in their order, so that the
    payment in hand is new to the topic (`MadeInv`).
  - `TypeCorrect` adds that balances are `Int`s (`ValueInv`), and `EstimateAdmitsNoMoreHolds` is
    inductive with `EstimateInv`: an estimate in hand is the fallback of the store, and what is
    in the store was made, for a positive amount. The average of such amounts is at most the
    largest of them (`SumBounded`); the sum that is divided may wrap, but only to less.
  - `NotOverpaidHolds`, by `LogInv` and `HandInv`. Payments whose check held, that are on their way
    (`Pending`), are each covered by what their account owes but for what risky payments took
    (`Credit`), and so are the balance in hand and the payment that is about to be published; and
    there is one of these for each account (`HandInv`). A clearing only raises what is owed, an
    authorization leaves it. When a payment of the account is applied that is risky, `overdrawn`
    grows as the balance falls. Losing events makes all that is on its way risky, so `HandInv` asks
    nothing of it any more; but what is owed falls to what it was at an earlier length of the log,
    so `LogInv` states the bound for every length down to the seed's, with today's `overdrawn`,
    which only a restart resets, together with the log. The theorem has a hypothesis,
    `ClearingsFit`: what a clearing adds to a balance fits an `Int`. The projection adds without a
    check, so a balance that outgrows an `Int` becomes negative with nothing paid.
* `WebAppProofs`:
  - `LimitWasTypedHolds`. `OriginInv` says the same of all that may become the limit: events and
    updates on their way, and the limit in a form that is still open. An untouched form may lose
    a cent, but then it is a submission more.
  - `TypeCorrect`: `TypeInv` bounds every amount that a form may hold or a record carry.
  - `ChargedAsToldHolds`: `ChargeInv` compares the sum over the log with what was told, through
    each answer, error and restart (`ChargesAppended`: what one more event adds).
  - `PageAddsUpHolds`. `PageSumInv` says of a page whose list is read what it adds up to, in terms of
    the log as it was then, which is a prefix of the log as it is now (`AddsAppended`). At the
    third call, `BalanceTotal` (what is owed is the wrapped sum of the log's effects) and
    `SumSplit` (the prefix and the rest) give the property. `RecentList` shows that a list shorter
    than `PageSize` left nothing out.
  - `PageAgreesHolds`. `SyncInv` says that without faults every change on its way is that of an
    update that was taken and the changes come in order, so the copy has the limit in
    force as soon as none is on its way; and that a page on which none was on its way shows it.
    TLC checked `SyncInv` on the instance of `web_pages` before it was proved.

Only model-checked:

* Liveness, which is out of the proof system's reach: `RequestsAnswered`, `TopicsDrained`,
  `AccountsReturn`, `OutboxDrained`, `SubmissionsDrained`, `ConfirmedLimitDecides`.

## 5. Not modelled, and what is left

Not modelled:

* The static files of the web application. Those under `webapp/public/js` are three builds of
  the third-party Bootstrap library and the sample script of a Bootstrap template, which draws
  a chart of fixed numbers; no page of this program keeps state in a script. They are the only
  JavaScript in the repository, and none of the program's own logic: that is in Scala.
* The parsing and formatting of JSON, logging, configuration: data and wording. A record that
  does not parse is logged and skipped.
* `AccountCreated`, which nothing publishes; `CacheInMem` and `core/App.scala`, which nothing uses.
* Several partitions: the repository's compose file creates topics with one. With more, the
  changes of one account would have no order, as their key is the id of the event.
* Weak memory effects beyond the interleavings above.

What is left open is liveness, which stays with TLC, and what hypotheses exclude: sums that outgrow
an `Int` (`OvershootBounded`, `NotOverpaid`), and payments beside the card transactions
(`OvershootBounded`): a payment that is returned, or that an overlapping append cuts off, raises what
is owed without a decision, and the bound need not hold.
Overlapping appends are left out beneath `WebApp`, and after a restart `PageAgrees` and
`ConfirmedLimitDecides` claim nothing: the copy of a limit is the seed's until its next change. That a
loop may die is admitted by `TopicsDrained` and `SubmissionsDrained`, as the code has nothing that would
start it again. `EventsAccounted`, `TopicEndsWithLimit` and `PaymentsAccounted` claim nothing once a buffer
was torn.
