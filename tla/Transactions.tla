----------------------------- MODULE Transactions -----------------------------
(***************************************************************************)
(* The transactions service as it runs: HTTP handlers and three consumer   *)
(* loops are threads of one process that share two ListBuffers, the event  *)
(* buffer of TransactionStoreInMemory and the account buffer of            *)
(* AccountInfoStoreInMemory, with no lock.                                 *)
(*                                                                         *)
(* The event buffer is a linked list of cells.  addOne counts a mutation   *)
(* and reads last0 ("append"), writes last0.next ("link") and writes last0 *)
(* ("last"); these are separate steps here, so two appends may interleave. *)
(* "log" is the list as a reader that starts at its head sees it.  Reading *)
(* the buffer is one step, which fails when an append overlaps it (the     *)
(* iterator finds the mutation count changed).  Memory is sequentially     *)
(* consistent.                                                             *)
(***************************************************************************)
EXTENDS TransactionAggregate

CONSTANTS
    Handlers,       \* threads that serve HTTP requests
    Accounts,       \* the accounts the service holds account info for
    Requests,       \* the HTTP requests that change state, each the sequence
                    \* of its commands: one "authorize", or a batch of "clear"
    Topic,          \* the records of the topic each consumer loop reads
    SeedEvents,     \* the events local.scala puts in the store
    SeedLimit,      \* the credit limits local.scala puts in the account store
    MaxRequests,    \* bound: HTTP requests served
    MaxResets,      \* bound: times a consumer group's offset is lost
    MaxCrashes      \* bound: restarts of the service

Consumers == {"submitted", "returned", "limits"}
Threads   == Handlers \cup Consumers

CellType    == [id : Nat, event : EventType]

ASSUME HandlersAssumption == Handlers \cap Consumers = {}

ASSUME StoresAssumption ==
    /\ Accounts \subseteq STRING
    /\ SeedLimit \in [Accounts -> Int]
    /\ SeedEvents \in Seq(EventType)
    /\ SeedEvents # << >>
    /\ \A i, j \in DOMAIN SeedEvents :
          (/\ SeedEvents[i].type \in {"paymentApplied", "paymentReturned"}
           /\ SeedEvents[i].type = SeedEvents[j].type
           /\ SeedEvents[i].account = SeedEvents[j].account
           /\ SeedEvents[i].ref = SeedEvents[j].ref) => i = j

ASSUME InputsAssumption ==
    /\ Requests \subseteq Seq(CommandType)
    /\ \A r \in Requests :
          \/ Len(r) = 1 /\ r[1].kind = "authorize"
          \/ \A i \in DOMAIN r : r[i].kind = "clear"
    /\ Topic \in [Consumers -> Seq(CommandType)]
    /\ \A i \in DOMAIN Topic["submitted"] : Topic["submitted"][i].kind = "submitted"
    /\ \A i \in DOMAIN Topic["returned"] : Topic["returned"][i].kind = "returned"
    /\ \A i \in DOMAIN Topic["limits"] : Topic["limits"][i].kind = "limitUpdated"

ASSUME BoundsAssumption == MaxRequests \in Nat /\ MaxResets \in Nat /\ MaxCrashes \in Nat

VARIABLES
    pc,             \* what each thread does next
    todo,           \* the commands a thread still has to execute, head first
    cell,           \* the list cell a thread is appending
    tail,           \* last0 as a thread read it when its append began
    log,            \* the event buffer, from its head
    last0,          \* the id of the cell the buffer appends to
    allocated,      \* how many cells were allocated
    limit,          \* the credit limit in each account's AccountInfo
    present,        \* the accounts whose AccountInfo is in the account buffer
    offset,         \* the committed offset of each consumer
    published,      \* decisions on topic transactionDecisioned, by cell
    stored,         \* history: the cells whose append returned
    raced,          \* history: two appends overlapped
    unsent,         \* history: the cells whose send failed
    dropped,        \* history: the records (consumer and place in its topic)
                    \* committed and not processed since the service started
    requests, resets, crashes   \* counters for the bounds

threadVars  == <<pc, todo, cell, tail>>
storeVars   == <<log, last0, allocated>>
accountVars == <<limit, present>>
brokerVars  == <<offset, published>>
historyVars == <<stored, raced, unsent, dropped>>
boundVars   == <<requests, resets, crashes>>
vars == <<threadVars, storeVars, accountVars, brokerVars, historyVars, boundVars>>

Steps == {"idle", "read", "append", "link", "last", "publish", "remove", "restore", "dead"}
\* In place of a cell when there is none; what it holds is never read.
NoCell == [id |-> 0, event |-> SeedEvents[1]]

Seed == [i \in DOMAIN SeedEvents |-> [id |-> i, event |-> SeedEvents[i]]]

\* TransactionStoreInMemory.get sees the events in list order.
Events == [i \in DOMAIN log |-> log[i].event]

Visible(c) == \E i \in DOMAIN log : log[i] = c

\* local.scala: what a service holds in memory when it starts.
Init ==
    /\ pc = [t \in Threads |-> "idle"] /\ todo = [t \in Threads |-> << >>]
    /\ cell = [t \in Threads |-> NoCell] /\ tail = [t \in Threads |-> 0]
    /\ log = Seed /\ last0 = Len(Seed) /\ allocated = Len(Seed)
    /\ limit = SeedLimit /\ present = Accounts
    /\ offset = [c \in Consumers |-> 0] /\ published = {}
    /\ stored = {} /\ raced = FALSE /\ unsent = {} /\ dropped = {}
    /\ requests = 0 /\ resets = 0 /\ crashes = 0

-----------------------------------------------------------------------------
(* HTTP requests: the authorize and clearAuths routes.                     *)

Start(t, commands, step) ==
    /\ todo' = [todo EXCEPT ![t] = commands]
    /\ pc' = [pc EXCEPT ![t] = step]
    /\ UNCHANGED <<cell, tail>>

\* The command in hand is done, with a result or with an error: the thread
\* goes on to the next of a batch, and answers after the last.
Finish(t) ==
    /\ todo' = [todo EXCEPT ![t] = Tail(@)]
    /\ pc' = [pc EXCEPT ![t] = IF Len(todo[t]) > 1 THEN "read" ELSE "idle"]
    /\ cell' = [cell EXCEPT ![t] = NoCell]
    /\ tail' = [tail EXCEPT ![t] = 0]

Receive(h) ==
    /\ pc[h] = "idle"
    /\ requests < MaxRequests
    /\ requests' = requests + 1
    /\ UNCHANGED <<storeVars, accountVars, brokerVars, historyVars, resets, crashes>>

\* getByCardNumber finds the account and its credit limit; the limit is kept
\* until the decision is made.
ReceiveAuthorize(h) ==
    \E r \in Requests :
        /\ Receive(h)
        /\ r # << >> /\ r[1].kind = "authorize"
        /\ r[1].account \in present
        /\ Start(h, << [r[1] EXCEPT !.limit = limit[r[1].account]] >>, "read")

\* getByCardNumber does not find the account, or its iterator meets a save
\* that is under way: the request is answered with an error.
RefuseAuthorize(h) ==
    \E r \in Requests :
        /\ Receive(h)
        /\ r # << >> /\ r[1].kind = "authorize"
        /\ r[1].account \notin present \/ pc["limits"] = "restore"
        /\ UNCHANGED threadVars

ReceiveClear(h) ==
    \E r \in Requests :
        /\ Receive(h)
        /\ r # << >> /\ r[1].kind = "clear"
        /\ Start(h, r, "read")

-----------------------------------------------------------------------------
(* Executing a command on the event store.                                 *)

Command(t) == Head(todo[t])

\* es.get and the aggregate's decision: Right.
ReadAccepted(t) ==
    /\ pc[t] = "read"
    /\ Accepts(Command(t), Events)
    /\ allocated' = allocated + 1
    /\ cell' = [cell EXCEPT ![t] = [id |-> allocated + 1, event |-> ResultOf(Command(t), Events)]]
    /\ pc' = [pc EXCEPT ![t] = "append"]
    /\ UNCHANGED <<todo, tail, log, last0, accountVars, brokerVars, historyVars, boundVars>>

\* A fault: a rejected command is tried again.
ReadRejectedRetries(t) == pc[t] = "read" /\ ~ Accepts(Command(t), Events) /\ UNCHANGED vars

\* es.get and the aggregate's decision: Left.
ReadRejected(t) ==
    /\ pc[t] = "read"
    /\ ~ Accepts(Command(t), Events)
    /\ Finish(t)
    /\ UNCHANGED <<storeVars, accountVars, brokerVars, historyVars, boundVars>>

\* es.get throws inside its Try: another thread's append has counted its
\* mutation since the iterator was made.
ReadFails(t) ==
    /\ pc[t] = "read"
    /\ \E u \in Threads \ {t} : pc[u] = "link"
    /\ dropped' = IF t \in Consumers THEN dropped \cup {<<t, offset[t]>>} ELSE dropped
    /\ Finish(t)
    /\ UNCHANGED <<storeVars, accountVars, brokerVars, stored, raced, unsent, boundVars>>

BeginAppend(t) ==
    /\ pc[t] = "append"
    /\ tail' = [tail EXCEPT ![t] = last0]
    /\ raced' = (raced \/ \E u \in Threads : pc[u] \in {"link", "last"})
    /\ pc' = [pc EXCEPT ![t] = "link"]
    /\ UNCHANGED <<todo, cell, storeVars, accountVars, brokerVars, stored, unsent, dropped, boundVars>>

\* Where the cell with this id is in the list; 0 if it was cut off.
Position(id) == SelectInSeq(log, LAMBDA c : c.id = id)

\* last0.next = last1.  What followed the old last cell is cut off; and when
\* that cell has itself been cut off, the new one cannot be reached either.
Link(t) ==
    /\ pc[t] = "link"
    /\ log' = LET at == Position(tail[t])
              IN  IF at = 0 THEN log ELSE Append(SubSeq(log, 1, at), cell[t])
    /\ pc' = [pc EXCEPT ![t] = "last"]
    /\ UNCHANGED <<todo, cell, tail, last0, allocated, accountVars, brokerVars, historyVars, boundVars>>

\* A fault: last0 is not moved on.
EndAppendKeepsLast(t) ==
    /\ pc[t] = "last"
    /\ stored' = stored \cup {cell[t]}
    /\ IF Command(t).kind = "authorize"
         THEN pc' = [pc EXCEPT ![t] = "publish"] /\ UNCHANGED <<todo, cell, tail>>
         ELSE Finish(t)
    /\ UNCHANGED <<log, last0, allocated, accountVars, brokerVars, raced, unsent, dropped, boundVars>>

\* last0 = last1, and append returns.  Only a decision is published.
EndAppend(t) ==
    /\ pc[t] = "last"
    /\ last0' = cell[t].id
    /\ stored' = stored \cup {cell[t]}
    /\ IF Command(t).kind = "authorize"
         THEN pc' = [pc EXCEPT ![t] = "publish"] /\ UNCHANGED <<todo, cell, tail>>
         ELSE Finish(t)
    /\ UNCHANGED <<log, allocated, accountVars, brokerVars, raced, unsent, dropped, boundVars>>

\* A fault: only approvals are published.
PublishApproval(t) ==
    /\ pc[t] = "publish"
    /\ published' = IF cell[t].event.outcome = "approved" THEN published \cup {cell[t]} ELSE published
    /\ Finish(t)
    /\ UNCHANGED <<storeVars, accountVars, offset, historyVars, boundVars>>

Publish(t) ==
    /\ pc[t] = "publish"
    /\ published' = published \cup {cell[t]}
    /\ Finish(t)
    /\ UNCHANGED <<storeVars, accountVars, offset, historyVars, boundVars>>

\* The send fails or its answer is lost: the request is answered with an error
\* though its decision is stored, and perhaps published.
PublishFails(t) ==
    /\ pc[t] = "publish"
    /\ published' \in {published, published \cup {cell[t]}}
    /\ unsent' = unsent \cup {cell[t]}
    /\ Finish(t)
    /\ UNCHANGED <<storeVars, accountVars, offset, stored, raced, dropped, boundVars>>

-----------------------------------------------------------------------------
(* The consumer loops.                                                     *)

\* A fault: the offset is not committed, so the record is read again and again.
TakeUncommitted(c) ==
    /\ pc[c] = "idle"
    /\ offset[c] < Len(Topic[c])
    /\ Start(c, << Topic[c][offset[c] + 1] >>, IF c = "limits" THEN "remove" ELSE "read")
    /\ UNCHANGED <<storeVars, accountVars, brokerVars, historyVars, boundVars>>

\* KafkaEventListener.take: poll one record and commit its offset, before
\* the record is processed.
Take(c) ==
    /\ pc[c] = "idle"
    /\ offset[c] < Len(Topic[c])
    /\ offset' = [offset EXCEPT ![c] = @ + 1]
    /\ Start(c, << Topic[c][offset[c] + 1] >>, IF c = "limits" THEN "remove" ELSE "read")
    /\ dropped' = dropped \ {<<c, offset[c] + 1>>}
    /\ UNCHANGED <<storeVars, accountVars, published, stored, raced, unsent, boundVars>>

\* poll or commitSync throws: nothing in the loop catches it, and the loop is
\* not run again before the service restarts.  commitSync may throw after the
\* broker has stored the offset: the record that was polled is lost with the
\* loop.  (poll fails at the end of the topic too; but a loop that waits there
\* for good does no more than one that is dead.)
TakeFails(c) ==
    /\ pc[c] = "idle"
    /\ offset[c] < Len(Topic[c])
    /\ pc' = [pc EXCEPT ![c] = "dead"]
    /\ \/ UNCHANGED <<offset, dropped>>
       \/ /\ offset' = [offset EXCEPT ![c] = @ + 1]
          /\ dropped' = dropped \cup {<<c, offset[c] + 1>>}
    /\ UNCHANGED <<todo, cell, tail, storeVars, accountVars, published, stored, raced, unsent,
                   boundVars>>

\* ProcessAccountChangeEvents, then the first half of AccountInfoStoreInMemory
\* .save.  An account the store does not hold is left alone.
RemoveAccount ==
    /\ pc["limits"] = "remove"
    /\ IF Command("limits").account \in present
         THEN /\ present' = present \ {Command("limits").account}
              /\ pc' = [pc EXCEPT !["limits"] = "restore"]
              /\ UNCHANGED <<todo, cell, tail>>
         ELSE Finish("limits") /\ UNCHANGED present
    /\ UNCHANGED <<limit, storeVars, brokerVars, historyVars, boundVars>>

\* Faults: the account is not put back; the new limit is added to the old.
RestoreAccountForgotten ==
    /\ pc["limits"] = "restore"
    /\ limit' = [limit EXCEPT ![Command("limits").account] = Command("limits").amount]
    /\ Finish("limits")
    /\ UNCHANGED <<present, storeVars, brokerVars, historyVars, boundVars>>

RestoreAccountRaised ==
    /\ pc["limits"] = "restore"
    /\ present' = present \cup {Command("limits").account}
    /\ limit' = [limit EXCEPT ![Command("limits").account] = @ + Command("limits").amount]
    /\ Finish("limits")
    /\ UNCHANGED <<storeVars, brokerVars, historyVars, boundVars>>

\* The second half of save.
RestoreAccount ==
    /\ pc["limits"] = "restore"
    /\ present' = present \cup {Command("limits").account}
    /\ limit' = [limit EXCEPT ![Command("limits").account] = Command("limits").amount]
    /\ Finish("limits")
    /\ UNCHANGED <<storeVars, brokerVars, historyVars, boundVars>>

-----------------------------------------------------------------------------
(* Faults.                                                                 *)

\* A fault: the consumer starts one before the first record.
ResetOffsetTooFar(c) ==
    /\ pc[c] = "idle"
    /\ offset[c] > 0
    /\ resets < MaxResets
    /\ resets' = resets + 1
    /\ offset' = [offset EXCEPT ![c] = -1]
    /\ UNCHANGED <<threadVars, storeVars, accountVars, published, historyVars, requests, crashes>>

\* The broker no longer has the group's offset when the consumer is assigned
\* its partition: auto.offset.reset is "earliest".
ResetOffset(c) ==
    /\ pc[c] = "idle"
    /\ offset[c] > 0
    /\ resets < MaxResets
    /\ resets' = resets + 1
    /\ offset' = [offset EXCEPT ![c] = 0]
    /\ UNCHANGED <<threadVars, storeVars, accountVars, published, historyVars, requests, crashes>>

\* The service stops anywhere and starts again: memory is as local.scala
\* makes it, the topics and the committed offsets are as they were.
Restart ==
    /\ crashes < MaxCrashes
    /\ crashes' = crashes + 1
    /\ pc' = [t \in Threads |-> "idle"] /\ todo' = [t \in Threads |-> << >>]
    /\ cell' = [t \in Threads |-> NoCell] /\ tail' = [t \in Threads |-> 0]
    /\ log' = Seed /\ last0' = Len(Seed)
    /\ limit' = SeedLimit /\ present' = Accounts
    /\ stored' = {} /\ raced' = FALSE /\ unsent' = {}
    /\ dropped' = UNION {{c} \X (1..offset[c]) : c \in Consumers}
    /\ UNCHANGED <<allocated, brokerVars, requests, resets>>

-----------------------------------------------------------------------------

Execute(t) == \/ ReadAccepted(t) \/ ReadRejected(t) \/ ReadFails(t)
              \/ BeginAppend(t) \/ Link(t) \/ EndAppend(t)
              \/ Publish(t) \/ PublishFails(t)

Next ==
    \/ \E h \in Handlers : ReceiveAuthorize(h) \/ RefuseAuthorize(h) \/ ReceiveClear(h)
    \/ \E t \in Threads : Execute(t)
    \/ \E c \in Consumers : Take(c) \/ TakeFails(c) \/ ResetOffset(c)
    \/ RemoveAccount
    \/ RestoreAccount
    \/ Restart

Spec == Init /\ [][Next]_vars

\* The dispatcher runs every thread that can go on, and a send is answered or
\* times out; nothing obliges clients to call or loops to fail.
Fairness ==
    /\ \A t \in Threads : WF_vars(Execute(t))
    /\ \A c \in Consumers : WF_vars(Take(c))
    /\ WF_vars(RemoveAccount)
    /\ WF_vars(RestoreAccount)

FairSpec == Spec /\ Fairness

-----------------------------------------------------------------------------
(* Properties                                                              *)

TypeOK ==
    /\ pc \in [Threads -> Steps]
    /\ todo \in [Threads -> Seq(CommandType)]
    /\ cell \in [Threads -> CellType]
    /\ tail \in [Threads -> Nat]
    /\ log \in Seq(CellType)
    /\ last0 \in Nat /\ allocated \in Nat
    /\ limit \in [Accounts -> Int]
    /\ present \subseteq Accounts
    /\ offset \in [Consumers -> Nat]
    /\ published \subseteq CellType /\ stored \subseteq CellType
    /\ raced \in BOOLEAN
    /\ unsent \subseteq CellType
    /\ dropped \subseteq Consumers \X Nat
    /\ requests \in Nat /\ resets \in Nat /\ crashes \in Nat

\* "We want to deduplicate payment events and ensure we are not applying same
\* event twice" (ProcessPaymentEvent): no payment is in the buffer as applied
\* twice or as returned twice, though records are delivered again, requests
\* and the other consumer append at the same time, and appends get lost.
PaymentsOnce ==
    \A i, j \in DOMAIN Events :
        (/\ Events[i].type \in {"paymentApplied", "paymentReturned"}
         /\ Events[i].type = Events[j].type
         /\ Events[i].account = Events[j].account
         /\ Events[i].ref = Events[j].ref) => i = j

\* Every event whose append returned can be read, as long as no two appends
\* have overlapped: with the unlocked ListBuffer this is all there is.
StoredIsKept == ~ raced => \A c \in stored : Visible(c)

\* A payment record whose offset is committed is in the buffer, or its loop
\* has it in hand, or it was dropped: its read met an append, the commit of it
\* ended the loop, or the service restarted since.  Nothing else makes the
\* at-most-once delivery of take lose it, short of overlapping appends; and
\* what is delivered again after a restart is accounted for again.
PaymentsAccounted ==
    ~ raced =>
        \A c \in {"submitted", "returned"} : \A i \in 1..offset[c] :
            LET p == Topic[c][i]
            IN  \/ Recorded(Events, p.account, TypeFor[c], p.ref)
                \/ i = offset[c] /\ todo[c] = <<p>>
                \/ <<c, i>> \in dropped

\* The updates of this account that the loop has taken in hand, of those up to
\* its offset and since the service started: not one whose commit ended it.
TakenUpdates(a) == {i \in 1..offset["limits"] : /\ Topic["limits"][i].account = a
                                                /\ <<"limits", i>> \notin dropped}

\* Between two updates the account store holds the limit of the last update
\* the loop has taken since the service started, though the store is without
\* the account halfway through a save, and an unknown account is left alone;
\* delivered again, updates set it back and forth in their order, and their
\* last one has the last word.
LimitFollowsTopic ==
    todo["limits"] = << >> =>
        \A a \in Accounts : TakenUpdates(a) # {} =>
            limit[a] = Topic["limits"][Max(TakenUpdates(a))].amount

\* Every decision that was stored is on its topic as it was stored, or about to
\* be, or its send failed and the client saw an error; and what is on the topic
\* was stored before, short of a restart.
DecisionsPublished ==
    /\ \A c \in stored : c.event.type = "decisioned" =>
          \/ c \in published \cup unsent
          \/ \E t \in Threads : pc[t] = "publish" /\ cell[t] = c
    /\ crashes = 0 => published \cup unsent \subseteq stored

-----------------------------------------------------------------------------
(* What concurrent authorizations can overspend.                           *)

Owed(a) == LET s == TransactionBalance(Events, a) IN s.balance + s.pending

\* The threads whose approval for this account is decided and not yet linked.
Unstored(a) == {t \in Threads : /\ pc[t] \in {"append", "link"}
                                /\ cell[t].event.account = a
                                /\ cell[t].event.outcome = "approved"}

InFlight(a) == SumFunctionOnSet([t \in Threads |-> cell[t].event.amount], Unstored(a))

MaxAmount ==
    Max({0} \cup {r[1].amount : r \in {q \in Requests : q # << >> /\ q[1].kind = "authorize"}})

MaxLimit(a) ==
    Max({SeedLimit[a]} \cup {u.amount : u \in {v \in ToSet(Topic["limits"]) : v.account = a}})

\* Requests that decide on the same events can together exceed the credit
\* limit, but by no more than one amount for each of the other handlers, as
\* long as only card transactions are at work: nothing accumulates, because
\* the next decision reads what the last ones stored.  What is owed is what
\* the log says: approvals that overlapping appends cut off do not count.  A
\* limit that is lowered while a decision is made may be exceeded by it: the
\* bound is on the largest limit of the topic.
OvershootBounded ==
    \A a \in Accounts :
        Owed(a) + InFlight(a) <= MaxLimit(a) + (Cardinality(Handlers) - 1) * MaxAmount

(* What must happen.                                                       *)

\* Every request is answered.
RequestsAnswered == \A h \in Handlers : pc[h] # "idle" ~> pc[h] = "idle"

\* Every consumer loop processes its topic to the end, or dies.
TopicsDrained ==
    \A c \in Consumers : <>[](\/ pc[c] = "dead"
                              \/ pc[c] = "idle" /\ offset[c] = Len(Topic[c]))

\* An account that a save has taken out of the store comes back.
AccountsReturn == \A a \in Accounts : a \notin present ~> a \in present

(* What the repository's comments and documents say, and the code does not *)
(* keep when requests are served concurrently.                             *)

\* "Get all events for given entity" (EventStore.scala): what was appended is
\* read.
AppendedIsRead == \A c \in stored : Visible(c)

\* "should handle duplicate commands" (docs/event_driven.md, on aggregates):
\* a transaction is decisioned once.
DecidedOnce ==
    \A i, j \in DOMAIN Events :
        (/\ Events[i].type = "decisioned"
         /\ Events[i].type = Events[j].type
         /\ Events[i].account = Events[j].account
         /\ Events[i].ref = Events[j].ref) => i = j

\* "listens to payments platform and applies payment events" (README.md): a
\* payment record that was taken is applied, as long as its loop lives, without
\* a restart and without overlapping appends.
TakenIsApplied ==
    (~ raced /\ crashes = 0 /\ pc["submitted"] # "dead") =>
        \A i \in 1..offset["submitted"] :
            LET p == Topic["submitted"][i]
            IN  Recorded(Events, p.account, "paymentApplied", p.ref) \/ todo["submitted"] = <<p>>

-----------------------------------------------------------------------------
(* Parts of the inductive invariants behind these properties               *)
(* (TransactionsProofs.tla, TransactionsSafetyProofs.tla).                  *)

KindsOf(t) == IF t \in Handlers THEN {"authorize", "clear"}
              ELSE IF t = "limits" THEN {"limitUpdated"} ELSE {t}

\* A thread is at work exactly when it has commands, of its own kinds; a
\* consumer loop has one record in hand at most.
ThreadOK(t) ==
    /\ \A i \in DOMAIN todo[t] : todo[t][i].kind \in KindsOf(t)
    /\ pc[t] \in {"idle", "dead"} <=> todo[t] = << >>
    /\ t \in Consumers => Len(todo[t]) <= 1
    /\ t = "limits" => pc[t] \in {"idle", "dead", "remove", "restore"}
    /\ pc[t] = "restore" => Command(t).account \in Accounts

Appending(t) == pc[t] \in {"append", "link"}

\* A cell being appended holds the event its command asks for.
CellOK(t) ==
    pc[t] \in {"append", "link", "last", "publish"} =>
        /\ cell[t].id \in 1..allocated
        /\ cell[t].event.type = TypeFor[Command(t).kind]
        /\ cell[t].event.account = Command(t).account
        /\ cell[t].event.ref = Command(t).ref

ThreadInv == \A t \in Threads : ThreadOK(t) /\ CellOK(t)

\* No two cells have the same id.
IdInv ==
    /\ log # << >> /\ allocated >= Len(Seed)
    /\ \A i \in DOMAIN log : log[i].id \in 1..allocated
    /\ \A i, j \in DOMAIN log : log[i].id = log[j].id => i = j
    /\ \A t \in Threads : Appending(t) => \A i \in DOMAIN log : log[i].id # cell[t].id
    /\ \A t, u \in Threads :
          (Appending(t) /\ Appending(u) /\ cell[t].id = cell[u].id) => t = u

\* Between its read and its Link, a consumer's payment is not in the buffer.
PaymentInv ==
    /\ PaymentsOnce
    /\ \A c \in {"submitted", "returned"} : Appending(c) =>
          ~ Recorded(Events, cell[c].event.account, cell[c].event.type, cell[c].event.ref)

\* While appends have not overlapped, last0 is the end of the list.
TailInv ==
    ~ raced =>
        /\ \A t, u \in Threads :
              (pc[t] \in {"link", "last"} /\ pc[u] \in {"link", "last"}) => t = u
        /\ \A t \in Threads : pc[t] = "link" => tail[t] = last0
        /\ \A t \in Threads : pc[t] = "last" => log[Len(log)] = cell[t]
        /\ (\A t \in Threads : pc[t] # "last") => last0 = log[Len(log)].id
=============================================================================
