----------------------- MODULE TransactionsSafetyProofs -----------------------
(* Safety of the concurrent service, for any number of handlers, any        *)
(* requests, topics and seed, and any number of lost offsets and restarts:  *)
(* no payment is applied or returned twice, though appends overlap; while   *)
(* they do not, what was appended can be read and every payment record that *)
(* was committed is accounted for; the limits follow their topic; what was  *)
(* decided is published; and what card transactions can overspend together  *)
(* is bounded.                                                              *)
EXTENDS TransactionsProofs

(***************************************************************************)
(* Part 1: no payment twice.                                               *)
(***************************************************************************)

PaymentLoops == {"submitted", "returned"}

\* Two events about one payment that both say it was applied, or returned.
SamePayment(e, f) == /\ e.type \in {"paymentApplied", "paymentReturned"}
                     /\ e.type = f.type /\ e.account = f.account /\ e.ref = f.ref

\* PaymentsOnce and Recorded, said of the cells of the list.
LEMMA OnceOfCells ==
    PaymentsOnce <=> \A i, j \in DOMAIN log : SamePayment(log[i].event, log[j].event) => i = j
BY DEF PaymentsOnce, SamePayment, Events

\* Recorded, said of the cells of the list.
LEMMA RecordedOfCells ==
    ASSUME NEW account, NEW type, NEW ref
    PROVE  Recorded(Events, account, type, ref)
              <=> \E i \in DOMAIN log : /\ log[i].event.account = account
                                        /\ log[i].event.type = type
                                        /\ log[i].event.ref = ref
BY DEF Recorded, Events

\* A step that neither changes the list nor lets a thread begin an append
\* keeps the invariants.
LEMMA QuietStep ==
    ASSUME IdInv, PaymentInv, log' = log, allocated' = allocated,
           \A t \in Threads : Appending(t)' => Appending(t) /\ cell'[t] = cell[t]
    PROVE  IdInv' /\ PaymentInv'
<1>1. IdInv'
  BY DEF IdInv
<1>2. PaymentsOnce'
  BY DEF PaymentInv, PaymentsOnce, Events
<1>3. ASSUME NEW c \in PaymentLoops, Appending(c)'
      PROVE  ~ Recorded(Events, cell[c].event.account, cell[c].event.type, cell[c].event.ref)'
  <2>1. c \in Threads
    BY ThreadSets DEF PaymentLoops
  <2>2. Appending(c) /\ cell'[c] = cell[c]
    BY <1>3, <2>1
  <2>3. ~ Recorded(Events, cell[c].event.account, cell[c].event.type, cell[c].event.ref)
    BY <2>2 DEF PaymentInv, PaymentLoops
  <2>4. Events' = Events
    BY DEF Events
  <2> QED
    BY <2>2, <2>3, <2>4
<1> QED
  BY <1>1, <1>2, <1>3 DEF PaymentInv, PaymentLoops

\* The new cell of an accepted command has an id of its own, and a consumer
\* has just seen that its payment is not in the buffer.
LEMMA ReadAcceptedKeeps ==
    ASSUME Shape, IdInv, PaymentInv, NEW t \in Threads, ReadAccepted(t)
    PROVE  IdInv' /\ PaymentInv'
<1> DEFINE e == ResultOf(Command(t), Events)
           c == [id |-> allocated + 1, event |-> e]
<1>1. TypeOK /\ ThreadInv /\ allocated \in Nat /\ pc[t] = "read" /\ Len(Seed) \in Nat
  BY SeedType DEF Shape, TypeOK, ReadAccepted
<1>2. /\ log' = log /\ allocated' = allocated + 1
      /\ pc' = [pc EXCEPT ![t] = "append"] /\ cell' = [cell EXCEPT ![t] = c]
  BY DEF ReadAccepted
<1>3. /\ cell'[t] = c /\ pc'[t] = "append"
      /\ \A u \in Threads \ {t} : pc'[u] = pc[u] /\ cell'[u] = cell[u]
  BY <1>1, <1>2 DEF TypeOK
<1>4. /\ e.type = TypeFor[Command(t).kind]
      /\ e.account = Command(t).account /\ e.ref = Command(t).ref
      /\ ~ Recorded(Events, e.account, e.type, e.ref)
  <2>1. /\ Command(t) \in CommandType /\ t # "limits" /\ Command(t).kind \in KindsOf(t)
    BY <1>1, CommandInHand DEF ThreadInv, ThreadOK
  <2>2. Command(t).kind # "limitUpdated"
    BY <2>1 DEF KindsOf, Threads, Consumers
  <2>3. Accepts(Command(t), Events) /\ Events \in Seq(EventType)
    BY <1>1, EventsType DEF ReadAccepted
  <2>4. /\ e.type = TypeFor[Command(t).kind]
        /\ e.account = Command(t).account /\ e.ref = Command(t).ref
    BY <2>1, <2>2, <2>3, ResultOfCommand
  <2> HIDE DEF e
  <2> QED
    BY <2>3, <2>4 DEF Accepts
<1> HIDE DEF e
<1>5. c.id = allocated + 1 /\ c.event = e
  OBVIOUS
<1> HIDE DEF c
<1>6. \A u \in Threads \ {t} : Appending(u)' => Appending(u) /\ cell'[u] = cell[u]
  BY <1>3 DEF Appending
<1>7. \A u \in Threads : Appending(u) => cell[u].id \in 1..allocated
  BY <1>1 DEF ThreadInv, CellOK, Appending
<1>8. IdInv'
  <2>1. log' # << >> /\ allocated' >= Len(Seed)
    BY <1>1, <1>2 DEF IdInv
  <2>2. /\ \A i \in DOMAIN log' : log'[i].id \in 1..allocated'
        /\ \A i, j \in DOMAIN log' : log'[i].id = log'[j].id => i = j
    BY <1>1, <1>2 DEF IdInv
  <2>3. ASSUME NEW u \in Threads, Appending(u)'
        PROVE  \A i \in DOMAIN log' : log'[i].id # cell'[u].id
    BY <1>1, <1>2, <1>3, <1>5, <1>6, <2>3 DEF IdInv
  <2>4. ASSUME NEW u \in Threads, NEW v \in Threads, Appending(u)', Appending(v)',
               cell'[u].id = cell'[v].id
        PROVE  u = v
    <3>1. CASE u # t /\ v # t
      BY <1>6, <2>4, <3>1 DEF IdInv
    <3>2. CASE u = t /\ v # t
      BY <1>1, <1>3, <1>5, <1>6, <1>7, <2>4, <3>2
    <3>3. CASE u # t /\ v = t
      BY <1>1, <1>3, <1>5, <1>6, <1>7, <2>4, <3>3
    <3> QED
      BY <3>1, <3>2, <3>3
  <2> QED
    BY <2>1, <2>2, <2>3, <2>4 DEF IdInv
<1>9. Events' = Events
  BY <1>2 DEF Events
<1>10. PaymentsOnce'
  BY <1>9 DEF PaymentInv, PaymentsOnce
<1>11. ASSUME NEW d \in PaymentLoops, Appending(d)'
       PROVE  ~ Recorded(Events, cell[d].event.account, cell[d].event.type, cell[d].event.ref)'
  <2>1. CASE d = t
    BY <1>3, <1>4, <1>5, <1>9, <2>1
  <2>2. CASE d # t
    <3>1. d \in Threads
      BY ThreadSets DEF PaymentLoops
    <3>2. Appending(d) /\ cell'[d] = cell[d]
      BY <1>6, <1>11, <2>2, <3>1
    <3> QED
      BY <1>9, <3>2 DEF PaymentInv, PaymentLoops
  <2> QED
    BY <2>1, <2>2
<1> QED
  BY <1>8, <1>10, <1>11 DEF PaymentInv, PaymentLoops

\* Which thread appends which type of event: payments come from one consumer
\* loop for each type.
LEMMA WhoAppends ==
    ASSUME Shape, NEW t \in Threads, Appending(t)
    PROVE  /\ cell[t].event.type = "paymentApplied"  => t = "submitted"
           /\ cell[t].event.type = "paymentReturned" => t = "returned"
<1>1. /\ pc[t] \in {"append", "link"} /\ TypeOK /\ ThreadInv
  BY DEF Shape, Appending
<1>2. cell[t].event.type = TypeFor[Command(t).kind]
  BY <1>1 DEF ThreadInv, CellOK
<1>3. t # "limits" /\ Command(t).kind \in KindsOf(t)
  BY <1>1, CommandInHand DEF ThreadInv, ThreadOK
<1>4. Command(t).kind \in {"authorize", "clear"} \/ Command(t).kind = t
  BY <1>3 DEF KindsOf
<1>5. t \in Handlers \/ t = "submitted" \/ t = "returned"
  BY <1>3 DEF Threads, Consumers
<1>6. t \in Handlers => Command(t).kind \in {"authorize", "clear"}
  BY <1>3 DEF KindsOf
<1> QED
  BY <1>2, <1>4, <1>5, <1>6 DEF TypeFor

\* And a consumer loop appends only payments of its type.
LEMMA WhatIsAppended ==
    ASSUME Shape, NEW c \in PaymentLoops, Appending(c)
    PROVE  cell[c].event.type = IF c = "submitted" THEN "paymentApplied" ELSE "paymentReturned"
<1>1. c \in Threads /\ c \notin Handlers /\ c # "limits"
  BY ThreadSets DEF PaymentLoops
<1>2. /\ pc[c] \in {"append", "link"} /\ TypeOK /\ ThreadInv
  BY DEF Shape, Appending
<1>3. cell[c].event.type = TypeFor[Command(c).kind] /\ Command(c).kind = c
  BY <1>1, <1>2, CommandInHand DEF ThreadInv, CellOK, KindsOf
<1> QED
  BY <1>3 DEF TypeFor, PaymentLoops

\* Linking a cell: its payment, if it holds one, was not in the buffer when
\* the consumer looked and cannot have come in since.
LEMMA LinkKeeps ==
    ASSUME Shape, IdInv, PaymentInv, NEW t \in Threads, Link(t)
    PROVE  IdInv' /\ PaymentInv'
<1>1. TypeOK /\ ThreadInv /\ allocated \in Nat /\ pc[t] = "link" /\ Appending(t)
  BY DEF Shape, TypeOK, Link, Appending
<1>2. /\ pc' = [pc EXCEPT ![t] = "last"] /\ cell' = cell /\ allocated' = allocated
  BY DEF Link
<1>3. \A u \in Threads : Appending(u)' => u # t /\ Appending(u) /\ cell'[u] = cell[u]
  BY <1>1, <1>2 DEF TypeOK, Appending
<1>4. CASE log' = log
  BY <1>2, <1>3, <1>4, QuietStep
<1>5. ASSUME NEW k \in DOMAIN log,
             log' \in Seq(CellType), Len(log') = k + 1, DOMAIN log' = 1..(k + 1),
             log'[k + 1] = cell[t], \A i \in 1..k : log'[i] = log[i]
      PROVE  IdInv' /\ PaymentInv'
  <2>1. k \in Nat \ {0} /\ 1..k \subseteq DOMAIN log
    <3>1. log \in Seq(CellType)
      BY <1>1 DEF TypeOK
    <3>2. DOMAIN log = 1..Len(log) /\ Len(log) \in Nat
      BY <3>1, LenProperties
    <3> QED
      BY <3>2
  <2>2. \A i \in DOMAIN log' : i = k + 1 \/ (i \in 1..k /\ i \in DOMAIN log)
    BY <1>5, <2>1
  <2>3. cell[t].id \in 1..allocated /\ \A i \in DOMAIN log : log[i].id # cell[t].id
    BY <1>1 DEF ThreadInv, CellOK, IdInv
  <2>4. log' # << >>
    <3>1. Len(<< >>) = 0
      BY EmptySeq
    <3> QED
      BY <1>5, <2>1, <3>1
  <2>5. \A i \in DOMAIN log' : log'[i].id \in 1..allocated'
    BY <1>2, <1>5, <2>1, <2>2, <2>3 DEF IdInv
  <2>6. ASSUME NEW i \in DOMAIN log', NEW j \in DOMAIN log', log'[i].id = log'[j].id
        PROVE  i = j
    BY <1>5, <2>1, <2>2, <2>3, <2>6 DEF IdInv
  <2>7. ASSUME NEW u \in Threads, Appending(u)'
        PROVE  \A i \in DOMAIN log' : log'[i].id # cell'[u].id
    <3>1. u # t /\ Appending(u) /\ cell'[u] = cell[u]
      BY <1>3, <2>7
    <3>2. cell[u].id # cell[t].id /\ \A i \in DOMAIN log : log[i].id # cell[u].id
      BY <1>1, <3>1 DEF IdInv
    <3> QED
      BY <1>5, <2>2, <3>1, <3>2
  <2>8. \A u, v \in Threads : (Appending(u)' /\ Appending(v)' /\ cell'[u].id = cell'[v].id) => u = v
    BY <1>3 DEF IdInv
  <2>9. IdInv'
    BY <1>2, <2>4, <2>5, <2>6, <2>7, <2>8, SeedType DEF IdInv
  <2> DEFINE e == cell[t].event
  <2>10. e.type \in {"paymentApplied", "paymentReturned"} =>
            /\ t \in PaymentLoops
            /\ \A i \in DOMAIN log : ~ (/\ log[i].event.account = e.account
                                        /\ log[i].event.type = e.type
                                        /\ log[i].event.ref = e.ref)
    <3> SUFFICES ASSUME e.type \in {"paymentApplied", "paymentReturned"}
                 PROVE  /\ t \in PaymentLoops
                        /\ \A i \in DOMAIN log : ~ (/\ log[i].event.account = e.account
                                                    /\ log[i].event.type = e.type
                                                    /\ log[i].event.ref = e.ref)
      OBVIOUS
    <3>1. t \in PaymentLoops
      BY <1>1, WhoAppends DEF PaymentLoops
    <3>2. ~ Recorded(Events, e.account, e.type, e.ref)
      BY <1>1, <3>1 DEF PaymentInv, PaymentLoops
    <3> QED
      BY <3>1, <3>2, RecordedOfCells
  <2>11. \A i \in 1..k : ~ SamePayment(log[i].event, e) /\ ~ SamePayment(e, log[i].event)
    BY <2>1, <2>10 DEF SamePayment
  <2>12. \A i, j \in DOMAIN log : SamePayment(log[i].event, log[j].event) => i = j
    BY OnceOfCells DEF PaymentInv
  <2> HIDE DEF e
  <2>13. log'[k + 1].event = e
    BY <1>5 DEF e
  <2>14. PaymentsOnce'
    <3>1. ASSUME NEW i \in DOMAIN log', NEW j \in DOMAIN log',
                 SamePayment(log'[i].event, log'[j].event)
          PROVE  i = j
      <4>1. CASE i = k + 1 /\ j # k + 1
        BY <1>5, <2>2, <2>11, <2>13, <3>1, <4>1
      <4>2. CASE i # k + 1 /\ j = k + 1
        BY <1>5, <2>2, <2>11, <2>13, <3>1, <4>2
      <4>3. CASE i # k + 1 /\ j # k + 1
        BY <1>5, <2>2, <2>12, <3>1, <4>3
      <4> QED
        BY <4>1, <4>2, <4>3
    <3> QED
      BY <3>1 DEF PaymentsOnce, SamePayment, Events
  <2>15. ASSUME NEW c \in PaymentLoops, Appending(c)'
         PROVE  ~ Recorded(Events, cell[c].event.account, cell[c].event.type, cell[c].event.ref)'
    <3> DEFINE f == cell[c].event
    <3>1. c \in Threads
      BY ThreadSets DEF PaymentLoops
    <3>2. c # t /\ Appending(c) /\ cell'[c].event = f
      BY <1>3, <2>15, <3>1
    <3>3. \A i \in DOMAIN log : ~ (/\ log[i].event.account = f.account
                                   /\ log[i].event.type = f.type
                                   /\ log[i].event.ref = f.ref)
      <4>1. ~ Recorded(Events, f.account, f.type, f.ref)
        BY <3>2 DEF PaymentInv, PaymentLoops
      <4> QED
        BY <4>1, RecordedOfCells
    <3>4. f.type # e.type
      BY <1>1, <3>1, <3>2, WhatIsAppended, WhoAppends DEF PaymentLoops, e
    <3> HIDE DEF f
    <3>5. \A i \in DOMAIN log' : ~ (/\ log'[i].event.account = f.account
                                    /\ log'[i].event.type = f.type
                                    /\ log'[i].event.ref = f.ref)
      BY <1>5, <2>2, <2>13, <3>3, <3>4
    <3> QED
      BY <3>2, <3>5 DEF Recorded, Events
  <2> QED
    BY <2>9, <2>14, <2>15 DEF PaymentInv, PaymentLoops
<1> QED
  BY <1>1, <1>4, <1>5, LinkStep

\* A service that starts holds the seed, where no payment is recorded twice.
LEMMA SeedIsUnique ==
    \A i, j \in DOMAIN Seed : SamePayment(Seed[i].event, Seed[j].event) => i = j
BY SeedType, StoresAssumption DEF SamePayment

\* The service starts with the seed alone.
LEMMA InitKeeps == Init => IdInv /\ PaymentInv
<1> SUFFICES ASSUME Init PROVE IdInv /\ PaymentInv
  OBVIOUS
<1>1. log = Seed /\ allocated = Len(Seed) /\ \A t \in Threads : ~ Appending(t)
  BY DEF Init, Appending
<1>2. Len(<< >>) = 0
  BY EmptySeq
<1>3. IdInv
  <2>1. log # << >> /\ allocated >= Len(Seed)
    BY <1>1, <1>2, SeedType
  <2>2. \A i \in DOMAIN log : log[i].id = i /\ i \in 1..allocated
    <3>1. \A i \in DOMAIN Seed : Seed[i].id = i /\ i \in 1..Len(Seed)
      BY SeedType
    <3> QED
      BY <1>1, <3>1, Zenon
  <2>3. /\ \A t \in Threads : Appending(t) => \A i \in DOMAIN log : log[i].id # cell[t].id
        /\ \A t, u \in Threads :
              (Appending(t) /\ Appending(u) /\ cell[t].id = cell[u].id) => t = u
    BY <1>1
  <2> QED
    BY <2>1, <2>2, <2>3 DEF IdInv
<1>4. PaymentInv
  BY <1>1, SeedIsUnique, OnceOfCells, ThreadSets DEF PaymentInv
<1> QED
  BY <1>3, <1>4

\* So it does when it starts again.
LEMMA RestartKeeps == ASSUME Shape, IdInv, PaymentInv, Restart PROVE IdInv' /\ PaymentInv'
<1>1. log' = Seed /\ allocated' = allocated /\ \A t \in Threads : ~ Appending(t)'
  BY DEF Restart, Appending
<1>2. Len(<< >>) = 0 /\ allocated \in Nat
  BY EmptySeq DEF Shape, TypeOK
<1>3. IdInv'
  <2>1. log' # << >> /\ allocated' >= Len(Seed)
    BY <1>1, <1>2, SeedType DEF IdInv
  <2>2. \A i \in DOMAIN log' : log'[i].id \in 1..allocated'
    BY <1>1, <1>2, SeedType DEF IdInv
  <2>3. \A i, j \in DOMAIN log' : log'[i].id = log'[j].id => i = j
    BY <1>1, SeedType
  <2> QED
    BY <1>1, <2>1, <2>2, <2>3 DEF IdInv
<1>4. PaymentsOnce'
  BY <1>1, SeedIsUnique DEF PaymentsOnce, SamePayment, Events
<1>5. PaymentInv'
  BY <1>1, <1>4, ThreadSets DEF PaymentInv
<1> QED
  BY <1>3, <1>5

\* Steps on the event store that neither decide nor link.
LEMMA QuietExecute ==
    ASSUME Shape, IdInv, PaymentInv, NEW t \in Threads,
           ReadRejected(t) \/ ReadFails(t) \/ BeginAppend(t) \/ EndAppend(t)
              \/ Publish(t) \/ PublishFails(t)
    PROVE  IdInv' /\ PaymentInv'
<1>1. TypeOK /\ ThreadInv /\ pc[t] \notin {"idle", "dead"}
  BY DEF Shape, ReadRejected, ReadFails, BeginAppend, EndAppend, Publish, PublishFails
<1>2. log' = log /\ allocated' = allocated
  BY DEF ReadRejected, ReadFails, BeginAppend, EndAppend, Publish, PublishFails, storeVars
<1>3. CASE Finish(t)
  BY <1>1, <1>2, <1>3, FinishStep, QuietStep DEF Appending
<1>4. CASE BeginAppend(t)
  BY <1>1, <1>2, <1>4, QuietStep DEF BeginAppend, TypeOK, Appending
<1>5. CASE EndAppend(t) /\ Command(t).kind = "authorize"
  BY <1>1, <1>2, <1>5, QuietStep DEF EndAppend, TypeOK, Appending
<1> QED
  BY <1>3, <1>4, <1>5 DEF ReadRejected, ReadFails, EndAppend, Publish, PublishFails

\* Threads that start on something, consumers and the account store do not
\* touch the event buffer.
LEMMA OtherStep ==
    ASSUME Shape, IdInv, PaymentInv,
           \/ \E h \in Handlers : ReceiveAuthorize(h) \/ RefuseAuthorize(h) \/ ReceiveClear(h)
           \/ \E c \in Consumers : Take(c) \/ TakeFails(c) \/ ResetOffset(c)
           \/ RemoveAccount \/ RestoreAccount
           \/ UNCHANGED vars
    PROVE  IdInv' /\ PaymentInv'
<1>1. TypeOK /\ ThreadInv
  BY DEF Shape
<1>2. ASSUME NEW h \in Threads, NEW commands, NEW step \in {"read", "remove"},
             Start(h, commands, step), UNCHANGED storeVars
      PROVE  IdInv' /\ PaymentInv'
  BY <1>1, <1>2, QuietStep DEF Start, TypeOK, Appending, storeVars
<1>3. CASE UNCHANGED <<threadVars, storeVars>>
  BY <1>3, QuietStep DEF threadVars, storeVars, Appending
<1>4. CASE \E h \in Handlers : ReceiveAuthorize(h) \/ RefuseAuthorize(h) \/ ReceiveClear(h)
  BY <1>2, <1>3, <1>4, ThreadSets DEF ReceiveAuthorize, RefuseAuthorize, ReceiveClear, Receive
<1>5. ASSUME NEW c \in Consumers, Take(c)
      PROVE  IdInv' /\ PaymentInv'
  BY <1>2, <1>5, ThreadSets DEF Take
<1>6. ASSUME NEW c \in Consumers, TakeFails(c)
      PROVE  IdInv' /\ PaymentInv'
  BY <1>1, <1>6, QuietStep DEF TakeFails, TypeOK, Appending, storeVars
<1>7. ASSUME NEW c \in Consumers, ResetOffset(c)
      PROVE  IdInv' /\ PaymentInv'
  BY <1>3, <1>7 DEF ResetOffset
<1>8. CASE RemoveAccount \/ RestoreAccount
  <2> DEFINE t == "limits"
  <2>1. t \in Threads /\ pc[t] \notin {"idle", "dead"} /\ log' = log /\ allocated' = allocated
    BY <1>8, ThreadSets DEF RemoveAccount, RestoreAccount, storeVars
  <2>2. CASE Finish(t)
    BY <1>1, <2>1, <2>2, FinishStep, QuietStep DEF Appending
  <2>3. CASE pc' = [pc EXCEPT ![t] = "restore"] /\ cell' = cell
    BY <1>1, <2>1, <2>3, QuietStep DEF TypeOK, Appending
  <2> QED
    BY <1>8, <2>2, <2>3 DEF RemoveAccount, RestoreAccount
<1>9. CASE UNCHANGED vars
  BY <1>3, <1>9 DEF vars
<1> QED
  BY <1>4, <1>5, <1>6, <1>7, <1>8, <1>9

\* Both invariants hold of every state.
LEMMA SafeCells == Spec => [](IdInv /\ PaymentInv)
<1>1. Init => IdInv /\ PaymentInv
  BY InitKeeps
<1>2. Shape /\ IdInv /\ PaymentInv /\ [Next]_vars => (IdInv /\ PaymentInv)'
  <2> SUFFICES ASSUME Shape, IdInv, PaymentInv, [Next]_vars PROVE IdInv' /\ PaymentInv'
    OBVIOUS
  <2>1. ASSUME NEW t \in Threads, Execute(t) PROVE IdInv' /\ PaymentInv'
    BY <2>1, ReadAcceptedKeeps, LinkKeeps, QuietExecute DEF Execute
  <2> QED
    BY <2>1, RestartKeeps, OtherStep DEF Next
<1> QED
  BY <1>1, <1>2, ShapeHolds, PTL DEF Spec

\* PaymentsOnce of the service, with every interleaving of its threads, for
\* every choice of the constants.
THEOREM PaymentsOnceHolds == Spec => []PaymentsOnce
<1>1. PaymentInv => PaymentsOnce
  BY DEF PaymentInv
<1> QED
  BY <1>1, SafeCells, PTL

(***************************************************************************)
(* Part 2: what was appended can be read, while appends do not overlap.    *)
(***************************************************************************)

Linking(t) == pc[t] \in {"link", "last"}

\* TailInv and StoredIsKept without their hypothesis.
TailFacts ==
    /\ \A t, u \in Threads : (Linking(t) /\ Linking(u)) => t = u
    /\ \A t \in Threads : pc[t] = "link" => tail[t] = last0
    /\ \A t \in Threads : pc[t] = "last" => log[Len(log)] = cell[t]
    /\ (\A t \in Threads : pc[t] # "last") => last0 = log[Len(log)].id
    /\ \A c \in stored : Visible(c)

TailSafe == ~ raced => TailFacts

\* TailSafe gives StoredIsKept.
LEMMA TailSafeGives == TailSafe => StoredIsKept
BY Zenon DEF TailSafe, TailFacts, StoredIsKept

\* A step that leaves the buffer alone, and all threads that are linking.
LEMMA TailQuiet ==
    ASSUME TailSafe, log' = log, last0' = last0, stored' = stored, raced' = raced,
           \A u \in Threads :
              \/ pc'[u] = pc[u] /\ cell'[u] = cell[u] /\ tail'[u] = tail[u]
              \/ ~ Linking(u) /\ ~ Linking(u)'
    PROVE  TailSafe'
<1> SUFFICES ASSUME ~ raced' PROVE TailFacts'
  BY Zenon DEF TailSafe
<1>1. TailFacts
  BY Zenon DEF TailSafe
<1>2. \A u \in Threads :
         /\ Linking(u)' => Linking(u) /\ pc'[u] = pc[u] /\ cell'[u] = cell[u] /\ tail'[u] = tail[u]
         /\ pc[u] = "last" <=> pc'[u] = "last"
  BY DEF Linking
<1>3. \A t \in Threads : pc'[t] = "last" \/ pc'[t] = "link" => Linking(t)'
  BY DEF Linking
<1>4. \A c \in stored' : Visible(c)'
  BY <1>1 DEF TailFacts, Visible
<1> QED
  BY <1>1, <1>2, <1>3, <1>4 DEF TailFacts

\* An append that begins when no other is under way.
LEMMA TailBegin ==
    ASSUME Shape, TailSafe, NEW t \in Threads, BeginAppend(t)
    PROVE  TailSafe'
<1> SUFFICES ASSUME ~ raced' PROVE TailFacts'
  BY Zenon DEF TailSafe
<1>1. ~ raced /\ \A u \in Threads : ~ Linking(u)
  BY Zenon DEF BeginAppend, Linking
<1>2. TailFacts
  BY <1>1, Zenon DEF TailSafe
<1>3. /\ pc' = [pc EXCEPT ![t] = "link"] /\ tail' = [tail EXCEPT ![t] = last0]
      /\ cell' = cell /\ log' = log /\ last0' = last0 /\ stored' = stored
      /\ pc \in [Threads -> Steps] /\ tail \in [Threads -> Nat]
  BY DEF BeginAppend, storeVars, Shape, TypeOK
<1>4. \A u \in Threads : /\ Linking(u)' <=> u = t
                         /\ pc'[u] # "last" /\ pc[u] # "last"
                         /\ pc'[u] = "link" <=> u = t
  BY <1>1, <1>3 DEF Linking
<1>5. tail'[t] = last0'
  BY <1>3
<1>6. \A c \in stored' : Visible(c)'
  BY <1>2, <1>3 DEF TailFacts, Visible
<1> QED
  BY <1>2, <1>3, <1>4, <1>5, <1>6 DEF TailFacts

\* The cell read as last0 is the last of the list, so nothing is cut off.
LEMMA TailLink ==
    ASSUME Shape, IdInv, TailSafe, NEW t \in Threads, Link(t)
    PROVE  TailSafe'
<1>1. /\ pc[t] = "link" /\ pc' = [pc EXCEPT ![t] = "last"] /\ raced' = raced
      /\ cell' = cell /\ tail' = tail /\ last0' = last0 /\ stored' = stored
      /\ pc \in [Threads -> Steps] /\ TypeOK
  BY DEF Link, historyVars, Shape, TypeOK
<1> SUFFICES ASSUME ~ raced' PROVE TailFacts'
  BY Zenon DEF TailSafe
<1>2. TailFacts
  BY <1>1, Zenon DEF TailSafe
<1>3. /\ log \in Seq(CellType) /\ Len(log) \in Nat \ {0} /\ DOMAIN log = 1..Len(log)
  BY <1>1, EmptySeq, LenProperties DEF TypeOK, IdInv
<1>4. \A u \in Threads : Linking(u) <=> u = t
  BY <1>1, <1>2 DEF TailFacts, Linking
<1>5. tail[t] = log[Len(log)].id /\ Len(log) \in DOMAIN log
  <2>1. \A u \in Threads : pc[u] # "last"
    BY <1>1, <1>4 DEF Linking
  <2> QED
    BY <1>1, <1>2, <1>3, <2>1 DEF TailFacts
<1>6. /\ Len(log') = Len(log) + 1 /\ DOMAIN log' = 1..(Len(log) + 1)
      /\ log'[Len(log) + 1] = cell[t]
      /\ \A i \in 1..Len(log) : log'[i] = log[i]
  <2>1. PICK k \in DOMAIN log : /\ log[k].id = tail[t]
                                /\ Len(log') = k + 1
                                /\ DOMAIN log' = 1..(k + 1)
                                /\ log'[k + 1] = cell[t]
                                /\ \A i \in 1..k : log'[i] = log[i]
    BY <1>1, <1>5, LinkStep
  <2>2. k = Len(log)
    BY <1>3, <1>5, <2>1 DEF IdInv
  <2> QED
    BY <2>1, <2>2
<1>7. \A c \in stored' : Visible(c)'
  <2> SUFFICES ASSUME NEW c \in stored' PROVE \E i \in DOMAIN log' : log'[i] = c
    BY DEF Visible
  <2>1. PICK i \in DOMAIN log : log[i] = c
    BY <1>1, <1>2 DEF TailFacts, Visible
  <2> QED
    BY <1>3, <1>6, <2>1
<1>8. \A u \in Threads : (Linking(u)' <=> u = t) /\ (pc'[u] = "last" <=> u = t) /\ pc'[u] # "link"
  BY <1>1, <1>4 DEF Linking
<1> QED
  BY <1>1, <1>6, <1>7, <1>8 DEF TailFacts

\* The append returns: its cell is the last of the list.
LEMMA TailEnd ==
    ASSUME Shape, IdInv, TailSafe, NEW t \in Threads, EndAppend(t)
    PROVE  TailSafe'
<1>1. /\ pc[t] = "last" /\ raced' = raced /\ log' = log
      /\ last0' = cell[t].id /\ stored' = stored \cup {cell[t]}
      /\ TypeOK /\ ThreadInv
  BY DEF EndAppend, Shape
<1> SUFFICES ASSUME ~ raced' PROVE TailFacts'
  BY Zenon DEF TailSafe
<1>2. TailFacts
  BY <1>1, Zenon DEF TailSafe
<1>3. /\ ~ Linking(t)'
      /\ \A u \in Threads \ {t} : pc'[u] = pc[u]
  <2>1. CASE Finish(t)
    BY <1>1, <2>1, FinishStep DEF Linking
  <2>2. CASE pc' = [pc EXCEPT ![t] = "publish"]
    BY <1>1, <2>2 DEF TypeOK, Linking
  <2> QED
    BY <2>1, <2>2 DEF EndAppend
<1>4. \A u \in Threads : Linking(u) => u = t
  BY <1>1, <1>2 DEF TailFacts, Linking
<1>5. \A u \in Threads : ~ Linking(u)'
  BY <1>3, <1>4 DEF Linking
<1>6. log[Len(log)] = cell[t] /\ Len(log) \in DOMAIN log
  <2>1. log \in Seq(CellType) /\ log # << >>
    BY <1>1 DEF TypeOK, IdInv
  <2>2. Len(log) \in Nat \ {0} /\ DOMAIN log = 1..Len(log)
    BY <2>1, EmptySeq, LenProperties
  <2> QED
    BY <1>1, <1>2, <2>2 DEF TailFacts
<1>7. \A c \in stored' : Visible(c)'
  BY <1>1, <1>2, <1>6 DEF TailFacts, Visible
<1> QED
  BY <1>1, <1>5, <1>6, <1>7 DEF TailFacts, Linking

\* Starting, the first time and again.
LEMMA TailStart ==
    /\ Init => TailSafe
    /\ Restart => TailSafe'
<1>1. Seed[Len(Seed)].id = Len(Seed)
  BY SeedType
<1>2. ASSUME Init PROVE TailFacts
  BY <1>1, <1>2 DEF Init, TailFacts, Linking
<1>3. ASSUME Restart PROVE TailFacts'
  BY <1>1, <1>3 DEF Restart, TailFacts, Linking
<1> QED
  BY <1>2, <1>3, Zenon DEF TailSafe

\* Every other step.
LEMMA TailExecute ==
    ASSUME Shape, TailSafe, NEW t \in Threads,
           ReadAccepted(t) \/ ReadRejected(t) \/ ReadFails(t) \/ Publish(t) \/ PublishFails(t)
    PROVE  TailSafe'
<1>1. /\ TypeOK /\ ThreadInv /\ pc[t] \in {"read", "publish"} /\ ~ Linking(t)
  BY DEF Shape, ReadAccepted, ReadRejected, ReadFails, Publish, PublishFails, Linking
<1>2. log' = log /\ last0' = last0 /\ stored' = stored
  BY DEF ReadAccepted, ReadRejected, ReadFails, Publish, PublishFails, storeVars, historyVars
<1>3. raced' = raced
  BY Zenon DEF ReadAccepted, ReadRejected, ReadFails, Publish, PublishFails, historyVars
<1>4. CASE Finish(t)
  <2>1. /\ ~ Linking(t)'
        /\ \A u \in Threads \ {t} : pc'[u] = pc[u] /\ cell'[u] = cell[u] /\ tail'[u] = tail[u]
    BY <1>1, <1>4, FinishStep DEF Linking
  <2> QED
    BY <1>1, <1>2, <1>3, <2>1, TailQuiet, Zenon
<1>5. CASE ReadAccepted(t)
  <2>1. /\ ~ Linking(t)'
        /\ \A u \in Threads \ {t} : pc'[u] = pc[u] /\ cell'[u] = cell[u] /\ tail'[u] = tail[u]
    BY <1>1, <1>5 DEF ReadAccepted, TypeOK, Linking
  <2> QED
    BY <1>1, <1>2, <1>3, <2>1, TailQuiet, Zenon
<1> QED
  BY <1>4, <1>5 DEF ReadRejected, ReadFails, Publish, PublishFails

\* Threads that start on something, consumers and the account store.
LEMMA TailOther ==
    ASSUME Shape, TailSafe,
           \/ \E h \in Handlers : ReceiveAuthorize(h) \/ RefuseAuthorize(h) \/ ReceiveClear(h)
           \/ \E c \in Consumers : Take(c) \/ TakeFails(c) \/ ResetOffset(c)
           \/ RemoveAccount \/ RestoreAccount
           \/ UNCHANGED vars
    PROVE  TailSafe'
<1>1. TypeOK /\ ThreadInv
  BY DEF Shape
<1>2. ASSUME NEW t \in Threads, pc[t] \in {"idle", "remove", "restore"},
             pc' = [pc EXCEPT ![t] = pc'[t]], pc'[t] \in {"idle", "read", "remove", "restore", "dead"},
             cell' = cell, tail' = tail, UNCHANGED <<storeVars, stored, raced>>
      PROVE  TailSafe'
  <2>1. log' = log /\ last0' = last0 /\ stored' = stored
    BY <1>2 DEF storeVars
  <2>2. raced' = raced
    BY <1>2, Zenon
  <2>3. \A u \in Threads : \/ pc'[u] = pc[u] /\ cell'[u] = cell[u] /\ tail'[u] = tail[u]
                           \/ ~ Linking(u) /\ ~ Linking(u)'
    BY <1>1, <1>2 DEF TypeOK, Linking
  <2> QED
    BY <2>1, <2>2, <2>3, TailQuiet, Zenon
<1>3. CASE UNCHANGED <<threadVars, storeVars, stored, raced>>
  <2>1. log' = log /\ last0' = last0 /\ stored' = stored
        /\ pc' = pc /\ cell' = cell /\ tail' = tail
    BY <1>3 DEF storeVars, threadVars
  <2>2. raced' = raced
    BY <1>3, Zenon
  <2> QED
    BY <2>1, <2>2, TailQuiet, Zenon
<1>4. ASSUME NEW t \in Threads, NEW commands, NEW step \in {"read", "remove"}, pc[t] = "idle",
             Start(t, commands, step), UNCHANGED <<storeVars, stored, raced>>
      PROVE  TailSafe'
  <2>1. pc'[t] = step /\ pc' = [pc EXCEPT ![t] = pc'[t]] /\ cell' = cell /\ tail' = tail
    BY <1>1, <1>4 DEF Start, TypeOK
  <2> QED
    BY <1>2, <1>4, <2>1
<1>5. ASSUME NEW h \in Handlers, ReceiveAuthorize(h) \/ RefuseAuthorize(h) \/ ReceiveClear(h)
      PROVE  TailSafe'
  <2>1. h \in Threads /\ pc[h] = "idle" /\ UNCHANGED <<storeVars, stored, raced>>
    BY <1>5, ThreadSets DEF ReceiveAuthorize, RefuseAuthorize, ReceiveClear, Receive, historyVars
  <2> QED
    BY <1>3, <1>4, <1>5, <2>1 DEF ReceiveAuthorize, RefuseAuthorize, ReceiveClear
<1>6. ASSUME NEW c \in Consumers, Take(c)
      PROVE  TailSafe'
  BY <1>4, <1>6, ThreadSets DEF Take
<1>7. ASSUME NEW c \in Consumers, TakeFails(c)
      PROVE  TailSafe'
  <2>1. c \in Threads /\ pc'[c] = "dead" /\ pc' = [pc EXCEPT ![c] = pc'[c]]
    BY <1>1, <1>7, ThreadSets DEF TakeFails, TypeOK
  <2> QED
    BY <1>2, <1>7, <2>1 DEF TakeFails
<1>8. ASSUME NEW c \in Consumers, ResetOffset(c)
      PROVE  TailSafe'
  BY <1>3, <1>8 DEF ResetOffset, historyVars
<1>9. CASE RemoveAccount \/ RestoreAccount
  <2> DEFINE t == "limits"
  <2>1. /\ t \in Threads /\ pc[t] \in {"remove", "restore"} /\ UNCHANGED <<storeVars, stored, raced>>
    BY <1>9, ThreadSets DEF RemoveAccount, RestoreAccount, historyVars
  <2>2. CASE Finish(t)
    <3>1. /\ ~ Linking(t) /\ ~ Linking(t)'
          /\ \A u \in Threads \ {t} : pc'[u] = pc[u] /\ cell'[u] = cell[u] /\ tail'[u] = tail[u]
      BY <1>1, <2>1, <2>2, FinishStep DEF Linking
    <3>2. log' = log /\ last0' = last0 /\ stored' = stored
      BY <2>1 DEF storeVars
    <3>3. raced' = raced
      BY <2>1, Zenon
    <3> QED
      BY <3>1, <3>2, <3>3, TailQuiet, Zenon
  <2>3. CASE pc' = [pc EXCEPT ![t] = "restore"] /\ cell' = cell /\ tail' = tail
    <3>1. pc'[t] = "restore" /\ pc' = [pc EXCEPT ![t] = pc'[t]]
      BY <1>1, <2>1, <2>3 DEF TypeOK
    <3> QED
      BY <1>2, <2>1, <2>3, <3>1
  <2> QED
    BY <1>9, <2>2, <2>3 DEF RemoveAccount, RestoreAccount
<1>10. CASE UNCHANGED vars
  BY <1>3, <1>10 DEF vars, historyVars
<1> QED
  BY <1>5, <1>6, <1>7, <1>8, <1>9, <1>10

\* The end of the list is known, while appends do not overlap.
LEMMA TailSafeHolds == Spec => []TailSafe
<1>1. Init => TailSafe
  BY TailStart
<1>2. Shape /\ IdInv /\ TailSafe /\ [Next]_vars => TailSafe'
  <2> SUFFICES ASSUME Shape, IdInv, TailSafe, [Next]_vars PROVE TailSafe'
    OBVIOUS
  <2>1. ASSUME NEW t \in Threads, Execute(t) PROVE TailSafe'
    BY <2>1, TailExecute, TailBegin, TailLink, TailEnd DEF Execute
  <2> QED
    BY <2>1, TailStart, TailOther DEF Next
<1> QED
  BY <1>1, <1>2, SafeCells, ShapeHolds, PTL DEF Spec

\* StoredIsKept of the service: with every interleaving of its threads, what
\* was appended stays readable until two appends overlap or it restarts.
THEOREM StoredIsKeptHolds == Spec => []StoredIsKept
BY TailSafeHolds, TailSafeGives, PTL

(***************************************************************************)
(* Part 3: every committed payment record is accounted for.                *)
(***************************************************************************)

\* The commands of a taken record are not those of an idle thread.
LEMMA NoneIsNotOne == \A p : << >> # << p >>
<1> TAKE p
<1>1. Len(<< >>) = 0
  BY EmptySeq
<1>2. Len(<< p >>) = 1
  OBVIOUS
<1>3. ASSUME NEW a, NEW b, Len(a) = 0, Len(b) = 1
      PROVE  a # b
  BY <1>3
<1> QED
  BY <1>1, <1>2, <1>3, Zenon

Accounted(c, i) ==
    LET p == Topic[c][i]
    IN  \/ Recorded(Events, p.account, TypeFor[c], p.ref)
        \/ i = offset[c] /\ todo[c] = << p >>
        \/ << c, i >> \in dropped

\* PaymentsAccounted, and that a payment is not published when it is appended.
AccountInv ==
    /\ \A c \in PaymentLoops : pc[c] # "publish"
    /\ ~ raced => \A c \in PaymentLoops : \A i \in 1..offset[c] : Accounted(c, i)

\* AccountInv gives PaymentsAccounted.
LEMMA AccountInvGives == AccountInv => PaymentsAccounted
BY Zenon DEF AccountInv, Accounted, PaymentsAccounted, PaymentLoops

\* A record that stays where it was: still in the buffer, in hand or dropped.
LEMMA AccountedStays ==
    ASSUME NEW c, NEW i, Accounted(c, i),
           \A a, y, r : Recorded(Events, a, y, r) => Recorded(Events', a, y, r),
           offset'[c] = offset[c], todo'[c] = todo[c],
           << c, i >> \in dropped => << c, i >> \in dropped'
    PROVE  Accounted(c, i)'
<1> DEFINE p == Topic[c][i]
<1>1. CASE Recorded(Events, p.account, TypeFor[c], p.ref)
  <2>1. Recorded(Events', p.account, TypeFor[c], p.ref)
    BY <1>1, Zenon
  <2> QED
    BY <2>1, Zenon DEF Accounted
<1>2. CASE (i = offset[c] /\ todo[c] = << p >>) \/ << c, i >> \in dropped
  BY <1>2, Zenon DEF Accounted
<1> QED
  BY <1>1, <1>2, Zenon DEF Accounted

\* A step that keeps what is recorded, and all that consumer loops have in hand.
LEMMA AccountQuiet ==
    ASSUME AccountInv, ~ raced' => ~ raced,
           ~ raced => \A a, y, r : Recorded(Events, a, y, r) => Recorded(Events', a, y, r),
           \A c \in PaymentLoops :
              /\ offset'[c] = offset[c] /\ todo'[c] = todo[c] /\ pc'[c] # "publish"
              /\ \A i : << c, i >> \in dropped => << c, i >> \in dropped'
    PROVE  AccountInv'
<1> SUFFICES ASSUME ~ raced', NEW c \in PaymentLoops, NEW i \in 1..offset'[c]
             PROVE  Accounted(c, i)'
  BY DEF AccountInv
<1>1. ~ raced /\ i \in 1..offset[c]
  BY Zenon
<1>2. Accounted(c, i)
  BY <1>1, Zenon DEF AccountInv
<1> QED
  BY <1>1, <1>2, AccountedStays, Zenon

\* A loop that has done its record, of which there is now an event or a note.
LEMMA AccountFinish ==
    ASSUME Shape, AccountInv, NEW t \in PaymentLoops, pc[t] \notin {"idle", "dead"}, Finish(t),
           Recorded(Events, Command(t).account, TypeFor[t], Command(t).ref)
              \/ << t, offset[t] >> \in dropped' \/ raced,
           log' = log, dropped \subseteq dropped', offset' = offset, ~ raced' => ~ raced
    PROVE  AccountInv'
<1>1. t \in Threads /\ TypeOK /\ ThreadInv
  BY ThreadSets DEF PaymentLoops, Shape
<1>2. /\ \A u \in Threads \ {t} : pc'[u] = pc[u] /\ todo'[u] = todo[u]
      /\ pc'[t] \in {"idle", "read"} /\ Command(t) = todo[t][1]
  BY <1>1, FinishStep, CommandInHand
<1>3. \A c \in PaymentLoops : pc'[c] # "publish"
  BY <1>2, ThreadSets DEF AccountInv, PaymentLoops
<1> SUFFICES ASSUME ~ raced', NEW c \in PaymentLoops, NEW i \in 1..offset'[c]
             PROVE  Accounted(c, i)'
  BY <1>3 DEF AccountInv
<1>4. ~ raced /\ i \in 1..offset[c]
  BY Zenon
<1>5. Accounted(c, i)
  BY <1>4, Zenon DEF AccountInv
<1>6. Events' = Events
  BY DEF Events
<1> DEFINE p == Topic[c][i]
<1>7. CASE c = t
  <2>1. todo[t] = << p >> => Command(t) = p
    BY <1>2
  <2>2. CASE i = offset[c]
    <3>1. Recorded(Events, p.account, TypeFor[c], p.ref) \/ << c, i >> \in dropped'
      BY <1>4, <1>5, <1>7, <2>1, <2>2, Zenon DEF Accounted
    <3> QED
      BY <1>6, <3>1, Zenon DEF Accounted
  <2>3. CASE i # offset[c]
    <3>1. Recorded(Events, p.account, TypeFor[c], p.ref) \/ << c, i >> \in dropped
      BY <1>5, <2>3, Zenon DEF Accounted
    <3>2. Recorded(Events, p.account, TypeFor[c], p.ref) \/ << c, i >> \in dropped'
      BY <3>1
    <3> QED
      BY <1>6, <3>2, Zenon DEF Accounted
  <2> QED
    BY <2>2, <2>3
<1>8. CASE c # t
  <2>1. todo'[c] = todo[c]
    BY <1>2, <1>8, ThreadSets DEF PaymentLoops
  <2>2. << c, i >> \in dropped => << c, i >> \in dropped'
    OBVIOUS
  <2> QED
    BY <1>5, <1>6, <2>1, <2>2, AccountedStays, Zenon
<1> QED
  BY <1>7, <1>8

\* While appends do not overlap, linking cuts nothing off.
LEMMA LinkRecords ==
    ASSUME Shape, IdInv, TailSafe, ~ raced, NEW t \in Threads, Link(t),
           NEW a, NEW y, NEW r, Recorded(Events, a, y, r)
    PROVE  Recorded(Events', a, y, r)
<1>1. PICK i \in DOMAIN log : /\ log[i].event.account = a
                              /\ log[i].event.type = y
                              /\ log[i].event.ref = r
  BY RecordedOfCells
<1>2. pc[t] = "link" /\ TypeOK /\ TailFacts
  BY Zenon DEF Link, Shape, TailSafe
<1>3. log \in Seq(CellType) /\ Len(log) \in Nat \ {0} /\ DOMAIN log = 1..Len(log)
  BY <1>2, EmptySeq, LenProperties DEF TypeOK, IdInv
<1>4. tail[t] = log[Len(log)].id /\ Len(log) \in DOMAIN log
  <2>1. \A u \in Threads : pc[u] # "last"
    BY <1>2 DEF TailFacts, Linking
  <2> QED
    BY <1>2, <1>3, <2>1 DEF TailFacts
<1>5. PICK k \in DOMAIN log : /\ log[k].id = tail[t] /\ DOMAIN log' = 1..(k + 1)
                              /\ \A j \in 1..k : log'[j] = log[j]
  BY <1>2, <1>4, LinkStep
<1>6. k = Len(log)
  BY <1>4, <1>5 DEF IdInv
<1>7. i \in DOMAIN log' /\ log'[i] = log[i]
  BY <1>3, <1>5, <1>6
<1> QED
  BY <1>1, <1>7 DEF Recorded, Events

\* Reading, appending and publishing.
LEMMA AccountExecute ==
    ASSUME Shape, IdInv, TailSafe, AccountInv, NEW t \in Threads, Execute(t)
    PROVE  AccountInv'
<1>1. TypeOK /\ ThreadInv /\ \A c \in PaymentLoops : c \in Threads /\ c \in Consumers
  BY ThreadSets DEF Shape, PaymentLoops
<1>2. offset' = offset
  BY DEF Execute, ReadAccepted, ReadRejected, ReadFails, BeginAppend, Link, EndAppend, Publish,
         PublishFails, brokerVars
<1>3. dropped \subseteq dropped'
  BY DEF Execute, ReadAccepted, ReadRejected, ReadFails, BeginAppend, Link, EndAppend, Publish,
         PublishFails, historyVars
<1>4. ~ raced' => ~ raced
  BY Zenon DEF Execute, ReadAccepted, ReadRejected, ReadFails, BeginAppend, Link, EndAppend, Publish,
         PublishFails, historyVars
<1>5. ~ Link(t) => Events' = Events /\ log' = log
  BY DEF Execute, ReadAccepted, ReadRejected, ReadFails, BeginAppend, EndAppend, Publish,
         PublishFails, Events, storeVars
<1>6. ~ raced => \A a, y, r : Recorded(Events, a, y, r) => Recorded(Events', a, y, r)
  BY <1>5, LinkRecords, Zenon
<1>7. CASE ReadAccepted(t) \/ BeginAppend(t) \/ Link(t)
  <2>1. \A c \in PaymentLoops : todo'[c] = todo[c] /\ pc'[c] # "publish"
    BY <1>1, <1>7 DEF ReadAccepted, BeginAppend, Link, TypeOK, AccountInv
  <2> QED
    BY <1>2, <1>3, <1>4, <1>6, <2>1, AccountQuiet
<1>8. CASE t \notin PaymentLoops /\ Finish(t)
  <2>1. pc[t] \notin {"idle", "dead"}
    BY DEF Execute, ReadAccepted, ReadRejected, ReadFails, BeginAppend, Link, EndAppend, Publish,
           PublishFails
  <2>2. \A u \in Threads \ {t} : pc'[u] = pc[u] /\ todo'[u] = todo[u]
    BY <1>1, <1>8, <2>1, FinishStep
  <2>3. \A c \in PaymentLoops : todo'[c] = todo[c] /\ pc'[c] # "publish"
    BY <1>1, <1>8, <2>2 DEF AccountInv
  <2> QED
    BY <1>2, <1>3, <1>4, <1>6, <2>3, AccountQuiet
<1>9. CASE t \notin PaymentLoops /\ EndAppend(t) /\ pc' = [pc EXCEPT ![t] = "publish"] /\ todo' = todo
  <2>1. \A c \in PaymentLoops : todo'[c] = todo[c] /\ pc'[c] # "publish"
    BY <1>1, <1>9 DEF TypeOK, AccountInv
  <2> QED
    BY <1>2, <1>3, <1>4, <1>6, <2>1, AccountQuiet
<1>10. ASSUME t \in PaymentLoops, pc[t] \notin {"idle", "dead"}
       PROVE  /\ Command(t) \in CommandType /\ Command(t).kind = t
              /\ Command(t) = todo[t][1]
  BY <1>1, <1>10, CommandInHand, ThreadSets DEF KindsOf, PaymentLoops
<1>11. CASE t \in PaymentLoops /\ ReadRejected(t)
  <2>1. Recorded(Events, Command(t).account, TypeFor[t], Command(t).ref)
    <3>1. ~ Accepts(Command(t), Events) /\ Command(t).kind = t
      BY <1>10, <1>11 DEF ReadRejected
    <3> QED
      BY <1>11, <3>1 DEF Accepts, PaymentLoops
  <2>2. pc[t] \notin {"idle", "dead"} /\ Finish(t) /\ log' = log
    BY <1>11 DEF ReadRejected, storeVars
  <2> QED
    BY <1>2, <1>3, <1>4, <1>11, <2>1, <2>2, AccountFinish, Zenon
<1>12. CASE t \in PaymentLoops /\ ReadFails(t)
  <2>1. << t, offset[t] >> \in dropped'
    BY <1>1, <1>12 DEF ReadFails
  <2>2. pc[t] \notin {"idle", "dead"} /\ Finish(t) /\ log' = log
    BY <1>12 DEF ReadFails, storeVars
  <2> QED
    BY <1>2, <1>3, <1>4, <1>12, <2>1, <2>2, AccountFinish, Zenon
<1>13. CASE t \in PaymentLoops /\ EndAppend(t)
  <2>1. pc[t] = "last" /\ Command(t).kind = t /\ Finish(t) /\ log' = log
    BY <1>10, <1>13 DEF EndAppend, PaymentLoops
  <2>2. /\ cell[t].event.type = TypeFor[t]
        /\ cell[t].event.account = Command(t).account /\ cell[t].event.ref = Command(t).ref
    BY <1>1, <2>1 DEF ThreadInv, CellOK
  <2>3. ~ raced => log[Len(log)] = cell[t]
    <3>1. ~ raced => TailFacts
      BY Zenon DEF TailSafe
    <3> QED
      BY <1>1, <1>13, <2>1, <3>1 DEF TailFacts
  <2>4. Len(log) \in DOMAIN log
    <3>1. log \in Seq(CellType) /\ log # << >>
      BY <1>1 DEF TypeOK, IdInv
    <3>2. Len(log) \in Nat \ {0} /\ DOMAIN log = 1..Len(log)
      BY <3>1, EmptySeq, LenProperties
    <3> QED
      BY <3>2
  <2>5. ~ raced => Recorded(Events, Command(t).account, TypeFor[t], Command(t).ref)
    <3> SUFFICES ASSUME ~ raced
                 PROVE  Recorded(Events, Command(t).account, TypeFor[t], Command(t).ref)
      OBVIOUS
    <3>1. log[Len(log)] = cell[t]
      BY <2>3, Zenon
    <3> QED
      BY <2>2, <2>4, <3>1, RecordedOfCells
  <2>6. Recorded(Events, Command(t).account, TypeFor[t], Command(t).ref)
           \/ << t, offset[t] >> \in dropped' \/ raced
    BY <2>5, Zenon
  <2>7. pc[t] \notin {"idle", "dead"}
    BY <2>1
  <2> QED
    BY <1>2, <1>3, <1>4, <1>13, <2>1, <2>6, <2>7, AccountFinish, Zenon
<1>14. CASE t \in PaymentLoops /\ (Publish(t) \/ PublishFails(t))
  BY <1>14 DEF Publish, PublishFails, AccountInv
<1> QED
  BY <1>7, <1>8, <1>9, <1>11, <1>12, <1>13, <1>14 DEF Execute, ReadRejected, ReadFails, EndAppend,
     Publish, PublishFails

\* Taking, losing offsets, and what consumer loops of payments do not do.
LEMMA AccountOther ==
    ASSUME Shape, AccountInv,
           \/ \E h \in Handlers : ReceiveAuthorize(h) \/ RefuseAuthorize(h) \/ ReceiveClear(h)
           \/ \E c \in Consumers : Take(c) \/ TakeFails(c) \/ ResetOffset(c)
           \/ RemoveAccount \/ RestoreAccount
           \/ UNCHANGED vars
    PROVE  AccountInv'
<1>1. /\ TypeOK /\ ThreadInv
      /\ \A c \in PaymentLoops : c \in Threads /\ c \in Consumers /\ c \notin Handlers /\ c # "limits"
  BY ThreadSets DEF Shape, PaymentLoops
<1>2. Events' = Events
  BY DEF ReceiveAuthorize, RefuseAuthorize, ReceiveClear, Receive, Take, TakeFails, ResetOffset,
         RemoveAccount, RestoreAccount, vars, storeVars, Events
<1>3. ~ raced' => ~ raced
  BY Zenon DEF ReceiveAuthorize, RefuseAuthorize, ReceiveClear, Receive, Take, TakeFails, ResetOffset,
               RemoveAccount, RestoreAccount, vars, historyVars
<1>4. \A a, y, r : Recorded(Events, a, y, r) => Recorded(Events', a, y, r)
  BY <1>2
<1>5. ASSUME offset' = offset, dropped' = dropped,
             \A c \in PaymentLoops : todo'[c] = todo[c] /\ pc'[c] # "publish"
      PROVE  AccountInv'
  BY <1>3, <1>4, <1>5, AccountQuiet, Zenon
<1>6. ASSUME NEW h \in Handlers, ReceiveAuthorize(h) \/ RefuseAuthorize(h) \/ ReceiveClear(h)
      PROVE  AccountInv'
  <2>1. \A c \in PaymentLoops : todo'[c] = todo[c] /\ pc'[c] = pc[c]
    BY <1>1, <1>6, ThreadSets DEF ReceiveAuthorize, RefuseAuthorize, ReceiveClear, Start, threadVars, TypeOK
  <2>2. offset' = offset /\ dropped' = dropped
    BY <1>6 DEF ReceiveAuthorize, RefuseAuthorize, ReceiveClear, Receive, brokerVars, historyVars
  <2> QED
    BY <1>5, <2>1, <2>2 DEF AccountInv
<1>7. CASE RemoveAccount \/ RestoreAccount
  <2>1. /\ "limits" \in Threads /\ pc["limits"] \notin {"idle", "dead"}
        /\ offset' = offset /\ dropped' = dropped
    BY <1>7, ThreadSets DEF RemoveAccount, RestoreAccount, brokerVars, historyVars
  <2>2. CASE Finish("limits")
    <3>1. \A u \in Threads \ {"limits"} : pc'[u] = pc[u] /\ todo'[u] = todo[u]
      BY <1>1, <2>1, <2>2, FinishStep
    <3> QED
      BY <1>1, <1>5, <2>1, <3>1 DEF AccountInv
  <2>3. CASE pc' = [pc EXCEPT !["limits"] = "restore"] /\ todo' = todo
    BY <1>1, <1>5, <2>1, <2>3 DEF AccountInv, TypeOK
  <2> QED
    BY <1>7, <2>2, <2>3 DEF RemoveAccount, RestoreAccount
<1>8. CASE UNCHANGED vars
  BY <1>5, <1>8 DEF vars, threadVars, brokerVars, historyVars, AccountInv
<1>9. ASSUME NEW d \in Consumers, Take(d) \/ TakeFails(d) \/ ResetOffset(d)
      PROVE  AccountInv'
  <2>1. /\ pc[d] = "idle" /\ todo[d] = << >> /\ d \in Threads
    BY <1>1, <1>9, ThreadSets DEF Take, TakeFails, ResetOffset, ThreadInv, ThreadOK
  <2>2. \A c \in PaymentLoops : pc'[c] # "publish" /\ (c # d => todo'[c] = todo[c] /\ offset'[c] = offset[c])
    BY <1>1, <1>9 DEF Take, TakeFails, ResetOffset, Start, threadVars, AccountInv, TypeOK
  <2>3. \/ offset'[d] \in {0, offset[d]}
        \/ /\ offset'[d] = offset[d] + 1
           /\ \/ todo'[d] = << Topic[d][offset[d] + 1] >>
              \/ << d, offset[d] + 1 >> \in dropped'
    <3>1. CASE Take(d)
      BY <1>1, <2>1, <3>1 DEF Take, Start, TypeOK
    <3>2. CASE TakeFails(d)
      BY <1>1, <3>2 DEF TakeFails, TypeOK
    <3>3. CASE ResetOffset(d)
      BY <1>1, <3>3 DEF ResetOffset, TypeOK
    <3> QED
      BY <1>9, <3>1, <3>2, <3>3
  <2>4. \A c : \A i : (c # d \/ i # offset[d] + 1) => (<< c, i >> \in dropped => << c, i >> \in dropped')
    BY <1>9 DEF Take, TakeFails, ResetOffset, historyVars
  <2>5. offset[d] \in Nat
    BY <1>1 DEF TypeOK
  <2> SUFFICES ASSUME ~ raced', NEW c \in PaymentLoops, NEW i \in 1..offset'[c]
               PROVE  Accounted(c, i)'
    BY <2>2 DEF AccountInv
  <2>6. ~ raced
    BY <1>3, Zenon
  <2>7. \A j \in 1..offset[c] : Accounted(c, j)
    BY <2>6, Zenon DEF AccountInv
  <2>8. CASE c # d
    <3>1. Accounted(c, i) /\ offset'[c] = offset[c] /\ todo'[c] = todo[c]
      BY <2>2, <2>7, <2>8
    <3>2. << c, i >> \in dropped => << c, i >> \in dropped'
      BY <2>4, <2>8, Zenon
    <3> QED
      BY <1>4, <3>1, <3>2, AccountedStays, Zenon
  <2>9. CASE c = d
    <3>1. CASE i \in 1..offset[d]
      <4>1. todo[c] # << Topic[c][i] >>
        <5>1. todo[c] = << >>
          BY <2>1, <2>9, Zenon
        <5> QED
          BY <5>1, NoneIsNotOne, Zenon
      <4>2. << c, i >> \in dropped => << c, i >> \in dropped'
        <5>1. i # offset[d] + 1
          BY <2>5, <3>1
        <5> QED
          BY <2>4, <5>1, Zenon
      <4>3. Accounted(c, i)
        BY <2>7, <2>9, <3>1, Zenon
      <4> QED
        BY <1>2, <4>1, <4>2, <4>3, Zenon DEF Accounted
    <3>2. CASE i \notin 1..offset[d]
      <4>1. i \in 1..offset'[d]
        BY <2>9
      <4>2. CASE offset'[d] \in {0, offset[d]}
        <5>1. 1..0 = {}
          OBVIOUS
        <5> QED
          BY <3>2, <4>1, <4>2, <5>1
      <4>3. CASE /\ offset'[d] = offset[d] + 1
                 /\ \/ todo'[d] = << Topic[d][offset[d] + 1] >>
                    \/ << d, offset[d] + 1 >> \in dropped'
        <5>1. i = offset[d] + 1
          BY <2>5, <3>2, <4>1, <4>3
        <5>2. i = offset'[c] /\ (todo'[c] = << Topic[c][i] >> \/ << c, i >> \in dropped')
          BY <2>9, <4>3, <5>1, Zenon
        <5> QED
          BY <5>2, Zenon DEF Accounted
      <4> QED
        BY <2>3, <4>2, <4>3
    <3> QED
      BY <3>1, <3>2
  <2> QED
    BY <2>8, <2>9
<1> QED
  BY <1>6, <1>7, <1>8, <1>9

\* PaymentsAccounted of the service: until two appends overlap, a committed
\* payment record is in the buffer, in hand, or dropped by a read that met an
\* append, by a commit that took effect and ended the loop, or by a restart;
\* however often the service restarts and its records are delivered again.
THEOREM PaymentsAccountedHolds == Spec => []PaymentsAccounted
<1>1. Init => AccountInv
  BY ThreadSets DEF Init, AccountInv, PaymentLoops
<1>2. Shape /\ IdInv /\ TailSafe /\ AccountInv /\ [Next]_vars => AccountInv'
  <2> SUFFICES ASSUME Shape, IdInv, TailSafe, AccountInv, [Next]_vars PROVE AccountInv'
    OBVIOUS
  <2>1. CASE Restart
    <3>1. \A c \in PaymentLoops : pc'[c] # "publish" /\ c \in Consumers
      BY <2>1, ThreadSets DEF Restart, PaymentLoops
    <3>2. offset' = offset /\ dropped' = UNION {{c} \X (1..offset[c]) : c \in Consumers}
      BY <2>1 DEF Restart, brokerVars
    <3>3. ASSUME NEW c \in PaymentLoops, NEW i \in 1..offset'[c] PROVE << c, i >> \in dropped'
      BY <3>1, <3>2
    <3> QED
      BY <3>1, <3>3 DEF AccountInv, Accounted
  <2> QED
    BY <2>1, AccountExecute, AccountOther DEF Next
<1> QED
  BY <1>1, <1>2, SafeCells, TailSafeHolds, ShapeHolds, AccountInvGives, PTL DEF Spec

(***************************************************************************)
(* Part 4: the local copy of the limits follows its topic.                 *)
(***************************************************************************)

Upd(i) == Topic["limits"][i]

\* The loop has taken this update in hand since the service started.
Taken(i) == << "limits", i >> \notin dropped

\* No account is out of the store but between the halves of a save, where the
\* loop has the last record it took in hand.
SaveInv ==
    /\ pc["limits"] # "restore" => present = Accounts
    /\ pc["limits"] = "restore" => present \cup {Command("limits").account} = Accounts
    /\ todo["limits"] # << >> =>
          /\ offset["limits"] \in 1..Len(Topic["limits"])
          /\ todo["limits"] = << Upd(offset["limits"]) >>
          /\ Taken(offset["limits"])

\* The last update of an account that was taken is in force, unless it is the
\* one in hand.
CopyInv ==
    \A i \in 1..offset["limits"] :
        \/ ~ Taken(i)
        \/ Upd(i).account \notin Accounts
        \/ \E j \in (i + 1)..offset["limits"] : Taken(j) /\ Upd(j).account = Upd(i).account
        \/ limit[Upd(i).account] = Upd(i).amount
        \/ i = offset["limits"] /\ todo["limits"] # << >>

\* CopyInv gives LimitFollowsTopic.
LEMMA CopyInvGives == ASSUME Shape, CopyInv PROVE LimitFollowsTopic
<1> DEFINE seen(a) == TakenUpdates(a)
<1> SUFFICES ASSUME todo["limits"] = << >>, NEW a \in Accounts, seen(a) # {}
             PROVE  limit[a] = Upd(Max(seen(a))).amount
  BY DEF LimitFollowsTopic, Upd
<1>0. seen(a) = {i \in 1..offset["limits"] : Upd(i).account = a /\ Taken(i)}
  BY DEF TakenUpdates, Upd, Taken
<1> HIDE DEF seen
<1>1. offset["limits"] \in Nat
  BY ThreadSets DEF Shape, TypeOK
<1>2. seen(a) \in SUBSET (0..offset["limits"])
  BY <1>0, <1>1
<1>3. Max(seen(a)) \in seen(a) /\ \A j \in seen(a) : j <= Max(seen(a))
  BY <1>1, <1>2, MaxOfNats
<1> DEFINE i == Max(seen(a))
<1>4. i \in 1..offset["limits"] /\ Upd(i).account = a /\ Taken(i)
  BY <1>0, <1>3
<1>5. \A j \in 1..offset["limits"] : Taken(j) /\ Upd(j).account = a => j <= i
  BY <1>0, <1>3
<1> HIDE DEF i
<1>6. ~ \E j \in (i + 1)..offset["limits"] : Taken(j) /\ Upd(j).account = Upd(i).account
  BY <1>1, <1>4, <1>5
<1>7. limit[a] = Upd(i).amount
  BY <1>4, <1>6 DEF CopyInv
<1> QED
  BY <1>7 DEF i

\* Steps that leave the loop of the limits and its account store alone.
LEMMA CopyQuiet ==
    ASSUME SaveInv, CopyInv, UNCHANGED <<limit, present>>, \A i : Taken(i)' <=> Taken(i),
           offset'["limits"] = offset["limits"], todo'["limits"] = todo["limits"],
           pc'["limits"] = "restore" => pc["limits"] = "restore",
           pc["limits"] = "restore" => pc'["limits"] = "restore"
    PROVE  SaveInv' /\ CopyInv'
BY DEF SaveInv, CopyInv, Upd, Command

\* The event store is no concern of the account store.
LEMMA CopyExecute ==
    ASSUME Shape, SaveInv, CopyInv, NEW t \in Threads, Execute(t)
    PROVE  SaveInv' /\ CopyInv'
<1>1. TypeOK /\ ThreadInv /\ "limits" \in Threads
  BY ThreadSets DEF Shape
<1>2. pc[t] \notin {"idle", "dead", "remove", "restore"}
  BY DEF Execute, ReadAccepted, ReadRejected, ReadFails, BeginAppend, Link, EndAppend, Publish,
         PublishFails
<1>3. t # "limits"
  BY <1>1, <1>2 DEF ThreadInv, ThreadOK
<1>4. UNCHANGED <<limit, present, offset>>
  BY DEF Execute, ReadAccepted, ReadRejected, ReadFails, BeginAppend, Link, EndAppend, Publish,
         PublishFails, accountVars, brokerVars
<1>7. \A i : Taken(i)' <=> Taken(i)
  <2>1. dropped' = dropped \/ dropped' = dropped \cup {<< t, offset[t] >>}
    BY DEF Execute, ReadAccepted, ReadRejected, ReadFails, BeginAppend, Link, EndAppend, Publish,
           PublishFails, historyVars
  <2> QED
    BY <1>3, <2>1 DEF Taken
<1>5. CASE Finish(t)
  <2>1. todo'["limits"] = todo["limits"] /\ pc'["limits"] = pc["limits"]
    BY <1>1, <1>2, <1>3, <1>5, FinishStep
  <2> QED
    BY <1>4, <1>7, <2>1, CopyQuiet
<1>6. CASE todo' = todo /\ \E s \in Steps : pc' = [pc EXCEPT ![t] = s]
  <2>1. todo'["limits"] = todo["limits"] /\ pc'["limits"] = pc["limits"]
    BY <1>1, <1>3, <1>6 DEF TypeOK
  <2> QED
    BY <1>4, <1>7, <2>1, CopyQuiet
<1> QED
  BY <1>5, <1>6 DEF Execute, ReadAccepted, ReadRejected, ReadFails, BeginAppend, Link, EndAppend,
     Publish, PublishFails, Steps

\* An update is taken: it is the one in hand.
LEMMA CopyTake ==
    ASSUME Shape, SaveInv, CopyInv, Take("limits")
    PROVE  SaveInv' /\ CopyInv'
<1> DEFINE n == offset["limits"]
           rec == << Upd(n + 1) >>
<1>1. /\ pc["limits"] = "idle" /\ n \in Nat /\ n < Len(Topic["limits"])
      /\ offset'["limits"] = n + 1 /\ pc'["limits"] = "remove" /\ todo'["limits"] = rec
      /\ UNCHANGED <<limit, present>>
  BY ThreadSets DEF Take, Start, Shape, TypeOK, accountVars, Upd
<1>2. Len(Topic["limits"]) \in Nat
  BY InputsAssumption, LenProperties, ThreadSets
<1>3. rec # << >>
  BY NoneIsNotOne, Zenon
<1>4. todo["limits"] = << >>
  BY <1>1, ThreadSets DEF Shape, ThreadInv, ThreadOK
<1>8. Taken(offset["limits"])'
  BY <1>1 DEF Take, Taken
<1>5. SaveInv'
  BY <1>1, <1>2, <1>8 DEF SaveInv, Upd
<1>7. \A i : i # n + 1 => (Taken(i)' <=> Taken(i))
  BY DEF Take, Taken
<1> HIDE DEF rec
<1> SUFFICES ASSUME NEW i \in 1..(n + 1), Taken(i)'
             PROVE  \/ Upd(i).account \notin Accounts
                    \/ \E j \in (i + 1)..(n + 1) : Taken(j)' /\ Upd(j).account = Upd(i).account
                    \/ limit[Upd(i).account] = Upd(i).amount
                    \/ i = n + 1
  BY <1>1, <1>3, <1>5 DEF CopyInv, Upd
<1>6. CASE i \in 1..n
  <2>1. Taken(i)
    BY <1>1, <1>6, <1>7
  <2>2. \/ Upd(i).account \notin Accounts
        \/ \E j \in (i + 1)..n : Taken(j) /\ Upd(j).account = Upd(i).account
        \/ limit[Upd(i).account] = Upd(i).amount
    BY <1>4, <1>6, <2>1 DEF CopyInv
  <2>3. \A j \in (i + 1)..n : j \in (i + 1)..(n + 1) /\ j # n + 1
    BY <1>1
  <2> QED
    BY <1>7, <2>2, <2>3
<1> QED
  BY <1>1, <1>6

\* The loop dies, perhaps with an update that it never had in hand.
LEMMA CopyTakeFails ==
    ASSUME Shape, SaveInv, CopyInv, TakeFails("limits")
    PROVE  SaveInv' /\ CopyInv'
<1> DEFINE n == offset["limits"]
<1>1. /\ pc["limits"] = "idle" /\ n \in Nat /\ offset'["limits"] \in {n, n + 1}
      /\ pc'["limits"] = "dead" /\ todo' = todo /\ UNCHANGED <<limit, present>>
  BY ThreadSets DEF TakeFails, Shape, TypeOK, accountVars
<1>2. todo["limits"] = << >>
  BY <1>1, ThreadSets DEF Shape, ThreadInv, ThreadOK
<1>3. SaveInv'
  BY <1>1, <1>2 DEF SaveInv
<1>4. /\ \A i : i # n + 1 => (Taken(i)' <=> Taken(i))
      /\ \A i : i = n + 1 /\ offset'["limits"] = n + 1 => ~ Taken(i)'
  <2>1. CASE UNCHANGED <<offset, dropped>>
    BY <1>1, <2>1 DEF Taken
  <2>2. CASE dropped' = dropped \cup {<< "limits", n + 1 >>}
    BY <2>2 DEF Taken
  <2> QED
    BY <2>1, <2>2 DEF TakeFails
<1> SUFFICES ASSUME NEW i \in 1..offset'["limits"], Taken(i)'
             PROVE  \/ Upd(i).account \notin Accounts
                    \/ \E j \in (i + 1)..offset'["limits"] : Taken(j)' /\ Upd(j).account = Upd(i).account
                    \/ limit[Upd(i).account] = Upd(i).amount
  BY <1>1, <1>3 DEF CopyInv, Upd
<1>5. i \in 1..n /\ i # n + 1
  BY <1>1, <1>4
<1>6. \/ Upd(i).account \notin Accounts
      \/ \E j \in (i + 1)..n : Taken(j) /\ Upd(j).account = Upd(i).account
      \/ limit[Upd(i).account] = Upd(i).amount
  BY <1>2, <1>4, <1>5 DEF CopyInv
<1>7. \A j \in (i + 1)..n : j \in (i + 1)..offset'["limits"] /\ j # n + 1
  BY <1>1
<1> QED
  BY <1>4, <1>6, <1>7

\* The record in hand is done: its account is unknown, or has its limit now.
LEMMA CopyFinish ==
    ASSUME Shape, SaveInv, CopyInv, pc["limits"] \in {"remove", "restore"}, Finish("limits"),
           UNCHANGED <<offset, dropped>>, present' = Accounts,
           \/ Command("limits").account \notin Accounts /\ limit' = limit
           \/ limit' = [limit EXCEPT ![Command("limits").account] = Command("limits").amount]
    PROVE  SaveInv' /\ CopyInv'
<1> DEFINE n == offset["limits"]
           u == Upd(n)
<1>1. TypeOK /\ ThreadInv /\ "limits" \in Threads /\ "limits" \in Consumers
  BY ThreadSets DEF Shape
<1>2. todo["limits"] # << >> /\ Command("limits") = todo["limits"][1] /\ Len(todo["limits"]) <= 1
  BY <1>1, CommandInHand DEF ThreadInv, ThreadOK
<1>3. n \in 1..Len(Topic["limits"]) /\ Command("limits") = u
  BY <1>2 DEF SaveInv
<1>4. pc'["limits"] = "idle" /\ todo'["limits"] = << >>
  <2>1. \/ pc'["limits"] = "idle" /\ todo'["limits"] = << >>
        \/ pc'["limits"] = "read"
    BY <1>1, FinishStep
  <2>2. pc'["limits"] = "idle"
    BY <1>1, <1>2 DEF Finish, TypeOK
  <2> QED
    BY <2>1, <2>2
<1>5. SaveInv'
  BY <1>4 DEF SaveInv
<1>6. Len(Topic["limits"]) \in Nat /\ n \in Nat
  BY <1>1, InputsAssumption, LenProperties DEF TypeOK
<1>7. limit \in [Accounts -> Int]
  BY <1>1 DEF TypeOK
<1>10. \A i : Taken(i)' <=> Taken(i)
  BY DEF Taken
<1>11. Taken(n)
  BY <1>2 DEF SaveInv
<1> HIDE DEF u
<1> SUFFICES ASSUME NEW i \in 1..n, Taken(i), Upd(i).account \in Accounts,
                    ~ \E j \in (i + 1)..n : Taken(j) /\ Upd(j).account = Upd(i).account
             PROVE  limit'[Upd(i).account] = Upd(i).amount
  BY <1>5, <1>10 DEF CopyInv, Upd
<1>8. CASE i = n
  BY <1>3, <1>7, <1>8 DEF u
<1>9. CASE i # n
  <2>1. n \in (i + 1)..n
    BY <1>6, <1>9
  <2>2. u.account # Upd(i).account
    BY <1>3, <1>11, <2>1 DEF u
  <2>3. limit[Upd(i).account] = Upd(i).amount
    BY <1>9 DEF CopyInv
  <2> QED
    BY <1>3, <1>7, <2>2, <2>3
<1> QED
  BY <1>8, <1>9

\* Every step off the event store but a restart.
LEMMA CopyOther ==
    ASSUME Shape, SaveInv, CopyInv,
           \/ \E h \in Handlers : ReceiveAuthorize(h) \/ RefuseAuthorize(h) \/ ReceiveClear(h)
           \/ \E c \in Consumers : Take(c) \/ TakeFails(c) \/ ResetOffset(c)
           \/ RemoveAccount \/ RestoreAccount
           \/ UNCHANGED vars
    PROVE  SaveInv' /\ CopyInv'
<1>1. TypeOK /\ ThreadInv /\ "limits" \in Threads /\ "limits" \in Consumers
  BY ThreadSets DEF Shape
<1>2. ASSUME NEW h \in Handlers, ReceiveAuthorize(h) \/ RefuseAuthorize(h) \/ ReceiveClear(h)
      PROVE  SaveInv' /\ CopyInv'
  <2>1. h # "limits"
    BY ThreadSets
  <2>2. /\ todo'["limits"] = todo["limits"] /\ pc'["limits"] = pc["limits"]
        /\ UNCHANGED <<limit, present, offset, dropped>>
    BY <1>1, <1>2, <2>1 DEF ReceiveAuthorize, RefuseAuthorize, ReceiveClear, Receive, Start,
       TypeOK, accountVars, brokerVars, historyVars, threadVars
  <2> QED
    BY <2>2, CopyQuiet DEF Taken
<1>3. ASSUME NEW c \in Consumers, c # "limits", Take(c) \/ TakeFails(c) \/ ResetOffset(c)
      PROVE  SaveInv' /\ CopyInv'
  <2>1. /\ todo'["limits"] = todo["limits"] /\ pc'["limits"] = pc["limits"]
        /\ offset'["limits"] = offset["limits"] /\ UNCHANGED <<limit, present>>
    BY <1>1, <1>3 DEF Take, TakeFails, ResetOffset, Start, TypeOK, accountVars, threadVars
  <2>2. \A i : Taken(i)' <=> Taken(i)
    BY <1>3 DEF Take, TakeFails, ResetOffset, historyVars, Taken
  <2>3. pc'["limits"] = "restore" <=> pc["limits"] = "restore"
    BY <2>1
  <2> QED
    BY <2>1, <2>2, <2>3, CopyQuiet
<1>5. CASE ResetOffset("limits")
  <2>1. /\ pc["limits"] = "idle" /\ offset'["limits"] = 0
        /\ UNCHANGED <<pc, todo, limit, present>>
    BY <1>1, <1>5 DEF ResetOffset, TypeOK, accountVars, threadVars
  <2>2. todo["limits"] = << >>
    BY <1>1, <2>1 DEF ThreadInv, ThreadOK
  <2>3. 1..0 = {}
    OBVIOUS
  <2> QED
    BY <2>1, <2>2, <2>3 DEF SaveInv, CopyInv
<1>6. CASE RemoveAccount
  <2>1. pc["limits"] = "remove" /\ UNCHANGED <<limit, offset, dropped>>
    BY <1>6 DEF RemoveAccount, brokerVars, historyVars
  <2>2. present = Accounts
    BY <2>1 DEF SaveInv
  <2>3. CASE Command("limits").account \in present
    <3>1. pc'["limits"] = "restore" /\ todo' = todo
      BY <1>1, <1>6, <2>3 DEF RemoveAccount, TypeOK
    <3>2. present' \cup {Command("limits").account} = Accounts
      BY <1>6, <2>2, <2>3 DEF RemoveAccount
    <3> QED
      BY <2>1, <3>1, <3>2 DEF SaveInv, CopyInv, Upd, Command, Taken
  <2>4. CASE Command("limits").account \notin present
    BY <1>6, <2>1, <2>2, <2>4, CopyFinish DEF RemoveAccount
  <2> QED
    BY <2>3, <2>4
<1>7. CASE RestoreAccount
  <2>1. /\ pc["limits"] = "restore" /\ Finish("limits") /\ UNCHANGED <<offset, dropped>>
        /\ present' = present \cup {Command("limits").account}
        /\ limit' = [limit EXCEPT ![Command("limits").account] = Command("limits").amount]
    BY <1>7 DEF RestoreAccount, brokerVars, historyVars
  <2>2. present' = Accounts
    BY <2>1 DEF SaveInv
  <2> QED
    BY <2>1, <2>2, CopyFinish
<1>8. CASE UNCHANGED vars
  BY <1>8, CopyQuiet DEF vars, threadVars, accountVars, brokerVars, historyVars, Taken
<1> QED
  BY <1>2, <1>3, <1>5, <1>6, <1>7, <1>8, CopyTake, CopyTakeFails

\* LimitFollowsTopic of the service: the copy of the limits that decisions are
\* made with holds the last update that was taken since the service started,
\* through lost offsets and restarts; an update whose commit took effect and
\* ended the loop was not taken.
THEOREM LimitFollowsTopicHolds == Spec => []LimitFollowsTopic
<1>1. Init => SaveInv /\ CopyInv
  <2>1. 1..0 = {} /\ "limits" \in Threads /\ "limits" \in Consumers
    BY ThreadSets
  <2> QED
    BY <2>1 DEF Init, SaveInv, CopyInv
<1>2. Shape /\ SaveInv /\ CopyInv /\ [Next]_vars => SaveInv' /\ CopyInv'
  <2> SUFFICES ASSUME Shape, SaveInv, CopyInv, [Next]_vars PROVE SaveInv' /\ CopyInv'
    OBVIOUS
  <2>1. CASE Restart
    <3>1. pc'["limits"] = "idle" /\ todo'["limits"] = << >> /\ present' = Accounts
      BY <2>1, ThreadSets DEF Restart
    <3>2. offset' = offset /\ dropped' = UNION {{c} \X (1..offset[c]) : c \in Consumers}
      BY <2>1 DEF Restart, brokerVars
    <3>3. \A i \in 1..offset'["limits"] : ~ Taken(i)'
      BY <3>2, ThreadSets DEF Taken
    <3> QED
      BY <3>1, <3>3 DEF SaveInv, CopyInv
  <2> QED
    BY <2>1, CopyExecute, CopyOther DEF Next
<1>3. Shape /\ CopyInv => LimitFollowsTopic
  BY CopyInvGives
<1> QED
  BY <1>1, <1>2, <1>3, ShapeHolds, PTL DEF Spec

(***************************************************************************)
(* Part 5: every stored decision is published, or its client is told.      *)
(***************************************************************************)

\* DecisionsPublished, and that what is about to be published was stored.
PublishInv ==
    /\ DecisionsPublished
    /\ \A t \in Threads : pc[t] = "publish" => cell[t] \in stored

\* A step that neither stores nor publishes.
LEMMA PublishQuiet ==
    ASSUME PublishInv, UNCHANGED <<published, unsent, stored, crashes>>,
           \A u \in Threads : /\ pc[u] = "publish" <=> pc'[u] = "publish"
                              /\ pc[u] = "publish" => cell'[u] = cell[u]
    PROVE  PublishInv'
BY DEF PublishInv, DecisionsPublished

\* What thread t does to its own state is no concern of the others.
LEMMA PublishOwn ==
    ASSUME PublishInv, UNCHANGED <<published, unsent, stored, crashes>>, NEW t \in Threads,
           \A u \in Threads \ {t} : pc'[u] = pc[u] /\ cell'[u] = cell[u],
           pc[t] # "publish", pc'[t] # "publish"
    PROVE  PublishInv'
<1>1. \A u \in Threads : /\ pc[u] = "publish" <=> pc'[u] = "publish"
                         /\ pc[u] = "publish" => cell'[u] = cell[u]
  OBVIOUS
<1> QED
  BY <1>1, PublishQuiet

\* A decision is stored and goes on to be published; nothing else that is
\* stored is a decision.
LEMMA PublishEnd ==
    ASSUME Shape, PublishInv, NEW t \in Threads, EndAppend(t)
    PROVE  PublishInv'
<1>1. /\ TypeOK /\ ThreadInv /\ pc[t] = "last" /\ pc[t] \notin {"idle", "dead"}
      /\ stored' = stored \cup {cell[t]} /\ UNCHANGED <<published, unsent, crashes>>
  BY DEF Shape, EndAppend, brokerVars, boundVars
<1>2. CASE Command(t).kind = "authorize"
  <2>1. /\ pc'[t] = "publish" /\ cell' = cell
        /\ \A u \in Threads \ {t} : pc'[u] = pc[u]
    BY <1>1, <1>2 DEF EndAppend, TypeOK
  <2> QED
    BY <1>1, <2>1 DEF PublishInv, DecisionsPublished
<1>3. CASE Command(t).kind # "authorize"
  <2>1. /\ \A u \in Threads \ {t} : pc'[u] = pc[u] /\ cell'[u] = cell[u]
        /\ pc'[t] # "publish"
    BY <1>1, <1>3, FinishStep DEF EndAppend
  <2>2. cell[t].event.type # "decisioned"
    <3>1. cell[t].event.type = TypeFor[Command(t).kind]
      BY <1>1 DEF ThreadInv, CellOK
    <3>2. Command(t).kind \in KindsOf(t) /\ t # "limits"
      BY <1>1, CommandInHand DEF ThreadInv, ThreadOK
    <3>3. Command(t).kind \in {"clear", "submitted", "returned"}
      BY <1>3, <3>2 DEF KindsOf, Threads, Consumers
    <3> QED
      BY <3>1, <3>3 DEF TypeFor
  <2>3. ASSUME NEW c \in stored', c.event.type = "decisioned"
        PROVE  \/ c \in published' \cup unsent'
               \/ \E u \in Threads : pc'[u] = "publish" /\ cell'[u] = c
    <3>1. c \in stored
      BY <1>1, <2>2, <2>3
    <3>2. \/ c \in published \cup unsent
          \/ \E u \in Threads : pc[u] = "publish" /\ cell[u] = c
      BY <2>3, <3>1 DEF PublishInv, DecisionsPublished
    <3> QED
      BY <1>1, <2>1, <3>2
  <2> QED
    BY <1>1, <2>1, <2>3 DEF PublishInv, DecisionsPublished
<1> QED
  BY <1>2, <1>3

\* The decision is sent, or its send fails with an error to the client, and
\* perhaps with effect.
LEMMA PublishSend ==
    ASSUME Shape, PublishInv, NEW t \in Threads, Publish(t) \/ PublishFails(t)
    PROVE  PublishInv'
<1>1. /\ TypeOK /\ ThreadInv /\ pc[t] = "publish" /\ pc[t] \notin {"idle", "dead"}
      /\ Finish(t) /\ UNCHANGED <<stored, crashes>>
      /\ published \subseteq published' /\ unsent \subseteq unsent'
      /\ published' \cup unsent' = published \cup unsent \cup {cell[t]}
  BY DEF Shape, Publish, PublishFails, historyVars, boundVars
<1>2. /\ \A u \in Threads \ {t} : pc'[u] = pc[u] /\ cell'[u] = cell[u]
      /\ pc'[t] # "publish"
  BY <1>1, FinishStep
<1>3. cell[t] \in stored
  BY <1>1 DEF PublishInv
<1>4. ASSUME NEW c \in stored', c.event.type = "decisioned"
      PROVE  \/ c \in published' \cup unsent'
             \/ \E u \in Threads : pc'[u] = "publish" /\ cell'[u] = c
  <2>1. \/ c \in published \cup unsent
        \/ \E u \in Threads : pc[u] = "publish" /\ cell[u] = c
    BY <1>1, <1>4 DEF PublishInv, DecisionsPublished
  <2>2. ASSUME NEW u \in Threads, pc[u] = "publish", cell[u] = c
        PROVE  \/ c \in published' \cup unsent'
               \/ \E v \in Threads : pc'[v] = "publish" /\ cell'[v] = c
    BY <1>1, <1>2, <2>2
  <2> QED
    BY <1>1, <2>1, <2>2
<1>5. \A u \in Threads : pc'[u] = "publish" => cell'[u] \in stored'
  BY <1>1, <1>2 DEF PublishInv
<1>6. crashes' = 0 => published' \cup unsent' \subseteq stored'
  BY <1>1, <1>3 DEF PublishInv, DecisionsPublished
<1> QED
  BY <1>4, <1>5, <1>6 DEF PublishInv, DecisionsPublished

\* Every other step of a thread on the event store.
LEMMA PublishExecute ==
    ASSUME Shape, PublishInv, NEW t \in Threads, Execute(t)
    PROVE  PublishInv'
<1>1. TypeOK /\ ThreadInv
  BY DEF Shape
<1>2. CASE ReadRejected(t) \/ ReadFails(t)
  <2>1. /\ pc[t] = "read" /\ pc[t] \notin {"idle", "dead"} /\ Finish(t)
        /\ UNCHANGED <<published, unsent, stored, crashes>>
    BY <1>2 DEF ReadRejected, ReadFails, brokerVars, historyVars, boundVars
  <2>2. /\ \A u \in Threads \ {t} : pc'[u] = pc[u] /\ cell'[u] = cell[u]
        /\ pc'[t] # "publish"
    BY <1>1, <2>1, FinishStep
  <2> QED
    BY <2>1, <2>2, PublishOwn
<1>3. CASE ReadAccepted(t) \/ BeginAppend(t) \/ Link(t)
  <2>1. /\ pc[t] # "publish" /\ UNCHANGED <<published, unsent, stored, crashes>>
    BY <1>3 DEF ReadAccepted, BeginAppend, Link, brokerVars, historyVars, boundVars
  <2>2. /\ \A u \in Threads \ {t} : pc'[u] = pc[u] /\ cell'[u] = cell[u]
        /\ pc'[t] # "publish"
    BY <1>1, <1>3 DEF ReadAccepted, BeginAppend, Link, TypeOK
  <2> QED
    BY <2>1, <2>2, PublishOwn
<1> QED
  BY <1>2, <1>3, PublishEnd, PublishSend DEF Execute

\* Threads that start on something, consumers and the account store.
LEMMA PublishOther ==
    ASSUME Shape, PublishInv,
           \/ \E h \in Handlers : ReceiveAuthorize(h) \/ RefuseAuthorize(h) \/ ReceiveClear(h)
           \/ \E c \in Consumers : Take(c) \/ TakeFails(c) \/ ResetOffset(c)
           \/ RemoveAccount \/ RestoreAccount
           \/ UNCHANGED vars
    PROVE  PublishInv'
<1>1. TypeOK /\ ThreadInv
  BY DEF Shape
<1>2. UNCHANGED <<published, unsent, stored, crashes>>
  BY DEF ReceiveAuthorize, RefuseAuthorize, ReceiveClear, Receive, Take, TakeFails, ResetOffset,
         RemoveAccount, RestoreAccount, vars, brokerVars, historyVars, boundVars
<1>3. CASE pc' = pc /\ cell' = cell
  BY <1>2, <1>3, PublishQuiet
<1>4. ASSUME NEW t \in Threads, NEW commands, NEW step \in {"read", "remove"}, pc[t] = "idle",
             Start(t, commands, step)
      PROVE  PublishInv'
  <2>1. /\ \A u \in Threads \ {t} : pc'[u] = pc[u] /\ cell'[u] = cell[u]
        /\ pc'[t] # "publish"
    BY <1>1, <1>4 DEF Start, TypeOK
  <2> QED
    BY <1>2, <1>4, <2>1, PublishOwn
<1>5. CASE \E h \in Handlers : ReceiveAuthorize(h) \/ RefuseAuthorize(h) \/ ReceiveClear(h)
  BY <1>3, <1>4, <1>5, ThreadSets
     DEF ReceiveAuthorize, RefuseAuthorize, ReceiveClear, Receive, threadVars
<1>6. ASSUME NEW c \in Consumers, Take(c)
      PROVE  PublishInv'
  BY <1>4, <1>6, ThreadSets DEF Take
<1>7. ASSUME NEW c \in Consumers, TakeFails(c)
      PROVE  PublishInv'
  <2>1. /\ c \in Threads /\ pc[c] # "publish" /\ pc'[c] # "publish"
        /\ \A u \in Threads \ {c} : pc'[u] = pc[u] /\ cell'[u] = cell[u]
    BY <1>1, <1>7, ThreadSets DEF TakeFails, TypeOK
  <2> QED
    BY <1>2, <2>1, PublishOwn
<1>8. ASSUME NEW c \in Consumers, ResetOffset(c)
      PROVE  PublishInv'
  BY <1>3, <1>8 DEF ResetOffset, threadVars
<1>9. CASE RemoveAccount \/ RestoreAccount
  <2>1. /\ pc["limits"] \in {"remove", "restore"} /\ pc["limits"] \notin {"idle", "dead"}
        /\ "limits" \in Threads
    BY <1>9, ThreadSets DEF RemoveAccount, RestoreAccount
  <2>2. CASE Finish("limits")
    <3>1. /\ \A u \in Threads \ {"limits"} : pc'[u] = pc[u] /\ cell'[u] = cell[u]
          /\ pc'["limits"] # "publish"
      BY <1>1, <2>1, <2>2, FinishStep
    <3> QED
      BY <1>2, <2>1, <3>1, PublishOwn
  <2>3. CASE pc' = [pc EXCEPT !["limits"] = "restore"] /\ cell' = cell
    <3>1. /\ \A u \in Threads \ {"limits"} : pc'[u] = pc[u] /\ cell'[u] = cell[u]
          /\ pc'["limits"] # "publish"
      BY <1>1, <2>1, <2>3 DEF TypeOK
    <3> QED
      BY <1>2, <2>1, <3>1, PublishOwn
  <2> QED
    BY <1>9, <2>2, <2>3 DEF RemoveAccount, RestoreAccount
<1>10. CASE UNCHANGED vars
  BY <1>3, <1>10 DEF vars, threadVars
<1> QED
  BY <1>5, <1>6, <1>7, <1>8, <1>9, <1>10

\* DecisionsPublished of the service: no stored decision goes unpublished but
\* with an error to its client, and nothing is published that was not stored.
THEOREM DecisionsPublishedHolds == Spec => []DecisionsPublished
<1>1. Init => PublishInv
  BY DEF Init, PublishInv, DecisionsPublished
<1>2. Shape /\ PublishInv /\ [Next]_vars => PublishInv'
  <2> SUFFICES ASSUME Shape, PublishInv, [Next]_vars PROVE PublishInv'
    OBVIOUS
  <2>1. CASE Restart
    <3>1. /\ stored' = {} /\ crashes' # 0
          /\ \A t \in Threads : pc'[t] # "publish"
      BY <2>1 DEF Restart, Shape, TypeOK
    <3> QED
      BY <3>1 DEF PublishInv, DecisionsPublished
  <2> QED
    BY <2>1, PublishExecute, PublishOther DEF Next
<1>3. PublishInv => DecisionsPublished
  BY DEF PublishInv
<1> QED
  BY <1>1, <1>2, <1>3, ShapeHolds, PTL DEF Spec

(***************************************************************************)
(* Part 6: what concurrent authorizations can overspend.                   *)
(***************************************************************************)

\* Only card transactions are at work, for amounts and limits that the web
\* application lets through (MakePurchase, UpdateCreditLimit); the seed is
\* within its limits, and the limits leave room for one amount per handler
\* below the largest Int.
CardsOnly ==
    /\ Topic["submitted"] = << >> /\ Topic["returned"] = << >>
    /\ IsFiniteSet(Handlers) /\ Handlers # {}
    /\ \A r \in Requests : r # << >> /\ r[1].kind = "authorize" => r[1].amount \in 0..(IntHalf - 1)
    /\ \A i \in DOMAIN Topic["limits"] : Topic["limits"][i].amount \in 0..(IntHalf - 1)
    /\ \A i \in DOMAIN SeedEvents : /\ SeedEvents[i].type # "paymentApplied"
                                    /\ SeedEvents[i].amount >= 0
    /\ \A a \in Accounts :
          /\ SeedLimit[a] \in 0..(IntHalf - 1)
          /\ LET s == TransactionBalance(SeedEvents, a) IN s.balance + s.pending <= SeedLimit[a]
          /\ MaxLimit(a) + Cardinality(Handlers) * MaxAmount < IntHalf

\* The balance and the pending amount of each account fit an Int.
SumsFit ==
    \A a \in Accounts : BalanceSum(Events, a) \in ScalaInt /\ PendingSum(Events, a) \in ScalaInt

\* What the other handlers may add to a limit.
Overshoot == (Cardinality(Handlers) - 1) * MaxAmount

\* What the account and amounts of a command may be.
Fits(c) ==
    /\ c.kind = "authorize" =>
          c.account \in Accounts /\ c.amount \in 0..MaxAmount /\ c.limit \in 0..MaxLimit(c.account)
    /\ c.kind = "limitUpdated" /\ c.account \in Accounts => c.amount \in 0..MaxLimit(c.account)

\* The loops of the payments have nothing to do; commands and limits are within
\* bounds.
WorkInv ==
    /\ \A c \in PaymentLoops : todo[c] = << >>
    /\ \A t \in Threads : \A i \in DOMAIN todo[t] : Fits(todo[t][i])
    /\ \A a \in Accounts : limit[a] \in 0..MaxLimit(a)

\* No event reduces what an account owes.
OwesInv ==
    /\ \A a \in Accounts : \A i \in DOMAIN log : OwedPart(log[i].event, a) \in Nat
    /\ \A a \in Accounts : \A t \in Threads :
          Appending(t) => OwedPart(cell[t].event, a) \in 0..MaxAmount

CardInv == WorkInv /\ OwesInv

\* What CardsOnly says of the largest amount and the largest limits.
LEMMA Maxima ==
    ASSUME CardsOnly
    PROVE  /\ MaxAmount \in Nat /\ Overshoot \in Nat
           /\ \A r \in Requests : r # << >> /\ r[1].kind = "authorize" => r[1].amount \in 0..MaxAmount
           /\ \A a \in Accounts :
                 /\ MaxLimit(a) \in Nat /\ SeedLimit[a] \in 0..MaxLimit(a)
                 /\ MaxLimit(a) + Overshoot + MaxAmount < IntHalf
                 /\ \A i \in DOMAIN Topic["limits"] : Topic["limits"][i].account = a =>
                       Topic["limits"][i].amount \in 0..MaxLimit(a)
           /\ \A S \in SUBSET Handlers : S # Handlers => Cardinality(S) * MaxAmount <= Overshoot
<1> DEFINE top == IntHalf - 1
           R == {r \in Requests : r # << >> /\ r[1].kind = "authorize"}
           A == {0} \cup {r[1].amount : r \in R}
<1>1. top \in Nat
  BY IntHalfAssumption
<1>2. A \in SUBSET (0..top) /\ A # {}
  BY <1>1 DEF CardsOnly
<1>3. MaxAmount = Max(A)
  BY DEF MaxAmount
<1>4. \A r \in R : r[1].amount \in A
  OBVIOUS
<1> HIDE DEF A
<1>5. MaxAmount \in A /\ \A x \in A : x <= MaxAmount
  BY <1>1, <1>2, <1>3, MaxOfNats
<1>6. MaxAmount \in Nat
  BY <1>1, <1>2, <1>5
<1>7. \A r \in R : r[1].amount \in 0..MaxAmount
  <2> TAKE r \in R
  <2>1. r[1].amount \in 0..top /\ r[1].amount <= MaxAmount
    BY <1>2, <1>4, <1>5
  <2> QED
    BY <1>6, <2>1
<1>8. Cardinality(Handlers) \in Nat \ {0}
  BY FS_CardinalityType, FS_EmptySet DEF CardsOnly
<1>9. Overshoot \in Nat /\ Cardinality(Handlers) * MaxAmount = Overshoot + MaxAmount
  <2> DEFINE n == Cardinality(Handlers)
             m == MaxAmount
  <2>1. n \in Nat \ {0} /\ m \in Nat
    BY <1>6, <1>8
  <2> HIDE DEF n, m
  <2>2. n - 1 \in Nat /\ (n - 1) * m \in Nat /\ n * m = (n - 1) * m + m
    BY <2>1
  <2> QED
    BY <2>2 DEF n, m, Overshoot
<1>10. ASSUME NEW a \in Accounts
       PROVE  /\ MaxLimit(a) \in Nat /\ SeedLimit[a] \in 0..MaxLimit(a)
              /\ MaxLimit(a) + Overshoot + MaxAmount < IntHalf
              /\ \A i \in DOMAIN Topic["limits"] : Topic["limits"][i].account = a =>
                    Topic["limits"][i].amount \in 0..MaxLimit(a)
  <2> DEFINE U == {u \in ToSet(Topic["limits"]) : u.account = a}
             L == {SeedLimit[a]} \cup {u.amount : u \in U}
  <2>1. L \in SUBSET (0..top) /\ L # {}
    BY DEF CardsOnly, ToSet
  <2>2. MaxLimit(a) = Max(L)
    BY DEF MaxLimit
  <2>3. SeedLimit[a] \in L /\ \A i \in DOMAIN Topic["limits"] :
           Topic["limits"][i].account = a => Topic["limits"][i].amount \in L
    BY DEF ToSet
  <2> HIDE DEF L
  <2>4. MaxLimit(a) \in L /\ \A x \in L : x <= MaxLimit(a)
    BY <1>1, <2>1, <2>2, MaxOfNats
  <2>5. MaxLimit(a) \in Nat /\ \A x \in L : x \in 0..MaxLimit(a)
    <3> DEFINE m == MaxLimit(a)
    <3>1. m \in L /\ \A x \in L : x \in 0..top /\ x <= m
      BY <2>1, <2>4
    <3> HIDE DEF m
    <3>2. m \in Nat
      BY <1>1, <3>1
    <3>3. \A x \in L : x \in 0..m
      BY <1>1, <3>1, <3>2
    <3> QED
      BY <3>2, <3>3 DEF m
  <2>6. MaxLimit(a) + Cardinality(Handlers) * MaxAmount < IntHalf
    BY DEF CardsOnly
  <2>7. MaxLimit(a) + Overshoot + MaxAmount < IntHalf
    BY <1>6, <1>9, <2>5, <2>6
  <2> QED
    BY <2>3, <2>5, <2>7
<1>11. ASSUME NEW S \in SUBSET Handlers, S # Handlers
       PROVE  Cardinality(S) * MaxAmount <= Overshoot
  <2> DEFINE n == Cardinality(Handlers)
             k == Cardinality(S)
             m == MaxAmount
  <2>1. PICK h \in Handlers : h \notin S
    BY <1>11
  <2>2. IsFiniteSet(Handlers \ {h}) /\ S \subseteq Handlers \ {h} /\ Cardinality(Handlers \ {h}) = n - 1
    BY <2>1, FS_Subset, FS_RemoveElement DEF CardsOnly
  <2>3. k \in Nat /\ k <= n - 1 /\ n \in Nat /\ m \in Nat
    BY <1>6, <1>8, <2>2, FS_Subset, FS_CardinalityType
  <2> HIDE DEF n, k, m
  <2>4. k * m <= (n - 1) * m
    BY <2>3
  <2> QED
    BY <2>4 DEF n, k, m, Overshoot
<1> QED
  BY <1>6, <1>7, <1>9, <1>10, <1>11

\* What is appended comes from a handler, and adds its amount if approved.
LEMMA CardAppends ==
    ASSUME Shape, CardInv, NEW t \in Threads, Appending(t)
    PROVE  /\ t \in Handlers
           /\ cell[t].event \in EventType
           /\ \A a : OwedPart(cell[t].event, a)
                       = IF cell[t].event.account = a /\ cell[t].event.outcome = "approved"
                         THEN cell[t].event.amount ELSE 0
<1>1. TypeOK /\ ThreadInv /\ pc[t] \in {"append", "link"}
  BY DEF Shape, Appending
<1>2. t # "limits" /\ todo[t] # << >>
  BY <1>1 DEF ThreadInv, ThreadOK
<1>3. t \in Handlers
  BY <1>2 DEF Threads, Consumers, CardInv, WorkInv, PaymentLoops
<1>4. Command(t).kind \in {"authorize", "clear"}
  BY <1>1, <1>3, CommandInHand DEF KindsOf
<1>5. cell[t].event.type \in {"decisioned", "cleared"} /\ cell[t].event \in EventType
  BY <1>1, <1>4 DEF ThreadInv, CellOK, TypeFor, TypeOK, CellType
<1>6. \A a : OwedPart(cell[t].event, a)
               = IF cell[t].event.account = a /\ cell[t].event.outcome = "approved"
                 THEN cell[t].event.amount ELSE 0
  BY <1>5, PartsOfEvent
<1> QED
  BY <1>3, <1>5, <1>6

\* The sum over a set and one element more.
LEMMA SumWithOne ==
    ASSUME NEW S, IsFiniteSet(S), NEW x, x \notin S, NEW f, NEW g, g[x] \in Int,
           \A y \in S : f[y] \in Int /\ g[y] = f[y]
    PROVE  /\ SumFunctionOnSet(g, S \cup {x}) = g[x] + SumFunctionOnSet(f, S)
           /\ SumFunctionOnSet(f, S) \in Int
<1>1. SumFunctionOnSet(g, S) = SumFunctionOnSet(f, S) /\ SumFunctionOnSet(f, S) \in Int
  BY SumSame
<1>2. \A y \in S \cup {x} : g[y] \in Int
  OBVIOUS
<1>3. SumFunctionOnSet(g, S \cup {x}) = g[x] + SumFunctionOnSet(g, S)
  BY <1>2, SumAdd
<1> QED
  BY <1>1, <1>3

\* The approvals in flight are those of handlers, for an amount each.
LEMMA FlightBounded ==
    ASSUME CardsOnly, Shape, CardInv, NEW a \in Accounts
    PROVE  /\ Unstored(a) \subseteq Handlers /\ IsFiniteSet(Unstored(a))
           /\ \A t \in Unstored(a) : Appending(t) /\ cell[t].event.amount \in 0..MaxAmount
           /\ InFlight(a) \in 0..(Cardinality(Unstored(a)) * MaxAmount)
<1>1. \A t \in Unstored(a) : t \in Threads /\ Appending(t)
  BY DEF Unstored, Appending
<1>2. Unstored(a) \subseteq Handlers
  BY <1>1, CardAppends
<1>3. ASSUME NEW t \in Unstored(a) PROVE cell[t].event.amount \in 0..MaxAmount
  <2>1. t \in Threads /\ Appending(t) /\ cell[t].event.account = a /\ cell[t].event.outcome = "approved"
    BY <1>1 DEF Unstored
  <2>2. OwedPart(cell[t].event, a) = cell[t].event.amount
    BY <2>1, CardAppends
  <2>3. OwedPart(cell[t].event, a) \in 0..MaxAmount
    BY <2>1 DEF CardInv, WorkInv, OwesInv
  <2> QED
    BY <2>2, <2>3
<1>4. IsFiniteSet(Unstored(a))
  BY <1>2, FS_Subset DEF CardsOnly
<1> DEFINE f == [t \in Threads |-> cell[t].event.amount]
<1>5. \A t \in Unstored(a) : f[t] \in 0..MaxAmount
  BY <1>1, <1>3
<1> HIDE DEF f
<1>6. SumFunctionOnSet(f, Unstored(a)) \in 0..(Cardinality(Unstored(a)) * MaxAmount)
  BY <1>4, <1>5, Maxima, SumBounded
<1> QED
  BY <1>1, <1>2, <1>3, <1>4, <1>6 DEF InFlight, f

\* Steps that leave the buffer and the cells being appended alone.
BufferQuiet ==
    /\ log' = log
    /\ \A t \in Threads : /\ Appending(t)' <=> Appending(t)
                          /\ Appending(t) => cell'[t] = cell[t]

\* Such steps keep the bound.
LEMMA QuietBound ==
    ASSUME CardsOnly, Shape, CardInv, BufferQuiet, OvershootBounded
    PROVE  OvershootBounded'
<1>1. ASSUME NEW a \in Accounts
      PROVE  InFlight(a)' = InFlight(a) /\ Owed(a)' = Owed(a)
  <2> DEFINE f == [t \in Threads |-> cell[t].event.amount]
             g == [t \in Threads |-> cell'[t].event.amount]
             U == Unstored(a)
  <2>1. Unstored(a)' = U
    <3>1. \A t \in Threads : t \in Unstored(a)' <=> t \in U
      BY DEF BufferQuiet, Unstored, Appending
    <3> QED
      BY <3>1 DEF Unstored
  <2>2. /\ IsFiniteSet(U)
        /\ \A t \in U : t \in Threads /\ Appending(t) /\ cell[t].event.amount \in 0..MaxAmount
    BY FlightBounded, ThreadSets
  <2>3. \A t \in U : f[t] \in Int /\ g[t] = f[t]
    BY <2>2, Maxima DEF BufferQuiet
  <2>4. InFlight(a) = SumFunctionOnSet(f, U) /\ InFlight(a)' = SumFunctionOnSet(g, U)
    BY <2>1 DEF InFlight
  <2> HIDE DEF f, g, U
  <2>5. SumFunctionOnSet(g, U) = SumFunctionOnSet(f, U)
    BY <2>2, <2>3, SumSame
  <2>6. Owed(a)' = Owed(a)
    BY DEF BufferQuiet, Owed, Events
  <2> QED
    BY <2>4, <2>5, <2>6
<1>2. \A a \in Accounts :
         Owed(a) + InFlight(a) <= MaxLimit(a) + (Cardinality(Handlers) - 1) * MaxAmount
  BY DEF OvershootBounded
<1> QED
  BY <1>1, <1>2 DEF OvershootBounded, MaxLimit, MaxAmount

\* EventsType, of the next state.
LEMMA EventsTypeNext == TypeOK' => (Events \in Seq(EventType) /\ DOMAIN Events = DOMAIN log)'
<1>1. TypeOK => Events \in Seq(EventType) /\ DOMAIN Events = DOMAIN log
  BY EventsType
<1> QED
  BY <1>1, PTL

\* Link moves an approval from what is in flight to what is owed, or drops
\* events of the buffer, or the approval.
LEMMA LinkOwes ==
    ASSUME Shape, CardInv, SumsFit, SumsFit', NEW t \in Threads, Link(t), TypeOK', NEW a \in Accounts
    PROVE  /\ Owed(a) \in Int /\ Owed(a)' \in Int
           /\ Owed(a)' <= Owed(a) + OwedPart(cell[t].event, a)
<1> DEFINE e == cell[t].event
<1>1. Appending(t) /\ TypeOK
  BY DEF Link, Appending, Shape
<1>2. e \in EventType /\ OwedPart(e, a) \in Nat
  BY <1>1, Maxima, CardAppends DEF CardInv, WorkInv, OwesInv
<1>3. /\ Events \in Seq(EventType) /\ DOMAIN Events = DOMAIN log
      /\ Events' \in Seq(EventType) /\ DOMAIN Events' = DOMAIN log'
  BY <1>1, EventsType, EventsTypeNext
<1>4. Owed(a) = OwedSum(Events, a)
  BY <1>3, OwedIsSum DEF Owed, SumsFit
<1>5. Owed(a)' = OwedSum(Events', a)
  BY <1>3, OwedIsSum DEF Owed, SumsFit
<1>6. \A i \in 1..Len(Events) : OwedPart(Events[i], a) \in Nat
  <2>1. DOMAIN Events = 1..Len(Events)
    BY <1>3, LenProperties
  <2> QED
    BY <1>3, <2>1 DEF CardInv, WorkInv, OwesInv, Events
<1>7. ASSUME NEW k \in DOMAIN log, Len(log') = k + 1, log' \in Seq(CellType), DOMAIN log' = 1..(k + 1),
             log'[k + 1] = cell[t], \A i \in 1..k : log'[i] = log[i]
      PROVE  OwedSum(Events, a) \in Nat /\ OwedSum(Events', a) \in Int
                /\ OwedSum(Events', a) <= OwedSum(Events, a) + OwedPart(e, a)
  <2>1. DOMAIN Events = 1..Len(Events) /\ Len(Events) \in Nat
    BY <1>3, LenProperties
  <2>2. k \in 1..Len(Events) /\ k \in Nat /\ k \in 0..Len(Events)
    BY <1>3, <2>1
  <2>3. DOMAIN Events' = 1..Len(Events') /\ Len(Events') \in Nat
    BY <1>3, LenProperties
  <2>4. Len(Events') = k + 1
    BY <1>3, <1>7, <2>2, <2>3
  <2>5. Events'[k + 1] = e /\ \A i \in 1..k : Events'[i] = Events[i]
    <3>1. k + 1 \in DOMAIN log' /\ \A i \in 1..k : i \in DOMAIN log' /\ i \in DOMAIN log
      BY <1>3, <1>7, <2>1, <2>2
    <3> QED
      BY <1>7, <3>1 DEF Events
  <2> QED
    BY <1>3, <1>6, <2>2, <2>4, <2>5, OwedOfCut
<1>8. CASE log' = log
  <2>1. Events' = Events
    BY <1>8 DEF Events
  <2>2. Owed(a) \in Int
    <3>1. TransactionBalance(Events, a) \in BalanceType
      BY <1>3, BalanceTyped
    <3> QED
      BY <3>1, IntHalfAssumption DEF Owed, BalanceType, ScalaInt
  <2>3. Owed(a)' = Owed(a)
    BY <1>4, <1>5, <2>1
  <2> QED
    BY <1>2, <2>2, <2>3
<1>9. CASE log' # log
  <2>1. /\ OwedSum(Events, a) \in Nat /\ OwedSum(Events', a) \in Int
        /\ OwedSum(Events', a) <= OwedSum(Events, a) + OwedPart(e, a)
    BY <1>1, <1>7, <1>9, LinkStep
  <2> QED
    BY <1>4, <1>5, <2>1
<1> QED
  BY <1>8, <1>9

\* So that what is owed and what is in flight grow no further by it.
LEMMA LinkBound ==
    ASSUME CardsOnly, Shape, CardInv, SumsFit, SumsFit', NEW t \in Threads, Link(t), TypeOK',
           OvershootBounded
    PROVE  OvershootBounded'
<1>1. Appending(t) /\ pc[t] = "link" /\ pc' = [pc EXCEPT ![t] = "last"] /\ cell' = cell /\ TypeOK
  BY DEF Link, Appending, Shape
<1>2. pc'[t] = "last" /\ \A u \in Threads \ {t} : pc'[u] = pc[u]
  BY <1>1 DEF TypeOK
<1>3. ASSUME NEW a \in Accounts
      PROVE  /\ InFlight(a)' \in Int
             /\ InFlight(a) = OwedPart(cell[t].event, a) + InFlight(a)'
  <2> DEFINE f == [u \in Threads |-> cell[u].event.amount]
             U == Unstored(a)
             V == U \ {t}
  <2>1. Unstored(a)' = V
    <3>1. \A u \in Threads : u \in Unstored(a)' <=> u \in V
      BY <1>1, <1>2 DEF Unstored
    <3> QED
      BY <3>1 DEF Unstored
  <2>2. /\ IsFiniteSet(U)
        /\ \A u \in U : u \in Threads /\ Appending(u) /\ cell[u].event.amount \in 0..MaxAmount
    BY FlightBounded, ThreadSets
  <2>3. \A u \in U : f[u] \in Int
    BY <2>2, Maxima
  <2>4. InFlight(a) = SumFunctionOnSet(f, U) /\ InFlight(a)' = SumFunctionOnSet(f, V)
    BY <1>1, <2>1 DEF InFlight
  <2>5. t \in U => f[t] = OwedPart(cell[t].event, a)
    BY <1>1, CardAppends DEF Unstored
  <2>6. t \notin U => OwedPart(cell[t].event, a) = 0
    BY <1>1, CardAppends DEF Unstored
  <2> HIDE DEF f, U
  <2>7. CASE t \in U
    <3>1. IsFiniteSet(V) /\ t \notin V /\ V \cup {t} = U /\ \A u \in V : f[u] \in Int /\ f[u] = f[u]
      BY <2>2, <2>3, <2>7, FS_Subset
    <3>2. f[t] \in Int
      BY <2>3, <2>7
    <3>3. SumFunctionOnSet(f, V \cup {t}) = f[t] + SumFunctionOnSet(f, V) /\ SumFunctionOnSet(f, V) \in Int
      BY <3>1, <3>2, SumWithOne
    <3> QED
      BY <2>4, <2>5, <2>7, <3>1, <3>3
  <2>8. CASE t \notin U
    <3>1. V = U
      BY <2>8
    <3>2. SumFunctionOnSet(f, U) \in Int
      BY <2>2, <2>3, SumSame
    <3> QED
      BY <2>4, <2>6, <2>8, <3>1, <3>2
  <2> QED
    BY <2>7, <2>8
<1>4. ASSUME NEW a \in Accounts
      PROVE  Owed(a)' + InFlight(a)' <= Owed(a) + InFlight(a)
                /\ Owed(a)' + InFlight(a)' \in Int /\ Owed(a) + InFlight(a) \in Int
  <2>1. OwedPart(cell[t].event, a) \in Int
    BY <1>1, CardAppends, PartsOfEvent
  <2> QED
    BY <1>3, <2>1, LinkOwes
<1>5. ASSUME NEW a \in Accounts
      PROVE  Owed(a)' + InFlight(a)' <= MaxLimit(a) + (Cardinality(Handlers) - 1) * MaxAmount
  <2>1. Owed(a) + InFlight(a) <= MaxLimit(a) + Overshoot
    BY DEF OvershootBounded, Overshoot
  <2>2. MaxLimit(a) \in Nat /\ Overshoot \in Nat
    BY Maxima
  <2>3. Owed(a)' + InFlight(a)' <= MaxLimit(a) + Overshoot
    BY <1>4, <2>1, <2>2
  <2> QED
    BY <2>3 DEF Overshoot
<1> QED
  BY <1>5 DEF OvershootBounded, MaxLimit, MaxAmount

\* Who is about to decide is a handler, and its command is within bounds.
LEMMA DecidesWithin ==
    ASSUME Shape, CardInv, NEW t \in Threads, ReadAccepted(t)
    PROVE  /\ t \in Handlers /\ Command(t) \in CommandType
           /\ Command(t).kind \in {"authorize", "clear"} /\ Fits(Command(t))
           /\ Events \in Seq(EventType)
           /\ ResultOf(Command(t), Events) \in EventType
           /\ ResultOf(Command(t), Events).account = Command(t).account
           /\ ResultOf(Command(t), Events).type = TypeFor[Command(t).kind]
<1>1. TypeOK /\ ThreadInv /\ pc[t] = "read" /\ Accepts(Command(t), Events)
  BY DEF Shape, ReadAccepted
<1>2. t # "limits" /\ todo[t] # << >>
  BY <1>1 DEF ThreadInv, ThreadOK
<1>3. t \in Handlers
  BY <1>2 DEF Threads, Consumers, CardInv, WorkInv, PaymentLoops
<1>4. /\ Command(t) \in CommandType /\ Command(t) = todo[t][1]
      /\ Command(t).kind \in {"authorize", "clear"} /\ Len(todo[t]) \in Nat \ {0}
  BY <1>1, <1>3, CommandInHand DEF KindsOf
<1>5. 1 \in DOMAIN todo[t]
  <2>1. todo[t] \in Seq(CommandType)
    BY <1>1 DEF TypeOK
  <2> QED
    BY <1>4, <2>1, LenProperties
<1>6. Fits(Command(t))
  BY <1>4, <1>5 DEF CardInv, WorkInv, OwesInv
<1>7. Events \in Seq(EventType)
  BY <1>1, EventsType
<1> QED
  BY <1>1, <1>3, <1>4, <1>6, <1>7, ResultOfCommand

\* A decision adds the amount it approves, a clearing nothing.
LEMMA DecisionPart ==
    ASSUME Shape, CardInv, NEW t \in Threads, ReadAccepted(t), NEW a
    PROVE  LET e == ResultOf(Command(t), Events)
           IN  OwedPart(e, a) = IF e.account = a /\ e.outcome = "approved" THEN Command(t).amount ELSE 0
<1> DEFINE c == Command(t)
           e == ResultOf(Command(t), Events)
<1>1. c.kind \in {"authorize", "clear"} /\ e \in EventType /\ e.type = TypeFor[c.kind]
  BY DecidesWithin
<1>2. OwedPart(e, a) = IF e.account = a /\ e.outcome = "approved" THEN e.amount ELSE 0
  BY <1>1, PartsOfEvent DEF TypeFor
<1>3. CASE c.kind = "authorize"
  <2>1. e = ProcessAuthorization(c, Events)
    BY <1>3 DEF ResultOf
  <2>2. e.amount = c.amount
    BY <2>1 DEF ProcessAuthorization, Event
  <2> QED
    BY <1>2, <2>2
<1>4. CASE c.kind = "clear"
  <2>1. e.outcome # "approved"
    BY <1>1, <1>4 DEF EventType, OutcomesOf, TypeFor
  <2> QED
    BY <1>2, <2>1
<1> QED
  BY <1>1, <1>3, <1>4

\* What is approved is within the limit that was read, if no sum wraps.
LEMMA ApprovedWithin ==
    ASSUME CardsOnly, Shape, CardInv, NEW t \in Threads, ReadAccepted(t),
           ResultOf(Command(t), Events).outcome = "approved",
           Command(t).account \in Accounts =>
              Owed(Command(t).account) <= MaxLimit(Command(t).account) + Overshoot
    PROVE  /\ Command(t).account \in Accounts
           /\ Owed(Command(t).account) + Command(t).amount <= MaxLimit(Command(t).account)
<1> DEFINE c == Command(t)
           s == TransactionBalance(Events, c.account)
           max == MaxLimit(c.account)
<1>1. /\ c \in CommandType /\ c.kind \in {"authorize", "clear"} /\ Fits(c)
      /\ Events \in Seq(EventType) /\ ResultOf(c, Events) \in EventType
      /\ ResultOf(c, Events).type = TypeFor[c.kind]
  BY DecidesWithin
<1>2. c.kind = "authorize"
  BY <1>1 DEF EventType, OutcomesOf, TypeFor
<1>3. c.account \in Accounts /\ c.amount \in 0..MaxAmount /\ c.limit \in 0..max
  BY <1>1, <1>2 DEF Fits
<1>4. MaxAmount \in Nat /\ Overshoot \in Nat /\ max \in Nat /\ max + Overshoot + MaxAmount < IntHalf
  BY <1>3, Maxima
<1>5. Decision(c, s) = "approved"
  BY <1>2 DEF ResultOf, ProcessAuthorization, Event
<1>6. RequestedBalance(c, s) <= c.limit
  BY <1>5 DEF Decision
<1>7. s \in BalanceType
  BY <1>1, BalanceTyped
<1> DEFINE b == s.balance
           p == s.pending
           n == c.amount
<1>8. b \in Int /\ p \in Int /\ n \in Int /\ Owed(c.account) = b + p
  BY <1>3, <1>4, <1>7, IntHalfAssumption DEF BalanceType, ScalaInt, Owed
<1>9. RequestedBalance(c, s) = Wrap((n + b) + p)
  <2>1. RequestedBalance(c, s) = Wrap(Wrap(n + b) + p)
    BY DEF RequestedBalance
  <2>2. \A x \in Int, y \in Int : Wrap(Wrap(x) + y) = Wrap(x + y)
    BY WrapSums
  <2> HIDE DEF b, p, n
  <2>3. n + b \in Int /\ p \in Int
    BY <1>8
  <2>4. Wrap(Wrap(n + b) + p) = Wrap((n + b) + p)
    BY <2>2, <2>3
  <2> QED
    BY <2>1, <2>4
<1>10. b + p <= max + Overshoot
  BY <1>3, <1>8
<1>11. n \in 0..MaxAmount /\ c.limit \in 0..max /\ Wrap((n + b) + p) <= c.limit
  BY <1>3, <1>6, <1>9
<1>12. c.account \in Accounts /\ Owed(c.account) = b + p
  BY <1>3, <1>8
<1> HIDE DEF c, s, b, p, n, max
<1>13. (n + b) + p <= max
  <2>1. CASE (n + b) + p < - IntHalf
    BY <1>4, <1>8, <2>1, IntHalfAssumption
  <2>2. CASE (n + b) + p >= - IntHalf
    <3>1. (n + b) + p \in ScalaInt
      BY <1>4, <1>8, <1>10, <1>11, <2>2, IntHalfAssumption DEF ScalaInt
    <3>2. Wrap((n + b) + p) = (n + b) + p
      BY <3>1, WrapInRange
    <3> QED
      BY <1>4, <1>8, <1>11, <3>2
  <2> QED
    BY <1>4, <1>8, <2>1, <2>2, IntHalfAssumption
<1>14. b + p + n <= max
  BY <1>4, <1>8, <1>13
<1> QED
  BY <1>12, <1>14 DEF c, n, max

\* The one that approves is not in flight yet, so that what is in flight with
\* it are the amounts of the other handlers, at most.
LEMMA ReadBound ==
    ASSUME CardsOnly, Shape, CardInv, NEW t \in Threads, ReadAccepted(t), OvershootBounded
    PROVE  OvershootBounded'
<1> DEFINE e == ResultOf(Command(t), Events)
           c == [id |-> allocated + 1, event |-> e]
<1>1. /\ pc[t] = "read" /\ log' = log /\ TypeOK /\ t \in Handlers
      /\ pc' = [pc EXCEPT ![t] = "append"] /\ cell' = [cell EXCEPT ![t] = c]
  BY DecidesWithin DEF ReadAccepted, Shape
<1>2. /\ pc'[t] = "append" /\ cell'[t].event = e
      /\ \A u \in Threads \ {t} : pc'[u] = pc[u] /\ cell'[u] = cell[u]
  BY <1>1 DEF TypeOK
<1>3. e.account = Command(t).account
  BY DecidesWithin
<1> HIDE DEF c, e
<1>4. ASSUME NEW a \in Accounts
      PROVE  Owed(a)' + InFlight(a)' <= MaxLimit(a) + Overshoot
  <2> DEFINE f == [u \in Threads |-> cell[u].event.amount]
             g == [u \in Threads |-> cell'[u].event.amount]
             U == Unstored(a)
  <2>1. Owed(a)' = Owed(a) /\ Owed(a) \in Int
    <3>1. Owed(a)' = Owed(a)
      BY <1>1 DEF Owed, Events
    <3>2. TransactionBalance(Events, a) \in BalanceType
      BY DecidesWithin, BalanceTyped
    <3> QED
      BY <3>1, <3>2, IntHalfAssumption DEF Owed, BalanceType, ScalaInt
  <2>2. /\ IsFiniteSet(U) /\ U \subseteq Handlers /\ InFlight(a) \in 0..(Cardinality(U) * MaxAmount)
        /\ \A u \in U : u \in Threads /\ Appending(u) /\ cell[u].event.amount \in 0..MaxAmount
    BY FlightBounded, ThreadSets
  <2>3. t \notin U
    BY <1>1 DEF Unstored
  <2>4. MaxLimit(a) \in Nat /\ Overshoot \in Nat /\ MaxAmount \in Nat
    BY Maxima
  <2>5. Owed(a) + InFlight(a) <= MaxLimit(a) + Overshoot
    BY DEF OvershootBounded, Overshoot
  <2>6. Cardinality(U) * MaxAmount <= Overshoot /\ Cardinality(U) * MaxAmount \in Int
    <3>1. U # Handlers
      BY <1>1, <2>3
    <3>2. Cardinality(U) \in Nat
      BY <2>2, FS_CardinalityType
    <3> QED
      BY <2>2, <2>4, <3>1, <3>2, Maxima
  <2>7. InFlight(a) \in Nat /\ InFlight(a) <= Overshoot
    BY <2>2, <2>4, <2>6
  <2>8. \A u \in U : f[u] \in Int /\ g[u] = f[u]
    BY <1>2, <2>2, <2>3, <2>4
  <2>9. InFlight(a) = SumFunctionOnSet(f, U)
    BY DEF InFlight
  <2>10. InFlight(a)' = SumFunctionOnSet(g, Unstored(a)')
    BY DEF InFlight
  <2>11. t \in Threads /\ g[t] = e.amount
    BY <1>2
  <2>12. CASE e.account = a /\ e.outcome = "approved"
    <3>1. Unstored(a)' = U \cup {t}
      <4>1. \A u \in Threads : u \in Unstored(a)' <=> u \in U \cup {t}
        BY <1>2, <2>12 DEF Unstored
      <4>2. Unstored(a)' \subseteq Threads /\ U \cup {t} \subseteq Threads
        BY <2>2 DEF Unstored
      <4> QED
        BY <4>1, <4>2
    <3>2. Command(t).account = a /\ Owed(a) <= MaxLimit(a) + Overshoot
      BY <1>3, <2>1, <2>4, <2>5, <2>7, <2>12
    <3>3. Owed(a) + Command(t).amount <= MaxLimit(a)
      BY <2>12, <3>2, ApprovedWithin DEF e
    <3>4. OwedPart(e, a) = Command(t).amount /\ OwedPart(e, a) = e.amount /\ e.amount \in Int
      <4>1. OwedPart(e, a) = Command(t).amount
        BY <2>12, DecisionPart DEF e
      <4>2. e \in EventType
        BY DecidesWithin DEF e
      <4>3. e.amount \in Int
        BY <4>2 DEF EventType
      <4>4. OwedPart(e, a) = IF e.account # a THEN 0
                             ELSE CASE e.outcome = "approved"     -> e.amount
                                    [] e.type = "paymentApplied"  -> - e.amount
                                    [] e.type = "paymentReturned" -> e.amount
                                    [] OTHER                      -> 0
        BY <4>2, PartsOfEvent
      <4>5. e.type \notin {"paymentApplied", "paymentReturned"}
        BY <2>12, <4>2 DEF EventType, OutcomesOf
      <4> QED
        BY <2>12, <4>1, <4>3, <4>4, <4>5
    <3> HIDE DEF f, g, U
    <3>5. SumFunctionOnSet(g, U \cup {t}) = g[t] + SumFunctionOnSet(f, U)
      BY <2>2, <2>3, <2>8, <2>11, <3>4, SumWithOne
    <3>6. InFlight(a)' = Command(t).amount + InFlight(a) /\ Command(t).amount \in Int
      BY <2>9, <2>10, <2>11, <3>1, <3>4, <3>5
    <3> QED
      BY <2>1, <2>4, <2>7, <3>3, <3>6
  <2>13. CASE ~ (e.account = a /\ e.outcome = "approved")
    <3>1. Unstored(a)' = U
      <4>1. \A u \in Threads : u \in Unstored(a)' <=> u \in U
        BY <1>2, <2>3, <2>13 DEF Unstored
      <4>2. Unstored(a)' \subseteq Threads /\ U \subseteq Threads
        BY DEF Unstored
      <4> QED
        BY <4>1, <4>2
    <3> HIDE DEF f, g, U
    <3>2. SumFunctionOnSet(g, U) = SumFunctionOnSet(f, U)
      BY <2>2, <2>8, SumSame
    <3> QED
      BY <2>1, <2>5, <2>9, <2>10, <3>1, <3>2
  <2> QED
    BY <2>12, <2>13
<1> QED
  BY <1>4 DEF OvershootBounded, Overshoot, MaxLimit, MaxAmount
\* Every step leaves the cells that are being appended and the buffer alone,
\* decides, links, or is a restart.
LEMMA StepKinds ==
    ASSUME Shape, [Next]_vars
    PROVE  \/ BufferQuiet
           \/ \E t \in Threads : ReadAccepted(t) \/ Link(t)
           \/ Restart
<1>1. TypeOK /\ ThreadInv
  BY DEF Shape
<1>2. ASSUME NEW t \in Threads, pc[t] \notin {"idle", "dead", "append", "link"}, Finish(t), log' = log
      PROVE  BufferQuiet
  BY <1>1, <1>2, FinishStep DEF BufferQuiet, Appending
<1>3. ASSUME NEW t \in Threads, pc' = [pc EXCEPT ![t] = pc'[t]], cell' = cell, log' = log,
             Appending(t)' <=> Appending(t)
      PROVE  BufferQuiet
  BY <1>1, <1>3 DEF BufferQuiet, Appending, TypeOK
<1>4. ASSUME pc' = pc, cell' = cell, log' = log
      PROVE  BufferQuiet
  BY <1>4 DEF BufferQuiet, Appending
<1>5. ASSUME NEW t \in Threads, NEW commands, NEW step \in {"read", "remove"},
             Start(t, commands, step), pc[t] = "idle", log' = log
      PROVE  BufferQuiet
  BY <1>1, <1>5 DEF BufferQuiet, Start, Appending, TypeOK
<1>6. CASE \E h \in Handlers : ReceiveAuthorize(h) \/ RefuseAuthorize(h) \/ ReceiveClear(h)
  BY <1>4, <1>5, <1>6, ThreadSets
     DEF ReceiveAuthorize, RefuseAuthorize, ReceiveClear, Receive, storeVars, threadVars
<1>7. ASSUME NEW t \in Threads, Execute(t), ~ ReadAccepted(t), ~ Link(t)
      PROVE  BufferQuiet
  <2>1. CASE ReadRejected(t) \/ ReadFails(t) \/ Publish(t) \/ PublishFails(t)
    BY <1>2, <2>1 DEF ReadRejected, ReadFails, Publish, PublishFails, storeVars
  <2>2. CASE BeginAppend(t)
    BY <1>1, <1>3, <2>2 DEF BeginAppend, storeVars, Appending, TypeOK
  <2>3. CASE EndAppend(t) /\ Command(t).kind = "authorize"
    BY <1>1, <1>3, <2>3 DEF EndAppend, Appending, TypeOK
  <2>4. CASE EndAppend(t) /\ Command(t).kind # "authorize"
    BY <1>2, <2>4 DEF EndAppend
  <2> QED
    BY <1>7, <2>1, <2>2, <2>3, <2>4 DEF Execute
<1>8. ASSUME NEW c \in Consumers, Take(c) \/ TakeFails(c) \/ ResetOffset(c)
      PROVE  BufferQuiet
  <2>1. CASE Take(c)
    BY <1>5, <2>1, ThreadSets DEF Take, storeVars
  <2>2. CASE TakeFails(c)
    BY <1>1, <1>3, <2>2, ThreadSets DEF TakeFails, storeVars, Appending, TypeOK
  <2>3. CASE ResetOffset(c)
    <3>1. pc' = pc /\ cell' = cell /\ log' = log
      BY <2>3 DEF ResetOffset, storeVars, threadVars
    <3> QED
      BY <1>4, <3>1
  <2> QED
    BY <1>8, <2>1, <2>2, <2>3
<1>9. CASE RemoveAccount \/ RestoreAccount
  <2>1. log' = log /\ pc["limits"] \in {"remove", "restore"} /\ "limits" \in Threads
    BY <1>9, ThreadSets DEF RemoveAccount, RestoreAccount, storeVars
  <2>2. CASE Finish("limits")
    BY <1>2, <2>1, <2>2
  <2>3. CASE pc' = [pc EXCEPT !["limits"] = "restore"] /\ cell' = cell
    BY <1>1, <1>3, <2>1, <2>3 DEF Appending, TypeOK
  <2> QED
    BY <1>9, <2>2, <2>3 DEF RemoveAccount, RestoreAccount
<1>10. CASE UNCHANGED vars
  BY <1>4, <1>10 DEF vars, threadVars, storeVars
<1> QED
  BY <1>6, <1>7, <1>8, <1>9, <1>10 DEF Next

\* What is appended or decided keeps what events add to what is owed.
LEMMA OwesNext ==
    ASSUME CardsOnly, Shape, CardInv, [Next]_vars, ~ Restart
    PROVE  OwesInv'
<1>1. TypeOK
  BY DEF Shape
<1>2. CASE BufferQuiet
  BY <1>2 DEF BufferQuiet, CardInv, OwesInv, MaxAmount
<1>3. ASSUME NEW t \in Threads, ReadAccepted(t) PROVE OwesInv'
  <2> DEFINE e == ResultOf(Command(t), Events)
  <2>1. /\ log' = log /\ pc' = [pc EXCEPT ![t] = "append"]
        /\ cell' = [cell EXCEPT ![t] = [id |-> allocated + 1, event |-> e]]
    BY <1>3 DEF ReadAccepted
  <2>2. ASSUME NEW a \in Accounts PROVE OwedPart(e, a) \in 0..MaxAmount
    <3>1. OwedPart(e, a) = IF e.account = a /\ e.outcome = "approved" THEN Command(t).amount ELSE 0
      BY <1>3, DecisionPart
    <3>2. MaxAmount \in Nat
      BY Maxima
    <3>3. CASE Command(t).kind = "authorize"
      BY <1>3, <3>1, <3>2, <3>3, DecidesWithin DEF Fits
    <3>4. CASE Command(t).kind = "clear"
      <4>1. e \in EventType /\ e.type = TypeFor[Command(t).kind]
        BY <1>3, DecidesWithin
      <4>2. e.outcome # "approved"
        BY <3>4, <4>1 DEF EventType, OutcomesOf, TypeFor
      <4> QED
        BY <3>1, <3>2, <4>2
    <3> QED
      BY <1>3, <3>3, <3>4, DecidesWithin
  <2> HIDE DEF e
  <2>3. /\ cell'[t].event = e
        /\ \A u \in Threads \ {t} : pc'[u] = pc[u] /\ cell'[u] = cell[u]
    BY <1>1, <2>1 DEF TypeOK
  <2> QED
    BY <2>1, <2>2, <2>3 DEF CardInv, OwesInv, MaxAmount, Appending
<1>4. ASSUME NEW t \in Threads, Link(t) PROVE OwesInv'
  <2>1. /\ pc[t] = "link" /\ pc' = [pc EXCEPT ![t] = "last"] /\ cell' = cell
    BY <1>4 DEF Link
  <2>2. \A u \in Threads : Appending(u)' => Appending(u)
    BY <1>1, <2>1 DEF TypeOK, Appending
  <2>3. ASSUME NEW a \in Accounts, NEW i \in DOMAIN log' PROVE OwedPart(log'[i].event, a) \in Nat
    <3>1. OwedPart(cell[t].event, a) \in Nat
      BY <2>1, Maxima DEF CardInv, OwesInv, Appending
    <3>2. CASE log' = log
      BY <3>2 DEF CardInv, OwesInv
    <3>3. ASSUME NEW k \in DOMAIN log, DOMAIN log' = 1..(k + 1), log'[k + 1] = cell[t],
                 \A j \in 1..k : log'[j] = log[j]
          PROVE  OwedPart(log'[i].event, a) \in Nat
      <4>1. DOMAIN log = 1..Len(log) /\ Len(log) \in Nat
        BY <1>1, LenProperties DEF TypeOK
      <4>2. i = k + 1 \/ (i \in 1..k /\ i \in DOMAIN log)
        BY <3>3, <4>1
      <4> QED
        BY <3>1, <3>3, <4>2 DEF CardInv, OwesInv
    <3> QED
      BY <1>1, <1>4, <3>2, <3>3, LinkStep
  <2> QED
    BY <2>1, <2>2, <2>3 DEF CardInv, OwesInv, MaxAmount
<1> QED
  BY <1>2, <1>3, <1>4, StepKinds

\* A step that changes only the commands of a thread, and limits, keeps WorkInv
\* if those are within bounds.
LEMMA WorkOneThread ==
    ASSUME WorkInv, NEW t \in Threads, t \notin PaymentLoops,
           \A u \in Threads \ {t} : todo'[u] = todo[u],
           \A i \in DOMAIN todo'[t] : Fits(todo'[t][i]),
           \A a \in Accounts : limit'[a] \in 0..MaxLimit(a)
    PROVE  WorkInv'
<1>1. \A c \in PaymentLoops : c \in Threads /\ c # t
  BY ThreadSets DEF PaymentLoops
<1>2. \A u \in Threads : \A i \in DOMAIN todo'[u] : Fits(todo'[u][i])
  BY DEF WorkInv
<1> QED
  BY <1>1, <1>2 DEF WorkInv, Fits, MaxLimit, MaxAmount

\* The rest of a batch is within bounds.
LEMMA WorkFinish ==
    ASSUME Shape, WorkInv, NEW t \in Threads, pc[t] \notin {"idle", "dead"}, Finish(t),
           \A a \in Accounts : limit'[a] \in 0..MaxLimit(a)
    PROVE  WorkInv'
<1>1. TypeOK /\ ThreadInv /\ todo[t] # << >> /\ todo[t] \in Seq(CommandType)
  BY DEF Shape, ThreadInv, ThreadOK, TypeOK
<1>2. t \notin PaymentLoops
  BY <1>1 DEF WorkInv
<1>3. todo'[t] = Tail(todo[t]) /\ \A u \in Threads \ {t} : todo'[u] = todo[u]
  BY <1>1 DEF Finish, TypeOK
<1>4. ASSUME NEW i \in DOMAIN todo'[t] PROVE Fits(todo'[t][i])
  <2> DEFINE s == todo[t]
  <2>1. /\ Len(s) \in Nat /\ DOMAIN s = 1..Len(s) /\ Tail(s) \in Seq(CommandType)
        /\ Len(Tail(s)) = Len(s) - 1 /\ \A j \in 1..Len(Tail(s)) : Tail(s)[j] = s[j + 1]
    BY <1>1, HeadTailProperties, LenProperties
  <2>2. DOMAIN Tail(s) = 1..Len(Tail(s))
    BY <2>1, LenProperties
  <2>3. i \in DOMAIN Tail(s) /\ i + 1 \in DOMAIN s
    BY <1>3, <2>1, <2>2
  <2>4. todo'[t][i] = s[i + 1]
    BY <1>3, <2>1, <2>2, <2>3
  <2> QED
    BY <2>3, <2>4 DEF WorkInv
<1> QED
  BY <1>2, <1>3, <1>4, WorkOneThread

\* A step that leaves commands and limits alone.
LEMMA WorkQuiet == ASSUME WorkInv, todo' = todo, limit' = limit PROVE WorkInv'
<1>1. \A u \in Threads : \A i \in DOMAIN todo'[u] : Fits(todo'[u][i])
  BY DEF WorkInv
<1>2. \A a \in Accounts : limit'[a] \in 0..MaxLimit(a)
  BY DEF WorkInv
<1>3. \A c \in PaymentLoops : todo'[c] = << >>
  BY DEF WorkInv
<1> QED
  BY <1>1, <1>2, <1>3 DEF WorkInv, Fits, MaxLimit, MaxAmount

\* A request comes with amounts, and takes a limit, that are within bounds.
LEMMA WorkReceives ==
    ASSUME CardsOnly, Shape, WorkInv, NEW h \in Handlers,
           ReceiveAuthorize(h) \/ RefuseAuthorize(h) \/ ReceiveClear(h)
    PROVE  WorkInv'
<1>1. limit' = limit /\ h \in Threads /\ h \notin PaymentLoops /\ TypeOK
  BY ThreadSets DEF ReceiveAuthorize, RefuseAuthorize, ReceiveClear, Receive, accountVars, Shape, PaymentLoops
<1>2. \A a \in Accounts : limit'[a] \in 0..MaxLimit(a)
  BY <1>1 DEF WorkInv
<1>3. ASSUME NEW s, Start(h, s, "read"), \A i \in DOMAIN s : Fits(s[i])
      PROVE  WorkInv'
  <2>1. todo'[h] = s /\ \A u \in Threads \ {h} : todo'[u] = todo[u]
    BY <1>1, <1>3 DEF Start, TypeOK
  <2> QED
    BY <1>1, <1>2, <1>3, <2>1, WorkOneThread
<1>4. CASE ReceiveAuthorize(h)
  <2>1. PICK r \in Requests : /\ r # << >> /\ r[1].kind = "authorize" /\ r[1].account \in present
                              /\ Start(h, << [r[1] EXCEPT !.limit = limit[r[1].account]] >>, "read")
    BY <1>4 DEF ReceiveAuthorize
  <2> DEFINE c == [r[1] EXCEPT !.limit = limit[r[1].account]]
  <2>2. r[1] \in CommandType /\ r[1].account \in Accounts
    BY <1>1, <2>1, RequestType DEF TypeOK
  <2>3. /\ c.kind = "authorize" /\ c.account = r[1].account /\ c.amount = r[1].amount
        /\ c.limit = limit[c.account]
    BY <2>1, <2>2 DEF CommandType
  <2>4. Start(h, <<c>>, "read")
    BY <2>1
  <2> HIDE DEF c
  <2>5. c.amount \in 0..MaxAmount /\ c.limit \in 0..MaxLimit(c.account) /\ c.account \in Accounts
    BY <2>1, <2>2, <2>3, Maxima DEF WorkInv
  <2>6. Fits(c)
    BY <2>3, <2>5 DEF Fits
  <2>7. \A i \in DOMAIN <<c>> : Fits(<<c>>[i])
    BY <2>6
  <2> QED
    BY <1>3, <2>4, <2>7
<1>5. CASE ReceiveClear(h)
  <2>1. PICK r \in Requests : r # << >> /\ r[1].kind = "clear" /\ Start(h, r, "read")
    BY <1>5 DEF ReceiveClear
  <2>2. \A i \in DOMAIN r : Fits(r[i])
    BY <2>1, RequestType DEF Fits
  <2> QED
    BY <1>3, <2>1, <2>2
<1>6. CASE RefuseAuthorize(h)
  BY <1>1, <1>6, WorkQuiet DEF RefuseAuthorize, threadVars
<1> QED
  BY <1>4, <1>5, <1>6

\* The only records there are to take are updates of limits.
LEMMA WorkConsumer ==
    ASSUME CardsOnly, Shape, WorkInv, NEW c \in Consumers, Take(c) \/ TakeFails(c) \/ ResetOffset(c)
    PROVE  WorkInv'
<1>1. limit' = limit /\ TypeOK /\ OffsetInv /\ "limits" \in Threads /\ "limits" \in Consumers
  BY ThreadSets DEF Take, TakeFails, ResetOffset, accountVars, Shape
<1>2. \A a \in Accounts : limit'[a] \in 0..MaxLimit(a)
  BY <1>1 DEF WorkInv
<1>3. CASE Take(c)
  <2>1. /\ offset[c] \in 0..Len(Topic[c]) /\ offset[c] < Len(Topic[c])
        /\ Topic[c] \in Seq(CommandType) /\ Len(Topic[c]) \in Nat
    BY <1>1, <1>3, InputsAssumption, LenProperties DEF Take, OffsetInv
  <2>2. c = "limits"
    <3>1. Len(<< >>) = 0
      BY EmptySeq
    <3>2. c \in PaymentLoops => Topic[c] = << >>
      BY DEF CardsOnly, PaymentLoops
    <3>3. c \notin PaymentLoops
      BY <2>1, <3>1, <3>2
    <3> QED
      BY <3>3 DEF Consumers, PaymentLoops
  <2> DEFINE p == Topic[c][offset[c] + 1]
  <2>3. offset[c] + 1 \in 1..Len(Topic[c]) /\ offset[c] + 1 \in DOMAIN Topic[c]
    BY <2>1, LenProperties
  <2>4. p.kind = "limitUpdated"
    BY <2>2, <2>3, InputsAssumption
  <2>5. p.account \in Accounts => p.amount \in 0..MaxLimit(p.account)
    BY <2>2, <2>3, Maxima
  <2> HIDE DEF p
  <2>6. Fits(p)
    BY <2>4, <2>5 DEF Fits
  <2>7. todo' = [todo EXCEPT ![c] = <<p>>]
    BY <1>3 DEF Take, Start, p
  <2>8. todo'[c] = <<p>> /\ \A u \in Threads \ {c} : todo'[u] = todo[u]
    BY <1>1, <2>2, <2>7 DEF TypeOK
  <2>9. \A i \in DOMAIN <<p>> : Fits(<<p>>[i])
    BY <2>6
  <2>10. c \in Threads /\ c \notin PaymentLoops
    BY <1>1, <2>2 DEF PaymentLoops
  <2> QED
    BY <1>2, <2>8, <2>9, <2>10, WorkOneThread
<1>4. CASE TakeFails(c) \/ ResetOffset(c)
  BY <1>1, <1>4, WorkQuiet DEF TakeFails, ResetOffset, threadVars
<1> QED
  BY <1>3, <1>4

\* A limit that is saved is one of the topic.
LEMMA WorkAccount ==
    ASSUME CardsOnly, Shape, WorkInv, RemoveAccount \/ RestoreAccount
    PROVE  WorkInv'
<1> DEFINE t == "limits"
           c == Command(t)
<1>1. /\ TypeOK /\ ThreadInv /\ t \in Threads /\ t \notin Handlers /\ pc[t] \notin {"idle", "dead"}
      /\ pc[t] \in {"remove", "restore"}
  BY ThreadSets DEF Shape, RemoveAccount, RestoreAccount
<1>2. \A a \in Accounts : limit[a] \in 0..MaxLimit(a)
  BY DEF WorkInv
<1>3. CASE RemoveAccount
  <2>1. limit' = limit
    BY <1>3 DEF RemoveAccount
  <2>2. todo' = todo \/ Finish(t)
    BY <1>3 DEF RemoveAccount
  <2> QED
    BY <1>1, <1>2, <2>1, <2>2, WorkFinish, WorkQuiet
<1>4. CASE RestoreAccount
  <2>1. limit' = [limit EXCEPT ![c.account] = c.amount] /\ Finish(t)
    BY <1>4 DEF RestoreAccount
  <2>2. c.kind = "limitUpdated" /\ c = todo[t][1] /\ Len(todo[t]) \in Nat \ {0}
    BY <1>1, CommandInHand DEF KindsOf
  <2>3. 1 \in DOMAIN todo[t]
    <3>1. todo[t] \in Seq(CommandType)
      BY <1>1 DEF TypeOK
    <3> QED
      BY <2>2, <3>1, LenProperties
  <2>4. c.account \in Accounts
    BY <1>1, <1>4 DEF RestoreAccount, ThreadInv, ThreadOK
  <2>5. c.amount \in 0..MaxLimit(c.account)
    BY <1>1, <2>2, <2>3, <2>4 DEF WorkInv, Fits
  <2> HIDE DEF c
  <2>6. \A a \in Accounts : limit'[a] \in 0..MaxLimit(a)
    BY <1>1, <1>2, <2>1, <2>5 DEF TypeOK
  <2> QED
    BY <1>1, <2>1, <2>6, WorkFinish
<1> QED
  BY <1>3, <1>4

\* Every step but a restart.
LEMMA WorkNext ==
    ASSUME CardsOnly, Shape, WorkInv, [Next]_vars, ~ Restart
    PROVE  WorkInv'
<1>1. ASSUME NEW t \in Threads, Execute(t) PROVE WorkInv'
  <2>1. limit' = limit /\ pc[t] \notin {"idle", "dead"} /\ (todo' = todo \/ Finish(t))
    BY <1>1 DEF Execute, ReadAccepted, ReadRejected, ReadFails, BeginAppend, Link, EndAppend,
       Publish, PublishFails, accountVars
  <2>2. \A a \in Accounts : limit'[a] \in 0..MaxLimit(a)
    BY <2>1 DEF WorkInv
  <2> QED
    BY <2>1, <2>2, WorkFinish, WorkQuiet
<1>2. CASE UNCHANGED vars
  BY <1>2, WorkQuiet DEF vars, threadVars, accountVars
<1> QED
  BY <1>1, <1>2, WorkReceives, WorkConsumer, WorkAccount DEF Next

\* What a service that has just started holds.
Fresh ==
    /\ pc = [t \in Threads |-> "idle"] /\ todo = [t \in Threads |-> << >>]
    /\ log = Seed /\ limit = SeedLimit

\* The seed is within its limits, and nothing is in flight.
LEMMA FreshCard == CardsOnly /\ Fresh => CardInv /\ OvershootBounded
<1> SUFFICES ASSUME CardsOnly, Fresh PROVE CardInv /\ OvershootBounded
  OBVIOUS
<1>1. \A t \in Threads : pc[t] = "idle" /\ todo[t] = << >> /\ ~ Appending(t)
  BY DEF Fresh, Appending
<1>2. WorkInv
  <2>1. \A c \in PaymentLoops : c \in Threads
    BY ThreadSets DEF PaymentLoops
  <2>2. \A t \in Threads : DOMAIN todo[t] = {}
    BY <1>1
  <2>3. \A a \in Accounts : limit[a] \in 0..MaxLimit(a)
    BY Maxima DEF Fresh
  <2> QED
    BY <1>1, <2>1, <2>2, <2>3 DEF WorkInv
<1>3. ASSUME NEW a \in Accounts, NEW i \in DOMAIN log PROVE OwedPart(log[i].event, a) \in Nat
  <2>1. i \in DOMAIN SeedEvents /\ log[i].event = SeedEvents[i]
    BY SeedType DEF Fresh
  <2>2. SeedEvents[i] \in EventType
    BY <2>1, StoresAssumption, ElementOfDomain
  <2>3. SeedEvents[i].type # "paymentApplied" /\ SeedEvents[i].amount >= 0
    BY <2>1 DEF CardsOnly
  <2>4. SeedEvents[i].amount \in Nat
    BY <2>2, <2>3 DEF EventType
  <2>5. OwedPart(SeedEvents[i], a) \in {0, SeedEvents[i].amount}
    BY <2>2, <2>3, PartsOfEvent
  <2> QED
    BY <2>1, <2>4, <2>5
<1>4. CardInv
  BY <1>1, <1>2, <1>3 DEF CardInv, OwesInv
<1>5. Events = SeedEvents
  <2>1. SeedEvents = [i \in 1..Len(Seed) |-> SeedEvents[i]]
    BY SeedType, StoresAssumption
  <2>2. Events = [i \in 1..Len(Seed) |-> Seed[i].event]
    BY SeedType DEF Fresh, Events
  <2> QED
    BY <2>1, <2>2, SeedType
<1>6. ASSUME NEW a \in Accounts
      PROVE  Owed(a) + InFlight(a) <= MaxLimit(a) + (Cardinality(Handlers) - 1) * MaxAmount
  <2>1. Unstored(a) = {}
    BY <1>1 DEF Unstored
  <2>2. InFlight(a) = 0
    BY <2>1, SumOfEmpty DEF InFlight
  <2>3. Owed(a) <= SeedLimit[a]
    BY <1>5 DEF Owed, CardsOnly
  <2>4. Owed(a) \in Int
    <3>1. TransactionBalance(Events, a) \in BalanceType
      BY <1>5, StoresAssumption, BalanceTyped
    <3> QED
      BY <3>1, IntHalfAssumption DEF Owed, BalanceType, ScalaInt
  <2>5. SeedLimit[a] \in 0..MaxLimit(a) /\ MaxLimit(a) \in Nat /\ Overshoot \in Nat
    BY Maxima
  <2>6. Owed(a) + InFlight(a) <= MaxLimit(a) + Overshoot
    BY <2>2, <2>3, <2>4, <2>5
  <2> QED
    BY <2>6 DEF Overshoot
<1> QED
  BY <1>4, <1>6 DEF OvershootBounded

\* CardsOnly is about constants.
LEMMA CardsOnlyNext == CardsOnly => CardsOnly'
BY DEF CardsOnly, MaxLimit, MaxAmount

\* Every step keeps the invariant and the bound.
LEMMA CardNext ==
    CardsOnly /\ Shape /\ Shape' /\ SumsFit /\ SumsFit' /\ CardInv /\ OvershootBounded /\ [Next]_vars
        => CardInv' /\ OvershootBounded'
<1> SUFFICES ASSUME CardsOnly, Shape, Shape', SumsFit, SumsFit', CardInv, OvershootBounded, [Next]_vars
             PROVE  CardInv' /\ OvershootBounded'
  OBVIOUS
<1>1. CASE Restart
  <2>1. Fresh'
    BY <1>1 DEF Restart, Fresh
  <2>2. CardsOnly' /\ Fresh' => CardInv' /\ OvershootBounded'
    BY FreshCard, PTL
  <2> QED
    BY <2>1, <2>2, CardsOnlyNext
<1>2. CASE ~ Restart
  <2>1. CardInv'
    BY <1>2, OwesNext, WorkNext DEF CardInv
  <2>2. TypeOK'
    BY DEF Shape
  <2>3. OvershootBounded'
    BY <1>2, <2>2, StepKinds, QuietBound, ReadBound, LinkBound
  <2> QED
    BY <2>1, <2>3
<1> QED
  BY <1>1, <1>2

\* OvershootBounded of the service, when card transactions are all it is asked
\* for and no sum wraps: with every interleaving of its handlers, for every
\* number of them, every limit and every restart, what an account owes exceeds
\* its largest limit by no more than one amount for each of the other handlers.
THEOREM OvershootBoundedHolds == Spec /\ CardsOnly /\ []SumsFit => []OvershootBounded
<1>1. Init /\ CardsOnly => CardInv /\ OvershootBounded
  BY FreshCard DEF Init, Fresh
<1> QED
  BY <1>1, CardNext, CardsOnlyNext, ShapeHolds, PTL DEF Spec
=============================================================================
