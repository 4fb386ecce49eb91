-------------------------- MODULE TransactionsProofs --------------------------
(* Theorems about Transactions, for any number of handlers, any requests    *)
(* and topics, any seed, and any number of lost offsets and restarts.       *)
EXTENDS Transactions, AggregateProofs

(***************************************************************************)
(* Part 1: types, and what threads hold while they work.                   *)
(***************************************************************************)

\* NoCell is a cell.
LEMMA NoCellType == NoCell \in CellType
<1>1. Len(SeedEvents) \in Nat \ {0} /\ SeedEvents \in Seq(EventType)
  BY StoresAssumption, EmptySeq
<1>2. SeedEvents[1] \in EventType
  BY <1>1, ElementOfSeq
<1> QED
  BY <1>2 DEF NoCell, CellType

\* The events of the buffer are events, one for each cell.
LEMMA EventsType == ASSUME TypeOK PROVE Events \in Seq(EventType) /\ DOMAIN Events = DOMAIN log
<1>1. log \in Seq(CellType)
  BY DEF TypeOK
<1>2. Len(log) \in Nat /\ DOMAIN log = 1..Len(log) /\ \A i \in DOMAIN log : log[i] \in CellType
  BY <1>1, LenProperties, ElementOfDomain
<1>3. \A i \in 1..Len(log) : log[i].event \in EventType
  BY <1>2 DEF CellType
<1> QED
  BY <1>2, <1>3, SeqDef DEF Events

\* The cells of the seed, numbered.
LEMMA SeedType == /\ Seed \in Seq(CellType) /\ Len(Seed) \in Nat \ {0}
                  /\ DOMAIN Seed = 1..Len(Seed) /\ DOMAIN SeedEvents = 1..Len(Seed)
                  /\ \A i \in DOMAIN Seed : Seed[i] = [id |-> i, event |-> SeedEvents[i]]
<1>1. /\ SeedEvents \in Seq(EventType) /\ Len(SeedEvents) \in Nat \ {0}
      /\ DOMAIN SeedEvents = 1..Len(SeedEvents)
      /\ \A i \in DOMAIN SeedEvents : SeedEvents[i] \in EventType
  BY StoresAssumption, LenProperties, ElementOfDomain, EmptySeq
<1>2. Seed = [i \in 1..Len(SeedEvents) |-> [id |-> i, event |-> SeedEvents[i]]]
  BY <1>1 DEF Seed
<1>3. Seed \in [1..Len(SeedEvents) -> CellType]
  BY <1>1, <1>2 DEF CellType
<1>4. Seed \in Seq(CellType)
  BY <1>1, <1>3, SeqDef
<1>5. DOMAIN Seed = 1..Len(Seed) /\ Len(Seed) \in Nat
  BY <1>4, LenProperties
<1>6. Len(Seed) = Len(SeedEvents)
  BY <1>1, <1>2, <1>5
<1> QED
  BY <1>1, <1>2, <1>4, <1>6

\* The command in hand of a thread at work.
LEMMA CommandInHand ==
    ASSUME TypeOK, ThreadInv, NEW t \in Threads, pc[t] \notin {"idle", "dead"}
    PROVE  /\ Command(t) \in CommandType
           /\ Command(t) = todo[t][1]
           /\ Command(t).kind \in KindsOf(t)
           /\ Len(todo[t]) \in Nat \ {0}
<1>1. todo[t] \in Seq(CommandType) /\ todo[t] # << >>
  BY DEF TypeOK, ThreadInv, ThreadOK
<1>2. Len(todo[t]) \in Nat \ {0} /\ DOMAIN todo[t] = 1..Len(todo[t])
  BY <1>1, EmptySeq, LenProperties
<1>3. Command(t) = todo[t][1] /\ Command(t) \in CommandType
  BY <1>1, HeadTailProperties, <1>2, ElementOfDomain DEF Command
<1> QED
  BY <1>2, <1>3 DEF ThreadInv, ThreadOK

\* Finish leaves the thread idle, or with the rest of its batch to read.
LEMMA FinishStep ==
    ASSUME TypeOK, ThreadInv, NEW t \in Threads, pc[t] \notin {"idle", "dead"}, Finish(t)
    PROVE  /\ pc' \in [Threads -> Steps] /\ todo' \in [Threads -> Seq(CommandType)]
           /\ cell' \in [Threads -> CellType] /\ tail' \in [Threads -> Nat]
           /\ \A u \in Threads \ {t} : /\ pc'[u] = pc[u] /\ todo'[u] = todo[u]
                                       /\ cell'[u] = cell[u] /\ tail'[u] = tail[u]
           /\ \/ pc'[t] = "idle" /\ todo'[t] = << >>
              \/ pc'[t] = "read" /\ todo'[t] # << >> /\ t \notin Consumers
           /\ \A i \in DOMAIN todo'[t] : todo'[t][i].kind \in KindsOf(t)
<1> DEFINE s == todo[t]
<1>1. s \in Seq(CommandType) /\ s # << >>
  BY DEF TypeOK, ThreadInv, ThreadOK
<1>2. Len(s) \in Nat \ {0} /\ DOMAIN s = 1..Len(s)
  BY <1>1, EmptySeq, LenProperties
<1>3. /\ Tail(s) \in Seq(CommandType) /\ Len(Tail(s)) = Len(s) - 1
      /\ \A i \in 1..Len(Tail(s)) : Tail(s)[i] = s[i+1]
  BY <1>1, HeadTailProperties
<1>4. DOMAIN Tail(s) = 1..(Len(s) - 1)
  BY <1>3, LenProperties
<1>5. \A i \in DOMAIN Tail(s) : Tail(s)[i].kind \in KindsOf(t)
  <2>1. \A i \in DOMAIN s : s[i].kind \in KindsOf(t)
    BY DEF ThreadInv, ThreadOK
  <2> QED
    BY <1>2, <1>3, <1>4, <2>1
<1>6. Tail(s) = << >> <=> Len(s) = 1
  <2>1. Len(<< >>) = 0 /\ (Tail(s) # << >> => Len(Tail(s)) \in Nat \ {0})
    BY <1>3, EmptySeq
  <2>2. Tail(s) = << >> => Len(Tail(s)) = 0
    BY <2>1, Zenon
  <2> HIDE DEF s
  <2> QED
    BY <1>2, <1>3, <2>1, <2>2
<1>7. todo' = [todo EXCEPT ![t] = Tail(s)]
  BY DEF Finish
<1>8. todo' \in [Threads -> Seq(CommandType)] /\ todo'[t] = Tail(s)
  BY <1>3, <1>7 DEF TypeOK
<1>9. /\ pc' \in [Threads -> Steps]
      /\ pc'[t] = IF Len(s) > 1 THEN "read" ELSE "idle"
  BY DEF Finish, TypeOK, Steps
<1>10. cell' \in [Threads -> CellType] /\ tail' \in [Threads -> Nat]
  BY NoCellType DEF Finish, TypeOK
<1>11. t \in Consumers => Len(s) <= 1
  BY DEF ThreadInv, ThreadOK
<1>12. \A u \in Threads \ {t} : /\ pc'[u] = pc[u] /\ todo'[u] = todo[u]
                                /\ cell'[u] = cell[u] /\ tail'[u] = tail[u]
  BY DEF Finish, TypeOK
<1>13. \/ pc'[t] = "idle" /\ todo'[t] = << >>
       \/ pc'[t] = "read" /\ todo'[t] # << >> /\ t \notin Consumers
  BY <1>2, <1>6, <1>8, <1>9, <1>11
<1> QED
  BY <1>5, <1>8, <1>9, <1>10, <1>12, <1>13

\* A step that changes only what thread t holds keeps ThreadInv if t is in
\* order afterwards.
LEMMA OneThread ==
    ASSUME TypeOK, ThreadInv, NEW t \in Threads,
           \A u \in Threads \ {t} : /\ pc'[u] = pc[u] /\ todo'[u] = todo[u]
                                    /\ cell'[u] = cell[u],
           allocated' \in Nat, allocated <= allocated',
           ThreadOK(t)', CellOK(t)'
    PROVE  ThreadInv'
<1> SUFFICES ASSUME NEW u \in Threads, u # t
             PROVE  ThreadOK(u)' /\ CellOK(u)'
  BY DEF ThreadInv
<1>1. ThreadOK(u) /\ CellOK(u)
  BY DEF ThreadInv
<1>2. pc'[u] = pc[u] /\ todo'[u] = todo[u] /\ cell'[u] = cell[u]
  OBVIOUS
<1>3. 1..allocated \subseteq 1..allocated'
  BY DEF TypeOK
<1> QED
  BY <1>1, <1>2, <1>3 DEF ThreadOK, CellOK, Command

\* The same for a step that ends with Finish(t).
LEMMA FinishKeeps ==
    ASSUME TypeOK, ThreadInv, NEW t \in Threads, pc[t] \notin {"idle", "dead"}, Finish(t),
           allocated' = allocated
    PROVE  ThreadInv'
<1>1. /\ \A u \in Threads \ {t} : /\ pc'[u] = pc[u] /\ todo'[u] = todo[u]
                                    /\ cell'[u] = cell[u] /\ tail'[u] = tail[u]
      /\ \/ pc'[t] = "idle" /\ todo'[t] = << >>
         \/ pc'[t] = "read" /\ todo'[t] # << >> /\ t \notin Consumers
      /\ \A i \in DOMAIN todo'[t] : todo'[t][i].kind \in KindsOf(t)
  BY FinishStep
<1>2. Len(<< >>) = 0
  BY EmptySeq
<1>3. ThreadOK(t)'
  <2>1. CASE pc'[t] = "idle" /\ todo'[t] = << >>
    BY <1>1, <1>2, <2>1 DEF ThreadOK
  <2>2. CASE pc'[t] = "read" /\ todo'[t] # << >> /\ t \notin Consumers
    BY <1>1, <2>2 DEF ThreadOK, Consumers
  <2> QED
    BY <1>1, <2>1, <2>2
<1>4. CellOK(t)'
  BY <1>1 DEF CellOK
<1>5. allocated \in Nat
  BY DEF TypeOK
<1> QED
  BY <1>1, <1>3, <1>4, <1>5, OneThread

\* Link leaves the list alone or puts the new cell right behind the cell
\* that the thread read as last0.
LEMMA LinkStep ==
    ASSUME TypeOK, NEW t \in Threads, Link(t)
    PROVE  \/ log' = log /\ \A i \in DOMAIN log : log[i].id # tail[t]
           \/ \E k \in DOMAIN log : /\ log[k].id = tail[t]
                                    /\ log' \in Seq(CellType)
                                    /\ Len(log') = k + 1
                                    /\ DOMAIN log' = 1..(k + 1)
                                    /\ log'[k + 1] = cell[t]
                                    /\ \A i \in 1..k : log'[i] = log[i]
<1> DEFINE I == {i \in 1..Len(log) : log[i].id = tail[t]}
           k == Position(tail[t])
<1>1. /\ log \in Seq(CellType) /\ cell[t] \in CellType
      /\ Len(log) \in Nat /\ DOMAIN log = 1..Len(log)
  BY LenProperties DEF TypeOK
<1>2. k = IF I # {} THEN Min(I) ELSE 0
  BY DEF Position, SelectInSeq
<1>3. CASE I = {}
  <2>1. log' = log
    BY <1>2, <1>3 DEF Link
  <2> QED
    BY <1>1, <1>3, <2>1
<1>4. CASE I # {}
  <2>1. k \in I
    <3>1. I \in SUBSET Nat
      BY <1>1
    <3>2. Min(I) \in I
      BY <1>4, <3>1, MinOfNats
    <3> QED
      BY <1>2, <1>4, <3>2, Zenon
  <2>2. k \in 1..Len(log) /\ log[k].id = tail[t]
    BY <2>1
  <2>3. log' = Append(SubSeq(log, 1, k), cell[t])
    BY <1>1, <2>2 DEF Link
  <2>4. \A i \in 1..k : log[i] \in CellType
    BY <1>1, <2>2, ElementOfDomain
  <2> HIDE DEF k
  <2>5. /\ SubSeq(log, 1, k) \in Seq(CellType)
        /\ Len(SubSeq(log, 1, k)) = k
        /\ \A i \in 1..k : SubSeq(log, 1, k)[i] = log[i]
    <3>1. k \in Int /\ 1 <= k /\ k - 1 + 1 = k
      BY <1>1, <2>2
    <3>2. /\ SubSeq(log, 1, k) \in Seq(CellType)
          /\ Len(SubSeq(log, 1, k)) = IF 1 <= k THEN k - 1 + 1 ELSE 0
          /\ \A i \in 1 .. k - 1 + 1 : SubSeq(log, 1, k)[i] = log[1 + i - 1]
      BY <2>4, <3>1, SubSeqProperties
    <3> QED
      BY <3>1, <3>2
  <2>6. /\ log' \in Seq(CellType)
        /\ DOMAIN log' = 1..(k + 1)
        /\ log'[k + 1] = cell[t]
        /\ \A i \in 1..k : log'[i] = SubSeq(log, 1, k)[i]
    BY <1>1, <2>3, <2>5, AppendedEvent
  <2>7. Len(log') = k + 1
    BY <1>1, <2>3, <2>5, AppendProperties
  <2> QED
    BY <1>1, <2>2, <2>5, <2>6, <2>7
<1> QED
  BY <1>3, <1>4

OffsetInv == \A c \in Consumers : offset[c] \in 0..Len(Topic[c])

Shape == TypeOK /\ ThreadInv /\ OffsetInv

\* The three facts about inputs that the actions need.
LEMMA ThreadSets == /\ Consumers \subseteq Threads /\ Handlers \subseteq Threads
                    /\ \A c \in Consumers : c \notin Handlers
                    /\ "limits" \in Consumers /\ "submitted" \in Consumers /\ "returned" \in Consumers
BY HandlersAssumption DEF Threads, Consumers

\* A request holds commands; a batch, only clearings.
LEMMA RequestType ==
    ASSUME NEW r \in Requests, r # << >>
    PROVE  /\ r \in Seq(CommandType) /\ r[1] \in CommandType
           /\ r[1].kind = "clear" => \A i \in DOMAIN r : r[i].kind = "clear"
<1>1. r \in Seq(CommandType)
  BY InputsAssumption
<1>2. Len(r) \in Nat \ {0}
  BY <1>1, EmptySeq
<1>3. r[1] \in CommandType
  BY <1>1, <1>2, ElementOfSeq
<1> QED
  BY <1>1, <1>3, InputsAssumption

\* A record of a topic is a command for its loop.
LEMMA RecordType ==
    ASSUME NEW c \in Consumers, NEW i \in 1..Len(Topic[c])
    PROVE  Topic[c][i] \in CommandType /\ Topic[c][i].kind \in KindsOf(c)
<1>1. Topic[c] \in Seq(CommandType)
  BY InputsAssumption
<1>2. DOMAIN Topic[c] = 1..Len(Topic[c]) /\ Topic[c][i] \in CommandType
  BY <1>1, LenProperties, ElementOfDomain
<1> QED
  BY <1>2, InputsAssumption, ThreadSets DEF Consumers, KindsOf

\* A thread that starts on commands of its kinds is in order.
LEMMA StartKeeps ==
    ASSUME Shape, NEW t \in Threads, NEW commands \in Seq(CommandType), commands # << >>,
           NEW step \in {"read", "remove"}, Start(t, commands, step),
           \A i \in DOMAIN commands : commands[i].kind \in KindsOf(t),
           t \in Consumers => Len(commands) <= 1,
           t = "limits" <=> step = "remove",
           allocated' = allocated
    PROVE  /\ pc' \in [Threads -> Steps] /\ todo' \in [Threads -> Seq(CommandType)]
           /\ ThreadInv'
<1>1. /\ pc' \in [Threads -> Steps] /\ todo' \in [Threads -> Seq(CommandType)]
      /\ pc'[t] = step /\ todo'[t] = commands /\ cell' = cell
      /\ \A u \in Threads \ {t} : pc'[u] = pc[u] /\ todo'[u] = todo[u]
  BY DEF Shape, TypeOK, Start, Steps
<1>2. ThreadOK(t)' /\ CellOK(t)'
  BY <1>1 DEF ThreadOK, CellOK
<1>3. allocated \in Nat
  BY DEF Shape, TypeOK
<1> QED
  BY <1>1, <1>2, <1>3, OneThread DEF Shape

\* Requests arrive.
LEMMA ReceiveShape ==
    ASSUME Shape, NEW h \in Handlers,
           ReceiveAuthorize(h) \/ RefuseAuthorize(h) \/ ReceiveClear(h)
    PROVE  Shape'
<1>1. h \in Threads /\ h \notin Consumers /\ h # "limits" /\ KindsOf(h) = {"authorize", "clear"}
  BY ThreadSets DEF KindsOf
<1>r. Receive(h)
  BY DEF ReceiveAuthorize, RefuseAuthorize, ReceiveClear
<1>n. requests' = requests + 1 /\ requests \in Nat
  BY <1>r DEF Receive, Shape, TypeOK
<1>2. /\ log' = log /\ last0' = last0 /\ allocated' = allocated
      /\ limit' = limit /\ present' = present /\ offset' = offset /\ published' = published
      /\ stored' = stored /\ raced' = raced /\ unsent' = unsent /\ dropped' = dropped
      /\ requests' \in Nat /\ resets' = resets /\ crashes' = crashes
  BY <1>r, <1>n DEF Receive, storeVars, accountVars, brokerVars, historyVars
<1>3. CASE RefuseAuthorize(h)
  <2>1. UNCHANGED threadVars
    BY <1>3 DEF RefuseAuthorize
  <2> QED
    BY <1>2, <2>1 DEF threadVars, Shape, TypeOK, ThreadInv, ThreadOK, CellOK, Command, OffsetInv
<1>4. CASE ReceiveAuthorize(h)
  <2>1. PICK r \in Requests : /\ r # << >> /\ r[1].kind = "authorize" /\ r[1].account \in present
                              /\ Start(h, << [r[1] EXCEPT !.limit = limit[r[1].account]] >>, "read")
    BY <1>4 DEF ReceiveAuthorize
  <2> DEFINE command == [r[1] EXCEPT !.limit = limit[r[1].account]]
  <2>2. r[1] \in CommandType
    BY <2>1, RequestType
  <2>3. limit[r[1].account] \in Int
    BY <2>1 DEF Shape, TypeOK
  <2>4. command \in CommandType /\ command.kind = "authorize"
    BY <2>1, <2>2, <2>3 DEF CommandType
  <2> HIDE DEF command
  <2>5. <<command>> \in Seq(CommandType) /\ <<command>> # << >> /\ Len(<<command>>) = 1
        /\ \A i \in DOMAIN <<command>> : <<command>>[i].kind \in KindsOf(h)
    BY <1>1, <2>4
  <2>6. Start(h, <<command>>, "read")
    BY <2>1 DEF command
  <2>7. ThreadInv' /\ pc' \in [Threads -> Steps] /\ todo' \in [Threads -> Seq(CommandType)]
    BY <1>1, <1>2, <2>5, <2>6, StartKeeps
  <2> QED
    BY <1>2, <2>6, <2>7 DEF Start, Shape, TypeOK, OffsetInv
<1>5. CASE ReceiveClear(h)
  <2>1. PICK r \in Requests : r # << >> /\ r[1].kind = "clear" /\ Start(h, r, "read")
    BY <1>5 DEF ReceiveClear
  <2>2. r \in Seq(CommandType) /\ \A i \in DOMAIN r : r[i].kind \in KindsOf(h)
    BY <1>1, <2>1, RequestType
  <2>3. ThreadInv' /\ pc' \in [Threads -> Steps] /\ todo' \in [Threads -> Seq(CommandType)]
    BY <1>1, <1>2, <2>1, <2>2, StartKeeps
  <2> QED
    BY <1>2, <2>1, <2>3 DEF Start, Shape, TypeOK, OffsetInv
<1> QED
  BY <1>3, <1>4, <1>5

\* A thread takes its next step on the event store.
LEMMA ExecuteShape ==
    ASSUME Shape, NEW t \in Threads, Execute(t)
    PROVE  Shape'
<1>1. TypeOK /\ ThreadInv /\ allocated \in Nat
  BY DEF Shape, TypeOK
<1>2. /\ limit' = limit /\ present' = present /\ offset' = offset
      /\ requests' = requests /\ resets' = resets /\ crashes' = crashes
  BY DEF Execute, ReadAccepted, ReadRejected, ReadFails, BeginAppend, Link, EndAppend,
         Publish, PublishFails, accountVars, brokerVars, boundVars, storeVars
<1>3. pc[t] \in {"read", "append", "link", "last", "publish"}
  BY DEF Execute, ReadAccepted, ReadRejected, ReadFails, BeginAppend, Link, EndAppend,
         Publish, PublishFails
<1>4. /\ Command(t) \in CommandType /\ t # "limits"
      /\ Command(t).kind \in KindsOf(t) /\ cell[t] \in CellType
  BY <1>1, <1>3, CommandInHand DEF ThreadInv, ThreadOK, TypeOK
<1>5. ASSUME ThreadInv', pc' \in [Threads -> Steps], todo' \in [Threads -> Seq(CommandType)],
             cell' \in [Threads -> CellType], tail' \in [Threads -> Nat],
             log' \in Seq(CellType), last0' \in Nat, allocated' \in Nat,
             published' \subseteq CellType, stored' \subseteq CellType,
             raced' \in BOOLEAN, unsent' \subseteq CellType, dropped' \subseteq Consumers \X Nat
      PROVE  Shape'
  BY <1>1, <1>2, <1>5 DEF Shape, TypeOK, OffsetInv
<1>6. CASE ReadAccepted(t)
  <2>1. /\ ResultOf(Command(t), Events) \in EventType
        /\ ResultOf(Command(t), Events).type = TypeFor[Command(t).kind]
        /\ ResultOf(Command(t), Events).account = Command(t).account
        /\ ResultOf(Command(t), Events).ref = Command(t).ref
    <3>1. Command(t).kind # "limitUpdated"
      BY <1>4 DEF KindsOf, Threads, Consumers
    <3>2. Accepts(Command(t), Events) /\ Events \in Seq(EventType)
      BY <1>1, <1>6, EventsType DEF ReadAccepted
    <3> QED
      BY <1>4, <3>1, <3>2, ResultOfCommand
  <2> DEFINE c == [id |-> allocated + 1, event |-> ResultOf(Command(t), Events)]
  <2>2. c \in CellType
    BY <1>1, <2>1 DEF CellType
  <2>3. /\ pc' = [pc EXCEPT ![t] = "append"] /\ cell' = [cell EXCEPT ![t] = c]
        /\ todo' = todo /\ tail' = tail /\ allocated' = allocated + 1
        /\ log' = log /\ last0' = last0 /\ published' = published
        /\ stored' = stored /\ raced' = raced /\ unsent' = unsent /\ dropped' = dropped
    BY <1>6 DEF ReadAccepted, brokerVars, historyVars
  <2>4. pc' \in [Threads -> Steps] /\ cell' \in [Threads -> CellType]
    BY <1>1, <2>2, <2>3 DEF TypeOK, Steps
  <2>5. /\ pc'[t] = "append" /\ cell'[t] = c
        /\ \A u \in Threads \ {t} : pc'[u] = pc[u] /\ cell'[u] = cell[u]
    BY <1>1, <2>3 DEF TypeOK
  <2>6. ThreadOK(t)'
    BY <1>1, <1>3, <1>4, <2>3, <2>5 DEF ThreadInv, ThreadOK
  <2>7. CellOK(t)'
    BY <1>1, <2>1, <2>3, <2>5 DEF CellOK, Command
  <2>8. ThreadInv'
    BY <1>1, <2>3, <2>5, <2>6, <2>7, OneThread
  <2> QED
    BY <1>1, <1>5, <2>3, <2>4, <2>8 DEF TypeOK
<1>7. CASE Finish(t) /\ UNCHANGED <<log, allocated>> /\ (last0' = last0 \/ last0' = cell[t].id)
           /\ published' \subseteq published \cup {cell[t]}
           /\ stored' \subseteq stored \cup {cell[t]}
           /\ unsent' \subseteq unsent \cup {cell[t]} /\ raced' = raced
           /\ dropped' \subseteq Consumers \X Nat
  <2>1. ThreadInv'
    BY <1>1, <1>3, <1>7, FinishKeeps
  <2>2. /\ pc' \in [Threads -> Steps] /\ todo' \in [Threads -> Seq(CommandType)]
        /\ cell' \in [Threads -> CellType] /\ tail' \in [Threads -> Nat]
    BY <1>1, <1>3, <1>7, FinishStep
  <2>3. cell[t].id \in Nat
    BY <1>4 DEF CellType
  <2> QED
    BY <1>1, <1>4, <1>5, <1>7, <2>1, <2>2, <2>3 DEF TypeOK
<1>8. CASE /\ pc' = [pc EXCEPT ![t] = pc'[t]]
           /\ pc[t] \in {"append", "link", "last"} /\ pc'[t] \in {"link", "last", "publish"}
           /\ UNCHANGED <<todo, cell, allocated, published, unsent, dropped>>
           /\ tail' \in [Threads -> Nat] /\ log' \in Seq(CellType)
           /\ (last0' = last0 \/ last0' = cell[t].id)
           /\ stored' \subseteq stored \cup {cell[t]} /\ raced' \in BOOLEAN
  <2>1. pc' \in [Threads -> Steps] /\ \A u \in Threads \ {t} : pc'[u] = pc[u]
    BY <1>1, <1>8 DEF TypeOK, Steps
  <2>2. ThreadOK(t)' /\ CellOK(t)'
    BY <1>1, <1>4, <1>8 DEF ThreadInv, ThreadOK, CellOK, Command
  <2>3. ThreadInv'
    BY <1>1, <1>8, <2>1, <2>2, OneThread
  <2>4. cell[t].id \in Nat
    BY <1>4 DEF CellType
  <2> QED
    BY <1>1, <1>4, <1>5, <1>8, <2>1, <2>3, <2>4 DEF TypeOK
<1>9. CASE ReadRejected(t) \/ ReadFails(t) \/ Publish(t) \/ PublishFails(t)
  <2>1. dropped' \subseteq Consumers \X Nat
    <3>1. dropped \subseteq Consumers \X Nat /\ offset \in [Consumers -> Nat]
      BY <1>1 DEF TypeOK
    <3>2. dropped' = dropped \/ (t \in Consumers /\ dropped' = dropped \cup {<<t, offset[t]>>})
      BY <1>9 DEF ReadRejected, ReadFails, Publish, PublishFails, historyVars
    <3> QED
      BY <3>1, <3>2
  <2> QED
    BY <1>7, <1>9, <2>1 DEF ReadRejected, ReadFails, Publish, PublishFails, storeVars, brokerVars, historyVars
<1>10. CASE BeginAppend(t)
  <2>1. tail' \in [Threads -> Nat] /\ raced' \in BOOLEAN /\ pc'[t] = "link"
    BY <1>1, <1>10 DEF BeginAppend, TypeOK
  <2> QED
    BY <1>1, <1>8, <1>10, <2>1 DEF BeginAppend, storeVars, brokerVars, TypeOK
<1>11. CASE Link(t)
  <2>1. log' \in Seq(CellType)
    BY <1>1, <1>11, LinkStep DEF TypeOK
  <2>2. pc'[t] = "last"
    BY <1>1, <1>11 DEF Link, TypeOK
  <2> QED
    BY <1>1, <1>8, <1>11, <2>1, <2>2 DEF Link, brokerVars, historyVars, TypeOK
<1>12. CASE EndAppend(t)
  <2>1. CASE Command(t).kind = "authorize"
    <3>1. pc'[t] = "publish"
      BY <1>1, <1>12, <2>1 DEF EndAppend, TypeOK
    <3> QED
      BY <1>1, <1>8, <1>12, <2>1, <3>1 DEF EndAppend, brokerVars, TypeOK
  <2>2. CASE Command(t).kind # "authorize"
    BY <1>1, <1>7, <1>12, <2>2 DEF EndAppend, brokerVars, TypeOK
  <2> QED
    BY <2>1, <2>2
<1> QED
  BY <1>6, <1>9, <1>10, <1>11, <1>12 DEF Execute

\* A consumer loop takes a record, dies, or loses its offset.
LEMMA ConsumerShape ==
    ASSUME Shape, NEW c \in Consumers, Take(c) \/ TakeFails(c) \/ ResetOffset(c)
    PROVE  Shape'
<1>1. /\ c \in Threads /\ c \in {"submitted", "returned", "limits"}
      /\ c \notin Handlers /\ TypeOK /\ ThreadInv
      /\ Len(Topic[c]) \in Nat
      /\ offset[c] \in 0..Len(Topic[c])
  <2>1. Topic[c] \in Seq(CommandType)
    BY InputsAssumption
  <2> QED
    BY <2>1, ThreadSets, LenProperties DEF Consumers, Shape, OffsetInv
<1>2. CASE Take(c)
  <2> DEFINE p == Topic[c][offset[c] + 1]
             step == IF c = "limits" THEN "remove" ELSE "read"
  <2>1. offset[c] + 1 \in 1..Len(Topic[c])
    BY <1>1, <1>2 DEF Take
  <2>2. p \in CommandType /\ p.kind \in KindsOf(c)
    BY <2>1, RecordType
  <2>3. Start(c, <<p>>, step) /\ step \in {"read", "remove"} /\ (c = "limits" <=> step = "remove")
    BY <1>2 DEF Take
  <2>4. /\ log' = log /\ last0' = last0 /\ allocated' = allocated
        /\ limit' = limit /\ present' = present /\ published' = published
        /\ stored' = stored /\ raced' = raced /\ unsent' = unsent /\ dropped' \subseteq dropped
        /\ requests' = requests /\ resets' = resets /\ crashes' = crashes
        /\ offset' = [offset EXCEPT ![c] = offset[c] + 1]
    BY <1>2 DEF Take, storeVars, accountVars, boundVars
  <2> HIDE DEF p, step
  <2> DEFINE s == <<p>>
  <2>5. /\ s \in Seq(CommandType) /\ s # << >> /\ Len(s) <= 1
        /\ \A i \in DOMAIN s : s[i].kind \in KindsOf(c)
        /\ Start(c, s, step)
    BY <2>2, <2>3
  <2> HIDE DEF s
  <2>6. ThreadInv' /\ pc' \in [Threads -> Steps] /\ todo' \in [Threads -> Seq(CommandType)]
    BY <1>1, <2>3, <2>4, <2>5, StartKeeps
  <2>7. cell' = cell /\ tail' = tail
    BY <2>3 DEF Start
  <2>8. TypeOK'
    BY <1>1, <2>4, <2>6, <2>7 DEF TypeOK
  <2>9. OffsetInv'
    BY <1>1, <2>1, <2>4 DEF Shape, OffsetInv, TypeOK
  <2> QED
    BY <2>6, <2>8, <2>9 DEF Shape
<1>3. CASE TakeFails(c)
  <2>1. /\ log' = log /\ last0' = last0 /\ allocated' = allocated
        /\ limit' = limit /\ present' = present /\ published' = published
        /\ stored' = stored /\ raced' = raced /\ unsent' = unsent
        /\ \/ offset' = offset /\ dropped' = dropped
           \/ /\ offset' = [offset EXCEPT ![c] = offset[c] + 1]
              /\ dropped' = dropped \cup {<<c, offset[c] + 1>>}
        /\ offset[c] < Len(Topic[c])
        /\ requests' = requests /\ resets' = resets /\ crashes' = crashes
        /\ todo' = todo /\ cell' = cell /\ tail' = tail
        /\ pc[c] = "idle" /\ pc' = [pc EXCEPT ![c] = "dead"]
    BY <1>3 DEF TakeFails, storeVars, accountVars, boundVars
  <2>2. pc' \in [Threads -> Steps] /\ pc'[c] = "dead" /\ \A u \in Threads \ {c} : pc'[u] = pc[u]
    BY <1>1, <2>1 DEF TypeOK, Steps
  <2>3. ThreadOK(c)' /\ CellOK(c)'
    BY <1>1, <2>1, <2>2 DEF ThreadInv, ThreadOK, CellOK
  <2>4. allocated \in Nat
    BY <1>1 DEF TypeOK
  <2>5. ThreadInv'
    BY <1>1, <2>1, <2>2, <2>3, <2>4, OneThread
  <2>6. offset' \in [Consumers -> Nat] /\ dropped' \subseteq Consumers \X Nat
    <3>1. offset[c] \in Nat /\ offset[c] + 1 \in Nat
      BY <1>1
    <3> QED
      BY <1>1, <2>1, <3>1 DEF TypeOK
  <2>7. TypeOK'
    BY <1>1, <2>1, <2>2, <2>6 DEF TypeOK
  <2>8. OffsetInv'
    BY <1>1, <2>1 DEF Shape, OffsetInv, TypeOK
  <2> QED
    BY <2>5, <2>7, <2>8 DEF Shape
<1>4. CASE ResetOffset(c)
  <2>1. /\ log' = log /\ last0' = last0 /\ allocated' = allocated
        /\ limit' = limit /\ present' = present /\ published' = published
        /\ stored' = stored /\ raced' = raced /\ unsent' = unsent /\ dropped' = dropped
        /\ requests' = requests /\ resets' = resets + 1 /\ crashes' = crashes
        /\ pc' = pc /\ todo' = todo /\ cell' = cell /\ tail' = tail
        /\ offset' = [offset EXCEPT ![c] = 0]
    BY <1>4 DEF ResetOffset, storeVars, accountVars, threadVars, historyVars
  <2>2. ThreadInv'
    BY <1>1, <2>1 DEF ThreadInv, ThreadOK, CellOK, Command
  <2>3. TypeOK'
    BY <1>1, <2>1 DEF TypeOK
  <2>4. OffsetInv'
    BY <1>1, <2>1 DEF Shape, OffsetInv, TypeOK
  <2> QED
    BY <2>2, <2>3, <2>4 DEF Shape
<1> QED
  BY <1>2, <1>3, <1>4

\* The account store is updated.
LEMMA AccountShape ==
    ASSUME Shape, RemoveAccount \/ RestoreAccount
    PROVE  Shape'
<1> DEFINE t == "limits"
<1>1. /\ t \in Threads /\ TypeOK /\ ThreadInv /\ allocated \in Nat
      /\ pc[t] \in {"remove", "restore"}
  BY ThreadSets DEF Shape, TypeOK, RemoveAccount, RestoreAccount
<1>2. /\ log' = log /\ last0' = last0 /\ allocated' = allocated /\ offset' = offset
      /\ published' = published /\ stored' = stored /\ raced' = raced /\ unsent' = unsent /\ dropped' = dropped
      /\ requests' = requests /\ resets' = resets /\ crashes' = crashes
  BY DEF RemoveAccount, RestoreAccount, storeVars, brokerVars, historyVars, boundVars
<1>3. Command(t) \in CommandType
  BY <1>1, CommandInHand
<1>4. CASE RemoveAccount /\ Command(t).account \in present
  <2>1. /\ pc' = [pc EXCEPT ![t] = "restore"] /\ todo' = todo /\ cell' = cell /\ tail' = tail
        /\ present' = present \ {Command(t).account} /\ limit' = limit
    BY <1>4 DEF RemoveAccount
  <2>2. pc' \in [Threads -> Steps] /\ pc'[t] = "restore" /\ \A u \in Threads \ {t} : pc'[u] = pc[u]
    BY <1>1, <2>1 DEF TypeOK, Steps
  <2>3. Command(t).account \in Accounts
    BY <1>1, <1>4 DEF TypeOK
  <2>4. ThreadOK(t)' /\ CellOK(t)'
    BY <1>1, <2>1, <2>2, <2>3 DEF ThreadInv, ThreadOK, CellOK, Command
  <2>5. ThreadInv'
    BY <1>1, <1>2, <2>1, <2>2, <2>4, OneThread
  <2> QED
    BY <1>1, <1>2, <2>1, <2>2, <2>5 DEF Shape, TypeOK, OffsetInv
<1>5. CASE Finish(t) /\ present' \subseteq Accounts /\ limit' \in [Accounts -> Int]
  <2>1. ThreadInv'
    BY <1>1, <1>2, <1>5, FinishKeeps
  <2>2. /\ pc' \in [Threads -> Steps] /\ todo' \in [Threads -> Seq(CommandType)]
        /\ cell' \in [Threads -> CellType] /\ tail' \in [Threads -> Nat]
    BY <1>1, <1>5, FinishStep
  <2> QED
    BY <1>1, <1>2, <1>5, <2>1, <2>2 DEF Shape, TypeOK, OffsetInv
<1>6. CASE RemoveAccount /\ Command(t).account \notin present
  BY <1>1, <1>5, <1>6 DEF RemoveAccount, TypeOK
<1>7. CASE RestoreAccount
  <2>1. Command(t).account \in Accounts
    BY <1>1, <1>7 DEF RestoreAccount, ThreadInv, ThreadOK
  <2>2. Command(t).amount \in Int
    BY <1>3 DEF CommandType
  <2>3. present' \subseteq Accounts /\ limit' \in [Accounts -> Int]
    BY <1>1, <1>7, <2>1, <2>2 DEF RestoreAccount, TypeOK
  <2> QED
    BY <1>5, <1>7, <2>3 DEF RestoreAccount
<1> QED
  BY <1>4, <1>6, <1>7

\* Starting, the first time and again.
LEMMA InitShape == Init => Shape
<1> SUFFICES ASSUME Init PROVE Shape
  OBVIOUS
<1>1. Len(<< >>) = 0 /\ << >> \in Seq(CommandType)
  BY EmptySeq
<1>2. TypeOK
  BY <1>1, NoCellType, SeedType, StoresAssumption DEF Init, TypeOK, Steps
<1>3. ThreadInv
  <2> SUFFICES ASSUME NEW t \in Threads PROVE ThreadOK(t) /\ CellOK(t)
    BY DEF ThreadInv
  <2>1. pc[t] = "idle" /\ todo[t] = << >>
    BY DEF Init
  <2> QED
    BY <1>1, <2>1 DEF ThreadOK, CellOK
<1>4. OffsetInv
  <2> SUFFICES ASSUME NEW c \in Consumers PROVE offset[c] \in 0..Len(Topic[c])
    BY DEF OffsetInv
  <2>1. Len(Topic[c]) \in Nat
    BY InputsAssumption, LenProperties
  <2> QED
    BY <2>1 DEF Init
<1> QED
  BY <1>2, <1>3, <1>4 DEF Shape

\* A restart brings the shape back.
LEMMA RestartShape == ASSUME Shape, Restart PROVE Shape'
<1>1. Len(<< >>) = 0 /\ << >> \in Seq(CommandType)
  BY EmptySeq
<1>2. /\ offset' = offset /\ allocated' = allocated /\ published' = published
      /\ requests' = requests /\ resets' = resets /\ crashes' = crashes + 1
  BY DEF Restart, brokerVars
<1>3. TypeOK'
  <2>1. /\ pc' = [t \in Threads |-> "idle"] /\ todo' = [t \in Threads |-> << >>]
        /\ cell' = [t \in Threads |-> NoCell] /\ tail' = [t \in Threads |-> 0]
        /\ log' = Seed /\ last0' = Len(Seed) /\ limit' = SeedLimit /\ present' = Accounts
        /\ stored' = {} /\ raced' = FALSE /\ unsent' = {}
        /\ dropped' = UNION {{c} \X (1..offset[c]) : c \in Consumers}
    BY DEF Restart
  <2>2. /\ pc' \in [Threads -> Steps] /\ todo' \in [Threads -> Seq(CommandType)]
        /\ cell' \in [Threads -> CellType] /\ tail' \in [Threads -> Nat]
    BY <1>1, <2>1, NoCellType DEF Steps
  <2>3. log' \in Seq(CellType) /\ last0' \in Nat
    BY <2>1, SeedType
  <2>4. limit' \in [Accounts -> Int] /\ present' \subseteq Accounts
    BY <2>1, StoresAssumption
  <2>5. /\ allocated \in Nat /\ offset \in [Consumers -> Nat] /\ published \subseteq CellType
        /\ requests \in Nat /\ resets \in Nat /\ crashes \in Nat
    BY DEF Shape, TypeOK
  <2>6. crashes' \in Nat
    BY <1>2, <2>5
  <2>7. raced' \in BOOLEAN /\ stored' \subseteq CellType /\ unsent' \subseteq CellType
    BY <2>1, Zenon
  <2>8. dropped' \subseteq Consumers \X Nat
    <3>1. \A c \in Consumers : 1..offset[c] \subseteq Nat
      BY <2>5
    <3> QED
      BY <2>1, <3>1
  <2> QED
    BY <1>2, <2>2, <2>3, <2>4, <2>5, <2>6, <2>7, <2>8, Zenon DEF TypeOK
<1>4. ThreadInv'
  <2> SUFFICES ASSUME NEW t \in Threads PROVE ThreadOK(t)' /\ CellOK(t)'
    BY DEF ThreadInv
  <2>1. pc'[t] = "idle" /\ todo'[t] = << >>
    BY DEF Restart
  <2> QED
    BY <1>1, <2>1 DEF ThreadOK, CellOK
<1>5. OffsetInv'
  BY <1>2 DEF Shape, OffsetInv
<1> QED
  BY <1>3, <1>4, <1>5 DEF Shape

\* Every step keeps the shape.
LEMMA NextShape == Shape /\ [Next]_vars => Shape'
<1> SUFFICES ASSUME Shape, [Next]_vars PROVE Shape'
  OBVIOUS
<1>1. CASE UNCHANGED vars
  BY <1>1 DEF vars, threadVars, storeVars, accountVars, brokerVars, historyVars, boundVars,
             Shape, TypeOK, OffsetInv, ThreadInv, ThreadOK, CellOK, Command
<1> QED
  BY <1>1, ReceiveShape, ExecuteShape, ConsumerShape, AccountShape, RestartShape DEF Next

\* Threads, buffers and offsets have the shapes the code gives them, and a
\* thread holds commands exactly while it works.
THEOREM ShapeHolds == Spec => []Shape
BY InitShape, NextShape, PTL DEF Spec

\* The variables of the service keep their types, through restarts too.
THEOREM TypeCorrect == Spec => []TypeOK
<1>1. Shape => TypeOK
  BY DEF Shape
<1> QED
  BY <1>1, ShapeHolds, PTL
=============================================================================
