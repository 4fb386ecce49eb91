--------------------- MODULE TransactionsRefinementProofs ---------------------
(* Transactions implements Ledger while one thread at a time is at work, for *)
(* any number of handlers, any requests and topics, and any seed.            *)
EXTENDS TransactionsRefinement, TransactionsSafetyProofs

(***************************************************************************)
(* Part 1: Ledger's operators are those of TransactionAggregate.           *)
(***************************************************************************)

\* Both instances of the aggregate project alike.
LEMMA SameBalance ==
    ASSUME NEW es, NEW a
    PROVE  L!TransactionBalance(es, a) = TransactionBalance(es, a)
<1>1. L!NoBalance = NoBalance
  BY DEF L!NoBalance, NoBalance
<1>2. \A n : L!Wrap(n) = Wrap(n)
  BY DEF L!Wrap, Wrap
<1>3. \A state, e : L!ApplyEvent(state, e) = ApplyEvent(state, e)
  BY <1>2 DEF L!ApplyEvent, ApplyEvent
<1> QED
  BY <1>1, <1>3 DEF L!TransactionBalance, TransactionBalance, L!FoldLeft, FoldLeft,
                    L!MapThenFoldSet, MapThenFoldSet, L!Max, Max

\* Both instances of the aggregate accept alike.
LEMMA SameAccepts ==
    ASSUME NEW c, NEW es
    PROVE  L!Accepts(c, es) <=> Accepts(c, es)
BY DEF L!Accepts, Accepts, L!TypeFor, TypeFor, L!Recorded, Recorded, L!HasEvents, HasEvents

\* Both instances of the aggregate decide alike.
LEMMA SameResult ==
    ASSUME NEW c, NEW es
    PROVE  L!ResultOf(c, es) = ResultOf(c, es)
<1>1. \A t, a, r, n, o : L!Event(t, a, r, n, o) = Event(t, a, r, n, o)
  BY DEF L!Event, Event
<1>2. L!ProcessAuthorization(c, es) = ProcessAuthorization(c, es)
  <2>1. L!TransactionBalance(es, c.account) = TransactionBalance(es, c.account)
    BY SameBalance
  <2>2. \A n : L!Wrap(n) = Wrap(n)
    BY DEF L!Wrap, Wrap
  <2>3. \A s : L!Decision(c, s) = Decision(c, s)
    BY <2>2 DEF L!Decision, Decision, L!RequestedBalance, RequestedBalance
  <2> QED
    BY <1>1, <2>1, <2>3 DEF L!ProcessAuthorization, ProcessAuthorization
<1>3. L!ClearTransaction(c, es) = ClearTransaction(c, es)
  <2>1. L!AuthedTransaction(es, c) = AuthedTransaction(es, c)
    BY DEF L!AuthedTransaction, AuthedTransaction, L!SelectInSeq, SelectInSeq, L!Min, Min
  <2> QED
    BY <1>1, <2>1 DEF L!ClearTransaction, ClearTransaction, L!SettlementCode, SettlementCode
<1>4. /\ L!ApplyPayment(c, es) = ApplyPayment(c, es)
      /\ L!ApplyReturnedPayment(c, es) = ApplyReturnedPayment(c, es)
  BY <1>1 DEF L!ApplyPayment, ApplyPayment, L!ApplyReturnedPayment, ApplyReturnedPayment
<1> QED
  BY <1>2, <1>3, <1>4 DEF L!ResultOf, ResultOf

(***************************************************************************)
(* Part 2: what the one thread at work holds.                              *)
(***************************************************************************)

\* A command that clients or producers sent; an authorization comes with the
\* limit that is still in force.
Sent(c) ==
    IF c.kind = "authorize"
      THEN \E r \in AllCommands : /\ r.kind = "authorize" /\ r.account \in Accounts
                                  /\ c = [r EXCEPT !.limit = limit[r.account]]
      ELSE c \in AllCommands

HandInv == \A t \in Threads : \A i \in DOMAIN todo[t] : Sent(todo[t][i])

\* What is being appended is still what the aggregate would decide.
DecidedInv ==
    \A t \in Threads : Appending(t) => /\ Accepts(Command(t), Events)
                                       /\ cell[t].event = ResultOf(Command(t), Events)

SeqInv == OneAtWork /\ ~ raced /\ HandInv /\ DecidedInv

\* A thread gets commands that were sent, and finishes them from the first on.
LEMMA HandKeeps ==
    ASSUME HandInv, limit' = limit,
           \A t \in Threads : \A i \in DOMAIN todo'[t] :
              Sent(todo'[t][i]) \/ \E j \in DOMAIN todo[t] : todo'[t][i] = todo[t][j]
    PROVE  HandInv'
<1>1. \A c : Sent(c) =>
         IF c.kind = "authorize"
           THEN \E r \in AllCommands : /\ r.kind = "authorize" /\ r.account \in Accounts
                                       /\ c = [r EXCEPT !.limit = limit'[r.account]]
           ELSE c \in AllCommands
  BY DEF Sent
<1>2. \A t \in Threads : \A i \in DOMAIN todo'[t] : Sent(todo'[t][i])
  BY DEF HandInv
<1>3. SUFFICES ASSUME NEW t \in Threads, NEW i \in DOMAIN todo'[t]
               PROVE  Sent(todo[t][i])'
  BY DEF HandInv
<1> DEFINE c == todo'[t][i]
<1>4. Sent(c)
  BY <1>2
<1> HIDE DEF c
<1>5. IF c.kind = "authorize"
        THEN \E r \in AllCommands : /\ r.kind = "authorize" /\ r.account \in Accounts
                                    /\ c = [r EXCEPT !.limit = limit'[r.account]]
        ELSE c \in AllCommands
  BY <1>1, <1>4
<1> QED
  BY <1>5 DEF Sent, c

\* A thread that finishes has in hand what it was sent.
LEMMA FinishHand ==
    ASSUME Shape, HandInv, NEW t \in Threads, Working(t), Finish(t), limit' = limit
    PROVE  HandInv'
<1>1. todo[t] \in Seq(CommandType) /\ todo[t] # << >> /\ TypeOK /\ ThreadInv
  BY DEF Shape, TypeOK, ThreadInv, ThreadOK, Working
<1>2. todo'[t] = Tail(todo[t]) /\ \A u \in Threads \ {t} : todo'[u] = todo[u]
  BY <1>1 DEF Finish, TypeOK
<1>3. /\ Tail(todo[t]) \in Seq(CommandType) /\ Len(Tail(todo[t])) = Len(todo[t]) - 1
      /\ \A i \in 1..Len(Tail(todo[t])) : Tail(todo[t])[i] = todo[t][i + 1]
  BY <1>1, HeadTailProperties
<1>4. /\ DOMAIN todo[t] = 1..Len(todo[t]) /\ DOMAIN Tail(todo[t]) = 1..(Len(todo[t]) - 1)
      /\ Len(todo[t]) \in Nat
  BY <1>1, <1>3, LenProperties
<1>5. \A i \in DOMAIN todo'[t] : \E j \in DOMAIN todo[t] : todo'[t][i] = todo[t][j]
  <2> SUFFICES ASSUME NEW i \in 1..(Len(todo[t]) - 1)
               PROVE  \E j \in 1..Len(todo[t]) : Tail(todo[t])[i] = todo[t][j]
    BY <1>2, <1>4
  <2>1. i + 1 \in 1..Len(todo[t]) /\ i \in 1..Len(Tail(todo[t]))
    BY <1>3, <1>4
  <2> QED
    BY <1>3, <2>1
<1> QED
  BY <1>2, <1>5, HandKeeps

\* AllCommands holds the commands of requests and topics.
LEMMA AllCommandsAre ==
    /\ \A r \in Requests : \A i \in DOMAIN r : r[i] \in AllCommands
    /\ \A c \in Consumers : \A i \in DOMAIN Topic[c] : Topic[c][i] \in AllCommands
<1>1. ASSUME NEW r \in Requests, NEW i \in DOMAIN r PROVE r[i] \in AllCommands
  <2>1. r[i] \in ToSet(r) /\ ToSet(r) \in {ToSet(q) : q \in Requests}
    BY DEF ToSet
  <2> QED
    BY <2>1, Zenon DEF AllCommands
<1>2. ASSUME NEW c \in Consumers, NEW i \in DOMAIN Topic[c] PROVE Topic[c][i] \in AllCommands
  <2>1. Topic[c][i] \in ToSet(Topic[c]) /\ ToSet(Topic[c]) \in {ToSet(Topic[d]) : d \in Consumers}
    BY DEF ToSet
  <2> QED
    BY <2>1, Zenon DEF AllCommands
<1> QED
  BY <1>1, <1>2

\* Commands that start on an idle thread were sent; a batch is a request.
LEMMA SentByClients ==
    ASSUME Shape, NEW r \in Requests, r # << >>
    PROVE  /\ r[1].kind = "authorize" /\ r[1].account \in present
                 => Sent([r[1] EXCEPT !.limit = limit[r[1].account]])
           /\ r[1].kind = "clear" => \A i \in DOMAIN r : Sent(r[i])
<1>1. /\ r \in Seq(CommandType) /\ r[1] \in CommandType
      /\ r[1].kind = "clear" => \A i \in DOMAIN r : r[i].kind = "clear"
  BY RequestType
<1>2. Len(r) \in Nat \ {0} /\ DOMAIN r = 1..Len(r)
  BY <1>1, EmptySeq, LenProperties
<1>3. \A i \in DOMAIN r : r[i] \in AllCommands
  BY AllCommandsAre
<1>4. present \subseteq Accounts
  BY DEF Shape, TypeOK
<1>5. r[1].kind = "authorize" /\ r[1].account \in present
        => Sent([r[1] EXCEPT !.limit = limit[r[1].account]])
  <2> SUFFICES ASSUME r[1].kind = "authorize", r[1].account \in present
               PROVE  Sent([r[1] EXCEPT !.limit = limit[r[1].account]])
    OBVIOUS
  <2>1. [r[1] EXCEPT !.limit = limit[r[1].account]].kind = "authorize"
    BY <1>1 DEF CommandType
  <2>2. r[1] \in AllCommands /\ r[1].account \in Accounts
    BY <1>2, <1>3, <1>4
  <2> QED
    BY <2>1, <2>2 DEF Sent
<1>6. r[1].kind = "clear" => \A i \in DOMAIN r : Sent(r[i])
  BY <1>1, <1>3 DEF Sent
<1> QED
  BY <1>5, <1>6

\* What is in a topic was sent.
LEMMA SentByProducers ==
    ASSUME NEW c \in Consumers, NEW i \in 1..Len(Topic[c])
    PROVE  Sent(Topic[c][i])
<1>1. Topic[c][i] \in CommandType /\ Topic[c][i].kind \in KindsOf(c)
  BY RecordType
<1>2. Topic[c][i].kind # "authorize"
  BY <1>1, ThreadSets DEF KindsOf, Consumers
<1>3. DOMAIN Topic[c] = 1..Len(Topic[c])
  BY InputsAssumption, LenProperties
<1>4. Topic[c][i] \in AllCommands
  BY <1>3, AllCommandsAre
<1> QED
  BY <1>2, <1>4 DEF Sent

\* While thread t works the others do not, and it is its cell that matters.
LEMMA OthersRest ==
    ASSUME OneAtWork, NEW t \in Threads, Working(t),
           \A u \in Threads \ {t} : pc'[u] = pc[u],
           Appending(t)' => /\ Accepts(Command(t), Events)'
                            /\ (cell[t].event = ResultOf(Command(t), Events))'
    PROVE  OneAtWork' /\ DecidedInv'
<1>1. \A u \in Threads \ {t} : ~ Working(u) /\ ~ Working(u)' /\ ~ Appending(u)'
  BY DEF OneAtWork, Working, Appending
<1> QED
  BY <1>1 DEF OneAtWork, DecidedInv

(***************************************************************************)
(* Part 3: each step is a step of Ledger, or none.                         *)
(***************************************************************************)

\* A step that changes neither buffer nor limits is a stutter of the ledger.
LEMMA QuietLedger ==
    ASSUME log' = log, limit' = limit
    PROVE  Events' = Events /\ UNCHANGED L!vars
BY DEF Events, L!vars

\* The new cell is the last of the list.
LEMMA LinkAppends ==
    ASSUME Shape, IdInv, TailSafe, ~ raced, NEW t \in Threads, Link(t)
    PROVE  Events' = Append(Events, cell[t].event)
<1>1. /\ pc[t] = "link" /\ TypeOK /\ TailFacts
      /\ log \in Seq(CellType) /\ cell[t] \in CellType
  BY DEF Link, Shape, TypeOK, TailSafe
<1>2. Len(log) \in Nat \ {0} /\ DOMAIN log = 1..Len(log)
  BY <1>1, EmptySeq, LenProperties DEF IdInv
<1>3. \A u \in Threads : pc[u] # "last"
  BY <1>1 DEF TailFacts, Linking
<1>4. tail[t] = log[Len(log)].id /\ Len(log) \in DOMAIN log
  BY <1>1, <1>2, <1>3 DEF TailFacts
<1>5. /\ log' \in Seq(CellType) /\ Len(log') = Len(log) + 1 /\ DOMAIN log' = 1..(Len(log) + 1)
      /\ log'[Len(log) + 1] = cell[t]
      /\ \A i \in 1..Len(log) : log'[i] = log[i]
  <2>1. PICK k \in DOMAIN log : /\ log[k].id = tail[t]
                                /\ log' \in Seq(CellType)
                                /\ Len(log') = k + 1
                                /\ DOMAIN log' = 1..(k + 1)
                                /\ log'[k + 1] = cell[t]
                                /\ \A i \in 1..k : log'[i] = log[i]
    BY <1>1, <1>4, LinkStep
  <2>2. k = Len(log)
    BY <1>2, <1>4, <2>1 DEF IdInv
  <2> QED
    BY <2>1, <2>2
<1> DEFINE e == cell[t].event
           n == Len(log)
<1>6. e \in EventType
  BY <1>1 DEF CellType
<1>7. Events \in Seq(EventType) /\ DOMAIN Events = 1..n /\ Len(Events) = n
  <2>1. Events \in Seq(EventType) /\ DOMAIN Events = 1..n
    BY <1>1, <1>2, EventsType
  <2> QED
    BY <1>2, <2>1, LenProperties
<1>8. /\ DOMAIN Events' = 1..(n + 1) /\ Events'[n + 1] = e
      /\ \A i \in 1..n : Events'[i] = Events[i]
  <2>1. Events' = [i \in 1..(n + 1) |-> log'[i].event]
    BY <1>5 DEF Events
  <2>2. \A i \in 1..n : Events[i] = log[i].event
    BY <1>2 DEF Events
  <2>3. n + 1 \in 1..(n + 1) /\ \A i \in 1..n : i \in 1..(n + 1)
    BY <1>2
  <2> QED
    BY <1>5, <2>1, <2>2, <2>3
<1>9. Events' \in Seq(EventType) /\ Len(Events') = n + 1
  <2>1. \A i \in 1..(n + 1) : log'[i].event \in EventType
    <3>1. \A i \in 1..(n + 1) : log'[i] \in CellType
      BY <1>5, ElementOfDomain
    <3> QED
      BY <3>1 DEF CellType
  <2>2. Events' = [i \in 1..(n + 1) |-> log'[i].event] /\ n + 1 \in Nat
    BY <1>2, <1>5 DEF Events
  <2> QED
    BY <2>1, <2>2
<1> HIDE DEF e, n
<1>10. /\ Append(Events, e) \in Seq(EventType) /\ Len(Append(Events, e)) = n + 1
       /\ Append(Events, e)[n + 1] = e
       /\ \A i \in 1..n : Append(Events, e)[i] = Events[i]
  BY <1>6, <1>7, AppendProperties
<1>11. \A i \in 1..(n + 1) : Events'[i] = Append(Events, e)[i]
  <2>1. \A i \in 1..(n + 1) : i \in 1..n \/ i = n + 1
    BY <1>2 DEF n
  <2> QED
    BY <1>8, <1>10, <2>1
<1>12. Events' = Append(Events, e)
  BY <1>9, <1>10, <1>11, SeqEqual
<1> QED
  BY <1>12 DEF e

\* Executing one's command is one step of Ledger, taken by Link.
LEMMA LinkIsStep ==
    ASSUME Shape, IdInv, TailSafe, SeqInv, NEW t \in Threads, Link(t)
    PROVE  L!Next
<1> DEFINE c == Command(t)
<1>1. pc[t] = "link" /\ limit' = limit
  BY DEF Link, accountVars
<1>2. /\ c \in CommandType /\ c = todo[t][1] /\ c.kind \in KindsOf(t) /\ t # "limits"
      /\ 1 \in DOMAIN todo[t]
  <2>1. TypeOK /\ ThreadInv /\ todo[t] \in Seq(CommandType)
    BY DEF Shape, TypeOK
  <2>2. /\ c \in CommandType /\ c = todo[t][1] /\ c.kind \in KindsOf(t)
        /\ Len(todo[t]) \in Nat \ {0}
    BY <1>1, <2>1, CommandInHand
  <2>3. DOMAIN todo[t] = 1..Len(todo[t])
    BY <2>1, LenProperties
  <2> QED
    BY <1>1, <2>1, <2>2, <2>3 DEF ThreadInv, ThreadOK
<1>3. Sent(c)
  BY <1>2 DEF SeqInv, HandInv
<1>4. L!Store(c)
  <2>1. Accepts(c, Events) /\ cell[t].event = ResultOf(c, Events)
    BY <1>1 DEF SeqInv, DecidedInv, Appending
  <2>2. Events' = Append(Events, cell[t].event)
    BY LinkAppends DEF SeqInv
  <2> HIDE DEF c
  <2> QED
    BY <1>1, <2>1, <2>2, SameAccepts, SameResult DEF L!Store
<1> HIDE DEF c
<1>5. c.kind \in {"authorize", "clear", "submitted", "returned"}
  BY <1>2 DEF KindsOf, Threads, Consumers
<1>6. CASE c.kind = "authorize"
  <2>1. PICK r \in AllCommands : /\ r.kind = "authorize" /\ r.account \in Accounts
                                 /\ c = [r EXCEPT !.limit = limit[r.account]]
    BY <1>3, <1>6 DEF Sent
  <2>2. L!Authorize(r)
    BY <1>4, <2>1 DEF L!Authorize
  <2> QED
    BY <2>1, <2>2 DEF L!Next
<1>7. CASE c.kind # "authorize"
  <2>1. c \in AllCommands
    BY <1>3, <1>7 DEF Sent
  <2>2. L!Clear(c) \/ L!ProcessPayment(c)
    BY <1>4, <1>5, <1>7 DEF L!Clear, L!ProcessPayment
  <2> QED
    BY <2>1, <2>2 DEF L!Next
<1> QED
  BY <1>6, <1>7

\* A thread goes on with its command.
LEMMA ExecuteKeeps ==
    ASSUME Shape, IdInv, TailSafe, SeqInv, NEW t \in Threads, Execute(t)
    PROVE  SeqInv' /\ [L!Next]_(L!vars)
<1>1. /\ TypeOK /\ ThreadInv /\ OneAtWork /\ ~ raced /\ HandInv /\ DecidedInv
      /\ pc \in [Threads -> Steps] /\ cell \in [Threads -> CellType]
  BY DEF Shape, TypeOK, SeqInv
<1>2. Working(t) /\ limit' = limit
  BY DEF Execute, ReadAccepted, ReadRejected, ReadFails, BeginAppend, Link, EndAppend,
         Publish, PublishFails, accountVars, Working
<1>3. CASE ReadAccepted(t)
  <2>1. /\ pc' = [pc EXCEPT ![t] = "append"] /\ todo' = todo /\ log' = log /\ raced' = raced
        /\ Accepts(Command(t), Events) /\ cell'[t].event = ResultOf(Command(t), Events)
    BY <1>1, <1>3 DEF ReadAccepted, historyVars
  <2>2. Events' = Events /\ UNCHANGED L!vars
    BY <1>2, <2>1, QuietLedger
  <2>3. Accepts(Command(t), Events)' /\ (cell[t].event = ResultOf(Command(t), Events))'
    BY <2>1, <2>2 DEF Command
  <2>4. \A u \in Threads \ {t} : pc'[u] = pc[u]
    BY <1>1, <2>1
  <2>5. OneAtWork' /\ DecidedInv'
    BY <1>1, <1>2, <2>3, <2>4, OthersRest
  <2>6. HandInv'
    BY <1>1, <1>2, <2>1, HandKeeps
  <2> QED
    BY <1>1, <2>1, <2>2, <2>5, <2>6 DEF SeqInv
<1>4. CASE Finish(t) /\ log' = log /\ raced' = raced
  <2>1. /\ \A u \in Threads \ {t} : pc'[u] = pc[u]
        /\ pc'[t] \in {"idle", "read"}
    BY <1>1, <1>2, <1>4, FinishStep DEF Working
  <2>2. OneAtWork' /\ DecidedInv'
    BY <1>1, <1>2, <2>1, OthersRest DEF Appending
  <2>3. HandInv'
    BY <1>1, <1>2, <1>4, FinishHand
  <2> QED
    BY <1>1, <1>2, <1>4, <2>2, <2>3, QuietLedger DEF SeqInv
<1>5. CASE ReadRejected(t) \/ ReadFails(t) \/ Publish(t) \/ PublishFails(t)
  BY <1>4, <1>5 DEF ReadRejected, ReadFails, Publish, PublishFails, storeVars, historyVars
<1>6. CASE BeginAppend(t)
  <2>1. /\ pc[t] = "append" /\ pc' = [pc EXCEPT ![t] = "link"]
        /\ todo' = todo /\ cell' = cell /\ log' = log
        /\ raced' = (raced \/ \E u \in Threads : pc[u] \in {"link", "last"})
    BY <1>6 DEF BeginAppend, storeVars
  <2>2. ~ raced'
    BY <1>1, <1>2, <2>1 DEF OneAtWork, Working
  <2>3. Events' = Events /\ UNCHANGED L!vars
    BY <1>2, <2>1, QuietLedger
  <2>4. Accepts(Command(t), Events)' /\ (cell[t].event = ResultOf(Command(t), Events))'
    BY <1>1, <2>1, <2>3 DEF Command, DecidedInv, Appending
  <2>5. \A u \in Threads \ {t} : pc'[u] = pc[u]
    BY <1>1, <2>1
  <2>6. OneAtWork' /\ DecidedInv'
    BY <1>1, <1>2, <2>4, <2>5, OthersRest
  <2>7. HandInv'
    BY <1>1, <1>2, <2>1, HandKeeps
  <2> QED
    BY <2>2, <2>3, <2>6, <2>7 DEF SeqInv
<1>7. CASE Link(t)
  <2>1. pc' = [pc EXCEPT ![t] = "last"] /\ todo' = todo /\ raced' = raced
    BY <1>7 DEF Link, historyVars
  <2>2. pc'[t] = "last" /\ \A u \in Threads \ {t} : pc'[u] = pc[u]
    BY <1>1, <2>1
  <2>3. OneAtWork' /\ DecidedInv'
    BY <1>1, <1>2, <2>2, OthersRest DEF Appending
  <2>4. HandInv'
    BY <1>1, <1>2, <2>1, HandKeeps
  <2> QED
    BY <1>1, <1>7, <2>1, <2>3, <2>4, LinkIsStep DEF SeqInv
<1>8. CASE EndAppend(t)
  <2>1. log' = log /\ raced' = raced
    BY <1>8 DEF EndAppend
  <2>2. CASE Command(t).kind = "authorize"
    <3>1. pc' = [pc EXCEPT ![t] = "publish"] /\ todo' = todo
      BY <1>8, <2>2 DEF EndAppend
    <3>2. pc'[t] = "publish" /\ \A u \in Threads \ {t} : pc'[u] = pc[u]
      BY <1>1, <3>1
    <3>3. OneAtWork' /\ DecidedInv'
      BY <1>1, <1>2, <3>2, OthersRest DEF Appending
    <3>4. HandInv'
      BY <1>1, <1>2, <3>1, HandKeeps
    <3> QED
      BY <1>1, <1>2, <2>1, <3>3, <3>4, QuietLedger DEF SeqInv
  <2>3. CASE Command(t).kind # "authorize"
    BY <1>4, <1>8, <2>1, <2>3 DEF EndAppend
  <2> QED
    BY <2>2, <2>3
<1> QED
  BY <1>3, <1>5, <1>6, <1>7, <1>8 DEF Execute

\* The consumer of limit changes goes on: the second half of save is a step.
LEMMA SaveKeeps ==
    ASSUME Shape, SeqInv, RemoveAccount \/ RestoreAccount
    PROVE  SeqInv' /\ [L!Next]_(L!vars)
<1> DEFINE t == "limits"
           c == Command(t)
<1>1. /\ TypeOK /\ ThreadInv /\ OneAtWork /\ ~ raced /\ HandInv /\ DecidedInv
      /\ pc \in [Threads -> Steps] /\ t \in Threads /\ limit \in [Accounts -> Int]
  BY ThreadSets DEF Shape, TypeOK, SeqInv
<1>2. /\ Working(t) /\ pc[t] \in {"remove", "restore"} /\ log' = log /\ raced' = raced
  BY DEF RemoveAccount, RestoreAccount, storeVars, historyVars, Working
<1>3. ASSUME Finish(t)
      PROVE  /\ OneAtWork' /\ DecidedInv'
             /\ todo'[t] = << >> /\ \A u \in Threads \ {t} : todo'[u] = << >>
  <2>1. /\ \A u \in Threads \ {t} : pc'[u] = pc[u] /\ todo'[u] = todo[u]
        /\ pc'[t] = "idle" /\ todo'[t] = << >>
    BY <1>1, <1>2, <1>3, FinishStep, ThreadSets
  <2>2. \A u \in Threads \ {t} : todo[u] = << >>
    BY <1>1, <1>2 DEF OneAtWork, Working, ThreadInv, ThreadOK
  <2>3. OneAtWork' /\ DecidedInv'
    BY <1>1, <1>2, <2>1, OthersRest DEF Appending
  <2> QED
    BY <2>1, <2>2, <2>3
<1>4. ASSUME \A u \in Threads : todo'[u] = << >> PROVE HandInv'
  <2>1. DOMAIN << >> = {}
    OBVIOUS
  <2> QED
    BY <1>4, <2>1, Zenon DEF HandInv
<1>5. CASE RemoveAccount /\ c.account \in present
  <2>1. pc' = [pc EXCEPT ![t] = "restore"] /\ todo' = todo /\ limit' = limit
    BY <1>5 DEF RemoveAccount
  <2>2. pc'[t] = "restore" /\ \A u \in Threads \ {t} : pc'[u] = pc[u]
    BY <1>1, <2>1
  <2>3. OneAtWork' /\ DecidedInv'
    BY <1>1, <1>2, <2>2, OthersRest DEF Appending
  <2>4. HandInv'
    BY <1>1, <2>1, HandKeeps
  <2> QED
    BY <1>1, <1>2, <2>1, <2>3, <2>4, QuietLedger DEF SeqInv
<1>6. CASE RemoveAccount /\ c.account \notin present
  <2>1. Finish(t) /\ limit' = limit
    BY <1>6 DEF RemoveAccount
  <2> QED
    BY <1>1, <1>2, <1>3, <1>4, <2>1, QuietLedger DEF SeqInv
<1>7. CASE RestoreAccount
  <2>1. /\ c \in CommandType /\ c = todo[t][1] /\ c.kind \in KindsOf(t)
        /\ Len(todo[t]) \in Nat \ {0} /\ DOMAIN todo[t] = 1..Len(todo[t])
    BY <1>1, <1>2, CommandInHand, LenProperties DEF TypeOK
  <2>2. c.kind = "limitUpdated" /\ c.account \in Accounts
    BY <1>1, <1>7, <2>1, ThreadSets DEF RestoreAccount, ThreadInv, ThreadOK, KindsOf
  <2>3. c \in AllCommands
    BY <1>1, <2>1, <2>2 DEF HandInv, Sent
  <2>4. limit' = [limit EXCEPT ![c.account] = c.amount] /\ Finish(t)
    BY <1>7 DEF RestoreAccount
  <2>5. Events' = Events
    BY <1>2 DEF Events
  <2> HIDE DEF c
  <2>6. L!UpdateLimit(c)
    BY <2>2, <2>4, <2>5 DEF L!UpdateLimit
  <2>7. L!Next
    BY <2>3, <2>6 DEF L!Next
  <2> QED
    BY <1>1, <1>2, <1>3, <1>4, <2>4, <2>7 DEF SeqInv
<1> QED
  BY <1>5, <1>6, <1>7

\* A thread starts on commands that were sent.
LEMMA StartIsQuiet ==
    ASSUME Shape, SeqInv, OneAtWork', NEW t \in Threads, NEW commands,
           NEW step \in {"read", "remove"}, Start(t, commands, step),
           \A i \in DOMAIN commands : Sent(commands[i]),
           log' = log, limit' = limit, raced' = raced
    PROVE  SeqInv' /\ [L!Next]_(L!vars)
<1>1. /\ pc \in [Threads -> Steps] /\ todo \in [Threads -> Seq(CommandType)]
      /\ ~ raced /\ HandInv /\ DecidedInv
  BY DEF Shape, TypeOK, SeqInv
<1>2. /\ pc'[t] = step /\ todo'[t] = commands
      /\ \A u \in Threads \ {t} : todo'[u] = todo[u]
  BY <1>1 DEF Start
<1>3. \A u \in Threads : ~ Appending(u)'
  <2>1. Working(t)' /\ ~ Appending(t)'
    BY <1>2 DEF Working, Appending
  <2>2. \A u \in Threads \ {t} : ~ Working(u)'
    BY <2>1 DEF OneAtWork
  <2> QED
    BY <2>1, <2>2 DEF Working, Appending
<1>4. HandInv'
  BY <1>1, <1>2, HandKeeps
<1> QED
  BY <1>1, <1>3, <1>4, QuietLedger DEF SeqInv, DecidedInv

\* A step that changes nothing in the threads at work, or what they look at.
LEMMA IdleIsQuiet ==
    ASSUME SeqInv, OneAtWork', todo' = todo, cell' = cell, log' = log, limit' = limit,
           raced' = raced, \A t \in Threads : Appending(t)' => Appending(t)
    PROVE  SeqInv' /\ [L!Next]_(L!vars)
<1>1. Events' = Events /\ UNCHANGED L!vars
  BY QuietLedger
<1>2. \A t \in Threads : Command(t)' = Command(t)
  BY DEF Command
<1>3. DecidedInv'
  <2> SUFFICES ASSUME NEW t \in Threads, Appending(t)'
               PROVE  Accepts(Command(t), Events)' /\ (cell[t].event = ResultOf(Command(t), Events))'
    BY DEF DecidedInv
  <2> QED
    BY <1>1, <1>2 DEF SeqInv, DecidedInv
<1>4. HandInv'
  BY HandKeeps DEF SeqInv
<1> QED
  BY <1>1, <1>3, <1>4 DEF SeqInv

\* Requests arrive, and consumers take records, die, or lose their offset.
LEMMA ArrivalKeeps ==
    ASSUME Shape, SeqInv, OneAtWork',
           \/ \E h \in Handlers : ReceiveAuthorize(h) \/ RefuseAuthorize(h) \/ ReceiveClear(h)
           \/ \E c \in Consumers : Take(c) \/ TakeFails(c) \/ ResetOffset(c)
    PROVE  SeqInv' /\ [L!Next]_(L!vars)
<1>1. log' = log /\ limit' = limit /\ raced' = raced
  BY DEF ReceiveAuthorize, RefuseAuthorize, ReceiveClear, Receive, Take, TakeFails, ResetOffset,
         storeVars, accountVars, historyVars
<1>2. CASE \E h \in Handlers : ReceiveAuthorize(h)
  <2>1. PICK h \in Handlers, r \in Requests :
              /\ r # << >> /\ r[1].kind = "authorize" /\ r[1].account \in present
              /\ Start(h, << [r[1] EXCEPT !.limit = limit[r[1].account]] >>, "read")
    BY <1>2 DEF ReceiveAuthorize
  <2> DEFINE c == [r[1] EXCEPT !.limit = limit[r[1].account]]
  <2>2. Sent(c)
    BY <2>1, SentByClients
  <2>3. Start(h, <<c>>, "read")
    BY <2>1
  <2> HIDE DEF c
  <2>4. \A i \in DOMAIN <<c>> : Sent(<<c>>[i])
    <3>1. \A i \in DOMAIN <<c>> : <<c>>[i] = c
      OBVIOUS
    <3> QED
      BY <2>2, <3>1
  <2> QED
    BY <1>1, <2>3, <2>4, StartIsQuiet, ThreadSets
<1>3. CASE \E h \in Handlers : ReceiveClear(h)
  <2>1. PICK h \in Handlers, r \in Requests :
              r # << >> /\ r[1].kind = "clear" /\ Start(h, r, "read")
    BY <1>3 DEF ReceiveClear
  <2> QED
    BY <1>1, <2>1, StartIsQuiet, SentByClients, ThreadSets
<1>4. CASE \E c \in Consumers : Take(c)
  <2>1. PICK c \in Consumers : Take(c)
    BY <1>4
  <2> DEFINE p == Topic[c][offset[c] + 1]
             step == IF c = "limits" THEN "remove" ELSE "read"
  <2>2. offset[c] \in Nat /\ Len(Topic[c]) \in Nat /\ offset[c] < Len(Topic[c])
    BY <2>1, InputsAssumption, LenProperties DEF Take, Shape, TypeOK
  <2>3. Sent(p)
    BY <2>2, SentByProducers
  <2>4. Start(c, <<p>>, step) /\ step \in {"read", "remove"}
    BY <2>1 DEF Take
  <2> HIDE DEF p, step
  <2>5. \A i \in DOMAIN <<p>> : Sent(<<p>>[i])
    <3>1. \A i \in DOMAIN <<p>> : <<p>>[i] = p
      OBVIOUS
    <3> QED
      BY <2>3, <3>1
  <2> QED
    BY <1>1, <2>4, <2>5, StartIsQuiet, ThreadSets
<1>5. CASE \E h \in Handlers : RefuseAuthorize(h)
  BY <1>1, <1>5, IdleIsQuiet DEF RefuseAuthorize, threadVars, Appending
<1>6. CASE \E c \in Consumers : TakeFails(c)
  <2>1. PICK c \in Consumers : TakeFails(c)
    BY <1>6
  <2>2. /\ pc' = [pc EXCEPT ![c] = "dead"] /\ todo' = todo /\ cell' = cell
        /\ pc \in [Threads -> Steps]
    BY <2>1 DEF TakeFails, Shape, TypeOK
  <2>3. \A t \in Threads : Appending(t)' => Appending(t)
    BY <2>2 DEF Appending
  <2> QED
    BY <1>1, <2>2, <2>3, IdleIsQuiet
<1>7. CASE \E c \in Consumers : ResetOffset(c)
  BY <1>1, <1>7, IdleIsQuiet DEF ResetOffset, threadVars, Appending
<1> QED
  BY <1>2, <1>3, <1>4, <1>5, <1>6, <1>7

\* The service starts where the ledger does.
LEMMA InitIsInit == Init => SeqInv /\ L!Init
<1> SUFFICES ASSUME Init PROVE SeqInv /\ L!Init
  OBVIOUS
<1>1. \A t \in Threads : pc[t] = "idle" /\ todo[t] = << >>
  BY DEF Init
<1>2. SeqInv
  <2>1. DOMAIN << >> = {}
    OBVIOUS
  <2>2. HandInv
    BY <1>1, <2>1, Zenon DEF HandInv
  <2> QED
    BY <1>1, <2>2 DEF Init, SeqInv, OneAtWork, Working, DecidedInv, Appending
<1>3. Events = SeedEvents
  <2>1. SeedEvents \in Seq(EventType) /\ DOMAIN SeedEvents = 1..Len(SeedEvents)
    BY StoresAssumption, LenProperties
  <2>2. Events = [i \in DOMAIN Seed |-> Seed[i].event]
    BY DEF Events, Init
  <2>3. /\ DOMAIN Seed = DOMAIN SeedEvents
        /\ \A i \in DOMAIN SeedEvents : Seed[i].event = SeedEvents[i]
    BY DEF Seed
  <2>4. Events = [i \in 1..Len(SeedEvents) |-> SeedEvents[i]]
    BY <2>1, <2>2, <2>3
  <2> QED
    BY <2>1, <2>4
<1> QED
  BY <1>2, <1>3 DEF Init, L!Init

\* One thread at a time, the service is the ledger it promises to be: commands
\* take effect one after the other, whole, each on what the others stored.
THEOREM ImplementsLedgerHolds == SequentialSpec => ImplementsLedger
<1>1. Init => SeqInv /\ L!Init
  BY InitIsInit
<1>2. Shape /\ IdInv /\ TailSafe /\ SeqInv /\ [SequentialNext]_vars => SeqInv' /\ [L!Next]_(L!vars)
  <2> SUFFICES ASSUME Shape, IdInv, TailSafe, SeqInv, [SequentialNext]_vars
               PROVE  SeqInv' /\ [L!Next]_(L!vars)
    OBVIOUS
  <2>1. CASE UNCHANGED vars
    <3>1. /\ pc' = pc /\ todo' = todo /\ cell' = cell /\ log' = log /\ limit' = limit /\ raced' = raced
      BY <2>1 DEF vars, threadVars, storeVars, accountVars, historyVars
    <3>2. OneAtWork'
      BY <3>1 DEF SeqInv, OneAtWork, Working
    <3> QED
      BY <3>1, <3>2, IdleIsQuiet DEF Appending
  <2>2. CASE SequentialNext
    <3>1. Next /\ OneAtWork' /\ ~ Restart
      <4>1. crashes' = crashes /\ crashes \in Nat
        BY <2>2 DEF SequentialNext, Shape, TypeOK
      <4> QED
        BY <2>2, <4>1 DEF SequentialNext, Restart
    <3> QED
      BY <3>1, ExecuteKeeps, SaveKeeps, ArrivalKeeps DEF Next
  <2> QED
    BY <2>1, <2>2
<1>3. [SequentialNext]_vars => [Next]_vars
  BY DEF SequentialNext
<1>4. SequentialSpec => Spec
  BY <1>3, PTL DEF SequentialSpec, Spec
<1> QED
  BY <1>1, <1>2, <1>4, ShapeHolds, SafeCells, TailSafeHolds, PTL
     DEF SequentialSpec, ImplementsLedger, L!Spec
=============================================================================
