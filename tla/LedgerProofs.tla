----------------------------- MODULE LedgerProofs -----------------------------
(* Theorems about Ledger, for every set of commands and every seed.         *)
EXTENDS Ledger, AggregateProofs

USE LedgerAssumption

\* A number above an Int is an Int too, or beyond all of them.
LEMMA BelowScalaInt ==
    ASSUME NEW n \in Int, NEW m \in ScalaInt
    PROVE  n <= m \/ n > IntHalf - 1 \/ n \in ScalaInt
BY IntHalfAssumption DEF ScalaInt

\* What a command that is stored adds to the buffer.
LEMMA StoreStep ==
    ASSUME TypeOK, NEW command \in CommandType, command.kind # "limitUpdated",
           Store(command)
    PROVE  /\ ResultOf(command, events) \in EventType
           /\ events' = Append(events, ResultOf(command, events))
           /\ limit' = limit
           /\ ~ Recorded(events, ResultOf(command, events).account,
                         ResultOf(command, events).type, ResultOf(command, events).ref)
           /\ ResultOf(command, events).type = TypeFor[command.kind]
           /\ command.kind = "clear" => Accepts(command, events)
<1>1. Accepts(command, events) /\ events \in Seq(EventType)
  BY DEF Store, TypeOK
<1>2. /\ ResultOf(command, events) \in EventType
      /\ ResultOf(command, events).type = TypeFor[command.kind]
      /\ ResultOf(command, events).account = command.account
      /\ ResultOf(command, events).ref = command.ref
  BY <1>1, ResultOfCommand
<1> QED
  BY <1>1, <1>2 DEF Store, Accepts

\* Every step executes one command, changes a limit, or does nothing.
LEMMA LedgerStep ==
    ASSUME TypeOK, [Next]_vars
    PROVE  \/ \E command \in CommandType : command.kind # "limitUpdated" /\ Store(command)
           \/ events' = events /\ limit' \in [Accounts -> Int]
<1>1. CASE \E command \in Commands : Authorize(command)
  <2>1. PICK request \in Commands : Authorize(request)
    BY <1>1
  <2>2. [request EXCEPT !.limit = limit[request.account]] \in CommandType
    BY <2>1 DEF Authorize, TypeOK, CommandType
  <2>3. [request EXCEPT !.limit = limit[request.account]].kind = "authorize"
    BY <2>1 DEF Authorize, CommandType
  <2> QED
    BY <2>1, <2>2, <2>3 DEF Authorize
<1>2. CASE \E command \in Commands : Clear(command) \/ ProcessPayment(command)
  BY <1>2 DEF Clear, ProcessPayment
<1>3. CASE \E command \in Commands : UpdateLimit(command)
  BY <1>3 DEF UpdateLimit, TypeOK, CommandType
<1>4. CASE UNCHANGED vars
  BY <1>4 DEF vars, TypeOK
<1> QED
  BY <1>1, <1>2, <1>3, <1>4 DEF Next

\* The buffer holds well-formed events and every limit is an Int.
THEOREM LedgerTypeCorrect == Spec => []TypeOK
<1>1. Init => TypeOK
  BY DEF Init, TypeOK
<1>2. TypeOK /\ [Next]_vars => TypeOK'
  <2> SUFFICES ASSUME TypeOK, [Next]_vars PROVE TypeOK'
    OBVIOUS
  <2>1. CASE \E command \in CommandType : command.kind # "limitUpdated" /\ Store(command)
    BY <2>1, StoreStep, AppendedEvent, SMTT(30) DEF TypeOK
  <2>2. CASE events' = events /\ limit' \in [Accounts -> Int]
    BY <2>2 DEF TypeOK
  <2> QED
    BY <2>1, <2>2, LedgerStep
<1> QED
  BY <1>1, <1>2, PTL DEF Spec

\* A command is executed at most once, however often it is repeated.
THEOREM LedgerAtMostOnce == Spec => []AtMostOnce
<1>1. Init => AtMostOnce
  BY SeedAssumption DEF Init, AtMostOnce
<1>2. TypeOK /\ AtMostOnce /\ [Next]_vars => AtMostOnce'
  <2> SUFFICES ASSUME TypeOK, AtMostOnce, [Next]_vars PROVE AtMostOnce'
    OBVIOUS
  <2>1. CASE \E command \in CommandType : command.kind # "limitUpdated" /\ Store(command)
    <3>1. PICK command \in CommandType : command.kind # "limitUpdated" /\ Store(command)
      BY <2>1
    <3> DEFINE e == ResultOf(command, events)
    <3>2. /\ e \in EventType
          /\ events' = Append(events, e)
          /\ ~ Recorded(events, e.account, e.type, e.ref)
      BY <3>1, StoreStep
    <3>3. /\ Len(events) \in Nat
          /\ DOMAIN events = 1..Len(events)
          /\ DOMAIN events' = 1..(Len(events) + 1)
          /\ events'[Len(events) + 1] = e
          /\ \A i \in 1..Len(events) : events'[i] = events[i]
      BY <3>2, AppendedEvent DEF TypeOK
    <3> HIDE DEF e
    <3> QED
      BY <3>2, <3>3 DEF AtMostOnce, NothingTwice, Recorded
  <2>2. CASE events' = events
    BY <2>2 DEF AtMostOnce
  <2> QED
    BY <2>1, <2>2, LedgerStep
<1> QED
  BY <1>1, <1>2, LedgerTypeCorrect, PTL DEF Spec

\* Nothing is cleared that was not decisioned before, nor for another amount.
THEOREM LedgerClearedAfterDecision == Spec => []ClearedAfterDecision
<1>1. Init => ClearedAfterDecision
  BY SeedAssumption DEF Init, ClearedAfterDecision
<1>2. TypeOK /\ ClearedAfterDecision /\ [Next]_vars => ClearedAfterDecision'
  <2> SUFFICES ASSUME TypeOK, ClearedAfterDecision, [Next]_vars PROVE ClearedAfterDecision'
    OBVIOUS
  <2>1. CASE \E command \in CommandType : command.kind # "limitUpdated" /\ Store(command)
    <3>1. PICK command \in CommandType : command.kind # "limitUpdated" /\ Store(command)
      BY <2>1
    <3> DEFINE e == ResultOf(command, events)
    <3>2. /\ e \in EventType
          /\ events' = Append(events, e)
          /\ e.type = TypeFor[command.kind]
          /\ command.kind = "clear" => Accepts(command, events)
      BY <3>1, StoreStep
    <3>3. /\ Len(events) \in Nat
          /\ DOMAIN events = 1..Len(events)
          /\ DOMAIN events' = 1..(Len(events) + 1)
          /\ events'[Len(events) + 1] = e
          /\ \A i \in 1..Len(events) : events'[i] = events[i]
      BY <3>2, AppendedEvent DEF TypeOK
    <3>4. ASSUME e.type = "cleared"
          PROVE  \E j \in 1..Len(events) : /\ events[j].type = "decisioned"
                                           /\ events[j].account = e.account
                                           /\ events[j].ref = e.ref
                                           /\ events[j].amount = e.amount
      <4>1. command.kind = "clear"
        BY <3>1, <3>2, <3>4 DEF CommandType, Kinds, TypeFor
      <4>2. events \in Seq(EventType)
        BY DEF TypeOK
      <4>3. Accepts(command, events)
        BY <3>2, <4>1
      <4>4. e.account = command.account /\ e.ref = command.ref
        BY <3>1, <4>2, <4>3, ResultOfCommand
      <4> QED
        BY <3>3, <4>1, <4>2, <4>3, <4>4, ClearingOfDecision, SMTT(30)
    <3> HIDE DEF e
    <3> SUFFICES ASSUME NEW i \in 1..(Len(events) + 1), events'[i].type = "cleared"
                 PROVE  \E j \in 1..(i-1) : /\ events'[j].type = "decisioned"
                                            /\ events'[j].account = events'[i].account
                                            /\ events'[j].ref = events'[i].ref
                                            /\ events'[j].amount = events'[i].amount
      BY <3>3 DEF ClearedAfterDecision, ClearsDecisions
    <3>5. CASE i = Len(events) + 1
      BY <3>3, <3>4, <3>5
    <3>6. CASE i \in 1..Len(events)
      <4>1. PICK j \in 1..(i-1) : /\ events[j].type = "decisioned"
                                  /\ events[j].account = events[i].account
                                  /\ events[j].ref = events[i].ref
                                  /\ events[j].amount = events[i].amount
        BY <3>3, <3>6 DEF ClearedAfterDecision, ClearsDecisions
      <4>2. j \in 1..Len(events)
        BY <3>3, <3>6
      <4> QED
        BY <3>3, <3>6, <4>1, <4>2
    <3> QED
      BY <3>3, <3>5, <3>6
  <2>2. CASE events' = events
    BY <2>2 DEF ClearedAfterDecision, ClearsDecisions
  <2> QED
    BY <2>1, <2>2, LedgerStep
<1> QED
  BY <1>1, <1>2, LedgerTypeCorrect, PTL DEF Spec

(***************************************************************************)
(* The books of an account, when an event is appended.                     *)
(***************************************************************************)

\* The outcome of an event tells its type.
LEMMA TypeByOutcome ==
    ASSUME NEW e \in EventType
    PROVE  /\ e.outcome = "approved" => e.type = "decisioned"
           /\ e.outcome = "declined" => e.type = "decisioned"
           /\ e.type = "decisioned" => e.outcome \in {"approved", "declined"}
           /\ e.outcome = "CLEAN" => e.type = "cleared"
           /\ e.type \in {"paymentApplied", "paymentReturned"} => e.outcome = "none"
           /\ e.type \in EventTypes /\ e.amount \in Int
<1>1. e.type \in EventTypes /\ e.outcome \in OutcomesOf[e.type] /\ e.amount \in Int
  BY DEF EventType
<1>2. CASE e.type = "decisioned"
  BY <1>1, <1>2 DEF OutcomesOf
<1>3. CASE e.type = "cleared"
  BY <1>1, <1>3 DEF OutcomesOf
<1>4. CASE e.type = "paymentApplied" \/ e.type = "paymentReturned"
  BY <1>1, <1>4 DEF OutcomesOf
<1> QED
  BY <1>1, <1>2, <1>3, <1>4 DEF EventTypes

\* Membership in Decisions, spelled out.
LEMMA InDecisions ==
    ASSUME NEW log, NEW a, NEW outcome, NEW i
    PROVE  /\ i \in Decisions(log, a, outcome, TRUE)
                <=> /\ i \in DOMAIN log /\ log[i].account = a /\ log[i].outcome = outcome
                    /\ Settled(log, log[i])
           /\ i \in Decisions(log, a, outcome, FALSE)
                <=> /\ i \in DOMAIN log /\ log[i].account = a /\ log[i].outcome = outcome
                    /\ ~ Settled(log, log[i])
<1>1. Settled(log, log[i]) \in BOOLEAN
  BY DEF Settled
<1> QED
  BY <1>1 DEF Decisions

\* A total is an integer, stays the same when the log grows, and grows by the
\* amount of an event that is counted too.
LEMMA Totals ==
    ASSUME NEW log \in Seq(EventType), NEW e \in EventType, NEW S \in SUBSET DOMAIN log
    PROVE  /\ Total(log, S) \in Int
           /\ Total(Append(log, e), S) = Total(log, S)
           /\ \A j \in DOMAIN log \ S :
                 Total(log, S \cup {j}) = log[j].amount + Total(log, S)
           /\ Total(Append(log, e), S \cup {Len(log) + 1}) = e.amount + Total(log, S)
<1> DEFINE n == Len(log)
           es == Append(log, e)
           f == [i \in DOMAIN log |-> log[i].amount]
           g == [i \in DOMAIN es |-> es[i].amount]
<1>1. /\ n \in Nat /\ DOMAIN log = 1..n /\ DOMAIN es = 1..(n + 1) /\ es[n + 1] = e
      /\ \A i \in 1..n : es[i] = log[i]
  BY AppendedEvent
<1>2. \A i \in 1..n : log[i].amount \in Int
  BY <1>1, ElementOfDomain DEF EventType
<1>3. e.amount \in Int
  BY DEF EventType
<1> HIDE DEF n, es
<1>4. /\ \A i \in 1..n : f[i] \in Int /\ g[i] = f[i] /\ f[i] = log[i].amount
      /\ g[n + 1] = e.amount
  BY <1>1, <1>2
<1>5. \A T : Total(log, T) = SumFunctionOnSet(f, T) /\ Total(es, T) = SumFunctionOnSet(g, T)
  BY DEF Total
<1> HIDE DEF f, g
<1>6. IsFiniteSet(S) /\ S \in SUBSET (1..n) /\ n + 1 \notin S
  <2>1. IsFiniteSet(1..n) /\ n + 1 \notin 1..n
    BY <1>1, FS_Interval
  <2> QED
    BY <1>1, <2>1, FS_Subset
<1>7. SumFunctionOnSet(g, S) = SumFunctionOnSet(f, S) /\ SumFunctionOnSet(f, S) \in Int
  BY <1>4, <1>6, SumSame
<1>8. ASSUME NEW j \in DOMAIN log \ S
      PROVE  Total(log, S \cup {j}) = log[j].amount + Total(log, S)
  <2>1. j \in 1..n /\ j \notin S /\ \A x \in S \cup {j} : f[x] \in Int
    BY <1>1, <1>4, <1>6
  <2>2. SumFunctionOnSet(f, S \cup {j}) = f[j] + SumFunctionOnSet(f, S)
    BY <1>6, <2>1, SumAdd
  <2> QED
    BY <1>4, <1>5, <2>1, <2>2
<1>9. SumFunctionOnSet(g, S \cup {n + 1}) = g[n + 1] + SumFunctionOnSet(g, S)
  <2>1. \A x \in S \cup {n + 1} : g[x] \in Int
    BY <1>3, <1>4, <1>6
  <2> QED
    BY <1>6, <2>1, SumAdd
<1> QED
  BY <1>4, <1>5, <1>7, <1>8, <1>9 DEF n, es

\* A total with one event more.
LEMMA TotalOfMore ==
    ASSUME NEW log \in Seq(EventType), NEW S \in SUBSET DOMAIN log, NEW j \in DOMAIN log, j \notin S
    PROVE  Total(log, S \cup {j}) = log[j].amount + Total(log, S)
<1>1. log[j] \in EventType
  BY ElementOfDomain
<1> QED
  BY <1>1, Totals

\* Of a sound log, the event that comes next.
SoundNext(log, e) ==
    /\ log \in Seq(EventType) /\ e \in EventType
    /\ NothingTwice(Append(log, e)) /\ ClearsDecisions(Append(log, e))

\* A decision that is new is not settled yet.
LEMMA NewIsUnsettled ==
    ASSUME NEW log, NEW e, SoundNext(log, e), e.type = "decisioned"
    PROVE  ~ Settled(log, e)
<1> DEFINE n == Len(log)
           es == Append(log, e)
<1>1. /\ n \in Nat /\ DOMAIN log = 1..n /\ DOMAIN es = 1..(n + 1) /\ es[n + 1] = e
      /\ \A i \in 1..n : es[i] = log[i]
  BY AppendedEvent DEF SoundNext
<1> HIDE DEF n
<1> SUFFICES ASSUME NEW i \in 1..n, log[i].outcome = "CLEAN",
                    log[i].account = e.account, log[i].ref = e.ref
             PROVE  FALSE
  BY <1>1 DEF Settled
<1>2. log[i] \in EventType
  BY <1>1, ElementOfDomain DEF SoundNext
<1>3. log[i].type = "cleared"
  BY <1>2 DEF EventType, EventTypes, OutcomesOf
<1>4. i \in DOMAIN es /\ es[i] = log[i]
  BY <1>1
<1> HIDE DEF es
<1>5. PICK j \in 1..(i - 1) : /\ es[j].type = "decisioned"
                              /\ es[j].account = es[i].account
                              /\ es[j].ref = es[i].ref
  BY <1>3, <1>4 DEF SoundNext, ClearsDecisions, es
<1>6. j \in DOMAIN es /\ n + 1 \in DOMAIN es /\ j # n + 1
  BY <1>1
<1>7. es[n + 1].type = es[j].type /\ es[n + 1].account = es[j].account /\ es[n + 1].ref = es[j].ref
  BY <1>1, <1>4, <1>5
<1> QED
  BY <1>6, <1>7 DEF SoundNext, NothingTwice, es

\* A settlement code comes with a decision that was not settled before, and
\* settles no other.
LEMMA ClearingSettles ==
    ASSUME NEW log, NEW e, SoundNext(log, e), e.outcome = "CLEAN"
    PROVE  \E j \in DOMAIN log :
              /\ log[j].account = e.account /\ log[j].amount = e.amount
              /\ log[j].outcome \in {"approved", "declined"}
              /\ ~ Settled(log, log[j])
              /\ \A i \in DOMAIN log :
                    log[i].outcome \in {"approved", "declined"} =>
                       (Settled(Append(log, e), log[i]) <=> Settled(log, log[i]) \/ i = j)
<1> DEFINE n == Len(log)
           es == Append(log, e)
<1>1. /\ n \in Nat /\ DOMAIN log = 1..n /\ DOMAIN es = 1..(n + 1) /\ es[n + 1] = e
      /\ \A i \in 1..n : es[i] = log[i]
  BY AppendedEvent DEF SoundNext
<1>t. \A i \in 1..n : log[i] \in EventType
  BY <1>1, ElementOfDomain DEF SoundNext
<1>2. e.type = "cleared"
  BY TypeByOutcome DEF SoundNext
<1> HIDE DEF n, es
<1>3. PICK j \in 1..((n + 1) - 1) : /\ es[j].type = "decisioned"
                                    /\ es[j].account = es[n + 1].account
                                    /\ es[j].ref = es[n + 1].ref
                                    /\ es[j].amount = es[n + 1].amount
  <2>1. n + 1 \in DOMAIN es /\ es[n + 1].type = "cleared"
    BY <1>1, <1>2
  <2> QED
    BY <2>1 DEF SoundNext, ClearsDecisions, es
<1>4. j \in 1..n
  BY <1>1
<1>5. /\ log[j].type = "decisioned" /\ log[j].account = e.account
      /\ log[j].ref = e.ref /\ log[j].amount = e.amount
  BY <1>1, <1>3, <1>4
<1>6. \A i \in 1..n : log[i].outcome \in {"approved", "declined"} <=> log[i].type = "decisioned"
  BY <1>t, TypeByOutcome
<1>7. \A i, k \in 1..(n + 1) : (/\ es[i].account = es[k].account
                                /\ es[i].type = es[k].type
                                /\ es[i].ref = es[k].ref) => i = k
  BY <1>1 DEF SoundNext, NothingTwice, es
<1>8. ~ Settled(log, log[j])
  <2> SUFFICES ASSUME NEW i \in 1..n, log[i].outcome = "CLEAN",
                      log[i].account = e.account, log[i].ref = e.ref
               PROVE  FALSE
    BY <1>1, <1>5 DEF Settled
  <2>1. log[i].type = "cleared"
    BY <1>t DEF EventType, EventTypes, OutcomesOf
  <2>2. i \in 1..(n + 1) /\ n + 1 \in 1..(n + 1) /\ i # n + 1
    BY <1>1
  <2>3. es[i].account = es[n + 1].account /\ es[i].type = es[n + 1].type /\ es[i].ref = es[n + 1].ref
    BY <1>1, <1>2, <2>1
  <2> QED
    BY <1>7, <2>2, <2>3
<1>9. ASSUME NEW i \in 1..n, log[i].outcome \in {"approved", "declined"}
      PROVE  Settled(es, log[i]) <=> Settled(log, log[i]) \/ i = j
  <2>1. Settled(es, log[i]) <=> \/ Settled(log, log[i])
                                \/ e.account = log[i].account /\ e.ref = log[i].ref
    BY <1>1 DEF Settled
  <2>2. (e.account = log[i].account /\ e.ref = log[i].ref) <=> i = j
    <3>1. log[i].type = "decisioned"
      BY <1>6, <1>9
    <3>2. i \in 1..(n + 1) /\ j \in 1..(n + 1) /\ es[i] = log[i] /\ es[j] = log[j]
      BY <1>1, <1>4
    <3> QED
      BY <1>5, <1>7, <3>1, <3>2
  <2> QED
    BY <2>1, <2>2
<1> QED
  BY <1>1, <1>4, <1>5, <1>6, <1>8, <1>9 DEF es

\* Payments are counted when they are of this account.
LEMMA PaymentsOfAppend ==
    ASSUME NEW log \in Seq(EventType), NEW e \in EventType, NEW a, NEW type
    PROVE  LET places == PaymentEvents(log, a, type)
               es == Append(log, e)
           IN  /\ Total(log, places) \in Int
               /\ Total(es, PaymentEvents(es, a, type))
                    = IF e.account = a /\ e.type = type THEN e.amount + Total(log, places)
                                                        ELSE Total(log, places)
<1> DEFINE n == Len(log)
           es == Append(log, e)
           P == PaymentEvents(log, a, type)
           Q == PaymentEvents(es, a, type)
<1>1. /\ n \in Nat /\ DOMAIN log = 1..n /\ DOMAIN es = 1..(n + 1) /\ es[n + 1] = e
      /\ \A i \in 1..n : es[i] = log[i] /\ i \in 1..(n + 1) /\ i # n + 1
      /\ \A i \in 1..(n + 1) : i = n + 1 \/ i \in 1..n
      /\ n + 1 \in 1..(n + 1)
  BY AppendedEvent
<1>2. P \in SUBSET DOMAIN log
  BY DEF PaymentEvents
<1> HIDE DEF n, es
<1>3. Q = IF e.account = a /\ e.type = type THEN P \cup {n + 1} ELSE P
  BY <1>1 DEF PaymentEvents
<1> HIDE DEF P, Q
<1>4. /\ Total(log, P) \in Int /\ Total(es, P) = Total(log, P)
      /\ Total(es, P \cup {n + 1}) = e.amount + Total(log, P)
  BY <1>2, Totals DEF n, es
<1>5. Total(es, Q) = IF e.account = a /\ e.type = type THEN e.amount + Total(log, P) ELSE Total(log, P)
  BY <1>3, <1>4
<1> QED
  BY <1>4, <1>5 DEF P, Q, es

\* What one more event does to the books.
LEMMA BooksOfAppend ==
    ASSUME NEW log, NEW e, SoundNext(log, e), NEW a
    PROVE  LET es == Append(log, e)
           IN  /\ Balance(log, a) \in Int /\ Pending(log, a) \in Int
               /\ Balance(es, a) = Balance(log, a)
                    + (IF e.account # a THEN 0 ELSE
                       IF e.outcome = "CLEAN" \/ e.type = "paymentReturned" THEN e.amount ELSE
                       IF e.type = "paymentApplied" THEN - e.amount ELSE 0)
               /\ Pending(es, a) = Pending(log, a)
                    + (IF e.account # a THEN 0 ELSE
                       IF e.outcome = "approved" THEN e.amount ELSE
                       IF e.outcome = "CLEAN" THEN - e.amount ELSE 0)
<1> DEFINE n == Len(log)
           es == Append(log, e)
           AF == Decisions(log, a, "approved", FALSE)
           AT == Decisions(log, a, "approved", TRUE)
           DT == Decisions(log, a, "declined", TRUE)
           AF2 == Decisions(es, a, "approved", FALSE)
           AT2 == Decisions(es, a, "approved", TRUE)
           DT2 == Decisions(es, a, "declined", TRUE)
           paid == Total(log, PaymentEvents(log, a, "paymentApplied"))
           back == Total(log, PaymentEvents(log, a, "paymentReturned"))
           paid2 == Total(es, PaymentEvents(es, a, "paymentApplied"))
           back2 == Total(es, PaymentEvents(es, a, "paymentReturned"))
<1>s. log \in Seq(EventType) /\ e \in EventType /\ e.amount \in Int
  BY TypeByOutcome DEF SoundNext
<1>1. /\ n \in Nat /\ DOMAIN log = 1..n /\ DOMAIN es = 1..(n + 1) /\ es[n + 1] = e
      /\ \A i \in 1..n : es[i] = log[i] /\ i \in 1..(n + 1) /\ i # n + 1
      /\ \A i \in 1..(n + 1) : i = n + 1 \/ i \in 1..n
      /\ n + 1 \in 1..(n + 1)
  BY <1>s, AppendedEvent
<1>2. AF \in SUBSET DOMAIN log /\ AT \in SUBSET DOMAIN log /\ DT \in SUBSET DOMAIN log
  BY DEF Decisions
<1>m. /\ \A i : i \in AF <=> /\ i \in DOMAIN log /\ log[i].account = a
                             /\ log[i].outcome = "approved" /\ ~ Settled(log, log[i])
      /\ \A i : i \in AT <=> /\ i \in DOMAIN log /\ log[i].account = a
                             /\ log[i].outcome = "approved" /\ Settled(log, log[i])
      /\ \A i : i \in DT <=> /\ i \in DOMAIN log /\ log[i].account = a
                             /\ log[i].outcome = "declined" /\ Settled(log, log[i])
  <2>AF. \A i : i \in AF <=> /\ i \in DOMAIN log /\ log[i].account = a
                         /\ log[i].outcome = "approved" /\ ~ Settled(log, log[i])
    BY InDecisions
  <2>AT. \A i : i \in AT <=> /\ i \in DOMAIN log /\ log[i].account = a
                         /\ log[i].outcome = "approved" /\ Settled(log, log[i])
    BY InDecisions
  <2>DT. \A i : i \in DT <=> /\ i \in DOMAIN log /\ log[i].account = a
                         /\ log[i].outcome = "declined" /\ Settled(log, log[i])
    BY InDecisions
  <2> HIDE DEF AF, AT, DT
  <2> QED
    BY <2>AF, <2>AT, <2>DT
<1>M. /\ \A i : i \in AF2 <=> /\ i \in DOMAIN es /\ es[i].account = a
                              /\ es[i].outcome = "approved" /\ ~ Settled(es, es[i])
      /\ \A i : i \in AT2 <=> /\ i \in DOMAIN es /\ es[i].account = a
                              /\ es[i].outcome = "approved" /\ Settled(es, es[i])
      /\ \A i : i \in DT2 <=> /\ i \in DOMAIN es /\ es[i].account = a
                              /\ es[i].outcome = "declined" /\ Settled(es, es[i])
  <2> HIDE DEF es
  <2>AF2. \A i : i \in AF2 <=> /\ i \in DOMAIN es /\ es[i].account = a
                         /\ es[i].outcome = "approved" /\ ~ Settled(es, es[i])
    BY InDecisions
  <2>AT2. \A i : i \in AT2 <=> /\ i \in DOMAIN es /\ es[i].account = a
                         /\ es[i].outcome = "approved" /\ Settled(es, es[i])
    BY InDecisions
  <2>DT2. \A i : i \in DT2 <=> /\ i \in DOMAIN es /\ es[i].account = a
                         /\ es[i].outcome = "declined" /\ Settled(es, es[i])
    BY InDecisions
  <2> HIDE DEF AF2, AT2, DT2
  <2> QED
    BY <2>AF2, <2>AT2, <2>DT2
<1>3. /\ paid \in Int /\ back \in Int
      /\ paid2 = IF e.account = a /\ e.type = "paymentApplied" THEN e.amount + paid ELSE paid
      /\ back2 = IF e.account = a /\ e.type = "paymentReturned" THEN e.amount + back ELSE back
  BY <1>s, PaymentsOfAppend
<1>4. /\ Total(log, AF) \in Int /\ Total(log, AT) \in Int /\ Total(log, DT) \in Int
      /\ Total(es, AF) = Total(log, AF) /\ Total(es, AT) = Total(log, AT)
      /\ Total(es, DT) = Total(log, DT)
      /\ Total(es, AF \cup {n + 1}) = e.amount + Total(log, AF)
  BY <1>s, <1>2, Totals, ZenonT(30)
<1>5. /\ Balance(log, a) = Total(log, AT) + Total(log, DT) - paid + back
      /\ Pending(log, a) = Total(log, AF) - Total(log, DT)
      /\ Balance(es, a) = Total(es, AT2) + Total(es, DT2) - paid2 + back2
      /\ Pending(es, a) = Total(es, AF2) - Total(es, DT2)
  BY DEF Balance, Pending
<1> HIDE DEF n, paid, back, paid2, back2
<1>6. CASE e.outcome # "CLEAN"
  <2>1. /\ \A i \in 1..n : Settled(es, es[i]) <=> Settled(log, log[i])
        /\ Settled(es, e) <=> Settled(log, e)
    <3> HIDE DEF es
    <3> QED
      BY <1>1, <1>6 DEF Settled
  <2>2. e.outcome \in {"approved", "declined"} => ~ Settled(es, e)
    BY <2>1, <1>s, TypeByOutcome, NewIsUnsettled
  <2> HIDE DEF es, AF, AT, DT, AF2, AT2, DT2
  <2>3. AT2 = AT
    <3>1. \A i : i \in AT2 <=> i \in AT
      BY <1>1, <1>m, <1>M, <2>1, <2>2
    <3> QED
      BY <3>1
  <2>4. DT2 = DT
    <3>1. \A i : i \in DT2 <=> i \in DT
      BY <1>1, <1>m, <1>M, <2>1, <2>2
    <3> QED
      BY <3>1
  <2>5. AF2 = IF e.account = a /\ e.outcome = "approved" THEN AF \cup {n + 1} ELSE AF
    <3>1. \A i : i \in AF2 <=> i \in AF \/ (i = n + 1 /\ e.account = a /\ e.outcome = "approved")
      BY <1>1, <1>m, <1>M, <2>1, <2>2
    <3> QED
      BY <3>1
  <2>6. e.outcome = "approved" => e.type = "decisioned"
    BY <1>s, TypeByOutcome
  <2>7. Total(es, AF2) = IF e.account = a /\ e.outcome = "approved" THEN e.amount + Total(log, AF)
                                                                    ELSE Total(log, AF)
    BY <1>4, <2>5
  <2>8. Pending(es, a) = Total(es, AF2) - Total(log, DT)
    BY <1>4, <1>5, <2>4
  <2>9. Balance(es, a) = Total(log, AT) + Total(log, DT) - paid2 + back2
    BY <1>4, <1>5, <2>3, <2>4
  <2> DEFINE p0 == Total(log, AF)
             p1 == Total(log, AT)
             p2 == Total(log, DT)
             p3 == Total(es, AF2)
  <2>10. /\ Balance(log, a) = p1 + p2 - paid + back /\ Pending(log, a) = p0 - p2
         /\ Balance(es, a) = p1 + p2 - paid2 + back2 /\ Pending(es, a) = p3 - p2
         /\ p0 \in Int /\ p1 \in Int /\ p2 \in Int
         /\ p3 = IF e.account = a /\ e.outcome = "approved" THEN e.amount + p0 ELSE p0
    BY <1>4, <1>5, <2>7, <2>8, <2>9
  <2> HIDE DEF p0, p1, p2, p3
  <2>11. CASE e.account # a
    BY <1>s, <1>3, <2>10, <2>11 DEF es
  <2>12. CASE e.account = a /\ e.outcome = "approved"
    <3>1. paid2 = paid /\ back2 = back
      BY <1>3, <2>6, <2>12
    <3>2. Balance(es, a) = Balance(log, a) + 0 /\ Pending(es, a) = Pending(log, a) + e.amount
      BY <1>s, <1>3, <2>10, <2>12, <3>1, SMTT(30)
    <3>3. Balance(log, a) \in Int /\ Pending(log, a) \in Int
      BY <1>3, <2>10
    <3> QED
      BY <2>6, <2>12, <3>2, <3>3 DEF es
  <2>13. CASE e.account = a /\ e.outcome # "approved"
    <3>1. Pending(es, a) = Pending(log, a) + 0
      BY <1>s, <1>3, <2>10, <2>13
    <3>2. Balance(log, a) \in Int /\ Pending(log, a) \in Int
      BY <1>3, <2>10
    <3>3. CASE e.type = "paymentApplied"
      <4>2. paid2 = e.amount + paid /\ back2 = back
        BY <1>3, <2>13, <3>3
      <4>1. Balance(es, a) = Balance(log, a) + (- e.amount)
        BY <1>s, <1>3, <2>10, <4>2, SMTT(30)
      <4> QED
        BY <1>6, <2>13, <3>1, <3>2, <3>3, <4>1 DEF es
    <3>4. CASE e.type = "paymentReturned"
      <4>1. Balance(es, a) = Balance(log, a) + e.amount
        BY <1>s, <1>3, <2>10, <2>13, <3>4
      <4> QED
        BY <1>6, <2>13, <3>1, <3>2, <3>4, <4>1 DEF es
    <3>5. CASE e.type \notin {"paymentApplied", "paymentReturned"}
      <4>1. Balance(es, a) = Balance(log, a) + 0
        BY <1>s, <1>3, <2>10, <2>13, <3>5, SMTT(30)
      <4> QED
        BY <1>6, <2>13, <3>1, <3>2, <3>5, <4>1 DEF es
    <3> QED
      BY <3>3, <3>4, <3>5
  <2> QED
    BY <2>11, <2>12, <2>13
<1>7. CASE e.outcome = "CLEAN"
  <2>1. PICK j \in DOMAIN log :
              /\ log[j].account = e.account /\ log[j].amount = e.amount
              /\ log[j].outcome \in {"approved", "declined"}
              /\ ~ Settled(log, log[j])
              /\ \A i \in DOMAIN log :
                    log[i].outcome \in {"approved", "declined"} =>
                       (Settled(es, log[i]) <=> Settled(log, log[i]) \/ i = j)
    BY <1>7, ClearingSettles
  <2>t. e.type = "cleared"
    BY <1>s, <1>7, TypeByOutcome
  <2> HIDE DEF es, AF, AT, DT, AF2, AT2, DT2
  <2>2. \A i : i \in AT2 <=> i \in AT \/ (i = j /\ e.account = a /\ log[j].outcome = "approved")
    BY <1>1, <1>7, <1>m, <1>M, <2>1
  <2>3. \A i : i \in DT2 <=> i \in DT \/ (i = j /\ e.account = a /\ log[j].outcome = "declined")
    BY <1>1, <1>7, <1>m, <1>M, <2>1
  <2>4. \A i : i \in AF <=> i \in AF2 \/ (i = j /\ e.account = a /\ log[j].outcome = "approved")
    BY <1>1, <1>7, <1>m, <1>M, <2>1
  <2>5. j \notin AT /\ j \notin DT /\ j \notin AF2
    BY <1>1, <1>m, <1>M, <2>1
  <2>6. CASE e.account # a
    <3>1. AT2 = AT /\ DT2 = DT /\ AF2 = AF
      BY <2>2, <2>3, <2>4, <2>6
    <3> QED
      BY <1>s, <1>3, <1>4, <1>5, <2>6, <3>1, SMTT(30) DEF es
  <2>7. CASE e.account = a /\ log[j].outcome = "approved"
    <3>1. AT2 = AT \cup {j} /\ DT2 = DT /\ AF = AF2 \cup {j}
      BY <2>2, <2>3, <2>4, <2>7
    <3>2. AF2 \in SUBSET DOMAIN log /\ AT2 \in SUBSET DOMAIN log
      BY <1>2, <2>1, <3>1
    <3>3. /\ Total(log, AT2) = e.amount + Total(log, AT)
          /\ Total(log, AF) = e.amount + Total(log, AF2)
          /\ Total(log, AF2) \in Int
      <4>1. Total(log, AT \cup {j}) = log[j].amount + Total(log, AT)
        BY <1>s, <1>2, <2>5, TotalOfMore
      <4>2. Total(log, AF2 \cup {j}) = log[j].amount + Total(log, AF2)
        BY <1>s, <2>5, <3>2, TotalOfMore
      <4>3. Total(log, AF2) \in Int
        BY <1>s, <3>2, Totals
      <4> QED
        BY <2>1, <3>1, <4>1, <4>2, <4>3
    <3>4. Total(es, AT2) = Total(log, AT2) /\ Total(es, AF2) = Total(log, AF2)
      BY <1>s, <3>2, Totals DEF es
    <3> DEFINE p1 == Total(log, AT)
               p2 == Total(log, DT)
               p3 == Total(log, AF2)
    <3>5. /\ Balance(log, a) = p1 + p2 - paid + back /\ Pending(log, a) = (e.amount + p3) - p2
          /\ Balance(es, a) = (e.amount + p1) + p2 - paid + back /\ Pending(es, a) = p3 - p2
          /\ p1 \in Int /\ p2 \in Int /\ p3 \in Int
      BY <1>3, <1>4, <1>5, <2>t, <3>1, <3>3, <3>4
    <3> HIDE DEF p1, p2, p3
    <3>6. /\ Balance(log, a) \in Int /\ Pending(log, a) \in Int
          /\ Balance(es, a) = Balance(log, a) + e.amount
          /\ Pending(es, a) = Pending(log, a) + (- e.amount)
      BY <1>s, <1>3, <3>5, SMTT(30)
    <3> QED
      BY <1>7, <2>7, <3>6 DEF es
  <2>8. CASE e.account = a /\ log[j].outcome = "declined"
    <3>1. AT2 = AT /\ DT2 = DT \cup {j} /\ AF = AF2
      BY <2>2, <2>3, <2>4, <2>8
    <3>2. DT2 \in SUBSET DOMAIN log
      BY <1>2, <2>1, <3>1
    <3>3. Total(log, DT2) = e.amount + Total(log, DT)
      <4>1. Total(log, DT \cup {j}) = log[j].amount + Total(log, DT)
        BY <1>s, <1>2, <2>5, TotalOfMore
      <4> QED
        BY <2>1, <3>1, <4>1
    <3>4. Total(es, DT2) = Total(log, DT2)
      BY <1>s, <3>2, Totals DEF es
    <3> DEFINE p1 == Total(log, AT)
               p2 == Total(log, DT)
               p3 == Total(log, AF)
    <3>5. /\ Balance(log, a) = p1 + p2 - paid + back /\ Pending(log, a) = p3 - p2
          /\ Balance(es, a) = p1 + (e.amount + p2) - paid + back
          /\ Pending(es, a) = p3 - (e.amount + p2)
          /\ p1 \in Int /\ p2 \in Int /\ p3 \in Int
      BY <1>3, <1>4, <1>5, <2>t, <3>1, <3>3, <3>4
    <3> HIDE DEF p1, p2, p3
    <3>6. /\ Balance(log, a) \in Int /\ Pending(log, a) \in Int
          /\ Balance(es, a) = Balance(log, a) + e.amount
          /\ Pending(es, a) = Pending(log, a) + (- e.amount)
      BY <1>s, <1>3, <3>5, SMTT(30)
    <3> QED
      BY <1>7, <2>8, <3>6 DEF es
  <2> QED
    BY <2>1, <2>6, <2>7, <2>8
<1> QED
  BY <1>4, <1>5, <1>3, <1>6, <1>7

Sound(log) == log \in Seq(EventType) /\ NothingTwice(log) /\ ClearsDecisions(log)

\* The books, in Int arithmetic.
WrappedBooks(log, a) == [balance |-> Wrap(Balance(log, a)), pending |-> Wrap(Pending(log, a))]

\* Books without events.
LEMMA BooksOfEmpty ==
    ASSUME NEW a PROVE Balance(<< >>, a) = 0 /\ Pending(<< >>, a) = 0
<1> DEFINE e0 == << >>
<1>1. DOMAIN e0 = {}
  OBVIOUS
<1> HIDE DEF e0
<1>2. \A outcome, settled, type :
         Decisions(e0, a, outcome, settled) = {} /\ PaymentEvents(e0, a, type) = {}
  BY <1>1 DEF Decisions, PaymentEvents
<1>3. Total(e0, {}) = 0
  BY SumOfEmpty DEF Total
<1>4. Balance(e0, a) = 0 + 0 - 0 + 0 /\ Pending(e0, a) = 0 - 0
  BY <1>2, <1>3 DEF Balance, Pending
<1> QED
  BY <1>4 DEF e0

\* What comes before the last event of a sound log is one, which it extends.
LEMMA PrefixOfSound ==
    ASSUME NEW n \in Nat, NEW log, Sound(log), Len(log) = n + 1
    PROVE  \E p, e : /\ log = Append(p, e) /\ Len(p) = n
                     /\ Sound(p) /\ SoundNext(p, e)
<1> DEFINE p == [i \in 1..n |-> log[i]]
           e == log[n + 1]
<1>1. log \in Seq(EventType) /\ DOMAIN log = 1..(n + 1)
  BY LenProperties DEF Sound
<1>2. e \in EventType /\ \A i \in 1..n : log[i] \in EventType
  <2>1. n + 1 \in DOMAIN log /\ \A i \in 1..n : i \in DOMAIN log
    BY <1>1
  <2> QED
    BY <1>1, <2>1, ElementOfDomain
<1>3. p \in Seq(EventType) /\ Len(p) = n /\ DOMAIN p = 1..n /\ \A i \in 1..n : p[i] = log[i]
  BY <1>2
<1> HIDE DEF p, e
<1>4. /\ Append(p, e) \in Seq(EventType) /\ Len(Append(p, e)) = n + 1
      /\ \A i \in 1..n : Append(p, e)[i] = p[i]
      /\ Append(p, e)[n + 1] = e
  BY <1>2, <1>3, AppendProperties
<1>5. log = Append(p, e)
  <2>1. \A i \in 1..(n + 1) : i \in 1..n \/ i = n + 1
    OBVIOUS
  <2>2. \A i \in 1..(n + 1) : log[i] = Append(p, e)[i]
    BY <1>3, <1>4, <2>1 DEF e
  <2> QED
    BY <1>1, <1>4, <2>2, SeqEqual
<1>6. NothingTwice(p)
  <2> SUFFICES ASSUME NEW i \in 1..n, NEW k \in 1..n, p[i].account = p[k].account,
                      p[i].type = p[k].type, p[i].ref = p[k].ref
               PROVE  i = k
    BY <1>3 DEF NothingTwice
  <2> i \in DOMAIN log /\ k \in DOMAIN log /\ log[i] = p[i] /\ log[k] = p[k]
    BY <1>1, <1>3
  <2> QED
    BY DEF Sound, NothingTwice
<1>7. ClearsDecisions(p)
  <2> SUFFICES ASSUME NEW i \in 1..n, p[i].type = "cleared"
               PROVE  \E j \in 1..(i-1) : /\ p[j].type = "decisioned"
                                          /\ p[j].account = p[i].account
                                          /\ p[j].ref = p[i].ref
                                          /\ p[j].amount = p[i].amount
    BY <1>3 DEF ClearsDecisions
  <2> i \in DOMAIN log /\ log[i] = p[i] /\ \A j \in 1..(i-1) : p[j] = log[j]
    BY <1>1, <1>3
  <2> QED
    BY ZenonT(30) DEF Sound, ClearsDecisions
<1> QED
  BY <1>2, <1>3, <1>5, <1>6, <1>7 DEF Sound, SoundNext

\* An event moves the projection as it moves the books.
LEMMA AppliedToBooks ==
    ASSUME NEW log, NEW e, SoundNext(log, e), NEW a
    PROVE  Applied(WrappedBooks(log, a), e, a) = WrappedBooks(Append(log, e), a)
<1> DEFINE es == Append(log, e)
           b == Balance(log, a)
           p == Pending(log, a)
           b2 == Balance(es, a)
           p2 == Pending(es, a)
<1>1. /\ b \in Int /\ p \in Int
      /\ b2 = b + (IF e.account # a THEN 0 ELSE
                   IF e.outcome = "CLEAN" \/ e.type = "paymentReturned" THEN e.amount ELSE
                   IF e.type = "paymentApplied" THEN - e.amount ELSE 0)
      /\ p2 = p + (IF e.account # a THEN 0 ELSE
                   IF e.outcome = "approved" THEN e.amount ELSE
                   IF e.outcome = "CLEAN" THEN - e.amount ELSE 0)
  BY BooksOfAppend
<1>2. WrappedBooks(log, a) = [balance |-> Wrap(b), pending |-> Wrap(p)]
  BY DEF WrappedBooks
<1>3. WrappedBooks(es, a) = [balance |-> Wrap(b2), pending |-> Wrap(p2)]
  BY DEF WrappedBooks
<1> HIDE DEF es, b, p, b2, p2
<1>4. e \in EventType /\ e.amount \in Int
  BY TypeByOutcome DEF SoundNext
<1>5. /\ Wrap(Wrap(b) + e.amount) = Wrap(b + e.amount) /\ Wrap(Wrap(b) - e.amount) = Wrap(b - e.amount)
      /\ Wrap(Wrap(p) + e.amount) = Wrap(p + e.amount) /\ Wrap(Wrap(p) - e.amount) = Wrap(p - e.amount)
  BY <1>1, <1>4, WrapSums
<1>6. b + 0 = b /\ p + 0 = p /\ b + (- e.amount) = b - e.amount /\ p + (- e.amount) = p - e.amount
  BY <1>1, <1>4
<1>7. CASE e.account # a
  <2>1. b2 = b /\ p2 = p
    BY <1>1, <1>6, <1>7
  <2> QED
    BY <1>2, <1>3, <1>7, <2>1 DEF Applied, es
<1>8. CASE e.account = a /\ e.outcome = "approved"
  <2>1. e.type = "decisioned"
    BY <1>4, <1>8, TypeByOutcome
  <2>2. b2 = b /\ p2 = p + e.amount
    BY <1>1, <1>6, <1>8, <2>1
  <2> QED
    BY <1>2, <1>3, <1>5, <1>8, <2>1, <2>2 DEF Applied, ApplyEvent, es
<1>9. CASE e.account = a /\ e.outcome = "CLEAN"
  <2>1. e.type = "cleared"
    BY <1>4, <1>9, TypeByOutcome
  <2>2. b2 = b + e.amount /\ p2 = p - e.amount
    BY <1>1, <1>6, <1>9, <2>1
  <2> QED
    BY <1>2, <1>3, <1>5, <1>9, <2>1, <2>2 DEF Applied, ApplyEvent, es
<1>10. CASE e.account = a /\ e.type = "paymentApplied"
  <2>1. e.outcome = "none"
    BY <1>4, <1>10, TypeByOutcome
  <2>2. b2 = b - e.amount /\ p2 = p
    BY <1>1, <1>6, <1>10, <2>1
  <2> QED
    BY <1>2, <1>3, <1>5, <1>10, <2>1, <2>2 DEF Applied, ApplyEvent, es
<1>11. CASE e.account = a /\ e.type = "paymentReturned"
  <2>1. e.outcome = "none"
    BY <1>4, <1>11, TypeByOutcome
  <2>2. b2 = b + e.amount /\ p2 = p
    BY <1>1, <1>6, <1>11, <2>1
  <2> QED
    BY <1>2, <1>3, <1>5, <1>11, <2>1, <2>2 DEF Applied, ApplyEvent, es
<1>12. CASE /\ e.account = a /\ e.outcome # "approved" /\ e.outcome # "CLEAN"
            /\ e.type # "paymentApplied" /\ e.type # "paymentReturned"
  <2>1. b2 = b /\ p2 = p
    BY <1>1, <1>6, <1>12
  <2> QED
    BY <1>2, <1>3, <1>12, <2>1 DEF Applied, ApplyEvent, es
<1> QED
  BY <1>7, <1>8, <1>9, <1>10, <1>11, <1>12

\* Of a sound log, the projection computes the books of every account.
LEMMA BooksOfSound ==
    ASSUME NEW log, Sound(log), NEW a
    PROVE  TransactionBalance(log, a) = WrappedBooks(log, a)
<1> DEFINE Agrees(l) == TransactionBalance(l, a) = WrappedBooks(l, a)
           N == {n \in Nat : \A l \in Seq(EventType) : Len(l) = n /\ Sound(l) => Agrees(l)}
<1>1. 0 \in N
  <2> SUFFICES ASSUME NEW l \in Seq(EventType), Len(l) = 0, Sound(l) PROVE Agrees(l)
    OBVIOUS
  <2>1. l = << >>
    BY EmptySeq
  <2>2. 0 \in ScalaInt
    BY IntHalfAssumption DEF ScalaInt
  <2>3. Wrap(0) = 0
    BY <2>2, WrapInRange
  <2>4. WrappedBooks(l, a) = NoBalance
    BY <2>1, <2>3, BooksOfEmpty DEF WrappedBooks, NoBalance
  <2> QED
    BY <2>1, <2>4, BalanceOfEmpty
<1>2. ASSUME NEW n \in Nat, n \in N PROVE n + 1 \in N
  <2> SUFFICES ASSUME NEW l \in Seq(EventType), Len(l) = n + 1, Sound(l) PROVE Agrees(l)
    OBVIOUS
  <2>1. PICK p, e : /\ l = Append(p, e) /\ Len(p) = n
                    /\ Sound(p) /\ SoundNext(p, e)
    BY PrefixOfSound
  <2>2. Agrees(p)
    BY <1>2, <2>1 DEF Sound
  <2>3. TransactionBalance(l, a) = Applied(TransactionBalance(p, a), e, a)
    BY <2>1, BalanceOfAppend DEF SoundNext
  <2> QED
    BY <2>1, <2>2, <2>3, AppliedToBooks
<1> HIDE DEF N
<1>3. Len(log) \in N
  <2>1. Len(log) \in Nat
    BY LenProperties DEF Sound
  <2> QED
    BY <1>1, <1>2, <2>1, NatSetInduction
<1> QED
  BY <1>3 DEF N, Sound

\* In every reachable state the projection is what the books say, whatever the
\* order of the events, and even if a sum does not fit an Int.
THEOREM LedgerProjectionIsBooks == Spec => []ProjectionIsBooks
<1>1. TypeOK /\ AtMostOnce /\ ClearedAfterDecision => ProjectionIsBooks
  BY BooksOfSound DEF TypeOK, AtMostOnce, ClearedAfterDecision, Sound, WrappedBooks,
                      ProjectionIsBooks
<1> QED
  BY <1>1, LedgerTypeCorrect, LedgerAtMostOnce, LedgerClearedAfterDecision, PTL

(***************************************************************************)
(* What one step does to an account.                                       *)
(***************************************************************************)

\* What a command appends.
LEMMA CommandAppends ==
    ASSUME TypeOK, NEW command \in CommandType, command.kind # "limitUpdated", Store(command)
    PROVE  /\ Accepts(command, events)
           /\ ResultOf(command, events) \in EventType
           /\ ResultOf(command, events).type = TypeFor[command.kind]
           /\ events' = Append(events, ResultOf(command, events))
           /\ Appended = ResultOf(command, events)
<1> DEFINE e == ResultOf(command, events)
<1>1. /\ e \in EventType /\ e.type = TypeFor[command.kind]
      /\ events' = Append(events, e) /\ Accepts(command, events)
  BY StoreStep DEF Store
<1>2. events \in Seq(EventType)
  BY DEF TypeOK
<1> HIDE DEF e
<1>3. Len(events') = Len(events) + 1 /\ events'[Len(events) + 1] = e
  BY <1>1, <1>2, AppendProperties
<1> QED
  BY <1>1, <1>3 DEF Appended, e

\* A step that makes the buffer longer executes one command.
LEMMA LongerByCommand ==
    ASSUME TypeOK, [Next]_vars, Len(events') > Len(events)
    PROVE  \E command \in CommandType :
              /\ ResultOf(command, events) \in EventType
              /\ events' = Append(events, ResultOf(command, events))
              /\ Appended = ResultOf(command, events)
<1>1. events' # events
  <2>1. Len(events) \in Nat
    BY LenProperties DEF TypeOK
  <2> QED
    BY <2>1
<1> QED
  BY <1>1, LedgerStep, CommandAppends

\* Clearing moves an amount from pending to balance, and no account ever owes
\* more or less by it, whatever was decided and whatever is settled.
THEOREM LedgerClearingKeepsOwed == Spec => ClearingKeepsOwed
<1>1. ASSUME TypeOK, [Next]_vars, NEW a \in Accounts,
             Len(events') > Len(events), Appended.type = "cleared"
      PROVE  Wrap(TransactionBalance(events, a).balance + TransactionBalance(events, a).pending)
           = Wrap(TransactionBalance(events', a).balance + TransactionBalance(events', a).pending)
  <2>1. PICK command \in CommandType :
              /\ ResultOf(command, events) \in EventType
              /\ events' = Append(events, ResultOf(command, events))
              /\ Appended = ResultOf(command, events)
    BY <1>1, LongerByCommand
  <2> DEFINE e == ResultOf(command, events)
             s == TransactionBalance(events, a)
             t == TransactionBalance(events', a)
  <2>2. s \in BalanceType /\ t = Applied(s, e, a)
    BY <1>1, <2>1, BalanceOfAppend DEF TypeOK
  <2>3. e \in EventType /\ e.type = "cleared" /\ e.amount \in Int
    BY <1>1, <2>1, TypeByOutcome
  <2>4. e.outcome # "approved"
    BY <2>3, TypeByOutcome
  <2> SUFFICES Wrap(s.balance + s.pending) = Wrap(t.balance + t.pending)
    OBVIOUS
  <2> HIDE DEF e, s, t
  <2>5. CASE e.account = a /\ e.outcome = "CLEAN"
    <3> DEFINE b == s.balance + e.amount
               p == s.pending - e.amount
    <3>1. t = [balance |-> Wrap(b), pending |-> Wrap(p)]
      BY <2>2, <2>3, <2>5 DEF Applied, ApplyEvent
    <3>0. s.balance \in Int /\ s.pending \in Int
      BY <2>2, ScalaIntIsInt DEF BalanceType
    <3>2. b \in Int /\ p \in Int /\ b + p = s.balance + s.pending
      BY <3>0, <2>3
    <3>3. t.balance = Wrap(b) /\ t.pending = Wrap(p)
      BY <3>1
    <3> HIDE DEF b, p
    <3>4. Wrap(p) \in Int
      BY <3>2, WrapOf, ScalaIntIsInt
    <3>5. Wrap(Wrap(b) + Wrap(p)) = Wrap(b + Wrap(p)) /\ Wrap(b + Wrap(p)) = Wrap(b + p)
      BY <3>2, <3>4, WrapSums
    <3> QED
      BY <3>2, <3>3, <3>5
  <2>6. CASE ~ (e.account = a /\ e.outcome = "CLEAN")
    <3>1. t = s
      BY <2>2, <2>3, <2>4, <2>6 DEF Applied, ApplyEvent
    <3> QED
      BY <3>1
  <2> QED
    BY <2>5, <2>6
<1>2. TypeOK /\ [Next]_vars => [\A a \in Accounts :
         (Len(events') > Len(events) /\ Appended.type = "cleared")
         => LET s == TransactionBalance(events, a)
                t == TransactionBalance(events', a)
            IN  Wrap(s.balance + s.pending) = Wrap(t.balance + t.pending)]_vars
  BY <1>1
<1> QED
  BY <1>2, LedgerTypeCorrect, PTL DEF Spec, ClearingKeepsOwed

(***************************************************************************)
(* The limits are those the commands bring.                                *)
(***************************************************************************)

LimitsFit == \A a \in Accounts : limit[a] \in ScalaInt

\* Every limit fits an Int.
LEMMA LimitsFitHolds == Spec => []LimitsFit
<1>1. Init => LimitsFit
  BY AmountAssumption DEF Init, LimitsFit
<1>2. TypeOK /\ LimitsFit /\ [Next]_vars => LimitsFit'
  <2> SUFFICES ASSUME TypeOK, LimitsFit, [Next]_vars PROVE LimitsFit'
    OBVIOUS
  <2>1. CASE UNCHANGED limit
    BY <2>1 DEF LimitsFit
  <2>2. CASE \E update \in Commands : UpdateLimit(update)
    <3>1. PICK update \in Commands : UpdateLimit(update)
      BY <2>2
    <3>2. update.amount \in ScalaInt
      BY AmountAssumption
    <3> QED
      BY <3>1, <3>2 DEF UpdateLimit, LimitsFit, TypeOK
  <2> QED
    BY <2>1, <2>2 DEF Next, Authorize, Clear, ProcessPayment, Store, vars
<1> QED
  BY <1>1, <1>2, LedgerTypeCorrect, PTL DEF Spec

\* The authorization that an appended approval comes from.
LEMMA ApprovalByAuthorize ==
    ASSUME TypeOK, [Next]_vars, Len(events') > Len(events), Appended.outcome = "approved"
    PROVE  \E request \in CommandType :
              /\ request.kind = "authorize" /\ request.account \in Accounts
              /\ request.limit = limit[request.account]
              /\ Accepts(request, events)
              /\ ResultOf(request, events) \in EventType
              /\ events' = Append(events, ResultOf(request, events))
              /\ Appended = ResultOf(request, events)
<1>t. events \in Seq(EventType) /\ Len(events) \in Nat
  BY LenProperties DEF TypeOK
<1>1. CASE \E request \in Commands : Authorize(request)
  <2>1. PICK request \in Commands : Authorize(request)
    BY <1>1
  <2> DEFINE r == [request EXCEPT !.limit = limit[request.account]]
  <2>2. /\ r \in CommandType /\ r.kind = "authorize" /\ r.account \in Accounts
        /\ r.limit = limit[r.account] /\ Store(r)
    BY <2>1 DEF Authorize, TypeOK, CommandType
  <2> HIDE DEF r
  <2> QED
    BY <2>2, CommandAppends
<1>2. CASE \E command \in Commands : Clear(command) \/ ProcessPayment(command)
  <2>1. PICK command \in Commands : /\ command.kind \in {"clear", "submitted", "returned"}
                                    /\ Store(command)
    BY <1>2 DEF Clear, ProcessPayment
  <2>2. command \in CommandType /\ command.kind # "limitUpdated"
    BY <2>1
  <2>3. TypeFor[command.kind] # "decisioned"
    BY <2>1 DEF TypeFor
  <2>4. Appended.type # "decisioned" /\ Appended \in EventType
    BY <2>1, <2>2, <2>3, CommandAppends
  <2> QED
    BY <2>4, TypeByOutcome
<1>3. CASE events' = events
  BY <1>t, <1>3
<1> QED
  BY <1>1, <1>2, <1>3 DEF Next, UpdateLimit, vars

\* What is approved leaves the account within the limit in force, unless the
\* amount owed no longer fits an Int.
THEOREM LedgerApprovalKeepsLimit == Spec => ApprovalKeepsLimit
<1>1. ASSUME TypeOK, AtMostOnce, ClearedAfterDecision, AtMostOnce', ClearedAfterDecision',
             LimitsFit, [Next]_vars, NEW a \in Accounts, Len(events') > Len(events),
             Appended.outcome = "approved", Appended.account = a
      PROVE  \/ Balance(events', a) + Pending(events', a) <= limit[a]
             \/ Balance(events', a) + Pending(events', a) > IntHalf - 1
  <2>1. PICK request \in CommandType :
              /\ request.kind = "authorize" /\ request.limit = limit[request.account]
              /\ Accepts(request, events)
              /\ ResultOf(request, events) \in EventType
              /\ events' = Append(events, ResultOf(request, events))
              /\ Appended = ResultOf(request, events)
    BY <1>1, ApprovalByAuthorize
  <2> DEFINE e == ResultOf(request, events)
             s == TransactionBalance(events, request.account)
             b == Balance(events, a)
             p == Pending(events, a)
             m == request.amount
  <2>2. e = Event("decisioned", request.account, request.ref, m, Decision(request, s))
    BY <2>1 DEF ResultOf, ProcessAuthorization
  <2>3. request.account = a /\ e.amount = m /\ Decision(request, s) = "approved"
    BY <1>1, <2>1, <2>2 DEF Event
  <2>4. RequestedBalance(request, s) <= limit[a]
    BY <2>1, <2>3 DEF Decision
  <2>5. s = [balance |-> Wrap(b), pending |-> Wrap(p)]
    BY <1>1, <2>3, BooksOfSound DEF Sound, TypeOK, AtMostOnce, ClearedAfterDecision, WrappedBooks
  <2>6. SoundNext(events, e)
    BY <1>1, <2>1 DEF SoundNext, TypeOK, AtMostOnce, ClearedAfterDecision
  <2>7. e.type = "decisioned" /\ e.outcome = "approved" /\ e.account = a
    BY <1>1, <2>1, <2>2 DEF Event
  <2>8. /\ b \in Int /\ p \in Int
        /\ Balance(events', a) = b + 0 /\ Pending(events', a) = p + m
    BY <2>1, <2>3, <2>6, <2>7, BooksOfAppend
  <2>9. m \in Int /\ limit[a] \in ScalaInt /\ limit[a] \in Int
    BY <1>1, ScalaIntIsInt DEF CommandType, LimitsFit
  <2> HIDE DEF b, p, e
  <2>10. RequestedBalance(request, s) = Wrap(Wrap(m + Wrap(b)) + Wrap(p))
    BY <2>5 DEF RequestedBalance
  <2> HIDE DEF m, s
  <2>11. /\ Wrap(m + Wrap(b)) = Wrap(m + b) /\ m + b \in Int /\ m + b + p \in Int
         /\ Wrap(p) \in Int
    <3>1. Wrap(m + Wrap(b)) = Wrap(m + b)
      BY <2>8, <2>9, WrapSums
    <3>2. Wrap(p) \in Int
      BY <2>8, WrapOf, ScalaIntIsInt
    <3> QED
      BY <2>8, <2>9, <3>1, <3>2
  <2>12. Wrap(Wrap(m + b) + Wrap(p)) = Wrap(m + b + p)
    <3>1. Wrap(Wrap(m + b) + Wrap(p)) = Wrap((m + b) + Wrap(p))
      BY <2>11, WrapSums
    <3>2. Wrap((m + b) + Wrap(p)) = Wrap((m + b) + p)
      BY <2>8, <2>11, WrapSums
    <3> QED
      BY <3>1, <3>2
  <2>13. Wrap(m + b + p) <= limit[a]
    BY <2>4, <2>10, <2>11, <2>12
  <2> DEFINE owed == m + b + p
  <2>14. Balance(events', a) + Pending(events', a) = owed /\ owed \in Int
    BY <2>8, <2>9
  <2>15. Wrap(owed) <= limit[a]
    BY <2>13
  <2> HIDE DEF owed
  <2>17. owed <= limit[a] \/ owed > IntHalf - 1
    <3>1. owed \in ScalaInt => owed <= limit[a]
      BY <2>15, WrapInRange
    <3> QED
      BY <2>9, <2>14, <3>1, BelowScalaInt
  <2> QED
    BY <2>14, <2>17
<1>2. /\ TypeOK /\ AtMostOnce /\ ClearedAfterDecision /\ AtMostOnce' /\ ClearedAfterDecision'
      /\ LimitsFit /\ [Next]_vars
      => [\A a \in Accounts :
             (/\ Len(events') > Len(events)
              /\ Appended.outcome = "approved"
              /\ Appended.account = a)
             => LET owed == Balance(events', a) + Pending(events', a)
                IN  owed <= limit[a] \/ owed > IntHalf - 1]_vars
  BY <1>1
<1> QED
  BY <1>2, LedgerTypeCorrect, LedgerAtMostOnce, LedgerClearedAfterDecision, LimitsFitHolds, PTL
     DEF Spec, ApprovalKeepsLimit
=============================================================================
