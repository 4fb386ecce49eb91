---------------------------- MODULE PaymentsProofs ----------------------------
(* Theorems about Payments, for any accounts, submissions and ids, any seed  *)
(* of the ledger, and any number of lost offsets and events and restarts.    *)
EXTENDS Payments, AggregateProofs

(***************************************************************************)
(* Part 1: sequences, and what the ledger's steps append.                  *)
(***************************************************************************)

\* The set of a sequence with one element more.
LEMMA AppendedElements ==
    ASSUME NEW S, NEW seq \in Seq(S), NEW e \in S
    PROVE  ToSet(Append(seq, e)) = ToSet(seq) \cup {e}
<1>1. /\ Len(seq) \in Nat /\ DOMAIN seq = 1..Len(seq)
      /\ DOMAIN Append(seq, e) = 1..(Len(seq) + 1)
      /\ Append(seq, e)[Len(seq) + 1] = e
      /\ \A i \in 1..Len(seq) : Append(seq, e)[i] = seq[i]
  BY AppendedEvent
<1>2. ToSet(Append(seq, e)) \subseteq ToSet(seq) \cup {e}
  BY <1>1 DEF ToSet
<1>3. ToSet(seq) \cup {e} \subseteq ToSet(Append(seq, e))
  BY <1>1 DEF ToSet
<1> QED
  BY <1>2, <1>3

\* A new element keeps a sequence injective.
LEMMA InjectiveAppend ==
    ASSUME NEW S, NEW seq \in Seq(S), NEW e \in S, IsInjective(seq), e \notin ToSet(seq)
    PROVE  IsInjective(Append(seq, e))
<1>1. /\ Len(seq) \in Nat /\ DOMAIN seq = 1..Len(seq)
      /\ DOMAIN Append(seq, e) = 1..(Len(seq) + 1)
      /\ Append(seq, e)[Len(seq) + 1] = e
      /\ \A i \in 1..Len(seq) : Append(seq, e)[i] = seq[i]
  BY AppendedEvent
<1>2. \A i \in 1..Len(seq) : seq[i] # e
  BY <1>1 DEF ToSet
<1> QED
  BY <1>1, <1>2 DEF IsInjective

\* The beginning of a sequence.
LEMMA Prefix ==
    ASSUME NEW S, NEW seq \in Seq(S), NEW n \in Nat, n <= Len(seq)
    PROVE  /\ SubSeq(seq, 1, n) \in Seq(S) /\ Len(SubSeq(seq, 1, n)) = n
           /\ \A i \in 1..n : SubSeq(seq, 1, n)[i] = seq[i]
<1>1. Len(seq) \in Nat /\ \A i \in 1..n : seq[i] \in S
  BY LenProperties, ElementOfDomain
<1> QED
  BY <1>1, SubSeqProperties

\* Ledger's operators are those of TransactionAggregate.
LEMMA SameAccepts ==
    ASSUME NEW c, NEW es
    PROVE  L!Accepts(c, es) <=> Accepts(c, es)
BY DEF L!Accepts, Accepts, L!TypeFor, TypeFor, L!Recorded, Recorded, L!HasEvents, HasEvents

\* Both instances of the aggregate decide alike.
LEMMA SameResult ==
    ASSUME NEW c, NEW es
    PROVE  L!ResultOf(c, es) = ResultOf(c, es)
<1>1. \A t, a, r, n, o : L!Event(t, a, r, n, o) = Event(t, a, r, n, o)
  BY DEF L!Event, Event
<1>2. L!ProcessAuthorization(c, es) = ProcessAuthorization(c, es)
  <2>1. \A n : L!Wrap(n) = Wrap(n)
    BY DEF L!Wrap, Wrap
  <2>2. \A state, e : L!ApplyEvent(state, e) = ApplyEvent(state, e)
    BY <2>1 DEF L!ApplyEvent, ApplyEvent
  <2>3. L!NoBalance = NoBalance
    BY DEF L!NoBalance, NoBalance
  <2>4. L!TransactionBalance(es, c.account) = TransactionBalance(es, c.account)
    BY <2>2, <2>3 DEF L!TransactionBalance, TransactionBalance, L!FoldLeft, FoldLeft,
                      L!MapThenFoldSet, MapThenFoldSet, L!Max, Max
  <2>5. \A state : L!Decision(c, state) = Decision(c, state)
    BY <2>1 DEF L!Decision, Decision, L!RequestedBalance, RequestedBalance
  <2> QED
    BY <1>1, <2>4, <2>5 DEF L!ProcessAuthorization, ProcessAuthorization
<1>3. L!ClearTransaction(c, es) = ClearTransaction(c, es)
  <2>1. L!AuthedTransaction(es, c) = AuthedTransaction(es, c)
    BY DEF L!AuthedTransaction, AuthedTransaction, L!SelectInSeq, SelectInSeq, L!Min, Min
  <2> QED
    BY <1>1, <2>1 DEF L!ClearTransaction, ClearTransaction, L!SettlementCode, SettlementCode
<1>4. /\ L!ApplyPayment(c, es) = ApplyPayment(c, es)
      /\ L!ApplyReturnedPayment(c, es) = ApplyReturnedPayment(c, es)
  BY <1>1 DEF L!ApplyPayment, ApplyPayment, L!ApplyReturnedPayment, ApplyReturnedPayment
<1> QED
  BY <1>2, <1>3, <1>4 DEF L!ResultOf, ResultOf

\* What a step of the ledger appends.
LEMMA LedgerAppends ==
    ASSUME NEW command \in CommandType, command.kind # "limitUpdated",
           events \in Seq(EventType), L!Store(command)
    PROVE  /\ Accepts(command, events)
           /\ ResultOf(command, events) \in EventType
           /\ ResultOf(command, events).type = TypeFor[command.kind]
           /\ ResultOf(command, events).account = command.account
           /\ events' = Append(events, ResultOf(command, events))
           /\ limit' = limit
<1>1. Accepts(command, events)
  BY SameAccepts DEF L!Store
<1> QED
  BY <1>1, SameResult, ResultOfCommand DEF L!Store

(***************************************************************************)
(* Part 2: types, and how many payments there are.                         *)
(***************************************************************************)

\* TypeOK, but for the balance in hand, which is a fold over sequences.
Typed ==
    /\ consumer \in {"idle", "ask", "check", "publish", "dead"}
    /\ submission \in Seq(SubmissionType)
    /\ submission = << >> <=> consumer \in {"idle", "dead"}
    /\ store \in Seq(PaymentType) /\ offset \in 0..Len(Submissions)
    /\ published \in Seq(PaymentType)
    /\ events \in Seq(EventType) /\ limit \in [Accounts -> Int]
    /\ applied \in 0..Len(published)
    /\ made \in Seq(PaymentType)
    /\ unsent \subseteq PaymentType /\ resets \in 0..MaxResets /\ crashes \in Nat

\* Each time the topic is gone through it yields at most one payment per record.
CountInv ==
    Len(made) + (IF consumer \in {"ask", "check"} THEN 1 ELSE 0) <= resets * Len(Submissions) + offset

\* The ids are drawn in their order; the payment about to be published is the
\* last one in the store, the last one made, and new to the topic.
MadeInv ==
    /\ \A i \in DOMAIN made : i \in DOMAIN PaymentIds /\ made[i].id = PaymentIds[i]
    /\ consumer = "publish" =>
          /\ store # << >> /\ made # << >>
          /\ Last(store) = Last(made) /\ Last(made) \notin ToSet(published)

Shape == Typed /\ CountInv /\ MadeInv /\ StoredIsPublished

\* There is an id left for the payment that the record in hand may become.
LEMMA IdLeft ==
    ASSUME Typed, CountInv, consumer \in {"ask", "check"}
    PROVE  Len(made) + 1 \in DOMAIN PaymentIds
<1> DEFINE n == Len(Submissions)
           p == Len(PaymentIds)
           k == Len(made)
<1>1. n \in Nat /\ p \in Nat /\ k \in Nat /\ DOMAIN PaymentIds = 1..p
  BY PaymentsAssumption, LenProperties DEF Typed
<1>2. resets \in Nat /\ MaxResets \in Nat /\ resets <= MaxResets /\ n * (MaxResets + 1) <= p
  BY PaymentsAssumption DEF Typed
<1>3. k + 1 <= resets * n + offset /\ offset \in 0..n
  BY DEF Typed, CountInv
<1> HIDE DEF n, p, k
<1>4. resets * n + n = n * (resets + 1) /\ resets * n \in Nat
  BY <1>1, <1>2
<1>5. n * (resets + 1) <= n * (MaxResets + 1)
  BY <1>1, <1>2
<1>6. n * (MaxResets + 1) \in Nat /\ n * (resets + 1) \in Nat
  BY <1>1, <1>2
<1>7. k + 1 <= p
  BY <1>1, <1>2, <1>3, <1>4, <1>5, <1>6
<1> QED
  BY <1>1, <1>7 DEF p, k

\* The record in hand, and the payment it may become.
LEMMA PaymentInHand ==
    ASSUME Typed, CountInv, consumer \in {"ask", "check"}
    PROVE  Payment \in PaymentType /\ Payment.id = PaymentIds[Len(made) + 1]
<1>1. submission \in Seq(SubmissionType) /\ submission # << >>
  BY DEF Typed
<1>2. Submission \in SubmissionType
  BY <1>1, HeadTailProperties DEF Submission
<1>3. PaymentIds[Len(made) + 1] \in STRING
  BY IdLeft, PaymentsAssumption, ElementOfDomain
<1> QED
  BY <1>2, <1>3 DEF Payment, PaymentType, SubmissionType

\* The end of a sequence that is not empty.
LEMMA LastElement ==
    ASSUME NEW S, NEW seq \in Seq(S), seq # << >>
    PROVE  Last(seq) \in S /\ Last(seq) = seq[Len(seq)] /\ Len(seq) \in DOMAIN seq
<1>1. Len(seq) \in Nat \ {0} /\ DOMAIN seq = 1..Len(seq)
  BY LenProperties, EmptySeq
<1>2. Len(seq) \in DOMAIN seq
  BY <1>1
<1> QED
  BY <1>2, ElementOfDomain DEF Last

\* What was appended is last.
LEMMA LastAppended ==
    ASSUME NEW S, NEW seq \in Seq(S), NEW e \in S
    PROVE  Append(seq, e) # << >> /\ Last(Append(seq, e)) = e
<1>1. /\ Append(seq, e) \in Seq(S) /\ Len(seq) \in Nat
      /\ DOMAIN Append(seq, e) = 1..(Len(seq) + 1) /\ Append(seq, e)[Len(seq) + 1] = e
  BY AppendedEvent
<1>2. Len(Append(seq, e)) = Len(seq) + 1
  BY <1>1, LenProperties
<1>3. Append(seq, e) # << >>
  BY <1>1, <1>2, EmptySeq
<1> QED
  BY <1>1, <1>2, <1>3 DEF Last

\* The services start in shape.
LEMMA InitShape == ASSUME Init PROVE Shape
<1>1. << >> \in Seq(SubmissionType) /\ << >> \in Seq(PaymentType)
  BY EmptySeq
<1>2. Len(<< >>) = 0
  BY EmptySeq
<1>3. DOMAIN << >> = {}
  BY <1>1, <1>2, LenProperties
<1>4. Len(Submissions) \in Nat /\ MaxResets \in Nat
  BY PaymentsAssumption, LenProperties
<1>5. events = SeedEvents /\ limit = SeedLimit
  BY DEF Init, L!Init
<1>6. Typed
  <2>1. events \in Seq(EventType) /\ limit \in [Accounts -> Int]
    BY <1>5, PaymentsAssumption
  <2>2. offset \in 0..Len(Submissions) /\ resets \in 0..MaxResets
    BY <1>4 DEF Init
  <2>3. applied \in 0..Len(published)
    BY <1>2 DEF Init
  <2>4. /\ submission \in Seq(SubmissionType) /\ store \in Seq(PaymentType)
        /\ published \in Seq(PaymentType) /\ made \in Seq(PaymentType)
        /\ submission = << >> /\ consumer = "idle" /\ unsent = {} /\ crashes = 0
    BY <1>1 DEF Init
  <2> QED
    BY <2>1, <2>2, <2>3, <2>4 DEF Typed
<1>7. CountInv
  BY <1>2, <1>4 DEF Init, CountInv
<1>8. MadeInv
  BY <1>3 DEF Init, MadeInv
<1>9. StoredIsPublished
  <2>1. made = << >> /\ published = << >> /\ ToSet(published) = {}
    BY <1>3 DEF Init, ToSet
  <2>2. IsInjective(published)
    BY <1>3, <2>1 DEF IsInjective
  <2>3. Len(SeedEvents) \in Nat
    BY PaymentsAssumption, LenProperties
  <2>4. (Len(SeedEvents) + 1)..Len(events) = {}
    BY <1>5, <2>3
  <2> QED
    BY <1>3, <2>1, <2>2, <2>4 DEF StoredIsPublished
<1> QED
  BY <1>6, <1>7, <1>8, <1>9 DEF Shape

(***************************************************************************)
(* Part 3: what is stored is published.                                    *)
(***************************************************************************)

\* Steps that neither store nor publish a payment, nor change an account.
LEMMA QuietStep ==
    ASSUME Shape, UNCHANGED <<made, store, published, unsent, events>>, crashes' = crashes,
           consumer' = "publish" <=> consumer = "publish"
    PROVE  MadeInv' /\ StoredIsPublished'
<1>1. MadeInv'
  BY DEF Shape, MadeInv
<1>2. StoredIsPublished'
  BY DEF Shape, StoredIsPublished
<1> QED
  BY <1>1, <1>2

\* The payments loop takes a record or refuses it.
LEMMA LoopShape ==
    ASSUME Shape, Take \/ TakeFails \/ AskBalance \/ AskFails \/ AskThrows \/ Refuse \/ UnknownSource
    PROVE  Shape'
<1>1. /\ UNCHANGED <<made, store, published, unsent, events, limit, applied, resets, crashes>>
      /\ consumer # "publish" /\ consumer' \in {"idle", "ask", "check", "dead"}
  BY DEF Take, TakeFails, AskBalance, AskFails, AskThrows, Refuse, UnknownSource, Dies, Done, Forget,
         historyVars, ledgerVars, boundVars
<1>2. MadeInv' /\ StoredIsPublished'
  BY <1>1, QuietStep
<1>3. Len(Submissions) \in Nat /\ DOMAIN Submissions = 1..Len(Submissions) /\ offset \in 0..Len(Submissions)
  BY PaymentsAssumption, LenProperties DEF Shape, Typed
<1>4. Len(made) \in Nat /\ resets * Len(Submissions) \in Int
  BY <1>3, PaymentsAssumption, LenProperties DEF Shape, Typed
<1>5. /\ submission' \in Seq(SubmissionType)
      /\ submission' = << >> <=> consumer' \in {"idle", "dead"}
      /\ offset' \in 0..Len(Submissions)
  <2>1. CASE Take
    <3>1. offset + 1 \in DOMAIN Submissions /\ offset' \in 0..Len(Submissions)
      BY <2>1, <1>3 DEF Take
    <3>2. Submissions[offset + 1] \in SubmissionType
      BY <3>1, PaymentsAssumption, ElementOfDomain
    <3> QED
      BY <2>1, <3>1, <3>2 DEF Take
  <2>2. CASE AskBalance \/ AskFails
    BY <2>2 DEF AskBalance, AskFails, Shape, Typed
  <2>3. CASE TakeFails \/ AskThrows \/ Refuse \/ UnknownSource
    <3>1. << >> \in Seq(SubmissionType)
      BY EmptySeq
    <3> QED
      BY <2>3, <3>1, <1>3 DEF TakeFails, AskThrows, Refuse, UnknownSource, Dies, Done, Forget
  <2> QED
    BY <2>1, <2>2, <2>3
<1>6. Typed'
  BY <1>1, <1>5 DEF Shape, Typed
<1>7. CountInv'
  <2>1. CASE Take
    BY <2>1, <1>1, <1>3, <1>4 DEF Take, Shape, CountInv
  <2>2. CASE AskBalance \/ AskFails
    BY <2>2, <1>1 DEF AskBalance, AskFails, Shape, CountInv
  <2>3. CASE TakeFails \/ AskThrows \/ Refuse \/ UnknownSource
    <3>1. offset' \in {offset, offset + 1} /\ consumer' \in {"idle", "dead"}
      BY <2>3 DEF TakeFails, AskThrows, Refuse, UnknownSource, Dies, Done, Forget
    <3> QED
      BY <3>1, <1>1, <1>3, <1>4 DEF Shape, CountInv
  <2> QED
    BY <2>1, <2>2, <2>3
<1> QED
  BY <1>2, <1>6, <1>7 DEF Shape

\* A payment is stored.
LEMMA StoreShape == ASSUME Shape, StorePayment PROVE Shape'
<1>1. /\ consumer = "check" /\ consumer' = "publish"
      /\ store' = Append(store, Payment) /\ made' = Append(made, Payment)
      /\ UNCHANGED <<submission, offset, published, events, limit, applied, unsent, resets, crashes>>
  BY DEF StorePayment, ledgerVars, boundVars
<1>2. Payment \in PaymentType /\ Payment.id = PaymentIds[Len(made) + 1]
  BY <1>1, PaymentInHand DEF Shape
<1>3. Len(made) + 1 \in DOMAIN PaymentIds
  BY <1>1, IdLeft DEF Shape
<1>4. /\ made \in Seq(PaymentType) /\ made' \in Seq(PaymentType) /\ Len(made) \in Nat
      /\ DOMAIN made = 1..Len(made) /\ DOMAIN made' = 1..(Len(made) + 1)
      /\ made'[Len(made) + 1] = Payment
      /\ \A i \in 1..Len(made) : made'[i] = made[i]
  BY <1>1, <1>2, AppendedEvent DEF Shape, Typed
<1>5. Len(made') = Len(made) + 1
  BY <1>4, LenProperties
<1>6. ToSet(made') = ToSet(made) \cup {Payment}
  BY <1>1, <1>2, AppendedElements DEF Shape, Typed
<1>7. Payment \notin ToSet(made)
  <2> SUFFICES ASSUME NEW i \in DOMAIN made, made[i] = Payment PROVE FALSE
    BY DEF ToSet
  <2>1. i \in DOMAIN PaymentIds /\ PaymentIds[i] = PaymentIds[Len(made) + 1]
    BY <1>2 DEF Shape, MadeInv
  <2>2. i = Len(made) + 1
    BY <2>1, <1>3, PaymentsAssumption DEF IsInjective
  <2> QED
    BY <2>2, <1>4
<1>8. /\ store' \in Seq(PaymentType) /\ store' # << >> /\ made' # << >>
      /\ Last(store') = Payment /\ Last(made') = Payment
  <2>1. store \in Seq(PaymentType) /\ store' \in Seq(PaymentType)
    BY <1>1, <1>2, AppendProperties DEF Shape, Typed
  <2> QED
    BY <1>1, <1>2, <1>4, <2>1, LastAppended
<1>9. Typed'
  BY <1>1, <1>4, <1>8 DEF Shape, Typed
<1>10. CountInv'
  BY <1>1, <1>5 DEF Shape, CountInv
<1>11. MadeInv'
  <2>1. \A i \in DOMAIN made' : i \in DOMAIN PaymentIds /\ made'[i].id = PaymentIds[i]
    BY <1>2, <1>3, <1>4 DEF Shape, MadeInv
  <2>2. Last(made') \notin ToSet(published')
    BY <1>1, <1>7, <1>8 DEF Shape, StoredIsPublished
  <2> QED
    BY <2>1, <2>2, <1>8 DEF MadeInv
<1>12. StoredIsPublished'
  <2>1. crashes' = 0 => \A i \in DOMAIN made' : \/ made'[i] \in ToSet(published') \cup unsent'
                                                \/ i = Len(made') /\ consumer' = "publish"
    BY <1>1, <1>4, <1>5 DEF Shape, StoredIsPublished
  <2>2. ToSet(published') \subseteq ToSet(made') /\ IsInjective(published')
    BY <1>1, <1>6 DEF Shape, StoredIsPublished
  <2>3. \A i \in (Len(SeedEvents) + 1)..Len(events') : events'[i].type = "paymentApplied" =>
          \E p \in ToSet(made') : events'[i] = ResultOf(Submitted(p), events')
    BY <1>1, <1>6 DEF Shape, StoredIsPublished
  <2> QED
    BY <2>1, <2>2, <2>3 DEF StoredIsPublished
<1> QED
  BY <1>9, <1>10, <1>11, <1>12 DEF Shape

\* A payment is published, or not.
LEMMA PublishShape == ASSUME Shape, Publish \/ PublishFails PROVE Shape'
<1>1. /\ consumer = "publish" /\ consumer' = "idle" /\ submission' = << >>
      /\ UNCHANGED <<store, made, offset, events, limit, applied, resets, crashes>>
      /\ published' \in {published, Append(published, Last(store))}
      /\ unsent \subseteq unsent' /\ unsent' \subseteq unsent \cup {Last(store)}
      /\ published' = Append(published, Last(store)) \/ Last(store) \in unsent'
  BY DEF Publish, PublishFails, Done, Forget, ledgerVars, historyVars, boundVars
<1>2. /\ made # << >> /\ Last(store) = Last(made) /\ Last(made) \notin ToSet(published)
      /\ made \in Seq(PaymentType) /\ published \in Seq(PaymentType)
  BY <1>1 DEF Shape, MadeInv, Typed
<1>3. Last(made) \in PaymentType /\ Last(made) = made[Len(made)] /\ Len(made) \in DOMAIN made
  BY <1>2, LastElement
<1>4. Last(made) \in ToSet(made)
  BY <1>3 DEF ToSet
<1>5. /\ Append(published, Last(made)) \in Seq(PaymentType)
      /\ ToSet(Append(published, Last(made))) = ToSet(published) \cup {Last(made)}
      /\ Len(Append(published, Last(made))) = Len(published) + 1
  BY <1>2, <1>3, AppendProperties, AppendedElements
<1>6. IsInjective(Append(published, Last(made)))
  BY <1>2, <1>3, InjectiveAppend DEF Shape, StoredIsPublished
<1>7. Len(published) \in Nat /\ applied \in 0..Len(published)
  BY LenProperties DEF Shape, Typed
<1>8. /\ published' \in Seq(PaymentType) /\ applied' \in 0..Len(published')
      /\ unsent' \subseteq PaymentType
  <2>1. applied \in 0..(Len(published) + 1)
    BY <1>7
  <2>2. unsent \subseteq PaymentType
    BY DEF Shape, Typed
  <2>3. unsent' \subseteq PaymentType
    BY <1>1, <1>2, <1>3, <2>2
  <2> QED
    BY <1>1, <1>2, <1>5, <1>7, <2>1, <2>3
<1>9. Typed'
  <2>1. << >> \in Seq(SubmissionType)
    BY EmptySeq
  <2> QED
    BY <1>1, <1>8, <2>1 DEF Shape, Typed
<1>10. CountInv'
  BY <1>1 DEF Shape, CountInv
<1>11. MadeInv'
  BY <1>1 DEF Shape, MadeInv
<1>12. StoredIsPublished'
  <2>1. /\ ToSet(published) \subseteq ToSet(published')
        /\ ToSet(published') \subseteq ToSet(published) \cup {Last(made)}
        /\ IsInjective(published')
    BY <1>1, <1>2, <1>5, <1>6 DEF Shape, StoredIsPublished
  <2>2. Last(made) \in ToSet(published') \cup unsent'
    BY <1>1, <1>2, <1>5
  <2>3. crashes' = 0 => \A i \in DOMAIN made' : \/ made'[i] \in ToSet(published') \cup unsent'
                                                \/ i = Len(made') /\ consumer' = "publish"
    <3> SUFFICES ASSUME crashes = 0, NEW i \in DOMAIN made
                 PROVE  made[i] \in ToSet(published') \cup unsent'
      BY <1>1
    <3>1. made[i] \in ToSet(published) \cup unsent \/ i = Len(made)
      BY DEF Shape, StoredIsPublished
    <3> QED
      BY <3>1, <2>1, <2>2, <1>1, <1>3
  <2>4. ToSet(published') \subseteq ToSet(made')
    BY <1>1, <1>4, <2>1 DEF Shape, StoredIsPublished
  <2>5. \A i \in (Len(SeedEvents) + 1)..Len(events') : events'[i].type = "paymentApplied" =>
          \E p \in ToSet(made') : events'[i] = ResultOf(Submitted(p), events')
    BY <1>1 DEF Shape, StoredIsPublished
  <2> QED
    BY <2>1, <2>3, <2>4, <2>5 DEF StoredIsPublished
<1> QED
  BY <1>9, <1>10, <1>11, <1>12 DEF Shape

\* The transactions service applies a payment.
LEMMA ApplyShape == ASSUME Shape, Apply PROVE Shape'
<1> DEFINE p == published[applied + 1]
<1>1. /\ applied < Len(published) /\ applied' = applied + 1
      /\ L!Store(Submitted(p))
      /\ UNCHANGED <<consumer, submission, store, offset, published, made, unsent, resets, crashes>>
  BY DEF Apply, L!ProcessPayment, consumerVars, historyVars, boundVars
<1>2. /\ Len(published) \in Nat /\ DOMAIN published = 1..Len(published)
      /\ applied \in 0..Len(published)
  BY LenProperties DEF Shape, Typed
<1>3. applied + 1 \in DOMAIN published /\ applied' \in 0..Len(published)
  BY <1>1, <1>2
<1>4. p \in PaymentType /\ p \in ToSet(published)
  BY <1>3, ElementOfDomain DEF Shape, Typed, ToSet
<1> HIDE DEF p
<1>5. Submitted(p) \in CommandType /\ Submitted(p).kind = "submitted"
  BY <1>4 DEF Submitted, CommandType, Kinds, PaymentType
<1> DEFINE e == ResultOf(Submitted(p), events)
<1>6. /\ e \in EventType /\ events' = Append(events, e) /\ limit' = limit
      /\ \A es : e = ResultOf(Submitted(p), es)
  <2>1. events \in Seq(EventType) /\ Submitted(p).kind # "limitUpdated"
    BY <1>5 DEF Shape, Typed
  <2>2. \A es : e = ResultOf(Submitted(p), es)
    BY DEF ResultOf, Submitted, ApplyPayment
  <2> QED
    BY <1>1, <1>5, <2>1, <2>2, LedgerAppends
<1> HIDE DEF e
<1>7. /\ events' \in Seq(EventType) /\ Len(events) \in Nat
      /\ events'[Len(events) + 1] = e
      /\ \A i \in 1..Len(events) : events'[i] = events[i]
      /\ Len(events') = Len(events) + 1
  BY <1>6, AppendProperties, LenProperties DEF Shape, Typed
<1>8. Typed'
  BY <1>1, <1>3, <1>6, <1>7 DEF Shape, Typed
<1>9. CountInv' /\ MadeInv'
  BY <1>1 DEF Shape, CountInv, MadeInv
<1>10. \A i \in (Len(SeedEvents) + 1)..Len(events') : events'[i].type = "paymentApplied" =>
          \E q \in ToSet(made') : events'[i] = ResultOf(Submitted(q), events')
  <2> SUFFICES ASSUME NEW i \in (Len(SeedEvents) + 1)..Len(events'), events'[i].type = "paymentApplied"
               PROVE  \E q \in ToSet(made) : events'[i] = ResultOf(Submitted(q), events')
    BY <1>1
  <2>1. Len(SeedEvents) \in Nat
    BY PaymentsAssumption, LenProperties
  <2>2. CASE i = Len(events) + 1
    <3>1. p \in ToSet(made)
      BY <1>4 DEF Shape, StoredIsPublished
    <3> QED
      BY <2>2, <3>1, <1>6, <1>7
  <2>3. CASE i <= Len(events)
    <3>1. i \in (Len(SeedEvents) + 1)..Len(events) /\ i \in 1..Len(events)
      BY <2>1, <2>3, <1>7
    <3>2. PICK q \in ToSet(made) : events[i] = ResultOf(Submitted(q), events)
      BY <3>1, <1>7 DEF Shape, StoredIsPublished
    <3>3. ResultOf(Submitted(q), events') = ResultOf(Submitted(q), events)
      BY DEF ResultOf, Submitted, ApplyPayment
    <3> QED
      BY <3>1, <3>2, <3>3, <1>7
  <2> QED
    BY <2>1, <2>2, <2>3, <1>7
<1>11. StoredIsPublished'
  BY <1>1, <1>10 DEF Shape, StoredIsPublished
<1> QED
  BY <1>8, <1>9, <1>11 DEF Shape

\* A card transaction beside the payments.
LEMMA CardShape == ASSUME Shape, CardTransaction PROVE Shape'
<1>1. /\ UNCHANGED <<consumer, submission, store, offset, published, made, unsent, applied, resets, crashes>>
      /\ \E c \in CardCommands : L!Authorize(c) \/ L!Clear(c)
  BY DEF CardTransaction, consumerVars, historyVars, boundVars
<1>2. \E c \in CommandType : c.kind \in {"authorize", "clear"} /\ L!Store(c)
  <2>1. PICK c \in CardCommands : L!Authorize(c) \/ L!Clear(c)
    BY <1>1
  <2>2. c \in CommandType
    BY PaymentsAssumption
  <2>3. CASE L!Clear(c)
    BY <2>2, <2>3 DEF L!Clear
  <2>4. CASE L!Authorize(c)
    <3>1. c.account \in Accounts /\ c.kind = "authorize" /\ limit \in [Accounts -> Int]
      BY <2>4 DEF L!Authorize, Shape, Typed
    <3>2. limit[c.account] \in Int
      BY <3>1
    <3>3. [c EXCEPT !.limit = limit[c.account]] \in CommandType
          /\ [c EXCEPT !.limit = limit[c.account]].kind = "authorize"
      BY <2>2, <3>1, <3>2 DEF CommandType
    <3> QED
      BY <2>4, <3>3 DEF L!Authorize
  <2> QED
    BY <2>1, <2>3, <2>4
<1>3. PICK c \in CommandType : c.kind \in {"authorize", "clear"} /\ L!Store(c)
  BY <1>2
<1> DEFINE e == ResultOf(c, events)
<1>4. /\ e \in EventType /\ events' = Append(events, e) /\ limit' = limit
      /\ e.type \in {"decisioned", "cleared"}
  <2>1. events \in Seq(EventType) /\ c.kind # "limitUpdated"
    BY <1>3 DEF Shape, Typed
  <2> QED
    BY <1>3, <2>1, LedgerAppends DEF TypeFor
<1> HIDE DEF e
<1>5. /\ events' \in Seq(EventType) /\ Len(events) \in Nat
      /\ events'[Len(events) + 1] = e
      /\ \A i \in 1..Len(events) : events'[i] = events[i]
      /\ Len(events') = Len(events) + 1
  BY <1>4, AppendProperties, LenProperties DEF Shape, Typed
<1>6. Typed'
  BY <1>1, <1>4, <1>5 DEF Shape, Typed
<1>7. CountInv' /\ MadeInv'
  BY <1>1 DEF Shape, CountInv, MadeInv
<1>8. \A i \in (Len(SeedEvents) + 1)..Len(events') : events'[i].type = "paymentApplied" =>
          \E q \in ToSet(made') : events'[i] = ResultOf(Submitted(q), events')
  <2> SUFFICES ASSUME NEW i \in (Len(SeedEvents) + 1)..Len(events'), events'[i].type = "paymentApplied"
               PROVE  \E q \in ToSet(made) : events'[i] = ResultOf(Submitted(q), events')
    BY <1>1
  <2>1. Len(SeedEvents) \in Nat
    BY PaymentsAssumption, LenProperties
  <2>2. i # Len(events) + 1
    BY <1>4, <1>5
  <2>3. i \in (Len(SeedEvents) + 1)..Len(events) /\ i \in 1..Len(events)
    BY <2>1, <2>2, <1>5
  <2>4. PICK q \in ToSet(made) : events[i] = ResultOf(Submitted(q), events)
    BY <2>3, <1>5 DEF Shape, StoredIsPublished
  <2>5. ResultOf(Submitted(q), events') = ResultOf(Submitted(q), events)
    BY DEF ResultOf, Submitted, ApplyPayment
  <2> QED
    BY <2>3, <2>4, <2>5, <1>5
<1>9. StoredIsPublished'
  BY <1>1, <1>8 DEF Shape, StoredIsPublished
<1> QED
  BY <1>6, <1>7, <1>9 DEF Shape

\* The transactions service drops a record, or goes back to the first.
LEMMA DropShape == ASSUME Shape, Drop \/ ResetApplied PROVE Shape'
<1>1. /\ applied' = 0 \/ (applied < Len(published) /\ applied' = applied + 1)
      /\ UNCHANGED <<consumer, submission, store, offset, published, events, limit, made, unsent,
                     resets, crashes>>
  BY DEF Drop, ResetApplied, consumerVars, historyVars, boundVars
<1>2. applied' \in 0..Len(published')
  BY <1>1, LenProperties DEF Shape, Typed
<1> QED
  BY <1>1, <1>2, QuietStep DEF Shape, Typed, CountInv

\* The transactions service loses events.
LEMMA LossShape == ASSUME Shape, LoseEvents \/ RestartTransactions PROVE Shape'
<1>1. UNCHANGED <<consumer, submission, store, offset, published, limit, applied, made, unsent,
                  resets, crashes>>
  BY DEF LoseEvents, RestartTransactions, Endangered
<1>2. /\ events \in Seq(EventType) /\ Len(events) \in Nat
      /\ SeedEvents \in Seq(EventType) /\ Len(SeedEvents) \in Nat
  BY PaymentsAssumption, LenProperties DEF Shape, Typed
<1>3. /\ events' \in Seq(EventType)
      /\ \A i \in (Len(SeedEvents) + 1)..Len(events') : i \in 1..Len(events) /\ events'[i] = events[i]
  <2>1. CASE LoseEvents
    <3>1. PICK n \in Len(SeedEvents)..(Len(events) - 1) : events' = SubSeq(events, 1, n)
      BY <2>1 DEF LoseEvents
    <3>2. n \in Nat /\ n <= Len(events)
      BY <3>1, <1>2
    <3>3. /\ events' \in Seq(EventType) /\ Len(events') = n
          /\ \A i \in 1..n : events'[i] = events[i]
      BY <3>1, <3>2, <1>2, Prefix
    <3> QED
      BY <3>2, <3>3, <1>2
  <2>2. CASE RestartTransactions
    <3>1. events' = SeedEvents
      BY <2>2 DEF RestartTransactions
    <3> QED
      BY <3>1, <1>2
  <2> QED
    BY <2>1, <2>2
<1>4. Typed'
  BY <1>1, <1>3 DEF Shape, Typed
<1>5. CountInv' /\ MadeInv'
  BY <1>1 DEF Shape, CountInv, MadeInv
<1>6. \A i \in (Len(SeedEvents) + 1)..Len(events') : events'[i].type = "paymentApplied" =>
          \E q \in ToSet(made') : events'[i] = ResultOf(Submitted(q), events')
  <2> SUFFICES ASSUME NEW i \in (Len(SeedEvents) + 1)..Len(events'),
                      events'[i].type = "paymentApplied"
               PROVE  \E q \in ToSet(made) : events'[i] = ResultOf(Submitted(q), events')
    BY <1>1
  <2>1. i \in (Len(SeedEvents) + 1)..Len(events) /\ events'[i] = events[i]
    <3>1. i \in Int /\ i >= Len(SeedEvents) + 1
      BY <1>2
    <3> QED
      BY <3>1, <1>2, <1>3
  <2>2. PICK q \in ToSet(made) : events[i] = ResultOf(Submitted(q), events)
    BY <2>1 DEF Shape, StoredIsPublished
  <2>3. ResultOf(Submitted(q), events') = ResultOf(Submitted(q), events)
    BY DEF ResultOf, Submitted, ApplyPayment
  <2> QED
    BY <2>1, <2>2, <2>3
<1>7. StoredIsPublished'
  BY <1>1, <1>6 DEF Shape, StoredIsPublished
<1> QED
  BY <1>4, <1>5, <1>7 DEF Shape

\* An offset is lost.
LEMMA ResetShape == ASSUME Shape, ResetOffset PROVE Shape'
<1>1. /\ consumer = "idle" /\ resets < MaxResets /\ resets' = resets + 1 /\ offset' = 0
      /\ UNCHANGED <<consumer, submission, store, published, events, limit, applied, made, unsent, crashes>>
  BY DEF ResetOffset, consumerVars, ledgerVars, historyVars
<1>2. MadeInv' /\ StoredIsPublished'
  BY <1>1, QuietStep
<1>3. /\ Len(Submissions) \in Nat /\ MaxResets \in Nat /\ Len(made) \in Nat
      /\ resets \in 0..MaxResets /\ offset \in 0..Len(Submissions)
  BY PaymentsAssumption, LenProperties DEF Shape, Typed
<1>4. resets' \in 0..MaxResets /\ offset' \in 0..Len(Submissions)
  BY <1>1, <1>3
<1>5. Typed'
  BY <1>1, <1>4 DEF Shape, Typed
<1>6. CountInv'
  <2>1. Len(made) <= resets * Len(Submissions) + offset
    BY <1>1 DEF Shape, CountInv
  <2>2. (resets + 1) * Len(Submissions) = resets * Len(Submissions) + Len(Submissions)
        /\ resets * Len(Submissions) \in Nat
    BY <1>3
  <2>3. Len(made) <= (resets + 1) * Len(Submissions) + 0
    BY <2>1, <2>2, <1>3
  <2> QED
    BY <2>3, <1>1 DEF CountInv
<1> QED
  BY <1>2, <1>5, <1>6 DEF Shape

\* The payments service starts again.
LEMMA RestartShape == ASSUME Shape, Restart PROVE Shape'
<1>1. /\ crashes' = crashes + 1 /\ consumer' = "idle" /\ submission' = << >> /\ store' = << >>
      /\ UNCHANGED <<offset, published, events, limit, applied, made, unsent, resets>>
  BY DEF Restart, Done, Forget, ledgerVars, historyVars
<1>2. << >> \in Seq(SubmissionType) /\ << >> \in Seq(PaymentType)
  BY EmptySeq
<1>3. Typed'
  BY <1>1, <1>2 DEF Shape, Typed
<1>4. /\ Len(made) \in Nat /\ resets * Len(Submissions) \in Int /\ offset \in Int
  BY PaymentsAssumption, LenProperties DEF Shape, Typed
<1>5. CountInv'
  BY <1>1, <1>4 DEF Shape, CountInv
<1>6. MadeInv'
  BY <1>1 DEF Shape, MadeInv
<1>7. crashes' \in Nat /\ crashes' # 0
  BY <1>1 DEF Shape, Typed
<1>8. StoredIsPublished'
  BY <1>1, <1>7 DEF Shape, StoredIsPublished
<1> QED
  BY <1>3, <1>5, <1>6, <1>8 DEF Shape

\* Every step keeps the shape.
LEMMA StepShape == ASSUME Shape, [Next]_vars PROVE Shape'
<1>1. CASE UNCHANGED vars
  BY <1>1 DEF vars, consumerVars, ledgerVars, historyVars, boundVars, Shape, Typed, CountInv, MadeInv,
              StoredIsPublished
<1> QED
  BY <1>1, LoopShape, StoreShape, PublishShape, ApplyShape, CardShape, DropShape, LossShape,
     ResetShape, RestartShape DEF Next, SubmitPayment

\* Types, counts and ids, with what is stored and what is published.
THEOREM ShapeHolds == Spec => []Shape
<1>1. Init => Shape
  BY InitShape
<1>2. Shape /\ [Next]_vars => Shape'
  BY StepShape
<1> QED
  BY <1>1, <1>2, PTL DEF Spec

\* Every payment that was stored is published as it was stored, and once, or
\* its send failed, or a restart came in between; and no payment is applied to
\* an account that was not stored.
THEOREM StoredIsPublishedHolds == Spec => []StoredIsPublished
<1>1. Shape => StoredIsPublished
  BY DEF Shape
<1> QED
  BY <1>1, ShapeHolds, PTL

(***************************************************************************)
(* Part 4: types, and what an estimate admits.                             *)
(***************************************************************************)

\* A quotient of no more than d times m is no more than m.
LEMMA QuotientBounded ==
    ASSUME NEW w \in Int, NEW d \in Nat \ {0}, NEW m \in Nat, w <= d * m
    PROVE  Quotient(w, d) \in Int /\ Quotient(w, d) <= m
<1>d. \A n \in Nat : n \div d \in Nat /\ n % d \in 0..(d - 1) /\ n = d * (n \div d) + (n % d)
  OBVIOUS
<1>1. CASE w >= 0
  <2> DEFINE q == w \div d
  <2>1. q \in Nat /\ w >= d * q /\ Quotient(w, d) = q
    <3>1. w \in Nat
      BY <1>1
    <3>2. q \in Nat /\ w % d \in 0..(d - 1) /\ w = d * q + (w % d)
      BY <1>d, <3>1
    <3>3. Quotient(w, d) = q
      BY <1>1 DEF Quotient
    <3> DEFINE r == w % d
    <3> HIDE DEF q, r
    <3>4. d * q \in Nat /\ r \in Nat /\ w = d * q + r
      BY <3>2 DEF r
    <3> QED
      BY <3>2, <3>3, <3>4
  <2> HIDE DEF q
  <2>2. q <= m
    <3> SUFFICES ASSUME q >= m + 1 PROVE FALSE
      BY <2>1
    <3>1. d * q >= d * (m + 1)
      BY <2>1
    <3>2. d * (m + 1) = d * m + d /\ d * m \in Nat /\ d * q \in Nat
      BY <2>1
    <3> QED
      BY <2>1, <3>1, <3>2
  <2> QED
    BY <2>1, <2>2
<1>2. CASE w < 0
  <2>1. - w \in Nat /\ Quotient(w, d) = - ((- w) \div d)
    BY <1>2 DEF Quotient
  <2>2. (- w) \div d \in Nat
    BY <2>1, <1>d
  <2> QED
    BY <2>1, <2>2
<1> QED
  BY <1>1, <1>2

\* Wrapping makes no sum larger.
LEMMA WrapOfSum ==
    ASSUME NEW n \in Nat
    PROVE  Wrap(n) \in Int /\ Wrap(n) <= n
<1> DEFINE m == 2 * IntHalf
           w == Wrap(n)
<1>1. PICK k \in Int : n = w + k * m
  BY WrapOf
<1>2. w \in Int /\ m \in Nat /\ w < IntHalf /\ IntHalf < m
  BY WrapOf, IntHalfAssumption DEF ScalaInt
<1> HIDE DEF m, w
<1>3. CASE k >= 0
  <2>1. k * m \in Nat
    BY <1>2, <1>3
  <2> QED
    BY <1>1, <1>2, <2>1 DEF w
<1>4. CASE k <= -1
  <2>1. k * m <= - m /\ k * m \in Int
    BY <1>2, <1>4
  <2>2. IntHalf \in Nat
    BY IntHalfAssumption
  <2>3. n < 0
    BY <1>1, <1>2, <2>1, <2>2
  <2> QED
    BY <2>3
<1> QED
  BY <1>3, <1>4

\* The fallback is no larger than some payment it is computed from.
LEMMA FallbackBounded ==
    ASSUME NEW payments \in Seq(PaymentType), \A i \in DOMAIN payments : payments[i].amount \in Amounts
    PROVE  /\ Fallback(payments) \in Int
           /\ payments = << >> => Fallback(payments) = 0
           /\ payments # << >> => \E k \in DOMAIN payments : Fallback(payments) <= payments[k].amount
<1>1. CASE payments = << >>
  BY <1>1 DEF Fallback
<1>2. CASE payments # << >>
  <2> DEFINE D == DOMAIN payments
             n == Len(payments)
             f == [i \in D |-> payments[i].amount]
             A == {payments[i].amount : i \in D}
             m == Max(A)
             sum == SumFunctionOnSet(f, D)
  <2>1. n \in Nat \ {0} /\ D = 1..n /\ IsFiniteSet(D) /\ Cardinality(D) = n
    <3>1. n \in Nat \ {0} /\ D = 1..n
      BY <1>2, LenProperties, EmptySeq
    <3>2. IsFiniteSet(1..n) /\ Cardinality(1..n) = n
      BY <3>1, FS_Interval
    <3> QED
      BY <3>1, <3>2
  <2>2. A \in SUBSET (0..(IntHalf - 1)) /\ A # {} /\ IntHalf - 1 \in Nat
    <3>1. \A i \in D : payments[i].amount \in 0..(IntHalf - 1)
      BY IntHalfAssumption DEF Amounts
    <3>2. 1 \in D
      BY <2>1
    <3> QED
      BY <3>1, <3>2, IntHalfAssumption
  <2>3. m \in A /\ \A x \in A : x <= m
    BY <2>2, MaxOfNats
  <2>4. m \in Nat /\ \A i \in D : f[i] \in 0..m
    <3>1. m \in Nat
      BY <2>2, <2>3
    <3>2. \A i \in D : f[i] \in A /\ f[i] = payments[i].amount
      OBVIOUS
    <3>3. \A x \in A : x \in Nat
      BY <2>2
    <3> QED
      BY <2>3, <3>1, <3>2, <3>3, SMTT(30)
  <2>5. PICK k \in D : payments[k].amount = m
    BY <2>3
  <2> HIDE DEF f, A, m, n, D
  <2>6. sum \in 0..(n * m)
    BY <2>1, <2>4, SumBounded
  <2>7. AmountsSum(payments) = Wrap(sum)
    BY DEF AmountsSum, D, f
  <2> HIDE DEF sum
  <2>8. Wrap(sum) \in Int /\ Wrap(sum) <= n * m
    <3>1. sum \in Nat /\ sum <= n * m /\ n * m \in Nat
      BY <2>1, <2>4, <2>6
    <3> QED
      BY <3>1, WrapOfSum
  <2>9. Quotient(Wrap(sum), n) \in Int /\ Quotient(Wrap(sum), n) <= m
    BY <2>1, <2>4, <2>8, QuotientBounded
  <2>10. Fallback(payments) = Quotient(Wrap(sum), n)
    BY <1>2, <2>7 DEF Fallback, n
  <2> QED
    BY <1>2, <2>5, <2>9, <2>10 DEF D
<1> QED
  BY <1>1, <1>2

\* The rest of TypeOK.
ValueInv ==
    /\ balance \in Int /\ guess \in BOOLEAN
    /\ guessed \subseteq DOMAIN made /\ Len(made) <= Len(PaymentIds)
    /\ outdated \in BOOLEAN /\ risky \subseteq PaymentType
    /\ overdrawn \in [Accounts -> Nat] /\ losses \in Nat

\* An estimate in hand is the fallback of the store, and what is in the store
\* was made.
EstimateInv ==
    /\ guess => consumer \in {"check", "publish"}
    /\ guess /\ consumer = "check" => balance = Fallback(store)
    /\ \A i \in DOMAIN store : store[i] \in ToSet(made)
    /\ \A i \in DOMAIN submission : submission[i].amount \in Amounts
    /\ \A i \in DOMAIN made : made[i].amount \in Amounts
    /\ EstimateAdmitsNoMore

SafeInv == Shape /\ ValueInv /\ EstimateInv

\* What is stored is an amount.
LEMMA StoredAmounts ==
    ASSUME Shape, EstimateInv
    PROVE  \A i \in DOMAIN store : store[i].amount \in Amounts
BY DEF EstimateInv, ToSet

\* The services start with nothing paid.
LEMMA InitSafe == ASSUME Init PROVE SafeInv
<1>1. << >> \in Seq(PaymentType) /\ Len(<< >>) = 0 /\ DOMAIN << >> = {}
  <2>1. << >> \in Seq(PaymentType)
    BY EmptySeq
  <2>2. Len(<< >>) = 0
    BY EmptySeq
  <2> QED
    BY <2>1, <2>2, LenProperties
<1>2. Len(PaymentIds) \in Nat
  BY PaymentsAssumption, LenProperties
<1>3. ValueInv
  <2>1. /\ balance \in Int /\ guess = FALSE /\ outdated = FALSE /\ guessed = {} /\ made = << >>
        /\ risky = {} /\ overdrawn \in [Accounts -> Nat] /\ losses = 0
    BY DEF Init
  <2>2. Len(made) <= Len(PaymentIds)
    BY <1>1, <1>2, <2>1
  <2> QED
    BY <2>1, <2>2, Zenon DEF ValueInv
<1>4. EstimateInv
  BY <1>1 DEF Init, EstimateInv, EstimateAdmitsNoMore
<1> QED
  BY <1>3, <1>4, InitShape DEF SafeInv

\* Steps that leave the payments made alone.
LEMMA MadeKept ==
    ASSUME SafeInv, UNCHANGED <<made, guessed>>, store' \in {store, << >>},
           submission' \in {submission, << >>}, balance' \in Int, guess' \in BOOLEAN, outdated' \in BOOLEAN,
           risky' \subseteq PaymentType, overdrawn' \in [Accounts -> Nat], losses' \in Nat,
           guess' => consumer' \in {"check", "publish"},
           guess' /\ consumer' = "check" => balance' = Fallback(store')
    PROVE  ValueInv' /\ EstimateInv'
<1>1. DOMAIN << >> = {}
  <2>1. << >> \in Seq(PaymentType) /\ Len(<< >>) = 0
    BY EmptySeq
  <2> QED
    BY <2>1, LenProperties
<1>2. /\ \A i \in DOMAIN store' : store'[i] \in ToSet(made')
      /\ \A i \in DOMAIN submission' : submission'[i].amount \in Amounts
  BY <1>1 DEF SafeInv, EstimateInv
<1>3. EstimateAdmitsNoMore'
  BY DEF SafeInv, EstimateInv, EstimateAdmitsNoMore
<1> QED
  BY <1>2, <1>3 DEF SafeInv, ValueInv, EstimateInv

\* A record is taken.
LEMMA TakeSafe == ASSUME SafeInv, Take PROVE ValueInv' /\ EstimateInv'
<1>1. /\ offset < Len(Submissions) /\ submission' = << Submissions[offset + 1] >>
      /\ consumer = "idle" /\ UNCHANGED <<balance, guess, store, made, guessed, outdated>>
      /\ UNCHANGED <<risky, overdrawn, losses>>
  BY DEF Take, historyVars, ledgerVars, boundVars
<1>2. Len(Submissions) \in Nat /\ DOMAIN Submissions = 1..Len(Submissions) /\ offset \in 0..Len(Submissions)
  BY PaymentsAssumption, LenProperties DEF SafeInv, Shape, Typed
<1>3. offset + 1 \in DOMAIN Submissions
  BY <1>1, <1>2
<1>4. Submissions[offset + 1].amount \in Amounts
  BY <1>3, AmountsAssumption
<1>5. \A i \in DOMAIN submission' : submission'[i].amount \in Amounts
  BY <1>1, <1>4
<1>6. ~ guess
  BY <1>1 DEF SafeInv, EstimateInv
<1>7. ValueInv'
  BY <1>1 DEF SafeInv, ValueInv
<1>8. EstimateAdmitsNoMore'
  BY <1>1 DEF SafeInv, EstimateInv, EstimateAdmitsNoMore
<1> QED
  BY <1>1, <1>5, <1>6, <1>7, <1>8 DEF SafeInv, EstimateInv

\* The balance is asked for.
LEMMA AskSafe == ASSUME SafeInv, AskBalance \/ AskFails PROVE ValueInv' /\ EstimateInv'
<1>1. /\ consumer = "ask" /\ consumer' = "check" /\ UNCHANGED <<submission, store, made, guessed>>
      /\ outdated' \in BOOLEAN
      /\ risky' \subseteq PaymentType /\ overdrawn' \in [Accounts -> Nat] /\ losses' \in Nat
  BY DEF AskBalance, AskFails, historyVars, ledgerVars, boundVars, SafeInv, ValueInv, OnItsWay
<1>2. ~ guess
  BY <1>1 DEF SafeInv, EstimateInv
<1>3. CASE AskBalance
  <2>1. balance' = TransactionBalance(events, Submission.account).balance /\ guess' = guess
    BY <1>3 DEF AskBalance
  <2>2. TransactionBalance(events, Submission.account) \in BalanceType
    BY BalanceTyped DEF SafeInv, Shape, Typed
  <2>3. balance' \in Int
    BY <2>1, <2>2, ScalaIntIsInt DEF BalanceType
  <2>4. guess' \in BOOLEAN /\ ~ guess' /\ store' \in {store, << >>} /\ submission' \in {submission, << >>}
    BY <1>1, <1>2, <2>1, Zenon DEF SafeInv, ValueInv
  <2> QED
    BY <1>1, <1>2, <2>1, <2>3, <2>4, MadeKept, Zenon
<1>4. CASE AskFails
  <2>1. balance' = Fallback(store) /\ guess' = TRUE
    BY <1>4 DEF AskFails
  <2>2. Fallback(store) \in Int
    BY StoredAmounts, FallbackBounded DEF SafeInv, Shape, Typed
  <2> QED
    BY <1>1, <2>1, <2>2, MadeKept
<1> QED
  BY <1>3, <1>4

\* Steps that neither ask nor store, nor change the ledger's history.
LEMMA QuietSafe ==
    ASSUME SafeInv,
           \/ TakeFails \/ AskThrows \/ Refuse \/ UnknownSource \/ Publish \/ PublishFails
           \/ Drop \/ CardTransaction \/ ResetOffset \/ Restart
    PROVE  ValueInv' /\ EstimateInv'
<1>1. UNCHANGED <<made, guessed>> /\ store' \in {store, << >>} /\ submission' \in {submission, << >>}
  BY DEF TakeFails, AskThrows, Refuse, UnknownSource, Publish, PublishFails, Dies, Done, Forget, Drop,
         CardTransaction, ResetOffset, Restart, historyVars, consumerVars
<1>2. risky' \subseteq PaymentType /\ overdrawn' \in [Accounts -> Nat] /\ losses' \in Nat
  <2>1. UNCHANGED <<risky, overdrawn, losses>>
    BY DEF TakeFails, AskThrows, Refuse, UnknownSource, Publish, PublishFails, Dies, Drop,
           CardTransaction, ResetOffset, Restart, historyVars, ledgerVars, boundVars
  <2> QED
    BY <2>1 DEF SafeInv, ValueInv
<1>3. CASE balance' = 0 /\ guess' = FALSE /\ outdated' = FALSE
  <2>1. balance' \in Int
    BY <1>3
  <2>2. guess' \in BOOLEAN /\ outdated' \in BOOLEAN /\ ~ guess'
    BY <1>3, Zenon
  <2> QED
    BY <1>1, <1>2, <2>1, <2>2, MadeKept, Zenon
<1>4. CASE UNCHANGED <<consumerVars, store>>
  BY <1>1, <1>2, <1>4, MadeKept DEF consumerVars, SafeInv, ValueInv, EstimateInv
<1> QED
  BY <1>3, <1>4 DEF TakeFails, AskThrows, Refuse, UnknownSource, Publish, PublishFails, Dies, Done,
                    Forget, Drop, CardTransaction, ResetOffset, Restart

\* What the transactions service applies was made.
LEMMA NextPayment ==
    ASSUME SafeInv, applied < Len(published)
    PROVE  LET p == published[applied + 1]
           IN  /\ applied + 1 \in DOMAIN published /\ p \in PaymentType /\ p \in ToSet(made)
               /\ p.amount \in Amounts /\ p.amount \in Nat
<1> DEFINE p == published[applied + 1]
<1>1. /\ Len(published) \in Nat /\ DOMAIN published = 1..Len(published) /\ applied \in 0..Len(published)
  BY LenProperties DEF SafeInv, Shape, Typed
<1>2. applied + 1 \in DOMAIN published
  BY <1>1
<1>3. p \in PaymentType /\ p \in ToSet(published)
  BY <1>2, ElementOfDomain DEF SafeInv, Shape, Typed, ToSet
<1>4. p \in ToSet(made)
  BY <1>3 DEF SafeInv, Shape, StoredIsPublished
<1>5. PICK k \in DOMAIN made : p = made[k]
  BY <1>4 DEF ToSet
<1>6. p.amount \in Amounts
  BY <1>5 DEF SafeInv, EstimateInv
<1> QED
  BY <1>2, <1>3, <1>4, <1>6, IntHalfAssumption DEF Amounts

\* The payments that are published, and the one about to be.
LEMMA PublishedTyped ==
    ASSUME SafeInv
    PROVE  /\ \A i \in OnWay : published[i] \in PaymentType /\ i \in DOMAIN published
           /\ \A i \in 1..applied : published[i] \in PaymentType
           /\ consumer = "publish" => Last(store) \in PaymentType
<1>1. /\ Len(published) \in Nat /\ DOMAIN published = 1..Len(published) /\ applied \in 0..Len(published)
      /\ published \in Seq(PaymentType) /\ store \in Seq(PaymentType)
  BY LenProperties DEF SafeInv, Shape, Typed
<1>2. \A i \in DOMAIN published : published[i] \in PaymentType
  BY <1>1, ElementOfDomain
<1>3. /\ \A i \in OnWay : i \in DOMAIN published
      /\ \A i \in 1..applied : i \in DOMAIN published
  BY <1>1 DEF OnWay
<1>4. consumer = "publish" => Last(store) \in PaymentType
  BY <1>1, LastElement DEF SafeInv, Shape, MadeInv
<1> QED
  BY <1>2, <1>3, <1>4

\* Steps of the transactions service that its history tells apart.
LEMMA LedgerSafe ==
    ASSUME SafeInv, Apply \/ LoseEvents \/ RestartTransactions \/ ResetApplied
    PROVE  ValueInv' /\ EstimateInv'
<1>1. UNCHANGED <<consumer, submission, balance, guess, store, published, made, guessed>>
  BY DEF Apply, LoseEvents, RestartTransactions, ResetApplied, Endangered, consumerVars, historyVars
<1>2. losses' \in Nat
  BY DEF Apply, LoseEvents, RestartTransactions, ResetApplied, Endangered, boundVars, SafeInv, ValueInv
<1>3. outdated' \in BOOLEAN
  BY DEF Apply, LoseEvents, RestartTransactions, ResetApplied, Endangered, consumerVars, SafeInv, ValueInv
<1>4. overdrawn' \in [Accounts -> Nat]
  <2>1. CASE Apply
    <3> DEFINE p == published[applied + 1]
    <3>1. overdrawn \in [Accounts -> Nat]
      BY DEF SafeInv, ValueInv
    <3>2. p.amount \in Nat
      BY <2>1, NextPayment DEF Apply
    <3>3. overdrawn' = IF p \in risky /\ p.account \in Accounts
                         THEN [overdrawn EXCEPT ![p.account] = @ + p.amount] ELSE overdrawn
      BY <2>1 DEF Apply
    <3> HIDE DEF p
    <3> QED
      BY <3>1, <3>2, <3>3
  <2>2. CASE LoseEvents \/ ResetApplied
    BY <2>2 DEF LoseEvents, ResetApplied, SafeInv, ValueInv
  <2>3. CASE RestartTransactions
    BY <2>3 DEF RestartTransactions
  <2> QED
    BY <2>1, <2>2, <2>3
<1>5. risky' \subseteq PaymentType
  <2>1. risky \subseteq PaymentType
    BY DEF SafeInv, ValueInv
  <2>2. CASE Apply
    BY <2>1, <2>2 DEF Apply, historyVars
  <2>3. CASE LoseEvents \/ RestartTransactions
    <3>1. OnWay' \subseteq (applied + 1)..Len(published)
      BY <1>1, <2>3 DEF OnWay, LoseEvents, RestartTransactions, Endangered
    <3>2. \A i \in (applied + 1)..Len(published) : published[i] \in PaymentType
      <4>1. /\ Len(published) \in Nat /\ DOMAIN published = 1..Len(published)
            /\ applied \in 0..Len(published) /\ published \in Seq(PaymentType)
        BY LenProperties DEF SafeInv, Shape, Typed
      <4>2. \A i \in (applied + 1)..Len(published) : i \in DOMAIN published
        BY <4>1
      <4> QED
        BY <4>1, <4>2, ElementOfDomain
    <3>3. risky' = risky \cup {published[i] : i \in OnWay'}
                         \cup (IF consumer = "publish" THEN {Last(store)} ELSE {})
      BY <2>3 DEF LoseEvents, RestartTransactions, Endangered
    <3> QED
      BY <2>1, <3>1, <3>2, <3>3, PublishedTyped
  <2>4. CASE ResetApplied
    <3>1. risky' = risky \cup {published[i] : i \in {j \in 1..applied : ~ Paid(published[j])}}
      BY <2>4 DEF ResetApplied
    <3> QED
      BY <2>1, <3>1, PublishedTyped
  <2> QED
    BY <2>2, <2>3, <2>4
<1> QED
  BY <1>1, <1>2, <1>3, <1>4, <1>5, MadeKept DEF SafeInv, ValueInv, EstimateInv

\* A payment is stored, with the balance that was read in hand.
LEMMA StoreSafe == ASSUME SafeInv, StorePayment PROVE ValueInv' /\ EstimateInv'
<1> DEFINE n == Len(made)
<1>1. /\ consumer = "check" /\ consumer' = "publish" /\ Submission.amount <= balance
      /\ store' = Append(store, Payment) /\ made' = Append(made, Payment)
      /\ UNCHANGED <<submission, balance, guess, outdated, overdrawn, losses>>
      /\ risky' \subseteq risky \cup {Payment}
  BY DEF StorePayment, ledgerVars, boundVars
<1>2. Payment \in PaymentType /\ n + 1 \in DOMAIN PaymentIds
  BY <1>1, PaymentInHand, IdLeft DEF SafeInv, Shape
<1>3. /\ n \in Nat /\ DOMAIN made = 1..n /\ DOMAIN made' = 1..(n + 1)
      /\ made'[n + 1] = Payment /\ \A i \in 1..n : made'[i] = made[i]
      /\ ToSet(made') = ToSet(made) \cup {Payment} /\ made' \in Seq(PaymentType)
  BY <1>1, <1>2, AppendedEvent, AppendedElements DEF SafeInv, Shape, Typed
<1>4. Len(made') = n + 1
  BY <1>3, LenProperties
<1>5. guessed' \subseteq guessed \cup {n + 1} /\ (~ guess => guessed' = guessed)
  BY <1>4 DEF StorePayment
<1>6. ValueInv'
  <2>1. Len(PaymentIds) \in Nat /\ DOMAIN PaymentIds = 1..Len(PaymentIds)
    BY PaymentsAssumption, LenProperties
  <2>2. n + 1 <= Len(PaymentIds)
    BY <1>2, <2>1
  <2>3. guessed' \subseteq 1..(n + 1)
    BY <1>3, <1>5 DEF SafeInv, ValueInv
  <2> QED
    BY <1>1, <1>2, <1>3, <1>4, <2>2, <2>3 DEF SafeInv, ValueInv
<1>7. \A i \in DOMAIN store' : store'[i] \in ToSet(made')
  <2>1. /\ Len(store) \in Nat /\ DOMAIN store = 1..Len(store)
        /\ DOMAIN store' = 1..(Len(store) + 1) /\ store'[Len(store) + 1] = Payment
        /\ \A i \in 1..Len(store) : store'[i] = store[i]
    BY <1>1, <1>2, AppendedEvent DEF SafeInv, Shape, Typed
  <2>2. \A i \in 1..(Len(store) + 1) : i \in 1..Len(store) \/ i = Len(store) + 1
    BY <2>1
  <2>3. \A i \in 1..Len(store) : store[i] \in ToSet(made)
    BY <2>1 DEF SafeInv, EstimateInv
  <2> QED
    BY <1>3, <2>1, <2>2, <2>3
<1>8. Payment.amount = Submission.amount /\ Payment.amount \in Amounts
  <2>1. submission \in Seq(SubmissionType) /\ submission # << >>
    BY <1>1 DEF SafeInv, Shape, Typed
  <2>2. 1 \in DOMAIN submission /\ Submission = submission[1]
    <3>1. Len(submission) \in Nat \ {0} /\ DOMAIN submission = 1..Len(submission)
      BY <2>1, EmptySeq, LenProperties
    <3> QED
      BY <3>1, <2>1, HeadTailProperties DEF Submission
  <2> QED
    BY <2>2 DEF SafeInv, EstimateInv, Payment
<1>9. \A i \in DOMAIN made' : made'[i].amount \in Amounts
  <2>1. \A i \in 1..(n + 1) : i \in 1..n \/ i = n + 1
    BY <1>3
  <2> QED
    BY <1>3, <1>8, <2>1 DEF SafeInv, EstimateInv
<1>10. guess => \E j \in 1..n : made[j].amount >= Payment.amount
  <2> SUFFICES ASSUME guess PROVE \E j \in 1..n : made[j].amount >= Payment.amount
    OBVIOUS
  <2>1. Payment.amount <= Fallback(store) /\ Payment.amount >= 1
    BY <1>1, <1>8 DEF SafeInv, EstimateInv, Amounts
  <2>2. store \in Seq(PaymentType) /\ \A i \in DOMAIN store : store[i].amount \in Amounts
    BY StoredAmounts DEF SafeInv, Shape, Typed
  <2>3. store # << >>
    <3>1. Payment.amount \in Int
      BY <1>8, IntHalfAssumption DEF Amounts
    <3>2. Fallback(store) # 0
      BY <2>1, <3>1
    <3> QED
      BY <2>2, <3>2, FallbackBounded
  <2>4. PICK k \in DOMAIN store : Fallback(store) <= store[k].amount
    BY <2>2, <2>3, FallbackBounded
  <2>5. PICK j \in DOMAIN made : made[j] = store[k]
    BY DEF SafeInv, EstimateInv, ToSet
  <2>6. made[j].amount \in Int /\ Payment.amount \in Int /\ Fallback(store) \in Int
    BY <1>8, <2>2, <2>5, FallbackBounded, IntHalfAssumption DEF Amounts
  <2> QED
    BY <1>3, <2>1, <2>4, <2>5, <2>6
<1>11. EstimateAdmitsNoMore'
  <2> SUFFICES ASSUME NEW i \in guessed'
               PROVE  \E j \in 1..(i - 1) : made'[j].amount >= made'[i].amount
    BY DEF EstimateAdmitsNoMore
  <2>1. CASE i \in guessed
    <3>1. i \in 1..n
      BY <1>3, <2>1 DEF SafeInv, ValueInv
    <3>2. PICK j \in 1..(i - 1) : made[j].amount >= made[i].amount
      BY <2>1 DEF SafeInv, EstimateInv, EstimateAdmitsNoMore
    <3>3. j \in 1..n
      BY <1>3, <3>1
    <3> QED
      BY <1>3, <3>1, <3>2, <3>3
  <2>2. CASE i \notin guessed
    <3>1. guess /\ i = n + 1 /\ i - 1 = n
      BY <1>3, <1>5, <2>2 DEF SafeInv, ValueInv
    <3> QED
      BY <1>3, <1>10, <3>1
  <2> QED
    BY <2>1, <2>2
<1>12. (guess' => consumer' \in {"check", "publish"}) /\ consumer' # "check"
  BY <1>1
<1>13. \A i \in DOMAIN submission' : submission'[i].amount \in Amounts
  BY <1>1 DEF SafeInv, EstimateInv
<1> QED
  BY <1>6, <1>7, <1>9, <1>11, <1>12, <1>13 DEF EstimateInv

\* Every step keeps SafeInv.
LEMMA StepSafe == ASSUME SafeInv, [Next]_vars PROVE SafeInv'
<1>1. Shape'
  BY StepShape DEF SafeInv
<1>2. CASE UNCHANGED vars
  <2>1. ValueInv' /\ EstimateInv'
    BY <1>2 DEF vars, consumerVars, ledgerVars, historyVars, boundVars, SafeInv, ValueInv, EstimateInv,
                EstimateAdmitsNoMore
  <2> QED
    BY <1>1, <2>1 DEF SafeInv
<1>3. CASE Next
  BY <1>1, <1>3, TakeSafe, AskSafe, QuietSafe, LedgerSafe, StoreSafe DEF SafeInv, Next, SubmitPayment
<1> QED
  BY <1>2, <1>3

\* With it: every amount and every estimate is within bounds, and estimates
\* admit no more than was paid before.
THEOREM SafeHolds == Spec => []SafeInv
<1>1. Init => SafeInv
  BY InitSafe
<1>2. SafeInv /\ [Next]_vars => SafeInv'
  BY StepSafe
<1> QED
  BY <1>1, <1>2, PTL DEF Spec

\* The loop's hands, the store, the topics and the ledger have their types,
\* and there is an id for every payment that is ever made.
THEOREM TypeCorrect == Spec => []TypeOK
<1>1. SafeInv => TypeOK
  BY PaymentsAssumption DEF SafeInv, Shape, Typed, ValueInv, TypeOK
<1> QED
  BY <1>1, SafeHolds, PTL

\* A payment that is admitted by an estimate is no larger than one that was
\* admitted before, however many estimates are made in a row, although the
\* sum that the estimate divides may wrap around.
THEOREM EstimateAdmitsNoMoreHolds == Spec => []EstimateAdmitsNoMore
<1>1. SafeInv => EstimateAdmitsNoMore
  BY DEF SafeInv, EstimateInv
<1> QED
  BY <1>1, SafeHolds, PTL

(***************************************************************************)
(* Part 5: nobody is paid below zero by a payment whose check held.  The    *)
(* code adds what is cleared to an Int without a check; the theorem is      *)
(* about behaviours in which it fits.                                       *)
(***************************************************************************)

Owes(a) == TransactionBalance(events, a).balance

\* What a clearing adds to a balance leaves it in the range of Int.
ClearingsFit ==
    \A a \in Accounts : \A e \in EventType :
        events' = Append(events, e) /\ e.account = a /\ e.outcome = "CLEAN"
            => Owes(a) + e.amount < IntHalf

\* What can be paid: what is owed, but for what risky payments took.
Credit(a) == Owes(a) + overdrawn[a]

\* The places of the payments on their way whose check held.
Pending == {i \in OnWay : published[i] \notin risky}

Awaits(a) == \E i \in Pending : published[i].account = a

\* The account is known, and so much can be paid.
Covered(p) == p.account \in Accounts /\ p.amount <= Credit(p.account)

NoCredit == \A i \in DOMAIN events : events[i].amount >= 0

\* An event log that ends earlier, as long as the seed at least.
Shorter == Len(SeedEvents)..Len(events)

BalanceAt(n, a) == TransactionBalance(SubSeq(events, 1, n), a).balance

\* Wherever the events are cut off, no account is below zero by more than its
\* risky payments.
LogInv ==
    /\ Len(events) \in Shorter /\ NoCredit
    /\ \A a \in Accounts : \A n \in Shorter : BalanceAt(n, a) + overdrawn[a] >= 0

\* Every payment on its way whose check held is covered, and so are the balance
\* in hand and the payment about to be published, and there is one of them for
\* each account.
HandInv ==
    /\ \A i \in Pending : Covered(published[i])
    /\ \A i, j \in Pending : published[i].account = published[j].account => i = j
    /\ consumer = "check" /\ ~ guess /\ ~ outdated =>
          /\ Submission.account \in Accounts /\ balance <= Credit(Submission.account)
          /\ ~ Awaits(Submission.account)
    /\ consumer = "publish" /\ Last(store) \notin risky =>
          Covered(Last(store)) /\ ~ Awaits(Last(store).account)

PaidSafe == SafeInv /\ LogInv /\ HandInv

\* A beginning of a beginning, and of a sequence that grows.
LEMMA Beginnings ==
    ASSUME NEW S, NEW seq \in Seq(S), NEW m \in Nat, NEW n \in Nat, n <= m, m <= Len(seq)
    PROVE  /\ SubSeq(SubSeq(seq, 1, m), 1, n) = SubSeq(seq, 1, n)
           /\ SubSeq(seq, 1, Len(seq)) = seq
           /\ \A e \in S : SubSeq(Append(seq, e), 1, n) = SubSeq(seq, 1, n)
<1>1. Len(seq) \in Nat
  BY LenProperties
<1>2. /\ SubSeq(seq, 1, n) \in Seq(S) /\ Len(SubSeq(seq, 1, n)) = n
      /\ \A i \in 1..n : SubSeq(seq, 1, n)[i] = seq[i]
  BY <1>1, Prefix
<1>3. SubSeq(SubSeq(seq, 1, m), 1, n) = SubSeq(seq, 1, n)
  <2> DEFINE t == SubSeq(seq, 1, m)
  <2>1. t \in Seq(S) /\ Len(t) = m /\ \A i \in 1..m : t[i] = seq[i]
    BY <1>1, Prefix
  <2> HIDE DEF t
  <2>2. /\ SubSeq(t, 1, n) \in Seq(S) /\ Len(SubSeq(t, 1, n)) = n
        /\ \A i \in 1..n : SubSeq(t, 1, n)[i] = t[i]
    BY <2>1, Prefix
  <2>3. \A i \in 1..n : SubSeq(t, 1, n)[i] = SubSeq(seq, 1, n)[i]
    BY <1>2, <2>1, <2>2
  <2>4. SubSeq(t, 1, n) = SubSeq(seq, 1, n)
    BY <1>2, <2>2, <2>3, SeqEqual
  <2> QED
    BY <2>4 DEF t
<1>4. SubSeq(seq, 1, Len(seq)) = seq
  <2> DEFINE t == SubSeq(seq, 1, Len(seq))
  <2>1. t \in Seq(S) /\ Len(t) = Len(seq) /\ \A i \in 1..Len(seq) : t[i] = seq[i]
    BY <1>1, Prefix
  <2> HIDE DEF t
  <2>2. t = seq
    BY <2>1, SeqEqual
  <2> QED
    BY <2>2 DEF t
<1>5. ASSUME NEW e \in S PROVE SubSeq(Append(seq, e), 1, n) = SubSeq(seq, 1, n)
  <2> DEFINE t == Append(seq, e)
  <2>1. /\ t \in Seq(S) /\ Len(t) = Len(seq) + 1
        /\ \A i \in 1..Len(seq) : t[i] = seq[i]
    BY AppendProperties
  <2> HIDE DEF t
  <2>2. /\ SubSeq(t, 1, n) \in Seq(S) /\ Len(SubSeq(t, 1, n)) = n
        /\ \A i \in 1..n : SubSeq(t, 1, n)[i] = t[i]
    BY <1>1, <2>1, Prefix
  <2>3. \A i \in 1..n : SubSeq(t, 1, n)[i] = SubSeq(seq, 1, n)[i]
    BY <1>1, <1>2, <2>1, <2>2
  <2>4. SubSeq(t, 1, n) = SubSeq(seq, 1, n)
    BY <1>2, <2>2, <2>3, SeqEqual
  <2> QED
    BY <2>4 DEF t
<1> QED
  BY <1>3, <1>4, <1>5

\* What is owed is an Int.
LEMMA OwesType ==
    ASSUME events \in Seq(EventType), NEW a
    PROVE  Owes(a) \in Int /\ Owes(a) >= - IntHalf /\ Owes(a) < IntHalf
<1>1. TransactionBalance(events, a) \in BalanceType
  BY BalanceTyped
<1> QED
  BY <1>1, IntHalfAssumption DEF Owes, BalanceType, ScalaInt

\* So is what is owed after a step, and what can be paid.
LEMMA CreditType ==
    ASSUME SafeInv, SafeInv', NEW a \in Accounts
    PROVE  /\ Owes(a) \in Int /\ Owes(a)' \in Int
           /\ overdrawn[a] \in Nat /\ overdrawn'[a] \in Nat
           /\ Credit(a) \in Int /\ Credit(a)' \in Int
<1>1. events \in Seq(EventType) /\ events' \in Seq(EventType)
  BY DEF SafeInv, Shape, Typed
<1>2. TransactionBalance(events, a) \in BalanceType /\ TransactionBalance(events', a) \in BalanceType
  BY <1>1, BalanceTyped
<1>3. Owes(a) \in Int /\ Owes(a)' \in Int
  BY <1>2, ScalaIntIsInt DEF Owes, BalanceType
<1>4. overdrawn[a] \in Nat /\ overdrawn'[a] \in Nat
  BY DEF SafeInv, ValueInv
<1> QED
  BY <1>3, <1>4 DEF Credit

\* Nobody has less than nothing to pay.
LEMMA SomeCredit ==
    ASSUME SafeInv, LogInv
    PROVE  \A a \in Accounts : Credit(a) >= 0
<1>1. events \in Seq(EventType) /\ Len(events) \in Nat
  BY LenProperties DEF SafeInv, Shape, Typed
<1>2. SubSeq(events, 1, Len(events)) = events
  BY <1>1, Beginnings
<1> QED
  BY <1>2 DEF LogInv, BalanceAt, Credit, Owes

\* The services start without credit and with nothing on its way.
LEMMA InitPaid == ASSUME Init PROVE PaidSafe
<1>1. /\ events = SeedEvents /\ applied = 0 /\ published = << >> /\ consumer = "idle"
      /\ overdrawn = [a \in Accounts |-> 0]
  BY DEF Init, L!Init
<1>2. SeedEvents \in Seq(EventType) /\ Len(SeedEvents) \in Nat /\ Len(<< >>) = 0
  BY PaymentsAssumption, LenProperties, EmptySeq
<1>3. Pending = {}
  BY <1>1, <1>2 DEF Pending, OnWay
<1>4. NoCredit
  BY <1>1, AmountsAssumption DEF NoCredit
<1>5. Shorter = {Len(events)} /\ SubSeq(events, 1, Len(events)) = events
  BY <1>1, <1>2, Beginnings DEF Shorter
<1>6. \A a \in Accounts : TransactionBalance(events, a).balance + overdrawn[a] >= 0
  <2> SUFFICES ASSUME NEW a \in Accounts PROVE TransactionBalance(SeedEvents, a).balance + 0 >= 0
    BY <1>1
  <2>1. TransactionBalance(SeedEvents, a) \in BalanceType
    BY <1>2, BalanceTyped
  <2>2. TransactionBalance(SeedEvents, a).balance \in Int
    BY <2>1, ScalaIntIsInt DEF BalanceType
  <2> QED
    BY <2>2, AmountsAssumption
<1>7. LogInv
  BY <1>4, <1>5, <1>6 DEF LogInv, BalanceAt
<1>8. HandInv
  BY <1>1, <1>3 DEF HandInv
<1> QED
  BY <1>7, <1>8, InitSafe DEF PaidSafe

\* What one event does to what an account owes.
LEMMA OwesAfter ==
    ASSUME events \in Seq(EventType), NEW e \in EventType, events' = Append(events, e),
           NEW a, e.amount >= 0
    PROVE  /\ e.account # a \/ e.outcome \in {"approved", "declined", "BAD"} => Owes(a)' = Owes(a)
           /\ e.account = a /\ e.outcome = "CLEAN" /\ Owes(a) + e.amount < IntHalf
                => Owes(a)' = Owes(a) + e.amount
           /\ e.account = a /\ e.type = "paymentApplied" => Owes(a)' >= Owes(a) - e.amount
<1> DEFINE s == TransactionBalance(events, a)
           t == TransactionBalance(events', a)
<1>1. s \in BalanceType /\ t = Applied(s, e, a)
  BY BalanceOfAppend
<1>2. Owes(a) = s.balance /\ Owes(a)' = t.balance
  BY DEF Owes
<1>3. /\ e.amount \in Int /\ e.type \in EventTypes /\ e.outcome \in OutcomesOf[e.type]
      /\ e.type = "paymentApplied" => e.outcome = "none"
      /\ e.outcome \in {"approved", "declined"} => e.type = "decisioned"
      /\ e.outcome \in {"CLEAN", "BAD"} => e.type = "cleared"
  BY DEF EventType, EventTypes, OutcomesOf
<1>4. s.balance \in Int /\ s.balance < IntHalf /\ s.balance >= - IntHalf /\ IntHalf \in Nat
  BY <1>1, <1>2, IntHalfAssumption DEF BalanceType, ScalaInt
<1> HIDE DEF s, t
<1>5. CASE e.account # a
  BY <1>1, <1>2, <1>3, <1>4, <1>5 DEF Applied
<1>6. CASE e.account = a /\ e.outcome = "approved"
  <2>1. t.balance = s.balance
    BY <1>1, <1>3, <1>6 DEF Applied, ApplyEvent, BalanceType
  <2> QED
    BY <1>2, <1>3, <1>6, <2>1
<1>7. CASE e.account = a /\ e.outcome \in {"declined", "BAD"}
  <2>1. t = s
    BY <1>1, <1>3, <1>7 DEF Applied, ApplyEvent
  <2> QED
    BY <1>2, <1>3, <1>7, <2>1
<1>8. CASE e.account = a /\ e.outcome = "CLEAN"
  <2>1. t.balance = Wrap(s.balance + e.amount)
    BY <1>1, <1>3, <1>8 DEF Applied, ApplyEvent
  <2>2. s.balance + e.amount < IntHalf => s.balance + e.amount \in ScalaInt
    BY <1>3, <1>4 DEF ScalaInt
  <2>3. s.balance + e.amount < IntHalf => t.balance = s.balance + e.amount
    BY <2>1, <2>2, WrapInRange
  <2> QED
    BY <1>2, <1>3, <1>8, <2>3
<1>9. CASE e.account = a /\ e.outcome = "none" /\ e.type = "paymentApplied"
  <2>1. t.balance = Wrap(s.balance - e.amount)
    BY <1>1, <1>9 DEF Applied, ApplyEvent, BalanceType
  <2>2. t.balance >= s.balance - e.amount
    <3>1. CASE s.balance - e.amount >= - IntHalf
      <4>1. s.balance - e.amount \in ScalaInt
        BY <1>3, <1>4, <3>1 DEF ScalaInt
      <4>2. t.balance = s.balance - e.amount
        BY <2>1, <4>1, WrapInRange
      <4> QED
        BY <1>3, <1>4, <4>2
    <3>2. CASE s.balance - e.amount < - IntHalf
      <4>1. s.balance - e.amount \in Int
        BY <1>3, <1>4
      <4>2. t.balance \in ScalaInt
        BY <2>1, <4>1, WrapOf
      <4> QED
        BY <1>4, <4>1, <4>2, <3>2 DEF ScalaInt
    <3> QED
      BY <1>3, <1>4, <3>1, <3>2
  <2> QED
    BY <1>2, <1>3, <1>9, <2>2
<1>10. CASE e.account = a /\ e.outcome = "none" /\ e.type # "paymentApplied"
  BY <1>3, <1>10
<1> QED
  BY <1>3, <1>5, <1>6, <1>7, <1>8, <1>9, <1>10 DEF OutcomesOf, EventTypes

\* A clearing has the amount of a decision, which is none below zero.
LEMMA CardAppends ==
    ASSUME PaidSafe, CardTransaction
    PROVE  \E e \in EventType : /\ events' = Append(events, e) /\ e.amount >= 0
                                /\ e.type \in {"decisioned", "cleared"}
<1>1. events \in Seq(EventType) /\ limit \in [Accounts -> Int] /\ NoCredit
  BY DEF PaidSafe, LogInv, SafeInv, Shape, Typed
<1>2. PICK c \in CardCommands : L!Authorize(c) \/ L!Clear(c)
  BY DEF CardTransaction
<1>3. c \in CommandType /\ c.amount >= 0
  BY PaymentsAssumption, AmountsAssumption, IntHalfAssumption DEF Amounts
<1>4. CASE L!Clear(c)
  <2>1. L!Store(c) /\ c.kind = "clear"
    BY <1>4 DEF L!Clear
  <2>2. /\ ResultOf(c, events) \in EventType /\ ResultOf(c, events).type = "cleared"
        /\ events' = Append(events, ResultOf(c, events)) /\ Accepts(c, events)
    BY <1>1, <1>3, <2>1, LedgerAppends DEF TypeFor
  <2>3. ResultOf(c, events).amount >= 0
    BY <1>1, <1>3, <2>1, <2>2, ClearingOfDecision DEF NoCredit
  <2> QED
    BY <2>2, <2>3
<1>5. CASE L!Authorize(c)
  <2> DEFINE d == [c EXCEPT !.limit = limit[c.account]]
  <2>1. c.account \in Accounts /\ c.kind = "authorize" /\ L!Store(d)
    BY <1>5 DEF L!Authorize
  <2>2. d \in CommandType /\ d.kind = "authorize" /\ d.amount = c.amount
    <3>1. limit[c.account] \in Int
      BY <1>1, <2>1
    <3> QED
      BY <1>3, <2>1, <3>1 DEF CommandType
  <2> HIDE DEF d
  <2>3. /\ ResultOf(d, events) \in EventType /\ ResultOf(d, events).type = "decisioned"
        /\ events' = Append(events, ResultOf(d, events))
    BY <1>1, <2>1, <2>2, LedgerAppends DEF TypeFor
  <2>4. ResultOf(d, events) = ProcessAuthorization(d, events)
    BY <2>2 DEF ResultOf
  <2>5. ResultOf(d, events).amount = c.amount
    BY <2>2, <2>4 DEF ProcessAuthorization, Event
  <2> QED
    BY <1>3, <2>3, <2>5
<1> QED
  BY <1>2, <1>4, <1>5

\* One more event of no negative amount.
LEMMA CreditKept ==
    ASSUME events \in Seq(EventType), NoCredit, NEW e \in EventType, events' = Append(events, e),
           e.amount >= 0
    PROVE  NoCredit'
<1>1. /\ DOMAIN events = 1..Len(events) /\ Len(events) \in Nat
      /\ DOMAIN events' = 1..(Len(events) + 1)
      /\ events'[Len(events) + 1] = e
      /\ \A i \in 1..Len(events) : events'[i] = events[i]
  BY AppendedEvent
<1>2. \A i \in DOMAIN events' : i \in DOMAIN events \/ i = Len(events) + 1
  BY <1>1
<1> QED
  BY <1>1, <1>2 DEF NoCredit

\* One more event keeps what is said of the events.
LEMMA LogGrows ==
    ASSUME SafeInv, SafeInv', LogInv, NEW e \in EventType, events' = Append(events, e), e.amount >= 0,
           \A a \in Accounts : overdrawn[a] <= overdrawn'[a] /\ Credit(a)' >= 0
    PROVE  LogInv'
<1>1. /\ events \in Seq(EventType) /\ Len(events) \in Nat
      /\ events' \in Seq(EventType) /\ Len(events') = Len(events) + 1
      /\ Len(SeedEvents) \in Nat
  BY PaymentsAssumption, LenProperties, AppendProperties DEF SafeInv, Shape, Typed
<1>2. NoCredit'
  BY <1>1, CreditKept DEF LogInv
<1>3. Len(events') \in Shorter'
  BY <1>1 DEF LogInv, Shorter
<1>4. ASSUME NEW a \in Accounts, NEW n \in Shorter'
      PROVE  TransactionBalance(SubSeq(events', 1, n), a).balance + overdrawn'[a] >= 0
  <2>1. n \in Nat /\ (n \in Shorter \/ n = Len(events) + 1)
    BY <1>1 DEF Shorter
  <2>2. CASE n \in Shorter
    <3>1. n <= Len(events)
      BY <1>1, <2>2 DEF Shorter
    <3>2. SubSeq(events', 1, n) = SubSeq(events, 1, n) /\ SubSeq(events, 1, n) \in Seq(EventType)
      BY <1>1, <2>1, <3>1, Beginnings, Prefix
    <3>3. TransactionBalance(SubSeq(events, 1, n), a) \in BalanceType
      BY <3>2, BalanceTyped
    <3>4. BalanceAt(n, a) \in Int
      BY <3>3, ScalaIntIsInt DEF BalanceAt, BalanceType
    <3>5. BalanceAt(n, a) + overdrawn[a] >= 0 /\ overdrawn[a] \in Nat /\ overdrawn'[a] \in Nat
      BY <2>2, CreditType DEF LogInv
    <3>6. TransactionBalance(SubSeq(events', 1, n), a).balance = BalanceAt(n, a)
      BY <3>2 DEF BalanceAt
    <3> QED
      BY <3>4, <3>5, <3>6
  <2>3. CASE n = Len(events) + 1
    <3>1. SubSeq(events', 1, n) = events'
      BY <1>1, <2>3, Beginnings
    <3> QED
      BY <3>1 DEF Credit, Owes
  <2> QED
    BY <2>1, <2>2, <2>3
<1> QED
  BY <1>2, <1>3, <1>4 DEF LogInv, BalanceAt

\* Fewer payments on their way, and less to pay only for accounts whose payment
\* has arrived, change nothing for what is in hand or still on its way.
LEMMA LessPending ==
    ASSUME PaidSafe, SafeInv', UNCHANGED <<published, consumer, guess, submission, balance, store>>,
           Pending' \subseteq Pending, outdated => outdated', risky \subseteq risky', NEW B,
           \A a \in Accounts : a \notin B => Credit(a) <= Credit(a)',
           \A a \in B : Awaits(a) /\ ~ Awaits(a)'
    PROVE  HandInv'
<1>1. \A a \in Accounts : Credit(a) \in Int /\ Credit(a)' \in Int
  BY CreditType DEF PaidSafe
<1>2. \A a : Awaits(a)' => Awaits(a)
  BY DEF Awaits
<1>3. \A i \in Pending : published[i].amount \in Int
  BY PublishedTyped DEF PaidSafe, Pending, PaymentType
<1>4. consumer = "publish" => Last(store).amount \in Int
  BY PublishedTyped DEF PaidSafe, PaymentType
<1>5. \A p : p.amount \in Int /\ p.account \notin B /\ Covered(p) => Covered(p)'
  BY <1>1 DEF Covered
<1>6. balance \in Int
  BY DEF PaidSafe, SafeInv, ValueInv
<1>7. \A i \in Pending' : published[i].account \notin B
  BY DEF Awaits
<1>8. \A i \in Pending' : Covered(published[i])'
  BY <1>3, <1>5, <1>7 DEF PaidSafe, HandInv
<1>9. \A i, j \in Pending' : published'[i].account = published'[j].account => i = j
  BY DEF PaidSafe, HandInv
<1>10. consumer' = "check" /\ ~ guess' /\ ~ outdated' =>
          /\ Submission'.account \in Accounts /\ balance' <= Credit(Submission.account)'
          /\ ~ Awaits(Submission.account)'
  <2> SUFFICES ASSUME consumer = "check", ~ guess, ~ outdated
               PROVE  /\ Submission'.account \in Accounts /\ balance' <= Credit(Submission.account)'
                      /\ ~ Awaits(Submission.account)'
    OBVIOUS
  <2>1. PICK a : a = Submission.account
    OBVIOUS
  <2>2. a \in Accounts /\ balance <= Credit(a) /\ ~ Awaits(a)
    BY <2>1 DEF PaidSafe, HandInv
  <2>3. balance <= Credit(a)' /\ ~ Awaits(a)'
    BY <1>1, <1>2, <1>6, <2>2
  <2>4. Submission' = Submission
    BY DEF Submission
  <2>5. balance' <= Credit(Submission.account)' /\ ~ Awaits(Submission.account)'
    BY <2>1, <2>3, <2>4 DEF Credit, Owes, Awaits
  <2> QED
    BY <2>1, <2>2, <2>4, <2>5
<1>11. consumer' = "publish" /\ Last(store') \notin risky' =>
          Covered(Last(store))' /\ ~ Awaits(Last(store).account)'
  <2> SUFFICES ASSUME consumer = "publish", Last(store) \notin risky
               PROVE  Covered(Last(store))' /\ ~ Awaits(Last(store).account)'
    OBVIOUS
  <2>1. PICK p : p = Last(store)
    OBVIOUS
  <2>2. Covered(p) /\ ~ Awaits(p.account) /\ p.amount \in Int
    BY <1>4, <2>1 DEF PaidSafe, HandInv
  <2>3. p.account \notin B
    BY <2>2
  <2>4. Covered(p)' /\ ~ Awaits(p.account)'
    BY <1>2, <1>5, <2>2, <2>3
  <2>5. Last(store') = p
    BY <2>1
  <2> QED
    BY <2>4, <2>5 DEF Covered, Awaits, Credit, Owes
<1> QED
  BY <1>8, <1>9, <1>10, <1>11 DEF HandInv

\* A payment that was applied remains so while no event is lost.
LEMMA PaidStays ==
    ASSUME SafeInv, NEW e \in EventType, events' = Append(events, e), NEW p, Paid(p)
    PROVE  Recorded(events', p.account, "paymentApplied", p.id)
<1>1. /\ DOMAIN events = 1..Len(events) /\ Len(events) \in Nat
      /\ DOMAIN events' = 1..(Len(events) + 1)
      /\ \A i \in 1..Len(events) : events'[i] = events[i]
  BY AppendedEvent DEF SafeInv, Shape, Typed
<1>2. PICK i \in DOMAIN events : /\ events[i].account = p.account
                                 /\ events[i].type = "paymentApplied" /\ events[i].ref = p.id
  BY DEF Paid, Recorded
<1>3. i \in DOMAIN events' /\ events'[i] = events[i]
  BY <1>1
<1> QED
  BY <1>2, <1>3 DEF Recorded

\* The same when no account has less to pay.
LEMMA SamePayable ==
    ASSUME PaidSafe, SafeInv', UNCHANGED <<published, consumer, guess, submission, balance, store>>,
           Pending' \subseteq Pending, outdated => outdated', risky \subseteq risky',
           \A a \in Accounts : Credit(a) <= Credit(a)'
    PROVE  HandInv'
<1> DEFINE B == {}
<1>1. \A a \in B : Awaits(a) /\ ~ Awaits(a)'
  OBVIOUS
<1>2. \A a \in Accounts : a \notin B => Credit(a) <= Credit(a)'
  OBVIOUS
<1> HIDE DEF B
<1> QED
  BY <1>1, <1>2, LessPending

\* A card transaction, whose clearings fit.
LEMMA CardPaid ==
    ASSUME PaidSafe, SafeInv', CardTransaction, ClearingsFit
    PROVE  LogInv' /\ HandInv'
<1>1. PICK e \in EventType : /\ events' = Append(events, e) /\ e.amount >= 0
                             /\ e.type \in {"decisioned", "cleared"}
  BY CardAppends
<1>2. events \in Seq(EventType) /\ e.amount \in Int
  BY DEF PaidSafe, SafeInv, Shape, Typed, EventType
<1>3. UNCHANGED <<published, consumer, guess, submission, balance, store, applied, overdrawn,
                  outdated, risky>>
  BY DEF CardTransaction, consumerVars, historyVars
<1>4. ASSUME NEW a \in Accounts PROVE Credit(a) <= Credit(a)'
  <2>1. Owes(a) \in Int /\ Owes(a)' \in Int /\ overdrawn[a] \in Nat
    BY CreditType DEF PaidSafe
  <2>2. e.account # a \/ e.outcome \in {"approved", "declined", "BAD"} \/ e.outcome = "CLEAN"
    BY <1>1 DEF EventType, OutcomesOf
  <2>3. CASE e.account # a \/ e.outcome \in {"approved", "declined", "BAD"}
    <3>1. Owes(a)' = Owes(a)
      BY <1>1, <1>2, <2>3, OwesAfter
    <3> QED
      BY <1>3, <2>1, <3>1 DEF Credit
  <2>4. CASE e.account = a /\ e.outcome = "CLEAN"
    <3>1. Owes(a) + e.amount < IntHalf
      BY <1>1, <2>4 DEF ClearingsFit
    <3>2. Owes(a)' = Owes(a) + e.amount
      BY <1>1, <1>2, <2>4, <3>1, OwesAfter
    <3> QED
      BY <1>1, <1>2, <1>3, <2>1, <3>2 DEF Credit
  <2> QED
    BY <2>2, <2>3, <2>4
<1>5. \A a \in Accounts : overdrawn[a] <= overdrawn'[a] /\ Credit(a)' >= 0
  <2>1. \A a \in Accounts : Credit(a) \in Int /\ Credit(a)' \in Int /\ overdrawn[a] \in Nat
    BY CreditType DEF PaidSafe
  <2> QED
    BY <1>3, <1>4, <2>1, SomeCredit DEF PaidSafe
<1>6. LogInv'
  BY <1>1, <1>5, LogGrows DEF PaidSafe
<1>7. Pending' \subseteq Pending
  <2>1. \A q : Paid(q) => Recorded(events', q.account, "paymentApplied", q.id)
    BY <1>1, PaidStays DEF PaidSafe
  <2> QED
    BY <1>3, <2>1 DEF Pending, OnWay, Paid
<1>8. HandInv'
  BY <1>3, <1>4, <1>7, SamePayable
<1> QED
  BY <1>6, <1>8

\* A payment is applied: no larger than what could be paid, or risky.
LEMMA ApplyPaid == ASSUME PaidSafe, SafeInv', Apply PROVE LogInv' /\ HandInv'
<1>0. PICK p : p = published[applied + 1]
  OBVIOUS
<1> DEFINE e == ResultOf(Submitted(p), events)
<1>1. /\ applied < Len(published) /\ applied' = applied + 1
      /\ L!Store(Submitted(p))
      /\ UNCHANGED <<published, consumer, guess, submission, balance, store, outdated, risky>>
      /\ overdrawn' = IF p \in risky /\ p.account \in Accounts
                        THEN [overdrawn EXCEPT ![p.account] = @ + p.amount] ELSE overdrawn
  BY <1>0 DEF Apply, L!ProcessPayment, consumerVars, historyVars
<1>2. /\ Len(published) \in Nat /\ applied \in 0..Len(published) /\ events \in Seq(EventType)
  BY LenProperties DEF PaidSafe, SafeInv, Shape, Typed
<1>3. p \in PaymentType /\ p.amount \in Nat
  BY <1>0, <1>1, NextPayment DEF PaidSafe
<1>4. Submitted(p) \in CommandType /\ Submitted(p).kind = "submitted"
  BY <1>3 DEF Submitted, CommandType, Kinds, PaymentType
<1>5. /\ e \in EventType /\ events' = Append(events, e) /\ Accepts(Submitted(p), events)
      /\ e.type = "paymentApplied" /\ e.account = p.account /\ e.amount = p.amount
  <2>1. Submitted(p).kind # "limitUpdated"
    BY <1>4
  <2>2. e = Event("paymentApplied", p.account, p.id, p.amount, "none")
    BY DEF ResultOf, Submitted, ApplyPayment
  <2> QED
    BY <1>1, <1>2, <1>4, <2>1, <2>2, LedgerAppends DEF Event
<1> HIDE DEF e
<1>6. ~ Paid(p)
  BY <1>5 DEF Accepts, Submitted, TypeFor, Paid
<1>7. /\ Pending' \subseteq Pending \ {applied + 1}
      /\ p \notin risky => applied + 1 \in Pending
  <2>1. \A q : Paid(q) => Recorded(events', q.account, "paymentApplied", q.id)
    BY <1>5, PaidStays DEF PaidSafe
  <2>2. \A i \in OnWay' : i \in OnWay /\ i # applied + 1
    <3>1. \A i \in (applied' + 1)..Len(published) : i \in (applied + 1)..Len(published) /\ i # applied + 1
      BY <1>1, <1>2
    <3> QED
      BY <1>1, <2>1, <3>1 DEF OnWay, Paid
  <2>3. applied + 1 \in OnWay
    BY <1>0, <1>1, <1>2, <1>6 DEF OnWay
  <2> QED
    BY <1>0, <1>1, <2>2, <2>3 DEF Pending
<1>8. \A a \in Accounts : /\ Owes(a) \in Int /\ Owes(a)' \in Int
                          /\ overdrawn[a] \in Nat /\ overdrawn'[a] \in Nat
  BY CreditType DEF PaidSafe
<1>9. \A a \in Accounts : a # p.account => Credit(a)' = Credit(a)
  <2> SUFFICES ASSUME NEW a \in Accounts, a # p.account PROVE Credit(a)' = Credit(a)
    OBVIOUS
  <2>1. Owes(a)' = Owes(a)
    BY <1>2, <1>3, <1>5, OwesAfter
  <2>2. overdrawn'[a] = overdrawn[a]
    <3>1. overdrawn \in [Accounts -> Nat]
      BY DEF PaidSafe, SafeInv, ValueInv
    <3> QED
      BY <1>1, <3>1
  <2> QED
    BY <2>1, <2>2 DEF Credit
<1>10. p.account \in Accounts => Owes(p.account)' >= Owes(p.account) - p.amount
  BY <1>2, <1>3, <1>5, OwesAfter
<1>11. \A a \in Accounts : Credit(a) >= 0 /\ Credit(a) \in Int
  BY SomeCredit, CreditType DEF PaidSafe
<1>12. CASE p \in risky
  <2>1. p.account \in Accounts => overdrawn'[p.account] = overdrawn[p.account] + p.amount
    <3>1. overdrawn \in [Accounts -> Nat]
      BY DEF PaidSafe, SafeInv, ValueInv
    <3> QED
      BY <1>1, <1>12, <3>1
  <2>2. p.account \in Accounts => Credit(p.account) <= Credit(p.account)'
    BY <1>3, <1>8, <1>10, <2>1 DEF Credit
  <2>3. \A a \in Accounts : Credit(a) <= Credit(a)'
    BY <1>9, <1>11, <2>2
  <2>4. \A a \in Accounts : overdrawn[a] <= overdrawn'[a]
    <3>1. overdrawn \in [Accounts -> Nat]
      BY DEF PaidSafe, SafeInv, ValueInv
    <3> QED
      BY <1>1, <1>3, <1>8, <2>1, <3>1
  <2>5. \A a \in Accounts : Credit(a)' \in Int
    BY <1>8 DEF Credit
  <2>6. LogInv'
    BY <1>3, <1>5, <1>11, <2>3, <2>4, <2>5, LogGrows DEF PaidSafe
  <2>7. HandInv'
    BY <1>1, <1>7, <2>3, SamePayable
  <2> QED
    BY <2>6, <2>7
<1>13. CASE p \notin risky
  <2>1. applied + 1 \in Pending /\ Covered(p) /\ p.account \in Accounts /\ overdrawn' = overdrawn
    BY <1>0, <1>1, <1>7, <1>13 DEF PaidSafe, HandInv, Covered
  <2>2. Awaits(p.account)
    BY <1>0, <2>1 DEF Awaits
  <2>3. ~ Awaits(p.account)'
    <3> SUFFICES ASSUME NEW i \in Pending', published[i].account = p.account PROVE FALSE
      BY <1>1 DEF Awaits
    <3>1. i \in Pending /\ i # applied + 1
      BY <1>7
    <3> QED
      BY <1>0, <2>1, <3>1 DEF PaidSafe, HandInv
  <2>4. Credit(p.account)' >= 0
    <3>1. p.amount <= Credit(p.account)
      BY <2>1 DEF Covered
    <3> QED
      BY <1>3, <1>8, <1>10, <2>1, <3>1 DEF Credit
  <2>5. \A a \in Accounts : overdrawn[a] <= overdrawn'[a] /\ Credit(a)' >= 0
    BY <1>8, <1>9, <1>11, <2>1, <2>4
  <2>6. LogInv'
    BY <1>3, <1>5, <2>5, LogGrows DEF PaidSafe
  <2>7. HandInv'
    <3> DEFINE B == {p.account}
    <3>1. \A a \in Accounts : a \notin B => Credit(a) <= Credit(a)'
      BY <1>9, <1>11
    <3>2. \A a \in B : Awaits(a) /\ ~ Awaits(a)'
      BY <2>2, <2>3
    <3> HIDE DEF B
    <3> QED
      BY <1>1, <1>7, <3>1, <3>2, LessPending
  <2> QED
    BY <2>6, <2>7
<1> QED
  BY <1>12, <1>13

\* A payment that is skipped, or delivered again, leaves fewer of those whose
\* check held on their way.
LEMMA DropPaid == ASSUME PaidSafe, SafeInv', Drop \/ ResetApplied PROVE LogInv' /\ HandInv'
<1>1. UNCHANGED <<events, overdrawn, published, consumer, guess, submission, balance, store, outdated>>
  BY DEF Drop, ResetApplied, consumerVars
<1>2. Len(published) \in Nat /\ applied \in 0..Len(published)
  BY LenProperties DEF PaidSafe, SafeInv, Shape, Typed
<1>3. risky \subseteq risky' /\ Pending' \subseteq Pending
  <2>1. CASE Drop
    <3>1. applied' = applied + 1 /\ risky' = risky
      BY <2>1 DEF Drop, historyVars
    <3>2. (applied' + 1)..Len(published) \subseteq (applied + 1)..Len(published)
      BY <1>2, <3>1
    <3> QED
      BY <1>1, <3>1, <3>2 DEF Pending, OnWay, Paid
  <2>2. CASE ResetApplied
    <3>1. /\ applied' = 0
          /\ risky' = risky \cup {published[i] : i \in {j \in 1..applied : ~ Paid(published[j])}}
      BY <2>2 DEF ResetApplied
    <3>2. ASSUME NEW i \in Pending' PROVE i \in Pending
      <4>1. /\ i \in (applied' + 1)..Len(published) /\ ~ Paid(published[i])
            /\ published[i] \notin risky'
        BY <1>1 DEF Pending, OnWay, Paid
      <4>2. i \in 1..applied \/ i \in (applied + 1)..Len(published)
        BY <1>2, <3>1, <4>1
      <4>3. i \notin 1..applied
        BY <3>1, <4>1
      <4> QED
        BY <3>1, <4>1, <4>2, <4>3 DEF Pending, OnWay
    <3> QED
      BY <3>1, <3>2
  <2> QED
    BY <2>1, <2>2
<1>4. LogInv'
  BY <1>1 DEF PaidSafe, LogInv, NoCredit, Shorter, BalanceAt
<1>5. \A a \in Accounts : Credit(a) <= Credit(a)'
  <2>1. \A a \in Accounts : Credit(a) \in Int
    BY CreditType DEF PaidSafe
  <2>2. \A a \in Accounts : Credit(a)' = Credit(a)
    BY <1>1 DEF Credit, Owes
  <2> QED
    BY <2>1, <2>2
<1>6. HandInv'
  BY <1>1, <1>3, <1>5, SamePayable
<1> QED
  BY <1>4, <1>6

\* Events are lost: no check holds any more.
LEMMA LossPaid ==
    ASSUME PaidSafe, SafeInv', LoseEvents \/ RestartTransactions
    PROVE  LogInv' /\ HandInv'
<1>1. /\ events \in Seq(EventType) /\ Len(events) \in Nat
      /\ SeedEvents \in Seq(EventType) /\ Len(SeedEvents) \in Nat
  BY PaymentsAssumption, LenProperties DEF PaidSafe, SafeInv, Shape, Typed
<1>2. LogInv'
  <2>1. CASE LoseEvents
    <3>1. PICK m \in Len(SeedEvents)..(Len(events) - 1) : events' = SubSeq(events, 1, m)
      BY <2>1 DEF LoseEvents
    <3>2. m \in Nat /\ m <= Len(events) /\ m >= Len(SeedEvents)
      BY <1>1, <3>1
    <3>3. /\ events' \in Seq(EventType) /\ Len(events') = m
          /\ \A i \in 1..m : events'[i] = events[i]
      BY <1>1, <3>1, <3>2, Prefix
    <3>4. Len(events') \in Shorter' /\ Shorter' \subseteq Shorter
      BY <1>1, <3>2, <3>3 DEF Shorter
    <3>5. NoCredit'
      <4>1. DOMAIN events' = 1..m /\ DOMAIN events = 1..Len(events)
        BY <1>1, <3>3, LenProperties
      <4>2. \A i \in 1..m : i \in 1..Len(events)
        BY <1>1, <3>2
      <4> QED
        BY <3>3, <4>1, <4>2 DEF PaidSafe, LogInv, NoCredit
    <3>6. \A a : \A n \in Shorter' : BalanceAt(n, a)' = BalanceAt(n, a)
      <4> SUFFICES ASSUME NEW n \in Shorter' PROVE SubSeq(events', 1, n) = SubSeq(events, 1, n)
        BY DEF BalanceAt
      <4>1. n \in Nat /\ n <= m
        BY <1>1, <3>3 DEF Shorter
      <4> QED
        BY <1>1, <3>1, <3>2, <4>1, Beginnings
    <3>7. overdrawn' = overdrawn
      BY <2>1 DEF LoseEvents
    <3>8. \A a \in Accounts : \A n \in Shorter' : BalanceAt(n, a)' + overdrawn'[a] >= 0
      BY <3>4, <3>6, <3>7 DEF PaidSafe, LogInv
    <3> QED
      BY <3>4, <3>5, <3>8 DEF LogInv, BalanceAt
  <2>2. CASE RestartTransactions
    <3>1. events' = SeedEvents /\ overdrawn' = [a \in Accounts |-> 0]
      BY <2>2 DEF RestartTransactions
    <3>2. Shorter' = {Len(SeedEvents)} /\ SubSeq(SeedEvents, 1, Len(SeedEvents)) = SeedEvents
      BY <1>1, <3>1, Beginnings DEF Shorter
    <3>3. NoCredit'
      BY <3>1, AmountsAssumption DEF NoCredit
    <3>4. \A a \in Accounts : TransactionBalance(SeedEvents, a).balance + overdrawn'[a] >= 0
      <4> SUFFICES ASSUME NEW a \in Accounts PROVE TransactionBalance(SeedEvents, a).balance + 0 >= 0
        BY <3>1
      <4>1. TransactionBalance(SeedEvents, a) \in BalanceType
        BY <1>1, BalanceTyped
      <4>2. TransactionBalance(SeedEvents, a).balance \in Int
        BY <4>1, ScalaIntIsInt DEF BalanceType
      <4> QED
        BY <4>2, AmountsAssumption
    <3> QED
      BY <3>1, <3>2, <3>3, <3>4 DEF LogInv, BalanceAt
  <2> QED
    BY <2>1, <2>2
<1>3. /\ UNCHANGED <<published, consumer, store>>
      /\ risky' = risky \cup {published[i] : i \in OnWay'}
                        \cup (IF consumer = "publish" THEN {Last(store)} ELSE {})
      /\ outdated' = (consumer = "check")
  BY DEF LoseEvents, RestartTransactions, Endangered
<1>4. Pending' = {}
  BY <1>3 DEF Pending
<1>5. consumer' = "check" => outdated'
  BY <1>3
<1>6. consumer' = "publish" => Last(store') \in risky'
  BY <1>3
<1>7. HandInv'
  BY <1>4, <1>5, <1>6 DEF HandInv
<1> QED
  BY <1>2, <1>7

\* Steps that leave the loop without a balance that it relies on.
LEMMA QuietPaid ==
    ASSUME PaidSafe,
           \/ Take \/ TakeFails \/ AskFails \/ AskThrows \/ Refuse \/ UnknownSource
           \/ ResetOffset \/ Restart
    PROVE  LogInv' /\ HandInv'
<1>1. UNCHANGED <<events, overdrawn, risky, published, applied>>
  BY DEF Take, TakeFails, AskFails, AskThrows, Refuse, UnknownSource, ResetOffset, Restart, Dies,
         ledgerVars, historyVars
<1>2. consumer' # "publish" /\ ~ (consumer' = "check" /\ ~ guess')
  BY DEF Take, TakeFails, AskFails, AskThrows, Refuse, UnknownSource, ResetOffset, Restart, Dies, Done,
         consumerVars
<1>3. LogInv'
  BY <1>1 DEF PaidSafe, LogInv, NoCredit, Shorter, BalanceAt
<1>4. Pending' = Pending /\ \A a : Credit(a)' = Credit(a)
  BY <1>1 DEF Pending, OnWay, Paid, Credit, Owes
<1>5. HandInv'
  BY <1>1, <1>2, <1>4 DEF PaidSafe, HandInv, Covered
<1> QED
  BY <1>3, <1>5

\* The balance is what is owed while no payment of the account is on its way.
LEMMA AskPaid == ASSUME PaidSafe, SafeInv', AskBalance PROVE LogInv' /\ HandInv'
<1>1. /\ consumer = "ask" /\ consumer' = "check" /\ Submission.account \in Accounts
      /\ balance' = Owes(Submission.account)
      /\ outdated' = OnItsWay(Submission.account)
      /\ UNCHANGED <<events, overdrawn, risky, published, applied, submission>>
  BY DEF AskBalance, Owes, ledgerVars, historyVars
<1>2. LogInv'
  BY <1>1 DEF PaidSafe, LogInv, NoCredit, Shorter, BalanceAt
<1>3. /\ Pending' = Pending /\ \A a : Credit(a)' = Credit(a)
      /\ \A a : Awaits(a)' <=> Awaits(a)
  BY <1>1 DEF Pending, OnWay, Paid, Credit, Owes, Awaits
<1>4. PICK a : a = Submission.account
  OBVIOUS
<1>5. a \in Accounts /\ balance' <= Credit(a)
  <2>1. a \in Accounts /\ Owes(a) \in Int /\ overdrawn[a] \in Nat
    BY <1>1, <1>4, CreditType DEF PaidSafe
  <2> QED
    BY <1>1, <1>4, <2>1 DEF Credit
<1>6. ~ outdated' => ~ Awaits(a)
  BY <1>1, <1>4 DEF OnItsWay, Awaits, Pending
<1>7. /\ \A i \in Pending' : Covered(published[i])'
      /\ \A i, j \in Pending' : published'[i].account = published'[j].account => i = j
  BY <1>1, <1>3 DEF PaidSafe, HandInv, Covered
<1>8. consumer' = "check" /\ ~ guess' /\ ~ outdated' =>
          /\ Submission'.account \in Accounts /\ balance' <= Credit(Submission.account)'
          /\ ~ Awaits(Submission.account)'
  <2> SUFFICES ASSUME ~ outdated'
               PROVE  /\ Submission'.account \in Accounts /\ balance' <= Credit(Submission.account)'
                      /\ ~ Awaits(Submission.account)'
    OBVIOUS
  <2>1. Submission' = Submission
    BY <1>1 DEF Submission
  <2>2. balance' <= Credit(a)' /\ ~ Awaits(a)'
    BY <1>3, <1>5, <1>6
  <2>3. balance' <= Credit(Submission.account)' /\ ~ Awaits(Submission.account)'
    BY <1>4, <2>1, <2>2 DEF Credit, Owes, Awaits
  <2> QED
    BY <1>1, <2>1, <2>3
<1>9. consumer' # "publish"
  BY <1>1
<1> QED
  BY <1>2, <1>7, <1>8, <1>9 DEF HandInv

\* The payment that is stored is covered by the balance in hand, or risky.
LEMMA StorePaid == ASSUME PaidSafe, SafeInv', StorePayment PROVE LogInv' /\ HandInv'
<1>1. /\ consumer = "check" /\ consumer' = "publish" /\ Submission.amount <= balance
      /\ store' = Append(store, Payment)
      /\ risky' = (IF guess \/ outdated THEN risky \cup {Payment} ELSE risky)
      /\ UNCHANGED <<events, overdrawn, published, applied>>
  BY DEF StorePayment, ledgerVars
<1>2. LogInv'
  BY <1>1 DEF PaidSafe, LogInv, NoCredit, Shorter, BalanceAt
<1>3. /\ Pending' \subseteq Pending /\ \A a : Credit(a)' = Credit(a)
      /\ \A a : Awaits(a)' => Awaits(a)
  BY <1>1 DEF Pending, OnWay, Paid, Credit, Owes, Awaits
<1>4. Payment \in PaymentType /\ store \in Seq(PaymentType)
  BY <1>1, PaymentInHand DEF PaidSafe, SafeInv, Shape, Typed
<1>5. PICK p : p = Payment
  OBVIOUS
<1>6. Last(store') = p
  BY <1>1, <1>4, <1>5, LastAppended
<1>7. p \notin risky' => Covered(p) /\ ~ Awaits(p.account)
  <2> SUFFICES ASSUME p \notin risky' PROVE Covered(p) /\ ~ Awaits(p.account)
    OBVIOUS
  <2>1. ~ guess /\ ~ outdated
    BY <1>1, <1>5
  <2>2. /\ p.account \in Accounts /\ p.amount = Submission.amount
        /\ balance <= Credit(p.account) /\ ~ Awaits(p.account)
    BY <1>1, <1>5, <2>1 DEF PaidSafe, HandInv, Payment
  <2>3. Credit(p.account) \in Int /\ balance \in Int /\ p.amount \in Int
    BY <1>4, <1>5, <2>2, CreditType DEF PaidSafe, SafeInv, ValueInv, PaymentType
  <2> QED
    BY <1>1, <2>2, <2>3 DEF Covered
<1>8. /\ \A i \in Pending' : Covered(published[i])'
      /\ \A i, j \in Pending' : published'[i].account = published'[j].account => i = j
  BY <1>1, <1>3 DEF PaidSafe, HandInv, Covered
<1>9. Last(store') \notin risky' => Covered(Last(store))' /\ ~ Awaits(Last(store).account)'
  BY <1>3, <1>6, <1>7 DEF Covered
<1> QED
  BY <1>1, <1>2, <1>8, <1>9 DEF HandInv

\* The payment that is published was covered, and is the only one of its
\* account, or it is risky.
LEMMA PublishPaid == ASSUME PaidSafe, Publish \/ PublishFails PROVE LogInv' /\ HandInv'
<1>1. /\ consumer = "publish" /\ consumer' = "idle"
      /\ published' \in {published, Append(published, Last(store))}
      /\ UNCHANGED <<events, overdrawn, applied, risky>>
  BY DEF Publish, PublishFails, Done, ledgerVars, historyVars
<1>2. LogInv'
  BY <1>1 DEF PaidSafe, LogInv, NoCredit, Shorter, BalanceAt
<1>3. \A a : Credit(a)' = Credit(a)
  BY <1>1 DEF Credit, Owes
<1>4. /\ store \in Seq(PaymentType) /\ store # << >> /\ published \in Seq(PaymentType)
      /\ applied \in 0..Len(published)
  BY <1>1 DEF PaidSafe, SafeInv, Shape, Typed, MadeInv
<1>5. PICK p : p = Last(store)
  OBVIOUS
<1>6. p \in PaymentType
  BY <1>4, <1>5, LastElement
<1> DEFINE n == Len(published)
<1>7. /\ n \in Nat /\ Append(published, p)[n + 1] = p /\ Len(Append(published, p)) = n + 1
      /\ \A i \in 1..n : Append(published, p)[i] = published[i]
  BY <1>4, <1>6, AppendProperties, LenProperties
<1>8. /\ \A i \in Pending : Covered(published[i])
      /\ \A i, j \in Pending : published[i].account = published[j].account => i = j
      /\ p \notin risky => Covered(p) /\ \A i \in Pending : published[i].account # p.account
  BY <1>1, <1>5 DEF PaidSafe, HandInv, Awaits
<1>9. \A i \in Pending' : \/ i \in Pending /\ published'[i] = published[i]
                          \/ i = n + 1 /\ published'[i] = p /\ p \notin risky
  <2>1. CASE published' = published
    BY <1>1, <2>1 DEF Pending, OnWay, Paid
  <2>2. CASE published' = Append(published, p)
    <3>1. \A i \in (applied + 1)..(n + 1) : (i \in 1..n /\ i \in (applied + 1)..n) \/ i = n + 1
      BY <1>4, <1>7
    <3> QED
      BY <1>1, <1>7, <2>2, <3>1 DEF Pending, OnWay, Paid
  <2> QED
    BY <1>1, <1>5, <2>1, <2>2
<1>10. \A i \in Pending' : Covered(published[i])'
  BY <1>3, <1>8, <1>9 DEF Covered
<1>11. \A i, j \in Pending' : published'[i].account = published'[j].account => i = j
  BY <1>8, <1>9
<1>12. HandInv'
  BY <1>1, <1>10, <1>11 DEF HandInv
<1> QED
  BY <1>2, <1>12

\* Every step keeps PaidSafe.
LEMMA StepPaid == ASSUME PaidSafe, [Next]_vars, [ClearingsFit]_vars PROVE PaidSafe'
<1>1. SafeInv'
  BY StepSafe DEF PaidSafe
<1>2. CASE UNCHANGED vars
  <2>1. UNCHANGED <<events, overdrawn, risky, outdated, published, applied, consumer, guess,
                    submission, balance, store>>
    BY <1>2 DEF vars, consumerVars, ledgerVars, historyVars
  <2>2. LogInv'
    BY <2>1 DEF PaidSafe, LogInv, NoCredit, Shorter, BalanceAt
  <2>3. /\ Pending' = Pending /\ Submission' = Submission
        /\ \A a : Credit(a)' = Credit(a) /\ (Awaits(a)' <=> Awaits(a))
    BY <2>1 DEF Pending, OnWay, Paid, Credit, Owes, Awaits, Submission
  <2>4. HandInv'
    BY <2>1, <2>3 DEF PaidSafe, HandInv, Covered, Awaits, Credit, Owes, Submission
  <2> QED
    BY <1>1, <2>2, <2>4 DEF PaidSafe
<1>3. CASE Next /\ ClearingsFit
  <2>1. LogInv' /\ HandInv'
    BY <1>1, <1>3, QuietPaid, AskPaid, StorePaid, PublishPaid, ApplyPaid, DropPaid, LossPaid, CardPaid
    DEF Next, SubmitPayment
  <2> QED
    BY <1>1, <2>1 DEF PaidSafe
<1> QED
  BY <1>2, <1>3

\* No account is below zero by more than the payments applied to it whose check
\* could not hold (Payments!NotOverpaid), while what is cleared fits into an
\* Int: for any card transactions between a balance's answer and the payment's
\* application, any failing sends and dying loops, any lost offsets and events
\* of the transactions service, and any restarts of either service.
THEOREM NotOverpaidHolds == Spec /\ [][ClearingsFit]_vars => []NotOverpaid
<1>1. Init => PaidSafe
  BY InitPaid
<1>2. PaidSafe /\ [Next]_vars /\ [ClearingsFit]_vars => PaidSafe'
  BY StepPaid
<1>3. PaidSafe => NotOverpaid
  BY SomeCredit DEF PaidSafe, NotOverpaid, Credit, Owes
<1> QED
  BY <1>1, <1>2, <1>3, PTL DEF Spec
=============================================================================
