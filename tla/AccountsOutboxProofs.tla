------------------------- MODULE AccountsOutboxProofs -------------------------
(* Theorems about AccountsOutbox, for any accounts and updates, any size of  *)
(* a batch, and any number of lost offsets and restarts.                     *)
EXTENDS AccountsOutbox, SequenceTheorems, TLAPS

(***************************************************************************)
(* Part 1: sequences.                                                      *)
(***************************************************************************)

\* What a sequence holds is of its element type.
LEMMA ElementOfDomain ==
    ASSUME NEW S, NEW seq \in Seq(S), NEW i \in DOMAIN seq
    PROVE  seq[i] \in S
BY ElementOfSeq, LenProperties

\* What Append does to length, elements and set of a sequence.
LEMMA AppendElements ==
    ASSUME NEW S, NEW seq \in Seq(S), NEW e \in S
    PROVE  /\ Append(seq, e) \in Seq(S)
           /\ Len(Append(seq, e)) = Len(seq) + 1
           /\ DOMAIN Append(seq, e) = 1..(Len(seq) + 1)
           /\ \A i \in 1..Len(seq) : Append(seq, e)[i] = seq[i]
           /\ Append(seq, e)[Len(seq) + 1] = e
           /\ ToSet(Append(seq, e)) = ToSet(seq) \cup {e}
<1>1. /\ Append(seq, e) \in Seq(S)
      /\ Len(Append(seq, e)) = Len(seq) + 1
      /\ \A i \in 1..Len(seq) : Append(seq, e)[i] = seq[i]
      /\ Append(seq, e)[Len(seq) + 1] = e
  BY AppendProperties
<1>2. Len(seq) \in Nat /\ DOMAIN seq = 1..Len(seq)
  BY LenProperties
<1>3. DOMAIN Append(seq, e) = 1..(Len(seq) + 1)
  BY <1>1, LenProperties
<1>4. ToSet(Append(seq, e)) \subseteq ToSet(seq) \cup {e}
  BY <1>1, <1>2, <1>3 DEF ToSet
<1>5. ToSet(seq) \cup {e} \subseteq ToSet(Append(seq, e))
  BY <1>1, <1>2, <1>3 DEF ToSet
<1> QED
  BY <1>1, <1>3, <1>4, <1>5

\* No element twice.
Distinct(seq) == \A i, j \in DOMAIN seq : seq[i] = seq[j] => i = j

\* Reverse keeps length and set, and what is distinct.
LEMMA ReverseElements ==
    ASSUME NEW S, NEW seq \in Seq(S)
    PROVE  /\ Reverse(seq) \in Seq(S)
           /\ Len(Reverse(seq)) = Len(seq)
           /\ ToSet(Reverse(seq)) = ToSet(seq)
           /\ Distinct(seq) => Distinct(Reverse(seq))
<1> DEFINE n == Len(seq)
           r == Reverse(seq)
<1>1. n \in Nat /\ DOMAIN seq = 1..n /\ \A i \in 1..n : seq[i] \in S
  BY LenProperties, ElementOfSeq
<1>2. r = [i \in 1..n |-> seq[(n - i) + 1]]
  BY DEF Reverse
<1> HIDE DEF n, r
<1>3. \A i \in 1..n : (n - i) + 1 \in 1..n
  BY <1>1
<1>4. r \in [1..n -> S]
  BY <1>1, <1>2, <1>3
<1>5. r \in Seq(S)
  BY <1>1, <1>4, SeqDef
<1>6. DOMAIN r = 1..n /\ \A i \in 1..n : r[i] = seq[(n - i) + 1]
  BY <1>2
<1>7. Len(r) = n
  BY <1>1, <1>5, <1>6, LenProperties
<1>8. ToSet(r) \subseteq ToSet(seq)
  BY <1>1, <1>3, <1>6 DEF ToSet
<1>9. ToSet(seq) \subseteq ToSet(r)
  <2> SUFFICES ASSUME NEW x \in ToSet(seq) PROVE x \in ToSet(r)
    OBVIOUS
  <2>1. PICK i \in 1..n : x = seq[i]
    BY <1>1 DEF ToSet
  <2>2. (n - i) + 1 \in 1..n /\ (n - ((n - i) + 1)) + 1 = i
    BY <1>1
  <2>3. r[(n - i) + 1] = x
    BY <2>1, <2>2, <1>6
  <2> QED
    BY <2>2, <2>3, <1>6 DEF ToSet
<1>10. Distinct(seq) => Distinct(r)
  <2> SUFFICES ASSUME Distinct(seq), NEW i \in 1..n, NEW j \in 1..n, r[i] = r[j] PROVE i = j
    BY <1>6 DEF Distinct
  <2>1. (n - i) + 1 = (n - j) + 1
    BY <1>1, <1>3, <1>6 DEF Distinct
  <2> QED
    BY <2>1, <1>1
<1> QED
  BY <1>5, <1>7, <1>8, <1>9, <1>10 DEF n, r

\* RemoveAt takes one element away; from distinct ones, all there is of it.
LEMMA RemoveAtElements ==
    ASSUME NEW S, NEW seq \in Seq(S), NEW k \in DOMAIN seq
    PROVE  /\ RemoveAt(seq, k) \in Seq(S)
           /\ ToSet(RemoveAt(seq, k)) \subseteq ToSet(seq)
           /\ ToSet(seq) \subseteq ToSet(RemoveAt(seq, k)) \cup {seq[k]}
           /\ Distinct(seq) => Distinct(RemoveAt(seq, k)) /\ seq[k] \notin ToSet(RemoveAt(seq, k))
<1> DEFINE n == Len(seq)
           a == SubSeq(seq, 1, k - 1)
           b == SubSeq(seq, k + 1, n)
           r == RemoveAt(seq, k)
<1>1. n \in Nat /\ DOMAIN seq = 1..n /\ k \in 1..n /\ \A i \in 1..n : seq[i] \in S
  BY LenProperties, ElementOfSeq
<1>2. /\ a \in Seq(S) /\ Len(a) = k - 1
      /\ \A i \in 1..(k - 1) : a[i] = seq[i]
  <2>1. \A i \in 1..(k - 1) : seq[i] \in S
    BY <1>1
  <2> QED
    BY <2>1, <1>1, SubSeqProperties
<1>3. /\ b \in Seq(S) /\ Len(b) = n - k
      /\ \A i \in 1..(n - k) : b[i] = seq[k + i]
  <2>1. \A i \in (k + 1)..n : seq[i] \in S
    BY <1>1
  <2> QED
    BY <2>1, <1>1, SubSeqProperties
<1>4. r = a \o b
  BY DEF RemoveAt
<1> HIDE DEF n, a, b, r
<1>5. /\ r \in Seq(S) /\ Len(r) = n - 1
      /\ \A i \in 1..(n - 1) : r[i] = IF i < k THEN seq[i] ELSE seq[i + 1]
  <2>1. /\ r \in Seq(S) /\ Len(r) = (k - 1) + (n - k)
        /\ \A i \in 1..((k - 1) + (n - k)) : r[i] = IF i <= k - 1 THEN a[i] ELSE b[i - (k - 1)]
    BY <1>2, <1>3, <1>4, ConcatProperties, SMTT(30)
  <2>2. \A i \in 1..(n - 1) : i < k => i \in 1..(k - 1)
    BY <1>1
  <2>3. \A i \in 1..(n - 1) : ~ (i < k) => /\ i - (k - 1) \in 1..(n - k) /\ k + (i - (k - 1)) = i + 1
    BY <1>1
  <2>4. (k - 1) + (n - k) = n - 1
    BY <1>1
  <2>5. \A i \in 1..(n - 1) : i < k => r[i] = seq[i]
    BY <2>1, <2>2, <2>4, <1>1, <1>2
  <2>6. \A i \in 1..(n - 1) : ~ (i < k) => r[i] = b[i - (k - 1)]
    BY <2>1, <2>4, <1>1
  <2>7. \A i \in 1..(n - 1) : ~ (i < k) => b[i - (k - 1)] = seq[i + 1]
    <3> SUFFICES ASSUME NEW i \in 1..(n - 1), ~ (i < k) PROVE b[i - (k - 1)] = seq[i + 1]
      OBVIOUS
    <3>1. b[i - (k - 1)] = seq[k + (i - (k - 1))]
      BY <2>3, <1>3
    <3> QED
      BY <3>1, <2>3
  <2>8. Len(r) = n - 1
    BY <2>1, <2>4
  <2> QED
    BY <2>1, <2>5, <2>6, <2>7, <2>8
<1>6. DOMAIN r = 1..(n - 1)
  BY <1>5, LenProperties
<1>7. ToSet(r) \subseteq ToSet(seq)
  <2> SUFFICES ASSUME NEW i \in 1..(n - 1) PROVE r[i] \in ToSet(seq)
    BY <1>6 DEF ToSet
  <2>1. i \in 1..n /\ i + 1 \in 1..n
    BY <1>1
  <2> QED
    BY <2>1, <1>1, <1>5 DEF ToSet
<1>8. ToSet(seq) \subseteq ToSet(r) \cup {seq[k]}
  <2> SUFFICES ASSUME NEW x \in ToSet(seq), x # seq[k]
               PROVE  \E j \in 1..(n - 1) : r[j] = x
    BY <1>6 DEF ToSet
  <2> PICK i \in 1..n : x = seq[i] /\ i # k
    BY <1>1 DEF ToSet
  <2>1. CASE i < k
    <3>1. i \in 1..(n - 1)
      BY <2>1, <1>1
    <3> QED
      BY <3>1, <2>1, <1>5
  <2>2. CASE i > k
    <3>1. i - 1 \in 1..(n - 1) /\ ~ (i - 1 < k) /\ (i - 1) + 1 = i
      BY <2>2, <1>1
    <3> QED
      BY <3>1, <1>5
  <2> QED
    BY <2>1, <2>2, <1>1
<1>9. Distinct(seq) => Distinct(r) /\ seq[k] \notin ToSet(r)
  <2> SUFFICES ASSUME Distinct(seq) PROVE Distinct(r) /\ seq[k] \notin ToSet(r)
    OBVIOUS
  <2> DEFINE old(i) == IF i < k THEN i ELSE i + 1
  <2>1. \A i \in 1..(n - 1) : old(i) \in 1..n /\ r[i] = seq[old(i)] /\ old(i) # k
    BY <1>1, <1>5
  <2>2. \A i, j \in 1..(n - 1) : old(i) = old(j) => i = j
    BY <1>1
  <2> HIDE DEF old
  <2>3. Distinct(r)
    BY <2>1, <2>2, <1>1, <1>6 DEF Distinct
  <2>4. seq[k] \notin ToSet(r)
    BY <2>1, <1>1, <1>6 DEF Distinct, ToSet
  <2> QED
    BY <2>3, <2>4
<1> QED
  BY <1>5, <1>7, <1>8, <1>9 DEF r

\* What remains of a sequence of events is a sequence of some of them.
LEMMA RemainsElements ==
    ASSUME NEW seq \in Seq(EventType), NEW left \in Remains(seq)
    PROVE  /\ left \in Seq(EventType)
           /\ ToSet(left) \subseteq ToSet(seq)
           /\ ~ torn => left = seq
           /\ Distinct(seq) => Distinct(left)
<1>1. CASE torn
  <2>1. left \in SeqOf(ToSet(seq), Len(seq)) /\ Keeps(left, seq)
    BY <1>1 DEF Remains
  <2>2. PICK n \in 0..Len(seq) : left \in [1..n -> ToSet(seq)]
    BY <2>1 DEF SeqOf
  <2>3. Len(seq) \in Nat /\ n \in Nat
    BY LenProperties
  <2>4. ToSet(seq) \subseteq EventType
    BY ElementOfDomain DEF ToSet
  <2>5. left \in [1..n -> EventType] /\ DOMAIN left = 1..n
    BY <2>2, <2>4
  <2>6. left \in Seq(EventType)
    BY <2>3, <2>5, SeqDef
  <2>7. ToSet(left) \subseteq ToSet(seq)
    BY <2>2, <2>5 DEF ToSet
  <2>8. Distinct(seq) => Distinct(left)
    <3> SUFFICES ASSUME Distinct(seq), NEW i \in 1..n, NEW j \in 1..n, left[i] = left[j], i < j
                 PROVE  FALSE
      BY <2>3, <2>5 DEF Distinct
    <3>1. PICK k, l \in DOMAIN seq : k < l /\ seq[k] = left[i] /\ seq[l] = left[j]
      BY <2>1, <2>5 DEF Keeps
    <3>2. k = l
      BY <3>1 DEF Distinct
    <3>3. DOMAIN seq = 1..Len(seq)
      BY LenProperties
    <3> QED
      BY <3>1, <3>2, <3>3, <2>3
  <2> QED
    BY <1>1, <2>6, <2>7, <2>8
<1>2. CASE ~ torn
  BY <1>2 DEF Remains
<1> QED
  BY <1>1, <1>2

(***************************************************************************)
(* Part 2: types, and where the events are.                                *)
(***************************************************************************)

InHandOf == {"remove", "restore", "append", "appending", "poke"}
Unsaved  == {"remove", "restore", "append", "appending"}

\* The consumer holds an update; once it is found, its account is known and,
\* when it is put back, has the limit that is asked for.
RecordInv ==
    /\ record = << >> \/ \E i \in DOMAIN Updates : record = << Updates[i] >>
    /\ consumer \in {"restore", "append", "appending"} => Update.account \in Accounts
    /\ consumer \in {"append", "appending"} => limit[Update.account] = Update.newCreditLimit

\* The bound on lost offsets bounds the number of saves.
SavesInv == Len(saves) + (IF consumer \in Unsaved THEN 1 ELSE 0) <= MaxSaves + offset

\* Events are numbered as they are saved, and no others exist.
EventsInv ==
    /\ \A i \in DOMAIN saves : saves[i].id = i
    /\ ToSet(outbox) \cup ToSet(batch) \cup ToSet(topic) \subseteq ToSet(saves)
    /\ Distinct(outbox) /\ Distinct(batch)

\* What the poller deletes it has sent before, or tried to.
PollerInv ==
    /\ poller = "asleep" => batch = << >> /\ at = 1
    /\ poller \in {"remove", "removing"} =>
          at <= Len(batch) /\ InHand \in ToSet(topic) \cup failed

Shape == TypeOK /\ RecordInv /\ SavesInv /\ EventsInv /\ PollerInv

\* The service starts in shape.
LEMMA InitShape == ASSUME Init PROVE Shape
<1>1. << >> \in Seq(UpdateType) /\ << >> \in Seq(EventType) /\ Len(<< >>) = 0
  BY EmptySeq
<1>2. DOMAIN << >> = {} /\ ToSet(<< >>) = {}
  BY <1>1, LenProperties DEF ToSet
<1>3. Len(Updates) \in Nat
  BY UpdatesAssumption, LenProperties
<1>4. TypeOK
  <2>1. 1 \in 1..(Len(<< >>) + 1) /\ 0 \in 0..Len(Updates) /\ 0 \in Nat
    BY <1>1, <1>3
  <2>2. record \in Seq(UpdateType) /\ (record = << >> <=> consumer \in {"idle", "dead"})
    BY <1>1 DEF Init
  <2>3. limit \in [Accounts -> Int] /\ present \subseteq Accounts
    BY AccountsAssumption DEF Init
  <2>4. at \in 1..(Len(batch) + 1) /\ offset \in 0..Len(Updates) /\ crashes \in Nat
    BY <2>1 DEF Init
  <2>5. outbox \in Seq(EventType) /\ batch \in Seq(EventType) /\ topic \in Seq(EventType)
        /\ saves \in Seq(EventType)
    BY <1>1 DEF Init
  <2> QED
    BY <2>2, <2>3, <2>4, <2>5 DEF Init, TypeOK
<1>5. RecordInv
  BY DEF Init, RecordInv
<1>6. SavesInv
  BY <1>1, NumbersAssumption DEF Init, SavesInv, Unsaved
<1>7. EventsInv
  BY <1>2 DEF Init, EventsInv, Distinct
<1>8. PollerInv
  BY DEF Init, PollerInv
<1> QED
  BY <1>4, <1>5, <1>6, <1>7, <1>8 DEF Shape

\* The update in hand.
LEMMA UpdateInHand ==
    ASSUME TypeOK, RecordInv, consumer \in InHandOf
    PROVE  /\ \E i \in DOMAIN Updates : Update = Updates[i]
           /\ Update \in UpdateType
<1>1. record # << >>
  BY DEF TypeOK, InHandOf
<1>2. PICK i \in DOMAIN Updates : record = << Updates[i] >>
  BY <1>1 DEF RecordInv
<1>3. Update = Updates[i]
  BY <1>2 DEF Update
<1>4. Updates[i] \in UpdateType
  BY UpdatesAssumption, ElementOfDomain
<1> QED
  BY <1>3, <1>4

\* The event in hand.
LEMMA EventInHand ==
    ASSUME TypeOK, at <= Len(batch)
    PROVE  at \in DOMAIN batch /\ InHand \in EventType /\ InHand \in ToSet(batch)
<1>1. batch \in Seq(EventType) /\ at \in 1..(Len(batch) + 1)
  BY DEF TypeOK
<1>2. Len(batch) \in Nat /\ DOMAIN batch = 1..Len(batch)
  BY <1>1, LenProperties
<1>3. at \in DOMAIN batch
  BY <1>1, <1>2
<1>4. InHand \in EventType
  BY <1>1, <1>3, ElementOfDomain DEF InHand
<1>5. InHand \in ToSet(batch)
  BY <1>3 DEF InHand, ToSet
<1> QED
  BY <1>3, <1>4, <1>5

\* The event that EndAppend puts in the outbox.
NewEvent == [id |-> Len(saves) + 1, account |-> Update.account, limit |-> Update.newCreditLimit]

\* The event that a change asks for is one.
LEMMA NewEventType ==
    ASSUME TypeOK, RecordInv, consumer \in InHandOf
    PROVE  NewEvent \in EventType
<1>1. Len(saves) + 1 \in Nat
  BY LenProperties DEF TypeOK
<1>2. Update \in UpdateType
  BY UpdateInHand
<1> QED
  BY <1>1, <1>2 DEF NewEvent, EventType, UpdateType

\* A record is taken.
LEMMA TakeShape == ASSUME Shape, Take PROVE Shape'
<1>1. /\ consumer = "idle" /\ consumer' = "remove"
      /\ offset < Len(Updates) /\ offset' = offset + 1 /\ record' = << Updates[offset + 1] >>
      /\ UNCHANGED <<accountVars, outbox, torn, pollerVars, due, topic, saves, historyVars, crashes>>
  BY DEF Take
<1>2. Len(Updates) \in Nat /\ DOMAIN Updates = 1..Len(Updates) /\ offset \in 0..Len(Updates)
  BY UpdatesAssumption, LenProperties DEF Shape, TypeOK
<1>3. offset + 1 \in DOMAIN Updates /\ offset' \in 0..Len(Updates)
  BY <1>1, <1>2
<1>4. Updates[offset + 1] \in UpdateType
  BY <1>3, UpdatesAssumption, ElementOfDomain
<1>5. record' \in Seq(UpdateType) /\ record' # << >>
  BY <1>1, <1>4
<1>6. TypeOK'
  BY <1>1, <1>3, <1>5 DEF Shape, TypeOK, accountVars, pollerVars, historyVars
<1>7. RecordInv'
  BY <1>1, <1>3 DEF RecordInv
<1>8. SavesInv'
  <2>1. Len(saves) \in Nat /\ MaxSaves \in Nat
    BY NumbersAssumption, LenProperties DEF Shape, TypeOK
  <2> QED
    BY <2>1, <1>1, <1>2 DEF Shape, SavesInv, Unsaved
<1>9. EventsInv'
  BY <1>1 DEF Shape, EventsInv, pollerVars
<1>10. PollerInv'
  BY <1>1 DEF Shape, PollerInv, InHand, pollerVars, historyVars
<1> QED
  BY <1>6, <1>7, <1>8, <1>9, <1>10 DEF Shape

\* The other steps of the consumer loop.
LEMMA ConsumerShape ==
    ASSUME Shape, TakeFails \/ RemoveAccount \/ RestoreAccount \/ BeginAppend \/ Poke
    PROVE  Shape'
<1>0. Len(Updates) \in Nat /\ offset \in 0..Len(Updates)
  BY LenProperties, UpdatesAssumption DEF Shape, TypeOK
<1>1. /\ UNCHANGED <<outbox, pollerVars, topic, saves, historyVars, crashes>>
      /\ torn' \in BOOLEAN /\ due' \in BOOLEAN
      /\ offset' \in 0..Len(Updates) /\ offset <= offset'
  <2>1. /\ UNCHANGED <<outbox, pollerVars, topic, saves, historyVars, crashes>>
        /\ torn' \in BOOLEAN /\ due' \in BOOLEAN
    BY DEF Shape, TypeOK, TakeFails, RemoveAccount, RestoreAccount, BeginAppend, Poke
  <2>2. offset' \in {offset, offset + 1} \cap 0..Len(Updates)
    BY <1>0 DEF TakeFails, RemoveAccount, RestoreAccount, BeginAppend, Poke
  <2> QED
    BY <1>0, <2>1, <2>2
<1>2. EventsInv' /\ PollerInv'
  BY <1>1 DEF Shape, EventsInv, PollerInv, InHand, pollerVars, historyVars
<1>3. record' \in Seq(UpdateType)
  BY EmptySeq DEF Shape, TypeOK, TakeFails, RemoveAccount, RestoreAccount, BeginAppend, Poke
<1>4. SavesInv'
  <2>1. Len(saves) \in Nat /\ MaxSaves \in Nat /\ offset \in Nat
    BY NumbersAssumption, LenProperties, UpdatesAssumption DEF Shape, TypeOK
  <2>2. consumer' \in Unsaved => consumer \in Unsaved
    BY DEF TakeFails, RemoveAccount, RestoreAccount, BeginAppend, Poke, Unsaved
  <2> QED
    BY <1>0, <1>1, <2>1, <2>2 DEF Shape, SavesInv
<1>5. limit' \in [Accounts -> Int] /\ present' \subseteq Accounts /\ RecordInv'
      /\ (record' = << >> <=> consumer' \in {"idle", "dead"})
      /\ consumer' \in {"idle", "remove", "restore", "append", "appending", "poke", "dead"}
  <2>1. CASE TakeFails
    BY <2>1 DEF TakeFails, Shape, TypeOK, RecordInv, accountVars, Update
  <2>2. CASE RemoveAccount
    <3>1. CASE Update.account \in present
      BY <2>2, <3>1 DEF RemoveAccount, Shape, TypeOK, RecordInv, Update
    <3>2. CASE Update.account \notin present
      BY <2>2, <3>2 DEF RemoveAccount, Shape, TypeOK, RecordInv, Update
    <3> QED
      BY <3>1, <3>2
  <2>3. CASE RestoreAccount
    <3>1. consumer = "restore" /\ consumer' = "append" /\ record' = record
          /\ limit' = [limit EXCEPT ![Update.account] = Update.newCreditLimit]
          /\ present' = present \cup {Update.account} /\ Update' = Update
      BY <2>3 DEF RestoreAccount, Update
    <3>2. Update \in UpdateType /\ Update.account \in Accounts
      BY <3>1, UpdateInHand DEF Shape, RecordInv, InHandOf
    <3>3. limit' \in [Accounts -> Int] /\ limit'[Update.account] = Update.newCreditLimit
      BY <3>1, <3>2 DEF Shape, TypeOK, UpdateType
    <3>4. RecordInv'
      BY <3>1, <3>2, <3>3 DEF Shape, RecordInv
    <3> QED
      BY <3>1, <3>2, <3>3, <3>4 DEF Shape, TypeOK
  <2>4. CASE BeginAppend
    BY <2>4 DEF BeginAppend, Shape, TypeOK, RecordInv, accountVars, Update
  <2>5. CASE Poke
    BY <2>5 DEF Poke, Shape, TypeOK, RecordInv, accountVars, Update
  <2> QED
    BY <2>1, <2>2, <2>3, <2>4, <2>5
<1>6. TypeOK'
  BY <1>1, <1>3, <1>5 DEF Shape, TypeOK, pollerVars, historyVars
<1> QED
  BY <1>2, <1>4, <1>5, <1>6 DEF Shape

\* The change is in the outbox.
LEMMA EndAppendShape == ASSUME Shape, EndAppend PROVE Shape'
<1>1. /\ consumer = "appending" /\ consumer' = "poke"
      /\ outbox' \in Remains(Append(outbox, NewEvent))
      /\ saves' = Append(saves, NewEvent)
      /\ UNCHANGED <<record, accountVars, torn, pollerVars, due, offset, topic, historyVars, crashes>>
  BY DEF EndAppend, NewEvent
<1>2. NewEvent \in EventType
  BY <1>1, NewEventType DEF Shape, InHandOf
<1>3. /\ saves \in Seq(EventType) /\ outbox \in Seq(EventType) /\ Len(saves) \in Nat
      /\ DOMAIN saves = 1..Len(saves) /\ DOMAIN outbox = 1..Len(outbox) /\ Len(outbox) \in Nat
  BY LenProperties DEF Shape, TypeOK
<1>4. /\ saves' \in Seq(EventType) /\ Len(saves') = Len(saves) + 1
      /\ DOMAIN saves' = 1..(Len(saves) + 1)
      /\ \A i \in 1..Len(saves) : saves'[i] = saves[i]
      /\ saves'[Len(saves) + 1] = NewEvent
      /\ ToSet(saves') = ToSet(saves) \cup {NewEvent}
  BY <1>1, <1>2, <1>3, AppendElements
<1>5. NewEvent \notin ToSet(saves)
  <2> SUFFICES ASSUME NEW i \in 1..Len(saves), saves[i] = NewEvent PROVE FALSE
    BY <1>3 DEF ToSet
  <2>1. saves[i].id = i
    BY <1>3 DEF Shape, EventsInv
  <2> QED
    BY <2>1, <1>3 DEF NewEvent
<1>6. /\ Append(outbox, NewEvent) \in Seq(EventType)
      /\ ToSet(Append(outbox, NewEvent)) = ToSet(outbox) \cup {NewEvent}
      /\ Distinct(Append(outbox, NewEvent))
  <2> DEFINE longer == Append(outbox, NewEvent)
  <2>1. /\ longer \in Seq(EventType)
        /\ DOMAIN longer = 1..(Len(outbox) + 1)
        /\ \A i \in 1..Len(outbox) : longer[i] = outbox[i]
        /\ longer[Len(outbox) + 1] = NewEvent
        /\ ToSet(longer) = ToSet(outbox) \cup {NewEvent}
    BY <1>2, <1>3, AppendElements
  <2>2. \A i \in 1..Len(outbox) : outbox[i] # NewEvent
    BY <1>3, <1>5 DEF Shape, EventsInv, ToSet
  <2>3. \A i, j \in 1..Len(outbox) : outbox[i] = outbox[j] => i = j
    BY <1>3 DEF Shape, EventsInv, Distinct
  <2> HIDE DEF longer
  <2>4. Distinct(longer)
    BY <2>1, <2>2, <2>3, <1>3 DEF Distinct
  <2> QED
    BY <2>1, <2>4 DEF longer
<1>7. /\ outbox' \in Seq(EventType)
      /\ ToSet(outbox') \subseteq ToSet(outbox) \cup {NewEvent}
      /\ Distinct(outbox')
  BY <1>1, <1>6, RemainsElements
<1>8. TypeOK'
  <2>1. record # << >>
    BY <1>1 DEF Shape, TypeOK
  <2> QED
    BY <2>1, <1>1, <1>4, <1>7 DEF Shape, TypeOK, accountVars, pollerVars, historyVars
<1>9. RecordInv'
  BY <1>1 DEF Shape, RecordInv
<1>10. SavesInv'
  <2>1. MaxSaves \in Nat /\ offset \in Nat
    BY NumbersAssumption, LenProperties, UpdatesAssumption DEF Shape, TypeOK
  <2> QED
    BY <1>1, <1>3, <1>4, <2>1 DEF Shape, SavesInv, Unsaved
<1>11. EventsInv'
  <2>1. \A i \in DOMAIN saves' : saves'[i].id = i
    <3> SUFFICES ASSUME NEW i \in 1..(Len(saves) + 1) PROVE saves'[i].id = i
      BY <1>4
    <3>1. CASE i = Len(saves) + 1
      BY <3>1, <1>4 DEF NewEvent
    <3>2. CASE i # Len(saves) + 1
      <4>1. i \in 1..Len(saves)
        BY <3>2, <1>3
      <4>2. saves[i].id = i
        BY <4>1, <1>3 DEF Shape, EventsInv
      <4> QED
        BY <4>1, <4>2, <1>4
    <3> QED
      BY <3>1, <3>2
  <2> QED
    BY <2>1, <1>1, <1>4, <1>7 DEF Shape, EventsInv, pollerVars
<1>12. PollerInv'
  BY <1>1 DEF Shape, PollerInv, InHand, pollerVars, historyVars
<1> QED
  BY <1>8, <1>9, <1>10, <1>11, <1>12 DEF Shape

\* A step of the poller that leaves the consumer, its account and its saves alone.
LEMMA PollerShape ==
    ASSUME Shape, TypeOK', EventsInv', PollerInv',
           UNCHANGED <<consumerVars, accountVars, offset, saves>>
    PROVE  Shape'
<1>1. RecordInv' /\ SavesInv'
  BY DEF Shape, RecordInv, SavesInv, Update, consumerVars, accountVars
<1> QED
  BY <1>1 DEF Shape

\* The poller looks at the outbox.
LEMMA CheckShape == ASSUME Shape, Check PROVE Shape'
<1>1. /\ poller = "asleep" /\ poller' = "publish" /\ at' = 1
      /\ \E s \in Remains(outbox) : batch' = Reverse(s)
      /\ piled' = (piled \/ Len(batch') > 1)
      /\ UNCHANGED <<consumerVars, accountVars, outbox, torn, due, offset, topic, saves,
                     failed, kept, crashes>>
  BY DEF Check
<1>2. PICK s \in Remains(outbox) : batch' = Reverse(s)
  BY <1>1
<1>3. /\ s \in Seq(EventType) /\ ToSet(s) \subseteq ToSet(outbox) /\ Distinct(s)
  BY RemainsElements DEF Shape, TypeOK, EventsInv
<1>4. /\ batch' \in Seq(EventType) /\ ToSet(batch') \subseteq ToSet(outbox)
      /\ Distinct(batch')
  BY <1>2, <1>3, ReverseElements
<1>5. at' \in 1..(Len(batch') + 1)
  BY <1>1, <1>4, LenProperties
<1>6. piled' \in BOOLEAN
  BY <1>1 DEF Shape, TypeOK
<1>7. TypeOK'
  BY <1>1, <1>4, <1>5, <1>6 DEF Shape, TypeOK, consumerVars, accountVars
<1>8. EventsInv'
  BY <1>1, <1>4 DEF Shape, EventsInv
<1>9. PollerInv'
  BY <1>1 DEF PollerInv
<1> QED
  BY <1>1, <1>7, <1>8, <1>9, PollerShape

\* The poller publishes, or fails to.
LEMMA PublishShape == ASSUME Shape, Publish \/ PublishFails PROVE Shape'
<1>1. /\ poller = "publish" /\ at <= Len(batch) /\ poller' = "remove"
      /\ UNCHANGED <<consumerVars, accountVars, outbox, torn, batch, at, due, offset, saves,
                     kept, piled, crashes>>
      /\ topic' \in {topic, Append(topic, InHand)} /\ failed' \in {failed, failed \cup {InHand}}
      /\ topic' = Append(topic, InHand) \/ failed' = failed \cup {InHand}
  BY DEF Publish, PublishFails, historyVars
<1>2. InHand \in EventType /\ InHand \in ToSet(batch) /\ InHand' = InHand
  BY <1>1, EventInHand DEF Shape, InHand
<1>3. topic \in Seq(EventType)
  BY DEF Shape, TypeOK
<1>4. /\ Append(topic, InHand) \in Seq(EventType)
      /\ ToSet(Append(topic, InHand)) = ToSet(topic) \cup {InHand}
  BY <1>2, <1>3, AppendElements
<1>5. TypeOK'
  BY <1>1, <1>2, <1>4 DEF Shape, TypeOK, consumerVars, accountVars
<1>6. EventsInv'
  BY <1>1, <1>2, <1>4 DEF Shape, EventsInv
<1>7. PollerInv'
  BY <1>1, <1>2, <1>4 DEF Shape, PollerInv
<1> QED
  BY <1>1, <1>5, <1>6, <1>7, PollerShape

\* The poller starts to remove what it published.
LEMMA BeginRemoveShape == ASSUME Shape, BeginRemove \/ RemoveFails PROVE Shape'
<1>1. /\ poller = "remove"
      /\ UNCHANGED <<consumerVars, accountVars, outbox, batch, due, offset, topic, saves,
                     failed, piled, crashes>>
      /\ torn' \in BOOLEAN /\ kept' \in {kept, kept \cup {InHand}}
      /\ \/ poller' = "removing" /\ at' = at
         \/ poller' = "publish" /\ at' = at + 1
  BY DEF Shape, TypeOK, BeginRemove, RemoveFails, pollerVars, historyVars
<1>2. at <= Len(batch) /\ InHand \in ToSet(topic) \cup failed
  BY <1>1 DEF Shape, PollerInv
<1>3. InHand \in EventType
  BY <1>2, EventInHand DEF Shape
<1>4. at' \in 1..(Len(batch') + 1)
  <2>1. Len(batch) \in Nat /\ at \in 1..(Len(batch) + 1)
    BY LenProperties DEF Shape, TypeOK
  <2> QED
    BY <2>1, <1>1, <1>2
<1>5. TypeOK'
  BY <1>1, <1>3, <1>4 DEF Shape, TypeOK, consumerVars, accountVars
<1>6. EventsInv'
  BY <1>1 DEF Shape, EventsInv
<1>7. PollerInv'
  BY <1>1, <1>2 DEF PollerInv, InHand
<1> QED
  BY <1>1, <1>5, <1>6, <1>7, PollerShape

\* What the end of a removal leaves: nothing but the event in hand is taken
\* out, unless the buffer is torn.
LEMMA EndRemoveElements ==
    ASSUME Shape, EndRemove
    PROVE  /\ outbox' \in Seq(EventType)
           /\ ToSet(outbox') \subseteq ToSet(outbox)
           /\ ~ torn => ToSet(outbox) \subseteq ToSet(outbox') \cup {InHand}
           /\ InHand \notin ToSet(outbox')
           /\ Distinct(outbox')
<1>1. PICK s \in Removed : outbox' \in Remains(s)
  BY DEF EndRemove
<1>2. outbox \in Seq(EventType) /\ Distinct(outbox)
  BY DEF Shape, TypeOK, EventsInv
<1>3. /\ s \in Seq(EventType) /\ ToSet(s) \subseteq ToSet(outbox)
      /\ ToSet(outbox) \subseteq ToSet(s) \cup {InHand} /\ InHand \notin ToSet(s) /\ Distinct(s)
  <2>1. CASE InHand \in ToSet(outbox)
    <3>1. PICK i \in DOMAIN outbox : outbox[i] = InHand /\ s = RemoveAt(outbox, i)
      BY <1>1, <2>1 DEF Removed
    <3> QED
      BY <3>1, <1>2, RemoveAtElements
  <2>2. CASE InHand \notin ToSet(outbox)
    BY <1>1, <1>2, <2>2 DEF Removed
  <2> QED
    BY <2>1, <2>2
<1> QED
  BY <1>1, <1>3, RemainsElements

\* The poller has removed what it published.
LEMMA EndRemoveShape == ASSUME Shape, EndRemove PROVE Shape'
<1>1. /\ poller = "removing" /\ poller' = "publish" /\ at' = at + 1
      /\ UNCHANGED <<consumerVars, accountVars, torn, batch, due, offset, topic, saves,
                     historyVars, crashes>>
  BY DEF EndRemove
<1>2. at <= Len(batch)
  BY <1>1 DEF Shape, PollerInv
<1>3. /\ outbox' \in Seq(EventType) /\ ToSet(outbox') \subseteq ToSet(outbox) /\ Distinct(outbox')
  BY EndRemoveElements
<1>4. at' \in 1..(Len(batch') + 1)
  <2>1. Len(batch) \in Nat /\ at \in 1..(Len(batch) + 1)
    BY LenProperties DEF Shape, TypeOK
  <2> QED
    BY <2>1, <1>1, <1>2
<1>5. TypeOK'
  BY <1>1, <1>3, <1>4 DEF Shape, TypeOK, consumerVars, accountVars, historyVars
<1>6. EventsInv'
  BY <1>1, <1>3 DEF Shape, EventsInv
<1>7. PollerInv'
  BY <1>1 DEF PollerInv
<1> QED
  BY <1>1, <1>5, <1>6, <1>7, PollerShape

\* The poller rests.
LEMMA RestShape == ASSUME Shape, Rest PROVE Shape'
<1>1. /\ poller' = "asleep" /\ batch' = << >> /\ at' = 1 /\ due' \in BOOLEAN
      /\ UNCHANGED <<consumerVars, accountVars, outbox, torn, offset, topic, saves,
                     historyVars, crashes>>
  BY DEF Rest
<1>2. << >> \in Seq(EventType) /\ DOMAIN << >> = {} /\ ToSet(<< >>) = {}
  BY EmptySeq, LenProperties DEF ToSet
<1>3. at' \in 1..(Len(batch') + 1)
  <2>1. Len(<< >>) = 0
    BY EmptySeq
  <2> QED
    BY <2>1, <1>1
<1>4. TypeOK'
  BY <1>1, <1>2, <1>3 DEF Shape, TypeOK, consumerVars, accountVars, historyVars
<1>5. EventsInv'
  BY <1>1, <1>2 DEF Shape, EventsInv, Distinct
<1>6. PollerInv'
  BY <1>1 DEF PollerInv
<1> QED
  BY <1>1, <1>4, <1>5, <1>6, PollerShape

\* The service stops and starts again.
LEMMA RestartShape == ASSUME Shape, Restart PROVE Shape'
<1>1. /\ consumer' = "idle" /\ record' = << >> /\ limit' = SeedLimit /\ present' = Accounts
      /\ outbox' = << >> /\ torn' = FALSE /\ poller' = "asleep" /\ batch' = << >> /\ at' = 1
      /\ due' = TRUE /\ crashes' = crashes + 1
      /\ UNCHANGED <<offset, topic, saves, historyVars>>
  BY DEF Restart
<1>2. /\ << >> \in Seq(EventType) /\ << >> \in Seq(UpdateType)
      /\ DOMAIN << >> = {} /\ ToSet(<< >>) = {}
  BY EmptySeq, LenProperties DEF ToSet
<1>3. at' \in 1..(Len(batch') + 1)
  <2>1. Len(<< >>) = 0
    BY EmptySeq
  <2> QED
    BY <2>1, <1>1
<1>4. TypeOK'
  <2>1. record' \in Seq(UpdateType) /\ (record' = << >> <=> consumer' \in {"idle", "dead"})
    BY <1>1, <1>2
  <2>2. limit' \in [Accounts -> Int] /\ present' \subseteq Accounts
    BY <1>1, AccountsAssumption
  <2>3. outbox' \in Seq(EventType) /\ batch' \in Seq(EventType)
    BY <1>1, <1>2
  <2>4. crashes' \in Nat
    BY <1>1 DEF Shape, TypeOK
  <2> QED
    BY <1>1, <1>3, <2>1, <2>2, <2>3, <2>4 DEF Shape, TypeOK, historyVars
<1>5. RecordInv'
  BY <1>1 DEF RecordInv
<1>6. SavesInv'
  <2>1. Len(saves) \in Nat /\ MaxSaves \in Nat /\ offset \in Nat
    BY NumbersAssumption, LenProperties, UpdatesAssumption DEF Shape, TypeOK
  <2> QED
    BY <1>1, <2>1 DEF Shape, SavesInv, Unsaved
<1>7. EventsInv'
  BY <1>1, <1>2 DEF Shape, EventsInv, Distinct
<1>8. PollerInv'
  BY <1>1 DEF PollerInv
<1> QED
  BY <1>4, <1>5, <1>6, <1>7, <1>8 DEF Shape

\* The poller wakes up, or an offset is lost.
LEMMA TimeShape == ASSUME Shape, WakeUp \/ ResetOffset PROVE Shape'
<1>1. /\ UNCHANGED <<consumerVars, accountVars, outbox, torn, pollerVars, topic, saves,
                     historyVars, crashes>>
      /\ due' \in BOOLEAN
      /\ \/ offset' = offset
         \/ consumer = "idle" /\ Len(saves) < MaxSaves /\ offset' = 0
  BY DEF Shape, TypeOK, WakeUp, ResetOffset
<1>2. Len(saves) \in Nat /\ MaxSaves \in Nat /\ Len(Updates) \in Nat
  BY NumbersAssumption, LenProperties, UpdatesAssumption DEF Shape, TypeOK
<1>3. TypeOK'
  BY <1>1, <1>2 DEF Shape, TypeOK, consumerVars, accountVars, pollerVars, historyVars
<1>4. SavesInv'
  BY <1>1, <1>2 DEF Shape, SavesInv, Unsaved, consumerVars
<1>5. RecordInv' /\ EventsInv' /\ PollerInv'
  BY <1>1 DEF Shape, RecordInv, EventsInv, PollerInv, Update, InHand, consumerVars, accountVars,
              pollerVars, historyVars
<1> QED
  BY <1>3, <1>4, <1>5 DEF Shape

\* Every step keeps the shape.
LEMMA ShapeStep == ASSUME Shape, [Next]_vars PROVE Shape'
<1>1. CASE Process
  BY <1>1, ConsumerShape, EndAppendShape DEF Process
<1>2. CASE Poll
  <2>1. CASE CheckFails
    BY <2>1 DEF CheckFails, vars, consumerVars, accountVars, pollerVars, historyVars, Shape, TypeOK,
                RecordInv, SavesInv, EventsInv, PollerInv, Update, InHand
  <2> QED
    BY <1>2, <2>1, CheckShape, PublishShape, BeginRemoveShape, EndRemoveShape, RestShape DEF Poll
<1>3. CASE UNCHANGED vars
  BY <1>3 DEF vars, consumerVars, accountVars, pollerVars, historyVars, Shape, TypeOK,
              RecordInv, SavesInv, EventsInv, PollerInv, Update, InHand
<1> QED
  BY <1>1, <1>2, <1>3, TakeShape, ConsumerShape, TimeShape, RestartShape DEF Next

\* The types, with what they rest on: the bound on the saves, the numbers of the
\* events, and that only what was sent, or failed to be, is being deleted.
THEOREM ShapeHolds == Spec => []Shape
<1>1. Init => Shape
  BY InitShape
<1>2. Shape /\ [Next]_vars => Shape'
  BY ShapeStep
<1> QED
  BY <1>1, <1>2, PTL DEF Spec

\* The variables of the accounts service and its poller keep their types.
THEOREM TypeCorrect == Spec => []TypeOK
<1>1. Shape => TypeOK
  BY DEF Shape
<1> QED
  BY <1>1, ShapeHolds, PTL

(***************************************************************************)
(* Part 3: no event is lost or sent again without its cause.                *)
(***************************************************************************)

\* Undisturbed steps come from undisturbed states.
LEMMA UndisturbedStep ==
    ASSUME Shape, [Next]_vars, Undisturbed'
    PROVE  Undisturbed /\ (Restart => FALSE)
<1>1. crashes \in Nat /\ torn \in BOOLEAN
  BY DEF Shape, TypeOK
<1>2. CASE Restart
  BY <1>1, <1>2 DEF Restart, Undisturbed
<1>3. CASE ~ Restart
  <2>1. crashes' = crashes
    BY <1>3 DEF Next, Process, Poll, Take, TakeFails, RemoveAccount, RestoreAccount, BeginAppend,
                EndAppend, Poke, Check, CheckFails, Publish, PublishFails, BeginRemove, RemoveFails,
                EndRemove, Rest, WakeUp, ResetOffset, vars
  <2>2. torn => torn'
    BY <1>3 DEF Next, Process, Poll, Take, TakeFails, RemoveAccount, RestoreAccount, BeginAppend,
                EndAppend, Poke, Check, CheckFails, Publish, PublishFails, BeginRemove, RemoveFails,
                EndRemove, Rest, WakeUp, ResetOffset, vars
  <2> QED
    BY <1>3, <2>1, <2>2 DEF Undisturbed
<1> QED
  BY <1>2, <1>3

\* What is on the topic or failed stays so.
LEMMA SentStays ==
    ASSUME Shape, [Next]_vars
    PROVE  ToSet(topic) \subseteq ToSet(topic') /\ failed \subseteq failed' /\ kept \subseteq kept'
<1>1. CASE Publish \/ PublishFails
  <2>1. InHand \in EventType
    BY <1>1, EventInHand DEF Shape, Publish, PublishFails
  <2>2. ToSet(Append(topic, InHand)) = ToSet(topic) \cup {InHand}
    BY <2>1, AppendElements DEF Shape, TypeOK
  <2> QED
    BY <1>1, <2>2 DEF Publish, PublishFails, historyVars
<1>2. CASE ~ (Publish \/ PublishFails)
  BY <1>2 DEF Next, Process, Poll, Take, TakeFails, RemoveAccount, RestoreAccount, BeginAppend,
              EndAppend, Poke, Check, CheckFails, BeginRemove, RemoveFails,
              EndRemove, Rest, WakeUp, ResetOffset, Restart, vars, historyVars
<1> QED
  BY <1>1, <1>2

\* Every step accounts for the events it moves.
LEMMA EventsAccountedStep ==
    ASSUME Shape, EventsAccounted, [Next]_vars
    PROVE  EventsAccounted'
<1> SUFFICES ASSUME Undisturbed'
             PROVE  ToSet(saves') \subseteq ToSet(outbox') \cup ToSet(topic') \cup failed'
  BY DEF EventsAccounted
<1>1. Undisturbed /\ ~ Restart
  BY UndisturbedStep
<1>2. ToSet(saves) \subseteq ToSet(outbox) \cup ToSet(topic) \cup failed /\ ~ torn
  BY <1>1 DEF EventsAccounted, Undisturbed
<1>3. ToSet(topic) \subseteq ToSet(topic') /\ failed \subseteq failed'
  BY SentStays
<1>4. CASE EndAppend
  <2>1. NewEvent \in EventType
    BY <1>4, NewEventType DEF Shape, InHandOf, EndAppend
  <2>2. outbox' = Append(outbox, NewEvent) /\ saves' = Append(saves, NewEvent)
    BY <1>2, <1>4 DEF EndAppend, Remains, NewEvent
  <2>3. /\ ToSet(saves') = ToSet(saves) \cup {NewEvent}
        /\ ToSet(outbox') = ToSet(outbox) \cup {NewEvent}
    BY <2>1, <2>2, AppendElements DEF Shape, TypeOK
  <2> QED
    BY <1>2, <1>3, <2>3
<1>5. CASE EndRemove
  <2>1. ToSet(outbox) \subseteq ToSet(outbox') \cup {InHand}
    BY <1>2, <1>5, EndRemoveElements
  <2>2. InHand \in ToSet(topic) \cup failed
    BY <1>5 DEF EndRemove, Shape, PollerInv
  <2>3. saves' = saves
    BY <1>5 DEF EndRemove
  <2> QED
    BY <1>2, <1>3, <2>1, <2>2, <2>3
<1>6. CASE ~ EndAppend /\ ~ EndRemove
  <2>1. UNCHANGED <<outbox, saves>>
    BY <1>1, <1>6 DEF Next, Process, Poll, Take, TakeFails, RemoveAccount, RestoreAccount,
                BeginAppend, Poke, Check, CheckFails, Publish, PublishFails, BeginRemove,
                RemoveFails, Rest, WakeUp, ResetOffset, vars
  <2> QED
    BY <1>2, <1>3, <2>1
<1> QED
  BY <1>4, <1>5, <1>6

\* Every event that was put in the outbox is there, or on the topic, or its
\* send failed, until the buffer is torn or the service restarts.
THEOREM EventsAccountedHolds == Spec => []EventsAccounted
<1>1. Init => EventsAccounted
  <2> SUFFICES ASSUME Init PROVE ToSet(saves) = {}
    BY DEF EventsAccounted
  <2>1. saves = << >> /\ DOMAIN << >> = {}
    BY EmptySeq, LenProperties DEF Init
  <2> QED
    BY <2>1 DEF ToSet
<1>2. Shape /\ EventsAccounted /\ [Next]_vars => EventsAccounted'
  BY EventsAccountedStep
<1> QED
  BY <1>1, <1>2, ShapeHolds, PTL DEF Spec

\* An event on the topic that is not to be sent again is neither in the outbox
\* nor before the poller, but for the one whose deletion is under way.
Deleting == poller \in {"remove", "removing"}

SentInv ==
    \A e \in ToSet(topic) \ kept :
        /\ e \in ToSet(outbox) => Deleting /\ e = InHand
        /\ \A i \in at..Len(batch) : batch[i] = e => Deleting /\ i = at

\* Every step keeps what is known of what was sent.
LEMMA SentInvStep ==
    ASSUME Shape, SentInv, [Next]_vars
    PROVE  SentInv'
<1>1. /\ DOMAIN batch = 1..Len(batch) /\ Len(batch) \in Nat /\ at \in 1..(Len(batch) + 1)
      /\ \A i, j \in DOMAIN batch : batch[i] = batch[j] => i = j
  BY LenProperties DEF Shape, TypeOK, EventsInv, Distinct
<1>2. CASE EndAppend
  <2>1. /\ outbox' \in Remains(Append(outbox, NewEvent))
        /\ UNCHANGED <<poller, batch, at, topic, kept>>
    BY <1>2 DEF EndAppend, NewEvent, pollerVars, historyVars
  <2>2. NewEvent \in EventType
    BY <1>2, NewEventType DEF Shape, InHandOf, EndAppend
  <2>3. /\ Append(outbox, NewEvent) \in Seq(EventType)
        /\ ToSet(Append(outbox, NewEvent)) = ToSet(outbox) \cup {NewEvent}
    BY <2>2, AppendElements DEF Shape, TypeOK
  <2>4. ToSet(outbox') \subseteq ToSet(outbox) \cup {NewEvent}
    BY <2>1, <2>3, RemainsElements
  <2>5. NewEvent \notin ToSet(topic)
    <3> SUFFICES ASSUME NewEvent \in ToSet(saves) PROVE FALSE
      BY DEF Shape, EventsInv
    <3>1. PICK i \in DOMAIN saves : saves[i] = NewEvent
      BY DEF ToSet
    <3>2. i = Len(saves) + 1
      BY <3>1 DEF Shape, EventsInv, NewEvent
    <3> QED
      BY <3>2, LenProperties DEF Shape, TypeOK
  <2> QED
    BY <2>1, <2>4, <2>5 DEF SentInv, Deleting, InHand
<1>3. CASE Check
  <2>1. /\ poller = "asleep" /\ UNCHANGED <<outbox, topic, kept>>
        /\ \E s \in Remains(outbox) : batch' = Reverse(s)
    BY <1>3 DEF Check
  <2>2. PICK s \in Remains(outbox) : batch' = Reverse(s)
    BY <2>1
  <2>3. s \in Seq(EventType) /\ ToSet(s) \subseteq ToSet(outbox)
    BY RemainsElements DEF Shape, TypeOK
  <2>4. ToSet(batch') \subseteq ToSet(outbox) /\ batch' \in Seq(EventType)
    BY <2>2, <2>3, ReverseElements
  <2>5. at' = 1 /\ DOMAIN batch' = 1..Len(batch')
    BY <1>3, <2>4, LenProperties DEF Check
  <2>6. \A i \in at'..Len(batch') : batch'[i] \in ToSet(outbox)
    BY <2>4, <2>5 DEF ToSet
  <2>7. ~ Deleting
    BY <2>1 DEF Deleting
  <2> QED
    BY <2>1, <2>6, <2>7 DEF SentInv
<1>4. CASE Publish \/ PublishFails
  <2>1. /\ at <= Len(batch) /\ poller = "publish" /\ poller' = "remove"
        /\ UNCHANGED <<outbox, batch, at, kept>>
        /\ topic' \in {topic, Append(topic, InHand)}
    BY <1>4 DEF Publish, PublishFails, historyVars
  <2>2. at \in DOMAIN batch /\ InHand \in EventType
    BY <2>1, EventInHand DEF Shape
  <2>3. ToSet(topic') \subseteq ToSet(topic) \cup {InHand}
    <3>1. ToSet(Append(topic, InHand)) = ToSet(topic) \cup {InHand}
      BY <2>2, AppendElements DEF Shape, TypeOK
    <3> QED
      BY <2>1, <3>1
  <2>4. ~ Deleting /\ Deleting' /\ InHand' = InHand /\ InHand = batch[at]
    BY <2>1 DEF Deleting, InHand
  <2>5. \A i \in at..Len(batch) : batch[i] = InHand => i = at
    BY <1>1, <2>2, <2>4
  <2> QED
    BY <2>1, <2>3, <2>4, <2>5 DEF SentInv
<1>5. CASE BeginRemove
  BY <1>5 DEF BeginRemove, SentInv, Deleting, InHand, historyVars
<1>6. CASE RemoveFails
  <2>1. /\ poller' = "publish" /\ at' = at + 1 /\ kept' = kept \cup {InHand}
        /\ UNCHANGED <<outbox, batch, topic>>
    BY <1>6 DEF RemoveFails
  <2>2. \A i \in (at + 1)..Len(batch) : i \in at..Len(batch) /\ i # at
    BY <1>1
  <2> QED
    BY <2>1, <2>2 DEF SentInv
<1>7. CASE EndRemove
  <2>1. poller' = "publish" /\ at' = at + 1 /\ UNCHANGED <<batch, topic, kept>>
    BY <1>7 DEF EndRemove, historyVars
  <2>2. \A i \in (at + 1)..Len(batch) : i \in at..Len(batch) /\ i # at
    BY <1>1
  <2>3. ToSet(outbox') \subseteq ToSet(outbox) /\ InHand \notin ToSet(outbox')
    BY <1>7, EndRemoveElements
  <2> QED
    BY <2>1, <2>2, <2>3 DEF SentInv
<1>8. CASE Rest
  <2>1. /\ poller = "publish" /\ batch' = << >> /\ at' = 1 /\ UNCHANGED <<outbox, topic, kept>>
    BY <1>8 DEF Rest, historyVars
  <2>2. Len(<< >>) = 0
    BY EmptySeq
  <2>3. at'..Len(batch') = {}
    BY <2>1, <2>2
  <2>4. ~ Deleting
    BY <2>1 DEF Deleting
  <2> QED
    BY <2>1, <2>3, <2>4 DEF SentInv
<1>9. CASE Restart
  <2>1. outbox' = << >> /\ batch' = << >> /\ at' = 1 /\ UNCHANGED <<topic, kept>>
    BY <1>9 DEF Restart, historyVars
  <2>2. Len(<< >>) = 0
    BY EmptySeq
  <2>3. DOMAIN << >> = {} /\ at'..Len(batch') = {}
    BY <2>1, <2>2, EmptySeq, LenProperties
  <2>4. ToSet(outbox') = {}
    BY <2>1, <2>3 DEF ToSet
  <2> QED
    BY <2>3, <2>4 DEF SentInv
<1>10. CASE UNCHANGED <<outbox, poller, batch, at, topic, kept>>
  BY <1>10 DEF SentInv, Deleting, InHand
<1>11. CASE \/ Take \/ TakeFails \/ RemoveAccount \/ RestoreAccount \/ BeginAppend \/ Poke
            \/ CheckFails \/ WakeUp \/ ResetOffset \/ UNCHANGED vars
  BY <1>10, <1>11 DEF Take, TakeFails, RemoveAccount, RestoreAccount, BeginAppend, Poke, CheckFails,
                      WakeUp, ResetOffset, vars, pollerVars, historyVars
<1> QED
  BY <1>2, <1>3, <1>4, <1>5, <1>6, <1>7, <1>8, <1>9, <1>11 DEF Next, Process, Poll

\* Every step republishes only what a failed removal kept.
LEMMA RepublishedStep ==
    ASSUME Shape, SentInv, RepublishedIfKept, [Next]_vars
    PROVE  RepublishedIfKept'
<1>1. kept \subseteq kept'
  BY SentStays
<1>2. CASE topic' = topic
  BY <1>1, <1>2 DEF RepublishedIfKept
<1>3. CASE /\ poller = "publish" /\ at <= Len(batch)
           /\ topic' = Append(topic, InHand) /\ kept' = kept
  <2>1. /\ InHand \in EventType /\ at \in DOMAIN batch
        /\ topic \in Seq(EventType) /\ Len(topic) \in Nat /\ DOMAIN topic = 1..Len(topic)
    BY <1>3, EventInHand, LenProperties DEF Shape, TypeOK
  <2>2. /\ DOMAIN topic' = 1..(Len(topic) + 1) /\ topic'[Len(topic) + 1] = InHand
        /\ \A i \in 1..Len(topic) : topic'[i] = topic[i]
    BY <1>3, <2>1, AppendElements
  <2>3. InHand \in ToSet(topic) => InHand \in kept
    <3> Len(batch) \in Nat /\ at \in 1..(Len(batch) + 1)
      BY LenProperties DEF Shape, TypeOK
    <3>1. at \in at..Len(batch) /\ batch[at] = InHand /\ ~ Deleting
      BY <1>3 DEF InHand, Deleting
    <3> QED
      BY <3>1 DEF SentInv
  <2> SUFFICES ASSUME NEW i \in DOMAIN topic', NEW j \in DOMAIN topic', i < j,
                      topic'[i] = topic'[j]
               PROVE  topic'[i] \in kept
    BY <1>3 DEF RepublishedIfKept
  <2>4. i \in 1..Len(topic) /\ topic'[i] = topic[i]
    BY <2>1, <2>2
  <2>5. CASE j = Len(topic) + 1
    BY <2>1, <2>2, <2>3, <2>4, <2>5 DEF ToSet
  <2>6. CASE j # Len(topic) + 1
    <3>1. j \in 1..Len(topic) /\ topic'[j] = topic[j]
      BY <2>1, <2>2, <2>6
    <3> QED
      BY <3>1, <2>1, <2>4 DEF RepublishedIfKept
  <2> QED
    BY <2>5, <2>6
<1> QED
  BY <1>2, <1>3 DEF Next, Process, Poll, Take, TakeFails, RemoveAccount, RestoreAccount, BeginAppend,
                EndAppend, Poke, Check, CheckFails, Publish, PublishFails, BeginRemove, RemoveFails,
                EndRemove, Rest, WakeUp, ResetOffset, Restart, vars, historyVars

\* An event is sent twice only if its deletion failed, through overlapping
\* writes, failing sends, lost offsets and restarts.
THEOREM RepublishedIfKeptHolds == Spec => []RepublishedIfKept
<1>1. Init => SentInv /\ RepublishedIfKept
  <2> SUFFICES ASSUME Init PROVE DOMAIN topic = {}
    BY DEF SentInv, RepublishedIfKept, ToSet
  <2> QED
    BY EmptySeq, LenProperties DEF Init
<1>2. Shape /\ SentInv /\ RepublishedIfKept /\ [Next]_vars => SentInv' /\ RepublishedIfKept'
  BY SentInvStep, RepublishedStep
<1> QED
  BY <1>1, <1>2, ShapeHolds, PTL DEF Spec

(***************************************************************************)
(* Part 4: the topic ends with the limit in force.                         *)
(***************************************************************************)

\* The last save of an account has its limit, but for a change on its way.
LastSave(n) == \A m \in DOMAIN saves : saves[m].account = saves[n].account => m <= n

LimitInv ==
    crashes = 0 => \A n \in DOMAIN saves : LastSave(n) =>
        \/ consumer \in {"append", "appending"} /\ Update.account = saves[n].account
        \/ saves[n].limit = limit[saves[n].account]

\* While no check finds two events they are sent in the order of their saves.
OrderInv ==
    (Undisturbed /\ ~ piled) =>
        /\ Len(batch) <= 1
        /\ \A i, j \in DOMAIN topic : i < j => topic[i].id <= topic[j].id
        /\ \A t \in ToSet(topic), e \in ToSet(outbox) \cup ToSet(batch) : t.id <= e.id
        /\ \A b \in ToSet(batch), e \in ToSet(outbox) : b.id <= e.id

\* Every step keeps limits and events in line.
LEMMA LimitInvStep ==
    ASSUME Shape, LimitInv, [Next]_vars
    PROVE  LimitInv'
<1>1. CASE RestoreAccount
  <2>1. /\ consumer = "restore" /\ consumer' = "append" /\ Update' = Update
        /\ limit' = [limit EXCEPT ![Update.account] = Update.newCreditLimit]
        /\ UNCHANGED <<saves, crashes>>
    BY <1>1 DEF RestoreAccount, Update
  <2>2. limit \in [Accounts -> Int]
    BY DEF Shape, TypeOK
  <2>3. \A a : a # Update.account => limit'[a] = limit[a]
    BY <2>1, <2>2
  <2> SUFFICES ASSUME crashes = 0, NEW n \in DOMAIN saves, LastSave(n),
                      Update.account # saves[n].account
               PROVE  saves[n].limit = limit'[saves[n].account]
    BY <2>1 DEF LimitInv, LastSave
  <2>4. saves[n].limit = limit[saves[n].account]
    BY <2>1 DEF LimitInv
  <2> QED
    BY <2>3, <2>4
<1>2. CASE EndAppend
  <2>1. /\ consumer = "appending" /\ consumer' = "poke" /\ saves' = Append(saves, NewEvent)
        /\ UNCHANGED <<limit, crashes>>
    BY <1>2 DEF EndAppend, NewEvent, accountVars
  <2>2. NewEvent \in EventType
    BY <2>1, NewEventType DEF Shape, InHandOf
  <2>3. saves \in Seq(EventType) /\ Len(saves) \in Nat /\ DOMAIN saves = 1..Len(saves)
    BY LenProperties DEF Shape, TypeOK
  <2>4. /\ DOMAIN saves' = 1..(Len(saves) + 1)
        /\ \A i \in 1..Len(saves) : saves'[i] = saves[i]
        /\ saves'[Len(saves) + 1] = NewEvent
    BY <2>1, <2>2, <2>3, AppendElements
  <2>5. NewEvent.account = Update.account /\ NewEvent.limit = Update.newCreditLimit
        /\ limit[Update.account] = Update.newCreditLimit
    BY <2>1 DEF NewEvent, Shape, RecordInv
  <2> SUFFICES ASSUME crashes = 0, NEW n \in DOMAIN saves', LastSave(n)'
               PROVE  saves'[n].limit = limit[saves'[n].account]
    BY <2>1 DEF LimitInv
  <2>6. CASE n = Len(saves) + 1
    BY <2>4, <2>5, <2>6
  <2>7. CASE n # Len(saves) + 1
    <3>1. n \in DOMAIN saves /\ saves'[n] = saves[n]
      BY <2>3, <2>4, <2>7
    <3>2. \A m \in DOMAIN saves' : saves'[m].account = saves'[n].account => m <= n
      BY DEF LastSave
    <3>3. \A m \in DOMAIN saves : m \in DOMAIN saves' /\ saves'[m] = saves[m]
      BY <2>3, <2>4
    <3>4. LastSave(n)
      BY <3>1, <3>2, <3>3 DEF LastSave
    <3>5. Update.account # saves[n].account
      <4>1. Len(saves) + 1 \in DOMAIN saves' /\ ~ (Len(saves) + 1 <= n)
        BY <2>3, <2>4, <3>1
      <4> QED
        BY <4>1, <3>1, <3>2, <2>4, <2>5
    <3> QED
      BY <3>1, <3>4, <3>5 DEF LimitInv
  <2> QED
    BY <2>6, <2>7
<1>3. CASE Restart
  BY <1>3 DEF Restart, LimitInv, Shape, TypeOK
<1>4. CASE TakeFails \/ Take \/ RemoveAccount \/ Poke
  <2>1. consumer \notin {"append", "appending"} /\ UNCHANGED <<limit, saves, crashes>>
    BY <1>4 DEF TakeFails, Take, RemoveAccount, Poke, accountVars
  <2> QED
    BY <2>1 DEF LimitInv, LastSave
<1>5. CASE BeginAppend
  <2>1. /\ consumer = "append" /\ consumer' = "appending" /\ Update' = Update
        /\ UNCHANGED <<limit, saves, crashes>>
    BY <1>5 DEF BeginAppend, accountVars, Update
  <2> QED
    BY <2>1 DEF LimitInv, LastSave
<1>6. CASE Poll \/ WakeUp \/ ResetOffset \/ UNCHANGED vars
  <2>1. UNCHANGED <<consumer, record, limit, saves, crashes>>
    BY <1>6 DEF Poll, Check, CheckFails, Publish, PublishFails, BeginRemove, RemoveFails, EndRemove,
                Rest, WakeUp, ResetOffset, vars, accountVars, consumerVars
  <2> QED
    BY <2>1 DEF LimitInv, LastSave, Update
<1> QED
  BY <1>1, <1>2, <1>3, <1>4, <1>5, <1>6 DEF Next, Process

\* Every step keeps the events of an account in order.
LEMMA OrderInvStep ==
    ASSUME Shape, OrderInv, [Next]_vars
    PROVE  OrderInv'
<1> SUFFICES ASSUME Undisturbed', ~ piled' PROVE OrderInv'
  BY DEF OrderInv
<1>1. Undisturbed /\ ~ Restart /\ ~ torn
  BY UndisturbedStep DEF Undisturbed
<1>2. piled \in BOOLEAN /\ (piled => piled')
  BY <1>1 DEF Shape, TypeOK, Next, Process, Poll, Take, TakeFails, RemoveAccount, RestoreAccount,
              BeginAppend, EndAppend, Poke, Check, CheckFails, Publish, PublishFails, BeginRemove,
              RemoveFails, EndRemove, Rest, WakeUp, ResetOffset, vars, historyVars
<1>3. /\ Len(batch) <= 1
      /\ \A i, j \in DOMAIN topic : i < j => topic[i].id <= topic[j].id
      /\ \A t \in ToSet(topic), e \in ToSet(outbox) \cup ToSet(batch) : t.id <= e.id
      /\ \A b \in ToSet(batch), e \in ToSet(outbox) : b.id <= e.id
  BY <1>1, <1>2 DEF OrderInv
<1>4. /\ outbox \in Seq(EventType) /\ Len(outbox) \in Nat /\ DOMAIN outbox = 1..Len(outbox)
      /\ topic \in Seq(EventType) /\ Len(topic) \in Nat /\ DOMAIN topic = 1..Len(topic)
      /\ batch \in Seq(EventType) /\ Len(batch) \in Nat /\ DOMAIN batch = 1..Len(batch)
      /\ saves \in Seq(EventType) /\ Len(saves) \in Nat /\ DOMAIN saves = 1..Len(saves)
  BY LenProperties DEF Shape, TypeOK
<1>5. CASE EndAppend
  <2>1. NewEvent \in EventType
    BY <1>5, NewEventType DEF Shape, InHandOf, EndAppend
  <2>2. outbox' = Append(outbox, NewEvent) /\ UNCHANGED <<batch, topic>>
    BY <1>1, <1>5 DEF EndAppend, Remains, NewEvent, pollerVars
  <2>3. ToSet(outbox') = ToSet(outbox) \cup {NewEvent}
    BY <1>4, <2>1, <2>2, AppendElements
  <2>4. \A e \in ToSet(topic) \cup ToSet(batch) : e.id <= NewEvent.id
    <3> SUFFICES ASSUME NEW e \in ToSet(saves) PROVE e.id <= NewEvent.id
      BY DEF Shape, EventsInv
    <3>1. PICK i \in DOMAIN saves : e = saves[i]
      BY DEF ToSet
    <3>2. e.id = i
      BY <3>1 DEF Shape, EventsInv
    <3> QED
      BY <3>2, <1>4 DEF NewEvent
  <2> QED
    BY <1>3, <2>2, <2>3, <2>4 DEF OrderInv
<1>6. CASE Check
  <2>1. /\ UNCHANGED <<outbox, topic>> /\ batch' = Reverse(outbox)
        /\ piled' = (piled \/ Len(batch') > 1)
    BY <1>1, <1>6 DEF Check, Remains
  <2>2. ToSet(batch') = ToSet(outbox) /\ Len(batch') = Len(outbox)
    BY <1>4, <2>1, ReverseElements
  <2>3. Len(batch') <= 1
    <3>1. ~ (Len(batch') > 1)
      BY <2>1, Zenon
    <3> QED
      BY <3>1, <1>4, <2>2
  <2>4. \A d, e \in ToSet(outbox) : d.id <= e.id
    <3> SUFFICES ASSUME NEW i \in 1..Len(outbox), NEW j \in 1..Len(outbox)
                 PROVE  outbox[i].id <= outbox[j].id
      BY <1>4 DEF ToSet
    <3>1. i = j
      BY <1>4, <2>2, <2>3
    <3>2. outbox[i] \in EventType
      BY <1>4, ElementOfDomain
    <3> QED
      BY <3>1, <3>2 DEF EventType
  <2> QED
    BY <1>3, <2>1, <2>2, <2>3, <2>4 DEF OrderInv
<1>7. CASE Publish \/ PublishFails
  <2>1. /\ at <= Len(batch) /\ UNCHANGED <<outbox, batch>>
        /\ topic' \in {topic, Append(topic, InHand)}
    BY <1>7 DEF Publish, PublishFails
  <2>2. InHand \in EventType /\ InHand \in ToSet(batch)
    BY <2>1, EventInHand DEF Shape
  <2>3. CASE topic' = topic
    BY <1>3, <2>1, <2>3 DEF OrderInv
  <2>4. CASE topic' = Append(topic, InHand)
    <3>1. /\ DOMAIN topic' = 1..(Len(topic) + 1) /\ topic'[Len(topic) + 1] = InHand
          /\ \A i \in 1..Len(topic) : topic'[i] = topic[i]
          /\ ToSet(topic') = ToSet(topic) \cup {InHand}
      BY <1>4, <2>2, <2>4, AppendElements
    <3>2. \A b \in ToSet(batch) : b = InHand
      <4> SUFFICES ASSUME NEW i \in 1..Len(batch) PROVE batch[i] = InHand
        BY <1>4 DEF ToSet
      <4>1. PICK j \in 1..Len(batch) : batch[j] = InHand
        BY <1>4, <2>2 DEF ToSet
      <4>2. i = j
        BY <1>3, <1>4
      <4> QED
        BY <4>1, <4>2
    <3>3. \A i, j \in DOMAIN topic' : i < j => topic'[i].id <= topic'[j].id
      <4> SUFFICES ASSUME NEW i \in 1..(Len(topic) + 1), NEW j \in 1..(Len(topic) + 1), i < j
                   PROVE  topic'[i].id <= topic'[j].id
        BY <3>1
      <4>0. Len(topic) \in Nat
        BY <1>4
      <4> i \in 1..Len(topic)
        BY <4>0
      <4>1. i \in DOMAIN topic /\ topic'[i] = topic[i] /\ topic[i] \in ToSet(topic)
        BY <1>4, <3>1 DEF ToSet
      <4>2. CASE j = Len(topic) + 1
        BY <4>1, <4>2, <1>3, <2>2, <3>1
      <4>3. CASE j # Len(topic) + 1
        <5>1. j \in 1..Len(topic)
          BY <4>0, <4>3
        <5>2. j \in DOMAIN topic /\ topic'[j] = topic[j]
          BY <5>1, <1>4, <3>1
        <5>3. topic[i].id <= topic[j].id
          BY <4>1, <5>2, <1>3
        <5> QED
          BY <4>1, <5>2, <5>3
      <4> QED
        BY <4>2, <4>3
    <3>4. InHand.id <= InHand.id
      BY <2>2 DEF EventType
    <3>5. \A t \in ToSet(topic'), e \in ToSet(outbox) \cup ToSet(batch) : t.id <= e.id
      BY <1>3, <2>2, <3>1, <3>2, <3>4
    <3> QED
      BY <1>3, <2>1, <3>3, <3>5 DEF OrderInv
  <2> QED
    BY <2>1, <2>3, <2>4
<1>8. CASE EndRemove
  <2>1. ToSet(outbox') \subseteq ToSet(outbox) /\ UNCHANGED <<batch, topic>>
    BY <1>8, EndRemoveElements DEF EndRemove
  <2> QED
    BY <1>3, <2>1 DEF OrderInv
<1>9. CASE Rest
  <2>1. batch' = << >> /\ UNCHANGED <<outbox, topic>>
    BY <1>9 DEF Rest
  <2>2. Len(<< >>) = 0
    BY EmptySeq
  <2>3. ToSet(batch') = {}
    BY <2>1, EmptySeq, LenProperties DEF ToSet
  <2>4. Len(batch') <= 1
    BY <2>1, <2>2
  <2> QED
    BY <1>3, <2>1, <2>3, <2>4 DEF OrderInv
<1>10. CASE \/ Take \/ TakeFails \/ RemoveAccount \/ RestoreAccount \/ BeginAppend \/ Poke
            \/ CheckFails \/ BeginRemove \/ RemoveFails \/ WakeUp \/ ResetOffset \/ UNCHANGED vars
  <2>1. UNCHANGED <<outbox, batch, topic>>
    BY <1>10 DEF Take, TakeFails, RemoveAccount, RestoreAccount, BeginAppend, Poke, CheckFails,
                 BeginRemove, RemoveFails, WakeUp, ResetOffset, vars, pollerVars
  <2> QED
    BY <1>3, <2>1 DEF OrderInv
<1> QED
  BY <1>1, <1>5, <1>6, <1>7, <1>8, <1>9, <1>10 DEF Next, Process, Poll

\* The invariants give TopicEndsWithLimit.
LEMMA TopicEndsLemma ==
    ASSUME Shape, LimitInv, OrderInv, EventsAccounted
    PROVE  TopicEndsWithLimit
<1> SUFFICES ASSUME Undisturbed, Quiet, failed = {}, ~ piled,
                    NEW i \in DOMAIN topic, LastOfAccount(i)
             PROVE  topic[i].limit = limit[topic[i].account]
  BY DEF TopicEndsWithLimit
<1>1. \A j, k \in DOMAIN topic : j < k => topic[j].id <= topic[k].id
  BY DEF OrderInv
<1>2. ToSet(outbox) = {}
  BY EmptySeq, LenProperties DEF Quiet, ToSet
<1>3. ToSet(saves) \subseteq ToSet(topic)
  BY <1>2 DEF EventsAccounted
<1>4. \A n \in DOMAIN saves : saves[n].id = n /\ n \in Nat
  BY LenProperties DEF Shape, TypeOK, EventsInv
<1>5. PICK n \in DOMAIN saves : topic[i] = saves[n]
  <2>1. topic[i] \in ToSet(saves)
    BY DEF Shape, EventsInv, ToSet
  <2> QED
    BY <2>1 DEF ToSet
<1>6. DOMAIN topic = 1..Len(topic) /\ Len(topic) \in Nat
  BY LenProperties DEF Shape, TypeOK
<1>7. LastSave(n)
  <2> SUFFICES ASSUME NEW m \in DOMAIN saves, saves[m].account = saves[n].account PROVE m <= n
    BY DEF LastSave
  <2>1. PICK k \in DOMAIN topic : topic[k] = saves[m]
    BY <1>3 DEF ToSet
  <2>2. k <= i
    BY <1>5, <2>1 DEF LastOfAccount
  <2>3. CASE k = i
    <3>1. saves[m] = saves[n]
      BY <1>5, <2>1, <2>3
    <3>2. m = n
      BY <1>4, <3>1
    <3> QED
      BY <1>4, <3>2
  <2>4. CASE k < i
    <3>1. topic[k].id <= topic[i].id
      BY <1>1, <2>4
    <3>2. topic[k].id = m /\ topic[i].id = n
      BY <1>4, <1>5, <2>1
    <3> QED
      BY <3>1, <3>2
  <2> QED
    BY <1>6, <2>2, <2>3, <2>4
<1> QED
  BY <1>5, <1>7 DEF LimitInv, Quiet, Undisturbed

\* When all is done and no send failed, the last event about each account has
\* its limit, unless a check found two events.
THEOREM TopicEndsWithLimitHolds == Spec => []TopicEndsWithLimit
<1>1. Init => LimitInv /\ OrderInv
  <2> SUFFICES ASSUME Init PROVE LimitInv /\ OrderInv
    OBVIOUS
  <2>1. DOMAIN << >> = {} /\ ToSet(<< >>) = {}
    BY EmptySeq, LenProperties DEF ToSet
  <2>2. Len(<< >>) = 0
    BY EmptySeq
  <2>3. Len(batch) <= 1
    BY <2>2 DEF Init
  <2> QED
    BY <2>1, <2>3 DEF Init, LimitInv, OrderInv
<1>2. Shape /\ LimitInv /\ OrderInv /\ [Next]_vars => LimitInv' /\ OrderInv'
  BY LimitInvStep, OrderInvStep
<1>3. Shape /\ LimitInv /\ OrderInv /\ EventsAccounted => TopicEndsWithLimit
  BY TopicEndsLemma
<1> QED
  BY <1>1, <1>2, <1>3, ShapeHolds, EventsAccountedHolds, PTL DEF Spec

(***************************************************************************)
(* Part 5: the service implements AccountChanges.                          *)
(***************************************************************************)

\* What AccountChanges calls unpublished.
Unpublished == Coming \cup ToSet(outbox) \cup Batched

\* A step that changes nothing the abstract module sees.
LEMMA AbstractStutter ==
    ASSUME UNCHANGED <<limit, topic>>, Unpublished' = Unpublished
    PROVE  UNCHANGED Abstract!vars
BY DEF Abstract!vars, Unpublished

\* A step that only loses unpublished changes.
LEMMA AbstractDiscard ==
    ASSUME UNCHANGED <<limit, topic>>, Unpublished' \subseteq Unpublished
    PROVE  Abstract!Next
<1> DEFINE es == Unpublished \ Unpublished'
<1>1. es \in SUBSET Unpublished /\ Unpublished' = Unpublished \ es
  OBVIOUS
<1>2. Abstract!Discard(es)
  BY <1>1 DEF Abstract!Discard, Unpublished
<1> QED
  BY <1>1, <1>2 DEF Abstract!Next, Unpublished

\* What the poller has yet to do.
LEMMA BatchedFacts ==
    ASSUME TypeOK
    PROVE  /\ Batched \subseteq ToSet(batch)
           /\ at = 1 => Batched = ToSet(batch)
           /\ at <= Len(batch) => InHand \in Batched
<1>1. /\ DOMAIN batch = 1..Len(batch) /\ Len(batch) \in Nat /\ at \in 1..(Len(batch) + 1)
  BY LenProperties DEF TypeOK
<1>2. at..Len(batch) \subseteq 1..Len(batch)
  BY <1>1
<1>3. Batched \subseteq ToSet(batch)
  BY <1>1, <1>2 DEF Batched, ToSet
<1>4. at = 1 => Batched = ToSet(batch)
  BY <1>1 DEF Batched, ToSet
<1>5. at <= Len(batch) => InHand \in Batched
  <2> SUFFICES ASSUME at <= Len(batch) PROVE at \in at..Len(batch)
    BY DEF Batched, InHand
  <2> QED
    BY <1>1
<1> QED
  BY <1>3, <1>4, <1>5

\* Leaving the event in hand for the next shortens what is to be done.
LEMMA BatchedShrinks ==
    ASSUME TypeOK, at' = at + 1, batch' = batch
    PROVE  Batched' \subseteq Batched
<1>1. Len(batch) \in Nat /\ at \in 1..(Len(batch) + 1)
  BY LenProperties DEF TypeOK
<1>2. (at + 1)..Len(batch) \subseteq at..Len(batch)
  BY <1>1
<1>3. Batched' = {batch[i] : i \in (at + 1)..Len(batch)}
  BY DEF Batched
<1> QED
  BY <1>2, <1>3 DEF Batched

\* The steps that only the consumer takes part in.
LEMMA ConsumerRefines ==
    ASSUME Shape, Take \/ TakeFails \/ RemoveAccount \/ BeginAppend \/ Poke \/ WakeUp \/ ResetOffset
    PROVE  UNCHANGED Abstract!vars
<1>1. UNCHANGED <<limit, topic, outbox, batch, at, saves>>
  BY DEF Take, TakeFails, RemoveAccount, BeginAppend, Poke, WakeUp, ResetOffset, accountVars, pollerVars
<1>2. Coming' = Coming
  <2>1. CASE BeginAppend
    BY <1>1, <2>1 DEF BeginAppend, Coming, Update
  <2>2. CASE Take \/ TakeFails \/ RemoveAccount \/ Poke
    <3>1. /\ consumer \notin {"append", "appending"}
          /\ consumer' \notin {"append", "appending"}
      BY <2>2 DEF Take, TakeFails, RemoveAccount, Poke
    <3> QED
      BY <3>1 DEF Coming
  <2>3. CASE WakeUp \/ ResetOffset
    BY <1>1, <2>3 DEF WakeUp, ResetOffset, Coming, Update, consumerVars
  <2> QED
    BY <2>1, <2>2, <2>3
<1> QED
  BY <1>1, <1>2, AbstractStutter DEF Unpublished, Batched

\* The abstract change: the limit is saved, and its event is on its way.
LEMMA RestoreRefines == ASSUME Shape, RestoreAccount PROVE Abstract!Next
<1>1. /\ consumer = "restore" /\ consumer' = "append" /\ Update' = Update
      /\ limit' = [limit EXCEPT ![Update.account] = Update.newCreditLimit]
      /\ UNCHANGED <<outbox, batch, at, topic, saves>>
  BY DEF RestoreAccount, Update, pollerVars
<1>2. Update \in ToSet(Updates) /\ Update.account \in Accounts
  BY <1>1, UpdateInHand DEF Shape, RecordInv, InHandOf, ToSet
<1> DEFINE id == Len(saves) + 1
<1>3. id \in 1..(Len(Updates) + MaxSaves)
  <2>1. /\ Len(saves) \in Nat /\ MaxSaves \in Nat /\ Len(Updates) \in Nat
        /\ offset \in 0..Len(Updates)
    BY NumbersAssumption, LenProperties, UpdatesAssumption DEF Shape, TypeOK
  <2>2. Len(saves) + 1 <= MaxSaves + offset
    BY <1>1 DEF Shape, SavesInv, Unsaved
  <2> QED
    BY <2>1, <2>2
<1>4. Coming = {} /\ Coming' = {[id |-> id, account |-> Update.account,
                                limit |-> Update.newCreditLimit]}
  BY <1>1 DEF Coming
<1>5. Batched' = Batched
  BY <1>1 DEF Batched
<1>6. \A e \in Unpublished \cup ToSet(topic) : e.id # id
  <2>1. Unpublished \cup ToSet(topic) \subseteq ToSet(saves)
    BY <1>4, BatchedFacts DEF Unpublished, Shape, EventsInv
  <2>2. \A e \in ToSet(saves) : e.id # id
    <3> SUFFICES ASSUME NEW i \in DOMAIN saves PROVE saves[i].id # id
      BY DEF ToSet
    <3>1. saves[i].id = i /\ DOMAIN saves = 1..Len(saves) /\ Len(saves) \in Nat
      BY LenProperties DEF Shape, TypeOK, EventsInv
    <3> QED
      BY <3>1
  <2> QED
    BY <2>1, <2>2
<1> HIDE DEF id
<1>7. Unpublished' = Unpublished \cup {[id |-> id, account |-> Update.account,
                                        limit |-> Update.newCreditLimit]}
  BY <1>1, <1>4, <1>5 DEF Unpublished
<1>8. Abstract!Change(Update, id)
  <2>1. Abstract!ToSet(topic) = ToSet(topic)
    BY DEF Abstract!ToSet, ToSet
  <2>2. /\ Update.account \in Accounts
        /\ limit' = [limit EXCEPT ![Update.account] = Update.newCreditLimit]
        /\ UNCHANGED topic
    BY <1>1, <1>2
  <2>3. \A e \in Unpublished \cup Abstract!ToSet(topic) : e.id # id
    BY <1>6, <2>1
  <2> QED
    BY <2>2, <2>3, <1>7, Zenon DEF Abstract!Change, Unpublished
<1> QED
  BY <1>2, <1>3, <1>8 DEF Abstract!Next

\* What enters the outbox was unpublished; the race with a removal may lose some.
LEMMA EndAppendRefines == ASSUME Shape, EndAppend PROVE Abstract!Next
<1>1. /\ consumer = "appending" /\ consumer' = "poke"
      /\ outbox' \in Remains(Append(outbox, NewEvent))
      /\ UNCHANGED <<limit, batch, at, topic>>
  BY DEF EndAppend, NewEvent, accountVars, pollerVars
<1>2. NewEvent \in EventType
  BY <1>1, NewEventType DEF Shape, InHandOf
<1>3. /\ Append(outbox, NewEvent) \in Seq(EventType)
      /\ ToSet(Append(outbox, NewEvent)) = ToSet(outbox) \cup {NewEvent}
  BY <1>2, AppendElements DEF Shape, TypeOK
<1>4. ToSet(outbox') \subseteq ToSet(outbox) \cup {NewEvent}
  BY <1>1, <1>3, RemainsElements
<1>5. Coming = {NewEvent} /\ Coming' = {} /\ Batched' = Batched
  BY <1>1 DEF Coming, NewEvent, Batched
<1> QED
  BY <1>1, <1>4, <1>5, AbstractDiscard DEF Unpublished

\* A look at the outbox.
LEMMA CheckRefines == ASSUME Shape, Check PROVE Abstract!Next
<1>1. /\ at' = 1 /\ UNCHANGED <<consumer, record, limit, outbox, topic, saves>>
      /\ \E s \in Remains(outbox) : batch' = Reverse(s)
  BY DEF Check, consumerVars, accountVars
<1>2. PICK s \in Remains(outbox) : batch' = Reverse(s)
  BY <1>1
<1>3. s \in Seq(EventType) /\ ToSet(s) \subseteq ToSet(outbox)
  BY RemainsElements DEF Shape, TypeOK
<1>4. ToSet(batch') \subseteq ToSet(outbox) /\ batch' \in Seq(EventType)
  BY <1>2, <1>3, ReverseElements
<1>5. Batched' \subseteq ToSet(outbox)
  <2>1. DOMAIN batch' = 1..Len(batch')
    BY <1>4, LenProperties
  <2>2. Batched' = {batch'[i] : i \in 1..Len(batch')}
    BY <1>1 DEF Batched
  <2> QED
    BY <1>4, <2>1, <2>2 DEF ToSet
<1>6. Coming' = Coming
  BY <1>1 DEF Coming, Update
<1> QED
  BY <1>1, <1>5, <1>6, AbstractDiscard DEF Unpublished

\* A publication, or the failure of one.
LEMMA PublishRefines == ASSUME Shape, Publish \/ PublishFails PROVE [Abstract!Next]_(Abstract!vars)
<1>1. /\ at <= Len(batch)
      /\ UNCHANGED <<consumer, record, limit, outbox, batch, at, saves>>
      /\ topic' \in {topic, Append(topic, InHand)}
  BY DEF Publish, PublishFails, consumerVars, accountVars
<1>2. Unpublished' = Unpublished
  BY <1>1 DEF Unpublished, Coming, Update, Batched
<1>3. InHand \in Unpublished
  BY <1>1, BatchedFacts DEF Shape, Unpublished
<1>4. CASE topic' = topic
  BY <1>1, <1>2, <1>4, AbstractStutter
<1>5. CASE topic' = Append(topic, InHand)
  <2>1. Abstract!Publish(InHand)
    BY <1>1, <1>2, <1>3, <1>5 DEF Abstract!Publish, Unpublished
  <2> QED
    BY <1>3, <2>1 DEF Abstract!Next, Unpublished
<1> QED
  BY <1>1, <1>4, <1>5

\* A removal from the outbox, in its halves.
LEMMA RemoveRefines ==
    ASSUME Shape, BeginRemove \/ RemoveFails \/ EndRemove
    PROVE  [Abstract!Next]_(Abstract!vars)
<1>1. UNCHANGED <<consumer, record, limit, batch, topic, saves>>
  BY DEF BeginRemove, RemoveFails, EndRemove, consumerVars, accountVars
<1>2. Coming' = Coming
  BY <1>1 DEF Coming, Update
<1>3. CASE BeginRemove
  BY <1>1, <1>2, <1>3, AbstractStutter DEF BeginRemove, Unpublished, Batched
<1>4. CASE RemoveFails \/ EndRemove
  <2>1. at' = at + 1
    BY <1>4 DEF RemoveFails, EndRemove
  <2>2. Batched' \subseteq Batched
    BY <1>1, <2>1, BatchedShrinks DEF Shape
  <2>3. ToSet(outbox') \subseteq ToSet(outbox)
    BY <1>4, EndRemoveElements DEF RemoveFails
  <2> QED
    BY <1>1, <1>2, <2>2, <2>3, AbstractDiscard DEF Unpublished
<1> QED
  BY <1>3, <1>4

\* The poller gives its batch up.
LEMMA RestRefines == ASSUME Shape, Rest PROVE Abstract!Next
<1>1. /\ batch' = << >> /\ at' = 1
      /\ UNCHANGED <<consumer, record, limit, outbox, topic, saves>>
  BY DEF Rest, consumerVars, accountVars
<1>2. Len(<< >>) = 0
  BY EmptySeq
<1>3. at'..Len(batch') = {}
  BY <1>1, <1>2
<1>4. Batched' = {}
  BY <1>3 DEF Batched
<1>5. Coming' = Coming
  BY <1>1 DEF Coming, Update
<1> QED
  BY <1>1, <1>4, <1>5, AbstractDiscard DEF Unpublished

\* A restart loses what was unpublished.
LEMMA RestartRefines == ASSUME Restart PROVE Abstract!Next
<1>1. /\ consumer' = "idle" /\ limit' = SeedLimit /\ outbox' = << >>
      /\ batch' = << >> /\ at' = 1 /\ topic' = topic
  BY DEF Restart
<1>2. Len(<< >>) = 0
  BY EmptySeq
<1>3. at'..Len(batch') = {}
  BY <1>1, <1>2
<1>4. Batched' = {} /\ Coming' = {}
  BY <1>1, <1>3 DEF Batched, Coming
<1>5. ToSet(outbox') = {}
  BY <1>1, EmptySeq, LenProperties DEF ToSet
<1>6. Abstract!Restart
  BY <1>1, <1>4, <1>5 DEF Abstract!Restart
<1> QED
  BY <1>6 DEF Abstract!Next

\* Every step is a step of AccountChanges, or none.
LEMMA RefinementStep ==
    ASSUME Shape, [Next]_vars
    PROVE  [Abstract!Next]_(Abstract!vars)
<1>1. CASE CheckFails \/ UNCHANGED vars
  <2>1. UNCHANGED <<consumer, record, limit, outbox, batch, at, topic, saves>>
    BY <1>1 DEF CheckFails, vars, consumerVars, accountVars, pollerVars
  <2> QED
    BY <2>1, AbstractStutter DEF Unpublished, Coming, Batched, Update
<1>2. CASE Process
  BY <1>2, ConsumerRefines, RestoreRefines, EndAppendRefines DEF Process
<1>3. CASE Poll
  BY <1>1, <1>3, CheckRefines, PublishRefines, RemoveRefines, RestRefines DEF Poll
<1> QED
  BY <1>1, <1>2, <1>3, ConsumerRefines, RestartRefines DEF Next

\* Whatever fails, overlaps, is lost or restarts, every step of the service is
\* a step of AccountChanges, or invisible there.
THEOREM ImplementsAccountChangesHolds == Spec => ImplementsAccountChanges
<1>1. Init => Abstract!Init
  <2> SUFFICES ASSUME Init PROVE Abstract!Init
    OBVIOUS
  <2>1. /\ consumer = "idle" /\ limit = SeedLimit /\ outbox = << >> /\ batch = << >>
        /\ at = 1 /\ topic = << >>
    BY DEF Init
  <2>2. Len(<< >>) = 0
    BY EmptySeq
  <2>3. at..Len(batch) = {}
    BY <2>1, <2>2
  <2>4. Batched = {} /\ Coming = {}
    BY <2>1, <2>3 DEF Batched, Coming
  <2>5. ToSet(outbox) = {}
    BY <2>1, EmptySeq, LenProperties DEF ToSet
  <2> QED
    BY <2>1, <2>4, <2>5 DEF Abstract!Init
<1>2. Shape /\ [Next]_vars => [Abstract!Next]_(Abstract!vars)
  BY RefinementStep
<1> QED
  BY <1>1, <1>2, ShapeHolds, PTL DEF Spec, ImplementsAccountChanges, Abstract!Spec
=============================================================================
