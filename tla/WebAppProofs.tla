----------------------------- MODULE WebAppProofs -----------------------------
(* Theorems about WebApp, for any amounts that visitors type and any amounts *)
(* that lose a cent, any number of forms and restarts, and any seed.         *)
EXTENDS WebApp, AggregateProofs

\* Amounts and limits are natural numbers that fit an Int.
LEMMA AmountsAreNats ==
    /\ Amounts \subseteq Nat /\ Amounts \subseteq ScalaInt
    /\ \A n \in Amounts : n \in Int /\ 0 <= n
    /\ SeedLimit \in Nat /\ TypedLimits \subseteq Nat /\ PaymentAmounts \subseteq Nat
<1>1. Amounts \subseteq Nat /\ Amounts \subseteq ScalaInt /\ \A n \in Amounts : n \in Int /\ 0 <= n
  BY IntHalfAssumption DEF Amounts, ScalaInt
<1> QED
  BY <1>1, WebAppAssumption

\* What Append does to a sequence.
LEMMA AppendedElements ==
    ASSUME NEW S, NEW seq \in Seq(S), NEW e \in S
    PROVE  /\ Append(seq, e) \in Seq(S)
           /\ Len(Append(seq, e)) = Len(seq) + 1
           /\ ToSet(Append(seq, e)) = ToSet(seq) \cup {e}
<1>1. /\ Append(seq, e) \in Seq(S)
      /\ Len(Append(seq, e)) = Len(seq) + 1
      /\ \A i \in 1..Len(seq) : Append(seq, e)[i] = seq[i]
      /\ Append(seq, e)[Len(seq) + 1] = e
  BY AppendProperties
<1>2. Len(seq) \in Nat /\ DOMAIN seq = 1..Len(seq)
  BY LenProperties
<1>3. DOMAIN Append(seq, e) = 1..(Len(seq) + 1)
  BY <1>1, LenProperties
<1>4. ToSet(Append(seq, e)) \subseteq ToSet(seq) \cup {e}
  BY <1>1, <1>2, <1>3 DEF ToSet
<1>5. ToSet(seq) \cup {e} \subseteq ToSet(Append(seq, e))
  BY <1>1, <1>2, <1>3 DEF ToSet
<1> QED
  BY <1>1, <1>4, <1>5

(***************************************************************************)
(* Where limits come from.                                                 *)
(***************************************************************************)

\* l is a limit of the set t, or the seed's, less at most k cents.
Was(l, t, k) == \E n \in t \cup {SeedLimit} : l \in (n - k)..n

NewLimit == [account : STRING, newCreditLimit : Int]
Change   == [id : Nat, account : STRING, limit : Int]

Typed ==
    /\ typed \subseteq TypedLimits
    /\ updates \in Seq(NewLimit) /\ taken \in 0..Len(updates)
    /\ unpublished \subseteq Change
    /\ changes \in Seq(Change) /\ copied \in 0..Len(changes)
    /\ accountLimit \in [Here -> Int] /\ limit \in [Here -> Int]

\* So does whatever may become the limit: what is on its way, and what the
\* form holds, unless that is an amount which counts as typed when it is sent.
OriginInv ==
    /\ LimitWasTyped
    /\ \A e \in unpublished : Was(e.limit, typed, Len(updates))
    /\ \A u \in ToSet(updates) : Was(u.newCreditLimit, typed, Len(updates))
    /\ field # << >> => Head(field) \in TypedLimits \/ Was(Head(field), typed, Len(updates))

Shape == Typed /\ OriginInv

\* LimitWasTyped, one place after the other.
LEMMA Places ==
    LimitWasTyped <=> /\ Was(accountLimit[Account], typed, Len(updates))
                      /\ Was(limit[Account], typed, Len(updates))
                      /\ \A e \in ToSet(changes) : Was(e.limit, typed, Len(updates))
BY DEF LimitWasTyped, Was

\* A limit that was in force still was, later and among more.
LEMMA WasMore ==
    ASSUME NEW l, NEW t, NEW s, NEW k \in Nat, NEW j \in Nat,
           t \subseteq s, s \subseteq Nat, k <= j, Was(l, t, k)
    PROVE  Was(l, s, j)
<1>1. PICK n \in t \cup {SeedLimit} : l \in (n - k)..n
  BY DEF Was
<1>2. n \in Nat /\ n \in s \cup {SeedLimit}
  BY WebAppAssumption, AmountsAreNats
<1>3. l \in (n - j)..n
  BY <1>1, <1>2
<1> QED
  BY <1>2, <1>3 DEF Was

\* A limit that was in force is an integer.
LEMMA WasInt == ASSUME NEW l, NEW t, NEW k, Was(l, t, k) PROVE l \in Int
BY DEF Was

\* When all starts, nothing was typed.
LEMMA InitShape == ASSUME Init PROVE Shape
<1>1. /\ << >> \in Seq(NewLimit)
      /\ << >> \in Seq(Change)
  BY EmptySeq
<1>2. Len(<< >>) = 0
  BY EmptySeq
<1>3. ToSet(<< >>) = {}
  BY <1>1, <1>2, LenProperties DEF ToSet
<1>4. /\ updates = << >> /\ changes = << >> /\ unpublished = {} /\ typed = {} /\ field = << >>
      /\ taken = 0 /\ copied = 0
      /\ accountLimit = [a \in Here |-> SeedLimit] /\ limit = [a \in Here |-> SeedLimit]
  BY DEF Init, L!Init, A!Init
<1>5. SeedLimit \in Nat /\ Account \in Here
  BY WebAppAssumption, AmountsAreNats DEF Here
<1>6. Typed
  <2>1. taken \in 0..Len(updates) /\ copied \in 0..Len(changes)
    BY <1>2, <1>4
  <2> QED
    BY <1>1, <1>4, <1>5, <2>1 DEF Typed
<1>7. Was(SeedLimit, typed, Len(updates))
  BY <1>2, <1>4, <1>5 DEF Was
<1>8. LimitWasTyped
  BY <1>3, <1>4, <1>5, <1>7, Places
<1> QED
  BY <1>3, <1>4, <1>6, <1>8 DEF Shape, OriginInv

\* What leaves the limits alone.
LEMMA ElsewhereShape ==
    ASSUME Shape, unpublished' \subseteq unpublished,
           UNCHANGED <<typed, updates, taken, changes, copied, accountLimit, limit, field>>
    PROVE  Shape'
<1>1. Typed'
  BY DEF Shape, Typed
<1>2. LimitWasTyped'
  BY DEF Shape, OriginInv, LimitWasTyped
<1> QED
  BY <1>1, <1>2 DEF Shape, OriginInv

\* The form is opened, or its request fails.
LEMMA OpenShape == ASSUME Shape, OpenForm \/ OpenFormFails PROVE Shape'
<1>1. /\ UNCHANGED <<typed, updates, taken, changes, copied, unpublished, accountLimit, limit>>
      /\ field' = << accountLimit[Account] >> \/ field' = << >>
  BY DEF OpenForm, OpenFormFails, Unsubmitted, ledgerVars, accountVars, flowVars
<1>2. Typed'
  BY <1>1 DEF Shape, Typed
<1>3. LimitWasTyped'
  BY <1>1 DEF Shape, OriginInv, LimitWasTyped
<1>4. field' # << >> => Was(Head(field'), typed', Len(updates'))
  BY <1>1, Places DEF Shape, OriginInv
<1> QED
  BY <1>1, <1>2, <1>3, <1>4 DEF Shape, OriginInv

\* What is typed now, or was on the form and is sent again.
LEMMA SubmittedFrom ==
    ASSUME Shape, NEW n, SubmitLimit(n)
    PROVE  /\ n \in Int /\ Cents(n) \in Int /\ n - 1 <= Cents(n) /\ Cents(n) <= n
           /\ typed \subseteq typed' /\ typed' \subseteq TypedLimits
           /\ Was(n, typed', Len(updates))
           /\ Was(Cents(n), typed', Len(updates) + 1)
<1>1. /\ field # << >> /\ n \in TypedLimits \cup {Head(field)}
      /\ typed' = typed \cup ({n} \cap TypedLimits)
  BY DEF SubmitLimit
<1>2. typed \subseteq typed' /\ typed' \subseteq TypedLimits /\ TypedLimits \subseteq Nat
  BY <1>1, WebAppAssumption, AmountsAreNats DEF Shape, Typed
<1>3. Len(updates) \in Nat
  BY LenProperties DEF Shape, Typed
<1>4. Was(n, typed', Len(updates))
  <2>1. CASE n \in TypedLimits
    <3>1. n \in typed' /\ n \in Nat
      BY <1>1, <1>2, <2>1
    <3>2. n \in (n - Len(updates))..n
      BY <3>1, <1>3
    <3> QED
      BY <3>1, <3>2 DEF Was
  <2>2. CASE n \notin TypedLimits
    <3>1. Was(n, typed, Len(updates))
      BY <1>1, <2>2 DEF Shape, OriginInv
    <3>2. typed' \subseteq Nat
      BY <1>2
    <3>3. Len(updates) <= Len(updates)
      BY <1>3
    <3> QED
      BY <3>1, <3>2, <3>3, <1>2, <1>3, WasMore
  <2> QED
    BY <2>1, <2>2
<1>5. n \in Int
  BY <1>4, WasInt
<1>6. Cents(n) \in Int /\ n - 1 <= Cents(n) /\ Cents(n) <= n
  BY <1>5 DEF Cents
<1>7. Was(Cents(n), typed', Len(updates) + 1)
  <2>1. PICK m \in typed' \cup {SeedLimit} : n \in (m - Len(updates))..m
    BY <1>4 DEF Was
  <2>2. m \in Nat
    BY <1>2, WebAppAssumption, AmountsAreNats
  <2>3. Cents(n) \in (m - (Len(updates) + 1))..m
    BY <2>1, <2>2, <1>3, <1>5, <1>6
  <2> QED
    BY <2>3 DEF Was
<1> QED
  BY <1>2, <1>4, <1>5, <1>6, <1>7

\* The form is submitted.
LEMMA SubmitShape == ASSUME Shape, NEW n, ConfirmLimit(n) \/ ConfirmLimitFails(n) PROVE Shape'
<1>1. /\ SubmitLimit(n) /\ field' = << n >>
      /\ updates' \in {updates, Append(updates, UpdateOf(n))}
      /\ UNCHANGED <<taken, changes, copied, unpublished, accountLimit, limit>>
  BY DEF ConfirmLimit, ConfirmLimitFails, SubmitLimit, ledgerVars, accountVars
<1>2. /\ Cents(n) \in Int /\ typed \subseteq typed' /\ typed' \subseteq TypedLimits
      /\ Was(n, typed', Len(updates)) /\ Was(Cents(n), typed', Len(updates) + 1)
  BY <1>1, SubmittedFrom
<1>3. UpdateOf(n) \in NewLimit /\ UpdateOf(n).newCreditLimit = Cents(n)
  BY <1>2, WebAppAssumption DEF UpdateOf, NewLimit
<1>4. updates \in Seq(NewLimit)
  BY DEF Shape, Typed
<1>5. /\ Append(updates, UpdateOf(n)) \in Seq(NewLimit)
      /\ Len(Append(updates, UpdateOf(n))) = Len(updates) + 1
      /\ ToSet(Append(updates, UpdateOf(n))) = ToSet(updates) \cup {UpdateOf(n)}
  BY <1>3, <1>4, AppendedElements
<1>6. Len(updates) \in Nat /\ taken \in 0..Len(updates)
  BY <1>4, LenProperties DEF Shape, Typed
<1>7. /\ Len(updates') \in Nat /\ Len(updates) <= Len(updates') /\ taken' \in 0..Len(updates')
      /\ updates' \in Seq(NewLimit)
  <2>1. CASE updates' = updates
    BY <2>1, <1>1, <1>4, <1>6
  <2>2. CASE updates' = Append(updates, UpdateOf(n))
    BY <2>2, <1>1, <1>5, <1>6
  <2> QED
    BY <1>1, <2>1, <2>2
<1>8. typed' \subseteq Nat
  BY <1>2, WebAppAssumption, AmountsAreNats
<1>9. \A l : Was(l, typed, Len(updates)) => Was(l, typed', Len(updates'))
  BY <1>2, <1>6, <1>7, <1>8, WasMore
<1>10. Typed'
  BY <1>1, <1>2, <1>7 DEF Shape, Typed
<1>11. LimitWasTyped'
  <2>1. /\ Was(accountLimit[Account], typed', Len(updates'))
        /\ Was(limit[Account], typed', Len(updates'))
        /\ \A e \in ToSet(changes) : Was(e.limit, typed', Len(updates'))
    BY <1>9, Places DEF Shape, OriginInv
  <2> QED
    BY <2>1, <1>1 DEF LimitWasTyped, Was
<1>12. \A u \in ToSet(updates') : Was(u.newCreditLimit, typed', Len(updates'))
  <2>1. CASE updates' = updates
    BY <2>1, <1>9 DEF Shape, OriginInv
  <2>2. CASE updates' = Append(updates, UpdateOf(n))
    BY <2>2, <1>2, <1>3, <1>5, <1>9 DEF Shape, OriginInv
  <2> QED
    BY <1>1, <2>1, <2>2
<1>13. Was(n, typed', Len(updates'))
  BY <1>2, <1>6, <1>7, <1>8, WasMore
<1>14. Head(field') = n
  BY <1>1
<1>15. \A e \in unpublished' : Was(e.limit, typed', Len(updates'))
  BY <1>1, <1>9 DEF Shape, OriginInv
<1> QED
  BY <1>10, <1>11, <1>12, <1>13, <1>14, <1>15 DEF Shape, OriginInv

\* What was typed is refused.
LEMMA RefuseShape == ASSUME Shape, NEW n, RefuseLimit(n) PROVE Shape'
<1>1. /\ field # << >> /\ n \in TypedLimits \cup {Head(field)} /\ field' = << n >>
      /\ UNCHANGED <<typed, updates, taken, changes, copied, unpublished, accountLimit, limit>>
  BY DEF RefuseLimit, ledgerVars, accountVars, flowVars
<1>2. Typed'
  BY <1>1 DEF Shape, Typed
<1>3. LimitWasTyped'
  BY <1>1 DEF Shape, OriginInv, LimitWasTyped
<1>4. Head(field') \in TypedLimits \/ Was(Head(field'), typed', Len(updates'))
  BY <1>1 DEF Shape, OriginInv
<1> QED
  BY <1>1, <1>2, <1>3, <1>4 DEF Shape, OriginInv

\* The accounts service puts what it was sent in force, and asks for its event.
LEMMA TakeShape == ASSUME Shape, TakeUpdate PROVE Shape'
<1> DEFINE u == updates[taken + 1]
           e == [id |-> taken + 1, account |-> u.account, limit |-> u.newCreditLimit]
<1>1. /\ taken < Len(updates) /\ taken' = taken + 1 /\ u.account \in Here
      /\ accountLimit' = [accountLimit EXCEPT ![u.account] = u.newCreditLimit]
      /\ unpublished' = unpublished \cup {e}
      /\ UNCHANGED <<typed, updates, changes, copied, limit, field>>
  BY DEF TakeUpdate, A!Change, ledgerVars, adminVars
<1>2. /\ updates \in Seq(NewLimit) /\ taken \in 0..Len(updates) /\ Len(updates) \in Nat
      /\ DOMAIN updates = 1..Len(updates)
  BY LenProperties DEF Shape, Typed
<1>3. taken + 1 \in DOMAIN updates /\ taken + 1 \in Nat /\ taken' \in 0..Len(updates)
  BY <1>1, <1>2
<1>4. u \in NewLimit /\ u \in ToSet(updates)
  BY <1>2, <1>3, ElementOfDomain DEF ToSet
<1>5. e \in Change
  BY <1>3, <1>4 DEF NewLimit, Change
<1>6. e.limit = u.newCreditLimit
  OBVIOUS
<1>7. Was(u.newCreditLimit, typed, Len(updates))
  BY <1>4 DEF Shape, OriginInv
<1> HIDE DEF u, e
<1>8. accountLimit' \in [Here -> Int] /\ accountLimit'[Account] = u.newCreditLimit
  BY <1>1, <1>4 DEF Shape, Typed, NewLimit, Here
<1>9. Typed'
  BY <1>1, <1>3, <1>5, <1>8 DEF Shape, Typed
<1>10. LimitWasTyped'
  <2>1. /\ Was(limit[Account], typed, Len(updates))
        /\ \A f \in ToSet(changes) : Was(f.limit, typed, Len(updates))
    BY Places DEF Shape, OriginInv
  <2> QED
    BY <2>1, <1>1, <1>7, <1>8 DEF LimitWasTyped, Was
<1>11. \A f \in unpublished' : Was(f.limit, typed, Len(updates))
  BY <1>1, <1>6, <1>7 DEF Shape, OriginInv
<1> QED
  BY <1>1, <1>9, <1>10, <1>11 DEF Shape, OriginInv

\* A change is published, once or again.
LEMMA PublishShape == ASSUME Shape, PublishFirst \/ PublishAgain PROVE Shape'
<1>1. PICK e \in unpublished : A!Publish(e)
  BY DEF PublishFirst, PublishAgain
<1>2. UNCHANGED <<typed, updates, taken, copied, limit, field>>
  BY DEF PublishFirst, PublishAgain, Elapsed, ledgerVars, flowVars, adminVars
<1>3. changes' = Append(changes, e) /\ UNCHANGED <<accountLimit, unpublished>>
  BY <1>1 DEF A!Publish
<1>4. e \in Change /\ changes \in Seq(Change) /\ Was(e.limit, typed, Len(updates))
  BY DEF Shape, Typed, OriginInv
<1>5. /\ changes' \in Seq(Change) /\ Len(changes') = Len(changes) + 1
      /\ ToSet(changes') = ToSet(changes) \cup {e}
  BY <1>3, <1>4, AppendedElements
<1>6. copied' \in 0..Len(changes')
  BY <1>2, <1>5, <1>4, LenProperties DEF Shape, Typed
<1>7. Typed'
  BY <1>2, <1>3, <1>5, <1>6 DEF Shape, Typed
<1>8. LimitWasTyped'
  <2>1. /\ Was(accountLimit[Account], typed, Len(updates))
        /\ Was(limit[Account], typed, Len(updates))
        /\ \A f \in ToSet(changes') : Was(f.limit, typed, Len(updates))
    BY <1>4, <1>5, Places DEF Shape, OriginInv
  <2> QED
    BY <2>1, <1>2, <1>3 DEF LimitWasTyped, Was
<1> QED
  BY <1>2, <1>3, <1>7, <1>8 DEF Shape, OriginInv

\* The transactions service puts in force what is on the topic.
LEMMA CopyShape == ASSUME Shape, CopyChange PROVE Shape'
<1> DEFINE e == changes[copied + 1]
<1>1. /\ copied < Len(changes) /\ copied' = copied + 1 /\ e.account \in Here
      /\ limit' = [limit EXCEPT ![e.account] = e.limit]
      /\ UNCHANGED <<typed, updates, taken, changes, accountLimit, unpublished, field>>
  BY DEF CopyChange, L!UpdateLimit, accountVars, adminVars
<1>2. /\ changes \in Seq(Change) /\ copied \in 0..Len(changes) /\ Len(changes) \in Nat
      /\ DOMAIN changes = 1..Len(changes)
  BY LenProperties DEF Shape, Typed
<1>3. copied + 1 \in DOMAIN changes /\ copied' \in 0..Len(changes)
  BY <1>1, <1>2
<1>4. e \in Change /\ e \in ToSet(changes)
  BY <1>2, <1>3, ElementOfDomain DEF ToSet
<1> HIDE DEF e
<1>5. limit' \in [Here -> Int] /\ limit'[Account] = e.limit
  BY <1>1, <1>4 DEF Shape, Typed, Change, Here
<1>6. Typed'
  BY <1>1, <1>3, <1>5 DEF Shape, Typed
<1>7. LimitWasTyped'
  <2>1. /\ Was(accountLimit[Account], typed, Len(updates))
        /\ Was(e.limit, typed, Len(updates))
        /\ \A f \in ToSet(changes) : Was(f.limit, typed, Len(updates))
    BY <1>4, Places DEF Shape, OriginInv
  <2> QED
    BY <2>1, <1>1, <1>5 DEF LimitWasTyped, Was
<1> QED
  BY <1>1, <1>6, <1>7 DEF Shape, OriginInv

\* A service starts again.
LEMMA RestartShape == ASSUME Shape, RestartAccounts \/ RestartTransactions PROVE Shape'
<1>1. /\ UNCHANGED <<typed, updates, taken, changes, copied, field>>
      /\ unpublished' \subseteq unpublished
      /\ accountLimit' \in {accountLimit, [a \in Here |-> SeedLimit]}
      /\ limit' \in {limit, [a \in Here |-> SeedLimit]}
  BY DEF RestartAccounts, RestartTransactions, Fault, A!Restart, ledgerVars, accountVars,
         flowVars, adminVars
<1>2. SeedLimit \in Nat /\ Account \in Here
  BY WebAppAssumption, AmountsAreNats DEF Here
<1>3. Typed'
  BY <1>1, <1>2 DEF Shape, Typed
<1>4. Was(SeedLimit, typed, Len(updates))
  <2>1. Len(updates) \in Nat
    BY LenProperties DEF Shape, Typed
  <2>2. SeedLimit \in (SeedLimit - Len(updates))..SeedLimit
    BY <2>1, <1>2
  <2> QED
    BY <2>2 DEF Was
<1>5. LimitWasTyped'
  <2>1. /\ Was(accountLimit[Account], typed, Len(updates))
        /\ Was(limit[Account], typed, Len(updates))
        /\ \A e \in ToSet(changes) : Was(e.limit, typed, Len(updates))
    BY Places DEF Shape, OriginInv
  <2>2. Was(accountLimit'[Account], typed, Len(updates)) /\ Was(limit'[Account], typed, Len(updates))
    BY <2>1, <1>1, <1>2, <1>4
  <2> QED
    BY <2>1, <2>2, <1>1 DEF LimitWasTyped, Was
<1> QED
  BY <1>1, <1>3, <1>5 DEF Shape, OriginInv

\* Reading, buying and paying, and what is deleted or comes from elsewhere.
LEMMA OtherShape ==
    ASSUME Shape,
           \/ ReadTransactions \/ ReadAccount \/ ReadBalance \/ PageFails
           \/ \E p \in Purchases : PurchaseAnswered(p) \/ PurchaseUnanswered(p)
           \/ \E n \in PaymentAmounts : SubmitPayment(n)
           \/ MakePayment \/ Elsewhere \/ DiscardEvent
           \/ UNCHANGED vars
    PROVE  Shape'
<1>1. CASE \/ ReadTransactions \/ ReadAccount \/ ReadBalance \/ PageFails
           \/ \E n \in PaymentAmounts : SubmitPayment(n)
           \/ UNCHANGED vars
  <2>1. UNCHANGED <<typed, updates, taken, changes, copied, unpublished, accountLimit, limit, field>>
    BY <1>1 DEF ReadTransactions, ReadAccount, ReadBalance, PageFails, Unread, SubmitPayment,
                vars, ledgerVars, accountVars, flowVars, adminVars
  <2> QED
    BY <2>1, ElsewhereShape
<1>2. CASE \E p \in Purchases : PurchaseAnswered(p) \/ PurchaseUnanswered(p)
  <2>1. UNCHANGED <<typed, updates, taken, changes, copied, unpublished, accountLimit, limit, field>>
    BY <1>2 DEF PurchaseAnswered, PurchaseUnanswered, Submit, L!Authorize, L!Store,
                ledgerVars, accountVars, flowVars, adminVars
  <2> QED
    BY <2>1, ElsewhereShape
<1>3. CASE MakePayment \/ Elsewhere
  <2>1. UNCHANGED <<typed, updates, taken, changes, copied, unpublished, accountLimit, limit, field>>
    BY <1>3 DEF MakePayment, Elsewhere, L!ProcessPayment, L!Clear, L!Store,
                accountVars, flowVars, adminVars
  <2> QED
    BY <2>1, ElsewhereShape
<1>4. CASE DiscardEvent
  <2>1. /\ UNCHANGED <<typed, updates, taken, changes, copied, accountLimit, limit, field>>
        /\ unpublished' \subseteq unpublished
    BY <1>4 DEF DiscardEvent, A!Discard, Elapsed, ledgerVars, flowVars, adminVars
  <2> QED
    BY <2>1, ElsewhereShape
<1> QED
  BY <1>1, <1>2, <1>3, <1>4

\* Every limit, in force or on its way, was typed or is the seed's, up to a
\* cent less for each update, whoever sends off what his form holds and when.
THEOREM LimitWasTypedHolds == Spec => []LimitWasTyped
<1>1. Init => Shape
  BY InitShape
<1>2. Shape /\ [Next]_vars => Shape'
  <2> SUFFICES ASSUME Shape, [Next]_vars PROVE Shape'
    OBVIOUS
  <2>1. CASE \E n \in TypedLimits \cup ToSet(field) :
                ConfirmLimit(n) \/ ConfirmLimitFails(n) \/ RefuseLimit(n)
    BY <2>1, SubmitShape, RefuseShape
  <2> QED
    BY <2>1, OpenShape, TakeShape, PublishShape, CopyShape, RestartShape, OtherShape DEF Next
<1>3. Shape => LimitWasTyped
  BY DEF Shape, OriginInv
<1> QED
  BY <1>1, <1>2, <1>3, PTL DEF Spec

(***************************************************************************)
(* What the page lists, and what it comes to.                              *)
(***************************************************************************)

\* What an event does to the list.
Listed(list, e) == IF IsListed(e) THEN << e >> \o list ELSE list

\* f[k] is the list after the first k events.
ListsThrough(f, log) ==
    /\ f \in [0..Len(log) -> Seq(EventType)]
    /\ f[0] = << >>
    /\ \A k \in 1..Len(log) : f[k] = Listed(f[k - 1], log[k])

\* What an element in front does to a sequence.
LEMMA Prepended ==
    ASSUME NEW S, NEW seq \in Seq(S), NEW e \in S
    PROVE  /\ << e >> \o seq \in Seq(S) /\ Len(<< e >> \o seq) = Len(seq) + 1
           /\ Len(seq) \in Nat
           /\ (<< e >> \o seq)[1] = e
           /\ \A i \in 1..Len(seq) : (<< e >> \o seq)[i + 1] = seq[i]
<1>1. << e >> \in Seq(S) /\ Len(<< e >>) = 1 /\ << e >>[1] = e /\ Len(seq) \in Nat
  BY LenProperties
<1>2. /\ << e >> \o seq \in Seq(S)
      /\ Len(<< e >> \o seq) = Len(<< e >>) + Len(seq)
      /\ \A i \in 1..(Len(<< e >>) + Len(seq)) :
            (<< e >> \o seq)[i] = IF i <= Len(<< e >>) THEN << e >>[i] ELSE seq[i - Len(<< e >>)]
  BY <1>1, ConcatProperties
<1>3. (<< e >> \o seq)[1] = e
  BY <1>1, <1>2
<1>4. ASSUME NEW i \in 1..Len(seq) PROVE (<< e >> \o seq)[i + 1] = seq[i]
  <2>1. i + 1 \in 1..(1 + Len(seq)) /\ ~ (i + 1 <= 1) /\ (i + 1) - 1 = i
    BY <1>1
  <2> QED
    BY <1>1, <1>2, <2>1
<1> QED
  BY <1>1, <1>2, <1>3, <1>4

\* The list of transactions stays one of events.
LEMMA ListedType ==
    ASSUME NEW list \in Seq(EventType), NEW e \in EventType
    PROVE  Listed(list, e) \in Seq(EventType)
BY Prepended DEF Listed

\* The list is built event by event.
LEMMA ListSteps ==
    ASSUME NEW log \in Seq(EventType)
    PROVE  \E f : ListsThrough(f, log) /\ AllTransactions(log) = f[Len(log)]
<1> DEFINE D == DOMAIN log
           V == Seq(EventType)
           c == [s \in SUBSET D |-> Max(s)]
           g == [p \in D \X V |-> Listed(p[2], log[p[1]])]
           F(h) == [s \in SUBSET D |-> IF s = {} THEN << >>
                                       ELSE Listed(h[s \ {Max(s)}], log[Max(s)])]
<1>1. D = 1..Len(log) /\ Len(log) \in Nat
  BY LenProperties
<1>2. IsFiniteSet(D)
  BY <1>1, FS_Interval
<1>3. Takes(c, D)
  <2>1. \A s \in SUBSET D : s # {} => Max(s) \in s
    BY <1>1, <1>2, MaxOfNats, SMTT(30)
  <2> QED
    BY <2>1 DEF Takes
<1>4. g \in [D \X V -> V]
  BY ListedType, ElementOfDomain
<1>5. << >> \in V
  BY EmptySeq
<1>6. \A s \in SUBSET D : c[s] = Max(s)
  OBVIOUS
<1>7. \A p \in D \X V : g[p] = Listed(p[2], log[p[1]])
  OBVIOUS
<1> HIDE DEF c, g, D, V
<1>8. PICK h : Folds(h, D, V, << >>, c, g)
  BY <1>2, <1>3, <1>4, <1>5, FoldExists
<1>9. \A s \in SUBSET D : s # {} => Max(s) \in D /\ h[s \ {Max(s)}] \in V
  BY <1>3, <1>6, <1>8 DEF Takes, Folds
<1>10. \A s \in SUBSET D : h[s] = IF s = {} THEN << >>
                                  ELSE Listed(h[s \ {Max(s)}], log[Max(s)])
  BY <1>6, <1>7, <1>8, <1>9, ZenonT(30) DEF Folds
<1>11. h = F(h)
  BY <1>8, <1>10 DEF Folds
<1> DEFINE it == CHOOSE h_1 : h_1 = F(h_1)
<1>12. it = F(it)
  BY <1>11
<1>13. AllTransactions(log) = it[D]
  BY DEF AllTransactions, FoldLeft, MapThenFoldSet, Listed, D
<1> HIDE DEF it
<1>14. \A s \in SUBSET D : it[s] = IF s = {} THEN << >>
                                   ELSE Listed(it[s \ {Max(s)}], log[Max(s)])
  BY <1>12
<1> DEFINE f == [k \in 0..Len(log) |-> it[1..k]]
<1>15. f[0] = << >>
  <2>1. 1..0 = {}
    OBVIOUS
  <2>2. it[{}] = << >>
    BY <1>14
  <2> QED
    BY <1>1, <2>1, <2>2
<1>16. \A k \in 1..Len(log) : f[k] = Listed(f[k - 1], log[k])
  <2> SUFFICES ASSUME NEW k \in 1..Len(log)
               PROVE  it[1..k] = Listed(it[1..(k - 1)], log[k])
    <3>1. \A k \in 1..Len(log) : k - 1 \in 0..Len(log) /\ k \in 0..Len(log)
      BY <1>1
    <3> QED
      BY <3>1
  <2>1. /\ k \in Nat /\ k # 0 /\ k \in 1..k /\ k \in 1..Len(log)
        /\ \A i \in 1..k : i \in 1..Len(log) /\ (i # k => i \in 1..(k - 1))
        /\ \A i \in 1..(k - 1) : i \in 1..k /\ i # k
    BY <1>1
  <2>2. 1..k \in SUBSET D /\ 1..k # {} /\ (1..k) \ {k} = 1..(k - 1)
    BY <1>1, <2>1, Zenon
  <2>3. Max(1..k) = k
    BY <2>1, MaxOfInterval
  <2> QED
    BY <1>14, <2>2, <2>3
<1>17. f[Len(log)] = it[D]
  BY <1>1
<1>18. f \in [0..Len(log) -> Seq(EventType)]
  <2> HIDE DEF f
  <2> DEFINE n == Len(log)
             N == {k \in Nat : k <= n => f[k] \in V}
  <2>1. 0 \in N
    BY <1>5, <1>15
  <2>2. ASSUME NEW k \in Nat, k \in N PROVE k + 1 \in N
    <3> SUFFICES ASSUME k + 1 <= n PROVE f[k + 1] \in V
      OBVIOUS
    <3>1. k + 1 \in 1..n /\ (k + 1) - 1 = k /\ k <= n
      BY <1>1
    <3>2. f[k] \in V /\ f[k + 1] = Listed(f[k], log[k + 1])
      BY <1>16, <2>2, <3>1
    <3>3. log[k + 1] \in EventType
      BY <1>1, <3>1, ElementOfDomain
    <3> QED
      BY <3>2, <3>3, ListedType DEF V
  <2> HIDE DEF N
  <2>3. Nat \subseteq N
    BY <2>1, <2>2, NatSetInduction
  <2>4. \A k \in 0..n : f[k] \in V
    BY <1>1, <2>3 DEF N
  <2> QED
    BY <2>4 DEF f, V
<1> QED
  BY <1>13, <1>15, <1>16, <1>17, <1>18 DEF ListsThrough

\* The effects of events on the balance are integers.
LEMMA EffectInt ==
    ASSUME NEW log \in Seq(EventType)
    PROVE  /\ DOMAIN log = 1..Len(log) /\ Len(log) \in Nat
           /\ \A i \in 1..Len(log) : /\ log[i] \in EventType
                                     /\ Effects(log)[i] = Effect(log[i]) /\ Effects(log)[i] \in Int
                                     /\ Returns(log)[i] \in Int
                                     /\ Returns(log)[i] = IF log[i].type = "paymentReturned"
                                                          THEN Effect(log[i]) ELSE 0
<1>1. DOMAIN log = 1..Len(log) /\ Len(log) \in Nat
  BY LenProperties
<1>2. \A i \in 1..Len(log) : log[i] \in EventType
  BY <1>1, ElementOfDomain
<1>3. \A e \in EventType : Effect(e) \in Int
  <2> TAKE e \in EventType
  <2>1. e.amount \in Int /\ - e.amount \in Int /\ 0 \in Int
    BY DEF EventType
  <2> QED
    BY <2>1 DEF Effect
<1>4. \A i \in 1..Len(log) : /\ Effects(log)[i] = Effect(log[i])
                             /\ Returns(log)[i] = IF log[i].type = "paymentReturned"
                                                  THEN Effect(log[i]) ELSE 0
  BY <1>1 DEF Effects, Returns
<1> QED
  BY <1>1, <1>2, <1>3, <1>4

\* What the transactions on a list come to.
Total(list) == SumFunctionOnSet(Effects(list), DOMAIN list)

\* The total of a list with one event in front.
LEMMA TotalPrepended ==
    ASSUME NEW list \in Seq(EventType), NEW e \in EventType
    PROVE  Total(<< e >> \o list) = Effect(e) + Total(list)
<1> DEFINE n == Len(list)
           s == << e >> \o list
           f == Effects(s)
           g == Effects(list)
<1>1. /\ s \in Seq(EventType) /\ Len(s) = n + 1 /\ n \in Nat /\ s[1] = e
      /\ \A i \in 1..n : s[i + 1] = list[i]
  BY Prepended
<1> HIDE DEF s
<1>2. /\ DOMAIN s = 1..(n + 1)
      /\ \A i \in 1..(n + 1) : f[i] = Effect(s[i]) /\ f[i] \in Int
  BY <1>1, EffectInt
<1>3. DOMAIN list = 1..n /\ \A i \in 1..n : g[i] = Effect(list[i]) /\ g[i] \in Int
  BY EffectInt
<1> HIDE DEF f, g, n
<1>4. 1 \in 0..(n + 1) /\ n + 1 \in Nat /\ \A i \in 1..n : i + 1 \in 1..(n + 1)
  BY <1>1
<1>5. SumFunctionOnSet(f, 1..(n + 1)) = SumFunctionOnSet(f, 1..1) + SumFunctionOnSet(f, (1 + 1)..(n + 1))
  BY <1>2, <1>4, SumSplit
<1>6. SumFunctionOnSet(f, 1..1) = f[1]
  <2>1. 1..0 = {} /\ f[1] \in Int /\ 0 + 1 = 1 /\ 1 \in Int /\ 0 \in Int /\ 1 <= 0 + 1
    BY <1>1, <1>2
  <2>2. \A i \in 1..(0 + 1) : f[i] \in Int
    BY <2>1
  <2>3. SumFunctionOnSet(f, 1..(0 + 1)) = f[0 + 1] + SumFunctionOnSet(f, 1..0)
    BY <2>1, <2>2, SumPush
  <2> QED
    BY <2>1, <2>3, SumOfEmpty
<1>7. SumFunctionOnSet(f, 2..(n + 1)) = SumFunctionOnSet(g, 1..n)
  <2>1. \A i \in 1..n : f[i + 1] \in Int /\ g[i] = f[i + 1]
    BY <1>1, <1>2, <1>3, <1>4
  <2> QED
    BY <1>1, <2>1, SumShift
<1>8. f[1] = Effect(e)
  BY <1>1, <1>2, <1>4
<1> QED
  BY <1>2, <1>3, <1>5, <1>6, <1>7, <1>8 DEF Total, f, g, s

\* The list holds all that has an effect, but the returned payments.
LEMMA ListTotal ==
    ASSUME NEW log \in Seq(EventType)
    PROVE  /\ AllTransactions(log) \in Seq(EventType)
           /\ Total(AllTransactions(log)) + SumFunctionOnSet(Returns(log), 1..Len(log))
                = SumFunctionOnSet(Effects(log), 1..Len(log))
<1> DEFINE n == Len(log)
           F == Effects(log)
           R == Returns(log)
<1>1. PICK f : ListsThrough(f, log) /\ AllTransactions(log) = f[n]
  BY ListSteps
<1>2. /\ f[0] = << >> /\ \A k \in 1..n : f[k] = Listed(f[k - 1], log[k])
      /\ n \in Nat /\ \A k \in 0..n : f[k] \in Seq(EventType)
  BY <1>1, EffectInt DEF ListsThrough
<1>3. \A i \in 1..n : /\ log[i] \in EventType /\ F[i] = Effect(log[i]) /\ F[i] \in Int /\ R[i] \in Int
                      /\ R[i] = IF log[i].type = "paymentReturned" THEN Effect(log[i]) ELSE 0
  BY EffectInt
<1> HIDE DEF n, F, R
<1>i. \A k \in 0..n : SumFunctionOnSet(F, 1..k) \in Int /\ SumFunctionOnSet(R, 1..k) \in Int
  <2> TAKE k \in 0..n
  <2>1. k \in Int /\ 1 \in Int /\ \A i \in 1..k : F[i] \in Int /\ F[i] = F[i] /\ R[i] \in Int /\ R[i] = R[i]
    BY <1>2, <1>3
  <2>2. IsFiniteSet(1..k)
    BY <2>1, FS_Interval
  <2> QED
    BY <2>1, <2>2, SumSame
<1> DEFINE N == {k \in Nat : k <= n => Total(f[k]) + SumFunctionOnSet(R, 1..k) = SumFunctionOnSet(F, 1..k)}
<1>4. 0 \in N
  <2>1. 1..0 = {}
    OBVIOUS
  <2>2. DOMAIN << >> = {}
    <3>1. << >> \in Seq(EventType) /\ Len(<< >>) = 0
      BY EmptySeq
    <3> QED
      BY <3>1, LenProperties
  <2>3. Total(<< >>) = 0
    BY <2>2, SumOfEmpty DEF Total
  <2> QED
    BY <1>2, <2>1, <2>3, SumOfEmpty
<1>5. ASSUME NEW k \in Nat, k \in N PROVE k + 1 \in N
  <2> SUFFICES ASSUME k + 1 <= n
               PROVE  Total(f[k + 1]) + SumFunctionOnSet(R, 1..(k + 1)) = SumFunctionOnSet(F, 1..(k + 1))
    OBVIOUS
  <2> DEFINE e == log[k + 1]
  <2>1. /\ k + 1 \in 1..n /\ (k + 1) - 1 = k /\ k \in 0..n
        /\ \A i \in 1..(k + 1) : F[i] \in Int /\ R[i] \in Int
        /\ k \in Int /\ 1 \in Int /\ 1 <= k + 1
    BY <1>2, <1>3
  <2>2. Total(f[k]) + SumFunctionOnSet(R, 1..k) = SumFunctionOnSet(F, 1..k)
    BY <1>5, <2>1
  <2>3. SumFunctionOnSet(F, 1..(k + 1)) = F[k + 1] + SumFunctionOnSet(F, 1..k)
    BY <2>1, SumPush
  <2>4. SumFunctionOnSet(R, 1..(k + 1)) = R[k + 1] + SumFunctionOnSet(R, 1..k)
    BY <2>1, SumPush
  <2>5. /\ e \in EventType /\ F[k + 1] = Effect(e) /\ f[k + 1] = Listed(f[k], e)
        /\ R[k + 1] = IF e.type = "paymentReturned" THEN Effect(e) ELSE 0
        /\ f[k] \in Seq(EventType) /\ F[k + 1] \in Int
    BY <1>2, <1>3, <2>1
  <2>6. /\ SumFunctionOnSet(F, 1..k) \in Int /\ SumFunctionOnSet(R, 1..k) \in Int
    BY <1>i, <2>1
  <2>7. Total(f[k]) \in Int
    <3>1. /\ DOMAIN f[k] = 1..Len(f[k]) /\ Len(f[k]) \in Nat
          /\ \A i \in 1..Len(f[k]) : Effects(f[k])[i] \in Int
      BY <2>5, EffectInt
    <3>2. PICK m \in Int : m = Len(f[k])
      BY <3>1
    <3>3. IsFiniteSet(1..m)
      BY FS_Interval
    <3> QED
      BY <3>1, <3>2, <3>3, SumSame DEF Total
  <2> HIDE DEF e
  <2>8. CASE IsListed(e)
    <3>1. R[k + 1] = 0 /\ f[k + 1] = << e >> \o f[k]
      BY <2>5, <2>8 DEF IsListed, Listed
    <3>2. Total(f[k + 1]) = Effect(e) + Total(f[k])
      BY <2>5, <3>1, TotalPrepended
    <3> QED
      BY <2>2, <2>3, <2>4, <2>5, <2>6, <2>7, <3>1, <3>2
  <2>9. CASE ~ IsListed(e)
    <3>1. f[k + 1] = f[k]
      BY <2>5, <2>9 DEF Listed
    <3>2. R[k + 1] = F[k + 1]
      <4>1. CASE e.account # Account
        BY <2>5, <4>1 DEF Effect
      <4>2. CASE e.account = Account
        <5>1. e.type \in {"cleared", "paymentReturned"}
          BY <2>5, <2>9, <4>2 DEF IsListed, EventType, EventTypes
        <5>2. e.type = "cleared" => e.outcome # "approved"
          <6>1. e.outcome \in OutcomesOf[e.type]
            BY <2>5 DEF EventType
          <6> QED
            BY <6>1 DEF OutcomesOf
        <5>3. e.type = "cleared" => Effect(e) = 0
          BY <4>2, <5>2 DEF Effect
        <5> QED
          BY <2>5, <5>1, <5>3
      <4> QED
        BY <4>1, <4>2
    <3> QED
      BY <2>2, <2>3, <2>4, <2>5, <2>6, <2>7, <3>1, <3>2
  <2> QED
    BY <2>8, <2>9
<1> HIDE DEF N
<1>6. n \in N
  BY <1>2, <1>4, <1>5, NatSetInduction
<1>7. Total(f[n]) + SumFunctionOnSet(R, 1..n) = SumFunctionOnSet(F, 1..n) /\ f[n] \in Seq(EventType)
  BY <1>2, <1>6 DEF N
<1> QED
  BY <1>1, <1>7 DEF n, F, R

\* A list that is not full is all there is.
LEMMA RecentList ==
    ASSUME NEW log \in Seq(EventType)
    PROVE  /\ RecentTransactions(log) \in Seq(EventType)
           /\ Len(RecentTransactions(log)) <= PageSize
           /\ Len(RecentTransactions(log)) < PageSize => RecentTransactions(log) = AllTransactions(log)
<1> DEFINE all == AllTransactions(log)
           S == {PageSize, Len(all)}
           m == Min(S)
<1>1. all \in Seq(EventType) /\ RecentTransactions(log) = SubSeq(all, 1, m)
  BY ListTotal DEF RecentTransactions
<1> HIDE DEF all
<1>2. Len(all) \in Nat /\ PageSize \in Nat
  BY <1>1, LenProperties, WebAppAssumption
<1>3. S \in SUBSET Nat /\ S # {}
  BY <1>2
<1>4. m \in S /\ \A x \in S : m <= x
  BY <1>3, MinOfNats
<1> HIDE DEF m
<1>5. m \in Nat /\ m <= Len(all) /\ m <= PageSize /\ (m = PageSize \/ m = Len(all))
  BY <1>2, <1>4
<1>6. \A i \in 1..m : all[i] \in EventType
  BY <1>1, <1>2, <1>5, ElementOfSeq
<1>7. 1 \in Int /\ m \in Int
  BY <1>5
<1>8. /\ SubSeq(all, 1, m) \in Seq(EventType)
      /\ Len(SubSeq(all, 1, m)) = IF 1 <= m THEN m - 1 + 1 ELSE 0
      /\ \A i \in 1..(m - 1 + 1) : SubSeq(all, 1, m)[i] = all[1 + i - 1]
  BY <1>6, <1>7, SubSeqProperties
<1>9. Len(SubSeq(all, 1, m)) = m /\ \A i \in 1..m : SubSeq(all, 1, m)[i] = all[i]
  BY <1>5, <1>8
<1>10. m = Len(all) => SubSeq(all, 1, m) = all
  BY <1>1, <1>8, <1>9, SeqEqual
<1> QED
  BY <1>1, <1>5, <1>8, <1>9, <1>10 DEF all

\* An event changes what is owed by its effect, whichever amount it goes to.
LEMMA AppliedEffect ==
    ASSUME NEW s \in BalanceType, NEW e \in EventType, NEW t, t = Applied(s, e, Account)
    PROVE  Wrap(t.balance + t.pending) = Wrap(s.balance + s.pending + Effect(e))
<1> DEFINE a == e.amount
           b == s.balance
           p == s.pending
<1>1. a \in Int /\ b \in Int /\ p \in Int
  BY ScalaIntIsInt DEF BalanceType, EventType
<1>2. /\ e.outcome \in {"approved", "declined"} => e.type = "decisioned"
      /\ e.outcome \in {"CLEAN", "BAD"} => e.type = "cleared"
      /\ e.outcome = "none" => e.type \in {"paymentApplied", "paymentReturned"}
      /\ e.outcome \in {"approved", "declined", "CLEAN", "BAD", "none"}
  BY DEF EventType, EventTypes, Outcomes, OutcomesOf
<1>3. \A x \in Int : Wrap(x) \in Int
  BY WrapOf, ScalaIntIsInt
<1>4. CASE e.account # Account
  <2>1. t = s /\ Effect(e) = 0
    BY <1>4 DEF Applied, Effect
  <2> QED
    BY <1>1, <2>1
<1>5. CASE e.account = Account /\ e.outcome = "approved"
  <2>1. t.balance = b /\ t.pending = Wrap(p + a) /\ Effect(e) = a
    BY <1>2, <1>5 DEF Applied, ApplyEvent, Effect, BalanceType
  <2> HIDE DEF a, b, p
  <2>2. p + a \in Int /\ b + (p + a) = b + p + a
    BY <1>1
  <2>3. Wrap(b + Wrap(p + a)) = Wrap(b + (p + a))
    BY <1>1, <2>2, WrapSums
  <2> QED
    BY <2>1, <2>2, <2>3 DEF b, p
<1>6. CASE e.account = Account /\ e.outcome \in {"declined", "BAD"}
  <2>1. t = s /\ Effect(e) = 0
    BY <1>2, <1>6 DEF Applied, ApplyEvent, Effect
  <2> QED
    BY <1>1, <2>1
<1>7. CASE e.account = Account /\ e.outcome = "CLEAN"
  <2>1. t = [balance |-> Wrap(b + a), pending |-> Wrap(p - a)] /\ Effect(e) = 0
    BY <1>2, <1>7 DEF Applied, ApplyEvent, Effect
  <2>2. t.balance = Wrap(b + a) /\ t.pending = Wrap(p - a)
    BY <2>1
  <2> HIDE DEF a, b, p
  <2>3. b + a \in Int /\ p - a \in Int /\ (b + a) + (p - a) = b + p + 0
    BY <1>1
  <2>4. Wrap(Wrap(b + a) + Wrap(p - a)) = Wrap((b + a) + Wrap(p - a))
    BY <1>3, <2>3, WrapSums
  <2>5. Wrap((b + a) + Wrap(p - a)) = Wrap((b + a) + (p - a))
    BY <2>3, WrapSums
  <2> QED
    BY <2>1, <2>2, <2>3, <2>4, <2>5 DEF b, p
<1>8. CASE e.account = Account /\ e.outcome = "none" /\ e.type = "paymentApplied"
  <2>1. t.balance = Wrap(b - a) /\ t.pending = p /\ Effect(e) = - a
    BY <1>8 DEF Applied, ApplyEvent, Effect, BalanceType
  <2> HIDE DEF a, b, p
  <2>2. b - a \in Int /\ (b - a) + p = b + p + (- a)
    BY <1>1
  <2>3. Wrap(Wrap(b - a) + p) = Wrap((b - a) + p)
    BY <1>1, <2>2, WrapSums
  <2> QED
    BY <2>1, <2>2, <2>3 DEF b, p
<1>9. CASE e.account = Account /\ e.outcome = "none" /\ e.type = "paymentReturned"
  <2>1. t.balance = Wrap(b + a) /\ t.pending = p /\ Effect(e) = a
    BY <1>9 DEF Applied, ApplyEvent, Effect, BalanceType
  <2> HIDE DEF a, b, p
  <2>2. b + a \in Int /\ (b + a) + p = b + p + a
    BY <1>1
  <2>3. Wrap(Wrap(b + a) + p) = Wrap((b + a) + p)
    BY <1>1, <2>2, WrapSums
  <2> QED
    BY <2>1, <2>2, <2>3 DEF b, p
<1> QED
  BY <1>2, <1>4, <1>5, <1>6, <1>7, <1>8, <1>9

\* What the account owes is the sum of all effects.
LEMMA BalanceTotal ==
    ASSUME NEW log \in Seq(EventType)
    PROVE  LET s == TransactionBalance(log, Account)
           IN  Wrap(s.balance + s.pending) = Wrap(SumFunctionOnSet(Effects(log), 1..Len(log)))
<1> DEFINE n == Len(log)
           F == Effects(log)
<1>1. PICK f : RunsThrough(f, log, Account) /\ TransactionBalance(log, Account) = f[n]
  BY BalanceSteps
<1>2. /\ f[0] = NoBalance /\ n \in Nat
      /\ \A k \in 1..n : f[k] = Applied(f[k - 1], log[k], Account)
  BY <1>1, EffectInt DEF RunsThrough
<1>3. \A i \in 1..n : log[i] \in EventType /\ F[i] = Effect(log[i]) /\ F[i] \in Int
  BY EffectInt
<1> HIDE DEF n, F
<1> DEFINE N == {k \in Nat : k <= n => /\ f[k] \in BalanceType
                                       /\ SumFunctionOnSet(F, 1..k) \in Int
                                       /\ Wrap(f[k].balance + f[k].pending) = Wrap(SumFunctionOnSet(F, 1..k))}
<1>4. 0 \in N
  <2>1. 1..0 = {} /\ NoBalance.balance + NoBalance.pending = 0
    BY DEF NoBalance
  <2>2. SumFunctionOnSet(F, 1..0) = 0
    BY <2>1, SumOfEmpty
  <2> QED
    BY <1>2, <2>1, <2>2, NoBalanceType
<1>5. ASSUME NEW k \in Nat, k \in N PROVE k + 1 \in N
  <2> SUFFICES ASSUME k + 1 <= n
               PROVE  /\ f[k + 1] \in BalanceType
                      /\ SumFunctionOnSet(F, 1..(k + 1)) \in Int
                      /\ Wrap(f[k + 1].balance + f[k + 1].pending) = Wrap(SumFunctionOnSet(F, 1..(k + 1)))
    OBVIOUS
  <2> DEFINE sum == SumFunctionOnSet(F, 1..k)
             owed == f[k].balance + f[k].pending
  <2>1. /\ k + 1 \in 1..n /\ (k + 1) - 1 = k /\ k <= n
        /\ \A i \in 1..(k + 1) : F[i] \in Int
        /\ k \in Int /\ 1 \in Int /\ 1 <= k + 1
    BY <1>2, <1>3
  <2>2. f[k] \in BalanceType /\ sum \in Int /\ Wrap(owed) = Wrap(sum)
    BY <1>5, <2>1
  <2>3. /\ f[k + 1] = Applied(f[k], log[k + 1], Account) /\ log[k + 1] \in EventType
        /\ F[k + 1] = Effect(log[k + 1]) /\ F[k + 1] \in Int
    BY <1>2, <1>3, <2>1
  <2>4. f[k + 1] \in BalanceType
    BY <2>2, <2>3, AppliedType
  <2>5. SumFunctionOnSet(F, 1..(k + 1)) = F[k + 1] + sum
    BY <2>1, SumPush
  <2>6. Wrap(f[k + 1].balance + f[k + 1].pending) = Wrap(owed + F[k + 1])
    BY <2>2, <2>3, AppliedEffect
  <2>7. owed \in Int
    <3>1. f[k].balance \in Int /\ f[k].pending \in Int
      BY <2>2, ScalaIntIsInt DEF BalanceType
    <3> QED
      BY <3>1
  <2> HIDE DEF sum, owed
  <2>8. Wrap(owed + F[k + 1]) = Wrap(Wrap(owed) + F[k + 1]) /\ Wrap(sum + F[k + 1]) = Wrap(Wrap(sum) + F[k + 1])
    BY <2>2, <2>3, <2>7, WrapSums
  <2>9. sum + F[k + 1] = F[k + 1] + sum /\ F[k + 1] + sum \in Int
    BY <2>2, <2>3
  <2> QED
    BY <2>2, <2>4, <2>5, <2>6, <2>8, <2>9
<1> HIDE DEF N
<1>6. n \in N
  BY <1>2, <1>4, <1>5, NatSetInduction
<1>7. Wrap(f[n].balance + f[n].pending) = Wrap(SumFunctionOnSet(F, 1..n))
  BY <1>2, <1>6 DEF N
<1> QED
  BY <1>1, <1>7 DEF n, F

(***************************************************************************)
(* Types: every limit and every amount is one that an Int holds and the    *)
(* forms let through, and no more is submitted than the bound allows.      *)
(***************************************************************************)

SentLimit   == [account : Here, newCreditLimit : Amounts]
LimitChange == [id : 1..MaxForms, account : Here, limit : Amounts]
PageType    == [stage : {"transactions", "account", "balance"}, list : Seq(EventType),
                from : Nat, creditLimit : Amounts, changing : BOOLEAN, whole : BOOLEAN]

LimitsTyped ==
    /\ accountLimit \in [Here -> Amounts] /\ limit \in [Here -> Amounts]
    /\ updates \in Seq(SentLimit) /\ taken \in 0..Len(updates)
    /\ unpublished \subseteq LimitChange
    /\ changes \in Seq(LimitChange) /\ copied \in 0..Len(changes)
    /\ strayed \in BOOLEAN

AdminTyped ==
    /\ field = << >> \/ \E n \in Amounts : field = << n >>
    /\ confirmed \in Nat /\ typed \subseteq TypedLimits

FormsTyped ==
    /\ submissions \in Seq(Amounts) /\ paid \in 0..Len(PaymentIds)
    /\ tried \in Nat /\ tried + Len(submissions) + Len(updates) <= MaxForms
    /\ told \in [approved : Nat, unclear : Nat]

PageTyped == page \in PageType /\ Len(page.list) <= PageSize

TypeInv ==
    /\ events \in Seq(EventType)
    /\ LimitsTyped /\ AdminTyped /\ FormsTyped /\ PageTyped

\* An amount that the form lets through loses a cent at most.
LEMMA CentsFit ==
    ASSUME NEW n \in Amounts, Cents(n) > 0
    PROVE  Cents(n) \in Amounts /\ Cents(n) # 0 /\ n \in Nat /\ n - 1 <= Cents(n) /\ Cents(n) <= n
BY IntHalfAssumption DEF Cents, Amounts

\* The one account there is.
LEMMA HereIsAccount ==
    /\ Here \subseteq STRING /\ Account \in Here
    /\ \A x \in Here : x = Account
BY WebAppAssumption DEF Here

\* Ledger's operators are those of TransactionAggregate.
LEMMA SameAccepts ==
    ASSUME NEW c, NEW es
    PROVE  L!Accepts(c, es) <=> Accepts(c, es)
BY DEF L!Accepts, Accepts, L!TypeFor, TypeFor, L!Recorded, Recorded, L!HasEvents, HasEvents

\* Both instances of the aggregate decide alike.
LEMMA SameResult ==
    ASSUME NEW c, NEW es
    PROVE  L!ResultOf(c, es) = ResultOf(c, es)
<1>1. \A t, a, r, n, o : L!Event(t, a, r, n, o) = Event(t, a, r, n, o)
  BY DEF L!Event, Event
<1>2. L!ProcessAuthorization(c, es) = ProcessAuthorization(c, es)
  <2>1. \A n : L!Wrap(n) = Wrap(n)
    BY DEF L!Wrap, Wrap
  <2>2. \A state, e : L!ApplyEvent(state, e) = ApplyEvent(state, e)
    BY <2>1 DEF L!ApplyEvent, ApplyEvent
  <2>3. L!NoBalance = NoBalance
    BY DEF L!NoBalance, NoBalance
  <2>4. L!TransactionBalance(es, c.account) = TransactionBalance(es, c.account)
    BY <2>2, <2>3 DEF L!TransactionBalance, TransactionBalance, L!FoldLeft, FoldLeft,
                      L!MapThenFoldSet, MapThenFoldSet, L!Max, Max
  <2>5. \A state : L!Decision(c, state) = Decision(c, state)
    BY <2>1 DEF L!Decision, Decision, L!RequestedBalance, RequestedBalance
  <2> QED
    BY <1>1, <2>4, <2>5 DEF L!ProcessAuthorization, ProcessAuthorization
<1>3. L!ClearTransaction(c, es) = ClearTransaction(c, es)
  <2>1. L!AuthedTransaction(es, c) = AuthedTransaction(es, c)
    BY DEF L!AuthedTransaction, AuthedTransaction, L!SelectInSeq, SelectInSeq, L!Min, Min
  <2> QED
    BY <1>1, <2>1 DEF L!ClearTransaction, ClearTransaction, L!SettlementCode, SettlementCode
<1>4. /\ L!ApplyPayment(c, es) = ApplyPayment(c, es)
      /\ L!ApplyReturnedPayment(c, es) = ApplyReturnedPayment(c, es)
  BY <1>1 DEF L!ApplyPayment, ApplyPayment, L!ApplyReturnedPayment, ApplyReturnedPayment
<1> QED
  BY <1>2, <1>3, <1>4 DEF L!ResultOf, ResultOf

\* What a step of the ledger appends.
LEMMA LedgerAppends ==
    ASSUME NEW command \in CommandType, command.kind # "limitUpdated",
           events \in Seq(EventType), L!Store(command)
    PROVE  /\ ResultOf(command, events) \in EventType
           /\ ResultOf(command, events).type = TypeFor[command.kind]
           /\ ResultOf(command, events).account = command.account
           /\ events' = Append(events, ResultOf(command, events))
           /\ limit' = limit
<1>1. Accepts(command, events)
  BY SameAccepts DEF L!Store
<1> QED
  BY <1>1, SameResult, ResultOfCommand DEF L!Store

\* A purchase is decided for the cents that were sent.
LEMMA AuthorizeAppends ==
    ASSUME events \in Seq(EventType), LimitsTyped, FormsTyped, FormAllowed,
           NEW p \in Purchases, Cents(p.amount) > 0, L!Authorize(Request(p))
    PROVE  \E e \in EventType : /\ events' = Append(events, e) /\ limit' = limit
                                /\ e.amount = Cents(p.amount)
<1> DEFINE c == [Request(p) EXCEPT !.limit = limit[Request(p).account]]
<1>1. p.amount \in Amounts /\ p.allowed \in BOOLEAN
  BY WebAppAssumption
<1>2. Cents(p.amount) \in Int
  BY <1>1, CentsFit DEF Amounts
<1>3. PurchaseIds[tried + 1] \in STRING
  <2>1. Len(submissions) \in Nat /\ Len(updates) \in Nat
    BY LenProperties DEF FormsTyped, LimitsTyped
  <2>2. Len(PurchaseIds) \in Nat /\ DOMAIN PurchaseIds = 1..Len(PurchaseIds) /\ MaxForms \in Nat
    BY WebAppAssumption, LenProperties
  <2>3. tried + 1 \in 1..Len(PurchaseIds)
    BY <2>1, <2>2, WebAppAssumption DEF FormsTyped, FormAllowed
  <2> QED
    BY <2>2, <2>3, WebAppAssumption, ElementOfSeq
<1>4. limit[Account] \in Int
  <2>1. limit[Account] \in Amounts
    BY HereIsAccount DEF LimitsTyped
  <2> QED
    BY <2>1, AmountsAreNats
<1>5. /\ c = [kind |-> "authorize", account |-> Account, ref |-> PurchaseIds[tried + 1],
              amount |-> Cents(p.amount), allowed |-> p.allowed, limit |-> limit[Account]]
      /\ L!Store(c)
  BY DEF L!Authorize, Request
<1>6. c \in CommandType
  BY <1>1, <1>2, <1>3, <1>4, <1>5, WebAppAssumption DEF CommandType, Kinds
<1> HIDE DEF c
<1>7. c.kind = "authorize" /\ c.amount = Cents(p.amount)
  BY <1>5
<1>8. /\ ResultOf(c, events) \in EventType
      /\ events' = Append(events, ResultOf(c, events)) /\ limit' = limit
  BY <1>5, <1>6, <1>7, LedgerAppends
<1>9. ResultOf(c, events).amount = c.amount
  BY <1>7 DEF ResultOf, ProcessAuthorization, Event
<1> QED
  BY <1>7, <1>8, <1>9

\* A payment is made for the cents that were sent.
LEMMA MakePaymentAppends ==
    ASSUME events \in Seq(EventType), FormsTyped, MakePayment
    PROVE  \E e \in EventType : /\ events' = Append(events, e) /\ limit' = limit
                                /\ e.outcome = "none"
<1>1. /\ paid < Len(PaymentIds)
      /\ \E i \in DOMAIN submissions :
            L!ProcessPayment([kind |-> "submitted", account |-> Account, ref |-> PaymentIds[paid + 1],
                              amount |-> submissions[i], allowed |-> TRUE, limit |-> 0])
  BY DEF MakePayment
<1>2. PICK i \in DOMAIN submissions :
            L!ProcessPayment([kind |-> "submitted", account |-> Account, ref |-> PaymentIds[paid + 1],
                              amount |-> submissions[i], allowed |-> TRUE, limit |-> 0])
  BY <1>1
<1> DEFINE c == [kind |-> "submitted", account |-> Account, ref |-> PaymentIds[paid + 1],
                 amount |-> submissions[i], allowed |-> TRUE, limit |-> 0]
<1>3. submissions[i] \in Int
  <2>1. submissions[i] \in Amounts
    BY ElementOfDomain DEF FormsTyped
  <2> QED
    BY <2>1, AmountsAreNats
<1>4. PaymentIds[paid + 1] \in STRING
  <2>1. Len(PaymentIds) \in Nat
    BY WebAppAssumption, LenProperties
  <2>2. paid + 1 \in 1..Len(PaymentIds)
    BY <1>1, <2>1 DEF FormsTyped
  <2> QED
    BY <2>2, WebAppAssumption, ElementOfSeq
<1>5. c \in CommandType /\ c.kind = "submitted"
  BY <1>3, <1>4, WebAppAssumption DEF CommandType, Kinds
<1>6. L!Store(c)
  BY <1>2 DEF L!ProcessPayment
<1> HIDE DEF c
<1>7. /\ ResultOf(c, events) \in EventType /\ ResultOf(c, events).type = "paymentApplied"
      /\ events' = Append(events, ResultOf(c, events)) /\ limit' = limit
  BY <1>5, <1>6, LedgerAppends DEF TypeFor
<1>8. ResultOf(c, events).outcome = "none"
  BY <1>5 DEF ResultOf, ApplyPayment, Event
<1> QED
  BY <1>7, <1>8

\* What others do appends an event that approves nothing.
LEMMA ElsewhereAppends ==
    ASSUME events \in Seq(EventType), Elsewhere
    PROVE  \E e \in EventType : /\ events' = Append(events, e) /\ limit' = limit
                                /\ e.outcome # "approved"
<1>1. PICK c \in Meanwhile : L!Clear(c) \/ L!ProcessPayment(c)
  BY DEF Elsewhere
<1>2. /\ c \in CommandType /\ c.kind \in {"clear", "submitted", "returned"} /\ L!Store(c)
  BY <1>1, WebAppAssumption DEF L!Clear, L!ProcessPayment
<1>3. c.kind # "limitUpdated" /\ TypeFor[c.kind] # "decisioned"
  BY <1>2 DEF TypeFor
<1>4. /\ ResultOf(c, events) \in EventType /\ ResultOf(c, events).type = TypeFor[c.kind]
      /\ events' = Append(events, ResultOf(c, events)) /\ limit' = limit
  BY <1>2, <1>3, LedgerAppends
<1>5. \A e \in EventType : e.outcome = "approved" => e.type = "decisioned"
  <2> TAKE e \in EventType
  <2>1. e.outcome \in OutcomesOf[e.type] /\ e.type \in EventTypes
    BY DEF EventType
  <2> QED
    BY <2>1 DEF OutcomesOf, EventTypes
<1> QED
  BY <1>3, <1>4, <1>5

\* What a step does to the log.
LEMMA EventsStep ==
    ASSUME TypeInv, [Next]_vars
    PROVE  \/ UNCHANGED events
           \/ /\ \E e \in EventType : events' = Append(events, e)
              /\ UNCHANGED <<page, limit>>
           \/ /\ events' = SeedEvents
              /\ page' = [page EXCEPT !.whole = FALSE]
<1> USE DEF TypeInv
<1>1. CASE \E p \in Purchases : PurchaseAnswered(p) \/ PurchaseUnanswered(p)
  <2>1. PICK p \in Purchases : PurchaseAnswered(p) \/ PurchaseUnanswered(p)
    BY <1>1
  <2>2. FormAllowed /\ Cents(p.amount) > 0 /\ UNCHANGED page
    BY <2>1 DEF PurchaseAnswered, PurchaseUnanswered, Submit
  <2>3. L!Authorize(Request(p)) \/ UNCHANGED events
    BY <2>1 DEF PurchaseAnswered, PurchaseUnanswered, ledgerVars
  <2> QED
    BY <2>2, <2>3, AuthorizeAppends
<1>2. CASE MakePayment
  BY <1>2, MakePaymentAppends DEF MakePayment
<1>3. CASE Elsewhere
  BY <1>3, ElsewhereAppends DEF Elsewhere
<1>4. CASE RestartTransactions
  BY <1>4 DEF RestartTransactions
<1>5. CASE UNCHANGED vars
  BY <1>5 DEF vars, ledgerVars
<1>6. CASE \/ ReadTransactions \/ ReadAccount \/ ReadBalance \/ PageFails
           \/ \E n \in PaymentAmounts : SubmitPayment(n)
           \/ OpenForm \/ OpenFormFails
  BY <1>6 DEF ReadTransactions, ReadAccount, ReadBalance, PageFails, Unread, SubmitPayment, OpenForm,
              OpenFormFails, Unsubmitted, ledgerVars
<1>7. CASE \E n \in TypedLimits \cup ToSet(field) :
              ConfirmLimit(n) \/ ConfirmLimitFails(n) \/ RefuseLimit(n)
  BY <1>7 DEF ConfirmLimit, ConfirmLimitFails, SubmitLimit, RefuseLimit, ledgerVars
<1>8. CASE TakeUpdate \/ PublishFirst \/ PublishAgain \/ DiscardEvent \/ CopyChange \/ RestartAccounts
  BY <1>8 DEF TakeUpdate, PublishFirst, PublishAgain, DiscardEvent, Elapsed, CopyChange, L!UpdateLimit,
              RestartAccounts, ledgerVars
<1> QED
  BY <1>1, <1>2, <1>3, <1>4, <1>5, <1>6, <1>7, <1>8 DEF Next

\* Every step appends events, or none.
LEMMA EventsTyped == ASSUME TypeInv, [Next]_vars PROVE events' \in Seq(EventType)
<1>1. CASE UNCHANGED events
  BY <1>1 DEF TypeInv
<1>2. CASE \E e \in EventType : events' = Append(events, e)
  BY <1>2, AppendedEvent DEF TypeInv
<1>3. CASE events' = SeedEvents
  BY <1>3, WebAppAssumption
<1> QED
  BY <1>1, <1>2, <1>3, EventsStep

\* The update is taken.
LEMMA TakeTyped == ASSUME TypeInv, TakeUpdate PROVE LimitsTyped'
<1> DEFINE u == updates[taken + 1]
           e == [id |-> taken + 1, account |-> u.account, limit |-> u.newCreditLimit]
<1>1. /\ taken < Len(updates) /\ taken' = taken + 1
      /\ accountLimit' = [accountLimit EXCEPT ![u.account] = u.newCreditLimit]
      /\ unpublished' = unpublished \cup {e}
      /\ UNCHANGED <<updates, changes, copied, limit, strayed>>
  BY DEF TakeUpdate, A!Change, ledgerVars, adminVars
<1>2. /\ updates \in Seq(SentLimit) /\ taken \in 0..Len(updates) /\ Len(updates) \in Nat
      /\ DOMAIN updates = 1..Len(updates)
  BY LenProperties DEF TypeInv, LimitsTyped
<1>3. taken + 1 \in DOMAIN updates /\ taken + 1 \in Nat /\ taken' \in 0..Len(updates)
  BY <1>1, <1>2
<1>4. u \in SentLimit
  BY <1>2, <1>3, ElementOfDomain
<1>5. taken + 1 \in 1..MaxForms
  <2>1. Len(submissions) \in Nat /\ tried \in Nat /\ tried + Len(submissions) + Len(updates) <= MaxForms
    BY LenProperties DEF TypeInv, FormsTyped
  <2>2. MaxForms \in Nat
    BY WebAppAssumption
  <2> QED
    BY <2>1, <2>2, <1>1, <1>2
<1>6. e \in LimitChange /\ u.newCreditLimit \in Amounts
  BY <1>4, <1>5 DEF SentLimit, LimitChange
<1> HIDE DEF u, e
<1>7. accountLimit' \in [Here -> Amounts]
  BY <1>1, <1>6 DEF TypeInv, LimitsTyped
<1> QED
  BY <1>1, <1>3, <1>6, <1>7 DEF TypeInv, LimitsTyped

\* A change is published.
LEMMA PublishTyped == ASSUME TypeInv, PublishFirst \/ PublishAgain PROVE LimitsTyped'
<1>1. PICK e \in unpublished : A!Publish(e)
  BY DEF PublishFirst, PublishAgain
<1>2. UNCHANGED <<updates, taken, copied, limit>>
  BY DEF PublishFirst, PublishAgain, Elapsed, ledgerVars, flowVars
<1>3. changes' = Append(changes, e) /\ UNCHANGED <<accountLimit, unpublished>>
  BY <1>1 DEF A!Publish
<1>4. e \in LimitChange /\ changes \in Seq(LimitChange) /\ copied \in 0..Len(changes)
  BY DEF TypeInv, LimitsTyped
<1>5. changes' \in Seq(LimitChange) /\ Len(changes') = Len(changes) + 1
  BY <1>3, <1>4, AppendedElements
<1>6. copied' \in 0..Len(changes')
  BY <1>2, <1>5, <1>4, LenProperties
<1>7. strayed' \in BOOLEAN
  BY DEF PublishFirst, PublishAgain, TypeInv, LimitsTyped
<1> QED
  BY <1>2, <1>3, <1>5, <1>6, <1>7 DEF TypeInv, LimitsTyped

\* The change reaches the copy of the limit.
LEMMA CopyTyped == ASSUME TypeInv, CopyChange PROVE LimitsTyped'
<1> DEFINE e == changes[copied + 1]
<1>1. /\ copied < Len(changes) /\ copied' = copied + 1
      /\ limit' = [limit EXCEPT ![e.account] = e.limit]
      /\ UNCHANGED <<updates, taken, changes, accountLimit, unpublished, strayed>>
  BY DEF CopyChange, L!UpdateLimit, accountVars
<1>2. /\ changes \in Seq(LimitChange) /\ copied \in 0..Len(changes) /\ Len(changes) \in Nat
      /\ DOMAIN changes = 1..Len(changes)
  BY LenProperties DEF TypeInv, LimitsTyped
<1>3. copied + 1 \in DOMAIN changes /\ copied' \in 0..Len(changes)
  BY <1>1, <1>2
<1>4. e \in LimitChange
  BY <1>2, <1>3, ElementOfDomain
<1> HIDE DEF e
<1>5. limit' \in [Here -> Amounts]
  BY <1>1, <1>4 DEF TypeInv, LimitsTyped, LimitChange
<1> QED
  BY <1>1, <1>3, <1>5 DEF TypeInv, LimitsTyped

\* A form that is sent with an amount the form may hold.
LEMMA SentFits ==
    ASSUME TypeInv, NEW n, SubmitLimit(n)
    PROVE  /\ n \in Amounts /\ Cents(n) \in Amounts /\ Cents(n) # 0
           /\ UpdateOf(n) \in SentLimit /\ field' = << n >>
           /\ typed' \subseteq TypedLimits
<1>1. /\ field # << >> /\ n \in TypedLimits \cup {Head(field)} /\ Cents(n) > 0 /\ field' = << n >>
      /\ typed' = typed \cup ({n} \cap TypedLimits)
  BY DEF SubmitLimit
<1>2. Head(field) \in Amounts
  <2>1. PICK k \in Amounts : field = << k >>
    BY <1>1 DEF TypeInv, AdminTyped
  <2> QED
    BY <2>1
<1>3. n \in Amounts
  BY <1>1, <1>2, WebAppAssumption
<1>4. UpdateOf(n) \in SentLimit
  BY <1>1, <1>3, CentsFit, HereIsAccount DEF UpdateOf, SentLimit
<1> QED
  BY <1>1, <1>3, <1>4, CentsFit DEF TypeInv, AdminTyped

\* A form that is sent or fails to be.
LEMMA UpdatesAfter ==
    ASSUME TypeInv, NEW n, ConfirmLimit(n) \/ ConfirmLimitFails(n)
    PROVE  /\ updates' \in Seq(SentLimit) /\ Len(updates') \in {Len(updates), Len(updates) + 1}
           /\ taken' \in 0..Len(updates')
           /\ tried + Len(submissions) + Len(updates') <= MaxForms
<1>1. /\ SubmitLimit(n) /\ FormAllowed /\ updates' \in {updates, Append(updates, UpdateOf(n))}
      /\ taken' = taken
  BY DEF ConfirmLimit, ConfirmLimitFails, SubmitLimit
<1>2. UpdateOf(n) \in SentLimit /\ updates \in Seq(SentLimit) /\ taken \in 0..Len(updates)
  BY <1>1, SentFits DEF TypeInv, LimitsTyped
<1>3. /\ Append(updates, UpdateOf(n)) \in Seq(SentLimit)
      /\ Len(Append(updates, UpdateOf(n))) = Len(updates) + 1
  BY <1>2, AppendedElements
<1>4. updates' \in Seq(SentLimit) /\ Len(updates') \in {Len(updates), Len(updates) + 1}
  BY <1>1, <1>2, <1>3
<1>5. /\ Len(updates) \in Nat /\ Len(submissions) \in Nat /\ tried \in Nat /\ MaxForms \in Nat
      /\ tried + Len(submissions) + Len(updates) < MaxForms
  BY <1>1, <1>2, LenProperties, WebAppAssumption DEF FormAllowed, TypeInv, FormsTyped
<1>6. taken' \in 0..Len(updates') /\ tried + Len(submissions) + Len(updates') <= MaxForms
  BY <1>1, <1>2, <1>4, <1>5
<1> QED
  BY <1>4, <1>6

\* Every step keeps the limits typed.
LEMMA LimitsStayTyped == ASSUME TypeInv, [Next]_vars PROVE LimitsTyped'
<1> DEFINE same == UNCHANGED <<accountLimit, limit, updates, taken, unpublished, changes, copied, strayed>>
<1>1. CASE same
  BY <1>1 DEF TypeInv, LimitsTyped
<1>2. CASE \E n \in TypedLimits \cup ToSet(field) :
              ConfirmLimit(n) \/ ConfirmLimitFails(n)
  <2>1. PICK n : ConfirmLimit(n) \/ ConfirmLimitFails(n)
    BY <1>2
  <2>2. UNCHANGED <<changes, copied, unpublished, accountLimit, limit, strayed>>
    BY <2>1 DEF ConfirmLimit, ConfirmLimitFails, SubmitLimit, ledgerVars, accountVars
  <2> QED
    BY <2>1, <2>2, UpdatesAfter DEF TypeInv, LimitsTyped
<1>3. CASE DiscardEvent
  <2>1. /\ UNCHANGED <<updates, taken, changes, copied, accountLimit, limit>>
        /\ unpublished' \subseteq unpublished /\ strayed' \in BOOLEAN
    BY <1>3 DEF DiscardEvent, A!Discard, Elapsed, ledgerVars, flowVars, TypeInv, LimitsTyped
  <2> QED
    BY <2>1 DEF TypeInv, LimitsTyped
<1>4. CASE RestartAccounts \/ RestartTransactions
  <2>1. /\ UNCHANGED <<updates, taken, changes, copied, strayed>>
        /\ unpublished' \subseteq unpublished
        /\ accountLimit' \in {accountLimit, [a \in Here |-> SeedLimit]}
        /\ limit' \in {limit, [a \in Here |-> SeedLimit]}
    BY <1>4 DEF RestartAccounts, RestartTransactions, Fault, A!Restart, ledgerVars, accountVars, flowVars
  <2>2. [a \in Here |-> SeedLimit] \in [Here -> Amounts]
    BY WebAppAssumption
  <2> QED
    BY <2>1, <2>2 DEF TypeInv, LimitsTyped
<1>5. CASE \/ ReadTransactions \/ ReadAccount \/ ReadBalance \/ PageFails
           \/ \E n \in PaymentAmounts : SubmitPayment(n)
           \/ OpenForm \/ OpenFormFails \/ \E n \in TypedLimits \cup ToSet(field) : RefuseLimit(n)
           \/ UNCHANGED vars
  <2>1. same
    BY <1>5 DEF ReadTransactions, ReadAccount, ReadBalance, PageFails, Unread, SubmitPayment, OpenForm,
                OpenFormFails, Unsubmitted, RefuseLimit, vars, ledgerVars, accountVars, flowVars
  <2> QED
    BY <1>1, <2>1
<1>6. CASE \E p \in Purchases : PurchaseAnswered(p) \/ PurchaseUnanswered(p)
  <2>1. same
    BY <1>6 DEF PurchaseAnswered, PurchaseUnanswered, Submit, L!Authorize, L!Store,
                ledgerVars, accountVars, flowVars
  <2> QED
    BY <1>1, <2>1
<1>7. CASE MakePayment \/ Elsewhere
  <2>1. same
    BY <1>7 DEF MakePayment, Elsewhere, L!ProcessPayment, L!Clear, L!Store, accountVars, flowVars
  <2> QED
    BY <1>1, <2>1
<1> QED
  BY <1>2, <1>3, <1>4, <1>5, <1>6, <1>7, TakeTyped, PublishTyped, CopyTyped DEF Next

\* Every step keeps the forms of the administrator typed.
LEMMA AdminStaysTyped == ASSUME TypeInv, [Next]_vars PROVE AdminTyped'
<1>1. CASE OpenForm \/ OpenFormFails
  <2>1. /\ field' = << accountLimit[Account] >> \/ field' = << >>
        /\ UNCHANGED <<confirmed, typed>>
    BY <1>1 DEF OpenForm, OpenFormFails, Unsubmitted
  <2>2. accountLimit[Account] \in Amounts
    BY HereIsAccount DEF TypeInv, LimitsTyped
  <2> QED
    BY <2>1, <2>2 DEF TypeInv, AdminTyped
<1>2. CASE \E n \in TypedLimits \cup ToSet(field) : ConfirmLimit(n) \/ ConfirmLimitFails(n)
  <2>1. PICK n : ConfirmLimit(n) \/ ConfirmLimitFails(n)
    BY <1>2
  <2>2. SubmitLimit(n) /\ confirmed' \in {Cents(n), 0}
    BY <2>1 DEF ConfirmLimit, ConfirmLimitFails
  <2>3. n \in Amounts /\ field' = << n >> /\ Cents(n) \in Nat /\ typed' \subseteq TypedLimits
    BY <2>2, SentFits, AmountsAreNats
  <2> QED
    BY <2>2, <2>3 DEF AdminTyped
<1>3. CASE \E n \in TypedLimits \cup ToSet(field) : RefuseLimit(n)
  <2>1. PICK n : RefuseLimit(n)
    BY <1>3
  <2>2. /\ field # << >> /\ n \in TypedLimits \cup {Head(field)} /\ field' = << n >>
        /\ confirmed' = 0 /\ typed' = typed
    BY <2>1 DEF RefuseLimit
  <2>3. PICK k \in Amounts : field = << k >>
    BY <2>2 DEF TypeInv, AdminTyped
  <2>4. n \in Amounts
    BY <2>2, <2>3, WebAppAssumption
  <2> QED
    BY <2>2, <2>4 DEF TypeInv, AdminTyped
<1>4. CASE UNCHANGED <<field, confirmed, typed>>
  BY <1>4 DEF TypeInv, AdminTyped
<1>5. CASE \/ ReadTransactions \/ ReadAccount \/ ReadBalance \/ PageFails
           \/ \E p \in Purchases : PurchaseAnswered(p) \/ PurchaseUnanswered(p)
           \/ \E n \in PaymentAmounts : SubmitPayment(n)
           \/ MakePayment \/ Elsewhere
           \/ TakeUpdate \/ PublishFirst \/ PublishAgain \/ DiscardEvent \/ CopyChange
           \/ RestartAccounts \/ RestartTransactions \/ UNCHANGED vars
  <2>1. UNCHANGED <<field, confirmed, typed>>
    BY <1>5 DEF ReadTransactions, ReadAccount, ReadBalance, PageFails, Unread, SubmitPayment,
                PurchaseAnswered, PurchaseUnanswered, Submit, MakePayment, Elsewhere, TakeUpdate,
                PublishFirst, PublishAgain, DiscardEvent, Elapsed, CopyChange, RestartAccounts,
                RestartTransactions, Fault, vars, adminVars
  <2> QED
    BY <1>4, <2>1
<1> QED
  BY <1>1, <1>2, <1>3, <1>5 DEF Next

\* What a purchase does, answered or not.
LEMMA BuyingStep ==
    ASSUME TypeInv, NEW p \in Purchases, PurchaseAnswered(p) \/ PurchaseUnanswered(p)
    PROVE  /\ FormAllowed /\ Cents(p.amount) > 0 /\ p.amount \in Amounts
           /\ tried' = tried + 1 /\ UNCHANGED <<submissions, paid, updates>>
           /\ told' \in {told, [told EXCEPT !.approved = @ + p.amount],
                               [told EXCEPT !.unclear = @ + p.amount]}
<1>1. p.amount \in Amounts
  BY WebAppAssumption
<1> QED
  BY <1>1 DEF PurchaseAnswered, PurchaseUnanswered, Submit, paymentVars, flowVars

\* Every step keeps the forms for payments and purchases typed.
LEMMA FormsStayTyped == ASSUME TypeInv, [Next]_vars PROVE FormsTyped'
<1>0. /\ Len(submissions) \in Nat /\ Len(updates) \in Nat /\ tried \in Nat /\ MaxForms \in Nat
      /\ tried + Len(submissions) + Len(updates) <= MaxForms /\ submissions \in Seq(Amounts)
  BY LenProperties, WebAppAssumption DEF TypeInv, FormsTyped, LimitsTyped
<1>1. CASE \E p \in Purchases : PurchaseAnswered(p) \/ PurchaseUnanswered(p)
  <2>1. PICK p \in Purchases : PurchaseAnswered(p) \/ PurchaseUnanswered(p)
    BY <1>1
  <2>2. /\ FormAllowed /\ p.amount \in Amounts /\ tried' = tried + 1
        /\ UNCHANGED <<submissions, paid, updates>>
        /\ told' \in {told, [told EXCEPT !.approved = @ + p.amount],
                            [told EXCEPT !.unclear = @ + p.amount]}
    BY <2>1, BuyingStep
  <2>3. p.amount \in Nat
    BY <2>2, AmountsAreNats
  <2>4. told \in [approved : Nat, unclear : Nat]
    BY DEF TypeInv, FormsTyped
  <2>5. told.approved + p.amount \in Nat /\ told.unclear + p.amount \in Nat
    BY <2>3, <2>4
  <2>6. told' \in [approved : Nat, unclear : Nat]
    BY <2>2, <2>4, <2>5
  <2>7. tried' \in Nat /\ tried' + Len(submissions) + Len(updates) <= MaxForms
    BY <1>0, <2>2 DEF FormAllowed
  <2> QED
    BY <2>2, <2>6, <2>7 DEF TypeInv, FormsTyped
<1>2. CASE \E n \in PaymentAmounts : SubmitPayment(n)
  <2>1. PICK n \in PaymentAmounts : SubmitPayment(n)
    BY <1>2
  <2>2. /\ Cents(n) > 0 /\ FormAllowed /\ submissions' \in {submissions, Append(submissions, Cents(n))}
        /\ UNCHANGED <<tried, paid, updates, told>>
    BY <2>1 DEF SubmitPayment, flowVars, buyVars
  <2>3. n \in Amounts
    BY WebAppAssumption
  <2>4. Cents(n) \in Amounts
    BY <2>2, <2>3, CentsFit
  <2>5. /\ Append(submissions, Cents(n)) \in Seq(Amounts)
        /\ Len(Append(submissions, Cents(n))) = Len(submissions) + 1
    BY <1>0, <2>4, AppendedElements
  <2>6. tried + Len(submissions) + 1 + Len(updates) <= MaxForms
    BY <1>0, <2>2 DEF FormAllowed
  <2>7. submissions' \in Seq(Amounts) /\ Len(submissions') \in {Len(submissions), Len(submissions) + 1}
    BY <1>0, <2>2, <2>5
  <2>8. tried' + Len(submissions') + Len(updates') <= MaxForms
    BY <1>0, <2>2, <2>6, <2>7
  <2> QED
    BY <2>2, <2>7, <2>8 DEF TypeInv, FormsTyped
<1>3. CASE \E n \in TypedLimits \cup ToSet(field) : ConfirmLimit(n) \/ ConfirmLimitFails(n)
  <2>1. PICK n : ConfirmLimit(n) \/ ConfirmLimitFails(n)
    BY <1>3
  <2>2. UNCHANGED <<tried, submissions, paid, told>>
    BY <2>1 DEF ConfirmLimit, ConfirmLimitFails, SubmitLimit, paymentVars, buyVars
  <2> QED
    BY <2>1, <2>2, UpdatesAfter DEF TypeInv, FormsTyped
<1>4. CASE MakePayment
  <2>1. paid < Len(PaymentIds) /\ paid' = paid + 1 /\ UNCHANGED <<tried, submissions, told, updates>>
    BY <1>4 DEF MakePayment, buyVars, flowVars
  <2>2. Len(PaymentIds) \in Nat /\ paid \in 0..Len(PaymentIds)
    BY WebAppAssumption, LenProperties DEF TypeInv, FormsTyped
  <2>3. paid' \in 0..Len(PaymentIds)
    BY <2>1, <2>2
  <2> QED
    BY <2>1, <2>3 DEF TypeInv, FormsTyped
<1>5. CASE UNCHANGED <<tried, submissions, updates, paid, told>>
  BY <1>5 DEF TypeInv, FormsTyped
<1>6. CASE \/ ReadTransactions \/ ReadAccount \/ ReadBalance \/ PageFails
           \/ Elsewhere \/ OpenForm \/ OpenFormFails
           \/ \E n \in TypedLimits \cup ToSet(field) : RefuseLimit(n)
           \/ TakeUpdate \/ PublishFirst \/ PublishAgain \/ DiscardEvent \/ CopyChange
           \/ RestartAccounts \/ RestartTransactions \/ UNCHANGED vars
  <2>1. UNCHANGED <<tried, submissions, updates, paid, told>>
    BY <1>6 DEF ReadTransactions, ReadAccount, ReadBalance, PageFails, Unread, Elsewhere, OpenForm,
                OpenFormFails, Unsubmitted, RefuseLimit, TakeUpdate, PublishFirst, PublishAgain,
                DiscardEvent, Elapsed, CopyChange, RestartAccounts, RestartTransactions, Fault,
                vars, paymentVars, buyVars, flowVars
  <2> QED
    BY <1>5, <2>1
<1> QED
  BY <1>1, <1>2, <1>3, <1>4, <1>6 DEF Next

\* What is read next; any page may also be dropped.
LEMMA PageStep ==
    ASSUME [Next]_vars
    PROVE  \/ UNCHANGED page
           \/ page' = Blank
           \/ ReadTransactions
           \/ ReadAccount
           \/ TakeUpdate
           \/ RestartTransactions
<1>1. CASE ReadBalance \/ PageFails
  BY <1>1 DEF ReadBalance, PageFails
<1>2. CASE \/ \E p \in Purchases : PurchaseAnswered(p) \/ PurchaseUnanswered(p)
           \/ \E n \in PaymentAmounts : SubmitPayment(n)
           \/ MakePayment \/ Elsewhere \/ OpenForm \/ OpenFormFails
           \/ \E n \in TypedLimits \cup ToSet(field) :
                  ConfirmLimit(n) \/ ConfirmLimitFails(n) \/ RefuseLimit(n)
           \/ PublishFirst \/ PublishAgain \/ DiscardEvent \/ CopyChange
           \/ RestartAccounts \/ UNCHANGED vars
  BY <1>2 DEF PurchaseAnswered, PurchaseUnanswered, Submit, SubmitPayment, MakePayment, Elsewhere,
              OpenForm, OpenFormFails, Unsubmitted, ConfirmLimit, ConfirmLimitFails, SubmitLimit,
              RefuseLimit, PublishFirst, PublishAgain, DiscardEvent, Elapsed, CopyChange,
              RestartAccounts, vars
<1> QED
  BY <1>1, <1>2 DEF Next

\* An empty page is one.
LEMMA BlankTyped == Blank \in PageType /\ Len(Blank.list) <= PageSize /\ Blank.stage = "transactions"
<1>1. << >> \in Seq(EventType) /\ Len(<< >>) = 0 /\ 0 <= PageSize
  BY EmptySeq, WebAppAssumption
<1>2. 0 \in Amounts
  BY IntHalfAssumption DEF Amounts
<1> QED
  BY <1>1, <1>2 DEF Blank, PageType

\* What GetTransactions and GetAccountInfo put on the page.
LEMMA ReadTransactionsPage ==
    ASSUME TypeInv, ReadTransactions
    PROVE  /\ page' \in PageType
           /\ page'.stage = "account" /\ page'.list = RecentTransactions(events)
           /\ page'.from = Len(events)
           /\ UNCHANGED Unread
<1>1. RecentTransactions(events) \in Seq(EventType) /\ Len(events) \in Nat
  BY RecentList, LenProperties DEF TypeInv
<1>2. page' = [stage |-> "account", list |-> RecentTransactions(events), from |-> Len(events),
               creditLimit |-> 0, changing |-> FALSE, whole |-> TRUE]
  BY DEF ReadTransactions, Blank
<1>3. 0 \in Amounts
  BY IntHalfAssumption DEF Amounts
<1>4. /\ page'.stage = "account" /\ page'.list = RecentTransactions(events)
      /\ page'.from = Len(events)
  BY <1>2
<1>5. page' \in PageType
  BY <1>1, <1>2, <1>3 DEF PageType
<1> QED
  BY <1>4, <1>5 DEF ReadTransactions

\* What reading the account adds to the page.
LEMMA ReadAccountPage ==
    ASSUME TypeInv, ReadAccount
    PROVE  /\ page' \in PageType
           /\ page.stage = "account" /\ page'.stage = "balance"
           /\ page'.list = page.list /\ page'.from = page.from /\ page'.whole = page.whole
           /\ page'.creditLimit = accountLimit[Account] /\ page'.changing = OnItsWay
           /\ UNCHANGED Unread
<1>1. page \in PageType /\ accountLimit[Account] \in Amounts
  BY HereIsAccount DEF TypeInv, PageTyped, LimitsTyped
<1>2. OnItsWay \in BOOLEAN
  BY DEF OnItsWay
<1>3. /\ page.stage = "account"
      /\ page' = [page EXCEPT !.stage = "balance", !.creditLimit = accountLimit[Account],
                              !.changing = OnItsWay]
      /\ UNCHANGED Unread
  BY DEF ReadAccount
<1> QED
  BY <1>1, <1>2, <1>3 DEF PageType

\* What an update and a restart make of a page that is being read.
LEMMA MarkedPage ==
    ASSUME TypeInv, TakeUpdate \/ RestartTransactions
    PROVE  /\ page' \in PageType
           /\ page'.stage = page.stage /\ page'.list = page.list /\ page'.from = page.from
           /\ page'.creditLimit = page.creditLimit
<1>1. page \in PageType
  BY DEF TypeInv, PageTyped
<1>2. CASE TakeUpdate
  <2>1. page' = [page EXCEPT !.changing = @ \/ page.stage = "balance"]
    BY <1>2 DEF TakeUpdate
  <2>2. (page.changing \/ page.stage = "balance") \in BOOLEAN
    OBVIOUS
  <2> QED
    BY <1>1, <2>1, <2>2 DEF PageType
<1>3. CASE RestartTransactions
  <2>1. page' = [page EXCEPT !.whole = FALSE]
    BY <1>3 DEF RestartTransactions
  <2> QED
    BY <1>1, <2>1 DEF PageType
<1> QED
  BY <1>2, <1>3

\* What an update that is taken does to the page.
LEMMA TakenPage ==
    ASSUME TypeInv, TakeUpdate
    PROVE  page'.whole = page.whole /\ (page.stage = "balance" => page'.changing)
<1>1. page \in PageType /\ page' = [page EXCEPT !.changing = page.changing \/ page.stage = "balance"]
  BY DEF TypeInv, PageTyped, TakeUpdate
<1>2. page'.whole = page.whole
  BY <1>1 DEF PageType
<1>3. page'.changing = (page.changing \/ page.stage = "balance")
  BY <1>1 DEF PageType
<1> QED
  BY <1>2, <1>3

\* Every step keeps the page typed.
LEMMA PageStaysTyped == ASSUME TypeInv, [Next]_vars PROVE PageTyped'
<1>1. CASE page' = page
  BY <1>1 DEF TypeInv, PageTyped
<1>2. CASE page' = Blank
  BY <1>2, BlankTyped DEF PageTyped
<1>3. CASE ReadTransactions
  BY <1>3, ReadTransactionsPage, RecentList DEF TypeInv, PageTyped
<1>4. CASE ReadAccount
  BY <1>4, ReadAccountPage DEF TypeInv, PageTyped
<1>5. CASE TakeUpdate \/ RestartTransactions
  BY <1>5, MarkedPage DEF TypeInv, PageTyped
<1> QED
  BY <1>1, <1>2, <1>3, <1>4, <1>5, PageStep

\* Everything starts typed.
LEMMA InitTyped == ASSUME Init PROVE TypeInv
<1>1. \A S : << >> \in Seq(S) /\ Len(<< >>) = 0
  BY EmptySeq
<1>2. /\ events = SeedEvents /\ limit = [a \in Here |-> SeedLimit]
      /\ accountLimit = [a \in Here |-> SeedLimit] /\ unpublished = {} /\ changes = << >>
      /\ copied = 0 /\ taken = 0 /\ updates = << >> /\ submissions = << >> /\ paid = 0
      /\ page = Blank /\ field = << >> /\ tried = 0 /\ told = [approved |-> 0, unclear |-> 0]
      /\ confirmed = 0 /\ typed = {} /\ strayed = FALSE
  BY DEF Init, L!Init, A!Init
<1>3. LimitsTyped
  <2>1. [a \in Here |-> SeedLimit] \in [Here -> Amounts]
    BY WebAppAssumption
  <2>2. taken \in 0..Len(updates) /\ copied \in 0..Len(changes)
    BY <1>1, <1>2
  <2> QED
    BY <1>1, <1>2, <2>1, <2>2 DEF LimitsTyped
<1>4. AdminTyped
  BY <1>2 DEF AdminTyped
<1>5. FormsTyped
  <2>1. MaxForms \in Nat /\ Len(PaymentIds) \in Nat
    BY WebAppAssumption, LenProperties
  <2> QED
    BY <1>1, <1>2, <2>1 DEF FormsTyped
<1>6. PageTyped
  BY <1>2, BlankTyped DEF PageTyped
<1> QED
  BY <1>2, <1>3, <1>4, <1>5, <1>6, WebAppAssumption DEF TypeInv

\* TypeInv holds of every state.
LEMMA TypeInvHolds == Spec => []TypeInv
<1>1. Init => TypeInv
  BY InitTyped
<1>2. TypeInv /\ [Next]_vars => TypeInv'
  BY EventsTyped, LimitsStayTyped, AdminStaysTyped, FormsStayTyped, PageStaysTyped DEF TypeInv
<1> QED
  BY <1>1, <1>2, PTL DEF Spec

\* TypeInv gives TypeOK.
LEMMA TypeInvGivesTypeOK == ASSUME TypeInv PROVE TypeOK
<1>1. Amounts \subseteq Nat /\ Amounts \subseteq Int
  BY AmountsAreNats
<1>2. /\ L!EventType = EventType
  BY DEF L!EventType, EventType, L!EventTypes, EventTypes, L!Outcomes, Outcomes, L!OutcomesOf, OutcomesOf
<1>3. limit \in [Here -> Int] /\ accountLimit \in [Here -> Int]
  BY <1>1 DEF TypeInv, LimitsTyped
<1>4. L!TypeOK
  BY <1>2, <1>3 DEF L!TypeOK, TypeInv
<1>5. LimitChange \subseteq A!EventType /\ SentLimit \subseteq A!UpdateType
  BY <1>1, HereIsAccount DEF LimitChange, SentLimit, A!EventType, A!UpdateType
<1>6. \A S, T : S \subseteq T => Seq(S) \subseteq Seq(T)
  <2> SUFFICES ASSUME NEW S, NEW T, S \subseteq T, NEW seq \in Seq(S) PROVE seq \in Seq(T)
    OBVIOUS
  <2>1. Len(seq) \in Nat /\ seq = [i \in 1..Len(seq) |-> seq[i]] /\ \A i \in 1..Len(seq) : seq[i] \in S
    BY LenProperties, ElementOfSeq
  <2> QED
    BY <2>1, IsASeq
<1>7. /\ unpublished \subseteq A!EventType /\ changes \in Seq(A!EventType)
      /\ updates \in Seq(A!UpdateType) /\ submissions \in Seq(Nat)
  BY <1>1, <1>5, <1>6 DEF TypeInv, LimitsTyped, FormsTyped
<1>8. tried \in 0..Len(PurchaseIds)
  <2>1. Len(submissions) \in Nat /\ Len(updates) \in Nat
    BY LenProperties DEF TypeInv, LimitsTyped, FormsTyped
  <2>2. Len(PurchaseIds) \in Nat /\ MaxForms \in Nat /\ MaxForms <= Len(PurchaseIds)
    BY WebAppAssumption, LenProperties
  <2> QED
    BY <2>1, <2>2 DEF TypeInv, FormsTyped
<1>9. field \in Seq(Nat) /\ Len(field) <= 1
  <2>1. CASE field = << >>
    BY <2>1, EmptySeq
  <2>2. CASE \E n \in Amounts : field = << n >>
    <3>1. PICK n \in Nat : field = << n >>
      BY <2>2, <1>1
    <3> QED
      BY <3>1
  <2> QED
    BY <2>1, <2>2 DEF TypeInv, AdminTyped
<1>10. /\ page.stage \in {"transactions", "account", "balance"}
       /\ page.list \in Seq(EventType) /\ Len(page.list) <= PageSize
       /\ page.changing \in BOOLEAN /\ page.whole \in BOOLEAN
  BY DEF TypeInv, PageTyped, PageType
<1> QED
  BY <1>3, <1>4, <1>7, <1>8, <1>9, <1>10 DEF TypeOK, TypeInv, LimitsTyped, AdminTyped, FormsTyped

\* Every part of the state has its type: no form is sent with an amount that is
\* negative, or that an Int does not hold, and no page lists more than it may.
THEOREM TypeCorrect == Spec => []TypeOK
<1>1. TypeInv => TypeOK
  BY TypeInvGivesTypeOK
<1> QED
  BY <1>1, TypeInvHolds, PTL

(***************************************************************************)
(* What visitors are charged.                                              *)
(***************************************************************************)

BoughtIn(log) == SumFunctionOnSet(Charges(log), (Len(SeedEvents) + 1)..Len(log))
Charge(e)     == IF e.outcome = "approved" THEN e.amount ELSE 0

\* The seed is never lost.
ChargeInv ==
    /\ Len(SeedEvents) <= Len(events)
    /\ ChargedAsTold

\* What was bought, with one event more.
LEMMA ChargesAppended ==
    ASSUME NEW log \in Seq(EventType), Len(SeedEvents) <= Len(log), NEW e \in EventType
    PROVE  /\ BoughtIn(log) \in Int
           /\ BoughtIn(Append(log, e)) = BoughtIn(log) + Charge(e)
           /\ Charge(e) \in Int
           /\ Len(Append(log, e)) = Len(log) + 1
<1> DEFINE s == Len(SeedEvents)
           n == Len(log)
           f == Charges(log)
           g == Charges(Append(log, e))
<1>1. /\ n \in Nat /\ DOMAIN log = 1..n /\ DOMAIN Append(log, e) = 1..(n + 1)
      /\ Append(log, e)[n + 1] = e /\ \A i \in 1..n : Append(log, e)[i] = log[i]
      /\ Len(Append(log, e)) = n + 1
  BY AppendedEvent, AppendProperties
<1>2. s \in Nat /\ s <= n
  BY WebAppAssumption, LenProperties
<1>3. Charge(e) \in Int /\ \A i \in 1..n : Charge(log[i]) \in Int
  <2>1. \A x \in EventType : Charge(x) \in Int
    BY DEF Charge, EventType
  <2> QED
    BY <1>1, <2>1, ElementOfDomain
<1>4. /\ \A i \in 1..n : f[i] = Charge(log[i]) /\ f[i] \in Int /\ g[i] = f[i]
      /\ g[n + 1] = Charge(e)
  BY <1>1, <1>3 DEF Charges, Charge
<1> HIDE DEF f, g, s, n
<1>5. \A i \in (s + 1)..n : i \in 1..n
  BY <1>1, <1>2
<1>6. /\ \A i \in (s + 1)..n : f[i] \in Int /\ g[i] = f[i]
      /\ \A i \in (s + 1)..(n + 1) : g[i] \in Int
  BY <1>1, <1>2, <1>3, <1>4, <1>5
<1>7. s + 1 \in Int /\ n \in Int /\ s + 1 <= n + 1
  BY <1>1, <1>2
<1>8. IsFiniteSet((s + 1)..n)
  BY <1>7, FS_Interval
<1>9. SumFunctionOnSet(g, (s + 1)..n) = SumFunctionOnSet(f, (s + 1)..n) /\ SumFunctionOnSet(f, (s + 1)..n) \in Int
  BY <1>6, <1>8, SumSame
<1>10. SumFunctionOnSet(g, (s + 1)..(n + 1)) = g[n + 1] + SumFunctionOnSet(g, (s + 1)..n)
  BY <1>6, <1>7, SumPush
<1>11. BoughtIn(log) = SumFunctionOnSet(f, (s + 1)..n) /\ BoughtIn(Append(log, e)) = SumFunctionOnSet(g, (s + 1)..(n + 1))
  BY <1>1 DEF BoughtIn, f, g, s, n
<1>12. SumFunctionOnSet(g, (s + 1)..(n + 1)) = SumFunctionOnSet(f, (s + 1)..n) + Charge(e)
  BY <1>3, <1>4, <1>9, <1>10
<1> QED
  BY <1>1, <1>3, <1>9, <1>11, <1>12 DEF n

\* In the seed nothing was bought.
LEMMA NothingBought == BoughtIn(SeedEvents) = 0
<1>1. PICK s \in Nat : s = Len(SeedEvents)
  BY WebAppAssumption, LenProperties
<1>2. (s + 1)..s = {}
  OBVIOUS
<1> QED
  BY <1>1, <1>2, SumOfEmpty DEF BoughtIn

\* What was bought is an integer.
LEMMA BoughtInt ==
    ASSUME TypeInv, ChargeInv
    PROVE  BoughtIn(events) \in Int
<1>1. [type |-> "decisioned", account |-> Account, ref |-> Account, amount |-> 0,
       outcome |-> "approved"] \in EventType
  BY WebAppAssumption DEF EventType, EventTypes, Outcomes, OutcomesOf
<1> QED
  BY <1>1, ChargesAppended DEF TypeInv, ChargeInv

\* What a state satisfies in which b is bought.
LEMMA ChargeAfter ==
    ASSUME NEW b, BoughtIn(events') = b, Len(SeedEvents) <= Len(events'),
           b <= told'.approved + told'.unclear,
           "transactions restarted" \notin faults' => b >= told'.approved - tried'
    PROVE  ChargeInv'
<1>1. Bought' = b
  BY DEF Bought, BoughtIn
<1> QED
  BY <1>1 DEF ChargeInv, ChargedAsTold

\* What covers a charge of c cents for an amount of m.
LEMMA ChargeCovered ==
    ASSUME NEW b \in Int, NEW a \in Nat, NEW u \in Nat, NEW k \in Nat, NEW m \in Nat, NEW c \in Int,
           0 < c, m - 1 <= c, c <= m, b <= a + u
    PROVE  /\ b <= a + (u + m) /\ b + c <= a + (u + m) /\ b + c <= (a + m) + u
           /\ b >= a - k => /\ b >= a - (k + 1) /\ b + c >= a - (k + 1)
                            /\ b + c >= (a + m) - (k + 1)
OBVIOUS

\* What is told after a purchase covers what is charged for it.
LEMMA BuyingCharge ==
    ASSUME TypeInv, ChargeInv, NEW p \in Purchases, PurchaseAnswered(p) \/ PurchaseUnanswered(p)
    PROVE  ChargeInv'
<1>1. /\ FormAllowed /\ Cents(p.amount) > 0 /\ p.amount \in Amounts
      /\ tried' = tried + 1 /\ UNCHANGED faults
  BY BuyingStep DEF PurchaseAnswered, PurchaseUnanswered, Submit
<1>2. PICK m \in Nat, c \in Int : m = p.amount /\ c = Cents(p.amount) /\ 0 < c /\ m - 1 <= c /\ c <= m
  BY <1>1, CentsFit, AmountsAreNats
<1>3. /\ events \in Seq(EventType) /\ Len(events) \in Nat /\ Len(SeedEvents) \in Nat
      /\ Len(SeedEvents) <= Len(events)
      /\ tried \in Nat /\ told \in [approved : Nat, unclear : Nat]
      /\ BoughtIn(events) \in Int
  BY LenProperties, WebAppAssumption, BoughtInt DEF TypeInv, FormsTyped, ChargeInv
<1>4. PICK a \in Nat, u \in Nat : told = [approved |-> a, unclear |-> u]
  BY <1>3
<1>5. PICK b \in Int : b = BoughtIn(events)
  BY <1>3
<1>6. PICK k \in Nat : k = tried
  BY <1>3
<1>7. b <= a + u /\ ("transactions restarted" \notin faults => b >= a - k)
  BY <1>4, <1>5, <1>6 DEF ChargeInv, ChargedAsTold, Bought, BoughtIn
<1>8. tried' = k + 1 /\ faults' = faults
  BY <1>1, <1>6
<1>9. /\ b <= a + (u + m) /\ b + c <= a + (u + m) /\ b + c <= (a + m) + u
      /\ "transactions restarted" \notin faults =>
            /\ b >= a - (k + 1) /\ b + c >= a - (k + 1) /\ b + c >= (a + m) - (k + 1)
  BY <1>2, <1>7, ChargeCovered
<1>10. CASE UNCHANGED events
  <2>1. ~ L!Authorize(Request(p))
    <3> SUFFICES ASSUME L!Authorize(Request(p)) PROVE FALSE
      OBVIOUS
    <3>1. PICK e \in EventType : events' = Append(events, e)
      BY <1>1, AuthorizeAppends DEF TypeInv
    <3>2. Len(events') = Len(events) + 1
      BY <1>3, <3>1, AppendProperties
    <3> QED
      BY <1>3, <1>10, <3>2
  <2>2. told' = [told EXCEPT !.unclear = @ + p.amount]
    BY <2>1 DEF PurchaseAnswered, PurchaseUnanswered
  <2>3. told'.approved = a /\ told'.unclear = u + m
    BY <1>2, <1>4, <2>2
  <2>4. BoughtIn(events') = b
    BY <1>5, <1>10
  <2> QED
    BY <1>3, <1>8, <1>9, <1>10, <2>3, <2>4, ChargeAfter
<1>11. CASE L!Authorize(Request(p))
  <2>1. PICK e \in EventType : events' = Append(events, e) /\ e.amount = Cents(p.amount)
    BY <1>1, <1>11, AuthorizeAppends DEF TypeInv
  <2>2. /\ BoughtIn(events') = b + Charge(e)
        /\ Len(events') = Len(events) + 1
        /\ events'[Len(events')] = e
    BY <1>3, <1>5, <2>1, ChargesAppended, AppendedEvent
  <2>l. Len(SeedEvents) <= Len(events')
    BY <1>3, <2>2
  <2>3. BoughtIn(events') = IF e.outcome = "approved" THEN b + c ELSE b
    BY <1>2, <2>1, <2>2 DEF Charge
  <2>4. CASE PurchaseAnswered(p) /\ e.outcome = "approved"
    <3>1. told' = [told EXCEPT !.approved = @ + p.amount]
      BY <2>2, <2>4 DEF PurchaseAnswered
    <3>2. told'.approved = a + m /\ told'.unclear = u
      BY <1>2, <1>4, <3>1
    <3>3. BoughtIn(events') = b + c
      BY <2>3, <2>4
    <3> QED
      BY <1>8, <1>9, <2>l, <3>2, <3>3, ChargeAfter
  <2>5. CASE PurchaseAnswered(p) /\ e.outcome # "approved"
    <3>1. told'.approved = a /\ told'.unclear = u
      BY <1>4, <2>2, <2>5 DEF PurchaseAnswered
    <3>2. BoughtIn(events') = b
      BY <2>3, <2>5
    <3> QED
      BY <1>7, <1>8, <1>9, <2>l, <3>1, <3>2, ChargeAfter
  <2>6. CASE PurchaseUnanswered(p)
    <3>1. told' = [told EXCEPT !.unclear = @ + p.amount]
      BY <2>6 DEF PurchaseUnanswered
    <3>2. told'.approved = a /\ told'.unclear = u + m
      BY <1>2, <1>4, <3>1
    <3>3. CASE e.outcome = "approved"
      <4>1. BoughtIn(events') = b + c
        BY <2>3, <3>3
      <4> QED
        BY <1>8, <1>9, <2>l, <3>2, <4>1, ChargeAfter
    <3>4. CASE e.outcome # "approved"
      <4>1. BoughtIn(events') = b
        BY <2>3, <3>4
      <4> QED
        BY <1>8, <1>9, <2>l, <3>2, <4>1, ChargeAfter
    <3> QED
      BY <3>3, <3>4
  <2> QED
    BY <2>4, <2>5, <2>6
<1> QED
  BY <1>10, <1>11 DEF PurchaseAnswered, PurchaseUnanswered, ledgerVars

\* What others do is no charge.
LEMMA ElsewhereCharge ==
    ASSUME TypeInv, ChargeInv, UNCHANGED <<told, tried, faults>>, NEW e \in EventType,
           events' = Append(events, e), e.outcome # "approved"
    PROVE  ChargeInv'
<1>1. /\ events \in Seq(EventType) /\ Len(events) \in Nat /\ Len(SeedEvents) \in Nat
      /\ Len(SeedEvents) <= Len(events) /\ Charge(e) = 0 /\ BoughtIn(events) \in Int
  BY LenProperties, WebAppAssumption, BoughtInt DEF TypeInv, FormsTyped, ChargeInv, Charge
<1>2. BoughtIn(events') = BoughtIn(events) /\ Len(events') = Len(events) + 1
  BY <1>1, ChargesAppended
<1>3. PICK b : b = BoughtIn(events)
  OBVIOUS
<1>4. /\ b <= told.approved + told.unclear
      /\ "transactions restarted" \notin faults => b >= told.approved - tried
  BY <1>3 DEF ChargeInv, ChargedAsTold, Bought, BoughtIn
<1>5. Len(SeedEvents) <= Len(events')
  BY <1>1, <1>2
<1> QED
  BY <1>2, <1>3, <1>4, <1>5, ChargeAfter

\* A restart of the transactions service forgets what was bought.
LEMMA RestartCharge == ASSUME TypeInv, ChargeInv, RestartTransactions PROVE ChargeInv'
<1>1. events' = SeedEvents
  BY DEF RestartTransactions
<1>8. told' = told
  BY DEF RestartTransactions, Fault, buyVars
<1>9. "transactions restarted" \in faults'
  BY DEF RestartTransactions, Fault
<1>2. told.approved \in Nat /\ told.unclear \in Nat /\ Len(SeedEvents) \in Nat
  BY LenProperties, WebAppAssumption DEF TypeInv, FormsTyped
<1>3. BoughtIn(events') = 0
  BY <1>1, NothingBought
<1>4. PICK a \in Nat, u \in Nat : a = told.approved /\ u = told.unclear
  BY <1>2
<1>5. told'.approved = a /\ told'.unclear = u /\ 0 <= a + u
  <2>1. told'.approved = a /\ told'.unclear = u
    BY <1>4, <1>8, Zenon
  <2> QED
    BY <2>1
<1>6. 0 <= told'.approved + told'.unclear
  BY <1>5
<1>7. Len(SeedEvents) <= Len(events')
  BY <1>1, <1>2
<1> QED
  BY <1>3, <1>6, <1>7, <1>9, ChargeAfter

\* A step that leaves purchases alone.
LEMMA OtherCharge ==
    ASSUME ChargeInv, UNCHANGED <<events, told, tried>>, faults \subseteq faults'
    PROVE  ChargeInv'
BY DEF ChargeInv, ChargedAsTold, Bought

\* Visitors are charged what they were told, up to a cent less for each
\* purchase and what they saw errors about, in whatever order purchases,
\* payments, clearings, errors and restarts come; appends do not overlap here.
THEOREM ChargedAsToldHolds == Spec => []ChargedAsTold
<1>1. Init => ChargeInv
  <2> SUFFICES ASSUME Init PROVE ChargeInv
    OBVIOUS
  <2>1. events = SeedEvents /\ told = [approved |-> 0, unclear |-> 0] /\ tried = 0
    BY DEF Init, L!Init
  <2>2. Bought = 0 /\ Len(SeedEvents) \in Nat
    BY <2>1, NothingBought, WebAppAssumption, LenProperties DEF Bought, BoughtIn
  <2> QED
    BY <2>1, <2>2 DEF ChargeInv, ChargedAsTold
<1>2. TypeInv /\ ChargeInv /\ [Next]_vars => ChargeInv'
  <2> SUFFICES ASSUME TypeInv, ChargeInv, [Next]_vars PROVE ChargeInv'
    OBVIOUS
  <2>1. CASE \E p \in Purchases : PurchaseAnswered(p) \/ PurchaseUnanswered(p)
    BY <2>1, BuyingCharge
  <2>2. CASE MakePayment
    <3>1. PICK e \in EventType : events' = Append(events, e) /\ e.outcome = "none"
      BY <2>2, MakePaymentAppends DEF TypeInv
    <3>2. UNCHANGED <<told, tried, faults>>
      BY <2>2 DEF MakePayment, buyVars
    <3> QED
      BY <3>1, <3>2, ElsewhereCharge
  <2>3. CASE Elsewhere
    <3>1. PICK e \in EventType : events' = Append(events, e) /\ e.outcome # "approved"
      BY <2>3, ElsewhereAppends DEF TypeInv
    <3>2. UNCHANGED <<told, tried, faults>>
      BY <2>3 DEF Elsewhere, buyVars
    <3> QED
      BY <3>1, <3>2, ElsewhereCharge
  <2>4. CASE RestartTransactions
    BY <2>4, RestartCharge
  <2>5. CASE \/ ReadTransactions \/ ReadAccount \/ ReadBalance \/ PageFails
             \/ \E n \in PaymentAmounts : SubmitPayment(n)
             \/ OpenForm \/ OpenFormFails
             \/ \E n \in TypedLimits \cup ToSet(field) :
                    ConfirmLimit(n) \/ ConfirmLimitFails(n) \/ RefuseLimit(n)
             \/ TakeUpdate \/ PublishFirst \/ PublishAgain \/ DiscardEvent \/ CopyChange
             \/ RestartAccounts \/ UNCHANGED vars
    <3>1. UNCHANGED <<events, told, tried>> /\ faults \subseteq faults'
      BY <2>5 DEF ReadTransactions, ReadAccount, ReadBalance, PageFails, Unread, SubmitPayment, OpenForm,
                  OpenFormFails, Unsubmitted, ConfirmLimit, ConfirmLimitFails, SubmitLimit, RefuseLimit,
                  TakeUpdate, PublishFirst, PublishAgain, DiscardEvent, Elapsed, CopyChange, L!UpdateLimit,
                  RestartAccounts, Fault, vars, ledgerVars, buyVars
    <3> QED
      BY <3>1, OtherCharge
  <2> QED
    BY <2>1, <2>2, <2>3, <2>4, <2>5 DEF Next
<1>3. ChargeInv => ChargedAsTold
  BY DEF ChargeInv
<1> QED
  BY <1>1, <1>2, <1>3, TypeInvHolds, PTL DEF Spec

(***************************************************************************)
(* The page adds up.                                                       *)
(***************************************************************************)

\* The list holds the transactions among the first events of the log.
Adds(list, from, log) ==
    /\ from \in 0..Len(log)
    /\ Len(list) < PageSize =>
          Total(list) + SumFunctionOnSet(Returns(log), 1..from) = SumFunctionOnSet(Effects(log), 1..from)

PageSumInv ==
    (page.stage # "transactions" /\ page.whole) => Adds(page.list, page.from, events)

\* A list that is read adds up to the balance then.
LEMMA AddsRead == ASSUME NEW log \in Seq(EventType) PROVE Adds(RecentTransactions(log), Len(log), log)
<1>1. Len(log) \in 0..Len(log)
  BY LenProperties
<1> QED
  BY <1>1, ListTotal, RecentList DEF Adds

\* What is stored later makes no difference.
LEMMA AddsAppended ==
    ASSUME NEW log \in Seq(EventType), NEW e \in EventType, NEW list, NEW from, Adds(list, from, log)
    PROVE  Adds(list, from, Append(log, e))
<1> DEFINE n == Len(log)
           more == Append(log, e)
<1>1. /\ n \in Nat /\ more \in Seq(EventType) /\ Len(more) = n + 1
      /\ \A i \in 1..n : more[i] = log[i]
  BY AppendedEvent, AppendProperties
<1>2. from \in 0..n
  BY DEF Adds
<1> HIDE DEF n, more
<1>3. from \in Int /\ from \in 0..(n + 1) /\ \A i \in 1..from : i \in 1..n /\ i \in 1..(n + 1)
  BY <1>1, <1>2
<1>4. \A i \in 1..from : /\ Effects(log)[i] \in Int /\ Effects(more)[i] = Effects(log)[i]
                         /\ Returns(log)[i] \in Int /\ Returns(more)[i] = Returns(log)[i]
  <2> TAKE i \in 1..from
  <2>1. i \in 1..Len(log) /\ i \in 1..Len(more) /\ more[i] = log[i]
    BY <1>1, <1>3 DEF n
  <2> QED
    BY <1>1, <2>1, EffectInt
<1>5. IsFiniteSet(1..from)
  BY <1>3, FS_Interval
<1>6. /\ SumFunctionOnSet(Effects(more), 1..from) = SumFunctionOnSet(Effects(log), 1..from)
      /\ SumFunctionOnSet(Returns(more), 1..from) = SumFunctionOnSet(Returns(log), 1..from)
  BY <1>4, <1>5, SumSame
<1> QED
  BY <1>1, <1>3, <1>6 DEF Adds, more

\* The amounts of the summary come to what is on the list and what is not.
LEMMA AddsUp ==
    ASSUME NEW log \in Seq(EventType), NEW list \in Seq(EventType), NEW from, Adds(list, from, log),
           Len(list) < PageSize
    PROVE  LET s == TransactionBalance(log, Account)
           IN  Wrap(s.balance + s.pending)
                 = Wrap(Total(list) + SumFunctionOnSet(Returns(log), 1..from)
                          + SumFunctionOnSet(Effects(log), (from + 1)..Len(log)))
<1>1. PICK n \in Nat : n = Len(log)
  BY LenProperties
<1>2. from \in 0..n /\ \A i \in 1..n : Effects(log)[i] \in Int
  BY <1>1, EffectInt DEF Adds
<1>3. SumFunctionOnSet(Effects(log), 1..n)
        = SumFunctionOnSet(Effects(log), 1..from) + SumFunctionOnSet(Effects(log), (from + 1)..n)
  BY <1>2, SumSplit
<1>4. Total(list) + SumFunctionOnSet(Returns(log), 1..from) = SumFunctionOnSet(Effects(log), 1..from)
  BY DEF Adds
<1> QED
  BY <1>1, <1>3, <1>4, BalanceTotal

\* Every step keeps what the page adds up to.
LEMMA PageSumStep == ASSUME TypeInv, PageSumInv, [Next]_vars PROVE PageSumInv'
<1>0. page \in PageType /\ events \in Seq(EventType)
  BY DEF TypeInv, PageTyped
<1>1. CASE page' = page
  <2>1. CASE UNCHANGED events
    BY <1>1, <2>1 DEF PageSumInv
  <2>2. CASE \E e \in EventType : events' = Append(events, e)
    BY <1>0, <1>1, <2>2, AddsAppended DEF PageSumInv
  <2>3. CASE page' = [page EXCEPT !.whole = FALSE]
    <3>1. page'.whole = FALSE
      BY <1>0, <2>3 DEF PageType
    <3> QED
      BY <3>1 DEF PageSumInv
  <2> QED
    BY <2>1, <2>2, <2>3, EventsStep
<1>2. CASE page' = Blank
  BY <1>2, BlankTyped DEF PageSumInv
<1>3. CASE ReadTransactions
  <2>1. page'.list = RecentTransactions(events) /\ page'.from = Len(events) /\ events' = events
    BY <1>3, ReadTransactionsPage DEF Unread, ledgerVars
  <2> QED
    BY <1>0, <2>1, AddsRead DEF PageSumInv
<1>4. CASE ReadAccount
  <2>1. /\ page.stage = "account" /\ page'.list = page.list /\ page'.from = page.from
        /\ page'.whole = page.whole /\ events' = events
    BY <1>4, ReadAccountPage DEF Unread, ledgerVars
  <2> QED
    BY <2>1 DEF PageSumInv
<1>5. CASE TakeUpdate
  <2>1. /\ page'.stage = page.stage /\ page'.list = page.list /\ page'.from = page.from
        /\ page'.whole = page.whole /\ events' = events
    BY <1>5, MarkedPage, TakenPage DEF TakeUpdate, ledgerVars
  <2> QED
    BY <2>1 DEF PageSumInv
<1>6. CASE RestartTransactions
  <2>1. page' = [page EXCEPT !.whole = FALSE]
    BY <1>6 DEF RestartTransactions
  <2>2. page'.whole = FALSE
    BY <1>0, <2>1 DEF PageType
  <2> QED
    BY <2>2 DEF PageSumInv
<1> QED
  BY <1>1, <1>2, <1>3, <1>4, <1>5, <1>6, PageStep

\* A page on which everything is listed adds up, whatever is stored between
\* its three calls, and though the amounts wrap; appends do not overlap here.
THEOREM PageAddsUpHolds == Spec => []PageAddsUp
<1>1. Init => PageSumInv
  BY BlankTyped DEF Init, PageSumInv
<1>2. TypeInv /\ PageSumInv /\ [Next]_vars => PageSumInv'
  BY PageSumStep
<1>3. TypeInv /\ PageSumInv => PageAddsUp
  <2> SUFFICES ASSUME TypeInv, PageSumInv, Ready, page.whole, Len(page.list) < PageSize
               PROVE  Wrap(Summary.balance + Summary.pending)
                        = Wrap(Total(page.list)
                             + SumFunctionOnSet(Returns(events), 1..page.from)
                             + SumFunctionOnSet(Effects(events), (page.from + 1)..Len(events)))
    BY DEF PageAddsUp, Total
  <2>1. page.stage = "balance" /\ page.list \in Seq(EventType) /\ events \in Seq(EventType)
    BY DEF Ready, TypeInv, PageTyped, PageType
  <2>2. Adds(page.list, page.from, events)
    BY <2>1 DEF PageSumInv
  <2>3. /\ Summary.balance = TransactionBalance(events, Account).balance
        /\ Summary.pending = TransactionBalance(events, Account).pending
    BY DEF Summary, AccountSummary
  <2> QED
    BY <2>1, <2>2, <2>3, AddsUp
<1> QED
  BY <1>1, <1>2, <1>3, TypeInvHolds, PTL DEF Spec

(***************************************************************************)
(* The page's credit limit and the copy.                                   *)
(***************************************************************************)

\* Without faults: every change on its way or done is that of an update that
\* was taken, the latest is not lost, and they are published in their order.
Synced ==
    /\ \A e \in unpublished \cup ToSet(changes) :
          e.id \in 1..taken /\ e.limit = updates[e.id].newCreditLimit
    /\ taken # 0 => \E e \in unpublished \cup ToSet(changes) : e.id = taken
    /\ \A i, j \in DOMAIN changes : i <= j => changes[i].id <= changes[j].id
    /\ accountLimit[Account] = IF taken = 0 THEN SeedLimit ELSE updates[taken].newCreditLimit
    /\ limit[Account] = IF copied = 0 THEN SeedLimit ELSE changes[copied].limit

\* Then a page on which no change was on its way shows the limit that both
\* services have, and all that may still be copied is that limit once more.
PageSynced ==
    (page.stage = "balance" /\ ~ page.changing) =>
        /\ page.creditLimit = accountLimit[Account] /\ limit[Account] = accountLimit[Account]
        /\ unpublished \subseteq ToSet(changes)
        /\ \A i \in (copied + 1)..Len(changes) : changes[i].limit = accountLimit[Account]

SyncInv == (~ strayed /\ faults = {}) => Synced /\ PageSynced

\* A new limit is on its way.
LEMMA ConfirmSync ==
    ASSUME TypeInv, Synced, PageSynced, NEW n, ConfirmLimit(n) \/ ConfirmLimitFails(n)
    PROVE  Synced' /\ PageSynced'
<1>1. /\ SubmitLimit(n) /\ updates' \in {updates, Append(updates, UpdateOf(n))}
      /\ UNCHANGED <<taken, changes, copied, unpublished, accountLimit, limit, page>>
  BY DEF ConfirmLimit, ConfirmLimitFails, SubmitLimit, ledgerVars, accountVars
<1>2. updates \in Seq(SentLimit) /\ UpdateOf(n) \in SentLimit /\ taken \in 0..Len(updates)
  BY <1>1, SentFits DEF TypeInv, LimitsTyped
<1>3. Len(updates) \in Nat /\ \A i \in 1..Len(updates) : Append(updates, UpdateOf(n))[i] = updates[i]
  BY <1>2, AppendProperties, LenProperties
<1>4. \A i \in 1..taken : updates'[i] = updates[i]
  <2> TAKE i \in 1..taken
  <2>1. i \in 1..Len(updates)
    BY <1>2, <1>3
  <2> QED
    BY <1>1, <1>3, <2>1
<1>5. taken # 0 => taken \in 1..taken
  BY <1>2, <1>3
<1>6. Synced'
  BY <1>1, <1>4, <1>5 DEF Synced
<1> QED
  BY <1>1, <1>6 DEF PageSynced

\* The update is taken.
LEMMA TakeSync ==
    ASSUME TypeInv, Synced, TakeUpdate
    PROVE  Synced' /\ PageSynced'
<1> DEFINE u == updates[taken + 1]
           e == [id |-> taken + 1, account |-> u.account, limit |-> u.newCreditLimit]
<1>1. /\ taken < Len(updates) /\ taken' = taken + 1
      /\ accountLimit' = [accountLimit EXCEPT ![u.account] = u.newCreditLimit]
      /\ unpublished' = unpublished \cup {e}
      /\ UNCHANGED <<updates, changes, copied, limit>>
  BY DEF TakeUpdate, A!Change, ledgerVars
<1>2. /\ updates \in Seq(SentLimit) /\ taken \in Nat
      /\ taken + 1 \in DOMAIN updates /\ accountLimit \in [Here -> Amounts]
  BY <1>1, LenProperties DEF TypeInv, LimitsTyped
<1>3. u \in SentLimit
  BY <1>2, ElementOfDomain
<1>4. u.account = Account /\ Account \in Here
  BY <1>3, HereIsAccount DEF SentLimit
<1>5. accountLimit'[Account] = updates'[taken'].newCreditLimit
  BY <1>1, <1>2, <1>4
<1>6. e.id = taken' /\ e.limit = updates'[e.id].newCreditLimit
  BY <1>1
<1> HIDE DEF u, e
<1>7. taken' # 0 /\ taken' \in 1..taken' /\ \A i \in 1..taken : i \in 1..taken'
  BY <1>1, <1>2
<1>8. \A f \in unpublished' \cup ToSet(changes') :
          f.id \in 1..taken' /\ f.limit = updates'[f.id].newCreditLimit
  BY <1>1, <1>6, <1>7 DEF Synced
<1>9. \E f \in unpublished' \cup ToSet(changes') : f.id = taken'
  BY <1>1, <1>6
<1>10. Synced'
  BY <1>1, <1>5, <1>7, <1>8, <1>9 DEF Synced
<1>11. PageSynced'
  BY MarkedPage, TakenPage DEF PageSynced
<1> QED
  BY <1>10, <1>11

\* What is published again, when everything was published, is the latest.
LEMMA PublishSync ==
    ASSUME TypeInv, Synced, PageSynced, PublishFirst \/ PublishAgain, ~ strayed'
    PROVE  Synced' /\ PageSynced'
<1>1. PICK e \in unpublished : A!Publish(e) /\ \A i \in DOMAIN changes : ~ (changes[i].id > e.id)
  BY DEF PublishFirst, PublishAgain
<1>2. /\ UNCHANGED <<updates, taken, copied, limit, page>>
      /\ changes' = Append(changes, e) /\ UNCHANGED <<accountLimit, unpublished>>
  BY <1>1 DEF PublishFirst, PublishAgain, Elapsed, ledgerVars, flowVars, A!Publish
<1>3. /\ e \in LimitChange /\ changes \in Seq(LimitChange) /\ copied \in 0..Len(changes)
      /\ taken \in Nat
  BY LenProperties DEF TypeInv, LimitsTyped
<1>4. /\ Len(changes) \in Nat /\ DOMAIN changes = 1..Len(changes)
      /\ DOMAIN changes' = 1..(Len(changes) + 1) /\ Len(changes') = Len(changes) + 1
      /\ changes'[Len(changes) + 1] = e /\ \A i \in 1..Len(changes) : changes'[i] = changes[i]
      /\ ToSet(changes') = ToSet(changes) \cup {e}
  BY <1>2, <1>3, AppendedEvent, AppendedElements
<1>5. \A i \in 1..Len(changes) : changes[i].id \in Nat /\ changes[i].id <= e.id
  <2> TAKE i \in 1..Len(changes)
  <2>1. changes[i] \in LimitChange
    BY <1>3, ElementOfSeq
  <2>2. changes[i].id \in Nat /\ e.id \in Nat
    BY <1>3, <2>1 DEF LimitChange
  <2> QED
    BY <1>1, <1>4, <2>2
<1>6. e.id \in Nat /\ e.id <= e.id
  BY <1>3 DEF LimitChange
<1>7. ASSUME NEW i \in DOMAIN changes', NEW j \in DOMAIN changes', i <= j
      PROVE  changes'[i].id <= changes'[j].id
  <2>1. CASE j \in 1..Len(changes)
    <3>1. i \in 1..Len(changes)
      BY <1>4, <1>7, <2>1
    <3> QED
      BY <1>4, <1>7, <2>1, <3>1 DEF Synced
  <2>2. CASE j = Len(changes) + 1
    <3>1. i \in 1..Len(changes) \/ i = Len(changes) + 1
      BY <1>4
    <3> QED
      BY <1>4, <1>5, <1>6, <2>2, <3>1
  <2> QED
    BY <1>4, <2>1, <2>2
<1>8. limit'[Account] = IF copied' = 0 THEN SeedLimit ELSE changes'[copied'].limit
  <2>1. copied # 0 => copied \in 1..Len(changes)
    BY <1>3, <1>4
  <2> QED
    BY <1>2, <1>4, <2>1 DEF Synced
<1>9. unpublished' \cup ToSet(changes') = unpublished \cup ToSet(changes)
  BY <1>2, <1>4
<1>10. Synced'
  BY <1>2, <1>7, <1>8, <1>9 DEF Synced
<1>11. ASSUME page'.stage = "balance", ~ page'.changing
       PROVE  /\ page'.creditLimit = accountLimit'[Account] /\ limit'[Account] = accountLimit'[Account]
              /\ unpublished' \subseteq ToSet(changes')
              /\ \A i \in (copied' + 1)..Len(changes') : changes'[i].limit = accountLimit'[Account]
  <2>1. /\ page.creditLimit = accountLimit[Account] /\ limit[Account] = accountLimit[Account]
        /\ unpublished \subseteq ToSet(changes)
        /\ \A i \in (copied + 1)..Len(changes) : changes[i].limit = accountLimit[Account]
    BY <1>2, <1>11 DEF PageSynced
  <2>2. e.id \in 1..taken /\ e.limit = updates[e.id].newCreditLimit
    BY DEF Synced
  <2>3. taken # 0
    BY <1>3, <2>2
  <2>4. PICK f \in ToSet(changes) : f.id = taken
    BY <2>1, <2>3 DEF Synced
  <2>5. taken <= e.id
    BY <1>4, <1>5, <2>4 DEF ToSet
  <2>6. e.id = taken
    BY <1>3, <1>6, <2>2, <2>5
  <2>7. e.limit = accountLimit[Account]
    BY <2>2, <2>3, <2>6 DEF Synced
  <2>8. ASSUME NEW i \in (copied' + 1)..Len(changes')
        PROVE  changes'[i].limit = accountLimit'[Account]
    <3>1. i \in (copied + 1)..Len(changes) \/ i = Len(changes) + 1
      BY <1>2, <1>3, <1>4
    <3>2. i \in (copied + 1)..Len(changes) => i \in 1..Len(changes)
      BY <1>3, <1>4
    <3> QED
      BY <1>2, <1>4, <2>1, <2>7, <3>1, <3>2
  <2> QED
    BY <1>2, <1>4, <2>1, <2>8
<1> QED
  BY <1>10, <1>11 DEF PageSynced

\* The event is discarded, and nothing has strayed.
LEMMA DiscardSync ==
    ASSUME Synced, PageSynced, DiscardEvent, ~ strayed'
    PROVE  Synced' /\ PageSynced'
<1>1. PICK e \in unpublished : unpublished' = unpublished \ {e} /\ e \in ToSet(changes)
  BY DEF DiscardEvent, A!Discard
<1>2. UNCHANGED <<updates, taken, changes, copied, accountLimit, limit, page>>
  BY DEF DiscardEvent, A!Discard, Elapsed, ledgerVars, flowVars
<1>3. unpublished' \cup ToSet(changes') = unpublished \cup ToSet(changes) /\ unpublished' \subseteq unpublished
  BY <1>1, <1>2
<1> QED
  BY <1>2, <1>3 DEF Synced, PageSynced

\* The change reaches the copy.
LEMMA CopySync ==
    ASSUME TypeInv, Synced, PageSynced, CopyChange
    PROVE  Synced' /\ PageSynced'
<1> DEFINE e == changes[copied + 1]
<1>1. /\ copied < Len(changes) /\ copied' = copied + 1
      /\ limit' = [limit EXCEPT ![e.account] = e.limit]
      /\ UNCHANGED <<updates, taken, changes, accountLimit, unpublished, page>>
  BY DEF CopyChange, L!UpdateLimit, accountVars
<1>2. /\ changes \in Seq(LimitChange) /\ copied \in Nat /\ Len(changes) \in Nat
      /\ copied + 1 \in DOMAIN changes /\ limit \in [Here -> Amounts]
  BY <1>1, LenProperties DEF TypeInv, LimitsTyped
<1>3. e \in LimitChange
  BY <1>2, ElementOfDomain
<1>4. e.account = Account /\ Account \in Here
  BY <1>3, HereIsAccount DEF LimitChange
<1>5. limit'[Account] = changes'[copied'].limit
  BY <1>1, <1>2, <1>4
<1>6. copied' # 0
  BY <1>1, <1>2
<1>7. Synced'
  BY <1>1, <1>5, <1>6 DEF Synced
<1>8. copied' \in (copied + 1)..Len(changes) /\ \A i \in (copied' + 1)..Len(changes) : i \in (copied + 1)..Len(changes)
  BY <1>1, <1>2
<1>9. PageSynced'
  BY <1>1, <1>5, <1>8 DEF PageSynced
<1> QED
  BY <1>7, <1>9

\* With nothing on its way, the last change is that of the last update.
LEMMA ReadSync ==
    ASSUME TypeInv, Synced, ReadAccount
    PROVE  Synced' /\ PageSynced'
<1>1. /\ page'.creditLimit = accountLimit[Account] /\ page'.changing = OnItsWay
      /\ UNCHANGED <<updates, taken, changes, copied, accountLimit, limit, unpublished>>
  BY ReadAccountPage DEF Unread, ledgerVars, accountVars, flowVars
<1>2. Synced'
  BY <1>1 DEF Synced
<1>3. ASSUME ~ page'.changing
      PROVE  /\ page'.creditLimit = accountLimit'[Account] /\ limit'[Account] = accountLimit'[Account]
             /\ unpublished' \subseteq ToSet(changes')
             /\ \A i \in (copied' + 1)..Len(changes') : changes'[i].limit = accountLimit'[Account]
  <2>1. unpublished \subseteq ToSet(changes) /\ ~ (copied < Len(changes))
    BY <1>1, <1>3 DEF OnItsWay
  <2>2. /\ copied \in 0..Len(changes) /\ Len(changes) \in Nat /\ DOMAIN changes = 1..Len(changes)
        /\ taken \in Nat /\ changes \in Seq(LimitChange)
    BY LenProperties DEF TypeInv, LimitsTyped
  <2>3. copied = Len(changes)
    <3>1. copied \in 0..Len(changes) /\ Len(changes) \in Nat
      BY <2>2
    <3>2. ~ (copied < Len(changes))
      BY <2>1
    <3> QED
      BY <3>1, <3>2
  <2>4. limit[Account] = accountLimit[Account]
    <3>1. CASE taken = 0
      <4>1. ToSet(changes) = {}
        BY <3>1 DEF Synced
      <4>2. copied = 0
        <5> SUFFICES ASSUME copied # 0 PROVE FALSE
          OBVIOUS
        <5>1. 1 \in DOMAIN changes
          BY <2>2, <2>3
        <5> QED
          BY <4>1, <5>1 DEF ToSet
      <4> QED
        BY <3>1, <4>2 DEF Synced
    <3>2. CASE taken # 0
      <4>1. PICK f \in ToSet(changes) : f.id = taken
        BY <2>1, <3>2 DEF Synced
      <4>2. PICK i \in DOMAIN changes : changes[i].id = taken
        BY <4>1 DEF ToSet
      <4>3. copied \in DOMAIN changes /\ i <= copied /\ copied # 0
        BY <2>2, <2>3
      <4>4. taken <= changes[copied].id
        BY <4>2, <4>3 DEF Synced
      <4>5. changes[copied].id \in 1..taken /\ changes[copied].limit = updates[changes[copied].id].newCreditLimit
        BY <4>3 DEF Synced, ToSet
      <4>6. changes[copied].id = taken
        BY <2>2, <4>4, <4>5
      <4> QED
        BY <3>2, <4>3, <4>5, <4>6 DEF Synced
    <3> QED
      BY <3>1, <3>2
  <2>5. (copied + 1)..Len(changes) = {}
    BY <2>2, <2>3
  <2> QED
    BY <1>1, <2>1, <2>4, <2>5
<1> QED
  BY <1>2, <1>3 DEF PageSynced

\* Every step keeps the limits in line.
LEMMA SyncStep == ASSUME TypeInv, SyncInv, [Next]_vars PROVE SyncInv'
<1> SUFFICES ASSUME ~ strayed', faults' = {} PROVE Synced' /\ PageSynced'
  BY DEF SyncInv
<1> DEFINE sent == <<unpublished, changes, taken, updates, accountLimit, limit, copied>>
           kept == UNCHANGED <<strayed, faults>>
<1>1. ASSUME Synced, PageSynced, UNCHANGED sent, page' = page \/ page'.stage # "balance"
      PROVE  Synced' /\ PageSynced'
  BY <1>1 DEF Synced, PageSynced
<1> USE DEF SyncInv
<1>2. CASE \E n \in TypedLimits \cup ToSet(field) : ConfirmLimit(n) \/ ConfirmLimitFails(n)
  <2>1. PICK n : ConfirmLimit(n) \/ ConfirmLimitFails(n)
    BY <1>2
  <2>2. kept
    BY <2>1 DEF ConfirmLimit, ConfirmLimitFails, SubmitLimit
  <2> QED
    BY <2>1, <2>2, ConfirmSync
<1>3. CASE TakeUpdate
  <2>1. kept
    BY <1>3 DEF TakeUpdate
  <2> QED
    BY <1>3, <2>1, TakeSync
<1>4. CASE PublishFirst \/ PublishAgain
  <2>1. ~ strayed /\ UNCHANGED faults
    BY <1>4 DEF PublishFirst, PublishAgain, Elapsed
  <2> QED
    BY <1>4, <2>1, PublishSync
<1>5. CASE DiscardEvent
  <2>1. ~ strayed /\ UNCHANGED faults
    BY <1>5 DEF DiscardEvent, Elapsed
  <2> QED
    BY <1>5, <2>1, DiscardSync
<1>6. CASE CopyChange
  <2>1. kept
    BY <1>6 DEF CopyChange
  <2> QED
    BY <1>6, <2>1, CopySync
<1>7. CASE ReadAccount
  <2>1. kept
    BY <1>7 DEF ReadAccount, Unread
  <2> QED
    BY <1>7, <2>1, ReadSync
<1>8. CASE ReadTransactions \/ ReadBalance \/ PageFails
  <2>1. kept /\ UNCHANGED sent
    BY <1>8 DEF ReadTransactions, ReadBalance, PageFails, Unread, ledgerVars, accountVars, flowVars
  <2>2. page'.stage # "balance"
    BY <1>8, BlankTyped, ReadTransactionsPage DEF ReadBalance, PageFails
  <2> QED
    BY <1>1, <2>1, <2>2
<1>9. CASE \/ \E n \in PaymentAmounts : SubmitPayment(n)
           \/ OpenForm \/ OpenFormFails \/ \E n \in TypedLimits \cup ToSet(field) : RefuseLimit(n)
           \/ UNCHANGED vars
  <2>1. kept /\ UNCHANGED sent /\ page' = page
    BY <1>9 DEF SubmitPayment, OpenForm, OpenFormFails, Unsubmitted, RefuseLimit, vars, ledgerVars,
                accountVars, flowVars
  <2> QED
    BY <1>1, <2>1
<1>10. CASE \E p \in Purchases : PurchaseAnswered(p) \/ PurchaseUnanswered(p)
  <2>1. kept /\ UNCHANGED sent /\ page' = page
    BY <1>10 DEF PurchaseAnswered, PurchaseUnanswered, Submit, L!Authorize, L!Store,
                 ledgerVars, accountVars, flowVars
  <2> QED
    BY <1>1, <2>1
<1>11. CASE MakePayment \/ Elsewhere
  <2>1. kept /\ UNCHANGED sent /\ page' = page
    BY <1>11 DEF MakePayment, Elsewhere, L!ProcessPayment, L!Clear, L!Store, accountVars, flowVars
  <2> QED
    BY <1>1, <2>1
<1>12. CASE RestartAccounts \/ RestartTransactions
  <2>1. faults' # {}
    BY <1>12 DEF RestartAccounts, RestartTransactions, Fault
  <2> QED
    BY <2>1
<1> QED
  BY <1>2, <1>3, <1>4, <1>5, <1>6, <1>7, <1>8, <1>9, <1>10, <1>11, <1>12 DEF Next

\* The page's credit limit is the one its other amounts come from, though two
\* services gave them, unless a change was on its way, or the changes got lost
\* or out of order, or a service was restarted.
THEOREM PageAgreesHolds == Spec => []PageAgrees
<1>1. Init => SyncInv
  <2> SUFFICES ASSUME Init PROVE Synced /\ PageSynced
    BY DEF SyncInv
  <2>1. /\ accountLimit = [a \in Here |-> SeedLimit] /\ limit = [a \in Here |-> SeedLimit]
        /\ unpublished = {} /\ changes = << >> /\ taken = 0 /\ copied = 0 /\ page = Blank
    BY DEF Init, L!Init, A!Init
  <2>2. Len(<< >>) = 0 /\ << >> \in Seq(LimitChange)
    BY EmptySeq
  <2>3. DOMAIN changes = {}
    BY <2>1, <2>2, LenProperties
  <2>4. ToSet(changes) = {}
    BY <2>3 DEF ToSet
  <2>5. Synced
    BY <2>1, <2>3, <2>4, HereIsAccount DEF Synced
  <2>6. PageSynced
    BY <2>1, BlankTyped DEF PageSynced
  <2> QED
    BY <2>5, <2>6
<1>2. TypeInv /\ SyncInv /\ [Next]_vars => SyncInv'
  BY SyncStep
<1>3. TypeInv /\ SyncInv => PageAgrees
  <2> SUFFICES ASSUME TypeInv, SyncInv, Ready, ~ page.changing, ~ strayed, faults = {}
               PROVE  page.creditLimit = Wrap(Summary.available + Summary.balance + Summary.pending)
    BY DEF PageAgrees
  <2>1. page.creditLimit = limit[Account] /\ limit[Account] \in Amounts
    BY HereIsAccount DEF SyncInv, PageSynced, Ready, TypeInv, LimitsTyped
  <2>2. PICK c \in Int : c = limit[Account] /\ c \in ScalaInt
    BY <2>1, AmountsAreNats
  <2>3. TransactionBalance(events, Account) \in BalanceType
    BY BalanceTyped DEF TypeInv
  <2>4. PICK b \in Int, p \in Int : /\ b = TransactionBalance(events, Account).balance
                                    /\ p = TransactionBalance(events, Account).pending
    BY <2>3, ScalaIntIsInt DEF BalanceType
  <2>5. Summary.balance = b /\ Summary.pending = p /\ Summary.available = Wrap(c - b - p)
    BY <2>2, <2>4 DEF Summary, AccountSummary
  <2>6. Wrap(Wrap(c - b - p) + b + p) = Wrap(c)
    <3>1. PICK d \in Int : d = c - b - p
      OBVIOUS
    <3>2. PICK w \in Int : w = Wrap(d)
      BY <3>1, WrapOf, ScalaIntIsInt
    <3>3. b + p \in Int /\ w + b + p = w + (b + p) /\ d + (b + p) = c
      BY <3>1
    <3>4. Wrap(Wrap(d) + (b + p)) = Wrap(d + (b + p))
      BY <3>1, <3>3, WrapSums
    <3> QED
      BY <3>1, <3>2, <3>3, <3>4
  <2> QED
    BY <2>1, <2>2, <2>5, <2>6, WrapInRange
<1> QED
  BY <1>1, <1>2, <1>3, TypeInvHolds, PTL DEF Spec
=============================================================================
