------------------------- MODULE TransactionAggregate -------------------------
(***************************************************************************)
(* The pure domain logic of the transactions service: what an event is,    *)
(* what the balance projection computes from an account's events, and      *)
(* which event (if any) a command produces when it is executed on them.    *)
(*                                                                         *)
(* "events" is always the whole event buffer, of every account; a command  *)
(* looks only at the events of its own account, as TransactionStoreInMemory*)
(* .get does.  Card numbers, timestamps, rule versions and decline reasons *)
(* are left out: no decision depends on them.  A request's country and     *)
(* merchant are one flag, "allowed".                                       *)
(***************************************************************************)
EXTENDS Integers, SequencesExt

CONSTANT
    IntHalf     \* half the range of Scala's Int: 2^31, scaled down for TLC

ASSUME IntHalfAssumption == IntHalf \in Nat \ {0}

ScalaInt == -IntHalf..(IntHalf - 1)

\* Two's complement arithmetic on Int: every sum the code computes wraps.
Wrap(n) == ((n + IntHalf) % (2 * IntHalf)) - IntHalf

-----------------------------------------------------------------------------
(* Events, and the commands that produce them.                             *)

EventTypes == {"decisioned", "cleared", "paymentApplied", "paymentReturned"}
Outcomes   == {"approved", "declined", "CLEAN", "BAD", "none"}

\* A decision, a settlement code; the events of payments have neither.
OutcomesOf == [decisioned     |-> {"approved", "declined"}, cleared         |-> {"CLEAN", "BAD"},
               paymentApplied |-> {"none"},                 paymentReturned |-> {"none"}]

EventType == {e \in [type : EventTypes, account : STRING, ref : STRING, amount : Int,
                     outcome : Outcomes] : e.outcome \in OutcomesOf[e.type]}

Event(type, account, ref, amount, outcome) ==
    [type |-> type, account |-> account, ref |-> ref, amount |-> amount, outcome |-> outcome]

Kinds == {"authorize", "clear", "submitted", "returned", "limitUpdated"}

\* "limit" is the credit limit an authorization is decided against; for the
\* other kinds, as "allowed", it says nothing.
CommandType == [kind : Kinds, account : STRING, ref : STRING, amount : Int,
                allowed : BOOLEAN, limit : Int]

\* The type of the event that a command of each kind may produce.
TypeFor == [authorize |-> "decisioned",     clear    |-> "cleared",
            submitted |-> "paymentApplied", returned |-> "paymentReturned"]

\* An event of this account and type about this transaction or payment is
\* stored: the .exists(...) checks of TransactionAggregate.
Recorded(events, account, type, ref) ==
    \E i \in DOMAIN events : /\ events[i].account = account
                             /\ events[i].type = type
                             /\ events[i].ref = ref

\* Some event of the account is stored.
HasEvents(events, account) == \E i \in DOMAIN events : events[i].account = account

-----------------------------------------------------------------------------
(* TransactionBalanceProjection: a left fold over the account's events.    *)

NoBalance == [balance |-> 0, pending |-> 0]

\* A fault: what is cleared stays pending.
ApplyEventKeepsPending(state, e) ==
    CASE e.outcome = "approved"       -> [state EXCEPT !.pending = Wrap(@ + e.amount)]
      [] e.outcome = "CLEAN"          -> [state EXCEPT !.balance = Wrap(@ + e.amount)]
      [] e.type = "paymentApplied"    -> [state EXCEPT !.balance = Wrap(@ - e.amount)]
      [] e.type = "paymentReturned"   -> [state EXCEPT !.balance = Wrap(@ + e.amount)]
      [] OTHER                        -> state

ApplyEvent(state, e) ==
    CASE e.outcome = "approved"       -> [state EXCEPT !.pending = Wrap(@ + e.amount)]
      [] e.outcome = "CLEAN"          -> [balance |-> Wrap(state.balance + e.amount),
                                          pending |-> Wrap(state.pending - e.amount)]
      [] e.type = "paymentApplied"    -> [state EXCEPT !.balance = Wrap(@ - e.amount)]
      [] e.type = "paymentReturned"   -> [state EXCEPT !.balance = Wrap(@ + e.amount)]
      [] OTHER                        -> state

TransactionBalance(events, account) ==
    LET ApplyOwn(state, e) == IF e.account = account THEN ApplyEvent(state, e) ELSE state
    IN  FoldLeft(ApplyOwn, NoBalance, events)

-----------------------------------------------------------------------------
(* Rule1.run: the over-limit check comes first, then country and merchant; *)
(* the order does not change the decision.                                 *)

\* A fault: what is authorised but not cleared does not count.
RequestedBalanceIgnoresPending(request, state) == Wrap(request.amount + state.balance)

RequestedBalance(request, state) ==
    Wrap(Wrap(request.amount + state.balance) + state.pending)

Decision(request, state) ==
    IF request.allowed /\ RequestedBalance(request, state) <= request.limit
    THEN "approved" ELSE "declined"

\* clearing.clearTransaction: the ids agree already when it is called.
SettlementCode(authedTransaction, item) ==
    IF authedTransaction.amount = item.amount THEN "CLEAN" ELSE "BAD"

\* The head of the decisions with this id: the one that clearing looks at.
AuthedTransaction(events, item) ==
    LET IsDecision(e) == /\ e.account = item.account
                         /\ e.type = "decisioned"
                         /\ e.ref = item.ref
    IN  events[SelectInSeq(events, IsDecision)]

-----------------------------------------------------------------------------
(* The command handlers of TransactionAggregate.  Accepts is the condition *)
(* under which the handler returns Right, ResultOf the event it then holds.*)

\* A fault: commands are not deduplicated.
AcceptsRepeats(command, events) ==
    /\ command.kind = "authorize" => HasEvents(events, command.account)
    /\ command.kind = "clear" => Recorded(events, command.account, "decisioned", command.ref)

Accepts(command, events) ==
    /\ ~ Recorded(events, command.account, TypeFor[command.kind], command.ref)
    /\ command.kind = "authorize" => HasEvents(events, command.account)
    /\ command.kind = "clear" => Recorded(events, command.account, "decisioned", command.ref)

ProcessAuthorization(request, events) ==
    Event("decisioned", request.account, request.ref, request.amount,
          Decision(request, TransactionBalance(events, request.account)))

\* A fault: the clearing item's amount is settled, not the authorised one.
ClearTransactionForItem(item, events) ==
    LET authed == AuthedTransaction(events, item)
    IN  Event("cleared", item.account, item.ref, item.amount, SettlementCode(authed, item))

ClearTransaction(item, events) ==
    LET authed == AuthedTransaction(events, item)
    IN  Event("cleared", item.account, item.ref, authed.amount, SettlementCode(authed, item))

ApplyPayment(payment, events) ==
    Event("paymentApplied", payment.account, payment.ref, payment.amount, "none")

ApplyReturnedPayment(payment, events) ==
    Event("paymentReturned", payment.account, payment.ref, payment.amount, "none")

ResultOf(command, events) ==
    CASE command.kind = "authorize" -> ProcessAuthorization(command, events)
      [] command.kind = "clear"     -> ClearTransaction(command, events)
      [] command.kind = "submitted" -> ApplyPayment(command, events)
      [] command.kind = "returned"  -> ApplyReturnedPayment(command, events)
=============================================================================
