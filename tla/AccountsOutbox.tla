---------------------------- MODULE AccountsOutbox ----------------------------
(***************************************************************************)
(* The accounts service: the loop that consumes updateCreditLimit.v1 saves *)
(* the new limit and puts an event about it in the outbox, and the outbox  *)
(* poller, a second thread, publishes what it finds there to the topic     *)
(* accountCreditLimitUpdated.v1, which has one partition.                  *)
(*                                                                         *)
(* The threads share the outbox, a ListBuffer, without a lock.  An append  *)
(* or a removal takes effect when it ends.  A read that overlaps an append *)
(* may fail, as in Transactions; an append and a removal that overlap tear *)
(* the buffer: its pointers and its length disagree from then on.          *)
(***************************************************************************)
EXTENDS Integers, SequencesExt

CONSTANTS
    Accounts,       \* the accounts local.scala puts in the store
    SeedLimit,      \* their credit limits
    Updates,        \* the records of updateCreditLimit.v1
    Limit,          \* how many published events make a full batch (100)
    MaxTopic,       \* bound: no removal fails once so many events are published
    MaxSaves,       \* bound: the offset is not lost once so many events were saved
    MaxCrashes      \* bound: restarts of the service

UpdateType == [account : STRING, newCreditLimit : Int]
EventType  == [id : Nat, account : STRING, limit : Int]

ASSUME AccountsAssumption == Accounts \subseteq STRING /\ SeedLimit \in [Accounts -> Int]
ASSUME UpdatesAssumption  == Updates \in Seq(UpdateType)
ASSUME NumbersAssumption  == Limit \in Nat \ {0} /\ MaxTopic \in Nat /\ MaxSaves \in Nat /\ MaxCrashes \in Nat

VARIABLES
    consumer,       \* what the consumer loop does next
    record,         \* the update it has in hand: a sequence of one, or empty
    limit,          \* the credit limit of each account
    present,        \* the accounts that AccountStoreInMemory.data holds
    outbox,         \* AccountStoreInMemory.outbox, oldest first
    torn,           \* an append to the outbox and a removal overlapped
    poller,         \* what the poller does next
    batch,          \* the events the poller found, in the order it publishes
    at,             \* which of them it has in hand
    due,            \* lastCheckTimestamp lies more than wakeUpInterval back
    offset,         \* the committed offset of the consumer
    topic,          \* accountCreditLimitUpdated.v1
    saves,          \* history: the events put in the outbox since the start
    failed,         \* history: events whose publish returned an error
    kept,           \* history: events whose deletion failed
    piled,          \* history: a check found two events
    crashes         \* counter for a bound

consumerVars == <<consumer, record>>
accountVars  == <<limit, present>>
pollerVars   == <<poller, batch, at>>
historyVars  == <<failed, kept, piled>>
vars == <<consumerVars, accountVars, outbox, torn, pollerVars, due, offset, topic, saves,
          historyVars, crashes>>

Init ==
    /\ consumer = "idle" /\ record = << >>
    /\ limit = SeedLimit /\ present = Accounts
    /\ outbox = << >> /\ torn = FALSE
    /\ poller = "asleep" /\ batch = << >> /\ at = 1 /\ due = TRUE
    /\ offset = 0 /\ topic = << >>
    /\ saves = << >> /\ failed = {} /\ kept = {} /\ piled = FALSE
    /\ crashes = 0

-----------------------------------------------------------------------------
(* The consumer loop: UpdateCreditLimit and AccountStoreInMemory.           *)

\* KafkaEventListener.take commits the offset before the record is processed.
Take ==
    /\ consumer = "idle"
    /\ offset < Len(Updates)
    /\ offset' = offset + 1
    /\ record' = << Updates[offset + 1] >>
    /\ consumer' = "remove"
    /\ UNCHANGED <<accountVars, outbox, torn, pollerVars, due, topic, saves, historyVars, crashes>>

\* poll or commitSync throws, and nothing in the loop catches it; the commit may
\* have taken effect.
TakeFails ==
    /\ consumer = "idle"
    /\ consumer' = "dead"
    /\ offset' \in {offset, offset + 1} \cap 0..Len(Updates)
    /\ UNCHANGED <<record, accountVars, outbox, torn, pollerVars, due, topic, saves, historyVars,
                   crashes>>

Update == Head(record)

\* A fault: an account that is not found is created.
RemoveAnyAccount ==
    /\ consumer = "remove"
    /\ present' = present \ {Update.account}
    /\ consumer' = "restore"
    /\ UNCHANGED <<record, limit, outbox, torn, pollerVars, due, offset, topic, saves, historyVars, crashes>>

\* The account is found, and saveOrUpdate filters it out of data; an account
\* that is not found is left alone.
RemoveAccount ==
    /\ consumer = "remove"
    /\ IF Update.account \in present
         THEN /\ present' = present \ {Update.account}
              /\ consumer' = "restore"
              /\ UNCHANGED record
         ELSE /\ consumer' = "idle"
              /\ record' = << >>
              /\ UNCHANGED present
    /\ UNCHANGED <<limit, outbox, torn, pollerVars, due, offset, topic, saves, historyVars, crashes>>

\* A fault: the entity is put back as it was read.
RestoreAccountUnchanged ==
    /\ consumer = "restore"
    /\ present' = present \cup {Update.account}
    /\ consumer' = "append"
    /\ UNCHANGED <<record, limit, outbox, torn, pollerVars, due, offset, topic, saves,
                   historyVars, crashes>>

RestoreAccount ==
    /\ consumer = "restore"
    /\ present' = present \cup {Update.account}
    /\ limit' = [limit EXCEPT ![Update.account] = Update.newCreditLimit]
    /\ consumer' = "append"
    /\ UNCHANGED <<record, outbox, torn, pollerVars, due, offset, topic, saves, historyVars, crashes>>

BeginAppend ==
    /\ consumer = "append"
    /\ torn' = (torn \/ poller = "removing")
    /\ consumer' = "appending"
    /\ UNCHANGED <<record, accountVars, outbox, pollerVars, due, offset, topic, saves,
                   historyVars, crashes>>

\* t holds events of s, in the order of s.
Keeps(t, s) ==
    \A i, j \in DOMAIN t : i < j => \E k, l \in DOMAIN s : k < l /\ s[k] = t[i] /\ s[l] = t[j]

\* What may be left of the buffer when s should be: all of it, unless it is
\* torn; then any of its events may be cut off.
Remains(s) == IF torn THEN {t \in SeqOf(ToSet(s), Len(s)) : Keeps(t, s)} ELSE {s}

\* saveToOutbox returns.
EndAppend ==
    LET event == [id |-> Len(saves) + 1, account |-> Update.account,
                  limit |-> Update.newCreditLimit]
    IN  /\ consumer = "appending"
        /\ outbox' \in Remains(Append(outbox, event))
        /\ saves' = Append(saves, event)
        /\ consumer' = "poke"
        /\ UNCHANGED <<record, accountVars, torn, pollerVars, due, offset, topic, historyVars, crashes>>

\* poke sets lastCheckTimestamp to 0; the poller may overwrite it.
Poke ==
    /\ consumer = "poke"
    /\ due' = TRUE
    /\ consumer' = "idle"
    /\ record' = << >>
    /\ UNCHANGED <<accountVars, outbox, torn, pollerVars, offset, topic, saves, historyVars, crashes>>

-----------------------------------------------------------------------------
(* The poller: OutboxPollerBlockingImpl.run.                                *)

InHand == batch[at]

\* getOutboxEvents returns the newest event first.
Check ==
    /\ poller = "asleep" /\ due
    /\ batch' \in {Reverse(s) : s \in Remains(outbox)}
    /\ at' = 1
    /\ poller' = "publish"
    /\ piled' = (piled \/ Len(batch') > 1)
    /\ UNCHANGED <<consumerVars, accountVars, outbox, torn, due, offset, topic, saves,
                   failed, kept, crashes>>

\* getOutboxEvents throws inside its Try: an append overlaps it, or the buffer
\* is torn.  The poller tries again.
CheckFails ==
    /\ poller = "asleep" /\ due
    /\ consumer = "appending" \/ torn
    /\ UNCHANGED vars

Publish ==
    /\ poller = "publish" /\ at <= Len(batch)
    /\ topic' = Append(topic, InHand)
    /\ poller' = "remove"
    /\ UNCHANGED <<consumerVars, accountVars, outbox, torn, batch, at, due, offset, saves,
                   historyVars, crashes>>

\* The send fails, or its answer is lost; either way run ignores the result.
PublishFails ==
    /\ poller = "publish" /\ at <= Len(batch)
    /\ topic' \in {topic, Append(topic, InHand)}
    /\ failed' = failed \cup {InHand}
    /\ poller' = "remove"
    /\ UNCHANGED <<consumerVars, accountVars, outbox, torn, batch, at, due, offset, saves,
                   kept, piled, crashes>>

\* deleteOutboxEvent finds the event and remove begins.
BeginRemove ==
    /\ poller = "remove"
    /\ InHand \in ToSet(outbox)
    /\ torn' = (torn \/ consumer = "appending")
    /\ poller' = "removing"
    /\ UNCHANGED <<consumerVars, accountVars, outbox, batch, at, due, offset, topic, saves,
                   historyVars, crashes>>

\* deleteOutboxEvent throws inside its Try, and run ignores the result: an
\* append overlaps indexOf, the buffer is torn, or the event is not there.
RemoveFails ==
    /\ poller = "remove"
    /\ consumer = "appending" \/ torn \/ InHand \notin ToSet(outbox)
    /\ Len(topic) < MaxTopic \/ InHand \notin ToSet(outbox)
    /\ kept' = kept \cup {InHand}
    /\ at' = at + 1
    /\ poller' = "publish"
    /\ UNCHANGED <<consumerVars, accountVars, outbox, torn, batch, due, offset, topic, saves,
                   failed, piled, crashes>>

\* A fault: the newest event is removed, whichever was published.
EndRemoveNewest ==
    /\ poller = "removing"
    /\ outbox' = SubSeq(outbox, 1, Len(outbox) - 1)
    /\ at' = at + 1
    /\ poller' = "publish"
    /\ UNCHANGED <<consumerVars, accountVars, torn, batch, due, offset, topic, saves,
                   historyVars, crashes>>

\* remove(indexOf(InHand)), unless the buffer is torn and it is no longer there.
Removed ==
    IF InHand \in ToSet(outbox)
      THEN {RemoveAt(outbox, i) : i \in {j \in DOMAIN outbox : outbox[j] = InHand}}
      ELSE {outbox}

EndRemove ==
    /\ poller = "removing"
    /\ \E s \in Removed : outbox' \in Remains(s)
    /\ at' = at + 1
    /\ poller' = "publish"
    /\ UNCHANGED <<consumerVars, accountVars, torn, batch, due, offset, topic, saves,
                   historyVars, crashes>>

\* The whole batch was gone through: lastCheckTimestamp becomes the time now,
\* or 0 when the batch was a full one.
Rest ==
    /\ poller = "publish" /\ at > Len(batch)
    /\ due' = (Len(batch) = Limit)
    /\ poller' = "asleep" /\ batch' = << >> /\ at' = 1
    /\ UNCHANGED <<consumerVars, accountVars, outbox, torn, offset, topic, saves,
                   historyVars, crashes>>

\* A fault: the poller waits to be poked.
WakeUpOnlyWhenPoked == due /\ UNCHANGED vars

\* A minute passes.
WakeUp ==
    /\ ~ due
    /\ due' = TRUE
    /\ UNCHANGED <<consumerVars, accountVars, outbox, torn, pollerVars, offset, topic, saves,
                   historyVars, crashes>>

-----------------------------------------------------------------------------
(* Faults of the broker and of the service.                                 *)

\* The broker no longer has the group's offset: it starts at the "earliest".
ResetOffset ==
    /\ consumer = "idle"
    /\ offset > 0
    /\ Len(saves) < MaxSaves
    /\ offset' = 0
    /\ UNCHANGED <<consumerVars, accountVars, outbox, torn, pollerVars, due, topic, saves,
                   historyVars, crashes>>

\* Memory is as local.scala makes it; the topics and the offset stay.
Restart ==
    /\ crashes < MaxCrashes
    /\ crashes' = crashes + 1
    /\ consumer' = "idle" /\ record' = << >>
    /\ limit' = SeedLimit /\ present' = Accounts
    /\ outbox' = << >> /\ torn' = FALSE
    /\ poller' = "asleep" /\ batch' = << >> /\ at' = 1 /\ due' = TRUE
    /\ UNCHANGED <<offset, topic, saves, historyVars>>

-----------------------------------------------------------------------------

Process == RemoveAccount \/ RestoreAccount \/ BeginAppend \/ EndAppend \/ Poke

Poll == \/ Check \/ CheckFails \/ Publish \/ PublishFails
        \/ BeginRemove \/ RemoveFails \/ EndRemove \/ Rest

Next == Take \/ TakeFails \/ Process \/ Poll \/ WakeUp \/ ResetOffset \/ Restart

Spec == Init /\ [][Next]_vars

\* Both threads are run, sends are answered or time out, and time passes.
Fairness == WF_vars(Take) /\ WF_vars(Process) /\ WF_vars(Poll) /\ WF_vars(WakeUp)

FairSpec == Spec /\ Fairness

-----------------------------------------------------------------------------
(* Properties                                                              *)

TypeOK ==
    /\ consumer \in {"idle", "remove", "restore", "append", "appending", "poke", "dead"}
    /\ record \in Seq(UpdateType) /\ (record = << >> <=> consumer \in {"idle", "dead"})
    /\ limit \in [Accounts -> Int] /\ present \subseteq Accounts
    /\ outbox \in Seq(EventType) /\ torn \in BOOLEAN
    /\ poller \in {"asleep", "publish", "remove", "removing"}
    /\ batch \in Seq(EventType) /\ at \in 1..(Len(batch) + 1) /\ due \in BOOLEAN
    /\ offset \in 0..Len(Updates) /\ topic \in Seq(EventType)
    /\ saves \in Seq(EventType)
    /\ failed \subseteq EventType /\ kept \subseteq EventType /\ piled \in BOOLEAN
    /\ crashes \in Nat

Undisturbed == ~ torn /\ crashes = 0

\* Every event that was put in the outbox is still there, or on the topic, or
\* its send failed: deleting goes by the event and not by its place, while new
\* ones are appended.
EventsAccounted ==
    Undisturbed => ToSet(saves) \subseteq ToSet(outbox) \cup ToSet(topic) \cup failed

\* An event is published again only if it could not be deleted, whatever else
\* went wrong: not because its batch was read before an earlier deletion.
RepublishedIfKept ==
    \A i, j \in DOMAIN topic : (i < j /\ topic[i] = topic[j]) => topic[i] \in kept

Quiet == consumer \in {"idle", "dead"} /\ poller = "asleep" /\ outbox = << >>

\* The last event about an account on the topic.
LastOfAccount(i) == \A j \in DOMAIN topic : topic[j].account = topic[i].account => j <= i

\* When all is done the topic ends with the limit in force, whatever readers
\* of the topic made of the earlier ones, provided no check found two events:
\* those it publishes in the wrong order.
TopicEndsWithLimit ==
    (Undisturbed /\ Quiet /\ failed = {} /\ ~ piled) =>
        \A i \in DOMAIN topic : LastOfAccount(i) => topic[i].limit = limit[topic[i].account]

\* Every event that was put in the outbox is sent in the end, also when the
\* poke for it is overwritten by the poller's going to rest.
OutboxDrained ==
    \A n \in 1..(Len(Updates) + MaxSaves) :
        Len(saves) >= n ~> (\/ ~ Undisturbed
                           \/ \E e \in ToSet(topic) \cup failed : e.id = n)

-----------------------------------------------------------------------------
(* The service implements AccountChanges: the two halves of a save, the    *)
(* append to the outbox that follows, and where in its batch the poller is *)
(* are not visible.                                                        *)

\* The event that RestoreAccount asks for and EndAppend puts in the outbox.
Coming == IF consumer \in {"append", "appending"}
            THEN {[id |-> Len(saves) + 1, account |-> Update.account,
                   limit |-> Update.newCreditLimit]}
            ELSE {}

\* What the poller has yet to publish or to delete.
Batched == {batch[i] : i \in at..Len(batch)}

Abstract == INSTANCE AccountChanges WITH
    Updates     <- ToSet(Updates),
    EventIds    <- 1..(Len(Updates) + MaxSaves),
    unpublished <- Coming \cup ToSet(outbox) \cup Batched,
    changes     <- topic

\* Whatever fails, overlaps or is lost, and through restarts: each changed
\* limit comes with its event, and what is published is one of those events.
ImplementsAccountChanges == Abstract!Spec

-----------------------------------------------------------------------------
(* What the documentation says, and the code does not keep.                *)

\* "change to credit limit will result in publishing state change event"
\* (README.md): when all is done, every saved change is on the topic.
ChangesArePublished == (Undisturbed /\ Quiet) => ToSet(saves) \subseteq ToSet(topic)

\* "listens to account change events to maintain local state of accounts"
\* (README.md): a copy maintained from the topic has the account's limit when
\* all is done and no send failed.
CopyHasLimit ==
    (Undisturbed /\ Quiet /\ failed = {}) =>
        \A i \in DOMAIN topic : LastOfAccount(i) => topic[i].limit = limit[topic[i].account]
=============================================================================
