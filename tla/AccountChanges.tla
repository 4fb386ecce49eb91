---------------------------- MODULE AccountChanges ----------------------------
(***************************************************************************)
(* What the accounts service promises: a credit limit never changes        *)
(* without an event about it, which is then to be published, and nothing   *)
(* is published but such events.  It does not promise that each event is   *)
(* published, nor in which order, nor that it is published once.           *)
(* AccountsOutbox.tla, the service as it runs, implements this module;     *)
(* WebApp.tla builds on it.                                                *)
(***************************************************************************)
EXTENDS Integers, SequencesExt

CONSTANTS
    Accounts,       \* the accounts the service knows
    SeedLimit,      \* their credit limits when it starts
    Updates,        \* the updates it may be sent
    EventIds        \* what the ids of events are drawn from

UpdateType == [account : STRING, newCreditLimit : Int]
EventType  == [id : EventIds, account : STRING, limit : Int]

VARIABLES
    limit,          \* the credit limit of each account
    unpublished,    \* the events that may yet be published
    changes         \* accountCreditLimitUpdated.v1

vars == <<limit, unpublished, changes>>

Init == limit = SeedLimit /\ unpublished = {} /\ changes = << >>

\* UpdateCreditLimit of a known account: the new limit, and its event.
Change(update, id) ==
    /\ update.account \in Accounts
    /\ \A e \in unpublished \cup ToSet(changes) : e.id # id
    /\ limit' = [limit EXCEPT ![update.account] = update.newCreditLimit]
    /\ unpublished' = unpublished \cup
           {[id |-> id, account |-> update.account, limit |-> update.newCreditLimit]}
    /\ UNCHANGED changes

\* A published event is still there until it is deleted.
Publish(e) ==
    /\ e \in unpublished
    /\ changes' = Append(changes, e)
    /\ UNCHANGED <<limit, unpublished>>

\* Events are deleted, published or not.
Discard(es) ==
    /\ es \subseteq unpublished
    /\ unpublished' = unpublished \ es
    /\ UNCHANGED <<limit, changes>>

\* The service starts again; what was to be published is forgotten.
Restart ==
    /\ limit' = SeedLimit
    /\ unpublished' = {}
    /\ UNCHANGED changes

Next ==
    \/ \E update \in Updates, id \in EventIds : Change(update, id)
    \/ \E e \in unpublished : Publish(e)
    \/ \E es \in SUBSET unpublished : Discard(es)
    \/ Restart

Spec == Init /\ [][Next]_vars
=============================================================================
