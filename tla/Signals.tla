------------------------------ MODULE Signals ------------------------------
(***************************************************************************)
(* Signal reception: POST /v1/signals turns a signal into a work item, or  *)
(* links it to the live item of its dedupe key, under an hourly budget for *)
(* each reporting token (signals.Service.Receive).                         *)
(*                                                                         *)
(* A signal is named by its idempotency identity, from which the ids of    *)
(* its row and of the item it may create are derived: a retry of the       *)
(* request, once the cached response is gone, runs Receive again under the *)
(* same ids.  A receiver reads the budget on one connection of the pool    *)
(* and then holds another for its transaction, while it waits for the      *)
(* advisory lock of the dedupe key too.                                    *)
(***************************************************************************)
EXTENDS Integers, FiniteSets, FiniteSetsExt

CONSTANTS
    Receivers,      \* concurrent handlers of POST /v1/signals
    Signals,        \* idempotency identities of the signals
    Keys,           \* dedupe keys
    NoKey,          \* the dedupe key of a signal without one
    KeyOf,          \* the dedupe key of each signal
    Tokens,         \* reporting tokens
    TokenOf,        \* the token of each signal
    Profiles,       \* policy profiles
    Budget,         \* MaxSignalItemsPerTokenPerHour of each profile
    PoolSize,       \* connections of the pool
    NoItem,         \* the work item of a refused signal
    Nobody,         \* the holder of a lock that is free
    MaxRetries,     \* bound: received signals that are sent again
    MaxHours,       \* bound: hours that pass
    MaxReopened     \* bound: terminal items that a late escalation reopens

ASSUME SignalsAssumption ==
    /\ KeyOf \in [Signals -> Keys \union {NoKey}] /\ NoKey \notin Keys
    /\ TokenOf \in [Signals -> Tokens]
    /\ Budget \in [Profiles -> Nat \ {0}] /\ IsFiniteSet(Profiles)
    /\ PoolSize \in Nat \ {0} /\ IsFiniteSet(Receivers)
    /\ MaxRetries \in Nat /\ MaxHours \in Nat
    /\ NoItem \notin Signals /\ Nobody \notin Receivers

VARIABLES
    row,        \* table signals: what the row of each signal says
    log,        \* signal.received: what the events of each signal say
    item,       \* state of the work item each signal's identity may create
    recent,     \* signals received within the last hour
    hour,       \* clock hour: the bucket of an escalation
    escalations,\* escalation.requested: token and hour
    profile,    \* active_policy_profile
    free,       \* free connections
    holder,     \* the receiver that holds the advisory lock of each key
    receiver,   \* what each receiver is doing
    retries,    \* received signals that were sent again
    reopened    \* history: items a late escalation reopened

durable == <<row, log, item, recent, escalations>>
clock == <<hour, profile>>
vars == <<row, log, item, recent, hour, escalations, profile, free, holder, receiver, retries, reopened>>

Payload == [item : Signals \union {NoItem}, created : BOOLEAN]
NoRow == [item |-> NoItem, created |-> FALSE]
Received(s) == log[s] # {}
Phase == {"idle", "budget", "begin", "lock", "resolve", "commit"}
Idle == [phase |-> "idle", signal |-> NoItem, max |-> 0, linked |-> NoItem, admitted |-> FALSE]

Receiver == [phase : Phase, signal : Signals \union {NoItem}, max : Nat,
             linked : Signals \union {NoItem}, admitted : BOOLEAN]

TypeOK ==
    /\ row \in [Signals -> Payload]
    /\ log \in [Signals -> SUBSET Payload]
    /\ item \in [Signals -> {"absent", "live", "terminal"}]
    /\ recent \subseteq Signals
    /\ hour \in 0..MaxHours
    /\ escalations \subseteq Tokens \X (0..MaxHours)
    /\ profile \in Profiles
    /\ free \in 0..PoolSize
    /\ holder \in [Keys -> Receivers \union {Nobody}]
    /\ receiver \in [Receivers -> Receiver]
    /\ retries \in 0..MaxRetries
    /\ reopened \subseteq Signals

Init ==
    /\ row = [s \in Signals |-> NoRow]
    /\ log = [s \in Signals |-> {}]
    /\ item = [s \in Signals |-> "absent"]
    /\ recent = {}
    /\ hour = 0
    /\ escalations = {}
    /\ profile \in Profiles
    /\ free = PoolSize
    /\ holder = [k \in Keys |-> Nobody]
    /\ receiver = [r \in Receivers |-> Idle]
    /\ retries = 0
    /\ reopened = {}

At(r, phase) == receiver[r].phase = phase
Go(r, phase) == receiver' = [receiver EXCEPT ![r].phase = phase]

\* Mutant of Ready: the budget is read under the lock, on a second connection.
ReadyNested(r) ==
    /\ ~At(r, "idle")
    /\ receiver[r].phase \in {"budget", "begin", "resolve"} => free > 0
    /\ At(r, "lock") => \A k \in Keys \intersect {KeyOf[receiver[r].signal]} : holder[k] = Nobody

\* What a receiver waits for: a connection of the pool to read the budget and to begin,
\* then the lock of its key, if it has one.
Ready(r) ==
    /\ ~At(r, "idle")
    /\ receiver[r].phase \in {"budget", "begin"} => free > 0
    /\ At(r, "lock") => \A k \in Keys \intersect {KeyOf[receiver[r].signal]} : holder[k] = Nobody

-----------------------------------------------------------------------------
(* Receive                                                                 *)

\* handleReceiveSignal with a request that is well formed; the idempotency
\* middleware lets one request of an identity through at a time.
Arrive(r, s) ==
    /\ At(r, "idle")
    /\ Received(s) => retries < MaxRetries
    /\ \A other \in Receivers : At(other, "idle") \/ receiver[other].signal # s
    /\ retries' = IF Received(s) THEN retries + 1 ELSE retries
    /\ receiver' = [receiver EXCEPT ![r] = [Idle EXCEPT !.phase = "budget", !.signal = s]]
    /\ UNCHANGED <<durable, clock, free, holder, reopened>>

\* signalItemBudget: the active profile is read on a connection that is given
\* back before the transaction begins.
signalItemBudget(r) ==
    /\ At(r, "budget") /\ Ready(r)
    /\ receiver' = [receiver EXCEPT ![r].phase = "begin", ![r].max = Budget[profile]]
    /\ UNCHANGED <<durable, clock, free, holder, retries, reopened>>

Begin(r) ==
    /\ At(r, "begin") /\ Ready(r)
    /\ free' = free - 1
    /\ Go(r, "lock")
    /\ UNCHANGED <<durable, clock, holder, retries, reopened>>

\* Mutant of lockDedupeKey: no lock.
lockNothing(r) ==
    /\ At(r, "lock")
    /\ Go(r, "resolve")
    /\ UNCHANGED <<durable, clock, free, holder, retries, reopened>>

\* lockDedupeKey: pg_advisory_xact_lock, held to the end of the transaction.
lockDedupeKey(r) ==
    LET k == KeyOf[receiver[r].signal]
    IN  /\ At(r, "lock") /\ Ready(r)
        /\ \/ k = NoKey /\ UNCHANGED holder
           \/ k # NoKey /\ holder' = [holder EXCEPT ![k] = r]
        /\ Go(r, "resolve")
        /\ UNCHANGED <<durable, clock, free, retries, reopened>>

\* lookupLiveWorkItem: the live items that signals with this key are linked to.
\* The code takes that of the newest signal by received_at, the start of its
\* transaction; there is more than one only after a reopening, and then any may
\* be the newest.
LiveItems(k) ==
    {row[s].item : s \in {t \in Signals : /\ k # NoKey /\ KeyOf[t] = k
                                          /\ row[t].item # NoItem
                                          /\ item[row[t].item] = "live"}}

\* countCreatingSignalsLastHour
Created(t) == {s \in recent : TokenOf[s] = t /\ row[s].created}

\* Mutant of admitItemCreation: off by one.
admitOneMore(createdThisHour, max) == createdThisHour <= max

admitItemCreation(createdThisHour, max) == createdThisHour < max

\* The reads of the transaction: the live item to link to, or, without one,
\* whether a new item is within the budget.
Resolve(r) ==
    LET s == receiver[r].signal
        live == LiveItems(KeyOf[s])
        count == Cardinality(Created(TokenOf[s]))
    IN  /\ At(r, "resolve") /\ Ready(r)
        /\ \/ \E i \in live :
                receiver' = [receiver EXCEPT ![r].phase = "commit", ![r].linked = i,
                                             ![r].admitted = TRUE]
           \/ /\ live = {}
              /\ receiver' = [receiver EXCEPT ![r].phase = "commit",
                                ![r].admitted = admitItemCreation(count, receiver[r].max)]
        /\ UNCHANGED <<durable, clock, free, holder, retries, reopened>>

\* The end of a transaction: its connection and its lock are given back.
EndTx(r) ==
    /\ free' = free + 1
    /\ holder' = [k \in Keys |-> IF holder[k] = r THEN Nobody ELSE holder[k]]
    /\ receiver' = [receiver EXCEPT ![r] = Idle]

\* signal.received and its projector: the row of the signal, over the one an
\* earlier run left, with a new received_at.  An event that is on record is not
\* appended again, and the row stays.
Record(s, target, created) ==
    LET event == [item |-> target, created |-> created]
    IN  IF event \in log[s]
        THEN UNCHANGED <<row, log, recent>>
        ELSE /\ log' = [log EXCEPT ![s] = @ \union {event}]
             /\ row' = [row EXCEPT ![s] = event]
             /\ recent' = recent \union {s}

\* raiseSignalBudgetEscalation: one for the token and the hour.
Escalate(t) == escalations' = escalations \union {<<t, hour>>}

\* work_item.created, which collapses on that of an earlier run.
CreateItem(s) == item' = [item EXCEPT ![s] = IF @ = "absent" THEN "live" ELSE @]

\* The appends of the transaction, and its commit.
Link(r) ==
    /\ At(r, "commit") /\ receiver[r].linked # NoItem
    /\ Record(receiver[r].signal, receiver[r].linked, FALSE)
    /\ EndTx(r)
    /\ UNCHANGED <<item, escalations, clock, retries, reopened>>

Create(r) ==
    LET s == receiver[r].signal
    IN  /\ At(r, "commit") /\ receiver[r].linked = NoItem /\ receiver[r].admitted
        /\ CreateItem(s)
        /\ Record(s, s, TRUE)
        /\ EndTx(r)
        /\ UNCHANGED <<escalations, clock, retries, reopened>>

Refuse(r) ==
    LET s == receiver[r].signal
    IN  /\ At(r, "commit") /\ receiver[r].linked = NoItem /\ ~receiver[r].admitted
        /\ Record(s, NoItem, FALSE)
        /\ Escalate(TokenOf[s])
        /\ EndTx(r)
        /\ UNCHANGED <<item, clock, retries, reopened>>

\* The request is cut off, or the server stops, before the commit.
Abort(r) ==
    /\ receiver[r].phase \in {"lock", "resolve", "commit"}
    /\ EndTx(r)
    /\ UNCHANGED <<durable, clock, retries, reopened>>

-----------------------------------------------------------------------------
(* Around the receivers                                                    *)

\* The item ends, by a transition of its owner or of the worker.  (The state of
\* an item without a dedupe key is never looked up: it stays live here.)
Finish(i) ==
    /\ item[i] = "live" /\ KeyOf[i] # NoKey
    /\ item' = [item EXCEPT ![i] = "terminal"]
    /\ UNCHANGED <<row, log, recent, escalations, clock, free, holder, receiver, retries, reopened>>

\* A breach that was observed before the item ended is escalated after it.
Reopen(i) ==
    /\ item[i] = "terminal" /\ Cardinality(reopened) < MaxReopened
    /\ item' = [item EXCEPT ![i] = "live"]
    /\ reopened' = reopened \union {i}
    /\ UNCHANGED <<row, log, recent, escalations, clock, free, holder, receiver, retries>>

\* A clock hour passes: signals received early in it leave the trailing hour.
HourPasses(old) ==
    /\ hour < MaxHours
    /\ hour' = hour + 1
    /\ recent' = recent \ old
    /\ UNCHANGED <<row, log, item, escalations, profile, free, holder, receiver, retries, reopened>>

\* policyprofile.Switch; to the active profile it is a no-op.
Switch(p) ==
    /\ p # profile
    /\ profile' = p
    /\ UNCHANGED <<durable, hour, free, holder, receiver, retries, reopened>>

-----------------------------------------------------------------------------
Step(r) ==
    \/ signalItemBudget(r) \/ Begin(r) \/ lockDedupeKey(r) \/ Resolve(r)
    \/ Link(r) \/ Create(r) \/ Refuse(r)

Next ==
    \/ \E r \in Receivers, s \in Signals : Arrive(r, s)
    \/ \E r \in Receivers : Step(r) \/ Abort(r)
    \/ \E i \in Signals : Finish(i) \/ Reopen(i)
    \/ \E old \in SUBSET recent : HourPasses(old)
    \/ \E p \in Profiles : Switch(p)

Spec == Init /\ [][Next]_vars

-----------------------------------------------------------------------------
(* Properties                                                              *)

LiveOf(k) == {s \in Signals : KeyOf[s] = k /\ item[s] = "live"}

\* "one live work_item per dedupe_key" (lookupLiveWorkItem), for concurrent
\* receivers, retries and aborted transactions, as long as no late escalation
\* reopened an item of the key: that one is live beside its successor.
OneLiveItemPerKey ==
    \A k \in Keys : (\A s \in reopened : KeyOf[s] # k) => Cardinality(LiveOf(k)) <= 1

\* The budget is counted without a lock on the token, so the transactions that
\* run together, as many as the pool has connections, go past it by one item
\* each but the first, and never by more (admitItemCreation).
OvershootIsBounded ==
    \A t \in Tokens :
        Cardinality(Created(t)) <=
            Max({Budget[p] : p \in Profiles}) + Min({Cardinality(Receivers), PoolSize}) - 1

\* While a request is being received, some receiver has what its next step waits
\* for: one that holds a connection and waits for the lock of its key never waits,
\* through the pool, on itself (the order of reads and locks in Receive).
ReceiversNeverStuck ==
    (\E r \in Receivers : ~At(r, "idle")) => \E r \in Receivers : Ready(r)

-----------------------------------------------------------------------------
(* The inductive invariant behind OneLiveItemPerKey                        *)

InTx(r) == receiver[r].phase \in {"lock", "resolve", "commit"}
KeyHeld(r) == KeyOf[receiver[r].signal]

\* Connections are free or in a transaction.
ConnectionsOK == free + Cardinality({r \in Receivers : InTx(r)}) = PoolSize

\* A receiver that is past the lock of its key holds it.
LockOK ==
    \A r \in Receivers :
        /\ ~At(r, "idle") => receiver[r].signal \in Signals
        /\ receiver[r].phase \in {"resolve", "commit"} /\ KeyHeld(r) # NoKey
              => holder[KeyHeld(r)] = r

\* The holder of a lock is a receiver of the key that is past the lock.
HoldersOK ==
    \A k \in Keys : holder[k] # Nobody =>
        receiver[holder[k]].phase \in {"resolve", "commit"} /\ KeyHeld(holder[k]) = k

\* A row with a key, and a receiver about to link, name an item of that key; an
\* item that was recorded as created exists.
LinksOK ==
    /\ \A s \in Signals : KeyOf[s] # NoKey /\ row[s].item # NoItem => KeyOf[row[s].item] = KeyOf[s]
    /\ \A r \in Receivers : receiver[r].linked # NoItem
          => At(r, "commit") /\ KeyHeld(r) # NoKey /\ KeyOf[receiver[r].linked] = KeyHeld(r)
    /\ \A s \in Signals : [item |-> s, created |-> TRUE] \in log[s] => item[s] # "absent"

Undisturbed(k) == \A s \in reopened : KeyOf[s] # k

\* A key has one live item at most, a row of the key leads to it, and what a
\* receiver found under the lock is still so when it commits.
LiveOK ==
    \A k \in Keys : Undisturbed(k) =>
        /\ \A i, j \in LiveOf(k) : i = j
        /\ \A i \in LiveOf(k) : \E s \in Signals : KeyOf[s] = k /\ row[s].item = i
        /\ \A r \in Receivers : At(r, "commit") /\ KeyHeld(r) = k
              => \A i \in LiveOf(k) : i = receiver[r].linked

SignalsInv == TypeOK /\ ConnectionsOK /\ LockOK /\ LinksOK /\ LiveOK

-----------------------------------------------------------------------------
(* The inductive invariant behind OvershootIsBounded                       *)

\* A receiver that will create an item when it commits.
Creating(r) == At(r, "commit") /\ receiver[r].linked = NoItem /\ receiver[r].admitted

\* The creations of a token that count against its budget, made or let through.
Spent(t) ==
    Created(t) \union
    {receiver[r].signal : r \in {q \in Receivers : Creating(q) /\ TokenOf[receiver[q].signal] = t}}

LargestBudget == Max({Budget[p] : p \in Profiles})
Together == Min({Cardinality(Receivers), PoolSize})

\* Every budget in hand is that of some profile, and what is let through is
\* within the bound already before it commits.
BudgetOK ==
    /\ IsFiniteSet(recent)
    /\ \A r \in Receivers : receiver[r].max <= LargestBudget
    /\ \A t \in Tokens : Cardinality(Spent(t)) <= LargestBudget + Together - 1
=============================================================================
