----------------------------- MODULE Idempotency -----------------------------
(***************************************************************************)
(* The idempotency middleware (Wrap for POSTs, Execute for MCP tools): each *)
(* request looks its key up, takes a session-level advisory lock by         *)
(* polling, looks again, runs the handler's transaction, records the        *)
(* response, and answers from the record.                                   *)
(*                                                                          *)
(* Requests of several server processes interleave at every database        *)
(* statement, and each may vanish between two of them.  The lock pins a     *)
(* connection of the pool that lookups, handlers and records draw on.  One   *)
(* key stands for one (token, scope, key); a body for its request hash.      *)
(*                                                                          *)
(* The handlers are the two shapes the services have: Create derives the    *)
(* subject id, so its event is the same on every run; Transition reads the  *)
(* state of the (one) work item and puts it into the event's payload.       *)
(***************************************************************************)
EXTENDS Naturals, FiniteSets

CONSTANTS
    Req,            \* requests, each sent once (a client's retry is another)
    Key,            \* idempotency keys
    Creates,        \* keys used with a creating endpoint; the others transition
    Body,           \* request bodies; of a transition, the state asked for
    Terminal,       \* bodies that are terminal states
    Start,          \* the state of the work item at the start
    Nested,         \* the handler looks up a cultivar through the pool mid-transaction
    PoolSize,       \* PoolMaxConns
    MaxExpiries,    \* bound on rows that outlive their TTL
    MaxLosses       \* bound on lock connections lost under a running request

NoReq == "no request"
NoState == "no state"

ASSUME IdempotencyAssumption ==
    /\ NoReq \notin Req
    /\ Creates \subseteq Key
    /\ Terminal \subseteq Body
    /\ Start \in Body
    /\ Nested \in BOOLEAN
    /\ PoolSize \in Nat \ {0}
    /\ MaxExpiries \in Nat
    /\ MaxLosses \in Nat

VARIABLES
    pc,         \* where each request is
    key, body,  \* what it was sent with
    answer,     \* the response its handler buffered
    fresh,      \* whether its record was a new event
    reply,      \* what the client received
    lock,       \* holder of each key's advisory lock
    lockConn,   \* requests holding a pool connection for their lock
    txConn,     \* requests holding one for their handler's transaction
    cache,      \* idempotency_keys
    recorded,   \* idempotency.recorded events
    events,     \* events appended by the handlers
    state,      \* the state of the work item
    expiries, losses

vars == <<pc, key, body, answer, fresh, reply, lock, lockConn, txConn, cache,
          recorded, events, state, expiries, losses>>
request == <<key, body>>
store == <<cache, recorded>>
domainState == <<events, state>>
mishaps == <<expiries, losses>>

Stage == {"idle", "lookup", "lock", "recheck", "handler", "tx", "record", "reply", "done"}
\* The stages between acquireLock and the deferred release.
Locked == {"recheck", "handler", "tx", "record", "reply"}

Reply == [kind : {"none", "ok", "conflict", "error", "gone"}, answer : Nat]
Say(k) == [kind |-> k, answer |-> 0]
Ok(a) == [kind |-> "ok", answer |-> a]

Record == [key : Key, body : Body, answer : Nat]
Event == [key : Key, body : Body, from : Body \union {NoState}]
NoRow(b) == [body |-> b, answer |-> 0, live |-> FALSE]

TypeOK ==
    /\ pc \in [Req -> Stage]
    /\ key \in [Req -> Key]
    /\ body \in [Req -> Body]
    /\ answer \in [Req -> Nat]
    /\ fresh \in [Req -> BOOLEAN]
    /\ reply \in [Req -> Reply]
    /\ lock \in [Key -> Req \union {NoReq}]
    /\ lockConn \in SUBSET Req
    /\ txConn \in SUBSET Req
    /\ cache \in [Key -> [body : Body, answer : Nat, live : BOOLEAN]]
    /\ recorded \in SUBSET Record
    /\ events \in SUBSET Event
    /\ state \in Body
    /\ expiries \in 0..MaxExpiries
    /\ losses \in 0..MaxLosses

Init ==
    /\ pc = [r \in Req |-> "idle"]
    /\ key \in [Req -> Key]
    /\ body \in [Req -> Body]
    /\ answer = [r \in Req |-> 0]
    /\ fresh = [r \in Req |-> TRUE]
    /\ reply = [r \in Req |-> Say("none")]
    /\ lock = [k \in Key |-> NoReq]
    /\ lockConn = {}
    /\ txConn = {}
    /\ cache = [k \in Key |-> NoRow(Start)]
    /\ recorded = {}
    /\ events = {}
    /\ state = Start
    /\ expiries = 0
    /\ losses = 0

-----------------------------------------------------------------------------
\* A statement outside a held connection first acquires one from the pool.
ConnectionFree == Cardinality(lockConn) + Cardinality(txConn) < PoolSize

\* lookup: WHERE ... AND expires_at > now().
Live(k) == cache[k].live
Hit(r) == Live(key[r]) /\ cache[key[r]].body = body[r]
Conflict(r) == Live(key[r]) /\ cache[key[r]].body # body[r]

Goto(r, s) == pc' = [pc EXCEPT ![r] = s]

\* Mutant of Finish: the release func is never called.
FinishUnreleased(r, what) ==
    /\ Goto(r, "done")
    /\ reply' = [reply EXCEPT ![r] = what]
    /\ txConn' = txConn \ {r}
    /\ UNCHANGED <<lock, lockConn>>

\* The response is written and the deferred release gives lock and connections back.
Finish(r, what) ==
    /\ Goto(r, "done")
    /\ reply' = [reply EXCEPT ![r] = what]
    /\ lock' = [k \in Key |-> IF lock[k] = r THEN NoReq ELSE lock[k]]
    /\ lockConn' = lockConn \ {r}
    /\ txConn' = txConn \ {r}

\* lookup and writeCachedResponse / writeLookupError, or on to the next stage.
LookupThen(r, s) ==
    /\ ConnectionFree
    /\ \/ Hit(r) /\ Finish(r, Ok(cache[key[r]].answer))
       \/ Conflict(r) /\ Finish(r, Say("conflict"))
       \/ ~ Live(key[r]) /\ Goto(r, s) /\ UNCHANGED <<reply, lock, lockConn, txConn>>
    /\ UNCHANGED <<request, answer, fresh, store, domainState, mishaps>>

Arrive(r) ==
    /\ pc[r] = "idle"
    /\ Goto(r, "lookup")
    /\ UNCHANGED <<request, answer, fresh, reply, lock, lockConn, txConn, store, domainState, mishaps>>

\* The unlocked fast path.
Lookup(r) == pc[r] = "lookup" /\ LookupThen(r, "lock")

\* Mutant of TryLock: the result of pg_try_advisory_lock is not looked at.
TryLockIgnored(r) ==
    /\ pc[r] = "lock"
    /\ ConnectionFree
    /\ lock' = [lock EXCEPT ![key[r]] = r]
    /\ lockConn' = lockConn \union {r}
    /\ Goto(r, "recheck")
    /\ UNCHANGED <<request, answer, fresh, reply, txConn, store, domainState, mishaps>>

\* Mutant of TryLock: the key is stored where the holder belongs.
TryLockByKey(r) ==
    /\ pc[r] = "lock"
    /\ ConnectionFree
    /\ lock[key[r]] = NoReq
    /\ lock' = [lock EXCEPT ![key[r]] = key[r]]
    /\ lockConn' = lockConn \union {r}
    /\ Goto(r, "recheck")
    /\ UNCHANGED <<request, answer, fresh, reply, txConn, store, domainState, mishaps>>

\* acquireLock: pg_try_advisory_lock on a pool connection, kept on success and
\* returned at once on failure.
TryLock(r) ==
    /\ pc[r] = "lock"
    /\ ConnectionFree
    /\ lock[key[r]] = NoReq
    /\ lock' = [lock EXCEPT ![key[r]] = r]
    /\ lockConn' = lockConn \union {r}
    /\ Goto(r, "recheck")
    /\ UNCHANGED <<request, answer, fresh, reply, txConn, store, domainState, mishaps>>

\* Mutant of Recheck: the handler runs without looking again.
RecheckSkipped(r) ==
    /\ pc[r] = "recheck"
    /\ Goto(r, "handler")
    /\ UNCHANGED <<request, answer, fresh, reply, lock, lockConn, txConn, store, domainState, mishaps>>

\* The second lookup, under the lock.
Recheck(r) == pc[r] = "recheck" /\ LookupThen(r, "handler")

\* The handler's service begins its transaction.
BeginTx(r) ==
    /\ pc[r] = "handler"
    /\ ConnectionFree
    /\ txConn' = txConn \union {r}
    /\ Goto(r, "tx")
    /\ UNCHANGED <<request, answer, fresh, reply, lock, lockConn, store, domainState, mishaps>>

\* The service's answer describes the item as its n-th event left it; 0 is a 409.
Handle(r) ==
    LET id == [key |-> key[r], body |-> body[r],
               from |-> IF key[r] \in Creates THEN NoState ELSE state]
        rejected == /\ key[r] \notin Creates
                    /\ state \in Terminal
                    /\ state # body[r]
    IN  /\ events' = IF rejected THEN events ELSE events \union {id}
        /\ state' = IF rejected \/ id \in events \/ key[r] \in Creates THEN state ELSE body[r]
        /\ answer' = [answer EXCEPT ![r] =
              IF rejected THEN 0
              ELSE IF key[r] \in Creates THEN 1
              ELSE Cardinality({e \in events' : e.from # NoState})]

\* The transaction commits, and a response below 500 goes on to be recorded.
HandlerAnswers(r) ==
    /\ pc[r] = "tx"
    /\ Nested => ConnectionFree
    /\ Handle(r)
    /\ Goto(r, "record")
    /\ txConn' = txConn \ {r}
    /\ UNCHANGED <<request, fresh, reply, lock, lockConn, store, mishaps>>

\* The handler answers 5xx, which is not recorded: its transaction rolled back,
\* or the commit went through and the acknowledgement was lost.
HandlerFails(r) ==
    /\ pc[r] = "tx"
    /\ Nested => ConnectionFree
    /\ Handle(r) \/ UNCHANGED <<events, state, answer>>
    /\ Finish(r, Say("error"))
    /\ UNCHANGED <<request, fresh, store, mishaps>>

\* record: append idempotency.recorded, whose identity is the key, the body and
\* the response; the projector upserts the row only if the event is new.
RecordResponse(r) ==
    LET rec == [key |-> key[r], body |-> body[r], answer |-> answer[r]]
    IN  /\ pc[r] = "record"
        /\ ConnectionFree
        /\ fresh' = [fresh EXCEPT ![r] = rec \notin recorded]
        /\ recorded' = recorded \union {rec}
        /\ cache' = IF rec \in recorded THEN cache
                    ELSE [cache EXCEPT ![key[r]] =
                            [body |-> body[r], answer |-> answer[r], live |-> TRUE]]
        /\ Goto(r, "reply")
        /\ UNCHANGED <<request, answer, reply, lock, lockConn, txConn, domainState, mishaps>>

\* Mutant of RecordFails: the buffered response is sent all the same.
RecordFailureIgnored(r) ==
    /\ pc[r] = "record"
    /\ Finish(r, Ok(answer[r]))
    /\ UNCHANGED <<request, answer, fresh, store, domainState, mishaps>>

\* record failed: the client gets a 500 although the handler has committed.
RecordFails(r) ==
    /\ pc[r] = "record"
    /\ Finish(r, Say("error"))
    /\ UNCHANGED <<request, answer, fresh, store, domainState, mishaps>>

\* The winner answers from the row it wrote; without one, from its buffer.
Answer(r) ==
    /\ pc[r] = "reply"
    /\ ConnectionFree
    /\ Finish(r, Ok(IF Hit(r) THEN cache[key[r]].answer ELSE answer[r]))
    /\ UNCHANGED <<request, answer, fresh, store, domainState, mishaps>>

\* The server process dies or the client hangs up; locks and connections go.
Vanish(r) ==
    /\ pc[r] \notin {"idle", "done"}
    /\ Finish(r, Say("gone"))
    /\ UNCHANGED <<request, answer, fresh, store, domainState, mishaps>>

\* The backend that holds the session lock is lost while the request goes on.
LoseLock(r) ==
    /\ losses < MaxLosses
    /\ lock[key[r]] = r
    /\ losses' = losses + 1
    /\ lock' = [lock EXCEPT ![key[r]] = NoReq]
    /\ UNCHANGED <<pc, request, answer, fresh, reply, lockConn, txConn, store, domainState, expiries>>

\* 24 hours pass.
Expire(k) ==
    /\ expiries < MaxExpiries
    /\ Live(k)
    /\ expiries' = expiries + 1
    /\ cache' = [cache EXCEPT ![k].live = FALSE]
    /\ UNCHANGED <<pc, request, answer, fresh, reply, lock, lockConn, txConn, recorded,
                   domainState, losses>>

Serve(r) ==
    \/ Lookup(r) \/ TryLock(r) \/ Recheck(r) \/ BeginTx(r)
    \/ HandlerAnswers(r) \/ HandlerFails(r)
    \/ RecordResponse(r) \/ RecordFails(r) \/ Answer(r)

AllDone == (\A r \in Req : pc[r] = "done") /\ UNCHANGED vars

Next ==
    \/ \E r \in Req : Arrive(r) \/ Serve(r) \/ Vanish(r) \/ LoseLock(r)
    \/ \E k \in Key : Expire(k)
    \/ AllDone

Spec == Init /\ [][Next]_vars

\* A request's goroutine keeps running; a polled lock that stays free is taken,
\* and an Acquire is served while the pool has a connection.
FairSpec == Spec /\ \A r \in Req : WF_vars(Serve(r))

-----------------------------------------------------------------------------
(* Properties                                                              *)

\* The contract of the middleware.  While no row has outlived its TTL and no
\* lock connection was lost, all clients that got a conclusive answer under one
\* key sent the same body and got the same answer, whatever failed or was
\* retried in between.
OneAnswerPerKey ==
    expiries = 0 /\ losses = 0 =>
        \A r, s \in Req :
            reply[r].kind = "ok" /\ reply[s].kind = "ok" /\ key[r] = key[s]
                => body[r] = body[s] /\ reply[r] = reply[s]

\* No handler runs once its key has a live record: the check under the lock is
\* still valid when the handler commits and when its response is recorded.
NoRunBehindRecord ==
    losses = 0 => \A r \in Req : pc[r] \in {"handler", "tx", "record"} => ~ Live(key[r])

\* An answer is given only when it is durable: every conclusive answer a client
\* has is in the log, so that it survives a crash of the server.
AnswersAreDurable ==
    \A r \in Req : reply[r].kind = "ok" =>
        [key |-> key[r], body |-> body[r], answer |-> reply[r].answer] \in recorded

\* record: under the lock nobody else has recorded the same response before.
\* (After the TTL the same response is a duplicate of the old event: the row
\* stays expired and every later retry runs the handler again.)
RecordedOnce == expiries = 0 /\ losses = 0 => \A r \in Req : fresh[r]

\* Every request is answered or given up: lock holders and waiters do not block
\* each other for good.
EveryRequestEnds == \A r \in Req : pc[r] = "lookup" ~> pc[r] = "done"

-----------------------------------------------------------------------------
(* The inductive invariant.                                                *)

LockHeld == losses = 0 => \A r \in Req : pc[r] \in Locked => lock[key[r]] = r

\* Rows, pending replies and given answers all come from recorded events.
FromRecords ==
    /\ \A k \in Key : Live(k) =>
          [key |-> k, body |-> cache[k].body, answer |-> cache[k].answer] \in recorded
    /\ \A r \in Req : pc[r] = "reply" =>
          [key |-> key[r], body |-> body[r], answer |-> answer[r]] \in recorded

\* Before the first expiry every record is the live row of its key.
RecordsLive ==
    expiries = 0 /\ losses = 0 =>
        \A x \in recorded :
            Live(x.key) /\ cache[x.key].body = x.body /\ cache[x.key].answer = x.answer

=============================================================================
