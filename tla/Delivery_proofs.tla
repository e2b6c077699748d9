-------------------------- MODULE Delivery_proofs --------------------------
(***************************************************************************)
(* Proofs about what crosses a connection that may fail: the requests of    *)
(* Idempotency, the commands of Fleet, the rows of Feed.  They hold for any  *)
(* number of requests, keys and bodies, any pool size; any routes, commands  *)
(* and nodes; any number of consumers, rows, filters and page sizes; and for *)
(* any number of expiries, losses and other failures.                       *)
(***************************************************************************)
EXTENDS Idempotency, Fleet, Feed, FiniteSetTheorems, SequenceTheorems, WellFoundedInduction, TLAPS

-----------------------------------------------------------------------------
(* Requests (Idempotency)                                                  *)

\* The handlers' answers are numbers because only finitely many events exist.
Typed == TypeOK /\ IsFiniteSet(events)

LEMMA FinishType ==
    ASSUME TypeOK, NEW r \in Req, NEW what \in Reply, Finish(r, what)
    PROVE  /\ pc' \in [Req -> Stage]
           /\ reply' \in [Req -> Reply]
           /\ lock' \in [Key -> Req \union {NoReq}]
           /\ lockConn' \in SUBSET Req
           /\ txConn' \in SUBSET Req
  BY DEF TypeOK, Finish, Goto, Stage

LEMMA HandleType ==
    ASSUME Typed, NEW r \in Req, Handle(r)
    PROVE  /\ events' \in SUBSET Event /\ IsFiniteSet(events')
           /\ state' \in Body
           /\ answer' \in [Req -> Nat]
  <1> DEFINE id == [key |-> key[r], body |-> body[r],
                    from |-> IF key[r] \in Creates THEN NoState ELSE state]
  <1>1. id \in Event
    BY DEF Typed, TypeOK, Event
  <1>2. events' = events \/ events' = events \union {id}
    BY DEF Handle
  <1> HIDE DEF id
  <1>3. events' \in SUBSET Event
    BY <1>1, <1>2 DEF Typed, TypeOK
  <1>4. IsFiniteSet(events')
    BY <1>2, FS_AddElement DEF Typed
  <1>5. state' \in Body
    BY DEF Handle, Typed, TypeOK
  <1>6. Cardinality({e \in events' : e.from # NoState}) \in Nat
    BY <1>4, FS_Subset, FS_CardinalityType
  <1>7. PICK a \in Nat : answer' = [answer EXCEPT ![r] = a]
    BY <1>6 DEF Handle
  <1>8. answer' \in [Req -> Nat]
    BY <1>7 DEF Typed, TypeOK
  <1>9. QED
    BY <1>3, <1>4, <1>5, <1>8

\* Each variable of the middleware keeps its type.
THEOREM TypeCorrect == Spec => []TypeOK
  <1>1. Init => Typed
    BY IdempotencyAssumption, FS_EmptySet
       DEF Init, Typed, TypeOK, Stage, Reply, Say, NoRow
  <1>2. Typed /\ [Next]_vars => Typed'
    <2> SUFFICES ASSUME Typed, [Next]_vars PROVE Typed'
      OBVIOUS
    <2> USE DEF Typed
    <2>1. (\A k \in {"none", "conflict", "error", "gone"} : Say(k) \in Reply)
          /\ \A a \in Nat : Ok(a) \in Reply
      BY DEF Say, Ok, Reply
    <2>2. \A k \in Key : cache[k].answer \in Nat
      BY DEF TypeOK
    <2>3. ASSUME NEW r \in Req, NEW s \in Stage, LookupThen(r, s) PROVE Typed'
      <3>1. CASE \E what \in Reply : Finish(r, what)
        BY <2>3, <3>1, FinishType DEF LookupThen, TypeOK, request, store, domainState, mishaps
      <3>2. CASE Goto(r, s) /\ UNCHANGED <<reply, lock, lockConn, txConn>>
        BY <2>3, <3>2 DEF LookupThen, Goto, TypeOK, request, store, domainState, mishaps
      <3>3. QED
        BY <2>1, <2>2, <2>3, <3>1, <3>2 DEF LookupThen, TypeOK
    <2>4. ASSUME NEW r \in Req, Arrive(r) PROVE Typed'
      BY <2>4 DEF Arrive, Goto, TypeOK, Stage, request, store, domainState, mishaps
    <2>5. ASSUME NEW r \in Req, Lookup(r) \/ Recheck(r) PROVE Typed'
      BY <2>3, <2>5 DEF Lookup, Recheck, Stage
    <2>6. ASSUME NEW r \in Req, TryLock(r) PROVE Typed'
      BY <2>6 DEF TryLock, Goto, TypeOK, Stage, request, store, domainState, mishaps
    <2>7. ASSUME NEW r \in Req, BeginTx(r) PROVE Typed'
      BY <2>7 DEF BeginTx, Goto, TypeOK, Stage, request, store, domainState, mishaps
    <2>8. ASSUME NEW r \in Req, HandlerAnswers(r) PROVE Typed'
      <3>1. events' \in SUBSET Event /\ IsFiniteSet(events') /\ state' \in Body
            /\ answer' \in [Req -> Nat]
        BY <2>8, HandleType DEF HandlerAnswers
      <3>2. QED
        BY <2>8, <3>1 DEF HandlerAnswers, Goto, TypeOK, Stage, request, store, mishaps
    <2>9. ASSUME NEW r \in Req, HandlerFails(r) PROVE Typed'
      <3>1. events' \in SUBSET Event /\ IsFiniteSet(events') /\ state' \in Body
            /\ answer' \in [Req -> Nat]
        BY <2>9, HandleType DEF HandlerFails, TypeOK
      <3>2. QED
        BY <2>1, <2>9, <3>1, FinishType DEF HandlerFails, TypeOK, request, store, mishaps
    <2>10. ASSUME NEW r \in Req, RecordResponse(r) PROVE Typed'
      <3> DEFINE rec == [key |-> key[r], body |-> body[r], answer |-> answer[r]]
                 new == [body |-> body[r], answer |-> answer[r], live |-> TRUE]
      <3>1. rec \in Record /\ new \in [body : Body, answer : Nat, live : BOOLEAN]
        BY DEF TypeOK, Record
      <3>2. cache' = cache \/ cache' = [cache EXCEPT ![key[r]] = new]
        BY <2>10 DEF RecordResponse
      <3>3. recorded' = recorded \union {rec}
        BY <2>10 DEF RecordResponse
      <3> HIDE DEF rec, new
      <3>4. cache' \in [Key -> [body : Body, answer : Nat, live : BOOLEAN]]
        BY <3>1, <3>2 DEF TypeOK
      <3>5. recorded' \in SUBSET Record
        BY <3>1, <3>3 DEF TypeOK
      <3>6. fresh' \in [Req -> BOOLEAN] /\ pc' \in [Req -> Stage]
        BY <2>10 DEF RecordResponse, TypeOK, Goto, Stage
      <3>7. QED
        BY <2>10, <3>4, <3>5, <3>6 DEF RecordResponse, TypeOK, request, domainState, mishaps
    <2>11. ASSUME NEW r \in Req, RecordFails(r) \/ Vanish(r) PROVE Typed'
      BY <2>1, <2>11, FinishType
         DEF RecordFails, Vanish, TypeOK, request, store, domainState, mishaps
    <2>12. ASSUME NEW r \in Req, Answer(r) PROVE Typed'
      <3>1. (IF Hit(r) THEN cache[key[r]].answer ELSE answer[r]) \in Nat
        BY DEF TypeOK
      <3>2. PICK what \in Reply : Finish(r, what)
        BY <2>1, <2>12, <3>1 DEF Answer
      <3>3. QED
        BY <2>12, <3>2, FinishType DEF Answer, TypeOK, request, store, domainState, mishaps
    <2>13. ASSUME NEW r \in Req, LoseLock(r) PROVE Typed'
      <3>1. losses' \in 0..MaxLosses
        BY <2>13, IdempotencyAssumption DEF LoseLock, TypeOK
      <3>2. QED
        BY <2>13, <3>1 DEF LoseLock, TypeOK, request, store, domainState
    <2>14. ASSUME NEW k \in Key, Expire(k) PROVE Typed'
      <3>1. expiries' \in 0..MaxExpiries
        BY <2>14, IdempotencyAssumption DEF Expire, TypeOK
      <3>2. cache' \in [Key -> [body : Body, answer : Nat, live : BOOLEAN]]
        BY <2>14 DEF Expire, TypeOK
      <3>3. QED
        BY <2>14, <3>1, <3>2 DEF Expire, TypeOK, request, domainState
    <2>15. CASE UNCHANGED vars
      BY <2>15 DEF vars, TypeOK
    <2>16. QED
      BY <2>4, <2>5, <2>6, <2>7, <2>8, <2>9, <2>10, <2>11, <2>12, <2>13, <2>14, <2>15
         DEF Next, Serve, AllDone
  <1>3. QED
    BY <1>1, <1>2, PTL DEF Spec, Typed

-----------------------------------------------------------------------------
(* What the advisory lock protects.                                        *)

RecordOf(k, b, a) == [key |-> k, body |-> b, answer |-> a]

\* The part of the invariant that is not typing.
KeyInv == LockHeld /\ NoRunBehindRecord /\ FromRecords /\ RecordsLive /\ AnswersAreDurable

\* The end of a request: its lock is released, nobody else's is.
LEMMA FinishKeepsInv ==
    ASSUME TypeOK, KeyInv, NEW r \in Req, NEW what, Finish(r, what),
           UNCHANGED <<key, body, cache, recorded, expiries, losses>>,
           \A q \in Req \ {r} : answer'[q] = answer[q],
           what.kind = "ok" => RecordOf(key[r], body[r], what.answer) \in recorded
    PROVE  KeyInv'
  <1>1. /\ pc'[r] = "done" /\ reply'[r] = what
        /\ \A q \in Req \ {r} : pc'[q] = pc[q] /\ reply'[q] = reply[q]
    BY DEF Finish, Goto, TypeOK
  <1>2. LockHeld'
    BY <1>1 DEF KeyInv, LockHeld, Finish, Locked, TypeOK
  <1>3. NoRunBehindRecord'
    BY <1>1 DEF KeyInv, NoRunBehindRecord, Live
  <1>4. FromRecords'
    BY <1>1 DEF KeyInv, FromRecords, Live
  <1>5. RecordsLive'
    BY DEF KeyInv, RecordsLive, Live
  <1>6. AnswersAreDurable'
    BY <1>1 DEF KeyInv, AnswersAreDurable, RecordOf
  <1>7. QED
    BY <1>2, <1>3, <1>4, <1>5, <1>6 DEF KeyInv

\* A request moves on: what the next stage requires of it is given.
LEMMA GotoKeepsInv ==
    ASSUME TypeOK, KeyInv, NEW r \in Req, NEW s, Goto(r, s),
           UNCHANGED <<key, body, reply, lock, cache, recorded, expiries, losses>>,
           \A q \in Req \ {r} : answer'[q] = answer[q],
           s \in Locked => pc[r] \in Locked,
           s \in {"handler", "tx", "record"} =>
               pc[r] \in {"handler", "tx", "record"} \/ ~ Live(key[r]),
           s # "reply"
    PROVE  KeyInv'
  <1>1. pc'[r] = s /\ \A q \in Req \ {r} : pc'[q] = pc[q]
    BY DEF Goto, TypeOK
  <1>2. LockHeld'
    BY <1>1 DEF KeyInv, LockHeld
  <1>3. NoRunBehindRecord'
    BY <1>1 DEF KeyInv, NoRunBehindRecord, Live
  <1>4. FromRecords'
    BY <1>1 DEF KeyInv, FromRecords, Live
  <1>5. RecordsLive' /\ AnswersAreDurable'
    BY DEF KeyInv, RecordsLive, AnswersAreDurable, Live
  <1>6. QED
    BY <1>2, <1>3, <1>4, <1>5 DEF KeyInv

\* A live row may be given as the answer: it was recorded.
LEMMA HitIsRecorded ==
    ASSUME TypeOK, KeyInv, NEW r \in Req, Hit(r)
    PROVE  RecordOf(key[r], body[r], cache[key[r]].answer) \in recorded
  BY DEF Hit, KeyInv, FromRecords, RecordOf, TypeOK

LEMMA LookupKeepsInv ==
    ASSUME TypeOK, KeyInv, NEW r \in Req, NEW s, LookupThen(r, s),
           s \in Locked => pc[r] \in Locked, s # "reply"
    PROVE  KeyInv'
  <1> USE DEF request, store, domainState, mishaps
  <1>1. UNCHANGED <<key, body, answer, cache, recorded, expiries, losses>>
    BY DEF LookupThen
  <1>2. CASE Hit(r) /\ Finish(r, Ok(cache[key[r]].answer))
    <2>1. Ok(cache[key[r]].answer).answer = cache[key[r]].answer
      BY DEF Ok
    <2>2. QED
      BY <1>1, <1>2, <2>1, HitIsRecorded, FinishKeepsInv
  <1>3. CASE Finish(r, Say("conflict"))
    <2>1. Say("conflict").kind # "ok"
      BY DEF Say
    <2>2. QED
      BY <1>1, <1>3, <2>1, FinishKeepsInv
  <1>4. CASE ~ Live(key[r]) /\ Goto(r, s) /\ UNCHANGED <<reply, lock>>
    BY <1>1, <1>4, GotoKeepsInv
  <1>5. QED
    BY <1>2, <1>3, <1>4 DEF LookupThen

\* Recording under the lock adds the first record of the key, or renews none.
LEMMA RecordKeepsInv ==
    ASSUME TypeOK, KeyInv, NEW r \in Req, RecordResponse(r) PROVE KeyInv'
  <1> DEFINE rec == RecordOf(key[r], body[r], answer[r])
             k == key[r]
  <1>1. /\ pc[r] = "record" /\ pc'[r] = "reply"
        /\ \A q \in Req \ {r} : pc'[q] = pc[q]
        /\ UNCHANGED <<key, body, answer, reply, lock, expiries, losses>>
        /\ recorded' = recorded \union {rec}
    BY DEF RecordResponse, Goto, TypeOK, request, mishaps, RecordOf
  <1>2. /\ rec \in recorded => cache' = cache
        /\ rec \notin recorded =>
             cache' = [cache EXCEPT ![k] = [body |-> body[r], answer |-> answer[r], live |-> TRUE]]
    BY DEF RecordResponse, RecordOf
  <1>3. k \in Key /\ rec.key = k /\ rec.body = body[r] /\ rec.answer = answer[r]
    BY DEF TypeOK, RecordOf
  <1>4. rec \notin recorded =>
          /\ cache'[k].live /\ cache'[k].body = body[r] /\ cache'[k].answer = answer[r]
          /\ \A j \in Key \ {k} : cache'[j] = cache[j]
    BY <1>2, <1>3 DEF TypeOK
  <1>5. LockHeld'
    BY <1>1 DEF KeyInv, LockHeld, Locked
  <1>6. losses = 0 => ~ Live(k)
    BY <1>1 DEF KeyInv, NoRunBehindRecord
  <1>7. NoRunBehindRecord'
    <2> SUFFICES ASSUME losses = 0, NEW q \in Req, pc'[q] \in {"handler", "tx", "record"},
                        Live(key[q])'
                 PROVE  FALSE
      BY <1>1 DEF NoRunBehindRecord
    <2>1. q # r /\ pc[q] \in {"handler", "tx", "record"} /\ key[q] \in Key
      BY <1>1 DEF TypeOK
    <2>2. lock[key[q]] = q /\ lock[k] = r
      BY <1>1, <2>1 DEF KeyInv, LockHeld, Locked
    <2>3. key[q] # k
      BY <2>1, <2>2
    <2>4. ~ Live(key[q])
      BY <2>1 DEF KeyInv, NoRunBehindRecord
    <2>5. QED
      BY <1>1, <1>2, <1>4, <2>1, <2>3, <2>4 DEF Live
  <1>8. FromRecords'
    <2>1. ASSUME NEW j \in Key, Live(j)'
          PROVE  RecordOf(j, cache'[j].body, cache'[j].answer) \in recorded'
      <3>1. CASE rec \in recorded \/ j # k
        <4>1. cache'[j] = cache[j]
          BY <1>2, <1>4, <3>1, <2>1
        <4>2. QED
          BY <1>1, <2>1, <4>1 DEF KeyInv, FromRecords, Live, RecordOf
      <3>2. CASE rec \notin recorded /\ j = k
        BY <1>1, <1>4, <3>2
      <3>3. QED
        BY <3>1, <3>2
    <2>2. ASSUME NEW q \in Req, pc'[q] = "reply"
          PROVE  RecordOf(key[q], body[q], answer[q]) \in recorded'
      BY <1>1, <2>2 DEF KeyInv, FromRecords, RecordOf
    <2>3. QED
      BY <1>1, <2>1, <2>2 DEF FromRecords, RecordOf
  <1>9. RecordsLive'
    <2> SUFFICES ASSUME expiries = 0, losses = 0, NEW x \in recorded'
                 PROVE  /\ cache'[x.key].live
                        /\ cache'[x.key].body = x.body /\ cache'[x.key].answer = x.answer
      BY <1>1 DEF RecordsLive, Live
    <2>1. \A y \in recorded : y.key # k /\ y.key \in Key
      BY <1>6 DEF KeyInv, RecordsLive, TypeOK, Record
    <2>2. rec \notin recorded
      BY <1>3, <2>1
    <2>3. CASE x = rec
      BY <1>3, <1>4, <2>2, <2>3
    <2>4. CASE x \in recorded
      BY <1>4, <2>1, <2>2, <2>4 DEF KeyInv, RecordsLive, Live
    <2>5. QED
      BY <1>1, <2>3, <2>4
  <1>10. AnswersAreDurable'
    BY <1>1 DEF KeyInv, AnswersAreDurable
  <1>11. QED
    BY <1>5, <1>7, <1>8, <1>9, <1>10 DEF KeyInv

\* The invariant holds of every behaviour.
LEMMA KeyInvariant == Spec => []KeyInv
  <1>1. Init => KeyInv
    BY IdempotencyAssumption
       DEF Init, KeyInv, LockHeld, NoRunBehindRecord, FromRecords, RecordsLive,
           AnswersAreDurable, Live, NoRow, Say, Locked
  <1>2. TypeOK /\ KeyInv /\ [Next]_vars => KeyInv'
    <2> SUFFICES ASSUME TypeOK, KeyInv, [Next]_vars PROVE KeyInv'
      OBVIOUS
    <2> USE DEF request, store, domainState, mishaps
    <2>1. \A k \in {"conflict", "error", "gone"} : Say(k).kind # "ok"
      BY DEF Say
    <2>2. ASSUME NEW r \in Req, Arrive(r) PROVE KeyInv'
      BY <2>2, GotoKeepsInv DEF Arrive, Locked
    <2>3. ASSUME NEW r \in Req, Lookup(r) PROVE KeyInv'
      BY <2>3, LookupKeepsInv DEF Lookup, Locked
    <2>4. ASSUME NEW r \in Req, Recheck(r) PROVE KeyInv'
      BY <2>4, LookupKeepsInv DEF Recheck, Locked
    <2>5. ASSUME NEW r \in Req, TryLock(r) PROVE KeyInv'
      <3>1. /\ pc[r] = "lock" /\ pc'[r] = "recheck" /\ \A q \in Req \ {r} : pc'[q] = pc[q]
            /\ lock[key[r]] = NoReq /\ lock'[key[r]] = r
            /\ \A k \in Key \ {key[r]} : lock'[k] = lock[k]
            /\ UNCHANGED <<key, body, answer, reply, cache, recorded, expiries, losses>>
        BY <2>5 DEF TryLock, Goto, TypeOK
      <3>2. LockHeld'
        BY <3>1, IdempotencyAssumption DEF KeyInv, LockHeld, TypeOK
      <3>3. NoRunBehindRecord' /\ FromRecords'
        BY <3>1 DEF KeyInv, NoRunBehindRecord, FromRecords, Live
      <3>4. RecordsLive' /\ AnswersAreDurable'
        BY <3>1 DEF KeyInv, RecordsLive, AnswersAreDurable, Live
      <3>5. QED
        BY <3>2, <3>3, <3>4 DEF KeyInv
    <2>6. ASSUME NEW r \in Req, BeginTx(r) PROVE KeyInv'
      BY <2>6, GotoKeepsInv DEF BeginTx, Locked
    <2>7. ASSUME NEW r \in Req, Handle(r) PROVE \A q \in Req \ {r} : answer'[q] = answer[q]
      <3>1. PICK a : answer' = [answer EXCEPT ![r] = a]
        BY <2>7 DEF Handle
      <3>2. QED
        BY <3>1 DEF TypeOK
    <2>8. ASSUME NEW r \in Req, HandlerAnswers(r) PROVE KeyInv'
      BY <2>7, <2>8, GotoKeepsInv DEF HandlerAnswers, Locked
    <2>9. ASSUME NEW r \in Req, HandlerFails(r) PROVE KeyInv'
      BY <2>1, <2>7, <2>9, FinishKeepsInv DEF HandlerFails
    <2>10. ASSUME NEW r \in Req, RecordFails(r) \/ Vanish(r) PROVE KeyInv'
      BY <2>1, <2>10, FinishKeepsInv DEF RecordFails, Vanish
    <2>11. ASSUME NEW r \in Req, Answer(r) PROVE KeyInv'
      <3> DEFINE a == IF Hit(r) THEN cache[key[r]].answer ELSE answer[r]
      <3>1. RecordOf(key[r], body[r], a) \in recorded
        BY <2>11, HitIsRecorded DEF Answer, KeyInv, FromRecords, RecordOf
      <3>2. Ok(a).answer = a /\ Finish(r, Ok(a))
        BY <2>11 DEF Answer, Ok
      <3> HIDE DEF a
      <3>3. QED
        BY <2>11, <3>1, <3>2, FinishKeepsInv DEF Answer
    <2>12. ASSUME NEW r \in Req, LoseLock(r) PROVE KeyInv'
      <3>1. losses' # 0
        BY <2>12 DEF LoseLock, TypeOK
      <3>2. UNCHANGED <<pc, key, body, answer, reply, cache, recorded>>
        BY <2>12 DEF LoseLock
      <3>3. FromRecords' /\ AnswersAreDurable'
        BY <3>2 DEF KeyInv, FromRecords, AnswersAreDurable, Live
      <3>4. QED
        BY <3>1, <3>3 DEF KeyInv, LockHeld, NoRunBehindRecord, RecordsLive
    <2>13. ASSUME NEW k \in Key, Expire(k) PROVE KeyInv'
      <3>1. expiries' # 0 /\ losses' = losses
        BY <2>13 DEF Expire, TypeOK
      <3>2. \A j \in Key : Live(j)' => Live(j) /\ cache'[j] = cache[j]
        BY <2>13 DEF Expire, TypeOK, Live
      <3>3. UNCHANGED <<pc, key, body, answer, reply, lock, recorded>>
        BY <2>13 DEF Expire
      <3>4. NoRunBehindRecord'
        BY <3>1, <3>2, <3>3 DEF KeyInv, NoRunBehindRecord, TypeOK
      <3>5. FromRecords'
        BY <3>2, <3>3 DEF KeyInv, FromRecords
      <3>6. QED
        BY <3>1, <3>3, <3>4, <3>5 DEF KeyInv, LockHeld, RecordsLive, AnswersAreDurable
    <2>14. CASE UNCHANGED vars
      BY <2>14 DEF vars, KeyInv, LockHeld, NoRunBehindRecord, FromRecords, RecordsLive,
                   AnswersAreDurable, Live
    <2>15. ASSUME NEW r \in Req, Serve(r) PROVE KeyInv'
      BY <2>3, <2>4, <2>5, <2>6, <2>8, <2>9, <2>10, <2>11, <2>15, RecordKeepsInv DEF Serve
    <2>16. QED
      BY <2>2, <2>10, <2>12, <2>13, <2>14, <2>15 DEF Next, AllDone
  <1>3. QED
    BY <1>1, <1>2, TypeCorrect, PTL DEF Spec

\* While locks and rows last, one key has one body and one answer.
THEOREM OneAnswer == Spec => []OneAnswerPerKey
  <1>1. TypeOK /\ KeyInv => OneAnswerPerKey
    <2> SUFFICES ASSUME TypeOK, KeyInv, expiries = 0, losses = 0,
                        NEW r \in Req, NEW s \in Req,
                        reply[r].kind = "ok", reply[s].kind = "ok", key[r] = key[s]
                 PROVE  body[r] = body[s] /\ reply[r] = reply[s]
      BY DEF OneAnswerPerKey
    <2> DEFINE x == RecordOf(key[r], body[r], reply[r].answer)
               y == RecordOf(key[s], body[s], reply[s].answer)
    <2>1. x \in recorded /\ y \in recorded
      BY DEF KeyInv, AnswersAreDurable, RecordOf
    <2>2. /\ x.key = key[r] /\ x.body = body[r] /\ x.answer = reply[r].answer
          /\ y.key = key[s] /\ y.body = body[s] /\ y.answer = reply[s].answer
      BY DEF RecordOf
    <2> HIDE DEF x, y
    <2>3. x.body = y.body /\ x.answer = y.answer
      BY <2>1, <2>2 DEF KeyInv, RecordsLive
    <2>4. /\ reply[r] = [kind |-> reply[r].kind, answer |-> reply[r].answer]
          /\ reply[s] = [kind |-> reply[s].kind, answer |-> reply[s].answer]
      BY DEF TypeOK, Reply
    <2>5. reply[r].answer = reply[s].answer /\ body[r] = body[s]
      BY <2>2, <2>3
    <2>6. QED
      BY <2>4, <2>5
  <1>2. QED
    BY <1>1, TypeCorrect, KeyInvariant, PTL

\* No handler runs behind a live record.
THEOREM LockedCheckHolds == Spec => []NoRunBehindRecord
  BY KeyInvariant, PTL DEF KeyInv

\* No answer is given that a crash could forget, lock loss and expiry included.
THEOREM DurableAnswers == Spec => []AnswersAreDurable
  BY KeyInvariant, PTL DEF KeyInv

\* Before the first expiry a response is recorded as a new event: what another
\* request recorded under the key would be live, and a handler that finds a
\* live record does not run.
THEOREM FirstRecordIsFresh == Spec => []RecordedOnce
  <1>1. Init => RecordedOnce
    BY DEF Init, RecordedOnce
  <1>2. TypeOK /\ KeyInv /\ RecordedOnce /\ [Next]_vars => RecordedOnce'
    <2> SUFFICES ASSUME TypeOK, KeyInv, RecordedOnce, [Next]_vars,
                        expiries' = 0, losses' = 0, NEW q \in Req
                 PROVE  fresh'[q]
      BY DEF RecordedOnce
    <2>1. expiries = 0 /\ losses = 0
      <3>1. CASE \E r \in Req : LoseLock(r)
        BY <3>1 DEF LoseLock, TypeOK
      <3>2. CASE \E k \in Key : Expire(k)
        BY <3>2 DEF Expire, TypeOK
      <3>3. CASE ~ (\E r \in Req : LoseLock(r)) /\ ~ (\E k \in Key : Expire(k))
        <4>1. CASE \E r \in Req : Serve(r)
          BY <4>1 DEF Serve, Lookup, TryLock, Recheck, LookupThen, BeginTx, HandlerAnswers,
                 HandlerFails, RecordResponse, RecordFails, Answer, mishaps
        <4>2. CASE ~ \E r \in Req : Serve(r)
          BY <3>3, <4>2 DEF Next, Arrive, Vanish, AllDone, vars, mishaps
        <4> QED
          BY <4>1, <4>2
      <3> QED
        BY <3>1, <3>2, <3>3
    <2>2. fresh[q]
      BY <2>1 DEF RecordedOnce
    <2>3. CASE \E r \in Req : RecordResponse(r)
      <3> PICK r \in Req : RecordResponse(r)
        BY <2>3
      <3> DEFINE rec == [key |-> key[r], body |-> body[r], answer |-> answer[r]]
      <3>1. pc[r] = "record" /\ fresh' = [fresh EXCEPT ![r] = rec \notin recorded]
        BY DEF RecordResponse
      <3>2. ~ Live(key[r])
        BY <2>1, <3>1 DEF KeyInv, NoRunBehindRecord
      <3>3. rec \notin recorded
        BY <2>1, <3>2 DEF KeyInv, RecordsLive
      <3> QED
        BY <2>2, <3>1, <3>3 DEF TypeOK
    <2>4. CASE ~ \E r \in Req : RecordResponse(r)
      <3>1. fresh' = fresh
        BY <2>4 DEF Next, Serve, Arrive, Lookup, TryLock, Recheck, LookupThen, BeginTx,
               HandlerAnswers, HandlerFails, RecordFails, Answer, Vanish, LoseLock, Expire,
               AllDone, vars
      <3> QED
        BY <2>2, <3>1
    <2> QED
      BY <2>3, <2>4
  <1> QED
    BY <1>1, <1>2, TypeCorrect, KeyInvariant, PTL DEF Spec

-----------------------------------------------------------------------------
(* Commands (Fleet)                                                        *)

\* A set of numbers that is not empty has a least member.
LEMMA LeastExists ==
    ASSUME NEW S \in SUBSET Nat, S # {}
    PROVE  \E x \in S : \A y \in S : x =< y
  <1> DEFINE R == OpToRel(<, Nat)
  <1>1. IsWellFoundedOn(R, Nat) /\ \A x, y \in Nat : y < x => <<y, x>> \in R
    BY NatLessThanWellFounded DEF OpToRel
  <1> HIDE DEF R
  <1>2. \E x \in S : \A y \in S : ~(<<y, x>> \in R)
    BY <1>1, WFMin
  <1>3. PICK x \in S : \A y \in S : ~(<<y, x>> \in R)
    BY <1>2
  <1>4. \A n, m \in Nat : ~(n < m) => m =< n
    OBVIOUS
  <1> QED
    BY <1>1, <1>3, <1>4

\* The function of prefixes that Keep defines.
Keeping(f, s, T) ==
    f = [n \in 0..Len(s) |->
            IF n = 0 THEN <<>>
            ELSE IF s[n] \in T THEN Append(f[n - 1], s[n]) ELSE f[n - 1]]

\* There is such a function.
LEMMA KeepingExists ==
    ASSUME NEW S, NEW s \in Seq(S), NEW T
    PROVE  \E f : Keeping(f, s, T)
  <1> DEFINE L == Len(s)
             U == Seq(S \intersect T)
             Kept(f, k) == /\ f \in [0..k -> U] /\ f[0] = <<>>
                           /\ \A n \in 1..k : f[n] = IF s[n] \in T THEN Append(f[n - 1], s[n])
                                                     ELSE f[n - 1]
             Bad == {k \in 0..L : ~\E f : Kept(f, k)}
  <1>0. L \in Nat /\ <<>> \in U /\ \A n \in 1..L : s[n] \in S
    OBVIOUS
  <1>1. Bad = {}
    <2> SUFFICES ASSUME Bad # {} PROVE FALSE
      OBVIOUS
    <2>1. PICK k \in Bad : \A other \in Bad : k =< other
      <3>1. Bad \in SUBSET Nat
        OBVIOUS
      <3> HIDE DEF Bad
      <3> QED
        BY <3>1, LeastExists
    <2>2. k # 0
      <3>1. Kept([n \in 0..0 |-> <<>>], 0)
        OBVIOUS
      <3> HIDE DEF Kept
      <3> QED
        BY <2>1, <3>1
    <2>3. k \in 1..L /\ k - 1 \in 0..L /\ ~(k =< k - 1)
      BY <2>1, <2>2, <1>0
    <2>4. PICK f : Kept(f, k - 1)
      <3>1. k - 1 \notin Bad
        BY <2>1, <2>3
      <3> HIDE DEF Kept
      <3> QED
        BY <2>3, <3>1
    <2> DEFINE last == IF s[k] \in T THEN Append(f[k - 1], s[k]) ELSE f[k - 1]
               g == [n \in 0..k |-> IF n = k THEN last ELSE f[n]]
    <2>5. k \in Nat /\ k - 1 \in Nat /\ f \in [0..k-1 -> U] /\ k - 1 \in 0..k-1
      BY <2>3, <2>4
    <2>6. last \in U
      <3>1. f[k - 1] \in U /\ s[k] \in S
        BY <1>0, <2>3, <2>5
      <3> QED
        BY <3>1
    <2>7. Kept(g, k)
      <3> HIDE DEF U, last
      <3>2. g \in [0..k -> U]
        <4> SUFFICES ASSUME NEW n \in 0..k PROVE g[n] \in U
          OBVIOUS
        <4>1. n = k \/ n \in 0..k-1
          BY <2>5
        <4> QED
          BY <2>5, <2>6, <4>1
      <3>3. g[0] = <<>>
        BY <2>3, <2>4, <2>5
      <3>4. ASSUME NEW n \in 1..k
            PROVE  g[n] = IF s[n] \in T THEN Append(g[n - 1], s[n]) ELSE g[n - 1]
        <4>1. CASE n = k
          <5>1. g[k] = last /\ g[k - 1] = f[k - 1]
            BY <2>3, <2>5
          <5> QED
            BY <4>1, <5>1 DEF last
        <4>2. CASE n # k
          <5>1. n \in 1..k-1 /\ n - 1 # k /\ n \in 0..k /\ n - 1 \in 0..k
            BY <2>5, <4>2
          <5>2. g[n] = f[n] /\ g[n - 1] = f[n - 1]
            BY <4>2, <5>1
          <5> QED
            BY <2>4, <5>1, <5>2
        <4> QED
          BY <4>1, <4>2
      <3> HIDE DEF g
      <3> QED
        BY <3>2, <3>3, <3>4
    <2>8. \E h : Kept(h, k)
      <3> HIDE DEF Kept, g
      <3> QED
        BY <2>7
    <2> HIDE DEF Kept
    <2> QED
      BY <2>1, <2>8
  <1>2. PICK f : Kept(f, L)
    <2>1. L \in 0..L
      BY <1>0
    <2> HIDE DEF Kept
    <2> QED
      BY <1>1, <2>1
  <1>3. Keeping(f, s, T)
    <2>1. f = [n \in 0..L |-> f[n]]
      BY <1>2
    <2>2. \A n \in 0..L : f[n] = IF n = 0 THEN <<>>
                                 ELSE IF s[n] \in T THEN Append(f[n - 1], s[n]) ELSE f[n - 1]
      <3> SUFFICES ASSUME NEW n \in 0..L, n # 0
                   PROVE  f[n] = IF s[n] \in T THEN Append(f[n - 1], s[n]) ELSE f[n - 1]
        BY <1>2
      <3>1. n \in 1..L
        BY <1>0
      <3> QED
        BY <1>2, <3>1
    <2> QED
      BY <2>1, <2>2 DEF Keeping
  <1> QED
    BY <1>2, <1>3

\* One step of Keep, and what it collects.
LEMMA KeepingIs ==
    ASSUME NEW S, NEW s \in Seq(S), NEW T, NEW f, Keeping(f, s, T)
    PROVE  /\ f[0] = <<>>
           /\ \A n \in 1..Len(s) :
                 f[n] = IF s[n] \in T THEN Append(f[n - 1], s[n]) ELSE f[n - 1]
           /\ \A n \in 0..Len(s) : f[n] \in Seq(S \intersect T)
  <1> DEFINE L == Len(s)
             U == Seq(S \intersect T)
             Bad == {k \in 0..L : f[k] \notin U}
  <1>0. L \in Nat /\ <<>> \in U /\ \A n \in 1..L : s[n] \in S
    OBVIOUS
  <1>1. \A n \in 0..L : f[n] = IF n = 0 THEN <<>>
                                ELSE IF s[n] \in T THEN Append(f[n - 1], s[n]) ELSE f[n - 1]
    BY DEF Keeping
  <1>2. f[0] = <<>>
    <2>1. 0 \in 0..L
      BY <1>0
    <2> QED
      BY <1>1, <2>1
  <1>3. \A n \in 1..L : f[n] = IF s[n] \in T THEN Append(f[n - 1], s[n]) ELSE f[n - 1]
    <2>1. \A n \in 1..L : n \in 0..L /\ n # 0
      BY <1>0
    <2> QED
      BY <1>1, <2>1
  <1>4. Bad = {}
    <2> SUFFICES ASSUME Bad # {} PROVE FALSE
      OBVIOUS
    <2>1. PICK k \in Bad : \A other \in Bad : k =< other
      <3>1. Bad \in SUBSET Nat
        OBVIOUS
      <3> HIDE DEF Bad
      <3> QED
        BY <3>1, LeastExists
    <2>2. k # 0
      BY <1>0, <1>2, <2>1
    <2>3. k \in 1..L /\ k - 1 \in 0..L /\ ~(k =< k - 1)
      BY <2>1, <2>2, <1>0
    <2>4. f[k - 1] \in U /\ s[k] \in S
      BY <1>0, <2>1, <2>3
    <2>5. f[k] \in U
      <3>1. CASE s[k] \in T
        <4>1. f[k] = Append(f[k - 1], s[k]) /\ s[k] \in S \intersect T
          BY <1>3, <2>3, <2>4, <3>1
        <4> HIDE DEF Bad
        <4> QED
          BY <2>4, <4>1
      <3>2. CASE s[k] \notin T
        BY <1>3, <2>3, <2>4, <3>2
      <3> QED
        BY <3>1, <3>2
    <2> QED
      BY <2>1, <2>5
  <1> QED
    BY <1>2, <1>3, <1>4

\* What Keep returns is the end of that function.
LEMMA KeepIs ==
    ASSUME NEW S, NEW s \in Seq(S), NEW T
    PROVE  \E f : Keeping(f, s, T) /\ Keep(s, T) = f[Len(s)]
  <1> DEFINE keep == CHOOSE f : Keeping(f, s, T)
  <1>1. Keeping(keep, s, T)
    BY KeepingExists
  <1>2. Keep(s, T) = keep[Len(s)]
    BY DEF Keep, Keeping
  <1> HIDE DEF keep
  <1> QED
    BY <1>1, <1>2

\* Keep returns a sequence of what it was to keep.
LEMMA KeepInSeq ==
    ASSUME NEW S, NEW s \in Seq(S), NEW T
    PROVE  Keep(s, T) \in Seq(S)
  <1>1. PICK f : Keeping(f, s, T) /\ Keep(s, T) = f[Len(s)]
    BY KeepIs
  <1>2. Len(s) \in 0..Len(s)
    OBVIOUS
  <1>3. f[Len(s)] \in Seq(S \intersect T)
    BY <1>1, <1>2, KeepingIs
  <1> QED
    BY <1>1, <1>3

\* Routes that pass through others lead to candidates.
LEMMA ThroughInSeq ==
    ASSUME FleetTypeOK, NEW kind \in Kind
    PROVE  Through(kind) \in Seq(Candidate)
  <1> DEFINE hops == Keep(node[Target].via, {v \in Node : node[v].direct})
  <1>1. node[Target].via \in Seq(Node)
    BY FleetAssumption DEF FleetTypeOK, Route
  <1>2. hops \in Seq(Node)
    BY <1>1, KeepInSeq
  <1>3. Through(kind) = [i \in 1..Len(hops) |-> [kind |-> kind, via |-> hops[i]]]
    BY DEF Through
  <1> HIDE DEF hops
  <1>4. \A i \in 1..Len(hops) : [kind |-> kind, via |-> hops[i]] \in Candidate
    BY <1>2 DEF Candidate
  <1>5. Len(hops) \in Nat
    BY <1>2
  <1> QED
    BY <1>3, <1>4, <1>5

\* The candidates of a walk are candidates (Select).
LEMMA SelectInSeq ==
    ASSUME FleetTypeOK
    PROVE  Select \in Seq(Candidate)
  <1> DEFINE direct == IF node[Target].direct
                       THEN <<[kind |-> "direct", via |-> Target]>> ELSE <<>>
             all == direct \o Through("relay") \o Through("queue")
  <1>1. [kind |-> "direct", via |-> Target] \in Candidate
    BY FleetAssumption DEF Candidate, Kind
  <1>2. direct \in Seq(Candidate)
    BY <1>1
  <1>3. Through("relay") \in Seq(Candidate) /\ Through("queue") \in Seq(Candidate)
    BY ThroughInSeq DEF Kind
  <1>4. Select = Keep(all, Candidate \ cooldowns)
    BY DEF Select
  <1> HIDE DEF direct
  <1>5. all \in Seq(Candidate)
    BY <1>2, <1>3
  <1> HIDE DEF all
  <1> QED
    BY <1>4, <1>5, KeepInSeq

\* A fetch returns commands (PendingForTarget).
LEMMA PendingInSeq ==
    ASSUME FleetTypeOK
    PROVE  PendingForTarget \in Seq(Command)
  <1> DEFINE pending == Keep(order[Hub], {c \in Command : queue[Hub][c] = "pending"})
             last == IF Len(pending) < DrainLimit THEN Len(pending) ELSE DrainLimit
  <1>1. order[Hub] \in Seq(Command)
    BY FleetAssumption DEF FleetTypeOK
  <1>2. pending \in Seq(Command)
    BY <1>1, KeepInSeq
  <1>3. PendingForTarget = SubSeq(pending, 1, last)
    BY DEF PendingForTarget
  <1> HIDE DEF pending
  <1>4. last \in Nat /\ last <= Len(pending)
    BY <1>2, FleetAssumption
  <1> HIDE DEF last
  <1>5. \A i \in 1..last : pending[i] \in Command
    BY <1>2, <1>4
  <1> QED
    BY <1>2, <1>3, <1>4, <1>5

-----------------------------------------------------------------------------
(* The steps                                                               *)

\* A fault is counted.
LEMMA FaultCounts ==
    ASSUME FleetTypeOK, Fault
    PROVE  faults' \in 0..MaxFaults
  BY FleetAssumption DEF FleetTypeOK, Fault

\* Nothing is sent, parked or answered at first.
LEMMA FleetInitInv == FleetInit => FleetInv
  <1> SUFFICES ASSUME FleetInit PROVE FleetInv
    OBVIOUS
  <1>1. \A n \in Node : InitialRoute(n) \in Route
    BY FleetAssumption DEF InitialRoute, Route
  <1>2. FleetTypeOK
    BY <1>1, FleetAssumption DEF FleetInit, FleetTypeOK, NodeEvent, Unset, RowState, Status
  <1> QED
    BY <1>2, FleetAssumption
    DEF FleetInit, FleetInv, WalksOK, AnswerOK, SuccessOK, AcksRecorded, DoneMeansExecuted, Unset

\* One lemma per step: each keeps the invariant.
LEMMA UpdateRouteStep ==
    ASSUME FleetInv, NEW kind \in NodeEvent, NEW r \in RouteChoices, UpdateRoute(kind, r)
    PROVE  FleetInv'
  <1> USE DEF UpdateRoute, FleetInv, registryVars, senderVars, hubVars, spokeVars, targetVars
  <1>1. FleetTypeOK'
    BY FleetAssumption DEF FleetTypeOK
  <1>2. (WalksOK /\ AnswerOK /\ SuccessOK /\ AcksRecorded)'
    BY DEF WalksOK, AnswerOK, SuccessOK, AcksRecorded, DoneMeansExecuted
  <1> QED
    BY <1>1, <1>2

LEMMA BeginStep ==
    ASSUME FleetInv, NEW c \in Command, Begin(c)
    PROVE  FleetInv'
  <1> USE DEF Begin, FleetInv, registryVars, senderVars, hubVars, spokeVars, targetVars
  <1>1. FleetTypeOK'
    <2>1. plan' \in [Command -> Seq(Candidate)] /\ walks' \in [Command -> 0..MaxWalks]
      <3>1. Select \in Seq(Candidate)
        BY SelectInSeq
      <3>2. walks[c] + 1 \in 0..MaxWalks
        BY FleetAssumption DEF FleetTypeOK
      <3> QED
        BY <3>1, <3>2 DEF FleetTypeOK
    <2> QED
      BY <2>1 DEF FleetTypeOK
  <1>2. (WalksOK /\ AnswerOK /\ SuccessOK /\ AcksRecorded)'
    BY DEF WalksOK, AnswerOK, SuccessOK, AcksRecorded, DoneMeansExecuted, FleetTypeOK
  <1> QED
    BY <1>1, <1>2

\* The rows of a node, and the same ones after some were parked.
OnlyParks(old, new) ==
    \A c \in Command : new[c] = old[c] \/ (old[c] = "absent" /\ new[c] = "pending")

\* What a node does with a command: a row that is parked was absent.
LEMMA HandleStep ==
    ASSUME FleetInv, NEW c \in Command, NEW k \in Candidate, HandleCommand(c, k)
    PROVE  /\ queue' \in [Node -> [Command -> RowState]] /\ order' \in [Node -> Seq(Command)]
           /\ OnlyParks(queue[Hub], queue'[Hub])
           /\ UNCHANGED <<ackRecord, unrecorded>>
  <1>1. k.via \in Node /\ Hub \in Node
    BY FleetAssumption DEF Candidate
  <1>0. queue \in [Node -> [Command -> RowState]] /\ order \in [Node -> Seq(Command)]
    BY DEF FleetInv, FleetTypeOK
  <1>2. CASE Enqueue(c, k.via)
    <2> DEFINE n == k.via
    <2>1. /\ queue[n][c] = "absent" /\ queue' = [queue EXCEPT ![n][c] = "pending"]
          /\ order' = [order EXCEPT ![n] = Append(@, c)] /\ UNCHANGED <<ackRecord, unrecorded>>
      BY <1>2 DEF Enqueue
    <2>2. n \in Node
      BY <1>1
    <2> HIDE DEF n
    <2>3. queue' \in [Node -> [Command -> RowState]]
      BY <1>0, <2>1, <2>2 DEF RowState
    <2>4. order' \in [Node -> Seq(Command)]
      BY <1>0, <2>1, <2>2
    <2>5. OnlyParks(queue[Hub], queue'[Hub])
      BY <1>0, <1>1, <2>1, <2>2 DEF OnlyParks
    <2> QED
      BY <2>1, <2>3, <2>4, <2>5
  <1>3. CASE UNCHANGED hubVars
    <2>1. queue' = queue /\ order' = order /\ UNCHANGED <<ackRecord, unrecorded>>
      BY <1>3 DEF hubVars
    <2> QED
      BY <1>0, <2>1 DEF OnlyParks
  <1> QED
    BY <1>2, <1>3 DEF HandleCommand

\* A row that a walk leaves alone, or parks, says nothing new.
LEMMA RowsStay ==
    ASSUME FleetInv,
           OnlyParks(queue[Hub], queue'[Hub]),
           UNCHANGED <<ackRecord, unrecorded, spokeVars, acks, targetVars>>
    PROVE  (AnswerOK /\ SuccessOK /\ AcksRecorded)'
  BY DEF OnlyParks, FleetInv, spokeVars, targetVars, AnswerOK, SuccessOK, AcksRecorded,
         DoneMeansExecuted

\* The candidate a walk is at.
LEMMA HeadFits ==
    ASSUME FleetInv, NEW c \in Command, fate[c] = "walking"
    PROVE  /\ Head(plan[c]) \in Candidate /\ Tail(plan[c]) \in Seq(Candidate)
           /\ Len(plan[c]) # 1 => Tail(plan[c]) # <<>>
  <1>1. plan[c] \in Seq(Candidate) /\ plan[c] # <<>>
    BY DEF FleetInv, WalksOK, FleetTypeOK
  <1>2. Len(plan[c]) \in Nat /\ Len(plan[c]) # 0 /\ Len(Tail(plan[c])) = Len(plan[c]) - 1
    BY <1>1
  <1>3. Len(plan[c]) # 1 => Tail(plan[c]) # <<>>
    <2>1. Len(plan[c]) # 1 => Len(Tail(plan[c])) # 0
      BY <1>2
    <2>2. Len(<<>>) = 0
      OBVIOUS
    <2> QED
      BY <2>1, <2>2
  <1> QED
    BY <1>1, <1>3

LEMMA AcceptedStep ==
    ASSUME FleetInv, NEW c \in Command, Accepted(c)
    PROVE  FleetInv'
  <1> USE DEF Accepted, registryVars, senderVars, spokeVars, targetVars
  <1>1. /\ queue' \in [Node -> [Command -> RowState]] /\ order' \in [Node -> Seq(Command)]
        /\ OnlyParks(queue[Hub], queue'[Hub])
        /\ UNCHANGED <<ackRecord, unrecorded>>
    BY HeadFits, HandleStep
  <1>2. FleetTypeOK'
    BY <1>1 DEF FleetInv, FleetTypeOK
  <1>3. WalksOK'
    BY DEF FleetInv, WalksOK, FleetTypeOK
  <1>4. (AnswerOK /\ SuccessOK /\ AcksRecorded)'
    BY <1>1, RowsStay
  <1> QED
    BY <1>2, <1>3, <1>4 DEF FleetInv

LEMMA RefusedStep ==
    ASSUME FleetInv, NEW c \in Command, Refused(c)
    PROVE  FleetInv'
  <1> USE DEF Refused, registryVars, senderVars, spokeVars, targetVars, hubVars
  <1>1. FleetTypeOK'
    BY FaultCounts DEF FleetInv, FleetTypeOK
  <1>2. WalksOK'
    BY DEF FleetInv, WalksOK, FleetTypeOK
  <1>3. (AnswerOK /\ SuccessOK /\ AcksRecorded)'
    BY RowsStay DEF OnlyParks
  <1> QED
    BY <1>1, <1>2, <1>3 DEF FleetInv

LEMMA UnansweredStep ==
    ASSUME FleetInv, NEW c \in Command, Unanswered(c)
    PROVE  FleetInv'
  <1> USE DEF Unanswered, registryVars, senderVars, spokeVars, targetVars
  <1>0. /\ Head(plan[c]) \in Candidate /\ Tail(plan[c]) \in Seq(Candidate)
        /\ Len(plan[c]) # 1 => Tail(plan[c]) # <<>>
    BY HeadFits
  <1>1. /\ queue' \in [Node -> [Command -> RowState]] /\ order' \in [Node -> Seq(Command)]
        /\ OnlyParks(queue[Hub], queue'[Hub])
        /\ UNCHANGED <<ackRecord, unrecorded>>
    <2>1. CASE HandleCommand(c, Head(plan[c]))
      BY <1>0, <2>1, HandleStep
    <2>2. CASE UNCHANGED hubVars
      <3>1. queue' = queue /\ order' = order /\ UNCHANGED <<ackRecord, unrecorded>>
        BY <2>2 DEF hubVars
      <3>2. queue \in [Node -> [Command -> RowState]] /\ order \in [Node -> Seq(Command)]
        BY DEF FleetInv, FleetTypeOK
      <3> QED
        BY <3>1, <3>2 DEF OnlyParks
    <2> QED
      BY <2>1, <2>2
  <1>2. FleetTypeOK'
    BY <1>0, <1>1, FaultCounts DEF FleetInv, FleetTypeOK
  <1>3. WalksOK'
    BY <1>0 DEF FleetInv, WalksOK, FleetTypeOK
  <1>4. (AnswerOK /\ SuccessOK /\ AcksRecorded)'
    BY <1>1, RowsStay
  <1> QED
    BY <1>2, <1>3, <1>4 DEF FleetInv

LEMMA CooldownStep ==
    ASSUME FleetInv, NEW k \in Candidate, CooldownEnds(k)
    PROVE  FleetInv'
  <1> USE DEF CooldownEnds, registryVars, senderVars, spokeVars, targetVars, hubVars
  <1>1. FleetTypeOK'
    BY DEF FleetInv, FleetTypeOK
  <1>2. (WalksOK /\ AnswerOK /\ SuccessOK /\ AcksRecorded)'
    BY DEF FleetInv, WalksOK, AnswerOK, SuccessOK, AcksRecorded, DoneMeansExecuted
  <1> QED
    BY <1>1, <1>2 DEF FleetInv

LEMMA FetchStep ==
    ASSUME FleetInv, FetchPending
    PROVE  FleetInv'
  <1> USE DEF FetchPending, registryVars, senderVars, spokeVars, targetVars, hubVars
  <1>1. FleetTypeOK'
    BY PendingInSeq DEF FleetInv, FleetTypeOK
  <1>2. status = Unset
    BY DEF FleetInv, AnswerOK
  <1>3. (WalksOK /\ AnswerOK /\ SuccessOK /\ AcksRecorded)'
    BY <1>2 DEF FleetInv, WalksOK, AnswerOK, SuccessOK, AcksRecorded, DoneMeansExecuted, Unset
  <1> QED
    BY <1>1, <1>3 DEF FleetInv

\* A command of the batch is one of the sender's.
LEMMA BatchFits ==
    ASSUME FleetTypeOK, batch # <<>>
    PROVE  Head(batch) \in Command /\ Tail(batch) \in Seq(Command)
  BY DEF FleetTypeOK

LEMMA ExecuteStep ==
    ASSUME FleetInv, ExecuteLocal
    PROVE  FleetInv'
  <1> USE DEF registryVars, senderVars, hubVars
  <1> DEFINE c == Head(batch)
  <1>1. /\ batch # <<>> /\ status = Unset /\ c \in Command
        /\ UNCHANGED <<registryVars, senderVars, hubVars, batch, acks>>
    BY BatchFits DEF ExecuteLocal, FleetInv
  <1>2. /\ \/ status' = "ok" /\ c \in executed'
           \/ status' \in {"rejected", "error"}
        /\ executed' \in {executed, executed \union {c}}
        /\ \/ record' = record
           \/ record' = [record EXCEPT ![c] = "ok"] /\ c \in executed'
           \/ record' = [record EXCEPT ![c] = "rejected"]
        /\ faults' \in 0..MaxFaults
    <2>1. CASE record[c] # Unset /\ status' = record[c] /\ UNCHANGED <<record, executed, faults>>
      BY <1>1, <2>1 DEF FleetInv, FleetTypeOK, SuccessOK
    <2>2. CASE /\ record[c] = Unset /\ UNCHANGED faults
               /\ \E s \in {"ok", "rejected"} :
                       /\ status' = s
                       /\ record' = [record EXCEPT ![c] = s]
                       /\ executed' = IF s = "ok" THEN executed \union {c} ELSE executed
      BY <1>1, <2>2 DEF FleetInv, FleetTypeOK
    <2>3. CASE /\ Fault /\ status' = "error" /\ executed' \in {executed, executed \union {c}}
               /\ UNCHANGED record
      BY <2>3, FaultCounts DEF FleetInv
    <2> QED
      BY <2>1, <2>2, <2>3 DEF ExecuteLocal
  <1> HIDE DEF c
  <1>3. FleetTypeOK'
    BY <1>1, <1>2 DEF FleetInv, FleetTypeOK, Status
  <1>4. (WalksOK /\ AnswerOK /\ AcksRecorded)'
    BY <1>1 DEF FleetInv, WalksOK, AnswerOK, AcksRecorded
  <1>5. SuccessOK'
    <2>1. executed \subseteq executed'
      BY <1>2
    <2>2. \A d \in Command : record'[d] = "ok" => d \in executed'
      BY <1>1, <1>2, <2>1 DEF FleetInv, SuccessOK, FleetTypeOK
    <2>3. status' = "ok" => Head(batch') \in executed'
      BY <1>1, <1>2 DEF c
    <2> QED
      BY <1>1, <2>1, <2>2, <2>3 DEF FleetInv, SuccessOK, DoneMeansExecuted
  <1> QED
    BY <1>3, <1>4, <1>5 DEF FleetInv

LEMMA LocalFailsStep ==
    ASSUME FleetInv, LocalFails
    PROVE  FleetInv'
  <1> USE DEF registryVars, senderVars, hubVars
  <1>1. /\ batch # <<>> /\ status = Unset /\ Head(batch) \in Command /\ batch' \in Seq(Command)
        /\ UNCHANGED <<registryVars, senderVars, hubVars, status, acks, record>>
    BY BatchFits DEF LocalFails, FleetInv
  <1>2. executed' \in {executed, executed \union {Head(batch)}} /\ faults' \in 0..MaxFaults
    BY FaultCounts DEF LocalFails, FleetInv, FleetTypeOK
  <1>3. FleetTypeOK'
    BY <1>1, <1>2 DEF FleetInv, FleetTypeOK
  <1>4. (WalksOK /\ AnswerOK /\ SuccessOK /\ AcksRecorded)'
    BY <1>1, <1>2 DEF FleetInv, WalksOK, AnswerOK, SuccessOK, AcksRecorded, DoneMeansExecuted, Unset
  <1> QED
    BY <1>3, <1>4 DEF FleetInv

LEMMA AckHubStep ==
    ASSUME FleetInv, AckHub
    PROVE  FleetInv'
  <1> USE DEF AckHub, registryVars, senderVars, hubVars, targetVars
  <1>1. batch # <<>> /\ Head(batch) \in Command /\ batch' \in Seq(Command) /\ status \in Status
    BY BatchFits DEF FleetInv, AnswerOK, FleetTypeOK
  <1>2. FleetTypeOK'
    BY <1>1 DEF FleetInv, FleetTypeOK
  <1>3. (WalksOK /\ AnswerOK /\ AcksRecorded)'
    BY DEF FleetInv, WalksOK, AnswerOK, AcksRecorded
  <1>4. SuccessOK'
    BY <1>1 DEF FleetInv, SuccessOK, DoneMeansExecuted, Unset
  <1> QED
    BY <1>2, <1>3, <1>4 DEF FleetInv

LEMMA RestartStep ==
    ASSUME FleetInv, SpokeRestarts
    PROVE  FleetInv'
  <1> USE DEF SpokeRestarts, registryVars, senderVars, hubVars, targetVars
  <1>1. FleetTypeOK'
    BY FaultCounts DEF FleetInv, FleetTypeOK
  <1>2. (WalksOK /\ AnswerOK /\ SuccessOK /\ AcksRecorded)'
    BY DEF FleetInv, WalksOK, AnswerOK, SuccessOK, AcksRecorded, DoneMeansExecuted, Unset
  <1> QED
    BY <1>1, <1>2 DEF FleetInv

\* An acknowledgement is recorded in the row, with the answer unless that fails.
LEMMA AcknowledgeCases ==
    ASSUME FleetInv, NEW c \in Command, NEW s \in Status, Acknowledge(c, s)
    PROVE  /\ \/ queue' = queue /\ ackRecord' = ackRecord /\ unrecorded' = unrecorded
              \/ /\ ackRecord[c] = Unset
                 /\ queue' = [queue EXCEPT ![Hub][c] = Outcome(s)]
                 /\ \/ ackRecord' = [ackRecord EXCEPT ![c] = s] /\ unrecorded' = unrecorded
                    \/ ackRecord' = ackRecord /\ unrecorded' = unrecorded \union {c}
           /\ faults' \in 0..MaxFaults
  BY FaultCounts DEF Acknowledge, FleetInv, FleetTypeOK

LEMMA AckArrivesStep ==
    ASSUME FleetInv, NEW c \in Command, NEW s \in Status, AckArrives(c, s)
    PROVE  FleetInv'
  <1> USE DEF registryVars, senderVars, spokeVars, targetVars
  <1>1. /\ <<c, s>> \in acks /\ acks' = acks \ {<<c, s>>} /\ Acknowledge(c, s)
        /\ UNCHANGED <<registryVars, senderVars, order, spokeVars, targetVars>>
    BY DEF AckArrives
  <1>2. CASE queue' = queue /\ ackRecord' = ackRecord /\ unrecorded' = unrecorded
             /\ faults' \in 0..MaxFaults
    <2>1. FleetTypeOK'
      BY <1>1, <1>2 DEF FleetInv, FleetTypeOK
    <2>2. (WalksOK /\ AnswerOK /\ SuccessOK /\ AcksRecorded)'
      BY <1>1, <1>2 DEF FleetInv, WalksOK, AnswerOK, SuccessOK, AcksRecorded, DoneMeansExecuted
    <2> QED
      BY <2>1, <2>2 DEF FleetInv
  <1>3. CASE /\ ackRecord[c] = Unset /\ faults' \in 0..MaxFaults
             /\ queue' = [queue EXCEPT ![Hub][c] = Outcome(s)]
             /\ \/ ackRecord' = [ackRecord EXCEPT ![c] = s] /\ unrecorded' = unrecorded
                \/ ackRecord' = ackRecord /\ unrecorded' = unrecorded \union {c}
    <2>1. Outcome(s) \in RowState /\ (Outcome(s) = "done" => s = "ok")
      BY DEF Outcome, RowState
    <2>2. FleetTypeOK'
      BY <1>1, <1>3, <2>1, FleetAssumption DEF FleetInv, FleetTypeOK
    <2>3. /\ \A d \in Command : d # c => queue'[Hub][d] = queue[Hub][d]
          /\ queue'[Hub][c] = Outcome(s)
      BY <1>3, FleetAssumption DEF FleetInv, FleetTypeOK
    <2>4. (WalksOK /\ AnswerOK)'
      BY <1>1 DEF FleetInv, WalksOK, AnswerOK
    <2>5. SuccessOK'
      BY <1>1, <2>1, <2>3 DEF FleetInv, SuccessOK, DoneMeansExecuted
    <2>6. AcksRecorded'
      <3>1. s # Unset
        BY DEF Status, Unset
      <3> QED
        BY <1>3, <2>3, <3>1 DEF FleetInv, AcksRecorded, FleetTypeOK
    <2> QED
      BY <2>2, <2>4, <2>5, <2>6 DEF FleetInv
  <1> QED
    BY <1>1, <1>2, <1>3, AcknowledgeCases

LEMMA AckLostStep ==
    ASSUME FleetInv, NEW c \in Command, NEW s \in Status, AckLost(c, s)
    PROVE  FleetInv'
  <1> USE DEF AckLost, registryVars, senderVars, hubVars, spokeVars, targetVars
  <1>1. FleetTypeOK'
    BY FaultCounts DEF FleetInv, FleetTypeOK
  <1>2. (WalksOK /\ AnswerOK /\ SuccessOK /\ AcksRecorded)'
    BY DEF FleetInv, WalksOK, AnswerOK, SuccessOK, AcksRecorded, DoneMeansExecuted
  <1> QED
    BY <1>1, <1>2 DEF FleetInv

LEMMA StutterInv ==
    ASSUME FleetInv, UNCHANGED fleetVars
    PROVE  FleetInv'
  BY DEF FleetInv, FleetTypeOK, WalksOK, AnswerOK, SuccessOK, AcksRecorded, DoneMeansExecuted, fleetVars

LEMMA FleetNextInv ==
    ASSUME FleetInv, FleetNext
    PROVE  FleetInv'
  BY UpdateRouteStep, BeginStep, AcceptedStep, RefusedStep, UnansweredStep, CooldownStep,
     FetchStep, ExecuteStep, LocalFailsStep, AckHubStep, RestartStep, AckArrivesStep, AckLostStep
  DEF FleetNext

\* The inductive invariant of the cross-node queue: what says of a command that it succeeded,
\* from the local api's record over the spoke's answer and the post under way to the hub's row,
\* says so of an effect in the target's log, and an acknowledged row has its answer on record
\* (Router.Send, spoke.drain, QueueService.Ack).
THEOREM FleetInvariance == FleetSpec => []FleetInv
  <1>1. FleetInv /\ [FleetNext]_fleetVars => FleetInv'
    BY FleetNextInv, StutterInv
  <1> QED
    BY FleetInitInv, <1>1, PTL DEF FleetSpec

\* Every variable of the registry of nodes, the senders, the queues and the spoke keeps its
\* type; a walk's candidates and a batch are cut out of the sequences they come from
\* (Select, PendingForTarget).
THEOREM FleetTypeCorrect == FleetSpec => []FleetTypeOK
  <1>1. FleetInv => FleetTypeOK
    BY DEF FleetInv
  <1> QED
    BY <1>1, FleetInvariance, PTL

\* For any routes, commands and faults, whatever is lost, repeated or restarted, a row that
\* says done stands for an effect of its command (spoke.drain, QueueService.Ack).
THEOREM DoneWhenExecuted == FleetSpec => []DoneMeansExecuted
  <1>1. FleetInv => DoneMeansExecuted
    BY DEF FleetInv, SuccessOK
  <1> QED
    BY <1>1, FleetInvariance, PTL

\* An acknowledged row keeps its outcome: an acknowledgement that arrives late or twice meets
\* the recorded answer of its key, unless recording one failed (QueueService.Ack, ack:<event id>).
THEOREM FinalOutcome == FleetSpec => OutcomeIsFinal
  <1> DEFINE Final == \A c \in Command :
                queue[Hub][c] \in {"done", "failed"} /\ c \notin unrecorded
                    => queue'[Hub][c] = queue[Hub][c]
  <1>1. ASSUME FleetInv, FleetNext PROVE Final
    <2>1. ASSUME NEW c \in Command, Accepted(c) \/ Unanswered(c)
          PROVE  Final
      <3>1. Head(plan[c]) \in Candidate
        BY <1>1, <2>1, HeadFits DEF Accepted, Unanswered
      <3>2. CASE HandleCommand(c, Head(plan[c]))
        BY <3>1, <3>2, <1>1, <2>1, HandleStep DEF OnlyParks
      <3>3. CASE UNCHANGED hubVars
        BY <3>3 DEF hubVars
      <3> QED
        BY <2>1, <3>2, <3>3 DEF Accepted, Unanswered
    <2>2. ASSUME NEW c \in Command, NEW s \in Status, AckArrives(c, s)
          PROVE  Final
      <3>1. \/ queue' = queue
            \/ ackRecord[c] = Unset /\ queue' = [queue EXCEPT ![Hub][c] = Outcome(s)]
        BY <1>1, <2>2, AcknowledgeCases DEF AckArrives
      <3>2. ackRecord[c] = Unset => ~(queue[Hub][c] \in {"done", "failed"} /\ c \notin unrecorded)
        BY <1>1 DEF FleetInv, AcksRecorded
      <3>3. queue \in [Node -> [Command -> RowState]] /\ Hub \in Node
        BY <1>1, FleetAssumption DEF FleetInv, FleetTypeOK
      <3> QED
        BY <3>1, <3>2, <3>3
    <2>3. CASE UNCHANGED queue
      BY <2>3
    <2> HIDE DEF Final
    <2> QED
      BY <1>1, <2>1, <2>2, <2>3
      DEF FleetNext, UpdateRoute, Begin, Refused, CooldownEnds, FetchPending, ExecuteLocal, LocalFails,
          AckHub, SpokeRestarts, AckLost, hubVars
  <1>2. FleetInv /\ [FleetNext]_fleetVars => [Final]_fleetVars
    BY <1>1
  <1> QED
    BY <1>2, FleetInvariance, PTL DEF OutcomeIsFinal, FleetSpec

-----------------------------------------------------------------------------
(* Rows of the feed (Feed)                                                 *)

USE DEF None

\* A step of the log leaves the consumers where they are.
LEMMA LogKeepsInv ==
    ASSUME FeedInv, Log PROVE FeedInv'
  <1> USE MaxSeqAssumption DEF FeedInv, Log, consumerVars
  <1>1. CASE Allocate
    <2>1. FeedTypeOK'
      BY <1>1 DEF FeedTypeOK, SeqTypeOK, Allocate
    <2>2. LedgerOK'
      BY <1>1 DEF FeedTypeOK, SeqTypeOK, Allocate, LedgerOK
    <2>3. PositionsOK'
      BY <1>1 DEF FeedTypeOK, SeqTypeOK, Position, Allocate, PositionsOK, Consumer
    <2>4. CursorCovers' /\ StreamCovers' /\ WireOK'
      BY <1>1 DEF FeedTypeOK, SeqTypeOK, Position, Allocate, PositionsOK, Due, Consumer,
                  CursorCovers, StreamCovers, WireOK
    <2>5. QED
      BY <2>1, <2>2, <2>3, <2>4
  <1>2. ASSUME NEW S \in SUBSET open, Publish(S) \/ Discard(S) PROVE FeedInv'
    <2>1. FeedTypeOK'
      BY <1>2 DEF FeedTypeOK, SeqTypeOK, Publish, Discard
    <2>2. LedgerOK'
      BY <1>2 DEF Publish, Discard, LedgerOK
    <2>3. PositionsOK'
      BY <1>2 DEF Publish, Discard, PositionsOK
    <2>4. WireOK'
      BY <1>2 DEF WireOK
    <2>5. (open \union Due)' \subseteq open \union Due
      BY <1>2 DEF Publish, Discard, Due
    <2>6. CursorCovers' /\ StreamCovers'
      BY <2>5 DEF CursorCovers, StreamCovers
    <2>7. QED
      BY <2>1, <2>2, <2>3, <2>4, <2>6
  <1>3. QED
    BY <1>1, <1>2 DEF SeqNext

\* A row due that a page leaves out lies beyond the end of the page.
LEMMA PageEnds ==
    ASSUME NEW from, NEW P \in Pages(After(from)), NEW s \in After(from), s \notin P,
           NEW x \in P
    PROVE  x < s
  BY DEF Pages

LEMMA ConnectKeepsInv ==
    ASSUME FeedInv, NEW w \in Streams, Connect(w) PROVE FeedInv'
  <1> USE MaxSeqAssumption DEF FeedInv, seqVars
  <1>1. w \in Consumer
    BY DEF Consumer
  <1>2. PICK h \in Position :
          /\ stream' = [stream EXCEPT ![w] = h]
          /\ \/ h = cursor[w] /\ cursor[w] # None /\ UNCHANGED origin
             \/ cursor[w] = None /\ IsHead(h) /\ origin' = [origin EXCEPT ![w] = h]
    BY <1>1 DEF Connect, FeedTypeOK
  <1>3. UNCHANGED <<next, open, committed, cursor, wire, seen, late, drops>> /\ stream[w] = None
    BY DEF Connect
  <1>4. FeedTypeOK'
    BY <1>1, <1>2, <1>3 DEF FeedTypeOK, SeqTypeOK
  <1>5. h < next /\ cursor[w] <= h /\ \A x \in seen[w] : x <= h
    <2>1. CASE IsHead(h) /\ cursor[w] = None
      BY <1>1, <2>1 DEF IsHead, IsLast, PositionsOK, LedgerOK, FeedTypeOK, SeqTypeOK, Position
    <2>2. CASE h = cursor[w] /\ cursor[w] # None
      BY <1>1, <2>2 DEF PositionsOK, WireOK, FeedTypeOK, Position
    <2>3. QED
      BY <1>2, <2>1, <2>2
  <1>6. stream'[w] = h /\ \A u \in Streams \ {w} : stream'[u] = stream[u]
    BY <1>2 DEF FeedTypeOK
  <1>7. LedgerOK' /\ PositionsOK' /\ WireOK'
    BY <1>3, <1>5, <1>6 DEF LedgerOK, PositionsOK, WireOK
  <1>8. CursorCovers' /\ StreamCovers'
    <2>1. CASE h = cursor[w] /\ UNCHANGED origin
      BY <1>1, <1>3, <1>6, <2>1 DEF CursorCovers, StreamCovers, Due
    <2>2. CASE cursor[w] = None /\ origin' = [origin EXCEPT ![w] = h]
      <3>1. origin'[w] = h /\ \A c \in Consumer \ {w} : origin'[c] = origin[c]
        BY <1>1, <2>2 DEF FeedTypeOK
      <3>2. \A s \in open \union Due : s \in 1..MaxSeq
        BY DEF FeedTypeOK, SeqTypeOK, Due
      <3>3. h \in Int
        BY DEF Position
      <3>4. CursorCovers'
        BY <1>3, <2>2, <3>1, <3>2 DEF CursorCovers, Due
      <3>5. StreamCovers'
        BY <1>3, <1>6, <3>1, <3>2, <3>3 DEF StreamCovers, Due, Consumer
      <3>6. QED
        BY <3>4, <3>5
    <2>3. QED
      BY <1>2, <2>1, <2>2
  <1>9. QED
    BY <1>4, <1>7, <1>8

LEMMA TailKeepsInv ==
    ASSUME FeedInv, NEW w \in Streams, TailFiltered(w) PROVE FeedInv'
  <1> USE MaxSeqAssumption DEF FeedInv, seqVars
  <1>0. PICK P \in Pages(After(stream[w])) : TailFiltered(w)!2!(P)
    BY DEF TailFiltered
  <1>1. PICK m \in P :
          /\ IsLast(m, P, None)
          /\ wire' = [wire EXCEPT ![w] = @ \union (P \intersect Readable)]
          /\ stream' = [stream EXCEPT ![w] = m]
          /\ late' = [late EXCEPT ![w] = @ \union InFlightBelow(m)]
    BY <1>0
  <1>2. UNCHANGED <<next, open, committed, cursor, seen, origin, drops>> /\ stream[w] # None
    BY DEF TailFiltered
  <1>3. w \in Consumer
    BY DEF Consumer
  <1>4. P \subseteq After(stream[w]) /\ \A x \in P : x <= m
    BY <1>0, <1>1 DEF Pages, IsLast
  <1>5. P \subseteq 1..MaxSeq /\ P \subseteq committed /\ \A x \in P : x > stream[w]
    BY <1>4 DEF After, FeedTypeOK, SeqTypeOK
  <1>6. FeedTypeOK'
    BY <1>1, <1>2, <1>3, <1>5 DEF FeedTypeOK, SeqTypeOK, InFlightBelow, Position
  <1>7. /\ stream'[w] = m /\ wire'[w] = wire[w] \union (P \intersect Readable)
        /\ \A u \in Streams \ {w} : stream'[u] = stream[u] /\ wire'[u] = wire[u]
        /\ late'[w] = late[w] \union InFlightBelow(m)
        /\ \A c \in Consumer \ {w} : late'[c] = late[c]
    BY <1>1, <1>3 DEF FeedTypeOK
  <1>8. m \in 1..MaxSeq /\ m < next /\ stream[w] < m /\ stream[w] \in Int
    BY <1>5 DEF LedgerOK, FeedTypeOK, Position
  <1>9. LedgerOK' /\ PositionsOK'
    <2>1. cursor[w] <= m
      BY <1>2, <1>3, <1>8 DEF PositionsOK, FeedTypeOK, Position
    <2>2. stream'[w] < next /\ stream'[w] # None /\ cursor[w] <= stream'[w]
      BY <1>7, <1>8, <2>1
    <2>3. wire'[w] \subseteq committed
      BY <1>5, <1>7 DEF PositionsOK
    <2>4. QED
      BY <1>2, <1>7, <2>2, <2>3 DEF LedgerOK, PositionsOK
  <1>10. WireOK'
    <2>1. \A x \in seen[w] \union wire[w] : x \in 1..MaxSeq /\ x <= stream[w]
      BY <1>2, <1>3 DEF WireOK, FeedTypeOK
    <2>2. \A y \in P : cursor[w] < y /\ (\A x \in seen[w] : x < y) /\ y <= m
      BY <1>2, <1>3, <1>4, <1>5, <1>8, <2>1 DEF PositionsOK, FeedTypeOK, Position
    <2>3. \A x \in seen[w] \union wire[w] : x <= m
      BY <1>8, <2>1
    <2>4. QED
      BY <1>2, <1>7, <2>2, <2>3 DEF WireOK
  <1>11. CursorCovers'
    BY <1>2, <1>7 DEF CursorCovers, Due
  <1>12. StreamCovers'
    <2> SUFFICES ASSUME NEW s \in open \union Due, origin[w] < s, s <= m
                 PROVE  s \in seen[w] \union late'[w] \union wire'[w]
      BY <1>2, <1>3, <1>7 DEF StreamCovers, Due, Consumer
    <2>1. CASE s \in open
      BY <1>7, <2>1 DEF InFlightBelow
    <2>2. CASE s \in Due /\ s <= stream[w]
      BY <1>7, <2>2 DEF StreamCovers
    <2>3. CASE s \in Due /\ ~ (s <= stream[w])
      <3>1. s \in After(stream[w])
        BY <1>8, <2>3 DEF After, Due, FeedTypeOK, SeqTypeOK
      <3>2. s \in P
        BY <1>5, <1>8, <3>1, PageEnds DEF After, FeedTypeOK, SeqTypeOK
      <3>3. QED
        BY <1>7, <2>3, <3>2 DEF Due
    <2>4. QED
      BY <2>1, <2>2, <2>3
  <1>13. QED
    BY <1>6, <1>9, <1>10, <1>11, <1>12

LEMMA ReceiveKeepsInv ==
    ASSUME FeedInv, NEW w \in Streams, Receive(w) PROVE FeedInv'
  <1> USE MaxSeqAssumption DEF FeedInv, seqVars
  <1>1. PICK s \in wire[w] :
          /\ \A x \in wire[w] : s <= x
          /\ wire' = [wire EXCEPT ![w] = @ \ {s}]
          /\ cursor' = [cursor EXCEPT ![w] = s]
          /\ seen' = [seen EXCEPT ![w] = @ \union {s}]
    BY DEF Receive
  <1>2. UNCHANGED <<next, open, committed, stream, origin, late, drops>>
    BY DEF Receive
  <1>3. w \in Consumer /\ s \in 1..MaxSeq /\ s \in committed
    BY <1>1 DEF Consumer, FeedTypeOK, PositionsOK
  <1>4. FeedTypeOK'
    BY <1>1, <1>2, <1>3 DEF FeedTypeOK, SeqTypeOK, Position
  <1>5. /\ wire'[w] = wire[w] \ {s} /\ seen'[w] = seen[w] \union {s} /\ cursor'[w] = s
        /\ \A u \in Streams \ {w} : wire'[u] = wire[u]
        /\ \A c \in Consumer \ {w} : seen'[c] = seen[c] /\ cursor'[c] = cursor[c]
    BY <1>1, <1>3 DEF FeedTypeOK
  <1>6. stream[w] # None /\ s <= stream[w]
    BY <1>1 DEF PositionsOK, WireOK
  <1>7. \A x \in wire[w] \union seen[w] : x \in 1..MaxSeq
    BY <1>3 DEF FeedTypeOK
  <1>8. LedgerOK' /\ PositionsOK'
    BY <1>2, <1>3, <1>5, <1>6 DEF LedgerOK, PositionsOK, Consumer
  <1>9. WireOK'
    <2>1. \A x \in seen[w] : x < s
      BY <1>1 DEF WireOK
    <2>2. \A y \in wire[w] \ {s} : s < y
      BY <1>1, <1>7
    <2>3. \A x \in seen'[w] : x <= cursor'[w] /\ x <= stream[w]
      BY <1>3, <1>5, <1>6, <1>7, <2>1 DEF WireOK
    <2>4. \A y \in wire'[w] : cursor'[w] < y /\ y <= stream[w] /\ \A x \in seen'[w] : x < y
      BY <1>5, <1>6, <2>2 DEF WireOK
    <2>5. \A u \in Streams \ {w} : u \in Consumer
      BY DEF Consumer
    <2>6. QED
      BY <1>2, <1>5, <1>6, <2>3, <2>4, <2>5 DEF WireOK
  <1>10. StreamCovers'
    BY <1>2, <1>5 DEF StreamCovers, Due, Consumer
  <1>11. CursorCovers'
    <2> SUFFICES ASSUME NEW x \in open \union Due, origin[w] < x, x <= s
                 PROVE  x \in seen'[w] \union late[w]
      BY <1>2, <1>5 DEF CursorCovers, Due
    <2>1. x \in 1..MaxSeq
      BY DEF FeedTypeOK, SeqTypeOK, Due
    <2>2. x <= stream[w]
      BY <1>3, <1>6, <2>1 DEF FeedTypeOK, Position
    <2>3. x \in seen[w] \union late[w] \union wire[w]
      BY <2>2 DEF StreamCovers
    <2>4. CASE x \in wire[w]
      BY <1>1, <1>3, <1>5, <2>1, <2>4
    <2>5. QED
      BY <1>5, <2>3, <2>4
  <1>12. QED
    BY <1>4, <1>8, <1>9, <1>10, <1>11

LEMMA DisconnectKeepsInv ==
    ASSUME FeedInv, NEW w \in Streams, NEW misread \in BOOLEAN, Disconnect(w, misread)
    PROVE  FeedInv'
  <1> USE MaxSeqAssumption DEF FeedInv, seqVars
  <1>1. w \in Consumer
    BY DEF Consumer
  <1>2. UNCHANGED <<next, open, committed, seen, origin, late>>
    BY DEF Disconnect
  <1>3. FeedTypeOK'
    <2>1. cursor' \in [Consumer -> Position] /\ stream' \in [Streams -> Position]
      BY <1>1 DEF Disconnect, FeedTypeOK, Position
    <2>2. drops' \in 0..MaxDrops
      BY FeedAssumption DEF Disconnect, FeedTypeOK
    <2>3. wire' \in [Streams -> SUBSET (1..MaxSeq)]
      BY DEF Disconnect, FeedTypeOK
    <2>4. QED
      BY <1>2, <2>1, <2>2, <2>3 DEF FeedTypeOK, SeqTypeOK
  <1>4. /\ stream'[w] = None /\ wire'[w] = {} /\ cursor'[w] \in {cursor[w], None}
        /\ \A u \in Streams \ {w} : stream'[u] = stream[u] /\ wire'[u] = wire[u]
        /\ \A c \in Consumer \ {w} : cursor'[c] = cursor[c]
    BY <1>1 DEF Disconnect, FeedTypeOK
  <1>5. \A s \in open \union Due : s \in 1..MaxSeq
    BY DEF FeedTypeOK, SeqTypeOK, Due
  <1>6. LedgerOK' /\ PositionsOK'
    BY <1>1, <1>2, <1>4 DEF LedgerOK, PositionsOK, FeedTypeOK, SeqTypeOK, Consumer
  <1>7. WireOK'
    BY <1>2, <1>4 DEF WireOK, Consumer
  <1>8. CursorCovers'
    BY <1>1, <1>2, <1>4, <1>5 DEF CursorCovers, Due
  <1>9. StreamCovers'
    BY <1>2, <1>4, <1>5 DEF StreamCovers, Due
  <1>10. QED
    BY <1>3, <1>6, <1>7, <1>8, <1>9

LEMMA PollKeepsInv ==
    ASSUME FeedInv, NEW p \in Pollers, NEW loaded \in BOOLEAN, NEW saved \in BOOLEAN,
           PollFeed(p, loaded, saved)
    PROVE  FeedInv'
  <1> USE MaxSeqAssumption DEF FeedInv, seqVars
  <1>1. PICK from \in Position : PollFeed(p, loaded, saved)!3!(from)
    BY DEF PollFeed
  <1>2. PICK P \in Pages(After(from)), n \in Position :
          /\ IsNextCursor(n, P, from)
          /\ seen' = [seen EXCEPT ![p] = @ \union (P \intersect Readable)]
          /\ cursor' = [cursor EXCEPT ![p] = IF saved THEN n ELSE @]
          /\ late' = [late EXCEPT ![p] = IF saved THEN @ \union InFlightBelow(n) ELSE @]
    BY <1>1
  <1>3. UNCHANGED <<next, open, committed, stream, wire>>
    BY DEF PollFeed
  <1>4. p \in Consumer /\ p \notin Streams
    BY FeedAssumption DEF Consumer
  <1>5. P \subseteq After(from) /\ P \subseteq committed /\ P \subseteq 1..MaxSeq
    BY <1>2 DEF Pages, After, FeedTypeOK, SeqTypeOK
  <1>6. /\ seen'[p] = seen[p] \union (P \intersect Readable)
        /\ cursor'[p] = IF saved THEN n ELSE cursor[p]
        /\ late'[p] = IF saved THEN late[p] \union InFlightBelow(n) ELSE late[p]
        /\ \A c \in Consumer \ {p} : /\ seen'[c] = seen[c] /\ cursor'[c] = cursor[c]
                                     /\ late'[c] = late[c]
    BY <1>2, <1>4 DEF FeedTypeOK
  <1>7. /\ \/ from = cursor[p] /\ from # None /\ origin'[p] = origin[p]
           \/ IsHead(from) /\ origin'[p] = IF saved THEN from ELSE origin[p]
        /\ \A c \in Consumer \ {p} : origin'[c] = origin[c]
        /\ origin' \in [Consumer -> Position]
    BY <1>1, <1>4 DEF FeedTypeOK
  <1>8. FeedTypeOK'
    <2>1. drops' \in 0..MaxDrops
      BY FeedAssumption DEF PollFeed, FeedTypeOK
    <2>2. seen' \in [Consumer -> SUBSET (1..MaxSeq)] /\ cursor' \in [Consumer -> Position]
      BY <1>2, <1>4, <1>5 DEF FeedTypeOK
    <2>3. late' \in [Consumer -> SUBSET (1..MaxSeq)]
      BY <1>2, <1>4 DEF FeedTypeOK, SeqTypeOK, InFlightBelow
    <2>4. QED
      BY <1>3, <1>7, <2>1, <2>2, <2>3 DEF FeedTypeOK, SeqTypeOK
  <1>9. from < next /\ from \in Int
    BY <1>4, <1>7 DEF IsHead, IsLast, PositionsOK, LedgerOK, FeedTypeOK, SeqTypeOK, Position
  <1>10. n < next
    <2>1. CASE P # After(from)
      BY <1>2, <1>5, <1>9, <2>1 DEF IsNextCursor, IsLast, LedgerOK
    <2>2. CASE P = After(from)
      BY <1>2, <1>9, <2>2 DEF IsNextCursor, IsLast, LedgerOK
    <2>3. QED
      BY <2>1, <2>2
  <1>11. LedgerOK' /\ PositionsOK'
    <2>1. cursor'[p] < next /\ seen'[p] \subseteq committed
      BY <1>4, <1>5, <1>6, <1>10 DEF PositionsOK
    <2>2. \A w \in Streams : cursor'[w] = cursor[w]
      BY <1>4, <1>6 DEF Consumer
    <2>3. QED
      BY <1>3, <1>6, <2>1, <2>2 DEF LedgerOK, PositionsOK
  <1>12. WireOK' /\ StreamCovers'
    <2>1. \A w \in Streams : /\ cursor'[w] = cursor[w] /\ seen'[w] = seen[w]
                             /\ late'[w] = late[w] /\ origin'[w] = origin[w]
      BY <1>4, <1>6, <1>7 DEF Consumer
    <2>2. QED
      BY <1>3, <2>1 DEF WireOK, StreamCovers, Due
  <1>13. CursorCovers'
    <2> SUFFICES ASSUME NEW s \in open \union Due, origin'[p] < s, s <= cursor'[p]
                 PROVE  s \in seen'[p] \union late'[p]
      BY <1>3, <1>6, <1>7 DEF CursorCovers, Due
    <2>1. CASE ~ saved
      BY <1>4, <1>6, <1>7, <2>1 DEF CursorCovers
    <2>2. CASE saved /\ s \in open
      BY <1>6, <2>2 DEF InFlightBelow
    <2>3. CASE saved /\ s \in Due /\ s <= from
      <3>1. s \in 1..MaxSeq
        BY <2>3 DEF Due, FeedTypeOK, SeqTypeOK
      <3>2. from = cursor[p] /\ origin'[p] = origin[p]
        BY <1>7, <1>9, <2>3, <3>1
      <3>3. QED
        BY <1>4, <1>6, <2>3, <3>2 DEF CursorCovers
    <2>4. CASE saved /\ s \in Due /\ ~ (s <= from)
      <3>1. s \in 1..MaxSeq /\ s <= n
        BY <1>6, <2>4 DEF Due, FeedTypeOK, SeqTypeOK
      <3>2. s \in After(from)
        BY <1>9, <2>4, <3>1 DEF After, Due
      <3>3. s \in P
        <4>1. CASE P = After(from)
          BY <3>2, <4>1
        <4>2. CASE P # After(from)
          <5>1. IsLast(n, P, from)
            BY <1>2, <4>2 DEF IsNextCursor
          <5>2. n # from
            BY <1>9, <2>4, <3>1
          <5>3. n \in P
            BY <5>1, <5>2 DEF IsLast
          <5>4. s \notin P => n < s
            BY <1>2, <3>2, <5>3, PageEnds
          <5>5. QED
            BY <1>5, <3>1, <5>3, <5>4
        <4>3. QED
          BY <4>1, <4>2
      <3>4. QED
        BY <1>6, <2>4, <3>3 DEF Due
    <2>5. QED
      BY <2>1, <2>2, <2>3, <2>4
  <1>14. QED
    BY <1>8, <1>11, <1>12, <1>13

\* The invariant holds of every behaviour.
LEMMA FeedInvariant == FeedSpec => []FeedInv
  <1>1. FeedInit => FeedInv
    BY MaxSeqAssumption, FeedAssumption
       DEF FeedInit, SeqInit, FeedInv, FeedTypeOK, SeqTypeOK, Position, LedgerOK, PositionsOK, WireOK,
           CursorCovers, StreamCovers, Due, Consumer
  <1>2. FeedInv /\ [FeedNext]_feedVars => FeedInv'
    <2> SUFFICES ASSUME FeedInv, [FeedNext]_feedVars PROVE FeedInv'
      OBVIOUS
    <2>1. CASE UNCHANGED feedVars
      BY <2>1 DEF feedVars, FeedInv, FeedTypeOK, SeqTypeOK, LedgerOK, PositionsOK, WireOK,
                  CursorCovers, StreamCovers, Due
    <2>2. QED
      BY <2>1, LogKeepsInv, ConnectKeepsInv, TailKeepsInv, ReceiveKeepsInv,
         DisconnectKeepsInv, PollKeepsInv DEF FeedNext
  <1>3. QED
    BY <1>1, <1>2, PTL DEF FeedSpec

\* The variables of the feed keep their types: a cursor is a position of the log
\* or none, and a stream carries rows of the log only.
THEOREM FeedTypeCorrect == FeedSpec => []FeedTypeOK
  <1>1. FeedInv => FeedTypeOK
    BY DEF FeedInv
  <1>2. QED
    BY <1>1, FeedInvariant, PTL

\* A consumer's cursor never passes a committed row it should have been given,
\* unless the row's transaction was still open when the cursor passed it.
THEOREM OnlyInFlightSkipped == FeedSpec => []SkipsOnlyInFlight
  <1>1. FeedInv => SkipsOnlyInFlight
    BY DEF FeedInv, CursorCovers, SkipsOnlyInFlight
  <1>2. QED
    BY <1>1, FeedInvariant, PTL

\* A watcher's stream, across reconnects, never carries a row it has handled.
THEOREM StreamNeverRepeats == FeedSpec => []NeverSentTwice
  <1>1. FeedInv => NeverSentTwice
    <2> SUFFICES ASSUME FeedInv, NEW w \in Streams, NEW x \in wire[w], x \in seen[w]
                 PROVE  FALSE
      BY DEF NeverSentTwice
    <2>1. x < x /\ x \in 1..MaxSeq
      BY DEF FeedInv, WireOK, FeedTypeOK
    <2>2. QED
      BY <2>1, MaxSeqAssumption
  <1>2. QED
    BY <1>1, FeedInvariant, PTL
=============================================================================
