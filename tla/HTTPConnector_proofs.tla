----------------------- MODULE HTTPConnector_proofs ------------------------
(***************************************************************************)
(* Proofs about Approvals and HTTPConnector, for any number of items,       *)
(* approvals, tokens, enqueuers and dispatchers, and any bounds.            *)
(***************************************************************************)
EXTENDS HTTPConnector, FiniteSetTheorems, TLAPS

USE HTTPConnectorAssumption, ApprovalsAssumption

\* What a dispatcher is at work on.
DispatchOK ==
    \A d \in Dispatcher :
        /\ at[d] # "idle" => job[d] \in Writes
        /\ at[d] = "record" => heard[d] \in Response

\* An action in the outbox is approved, and only those are called.
ApprovedFirst ==
    /\ \A p \in Approval : status[p] = "approved" => decidedBy[p] \in Human \ {Requester[p]}
    /\ \A e \in Enqueuer : enqueuing[e] # None => status[enqueuing[e]] = "approved"
    /\ \A a \in Writes : outbox[a] # "none" => status[a] = "approved"
    /\ \A d \in Dispatcher : at[d] # "idle" => outbox[job[d]] # "none"
    /\ \A a \in Writes : calls[a] > 0 => outbox[a] # "none"

\* One enqueuer holds an action, which waits for it and is not in the outbox.
EnqueuedOnce ==
    /\ \A a \in Writes : action[a] \in {"none", "awaiting_approval"} => outbox[a] = "none"
    /\ \A e \in Enqueuer :
        enqueuing[e] # None => action[enqueuing[e]] = "awaiting_approval"
    /\ \A e, f \in Enqueuer :
        enqueuing[e] # None /\ enqueuing[e] = enqueuing[f] => e = f

\* The answers on their way to the row: heard, recorded, marked.
AnswersRecorded ==
    /\ \A a \in Writes : action[a] = "sent" => <<a, response[a]>> \in sent
    /\ \A a \in Writes, r \in Response : <<a, r>> \in sent => action[a] = "sent"
    /\ \A d \in Dispatcher :
        /\ at[d] \in {"record", "mark"} => calls[job[d]] > 0
        /\ at[d] = "mark" => action[job[d]] = "sent"

\* Calls made, calls about to be made and calls the row still admits.
Callers(a) == {d \in Dispatcher : at[d] = "call" /\ job[d] = a}
Claimable(a) == outbox[a] = "pending" \/ (outbox[a] = "leased" /\ a \notin leaseLive)
LeasesCount ==
    \A a \in Writes :
        /\ a \in leaseLive => outbox[a] = "leased"
        /\ calls[a] + Cardinality(Callers(a)) + (IF Claimable(a) THEN 1 ELSE 0)
              <= 1 + expired[a]

Typed == TypeOK /\ DispatchOK

WritesInv == Typed /\ ApprovedFirst /\ EnqueuedOnce /\ AnswersRecorded /\ SentIsRecorded

\* A closed item goes to a state, and an approval to a status.
LEMMA CloseToType ==
    ASSUME ApprovalsTypeOK, NEW p \in Approval, NEW t \in Token, NEW s \in Status,
           NEW to \in State, CloseTo(p, t, s, to)
    PROVE  ApprovalsTypeOK'
  BY DEF ApprovalsTypeOK, CloseTo

LEMMA ApprovalsNextType ==
    ASSUME ApprovalsTypeOK, ApprovalsNext
    PROVE  ApprovalsTypeOK'
  <1>1. ASSUME NEW p \in Approval, NEW t \in Token, NEW s \in {"approved", "denied"},
               Decide(p, t, s)
        PROVE  ApprovalsTypeOK'
    BY <1>1, CloseToType DEF Decide, Outcome, State, Status
  <1>2. ASSUME NEW p \in Approval, NEW t \in Token, Expire(p, t)
        PROVE  ApprovalsTypeOK'
    BY <1>2, CloseToType DEF Expire, Outcome, State, Status
  <1>3. ASSUME NEW i \in Item, NEW to \in Moves, Move(i, to)
        PROVE  ApprovalsTypeOK'
    BY <1>3 DEF Move, ApprovalsTypeOK
  <1>4. QED
    BY <1>1, <1>2, <1>3 DEF ApprovalsNext

LEMMA CreateType ==
    ASSUME ApprovalsTypeOK, NEW p \in Approval, CreateInTx(p)
    PROVE  ApprovalsTypeOK'
  <1>1. status' \in [Approval -> Status]
    BY DEF CreateInTx, ApprovalsTypeOK, Status
  <1>2. state' \in [Item -> State] /\ parked' \in SUBSET (Approval \X State)
    BY DEF CreateInTx, ApprovalsTypeOK, State
  <1>3. QED
    BY <1>1, <1>2 DEF CreateInTx, ApprovalsTypeOK

LEMMA TypeStep ==
    ASSUME Typed, [Next]_vars
    PROVE  Typed'
  <1> USE DEF Typed
  <1>1. ASSUME NEW p \in Approval, Request(p) PROVE Typed'
    <2>1. ApprovalsTypeOK'
      BY <1>1, CreateType DEF Request, TypeOK
    <2>2. QED
      BY <1>1, <2>1 DEF Request, TypeOK, DispatchOK, dispatch, history
  <1>2. ASSUME NEW a \in Writes, LeaseEnds(a) PROVE Typed'
    BY <1>2 DEF LeaseEnds, TypeOK, ApprovalsTypeOK, DispatchOK, approvalVars, dispatch
  <1>3. ASSUME ApprovalsNext, UNCHANGED connectorVars PROVE Typed'
    BY <1>3, ApprovalsNextType DEF TypeOK, DispatchOK, connectorVars
  <1>4. ASSUME NEW e \in Enqueuer, NEW a \in Writes, CheckApproval(e, a) PROVE Typed'
    BY <1>4 DEF CheckApproval, TypeOK, ApprovalsTypeOK, DispatchOK, approvalVars, rows,
                dispatch, history
  <1>5. ASSUME NEW e \in Enqueuer, Enqueue(e) PROVE Typed'
    BY <1>5 DEF Enqueue, TypeOK, ApprovalsTypeOK, DispatchOK, approvalVars, dispatch, history
  <1>6. ASSUME NEW e \in Enqueuer, Abandon(e) PROVE Typed'
    BY <1>6 DEF Abandon, TypeOK, ApprovalsTypeOK, DispatchOK, approvalVars, rows, dispatch,
                history
  <1>7. ASSUME NEW d \in Dispatcher, NEW a \in Writes, Claim(d, a) PROVE Typed'
    BY <1>7 DEF Claim, TypeOK, ApprovalsTypeOK, DispatchOK, approvalVars, history
  <1>8. ASSUME NEW d \in Dispatcher, Work(d) PROVE Typed'
    <2>1. ASSUME NEW r \in Response, Call(d, r) PROVE Typed'
      BY <2>1 DEF Call, TypeOK, ApprovalsTypeOK, DispatchOK, approvalVars, rows
    <2>2. CASE Record(d)
      BY <2>2 DEF Record, TypeOK, ApprovalsTypeOK, DispatchOK, approvalVars, history
    <2>3. CASE Mark(d)
      BY <2>3 DEF Mark, Reset, TypeOK, ApprovalsTypeOK, DispatchOK, approvalVars, history
    <2>4. QED
      BY <1>8, <2>1, <2>2, <2>3 DEF Work
  <1>9. ASSUME NEW d \in Dispatcher, NEW reached \in BOOLEAN, CallFails(d, reached)
        PROVE Typed'
    BY <1>9 DEF CallFails, Reset, TypeOK, ApprovalsTypeOK, DispatchOK, approvalVars, rows
  <1>10. ASSUME NEW d \in Dispatcher, Crash(d) PROVE Typed'
    BY <1>10 DEF Crash, Reset, TypeOK, ApprovalsTypeOK, DispatchOK, approvalVars, rows
  <1>11. CASE UNCHANGED vars
    BY <1>11 DEF vars, TypeOK, ApprovalsTypeOK, DispatchOK
  <1>12. QED
    BY <1>1, <1>2, <1>3, <1>4, <1>5, <1>6, <1>7, <1>8, <1>9, <1>10, <1>11 DEF Next

LEMMA InitTyped == Init => Typed
  BY DEF Init, ApprovalsInit, Typed, TypeOK, ApprovalsTypeOK, DispatchOK, Status, State

\* Every variable of the approvals and the connector keeps its type.
THEOREM TypeCorrect == Spec => []TypeOK
  <1>1. Typed => TypeOK
    BY DEF Typed
  <1>2. QED
    BY <1>1, InitTyped, TypeStep, PTL DEF Spec

-----------------------------------------------------------------------------
(* Decisions.                                                              *)

\* Nothing but a decision or an expiry of it closes an approval, and only while
\* it is pending.
LEMMA ClosedStaysClosed ==
    ASSUME Typed, [Next]_vars, NEW p \in Approval,
           status[p] \in {"approved", "denied", "expired"}
    PROVE  status'[p] = status[p] /\ decidedBy'[p] = decidedBy[p]
  <1> USE DEF Typed, TypeOK, ApprovalsTypeOK
  <1>1. ASSUME NEW q \in Approval, Request(q)
        PROVE  status'[p] = status[p] /\ decidedBy'[p] = decidedBy[p]
    BY <1>1 DEF Request, CreateInTx
  <1>2. CASE ApprovalsNext
    BY <1>2 DEF ApprovalsNext, Decide, Expire, CloseTo, Move
  <1>3. CASE UNCHANGED approvalVars
    BY <1>3 DEF approvalVars
  <1>4. QED
    BY <1>1, <1>2, <1>3
       DEF Next, vars, approvalVars, LeaseEnds, CheckApproval, Enqueue, Abandon, Claim, Work,
           Call, Record, Mark, CallFails, Crash

\* An approval is decided once: later decisions, expiries and retries of the
\* request leave its status and its decider alone.
THEOREM DecidedOnce == Spec => FirstDecisionWins
  <1>1. Typed /\ [Next]_vars => [\A p \in Approval :
            status[p] \in {"approved", "denied", "expired"} =>
                status'[p] = status[p] /\ decidedBy'[p] = decidedBy[p]]_approvalVars
    BY ClosedStaysClosed
  <1>2. Init => Typed
    BY DEF Init, ApprovalsInit, Typed, TypeOK, ApprovalsTypeOK, DispatchOK, Status, State
  <1>3. QED
    BY <1>1, <1>2, TypeStep, PTL DEF Spec, FirstDecisionWins

-----------------------------------------------------------------------------
(* Writes.                                                                 *)

\* What decisions leave alone, and when they approve.
LEMMA ApprovalsNextApproves ==
    ASSUME Typed, ApprovalsNext, NEW p \in Approval
    PROVE  /\ status[p] = "approved" => status'[p] = "approved" /\ decidedBy'[p] = decidedBy[p]
           /\ status'[p] = "approved" =>
                status[p] = "approved" \/ decidedBy'[p] \in Human \ {Requester[p]}
  BY DEF Typed, TypeOK, ApprovalsTypeOK, ApprovalsNext, Decide, Expire, CloseTo, Move, Outcome

LEMMA WritesStep ==
    ASSUME WritesInv, [Next]_vars
    PROVE  WritesInv'
  <1> USE DEF WritesInv, Typed, TypeOK, DispatchOK, ApprovedFirst, EnqueuedOnce,
              AnswersRecorded, SentIsRecorded
  <1>0. Typed'
    BY TypeStep
  <1>1. ASSUME NEW p \in Approval, Request(p) PROVE WritesInv'
    <2>1. /\ UNCHANGED <<response, sent, outbox, enqueuing, at, job, heard, calls, decidedBy>>
          /\ \A a \in Writes : action'[a] # action[a] =>
                action[a] = "none" /\ action'[a] = "awaiting_approval"
          /\ \A q \in Approval : status'[q] # status[q] =>
                status[q] = "none" /\ status'[q] = "pending"
      BY <1>1 DEF Request, CreateInTx, dispatch, history, ApprovalsTypeOK
    <2>2. QED
      BY <1>0, <2>1
  <1>2. ASSUME NEW a \in Writes, LeaseEnds(a) PROVE WritesInv'
    BY <1>0, <1>2 DEF LeaseEnds, dispatch, approvalVars
  <1>3. ASSUME ApprovalsNext, UNCHANGED connectorVars PROVE WritesInv'
    BY <1>0, <1>3, ApprovalsNextApproves DEF connectorVars
  <1>4. ASSUME NEW e \in Enqueuer, NEW a \in Writes, CheckApproval(e, a) PROVE WritesInv'
    BY <1>0, <1>4 DEF CheckApproval, approvalVars, rows, dispatch, history
  <1>5. ASSUME NEW e \in Enqueuer, Enqueue(e) PROVE WritesInv'
    BY <1>0, <1>5 DEF Enqueue, approvalVars, dispatch, history
  <1>6. ASSUME NEW e \in Enqueuer, Abandon(e) PROVE WritesInv'
    BY <1>0, <1>6 DEF Abandon, approvalVars, rows, dispatch, history
  <1>7. ASSUME NEW d \in Dispatcher, NEW a \in Writes, Claim(d, a) PROVE WritesInv'
    BY <1>0, <1>7 DEF Claim, approvalVars, history
  <1>8. ASSUME NEW d \in Dispatcher, Work(d) PROVE WritesInv'
    <2>1. ASSUME NEW r \in Response, Call(d, r) PROVE WritesInv'
      BY <1>0, <2>1 DEF Call, approvalVars, rows
    <2>2. CASE Record(d)
      BY <1>0, <2>2 DEF Record, approvalVars, history
    <2>3. CASE Mark(d)
      BY <1>0, <2>3 DEF Mark, Reset, approvalVars, history
    <2>4. QED
      BY <1>8, <2>1, <2>2, <2>3 DEF Work
  <1>9. ASSUME NEW d \in Dispatcher, NEW reached \in BOOLEAN, CallFails(d, reached)
        PROVE WritesInv'
    BY <1>0, <1>9 DEF CallFails, Reset, approvalVars, rows
  <1>10. ASSUME NEW d \in Dispatcher, Crash(d) PROVE WritesInv'
    BY <1>0, <1>10 DEF Crash, Reset, approvalVars, rows
  <1>11. CASE UNCHANGED vars
    BY <1>0, <1>11 DEF vars
  <1>12. QED
    BY <1>1, <1>2, <1>3, <1>4, <1>5, <1>6, <1>7, <1>8, <1>9, <1>10, <1>11 DEF Next

LEMMA InitWrites == Init => WritesInv
  BY InitTyped DEF Init, ApprovalsInit, WritesInv, ApprovedFirst, EnqueuedOnce,
                   AnswersRecorded, SentIsRecorded

\* No write gets out that a human other than its requester has not approved.
THEOREM OnlyApprovedGetOut == Spec => []NoWriteUnapproved
  <1>1. WritesInv => NoWriteUnapproved
    BY DEF WritesInv, ApprovedFirst, NoWriteUnapproved
  <1>2. QED
    BY <1>1, InitWrites, WritesStep, PTL DEF Spec

\* A row marked sent was called, and the answer the action shows is in the log.
THEOREM SentHasAnswer == Spec => []SentIsRecorded
  <1>1. WritesInv => SentIsRecorded
    BY DEF WritesInv
  <1>2. QED
    BY <1>1, InitWrites, WritesStep, PTL DEF Spec

-----------------------------------------------------------------------------
(* Leases.                                                                 *)

LEMMA CallersFinite ==
    ASSUME NEW a
    PROVE  IsFiniteSet(Callers(a)) /\ Cardinality(Callers(a)) \in Nat
  BY FS_Subset, FS_CardinalityType DEF Callers

\* A dispatcher that starts to work on a row is one caller more.
LEMMA ClaimCounts ==
    ASSUME Typed, NEW d \in Dispatcher, NEW a \in Writes, Claim(d, a), NEW b \in Writes
    PROVE  Cardinality(Callers(b)') = Cardinality(Callers(b)) + (IF b = a THEN 1 ELSE 0)
  <1> DEFINE C == Callers(b)
             CC == Callers(b)'
  <1>1. IsFiniteSet(C) /\ Cardinality(C) \in Nat
    BY CallersFinite
  <1>2. CASE b = a
    <2>1. d \notin C /\ CC = C \union {d}
      BY <1>2 DEF Typed, TypeOK, Claim, Callers
    <2> HIDE DEF C, CC
    <2>2. Cardinality(CC) = Cardinality(C) + 1
      BY <1>1, <2>1, FS_AddElement
    <2>3. QED
      BY <1>2, <2>2 DEF C, CC
  <1>3. CASE b # a
    <2>1. CC = C
      BY <1>3 DEF Typed, TypeOK, Claim, Callers
    <2>2. QED
      BY <1>1, <1>3, <2>1
  <1>4. QED
    BY <1>2, <1>3

\* One that stops to is one less.
LEMMA LeaveCounts ==
    ASSUME Typed, NEW d \in Dispatcher, at[d] = "call", at'[d] # "call",
           \A e \in Dispatcher \ {d} : at'[e] = at[e] /\ job'[e] = job[e],
           NEW b \in Writes
    PROVE  Cardinality(Callers(b)') = Cardinality(Callers(b)) - (IF b = job[d] THEN 1 ELSE 0)
  <1> DEFINE C == Callers(b)
             CC == Callers(b)'
  <1>1. IsFiniteSet(C) /\ Cardinality(C) \in Nat
    BY CallersFinite
  <1>2. CASE b = job[d]
    <2>1. d \in C /\ CC = C \ {d}
      BY <1>2 DEF Callers
    <2> HIDE DEF C, CC
    <2>2. Cardinality(CC) = Cardinality(C) - 1
      BY <1>1, <2>1, FS_RemoveElement
    <2>3. QED
      BY <1>2, <2>2 DEF C, CC
  <1>3. CASE b # job[d]
    <2>1. CC = C
      BY <1>3 DEF Callers
    <2>2. QED
      BY <1>1, <1>3, <2>1
  <1>4. QED
    BY <1>2, <1>3

LEMMA LeasesStep ==
    ASSUME WritesInv, LeasesCount, [Next]_vars
    PROVE  LeasesCount'
  <1> USE DEF WritesInv, Typed, TypeOK, DispatchOK, LeasesCount, Claimable
  <1>0. \A a \in Writes : Cardinality(Callers(a)) \in Nat /\ Cardinality(Callers(a)') \in Nat
    <2>1. ASSUME NEW a \in Writes PROVE IsFiniteSet(Callers(a)') 
      BY FS_Subset DEF Callers
    <2>2. QED
      BY <2>1, CallersFinite, FS_CardinalityType
  <1>1. ASSUME UNCHANGED <<at, job>> PROVE \A a \in Writes : Callers(a)' = Callers(a)
    BY <1>1 DEF Callers
  <1>2. ASSUME NEW p \in Approval, Request(p) PROVE LeasesCount'
    BY <1>0, <1>1, <1>2 DEF Request, dispatch, history
  <1>3. ASSUME NEW a \in Writes, LeaseEnds(a) PROVE LeasesCount'
    BY <1>0, <1>1, <1>3 DEF LeaseEnds, dispatch
  <1>4. ASSUME NEW e \in Enqueuer, NEW a \in Writes, CheckApproval(e, a) PROVE LeasesCount'
    BY <1>0, <1>1, <1>4 DEF CheckApproval, rows, dispatch, history
  <1>5. ASSUME NEW e \in Enqueuer, Enqueue(e) PROVE LeasesCount'
    <2>1. enqueuing[e] \in Writes /\ outbox[enqueuing[e]] = "none"
      BY <1>5 DEF Enqueue, EnqueuedOnce
    <2>2. Callers(enqueuing[e]) = {} /\ calls[enqueuing[e]] = 0
      BY <2>1 DEF Callers, ApprovedFirst
    <2>3. Cardinality(Callers(enqueuing[e])) = 0
      BY <2>2, FS_EmptySet
    <2>4. /\ \A b \in Writes : Callers(b)' = Callers(b)
          /\ UNCHANGED <<leaseLive, calls, expired>>
          /\ outbox' = [outbox EXCEPT ![enqueuing[e]] = "pending"]
      BY <1>1, <1>5 DEF Enqueue, dispatch, history
    <2>5. ASSUME NEW b \in Writes, b # enqueuing[e]
          PROVE  outbox'[b] = outbox[b] /\ (Claimable(b)' <=> Claimable(b))
      BY <2>1, <2>4, <2>5
    <2>6. outbox'[enqueuing[e]] = "pending" /\ enqueuing[e] \notin leaseLive'
      BY <2>1, <2>4
    <2>7. ASSUME NEW b \in Writes
          PROVE  calls'[b] + Cardinality(Callers(b)') + (IF Claimable(b)' THEN 1 ELSE 0)
                   <= 1 + expired'[b]
      <3>1. CASE b = enqueuing[e]
        <4>1. calls'[b] = 0 /\ Cardinality(Callers(b)') = 0 /\ expired'[b] \in Nat
          BY <2>2, <2>3, <2>4, <3>1
        <4>2. QED
          BY <4>1
      <3>2. CASE b # enqueuing[e]
        BY <1>0, <2>4, <2>5, <3>2
      <3>3. QED
        BY <3>1, <3>2
    <2>8. QED
      BY <2>1, <2>4, <2>5, <2>6, <2>7
  <1>6. ASSUME NEW e \in Enqueuer, Abandon(e) PROVE LeasesCount'
    BY <1>0, <1>1, <1>6 DEF Abandon, rows, dispatch, history
  <1>7. ASSUME NEW d \in Dispatcher, NEW a \in Writes, Claim(d, a) PROVE LeasesCount'
    <2>1. \A b \in Writes :
            Cardinality(Callers(b)') = Cardinality(Callers(b)) + (IF b = a THEN 1 ELSE 0)
      BY <1>7, ClaimCounts
    <2>2. /\ Claimable(a)
          /\ outbox' = [outbox EXCEPT ![a] = "leased"] /\ leaseLive' = leaseLive \union {a}
          /\ UNCHANGED <<calls, expired>>
      BY <1>7 DEF Claim, history
    <2>3. ASSUME NEW b \in Writes, b # a
          PROVE  /\ outbox'[b] = outbox[b]
                 /\ b \in leaseLive' <=> b \in leaseLive
                 /\ Cardinality(Callers(b)') = Cardinality(Callers(b))
      BY <1>0, <2>1, <2>2, <2>3
    <2>4. /\ outbox'[a] = "leased" /\ a \in leaseLive' /\ ~Claimable(a)'
          /\ Cardinality(Callers(a)') = Cardinality(Callers(a)) + 1
      BY <2>1, <2>2
    <2>5. QED
      BY <1>0, <2>2, <2>3, <2>4
  <1>8. ASSUME NEW d \in Dispatcher, NEW r \in Response, Call(d, r) PROVE LeasesCount'
    BY <1>0, <1>8, LeaveCounts DEF Call, rows
  <1>9. ASSUME NEW d \in Dispatcher, Record(d) PROVE LeasesCount'
    <2>1. \A a \in Writes : Callers(a)' = Callers(a)
      BY <1>9 DEF Record, Callers
    <2>2. QED
      BY <1>0, <1>9, <2>1 DEF Record, history
  <1>10. ASSUME NEW d \in Dispatcher, Mark(d) PROVE LeasesCount'
    <2>1. \A a \in Writes : Callers(a)' = Callers(a)
      BY <1>10 DEF Mark, Reset, Callers
    <2>2. QED
      BY <1>0, <1>10, <2>1 DEF Mark, history
  <1>11. ASSUME NEW d \in Dispatcher, NEW reached \in BOOLEAN, CallFails(d, reached)
         PROVE LeasesCount'
    BY <1>0, <1>11, LeaveCounts DEF CallFails, Reset, rows
  <1>12. ASSUME NEW d \in Dispatcher, Crash(d) PROVE LeasesCount'
    <2>1. CASE at[d] = "call"
      BY <1>0, <1>12, <2>1, LeaveCounts DEF Crash, Reset, rows
    <2>2. CASE at[d] # "call"
      <3>1. \A a \in Writes : Callers(a)' = Callers(a)
        BY <1>12, <2>2 DEF Crash, Reset, Callers
      <3>2. QED
        BY <1>0, <1>12, <3>1 DEF Crash, rows
    <2>3. QED
      BY <2>1, <2>2
  <1>13. CASE UNCHANGED connectorVars
    BY <1>0, <1>1, <1>13 DEF connectorVars
  <1>14. QED
    BY <1>2, <1>3, <1>4, <1>5, <1>6, <1>7, <1>8, <1>9, <1>10, <1>11, <1>12, <1>13
       DEF Next, Work, vars, connectorVars

LEMMA InitLeases == Init => LeasesCount
  <1> SUFFICES ASSUME Init, NEW a \in Writes PROVE Cardinality(Callers(a)) = 0
    BY DEF Init, LeasesCount, Claimable
  <1>1. Callers(a) = {}
    BY DEF Init, Callers
  <1>2. QED
    BY <1>1, FS_EmptySet

\* A write is called once, and once more for every lease of it that has ended.
THEOREM LeaseKeepsCallsApart == Spec => []OneCallPerLease
  <1>1. WritesInv /\ LeasesCount => OneCallPerLease
    BY CallersFinite DEF WritesInv, Typed, TypeOK, LeasesCount, OneCallPerLease
  <1>2. QED
    BY <1>1, InitLeases, InitWrites, WritesStep, LeasesStep, PTL DEF Spec

-----------------------------------------------------------------------------
(* The connector keeps the promise of OutsideWrite.                        *)

approverBar == [a \in Writes |-> IF status[a] = "approved" THEN decidedBy[a] ELSE NoToken]
refusedBar == {a \in Writes : status[a] \in {"denied", "expired"}}
knownBar == {a \in Writes : action[a] = "sent"}
finishedBar == {a \in Writes : outbox[a] = "sent"}
bars == <<approverBar, refusedBar, calls, expired, knownBar, finishedBar>>

\* A write of the promise that takes a step, in the variables of the connector.
PromiseStep(a) ==
    \/ /\ approverBar[a] = NoToken /\ a \notin refusedBar
       /\ \/ /\ \E t \in Human \ {Requester[a]} : approverBar' = [approverBar EXCEPT ![a] = t]
             /\ refusedBar' = refusedBar
          \/ approverBar' = approverBar /\ refusedBar' = refusedBar \union {a}
       /\ UNCHANGED <<calls, expired, knownBar, finishedBar>>
    \/ /\ approverBar[a] # NoToken /\ calls[a] <= expired[a]
       /\ calls' = [calls EXCEPT ![a] = @ + 1]
       /\ UNCHANGED <<approverBar, refusedBar, expired, knownBar, finishedBar>>
    \/ /\ approverBar[a] # NoToken /\ a \notin finishedBar
       /\ expired' = [expired EXCEPT ![a] = @ + 1]
       /\ UNCHANGED <<approverBar, refusedBar, calls, knownBar, finishedBar>>
    \/ /\ calls[a] > 0 /\ knownBar' = knownBar \union {a}
       /\ UNCHANGED <<approverBar, refusedBar, calls, expired, finishedBar>>
    \/ /\ a \in knownBar /\ finishedBar' = finishedBar \union {a}
       /\ UNCHANGED <<approverBar, refusedBar, calls, expired, knownBar>>

Promises == UNCHANGED bars \/ \E a \in Writes : PromiseStep(a)

LEMMA PromisesAreKept ==
    ASSUME Promises
    PROVE  [Promise!WriteNext]_(Promise!writeVars)
  <1>1. CASE UNCHANGED bars
    BY <1>1 DEF bars, approverBar, refusedBar, knownBar, finishedBar, Promise!writeVars
  <1>2. ASSUME NEW a \in Writes, PromiseStep(a) PROVE Promise!WriteNext
    <2>1. [b \in Writes |-> Human \ {Requester[b]}][a] = Human \ {Requester[a]}
      OBVIOUS
    <2>2. \/ \E t \in Human \ {Requester[a]} : Promise!Allow(a, t)
          \/ Promise!Refuse(a) \/ Promise!Make(a) \/ Promise!EndLease(a)
          \/ Promise!Learn(a) \/ Promise!Finish(a)
      BY <1>2 DEF PromiseStep, approverBar, refusedBar, knownBar, finishedBar, Promise!Undecided,
                  Promise!Allow, Promise!Refuse, Promise!Make, Promise!EndLease, Promise!Learn,
                  Promise!Finish
    <2> QED
      BY <2>1, <2>2 DEF Promise!WriteNext
  <1> QED
    BY <1>1, <1>2 DEF Promises

\* The approver of an approved write is a human, and nobody else shows as one.
LEMMA ApproverShown ==
    ASSUME WritesInv, NEW a \in Writes
    PROVE  approverBar[a] # NoToken <=> status[a] = "approved"
  BY DEF approverBar, WritesInv, Typed, TypeOK, ApprovalsTypeOK, ApprovedFirst

\* A decision, an expiry or a move: at most one approval closes, which was pending.
LEMMA DecisionKeepsPromise ==
    ASSUME WritesInv, ApprovalsNext, UNCHANGED connectorVars
    PROVE  Promises
  <1> USE DEF WritesInv, Typed, TypeOK, ApprovalsTypeOK
  <1>0. UNCHANGED <<calls, expired, knownBar, finishedBar>>
    BY DEF connectorVars, knownBar, finishedBar
  <1>1. ASSUME NEW p \in Approval, NEW t \in Token, NEW s \in Status, status[p] = "pending",
               s \in {"approved", "denied", "expired"},
               s = "approved" => t \in Human \ {Requester[p]},
               status' = [status EXCEPT ![p] = s], decidedBy' = [decidedBy EXCEPT ![p] = t]
        PROVE  Promises
    <2>1. CASE p \notin Writes
      <3>1. \A a \in Writes : status'[a] = status[a] /\ decidedBy'[a] = decidedBy[a]
        BY <1>1, <2>1
      <3>2. approverBar' = approverBar /\ refusedBar' = refusedBar
        BY <3>1 DEF approverBar, refusedBar
      <3> QED
        BY <1>0, <3>2 DEF Promises, bars
    <2>2. CASE p \in Writes
      <3>1. \A a \in Writes \ {p} : status'[a] = status[a] /\ decidedBy'[a] = decidedBy[a]
        BY <1>1
      <3>2. status'[p] = s /\ decidedBy'[p] = t
        BY <1>1
      <3>3. approverBar[p] = NoToken /\ p \notin refusedBar
        BY <1>1, <2>2 DEF approverBar, refusedBar
      <3>4. CASE s = "approved"
        <4>1. approverBar' = [approverBar EXCEPT ![p] = t] /\ refusedBar' = refusedBar
          BY <1>1, <2>2, <3>1, <3>2, <3>4 DEF approverBar, refusedBar
        <4> QED
          BY <1>0, <1>1, <2>2, <3>3, <3>4, <4>1 DEF Promises, PromiseStep
      <3>5. CASE s # "approved"
        <4>1. approverBar' = approverBar /\ refusedBar' = refusedBar \union {p}
          BY <1>1, <2>2, <3>1, <3>2, <3>5 DEF approverBar, refusedBar
        <4> QED
          BY <1>0, <2>2, <3>3, <4>1 DEF Promises, PromiseStep
      <3> QED
        BY <3>4, <3>5
    <2> QED
      BY <2>1, <2>2
  <1>2. ASSUME NEW p \in Approval, NEW t \in Token, NEW s \in {"approved", "denied"},
               Decide(p, t, s)
        PROVE  Promises
    BY <1>1, <1>2 DEF Decide, CloseTo, Status
  <1>3. ASSUME NEW p \in Approval, NEW t \in Token, Expire(p, t) PROVE Promises
    BY <1>1, <1>3 DEF Expire, CloseTo, Status
  <1>4. ASSUME NEW i \in Item, NEW to \in Moves, Move(i, to) PROVE Promises
    BY <1>0, <1>4 DEF Move, Promises, bars, approverBar, refusedBar
  <1> QED
    BY <1>2, <1>3, <1>4 DEF ApprovalsNext

\* A request changes nothing that was decided, enqueued or sent.
LEMMA RequestKeepsPromise ==
    ASSUME WritesInv, NEW p \in Approval, Request(p)
    PROVE  UNCHANGED bars
  <1> USE DEF WritesInv, Typed, TypeOK, ApprovalsTypeOK
  <1>1. /\ UNCHANGED <<outbox, calls, expired, decidedBy>>
        /\ \A a \in Writes : action'[a] # action[a] =>
              action[a] = "none" /\ action'[a] = "awaiting_approval"
        /\ \A q \in Approval : status'[q] # status[q] =>
              status[q] = "none" /\ status'[q] = "pending"
    BY DEF Request, CreateInTx, dispatch, history
  <1>2. approverBar' = approverBar /\ refusedBar' = refusedBar
    BY <1>1 DEF approverBar, refusedBar
  <1>3. knownBar' = knownBar /\ finishedBar' = finishedBar
    BY <1>1 DEF knownBar, finishedBar
  <1> QED
    BY <1>1, <1>2, <1>3 DEF bars

\* The steps of a dispatcher: a call is within the leases, an answer is known after
\* a call, and a row is marked when its answer is known.
LEMMA DispatchKeepsPromise ==
    ASSUME WritesInv, LeasesCount, NEW d \in Dispatcher,
           \/ \E a \in Writes : Claim(d, a)
           \/ Work(d)
           \/ \E reached \in BOOLEAN : CallFails(d, reached)
           \/ Crash(d)
    PROVE  Promises
  <1> USE DEF WritesInv, Typed, TypeOK, DispatchOK
  <1>1. ASSUME UNCHANGED <<status, decidedBy>>
        PROVE  approverBar' = approverBar /\ refusedBar' = refusedBar
    BY <1>1 DEF approverBar, refusedBar
  <1>2. ASSUME at[d] = "call", calls' = [calls EXCEPT ![job[d]] = @ + 1],
               UNCHANGED <<approvalVars, rows, expired>>
        PROVE  Promises
    <2>1. job[d] \in Writes /\ status[job[d]] = "approved"
      BY <1>2 DEF ApprovedFirst
    <2>2. calls[job[d]] <= expired[job[d]]
      <3> DEFINE C == Callers(job[d])
      <3>1. d \in C
        BY <1>2 DEF Callers
      <3>2. IsFiniteSet(C) /\ Cardinality(C) \in Nat
        BY CallersFinite
      <3>3. Cardinality(C) # 0
        BY <3>1, <3>2, FS_EmptySet
      <3>4. calls[job[d]] + Cardinality(C) + (IF Claimable(job[d]) THEN 1 ELSE 0) <= 1 + expired[job[d]]
        BY <2>1 DEF LeasesCount
      <3>5. calls[job[d]] \in Nat /\ expired[job[d]] \in Nat
        BY <2>1
      <3> HIDE DEF C
      <3> QED
        BY <3>2, <3>3, <3>4, <3>5
    <2>3. UNCHANGED <<approverBar, refusedBar, expired, knownBar, finishedBar>>
      BY <1>1, <1>2 DEF approvalVars, rows, knownBar, finishedBar
    <2>4. approverBar[job[d]] # NoToken
      BY <2>1, ApproverShown
    <2> QED
      BY <1>2, <2>1, <2>2, <2>3, <2>4 DEF Promises, PromiseStep
  <1>3. ASSUME UNCHANGED <<approvalVars, rows, calls, expired>> PROVE Promises
    BY <1>1, <1>3 DEF approvalVars, rows, knownBar, finishedBar, bars, Promises
  <1>4. ASSUME NEW a \in Writes, Claim(d, a) PROVE Promises
    <2>1. outbox' = [outbox EXCEPT ![a] = "leased"] /\ outbox[a] # "sent"
          /\ UNCHANGED <<status, decidedBy, action, calls, expired>>
      BY <1>4 DEF Claim, approvalVars, history
    <2>2. finishedBar' = finishedBar /\ knownBar' = knownBar
      BY <2>1 DEF finishedBar, knownBar
    <2> QED
      BY <1>1, <2>1, <2>2 DEF bars, Promises
  <1>5. ASSUME NEW r \in Response, Call(d, r) PROVE Promises
    BY <1>2, <1>5 DEF Call
  <1>6. CASE Record(d)
    <2>1. job[d] \in Writes /\ calls[job[d]] > 0
          /\ UNCHANGED <<status, decidedBy, outbox, calls, expired>>
      BY <1>6 DEF Record, AnswersRecorded, approvalVars, history
    <2>2. knownBar' = knownBar \union {job[d]}
      <3>1. CASE <<job[d], heard[d]>> \in sent
        <4>1. action' = action /\ action[job[d]] = "sent"
          BY <1>6, <2>1, <3>1 DEF Record, AnswersRecorded
        <4> QED
          BY <2>1, <4>1 DEF knownBar
      <3>2. CASE <<job[d], heard[d]>> \notin sent
        <4>1. action' = [action EXCEPT ![job[d]] = "sent"]
          BY <1>6, <3>2 DEF Record
        <4> QED
          BY <2>1, <4>1 DEF knownBar
      <3> QED
        BY <3>1, <3>2
    <2>3. finishedBar' = finishedBar
      BY <2>1 DEF finishedBar
    <2> QED
      BY <1>1, <2>1, <2>2, <2>3 DEF Promises, PromiseStep
  <1>7. CASE Mark(d)
    <2>1. job[d] \in Writes /\ action[job[d]] = "sent"
          /\ UNCHANGED <<status, decidedBy, action, calls, expired>>
          /\ outbox' = [outbox EXCEPT ![job[d]] = "sent"]
      BY <1>7 DEF Mark, AnswersRecorded, approvalVars, history
    <2>2. finishedBar' = finishedBar \union {job[d]} /\ knownBar' = knownBar /\ job[d] \in knownBar
      BY <2>1 DEF finishedBar, knownBar
    <2> QED
      BY <1>1, <2>1, <2>2 DEF Promises, PromiseStep
  <1>8. ASSUME NEW reached \in BOOLEAN, CallFails(d, reached) PROVE Promises
    <2>1. CASE reached
      BY <1>2, <1>8, <2>1 DEF CallFails
    <2>2. CASE ~reached
      <3>1. at[d] = "call" /\ calls' = calls /\ UNCHANGED <<approvalVars, rows, expired>>
        BY <1>8, <2>2 DEF CallFails
      <3> QED
        BY <1>3, <3>1
    <2> QED
      BY <2>1, <2>2
  <1>9. CASE Crash(d)
    BY <1>3, <1>9 DEF Crash
  <1> QED
    BY <1>4, <1>5, <1>6, <1>7, <1>8, <1>9 DEF Work

\* An enqueuer touches only what is neither sent nor marked.
LEMMA EnqueueKeepsPromise ==
    ASSUME WritesInv, NEW e \in Enqueuer,
           (\E a \in Writes : CheckApproval(e, a)) \/ Enqueue(e) \/ Abandon(e)
    PROVE  UNCHANGED bars
  <1> USE DEF WritesInv, Typed, TypeOK
  <1>1. CASE UNCHANGED <<approvalVars, rows, history>>
    BY <1>1 DEF approvalVars, rows, history, bars, approverBar, refusedBar, knownBar, finishedBar
  <1>2. CASE Enqueue(e)
    <2> DEFINE a == enqueuing[e]
    <2>1. a \in Writes /\ action[a] = "awaiting_approval" /\ outbox[a] = "none"
      BY <1>2 DEF Enqueue, EnqueuedOnce
    <2>2. /\ action' = [action EXCEPT ![a] = "approved"] /\ outbox' = [outbox EXCEPT ![a] = "pending"]
          /\ UNCHANGED <<status, decidedBy, calls, expired>>
      BY <1>2 DEF Enqueue, approvalVars, history
    <2> HIDE DEF a
    <2>3. knownBar' = knownBar /\ finishedBar' = finishedBar
      BY <2>1, <2>2 DEF knownBar, finishedBar
    <2> QED
      BY <2>2, <2>3 DEF bars, approverBar, refusedBar
  <1> QED
    BY <1>1, <1>2 DEF CheckApproval, Abandon

LEMMA LeaseEndKeepsPromise ==
    ASSUME WritesInv, LeasesCount, NEW a \in Writes, LeaseEnds(a)
    PROVE  Promises
  <1>1. outbox[a] = "leased" /\ status[a] = "approved"
    BY DEF LeaseEnds, LeasesCount, WritesInv, ApprovedFirst
  <1>2. approverBar[a] # NoToken /\ a \notin finishedBar
    BY <1>1, ApproverShown DEF finishedBar
  <1>3. /\ expired' = [expired EXCEPT ![a] = @ + 1]
        /\ UNCHANGED <<approverBar, refusedBar, calls, knownBar, finishedBar>>
    BY DEF LeaseEnds, approvalVars, approverBar, refusedBar, knownBar, finishedBar
  <1> QED
    BY <1>2, <1>3 DEF Promises, PromiseStep

\* HTTPConnector implements OutsideWrite: whatever requests, approvers, enqueuers and
\* dispatchers do, a write is allowed or refused for good, called within its leases,
\* and finished for good once its answer is known.
THEOREM PromiseImplemented == Spec => ImplementsPromise
  <1>1. Init => Promise!WriteInit
    <2> SUFFICES ASSUME Init PROVE Promise!WriteInit
      OBVIOUS
    <2>1. /\ \A a \in Writes : status[a] = "none" /\ action[a] = "none" /\ outbox[a] = "none"
          /\ calls = [a \in Writes |-> 0] /\ expired = [a \in Writes |-> 0]
      BY DEF Init, ApprovalsInit
    <2> QED
      BY <2>1 DEF Promise!WriteInit
  <1>2. WritesInv /\ LeasesCount /\ [Next]_vars => [Promise!WriteNext]_(Promise!writeVars)
    <2> SUFFICES ASSUME WritesInv, LeasesCount, [Next]_vars PROVE Promises
      BY PromisesAreKept
    <2>1. CASE UNCHANGED vars
      BY <2>1 DEF vars, Promises, bars, approverBar, refusedBar, knownBar, finishedBar
    <2>2. CASE UNCHANGED bars
      BY <2>2 DEF Promises
    <2> QED
      BY <2>1, <2>2, RequestKeepsPromise, LeaseEndKeepsPromise, DecisionKeepsPromise,
         EnqueueKeepsPromise, DispatchKeepsPromise DEF Next
  <1>3. QED
    BY <1>1, <1>2, InitWrites, InitLeases, WritesStep, LeasesStep, PTL
       DEF Spec, ImplementsPromise, Promise!WriteSpec

=============================================================================
