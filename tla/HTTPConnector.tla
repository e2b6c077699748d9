--------------------------- MODULE HTTPConnector ---------------------------
(***************************************************************************)
(* The write path of httpconnector.Service on top of the approvals: Request *)
(* creates an action and its approval, EnqueueApprovedWrite puts an approved *)
(* action into the outbox, DispatchOnce leases an outbox row, makes the      *)
(* outside call, records the answer and marks the row.                      *)
(*                                                                         *)
(* The four steps of a dispatch are transactions of their own, a dispatcher *)
(* can die between any two of them or be overtaken by its lease's end, and   *)
(* nothing after the claim looks at the lease.  A write action and its      *)
(* approval are created together and share an id here.                      *)
(*                                                                         *)
(* Reads, which need no approval, are executed by Request itself and are    *)
(* left out.  A claim takes the oldest row; here it may take any.           *)
(***************************************************************************)
EXTENDS Approvals

CONSTANTS
    Writes,         \* approvals that belong to a write action
    Enqueuer,       \* callers of EnqueueApprovedWrite
    Dispatcher,     \* callers of DispatchOnce
    Response,       \* HTTP responses
    MaxFaults,      \* bound on crashes and transport errors of dispatchers
    MaxExpiries     \* bound on leases that end under a working dispatcher

None == "none"

ASSUME HTTPConnectorAssumption ==
    /\ Writes \subseteq Approval
    /\ None \notin Writes \union Response
    /\ IsFiniteSet(Dispatcher)
    /\ MaxFaults \in Nat
    /\ MaxExpiries \in Nat

VARIABLES
    action,     \* http_connector_actions.status
    response,   \* http_connector_actions.response_status and _body
    sent,       \* action_sent events
    outbox,     \* outbox_events.state
    leaseLive,  \* rows whose lease_until lies ahead
    enqueuing,  \* the action each enqueuer has locked and found approved
    at,         \* the next step of each dispatcher
    job,        \* the outbox row it works on
    heard,      \* the response it got
    calls,      \* history: requests that may have reached the outside, per action
    expired,    \* history: leases that ended, per action
    faults

connectorVars == <<action, response, sent, outbox, leaseLive, enqueuing, at, job, heard,
                   calls, expired, faults>>
vars == <<status, decidedBy, state, parked, answered, action, response, sent, outbox,
          leaseLive, enqueuing, at, job, heard, calls, expired, faults>>
rows == <<action, response, sent, outbox, leaseLive>>
dispatch == <<at, job, heard>>
history == <<calls, expired, faults>>

TypeOK ==
    /\ ApprovalsTypeOK
    /\ action \in [Writes -> {"none", "awaiting_approval", "approved", "sent"}]
    /\ response \in [Writes -> Response \union {None}]
    /\ sent \in SUBSET (Writes \X Response)
    /\ outbox \in [Writes -> {"none", "pending", "leased", "sent"}]
    /\ leaseLive \in SUBSET Writes
    /\ enqueuing \in [Enqueuer -> Writes \union {None}]
    /\ at \in [Dispatcher -> {"idle", "call", "record", "mark"}]
    /\ job \in [Dispatcher -> Writes \union {None}]
    /\ heard \in [Dispatcher -> Response \union {None}]
    /\ calls \in [Writes -> Nat]
    /\ expired \in [Writes -> Nat]
    /\ faults \in 0..MaxFaults

Init ==
    /\ ApprovalsInit
    /\ action = [a \in Writes |-> "none"]
    /\ response = [a \in Writes |-> None]
    /\ sent = {}
    /\ outbox = [a \in Writes |-> "none"]
    /\ leaseLive = {}
    /\ enqueuing = [e \in Enqueuer |-> None]
    /\ at = [d \in Dispatcher |-> "idle"]
    /\ job = [d \in Dispatcher |-> None]
    /\ heard = [d \in Dispatcher |-> None]
    /\ calls = [a \in Writes |-> 0]
    /\ expired = [a \in Writes |-> 0]
    /\ faults = 0

-----------------------------------------------------------------------------
(* Request and EnqueueApprovedWrite.                                       *)

\* Request in write mode: one transaction for approval and action.  The other
\* approvals are created without an action, through Create.
Request(p) ==
    /\ CreateInTx(p)
    /\ action' = [a \in Writes |-> IF a = p /\ action[a] = "none" THEN "awaiting_approval"
                                  ELSE action[a]]
    /\ UNCHANGED <<response, sent, outbox, leaseLive, enqueuing, dispatch, history>>

\* Mutant of CheckApproval: any approval that is not pending will do.
CheckDecided(e, a) ==
    /\ enqueuing[e] = None
    /\ \A f \in Enqueuer : enqueuing[f] # a
    /\ action[a] = "awaiting_approval"
    /\ status[a] \notin {"none", "pending"}
    /\ enqueuing' = [enqueuing EXCEPT ![e] = a]
    /\ UNCHANGED <<approvalVars, rows, dispatch, history>>

\* EnqueueApprovedWrite: lock the action, and read the approval through the
\* pool, outside the transaction and without a lock.  An action that is
\* approved or sent already is returned as it is.
CheckApproval(e, a) ==
    /\ enqueuing[e] = None
    /\ \A f \in Enqueuer : enqueuing[f] # a
    /\ action[a] = "awaiting_approval"
    /\ status[a] = "approved"
    /\ enqueuing' = [enqueuing EXCEPT ![e] = a]
    /\ UNCHANGED <<approvalVars, rows, dispatch, history>>

\* Mutant of Enqueue: the outbox row is given the status of the action.
EnqueueApproved(e) ==
    /\ enqueuing[e] # None
    /\ action' = [action EXCEPT ![enqueuing[e]] = "approved"]
    /\ outbox' = [outbox EXCEPT ![enqueuing[e]] = "approved"]
    /\ enqueuing' = [enqueuing EXCEPT ![e] = None]
    /\ UNCHANGED <<approvalVars, response, sent, leaseLive, dispatch, history>>

\* Append action_approved, whose projector inserts the outbox row; the commit.
Enqueue(e) ==
    /\ enqueuing[e] # None
    /\ action' = [action EXCEPT ![enqueuing[e]] = "approved"]
    /\ outbox' = [outbox EXCEPT ![enqueuing[e]] = "pending"]
    /\ enqueuing' = [enqueuing EXCEPT ![e] = None]
    /\ UNCHANGED <<approvalVars, response, sent, leaseLive, dispatch, history>>

\* The transaction rolls back.
Abandon(e) ==
    /\ enqueuing[e] # None
    /\ enqueuing' = [enqueuing EXCEPT ![e] = None]
    /\ UNCHANGED <<approvalVars, rows, dispatch, history>>

-----------------------------------------------------------------------------
(* DispatchOnce.                                                           *)

\* Mutant of Claim: a leased row is claimed whether its lease has ended or not.
ClaimLeased(d, a) ==
    /\ at[d] = "idle"
    /\ outbox[a] \in {"pending", "leased"}
    /\ outbox' = [outbox EXCEPT ![a] = "leased"]
    /\ leaseLive' = leaseLive \union {a}
    /\ at' = [at EXCEPT ![d] = "call"]
    /\ job' = [job EXCEPT ![d] = a]
    /\ UNCHANGED <<approvalVars, action, response, sent, enqueuing, heard, history>>

\* Mutant of Claim: a row whose lease has ended is not claimed again.
ClaimPending(d, a) ==
    /\ at[d] = "idle"
    /\ outbox[a] = "pending"
    /\ outbox' = [outbox EXCEPT ![a] = "leased"]
    /\ leaseLive' = leaseLive \union {a}
    /\ at' = [at EXCEPT ![d] = "call"]
    /\ job' = [job EXCEPT ![d] = a]
    /\ UNCHANGED <<approvalVars, action, response, sent, enqueuing, heard, history>>

\* Mutant of Claim: any row without a lease is claimed, one that is sent included.
ClaimUnleased(d, a) ==
    /\ at[d] = "idle"
    /\ outbox[a] # "none" /\ a \notin leaseLive
    /\ outbox' = [outbox EXCEPT ![a] = "leased"]
    /\ leaseLive' = leaseLive \union {a}
    /\ at' = [at EXCEPT ![d] = "call"]
    /\ job' = [job EXCEPT ![d] = a]
    /\ UNCHANGED <<approvalVars, action, response, sent, enqueuing, heard, history>>

\* claimOutbox: a pending row, or a leased one whose lease has ended.
Claim(d, a) ==
    /\ at[d] = "idle"
    /\ outbox[a] = "pending" \/ (outbox[a] = "leased" /\ a \notin leaseLive)
    /\ outbox' = [outbox EXCEPT ![a] = "leased"]
    /\ leaseLive' = leaseLive \union {a}
    /\ at' = [at EXCEPT ![d] = "call"]
    /\ job' = [job EXCEPT ![d] = a]
    /\ UNCHANGED <<approvalVars, action, response, sent, enqueuing, heard, history>>

Reset(d) ==
    /\ at' = [at EXCEPT ![d] = "idle"]
    /\ job' = [job EXCEPT ![d] = None]
    /\ heard' = [heard EXCEPT ![d] = None]

\* executeAction: client.Do returns a response, of whatever status.
Call(d, r) ==
    /\ at[d] = "call"
    /\ calls' = [calls EXCEPT ![job[d]] = @ + 1]
    /\ heard' = [heard EXCEPT ![d] = r]
    /\ at' = [at EXCEPT ![d] = "record"]
    /\ UNCHANGED <<approvalVars, rows, enqueuing, job, expired, faults>>

\* Mutant of CallFails: the error of client.Do is not returned.
CallFailsUnnoticed(d, reached) ==
    /\ at[d] = "call"
    /\ faults < MaxFaults
    /\ faults' = faults + 1
    /\ calls' = [calls EXCEPT ![job[d]] = IF reached THEN @ + 1 ELSE @]
    /\ at' = [at EXCEPT ![d] = "mark"]
    /\ UNCHANGED <<approvalVars, rows, enqueuing, job, heard, expired>>

\* client.Do fails, before or after the request got out; the row stays leased.
CallFails(d, reached) ==
    /\ at[d] = "call"
    /\ faults < MaxFaults
    /\ faults' = faults + 1
    /\ calls' = [calls EXCEPT ![job[d]] = IF reached THEN @ + 1 ELSE @]
    /\ Reset(d)
    /\ UNCHANGED <<approvalVars, rows, enqueuing, expired>>

\* appendSent: the event is identified by the action and the response; its
\* projector overwrites the action's response.
Record(d) ==
    LET a == job[d]
    IN  /\ at[d] = "record"
        /\ \A e \in Enqueuer : enqueuing[e] # a
        /\ sent' = sent \union {<<a, heard[d]>>}
        /\ IF <<a, heard[d]>> \in sent
           THEN UNCHANGED <<action, response>>
           ELSE /\ action' = [action EXCEPT ![a] = "sent"]
                /\ response' = [response EXCEPT ![a] = heard[d]]
        /\ at' = [at EXCEPT ![d] = "mark"]
        /\ UNCHANGED <<approvalVars, outbox, leaseLive, enqueuing, job, heard, history>>

\* markOutboxSent: by row id alone, whoever holds the lease by now.
Mark(d) ==
    /\ at[d] = "mark"
    /\ outbox' = [outbox EXCEPT ![job[d]] = "sent"]
    /\ leaseLive' = leaseLive \ {job[d]}
    /\ Reset(d)
    /\ UNCHANGED <<approvalVars, action, response, sent, enqueuing, history>>

\* The dispatcher's process dies, or one of its transactions fails.
Crash(d) ==
    /\ at[d] # "idle"
    /\ faults < MaxFaults
    /\ faults' = faults + 1
    /\ Reset(d)
    /\ UNCHANGED <<approvalVars, rows, enqueuing, calls, expired>>

\* lease_until passes, with or without a dispatcher at work.
LeaseEnds(a) ==
    /\ a \in leaseLive
    /\ (\E d \in Dispatcher : job[d] = a) => expired[a] < MaxExpiries
    /\ leaseLive' = leaseLive \ {a}
    /\ expired' = [expired EXCEPT ![a] = @ + 1]
    /\ UNCHANGED <<approvalVars, action, response, sent, outbox, enqueuing, dispatch,
                   calls, faults>>

-----------------------------------------------------------------------------
Work(d) ==
    \/ \E r \in Response : Call(d, r)
    \/ Record(d)
    \/ Mark(d)

Next ==
    \/ \E p \in Approval : Request(p)
    \/ \E a \in Writes : LeaseEnds(a)
    \/ ApprovalsNext /\ UNCHANGED connectorVars
    \/ \E e \in Enqueuer :
        \/ \E a \in Writes : CheckApproval(e, a)
        \/ Enqueue(e)
        \/ Abandon(e)
    \/ \E d \in Dispatcher :
        \/ \E a \in Writes : Claim(d, a)
        \/ Work(d)
        \/ \E reached \in BOOLEAN : CallFails(d, reached)
        \/ Crash(d)

Spec == Init /\ [][Next]_vars

\* DispatchOnce is called again and again, a call in progress goes on, and the
\* clock does.
FairSpec ==
    /\ Spec
    /\ \A d \in Dispatcher : WF_vars(\E a \in Writes : Claim(d, a)) /\ WF_vars(Work(d))
    /\ \A a \in Writes : WF_vars(LeaseEnds(a))

-----------------------------------------------------------------------------
(* Properties                                                              *)

\* No write gets out that a human other than its requester has not approved,
\* however requests, retries, decisions, expiries and dispatchers interleave.
NoWriteUnapproved ==
    \A a \in Writes : calls[a] > 0 =>
        status[a] = "approved" /\ decidedBy[a] \in Human \ {Requester[a]}

\* The lease is what keeps calls apart: a write is called once, and again only
\* after a lease of it has ended.
OneCallPerLease == \A a \in Writes : calls[a] <= 1 + expired[a]

\* A row is done only when its write was called and its answer is recorded as
\* an event, also when another dispatcher's call is still under way.
SentIsRecorded ==
    \A a \in Writes : outbox[a] = "sent" =>
        /\ calls[a] > 0
        /\ action[a] = "sent"
        /\ <<a, response[a]>> \in sent

\* A write that was put into the outbox is marked sent in the end, whatever
\* dispatcher died over it.
EnqueuedIsSent == \A a \in Writes : outbox[a] = "pending" ~> outbox[a] = "sent"

\* The abstract view: who approved, what was called, how often a lease ended.
Promise == INSTANCE OutsideWrite WITH
    Write <- Writes,
    MayDecide <- [a \in Writes |-> Human \ {Requester[a]}],
    Nobody <- NoToken,
    allowedBy <- [a \in Writes |-> IF status[a] = "approved" THEN decidedBy[a] ELSE NoToken],
    refused <- {a \in Writes : status[a] \in {"denied", "expired"}},
    made <- calls,
    leasesEnded <- expired,
    known <- {a \in Writes : action[a] = "sent"},
    finished <- {a \in Writes : outbox[a] = "sent"}

\* Every transaction of a request, an approver, an enqueuer or a dispatcher is a step
\* of the promise or none: allowed or refused for good, called within the leases, known
\* before it is finished, and finished for good.
ImplementsPromise == Promise!WriteSpec

=============================================================================
