-------------------------------- MODULE Fleet --------------------------------
(***************************************************************************)
(* Commands between nodes.                                                 *)
(*                                                                         *)
(*   The registry (internal/nodes): who can be reached directly and who    *)
(*     relays for whom, changed by the operator's `meristem node`.         *)
(*   A sender (crossnode.Select, crossnode.Deliver): walks the candidate   *)
(*     routes to Target, skipping the routes that failed lately.           *)
(*   The queue of each node (crossnode.QueueService) with the endpoints    *)
(*     of internal/api/crossnode.go before it.                             *)
(*   The spoke of Target (spoke.Poller): fetches its pending commands from *)
(*     its hub, executes each against the local api, acknowledges each.    *)
(*                                                                         *)
(* The idempotency middleware before the hub's acknowledgement endpoint    *)
(* and before the local api is taken by its contract: an answer below 500  *)
(* is normally recorded and replayed to a retry, the same key with another *)
(* body is refused, and now and then a crash loses a record.               *)
(***************************************************************************)
EXTENDS Integers, Sequences, Selections

CONSTANTS
    Command,        \* commands the sender issues, each under a key of its own
    Node,           \* node ids
    Target,         \* the home node of the commands
    Hub,            \* the node the target's spoke polls
    Stuck,          \* commands whose local call always times out
    RouteChoices,   \* routes the operator may give to Target
    DrainLimit,     \* rows of one fetch
    MaxWalks,       \* bound on the walks of a command
    MaxUpdates,     \* bound on the operator's route updates
    MaxFaults       \* bound on lost answers, crashes, 5xx and failed records

Unset == "none"
Kind == {"direct", "relay", "queue"}
Candidate == [kind : Kind, via : Node]
Route == [direct : BOOLEAN, via : Seq(Node)]
NodeEvent == {"node.registered", "node.route_updated"}
Status == {"ok", "rejected", "error"}      \* 2xx, 4xx, 5xx
RowState == {"absent", "pending", "done", "failed"}

ASSUME FleetAssumption ==
    /\ {Target, Hub} \subseteq Node /\ Target # Hub
    /\ Stuck \subseteq Command
    /\ RouteChoices \subseteq Route
    /\ DrainLimit \in Nat \ {0}
    /\ {MaxWalks, MaxUpdates, MaxFaults} \subseteq Nat

VARIABLES
    node,       \* nodes: the route of each node
    logged,     \* payloads of the route events in the log
    updates,    \* route updates so far
    cooldowns,  \* routes the sender saw failing within CooldownWindow
    plan,       \* candidates a walk has not tried yet
    fate,       \* outcome of a command's last walk
    walks,      \* walks of each command so far
    queue,      \* command_queue of each node: state of the command's row
    order,      \* the rows of each node, oldest first
    batch,      \* commands the spoke fetched and has not dealt with
    status,     \* answer of the local api to the first of them
    acks,       \* acknowledgements on their way to the hub
    ackRecord,  \* the hub's recorded answer to the key ack:<event id>
    unrecorded, \* history: rows an acknowledgement of which was not recorded
    record,     \* the target's recorded answer to a command's key
    executed,   \* commands whose effect is in the target's log
    faults      \* faults so far

registryVars == <<node, logged, updates>>
senderVars == <<cooldowns, plan, fate, walks>>
hubVars == <<queue, order, ackRecord, unrecorded>>
spokeVars == <<batch, status>>
targetVars == <<record, executed>>
fleetVars == <<node, logged, updates, cooldowns, plan, fate, walks, queue, order,
          batch, status, acks, ackRecord, unrecorded, record, executed, faults>>

FleetTypeOK ==
    /\ node \in [Node -> Route]
    /\ logged \subseteq NodeEvent \X Route
    /\ updates \in 0..MaxUpdates
    /\ cooldowns \subseteq Candidate
    /\ plan \in [Command -> Seq(Candidate)]
    /\ fate \in [Command -> {"idle", "walking", "delivered", "refused", "exhausted"}]
    /\ walks \in [Command -> 0..MaxWalks]
    /\ queue \in [Node -> [Command -> RowState]]
    /\ order \in [Node -> Seq(Command)]
    /\ batch \in Seq(Command)
    /\ status \in Status \union {Unset}
    /\ acks \subseteq Command \X Status
    /\ ackRecord \in [Command -> Status \union {Unset}]
    /\ unrecorded \subseteq Command
    /\ record \in [Command -> {"ok", "rejected", Unset}]
    /\ executed \subseteq Command
    /\ faults \in 0..MaxFaults

\* The registered fleet: every node but Target has a direct_url.
InitialRoute(n) ==
    [direct |-> n # Target, via |-> IF n = Target THEN <<Hub>> ELSE <<>>]

FleetInit ==
    /\ node = [n \in Node |-> InitialRoute(n)]
    /\ logged = {<<"node.registered", InitialRoute(Target)>>}
    /\ updates = 0
    /\ cooldowns = {}
    /\ plan = [c \in Command |-> <<>>]
    /\ fate = [c \in Command |-> "idle"]
    /\ walks = [c \in Command |-> 0]
    /\ queue = [n \in Node |-> [c \in Command |-> "absent"]]
    /\ order = [n \in Node |-> <<>>]
    /\ batch = <<>>
    /\ status = Unset
    /\ acks = {}
    /\ ackRecord = [c \in Command |-> Unset]
    /\ unrecorded = {}
    /\ record = [c \in Command |-> Unset]
    /\ executed = {}
    /\ faults = 0

\* A step that only happens when something fails, at most MaxFaults times.
Fault == faults < MaxFaults /\ faults' = faults + 1

-----------------------------------------------------------------------------
(* The registry                                                            *)

\* `meristem node register` or `update-route` of Target, which is registered:
\* both projectors write the route.  The event has no discriminator: one that
\* is already in the log is not appended again, and its projector does not run.
UpdateRoute(kind, r) ==
    /\ updates < MaxUpdates
    /\ updates' = updates + 1
    /\ logged' = logged \union {<<kind, r>>}
    /\ node' = IF <<kind, r>> \in logged THEN node ELSE [node EXCEPT ![Target] = r]
    /\ UNCHANGED <<senderVars, hubVars, spokeVars, acks, targetVars, faults>>

-----------------------------------------------------------------------------
(* The sender                                                              *)

\* Routes through the relay_via nodes that have a direct_url, in their order.
Through(kind) ==
    LET hops == Keep(node[Target].via, {v \in Node : node[v].direct})
    IN  [i \in 1..Len(hops) |-> [kind |-> kind, via |-> hops[i]]]

\* Select: direct, then relays, then queues, without the routes that cool down.
Select ==
    LET direct == IF node[Target].direct
                  THEN <<[kind |-> "direct", via |-> Target]>> ELSE <<>>
    IN  Keep(direct \o Through("relay") \o Through("queue"), Candidate \ cooldowns)

\* A walk begins; ErrNoRoute leaves the command as it was.
Begin(c) ==
    /\ fate[c] \in {"idle", "exhausted"}
    /\ walks[c] < MaxWalks
    /\ Select # <<>>
    /\ walks' = [walks EXCEPT ![c] = @ + 1]
    /\ plan' = [plan EXCEPT ![c] = Select]
    /\ fate' = [fate EXCEPT ![c] = "walking"]
    /\ UNCHANGED <<registryVars, cooldowns, hubVars, spokeVars, acks, targetVars, faults>>

\* Enqueue: command.queued, whose event id is that of the request's key, so the
\* row of a command that was parked before stays as it is.
Enqueue(c, n) ==
    /\ queue[n][c] = "absent"
    /\ queue' = [queue EXCEPT ![n][c] = "pending"]
    /\ order' = [order EXCEPT ![n] = Append(@, c)]
    /\ UNCHANGED <<ackRecord, unrecorded>>

\* handleCrossnodeCommand at the node the candidate names: a command with
\* X-Meristem-Queue-For another node is parked; anything else is answered 202
\* and goes no further.
HandleCommand(c, k) ==
    IF k.kind = "queue" /\ k.via # Target /\ queue[k.via][c] = "absent"
    THEN Enqueue(c, k.via)
    ELSE UNCHANGED hubVars

\* The candidate answers 2xx: first success wins.
Accepted(c) ==
    /\ fate[c] = "walking"
    /\ HandleCommand(c, Head(plan[c]))
    /\ fate' = [fate EXCEPT ![c] = "delivered"]
    /\ plan' = [plan EXCEPT ![c] = <<>>]
    /\ UNCHANGED <<registryVars, cooldowns, walks, spokeVars, acks, targetVars, faults>>

\* The candidate answers 4xx (an unknown bearer, say): no other route is tried.
Refused(c) ==
    /\ fate[c] = "walking"
    /\ Fault
    /\ fate' = [fate EXCEPT ![c] = "refused"]
    /\ plan' = [plan EXCEPT ![c] = <<>>]
    /\ UNCHANGED <<registryVars, cooldowns, walks, hubVars, spokeVars, acks, targetVars>>

\* Transport failure or 5xx: the route cools down and the walk goes on.  The
\* command may have been handled all the same.
Unanswered(c) ==
    /\ fate[c] = "walking"
    /\ Fault
    /\ HandleCommand(c, Head(plan[c])) \/ UNCHANGED hubVars
    /\ cooldowns' = cooldowns \union {Head(plan[c])}
    /\ plan' = [plan EXCEPT ![c] = Tail(@)]
    /\ fate' = [fate EXCEPT ![c] = IF Len(plan[c]) = 1 THEN "exhausted" ELSE @]
    /\ UNCHANGED <<registryVars, walks, spokeVars, acks, targetVars>>

\* CooldownWindow after a failure the route is a candidate again.
CooldownEnds(k) ==
    /\ k \in cooldowns
    /\ cooldowns' = cooldowns \ {k}
    /\ UNCHANGED <<registryVars, plan, fate, walks, hubVars, spokeVars, acks, targetVars,
                   faults>>

-----------------------------------------------------------------------------
(* The spoke                                                               *)

\* PendingForTarget: the oldest pending rows, at most DrainLimit of them.
PendingForTarget ==
    LET pending == Keep(order[Hub], {c \in Command : queue[Hub][c] = "pending"})
    IN  SubSeq(pending, 1, IF Len(pending) < DrainLimit THEN Len(pending) ELSE DrainLimit)

\* A tick begins with fetchPending.
FetchPending ==
    /\ batch = <<>>
    /\ PendingForTarget # <<>>
    /\ batch' = PendingForTarget
    /\ UNCHANGED <<registryVars, senderVars, hubVars, status, acks, targetVars, faults>>

\* executeLocal gets an answer.  A recorded one is replayed; else the handler
\* runs, and succeeds, rejects the command, or fails (5xx) before or after its
\* transaction commits, which leaves nothing recorded.
ExecuteLocal ==
    /\ batch # <<>> /\ status = Unset
    /\ LET c == Head(batch)
       IN  /\ c \notin Stuck
           /\ \/ /\ record[c] # Unset
                 /\ status' = record[c]
                 /\ UNCHANGED <<record, executed, faults>>
              \/ /\ record[c] = Unset
                 /\ \E s \in {"ok", "rejected"} :
                       /\ status' = s
                       /\ record' = [record EXCEPT ![c] = s]
                       /\ executed' = IF s = "ok" THEN executed \union {c} ELSE executed
                 /\ UNCHANGED faults
              \/ /\ record[c] = Unset
                 /\ Fault
                 /\ status' = "error"
                 /\ executed' \in {executed, executed \union {c}}
                 /\ UNCHANGED record
    /\ UNCHANGED <<registryVars, senderVars, hubVars, batch, acks>>

\* Mutant of LocalFails: the failure of one command ends the batch.
LocalFailsEndsBatch ==
    /\ batch # <<>> /\ status = Unset
    /\ \/ Head(batch) \in Stuck /\ UNCHANGED <<executed, faults>>
       \/ Head(batch) \notin Stuck /\ Fault
          /\ executed' \in {executed, executed \union {Head(batch)}}
    /\ batch' = <<>>
    /\ UNCHANGED <<registryVars, senderVars, hubVars, status, acks, record>>

\* executeLocal fails below HTTP: the command is not acknowledged, the row
\* stays pending and the batch goes on with the next.
LocalFails ==
    /\ batch # <<>> /\ status = Unset
    /\ \/ Head(batch) \in Stuck /\ UNCHANGED <<executed, faults>>
       \/ Head(batch) \notin Stuck /\ Fault
          /\ executed' \in {executed, executed \union {Head(batch)}}
    /\ batch' = Tail(batch)
    /\ UNCHANGED <<registryVars, senderVars, hubVars, status, acks, record>>

\* ackHub posts the outcome, whatever it is, and the batch goes on with the
\* next command, whether the hub answered or not.
AckHub ==
    /\ status # Unset
    /\ acks' = acks \union {<<Head(batch), status>>}
    /\ batch' = Tail(batch)
    /\ status' = Unset
    /\ UNCHANGED <<registryVars, senderVars, hubVars, targetVars, faults>>

\* The spoke is restarted in the middle of a tick.
SpokeRestarts ==
    /\ batch # <<>>
    /\ Fault
    /\ batch' = <<>>
    /\ status' = Unset
    /\ UNCHANGED <<registryVars, senderVars, hubVars, acks, targetVars>>

-----------------------------------------------------------------------------
(* The hub's acknowledgement endpoint                                      *)

\* Mutant of Outcome: every acknowledged command is done.
OutcomeDone(s) == "done"

\* applyAckedV1: the row's state after an acknowledgement.
Outcome(s) == IF s = "ok" THEN "done" ELSE "failed"

\* Mutant of Acknowledge: the key of an acknowledgement is new for every post,
\* so no earlier record is found.
AcknowledgeUnkeyed(c, s) ==
    /\ queue' = [queue EXCEPT ![Hub][c] = Outcome(s)]
    /\ ackRecord' = [ackRecord EXCEPT ![c] = s]
    /\ UNCHANGED <<unrecorded, faults>>

\* handleCrossnodeCommandAck behind the idempotency middleware.  A recorded
\* answer is replayed, or refused to another body; else Ack appends
\* command.acked, whose projector overwrites the row, and the answer is
\* recorded, unless recording it fails.
Acknowledge(c, s) ==
    \/ /\ ackRecord[c] # Unset
       /\ UNCHANGED <<queue, ackRecord, unrecorded, faults>>
    \/ /\ ackRecord[c] = Unset
       /\ queue' = [queue EXCEPT ![Hub][c] = Outcome(s)]
       /\ \/ /\ ackRecord' = [ackRecord EXCEPT ![c] = s]
             /\ UNCHANGED <<unrecorded, faults>>
          \/ /\ Fault
             /\ unrecorded' = unrecorded \union {c}
             /\ UNCHANGED ackRecord

\* An acknowledgement reaches the hub, perhaps after the spoke gave up on it.
AckArrives(c, s) ==
    /\ <<c, s>> \in acks
    /\ acks' = acks \ {<<c, s>>}
    /\ Acknowledge(c, s)
    /\ UNCHANGED <<registryVars, senderVars, order, spokeVars, targetVars>>

AckLost(c, s) ==
    /\ <<c, s>> \in acks
    /\ Fault
    /\ acks' = acks \ {<<c, s>>}
    /\ UNCHANGED <<registryVars, senderVars, hubVars, spokeVars, targetVars>>

-----------------------------------------------------------------------------
FleetNext ==
    \/ \E kind \in NodeEvent, r \in RouteChoices : UpdateRoute(kind, r)
    \/ \E c \in Command : Begin(c) \/ Accepted(c) \/ Refused(c) \/ Unanswered(c)
    \/ \E k \in Candidate : CooldownEnds(k)
    \/ FetchPending
    \/ ExecuteLocal
    \/ LocalFails
    \/ AckHub
    \/ SpokeRestarts
    \/ \E c \in Command, s \in Status : AckArrives(c, s) \/ AckLost(c, s)

\* RunLoop ticks for ever and http.Client bounds every call: each step of a
\* tick is taken, and a post that is not lost arrives.
FleetFairness ==
    /\ WF_fleetVars(FetchPending)
    /\ WF_fleetVars(ExecuteLocal \/ LocalFails)
    /\ WF_fleetVars(AckHub)
    /\ \A c \in Command, s \in Status : WF_fleetVars(AckArrives(c, s))

FleetSpec == FleetInit /\ [][FleetNext]_fleetVars /\ FleetFairness

-----------------------------------------------------------------------------
(* Properties                                                              *)

\* A row of the hub's queue that says done stands for an effect in the
\* target's log: neither a lost answer, a restarted spoke, a late or repeated
\* acknowledgement nor a 5xx after the commit makes it say so wrongly
\* (spoke.drain, QueueService.Ack).
DoneMeansExecuted ==
    \A c \in Command : queue[Hub][c] = "done" => c \in executed

\* The outcome of an acknowledged row is final: a late acknowledgement with
\* another outcome is refused by the key ack:<event id>, since the projector
\* would overwrite the row.  The exception is a row one of whose
\* acknowledgements the middleware could not record.
OutcomeIsFinal ==
    [][\A c \in Command :
          queue[Hub][c] \in {"done", "failed"} /\ c \notin unrecorded
              => queue'[Hub][c] = queue[Hub][c]]_fleetVars

\* Every command parked at the hub is acknowledged in the end, a command that
\* times out before it in the batch notwithstanding: "one bad command never
\* stalls the batch" (spoke.go, drain).
ParkedIsAcknowledged ==
    \A c \in Command \ Stuck :
        queue[Hub][c] = "pending" ~> queue[Hub][c] \in {"done", "failed"}

-----------------------------------------------------------------------------
(* The inductive invariant                                                 *)

\* A walk has candidates left; an answer is of the first command of the batch.
WalksOK == \A c \in Command : fate[c] = "walking" => plan[c] # <<>>
AnswerOK == status # Unset => batch # <<>>

\* What says that a command succeeded, on its way from the local api to the hub's
\* row, says so of a command whose effect is in the log.
SuccessOK ==
    /\ \A c \in Command : record[c] = "ok" => c \in executed
    /\ status = "ok" => Head(batch) \in executed
    /\ \A c \in Command : <<c, "ok">> \in acks => c \in executed
    /\ DoneMeansExecuted

\* An acknowledged row has its answer on record, unless recording one failed.
AcksRecorded ==
    \A c \in Command : queue[Hub][c] \in {"done", "failed"} /\ c \notin unrecorded
                           => ackRecord[c] # Unset

FleetInv == FleetTypeOK /\ WalksOK /\ AnswerOK /\ SuccessOK /\ AcksRecorded
=============================================================================
