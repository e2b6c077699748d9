----------------------------- MODULE WorkItems -----------------------------
(***************************************************************************)
(* The write operations of workitems.Service and the three "xylem" budgets *)
(* they enforce: children per item, running items per token, and events    *)
(* per item, class and hour.                                               *)
(*                                                                         *)
(* An operation is a transaction: it locks its work item FOR UPDATE, counts *)
(* what its budgets limit (a move into running locks the actor's token FOR  *)
(* UPDATE for that), and commits.  What it reads under a lock it acts on    *)
(* later; the transactions of several connections interleave in between.    *)
(* An exhausted budget commits too: instead of the request it records the  *)
(* exhaustion and hands the item to a human.                               *)
(*                                                                         *)
(* The human-attention child of an escalation is represented by its        *)
(* escalation; cultivar overrides of the budgets are the constants' values. *)
(***************************************************************************)
EXTENDS Naturals, FiniteSets

CONSTANTS
    Conn,           \* connections, one transaction each
    Item,           \* ids of work items
    Actor,          \* tokens
    Requests,       \* the requests callers make
    Tag,            \* idempotency discriminators; NoTag outside the contract
    NoTag,
    None,           \* no row, no operation, no count
    MaxChildren,    \* max_children_per_item
    MaxRunning,     \* max_concurrent_running_items_per_token
    MaxRate,        \* max_events_per_item_per_hour_by_class
    MaxEvents       \* bound on the events of a behaviour

State == {"captured", "triaged", "planned", "awaiting_approval", "running", "blocked",
          "done", "failed", "canceled"}
Terminal == {"done", "failed", "canceled"}
Review == {"blocked", "waved_through", "approved"}
Metadata == [checks : BOOLEAN, review : Review]
Class == {"lifecycle", "progress"}

-----------------------------------------------------------------------------
(* Operations and events.                                                  *)

WorkItem == [state : State, meta : Metadata, enteredBy : Actor]

Transition == [kind : {"transition"}, item : Item, to : State, actor : Actor, tag : Tag]
UpdateMetadata == [kind : {"metadata"}, item : Item, to : Metadata, actor : Actor, tag : Tag]
AppendEvent == [kind : {"append"}, item : Item, actor : Actor, tag : Tag]
SpawnChild == [kind : {"spawn"}, item : Item, child : Item, state : State,
               meta : Metadata, actor : Actor]
Create == [kind : {"create"}, item : Item, state : State, meta : Metadata, actor : Actor]
Operation == Transition \union UpdateMetadata \union AppendEvent \union SpawnChild

Budget == {"children", "running"} \union Class

\* The identity of an event: its subject, its payload and its discriminator.
Metered ==
    [kind : {"event_appended"}, item : Item, tag : Tag]
    \union [kind : {"metadata_updated"}, item : Item, from : Metadata, to : Metadata, tag : Tag]
    \union [kind : {"transitioned"}, item : Item, from : State, to : State,
            reason : Budget \union {"caller"}, tag : Tag]
\* The id of an escalation is derived from its reason and its summary.
Escalation == [item : Item, budget : Budget, current : Nat, actor : Actor \union {None}]
Event ==
    Metered
    \union [kind : {"created"}, item : Item]
    \union [kind : {"relation_added"}, item : Item, child : Item \union Escalation]
    \union [kind : {"exhausted"}, item : Item, budget : Budget, current : Nat,
            attempt : Item \union Actor \union Metered, state : State]

\* StaticKindClass and ClassifyItem.
ClassOf(e) == IF e.kind = "event_appended" THEN "progress" ELSE "lifecycle"

ASSUME WorkItemsAssumption ==
    /\ None \notin WorkItem \union Operation \union [Budget -> Nat]
    /\ Requests \subseteq Operation \union Create
    /\ NoTag \in Tag
    /\ MaxChildren \in Nat \ {0}
    /\ MaxRunning \in Nat \ {0}
    /\ MaxRate \in [Class -> Nat \ {0}]
    /\ MaxEvents \in Nat
    /\ IsFiniteSet(Item)

VARIABLES
    row,        \* work_items: its rows, or None
    child,      \* work_item_relations, escalation children left out
    log,        \* ids of the events appended so far
    hour,       \* those of them that are less than an hour old
    escalated,  \* ids of the escalations requested so far
    op,         \* the operation each connection is executing
    counted     \* what each operation has counted of every budget, or None

vars == <<row, child, log, hour, escalated, op, counted>>

TypeOK ==
    /\ row \in [Item -> WorkItem \union {None}]
    /\ child \in SUBSET (Item \X Item)
    /\ log \in SUBSET Event
    /\ hour \in SUBSET log
    /\ escalated \in SUBSET Escalation
    /\ op \in [Conn -> Operation \union {None}]
    /\ counted \in [Conn -> [Budget -> Nat] \union {None}]

Init ==
    /\ row = [i \in Item |-> None]
    /\ child = {}
    /\ log = {}
    /\ hour = {}
    /\ escalated = {}
    /\ op = [t \in Conn |-> None]
    /\ counted = [t \in Conn |-> None]

\* createdProjector: state, metadata, and the actor of the event.
NewItem(s, m, a) == [state |-> s, meta |-> m, enteredBy |-> a]

\* Append: the log and the events of the last hour after events S.
Append(S) ==
    /\ Cardinality(log \union S) <= MaxEvents
    /\ log' = log \union S
    /\ hour' = hour \union (S \ log)

-----------------------------------------------------------------------------
(* What the budgets count.                                                 *)

\* countedChildCount: children that are not human-attention items.
countedChildCount(i) == Cardinality({c \in Item : <<i, c>> \in child})

\* runningCountForActor: other items in running whose current stay in that
\* state was begun by the actor, through a transition or at creation.
runningCountForActor(i, a) ==
    Cardinality({j \in Item \ {i} :
        row[j] # None /\ row[j].state = "running" /\ row[j].enteredBy = a})

\* countedEventsInLastHourByClass.
countedEventsInLastHour(i, c) == Cardinality({e \in hour : e.item = i /\ ClassOf(e) = c})

-----------------------------------------------------------------------------
(* The three steps of an operation.                                        *)

\* Mutant of CanTransition: terminal states are not looked at.
CanTransitionAnyway(from, to) == TRUE

\* CanTransition: any move is legal that does not leave a terminal state.
CanTransition(from, to) == from = to \/ from \notin Terminal

\* convergenceChecksRequired: from captured and triaged an item without checks
\* can be put aside but not moved forward.
convergenceChecksRequired(w, to) ==
    /\ ~ w.meta.checks
    /\ w.state \in {"captured", "triaged"}
    /\ to \notin {"captured", "triaged", "blocked", "failed", "canceled"}

\* A request that is not refused on reading the row.  A spawn names a new child
\* (its id is drawn or derived) or, on a retry, one it has spawned before.
Admissible(o) ==
    /\ row[o.item] # None
    /\ o.kind = "transition" =>
          /\ CanTransition(row[o.item].state, o.to)
          /\ ~ convergenceChecksRequired(row[o.item], o.to)
    /\ o.kind = "spawn" => row[o.child] = None \/ <<o.item, o.child>> \in child

\* Moves into running are counted against the actor's token.
EntersRunning(o) ==
    o.kind = "transition" /\ o.to = "running" /\ row[o.item].state # "running"

\* Mutant of Begin: the row is read without FOR UPDATE.
BeginUnlocked(t, o) ==
    /\ op[t] = None
    /\ Admissible(o)
    /\ op' = [op EXCEPT ![t] = o]
    /\ UNCHANGED <<row, child, log, hour, escalated, counted>>

\* scanWorkItemForUpdate waits for the transaction that holds the item, and a
\* request that is refused rolls back.
Begin(t, o) ==
    /\ op[t] = None
    /\ \A u \in Conn : op[u] # None => op[u].item # o.item
    /\ Admissible(o)
    /\ op' = [op EXCEPT ![t] = o]
    /\ UNCHANGED <<row, child, log, hour, escalated, counted>>

\* The event a metered request appends.
EventOf(o) ==
    CASE o.kind = "transition" ->
            [kind |-> "transitioned", item |-> o.item, from |-> row[o.item].state, to |-> o.to,
             reason |-> "caller", tag |-> o.tag]
      [] o.kind = "metadata" ->
            [kind |-> "metadata_updated", item |-> o.item, from |-> row[o.item].meta,
             to |-> o.to, tag |-> o.tag]
      [] o.kind = "append" ->
            [kind |-> "event_appended", item |-> o.item, tag |-> o.tag]

\* What o finds used of budget b; 0 where the budget does not apply to it.
Used(o, b) ==
    CASE b = "children" -> IF o.kind = "spawn" THEN countedChildCount(o.item) ELSE 0
      [] b = "running" -> IF EntersRunning(o) THEN runningCountForActor(o.item, o.actor) ELSE 0
      [] OTHER -> IF o.kind # "spawn" /\ b = ClassOf(EventOf(o))
                  THEN countedEventsInLastHour(o.item, b) ELSE 0

\* Mutant of Count: the token is not locked.
CountUnlocked(t) ==
    /\ op[t] # None
    /\ counted[t] = None
    /\ counted' = [counted EXCEPT ![t] = [b \in Budget |-> Used(op[t], b)]]
    /\ UNCHANGED <<row, child, log, hour, escalated, op>>

\* The reads of the enforce*Budget calls; enforceConcurrentRunningBudget waits
\* for the transaction that has locked the token, and locks it.
Count(t) ==
    /\ op[t] # None
    /\ counted[t] = None
    /\ \A u \in Conn :
          EntersRunning(op[t]) /\ counted[u] # None /\ EntersRunning(op[u])
              => op[u].actor # op[t].actor
    /\ counted' = [counted EXCEPT ![t] = [b \in Budget |-> Used(op[t], b)]]
    /\ UNCHANGED <<row, child, log, hour, escalated, op>>

\* Mutant of OverBudget: the limit itself is still allowed.
OverBudgetByOne(t, b, n) ==
    LET o == op[t]
    IN  /\ counted[t] # None
        /\ n = counted[t][b]
        /\ \/ /\ o.kind = "spawn" /\ <<o.item, o.child>> \notin child
              /\ b = "children" /\ n > MaxChildren
           \/ /\ EntersRunning(o)
              /\ b = "running" /\ n > MaxRunning
           \/ /\ o.kind # "spawn" /\ (EntersRunning(o) => counted[t]["running"] < MaxRunning)
              /\ EventOf(o) \notin log
              /\ b = ClassOf(EventOf(o)) /\ n > MaxRate[b]

\* Budget b, of which n is used, stands in the way of t's request.  An event
\* that exists already is a replay and is not metered.
OverBudget(t, b, n) ==
    LET o == op[t]
    IN  /\ counted[t] # None
        /\ n = counted[t][b]
        /\ \/ /\ o.kind = "spawn" /\ <<o.item, o.child>> \notin child
              /\ b = "children" /\ n >= MaxChildren
           \/ /\ EntersRunning(o)
              /\ b = "running" /\ n >= MaxRunning
           \/ /\ o.kind # "spawn" /\ (EntersRunning(o) => counted[t]["running"] < MaxRunning)
              /\ EventOf(o) \notin log
              /\ b = ClassOf(EventOf(o)) /\ n >= MaxRate[b]

\* The transaction ends and releases its locks.
Close(t) ==
    /\ op' = [op EXCEPT ![t] = None]
    /\ counted' = [counted EXCEPT ![t] = None]

\* The projectors of t's own event, or of those of a spawn.
Commit(t) ==
    LET o == op[t]
        w == row[o.item]
    IN  /\ counted[t] # None
        /\ \A b \in Budget : ~ OverBudget(t, b, counted[t][b])
        /\ \/ /\ o.kind = "spawn"
              /\ row[o.child] = None
              /\ Append({[kind |-> "created", item |-> o.child],
                         [kind |-> "relation_added", item |-> o.item, child |-> o.child]})
              /\ row' = [row EXCEPT ![o.child] = NewItem(o.state, o.meta, o.actor)]
              /\ child' = child \union {<<o.item, o.child>>}
           \/ /\ o.kind # "spawn"
              /\ EventOf(o) \notin log
              /\ Append({EventOf(o)})
              /\ row' = [row EXCEPT ![o.item] =
                    CASE o.kind = "transition" ->
                            [w EXCEPT !.state = o.to,
                                      !.enteredBy = IF w.state = o.to THEN @ ELSE o.actor]
                      [] o.kind = "metadata" -> [w EXCEPT !.meta = o.to]
                      [] OTHER -> w]
              /\ UNCHANGED child
        /\ Close(t)
        /\ UNCHANGED escalated

\* enforce*Budget and requestXylemEscalationInTx: the exhaustion is recorded,
\* and a new escalation adds its human child, sets the review to blocked and
\* moves the item there.  None of these events has a discriminator, so one
\* that equals an earlier event is dropped together with its projector.
Exhaust(t, b, n) ==
    LET o == op[t]
        w == row[o.item]
        esc == [item |-> o.item, budget |-> b, current |-> n,
                actor |-> IF b = "running" THEN o.actor ELSE None]
        xylem == [kind |-> "exhausted", item |-> o.item, budget |-> b, current |-> n,
                  attempt |-> CASE b = "children" -> o.child
                                [] b = "running" -> o.actor
                                [] OTHER -> EventOf(o),
                  state |-> w.state]
        relation == [kind |-> "relation_added", item |-> o.item, child |-> esc]
        metadata == [kind |-> "metadata_updated", item |-> o.item, from |-> w.meta,
                     to |-> [w.meta EXCEPT !.review = "blocked"], tag |-> NoTag]
        blocked == [kind |-> "transitioned", item |-> o.item, from |-> w.state,
                    to |-> "blocked", reason |-> b, tag |-> NoTag]
        moved == w.state # "blocked" /\ blocked \notin log
    IN  /\ OverBudget(t, b, n)
        /\ \/ /\ esc \in escalated
              /\ Append({xylem})
              /\ UNCHANGED <<row, escalated>>
           \/ /\ esc \notin escalated
              /\ escalated' = escalated \union {esc}
              /\ Append({xylem, relation, metadata}
                         \union (IF w.state = "blocked" THEN {} ELSE {blocked}))
              /\ row' = [row EXCEPT ![o.item] =
                    [state |-> IF moved THEN "blocked" ELSE w.state,
                     meta |-> IF metadata \in log THEN w.meta ELSE metadata.to,
                     enteredBy |-> IF moved THEN o.actor ELSE w.enteredBy]]
        /\ Close(t)
        /\ UNCHANGED child

\* A rollback, or the replay of an event or a spawn that exists already.
Leave(t) ==
    /\ op[t] # None
    /\ Close(t)
    /\ UNCHANGED <<row, child, log, hour, escalated>>

\* Create: one insert under a new id; no budget is consulted.
CreateItem(o) ==
    /\ row[o.item] = None
    /\ Append({[kind |-> "created", item |-> o.item]})
    /\ row' = [row EXCEPT ![o.item] = NewItem(o.state, o.meta, o.actor)]
    /\ UNCHANGED <<child, escalated, op, counted>>

\* The events so far fall out of the window of the rate budget.
HourPasses ==
    /\ hour # {}
    /\ hour' = {}
    /\ UNCHANGED <<row, child, log, escalated, op, counted>>

Next ==
    \/ \E t \in Conn :
        \/ \E o \in Requests \intersect Operation : Begin(t, o)
        \/ Count(t)
        \/ Commit(t)
        \/ \E b \in Budget, n \in 0..MaxEvents : Exhaust(t, b, n)
        \/ Leave(t)
    \/ HourPasses
    \/ \E o \in Requests \intersect Create : CreateItem(o)

Spec == Init /\ [][Next]_vars

-----------------------------------------------------------------------------
(* Properties                                                              *)

\* The item's stay in running was begun by a transition.  (An item can also be
\* created in that state, which no budget looks at.)
MovedIntoRunning(i) ==
    /\ row[i] # None
    /\ row[i].state = "running"
    /\ \E e \in log : /\ e.kind = "transitioned" /\ e.item = i
                      /\ e.to = "running" /\ e.from # "running"

\* max_concurrent_running_items_per_token: however the requests of one token
\* interleave, it never holds more items in running than the budget that it
\* moved there, self-transitions by other tokens included.
RunningWithinBudget ==
    \A a \in Actor :
        Cardinality({i \in Item : MovedIntoRunning(i) /\ row[i].enteredBy = a}) <= MaxRunning

\* max_children_per_item: concurrent and repeated spawns never take a parent
\* over its budget.
ChildrenWithinBudget == \A i \in Item : countedChildCount(i) <= MaxChildren

\* Events appended on behalf of a caller; the others are recovery events.
ByCaller(e) ==
    \/ e.kind = "event_appended"
    \/ e.kind = "transitioned" /\ e.reason = "caller"
    \/ e.kind = "metadata_updated" /\ e.tag # NoTag

\* max_events_per_item_per_hour_by_class: within an hour an item receives no
\* more of the callers' events of a class than the budget, while the recovery
\* events of an exhaustion may go beyond it.
RateWithinBudget ==
    \A i \in Item, c \in Class :
        Cardinality({e \in hour : e.item = i /\ ClassOf(e) = c /\ ByCaller(e)}) <= MaxRate[c]

\* No request moves an item out of a terminal state: only a new escalation
\* does, and it takes the item to blocked, in front of a human.
TerminalLeftByEscalation ==
    [][\A i \in Item :
        row[i] # None /\ row[i].state \in Terminal /\ row'[i].state # row[i].state =>
            /\ row'[i].state = "blocked"
            /\ \E e \in escalated' \ escalated : e.item = i]_vars

-----------------------------------------------------------------------------
(* The inductive invariant behind the budgets                              *)

\* A transaction that counted is under way, on an item that exists and that no
\* other transaction has locked; a move it was admitted for is still legal.
LocksOK ==
    /\ \A t \in Conn : counted[t] # None => op[t] # None
    /\ \A t \in Conn : op[t] # None =>
          /\ row[op[t].item] # None
          /\ op[t].kind = "transition" => CanTransition(row[op[t].item].state, op[t].to)
    /\ \A t, u \in Conn : op[t] # None /\ op[u] # None /\ op[t].item = op[u].item => t = u

\* Of the transactions that move an item into running for one token, one at
\* most is past the token's lock.
TokenLocksOK ==
    \A t, u \in Conn :
        /\ counted[t] # None /\ EntersRunning(op[t])
        /\ counted[u] # None /\ EntersRunning(op[u])
        /\ op[t].actor = op[u].actor
        => t = u

\* Events are about items that exist, and so are relations.
LogOK ==
    /\ IsFiniteSet(log)
    /\ \A e \in log : row[e.item] # None
    /\ \A i, c \in Item : <<i, c>> \in child => row[c] # None

EventsOf(i, c) == {e \in hour : e.item = i /\ ClassOf(e) = c}
RunningFor(a) == {i \in Item : MovedIntoRunning(i) /\ row[i].enteredBy = a}

\* What a transaction counted covers what is used when it commits.
CountsOK ==
    \A t \in Conn : counted[t] # None =>
        /\ op[t].kind = "spawn" => counted[t]["children"] = countedChildCount(op[t].item)
        /\ EntersRunning(op[t]) =>
              Cardinality(RunningFor(op[t].actor) \ {op[t].item}) <= counted[t]["running"]
        /\ op[t].kind # "spawn" =>
              \A c \in Class : c = ClassOf(EventOf(op[t])) =>
                  Cardinality(EventsOf(op[t].item, c)) <= counted[t][c]

WorkItemsInv ==
    /\ TypeOK /\ LocksOK /\ TokenLocksOK /\ LogOK /\ CountsOK
    /\ ChildrenWithinBudget /\ RunningWithinBudget /\ RateWithinBudget
=============================================================================
