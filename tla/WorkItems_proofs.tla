-------------------------- MODULE WorkItems_proofs --------------------------
(***************************************************************************)
(* Proofs about WorkItems, for any number of connections, items and tokens *)
(* and any budgets.                                                        *)
(***************************************************************************)
EXTENDS WorkItems, FiniteSetTheorems, TLAPS

\* The two ways an operation commits.
CommitSpawn(t) ==
    LET o == op[t]
    IN  /\ o.kind = "spawn" /\ row[o.child] = None
        /\ Append({[kind |-> "created", item |-> o.child],
                   [kind |-> "relation_added", item |-> o.item, child |-> o.child]})
        /\ row' = [row EXCEPT ![o.child] = NewItem(o.state, o.meta, o.actor)]
        /\ child' = child \union {<<o.item, o.child>>}

Projected(o) ==
    LET w == row[o.item]
    IN  CASE o.kind = "transition" ->
                [w EXCEPT !.state = o.to, !.enteredBy = IF w.state = o.to THEN @ ELSE o.actor]
          [] o.kind = "metadata" -> [w EXCEPT !.meta = o.to]
          [] OTHER -> w

CommitEvent(t) ==
    LET o == op[t]
    IN  /\ o.kind # "spawn" /\ EventOf(o) \notin log
        /\ Append({EventOf(o)})
        /\ row' = [row EXCEPT ![o.item] = Projected(o)]
        /\ UNCHANGED child

\* A commit is one of the two, within every budget.
LEMMA CommitCases ==
    ASSUME NEW t \in Conn, Commit(t)
    PROVE  /\ counted[t] # None /\ Close(t) /\ UNCHANGED escalated
           /\ \A b \in Budget : ~ OverBudget(t, b, counted[t][b])
           /\ CommitSpawn(t) \/ CommitEvent(t)
  BY DEF Commit, CommitSpawn, CommitEvent, Projected

-----------------------------------------------------------------------------
(* Operations and their events                                             *)

\* The fields of an operation, by its kind.
LEMMA OperationFields ==
    ASSUME NEW o \in Operation
    PROVE  /\ o.kind \in {"transition", "metadata", "append", "spawn"}
           /\ o.item \in Item /\ o.actor \in Actor
           /\ o.kind = "transition" => o.to \in State /\ o.tag \in Tag
           /\ o.kind = "metadata" => o.to \in Metadata /\ o.tag \in Tag
           /\ o.kind = "append" => o.tag \in Tag
           /\ o.kind = "spawn" => o.child \in Item /\ o.state \in State /\ o.meta \in Metadata
  BY DEF Operation, Transition, UpdateMetadata, AppendEvent, SpawnChild

\* A row is a work item or None, which is not one.
LEMMA RowFields ==
    ASSUME TypeOK, NEW i \in Item, row[i] # None
    PROVE  /\ row[i] \in WorkItem /\ row[i].state \in State /\ row[i].meta \in Metadata
           /\ row[i].enteredBy \in Actor
  BY DEF TypeOK, WorkItem

\* The event of a metered request is about its item.
LEMMA EventOfType ==
    ASSUME TypeOK, NEW o \in Operation, o.kind # "spawn", row[o.item] # None
    PROVE  /\ EventOf(o) \in Metered /\ EventOf(o).item = o.item
           /\ ClassOf(EventOf(o)) \in Class
  <1>1. /\ o.kind \in {"transition", "metadata", "append", "spawn"} /\ o.item \in Item
        /\ row[o.item].state \in State /\ row[o.item].meta \in Metadata
    BY OperationFields, RowFields
  <1>2. CASE o.kind = "transition"
    <2>1. o.to \in State /\ o.tag \in Tag
      BY <1>2, OperationFields
    <2>2. EventOf(o) = [kind |-> "transitioned", item |-> o.item, from |-> row[o.item].state,
                        to |-> o.to, reason |-> "caller", tag |-> o.tag]
      BY <1>2 DEF EventOf
    <2> QED
      BY <1>1, <2>1, <2>2 DEF Metered, ClassOf, Class
  <1>3. CASE o.kind = "metadata"
    <2>1. o.to \in Metadata /\ o.tag \in Tag
      BY <1>3, OperationFields
    <2>2. EventOf(o) = [kind |-> "metadata_updated", item |-> o.item, from |-> row[o.item].meta,
                        to |-> o.to, tag |-> o.tag]
      BY <1>3 DEF EventOf
    <2> QED
      BY <1>1, <2>1, <2>2 DEF Metered, ClassOf, Class
  <1>4. CASE o.kind = "append"
    <2>1. o.tag \in Tag
      BY <1>4, OperationFields
    <2>2. EventOf(o) = [kind |-> "event_appended", item |-> o.item, tag |-> o.tag]
      BY <1>4 DEF EventOf
    <2> QED
      BY <1>1, <2>1, <2>2 DEF Metered, ClassOf, Class
  <1> QED
    BY <1>1, <1>2, <1>3, <1>4

\* The row a metered request leaves.
LEMMA ProjectedType ==
    ASSUME TypeOK, NEW o \in Operation, o.kind # "spawn", row[o.item] # None
    PROVE  /\ Projected(o) \in WorkItem
           /\ Projected(o).state = IF o.kind = "transition" THEN o.to ELSE row[o.item].state
           /\ Projected(o).state = row[o.item].state => Projected(o).enteredBy = row[o.item].enteredBy
           /\ Projected(o).state # row[o.item].state => Projected(o).enteredBy = o.actor
  <1>1. /\ o.kind \in {"transition", "metadata", "append", "spawn"} /\ o.item \in Item
        /\ o.actor \in Actor /\ row[o.item] \in WorkItem
    BY OperationFields, RowFields
  <1>2. CASE o.kind = "transition"
    <2>1. o.to \in State
      BY <1>2, OperationFields
    <2>2. Projected(o) = [row[o.item] EXCEPT !.state = o.to,
                            !.enteredBy = IF row[o.item].state = o.to THEN @ ELSE o.actor]
      BY <1>2 DEF Projected
    <2> QED
      BY <1>1, <1>2, <2>1, <2>2 DEF WorkItem
  <1>3. CASE o.kind = "metadata"
    <2>1. o.to \in Metadata
      BY <1>3, OperationFields
    <2>2. Projected(o) = [row[o.item] EXCEPT !.meta = o.to]
      BY <1>3 DEF Projected
    <2> QED
      BY <1>1, <1>3, <2>1, <2>2 DEF WorkItem
  <1>4. CASE o.kind = "append"
    <2>1. Projected(o) = row[o.item]
      BY <1>4 DEF Projected
    <2> QED
      BY <1>1, <1>4, <2>1 DEF WorkItem
  <1> QED
    BY <1>1, <1>2, <1>3, <1>4

-----------------------------------------------------------------------------
(* What a step writes                                                      *)

\* A step writes to an item it makes or to the item of a transaction it closes.
Touched(i) ==
    i \in Item /\ (row[i] = None \/ \E t \in Conn : op[t] # None /\ op'[t] = None /\ op[t].item = i)

\* Events S are appended; rows and relations change where the step may write.
Writes(S) ==
    /\ IsFiniteSet(S) /\ S \subseteq Event
    /\ log' = log \union S /\ hour' \subseteq hour \union (S \ log)
    /\ row' \in [Item -> WorkItem \union {None}]
    /\ \A i \in Item : /\ row'[i] # row[i] => Touched(i)
                       /\ row[i] # None => row'[i] # None
    /\ \A e \in S : Touched(e.item) /\ row'[e.item] # None
    /\ child \subseteq child' /\ child' \subseteq Item \X Item
    /\ \A i, c \in Item : <<i, c>> \in child' \ child => Touched(i) /\ row'[c] # None
    /\ escalated' \subseteq Escalation

\* A step that changes one row of the touched item i at most, and no relation.
LEMMA OneRow ==
    ASSUME TypeOK, NEW i, Touched(i), NEW w \in WorkItem, NEW S \in SUBSET Event, IsFiniteSet(S),
           \/ row' = [row EXCEPT ![i] = w]
           \/ row' = row /\ row[i] # None,
           \A e \in S : e.item = i, Append(S), UNCHANGED child, escalated' \subseteq Escalation
    PROVE  Writes(S)
  <1>1. None \notin WorkItem /\ i \in Item /\ row \in [Item -> WorkItem \union {None}]
    BY WorkItemsAssumption DEF Touched, TypeOK
  <1>2. row' \in [Item -> WorkItem \union {None}] /\ row'[i] # None
        /\ \A j \in Item : j # i => row'[j] = row[j]
    BY <1>1
  <1>3. log' = log \union S /\ hour' \subseteq hour \union (S \ log)
    BY DEF Append
  <1>4. child \subseteq child' /\ child' \subseteq Item \X Item
    BY DEF TypeOK
  <1> QED
    BY <1>1, <1>2, <1>3, <1>4 DEF Writes

\* A step that leaves the tables alone.
LEMMA QuietWrites ==
    ASSUME TypeOK, UNCHANGED <<row, child, log, escalated>>, hour' \subseteq hour
    PROVE  Writes({})
  BY FS_EmptySet DEF Writes, TypeOK

\* An operation under way, and the item it has locked.
LEMMA Locked ==
    ASSUME TypeOK, LocksOK, NEW t \in Conn, op[t] # None
    PROVE  op[t] \in Operation /\ op[t].item \in Item /\ row[op[t].item] # None
  <1>1. op[t] \in Operation
    BY DEF TypeOK
  <1> QED
    BY <1>1, OperationFields DEF LocksOK

\* Which budget stands in the way tells the kind of the operation.
LEMMA OverBudgetKind ==
    ASSUME TypeOK, LocksOK, NEW t \in Conn, NEW b \in Budget, NEW n, OverBudget(t, b, n)
    PROVE  /\ counted[t] # None /\ op[t] # None /\ n = counted[t][b]
           /\ b = "children" => op[t].kind = "spawn"
           /\ b # "children" => op[t].kind # "spawn"
  <1>1. counted[t] # None /\ op[t] # None /\ n = counted[t][b]
    BY DEF OverBudget, LocksOK
  <1>2. op[t].kind # "spawn" => ClassOf(EventOf(op[t])) \in Class
    BY <1>1, Locked, EventOfType
  <1> QED
    BY <1>1, <1>2 DEF OverBudget, EntersRunning, Class

\* An exhausted budget appends recovery events about its item, and leaves the
\* item as it was or blocked, which a new escalation does.
LEMMA ExhaustEffect ==
    ASSUME TypeOK, LocksOK, NEW t \in Conn, NEW b \in Budget, NEW n \in 0..MaxEvents, Exhaust(t, b, n)
    PROVE  /\ Close(t) /\ op[t] # None
           /\ \E S \in SUBSET Event :
                /\ Writes(S)
                /\ \A e \in S : /\ e.item = op[t].item /\ ~ ByCaller(e)
                                /\ ~ (e.kind = "transitioned" /\ e.to = "running")
           /\ UNCHANGED child
           /\ \A i \in Item : i # op[t].item => row'[i] = row[i]
           /\ LET w == row[op[t].item]
                  v == row'[op[t].item]
              IN  \/ v.state = w.state /\ v.enteredBy = w.enteredBy
                  \/ v.state = "blocked" /\ \E e \in escalated' \ escalated : e.item = op[t].item
  <1> DEFINE o == op[t]
             i == o.item
             w == row[i]
             esc == [item |-> i, budget |-> b, current |-> n,
                     actor |-> IF b = "running" THEN o.actor ELSE None]
             attempt == CASE b = "children" -> o.child
                          [] b = "running" -> o.actor
                          [] OTHER -> EventOf(o)
             xylem == [kind |-> "exhausted", item |-> i, budget |-> b, current |-> n,
                       attempt |-> attempt, state |-> w.state]
             relation == [kind |-> "relation_added", item |-> i, child |-> esc]
             toMeta == [w.meta EXCEPT !.review = "blocked"]
             metadata == [kind |-> "metadata_updated", item |-> i, from |-> w.meta,
                          to |-> toMeta, tag |-> NoTag]
             blocked == [kind |-> "transitioned", item |-> i, from |-> w.state,
                         to |-> "blocked", reason |-> b, tag |-> NoTag]
             moved == w.state # "blocked" /\ blocked \notin log
             new == [state |-> IF moved THEN "blocked" ELSE w.state,
                     meta |-> IF metadata \in log THEN w.meta ELSE metadata.to,
                     enteredBy |-> IF moved THEN o.actor ELSE w.enteredBy]
             Harmless(e) == /\ e.item = i /\ ~ ByCaller(e)
                            /\ ~ (e.kind = "transitioned" /\ e.to = "running")
             more == {xylem, relation, metadata} \union (IF w.state = "blocked" THEN {} ELSE {blocked})
  <1>1. OverBudget(t, b, n) /\ Close(t) /\ UNCHANGED child
    BY DEF Exhaust
  <1>2. /\ op[t] # None /\ counted[t] # None /\ n \in Nat
        /\ b = "children" => o.kind = "spawn"
        /\ b # "children" => o.kind # "spawn"
    BY <1>1, OverBudgetKind, WorkItemsAssumption
  <1>3. o \in Operation /\ i \in Item /\ row[i] # None /\ o.actor \in Actor
    BY <1>2, Locked, OperationFields
  <1>4. w \in WorkItem /\ w.state \in State /\ w.meta \in Metadata /\ w.enteredBy \in Actor
    BY <1>3, RowFields
  <1>5. Touched(i)
    BY <1>1, <1>2, <1>3 DEF Touched, Close, TypeOK
  <1>6. attempt \in Item \union Actor \union Metered
    <2>1. CASE b = "children"
      BY <1>2, <1>3, <2>1, OperationFields
    <2>2. CASE b = "running"
      BY <1>3, <2>2
    <2>3. CASE b # "children" /\ b # "running"
      <3>1. EventOf(o) \in Metered
        BY <1>2, <1>3, <2>3, EventOfType
      <3> QED
        BY <2>3, <3>1
    <2> QED
      BY <2>1, <2>2, <2>3
  <1>7. toMeta \in Metadata
    BY <1>4 DEF Metadata, Review
  <1>8. esc \in Escalation
    BY <1>2, <1>3 DEF Escalation
  <1> HIDE DEF attempt, toMeta, esc
  <1>9. xylem \in Event /\ Harmless(xylem)
    BY <1>2, <1>3, <1>4, <1>6 DEF Event, ByCaller
  <1>10. relation \in Event /\ Harmless(relation)
    BY <1>3, <1>8 DEF Event, ByCaller
  <1>11. metadata \in Event /\ Harmless(metadata)
    BY <1>3, <1>4, <1>7, WorkItemsAssumption DEF Event, Metered, ByCaller
  <1>12. blocked \in Event /\ Harmless(blocked)
    BY <1>3, <1>4, WorkItemsAssumption DEF Event, Metered, ByCaller, State, Budget, Class
  <1>13. new \in WorkItem /\ ((new.state = w.state /\ new.enteredBy = w.enteredBy) \/ new.state = "blocked")
    BY <1>3, <1>4, <1>7 DEF WorkItem, State
  <1> HIDE DEF xylem, relation, metadata, blocked, moved, new, Harmless
  <1>14. IsFiniteSet({xylem}) /\ IsFiniteSet(more)
    <2>1. /\ IsFiniteSet({xylem}) /\ IsFiniteSet({relation}) /\ IsFiniteSet({metadata})
          /\ IsFiniteSet({blocked}) /\ IsFiniteSet({})
      BY FS_Singleton, FS_EmptySet
    <2>2. IsFiniteSet({xylem} \union {relation} \union {metadata})
      BY <2>1, FS_Union
    <2>3. {xylem} \union {relation} \union {metadata} = {xylem, relation, metadata}
      OBVIOUS
    <2>4. CASE w.state = "blocked"
      BY <2>1, <2>2, <2>3, <2>4
    <2>5. CASE w.state # "blocked"
      BY <2>1, <2>2, <2>3, <2>5, FS_Union
    <2> QED
      BY <2>1, <2>4, <2>5
  <1>15. \/ esc \in escalated /\ Append({xylem}) /\ UNCHANGED <<row, escalated>>
         \/ /\ esc \notin escalated /\ escalated' = escalated \union {esc} /\ Append(more)
            /\ row' = [row EXCEPT ![i] = new]
    BY DEF Exhaust, attempt, toMeta, esc, xylem, relation, metadata, blocked, moved, new
  <1>16. CASE esc \in escalated /\ Append({xylem}) /\ UNCHANGED <<row, escalated>>
    <2>1. {xylem} \in SUBSET Event /\ \A e \in {xylem} : e.item = i
      BY <1>9 DEF Harmless
    <2>2. escalated' \subseteq Escalation
      BY <1>16 DEF TypeOK
    <2>3. Writes({xylem})
      BY <1>1, <1>3, <1>4, <1>5, <1>14, <1>16, <2>1, <2>2, OneRow
    <2> QED
      BY <1>1, <1>2, <1>9, <1>16, <2>1, <2>3 DEF Harmless
  <1>17. CASE /\ esc \notin escalated /\ escalated' = escalated \union {esc} /\ Append(more)
              /\ row' = [row EXCEPT ![i] = new]
    <2>1. more \in SUBSET Event /\ \A e \in more : Harmless(e)
      BY <1>9, <1>10, <1>11, <1>12
    <2>2. escalated' \subseteq Escalation /\ esc \in escalated' \ escalated /\ esc.item = i
      BY <1>8, <1>17 DEF TypeOK, esc
    <2>3. \A e \in more : e.item = i
      BY <2>1 DEF Harmless
    <2> HIDE DEF more
    <2>4. Writes(more)
      BY <1>1, <1>5, <1>13, <1>14, <1>17, <2>1, <2>2, <2>3, OneRow
    <2>5. row'[i] = new /\ \A j \in Item : j # i => row'[j] = row[j]
      BY <1>3, <1>17 DEF TypeOK
    <2> QED
      BY <1>1, <1>2, <1>13, <2>1, <2>2, <2>4, <2>5 DEF Harmless
  <1> QED
    BY <1>15, <1>16, <1>17

\* A spawn makes its child, and writes to nothing but that and its parent.
LEMMA SpawnEffect ==
    ASSUME TypeOK, LocksOK, NEW t \in Conn, op[t] # None, CommitSpawn(t), Close(t), UNCHANGED escalated
    PROVE  /\ op[t].child \in Item /\ row[op[t].child] = None
           /\ \E S \in SUBSET Event : Writes(S) /\ \A e \in S : e.kind \in {"created", "relation_added"}
           /\ \A i \in Item : i # op[t].child => row'[i] = row[i]
  <1> DEFINE o == op[t]
             c == o.child
             w == NewItem(o.state, o.meta, o.actor)
             made == [kind |-> "created", item |-> c]
             related == [kind |-> "relation_added", item |-> o.item, child |-> c]
             S == {made, related}
  <1>1. o \in Operation /\ o.item \in Item /\ row[o.item] # None
    BY Locked
  <1>2. /\ o.kind = "spawn" /\ row[c] = None /\ Append(S)
        /\ row' = [row EXCEPT ![c] = w] /\ child' = child \union {<<o.item, c>>}
    BY DEF CommitSpawn
  <1>3. c \in Item /\ o.state \in State /\ o.meta \in Metadata /\ o.actor \in Actor
    BY <1>1, <1>2, OperationFields
  <1>4. w \in WorkItem
    BY <1>3 DEF NewItem, WorkItem
  <1>5. made \in Event /\ related \in Event /\ made.item = c /\ related.item = o.item
        /\ made.kind = "created" /\ related.kind = "relation_added"
    BY <1>1, <1>3 DEF Event
  <1>6. Touched(c) /\ Touched(o.item)
    BY <1>1, <1>2, <1>3 DEF Touched, Close, TypeOK
  <1> HIDE DEF w, made, related
  <1>7. row' \in [Item -> WorkItem \union {None}] /\ row'[c] = w /\ \A i \in Item : i # c => row'[i] = row[i]
    BY <1>2, <1>3, <1>4 DEF TypeOK
  <1>8. row'[c] # None /\ row'[o.item] # None
    BY <1>1, <1>2, <1>4, <1>7, WorkItemsAssumption
  <1>9. IsFiniteSet(S)
    <2>1. IsFiniteSet({made} \union {related})
      BY FS_Singleton, FS_Union
    <2>2. {made} \union {related} = S
      OBVIOUS
    <2> QED
      BY <2>1, <2>2
  <1>10. S \in SUBSET Event /\ \A e \in S : e.kind \in {"created", "relation_added"}
    BY <1>5
  <1>11. \A e \in S : Touched(e.item) /\ row'[e.item] # None
    BY <1>5, <1>6, <1>8
  <1>12. child \subseteq child' /\ child' \subseteq Item \X Item
         /\ \A i, d \in Item : <<i, d>> \in child' \ child => i = o.item /\ d = c
    BY <1>1, <1>2, <1>3 DEF TypeOK
  <1>13. log' = log \union S /\ hour' \subseteq hour \union (S \ log) /\ escalated' \subseteq Escalation
    BY <1>2 DEF Append, TypeOK
  <1>14. \A i \in Item : (row'[i] # row[i] => Touched(i)) /\ (row[i] # None => row'[i] # None)
    BY <1>2, <1>6, <1>7, <1>8
  <1> HIDE DEF S
  <1>15. Writes(S)
    BY <1>6, <1>7, <1>8, <1>9, <1>10, <1>11, <1>12, <1>13, <1>14 DEF Writes
  <1> QED
    BY <1>2, <1>3, <1>7, <1>10, <1>15

\* A metered request appends its event and projects it.
LEMMA EventEffect ==
    ASSUME TypeOK, LocksOK, NEW t \in Conn, op[t] # None, CommitEvent(t), Close(t), UNCHANGED escalated
    PROVE  /\ op[t] \in Operation /\ op[t].kind # "spawn"
           /\ EventOf(op[t]) \in Event /\ EventOf(op[t]).item = op[t].item
           /\ Writes({EventOf(op[t])}) /\ UNCHANGED child
           /\ row'[op[t].item] = Projected(op[t])
           /\ \A i \in Item : i # op[t].item => row'[i] = row[i]
  <1> DEFINE o == op[t]
  <1>1. o \in Operation /\ o.item \in Item /\ row[o.item] # None
    BY Locked
  <1>2. /\ o.kind # "spawn" /\ Append({EventOf(o)}) /\ UNCHANGED child
        /\ row' = [row EXCEPT ![o.item] = Projected(o)]
    BY DEF CommitEvent
  <1>3. EventOf(o) \in Event /\ EventOf(o).item = o.item
    BY <1>1, <1>2, EventOfType DEF Event
  <1>4. Projected(o) \in WorkItem
    BY <1>1, <1>2, ProjectedType
  <1>5. Touched(o.item)
    BY <1>1 DEF Touched, Close, TypeOK
  <1>6. IsFiniteSet({EventOf(o)}) /\ {EventOf(o)} \in SUBSET Event /\ \A e \in {EventOf(o)} : e.item = o.item
    BY <1>3, FS_Singleton
  <1>7. escalated' \subseteq Escalation
    BY DEF TypeOK
  <1>8. Writes({EventOf(o)})
    BY <1>2, <1>4, <1>5, <1>6, <1>7, OneRow
  <1> QED
    BY <1>1, <1>2, <1>3, <1>8 DEF TypeOK

\* Creating an item writes to that item.
LEMMA CreateEffect ==
    ASSUME TypeOK, NEW o \in Create, CreateItem(o)
    PROVE  /\ o.item \in Item /\ row[o.item] = None
           /\ \E S \in SUBSET Event : Writes(S) /\ \A e \in S : e.kind = "created"
           /\ UNCHANGED <<child, op, counted, escalated>>
           /\ \A i \in Item : i # o.item => row'[i] = row[i]
  <1> DEFINE made == [kind |-> "created", item |-> o.item]
             w == NewItem(o.state, o.meta, o.actor)
  <1>1. o.item \in Item /\ o.state \in State /\ o.meta \in Metadata /\ o.actor \in Actor
    BY DEF Create
  <1>2. /\ row[o.item] = None /\ Append({made}) /\ row' = [row EXCEPT ![o.item] = w]
        /\ UNCHANGED <<child, op, counted, escalated>>
    BY DEF CreateItem
  <1>3. w \in WorkItem
    BY <1>1 DEF NewItem, WorkItem
  <1>4. made \in Event /\ made.item = o.item /\ made.kind = "created"
    BY <1>1 DEF Event
  <1> HIDE DEF made, w
  <1>5. Touched(o.item) /\ escalated' \subseteq Escalation
    BY <1>1, <1>2 DEF Touched, TypeOK
  <1>6. IsFiniteSet({made}) /\ {made} \in SUBSET Event /\ \A e \in {made} : e.item = o.item
    BY <1>4, FS_Singleton
  <1>7. Writes({made})
    BY <1>2, <1>3, <1>5, <1>6, OneRow
  <1> QED
    BY <1>1, <1>2, <1>4, <1>7 DEF TypeOK

-----------------------------------------------------------------------------
(* Steps                                                                   *)

\* Steps that read, roll back, or only let time pass.
Reads ==
    \/ \E t \in Conn : \/ \E o \in Requests \intersect Operation : Begin(t, o)
                       \/ Count(t) \/ Leave(t)
    \/ HourPasses \/ UNCHANGED vars
\* The steps that write.
Writers(t) ==
    \/ Commit(t) /\ CommitSpawn(t)
    \/ Commit(t) /\ CommitEvent(t)
    \/ \E b \in Budget, n \in 0..MaxEvents : Exhaust(t, b, n)

\* Every step is one of these.
LEMMA NextCases ==
    ASSUME [Next]_vars
    PROVE  \/ Reads
           \/ \E t \in Conn : Writers(t)
           \/ \E o \in Create : CreateItem(o)
  BY CommitCases DEF Next, Reads, Writers

\* Reads leave the tables alone.
LEMMA ReadsEffect ==
    ASSUME TypeOK, Reads
    PROVE  UNCHANGED <<row, child, log, escalated>> /\ hour' \subseteq hour /\ Writes({})
  <1>1. UNCHANGED <<row, child, log, escalated>> /\ hour' \subseteq hour
    BY DEF Reads, Begin, Count, Leave, HourPasses, vars
  <1> QED
    BY <1>1, QuietWrites

\* A transaction that writes ends.
LEMMA WritersEnd ==
    ASSUME TypeOK, LocksOK, NEW t \in Conn, Writers(t)
    PROVE  /\ op[t] # None /\ op' = [op EXCEPT ![t] = None] /\ counted' = [counted EXCEPT ![t] = None]
           /\ \E S \in SUBSET Event : Writes(S)
  <1>1. op[t] # None /\ Close(t)
    <2>1. CASE Commit(t)
      BY <2>1 DEF Commit, LocksOK
    <2>2. CASE \E b \in Budget, n \in 0..MaxEvents : Exhaust(t, b, n)
      BY <2>2, ExhaustEffect
    <2> QED
      BY <2>1, <2>2 DEF Writers
  <1>2. \E S \in SUBSET Event : Writes(S)
    <2>1. CASE Commit(t) /\ CommitSpawn(t)
      BY <1>1, <2>1, CommitCases, SpawnEffect
    <2>2. CASE Commit(t) /\ CommitEvent(t)
      <3>1. Writes({EventOf(op[t])}) /\ EventOf(op[t]) \in Event
        BY <1>1, <2>2, CommitCases, EventEffect
      <3> QED
        BY <3>1
    <2>3. CASE \E b \in Budget, n \in 0..MaxEvents : Exhaust(t, b, n)
      BY <2>3, ExhaustEffect
    <2> QED
      BY <2>1, <2>2, <2>3 DEF Writers
  <1> QED
    BY <1>1, <1>2 DEF Close

\* What every step writes.
LEMMA StepWrites ==
    ASSUME TypeOK, LocksOK, [Next]_vars
    PROVE  \E S \in SUBSET Event : Writes(S)
  BY NextCases, ReadsEffect, WritersEnd, CreateEffect

-----------------------------------------------------------------------------
(* Types, locks and the log                                                *)

\* What the budgets count is finite.
LEMMA CountsFinite ==
    ASSUME TypeOK, LogOK
    PROVE  /\ \A S \in SUBSET Item : IsFiniteSet(S) /\ Cardinality(S) \in Nat
           /\ \A S \in SUBSET hour : IsFiniteSet(S) /\ Cardinality(S) \in Nat
  <1>1. IsFiniteSet(hour)
    BY FS_Subset DEF TypeOK, LogOK
  <1> QED
    BY <1>1, FS_Subset, FS_CardinalityType, WorkItemsAssumption

\* Used is a number.
LEMMA UsedType ==
    ASSUME TypeOK, LogOK, NEW o \in Operation, NEW b \in Budget
    PROVE  Used(o, b) \in Nat
  <1>1. countedChildCount(o.item) \in Nat
    BY CountsFinite DEF countedChildCount
  <1>2. runningCountForActor(o.item, o.actor) \in Nat
    <2>1. {j \in Item \ {o.item} : row[j] # None /\ row[j].state = "running" /\ row[j].enteredBy = o.actor}
            \in SUBSET Item
      OBVIOUS
    <2> QED
      BY <2>1, CountsFinite DEF runningCountForActor
  <1>3. countedEventsInLastHour(o.item, b) \in Nat
    BY CountsFinite DEF countedEventsInLastHour
  <1> QED
    BY <1>1, <1>2, <1>3 DEF Used

\* What a step does to the transactions.
LEMMA StepTransactions ==
    ASSUME TypeOK, LocksOK, [Next]_vars
    PROVE  \/ \E t \in Conn : \E o \in Requests \intersect Operation : Begin(t, o)
           \/ \E t \in Conn : Count(t)
           \/ \E t \in Conn : op' = [op EXCEPT ![t] = None] /\ counted' = [counted EXCEPT ![t] = None]
           \/ UNCHANGED <<op, counted>>
  <1>1. CASE Reads
    BY <1>1 DEF Reads, Leave, Close, HourPasses, vars
  <1>2. ASSUME NEW t \in Conn, Writers(t)
        PROVE  op' = [op EXCEPT ![t] = None] /\ counted' = [counted EXCEPT ![t] = None]
    BY <1>2, WritersEnd
  <1>3. CASE \E o \in Create : CreateItem(o)
    BY <1>3, CreateEffect
  <1> QED
    BY <1>1, <1>2, <1>3, NextCases

\* Every step keeps the types.
LEMMA TypeStep ==
    ASSUME WorkItemsInv, [Next]_vars
    PROVE  TypeOK'
  <1> USE DEF WorkItemsInv
  <1>1. PICK S \in SUBSET Event : Writes(S)
    BY StepWrites
  <1>2. /\ row' \in [Item -> WorkItem \union {None}] /\ child' \in SUBSET (Item \X Item)
        /\ log' \in SUBSET Event /\ hour' \in SUBSET log' /\ escalated' \in SUBSET Escalation
    BY <1>1 DEF Writes, TypeOK
  <1>3. op' \in [Conn -> Operation \union {None}] /\ counted' \in [Conn -> [Budget -> Nat] \union {None}]
    <2>1. CASE \E t \in Conn : \E o \in Requests \intersect Operation : Begin(t, o)
      BY <2>1 DEF Begin, TypeOK
    <2>2. ASSUME NEW t \in Conn, Count(t) PROVE <1>3
      <3>1. op[t] \in Operation
        BY <2>2 DEF Count, TypeOK
      <3>2. [b \in Budget |-> Used(op[t], b)] \in [Budget -> Nat]
        BY <3>1, UsedType
      <3> QED
        BY <2>2, <3>2 DEF Count, TypeOK
    <2>3. CASE \E t \in Conn : op' = [op EXCEPT ![t] = None] /\ counted' = [counted EXCEPT ![t] = None]
      BY <2>3 DEF TypeOK
    <2>4. CASE UNCHANGED <<op, counted>>
      BY <2>4 DEF TypeOK
    <2> QED
      BY <2>1, <2>2, <2>3, <2>4, StepTransactions
  <1> QED
    BY <1>2, <1>3 DEF TypeOK

\* The item of a transaction that goes on is left alone by every step.
LEMMA LockedItemStays ==
    ASSUME WorkItemsInv, [Next]_vars, NEW u \in Conn, op[u] # None, op'[u] = op[u]
    PROVE  /\ row'[op[u].item] = row[op[u].item]
           /\ \A c \in Class : EventsOf(op[u].item, c)' \subseteq EventsOf(op[u].item, c)
           /\ countedChildCount(op[u].item)' = countedChildCount(op[u].item)
           /\ EventOf(op[u])' = EventOf(op[u]) /\ EntersRunning(op[u])' = EntersRunning(op[u])
  <1> DEFINE i == op[u].item
  <1>1. i \in Item /\ row[i] # None
    BY Locked DEF WorkItemsInv
  <1>2. ~ Touched(i)
    BY <1>1 DEF Touched, WorkItemsInv, LocksOK
  <1>3. PICK S \in SUBSET Event : Writes(S)
    BY StepWrites DEF WorkItemsInv
  <1>4. row'[i] = row[i] /\ \A c \in Class : EventsOf(i, c)' \subseteq EventsOf(i, c)
    BY <1>1, <1>2, <1>3 DEF Writes, EventsOf
  <1>5. {c \in Item : <<i, c>> \in child'} = {c \in Item : <<i, c>> \in child}
    BY <1>1, <1>2, <1>3 DEF Writes
  <1>6. countedChildCount(i)' = countedChildCount(i)
    BY <1>5 DEF countedChildCount
  <1>7. EventOf(op[u])' = EventOf(op[u]) /\ EntersRunning(op[u])' = EntersRunning(op[u])
    BY <1>4 DEF EventOf, EntersRunning
  <1> QED
    BY <1>4, <1>6, <1>7

\* Events and relations are about items that exist.
LEMMA LogStep ==
    ASSUME WorkItemsInv, [Next]_vars
    PROVE  LogOK'
  <1>1. PICK S \in SUBSET Event : Writes(S)
    BY StepWrites DEF WorkItemsInv
  <1>2. IsFiniteSet(log')
    BY <1>1, FS_Union DEF Writes, WorkItemsInv, LogOK
  <1>3. \A e \in log : e.item \in Item
    BY DEF WorkItemsInv, TypeOK, Event, Metered
  <1>4. \A e \in log' : row'[e.item] # None
    BY <1>1, <1>3 DEF Writes, WorkItemsInv, LogOK
  <1>5. \A i, c \in Item : <<i, c>> \in child' => row'[c] # None
    BY <1>1 DEF Writes, WorkItemsInv, LogOK
  <1> QED
    BY <1>2, <1>4, <1>5 DEF LogOK

\* A step leaves a transaction, begins it, counts for it or ends it.
LEMMA OpStep ==
    ASSUME WorkItemsInv, [Next]_vars, NEW u \in Conn
    PROVE  \/ op'[u] = op[u] /\ counted'[u] = counted[u]
           \/ op[u] = None /\ counted'[u] = None /\ \E o \in Requests \intersect Operation : Begin(u, o)
           \/ op'[u] = op[u] /\ Count(u)
           \/ op'[u] = None /\ counted'[u] = None
  <1> USE DEF WorkItemsInv, TypeOK
  <1>1. CASE \E t \in Conn : \E o \in Requests \intersect Operation : Begin(t, o)
    BY <1>1 DEF Begin, LocksOK
  <1>2. CASE \E t \in Conn : Count(t)
    BY <1>2 DEF Count
  <1>3. CASE \E t \in Conn : op' = [op EXCEPT ![t] = None] /\ counted' = [counted EXCEPT ![t] = None]
    BY <1>3
  <1>4. CASE UNCHANGED <<op, counted>>
    BY <1>4
  <1> QED
    BY <1>1, <1>2, <1>3, <1>4, StepTransactions

\* A lock is held to the end of its transaction.
LEMMA LocksStep ==
    ASSUME WorkItemsInv, [Next]_vars
    PROVE  LocksOK'
  <1> USE DEF WorkItemsInv
  <1>1. ASSUME NEW u \in Conn, counted'[u] # None PROVE op'[u] # None
    BY <1>1, OpStep DEF LocksOK, Count
  <1>2. ASSUME NEW u \in Conn, op'[u] # None
        PROVE  /\ row'[op'[u].item] # None
               /\ op'[u].kind = "transition" => CanTransition(row'[op'[u].item].state, op'[u].to)
    <2>1. CASE op'[u] = op[u]
      BY <1>2, <2>1, LockedItemStays DEF LocksOK
    <2>2. CASE \E o \in Requests \intersect Operation : Begin(u, o)
      BY <2>2 DEF Begin, Admissible, TypeOK
    <2> QED
      BY <1>2, <2>1, <2>2, OpStep
  <1>3. ASSUME NEW t \in Conn, NEW u \in Conn, op'[t] # None, op'[u] # None, op'[t].item = op'[u].item
        PROVE  t = u
    <2>1. CASE op'[t] = op[t] /\ op'[u] = op[u]
      BY <1>3, <2>1 DEF LocksOK
    <2>2. ASSUME NEW v \in Conn, NEW o \in Requests \intersect Operation, Begin(v, o)
          PROVE  t = u
      BY <1>3, <2>2 DEF Begin, TypeOK, LocksOK
    <2> QED
      BY <1>3, <2>1, <2>2, OpStep
  <1> QED
    BY <1>1, <1>2, <1>3 DEF LocksOK

\* So is that of a token.
LEMMA TokenLocksStep ==
    ASSUME WorkItemsInv, [Next]_vars
    PROVE  TokenLocksOK'
  <1> USE DEF WorkItemsInv
  <1> SUFFICES ASSUME NEW t \in Conn, NEW u \in Conn, counted'[t] # None, counted'[u] # None,
                      EntersRunning(op[t])', EntersRunning(op[u])', op'[t].actor = op'[u].actor
               PROVE  t = u
    BY DEF TokenLocksOK
  <1>1. op'[t] = op[t] /\ op'[u] = op[u] /\ op[t] # None /\ op[u] # None
    BY OpStep DEF Count, LocksOK
  <1>2. EntersRunning(op[t]) /\ EntersRunning(op[u])
    BY <1>1, LockedItemStays
  <1>3. CASE counted'[t] = counted[t] /\ counted'[u] = counted[u]
    BY <1>1, <1>2, <1>3 DEF TokenLocksOK
  <1>4. ASSUME NEW v \in Conn, Count(v) PROVE t = u
    BY <1>1, <1>2, <1>4 DEF Count, TypeOK, TokenLocksOK
  <1> QED
    BY <1>1, <1>3, <1>4, OpStep

-----------------------------------------------------------------------------
(* What is used of the budgets                                             *)

Callers(i, c) == {e \in hour : e.item = i /\ ClassOf(e) = c /\ ByCaller(e)}

\* Steps but the commit of an event use nothing of the running and rate budgets.
LEMMA OthersUseNothing ==
    ASSUME WorkItemsInv, NEW S \in SUBSET Event, Writes(S),
           \A e \in S : ~ ByCaller(e) /\ ~ (e.kind = "transitioned" /\ e.to = "running"),
           \A j \in Item : row[j] # None =>
               \/ row'[j].state = row[j].state /\ row'[j].enteredBy = row[j].enteredBy
               \/ row'[j].state = "blocked"
    PROVE  /\ \A a \in Actor : RunningFor(a)' \subseteq RunningFor(a)
           /\ \A i \in Item, c \in Class : Callers(i, c)' \subseteq Callers(i, c)
  <1>1. ASSUME NEW a \in Actor, NEW j \in RunningFor(a)' PROVE j \in RunningFor(a)
    <2>1. PICK e \in log' : /\ e.kind = "transitioned" /\ e.item = j
                            /\ e.to = "running" /\ e.from # "running"
      BY <1>1 DEF RunningFor, MovedIntoRunning
    <2>2. e \in log
      BY <2>1 DEF Writes
    <2>3. j \in Item /\ row[j] # None /\ row'[j].state = "running" /\ row'[j].enteredBy = a
      BY <1>1, <2>1, <2>2 DEF RunningFor, MovedIntoRunning, WorkItemsInv, LogOK
    <2> QED
      BY <2>1, <2>2, <2>3 DEF RunningFor, MovedIntoRunning
  <1>2. \A i \in Item, c \in Class : Callers(i, c)' \subseteq Callers(i, c)
    BY DEF Callers, Writes
  <1> QED
    BY <1>1, <1>2

\* The commit of an event uses one of the budget it was counted for, at most.
LEMMA EventUses ==
    ASSUME WorkItemsInv, NEW t \in Conn, Commit(t), CommitEvent(t)
    PROVE  /\ \A a \in Actor :
                IF EntersRunning(op[t]) /\ op[t].actor = a
                THEN RunningFor(a)' \subseteq (RunningFor(a) \ {op[t].item}) \union {op[t].item}
                ELSE RunningFor(a)' \subseteq RunningFor(a)
           /\ \A i \in Item, c \in Class :
                IF i = op[t].item /\ c = ClassOf(EventOf(op[t]))
                THEN Callers(i, c)' \subseteq EventsOf(i, c) \union {EventOf(op[t])}
                ELSE Callers(i, c)' \subseteq Callers(i, c)
  <1> DEFINE o == op[t]
             m == o.item
             f == EventOf(o)
  <1>1. /\ op[t] # None /\ counted[t] # None /\ Close(t) /\ UNCHANGED escalated
        /\ TypeOK /\ LocksOK
    BY CommitCases DEF WorkItemsInv, LocksOK
  <1>2. /\ o \in Operation /\ o.kind # "spawn" /\ f \in Event /\ f.item = m /\ Writes({f})
        /\ row'[m] = Projected(o) /\ \A i \in Item : i # m => row'[i] = row[i]
    BY <1>1, EventEffect
  <1>3. m \in Item /\ row[m] # None
    BY <1>1, Locked
  <1>4. /\ row'[m].state = IF o.kind = "transition" THEN o.to ELSE row[m].state
        /\ row'[m].state = row[m].state => row'[m].enteredBy = row[m].enteredBy
        /\ row'[m].state # row[m].state => row'[m].enteredBy = o.actor
    BY <1>1, <1>2, <1>3, ProjectedType
  <1>5. f.kind = "transitioned" => o.kind = "transition" /\ f.from = row[m].state /\ f.to = o.to
    <2>1. o.kind \in {"transition", "metadata", "append", "spawn"}
      BY <1>2, OperationFields
    <2> QED
      BY <1>2, <2>1 DEF EventOf
  <1>6. log' = log \union {f} /\ hour' \subseteq hour \union {f}
    BY <1>2 DEF Writes
  <1> HIDE DEF o, f, m
  <1>7. ASSUME NEW a \in Actor, NEW j \in RunningFor(a)', j \notin RunningFor(a)
        PROVE  EntersRunning(o) /\ o.actor = a /\ j = m
    <2>1. PICK e \in log' : /\ e.kind = "transitioned" /\ e.item = j
                            /\ e.to = "running" /\ e.from # "running"
      BY <1>7 DEF RunningFor, MovedIntoRunning
    <2>2. j \in Item /\ row'[j] # None /\ row'[j].state = "running" /\ row'[j].enteredBy = a
      BY <1>7 DEF RunningFor, MovedIntoRunning
    <2>3. CASE e \in log
      <3>1. row[j] # None
        BY <2>1, <2>3 DEF WorkItemsInv, LogOK
      <3>2. j = m /\ row[j].state # "running"
        BY <1>2, <1>4, <1>7, <2>1, <2>2, <2>3, <3>1 DEF RunningFor, MovedIntoRunning
      <3> QED
        BY <1>4, <2>2, <3>2 DEF EntersRunning, m
    <2>4. CASE e = f
      <3>1. j = m /\ o.kind = "transition" /\ row[m].state # "running" /\ o.to = "running"
        BY <1>2, <1>5, <2>1, <2>4
      <3> QED
        BY <1>4, <2>2, <3>1 DEF EntersRunning, m
    <2> QED
      BY <1>6, <2>1, <2>3, <2>4
  <1>8. \A a \in Actor : IF EntersRunning(o) /\ o.actor = a
                         THEN RunningFor(a)' \subseteq (RunningFor(a) \ {m}) \union {m}
                         ELSE RunningFor(a)' \subseteq RunningFor(a)
    BY <1>7
  <1>9. \A i \in Item, c \in Class : IF i = m /\ c = ClassOf(f)
                                     THEN Callers(i, c)' \subseteq EventsOf(i, c) \union {f}
                                     ELSE Callers(i, c)' \subseteq Callers(i, c)
    BY <1>2, <1>6 DEF Callers, EventsOf
  <1> QED
    BY <1>8, <1>9 DEF o, f, m

\* Reads, spawns, creations and exhausted budgets among the steps.
LEMMA OtherSteps ==
    ASSUME WorkItemsInv, [Next]_vars, \A t \in Conn : ~ (Commit(t) /\ CommitEvent(t))
    PROVE  /\ \A a \in Actor : RunningFor(a)' \subseteq RunningFor(a)
           /\ \A i \in Item, c \in Class : Callers(i, c)' \subseteq Callers(i, c)
  <1> USE DEF WorkItemsInv
  <1>1. CASE Reads
    <2>1. Writes({}) /\ row' = row
      BY <1>1, ReadsEffect
    <2> QED
      BY <2>1, OthersUseNothing
  <1>2. ASSUME NEW t \in Conn, Commit(t), CommitSpawn(t)
        PROVE  /\ \A a \in Actor : RunningFor(a)' \subseteq RunningFor(a)
               /\ \A i \in Item, c \in Class : Callers(i, c)' \subseteq Callers(i, c)
    <2>1. op[t] # None /\ Close(t) /\ UNCHANGED escalated
      BY <1>2, CommitCases DEF LocksOK
    <2>2. /\ row[op[t].child] = None /\ \A i \in Item : i # op[t].child => row'[i] = row[i]
          /\ \E S \in SUBSET Event : Writes(S) /\ \A e \in S : e.kind \in {"created", "relation_added"}
      BY <1>2, <2>1, SpawnEffect
    <2>3. PICK S \in SUBSET Event : Writes(S) /\ \A e \in S : e.kind \in {"created", "relation_added"}
      BY <2>2
    <2>4. \A e \in S : ~ ByCaller(e) /\ ~ (e.kind = "transitioned" /\ e.to = "running")
      BY <2>3 DEF ByCaller
    <2> QED
      BY <2>2, <2>3, <2>4, OthersUseNothing
  <1>3. ASSUME NEW o \in Create, CreateItem(o)
        PROVE  /\ \A a \in Actor : RunningFor(a)' \subseteq RunningFor(a)
               /\ \A i \in Item, c \in Class : Callers(i, c)' \subseteq Callers(i, c)
    <2>1. /\ row[o.item] = None /\ \A i \in Item : i # o.item => row'[i] = row[i]
          /\ \E S \in SUBSET Event : Writes(S) /\ \A e \in S : e.kind = "created"
      BY <1>3, CreateEffect
    <2>2. PICK S \in SUBSET Event : Writes(S) /\ \A e \in S : e.kind = "created"
      BY <2>1
    <2>3. \A e \in S : ~ ByCaller(e) /\ ~ (e.kind = "transitioned" /\ e.to = "running")
      BY <2>2 DEF ByCaller
    <2> QED
      BY <2>1, <2>2, <2>3, OthersUseNothing
  <1>4. ASSUME NEW t \in Conn, NEW b \in Budget, NEW n \in 0..MaxEvents, Exhaust(t, b, n)
        PROVE  /\ \A a \in Actor : RunningFor(a)' \subseteq RunningFor(a)
               /\ \A i \in Item, c \in Class : Callers(i, c)' \subseteq Callers(i, c)
    <2>1. PICK S \in SUBSET Event :
                /\ Writes(S)
                /\ \A e \in S : ~ ByCaller(e) /\ ~ (e.kind = "transitioned" /\ e.to = "running")
      BY <1>4, ExhaustEffect
    <2>2. \A j \in Item : \/ row'[j].state = row[j].state /\ row'[j].enteredBy = row[j].enteredBy
                          \/ row'[j].state = "blocked"
      BY <1>4, ExhaustEffect
    <2> QED
      BY <2>1, <2>2, OthersUseNothing
  <1> QED
    BY <1>1, <1>2, <1>3, <1>4, NextCases DEF Writers

\* Sets of items and of events of the last hour are finite, so a larger one has
\* as many elements at least.
LEMMA Fewer ==
    ASSUME TypeOK, LogOK, NEW S, NEW T, S \subseteq T, T \in SUBSET Item \/ T \in SUBSET hour
    PROVE  Cardinality(S) <= Cardinality(T) /\ Cardinality(S) \in Nat /\ Cardinality(T) \in Nat
  BY CountsFinite, FS_Subset, FS_CardinalityType

\* One more element.
LEMMA OneMore ==
    ASSUME NEW S, IsFiniteSet(S), NEW x, NEW T, T \subseteq S \union {x}, NEW n \in Nat, Cardinality(S) < n
    PROVE  Cardinality(T) <= n
  <1>1. IsFiniteSet(S \union {x}) /\ Cardinality(S \union {x}) <= Cardinality(S) + 1
        /\ Cardinality(S) \in Nat /\ Cardinality(S \union {x}) \in Nat
    BY FS_AddElement, FS_CardinalityType
  <1>2. Cardinality(T) <= Cardinality(S \union {x}) /\ Cardinality(T) \in Nat
    BY <1>1, FS_Subset, FS_CardinalityType
  <1> QED
    BY <1>1, <1>2

\* A count covers what is used until the transaction ends.
LEMMA CountsStep ==
    ASSUME WorkItemsInv, [Next]_vars
    PROVE  CountsOK'
  <1> USE DEF WorkItemsInv
  <1>0. TypeOK' /\ LogOK'
    BY TypeStep, LogStep
  <1> SUFFICES ASSUME NEW u \in Conn, counted'[u] # None
               PROVE  /\ op'[u].kind = "spawn" =>
                            counted'[u]["children"] = countedChildCount(op[u].item)'
                      /\ EntersRunning(op[u])' =>
                            Cardinality(RunningFor(op[u].actor)' \ {op'[u].item}) <= counted'[u]["running"]
                      /\ op'[u].kind # "spawn" =>
                            \A c \in Class : c = ClassOf(EventOf(op[u])') =>
                                Cardinality(EventsOf(op[u].item, c)') <= counted'[u][c]
    BY DEF CountsOK, ClassOf
  <1> DEFINE o == op[u]
             i == o.item
             a == o.actor
  <1>1. op'[u] = op[u] /\ op[u] # None
    BY OpStep DEF Count, LocksOK
  <1>2. o \in Operation /\ i \in Item /\ a \in Actor /\ o.kind \in {"transition", "metadata", "append", "spawn"}
    BY <1>1, Locked, OperationFields
  <1>3. /\ \A c \in Class : EventsOf(i, c)' \subseteq EventsOf(i, c)
        /\ countedChildCount(i)' = countedChildCount(i)
        /\ EventOf(o)' = EventOf(o) /\ EntersRunning(o)' = EntersRunning(o)
    BY <1>1, LockedItemStays
  <1>4. CASE Count(u)
    <2>1. counted'[u] = [b \in Budget |-> Used(o, b)] /\ UNCHANGED <<row, log, hour, child>>
      BY <1>4 DEF Count, TypeOK
    <2>2. o.kind = "spawn" => counted'[u]["children"] = countedChildCount(i)
      BY <2>1 DEF Budget, Used
    <2>3. ASSUME EntersRunning(o)
          PROVE  Cardinality(RunningFor(a)' \ {i}) <= counted'[u]["running"]
      <3> DEFINE all == {j \in Item \ {i} : row[j] # None /\ row[j].state = "running" /\ row[j].enteredBy = a}
      <3>1. RunningFor(a)' \ {i} \subseteq all
        BY <1>1, <2>1 DEF RunningFor, MovedIntoRunning
      <3>2. counted'[u]["running"] = Cardinality(all)
        BY <2>1, <2>3 DEF Budget, Used, runningCountForActor
      <3>3. all \in SUBSET Item
        OBVIOUS
      <3> HIDE DEF all
      <3> QED
        BY <3>1, <3>2, <3>3, Fewer
    <2>4. ASSUME o.kind # "spawn", NEW c \in Class, c = ClassOf(EventOf(o))
          PROVE  Cardinality(EventsOf(i, c)') <= counted'[u][c]
      <3>1. c \in Budget /\ c # "children" /\ c # "running"
        BY DEF Budget, Class
      <3>2. counted'[u][c] = Cardinality(EventsOf(i, c))
        BY <2>1, <2>4, <3>1 DEF Used, countedEventsInLastHour, EventsOf
      <3>3. EventsOf(i, c)' \subseteq EventsOf(i, c) /\ EventsOf(i, c) \in SUBSET hour
        BY <1>3 DEF EventsOf
      <3> QED
        BY <3>2, <3>3, Fewer
    <2> QED
      BY <1>1, <1>3, <2>2, <2>3, <2>4
  <1>5. CASE counted'[u] = counted[u]
    <2>1. o.kind = "spawn" => counted'[u]["children"] = countedChildCount(i)
      BY <1>5 DEF CountsOK
    <2>2. ASSUME EntersRunning(o)
          PROVE  Cardinality(RunningFor(a)' \ {i}) <= counted'[u]["running"]
      <3>1. RunningFor(a)' \ {i} \subseteq RunningFor(a) \ {i}
        <4>1. ASSUME NEW t \in Conn, Commit(t), CommitEvent(t)
              PROVE  ~ (EntersRunning(op[t]) /\ op[t].actor = a)
          <5>1. t # u /\ counted[t] # None
            BY <1>1, <4>1 DEF Commit, Close, TypeOK
          <5> QED
            BY <1>5, <2>2, <5>1 DEF TokenLocksOK
        <4>2. RunningFor(a)' \subseteq RunningFor(a)
          <5>1. CASE \E t \in Conn : Commit(t) /\ CommitEvent(t)
            BY <1>1, <1>2, <4>1, <5>1, EventUses
          <5>2. CASE \A t \in Conn : ~ (Commit(t) /\ CommitEvent(t))
            BY <1>1, <1>2, <5>2, OtherSteps
          <5> QED
            BY <5>1, <5>2
        <4> QED
          BY <4>2
      <3>2. RunningFor(a) \ {i} \in SUBSET Item
        BY DEF RunningFor
      <3>3. Cardinality(RunningFor(a) \ {i}) <= counted'[u]["running"] /\ counted'[u]["running"] \in Nat
        BY <1>5, <2>2, <1>2 DEF CountsOK, TypeOK, Budget
      <3> QED
        BY <3>1, <3>2, <3>3, Fewer
    <2>3. ASSUME o.kind # "spawn", NEW c \in Class, c = ClassOf(EventOf(o))
          PROVE  Cardinality(EventsOf(i, c)') <= counted'[u][c]
      <3>1. Cardinality(EventsOf(i, c)) <= counted'[u][c] /\ counted'[u][c] \in Nat
        BY <1>5, <2>3 DEF CountsOK, TypeOK, Budget
      <3>2. EventsOf(i, c)' \subseteq EventsOf(i, c) /\ EventsOf(i, c) \in SUBSET hour
        BY <1>3 DEF EventsOf
      <3> QED
        BY <3>1, <3>2, Fewer
    <2> QED
      BY <1>1, <1>3, <2>1, <2>2, <2>3
  <1> QED
    BY <1>4, <1>5, OpStep

\* A spawn that was counted stays within max_children_per_item.
LEMMA ChildrenStep ==
    ASSUME WorkItemsInv, [Next]_vars
    PROVE  ChildrenWithinBudget'
  <1> USE DEF WorkItemsInv
  <1> DEFINE Children(i) == {c \in Item : <<i, c>> \in child}
  <1>1. ASSUME child' = child PROVE ChildrenWithinBudget'
    BY <1>1 DEF ChildrenWithinBudget, countedChildCount
  <1>2. ASSUME NEW t \in Conn, Commit(t), CommitSpawn(t), NEW i \in Item
        PROVE  Cardinality(Children(i)') <= MaxChildren
    <2>1. /\ counted[t] # None /\ op[t] # None /\ op[t].kind = "spawn" /\ row[op[t].child] = None
          /\ child' = child \union {<<op[t].item, op[t].child>>}
          /\ ~ OverBudget(t, "children", counted[t]["children"])
      BY <1>2, CommitCases DEF CommitSpawn, LocksOK, Budget
    <2>2. op[t].item \in Item /\ op[t].child \in Item
      BY <2>1, Locked, OperationFields
    <2>3. <<op[t].item, op[t].child>> \notin child
      BY <2>1, <2>2 DEF LogOK
    <2>4. counted[t]["children"] < MaxChildren /\ counted[t]["children"] = countedChildCount(op[t].item)
      <3>1. counted[t]["children"] \in Nat /\ MaxChildren \in Nat
        BY <2>1, WorkItemsAssumption DEF TypeOK, Budget
      <3>2. ~ (counted[t]["children"] >= MaxChildren)
        BY <2>1, <2>3 DEF OverBudget
      <3>3. counted[t]["children"] = countedChildCount(op[t].item)
        BY <2>1 DEF CountsOK
      <3> QED
        BY <3>1, <3>2, <3>3
    <2>5. CASE i # op[t].item
      <3>1. Children(i)' = Children(i)
        BY <2>1, <2>5
      <3> QED
        BY <3>1 DEF ChildrenWithinBudget, countedChildCount
    <2>6. CASE i = op[t].item
      <3>1. Children(i)' \subseteq Children(i) \union {op[t].child}
        BY <2>1, <2>6
      <3>2. IsFiniteSet(Children(i)) /\ Cardinality(Children(i)) < MaxChildren
        BY <2>4, <2>6, CountsFinite DEF countedChildCount
      <3> HIDE DEF Children
      <3> QED
        BY <3>1, <3>2, OneMore, WorkItemsAssumption
    <2> QED
      BY <2>5, <2>6
  <1>3. ASSUME NEW t \in Conn, Commit(t), CommitSpawn(t) PROVE ChildrenWithinBudget'
    BY <1>2, <1>3 DEF ChildrenWithinBudget, countedChildCount
  <1>4. \/ child' = child
        \/ \E t \in Conn : Commit(t) /\ CommitSpawn(t)
    BY NextCases, ReadsEffect, CreateEffect, ExhaustEffect DEF Writers, CommitEvent
  <1> QED
    BY <1>1, <1>3, <1>4

\* A move that was counted under the token's lock stays within
\* max_concurrent_running_items_per_token.
LEMMA RunningStep ==
    ASSUME WorkItemsInv, [Next]_vars
    PROVE  RunningWithinBudget'
  <1> USE DEF WorkItemsInv
  <1> SUFFICES ASSUME NEW a \in Actor PROVE Cardinality(RunningFor(a)') <= MaxRunning
    BY DEF RunningWithinBudget, RunningFor
  <1>1. MaxRunning \in Nat /\ RunningFor(a) \in SUBSET Item /\ Cardinality(RunningFor(a)) <= MaxRunning
    BY WorkItemsAssumption DEF RunningWithinBudget, RunningFor
  <1>2. ASSUME RunningFor(a)' \subseteq RunningFor(a) PROVE Cardinality(RunningFor(a)') <= MaxRunning
    BY <1>1, <1>2, Fewer
  <1>3. ASSUME NEW t \in Conn, Commit(t), CommitEvent(t), EntersRunning(op[t]), op[t].actor = a
        PROVE  Cardinality(RunningFor(a)') <= MaxRunning
    <2> DEFINE i == op[t].item
               others == RunningFor(a) \ {i}
    <2>1. counted[t] # None /\ ~ OverBudget(t, "running", counted[t]["running"])
      BY <1>3, CommitCases DEF Budget
    <2>2. counted[t]["running"] \in Nat
      BY <2>1 DEF TypeOK, Budget
    <2>3. ~ (counted[t]["running"] >= MaxRunning)
      BY <1>3, <2>1 DEF OverBudget
    <2>4. Cardinality(others) <= counted[t]["running"]
      BY <1>3, <2>1 DEF CountsOK
    <2>5. RunningFor(a)' \subseteq others \union {i}
      BY <1>3, EventUses
    <2>6. IsFiniteSet(others) /\ Cardinality(others) \in Nat
      BY <1>1, CountsFinite
    <2> HIDE DEF others, i
    <2>7. Cardinality(others) < MaxRunning
      BY <1>1, <2>2, <2>3, <2>4, <2>6
    <2> QED
      BY <1>1, <2>5, <2>6, <2>7, OneMore
  <1>4. ASSUME NEW t \in Conn, Commit(t), CommitEvent(t), ~ (EntersRunning(op[t]) /\ op[t].actor = a)
        PROVE  RunningFor(a)' \subseteq RunningFor(a)
    BY <1>4, EventUses
  <1> QED
    BY <1>2, <1>3, <1>4, OtherSteps

\* An event that was counted under the item's lock stays within
\* max_events_per_item_per_hour_by_class.
LEMMA RateStep ==
    ASSUME WorkItemsInv, [Next]_vars
    PROVE  RateWithinBudget'
  <1> USE DEF WorkItemsInv
  <1> SUFFICES ASSUME NEW i \in Item, NEW c \in Class PROVE Cardinality(Callers(i, c)') <= MaxRate[c]
    BY DEF RateWithinBudget, Callers
  <1>1. MaxRate[c] \in Nat /\ Callers(i, c) \in SUBSET hour /\ Cardinality(Callers(i, c)) <= MaxRate[c]
    BY WorkItemsAssumption DEF RateWithinBudget, Callers
  <1>2. ASSUME Callers(i, c)' \subseteq Callers(i, c) PROVE Cardinality(Callers(i, c)') <= MaxRate[c]
    BY <1>1, <1>2, Fewer
  <1>3. ASSUME NEW t \in Conn, Commit(t), CommitEvent(t), i = op[t].item, c = ClassOf(EventOf(op[t]))
        PROVE  Cardinality(Callers(i, c)') <= MaxRate[c]
    <2>1. /\ counted[t] # None /\ op[t].kind # "spawn" /\ EventOf(op[t]) \notin log
          /\ c \in Budget /\ ~ OverBudget(t, c, counted[t][c])
          /\ ~ OverBudget(t, "running", counted[t]["running"])
      BY <1>3, CommitCases DEF CommitEvent, Budget
    <2>2. counted[t][c] \in Nat /\ counted[t]["running"] \in Nat /\ MaxRunning \in Nat
      BY <2>1, WorkItemsAssumption DEF TypeOK, Budget
    <2>3. EntersRunning(op[t]) => counted[t]["running"] < MaxRunning
      BY <2>1, <2>2 DEF OverBudget
    <2>4. ~ (counted[t][c] >= MaxRate[c])
      BY <1>3, <2>1, <2>3 DEF OverBudget
    <2>5. Cardinality(EventsOf(i, c)) <= counted[t][c]
      BY <1>3, <2>1 DEF CountsOK
    <2>6. Callers(i, c)' \subseteq EventsOf(i, c) \union {EventOf(op[t])}
      BY <1>3, EventUses
    <2>7. IsFiniteSet(EventsOf(i, c)) /\ Cardinality(EventsOf(i, c)) \in Nat
      BY CountsFinite DEF EventsOf
    <2>8. Cardinality(EventsOf(i, c)) < MaxRate[c]
      BY <1>1, <2>2, <2>4, <2>5, <2>7
    <2> QED
      BY <1>1, <2>6, <2>7, <2>8, OneMore
  <1>4. ASSUME NEW t \in Conn, Commit(t), CommitEvent(t), ~ (i = op[t].item /\ c = ClassOf(EventOf(op[t])))
        PROVE  Callers(i, c)' \subseteq Callers(i, c)
    BY <1>4, EventUses
  <1> QED
    BY <1>2, <1>3, <1>4, OtherSteps

-----------------------------------------------------------------------------
(* The theorems                                                            *)

\* The inductive invariant: types, the locks of items and tokens, the log, what
\* a transaction counted against what is used, and the budgets themselves.
THEOREM Invariance == Spec => []WorkItemsInv
  <1>1. Init => WorkItemsInv
    <2> SUFFICES ASSUME Init PROVE WorkItemsInv
      OBVIOUS
    <2>1. TypeOK
      BY DEF Init, TypeOK
    <2>2. LocksOK /\ TokenLocksOK /\ CountsOK
      BY DEF Init, LocksOK, TokenLocksOK, CountsOK
    <2>3. LogOK
      BY FS_EmptySet DEF Init, LogOK
    <2>4. ChildrenWithinBudget
      <3>1. \A i \in Item : {c \in Item : <<i, c>> \in child} = {}
        BY DEF Init
      <3>2. Cardinality({}) = 0 /\ MaxChildren \in Nat
        BY FS_EmptySet, WorkItemsAssumption
      <3>3. \A i \in Item : countedChildCount(i) = 0
        BY <3>1, <3>2 DEF countedChildCount
      <3> QED
        BY <3>2, <3>3 DEF ChildrenWithinBudget
    <2>5. RunningWithinBudget
      <3>1. \A a \in Actor : {i \in Item : MovedIntoRunning(i) /\ row[i].enteredBy = a} = {}
        BY DEF Init, MovedIntoRunning
      <3>2. Cardinality({}) = 0 /\ MaxRunning \in Nat
        BY FS_EmptySet, WorkItemsAssumption
      <3> QED
        BY <3>1, <3>2 DEF RunningWithinBudget
    <2>6. RateWithinBudget
      <3>1. \A i \in Item, c \in Class : {e \in hour : e.item = i /\ ClassOf(e) = c /\ ByCaller(e)} = {}
        BY DEF Init
      <3>2. \A c \in Class : MaxRate[c] \in Nat
        BY WorkItemsAssumption
      <3> QED
        BY <3>1, <3>2, FS_EmptySet DEF RateWithinBudget
    <2> QED
      BY <2>1, <2>2, <2>3, <2>4, <2>5, <2>6 DEF WorkItemsInv
  <1>2. WorkItemsInv /\ [Next]_vars => WorkItemsInv'
    <2> SUFFICES ASSUME WorkItemsInv, [Next]_vars PROVE WorkItemsInv'
      OBVIOUS
    <2> QED
      BY TypeStep, LocksStep, TokenLocksStep, LogStep, CountsStep, ChildrenStep, RunningStep, RateStep
         DEF WorkItemsInv
  <1> QED
    BY <1>1, <1>2, PTL DEF Spec

\* Rows, relations, events, escalations and transactions keep their types: in
\* particular every row that workitems.Service writes has a state, metadata and
\* the actor that entered the state.
THEOREM TypeCorrect == Spec => []TypeOK
  <1>1. WorkItemsInv => TypeOK
    BY DEF WorkItemsInv
  <1> QED
    BY <1>1, Invariance, PTL

\* enforceConcurrentRunningBudget: however many connections race, a token never
\* holds more items in running that it moved there than its budget.
THEOREM RunningBudget == Spec => []RunningWithinBudget
  <1>1. WorkItemsInv => RunningWithinBudget
    BY DEF WorkItemsInv
  <1> QED
    BY <1>1, Invariance, PTL

\* enforceChildBudget: however many spawns race or are repeated, an item never
\* has more counted children than its budget.
THEOREM ChildBudget == Spec => []ChildrenWithinBudget
  <1>1. WorkItemsInv => ChildrenWithinBudget
    BY DEF WorkItemsInv
  <1> QED
    BY <1>1, Invariance, PTL

\* enforceItemRateBudget: within an hour an item never receives more of the
\* callers' events of a class than its budget.
THEOREM RateBudget == Spec => []RateWithinBudget
  <1>1. WorkItemsInv => RateWithinBudget
    BY DEF WorkItemsInv
  <1> QED
    BY <1>1, Invariance, PTL

\* CanTransition, checked under the item's lock, still holds at the commit: an
\* item leaves a terminal state only to blocked, by a new escalation.
THEOREM TerminalStays == Spec => TerminalLeftByEscalation
  <1> DEFINE Left(i) == /\ row'[i].state = "blocked"
                        /\ \E e \in escalated' \ escalated : e.item = i
             A == \A i \in Item :
                    row[i] # None /\ row[i].state \in Terminal /\ row'[i].state # row[i].state => Left(i)
  <1>1. WorkItemsInv /\ [Next]_vars => [A]_vars
    <2> SUFFICES ASSUME WorkItemsInv, [Next]_vars, NEW i \in Item, row[i] # None,
                        row[i].state \in Terminal, row'[i].state # row[i].state
                 PROVE  Left(i)
      OBVIOUS
    <2> USE DEF WorkItemsInv
    <2>1. CASE Reads
      BY <2>1, ReadsEffect
    <2>2. CASE \E o \in Create : CreateItem(o)
      BY <2>2, CreateEffect
    <2>3. ASSUME NEW t \in Conn, Commit(t), CommitSpawn(t) PROVE FALSE
      BY <2>3, CommitCases, SpawnEffect DEF LocksOK
    <2>4. ASSUME NEW t \in Conn, Commit(t), CommitEvent(t) PROVE FALSE
      <3>1. op[t] # None /\ Close(t) /\ UNCHANGED escalated
        BY <2>4, CommitCases DEF LocksOK
      <3>2. /\ op[t] \in Operation /\ op[t].kind # "spawn" /\ i = op[t].item
            /\ row'[i] = Projected(op[t])
        BY <2>4, <3>1, EventEffect
      <3>3. row'[i].state = IF op[t].kind = "transition" THEN op[t].to ELSE row[i].state
        BY <3>2, ProjectedType
      <3>4. op[t].kind = "transition" /\ row'[i].state = op[t].to
        BY <3>3
      <3>5. CanTransition(row[i].state, op[t].to)
        BY <3>1, <3>2, <3>4 DEF LocksOK
      <3> QED
        BY <3>4, <3>5 DEF CanTransition
    <2>5. CASE \E t \in Conn : \E b \in Budget, n \in 0..MaxEvents : Exhaust(t, b, n)
      BY <2>5, ExhaustEffect
    <2> QED
      BY <2>1, <2>2, <2>3, <2>4, <2>5, NextCases DEF Writers
  <1> QED
    BY <1>1, Invariance, PTL DEF Spec, TerminalLeftByEscalation
=============================================================================
