--------------------------- MODULE EventLog_proofs ---------------------------
(***************************************************************************)
(* Proofs about EventLog, for any number of connections, items, columns,   *)
(* values and sequence numbers.                                            *)
(***************************************************************************)
EXTENDS EventLog, TLAPS

\* A pending insert's record has the type of a row of the events table.
LEMMA InsertType ==
    ASSUME TypeOK, NEW t \in Tx, NEW id \in EventId, Insert(t, id)
    PROVE  /\ next' \in 1..(MaxSeq + 1)
           /\ pending' \in [Tx -> SUBSET EventRow]
  <1>1. CASE UNCHANGED <<next, pending>>
    BY <1>1 DEF TypeOK
  <1>2. CASE /\ next <= MaxSeq
             /\ pending' = [pending EXCEPT ![t] = {[id |-> id, seq |-> next]}]
             /\ next' = next + 1
    <2>1. [id |-> id, seq |-> next] \in EventRow
      BY <1>2, EventLogAssumption DEF TypeOK, EventRow
    <2>2. pending' \in [Tx -> SUBSET EventRow]
      BY <1>2, <2>1 DEF TypeOK
    <2>3. next' \in 1..(MaxSeq + 1)
      BY <1>2, EventLogAssumption DEF TypeOK
    <2>4. QED
      BY <2>2, <2>3
  <1>3. QED
    BY <1>1, <1>2 DEF Insert

\* Each variable of the event log keeps its type.
THEOREM TypeCorrect == Spec => []TypeOK
  <1>1. Init => TypeOK
    BY EventLogAssumption DEF Init, TypeOK, Mode
  <1>2. TypeOK /\ [Next]_vars => TypeOK'
    <2> SUFFICES ASSUME TypeOK, [Next]_vars PROVE TypeOK'
      OBVIOUS
    <2>1. ASSUME NEW t \in Tx, NEW i \in Item, BeginLocking(t, i) PROVE TypeOK'
      BY <2>1 DEF TypeOK, BeginLocking, Mode
    <2>2. ASSUME NEW t \in Tx, NEW i \in Item, BeginEscalation(t, i) PROVE TypeOK'
      BY <2>2 DEF TypeOK, BeginEscalation, Mode
    <2>3. ASSUME NEW t \in Tx, InsertRelation(t) PROVE TypeOK'
      BY <2>3 DEF TypeOK, InsertRelation, Mode
    <2>4. ASSUME NEW t \in Tx, NEW c \in Column, NEW g \in Keys, NEW v \in Domain[c],
                 AppendLocking(t, c, v, g)
          PROVE  TypeOK'
      <3> DEFINE id == [item |-> item[t], col |-> c, from |-> version[t][c], to |-> v, tag |-> g]
      <3>1. id \in EventId
        BY <2>4, EventLogAssumption DEF TypeOK, AppendLocking, EventId
      <3>2. Insert(t, id) /\ UNCHANGED todo
        BY <2>4 DEF AppendLocking
      <3> HIDE DEF id
      <3>3. next' \in 1..(MaxSeq + 1) /\ pending' \in [Tx -> SUBSET EventRow]
        BY <3>1, <3>2, InsertType
      <3>4. QED
        BY <3>2, <3>3 DEF Insert, TypeOK
    <2>5. ASSUME NEW t \in Tx, NEW c \in Column, AppendEscalation(t, c) PROVE TypeOK'
      <3> DEFINE id == [item |-> item[t], col |-> c, from |-> snap[t][c],
                        to |-> Escalated(c, snap[t][c]),
                        tag |-> IF c = "state" THEN ReasonOf[t] ELSE NoTag]
      <3>1. item[t] \in Item /\ snap[t][c] \in Value
        BY <2>5 DEF TypeOK, AppendEscalation
      <3>2. Escalated(c, snap[t][c]) \in Value
        BY <3>1, EventLogAssumption
      <3>3. (IF c = "state" THEN ReasonOf[t] ELSE NoTag) \in Tag
        BY <2>5, EventLogAssumption DEF AppendEscalation
      <3>4. id \in EventId
        BY <3>1, <3>2, <3>3 DEF EventId
      <3>5. Insert(t, id) /\ todo' = [todo EXCEPT ![t] = @ \ {c}]
        BY <2>5 DEF AppendEscalation
      <3> HIDE DEF id
      <3>6. next' \in 1..(MaxSeq + 1) /\ pending' \in [Tx -> SUBSET EventRow]
        BY <3>4, <3>5, InsertType
      <3>7. todo' \in [Tx -> SUBSET Column]
        BY <3>5 DEF TypeOK
      <3>8. QED
        BY <3>5, <3>6, <3>7 DEF Insert, TypeOK
    <2>6. ASSUME NEW t \in Tx, Project(t) PROVE TypeOK'
      <3>1. item[t] \in Item
        BY <2>6 DEF Project, TypeOK
      <3>2. PICK e \in pending[t] : Project(t)!2!(e)
        BY <2>6 DEF Project
      <3>3. e \in EventRow
        BY DEF TypeOK
      <3>4. e.id.col \in Column /\ e.id.to \in Value
        BY <3>3 DEF EventRow, EventId
      <3>5. held' \in [Tx -> Mode]
        BY <3>2 DEF TypeOK, Mode
      <3>6. version' \in [Tx -> [Column -> Value]]
        BY <3>1, <3>2, <3>4 DEF TypeOK
      <3>7. mine' \in [Tx -> SUBSET EventRow] /\ pending' \in [Tx -> SUBSET EventRow]
        BY <3>2, <3>3 DEF TypeOK
      <3>8. QED
        BY <3>2, <3>5, <3>6, <3>7 DEF TypeOK
    <2>7. ASSUME NEW t \in Tx, Commit(t) PROVE TypeOK'
      <3>1. row' \in [Item -> [Column -> Value]]
        BY <2>7 DEF TypeOK, Commit
      <3>2. log' \in SUBSET EventRow
        BY <2>7 DEF TypeOK, Commit
      <3>3. QED
        BY <2>7, <3>1, <3>2, EventLogAssumption DEF TypeOK, Commit, Close, Mode
    <2>8. ASSUME NEW t \in Tx, Rollback(t) PROVE TypeOK'
      BY <2>8, EventLogAssumption DEF TypeOK, Rollback, Close, Mode
    <2>9. CASE UNCHANGED vars
      BY <2>9 DEF vars, TypeOK
    <2>10. QED
      BY <2>1, <2>2, <2>3, <2>4, <2>5, <2>6, <2>7, <2>8, <2>9 DEF Next
  <1>3. QED
    BY <1>1, <1>2, PTL DEF Spec

-----------------------------------------------------------------------------
(* Identity and numbering of the rows, which need no locking argument.     *)

\* Membership in the table, before and after a step.
LEMMA RowsMembers ==
    /\ \A e : e \in Rows <=> e \in log \/ \E t \in Tx : e \in mine[t] \/ e \in pending[t]
    /\ \A e : e \in Rows' <=> e \in log' \/ \E t \in Tx : e \in mine'[t] \/ e \in pending'[t]
  BY DEF Rows, Uncommitted

NumberingInv == ActionRecordedOnce /\ SeqBelowNext /\ RowsApart

\* An INSERT adds at most one row, with a fresh id and the next number.
LEMMA InsertNumbering ==
    ASSUME TypeOK, NumberingInv, NEW t \in Tx, NEW id, Insert(t, id)
    PROVE  NumberingInv'
  <1>1. CASE UNCHANGED <<next, pending>>
    BY <1>1 DEF Insert, NumberingInv, ActionRecordedOnce, SeqBelowNext, RowsApart, Rows, Uncommitted
  <1>2. CASE /\ next <= MaxSeq
             /\ pending' = [pending EXCEPT ![t] = {[id |-> id, seq |-> next]}]
             /\ next' = next + 1
             /\ ~ \E e \in log \union mine[t] : e.id = id
    <2> DEFINE n == [id |-> id, seq |-> next]
    <2>1. n.id = id /\ n.seq = next
      OBVIOUS
    <2>2. /\ log' = log /\ mine' = mine
          /\ pending[t] = {} /\ pending'[t] = {n}
          /\ \A u \in Tx \ {t} : pending'[u] = pending[u]
      BY <1>2 DEF Insert, TypeOK
    <2>3. \A u \in Tx : \A e \in mine[u] \union pending[u] : e.id # id
      BY <1>2, <2>2 DEF Insert, Uncommitted
    <2>4. \A e \in log : e.id # id
      BY <1>2
    <2> HIDE DEF n
    <2>5. \A e \in Rows' : e \in Rows \/ e = n
      BY <2>2, RowsMembers
    <2>6. \A e \in Rows : e.id # id /\ e.seq < next
      BY <2>3, <2>4, RowsMembers DEF NumberingInv, SeqBelowNext
    <2>7. next \in Nat /\ next' = next + 1
      BY <1>2, EventLogAssumption DEF TypeOK
    <2>8. \A e \in Rows : e.seq \in Nat
      BY RowsMembers, EventLogAssumption DEF TypeOK, EventRow
    <2>9. ActionRecordedOnce'
      BY <2>1, <2>5, <2>6, <2>7, <2>8 DEF NumberingInv, ActionRecordedOnce
    <2>10. SeqBelowNext'
      BY <2>1, <2>5, <2>6, <2>7, <2>8 DEF SeqBelowNext
    <2>11. RowsApart'
      BY <2>1, <2>2, <2>3, <2>4 DEF NumberingInv, RowsApart, Uncommitted
    <2>12. QED
      BY <2>9, <2>10, <2>11 DEF NumberingInv
  <1>3. QED
    BY <1>1, <1>2 DEF Insert

\* A step that inserts nothing leaves no new row behind.
LEMMA NoNewRowNumbering ==
    ASSUME NumberingInv, next' = next, Rows' \subseteq Rows, RowsApart'
    PROVE  NumberingInv'
  BY DEF NumberingInv, ActionRecordedOnce, SeqBelowNext

\* Ids and numbers stay unique, and transactions share no row.
LEMMA NumberingInvariant == Spec => []NumberingInv
  <1>1. Init => NumberingInv
    BY DEF Init, NumberingInv, ActionRecordedOnce, SeqBelowNext, RowsApart, Rows, Uncommitted
  <1>2. TypeOK /\ NumberingInv /\ [Next]_vars => NumberingInv'
    <2> SUFFICES ASSUME TypeOK, NumberingInv, [Next]_vars PROVE NumberingInv'
      OBVIOUS
    <2> USE DEF NumberingInv
    <2>1. ASSUME UNCHANGED <<next, log, mine, pending>> PROVE NumberingInv'
      BY <2>1 DEF ActionRecordedOnce, SeqBelowNext, RowsApart, Rows, Uncommitted
    <2>2. ASSUME NEW t \in Tx, NEW i \in Item, BeginLocking(t, i) \/ BeginEscalation(t, i)
          PROVE  NumberingInv'
      BY <2>1, <2>2 DEF BeginLocking, BeginEscalation
    <2>3. ASSUME NEW t \in Tx, InsertRelation(t) PROVE NumberingInv'
      BY <2>1, <2>3 DEF InsertRelation
    <2>4. ASSUME NEW t \in Tx, NEW c \in Column, NEW g \in Keys, NEW v \in Domain[c],
                 AppendLocking(t, c, v, g)
          PROVE  NumberingInv'
      BY <2>4, InsertNumbering DEF AppendLocking
    <2>5. ASSUME NEW t \in Tx, NEW c \in Column, AppendEscalation(t, c) PROVE NumberingInv'
      BY <2>5, InsertNumbering DEF AppendEscalation
    <2>6. ASSUME NEW t \in Tx, Project(t) PROVE NumberingInv'
      <3>1. PICK e \in pending[t] : Project(t)!2!(e)
        BY <2>6 DEF Project
      <3>2. /\ log' = log /\ next' = next
            /\ mine'[t] = mine[t] \union {e} /\ pending'[t] = {}
            /\ \A u \in Tx \ {t} : mine'[u] = mine[u] /\ pending'[u] = pending[u]
        BY <3>1 DEF TypeOK
      <3>3. Rows' \subseteq Rows
        BY <3>2, RowsMembers
      <3>4. RowsApart'
        BY <3>2 DEF RowsApart, Uncommitted
      <3>5. QED
        BY <3>2, <3>3, <3>4, NoNewRowNumbering
    <2>7. ASSUME NEW t \in Tx, Commit(t) \/ Rollback(t) PROVE NumberingInv'
      <3>1. /\ log' = log \/ log' = log \union mine[t]
            /\ next' = next
            /\ mine'[t] = {} /\ pending'[t] = {}
            /\ \A u \in Tx \ {t} : mine'[u] = mine[u] /\ pending'[u] = pending[u]
        BY <2>7 DEF TypeOK, Commit, Rollback, Close
      <3>2. Rows' \subseteq Rows
        BY <3>1, RowsMembers
      <3>3. RowsApart'
        BY <3>1 DEF RowsApart, Uncommitted
      <3>4. QED
        BY <3>1, <3>2, <3>3, NoNewRowNumbering
    <2>8. QED
      BY <2>1, <2>2, <2>3, <2>4, <2>5, <2>6, <2>7 DEF Next, vars
  <1>3. QED
    BY <1>1, <1>2, TypeCorrect, PTL DEF Spec

\* events.Writer.Append runs an action's projector at most once: one row per
\* deterministic id, in the log or in flight, whoever inserts, waits or rolls back.
THEOREM AppendOnce == Spec => []ActionRecordedOnce
  BY NumberingInvariant, PTL DEF NumberingInv
-----------------------------------------------------------------------------
(* Live rows against rebuilt rows.  Every writer but escalations locks the   *)
(* row before it reads it; with at most one escalating connection, whoever   *)
(* holds a lock on an item holds it alone, so events of one item take their  *)
(* numbers in the order in which they are projected.                         *)

\* At most one connection escalates at a time.
OneEscalator == \A t, u \in Tx \ Locking : t = u

\* Locks are held only inside a transaction, and FOR UPDATE excludes the rest.
LEMMA LockInvariant == Spec => []LockDiscipline
  <1>1. Init => LockDiscipline
    BY EventLogAssumption DEF Init, LockDiscipline, Uncommitted
  <1>2. TypeOK /\ LockDiscipline /\ [Next]_vars => LockDiscipline'
    <2> SUFFICES ASSUME TypeOK, LockDiscipline, [Next]_vars PROVE LockDiscipline'
      OBVIOUS
    <2> USE EventLogAssumption
    <2>1. ASSUME NEW t \in Tx, NEW i \in Item, BeginLocking(t, i) PROVE LockDiscipline'
      BY <2>1 DEF TypeOK, LockDiscipline, BeginLocking, Grantable, Conflicts, Mode, Uncommitted
    <2>2. ASSUME NEW t \in Tx, NEW i \in Item, BeginEscalation(t, i) PROVE LockDiscipline'
      BY <2>2 DEF TypeOK, LockDiscipline, BeginEscalation, Mode, Uncommitted
    <2>3. ASSUME NEW t \in Tx, InsertRelation(t) PROVE LockDiscipline'
      BY <2>3 DEF TypeOK, LockDiscipline, InsertRelation, Grantable, Conflicts, Mode, Uncommitted
    <2>4. ASSUME NEW t \in Tx, NEW id, Insert(t, id), held[t] # "unlocked" PROVE LockDiscipline'
      BY <2>4 DEF TypeOK, LockDiscipline, Insert, Uncommitted
    <2>5. ASSUME NEW t \in Tx, NEW c \in Column, NEW g \in Keys, NEW v \in Domain[c],
                 AppendLocking(t, c, v, g)
          PROVE  LockDiscipline'
      <3>1. held[t] # "unlocked"
        BY <2>5 DEF AppendLocking, LockDiscipline
      <3>2. QED
        BY <2>4, <2>5, <3>1 DEF AppendLocking
    <2>6. ASSUME NEW t \in Tx, NEW c \in Column, AppendEscalation(t, c) PROVE LockDiscipline'
      BY <2>4, <2>6 DEF AppendEscalation
    <2>7. ASSUME NEW t \in Tx, Project(t) PROVE LockDiscipline'
      <3>1. PICK e \in pending[t] : Project(t)!2!(e)
        BY <2>7 DEF Project
      <3>2. held[t] # "unlocked" /\ item[t] # None
        BY <2>7 DEF Project, LockDiscipline, Uncommitted
      <3>3. \A u \in Tx \ {t} : item[u] = item[t] => held[u] \notin {"no_key_update", "update"}
        BY <3>1 DEF Grantable, Conflicts
      <3>4. /\ item' = item
            /\ held'[t] = IF held[t] = "update" THEN "update" ELSE "no_key_update"
            /\ \A u \in Tx \ {t} : /\ held'[u] = held[u]
                                   /\ mine'[u] = mine[u] /\ pending'[u] = pending[u]
        BY <3>1 DEF TypeOK
      <3>5. QED
        BY <3>2, <3>3, <3>4 DEF LockDiscipline, Uncommitted
    <2>8. ASSUME NEW t \in Tx, Commit(t) \/ Rollback(t) PROVE LockDiscipline'
      <3>1. /\ item'[t] = None /\ held'[t] = "unlocked" /\ mine'[t] = {} /\ pending'[t] = {}
            /\ \A u \in Tx \ {t} : /\ item'[u] = item[u] /\ held'[u] = held[u]
                                   /\ mine'[u] = mine[u] /\ pending'[u] = pending[u]
        BY <2>8 DEF TypeOK, Commit, Rollback, Close
      <3>2. QED
        BY <3>1 DEF LockDiscipline, Uncommitted
    <2>9. CASE UNCHANGED vars
      BY <2>9 DEF vars, LockDiscipline, Uncommitted
    <2>10. QED
      BY <2>1, <2>2, <2>3, <2>5, <2>6, <2>7, <2>8, <2>9 DEF Next
  <1>3. QED
    BY <1>1, <1>2, TypeCorrect, PTL DEF Spec

\* Whoever holds a lock on an item, holds it alone.
LEMMA Alone ==
    ASSUME OneEscalator, TypeOK, LockDiscipline, NEW t \in Tx, NEW u \in Tx, t # u,
           item[t] = item[u], held[t] # "unlocked"
    PROVE  held[u] = "unlocked"
  BY DEF OneEscalator, LockDiscipline

\* Numbers of uncommitted rows of an item exceed those of its committed rows.
LEMMA OrderInvariant == ASSUME OneEscalator PROVE Spec => []NewestLast
  <1>1. Init => NewestLast
    BY DEF Init, NewestLast, Uncommitted
  <1>2. TypeOK /\ NumberingInv /\ LockDiscipline /\ NewestLast /\ [Next]_vars => NewestLast'
    <2> SUFFICES ASSUME TypeOK, NumberingInv, LockDiscipline, NewestLast, [Next]_vars
                 PROVE  NewestLast'
      OBVIOUS
    <2>1. \A e \in Rows : e.seq \in Nat
      BY RowsMembers, EventLogAssumption DEF TypeOK, EventRow
    <2>2. ASSUME NEW t \in Tx, Uncommitted(t) = {}, UNCHANGED <<log, mine, pending>>,
                 \A u \in Tx \ {t} : item'[u] = item[u]
          PROVE  NewestLast'
      BY <2>2 DEF NewestLast, Uncommitted
    <2>3. ASSUME NEW t \in Tx, NEW i \in Item, BeginLocking(t, i) \/ BeginEscalation(t, i)
          PROVE  NewestLast'
      <3>1. Uncommitted(t) = {}
        BY <2>3 DEF LockDiscipline, BeginLocking, BeginEscalation
      <3>2. QED
        BY <2>2, <2>3, <3>1 DEF TypeOK, BeginLocking, BeginEscalation
    <2>4. ASSUME NEW t \in Tx, InsertRelation(t) PROVE NewestLast'
      BY <2>4 DEF InsertRelation, NewestLast, Uncommitted
    <2>5. ASSUME NEW t \in Tx, NEW id, id.item = item[t], Insert(t, id) PROVE NewestLast'
      <3>1. CASE UNCHANGED pending
        BY <2>5, <3>1 DEF Insert, NewestLast, Uncommitted
      <3>2. CASE pending' = [pending EXCEPT ![t] = {[id |-> id, seq |-> next]}]
        <4> DEFINE n == [id |-> id, seq |-> next]
        <4>1. n.id.item = item[t] /\ n.seq = next
          BY <2>5
        <4>2. /\ log' = log /\ mine' = mine /\ item' = item
              /\ pending[t] = {} /\ pending'[t] = {n}
              /\ \A u \in Tx \ {t} : pending'[u] = pending[u]
          BY <2>5, <3>2 DEF Insert, TypeOK
        <4> HIDE DEF n
        <4>3. (\A f \in log : f.seq < n.seq) /\ (\A f \in mine[t] : f.seq < n.seq)
          BY <4>1, RowsMembers DEF NumberingInv, SeqBelowNext
        <4>4. QED
          BY <4>1, <4>2, <4>3 DEF NewestLast, Uncommitted
      <3>3. QED
        BY <2>5, <3>1, <3>2 DEF Insert
    <2>6. ASSUME NEW t \in Tx, NEW c \in Column, NEW g \in Keys, NEW v \in Domain[c],
                 AppendLocking(t, c, v, g)
          PROVE  NewestLast'
      BY <2>5, <2>6 DEF AppendLocking
    <2>7. ASSUME NEW t \in Tx, NEW c \in Column, AppendEscalation(t, c) PROVE NewestLast'
      BY <2>5, <2>7 DEF AppendEscalation
    <2>8. ASSUME NEW t \in Tx, Project(t) PROVE NewestLast'
      <3>1. PICK e \in pending[t] : Project(t)!2!(e)
        BY <2>8 DEF Project
      <3>2. /\ log' = log /\ item' = item
            /\ mine'[t] = mine[t] \union {e} /\ pending'[t] = {}
            /\ \A u \in Tx \ {t} : mine'[u] = mine[u] /\ pending'[u] = pending[u]
        BY <3>1 DEF TypeOK
      <3>3. QED
        BY <3>2 DEF NewestLast, Uncommitted
    <2>9. ASSUME NEW t \in Tx, Commit(t) \/ Rollback(t) PROVE NewestLast'
      <3>1. /\ \A f \in log' : f \in log \/ f \in mine[t]
            /\ mine'[t] = {} /\ pending'[t] = {}
            /\ \A u \in Tx \ {t} : /\ item'[u] = item[u]
                                   /\ mine'[u] = mine[u] /\ pending'[u] = pending[u]
        BY <2>9 DEF TypeOK, Commit, Rollback, Close
      <3>2. \A f \in mine[t] : f.id.item = item[t]
        BY DEF NewestLast, Uncommitted
      <3>3. ASSUME NEW u \in Tx \ {t}, NEW e \in Uncommitted(u), NEW f \in mine[t],
                   f.id.item = item[u]
            PROVE  FALSE
        <4>1. held[t] # "unlocked" /\ held[u] # "unlocked"
          BY <3>3 DEF LockDiscipline, Uncommitted
        <4>2. item[t] = item[u]
          BY <3>2, <3>3
        <4>3. QED
          BY <4>1, <4>2, Alone
      <3>4. QED
        BY <3>1, <3>3 DEF NewestLast, Uncommitted
    <2>10. CASE UNCHANGED vars
      BY <2>10 DEF vars, NewestLast, Uncommitted
    <2>11. QED
      BY <2>3, <2>4, <2>6, <2>7, <2>8, <2>9, <2>10 DEF Next
  <1>3. QED
    BY <1>1, <1>2, TypeCorrect, NumberingInvariant, LockInvariant, PTL DEF Spec

\* The last write of a set of rows to which newer rows are added.
LEMMA LastWriteExtends ==
    ASSUME NEW v, NEW w, NEW d, NEW S, NEW T,
           LastWrite(w, S, d), LastWrite(v, T, w),
           \A e \in S : e.seq \in Nat, \A e \in T : e.seq \in Nat,
           \A e \in S, f \in T : e.seq < f.seq
    PROVE  LastWrite(v, S \union T, d)
  BY DEF LastWrite

\* Versions under construction and committed rows follow the events.
LEMMA FollowInvariant ==
    ASSUME OneEscalator PROVE Spec => [](VersionFollowsRows /\ LiveFollowsLog)
  <1>1. Init => VersionFollowsRows /\ LiveFollowsLog
    BY DEF Init, VersionFollowsRows, LiveFollowsLog, LastWrite, Writes, EventsOf
  <1>2. /\ TypeOK /\ LockDiscipline /\ NewestLast
        /\ VersionFollowsRows /\ LiveFollowsLog /\ [Next]_vars
        => VersionFollowsRows' /\ LiveFollowsLog'
    <2> SUFFICES ASSUME TypeOK, LockDiscipline, NewestLast,
                        VersionFollowsRows, LiveFollowsLog, [Next]_vars
                 PROVE  VersionFollowsRows' /\ LiveFollowsLog'
      OBVIOUS
    <2>1. (\A e \in log : e.seq \in Nat) /\ (\A t \in Tx : \A e \in Uncommitted(t) : e.seq \in Nat)
      BY EventLogAssumption DEF TypeOK, EventRow, Uncommitted
    <2>2. ASSUME NEW t \in Tx, UNCHANGED <<log, row, mine>>,
                 \A u \in Tx \ {t} : /\ item'[u] = item[u] /\ held'[u] = held[u]
                                     /\ version'[u] = version[u],
                 Writes(t)' => \A c \in Column :
                     LastWrite(version'[t][c], {e \in mine[t] : e.id.col = c}, row[item'[t]][c])
          PROVE  VersionFollowsRows' /\ LiveFollowsLog'
      BY <2>2 DEF VersionFollowsRows, LiveFollowsLog, LastWrite, Writes, EventsOf
    <2>3. ASSUME NEW t \in Tx, NEW i \in Item, BeginLocking(t, i)
          PROVE  VersionFollowsRows' /\ LiveFollowsLog'
      <3>1. mine[t] = {}
        BY <2>3 DEF LockDiscipline, BeginLocking, Uncommitted
      <3>2. item'[t] = i /\ version'[t] = row[i]
        BY <2>3 DEF BeginLocking, TypeOK
      <3>3. QED
        BY <2>2, <2>3, <3>1, <3>2 DEF BeginLocking, TypeOK, LastWrite
    <2>4. ASSUME NEW t \in Tx, NEW i \in Item, BeginEscalation(t, i)
          PROVE  VersionFollowsRows' /\ LiveFollowsLog'
      <3>1. ~ Writes(t)'
        BY <2>4 DEF LockDiscipline, BeginEscalation, Writes
      <3>2. QED
        BY <2>2, <2>4, <3>1 DEF BeginEscalation, TypeOK
    <2>5. ASSUME NEW t \in Tx, InsertRelation(t)
          PROVE  VersionFollowsRows' /\ LiveFollowsLog'
      <3>1. ~ Writes(t)'
        BY <2>5 DEF InsertRelation, Writes, TypeOK
      <3>2. QED
        BY <2>2, <2>5, <3>1 DEF InsertRelation, TypeOK
    <2>6. ASSUME UNCHANGED <<log, row, mine, item, held, version>>
          PROVE  VersionFollowsRows' /\ LiveFollowsLog'
      BY <2>6 DEF VersionFollowsRows, LiveFollowsLog, LastWrite, Writes, EventsOf
    <2>7. ASSUME NEW t \in Tx, NEW c \in Column, NEW g \in Keys, NEW v \in Domain[c],
                 AppendLocking(t, c, v, g)
          PROVE  VersionFollowsRows' /\ LiveFollowsLog'
      BY <2>6, <2>7 DEF AppendLocking, Insert
    <2>8. ASSUME NEW t \in Tx, NEW c \in Column, AppendEscalation(t, c)
          PROVE  VersionFollowsRows' /\ LiveFollowsLog'
      BY <2>6, <2>8 DEF AppendEscalation, Insert
    <2>9. ASSUME NEW t \in Tx, Project(t) PROVE VersionFollowsRows' /\ LiveFollowsLog'
      <3>1. PICK e \in pending[t] : Project(t)!2!(e)
        BY <2>9 DEF Project
      <3>2. e \in EventRow /\ e.id.col \in Column /\ item[t] \in Item
        BY <2>9 DEF TypeOK, EventRow, EventId, Project
      <3> DEFINE base == IF Writes(t) THEN version[t] ELSE row[item[t]]
      <3>3. /\ log' = log /\ row' = row /\ item' = item
            /\ mine'[t] = mine[t] \union {e}
            /\ version'[t] = [base EXCEPT ![e.id.col] = e.id.to]
            /\ \A u \in Tx \ {t} : /\ mine'[u] = mine[u] /\ held'[u] = held[u]
                                   /\ version'[u] = version[u]
        BY <3>1 DEF TypeOK
      <3>4. base \in [Column -> Value]
        BY <3>2 DEF TypeOK
      <3>5. \A c \in Column : LastWrite(base[c], {f \in mine[t] : f.id.col = c}, row[item[t]][c])
        <4>1. CASE Writes(t)
          BY <4>1 DEF VersionFollowsRows
        <4>2. CASE ~ Writes(t)
          <5>1. mine[t] = {}
            BY <4>2, <3>1 DEF LockDiscipline, Uncommitted, Writes, TypeOK, Mode
          <5>2. QED
            BY <4>2, <5>1 DEF LastWrite
        <4>3. QED
          BY <4>1, <4>2
      <3>6. \A f \in mine[t] : f.seq \in Nat /\ f.seq < e.seq
        BY <2>1, <3>1 DEF NewestLast, Uncommitted
      <3>7. e.seq \in Nat
        BY <2>1, <3>1 DEF Uncommitted
      <3> HIDE DEF base
      <3>8. ASSUME NEW c \in Column
            PROVE  LastWrite(version'[t][c], {f \in mine'[t] : f.id.col = c}, row[item[t]][c])
        <4>1. CASE c = e.id.col
          <5>1. {f \in mine'[t] : f.id.col = c} = {f \in mine[t] : f.id.col = c} \union {e}
            BY <3>3, <4>1
          <5>2. version'[t][c] = e.id.to
            BY <3>3, <3>4, <4>1
          <5>3. QED
            BY <3>6, <3>7, <5>1, <5>2 DEF LastWrite
        <4>2. CASE c # e.id.col
          <5>1. {f \in mine'[t] : f.id.col = c} = {f \in mine[t] : f.id.col = c}
            BY <3>3, <4>2
          <5>2. version'[t][c] = base[c]
            BY <3>3, <3>4, <4>2
          <5>3. QED
            BY <3>5, <5>1, <5>2
        <4>3. QED
          BY <4>1, <4>2
      <3>9. VersionFollowsRows'
        BY <3>3, <3>8 DEF VersionFollowsRows, Writes
      <3>10. QED
        BY <3>3, <3>9 DEF LiveFollowsLog, EventsOf
    <2>10. ASSUME NEW t \in Tx, Commit(t) PROVE VersionFollowsRows' /\ LiveFollowsLog'
      <3>1. /\ item[t] \in Item
            /\ log' = log \union mine[t]
            /\ row' = IF Writes(t) THEN [row EXCEPT ![item[t]] = version[t]] ELSE row
            /\ mine'[t] = {} /\ held'[t] = "unlocked"
            /\ \A u \in Tx \ {t} : /\ item'[u] = item[u] /\ held'[u] = held[u]
                                   /\ mine'[u] = mine[u] /\ version'[u] = version[u]
        BY <2>10 DEF TypeOK, Commit, Close
      <3>2. ~ Writes(t) => mine[t] = {}
        BY DEF LockDiscipline, Uncommitted, Writes, TypeOK, Mode
      <3>3. /\ \A e \in mine[t] : e.id.item = item[t]
            /\ \A e \in mine[t], f \in log : f.id.item = item[t] => f.seq < e.seq
        BY DEF NewestLast, Uncommitted
      <3>4. ASSUME NEW u \in Tx, Writes(u)'
            PROVE  u # t /\ Writes(u) /\ row'[item[u]] = row[item[u]]
        <4>1. u # t /\ Writes(u)
          BY <3>1, <3>4 DEF Writes
        <4>2. item[u] \in Item
          BY <4>1 DEF TypeOK, LockDiscipline, Writes
        <4>3. item[u] = item[t] => ~ Writes(t)
          BY <4>1, Alone DEF Writes
        <4>4. QED
          BY <3>1, <4>1, <4>2, <4>3 DEF TypeOK
      <3>5. VersionFollowsRows'
        BY <3>1, <3>4 DEF VersionFollowsRows
      <3>6. ASSUME NEW i \in Item, NEW c \in Column
            PROVE  LastWrite(row'[i][c], EventsOf(i, c)', InitValue[c])
        <4>1. LastWrite(row[i][c], EventsOf(i, c), InitValue[c])
          BY DEF LiveFollowsLog
        <4>2. CASE Writes(t) /\ i = item[t]
          <5> DEFINE T == {e \in mine[t] : e.id.col = c}
          <5>1. row'[i][c] = version[t][c]
            BY <3>1, <4>2 DEF TypeOK
          <5>2. EventsOf(i, c)' = EventsOf(i, c) \union T
            BY <3>1, <3>3, <4>2 DEF EventsOf
          <5>3. LastWrite(version[t][c], T, row[i][c])
            BY <4>2 DEF VersionFollowsRows
          <5>4. /\ \A e \in EventsOf(i, c) : e.seq \in Nat
                /\ \A e \in T : e.seq \in Nat
                /\ \A e \in EventsOf(i, c), f \in T : e.seq < f.seq
            BY <2>1, <3>3, <4>2 DEF EventsOf, Uncommitted
          <5> HIDE DEF T
          <5>5. QED
            BY <4>1, <5>1, <5>2, <5>3, <5>4, LastWriteExtends
        <4>3. CASE ~ (Writes(t) /\ i = item[t])
          <5>1. row'[i] = row[i]
            BY <3>1, <4>3 DEF TypeOK
          <5>2. EventsOf(i, c)' = EventsOf(i, c)
            BY <3>1, <3>2, <3>3, <4>3 DEF EventsOf
          <5>3. QED
            BY <4>1, <5>1, <5>2
        <4>4. QED
          BY <4>2, <4>3
      <3>7. QED
        BY <3>5, <3>6 DEF LiveFollowsLog
    <2>11. ASSUME NEW t \in Tx, Rollback(t) PROVE VersionFollowsRows' /\ LiveFollowsLog'
      <3>1. /\ log' = log /\ row' = row /\ ~ Writes(t)'
            /\ \A u \in Tx \ {t} : /\ item'[u] = item[u] /\ held'[u] = held[u]
                                   /\ mine'[u] = mine[u] /\ version'[u] = version[u]
        BY <2>11 DEF TypeOK, Rollback, Close, Writes
      <3>2. QED
        BY <3>1 DEF VersionFollowsRows, LiveFollowsLog, Writes, EventsOf
    <2>12. CASE UNCHANGED vars
      BY <2>6, <2>12 DEF vars
    <2>13. QED
      BY <2>3, <2>4, <2>5, <2>7, <2>8, <2>9, <2>10, <2>11, <2>12 DEF Next
  <1>3. QED
    BY <1>1, <1>2, TypeCorrect, LockInvariant, OrderInvariant, PTL DEF Spec

\* While at most one connection escalates, `meristem rebuild` reproduces the
\* live work_items rows: replaying the log in seq order gives what the
\* projectors wrote when they ran.
THEOREM RebuildAgrees == ASSUME OneEscalator PROVE Spec => []RebuildMatchesLive
  <1>1. TypeOK /\ NumberingInv /\ LiveFollowsLog => RebuildMatchesLive
    <2> SUFFICES ASSUME TypeOK, NumberingInv, LiveFollowsLog, NEW i \in Item, NEW c \in Column
                 PROVE  row[i][c] = Rebuilt(i, c)
      BY DEF RebuildMatchesLive
    <2>1. CASE EventsOf(i, c) = {}
      BY <2>1 DEF LiveFollowsLog, LastWrite, Rebuilt
    <2>2. CASE EventsOf(i, c) # {}
      <3> DEFINE Last(e) == \A f \in EventsOf(i, c) : f.seq <= e.seq
      <3>1. PICK e \in EventsOf(i, c) : row[i][c] = e.id.to /\ Last(e)
        BY <2>2 DEF LiveFollowsLog, LastWrite
      <3>2. ASSUME NEW f \in EventsOf(i, c), Last(f) PROVE f = e
        <4>1. e \in Rows /\ f \in Rows
          BY RowsMembers DEF EventsOf
        <4>2. e.seq \in Nat /\ f.seq \in Nat
          BY EventLogAssumption DEF EventsOf, TypeOK, EventRow
        <4>3. e.seq = f.seq
          BY <3>1, <3>2, <4>2
        <4>4. QED
          BY <4>1, <4>3 DEF NumberingInv, ActionRecordedOnce
      <3>3. (CHOOSE g \in EventsOf(i, c) : Last(g)) = e
        BY <3>1, <3>2
      <3>4. QED
        BY <2>2, <3>1, <3>3 DEF Rebuilt
    <2>3. QED
      BY <2>1, <2>2
  <1>2. QED
    BY <1>1, TypeCorrect, NumberingInvariant, FollowInvariant, PTL

-----------------------------------------------------------------------------
(* The writers implement the ledger.                                       *)

InFlight == UNION {Uncommitted(t) : t \in Tx}
openBar == {e.seq : e \in InFlight}
committedBar == {e.seq : e \in log}

\* Numbers of rows in flight, and of committed ones, belong to one row each.
LEMMA NumbersApart ==
    ASSUME NumberingInv
    PROVE  /\ \A t \in Tx : \A e \in Uncommitted(t), f \in InFlight : e.seq = f.seq => e = f
           /\ \A t, u \in Tx : t # u => Uncommitted(t) \intersect Uncommitted(u) = {}
  BY RowsMembers DEF NumberingInv, ActionRecordedOnce, RowsApart, InFlight, Uncommitted

\* Rows move on within their transaction: the ledger stands still.
LEMMA LedgerStutters ==
    ASSUME next' = next, log' = log, \A t \in Tx : Uncommitted(t)' = Uncommitted(t)
    PROVE  UNCHANGED <<next, openBar, committedBar>>
  BY DEF openBar, committedBar, InFlight

\* An INSERT takes the next number, or finds its event on record.
LEMMA InsertAllocates ==
    ASSUME TypeOK, NEW t \in Tx, NEW id, Insert(t, id)
    PROVE  \/ /\ next <= MaxSeq /\ next' = next + 1
              /\ openBar' = openBar \union {next} /\ committedBar' = committedBar
           \/ UNCHANGED <<next, openBar, committedBar>>
  <1>1. CASE UNCHANGED <<next, pending>>
    BY <1>1, LedgerStutters DEF Insert, Uncommitted
  <1>2. CASE /\ next <= MaxSeq
             /\ pending' = [pending EXCEPT ![t] = {[id |-> id, seq |-> next]}]
             /\ next' = next + 1
    <2> DEFINE n == [id |-> id, seq |-> next]
    <2>1. n.seq = next
      OBVIOUS
    <2>2. /\ log' = log /\ mine' = mine /\ pending[t] = {} /\ pending'[t] = {n}
          /\ \A u \in Tx \ {t} : pending'[u] = pending[u]
      BY <1>2 DEF Insert, TypeOK
    <2> HIDE DEF n
    <2>3. InFlight' = InFlight \union {n}
      <3>1. \A e : e \in InFlight <=> \E u \in Tx : e \in mine[u] \/ e \in pending[u]
        BY DEF InFlight, Uncommitted
      <3>2. \A e : e \in InFlight' <=> \E u \in Tx : e \in mine'[u] \/ e \in pending'[u]
        BY DEF InFlight, Uncommitted
      <3>3. \A e : e \in InFlight' <=> e \in InFlight \/ e = n
        BY <2>2, <3>1, <3>2
      <3> QED
        BY <3>3
    <2>4. openBar' = openBar \union {next} /\ committedBar' = committedBar
      BY <2>1, <2>2, <2>3 DEF openBar, committedBar
    <2> QED
      BY <1>2, <2>4
  <1> QED
    BY <1>1, <1>2 DEF Insert

\* The end of a transaction publishes or discards the numbers it took.
LEMMA EndPublishes ==
    ASSUME TypeOK, NumberingInv, NEW t \in Tx, Commit(t) \/ Rollback(t)
    PROVE  \E S \in SUBSET openBar :
              /\ openBar' = openBar \ S /\ next' = next
              /\ committedBar' = committedBar \union S \/ committedBar' = committedBar
  <1> DEFINE S == {e.seq : e \in Uncommitted(t)}
  <1>1. /\ next' = next /\ Uncommitted(t)' = {}
        /\ \A u \in Tx \ {t} : Uncommitted(u)' = Uncommitted(u)
    BY DEF TypeOK, Commit, Rollback, Close, Uncommitted
  <1>2. \A e : e \in InFlight' <=> e \in InFlight /\ e \notin Uncommitted(t)
    BY <1>1, NumbersApart DEF InFlight
  <1>3. openBar' = openBar \ S
    BY <1>2, NumbersApart DEF openBar
  <1>4. S \subseteq openBar
    BY DEF openBar, InFlight
  <1>5. log' = log \union Uncommitted(t) \/ log' = log
    BY DEF Commit, Rollback, Uncommitted
  <1>6. committedBar' = committedBar \union S \/ committedBar' = committedBar
    BY <1>5 DEF committedBar
  <1> QED
    BY <1>1, <1>3, <1>4, <1>6

\* A connection waits for the projector of one insert at a time.
OnePending == \A t \in Tx : \A e, f \in pending[t] : e = f

LEMMA OnePendingInvariant == Spec => []OnePending
  <1>1. Init => OnePending
    BY DEF Init, OnePending
  <1>2. TypeOK /\ OnePending /\ [Next]_vars => OnePending'
    <2> SUFFICES ASSUME TypeOK, OnePending, [Next]_vars,
                        NEW u \in Tx, NEW e \in pending'[u], NEW f \in pending'[u]
                 PROVE  e = f
      BY DEF OnePending
    <2>1. CASE pending' = pending
      BY <2>1 DEF OnePending
    <2>2. ASSUME NEW t \in Tx, NEW x, pending' = [pending EXCEPT ![t] = {x}] PROVE e = f
      BY <2>2 DEF OnePending, TypeOK
    <2>3. ASSUME NEW t \in Tx, pending' = [pending EXCEPT ![t] = {}] PROVE e = f
      BY <2>3 DEF OnePending, TypeOK
    <2>4. ASSUME NEW t \in Tx, NEW id, Insert(t, id) PROVE e = f
      BY <2>1, <2>2, <2>4 DEF Insert
    <2>5. ASSUME NEW t \in Tx, NEW i \in Item, BeginLocking(t, i) \/ BeginEscalation(t, i)
          PROVE  e = f
      BY <2>1, <2>5 DEF BeginLocking, BeginEscalation
    <2>6. ASSUME NEW t \in Tx, InsertRelation(t) PROVE e = f
      BY <2>1, <2>6 DEF InsertRelation
    <2>7. ASSUME NEW t \in Tx, NEW c \in Column, NEW g \in Keys, NEW v \in Domain[c],
                 AppendLocking(t, c, v, g)
          PROVE  e = f
      BY <2>4, <2>7 DEF AppendLocking
    <2>8. ASSUME NEW t \in Tx, NEW c \in Column, AppendEscalation(t, c) PROVE e = f
      BY <2>4, <2>8 DEF AppendEscalation
    <2>9. ASSUME NEW t \in Tx, Project(t) \/ Commit(t) \/ Rollback(t) PROVE e = f
      BY <2>3, <2>9 DEF Project, Commit, Rollback, Close
    <2>10. CASE UNCHANGED vars
      BY <2>1, <2>10 DEF vars
    <2> QED
      BY <2>5, <2>6, <2>7, <2>8, <2>9, <2>10 DEF Next
  <1> QED
    BY <1>1, <1>2, TypeCorrect, PTL DEF Spec

\* EventLog implements SeqLog: numbers are handed out at INSERT, and the rows of
\* a transaction appear or vanish together (events.Writer.Append, tx.Commit).
THEOREM LedgerImplemented == Spec => ImplementsLedger
  <1>1. Init => Ledger!SeqInit
    BY DEF Init, Ledger!SeqInit, Uncommitted
  <1>2. TypeOK /\ NumberingInv /\ OnePending /\ [Next]_vars => [Ledger!SeqNext]_(Ledger!seqVars)
    <2> SUFFICES ASSUME TypeOK, NumberingInv, OnePending, [Next]_vars
                 PROVE  \/ /\ next <= MaxSeq /\ next' = next + 1
                           /\ openBar' = openBar \union {next} /\ committedBar' = committedBar
                        \/ \E S \in SUBSET openBar :
                              /\ openBar' = openBar \ S /\ next' = next
                              /\ committedBar' = committedBar \union S \/ committedBar' = committedBar
                        \/ UNCHANGED <<next, openBar, committedBar>>
      BY DEF Ledger!SeqNext, Ledger!Allocate, Ledger!Publish, Ledger!Discard, Ledger!seqVars,
             openBar, committedBar, InFlight
    <2>1. ASSUME UNCHANGED <<next, log, mine, pending>> PROVE UNCHANGED <<next, openBar, committedBar>>
      BY <2>1, LedgerStutters DEF Uncommitted
    <2>2. CASE \E t \in Tx, i \in Item : BeginLocking(t, i) \/ BeginEscalation(t, i)
      BY <2>1, <2>2 DEF BeginLocking, BeginEscalation
    <2>3. CASE \E t \in Tx : InsertRelation(t)
      BY <2>1, <2>3 DEF InsertRelation
    <2>4. ASSUME NEW t \in Tx, NEW c \in Column, NEW g \in Keys, NEW v \in Domain[c],
                 AppendLocking(t, c, v, g)
          PROVE  \/ /\ next <= MaxSeq /\ next' = next + 1
                    /\ openBar' = openBar \union {next} /\ committedBar' = committedBar
                 \/ UNCHANGED <<next, openBar, committedBar>>
      BY <2>4, InsertAllocates DEF AppendLocking
    <2>5. ASSUME NEW t \in Tx, NEW c \in Column, AppendEscalation(t, c)
          PROVE  \/ /\ next <= MaxSeq /\ next' = next + 1
                    /\ openBar' = openBar \union {next} /\ committedBar' = committedBar
                 \/ UNCHANGED <<next, openBar, committedBar>>
      BY <2>5, InsertAllocates DEF AppendEscalation
    <2>6. ASSUME NEW t \in Tx, Project(t) PROVE UNCHANGED <<next, openBar, committedBar>>
      <3>1. PICK e \in pending[t] : Project(t)!2!(e)
        BY <2>6 DEF Project
      <3>2. pending[t] = {e}
        <4>1. \A f \in pending[t] : f = e
          BY <3>1 DEF OnePending
        <4> QED
          BY <3>1, <4>1
      <3>3. Uncommitted(t)' = Uncommitted(t) /\ \A u \in Tx \ {t} : Uncommitted(u)' = Uncommitted(u)
        BY <3>1, <3>2 DEF TypeOK, Uncommitted
      <3> QED
        BY <3>1, <3>3, LedgerStutters
    <2>7. CASE \E t \in Tx : Commit(t) \/ Rollback(t)
      BY <2>7, EndPublishes
    <2>8. CASE UNCHANGED vars
      BY <2>1, <2>8 DEF vars
    <2> QED
      BY <2>2, <2>3, <2>4, <2>5, <2>6, <2>7, <2>8 DEF Next
  <1> QED
    BY <1>1, <1>2, TypeCorrect, NumberingInvariant, OnePendingInvariant, PTL
    DEF Spec, ImplementsLedger, Ledger!SeqSpec

=============================================================================
