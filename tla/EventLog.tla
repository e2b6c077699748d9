------------------------------ MODULE EventLog ------------------------------
(***************************************************************************)
(* Transactions that append events and fold them into the work_items       *)
(* projection, at the grain of the SQL statements they issue.              *)
(*                                                                         *)
(*   events.Writer.Append: INSERT ... ON CONFLICT (id) DO NOTHING, and on a *)
(*     fresh insert only, the projector's UPDATE in the same transaction.  *)
(*   Locking writers (workitems, approvals, convergence): the first         *)
(*     statement is SELECT ... FOR UPDATE on the work item.                *)
(*   escalations.RequestInTx: reads the work item WITHOUT a lock; its       *)
(*     relation insert then takes FOR KEY SHARE on the row (the foreign key *)
(*     of work_item_relations), and its UPDATEs take FOR NO KEY UPDATE.    *)
(*   rebuild: folds the committed events in seq order and compares the      *)
(*     outcome with the live rows.                                         *)
(*                                                                         *)
(* PostgreSQL itself (row locks, unique index, sequence) is external and   *)
(* is modelled from the way these statements use it.                       *)
(***************************************************************************)
EXTENDS Naturals, FiniteSets

CONSTANTS
    Tx,             \* connections, each running one transaction at a time
    Locking,        \* those that run a writer which locks the row first
    Item,           \* work items
    Column,         \* the column groups a projector overwrites as a whole
    Value,          \* values of the column groups
    Domain,         \* the values of each of them
    InitValue,      \* the value each column group was created with
    Escalated(_,_), \* what an escalation writes over a value it has read
    Tag,            \* what else tells two events apart: an idempotency
    NoTag,          \*   discriminator or the reason of a transition, or neither
    Keys,           \* the tags of locking writers
    ReasonOf,       \* the reason each escalating connection gives
    MaxSeq          \* bound on events.seq

None == "none"  \* the item of a connection with no transaction

ASSUME EventLogAssumption ==
    /\ None \notin Item
    /\ Locking \subseteq Tx
    /\ Domain \in [Column -> SUBSET Value]
    /\ InitValue \in [Column -> Value]
    /\ \A c \in Column, v \in Value : Escalated(c, v) \in Value
    /\ NoTag \in Tag
    /\ Keys \subseteq Tag
    /\ ReasonOf \in [Tx \ Locking -> Tag]
    /\ \A t, u \in Tx \ Locking : ReasonOf[t] = ReasonOf[u] => t = u
    /\ MaxSeq \in Nat

VARIABLES
    next,       \* the next events.seq
    log,        \* committed event rows
    row,        \* committed work_items rows
    item,       \* the work item a transaction works on, or None
    held,       \* the row lock it holds on that item
    snap,       \* the row as the transaction read it
    todo,       \* columns an escalation has still to write
    pending,    \* events inserted whose projector has not run yet
    mine,       \* events inserted and projected, not committed
    version     \* the row version it is building under a row lock

vars == <<next, log, row, item, held, snap, todo, pending, mine, version>>

Mode == {"unlocked", "key_share", "no_key_update", "update"}

\* DeterministicID: the identity of an event is its content; the actor and
\* the source are left out, the reason and the discriminator are part of it.
EventId == [item : Item, col : Column, from : Value, to : Value, tag : Tag]
EventRow == [id : EventId, seq : 1..MaxSeq]

TypeOK ==
    /\ next \in 1..(MaxSeq + 1)
    /\ log \in SUBSET EventRow
    /\ row \in [Item -> [Column -> Value]]
    /\ item \in [Tx -> Item \union {None}]
    /\ held \in [Tx -> Mode]
    /\ snap \in [Tx -> [Column -> Value]]
    /\ todo \in [Tx -> SUBSET Column]
    /\ pending \in [Tx -> SUBSET EventRow]
    /\ mine \in [Tx -> SUBSET EventRow]
    /\ version \in [Tx -> [Column -> Value]]

Init ==
    /\ next = 1
    /\ log = {}
    /\ row = [i \in Item |-> InitValue]
    /\ item = [t \in Tx |-> None]
    /\ held = [t \in Tx |-> "unlocked"]
    /\ snap = [t \in Tx |-> InitValue]
    /\ todo = [t \in Tx |-> {}]
    /\ pending = [t \in Tx |-> {}]
    /\ mine = [t \in Tx |-> {}]
    /\ version = [t \in Tx |-> InitValue]

-----------------------------------------------------------------------------
(* PostgreSQL's row-lock conflict table, for the three modes in use.       *)

Conflicts(m) ==
    CASE m = "key_share"     -> {"update"}
      [] m = "no_key_update" -> {"no_key_update", "update"}
      [] m = "update"        -> {"key_share", "no_key_update", "update"}

\* t may be granted mode m on item i: no other transaction stands in the way.
Grantable(t, i, m) ==
    \A u \in Tx \ {t} : item[u] = i => held[u] \notin Conflicts(m)

\* Rows inserted by t and not yet committed, the one being projected included.
Uncommitted(t) == mine[t] \union pending[t]

\* The modes under which a transaction may change the row.
Writes(t) == held[t] \in {"no_key_update", "update"}

-----------------------------------------------------------------------------
(* A transaction, statement by statement.                                  *)

\* scanWorkItemForUpdate: SELECT ... FOR UPDATE waits for every other lock and
\* returns the row as it then stands.
BeginLocking(t, i) ==
    /\ t \in Locking
    /\ item[t] = None
    /\ Grantable(t, i, "update")
    /\ item' = [item EXCEPT ![t] = i]
    /\ held' = [held EXCEPT ![t] = "update"]
    /\ version' = [version EXCEPT ![t] = row[i]]
    /\ UNCHANGED <<next, log, row, snap, todo, pending, mine>>

\* escalations.scanWorkItem: a plain SELECT.  An item that is already blocked
\* gets no transition, only the metadata update.  A request whose reason AND
\* summary were used before returns at existingEscalation and writes nothing;
\* every request here has a summary of its own, so it is a fresh one.
BeginEscalation(t, i) ==
    /\ t \notin Locking
    /\ item[t] = None
    /\ item' = [item EXCEPT ![t] = i]
    /\ snap' = [snap EXCEPT ![t] = row[i]]
    /\ todo' = [todo EXCEPT ![t] =
                  {c \in Column : c = "state" => row[i][c] # Escalated(c, row[i][c])}]
    /\ UNCHANGED <<next, log, row, held, pending, mine, version>>

\* The relation_added projector of an escalation inserts a child row whose
\* foreign key takes FOR KEY SHARE on the parent.
InsertRelation(t) ==
    /\ t \notin Locking
    /\ item[t] # None
    /\ held[t] = "unlocked"
    /\ Grantable(t, item[t], "key_share")
    /\ held' = [held EXCEPT ![t] = "key_share"]
    /\ UNCHANGED <<next, log, row, item, snap, todo, pending, mine, version>>

\* Mutant of Insert: no ON CONFLICT clause and no unique index on the id.
InsertAlways(t, id) ==
    /\ pending[t] = {}
    /\ next <= MaxSeq
    /\ pending' = [pending EXCEPT ![t] = {[id |-> id, seq |-> next]}]
    /\ next' = next + 1
    /\ UNCHANGED <<log, row, item, held, snap, mine, version>>

\* INSERT INTO events ... ON CONFLICT (id) DO NOTHING.  A row with the same id
\* that is still uncommitted elsewhere makes the statement wait.  A fresh row
\* takes the next seq and is handed to the projector.
Insert(t, id) ==
    /\ pending[t] = {}
    /\ \A u \in Tx \ {t} : \A e \in Uncommitted(u) : e.id # id
    /\ IF \E e \in log \union mine[t] : e.id = id
       THEN UNCHANGED <<next, pending>>
       ELSE /\ next <= MaxSeq
            /\ pending' = [pending EXCEPT ![t] = {[id |-> id, seq |-> next]}]
            /\ next' = next + 1
    /\ UNCHANGED <<log, row, item, held, snap, mine, version>>

\* A locking writer appends a change computed from the row it holds.
AppendLocking(t, c, v, g) ==
    /\ t \in Locking
    /\ item[t] # None
    /\ Insert(t, [item |-> item[t], col |-> c, from |-> version[t][c], to |-> v, tag |-> g])
    /\ UNCHANGED todo

\* An escalation appends the metadata update, then the move to blocked, both
\* computed from its earlier unlocked read, without a discriminator; the
\* transition carries the reason.
AppendEscalation(t, c) ==
    /\ t \notin Locking
    /\ item[t] # None
    /\ held[t] # "unlocked"
    /\ c \in todo[t]
    /\ c = "state" => todo[t] = {"state"}
    /\ Insert(t, [item |-> item[t], col |-> c, from |-> snap[t][c],
                  to |-> Escalated(c, snap[t][c]),
                  tag |-> IF c = "state" THEN ReasonOf[t] ELSE NoTag])
    /\ todo' = [todo EXCEPT ![t] = @ \ {c}]

\* registry.Apply: UPDATE work_items SET ... WHERE id = subject.  The statement
\* waits for another writer of the row and then overwrites its own columns of
\* the newest version, whatever that version holds.
Project(t) ==
    /\ item[t] # None
    /\ \E e \in pending[t] :
        LET c == e.id.col
            base == IF Writes(t) THEN version[t] ELSE row[item[t]]
        IN  /\ Grantable(t, item[t], "no_key_update")
            /\ held' = [held EXCEPT ![t] = IF @ = "update" THEN @ ELSE "no_key_update"]
            /\ version' = [version EXCEPT ![t] = [base EXCEPT ![c] = e.id.to]]
            /\ mine' = [mine EXCEPT ![t] = @ \union {e}]
            /\ pending' = [pending EXCEPT ![t] = {}]
            /\ UNCHANGED <<next, log, row, item, snap, todo>>

\* Mutant of Close: the item and the lock mode are reset the wrong way round.
CloseSwapped(t) ==
    /\ item' = [item EXCEPT ![t] = "unlocked"]
    /\ held' = [held EXCEPT ![t] = None]
    /\ todo' = [todo EXCEPT ![t] = {}]
    /\ pending' = [pending EXCEPT ![t] = {}]
    /\ mine' = [mine EXCEPT ![t] = {}]
    /\ snap' = [snap EXCEPT ![t] = InitValue]
    /\ version' = [version EXCEPT ![t] = InitValue]
    /\ UNCHANGED next

\* Back to an idle connection: every lock is released.
Close(t) ==
    /\ item' = [item EXCEPT ![t] = None]
    /\ held' = [held EXCEPT ![t] = "unlocked"]
    /\ todo' = [todo EXCEPT ![t] = {}]
    /\ pending' = [pending EXCEPT ![t] = {}]
    /\ mine' = [mine EXCEPT ![t] = {}]
    /\ snap' = [snap EXCEPT ![t] = InitValue]
    /\ version' = [version EXCEPT ![t] = InitValue]
    /\ UNCHANGED next

\* Mutant of Commit: the insert that is being projected is not waited for.
CommitEarly(t) ==
    /\ item[t] # None
    /\ todo[t] = {}
    /\ log' = log \union mine[t]
    /\ row' = IF Writes(t) THEN [row EXCEPT ![item[t]] = version[t]] ELSE row
    /\ Close(t)

\* tx.Commit: events and row version become visible together.
Commit(t) ==
    /\ item[t] # None
    /\ pending[t] = {}
    /\ todo[t] = {}
    /\ log' = log \union mine[t]
    /\ row' = IF Writes(t) THEN [row EXCEPT ![item[t]] = version[t]] ELSE row
    /\ Close(t)

\* Mutant of Rollback: the projector wrote outside the transaction.
RollbackKeepsRow(t) ==
    /\ item[t] # None
    /\ row' = IF Writes(t) THEN [row EXCEPT ![item[t]] = version[t]] ELSE row
    /\ UNCHANGED log
    /\ Close(t)

\* tx.Rollback on any error, or the loss of the connection.
Rollback(t) ==
    /\ item[t] # None
    /\ UNCHANGED <<log, row>>
    /\ Close(t)

Next ==
    \E t \in Tx :
        \/ \E i \in Item : BeginLocking(t, i) \/ BeginEscalation(t, i)
        \/ InsertRelation(t)
        \/ \E c \in Column, g \in Keys : \E v \in Domain[c] : AppendLocking(t, c, v, g)
        \/ \E c \in Column : AppendEscalation(t, c)
        \/ Project(t)
        \/ Commit(t)
        \/ Rollback(t)

Spec == Init /\ [][Next]_vars

-----------------------------------------------------------------------------
(* rebuild: the fold of the committed log, in seq order.  Projectors        *)
(* overwrite, so a column's rebuilt value is the one of its last event.     *)

EventsOf(i, c) == {e \in log : e.id.item = i /\ e.id.col = c}

Rebuilt(i, c) ==
    IF EventsOf(i, c) = {}
    THEN InitValue[c]
    ELSE (CHOOSE e \in EventsOf(i, c) : \A f \in EventsOf(i, c) : f.seq <= e.seq).id.to

\* `meristem rebuild` finds no difference: at every moment the committed rows
\* are what replaying the committed events in seq order produces, whatever the
\* interleaving of inserts, projector updates, commits and rollbacks was.
RebuildMatchesLive ==
    \A i \in Item, c \in Column : row[i][c] = Rebuilt(i, c)

\* Every row of the events table, committed or not.
Rows == log \union UNION {Uncommitted(t) : t \in Tx}

\* An event id is in the table once, and two running transactions never both
\* hold a row for it: the projector of one logical action runs at most once,
\* also when the first transaction to insert it rolls back.
ActionRecordedOnce ==
    \A e, f \in Rows : (e.id = f.id \/ e.seq = f.seq) => e = f

-----------------------------------------------------------------------------
(* Why live and rebuilt rows agree: the inductive invariant.               *)

\* The sequence is ahead of every number in the table.
SeqBelowNext == \A e \in Rows : e.seq < next

\* An uncommitted row belongs to one transaction and is not in the log.
RowsApart ==
    \A t \in Tx : \A e \in Uncommitted(t) :
        /\ e \notin log
        /\ \A u \in Tx \ {t} : e \notin Uncommitted(u)

\* Which locks a transaction can hold at which point, and that FOR UPDATE
\* excludes every other lock on the row.
LockDiscipline ==
    \A t \in Tx :
        /\ item[t] = None => held[t] = "unlocked"
        /\ t \in Locking => held[t] = IF item[t] = None THEN "unlocked" ELSE "update"
        /\ t \notin Locking => held[t] # "update"
        /\ held[t] = "unlocked" => Uncommitted(t) = {}
        /\ held[t] = "key_share" => mine[t] = {}
        /\ held[t] = "update" =>
              \A u \in Tx \ {t} : item[u] = item[t] => held[u] = "unlocked"

\* Uncommitted rows are about the transaction's own item and are newer than
\* every committed row about it, and the one being projected is the newest.
NewestLast ==
    \A t \in Tx :
        /\ \A e \in Uncommitted(t) :
              /\ e.id.item = item[t]
              /\ \A f \in log : f.id.item = item[t] => f.seq < e.seq
        /\ \A e \in pending[t] :
              /\ \A f \in mine[t] : f.seq < e.seq
              /\ \A f \in pending[t] : e = f

\* v is what the last event of S wrote, or d when S is empty.
LastWrite(v, S, d) ==
    \/ S = {} /\ v = d
    \/ \E e \in S : v = e.id.to /\ \A f \in S : f.seq <= e.seq

\* A row version under construction is the committed row with the
\* transaction's own events applied in seq order.
VersionFollowsRows ==
    \A t \in Tx : Writes(t) => \A c \in Column :
        LastWrite(version[t][c], {e \in mine[t] : e.id.col = c}, row[item[t]][c])

\* A committed row holds what its last committed event wrote.
LiveFollowsLog ==
    \A i \in Item, c \in Column : LastWrite(row[i][c], EventsOf(i, c), InitValue[c])

RebuildInv ==
    /\ ActionRecordedOnce
    /\ SeqBelowNext
    /\ RowsApart
    /\ LockDiscipline
    /\ NewestLast
    /\ VersionFollowsRows
    /\ LiveFollowsLog

-----------------------------------------------------------------------------
(* What a reader of the table may rely on.                                 *)

Ledger == INSTANCE SeqLog WITH
    open <- {e.seq : e \in UNION {Uncommitted(t) : t \in Tx}},
    committed <- {e.seq : e \in log}

\* The writers implement the ledger the feed reads: numbers are handed out at
\* insert, and a transaction's rows appear, or vanish, all at once.
ImplementsLedger == Ledger!SeqSpec

=============================================================================
