------------------------------- MODULE SeqLog -------------------------------
(***************************************************************************)
(* The events table as its readers see it: an append-only ledger whose     *)
(* sequence numbers (events.seq, a BIGSERIAL) are handed out when a row is *)
(* INSERTed and become visible only when the inserting transaction         *)
(* commits.  A transaction commits or rolls back all its rows together.    *)
(* EventLog implements this specification; Feed reads from it.             *)
(***************************************************************************)
EXTENDS Naturals

CONSTANT MaxSeq     \* bound on the numbers the sequence hands out

ASSUME MaxSeqAssumption == MaxSeq \in Nat

VARIABLES
    next,           \* the number the next INSERT will take
    open,           \* numbers of rows inserted by transactions still running
    committed       \* numbers of the rows every reader can see

seqVars == <<next, open, committed>>

SeqTypeOK ==
    /\ next \in 1..(MaxSeq + 1)
    /\ open \subseteq 1..MaxSeq
    /\ committed \subseteq 1..MaxSeq

SeqInit ==
    /\ next = 1
    /\ open = {}
    /\ committed = {}

\* INSERT INTO events ... : nextval() is taken at once and is never given back.
Allocate ==
    /\ next <= MaxSeq
    /\ next' = next + 1
    /\ open' = open \union {next}
    /\ UNCHANGED committed

\* tx.Commit publishes every row the transaction inserted.
Publish(S) ==
    /\ open' = open \ S
    /\ committed' = committed \union S
    /\ UNCHANGED next

\* tx.Rollback, or a lost connection: the rows vanish and leave a gap.
Discard(S) ==
    /\ open' = open \ S
    /\ UNCHANGED <<next, committed>>

SeqNext ==
    \/ Allocate
    \/ \E S \in SUBSET open : Publish(S) \/ Discard(S)

SeqSpec == SeqInit /\ [][SeqNext]_seqVars

=============================================================================
