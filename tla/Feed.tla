-------------------------------- MODULE Feed --------------------------------
(***************************************************************************)
(* Consumers of the event feed over the ledger of SeqLog:                  *)
(*                                                                         *)
(*   Streams: `meristem feed --watch`.  The client keeps the cursor of the *)
(*     last frame it handled in memory, the server side of /v1/feed/stream *)
(*     keeps its own position and writes frames ahead of the client, and a *)
(*     lost connection takes the unread frames with it.                    *)
(*   Pollers: spoke.pollFeed.  Each tick asks for one page after a saved   *)
(*     cursor and saves the cursor the page returned.                      *)
(*                                                                         *)
(* A consumer without a cursor starts at the head of the log ("from now"). *)
(***************************************************************************)
EXTENDS SeqLog, Integers, FiniteSets

CONSTANTS
    Streams,        \* watchers on /v1/feed/stream
    Pollers,        \* spokes polling /v1/feed
    Kinds,          \* numbers of the rows whose kind the query selects
    Matching,       \* those of them the projection filter keeps
    Readable,       \* numbers of the rows the consumer's token may read
    Limit,          \* rows of a page or a stream batch
    MaxDrops        \* bound on lost connections and failed cursor files

Consumer == Streams \union Pollers
None == -1          \* no cursor; a stream that is not connected

ASSUME FeedAssumption ==
    /\ Streams \intersect Pollers = {}
    /\ Matching \subseteq Kinds
    /\ Limit \in Nat \ {0}
    /\ MaxDrops \in Nat

VARIABLES
    cursor,     \* lastID of a watcher, the saved cursor of a poller
    stream,     \* fromSeq of the server's side of a stream
    wire,       \* frames written to a stream and not yet read, oldest first
    seen,       \* rows the consumer has handled
    origin,     \* history: the head at which it last started "from now"
    late,       \* history: rows in flight when its position went past them
    drops       \* lost connections and failed loads or saves so far

consumerVars == <<cursor, stream, wire, seen, origin, late, drops>>
feedVars == <<next, open, committed, cursor, stream, wire, seen, origin, late, drops>>

Position == (1..MaxSeq) \union {0, None}

FeedTypeOK ==
    /\ SeqTypeOK
    /\ cursor \in [Consumer -> Position]
    /\ stream \in [Streams -> Position]
    /\ wire \in [Streams -> SUBSET (1..MaxSeq)]
    /\ seen \in [Consumer -> SUBSET (1..MaxSeq)]
    /\ origin \in [Consumer -> Position]
    /\ late \in [Consumer -> SUBSET (1..MaxSeq)]
    /\ drops \in 0..MaxDrops

FeedInit ==
    /\ SeqInit
    /\ cursor = [c \in Consumer |-> None]
    /\ stream = [c \in Streams |-> None]
    /\ wire = [c \in Streams |-> {}]
    /\ seen = [c \in Consumer |-> {}]
    /\ origin = [c \in Consumer |-> None]
    /\ late = [c \in Consumer |-> {}]
    /\ drops = 0

-----------------------------------------------------------------------------
(* What a query returns.                                                   *)

\* h is the largest member of S, or d when S is empty.
IsLast(h, S, d) ==
    \/ S = {} /\ h = d
    \/ h \in S /\ \A s \in S : s <= h

\* head: SELECT COALESCE(MAX(seq), 0) FROM events, rows of every kind.
IsHead(h) == IsLast(h, committed, 0)

\* Mutant of After: WHERE seq >= $2.
AfterOrAt(from) == {s \in committed \intersect Matching : s >= from}

\* The rows after a position that the consumer's filter lets through.
After(from) == {s \in committed \intersect Matching : s > from}

\* queryAfter: ORDER BY seq ASC, cut off after Limit matching rows.
Pages(S) ==
    {P \in SUBSET S :
        /\ \A x \in P, y \in S \ P : x < y
        /\ IF Cardinality(S) <= Limit THEN P = S ELSE Cardinality(P) = Limit}

\* Mutant of IsNextCursor: the cursor of a page that was cut off.
IsLastScanned(n, P, from) ==
    IsLast(n, {s \in committed \intersect Kinds : s > from}, from)

\* Where queryAfter leaves the cursor: at the last row of a page that was cut
\* off, else at the last row it scanned, whether the filter kept it or not.
IsNextCursor(n, P, from) ==
    IF P # After(from)
    THEN IsLast(n, P, from)
    ELSE IsLast(n, {s \in committed \intersect Kinds : s > from}, from)

\* Rows still in flight below a position: committed later, they are behind it.
InFlightBelow(p) == {s \in open : s <= p}

-----------------------------------------------------------------------------
(* feed --watch                                                            *)

\* consumeStream connects, with Last-Event-ID if it has one; ResolveStreamStart
\* answers the head if it has none.  The existence check of a cursor always
\* succeeds: rows are never deleted.
Connect(w) ==
    /\ stream[w] = None
    /\ \/ /\ cursor[w] # None
          /\ stream' = [stream EXCEPT ![w] = cursor[w]]
          /\ UNCHANGED origin
       \/ /\ cursor[w] = None
          /\ \E h \in Position :
                /\ IsHead(h)
                /\ stream' = [stream EXCEPT ![w] = h]
                /\ origin' = [origin EXCEPT ![w] = h]
    /\ UNCHANGED <<seqVars, cursor, wire, seen, late, drops>>

\* Mutant of TailFiltered: the position moves to the last row that was sent.
TailToLastSent(w) ==
    /\ stream[w] # None
    /\ \E P \in Pages(After(stream[w])) : \E m \in P \intersect Readable :
        /\ IsLast(m, P \intersect Readable, None)
        /\ wire' = [wire EXCEPT ![w] = @ \union (P \intersect Readable)]
        /\ stream' = [stream EXCEPT ![w] = m]
        /\ late' = [late EXCEPT ![w] = @ \union InFlightBelow(m)]
    /\ UNCHANGED <<seqVars, cursor, seen, origin, drops>>

\* handleFeedStream: TailFiltered reads a batch, the access filter removes what
\* the token may not read, a frame is written for each row left, and the
\* position moves to the last row of the unfiltered batch.
TailFiltered(w) ==
    /\ stream[w] # None
    /\ \E P \in Pages(After(stream[w])) : \E m \in P :
        /\ IsLast(m, P, None)
        /\ wire' = [wire EXCEPT ![w] = @ \union (P \intersect Readable)]
        /\ stream' = [stream EXCEPT ![w] = m]
        /\ late' = [late EXCEPT ![w] = @ \union InFlightBelow(m)]
    /\ UNCHANGED <<seqVars, cursor, seen, origin, drops>>

\* The client dispatches the next frame: lastID first, then onEvent.
Receive(w) ==
    /\ \E s \in wire[w] :
        /\ \A x \in wire[w] : s <= x
        /\ wire' = [wire EXCEPT ![w] = @ \ {s}]
        /\ cursor' = [cursor EXCEPT ![w] = s]
        /\ seen' = [seen EXCEPT ![w] = @ \union {s}]
    /\ UNCHANGED <<seqVars, stream, origin, late, drops>>

\* The connection ends; unread frames are lost.  runFeedWatch keeps lastID,
\* unless isInvalidCursorErr finds "400" anywhere in the error text (an address
\* with a port such as 40012 is enough): then it forgets it.
Disconnect(w, misread) ==
    /\ stream[w] # None
    /\ drops < MaxDrops
    /\ drops' = drops + 1
    /\ stream' = [stream EXCEPT ![w] = None]
    /\ wire' = [wire EXCEPT ![w] = {}]
    /\ cursor' = [cursor EXCEPT ![w] = IF misread THEN None ELSE @]
    /\ UNCHANGED <<seqVars, seen, origin, late>>

-----------------------------------------------------------------------------
(* spoke.pollFeed                                                          *)

\* One tick: load the cursor (a load error reads as "no cursor"), fetch a page,
\* save the cursor the page carries (a save error is only logged).
PollFeed(p, loaded, saved) ==
    /\ ~ (loaded /\ saved) => drops < MaxDrops
    /\ drops' = IF loaded /\ saved THEN drops ELSE drops + 1
    /\ \E from \in Position :
        /\ IF loaded /\ cursor[p] # None
           THEN from = cursor[p] /\ UNCHANGED origin
           ELSE /\ IsHead(from)
                /\ origin' = [origin EXCEPT ![p] = IF saved THEN from ELSE @]
        /\ \E P \in Pages(After(from)), n \in Position :
            /\ IsNextCursor(n, P, from)
            /\ seen' = [seen EXCEPT ![p] = @ \union (P \intersect Readable)]
            /\ cursor' = [cursor EXCEPT ![p] = IF saved THEN n ELSE @]
            /\ late' = [late EXCEPT ![p] = IF saved THEN @ \union InFlightBelow(n) ELSE @]
    /\ UNCHANGED <<seqVars, stream, wire>>

-----------------------------------------------------------------------------
Log == SeqNext /\ UNCHANGED consumerVars

FeedNext ==
    \/ Log
    \/ \E w \in Streams :
        \/ Connect(w)
        \/ TailFiltered(w)
        \/ Receive(w)
        \/ \E misread \in BOOLEAN : Disconnect(w, misread)
    \/ \E p \in Pollers, loaded, saved \in BOOLEAN : PollFeed(p, loaded, saved)

FeedSpec == FeedInit /\ [][FeedNext]_feedVars

\* The loops of handleFeedStream, runFeedWatch and RunLoop come around for as
\* long as their processes live; a tick whose cursor file works recurs.
FeedFairness ==
    /\ \A w \in Streams : WF_feedVars(Connect(w)) /\ WF_feedVars(TailFiltered(w)) /\ WF_feedVars(Receive(w))
    /\ \A p \in Pollers : WF_feedVars(PollFeed(p, TRUE, TRUE))

FeedFairSpec == FeedSpec /\ FeedFairness

-----------------------------------------------------------------------------
(* Properties                                                              *)

\* What a consumer is to be told of.
Due == committed \intersect Matching \intersect Readable

\* queryAfter resumes without skipping, except what it cannot see: every row
\* due between the start and the cursor was handled, or was still in flight in
\* an open transaction when the position moved past its number.
SkipsOnlyInFlight ==
    \A c \in Consumer : \A s \in Due :
        origin[c] < s /\ s <= cursor[c] => s \in seen[c] \union late[c]

\* Across reconnects a watcher is never sent a row it has handled before: a
\* stream resumes after the last frame dispatched, not after the last written.
NeverSentTwice == \A w \in Streams : wire[w] \intersect seen[w] = {}

\* A row due that was not overtaken reaches a consumer that keeps running,
\* unless the consumer restarts from a later head.
EventuallyHandled ==
    \A c \in Consumer : \A s \in 1..MaxSeq :
        s \in Due /\ origin[c] # None /\ origin[c] < s
            ~> s \in seen[c] \union late[c] \/ s <= origin[c]

-----------------------------------------------------------------------------
(* The inductive invariant behind SkipsOnlyInFlight and NeverSentTwice.    *)

\* Numbers in use are below next, and a row is in flight or committed.
LedgerOK ==
    /\ \A s \in open \union committed : s < next
    /\ open \intersect committed = {}

\* Positions only ever stand at or below a committed row.
PositionsOK ==
    /\ \A c \in Consumer : cursor[c] < next /\ seen[c] \subseteq committed
    /\ \A w \in Streams :
        /\ stream[w] < next
        /\ wire[w] \subseteq committed
        /\ stream[w] = None => wire[w] = {}
        /\ stream[w] # None => cursor[w] <= stream[w]

\* The frames on the wire continue, in order, what was handled before.
WireOK ==
    \A w \in Streams :
        /\ cursor[w] # None => \A x \in seen[w] : x <= cursor[w]
        /\ stream[w] # None => \A x \in seen[w] \union wire[w] : x <= stream[w]
        /\ \A y \in wire[w] : cursor[w] < y /\ \A x \in seen[w] : x < y

\* Behind a consumer's position nothing is left that it does not know of, nor
\* a row in flight that was not noted as overtaken.
CursorCovers ==
    \A c \in Consumer : \A s \in open \union Due :
        origin[c] < s /\ s <= cursor[c] => s \in seen[c] \union late[c]

StreamCovers ==
    \A w \in Streams : \A s \in open \union Due :
        origin[w] < s /\ s <= stream[w] => s \in seen[w] \union late[w] \union wire[w]

FeedInv == FeedTypeOK /\ LedgerOK /\ PositionsOK /\ WireOK /\ CursorCovers /\ StreamCovers

=============================================================================
