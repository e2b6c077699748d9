# TLA+ models of meristem

meristem is an event-sourced coordination plane over PostgreSQL.  Every change
is an event with a deterministic id, appended to one `events` table; projector
functions fold a fresh event into read tables in the same transaction; a feed
ordered by `events.seq` carries the log to watchers and to other nodes; a
worker loop, approvals, budgets and escalations act on the work items.  These
modules model its concurrency-relevant core, TLC checks them on small
instances, and TLAPS proves the main invariants for all sizes.

Line references are to the repository root.  `PROJECT.json` maps every
definition to the lines it translates, and lists runs, mutants, findings,
hazards and theorems.

## Inventory

| component | state it keeps | operations | hard behaviour | what makes it correct |
|---|---|---|---|---|
| events (`internal/events`) | `events` | `Append` | concurrent equal ids, `seq` before commit | an id once; all rows of a transaction or none |
| projections, `rebuild` | all read tables | fold of the log | fold order against write order | rebuilt tables equal live tables |
| workitems | `work_items`, `work_item_relations` | Create, SpawnChild, Transition, UpdateMetadata, AppendEvent | row and token locks, three budgets, recovery path | budgets hold, terminal items stay, exhausted items are blocked |
| escalations | `escalations` | RequestInTx | unlocked read, several appends | one human child per escalation, live = rebuilt |
| idempotency | `idempotency_keys`, advisory locks | Wrap, Execute | retries, crashes, lock loss, pool limits, expiry | one answer per key, every request ends |
| feed, SSE, `feed --watch` | cursors in clients | Page, Tail, stream, reconnect | rows in flight, filters, lost connections | nothing skipped silently, no repeats on a stream |
| spoke, crossnode | cursor file, command queue | pollFeed; Enqueue, Pending, Ack, drain | lost acks, partitions | a command's effect once, eventually |
| worker | none of its own | ScanOnce: scribe, review, dispatch, convergence, breach passes | restarts mid-pass, stale reads, errors that end a scan | a breach is acted on once per epoch, eventually; done means an accepting verdict |
| convergence | verdict events | reducers, budget, ProposeChecks | budget edges, votes out of order | the verdict follows from the votes |
| approvals, httpconnector | `approvals`, outbox | CreateInTx, Decide, Expire; Request, EnqueueApprovedWrite, DispatchOnce | decision racing expiry, crash around the outside call | no outside write without an approval |
| jobqueue | `job_queue` | ClaimNext, MarkDone, MarkFailed, MarkCanceled | lease expiry against a slow launcher | a job ends once |
| signals, policyprofile | `signals`, `active_policy_profile` | Receive, Switch | concurrent signals of one key, budget at its limit, retries, lock and pool | one live item per key, bounded overshoot |
| nodes, inbox | their tables | register, update-route; capture | identical events | the last route asked for |
| grants, auth, access | `tokens`, grant outcomes | issue, mint, revoke, panic revoke; visibility rules | revocation in flight, repeats, chains of grants | a delegated token is no wider than its parent |
| cultivaractivation, registry, projectiondefs, `seed` | versioned definitions, activation outcomes | define, activate, seed | concurrent definitions, rollbacks, repeated seeds, reviews that change under an activation | a name's versions are one line, the row is its end; a granted cultivar was approved by another |
| backlog, export, providercontext, providerexport, dogma | none | pure reads | - | functional correctness |
| api, mcp, cmd, pkg | none | transport | - | one service call per request |

Interaction: every service opens a transaction, locks the rows it decides on,
appends events through the one `events.Writer`, whose projectors write the read
tables, and commits.  Transports wrap each POST or tool call in the idempotency
middleware.  The worker and the escalations call the same services.  Feed
readers see committed rows only.  Nothing is shared in memory between requests.

## Modules

**SeqLog** is the abstract ledger: numbers handed out at INSERT, published or
discarded per transaction.  **EventLog** is what the writers do, statement by
statement, and is shown to implement it.  **Feed** extends SeqLog with the
consumers.  **HTTPConnector** extends **Approvals**: the outside calls on top of
the decisions that allow them; it is shown to implement **OutsideWrite**, the
promise about a write without rows, leases and dispatchers.  **Grants** is shown to
implement **Authority**, the promise about rights without scopes, trees and
templates.  **Worker** extends **Convergence**, the reducers
and the retry budget as operators.  **Fleet** composes the node registry, a
sender, the queues of the nodes and the spoke of the target, and takes the
idempotency middleware by the contract that **Idempotency** checks; what its
filtering loops keep of a list is `Keep` of **Selections**, written as a recursive
function so that it can be proved about.
**WorkItems**, **Signals**, **Grants** and **Registry** stand alone: each has the
transactions of its handlers, and what other components do to the rows they read
as actions of their own (`Finish` and `Reopen` in Signals, `SpawnChild` and
`UpdateMetadata` in Grants, `Review` in Registry).

### EventLog

`row` is `work_items` cut into the column groups that one projector overwrites
as a whole; `log` the committed rows of `events`; per connection, `item`, `held`
(row lock mode), `snap` (what an escalation read), `pending` (inserted, being
projected), `mine` (inserted and projected) and `version` (the row version it
builds).  An event id is the content that `DeterministicID` hashes.

| action | code |
|---|---|
| `BeginLocking` | `scanWorkItemForUpdate`, first statement of every locking writer |
| `BeginEscalation`, `InsertRelation`, `AppendEscalation` | `escalations.RequestInTx`: plain SELECT, relation (its foreign key takes KEY SHARE), metadata, then transition |
| `AppendLocking`, `Insert`, `Project` | `Writer.Append`: INSERT ... ON CONFLICT DO NOTHING, projector |
| `Commit`, `Rollback` | the end of the transaction; also a lost connection |

Row-lock conflicts and the unique index are PostgreSQL's and external.

### Feed

`cursor` is `lastID` of a watcher or the cursor file of a spoke, `stream` the
server's position, `wire` the frames written and unread.  `origin`, `late` are
history: where the consumer last started "from now", and which rows were in
flight when its position passed them.  `PollFeed` is one tick of
`spoke.pollFeed` including the failures to load or save the cursor file;
`Disconnect(w, TRUE)` is the reconnect that misreads an error as
`invalid_cursor`.  The access filter is the constant `Readable`, the projection
filter `Matching` within `Kinds`; consumers all have the same filters.

### Idempotency

`pc` is the statement `Wrap` is at: lookup, lock, recheck, handler, tx, record,
reply.  `lock` is the session advisory lock; `lockConn` and `txConn` count the
pool connections a request pins.  `HandlerFails` includes the commit whose
acknowledgement is lost.  `Vanish` is a crash or a hang-up, `LoseLock` the loss
of the lock's backend, `Expire` the TTL.

### WorkItems

An operation is `Begin` (row lock and refusals), `Count` (the reads of its
budgets, for a move into running behind the token lock), then `Commit`, or `Exhaust` when a budget
stands in the way, or `Leave` (rollback or replay).  `log` holds event ids;
`hour` those inside the rate window; `HourPasses` empties it.  The
human-attention child of an escalation is represented by its escalation, and a
budget's cultivar override by the constant's value.  The escalations of other
packages are in EventLog, because they lock nothing.

### Approvals and HTTPConnector

Each operation of an approval is one action: it locks the approval, then the
item, and holds both until its commit.  (`CreateInTx` locks the item and then
inserts; the insert waits for no row lock, so the two orders form no cycle.)
`parked` holds the transition events that park an item, which are identified by
the request and the state the item was in; `answered` the requests whose
response is recorded, so that they are not run again.

A dispatch is four transactions: `Claim`, `Call` (outside), `Record`, `Mark`.
`CallFails` is an error of the HTTP client, whether or not the request got out;
`Crash` the end of the process between two of them, or an error of one of them;
`LeaseEnds` the passing of `lease_until`.  `CheckApproval` and `Enqueue` are two
steps, because the approval is read outside the transaction that appends.  `calls`
and `expired` are history.

### Fleet

`node` is the registry, `logged` the payloads of route events, which carry no
discriminator.  A walk is `Begin` (`Select`), then `Accepted`, `Refused` or
`Unanswered` for the candidate at its head; `HandleCommand` is the endpoint at
the other end, which parks a command for another node and answers anything else
202 without doing it.  `queue` and `order` are `command_queue` of each node.  A
tick of the spoke is `FetchPending`, then for each command `ExecuteLocal` or
`LocalFails`, `AckHub`; `acks` are posts on their way, which arrive late, in any
order or not at all.  `record` and `ackRecord` are the recorded answers behind
which the middleware of the target and of the hub keep retries.  `Stuck`
commands always time out.  `Select` and `Deliver` have no caller in the program
yet: the sender is what their tests and comments describe.

### Convergence and Worker

Convergence has one operator per reducer and compares them with declarative
definitions.  In Worker, `scan[w]` is a worker in the middle of `ScanOnce`: the
pass, the candidates it read at the start of the pass, and the one in hand with
the decision about it.  Each action is one transaction.  `EndScan` is an error
that a pass returns.  `recorded` holds the identities of the events the worker
appends without a key, a second of which is `ErrUnexpectedEventDedupe`.
`epoch` counts the states an item has entered (`state_entered_at`) and `due`
says that the budget of the epoch has passed.  `job` is `job_queue`, `claim`
what each launcher believes it holds.

### Signals

`receiver[r]` is a request inside `Receive`: budget read, transaction begun,
lock, reads, appends.  `row` is the table, `log` the payloads of
`signal.received`, since an equal event is not appended again and its projector
does not run.  `recent` are the rows of the trailing hour; the clock hour
(`hour`), which names an escalation, moves independently of it.  `Ready(r)` is what
the next step of a receiver waits for, a connection or the lock of its key; each
step has it as its guard.

### Grants

`token` is the table with the parent of a delegated token added (`by`), `above`
the ancestors of each item, `late` the revoked tokens with a request under way.
A grant request is `Evaluate` (its reads and `Reduce`) and `Write` (its
appends), two steps of one transaction that locks nothing; `Answer` shows the
secret, `Crash` ends the execution before or after the commit and `Retry` runs
it again under the same ids.  `Rules` are the checks of `Reduce` in their order.
`Writers(i)` are the tokens that the handlers let write to an item; who of them does
it is not recorded.  `Rights` is what the three visibility rules come to, as pairs
of a verb and an item, and the mapping to Authority.

### Registry

`row` is the three definition tables, `log` the events of each name by seq with
the open transaction they belong to, `lock` the row locks.  A definition is
`Admit` (the read FOR UPDATE, which has nothing to lock while the name is new, and
the checks of `DefineTropism`, `DefineCultivarInTx` or `DefineProjection`) or
`Refuse`, `AppendEvent`, `Apply` (the upsert, behind any other writer of the row),
`Commit` or `Abort`.  `Seed` and `SeedNext` are `meristem seed`, which stops at
the first failure.  An activation is `Evaluate` and `Separate`, two unlocked
reads, and then the same steps up to `CommitActivation`; `approver` is the newest
approving event by `occurred_at`, which is not the order of commits.  The grant
reducer's disposition is chosen freely, except that it grants nothing unapproved;
Grants has the reducer itself.

## Runs

| run | instance | states | shows |
|---|---|---|---|
| EventLogOneEscalation | 2 locking writers, 1 escalation, 1 item, 2 columns, 4 events | 262,807 | live = rebuilt, an action once, refinement of SeqLog |
| FeedDelivery | 1 watcher, 1 poller, 4 rows, page of 1, 1 failure | 60,736 | only in-flight rows are skipped, no repeats, the rest is handled |
| IdempotencyRequests | 2 requests, 2 keys, 3 bodies, 5 connections, nested lookups, 1 expiry, 1 lock loss | 25,774 | one durable answer per key, every request ends |
| WorkItemsBudgets | 2 connections, 3 items, 2 tokens, 12 requests, 7 events | 1,198,556 | the three budgets; the only way out of a terminal state |
| HTTPConnectorWrites | 2 writes about 1 item, 2 humans, 2 enqueuers, 2 dispatchers, 1 fault, 1 lease that ends | 182,342 | no write unapproved, one call per lease, first decision wins, an enqueued write is sent; OutsideWrite is implemented |
| FleetDrain | 3 nodes, 2 commands (1 stuck), 2 walks each, 1 route update, 3 faults | 346,675 | done means executed, outcomes are final, a parked command is acknowledged |
| WorkerConvergence | 1 worker, 1 item, 2 attempts, 2 signals, 1 fault | 145,656 | what the worker closed is backed, terminal items stay, a passing item closes, a breach is routed |
| WorkerChildren | 1 worker, an agent's item with scribe and review, 2 launchers, 1 lease that ends | 1,514,390 | the end of a job is final; scribe, review, dispatch and proposals take part |
| WorkerStarved | 1 worker, 1 item, no faults | - | violated: one item ends every scan, no breach is routed |
| SignalsReceive | 2 receivers, 2 connections, 4 signals, 1 retry, 1 hour, 1 reopened item | 1,568,962 | one live item per key, bounded overshoot, nobody stuck |
| GrantsDelegation | 1 root, 1 agent, 2 grants, 3 items, 1 crash, 1 revocation, 1 review | 587,442 | no grant is wider than its parent, secrets work, a grant is settled once, Authority is implemented: nothing widens |
| RegistryDefinitions | 2 writers, 1 name of each kind, 9 definitions, 3 requests, 2 seeds, 1 activation, 2 reviews | 1,851,215 | one line of versions, quiet reseeding, granted means approved and defined |

Type invariants that are proved (all under Proofs but that of the worker) are not
run again.

Why the bounds are enough.  Four events give an escalation (two events) and two
writers interleaved on the same column, which is what a disagreement of seq and
commit order needs; a fifth adds only a longer history.  A page of one row over
four rows makes every page but the last cut off, with a filtered row and an
unreadable one between.  Two requests give a winner and a
retry or a rival body, and the proofs cover any number of them; two keys the
sharing of one pool and of one item.  Budgets are 1 (2 for
lifecycle events, as creating and moving an item are needed to get anywhere), so
that the second concurrent request is already over; seven events suffice to
create, spawn, finish, exhaust and escalate.  Two writes about one item let the
decision of one move the item under the other; one fault and one lease that ends
under a working dispatcher let the other dispatcher claim a row that is being
called, recorded or marked, and more of them only repeat that.  Three faults let a fetched command fail after its commit, its acknowledgement
be lost and a late one overtake it; a fetch of two rows holds the stuck command
and the other.  Two attempts and two signals give a first and a last verdict and
a reading that changes between them; two owner moves take an item to running and
out under a scan.  Two receivers and two connections fill the pool, and the
smaller budget is 1, so that a second signal is refused.  Two grants make a
chain, three items a tree with a branch, depth 1 an item that is too deep; a review
is set to approved by an update and withdrawn by an escalation (`SetReviews`).  Two writers and
three requests give two rivals for a version and a third definition on top; two
seeds one that is cut off or finished and its repeat.
Bounds in the guards are `MaxSeq`, `MaxDrops`, `MaxExpiries`, `MaxLosses`,
`MaxFaults`, `MaxEvents`, `MaxWalks`, `MaxUpdates`, `MaxSignals`, `MaxMoves`,
`MaxEpoch`, `MaxRetries`, `MaxHours`, `MaxReopened`, `MaxCrashes`, `MaxRevokes`,
`MaxRequests`, `MaxSeeds` and `MaxReviews`.  `SYMMETRY` is used in safety runs only, over requests,
connections, receivers, writers, signals without a key, grants and items, which the
specifications never tell apart.  Runs whose requests, approvals, commands,
signals, grants or definitions are used up set `CHECK_DEADLOCK FALSE`, because nothing is left
to do then.

Fairness.  Feed: the loops of `handleFeedStream` (a ticker), `runFeedWatch`
(backoff and reconnect) and `RunLoop` (a ticker) run as long as their process;
failures are bounded by `MaxDrops`, so weak fairness of each step says that a
loop comes round.  No transaction is assumed to commit.  Idempotency: weak
fairness of each request's next step; the advisory lock is polled with a back-off of at
most 50 ms, and `pgxpool` serves waiters.  WF suffices because a free lock stays
free until a waiter takes it in the checked instance; nothing is assumed of
clients, expiry or failures.  HTTPConnector: dispatchers call `DispatchOnce` again
and again and carry a call on unless they die, and the clock advances.  The
repository has the loop only in its tests: `EnqueueApprovedWrite`,
`DispatchOnce` and `Expire` have no other caller yet, and `EnqueuedIsSent` says what
holds once one runs them.  Nothing is assumed of requests, humans and
enqueuers.  Fleet: `spoke.RunLoop` ticks for ever and its client's timeout
bounds each call, so each step of a tick is taken and a post that is not lost
arrives; faults are bounded.  Worker: `runWorkerLoop` scans after every tick,
errors included; launchers, owners and the clock owe nothing.

### Where code and documents disagree

`PROJECT.json` lists each with the quoted line.  One is a run, `WorkerStarved`:
an item that convergence has blocked is moved back to running by its owner; each
scan resumes the recorded verdict, its event is on record, the error ends the
scan, and the breach pass is not reached for any item.  `BreachIsRouted` and
`PassingItemCloses` hold with exactly this exception (`Repeats`).

The others follow from the models by short behaviours:

- two escalations of one item read the row unlocked, and live and rebuilt rows
  differ (EventLog with a second connection outside `Locking`; `OneEscalator` in
  the proofs excludes it);
- a row in flight is passed by a cursor and never delivered (`late` in Feed);
- two lock holders that each want a third connection exhaust the `bring_up` pool
  of four (IdempotencyRequests with `PoolSize = 4`);
- a transition that is run again carries another from-state and is a second
  event; a request that is run again after its approval was closed parks its item
  for good;
- a dispatcher slower than its lease is overtaken and the write is called twice
  (`OneCallPerLease` is what remains);
- exhaustion of a budget, and a breach that is escalated late, move a finished
  item to blocked; a second exhaustion at the same count does nothing;
- the third of three route events A, B, A is not applied; a relay answers 202 and
  does not forward;
- a signal that is received again links to its own item and rewrites its row,
  which frees a place in the hourly budget;
- the depth of a delegation starts again at every link of a chain; a grant whose
  request was authenticated before a panic revocation commits a live token after
  it;
- any error text containing "400" makes `feed --watch` drop its cursor; the error
  text that the convergence pass means to ignore is not the one `Transition`
  returns;
- two first definitions of a name both pass, a rootstock one included, and the row
  may differ from the rebuilt one (`HistoryIsLinear` has this exception only);
- an activation that is run again evaluates afresh and can be settled twice
  (`outcomes` in Registry is a set for that reason).

Also noticed: after the TTL an equal response is deduplicated and its row stays
expired, so that each later retry runs the handler; with a lost lock connection
two holders may answer differently; creating an item in `running`, and the return
of an approved item to its state, consult no budget; captured, blocked, running
avoids the checks gate; a launcher whose lease ended can end a job another is
working on; `approvals.Decide` does not look at `expires_at`; as many stuck
commands as a fetch has rows hold back all that are behind them; a 5xx of the
local api is acknowledged as failed though the command may have run, and is not
retried; a patience breach of a dispatched epoch whose job has ended leads to no
new job; a granted token whose answer was lost is live and nobody has its secret.

## Proofs

| module | theorem | inductive invariant |
|---|---|---|
| EventLog_proofs | `TypeCorrect`, `AppendOnce` | `TypeOK`; `ActionRecordedOnce`, `SeqBelowNext`, `RowsApart` |
| | `RebuildAgrees` (assumes `OneEscalator`) | `RebuildInv` |
| | `LedgerImplemented`, the refinement of SeqLog | `TypeOK`, `AppendOnce`'s, `OnePending` |
| Delivery_proofs | Idempotency: `TypeCorrect`, `OneAnswer`, `LockedCheckHolds`, `DurableAnswers`, `FirstRecordIsFresh` | `LockHeld`, `FromRecords`, `RecordsLive` with the properties |
| | Feed: `FeedTypeCorrect`, `OnlyInFlightSkipped`, `StreamNeverRepeats` | `FeedInv` |
| | Fleet: `FleetTypeCorrect`, `DoneWhenExecuted`, `FinalOutcome` | `FleetInv` |
| HTTPConnector_proofs | `TypeCorrect`, `DecidedOnce` | `Typed` |
| | `OnlyApprovedGetOut`, `SentHasAnswer` | `WritesInv` |
| | `LeaseKeepsCallsApart` | `WritesInv`, `LeasesCount` |
| | `PromiseImplemented`, the refinement of OutsideWrite | `WritesInv`, `LeasesCount` |
| WorkItems_proofs | `TypeCorrect`, `RunningBudget`, `ChildBudget`, `RateBudget`, `TerminalStays` | `WorkItemsInv` |
| Signals_proofs | `TypeCorrect`, `OneLiveItem`, `SomeoneGoesOn` | `SignalsInv` |
| | `OvershootBounded` | `SignalsInv`, `BudgetOK` |
| Grants_proofs | `TypeCorrect`, `DelegationNarrows`, `SecretsWork`, `SettledOnce` | `GrantsInv` |
| | `AuthorityImplemented`, the refinement of Authority | `GrantsInv` |
| Worker_proofs | `ChecklistKeepsItsPromise`, `ReducersAreOrderFree` | none: facts about lists of signals |
| | `ClosedWhenBacked`, `TerminalLeftLate`, `JobKeepsOutcome`, `ReducersKeepTheirPromise` | `WorkerInv` |
| | `TypeCorrect` (while `WithinEpochs`) | `WorkerInv`, `EntryInv` |
| Registry_proofs | `HistoriesAreLinear`, `ReseedingIsQuiet`, `GrantsAreDefined` | `RegistryInv` (`DefinitionsInvariance`) |

*RebuildAgrees.*  Live and rebuilt rows agree because a transaction that writes
a row holds it until its end (`LockDiscipline`), its uncommitted events are
newer than all committed ones about the item (`NewestLast`), and the version it
builds is the committed row with those events applied (`VersionFollowsRows`).
`NewestLast` is what a second escalation breaks: it inserts before it holds the
row.  `OneEscalator` says that there is at most one connection without the row
lock, the widest instance for which the property holds.

*LedgerImplemented.*  Under the mapping of `Ledger` each step of the writers is a
step of SeqLog or a stutter.  An append takes the next number (`InsertAllocates`);
the end of a transaction publishes or discards exactly its own numbers
(`EndPublishes`), because numbers of different rows differ (`NumbersApart`, from
`RowsApart`); everything else leaves both sets alone (`LedgerStutters`).

*OnlyInFlightSkipped.*  The invariant covers rows in flight as well as committed
ones: what is behind a position was handled, is on the wire, or was in flight
when the position passed it.  Then a commit changes nothing.

*OneAnswer.*  Without faults the holder of a lock is the only request past the
recheck (`LockHeld`), so no record appears under its key behind its back
(`NoRunBehindRecord`), so records of a key are one live row (`RecordsLive`), and
every answer is such a record (`AnswersAreDurable`, `FromRecords`).

*DoneWhenExecuted, FinalOutcome.*  Success of a command is said in five places: the
answer recorded at the target, the answer the spoke has in hand, its post on the
way, the recorded acknowledgement, the row of the hub.  The invariant says of each
of them that the command is in `executed` (`SuccessOK`), so that a loss, repetition
or restart between two of them changes nothing.  A row that is acknowledged has the
answer of its acknowledgement on record, unless recording it failed
(`AcksRecorded`); a later post under the same key is answered from there and never
reaches the projector that would overwrite the row.

*OnlyApprovedGetOut.*  The approval is read outside the transaction that acts on
it, which is harmless because approval is final (`DecidedOnce`): whatever an
enqueuer found approved is approved when it appends (`ApprovedFirst`).

*LeaseKeepsCallsApart.*  Calls alone are not inductive: `LeasesCount` adds the
dispatchers about to call (a finite set, the only finiteness assumed of actors)
and the claim the row still admits.  Each end of a lease pays for one more.

*PromiseImplemented.*  Each transaction is one step of OutsideWrite, or a stutter.  A
decision or an expiry closes a pending approval only, so `Allow` and `Refuse` exclude
each other and are final; a dispatcher about to call counts in `LeasesCount`, which
leaves it room for one `Make`; a row that is sent is not claimed, marked back or put
into the outbox again (`WritesInv`), so `Finish` is final and no lease of a finished
write ends.

*RunningBudget, ChildBudget, RateBudget.*  A budget is checked against a count
that was read earlier in the transaction, so the budgets are inductive only with
`CountsOK`: what a transaction counted still covers what is there.  That holds
because an item has one transaction at a time (`LocksOK`), and of the transactions
that move items into running for one token one at most is past the token's lock
(`TokenLocksOK`); `OthersUseNothing` is the lemma that a step of another
transaction leaves the counts alone.  For running items only `<=` is invariant: an
escalation of another item frees a place without the token's lock.  `LogOK`
(events are about existing items, and are finitely many) makes cardinalities grow
by one with each event.

*TerminalStays.*  The transition that a locked transaction was admitted for is
still legal when it commits (`LocksOK`), and legal moves leave no terminal state.

*OneLiveItem.*  A receiver that looked under the lock of its key holds it to the
end (`LockOK`), so what it found, no live item or the one it links to, is still so
when it commits (`LiveOK`).  The lookup goes through rows of signals, so `LiveOK`
also says that a live item is reachable from a row of its key, which survives the
rewriting of a row by a repeated signal only because of `LinksOK`.  A key with a
reopened item is left out, as in the property.

*OvershootBounded.*  The created items alone are not inductive, since receivers that
were let through before will still create.  `Spent` counts both, and `BudgetOK`
bounds it: a receiver is let through only below the budget it read, at which point
at most the other receivers with a connection are on their way, and from then on
the count only moves from one part of `Spent` to the other.  That the largest
budget is one of the budgets is a well-founded argument over finite sets.

*SomeoneGoesOn.*  A receiver that waits for a lock waits for one whose holder has its
connection already and needs nothing more (`HoldersOK`); one that waits for a
connection waits for receivers inside their transaction, and if there is none the
pool is not full.  `Ready` stands for ENABLED of the receiver's steps, which the
prover cannot expand; it is a conjunct of each of them.

*DelegationNarrows.*  The reducer reads the parent's scopes and the tree without a
lock.  What it found (`Covers`) stays true, because a token's scopes never change
and an item's ancestors only grow; a decided request carries it to the commit
(`RequestsOK`) and the token carries it from then on (`DelegationsOK`).  Each
right of a granted token then comes from a scope that its parent holds or from an
item whose ancestor the parent holds.

*SecretsWork, SettledOnce.*  A request is decided only while its grant has no
outcome, and the grant id is the request's, so a repeat after a commit finds the
outcome and mints nothing (`RequestsOK`, `OutcomesOK`); an execution that was cut
off shows nothing, and the hash in the row is of the execution that wrote it.

*AuthorityImplemented.*  Rights are a function of a token's scopes and of the
ancestors of an item, and no step changes either for a token or an item that exists
(`GrantsStep`): a new child adds pairs about itself only.  That a grant hands on a part
of its giver's rights, of old items at `Delegate` and of new ones at `Arrive`, is
`NoWiderThanParent` after the step; that it is settled once is `OutcomesOK`.

*ChecklistKeepsItsPromise.*  The loop of `AllPassChecklist.Reduce` is the recursive
function `tally`.  A closed form (`Total`: the checks voted for so far) satisfies
its recursion (`TallyStep`), so there is such a function, and a least position at
which another would differ leads to a contradiction (`TallyIsTotal`).  No induction
over sequences is needed, and the result holds of every list.

*ReducersAreOrderFree.*  Majority and unanimity count votes and the threshold sums
scores, so it is enough that neither changes when two positions are exchanged: the
votes for a side are a set that the exchange maps one to one onto the other list's,
and the partial sums of the two lists differ by a known amount between the two
positions and by nothing elsewhere.  Exchanges generate every order.  Scores are
integers here and `float64` in the code, whose sums can depend on the order in the
last bits; the theorem is about the rule and not about its rounding.

*ClosedWhenBacked.*  The worker reduces, records and moves the item in three
transactions and may be cut off between any two; a later scan resumes from the last
verdict on record.  `VerdictsOK` (an accepting verdict on record is backed by its
own signals) carries the promise of the checklist across scans, `DecisionsOK` says
that what a worker is about to act on is on record.  That the last verdict is one on
record needs the existence of a latest of the highest attempt (`LatestOnRecord`).

*TerminalLeftLate.*  `RequestInTx` looks at no state, so the reason is in what the
breach pass read: a row was not terminal in its epoch, and an item ends only by
entering a new epoch (`BreachesOK`, kept by every step that is an `Advance`).

*Worker!TypeCorrect.*  A pass works on rows it read earlier, and what it records and
dispatches names the epoch of a row.  `EntryInv` says that every row, event, breach,
escalation and job names an epoch that was entered.  `MaxEpoch` caps the steps of
owners and not those of the worker, so the last epochs are bounded in the instance
and not in general: the theorem has the condition `WithinEpochs`, which every state
of the runs satisfies, and `ShapesOK` is the part that holds of all states.

*HistoriesAreLinear.*  The events of a name are in the order of their seq, open ones
included.  A request that found a row holds its lock, so the row, and with it what was
checked of it, stays what it was until the request ends (`Successor`); its event is
behind all that is committed; and events of a name are distinct, so a replay adds
none (`EventOK`, `LogOK`).  While the name is new there is nothing to lock, and two
first definitions under way at once are the exception in the property.

*ReseedingIsQuiet, GrantsAreDefined.*  What the seed is past is on record, and a
definition on record is replayed and not refused, whatever was defined on top of it
(`SeedOK`).  An activation's definition is appended in the same transaction as its
grant, after both checks of it; the approver it found is an approver for ever, though
the review status may have changed since (`ActivationOK`).

Assumptions are those of the modules' `ASSUME`s: disjointness and typing of the
constants, finiteness of the dispatchers, items, receivers and profiles, positive
budgets, bounds that are numbers, names of cultivars that are none of tropisms or
projections, a seed list that is not empty, integer scores, and signals whose verdict, if any, is a pass or a
failure.  Fairness is not used.

Model-checked only: liveness (`EventuallyHandled`, `EveryRequestEnds`,
`EnqueuedIsSent`, `ParkedIsAcknowledged`, `PassingItemCloses`, `BreachIsRouted`),
which needs fairness and ENABLED, out of the prover's reach.  Every other property of a passing
run is stated by a theorem.  Filtering loops are recursive functions (`Keep`) or sets
of positions rather than `SelectSeq`, and RECURSIVE operators occur nowhere, because
the provers have no facts about either.

## Not modelled

Everything marked so in `PROJECT.json`: payload validation and formats, the pure
read models (backlog, export, dogma, provider context), error reports,
migrations, and what of the transports is parsing only.  Inbox capture is one
insert.  Within the modelled parts: the recorded-response override and the
cultivar lookup's result (its connection is modelled), the long poll, projection
cursors, the foreign-key lock on tokens, `ToolVisible`'s lists of tools, reads of
the HTTP connector, the contents of definitions.

## Further work

What would extend this development: an abstract command for Fleet (parked, done once,
reported) and an abstract answer per key for Idempotency, each with the invariant
that is there; the order of row and token locks between a move into running and an
escalation by the same actor (`internal/escalations/service.go:110`).  WorkItems has
the first and EventLog the second; a module with both orders would show the cycle
that PostgreSQL breaks by an abort.
