------------------------------- MODULE Worker -------------------------------
(***************************************************************************)
(* The metronome (worker.ScanOnce in a loop) over a work item, the scribe  *)
(* child that defines its checks, the review child of its implementation,  *)
(* and the dispatch jobs of the three.                                     *)
(*                                                                         *)
(* A scan reads the candidates of a pass, then handles each in             *)
(* transactions of its own, while owners and agents go on changing the     *)
(* items: what a pass decides rests on rows that may be stale.  An error   *)
(* that a pass does not expect ends the scan, the later passes with it.    *)
(***************************************************************************)
EXTENDS Convergence

CONSTANTS
    Workers,        \* meristem worker processes
    Launchers,      \* agents that claim jobs
    AgentOwned,     \* TRUE if the item was created for an agent cultivar
    Seeded,         \* cultivars in the registry, of Pass
    Moves,          \* transitions that owners and agents request: id and state
    Readings,       \* signals that agents may report
    Reported,       \* items whose check agents report on
    MaxAttempts,    \* defaultConvergenceBudget.MaxAttempts
    MaxSignals,     \* bound on the signals of an item
    MaxMoves,       \* bound: owners and agents move an item up to this epoch
    MaxEpoch,       \* the highest epoch the worker's moves then lead to
    MaxFaults       \* bound on failed transactions and restarts

Pass == {"scribe", "review", "dispatch", "convergence", "breach"}
Id == {"item", "scribe", "review"}      \* the item and its two children
State == {"captured", "triaged", "planned", "awaiting_approval", "running",
          "blocked", "done", "failed", "canceled"}
Terminal == {"done", "failed", "canceled"}
PreClaim == {"captured", "triaged", "planned"}
\* "expired" is a leased job whose lease has ended, "failed" a canceled one too.
JobState == {"absent", "pending", "leased", "expired", "done", "failed"}
NoJob == <<"item", 0>>

ASSUME WorkerAssumption ==
    /\ AgentOwned \in BOOLEAN
    /\ Seeded \subseteq Pass
    /\ Moves \subseteq Id \X State
    /\ \A s \in Readings : s.pass \in {"pass", "fail", Absent} /\ s.score \in Int
    /\ MaxAttempts \in Nat \ {0}
    /\ {MaxSignals, MaxMoves, MaxEpoch, MaxFaults} \subseteq Nat

VARIABLES
    state, review, checks,  \* columns of work_items
    epoch,      \* the number of the state entered last: state_entered_at
    due,        \* TRUE once the patience budget of the epoch has passed
    ready,      \* TRUE once implementation_ready is recorded on the item
    signals,    \* signals on each item, oldest first
    verdicts,   \* convergence_verdicts of each item, oldest first
    proposals,  \* verdicts on check proposals for the item, up to MaxAttempts
    breached,   \* patience.breached events: id and epoch
    escalated,  \* escalations requested by a breach: id and epoch
    job,        \* job_queue: the job of each dispatch.requested, id and epoch
    claim,      \* the job each launcher believes it holds
    scan,       \* each worker's pass, its candidates left and the one in hand
    recorded,   \* the worker's metadata and transition events, by identity
    closed,     \* history: the verdict on which the worker moved an item to done
    faults

itemVars == <<state, review, checks, epoch, due>>
inputVars == <<ready, signals, proposals>>
factVars == <<breached, escalated, recorded>>
jobVars == <<job, claim>>
vars == <<state, review, checks, epoch, due, ready, signals, verdicts, proposals,
          breached, escalated, recorded, job, claim, scan, closed, faults>>

Epoch == Id \X (0..MaxEpoch)
Row == [id : Id, state : State, epoch : 0..MaxEpoch, blocked : BOOLEAN, due : BOOLEAN]
\* The result of the scribe child's query check, on the checks of its parent.
ParentChecks(defined) ==
    [kind |-> "parent_checks_defined", pass |-> IF defined THEN "pass" ELSE "fail",
     score |-> Unscored]
Signal == Readings \union {ParentChecks(c) : c \in BOOLEAN}
Verdict == [attempt : Nat, digest : Seq(Signal), disposition : Disposition]
NoRow == [id |-> "item", state |-> "captured", epoch |-> 0, blocked |-> FALSE, due |-> FALSE]
NoStep == [verdict |-> NoVerdict, outcome |-> Absent]
Idle == [pass |-> "idle", todo |-> {}, step |-> "next", row |-> NoRow, decision |-> NoStep]

TypeOK ==
    /\ state \in [Id -> State \union {"absent"}]
    /\ review \in [Id -> {"unreviewed", "waved_through", "blocked"}]
    /\ checks \in [Id -> BOOLEAN]
    /\ epoch \in [Id -> 0..MaxEpoch]
    /\ due \in [Id -> BOOLEAN]
    /\ ready \in BOOLEAN
    /\ signals \in [Id -> Seq(Readings)]
    /\ \A i \in Id : \A n \in 1..Len(verdicts[i]) : verdicts[i][n] \in Verdict
    /\ proposals \in 0..MaxAttempts
    /\ breached \subseteq Epoch
    /\ escalated \subseteq Epoch
    /\ job \in [Epoch -> JobState]
    /\ claim \in [Launchers -> Epoch]
    /\ \A w \in Workers :
        /\ scan[w].pass \in Pass \union {"idle"}
        /\ scan[w].todo \subseteq Row
        /\ scan[w].step \in {"next", "verdict", "act", "block", "route"}
        /\ scan[w].row \in Row
    /\ closed \in [Id -> Seq(Signal)]
    /\ faults \in 0..MaxFaults

Init ==
    /\ state = [i \in Id |-> IF i = "item" THEN "captured" ELSE "absent"]
    /\ review = [i \in Id |-> IF i = "item" THEN "unreviewed" ELSE "waved_through"]
    /\ checks = [i \in Id |-> i # "item"]
    /\ epoch = [i \in Id |-> 0]
    /\ due = [i \in Id |-> FALSE]
    /\ ready = FALSE
    /\ signals = [i \in Id |-> <<>>]
    /\ verdicts = [i \in Id |-> <<>>]
    /\ proposals = 0
    /\ breached = {}
    /\ escalated = {}
    /\ job = [e \in Epoch |-> "absent"]
    /\ claim = [l \in Launchers |-> NoJob]
    /\ scan = [w \in Workers |-> Idle]
    /\ recorded = {}
    /\ closed = [i \in Id |-> <<>>]
    /\ faults = 0

\* The item carries its owner's cultivar; the children carry rootstock ones.
Agent(i) == i # "item" \/ AgentOwned

CanTransition(from, to) == from = to \/ from \notin Terminal

\* convergenceChecksRequired: an item without checks leaves captured and
\* triaged only to stop.
ChecksRequired(i, to) ==
    /\ ~checks[i]
    /\ state[i] \in {"captured", "triaged"}
    /\ to \in {"planned", "awaiting_approval", "running", "done"}

\* transitionedProjector: the item enters a state, a new epoch.
Enter(i, to) ==
    /\ state' = [state EXCEPT ![i] = to]
    /\ epoch' = [epoch EXCEPT ![i] = @ + 1]
    /\ due' = [due EXCEPT ![i] = FALSE]

-----------------------------------------------------------------------------
(* Owners, agents and the clock                                            *)

\* Service.Transition by an owner or an agent, under an idempotency key.
Move(i, to) ==
    /\ state[i] # "absent" /\ state[i] # to
    /\ epoch[i] < MaxMoves
    /\ CanTransition(state[i], to)
    /\ ~ChecksRequired(i, to)
    /\ Enter(i, to)
    /\ UNCHANGED <<review, checks, inputVars, verdicts, factVars, jobVars, scan, closed, faults>>

\* Service.UpdateMetadata by an owner: the item is waved through, with checks
\* of the owner's or with those it has.
WaveThrough(i, c) ==
    /\ state[i] # "absent"
    /\ review[i] # "waved_through" \/ checks[i] # c
    /\ checks[i] => c
    /\ review' = [review EXCEPT ![i] = "waved_through"]
    /\ checks' = [checks EXCEPT ![i] = c]
    /\ UNCHANGED <<state, epoch, due, inputVars, verdicts, factVars, jobVars, scan, closed, faults>>

\* A signal on the item's check, or the implementation_ready marker.
Report(i, s) ==
    /\ i \in Reported /\ state[i] # "absent"
    /\ Len(signals[i]) < MaxSignals
    /\ signals' = [signals EXCEPT ![i] = Append(@, s)]
    /\ UNCHANGED <<itemVars, ready, proposals, verdicts, factVars, jobVars, scan,
                   closed, faults>>

MarkReady ==
    /\ ~ready
    /\ ready' = TRUE
    /\ UNCHANGED <<itemVars, signals, proposals, verdicts, factVars, jobVars,
                   scan, closed, faults>>

\* The state that appendTransitioned gives the scribe child: none if it is
\* there or the child is terminal.
ChildEnters(to) ==
    IF state["scribe"] # to /\ CanTransition(state["scribe"], to)
    THEN Enter("scribe", to)
    ELSE UNCHANGED <<state, epoch, due>>

\* ValidateChecksProposal: a list for an item that has its checks is refused,
\* and so is one that is not well formed and classified.
ValidateChecksProposal(defined, wellFormed) ==
    CASE defined -> "checks_already_defined"
      [] ~defined /\ wellFormed -> "valid"
      [] OTHER -> "malformed"

\* ProposeChecks for the item through its scribe child: a valid list defines
\* the checks and closes the child; so does a list for an item that has its
\* checks; after MaxAttempts rejected lists the child waits for a human.
ProposeChecks(wellFormed) ==
    /\ state["scribe"] # "absent" /\ epoch["scribe"] < MaxMoves
    /\ LET validation == ValidateChecksProposal(checks["item"], wellFormed)
           verdict == ChecksProposal(validation = "valid")
           attempt == proposals + 1
       IN  /\ proposals' = IF proposals < MaxAttempts THEN attempt ELSE proposals
           /\ checks' = [checks EXCEPT !["item"] = @ \/ verdict = "accept"]
           /\ CASE validation # "malformed" ->
                     ChildEnters("done") /\ UNCHANGED review
                [] validation = "malformed" /\ attempt >= MaxAttempts ->
                     /\ review' = [review EXCEPT !["scribe"] = "blocked"]
                     /\ ChildEnters("blocked")
                [] OTHER -> UNCHANGED <<review, state, epoch, due>>
    /\ UNCHANGED <<ready, signals, verdicts, factVars, jobVars, scan, closed, faults>>

\* The patience budget of the epoch passes.
BudgetPasses(i) ==
    /\ state[i] \notin Terminal \union {"absent"}
    /\ ~due[i]
    /\ due' = [due EXCEPT ![i] = TRUE]
    /\ UNCHANGED <<state, review, checks, epoch, inputVars, verdicts, factVars,
                   jobVars, scan, closed, faults>>

-----------------------------------------------------------------------------
(* The job queue                                                           *)

\* dispatch.requested: its event id is that of the epoch, so an epoch that was
\* dispatched before keeps the job it has.
Dispatch(e) == job' = [job EXCEPT ![e] = IF @ = "absent" THEN "pending" ELSE @]

\* ClaimNext: a pending job, or one whose lease has ended.
ClaimNext(l, e) ==
    /\ claim[l] = NoJob
    /\ job[e] \in {"pending", "expired"}
    /\ job' = [job EXCEPT ![e] = "leased"]
    /\ claim' = [claim EXCEPT ![l] = e]
    /\ UNCHANGED <<itemVars, inputVars, verdicts, factVars, scan, closed, faults>>

\* The lease ends while the launcher goes on working.
LeaseEnds(e) ==
    /\ job[e] = "leased"
    /\ faults < MaxFaults
    /\ faults' = faults + 1
    /\ job' = [job EXCEPT ![e] = "expired"]
    /\ UNCHANGED <<itemVars, inputVars, verdicts, factVars, claim, scan, closed>>

\* Mutant of MarkTerminal: WHERE id = $1 only.
MarkAnyTime(l, to) ==
    /\ claim[l] # NoJob
    /\ job' = [job EXCEPT ![claim[l]] = to]
    /\ claim' = [claim EXCEPT ![l] = NoJob]
    /\ UNCHANGED <<itemVars, inputVars, verdicts, factVars, scan, closed, faults>>

\* MarkDone, MarkFailed and MarkCanceled: whoever holds the lease, or held it,
\* ends a job that is leased; on any other the update finds no row.
MarkTerminal(l, to) ==
    /\ claim[l] # NoJob
    /\ job' = [job EXCEPT ![claim[l]] = IF @ \in {"leased", "expired"} THEN to ELSE @]
    /\ claim' = [claim EXCEPT ![l] = NoJob]
    /\ UNCHANGED <<itemVars, inputVars, verdicts, factVars, scan, closed, faults>>

-----------------------------------------------------------------------------
(* The passes of ScanOnce                                                  *)

RowOf(i) == [id |-> i, state |-> state[i], epoch |-> epoch[i],
             blocked |-> review[i] = "blocked", due |-> due[i]]

\* Mutant of breachCandidates: the rows that are not terminal, missing ones too.
notTerminalCandidates(i) == state[i] \notin Terminal

\* The queries of the passes.  The scribe and the review pass drop what has its
\* child, and stand down without a cultivar.
scribeCandidates(i) ==
    /\ state[i] \in {"captured", "triaged"} /\ review[i] # "blocked" /\ ~checks[i]
    /\ "scribe" \in Seeded /\ state["scribe"] = "absent"
reviewCandidates(i) ==
    /\ state[i] = "done" /\ review[i] # "blocked" /\ i = "item" /\ ready
    /\ "review" \in Seeded /\ state["review"] = "absent"
dispatchCandidates(i) == state[i] \in PreClaim /\ review[i] # "blocked" /\ checks[i]
convergenceCandidates(i) == state[i] = "running" /\ checks[i]
breachCandidates(i) == state[i] \notin Terminal \union {"absent"} /\ due[i]

Selects(pass, i) ==
    \/ pass = "scribe" /\ scribeCandidates(i)
    \/ pass = "review" /\ reviewCandidates(i)
    \/ pass = "dispatch" /\ dispatchCandidates(i)
    \/ pass = "convergence" /\ convergenceCandidates(i)
    \/ pass = "breach" /\ breachCandidates(i)

Candidates(pass) == {RowOf(i) : i \in {j \in Id : Selects(pass, j)}}

After(pass) ==
    CASE pass = "idle" -> "scribe"
      [] pass = "scribe" -> "review"
      [] pass = "review" -> "dispatch"
      [] pass = "dispatch" -> "convergence"
      [] pass = "convergence" -> "breach"
      [] pass = "breach" -> "idle"

At(w, pass, step) == scan[w].pass = pass /\ scan[w].step = step
Go(w, step) == scan' = [scan EXCEPT ![w].step = step]
Take(w, r, step) ==
    scan' = [scan EXCEPT ![w].todo = @ \ {r}, ![w].row = r, ![w].step = step]
Drop(w) == scan' = [scan EXCEPT ![w].row = NoRow, ![w].step = "next", ![w].decision = NoStep]
Skip(w, r) == scan' = [scan EXCEPT ![w].todo = @ \ {r}]
\* An error that the pass does not expect: the loop logs it and starts over.
EndScan(w) == scan' = [scan EXCEPT ![w] = Idle]

\* The pass has no candidate left: the query of the next one.
NextPass(w) ==
    /\ scan[w].step = "next" /\ scan[w].todo = {}
    /\ LET pass == After(scan[w].pass)
       IN  scan' = [scan EXCEPT ![w] =
                      IF pass = "idle" THEN Idle
                      ELSE [Idle EXCEPT !.pass = pass, !.todo = Candidates(pass)]]
    /\ UNCHANGED <<itemVars, inputVars, verdicts, factVars, jobVars, closed, faults>>

\* SpawnChildWithID: a no-op if the child is there.
SpawnChild(child) ==
    /\ state' = [state EXCEPT ![child] = IF @ = "absent" THEN "triaged" ELSE @]
    /\ UNCHANGED <<review, checks, epoch, due, inputVars, verdicts, factVars, jobVars, closed,
                   faults>>

ScanScribes(w, r) ==
    /\ At(w, "scribe", "next") /\ r \in scan[w].todo
    /\ SpawnChild("scribe")
    /\ Skip(w, r)

ScanReviews(w, r) ==
    /\ At(w, "review", "next") /\ r \in scan[w].todo
    /\ SpawnChild("review")
    /\ Skip(w, r)

\* scanDispatch: an item without a cultivar takes the default one; the pass
\* ends, with what it has left, if there is none.
ScanDispatch(w, r) ==
    /\ At(w, "dispatch", "next") /\ r \in scan[w].todo
    /\ \/ /\ Agent(r.id) \/ "dispatch" \in Seeded
          /\ Dispatch(<<r.id, r.epoch>>)
          /\ Skip(w, r)
       \/ /\ ~Agent(r.id) /\ "dispatch" \notin Seeded
          /\ scan' = [scan EXCEPT ![w].todo = {}]
          /\ UNCHANGED job
    /\ UNCHANGED <<itemVars, inputVars, verdicts, factVars, claim, closed, faults>>

\* convergenceSignalsForItem: what was reported, then the query checks.
SignalsFor(i) ==
    signals[i] \o (IF i = "scribe" THEN <<ParentChecks(checks["item"])>> ELSE <<>>)
Required(i) == {IF i = "scribe" THEN "parent_checks_defined" ELSE "check"}

\* latestConvergenceVerdict: the highest attempt, the last one recorded.
Latest(i) ==
    LET v == verdicts[i]
        best == {n \in 1..Len(v) : \A m \in 1..Len(v) :
                   v[m].attempt < v[n].attempt \/ (v[m].attempt = v[n].attempt /\ m <= n)}
    IN  IF v = <<>> THEN NoVerdict ELSE v[CHOOSE n \in best : TRUE]

\* convergence.Run
Run(i) == [attempt |-> Latest(i).attempt + 1, digest |-> SignalsFor(i),
           disposition |-> AllPassChecklist(Required(i), SignalsFor(i))]

\* scanConvergence: the item's last verdict and signals are read and reduced.
Reduce(w, r) ==
    /\ At(w, "convergence", "next") /\ r \in scan[w].todo
    /\ LET decided == decideConvergenceStep(Latest(r.id), Run(r.id), MaxAttempts)
           verdict == IF decided.append THEN Run(r.id) ELSE Latest(r.id)
       IN  IF decided.outcome = "stale" THEN Skip(w, r)
           ELSE scan' = [scan EXCEPT ![w].todo = @ \ {r}, ![w].row = r,
                           ![w].step = IF decided.append THEN "verdict" ELSE "act",
                           ![w].decision = [verdict |-> verdict, outcome |-> decided.outcome]]
    /\ UNCHANGED <<itemVars, inputVars, verdicts, factVars, jobVars, closed, faults>>

\* Mutant of EmitVerdict: a verdict is recorded only if the item goes on.
EmitRejected(w) ==
    /\ At(w, "convergence", "verdict")
    /\ LET i == scan[w].row.id
           v == scan[w].decision.verdict
       IN  verdicts' = [verdicts EXCEPT ![i] = IF v.disposition = "accept" THEN @ ELSE Append(@, v)]
    /\ IF scan[w].decision.outcome = "retry" THEN Drop(w) ELSE Go(w, "act")
    /\ UNCHANGED <<itemVars, inputVars, factVars, jobVars, closed, faults>>

\* emitConvergenceVerdict: a verdict on the same attempt and inputs collapses.
EmitVerdict(w) ==
    /\ At(w, "convergence", "verdict")
    /\ LET i == scan[w].row.id
           v == scan[w].decision.verdict
       IN  verdicts' = [verdicts EXCEPT ![i] =
                          IF \E n \in 1..Len(@) : @[n] = v THEN @ ELSE Append(@, v)]
    /\ IF scan[w].decision.outcome = "retry" THEN Drop(w) ELSE Go(w, "act")
    /\ UNCHANGED <<itemVars, inputVars, factVars, jobVars, closed, faults>>

\* Mutant of WorkerMoves: the current state is not looked at again.
WorkerMovesStale(w, to) ==
    LET i == scan[w].row.id
    IN  /\ Enter(i, to)
        /\ Drop(w)
        /\ UNCHANGED recorded

\* Service.Transition by the worker, which has no idempotency key: a move it
\* has recorded before, and a move out of a terminal state, is an error.
WorkerMoves(w, to) ==
    LET i == scan[w].row.id
        event == <<"move", i, state[i], to, scan[w].decision.verdict.attempt>>
    IN  IF CanTransition(state[i], to) /\ ~ChecksRequired(i, to) /\ event \notin recorded
        THEN /\ Enter(i, to)
             /\ recorded' = recorded \union {event}
             /\ Drop(w)
        ELSE EndScan(w) /\ UNCHANGED <<state, epoch, due, recorded>>

Accept(w) ==
    /\ At(w, "convergence", "act") /\ scan[w].decision.outcome = "accept"
    /\ WorkerMoves(w, "done")
    /\ closed' = IF state' = state THEN closed
                 ELSE [closed EXCEPT ![scan[w].row.id] = scan[w].decision.verdict.digest]
    /\ UNCHANGED <<review, checks, inputVars, verdicts, breached, escalated, jobVars, faults>>

\* setBlockedForConvergence, then the transition to blocked.
SetBlocked(w) ==
    /\ At(w, "convergence", "act") /\ scan[w].decision.outcome = "escalate"
    /\ LET i == scan[w].row.id
           event == <<"review", i, review[i], "blocked", 0>>
       IN  IF event \in recorded
           THEN EndScan(w) /\ UNCHANGED <<review, recorded>>
           ELSE /\ review' = [review EXCEPT ![i] = "blocked"]
                /\ recorded' = recorded \union {event}
                /\ Go(w, "block")
    /\ UNCHANGED <<state, checks, epoch, due, inputVars, verdicts, breached, escalated, jobVars,
                   closed, faults>>

Block(w) ==
    /\ At(w, "convergence", "block")
    /\ WorkerMoves(w, "blocked")
    /\ UNCHANGED <<review, checks, inputVars, verdicts, breached, escalated, jobVars, closed,
                   faults>>

\* Mutant of EmitBreach: only a fresh breach is routed.
EmitFreshBreach(w, r) ==
    /\ At(w, "breach", "next") /\ r \in scan[w].todo
    /\ breached' = breached \union {<<r.id, r.epoch>>}
    /\ IF r.blocked \/ <<r.id, r.epoch>> \in breached THEN Skip(w, r) ELSE Take(w, r, "route")
    /\ UNCHANGED <<itemVars, inputVars, verdicts, escalated, recorded, jobVars, closed, faults>>

\* emitBreach; an item that waited for a human when it was read needs no more.
EmitBreach(w, r) ==
    /\ At(w, "breach", "next") /\ r \in scan[w].todo
    /\ breached' = breached \union {<<r.id, r.epoch>>}
    /\ IF r.blocked THEN Skip(w, r) ELSE Take(w, r, "route")
    /\ UNCHANGED <<itemVars, inputVars, verdicts, escalated, recorded, jobVars, closed, faults>>

\* shouldRoutePatienceBreachToDispatch
ToDispatch(r) == r.state \in PreClaim /\ Agent(r.id)

DispatchBreach(w) ==
    /\ At(w, "breach", "route") /\ ToDispatch(scan[w].row)
    /\ Dispatch(<<scan[w].row.id, scan[w].row.epoch>>)
    /\ Drop(w)
    /\ UNCHANGED <<itemVars, inputVars, verdicts, factVars, claim, closed, faults>>

\* escalateBreach: RequestInTx sets the item's review and state, whatever state
\* it is in by now, once for each epoch.  Its metadata event collapses on an
\* equal one.
EscalateBreach(w) ==
    /\ At(w, "breach", "route") /\ ~ToDispatch(scan[w].row)
    /\ LET i == scan[w].row.id
           e == <<i, scan[w].row.epoch>>
           event == <<"review", i, review[i], "blocked", 0>>
       IN  IF e \in escalated
           THEN UNCHANGED <<state, review, epoch, due, escalated, recorded>>
           ELSE /\ escalated' = escalated \union {e}
                /\ recorded' = recorded \union {event}
                /\ review' = [review EXCEPT ![i] = IF event \in recorded THEN @ ELSE "blocked"]
                /\ IF state[i] # "blocked" THEN Enter(i, "blocked")
                   ELSE UNCHANGED <<state, epoch, due>>
    /\ Drop(w)
    /\ UNCHANGED <<checks, inputVars, verdicts, breached, jobVars, closed, faults>>

\* A transaction fails, or the worker restarts, between two steps of a scan.
Fault(w) ==
    /\ scan[w].pass # "idle" /\ faults < MaxFaults
    /\ faults' = faults + 1
    /\ EndScan(w)
    /\ UNCHANGED <<itemVars, inputVars, verdicts, factVars, jobVars, closed>>

-----------------------------------------------------------------------------
WorkerStep(w) ==
    \/ NextPass(w)
    \/ \E r \in scan[w].todo : \/ ScanScribes(w, r) \/ ScanReviews(w, r) \/ ScanDispatch(w, r)
                               \/ Reduce(w, r) \/ EmitBreach(w, r)
    \/ EmitVerdict(w) \/ Accept(w) \/ SetBlocked(w) \/ Block(w)
    \/ DispatchBreach(w) \/ EscalateBreach(w)

Next ==
    \/ \E m \in Moves : Move(m[1], m[2])
    \/ \E i \in Id, c \in BOOLEAN : WaveThrough(i, c)
    \/ \E i \in Id, s \in Readings : Report(i, s)
    \/ MarkReady
    \/ \E wellFormed \in BOOLEAN : ProposeChecks(wellFormed)
    \/ \E i \in Id : BudgetPasses(i)
    \/ \E l \in Launchers, e \in Epoch : ClaimNext(l, e)
    \/ \E e \in Epoch : LeaseEnds(e)
    \/ \E l \in Launchers, to \in {"done", "failed"} : MarkTerminal(l, to)
    \/ \E w \in Workers : WorkerStep(w) \/ Fault(w)

\* runWorkerLoop scans again after every tick, and a step of a scan ends.
Fairness == \A w \in Workers : WF_vars(WorkerStep(w))
Spec == Init /\ [][Next]_vars /\ Fairness

-----------------------------------------------------------------------------
(* Properties                                                              *)

\* The worker moves an item to done only on a recorded verdict that accepts,
\* over signals in which every check passed and none failed, whatever arrived,
\* crashed or ran beside it since (scanConvergence).
ClosedIsBacked ==
    \A i \in Id : closed[i] # <<>> =>
        /\ \E n \in 1..Len(verdicts[i]) :
              verdicts[i][n].digest = closed[i] /\ verdicts[i][n].disposition = "accept"
        /\ \A k \in Required(i) : Satisfied(k, closed[i])

\* A terminal state is left for one reason: a breach of an earlier epoch,
\* observed before the item ended, is escalated after it (escalateBreach).
TerminalLeftByLateBreachOnly ==
    [][\A i \in Id : state[i] \in Terminal /\ state'[i] # state[i] =>
          /\ state'[i] = "blocked"
          /\ \E e \in 0..epoch[i] - 1 : <<i, e>> \in escalated' \ escalated]_vars

\* A job that ended keeps its outcome, though a launcher whose lease ended
\* reports late (jobqueue.markTerminal).
JobOutcomeIsFinal ==
    [][\A e \in Epoch : job[e] \in {"done", "failed"} => job'[e] = job[e]]_vars

\* Over the signals of every item, the checklist accepts exactly what it
\* promises, and votes and scores do not depend on the order (reducers.go).
ReducersAsPromised ==
    \A i \in Id :
        /\ ChecklistAsPromised(Required(i), SignalsFor(i))
        /\ OrderFree(Absent, 1, signals[i])

\* The scan fails on this item, before and after every other step of it: its
\* last verdict is resumed with an event that is on record.
Repeats(i) ==
    LET last == Latest(i)
        outcome == NextOutcome(last.disposition, last.attempt, MaxAttempts)
    IN  /\ state[i] = "running" /\ checks[i] /\ last # NoVerdict
        /\ last.digest = SignalsFor(i)
        /\ \/ /\ outcome = "escalate"
             /\ {<<"review", i, review[i], "blocked", 0>>,
                 <<"move", i, "running", "blocked", last.attempt>>} \intersect recorded # {}
          \/ /\ outcome = "accept"
             /\ <<"move", i, "running", "done", last.attempt>> \in recorded

\* ListPatienceAttention: the breaches of epochs that still stand.
Attention == {e \in breached : epoch[e[1]] = e[2]}

Converged(i) ==
    /\ state[i] = "running" /\ checks[i]
    /\ \A k \in Required(i) : Satisfied(k, SignalsFor(i))

\* An item in running whose checks pass leaves it, though the worker crashes
\* between the verdict and the move, unless some item makes every scan fail.
PassingItemCloses ==
    Converged("item") ~> (~Converged("item") \/ \E j \in Id : Repeats(j))

\* What a breach promises: the epoch ends, or the breach is listed and has
\* gone to a launcher or to a human.
Routed(i) ==
    /\ <<i, epoch[i]>> \in Attention
    /\ \/ review[i] = "blocked"
       \/ <<i, epoch[i]>> \in escalated
       \/ job[<<i, epoch[i]>>] # "absent"

\* Every item whose patience budget has passed is routed or moves on, unless
\* some item makes every scan fail (ScanOnce, the breach pass).
BreachIsRouted ==
    due["item"] ~> (~due["item"] \/ Routed("item") \/ \E j \in Id : Repeats(j))

\* "Each emitted fact lands in its own transaction so a per-row failure does
\* not abort the whole pass": every breach is routed, whatever other items do.
EveryBreachIsRouted ==
    due["item"] ~> (~due["item"] \/ Routed("item"))

-----------------------------------------------------------------------------
(* The inductive invariant behind ClosedIsBacked and                       *)
(* TerminalLeftByLateBreachOnly.  It holds of any number of epochs.        *)

AnyRow == [id : Id, state : State \union {"absent"}, epoch : Nat, blocked : BOOLEAN, due : BOOLEAN]
Outcome == {Absent, "accept", "escalate", "retry", "stale"}
ScanState == [pass : Pass \union {"idle"}, todo : SUBSET AnyRow,
              step : {"next", "verdict", "act", "block", "route"}, row : AnyRow,
              decision : [verdict : Verdict \union {NoVerdict}, outcome : Outcome]]

ShapesOK ==
    /\ state \in [Id -> State \union {"absent"}]
    /\ checks \in [Id -> BOOLEAN]
    /\ epoch \in [Id -> Nat]
    /\ due \in [Id -> BOOLEAN]
    /\ signals \in [Id -> Seq(Readings)]
    /\ verdicts \in [Id -> Seq(Verdict)]
    /\ job \in [Epoch -> JobState]
    /\ scan \in [Workers -> ScanState]
    /\ closed \in [Id -> Seq(Signal)]

\* A verdict that accepts does so on signals that satisfy every check.
Backed(i, v) == v.disposition = "accept" => \A k \in Required(i) : Satisfied(k, v.digest)
OnRecord(i, v) == \E n \in 1..Len(verdicts[i]) : verdicts[i][n] = v
VerdictsOK == \A i \in Id : \A n \in 1..Len(verdicts[i]) : Backed(i, verdicts[i][n])

\* What a worker is about to act on is what it reduced, and is on record by then.
Deciding(w) == scan[w].pass = "convergence" /\ scan[w].step \in {"verdict", "act"}
DecisionsOK ==
    \A w \in Workers : Deciding(w) =>
        LET i == scan[w].row.id
            v == scan[w].decision.verdict
        IN  /\ v \in Verdict /\ Backed(i, v)
            /\ scan[w].decision.outcome = "accept" => v.disposition = "accept"
            /\ scan[w].step = "act" => OnRecord(i, v)

\* The epoch that a row of the breach pass was read in, or a later one, stands, and
\* a later one if the item has ended since.
Observed(r) == r.epoch <= epoch[r.id] /\ (state[r.id] \in Terminal => r.epoch < epoch[r.id])
BreachesOK ==
    \A w \in Workers : scan[w].pass = "breach" =>
        /\ \A r \in scan[w].todo : Observed(r)
        /\ scan[w].step = "route" => Observed(scan[w].row)

WorkerInv == ShapesOK /\ VerdictsOK /\ DecisionsOK /\ ClosedIsBacked /\ BreachesOK

\* What TypeOK needs besides: a row that a worker has read, a breach and an escalation
\* name an epoch that was entered.  So while the items stay within MaxEpoch, a bound of
\* the instance, whatever is dispatched finds its job in the queue.
ColumnsOK ==
    /\ review \in [Id -> {"unreviewed", "waved_through", "blocked"}]
    /\ ready \in BOOLEAN
    /\ proposals \in 0..MaxAttempts
    /\ claim \in [Launchers -> Epoch]
    /\ faults \in 0..MaxFaults
Rows(w) == scan[w].todo \union {scan[w].row}
RowsEntered ==
    \A w \in Workers : \A r \in Rows(w) : r.state \in State /\ r.epoch <= epoch[r.id]
FactsEntered ==
    \A e \in breached \union escalated : e \in Id \X Nat /\ e[2] <= epoch[e[1]]
EntryInv == ColumnsOK /\ RowsEntered /\ FactsEntered

WithinEpochs == \A i \in Id : epoch[i] <= MaxEpoch
=============================================================================
