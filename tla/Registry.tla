------------------------------ MODULE Registry ------------------------------
(***************************************************************************)
(* Named, versioned definitions: tropisms and cultivars (registry.Service), *)
(* feed projections (projectiondefs.Service), the seed that plants the      *)
(* first of them, and the gate through which a worker may add a cultivar    *)
(* (cultivaractivation.Service.Activate).                                   *)
(*                                                                         *)
(* A definition is an event of its name and a row that shows the newest.    *)
(* The event is identified by what it defines, so that the same definition  *)
(* is one event.  A writer reads the row FOR UPDATE, which locks nothing    *)
(* while the row is not there; the upsert of the projector waits for any    *)
(* other writer of the row.  The events of a name are kept in the order of  *)
(* their seq, those of open transactions with the writer that owns them.    *)
(***************************************************************************)
EXTENDS Integers, Sequences

CONSTANTS
    Writers,        \* concurrent requests
    Tropisms,       \* names of tropisms
    Cultivars,      \* names of cultivars
    Projections,    \* names of feed projections
    Definitions,    \* the definitions that are asked for
    Malformed,      \* the contents of a definition that does not normalise
    SeedOrder,      \* the definitions of the seed
    Tokens,         \* who may review a proposal
    Activations,    \* idempotency keys of activations
    Proposer,       \* the token that makes each of them
    SetReviews,     \* review statuses that a reviewer sets
    Direct,         \* a request of a token that holds registry.write
    Seeding,        \* a request of the seed command
    Nobody,         \* no writer, no token
    MaxRequests,    \* bound: requests beside those of the seed
    MaxSeeds,       \* bound: runs of the seed command
    MaxReviews      \* bound: updates of the review status

Names == Tropisms \union Cultivars \union Projections
Reviews == {"waved_through", "approved", "blocked"}
Decisions == {"grant", "deny", "escalate"}

ASSUME RegistryAssumption ==
    /\ Cultivars \intersect (Tropisms \union Projections) = {}
    /\ \A d \in Definitions : /\ d.name \in Names /\ d.version \in Nat /\ d.rootstock \in BOOLEAN
                              /\ d.name \in Tropisms => ~d.rootstock
                              /\ d.name \in Cultivars => d.tropism.name \in Tropisms
    /\ SeedOrder \in Seq(Definitions) \ {<<>>}
    /\ Proposer \in [Activations -> Tokens] /\ SetReviews \subseteq Reviews
    /\ Nobody \notin Writers \union Tokens
    /\ {Direct, Seeding} \intersect Activations = {} /\ Direct # Seeding

VARIABLES
    log,        \* events of each name by seq: what they define, and the open transaction
    row,        \* tables tropisms, cultivars and projections
    lock,       \* the writer that holds the row of each name
    writer,     \* what each request is doing
    seed,       \* the next definition of the seed command, its runs, and whether one finished
    review,     \* human_review_status of the proposal's work item
    approver,   \* actor of its newest approving event, by occurred_at
    approvers,  \* actors of all its approving events
    requested,  \* cultivar_activation.requested
    outcomes,   \* cultivar_activation.granted, .denied and .escalated
    requests,   \* requests so far, those of the seed aside
    reviews     \* updates of the review status so far

proposal == <<review, approver, approvers, reviews>>
activation == <<requested, outcomes>>
vars == <<log, row, lock, writer, seed, proposal, activation, requests>>

NoRow == [name |-> Nobody, version |-> 0, rootstock |-> FALSE]
Idle == [phase |-> "idle", def |-> NoRow, via |-> Direct, fresh |-> FALSE,
         decision |-> "grant"]

Init ==
    /\ log = [n \in Names |-> <<>>]
    /\ row = [n \in Names |-> NoRow]
    /\ lock = [n \in Names |-> Nobody]
    /\ writer = [w \in Writers |-> Idle]
    /\ seed = [next |-> 0, done |-> FALSE, runs |-> 0]
    /\ review = "waved_through" /\ approver = Nobody /\ approvers = {} /\ reviews = 0
    /\ requested = {} /\ outcomes = [a \in Activations |-> {}]
    /\ requests = 0

At(w, phase) == writer[w].phase = phase
Go(w, phase) == writer' = [writer EXCEPT ![w].phase = phase]

\* Where a list of events, and the log of a name, has the committed ones.
Visible(events) == {i \in DOMAIN events : events[i].by = Nobody}
Committed(n) == Visible(log[n])
definitionEventExists(d) == \E i \in Committed(d.name) : log[d.name][i].def = d

-----------------------------------------------------------------------------
(* What the services admit                                                 *)

normalizeTropismInput(d) == d.version >= 1 /\ d.body # Malformed
normalizeCultivarInput(d) == d.version >= 1 /\ d.body # Malformed
normalizeInput(d) == d.version >= 1 /\ d.body # Malformed

\* Any version that was ever defined will do, not just the current one.
tropismVersionExists(t) == \E i \in Committed(t.name) : log[t.name][i].def.version = t.version

\* Mutant: a replay must be of the current version.
DefineTropismCurrent(d) ==
    LET current == row[d.name] IN
    /\ normalizeTropismInput(d)
    /\ IF current = NoRow THEN d.version = 1
       ELSE d = current \/ d.version = current.version + 1

DefineTropism(d) ==
    LET current == row[d.name] IN
    /\ normalizeTropismInput(d)
    /\ IF current = NoRow THEN d.version = 1
       ELSE d = current \/ d.version = current.version + 1 \/ definitionEventExists(d)

DefineCultivarInTx(d) ==
    LET current == row[d.name] IN
    /\ normalizeCultivarInput(d)
    /\ tropismVersionExists(d.tropism)
    /\ IF current = NoRow THEN d.version = 1
       ELSE \/ d = current \/ definitionEventExists(d)
            \/ ~current.rootstock /\ d.version = current.version + 1

DefineProjection(d) ==
    LET current == row[d.name] IN
    /\ normalizeInput(d)
    /\ IF current = NoRow THEN d.version = 1
       ELSE \/ d = current \/ definitionEventExists(d)
            \/ ~current.rootstock /\ d.version = current.version + 1

Admitted(d) ==
    \/ d.name \in Tropisms /\ DefineTropism(d)
    \/ d.name \in Cultivars /\ DefineCultivarInTx(d)
    \/ d.name \in Projections /\ DefineProjection(d)

-----------------------------------------------------------------------------
(* A definition, statement by statement                                    *)

Start(w, d, via, phase) ==
    /\ At(w, "idle")
    /\ via = Seeding \/ requests < MaxRequests
    /\ requests' = IF via = Seeding THEN requests ELSE requests + 1
    /\ writer' = [writer EXCEPT ![w] = [Idle EXCEPT !.phase = phase, !.def = d, !.via = via]]

\* POST /v1/registry/tropisms, .../cultivars, /v1/projections and their tools.
Request(w, d) ==
    /\ Start(w, d, Direct, "read")
    /\ UNCHANGED <<log, row, lock, seed, proposal, activation>>

\* A list without its i-th element.
Without(s, i) == [j \in 1..Len(s) - 1 |-> IF j < i THEN s[j] ELSE s[j + 1]]

\* The end of a transaction that leaves nothing behind, not even the one event it
\* may have inserted.
Undo(w) ==
    /\ writer' = [writer EXCEPT ![w] = Idle]
    /\ lock' = [n \in Names |-> IF lock[n] = w THEN Nobody ELSE lock[n]]
    /\ log' = [n \in Names |->
                  IF \E i \in DOMAIN log[n] : log[n][i].by = w
                  THEN Without(log[n], CHOOSE i \in DOMAIN log[n] : log[n][i].by = w) ELSE log[n]]
    /\ seed' = IF writer[w].via = Seeding THEN [seed EXCEPT !.next = 0] ELSE seed

\* Mutant of ForUpdate: a plain SELECT.
PlainRead(w, n) == UNCHANGED lock

\* SELECT ... FOR UPDATE: there may be no row to wait for and to lock.
ForUpdate(w, n) ==
    \/ row[n] = NoRow /\ UNCHANGED lock
    \/ row[n] # NoRow /\ lock[n] = Nobody /\ lock' = [lock EXCEPT ![n] = w]

\* The reads and checks; what another transaction does to the row waits from
\* here on if there is one.
Admit(w) ==
    /\ At(w, "read")
    /\ Admitted(writer[w].def)
    /\ ForUpdate(w, writer[w].def.name)
    /\ Go(w, "insert")
    /\ UNCHANGED <<log, row, seed, proposal, activation, requests>>

Refuse(w) ==
    /\ At(w, "read") /\ ~Admitted(writer[w].def)
    /\ row[writer[w].def.name] # NoRow => lock[writer[w].def.name] = Nobody
    /\ Undo(w)
    /\ UNCHANGED <<row, proposal, activation, requests>>

\* Writer.Append: an event with this id is on record, or it is inserted; while another
\* transaction has inserted it, its end is awaited.
AppendEvent(w) ==
    LET d == writer[w].def IN
    /\ At(w, "insert")
    /\ \/ /\ definitionEventExists(d)
          /\ Go(w, "commit") /\ UNCHANGED log
       \/ /\ ~\E i \in DOMAIN log[d.name] : log[d.name][i].def = d
          /\ log' = [log EXCEPT ![d.name] = Append(@, [def |-> d, by |-> w])]
          /\ Go(w, "project")
    /\ UNCHANGED <<row, lock, seed, proposal, activation, requests>>

\* tropismDefinedProjector, cultivarDefinedProjector, definedProjector: INSERT
\* ... ON CONFLICT DO UPDATE, behind any other writer of the row.
Apply(w) ==
    LET n == writer[w].def.name IN
    /\ At(w, "project") /\ lock[n] \in {Nobody, w}
    /\ lock' = [lock EXCEPT ![n] = w]
    /\ writer' = [writer EXCEPT ![w].phase = "commit", ![w].fresh = TRUE]
    /\ UNCHANGED <<log, row, seed, proposal, activation, requests>>

\* The rows and events of the transaction are there for all; its locks are free.
Publish(w) ==
    LET d == writer[w].def IN
    /\ row' = IF writer[w].fresh THEN [row EXCEPT ![d.name] = d] ELSE row
    /\ log' = [n \in Names |-> [i \in DOMAIN log[n] |->
                  IF log[n][i].by = w THEN [log[n][i] EXCEPT !.by = Nobody] ELSE log[n][i]]]
    /\ lock' = [n \in Names |-> IF lock[n] = w THEN Nobody ELSE lock[n]]
    /\ writer' = [writer EXCEPT ![w] = Idle]

\* DefineTropism, DefineCultivar and Define commit.
Commit(w) ==
    /\ At(w, "commit") /\ writer[w].via \in {Direct, Seeding}
    /\ Publish(w)
    /\ seed' = CASE writer[w].via = Direct -> seed
                 [] writer[w].via # Direct /\ seed.next = Len(SeedOrder) ->
                        [seed EXCEPT !.next = 0, !.done = TRUE]
                 [] OTHER -> [seed EXCEPT !.next = @ + 1]
    /\ UNCHANGED <<proposal, activation, requests>>

\* The request is cut off, or the server stops, before the commit.  (Up to its
\* reads a request has changed nothing that another could see.)
Abort(w) ==
    /\ writer[w].phase \in {"insert", "project", "commit"}
    /\ Undo(w)
    /\ UNCHANGED <<row, proposal, activation, requests>>

-----------------------------------------------------------------------------
(* The seed: one definition after the other, up to the first that fails     *)

\* meristem seed
Seed ==
    /\ seed.next = 0 /\ seed.runs < MaxSeeds
    /\ seed' = [seed EXCEPT !.next = 1, !.runs = @ + 1]
    /\ UNCHANGED <<log, row, lock, writer, proposal, activation, requests>>

SeedNext(w) ==
    /\ seed.next > 0 /\ \A v \in Writers : At(v, "idle") \/ writer[v].via # Seeding
    /\ Start(w, SeedOrder[seed.next], Seeding, "read")
    /\ UNCHANGED <<log, row, lock, seed, proposal, activation>>

-----------------------------------------------------------------------------
(* Activation                                                              *)

\* POST /v1/work-items/{id}/cultivar-activations; the idempotency middleware
\* lets one request of a key through at a time, and it may run again after a
\* crash that lost its answer.
Activate(w, a, d) ==
    /\ d.name \in Cultivars
    /\ \A v \in Writers : At(v, "idle") \/ writer[v].via # a
    /\ Start(w, d, a, "evaluate")
    /\ UNCHANGED <<log, row, lock, seed, proposal, activation>>

\* EvaluateInTx: the grant reducer (module Grants) grants a worker nothing that
\* is not approved.  A rootstock proposal is denied whatever it says.
Evaluate(w, decision) ==
    LET decided == IF writer[w].def.rootstock THEN "deny" ELSE decision IN
    /\ At(w, "evaluate")
    /\ decision = "grant" => review = "approved"
    /\ writer' = [writer EXCEPT ![w].phase = IF decided = "grant" THEN "separate" ELSE "commit",
                                ![w].decision = decided]
    /\ UNCHANGED <<log, row, lock, seed, proposal, activation, requests>>

\* Mutant: any approving event will do.
approvedByAnyone(a) == approver # Nobody

\* The newest approving event is of another token than the proposer.
approvalSeparated(a) == approver # Nobody /\ approver # Proposer[a]

Separate(w) ==
    /\ At(w, "separate")
    /\ IF approvalSeparated(writer[w].via)
       THEN Go(w, "read")
       ELSE writer' = [writer EXCEPT ![w].phase = "commit", ![w].decision = "escalate"]
    /\ UNCHANGED <<log, row, lock, seed, proposal, activation, requests>>

\* The request and its outcome, beside the definition if there is one.  The
\* outcome of a grant names the row as it is now.  An escalation blocks the work
\* item, unless it repeats one.
CommitActivation(w) ==
    LET a == writer[w].via
        decision == writer[w].decision
        named == IF decision # "grant" THEN NoRow
                 ELSE IF writer[w].fresh THEN writer[w].def ELSE row[writer[w].def.name]
    IN  /\ At(w, "commit") /\ a \in Activations
        /\ requested' = requested \union {a}
        /\ outcomes' = [outcomes EXCEPT ![a] = @ \union
              {[decision |-> decision, def |-> writer[w].def, named |-> named]}]
        /\ IF decision = "escalate" THEN review' \in {review, "blocked"} ELSE UNCHANGED review
        /\ Publish(w)
        /\ UNCHANGED <<seed, approver, approvers, reviews, requests>>

\* work_item.metadata_updated.  occurred_at is the start of the transaction, so
\* an update that waited for the row may be older than the newest one.
Review(t, status) ==
    /\ reviews < MaxReviews /\ reviews' = reviews + 1
    /\ review' = status
    /\ IF status = "approved"
       THEN approvers' = approvers \union {t} /\ approver' \in {t} \union (approvers \intersect {approver})
       ELSE UNCHANGED <<approver, approvers>>
    /\ UNCHANGED <<log, row, lock, writer, seed, activation, requests>>

-----------------------------------------------------------------------------
Next ==
    \/ \E w \in Writers, d \in Definitions : Request(w, d)
    \/ \E w \in Writers : \/ Admit(w) \/ Refuse(w) \/ AppendEvent(w) \/ Apply(w) \/ Commit(w) \/ Abort(w)
                          \/ SeedNext(w) \/ Separate(w) \/ CommitActivation(w)
                          \/ \E decision \in Decisions : Evaluate(w, decision)
    \/ \E w \in Writers, a \in Activations, d \in Definitions : Activate(w, a, d)
    \/ Seed
    \/ \E t \in Tokens, status \in SetReviews : Review(t, status)

Spec == Init /\ [][Next]_vars

-----------------------------------------------------------------------------
(* Properties                                                              *)

\* The committed events, unless two are first versions, are the versions 1, 2, ... in
\* the order of the log, one of each; a rootstock definition is the last, and the
\* row, which a rebuild takes from the last event, is the last of them.
Linear(events, current) ==
    LET at == Visible(events)
        Version(i) == events[i].def.version
    IN  (\A i, j \in at : Version(i) = 1 /\ Version(j) = 1 => i = j) =>
            /\ \A i, j \in at : i < j => Version(i) < Version(j)
            /\ \A i \in at : Version(i) = 1 \/ \E j \in at : Version(j) = Version(i) - 1
            /\ \A i, j \in at : events[i].def.rootstock => j <= i
            /\ IF at = {} THEN current = NoRow
               ELSE \E i \in at : (\A j \in at : j <= i) /\ current = events[i].def

\* As long as no two first definitions of a name were under way together, its
\* history is linear (DefineTropism, DefineCultivarInTx, Define: "version = current
\* + 1", "cannot be redefined").
HistoryIsLinear == \A n \in Names : Linear(log[n], row[n])

\* Once a seed has finished, running it again never fails and adds no event,
\* whatever others defined since ("Idempotent replay of a definition that already
\* projected", seedRegistryFixtures and seedProjectionFixtures).
ReseedIsQuiet ==
    seed.done => \A w \in Writers : writer[w].via = Seeding /\ ~At(w, "idle") =>
        /\ ~writer[w].fresh /\ ~At(w, "project")
        /\ At(w, "read") => Admitted(writer[w].def)

\* A granted activation left its definition in the log, a definition that is no
\* rootstock, over a tropism that was defined, after somebody else's approval;
\* every cultivar in the log resolves its tropism (Activate, "must commit their
\* guard event and the resulting registry definition together").
GrantedIsDefined ==
    /\ \A a \in Activations : \A o \in outcomes[a] : o.decision = "grant" =>
          /\ definitionEventExists(o.def) /\ ~o.def.rootstock
          /\ approvers \ {Proposer[a]} # {}
    /\ \A n \in Cultivars : \A i \in Committed(n) : tropismVersionExists(log[n][i].def.tropism)

-----------------------------------------------------------------------------
(* The inductive invariant                                                 *)

Event == [def : Definitions, by : Writers \union {Nobody}]
Phase == {"idle", "evaluate", "separate", "read", "insert", "project", "commit"}
WriterState ==
    [phase : Phase, def : Definitions \union {NoRow}, via : Activations \union {Direct, Seeding},
     fresh : BOOLEAN, decision : Decisions]

Outcome == [decision : Decisions, def : Definitions, named : Definitions \union {NoRow}]

ShapesOK ==
    /\ log \in [Names -> Seq(Event)]
    /\ row \in [Names -> Definitions \union {NoRow}]
    /\ lock \in [Names -> Writers \union {Nobody}]
    /\ writer \in [Writers -> WriterState]
    /\ \A w \in Writers : ~At(w, "idle") => writer[w].def \in Definitions
    /\ seed \in [next : 0..Len(SeedOrder), done : BOOLEAN, runs : Nat]
    /\ outcomes \in [Activations -> SUBSET Outcome]

\* A request has its event in the log, or may be about to insert it.
Holding(w) == At(w, "project") \/ (At(w, "commit") /\ writer[w].fresh)
Defining(w) == At(w, "insert") \/ Holding(w)
Normal(d) == d.version >= 1 /\ d.body # Malformed

\* An event is of its name, and an open one is what its request defines; no
\* definition has two events.
EventOK(n, e) ==
    /\ e.def.name = n /\ Normal(e.def)
    /\ e.by # Nobody => Holding(e.by) /\ writer[e.by].def = e.def
Distinct(events) == \A i, j \in DOMAIN events : events[i].def = events[j].def => i = j
LogOK == \A n \in Names : Distinct(log[n]) /\ \A i \in DOMAIN log[n] : EventOK(n, log[n][i])

RowsOK ==
    \A n \in Names : /\ row[n] = NoRow <=> Committed(n) = {}
                     /\ row[n] # NoRow => row[n].name = n /\ definitionEventExists(row[n])

\* The request defines the version after that of the row it has locked, behind all
\* that is committed.
Behind(events, w) == \A i \in DOMAIN events, j \in Visible(events) : events[i].by = w => j < i
Successor(w) ==
    LET d == writer[w].def
        n == d.name
    IN  /\ lock[n] = w /\ row[n] # NoRow /\ d.version = row[n].version + 1 /\ ~row[n].rootstock
        /\ Behind(log[n], w)

\* What is defined is on record already, or a first version, or the next one.
WriterOK(w) ==
    LET d == writer[w].def
        n == d.name
    IN  /\ writer[w].fresh => At(w, "commit") /\ lock[n] = w
        /\ Holding(w) => \E i \in DOMAIN log[n] : log[n][i] = [def |-> d, by |-> w]
        /\ Defining(w) =>
              /\ Normal(d) /\ (n \in Cultivars => tropismVersionExists(d.tropism))
              /\ definitionEventExists(d) \/ d.version = 1 \/ Successor(w)
        /\ At(w, "commit") /\ ~writer[w].fresh /\ writer[w].decision = "grant" =>
              definitionEventExists(d)

\* The seed is one request at a time, and what it is past is on record.
OfSeed(w) == writer[w].via = Seeding /\ ~At(w, "idle")
SeedOK ==
    /\ \A k \in 1..Len(SeedOrder) : seed.done \/ k < seed.next => definitionEventExists(SeedOrder[k])
    /\ \A w \in Writers : OfSeed(w) => /\ seed.next > 0 /\ writer[w].def = SeedOrder[seed.next]
                                      /\ \A v \in Writers : OfSeed(v) => v = w

\* A definition under an activation is no rootstock and is approved by another.
ActivationOK(w) ==
    /\ writer[w].via \in Activations /\ writer[w].decision = "grant" =>
          /\ ~At(w, "evaluate") => ~writer[w].def.rootstock
          /\ writer[w].phase \notin {"evaluate", "separate"} =>
                approvers \ {Proposer[writer[w].via]} # {}
    /\ ~At(w, "commit") \/ writer[w].via \notin Activations => writer[w].decision = "grant"
    /\ At(w, "evaluate") \/ At(w, "separate") => writer[w].via \in Activations

RegistryInv ==
    /\ ShapesOK /\ LogOK /\ RowsOK /\ SeedOK /\ HistoryIsLinear /\ GrantedIsDefined
    /\ \A w \in Writers : WriterOK(w) /\ ActivationOK(w)
    /\ approver # Nobody => approver \in approvers
=============================================================================
