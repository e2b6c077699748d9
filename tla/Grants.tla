------------------------------- MODULE Grants -------------------------------
(***************************************************************************)
(* Bearer tokens, what their scopes let them do, and the subactor grants    *)
(* by which an agent hands a part of its own authority to a new token:      *)
(* auth.Service, the reducers of package access, grants.Reduce and          *)
(* grants.IssuanceService.Issue.                                            *)
(*                                                                         *)
(* A scope is a word, or a work item for work_items.tree:<id>.  The         *)
(* relations between work items are kept as the set of ancestors of each    *)
(* item, itself included: a child is always new when it is attached, so the *)
(* recursive walks of the code find exactly that set.                       *)
(*                                                                         *)
(* A request is authenticated before its handler runs, so a token that is   *)
(* revoked meanwhile can still act: "late" holds the revoked tokens with a  *)
(* request under way.  A grant is named by its idempotency key, from which  *)
(* the ids of the grant and of the token it mints derive; its transaction   *)
(* reads in one step and writes in another, for it locks nothing.           *)
(***************************************************************************)
EXTENDS Integers, FiniteSets, FiniteSetsExt

CONSTANTS
    Items,          \* work items
    Top,            \* the work item that exists at the start
    Roots,          \* ids of root tokens
    Minted,         \* ids of the tokens the operator mints
    MintedAs,       \* source and scopes the operator gives each of them
    Grants,         \* idempotency keys of grant requests
    Asks,           \* what a request may say: template and requested scopes
    MaxDepth,       \* depth budget of an item: cultivar's xylem or safety policy
    Nobody,         \* the actor of a bootstrap
    SpawnReviews,   \* review statuses a child may be created with
    SetReviews,     \* review statuses an update of the metadata may set
    MaxCrashes,     \* bound: executions of grant requests that a crash cuts short
    MaxRevokes,     \* bound: revocations
    MaxReviews      \* bound: updates of a review status

Tokens == Roots \union Minted \union Grants
Words == {"read", "read_all", "write", "write_all", "feed", "assigned", "logs"}
Scopes == Words \union Items
Templates == {"same_tree_read_progress", "same_tree_worker"}
Reviews == {"waved_through", "approved", "blocked"}

ASSUME GrantsAssumption ==
    /\ Top \in Items
    /\ MintedAs \in [Minted -> [source : {"human", "agent"}, scopes : SUBSET Scopes]]
    /\ Asks \subseteq [template : Templates \union {"other"}, scopes : SUBSET Scopes]
    /\ MaxDepth \in [Items -> Nat]
    /\ MaxCrashes \in Nat /\ MaxRevokes \in Nat /\ MaxReviews \in Nat
    /\ SpawnReviews \subseteq Reviews /\ SetReviews \subseteq Reviews
    /\ Nobody \notin Tokens
    /\ Words \intersect Items = {}
    /\ Roots \intersect Minted = {} /\ Roots \intersect Grants = {} /\ Minted \intersect Grants = {}

VARIABLES
    token,      \* table tokens
    late,       \* revoked tokens of which a request is under way
    above,      \* work_item_relations: the ancestors of each item, itself included
    review,     \* human_review_status of each item
    asked,      \* escalation.requested: item, reason, and the status it found
    request,    \* what each grant request asks and where it stands
    outcomes,   \* subactor_grant.granted, .denied and .escalated, by grant
    shown,      \* secrets that reached a client: token and secret
    revokes,    \* revocations so far
    crashes,    \* executions cut short so far
    reviews     \* updates of a review status so far

bounds == <<revokes, crashes, reviews>>
vars == <<token, late, above, review, asked, request, outcomes, shown, bounds>>

NoToken == [by |-> Nobody, source |-> "human", scopes |-> {}, hash |-> 0, state |-> "none"]
NoRequest == [step |-> "none", parent |-> Nobody, item |-> Top, template |-> "none",
              scopes |-> {}, attempt |-> 0, decision |-> "none", reason |-> "none"]
Answered == [NoRequest EXCEPT !.step = "answered"]
Steps == {"none", "decided", "written", "lost", "answered"}
Decisions == {"none", "grant", "deny", "escalate"}
Reasons == {"none", "granted", "root", "source", "unscoped", "logs", "outside", "unknown", "depth",
            "template", "scopes", "review", "subset"}
Exists(i) == above[i] # {}
Live(t) == token[t].state = "active"
\* Authenticate finds a row by the hash of the secret presented.
Authenticates(t) == Live(t) /\ <<t, token[t].hash>> \in shown
\* A request authenticated as t is under way or can be made.
MayAct(t) == Authenticates(t) \/ t \in late

(***************************************************************************)
(* Access: what a token may read and write.                                 *)
(***************************************************************************)
Unscoped(t) == t \in Roots \/ token[t].scopes = {}
workItemInAnyTree(t, i) == \E root \in token[t].scopes \intersect Items : root \in above[i]
CanReadWorkItem(t, i) ==
    \/ Unscoped(t)
    \/ token[t].scopes \intersect {"read_all", "write_all"} # {}
    \/ token[t].scopes \intersect {"read", "write"} # {} /\ workItemInAnyTree(t, i)
CanWriteWorkItem(t, i) ==
    \/ Unscoped(t)
    \/ "write_all" \in token[t].scopes
    \/ "write" \in token[t].scopes /\ workItemInAnyTree(t, i)
FeedShows(t, i) ==
    \/ Unscoped(t)
    \/ "feed" \in token[t].scopes
    \/ "assigned" \in token[t].scopes /\ workItemInAnyTree(t, i)

(***************************************************************************)
(* Tokens.                                                                  *)
(***************************************************************************)
\* The projector leaves a row that is already there alone.
Created(t, by, source, scopes, secret) ==
    IF token[t].state = "none"
    THEN [by |-> by, source |-> source, scopes |-> scopes, hash |-> secret, state |-> "active"]
    ELSE token[t]

\* Of the tokens that are revoked, some have a request under way.
RevokeSet(ts) ==
    /\ revokes < MaxRevokes /\ revokes' = revokes + 1
    /\ \E busy \in SUBSET {t \in ts : Authenticates(t)} : late' = late \union busy
    /\ token' = [t \in Tokens |-> IF t \in ts THEN [token[t] EXCEPT !.state = "revoked"] ELSE token[t]]

\* tokens create --root: the first needs no actor, a replacement revokes the live one.
CreateRoot(r, actor) ==
    /\ token[r].state = "none"
    /\ LET live == {t \in Roots : Live(t)} IN
       /\ IF live = {} THEN actor = Nobody ELSE actor \in Roots /\ MayAct(actor)
       /\ \E busy \in SUBSET {t \in live : Authenticates(t)} : late' = late \union busy
       /\ token' = [t \in Tokens |->
             IF t = r THEN Created(r, actor, "human", {}, 1)
             ELSE IF t \in live THEN [token[t] EXCEPT !.state = "revoked"] ELSE token[t]]
    /\ shown' = shown \union {<<r, 1>>}
    /\ UNCHANGED <<above, review, asked, request, outcomes, bounds>>

CreateToken(m, actor) ==
    /\ actor \in Roots /\ MayAct(actor)
    /\ token[m].state = "none"
    /\ token' = [token EXCEPT ![m] = Created(m, actor, MintedAs[m].source, MintedAs[m].scopes, 1)]
    /\ shown' = shown \union {<<m, 1>>}
    /\ UNCHANGED <<late, above, review, asked, request, outcomes, bounds>>

\* By a root token, or by the token itself.
Revoke(t) ==
    /\ {actor \in Roots \union {t} : MayAct(actor)} # {}
    /\ Live(t)
    /\ RevokeSet({t})
    /\ UNCHANGED <<above, review, asked, request, outcomes, shown, crashes, reviews>>

RevokeAllNonRoot ==
    /\ {actor \in Roots : MayAct(actor)} # {}
    /\ RevokeSet({t \in Tokens \ Roots : Live(t)})
    /\ UNCHANGED <<above, review, asked, request, outcomes, shown, crashes, reviews>>

\* The last request authenticated as a revoked token ends.
EndLate(t) ==
    /\ t \in late
    /\ \A g \in Grants : request[g].parent = t => request[g].step \notin {"decided", "written"}
    /\ late' = late \ {t}
    /\ UNCHANGED <<token, above, review, asked, request, outcomes, shown, bounds>>

(***************************************************************************)
(* Work items, as far as a grant reads them.                                *)
(***************************************************************************)
\* The callers that a write to item i is open to.
Writers(i) == {t \in Tokens : MayAct(t) /\ CanWriteWorkItem(t, i)}

\* Mutant of SpawnChild: a child that exists is attached again.
SpawnAnyChild(parent, child, status) ==
    /\ Exists(parent) /\ child # Top
    /\ Writers(parent) # {}
    /\ above' = [above EXCEPT ![child] = above[parent] \union {child}]
    /\ review' = [review EXCEPT ![child] = status]
    /\ UNCHANGED <<token, late, asked, request, outcomes, shown, bounds>>

SpawnChild(parent, child, status) ==
    /\ Exists(parent) /\ ~Exists(child)
    /\ Writers(parent) # {}
    /\ above' = [above EXCEPT ![child] = above[parent] \union {child}]
    /\ review' = [review EXCEPT ![child] = status]
    /\ UNCHANGED <<token, late, asked, request, outcomes, shown, bounds>>

UpdateMetadata(i, status) ==
    /\ Exists(i) /\ Writers(i) # {}
    /\ reviews < MaxReviews /\ reviews' = reviews + 1
    /\ review' = [review EXCEPT ![i] = status]
    /\ UNCHANGED <<token, late, above, asked, request, outcomes, shown, revokes, crashes>>

(***************************************************************************)
(* The grant reducer.                                                       *)
(***************************************************************************)
templateScopeSet(template, i) ==
    {"assigned", "read", i} \union (IF template = "same_tree_worker" THEN {"write"} ELSE {})

parentTreeRoots(parent) == token[parent].scopes \intersect Items
treeRelation(parent, i) ==
    CASE parentTreeRoots(parent) = {} -> "unknown"
      [] i \in parentTreeRoots(parent) -> "same"
      [] parentTreeRoots(parent) \intersect above[i] # {} /\ i \notin parentTreeRoots(parent)
            -> "descendant"
      [] OTHER -> "outside"

\* Steps from the nearest of the parent's roots down to the item.
depthsBelow(parent, i) ==
    {Cardinality(above[i]) - Cardinality(above[root]) : root \in parentTreeRoots(parent) \intersect above[i]}

\* Mutant: only the tree of the parent is compared.
parentCoversTree(parent, template, i) ==
    i \in token[parent].scopes \/ treeRelation(parent, i) = "descendant"

parentCoversTemplate(parent, template, i) ==
    LET has == token[parent].scopes IN
    /\ i \in has \/ (treeRelation(parent, i) = "descendant" /\ has \intersect Items # {})
    /\ \A scope \in templateScopeSet(template, i) \ Items :
          scope \in has \/ (scope = "assigned" /\ "feed" \in has)

Rule(fires, decision, reason) == [fires |-> fires, decision |-> decision, reason |-> reason]

\* The checks of Reduce in their order: the first that fires decides.
Rules(q) ==
    LET source == token[q.parent].source IN
    << Rule(q.parent \in Roots, "escalate", "root"),
       Rule(source # "agent", "escalate", "source"),
       Rule(token[q.parent].scopes = {}, "escalate", "unscoped"),
       Rule("logs" \in q.scopes, "escalate", "logs"),
       Rule(treeRelation(q.parent, q.item) = "outside", "escalate", "outside"),
       Rule(treeRelation(q.parent, q.item) = "unknown", "escalate", "unknown"),
       Rule(\E d \in depthsBelow(q.parent, q.item) :
               /\ \A e \in depthsBelow(q.parent, q.item) : d <= e
               /\ d > MaxDepth[q.item], "escalate", "depth"),
       Rule(q.template \notin Templates, "deny", "template"),
       Rule(q.scopes # {} /\ q.scopes # templateScopeSet(q.template, q.item), "escalate", "scopes"),
       Rule(q.template = "same_tree_worker" /\ review[q.item] # "approved", "escalate", "review"),
       Rule(~parentCoversTemplate(q.parent, q.template, q.item), "escalate", "subset") >>

Reduce(q) ==
    LET rules == Rules(q)
        firing == {n \in DOMAIN rules : rules[n].fires}
    IN  IF firing = {} THEN Rule(TRUE, "grant", "granted") ELSE rules[Min(firing)]

(***************************************************************************)
(* POST /v1/subactor-grants.                                                *)
(***************************************************************************)
\* Mutant: every execution decides afresh.
noExistingResult(g) == FALSE

existingIssueResult(g) == outcomes[g] # {}

\* An execution of request q: an outcome on record is returned without a secret.
Evaluate(g, q) ==
    LET attempt == request[g].attempt + 1
        decided == Reduce(q) IN
    /\ MayAct(q.parent)
    /\ Exists(q.item)
    /\ request' = [request EXCEPT ![g] =
          IF existingIssueResult(g)
          THEN Answered
          ELSE [q EXCEPT !.step = "decided", !.attempt = attempt,
                         !.decision = decided.decision, !.reason = decided.reason]]
    /\ UNCHANGED <<token, late, above, review, asked, outcomes, shown, bounds>>

Ask(g, parent, i, ask) ==
    /\ request[g].step = "none"
    /\ Evaluate(g, [NoRequest EXCEPT !.parent = parent, !.item = i,
                                     !.template = ask.template, !.scopes = ask.scopes])

\* The client repeats the request under its key.
Retry(g) ==
    /\ request[g].step = "lost"
    /\ Evaluate(g, request[g])

\* escalations.RequestInTx: a repeated escalation changes nothing, and an update of the
\* metadata that is already on record is not applied again.
RequestEscalation(g, i, why) ==
    IF \E e \in asked : e.item = i /\ e.why = why
    THEN UNCHANGED <<asked, review>>
    ELSE /\ asked' = asked \union {[item |-> i, why |-> why, from |-> review[i]]}
         /\ review' = IF \E e \in asked : e.item = i /\ e.from = review[i]
                      THEN review ELSE [review EXCEPT ![i] = "blocked"]

Write(g) ==
    LET q == request[g] IN
    /\ q.step = "decided"
    /\ CASE q.decision = "grant" ->
              /\ token' = [token EXCEPT ![g] =
                    Created(g, q.parent, "agent", templateScopeSet(q.template, q.item), q.attempt)]
              /\ UNCHANGED <<asked, review>>
         [] q.decision = "escalate" ->
              RequestEscalation(g, q.item, <<q.template, q.reason>>) /\ UNCHANGED token
         [] OTHER -> UNCHANGED <<token, asked, review>>
    /\ outcomes' = [outcomes EXCEPT ![g] = @ \union {q.decision}]
    /\ request' = [request EXCEPT ![g].step = "written"]
    /\ UNCHANGED <<late, above, shown, bounds>>

\* The fresh answer carries the secret; the recorded one does not.
Answer(g) ==
    LET q == request[g] IN
    /\ q.step = "written"
    /\ shown' = IF q.decision = "grant" THEN shown \union {<<g, q.attempt>>} ELSE shown
    /\ request' = [request EXCEPT ![g] = Answered]
    /\ UNCHANGED <<token, late, above, review, asked, outcomes, bounds>>

\* The node dies before the transaction commits, or before the answer is recorded and sent.
Crash(g) ==
    /\ request[g].step \in {"decided", "written"}
    /\ crashes < MaxCrashes /\ crashes' = crashes + 1
    /\ request' = [request EXCEPT ![g].step = "lost", ![g].decision = "none", ![g].reason = "none"]
    /\ UNCHANGED <<token, late, above, review, asked, outcomes, shown, revokes, reviews>>

(***************************************************************************)
(* The specification.                                                       *)
(***************************************************************************)
Init ==
    /\ token = [t \in Tokens |-> NoToken]
    /\ late = {}
    /\ above = [i \in Items |-> IF i = Top THEN {Top} ELSE {}]
    /\ review = [i \in Items |-> "waved_through"]
    /\ asked = {}
    /\ request = [g \in Grants |-> NoRequest]
    /\ outcomes = [g \in Grants |-> {}]
    /\ shown = {}
    /\ revokes = 0 /\ crashes = 0 /\ reviews = 0

Next ==
    \/ \E r \in Roots, a \in Roots \union {Nobody} : CreateRoot(r, a)
    \/ \E m \in Minted, a \in Roots : CreateToken(m, a)
    \/ \E t \in Tokens : Revoke(t)
    \/ RevokeAllNonRoot
    \/ \E t \in Tokens : EndLate(t)
    \/ \E p, c \in Items, s \in SpawnReviews : SpawnChild(p, c, s)
    \/ \E i \in Items, s \in SetReviews : UpdateMetadata(i, s)
    \/ \E g \in Grants, t \in Tokens, i \in Items, ask \in Asks : Ask(g, t, i, ask)
    \/ \E g \in Grants : Retry(g) \/ Write(g) \/ Answer(g) \/ Crash(g)

Spec == Init /\ [][Next]_vars

(***************************************************************************)
(* Properties.                                                              *)
(***************************************************************************)
\* The values of the variables; only revoked tokens have late requests (auth.Service),
\* and the relations form a tree: an item's ancestors have their ancestors above it too.
TypeOK ==
    /\ token \in [Tokens -> [by : Tokens \union {Nobody}, source : {"human", "agent"},
                             scopes : SUBSET Scopes, hash : 0..MaxCrashes + 1,
                             state : {"none", "active", "revoked"}]]
    /\ late \subseteq {t \in Tokens : token[t].state = "revoked"}
    /\ above \in [Items -> SUBSET Items]
    /\ \A i \in Items : \A j \in above[i] : i \in above[i] /\ j \in above[j] /\ above[j] \subseteq above[i]
    /\ review \in [Items -> Reviews]
    /\ \A e \in asked : e.item \in Items /\ e.from \in Reviews
    /\ request \in [Grants -> [step : Steps, parent : Tokens \union {Nobody}, item : Items,
                               template : Templates \union {"other", "none"}, scopes : SUBSET Scopes,
                               attempt : 0..MaxCrashes + 1, decision : Decisions, reason : Reasons]]
    /\ outcomes \in [Grants -> SUBSET Decisions]
    /\ shown \subseteq Tokens \X (1..MaxCrashes + 1)
    /\ revokes \in 0..MaxRevokes /\ crashes \in 0..MaxCrashes /\ reviews \in 0..MaxReviews

\* A delegated token can read, write and follow nothing that the token it was granted
\* by cannot, however the trees have grown since: what grants.Reduce checks once, when
\* it grants, stays true, and so along every chain of grants.
NoWiderThanParent ==
    \A g \in Grants : token[g].state # "none" =>
        \A i \in Items : Exists(i) =>
            /\ CanReadWorkItem(g, i) => CanReadWorkItem(token[g].by, i)
            /\ CanWriteWorkItem(g, i) => CanWriteWorkItem(token[g].by, i)
            /\ FeedShows(g, i) => FeedShows(token[g].by, i)

\* A secret that reached a client is the one whose hash the token row keeps: a repeated
\* request mints a secret of its own, which the projector of token.created would drop.
ShownSecretsWork == \A x \in shown : token[x[1]].state # "none" /\ token[x[1]].hash = x[2]

\* A grant is settled once, and a token exists exactly for the grants that were granted,
\* whatever crashes and repeats the request meets (Issue under a deterministic grant id).
GrantSettledOnce ==
    \A g \in Grants :
        /\ Cardinality(outcomes[g]) <= 1
        /\ token[g].state # "none" <=> "grant" \in outcomes[g]

\* What a token may do, as verbs and items that exist.
Rights(t) ==
    IF token[t].state = "none" THEN {}
    ELSE ({"read"} \X {i \in Items : Exists(i) /\ CanReadWorkItem(t, i)})
            \union ({"write"} \X {i \in Items : Exists(i) /\ CanWriteWorkItem(t, i)})
            \union ({"feed"} \X {i \in Items : Exists(i) /\ FeedShows(t, i)})

Delegation == INSTANCE Authority WITH
    Token <- Tokens,
    Delegated <- Grants,
    Verb <- {"read", "write", "feed"},
    Item <- Items,
    standing <- [t \in Tokens |-> token[t].state],
    rights <- [t \in Tokens |-> Rights(t)],
    giver <- [t \in Tokens |-> token[t].by],
    settled <- {g \in Grants : outcomes[g] # {}},
    items <- {i \in Items : Exists(i)}

\* Every operation on tokens, grants and work items is a step of the promise or none: no
\* step widens what a token may do with an item that exists, a grant hands on a part of
\* what its giver has, and nothing brings a revoked token back.
ImplementsDelegation == Delegation!AuthoritySpec

(***************************************************************************)
(* The inductive invariant behind them.                                     *)
(***************************************************************************)
\* What parentCoversTemplate comes to: scopes that are held, and ancestors of the item.
Covers(held, ancestors, template, i) ==
    /\ i \in held \/ held \intersect Items \intersect ancestors # {}
    /\ \A scope \in templateScopeSet(template, i) \ Items :
          scope \in held \/ (scope = "assigned" /\ "feed" \in held)

\* A request under way was made with a token that exists, it was executed once more than
\* it was cut short, and what it has decided was so decided on rows that still say the same.
RequestsOK ==
    \A g \in Grants : LET q == request[g] IN
        /\ q.step = "none" => q.attempt = 0
        /\ q.step \in {"none", "decided"} => outcomes[g] = {}
        /\ q.step \in {"decided", "written", "lost"} =>
              /\ q.parent \in Tokens /\ token[q.parent].state # "none"
              /\ q.attempt \in 1..(IF q.step = "lost" THEN crashes ELSE crashes + 1)
        /\ q.step = "decided" /\ q.decision = "grant" =>
              Covers(token[q.parent].scopes, above[q.item], q.template, q.item)
        /\ q.step = "written" =>
              q.decision \in outcomes[g] /\ (q.decision = "grant" => token[g].hash = q.attempt)

\* One outcome at most, and a token for it when it is a grant.
OutcomesOK ==
    \A g \in Grants :
        /\ \A x, y \in outcomes[g] : x = y
        /\ token[g].state # "none" <=> "grant" \in outcomes[g]

\* A delegated token carries a template's scopes on an item, and its parent covers them.
DelegationsOK ==
    \A g \in Grants : token[g].state # "none" =>
        /\ token[g].by \in Tokens /\ token[token[g].by].state # "none"
        /\ \E template \in Templates \union {"other", "none"}, i \in Items :
              /\ token[g].scopes = templateScopeSet(template, i)
              /\ Covers(token[token[g].by].scopes, above[i], template, i)

GrantsInv == TypeOK /\ RequestsOK /\ OutcomesOK /\ DelegationsOK /\ ShownSecretsWork
=============================================================================
