--------------------------- MODULE Grants_proofs ---------------------------
(***************************************************************************)
(* Proofs about Grants, for any items, tokens, grant requests, templates'   *)
(* use, depth budgets and bounds.                                           *)
(***************************************************************************)
EXTENDS Grants, FiniteSetTheorems, WellFoundedInduction, TLAPS

Row == [by : Tokens \union {Nobody}, source : {"human", "agent"}, scopes : SUBSET Scopes,
        hash : 0..MaxCrashes + 1, state : {"none", "active", "revoked"}]
Request == [step : Steps, parent : Tokens \union {Nobody}, item : Items,
            template : Templates \union {"other", "none"}, scopes : SUBSET Scopes,
            attempt : 0..MaxCrashes + 1, decision : Decisions, reason : Reasons]

-----------------------------------------------------------------------------
(* The reducer                                                             *)

\* A set of numbers that is not empty has a least one.
LEMMA LeastExists ==
    ASSUME NEW S \in SUBSET Nat, S # {}
    PROVE  Min(S) \in S
  <1> DEFINE R == OpToRel(<, Nat)
  <1>1. IsWellFoundedOn(R, Nat) /\ \A x, y \in Nat : y < x => <<y, x>> \in R
    BY NatLessThanWellFounded DEF OpToRel
  <1> HIDE DEF R
  <1>2. \E x \in S : \A y \in S : ~(<<y, x>> \in R)
    BY <1>1, WFMin
  <1>3. \E x \in S : \A y \in S : x =< y
    <2>1. PICK x \in S : \A y \in S : ~(<<y, x>> \in R)
      BY <1>2
    <2>2. \A y \in S : ~(y < x)
      BY <1>1, <2>1
    <2>3. \A n, m \in Nat : ~(n < m) => m =< n
      OBVIOUS
    <2>4. \A y \in S : x =< y
      BY <2>2, <2>3
    <2> QED
      BY <2>4
  <1> QED
    BY <1>3 DEF Min

\* Reduce decides one way or another, and grants only what the parent's own
\* scopes cover: no check of Reduce grants, so all of them must have passed.
LEMMA ReduceCovers ==
    ASSUME NEW q
    PROVE  /\ Reduce(q).decision \in Decisions /\ Reduce(q).reason \in Reasons
           /\ Reduce(q).decision = "grant" =>
                 Covers(token[q.parent].scopes, above[q.item], q.template, q.item)
  <1> DEFINE rules == Rules(q)
             firing == {n \in DOMAIN rules : rules[n].fires}
  <1>1. /\ DOMAIN rules = 1..11
        /\ \A n \in 1..11 : rules[n].decision \in {"escalate", "deny"} /\ rules[n].reason \in Reasons
    <2>1. DOMAIN rules = 1..11
      BY DEF Rules
    <2>2. /\ rules[1].decision = "escalate" /\ rules[2].decision = "escalate"
          /\ rules[3].decision = "escalate" /\ rules[4].decision = "escalate"
          /\ rules[5].decision = "escalate" /\ rules[6].decision = "escalate"
          /\ rules[7].decision = "escalate" /\ rules[8].decision = "deny"
          /\ rules[9].decision = "escalate" /\ rules[10].decision = "escalate"
          /\ rules[11].decision = "escalate"
      BY DEF Rules, Rule
    <2>3. /\ rules[1].reason = "root" /\ rules[2].reason = "source" /\ rules[3].reason = "unscoped"
          /\ rules[4].reason = "logs" /\ rules[5].reason = "outside" /\ rules[6].reason = "unknown"
          /\ rules[7].reason = "depth" /\ rules[8].reason = "template" /\ rules[9].reason = "scopes"
          /\ rules[10].reason = "review" /\ rules[11].reason = "subset"
      BY DEF Rules, Rule
    <2> HIDE DEF rules
    <2>4. \A n \in 1..11 : rules[n].decision \in {"escalate", "deny"}
      BY <2>2
    <2>5. \A n \in 1..11 : rules[n].reason \in Reasons
      BY <2>3 DEF Reasons
    <2> QED
      BY <2>1, <2>4, <2>5
  <1>2. rules[11].fires <=> ~parentCoversTemplate(q.parent, q.template, q.item)
    BY DEF Rules, Rule
  <1>3. Reduce(q) = IF firing = {} THEN Rule(TRUE, "grant", "granted") ELSE rules[Min(firing)]
    BY DEF Reduce
  <1> HIDE DEF rules
  <1>4. CASE firing = {}
    <2>1. 11 \in DOMAIN rules
      BY <1>1
    <2>2. ~rules[11].fires
      BY <1>4, <2>1
    <2>3. parentCoversTemplate(q.parent, q.template, q.item)
      BY <1>2, <2>2, Zenon
    <2>4. Reduce(q).decision = "grant" /\ Reduce(q).reason = "granted"
      BY <1>3, <1>4 DEF Rule
    <2>5. Covers(token[q.parent].scopes, above[q.item], q.template, q.item)
      BY <2>3 DEF parentCoversTemplate, treeRelation, parentTreeRoots, Covers
    <2> QED
      BY <2>4, <2>5 DEF Decisions, Reasons
  <1>5. CASE firing # {}
    <2>1. firing \in SUBSET Nat /\ firing \subseteq 1..11
      BY <1>1
    <2>2. Min(firing) \in 1..11
      <3> HIDE DEF firing
      <3> QED
        BY <1>5, <2>1, LeastExists
    <2> HIDE DEF firing
    <2> QED
      BY <1>1, <1>3, <1>5, <2>2 DEF Decisions
  <1> QED
    BY <1>4, <1>5

-----------------------------------------------------------------------------
(* What a step does to the tokens and to the tree                          *)

\* A token that exists keeps everything but its state, and stays.
TokensKept ==
    \A t \in Tokens : token[t].state # "none" =>
        /\ token'[t].state # "none"
        /\ token'[t].by = token[t].by /\ token'[t].scopes = token[t].scopes
        /\ token'[t].hash = token[t].hash

\* Only the write of a grant makes its token.
NoGrantMade == \A g \in Grants : token'[g].state # "none" => token[g].state # "none"

\* An item that exists keeps its ancestors.
TreeKept == \A i \in Items : above[i] # {} => above'[i] = above[i]

\* A revocation changes states only.
LEMMA RevokeEffect ==
    ASSUME TypeOK, NEW ts \in SUBSET Tokens, RevokeSet(ts)
    PROVE  /\ token' \in [Tokens -> Row]
           /\ late' \subseteq {t \in Tokens : token'[t].state = "revoked"}
           /\ (\A t \in ts : token[t].state # "none") => TokensKept /\ NoGrantMade
           /\ revokes' \in 0..MaxRevokes
  <1>1. token \in [Tokens -> Row]
    BY DEF TypeOK, Row
  <1>2. ASSUME NEW t \in Tokens
        PROVE  /\ [token[t] EXCEPT !.state = "revoked"] \in Row
               /\ [token[t] EXCEPT !.state = "revoked"].state = "revoked"
               /\ [token[t] EXCEPT !.state = "revoked"].by = token[t].by
               /\ [token[t] EXCEPT !.state = "revoked"].scopes = token[t].scopes
               /\ [token[t] EXCEPT !.state = "revoked"].hash = token[t].hash
    BY <1>1 DEF Row
  <1>3. token' = [t \in Tokens |-> IF t \in ts THEN [token[t] EXCEPT !.state = "revoked"] ELSE token[t]]
    BY DEF RevokeSet
  <1>4. token' \in [Tokens -> Row]
    BY <1>1, <1>2, <1>3
  <1>5. \A t \in Tokens : IF t \in ts
                          THEN /\ token'[t].state = "revoked" /\ token'[t].by = token[t].by
                               /\ token'[t].scopes = token[t].scopes /\ token'[t].hash = token[t].hash
                          ELSE token'[t] = token[t]
    BY <1>2, <1>3
  <1>6. late' \subseteq {t \in Tokens : token'[t].state = "revoked"}
    <2>1. late' \subseteq late \union ts
      BY DEF RevokeSet
    <2> QED
      BY <1>5, <2>1 DEF TypeOK
  <1>7. (\A t \in ts : token[t].state # "none") => TokensKept /\ NoGrantMade
    <2>1. Grants \subseteq Tokens
      BY DEF Tokens
    <2> QED
      BY <1>5, <2>1 DEF TokensKept, NoGrantMade
  <1>8. revokes' \in 0..MaxRevokes
    BY GrantsAssumption DEF RevokeSet, TypeOK
  <1> QED
    BY <1>4, <1>6, <1>7, <1>8

\* The projector makes a row where there is none.
LEMMA CreatedEffect ==
    ASSUME TypeOK, NEW t \in Tokens, NEW by \in Tokens \union {Nobody}, NEW source \in {"human", "agent"},
           NEW scopes \in SUBSET Scopes, NEW secret \in 0..MaxCrashes + 1
    PROVE  /\ Created(t, by, source, scopes, secret) \in Row
           /\ token[t].state # "none" => Created(t, by, source, scopes, secret) = token[t]
           /\ token[t].state = "none" =>
                 Created(t, by, source, scopes, secret) =
                     [by |-> by, source |-> source, scopes |-> scopes, hash |-> secret, state |-> "active"]
  BY DEF Created, TypeOK, Row

LEMMA CreatedFresh ==
    ASSUME TypeOK, NEW t \in Tokens, NEW by \in Tokens \union {Nobody}, NEW source \in {"human", "agent"},
           NEW scopes \in SUBSET Scopes, NEW secret \in 0..MaxCrashes + 1, token[t].state = "none"
    PROVE  \E new \in Row : /\ new = Created(t, by, source, scopes, secret)
                            /\ new.state # "none" /\ new.hash = secret
                            /\ new.by = by /\ new.scopes = scopes
  BY CreatedEffect

\* A token that is made new leaves the others as they are.
LEMMA FreshEffect ==
    ASSUME TypeOK, NEW u \in Tokens, token[u].state = "none", NEW new \in Row, new.state # "none",
           NEW revoked \in SUBSET {t \in Tokens : token[t].state # "none"},
           token' = [t \in Tokens |-> IF t = u THEN new ELSE
                        IF t \in revoked THEN [token[t] EXCEPT !.state = "revoked"] ELSE token[t]]
    PROVE  /\ token' \in [Tokens -> Row] /\ token'[u] = new
           /\ \A t \in Tokens : token[t].state = "revoked" \/ t \in revoked => token'[t].state = "revoked"
           /\ TokensKept
           /\ \A t \in Tokens \ {u} : token'[t].state # "none" => token[t].state # "none"
  <1>1. token \in [Tokens -> Row]
    BY DEF TypeOK, Row
  <1>2. \A t \in Tokens :
           /\ [token[t] EXCEPT !.state = "revoked"] \in Row
           /\ [token[t] EXCEPT !.state = "revoked"].state = "revoked"
           /\ [token[t] EXCEPT !.state = "revoked"].by = token[t].by
           /\ [token[t] EXCEPT !.state = "revoked"].scopes = token[t].scopes
           /\ [token[t] EXCEPT !.state = "revoked"].hash = token[t].hash
    BY <1>1 DEF Row
  <1>3. token' \in [Tokens -> Row] /\ token'[u] = new
    BY <1>1, <1>2
  <1>4. \A t \in Tokens \ {u} :
           IF t \in revoked
           THEN /\ token'[t].state = "revoked" /\ token'[t].by = token[t].by
                /\ token'[t].scopes = token[t].scopes /\ token'[t].hash = token[t].hash
           ELSE token'[t] = token[t]
    BY <1>2
  <1>5. TokensKept
    BY <1>4 DEF TokensKept
  <1> QED
    BY <1>3, <1>4, <1>5

LEMMA CreateRootEffect ==
    ASSUME TypeOK, NEW r \in Roots, NEW a \in Roots \union {Nobody}, CreateRoot(r, a)
    PROVE  /\ token' \in [Tokens -> Row] /\ late' \subseteq {t \in Tokens : token'[t].state = "revoked"}
           /\ TokensKept /\ NoGrantMade
           /\ token'[r].state # "none" /\ token'[r].hash = 1 /\ shown' = shown \union {<<r, 1>>}
  <1> DEFINE live == {t \in Roots : Live(t)}
             new == Created(r, a, "human", {}, 1)
  <1>1. r \in Tokens /\ a \in Tokens \union {Nobody} /\ Roots \subseteq Tokens /\ Grants \subseteq Tokens
        /\ Roots \intersect Grants = {} /\ 1 \in 0..MaxCrashes + 1
    BY GrantsAssumption DEF Tokens
  <1>2. token[r].state = "none" /\ shown' = shown \union {<<r, 1>>} /\ late' \subseteq late \union live
    BY DEF CreateRoot
  <1>3. new \in Row /\ new.state # "none" /\ new.hash = 1
    <2>1. "human" \in {"human", "agent"} /\ {} \in SUBSET Scopes
      OBVIOUS
    <2> QED
      BY <1>1, <1>2, <2>1, CreatedFresh
  <1>4. live \in SUBSET {t \in Tokens : token[t].state # "none"}
    BY <1>1 DEF Live
  <1>5. token' = [t \in Tokens |-> IF t = r THEN new ELSE
                     IF t \in live THEN [token[t] EXCEPT !.state = "revoked"] ELSE token[t]]
    BY DEF CreateRoot
  <1> HIDE DEF live, new
  <1>6. /\ token' \in [Tokens -> Row] /\ token'[r] = new
        /\ \A t \in Tokens : token[t].state = "revoked" \/ t \in live => token'[t].state = "revoked"
        /\ TokensKept
        /\ \A t \in Tokens \ {r} : token'[t].state # "none" => token[t].state # "none"
    BY <1>1, <1>2, <1>3, <1>4, <1>5, FreshEffect
  <1>7. NoGrantMade
    BY <1>1, <1>6 DEF NoGrantMade
  <1>8. late' \subseteq {t \in Tokens : token'[t].state = "revoked"}
    BY <1>2, <1>4, <1>6 DEF TypeOK
  <1> QED
    BY <1>2, <1>3, <1>6, <1>7, <1>8

LEMMA CreateTokenEffect ==
    ASSUME TypeOK, NEW m \in Minted, NEW a \in Roots, CreateToken(m, a)
    PROVE  /\ token' \in [Tokens -> Row] /\ late' \subseteq {t \in Tokens : token'[t].state = "revoked"}
           /\ TokensKept /\ NoGrantMade
           /\ token'[m].state # "none" /\ token'[m].hash = 1 /\ shown' = shown \union {<<m, 1>>}
  <1> DEFINE new == Created(m, a, MintedAs[m].source, MintedAs[m].scopes, 1)
  <1>1. m \in Tokens /\ a \in Tokens \union {Nobody} /\ Grants \subseteq Tokens
        /\ Minted \intersect Grants = {} /\ 1 \in 0..MaxCrashes + 1
        /\ MintedAs[m].source \in {"human", "agent"} /\ MintedAs[m].scopes \in SUBSET Scopes
    BY GrantsAssumption DEF Tokens
  <1>2. token[m].state = "none" /\ shown' = shown \union {<<m, 1>>} /\ late' = late
        /\ token' = [token EXCEPT ![m] = new]
    BY DEF CreateToken
  <1>3. new \in Row /\ new.state # "none" /\ new.hash = 1
    <2> DEFINE source == MintedAs[m].source
               scopes == MintedAs[m].scopes
    <2>1. source \in {"human", "agent"} /\ scopes \in SUBSET Scopes /\ new = Created(m, a, source, scopes, 1)
      BY <1>1
    <2>2. m \in Tokens /\ a \in Tokens \union {Nobody} /\ 1 \in 0..MaxCrashes + 1 /\ token[m].state = "none"
      BY <1>1, <1>2
    <2> HIDE DEF source, scopes, new
    <2>3. \E row \in Row : row = Created(m, a, source, scopes, 1) /\ row.state # "none" /\ row.hash = 1
      BY <2>1, <2>2, CreatedFresh
    <2> QED
      BY <2>1, <2>3
  <1> HIDE DEF new
  <1>4. token' = [t \in Tokens |-> IF t = m THEN new ELSE
                     IF t \in {} THEN [token[t] EXCEPT !.state = "revoked"] ELSE token[t]]
    BY <1>2 DEF TypeOK
  <1>5. /\ token' \in [Tokens -> Row] /\ token'[m] = new
        /\ \A t \in Tokens : token[t].state = "revoked" \/ t \in {} => token'[t].state = "revoked"
        /\ TokensKept
        /\ \A t \in Tokens \ {m} : token'[t].state # "none" => token[t].state # "none"
    <2>1. m \in Tokens /\ token[m].state = "none" /\ {} \in SUBSET {t \in Tokens : token[t].state # "none"}
      BY <1>1, <1>2
    <2> QED
      BY <1>3, <1>4, <2>1, FreshEffect
  <1>6. NoGrantMade
    BY <1>1, <1>5 DEF NoGrantMade
  <1>7. late' \subseteq {t \in Tokens : token'[t].state = "revoked"}
    BY <1>2, <1>5 DEF TypeOK
  <1> QED
    BY <1>2, <1>3, <1>5, <1>6, <1>7

\* A grant is written where none is on record: the token of its own id is made.
LEMMA WriteEffect ==
    ASSUME GrantsInv, NEW g \in Grants, Write(g)
    PROVE  /\ token' \in [Tokens -> Row] /\ late' \subseteq {t \in Tokens : token'[t].state = "revoked"}
           /\ TokensKept
           /\ \A h \in Grants \ {g} : token'[h].state # "none" => token[h].state # "none"
           /\ token[g].state = "none"
           /\ IF request[g].decision = "grant"
              THEN /\ token'[g].state # "none" /\ token'[g].by = request[g].parent
                   /\ token'[g].scopes = templateScopeSet(request[g].template, request[g].item)
                   /\ token'[g].hash = request[g].attempt
              ELSE token' = token
  <1> DEFINE q == request[g]
  <1>1. /\ q.step = "decided" /\ q.parent \in Tokens /\ q.item \in Items /\ q.attempt \in 0..MaxCrashes + 1
        /\ g \in Tokens /\ Grants \subseteq Tokens /\ outcomes[g] = {} /\ late' = late /\ q.decision \in Decisions
    BY DEF Write, GrantsInv, RequestsOK, TypeOK, Tokens
  <1>2. token[g].state = "none"
    BY <1>1 DEF GrantsInv, OutcomesOK
  <1>3. CASE q.decision = "grant"
    <2> DEFINE scopes == templateScopeSet(q.template, q.item)
               new == Created(g, q.parent, "agent", scopes, q.attempt)
    <2>1. scopes \in SUBSET Scopes
      BY <1>1 DEF templateScopeSet, Scopes, Words
    <2> HIDE DEF scopes
    <2>2. new \in Row /\ new.state # "none" /\ new.hash = q.attempt /\ new.by = q.parent /\ new.scopes = scopes
      <3> HIDE DEF q
      <3> QED
        BY <1>1, <1>2, <2>1, CreatedEffect DEF GrantsInv
    <2>3. token' = [token EXCEPT ![g] = new]
      BY <1>3 DEF Write, scopes
    <2> HIDE DEF new, q
    <2>4. token' = [t \in Tokens |-> IF t = g THEN new ELSE
                     IF t \in {} THEN [token[t] EXCEPT !.state = "revoked"] ELSE token[t]]
      BY <2>3 DEF GrantsInv, TypeOK
    <2>5. /\ token' \in [Tokens -> Row] /\ token'[g] = new
          /\ \A t \in Tokens : token[t].state = "revoked" \/ t \in {} => token'[t].state = "revoked"
          /\ TokensKept
          /\ \A t \in Tokens \ {g} : token'[t].state # "none" => token[t].state # "none"
      BY <1>1, <1>2, <2>2, <2>4, FreshEffect DEF GrantsInv
    <2>6. late' \subseteq {t \in Tokens : token'[t].state = "revoked"}
      BY <1>1, <2>5 DEF GrantsInv, TypeOK
    <2> QED
      BY <1>1, <1>2, <1>3, <2>2, <2>5, <2>6 DEF scopes, q
  <1>4. CASE q.decision # "grant"
    <2>1. token' = token
      BY <1>1, <1>4 DEF Write
    <2> QED
      BY <1>1, <1>2, <1>4, <2>1 DEF GrantsInv, TypeOK, Row, TokensKept
  <1> QED
    BY <1>3, <1>4

\* What every step does to the tokens.
LEMMA TokenStep ==
    ASSUME GrantsInv, [Next]_vars
    PROVE  /\ token' \in [Tokens -> Row] /\ late' \subseteq {t \in Tokens : token'[t].state = "revoked"}
           /\ revokes' \in 0..MaxRevokes
           /\ TokensKept
           /\ \A g \in Grants : token[g].state = "none" /\ token'[g].state # "none" => Write(g)
  <1> DEFINE Goal == /\ token' \in [Tokens -> Row]
                     /\ late' \subseteq {t \in Tokens : token'[t].state = "revoked"}
                     /\ revokes' \in 0..MaxRevokes
                     /\ TokensKept
                     /\ \A g \in Grants : token[g].state = "none" /\ token'[g].state # "none" => Write(g)
  <1> SUFFICES Goal
    OBVIOUS
  <1>0. TypeOK /\ revokes \in 0..MaxRevokes /\ token \in [Tokens -> Row]
    BY DEF GrantsInv, TypeOK, Row
  <1>1. ASSUME UNCHANGED <<token, revokes>>, late' \subseteq late PROVE Goal
    BY <1>0, <1>1 DEF TypeOK, TokensKept
  <1>2. ASSUME NEW r \in Roots, NEW a \in Roots \union {Nobody}, CreateRoot(r, a) PROVE Goal
    <2>1. revokes' = revokes
      BY <1>2 DEF CreateRoot, bounds
    <2> QED
      BY <1>0, <1>2, <2>1, CreateRootEffect DEF NoGrantMade
  <1>3. ASSUME NEW m \in Minted, NEW a \in Roots, CreateToken(m, a) PROVE Goal
    <2>1. revokes' = revokes
      BY <1>3 DEF CreateToken, bounds
    <2> QED
      BY <1>0, <1>3, <2>1, CreateTokenEffect DEF NoGrantMade
  <1>4. ASSUME NEW ts \in SUBSET Tokens, RevokeSet(ts), \A t \in ts : token[t].state # "none" PROVE Goal
    BY <1>0, <1>4, RevokeEffect DEF NoGrantMade
  <1>5. ASSUME NEW t \in Tokens, Revoke(t) PROVE Goal
    <2>1. RevokeSet({t}) /\ {t} \in SUBSET Tokens /\ \A u \in {t} : token[u].state # "none"
      BY <1>5 DEF Revoke, Live
    <2> QED
      BY <1>4, <2>1
  <1>6. ASSUME RevokeAllNonRoot PROVE Goal
    <2> DEFINE ts == {t \in Tokens \ Roots : Live(t)}
    <2>1. RevokeSet(ts) /\ ts \in SUBSET Tokens /\ \A u \in ts : token[u].state # "none"
      BY <1>6 DEF RevokeAllNonRoot, Live
    <2> HIDE DEF ts
    <2> QED
      BY <1>4, <2>1
  <1>7. ASSUME NEW g \in Grants, Write(g) PROVE Goal
    <2>1. revokes' = revokes
      BY <1>7 DEF Write, bounds
    <2> QED
      BY <1>0, <1>7, <2>1, WriteEffect
  <1>8. ASSUME NEW t \in Tokens, EndLate(t) PROVE Goal
    BY <1>1, <1>8 DEF EndLate, bounds
  <1>9. CASE \E p, c \in Items, s \in SpawnReviews : SpawnChild(p, c, s)
    BY <1>1, <1>9 DEF SpawnChild, bounds
  <1>10. CASE \E i \in Items, s \in SetReviews : UpdateMetadata(i, s)
    BY <1>1, <1>10 DEF UpdateMetadata
  <1>11. CASE \E g \in Grants, t \in Tokens, i \in Items, ask \in Asks : Ask(g, t, i, ask)
    BY <1>1, <1>11 DEF Ask, Evaluate, bounds
  <1>12. CASE \E g \in Grants : Retry(g) \/ Answer(g) \/ Crash(g)
    BY <1>1, <1>12 DEF Retry, Evaluate, Answer, Crash, bounds
  <1>13. CASE UNCHANGED vars
    BY <1>1, <1>13 DEF vars, bounds
  <1> HIDE DEF Goal
  <1> QED
    BY <1>2, <1>3, <1>5, <1>6, <1>7, <1>8, <1>9, <1>10, <1>11, <1>12, <1>13 DEF Next

\* What every step does to the tree.
LEMMA TreeStep ==
    ASSUME TypeOK, [Next]_vars
    PROVE  /\ above' \in [Items -> SUBSET Items]
           /\ \A i \in Items : \A j \in above'[i] :
                 i \in above'[i] /\ j \in above'[j] /\ above'[j] \subseteq above'[i]
           /\ TreeKept
  <1>1. CASE above' = above
    BY <1>1 DEF TypeOK, TreeKept
  <1>2. ASSUME NEW p \in Items, NEW c \in Items, NEW s \in SpawnReviews, SpawnChild(p, c, s)
        PROVE  /\ above' \in [Items -> SUBSET Items]
               /\ \A i \in Items : \A j \in above'[i] :
                     i \in above'[i] /\ j \in above'[j] /\ above'[j] \subseteq above'[i]
               /\ TreeKept
    <2>1. /\ above \in [Items -> SUBSET Items] /\ above[p] # {} /\ above[c] = {}
          /\ above' = [above EXCEPT ![c] = above[p] \union {c}]
          /\ \A i \in Items : \A j \in above[i] : i \in above[i] /\ j \in above[j] /\ above[j] \subseteq above[i]
      BY <1>2 DEF SpawnChild, Exists, TypeOK
    <2>2. above' \in [Items -> SUBSET Items] /\ above'[c] = above[p] \union {c}
          /\ \A i \in Items \ {c} : above'[i] = above[i]
      BY <2>1
    <2>3. TreeKept
      BY <2>1, <2>2 DEF TreeKept
    <2>4. \A i \in Items : c \notin above[i]
      BY <2>1
    <2>5. ASSUME NEW i \in Items, NEW j \in above'[i]
          PROVE  i \in above'[i] /\ j \in above'[j] /\ above'[j] \subseteq above'[i]
      <3>1. j \in Items
        BY <2>2
      <3>2. CASE i = c /\ j = c
        BY <2>2, <3>2
      <3>3. CASE i = c /\ j # c
        BY <2>1, <2>2, <3>1, <3>3
      <3>4. CASE i # c
        BY <2>1, <2>2, <2>4, <3>1, <3>4
      <3> QED
        BY <3>2, <3>3, <3>4
    <2> QED
      BY <2>2, <2>3, <2>5
  <1>3. CASE ~\E p, c \in Items, s \in SpawnReviews : SpawnChild(p, c, s)
    <2>1. above' = above
      BY <1>3 DEF Next, vars, CreateRoot, CreateToken, Revoke, RevokeAllNonRoot, EndLate, UpdateMetadata,
                  Ask, Retry, Evaluate, Write, Answer, Crash
    <2> QED
      BY <1>1, <2>1
  <1> QED
    BY <1>2, <1>3

-----------------------------------------------------------------------------
(* What a step does to a request                                           *)

\* A request is made with a token that exists.
LEMMA ActorExists ==
    ASSUME TypeOK, NEW t \in Tokens, MayAct(t)
    PROVE  token[t].state # "none"
  BY DEF MayAct, Authenticates, Live, TypeOK

\* An execution answers from the record, or decides by the reducer.
LEMMA EvaluateEffect ==
    ASSUME TypeOK, NEW g \in Grants, NEW q \in Request, Evaluate(g, q),
           request[g].attempt + 1 \in 0..MaxCrashes + 1
    PROVE  /\ request' \in [Grants -> Request]
           /\ \A h \in Grants \ {g} : request'[h] = request[h]
           /\ \/ outcomes[g] # {} /\ request'[g].step = "answered"
              \/ /\ outcomes[g] = {} /\ request'[g].step = "decided"
                 /\ request'[g].parent = q.parent
                 /\ request'[g].attempt = request[g].attempt + 1
                 /\ request'[g].decision = "grant" =>
                       Covers(token[request'[g].parent].scopes, above[request'[g].item],
                              request'[g].template, request'[g].item)
           /\ UNCHANGED <<token, late, above, review, asked, outcomes, shown, bounds>>
  <1> DEFINE attempt == request[g].attempt + 1
             decided == Reduce(q)
             new == [q EXCEPT !.step = "decided", !.attempt = attempt,
                              !.decision = decided.decision, !.reason = decided.reason]
  <1>1. /\ request' = [request EXCEPT ![g] = IF outcomes[g] # {} THEN Answered ELSE new]
        /\ UNCHANGED <<token, late, above, review, asked, outcomes, shown, bounds>>
    BY DEF Evaluate, existingIssueResult
  <1>2. /\ decided.decision \in Decisions /\ decided.reason \in Reasons
        /\ decided.decision = "grant" => Covers(token[q.parent].scopes, above[q.item], q.template, q.item)
    BY ReduceCovers
  <1> HIDE DEF decided
  <1>3. Answered \in Request /\ Answered.step = "answered"
    BY GrantsAssumption DEF Answered, NoRequest, Request, Steps, Decisions, Reasons
  <1>4. /\ new \in Request /\ new.step = "decided" /\ new.parent = q.parent /\ new.item = q.item
        /\ new.template = q.template /\ new.attempt = attempt /\ new.decision = decided.decision
    BY <1>2 DEF Request, Steps
  <1> HIDE DEF new
  <1>5. request \in [Grants -> Request]
    BY DEF TypeOK, Request
  <1>6. CASE outcomes[g] # {}
    BY <1>1, <1>3, <1>5, <1>6
  <1>7. CASE outcomes[g] = {}
    <2>1. request' = [request EXCEPT ![g] = new]
      BY <1>1, <1>7
    <2>2. /\ request' \in [Grants -> Request] /\ request'[g] = new
          /\ \A h \in Grants \ {g} : request'[h] = request[h]
      BY <1>4, <1>5, <2>1
    <2> QED
      BY <1>1, <1>2, <1>4, <1>7, <2>2
  <1> QED
    BY <1>6, <1>7

\* Both kinds of execution, of a new request and of one that was cut short.
Executes(g) ==
    \/ \E t \in Tokens, i \in Items, ask \in Asks : Ask(g, t, i, ask)
    \/ Retry(g)

LEMMA ExecuteEffect ==
    ASSUME GrantsInv, NEW g \in Grants, Executes(g)
    PROVE  /\ request' \in [Grants -> Request]
           /\ \A h \in Grants \ {g} : request'[h] = request[h]
           /\ \/ outcomes[g] # {} /\ request'[g].step = "answered"
              \/ /\ outcomes[g] = {} /\ request'[g].step = "decided"
                 /\ request'[g].parent \in Tokens /\ token[request'[g].parent].state # "none"
                 /\ request'[g].attempt \in 1..(crashes + 1)
                 /\ request'[g].decision = "grant" =>
                       Covers(token[request'[g].parent].scopes, above[request'[g].item],
                              request'[g].template, request'[g].item)
           /\ UNCHANGED <<token, late, above, review, asked, outcomes, shown, bounds>>
  <1>0. /\ TypeOK /\ request \in [Grants -> Request] /\ crashes \in 0..MaxCrashes /\ MaxCrashes \in Nat
    BY GrantsAssumption DEF GrantsInv, TypeOK, Request
  <1>1. ASSUME NEW t \in Tokens, NEW i \in Items, NEW ask \in Asks, Ask(g, t, i, ask)
        PROVE  /\ request[g].attempt + 1 \in 1..(crashes + 1)
               /\ \E q \in Request : Evaluate(g, q) /\ q.parent \in Tokens /\ token[q.parent].state # "none"
    <2> DEFINE q == [NoRequest EXCEPT !.parent = t, !.item = i, !.template = ask.template, !.scopes = ask.scopes]
    <2>1. request[g].attempt = 0
      BY <1>1 DEF Ask, GrantsInv, RequestsOK
    <2>2. ask.template \in Templates \union {"other", "none"} /\ ask.scopes \in SUBSET Scopes
      BY GrantsAssumption
    <2>3. q \in Request /\ q.parent = t
      <3>1. NoRequest \in Request
        BY <1>0, GrantsAssumption DEF NoRequest, Request, Steps, Decisions, Reasons
      <3> QED
        BY <2>2, <3>1 DEF Request
    <2>4. Evaluate(g, q)
      BY <1>1 DEF Ask
    <2> HIDE DEF q
    <2>5. MayAct(t)
      BY <2>3, <2>4 DEF Evaluate
    <2> QED
      BY <1>0, <2>1, <2>3, <2>4, <2>5, ActorExists
  <1>2. ASSUME Retry(g)
        PROVE  /\ request[g].attempt + 1 \in 1..(crashes + 1)
               /\ \E q \in Request : Evaluate(g, q) /\ q.parent \in Tokens /\ token[q.parent].state # "none"
    <2>1. /\ request[g].step = "lost" /\ Evaluate(g, request[g]) /\ request[g] \in Request
      BY <1>0, <1>2 DEF Retry
    <2>2. /\ request[g].parent \in Tokens /\ token[request[g].parent].state # "none"
          /\ request[g].attempt \in 1..crashes
      BY <2>1 DEF GrantsInv, RequestsOK
    <2> QED
      BY <1>0, <2>1, <2>2
  <1>3. /\ request[g].attempt + 1 \in 1..(crashes + 1)
        /\ \E q \in Request : Evaluate(g, q) /\ q.parent \in Tokens /\ token[q.parent].state # "none"
    BY <1>1, <1>2 DEF Executes
  <1>4. PICK q \in Request : Evaluate(g, q) /\ q.parent \in Tokens /\ token[q.parent].state # "none"
    BY <1>3
  <1>5. request[g].attempt + 1 \in 0..MaxCrashes + 1
    BY <1>0, <1>3
  <1> QED
    BY <1>0, <1>3, <1>4, <1>5, EvaluateEffect

\* What the writes, the answer and a crash do to their own request.
LEMMA RequestMoves ==
    ASSUME GrantsInv, NEW g \in Grants, Write(g) \/ Answer(g) \/ Crash(g)
    PROVE  /\ request' \in [Grants -> Request]
           /\ \A h \in Grants \ {g} : request'[h] = request[h]
           /\ Write(g) => /\ request[g].step = "decided" /\ request'[g].step = "written"
                          /\ request'[g].parent = request[g].parent
                          /\ request'[g].attempt = request[g].attempt
                          /\ request'[g].decision = request[g].decision
           /\ Answer(g) => request[g].step = "written" /\ request'[g].step = "answered"
           /\ Crash(g) => /\ request[g].step \in {"decided", "written"} /\ request'[g].step = "lost"
                          /\ request'[g].parent = request[g].parent
                          /\ request'[g].attempt = request[g].attempt
  <1>0. request \in [Grants -> Request]
    BY DEF GrantsInv, TypeOK, Request
  <1>1. CASE Write(g)
    BY <1>0, <1>1 DEF Write, Request, Steps, Answer, Crash
  <1>2. CASE Answer(g)
    <2>1. Answered \in Request /\ Answered.step = "answered"
      BY GrantsAssumption DEF Answered, NoRequest, Request, Steps, Decisions, Reasons
    <2>2. request' = [request EXCEPT ![g] = Answered] /\ request[g].step = "written"
      BY <1>2 DEF Answer
    <2>3. /\ request'[g] = Answered /\ request' \in [Grants -> Request]
          /\ \A h \in Grants \ {g} : request'[h] = request[h]
      BY <1>0, <2>1, <2>2
    <2>4. ~Write(g)
      BY <2>2 DEF Write
    <2>5. ~Crash(g) \/ request'[g].step = "lost"
      BY <1>0 DEF Crash, Request
    <2> QED
      BY <2>1, <2>2, <2>3, <2>4, <2>5
  <1>3. CASE Crash(g)
    <2> DEFINE new == [request[g] EXCEPT !.step = "lost", !.decision = "none", !.reason = "none"]
    <2>1. new \in Request /\ new.step = "lost" /\ new.parent = request[g].parent /\ new.attempt = request[g].attempt
      <3>1. request[g] \in Request /\ "lost" \in Steps /\ "none" \in Decisions /\ "none" \in Reasons
        BY <1>0 DEF Steps, Decisions, Reasons
      <3> QED
        BY <3>1 DEF Request
    <2>2. request' = [request EXCEPT ![g] = new] /\ request[g].step \in {"decided", "written"}
      BY <1>0, <1>3 DEF Crash, Request
    <2> HIDE DEF new
    <2>3. request'[g] = new /\ request' \in [Grants -> Request] /\ \A h \in Grants \ {g} : request'[h] = request[h]
      BY <1>0, <2>1, <2>2
    <2>4. request'[g].step = "lost"
      BY <2>1, <2>3
    <2>5. ~Write(g) \/ request'[g].step = "written"
      BY <1>0 DEF Write, Request
    <2>6. ~Answer(g) \/ request'[g].step = "answered"
      BY <1>0 DEF Answer, Answered, NoRequest
    <2> QED
      BY <2>1, <2>2, <2>3, <2>4, <2>5, <2>6
  <1> QED
    BY <1>1, <1>2, <1>3

\* Every step is about one request, or leaves all of them alone.
LEMMA NextCases ==
    ASSUME [Next]_vars
    PROVE  \/ UNCHANGED <<request, outcomes, crashes>>
           \/ \E g \in Grants : Executes(g) \/ Write(g) \/ Answer(g) \/ Crash(g)
  BY DEF Next, vars, bounds, Executes, CreateRoot, CreateToken, Revoke, RevokeAllNonRoot, EndLate,
         SpawnChild, UpdateMetadata

\* What a step does to the outcomes, and to the number of crashes.
LEMMA OutcomeEffect ==
    ASSUME TypeOK, NEW g \in Grants, Write(g)
    PROVE  /\ outcomes' \in [Grants -> SUBSET Decisions]
           /\ outcomes'[g] = outcomes[g] \union {request[g].decision}
           /\ \A h \in Grants \ {g} : outcomes'[h] = outcomes[h]
  <1>1. request[g].decision \in Decisions
    BY DEF TypeOK
  <1>2. outcomes' = [outcomes EXCEPT ![g] = @ \union {request[g].decision}]
    BY DEF Write
  <1> QED
    BY <1>1, <1>2 DEF TypeOK

\* A parent that covers a template goes on covering it.
LEMMA CoversKept ==
    ASSUME NEW p \in Tokens, token[p].state # "none", NEW template, NEW i \in Items,
           TokensKept, TreeKept, Covers(token[p].scopes, above[i], template, i)
    PROVE  Covers(token'[p].scopes, above'[i], template, i)
  <1>1. token'[p].scopes = token[p].scopes
    BY DEF TokensKept
  <1>2. i \in token[p].scopes \/ above[i] # {}
    BY DEF Covers
  <1>3. CASE above[i] # {}
    BY <1>1, <1>3 DEF TreeKept
  <1>4. CASE i \in token[p].scopes
    BY <1>1, <1>4 DEF Covers
  <1> QED
    BY <1>2, <1>3, <1>4

-----------------------------------------------------------------------------
(* The invariant, part by part                                             *)

\* A request stays as its step says.
LEMMA RequestsStep ==
    ASSUME GrantsInv, [Next]_vars
    PROVE  RequestsOK'
  <1> DEFINE Fine(h) ==
        /\ request'[h].step = "none" => request'[h].attempt = 0
        /\ request'[h].step \in {"none", "decided"} => outcomes'[h] = {}
        /\ request'[h].step \in {"decided", "written", "lost"} =>
              /\ request'[h].parent \in Tokens /\ token'[request'[h].parent].state # "none"
              /\ request'[h].attempt \in 1..(IF request'[h].step = "lost" THEN crashes' ELSE crashes' + 1)
        /\ request'[h].step = "decided" /\ request'[h].decision = "grant" =>
              Covers(token'[request'[h].parent].scopes, above'[request'[h].item],
                     request'[h].template, request'[h].item)
        /\ request'[h].step = "written" =>
              /\ request'[h].decision \in outcomes'[h]
              /\ request'[h].decision = "grant" => token'[h].hash = request'[h].attempt
  <1> SUFFICES ASSUME NEW h \in Grants PROVE Fine(h)
    BY DEF RequestsOK
  <1>0. /\ TypeOK /\ RequestsOK /\ OutcomesOK /\ TokensKept /\ TreeKept /\ Grants \subseteq Tokens
        /\ request[h].item \in Items /\ crashes \in Nat
    BY TokenStep, TreeStep DEF GrantsInv, Tokens, TypeOK
  <1>1. ASSUME request'[h] = request[h], outcomes'[h] = outcomes[h], crashes' \in {crashes, crashes + 1}
        PROVE  Fine(h)
    <2> DEFINE q == request[h]
    <2>1. q.step = "none" => q.attempt = 0
      BY <1>0 DEF RequestsOK
    <2>2. q.step \in {"none", "decided"} => outcomes[h] = {}
      BY <1>0 DEF RequestsOK
    <2>3. q.step \in {"decided", "written", "lost"} =>
              /\ q.parent \in Tokens /\ token[q.parent].state # "none"
              /\ q.attempt \in 1..(IF q.step = "lost" THEN crashes ELSE crashes + 1)
      BY <1>0 DEF RequestsOK
    <2>4. q.step = "decided" /\ q.decision = "grant" =>
              Covers(token[q.parent].scopes, above[q.item], q.template, q.item)
      BY <1>0 DEF RequestsOK
    <2>5. q.step = "written" =>
              q.decision \in outcomes[h] /\ (q.decision = "grant" => token[h].hash = q.attempt)
      BY <1>0 DEF RequestsOK
    <2>6. q.step \in {"decided", "written", "lost"} =>
              /\ q.parent \in Tokens /\ token'[q.parent].state # "none"
              /\ q.attempt \in 1..(IF q.step = "lost" THEN crashes' ELSE crashes' + 1)
      BY <1>0, <1>1, <2>3 DEF TokensKept
    <2>7. q.step = "written" /\ q.decision = "grant" => token'[h].hash = q.attempt
      BY <1>0, <2>5 DEF TokensKept, OutcomesOK
    <2>8. q.step = "decided" /\ q.decision = "grant" =>
              Covers(token'[q.parent].scopes, above'[q.item], q.template, q.item)
      BY <1>0, <2>3, <2>4, CoversKept
    <2>9. request'[h] = q
      BY <1>1
    <2> HIDE DEF q
    <2> QED
      BY <1>1, <2>1, <2>2, <2>5, <2>6, <2>7, <2>8, <2>9
  <1>2. CASE UNCHANGED <<request, outcomes, crashes>>
    BY <1>1, <1>2
  <1>3. ASSUME NEW g \in Grants, Executes(g) PROVE Fine(h)
    <2>1. /\ \A k \in Grants \ {g} : request'[k] = request[k]
          /\ \/ outcomes[g] # {} /\ request'[g].step = "answered"
             \/ /\ outcomes[g] = {} /\ request'[g].step = "decided"
                /\ request'[g].parent \in Tokens /\ token[request'[g].parent].state # "none"
                /\ request'[g].attempt \in 1..(crashes + 1)
                /\ request'[g].decision = "grant" =>
                      Covers(token[request'[g].parent].scopes, above[request'[g].item],
                             request'[g].template, request'[g].item)
          /\ UNCHANGED <<token, above, outcomes, crashes>>
      BY <1>3, ExecuteEffect DEF bounds
    <2>2. CASE h # g
      BY <1>1, <2>1, <2>2
    <2>3. CASE h = g
      BY <2>1, <2>3
    <2> QED
      BY <2>2, <2>3
  <1>4. ASSUME NEW g \in Grants, Write(g) PROVE Fine(h)
    <2>1. /\ \A k \in Grants \ {g} : request'[k] = request[k] /\ outcomes'[k] = outcomes[k]
          /\ request[g].step = "decided" /\ request'[g].step = "written"
          /\ request'[g].parent = request[g].parent /\ request'[g].attempt = request[g].attempt
          /\ request'[g].decision = request[g].decision
          /\ outcomes'[g] = outcomes[g] \union {request[g].decision}
      BY <1>0, <1>4, RequestMoves, OutcomeEffect
    <2>2. crashes' = crashes
      BY <1>4 DEF Write, bounds
    <2>3. CASE h # g
      BY <1>1, <2>1, <2>2, <2>3
    <2>4. CASE h = g
      <3>1. /\ request[g].parent \in Tokens /\ token[request[g].parent].state # "none"
            /\ request[g].attempt \in 1..(crashes + 1)
        BY <1>0, <2>1 DEF RequestsOK
      <3>2. request[g].decision = "grant" => token'[g].hash = request[g].attempt
        BY <1>4, WriteEffect
      <3> QED
        BY <1>0, <2>1, <2>2, <2>4, <3>1, <3>2 DEF TokensKept
    <2> QED
      BY <2>3, <2>4
  <1>5. ASSUME NEW g \in Grants, Answer(g) PROVE Fine(h)
    <2>1. /\ \A k \in Grants \ {g} : request'[k] = request[k]
          /\ request'[g].step = "answered"
      BY <1>0, <1>5, RequestMoves
    <2>2. crashes' = crashes /\ outcomes' = outcomes
      BY <1>5 DEF Answer, bounds
    <2>3. CASE h # g
      BY <1>1, <2>1, <2>2, <2>3
    <2>4. CASE h = g
      BY <2>1, <2>4
    <2> QED
      BY <2>3, <2>4
  <1>6. ASSUME NEW g \in Grants, Crash(g) PROVE Fine(h)
    <2>1. /\ \A k \in Grants \ {g} : request'[k] = request[k]
          /\ request[g].step \in {"decided", "written"} /\ request'[g].step = "lost"
          /\ request'[g].parent = request[g].parent /\ request'[g].attempt = request[g].attempt
      BY <1>0, <1>6, RequestMoves
    <2>2. crashes' = crashes + 1 /\ outcomes' = outcomes /\ token' = token
      BY <1>6 DEF Crash
    <2>3. CASE h # g
      BY <1>1, <2>1, <2>2, <2>3
    <2>4. CASE h = g
      <3>1. /\ request[g].parent \in Tokens /\ token[request[g].parent].state # "none"
            /\ request[g].attempt \in 1..(crashes + 1)
        BY <1>0, <2>1 DEF RequestsOK
      <3> QED
        BY <2>1, <2>2, <2>4, <3>1
    <2> QED
      BY <2>3, <2>4
  <1> HIDE DEF Fine
  <1> QED
    BY <1>2, <1>3, <1>4, <1>5, <1>6, NextCases

\* A grant is settled by the one write that finds it open.
LEMMA OutcomesStep ==
    ASSUME GrantsInv, [Next]_vars
    PROVE  OutcomesOK'
  <1>0. /\ TypeOK /\ RequestsOK /\ OutcomesOK /\ TokensKept /\ Grants \subseteq Tokens
        /\ \A g \in Grants : token[g].state = "none" /\ token'[g].state # "none" => Write(g)
    BY TokenStep DEF GrantsInv, Tokens
  <1> SUFFICES ASSUME NEW h \in Grants
               PROVE  /\ \A x, y \in outcomes'[h] : x = y
                      /\ token'[h].state # "none" <=> "grant" \in outcomes'[h]
    BY DEF OutcomesOK
  <1>1. CASE Write(h)
    <2>1. outcomes[h] = {} /\ outcomes'[h] = {request[h].decision}
      BY <1>0, <1>1, OutcomeEffect, RequestMoves DEF RequestsOK
    <2>2. /\ token[h].state = "none"
          /\ request[h].decision = "grant" => token'[h].state # "none"
          /\ request[h].decision # "grant" => token' = token
      BY <1>1, WriteEffect
    <2> QED
      BY <2>1, <2>2
  <1>2. CASE ~Write(h)
    <2>1. outcomes'[h] = outcomes[h]
      <3>1. ASSUME NEW g \in Grants, Executes(g) \/ Answer(g) \/ Crash(g) PROVE outcomes' = outcomes
        BY <3>1 DEF Executes, Ask, Retry, Evaluate, Answer, Crash
      <3>2. ASSUME NEW g \in Grants, Write(g) PROVE outcomes'[h] = outcomes[h]
        BY <1>0, <1>2, <3>2, OutcomeEffect
      <3> QED
        BY <3>1, <3>2, NextCases
    <2>2. token'[h].state # "none" <=> token[h].state # "none"
      BY <1>0, <1>2 DEF TokensKept
    <2> QED
      BY <1>0, <2>1, <2>2 DEF OutcomesOK
  <1> QED
    BY <1>1, <1>2

\* A delegated token is within its parent when it is made, and ever after.
LEMMA DelegationsStep ==
    ASSUME GrantsInv, [Next]_vars
    PROVE  DelegationsOK'
  <1>0. /\ TypeOK /\ RequestsOK /\ DelegationsOK /\ TokensKept /\ TreeKept /\ Grants \subseteq Tokens
        /\ \A g \in Grants : token[g].state = "none" /\ token'[g].state # "none" => Write(g)
    BY TokenStep, TreeStep DEF GrantsInv, Tokens
  <1> SUFFICES ASSUME NEW h \in Grants, token'[h].state # "none"
               PROVE  /\ token'[h].by \in Tokens /\ token'[token'[h].by].state # "none"
                      /\ \E template \in Templates \union {"other", "none"}, i \in Items :
                            /\ token'[h].scopes = templateScopeSet(template, i)
                            /\ Covers(token'[token'[h].by].scopes, above'[i], template, i)
    BY DEF DelegationsOK
  <1>1. CASE token[h].state # "none"
    <2>1. /\ token'[h].by = token[h].by /\ token'[h].scopes = token[h].scopes
          /\ token[h].by \in Tokens /\ token[token[h].by].state # "none"
      BY <1>0, <1>1 DEF TokensKept, DelegationsOK
    <2>2. PICK template \in Templates \union {"other", "none"}, i \in Items :
             /\ token[h].scopes = templateScopeSet(template, i)
             /\ Covers(token[token[h].by].scopes, above[i], template, i)
      BY <1>0, <1>1 DEF DelegationsOK
    <2>3. Covers(token'[token[h].by].scopes, above'[i], template, i) /\ token'[token[h].by].state # "none"
      BY <1>0, <2>1, <2>2, CoversKept DEF TokensKept
    <2> QED
      BY <2>1, <2>2, <2>3
  <1>2. CASE token[h].state = "none"
    <2> DEFINE q == request[h]
    <2>1. /\ Write(h) /\ q.step = "decided" /\ q.decision = "grant"
          /\ token'[h].by = q.parent /\ token'[h].scopes = templateScopeSet(q.template, q.item)
      BY <1>0, <1>2, WriteEffect DEF Write
    <2>2. /\ q.parent \in Tokens /\ token[q.parent].state # "none"
          /\ Covers(token[q.parent].scopes, above[q.item], q.template, q.item)
          /\ q.item \in Items /\ q.template \in Templates \union {"other", "none"}
      BY <1>0, <2>1 DEF RequestsOK, TypeOK
    <2> HIDE DEF q
    <2>3. Covers(token'[q.parent].scopes, above'[q.item], q.template, q.item)
          /\ token'[q.parent].state # "none"
      BY <1>0, <2>2, CoversKept DEF TokensKept
    <2> QED
      BY <2>1, <2>2, <2>3
  <1> QED
    BY <1>1, <1>2

\* A secret is shown when its hash is on record, and the record stays.
LEMMA ShownStep ==
    ASSUME GrantsInv, [Next]_vars
    PROVE  ShownSecretsWork' /\ shown' \subseteq Tokens \X (1..MaxCrashes + 1)
  <1>0. /\ TypeOK /\ RequestsOK /\ OutcomesOK /\ TokensKept /\ Grants \subseteq Tokens
        /\ shown \subseteq Tokens \X (1..MaxCrashes + 1)
        /\ \A x \in shown : token[x[1]].state # "none" /\ token[x[1]].hash = x[2]
    BY TokenStep DEF GrantsInv, Tokens, TypeOK, ShownSecretsWork
  <1>1. \A x \in shown : token'[x[1]].state # "none" /\ token'[x[1]].hash = x[2]
    BY <1>0 DEF TokensKept
  <1>2. ASSUME shown' = shown PROVE ShownSecretsWork' /\ shown' \subseteq Tokens \X (1..MaxCrashes + 1)
    BY <1>0, <1>1, <1>2 DEF ShownSecretsWork
  <1>3. ASSUME NEW t \in Tokens, NEW n \in 1..MaxCrashes + 1, shown' = shown \union {<<t, n>>},
               token'[t].state # "none", token'[t].hash = n
        PROVE  ShownSecretsWork' /\ shown' \subseteq Tokens \X (1..MaxCrashes + 1)
    BY <1>0, <1>1, <1>3 DEF ShownSecretsWork
  <1>4. 1 \in 1..MaxCrashes + 1 /\ Roots \subseteq Tokens /\ Minted \subseteq Tokens
    BY GrantsAssumption DEF Tokens
  <1>5. ASSUME NEW r \in Roots, NEW a \in Roots \union {Nobody}, CreateRoot(r, a)
        PROVE  ShownSecretsWork' /\ shown' \subseteq Tokens \X (1..MaxCrashes + 1)
    BY <1>0, <1>3, <1>4, <1>5, CreateRootEffect
  <1>6. ASSUME NEW m \in Minted, NEW a \in Roots, CreateToken(m, a)
        PROVE  ShownSecretsWork' /\ shown' \subseteq Tokens \X (1..MaxCrashes + 1)
    BY <1>0, <1>3, <1>4, <1>6, CreateTokenEffect
  <1>7. ASSUME NEW g \in Grants, Answer(g)
        PROVE  ShownSecretsWork' /\ shown' \subseteq Tokens \X (1..MaxCrashes + 1)
    <2>1. CASE request[g].decision = "grant"
      <3>1. shown' = shown \union {<<g, request[g].attempt>>} /\ token' = token
            /\ request[g].step = "written"
        BY <1>7, <2>1 DEF Answer
      <3>2. /\ token[g].hash = request[g].attempt /\ "grant" \in outcomes[g]
            /\ request[g].attempt \in 1..(crashes + 1)
        BY <1>0, <2>1, <3>1 DEF RequestsOK
      <3>3. token[g].state # "none"
        BY <1>0, <3>2 DEF OutcomesOK
      <3>4. request[g].attempt \in 1..MaxCrashes + 1
        BY <1>0, <3>2, GrantsAssumption DEF TypeOK
      <3> QED
        BY <1>0, <1>3, <3>1, <3>2, <3>3, <3>4
    <2>2. CASE request[g].decision # "grant"
      BY <1>2, <1>7, <2>2 DEF Answer
    <2> QED
      BY <2>1, <2>2
  <1>8. CASE shown' # shown
    <2>1. \/ \E r \in Roots, a \in Roots \union {Nobody} : CreateRoot(r, a)
          \/ \E m \in Minted, a \in Roots : CreateToken(m, a)
          \/ \E g \in Grants : Answer(g)
      BY <1>8 DEF Next, vars, Revoke, RevokeAllNonRoot, EndLate, SpawnChild, UpdateMetadata, Ask, Retry,
                  Evaluate, Write, Crash
    <2> QED
      BY <1>5, <1>6, <1>7, <2>1
  <1> QED
    BY <1>2, <1>8

\* The rest of the types.
LEMMA TypeStep ==
    ASSUME GrantsInv, [Next]_vars
    PROVE  TypeOK'
  <1>0. TypeOK
    BY DEF GrantsInv
  <1>1. /\ token' \in [Tokens -> Row] /\ late' \subseteq {t \in Tokens : token'[t].state = "revoked"}
        /\ revokes' \in 0..MaxRevokes
    BY TokenStep
  <1>2. /\ above' \in [Items -> SUBSET Items]
        /\ \A i \in Items : \A j \in above'[i] :
              i \in above'[i] /\ j \in above'[j] /\ above'[j] \subseteq above'[i]
    BY <1>0, TreeStep
  <1>3. shown' \subseteq Tokens \X (1..MaxCrashes + 1)
    BY ShownStep
  <1>4. request' \in [Grants -> Request]
    <2>1. request \in [Grants -> Request]
      BY <1>0 DEF TypeOK, Request
    <2> QED
      BY <2>1, NextCases, ExecuteEffect, RequestMoves
  <1>5. outcomes' \in [Grants -> SUBSET Decisions]
    <2>1. ASSUME NEW g \in Grants, Executes(g) \/ Answer(g) \/ Crash(g) PROVE outcomes' = outcomes
      BY <2>1 DEF Executes, Ask, Retry, Evaluate, Answer, Crash
    <2>2. outcomes \in [Grants -> SUBSET Decisions]
      BY <1>0 DEF TypeOK
    <2> QED
      BY <1>0, <2>1, <2>2, NextCases, OutcomeEffect
  <1>6. crashes' \in 0..MaxCrashes
    <2>1. ASSUME NEW g \in Grants, Executes(g) \/ Write(g) \/ Answer(g) PROVE crashes' = crashes
      BY <2>1 DEF Executes, Ask, Retry, Evaluate, Write, Answer, bounds
    <2>2. ASSUME NEW g \in Grants, Crash(g) PROVE crashes' \in 0..MaxCrashes
      BY <1>0, <2>2, GrantsAssumption DEF Crash, TypeOK
    <2>3. crashes \in 0..MaxCrashes
      BY <1>0 DEF TypeOK
    <2> QED
      BY <2>1, <2>2, <2>3, NextCases
  <1>7. /\ review' \in [Items -> Reviews]
        /\ \A e \in asked' : e.item \in Items /\ e.from \in Reviews
        /\ reviews' \in 0..MaxReviews
    <2> DEFINE Goal == /\ review' \in [Items -> Reviews]
                       /\ \A e \in asked' : e.item \in Items /\ e.from \in Reviews
                       /\ reviews' \in 0..MaxReviews
    <2>0. /\ review \in [Items -> Reviews] /\ reviews \in 0..MaxReviews
          /\ \A e \in asked : e.item \in Items /\ e.from \in Reviews
      BY <1>0 DEF TypeOK
    <2>1. CASE UNCHANGED <<review, asked, reviews>>
      BY <2>0, <2>1
    <2>2. ASSUME NEW p \in Items, NEW c \in Items, NEW s \in SpawnReviews, SpawnChild(p, c, s)
          PROVE  Goal
      <3>1. s \in Reviews
        BY GrantsAssumption
      <3> QED
        BY <2>0, <2>2, <3>1 DEF SpawnChild, bounds
    <2>3. ASSUME NEW i \in Items, NEW s \in SetReviews, UpdateMetadata(i, s) PROVE Goal
      BY <2>0, <2>3, GrantsAssumption DEF UpdateMetadata
    <2>4. ASSUME NEW g \in Grants, NEW i \in Items, NEW why, RequestEscalation(g, i, why), reviews' = reviews
          PROVE  Goal
      <3> DEFINE new == [item |-> i, why |-> why, from |-> review[i]]
      <3>1. new.item \in Items /\ new.from \in Reviews
        BY <2>0
      <3>2. asked' \subseteq asked \union {new}
        BY <2>4 DEF RequestEscalation
      <3>3. review' = review \/ review' = [review EXCEPT ![i] = "blocked"]
        BY <2>4 DEF RequestEscalation
      <3> HIDE DEF new
      <3>4. review' \in [Items -> Reviews]
        BY <2>0, <3>3 DEF Reviews
      <3> QED
        BY <2>0, <2>4, <3>1, <3>2, <3>4
    <2>5. ASSUME NEW g \in Grants, Write(g) PROVE Goal
      <3>1. reviews' = reviews /\ request[g].item \in Items
        BY <1>0, <2>5 DEF Write, bounds, TypeOK
      <3>2. \/ UNCHANGED <<asked, review>>
            \/ RequestEscalation(g, request[g].item, <<request[g].template, request[g].reason>>)
        BY <2>5 DEF Write
      <3> QED
        BY <2>1, <2>4, <3>1, <3>2
    <2>6. CASE ~(UNCHANGED <<review, asked, reviews>>)
      <3>1. \/ \E p, c \in Items, s \in SpawnReviews : SpawnChild(p, c, s)
            \/ \E i \in Items, s \in SetReviews : UpdateMetadata(i, s)
            \/ \E g \in Grants : Write(g)
        BY <2>6 DEF Next, vars, bounds, CreateRoot, CreateToken, Revoke, RevokeAllNonRoot, EndLate, Ask,
                    Retry, Evaluate, Answer, Crash
      <3> HIDE DEF Goal
      <3>2. Goal
        BY <2>2, <2>3, <2>5, <3>1
      <3> QED
        BY <3>2 DEF Goal
    <2> QED
      BY <2>1, <2>6
  <1> QED
    BY <1>1, <1>2, <1>3, <1>4, <1>5, <1>6, <1>7 DEF TypeOK, Row, Request

-----------------------------------------------------------------------------
(* Theorems                                                                *)

LEMMA GrantsStep == GrantsInv /\ [Next]_vars => GrantsInv'
  BY TypeStep, RequestsStep, OutcomesStep, DelegationsStep, ShownStep DEF GrantsInv

\* Tokens are granted by tokens whose scopes cover theirs, and what a request under way
\* has decided still holds of the rows it was decided on (Issue, grants.Reduce).
THEOREM Invariance == Spec => []GrantsInv
  <1>1. Init => GrantsInv
    <2> SUFFICES ASSUME Init PROVE GrantsInv
      OBVIOUS
    <2>0. /\ \A t \in Tokens : token[t] = NoToken
          /\ \A g \in Grants : request[g] = NoRequest /\ outcomes[g] = {}
          /\ Grants \subseteq Tokens
      BY DEF Init, Tokens
    <2>1. TypeOK
      <3>1. token \in [Tokens -> Row]
        BY GrantsAssumption DEF Init, NoToken, Row
      <3>2. request \in [Grants -> Request]
        BY GrantsAssumption DEF Init, NoRequest, Request, Steps, Decisions, Reasons
      <3>3. /\ late = {} /\ asked = {} /\ shown = {} /\ outcomes \in [Grants -> SUBSET Decisions]
            /\ review \in [Items -> Reviews]
            /\ revokes \in 0..MaxRevokes /\ crashes \in 0..MaxCrashes /\ reviews \in 0..MaxReviews
        BY GrantsAssumption DEF Init, Reviews
      <3>4. /\ above \in [Items -> SUBSET Items]
            /\ \A i \in Items : \A j \in above[i] : i \in above[i] /\ j \in above[j] /\ above[j] \subseteq above[i]
        BY GrantsAssumption DEF Init
      <3> QED
        BY <3>1, <3>2, <3>3, <3>4 DEF TypeOK, Row, Request
    <2>2. RequestsOK
      BY <2>0 DEF RequestsOK, NoRequest
    <2>3. OutcomesOK /\ DelegationsOK
      BY <2>0 DEF OutcomesOK, DelegationsOK, NoToken
    <2>4. ShownSecretsWork
      BY DEF Init, ShownSecretsWork
    <2> QED
      BY <2>1, <2>2, <2>3, <2>4 DEF GrantsInv
  <1> QED
    BY <1>1, GrantsStep, PTL DEF Spec

\* Tokens, requests and relations keep their types, only revoked tokens have late
\* requests, and the relations stay a tree (auth.Service, SpawnChild, Issue).
THEOREM TypeCorrect == Spec => []TypeOK
  <1>1. GrantsInv => TypeOK
    BY DEF GrantsInv
  <1> QED
    BY <1>1, Invariance, PTL

\* What the scopes cover, the rules of access allow.
LEMMA CoversNarrows == GrantsInv => NoWiderThanParent
  <1> SUFFICES ASSUME GrantsInv, NEW g \in Grants, token[g].state # "none", NEW i \in Items, Exists(i)
               PROVE  /\ CanReadWorkItem(g, i) => CanReadWorkItem(token[g].by, i)
                      /\ CanWriteWorkItem(g, i) => CanWriteWorkItem(token[g].by, i)
                      /\ FeedShows(g, i) => FeedShows(token[g].by, i)
    BY DEF NoWiderThanParent
  <1> DEFINE p == token[g].by
             held == token[p].scopes
  <1>1. PICK template \in Templates \union {"other", "none"}, root \in Items :
           /\ token[g].scopes = templateScopeSet(template, root)
           /\ Covers(held, above[root], template, root)
    BY DEF GrantsInv, DelegationsOK
  <1>2. g \notin Roots /\ Words \intersect Items = {}
    BY GrantsAssumption
  <1>3. /\ token[g].scopes \intersect Items = {root} /\ token[g].scopes # {}
        /\ token[g].scopes \ Items \subseteq {"assigned", "read", "write"}
        /\ "read" \in token[g].scopes /\ "read" \notin Items /\ "assigned" \in token[g].scopes
        /\ "assigned" \notin Items /\ "write" \notin Items
        /\ "feed" \notin token[g].scopes /\ "read_all" \notin token[g].scopes
        /\ "write_all" \notin token[g].scopes
    BY <1>1, <1>2 DEF templateScopeSet, Words
  <1>4. /\ \A scope \in token[g].scopes \ Items : scope \in held \/ (scope = "assigned" /\ "feed" \in held)
        /\ root \in held \/ held \intersect Items \intersect above[root] # {}
    BY <1>1 DEF Covers
  <1>5. workItemInAnyTree(g, i) => workItemInAnyTree(p, i)
    <2> SUFFICES ASSUME root \in above[i] PROVE \E r \in held \intersect Items : r \in above[i]
      BY <1>3 DEF workItemInAnyTree
    <2>1. above[root] \subseteq above[i]
      BY DEF GrantsInv, TypeOK
    <2> QED
      BY <1>4, <2>1
  <1>6. "read" \in held /\ ("write" \in token[g].scopes => "write" \in held)
        /\ ("assigned" \in held \/ "feed" \in held)
    BY <1>3, <1>4
  <1>7. ~Unscoped(g)
    BY <1>2, <1>3 DEF Unscoped
  <1> HIDE DEF p
  <1>8. CanReadWorkItem(g, i) => CanReadWorkItem(p, i)
    BY <1>3, <1>5, <1>6, <1>7 DEF CanReadWorkItem
  <1>9. CanWriteWorkItem(g, i) => CanWriteWorkItem(p, i)
    BY <1>3, <1>5, <1>6, <1>7 DEF CanWriteWorkItem
  <1>10. FeedShows(g, i) => FeedShows(p, i)
    BY <1>3, <1>5, <1>6, <1>7 DEF FeedShows
  <1> QED
    BY <1>8, <1>9, <1>10 DEF p

\* Delegation only narrows: a granted token can read, write and follow nothing
\* that the token it was granted by cannot (grants.Reduce, package access).
THEOREM DelegationNarrows == Spec => []NoWiderThanParent
  BY CoversNarrows, Invariance, PTL

\* Every secret that reached a client is the one its token row holds the hash of,
\* through crashes and repeats of the request (Issue, the token projector).
THEOREM SecretsWork == Spec => []ShownSecretsWork
  <1>1. GrantsInv => ShownSecretsWork
    BY DEF GrantsInv
  <1> QED
    BY <1>1, Invariance, PTL

\* A grant has one outcome, and a token just when that is a grant (Issue under a
\* deterministic grant id, existingIssueResult).
THEOREM SettledOnce == Spec => []GrantSettledOnce
  <1>1. GrantsInv => GrantSettledOnce
    <2> SUFFICES ASSUME GrantsInv, NEW g \in Grants PROVE Cardinality(outcomes[g]) <= 1
      BY DEF GrantSettledOnce, GrantsInv, OutcomesOK
    <2>1. outcomes[g] = {} \/ \E x : outcomes[g] = {x}
      BY DEF GrantsInv, OutcomesOK
    <2>2. CASE outcomes[g] = {}
      BY <2>2, FS_EmptySet
    <2>3. ASSUME NEW x, outcomes[g] = {x} PROVE Cardinality(outcomes[g]) <= 1
      <3>1. Cardinality(outcomes[g]) = 1
        BY <2>3, FS_Singleton
      <3> QED
        BY <3>1
    <2> QED
      BY <2>1, <2>2, <2>3
  <1> QED
    BY <1>1, Invariance, PTL

-----------------------------------------------------------------------------
(* Grants keeps the promise of Authority.                                  *)

Verbs == {"read", "write", "feed"}
standingBar == [t \in Tokens |-> token[t].state]
rightsBar == [t \in Tokens |-> Rights(t)]
giverBar == [t \in Tokens |-> token[t].by]
settledBar == {g \in Grants : outcomes[g] # {}}
itemsBar == {i \in Items : Exists(i)}
bars == <<standingBar, rightsBar, giverBar, settledBar, itemsBar>>

\* The steps of the promise, in the variables of Grants.
Keeps(t) == token'[t].state = token[t].state \/ (token[t].state = "active" /\ token'[t].state = "revoked")
Comes(t) ==
    /\ token[t].state = "none" /\ token'[t].state = "active"
    /\ \A u \in Tokens \ {t} : Keeps(u) /\ Rights(u)' = Rights(u) /\ token'[u].by = token[u].by
    /\ Rights(t)' \subseteq Verbs \X itemsBar
    /\ itemsBar' = itemsBar
Promised ==
    \/ UNCHANGED bars
    \/ \E t \in Tokens \ Grants : Comes(t) /\ settledBar' = settledBar
    \/ \E g \in Grants \ settledBar :
        /\ settledBar' = settledBar \union {g}
        /\ \/ /\ Comes(g) /\ token'[g].by \in Tokens /\ token[token'[g].by].state # "none"
              /\ Rights(g)' \subseteq Rights(token'[g].by)
           \/ UNCHANGED <<standingBar, rightsBar, giverBar, itemsBar>>
    \/ /\ \A t \in Tokens : Keeps(t)
       /\ UNCHANGED <<rightsBar, giverBar, settledBar, itemsBar>>
    \/ \E i \in Items \ itemsBar :
        /\ itemsBar' = itemsBar \union {i}
        /\ \A t \in Tokens : \E new \in SUBSET (Verbs \X {i}) :
            /\ Rights(t)' = Rights(t) \union new
            /\ token[t].state = "none" => new = {}
            /\ t \in Grants /\ token[t].state # "none" =>
                  token[t].by \in Tokens /\ new \subseteq Rights(token[t].by)'
        /\ UNCHANGED <<standingBar, giverBar, settledBar>>

LEMMA PromiseKept ==
    ASSUME Promised
    PROVE  [Delegation!AuthorityNext]_(Delegation!authorityVars)
  <1> USE DEF standingBar, rightsBar, giverBar, settledBar, itemsBar, Verbs
  <1>1. CASE UNCHANGED bars
    BY <1>1 DEF bars, Delegation!authorityVars
  <1>2. ASSUME NEW t \in Tokens, Comes(t) PROVE Delegation!Appears(t)
    BY <1>2 DEF Comes, Keeps, Delegation!Appears, Delegation!Stays
  <1>3. ASSUME NEW t \in Tokens \ Grants, Comes(t), settledBar' = settledBar
        PROVE  Delegation!AuthorityNext
    BY <1>2, <1>3 DEF Delegation!AuthorityNext, Delegation!Mint
  <1>4. ASSUME NEW g \in Grants \ settledBar, settledBar' = settledBar \union {g}, Comes(g),
               token'[g].by \in Tokens, token[token'[g].by].state # "none",
               Rights(g)' \subseteq Rights(token'[g].by)
        PROVE  Delegation!AuthorityNext
    <2>1. g \in Tokens
      BY DEF Tokens
    <2>2. Delegation!Delegate(g)
      BY <1>2, <1>4, <2>1 DEF Delegation!Delegate
    <2> QED
      BY <2>1, <2>2 DEF Delegation!AuthorityNext
  <1>5. ASSUME NEW g \in Grants \ settledBar, settledBar' = settledBar \union {g},
               UNCHANGED <<standingBar, rightsBar, giverBar, itemsBar>>
        PROVE  Delegation!AuthorityNext
    <2>1. g \in Tokens
      BY DEF Tokens
    <2> QED
      BY <1>5, <2>1 DEF Delegation!AuthorityNext, Delegation!Refuse
  <1>6. ASSUME \A t \in Tokens : Keeps(t), UNCHANGED <<rightsBar, giverBar, settledBar, itemsBar>>
        PROVE  Delegation!AuthorityNext
    BY <1>6 DEF Delegation!AuthorityNext, Delegation!Revoke, Delegation!Stays, Keeps
  <1>7. ASSUME NEW i \in Items \ itemsBar, itemsBar' = itemsBar \union {i},
               \A t \in Tokens : \E new \in SUBSET (Verbs \X {i}) :
                   /\ Rights(t)' = Rights(t) \union new
                   /\ token[t].state = "none" => new = {}
                   /\ t \in Grants /\ token[t].state # "none" =>
                         token[t].by \in Tokens /\ new \subseteq Rights(token[t].by)',
               UNCHANGED <<standingBar, giverBar, settledBar>>
        PROVE  Delegation!AuthorityNext
    <2>1. Delegation!Arrive(i)
      BY <1>7 DEF Delegation!Arrive
    <2> QED
      BY <2>1 DEF Delegation!AuthorityNext
  <1> QED
    BY <1>1, <1>3, <1>4, <1>5, <1>6, <1>7 DEF Promised

\* A right over an item, by the rules of access.
May(t, v, i) ==
    \/ v = "read" /\ CanReadWorkItem(t, i)
    \/ v = "write" /\ CanWriteWorkItem(t, i)
    \/ v = "feed" /\ FeedShows(t, i)

\* Rights are pairs: a verb, and an item of the set for that verb.
LEMMA PairsAre ==
    ASSUME NEW R \in SUBSET Items, NEW W \in SUBSET Items, NEW F \in SUBSET Items
    PROVE  ({"read"} \X R) \union ({"write"} \X W) \union ({"feed"} \X F)
              = {x \in Verbs \X Items : \/ x[1] = "read" /\ x[2] \in R
                                        \/ x[1] = "write" /\ x[2] \in W
                                        \/ x[1] = "feed" /\ x[2] \in F}
  <1> DEFINE P == ({"read"} \X R) \union ({"write"} \X W) \union ({"feed"} \X F)
             S == {x \in Verbs \X Items : \/ x[1] = "read" /\ x[2] \in R
                                          \/ x[1] = "write" /\ x[2] \in W
                                          \/ x[1] = "feed" /\ x[2] \in F}
  <1>1. ASSUME NEW x \in P PROVE x \in S
    BY <1>1 DEF Verbs
  <1>2. ASSUME NEW x \in S PROVE x \in P
    <2>1. PICK v \in Verbs, i \in Items : x = <<v, i>>
      BY <1>2
    <2>2. (v = "read" /\ i \in R) \/ (v = "write" /\ i \in W) \/ (v = "feed" /\ i \in F)
      BY <1>2, <2>1
    <2> QED
      BY <2>1, <2>2
  <1> QED
    BY <1>1, <1>2

LEMMA RightsAre ==
    ASSUME NEW t
    PROVE  Rights(t) = IF token[t].state = "none" THEN {}
                       ELSE {x \in Verbs \X Items : Exists(x[2]) /\ May(t, x[1], x[2])}
  <1> DEFINE R == {i \in Items : Exists(i) /\ CanReadWorkItem(t, i)}
             W == {i \in Items : Exists(i) /\ CanWriteWorkItem(t, i)}
             F == {i \in Items : Exists(i) /\ FeedShows(t, i)}
  <1>1. Rights(t) = IF token[t].state = "none" THEN {}
                    ELSE {x \in Verbs \X Items : \/ x[1] = "read" /\ x[2] \in R
                                                 \/ x[1] = "write" /\ x[2] \in W
                                                 \/ x[1] = "feed" /\ x[2] \in F}
    BY PairsAre DEF Rights
  <1> QED
    BY <1>1 DEF May

\* The same of the state after a step.
LEMMA RightsWillBe ==
    ASSUME NEW t
    PROVE  Rights(t)' = IF token'[t].state = "none" THEN {}
                        ELSE {x \in Verbs \X Items : Exists(x[2])' /\ May(t, x[1], x[2])'}
  <1> DEFINE R == {i \in Items : Exists(i)' /\ CanReadWorkItem(t, i)'}
             W == {i \in Items : Exists(i)' /\ CanWriteWorkItem(t, i)'}
             F == {i \in Items : Exists(i)' /\ FeedShows(t, i)'}
  <1>1. Rights(t)' = IF token'[t].state = "none" THEN {}
                     ELSE {x \in Verbs \X Items : \/ x[1] = "read" /\ x[2] \in R
                                                  \/ x[1] = "write" /\ x[2] \in W
                                                  \/ x[1] = "feed" /\ x[2] \in F}
    BY PairsAre DEF Rights
  <1> QED
    BY <1>1 DEF May

\* Rights depend on a token's scopes and on an item's ancestors.
LEMMA MayKept ==
    ASSUME NEW t, NEW v, NEW i, token'[t].scopes = token[t].scopes, above'[i] = above[i]
    PROVE  May(t, v, i)' <=> May(t, v, i)
  BY DEF May, CanReadWorkItem, CanWriteWorkItem, FeedShows, workItemInAnyTree, Unscoped

LEMMA RightsKept ==
    ASSUME NEW t \in Tokens, above' = above, token'[t].scopes = token[t].scopes,
           token'[t].state = "none" <=> token[t].state = "none"
    PROVE  Rights(t)' = Rights(t)
  <1>1. \A v, i : May(t, v, i)' <=> May(t, v, i)
    BY MayKept
  <1>2. \A i : Exists(i)' <=> Exists(i)
    BY DEF Exists
  <1> QED
    BY <1>1, <1>2, RightsAre, RightsWillBe

\* The operator's tokens, and what they are given.
LEMMA CreatedComes ==
    ASSUME TypeOK, NEW t \in Tokens, token[t].state = "none", token'[t].state = "active",
           above' = above,
           \A u \in Tokens \ {t} : /\ Keeps(u) /\ token'[u].by = token[u].by
                                    /\ token'[u].scopes = token[u].scopes
    PROVE  Comes(t)
  <1>1. \A u \in Tokens \ {t} : Rights(u)' = Rights(u)
    BY RightsKept DEF Keeps
  <1>2. itemsBar' = itemsBar
    BY DEF itemsBar, Exists
  <1>3. Rights(t)' \subseteq Verbs \X itemsBar
    <2>1. Rights(t)' = {x \in Verbs \X Items : Exists(x[2])' /\ May(t, x[1], x[2])'}
      BY RightsWillBe
    <2> QED
      BY <2>1 DEF itemsBar, Exists
  <1> QED
    BY <1>1, <1>2, <1>3 DEF Comes

\* A token that is at most revoked keeps its rights.
Unchanged(t) ==
    /\ Keeps(t) /\ token'[t].by = token[t].by /\ token'[t].scopes = token[t].scopes

LEMMA RevokedKeeps ==
    ASSUME TypeOK, NEW t \in Tokens, Live(t), token'[t] = [token[t] EXCEPT !.state = "revoked"]
    PROVE  Unchanged(t)
  <1>1. token[t] \in Row
    BY DEF TypeOK, Row
  <1> QED
    BY <1>1 DEF Row, Live, Unchanged, Keeps

LEMMA CreateRootPromise ==
    ASSUME GrantsInv, NEW r \in Roots, NEW a \in Roots \union {Nobody}, CreateRoot(r, a)
    PROVE  Promised
  <1> DEFINE live == {t \in Roots : Live(t)}
             new == Created(r, a, "human", {}, 1)
  <1>1. TypeOK /\ r \in Tokens \ Grants /\ token[r].state = "none"
        /\ above' = above /\ settledBar' = settledBar
    BY GrantsAssumption DEF GrantsInv, CreateRoot, Tokens, settledBar
  <1>2. new.state = "active"
    BY <1>1 DEF Created
  <1>3. token' = [t \in Tokens |-> IF t = r THEN new ELSE
                     IF t \in live THEN [token[t] EXCEPT !.state = "revoked"] ELSE token[t]]
    BY DEF CreateRoot
  <1> HIDE DEF new
  <1>4. token'[r].state = "active"
    BY <1>1, <1>2, <1>3
  <1>5. ASSUME NEW u \in Tokens \ {r} PROVE Unchanged(u)
    <2>1. CASE u \in live
      BY <1>1, <1>3, <2>1, RevokedKeeps
    <2>2. CASE u \notin live
      <3> HIDE DEF live
      <3>1. token'[u] = token[u]
        BY <1>3, <2>2
      <3> QED
        BY <3>1 DEF Unchanged, Keeps
    <2> QED
      BY <2>1, <2>2
  <1>6. Comes(r)
    BY <1>1, <1>4, <1>5, CreatedComes DEF Unchanged
  <1> QED
    BY <1>1, <1>6 DEF Promised

LEMMA CreateTokenPromise ==
    ASSUME GrantsInv, NEW m \in Minted, NEW a \in Roots, CreateToken(m, a)
    PROVE  Promised
  <1> DEFINE new == Created(m, a, MintedAs[m].source, MintedAs[m].scopes, 1)
  <1>1. TypeOK /\ m \in Tokens \ Grants /\ token[m].state = "none"
        /\ above' = above /\ settledBar' = settledBar
    BY GrantsAssumption DEF GrantsInv, CreateToken, Tokens, settledBar
  <1>2. new.state = "active"
    BY <1>1 DEF Created
  <1>3. token' = [token EXCEPT ![m] = new] /\ m \in DOMAIN token
    BY <1>1 DEF CreateToken, TypeOK
  <1> HIDE DEF new
  <1>4. token'[m].state = "active" /\ \A u \in Tokens \ {m} : token'[u] = token[u]
    BY <1>1, <1>2, <1>3 DEF TypeOK
  <1>5. Comes(m)
    BY <1>1, <1>4, CreatedComes DEF Keeps
  <1> QED
    BY <1>1, <1>5 DEF Promised

LEMMA RevokePromise ==
    ASSUME GrantsInv, NEW ts \in SUBSET Tokens, \A t \in ts : Live(t), RevokeSet(ts),
           UNCHANGED <<above, outcomes>>
    PROVE  Promised
  <1>1. TypeOK
    BY DEF GrantsInv
  <1>2. ASSUME NEW u \in Tokens PROVE Unchanged(u)
    <2>1. CASE u \in ts
      BY <1>1, <2>1, RevokedKeeps DEF RevokeSet
    <2>2. CASE u \notin ts
      BY <2>2 DEF RevokeSet, Unchanged, Keeps
    <2> QED
      BY <2>1, <2>2
  <1>3. rightsBar' = rightsBar
    <2>1. \A u \in Tokens : Rights(u)' = Rights(u)
      BY <1>2, RightsKept DEF Unchanged, Keeps
    <2> QED
      BY <2>1 DEF rightsBar
  <1>4. UNCHANGED <<giverBar, settledBar, itemsBar>>
    BY <1>2 DEF Unchanged, giverBar, settledBar, itemsBar, Exists
  <1> QED
    BY <1>2, <1>3, <1>4 DEF Promised, Unchanged

\* A step that touches no token, no relation and no outcome.
LEMMA QuietPromise ==
    ASSUME UNCHANGED <<token, above, outcomes>>
    PROVE  Promised
  <1>1. \A t : Rights(t)' = Rights(t)
    BY DEF Rights, Exists, CanReadWorkItem, CanWriteWorkItem, FeedShows, workItemInAnyTree, Unscoped
  <1>2. UNCHANGED bars
    BY <1>1 DEF bars, standingBar, rightsBar, giverBar, settledBar, itemsBar, Exists
  <1> QED
    BY <1>2 DEF Promised

\* What access forbids to the giver is no right of the token.
Narrow ==
    \A g \in Grants : token[g].state # "none" =>
        /\ token[g].by \in Tokens /\ token[token[g].by].state # "none"
        /\ Rights(g) \subseteq Rights(token[g].by)

LEMMA GrantsAreNarrow == GrantsInv => Narrow
  <1> SUFFICES ASSUME GrantsInv, NEW g \in Grants, token[g].state # "none"
               PROVE  /\ token[g].by \in Tokens /\ token[token[g].by].state # "none"
                      /\ Rights(g) \subseteq Rights(token[g].by)
    BY DEF Narrow
  <1> DEFINE p == token[g].by
  <1>0. p \in Tokens /\ token[p].state # "none"
    BY DEF GrantsInv, DelegationsOK
  <1>1. \A i \in Items : Exists(i) =>
            /\ CanReadWorkItem(g, i) => CanReadWorkItem(p, i)
            /\ CanWriteWorkItem(g, i) => CanWriteWorkItem(p, i)
            /\ FeedShows(g, i) => FeedShows(p, i)
    BY CoversNarrows DEF NoWiderThanParent
  <1> HIDE DEF p
  <1>2. \A i \in Items, v \in Verbs : Exists(i) /\ May(g, v, i) => May(p, v, i)
    BY <1>1 DEF May
  <1>3. /\ Rights(g) = {x \in Verbs \X Items : Exists(x[2]) /\ May(g, x[1], x[2])}
        /\ Rights(p) = {x \in Verbs \X Items : Exists(x[2]) /\ May(p, x[1], x[2])}
    BY <1>0, RightsAre
  <1>4. Rights(g) \subseteq Rights(p)
    BY <1>2, <1>3
  <1> QED
    BY <1>0, <1>4 DEF p

\* A child arrives where there was none: rights over the other items stay as they are.
LEMMA SpawnPromise ==
    ASSUME GrantsInv, Narrow', NEW p \in Items, NEW c \in Items, NEW s \in SpawnReviews,
           SpawnChild(p, c, s)
    PROVE  Promised
  <1>1. /\ above \in [Items -> SUBSET Items] /\ ~Exists(c)
        /\ above' = [above EXCEPT ![c] = above[p] \union {c}]
        /\ UNCHANGED <<token, outcomes>>
    BY DEF SpawnChild, GrantsInv, TypeOK
  <1>2. Exists(c)' /\ \A i \in Items \ {c} : above'[i] = above[i] /\ (Exists(i)' <=> Exists(i))
    BY <1>1 DEF Exists
  <1>3. c \in Items \ itemsBar /\ itemsBar' = itemsBar \union {c}
    BY <1>1, <1>2 DEF itemsBar
  <1>4. UNCHANGED <<standingBar, giverBar, settledBar>>
    BY <1>1 DEF standingBar, giverBar, settledBar
  <1>5. ASSUME NEW t \in Tokens
        PROVE  \E new \in SUBSET (Verbs \X {c}) :
                   /\ Rights(t)' = Rights(t) \union new
                   /\ token[t].state = "none" => new = {}
                   /\ t \in Grants /\ token[t].state # "none" =>
                         token[t].by \in Tokens /\ new \subseteq Rights(token[t].by)'
    <2>1. CASE token[t].state = "none"
      <3>1. Rights(t)' = {} /\ Rights(t) = {}
        BY <1>1, <2>1, RightsAre, RightsWillBe
      <3> QED
        BY <2>1, <3>1
    <2>2. CASE token[t].state # "none"
      <3> DEFINE new == {x \in Rights(t)' : x[2] = c}
      <3>1. /\ Rights(t) = {x \in Verbs \X Items : Exists(x[2]) /\ May(t, x[1], x[2])}
            /\ Rights(t)' = {x \in Verbs \X Items : Exists(x[2])' /\ May(t, x[1], x[2])'}
        BY <1>1, <2>2, RightsAre, RightsWillBe
      <3>2. \A i \in Items \ {c}, v \in Verbs : May(t, v, i)' <=> May(t, v, i)
        BY <1>1, <1>2, MayKept
      <3>3. new \in SUBSET (Verbs \X {c})
        BY <3>1
      <3>4. Rights(t)' = Rights(t) \union new
        <4>1. \A x \in Verbs \X Items : x[2] # c => (x \in Rights(t)' <=> x \in Rights(t))
          BY <1>2, <3>1, <3>2
        <4>2. Rights(t) \subseteq Verbs \X Items /\ Rights(t)' \subseteq Verbs \X Items
          BY <3>1
        <4>3. \A x \in Rights(t) : x[2] # c
          BY <1>1, <3>1
        <4> QED
          BY <4>1, <4>2, <4>3
      <3>5. t \in Grants => token[t].by \in Tokens /\ new \subseteq Rights(token[t].by)'
        BY <1>1, <2>2 DEF Narrow
      <3> HIDE DEF new
      <3> QED
        BY <2>2, <3>3, <3>4, <3>5
    <2> QED
      BY <2>1, <2>2
  <1> QED
    BY <1>3, <1>4, <1>5 DEF Promised

\* A decision is written once: with a token that has a part of its giver's rights, or
\* with none.
LEMMA WritePromise ==
    ASSUME GrantsInv, Narrow', NEW g \in Grants, Write(g)
    PROVE  Promised
  <1> DEFINE q == request[g]
  <1>1. /\ TypeOK /\ g \in Tokens /\ q.step = "decided" /\ outcomes[g] = {}
        /\ q.parent \in Tokens /\ token[q.parent].state # "none" /\ token[g].state = "none"
    BY WriteEffect DEF Write, GrantsInv, RequestsOK, Tokens
  <1>2. g \in Grants \ settledBar /\ settledBar' = settledBar \union {g} /\ above' = above
    <2>1. outcomes' = [outcomes EXCEPT ![g] = @ \union {q.decision}] /\ above' = above
      BY DEF Write
    <2>2. g \notin settledBar
      BY <1>1 DEF settledBar
    <2>3. \A h \in Grants : outcomes'[h] # {} <=> outcomes[h] # {} \/ h = g
      BY <1>1, <2>1 DEF TypeOK
    <2> QED
      BY <2>1, <2>2, <2>3 DEF settledBar
  <1>3. CASE q.decision = "grant"
    <2> DEFINE scopes == templateScopeSet(q.template, q.item)
               new == Created(g, q.parent, "agent", scopes, q.attempt)
    <2>1. new.state = "active" /\ new.by = q.parent
      BY <1>1 DEF Created
    <2>2. token' = [token EXCEPT ![g] = new]
      BY <1>3 DEF Write
    <2> HIDE DEF new, q
    <2>3. /\ token'[g].state = "active" /\ token'[g].by = q.parent
          /\ \A u \in Tokens \ {g} : token'[u] = token[u]
      BY <1>1, <2>1, <2>2 DEF TypeOK
    <2>4. Comes(g)
      BY <1>1, <1>2, <2>3, CreatedComes DEF Keeps
    <2>5. Rights(g)' \subseteq Rights(token'[g].by)
      <3>1. PICK giver \in Tokens : giver = q.parent /\ token'[g].by = giver /\ giver # g
        BY <1>1, <2>3
      <3>2. Rights(g)' \subseteq Rights(giver)'
        BY <2>3, <3>1 DEF Narrow
      <3>3. Rights(giver)' = Rights(giver)
        BY <2>4, <3>1 DEF Comes
      <3> QED
        BY <3>1, <3>2, <3>3
    <2> QED
      BY <1>1, <1>2, <2>3, <2>4, <2>5 DEF Promised
  <1>4. CASE q.decision # "grant"
    <2>1. token' = token
      BY <1>4, WriteEffect
    <2>2. \A t : Rights(t)' = Rights(t)
      BY <1>2, <2>1 DEF Rights, Exists, CanReadWorkItem, CanWriteWorkItem, FeedShows,
                        workItemInAnyTree, Unscoped
    <2>3. UNCHANGED <<standingBar, rightsBar, giverBar, itemsBar>>
      BY <1>2, <2>1, <2>2 DEF standingBar, rightsBar, giverBar, itemsBar, Exists
    <2> QED
      BY <1>2, <2>3 DEF Promised
  <1> QED
    BY <1>3, <1>4

\* Grants implements Authority: rights over an item that exists never change, a grant
\* hands on a part of what its giver has and is settled once, and a revoked token stays
\* revoked, whatever operators, agents, retries and crashes do (auth.Service, Issue).
THEOREM AuthorityImplemented == Spec => ImplementsDelegation
  <1>1. Init => Delegation!AuthorityInit
    <2> SUFFICES ASSUME Init PROVE Delegation!AuthorityInit
      OBVIOUS
    <2>1. \A t \in Tokens : token[t].state = "none" /\ token[t].by = Nobody
      BY DEF Init, NoToken
    <2>2. \A t \in Tokens : Rights(t) = {}
      BY <2>1 DEF Rights
    <2>3. {g \in Grants : outcomes[g] # {}} = {}
      BY DEF Init
    <2> QED
      BY <2>1, <2>2, <2>3 DEF Delegation!AuthorityInit
  <1>2. GrantsInv /\ Narrow' /\ [Next]_vars => [Delegation!AuthorityNext]_(Delegation!authorityVars)
    <2> SUFFICES ASSUME GrantsInv, Narrow', [Next]_vars PROVE Promised
      BY PromiseKept
    <2>1. CASE UNCHANGED <<token, above, outcomes>>
      BY <2>1, QuietPromise
    <2>2. ASSUME NEW t \in Tokens, Revoke(t) PROVE Promised
      BY <2>2, RevokePromise DEF Revoke
    <2>3. ASSUME RevokeAllNonRoot PROVE Promised
      <3> DEFINE ts == {t \in Tokens \ Roots : Live(t)}
      <3>1. RevokeSet(ts) /\ ts \in SUBSET Tokens /\ (\A u \in ts : Live(u)) /\ UNCHANGED <<above, outcomes>>
        BY <2>3 DEF RevokeAllNonRoot
      <3> HIDE DEF ts
      <3> QED
        BY <3>1, RevokePromise
    <2>4. CASE ~UNCHANGED <<token, above, outcomes>>
      <3>1. \/ \E r \in Roots, a \in Roots \union {Nobody} : CreateRoot(r, a)
            \/ \E m \in Minted, a \in Roots : CreateToken(m, a)
            \/ \E t \in Tokens : Revoke(t)
            \/ RevokeAllNonRoot
            \/ \E p, c \in Items, s \in SpawnReviews : SpawnChild(p, c, s)
            \/ \E g \in Grants : Write(g)
        BY <2>4 DEF Next, vars, bounds, EndLate, UpdateMetadata, Ask, Retry, Evaluate, Answer, Crash
      <3> QED
        BY <2>2, <2>3, <3>1, CreateRootPromise, CreateTokenPromise, SpawnPromise, WritePromise
    <2> QED
      BY <2>1, <2>4
  <1> QED
    BY <1>1, <1>2, Invariance, GrantsAreNarrow, PTL
       DEF Spec, ImplementsDelegation, Delegation!AuthoritySpec

=============================================================================
