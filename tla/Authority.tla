----------------------------- MODULE Authority -----------------------------
(***************************************************************************)
(* What tokens and grants promise about authority, said without scopes,     *)
(* trees, templates and requests: a token has rights over work items, which *)
(* nothing changes but the arrival of new items; a delegated token gets a   *)
(* part of what its giver has, of old items and of new ones; a grant is      *)
(* settled once, with a token or without; a revoked token stays revoked.    *)
(* Grants implements this specification.                                    *)
(***************************************************************************)
CONSTANTS
    Token,
    Delegated,      \* tokens that can only be granted by others
    Verb,           \* what there is to be allowed
    Item,
    Nobody

VARIABLES
    standing,       \* none, active or revoked
    rights,         \* pairs of a verb and an item, for each token
    giver,          \* whose authority a token derives from
    settled,        \* grants that were decided
    items           \* items that exist

authorityVars == <<standing, rights, giver, settled, items>>

\* Nothing happens to token t but that it may be revoked.
Stays(t) == standing'[t] = standing[t] \/ (standing[t] = "active" /\ standing'[t] = "revoked")

AuthorityInit ==
    /\ standing = [t \in Token |-> "none"]
    /\ rights = [t \in Token |-> {}]
    /\ giver = [t \in Token |-> Nobody]
    /\ settled = {}
    /\ items \subseteq Item

\* Token t comes into being, with rights over what exists; nobody else's change.
Appears(t) ==
    /\ standing[t] = "none" /\ standing'[t] = "active"
    /\ \A u \in Token \ {t} : Stays(u) /\ rights'[u] = rights[u] /\ giver'[u] = giver[u]
    /\ rights'[t] \subseteq Verb \X items
    /\ UNCHANGED items

\* An operator's token; a new root takes the place of the live one.
Mint(t) ==
    /\ t \notin Delegated
    /\ Appears(t)
    /\ UNCHANGED settled

\* A grant: a part of the giver's rights.
Delegate(g) ==
    /\ g \in Delegated \ settled
    /\ Appears(g)
    /\ giver'[g] \in Token /\ standing[giver'[g]] # "none"
    /\ rights'[g] \subseteq rights[giver'[g]]
    /\ settled' = settled \union {g}

\* A grant that is denied or escalated.
Refuse(g) ==
    /\ g \in Delegated \ settled
    /\ settled' = settled \union {g}
    /\ UNCHANGED <<standing, rights, giver, items>>

Revoke ==
    /\ \A t \in Token : Stays(t)
    /\ UNCHANGED <<rights, giver, settled, items>>

\* What token t may do with a new item follows from what it may do with others, but a
\* delegated token gets nothing that its giver does not get.
Arrive(i) ==
    /\ i \in Item \ items
    /\ items' = items \union {i}
    /\ \A t \in Token : \E new \in SUBSET (Verb \X {i}) :
        /\ rights'[t] = rights[t] \union new
        /\ standing[t] = "none" => new = {}
        /\ t \in Delegated /\ standing[t] # "none" => new \subseteq rights'[giver[t]]
    /\ UNCHANGED <<standing, giver, settled>>

AuthorityNext ==
    \/ \E t \in Token : Mint(t) \/ Delegate(t) \/ Refuse(t)
    \/ Revoke
    \/ \E i \in Item : Arrive(i)

AuthoritySpec == AuthorityInit /\ [][AuthorityNext]_authorityVars

=============================================================================
