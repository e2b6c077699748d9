----------------------------- MODULE Approvals -----------------------------
(***************************************************************************)
(* approvals.Service: an approval is created pending and parks its work    *)
(* item in awaiting_approval; a decision, or its expiry, closes it and      *)
(* moves the item on.                                                      *)
(*                                                                         *)
(* Each operation is a transaction that locks the rows it decides on (the  *)
(* approval, then the item) until it commits, and so is one action.  An    *)
(* approval's id is derived from the idempotency key of the request that    *)
(* creates it: a request that is sent again, because its response was not   *)
(* recorded, names the same approval.                                       *)
(***************************************************************************)
EXTENDS Naturals, FiniteSets

CONSTANTS
    Item,           \* work items
    Approval,       \* approval ids
    ItemOf,         \* what each of them is about
    Requester,      \* the token that requests it
    Token,
    Human,          \* tokens that may decide: human source, not root
    Moves,          \* states callers of workitems.Transition ask for
    Start           \* the state of the items at the start

State == {"planned", "awaiting_approval", "running", "blocked", "done", "failed"}
Terminal == {"done", "failed"}
Status == {"none", "pending", "approved", "denied", "expired"}
NoToken == "nobody"

ASSUME ApprovalsAssumption ==
    /\ ItemOf \in [Approval -> Item]
    /\ Requester \in [Approval -> Token]
    /\ Human \subseteq Token
    /\ NoToken \notin Token
    /\ Moves \subseteq State
    /\ Start \in State

VARIABLES
    status,     \* approvals.status, none for no row
    decidedBy,  \* approvals.decided_by
    state,      \* work_items.state
    parked,     \* the transitions to awaiting_approval appended so far
    answered    \* approvals whose request has its response recorded

approvalVars == <<status, decidedBy, state, parked, answered>>

ApprovalsTypeOK ==
    /\ status \in [Approval -> Status]
    /\ decidedBy \in [Approval -> Token \union {NoToken}]
    /\ state \in [Item -> State]
    /\ parked \in SUBSET (Approval \X State)
    /\ answered \in SUBSET Approval

ApprovalsInit ==
    /\ status = [p \in Approval |-> "none"]
    /\ decidedBy = [p \in Approval |-> NoToken]
    /\ state = [i \in Item |-> Start]
    /\ parked = {}
    /\ answered = {}

-----------------------------------------------------------------------------
\* CreateInTx.  The approval.created event carries its expiry time and is new
\* on every run, but its projector leaves an existing row alone.  The event
\* that parks the item is identified by the request's key and the state the
\* item is in: appended from another state, it is another event.
CreateInTx(p) ==
    LET i == ItemOf[p]
    IN  /\ p \notin answered
        /\ state[i] \notin Terminal
        /\ status' = [status EXCEPT ![p] = IF @ = "none" THEN "pending" ELSE @]
        /\ IF state[i] = "awaiting_approval" \/ <<p, state[i]>> \in parked
           THEN UNCHANGED <<state, parked>>
           ELSE /\ state' = [state EXCEPT ![i] = "awaiting_approval"]
                /\ parked' = parked \union {<<p, state[i]>>}
        /\ answered' \in {answered, answered \union {p}}
        /\ UNCHANGED decidedBy

\* appendApprovalTransition: an item that is finished otherwise makes the whole
\* transaction roll back, and the approval stays pending.
CloseTo(p, t, s, to) ==
    LET i == ItemOf[p]
    IN  /\ state[i] \notin Terminal \/ state[i] = to
        /\ status' = [status EXCEPT ![p] = s]
        /\ decidedBy' = [decidedBy EXCEPT ![p] = t]
        /\ state' = [state EXCEPT ![i] = to]
        /\ UNCHANGED <<parked, answered>>

Outcome(s) ==
    CASE s = "approved" -> "running"
      [] s = "denied" -> "failed"
      [] s = "expired" -> "blocked"

\* Mutant of Decide: a decided approval can be decided again.
DecideAgain(p, t, s) ==
    /\ status[p] # "none"
    /\ t \in Human \ {Requester[p]}
    /\ CloseTo(p, t, s, Outcome(s))

\* Decide, by a human token other than the requester; the expiry time of the
\* approval is not looked at.
Decide(p, t, s) ==
    /\ status[p] = "pending"
    /\ t \in Human \ {Requester[p]}
    /\ CloseTo(p, t, s, Outcome(s))

\* Expire, by any token.
Expire(p, t) ==
    /\ status[p] = "pending"
    /\ CloseTo(p, t, "expired", Outcome("expired"))

\* workitems.Transition, by anyone.
Move(i, to) ==
    /\ state[i] \notin Terminal
    /\ to # state[i]
    /\ state' = [state EXCEPT ![i] = to]
    /\ UNCHANGED <<status, decidedBy, parked, answered>>

ApprovalsNext ==
    \/ \E p \in Approval, t \in Token :
        \/ \E s \in {"approved", "denied"} : Decide(p, t, s)
        \/ Expire(p, t)
    \/ \E i \in Item, to \in Moves : Move(i, to)

-----------------------------------------------------------------------------
(* Properties                                                              *)

\* The first decision wins: whatever requests, decisions, expiries and moves
\* of the item follow, a closed approval keeps its status and its decider.
FirstDecisionWins ==
    [][\A p \in Approval :
        status[p] \in {"approved", "denied", "expired"} =>
            status'[p] = status[p] /\ decidedBy'[p] = decidedBy[p]]_approvalVars

=============================================================================
