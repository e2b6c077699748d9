--------------------------- MODULE OutsideWrite ----------------------------
(***************************************************************************)
(* What httpconnector.Service promises of a write to an outside system,     *)
(* said without approvals' rows, outbox, leases and dispatchers: it is      *)
(* allowed by somebody who may decide it, or refused, once and for good; it *)
(* is made once, and once more for each lease that ran out before it was    *)
(* finished; its answer is known only after a call, and it is finished only *)
(* when its answer is known.  HTTPConnector implements this specification.  *)
(***************************************************************************)
EXTENDS Naturals

CONSTANTS
    Write,          \* writes that may be requested
    MayDecide,      \* who may allow each of them
    Nobody

VARIABLES
    allowedBy,      \* who allowed the write, Nobody so far
    refused,        \* writes that are denied, or were left undecided too long
    made,           \* calls that may have reached the outside
    leasesEnded,    \* leases that ran out
    known,          \* writes whose answer is on record
    finished        \* writes that are not called for again

writeVars == <<allowedBy, refused, made, leasesEnded, known, finished>>

Undecided(w) == allowedBy[w] = Nobody /\ w \notin refused

WriteInit ==
    /\ allowedBy = [w \in Write |-> Nobody]
    /\ refused = {}
    /\ made = [w \in Write |-> 0]
    /\ leasesEnded = [w \in Write |-> 0]
    /\ known = {}
    /\ finished = {}

\* approvals.Decide: approved.
Allow(w, t) ==
    /\ Undecided(w) /\ t \in MayDecide[w]
    /\ allowedBy' = [allowedBy EXCEPT ![w] = t]
    /\ UNCHANGED <<refused, made, leasesEnded, known, finished>>

\* approvals.Decide: denied, or approvals.Expire.
Refuse(w) ==
    /\ Undecided(w)
    /\ refused' = refused \union {w}
    /\ UNCHANGED <<allowedBy, made, leasesEnded, known, finished>>

\* executeAction: of an allowed write, with a lease that no call was made under.
Make(w) ==
    /\ allowedBy[w] # Nobody
    /\ made[w] <= leasesEnded[w]
    /\ made' = [made EXCEPT ![w] = @ + 1]
    /\ UNCHANGED <<allowedBy, refused, leasesEnded, known, finished>>

\* lease_until passes before the write is finished.
EndLease(w) ==
    /\ allowedBy[w] # Nobody /\ w \notin finished
    /\ leasesEnded' = [leasesEnded EXCEPT ![w] = @ + 1]
    /\ UNCHANGED <<allowedBy, refused, made, known, finished>>

\* appendSent.
Learn(w) ==
    /\ made[w] > 0
    /\ known' = known \union {w}
    /\ UNCHANGED <<allowedBy, refused, made, leasesEnded, finished>>

\* markOutboxSent.
Finish(w) ==
    /\ w \in known
    /\ finished' = finished \union {w}
    /\ UNCHANGED <<allowedBy, refused, made, leasesEnded, known>>

WriteNext ==
    \E w \in Write :
        \/ \E t \in MayDecide[w] : Allow(w, t)
        \/ Refuse(w) \/ Make(w) \/ EndLease(w) \/ Learn(w) \/ Finish(w)

WriteSpec == WriteInit /\ [][WriteNext]_writeVars

=============================================================================
