----------------------------- MODULE MCEventLog -----------------------------
(* Small instances of EventLog for TLC.                                     *)
EXTENDS EventLog, TLC

\* The metadata column holds the convergence checks and the review status: an
\* escalation keeps the checks it read and sets the review to blocked.  In the
\* state column it writes blocked.
MCEscalated(c, v) ==
    CASE c = "state" -> "blocked"
      [] OTHER -> IF v \in {"none", "none_blocked"} THEN "none_blocked"
                       ELSE "checks_blocked"

MCDomain == [c \in {"meta", "state"} |->
    IF c = "meta" THEN {"none", "checks"} ELSE {"running", "blocked"}]

MCValue == {"none", "checks", "none_blocked", "checks_blocked", "running", "blocked"}

\* A row starts without checks, waved through and running.
MCInitValue == [c \in {"meta", "state"} |-> IF c = "meta" THEN "none" ELSE "running"]
\* Every escalating connection reports a breach of its own.
MCReasonOf == [t \in Tx \ Locking |-> ToString(t)]
MCTag == {"", "k"} \union {ToString(t) : t \in Tx \ Locking}
=============================================================================
