---------------------------- MODULE Convergence ----------------------------
(***************************************************************************)
(* The reducers of internal/convergence, which fold the signals of a work  *)
(* item into a disposition, and the budget that turns a disposition into   *)
(* the worker's next action.                                               *)
(*                                                                         *)
(* A signal is [kind, pass, score], where pass is "pass", "fail" or Absent *)
(* and a signal without a score has the score Unscored.  The kind of a     *)
(* checklist signal is the check it reports on.                            *)
(***************************************************************************)
EXTENDS Integers, Sequences, FiniteSets

Absent == "absent"
Unscored == -1
NoVerdict == [attempt |-> 0, digest |-> <<>>, disposition |-> Absent]
Disposition == {"accept", "reject", "escalate"}

\* The boolean signals of a kind, by position; kind Absent selects every kind.
Votes(kind, signals) ==
    {n \in 1..Len(signals) : kind \in {Absent, signals[n].kind} /\ signals[n].pass # Absent}

Count(vote, kind, signals) ==
    Cardinality({n \in Votes(kind, signals) : signals[n].pass = vote})

\* MajorityVote.Reduce: more than half, else escalate.
MajorityVote(kind, signals) ==
    LET pass == Count("pass", kind, signals)
        fail == Count("fail", kind, signals)
    IN  CASE pass * 2 > pass + fail -> "accept"
          [] fail * 2 > pass + fail -> "reject"
          [] OTHER -> "escalate"

\* Unanimous.Reduce
Unanimous(kind, signals) ==
    CASE Votes(kind, signals) = {} -> "escalate"
      [] Count("fail", kind, signals) > 0 -> "reject"
      [] OTHER -> "accept"

\* Threshold.Reduce: the mean score is at least `accept`.
Scored(kind, signals) ==
    {n \in 1..Len(signals) : kind \in {Absent, signals[n].kind} /\ signals[n].score # Unscored}
Threshold(kind, accept, signals) ==
    LET scored == Scored(kind, signals)
        sum[n \in 0..Len(signals)] ==
            IF n = 0 THEN 0 ELSE sum[n - 1] + (IF n \in scored THEN signals[n].score ELSE 0)
    IN  CASE scored = {} -> "escalate"
          [] scored # {} /\ sum[Len(signals)] >= accept * Cardinality(scored) -> "accept"
          [] OTHER -> "reject"

\* One signal of AllPassChecklist.Reduce: a failure takes a pass back, and a
\* pass after a failure does not count.
Tally(acc, s) ==
    CASE s.pass = Absent -> acc
      [] s.pass = "pass" /\ s.kind \notin acc.failed -> [acc EXCEPT !.passed = @ \union {s.kind}]
      [] s.pass = "pass" /\ s.kind \in acc.failed -> acc
      [] OTHER -> [passed |-> acc.passed \ {s.kind}, failed |-> acc.failed \union {s.kind}]

\* Mutant of AllPassChecklist: the last signal of a check decides it.
LastPassChecklist(required, signals) ==
    IF required = {} THEN "escalate"
    ELSE IF \A k \in required :
              \E n \in 1..Len(signals) :
                  /\ signals[n].kind = k /\ signals[n].pass = "pass"
                  /\ \A later \in n + 1..Len(signals) : signals[later].kind # k
         THEN "accept" ELSE "reject"

\* AllPassChecklist.Reduce: every required check passed and never failed.
AllPassChecklist(required, signals) ==
    LET tally[n \in 0..Len(signals)] ==
            IF n = 0 THEN [passed |-> {}, failed |-> {}] ELSE Tally(tally[n - 1], signals[n])
        total == tally[Len(signals)]
    IN  CASE required = {} -> "escalate"
          [] required # {} /\ required \subseteq total.passed \ total.failed -> "accept"
          [] OTHER -> "reject"

\* ChecksProposal.Reduce over its one validity signal.
ChecksProposal(valid) == IF valid THEN "accept" ELSE "reject"

\* Budget.Next with the rule EscalateHandToHuman.
NextOutcome(disposition, attempt, maxAttempts) ==
    CASE disposition = "accept" -> "accept"
      [] disposition = "escalate" -> "escalate"
      [] disposition = "reject" /\ attempt >= maxAttempts -> "escalate"
      [] OTHER -> "retry"

\* Mutant of decideConvergenceStep: inputs that were reduced before are stale,
\* whatever the verdict was.
DecideOnceOnly(last, current, maxAttempts) ==
    IF last # NoVerdict /\ last.digest = current.digest
    THEN [append |-> FALSE, outcome |-> "stale"]
    ELSE [append |-> TRUE,
          outcome |-> NextOutcome(current.disposition, current.attempt, maxAttempts)]

\* decideConvergenceStep: over the inputs of the last verdict, its outcome is
\* resumed, or skipped if it was a retry; over new inputs the new verdict is
\* appended and acted on.
decideConvergenceStep(last, current, maxAttempts) ==
    IF last # NoVerdict /\ last.digest = current.digest
    THEN LET outcome == NextOutcome(last.disposition, last.attempt, maxAttempts)
         IN  [append |-> FALSE, outcome |-> IF outcome = "retry" THEN "stale" ELSE outcome]
    ELSE [append |-> TRUE,
          outcome |-> NextOutcome(current.disposition, current.attempt, maxAttempts)]

-----------------------------------------------------------------------------
(* Reference definitions: what the reducers promise, without a fold.       *)

\* A check of the list has a passing signal and no failing one.
Satisfied(check, signals) ==
    /\ \E n \in 1..Len(signals) : signals[n].kind = check /\ signals[n].pass = "pass"
    /\ \A n \in 1..Len(signals) : signals[n].kind = check => signals[n].pass # "fail"

\* "accepts only when every required check has a passing signal ... a failure
\* anywhere for a check makes that check fail" (AllPassChecklist).
ChecklistAsPromised(required, signals) ==
    (AllPassChecklist(required, signals) = "accept")
        <=> required # {} /\ \A k \in required : Satisfied(k, signals)

\* "stable under signal reordering": what votes and scores decide stays when two
\* signals change places, and unanimity is the stricter vote.
Exchanged(signals, m, n) == [signals EXCEPT ![m] = signals[n], ![n] = signals[m]]
OrderFree(kind, accept, signals) ==
    /\ \A m, n \in 1..Len(signals) :
          LET other == Exchanged(signals, m, n)
          IN  /\ MajorityVote(kind, other) = MajorityVote(kind, signals)
              /\ Unanimous(kind, other) = Unanimous(kind, signals)
              /\ Threshold(kind, accept, other) = Threshold(kind, accept, signals)
    /\ Unanimous(kind, signals) = "accept" => MajorityVote(kind, signals) = "accept"
=============================================================================
