-------------------------- MODULE StableResultWorker --------------------------
(***************************************************************************)
(* When the worker extends a vote and when it closes it.                   *)
(*                                                                         *)
(* A proposal with Stable Result Required must show a stable result across *)
(* the last part of its voting window (sustained_majority.py).  At every   *)
(* tick the worker captures a snapshot of the tally and evaluates the      *)
(* snapshots (evaluate_proposal).  In the original window an unstable      *)
(* result extends the vote; once it was extended, a sliding window of      *)
(* stable snapshots closes it at once; and a deadline that passes with no  *)
(* extension left closes it anyway.  What was granted before is not stored *)
(* on the proposal but counted in the audit log, which keeps every row of  *)
(* the proposal, whichever round of voting it is in.                       *)
(*                                                                         *)
(* Time is a number of units.  The worker evaluates at most once in a      *)
(* unit, and may miss MaxOutage - 1 of them.  Ballots are not modelled:    *)
(* the tally may have changed in any way from one snapshot to the next.    *)
(***************************************************************************)
EXTENDS Integers, FiniteSets

CONSTANTS
    Method,             \* "binary", "ranked_choice" and "experimental", or
                        \* some of them
    Activity,           \* whether Stable Result is required: values it may have
    Option,             \* the options of the ballot
    Result(_),          \* what a snapshot of each method may hold
    Duration,           \* the length of a voting window
    WindowPercent,      \* stable_window_fraction
    ExtensionPercent,   \* max_extension_fraction
    MaxOutage,          \* the longest time from one evaluation to the next
    MaxTime,            \* bound on the clock
    MaxEscalations      \* bound on the escalations

(* A snapshot: the winners it recorded, and whether it counts as evidence. *)
(* For a binary vote that is support at or above the threshold (or no vote *)
(* yet), for an experimental one quorum, a meaningful result that no draw  *)
(* decided, and rules and options that have not changed.                   *)
Outcome == [winners : SUBSET Option, sound : BOOLEAN]

ASSUME MethodAssumption ==
    /\ Method \subseteq {"binary", "ranked_choice", "experimental"}
    /\ Activity \subseteq BOOLEAN
    /\ \A m \in Method : Result(m) \subseteq Outcome
ASSUME TimeAssumption ==
    /\ Duration \in Nat \ {0}
    /\ WindowPercent \in 5..50
    /\ ExtensionPercent \in 0..100
    /\ MaxOutage \in Nat \ {0}
    /\ MaxTime \in Nat
    /\ MaxEscalations \in Nat

VARIABLES
    method,         \* proposals.voting_method
    active,         \* is_proposal_stable_result_active
    now,            \* the clock
    status,         \* proposals.status; "closed" is passed, failed or withdrawn
    start,          \* proposals.voting_start
    end,            \* proposals.voting_end
    extensions,     \* worker-fired proposal.window_extended audit rows
    used,           \* the sum of their extension_seconds
    snapshots,      \* the vote_snapshots rows
    escalations     \* how often the vote was escalated

vars == <<method, active, now, status, start, end, extensions, used,
          snapshots, escalations>>

Snapshot == [at : Nat, result : Outcome]

TypeOK ==
    /\ method \in Method
    /\ active \in Activity
    /\ now \in Nat
    /\ status \in {"deliberation", "voting", "unresolved", "closed"}
    /\ start \in Nat
    /\ end \in Nat
    /\ extensions \in Nat
    /\ used \in Nat
    /\ snapshots \subseteq Snapshot
    /\ escalations \in 0..MaxEscalations

(* Voting has just opened.                                                 *)
Init ==
    /\ method \in Method
    /\ active \in Activity
    /\ now = 0
    /\ status = "voting"
    /\ start = 0
    /\ end = Duration
    /\ extensions = 0
    /\ used = 0
    /\ snapshots = {}
    /\ escalations = 0

-----------------------------------------------------------------------------
(* Stability: sustained_majority.py                                        *)

Since(S, t) == {s \in S : s.at >= t}

(* The latest snapshot satisfying a bound, as a set of at most one.        *)
Latest(S) == {s \in S : \A u \in S : u.at <= s.at}

binary_snapshot_is_stable(s) == s.result.sound

(* One winner set contains the other.                                      *)
winner_set_overlaps(s, u) ==
    \/ s.result.winners \subseteq u.result.winners
    \/ u.result.winners \subseteq s.result.winners

Adjacent(S, s, u) ==
    /\ s.at < u.at
    /\ \A w \in S : w.at <= s.at \/ u.at <= w.at

NeighboursOverlap(S) ==
    \A s, u \in S : Adjacent(S, s, u) => winner_set_overlaps(s, u)

(* Evidence for the whole window: the state it began in, and no change.    *)
experimental_window_stable(S, cutoff) ==
    LET prior == {s \in S : s.at <= cutoff}
        selected == Latest(prior) \cup Since(S, cutoff + 1)
    IN  /\ prior # {}
        /\ Cardinality(selected) >= 2
        /\ \A s, u \in selected :
               s.result.sound /\ s.result.winners = u.result.winners

(* evaluate_original_window_stability, once the window is reached.         *)
OriginalWindowUnstable(S, window) ==
    CASE method = "binary" ->
            \E s \in Since(S, window) : ~ binary_snapshot_is_stable(s)
      [] method = "ranked_choice" ->
            ~ NeighboursOverlap(Since(S, window)
                                \cup Latest({s \in S : s.at < window}))
      [] method = "experimental" ->
            ~ experimental_window_stable(S, window)

(* evaluate_extension_stability                                            *)
ExtensionStable(S, cutoff) ==
    CASE method = "binary" ->
            /\ Cardinality(Since(S, cutoff)) >= 2
            /\ \A s \in Since(S, cutoff) : binary_snapshot_is_stable(s)
      [] method = "ranked_choice" ->
            /\ Cardinality(Since(S, cutoff)) >= 2
            /\ NeighboursOverlap(Since(S, cutoff))
      [] method = "experimental" ->
            experimental_window_stable(S, cutoff)

-----------------------------------------------------------------------------
(* Durations: sustained_majority_service.py                                *)

(* reconstruct_original_voting_duration                                    *)
original_duration == end - start - used

stable_window_duration == (original_duration * WindowPercent) \div 100

extension_budget == (original_duration * ExtensionPercent) \div 100

stable_window_starts_at == start + original_duration - stable_window_duration

\* Mutant: what was granted before is not deducted.
CanExtendAgain ==
    /\ stable_window_duration > 0
    /\ extension_budget >= stable_window_duration

(* _react_to_destabilization grants whole windows only.                    *)
CanExtend ==
    /\ stable_window_duration > 0
    /\ extension_budget - used >= stable_window_duration

-----------------------------------------------------------------------------
(* The worker: evaluate_proposal                                           *)

Due == now >= end

\* Mutant: the evaluation does not wait for the stable window.
DestabilizedAnyTime(S) ==
    IF extensions = 0
    THEN OriginalWindowUnstable(S, stable_window_starts_at)
    ELSE Due /\ ~ ExtensionStable(S, now - stable_window_duration)

Destabilized(S) ==
    IF extensions = 0
    THEN /\ now >= stable_window_starts_at
         /\ OriginalWindowUnstable(S, stable_window_starts_at)
    ELSE Due /\ ~ ExtensionStable(S, now - stable_window_duration)

StableAgain(S) ==
    /\ extensions > 0
    /\ ExtensionStable(S, now - stable_window_duration)

\* Mutant: an extension is credited to the budget instead of charged.
ExtendRefund ==
    /\ end' = end + stable_window_duration
    /\ extensions' = extensions + 1
    /\ used' = used - stable_window_duration
    /\ UNCHANGED status

(* apply_extension                                                         *)
Extend ==
    /\ end' = end + stable_window_duration
    /\ extensions' = extensions + 1
    /\ used' = used + stable_window_duration
    /\ UNCHANGED status

(* The early close marks the time of the close on the row.                 *)
CloseEarly ==
    /\ status' = "closed"
    /\ end' = now
    /\ UNCHANGED <<extensions, used>>

CloseOnTime ==
    /\ status' = "closed"
    /\ UNCHANGED <<end, extensions, used>>

Wait == UNCHANGED <<status, end, extensions, used>>

\* Mutant: the deadline is looked at before the stability of the result.
DecideDeadlineFirst(S) ==
    IF Due THEN CloseOnTime
    ELSE IF ~ active \/ original_duration <= 0 THEN Wait
    ELSE IF StableAgain(S) THEN CloseEarly
    ELSE IF Destabilized(S) /\ CanExtend THEN Extend
    ELSE Wait

(* What a tick decides from the snapshots, the new one among them.  The    *)
(* first to apply is taken.  Without an original duration nothing is done, *)
(* not even when the deadline has passed.                                  *)
Decide(S) ==
    IF ~ active
    THEN IF Due THEN CloseOnTime ELSE Wait
    ELSE IF original_duration <= 0 THEN Wait
    ELSE IF StableAgain(S) THEN CloseEarly
    ELSE IF Destabilized(S) /\ CanExtend THEN Extend
    ELSE IF Due THEN CloseOnTime
    ELSE Wait

\* Mutant: the worker does not list a vote whose deadline has passed.
EvaluateBeforeDeadline ==
    /\ status = "voting" /\ ~ Due
    /\ \A s \in snapshots : s.at < now
    /\ \E r \in Result(method) :
           snapshots' = snapshots \cup {[at |-> now, result |-> r]}
    /\ Decide(snapshots')
    /\ UNCHANGED <<method, active, now, start, escalations>>

(* capture_snapshot and the decision are one transaction.                  *)
Evaluate ==
    /\ status = "voting"
    /\ \A s \in snapshots : s.at < now
    /\ \E r \in Result(method) :
           snapshots' = snapshots \cup {[at |-> now, result |-> r]}
    /\ Decide(snapshots')
    /\ UNCHANGED <<method, active, now, start, escalations>>

-----------------------------------------------------------------------------
(* The administrators                                                      *)

(* advance_proposal, at any time in voting, or archive_proposal.           *)
Advance ==
    /\ status = "voting"
    /\ status' = "closed"
    /\ UNCHANGED <<method, active, now, start, end, extensions, used,
                   snapshots, escalations>>

(* The tally went over the weighted-ballot cap.                            *)
Escalate ==
    /\ status = "voting"
    /\ method = "ranked_choice"
    /\ escalations < MaxEscalations
    /\ status' = "unresolved"
    /\ escalations' = escalations + 1
    /\ UNCHANGED <<method, active, now, start, end, extensions, used,
                   snapshots>>

(* resolve_escalation                                                      *)
ResolveFinal ==
    /\ status = "unresolved"
    /\ status' = "closed"
    /\ UNCHANGED <<method, active, now, start, end, extensions, used,
                   snapshots, escalations>>

(* The deadline moves on by the whole span, and the audit row has an actor *)
(* (so it is not one of extensions).                                       *)
ResolveExtend ==
    /\ status = "unresolved"
    /\ status' = "voting"
    /\ end' = end + (end - start)
    /\ UNCHANGED <<method, active, now, start, extensions, used,
                   snapshots, escalations>>

ResolveBackToDeliberation ==
    /\ status = "unresolved"
    /\ status' = "deliberation"
    /\ UNCHANGED <<method, active, now, start, end, extensions, used,
                   snapshots, escalations>>

(* transition_deliberation_to_voting                                       *)
Reopen ==
    /\ status = "deliberation"
    /\ status' = "voting"
    /\ start' = now
    /\ end' = now + Duration
    /\ UNCHANGED <<method, active, now, extensions, used,
                   snapshots, escalations>>

-----------------------------------------------------------------------------
(* The start of the round counts as an evaluation.                         *)
LastEvaluation == {start} \cup {s.at : s \in snapshots}

TimePasses ==
    /\ status = "voting"
    /\ now < MaxTime
    /\ \E t \in LastEvaluation : now - t < MaxOutage
    /\ now' = now + 1
    /\ UNCHANGED <<method, active, status, start, end, extensions, used,
                   snapshots, escalations>>

Next ==
    \/ Evaluate
    \/ Advance
    \/ Escalate
    \/ ResolveFinal
    \/ ResolveExtend
    \/ ResolveBackToDeliberation
    \/ Reopen
    \/ TimePasses

Spec == Init /\ [][Next]_vars

(* The clock does not stop and the worker goes on ticking; nothing is      *)
(* asked of the administrators.                                            *)
Fairness == WF_vars(TimePasses) /\ WF_vars(Evaluate)

FairSpec == Spec /\ Fairness

-----------------------------------------------------------------------------
(* Properties                                                              *)

WorkerCloses ==
    status = "voting" /\ status' = "closed" /\ snapshots' # snapshots

(* In the first round of voting, the deadline is the original one plus     *)
(* what was granted, and all that was granted is within                    *)
(* max_extension_fraction of the original duration.                        *)
BudgetKept ==
    escalations = 0 /\ status = "voting" =>
        /\ end = start + Duration + used
        /\ used * 100 <= Duration * ExtensionPercent

(* A tick fell exactly on the start of the stable window.  The snapshot it *)
(* captures is then all the evidence there is, one short of the two that   *)
(* an experimental vote needs: it is extended although nothing changed.    *)
TickOnWindowStart ==
    \E s \in snapshots' :
        s.at = start + Duration - (Duration * WindowPercent) \div 100

(* Voters can rely on the deadline they were given: the worker does not    *)
(* close a binary vote before the original one, although the extension may *)
(* be granted, and the sliding window begin, before it; nor an             *)
(* experimental one, unless a tick fell on the start of the window.        *)
OriginalDeadlineKept ==
    [][WorkerCloses /\ method # "ranked_choice"
                  /\ ~ (method = "experimental" /\ TickOnWindowStart)
         => now >= start + Duration]_vars

Steady(S) ==
    CASE method = "binary" -> \A s \in S : s.result.sound
      [] method = "ranked_choice" -> NeighboursOverlap(S)
      [] method = "experimental" ->
            \A s, u \in S :
                s.result.sound /\ s.result.winners = u.result.winners

(* An unstable result is not made final while another extension could be   *)
(* granted: the snapshots are steady over a stable window that reaches the *)
(* deadline or the close, or the budget is exhausted.                      *)
NoUnstableClose ==
    [][WorkerCloses /\ active =>
           \/ ~ CanExtend
           \/ \E t \in {now, end} :
                  Steady(Since(snapshots', t - stable_window_duration))]_vars

(* Voting ends, even if no administrator ends it.                          *)
VotingCloses == status = "voting" ~> status # "voting"

(* evaluate_proposal: "check whether the proposal is still sitting in      *)
(* voting past voting_end.  If so, close naturally."  So an evaluation     *)
(* past the deadline either closes the vote or extends it.                 *)
DeadlineHonoured ==
    [][status = "voting" /\ snapshots' # snapshots /\ Due
         => status' = "closed" \/ extensions' > extensions]_vars
=============================================================================
