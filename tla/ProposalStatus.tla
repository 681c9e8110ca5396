--------------------------- MODULE ProposalStatus ---------------------------
(***************************************************************************)
(* What one proposal promises its voters, with every operation atomic: the *)
(* status moves forward only, ballots change only while they are           *)
(* accepted, a close counts the ballots on file, the verdict it records    *)
(* never changes and the consequences of a passed vote (seating a winner,  *)
(* issuing shares) are carried out at most once.                           *)
(*                                                                         *)
(* ProposalLifecycle, where the same operations are database transactions  *)
(* of concurrent request handlers and of a background worker, is shown to  *)
(* implement this module for the voting methods that take the row lock.    *)
(***************************************************************************)
EXTENDS Naturals

CONSTANTS
    Voter,          \* the eligible voters
    Ballot,         \* the ballots a voter may cast
    NoBallot,       \* the entry of a voter with no ballot on file
    Passing,        \* the ballot boxes whose tally meets quorum and threshold
    PreVoting       \* whether ballots are accepted during deliberation

VARIABLES
    status,         \* the proposal's status
    ballots,        \* the ballot on file for each voter
    verdict,        \* "none" until the vote is closed, then its outcome
    effects         \* how often the consequences of a passed vote were applied

vars == <<status, ballots, verdict, effects>>

Box == [Voter -> Ballot \cup {NoBallot}]

Outcome(box) == IF box \in Passing THEN "passed" ELSE "failed"

(* With zero days of deliberation a proposal is created in voting.         *)
Init ==
    /\ status \in {"draft", "voting"}
    /\ ballots = [v \in Voter |-> NoBallot]
    /\ verdict = "none"
    /\ effects = 0

Publish ==
    /\ status = "draft"
    /\ status' = "deliberation"
    /\ UNCHANGED <<ballots, verdict, effects>>

OpenVoting ==
    /\ status = "deliberation"
    /\ status' = "voting"
    /\ UNCHANGED <<ballots, verdict, effects>>

(* A ballot is cast, replaced or retracted.                                *)
Vote ==
    /\ \/ status = "voting"
       \/ status = "deliberation" /\ PreVoting
    /\ \E v \in Voter, b \in Ballot \cup {NoBallot} :
           ballots' = [ballots EXCEPT ![v] = b]
    /\ UNCHANGED <<status, verdict, effects>>

Close ==
    /\ status = "voting"
    /\ verdict = "none"
    /\ verdict' = Outcome(ballots)
    /\ status' = Outcome(ballots)
    /\ effects' = IF Outcome(ballots) = "passed" THEN effects + 1 ELSE effects
    /\ UNCHANGED ballots

Withdraw ==
    /\ status # "withdrawn"
    /\ status' = "withdrawn"
    /\ UNCHANGED <<ballots, verdict, effects>>

Next == Publish \/ OpenVoting \/ Vote \/ Close \/ Withdraw

Spec == Init /\ [][Next]_vars
=============================================================================
