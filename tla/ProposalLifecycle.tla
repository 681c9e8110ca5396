-------------------------- MODULE ProposalLifecycle --------------------------
(***************************************************************************)
(* The life of one proposal under concurrent database transactions.        *)
(*                                                                         *)
(* Request handlers (routes/proposals.py, routes/votes.py,                 *)
(* routes/organizations.py) and the background worker                      *)
(* (sustained_majority_worker.py) each work in a transaction: they read    *)
(* the proposal row, decide from what they read, and commit.  PostgreSQL   *)
(* runs them at READ COMMITTED and no row carries a version, so a commit   *)
(* does not notice that the row changed after it was read.  What protects  *)
(* a proposal is lock_proposal, SELECT ... FOR UPDATE followed by a fresh  *)
(* read, and it is taken only for the experimental voting methods.         *)
(*                                                                         *)
(* A transaction is therefore two or three steps here: Begin reads (and    *)
(* locks, where the code does), Count reads the ballots (closing handlers  *)
(* only), and the commit writes.  Any open transaction may be rolled back, *)
(* by an error, by a crash or by a disconnect.                             *)
(*                                                                         *)
(* Abstracted: clock times (a deadline passes when overdue becomes TRUE),  *)
(* the Stable-Result evidence (module StableResultWorker decides when the  *)
(* worker extends or closes early; here it may do either), permission      *)
(* checks, and how a tally turns ballots into an outcome.                  *)
(***************************************************************************)
EXTENDS Naturals, FiniteSets

CONSTANTS
    Request,        \* the concurrent request handlers
    Worker,         \* the worker process of sustained_majority_worker.py
    NoProc,         \* the lock holder when the row is not locked
    Voter,          \* the eligible voters
    Author,         \* the voter who wrote the proposal
    Ballot,         \* the ballots a voter may cast
    NoBallot,       \* the entry of a voter with no ballot on file
    NoBox,          \* a transaction that has not read the ballots
    Passing,        \* the ballot boxes whose tally passes
    Capped,         \* the boxes over RCV_WEIGHTED_BALLOT_CAP
    Methods,        \* the classes of voting method a proposal may use
    Gating,         \* the values is_cosign_gated may have
    PreVoting,      \* resolve_allow_pre_voting
    Automation,     \* settings.proposal_schedule_automation_enabled
    MaxExtensions,  \* Stable-Result extensions the budget allows; 0 when off
    Threshold,      \* cosign_threshold_snapshot
    Operations      \* the request handlers that are in use

Proc == Request \cup {Worker}

Box == [Voter -> Ballot \cup {NoBallot}]

MethodClass == {"experimental", "binary", "ranked_choice", "budget"}

RequestOps == {"advance", "archive", "resolve", "cast", "retract",
               "cosign", "withdraw_cosign", "delete"}

WorkerOps == {"listed", "evaluate", "advance_due", "close_budget",
              "cosign_gate", "cosign_met", "cosign_unmet"}

ASSUME ProcAssumption == Worker \notin Request /\ NoProc \notin Proc
ASSUME BoxAssumption == NoBallot \notin Ballot /\ NoBox \notin Box
ASSUME VoterAssumption == Author \in Voter
ASSUME TallyAssumption == Passing \subseteq Box /\ Capped \subseteq Box
ASSUME ConfigAssumption ==
    /\ Methods \subseteq MethodClass
    /\ Gating \subseteq BOOLEAN
    /\ PreVoting \in BOOLEAN
    /\ Automation \in BOOLEAN
    /\ MaxExtensions \in Nat
    /\ Threshold \in Nat
    /\ Operations \subseteq RequestOps

Status == {"draft", "deliberation", "voting", "passed", "failed",
           "unresolved", "withdrawn", "expired_unsigned", "deleted"}

(* The bound of the history counter effects: it distinguishes never, once  *)
(* and more than once.                                                     *)
EffectCap == 2

VARIABLES
    status,         \* proposals.status; "deleted" once the row is gone
    method,         \* the class of proposals.voting_method
    gated,          \* proposals.is_cosign_gated
    overdue,        \* now >= proposals.voting_end
    extensions,     \* worker-fired proposal.window_extended audit rows
    ballots,        \* the votes table: the ballot on file for each voter
    signers,        \* the cosignature rows
    verdict,        \* final_method_result["status"], "none" while it is NULL
    counted,        \* the ballots final_method_result was computed from
    effects,        \* how often the passed-close hooks were carried out
    lock,           \* the process that holds the row lock
    txn             \* the open transaction of each process

vars == <<status, method, gated, overdue, extensions, ballots, signers,
          verdict, counted, effects, lock, txn>>

(* Everything but the locks and transactions: what the database stores.    *)
row == <<status, method, gated, overdue, extensions, ballots, signers,
         verdict, counted, effects>>

(* A transaction: the handler it runs, the status and deadline it read,    *)
(* and the ballots it counted.                                             *)
Txn == [op : {"none"} \cup RequestOps \cup WorkerOps,
        seen : Status, late : BOOLEAN, box : Box \cup {NoBox}]

NoTxn == [op |-> "none", seen |-> "draft", late |-> FALSE, box |-> NoBox]

TypeOK ==
    /\ status \in Status
    /\ method \in Methods
    /\ gated \in Gating
    /\ overdue \in BOOLEAN
    /\ extensions \in 0..MaxExtensions
    /\ ballots \in Box
    /\ signers \subseteq Voter
    /\ verdict \in {"none", "passed", "failed"}
    /\ counted \in Box \cup {NoBox}
    /\ effects \in 0..EffectCap
    /\ lock \in Proc \cup {NoProc}
    /\ txn \in [Proc -> Txn]

(* A cosign-gated proposal is created gathering signatures, the author's   *)
(* being the first.  Any other one is created as a draft, or in voting     *)
(* when its deliberation takes zero days.                                  *)
Init ==
    /\ method \in Methods
    /\ gated \in Gating
    /\ status \in IF gated THEN {"deliberation"} ELSE {"draft", "voting"}
    /\ overdue = FALSE
    /\ extensions = 0
    /\ ballots = [v \in Voter |-> NoBallot]
    /\ signers = IF gated THEN {Author} ELSE {}
    /\ verdict = "none"
    /\ counted = NoBox
    /\ effects = 0
    /\ lock = NoProc
    /\ txn = [p \in Proc |-> NoTxn]

-----------------------------------------------------------------------------
(* Transactions                                                            *)

is_experimental == method = "experimental"

Idle(p) == txn[p].op = "none"

Read(p, op) ==
    txn' = [txn EXCEPT ![p] = [op |-> op, seen |-> status, late |-> overdue,
                               box |-> NoBox]]

(* Begin a handler that only reads the row.                                *)
PlainRead(p, op) ==
    /\ Idle(p)
    /\ Read(p, op)
    /\ UNCHANGED <<row, lock>>

(* Begin a handler with SELECT ... FOR UPDATE: it waits for the lock and   *)
(* reads what is there once it has it.                                     *)
LockedRead(p, op) ==
    /\ Idle(p)
    /\ lock = NoProc
    /\ lock' = p
    /\ Read(p, op)
    /\ UNCHANGED row

\* Mutant: the row is read again but not locked.
UnlockedRead(p, op) == PlainRead(p, op)

(* Begin a handler that calls lock_proposal.                               *)
lock_proposal(p, op) ==
    IF is_experimental THEN LockedRead(p, op) ELSE PlainRead(p, op)

(* A write waits for the row lock of another transaction, and fails (a     *)
(* rollback) when the row is gone.                                         *)
MayWrite(p) == status # "deleted" /\ lock \in {NoProc, p}

Finish(p) ==
    /\ txn' = [txn EXCEPT ![p] = NoTxn]
    /\ lock' = IF lock = p THEN NoProc ELSE lock

(* The session flushes status only when the handler changed the value it   *)
(* had read.                                                               *)
SetStatus(p, new) ==
    status' = IF txn[p].seen = new THEN status ELSE new

(* An error, a crash or a disconnect, or a handler with nothing to write.  *)
(* The worker, which has only listed the proposal, is not said to crash    *)
(* there: it may roll back as soon as it evaluates it.                     *)
Rollback(p) ==
    /\ txn[p].op \notin {"none", "listed"}
    /\ Finish(p)
    /\ UNCHANGED row

-----------------------------------------------------------------------------
(* Closing                                                                 *)

Tally(box) == IF box \in Passing THEN "passed" ELSE "failed"

(* compute_tally: the transaction reads the ballots now on file.           *)
CountBallots(p) ==
    /\ txn[p].box = NoBox
    /\ txn' = [txn EXCEPT ![p].box = ballots]
    /\ UNCHANGED <<row, lock>>

Counted(p) == txn[p].box # NoBox

(* The status a close ends in.  finalize_result returns the stored status  *)
(* once there is one.  The two routes send a ranked-choice tally that hit  *)
(* the weighted-ballot cap to "unresolved"; the worker has no such branch, *)
(* and a capped tally has no winners.                                      *)
CloseStatus(p) ==
    IF is_experimental THEN
        IF verdict = "none" THEN Tally(txn[p].box) ELSE verdict
    ELSE IF method = "ranked_choice" /\ txn[p].box \in Capped THEN
        IF p = Worker THEN "failed" ELSE "unresolved"
    ELSE Tally(txn[p].box)

(* final_method_result is written by the first finalize_result only.       *)
FinalizeResult(p) ==
    IF is_experimental /\ verdict = "none"
    THEN /\ verdict' = Tally(txn[p].box)
         /\ counted' = txn[p].box
    ELSE UNCHANGED <<verdict, counted>>

\* Mutant: nobody looks whether the winners are already installed.
CloseHooksAgain(p) ==
    effects' = IF CloseStatus(p) = "passed" /\ effects < EffectCap
               THEN effects + 1 ELSE effects

(* run_election_close_hook and run_issuance_close_hook on a passed close.  *)
(* The result an experimental election freezes at its first close records  *)
(* that its winners were installed; nothing records it for a legacy one.   *)
CloseHooks(p) ==
    effects' = IF /\ CloseStatus(p) = "passed"
                  /\ is_experimental => verdict = "none"
                  /\ effects < EffectCap
               THEN effects + 1 ELSE effects

Close(p) ==
    /\ Counted(p)
    /\ MayWrite(p)
    /\ SetStatus(p, CloseStatus(p))
    /\ FinalizeResult(p)
    /\ CloseHooks(p)
    /\ Finish(p)
    /\ UNCHANGED <<method, gated, extensions, ballots, signers>>

-----------------------------------------------------------------------------
(* Request handlers                                                        *)

(* advance_proposal and advance_org_proposal.                              *)
BeginAdvance(p) ==
    /\ status \in {"draft", "deliberation", "voting"}
    /\ lock_proposal(p, "advance")

AdvanceToDeliberation(p) ==
    /\ txn[p].op = "advance" /\ txn[p].seen = "draft"
    /\ MayWrite(p)
    /\ SetStatus(p, "deliberation")
    /\ Finish(p)
    /\ UNCHANGED <<method, gated, overdue, extensions, ballots, signers,
                   verdict, counted, effects>>

\* Mutant: a proposal that opens for voting has its result cleared.
OpenVotingClearsResult(p) ==
    /\ MayWrite(p)
    /\ SetStatus(p, "voting")
    /\ overdue' = FALSE
    /\ verdict' = "none"
    /\ Finish(p)
    /\ UNCHANGED <<method, gated, extensions, ballots, signers,
                   counted, effects>>

(* transition_deliberation_to_voting: the new voting_end is in the future. *)
OpenVoting(p) ==
    /\ MayWrite(p)
    /\ SetStatus(p, "voting")
    /\ overdue' = FALSE
    /\ Finish(p)
    /\ UNCHANGED <<method, gated, extensions, ballots, signers,
                   verdict, counted, effects>>

(* A cosign-gated proposal is refused: it waits for its window gate.       *)
AdvanceToVoting(p) ==
    /\ txn[p].op = "advance" /\ txn[p].seen = "deliberation"
    /\ ~ gated
    /\ OpenVoting(p)

CountAdvance(p) ==
    /\ txn[p].op = "advance" /\ txn[p].seen = "voting"
    /\ CountBallots(p)

AdvanceToClose(p) ==
    /\ txn[p].op = "advance"
    /\ Close(p)
    /\ UNCHANGED overdue

(* archive_proposal: any status but withdrawn.                             *)
BeginArchive(p) ==
    /\ status \notin {"withdrawn", "deleted"}
    /\ lock_proposal(p, "archive")

Archive(p) ==
    /\ txn[p].op = "archive"
    /\ MayWrite(p)
    /\ SetStatus(p, "withdrawn")
    /\ Finish(p)
    /\ UNCHANGED <<method, gated, overdue, extensions, ballots, signers,
                   verdict, counted, effects>>

\* Mutant: an escalation is resolved whatever the status.
BeginResolveAnyStatus(p) ==
    /\ status # "deleted"
    /\ PlainRead(p, "resolve")

(* resolve_escalation takes no lock.  Neither pass nor fail runs the close *)
(* hooks; extend may or may not move voting_end into the future; back to   *)
(* deliberation leaves the old round's audit rows in place.                *)
BeginResolve(p) ==
    /\ status = "unresolved"
    /\ PlainRead(p, "resolve")

Resolve(p, new) ==
    /\ txn[p].op = "resolve"
    /\ MayWrite(p)
    /\ SetStatus(p, new)
    /\ overdue' \in IF new = "voting" THEN BOOLEAN ELSE {overdue}
    /\ Finish(p)
    /\ UNCHANGED <<method, gated, extensions, ballots, signers,
                   verdict, counted, effects>>

(* delete_proposal takes no lock; the row's dependents go with it.         *)
BeginDelete(p) ==
    /\ status = "draft"
    /\ PlainRead(p, "delete")

Delete(p) ==
    /\ txn[p].op = "delete"
    /\ MayWrite(p)
    /\ status' = "deleted"
    /\ ballots' = [v \in Voter |-> NoBallot]
    /\ signers' = {}
    /\ verdict' = "none"
    /\ counted' = NoBox
    /\ Finish(p)
    /\ UNCHANGED <<method, gated, overdue, extensions, effects>>

-----------------------------------------------------------------------------
(* Ballots                                                                 *)

\* Mutant: the recorded result does not matter, only the status.
MutableByStatus ==
    is_experimental =>
        status \notin {"passed", "failed", "withdrawn", "unresolved"}

require_mutable ==
    is_experimental =>
        /\ verdict = "none"
        /\ status \notin {"passed", "failed", "withdrawn", "unresolved"}

(* _require_voting_open                                                    *)
VotingOpen ==
    \/ status = "voting" /\ ~ overdue
    \/ status = "deliberation" /\ PreVoting

BeginBallot(p, op) ==
    /\ require_mutable
    /\ VotingOpen
    /\ lock_proposal(p, op)

(* A new row takes a key-share lock on the proposal its foreign key names, *)
(* which waits for FOR UPDATE; changing or deleting a row takes none.      *)
WriteBallot(p, v, b) ==
    /\ status # "deleted"
    /\ ballots[v] = NoBallot => MayWrite(p)
    /\ ballots' = [ballots EXCEPT ![v] = b]
    /\ Finish(p)
    /\ UNCHANGED <<status, method, gated, overdue, extensions, signers,
                   verdict, counted, effects>>

(* cast_vote: insert, or update the row that is there.  Two first ballots  *)
(* of one voter can race when no lock is taken: the loser rolls back and   *)
(* updates the row of the winner, and checks nothing again.                *)
CastVote(p) ==
    /\ txn[p].op = "cast"
    /\ \E v \in Voter, b \in Ballot : WriteBallot(p, v, b)

RetractVote(p) ==
    /\ txn[p].op = "retract"
    /\ \E v \in Voter :
           /\ ballots[v] # NoBallot
           /\ WriteBallot(p, v, NoBallot)

-----------------------------------------------------------------------------
(* Cosigning                                                               *)

(* _require_cosign_gathering                                               *)
Gathering == gated /\ status = "deliberation"

BeginCosign(p, op) ==
    /\ Gathering
    /\ PlainRead(p, op)

WriteSigners(p, S) ==
    /\ status # "deleted"
    /\ signers' = S
    /\ Finish(p)
    /\ UNCHANGED <<status, method, gated, overdue, extensions, ballots,
                   verdict, counted, effects>>

Cosign(p) ==
    /\ txn[p].op = "cosign"
    /\ MayWrite(p)
    /\ \E v \in Voter : WriteSigners(p, signers \cup {v})

(* The author's signature cannot be withdrawn.                             *)
WithdrawCosign(p) ==
    /\ txn[p].op = "withdraw_cosign"
    /\ \E v \in Voter \ {Author} : WriteSigners(p, signers \ {v})

-----------------------------------------------------------------------------
(* The worker                                                              *)

(* run_one_tick lists the proposals in voting, budget methods excepted.    *)
ListVoting ==
    /\ status = "voting"
    /\ method # "budget"
    /\ PlainRead(Worker, "listed")

\* Mutant: the status is not looked at again under the lock.
BeginEvaluateAsListed ==
    /\ txn[Worker].op = "listed"
    /\ is_experimental => lock = NoProc
    /\ lock' = IF is_experimental THEN Worker ELSE lock
    /\ Read(Worker, "evaluate")
    /\ UNCHANGED row

(* evaluate_proposal begins.  An experimental proposal is locked, read     *)
(* again and left alone unless it is still in voting.  A legacy one is     *)
(* evaluated as it was listed when it comes first, and otherwise as it is  *)
(* reloaded after the commit of the one before it.                         *)
BeginEvaluate ==
    /\ txn[Worker].op = "listed"
    /\ \/ /\ is_experimental
          /\ lock = NoProc
          /\ IF status = "voting"
             THEN lock' = Worker /\ Read(Worker, "evaluate")
             ELSE Finish(Worker)
       \/ /\ ~ is_experimental
          /\ UNCHANGED lock
          /\ \/ Read(Worker, "evaluate")
             \/ txn' = [txn EXCEPT ![Worker].op = "evaluate"]
    /\ UNCHANGED row

Evaluating == txn[Worker].op = "evaluate" /\ ~ Counted(Worker)

\* Mutant: only proposals without Stable Result are closed at the deadline.
DueWithoutStableResult ==
    MaxExtensions = 0 /\ txn[Worker].seen = "voting" /\ txn[Worker].late

(* The row the natural close looks at: with Stable Result active it is     *)
(* refreshed just before.                                                  *)
DueToClose ==
    IF MaxExtensions > 0
    THEN status = "voting" /\ overdue
    ELSE txn[Worker].seen = "voting" /\ txn[Worker].late

CountNaturalClose ==
    /\ Evaluating
    /\ DueToClose
    /\ txn' = [txn EXCEPT ![Worker] = [op |-> "evaluate", seen |-> "voting",
                                      late |-> TRUE, box |-> ballots]]
    /\ UNCHANGED <<row, lock>>

(* The sliding window was stable: close at once.  Only experimental        *)
(* proposals had their status looked at.                                   *)
CountEarlyClose ==
    /\ Evaluating
    /\ extensions > 0
    /\ CountBallots(Worker)

(* The deadline is left where it is by a natural close and set to now by   *)
(* an early one.                                                           *)
EvaluateClose ==
    /\ txn[Worker].op = "evaluate"
    /\ Close(Worker)
    /\ overdue' \in {overdue, TRUE}

\* Mutant: the extension budget is not looked at.
ExtendPastBudget ==
    /\ Evaluating
    /\ MayWrite(Worker)
    /\ extensions' = extensions + 1
    /\ overdue' \in {FALSE, overdue}
    /\ Finish(Worker)
    /\ UNCHANGED <<status, method, gated, ballots, signers,
                   verdict, counted, effects>>

(* apply_extension: voting_end moves on by the stable window, which after  *)
(* an outage of the worker need not bring it past now.                     *)
Extend ==
    /\ Evaluating
    /\ extensions < MaxExtensions
    /\ MayWrite(Worker)
    /\ extensions' = extensions + 1
    /\ overdue' \in {FALSE, overdue}
    /\ Finish(Worker)
    /\ UNCHANGED <<status, method, gated, ballots, signers,
                   verdict, counted, effects>>

(* advance_due_deliberation_proposals.  The batch query locks the rows it  *)
(* returns and skips locked ones, but the commit of the first proposal     *)
(* releases them all: any later one is refreshed and advanced unlocked.    *)
BeginAdvanceDue ==
    /\ Automation
    /\ status = "deliberation" /\ ~ gated
    /\ LockedRead(Worker, "advance_due") \/ PlainRead(Worker, "advance_due")

AdvanceDue ==
    /\ txn[Worker].op = "advance_due"
    /\ OpenVoting(Worker)

(* close_due_budget_proposals: the same batch, the same locks.             *)
BeginCloseBudget ==
    /\ Automation
    /\ method = "budget"
    /\ status = "voting" /\ overdue
    /\ LockedRead(Worker, "close_budget") \/ PlainRead(Worker, "close_budget")

CountBudget ==
    /\ txn[Worker].op = "close_budget"
    /\ CountBallots(Worker)

CloseBudget ==
    /\ txn[Worker].op = "close_budget"
    /\ Close(Worker)
    /\ UNCHANGED overdue

(* resolve_due_cosign_proposals: the row was listed earlier, and is        *)
(* reloaded after the commit of the proposal before it, if there was one.  *)
BeginCosignGate ==
    /\ Gathering
    /\ PlainRead(Worker, "cosign_gate")

ReloadCosignGate ==
    /\ txn[Worker].op = "cosign_gate"
    /\ status # "deleted"
    /\ txn[Worker].seen # status
    /\ Read(Worker, "cosign_gate")
    /\ UNCHANGED <<row, lock>>

(* cosign_weight is read, and decided on, before anything is written.      *)
CosignMet == Cardinality(signers) >= Threshold /\ Threshold > 0

CountSigners ==
    /\ txn[Worker].op = "cosign_gate"
    /\ txn' = [txn EXCEPT ![Worker].op =
                   IF CosignMet THEN "cosign_met" ELSE "cosign_unmet"]
    /\ UNCHANGED <<row, lock>>

(* transition_deliberation_to_voting refuses any status but deliberation.  *)
CosignGateOpens ==
    /\ txn[Worker].op = "cosign_met"
    /\ txn[Worker].seen = "deliberation"
    /\ OpenVoting(Worker)

(* The expiry has no such check.                                           *)
CosignGateExpires ==
    /\ txn[Worker].op = "cosign_unmet"
    /\ MayWrite(Worker)
    /\ SetStatus(Worker, "expired_unsigned")
    /\ Finish(Worker)
    /\ UNCHANGED <<method, gated, overdue, extensions, ballots, signers,
                   verdict, counted, effects>>

-----------------------------------------------------------------------------
(* The clock passes voting_end.                                            *)
DeadlinePasses ==
    /\ status = "voting"
    /\ ~ overdue
    /\ overdue' = TRUE
    /\ UNCHANGED <<status, method, gated, extensions, ballots, signers,
                   verdict, counted, effects, lock, txn>>

Begin(p) ==
    \/ "advance" \in Operations /\ BeginAdvance(p)
    \/ "archive" \in Operations /\ BeginArchive(p)
    \/ "resolve" \in Operations /\ BeginResolve(p)
    \/ "delete" \in Operations /\ BeginDelete(p)
    \/ \E op \in Operations \cap {"cast", "retract"} : BeginBallot(p, op)
    \/ \E op \in Operations \cap {"cosign", "withdraw_cosign"} :
           BeginCosign(p, op)

Commit(p) ==
    \/ AdvanceToDeliberation(p)
    \/ AdvanceToVoting(p)
    \/ AdvanceToClose(p)
    \/ Archive(p)
    \/ \E new \in {"voting", "failed", "passed", "deliberation"} :
           Resolve(p, new)
    \/ Delete(p)
    \/ CastVote(p)
    \/ RetractVote(p)
    \/ Cosign(p)
    \/ WithdrawCosign(p)

WorkerBegin ==
    \/ ListVoting
    \/ BeginEvaluate
    \/ BeginAdvanceDue
    \/ BeginCloseBudget
    \/ BeginCosignGate
    \/ ReloadCosignGate

WorkerCount ==
    \/ CountNaturalClose
    \/ CountEarlyClose
    \/ CountBudget
    \/ CountSigners

WorkerCommit ==
    \/ EvaluateClose
    \/ Extend
    \/ AdvanceDue
    \/ CloseBudget
    \/ CosignGateOpens
    \/ CosignGateExpires

Next ==
    \/ \E p \in Request : Begin(p) \/ CountAdvance(p) \/ Commit(p)
    \/ \E p \in Proc : Rollback(p)
    \/ WorkerBegin
    \/ WorkerCount
    \/ WorkerCommit
    \/ DeadlinePasses

Spec == Init /\ [][Next]_vars

(* The worker ticks for ever and does not fail on every tick; a lock       *)
(* request is served in the end, because PostgreSQL queues them; a request *)
(* commits or is rolled back.  No request has to be made.                  *)
Fairness ==
    /\ WF_vars(DeadlinePasses)
    /\ WF_vars(ListVoting)
    /\ SF_vars(BeginEvaluate)
    /\ SF_vars(CountNaturalClose)
    /\ SF_vars(EvaluateClose)
    /\ \A p \in Proc : WF_vars(Rollback(p))

FairSpec == Spec /\ Fairness

-----------------------------------------------------------------------------
(* Properties of the methods that take the row lock                        *)

(* The handlers that decide under the row lock of an experimental          *)
(* proposal.                                                               *)
LockingOps == {"advance", "archive", "cast", "retract", "evaluate"}

(* lock_proposal serializes these handlers: none of them is open without   *)
(* holding the lock, until it commits or rolls back.                       *)
LockHeld ==
    \A p \in Proc : txn[p].op \in LockingOps => lock = p

(* require_mutable is still true when the ballot is written.               *)
BallotInTime ==
    \A p \in Proc : txn[p].op \in {"cast", "retract"} => verdict = "none"

(* What a closing handler counted is still on file when it commits.        *)
CountIsCurrent ==
    \A p \in Proc : Counted(p) =>
        /\ txn[p].op \in {"advance", "evaluate"}
        /\ txn[p].seen = "voting"
        /\ txn[p].box = ballots

(* The handlers that never meet an experimental proposal, and the one that *)
(* looks at its status again under the lock.                               *)
Serialized ==
    \A p \in Proc :
        /\ txn[p].op \notin {"resolve", "close_budget"}
        /\ txn[p].op = "evaluate" => txn[p].seen = "voting"

(* Once finalize_result has recorded a result, the ballots on file stay    *)
(* the ones it counted: no cast or retract slips in beside the close.      *)
FrozenBallots ==
    is_experimental /\ verdict # "none" => counted = ballots

(* The status shown to the voters agrees with the recorded result, however *)
(* often and by whomever the proposal is closed.                           *)
OfficialStatus ==
    is_experimental /\ status \in {"passed", "failed"} => verdict = status

(* The winners of an experimental election are installed at most once.     *)
InstalledOnce ==
    is_experimental => effects <= 1

(* All of this is inductive once it is said that a recorded result is the  *)
(* outcome of the ballots it counted, that nothing is installed without    *)
(* one, and that an experimental proposal is never escalated.              *)
LockingInv ==
    is_experimental =>
        /\ LockHeld
        /\ BallotInTime
        /\ CountIsCurrent
        /\ Serialized
        /\ status # "unresolved"
        /\ verdict # "none" => verdict = Tally(counted)
        /\ effects # 0 => verdict # "none" \/ status = "deleted"
        /\ FrozenBallots
        /\ OfficialStatus
        /\ InstalledOnce

(* A recorded result is never replaced by another, not even when a stale   *)
(* worker transaction reopens the vote and it is closed again.             *)
FrozenResult ==
    [][is_experimental /\ verdict # "none" /\ status' # "deleted"
         => UNCHANGED <<verdict, counted>>]_vars

(* Seen through the lock, a proposal is one that every handler works on    *)
(* alone and in one step.                                                  *)
Abstract == INSTANCE ProposalStatus
ImplementsProposalStatus == Abstract!Spec

(* Voting ends: extensions are bounded, and the natural close of the       *)
(* worker catches every proposal past its deadline.                        *)
VotingEnds == status = "voting" ~> status # "voting"

-----------------------------------------------------------------------------
(* What the code says of every method, and does not do                     *)

(* routes/proposals.py says of archiving: "There is no "unarchive" in this *)
(* pass (forward-only)."                                                   *)
WithdrawnIsFinal == [][status = "withdrawn" => status' = "withdrawn"]_vars
=============================================================================
