----------------------- MODULE ProposalLifecycleProofs -----------------------
(***************************************************************************)
(* Proofs about ProposalLifecycle, for any voters, ballots, handlers and   *)
(* settings: its variables keep their types, the lock discipline of the    *)
(* experimental methods is inductive, and with it a recorded result, the   *)
(* ballots it was computed from and the status shown to voters never part. *)
(***************************************************************************)
EXTENDS ProposalLifecycle, TLAPS

USE ProcAssumption, BoxAssumption, VoterAssumption, TallyAssumption,
    ConfigAssumption

(* Every handler begins with a transaction record of the right shape.      *)
LEMMA ReadType ==
    ASSUME TypeOK, NEW p \in Proc, NEW op \in RequestOps \cup WorkerOps,
           Read(p, op)
    PROVE  txn' \in [Proc -> Txn]
  BY DEF TypeOK, Read, Txn

(* Every handler ends with an empty one, and gives its lock back.          *)
LEMMA FinishType ==
    ASSUME TypeOK, NEW p \in Proc, Finish(p)
    PROVE  txn' \in [Proc -> Txn] /\ lock' \in Proc \cup {NoProc}
  BY DEF TypeOK, Finish, Txn, NoTxn, Status

(* compute_tally leaves a transaction record of the right shape.           *)
LEMMA CountType ==
    ASSUME TypeOK, NEW p \in Proc, CountBallots(p)
    PROVE  TypeOK'
  BY DEF TypeOK, CountBallots, Txn, row

(* A handler that reads the row without a lock keeps the types.            *)
LEMMA PlainReadType ==
    ASSUME TypeOK, NEW p \in Proc, NEW op \in RequestOps \cup WorkerOps,
           PlainRead(p, op)
    PROVE  TypeOK'
  BY ReadType DEF TypeOK, PlainRead, row

(* A handler that reads it with SELECT ... FOR UPDATE keeps them.          *)
LEMMA LockedReadType ==
    ASSUME TypeOK, NEW p \in Proc, NEW op \in RequestOps \cup WorkerOps,
           LockedRead(p, op)
    PROVE  TypeOK'
  BY ReadType DEF TypeOK, LockedRead, row

(* lock_proposal is one of the two.                                        *)
LEMMA LockProposalType ==
    ASSUME TypeOK, NEW p \in Proc, NEW op \in RequestOps \cup WorkerOps,
           lock_proposal(p, op)
    PROVE  TypeOK'
  BY PlainReadType, LockedReadType DEF lock_proposal

(* The commit of a closing handler keeps the types: the hooks stop         *)
(* counting at EffectCap, and what was counted is a box.                   *)
LEMMA CloseType ==
    ASSUME TypeOK, NEW p \in Proc, Close(p), overdue' \in BOOLEAN
    PROVE  TypeOK'
  <1>1. CloseStatus(p) \in Status
    BY DEF CloseStatus, Tally, Status, TypeOK
  <1>2. status' \in Status
    BY <1>1 DEF Close, SetStatus, TypeOK
  <1>3. verdict' \in {"none", "passed", "failed"} /\ counted' \in Box \cup {NoBox}
    BY DEF Close, FinalizeResult, Tally, TypeOK, Txn
  <1>4. effects' \in 0..EffectCap
    BY DEF Close, CloseHooks, TypeOK, EffectCap
  <1> QED
    BY <1>2, <1>3, <1>4, FinishType DEF Close, TypeOK

(* transition_deliberation_to_voting keeps the types.                      *)
LEMMA OpenVotingType ==
    ASSUME TypeOK, NEW p \in Proc, OpenVoting(p)
    PROVE  TypeOK'
  BY FinishType DEF OpenVoting, SetStatus, TypeOK, Status

(* Every action keeps the types, one case for each.                        *)
LEMMA TypeNext == TypeOK /\ [Next]_vars => TypeOK'
<1> SUFFICES ASSUME TypeOK, [Next]_vars
             PROVE  TypeOK'
  OBVIOUS
<1> USE DEF Proc
<1>1. ASSUME NEW p \in Request, BeginAdvance(p) PROVE TypeOK'
  BY <1>1, LockProposalType DEF BeginAdvance, RequestOps
<1>2. ASSUME NEW p \in Request, BeginArchive(p) PROVE TypeOK'
  BY <1>2, LockProposalType DEF BeginArchive, RequestOps
<1>3. ASSUME NEW p \in Request, BeginResolve(p) PROVE TypeOK'
  BY <1>3, PlainReadType DEF BeginResolve, RequestOps
<1>4. ASSUME NEW p \in Request, BeginDelete(p) PROVE TypeOK'
  BY <1>4, PlainReadType DEF BeginDelete, RequestOps
<1>5. ASSUME NEW p \in Request, NEW op \in {"cast", "retract"},
             BeginBallot(p, op)
      PROVE  TypeOK'
  BY <1>5, LockProposalType DEF BeginBallot, RequestOps
<1>6. ASSUME NEW p \in Request, NEW op \in {"cosign", "withdraw_cosign"},
             BeginCosign(p, op)
      PROVE  TypeOK'
  BY <1>6, PlainReadType DEF BeginCosign, RequestOps
<1>7. ASSUME NEW p \in Request, CountAdvance(p) PROVE TypeOK'
  BY <1>7, CountType DEF CountAdvance
<1>8. ASSUME NEW p \in Request, AdvanceToDeliberation(p) PROVE TypeOK'
  BY <1>8, FinishType DEF AdvanceToDeliberation, SetStatus, TypeOK, Status
<1>9. ASSUME NEW p \in Request, AdvanceToVoting(p) PROVE TypeOK'
  BY <1>9, OpenVotingType DEF AdvanceToVoting
<1>10. ASSUME NEW p \in Request, AdvanceToClose(p) PROVE TypeOK'
  <2>1. overdue' \in BOOLEAN
    BY <1>10 DEF AdvanceToClose, TypeOK
  <2> QED
    BY <1>10, <2>1, CloseType DEF AdvanceToClose
<1>11. ASSUME NEW p \in Request, Archive(p) PROVE TypeOK'
  BY <1>11, FinishType DEF Archive, SetStatus, TypeOK, Status
<1>12. ASSUME NEW p \in Request,
              NEW new \in {"voting", "failed", "passed", "deliberation"},
              Resolve(p, new)
       PROVE  TypeOK'
  <2>1. status' \in Status /\ overdue' \in BOOLEAN
    BY <1>12 DEF Resolve, SetStatus, TypeOK, Status
  <2> QED
    BY <1>12, <2>1, FinishType DEF Resolve, TypeOK
<1>13. ASSUME NEW p \in Request, Delete(p) PROVE TypeOK'
  BY <1>13, FinishType DEF Delete, TypeOK, Status, Box
<1>14. ASSUME NEW p \in Request, CastVote(p) PROVE TypeOK'
  BY <1>14, FinishType DEF CastVote, WriteBallot, TypeOK, Box
<1>15. ASSUME NEW p \in Request, RetractVote(p) PROVE TypeOK'
  BY <1>15, FinishType DEF RetractVote, WriteBallot, TypeOK, Box
<1>16. ASSUME NEW p \in Request, Cosign(p) PROVE TypeOK'
  BY <1>16, FinishType DEF Cosign, WriteSigners, TypeOK
<1>17. ASSUME NEW p \in Request, WithdrawCosign(p) PROVE TypeOK'
  BY <1>17, FinishType DEF WithdrawCosign, WriteSigners, TypeOK
<1>18. ASSUME NEW p \in Proc, Rollback(p) PROVE TypeOK'
  BY <1>18, FinishType DEF Rollback, TypeOK, row
<1>19. CASE WorkerBegin
  <2>1. CASE ListVoting
    BY <2>1, PlainReadType DEF ListVoting, WorkerOps
  <2>2. CASE BeginEvaluate
    <3>1. txn' \in [Proc -> Txn]
      <4>1. CASE Read(Worker, "evaluate")
        BY <4>1, ReadType DEF WorkerOps
      <4>2. CASE txn' = [txn EXCEPT ![Worker].op = "evaluate"]
        BY <4>2 DEF TypeOK, Txn, WorkerOps
      <4>3. CASE Finish(Worker)
        BY <4>3, FinishType
      <4> QED
        BY <2>2, <4>1, <4>2, <4>3 DEF BeginEvaluate
    <3>2. lock' \in Proc \cup {NoProc}
      BY <2>2, FinishType DEF BeginEvaluate, TypeOK
    <3> QED
      BY <2>2, <3>1, <3>2 DEF BeginEvaluate, TypeOK, row
  <2>3. CASE BeginAdvanceDue
    BY <2>3, PlainReadType, LockedReadType DEF BeginAdvanceDue, WorkerOps
  <2>4. CASE BeginCloseBudget
    BY <2>4, PlainReadType, LockedReadType DEF BeginCloseBudget, WorkerOps
  <2>5. CASE BeginCosignGate
    BY <2>5, PlainReadType DEF BeginCosignGate, WorkerOps
  <2>6. CASE ReloadCosignGate
    BY <2>6, ReadType DEF ReloadCosignGate, WorkerOps, TypeOK, row
  <2> QED
    BY <1>19, <2>1, <2>2, <2>3, <2>4, <2>5, <2>6 DEF WorkerBegin
<1>20. CASE WorkerCount
  <2>1. CASE CountNaturalClose
    BY <2>1 DEF CountNaturalClose, TypeOK, Txn, Status, WorkerOps, row
  <2>2. CASE CountEarlyClose
    BY <2>2, CountType DEF CountEarlyClose
  <2>3. CASE CountBudget
    BY <2>3, CountType DEF CountBudget
  <2>4. CASE CountSigners
    BY <2>4 DEF CountSigners, TypeOK, Txn, WorkerOps, row
  <2> QED
    BY <1>20, <2>1, <2>2, <2>3, <2>4 DEF WorkerCount
<1>21. CASE WorkerCommit
  <2>1. CASE EvaluateClose
    <3>1. overdue' \in BOOLEAN
      BY <2>1 DEF EvaluateClose, TypeOK
    <3> QED
      BY <2>1, <3>1, CloseType DEF EvaluateClose
  <2>2. CASE Extend
    <3>1. extensions' \in 0..MaxExtensions
      BY <2>2 DEF Extend, TypeOK
    <3>2. overdue' \in BOOLEAN
      BY <2>2 DEF Extend, TypeOK
    <3> QED
      BY <2>2, <3>1, <3>2, FinishType DEF Extend, TypeOK
  <2>3. CASE AdvanceDue
    BY <2>3, OpenVotingType DEF AdvanceDue
  <2>4. CASE CloseBudget
    <3>1. overdue' \in BOOLEAN
      BY <2>4 DEF CloseBudget, TypeOK
    <3> QED
      BY <2>4, <3>1, CloseType DEF CloseBudget
  <2>5. CASE CosignGateOpens
    BY <2>5, OpenVotingType DEF CosignGateOpens
  <2>6. CASE CosignGateExpires
    BY <2>6, FinishType DEF CosignGateExpires, SetStatus, TypeOK, Status
  <2> QED
    BY <1>21, <2>1, <2>2, <2>3, <2>4, <2>5, <2>6 DEF WorkerCommit
<1>22. CASE DeadlinePasses
  BY <1>22 DEF DeadlinePasses, TypeOK
<1>23. CASE UNCHANGED vars
  BY <1>23 DEF vars, TypeOK
<1> QED
  BY <1>1, <1>2, <1>3, <1>4, <1>5, <1>6, <1>7, <1>8, <1>9, <1>10, <1>11,
     <1>12, <1>13, <1>14, <1>15, <1>16, <1>17, <1>18, <1>19, <1>20, <1>21,
     <1>22, <1>23
  DEF Next, Begin, Commit

(* The variables keep their types.                                         *)
THEOREM TypeCorrect == Spec => []TypeOK
<1>1. Init => TypeOK
  <2> SUFFICES ASSUME Init PROVE TypeOK
    OBVIOUS
  <2>1. status \in Status /\ signers \subseteq Voter
    BY DEF Init, Status
  <2>2. extensions \in 0..MaxExtensions /\ effects \in 0..EffectCap
    BY DEF Init, EffectCap
  <2>3. ballots \in Box /\ txn \in [Proc -> Txn]
    BY DEF Init, Box, NoTxn, Txn, Status
  <2> QED
    BY <2>1, <2>2, <2>3 DEF Init, TypeOK
<1>2. TypeOK /\ [Next]_vars => TypeOK'
  BY TypeNext
<1> QED
  BY <1>1, <1>2, PTL DEF Spec

-----------------------------------------------------------------------------
(* The lock discipline.  OpenTxns gathers what LockingInv says of the open *)
(* transactions of an experimental proposal, Recorded what it says of the  *)
(* row.                                                                    *)
OpenTxns ==
    /\ LockHeld
    /\ BallotInTime
    /\ CountIsCurrent
    /\ Serialized

Recorded ==
    /\ status # "unresolved"
    /\ verdict # "none" => verdict = Tally(counted)
    /\ effects # 0 => verdict # "none" \/ status = "deleted"
    /\ FrozenBallots
    /\ OfficialStatus
    /\ InstalledOnce

(* LockingInv in two parts: what is said of the open transactions, and     *)
(* what is said of the recorded result.                                    *)
LEMMA LockingParts == LockingInv <=> (is_experimental => OpenTxns /\ Recorded)
  BY DEF LockingInv, OpenTxns, Recorded

(* The voting method is never changed, so what holds of the experimental   *)
(* methods is not lost by becoming one.                                    *)
LEMMA MethodFixed == [Next]_vars => method' = method
  BY DEF Next, Begin, Commit, WorkerBegin, WorkerCount, WorkerCommit,
         BeginAdvance, BeginArchive, BeginResolve, BeginDelete, BeginBallot,
         BeginCosign, lock_proposal, LockedRead, PlainRead, CountAdvance,
         CountBallots, AdvanceToDeliberation, AdvanceToVoting, OpenVoting,
         AdvanceToClose, Close, Archive, Resolve, Delete, CastVote,
         RetractVote, WriteBallot, Cosign, WithdrawCosign, WriteSigners,
         Rollback, ListVoting, BeginEvaluate, BeginAdvanceDue,
         BeginCloseBudget, BeginCosignGate, ReloadCosignGate,
         CountNaturalClose, CountEarlyClose, CountBudget, CountSigners,
         EvaluateClose, Extend, AdvanceDue, CloseBudget, CosignGateOpens,
         CosignGateExpires, DeadlinePasses, row, vars

(* A step that leaves the row alone leaves the recorded result alone.      *)
LEMMA RowKeepsRecorded ==
    ASSUME Recorded, UNCHANGED row
    PROVE  Recorded'
  BY DEF Recorded, row, FrozenBallots, OfficialStatus, InstalledOnce,
         is_experimental, Tally

(* A handler that takes no lock may begin: it is not one of LockingOps.    *)
LEMMA PlainReadKeeps ==
    ASSUME TypeOK, OpenTxns, Recorded, NEW p \in Proc,
           NEW op \in (RequestOps \cup WorkerOps)
                      \ (LockingOps \cup {"resolve", "close_budget"}),
           Read(p, op), lock' = lock \/ (lock = NoProc /\ lock' = p),
           UNCHANGED row, txn[p].op \notin LockingOps
    PROVE  OpenTxns' /\ Recorded'
  <1>1. \A q \in Proc \ {p} : txn'[q] = txn[q]
    BY DEF Read, TypeOK
  <1>2. txn'[p].op = op /\ txn'[p].box = NoBox
    BY DEF Read, TypeOK
  <1>3. LockHeld'
    BY <1>1, <1>2 DEF OpenTxns, LockHeld, LockingOps
  <1>4. BallotInTime' /\ CountIsCurrent'
    BY <1>1, <1>2 DEF OpenTxns, BallotInTime, CountIsCurrent, Counted,
                      LockingOps, row
  <1>5. Serialized'
    BY <1>1, <1>2 DEF OpenTxns, Serialized, LockingOps
  <1> QED
    BY <1>3, <1>4, <1>5, RowKeepsRecorded DEF OpenTxns

(* One that locks holds the lock from its first step.                      *)
LEMMA LockedReadKeeps ==
    ASSUME TypeOK, OpenTxns, Recorded, NEW p \in Proc,
           NEW op \in LockingOps, op \in {"cast", "retract"} => verdict = "none",
           op = "evaluate" => status = "voting",
           lock = NoProc, lock' = p, Read(p, op), UNCHANGED row
    PROVE  OpenTxns' /\ Recorded'
  <1>1. \A q \in Proc \ {p} : txn'[q] = txn[q]
    BY DEF Read, TypeOK
  <1>2. txn'[p].op = op /\ txn'[p].box = NoBox /\ txn'[p].seen = status
    BY DEF Read, TypeOK
  <1>3. LockHeld'
    BY <1>1, <1>2 DEF OpenTxns, LockHeld
  <1>4. BallotInTime' /\ CountIsCurrent'
    BY <1>1, <1>2 DEF OpenTxns, BallotInTime, CountIsCurrent, Counted, row
  <1>5. Serialized'
    BY <1>1, <1>2 DEF OpenTxns, Serialized, LockingOps
  <1> QED
    BY <1>3, <1>4, <1>5, RowKeepsRecorded DEF OpenTxns

(* Ending one transaction disturbs no other one, as long as the ballots    *)
(* and the result are left alone.                                          *)
LEMMA FinishKeeps ==
    ASSUME TypeOK, OpenTxns, NEW p \in Proc, Finish(p),
           UNCHANGED <<ballots, verdict>>
    PROVE  OpenTxns'
  <1>1. \A q \in Proc \ {p} : txn'[q] = txn[q]
    BY DEF Finish, TypeOK
  <1>2. txn'[p].op = "none" /\ txn'[p].box = NoBox
    BY DEF Finish, NoTxn, TypeOK
  <1>3. LockHeld'
    BY <1>1, <1>2 DEF OpenTxns, LockHeld, LockingOps, Finish
  <1>4. BallotInTime' /\ CountIsCurrent'
    BY <1>1, <1>2 DEF OpenTxns, BallotInTime, CountIsCurrent, Counted
  <1> QED
    BY <1>1, <1>2, <1>3, <1>4 DEF OpenTxns, Serialized

(* While one process may write, and holds the lock or finds it free, no    *)
(* other one is inside a locking handler.                                  *)
LEMMA Alone ==
    ASSUME OpenTxns, NEW p \in Proc, lock \in {NoProc, p}
    PROVE  \A q \in Proc \ {p} : txn[q].op \notin LockingOps
  BY DEF OpenTxns, LockHeld

(* So it may change ballots and result, too.                               *)
LEMMA LoneFinishKeeps ==
    ASSUME TypeOK, OpenTxns, NEW p \in Proc, Finish(p), lock \in {NoProc, p}
    PROVE  OpenTxns'
  <1>1. \A q \in Proc \ {p} : txn'[q] = txn[q] /\ txn[q].op \notin LockingOps
    BY Alone DEF Finish, TypeOK
  <1>2. txn'[p].op = "none" /\ txn'[p].box = NoBox
    BY DEF Finish, NoTxn, TypeOK
  <1>3. LockHeld'
    BY <1>1, <1>2 DEF LockHeld, LockingOps
  <1>4. BallotInTime' /\ CountIsCurrent'
    BY <1>1, <1>2 DEF OpenTxns, BallotInTime, CountIsCurrent, Counted, LockingOps
  <1> QED
    BY <1>1, <1>2, <1>3, <1>4 DEF OpenTxns, Serialized

(* Closing an experimental proposal, for the first time or again.          *)
LEMMA CloseKeeps ==
    ASSUME TypeOK, OpenTxns, Recorded, is_experimental, NEW p \in Proc,
           Close(p)
    PROVE  OpenTxns' /\ Recorded'
  <1>1. /\ txn[p].op \in {"advance", "evaluate"}
        /\ txn[p].seen = "voting"
        /\ txn[p].box = ballots
    BY DEF Close, OpenTxns, CountIsCurrent
  <1>2. OpenTxns'
    BY LoneFinishKeeps DEF Close, MayWrite
  <1>3. /\ verdict' = IF verdict = "none" THEN Tally(ballots) ELSE verdict
        /\ counted' = IF verdict = "none" THEN ballots ELSE counted
    BY <1>1 DEF Close, FinalizeResult
  <1>4. verdict' \in {"passed", "failed"}
    BY <1>3 DEF Tally, TypeOK
  <1>5. status' = verdict'
    BY <1>1, <1>3, <1>4 DEF Close, SetStatus, CloseStatus
  <1>6. ballots' = ballots /\ method' = method
    BY DEF Close
  <1>7. verdict' = Tally(counted) \/ verdict' = Tally(ballots)
    BY <1>3 DEF Recorded, Tally
  <1>8. effects' <= 1
    <2>1. CASE verdict = "none"
      <3>1. effects = 0
        BY <2>1 DEF Recorded, Close, MayWrite
      <3> QED
        BY <3>1 DEF Close, CloseHooks, EffectCap
    <2>2. CASE verdict # "none"
      BY <2>2 DEF Recorded, InstalledOnce, Close, CloseHooks
    <2> QED
      BY <2>1, <2>2
  <1>9. verdict' = Tally(counted')
    BY <1>3 DEF Recorded, Tally
  <1>10. Tally(counted)' = Tally(counted')
    BY DEF Tally
  <1>11. counted' = ballots'
    BY <1>3, <1>6 DEF Recorded, FrozenBallots
  <1> QED
    BY <1>2, <1>4, <1>5, <1>6, <1>8, <1>9, <1>10, <1>11
    DEF Recorded, FrozenBallots, OfficialStatus, InstalledOnce

(* A write of the status alone, to one that claims no result.              *)
LEMMA StatusWriteKeeps ==
    ASSUME TypeOK, OpenTxns, Recorded, is_experimental, NEW p \in Proc,
           NEW new \in Status \ {"passed", "failed", "unresolved"},
           SetStatus(p, new), status # "deleted", Finish(p),
           UNCHANGED <<method, ballots, verdict, counted, effects>>
    PROVE  OpenTxns' /\ Recorded'
  <1>1. OpenTxns'
    BY FinishKeeps
  <1>2. status' \in {status, new}
    BY DEF SetStatus
  <1> QED
    BY <1>1, <1>2
    DEF Recorded, FrozenBallots, OfficialStatus, InstalledOnce,
        is_experimental, Tally

(* A transaction that ends and leaves status, ballots and result alone.    *)
LEMMA EndKeeps ==
    ASSUME TypeOK, OpenTxns, Recorded, NEW p \in Proc, Finish(p),
           UNCHANGED <<status, method, ballots, verdict, counted, effects>>
    PROVE  OpenTxns' /\ Recorded'
  <1>1. OpenTxns'
    BY FinishKeeps
  <1> QED
    BY <1>1
    DEF Recorded, FrozenBallots, OfficialStatus, InstalledOnce,
        is_experimental, Tally

(* A ballot is written under the lock, while there is no result.           *)
LEMMA BallotKeeps ==
    ASSUME TypeOK, OpenTxns, Recorded, is_experimental, NEW p \in Proc,
           NEW v \in Voter, NEW b, txn[p].op \in {"cast", "retract"},
           WriteBallot(p, v, b)
    PROVE  OpenTxns' /\ Recorded'
  <1>1. lock = p /\ verdict = "none"
    BY DEF OpenTxns, LockHeld, BallotInTime, LockingOps
  <1>2. OpenTxns'
    BY <1>1, LoneFinishKeeps DEF WriteBallot
  <1> QED
    BY <1>1, <1>2
    DEF WriteBallot, Recorded, FrozenBallots, OfficialStatus, InstalledOnce,
        is_experimental

(* A closing handler reads the ballots while it holds the lock.            *)
LEMMA CountKeeps ==
    ASSUME TypeOK, OpenTxns, Recorded, NEW p \in Proc,
           txn[p].op \in {"advance", "evaluate"},
           \A q \in Proc \ {p} : txn'[q] = txn[q],
           txn'[p].op = txn[p].op, txn'[p].seen = "voting",
           txn'[p].box = ballots, UNCHANGED <<row, lock>>
    PROVE  OpenTxns' /\ Recorded'
  <1>3. LockHeld'
    BY DEF OpenTxns, LockHeld
  <1>4. BallotInTime' /\ CountIsCurrent'
    BY DEF OpenTxns, BallotInTime, CountIsCurrent, Counted, row
  <1>5. Serialized'
    BY DEF OpenTxns, Serialized, LockingOps
  <1> QED
    BY <1>3, <1>4, <1>5, RowKeepsRecorded DEF OpenTxns
(* One case for each action of Next; every one is an instance of the       *)
(* lemmas above, or impossible for an experimental proposal.               *)
LEMMA LockingNext == TypeOK /\ LockingInv /\ [Next]_vars => LockingInv'
<1> SUFFICES ASSUME TypeOK, [Next]_vars, is_experimental, OpenTxns, Recorded
             PROVE  OpenTxns' /\ Recorded'
  <2>1. LockingInv' <=> (is_experimental' => OpenTxns' /\ Recorded')
    BY LockingParts, PTL
  <2>2. [Next]_vars => (is_experimental' <=> is_experimental)
    BY MethodFixed DEF is_experimental
  <2> QED
    BY <2>1, <2>2, LockingParts
<1> USE DEF Proc
<1>1. ASSUME NEW p \in Request, BeginAdvance(p) PROVE OpenTxns' /\ Recorded'
  BY <1>1, LockedReadKeeps
  DEF BeginAdvance, lock_proposal, LockedRead, LockingOps
<1>2. ASSUME NEW p \in Request, BeginArchive(p) PROVE OpenTxns' /\ Recorded'
  BY <1>2, LockedReadKeeps
  DEF BeginArchive, lock_proposal, LockedRead, LockingOps
<1>3. ASSUME NEW p \in Request, BeginResolve(p) PROVE FALSE
  BY <1>3 DEF BeginResolve, Recorded
<1>4. ASSUME NEW p \in Request, BeginDelete(p) PROVE OpenTxns' /\ Recorded'
  BY <1>4, PlainReadKeeps
  DEF BeginDelete, PlainRead, Idle, LockingOps, RequestOps
<1>5. ASSUME NEW p \in Request, NEW op \in {"cast", "retract"},
             BeginBallot(p, op)
      PROVE  OpenTxns' /\ Recorded'
  BY <1>5, LockedReadKeeps
  DEF BeginBallot, require_mutable, lock_proposal, LockedRead, LockingOps
<1>6. ASSUME NEW p \in Request, NEW op \in {"cosign", "withdraw_cosign"},
             BeginCosign(p, op)
      PROVE  OpenTxns' /\ Recorded'
  BY <1>6, PlainReadKeeps
  DEF BeginCosign, PlainRead, Idle, LockingOps, RequestOps
<1>7. ASSUME NEW p \in Request, CountAdvance(p)
      PROVE  OpenTxns' /\ Recorded'
  <2>1. /\ \A q \in Proc \ {p} : txn'[q] = txn[q]
        /\ txn'[p].op = "advance"
        /\ txn'[p].seen = "voting"
        /\ txn'[p].box = ballots
    BY <1>7 DEF CountAdvance, CountBallots, TypeOK, Txn
  <2> QED
    BY <1>7, <2>1, CountKeeps DEF CountAdvance, CountBallots
<1>8. ASSUME NEW p \in Request, AdvanceToDeliberation(p)
      PROVE  OpenTxns' /\ Recorded'
  BY <1>8, StatusWriteKeeps DEF AdvanceToDeliberation, MayWrite, Status
<1>9. ASSUME NEW p \in Request, AdvanceToVoting(p)
      PROVE  OpenTxns' /\ Recorded'
  BY <1>9, StatusWriteKeeps DEF AdvanceToVoting, OpenVoting, MayWrite, Status
<1>10. ASSUME NEW p \in Request, AdvanceToClose(p)
       PROVE  OpenTxns' /\ Recorded'
  BY <1>10, CloseKeeps DEF AdvanceToClose
<1>11. ASSUME NEW p \in Request, Archive(p) PROVE OpenTxns' /\ Recorded'
  BY <1>11, StatusWriteKeeps DEF Archive, MayWrite, Status
<1>12. ASSUME NEW p \in Request,
              NEW new \in {"voting", "failed", "passed", "deliberation"},
              Resolve(p, new)
       PROVE  FALSE
  BY <1>12 DEF Resolve, OpenTxns, Serialized
<1>13. ASSUME NEW p \in Request, Delete(p) PROVE OpenTxns' /\ Recorded'
  <2>1. OpenTxns'
    BY <1>13, LoneFinishKeeps DEF Delete, MayWrite
  <2> QED
    BY <1>13, <2>1
    DEF Delete, Recorded, FrozenBallots, OfficialStatus, InstalledOnce
<1>14. ASSUME NEW p \in Request, CastVote(p) PROVE OpenTxns' /\ Recorded'
  BY <1>14, BallotKeeps DEF CastVote
<1>15. ASSUME NEW p \in Request, RetractVote(p) PROVE OpenTxns' /\ Recorded'
  BY <1>15, BallotKeeps DEF RetractVote
<1>16. ASSUME NEW p \in Request, Cosign(p) PROVE OpenTxns' /\ Recorded'
  BY <1>16, EndKeeps DEF Cosign, WriteSigners
<1>17. ASSUME NEW p \in Request, WithdrawCosign(p)
       PROVE  OpenTxns' /\ Recorded'
  BY <1>17, EndKeeps DEF WithdrawCosign, WriteSigners
<1>18. ASSUME NEW p \in Proc, Rollback(p) PROVE OpenTxns' /\ Recorded'
  BY <1>18, EndKeeps DEF Rollback, row
<1>19. CASE WorkerBegin
  <2>1. CASE ListVoting
    BY <2>1, PlainReadKeeps
    DEF ListVoting, PlainRead, Idle, LockingOps, WorkerOps
  <2>2. CASE BeginEvaluate
    <3>1. CASE status = "voting"
      BY <2>2, <3>1, LockedReadKeeps DEF BeginEvaluate, LockingOps
    <3>2. CASE status # "voting"
      BY <2>2, <3>2, EndKeeps DEF BeginEvaluate, row
    <3> QED
      BY <3>1, <3>2
  <2>3. CASE BeginAdvanceDue
    BY <2>3, PlainReadKeeps
    DEF BeginAdvanceDue, LockedRead, PlainRead, Idle, LockingOps, WorkerOps
  <2>4. CASE BeginCloseBudget
    BY <2>4 DEF BeginCloseBudget, is_experimental
  <2>5. CASE BeginCosignGate
    BY <2>5, PlainReadKeeps
    DEF BeginCosignGate, PlainRead, Idle, LockingOps, WorkerOps
  <2>6. CASE ReloadCosignGate
    BY <2>6, PlainReadKeeps DEF ReloadCosignGate, LockingOps, WorkerOps
  <2> QED
    BY <1>19, <2>1, <2>2, <2>3, <2>4, <2>5, <2>6 DEF WorkerBegin
<1>20. CASE WorkerCount
  <2>1. CASE CountNaturalClose
    <3>1. /\ \A q \in Proc \ {Worker} : txn'[q] = txn[q]
          /\ txn[Worker].op = "evaluate" /\ txn'[Worker].op = "evaluate"
          /\ txn'[Worker].seen = "voting"
          /\ txn'[Worker].box = ballots
      BY <2>1 DEF CountNaturalClose, Evaluating, TypeOK
    <3> QED
      BY <2>1, <3>1, CountKeeps DEF CountNaturalClose
  <2>2. CASE CountEarlyClose
    <3>1. /\ txn[Worker].op = "evaluate"
          /\ txn[Worker].seen = "voting"
      BY <2>2 DEF CountEarlyClose, Evaluating, OpenTxns, Serialized
    <3>2. /\ \A q \in Proc \ {Worker} : txn'[q] = txn[q]
          /\ txn'[Worker].op = "evaluate"
          /\ txn'[Worker].seen = "voting"
          /\ txn'[Worker].box = ballots
      BY <2>2, <3>1 DEF CountEarlyClose, CountBallots, TypeOK, Txn
    <3> QED
      BY <2>2, <3>1, <3>2, CountKeeps DEF CountEarlyClose, CountBallots
  <2>3. CASE CountBudget
    BY <2>3 DEF CountBudget, OpenTxns, Serialized
  <2>4. CASE CountSigners
    <3>1. /\ \A q \in Proc \ {Worker} : txn'[q] = txn[q]
          /\ txn'[Worker].op \in {"cosign_met", "cosign_unmet"}
          /\ txn'[Worker].box = txn[Worker].box
      BY <2>4 DEF CountSigners, TypeOK, Txn
    <3>2. OpenTxns'
      BY <2>4, <3>1
      DEF CountSigners, OpenTxns, LockHeld, BallotInTime, CountIsCurrent,
          Serialized, Counted, LockingOps, row
    <3> QED
      BY <2>4, <3>2, RowKeepsRecorded DEF CountSigners
  <2> QED
    BY <1>20, <2>1, <2>2, <2>3, <2>4 DEF WorkerCount
<1>21. CASE WorkerCommit
  <2>1. CASE EvaluateClose
    BY <2>1, CloseKeeps DEF EvaluateClose
  <2>2. CASE Extend
    BY <2>2, EndKeeps DEF Extend
  <2>3. CASE AdvanceDue
    BY <2>3, StatusWriteKeeps DEF AdvanceDue, OpenVoting, MayWrite, Status
  <2>4. CASE CloseBudget
    BY <2>4 DEF CloseBudget, OpenTxns, Serialized
  <2>5. CASE CosignGateOpens
    BY <2>5, StatusWriteKeeps
    DEF CosignGateOpens, OpenVoting, MayWrite, Status
  <2>6. CASE CosignGateExpires
    BY <2>6, StatusWriteKeeps DEF CosignGateExpires, MayWrite, Status
  <2> QED
    BY <1>21, <2>1, <2>2, <2>3, <2>4, <2>5, <2>6 DEF WorkerCommit
<1>22. CASE DeadlinePasses
  BY <1>22
  DEF DeadlinePasses, OpenTxns, LockHeld, BallotInTime, CountIsCurrent,
      Serialized, Counted, Recorded, FrozenBallots, OfficialStatus,
      InstalledOnce, is_experimental, Tally
<1>23. CASE UNCHANGED vars
  BY <1>23
  DEF vars, OpenTxns, LockHeld, BallotInTime, CountIsCurrent,
      Serialized, Counted, Recorded, FrozenBallots, OfficialStatus,
      InstalledOnce, is_experimental, Tally
<1> QED
  BY <1>1, <1>2, <1>3, <1>4, <1>5, <1>6, <1>7, <1>8, <1>9, <1>10, <1>11,
     <1>12, <1>13, <1>14, <1>15, <1>16, <1>17, <1>18, <1>19, <1>20, <1>21,
     <1>22, <1>23
  DEF Next, Begin, Commit

(* A new proposal has no result, no lock and no open transaction.          *)
LEMMA LockingInit == Init => LockingInv
  BY DEF Init, LockingInv, LockHeld, BallotInTime, CountIsCurrent, Serialized,
         Counted, FrozenBallots, OfficialStatus, InstalledOnce,
         is_experimental, NoTxn, LockingOps

(* The row lock of lock_proposal does what the experimental methods need,  *)
(* whatever the other handlers do without it: the lock discipline and the  *)
(* result that rests on it hold in every reachable state.                  *)
THEOREM LockingCorrect == Spec => []LockingInv
<1>1. Init => LockingInv
  BY LockingInit
<1>2. TypeOK /\ LockingInv /\ [Next]_vars => LockingInv'
  BY LockingNext
<1> QED
  BY <1>1, <1>2, TypeCorrect, PTL DEF Spec

(* The result of an experimental proposal stands: the ballots on file are  *)
(* those it was computed from, the status agrees with it, and the winners  *)
(* were installed at most once.                                            *)
THEOREM ResultStands ==
    Spec => [](FrozenBallots /\ OfficialStatus /\ InstalledOnce)
<1>1. LockingInv => FrozenBallots /\ OfficialStatus /\ InstalledOnce
  BY DEF LockingInv, FrozenBallots, OfficialStatus, InstalledOnce
<1> QED
  BY <1>1, LockingCorrect, PTL

(* The published status of an experimental proposal is the one its result  *)
(* earned, whatever stale writers bring back in between.                   *)
THEOREM StatusIsOfficial == Spec => []OfficialStatus
  BY ResultStands, PTL

(* The winners of an election are installed once, however many closes of   *)
(* the proposal run.                                                       *)
THEOREM WinnersInstalledOnce == Spec => []InstalledOnce
  BY ResultStands, PTL

(* No step replaces a recorded result: a stale writer may bring an old     *)
(* status back, but closing again finds the result and keeps it.           *)
THEOREM ResultNeverReplaced == Spec => FrozenResult
<1> DEFINE Kept == is_experimental /\ verdict # "none" /\ status' # "deleted"
                     => UNCHANGED <<verdict, counted>>
<1>1. ASSUME NEW p \in Proc, Close(p) PROVE Kept
  BY <1>1 DEF Close, FinalizeResult
<1>2. ASSUME Next, ~ \E p \in Proc : Close(p) \/ Delete(p)
      PROVE  UNCHANGED <<verdict, counted>>
  BY <1>2
  DEF Next, Begin, Commit, WorkerBegin, WorkerCount, WorkerCommit, Proc,
      BeginAdvance, BeginArchive, BeginResolve, BeginDelete, BeginBallot,
      BeginCosign, lock_proposal, LockedRead, PlainRead, CountAdvance,
      CountBallots, AdvanceToDeliberation, AdvanceToVoting, OpenVoting,
      AdvanceToClose, Archive, Resolve, CastVote, RetractVote,
      WriteBallot, Cosign, WithdrawCosign, WriteSigners,
      Rollback, ListVoting, BeginEvaluate, BeginAdvanceDue,
      BeginCloseBudget, BeginCosignGate, ReloadCosignGate,
      CountNaturalClose, CountEarlyClose, CountBudget, CountSigners,
      EvaluateClose, Extend, AdvanceDue, CloseBudget, CosignGateOpens,
      CosignGateExpires, DeadlinePasses, row
<1>3. ASSUME NEW p \in Proc, Delete(p) PROVE Kept
  BY <1>3 DEF Delete
<1>4. [Next]_vars => [Kept]_vars
  BY <1>1, <1>2, <1>3 DEF vars
<1> QED
  BY <1>4, PTL DEF Spec, FrozenResult

-----------------------------------------------------------------------------
(* The refinement: with the row lock of lock_proposal taken by every       *)
(* handler in use, the concurrent transactions on one proposal are, step   *)
(* for step, the atomic operations of ProposalStatus. The inductive        *)
(* invariant says that a proposal row cannot change under a handler that   *)
(* has read it: what the handler decided on is still there when it commits.*)


(* The setting in which nothing writes the row without its lock: the       *)
(* experimental methods, no cosigning, no scheduled automation, and nobody *)
(* deletes a draft.  Run lifecycle_archive shows the scheduled automation  *)
(* breaking the promise.                                                   *)
LockedOnly ==
    /\ Methods = {"experimental"}
    /\ Gating = {FALSE}
    /\ ~ Automation
    /\ "delete" \notin Operations

Undecided == {"draft", "deliberation", "voting"}

(* Only these handlers ever run.                                           *)
OnlyLocking ==
    \A p \in Proc : txn[p].op \in LockingOps \cup {"none", "listed"}

(* What a locking handler read is what is there.                           *)
ReadIsCurrent ==
    \A p \in Proc : txn[p].op \in LockingOps => txn[p].seen = status

(* Each of them was let in by the status it read.                          *)
LetIn ==
    \A p \in Proc :
        /\ txn[p].op = "advance" => txn[p].seen \in Undecided
        /\ txn[p].op = "archive" => txn[p].seen # "withdrawn"
        /\ txn[p].op \in {"cast", "retract"} =>
               \/ txn[p].seen = "voting"
               \/ txn[p].seen = "deliberation" /\ PreVoting

(* A proposal that is not decided yet has no result and no consequences.   *)
NothingEarly ==
    /\ status \in Undecided \cup {"passed", "failed", "withdrawn"}
    /\ status \in Undecided => verdict = "none"
    /\ verdict = "none" => effects = 0

Setting == is_experimental /\ ~ gated

SerialInv ==
    /\ Setting
    /\ OnlyLocking
    /\ ReadIsCurrent
    /\ LetIn
    /\ NothingEarly
-----------------------------------------------------------------------------
(* The inductive invariant                                                 *)

(* A new proposal is a draft or in voting; nothing has been read of it.    *)
LEMMA SerialInit ==
    ASSUME LockedOnly, Init
    PROVE  SerialInv
  BY DEF LockedOnly, Init, SerialInv, Setting, OnlyLocking, ReadIsCurrent, LetIn,
         NothingEarly, Undecided, is_experimental, NoTxn, LockingOps

(* A handler begins: it takes the lock, and reads what is there.           *)
LEMMA BeginKeepsSerial ==
    ASSUME TypeOK, SerialInv, NEW p \in Proc, NEW op \in LockingOps \cup {"listed"},
           Read(p, op), UNCHANGED row,
           op = "advance" => status \in Undecided,
           op = "archive" => status # "withdrawn",
           op \in {"cast", "retract"} =>
               status = "voting" \/ (status = "deliberation" /\ PreVoting)
    PROVE  SerialInv'
  <1>1. \A q \in Proc \ {p} : txn'[q] = txn[q]
    BY DEF Read, TypeOK
  <1>2. txn'[p].op = op /\ txn'[p].seen = status
    BY DEF Read, TypeOK
  <1>3. OnlyLocking' /\ ReadIsCurrent' /\ LetIn'
    BY <1>1, <1>2 DEF SerialInv, OnlyLocking, ReadIsCurrent, LetIn, row, LockingOps
  <1> QED
    BY <1>3 DEF SerialInv, Setting, NothingEarly, is_experimental, row

(* A closing handler counts; it goes on with what it had read.             *)
LEMMA CountKeepsSerial ==
    ASSUME TypeOK, SerialInv, NEW p \in Proc,
           \A q \in Proc \ {p} : txn'[q] = txn[q],
           txn'[p].op = txn[p].op, txn'[p].seen = txn[p].seen, UNCHANGED row
    PROVE  SerialInv'
  <1>1. OnlyLocking' /\ ReadIsCurrent' /\ LetIn'
    BY DEF SerialInv, OnlyLocking, ReadIsCurrent, LetIn, row
  <1> QED
    BY <1>1 DEF SerialInv, Setting, NothingEarly, is_experimental, row

(* A handler ends.  If it changed the status, it held the lock, and nobody *)
(* else was working from what the status was.                              *)
LEMMA EndKeepsSerial ==
    ASSUME TypeOK, LockingInv, SerialInv, NEW p \in Proc, Finish(p),
           UNCHANGED <<method, gated>>,
           status' = status \/ lock \in {NoProc, p}, NothingEarly'
    PROVE  SerialInv'
  <1>1. \A q \in Proc \ {p} : txn'[q] = txn[q]
    BY DEF Finish, TypeOK
  <1>2. txn'[p].op = "none"
    BY DEF Finish, NoTxn, TypeOK
  <1>3. ReadIsCurrent'
    <2>1. CASE status' = status
      BY <1>1, <1>2, <2>1 DEF SerialInv, ReadIsCurrent, LockingOps
    <2>2. CASE lock \in {NoProc, p}
      <3>1. \A q \in Proc \ {p} : txn[q].op \notin LockingOps
        BY <2>2, Alone, LockingParts DEF SerialInv, Setting
      <3> QED
        BY <1>1, <1>2, <3>1 DEF ReadIsCurrent, LockingOps
    <2> QED
      BY <2>1, <2>2
  <1>4. OnlyLocking' /\ LetIn'
    BY <1>1, <1>2 DEF SerialInv, OnlyLocking, LetIn
  <1> QED
    BY <1>3, <1>4 DEF SerialInv, Setting, is_experimental

(* What a handler that holds the lock knows of the row it will write.      *)
LEMMA Holder ==
    ASSUME TypeOK, LockingInv, SerialInv, NEW p \in Proc, txn[p].op \in LockingOps
    PROVE  lock = p /\ txn[p].seen = status
  BY LockingParts DEF SerialInv, Setting, OpenTxns, LockHeld, ReadIsCurrent

(* A close finds the vote open and undecided, and counts what is on file.  *)
LEMMA CloseIsFirst ==
    ASSUME TypeOK, LockingInv, SerialInv, NEW p \in Proc, Close(p)
    PROVE  /\ status = "voting" /\ verdict = "none" /\ effects = 0
           /\ status' = Tally(ballots) /\ verdict' = Tally(ballots)
           /\ effects' = IF Tally(ballots) = "passed" THEN 1 ELSE 0
  <1>1. /\ txn[p].op \in LockingOps
        /\ txn[p].seen = "voting"
        /\ txn[p].box = ballots
    BY LockingParts
    DEF Close, SerialInv, Setting, OpenTxns, CountIsCurrent, LockingOps
  <1>2. status = "voting"
    BY <1>1, Holder
  <1>3. verdict = "none" /\ effects = 0
    BY <1>2 DEF SerialInv, NothingEarly, Undecided
  <1>4. CloseStatus(p) = Tally(ballots)
    BY <1>1, <1>3 DEF CloseStatus, SerialInv, Setting
  <1>5. status' = Tally(ballots)
    BY <1>1, <1>4 DEF Close, SetStatus, Tally
  <1>6. verdict' = Tally(ballots)
    BY <1>1, <1>3 DEF Close, FinalizeResult, SerialInv, Setting
  <1>7. effects' = IF Tally(ballots) = "passed" THEN 1 ELSE 0
    BY <1>3, <1>4 DEF Close, CloseHooks, EffectCap
  <1> QED
    BY <1>2, <1>3, <1>5, <1>6, <1>7
-----------------------------------------------------------------------------
(* What each writing step is, seen as a step of ProposalStatus             *)

LEMMA CloseImplements ==
    ASSUME TypeOK, LockingInv, SerialInv, NEW p \in Proc, Close(p)
    PROVE  Abstract!Close
  <1>1. ballots' = ballots
    BY DEF Close
  <1> QED
    BY <1>1, CloseIsFirst DEF Abstract!Close, Abstract!Outcome, Tally

(* A ballot is written while the vote is open, or about to open.           *)
LEMMA BallotImplements ==
    ASSUME TypeOK, LockingInv, SerialInv, NEW p \in Proc,
           txn[p].op \in {"cast", "retract"},
           NEW v \in Voter, NEW b \in Ballot \cup {NoBallot}, WriteBallot(p, v, b)
    PROVE  Abstract!Vote
  <1>1. status = "voting" \/ (status = "deliberation" /\ PreVoting)
    BY Holder DEF SerialInv, LetIn, LockingOps
  <1> QED
    BY <1>1 DEF WriteBallot, Abstract!Vote

(* A handler that moves the status on moves it from what is there.         *)
LEMMA AdvanceImplements ==
    ASSUME TypeOK, LockingInv, SerialInv, NEW p \in Proc
    PROVE  /\ AdvanceToDeliberation(p) => Abstract!Publish
           /\ AdvanceToVoting(p) => Abstract!OpenVoting
           /\ Archive(p) => Abstract!Withdraw
  <1>1. ASSUME AdvanceToDeliberation(p) PROVE Abstract!Publish
    <2>1. status = "draft"
      BY <1>1, Holder DEF AdvanceToDeliberation, LockingOps
    <2> QED
      BY <1>1, <2>1 DEF AdvanceToDeliberation, SetStatus, Abstract!Publish
  <1>2. ASSUME AdvanceToVoting(p) PROVE Abstract!OpenVoting
    <2>1. status = "deliberation"
      BY <1>2, Holder DEF AdvanceToVoting, LockingOps
    <2> QED
      BY <1>2, <2>1 DEF AdvanceToVoting, OpenVoting, SetStatus, Abstract!OpenVoting
  <1>3. ASSUME Archive(p) PROVE Abstract!Withdraw
    <2>1. status = txn[p].seen /\ txn[p].seen # "withdrawn"
      BY <1>3, Holder DEF Archive, LockingOps, SerialInv, LetIn
    <2> QED
      BY <1>3, <2>1 DEF Archive, SetStatus, Abstract!Withdraw
  <1> QED
    BY <1>1, <1>2, <1>3

(* The writes keep the invariant, and nobody else is inside a locking      *)
(* handler when they are made.                                             *)
LEMMA WriteKeepsSerial ==
    ASSUME TypeOK, LockingInv, SerialInv, NEW p \in Proc, Finish(p),
           UNCHANGED <<method, gated>>, lock \in {NoProc, p},
           Abstract!Publish \/ Abstract!OpenVoting \/ Abstract!Close
             \/ Abstract!Withdraw
    PROVE  SerialInv'
  <1>1. CASE Abstract!Publish
    <2>1. NothingEarly'
      BY <1>1 DEF Abstract!Publish, SerialInv, NothingEarly, Undecided
    <2> QED
      BY <2>1, EndKeepsSerial
  <1>2. CASE Abstract!OpenVoting
    <2>1. NothingEarly'
      BY <1>2 DEF Abstract!OpenVoting, SerialInv, NothingEarly, Undecided
    <2> QED
      BY <2>1, EndKeepsSerial
  <1>3. CASE Abstract!Close
    <2>1. NothingEarly'
      BY <1>3 DEF Abstract!Close, Abstract!Outcome, NothingEarly, Undecided
    <2> QED
      BY <2>1, EndKeepsSerial
  <1>4. CASE Abstract!Withdraw
    <2>1. NothingEarly'
      BY <1>4 DEF Abstract!Withdraw, SerialInv, NothingEarly, Undecided
    <2> QED
      BY <2>1, EndKeepsSerial
  <1> QED
    BY <1>1, <1>2, <1>3, <1>4

(* A transaction that ends without changing status, result or effects.     *)
LEMMA QuietEndKeepsSerial ==
    ASSUME TypeOK, LockingInv, SerialInv, NEW p \in Proc, Finish(p),
           UNCHANGED <<method, gated, status, verdict, effects>>
    PROVE  SerialInv'
  <1>1. NothingEarly'
    BY DEF SerialInv, NothingEarly
  <1> QED
    BY <1>1, EndKeepsSerial

-----------------------------------------------------------------------------
(* The refinement                                                          *)

(* One step: the invariant is kept, and what the voters see of the step is *)
(* one operation of ProposalStatus, or nothing.                            *)
LEMMA SerialNext ==
    ASSUME LockedOnly, TypeOK, LockingInv, SerialInv, [Next]_vars
    PROVE  SerialInv' /\ [Abstract!Next]_(Abstract!vars)
<1> DEFINE Good == SerialInv' /\ [Abstract!Next]_(Abstract!vars)
<1> SUFFICES Good
  OBVIOUS
<1> USE DEF Proc
<1>1. ASSUME NEW p \in Request, BeginAdvance(p) PROVE Good
  <2>1. UNCHANGED row /\ Read(p, "advance") /\ status \in Undecided
    BY <1>1 DEF BeginAdvance, lock_proposal, LockedRead, PlainRead, Undecided
  <2> QED
    BY <2>1, BeginKeepsSerial DEF LockingOps, Abstract!vars, row
<1>2. ASSUME NEW p \in Request, BeginArchive(p) PROVE Good
  <2>1. UNCHANGED row /\ Read(p, "archive") /\ status # "withdrawn"
    BY <1>2 DEF BeginArchive, lock_proposal, LockedRead, PlainRead
  <2> QED
    BY <2>1, BeginKeepsSerial DEF LockingOps, Abstract!vars, row
<1>3. ASSUME NEW p \in Request, BeginResolve(p) PROVE FALSE
  BY <1>3 DEF BeginResolve, SerialInv, NothingEarly, Undecided
<1>4. "delete" \notin Operations
  BY DEF LockedOnly
<1>5. ASSUME NEW p \in Request, NEW op \in {"cast", "retract"},
             BeginBallot(p, op)
      PROVE  Good
  <2>1. /\ UNCHANGED row /\ Read(p, op)
        /\ status = "voting" \/ (status = "deliberation" /\ PreVoting)
    BY <1>5 DEF BeginBallot, lock_proposal, LockedRead, PlainRead, VotingOpen
  <2> QED
    BY <2>1, BeginKeepsSerial DEF LockingOps, Abstract!vars, row
<1>6. ASSUME NEW p \in Request, NEW op \in {"cosign", "withdraw_cosign"},
             BeginCosign(p, op)
      PROVE  FALSE
  BY <1>6 DEF BeginCosign, Gathering, SerialInv, Setting
<1>7. ASSUME NEW p \in Request, CountAdvance(p) PROVE Good
  <2>1. /\ \A q \in Proc \ {p} : txn'[q] = txn[q]
        /\ txn'[p].op = txn[p].op /\ txn'[p].seen = txn[p].seen
        /\ UNCHANGED row
    BY <1>7 DEF CountAdvance, CountBallots, TypeOK, Txn
  <2> QED
    BY <2>1, CountKeepsSerial DEF Abstract!vars, row
<1>8. ASSUME NEW p \in Request, AdvanceToDeliberation(p) PROVE Good
  <2>1. Abstract!Publish
    BY <1>8, AdvanceImplements
  <2> QED
    BY <1>8, <2>1, WriteKeepsSerial
    DEF AdvanceToDeliberation, MayWrite, Abstract!Next
<1>9. ASSUME NEW p \in Request, AdvanceToVoting(p) PROVE Good
  <2>1. Abstract!OpenVoting
    BY <1>9, AdvanceImplements
  <2> QED
    BY <1>9, <2>1, WriteKeepsSerial
    DEF AdvanceToVoting, OpenVoting, MayWrite, Abstract!Next
<1>10. ASSUME NEW p \in Proc, Close(p) PROVE Good
  <2>1. Abstract!Close
    BY <1>10, CloseImplements
  <2> QED
    BY <1>10, <2>1, WriteKeepsSerial DEF Close, MayWrite, Abstract!Next
<1>11. ASSUME NEW p \in Request, Archive(p) PROVE Good
  <2>1. Abstract!Withdraw
    BY <1>11, AdvanceImplements
  <2> QED
    BY <1>11, <2>1, WriteKeepsSerial DEF Archive, MayWrite, Abstract!Next
<1>12. ASSUME NEW p \in Proc,
              txn[p].op \in {"resolve", "delete", "cosign", "withdraw_cosign",
                             "advance_due", "close_budget", "cosign_gate",
                             "cosign_met", "cosign_unmet"}
       PROVE  FALSE
  BY <1>12 DEF SerialInv, OnlyLocking, LockingOps
<1>13. ASSUME NEW p \in Request, CastVote(p) PROVE Good
  <2>1. PICK v \in Voter, b \in Ballot : WriteBallot(p, v, b)
    BY <1>13 DEF CastVote
  <2>2. Abstract!Vote
    BY <1>13, <2>1, BallotImplements DEF CastVote
  <2> QED
    BY <2>1, <2>2, QuietEndKeepsSerial DEF WriteBallot, Abstract!Next
<1>14. ASSUME NEW p \in Request, RetractVote(p) PROVE Good
  <2>1. PICK v \in Voter : WriteBallot(p, v, NoBallot)
    BY <1>14 DEF RetractVote
  <2>2. Abstract!Vote
    BY <1>14, <2>1, BallotImplements DEF RetractVote
  <2> QED
    BY <2>1, <2>2, QuietEndKeepsSerial DEF WriteBallot, Abstract!Next
<1>15. ASSUME NEW p \in Proc, Rollback(p) PROVE Good
  BY <1>15, QuietEndKeepsSerial DEF Rollback, row, Abstract!vars
<1>16. CASE ListVoting
  BY <1>16, BeginKeepsSerial DEF ListVoting, PlainRead, row, Abstract!vars
<1>17. CASE BeginEvaluate
  <2>1. CASE status = "voting"
    <3>1. UNCHANGED row /\ Read(Worker, "evaluate")
      BY <1>17, <2>1 DEF BeginEvaluate, SerialInv, Setting
    <3> QED
      BY <3>1, BeginKeepsSerial DEF LockingOps, Abstract!vars, row
  <2>2. CASE status # "voting"
    <3>1. UNCHANGED row /\ Finish(Worker)
      BY <1>17, <2>2 DEF BeginEvaluate, SerialInv, Setting
    <3> QED
      BY <3>1, QuietEndKeepsSerial DEF Abstract!vars, row
  <2> QED
    BY <2>1, <2>2
<1>18. CASE CountNaturalClose
  <2>1. txn[Worker].seen = "voting"
    BY <1>18, LockingParts
    DEF CountNaturalClose, Evaluating, SerialInv, Setting, OpenTxns, Serialized
  <2>2. /\ \A q \in Proc \ {Worker} : txn'[q] = txn[q]
        /\ txn'[Worker].op = txn[Worker].op
        /\ txn'[Worker].seen = txn[Worker].seen
        /\ UNCHANGED row
    BY <1>18, <2>1 DEF CountNaturalClose, Evaluating, TypeOK
  <2> QED
    BY <2>2, CountKeepsSerial DEF Abstract!vars, row
<1>19. CASE CountEarlyClose
  <2>1. /\ \A q \in Proc \ {Worker} : txn'[q] = txn[q]
        /\ txn'[Worker].op = txn[Worker].op
        /\ txn'[Worker].seen = txn[Worker].seen
        /\ UNCHANGED row
    BY <1>19 DEF CountEarlyClose, CountBallots, TypeOK, Txn
  <2> QED
    BY <2>1, CountKeepsSerial DEF Abstract!vars, row
<1>20. CASE Extend
  BY <1>20, QuietEndKeepsSerial DEF Extend, Abstract!vars
<1>21. CASE DeadlinePasses
  BY <1>21
  DEF DeadlinePasses, SerialInv, Setting, OnlyLocking, ReadIsCurrent, LetIn,
      NothingEarly, is_experimental, Abstract!vars
<1>22. CASE UNCHANGED vars
  BY <1>22
  DEF vars, SerialInv, Setting, OnlyLocking, ReadIsCurrent, LetIn,
      NothingEarly, is_experimental, Abstract!vars
<1>23. ~ BeginAdvanceDue /\ ~ BeginCloseBudget /\ ~ BeginCosignGate
  BY DEF LockedOnly, BeginAdvanceDue, BeginCloseBudget, BeginCosignGate,
         Gathering, SerialInv, Setting
<1>24. CASE WorkerBegin
  BY <1>12, <1>16, <1>17, <1>23, <1>24 DEF WorkerBegin, ReloadCosignGate
<1>25. CASE WorkerCount
  BY <1>12, <1>18, <1>19, <1>25 DEF WorkerCount, CountBudget, CountSigners
<1>26. CASE WorkerCommit
  BY <1>10, <1>12, <1>20, <1>26
  DEF WorkerCommit, EvaluateClose, AdvanceDue, CloseBudget, CosignGateOpens,
      CosignGateExpires
<1>27. ASSUME NEW p \in Request, Begin(p) PROVE Good
  BY <1>1, <1>2, <1>3, <1>4, <1>5, <1>6, <1>27 DEF Begin
<1>28. ASSUME NEW p \in Request, Commit(p) PROVE Good
  BY <1>8, <1>9, <1>10, <1>11, <1>12, <1>13, <1>14, <1>28
  DEF Commit, AdvanceToClose, Resolve, Delete, Cosign, WithdrawCosign
<1> QED
  BY <1>7, <1>15, <1>21, <1>22, <1>24, <1>25, <1>26, <1>27, <1>28 DEF Next

(* In this setting the concurrent handlers implement the atomic            *)
(* proposal: every behaviour of the transactions of routes/proposals.py,   *)
(* routes/votes.py and the worker is one of ProposalStatus.                *)
THEOREM LockImplementsStatus ==
    ASSUME LockedOnly
    PROVE  Spec => ImplementsProposalStatus
<1>1. Init => SerialInv
  BY SerialInit
<1>2. TypeOK /\ LockingInv /\ SerialInv /\ [Next]_vars
        => SerialInv' /\ [Abstract!Next]_(Abstract!vars)
  BY SerialNext
<1>3. Init => Abstract!Init
  BY DEF Init, Abstract!Init, LockedOnly
<1> QED
  BY <1>1, <1>2, <1>3, TypeCorrect, LockingCorrect, PTL
  DEF Spec, ImplementsProposalStatus, Abstract!Spec
=============================================================================
