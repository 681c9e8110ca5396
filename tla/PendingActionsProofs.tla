------------------------ MODULE PendingActionsProofs ------------------------
(***************************************************************************)
(* Proofs about PendingActions, for any number of members, actions, cells, *)
(* handlers, thresholds and role changes: the types; that nothing is       *)
(* written on behalf of a queued action without the quorum on file; that   *)
(* decisions stand; and that every step of the queue is a step of          *)
(* Ratification or leaves it alone.                                        *)
(***************************************************************************)
EXTENDS PendingActions, FiniteSetTheorems, TLAPS

(* What is known of the approvers before anything else.                    *)
LEMMA ApproversFinite ==
    ASSUME NEW a \in Actions
    PROVE  /\ IsFiniteSet(Approvers(a)) /\ Cardinality(Approvers(a)) \in Nat
           /\ IsFiniteSet(Approvers(a)') /\ Cardinality(Approvers(a)') \in Nat
  <1>1. Approvers(a) \in SUBSET Users /\ Approvers(a)' \in SUBSET Users
    BY DEF Approvers
  <1>2. IsFiniteSet(Approvers(a)) /\ IsFiniteSet(Approvers(a)')
    BY <1>1, FS_Subset, PendingAssumption
  <1> QED
    BY <1>2, FS_CardinalityType

(* Who approved before is still among the approvers when no decision is    *)
(* withdrawn, and there are no fewer of them.                              *)
LEMMA ApproversGrow ==
    ASSUME NEW a \in Actions, Approvers(a) \subseteq Approvers(a)'
    PROVE  Cardinality(Approvers(a)) <= Cardinality(Approvers(a)')
  BY ApproversFinite, FS_Subset

LEMMA PayloadCells ==
    ASSUME NEW a \in Actions
    PROVE  /\ SeqCells(Payload[a]) \subseteq Cells
           /\ SeqCells(Payload[a]) # {}
           /\ WrittenPrefix(a) \subseteq SeqCells(Payload[a])
  <1>1. Payload[a] \in Seq(Cells) /\ Payload[a] # <<>>
    BY PendingAssumption
  <1>2. DOMAIN Payload[a] = 1 .. Len(Payload[a]) /\ Len(Payload[a]) \in Nat \ {0}
    BY <1>1
  <1>3. 1 \in DOMAIN Payload[a]
    BY <1>2
  <1>4. \A i \in DOMAIN Payload[a] : Payload[a][i] \in Cells
    BY <1>1
  <1> QED
    BY <1>3, <1>4 DEF SeqCells, WrittenPrefix

(* Whatever the executor meets, it resolves the action, writes cells of    *)
(* the payload only, and says "executed" only if it wrote them all.        *)
LEMMA ExecuteFacts ==
    ASSUME NEW a \in Actions, NEW by, NEW base
    PROVE  LET run == _execute_now(a, by, base) IN
           /\ run = [status |-> run.status, cells |-> run.cells]
           /\ run.status \in {"executed", "failed"}
           /\ run.cells \subseteq SeqCells(Payload[a])
           /\ run.cells \in SUBSET Cells
           /\ run.status = "executed" => run.cells = SeqCells(Payload[a])
  BY PayloadCells DEF _execute_now

-----------------------------------------------------------------------------
(* Types.                                                                  *)

LEMMA InitType == Init => TypeOK
  <1> SUFFICES ASSUME Init PROVE TypeOK
    OBVIOUS
  <1>1. NoRow \in Row
    BY PendingAssumption DEF NoRow, Row, Status, Final
  <1> QED
    BY <1>1, PendingAssumption DEF Init, TypeOK, Idle, Verdicts

LEMMA TxnFields ==
    ASSUME TypeOK, NEW h \in Handlers, txn[h].pc # "idle"
    PROVE  /\ txn[h] \in Txn
           /\ txn[h].user \in Users /\ txn[h].act \in Actions
           /\ txn[h].seen \in Status /\ txn[h].verdict \in Verdicts
           /\ txn[h].cells \in SUBSET Cells /\ txn[h].status \in Status
  BY DEF TypeOK, Txn, Idle

LEMMA SubmitType ==
    ASSUME TypeOK, NEW u \in Users, NEW a \in Actions, NEW n \in Thresholds,
           Submit(u, a, n)
    PROVE  TypeOK'
  <1> DEFINE run == IF n <= 1 THEN _execute_now(a, u, matrix)
                    ELSE [status |-> "pending", cells |-> {}]
  <1>1. run.status \in Status /\ run.cells \in SUBSET Cells
    BY ExecuteFacts DEF Status, Final
  <1>2. CASE Cardinality(holders) < n \/ holders = {u}
    BY <1>2, PayloadCells DEF Submit, TypeOK, org
  <1>3. CASE ~(Cardinality(holders) < n \/ holders = {u})
    <2>1. /\ row' = [row EXCEPT ![a] = [status |-> run.status, initiator |-> u,
                       threshold |-> n, baseline |-> matrix, due |-> FALSE]]
          /\ decision' = [decision EXCEPT ![a][u] = "approve"]
          /\ matrix' = matrix \union run.cells
          /\ written' = [written EXCEPT ![a] = run.cells]
          /\ UNCHANGED <<org, txn, sweep>>
      BY <1>3 DEF Submit
    <2>2. row' \in [Actions -> Row]
      BY <2>1, <1>1 DEF TypeOK, Row
    <2>3. decision' \in [Actions -> [Users -> Verdicts]]
      BY <2>1 DEF TypeOK, Verdicts
    <2> HIDE DEF run
    <2> QED
      BY <2>1, <2>2, <2>3, <1>1 DEF TypeOK, org
  <1> QED
    BY <1>2, <1>3

LEMMA CommitType ==
    ASSUME TypeOK, NEW h \in Handlers, Commit(h)
    PROVE  TypeOK'
  <1> DEFINE t == txn[h]
  <1>1. /\ t \in Txn /\ t.user \in Users /\ t.act \in Actions
        /\ t.verdict \in Verdicts /\ t.cells \in SUBSET Cells /\ t.status \in Status
    BY TxnFields DEF Commit
  <1>2. row' = WriteStatus(t)
    BY DEF Commit
  <1> HIDE DEF t
  <1>3. row' \in [Actions -> Row]
    <2>1. row \in [Actions -> Row] /\ row[t.act] \in Row
      BY <1>1 DEF TypeOK
    <2>2. [row[t.act] EXCEPT !.status = t.status] \in Row
      BY <1>1, <2>1 DEF Row
    <2>3. WriteStatus(t) = row
          \/ WriteStatus(t) = [row EXCEPT ![t.act] = [row[t.act] EXCEPT !.status = t.status]]
      BY <1>1, <2>1 DEF WriteStatus
    <2> QED
      BY <1>1, <1>2, <2>1, <2>2, <2>3
  <1> USE DEF t
  <1>4. decision' \in [Actions -> [Users -> Verdicts]]
    BY <1>1 DEF Commit, TypeOK
  <1> QED
    BY <1>1, <1>3, <1>4 DEF Commit, TypeOK, org, Idle

LEMMA DecideType ==
    ASSUME TypeOK, NEW h \in Handlers, Approve(h) \/ Decline(h)
    PROVE  TypeOK'
  <1>1. txn[h].pc = "loaded"
    BY DEF Approve, Decline
  <1>2. txn[h] \in Txn /\ txn[h].act \in Actions
    BY <1>1, TxnFields
  <1>3. CASE Approve(h)
    <2> DEFINE a   == txn[h].act
               run == IF _approval_count(a) + 1 >= row[a].threshold
                      THEN _execute_now(a, row[a].initiator, row[a].baseline)
                      ELSE [status |-> "none", cells |-> {}]
    <2>1. run.status \in Status /\ run.cells \in SUBSET Cells
      BY <1>2, ExecuteFacts DEF Status, Final
    <2>2. txn' = [txn EXCEPT ![h].pc = "flushed", ![h].verdict = "approve",
                             ![h].status = run.status, ![h].cells = run.cells]
      BY <1>3 DEF Approve
    <2> HIDE DEF run
    <2>3. txn'[h] \in Txn
      BY <2>1, <2>2, <1>2 DEF TypeOK, Txn, Verdicts
    <2> QED
      BY <1>3, <2>2, <2>3 DEF Approve, TypeOK, rows, org
  <1>4. CASE Decline(h)
    <2>1. txn'[h] \in Txn
      BY <1>4, <1>2 DEF Decline, TypeOK, Txn, Verdicts, Status, Final
    <2> QED
      BY <1>4, <2>1 DEF Decline, TypeOK, rows, org
  <1> QED
    BY <1>3, <1>4

LEMMA NextType == TypeOK /\ [Next]_vars => TypeOK'
  <1> SUFFICES ASSUME TypeOK, [Next]_vars PROVE TypeOK'
    OBVIOUS
  <1>1. ASSUME NEW u \in Users, NEW a \in Actions, NEW n \in Thresholds, Submit(u, a, n)
        PROVE  TypeOK'
    BY <1>1, SubmitType
  <1>2. ASSUME NEW h \in Handlers, NEW u \in Users, NEW a \in Actions, Load(h, u, a)
        PROVE  TypeOK'
    <2>1. row[a].status \in Status
      BY DEF TypeOK, Row
    <2>2. [pc |-> "loaded", user |-> u, act |-> a, seen |-> row[a].status,
           verdict |-> "none", cells |-> {}, status |-> "none"] \in Txn
      BY <2>1 DEF Txn, Verdicts, Status
    <2> QED
      BY <1>2, <2>2 DEF Load, TypeOK, rows, org
  <1>3. ASSUME NEW h \in Handlers, Approve(h) \/ Decline(h) PROVE TypeOK'
    BY <1>3, DecideType
  <1>4. ASSUME NEW h \in Handlers, Refuse(h) \/ Crash(h) PROVE TypeOK'
    BY <1>4 DEF Refuse, Crash, TypeOK, rows, org
  <1>5. ASSUME NEW h \in Handlers, Commit(h) PROVE TypeOK'
    BY <1>5, CommitType
  <1>6. CASE ListDue \/ CrashSweep
    BY <1>6 DEF ListDue, CrashSweep, Due, TypeOK, rows, org
  <1>7. CASE Expire
    <2>1. row' \in [Actions -> Row]
      <3>1. \A a \in Actions : row[a] \in Row
        BY DEF TypeOK
      <3>2. \A r \in Row : [r EXCEPT !.status = "expired"] \in Row
        BY DEF Row, Status, Final
      <3>3. row' = [a \in Actions |->
                     IF a \in sweep THEN [row[a] EXCEPT !.status = "expired"] ELSE row[a]]
        BY <1>7 DEF Expire
      <3> QED
        BY <3>1, <3>2, <3>3
    <2> QED
      BY <1>7, <2>1 DEF Expire, TypeOK, org
  <1>8. ASSUME NEW a \in Actions, WindowElapses(a) PROVE TypeOK'
    <2>1. row' \in [Actions -> Row]
      BY <1>8 DEF WindowElapses, TypeOK, Row
    <2> QED
      BY <1>8, <2>1 DEF WindowElapses, TypeOK, org
  <1>9. ASSUME NEW u \in Users, ChangeRole(u) PROVE TypeOK'
    <2>1. changes' \in 0 .. MaxChanges
      BY <1>9, PendingAssumption DEF ChangeRole, TypeOK
    <2> QED
      BY <1>9, <2>1 DEF ChangeRole, TypeOK, rows
  <1>10. CASE ChangeMode
    <2>1. changes' \in 0 .. MaxChanges
      BY <1>10, PendingAssumption DEF ChangeMode, TypeOK
    <2> QED
      BY <1>10, <2>1 DEF ChangeMode, TypeOK, rows
  <1>11. CASE UNCHANGED vars
    BY <1>11 DEF vars, TypeOK
  <1> QED
    BY <1>1, <1>2, <1>3, <1>4, <1>5, <1>6, <1>7, <1>8, <1>9, <1>10, <1>11 DEF Next

(* Every variable of the queue keeps its type, whatever races.             *)
THEOREM TypeCorrect == Spec => []TypeOK
  BY InitType, NextType, PTL DEF Spec

-----------------------------------------------------------------------------
(* The inductive invariant.                                                *)

(* What an open transaction is about exists.                               *)
OpenOnRow ==
    \A h \in Handlers : txn[h].pc # "idle" => row[txn[h].act].status # "none"

(* Nobody decides on an action that was not submitted.                     *)
NoEarlyDecision ==
    \A a \in Actions, u \in Users : row[a].status = "none" => decision[a][u] = "none"

(* A transaction that has not decided has written nothing.                 *)
LoadedIsClean == \A h \in Handlers : txn[h].pc = "loaded" => txn[h].cells = {}

(* The unique constraint: a decision about to be committed is the only one *)
(* its author has made or is making on that action.                        *)
SoleDecision ==
    \A h \in Handlers : txn[h].pc = "flushed" =>
        /\ decision[txn[h].act][txn[h].user] = "none"
        /\ \A g \in Handlers \ {h} :
             ~(txn[g].pc = "flushed" /\ txn[g].act = txn[h].act /\ txn[g].user = txn[h].user)

(* What a transaction is going to commit: a veto, an approval that is not  *)
(* the last, or one that completes the quorum, with what was executed.     *)
Veto(t)    == t.verdict = "decline" /\ t.cells = {} /\ t.status = "declined"
OneMore(t) == t.verdict = "approve" /\ t.cells = {} /\ t.status = "none"
LastOne(t) ==
    /\ t.verdict = "approve"
    /\ Cardinality(Approvers(t.act)) + 1 >= row[t.act].threshold
    /\ t.status \in {"executed", "failed"}
    /\ t.cells \subseteq SeqCells(Payload[t.act])
    /\ t.status = "executed" => t.cells = SeqCells(Payload[t.act])

SoundDecision ==
    \A h \in Handlers : txn[h].pc = "flushed" =>
        Veto(txn[h]) \/ OneMore(txn[h]) \/ LastOne(txn[h])

(* The sweep lists rows; only cells of the payload are written.            *)
SweepOnRows == \A a \in sweep : row[a].status # "none"
WithinPayload == \A a \in Actions : written[a] \subseteq SeqCells(Payload[a])

QuorumInv ==
    /\ OpenOnRow
    /\ LoadedIsClean
    /\ NoEarlyDecision
    /\ SoleDecision
    /\ SoundDecision
    /\ SweepOnRows
    /\ WithinPayload
    /\ QuorumBehindWrites
    /\ ExecutedIsComplete

LEMMA QuorumInit == Init => QuorumInv
  BY DEF Init, QuorumInv, OpenOnRow, LoadedIsClean, NoEarlyDecision, SoleDecision, SoundDecision,
         SweepOnRows, WithinPayload, QuorumBehindWrites, ExecutedIsComplete, NoRow, Idle

(* Submitting writes a new row, so nothing open is about it: what other    *)
(* sessions are about to commit is as sound as before.                     *)
LEMMA SubmitKeeps ==
    ASSUME TypeOK, QuorumInv,
           NEW u \in Users, NEW a \in Actions, NEW n \in Thresholds, Submit(u, a, n)
    PROVE  QuorumInv'
  <1> DEFINE run == IF n <= 1 THEN _execute_now(a, u, matrix)
                    ELSE [status |-> "pending", cells |-> {}]
             alone == Cardinality(holders) < n \/ holders = {u}
  <1>1. row[a].status = "none" /\ written[a] = {} /\ UNCHANGED <<txn, sweep>>
    BY DEF Submit
  <1>2. CASE alone
    <2>1. /\ UNCHANGED <<row, decision, txn, sweep>>
          /\ written' = [written EXCEPT ![a] = SeqCells(Payload[a])]
      BY <1>1, <1>2 DEF Submit
    <2>2. \A b \in Actions : b # a => written'[b] = written[b]
      BY <2>1 DEF TypeOK
    <2>3. written'[a] = SeqCells(Payload[a])
      BY <2>1 DEF TypeOK
    <2>4. WithinPayload' /\ QuorumBehindWrites' /\ ExecutedIsComplete'
      BY <1>1, <2>1, <2>2, <2>3
      DEF QuorumInv, WithinPayload, QuorumBehindWrites, ExecutedIsComplete, Approvers
    <2>5. OpenOnRow' /\ LoadedIsClean' /\ NoEarlyDecision' /\ SoleDecision' /\ SweepOnRows'
      BY <2>1 DEF QuorumInv, OpenOnRow, LoadedIsClean, NoEarlyDecision, SoleDecision, SweepOnRows
    <2>6. SoundDecision'
      BY <2>1 DEF QuorumInv, SoundDecision, Veto, OneMore, LastOne, Approvers
    <2> QED
      BY <2>4, <2>5, <2>6 DEF QuorumInv
  <1>3. CASE ~alone
    <2>1. /\ row' = [row EXCEPT ![a] = [status |-> run.status, initiator |-> u,
                       threshold |-> n, baseline |-> matrix, due |-> FALSE]]
          /\ decision' = [decision EXCEPT ![a][u] = "approve"]
          /\ written' = [written EXCEPT ![a] = run.cells]
      BY <1>3 DEF Submit
    <2>2. /\ run.status \in {"pending", "executed", "failed"}
          /\ run.cells \subseteq SeqCells(Payload[a])
          /\ run.status = "executed" => run.cells = SeqCells(Payload[a])
          /\ run.cells # {} => n <= 1
      BY ExecuteFacts
    <2> HIDE DEF run, alone
    <2>3. /\ row'[a].status = run.status /\ row'[a].threshold = n
          /\ written'[a] = run.cells
          /\ decision'[a][u] = "approve"
      BY <2>1 DEF TypeOK
    <2>4. \A b \in Actions : b # a =>
            row'[b] = row[b] /\ decision'[b] = decision[b] /\ written'[b] = written[b]
      BY <2>1 DEF TypeOK
    <2>5. \A b \in Actions : b # a => Approvers(b)' = Approvers(b)
      BY <2>4 DEF Approvers
    <2>6. Approvers(a)' = {u}
      <3>1. \A v \in Users : v # u => decision'[a][v] = "none"
        BY <1>1, <2>1 DEF TypeOK, QuorumInv, NoEarlyDecision
      <3> QED
        BY <2>3, <3>1 DEF Approvers
    <2>7. Cardinality(Approvers(a)') = 1
      BY <2>6, FS_Singleton
    <2>8. \A h \in Handlers : txn[h].pc # "idle" => txn[h].act \in Actions /\ txn[h].act # a
      BY <1>1, TxnFields DEF QuorumInv, OpenOnRow
    <2>9. \A h \in Handlers : txn[h].pc = "flushed" => txn[h].act \in Actions /\ txn[h].act # a
      BY <2>8
    <2>10. SoundDecision'
      <3> SUFFICES ASSUME NEW h \in Handlers, txn'[h].pc = "flushed"
                   PROVE  (Veto(txn[h]) \/ OneMore(txn[h]) \/ LastOne(txn[h]))'
        BY DEF SoundDecision
      <3>1. txn'[h] = txn[h] /\ txn[h].pc = "flushed"
        BY <1>1
      <3>2. txn[h].act \in Actions /\ txn[h].act # a
        BY <2>9, <3>1
      <3>3. Veto(txn[h]) \/ OneMore(txn[h]) \/ LastOne(txn[h])
        BY <3>1 DEF QuorumInv, SoundDecision
      <3> QED
        BY <3>1, <3>2, <3>3, <1>1, <2>4, <2>5 DEF Veto, OneMore, LastOne
    <2>11. OpenOnRow' /\ LoadedIsClean' /\ SoleDecision'
      BY <1>1, <2>4, <2>8, <2>9 DEF QuorumInv, OpenOnRow, LoadedIsClean, SoleDecision
    <2>12. NoEarlyDecision' /\ SweepOnRows' /\ WithinPayload' /\ ExecutedIsComplete'
      <3>1. NoEarlyDecision'
        BY <2>2, <2>3, <2>4 DEF QuorumInv, NoEarlyDecision
      <3>2. SweepOnRows'
        <4>1. sweep \subseteq Actions
          BY DEF TypeOK
        <4> QED
          BY <1>1, <2>2, <2>3, <2>4, <4>1 DEF QuorumInv, SweepOnRows
      <3>3. WithinPayload'
        BY <2>2, <2>3, <2>4 DEF QuorumInv, WithinPayload
      <3>4. ExecutedIsComplete'
        BY <2>2, <2>3, <2>4 DEF QuorumInv, ExecutedIsComplete
      <3> QED
        BY <3>1, <3>2, <3>3, <3>4
    <2>13. QuorumBehindWrites'
      <3> SUFFICES ASSUME NEW b \in Actions, row'[b].status # "none", written'[b] # {}
                   PROVE  Cardinality(Approvers(b)') >= row'[b].threshold
        BY DEF QuorumBehindWrites
      <3>1. CASE b = a
        BY <3>1, <2>2, <2>3, <2>7, PendingAssumption
      <3>2. CASE b # a
        BY <3>2, <2>4, <2>5 DEF QuorumInv, QuorumBehindWrites
      <3> QED
        BY <3>1, <3>2
    <2> QED
      BY <2>10, <2>11, <2>12, <2>13 DEF QuorumInv
  <1> QED
    BY <1>2, <1>3

(* Deciding writes nothing yet; it prepares a sound decision, for the      *)
(* count is taken from the rows that are there.                            *)
LEMMA DecideKeeps ==
    ASSUME TypeOK, QuorumInv, NEW h \in Handlers, Approve(h) \/ Decline(h)
    PROVE  QuorumInv'
  <1> DEFINE a == txn[h].act
             t == txn'[h]
  <1>1. /\ txn[h].pc = "loaded" /\ txn[h] \in Txn /\ a \in Actions
        /\ txn[h].user \in Users /\ txn[h].verdict \in Verdicts
    BY TxnFields DEF Approve, Decline
  <1>2. /\ UNCHANGED <<row, decision, written, sweep>>
        /\ ~InsertBlocked(h, a, txn[h].user)
        /\ decision[a][txn[h].user] = "none"
    <2>1. decision[a][txn[h].user] \in Verdicts
      BY <1>1 DEF TypeOK
    <2> QED
      BY <2>1 DEF Approve, Decline, rows, MayDecide, _already_decided
  <1>3. \A g \in Handlers \ {h} : txn'[g] = txn[g]
    BY DEF Approve, Decline, TypeOK
  <1>4. /\ t.pc = "flushed" /\ t.act = a /\ t.user = txn[h].user
        /\ Veto(t) \/ OneMore(t) \/ LastOne(t)
    <2>1. CASE Decline(h)
      <3>1. t = [txn[h] EXCEPT !.pc = "flushed", !.verdict = "decline", !.status = "declined"]
        BY <2>1 DEF Decline, TypeOK
      <3>2. txn[h].cells = {}
        BY <1>1 DEF QuorumInv, LoadedIsClean
      <3> QED
        BY <1>1, <3>1, <3>2 DEF Veto, Txn
    <2>2. CASE Approve(h)
      <3> DEFINE run == IF _approval_count(a) + 1 >= row[a].threshold
                        THEN _execute_now(a, row[a].initiator, row[a].baseline)
                        ELSE [status |-> "none", cells |-> {}]
      <3>1. t = [txn[h] EXCEPT !.pc = "flushed", !.verdict = "approve",
                               !.status = run.status, !.cells = run.cells]
        BY <2>2 DEF Approve, TypeOK
      <3>2. CASE _approval_count(a) + 1 >= row[a].threshold
        <4>1. /\ run.status \in {"executed", "failed"}
              /\ run.cells \subseteq SeqCells(Payload[a])
              /\ run.status = "executed" => run.cells = SeqCells(Payload[a])
          BY <1>1, <3>2, ExecuteFacts
        <4> HIDE DEF run
        <4>2. LastOne(t)
          BY <1>1, <3>1, <3>2, <4>1 DEF LastOne, Txn, _approval_count
        <4> QED
          BY <1>1, <3>1, <4>2 DEF Txn
      <3>3. CASE ~(_approval_count(a) + 1 >= row[a].threshold)
        BY <1>1, <3>1, <3>3 DEF OneMore, Txn
      <3> QED
        BY <3>2, <3>3
    <2> QED
      BY <2>1, <2>2
  <1> HIDE DEF t
  <1>5. OpenOnRow' /\ NoEarlyDecision' /\ SweepOnRows' /\ WithinPayload'
        /\ QuorumBehindWrites' /\ ExecutedIsComplete'
    BY <1>1, <1>2, <1>3, <1>4
    DEF t, QuorumInv, OpenOnRow, NoEarlyDecision, SweepOnRows, WithinPayload,
        QuorumBehindWrites, ExecutedIsComplete, Approvers
  <1>6. SoundDecision'
    <2>1. \A b : Approvers(b)' = Approvers(b)
      BY <1>2 DEF Approvers
    <2>2. \A g \in Handlers \ {h} : txn'[g].pc = "flushed" =>
            (Veto(txn[g]) \/ OneMore(txn[g]) \/ LastOne(txn[g]))'
      BY <1>2, <1>3, <2>1 DEF QuorumInv, SoundDecision, Veto, OneMore, LastOne
    <2>3. (Veto(txn[h]) \/ OneMore(txn[h]) \/ LastOne(txn[h]))'
      BY <1>2, <1>4, <2>1 DEF t, Veto, OneMore, LastOne
    <2> QED
      BY <2>2, <2>3 DEF SoundDecision
  <1>7. SoleDecision'
    <2>1. SoleDecision /\ \A g \in Handlers \ {h} :
            ~(txn[g].pc = "flushed" /\ txn[g].act = a /\ txn[g].user = txn[h].user)
      BY <1>2 DEF QuorumInv, InsertBlocked
    <2>2. txn'[h].act = a /\ txn'[h].user = txn[h].user
      BY <1>4 DEF t
    <2> HIDE DEF a
    <2>3. ASSUME NEW f \in Handlers, txn'[f].pc = "flushed"
          PROVE  /\ decision'[txn'[f].act][txn'[f].user] = "none"
                 /\ \A g \in Handlers \ {f} : ~(txn'[g].pc = "flushed"
                      /\ txn'[g].act = txn'[f].act /\ txn'[g].user = txn'[f].user)
      <3>1. CASE f = h
        BY <1>2, <1>3, <2>1, <2>2, <3>1
      <3>2. CASE f # h
        <4>1. txn'[f] = txn[f] /\ txn[f].pc = "flushed"
          BY <1>3, <2>3, <3>2
        <4>2. \A g \in Handlers \ {f} : ~(txn[g].pc = "flushed"
                 /\ txn[g].act = txn[f].act /\ txn[g].user = txn[f].user)
          BY <2>1, <4>1 DEF SoleDecision
        <4> QED
          BY <1>2, <1>3, <2>1, <2>2, <3>2, <4>1, <4>2 DEF SoleDecision
      <3> QED
        BY <3>1, <3>2
    <2> QED
      BY <2>3 DEF SoleDecision
  <1>8. LoadedIsClean'
    BY <1>3, <1>4 DEF t, QuorumInv, LoadedIsClean
  <1> QED
    BY <1>5, <1>6, <1>7, <1>8 DEF QuorumInv

(* The approvers of the action decided on gain exactly the author of an    *)
(* approval; those of the others stay.                                     *)
LEMMA CommitApprovers ==
    ASSUME TypeOK, QuorumInv, NEW h \in Handlers, Commit(h),
           NEW a, a = txn[h].act, NEW u, u = txn[h].user
    PROVE  /\ \A b \in Actions : b # a => Approvers(b)' = Approvers(b)
           /\ u \notin Approvers(a)
           /\ txn[h].verdict = "approve" =>
                /\ Approvers(a)' = Approvers(a) \union {u}
                /\ Cardinality(Approvers(a)') = Cardinality(Approvers(a)) + 1
           /\ txn[h].verdict # "approve" => Approvers(a)' = Approvers(a)
           /\ \A b \in Actions : Cardinality(Approvers(b)') >= Cardinality(Approvers(b))
  <1>1. u \in Users /\ a \in Actions /\ txn[h].pc = "flushed"
    BY TxnFields DEF Commit
  <1>2. decision[a][u] = "none"
    BY <1>1 DEF QuorumInv, SoleDecision
  <1>3. /\ decision'[a][u] = txn[h].verdict
        /\ \A v \in Users : v # u => decision'[a][v] = decision[a][v]
        /\ \A b \in Actions : b # a => decision'[b] = decision[b]
    BY <1>1 DEF Commit, TypeOK
  <1>4. \A b \in Actions : b # a => Approvers(b)' = Approvers(b)
    BY <1>3 DEF Approvers
  <1>5. u \notin Approvers(a)
    BY <1>2 DEF Approvers
  <1>6. txn[h].verdict = "approve" => Approvers(a)' = Approvers(a) \union {u}
    BY <1>1, <1>3 DEF Approvers
  <1>7. txn[h].verdict # "approve" => Approvers(a)' = Approvers(a)
    BY <1>1, <1>2, <1>3 DEF Approvers
  <1>8. \A b \in Actions : Approvers(b) \subseteq Approvers(b)'
    BY <1>4, <1>6, <1>7
  <1>9. \A b \in Actions : Cardinality(Approvers(b)') >= Cardinality(Approvers(b))
    BY <1>8, ApproversGrow, ApproversFinite
  <1>10. txn[h].verdict = "approve" =>
           Cardinality(Approvers(a)') = Cardinality(Approvers(a)) + 1
    BY <1>1, <1>5, <1>6, ApproversFinite, FS_AddElement
  <1> QED
    BY <1>4, <1>5, <1>6, <1>7, <1>9, <1>10

(* What a commit does to the rows and to the other sessions.               *)
LEMMA CommitRows ==
    ASSUME TypeOK, QuorumInv, NEW h \in Handlers, Commit(h)
    PROVE  LET t == txn[h] IN
           /\ \A b \in Actions : b # t.act => row'[b] = row[b] /\ written'[b] = written[b]
           /\ \A b \in Actions : row'[b].threshold = row[b].threshold
           /\ row'[t.act].status = IF t.status = "none" THEN row[t.act].status ELSE t.status
           /\ written'[t.act] = written[t.act] \union t.cells
           /\ row[t.act].status # "none"
           /\ \A b \in Actions : row[b].status # "none" => row'[b].status # "none"
           /\ txn'[h] = Idle
           /\ \A g \in Handlers : g # h => txn'[g] = txn[g]
           /\ UNCHANGED sweep
  <1> DEFINE t == txn[h]
  <1>1. /\ t.act \in Actions /\ t.pc = "flushed"
        /\ row' = WriteStatus(t)
        /\ written' = [written EXCEPT ![t.act] = @ \union t.cells]
        /\ txn' = [txn EXCEPT ![h] = Idle]
        /\ UNCHANGED sweep
    BY TxnFields DEF Commit
  <1>2. row[t.act].status # "none"
    BY <1>1 DEF QuorumInv, OpenOnRow
  <1> HIDE DEF t
  <1>3. /\ \A b \in Actions : b # t.act => row'[b] = row[b]
        /\ \A b \in Actions : row'[b].threshold = row[b].threshold
        /\ row'[t.act].status = IF t.status = "none" THEN row[t.act].status ELSE t.status
    BY <1>1 DEF WriteStatus, TypeOK, Row
  <1>4. /\ \A b \in Actions : b # t.act => written'[b] = written[b]
        /\ written'[t.act] = written[t.act] \union t.cells
    BY <1>1 DEF TypeOK
  <1>5. txn'[h] = Idle /\ \A g \in Handlers : g # h => txn'[g] = txn[g]
    BY <1>1 DEF TypeOK
  <1>6. \A b \in Actions : row[b].status # "none" => row'[b].status # "none"
    BY <1>2, <1>3
  <1> QED
    BY <1>1, <1>2, <1>3, <1>4, <1>5, <1>6 DEF t

(* A commit leaves the other sessions sound although it changes what they  *)
(* counted: approvals only increase and the author is another.             *)
LEMMA CommitKeeps ==
    ASSUME TypeOK, QuorumInv, NEW h \in Handlers, Commit(h)
    PROVE  QuorumInv'
  <1> DEFINE t == txn[h]
  <1>0. PICK a \in Actions : a = txn[h].act
    BY TxnFields DEF Commit
  <1>1. /\ t \in Txn /\ t.user \in Users /\ t.act \in Actions /\ t.pc = "flushed"
        /\ Veto(t) \/ OneMore(t) \/ LastOne(t)
        /\ row[t.act] \in Row
    BY TxnFields DEF Commit, QuorumInv, SoundDecision, TypeOK
  <1>2. /\ \A b \in Actions : b # t.act => row'[b] = row[b] /\ written'[b] = written[b]
        /\ \A b \in Actions : row'[b].threshold = row[b].threshold
        /\ row'[t.act].status = IF t.status = "none" THEN row[t.act].status ELSE t.status
        /\ written'[t.act] = written[t.act] \union t.cells
        /\ row[t.act].status # "none"
        /\ \A b \in Actions : row[b].status # "none" => row'[b].status # "none"
        /\ txn'[h] = Idle
        /\ \A g \in Handlers : g # h => txn'[g] = txn[g]
        /\ UNCHANGED sweep
    BY CommitRows
  <1>3. /\ \A b \in Actions : Cardinality(Approvers(b)') >= Cardinality(Approvers(b))
        /\ t.verdict = "approve" => Cardinality(Approvers(a)') = Cardinality(Approvers(a)) + 1
    BY <1>0, CommitApprovers
  <1>4. \A b \in Actions : /\ Cardinality(Approvers(b)) \in Nat
                           /\ Cardinality(Approvers(b)') \in Nat
                           /\ row[b].threshold \in Nat
    BY ApproversFinite, PendingAssumption DEF TypeOK, Row
  <1>5. decision' = [decision EXCEPT ![t.act][t.user] = t.verdict]
    BY DEF Commit
  <1> HIDE DEF t
  <1>6. \A g \in Handlers : txn'[g].pc # "idle" =>
          g # h /\ txn'[g] = txn[g] /\ txn[g].act \in Actions /\ txn[g].user \in Users
    BY <1>2, TxnFields DEF Idle
  <1>7. OpenOnRow' /\ SweepOnRows' /\ LoadedIsClean'
    BY <1>2, <1>6 DEF QuorumInv, OpenOnRow, SweepOnRows, LoadedIsClean, TypeOK
  <1>8. NoEarlyDecision'
    <2>1. \A b \in Actions : row'[b].status = "none" => b # t.act /\ row[b].status = "none"
      BY <1>2
    <2>2. \A b \in Actions : b # t.act => decision'[b] = decision[b]
      BY <1>5 DEF TypeOK
    <2> QED
      BY <2>1, <2>2 DEF QuorumInv, NoEarlyDecision
  <1>9. SoleDecision'
    <2> SUFFICES ASSUME NEW g \in Handlers, txn'[g].pc = "flushed"
                 PROVE  /\ decision'[txn[g].act][txn[g].user] = "none"
                        /\ \A f \in Handlers \ {g} :
                             ~(txn'[f].pc = "flushed" /\ txn'[f].act = txn[g].act
                                                     /\ txn'[f].user = txn[g].user)
      BY <1>6 DEF SoleDecision
    <2>1. /\ g # h /\ txn[g].pc = "flushed" /\ txn[g].act \in Actions /\ txn[g].user \in Users
      BY <1>6
    <2>2. ~(txn[g].act = t.act /\ txn[g].user = t.user)
      BY <2>1, <1>1 DEF t, QuorumInv, SoleDecision
    <2>3. decision[txn[g].act][txn[g].user] = "none"
      BY <2>1 DEF QuorumInv, SoleDecision
    <2>4. decision'[txn[g].act][txn[g].user] = "none"
      BY <2>1, <2>2, <2>3, <1>1, <1>5 DEF TypeOK
    <2>5. \A f \in Handlers \ {g} :
            ~(txn'[f].pc = "flushed" /\ txn'[f].act = txn[g].act
                                    /\ txn'[f].user = txn[g].user)
      BY <2>1, <1>6 DEF QuorumInv, SoleDecision
    <2> QED
      BY <2>4, <2>5
  <1>10. SoundDecision'
    <2> SUFFICES ASSUME NEW g \in Handlers, txn'[g].pc = "flushed"
                 PROVE  (Veto(txn[g]) \/ OneMore(txn[g]) \/ LastOne(txn[g]))'
      BY DEF SoundDecision
    <2>1. txn'[g] = txn[g] /\ txn[g].pc = "flushed" /\ txn[g].act \in Actions
      BY <1>6
    <2>2. Veto(txn[g]) \/ OneMore(txn[g]) \/ LastOne(txn[g])
      BY <2>1 DEF QuorumInv, SoundDecision
    <2>3. ASSUME LastOne(txn[g])
          PROVE  Cardinality(Approvers(txn[g].act)') + 1 >= row'[txn[g].act].threshold
      BY <2>1, <2>3, <1>2, <1>3, <1>4 DEF LastOne
    <2>4. CASE Veto(txn[g]) \/ OneMore(txn[g])
      BY <2>1, <2>4 DEF Veto, OneMore
    <2>5. CASE LastOne(txn[g])
      BY <2>1, <2>3, <2>5 DEF LastOne
    <2> QED
      BY <2>2, <2>4, <2>5
  <1>11. WithinPayload' /\ ExecutedIsComplete'
    <2>1. t.cells \subseteq SeqCells(Payload[t.act])
      BY <1>1 DEF Veto, OneMore, LastOne
    <2>2. t.status = "executed" => t.cells = SeqCells(Payload[t.act])
      BY <1>1 DEF Veto, OneMore, LastOne
    <2>3. written[t.act] \subseteq SeqCells(Payload[t.act])
      BY <1>1 DEF QuorumInv, WithinPayload
    <2>4. WithinPayload'
      BY <1>2, <2>1, <2>3 DEF QuorumInv, WithinPayload
    <2>5. ASSUME row'[t.act].status = "executed"
          PROVE  written'[t.act] = SeqCells(Payload[t.act])
      <3>1. CASE t.status = "none"
        <4>1. t.cells = {} /\ row[t.act].status = "executed"
          BY <1>1, <1>2, <2>5, <3>1 DEF Veto, OneMore, LastOne
        <4> QED
          BY <4>1, <1>1, <1>2 DEF QuorumInv, ExecutedIsComplete
      <3>2. CASE t.status # "none"
        BY <1>2, <2>2, <2>3, <2>5, <3>2
      <3> QED
        BY <3>1, <3>2
    <2>6. ExecutedIsComplete'
      BY <1>2, <2>5 DEF QuorumInv, ExecutedIsComplete
    <2> QED
      BY <2>4, <2>6
  <1>12. QuorumBehindWrites'
    <2> SUFFICES ASSUME NEW b \in Actions, row'[b].status # "none", written'[b] # {}
                 PROVE  Cardinality(Approvers(b)') >= row'[b].threshold
      BY DEF QuorumBehindWrites
    <2>1. CASE row[b].status # "none" /\ written[b] # {}
      <3>1. Cardinality(Approvers(b)) >= row[b].threshold
        BY <2>1 DEF QuorumInv, QuorumBehindWrites
      <3> QED
        BY <3>1, <1>2, <1>3, <1>4
    <2>2. CASE ~(row[b].status # "none" /\ written[b] # {})
      <3>1. b = a /\ t.cells # {}
        BY <2>2, <1>2, <1>0 DEF t
      <3>2. LastOne(t) /\ t.verdict = "approve"
        BY <3>1, <1>1 DEF Veto, OneMore, LastOne
      <3>3. Cardinality(Approvers(b)) + 1 >= row[b].threshold
        BY <3>1, <3>2, <1>0 DEF t, LastOne
      <3> QED
        BY <3>1, <3>2, <3>3, <1>2, <1>3
    <2> QED
      BY <2>1, <2>2
  <1> QED
    BY <1>7, <1>8, <1>9, <1>10, <1>11, <1>12 DEF QuorumInv

(* The steps that leave rows, decisions and effects alone.                 *)
LEMMA ReadersKeep ==
    ASSUME TypeOK, QuorumInv, UNCHANGED rows,
           \/ UNCHANGED <<txn, sweep>>
           \/ UNCHANGED txn /\ \A a \in sweep' : row[a].status # "none"
           \/ /\ UNCHANGED sweep
              /\ \E h \in Handlers :
                   /\ \A g \in Handlers : g # h => txn'[g] = txn[g]
                   /\ txn'[h].pc \in {"idle", "loaded"}
                   /\ txn'[h].pc = "loaded" =>
                        txn'[h].cells = {} /\ row[txn'[h].act].status # "none"
    PROVE  QuorumInv'
  <1>1. UNCHANGED <<row, decision, written>>
    BY DEF rows
  <1>2. NoEarlyDecision' /\ WithinPayload' /\ QuorumBehindWrites' /\ ExecutedIsComplete'
    BY <1>1 DEF QuorumInv, NoEarlyDecision, WithinPayload, QuorumBehindWrites,
                ExecutedIsComplete, Approvers
  <1>3. SweepOnRows'
    BY <1>1 DEF QuorumInv, SweepOnRows
  <1>4. OpenOnRow' /\ LoadedIsClean'
    BY <1>1 DEF QuorumInv, OpenOnRow, LoadedIsClean
  <1>5. \A g \in Handlers : txn'[g].pc = "flushed" => txn'[g] = txn[g]
    OBVIOUS
  <1>6. SoleDecision'
    BY <1>1, <1>5 DEF QuorumInv, SoleDecision
  <1>7. SoundDecision'
    <2> SUFFICES ASSUME NEW g \in Handlers, txn'[g].pc = "flushed"
                 PROVE  (Veto(txn[g]) \/ OneMore(txn[g]) \/ LastOne(txn[g]))'
      BY DEF SoundDecision
    <2>1. txn'[g] = txn[g] /\ (Veto(txn[g]) \/ OneMore(txn[g]) \/ LastOne(txn[g]))
      BY <1>5 DEF QuorumInv, SoundDecision
    <2> QED
      BY <2>1, <1>1 DEF Veto, OneMore, LastOne, Approvers
  <1> QED
    BY <1>2, <1>3, <1>4, <1>6, <1>7 DEF QuorumInv

(* The scheduler and the clock touch rows, but only their status and their *)
(* due flag, and never back to "none" or to "executed".                    *)
LEMMA SchedulerKeeps ==
    ASSUME TypeOK, QuorumInv, Expire \/ \E a \in Actions : WindowElapses(a)
    PROVE  QuorumInv'
  <1>1. UNCHANGED <<decision, written, txn>> /\ sweep' \subseteq sweep
    BY DEF Expire, WindowElapses
  <1>2. \A b \in Actions :
          /\ row'[b].threshold = row[b].threshold
          /\ row[b].status = "none" <=> row'[b].status = "none"
          /\ row'[b].status = "executed" => row[b].status = "executed"
    <2>1. CASE Expire
      BY <2>1 DEF Expire, TypeOK, Row, QuorumInv, SweepOnRows
    <2>2. CASE \E a \in Actions : WindowElapses(a)
      BY <2>2 DEF WindowElapses, TypeOK, Row
    <2> QED
      BY <2>1, <2>2
  <1>3. NoEarlyDecision' /\ WithinPayload' /\ QuorumBehindWrites' /\ ExecutedIsComplete'
    BY <1>1, <1>2 DEF QuorumInv, NoEarlyDecision, WithinPayload, QuorumBehindWrites,
                ExecutedIsComplete, Approvers
  <1>4. SweepOnRows' /\ LoadedIsClean' /\ SoleDecision'
    BY <1>1, <1>2 DEF QuorumInv, SweepOnRows, LoadedIsClean, SoleDecision, TypeOK
  <1>5. \A h \in Handlers : txn[h].pc # "idle" => txn[h].act \in Actions
    BY TxnFields
  <1>6. OpenOnRow'
    BY <1>1, <1>2, <1>5 DEF QuorumInv, OpenOnRow
  <1>7. SoundDecision'
    <2> SUFFICES ASSUME NEW g \in Handlers, txn'[g].pc = "flushed"
                 PROVE  (Veto(txn[g]) \/ OneMore(txn[g]) \/ LastOne(txn[g]))'
      BY DEF SoundDecision
    <2>1. /\ Veto(txn[g]) \/ OneMore(txn[g]) \/ LastOne(txn[g])
          /\ txn[g].act \in Actions
      BY <1>1, <1>5 DEF QuorumInv, SoundDecision
    <2> QED
      BY <2>1, <1>1, <1>2 DEF Veto, OneMore, LastOne, Approvers
  <1> QED
    BY <1>3, <1>4, <1>6, <1>7 DEF QuorumInv

LEMMA QuorumNext == TypeOK /\ QuorumInv /\ [Next]_vars => QuorumInv'
  <1> SUFFICES ASSUME TypeOK, QuorumInv, [Next]_vars PROVE QuorumInv'
    OBVIOUS
  <1>1. ASSUME NEW u \in Users, NEW a \in Actions, NEW n \in Thresholds, Submit(u, a, n)
        PROVE  QuorumInv'
    BY <1>1, SubmitKeeps
  <1>2. ASSUME NEW h \in Handlers, NEW u \in Users, NEW a \in Actions, Load(h, u, a)
        PROVE  QuorumInv'
    <2>1. txn'[h] = [pc |-> "loaded", user |-> u, act |-> a, seen |-> row[a].status,
                     verdict |-> "none", cells |-> {}, status |-> "none"]
      BY <1>2 DEF Load, TypeOK
    <2>2. \A g \in Handlers : g # h => txn'[g] = txn[g]
      BY <1>2 DEF Load, TypeOK
    <2>3. UNCHANGED <<rows, sweep>> /\ row[a].status # "none"
      BY <1>2 DEF Load
    <2> QED
      BY <2>1, <2>2, <2>3, ReadersKeep
  <1>3. ASSUME NEW h \in Handlers, Approve(h) \/ Decline(h) PROVE QuorumInv'
    BY <1>3, DecideKeeps
  <1>4. ASSUME NEW h \in Handlers, Refuse(h) \/ Crash(h) PROVE QuorumInv'
    <2>1. txn'[h] = Idle /\ \A g \in Handlers : g # h => txn'[g] = txn[g]
      BY <1>4 DEF Refuse, Crash, TypeOK
    <2>2. UNCHANGED <<rows, sweep>>
      BY <1>4 DEF Refuse, Crash
    <2> QED
      BY <2>1, <2>2, ReadersKeep DEF Idle
  <1>5. ASSUME NEW h \in Handlers, Commit(h) PROVE QuorumInv'
    BY <1>5, CommitKeeps
  <1>6. CASE ListDue \/ CrashSweep
    <2>1. UNCHANGED <<rows, txn>> /\ \A a \in sweep' : row[a].status # "none"
      BY <1>6 DEF ListDue, CrashSweep, Due
    <2> QED
      BY <2>1, ReadersKeep
  <1>7. CASE Expire \/ \E a \in Actions : WindowElapses(a)
    BY <1>7, SchedulerKeeps
  <1>8. CASE ChangeMode \/ \E u \in Users : ChangeRole(u)
    <2>1. UNCHANGED <<rows, txn, sweep>>
      BY <1>8 DEF ChangeMode, ChangeRole
    <2> QED
      BY <2>1, ReadersKeep
  <1>9. CASE UNCHANGED vars
    BY <1>9, ReadersKeep DEF vars, rows
  <1> QED
    BY <1>1, <1>2, <1>3, <1>4, <1>5, <1>6, <1>7, <1>8, <1>9 DEF Next

(* What every session is about to commit is backed by the rows on file, in *)
(* every reachable state: the facts the results below rest on.             *)
THEOREM QueueSound == Spec => []QuorumInv
  BY QuorumInit, QuorumNext, TypeCorrect, PTL DEF Spec

(* Nothing is written on behalf of a queued action without the quorum.     *)
THEOREM NoWriteWithoutQuorum == Spec => []QuorumBehindWrites
  <1>1. QuorumInv => QuorumBehindWrites
    BY DEF QuorumInv
  <1> QED
    BY <1>1, QueueSound, PTL

(* What reads "executed" was applied as a whole.                           *)
THEOREM ExecutedInFull == Spec => []ExecutedIsComplete
  <1>1. QuorumInv => ExecutedIsComplete
    BY DEF QuorumInv
  <1> QED
    BY <1>1, QueueSound, PTL

(* No decision on file is withdrawn or turned around.                      *)
THEOREM NoDecisionWithdrawn == Spec => DecisionsStand
  <1> DEFINE Stand == \A a \in Actions, u \in Users :
                        decision[a][u] # "none" => decision'[a][u] = decision[a][u]
  <1>1. TypeOK /\ QuorumInv /\ [Next]_vars => [Stand]_decision
    <2> SUFFICES ASSUME TypeOK, QuorumInv, Next PROVE [Stand]_decision
      BY DEF vars
    <2>1. ASSUME NEW u \in Users, NEW a \in Actions, NEW n \in Thresholds, Submit(u, a, n)
          PROVE  [Stand]_decision
      <3>1. row[a].status = "none"
        BY <2>1 DEF Submit
      <3>2. \A v \in Users : decision[a][v] = "none"
        BY <3>1 DEF QuorumInv, NoEarlyDecision
      <3> QED
        BY <2>1, <3>2 DEF Submit, TypeOK
    <2>2. ASSUME NEW h \in Handlers, Commit(h) PROVE [Stand]_decision
      <3>1. txn[h].pc = "flushed" /\ txn[h].act \in Actions /\ txn[h].user \in Users
        BY <2>2, TxnFields DEF Commit
      <3>2. decision[txn[h].act][txn[h].user] = "none"
        BY <3>1 DEF QuorumInv, SoleDecision
      <3> QED
        BY <2>2, <3>1, <3>2 DEF Commit, TypeOK
    <2>3. CASE UNCHANGED decision
      BY <2>3
    <2> QED
      BY <2>1, <2>2, <2>3
      DEF Next, Load, Approve, Decline, Refuse, Crash, ListDue, Expire, CrashSweep,
          WindowElapses, ChangeRole, ChangeMode, rows
  <1> QED
    BY <1>1, QueueSound, TypeCorrect, PTL DEF Spec, DecisionsStand

-----------------------------------------------------------------------------
(* The queue implements Ratification.                                      *)

stageOf == [a \in Actions |-> CASE row[a].status = "none" -> "absent"
                                 [] row[a].status = "pending" -> "open"
                                 [] OTHER -> "closed"]

(* Ratification counts as the queue counts.                                *)
LEMMA SameCount == \A S : Promise!Cardinality(S) = Cardinality(S)
  BY DEF Promise!Cardinality, Cardinality

(* The second outcome of an endorsement, said of the rows.                 *)
LEMMA ClosedWithQuorum ==
    ASSUME NEW a \in Actions,
           stageOf' = [stageOf EXCEPT ![a] = "closed"],
           \/ UNCHANGED {b \in Actions : written[b] # {}}
           \/ {b \in Actions : written[b] # {}}' = {b \in Actions : written[b] # {}} \union {a},
           Cardinality(Approvers(a)') >= row'[a].threshold
    PROVE  Promise!Outcome(a)
  <1>1. [b \in Actions |-> Approvers(b)]'[a] = Approvers(a)'
    OBVIOUS
  <1>2. [b \in Actions |-> row[b].threshold]'[a] = row'[a].threshold
    OBVIOUS
  <1>3. Promise!Cardinality([b \in Actions |-> Approvers(b)]'[a]) >= [b \in Actions |-> row[b].threshold]'[a]
    BY <1>1, <1>2, SameCount
  <1>4. {b \in Actions : written[b] # {}}' \in
          {{b \in Actions : written[b] # {}}, {b \in Actions : written[b] # {}} \union {a}}
    OBVIOUS
  <1> QED
    BY <1>3, <1>4 DEF Promise!Outcome, stageOf

(* One's own action, done alone or put to the others.                      *)
LEMMA SubmitImplements ==
    ASSUME TypeOK, QuorumInv,
           NEW u \in Users, NEW a \in Actions, NEW n \in Thresholds, Submit(u, a, n)
    PROVE  Promise!ActAlone(a) \/ Promise!Propose(a, u)
  <1> DEFINE run == IF n <= 1 THEN _execute_now(a, u, matrix)
                    ELSE [status |-> "pending", cells |-> {}]
             alone == Cardinality(holders) < n \/ holders = {u}
  <1>1. row[a].status = "none" /\ written[a] = {}
    BY DEF Submit
  <1>2. CASE alone
    <2>1. UNCHANGED <<row, decision>> /\ written' = [written EXCEPT ![a] = SeqCells(Payload[a])]
      BY <1>2 DEF Submit
    <2>2. /\ written'[a] # {} /\ \A b \in Actions : b # a => written'[b] = written[b]
      BY <2>1, PayloadCells DEF TypeOK
    <2>3. {b \in Actions : written'[b] # {}} = {b \in Actions : written[b] # {}} \union {a}
      BY <2>2
    <2> QED
      BY <1>1, <2>1, <2>3 DEF Promise!ActAlone, Approvers
  <1>3. CASE ~alone
    <2>1. /\ row' = [row EXCEPT ![a] = [status |-> run.status, initiator |-> u,
                       threshold |-> n, baseline |-> matrix, due |-> FALSE]]
          /\ decision' = [decision EXCEPT ![a][u] = "approve"]
          /\ written' = [written EXCEPT ![a] = run.cells]
      BY <1>3 DEF Submit
    <2>2. \/ run.status = "pending" /\ run.cells = {}
          \/ run.status \in {"executed", "failed"} /\ n <= 1
      BY ExecuteFacts
    <2> HIDE DEF run, alone
    <2>3. /\ row'[a].status = run.status /\ row'[a].threshold = n /\ written'[a] = run.cells
          /\ \A b \in Actions : b # a =>
               row'[b] = row[b] /\ decision'[b] = decision[b] /\ written'[b] = written[b]
      BY <2>1 DEF TypeOK
    <2>4. decision'[a][u] = "approve" /\ \A v \in Users : v # u => decision'[a][v] = "none"
      BY <1>1, <2>1 DEF TypeOK, QuorumInv, NoEarlyDecision
    <2>5. Approvers(a)' = {u} /\ \A b \in Actions : b # a => Approvers(b)' = Approvers(b)
      BY <2>3, <2>4 DEF Approvers
    <2>6. Cardinality({u}) = 1 /\ n \in Nat
      BY FS_Singleton, PendingAssumption
    <2>7. [b \in Actions |-> Approvers(b)]' =
             [[b \in Actions |-> Approvers(b)] EXCEPT ![a] = {u}]
      BY <2>5
    <2>8. [b \in Actions |-> row[b].threshold]' =
             [[b \in Actions |-> row[b].threshold] EXCEPT ![a] = n]
      BY <2>3
    <2>9. CASE run.status = "pending" /\ run.cells = {}
      <3>1. stageOf' = [stageOf EXCEPT ![a] = "open"] /\ stageOf[a] = "absent"
        BY <1>1, <2>3, <2>9 DEF stageOf
      <3>2. {b \in Actions : written'[b] # {}} = {b \in Actions : written[b] # {}}
        BY <1>1, <2>3, <2>9
      <3> QED
        BY <1>1, <2>7, <2>8, <3>1, <3>2 DEF Promise!Propose, Promise!Outcome, stageOf
    <2>10. CASE run.status \in {"executed", "failed"} /\ n <= 1
      <3>1. stageOf' = [stageOf EXCEPT ![a] = "closed"] /\ stageOf[a] = "absent"
        BY <1>1, <2>3, <2>10 DEF stageOf
      <3>2. \/ {b \in Actions : written'[b] # {}} = {b \in Actions : written[b] # {}}
            \/ {b \in Actions : written'[b] # {}} = {b \in Actions : written[b] # {}} \union {a}
        BY <1>1, <2>3
      <3>3. Cardinality(Approvers(a)') >= row'[a].threshold
        BY <2>3, <2>5, <2>6, <2>10
      <3>4. Promise!Outcome(a)
        BY <3>1, <3>2, <3>3, ClosedWithQuorum
      <3> QED
        BY <1>1, <2>7, <2>8, <3>1, <3>4 DEF Promise!Propose, stageOf
    <2> QED
      BY <2>2, <2>9, <2>10
  <1> QED
    BY <1>2, <1>3

(* A committed decision is an endorsement or, if a veto, a closing.        *)
LEMMA CommitImplements ==
    ASSUME TypeOK, QuorumInv, NEW h \in Handlers, Commit(h),
           NEW a \in Actions, a = txn[h].act, NEW u \in Users, u = txn[h].user
    PROVE  Promise!Endorse(a, u) \/ Promise!Close({a})
  <1> DEFINE t == txn[h]
  <1>1. Veto(t) \/ OneMore(t) \/ LastOne(t)
    BY DEF Commit, QuorumInv, SoundDecision
  <1>2. /\ \A b \in Actions : b # a => row'[b] = row[b] /\ written'[b] = written[b]
        /\ \A b \in Actions : row'[b].threshold = row[b].threshold
        /\ row'[a].status = IF t.status = "none" THEN row[a].status ELSE t.status
        /\ written'[a] = written[a] \union t.cells
        /\ row[a].status # "none"
    BY CommitRows
  <1>3. /\ \A b \in Actions : b # a => Approvers(b)' = Approvers(b)
        /\ u \notin Approvers(a)
        /\ t.verdict = "approve" =>
             /\ Approvers(a)' = Approvers(a) \union {u}
             /\ Cardinality(Approvers(a)') = Cardinality(Approvers(a)) + 1
        /\ t.verdict # "approve" => Approvers(a)' = Approvers(a)
    BY CommitApprovers
  <1>4. stageOf[a] # "absent"
    BY <1>2 DEF stageOf
  <1>5. UNCHANGED [b \in Actions |-> row[b].threshold]
    BY <1>2
  <1>6. t.verdict = "approve" =>
          [b \in Actions |-> Approvers(b)]' =
             [[b \in Actions |-> Approvers(b)] EXCEPT ![a] = @ \union {u}]
    BY <1>3
  <1>7. CASE Veto(t)
    <2>1. stageOf' = [b \in Actions |-> IF b \in {a} THEN "closed" ELSE stageOf[b]]
      BY <1>2, <1>7 DEF Veto, stageOf
    <2>2. UNCHANGED [b \in Actions |-> Approvers(b)]
      BY <1>3, <1>7 DEF Veto
    <2>3. UNCHANGED {b \in Actions : written[b] # {}}
      BY <1>2, <1>7 DEF Veto
    <2> QED
      BY <1>4, <1>5, <2>1, <2>2, <2>3 DEF Promise!Close, stageOf
  <1>8. CASE OneMore(t)
    <2>1. UNCHANGED stageOf
      BY <1>2, <1>8 DEF OneMore, stageOf
    <2>2. UNCHANGED {b \in Actions : written[b] # {}}
      BY <1>2, <1>8 DEF OneMore
    <2>3. stageOf' = [stageOf EXCEPT ![a] = IF @ = "absent" THEN "open" ELSE @]
      BY <1>4, <2>1 DEF stageOf
    <2>4. Promise!Outcome(a)
      BY <2>2, <2>3 DEF Promise!Outcome, stageOf
    <2> QED
      BY <1>3, <1>4, <1>5, <1>6, <1>8, <2>4 DEF Promise!Endorse, OneMore, stageOf
  <1>9. CASE LastOne(t)
    <2>1. stageOf' = [stageOf EXCEPT ![a] = "closed"]
      BY <1>2, <1>9 DEF LastOne, stageOf
    <2>2. \/ UNCHANGED {b \in Actions : written[b] # {}}
          \/ {b \in Actions : written[b] # {}}' = {b \in Actions : written[b] # {}} \union {a}
      BY <1>2
    <2>3. Cardinality(Approvers(a)') >= row'[a].threshold
      BY <1>2, <1>3, <1>9 DEF LastOne
    <2>4. Promise!Outcome(a)
      BY <2>1, <2>2, <2>3, ClosedWithQuorum
    <2> QED
      BY <1>3, <1>4, <1>5, <1>6, <1>9, <2>4 DEF Promise!Endorse, LastOne, stageOf
  <1> QED
    BY <1>1, <1>7, <1>8, <1>9

(* A sweep closes what it listed, some of it for the second time.          *)
LEMMA ExpireImplements ==
    ASSUME TypeOK, QuorumInv, Expire, NEW S, S = sweep
    PROVE  Promise!Close(S)
  <1>1. \A b \in Actions : row'[b].threshold = row[b].threshold
    BY DEF Expire, TypeOK, Row
  <1>2. \A b \in S : b \in Actions /\ stageOf[b] # "absent"
    BY DEF QuorumInv, SweepOnRows, stageOf, TypeOK
  <1>3. stageOf' = [b \in Actions |-> IF b \in S THEN "closed" ELSE stageOf[b]]
    BY DEF Expire, TypeOK, Row, stageOf
  <1>4. UNCHANGED <<[b \in Actions |-> row[b].threshold], [b \in Actions |-> Approvers(b)],
                    {b \in Actions : written[b] # {}}>>
    BY <1>1 DEF Expire, Approvers
  <1> QED
    BY <1>2, <1>3, <1>4 DEF Promise!Close, stageOf

(* Every step of the queue is a step of Ratification or shows nothing of   *)
(* it.  With the fairness, which is model-checked, this is                 *)
(* ImplementsRatification.                                                 *)
THEOREM StepsOfRatification == Spec => Promise!Init /\ [][Promise!Next]_(Promise!vars)
  <1>1. Init => Promise!Init
    BY PendingAssumption DEF Init, Promise!Init, NoRow, Approvers
  <1>2. TypeOK /\ QuorumInv /\ [Next]_vars => [Promise!Next]_(Promise!vars)
    <2> SUFFICES ASSUME TypeOK, QuorumInv, [Next]_vars PROVE [Promise!Next]_(Promise!vars)
      OBVIOUS
    <2>1. ASSUME NEW u \in Users, NEW a \in Actions, NEW n \in Thresholds, Submit(u, a, n)
          PROVE  Promise!Next
      BY <2>1, SubmitImplements DEF Promise!Next
    <2>2. ASSUME NEW h \in Handlers, Commit(h) PROVE Promise!Next
      <3>1. txn[h].act \in Actions /\ txn[h].user \in Users
        BY <2>2, TxnFields DEF Commit
      <3>2. PICK a \in Actions, u \in Users : a = txn[h].act /\ u = txn[h].user
        BY <3>1
      <3>3. Promise!Endorse(a, u) \/ Promise!Close({a})
        BY <2>2, <3>2, CommitImplements
      <3> QED
        BY <3>3 DEF Promise!Next, Promise!CloseSome
    <2>3. ASSUME Expire PROVE Promise!Next
      <3>1. PICK S \in SUBSET Actions : S = sweep
        BY DEF TypeOK
      <3>2. Promise!Close(S)
        BY <2>3, <3>1, ExpireImplements
      <3> QED
        BY <3>2 DEF Promise!Next, Promise!CloseSome
    <2>4. CASE UNCHANGED <<row, decision, written>>
      BY <2>4 DEF Promise!vars, Approvers
    <2>5. ASSUME NEW a \in Actions, WindowElapses(a) PROVE UNCHANGED Promise!vars
      <3>1. /\ \A b \in Actions : row'[b].threshold = row[b].threshold
                                 /\ row'[b].status = row[b].status
            /\ UNCHANGED <<decision, written>>
        BY <2>5 DEF WindowElapses, TypeOK, Row
      <3> QED
        BY <3>1 DEF Promise!vars, Approvers
    <2> QED
      BY <2>1, <2>2, <2>3, <2>4, <2>5
      DEF Next, vars, Load, Approve, Decline, Refuse, Crash, ListDue, CrashSweep,
          ChangeRole, ChangeMode, rows
  <1> QED
    BY <1>1, <1>2, QueueSound, TypeCorrect, PTL DEF Spec
=============================================================================
