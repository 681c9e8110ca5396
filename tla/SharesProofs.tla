---------------------------- MODULE SharesProofs ----------------------------
(***************************************************************************)
(* Proofs about Shares for any members, handlers, sweepers, weights and    *)
(* caps: types, that no period is granted twice, and that issuing alone    *)
(* never exceeds the authorized cap.                                       *)
(***************************************************************************)
EXTENDS Shares, SumLemmas, TLAPS

-----------------------------------------------------------------------------
(* Types.                                                                  *)

(* What kind of transaction a process runs fixes what it has read.         *)
LEMMA TxnOf ==
    ASSUME TypeOK, NEW p \in Procs
    PROVE  /\ txn[p].op = "set" => txn[p] \in SetTxn
           /\ txn[p].op = "transfer" => txn[p] \in TransferTxn
           /\ txn[p].op = "cap" => txn[p] \in CapTxn
           /\ txn[p].op = "sweep" => txn[p] \in SweepTxn
  <1>1. txn[p] \in SetTxn \/ txn[p] \in TransferTxn \/ txn[p] \in CapTxn
        \/ txn[p] \in SweepTxn \/ txn[p] = Idle
    BY DEF TypeOK, Txn
  <1>2. \A t : /\ t \in SetTxn => t.op = "set"
               /\ t \in TransferTxn => t.op = "transfer"
               /\ t \in CapTxn => t.op = "cap"
               /\ t \in SweepTxn => t.op = "sweep"
               /\ t = Idle => t.op = "idle"
    BY DEF SetTxn, TransferTxn, CapTxn, SweepTxn, Idle
  <1> QED
    BY <1>1, <1>2

LEMMA TxnFields ==
    ASSUME TypeOK, NEW p \in Procs
    PROVE  /\ txn[p].op = "set" =>
                /\ txn[p].pc \in {"read", "checked"} /\ txn[p].m \in Members
                /\ txn[p].old \in Nat /\ txn[p].new \in Nat
           /\ txn[p].op = "transfer" =>
                /\ txn[p].pc \in {"read", "locked"}
                /\ txn[p].from \in Members /\ txn[p].to \in Members
                /\ txn[p].amount \in Nat /\ txn[p].old \in Nat
           /\ txn[p].op = "cap" => txn[p].new \in Nat
           /\ txn[p].op = "sweep" =>
                /\ txn[p].grants \in SUBSET (Members \X Periods)
                /\ txn[p].balance \in [Members -> Nat]
  <1>1. \A t \in SetTxn : /\ t.pc \in {"read", "checked"} /\ t.m \in Members
                          /\ t.old \in Nat /\ t.new \in Nat
    BY SharesAssumption DEF SetTxn
  <1>2. \A t \in TransferTxn : /\ t.pc \in {"read", "locked"} /\ t.from \in Members
                               /\ t.to \in Members /\ t.amount \in Nat /\ t.old \in Nat
    BY DEF TransferTxn
  <1>3. \A t \in CapTxn : t.new \in Nat
    BY SharesAssumption DEF CapTxn
  <1>4. \A t \in SweepTxn : /\ t.grants \in SUBSET (Members \X Periods)
                            /\ t.balance \in [Members -> Nat]
    BY DEF SweepTxn
  <1> QED
    BY <1>1, <1>2, <1>3, <1>4, TxnOf

LEMMA AdvancedTxn ==
    ASSUME TypeOK, NEW h \in Handlers
    PROVE  /\ txn[h].op = "set" => [txn[h] EXCEPT !.pc = "checked"] \in Txn
           /\ txn[h].op = "transfer" => [txn[h] EXCEPT !.pc = "locked"] \in Txn
  <1>1. \A t \in SetTxn : [t EXCEPT !.pc = "checked"] \in SetTxn
    BY DEF SetTxn
  <1>2. \A t \in TransferTxn : [t EXCEPT !.pc = "locked"] \in TransferTxn
    BY DEF TransferTxn
  <1> QED
    BY <1>1, <1>2, TxnOf DEF Procs, Txn

(* The end of a transaction returns its locks.                             *)
LEMMA EndType ==
    ASSUME TypeOK, NEW p \in Procs, End(p)
    PROVE  /\ txn' \in [Procs -> Txn \union {Idle}]
           /\ orgLock' \in Procs \union {Free}
           /\ rowLock' \in [Members -> Handlers \union {Free}]
  BY DEF End, TypeOK

(* A period is due for an active member; the sets a sweep counts are       *)
(* finite.                                                                 *)
LEMMA DueFinite ==
    /\ IsFiniteSet(Members \X Periods)
    /\ DuePeriods \in SUBSET (Members \X Periods)
    /\ IsFiniteSet(DuePeriods)
  <1>1. IsFiniteSet(Periods)
    BY SharesAssumption, FS_Interval DEF Periods
  <1>2. IsFiniteSet(Members \X Periods)
    BY <1>1, SharesAssumption, FS_Product
  <1>3. DuePeriods \in SUBSET (Members \X Periods)
    BY DEF DuePeriods, Active
  <1> QED
    BY <1>2, <1>3, FS_Subset

LEMMA GrantsCount ==
    ASSUME NEW t, t.grants \in SUBSET (Members \X Periods)
    PROVE  /\ IsFiniteSet(t.grants)
           /\ \A m : Grants(t, m) \in Nat
  <1>1. IsFiniteSet(t.grants)
    BY DueFinite, FS_Subset
  <1>2. \A m : {g \in t.grants : g[1] = m} \in SUBSET t.grants
    OBVIOUS
  <1> QED
    BY <1>1, <1>2, FS_Subset, FS_CardinalityType DEF Grants

LEMMA SweepType ==
    ASSUME TypeOK, NEW s \in Sweepers, FinishSweep(s)
    PROVE  TypeOK'
  <1> DEFINE t == txn[s]
  <1>1. /\ t.op = "sweep" /\ s \in Procs /\ End(s)
        /\ t.grants \in SUBSET (Members \X Periods) /\ t.balance \in [Members -> Nat]
    BY TxnFields DEF FinishSweep, Procs
  <1>2. weight' \in [Members -> Nat] /\ pureIssue' \in BOOLEAN
    <2>1. \A m \in Members : /\ weight[m] \in Nat
                             /\ t.balance[m] + Grants(t, m) * Amount \in Nat
      <3> SUFFICES ASSUME NEW m \in Members
                   PROVE  weight[m] \in Nat /\ t.balance[m] + Grants(t, m) * Amount \in Nat
        OBVIOUS
      <3>1. weight[m] \in Nat /\ t.balance[m] \in Nat /\ Grants(t, m) \in Nat /\ Amount \in Nat
        BY <1>1, GrantsCount, SharesAssumption DEF TypeOK
      <3> QED
        BY <3>1
    <2>2. weight' = [m \in Members |-> IF Grants(t, m) = 0 THEN weight[m]
                                       ELSE t.balance[m] + Grants(t, m) * Amount]
      BY DEF FinishSweep, Write
    <2>3. pureIssue' \in BOOLEAN
      BY DEF FinishSweep, Write, TypeOK
    <2> QED
      BY <2>1, <2>2, <2>3
  <1>3. paid' \in [Members -> [Periods -> Nat]]
    <2>1. \A m \in Members, k \in Periods :
             paid[m][k] + (IF <<m, k>> \in t.grants THEN 1 ELSE 0) \in Nat
      BY DEF TypeOK
    <2> QED
      BY <2>1 DEF FinishSweep
  <1>4. keys' \in SUBSET (Members \X Periods)
    <2>1. KeysUsed(t) \in SUBSET (Members \X Periods)
      BY <1>1 DEF KeysUsed, period_key
    <2> QED
      BY <2>1 DEF FinishSweep, TypeOK
  <1> QED
    BY <1>1, <1>2, <1>3, <1>4, EndType DEF FinishSweep, TypeOK

LEMMA RequestType ==
    ASSUME TypeOK, NEW op, Request(op)
    PROVE  requests' \in 0 .. MaxRequests
  BY SharesAssumption DEF TypeOK, Request

LEMMA BeginType ==
    ASSUME TypeOK, NEW p \in Procs, NEW t \in Txn, Begin(p, t)
    PROVE  txn' \in [Procs -> Txn \union {Idle}]
  BY DEF TypeOK, Begin

LEMMA WriteType ==
    ASSUME TypeOK, NEW balances \in [Members -> Nat], Write(balances)
    PROVE  weight' \in [Members -> Nat] /\ pureIssue' \in BOOLEAN
  BY DEF TypeOK, Write

LEMMA InitType == Init => TypeOK
  <1> SUFFICES ASSUME Init PROVE TypeOK
    OBVIOUS
  <1>1. weight \in [Members -> Nat] /\ start \in [Members -> Nat]
        /\ paid \in [Members -> [Periods -> Nat]]
    BY DEF Init
  <1>2. status \in [Members -> {"none", "active", "suspended"}]
    BY DEF Init
  <1>3. /\ cap \in Nat /\ clock \in 0 .. MaxClock /\ requests \in 0 .. MaxRequests
        /\ rule \in {"active", "paused"} /\ pureIssue \in BOOLEAN
    BY SharesAssumption DEF Init
  <1>4. /\ orgLock \in Procs \union {Free}
        /\ rowLock \in [Members -> Handlers \union {Free}]
        /\ txn \in [Procs -> Txn \union {Idle}]
        /\ keys \in SUBSET (Members \X Periods)
    BY DEF Init
  <1> QED
    BY <1>1, <1>2, <1>3, <1>4 DEF TypeOK

LEMMA NextType == TypeOK /\ [Next]_vars => TypeOK'
  <1> SUFFICES ASSUME TypeOK, [Next]_vars PROVE TypeOK'
    OBVIOUS
  <1> Handlers \subseteq Procs /\ Sweepers \subseteq Procs
    BY DEF Procs
  <1>1. CASE \E h \in Handlers, m \in Members, n \in Weights : BeginSet(h, m, n)
    <2> PICK h \in Handlers, m \in Members, n \in Weights : BeginSet(h, m, n)
      BY <1>1
    <2> DEFINE t == [op |-> "set", pc |-> "read", m |-> m, old |-> weight[m], new |-> n]
    <2>1. t \in Txn
      <3>1. weight[m] \in Nat
        BY DEF TypeOK
      <3> QED
        BY <3>1 DEF Txn, SetTxn
    <2>2. txn' \in [Procs -> Txn \union {Idle}]
      BY <2>1, BeginType DEF BeginSet
    <2>3. requests' \in 0 .. MaxRequests
      BY RequestType DEF BeginSet
    <2> QED
      BY <2>2, <2>3 DEF BeginSet, TypeOK, rest
  <1>2. CASE \E h \in Handlers, a, b \in Members, n \in Weights \ {0} : BeginTransfer(h, a, b, n)
    <2> PICK h \in Handlers, a \in Members, b \in Members, n \in Weights \ {0} :
             BeginTransfer(h, a, b, n)
      BY <1>2
    <2> DEFINE t == [op |-> "transfer", pc |-> "read", from |-> a, to |-> b,
                     amount |-> n, old |-> weight[a]]
    <2>1. t \in Txn
      <3>1. weight[a] \in Nat /\ n \in Nat
        BY SharesAssumption DEF TypeOK
      <3> QED
        BY <3>1 DEF Txn, TransferTxn
    <2>2. txn' \in [Procs -> Txn \union {Idle}]
      BY <2>1, BeginType DEF BeginTransfer
    <2>3. requests' \in 0 .. MaxRequests
      BY RequestType DEF BeginTransfer
    <2> QED
      BY <2>2, <2>3 DEF BeginTransfer, TypeOK, rest
  <1>3. CASE \E h \in Handlers, c \in Caps : BeginCap(h, c)
    <2> PICK h \in Handlers, c \in Caps : BeginCap(h, c)
      BY <1>3
    <2>1. [op |-> "cap", new |-> c] \in Txn
      BY DEF Txn, CapTxn
    <2>2. txn' \in [Procs -> Txn \union {Idle}]
      BY <2>1, BeginType DEF BeginCap
    <2>3. requests' \in 0 .. MaxRequests
      BY RequestType DEF BeginCap
    <2>4. orgLock' \in Procs \union {Free}
      BY DEF BeginCap, LockOrg
    <2> QED
      BY <2>2, <2>3, <2>4 DEF BeginCap, TypeOK, rest
  <1>4. CASE \E h \in Handlers : Finish(h)
    <2> PICK h \in Handlers : Finish(h)
      BY <1>4
    <2>1. CASE CheckCap(h)
      <3>1. txn' \in [Procs -> Txn \union {Idle}] /\ orgLock' \in Procs \union {Free}
            /\ rowLock' \in [Members -> Handlers \union {Free}]
        <4>1. CASE End(h)
          BY <4>1, EndType
        <4>2. CASE /\ LockOrg(h) /\ txn' = [txn EXCEPT ![h].pc = "checked"]
                   /\ UNCHANGED rowLock
          <5>1. [txn[h] EXCEPT !.pc = "checked"] \in Txn
            BY <2>1, AdvancedTxn DEF CheckCap
          <5> QED
            BY <4>2, <5>1 DEF LockOrg, TypeOK
        <4> QED
          BY <2>1, <4>1, <4>2 DEF CheckCap
      <3> QED
        BY <2>1, <3>1 DEF CheckCap, TypeOK, rest
    <2>2. CASE FinishSet(h)
      <3>1. txn[h].m \in Members /\ txn[h].new \in Nat
        BY <2>2, TxnFields DEF FinishSet
      <3>2. [weight EXCEPT ![txn[h].m] = txn[h].new] \in [Members -> Nat]
        BY <3>1 DEF TypeOK
      <3>3. weight' \in [Members -> Nat] /\ pureIssue' \in BOOLEAN
        BY <2>2, <3>2, WriteType DEF FinishSet
      <3> QED
        BY <2>2, <3>3, EndType DEF FinishSet, TypeOK
    <2>3. CASE LockSender(h)
      <3>1. txn' \in [Procs -> Txn \union {Idle}] /\ orgLock' \in Procs \union {Free}
            /\ rowLock' \in [Members -> Handlers \union {Free}]
        <4>1. CASE End(h)
          BY <4>1, EndType
        <4>2. CASE /\ rowLock' = [rowLock EXCEPT ![txn[h].from] = h]
                   /\ txn' = [txn EXCEPT ![h].pc = "locked"]
                   /\ UNCHANGED orgLock
          <5>1. [txn[h] EXCEPT !.pc = "locked"] \in Txn
            BY <2>3, AdvancedTxn DEF LockSender
          <5>2. txn' \in [Procs -> Txn \union {Idle}]
            BY <4>2, <5>1 DEF TypeOK
          <5>3. rowLock' \in [Members -> Handlers \union {Free}]
            BY <4>2 DEF TypeOK
          <5> QED
            BY <4>2, <5>2, <5>3 DEF TypeOK
        <4> QED
          BY <2>3, <4>1, <4>2 DEF LockSender
      <3> QED
        BY <2>3, <3>1 DEF LockSender, TypeOK, rest
    <2>4. CASE FinishTransfer(h)
      <3> DEFINE t == txn[h]
                 balances == [weight EXCEPT ![t.from] = t.old - t.amount,
                                            ![t.to] = @ + t.amount]
      <3>1. /\ t.from \in Members /\ t.to \in Members
            /\ t.amount \in Nat /\ t.old \in Nat
        BY <2>4, TxnFields DEF FinishTransfer
      <3>2. weight' \in [Members -> Nat] /\ pureIssue' \in BOOLEAN
        <4>1. CASE t.old >= t.amount /\ Write(balances)
          <5>1. t.old - t.amount \in Nat
            BY <3>1, <4>1
          <5>2. balances \in [Members -> Nat]
            BY <3>1, <5>1 DEF TypeOK
          <5> QED
            BY <4>1, <5>2, WriteType
        <4>2. CASE UNCHANGED <<weight, pureIssue>>
          BY <4>2 DEF TypeOK
        <4> QED
          BY <2>4, <4>1, <4>2 DEF FinishTransfer
      <3> QED
        BY <2>4, <3>2, EndType DEF FinishTransfer, TypeOK
    <2>5. CASE DeadlockAbort(h)
      BY <2>5, EndType DEF DeadlockAbort, TypeOK, rest
    <2>6. CASE FinishCap(h)
      <3>1. cap' \in Nat
        BY <2>6, TxnFields DEF FinishCap
      <3> QED
        BY <2>6, <3>1, EndType DEF FinishCap, TypeOK
    <2> QED
      BY <2>1, <2>2, <2>3, <2>4, <2>5, <2>6 DEF Finish
  <1>5. CASE \E m \in Members : Join(m) \/ Suspend(m) \/ Reactivate(m) \/ MoveStart(m)
    <2> PICK m \in Members : Join(m) \/ Suspend(m) \/ Reactivate(m) \/ MoveStart(m)
      BY <1>5
    <2>1. requests' \in 0 .. MaxRequests
      BY RequestType DEF Join, Suspend, Reactivate, MoveStart
    <2>2. CASE Join(m)
      BY <2>1, <2>2 DEF Join, TypeOK
    <2>3. CASE Suspend(m)
      BY <2>1, <2>3 DEF Suspend, TypeOK
    <2>4. CASE Reactivate(m)
      BY <2>1, <2>4 DEF Reactivate, TypeOK
    <2>5. CASE MoveStart(m)
      <3>1. start' \in [Members -> Nat]
        BY <2>5 DEF MoveStart, TypeOK
      <3> QED
        BY <2>1, <2>5, <3>1 DEF MoveStart, TypeOK
    <2> QED
      BY <2>2, <2>3, <2>4, <2>5
  <1>6. CASE ToggleRule
    <2>1. requests' \in 0 .. MaxRequests
      BY <1>6, RequestType DEF ToggleRule
    <2> QED
      BY <1>6, <2>1 DEF ToggleRule, TypeOK
  <1>7. CASE \E s \in Sweepers : BeginSweep(s) \/ FinishSweep(s) \/ AbortSweep(s)
    <2> PICK s \in Sweepers : BeginSweep(s) \/ FinishSweep(s) \/ AbortSweep(s)
      BY <1>7
    <2>1. CASE BeginSweep(s)
      <3> PICK g \in Grantable(DuePeriods) :
               Begin(s, [op |-> "sweep", grants |-> g, balance |-> weight])
        BY <2>1 DEF BeginSweep
      <3>1. g \in SUBSET (Members \X Periods)
        BY DueFinite DEF Grantable
      <3>2. [op |-> "sweep", grants |-> g, balance |-> weight] \in Txn
        BY <3>1 DEF Txn, SweepTxn, TypeOK
      <3>3. txn' \in [Procs -> Txn \union {Idle}]
        BY <3>2, BeginType
      <3>4. orgLock' \in Procs \union {Free}
        BY <2>1 DEF BeginSweep, LockOrg
      <3> QED
        BY <2>1, <3>3, <3>4 DEF BeginSweep, TypeOK, rest
    <2>2. CASE FinishSweep(s)
      BY <2>2, SweepType
    <2>3. CASE AbortSweep(s)
      BY <2>3, EndType DEF AbortSweep, TypeOK, rest
    <2> QED
      BY <2>1, <2>2, <2>3
  <1>8. CASE Tick
    BY <1>8, SharesAssumption DEF Tick, TypeOK
  <1>9. CASE UNCHANGED vars
    BY <1>9 DEF vars, TypeOK
  <1> QED
    BY <1>1, <1>2, <1>3, <1>4, <1>5, <1>6, <1>7, <1>8, <1>9 DEF Next

(* In every reachable state every variable has its type; in particular no  *)
(* balance is ever negative, transfers included.                           *)
THEOREM TypeCorrect == Spec => []TypeOK
  BY InitType, NextType, PTL DEF Spec

-----------------------------------------------------------------------------
(* No period is granted twice.                                             *)

(* What was paid has its key on record, and a sweep that finds one of its  *)
(* keys on record cannot commit.                                           *)
PaidHasKey ==
    \A m \in Members, k \in Periods : paid[m][k] > 0 => period_key(m, k) \in keys

LEMMA SweepGrantsOnce ==
    ASSUME TypeOK, GrantedOnce, PaidHasKey, NEW s \in Sweepers, FinishSweep(s)
    PROVE  GrantedOnce' /\ PaidHasKey'
  <1> DEFINE t == txn[s]
  <1> SUFFICES ASSUME NEW m \in Members, NEW k \in Periods
               PROVE  paid'[m][k] <= 1 /\ (paid'[m][k] > 0 => period_key(m, k) \in keys')
    BY DEF GrantedOnce, PaidHasKey, period_key
  <1>1. paid'[m][k] = paid[m][k] + IF <<m, k>> \in t.grants THEN 1 ELSE 0
    BY DEF FinishSweep
  <1>2. paid[m][k] \in Nat /\ paid[m][k] <= 1
        /\ (paid[m][k] > 0 => period_key(m, k) \in keys)
    BY DEF TypeOK, GrantedOnce, PaidHasKey
  <1>3. /\ keys' = keys \union KeysUsed(t)
        /\ KeysUsed(t) \intersect keys = {}
    BY DEF FinishSweep
  <1>4. <<m, k>> \in t.grants => period_key(m, k) \in KeysUsed(t)
    BY DEF KeysUsed, period_key
  <1> QED
    BY <1>1, <1>2, <1>3, <1>4

LEMMA NextGrantsOnce == TypeOK /\ GrantedOnce /\ PaidHasKey /\ [Next]_vars
                        => GrantedOnce' /\ PaidHasKey'
  <1> SUFFICES ASSUME TypeOK, GrantedOnce, PaidHasKey, [Next]_vars
               PROVE  GrantedOnce' /\ PaidHasKey'
    OBVIOUS
  <1>1. CASE UNCHANGED <<paid, keys>>
    BY <1>1 DEF GrantedOnce, PaidHasKey, period_key
  <1>2. CASE \E s \in Sweepers : FinishSweep(s)
    BY <1>2, SweepGrantsOnce
  <1>3. (\E h \in Handlers : Finish(h)) => UNCHANGED <<paid, keys>>
    BY DEF Finish, CheckCap, FinishSet, LockSender, FinishTransfer, DeadlockAbort,
           FinishCap, rest
  <1>4. (\E m \in Members : Join(m) \/ Suspend(m) \/ Reactivate(m) \/ MoveStart(m))
        \/ ToggleRule \/ Tick => UNCHANGED <<paid, keys>>
    BY DEF Join, Suspend, Reactivate, MoveStart, ToggleRule, Tick
  <1>5. \A h \in Handlers :
           /\ \A m \in Members, n \in Weights : BeginSet(h, m, n) => UNCHANGED <<paid, keys>>
           /\ \A a, b \in Members, n \in Weights \ {0} :
                 BeginTransfer(h, a, b, n) => UNCHANGED <<paid, keys>>
           /\ \A c \in Caps : BeginCap(h, c) => UNCHANGED <<paid, keys>>
    BY DEF BeginSet, BeginTransfer, BeginCap, rest
  <1>6. \A s \in Sweepers : BeginSweep(s) \/ AbortSweep(s) => UNCHANGED <<paid, keys>>
    BY DEF BeginSweep, AbortSweep, rest
  <1>7. UNCHANGED vars => UNCHANGED <<paid, keys>>
    BY DEF vars
  <1> QED
    BY <1>1, <1>2, <1>3, <1>4, <1>5, <1>6, <1>7 DEF Next

(* However many sweeps run at once, fail or overlap with moved start       *)
(* dates, no member is granted a period twice.                             *)
THEOREM NeverGrantedTwice == Spec => []GrantedOnce
  <1>1. Init => GrantedOnce /\ PaidHasKey
    BY DEF Init, GrantedOnce, PaidHasKey
  <1> QED
    BY <1>1, InitType, NextType, NextGrantsOnce, PTL DEF Spec

-----------------------------------------------------------------------------
(* Issuing alone stays within the cap.                                     *)

(* While shares are only issued a balance can but grow, so the difference  *)
(* a set transaction computed with an old balance is never too small; what *)
(* was compared with the cap stays true for whoever holds the lock.        *)
SafeSet(p) ==
    txn[p].op = "set" =>
        /\ pureIssue => txn[p].old <= weight[txn[p].m]
        /\ txn[p].pc = "checked" =>
             /\ orgLock = p /\ txn[p].new > txn[p].old
             /\ pureIssue => Outstanding + (txn[p].new - txn[p].old) <= cap

SafeTransfer(p) ==
    txn[p].op = "transfer" =>
        /\ txn[p].amount > 0 /\ txn[p].from # txn[p].to
        /\ pureIssue => txn[p].old <= weight[txn[p].from]

SafeCap(p) ==
    txn[p].op = "cap" => orgLock = p /\ (pureIssue => Outstanding <= txn[p].new)

SafeSweep(p) ==
    txn[p].op = "sweep" =>
        /\ orgLock = p
        /\ pureIssue =>
             /\ txn[p].balance = weight
             /\ Outstanding + Cardinality(txn[p].grants) * Amount <= cap

Safe(p) == SafeSet(p) /\ SafeTransfer(p) /\ SafeCap(p) /\ SafeSweep(p)
CapInv  == CapHolds /\ \A p \in Procs : Safe(p)

LEMMA TotalIsInteger ==
    ASSUME NEW w \in [Members -> Nat], NEW A \in SUBSET Members
    PROVE  SumFunctionOnSet(w, A) \in Int
  <1>1. \A x \in Members : w[x] \in Int
    OBVIOUS
  <1> QED
    BY <1>1, SharesAssumption, SumIsInteger

LEMMA OutstandingIsInteger == TypeOK => Outstanding \in Int
  <1>1. Active \in SUBSET Members
    BY DEF Active
  <1> QED
    BY <1>1, TotalIsInteger DEF TypeOK, Outstanding

LEMMA ActiveFinite == Active \in SUBSET Members /\ IsFiniteSet(Active)
  BY SharesAssumption, FS_Subset DEF Active

LEMMA SameTotal ==
    ASSUME UNCHANGED <<weight, status>>
    PROVE  Outstanding' = Outstanding
  BY DEF Outstanding, Active

(* What a step must respect for the transaction of another process to stay *)
(* safe: locks, balances that only grow, and the total of a lock's holder. *)
LEMMA OthersStaySafe ==
    ASSUME TypeOK, NEW q \in Procs, Safe(q), txn'[q] = txn[q],
           orgLock = q => orgLock' = q,
           pureIssue' => pureIssue /\ \A m \in Members : weight[m] <= weight'[m],
           weight' \in [Members -> Nat], Outstanding' \in Int, cap' \in Nat,
           pureIssue' /\ orgLock = q =>
               weight' = weight /\ Outstanding' <= Outstanding /\ cap' = cap
    PROVE  Safe(q)'
  <1> DEFINE t == txn[q]
  <1>1. Outstanding \in Int /\ cap \in Nat
    BY OutstandingIsInteger DEF TypeOK
  <1>2. SafeSet(q)'
    <2> SUFFICES ASSUME t.op = "set" PROVE SafeSet(q)'
      BY DEF SafeSet
    <2>1. t.m \in Members /\ t.old \in Nat /\ t.new \in Nat
      BY TxnFields
    <2>2. pureIssue' => t.old <= weight'[t.m]
      <3>1. weight[t.m] \in Nat /\ weight'[t.m] \in Nat
        BY <2>1 DEF TypeOK
      <3>2. pureIssue' => t.old <= weight[t.m] /\ weight[t.m] <= weight'[t.m]
        BY <2>1 DEF Safe, SafeSet
      <3> QED
        BY <2>1, <3>1, <3>2
    <2>3. t.pc = "checked" =>
             /\ orgLock' = q /\ t.new > t.old
             /\ pureIssue' => Outstanding' + (t.new - t.old) <= cap'
      BY <1>1, <2>1 DEF Safe, SafeSet
    <2> QED
      BY <2>2, <2>3 DEF SafeSet
  <1>3. SafeTransfer(q)'
    <2> SUFFICES ASSUME t.op = "transfer" PROVE SafeTransfer(q)'
      BY DEF SafeTransfer
    <2>1. t.from \in Members /\ t.old \in Nat
      BY TxnFields
    <2>2. weight[t.from] \in Nat /\ weight'[t.from] \in Nat
      BY <2>1 DEF TypeOK
    <2>3. pureIssue' => t.old <= weight[t.from] /\ weight[t.from] <= weight'[t.from]
      BY <2>1 DEF Safe, SafeTransfer
    <2> QED
      BY <2>1, <2>2, <2>3 DEF Safe, SafeTransfer
  <1>4. SafeCap(q)'
    <2> SUFFICES ASSUME t.op = "cap" PROVE SafeCap(q)'
      BY DEF SafeCap
    <2>1. t.new \in Nat
      BY TxnFields
    <2> QED
      BY <1>1, <2>1 DEF Safe, SafeCap
  <1>5. SafeSweep(q)'
    <2> SUFFICES ASSUME t.op = "sweep" PROVE SafeSweep(q)'
      BY DEF SafeSweep
    <2>1. Cardinality(t.grants) * Amount \in Int
      <3>1. IsFiniteSet(t.grants)
        BY TxnFields, GrantsCount
      <3>2. Cardinality(t.grants) \in Nat /\ Amount \in Nat
        BY <3>1, FS_CardinalityType, SharesAssumption
      <3> QED
        BY <3>2
    <2>2. orgLock' = q
      BY DEF Safe, SafeSweep
    <2>3. pureIssue' => txn'[q].balance = weight'
      BY DEF Safe, SafeSweep
    <2>4. pureIssue' => Outstanding' + Cardinality(t.grants) * Amount <= cap'
      <3> HIDE DEF t
      <3> SUFFICES ASSUME pureIssue' PROVE Outstanding' + Cardinality(t.grants) * Amount <= cap'
        OBVIOUS
      <3>1. Outstanding + Cardinality(t.grants) * Amount <= cap /\ Outstanding' <= Outstanding
            /\ cap' = cap
        BY DEF Safe, SafeSweep, t
      <3> QED
        BY <1>1, <2>1, <3>1
    <2> QED
      BY <2>2, <2>3, <2>4 DEF SafeSweep
  <1> QED
    BY <1>2, <1>3, <1>4, <1>5 DEF Safe

(* The end of a transaction leaves it nothing to be safe about, and takes  *)
(* nothing from the others.                                                *)
LEMMA EndIsSafe ==
    ASSUME TypeOK, NEW p \in Procs, End(p)
    PROVE  /\ Safe(p)'
           /\ \A q \in Procs \ {p} : txn'[q] = txn[q] /\ (orgLock = q => orgLock' = q)
  <1>1. txn'[p] = Idle
    BY DEF End, TypeOK
  <1>2. \A q \in Procs \ {p} : txn'[q] = txn[q] /\ (orgLock = q => orgLock' = q)
    BY DEF End, TypeOK
  <1> QED
    BY <1>1, <1>2 DEF Safe, SafeSet, SafeTransfer, SafeCap, SafeSweep, Idle

(* A step that moves no balance, no status and no cap.                     *)
LEMMA NothingMoves ==
    ASSUME TypeOK, CapInv, UNCHANGED <<weight, status, cap, pureIssue>>,
           NEW p \in Procs, Safe(p)',
           \A q \in Procs \ {p} : txn'[q] = txn[q] /\ (orgLock = q => orgLock' = q)
    PROVE  CapInv'
  <1>1. Outstanding' = Outstanding
    BY SameTotal
  <1>2. Outstanding \in Int /\ weight \in [Members -> Nat] /\ cap \in Nat
    BY OutstandingIsInteger DEF TypeOK
  <1>3. \A m \in Members : weight[m] <= weight[m]
    BY <1>2
  <1>4. ASSUME NEW q \in Procs \ {p} PROVE Safe(q)'
    BY <1>1, <1>2, <1>3, OthersStaySafe DEF CapInv
  <1> QED
    BY <1>1, <1>4 DEF CapInv, CapHolds

LEMMA SetStaysWithin ==
    ASSUME TypeOK, CapInv, NEW h \in Handlers, FinishSet(h), TypeOK'
    PROVE  CapInv'
  <1> DEFINE t == txn[h]
  <1>1. h \in Procs /\ t.m \in Members /\ t.old \in Nat /\ t.new \in Nat
    BY TxnFields DEF FinishSet, Procs
  <1>2. weight \in [Members -> Nat] /\ weight' \in [Members -> Nat]
        /\ cap \in Nat /\ cap' = cap /\ status' = status
    BY DEF TypeOK, FinishSet
  <1>3. Outstanding \in Int /\ Outstanding' \in Int
    BY <1>2, ActiveFinite, TotalIsInteger DEF Outstanding, Active
  <1>4. weight' = [weight EXCEPT ![t.m] = t.new]
    BY DEF FinishSet, Write
  <1>5. pureIssue' => pureIssue /\ \A m \in Members : weight[m] <= weight'[m]
    BY <1>2 DEF FinishSet, Write
  <1>6. pureIssue' => t.pc = "checked" /\ orgLock = h
                      /\ Outstanding + (t.new - t.old) <= cap
    <2> SUFFICES ASSUME pureIssue'
                 PROVE  t.pc = "checked" /\ orgLock = h
                        /\ Outstanding + (t.new - t.old) <= cap
      OBVIOUS
    <2>1. SafeSet(h) /\ t.op = "set"
      BY <1>1 DEF CapInv, Safe, FinishSet
    <2>2. weight[t.m] \in Nat /\ weight'[t.m] = t.new
      BY <1>1, <1>2, <1>4
    <2>3. t.old <= weight[t.m] /\ weight[t.m] <= t.new
      BY <1>1, <1>5, <2>1, <2>2 DEF SafeSet
    <2>4. t.pc = "checked"
      BY <1>1, <2>2, <2>3 DEF FinishSet
    <2> QED
      BY <1>5, <2>1, <2>4 DEF SafeSet
  <1>7. pureIssue' => Outstanding' <= cap
    <2> SUFFICES ASSUME pureIssue' PROVE Outstanding' <= cap
      OBVIOUS
    <2>1. Active' = Active
      BY <1>2 DEF Active
    <2>2. \A x \in Active : weight[x] \in Int /\ weight'[x] \in Int
      BY <1>2, ActiveFinite
    <2>3. CASE t.m \in Active
      <3>1. \A x \in Active \ {t.m} : weight'[x] = weight[x]
        BY <1>2, <1>4, ActiveFinite
      <3>2. Outstanding' = Outstanding + (weight'[t.m] - weight[t.m])
        BY <2>1, <2>2, <2>3, <3>1, ActiveFinite, SumUpdates DEF Outstanding
      <3>3. weight[t.m] \in Nat /\ weight'[t.m] = t.new /\ t.old <= weight[t.m]
        BY <1>1, <1>2, <1>4, <1>5 DEF CapInv, Safe, SafeSet, FinishSet
      <3> QED
        BY <1>1, <1>2, <1>3, <1>6, <3>2, <3>3
    <2>4. CASE t.m \notin Active
      <3>1. \A x \in Active : weight[x] \in Int /\ weight'[x] = weight[x]
        BY <1>2, <1>4, <2>4, ActiveFinite
      <3>2. Outstanding' = Outstanding
        BY <2>1, <3>1, ActiveFinite, SumsAlike DEF Outstanding
      <3> QED
        BY <1>5, <3>2 DEF CapInv, CapHolds
    <2> QED
      BY <2>3, <2>4
  <1>8. Safe(h)' /\ \A q \in Procs \ {h} : txn'[q] = txn[q] /\ (orgLock = q => orgLock' = q)
    BY <1>1, EndIsSafe DEF FinishSet
  <1>9. ASSUME NEW q \in Procs \ {h} PROVE Safe(q)'
    BY <1>2, <1>3, <1>5, <1>6, <1>8, OthersStaySafe DEF CapInv
  <1> QED
    BY <1>2, <1>7, <1>8, <1>9 DEF CapInv, CapHolds

LEMMA TransferStaysWithin ==
    ASSUME TypeOK, CapInv, NEW h \in Handlers, FinishTransfer(h)
    PROVE  CapInv'
  <1> DEFINE t == txn[h]
             balances == [weight EXCEPT ![t.from] = t.old - t.amount,
                                        ![t.to] = @ + t.amount]
  <1>1. h \in Procs /\ End(h) /\ status' = status /\ cap' = cap
    BY DEF Procs, FinishTransfer
  <1>2. Safe(h)' /\ \A q \in Procs \ {h} : txn'[q] = txn[q] /\ (orgLock = q => orgLock' = q)
    BY <1>1, EndIsSafe
  <1>3. CASE UNCHANGED <<weight, pureIssue>>
    BY <1>1, <1>2, <1>3, NothingMoves
  <1>4. CASE t.old >= t.amount /\ Write(balances)
    <2>1. /\ t.from \in Members /\ t.to \in Members /\ t.from # t.to
          /\ t.amount \in Nat /\ t.amount > 0 /\ t.old \in Nat
          /\ pureIssue => t.old <= weight[t.from]
      BY <1>1, TxnFields DEF FinishTransfer, CapInv, Safe, SafeTransfer
    <2>2. weight[t.from] \in Nat /\ balances[t.from] = t.old - t.amount
      BY <2>1 DEF TypeOK
    <2>3. ~ pureIssue'
      <3>1. pureIssue' => pureIssue /\ balances[t.from] >= weight[t.from]
        BY <1>4, <2>1 DEF Write
      <3>2. pureIssue => ~ (t.old - t.amount >= weight[t.from])
        BY <2>1, <2>2
      <3> HIDE DEF balances
      <3> QED
        BY <2>2, <3>1, <3>2
    <2>4. weight' \in [Members -> Nat]
      <3>1. t.old - t.amount \in Nat
        BY <1>4, <2>1
      <3>2. balances \in [Members -> Nat]
        BY <2>1, <3>1 DEF TypeOK
      <3> QED
        BY <1>4, <3>2 DEF Write
    <2>5. Outstanding' \in Int /\ cap' \in Nat
      BY <1>1, <2>4, ActiveFinite, TotalIsInteger DEF Outstanding, Active, TypeOK
    <2>6. ASSUME NEW q \in Procs \ {h} PROVE Safe(q)'
      BY <1>2, <2>3, <2>4, <2>5, OthersStaySafe DEF CapInv
    <2> QED
      BY <1>2, <2>3, <2>6 DEF CapInv, CapHolds
  <1> QED
    BY <1>3, <1>4 DEF FinishTransfer

LEMMA CapChangeStaysWithin ==
    ASSUME TypeOK, CapInv, NEW h \in Handlers, FinishCap(h)
    PROVE  CapInv'
  <1>1. h \in Procs /\ End(h) /\ txn[h].op = "cap" /\ cap' = txn[h].new
        /\ UNCHANGED <<weight, status, pureIssue>>
    BY DEF Procs, FinishCap
  <1>2. Safe(h)' /\ \A q \in Procs \ {h} : txn'[q] = txn[q] /\ (orgLock = q => orgLock' = q)
    BY <1>1, EndIsSafe
  <1>3. orgLock = h /\ (pureIssue => Outstanding <= cap') /\ cap' \in Nat
    BY <1>1, TxnFields DEF CapInv, Safe, SafeCap
  <1>4. Outstanding' = Outstanding /\ Outstanding \in Int /\ weight \in [Members -> Nat]
    BY <1>1, SameTotal, OutstandingIsInteger DEF TypeOK
  <1>5. \A m \in Members : weight[m] <= weight[m]
    BY <1>4
  <1>6. ASSUME NEW q \in Procs \ {h} PROVE Safe(q)'
    BY <1>1, <1>2, <1>3, <1>4, <1>5, OthersStaySafe DEF CapInv
  <1> QED
    BY <1>1, <1>2, <1>3, <1>4, <1>6 DEF CapInv, CapHolds

(* A part of what was granted is counted no more than the whole.           *)
LEMMA PartOfGrants ==
    ASSUME NEW G, IsFiniteSet(G), NEW H \in SUBSET G
    PROVE  /\ Cardinality(G) * Amount \in Nat
           /\ Cardinality(H) * Amount <= Cardinality(G) * Amount
  <1>1. IsFiniteSet(H) /\ Cardinality(H) \in Nat /\ Cardinality(G) \in Nat
        /\ Cardinality(H) <= Cardinality(G)
    BY FS_Subset, FS_CardinalityType
  <1>2. \A a, b, c \in Nat : a <= b => b * c \in Nat /\ a * c <= b * c
    OBVIOUS
  <1> QED
    BY <1>1, <1>2, SharesAssumption

LEMMA SweepStaysWithin ==
    ASSUME TypeOK, CapInv, NEW s \in Sweepers, FinishSweep(s), TypeOK'
    PROVE  CapInv'
  <1> DEFINE t == txn[s]
             G == t.grants
             InActive == {p \in G : p[1] \in Active}
  <1>1. /\ s \in Procs /\ End(s) /\ t.op = "sweep"
        /\ G \in SUBSET (Members \X Periods) /\ orgLock = s
        /\ status' = status /\ cap' = cap /\ cap \in Nat
    BY TxnFields DEF FinishSweep, Procs, CapInv, Safe, SafeSweep, TypeOK
  <1>2. weight \in [Members -> Nat] /\ weight' \in [Members -> Nat]
    BY DEF TypeOK
  <1>3. Outstanding \in Int /\ Outstanding' \in Int
    BY <1>1, <1>2, ActiveFinite, TotalIsInteger DEF Outstanding, Active
  <1>4. weight' = [m \in Members |-> IF Grants(t, m) = 0 THEN weight[m]
                                     ELSE t.balance[m] + Grants(t, m) * Amount]
    BY DEF FinishSweep, Write
  <1>5. pureIssue' => pureIssue /\ \A m \in Members : weight[m] <= weight'[m]
    BY <1>2 DEF FinishSweep, Write
  <1>6. pureIssue' => Outstanding' <= cap
    <2> SUFFICES ASSUME pureIssue' PROVE Outstanding' <= cap
      OBVIOUS
    <2>1. t.balance = weight /\ Outstanding + Cardinality(G) * Amount <= cap
      BY <1>1, <1>5 DEF CapInv, Safe, SafeSweep
    <2>2. IsFiniteSet(G) /\ \A m : Grants(t, m) \in Nat
      BY <1>1, GrantsCount
    <2>3. ASSUME NEW m \in Active
          PROVE  /\ weight[m] \in Nat
                 /\ weight'[m] = weight[m] + Cardinality({p \in G : p[1] = m}) * Amount
      <3>1. m \in Members /\ weight[m] \in Nat /\ Grants(t, m) \in Nat /\ Amount \in Nat
        BY <1>2, <2>2, ActiveFinite, SharesAssumption
      <3>2. weight'[m] = weight[m] + Grants(t, m) * Amount
        <4>1. CASE Grants(t, m) = 0
          <5>1. weight'[m] = weight[m]
            BY <1>4, <3>1, <4>1
          <5>2. Grants(t, m) * Amount = 0
            BY <3>1, <4>1
          <5> QED
            BY <3>1, <5>1, <5>2
        <4>2. CASE Grants(t, m) # 0
          BY <1>4, <2>1, <3>1, <4>2
        <4> QED
          BY <4>1, <4>2
      <3> QED
        BY <3>1, <3>2 DEF Grants
    <2>4. Active' = Active
      BY <1>1 DEF Active
    <2>5. Outstanding' = Outstanding + Cardinality(InActive) * Amount
      <3>1. Amount \in Nat
        BY SharesAssumption
      <3> HIDE DEF t
      <3>2. SumFunctionOnSet(weight', Active) =
              SumFunctionOnSet(weight, Active) + Cardinality({p \in G : p[1] \in Active}) * Amount
        BY <2>2, <2>3, <3>1, ActiveFinite, SumGrants
      <3> QED
        BY <2>4, <3>2 DEF Outstanding
    <2>6. /\ Cardinality(G) * Amount \in Nat
          /\ Cardinality(InActive) * Amount <= Cardinality(G) * Amount
      BY <2>2, PartOfGrants
    <2>7. Cardinality(InActive) * Amount \in Nat
      BY <2>2, FS_Subset, PartOfGrants
    <2> HIDE DEF G, InActive
    <2> QED
      BY <1>1, <1>3, <2>1, <2>5, <2>6, <2>7
  <1>7. Safe(s)' /\ \A q \in Procs \ {s} : txn'[q] = txn[q] /\ (orgLock = q => orgLock' = q)
    BY <1>1, EndIsSafe
  <1>8. ASSUME NEW q \in Procs \ {s} PROVE Safe(q)'
    BY <1>1, <1>2, <1>3, <1>5, <1>7, OthersStaySafe DEF CapInv
  <1> QED
    BY <1>1, <1>6, <1>7, <1>8 DEF CapInv, CapHolds

(* Suspension takes a member's balance out of the total.                   *)
LEMMA SuspensionStaysWithin ==
    ASSUME TypeOK, CapInv, NEW m \in Members, Suspend(m)
    PROVE  CapInv'
  <1>1. UNCHANGED <<weight, cap, txn, orgLock, pureIssue>>
        /\ weight \in [Members -> Nat] /\ cap \in Nat
    BY DEF Suspend, TypeOK
  <1>2. Active' \in SUBSET Active
    BY DEF Active, Suspend, TypeOK
  <1>3. Outstanding \in Int /\ Outstanding' \in Int
    <2>1. Active' \in SUBSET Members
      BY DEF Active
    <2> QED
      BY <1>1, <2>1, ActiveFinite, TotalIsInteger DEF Outstanding
  <1>4. Outstanding' <= Outstanding
    <2>1. \A x \in Active : weight[x] \in Nat
      BY <1>1, ActiveFinite
    <2>2. SumFunctionOnSet(weight, Active') <= SumFunctionOnSet(weight, Active)
      BY <1>2, <2>1, ActiveFinite, SumShrinks
    <2> QED
      BY <1>1, <2>2 DEF Outstanding
  <1>5. \A x \in Members : weight[x] <= weight[x]
    BY <1>1
  <1>6. ASSUME NEW q \in Procs PROVE Safe(q)'
    BY <1>1, <1>3, <1>4, <1>5, OthersStaySafe DEF CapInv
  <1>7. pureIssue' => Outstanding' <= cap'
    BY <1>1, <1>3, <1>4 DEF CapInv, CapHolds
  <1> QED
    BY <1>6, <1>7 DEF CapInv, CapHolds

(* An admission ends the pure issuance, and with it every claim.           *)
LEMMA AdmissionEndsClaims ==
    ASSUME TypeOK, CapInv, NEW m \in Members, Join(m) \/ Reactivate(m)
    PROVE  CapInv'
  <1>1. ~ pureIssue' /\ UNCHANGED <<weight, cap, txn, orgLock>>
        /\ weight \in [Members -> Nat] /\ cap \in Nat
    BY DEF Join, Reactivate, TypeOK
  <1>2. Outstanding' \in Int
    <2>1. Active' \in SUBSET Members
      BY DEF Active
    <2> QED
      BY <1>1, <2>1, TotalIsInteger DEF Outstanding
  <1>3. ASSUME NEW q \in Procs PROVE Safe(q)'
    BY <1>1, <1>2, OthersStaySafe DEF CapInv
  <1> QED
    BY <1>1, <1>3 DEF CapInv, CapHolds

LEMMA BeginStaysWithin ==
    ASSUME TypeOK, CapInv, NEW p \in Procs,
           UNCHANGED <<weight, status, cap, pureIssue>>,
           orgLock' = orgLock \/ LockOrg(p),
           NEW t, Begin(p, t), Safe(p)'
    PROVE  CapInv'
  <1>1. \A q \in Procs \ {p} : txn'[q] = txn[q] /\ (orgLock = q => orgLock' = q)
    BY SharesAssumption DEF Begin, LockOrg, TypeOK, Procs
  <1> QED
    BY <1>1, NothingMoves

LEMMA CheckStaysWithin ==
    ASSUME TypeOK, CapInv, NEW h \in Handlers, CheckCap(h)
    PROVE  CapInv'
  <1>1. h \in Procs /\ txn[h].op = "set" /\ txn[h].new > txn[h].old
        /\ UNCHANGED <<weight, status, cap, pureIssue>>
    BY DEF Procs, CheckCap, rest
  <1>2. CASE End(h)
    BY <1>1, <1>2, EndIsSafe, NothingMoves
  <1>3. CASE /\ Outstanding + (txn[h].new - txn[h].old) <= cap
             /\ LockOrg(h) /\ txn' = [txn EXCEPT ![h].pc = "checked"]
    <2>1. /\ txn'[h].op = "set" /\ txn'[h].m = txn[h].m
          /\ txn'[h].old = txn[h].old /\ txn'[h].new = txn[h].new
      <3>1. txn[h] \in SetTxn /\ txn'[h] = [txn[h] EXCEPT !.pc = "checked"]
        BY <1>1, <1>3, TxnOf DEF TypeOK
      <3>2. \A t \in SetTxn : LET u == [t EXCEPT !.pc = "checked"] IN
               u.op = "set" /\ u.m = t.m /\ u.old = t.old /\ u.new = t.new
        BY DEF SetTxn
      <3> QED
        BY <3>1, <3>2
    <2>2. orgLock' = h /\ Outstanding' = Outstanding
      BY <1>1, <1>3, SameTotal DEF LockOrg
    <2>3. pureIssue => txn[h].old <= weight[txn[h].m]
      BY <1>1 DEF CapInv, Safe, SafeSet
    <2>4. Safe(h)'
      BY <1>1, <1>3, <2>1, <2>2, <2>3 DEF Safe, SafeSet, SafeTransfer, SafeCap, SafeSweep
    <2>5. \A q \in Procs \ {h} : txn'[q] = txn[q] /\ (orgLock = q => orgLock' = q)
      BY <1>3, SharesAssumption DEF LockOrg, TypeOK, Procs
    <2> QED
      BY <1>1, <2>4, <2>5, NothingMoves
  <1> QED
    BY <1>2, <1>3 DEF CheckCap

LEMMA LockSenderStaysWithin ==
    ASSUME TypeOK, CapInv, NEW h \in Handlers, LockSender(h)
    PROVE  CapInv'
  <1>1. h \in Procs /\ txn[h].op = "transfer" /\ UNCHANGED <<weight, status, cap, pureIssue>>
    BY DEF Procs, LockSender, rest
  <1>2. CASE End(h)
    BY <1>1, <1>2, EndIsSafe, NothingMoves
  <1>3. CASE txn' = [txn EXCEPT ![h].pc = "locked"] /\ UNCHANGED orgLock
    <2>1. /\ txn'[h].op = "transfer" /\ txn'[h].from = txn[h].from /\ txn'[h].to = txn[h].to
          /\ txn'[h].old = txn[h].old /\ txn'[h].amount = txn[h].amount
      <3>1. txn[h] \in TransferTxn /\ txn'[h] = [txn[h] EXCEPT !.pc = "locked"]
        BY <1>1, <1>3, TxnOf DEF TypeOK
      <3>2. \A t \in TransferTxn : LET u == [t EXCEPT !.pc = "locked"] IN
               u.op = "transfer" /\ u.from = t.from /\ u.to = t.to /\ u.old = t.old
               /\ u.amount = t.amount
        BY DEF TransferTxn
      <3> QED
        BY <3>1, <3>2
    <2>2. SafeTransfer(h)
      BY <1>1 DEF CapInv, Safe
    <2>3. Safe(h)'
      BY <1>1, <2>1, <2>2 DEF Safe, SafeSet, SafeTransfer, SafeCap, SafeSweep
    <2>4. \A q \in Procs \ {h} : txn'[q] = txn[q] /\ (orgLock = q => orgLock' = q)
      BY <1>3 DEF TypeOK
    <2> QED
      BY <1>1, <2>3, <2>4, NothingMoves
  <1> QED
    BY <1>2, <1>3 DEF LockSender

LEMMA NextStaysWithin == TypeOK /\ TypeOK' /\ CapInv /\ [Next]_vars => CapInv'
  <1> SUFFICES ASSUME TypeOK, TypeOK', CapInv, [Next]_vars PROVE CapInv'
    OBVIOUS
  <1> Handlers \subseteq Procs /\ Sweepers \subseteq Procs
    BY DEF Procs
  <1>1. CASE \E h \in Handlers, m \in Members, n \in Weights : BeginSet(h, m, n)
    <2> PICK h \in Handlers, m \in Members, n \in Weights : BeginSet(h, m, n)
      BY <1>1
    <2> DEFINE t == [op |-> "set", pc |-> "read", m |-> m, old |-> weight[m], new |-> n]
    <2>1. Begin(h, t) /\ UNCHANGED <<weight, status, cap, pureIssue, orgLock>>
      BY DEF BeginSet, rest
    <2>2. txn'[h] = t /\ weight[m] \in Nat
      BY <2>1 DEF Begin, TypeOK
    <2>3. Safe(h)'
      BY <2>1, <2>2 DEF Safe, SafeSet, SafeTransfer, SafeCap, SafeSweep
    <2> QED
      BY <2>1, <2>3, BeginStaysWithin
  <1>2. CASE \E h \in Handlers, a, b \in Members, n \in Weights \ {0} : BeginTransfer(h, a, b, n)
    <2> PICK h \in Handlers, a \in Members, b \in Members, n \in Weights \ {0} :
             BeginTransfer(h, a, b, n)
      BY <1>2
    <2> DEFINE t == [op |-> "transfer", pc |-> "read", from |-> a, to |-> b,
                     amount |-> n, old |-> weight[a]]
    <2>1. Begin(h, t) /\ a # b /\ UNCHANGED <<weight, status, cap, pureIssue, orgLock>>
      BY DEF BeginTransfer, rest
    <2>2. txn'[h] = t /\ weight[a] \in Nat /\ n > 0
      BY <2>1, SharesAssumption DEF Begin, TypeOK
    <2>3. Safe(h)'
      BY <2>1, <2>2 DEF Safe, SafeSet, SafeTransfer, SafeCap, SafeSweep
    <2> QED
      BY <2>1, <2>3, BeginStaysWithin
  <1>3. CASE \E h \in Handlers, c \in Caps : BeginCap(h, c)
    <2> PICK h \in Handlers, c \in Caps : BeginCap(h, c)
      BY <1>3
    <2> DEFINE t == [op |-> "cap", new |-> c]
    <2>1. Begin(h, t) /\ LockOrg(h) /\ c >= Outstanding
          /\ UNCHANGED <<weight, status, cap, pureIssue>>
      BY DEF BeginCap, rest
    <2>2. txn'[h] = t /\ orgLock' = h
      BY <2>1 DEF Begin, LockOrg, TypeOK
    <2>3. Outstanding' = Outstanding /\ Outstanding \in Int /\ c \in Nat
      BY <2>1, SameTotal, OutstandingIsInteger, SharesAssumption
    <2>4. Safe(h)'
      BY <2>1, <2>2, <2>3 DEF Safe, SafeSet, SafeTransfer, SafeCap, SafeSweep
    <2> QED
      BY <2>1, <2>4, BeginStaysWithin
  <1>4. CASE \E h \in Handlers : Finish(h)
    <2> PICK h \in Handlers : Finish(h)
      BY <1>4
    <2>1. CASE DeadlockAbort(h)
      <3>1. End(h) /\ UNCHANGED <<weight, status, cap, pureIssue>>
        BY <2>1 DEF DeadlockAbort, rest
      <3> QED
        BY <3>1, EndIsSafe, NothingMoves
    <2> QED
      BY <2>1, CheckStaysWithin, SetStaysWithin, LockSenderStaysWithin,
         TransferStaysWithin, CapChangeStaysWithin DEF Finish
  <1>5. CASE \E m \in Members : Join(m) \/ Suspend(m) \/ Reactivate(m)
    BY <1>5, SuspensionStaysWithin, AdmissionEndsClaims
  <1>6. CASE \E s \in Sweepers : BeginSweep(s) \/ FinishSweep(s) \/ AbortSweep(s)
    <2> PICK s \in Sweepers : BeginSweep(s) \/ FinishSweep(s) \/ AbortSweep(s)
      BY <1>6
    <2>1. CASE BeginSweep(s)
      <3> PICK g \in Grantable(DuePeriods) :
               Begin(s, [op |-> "sweep", grants |-> g, balance |-> weight])
        BY <2>1 DEF BeginSweep
      <3> DEFINE t == [op |-> "sweep", grants |-> g, balance |-> weight]
      <3>1. LockOrg(s) /\ UNCHANGED <<weight, status, cap, pureIssue>>
        BY <2>1 DEF BeginSweep, rest
      <3>2. txn'[s] = t /\ orgLock' = s
        BY <3>1 DEF Begin, LockOrg, TypeOK
      <3>3. Outstanding' = Outstanding /\ Outstanding + Cardinality(g) * Amount <= cap
        BY <3>1, SameTotal DEF Grantable, Headroom
      <3>4. Safe(s)'
        BY <3>1, <3>2, <3>3 DEF Safe, SafeSet, SafeTransfer, SafeCap, SafeSweep
      <3> QED
        BY <3>1, <3>4, BeginStaysWithin
    <2>2. CASE FinishSweep(s)
      BY <2>2, SweepStaysWithin
    <2>3. CASE AbortSweep(s)
      <3>1. End(s) /\ UNCHANGED <<weight, status, cap, pureIssue>>
        BY <2>3 DEF AbortSweep, rest
      <3> QED
        BY <3>1, EndIsSafe, NothingMoves
    <2> QED
      BY <2>1, <2>2, <2>3
  <1>7. CASE UNCHANGED <<weight, status, cap, pureIssue, txn, orgLock>>
    <2>1. Outstanding' = Outstanding
      BY <1>7, SameTotal
    <2> QED
      BY <1>7, <2>1 DEF CapInv, CapHolds, Safe, SafeSet, SafeTransfer, SafeCap, SafeSweep
  <1>8. (\E m \in Members : MoveStart(m)) \/ ToggleRule \/ Tick \/ UNCHANGED vars
        => UNCHANGED <<weight, status, cap, pureIssue, txn, orgLock>>
    BY DEF MoveStart, ToggleRule, Tick, vars
  <1> QED
    BY <1>1, <1>2, <1>3, <1>4, <1>5, <1>6, <1>7, <1>8 DEF Next

LEMMA InitWithin == Init => CapInv
  <1> SUFFICES ASSUME Init PROVE CapInv
    OBVIOUS
  <1>1. CapHolds
    <2>1. cap >= Outstanding /\ cap \in Nat
      BY SharesAssumption DEF Init
    <2>2. Outstanding \in Int
      BY InitType, OutstandingIsInteger
    <2> QED
      BY <2>1, <2>2 DEF CapHolds
  <1>2. \A p \in Procs : txn[p] = Idle
    BY DEF Init
  <1> QED
    BY <1>1, <1>2 DEF CapInv, Safe, SafeSet, SafeTransfer, SafeCap, SafeSweep, Idle

(* What every open transaction relies on, and the cap itself.              *)
THEOREM TransactionsAreSafe == Spec => []CapInv
  BY InitType, InitWithin, NextType, NextStaysWithin, PTL DEF Spec

(* As long as shares are only issued, the outstanding total is within the  *)
(* authorized cap, for any number of requests and sweeps at once.          *)
THEOREM IssuesStayWithinCap == Spec => []CapHolds
  <1>1. CapInv => CapHolds
    BY DEF CapInv
  <1> QED
    BY <1>1, TransactionsAreSafe, PTL
=============================================================================
