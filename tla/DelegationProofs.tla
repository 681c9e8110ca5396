-------------------------- MODULE DelegationProofs --------------------------
(***************************************************************************)
(* Proofs about Delegation for any users, topics, handlers and policies:   *)
(* types, that every delegation on file rests on the consent of both       *)
(* sides, that no request to delegate takes effect twice, and that what    *)
(* was withdrawn stays withdrawn, while answers, approvals, withdrawals    *)
(* and expiries overlap between what they read and what they write.        *)
(***************************************************************************)
EXTENDS Delegation, FiniteSetTheorems, TLAPS

-----------------------------------------------------------------------------
(* The inductive invariant.                                                *)

(* A request that is still going to write the delegation it asked for, an  *)
(* approval that is still going to write its intents, and the numbers on   *)
(* whose account a handler will write.                                     *)
WillWrite(h) ==
    \/ txn[h].op = "request"
    \/ txn[h].op = "upsert" /\ txn[h].pc = "checked"

Approves(h) == txn[h].op = "approve"

Claims(h, n) ==
    \/ WillWrite(h) /\ txn[h].ask = n
    \/ Approves(h) /\ \E j \in txn[h].jobs : j.ask = n

(* Numbers are handed out once.                                            *)
RowsIssued      == \A r \in rows : r.ask <= requests
IntentsIssued   == \A i \in intents : i.id <= requests
WritesIssued    == \A n \in Numbers : writes[n] > 0 => n <= requests
IntentsDistinct == \A i, j \in intents : i.id = j.id => i = j

(* A pending intent has not been written, and what the tables permit now   *)
(* was permitted.                                                          *)
PendingUnwritten == \A i \in intents : i.status = "pending" => writes[i.id] = 0
PermittedNow     == Admissions(follow, profile) \subseteq admitted

(* What a handler is going to write has not been written, and nobody else  *)
(* is going to write it.                                                   *)
ClaimsIssued    == \A h \in Handlers, n \in Numbers : Claims(h, n) => n <= requests
ClaimsUnwritten == \A h \in Handlers, n \in Numbers : Claims(h, n) => writes[n] = 0
ClaimsDistinct  ==
    \A g, h \in Handlers, n \in Numbers : Claims(g, n) /\ Claims(h, n) => g = h

(* A direct delegation is no intent, and was permitted when it was checked.*)
AsksDirect ==
    \A h \in Handlers : WillWrite(h) =>
        /\ \A i \in intents : i.id # txn[h].ask
        /\ <<txn[h].src, txn[h].scope, txn[h].dst>> \in admitted

(* An approval takes up each intent once, for what it asked, and only when *)
(* it allows delegation.                                                   *)
JobsDistinct ==
    \A h \in Handlers : Approves(h) => \A j, k \in txn[h].jobs : j.ask = k.ask => j = k
JobsMatch ==
    \A h \in Handlers : Approves(h) => \A j \in txn[h].jobs :
        /\ txn[h].level = "delegation_allowed"
        /\ \A i \in intents : i.id = j.ask =>
              i.src = txn[h].src /\ i.scope = j.scope /\ i.dst = txn[h].dst

ConsentInv ==
    /\ RowsIssued /\ IntentsIssued /\ WritesIssued
    /\ IntentsDistinct /\ PendingUnwritten /\ PermittedNow
    /\ ClaimsIssued /\ ClaimsUnwritten /\ ClaimsDistinct
    /\ AsksDirect /\ JobsDistinct /\ JobsMatch
    /\ TwoConsents /\ AskedOnce

-----------------------------------------------------------------------------
(* Types.                                                                  *)

WriteTxn   == [op : {"upsert", "request"}, pc : {"checked", "half"}, src : Users,
               scope : Scopes, dst : Users, ask : Numbers, row : Numbers \union {0}]
RevokeTxn  == [op : {"revoke"}, src : Users, scope : Scopes]
RespondTxn == [op : {"respond"}, src : Users, dst : Users, answer : Levels \union {"denied"}]

ApproveTxn == [op : {"approve"}, src : Users, dst : Users, level : Levels, fresh : BOOLEAN,
               jobs : SUBSET Job]
SettleTxn  == [op : {"cancel", "list"}, ids : SUBSET Numbers]

(* What kind of request a handler runs fixes what it has read.             *)
LEMMA TxnOf ==
    ASSUME TypeOK, NEW h \in Handlers
    PROVE  /\ txn[h].op \in {"upsert", "request"} => txn[h] \in WriteTxn
           /\ txn[h].op = "revoke" => txn[h] \in RevokeTxn
           /\ txn[h].op = "respond" => txn[h] \in RespondTxn
           /\ txn[h].op = "approve" => txn[h] \in ApproveTxn
  <1>1. txn[h] \in WriteTxn \/ txn[h] \in RevokeTxn \/ txn[h] \in RespondTxn
        \/ txn[h] \in ApproveTxn \/ txn[h] \in SettleTxn \/ txn[h] = Idle
    BY DEF TypeOK, Txn, WriteTxn, RevokeTxn, RespondTxn, ApproveTxn, SettleTxn
  <1>2. \A t : /\ t \in WriteTxn => t.op \in {"upsert", "request"}
               /\ t \in RevokeTxn => t.op = "revoke"
               /\ t \in RespondTxn => t.op = "respond"
               /\ t \in ApproveTxn => t.op = "approve"
               /\ t \in SettleTxn => t.op \in {"cancel", "list"}
               /\ t = Idle => t.op = "idle"
    BY DEF WriteTxn, RevokeTxn, RespondTxn, ApproveTxn, SettleTxn, Idle
  <1> QED
    BY <1>1, <1>2

LEMMA WriteFields ==
    ASSUME TypeOK, NEW h \in Handlers, txn[h].op \in {"upsert", "request"}
    PROVE  /\ txn[h].pc \in {"checked", "half"}
           /\ txn[h].src \in Users /\ txn[h].scope \in Scopes /\ txn[h].dst \in Users
           /\ txn[h].ask \in Numbers /\ txn[h].row \in Numbers \union {0}
           /\ [txn[h] EXCEPT !.pc = "half"] \in Txn
  <1>1. \A t \in WriteTxn :
           /\ t.pc \in {"checked", "half"}
           /\ t.src \in Users /\ t.scope \in Scopes /\ t.dst \in Users
           /\ t.ask \in Numbers /\ t.row \in Numbers \union {0}
           /\ [t EXCEPT !.pc = "half"] \in WriteTxn
    BY DEF WriteTxn
  <1>2. WriteTxn \subseteq Txn
    BY DEF WriteTxn, Txn
  <1> QED
    BY <1>1, <1>2, TxnOf

LEMMA RespondFields ==
    ASSUME TypeOK, NEW h \in Handlers, txn[h].op = "respond"
    PROVE  txn[h].src \in Users /\ txn[h].dst \in Users /\ txn[h].answer \in Levels \union {"denied"}
  BY TxnOf DEF RespondTxn

LEMMA ApproveFields ==
    ASSUME TypeOK, NEW h \in Handlers, Approves(h)
    PROVE  /\ txn[h].src \in Users /\ txn[h].dst \in Users /\ txn[h].level \in Levels
           /\ txn[h].fresh \in BOOLEAN
           /\ \A j \in txn[h].jobs : /\ j.ask \in Numbers /\ j.scope \in Scopes
                                      /\ j.row \in Numbers \union {0}
  BY TxnOf DEF Approves, ApproveTxn, Job

(* Counters and numbers.                                                   *)
LEMMA RequestType ==
    ASSUME TypeOK, requests < MaxRequests, requests' = requests + 1
    PROVE  /\ requests' \in 0 .. MaxRequests /\ requests' \in Numbers
           /\ requests \in Nat /\ requests < requests'
  BY DelegationAssumption DEF TypeOK, Numbers

LEMMA GotoType ==
    ASSUME TypeOK, NEW h \in Handlers, NEW t \in Txn \union {Idle}, Goto(h, t)
    PROVE  txn' \in [Handlers -> Txn \union {Idle}]
  BY DEF TypeOK, Goto

(* The tables indexed by two users keep their shape under an update.       *)
LEMMA PairUpdate ==
    ASSUME NEW V, NEW f \in [Users -> [Users -> V]], NEW u \in Users, NEW d \in Users, NEW v \in V
    PROVE  [f EXCEPT ![u][d] = v] \in [Users -> [Users -> V]]
  OBVIOUS

LEMMA CountUpdate ==
    ASSUME NEW f \in [Numbers -> Nat], NEW n \in Numbers
    PROVE  [f EXCEPT ![n] = f[n] + 1] \in [Numbers -> Nat]
  OBVIOUS

(* The operations on the graph yield graphs.                               *)
LEMMA WithoutType ==
    ASSUME NEW g \in [Scopes -> SUBSET Pairs], NEW u, NEW S
    PROVE  Without(g, u, S) \in [Scopes -> SUBSET Pairs]
  <1>1. \A x \in Scopes : (IF x \in S THEN {e \in g[x] : e[1] # u} ELSE g[x]) \in SUBSET Pairs
    OBVIOUS
  <1> QED
    BY <1>1 DEF Without

LEMMA GraphTypes ==
    ASSUME NEW g \in [Scopes -> SUBSET Pairs], NEW u \in Users, NEW s \in Scopes, NEW d \in Users
    PROVE  /\ Probe(g, s, <<u, d>>) \in [Scopes -> SUBSET Pairs]
           /\ add_delegation(g, u, s, d) \in [Scopes -> SUBSET Pairs]
  <1>1. \A x \in Scopes : g[x] \in SUBSET Pairs
    OBVIOUS
  <1>2. Probe(g, s, <<u, d>>) \in [Scopes -> SUBSET Pairs]
    <2>1. \A x \in Scopes : (IF x = s \/ (x = Global /\ ~Cyclic(g, s, <<u, d>>))
                             THEN g[x] \ {<<u, d>>} ELSE g[x]) \in SUBSET Pairs
      BY <1>1
    <2> QED
      BY <2>1 DEF Probe
  <1>3. add_delegation(g, u, s, d) \in [Scopes -> SUBSET Pairs]
    <2>1. <<u, d>> \in Pairs
      BY DEF Pairs
    <2> QED
      BY <2>1, WithoutType DEF add_delegation
  <1> QED
    BY <1>2, <1>3

LEMMA RebuiltType ==
    ASSUME rows \subseteq Row
    PROVE  Rebuilt(rows) \in [Scopes -> SUBSET Pairs]
  <1>1. \A r \in Row : r.src \in Users /\ r.dst \in Users
    BY DEF Row
  <1>2. \A s \in Scopes : Edges(rows, s) \in SUBSET Pairs
    BY <1>1 DEF Edges, Pairs
  <1> QED
    BY <1>2 DEF Rebuilt

(* An intent keeps its number and its scope when its status changes.       *)
LEMMA SettledIntents ==
    ASSUME NEW I \in SUBSET Intent, NEW S \in SUBSET I,
           NEW st \in {"pending", "overdue", "activated", "cancelled", "expired"}
    PROVE  /\ Settle(I, S, st) \subseteq Intent
           /\ \A j \in Settle(I, S, st) :
                 \/ j \in I \ S
                 \/ \E i \in S : /\ j.id = i.id /\ j.src = i.src /\ j.scope = i.scope
                                 /\ j.dst = i.dst /\ j.status = st
  <1>1. \A i \in Intent : LET j == [i EXCEPT !.status = st] IN
           /\ j \in Intent
           /\ j.id = i.id /\ j.src = i.src /\ j.scope = i.scope /\ j.dst = i.dst /\ j.status = st
    BY DEF Intent
  <1>2. ASSUME NEW j \in Settle(I, S, st)
        PROVE  \/ j \in I \ S
               \/ \E i \in S : j = [i EXCEPT !.status = st]
    BY DEF Settle
  <1>3. ASSUME NEW i \in S
        PROVE  LET j == [i EXCEPT !.status = st] IN
                 /\ j \in Intent
                 /\ j.id = i.id /\ j.src = i.src /\ j.scope = i.scope
                 /\ j.dst = i.dst /\ j.status = st
    BY <1>1
  <1>4. ASSUME NEW j \in Settle(I, S, st)
        PROVE  /\ j \in Intent
               /\ \/ j \in I \ S
                  \/ \E i \in S : /\ j.id = i.id /\ j.src = i.src /\ j.scope = i.scope
                                  /\ j.dst = i.dst /\ j.status = st
    <2>1. CASE j \in I \ S
      BY <2>1
    <2>2. CASE \E i \in S : j = [i EXCEPT !.status = st]
      <3> PICK i \in S : j = [i EXCEPT !.status = st]
        BY <2>2
      <3> QED
        BY <1>3
    <2> QED
      BY <1>2, <2>1, <2>2
  <1> QED
    BY <1>4

LEMMA GrantType ==
    ASSUME TypeOK, NEW u \in Users, NEW d \in Users, NEW level \in Levels,
           NEW fresh \in BOOLEAN, Grant(u, d, level, fresh)
    PROVE  /\ freq' \in [Users -> [Users -> {"none", "pending", "approved", "denied"}]]
           /\ follow' \in [Users -> [Users -> Levels \union {"none"}]]
           /\ admitted' \subseteq Users \X Scopes \X Users
  <1>1. freq' \in [Users -> [Users -> {"none", "pending", "approved", "denied"}]]
    BY DEF TypeOK, Grant
  <1>2. follow' \in [Users -> [Users -> Levels \union {"none"}]]
    BY DEF TypeOK, Grant
  <1>3. admitted' \subseteq Users \X Scopes \X Users
    BY DEF TypeOK, Grant, Admissions
  <1> QED
    BY <1>1, <1>2, <1>3

LEMMA WrittenType ==
    ASSUME NEW t, t.src \in Users, t.dst \in Users,
           NEW j, j.ask \in Numbers, j.scope \in Scopes, j.row \in Numbers \union {0}
    PROVE  LET r == Written(t, j) IN
             /\ r \in Row
             /\ r.ask = j.ask /\ r.src = t.src /\ r.scope = j.scope /\ r.dst = t.dst
  BY DEF Written, Row

LEMMA SaveType ==
    ASSUME TypeOK, NEW h \in Handlers, txn[h].op \in {"upsert", "request"}, Save(txn[h])
    PROVE  rows' \subseteq Row /\ writes' \in [Numbers -> Nat]
  <1> DEFINE t == txn[h]
  <1>1. Written(t, t) \in Row
    BY WriteFields, WrittenType
  <1>2. rows' \subseteq Row
    BY <1>1 DEF Save, TypeOK
  <1>3. writes' \in [Numbers -> Nat]
    <2>1. t.ask \in Numbers /\ writes \in [Numbers -> Nat]
      BY WriteFields DEF TypeOK
    <2>2. writes' = [writes EXCEPT ![t.ask] = writes[t.ask] + 1]
      BY DEF Save
    <2> HIDE DEF t
    <2> QED
      BY <2>1, <2>2
  <1> QED
    BY <1>2, <1>3

(* Changes of status alone.                                                *)
LEMMA SettleType ==
    ASSUME TypeOK, NEW S \in SUBSET intents,
           NEW st \in {"pending", "overdue", "activated", "cancelled", "expired"}
    PROVE  Settle(intents, S, st) \subseteq Intent
  <1>1. intents \in SUBSET Intent
    BY DEF TypeOK
  <1> QED
    BY <1>1, SettledIntents

(* An approval takes up the pending intents of its pair, each once.        *)
LEMMA ApprovalStarted ==
    ASSUME TypeOK, IntentsDistinct, NEW h \in Handlers, NEW u \in Users, NEW d \in Users,
           NEW level \in Levels, StartApproval(h, u, d, level)
    PROVE  /\ Unlocked(u, d)
           /\ txn' \in [Handlers -> Txn \union {Idle}]
           /\ \A g \in Handlers : g # h => txn'[g] = txn[g]
           /\ Approves(h)' /\ ~ WillWrite(h)'
           /\ txn'[h].src = u /\ txn'[h].dst = d /\ txn'[h].level = level
           /\ \A j \in txn'[h].jobs :
                 /\ level = "delegation_allowed"
                 /\ \E i \in Ready(u, d) : j.ask = i.id /\ j.scope = i.scope
           /\ \A j, k \in txn'[h].jobs : j.ask = k.ask => j = k
  <1> DEFINE I == IF level = "delegation_allowed" THEN Ready(u, d) ELSE {}
             Jobs(f) == {[ask |-> i.id, scope |-> i.scope, row |-> f[i]] : i \in I}
  <1>1. PICK f \in [I -> Numbers \union {0}] :
           Goto(h, [op |-> "approve", src |-> u, dst |-> d, level |-> level,
                    fresh |-> follow[u][d] = "none", jobs |-> Jobs(f)])
    BY DEF StartApproval
  <1>2. Unlocked(u, d)
    BY DEF StartApproval
  <1>3. \A i \in I : /\ i.id \in Numbers /\ i.scope \in Scopes /\ i \in Ready(u, d)
                     /\ i \in intents /\ level = "delegation_allowed"
    BY DEF Ready, TypeOK, Intent
  <1> HIDE DEF I
  <1>4. \A j \in Jobs(f) : \E i \in I : j = [ask |-> i.id, scope |-> i.scope, row |-> f[i]]
    OBVIOUS
  <1>5. Jobs(f) \in SUBSET Job
    BY <1>3, <1>4 DEF Job
  <1>6. \A j \in Jobs(f) : /\ level = "delegation_allowed"
                           /\ \E i \in Ready(u, d) : j.ask = i.id /\ j.scope = i.scope
    BY <1>3, <1>4
  <1>7. ASSUME NEW j \in Jobs(f), NEW k \in Jobs(f), j.ask = k.ask PROVE j = k
    <2>1. PICK i \in I : j = [ask |-> i.id, scope |-> i.scope, row |-> f[i]]
      BY <1>4
    <2>2. PICK l \in I : k = [ask |-> l.id, scope |-> l.scope, row |-> f[l]]
      BY <1>4
    <2>3. i.id = l.id
      BY <1>7, <2>1, <2>2
    <2>4. i = l
      BY <1>3, <2>3 DEF IntentsDistinct
    <2> QED
      BY <2>1, <2>2, <2>4
  <1> HIDE DEF Jobs
  <1> DEFINE t == [op |-> "approve", src |-> u, dst |-> d, level |-> level,
                   fresh |-> follow[u][d] = "none", jobs |-> Jobs(f)]
  <1>8. t \in Txn
    BY <1>5 DEF Txn
  <1>9. txn' \in [Handlers -> Txn \union {Idle}]
    BY <1>1, <1>8, GotoType
  <1>10. txn'[h] = t /\ \A g \in Handlers : g # h => txn'[g] = txn[g]
    BY <1>1 DEF TypeOK, Goto
  <1>11. /\ t.op = "approve" /\ t.src = u /\ t.dst = d /\ t.level = level /\ t.jobs = Jobs(f)
    OBVIOUS
  <1> HIDE DEF t
  <1>12. Approves(h)' /\ ~ WillWrite(h)'
    BY <1>10, <1>11 DEF Approves, WillWrite
  <1> QED
    BY <1>2, <1>6, <1>7, <1>9, <1>10, <1>11, <1>12

LEMMA RememberedType ==
    ASSUME TypeOK, NEW t, t.src \in Users, t.dst \in Users, NEW J
    PROVE  Remembered(t, J) \in [Scopes -> SUBSET Pairs]
  <1>1. graph \in [Scopes -> SUBSET Pairs]
    BY DEF TypeOK
  <1>2. \A s \in Scopes : add_delegation(graph, t.src, s, t.dst) \in [Scopes -> SUBSET Pairs]
    BY <1>1, GraphTypes
  <1>3. \A s \in Scopes : add_delegation(graph, t.src, s, t.dst)[s] \in SUBSET Pairs
    BY <1>2
  <1> QED
    BY <1>1, <1>3 DEF Remembered

(* An approval writes for a number once, for its intent.                   *)
LEMMA ApprovalWrites ==
    ASSUME TypeOK, JobsDistinct, NEW h \in Handlers, Approves(h), CommitApproval(txn[h])
    PROVE  /\ writes' \in [Numbers -> Nat]
           /\ \A n \in Numbers :
                 writes'[n] = writes[n] + IF \E j \in txn[h].jobs : j.ask = n THEN 1 ELSE 0
  <1> DEFINE J(n) == {j \in txn[h].jobs : j.ask = n}
  <1>1. writes' = [n \in Numbers |-> writes[n] + Cardinality(J(n))]
    BY DEF CommitApproval
  <1>2. ASSUME NEW n \in Numbers
        PROVE  Cardinality(J(n)) = IF \E j \in txn[h].jobs : j.ask = n THEN 1 ELSE 0
    <2>1. CASE J(n) = {}
      BY <2>1, FS_EmptySet
    <2>2. CASE J(n) # {}
      <3> PICK j \in J(n) : TRUE
        BY <2>2
      <3>1. J(n) = {j}
        BY DEF JobsDistinct
      <3> QED
        BY <3>1, FS_Singleton
    <2> QED
      BY <2>1, <2>2
  <1>3. \A n \in Numbers : writes[n] \in Nat
    BY DEF TypeOK
  <1> HIDE DEF J
  <1>4. \A n \in Numbers :
           writes'[n] = writes[n] + IF \E j \in txn[h].jobs : j.ask = n THEN 1 ELSE 0
    BY <1>1, <1>2
  <1>5. \A n \in Numbers : writes[n] + Cardinality(J(n)) \in Nat
    BY <1>2, <1>3
  <1> QED
    BY <1>1, <1>4, <1>5

LEMMA ApprovalType ==
    ASSUME TypeOK, JobsDistinct, NEW h \in Handlers, FinishApproval(h)
    PROVE  TypeOK'
  <1> DEFINE t == txn[h]
  <1>1. /\ Approves(h) /\ t.src \in Users /\ t.dst \in Users /\ t.level \in Levels
        /\ t.fresh \in BOOLEAN
        /\ \A j \in t.jobs : j.ask \in Numbers /\ j.scope \in Scopes /\ j.row \in Numbers \union {0}
    BY ApproveFields DEF FinishApproval, Approves
  <1>2. txn' \in [Handlers -> Txn \union {Idle}]
    BY GotoType DEF FinishApproval
  <1>3. \A J : Remembered(t, J) \in [Scopes -> SUBSET Pairs]
    <2> HIDE DEF t
    <2> QED
      BY <1>1, RememberedType
  <1>4. CASE CommitApproval(t)
    <2>1. /\ freq' \in [Users -> [Users -> {"none", "pending", "approved", "denied"}]]
          /\ follow' \in [Users -> [Users -> Levels \union {"none"}]]
          /\ admitted' \subseteq Users \X Scopes \X Users
      <3>1. Grant(t.src, t.dst, t.level, t.fresh)
        BY <1>4 DEF CommitApproval
      <3> HIDE DEF t
      <3> QED
        BY <1>1, <3>1, GrantType
    <2>2. rows' \subseteq Row
      <3>1. \A j \in t.jobs : Written(t, j) \in Row
        <4> HIDE DEF t
        <4> QED
          BY <1>1, WrittenType
      <3>2. rows \subseteq Row
        BY DEF TypeOK
      <3>3. rows' = {r \in rows : \A j \in t.jobs : r.id # j.row}
                    \union {Written(t, j) : j \in t.jobs}
        BY <1>4 DEF CommitApproval
      <3> HIDE DEF t
      <3> QED
        BY <3>1, <3>2, <3>3
    <2>3. intents' \subseteq Intent
      <3> DEFINE S == Numbered({j.ask : j \in t.jobs})
      <3>1. S \in SUBSET intents /\ intents' = Settle(intents, S, "activated")
        BY <1>4 DEF CommitApproval, Numbered
      <3> HIDE DEF S
      <3> QED
        BY <3>1, SettleType
    <2>4. writes' \in [Numbers -> Nat]
      BY <1>1, <1>4, ApprovalWrites
    <2>5. graph' \in [Scopes -> SUBSET Pairs]
      BY <1>3, <1>4 DEF CommitApproval
    <2> QED
      BY <1>2, <2>1, <2>2, <2>3, <2>4, <2>5 DEF FinishApproval, TypeOK
  <1>5. CASE FailApproval(t)
    <2>1. graph' \in [Scopes -> SUBSET Pairs]
      BY <1>3, <1>5, Zenon DEF FailApproval
    <2> QED
      BY <1>2, <1>5, <2>1 DEF FinishApproval, FailApproval, TypeOK
  <1> QED
    BY <1>4, <1>5 DEF FinishApproval

LEMMA AnswerType ==
    ASSUME TypeOK, IntentsDistinct, NEW h \in Handlers, Answer(h)
    PROVE  TypeOK'
  <1> DEFINE t == txn[h]
  <1>1. t.src \in Users /\ t.dst \in Users /\ t.answer \in Levels \union {"denied"}
    BY RespondFields DEF Answer
  <1>2. CASE t.answer = "denied"
    <2>1. freq' \in [Users -> [Users -> {"none", "pending", "approved", "denied"}]]
      <3>1. freq \in [Users -> [Users -> {"none", "pending", "approved", "denied"}]]
            /\ freq' = [freq EXCEPT ![t.src][t.dst] = "denied"]
        BY <1>2 DEF Answer, TypeOK
      <3> HIDE DEF t
      <3> QED
        BY <1>1, <3>1, PairUpdate
    <2>2. txn' \in [Handlers -> Txn \union {Idle}]
      BY <1>2, GotoType DEF Answer
    <2> QED
      BY <2>1, <2>2 DEF Answer, TypeOK
  <1>3. CASE t.answer # "denied"
    <2>1. StartApproval(h, t.src, t.dst, t.answer) /\ t.answer \in Levels /\ freq' = freq
      BY <1>1, <1>3 DEF Answer
    <2>2. txn' \in [Handlers -> Txn \union {Idle}]
      <3> HIDE DEF t
      <3> QED
        BY <1>1, <2>1, ApprovalStarted
    <2> QED
      BY <2>1, <2>2 DEF Answer, TypeOK
  <1> QED
    BY <1>2, <1>3

LEMMA PolicyLevelType == \A d : PolicyLevel(d) \in Levels
  BY DEF PolicyLevel, Levels

LEMMA SendFollowType ==
    ASSUME TypeOK, IntentsDistinct, NEW h \in Handlers, NEW u \in Users, NEW d \in Users,
           SendFollow(h, u, d)
    PROVE  TypeOK'
  <1>1. requests' \in 0 .. MaxRequests
    BY RequestType DEF SendFollow, Request
  <1>2. CASE policy[d] = "require_approval"
    <2>1. freq' \in [Users -> [Users -> {"none", "pending", "approved", "denied"}]]
      <3>1. freq \in [Users -> [Users -> {"none", "pending", "approved", "denied"}]]
            /\ freq' = [freq EXCEPT ![u][d] = "pending"]
        BY <1>2 DEF SendFollow, TypeOK
      <3> QED
        BY <3>1, PairUpdate
    <2> QED
      BY <1>1, <1>2, <2>1 DEF SendFollow, TypeOK
  <1>3. CASE policy[d] # "require_approval"
    <2>1. StartApproval(h, u, d, PolicyLevel(d)) /\ freq' = freq
      BY <1>3 DEF SendFollow
    <2>2. txn' \in [Handlers -> Txn \union {Idle}]
      BY <2>1, PolicyLevelType, ApprovalStarted
    <2> QED
      BY <1>1, <2>1, <2>2 DEF SendFollow, TypeOK
  <1> QED
    BY <1>2, <1>3

LEMMA QueueType ==
    ASSUME TypeOK, NEW u \in Users, NEW s \in Scopes, NEW d \in Users, Queue(u, s, d)
    PROVE  TypeOK'
  <1> DEFINE new == [id |-> requests', src |-> u, scope |-> s, dst |-> d, ask |-> requests']
             ask == [id |-> requests', src |-> u, scope |-> s, dst |-> d, status |-> "pending"]
             old == {i \in intents : i.src = u /\ i.dst = d /\ i.scope = s
                                     /\ i.status = "overdue"}
             probed == Probe(graph, s, <<u, d>>)
  <1>1. requests' \in 0 .. MaxRequests /\ requests' \in Numbers
    BY RequestType DEF Queue, Request
  <1>2. /\ freq' \in [Users -> [Users -> {"none", "pending", "approved", "denied"}]]
        /\ follow' \in [Users -> [Users -> Levels \union {"none"}]]
        /\ admitted' \subseteq Users \X Scopes \X Users
    <2>1. CASE Grant(u, d, PolicyLevel(d), TRUE)
      BY <2>1, PolicyLevelType, GrantType
    <2>2. CASE freq' = [freq EXCEPT ![u][d] = "pending"] /\ UNCHANGED <<follow, admitted>>
      <3>1. freq' \in [Users -> [Users -> {"none", "pending", "approved", "denied"}]]
        BY <2>2 DEF TypeOK
      <3> QED
        BY <2>2, <3>1 DEF TypeOK
    <2> QED
      BY <2>1, <2>2 DEF Queue
  <1>3. graph \in [Scopes -> SUBSET Pairs] /\ probed \in [Scopes -> SUBSET Pairs]
        /\ add_delegation(probed, u, s, d) \in [Scopes -> SUBSET Pairs]
        /\ add_delegation(graph, u, s, d) \in [Scopes -> SUBSET Pairs]
    <2>1. graph \in [Scopes -> SUBSET Pairs]
      BY DEF TypeOK
    <2>2. probed \in [Scopes -> SUBSET Pairs]
      BY <2>1, GraphTypes
    <2> HIDE DEF probed
    <2> QED
      BY <2>1, <2>2, GraphTypes
  <1>4. /\ rows' \in {rows, rows \union {new}}
        /\ writes' \in {writes, [writes EXCEPT ![requests'] = writes[requests'] + 1]}
        /\ intents' \in {intents, Settle(intents, old, "expired") \union {ask}}
        /\ graph' \in {graph, probed, add_delegation(probed, u, s, d),
                       add_delegation(graph, u, s, d)}
    <2>1. old = {i \in {j \in intents : j.src = u /\ j.dst = d /\ j.scope = s} :
                   i.status = "overdue"}
      OBVIOUS
    <2> HIDE DEF new, ask, old, probed
    <2> QED
      BY <2>1 DEF Queue, new, ask, probed
  <1>5. rows' \subseteq Row
    <2>1. new \in Row
      BY <1>1 DEF Row
    <2> QED
      BY <1>4, <2>1 DEF TypeOK
  <1>6. intents' \subseteq Intent
    <2>1. ask \in Intent
      BY <1>1 DEF Intent
    <2>2. intents \in SUBSET Intent /\ old \in SUBSET intents
      BY DEF TypeOK
    <2>3. Settle(intents, old, "expired") \subseteq Intent
      BY <2>2, SettledIntents
    <2> QED
      BY <1>4, <2>1, <2>2, <2>3
  <1>7. writes' \in [Numbers -> Nat]
    <2>1. writes \in [Numbers -> Nat]
      BY DEF TypeOK
    <2>2. [writes EXCEPT ![requests'] = writes[requests'] + 1] \in [Numbers -> Nat]
      BY <1>1, <2>1, CountUpdate
    <2> QED
      BY <1>4, <2>1, <2>2
  <1>8. graph' \in [Scopes -> SUBSET Pairs]
    BY <1>3, <1>4
  <1> QED
    BY <1>1, <1>2, <1>5, <1>6, <1>7, <1>8 DEF Queue, TypeOK

LEMMA InitType == Init => TypeOK
  <1> SUFFICES ASSUME Init PROVE TypeOK
    OBVIOUS
  <1>1. profile \in [Users -> [Topics -> {"none", "followers_only", "public"}]]
    <2>1. [Topics -> {"none", "public"}] \subseteq [Topics -> {"none", "followers_only", "public"}]
      OBVIOUS
    <2> QED
      BY <2>1 DEF Init
  <1>2. rows \subseteq Row /\ graph \in [Scopes -> SUBSET Pairs]
    BY RebuiltType DEF Init
  <1>3. follow \in [Users -> [Users -> Levels \union {"none"}]]
        /\ freq \in [Users -> [Users -> {"none", "pending", "approved", "denied"}]]
    BY DEF Init
  <1>4. requests \in 0 .. MaxRequests /\ writes \in [Numbers -> Nat]
    BY DelegationAssumption DEF Init
  <1>5. txn \in [Handlers -> Txn \union {Idle}]
    BY DEF Init
  <1>6. admitted \subseteq Users \X Scopes \X Users
    BY DEF Init, Admissions
  <1>7. members \subseteq Users /\ policy \in [Users -> Policies] /\ intents \subseteq Intent
        /\ writable \subseteq Scopes
    BY DEF Init
  <1> QED
    BY <1>1, <1>2, <1>3, <1>4, <1>5, <1>6, <1>7 DEF TypeOK

LEMMA HandlerType ==
    ASSUME TypeOK, IntentsDistinct, JobsDistinct, NEW h \in Handlers,
           CommitUpsert(h) \/ FinishUpsert(h) \/ FlushRequest(h) \/ CommitRequest(h)
           \/ FinishRevoke(h) \/ Answer(h) \/ FinishApproval(h) \/ FinishWithdrawal(h)
    PROVE  TypeOK'
  <1> DEFINE t == txn[h]
  <1>1. CASE CommitUpsert(h)
    <2>1. t.op = "upsert"
      BY <1>1 DEF CommitUpsert
    <2>2. CASE Save(t) /\ Goto(h, [t EXCEPT !.pc = "half"])
      <3>1. rows' \subseteq Row /\ writes' \in [Numbers -> Nat]
        BY <2>1, <2>2, SaveType
      <3>2. txn' \in [Handlers -> Txn \union {Idle}]
        BY <2>1, <2>2, WriteFields, GotoType
      <3> QED
        BY <1>1, <3>1, <3>2 DEF CommitUpsert, TypeOK
    <2>3. CASE Goto(h, Idle) /\ UNCHANGED <<rows, writes>>
      <3>1. txn' \in [Handlers -> Txn \union {Idle}]
        BY <2>3, GotoType
      <3> QED
        BY <1>1, <2>3, <3>1 DEF CommitUpsert, TypeOK
    <2> QED
      BY <1>1, <2>2, <2>3 DEF CommitUpsert
  <1>2. CASE FinishUpsert(h)
    <2>1. t.op = "upsert" /\ Remember(t) /\ Goto(h, Idle)
      BY <1>2 DEF FinishUpsert
    <2>2. graph' \in [Scopes -> SUBSET Pairs]
      BY <2>1, WriteFields, GraphTypes DEF Remember, TypeOK
    <2>3. txn' \in [Handlers -> Txn \union {Idle}]
      BY <2>1, GotoType
    <2> QED
      BY <1>2, <2>2, <2>3 DEF FinishUpsert, TypeOK, dbVars
  <1>3. CASE FlushRequest(h)
    <2>1. t.op = "request"
      BY <1>3 DEF FlushRequest
    <2>2. graph' \in [Scopes -> SUBSET Pairs]
      <3>1. CASE Remember(t)
        BY <2>1, <3>1, WriteFields, GraphTypes DEF Remember, TypeOK
      <3>2. CASE UNCHANGED graph
        BY <3>2 DEF TypeOK
      <3> QED
        BY <1>3, <3>1, <3>2 DEF FlushRequest
    <2>3. txn' \in [Handlers -> Txn \union {Idle}]
      <3>1. CASE Goto(h, [t EXCEPT !.pc = "half"])
        BY <2>1, <3>1, WriteFields, GotoType
      <3>2. CASE Goto(h, Idle)
        BY <3>2, GotoType
      <3> QED
        BY <1>3, <3>1, <3>2 DEF FlushRequest
    <2> QED
      BY <1>3, <2>2, <2>3 DEF FlushRequest, TypeOK, dbVars
  <1>4. CASE CommitRequest(h)
    <2>1. rows' \subseteq Row /\ writes' \in [Numbers -> Nat]
      BY <1>4, SaveType DEF CommitRequest
    <2>2. txn' \in [Handlers -> Txn \union {Idle}]
      BY <1>4, GotoType DEF CommitRequest
    <2> QED
      BY <1>4, <2>1, <2>2 DEF CommitRequest, TypeOK
  <1>5. CASE FinishRevoke(h)
    <2>1. t.src \in Users
      BY <1>5, TxnOf DEF FinishRevoke, RevokeTxn
    <2>2. graph' \in [Scopes -> SUBSET Pairs]
      <3>1. graph \in [Scopes -> SUBSET Pairs]
        BY DEF TypeOK
      <3>2. Without(graph, t.src, {t.scope}) \in [Scopes -> SUBSET Pairs]
        <4> HIDE DEF t
        <4> QED
          BY <2>1, <3>1, WithoutType
      <3> QED
        BY <1>5, <3>2 DEF FinishRevoke
    <2>3. txn' \in [Handlers -> Txn \union {Idle}]
      BY <1>5, GotoType DEF FinishRevoke
    <2> QED
      BY <1>5, <2>2, <2>3 DEF FinishRevoke, TypeOK, dbVars
  <1>6. CASE FinishWithdrawal(h)
    <2>1. intents' \subseteq Intent
      <3>1. CASE intents' = intents
        BY <3>1 DEF TypeOK
      <3>2. CASE intents' = Settle(intents, Numbered(t.ids),
                                   IF t.op = "cancel" THEN "cancelled" ELSE "expired")
        <4>1. Numbered(t.ids) \in SUBSET intents
          BY DEF Numbered
        <4> QED
          BY <3>2, <4>1, SettleType
      <3> QED
        BY <1>6, <3>1, <3>2 DEF FinishWithdrawal
    <2>2. txn' \in [Handlers -> Txn \union {Idle}]
      BY <1>6, GotoType DEF FinishWithdrawal
    <2> QED
      BY <1>6, <2>1, <2>2 DEF FinishWithdrawal, TypeOK
  <1> QED
    BY <1>1, <1>2, <1>3, <1>4, <1>5, <1>6, AnswerType, ApprovalType

LEMMA BeginningType ==
    ASSUME TypeOK, NEW h \in Handlers, NEW u \in Users, NEW s \in Scopes, NEW d \in Users
    PROVE  /\ Begin(h, "upsert", u, s, d) \/ Begin(h, "request", u, s, d) => TypeOK'
           /\ Revoke(h, u, s) => TypeOK'
           /\ \A a \in Levels \union {"denied"} : BeginRespond(h, u, d, a) => TypeOK'
           /\ \A i \in intents : BeginCancel(h, i) => TypeOK'
           /\ BeginList(h, u) => TypeOK'
  <1>1. ASSUME NEW op \in {"upsert", "request"}, Begin(h, op, u, s, d) PROVE TypeOK'
    <2>1. requests' \in 0 .. MaxRequests /\ requests' \in Numbers
      BY <1>1, RequestType DEF Begin, Request
    <2>2. graph' \in [Scopes -> SUBSET Pairs]
      BY <1>1, GraphTypes DEF Begin, TypeOK
    <2>3. txn' \in [Handlers -> Txn \union {Idle}]
      <3>1. CASE UNCHANGED txn
        BY <3>1 DEF TypeOK
      <3>2. ASSUME NEW n \in RowNumbers(u, s),
                   Goto(h, [op |-> op, pc |-> "checked", src |-> u, scope |-> s, dst |-> d,
                            ask |-> requests', row |-> n])
            PROVE  txn' \in [Handlers -> Txn \union {Idle}]
        <4>1. n \in Numbers \union {0}
          BY DEF RowNumbers, Existing, TypeOK, Row
        <4>2. [op |-> op, pc |-> "checked", src |-> u, scope |-> s, dst |-> d,
               ask |-> requests', row |-> n] \in Txn
          BY <2>1, <4>1 DEF Txn
        <4> QED
          BY <3>2, <4>2, GotoType
      <3> QED
        BY <1>1, <3>1, <3>2 DEF Begin
    <2> QED
      BY <1>1, <2>1, <2>2, <2>3 DEF Begin, TypeOK, dbVars
  <1>2. ASSUME Revoke(h, u, s) PROVE TypeOK'
    <2>1. requests' \in 0 .. MaxRequests
      BY <1>2, RequestType DEF Revoke, Request
    <2>2. [op |-> "revoke", src |-> u, scope |-> s] \in Txn
      BY DEF Txn
    <2>3. txn' \in [Handlers -> Txn \union {Idle}]
      BY <1>2, <2>2, GotoType DEF Revoke
    <2> QED
      BY <1>2, <2>1, <2>3 DEF Revoke, TypeOK
  <1>3. ASSUME NEW a \in Levels \union {"denied"}, BeginRespond(h, u, d, a) PROVE TypeOK'
    <2>1. requests' \in 0 .. MaxRequests
      BY <1>3, RequestType DEF BeginRespond, Request
    <2>2. [op |-> "respond", src |-> u, dst |-> d, answer |-> a] \in Txn
      BY DEF Txn
    <2>3. txn' \in [Handlers -> Txn \union {Idle}]
      BY <1>3, <2>2, GotoType DEF BeginRespond
    <2> QED
      BY <1>3, <2>1, <2>3 DEF BeginRespond, TypeOK, dbVars
  <1>4. ASSUME NEW i \in intents, BeginCancel(h, i) PROVE TypeOK'
    <2>1. requests' \in 0 .. MaxRequests
      BY <1>4, RequestType DEF BeginCancel, Request
    <2>2. i.id \in Numbers
      BY DEF TypeOK, Intent
    <2>3. [op |-> "cancel", ids |-> {i.id}] \in Txn
      BY <2>2 DEF Txn
    <2>4. txn' \in [Handlers -> Txn \union {Idle}]
      BY <1>4, <2>3, GotoType DEF BeginCancel
    <2> QED
      BY <1>4, <2>1, <2>4 DEF BeginCancel, TypeOK, dbVars
  <1>5. ASSUME BeginList(h, u) PROVE TypeOK'
    <2> DEFINE late == {i \in intents : i.src = u /\ i.status = "overdue"}
    <2>1. requests' \in 0 .. MaxRequests
      BY <1>5, RequestType DEF BeginList, Request
    <2>2. {i.id : i \in late} \in SUBSET Numbers
      BY DEF TypeOK, Intent
    <2>3. [op |-> "list", ids |-> {i.id : i \in late}] \in Txn
      BY <2>2 DEF Txn
    <2>4. txn' \in [Handlers -> Txn \union {Idle}]
      BY <1>5, <2>3, GotoType DEF BeginList
    <2> QED
      BY <1>5, <2>1, <2>4 DEF BeginList, TypeOK, dbVars
  <1> QED
    BY <1>1, <1>2, <1>3, <1>4, <1>5

LEMMA WithdrawalType ==
    ASSUME TypeOK, NEW u \in Users, NEW d \in Users
    PROVE  /\ \A l \in Levels : UpdatePermission(u, d, l) => TypeOK'
           /\ \A who \in {u, d} : RevokeFollow(u, d, who) => TypeOK'
           /\ \A t \in Topics : HardRevert(d, t) => TypeOK'
           /\ Leave(u) => TypeOK'
  <1> DEFINE FollowType == [Users -> [Users -> Levels \union {"none"}]]
  <1>1. ASSUME NEW l \in Levels, UpdatePermission(u, d, l) PROVE TypeOK'
    <2>1. requests' \in 0 .. MaxRequests
      BY <1>1, RequestType DEF UpdatePermission, Request
    <2>2. follow' \in FollowType
      <3>1. follow \in FollowType /\ follow' = [follow EXCEPT ![u][d] = l]
        BY <1>1 DEF UpdatePermission, TypeOK
      <3> QED
        BY <3>1, PairUpdate
    <2>3. admitted' \subseteq Users \X Scopes \X Users
      BY <1>1 DEF UpdatePermission, Permit, Admissions, TypeOK
    <2> QED
      BY <1>1, <2>1, <2>2, <2>3 DEF UpdatePermission, TypeOK
  <1>2. ASSUME NEW who \in {u, d}, RevokeFollow(u, d, who) PROVE TypeOK'
    <2>1. requests' \in 0 .. MaxRequests
      BY <1>2, RequestType DEF RevokeFollow, Request
    <2>2. follow' \in FollowType
      <3>1. follow \in FollowType /\ follow' = [follow EXCEPT ![u][d] = "none"]
        BY <1>2 DEF RevokeFollow, TypeOK
      <3> QED
        BY <3>1, PairUpdate
    <2>3. graph' \in [Scopes -> SUBSET Pairs] /\ rows' \subseteq Row
      BY <1>2, WithoutType DEF RevokeFollow, TypeOK
    <2> QED
      BY <1>2, <2>1, <2>2, <2>3 DEF RevokeFollow, TypeOK
  <1>3. ASSUME NEW t \in Topics, HardRevert(d, t) PROVE TypeOK'
    <2>1. requests' \in 0 .. MaxRequests
      BY <1>3, RequestType DEF HardRevert, Request
    <2>2. profile' \in [Users -> [Topics -> {"none", "followers_only", "public"}]]
      BY <1>3 DEF HardRevert, TypeOK
    <2>3. graph' \in [Scopes -> SUBSET Pairs]
      BY <1>3 DEF HardRevert, TypeOK
    <2>4. rows' \subseteq Row
      BY <1>3 DEF HardRevert, TypeOK
    <2> QED
      BY <1>3, <2>1, <2>2, <2>3, <2>4 DEF HardRevert, TypeOK
  <1>4. ASSUME Leave(u) PROVE TypeOK'
    <2>1. requests' \in 0 .. MaxRequests
      BY <1>4, RequestType DEF Leave, Request
    <2> QED
      BY <1>4, <2>1 DEF Leave, TypeOK
  <1> QED
    BY <1>1, <1>2, <1>3, <1>4

LEMMA NextType == TypeOK /\ IntentsDistinct /\ JobsDistinct /\ [Next]_vars => TypeOK'
  <1> SUFFICES ASSUME TypeOK, IntentsDistinct, JobsDistinct, [Next]_vars PROVE TypeOK'
    OBVIOUS
  <1>1. ASSUME NEW h \in Handlers,
               \/ \E u, d \in Users, s \in Scopes :
                     Begin(h, "upsert", u, s, d) \/ Begin(h, "request", u, s, d)
               \/ \E u \in Users, s \in Scopes : Revoke(h, u, s)
               \/ \E u, d \in Users, a \in Levels \union {"denied"} : BeginRespond(h, u, d, a)
               \/ \E i \in intents : BeginCancel(h, i)
               \/ \E u \in Users : BeginList(h, u)
        PROVE  TypeOK'
    <2>1. \A i \in intents : i.src \in Users
      BY DEF TypeOK, Intent
    <2>2. \A u \in Users : \E s \in Scopes : s = Global
      BY DEF Scopes
    <2> QED
      BY <1>1, <2>1, <2>2, BeginningType
  <1>2. CASE \E i \in intents : Overdue(i)
    <2> PICK i \in intents : Overdue(i)
      BY <1>2
    <2>1. intents' \subseteq Intent
      BY SettleType DEF Overdue
    <2> QED
      BY <2>1 DEF Overdue, TypeOK
  <1>3. CASE \E S \in {Scopes, {Global}, {}} : Switch(S)
    <2> PICK S \in {Scopes, {Global}, {}} : Switch(S)
      BY <1>3
    <2>1. requests' \in 0 .. MaxRequests
      BY RequestType DEF Switch
    <2>2. writable' \subseteq Scopes
      BY DEF Switch, Scopes
    <2> QED
      BY <2>1, <2>2 DEF Switch, TypeOK
  <1>4. CASE Restart
    <2>1. graph' \in [Scopes -> SUBSET Pairs] /\ txn' \in [Handlers -> Txn \union {Idle}]
      BY <1>4, RebuiltType DEF Restart, TypeOK
    <2> QED
      BY <1>4, <2>1 DEF Restart, TypeOK, dbVars
  <1>5. CASE UNCHANGED vars
    BY <1>5 DEF vars, dbVars, TypeOK
  <1> QED
    BY <1>1, <1>2, <1>3, <1>4, <1>5, HandlerType, QueueType, SendFollowType, WithdrawalType
       DEF Next

-----------------------------------------------------------------------------
(* Consent.                                                                *)

(* A handler goes on with what it was doing, or stops.                     *)
SameAsk(h) ==
    /\ WillWrite(h)
    /\ txn'[h].ask = txn[h].ask
    /\ txn'[h].src = txn[h].src /\ txn'[h].scope = txn[h].scope /\ txn'[h].dst = txn[h].dst

Kept(h) ==
    /\ WillWrite(h)' => SameAsk(h)
    /\ Approves(h)' => Approves(h) /\ txn'[h] = txn[h]

(* An intent is closed when it can never be pending again.  A settled      *)
(* intent is what it was, but for a status that is not pending again.      *)
Closed(i) == i.status \notin {"pending", "overdue"}

Settled(j, i) ==
    /\ j.id = i.id /\ j.src = i.src /\ j.scope = i.scope /\ j.dst = i.dst
    /\ j.status = "pending" => i.status = "pending"
    /\ Closed(i) => Closed(j)

LEMMA AskIsNumber ==
    ASSUME TypeOK, NEW h \in Handlers, WillWrite(h)
    PROVE  txn[h].ask \in Numbers /\ txn[h].src \in Users /\ txn[h].scope \in Scopes
           /\ txn[h].dst \in Users
  BY WriteFields DEF WillWrite

(* What was issued before is still issued after the counter has moved.     *)
LEMMA IssuedLater ==
    ASSUME TypeOK, ConsentInv, requests' \in Nat, requests <= requests'
    PROVE  /\ requests \in Nat
           /\ \A n \in Numbers : n \in Nat /\ writes[n] \in Nat
                                 /\ (writes[n] > 0 => n <= requests /\ n <= requests')
           /\ \A r \in rows : r.ask \in Numbers /\ r.ask <= requests /\ r.ask <= requests'
           /\ \A i \in intents : i.id \in Numbers /\ i.id <= requests /\ i.id <= requests'
           /\ \A h \in Handlers, n \in Numbers : Claims(h, n) => n <= requests /\ n <= requests'
  <1>1. requests \in Nat /\ \A n \in Numbers : n \in Nat /\ writes[n] \in Nat
    BY DEF TypeOK, Numbers
  <1>2. \A n \in Numbers : n <= requests => n <= requests'
    BY <1>1
  <1>3. \A r \in rows : r.ask \in Numbers /\ r.ask <= requests
    BY DEF TypeOK, Row, ConsentInv, RowsIssued
  <1>4. \A i \in intents : i.id \in Numbers /\ i.id <= requests
    BY DEF TypeOK, Intent, ConsentInv, IntentsIssued
  <1> QED
    BY <1>1, <1>2, <1>3, <1>4 DEF ConsentInv, WritesIssued, ClaimsIssued

(* Handlers that go on, or stop, keep their part of the invariant when     *)
(* nothing is written that they are going to write.                        *)
LEMMA ClaimsKept ==
    ASSUME TypeOK, ConsentInv, requests' \in Nat, requests <= requests',
           admitted \subseteq admitted', \A h \in Handlers : Kept(h),
           \A j \in intents' : j.id \notin 1 .. requests \/ \E i \in intents : Settled(j, i),
           \A h \in Handlers, n \in Numbers : Claims(h, n)' => writes'[n] = writes[n]
    PROVE  /\ ClaimsIssued' /\ ClaimsUnwritten' /\ ClaimsDistinct'
           /\ AsksDirect' /\ JobsDistinct' /\ JobsMatch'
  <1>1. \A h \in Handlers, n \in Numbers : Claims(h, n)' => Claims(h, n)
    BY DEF Claims, Kept, SameAsk
  <1>2. ClaimsIssued'
    BY <1>1, IssuedLater DEF ClaimsIssued
  <1>3. ClaimsUnwritten'
    BY <1>1 DEF ConsentInv, ClaimsUnwritten
  <1>4. ClaimsDistinct'
    BY <1>1 DEF ConsentInv, ClaimsDistinct
  <1>5. AsksDirect'
    <2> SUFFICES ASSUME NEW h \in Handlers, WillWrite(h)'
                 PROVE  /\ \A j \in intents' : j.id # txn'[h].ask
                        /\ <<txn'[h].src, txn'[h].scope, txn'[h].dst>> \in admitted'
      BY DEF AsksDirect
    <2>1. WillWrite(h) /\ txn'[h].ask = txn[h].ask
          /\ txn'[h].src = txn[h].src /\ txn'[h].scope = txn[h].scope /\ txn'[h].dst = txn[h].dst
      BY DEF Kept, SameAsk
    <2>2. txn[h].ask \in 1 .. requests
      <3>1. txn[h].ask \in Numbers /\ Claims(h, txn[h].ask)
        BY <2>1, AskIsNumber DEF Claims
      <3>2. txn[h].ask <= requests
        BY <3>1, IssuedLater
      <3> QED
        BY <3>1, <3>2 DEF Numbers, TypeOK
    <2>3. /\ \A i \in intents : i.id # txn[h].ask
          /\ <<txn[h].src, txn[h].scope, txn[h].dst>> \in admitted
      BY <2>1 DEF ConsentInv, AsksDirect
    <2>4. \A j \in intents' : j.id # txn[h].ask
      BY <2>2, <2>3 DEF Settled
    <2> QED
      BY <2>1, <2>3, <2>4
  <1>6. JobsDistinct'
    BY DEF ConsentInv, JobsDistinct, Kept
  <1>7. JobsMatch'
    <2> SUFFICES ASSUME NEW h \in Handlers, Approves(h)', NEW k \in txn'[h].jobs
                 PROVE  /\ txn'[h].level = "delegation_allowed"
                        /\ \A j \in intents' : j.id = k.ask =>
                              j.src = txn'[h].src /\ j.scope = k.scope /\ j.dst = txn'[h].dst
      BY DEF JobsMatch
    <2>1. Approves(h) /\ txn'[h] = txn[h]
      BY DEF Kept
    <2>2. k.ask \in 1 .. requests
      <3>1. k.ask \in Numbers /\ Claims(h, k.ask)
        BY <2>1, ApproveFields DEF Claims
      <3>2. k.ask <= requests
        BY <3>1, IssuedLater
      <3> QED
        BY <3>1, <3>2 DEF Numbers, TypeOK
    <2>3. /\ txn[h].level = "delegation_allowed"
          /\ \A i \in intents : i.id = k.ask =>
                i.src = txn[h].src /\ i.scope = k.scope /\ i.dst = txn[h].dst
      BY <2>1 DEF ConsentInv, JobsMatch
    <2>4. ASSUME NEW j \in intents', j.id = k.ask
          PROVE  j.src = txn[h].src /\ j.scope = k.scope /\ j.dst = txn[h].dst
      <3>1. PICK i \in intents : Settled(j, i)
        BY <2>2, <2>4
      <3> QED
        BY <2>3, <2>4, <3>1 DEF Settled
    <2> QED
      BY <2>1, <2>3, <2>4
  <1> QED
    BY <1>2, <1>3, <1>4, <1>5, <1>6, <1>7

(* A row that stays keeps both consents when intents are settled.          *)
LEMMA RowConsents ==
    ASSUME TwoConsents, admitted \subseteq admitted', NEW r \in rows,
           \A j \in intents' : j.id # r.ask \/ \E i \in intents : Settled(j, i)
    PROVE  /\ <<r.src, r.scope, r.dst>> \in admitted'
           /\ \A j \in intents' : j.id = r.ask =>
                 <<j.src, j.scope, j.dst>> = <<r.src, r.scope, r.dst>> /\ Closed(j)
  <1>1. /\ <<r.src, r.scope, r.dst>> \in admitted
        /\ \A i \in intents : i.id = r.ask =>
              <<i.src, i.scope, i.dst>> = <<r.src, r.scope, r.dst>> /\ Closed(i)
    BY DEF TwoConsents, Closed
  <1>2. ASSUME NEW j \in intents', j.id = r.ask
        PROVE  <<j.src, j.scope, j.dst>> = <<r.src, r.scope, r.dst>> /\ Closed(j)
    <2>1. PICK i \in intents : Settled(j, i)
      BY <1>2
    <2> QED
      BY <1>1, <1>2, <2>1 DEF Settled
  <1> QED
    BY <1>1, <1>2

(* A step that writes nothing on anybody's account: rows may go, intents   *)
(* may be settled, requests may end.                                       *)
LEMMA NothingWritten ==
    ASSUME TypeOK, ConsentInv, requests' \in Nat,
           rows' \subseteq rows, writes' = writes,
           requests <= requests', admitted \subseteq admitted', PermittedNow',
           \A j \in intents' : \E i \in intents : Settled(j, i),
           IntentsDistinct',
           \A h \in Handlers : Kept(h)
    PROVE  ConsentInv'
  <1>1. RowsIssued' /\ WritesIssued'
    BY IssuedLater DEF RowsIssued, WritesIssued
  <1>2. IntentsIssued'
    BY IssuedLater DEF IntentsIssued, Settled
  <1>3. PendingUnwritten'
    <2> SUFFICES ASSUME NEW j \in intents', j.status = "pending" PROVE writes'[j.id] = 0
      BY DEF PendingUnwritten
    <2>1. PICK i \in intents : Settled(j, i)
      OBVIOUS
    <2> QED
      BY <2>1 DEF Settled, ConsentInv, PendingUnwritten
  <1>4. /\ ClaimsIssued' /\ ClaimsUnwritten' /\ ClaimsDistinct'
        /\ AsksDirect' /\ JobsDistinct' /\ JobsMatch'
    BY ClaimsKept
  <1>5. TwoConsents'
    <2>1. \A r \in rows' : /\ <<r.src, r.scope, r.dst>> \in admitted'
                           /\ \A j \in intents' : j.id = r.ask =>
                                 /\ <<j.src, j.scope, j.dst>> = <<r.src, r.scope, r.dst>>
                                 /\ Closed(j)
      BY RowConsents DEF ConsentInv
    <2> QED
      BY <2>1 DEF TwoConsents, Closed
  <1>6. AskedOnce'
    BY DEF ConsentInv, AskedOnce
  <1> QED
    BY <1>1, <1>2, <1>3, <1>4, <1>5, <1>6 DEF ConsentInv

(* A step that writes one row, on account of a number not used before.     *)
LEMMA OneWritten ==
    ASSUME TypeOK, ConsentInv, requests' \in Nat, requests <= requests',
           NEW n \in Numbers, n <= requests', writes[n] = 0, \A i \in intents : i.id # n,
           NEW new \in Row, new.ask = n, <<new.src, new.scope, new.dst>> \in admitted',
           rows' \subseteq rows \union {new},
           writes' = [writes EXCEPT ![n] = writes[n] + 1],
           intents' = intents, admitted \subseteq admitted', PermittedNow',
           \A h \in Handlers : Kept(h) /\ ~ Claims(h, n)'
    PROVE  ConsentInv'
  <1>1. \A k \in Numbers : writes'[k] = IF k = n THEN 1 ELSE writes[k]
    BY DEF TypeOK
  <1>2. RowsIssued'
    BY IssuedLater DEF RowsIssued
  <1>3. WritesIssued'
    <2> SUFFICES ASSUME NEW k \in Numbers, writes'[k] > 0 PROVE k <= requests'
      BY DEF WritesIssued
    <2> QED
      BY <1>1, IssuedLater
  <1>4. IntentsIssued' /\ IntentsDistinct'
    BY IssuedLater DEF IntentsIssued, ConsentInv, IntentsDistinct
  <1>5. PendingUnwritten'
    <2> SUFFICES ASSUME NEW j \in intents, j.status = "pending" PROVE writes'[j.id] = 0
      BY DEF PendingUnwritten
    <2>1. j.id \in Numbers /\ j.id # n /\ writes[j.id] = 0
      BY DEF TypeOK, Intent, ConsentInv, PendingUnwritten
    <2> QED
      BY <1>1, <2>1
  <1>6. /\ ClaimsIssued' /\ ClaimsUnwritten' /\ ClaimsDistinct'
        /\ AsksDirect' /\ JobsDistinct' /\ JobsMatch'
    <2>1. \A j \in intents' : Settled(j, j)
      BY DEF Settled
    <2>2. \A h \in Handlers, k \in Numbers : Claims(h, k)' => writes'[k] = writes[k]
      BY <1>1
    <2> QED
      BY <2>1, <2>2, ClaimsKept
  <1>7. TwoConsents'
    BY DEF ConsentInv, TwoConsents
  <1>8. AskedOnce'
    BY <1>1 DEF ConsentInv, AskedOnce
  <1> QED
    BY <1>2, <1>3, <1>4, <1>5, <1>6, <1>7, <1>8 DEF ConsentInv

(* What settling does to the intents, one by one: an approval and a        *)
(* withdrawal close them whatever they are by then.                        *)
LEMMA SettlingSettles ==
    ASSUME TypeOK, IntentsDistinct, NEW S \in SUBSET intents,
           NEW st \in {"overdue", "activated", "cancelled", "expired"},
           st = "overdue" => \A i \in S : i.status = "pending"
    PROVE  LET J == Settle(intents, S, st) IN
             /\ \A j \in J : \E i \in intents :
                   Settled(j, i) /\ IF i \in S THEN j.status = st ELSE j = i
             /\ \A j, k \in J : j.id = k.id => j = k
  <1> DEFINE J == Settle(intents, S, st)
  <1>1. \A i \in Intent : LET j == [i EXCEPT !.status = st] IN
           j.id = i.id /\ j.src = i.src /\ j.scope = i.scope /\ j.dst = i.dst /\ j.status = st
    BY DEF Intent
  <1>2. intents \subseteq Intent
    BY DEF TypeOK
  <1>3. \A j \in J : \E i \in intents :
           /\ j.id = i.id
           /\ IF i \in S THEN j = [i EXCEPT !.status = st] ELSE j = i
    <2> SUFFICES ASSUME NEW j \in J
                 PROVE  \E i \in intents :
                           /\ j.id = i.id
                           /\ IF i \in S THEN j = [i EXCEPT !.status = st] ELSE j = i
      OBVIOUS
    <2>1. j \in intents \ S \/ \E i \in S : j = [i EXCEPT !.status = st]
      BY DEF Settle
    <2>2. CASE j \in intents \ S
      BY <2>2
    <2>3. CASE \E i \in S : j = [i EXCEPT !.status = st]
      BY <1>1, <1>2, <2>3
    <2> QED
      BY <2>1, <2>2, <2>3
  <1> HIDE DEF J
  <1>4. ASSUME NEW j \in J
        PROVE  \E i \in intents : Settled(j, i) /\ IF i \in S THEN j.status = st ELSE j = i
    <2>1. PICK i \in intents : /\ j.id = i.id
                               /\ IF i \in S THEN j = [i EXCEPT !.status = st] ELSE j = i
      BY <1>3
    <2>2. CASE i \in S
      <3>1. j.id = i.id /\ j.src = i.src /\ j.scope = i.scope /\ j.dst = i.dst /\ j.status = st
        BY <1>1, <1>2, <2>1, <2>2
      <3>2. Settled(j, i)
        BY <2>2, <3>1 DEF Settled, Closed
      <3> QED
        BY <2>2, <3>1, <3>2
    <2>3. CASE i \notin S
      BY <2>1, <2>3 DEF Settled
    <2> QED
      BY <2>2, <2>3
  <1>5. ASSUME NEW j \in J, NEW k \in J, j.id = k.id PROVE j = k
    <2>1. PICK i \in intents : /\ j.id = i.id
                               /\ IF i \in S THEN j = [i EXCEPT !.status = st] ELSE j = i
      BY <1>3
    <2>2. PICK l \in intents : /\ k.id = l.id
                               /\ IF l \in S THEN k = [l EXCEPT !.status = st] ELSE k = l
      BY <1>3
    <2>3. i = l
      BY <1>5, <2>1, <2>2 DEF IntentsDistinct
    <2> QED
      BY <2>1, <2>2, <2>3
  <1> QED
    BY <1>4, <1>5 DEF J

(* The grant of a follow permits what the tables then permit.              *)
LEMMA GrantPermits ==
    ASSUME TypeOK, PermittedNow, NEW u \in Users, NEW d \in Users, NEW level \in Levels,
           NEW fresh \in BOOLEAN, Grant(u, d, level, fresh), UNCHANGED profile
    PROVE  /\ admitted \subseteq admitted' /\ PermittedNow'
           /\ level = "delegation_allowed" => \A s \in Scopes : <<u, s, d>> \in admitted'
  <1> DEFINE asked == [follow EXCEPT ![u][d] = level]
  <1>1. admitted' = admitted \union Admissions(asked, profile)
    BY DEF Grant
  <1>2. asked[u][d] = level
    BY DEF TypeOK
  <1>3. \A a, b \in Users : follow'[a][b] \in {follow[a][b], asked[a][b]}
    BY DEF Grant
  <1> HIDE DEF asked
  <1>4. PermittedNow'
    <2> SUFFICES ASSUME NEW a \in Admissions(follow', profile) PROVE a \in admitted'
      BY DEF PermittedNow
    <2>1. a \in Users \X Scopes \X Users /\ CanDelegate(follow', profile, a[1], a[3], a[2])
      BY DEF Admissions
    <2>2. a[1] \in Users /\ a[3] \in Users
      BY <2>1
    <2>3. \/ CanDelegate(follow, profile, a[1], a[3], a[2])
          \/ CanDelegate(asked, profile, a[1], a[3], a[2])
      BY <1>3, <2>1, <2>2 DEF CanDelegate
    <2>4. a \in Admissions(follow, profile) \/ a \in Admissions(asked, profile)
      BY <2>1, <2>3 DEF Admissions
    <2> QED
      BY <1>1, <2>4 DEF PermittedNow
  <1>5. ASSUME level = "delegation_allowed", NEW s \in Scopes PROVE <<u, s, d>> \in admitted'
    <2>1. CanDelegate(asked, profile, u, d, s)
      BY <1>2, <1>5 DEF CanDelegate
    <2>2. <<u, s, d>> \in Admissions(asked, profile)
      BY <2>1 DEF Admissions
    <2> QED
      BY <1>1, <2>2
  <1> QED
    BY <1>1, <1>4, <1>5

LEMMA Quiet ==
    ASSUME TypeOK, ConsentInv, requests' \in Nat, requests <= requests',
           rows' \subseteq rows, intents' \subseteq intents, writes' = writes,
           admitted \subseteq admitted', PermittedNow',
           \A h \in Handlers : Kept(h)
    PROVE  ConsentInv'
  <1>1. \A j \in intents' : Settled(j, j)
    BY DEF Settled
  <1>2. IntentsDistinct'
    BY DEF ConsentInv, IntentsDistinct
  <1> QED
    BY <1>1, <1>2, NothingWritten

LEMMA Counted ==
    ASSUME TypeOK, requests' = requests \/ (requests < MaxRequests /\ requests' = requests + 1)
    PROVE  requests' \in Nat /\ requests <= requests'
  BY DelegationAssumption DEF TypeOK

LEMMA TxnKept == UNCHANGED txn => \A h \in Handlers : Kept(h)
  BY DEF WillWrite, Approves, SameAsk, Kept

(* A handler that stops, or goes on with something that writes no          *)
(* delegation.                                                             *)
LEMMA HandlerLeaves ==
    ASSUME TypeOK, NEW h \in Handlers, NEW t, Goto(h, t),
           \/ t.op \notin {"upsert", "request", "approve"}
           \/ t.op = "upsert" /\ t.pc = "half"
    PROVE  /\ \A g \in Handlers : Kept(g) /\ (g # h => txn'[g] = txn[g])
           /\ ~ WillWrite(h)' /\ ~ Approves(h)'
  <1>1. txn'[h] = t /\ \A g \in Handlers : g # h => txn'[g] = txn[g]
    BY DEF TypeOK, Goto
  <1>2. ~ WillWrite(h)' /\ ~ Approves(h)'
    BY <1>1 DEF WillWrite, Approves
  <1> QED
    BY <1>1, <1>2 DEF WillWrite, SameAsk, Approves, Kept

LEMMA HandlerIdles ==
    ASSUME TypeOK, NEW h \in Handlers, Goto(h, Idle)
    PROVE  /\ \A g \in Handlers : Kept(g) /\ (g # h => txn'[g] = txn[g])
           /\ ~ WillWrite(h)' /\ ~ Approves(h)'
  <1>1. Idle.op \notin {"upsert", "request", "approve"}
    BY DEF Idle
  <1> QED
    BY <1>1, HandlerLeaves

(* A handler that takes up something to write: it was issued, is not       *)
(* written yet, and no other handler is going to write it.                 *)
LEMMA ClaimsTaken ==
    ASSUME TypeOK, ConsentInv, requests' \in Nat, requests <= requests',
           UNCHANGED <<rows, intents, writes, admitted, follow, profile>>,
           NEW h \in Handlers, \A g \in Handlers : g # h => txn'[g] = txn[g],
           \A n \in Numbers : Claims(h, n)' =>
              n <= requests' /\ writes[n] = 0 /\ \A g \in Handlers : g # h => ~ Claims(g, n),
           WillWrite(h)' =>
              /\ \A i \in intents : i.id # txn'[h].ask
              /\ <<txn'[h].src, txn'[h].scope, txn'[h].dst>> \in admitted,
           Approves(h)' => \A j \in txn'[h].jobs :
              /\ \A k \in txn'[h].jobs : j.ask = k.ask => j = k
              /\ txn'[h].level = "delegation_allowed"
              /\ \A i \in intents : i.id = j.ask =>
                    i.src = txn'[h].src /\ i.scope = j.scope /\ i.dst = txn'[h].dst
    PROVE  ConsentInv'
  <1>1. \A g \in Handlers : g # h => /\ WillWrite(g)' = WillWrite(g)
                                     /\ Approves(g)' = Approves(g)
                                     /\ \A n \in Numbers : Claims(g, n)' = Claims(g, n)
    BY DEF WillWrite, Approves, Claims
  <1>2. RowsIssued' /\ IntentsIssued' /\ WritesIssued'
    BY IssuedLater DEF RowsIssued, IntentsIssued, WritesIssued
  <1>3. IntentsDistinct' /\ PendingUnwritten' /\ PermittedNow' /\ TwoConsents' /\ AskedOnce'
    BY DEF ConsentInv, IntentsDistinct, PendingUnwritten, PermittedNow, TwoConsents, AskedOnce
  <1>4. ClaimsIssued'
    BY <1>1, IssuedLater DEF ClaimsIssued
  <1>5. ClaimsUnwritten'
    BY <1>1 DEF ConsentInv, ClaimsUnwritten
  <1>6. ClaimsDistinct'
    BY <1>1 DEF ConsentInv, ClaimsDistinct
  <1>7. AsksDirect'
    BY <1>1 DEF ConsentInv, AsksDirect
  <1>8. JobsDistinct'
    BY <1>1 DEF ConsentInv, JobsDistinct
  <1>9. JobsMatch'
    BY <1>1 DEF ConsentInv, JobsMatch
  <1> QED
    BY <1>2, <1>3, <1>4, <1>5, <1>6, <1>7, <1>8, <1>9 DEF ConsentInv

(* A request that passed the checks is going to write what it asked for.   *)
LEMMA BeginConsents ==
    ASSUME TypeOK, ConsentInv, NEW h \in Handlers, NEW op \in {"upsert", "request"},
           NEW u \in Users, NEW s \in Scopes, NEW d \in Users, Begin(h, op, u, s, d)
    PROVE  ConsentInv'
  <1>1. /\ requests' \in Numbers /\ requests' \in Nat /\ requests \in Nat
        /\ requests < requests' /\ requests <= requests'
    BY RequestType, Counted DEF Begin, Request
  <1>2. UNCHANGED <<rows, intents, writes, admitted, follow, profile>>
    BY DEF Begin, dbVars
  <1>3. CASE UNCHANGED txn
    <2>1. PermittedNow'
      BY <1>2 DEF ConsentInv, PermittedNow
    <2> QED
      BY <1>1, <1>2, <1>3, <2>1, TxnKept, Quiet
  <1>4. ASSUME NEW n \in RowNumbers(u, s),
               Goto(h, [op |-> op, pc |-> "checked", src |-> u, scope |-> s, dst |-> d,
                        ask |-> requests', row |-> n])
        PROVE  ConsentInv'
    <2>1. /\ WillWrite(h)' /\ ~ Approves(h)' /\ txn'[h].ask = requests'
          /\ txn'[h].src = u /\ txn'[h].scope = s /\ txn'[h].dst = d
          /\ \A g \in Handlers : g # h => txn'[g] = txn[g]
      BY <1>4 DEF TypeOK, Goto, WillWrite, Approves
    <2>2. \A k \in Numbers : Claims(h, k)' => k = requests'
      BY <2>1 DEF Claims
    <2>3. \A g \in Handlers : ~ Claims(g, requests')
      BY <1>1, IssuedLater
    <2>4. writes[requests'] = 0
      <3>1. writes[requests'] \in Nat /\ ~ (writes[requests'] > 0)
        BY <1>1, IssuedLater
      <3> QED
        BY <3>1
    <2>5. \A i \in intents : i.id # requests'
      BY <1>1, IssuedLater
    <2>6. <<u, s, d>> \in admitted
      <3>1. CanDelegate(follow, profile, u, d, s)
        BY DEF Begin
      <3>2. <<u, s, d>> \in Admissions(follow, profile)
        BY <3>1 DEF Admissions
      <3> QED
        BY <3>2 DEF ConsentInv, PermittedNow
    <2>7. \A k \in Numbers : Claims(h, k)' =>
             k <= requests' /\ writes[k] = 0 /\ \A g \in Handlers : g # h => ~ Claims(g, k)
      BY <1>1, <2>2, <2>3, <2>4
    <2>8. /\ \A i \in intents : i.id # txn'[h].ask
          /\ <<txn'[h].src, txn'[h].scope, txn'[h].dst>> \in admitted
      BY <2>1, <2>5, <2>6
    <2>9. requests' \in Nat /\ requests <= requests' /\ ~ Approves(h)'
          /\ \A g \in Handlers : g # h => txn'[g] = txn[g]
      BY <1>1, <2>1
    <2> QED
      BY <1>2, <2>7, <2>8, <2>9, ClaimsTaken
  <1> QED
    BY <1>3, <1>4 DEF Begin

(* The lock on the follow request keeps two approvals of a pair from       *)
(* taking up the same intent.                                              *)
LEMMA StartConsents ==
    ASSUME TypeOK, ConsentInv, requests' \in Nat, requests <= requests',
           UNCHANGED <<rows, intents, writes, admitted, follow, profile>>,
           NEW h \in Handlers, ~ Approves(h), NEW u \in Users, NEW d \in Users,
           NEW level \in Levels, StartApproval(h, u, d, level)
    PROVE  ConsentInv'
  <1>1. /\ Unlocked(u, d)
        /\ \A g \in Handlers : g # h => txn'[g] = txn[g]
        /\ Approves(h)' /\ ~ WillWrite(h)'
        /\ txn'[h].src = u /\ txn'[h].dst = d /\ txn'[h].level = level
        /\ \A j \in txn'[h].jobs :
              /\ level = "delegation_allowed"
              /\ \E i \in Ready(u, d) : j.ask = i.id /\ j.scope = i.scope
        /\ \A j, k \in txn'[h].jobs : j.ask = k.ask => j = k
    BY ApprovalStarted DEF ConsentInv
  <1>2. \A i \in Ready(u, d) :
           i \in intents /\ i.src = u /\ i.dst = d /\ i.status = "pending"
    BY DEF Ready
  <1>3. ASSUME NEW j \in txn'[h].jobs
        PROVE  \A i \in intents : i.id = j.ask =>
                  i.src = txn'[h].src /\ i.scope = j.scope /\ i.dst = txn'[h].dst
    <2>1. PICK k \in Ready(u, d) : j.ask = k.id /\ j.scope = k.scope
      BY <1>1
    <2>2. \A i \in intents : i.id = j.ask => i = k
      BY <1>2, <2>1 DEF ConsentInv, IntentsDistinct
    <2> QED
      BY <1>1, <1>2, <2>1, <2>2
  <1>4. ASSUME NEW n \in Numbers, Claims(h, n)'
        PROVE  n <= requests' /\ writes[n] = 0 /\ \A g \in Handlers : g # h => ~ Claims(g, n)
    <2>1. PICK j \in txn'[h].jobs : j.ask = n
      BY <1>1, <1>4 DEF Claims
    <2>2. PICK i \in Ready(u, d) : n = i.id
      BY <1>1, <2>1
    <2>3. n <= requests' /\ writes[n] = 0
      BY <1>2, <2>2, IssuedLater DEF ConsentInv, PendingUnwritten
    <2>4. ASSUME NEW g \in Handlers, Claims(g, n) PROVE FALSE
      <3>1. CASE WillWrite(g) /\ txn[g].ask = n
        BY <1>2, <2>2, <3>1 DEF ConsentInv, AsksDirect
      <3>2. CASE Approves(g) /\ \E k \in txn[g].jobs : k.ask = n
        <4>1. i.src = txn[g].src /\ i.dst = txn[g].dst
          BY <1>2, <2>2, <3>2 DEF ConsentInv, JobsMatch
        <4> QED
          BY <1>1, <1>2, <3>2, <4>1 DEF Unlocked, Approves
      <3> QED
        BY <2>4, <3>1, <3>2 DEF Claims
    <2> QED
      BY <2>3, <2>4
  <1> QED
    BY <1>1, <1>3, <1>4, ClaimsTaken

(* The row that was checked is written, and with that the request is done. *)
LEMMA SaveConsents ==
    ASSUME TypeOK, ConsentInv, NEW h \in Handlers, WillWrite(h), Save(txn[h]),
           UNCHANGED <<intents, requests, admitted, follow, profile>>,
           \A g \in Handlers : Kept(g) /\ (g # h => txn'[g] = txn[g]),
           ~ WillWrite(h)', ~ Approves(h)'
    PROVE  ConsentInv'
  <1> DEFINE t   == txn[h]
             new == Written(t, t)
  <1>1. t.op \in {"upsert", "request"}
    BY DEF WillWrite
  <1>2. /\ t.ask \in Numbers /\ new \in Row /\ new.ask = t.ask
        /\ <<new.src, new.scope, new.dst>> = <<t.src, t.scope, t.dst>>
    <2>1. /\ t.src \in Users /\ t.scope \in Scopes /\ t.dst \in Users
          /\ t.ask \in Numbers /\ t.row \in Numbers \union {0}
      BY <1>1, WriteFields
    <2> HIDE DEF t
    <2> QED
      BY <2>1, WrittenType
  <1> PICK n \in Numbers : n = t.ask
    BY <1>2
  <1>3. /\ rows' \subseteq rows \union {new}
        /\ writes' = [writes EXCEPT ![n] = writes[n] + 1]
    BY DEF Save
  <1> HIDE DEF new
  <1>4. <<new.src, new.scope, new.dst>> \in admitted' /\ \A i \in intents : i.id # n
    BY <1>2 DEF ConsentInv, AsksDirect
  <1>5. Claims(h, n)
    BY DEF Claims
  <1>6. writes[n] = 0
    BY <1>5 DEF ConsentInv, ClaimsUnwritten
  <1>7. requests' \in Nat /\ requests <= requests' /\ n <= requests'
    BY <1>5, Counted DEF ConsentInv, ClaimsIssued
  <1>8. \A g \in Handlers : Kept(g) /\ ~ Claims(g, n)'
    <2> SUFFICES ASSUME NEW g \in Handlers, Claims(g, n)' PROVE FALSE
      OBVIOUS
    <2>1. g # h
      BY DEF Claims
    <2>2. Claims(g, n)
      BY <2>1 DEF Claims, WillWrite, Approves
    <2> QED
      BY <1>5, <2>1, <2>2 DEF ConsentInv, ClaimsDistinct
  <1>9. PermittedNow'
    BY DEF ConsentInv, PermittedNow
  <1>10. new.ask = n /\ new \in Row
    BY <1>2
  <1> HIDE DEF t
  <1> QED
    BY <1>3, <1>4, <1>6, <1>7, <1>8, <1>9, <1>10, OneWritten

(* An approval writes what it took up, with the consent of the delegate it *)
(* stands for, and closes the intents whatever they are by then.           *)
LEMMA ApprovalConsents ==
    ASSUME TypeOK, ConsentInv, NEW h \in Handlers, FinishApproval(h)
    PROVE  ConsentInv'
  <1> DEFINE t == txn[h]
             asks == {j.ask : j \in t.jobs}
             S == Numbered(asks)
  <1>1. /\ Approves(h) /\ UNCHANGED <<requests, profile>>
        /\ requests' \in Nat /\ requests <= requests' /\ requests \in Nat
    BY DEF FinishApproval, Approves, TypeOK
  <1>2. /\ \A g \in Handlers : Kept(g) /\ (g # h => txn'[g] = txn[g])
        /\ ~ WillWrite(h)' /\ ~ Approves(h)'
    BY HandlerIdles DEF FinishApproval
  <1>3. CASE FailApproval(t)
    <2>1. UNCHANGED <<follow, admitted, rows, intents, writes>>
      BY <1>3 DEF FailApproval
    <2>2. PermittedNow'
      BY <1>1, <2>1 DEF ConsentInv, PermittedNow
    <2> QED
      BY <1>1, <1>2, <2>1, <2>2, Quiet
  <1>4. CASE CommitApproval(t)
    <2>1. /\ t.src \in Users /\ t.dst \in Users /\ t.level \in Levels /\ t.fresh \in BOOLEAN
          /\ \A j \in t.jobs :
                j.ask \in Numbers /\ j.scope \in Scopes /\ j.row \in Numbers \union {0}
      BY <1>1, ApproveFields
    <2>2. /\ admitted \subseteq admitted' /\ PermittedNow'
          /\ t.level = "delegation_allowed" =>
                \A s \in Scopes : <<t.src, s, t.dst>> \in admitted'
      <3>1. Grant(t.src, t.dst, t.level, t.fresh) /\ PermittedNow
        BY <1>4 DEF CommitApproval, ConsentInv
      <3> HIDE DEF t
      <3> QED
        BY <1>1, <2>1, <3>1, GrantPermits
    <2>3. \A j \in t.jobs :
             /\ j.ask \in Numbers /\ Claims(h, j.ask) /\ writes[j.ask] = 0
             /\ j.ask <= requests
             /\ <<t.src, j.scope, t.dst>> \in admitted'
             /\ \A i \in intents : i.id = j.ask =>
                   i.src = t.src /\ i.scope = j.scope /\ i.dst = t.dst
      BY <1>1, <2>1, <2>2
         DEF Claims, ConsentInv, ClaimsUnwritten, ClaimsIssued, JobsMatch
    <2>4. \A n \in Numbers : writes'[n] = writes[n] + IF n \in asks THEN 1 ELSE 0
      <3>1. \A n \in Numbers : writes'[n] = writes[n] + IF \E j \in t.jobs : j.ask = n THEN 1 ELSE 0
        BY <1>1, <1>4, ApprovalWrites DEF ConsentInv
      <3> QED
        BY <3>1
    <2>5. \A r \in rows' : \/ r \in rows
                           \/ \E j \in t.jobs : /\ r.ask = j.ask /\ r.src = t.src
                                                /\ r.scope = j.scope /\ r.dst = t.dst
      <3>1. \A j \in t.jobs : LET r == Written(t, j) IN
               r.ask = j.ask /\ r.src = t.src /\ r.scope = j.scope /\ r.dst = t.dst
        <4> HIDE DEF t
        <4> QED
          BY <2>1, WrittenType
      <3>2. rows' = {r \in rows : \A j \in t.jobs : r.id # j.row}
                    \union {Written(t, j) : j \in t.jobs}
        BY <1>4 DEF CommitApproval
      <3> HIDE DEF t
      <3> QED
        BY <3>1, <3>2
    <2>6. /\ \A j \in intents' : \E i \in intents :
                Settled(j, i) /\ IF i \in S THEN j.status = "activated" ELSE j = i
          /\ IntentsDistinct'
      <3>1. S \in SUBSET intents /\ intents' = Settle(intents, S, "activated")
        BY <1>4 DEF CommitApproval, Numbered
      <3> HIDE DEF S
      <3>2. /\ \A j \in intents' : \E i \in intents :
                  Settled(j, i) /\ IF i \in S THEN j.status = "activated" ELSE j = i
            /\ \A j, k \in intents' : j.id = k.id => j = k
        BY <3>1, SettlingSettles DEF ConsentInv
      <3> QED
        BY <3>2 DEF IntentsDistinct
    <2>7. \A j \in intents' : \E i \in intents :
             /\ Settled(j, i)
             /\ IF i.id \in asks THEN j.status = "activated" ELSE j = i
      BY <2>6 DEF Numbered
    <2> HIDE DEF S
    <2>8. \A n \in asks : \E j \in t.jobs : j.ask = n
      OBVIOUS
    <2>9. \A j \in t.jobs : j.ask \in asks
      OBVIOUS
    <2> HIDE DEF asks, t
    <2>10. RowsIssued'
      BY <1>1, <2>3, <2>5, IssuedLater DEF RowsIssued
    <2>11. IntentsIssued'
      BY <1>1, <2>7, IssuedLater DEF IntentsIssued, Settled
    <2>12. WritesIssued'
      <3> SUFFICES ASSUME NEW n \in Numbers, writes'[n] > 0 PROVE n <= requests
        BY <1>1 DEF WritesIssued
      <3>1. CASE n \in asks
        BY <2>3, <2>8, <3>1
      <3>2. CASE n \notin asks
        BY <1>1, <2>4, <3>2, IssuedLater
      <3> QED
        BY <3>1, <3>2
    <2>13. PendingUnwritten'
      <3> SUFFICES ASSUME NEW j \in intents', j.status = "pending" PROVE writes'[j.id] = 0
        BY DEF PendingUnwritten
      <3>1. PICK i \in intents :
               Settled(j, i) /\ IF i.id \in asks THEN j.status = "activated" ELSE j = i
        BY <2>7
      <3>2. j = i /\ i.id \notin asks
        BY <3>1
      <3>3. i.id \in Numbers /\ writes[i.id] = 0
        BY <3>2 DEF TypeOK, Intent, ConsentInv, PendingUnwritten
      <3> QED
        BY <2>4, <3>2, <3>3
    <2>14. /\ ClaimsIssued' /\ ClaimsUnwritten' /\ ClaimsDistinct'
           /\ AsksDirect' /\ JobsDistinct' /\ JobsMatch'
      <3>1. ASSUME NEW g \in Handlers, NEW n \in Numbers, Claims(g, n)'
            PROVE  writes'[n] = writes[n]
        <4>1. g # h
          BY <1>2, <3>1 DEF Claims
        <4>2. Claims(g, n)
          BY <1>2, <3>1, <4>1 DEF Claims, WillWrite, Approves
        <4>3. n \notin asks
          BY <2>3, <2>8, <4>1, <4>2 DEF ConsentInv, ClaimsDistinct
        <4>4. writes[n] \in Nat
          BY DEF TypeOK
        <4> QED
          BY <2>4, <4>3, <4>4
      <3> QED
        BY <1>1, <1>2, <2>2, <2>7, <3>1, ClaimsKept
    <2>15. TwoConsents'
      <3> SUFFICES ASSUME NEW r \in rows'
                   PROVE  /\ <<r.src, r.scope, r.dst>> \in admitted'
                          /\ \A j \in intents' : j.id = r.ask =>
                                /\ <<j.src, j.scope, j.dst>> = <<r.src, r.scope, r.dst>>
                                /\ Closed(j)
        BY DEF TwoConsents, Closed
      <3>1. CASE r \in rows
        BY <2>2, <2>7, <3>1, RowConsents DEF ConsentInv
      <3>2. CASE r \notin rows
        <4>1. PICK k \in t.jobs : r.ask = k.ask /\ r.src = t.src /\ r.scope = k.scope /\ r.dst = t.dst
          BY <2>5, <3>2
        <4>2. ASSUME NEW j \in intents', j.id = r.ask
              PROVE  <<j.src, j.scope, j.dst>> = <<r.src, r.scope, r.dst>> /\ Closed(j)
          <5>1. PICK i \in intents :
                   Settled(j, i) /\ IF i.id \in asks THEN j.status = "activated" ELSE j = i
            BY <2>7
          <5>2. i.id = k.ask /\ i.id \in asks
            BY <2>9, <4>1, <4>2, <5>1 DEF Settled
          <5> QED
            BY <2>3, <4>1, <5>1, <5>2 DEF Settled, Closed
        <4> QED
          BY <2>3, <4>1, <4>2
      <3> QED
        BY <3>1, <3>2
    <2>16. AskedOnce'
      <3> SUFFICES ASSUME NEW n \in Numbers PROVE writes'[n] <= 1
        BY DEF AskedOnce
      <3>1. CASE n \in asks
        <4>1. writes[n] = 0
          BY <2>3, <2>8, <3>1
        <4> QED
          BY <2>4, <3>1, <4>1
      <3>2. CASE n \notin asks
        BY <1>1, <2>4, <3>2, IssuedLater DEF ConsentInv, AskedOnce
      <3> QED
        BY <3>1, <3>2
    <2> QED
      BY <2>2, <2>6, <2>10, <2>11, <2>12, <2>13, <2>14, <2>15, <2>16 DEF ConsentInv
  <1> QED
    BY <1>3, <1>4 DEF FinishApproval

(* An intent that is queued takes a new number.                            *)
LEMMA IntentQueued ==
    ASSUME TypeOK, ConsentInv, requests' \in Numbers, requests < requests',
           UNCHANGED <<rows, writes, txn>>, admitted \subseteq admitted', PermittedNow',
           NEW S \in SUBSET intents, NEW new \in Intent, new.id = requests',
           intents' = Settle(intents, S, "expired") \union {new}
    PROVE  ConsentInv'
  <1> DEFINE J == Settle(intents, S, "expired")
  <1>1. requests \in Nat /\ requests' \in Nat /\ requests <= requests'
    BY DEF TypeOK, Numbers
  <1>2. /\ \A j \in J : \E i \in intents : Settled(j, i)
        /\ \A j, k \in J : j.id = k.id => j = k
    BY SettlingSettles DEF ConsentInv
  <1>3. intents' = J \union {new}
    OBVIOUS
  <1> HIDE DEF J
  <1>4. \A j \in J : j.id \in Numbers /\ j.id <= requests
    BY <1>1, <1>2, IssuedLater DEF Settled
  <1>5. \A h \in Handlers : Kept(h)
    BY TxnKept
  <1>6. \A n \in Numbers : n <= requests => n # new.id
    BY <1>1
  <1>7. RowsIssued' /\ WritesIssued'
    BY <1>1, IssuedLater DEF RowsIssued, WritesIssued
  <1>8. IntentsIssued' /\ IntentsDistinct'
    BY <1>1, <1>2, <1>3, <1>4, <1>6 DEF IntentsIssued, IntentsDistinct, Numbers
  <1>9. PendingUnwritten'
    <2> SUFFICES ASSUME NEW j \in intents', j.status = "pending" PROVE writes[j.id] = 0
      BY DEF PendingUnwritten
    <2>1. CASE j \in J
      <3>1. PICK i \in intents : Settled(j, i)
        BY <1>2, <2>1
      <3> QED
        BY <3>1 DEF Settled, ConsentInv, PendingUnwritten
    <2>2. CASE j = new
      <3>1. writes[requests'] \in Nat /\ ~ (writes[requests'] > 0)
        BY <1>1, IssuedLater
      <3> QED
        BY <2>2, <3>1
    <2> QED
      BY <1>3, <2>1, <2>2
  <1>10. /\ ClaimsIssued' /\ ClaimsUnwritten' /\ ClaimsDistinct'
         /\ AsksDirect' /\ JobsDistinct' /\ JobsMatch'
    <2>1. \A j \in intents' : j.id \notin 1 .. requests \/ \E i \in intents : Settled(j, i)
      BY <1>1, <1>2, <1>3
    <2> QED
      BY <1>1, <1>5, <2>1, ClaimsKept
  <1>11. TwoConsents'
    <2> SUFFICES ASSUME NEW r \in rows
                 PROVE  /\ <<r.src, r.scope, r.dst>> \in admitted'
                        /\ \A j \in intents' : j.id = r.ask =>
                              /\ <<j.src, j.scope, j.dst>> = <<r.src, r.scope, r.dst>>
                              /\ Closed(j)
      BY DEF TwoConsents, Closed
    <2>1. new.id # r.ask
      BY <1>1, <1>6, IssuedLater
    <2>2. \A j \in intents' : j.id # r.ask \/ \E i \in intents : Settled(j, i)
      BY <1>2, <1>3, <2>1
    <2> QED
      BY <2>2, RowConsents DEF ConsentInv
  <1>12. AskedOnce'
    BY DEF ConsentInv, AskedOnce
  <1> QED
    BY <1>7, <1>8, <1>9, <1>10, <1>11, <1>12 DEF ConsentInv

LEMMA QueueConsents ==
    ASSUME TypeOK, ConsentInv, NEW u \in Users, NEW s \in Scopes, NEW d \in Users,
           Queue(u, s, d)
    PROVE  ConsentInv'
  <1> DEFINE row == [id |-> requests', src |-> u, scope |-> s, dst |-> d, ask |-> requests']
             new == [id |-> requests', src |-> u, scope |-> s, dst |-> d, status |-> "pending"]
             S   == {i \in {j \in intents : j.src = u /\ j.dst = d /\ j.scope = s} :
                       i.status = "overdue"}
             auto == freq[u][d] \in {"none", "denied"} /\ policy[d] # "require_approval"
  <1>1. /\ requests' \in Numbers /\ requests' \in Nat /\ requests \in Nat
        /\ requests < requests' /\ requests <= requests' /\ requests' <= requests'
    BY RequestType, Counted DEF Queue, Request
  <1>2. UNCHANGED <<txn, profile>>
    BY DEF Queue
  <1>3. /\ admitted \subseteq admitted' /\ PermittedNow'
        /\ auto /\ PolicyLevel(d) = "delegation_allowed" => <<u, s, d>> \in admitted'
    <2>1. CASE auto
      <3>1. Grant(u, d, PolicyLevel(d), TRUE) /\ PolicyLevel(d) \in Levels
        BY <2>1, PolicyLevelType DEF Queue
      <3> QED
        BY <1>2, <3>1, GrantPermits DEF ConsentInv
    <2>2. CASE ~ auto
      <3>1. UNCHANGED <<follow, admitted>>
        BY <2>2 DEF Queue
      <3> QED
        BY <1>2, <2>2, <3>1 DEF ConsentInv, PermittedNow
    <2> QED
      BY <2>1, <2>2
  <1>4. \/ /\ auto /\ PolicyLevel(d) = "delegation_allowed"
           /\ rows' = rows \union {row}
           /\ writes' = [writes EXCEPT ![requests'] = writes[requests'] + 1]
           /\ intents' = intents
        \/ /\ intents' = Settle(intents, S, "expired") \union {new}
           /\ UNCHANGED <<rows, writes>>
    <2> HIDE DEF row, new, S
    <2> QED
      BY DEF Queue, row, new, S
  <1>5. CASE /\ auto /\ PolicyLevel(d) = "delegation_allowed"
             /\ rows' = rows \union {row}
             /\ writes' = [writes EXCEPT ![requests'] = writes[requests'] + 1]
             /\ intents' = intents
    <2> PICK n \in Numbers : n = requests'
      BY <1>1
    <2>1. row \in Row /\ row.ask = n /\ <<row.src, row.scope, row.dst>> = <<u, s, d>>
      BY <1>1 DEF Row
    <2>2. writes[n] = 0
      <3>1. writes[n] \in Nat /\ ~ (writes[n] > 0)
        BY <1>1, IssuedLater
      <3> QED
        BY <3>1
    <2>3. \A i \in intents : i.id # n
      BY <1>1, IssuedLater
    <2>4. \A h \in Handlers : Kept(h) /\ ~ Claims(h, n)'
      <3>1. \A h \in Handlers : Kept(h)
        BY <1>2, TxnKept
      <3>2. \A h \in Handlers : Claims(h, n)' = Claims(h, n)
        BY <1>2 DEF Claims, WillWrite, Approves
      <3>3. \A h \in Handlers : ~ Claims(h, n)
        BY <1>1, IssuedLater
      <3> QED
        BY <3>1, <3>2, <3>3
    <2>5. rows' \subseteq rows \union {row}
          /\ writes' = [writes EXCEPT ![n] = writes[n] + 1]
          /\ intents' = intents
      BY <1>5
    <2>6. <<row.src, row.scope, row.dst>> \in admitted'
      BY <1>3, <1>5, <2>1
    <2>7. requests' \in Nat /\ requests <= requests' /\ n <= requests'
      BY <1>1
    <2> HIDE DEF row
    <2> QED
      BY <1>3, <2>1, <2>2, <2>3, <2>4, <2>5, <2>6, <2>7, OneWritten
  <1>6. CASE /\ intents' = Settle(intents, S, "expired") \union {new}
             /\ UNCHANGED <<rows, writes>>
    <2>1. new \in Intent /\ new.id = requests'
      BY <1>1 DEF Intent
    <2>2. S \in SUBSET intents
      OBVIOUS
    <2> HIDE DEF S, new
    <2> QED
      BY <1>1, <1>2, <1>3, <1>6, <2>1, <2>2, IntentQueued
  <1> QED
    BY <1>4, <1>5, <1>6

LEMMA SendFollowConsents ==
    ASSUME TypeOK, ConsentInv, NEW h \in Handlers, NEW u \in Users, NEW d \in Users,
           SendFollow(h, u, d)
    PROVE  ConsentInv'
  <1>1. /\ requests' \in Nat /\ requests <= requests'
        /\ UNCHANGED <<rows, intents, writes, admitted, follow, profile>>
    BY Counted DEF SendFollow, Request
  <1>2. CASE policy[d] = "require_approval"
    <2>1. UNCHANGED txn
      BY <1>2 DEF SendFollow
    <2>2. PermittedNow'
      BY <1>1 DEF ConsentInv, PermittedNow
    <2> QED
      BY <1>1, <2>1, <2>2, TxnKept, Quiet
  <1>3. CASE policy[d] # "require_approval"
    <2>1. StartApproval(h, u, d, PolicyLevel(d)) /\ PolicyLevel(d) \in Levels
      BY <1>3, PolicyLevelType DEF SendFollow
    <2>2. ~ Approves(h)
      BY DEF SendFollow, Approves, Idle
    <2> QED
      BY <1>1, <2>1, <2>2, StartConsents
  <1> QED
    BY <1>2, <1>3

LEMMA AnswerConsents ==
    ASSUME TypeOK, ConsentInv, NEW h \in Handlers, Answer(h)
    PROVE  ConsentInv'
  <1> DEFINE t == txn[h]
  <1>1. /\ requests' \in Nat /\ requests <= requests'
        /\ UNCHANGED <<rows, intents, writes, admitted, follow, profile>>
        /\ t.src \in Users /\ t.dst \in Users /\ t.answer \in Levels \union {"denied"}
        /\ ~ Approves(h)
    BY Counted, RespondFields DEF Answer, Approves
  <1>2. CASE t.answer = "denied"
    <2>1. \A g \in Handlers : Kept(g)
      BY <1>2, HandlerIdles DEF Answer
    <2>2. PermittedNow'
      BY <1>1 DEF ConsentInv, PermittedNow
    <2> QED
      BY <1>1, <2>1, <2>2, Quiet
  <1>3. CASE t.answer # "denied"
    <2>1. StartApproval(h, t.src, t.dst, t.answer) /\ t.answer \in Levels
      BY <1>1, <1>3 DEF Answer
    <2> HIDE DEF t
    <2> QED
      BY <1>1, <2>1, StartConsents
  <1> QED
    BY <1>2, <1>3

(* Intents that are cancelled or expire.                                   *)
LEMMA SettleConsents ==
    ASSUME TypeOK, ConsentInv, NEW S \in SUBSET intents,
           NEW st \in {"overdue", "cancelled", "expired"},
           st = "overdue" => \A i \in S : i.status = "pending",
           intents' = Settle(intents, S, st), \A h \in Handlers : Kept(h),
           UNCHANGED <<rows, profile, follow, requests, admitted, writes>>
    PROVE  ConsentInv'
  <1>1. requests' \in Nat /\ requests <= requests'
    BY Counted
  <1>2. PermittedNow'
    BY DEF ConsentInv, PermittedNow
  <1>3. /\ \A j \in intents' : \E i \in intents : Settled(j, i)
        /\ \A j, k \in intents' : j.id = k.id => j = k
    BY SettlingSettles DEF ConsentInv
  <1>4. IntentsDistinct'
    BY <1>3 DEF IntentsDistinct
  <1> QED
    BY <1>1, <1>2, <1>3, <1>4, NothingWritten

(* Commits and second steps of the handlers.                               *)
LEMMA HandlerConsents ==
    ASSUME TypeOK, ConsentInv, NEW h \in Handlers,
           CommitUpsert(h) \/ FinishUpsert(h) \/ FlushRequest(h) \/ CommitRequest(h)
           \/ FinishRevoke(h) \/ Answer(h) \/ FinishApproval(h) \/ FinishWithdrawal(h)
    PROVE  ConsentInv'
  <1> DEFINE t == txn[h]
             half == [t EXCEPT !.pc = "half"]
  <1>1. CASE CommitUpsert(h)
    <2>1. t.op = "upsert" /\ t.pc = "checked" /\ WillWrite(h)
          /\ UNCHANGED <<intents, requests, admitted, follow, profile>>
      BY <1>1 DEF CommitUpsert, WillWrite
    <2>2. CASE Save(t) /\ Goto(h, half)
      <3>1. half.op = "upsert" /\ half.pc = "half"
        BY <2>1, TxnOf DEF WriteTxn
      <3> HIDE DEF half
      <3>2. /\ \A g \in Handlers : Kept(g) /\ (g # h => txn'[g] = txn[g])
            /\ ~ WillWrite(h)' /\ ~ Approves(h)'
        BY <2>2, <3>1, HandlerLeaves
      <3> QED
        BY <2>1, <2>2, <3>2, SaveConsents
    <2>3. CASE Goto(h, Idle) /\ UNCHANGED <<rows, writes>>
      <3>1. \A g \in Handlers : Kept(g)
        BY <2>3, HandlerIdles
      <3>2. requests' \in Nat /\ requests <= requests' /\ PermittedNow'
        BY <2>1, Counted DEF ConsentInv, PermittedNow
      <3> QED
        BY <2>1, <2>3, <3>1, <3>2, Quiet
    <2> QED
      BY <1>1, <2>2, <2>3 DEF CommitUpsert
  <1>2. CASE FinishUpsert(h) \/ FinishRevoke(h)
    <2>1. Goto(h, Idle) /\ UNCHANGED <<dbVars, requests, admitted, writes>>
      BY <1>2 DEF FinishUpsert, FinishRevoke
    <2>2. \A g \in Handlers : Kept(g)
      BY <2>1, HandlerIdles
    <2>3. requests' \in Nat /\ requests <= requests' /\ PermittedNow'
      BY <2>1, Counted DEF dbVars, ConsentInv, PermittedNow
    <2> QED
      BY <2>1, <2>2, <2>3, Quiet DEF dbVars
  <1>3. CASE FlushRequest(h)
    <2>1. t.op = "request" /\ UNCHANGED <<dbVars, requests, admitted, writes>>
      BY <1>3 DEF FlushRequest
    <2>2. \A g \in Handlers : Kept(g)
      <3>1. CASE Goto(h, half)
        <4>1. /\ half.ask = t.ask /\ half.src = t.src /\ half.scope = t.scope
              /\ half.dst = t.dst /\ half.op = "request"
          BY <2>1, TxnOf DEF WriteTxn
        <4>2. txn'[h] = half /\ \A g \in Handlers : g # h => txn'[g] = txn[g]
          BY <3>1 DEF Goto, TypeOK
        <4> HIDE DEF half
        <4> QED
          BY <2>1, <4>1, <4>2 DEF WillWrite, Approves, SameAsk, Kept
      <3>2. CASE Goto(h, Idle)
        BY <3>2, HandlerIdles
      <3> QED
        BY <1>3, <3>1, <3>2 DEF FlushRequest
    <2>3. requests' \in Nat /\ requests <= requests' /\ PermittedNow'
      BY <2>1, Counted DEF dbVars, ConsentInv, PermittedNow
    <2> QED
      BY <2>1, <2>2, <2>3, Quiet DEF dbVars
  <1>4. CASE CommitRequest(h)
    <2>1. WillWrite(h) /\ Save(t) /\ Goto(h, Idle)
          /\ UNCHANGED <<intents, requests, admitted, follow, profile>>
      BY <1>4 DEF CommitRequest, WillWrite
    <2>2. /\ \A g \in Handlers : Kept(g) /\ (g # h => txn'[g] = txn[g])
          /\ ~ WillWrite(h)' /\ ~ Approves(h)'
      BY <2>1, HandlerIdles
    <2> QED
      BY <2>1, <2>2, SaveConsents
  <1>5. CASE FinishWithdrawal(h)
    <2>1. \A g \in Handlers : Kept(g)
      BY <1>5, HandlerIdles DEF FinishWithdrawal
    <2>2. UNCHANGED <<rows, profile, follow, requests, admitted, writes>>
      BY <1>5 DEF FinishWithdrawal
    <2>3. CASE intents' = intents
      <3>1. requests' \in Nat /\ requests <= requests' /\ PermittedNow'
        BY <2>2, Counted DEF ConsentInv, PermittedNow
      <3> QED
        BY <2>1, <2>2, <2>3, <3>1, Quiet
    <2>4. ASSUME NEW st \in {"cancelled", "expired"},
                 intents' = Settle(intents, Numbered(t.ids), st)
          PROVE  ConsentInv'
      <3>1. Numbered(t.ids) \in SUBSET intents
        BY DEF Numbered
      <3> QED
        BY <2>1, <2>2, <2>4, <3>1, SettleConsents
    <2> QED
      BY <1>5, <2>3, <2>4 DEF FinishWithdrawal
  <1> QED
    BY <1>1, <1>2, <1>3, <1>4, <1>5, AnswerConsents, ApprovalConsents

(* Permissions that are taken back stay on record as once given.           *)
LEMMA WithdrawalConsents ==
    ASSUME TypeOK, ConsentInv, NEW u \in Users, NEW d \in Users
    PROVE  /\ \A l \in Levels : UpdatePermission(u, d, l) => ConsentInv'
           /\ \A who \in {u, d} : RevokeFollow(u, d, who) => ConsentInv'
           /\ \A t \in Topics : HardRevert(d, t) => ConsentInv'
           /\ Leave(u) => ConsentInv'
  <1>0. Admissions(follow, profile) \subseteq admitted
    BY DEF ConsentInv, PermittedNow
  <1>1. ASSUME NEW l \in Levels, UpdatePermission(u, d, l) PROVE ConsentInv'
    <2>1. requests' \in Nat /\ requests <= requests'
          /\ \A h \in Handlers : Kept(h)
      BY <1>1, Counted, TxnKept DEF UpdatePermission, Request
    <2>2. admitted \subseteq admitted' /\ PermittedNow'
      BY <1>1 DEF UpdatePermission, Permit, PermittedNow
    <2> QED
      BY <1>1, <2>1, <2>2, Quiet DEF UpdatePermission
  <1>2. ASSUME NEW who \in {u, d}, RevokeFollow(u, d, who) PROVE ConsentInv'
    <2>1. requests' \in Nat /\ requests <= requests'
          /\ \A h \in Handlers : Kept(h)
      BY <1>2, Counted, TxnKept DEF RevokeFollow, Request
    <2>2. \A a, b \in Users : follow'[a][b] \in {follow[a][b], "none"}
      BY <1>2 DEF RevokeFollow, TypeOK
    <2>3. PermittedNow'
      <3> SUFFICES ASSUME NEW a \in Admissions(follow', profile') PROVE a \in admitted'
        BY DEF PermittedNow
      <3>1. /\ a \in Users \X Scopes \X Users
            /\ CanDelegate(follow', profile, a[1], a[3], a[2])
        BY <1>2 DEF Admissions, RevokeFollow
      <3>2. a[1] \in Users /\ a[3] \in Users
        BY <3>1
      <3>3. CanDelegate(follow, profile, a[1], a[3], a[2])
        BY <2>2, <3>1, <3>2 DEF CanDelegate
      <3>4. a \in Admissions(follow, profile)
        BY <3>1, <3>3 DEF Admissions
      <3> QED
        BY <1>0, <1>2, <3>4 DEF RevokeFollow
    <2> QED
      BY <1>2, <2>1, <2>3, Quiet DEF RevokeFollow
  <1>3. ASSUME NEW t \in Topics, HardRevert(d, t) PROVE ConsentInv'
    <2>1. requests' \in Nat /\ requests <= requests'
          /\ \A h \in Handlers : Kept(h)
      BY <1>3, Counted, TxnKept DEF HardRevert, Request
    <2>2. \A b \in Users, x \in Topics : profile'[b][x] \in {profile[b][x], "followers_only"}
      BY <1>3 DEF HardRevert, TypeOK
    <2>3. PermittedNow'
      <3> SUFFICES ASSUME NEW a \in Admissions(follow', profile') PROVE a \in admitted'
        BY DEF PermittedNow
      <3>1. /\ a \in Users \X Scopes \X Users
            /\ CanDelegate(follow, profile', a[1], a[3], a[2])
        BY <1>3 DEF Admissions, HardRevert
      <3>2. a[1] \in Users /\ a[3] \in Users
        BY <3>1
      <3>3. CanDelegate(follow, profile, a[1], a[3], a[2])
        BY <2>2, <3>1, <3>2 DEF CanDelegate
      <3>4. a \in Admissions(follow, profile)
        BY <3>1, <3>3 DEF Admissions
      <3> QED
        BY <1>0, <1>3, <3>4 DEF HardRevert
    <2> QED
      BY <1>3, <2>1, <2>3, Quiet DEF HardRevert
  <1>4. ASSUME Leave(u) PROVE ConsentInv'
    <2>1. requests' \in Nat /\ requests <= requests'
          /\ \A h \in Handlers : Kept(h)
      BY <1>4, Counted, TxnKept DEF Leave, Request
    <2>2. PermittedNow'
      BY <1>0, <1>4 DEF Leave, PermittedNow
    <2> QED
      BY <1>4, <2>1, <2>2, Quiet DEF Leave
  <1> QED
    BY <1>1, <1>2, <1>3, <1>4

LEMMA NextConsents == TypeOK /\ ConsentInv /\ [Next]_vars => ConsentInv'
  <1> SUFFICES ASSUME TypeOK, ConsentInv, [Next]_vars PROVE ConsentInv'
    OBVIOUS
  <1>1. ASSUME NEW h \in Handlers, NEW u \in Users, NEW s \in Scopes, Revoke(h, u, s)
        PROVE  ConsentInv'
    <2>1. requests' \in Nat /\ requests <= requests' /\ PermittedNow'
      BY <1>1, Counted DEF Revoke, Request, ConsentInv, PermittedNow
    <2>2. \A g \in Handlers : Kept(g)
      <3>1. [op |-> "revoke", src |-> u, scope |-> s].op \notin {"upsert", "request", "approve"}
        OBVIOUS
      <3> QED
        BY <1>1, <3>1, HandlerLeaves DEF Revoke
    <2> QED
      BY <1>1, <2>1, <2>2, Quiet DEF Revoke
  <1>2. ASSUME NEW h \in Handlers, NEW u \in Users, NEW d \in Users,
               NEW a \in Levels \union {"denied"}, BeginRespond(h, u, d, a)
        PROVE  ConsentInv'
    <2>1. requests' \in Nat /\ requests <= requests' /\ PermittedNow'
      BY <1>2, Counted DEF BeginRespond, Request, dbVars, ConsentInv, PermittedNow
    <2>2. \A g \in Handlers : Kept(g)
      <3>1. [op |-> "respond", src |-> u, dst |-> d, answer |-> a].op \notin {"upsert", "request", "approve"}
        OBVIOUS
      <3> QED
        BY <1>2, <3>1, HandlerLeaves DEF BeginRespond
    <2> QED
      BY <1>2, <2>1, <2>2, Quiet DEF BeginRespond, dbVars
  <1>3. ASSUME NEW h \in Handlers, NEW t, t.op \in {"cancel", "list"}, Goto(h, t),
               requests < MaxRequests, requests' = requests + 1,
               UNCHANGED <<dbVars, graph, admitted, writes>>
        PROVE  ConsentInv'
    <2>1. requests' \in Nat /\ requests <= requests' /\ PermittedNow'
      BY <1>3, Counted DEF dbVars, ConsentInv, PermittedNow
    <2>2. \A g \in Handlers : Kept(g)
      BY <1>3, HandlerLeaves
    <2> QED
      BY <1>3, <2>1, <2>2, Quiet DEF dbVars
  <1>4. ASSUME NEW i \in intents, Overdue(i) PROVE ConsentInv'
    <2>1. \A h \in Handlers : Kept(h)
      BY <1>4, TxnKept DEF Overdue
    <2> QED
      BY <1>4, <2>1, SettleConsents DEF Overdue
  <1>5. ASSUME NEW S, Switch(S) PROVE ConsentInv'
    <2>1. requests' \in Nat /\ requests <= requests' /\ PermittedNow'
      BY <1>5, Counted DEF Switch, ConsentInv, PermittedNow
    <2> QED
      BY <1>5, <2>1, TxnKept, Quiet DEF Switch
  <1>6. ASSUME Restart PROVE ConsentInv'
    <2>1. requests' \in Nat /\ requests <= requests' /\ PermittedNow'
      BY <1>6, Counted DEF Restart, dbVars, ConsentInv, PermittedNow
    <2>2. \A h \in Handlers : Kept(h)
      BY <1>6 DEF Restart, WillWrite, Approves, Idle, Kept
    <2> QED
      BY <1>6, <2>1, <2>2, Quiet DEF Restart, dbVars
  <1>7. ASSUME UNCHANGED vars PROVE ConsentInv'
    <2>1. requests' \in Nat /\ requests <= requests' /\ PermittedNow'
      BY <1>7, Counted DEF vars, dbVars, ConsentInv, PermittedNow
    <2> QED
      BY <1>7, <2>1, TxnKept, Quiet DEF vars, dbVars
  <1>8. CASE Next
    <2>1. CASE \E h \in Handlers : \E u, d \in Users, s \in Scopes :
                  Begin(h, "upsert", u, s, d) \/ Begin(h, "request", u, s, d)
      BY <2>1, BeginConsents
    <2>2. CASE \E h \in Handlers :
                  \/ CommitUpsert(h) \/ FinishUpsert(h)
                  \/ FlushRequest(h) \/ CommitRequest(h)
                  \/ FinishRevoke(h) \/ Answer(h) \/ FinishApproval(h) \/ FinishWithdrawal(h)
      BY <2>2, HandlerConsents
    <2>3. CASE \E u, d \in Users :
                  \/ \E s \in Scopes : Queue(u, s, d)
                  \/ \E l \in Levels : UpdatePermission(u, d, l)
                  \/ \E who \in {u, d} : RevokeFollow(u, d, who)
                  \/ \E h \in Handlers : SendFollow(h, u, d)
      BY <2>3, QueueConsents, SendFollowConsents, WithdrawalConsents
    <2>5. CASE \E h \in Handlers :
                  (\E i \in intents : BeginCancel(h, i)) \/ \E u \in Users : BeginList(h, u)
      <3>1. \A S : [op |-> "cancel", ids |-> S].op = "cancel" /\ [op |-> "list", ids |-> S].op = "list"
        OBVIOUS
      <3>2. ASSUME NEW h \in Handlers, NEW i \in intents, BeginCancel(h, i) PROVE ConsentInv'
        BY <1>3, <3>1, <3>2 DEF BeginCancel, Request
      <3>3. ASSUME NEW h \in Handlers, NEW u \in Users, BeginList(h, u) PROVE ConsentInv'
        BY <1>3, <3>1, <3>3 DEF BeginList, Request
      <3> QED
        BY <2>5, <3>2, <3>3
    <2>4. CASE (\E u \in Users : Leave(u)) \/ \E d \in Users, t \in Topics : HardRevert(d, t)
      BY <2>4, WithdrawalConsents
    <2> QED
      BY <1>1, <1>2, <1>3, <1>4, <1>5, <1>6, <1>8, <2>1, <2>2, <2>3, <2>4, <2>5 DEF Next
  <1> QED
    BY <1>7, <1>8

LEMMA InitConsents == Init => ConsentInv
  <1> SUFFICES ASSUME Init PROVE ConsentInv
    OBVIOUS
  <1>1. /\ rows = {} /\ intents = {} /\ writes = [n \in Numbers |-> 0]
        /\ \A h \in Handlers : ~ WillWrite(h) /\ ~ Approves(h)
        /\ admitted = Admissions(follow, profile)
    BY DEF Init, WillWrite, Approves, Idle
  <1>2. RowsIssued /\ IntentsIssued /\ WritesIssued /\ IntentsDistinct /\ PendingUnwritten
    BY <1>1 DEF RowsIssued, IntentsIssued, WritesIssued, IntentsDistinct, PendingUnwritten
  <1>3. ClaimsIssued /\ ClaimsUnwritten /\ ClaimsDistinct
    BY <1>1 DEF ClaimsIssued, ClaimsUnwritten, ClaimsDistinct, Claims
  <1>4. AsksDirect /\ JobsDistinct /\ JobsMatch
    BY <1>1 DEF AsksDirect, JobsDistinct, JobsMatch
  <1>5. PermittedNow /\ TwoConsents /\ AskedOnce
    BY <1>1 DEF PermittedNow, TwoConsents, AskedOnce
  <1> QED
    BY <1>2, <1>3, <1>4, <1>5 DEF ConsentInv

-----------------------------------------------------------------------------
(* What was withdrawn.                                                     *)

(* Nothing is written for the intent, it stays withdrawn, and no handler   *)
(* takes it up.                                                            *)
StaysWithdrawn(n) ==
    /\ writes'[n] = writes[n]
    /\ \A j \in intents' : j.id = n => Withdrawn(j)'

ApprovalsKept == \A h \in Handlers : Approves(h)' => Approves(h) /\ txn'[h] = txn[h]

LEMMA NotTakenUp ==
    ASSUME NEW i \in intents, Withdrawn(i), ApprovalsKept, writes'[i.id] = writes[i.id],
           \A j \in intents' : j.id = i.id => j.status \in {"cancelled", "expired"}
    PROVE  StaysWithdrawn(i.id)
  BY DEF StaysWithdrawn, Withdrawn, ApprovalsKept, Approves

(* Steps that leave the intents there are as they are.                     *)
LEMMA SilentWithdrawn ==
    ASSUME TypeOK, ConsentInv, NEW i \in intents, Withdrawn(i),
           writes' = writes, intents' \subseteq intents, ApprovalsKept
    PROVE  StaysWithdrawn(i.id)
  <1>1. \A j \in intents' : j.id = i.id => j = i
    BY DEF ConsentInv, IntentsDistinct
  <1>2. i.status \in {"cancelled", "expired"}
    BY DEF Withdrawn
  <1> QED
    BY <1>1, <1>2, NotTakenUp

(* A withdrawn intent is settled as withdrawn again or not at all.         *)
LEMMA SettledWithdrawn ==
    ASSUME TypeOK, ConsentInv, NEW i \in intents, Withdrawn(i), NEW S \in SUBSET intents,
           NEW st \in {"overdue", "activated", "cancelled", "expired"},
           st = "overdue" => \A k \in S : k.status = "pending",
           st = "activated" => i \notin S
    PROVE  \A j \in Settle(intents, S, st) : j.id = i.id => j.status \in {"cancelled", "expired"}
  <1> SUFFICES ASSUME NEW j \in Settle(intents, S, st), j.id = i.id
               PROVE  j.status \in {"cancelled", "expired"}
    OBVIOUS
  <1>1. PICK k \in intents : Settled(j, k) /\ IF k \in S THEN j.status = st ELSE j = k
    BY SettlingSettles DEF ConsentInv
  <1>2. k = i
    BY <1>1 DEF Settled, ConsentInv, IntentsDistinct
  <1>3. i.status \in {"cancelled", "expired"}
    BY DEF Withdrawn
  <1> QED
    BY <1>1, <1>2, <1>3

(* An approval that starts takes up pending intents only.                  *)
LEMMA StartWithdrawn ==
    ASSUME TypeOK, ConsentInv, NEW i \in intents, Withdrawn(i),
           UNCHANGED <<intents, writes>>,
           NEW h \in Handlers, NEW u \in Users, NEW d \in Users,
           NEW level \in Levels, StartApproval(h, u, d, level)
    PROVE  StaysWithdrawn(i.id)
  <1>1. /\ \A g \in Handlers : g # h => txn'[g] = txn[g]
        /\ \A j \in txn'[h].jobs : \E k \in Ready(u, d) : j.ask = k.id
    BY ApprovalStarted DEF ConsentInv
  <1>2. ASSUME NEW k \in Ready(u, d) PROVE k.id # i.id
    <2>1. k \in intents /\ k.status = "pending"
      BY DEF Ready
    <2> QED
      BY <2>1 DEF Withdrawn, ConsentInv, IntentsDistinct
  <1>3. \A j \in intents' : j.id = i.id => j.status \in {"cancelled", "expired"}
    BY DEF Withdrawn, ConsentInv, IntentsDistinct
  <1> QED
    BY <1>1, <1>2, <1>3 DEF StaysWithdrawn, Withdrawn

(* A direct delegation is written for a number that is no intent.          *)
LEMMA SaveWithdrawn ==
    ASSUME TypeOK, ConsentInv, NEW i \in intents, Withdrawn(i), NEW h \in Handlers,
           WillWrite(h), Save(txn[h]), intents' = intents, ApprovalsKept
    PROVE  StaysWithdrawn(i.id)
  <1>1. txn[h].ask # i.id /\ i.id \in Numbers
    BY DEF ConsentInv, AsksDirect, TypeOK, Intent
  <1>2. writes'[i.id] = writes[i.id]
    BY <1>1 DEF Save, TypeOK
  <1>3. \A j \in intents' : j.id = i.id => j.status \in {"cancelled", "expired"}
    BY DEF Withdrawn, ConsentInv, IntentsDistinct
  <1> QED
    BY <1>2, <1>3, NotTakenUp

LEMMA ApprovalWithdrawn ==
    ASSUME TypeOK, ConsentInv, NEW i \in intents, Withdrawn(i), NEW h \in Handlers,
           FinishApproval(h)
    PROVE  StaysWithdrawn(i.id)
  <1> DEFINE S == Numbered({j.ask : j \in txn[h].jobs})
  <1>1. Approves(h) /\ ApprovalsKept
    BY HandlerIdles DEF FinishApproval, Approves, ApprovalsKept, Kept
  <1>2. CASE FailApproval(txn[h])
    BY <1>1, <1>2, SilentWithdrawn DEF FailApproval
  <1>3. CASE CommitApproval(txn[h])
    <2>1. \A j \in txn[h].jobs : j.ask # i.id
      BY <1>1 DEF Withdrawn, Approves
    <2>2. i.id \in Numbers /\ writes[i.id] \in Nat
      BY DEF TypeOK, Intent
    <2>3. writes'[i.id] = writes[i.id]
      BY <1>1, <1>3, <2>1, <2>2, ApprovalWrites DEF ConsentInv
    <2>4. S \in SUBSET intents /\ i \notin S /\ intents' = Settle(intents, S, "activated")
      BY <1>3, <2>1 DEF CommitApproval, Numbered
    <2> HIDE DEF S
    <2>5. \A j \in intents' : j.id = i.id => j.status \in {"cancelled", "expired"}
      BY <2>4, SettledWithdrawn
    <2> QED
      BY <1>1, <2>3, <2>5, NotTakenUp
  <1> QED
    BY <1>2, <1>3 DEF FinishApproval

LEMMA QueueWithdrawn ==
    ASSUME TypeOK, ConsentInv, NEW i \in intents, Withdrawn(i),
           NEW u \in Users, NEW s \in Scopes, NEW d \in Users, Queue(u, s, d)
    PROVE  StaysWithdrawn(i.id)
  <1> DEFINE new == [id |-> requests', src |-> u, scope |-> s, dst |-> d, status |-> "pending"]
             S   == {k \in {j \in intents : j.src = u /\ j.dst = d /\ j.scope = s} :
                       k.status = "overdue"}
  <1>1. ApprovalsKept
    BY DEF Queue, ApprovalsKept, Approves
  <1>2. i.id \in Numbers /\ i.id # requests'
    <2>1. requests' \in Nat /\ requests <= requests' /\ requests < requests'
      BY RequestType, Counted DEF Queue, Request
    <2> QED
      BY <2>1, IssuedLater DEF Numbers
  <1>3. /\ writes' \in {writes, [writes EXCEPT ![requests'] = writes[requests'] + 1]}
        /\ intents' \in {intents, Settle(intents, S, "expired") \union {new}}
    <2> HIDE DEF new, S
    <2> QED
      BY DEF Queue, new, S
  <1>4. writes'[i.id] = writes[i.id]
    BY <1>2, <1>3 DEF TypeOK
  <1>5. \A j \in Settle(intents, S, "expired") : j.id = i.id => j.status \in {"cancelled", "expired"}
    <2>1. S \in SUBSET intents
      OBVIOUS
    <2> HIDE DEF S
    <2> QED
      BY <2>1, SettledWithdrawn
  <1>6. \A j \in intents : j.id = i.id => j.status \in {"cancelled", "expired"}
    BY DEF Withdrawn, ConsentInv, IntentsDistinct
  <1>7. new.id # i.id
    BY <1>2
  <1> HIDE DEF new, S
  <1> QED
    BY <1>1, <1>3, <1>4, <1>5, <1>6, <1>7, NotTakenUp

LEMMA HandlerWithdrawn ==
    ASSUME TypeOK, ConsentInv, NEW i \in intents, Withdrawn(i), NEW h \in Handlers,
           CommitUpsert(h) \/ FinishUpsert(h) \/ FlushRequest(h) \/ CommitRequest(h)
           \/ FinishRevoke(h) \/ Answer(h) \/ FinishApproval(h) \/ FinishWithdrawal(h)
    PROVE  StaysWithdrawn(i.id)
  <1> DEFINE t == txn[h]
             half == [t EXCEPT !.pc = "half"]
  <1>1. ASSUME Goto(h, Idle) PROVE ApprovalsKept
    BY <1>1, HandlerIdles DEF ApprovalsKept, Kept
  <1>2. ASSUME t.op \in {"upsert", "request"}, Goto(h, half) PROVE ApprovalsKept
    <2>1. half.op = t.op
      BY <1>2, TxnOf DEF WriteTxn
    <2>2. txn'[h] = half /\ \A g \in Handlers : g # h => txn'[g] = txn[g]
      BY <1>2 DEF TypeOK, Goto
    <2> HIDE DEF half
    <2> QED
      BY <1>2, <2>1, <2>2 DEF ApprovalsKept, Approves
  <1>3. CASE CommitUpsert(h)
    <2>1. t.op = "upsert" /\ WillWrite(h) /\ intents' = intents
      BY <1>3 DEF CommitUpsert, WillWrite
    <2>2. CASE Save(t) /\ Goto(h, half)
      BY <1>2, <2>1, <2>2, SaveWithdrawn
    <2>3. CASE Goto(h, Idle) /\ writes' = writes
      BY <1>1, <2>1, <2>3, SilentWithdrawn
    <2> QED
      BY <1>3, <2>2, <2>3 DEF CommitUpsert
  <1>4. CASE FinishUpsert(h) \/ FinishRevoke(h)
    BY <1>1, <1>4, SilentWithdrawn DEF FinishUpsert, FinishRevoke, dbVars
  <1>5. CASE FlushRequest(h)
    <2>1. t.op = "request" /\ UNCHANGED <<intents, writes>>
      BY <1>5 DEF FlushRequest, dbVars
    <2>2. Goto(h, half) \/ Goto(h, Idle)
      BY <1>5 DEF FlushRequest
    <2> QED
      BY <1>1, <1>2, <2>1, <2>2, SilentWithdrawn
  <1>6. CASE CommitRequest(h)
    <2>1. WillWrite(h) /\ Save(t) /\ Goto(h, Idle) /\ intents' = intents
      BY <1>6 DEF CommitRequest, WillWrite
    <2> QED
      BY <1>1, <2>1, SaveWithdrawn
  <1>7. CASE Answer(h)
    <2>1. /\ UNCHANGED <<intents, writes>>
          /\ t.src \in Users /\ t.dst \in Users /\ t.answer \in Levels \union {"denied"}
      BY <1>7, RespondFields DEF Answer
    <2>2. CASE Goto(h, Idle)
      BY <1>1, <2>1, <2>2, SilentWithdrawn
    <2>3. CASE t.answer # "denied" /\ StartApproval(h, t.src, t.dst, t.answer)
      <3>1. t.answer \in Levels
        BY <2>1, <2>3
      <3> HIDE DEF t
      <3> QED
        BY <2>1, <2>3, <3>1, StartWithdrawn
    <2> QED
      BY <1>7, <2>2, <2>3 DEF Answer
  <1>8. CASE FinishWithdrawal(h)
    <2>1. ApprovalsKept /\ writes' = writes
      BY <1>1, <1>8 DEF FinishWithdrawal
    <2>2. CASE intents' = intents
      BY <2>1, <2>2, SilentWithdrawn
    <2>3. ASSUME NEW st \in {"cancelled", "expired"},
                 intents' = Settle(intents, Numbered(t.ids), st)
          PROVE  StaysWithdrawn(i.id)
      <3>1. Numbered(t.ids) \in SUBSET intents
        BY DEF Numbered
      <3>2. \A j \in intents' : j.id = i.id => j.status \in {"cancelled", "expired"}
        BY <2>3, <3>1, SettledWithdrawn
      <3> QED
        BY <2>1, <3>2, NotTakenUp
    <2> QED
      BY <1>8, <2>2, <2>3 DEF FinishWithdrawal
  <1> QED
    BY <1>3, <1>4, <1>5, <1>6, <1>7, <1>8, ApprovalWithdrawn

(* Requests that begin with a read.                                        *)
LEMMA BeginningWithdrawn ==
    ASSUME TypeOK, ConsentInv, NEW i \in intents, Withdrawn(i), NEW h \in Handlers,
           \/ \E u, d \in Users, s \in Scopes :
                 Begin(h, "upsert", u, s, d) \/ Begin(h, "request", u, s, d)
           \/ \E u \in Users, s \in Scopes : Revoke(h, u, s)
           \/ \E u, d \in Users, a \in Levels \union {"denied"} : BeginRespond(h, u, d, a)
           \/ \E u, d \in Users : SendFollow(h, u, d)
           \/ \E k \in intents : BeginCancel(h, k)
           \/ \E u \in Users : BeginList(h, u)
    PROVE  StaysWithdrawn(i.id)
  <1>1. ASSUME NEW t, t.op # "approve", UNCHANGED txn \/ Goto(h, t), UNCHANGED <<intents, writes>>
        PROVE  StaysWithdrawn(i.id)
    <2>1. ApprovalsKept
      BY <1>1 DEF TypeOK, Goto, ApprovalsKept, Approves
    <2> QED
      BY <1>1, <2>1, SilentWithdrawn
  <1>2. ASSUME NEW op \in {"upsert", "request"}, NEW u \in Users, NEW d \in Users,
               NEW s \in Scopes, Begin(h, op, u, s, d)
        PROVE  StaysWithdrawn(i.id)
    <2>1. \A n : [op |-> op, pc |-> "checked", src |-> u, scope |-> s, dst |-> d,
                  ask |-> requests', row |-> n].op # "approve"
      OBVIOUS
    <2>2. UNCHANGED <<intents, writes>>
      BY <1>2 DEF Begin, dbVars
    <2>3. CASE UNCHANGED txn
      <3>1. Idle.op # "approve"
        BY DEF Idle
      <3> QED
        BY <1>1, <2>2, <2>3, <3>1
    <2>4. ASSUME NEW n, Goto(h, [op |-> op, pc |-> "checked", src |-> u, scope |-> s,
                                 dst |-> d, ask |-> requests', row |-> n])
          PROVE  StaysWithdrawn(i.id)
      BY <1>1, <2>1, <2>2, <2>4
    <2> QED
      BY <1>2, <2>3, <2>4 DEF Begin
  <1>3. ASSUME NEW u \in Users, NEW s \in Scopes, Revoke(h, u, s) PROVE StaysWithdrawn(i.id)
    <2>1. [op |-> "revoke", src |-> u, scope |-> s].op # "approve"
      OBVIOUS
    <2> QED
      BY <1>1, <1>3, <2>1 DEF Revoke
  <1>4. ASSUME NEW u \in Users, NEW d \in Users, NEW a \in Levels \union {"denied"},
               BeginRespond(h, u, d, a)
        PROVE  StaysWithdrawn(i.id)
    <2>1. [op |-> "respond", src |-> u, dst |-> d, answer |-> a].op # "approve"
      OBVIOUS
    <2> QED
      BY <1>1, <1>4, <2>1 DEF BeginRespond, dbVars
  <1>5. ASSUME NEW u \in Users, NEW d \in Users, SendFollow(h, u, d) PROVE StaysWithdrawn(i.id)
    <2>1. UNCHANGED <<intents, writes>>
      BY <1>5 DEF SendFollow
    <2>2. CASE UNCHANGED txn
      <3>1. Idle.op # "approve"
        BY DEF Idle
      <3> QED
        BY <1>1, <2>1, <2>2, <3>1
    <2>3. CASE StartApproval(h, u, d, PolicyLevel(d))
      BY <2>1, <2>3, PolicyLevelType, StartWithdrawn
    <2> QED
      BY <1>5, <2>2, <2>3 DEF SendFollow
  <1>6. ASSUME NEW k \in intents, BeginCancel(h, k) PROVE StaysWithdrawn(i.id)
    <2>1. [op |-> "cancel", ids |-> {k.id}].op # "approve"
      OBVIOUS
    <2> QED
      BY <1>1, <1>6, <2>1 DEF BeginCancel, dbVars
  <1>7. ASSUME NEW u \in Users, BeginList(h, u) PROVE StaysWithdrawn(i.id)
    <2>1. \A S : [op |-> "list", ids |-> S].op # "approve"
      OBVIOUS
    <2> QED
      BY <1>1, <1>7, <2>1 DEF BeginList, dbVars
  <1> QED
    BY <1>2, <1>3, <1>4, <1>5, <1>6, <1>7

LEMMA NextWithdrawn ==
    ASSUME TypeOK, ConsentInv, [Next]_vars, NEW i \in intents, Withdrawn(i)
    PROVE  StaysWithdrawn(i.id)
  <1>1. ASSUME UNCHANGED txn, writes' = writes, intents' \subseteq intents
        PROVE  StaysWithdrawn(i.id)
    <2>1. ApprovalsKept
      BY <1>1 DEF ApprovalsKept, Approves
    <2> QED
      BY <1>1, <2>1, SilentWithdrawn
  <1>2. ASSUME NEW k \in intents, Overdue(k) PROVE StaysWithdrawn(i.id)
    <2>1. UNCHANGED <<txn, writes>> /\ k.status = "pending"
          /\ intents' = Settle(intents, {k}, "overdue")
      BY <1>2 DEF Overdue
    <2>2. ApprovalsKept
      BY <2>1 DEF ApprovalsKept, Approves
    <2>3. \A j \in intents' : j.id = i.id => j.status \in {"cancelled", "expired"}
      BY <2>1, SettledWithdrawn
    <2> QED
      BY <2>1, <2>2, <2>3, NotTakenUp
  <1>3. CASE Restart
    <2>1. ApprovalsKept
      BY <1>3 DEF Restart, ApprovalsKept, Approves, Idle
    <2> QED
      BY <1>3, <2>1, SilentWithdrawn DEF Restart, dbVars
  <1>4. CASE \E u, d \in Users :
                \/ \E l \in Levels : UpdatePermission(u, d, l)
                \/ \E who \in {u, d} : RevokeFollow(u, d, who)
    BY <1>1, <1>4 DEF UpdatePermission, RevokeFollow
  <1>5. CASE \/ \E u \in Users : Leave(u)
             \/ \E d \in Users, t \in Topics : HardRevert(d, t)
             \/ \E S \in {Scopes, {Global}, {}} : Switch(S)
             \/ UNCHANGED vars
    BY <1>1, <1>5 DEF Leave, HardRevert, Switch, vars, dbVars
  <1>6. CASE \E h \in Handlers :
                \/ \E u, d \in Users, s \in Scopes :
                      Begin(h, "upsert", u, s, d) \/ Begin(h, "request", u, s, d)
                \/ \E u \in Users, s \in Scopes : Revoke(h, u, s)
                \/ \E u, d \in Users, a \in Levels \union {"denied"} : BeginRespond(h, u, d, a)
                \/ \E u, d \in Users : SendFollow(h, u, d)
                \/ \E k \in intents : BeginCancel(h, k)
                \/ \E u \in Users : BeginList(h, u)
    BY <1>6, BeginningWithdrawn
  <1>7. CASE \E h \in Handlers :
                \/ CommitUpsert(h) \/ FinishUpsert(h) \/ FlushRequest(h) \/ CommitRequest(h)
                \/ FinishRevoke(h) \/ Answer(h) \/ FinishApproval(h) \/ FinishWithdrawal(h)
    BY <1>7, HandlerWithdrawn
  <1>8. CASE \E u, d \in Users, s \in Scopes : Queue(u, s, d)
    BY <1>8, QueueWithdrawn
  <1> QED
    BY <1>2, <1>3, <1>4, <1>5, <1>6, <1>7, <1>8 DEF Next

(* Every number a request was given is written at most once, for what it   *)
(* asked and with permission, and what a handler is still going to write   *)
(* is in no other hands: however answers, approvals, withdrawals, expiries *)
(* and checked requests overlap between what they read and what they       *)
(* write.                                                                  *)
THEOREM ConsentCorrect == Spec => [](TypeOK /\ ConsentInv)
  <1>1. ConsentInv => IntentsDistinct /\ JobsDistinct
    BY DEF ConsentInv
  <1> QED
    BY <1>1, InitType, InitConsents, NextType, NextConsents, PTL DEF Spec

(* In every reachable state every variable has its type.                   *)
THEOREM TypeCorrect == Spec => []TypeOK
  BY ConsentCorrect, PTL

(* Every delegation on file was asked for by the delegator and permitted   *)
(* by the delegate, and the intent it came by, if it came by one, is       *)
(* closed.                                                                 *)
THEOREM BothConsent == Spec => []TwoConsents
  <1>1. ConsentInv => TwoConsents
    BY DEF ConsentInv
  <1> QED
    BY <1>1, ConsentCorrect, PTL

(* No request or intent takes effect a second time.                        *)
THEOREM NoRequestTwice == Spec => []AskedOnce
  <1>1. ConsentInv => AskedOnce
    BY DEF ConsentInv
  <1> QED
    BY <1>1, ConsentCorrect, PTL

(* An intent that was withdrawn or has expired, and that no approval has   *)
(* taken up before, never takes effect again.                              *)
THEOREM WithdrawalStands == Spec => WithdrawnForGood
  <1> DEFINE Stands == \A i \in intents : Withdrawn(i) =>
                          /\ writes'[i.id] = writes[i.id]
                          /\ \A j \in intents' : j.id = i.id => Withdrawn(j)'
  <1>1. TypeOK /\ ConsentInv /\ [Next]_vars => [Stands]_vars
    BY NextWithdrawn DEF StaysWithdrawn
  <1> QED
    BY <1>1, ConsentCorrect, PTL DEF Spec, WithdrawnForGood
=============================================================================
