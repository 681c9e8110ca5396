--------------------------- MODULE PendingActions ---------------------------
(***************************************************************************)
(* N-of-M ratification of destructive administrator actions: submit,       *)
(* approve, decline, execution when the threshold is met, and expiry by    *)
(* the scheduler.                                                          *)
(*                                                                         *)
(* Every request is a transaction of its own session.  It first loads the  *)
(* action (db.get, no row lock), then decides on what it loaded and on     *)
(* committed data, and only its commit makes the writes visible; no        *)
(* version column or status guard protects the row, so the last commit     *)
(* wins.  The action modelled is role_permissions.edit, whose executor     *)
(* changes several cells of the permission matrix one after the other; of  *)
(* the others, those with a single write are its one-cell case.            *)
(*                                                                         *)
(* Source: backend/pending_actions/engine.py, registry.py, settings.py,    *)
(* backend/routes/pending_actions.py.                                      *)
(***************************************************************************)
EXTENDS Naturals, Sequences, FiniteSets

CONSTANTS
    Users,        \* members of the organization
    Actions,      \* identifiers of submitted actions
    Cells,        \* cells of the permission matrix
    Payload,      \* Payload[a]: the cells action a flips, in order
    Handlers,     \* request handlers that run at the same time
    Thresholds,   \* approvals the settings may ask for
    MaxChanges    \* bound: role and mode changes by others

ASSUME PendingAssumption ==
    /\ IsFiniteSet(Users) /\ Users # {}
    /\ Payload \in [Actions -> Seq(Cells) \ {<<>>}]
    /\ Thresholds \subseteq Nat \ {0} /\ Thresholds # {}
    /\ MaxChanges \in Nat

VARIABLES
    row,          \* row[a]: the PendingAdminAction
    decision,     \* decision[a][u]: the PendingActionApproval of u
    holders,      \* users who hold the permission: approvers and initiators
    matrix,       \* cells that are flipped in the permission matrix
    locked,       \* cells the governance mode locks
    written,      \* written[a]: cells committed on behalf of a
    txn,          \* txn[h]: the open transaction of handler h
    sweep,        \* rows the expiry sweep has listed and not yet committed
    changes       \* role and mode changes so far

rows   == <<row, decision, written>>
org    == <<holders, locked, changes>>
vars   == <<row, decision, holders, matrix, locked, written, txn, sweep, changes>>

Final    == {"executed", "declined", "expired", "failed"}
Status   == {"none", "pending"} \union Final
Verdicts == {"none", "approve", "decline"}

(* A row: its status, who submitted it, the approvals it needs, the matrix *)
(* snapshot stored in its payload, and whether expires_at has passed.      *)
Row == [status : Status, initiator : Users, threshold : Thresholds,
        baseline : SUBSET Cells, due : BOOLEAN]

NoRow == [status |-> "none", initiator |-> CHOOSE u \in Users : TRUE,
          threshold |-> CHOOSE n \in Thresholds : TRUE,
          baseline |-> {}, due |-> FALSE]

(* A transaction: who acts on which action; the status it has loaded; the  *)
(* decision it inserts, the cells it writes and the status it will write   *)
(* ("none" leaves the status alone).                                       *)
Txn == [pc : {"loaded", "flushed"}, user : Users, act : Actions, seen : Status,
        verdict : Verdicts, cells : SUBSET Cells, status : Status]
Idle == [pc |-> "idle"]

SeqCells(s) == {s[i] : i \in DOMAIN s}

TypeOK ==
    /\ row \in [Actions -> Row]
    /\ decision \in [Actions -> [Users -> Verdicts]]
    /\ holders \in SUBSET Users
    /\ matrix \in SUBSET Cells
    /\ locked \in SUBSET Cells
    /\ written \in [Actions -> SUBSET Cells]
    /\ txn \in [Handlers -> Txn \union {Idle}]
    /\ sweep \in SUBSET Actions
    /\ changes \in 0 .. MaxChanges

Init ==
    /\ row = [a \in Actions |-> NoRow]
    /\ decision = [a \in Actions |-> [u \in Users |-> "none"]]
    /\ holders \in SUBSET Users
    /\ matrix = {}
    /\ locked \in SUBSET Cells
    /\ written = [a \in Actions |-> {}]
    /\ txn = [h \in Handlers |-> Idle]
    /\ sweep = {}
    /\ changes = 0

-----------------------------------------------------------------------------
(* Helpers of the engine.                                                  *)

Approvers(a) == {u \in Users : decision[a][u] = "approve"}

_approval_count(a) == Cardinality(Approvers(a))

_already_decided(a, u) == decision[a][u] # "none"

\* Mutant: no unique constraint holds back the second request of a user.
NeverBlocked(h, a, u) == FALSE

(* Another session has inserted a decision of the same user for the same   *)
(* action: the unique constraint makes this one wait for its end.          *)
InsertBlocked(h, a, u) ==
    \E g \in Handlers \ {h} :
        txn[g].pc = "flushed" /\ txn[g].act = a /\ txn[g].user = u

(* execute_role_permissions_edit writes cell after cell and raises at the  *)
(* first locked one; the cells before it stay in the session.              *)
WrittenPrefix(a) ==
    {Payload[a][i] : i \in {j \in DOMAIN Payload[a] :
        \A k \in 1 .. j : Payload[a][k] \notin locked}}

\* Mutant: a refusal of the executor is taken for success.
ExecuteAnyway(a, by, base) ==
    IF by \notin holders \/ matrix # base
    THEN [status |-> "failed", cells |-> {}]
    ELSE [status |-> "executed", cells |-> WrittenPrefix(a)]

\* Mutant: the resolution is spelt differently from the other places.
ExecuteMisspelt(a, by, base) ==
    [status |-> "completed", cells |-> WrittenPrefix(a)]

(* The whole of _execute_now: the initiator must still be authorized, the  *)
(* matrix must be the one the approvers saw, and the executor must not     *)
(* raise.  Any HTTPException resolves the action as failed, and the caller *)
(* commits whatever the executor had written by then.                      *)
_execute_now(a, by, base) ==
    IF by \notin holders \/ matrix # base
    THEN [status |-> "failed", cells |-> {}]
    ELSE [status |-> IF WrittenPrefix(a) = SeqCells(Payload[a])
                     THEN "executed" ELSE "failed",
          cells  |-> WrittenPrefix(a)]

-----------------------------------------------------------------------------
(* Requests.                                                               *)

(* submit_pending_action with its commit; threshold_for and the approver   *)
(* set are read once and the threshold is stored in the row.  The new row  *)
(* is visible to nobody before the commit, so the request is one step.     *)
(* The deadlock guard acts without a row when the initiator has nobody to  *)
(* ask; an executor that raises there rolls the request back.              *)
Submit(u, a, threshold) ==
    /\ row[a].status = "none" /\ written[a] = {}
    /\ u \in holders
    /\ IF Cardinality(holders) < threshold \/ holders = {u}
       THEN /\ WrittenPrefix(a) = SeqCells(Payload[a])
            /\ matrix' = matrix \union SeqCells(Payload[a])
            /\ written' = [written EXCEPT ![a] = SeqCells(Payload[a])]
            /\ UNCHANGED <<row, decision>>
       ELSE LET run == IF threshold <= 1 THEN _execute_now(a, u, matrix)
                       ELSE [status |-> "pending", cells |-> {}]
            IN /\ row' = [row EXCEPT ![a] =
                       [status |-> run.status, initiator |-> u, threshold |-> threshold,
                        baseline |-> matrix, due |-> FALSE]]
               /\ decision' = [decision EXCEPT ![a][u] = "approve"]
               /\ matrix' = matrix \union run.cells
               /\ written' = [written EXCEPT ![a] = run.cells]
    /\ UNCHANGED <<org, txn, sweep>>

(* The endpoint loads the action: the status it sees from here on is this  *)
(* one, whatever others commit.                                            *)
Load(h, u, a) ==
    /\ txn[h] = Idle
    /\ row[a].status # "none"
    /\ txn' = [txn EXCEPT ![h] =
         [pc |-> "loaded", user |-> u, act |-> a, seen |-> row[a].status,
          verdict |-> "none", cells |-> {}, status |-> "none"]]
    /\ UNCHANGED <<rows, matrix, org, sweep>>

\* Mutant: somebody who has decided may decide again.
MayDecideAgain(h) ==
    /\ txn[h].seen = "pending"
    /\ txn[h].user \in holders

MayDecide(h) ==
    /\ txn[h].seen = "pending"
    /\ txn[h].user \in holders
    /\ ~_already_decided(txn[h].act, txn[h].user)

(* approve_pending_action: insert, count what is committed plus one's own  *)
(* row, and execute if that is enough.                                     *)
Approve(h) ==
    /\ txn[h].pc = "loaded"
    /\ ~InsertBlocked(h, txn[h].act, txn[h].user)
    /\ MayDecide(h)
    /\ LET a   == txn[h].act
           run == IF _approval_count(a) + 1 >= row[a].threshold
                  THEN _execute_now(a, row[a].initiator, row[a].baseline)
                  ELSE [status |-> "none", cells |-> {}]
       IN txn' = [txn EXCEPT ![h].pc = "flushed", ![h].verdict = "approve",
                             ![h].status = run.status, ![h].cells = run.cells]
    /\ UNCHANGED <<rows, matrix, org, sweep>>

(* decline_pending_action: one decline vetoes.                             *)
Decline(h) ==
    /\ txn[h].pc = "loaded"
    /\ ~InsertBlocked(h, txn[h].act, txn[h].user)
    /\ MayDecide(h)
    /\ txn' = [txn EXCEPT ![h].pc = "flushed", ![h].verdict = "decline",
                          ![h].status = "declined"]
    /\ UNCHANGED <<rows, matrix, org, sweep>>

(* 400, 403 or 409: the request ends and has changed nothing.              *)
Refuse(h) ==
    /\ txn[h].pc = "loaded"
    /\ ~InsertBlocked(h, txn[h].act, txn[h].user)
    /\ ~MayDecide(h)
    /\ txn' = [txn EXCEPT ![h] = Idle]
    /\ UNCHANGED <<rows, matrix, org, sweep>>

\* Mutant: the whole loaded row is written back, its status included.
WriteLoadedRow(t) ==
    [row EXCEPT ![t.act].status = IF t.status = "none" THEN t.seen ELSE t.status]

(* A write of the loaded row: whatever status is there is overwritten.     *)
WriteStatus(t) ==
    IF t.status = "none" THEN row ELSE [row EXCEPT ![t.act].status = t.status]

(* The endpoint's commit.                                                  *)
Commit(h) ==
    /\ txn[h].pc = "flushed"
    /\ LET t == txn[h] IN
         /\ row' = WriteStatus(t)
         /\ decision' = [decision EXCEPT ![t.act][t.user] = t.verdict]
         /\ written' = [written EXCEPT ![t.act] = @ \union t.cells]
         /\ matrix' = matrix \union t.cells
    /\ txn' = [txn EXCEPT ![h] = Idle]
    /\ UNCHANGED <<org, sweep>>

(* The process dies, the connection is lost or an exception that is not an *)
(* HTTPException escapes: the session is rolled back.                      *)
Crash(h) ==
    /\ txn[h] # Idle
    /\ txn' = [txn EXCEPT ![h] = Idle]
    /\ UNCHANGED <<rows, matrix, org, sweep>>

-----------------------------------------------------------------------------
(* The scheduler.                                                          *)

Due == {a \in Actions : row[a].status = "pending" /\ row[a].due}

(* expire_due_pending_actions: list, without locks ...                     *)
ListDue ==
    /\ sweep = {} /\ Due # {}
    /\ sweep' = Due
    /\ UNCHANGED <<rows, matrix, org, txn>>

(* ... set every listed row, and commit once.                              *)
Expire ==
    /\ sweep # {}
    /\ row' = [a \in Actions |->
         IF a \in sweep THEN [row[a] EXCEPT !.status = "expired"] ELSE row[a]]
    /\ sweep' = {}
    /\ UNCHANGED <<decision, written, matrix, org, txn>>

CrashSweep ==
    /\ sweep # {}
    /\ sweep' = {}
    /\ UNCHANGED <<rows, matrix, org, txn>>

(* expires_at passes.  Only the sweep looks at it; approving does not.     *)
WindowElapses(a) ==
    /\ row[a].status # "none" /\ ~row[a].due
    /\ row' = [row EXCEPT ![a].due = TRUE]
    /\ UNCHANGED <<decision, written, matrix, org, txn, sweep>>

-----------------------------------------------------------------------------
(* The rest of the organization.                                           *)

(* A role is granted or taken away.                                        *)
ChangeRole(u) ==
    /\ changes < MaxChanges
    /\ holders' = (holders \ {u}) \union ({u} \ holders)
    /\ changes' = changes + 1
    /\ UNCHANGED <<rows, matrix, locked, txn, sweep>>

(* A change of governance mode moves the self-lockout protection.          *)
ChangeMode ==
    /\ changes < MaxChanges
    /\ locked' \in SUBSET Cells
    /\ changes' = changes + 1
    /\ UNCHANGED <<rows, matrix, holders, txn, sweep>>

-----------------------------------------------------------------------------
Next ==
    \/ \E u \in Users, a \in Actions, n \in Thresholds : Submit(u, a, n)
    \/ \E h \in Handlers, u \in Users, a \in Actions : Load(h, u, a)
    \/ \E h \in Handlers : Approve(h) \/ Decline(h) \/ Refuse(h) \/ Commit(h) \/ Crash(h)
    \/ ListDue \/ Expire \/ CrashSweep
    \/ \E a \in Actions : WindowElapses(a)
    \/ \E u \in Users : ChangeRole(u)
    \/ ChangeMode

(* Time passes.  The scheduler ticks for ever and a tick that lists rows   *)
(* does commit again and again, although any single one may crash.         *)
Fairness ==
    /\ \A a \in Actions : WF_vars(WindowElapses(a))
    /\ WF_vars(ListDue)
    /\ SF_vars(Expire)

Spec == Init /\ [][Next]_vars /\ Fairness

-----------------------------------------------------------------------------
(* Properties.                                                             *)

(* Nothing is changed on behalf of a queued action without the threshold   *)
(* of approvals on file, however requests, vetoes and the sweep interleave *)
(* (engine.py:338: the count sees committed rows and one's own).           *)
QuorumBehindWrites ==
    \A a \in Actions :
        row[a].status # "none" /\ written[a] # {} => Cardinality(Approvers(a)) >= row[a].threshold

(* An action that reads "executed" has been applied as a whole: status and *)
(* payload are committed together (engine.py:450-456).                     *)
ExecutedIsComplete ==
    \A a \in Actions : row[a].status = "executed" => written[a] = SeqCells(Payload[a])

(* A decision on file is never withdrawn or turned into its opposite, not  *)
(* even by a second request of the same user that raced with the first     *)
(* (models.py:2237, unique constraint; engine.py:316).                     *)
DecisionsStand ==
    [][\A a \in Actions, u \in Users :
        decision[a][u] # "none" => decision'[a][u] = decision[a][u]]_decision

(* The queue implements what it promises: effect only with a quorum, and   *)
(* closed stays closed; every action is closed in the end, because the     *)
(* sweep expires what nobody resolves (engine.py:525).                     *)
Promise == INSTANCE Ratification WITH
    People    <- Users,
    Matters   <- Actions,
    Quorums   <- Thresholds,
    needed    <- [a \in Actions |-> row[a].threshold],
    stage     <- [a \in Actions |-> CASE row[a].status = "none" -> "absent"
                                      [] row[a].status = "pending" -> "open"
                                      [] OTHER -> "closed"],
    endorsers <- [a \in Actions |-> Approvers(a)],
    enacted   <- {a \in Actions : written[a] # {}}

ImplementsRatification == Promise!Spec

(* registry.py:20: an executor "refuses to execute on invalid state; never *)
(* partially applies".                                                     *)
NeverPartiallyApplied ==
    \A a \in Actions : written[a] \in {{}, SeqCells(Payload[a])}
=============================================================================
