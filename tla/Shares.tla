------------------------------- MODULE Shares -------------------------------
(***************************************************************************)
(* The shares (voting weights) of an organization: issuing them to a       *)
(* member, moving them between members, the authorized cap, and the rules  *)
(* that grant shares period by period in the scheduler's sweep.            *)
(*                                                                         *)
(* A request is a transaction that reads, perhaps waits for a row lock,    *)
(* and writes at its commit.  Two kinds of lock exist: the row of the      *)
(* organization, taken by whatever compares the outstanding total with the *)
(* cap, and the membership rows of a transfer.  Neither protects what was  *)
(* read before it was granted.                                             *)
(*                                                                         *)
(* Source: backend/share_service.py, backend/share_distribution.py,        *)
(* backend/routes/organizations.py, backend/pending_actions/               *)
(* share_actions.py, backend/org_config.py.                                *)
(***************************************************************************)
EXTENDS Integers, FiniteSets, Functions

CONSTANTS
    Members,
    Handlers,      \* concurrent requests
    Sweepers,      \* concurrent distribution sweeps
    Free,          \* no holder of a lock
    Operations,    \* what administrators and members do in this instance
    Weights,       \* balances an administrator may set
    Caps,          \* authorized totals an administrator may set
    Amount,        \* the grant of the distribution rule
    CATCHUP_CAP,   \* periods a sweep goes back
    MaxClock,      \* bound: elapsed intervals
    MaxRequests    \* bound: requests and changes by people

ASSUME SharesAssumption ==
    /\ IsFiniteSet(Members)
    /\ Free \notin Handlers \union Sweepers
    /\ Handlers \intersect Sweepers = {}
    /\ Weights \subseteq Nat /\ Caps \subseteq Nat
    /\ Amount \in Nat \ {0} /\ CATCHUP_CAP \in Nat \ {0}
    /\ MaxClock \in Nat /\ MaxRequests \in Nat

VARIABLES
    weight,        \* OrgMembership.voting_weight
    status,        \* OrgMembership.status; "none" when there is no membership
    start,         \* share start date, in intervals (the anchor)
    cap,           \* weighted_voting.authorized_total
    rule,          \* ShareDistributionRule.status
    clock,         \* intervals elapsed
    paid,          \* paid[m][k]: auto_distribution events of m for period k
    keys,          \* their period_keys: unique in the organization
    orgLock,       \* holder of the organization's row lock
    rowLock,       \* rowLock[m]: transfer that has locked the sender m
    txn,           \* open transactions
    requests,      \* requests so far
    pureIssue      \* no balance has ever gone down and nobody was admitted

vars == <<weight, status, start, cap, rule, clock, paid, keys, orgLock, rowLock,
          txn, requests, pureIssue>>

Periods == 1 .. MaxClock
Procs   == Handlers \union Sweepers
Idle    == [op |-> "idle"]

SetTxn      == [op : {"set"}, pc : {"read", "checked"}, m : Members, old : Nat, new : Weights]
TransferTxn == [op : {"transfer"}, pc : {"read", "locked"}, from : Members,
                to : Members, amount : Nat, old : Nat]
CapTxn      == [op : {"cap"}, new : Caps]
SweepTxn    == [op : {"sweep"}, grants : SUBSET (Members \X Periods), balance : [Members -> Nat]]
Txn         == SetTxn \union TransferTxn \union CapTxn \union SweepTxn

TypeOK ==
    /\ weight \in [Members -> Nat]
    /\ status \in [Members -> {"none", "active", "suspended"}]
    /\ start \in [Members -> Nat]
    /\ cap \in Nat
    /\ rule \in {"active", "paused"}
    /\ clock \in 0 .. MaxClock
    /\ paid \in [Members -> [Periods -> Nat]]
    /\ keys \in SUBSET (Members \X Periods)
    /\ orgLock \in Procs \union {Free}
    /\ rowLock \in [Members -> Handlers \union {Free}]
    /\ txn \in [Procs -> Txn \union {Idle}]
    /\ requests \in 0 .. MaxRequests
    /\ pureIssue \in BOOLEAN

(* org_config.outstanding_total: the active memberships only.              *)
Active == {m \in Members : status[m] = "active"}
Outstanding == SumFunctionOnSet(weight, Active)

Init ==
    /\ weight = [m \in Members |-> 1]
    /\ status \in {f \in [Members -> {"none", "active"}] : \E m \in Members : f[m] = "active"}
    /\ start = [m \in Members |-> 0]
    /\ cap \in {c \in Caps : c >= Outstanding}
    /\ rule = "active"
    /\ clock = 0
    /\ paid = [m \in Members |-> [k \in Periods |-> 0]]
    /\ keys = {}
    /\ orgLock = Free
    /\ rowLock = [m \in Members |-> Free]
    /\ txn = [p \in Procs |-> Idle]
    /\ requests = 0
    /\ pureIssue = TRUE

-----------------------------------------------------------------------------
(* Transactions.                                                           *)

Request(op) ==
    /\ op \in Operations
    /\ requests < MaxRequests
    /\ requests' = requests + 1

Begin(p, t) ==
    /\ txn[p] = Idle
    /\ txn' = [txn EXCEPT ![p] = t]

(* COMMIT or ROLLBACK: the locks of p go with it.                          *)
End(p) ==
    /\ txn' = [txn EXCEPT ![p] = Idle]
    /\ orgLock' = IF orgLock = p THEN Free ELSE orgLock
    /\ rowLock' = [m \in Members |-> IF rowLock[m] = p THEN Free ELSE rowLock[m]]

(* The organization's row is read again under its lock.                    *)
LockOrg(p) ==
    /\ orgLock = Free
    /\ orgLock' = p

(* New balances; a balance that goes down ends the pure issuance.          *)
Write(balances) ==
    /\ weight' = balances
    /\ pureIssue' = (pureIssue /\ \A m \in Members : balances[m] >= weight[m])

(* A statement that changes the row of m waits for a transfer's lock on it.*)
Unlocked(m) == rowLock[m] = Free

rest == <<status, start, cap, rule, clock, paid, keys, weight, pureIssue>>

-----------------------------------------------------------------------------
(* Issuing: set_member_weight, by the endpoint or by a ratified action.    *)

BeginSet(h, m, n) ==
    /\ Request("set")
    /\ status[m] # "none"
    /\ n # weight[m]
    /\ Begin(h, [op |-> "set", pc |-> "read", m |-> m, old |-> weight[m], new |-> n])
    /\ UNCHANGED <<rest, orgLock, rowLock>>

\* Mutant: the outstanding total is read without the organization's lock.
CheckCapUnlocked(h) ==
    /\ txn[h].op = "set" /\ txn[h].pc = "read" /\ txn[h].new > txn[h].old
    /\ IF Outstanding + (txn[h].new - txn[h].old) <= cap
       THEN /\ txn' = [txn EXCEPT ![h].pc = "checked"]
            /\ UNCHANGED <<orgLock, rowLock>>
       ELSE End(h)
    /\ UNCHANGED <<rest, requests>>

(* An increase locks the organization and compares the total with the cap; *)
(* the old balance in the difference is the one read at the beginning.     *)
CheckCap(h) ==
    /\ txn[h].op = "set" /\ txn[h].pc = "read" /\ txn[h].new > txn[h].old
    /\ orgLock = Free
    /\ IF Outstanding + (txn[h].new - txn[h].old) <= cap
       THEN /\ LockOrg(h)
            /\ txn' = [txn EXCEPT ![h].pc = "checked"]
            /\ UNCHANGED rowLock
       ELSE End(h)
    /\ UNCHANGED <<rest, requests>>

(* The balance is written as it was asked for; a decrease needs no lock.   *)
FinishSet(h) ==
    /\ txn[h].op = "set"
    /\ txn[h].pc = "checked" \/ txn[h].new < txn[h].old
    /\ Unlocked(txn[h].m)
    /\ Write([weight EXCEPT ![txn[h].m] = txn[h].new])
    /\ End(h)
    /\ UNCHANGED <<status, start, cap, rule, clock, paid, keys, requests>>

-----------------------------------------------------------------------------
(* Transfers between members.                                              *)

(* require_org_membership loads the sender's row into the session.         *)
BeginTransfer(h, a, b, n) ==
    /\ Request("transfer")
    /\ a # b
    /\ status[a] = "active"
    /\ Begin(h, [op |-> "transfer", pc |-> "read", from |-> a, to |-> b,
                 amount |-> n, old |-> weight[a]])
    /\ UNCHANGED <<rest, orgLock, rowLock>>

(* The lock on the sender's row is granted; the WHERE clause is evaluated  *)
(* on the new row, but the object in the session keeps the old balance.    *)
LockSender(h) ==
    /\ txn[h].op = "transfer" /\ txn[h].pc = "read"
    /\ Unlocked(txn[h].from)
    /\ IF status[txn[h].from] = "active"
       THEN /\ rowLock' = [rowLock EXCEPT ![txn[h].from] = h]
            /\ txn' = [txn EXCEPT ![h].pc = "locked"]
            /\ UNCHANGED orgLock
       ELSE End(h)
    /\ UNCHANGED <<rest, requests>>

\* Mutant: the balance of the sender is not looked at.
FinishTransferUnfunded(h) ==
    /\ txn[h].op = "transfer" /\ txn[h].pc = "locked"
    /\ Unlocked(txn[h].to)
    /\ Write([weight EXCEPT ![txn[h].from] = txn[h].old - txn[h].amount,
                            ![txn[h].to] = @ + txn[h].amount])
    /\ End(h)
    /\ UNCHANGED <<status, start, cap, rule, clock, paid, keys, requests>>

(* The recipient's row is locked and read, and transfer_shares writes both *)
(* balances.                                                               *)
FinishTransfer(h) ==
    /\ txn[h].op = "transfer" /\ txn[h].pc = "locked"
    /\ Unlocked(txn[h].to)
    /\ IF status[txn[h].to] = "active" /\ txn[h].old >= txn[h].amount
       THEN Write([weight EXCEPT ![txn[h].from] = txn[h].old - txn[h].amount,
                                 ![txn[h].to] = @ + txn[h].amount])
       ELSE UNCHANGED <<weight, pureIssue>>
    /\ End(h)
    /\ UNCHANGED <<status, start, cap, rule, clock, paid, keys, requests>>

(* Two opposite transfers hold each other's recipient: the database ends   *)
(* one of them.                                                            *)
DeadlockAbort(h) ==
    /\ txn[h].op = "transfer" /\ txn[h].pc = "locked"
    /\ LET g == rowLock[txn[h].to] IN
         g # Free /\ txn[g].pc = "locked" /\ txn[g].to = txn[h].from
    /\ End(h)
    /\ UNCHANGED <<rest, requests>>

-----------------------------------------------------------------------------
(* Other changes by people.                                                *)

(* The cap, by the settings or by a ratified cap_raise: never below what   *)
(* is outstanding when the organization's lock is granted.                 *)
BeginCap(h, c) ==
    /\ Request("cap")
    /\ c # cap /\ c >= Outstanding
    /\ LockOrg(h)
    /\ Begin(h, [op |-> "cap", new |-> c])
    /\ UNCHANGED <<rest, rowLock>>

FinishCap(h) ==
    /\ txn[h].op = "cap"
    /\ cap' = txn[h].new
    /\ End(h)
    /\ UNCHANGED <<weight, status, start, rule, clock, paid, keys, requests, pureIssue>>

(* Joining, suspension and reactivation know nothing of the cap.           *)
Join(m) ==
    /\ Request("admit")
    /\ status[m] = "none"
    /\ status' = [status EXCEPT ![m] = "active"]
    /\ pureIssue' = FALSE
    /\ UNCHANGED <<weight, start, cap, rule, clock, paid, keys, orgLock, rowLock, txn>>

Suspend(m) ==
    /\ Request("suspend")
    /\ status[m] = "active" /\ Unlocked(m)
    /\ status' = [status EXCEPT ![m] = "suspended"]
    /\ UNCHANGED <<weight, start, cap, rule, clock, paid, keys, orgLock, rowLock, txn,
                   pureIssue>>

Reactivate(m) ==
    /\ Request("admit")
    /\ status[m] = "suspended" /\ Unlocked(m)
    /\ status' = [status EXCEPT ![m] = "active"]
    /\ pureIssue' = FALSE
    /\ UNCHANGED <<weight, start, cap, rule, clock, paid, keys, orgLock, rowLock, txn>>

(* The rule is paused or resumed, and a member's start date is moved,      *)
(* without any lock.                                                       *)
ToggleRule ==
    /\ Request("rule")
    /\ rule' = IF rule = "active" THEN "paused" ELSE "active"
    /\ UNCHANGED <<weight, status, start, cap, clock, paid, keys, orgLock, rowLock, txn,
                   pureIssue>>

MoveStart(m) ==
    /\ Request("rule")
    /\ Unlocked(m)
    /\ start' \in {[start EXCEPT ![m] = s] : s \in {0, 1} \ {start[m]}}
    /\ UNCHANGED <<weight, status, cap, rule, clock, paid, keys, orgLock, rowLock, txn,
                   pureIssue>>

-----------------------------------------------------------------------------
(* The distribution sweep.                                                 *)

(* _elapsed_k: the last period that has begun for m.                       *)
MaxK(m) == clock - start[m]

(* Periods a sweep looks at: the last CATCHUP_CAP of them.                 *)
Window(m) == {k \in Periods : k <= MaxK(m) /\ k > MaxK(m) - CATCHUP_CAP}

\* Mutant: the key counts from the oldest period of the sweep.
RelativeKey(m, k) ==
    IF MaxK(m) > CATCHUP_CAP THEN <<m, k - (MaxK(m) - CATCHUP_CAP)>> ELSE <<m, k>>

(* period_key: "rule : member : k".                                        *)
period_key(m, k) == <<m, k>>

(* _period_exists is false.                                                *)
DuePeriods ==
    {p \in Active \X Periods : p[2] \in Window(p[1]) /\ period_key(p[1], p[2]) \notin keys}

Headroom(due) == {n \in 0 .. Cardinality(due) : Outstanding + n * Amount <= cap}

(* The periods granted of those due: as many as the cap has room for,      *)
(* and of one member the oldest first.                                     *)
Grantable(due) ==
    {g \in SUBSET due :
        /\ Cardinality(g) \in Headroom(due)
        /\ \A n \in Headroom(due) : n <= Cardinality(g)
        /\ \A p \in due, q \in g : p[1] = q[1] /\ p[2] < q[2] => p \in g}

(* run_rule takes the lock, then reads the rule's targets with their       *)
(* balances, and decides what to grant.                                    *)
BeginSweep(s) ==
    /\ rule = "active"
    /\ DuePeriods # {}
    /\ Headroom(DuePeriods) # {}
    /\ LockOrg(s)
    /\ \E g \in Grantable(DuePeriods) :
         Begin(s, [op |-> "sweep", grants |-> g, balance |-> weight])
    /\ UNCHANGED <<rest, rowLock, requests>>

Grants(t, m) == Cardinality({g \in t.grants : g[1] = m})

\* Mutant: a grant the cap has no room for still uses its period up.
KeysWithSkipped(t) ==
    {period_key(p[1], p[2]) : p \in {q \in Active \X Periods : q[2] \in Window(q[1])}}

KeysUsed(t) == {period_key(g[1], g[2]) : g \in t.grants}

(* The sweep writes the balances it read, increased, and its events.       *)
FinishSweep(s) ==
    /\ txn[s].op = "sweep"
    /\ KeysUsed(txn[s]) \intersect keys = {}
    /\ \A g \in txn[s].grants : Unlocked(g[1])
    /\ Write([m \in Members |-> IF Grants(txn[s], m) = 0 THEN weight[m]
                                ELSE txn[s].balance[m] + Grants(txn[s], m) * Amount])
    /\ paid' = [m \in Members |-> [k \in Periods |->
                  paid[m][k] + IF <<m, k>> \in txn[s].grants THEN 1 ELSE 0]]
    /\ keys' = keys \union KeysUsed(txn[s])
    /\ End(s)
    /\ UNCHANGED <<status, start, cap, rule, clock, requests>>

(* A failure, a deadlock with a transfer or the death of the process: the  *)
(* rule is rolled back, and the next sweep starts again.                   *)
AbortSweep(s) ==
    /\ txn[s].op = "sweep"
    /\ End(s)
    /\ UNCHANGED <<rest, requests>>

Tick ==
    /\ clock < MaxClock
    /\ clock' = clock + 1
    /\ UNCHANGED <<weight, status, start, cap, rule, paid, keys, orgLock, rowLock, txn,
                   requests, pureIssue>>

-----------------------------------------------------------------------------
Finish(h) ==
    CheckCap(h) \/ FinishSet(h) \/ LockSender(h) \/ FinishTransfer(h)
    \/ DeadlockAbort(h) \/ FinishCap(h)

Next ==
    \/ \E h \in Handlers, m \in Members, n \in Weights : BeginSet(h, m, n)
    \/ \E h \in Handlers, a, b \in Members, n \in Weights \ {0} : BeginTransfer(h, a, b, n)
    \/ \E h \in Handlers, c \in Caps : BeginCap(h, c)
    \/ \E h \in Handlers : Finish(h)
    \/ \E m \in Members : Join(m) \/ Suspend(m) \/ Reactivate(m) \/ MoveStart(m)
    \/ ToggleRule
    \/ \E s \in Sweepers : BeginSweep(s) \/ FinishSweep(s) \/ AbortSweep(s)
    \/ Tick

(* Requests end.  Lock queues are served in order, so a sweep that waits   *)
(* for a lock gets it, and not every sweep fails.                          *)
Fairness ==
    /\ \A h \in Handlers : WF_vars(Finish(h))
    /\ SF_vars(\E s \in Sweepers : BeginSweep(s))
    /\ SF_vars(\E s \in Sweepers : FinishSweep(s))

Spec == Init /\ [][Next]_vars /\ Fairness

-----------------------------------------------------------------------------
(* Properties.                                                             *)

(* No member is granted one period twice, with two sweeps at once, sweeps  *)
(* that fail, and start dates that move (share_distribution.py:313).       *)
GrantedOnce == \A m \in Members, k \in Periods : paid[m][k] <= 1

(* As long as shares are only issued (no balance has gone down, nobody was *)
(* admitted) the outstanding total stays within the cap, for any mix of    *)
(* direct and ratified issues, sweeps and changes of the cap               *)
(* (share_service.py:63: the organization's row as the shared mutex).      *)
CapHolds == pureIssue => Outstanding <= cap

(* Again and again there is no backlog: every period of the window that a  *)
(* sweep catches up is granted, unless the rule is paused, the member is   *)
(* gone or the cap has no room (share_distribution.py:309, :352).          *)
Settled(m, k) ==
    \/ paid[m][k] > 0
    \/ rule # "active" \/ status[m] # "active"
    \/ Outstanding + Amount > cap
BacklogCleared == []<>(\A m \in Members : \A k \in Window(m) : Settled(m, k))

(* organizations.py:2825: a transfer "conserves the org total", and        *)
(* :2839: "so two simultaneous transfers can't overdraw".                  *)
TransferConserves ==
    [][\A h \in Handlers : FinishTransfer(h) =>
         SumFunctionOnSet(weight', Members) = SumFunctionOnSet(weight, Members)]_vars
=============================================================================
