----------------------------- MODULE Delegation -----------------------------
(***************************************************************************)
(* Who delegates to whom in one organization: the delegation rows, the     *)
(* follows and intents that permit them, and the graph that every process  *)
(* keeps in memory to refuse cycles.                                       *)
(*                                                                         *)
(* The rows are the truth that ballots are counted by; the graph is only   *)
(* looked at to answer would_create_cycle.  A request reads, decides, and  *)
(* later commits; depending on the endpoint it updates the graph after the *)
(* commit or before it.  Requests run in the threads of one process.       *)
(* The endpoints that write what they read earlier (direct delegations,    *)
(* answers and the approvals they start, withdrawals and lists of intents) *)
(* are split at that point; the others are one step.                       *)
(*                                                                         *)
(* Source: backend/routes/delegations.py, backend/routes/follows.py,       *)
(* backend/routes/delegate_profiles.py, backend/permissions.py,            *)
(* backend/delegation_engine.py (DelegationGraphStore), backend/           *)
(* org_leave.py.                                                           *)
(***************************************************************************)
EXTENDS Integers, FiniteSets

CONSTANTS
    Users,
    Topics,
    Global,        \* the scope of a delegation without a topic
    Handlers,      \* concurrent requests
    Operations,    \* what people do in this instance
    Policies,      \* default_follow_policy values in this instance
    MaxRequests    \* bound: requests

ASSUME DelegationAssumption ==
    /\ Global \notin Topics
    /\ Policies \subseteq {"require_approval", "auto_approve_view", "auto_approve_delegate"}
    /\ MaxRequests \in Nat

VARIABLES
    rows,          \* Delegation rows, with the request that wrote them last
    graph,         \* graph[s]: edges in memory
    members,       \* active members
    policy,        \* User.default_follow_policy
    profile,       \* profile[d][t]: DelegateProfile.visibility
    follow,        \* follow[u][d]: FollowRelationship.permission_level
    freq,          \* freq[u][d]: FollowRequest.status
    intents,       \* DelegationIntent rows
    writable,      \* scopes in which delegation is switched on
    txn,           \* open requests
    requests,      \* requests so far; numbers rows and intents
    admitted,      \* <<u, s, d>> that d has permitted at some time
    writes         \* writes[n]: rows written on account of request n

dbVars == <<rows, members, policy, profile, follow, freq, intents, writable>>
vars   == <<dbVars, graph, txn, requests, admitted, writes>>

Scopes  == Topics \union {Global}
Numbers == 1 .. MaxRequests
Pairs   == Users \X Users
Edges(R, s) == {<<r.src, r.dst>> : r \in {x \in R : x.scope = s}}

Row    == [id : Numbers, src : Users, scope : Scopes, dst : Users, ask : Numbers]
Intent == [id : Numbers, src : Users, scope : Scopes, dst : Users,
           status : {"pending", "overdue", "activated", "cancelled", "expired"}]
Levels == {"view_only", "delegation_allowed"}
Idle   == [op |-> "idle"]
Job    == [ask : Numbers, scope : Scopes, row : Numbers \union {0}]
Txn    == [op : {"upsert", "request"}, pc : {"checked", "half"}, src : Users,
           scope : Scopes, dst : Users, ask : Numbers, row : Numbers \union {0}]
          \union [op : {"revoke"}, src : Users, scope : Scopes]
          \union [op : {"respond"}, src : Users, dst : Users,
                  answer : Levels \union {"denied"}]
          \union [op : {"approve"}, src : Users, dst : Users, level : Levels,
                  fresh : BOOLEAN, jobs : SUBSET Job]
          \union [op : {"cancel", "list"}, ids : SUBSET Numbers]

TypeOK ==
    /\ rows \subseteq Row
    /\ graph \in [Scopes -> SUBSET Pairs]
    /\ members \subseteq Users
    /\ policy \in [Users -> Policies]
    /\ profile \in [Users -> [Topics -> {"none", "followers_only", "public"}]]
    /\ follow \in [Users -> [Users -> Levels \union {"none"}]]
    /\ freq \in [Users -> [Users -> {"none", "pending", "approved", "denied"}]]
    /\ intents \subseteq Intent
    /\ writable \subseteq Scopes
    /\ txn \in [Handlers -> Txn \union {Idle}]
    /\ requests \in 0 .. MaxRequests
    /\ admitted \subseteq Users \X Scopes \X Users
    /\ writes \in [Numbers -> Nat]

-----------------------------------------------------------------------------
(* permissions.can_delegate_to.                                            *)

CanDelegate(f, p, u, d, s) ==
    \/ f[u][d] = "delegation_allowed"
    \/ \E t \in Topics : p[d][t] = "public" /\ s \in {t, Global}

Admissions(f, p) ==
    {a \in Users \X Scopes \X Users : CanDelegate(f, p, a[1], a[3], a[2])}

-----------------------------------------------------------------------------
(* DelegationGraphStore.                                                   *)

Acyclic(E) ==
    \A S \in (SUBSET Users) \ {{}} : \E x \in S : \A y \in S : <<x, y>> \notin E

Cyclic(g, s, e) == ~Acyclic(g[s] \union {e})

WouldCreateCycle(g, s, e) == Cyclic(g, s, e) \/ Cyclic(g, Global, e)

\* The test adds the edge and takes it out again, an edge that was there
\* before included; the graph of the topic comes first.
Probe(g, s, e) ==
    [x \in Scopes |->
        IF x = s \/ (x = Global /\ ~Cyclic(g, s, e)) THEN g[x] \ {e} ELSE g[x]]

Without(g, u, S) == [s \in Scopes |-> IF s \in S THEN {e \in g[s] : e[1] # u} ELSE g[s]]

add_delegation(g, u, s, d) == [Without(g, u, {s}) EXCEPT ![s] = @ \union {<<u, d>>}]

Rebuilt(R) == [s \in Scopes |-> Edges(R, s)]

-----------------------------------------------------------------------------
Init ==
    /\ rows = {}
    /\ graph = Rebuilt(rows)
    /\ members = Users
    /\ policy \in [Users -> Policies]
    /\ profile \in [Users -> [Topics -> {"none", "public"}]]
    /\ follow = [u \in Users |-> [d \in Users |-> "none"]]
    /\ freq = [u \in Users |-> [d \in Users |-> "none"]]
    /\ intents = {}
    /\ writable = Scopes
    /\ txn = [h \in Handlers |-> Idle]
    /\ requests = 0
    /\ admitted = Admissions(follow, profile)
    /\ writes = [n \in Numbers |-> 0]

(* A request of a member; it takes the next number.                        *)
Request(op, u) ==
    /\ op \in Operations
    /\ u \in members
    /\ requests < MaxRequests
    /\ requests' = requests + 1

Goto(h, t) == txn' = [txn EXCEPT ![h] = t]

Permit(f, p) == admitted' = admitted \union Admissions(f, p)

(* The transactions of upsert and request hold a row they have flushed.    *)
Flushed(n) ==
    n # 0 /\ \E h \in Handlers : txn[h].op = "request" /\ txn[h].pc = "half" /\ txn[h].row = n

(* An approval holds the follow request of its pair until it commits.      *)
Unlocked(u, d) ==
    \A h \in Handlers : txn[h].op = "approve" => <<txn[h].src, txn[h].dst>> # <<u, d>>

Existing(u, s) == {r \in rows : r.src = u /\ r.scope = s}
RowNumbers(u, s) ==
    IF Existing(u, s) = {} THEN {0} ELSE {r.id : r \in Existing(u, s)}

-----------------------------------------------------------------------------
(* upsert_delegation, and request_delegation when the delegate may be      *)
(* chosen at once.                                                         *)

\* Mutant: a follow of any level is taken as permission.
BeginByAnyFollow(h, op, u, s, d) ==
    /\ Request(op, u)
    /\ txn[h] = Idle
    /\ u # d
    /\ s \in writable
    /\ CanDelegate(follow, profile, u, d, s) \/ follow[u][d] # "none"
    /\ graph' = Probe(graph, s, <<u, d>>)
    /\ ~WouldCreateCycle(graph, s, <<u, d>>)
    /\ \E n \in RowNumbers(u, s) :
          Goto(h, [op |-> op, pc |-> "checked", src |-> u, scope |-> s, dst |-> d,
                   ask |-> requests', row |-> n])
    /\ UNCHANGED <<dbVars, admitted, writes>>

Begin(h, op, u, s, d) ==
    /\ Request(op, u)
    /\ txn[h] = Idle
    /\ u # d
    /\ s \in writable
    /\ CanDelegate(follow, profile, u, d, s)
    /\ graph' = Probe(graph, s, <<u, d>>)
    /\ IF WouldCreateCycle(graph, s, <<u, d>>)
       THEN UNCHANGED txn
       ELSE \E n \in RowNumbers(u, s) :
              Goto(h, [op |-> op, pc |-> "checked", src |-> u, scope |-> s, dst |-> d,
                       ask |-> requests', row |-> n])
    /\ UNCHANGED <<dbVars, admitted, writes>>

(* INSERT, or UPDATE of the row that was found; a row that is gone by then *)
(* fails the request.                                                      *)
Found(t) == t.row = 0 \/ \E r \in rows : r.id = t.row

Written(t, j) ==
    [id |-> IF j.row = 0 THEN j.ask ELSE j.row, src |-> t.src, scope |-> j.scope,
     dst |-> t.dst, ask |-> j.ask]

Save(t) ==
    /\ rows' = {r \in rows : r.id # t.row} \union {Written(t, t)}
    /\ writes' = [writes EXCEPT ![t.ask] = @ + 1]

Remember(t) == graph' = add_delegation(graph, t.src, t.scope, t.dst)

(* upsert: the commit first, the graph afterwards.                         *)
CommitUpsert(h) ==
    LET t == txn[h] IN
    /\ t.op = "upsert" /\ t.pc = "checked"
    /\ ~Flushed(t.row)
    /\ IF Found(t)
       THEN Save(t) /\ Goto(h, [t EXCEPT !.pc = "half"])
       ELSE Goto(h, Idle) /\ UNCHANGED <<rows, writes>>
    /\ UNCHANGED <<members, policy, profile, follow, freq, intents, writable, graph,
                   requests, admitted>>

FinishUpsert(h) ==
    /\ txn[h].op = "upsert" /\ txn[h].pc = "half"
    /\ Remember(txn[h])
    /\ Goto(h, Idle)
    /\ UNCHANGED <<dbVars, requests, admitted, writes>>

(* request: the graph as soon as the row is flushed, the commit later.     *)
FlushRequest(h) ==
    LET t == txn[h] IN
    /\ t.op = "request" /\ t.pc = "checked"
    /\ ~Flushed(t.row)
    /\ IF Found(t)
       THEN Remember(t) /\ Goto(h, [t EXCEPT !.pc = "half"])
       ELSE Goto(h, Idle) /\ UNCHANGED graph
    /\ UNCHANGED <<dbVars, requests, admitted, writes>>

CommitRequest(h) ==
    /\ txn[h].op = "request" /\ txn[h].pc = "half"
    /\ Save(txn[h])
    /\ Goto(h, Idle)
    /\ UNCHANGED <<members, policy, profile, follow, freq, intents, writable, graph,
                   requests, admitted>>

(* revoke_delegation deletes the first row it finds, and forgets every     *)
(* edge of the user in that scope once this is committed.                  *)
Revoke(h, u, s) ==
    /\ Request("revoke", u)
    /\ txn[h] = Idle
    /\ \E r \in Existing(u, s) : ~Flushed(r.id) /\ rows' = rows \ {r}
    /\ Goto(h, [op |-> "revoke", src |-> u, scope |-> s])
    /\ UNCHANGED <<members, policy, profile, follow, freq, intents, writable, graph,
                   admitted, writes>>

FinishRevoke(h) ==
    /\ txn[h].op = "revoke"
    /\ graph' = Without(graph, txn[h].src, {txn[h].scope})
    /\ Goto(h, Idle)
    /\ UNCHANGED <<dbVars, requests, admitted, writes>>

-----------------------------------------------------------------------------
(* Intents.                                                                *)

Settle(I, S, st) == (I \ S) \union {[i EXCEPT !.status = st] : i \in S}

\* Mutant: intents that were activated before are taken up again.
ReadyAgain(u, d) ==
    {i \in intents : i.src = u /\ i.dst = d /\ i.status \in {"pending", "activated"}
                     /\ i.scope \in writable}

\* Mutant: intents that were withdrawn are taken up as well.
ReadyWithdrawn(u, d) ==
    {i \in intents : i.src = u /\ i.dst = d /\ i.status \in {"pending", "cancelled"}
                     /\ i.scope \in writable}

(* A scope in which delegation is off is skipped; its intent stays pending.*)
Ready(u, d) ==
    {i \in intents : i.src = u /\ i.dst = d /\ i.status = "pending" /\ i.scope \in writable}

(* A follow is granted: the relationship is inserted unless one was found. *)
Grant(u, d, level, fresh) ==
    /\ freq' = [freq EXCEPT ![u][d] = "approved"]
    /\ follow' = IF fresh THEN [follow EXCEPT ![u][d] = level] ELSE follow
    /\ admitted' = admitted \union Admissions([follow EXCEPT ![u][d] = level], profile)

(* An approval locks the follow request, then reads whether the follow     *)
(* exists, which intents are pending and which rows they meet              *)
(* (activate_intents_for_follow; no test for cycles).                      *)
StartApproval(h, u, d, level) ==
    LET I == IF level = "delegation_allowed" THEN Ready(u, d) ELSE {} IN
    /\ Unlocked(u, d)
    /\ \E f \in [I -> Numbers \union {0}] :
          /\ \A i \in I : f[i] \in RowNumbers(u, i.scope)
          /\ Goto(h, [op |-> "approve", src |-> u, dst |-> d, level |-> level,
                      fresh |-> follow[u][d] = "none",
                      jobs |-> {[ask |-> i.id, scope |-> i.scope, row |-> f[i]] : i \in I}])

Remembered(t, J) ==
    [s \in Scopes |-> IF \E j \in J : j.scope = s
                      THEN add_delegation(graph, t.src, s, t.dst)[s] ELSE graph[s]]

(* ... and writes and commits later, whatever has become of the intents by *)
(* then.  An intent or a row that is gone fails the approval; the graph    *)
(* keeps the edges it has got by then.                                     *)
Numbered(S) == {i \in intents : i.id \in S}
Stored(S) == \A n \in S : \E i \in intents : i.id = n

CommitApproval(t) ==
    /\ \A j \in t.jobs : Found(j)
    /\ Stored({j.ask : j \in t.jobs})
    /\ Grant(t.src, t.dst, t.level, t.fresh)
    /\ rows' = {r \in rows : \A j \in t.jobs : r.id # j.row}
               \union {Written(t, j) : j \in t.jobs}
    /\ intents' = Settle(intents, Numbered({j.ask : j \in t.jobs}), "activated")
    /\ writes' = [n \in Numbers |-> writes[n] + Cardinality({j \in t.jobs : j.ask = n})]
    /\ graph' = Remembered(t, t.jobs)

FailApproval(t) ==
    /\ \E j \in t.jobs :
          /\ ~(Found(j) /\ Stored({j.ask}))
          /\ \E J \in SUBSET {k \in t.jobs : Found(k) /\ Stored({k.ask})} :
                graph' = Remembered(t, IF Found(j) THEN J \union {j} ELSE J)
    /\ UNCHANGED <<freq, follow, admitted, rows, intents, writes>>

FinishApproval(h) ==
    /\ txn[h].op = "approve"
    /\ \A j \in txn[h].jobs : ~Flushed(j.row)
    /\ CommitApproval(txn[h]) \/ FailApproval(txn[h])
    /\ Goto(h, Idle)
    /\ UNCHANGED <<members, policy, profile, writable, requests>>

\* Mutant: the policy's own name is stored as the level.
PolicyAsLevel(d) == policy[d]

PolicyLevel(d) ==
    IF policy[d] = "auto_approve_delegate" THEN "delegation_allowed" ELSE "view_only"

(* request_delegation without permission: a follow request is opened, or   *)
(* granted by the policy of the delegate, and an intent is queued.  When   *)
(* the policy allows delegation at once the row is inserted here, without  *)
(* looking for one that exists.                                            *)
Queue(u, s, d) ==
    LET ask     == requests'
        auto    == freq[u][d] \in {"none", "denied"} /\ policy[d] # "require_approval"
        direct  == auto /\ PolicyLevel(d) = "delegation_allowed"
                   /\ ~WouldCreateCycle(graph, s, <<u, d>>)
        probed  == IF auto /\ PolicyLevel(d) = "delegation_allowed"
                   THEN Probe(graph, s, <<u, d>>) ELSE graph
        same    == {i \in intents : i.src = u /\ i.dst = d /\ i.scope = s}
    IN  /\ Request("request", u)
        /\ u # d
        /\ s \in writable
        /\ ~CanDelegate(follow, profile, u, d, s)
        /\ freq[u][d] # "approved"
        /\ freq[u][d] # "pending" => Unlocked(u, d)
        /\ auto => follow[u][d] = "none"
        /\ IF auto
           THEN Grant(u, d, PolicyLevel(d), TRUE)
           ELSE /\ freq' = [freq EXCEPT ![u][d] = "pending"]
                /\ UNCHANGED <<follow, admitted>>
        /\ IF direct
           THEN /\ rows' = rows \union {[id |-> ask, src |-> u, scope |-> s, dst |-> d,
                                         ask |-> ask]}
                /\ writes' = [writes EXCEPT ![ask] = @ + 1]
                /\ graph' = add_delegation(probed, u, s, d)
                /\ UNCHANGED intents
           ELSE /\ \A i \in same : i.status # "pending"
                /\ intents' = Settle(intents, {i \in same : i.status = "overdue"}, "expired")
                              \union {[id |-> ask, src |-> u, scope |-> s, dst |-> d,
                                       status |-> "pending"]}
                /\ graph' = probed
                /\ UNCHANGED <<rows, writes>>
        /\ UNCHANGED <<members, policy, profile, writable, txn>>

(* send_follow_request.                                                    *)
SendFollow(h, u, d) ==
    /\ Request("follow", u)
    /\ txn[h] = Idle
    /\ u # d
    /\ follow[u][d] = "none" /\ freq[u][d] # "pending"
    /\ IF policy[d] = "require_approval"
       THEN /\ Unlocked(u, d)
            /\ freq' = [freq EXCEPT ![u][d] = "pending"]
            /\ UNCHANGED txn
       ELSE StartApproval(h, u, d, PolicyLevel(d)) /\ UNCHANGED freq
    /\ UNCHANGED <<rows, members, policy, profile, follow, intents, writable, graph,
                   admitted, writes>>

(* respond_to_request: a pending request is loaded, and answered later.    *)
BeginRespond(h, u, d, answer) ==
    /\ Request("respond", d)
    /\ txn[h] = Idle
    /\ freq[u][d] = "pending"
    /\ Goto(h, [op |-> "respond", src |-> u, dst |-> d, answer |-> answer])
    /\ UNCHANGED <<dbVars, graph, admitted, writes>>

Answer(h) ==
    LET t == txn[h] IN
    /\ t.op = "respond"
    /\ IF t.answer = "denied"
       THEN /\ Unlocked(t.src, t.dst)
            /\ freq' = [freq EXCEPT ![t.src][t.dst] = "denied"]
            /\ Goto(h, Idle)
       ELSE StartApproval(h, t.src, t.dst, t.answer) /\ UNCHANGED freq
    /\ UNCHANGED <<rows, members, policy, profile, follow, intents, writable, graph,
                   requests, admitted, writes>>

(* cancel_intent tests the status, and writes it later without condition.  *)
BeginCancel(h, i) ==
    /\ Request("cancel", i.src)
    /\ txn[h] = Idle
    /\ i.status \in {"pending", "overdue"}
    /\ Goto(h, [op |-> "cancel", ids |-> {i.id}])
    /\ UNCHANGED <<dbVars, graph, admitted, writes>>

(* Thirty days pass; the row learns of it when its owner lists the intents.*)
Overdue(i) ==
    /\ "list" \in Operations
    /\ i.status = "pending"
    /\ intents' = Settle(intents, {i}, "overdue")
    /\ UNCHANGED <<rows, members, policy, profile, follow, freq, writable, graph, txn,
                   requests, admitted, writes>>

(* list_intents writes the expiry of the rows it has read.                 *)
BeginList(h, u) ==
    LET late == {i \in intents : i.src = u /\ i.status = "overdue"} IN
    /\ Request("list", u)
    /\ txn[h] = Idle
    /\ late # {}
    /\ Goto(h, [op |-> "list", ids |-> {i.id : i \in late}])
    /\ UNCHANGED <<dbVars, graph, admitted, writes>>

(* Both overwrite whatever the status is by then; a row that is gone fails *)
(* the request.                                                            *)
FinishWithdrawal(h) ==
    LET t == txn[h] IN
    /\ t.op \in {"cancel", "list"}
    /\ intents' = IF Stored(t.ids)
                  THEN Settle(intents, Numbered(t.ids),
                              IF t.op = "cancel" THEN "cancelled" ELSE "expired")
                  ELSE intents
    /\ Goto(h, Idle)
    /\ UNCHANGED <<rows, members, policy, profile, follow, freq, writable, graph,
                   requests, admitted, writes>>

-----------------------------------------------------------------------------
(* What takes permission away.                                             *)

(* update_permission leaves the delegations as they are.                   *)
UpdatePermission(u, d, level) ==
    /\ Request("permission", d)
    /\ follow[u][d] \notin {"none", level}
    /\ follow' = [follow EXCEPT ![u][d] = level]
    /\ Permit(follow', profile)
    /\ UNCHANGED <<rows, members, policy, profile, freq, intents, writable, graph, txn, writes>>

(* revoke_relationship: a profile of whatever visibility keeps a           *)
(* delegation alive.                                                       *)
Unbacked(u, d) ==
    {r \in rows : /\ r.src = u /\ r.dst = d
                  /\ \A t \in Topics : r.scope \in {t, Global} => profile[d][t] = "none"}

RevokeFollow(u, d, who) ==
    /\ Request("permission", who)
    /\ who \in {u, d}
    /\ follow[u][d] # "none"
    /\ \A r \in Unbacked(u, d) : ~Flushed(r.id)
    /\ rows' = rows \ Unbacked(u, d)
    /\ graph' = Without(graph, u, {r.scope : r \in Unbacked(u, d)})
    /\ follow' = [follow EXCEPT ![u][d] = "none"]
    /\ UNCHANGED <<members, policy, profile, freq, intents, writable, txn, admitted, writes>>

(* The hard revert of a public delegate: what came by an activated intent  *)
(* stays.                                                                  *)
PrivateOrigin(r) ==
    \E i \in intents : /\ i.src = r.src /\ i.dst = r.dst /\ i.scope = r.scope
                       /\ i.status = "activated"

PublicOrigin(d, t) ==
    {r \in rows : r.dst = d /\ r.scope = t /\ ~PrivateOrigin(r)}

HardRevert(d, t) ==
    LET gone == PublicOrigin(d, t) IN
    /\ Request("revert", d)
    /\ profile[d][t] = "public"
    /\ \A r \in gone : ~Flushed(r.id)
    /\ profile' = [profile EXCEPT ![d][t] = "followers_only"]
    /\ rows' = rows \ gone
    /\ graph' = [graph EXCEPT ![t] = {e \in @ : \A r \in gone : r.src # e[1]}]
    /\ UNCHANGED <<members, policy, follow, freq, intents, writable, txn, admitted, writes>>

(* leave_org deletes what the member delegated; the graph keeps its edges. *)
Leave(u) ==
    /\ Request("leave", u)
    /\ \A r \in rows : r.src = u => ~Flushed(r.id)
    /\ members' = members \ {u}
    /\ rows' = {r \in rows : r.src # u}
    /\ intents' = {i \in intents : i.src # u}
    /\ UNCHANGED <<policy, profile, follow, freq, writable, graph, txn, admitted, writes>>

(* The master switch of the organization, or the flag of a topic.          *)
Switch(S) ==
    /\ "switch" \in Operations
    /\ requests < MaxRequests /\ requests' = requests + 1
    /\ S # writable
    /\ writable' = S
    /\ UNCHANGED <<rows, members, policy, profile, follow, freq, intents, graph, txn,
                   admitted, writes>>

(* The process starts again: open requests are lost, the graph is rebuilt. *)
Restart ==
    /\ "restart" \in Operations
    /\ txn' = [h \in Handlers |-> Idle]
    /\ graph' = Rebuilt(rows)
    /\ UNCHANGED <<dbVars, requests, admitted, writes>>

Next ==
    \/ \E h \in Handlers :
          \/ \E u, d \in Users, s \in Scopes :
                Begin(h, "upsert", u, s, d) \/ Begin(h, "request", u, s, d)
          \/ CommitUpsert(h) \/ FinishUpsert(h)
          \/ FlushRequest(h) \/ CommitRequest(h)
          \/ \E u \in Users, s \in Scopes : Revoke(h, u, s)
          \/ FinishRevoke(h)
          \/ \E u, d \in Users, a \in Levels \union {"denied"} : BeginRespond(h, u, d, a)
          \/ Answer(h) \/ FinishApproval(h)
          \/ \E u, d \in Users : SendFollow(h, u, d)
          \/ \E i \in intents : BeginCancel(h, i)
          \/ \E u \in Users : BeginList(h, u)
          \/ FinishWithdrawal(h)
    \/ \E u, d \in Users :
          \/ \E s \in Scopes : Queue(u, s, d)
          \/ \E l \in Levels : UpdatePermission(u, d, l)
          \/ \E who \in {u, d} : RevokeFollow(u, d, who)
    \/ \E i \in intents : Overdue(i)
    \/ \E u \in Users : Leave(u)
    \/ \E d \in Users, t \in Topics : HardRevert(d, t)
    \/ \E S \in {Scopes, {Global}, {}} : Switch(S)
    \/ Restart

Spec == Init /\ [][Next]_vars

-----------------------------------------------------------------------------
(* Every delegation rests on two consents: the delegator asked for this    *)
(* delegate in this scope (the number of the request is on the row), and   *)
(* the delegate permitted it at some time, by a public profile, a follow   *)
(* that allows delegation, or an approval of the request.  Checks, intents *)
(* and approvals that overlap must not produce a row without both          *)
(* (can_delegate_to, activate_intents_for_follow).  An intent that came    *)
(* into effect is closed: it is activated, unless a withdrawal or expiry   *)
(* decided on before that is written over it (cancel_intent, list_intents).*)
TwoConsents ==
    \A r \in rows :
        /\ <<r.src, r.scope, r.dst>> \in admitted
        /\ \A i \in intents : i.id = r.ask =>
              /\ <<i.src, i.scope, i.dst>> = <<r.src, r.scope, r.dst>>
              /\ i.status \notin {"pending", "overdue"}

(* A request to delegate takes effect at most once: whatever is revoked,   *)
(* refused or asked for again later, no old request or intent of a member  *)
(* writes a row a second time.                                             *)
AskedOnce == \A n \in Numbers : writes[n] <= 1

(* What was withdrawn or has expired, and is not in the hands of an        *)
(* approval that read it before, stays so: no later approval, whether of   *)
(* an old request or of a new one, writes a row for it                     *)
(* (activate_intents_for_follow takes up pending intents only).            *)
Withdrawn(i) ==
    /\ i.status \in {"cancelled", "expired"}
    /\ \A h \in Handlers : txn[h].op = "approve" => \A j \in txn[h].jobs : j.ask # i.id

WithdrawnForGood ==
    [][\A i \in intents : Withdrawn(i) =>
          /\ writes'[i.id] = writes[i.id]
          /\ \A j \in intents' : j.id = i.id => Withdrawn(j)']_vars

(* The delegations on file never form a cycle within a scope.              *)
CyclesPrevented == \A s \in Scopes : Acyclic(Edges(rows, s))
=============================================================================
