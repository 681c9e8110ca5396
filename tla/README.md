# Liquid Democracy: a verification development

TLA+ models of the voting platform in `src/backend`, the TLC runs that check
them on small instances, and TLAPS proofs about them. The reader is assumed to
have the repository at hand; paths are relative to `src/backend` unless they
start with `src/`.

1. [The system](#1-the-system)
2. [The modules](#2-the-modules)
3. [The runs](#3-the-runs)
4. [Fairness](#4-fairness)
5. [The proofs](#5-the-proofs)
6. [What the code does and does not promise](#6-what-the-code-does-and-does-not-promise)
7. [What is not modelled](#7-what-is-not-modelled)
8. [Plan](#8-plan)

## 1. The system

A FastAPI application and background workers share one PostgreSQL database. A
request handler runs in one SQLAlchemy session (`database.py`: autoflush off,
objects expire at commit) and so in one transaction at a time, at PostgreSQL's
default isolation READ COMMITTED. No table has a version column. The proposal
worker (`sustained_majority_worker.py`) is a separate process that wakes every
few minutes, makes one pass ("tick") over all proposals and commits after each
of them; the digest scheduler does the same for mail, expiring pending actions
and share distribution. Nothing else coordinates the processes: they
communicate through rows. The one exception is the delegation graph
(`delegation_engine.py`, `DelegationGraphStore`), which lives in the memory of
the web process and is rebuilt from the rows when it starts.

| Component | State it keeps | Operations | Interacts with |
|---|---|---|---|
| Proposal lifecycle (`proposal_lifecycle.py`, `routes/proposals.py`, `routes/organizations.py`) | `proposals`: status, voting window, method, cosign markers, final result | create, update, advance (two routes), archive, delete, resolve_escalation, bulk advance | ballots (counts them at the close), closing hooks, worker |
| Row lock (`experimental_voting.py`) | the lock on a proposal row | lock_proposal, require_mutable, finalize_result | every handler of an experimental method |
| Ballots (`routes/votes.py`) | `votes`: one row per voter and proposal | cast_vote, retract_vote | proposal status and deadline |
| Cosigning (`cosign.py`) | `proposal_cosignatures` | sign, withdraw, window gate | worker opens or expires the proposal |
| Closing hooks (`elections.py`, `experimental_elections.py`, `issuance.py`) | seats, `final_method_result`, `issuance_executed` | install winners, issue shares | run by each copy of the closing branch |
| Proposal worker (`sustained_majority_worker.py`) | none of its own but a heartbeat | one tick: open due deliberations, close due budget votes, evaluate votes, cosign gate | all of the above, through the database |
| Stable Result (`sustained_majority.py`, `sustained_majority_service.py`) | `vote_snapshots`, audit rows `proposal.window_extended` | capture, evaluate, extend, close early | reads the tally, moves `voting_end` |
| Tallies (`delegation_engine.py`, `experimental_tally.py`, `multiwinner_tally.py`, `allocated_score.py`, `budget_tally.py`, `tie_resolution.py`) | none: functions of ballots, delegations and shares | resolve a voice, count | read by every close and snapshot |
| Delegation (`routes/delegations.py`, `routes/follows.py`, `routes/delegate_profiles.py`, `permissions.py`, `org_leave.py`) | delegations, follows, requests, intents; the graph in memory | upsert, request, respond, revoke, follow, hard revert, leave, restart | tallies; the graph refuses cycles |
| Pending actions (`pending_actions/engine.py`, `registry.py`) | actions and approvals | submit, approve, decline, execute, expire | executes role, member and share operations |
| Shares (`share_service.py`, `share_distribution.py`, `routes/organizations.py`) | balances, the cap, the ledger, distribution rules | issue, transfer, change the cap, sweep | issuance hook, pending actions, weighted tallies |
| Digests (`digest_scheduler.py`) | notification rows | claim, send, flush | second worker |
| Verification (`verification.py`, `verification_metering.py`) | sessions, results, metered pools | start, provider callback, expire | gates joining and voting |
| Accounts, organizations, comments, live updates, operations tooling, frontend, planner tooling | | | see section 7 |

What is hard here:

* *Interleavings.* A handler reads the row, decides, and writes later. At READ
  COMMITTED its write does not notice that the row changed in between. A
  proposal's lock (`lock_proposal`: `SELECT ... FOR UPDATE` and a fresh read) is
  taken only for the experimental methods (STAR, score, ranked pairs, majority
  judgment and allocated score). Pending actions have none at all; their only
  protection is the unique constraint on a decision.
* *Locks that protect less than they seem to.* `FOR UPDATE` reads the row again
  only with `populate_existing`; without it an object loaded earlier keeps its
  old values. The worker's batch locks end with the first commit of the batch.
* *Several copies of one rule.* Two routes and the worker each close a
  proposal; every voting method is counted by a single-winner and by a
  multi-winner counter, with heads and with shares.
* *State that is not stored.* Extensions granted, the budget left and the
  original length of a vote are recomputed from audit rows at each tick; the
  delegation graph is kept twice.
* *Failure.* A tick may fail for one proposal and goes on with the next; an
  executor may raise after half of its writes; a worker may be away for hours.

Correct means, for the modelled parts: a recorded result stays the result of
the ballots on file and is never replaced; winners are installed once; a vote
is extended within its budget only, not closed while it is unstable and could
be extended, not closed before the deadline its voters were given; every vote
that opens ends. Nobody is heard through a ballot she did not choose, a member
with n shares decides as n members with one, and each counter keeps the promise
its method is chosen for. A delegation exists because its delegator asked for
it and its delegate allows it. An administrative action takes effect only with
its quorum, as a whole, and does not stay open for ever. No period of a
distribution is paid twice and issuing stays within the cap. `PROJECT.json`
lists the hazards behind each of these at their lines, and which property
covers which.

## 2. The modules

### ProposalStatus: what a proposal promises

The abstract specification. Every operation is atomic: publish, open, vote,
close, withdraw. A close counts the ballots on file, records a verdict, and
carries out the consequences once. There is no lock, no transaction, no worker.

### ProposalLifecycle: the transactions

One proposal, the concurrent request handlers `Request`, and the `Worker`.

| Variable | In the code |
|---|---|
| `status`, `gated` | `proposals.status`, `proposals.is_cosign_gated`; `"deleted"` is the missing row |
| `method` | the class of `proposals.voting_method`: experimental, budget, ranked choice, or `binary`, which stands for binary and approval |
| `overdue` | `now >= proposals.voting_end` |
| `extensions` | worker-fired `proposal.window_extended` audit rows |
| `ballots`, `signers` | the rows of `votes` and `proposal_cosignatures` |
| `verdict`, `counted` | `final_method_result`, and the ballots it was computed from (history) |
| `effects` | how often hooks of a passed close ran (history, capped by `EffectCap`) |
| `lock` | the holder of the row lock of an open `FOR UPDATE` |
| `txn` | for each process: its handler, the status and deadline it read, the ballots it counted |

A handler is two or three steps. *Begin* reads the row, with the lock if the
code takes it, and applies the early returns. *Count* (closing handlers) reads
the ballots. The *commit* writes everything the handler writes, and returns the
lock. `Rollback` may end an open transaction at any point: an error, a crash, a
lost connection. A write of a row another transaction holds `FOR UPDATE` waits
(`MayWrite`); the insert of a ballot or signature waits too, because its foreign
key takes a share lock on the proposal; update and deletion of a ballot do not.
The ORM writes only columns the handler changed from what it had read
(`SetStatus`).

Handlers: advance (to deliberation, to voting, close), archive,
resolve_escalation, delete, cast, retract, cosign, withdraw_cosign; the
worker's evaluate (natural close, early close, extend), advance_due,
close_budget and the cosign gate. Where the worker's batch locks are lost at the
first commit of a batch, `BeginAdvanceDue` and `BeginCloseBudget` have a locked
and an unlocked alternative. `advance_proposal` and `advance_org_proposal` are
one action: they differ in permissions only, as far as the state is concerned.

Abstracted: how a tally becomes an outcome (`Passing`, `Capped` are sets of
ballot boxes), the clock (`DeadlinePasses`), the Stable-Result evidence (the
worker may extend or close early whenever the next module might let it), and
permission checks.

### StableResultWorker: when the worker extends and when it closes

One proposal over time. A tick (`Evaluate`) captures a snapshot, whose content
is arbitrary in `Result(method)`, and takes the first decision of `Decide` that
applies, as `evaluate_proposal` does: close early, extend, close on time, wait.
`Snapshot`, `OriginalWindowUnstable`, `ExtensionStable` and the durations are
those of `sustained_majority.py` and `sustained_majority_service.py` with their
three cases: binary, ranked choice (neighbouring winner sets overlap) and
experimental (evidence from before the window, two points, all equal).
`Escalate`, the three resolutions and `Reopen` lead into further rounds of
voting, in which the audit rows of earlier rounds remain.

The two modules meet in the worker's decision: `CountNaturalClose`,
`CountEarlyClose` and `Extend` of ProposalLifecycle are the transactions of
`CloseOnTime`, `CloseEarly` and `Extend` here. They are not composed into one
state space: in the lifecycle the decision is free, so everything shown there
holds whatever the evidence; here the status of the row is only changed by whole
transactions, and an administrator's close (`Advance`) may come at any time.

### Ratification and PendingActions: the queue of administrative actions

Ratification is the abstract specification: an action is put to the approvers,
they endorse it one by one, it takes effect only with a quorum behind it, once
closed it stays closed, and nothing stays open for ever. What the code does not
keep, the *name* of the closing, is below that level: `executed`, `declined`,
`expired` and `failed` may overwrite one another.

PendingActions has the rows, the sessions, the organization around them and the
scheduler.

| Variable | In the code |
|---|---|
| `row[a]` | `PendingAdminAction`: status, initiator, stored threshold, the matrix snapshot of its payload, whether `expires_at` has passed |
| `decision[a][u]` | `PendingActionApproval` of u |
| `holders` | who holds the permission: initiators and approvers |
| `matrix`, `locked` | cells of the permission matrix that differ from the start; cells the governance mode locks |
| `written[a]` | cells committed on behalf of a (history) |
| `txn[h]` | an open request: what it loaded, the decision it inserts, what it will write |
| `sweep` | rows the expiry sweep has listed |

`Submit` is one step, since nobody sees the new row before its commit; it has
the guard against deadlock (too few approvers: act alone), the case where the
initiator's own approval suffices, and the ordinary one. `Approve`, `Decline`
and `Refuse` follow `Load`; `Commit` makes all visible, or `Crash` nothing.
`_execute_now` stands for the function of that name with one of the
executors, `role_permissions.edit`, which writes cell after cell and may raise
in between. Executors with a single write are its one-cell case. `ListDue` and
`Expire` are the two halves of the sweep.

### Shares: balances, the cap and distribution

Members' balances and memberships, the authorized cap, one distribution rule and
its ledger, up to two requests and two sweeps at once. The locks are the two of
the code: the organization's row (`orgLock`), taken by increases, changes of the
cap and sweeps, and the sender's and recipient's membership rows of a transfer
(`rowLock`). A transaction carries what it had read before it got a lock
(`old`, `balance`), for that is what it computes with. Time is counted in
intervals of the rule; `paid` and `keys` are the ledger's events and their
unique `period_key`s. `pureIssue` is history: whether no balance has gone down
and nobody was admitted.

### Delegation: rows, consents and the graph

The delegation rows, follows, follow requests and intents, public profiles,
membership and the switch that turns delegation off, and beside them `graph`,
the process's copy. The endpoints that write later what they read before are
split there: direct delegations and revocations; answers to a follow request
(`BeginRespond` loads it, `Answer` flushes the new status) and the approvals that
these and `send_follow_request` start (`StartApproval` reads the relationship,
the pending intents and the rows they meet, `FinishApproval` writes and commits);
withdrawals and lists of intents (`BeginCancel` and `BeginList` test the status,
`FinishWithdrawal` writes 'cancelled' or 'expired'). None of them looks at a
status again when it writes it, and nothing is held but what has been flushed: a
delegation row by a direct request (`Flushed`), and the follow request by an
approval, until its commit (`Unlocked`). An approval reads all its intents,
switches and rows when it starts; the code reads the switches and the row of an
intent in turn, in the same transaction. The other endpoints (queueing a request,
changing or ending a follow, the hard revert, leaving) are one step each. Each
endpoint updates the graph where the code does (before or after its
commit, or not at all). `would_create_cycle` is the store's test with its side
effect: it adds the edge, tests and removes it. `Restart` rebuilds the graph
from the rows. `admitted`, `writes` and the numbers of requests are history:
who asked for what, and how often it took effect.

### Resolution: who speaks for a voter

The pure resolver of `delegation_engine.py`: the direct ballot, the strict
precedence strategy, the relevance-weighted strategy with its summing of
directions for binary votes and of ballots for the others, the fall-through
from one to the other, and the chain behaviours `accept_sub`, `revert_direct`
and `abstain`. A context holds what `_build_context` loads for one proposal.

### Ratio, Counting, Budgets, Approvals: the counters

Pure operators over a profile of ballots: score, STAR, majority judgment, ranked
pairs, each for one and for several seats, and allocated score (Counting);
the allocation of an envelope by weighted median or trimmed mean with ceilings, and the funding of projects with tiers (Budgets); approval with its
winner configuration and tie resolvers (Approvals). Where the code uses
`Fraction`, so does Ratio; where it uses floats with a tolerance, Budgets is
exact. Loops are folds over sequences or recursive functions: the walk of approval
goes down a set of totals, that of a project budget along the order of items, one
function value for each step.

### Tallies: a vote in progress

The composition of these: one proposal that is open, with its method and
settings chosen from `Polls`. Voters cast, change and retract ballots, set and
delete delegations, change strategy, leave and come back; at every moment the
tally is what `compute_tally` would return. Every property is about that tally,
so each reachable state is one input of the counters.

### The MC modules

Definitions for TLC: the small sets of members, ballots, options, operations
and polls of section 3.

### The proofs

| Module | Proves about |
|---|---|
| ProposalLifecycleProofs | the lock and the recorded result; ProposalLifecycle implements ProposalStatus |
| StableResultProofs | the budget, unstable closes, the deadline |
| PendingActionsProofs | the quorum, decisions, the steps of Ratification |
| SharesProofs | periods granted, the cap |
| DelegationProofs | the two consents |
| TalliesProofs | who speaks for a voter; what approval, project budgets, score, ranked pairs and majority judgment promise |
| CountingProofs | the counters themselves: ties, medians, the order and the walk of a project, the locking of ranked pairs, the removals of majority judgment, what raising an option does to a count, and whom one seat more goes to |
| SumLemmas | induction over finite sets, and sums (used for shares, counters and the deadline) |

Section 5 gives the arguments.

## 3. The runs

| Run | Question | Result | Distinct states |
|---|---|---|---|
| `lifecycle_locked` | Does an experimental proposal, seen through its lock, implement ProposalStatus? Does its vote end? | holds | 2,876 |
| `lifecycle_methods` | With every handler, all automation and every class of method: do ballots, result, status and installed winners agree? | holds | 299,102 |
| `lifecycle_archive` | Is a withdrawn proposal withdrawn for good? | **violated** | |
| `stable_result` | Binary, ranked-choice and experimental votes, with outages, extensions and a second round | holds | 2,759,304 |
| `stable_stuck` | Does an evaluation past the deadline close or extend the vote? | **violated** | |
| `pending` | Does the queue implement Ratification, with racing approvers, crashes and the sweep? | holds | 426,336 |
| `pending_partial` | Is a failed action left without effect? | **violated** | |
| `shares` | Periods paid once, the cap kept, the backlog worked off | holds | 264,592 |
| `shares_overdraw` | Does a transfer conserve the total? | **violated** | |
| `delegation` | Does every delegation rest on two consents, and is each request used once, and does a withdrawal last? | holds | 2,794,316 (with symmetry) |
| `delegation_cycle` | Are the delegations on file free of cycles? | **violated** | |
| `tallies` | Who is heard, and do the counters keep the promises of their methods? | holds | 96,361 |

### Properties of the passing runs

*Lifecycle.*

* `ImplementsProposalStatus` - every step of the transactions is a step of
  ProposalStatus or a stutter. It fails, for instance, when the worker does not
  look at the status again once it has the lock (the mutant).
* `FrozenBallots`, `OfficialStatus`, `InstalledOnce`, `FrozenResult` - the result
  on record is that of the ballots on file, agrees with the status shown, has
  its winners installed once and is never replaced.
* `LockingInv` - the inductive strengthening of these (section 5).
* `VotingEnds` - every vote ends.

*Stable Result.*

* `BudgetKept` - in the first round, the deadline is the original one plus what
  was granted, and that is within `max_extension_fraction`.
* `OriginalDeadlineKept` - the worker never closes a binary or experimental vote
  before the deadline its voters were first given, although it may extend, and
  a sliding window may begin, before it. One corner is exempt by name,
  `TickOnWindowStart`: with a tick exactly at the start of the stable window,
  an experimental vote has one snapshot where two are needed, is extended
  although nothing changed, and may then close early. Ranked choice is left
  out: there the claim is false (section 6).
* `NoUnstableClose` - an unstable result is not made final while an extension
  could be granted.
* `VotingCloses` - every vote ends, in the second round of voting as in the first,
  with the 50% budget of this run. It is not so with any budget: with 100% the
  second round may stay open, which `stable_stuck` shows and section 6 explains.

*Pending actions.*

* `QuorumBehindWrites` - nothing is written for a queued action unless as many
  approvers as it asked for have approved.
* `ExecutedIsComplete` - an action that reads executed was applied in full.
* `DecisionsStand` - a decision on file is never withdrawn or turned around, by
  the second of two racing requests of one approver for instance.
* `ImplementsRatification` - the queue implements the abstract one, which
  includes that every action is closed one day.

*Shares.*

* `GrantedOnce` - no member is granted a period of the distribution twice, with
  two sweeps at once, sweeps that fail, and start dates that move.
* `CapHolds` - as long as shares are only issued, the outstanding total is within
  the cap. The restriction is needed: section 6 says why.
* `BacklogCleared` - again and again every due period in the catch-up window is
  granted, unless the rule is paused, the member gone or the cap used up.

*Delegation.*

* `TwoConsents` - behind every delegation on file there is a request of the
  delegator for this delegate and scope, and a permission of the delegate. The
  intent it came by is closed; that it reads 'activated' is not claimed, since a
  withdrawal or expiry that was tested before may be written over that (section 6).
* `AskedOnce` - a request to delegate takes effect at most once, whatever is
  revoked, refused or asked for again later, and whatever an approval, a
  withdrawal and an expiry write over each other.
* `WithdrawnForGood` - an intent that is cancelled or expired, and that no open
  approval has read before, never takes effect and is never pending again. The
  restriction is needed: an approval that read it as pending goes on (section 6).

*Tallies.*

* `VoiceTraced` - a voter is heard with her own ballot, or with one that a chain
  of delegations she accepts leads to; nobody is heard through those who left.
* `StrategyNeedsChoice` - the two delegation strategies differ only where topics
  are in conflict.
* `SharesAreVotes` - a member with n > 0 shares decides like n members with one,
  for all weighted counters but the trimmed means.
* `MedianRemovalExact` - majority judgment's jump over runs of equal pairs elects
  whom the textbook's removal of one median grade at a time elects.
* `SeatsAddUp` - the single-winner and the multi-winner counter of a method
  agree, and one more seat never unseats anybody.
* `ImmuneToArguments` - a ranked-pairs winner that is beaten by another option
  answers through a chain of victories none of which is weaker.
* `RaisingHelps` - moving the only winner up on a ballot never makes it lose, by
  score, by majority judgment or by ranked pairs.
* `BlocRepresented` - under allocated score a list that a bloc with the share of
  k seats gives all its points to gets k seats.
* `EqualApprovalsEqualChances` - nobody is seated over an option with more
  approvals, and options approved by equally many are seated together, left out
  together, or drawn by lot, each set of them as well as any other.
* `EnvelopeSpent` - an allocation gives out the whole envelope as far as the
  ceilings allow, rounded once, over the sum; no bucket passes its ceiling by a
  unit, so that none passes a ceiling in whole units (a fractional one may be passed,
  section 6); and a bucket gets no less than one that is wanted less, unless its
  ceiling says so.
* `MajorityRankingFunded` - a majority that hands in one and the same ranking of
  items that cost something has it funded entry by entry, up to the first that does
  not fit. With an item that is free of charge the claim is false (section 6).

### Bounds

*Lifecycle.* Two voters and two ballots distinguish passing from failing, a
change of a ballot from its retraction and, with the full box as `Capped`, over
and under the cap; no property mentions more than one ballot at a time, and the
proofs lift the bound. Two request handlers and the worker are three concurrent
transactions: each hazard listed needs two. `lifecycle_methods` has one of each
because handlers without locks multiply. `EffectCap` is 2, since only never,
once and more often are told apart. `MaxExtensions` is 1 or 2: an extension more
repeats the state. Deletion and `Automation` are out of `lifecycle_locked` only,
where they are known not to implement ProposalStatus (section 6);
`lifecycle_methods` has all of them.

*Stable Result.* A window of 4 units with a stable part of 2 (50%) has ticks
before, on and after the start of the stable window and the deadline; a budget
of 50% grants one extension, so an extended vote and an exhausted budget both
occur; `MaxOutage` of 2 lets every other tick be missed, so that any one of the
instants above is missed in some behaviour. `MaxEscalations` of 1 gives a second
round that inherits the audit rows of the first. `MaxTime` is a horizon, not a
bound that hides behaviours: `VotingCloses` holds under weak fairness of a clock
that stops there, so all votes are over by then. `stable_stuck` needs a budget
of 100%. The arithmetic is that of integers (the code truncates to seconds).

*Pending actions.* Three users are an initiator and two approvers, or three
approvers after a role change; thresholds 1, 2 and 3 are met early, late and
never; two requests may overlap each other and the sweep. A payload of two cells
is the smallest that can be half written. Actions do not share rows except
through the matrix, which `MaxChanges` changes behind the queue's back (roles,
locks); one action is therefore enough, and the proofs lift this bound.

*Shares.* Two members transfer to each other, two requests and two sweeps
overlap. Weights 0, 1 and 3 and caps 3 and 5 have a full cap, room for one grant
and plenty. `MaxClock` 3 exceeds the catch-up window of 2 periods (12 in the
code), so that periods drop out of it. Two requests are enough for each race of
two writers, a request and a change between two sweeps.

*Delegation.* Two users are enough for a cycle, mutual requests and a
revocation that overtakes an approval; one topic and the global scope are the
two graphs of an organization; four requests are a request, its answer and a
repetition by both, or a withdrawal and a list beside the answer. `delegation_cycle` finds its cycle with one handler: no
concurrency is needed.

*Tallies.* Three voters give chains of length two and a majority, three options
a cycle of preferences, ratings 0..2 medians with ties. `MCPolls` has 22
settings: each method, most of them with one seat and with two or with heads and
with shares (3, 2, 1 and 4, 3, 2, and once 2, 1, 0: a member without any), each
aggregation, tie resolver and fallback, and a project with an item that is free.
The ceilings of an allocation are whole in one poll; in another the envelope
(21/2) and the ceilings (9/2, 21/2, 5/2) are not, and a bucket that is full is
rounded above its ceiling.
Voters cast, change and retract in any order, so that every combination of the
listed ballots is counted; the lists have every strict order of the options and
the ballots with ties that tell the counters apart, not all ballots there are.
The three polls about delegation have two topics, few ballots, and all the
delegations their `offers` allow.

Deadlock is not checked in any run: a proposal that is passed or deleted, a
closed action, or a system that has used up its bounded requests may have no
further step.

## 4. Fairness

Only what keeps the code running is fair; no request has to be made, no
administrator and no approver has to act.

* The clock (`DeadlinePasses`, `TimePasses`, `WindowElapses`) is weakly fair. In
  Shares the clock need not advance: `BacklogCleared` is about what is due.
* The workers loop for ever (`main`): `ListVoting`, `Evaluate` and `ListDue` are
  weakly fair.
* An open transaction ends: `Rollback` in the lifecycle and `Finish` in Shares are
  weakly fair for each process (disconnects, pool and statement timeouts; a
  handler that holds its lock commits or fails).
* `BeginEvaluate` and `BeginSweep` are strongly fair: they wait for a row lock that
  requests keep taking, and PostgreSQL serves lock requests from a queue. For
  `BeginSweep` and `FinishSweep` it is enough that some sweeper gets through.
* `CountNaturalClose`, `EvaluateClose`, `Expire` and `FinishSweep` are strongly
  fair: a tick may fail and roll back any number of times, but not on every tick
  for ever. This is the assumption the code needs and does not enforce: a
  proposal whose tally always raises is never closed, and the worker only logs it.

Extensions and early closes are not fair. In `lifecycle_locked` the vote ends
because extensions are bounded and a deadline passes after each. Ratification
asks for weak fairness of closing an open matter, and PendingActions implements
that through its clock and sweep. Tallies and Delegation are checked for safety.

## 5. The proofs

All proofs are checked by TLAPS for every value of the constants that satisfies
the modules' `ASSUME`s: any sets of voters, ballots, members and handlers, any
tally, any window, fractions and outages. The assumptions say no more than that
special values are distinct, sets have the right type, the approvers of an
organization and the members who hold shares are finitely many, thresholds are
positive, payloads are not empty, weights, caps and shares are natural numbers,
voters and options are finitely many, the winner configuration of an approval
vote is made of integers, a proposal has finitely many topics whose relevance
and ranks are integers, the envelope, limits and costs of a project budget are
natural numbers with `min_spend <= max_spend` (`schemas.py:562`), a project ballot
names no item twice and only tiers the item has (`routes/votes.py:355`), scores
and grades are on the scale 0 .. `TopRating` (`experimental_ballots.py`), priorities are
integers and differ, as they end in the id of the option (`voting_methods.py:120`),
and `WindowPercent` is in 5..50 and `ExtensionPercent` in 0..100, the ranges to
which `sustained_majority.py` clamps the settings.

**ProposalLifecycleProofs.** `TypeCorrect` is by cases on the actions.
`LockingCorrect` proves `Spec => []LockingInv`. The properties of interest are
not inductive: that a ballot may be written says nothing unless the writer holds
the lock and there was no result when it got it. `LockingInv` therefore says

* of the open transactions of an experimental proposal: a handler that locks
  holds the lock until it ends (`LockHeld`), there is no result while a ballot is
  about to be written (`BallotInTime`), what was counted is what is on file
  (`CountIsCurrent`), and a handler reached the status it needs (`Serialized`);
* of the row: a result is the outcome of the ballots it counted, it agrees with
  the status, nothing is installed without one.

The argument: when a process may write the row and runs a locking handler, no
other process runs one (`Alone`). So it may change ballots and result without
disturbing what is said of other transactions (`LoneFinishKeeps`); the handlers
that take no lock never touch ballots or result (`StatusWriteKeeps`,
`EndKeeps`), with the exception of deletion, which removes both. `LockingNext`
has one case for each action. `ResultStands`, `StatusIsOfficial`,
`WinnersInstalledOnce` and `ResultNeverReplaced` follow.

`LockImplementsStatus` proves `ImplementsProposalStatus`
where nothing writes the row without its lock: experimental methods, no
cosigning, no scheduled automation, no deletion of drafts. This is `LockedOnly`,
a hypothesis of the theorem and the setting of `lifecycle_locked`. Without it the
claim is false: `lifecycle_archive` shows the automation breaking the promise,
and deletion of a draft that was just published does so too. The
invariant `SerialInv` says that what a handler read is still what is there when
it commits (`ReadIsCurrent`) and that the status it read let it in (`LetIn`). With
`LockingInv` it gives the mapping: a commit of `advance` is `Publish`,
`OpenVoting` or `Close`, depending on what was read; a close of the worker is
`Close`; an archive is `Withdraw`, a ballot or its retraction is `Vote`; reads,
locks, counts, extensions and rollbacks are invisible. That `Close` installs
winners once needs `NothingEarly`: an undecided proposal has no result yet, and
no consequences.

**PendingActionsProofs.** Without a lock, what a request is about to commit rests
on rows that others write. `QuorumInv` says what is still true of them:

* a loaded action had no decision of this approver, and nobody but the sweep
  closes it without a decision (`OpenOnRow`, `LoadedIsClean`, `NoEarlyDecision`,
  `SweepOnRows`);
* every flushed request inserts one decision of its own user (`SoleDecision`) and
  is a veto, one more approval, or the last one (`SoundDecision`). For the last
  one the approvals it saw plus its own reach the stored threshold; approvals
  are only added, so this stays true whoever commits first;
* a request writes cells of its payload only (`WithinPayload`).

`QuorumBehindWrites` is then kept by `Commit`: because of the unique constraint
the author is not yet among the approvers, so the commit makes their number grow
by one. Executed actions stay complete because a second execution of the same
payload writes the same cells. `StepsOfRatification` proves the safety part of
the refinement: `Submit` is `ActAlone` or `Propose`, `Commit` is `Endorse`, or
`Close` with the author's endorsement, `Expire` is `Close` by the sweep, and
everything else is invisible to Ratification.

**StableResultProofs.** `TypeCorrect` needs `start <= end` for an open vote,
or the deadline could become negative. `BudgetCorrect`: a grant is made only if
it fits in the budget computed from the original duration, and until the first
escalation that duration is reconstructed correctly (`BudgetInv`).
`NoUnstableCloseCorrect`: the worker closes either because the sliding window is
stable, or on time because nothing is destabilized; then no extension was ever
granted (`UsedInv`), so the stable window reconstructed from the audit log ends
exactly at `end`, and it was evaluated since the deadline is past its start.

`DeadlineKept` is `OriginalDeadlineKept`. A close before the original deadline can
only be an early one, of an extended vote. `ShakenInv` says that the reason for the
first extension stays on file (`Shaken`): an unsound snapshot in the window, or
evidence that disagrees, or that is too thin. Snapshots are only added, and before
the original deadline the sliding window has not moved past this evidence, so it
cannot be stable. The induction shows why the two exceptions are there: a
tick on the start of the window leaves nothing on file but the thinness of the
evidence, which the next tick repairs; and for ranked choice the pair of
snapshots that triggered the extension need not lie in the sliding window.

**SharesProofs.** `NeverGrantedTwice` is `GrantedOnce` with the reason for it,
`PaidHasKey`: whatever was paid has its key in the ledger. A sweep inserts keys in
the transaction that pays, so the unique constraint makes the second of two
overlapping sweeps fail as a whole. `IssuesStayWithinCap` is `CapHolds`. The
check against the cap is made before the write, so `CapInv` states for each kind of
open transaction what its check still guarantees (`Safe`), as long as shares are
only issued: the difference an increase is going to add fits on top of the
*current* total, for it holds the organization's row, and the old balance it
computed with can only have grown; a new cap is not below the total; what a sweep
has planned fits, and the balances it read are the current ones. The total is a sum over the members; how it changes
with one balance, or with a sweep over many, comes from SumLemmas.

**DelegationProofs.** `ConsentCorrect` proves the inductive `ConsentInv`, which is
about the numbers of requests. A number is handed out once, and written at most
once. What a handler is going to write on account of a number - the delegation it
has checked, or the intents an approval has read - is not written yet, and in the
hands of no other handler. For two approvals that needs the lock: both would have
to be of the same pair, and the second waits for the follow request. The *status*
of an intent carries little: approvals, withdrawals and expiries are written over
each other, so all that is kept of it is that a pending intent is unwritten and
that no closed one becomes pending again. So a request cannot take effect twice
(`NoRequestTwice`). `PermittedNow`, `AsksDirect` and `JobsMatch` carry the
permission: what follows and profiles allow now, what they allowed when an open
request looked, and that an approval stands for the pair and scope its intents
asked for; all that is in the history `admitted`, from which every written
delegation comes (`BothConsent`). `WithdrawalStands` adds that no step takes up an
intent that is closed and in no approval's hands.

**TalliesProofs.** `VoicesTraced` and `StrategyOnlySettlesConflicts` are about the
resolver, so they follow from `TypeOK`: the context of a well-typed state is well-formed (`WellFormed`).
`FirstByIsIn` shows that sorting finitely many topics by rank has a first one,
and that it is one of them; the relevance-weighted strategy, its ties, and its
fall-through to strict precedence then come down to delegations the voter made
(`FoundIsMade` and the lemmas after it). `VoicesTraced` follows a voice through
one delegation and, where the chain is accepted, one more.
`StrategyOnlySettlesConflicts`: with one held topic there is nothing to weigh, and
both strategies follow the same row, or none.

`ApprovalIsFair` is `EqualApprovalsEqualChances`, for every winner configuration and
tie resolver, with the lemmas on approval of CountingProofs. The walk over the groups of equal approval is a recursive function
on sets of totals (`WalkExists` shows that there is one). `Walked` is its
invariant: whatever is above the group at hand is seated as a whole or the walk is
done, and then what is seated are all options above some number of approvals, with
the next group as a whole left open if only some of it fits (`Leveled`). So the
seats that are left go to equals. `PickedAreTied` shows which sets of them
the resolver's repeated draws can give: with the lot, all sets of that size, and
hence with a set also the one in which an equal takes the place of a member.

`MajorityIsFunded` is `MajorityRankingFunded`. With the resolved ballots and their
weights as profile (`ProjectFacts`) it is a claim about `tally_project`, which
CountingProofs establishes.

`WinnerIsImmune` is `ImmuneToArguments`: whoever beats a ranked-pairs winner is
itself beaten, through a chain of duels at least as clear. It needs of the
ballots no more than that duels have an integer strength.

`JumpsAreRemovals` is `MedianRemovalExact`. `JudgedFacts`: each option's histogram
has the weight of all ballots, so the options have equally many grades to remove.

`RaisingNeverHurts` is the action property `RaisingHelps`: as the rules of the poll
never change (`PollFixed`), a step that changes one ballot changes the profile by
that ballot and nothing else (`RaisedIsElected`), and CountingProofs compares the
two counts, method by method. This is where distinct priorities are needed: with
two victories that tie in everything, what gets locked would depend on the
order in which they happen to be listed.

`SeatsAreAdded` is `SeatsAddUp`: with every seat more one more of the supported
options is elected, as long as there are any, and those already elected stay. What
is shown of each method is the same step, from one seat to two and from two
to three (`NextSeat`, `SeatsFilled`), but each method needs its own reason.

**CountingProofs.** `MajorityFunded` is a claim about four computations that
know nothing of each other. The value which more than half the weight names is
the median, by shares or by heads (`MajorityIsMedian`), so each item of the majority's ranking stands
at the median position the majority gives it, and the stop point is what the
majority spends (`PlacesOfMajority`, `StopOfMajority`). Positions grow along
the ranking because its entries cost something; an item left out stands at
`max_spend`, where the last entry may stand too, but then the majority makes the
entry the more broadly ranked one. Hence the ranking is the beginning of the
priority order (`OrderOfMajority`), and the most chosen tier of each entry is the
majority's (`TierOfMajority`). The walk then has the invariant `Honours`: what is
funded after n steps agrees with the ranking, and it is all of the first n entries unless the walk has halted
at one that does not fit. Below these are lemmas about the greatest common
divisor (`GcdUnfolds`: half of twice a number is that number), about the places
of a strict order (`PlaceFacts`), and those of the approval counter.

Ranked pairs locks victories from the strongest to the weakest and skips one that
would close a cycle. The graph is a recursive function on sets of victories, which
takes the weakest away (`WeakestFacts`), so the induction is on that set (`Locking`).
What it carries is `Sound`: the graph is transitive and has no cycle, it reaches no further than
chains of its victories lead, and each victory is locked or
answered by a chain of victories, each at least as strong, from the loser to the
winner. `LockKeepsSound` adds one victory: its chains may use what was locked
before, all of it stronger, which is why the order of locking is needed. A finite
graph without cycles has an option nobody is above (`SourceExists`), and this is
the one the code picks (`WinnerIsSource`). A victory over it was never locked, so it was answered
(`WinnerAnswers`).

Majority judgment is defined by removing one median grade after another; the code
takes them in pairs and jumps over runs of equal pairs. `GradeTaken` says how a
removal moves the places of the others, `GradesTaken` which of the original
grades is the n-th removed: the middle one of an odd number first, and then the lower half
downwards and the upper half upwards in turn, which is what the pairs hold
(`PairsFacts`). Whatever is alive when the code stands at a pair are the best by the
grades seen so far (`RemovalEnds`, from the last pair backwards): taking the leaders by one grade more gives the best by
one grade more (`BestNext`), and over a jump nothing changes, as those alive agree on the
first pair and none of them has another one before the shortest run ends
(`BestStays`).

Raising an option must be followed through counts whose intermediate results
change. For ranked pairs, a raise lets victories appear, vanish and
change places, so the two lockings cannot be followed side by side. Instead,
what is locked is characterized without an order: a victory is locked iff the
stronger locked ones do not lead from its loser to its winner (`Settled`), the
graph satisfies that (`GraphIsSound`, with `LockSettles`), and only one set does
(`SettledIsUnique`, by the strongest victory in which two sets differ). The set for the new ballots can
then be written down: the old one, with all victories of the raised winner
instead of those it had (`RaisedIsSettled`); nothing in it is a
victory over the winner, so the winner is still nobody's loser. A winner by majority judgment has, after the
raise, in every place of its sorted grades one at least as good
(`GradesImprove`), so it stays among the best and nobody joins them
(`BestImproves`).

The counter for one seat and the counter for several are separate code over
different pools. Where the seats go to the first n of a total order, one more
place is one more of them (`TopSeats`): score orders by total and priority
(`ScoreSeats`), majority judgment by duels, in which whole sequences of grades are compared
(`PairIsJudged`) and which therefore contain no cycle (`WorseOrders`, `JudgedOrder`); the
winner among all options wins each of its duels and has support (`JudgedFirst`). In STAR, cutting by one criterion after
the other always leaves the number that is needed (`NarrowRuns`, `NarrowStep`), since the
last criterion, the priority, has no ties (`StageFacts`); and the first winner of Bloc STAR is the
winner of STAR, although that one also looks at options nobody supports
(`StarSame`, `StarAlone`). In ranked pairs every supported option defeats every other one, and
those defeat nobody (`BackedVictories`), so the locked set of the
supported options is a part of that of all options (`BackedGraph`, from
`SettledIsUnique`) and both have the same sources (`BackedSources`).

**SumLemmas.** The library's induction theorems take an operator as a parameter,
which no back end can instantiate. The lemmas here state induction for a *set*
(the set of numbers, or of subsets, for which a claim holds) and derive it from
the well-foundedness of the order on Nat. From it follow that the sum of a
function over a finite set is well defined, and how it changes with the function
and the set.

**Only model-checked.** Liveness (`VotingEnds`, `VotingCloses`, `BacklogCleared`, and
the fairness half of `ImplementsRatification`) is out of reach of TLAPS's back
ends. Three properties of Tallies still have no proof: `BlocRepresented` and `EnvelopeSpent` are
about sums of fractions, and `SharesAreVotes` is about every weighted counter at once. TLC
checks them.

## 6. What the code does and does not promise

Five runs show the code doing something other than a comment or docstring of the
repository says:

* `lifecycle_archive`: `advance_due_deliberation_proposals` holds its batch
  `FOR UPDATE`, but the commit of the first proposal releases the locks of all.
  A later proposal is refreshed and then written with no lock; an archive that
  commits in between is overwritten and the proposal goes from withdrawn to
  voting, although archiving is "forward-only".
* `stable_stuck`: `reconstruct_original_voting_duration` subtracts the extensions
  of every round. With a large budget nothing is left, `evaluate_proposal` returns
  before its natural close on every tick, and the vote stays open.
* `pending_partial`: `execute_role_permissions_edit` checks each cell just before
  it writes it and raises at the first locked one; `_execute_now` turns this into
  the status `failed` and the endpoint commits that with the earlier cells.
  `registry.py` says that an executor never partially applies.
* `shares_overdraw`: the transfer's `FOR UPDATE` waits for the row but, without
  `populate_existing`, leaves the old balance in an object that was loaded
  before. Two transfers of a whole balance both succeed, and shares are created.
* `delegation_cycle`: `_edge_creates_cycle` removes the edge it tested even if it
  was there before. Delegating a topic to one's global delegate deletes the global
  edge from memory, and the delegate may then delegate everything back.

The following was seen while modelling; no run is about it. Most of it has no
sentence in the repository to hold against it.

*Lifecycle and Stable Result*

* Legacy methods take no lock: a ballot may land after the close that counted it;
  two overlapping closes run the hooks twice (`effects` reaches 2 for `binary`),
  and the issuance hook does not look at `issuance_executed` (`issuance.py:166`).
* `delete_proposal` tests for a draft without a lock; a draft published in
  between is deleted, although its docstring says only drafts are.
* `update_proposal` locks only if the method it had loaded is experimental, and
  tests "draft" on a possibly stale status otherwise; a race may therefore change
  the method of a published proposal (`routes/proposals.py:1799`). In the model
  the method is fixed: what is shown of locks is about proposals whose method
  does not change meanwhile.
* Both routes send a ranked-choice tally over the ballot cap to `unresolved`
  "rather than silently failing"; the worker fails it.
* Ranked choice may close before its original deadline: its extension can be
  triggered by the last pair of snapshots around the start of the window, and
  after a missed tick two agreeing snapshots satisfy the sliding window.
* `count_extensions` counts earlier rounds too: a vote opened again starts in the
  extension branch. An administrator's extension is not counted, although a
  comment in `resolve_escalation` says so. `resolve_escalation` with "pass" runs
  no hooks.
* The cosign gate expires a proposal without looking at its status again. After
  an outage an extended `voting_end` may still be in the past.

*Shares*

* A change of balance computes the ledger's delta, and the check against the cap,
  from the balance it had loaded. When a reduction, transfer or readmission
  races with it, deltas no longer add up and the cap may be exceeded; `pureIssue`
  in `CapHolds` stands for the absence of those. A sweep may likewise overwrite
  a concurrent transfer.
* Periods older than the catch-up window of 12 are never granted.
* The period number is part of a grant's key and its interval is not. Changing a
  rule from quarterly to monthly grants up to 12 periods at once; the other way
  round nothing is granted until the numbering has caught up. A ratified
  `share.rule_edit` loses `anchor_date`, which the direct edit keeps. A rule that
  is deleted and made again grants elapsed periods again.

*Delegation*

* `org_leave` deletes the rows but not the edges in memory: later delegations may
  be refused as cycles until a restart. Once there is a cycle in a graph,
  `would_create_cycle` refuses everybody in it.
* Intents are activated without the cycle test, and overwrite a choice the
  delegator has made since.
* `cancel_intent` tests the status (`routes/delegations.py:1126`) and writes it later
  without a lock or condition. If an approval commits in between, 'cancelled' is
  written over 'activated': the delegation stays on file with a cancelled intent,
  and a later hard revert takes it for one of public origin
  (`_is_private_origin_delegation` looks for 'activated'). The other way round, an
  approval that has read the intent as pending (line 730) activates it although
  the withdrawal has meanwhile been committed and answered with 204. The expiry that
  `list_intents` writes races with approvals in the same way.
* Concurrent upserts may insert one delegation twice (`models.py:1308` says once);
  so may the branch of the request that needs no approval.

*Tallies*

* Under `relevance_weighted`, a voter whose topic delegates are silent is not
  heard through her global delegate, although two comments
  (`delegation_engine.py:357`, `:379`) say so. `cast_by` may name somebody who
  did not vote.
* A delegate who is suspended is not heard, but her own delegations still
  forward what reaches her.
* Checks against `visited` can never fire: chains have at most two steps.
* A ceiling that is not a whole number can be passed. `budget_max_amount` and the
  envelope may be fractions (`schemas.py:372`, `:537`); with an envelope of 10,
  ceilings 4.5 and 10 and wants 4.5 and 5, `_largest_remainder_round` finds 4.5 and 5.5, has
  one unit to give, and gives it to the bucket first by identifier, which gets 5. Of ceilings that do not
  reach the envelope the docstring (`budget_tally.py:267`) says that none is exceeded;
  two of 4.5 are given 4 and 5.
* Trimmed means cut whole ballots without weights and exact shares with them, so
  one member with n shares is not n members with one.
* An option that only members without shares approve is counted with 0 approvals
  and may take a floor seat, although a docstring (`delegation_engine.py:867`)
  says that only options with an approval appear and others can never seat.
* Ranked pairs for several seats elects nobody when all ranked options are tied;
  for one seat it elects one of them.
* With tied STV winners all of them go to the tie resolver, although a comment
  (`delegation_engine.py:1336`) says that the clear ones stay.
* `_validate_and_update_options` (`routes/proposals.py:1184`) may replace the items
  of a draft by ones without a positive cost, which creation refuses
  (`routes/proposals.py:1033`). An item that costs nothing moves no position and adds nothing to
  the spending that is wanted: a majority's ranking may be cut short before it,
  or have it swapped with its neighbour.
* `tally_project` counts heads in `total_ballots_cast` (`budget_tally.py:650`)
  where the other counters count shares, and `earliest_decisive_vote` looks at
  the heads of direct ballots only.

*Digests*

* `render_and_send_digest` sends the whole digest if it claimed one of its rows, so
  two workers with overlapping digests may send a notification twice, although
  its docstring says they cannot; `flush_quiet_hours_queue` claims nothing.

## 7. What is not modelled

* Lifecycle: `update_proposal` (text, options, windows, method), bulk advance
  (which repeats `advance` for each proposal), vote rationales, write-ins, the
  delegated weight of cosignatures, candidate locking and schedules of elections,
  what seating a winner or issuing shares writes, snapshots during deliberation,
  the heartbeat.
* Pending actions: executors other than `role_permissions.edit` are its one-cell
  case, except for the removal of members and the reversal of governance, which
  write to several tables and are left out.
* Shares: editing and deleting a rule, targets chosen by title, a second rule.
* Delegation: sub-organizations, the order of topics (it is data of Tallies), the
  review of applications for a public profile.
* Tallies: ranked choice and STV, which the library `pyrankvote` counts; the
  details of `earliest_decisive_vote` (any tied option may win, in the model);
  the validators of frozen records; traces and explanations.
* Digests, verification, accounts and sessions, organizations and governance
  permissions, operations tooling, live updates, comments and Pol.is, planner
  automation, the frontend, schema and migrations: `PROJECT.json` gives the reason
  for each. No state of a vote depends on most of them, or they are I/O.

PostgreSQL and SQLAlchemy are external. They are modelled from how the code uses
them: row locks, READ COMMITTED, commit and rollback, unique constraints, the
flush of changed columns, and objects that keep what they were loaded with.

The modules cover the parts that decide votes and the rights behind them. Most of
the remaining lines are demo content and seed data, response schemas, the
administration of accounts and organizations, and rendering.

## 8. Plan

Done: the lifecycle, Stable Result, pending actions, shares, delegation, the
tallies; their runs; the proofs of section 5. What is left:

1. *Proofs.* The other properties of Tallies: `SharesAreVotes`, `EnvelopeSpent` and
   `BlocRepresented`; the last two need the arithmetic of sums of fractions.
2. *Shares*: editing and deleting a rule, with period numbers that depend on the
   interval.
3. *ProposalLifecycle*: `update_proposal`, with a method read anew by each
   transaction.
4. *Digests*: claims, overlapping workers, a crash between claim and send.
