------------------------------- MODULE Tallies -------------------------------
(***************************************************************************)
(* One proposal that is open for voting, and what its tally would be at    *)
(* every moment: routes/votes.py casts and retracts direct ballots,        *)
(* routes/delegations.py writes delegations, memberships come and go, and  *)
(* compute_tally resolves the voice of every eligible voter and counts the *)
(* voices by the method of the proposal. Resolution says who speaks for a  *)
(* voter; Counting, Approvals and Budgets count.                           *)
(***************************************************************************)
EXTENDS Resolution, Counting, Approvals, Budgets

CONSTANTS
    Voters,
    Polls,        \* the proposals and organizations to explore
    Abstain       \* the ballot that expresses no preference

ASSUME VoterAssumption == IsFiniteSet(Voters)

(* A poll fixes what no action here changes: the method and its settings,  *)
(* the options, the shares of each voter and whether they are used, the    *)
(* proposal's topics with their relevance and each voter's ranking of      *)
(* them. It also bounds what is explored: ballots, the ballots voters may  *)
(* cast; offers[v], the delegations v may make; undecided, who may change  *)
(* strategy; movers, who may leave and come back.                          *)
(* Relevance, ranks, shares and the limits of a winner configuration are   *)
(* numbers; a topic without a rank has Unranked.                           *)
ASSUME PollAssumption ==
    \A p \in Polls :
        /\ p.gated \in BOOLEAN /\ p.weighted \in BOOLEAN
        /\ IsFiniteSet(DOMAIN p.topics) /\ DOMAIN p.topics \subseteq Nat
        /\ \A i \in DOMAIN p.topics :
               /\ p.relevance[p.topics[i]] \in Int
               /\ \A v \in Voters : p.precedence[v][p.topics[i]] \in Int
        /\ NoVoice \notin [ballot : p.ballots, by : Voters]
        /\ IsFiniteSet(p.options)
        /\ p.weighted => \A v \in Voters : p.shares[v] \in Nat
        /\ p.method = "approval" /\ p.rules.configured =>
               p.rules.min \in Int /\ p.rules.max \in Int

(* The band of a project budget is not empty (schemas.py:562). A ballot for*)
(* one names no item twice and of each item a tier it has                  *)
(* (routes/votes.py:355-394).                                              *)
ASSUME ProjectAssumption ==
    \A p \in Polls :
        p.method = "budget_project" =>
            /\ p.rules \in [envelope : Nat, min_spend : Nat, max_spend : Nat,
                            tiers : [p.options -> Seq(Nat)],
                            fallback : [p.options -> BOOLEAN]]
            /\ p.rules.min_spend <= p.rules.max_spend
            /\ \A b \in p.ballots :
                   /\ b \in Seq(p.options \X Nat)
                   /\ \A i \in DOMAIN b : b[i][2] \in DOMAIN p.rules.tiers[b[i][1]]
                   /\ \A i, j \in DOMAIN b : b[i][1] = b[j][1] => i = j

(* Scores and grades are on the scale, ranks of options are numbers        *)
(* (experimental_ballots.py:7).                                            *)
ASSUME BallotAssumption ==
    \A p \in Polls : \A b \in p.ballots \ {Abstain} :
        /\ p.method \in {"score", "star", "majority_judgment", "allocated_score"} =>
               b \in [p.options -> Ratings]
        /\ p.method = "ranked_pairs" => b \in [p.options -> Nat]

(* candidate_priority ends in the option's id, so no two are alike         *)
(* (voting_methods.py:120).                                                *)
ASSUME PriorityAssumption ==
    \A p \in Polls :
        /\ \A o \in p.options : p.priority[o] \in Int
        /\ \A a, o \in p.options : p.priority[a] = p.priority[o] => a = o

VARIABLES
    poll,
    box,          \* box[v]: the direct Vote of v, NoBallot without one
    row,          \* row[v][k]: the Delegation of v for key k
    strategy,     \* strategy[v]: User.delegation_strategy
    roll          \* the voters with an active, sufficiently verified membership

vars == <<poll, box, row, strategy, roll>>

Keys == {poll.topics[i] : i \in DOMAIN poll.topics} \union {Global}

RowOf(delegate, chain) == [delegate |-> delegate, chain |-> chain]
Rows == [delegate : Voters, chain : {"accept_sub", "revert_direct", "abstain"}]

ASSUME RowAssumption ==
    /\ NoRow \notin Rows
    /\ \A p \in Polls, v \in Voters : \A o \in p.offers[v] : o.row \in Rows

TypeOK ==
    /\ poll \in Polls
    /\ box \in [Voters -> poll.ballots \union {NoBallot}]
    /\ row \in [Voters -> [Keys -> Rows \union {NoRow}]]
    /\ strategy \in [Voters -> {"strict_precedence", "relevance_weighted"}]
    /\ roll \in SUBSET Voters

Init ==
    /\ poll \in Polls
    /\ box = [v \in Voters |-> NoBallot]
    /\ row = [v \in Voters |-> [k \in Keys |-> NoRow]]
    /\ strategy = [v \in Voters |-> "strict_precedence"]
    /\ roll = Voters

(* POST .../vote: insert the voter's ballot, or overwrite it.              *)
cast_vote(v) ==
    /\ v \in roll
    /\ \E b \in poll.ballots : box' = [box EXCEPT ![v] = b]
    /\ UNCHANGED <<poll, row, strategy, roll>>

(* DELETE .../vote: 404 without a ballot.                                  *)
retract_vote(v) ==
    /\ v \in roll
    /\ box[v] # NoBallot
    /\ box' = [box EXCEPT ![v] = NoBallot]
    /\ UNCHANGED <<poll, row, strategy, roll>>

(* Mutant: only the delegate is stored, not the chain behaviour.           *)
upsert_unchained(v) ==
    /\ \E o \in poll.offers[v] : row' = [row EXCEPT ![v][o.key] = o.row.delegate]
    /\ UNCHANGED <<poll, box, strategy, roll>>

(* A delegation of Delegation.tla, as the tally sees it: a row written or  *)
(* deleted. Rows of two voters may form a cycle.                           *)
upsert_delegation(v) ==
    /\ \E o \in poll.offers[v] : row' = [row EXCEPT ![v][o.key] = o.row]
    /\ UNCHANGED <<poll, box, strategy, roll>>

revoke_delegation(v) ==
    /\ \E k \in Keys : /\ row[v][k] # NoRow
                       /\ row' = [row EXCEPT ![v][k] = NoRow]
    /\ UNCHANGED <<poll, box, strategy, roll>>

set_delegation_strategy(v) ==
    /\ v \in poll.undecided
    /\ \E s \in {"strict_precedence", "relevance_weighted"} \ {strategy[v]} :
          strategy' = [strategy EXCEPT ![v] = s]
    /\ UNCHANGED <<poll, box, row, roll>>

(* A membership is suspended or reactivated, or its verification lapses or *)
(* is renewed. The Vote and Delegation rows of the member stay.            *)
SetEligible(v) ==
    /\ v \in poll.movers
    /\ roll' = IF v \in roll THEN roll \ {v} ELSE roll \union {v}
    /\ UNCHANGED <<poll, box, row, strategy>>

Next ==
    \E v \in Voters :
        \/ cast_vote(v)
        \/ retract_vote(v)
        \/ upsert_delegation(v)
        \/ revoke_delegation(v)
        \/ set_delegation_strategy(v)
        \/ SetEligible(v)

Spec == Init /\ [][Next]_vars

-----------------------------------------------------------------------------
(* The tally *)

(* What is loaded for the resolver: ballots of eligible voters only, and   *)
(* no delegations at all where delegation is switched off.                 *)
_build_context(who) ==
    [topics     |-> poll.topics,
     relevance  |-> poll.relevance,
     merges     |-> poll.method = "binary",
     ballot     |-> [v \in Voters |-> IF v \in who THEN box[v] ELSE NoBallot],
     row        |-> IF poll.gated THEN [v \in Voters |-> [k \in Keys |-> NoRow]]
                    ELSE row,
     precedence |-> poll.precedence,
     strategy   |-> strategy]

context == _build_context(roll)

(* Everybody on the roll whose vote resolves, with the voice.              *)
Voices == Voiced([v \in roll |-> resolve_vote_pure(context, v)])

_weight_of(v) == IF poll.weighted THEN poll.shares[v] ELSE 1

-----------------------------------------------------------------------------
(* A profile: ballots of any index set, each with a weight. Voice by voice *)
(* it is what compute_tally_pure counts.                                   *)

Budget(what, many, weighted) ==
    [weighted |-> weighted, weight |-> many, options |-> poll.options,
     id |-> poll.priority, ballot |-> what, rules |-> poll.rules]

(* The method's outcome for ballots what[i] with weights many[i]. Where a  *)
(* tie is drawn by lot it is the set of sets of winners the draw can give. *)
Outcome(what, many, weighted) ==
    LET stated == {i \in DOMAIN what : what[i] # Abstain}
        rated  == _rated_totals(poll.options, [i \in stated |-> what[i]],
                                [i \in stated |-> many[i]], poll.priority)
        chosen == [options |-> poll.options, approved |-> what, weight |-> many,
                   rules |-> poll.rules]
        budget == Budget(what, many, weighted)
    IN  CASE poll.method = "binary" ->
                 [b \in poll.ballots |->
                     SumFunctionOnSet(many, {i \in DOMAIN what : what[i] = b})]
          [] poll.method = "approval" ->
                 resolve_tie_if_needed(chosen)
          [] poll.method = "budget_allocation" ->
                 tally_allocation(budget)
          [] poll.method = "budget_project" ->
                 tally_project(budget)
          [] poll.method = "score" -> count_score(rated, poll.num_winners)
          [] poll.method = "star" ->
                 IF poll.num_winners > 1
                 THEN count_bloc_star(rated, poll.num_winners)
                 ELSE IF Supported(rated) = {} THEN {} ELSE {count_star(rated)}
          [] poll.method = "majority_judgment" ->
                 count_majority_judgment(rated, poll.num_winners)
          [] poll.method = "ranked_pairs" ->
                 count_ranked_pairs(rated, poll.num_winners)
          [] poll.method = "allocated_score" ->
                 count_allocated_score(rated, poll.num_winners)

(* The ballots that speak, and the weight of each.                         *)
What == LET voice == Voices IN [v \in DOMAIN voice |-> voice[v].ballot]
Many(what) == [v \in DOMAIN what |-> _weight_of(v)]

compute_tally_pure ==
    LET what == What IN Outcome(what, Many(what), poll.weighted)

-----------------------------------------------------------------------------
(* Who speaks *)

(* A voter is heard through her own ballot or, without one, through one of *)
(* her current delegations: with the ballot of an eligible delegate, or,   *)
(* if he is silent and she accepts it, with that of an eligible delegate   *)
(* of his who is not herself. Nobody is heard through a ballot further     *)
(* away, one of somebody who left, or where delegation is switched off.    *)
VoiceTraced ==
    \A voices \in {Voices} : \A v \in DOMAIN voices :
        LET voice   == voices[v]
            Says(u) == u \in roll /\ box[u] = voice.ballot
            Silent(u) == u \notin roll \/ box[u] = NoBallot
            Delegations(u) == {row[u][k] : k \in Keys} \ {NoRow}
        IN  IF box[v] # NoBallot THEN voice = Voice(box[v], v)
            ELSE /\ ~poll.gated
                 /\ \E r \in Delegations(v) :
                        \/ Says(r.delegate)
                        \/ /\ Silent(r.delegate) /\ r.chain = "accept_sub"
                           /\ \E s \in Delegations(r.delegate) :
                                  s.delegate # v /\ Says(s.delegate)

Heard(v, s) ==
    LET voice == resolve_vote_pure([context EXCEPT !.strategy[v] = s], v)
    IN  IF voice = NoVoice THEN NoBallot ELSE voice.ballot

(* The delegation strategy settles conflicts between topics: a voter who   *)
(* delegates at most one topic of the proposal is heard with the same      *)
(* ballot, or not at all, under either strategy (the fall-through from     *)
(* relevance_weighted to strict_precedence must not find somebody else).   *)
StrategyNeedsChoice ==
    \A v \in roll :
        Cardinality(Held(context, v)) <= 1 =>
            Heard(v, "strict_precedence") = Heard(v, "relevance_weighted")

-----------------------------------------------------------------------------
(* What is counted *)

(* A member with n > 0 shares decides as much as n members with one: every *)
(* weighted counter (cumulative medians, histograms, quotas, margins) gives*)
(* what the counter for one vote each gives when the ballots are repeated. *)
(* (Not the trimmed means, which cut whole ballots here, exact weights     *)
(* there; and whoever has no shares may still name an option.)             *)
SharesAreVotes ==
    poll.weighted /\ ~(poll.method = "budget_allocation"
                        /\ poll.rules.aggregation = "trimmed_mean") =>
        \A what \in {What} : (\A v \in DOMAIN what : _weight_of(v) > 0) =>
        LET copies == UNION {{<<v, i>> : i \in 1 .. _weight_of(v)} : v \in DOMAIN what}
            counts == {[what |-> what, many |-> Many(what), weighted |-> TRUE],
                       [what |-> [c \in copies |-> what[c[1]]],
                        many |-> [c \in copies |-> 1], weighted |-> FALSE]}
        IN  Cardinality({Outcome(c.what, c.many, c.weighted) : c \in counts}) = 1

(* The ballots that state a preference, as the counters see them.          *)
ProfileOf(what) ==
    LET stated == {v \in DOMAIN what : what[v] # Abstain}
    IN  _rated_totals(poll.options, [v \in stated |-> what[v]],
                      [v \in stated |-> _weight_of(v)], poll.priority)

(* Majority Judgment by its definition: take one median grade after another*)
(* away; the option whose grades so taken are the better sequence wins.    *)
Without(h) == [h EXCEPT ![_lower_median(h)] = @ - 1]

MedianGrades(h) ==
    LET left[n \in 0 .. Weight(h)] == IF n = 0 THEN h ELSE Without(left[n - 1])
    IN  [n \in 1 .. Weight(h) |-> _lower_median(left[n - 1])]

WorseThan(s, t) ==
    \E i \in DOMAIN s : s[i] < t[i] /\ \A j \in 1 .. i - 1 : s[j] = t[j]

(* Jumping over whole runs of equal pairs of grades leaves the options that*)
(* taking one median grade at a time leaves.                               *)
MedianRemovalExact ==
    poll.method = "majority_judgment" =>
        \A p \in {ProfileOf(What)} :
            \A grades \in {[o \in poll.options |-> MedianGrades(p.histogram[o])]},
               pool \in (SUBSET poll.options) \ {{}} :
                DOMAIN p.weight # {} =>
                    Survivors(p.histogram, pool) =
                        {o \in pool : \A q \in pool : ~WorseThan(grades[o], grades[q])}

(* The winners for n seats, decided by the method of the poll.             *)
Elect(p, n) ==
    CASE poll.method = "score" -> count_score(p, n)
      [] poll.method = "star" ->
             IF n > 1 THEN count_bloc_star(p, n)
             ELSE IF Supported(p) = {} THEN {} ELSE {count_star(p)}
      [] poll.method = "majority_judgment" -> count_majority_judgment(p, n)
      [] poll.method = "ranked_pairs" -> count_ranked_pairs(p, n)

(* The single-winner counter and the multiwinner counter of a method are   *)
(* separate code over different pools. They agree: every seat more adds    *)
(* one supported option, if there is one left, to those already elected.   *)
(* (Ranked Pairs elects nobody when the options anyone ranks are all tied, *)
(* though as single-winner vote it may elect one of them.)                 *)
SeatsAddUp ==
    poll.method \in {"score", "star", "majority_judgment", "ranked_pairs"} =>
        \A p \in {ProfileOf(What)} :
        \A seats \in {[n \in 1 .. 3 |-> Elect(p, n)]}, backed \in {Supported(p)} :
            \/ poll.method = "ranked_pairs"
               /\ ~ \E a, b \in backed : p.pairwise[a][b] > 0
            \/ \A n \in 1 .. 3 :
                   /\ n > 1 => seats[n - 1] \subseteq seats[n]
                   /\ seats[n] \subseteq backed
                   /\ Cardinality(seats[n]) = Min({n, Cardinality(backed)})

(* Options reached from o by victories of at least m: they are in every set*)
(* that o is in and that no such victory leaves.                           *)
Beats(p, o, m) ==
    {q \in p.options : \A C \in SUBSET p.options :
        /\ o \in C
        /\ \A e \in Victories(p) : Margin(p, e) >= m /\ e[1] \in C => e[2] \in C
        => q \in C}

(* Ranked Pairs: if more voters prefer another option to the winner than   *)
(* the other way round, the winner answers through a chain of victories    *)
(* none of which is weaker. An option that beats every other one therefore *)
(* wins.                                                                   *)
ImmuneToArguments ==
    poll.method = "ranked_pairs" =>
        \A p \in {ProfileOf(What)} :
            \A w \in Elect(p, 1), o \in poll.options :
                <<o, w>> \in Victories(p) => o \in Beats(p, w, Margin(p, <<o, w>>))

(* Ballot c treats the options as b does, except that w stands higher.     *)
Lifts(b, c, w) ==
    IF poll.method = "ranked_pairs"
    THEN /\ \A a, o \in poll.options \ {w} : b[a] < b[o] <=> c[a] < c[o]
         /\ \A o \in poll.options : /\ b[w] > b[o] => c[w] > c[o]
                                    /\ b[w] = b[o] => c[w] >= c[o]
    ELSE c[w] > b[w] /\ c = [b EXCEPT ![w] = c[w]]

(* Moving the only winner up on one's ballot never makes it lose.          *)
RaisingHelps ==
    [][poll.method \in {"score", "majority_judgment", "ranked_pairs"} =>
           \A before \in {What}, after \in {What'} :
               \A v \in DOMAIN before \intersect DOMAIN after, w \in poll.options :
                   /\ before[v] # after[v]
                   /\ Abstain \notin {before[v], after[v]}
                   /\ Lifts(before[v], after[v], w)
                   /\ after = [before EXCEPT ![v] = after[v]]
                   /\ w \in Elect(ProfileOf(before), 1)
                   => w \in Elect(ProfileOf(after), 1)]_vars

(* Allocated Score: voters who give everything to the options of a list    *)
(* and nothing to the others, and who hold the shares of k seats, get k    *)
(* seats for their list if it has so many options.                         *)
BlocRepresented ==
    poll.method = "allocated_score" =>
        \A p \in {ProfileOf(What)}, elected \in {compute_tally_pure} :
        LET Power(V) == SumFunctionOnSet(p.weight, V)
        IN  \A list \in (SUBSET poll.options) \ {{}} :
                LET bloc == {v \in DOMAIN p.weight : \A o \in poll.options :
                                p.rate[v][o] = IF o \in list THEN TopRating ELSE 0}
                IN  \A k \in 1 .. Min({poll.num_winners, Cardinality(list)}) :
                        /\ bloc # {}
                        /\ Power(bloc) * poll.num_winners >= k * Power(Informative(p))
                        => Cardinality(elected \intersect list) >= k

(* Approval: no option is seated over another that more approve, and those *)
(* that equally many approve are treated alike: all are seated or none is, *)
(* unless the resolver picks among them, and the lot may pick any. (Only   *)
(* options on some ballot count: where somebody without shares names one,  *)
(* it may be seated with no approvals.)                                    *)
EqualApprovalsEqualChances ==
    poll.method = "approval" =>
        \A what \in {What}, outcomes \in {compute_tally_pure} :
        LET For(o) == {v \in DOMAIN what : o \in what[v]}
            approvals == [o \in poll.options |-> SumFunctionOnSet(Many(what), For(o))]
        IN  \A T \in outcomes : \A o \in T, q \in poll.options \ T :
                /\ approvals[q] <= approvals[o]
                /\ approvals[q] = approvals[o] /\ For(q) # {} =>
                       \/ (T \ {o}) \union {q} \in outcomes
                       \/ poll.rules.resolver = "broader_approval_base"

(* Allocation: the whole envelope is given out unless the ceilings of the  *)
(* buckets anyone wants leave no room, rounded once, over the sum; rounding*)
(* takes no bucket a unit over its ceiling, so that a ceiling in whole     *)
(* units is kept (one that is not may be passed by less than a unit); and a*)
(* bucket that is wanted more gets no less unless its ceiling says so      *)
(* (tally_allocation, _largest_remainder_round).                           *)
EnvelopeSpent ==
    poll.method = "budget_allocation" =>
        \A what \in {What}, given \in {compute_tally_pure} :
        \A want \in {Wanted(Budget(what, Many(what), poll.weighted))} :
        LET wanted == {o \in poll.options : want[o] # <<0, 1>>}
            cap  == poll.rules.cap
            room == RSumOver(wanted, LAMBDA o : cap[o])
        IN  /\ MapThenSumSet(LAMBDA o : given[o], poll.options) =
                   Rounded(Least(poll.rules.envelope, room))
            /\ \A o \in poll.options : Below(Whole(given[o]), Plus(cap[o], Whole(1)))
            /\ \A a, b \in poll.options :
                   Below(want[a], want[b]) =>
                       given[a] <= given[b] \/ Floor(cap[b]) <= given[b]

(* Projects: voters with more than half the weight who hand in the same    *)
(* ranking get exactly that ranking funded, tier by tier, up to the first  *)
(* entry that does not fit; only what they left out may be added after it. *)
(* (A ranking with an item that costs nothing may be cut short or have it  *)
(* swapped: it changes neither the positions after it nor what is wanted.) *)
MajorityRankingFunded ==
    poll.method = "budget_project" /\ (\A o \in poll.options : ~poll.rules.fallback[o]) =>
        \A what \in {What}, funded \in {compute_tally_pure.funded} :
        LET Power(V) == SumFunctionOnSet(Many(what), V)
            For(b)  == {v \in DOMAIN what : what[v] = b}
            Free(b) == \E i \in DOMAIN b : Cost(poll, b[i]) = 0
            spent   == Spend(poll, funded, Len(funded))
        IN  \A b \in poll.ballots :
                ~Free(b) /\ 2 * Power(For(b)) > Power(DOMAIN what)
                => LET common == Min({Len(funded), Len(b)})
                   IN  /\ SubSeq(funded, 1, common) = SubSeq(b, 1, common)
                       /\ Len(funded) < Len(b) =>
                              spent + Cost(poll, b[Len(funded) + 1])
                                  > Min({poll.rules.envelope, poll.rules.max_spend})
=============================================================================
