------------------------------ MODULE Counting -------------------------------
(***************************************************************************)
(* The counters of experimental_tally.py, multiwinner_tally.py and         *)
(* allocated_score.py. A profile p holds the ballots that express a        *)
(* preference and the totals the counters work from:                       *)
(*   p.options      the options                                            *)
(*   p.rate[v][o]   what ballot v gives option o, 0 when it leaves it out: *)
(*                  a score, a grade, or the rank groups from o's downwards*)
(*   p.weight[v]    the shares behind ballot v                             *)
(*   p.priority[o]  candidate_priority, the order drawn from the tie seed  *)
(*   p.score[o]      the weighted sum of the ratings of o                  *)
(*   p.histogram[o]  the weight behind each rating of o                    *)
(*   p.pairwise[a][b]  the weight of the voters who prefer a to b          *)
(* Every counter returns the set of options it elects.                     *)
(***************************************************************************)
EXTENDS Ratio, Sequences, FiniteSets, FiniteSetsExt, Functions, SequencesExt

CONSTANT TopRating    \* the best score and the best grade: 5 in the code

ASSUME RatingAssumption == TopRating \in Nat

Ratings == 0 .. TopRating

(* A profile, from its ballots.                                            *)
_rated_totals(options, rate, weight, priority) ==
    LET Shares(V) == SumFunctionOnSet(weight, V)
        given(o)  == [v \in DOMAIN weight |-> weight[v] * rate[v][o]]
    IN  [options   |-> options,
         rate      |-> rate,
         weight    |-> weight,
         priority  |-> priority,
         score     |-> [o \in options |-> SumFunctionOnSet(given(o), DOMAIN weight)],
         histogram |-> [o \in options |-> [r \in Ratings |->
                           Shares({v \in DOMAIN weight : rate[v][o] = r})]],
         pairwise  |-> [a \in options |-> [o \in options |->
                           Shares({v \in DOMAIN weight : rate[v][a] > rate[v][o]})]]]

Leaders(pool, value) ==
    {o \in pool : \A q \in pool : value[q] <= value[o]}

First(pool, priority) ==
    CHOOSE o \in pool : \A q \in pool : priority[o] <= priority[q]

(* The first n of pool in an order that Before describes.                  *)
TopN(pool, n, Before(_, _)) ==
    {o \in pool : Cardinality({q \in pool : q # o /\ Before(q, o)}) < n}

-----------------------------------------------------------------------------
(* Score *)

Supported(p) == {o \in p.options : p.score[o] > 0}

count_score(p, n) ==
    TopN(Supported(p), n, LAMBDA a, b :
        \/ p.score[a] > p.score[b]
        \/ p.score[a] = p.score[b] /\ p.priority[a] < p.priority[b])

-----------------------------------------------------------------------------
(* STAR and Bloc STAR *)

(* What one stage of the tie break compares within the tied pool.          *)
Stage(p, pool, name) ==
    [o \in pool |->
        CASE name = "score"       -> p.score[o]
          [] name = "preferences" ->
                 SumFunctionOnSet(p.pairwise[o], pool)
          [] name = "five_stars"  -> p.histogram[o][TopRating]
          [] name = "priority"    -> -p.priority[o]]

(* Seat the best of pool; an equal group that does not fit stays tied.     *)
cut(pool, value, needed) ==
    LET in == {o \in pool :
                  Cardinality({q \in pool : value[q] >= value[o]}) <= needed}
    IN  [in |-> in,
         tied |-> IF Cardinality(in) >= needed \/ in = pool THEN {}
                  ELSE {o \in pool \ in :
                          Cardinality({q \in pool : value[q] > value[o]})
                            < needed}]

(* Cut by each stage in turn; a later stage sees only the tied options.    *)
Narrow(p, pool, needed, stages) ==
    FoldLeft(LAMBDA acc, name :
                 LET c == cut(acc.tied, Stage(p, acc.tied, name),
                              needed - Cardinality(acc.in))
                 IN  [in |-> acc.in \union c.in, tied |-> c.tied],
             [in |-> {}, tied |-> pool], stages).in

Finalists(p) ==
    Narrow(p, p.options, 2, <<"score", "preferences", "five_stars", "priority">>)

count_star(p) ==
    CHOOSE o \in Narrow(p, Finalists(p), 1,
                        <<"preferences", "score", "five_stars", "priority">>) :
        TRUE

(* Bloc STAR: elect, take the winner off the ballots, and count again.     *)
count_bloc_star(p, n) ==
    LET elected[k \in 0 .. n] ==
            IF k = 0 THEN {}
            ELSE LET sofar == elected[k - 1]
                     rest  == Supported(p) \ sofar
                 IN  sofar \union
                     (IF Cardinality(rest) <= 1 THEN rest
                      ELSE {count_star([p EXCEPT !.options = rest])})
    IN  elected[n]

-----------------------------------------------------------------------------
(* Majority Judgment *)

Weight(h) == SumFunctionOnSet(h, Ratings)

(* The grade in place n when the grades of h are sorted upwards.           *)
GradeAt(h, n) ==
    Min({r \in Ratings : SumFunctionOnSet(h, 0 .. r) >= n})

_lower_median(h) == GradeAt(h, (Weight(h) + 1) \div 2)

(* The pairs of grades that removal takes from h, one pair at a time: the  *)
(* lower half downwards against the upper half upwards, the middle one of  *)
(* an odd number being gone.                                               *)
Pairs(h, half, all) ==
    [i \in 1 .. half |-> <<GradeAt(h, half + 1 - i), GradeAt(h, all - half + i)>>]

(* How far the run of equal pairs that starts at i reaches.                *)
Run(pairs, i) ==
    Max({n \in 1 .. Len(pairs) - i + 1 :
            \A j \in i .. i + n - 1 : pairs[j] = pairs[i]})

(* Mutant: the longest of their runs, not the shortest.                    *)
JumpPast(pairs, pool, i) == Max({Run(pairs[o], i) : o \in pool})

(* How many pairs the options of pool may skip together.                   *)
Jump(pairs, pool, i) == Min({Run(pairs[o], i) : o \in pool})

(* The options left when removals have told apart all they can.            *)
Survivors(h, pool) ==
    LET all   == Weight(h[CHOOSE o \in pool : TRUE])
        half  == all \div 2
        pairs == [o \in pool |-> Pairs(h[o], half, all)]
        left[s \in ((SUBSET pool) \ {{}}) \X (1 .. half + 1)] ==
            LET alive == s[1]
                i     == s[2]
                low   == Leaders(alive, [o \in alive |-> pairs[o][i][1]])
                both  == Leaders(low, [o \in low |-> pairs[o][i][2]])
            IN  IF Cardinality(alive) = 1 \/ i > half THEN alive
                ELSE IF Cardinality(both) = 1 THEN both
                ELSE left[<<both, i + Jump(pairs, both, i)>>]
    IN  left[<<Leaders(pool, [o \in pool |-> _lower_median(h[o])]), 1>>]

_mj_outcome(h, pool, priority) == First(Survivors(h, pool), priority)

(* Mutant: several winners are ordered by majority grade alone.            *)
MajorityByMedian(p, n) ==
    LET h    == p.histogram
        pool == {o \in p.options : \E r \in Ratings \ {0} : h[o][r] > 0}
    IN  IF pool = {} THEN {}
        ELSE IF n = 1 THEN {_mj_outcome(h, p.options, p.priority)}
        ELSE TopN(pool, n, LAMBDA a, b :
                      \/ _lower_median(h[a]) > _lower_median(h[b])
                      \/ /\ _lower_median(h[a]) = _lower_median(h[b])
                         /\ p.priority[a] < p.priority[b])

(* One winner, or the order in which each option beats the next in pairs.  *)
count_majority_judgment(p, n) ==
    LET h    == p.histogram
        pool == {o \in p.options : \E r \in Ratings \ {0} : h[o][r] > 0}
    IN  IF pool = {} THEN {}
        ELSE IF n = 1 THEN {_mj_outcome(h, p.options, p.priority)}
        ELSE TopN(pool, n, LAMBDA a, b :
                      _mj_outcome(h, {a, b}, p.priority) = a)

-----------------------------------------------------------------------------
(* Ranked Pairs *)

Margin(p, e) == p.pairwise[e[1]][e[2]] - p.pairwise[e[2]][e[1]]

Victories(p) == {e \in p.options \X p.options : Margin(p, e) > 0}

(* Mutant: by support before margin.                                       *)
StrongerBySupport(p, e, f) ==
    LET key(g) == <<-p.pairwise[g[1]][g[2]], -Margin(p, g),
                    p.priority[g[1]], p.priority[g[2]]>>
    IN  \E i \in 1 .. 4 : /\ key(e)[i] < key(f)[i]
                          /\ \A j \in 1 .. i - 1 : key(e)[j] = key(f)[j]

(* Mutant: the sign of the margin is lost.                                 *)
WeakerFirst(p, e, f) ==
    LET key(g) == <<Margin(p, g), -p.pairwise[g[1]][g[2]],
                    p.priority[g[1]], p.priority[g[2]]>>
    IN  \E i \in 1 .. 4 : /\ key(e)[i] < key(f)[i]
                          /\ \A j \in 1 .. i - 1 : key(e)[j] = key(f)[j]

(* Victories in the order they are locked: by margin, support, priority.   *)
Stronger(p, e, f) ==
    LET key(g) == <<-Margin(p, g), -p.pairwise[g[1]][g[2]],
                    p.priority[g[1]], p.priority[g[2]]>>
    IN  \E i \in 1 .. 4 : /\ key(e)[i] < key(f)[i]
                          /\ \A j \in 1 .. i - 1 : key(e)[j] = key(f)[j]

(* Lock e unless its loser already reaches its winner; keep the closure.   *)
Lock(g, e) ==
    IF <<e[2], e[1]>> \in g.reach THEN g
    ELSE [locked |-> g.locked \union {e},
          reach  |-> g.reach \union
              ({e[1]} \union {x[1] : x \in {y \in g.reach : y[2] = e[1]}})
                \X
              ({e[2]} \union {x[2] : x \in {y \in g.reach : y[1] = e[2]}})]

_ranked_pairs_graph(p) ==
    LET graph[V \in SUBSET Victories(p)] ==
            IF V = {} THEN [locked |-> {}, reach |-> {}]
            ELSE LET last == CHOOSE e \in V : \A f \in V : ~Stronger(p, e, f)
                 IN  Lock(graph[V \ {last}], last)
    IN  graph[Victories(p)].locked

(* The options some ballot ranks; with one winner every option stands.     *)
Standing(p, n) == IF n = 1 THEN p.options ELSE Supported(p)

(* Sources of the locked graph, one after another, the first by priority.  *)
count_ranked_pairs(p, n) ==
    LET q == [p EXCEPT !.options = Standing(p, n)]
        locked == _ranked_pairs_graph(q)
        elected[k \in 0 .. n] ==
            IF k = 0 THEN {}
            ELSE LET sofar == elected[k - 1]
                     rest == q.options \ sofar
                     sources == {o \in rest : \A e \in locked :
                                    e[2] = o => e[1] \notin rest}
                 IN  IF rest = {} THEN sofar
                     ELSE sofar \union {First(sources, p.priority)}
    IN  IF \E a, b \in q.options : p.pairwise[a][b] > 0 THEN elected[n] ELSE {}

-----------------------------------------------------------------------------
(* Allocated Score *)

RSum(S, f(_)) ==
    MapThenFoldSet(Plus, Whole(0), f, LAMBDA T : CHOOSE x \in T : TRUE, S)

(* Ballots that give some option a positive score.                         *)
Informative(p) ==
    {v \in DOMAIN p.weight : p.weight[v] > 0 /\ \E o \in p.options : p.rate[v][o] > 0}

(* Mutant: the winner's ballots are not charged.                           *)
UnchargedRound(p, quota, s) == [s EXCEPT !.elected = @ \union {First(
        {o \in p.options \ s.elected : \A q \in p.options \ s.elected :
            p.score[q] <= p.score[o]}, p.priority)}]

(* One round: the best remaining total wins, and one quota of weight is    *)
(* taken from the ballots that contribute most to it, the last band of     *)
(* equal contributions in proportion.                                      *)
Round(p, quota, s) ==
    LET rest     == p.options \ s.elected
        Mass(V)  == RSum(V, LAMBDA v : Times(Whole(p.weight[v]), s.left[v]))
        total    == [o \in rest |-> RSum(Informative(p), LAMBDA v :
                        Times(Whole(p.weight[v] * p.rate[v][o]), s.left[v]))]
        best     == {o \in rest : \A q \in rest : AtMost(total[q], total[o])}
        winner   == First(best, p.priority)
        gives(v) == Times(Whole(p.rate[v][winner]), s.left[v])
        charged(v) ==
            LET above == Mass({u \in Informative(p) : Below(gives(v), gives(u))})
                band  == Mass({u \in Informative(p) : gives(u) = gives(v)})
            IN  Over(Least(band, Greatest(Whole(0), Minus(quota, above))), band)
    IN  IF rest = {} \/ total[winner] = Whole(0) THEN s
        ELSE [elected |-> s.elected \union {winner},
              left |-> [v \in Informative(p) |->
                           IF s.left[v] = Whole(0) THEN s.left[v]
                           ELSE Times(s.left[v], Minus(Whole(1), charged(v)))]]

count_allocated_score(p, n) ==
    LET mass  == SumFunctionOnSet(p.weight, Informative(p))
        after[k \in 0 .. n] ==
            IF k = 0
            THEN [elected |-> {}, left |-> [v \in Informative(p) |-> Whole(1)]]
            ELSE Round(p, Ratio(mass, n), after[k - 1])
    IN  IF mass = 0 THEN {} ELSE after[n].elected
=============================================================================
