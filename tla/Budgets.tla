------------------------------- MODULE Budgets -------------------------------
(***************************************************************************)
(* The two budget counters of budget_tally.py. A profile p holds           *)
(*   p.weighted     whether the organization votes by shares               *)
(*   p.weight[v]    the shares behind ballot v                             *)
(*   p.options      the buckets or items; p.id[o] orders their identifiers *)
(*   p.ballot[v]    of an allocation, what v gives each bucket; of a       *)
(*                  project, the items v ranks, each with its tier         *)
(*   p.rules        envelope, aggregation and cap[o] of an allocation;     *)
(*                  envelope, min_spend, max_spend, tiers[o], fallback[o]  *)
(*                  of a project                                           *)
(* tiers[o] gives the cost of each tier of item o; a plain item is one     *)
(* whose only tier is Plain. Money is an exact fraction where the code has *)
(* a float and a tolerance: amounts, ceilings and envelope of an allocation*)
(* need not be whole. Nothing is rounded in a project, so that its costs   *)
(* are whole multiples of some unit.                                       *)
(***************************************************************************)
EXTENDS Ratio, Sequences, FiniteSets, FiniteSetsExt, Functions, SequencesExt

Ballots(p) == DOMAIN p.weight

WeightOf(p, V) == SumFunctionOnSet(p.weight, V)

Half(a, b) == Over(Plus(a, b), Whole(2))

RSumOver(S, f(_)) ==
    MapThenFoldSet(Plus, Whole(0), f, LAMBDA T : CHOOSE x \in T : TRUE, S)

-----------------------------------------------------------------------------
(* Central tendencies of a value per ballot *)

(* The n-th smallest value.                                                *)
Nth(p, value, n) ==
    value[CHOOSE v \in Ballots(p) :
        /\ Cardinality({u \in Ballots(p) : Below(value[u], value[v])}) < n
        /\ n <= Cardinality({u \in Ballots(p) : AtMost(value[u], value[v])})]

_median(p, value) ==
    LET n == Cardinality(Ballots(p))
    IN  IF n = 0 THEN Whole(0)
        ELSE IF n % 2 = 1 THEN Nth(p, value, (n + 1) \div 2)
        ELSE Half(Nth(p, value, n \div 2), Nth(p, value, n \div 2 + 1))

(* A tenth of the ballots, rounded half up, is dropped at each end.        *)
_trimmed_mean(p, value) ==
    LET n == Cardinality(Ballots(p))
        k == (n + 5) \div 10
        kept == IF 2 * k >= n THEN 1 .. n ELSE k + 1 .. n - k
    IN  IF n = 0 THEN Whole(0)
        ELSE Over(RSumOver(kept, LAMBDA i : Nth(p, value, i)),
                  Whole(Cardinality(kept)))

Values(p, value) == {value[v] : v \in {u \in Ballots(p) : p.weight[u] > 0}}

UpTo(p, value, x)  == WeightOf(p, {v \in Ballots(p) : AtMost(value[v], x)})
Under(p, value, x) == WeightOf(p, {v \in Ballots(p) : Below(value[v], x)})

(* Mutant: half met exactly is taken as passed.                            *)
UpperlessMedian(p, value) ==
    LET all == WeightOf(p, Ballots(p))
        reach == {x \in Values(p, value) : 2 * UpTo(p, value, x) >= all}
    IN  IF all = 0 THEN Whole(0)
        ELSE CHOOSE x \in reach : \A y \in reach : AtMost(x, y)

(* The first value at which the cumulative weight reaches half the total,  *)
(* or its midpoint with the next one when half is met exactly.             *)
_weighted_median(p, value) ==
    LET all   == WeightOf(p, Ballots(p))
        reach == {x \in Values(p, value) : 2 * UpTo(p, value, x) >= all}
        at    == CHOOSE x \in reach : \A y \in reach : AtMost(x, y)
        next  == CHOOSE x \in reach \ {at} : \A y \in reach \ {at} : AtMost(x, y)
    IN  IF all = 0 THEN Whole(0)
        ELSE IF 2 * UpTo(p, value, at) = all THEN Half(at, next) ELSE at

(* A tenth of the weight is cut from each end, a value that straddles the  *)
(* cut keeping the rest of its weight.                                     *)
_weighted_trimmed_mean(p, value) ==
    LET all == WeightOf(p, Ballots(p))
        lo  == Ratio(all, 10)
        hi  == Ratio(9 * all, 10)
        kept(x) == Greatest(Whole(0),
                            Minus(Least(Whole(UpTo(p, value, x)), hi),
                                  Greatest(Whole(Under(p, value, x)), lo)))
    IN  IF all = 0 THEN Whole(0)
        ELSE Over(RSumOver(Values(p, value), LAMBDA x : Times(x, kept(x))),
                  RSumOver(Values(p, value), kept))

Middle(p, value) ==
    IF p.weighted THEN _weighted_median(p, value) ELSE _median(p, value)

Central(p, value) ==
    IF p.rules.aggregation = "median" THEN Middle(p, value)
    ELSE IF p.weighted THEN _weighted_trimmed_mean(p, value)
    ELSE _trimmed_mean(p, value)

-----------------------------------------------------------------------------
(* Allocation *)

(* What the voters want of each bucket, within its ceiling.                *)
Wanted(p) ==
    [o \in p.options |->
        Least(Central(p, [v \in Ballots(p) |-> p.ballot[v][o]]), p.rules.cap[o])]

(* Mutant: one round only; what the ceilings cut off is lost.              *)
ReflowOnce(p, want) ==
    LET wsum == RSumOver(p.options, LAMBDA o : want[o])
    IN  [o \in p.options |->
            Least(p.rules.cap[o], Over(Times(want[o], p.rules.envelope), wsum))]

(* Share the envelope in proportion; a bucket pushed over its ceiling gets *)
(* the ceiling, and the others share again what is left.                   *)
Reflow(p, want) ==
    LET Left(full) == Minus(p.rules.envelope, RSumOver(full, LAMBDA o : p.rules.cap[o]))
        capped[k \in 0 .. Cardinality(p.options)] ==
            IF k = 0 THEN {}
            ELSE LET full == capped[k - 1]
                     open == {o \in p.options \ full : want[o] # Whole(0)}
                     left == Left(full)
                     wsum == RSumOver(open, LAMBDA o : want[o])
                 IN  IF open = {} \/ AtMost(left, Whole(0)) THEN full
                     ELSE full \union
                          {o \in open : Below(Times(p.rules.cap[o], wsum),
                                              Times(want[o], left))}
        full == capped[Cardinality(p.options)]
        left == Left(full)
        wsum == RSumOver(p.options \ full, LAMBDA o : want[o])
    IN  [o \in p.options |->
            IF o \in full THEN p.rules.cap[o]
            ELSE IF want[o] = Whole(0) \/ AtMost(left, Whole(0)) THEN Whole(0)
            ELSE Over(Times(want[o], left), wsum)]

(* Whole amounts that add up to target: the missing units go to the        *)
(* largest fractional parts.                                               *)
_largest_remainder_round(p, final, target) ==
    LET missing == target - MapThenSumSet(LAMBDA o : Floor(final[o]), p.options)
        Before(a, b) == \/ Below(Fraction(final[b]), Fraction(final[a]))
                        \/ /\ Fraction(final[a]) = Fraction(final[b])
                           /\ p.id[a] < p.id[b]
    IN  [o \in p.options |->
            IF Cardinality({q \in p.options : Before(q, o)}) < missing
            THEN Floor(final[o]) + 1 ELSE Floor(final[o])]

Rounding(p, final) ==
    _largest_remainder_round(p, final, Rounded(RSumOver(p.options, LAMBDA o : final[o])))

Allocated(p, want) ==
    IF \A o \in p.options : want[o] = Whole(0) THEN [o \in p.options |-> 0]
    ELSE Rounding(p, Reflow(p, want))

tally_allocation(p) == Allocated(p, Wanted(p))

-----------------------------------------------------------------------------
(* Project *)

Cost(p, entry) == p.rules.tiers[entry[1]][entry[2]]

(* The cost of the first n entries of a ballot.                            *)
Spend(p, ballot, n) ==
    SumFunctionOnSet([i \in DOMAIN ballot |-> Cost(p, ballot[i])], 1 .. n)

Ranks(p, v, o) == \E i \in DOMAIN p.ballot[v] : p.ballot[v][i][1] = o

(* How much a ballot would spend before it comes to item o: all it may,    *)
(* when it leaves o out.                                                   *)
Position(p, v, o) ==
    IF Ranks(p, v, o)
    THEN Spend(p, p.ballot[v],
               (CHOOSE i \in DOMAIN p.ballot[v] : p.ballot[v][i][1] = o) - 1)
    ELSE p.rules.max_spend

Breadth(p, o) == WeightOf(p, {v \in Ballots(p) : Ranks(p, v, o)})

MedianPosition(p) ==
    [o \in p.options |->
        IF Ballots(p) = {} THEN Whole(p.rules.max_spend)
        ELSE Middle(p, [v \in Ballots(p) |-> Whole(Position(p, v, o))])]

(* Items by the median position, the more broadly ranked first: the n-th   *)
(* one has n - 1 before it.                                                *)
Ordered(p, at) ==
    LET breadth == [o \in p.options |-> Breadth(p, o)]
        Before(a, b) ==
            \/ Below(at[a], at[b])
            \/ at[a] = at[b] /\ breadth[a] > breadth[b]
            \/ at[a] = at[b] /\ breadth[a] = breadth[b] /\ p.id[a] < p.id[b]
    IN  [n \in 1 .. Cardinality(p.options) |->
            CHOOSE o \in p.options :
                Cardinality({q \in p.options : Before(q, o)}) = n - 1]

PriorityOrder(p) == Ordered(p, MedianPosition(p))

(* How much the group wants to spend, within the configured band.          *)
StopPoint(p) ==
    Greatest(Whole(p.rules.min_spend),
             Least(Whole(p.rules.max_spend),
                   Middle(p, [v \in Ballots(p) |->
                       Whole(Spend(p, p.ballot[v], Len(p.ballot[v])))])))

(* The tier to fund: the most chosen one, or under fallback the most       *)
(* chosen one that still fits.                                             *)
Choosers(p, o, t) ==
    WeightOf(p, {v \in Ballots(p) : \E i \in DOMAIN p.ballot[v] :
                                        p.ballot[v][i] = <<o, t>>})

Preferred(p, o, T) ==
    CHOOSE t \in T : \A u \in T \ {t} :
        \/ Choosers(p, o, t) > Choosers(p, o, u)
        \/ /\ Choosers(p, o, t) = Choosers(p, o, u)
           /\ \/ p.rules.tiers[o][t] < p.rules.tiers[o][u]
              \/ p.rules.tiers[o][t] = p.rules.tiers[o][u] /\ t < u

Limit(p) ==
    IF p.rules.envelope < p.rules.max_spend THEN p.rules.envelope ELSE p.rules.max_spend

Fits(p, spent, o) ==
    {t \in DOMAIN p.rules.tiers[o] : spent + p.rules.tiers[o][t] <= Limit(p)}

(* The tiers of o that may be funded now.                                  *)
Fundable(p, spent, o) ==
    IF p.rules.fallback[o] THEN Fits(p, spent, o)
    ELSE Fits(p, spent, o) \intersect {Preferred(p, o, DOMAIN p.rules.tiers[o])}

(* Mutant: an item that does not fit is skipped over.                      *)
FundSkipping(p, stop, s, o) ==
    IF s.halt # "queue_exhausted" \/ AtMost(stop, Whole(s.spent))
    THEN [s EXCEPT !.halt = IF @ = "queue_exhausted" THEN "stop_point" ELSE @]
    ELSE IF Fundable(p, s.spent, o) = {} THEN s
    ELSE LET t == Preferred(p, o, Fundable(p, s.spent, o))
         IN  [s EXCEPT !.funded = Append(@, <<o, t>>),
                       !.spent = @ + p.rules.tiers[o][t]]

(* Fund items in priority order until the stop point is reached, and stop  *)
(* for good at the first one that does not fit.                            *)
Fund(p, stop, s, o) ==
    IF s.halt # "queue_exhausted" THEN s
    ELSE IF AtMost(stop, Whole(s.spent))
         THEN [s EXCEPT !.halt = "stop_point"]
    ELSE IF Fundable(p, s.spent, o) = {}
         THEN [s EXCEPT !.halt = "item_did_not_fit"]
    ELSE LET t == Preferred(p, o, Fundable(p, s.spent, o))
         IN  [s EXCEPT !.funded = Append(@, <<o, t>>),
                       !.spent = @ + p.rules.tiers[o][t]]

Walk(p, stop) ==
    LET order == PriorityOrder(p)
        after[n \in 0 .. Cardinality(p.options)] ==
            IF n = 0 THEN [funded |-> <<>>, spent |-> 0, halt |-> "queue_exhausted"]
            ELSE Fund(p, stop, after[n - 1], order[n])
    IN  after[Cardinality(p.options)]

tally_project(p) == Walk(p, StopPoint(p))
=============================================================================
