----------------------------- MODULE MCTallies ------------------------------
(***************************************************************************)
(* Three voters and one poll per counting method, a few of them twice: with*)
(* one vote each and with shares. Three polls are on delegation: they have *)
(* two topics, and alice may delegate either of them or everything; the    *)
(* ballots of the others leave no room for delegation (offers is empty).   *)
(***************************************************************************)
EXTENDS Tallies

CONSTANTS alice, bob, carol, x, y, z, roads, parks

MCVoters == {alice, bob, carol}

Options == {x, y, z}
Order   == (x :> 1) @@ (y :> 2) @@ (z :> 3)
Rates(a, b, c) == (x :> a) @@ (y :> b) @@ (z :> c)

Heads   == [v \in MCVoters |-> 1]
Holders == (alice :> 3) @@ (bob :> 2) @@ (carol :> 1)
Idlers  == (alice :> 2) @@ (bob :> 1) @@ (carol :> 0)
Majors  == (alice :> 4) @@ (bob :> 3) @@ (carol :> 2)

Plain ==
    [gated |-> FALSE, weighted |-> FALSE, shares |-> Heads, topics |-> <<>>,
     relevance |-> <<>>, precedence |-> [v \in MCVoters |-> <<>>],
     offers |-> [v \in MCVoters |-> {}], undecided |-> {}, movers |-> {},
     options |-> Options,
     priority |-> Order, num_winners |-> 1, rules |-> <<>>]

Weighted(p, shares) == [p EXCEPT !.weighted = TRUE, !.shares = shares]

-----------------------------------------------------------------------------
Offers(v, keys, delegates, chains) ==
    {[key |-> k, row |-> RowOf(d, c)] :
        k \in keys, d \in delegates \ {v}, c \in chains}

(* Both topics weigh the same in the first, and parks come first for alice.*)
Delegated(method, ballots, relevance) ==
    [method |-> method, ballots |-> ballots, topics |-> <<roads, parks>>,
     relevance |-> (roads :> relevance) @@ (parks :> 1),
     precedence |-> [v \in MCVoters |->
         IF v = alice THEN (roads :> 1) @@ (parks :> 0)
         ELSE (roads :> Unranked) @@ (parks :> Unranked)],
     offers |-> (alice :> Offers(alice, {roads, parks, Global}, {bob, carol},
                                 {"accept_sub"})
                          \union Offers(alice, {parks}, {bob}, {"revert_direct"}))
             @@ (bob   :> Offers(bob, {roads}, {alice, carol}, {"accept_sub"}))
             @@ (carol :> Offers(carol, {Global}, {bob}, {"accept_sub"})),
     undecided |-> {alice},
     movers |-> {carol},
     rules |-> [configured |-> FALSE, resolver |-> "random_seed"]] @@ Plain

Binary   == Delegated("binary", {"yes", "no"}, 1)
Multiple == Delegated("approval", {{x}, {y, z}}, 2)

-----------------------------------------------------------------------------
Approve(config, resolver) ==
    [method |-> "approval", ballots |-> SUBSET Options,
     rules |-> config @@ [configured |-> TRUE, resolver |-> resolver]] @@ Plain

TwoSeats  == [min |-> 1, max |-> 2, threshold |-> 50]
Threshold == [min |-> 0, max |-> 2, threshold |-> 34]

-----------------------------------------------------------------------------
Rated(method, ballots, n) ==
    [method |-> method, ballots |-> ballots, num_winners |-> n] @@ Plain

Some3 == {Rates(2, 1, 0), Rates(2, 0, 1), Rates(1, 2, 0), Rates(0, 2, 1),
          Rates(1, 0, 2), Rates(0, 1, 2), Rates(2, 2, 0), Rates(0, 2, 2),
          Rates(0, 0, 2), Rates(2, 0, 0), Rates(1, 1, 0), Rates(0, 1, 1),
          Rates(0, 0, 0), Abstain}

(* All strict orders, two bullet votes and two with a tie.                 *)
Orders3 == {Rates(3, 2, 1), Rates(3, 1, 2), Rates(2, 3, 1), Rates(1, 3, 2),
            Rates(2, 1, 3), Rates(1, 2, 3), Rates(1, 0, 0), Rates(0, 1, 0),
            Rates(2, 2, 1), Rates(1, 2, 2), Abstain}

-----------------------------------------------------------------------------
(* Buckets with ceilings that add up to more than the envelope, and ballots*)
(* that keep to both. The amounts of Coarse are whole; Fine has ceilings   *)
(* and an envelope that are not.                                           *)
Amounts(a, b, c) == (x :> Ratio(a, 2)) @@ (y :> Ratio(b, 2)) @@ (z :> Ratio(c, 2))

Allocation(aggregation, envelope, cap, ballots) ==
    [method |-> "budget_allocation", ballots |-> ballots,
     rules |-> [envelope |-> envelope, aggregation |-> aggregation, cap |-> cap]] @@ Plain

Coarse(aggregation) ==
    Allocation(aggregation, Ratio(10, 1), Amounts(10, 20, 8),
               {Amounts(10, 0, 0), Amounts(0, 20, 0), Amounts(10, 10, 0),
                Amounts(4, 2, 8), Amounts(6, 6, 8), Amounts(0, 2, 8)})

Fine(aggregation) ==
    Allocation(aggregation, Ratio(21, 2), Amounts(9, 21, 5),
               {Amounts(9, 0, 0), Amounts(0, 21, 0), Amounts(9, 10, 0),
                Amounts(9, 5, 5), Amounts(0, 2, 5), Amounts(1, 0, 0)})

(* Items x and z of one tier, y of two; the envelope does not buy all.     *)
Project(fallback) ==
    [method |-> "budget_project",
     ballots |-> {<<<<x, 1>>, <<y, 1>>, <<z, 1>>>>, <<<<y, 2>>, <<x, 1>>, <<z, 1>>>>,
                  <<<<z, 1>>, <<x, 1>>>>, <<<<y, 1>>, <<z, 1>>>>, <<<<x, 1>>>>, <<>>},
     rules |-> [envelope |-> 10, min_spend |-> 3, max_spend |-> 9,
                tiers |-> (x :> <<4>>) @@ (y :> <<6, 3>>) @@ (z :> <<2>>),
                fallback |-> (x :> FALSE) @@ (y :> fallback) @@ (z :> FALSE)]] @@ Plain

(* The same where z costs nothing.                                         *)
Free(p) == [p EXCEPT !.rules.tiers[z] = <<0>>]

MCPolls ==
    {Binary, Multiple, [Binary EXCEPT !.gated = TRUE],
     Approve(TwoSeats, "random_seed"),
     Approve(TwoSeats, "expand_winners"),
     Weighted(Approve(TwoSeats, "broader_approval_base"), Holders),
     Weighted(Approve(Threshold, "random_seed"), Holders),
     Weighted(Approve(TwoSeats, "random_seed"), Idlers),
     Weighted(Rated("score", Some3, 1), Holders),
     Weighted(Rated("star", Some3, 2), Holders),
     Weighted(Rated("majority_judgment", Some3, 1), Majors),
     Weighted(Rated("majority_judgment", Some3, 2), Holders),
     Rated("ranked_pairs", Orders3, 1),
     Weighted(Rated("ranked_pairs", Orders3, 2), Majors),
     Weighted(Rated("allocated_score", Some3, 2), Holders),
     Weighted(Coarse("median"), Holders), Fine("median"),
     Coarse("trimmed_mean"),
     Weighted(Fine("trimmed_mean"), Majors),
     Weighted(Project(FALSE), Holders),
     Weighted(Project(TRUE), Majors),
     Weighted(Free(Project(FALSE)), Majors)}
=============================================================================
