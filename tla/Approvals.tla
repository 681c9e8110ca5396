------------------------------ MODULE Approvals ------------------------------
(***************************************************************************)
(* Approval votes: the multi-winner selection of delegation_engine.py and  *)
(* the tie resolvers that fill the seats it leaves open (tie_resolution.py *)
(* through proposal_lifecycle.py). A profile p holds                       *)
(*   p.options, p.approved[v], p.weight[v]   the ballots                   *)
(*   p.rules                                 the winner configuration: min,*)
(*       max, and threshold in percent (without one, configured is FALSE), *)
(*       and resolver, how the organization breaks a tie                   *)
(***************************************************************************)
EXTENDS Integers, FiniteSets, FiniteSetsExt, Functions

Cast(p) == SumFunction(p.weight)

Approvals(p, o) ==
    SumFunctionOnSet(p.weight, {v \in DOMAIN p.weight : o \in p.approved[v]})

(* Options on no ballot at all cannot be seated.                           *)
Named(p) == {o \in p.options : \E v \in DOMAIN p.weight : o \in p.approved[v]}

Clears(p, n) ==
    p.rules.threshold # 0 /\ Cast(p) > 0 /\ 100 * n >= p.rules.threshold * Cast(p)

Smaller(m, n) == IF m < n THEN m ELSE n
Larger(m, n)  == IF m < n THEN n ELSE m

(* One group of options with n approvals each: how many of them are seated.*)
Qualified(p, s, group, n) ==
    IF Clears(p, n)
    THEN Smaller(Cardinality(group), Larger(0, p.rules.max - Cardinality(s.winners)))
    ELSE Smaller(Cardinality(group), Larger(0, p.rules.min - Cardinality(s.winners)))

(* Mutant: as many of the group as fit are seated.                         *)
SeatSome(p, s, n) ==
    LET group == {o \in Named(p) : Approvals(p, o) = n}
        seats == Qualified(p, s, group, n)
    IN  IF s.done \/ seats = 0 THEN [s EXCEPT !.done = TRUE]
        ELSE [s EXCEPT !.winners = @ \union
                 (CHOOSE T \in SUBSET group : Cardinality(T) = seats)]

(* Seat the groups from the most approved down; the first that fits only   *)
(* in part is a boundary tie, and none of it is seated here.               *)
Seat(p, s, n) ==
    LET group == {o \in Named(p) : Approvals(p, o) = n}
        seats == Qualified(p, s, group, n)
    IN  IF s.done \/ seats = 0 THEN [s EXCEPT !.done = TRUE]
        ELSE IF seats < Cardinality(group)
             THEN [s EXCEPT !.done = TRUE, !.tied = group, !.seats = seats]
        ELSE [s EXCEPT !.winners = @ \union group]

Open == [winners |-> {}, tied |-> {}, seats |-> 0, done |-> FALSE]

(* The walk from the most approved group down: walk[T] is the state after  *)
(* the groups whose approvals are the numbers T.                           *)
Totals(p) == {Approvals(p, o) : o \in Named(p)}

select_approval_winners_with_config(p) ==
    LET walk[T \in SUBSET Totals(p)] ==
            IF T = {} THEN Open ELSE Seat(p, walk[T \ {Min(T)}], Min(T))
    IN  walk[Totals(p)]

(* Without a configuration the most approved options win, tied if several. *)
legacy_winners(p) ==
    LET top == {o \in Named(p) : \A q \in Named(p) : Approvals(p, q) <= Approvals(p, o)}
    IN  IF Cardinality(top) > 1
        THEN [Open EXCEPT !.tied = top, !.seats = 1]
        ELSE [Open EXCEPT !.winners = top]

_compute_approval_tally_pure(p) ==
    IF p.rules.configured THEN select_approval_winners_with_config(p)
    ELSE legacy_winners(p)

(* How many other options the ballots of o approve, by weight.             *)
CoApproved(p, o) ==
    MapThenSumSet(LAMBDA v : p.weight[v] * (Cardinality(p.approved[v]) - 1),
                  {v \in DOMAIN p.weight : o \in p.approved[v]})

(* The options one call of the resolver may pick from pool. random_seed is *)
(* drawn from the proposal's identifier and closing time: any of them.     *)
Picks(p, pool) ==
    IF p.rules.resolver = "broader_approval_base"
    THEN {o \in pool : \A q \in pool : CoApproved(p, q) <= CoApproved(p, o)}
    ELSE pool

(* The sets of options n calls may pick, each from those still tied.       *)
PickSets(p, pool, n) ==
    LET sets[k \in 0 .. n] ==
            IF k = 0 THEN {{}}
            ELSE {S \in SUBSET pool : \E T \in sets[k - 1] :
                      \E o \in Picks(p, pool \ T) : S = T \union {o}}
    IN  sets[n]

(* The sets of winners a close may seat.                                   *)
Completed(p, s) ==
    IF s.tied = {} THEN {s.winners}
    ELSE IF p.rules.resolver = "expand_winners" THEN {s.winners \union s.tied}
    ELSE {s.winners \union T : T \in PickSets(p, s.tied, s.seats)}

resolve_tie_if_needed(p) == Completed(p, _compute_approval_tally_pure(p))
=============================================================================
