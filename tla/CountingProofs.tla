---------------------------- MODULE CountingProofs ----------------------------
(***************************************************************************)
(* Proofs about the counters, for any profile of ballots and weights: how  *)
(* approval and its tie resolvers seat the options, what a majority of the *)
(* weight does to a median, the funding of a majority's ranking, how       *)
(* ranked pairs locks victories, what majority judgment removes, what      *)
(* raising one option on one ballot does to each of these counts, and whom *)
(* one seat more goes to.                                                  *)
(***************************************************************************)
EXTENDS Counting, Approvals, Budgets, SumLemmas

-----------------------------------------------------------------------------
(* Fractions                                                               *)

GcdStep(g, p) == IF p[2] = 0 THEN p[1] ELSE g[<<p[2], p[1] % p[2]>>]

Upto(n) == Nat \X (0 .. n)

(* Where Euclid's recursion ends up is again below.                        *)
LEMMA Remains ==
    ASSUME NEW n \in Nat, NEW p \in Upto(n), p[2] # 0
    PROVE  /\ p[2] \in Nat /\ p[1] % p[2] \in 0 .. (p[2] - 1)
           /\ <<p[2], p[1] % p[2]>> \in Upto(p[1] % p[2])
           /\ \A m \in Nat : n <= m + 1 => <<p[2], p[1] % p[2]>> \in Upto(m)
  <1>1. p[1] \in Nat /\ p[2] \in Nat /\ p[2] <= n /\ p[2] > 0
    BY DEF Upto
  <1>2. p[1] % p[2] \in 0 .. (p[2] - 1)
    BY <1>1
  <1> QED
    BY <1>1, <1>2 DEF Upto

LEMMA GcdRuns ==
    \A n \in Nat : \E g : g = [p \in Upto(n) |-> GcdStep(g, p)]
  <1> DEFINE T == {n \in Nat : \E g : g = [p \in Upto(n) |-> GcdStep(g, p)]}
  <1>1. 0 \in T
    <2> DEFINE g == [p \in Upto(0) |-> p[1]]
    <2>1. \A p \in Upto(0) : p[2] = 0
      BY DEF Upto
    <2>2. g = [p \in Upto(0) |-> GcdStep(g, p)]
      BY <2>1 DEF GcdStep
    <2> QED
      BY <2>2
  <1>2. ASSUME NEW n \in Nat, n \in T PROVE n + 1 \in T
    <2>1. PICK g : g = [p \in Upto(n) |-> GcdStep(g, p)]
      BY <1>2
    <2> DEFINE h == [p \in Upto(n + 1) |-> GcdStep(g, p)]
    <2>2. ASSUME NEW p \in Upto(n + 1) PROVE GcdStep(g, p) = GcdStep(h, p)
      <3>1. CASE p[2] = 0
        BY <3>1 DEF GcdStep
      <3>2. CASE p[2] # 0
        <4> DEFINE q == <<p[2], p[1] % p[2]>>
        <4>1. q \in Upto(n) /\ q \in Upto(n + 1)
          BY <3>2, Remains
        <4> HIDE DEF q
        <4>2. g[q] = h[q]
          BY <2>1, <4>1
        <4> QED
          BY <3>2, <4>2 DEF GcdStep, q
      <3> QED
        BY <3>1, <3>2
    <2>3. h = [p \in Upto(n + 1) |-> GcdStep(h, p)]
      BY <2>2
    <2>4. n + 1 \in Nat
      OBVIOUS
    <2> HIDE DEF h
    <2> QED
      BY <2>3, <2>4
  <1> HIDE DEF T
  <1>3. \A n \in Nat : n \in T
    BY <1>1, <1>2, NaturalInduction
  <1> QED
    BY <1>3 DEF T

LEMMA GcdRunsAlike ==
    ASSUME NEW m \in Nat, NEW g, g = [p \in Upto(m) |-> GcdStep(g, p)],
           NEW n \in Nat, NEW h, h = [p \in Upto(n) |-> GcdStep(h, p)]
    PROVE  \A p \in Upto(m) \intersect Upto(n) : g[p] = h[p]
  <1> DEFINE T == {k \in Nat : \A p \in Upto(m) \intersect Upto(n) :
                     p \in Upto(k) => g[p] = h[p]}
  <1>1. 0 \in T
    <2> SUFFICES ASSUME NEW p \in Upto(m) \intersect Upto(n), p \in Upto(0)
                 PROVE  g[p] = h[p]
      OBVIOUS
    <2>1. p[2] = 0 /\ g[p] = GcdStep(g, p) /\ h[p] = GcdStep(h, p)
      BY DEF Upto
    <2> QED
      BY <2>1 DEF GcdStep
  <1>2. ASSUME NEW k \in Nat, k \in T PROVE k + 1 \in T
    <2> SUFFICES ASSUME NEW p \in Upto(m) \intersect Upto(n), p \in Upto(k + 1)
                 PROVE  g[p] = h[p]
      OBVIOUS
    <2>1. g[p] = GcdStep(g, p) /\ h[p] = GcdStep(h, p)
      OBVIOUS
    <2>2. CASE p[2] = 0
      BY <2>1, <2>2 DEF GcdStep
    <2>3. CASE p[2] # 0
      <3> DEFINE q == <<p[2], p[1] % p[2]>>
      <3>1. q \in Upto(k)
        BY <2>3, Remains
      <3>2. m <= m + 1 /\ n <= n + 1
        OBVIOUS
      <3>3. q \in Upto(m) /\ q \in Upto(n)
        BY <2>3, <3>2, Remains
      <3> HIDE DEF q
      <3>4. g[q] = h[q]
        BY <1>2, <3>1, <3>3
      <3> QED
        BY <2>1, <2>3, <3>4 DEF GcdStep, q
    <2> QED
      BY <2>2, <2>3
  <1> HIDE DEF T
  <1>3. \A k \in Nat : k \in T
    BY <1>1, <1>2, NaturalInduction
  <1>4. m \in T
    BY <1>3
  <1> QED
    BY <1>4 DEF T

(* Euclid's algorithm, one step at a time.                                 *)
LEMMA GcdUnfolds ==
    ASSUME NEW a \in Nat, NEW b \in Nat
    PROVE  Gcd[<<a, b>>] = IF b = 0 THEN a ELSE Gcd[<<b, a % b>>]
  <1> DEFINE Run_(n) == CHOOSE g : g = [p \in Upto(n) |-> GcdStep(g, p)]
             F == [p \in Nat \X Nat |-> Run_(p[2])[p]]
  <1>1. \A n \in Nat : Run_(n) = [p \in Upto(n) |-> GcdStep(Run_(n), p)]
    BY GcdRuns
  <1> HIDE DEF Run_
  <1>2. ASSUME NEW p \in Nat \X Nat PROVE F[p] = GcdStep(F, p)
    <2>1. p[2] \in Nat /\ p \in Upto(p[2])
      BY DEF Upto
    <2>2. F[p] = GcdStep(Run_(p[2]), p)
      BY <1>1, <2>1
    <2>3. CASE p[2] = 0
      BY <2>2, <2>3 DEF GcdStep
    <2>4. CASE p[2] # 0
      <3> DEFINE r == p[1] % p[2]
                 q == <<p[2], r>>
      <3>1. r \in Nat /\ q \in Upto(r) /\ q \in Upto(p[2])
        <4>1. p[2] <= p[2] + 1
          BY <2>1
        <4> QED
          BY <2>1, <2>4, <4>1, Remains
      <3>2. q \in Nat \X Nat /\ q[2] = r
        BY <2>1, <3>1
      <3> HIDE DEF r, q
      <3>3. F[q] = Run_(r)[q]
        BY <3>2
      <3>4. Run_(r)[q] = Run_(p[2])[q]
        BY <1>1, <2>1, <3>1, GcdRunsAlike
      <3> QED
        BY <2>2, <2>4, <3>3, <3>4 DEF GcdStep, q, r
    <2> QED
      BY <2>3, <2>4
  <1>3. F = [p \in Nat \X Nat |-> GcdStep(F, p)]
    BY <1>2
  <1> HIDE DEF F
  <1>4. Gcd = [p \in Nat \X Nat |-> GcdStep(Gcd, p)]
    BY <1>3 DEF Gcd, GcdStep
  <1>5. <<a, b>> \in Nat \X Nat
    OBVIOUS
  <1>6. Gcd[<<a, b>>] = GcdStep(Gcd, <<a, b>>)
    BY <1>4, <1>5
  <1> QED
    BY <1>6 DEF GcdStep

-----------------------------------------------------------------------------
(* Approval                                                                *)

(* What the approval count relies on in a profile.                         *)
Countable(p) ==
    /\ IsFiniteSet(DOMAIN p.weight) /\ IsFiniteSet(p.options)
    /\ \A v \in DOMAIN p.weight : p.weight[v] \in Nat
    /\ p.rules.configured => p.rules.min \in Int /\ p.rules.max \in Int

(* Approvals are natural numbers, and nobody approves what nobody names.   *)
LEMMA ApprovalFacts ==
    ASSUME NEW p, Countable(p)
    PROVE  /\ IsFiniteSet(Named(p)) /\ Named(p) \subseteq p.options
           /\ \A o \in p.options : Approvals(p, o) \in Nat
           /\ \A o \in p.options \ Named(p) : Approvals(p, o) = 0
           /\ Totals(p) \in SUBSET Nat /\ IsFiniteSet(Totals(p))
           /\ \A o \in Named(p) : Approvals(p, o) \in Totals(p)
  <1> DEFINE For(o) == {v \in DOMAIN p.weight : o \in p.approved[v]}
  <1>1. Named(p) \in SUBSET p.options
    BY DEF Named
  <1>2. IsFiniteSet(Named(p))
    BY <1>1, FS_Subset DEF Countable
  <1>3. ASSUME NEW o \in p.options PROVE Approvals(p, o) \in Nat
    <2>1. For(o) \in SUBSET DOMAIN p.weight /\ IsFiniteSet(For(o))
      BY FS_Subset DEF Countable
    <2>2. SumFunctionOnSet(p.weight, For(o)) \in Int
      <3>1. \A v \in DOMAIN p.weight : p.weight[v] \in Int
        BY DEF Countable
      <3> HIDE DEF For
      <3> QED
        BY <2>1, <3>1, SumIsInteger DEF Countable
    <2>3. SumFunctionOnSet(p.weight, {}) <= SumFunctionOnSet(p.weight, For(o))
      <3>1. \A v \in For(o) : p.weight[v] \in Nat
        BY DEF Countable
      <3>2. {} \in SUBSET For(o)
        OBVIOUS
      <3> HIDE DEF For
      <3> QED
        BY <2>1, <3>1, <3>2, SumShrinks
    <2> QED
      BY <2>2, <2>3, SumOfNothing DEF Approvals
  <1>4. ASSUME NEW o \in p.options \ Named(p) PROVE Approvals(p, o) = 0
    <2>1. For(o) = {}
      BY DEF Named
    <2> QED
      BY <2>1, SumOfNothing DEF Approvals
  <1>5. IsFiniteSet(Totals(p))
    <2> DEFINE f == [o \in Named(p) |-> Approvals(p, o)]
    <2>1. f \in Surjection(Named(p), Totals(p))
      BY DEF Surjection, Totals
    <2> QED
      BY <1>2, <2>1, FS_Surjection
  <1> QED
    BY <1>1, <1>2, <1>3, <1>4, <1>5 DEF Totals

(* An outcome of the count: all options above a level are seated, and those*)
(* at that level, if any are left open, are tied for some seats.           *)
Leveled(p, s) ==
    \E n \in Int :
        /\ s.winners = {o \in Named(p) : Approvals(p, o) > n}
        /\ \/ s.tied = {}
           \/ /\ s.tied = {o \in Named(p) : Approvals(p, o) = n}
              /\ s.seats \in Nat /\ s.seats <= Cardinality(s.tied)

(* The state of the walk after the groups T, the highest ones.             *)
Walked(p, T, s) ==
    /\ s.done \in BOOLEAN
    /\ DOMAIN s = {"winners", "tied", "seats", "done"}
    /\ ~ s.done => s.tied = {} /\ s.winners = {o \in Named(p) : Approvals(p, o) \in T}
    /\ s.done => Leveled(p, s)

(* One more group.                                                         *)
LEMMA SeatStep ==
    ASSUME NEW p, Countable(p), p.rules.configured,
           NEW T \in SUBSET Totals(p), NEW n \in Totals(p),
           \A m \in Totals(p) : m \in T <=> m > n,
           NEW s, Walked(p, T, s)
    PROVE  Walked(p, T \union {n}, Seat(p, s, n))
  <1> DEFINE group == {o \in Named(p) : Approvals(p, o) = n}
             seats == Qualified(p, s, group, n)
             next  == Seat(p, s, n)
  <1> SUFFICES Walked(p, T \union {n}, next)
    OBVIOUS
  <1>1. next = IF s.done \/ seats = 0 THEN [s EXCEPT !.done = TRUE]
               ELSE IF seats < Cardinality(group)
                    THEN [s EXCEPT !.done = TRUE, !.tied = group, !.seats = seats]
               ELSE [s EXCEPT !.winners = @ \union group]
    BY DEF Seat
  <1>2. n \in Nat /\ \A o \in Named(p) : Approvals(p, o) \in Nat /\ Approvals(p, o) \in Totals(p)
    BY ApprovalFacts
  <1>3. CASE s.done
    <2>1. next = [s EXCEPT !.done = TRUE]
      BY <1>1, <1>3
    <2> QED
      BY <1>3, <2>1 DEF Walked, Leveled
  <1>4. CASE ~ s.done
    <2>1. s.tied = {} /\ s.winners = {o \in Named(p) : Approvals(p, o) > n}
      BY <1>2, <1>4 DEF Walked
    <2>2. Cardinality(group) \in Nat /\ seats \in Nat
      <3>1. group \in SUBSET Named(p) /\ s.winners \in SUBSET Named(p) /\ IsFiniteSet(Named(p))
        BY <2>1, ApprovalFacts
      <3>2. Cardinality(group) \in Nat /\ Cardinality(s.winners) \in Nat
        BY <3>1, FS_Subset, FS_CardinalityType
      <3>3. p.rules.min \in Int /\ p.rules.max \in Int
        BY DEF Countable
      <3> HIDE DEF group
      <3> QED
        BY <3>2, <3>3 DEF Qualified, Smaller, Larger
    <2> HIDE DEF seats
    <2>3. CASE seats = 0
      <3>1. next = [s EXCEPT !.done = TRUE]
        BY <1>1, <2>3
      <3> QED
        BY <1>2, <2>1, <3>1 DEF Walked, Leveled
    <2>4. CASE seats # 0 /\ seats < Cardinality(group)
      <3>1. next = [s EXCEPT !.done = TRUE, !.tied = group, !.seats = seats]
        BY <1>1, <1>4, <2>4
      <3>2. /\ next.winners = s.winners /\ next.tied = group /\ next.seats = seats
            /\ next.done = TRUE
            /\ DOMAIN next = {"winners", "tied", "seats", "done"}
        BY <3>1 DEF Walked
      <3> HIDE DEF next
      <3>3. Leveled(p, next)
        BY <1>2, <2>1, <2>2, <2>4, <3>2 DEF Leveled
      <3> HIDE DEF group
      <3> QED
        BY <3>2, <3>3 DEF Walked
    <2>5. CASE seats # 0 /\ ~ (seats < Cardinality(group))
      <3>1. next = [s EXCEPT !.winners = @ \union group]
        BY <1>1, <1>4, <2>5
      <3>2. /\ next.winners = s.winners \union group /\ next.tied = {} /\ next.done = FALSE
            /\ DOMAIN next = DOMAIN s
        BY <1>4, <2>1, <3>1 DEF Walked
      <3>3. s.winners \union group = {o \in Named(p) : Approvals(p, o) \in T \union {n}}
        BY <1>2, <2>1
      <3> HIDE DEF next
      <3> QED
        BY <3>2, <3>3 DEF Walked
    <2> QED
      BY <2>3, <2>4, <2>5
  <1> QED
    BY <1>3, <1>4 DEF Walked

WalkStep(p, walk, T) == IF T = {} THEN Open ELSE Seat(p, walk[T \ {Min(T)}], Min(T))

LEMMA LeastTotal ==
    ASSUME NEW T \in SUBSET Nat, T # {}
    PROVE  Min(T) \in T /\ \A m \in T : Min(T) <= m
  BY LeastElement DEF Min

(* The recursion of the walk is well defined.                              *)
LEMMA WalkExists ==
    ASSUME NEW p, Countable(p)
    PROVE  \E walk : walk = [T \in SUBSET Totals(p) |-> WalkStep(p, walk, T)]
  <1> DEFINE S == Totals(p)
             Small(n) == {T \in SUBSET S : Cardinality(T) <= n}
             N == {n \in Nat : \E w : w = [T \in Small(n) |-> WalkStep(p, w, T)]}
  <1>1. /\ \A T \in SUBSET S : IsFiniteSet(T) /\ Cardinality(T) \in Nat
        /\ S \in SUBSET Nat /\ IsFiniteSet(S)
    BY ApprovalFacts, FS_Subset, FS_CardinalityType
  <1> HIDE DEF S
  <1>2. 0 \in N
    <2>1. Small(0) = {{}}
      BY <1>1, FS_EmptySet
    <2> DEFINE w == [T \in Small(0) |-> Open]
    <2>2. w = [T \in Small(0) |-> WalkStep(p, w, T)]
      BY <2>1 DEF WalkStep
    <2> QED
      BY <2>2
  <1>3. ASSUME NEW n \in Nat, n \in N PROVE n + 1 \in N
    <2>1. PICK w : w = [T \in Small(n) |-> WalkStep(p, w, T)]
      BY <1>3
    <2> DEFINE x == [T \in Small(n + 1) |-> WalkStep(p, w, T)]
    <2>2. ASSUME NEW T \in Small(n + 1) PROVE WalkStep(p, w, T) = WalkStep(p, x, T)
      <3>1. CASE T = {}
        BY <3>1 DEF WalkStep
      <3>2. CASE T # {}
        <4> DEFINE R == T \ {Min(T)}
        <4>1. Min(T) \in T
          BY <1>1, <3>2, LeastTotal
        <4>2. Cardinality(R) = Cardinality(T) - 1
          BY <1>1, <4>1, FS_RemoveElement
        <4>3. Cardinality(T) \in Nat /\ Cardinality(T) <= n + 1
          BY <1>1
        <4>4. Cardinality(R) <= n /\ Cardinality(R) <= n + 1
          BY <4>2, <4>3
        <4>5. R \in Small(n) /\ R \in Small(n + 1)
          BY <4>4
        <4> HIDE DEF R, Small
        <4>6. w[R] = x[R]
          BY <2>1, <4>5
        <4> QED
          BY <4>6 DEF WalkStep, R
      <3> QED
        BY <3>1, <3>2
    <2>3. x = [T \in Small(n + 1) |-> WalkStep(p, x, T)]
      BY <2>2
    <2>4. n + 1 \in Nat
      OBVIOUS
    <2> HIDE DEF x, Small
    <2> QED
      BY <2>3, <2>4
  <1> HIDE DEF N
  <1>4. Cardinality(S) \in N
    BY <1>1, <1>2, <1>3, NaturalInduction
  <1>5. Small(Cardinality(S)) = SUBSET S
    BY <1>1, FS_Subset
  <1> QED
    BY <1>4, <1>5 DEF N, S

(* With a winner configuration, what the walk leaves is leveled.           *)
LEMMA ConfiguredIsLeveled ==
    ASSUME NEW p, Countable(p), p.rules.configured
    PROVE  Leveled(p, select_approval_winners_with_config(p))
  <1> DEFINE S == Totals(p)
             walk == CHOOSE w : w = [T \in SUBSET S |-> WalkStep(p, w, T)]
             High(T) == \A m \in T, k \in S : k > m => k \in T
             N == {n \in Nat : \A T \in SUBSET S :
                     Cardinality(T) = n /\ High(T) => Walked(p, T, walk[T])}
  <1>1. select_approval_winners_with_config(p) = walk[S]
    BY DEF select_approval_winners_with_config, WalkStep
  <1>2. walk = [T \in SUBSET S |-> WalkStep(p, walk, T)]
    BY WalkExists
  <1>3. /\ \A T \in SUBSET S : IsFiniteSet(T) /\ Cardinality(T) \in Nat
        /\ S \in SUBSET Nat /\ IsFiniteSet(S)
        /\ \A o \in Named(p) : Approvals(p, o) \in S /\ Approvals(p, o) \in Nat
    BY ApprovalFacts, FS_Subset, FS_CardinalityType
  <1> HIDE DEF walk
  <1>4. 0 \in N
    <2>1. \A T \in SUBSET S : Cardinality(T) = 0 => T = {}
      BY <1>3, FS_EmptySet
    <2>2. walk[{}] = Open
      BY <1>2 DEF WalkStep
    <2>3. Walked(p, {}, Open)
      BY DEF Walked, Open
    <2> QED
      BY <2>1, <2>2, <2>3
  <1>5. ASSUME NEW n \in Nat, n \in N PROVE n + 1 \in N
    <2> SUFFICES ASSUME NEW T \in SUBSET S, Cardinality(T) = n + 1, High(T)
                 PROVE  Walked(p, T, walk[T])
      OBVIOUS
    <2> DEFINE m == Min(T)
               R == T \ {m}
    <2>1. T # {}
      BY FS_EmptySet
    <2>2. m \in T /\ \A k \in T : m <= k
      BY <1>3, <2>1, LeastTotal
    <2>3. Cardinality(R) = n
      <3>1. Cardinality(R) = Cardinality(T) - 1
        BY <1>3, <2>2, FS_RemoveElement
      <3> QED
        BY <3>1
    <2>4. walk[T] = Seat(p, walk[R], m)
      BY <1>2, <2>1 DEF WalkStep
    <2> HIDE DEF m
    <2>5. m \in S /\ R \in SUBSET S /\ T = R \union {m}
      BY <2>2
    <2>6. \A k \in S : k \in R <=> k > m
      BY <1>3, <2>2
    <2>7. High(R)
      BY <1>3, <2>2, <2>6
    <2>8. Walked(p, R, walk[R])
      BY <1>5, <2>3, <2>5, <2>7
    <2> HIDE DEF R, High
    <2>9. Walked(p, R \union {m}, Seat(p, walk[R], m))
      BY <2>5, <2>6, <2>8, SeatStep
    <2> QED
      BY <2>4, <2>5, <2>9
  <1>6. High(S) /\ S \in SUBSET S
    OBVIOUS
  <1> HIDE DEF N
  <1>7. \A n \in Nat : n \in N
    BY <1>4, <1>5, NaturalInduction
  <1>8. Walked(p, S, walk[S])
    BY <1>3, <1>6, <1>7 DEF N
  <1>9. CASE walk[S].done
    BY <1>1, <1>8, <1>9 DEF Walked
  <1>10. CASE ~ walk[S].done
    <2>1. walk[S].tied = {} /\ walk[S].winners = {o \in Named(p) : Approvals(p, o) > -1}
      BY <1>3, <1>8, <1>10 DEF Walked
    <2> QED
      BY <1>1, <2>1 DEF Leveled
  <1> QED
    BY <1>9, <1>10

(* Without one, the most approved options win, or are tied for one seat.   *)
LEMMA LegacyIsLeveled ==
    ASSUME NEW p, Countable(p)
    PROVE  Leveled(p, legacy_winners(p))
  <1> DEFINE A(o) == Approvals(p, o)
             top == {o \in Named(p) : \A q \in Named(p) : A(q) <= A(o)}
  <1>1. \A o \in Named(p) : A(o) \in Nat /\ A(o) \in Totals(p)
    BY ApprovalFacts
  <1>2. CASE Named(p) = {}
    <2>1. legacy_winners(p).winners = {} /\ legacy_winners(p).tied = {}
      <3>1. top = {} /\ ~ (Cardinality(top) > 1)
        BY <1>2, FS_EmptySet
      <3> QED
        BY <3>1 DEF legacy_winners, Open
    <2> QED
      BY <1>2, <2>1 DEF Leveled
  <1>3. CASE Named(p) # {}
    <2>1. PICK n \in Nat : /\ \A q \in Named(p) : A(q) <= n
                           /\ top = {o \in Named(p) : A(o) = n}
      <3>1. Totals(p) # {} /\ Totals(p) \in SUBSET Nat /\ IsFiniteSet(Totals(p))
        BY <1>3, ApprovalFacts DEF Totals
      <3>2. PICK n \in Totals(p) : \A m \in Totals(p) : m <= n
        <4> DEFINE f == [k \in Totals(p) |-> k]
        <4>1. \A k \in Totals(p) : f[k] = k /\ f[k] \in Int
          BY <3>1
        <4> HIDE DEF f
        <4> QED
          BY <3>1, <4>1, GreatestExists
      <3>3. PICK o \in Named(p) : n = A(o)
        BY <3>2 DEF Totals
      <3> QED
        BY <1>1, <3>2, <3>3
    <2>2. top \in SUBSET Named(p) /\ IsFiniteSet(top) /\ Cardinality(top) \in Nat
      BY ApprovalFacts, FS_Subset, FS_CardinalityType
    <2>3. legacy_winners(p) = IF Cardinality(top) > 1
                              THEN [Open EXCEPT !.tied = top, !.seats = 1]
                              ELSE [Open EXCEPT !.winners = top]
      BY DEF legacy_winners
    <2> HIDE DEF top
    <2>4. CASE Cardinality(top) > 1
      <3>1. /\ legacy_winners(p).winners = {} /\ legacy_winners(p).tied = top
            /\ legacy_winners(p).seats = 1
        BY <2>3, <2>4 DEF Open
      <3>2. {o \in Named(p) : A(o) > n} = {}
        BY <1>1, <2>1
      <3> QED
        BY <2>1, <2>2, <2>4, <3>1, <3>2 DEF Leveled
    <2>5. CASE ~ (Cardinality(top) > 1)
      <3>1. legacy_winners(p).winners = top /\ legacy_winners(p).tied = {}
        BY <2>3, <2>5 DEF Open
      <3>2. {o \in Named(p) : A(o) > n - 1} = top
        BY <1>1, <2>1
      <3> QED
        BY <3>1, <3>2 DEF Leveled
    <2> QED
      BY <2>4, <2>5
  <1> QED
    BY <1>2, <1>3

-----------------------------------------------------------------------------
(* Ties                                                                    *)

PickStep(p, pool, sets, k) ==
    IF k = 0 THEN {{}}
    ELSE {S \in SUBSET pool : \E T \in sets[k - 1] :
              \E o \in Picks(p, pool \ T) : S = T \union {o}}

LEMMA PicksExist ==
    ASSUME NEW p, NEW pool, NEW n \in Nat
    PROVE  \E sets : sets = [k \in 0 .. n |-> PickStep(p, pool, sets, k)]
  <1> DEFINE N == {m \in Nat : \E f : f = [k \in 0 .. m |-> PickStep(p, pool, f, k)]}
  <1>1. 0 \in N
    <2> DEFINE f == [k \in 0 .. 0 |-> {{}}]
    <2>1. f = [k \in 0 .. 0 |-> PickStep(p, pool, f, k)]
      BY DEF PickStep
    <2> QED
      BY <2>1
  <1>2. ASSUME NEW m \in Nat, m \in N PROVE m + 1 \in N
    <2>1. PICK f : f = [k \in 0 .. m |-> PickStep(p, pool, f, k)]
      BY <1>2
    <2> DEFINE g == [k \in 0 .. (m + 1) |-> PickStep(p, pool, f, k)]
    <2>2. ASSUME NEW k \in 0 .. (m + 1) PROVE PickStep(p, pool, f, k) = PickStep(p, pool, g, k)
      <3>1. CASE k = 0
        BY <3>1 DEF PickStep
      <3>2. CASE k # 0
        <4>1. k - 1 \in 0 .. m /\ k - 1 \in 0 .. (m + 1)
          BY <3>2
        <4>2. f[k - 1] = g[k - 1]
          BY <2>1, <4>1
        <4> HIDE DEF g
        <4> QED
          BY <3>2, <4>2 DEF PickStep
      <3> QED
        BY <3>1, <3>2
    <2>3. g = [k \in 0 .. (m + 1) |-> PickStep(p, pool, g, k)]
      BY <2>2
    <2> HIDE DEF g
    <2> QED
      BY <2>3
  <1> HIDE DEF N
  <1>3. n \in N
    BY <1>1, <1>2, NaturalInduction
  <1> QED
    BY <1>3 DEF N

(* Whatever the resolver picks comes from the tied options, and a resolver *)
(* that may pick any of them may pick any set of the right size.           *)
LEMMA PickedAreTied ==
    ASSUME NEW p, NEW pool, IsFiniteSet(pool), NEW n \in Nat, n <= Cardinality(pool)
    PROVE  /\ \A T \in PickSets(p, pool, n) : T \subseteq pool
           /\ p.rules.resolver # "broader_approval_base" =>
                PickSets(p, pool, n) = {T \in SUBSET pool : Cardinality(T) = n}
  <1> DEFINE sets == CHOOSE f : f = [k \in 0 .. n |-> PickStep(p, pool, f, k)]
             any  == p.rules.resolver # "broader_approval_base"
             Sized(k) == {T \in SUBSET pool : Cardinality(T) = k}
             Good(k) == /\ sets[k] \subseteq SUBSET pool
                        /\ any => sets[k] = Sized(k)
             N == {k \in Nat : k <= n => Good(k)}
  <1>1. PickSets(p, pool, n) = sets[n]
    BY DEF PickSets, PickStep
  <1>2. sets = [k \in 0 .. n |-> PickStep(p, pool, sets, k)]
    BY PicksExist
  <1>3. ASSUME any, NEW T PROVE \A o : o \in Picks(p, pool \ T) <=> o \in pool \ T
    BY <1>3 DEF Picks
  <1>4. \A T \in SUBSET pool : IsFiniteSet(T) /\ Cardinality(T) \in Nat
    BY FS_Subset, FS_CardinalityType
  <1> HIDE DEF sets, any
  <1>5. 0 \in N
    <2>1. sets[0] = {{}}
      BY <1>2 DEF PickStep
    <2>2. Sized(0) = {{}}
      BY <1>4, FS_EmptySet
    <2> QED
      BY <2>1, <2>2
  <1>6. ASSUME NEW k \in Nat, k \in N PROVE k + 1 \in N
    <2> SUFFICES ASSUME k + 1 <= n PROVE Good(k + 1)
      OBVIOUS
    <2>1. Good(k)
      BY <1>6
    <2>2. sets[k + 1] = {S \in SUBSET pool : \E T \in sets[k] :
                             \E o \in Picks(p, pool \ T) : S = T \union {o}}
      <3>1. k + 1 \in 0 .. n /\ k + 1 # 0 /\ (k + 1) - 1 = k
        OBVIOUS
      <3>2. sets[k + 1] = PickStep(p, pool, sets, k + 1)
        BY <1>2, <3>1
      <3> QED
        BY <3>1, <3>2 DEF PickStep
    <2>3. sets[k + 1] \subseteq SUBSET pool
      BY <2>2
    <2>4. ASSUME any PROVE sets[k + 1] = Sized(k + 1)
      <3>1. \A S \in SUBSET pool : S \in sets[k + 1] <=>
                \E T \in sets[k] : \E o \in Picks(p, pool \ T) : S = T \union {o}
        BY <2>2
      <3>2. ASSUME NEW T \in Sized(k), NEW o \in pool \ T
            PROVE  T \union {o} \in Sized(k + 1)
        <4>1. Cardinality(T \union {o}) = Cardinality(T) + 1
          BY <1>4, FS_AddElement
        <4> QED
          BY <4>1
      <3>3. ASSUME NEW T \in Sized(k + 1)
            PROVE  \E R \in Sized(k) : \E o \in pool \ R : T = R \union {o}
        <4>1. PICK o \in T : TRUE
          BY FS_EmptySet
        <4>2. Cardinality(T \ {o}) = k
          <5>1. Cardinality(T \ {o}) = Cardinality(T) - 1
            BY <1>4, FS_RemoveElement
          <5> QED
            BY <5>1
        <4>3. T \ {o} \in Sized(k) /\ o \in pool \ (T \ {o}) /\ T = (T \ {o}) \union {o}
          BY <4>2
        <4> QED
          BY <4>3
      <3>4. ASSUME NEW S \in sets[k + 1] PROVE S \in Sized(k + 1)
        <4>1. PICK T \in sets[k] : \E o \in Picks(p, pool \ T) : S = T \union {o}
          BY <2>3, <3>1
        <4>2. PICK o \in pool \ T : S = T \union {o}
          BY <1>3, <2>4, <4>1
        <4>3. T \in Sized(k)
          BY <2>1, <2>4
        <4> HIDE DEF Sized
        <4> QED
          BY <3>2, <4>2, <4>3
      <3>5. ASSUME NEW S \in Sized(k + 1) PROVE S \in sets[k + 1]
        <4>1. PICK R \in Sized(k) : \E o \in pool \ R : S = R \union {o}
          BY <3>3
        <4>2. PICK o \in pool \ R : S = R \union {o}
          BY <4>1
        <4>3. R \in sets[k] /\ o \in Picks(p, pool \ R) /\ S \in SUBSET pool
          BY <1>3, <2>1, <2>4, <4>2
        <4> QED
          BY <3>1, <4>2, <4>3
      <3> HIDE DEF Sized
      <3> QED
        BY <3>4, <3>5
    <2> QED
      BY <2>3, <2>4
  <1> HIDE DEF N
  <1>7. n \in N
    BY <1>5, <1>6, NaturalInduction
  <1> QED
    BY <1>1, <1>7 DEF N, any

(* No option of the outcome is approved by fewer than one outside it, and  *)
(* where as many approve both, the lot may pick the other one as well.     *)
Fair(p, outcomes) ==
    \A T \in outcomes : \A o \in T, q \in p.options \ T :
        /\ Approvals(p, q) <= Approvals(p, o)
        /\ Approvals(p, q) = Approvals(p, o) /\ q \in Named(p) =>
               \/ (T \ {o}) \union {q} \in outcomes
               \/ p.rules.resolver = "broader_approval_base"

LEMMA LeveledIsFair ==
    ASSUME NEW p, Countable(p), NEW s, Leveled(p, s)
    PROVE  Fair(p, Completed(p, s)) /\ \A T \in Completed(p, s) : T \subseteq Named(p)
  <1> DEFINE A(o) == Approvals(p, o)
             Above(n) == {o \in Named(p) : A(o) > n}
             At(n)    == {o \in Named(p) : A(o) = n}
  <1>1. PICK n \in Int : /\ s.winners = Above(n)
                         /\ \/ s.tied = {}
                            \/ /\ s.tied = At(n)
                               /\ s.seats \in Nat /\ s.seats <= Cardinality(s.tied)
    BY DEF Leveled
  <1>2. /\ IsFiniteSet(Named(p)) /\ Named(p) \subseteq p.options
        /\ \A o \in p.options : A(o) \in Nat
        /\ \A o \in p.options \ Named(p) : A(o) = 0
    BY ApprovalFacts
  <1>3. ASSUME NEW k \in Int, Completed(p, s) = {Above(k)}
        PROVE  Fair(p, Completed(p, s)) /\ \A T \in Completed(p, s) : T \subseteq Named(p)
    BY <1>2, <1>3 DEF Fair
  <1>4. CASE s.tied = {}
    BY <1>1, <1>3, <1>4 DEF Completed
  <1>5. CASE s.tied # {} /\ p.rules.resolver = "expand_winners"
    <2>1. Above(n) \union At(n) = Above(n - 1)
      BY <1>2
    <2>2. Completed(p, s) = {Above(n - 1)}
      BY <1>1, <1>5, <2>1 DEF Completed
    <2> QED
      BY <1>3, <2>2
  <1>6. CASE s.tied # {} /\ p.rules.resolver # "expand_winners"
    <2> DEFINE picks == PickSets(p, At(n), s.seats)
               any == p.rules.resolver # "broader_approval_base"
    <2>1. Completed(p, s) = {Above(n) \union P : P \in picks}
      BY <1>1, <1>6 DEF Completed
    <2>2. IsFiniteSet(At(n)) /\ s.seats \in Nat /\ s.seats <= Cardinality(At(n))
      BY <1>1, <1>2, <1>6, FS_Subset
    <2>3. /\ \A P \in picks : P \subseteq At(n)
          /\ any => picks = {P \in SUBSET At(n) : Cardinality(P) = s.seats}
      <3> HIDE DEF At
      <3> QED
        BY <2>2, PickedAreTied
    <2> HIDE DEF picks, any
    <2> SUFFICES ASSUME NEW P \in picks, NEW o \in Above(n) \union P,
                        NEW q \in p.options \ (Above(n) \union P)
                 PROVE  /\ A(q) <= A(o)
                        /\ A(q) = A(o) /\ q \in Named(p) /\ any =>
                             ((Above(n) \union P) \ {o}) \union {q} \in Completed(p, s)
      BY <2>1, <2>3 DEF Fair, any
    <2>4. o \in Named(p) /\ A(o) \in Nat /\ A(q) \in Nat /\ A(o) >= n
      BY <1>2, <2>3
    <2>5. A(q) <= A(o)
      BY <1>2, <2>4
    <2>6. ASSUME A(q) = A(o), q \in Named(p), any
          PROVE  ((Above(n) \union P) \ {o}) \union {q} \in Completed(p, s)
      <3> DEFINE R == (P \ {o}) \union {q}
      <3>1. A(q) = n /\ o \in P /\ o \notin Above(n) /\ q \in At(n) /\ q \notin P
        BY <1>2, <2>3, <2>4, <2>6
      <3>2. R \in SUBSET At(n)
        BY <2>3, <3>1
      <3>3. Cardinality(R) = Cardinality(P)
        <4>1. IsFiniteSet(P) /\ Cardinality(P) \in Nat
          BY <2>2, <2>3, FS_Subset, FS_CardinalityType
        <4>2. IsFiniteSet(P \ {o}) /\ Cardinality(P \ {o}) = Cardinality(P) - 1
          BY <3>1, <4>1, FS_RemoveElement
        <4>3. Cardinality(R) = Cardinality(P \ {o}) + 1
          BY <3>1, <4>2, FS_AddElement
        <4> QED
          BY <4>1, <4>2, <4>3
      <3>4. R \in picks
        BY <2>3, <2>6, <3>2, <3>3
      <3>5. ((Above(n) \union P) \ {o}) \union {q} = Above(n) \union R
        BY <3>1
      <3> QED
        BY <2>1, <3>4, <3>5
    <2> QED
      BY <2>5, <2>6
  <1> QED
    BY <1>4, <1>5, <1>6

-----------------------------------------------------------------------------
(* Medians                                                                 *)

LEMMA HalfOfSame ==
    ASSUME NEW x \in Nat
    PROVE  Half(Whole(x), Whole(x)) = Whole(x)
  <1>1. Gcd[<<1, 0>>] = 1 /\ Gcd[<<2, 0>>] = 2
    BY GcdUnfolds
  <1>2. 2 * x \in Nat /\ (2 * x) % 1 = 0 /\ (2 * x) % 2 = 0
    OBVIOUS
  <1>3. Gcd[<<2 * x, 1>>] = 1 /\ Gcd[<<2 * x, 2>>] = 2
    <2>1. Gcd[<<2 * x, 1>>] = Gcd[<<1, (2 * x) % 1>>]
      BY <1>2, GcdUnfolds
    <2>2. Gcd[<<2 * x, 2>>] = Gcd[<<2, (2 * x) % 2>>]
      BY <1>2, GcdUnfolds
    <2> QED
      BY <1>1, <1>2, <2>1, <2>2
  <1>4. Plus(Whole(x), Whole(x)) = Ratio(2 * x, 1) /\ Abs(2 * x) = 2 * x
    BY DEF Plus, Whole, Abs
  <1>5. Ratio(2 * x, 1) = <<2 * x, 1>>
    BY <1>2, <1>3, <1>4 DEF Ratio
  <1>6. Over(<<2 * x, 1>>, Whole(2)) = Ratio(2 * x, 2)
    BY DEF Over, Whole
  <1>7. Ratio(2 * x, 2) = <<x, 1>>
    <2>1. Ratio(2 * x, 2) = <<(2 * x) \div 2, 2 \div 2>>
      BY <1>3, <1>4 DEF Ratio
    <2>2. (2 * x) \div 2 = x /\ 2 \div 2 = 1
      OBVIOUS
    <2> QED
      BY <2>1, <2>2
  <1> QED
    BY <1>4, <1>5, <1>6, <1>7 DEF Half, Whole

(* Ballots with weights, and a whole number each.                          *)
Weighed(p) ==
    /\ IsFiniteSet(Ballots(p)) /\ p.weighted \in BOOLEAN
    /\ \A v \in Ballots(p) : p.weight[v] \in Nat
    /\ ~p.weighted => \A v \in Ballots(p) : p.weight[v] = 1

LEMMA WeightFacts ==
    ASSUME NEW p, Weighed(p)
    PROVE  /\ \A V \in SUBSET Ballots(p) : IsFiniteSet(V) /\ WeightOf(p, V) \in Nat
           /\ \A V \in SUBSET Ballots(p) : \A U \in SUBSET V :
                  /\ WeightOf(p, U) <= WeightOf(p, V)
                  /\ WeightOf(p, V \ U) = WeightOf(p, V) - WeightOf(p, U)
           /\ \A V \in SUBSET Ballots(p) :
                  /\ WeightOf(p, V) > 0 => \E v \in V : p.weight[v] > 0
                  /\ ~p.weighted => WeightOf(p, V) = Cardinality(V)
  <1>1. ASSUME NEW V \in SUBSET Ballots(p)
        PROVE  /\ IsFiniteSet(V) /\ WeightOf(p, V) \in Nat
               /\ WeightOf(p, V) > 0 => \E v \in V : p.weight[v] > 0
               /\ ~p.weighted => WeightOf(p, V) = Cardinality(V)
    <2>1. IsFiniteSet(V)
      BY FS_Subset DEF Weighed
    <2>2. WeightOf(p, V) \in Nat /\ (WeightOf(p, V) > 0 => \E v \in V : p.weight[v] > 0)
      BY SumIsNatural DEF Weighed, WeightOf
    <2>3. ASSUME ~p.weighted PROVE WeightOf(p, V) = Cardinality(V)
      BY <2>1, <2>3, SumOfOnes DEF Weighed, WeightOf
    <2> QED
      BY <2>1, <2>2, <2>3
  <1>2. ASSUME NEW V \in SUBSET Ballots(p), NEW U \in SUBSET V
        PROVE  /\ WeightOf(p, U) <= WeightOf(p, V)
               /\ WeightOf(p, V \ U) = WeightOf(p, V) - WeightOf(p, U)
    <2>1. IsFiniteSet(V) /\ \A v \in V : p.weight[v] \in Int
      BY <1>1 DEF Weighed
    <2>2. WeightOf(p, V) = WeightOf(p, U) + WeightOf(p, V \ U)
      BY <2>1, SumOfParts DEF WeightOf
    <2>3. WeightOf(p, U) \in Nat /\ WeightOf(p, V) \in Nat /\ WeightOf(p, V \ U) \in Nat
      <3>1. U \in SUBSET Ballots(p) /\ V \ U \in SUBSET Ballots(p)
        OBVIOUS
      <3> QED
        BY <1>1, <3>1
    <2> QED
      BY <2>2, <2>3
  <1> QED
    BY <1>1, <1>2

(* Without weights, the values in the places around the middle are those of*)
(* a majority that agrees.                                                 *)
LEMMA NthOfMajority ==
    ASSUME NEW p, Weighed(p), NEW value, NEW x \in Nat,
           \A v \in Ballots(p) : \E n \in Nat : value[v] = Whole(n),
           NEW M, M = {v \in Ballots(p) : value[v] = Whole(x)},
           NEW k \in Nat, k <= Cardinality(M),
           Cardinality(Ballots(p)) - Cardinality(M) < k
    PROVE  Nth(p, value, k) = Whole(x)
  <1> DEFINE B == Ballots(p)
             Less(v) == {u \in B : Below(value[u], value[v])}
             Most(v) == {u \in B : AtMost(value[u], value[v])}
             Fit(v)  == Cardinality(Less(v)) < k /\ k <= Cardinality(Most(v))
  <1>1. \A S \in SUBSET B : IsFiniteSet(S) /\ Cardinality(S) \in Nat
    BY FS_Subset, FS_CardinalityType DEF Weighed
  <1>2. \A S \in SUBSET B : \A T \in SUBSET S : Cardinality(T) <= Cardinality(S)
    BY <1>1, FS_Subset
  <1>3. Cardinality(B \ M) < k /\ Cardinality(B \ M) \in Nat
    <2>1. IsFiniteSet(B) /\ B \intersect M = M
      BY <1>1
    <2>2. Cardinality(B \ M) = Cardinality(B) - Cardinality(B \intersect M)
      <3> HIDE DEF B
      <3> QED
        BY <2>1, FS_Difference
    <2>3. Cardinality(B) - Cardinality(M) < k /\ B \ M \in SUBSET B
      OBVIOUS
    <2> HIDE DEF B
    <2> QED
      BY <1>1, <2>1, <2>2, <2>3
  <1>4. M \in SUBSET B /\ B \ M \in SUBSET B /\ Cardinality(M) \in Nat
    BY <1>1
  <1>5. \A u, v \in B : /\ Below(value[u], value[v]) => ~AtMost(value[v], value[u])
                        /\ value[u] = value[v] => AtMost(value[u], value[v])
    BY DEF Below, AtMost, Whole
  <1>6. ASSUME NEW v \in M PROVE Fit(v)
    <2>1. Less(v) \in SUBSET (B \ M) /\ M \in SUBSET Most(v) /\ Most(v) \in SUBSET B
      BY <1>5
    <2> DEFINE less == Less(v)
               most == Most(v)
    <2> HIDE DEF B, less, most
    <2>2. less \in SUBSET B /\ most \in SUBSET B /\ less \in SUBSET (B \ M) /\ M \in SUBSET most
      BY <2>1 DEF less, most
    <2>3. Cardinality(less) <= Cardinality(B \ M) /\ Cardinality(M) <= Cardinality(most)
      BY <1>2, <1>4, <2>2
    <2>4. Cardinality(less) \in Nat /\ Cardinality(most) \in Nat
      BY <1>1, <2>2
    <2>5. Cardinality(less) < k /\ k <= Cardinality(most)
      BY <1>3, <1>4, <2>3, <2>4
    <2> QED
      BY <2>5 DEF less, most
  <1>7. ASSUME NEW v \in B, Fit(v) PROVE value[v] = Whole(x)
    <2> SUFFICES ASSUME value[v] # Whole(x) PROVE FALSE
      OBVIOUS
    <2>1. Most(v) \in SUBSET (B \ M) \/ M \in SUBSET Less(v)
      <3>1. PICK n \in Nat : value[v] = Whole(n)
        OBVIOUS
      <3>2. CASE n < x
        BY <3>1, <3>2 DEF AtMost, Whole
      <3>3. CASE n > x
        BY <3>1, <3>3 DEF Below, Whole
      <3>4. CASE n = x
        BY <3>1, <3>4
      <3> QED
        BY <3>2, <3>3, <3>4
    <2>2. Less(v) \in SUBSET B /\ Most(v) \in SUBSET B
      OBVIOUS
    <2>3. Cardinality(Less(v)) < k /\ k <= Cardinality(Most(v))
      BY <1>7
    <2> DEFINE less == Less(v)
               most == Most(v)
    <2> HIDE DEF B, less, most
    <2>4. less \in SUBSET B /\ most \in SUBSET B
      BY <2>2 DEF less, most
    <2>5. most \in SUBSET (B \ M) \/ M \in SUBSET less
      BY <2>1 DEF less, most
    <2>6. Cardinality(less) < k /\ k <= Cardinality(most)
      BY <2>3 DEF less, most
    <2>7. \/ Cardinality(most) <= Cardinality(B \ M)
          \/ Cardinality(M) <= Cardinality(less)
      BY <1>2, <1>4, <2>4, <2>5
    <2>8. Cardinality(less) \in Nat /\ Cardinality(most) \in Nat
      BY <1>1, <2>4
    <2> QED
      BY <1>3, <1>4, <2>6, <2>7, <2>8
  <1>8. M # {}
    <2> SUFFICES ASSUME M = {} PROVE FALSE
      OBVIOUS
    <2>1. Cardinality(M) = 0
      BY FS_EmptySet
    <2> QED
      BY <1>3, <2>1
  <1> HIDE DEF Fit
  <1>9. \E v \in B : Fit(v)
    BY <1>4, <1>6, <1>8
  <1>10. (CHOOSE v \in B : Fit(v)) \in B /\ Fit(CHOOSE v \in B : Fit(v))
    BY <1>9
  <1>11. Nth(p, value, k) = value[CHOOSE v \in B : Fit(v)]
    BY DEF Nth, Fit
  <1> QED
    BY <1>7, <1>10, <1>11

(* A value that ballots with more than half the weight have is the median. *)
LEMMA MedianOfMajority ==
    ASSUME NEW p, Weighed(p), NEW value, NEW x \in Nat,
           \A v \in Ballots(p) : \E n \in Nat : value[v] = Whole(n),
           NEW M, M = {v \in Ballots(p) : value[v] = Whole(x)},
           2 * WeightOf(p, M) > WeightOf(p, Ballots(p))
    PROVE  Middle(p, value) = Whole(x)
  <1> DEFINE B == Ballots(p)
             all == WeightOf(p, B)
             more == WeightOf(p, M)
  <1>1. B \in SUBSET B /\ M \in SUBSET B /\ B \ M \in SUBSET B
    OBVIOUS
  <1>2. /\ all \in Nat /\ more \in Nat /\ 2 * more > all /\ more <= all
        /\ WeightOf(p, B \ M) = all - more
    BY <1>1, WeightFacts
  <1>3. CASE ~p.weighted
    <2> DEFINE n == Cardinality(B)
               m == Cardinality(M)
               k == (n + 1) \div 2
               l == n \div 2
    <2>1. n = all /\ m = more
      BY <1>1, <1>3, WeightFacts
    <2> HIDE DEF n, m, all, more
    <2>2. n \in Nat /\ m \in Nat /\ 2 * m > n
      BY <1>2, <2>1
    <2>3. n # 0 /\ k \in Nat /\ l \in Nat
      <3>1. m <= n
        <4>1. IsFiniteSet(B)
          BY DEF Weighed
        <4> QED
          BY <1>1, <4>1, FS_Subset DEF n, m
      <3> QED
        BY <2>2, <3>1
    <2>4. ASSUME NEW i \in Nat, i <= m, n - m < i PROVE Nth(p, value, i) = Whole(x)
      <3>1. i <= Cardinality(M) /\ Cardinality(Ballots(p)) - Cardinality(M) < i
        BY <2>4 DEF n, m
      <3> QED
        BY <3>1, NthOfMajority
    <2>5. CASE n % 2 = 1
      <3>1. k <= m /\ n - m < k
        BY <2>2, <2>5
      <3>2. Nth(p, value, k) = Whole(x)
        BY <2>3, <2>4, <3>1
      <3>3. _median(p, value) = Nth(p, value, k)
        BY <2>3, <2>5 DEF _median, n
      <3> QED
        BY <1>3, <3>2, <3>3 DEF Middle
    <2>6. CASE n % 2 # 1
      <3>1. /\ l <= m /\ n - m < l
            /\ l + 1 \in Nat /\ l + 1 <= m /\ n - m < l + 1
        BY <2>2, <2>6
      <3>2. Nth(p, value, l) = Whole(x) /\ Nth(p, value, l + 1) = Whole(x)
        BY <2>3, <2>4, <3>1
      <3>3. _median(p, value) = Half(Nth(p, value, l), Nth(p, value, l + 1))
        BY <2>3, <2>6 DEF _median, n
      <3> QED
        BY <1>3, <3>2, <3>3, HalfOfSame DEF Middle
    <2> QED
      BY <2>5, <2>6
  <1>4. CASE p.weighted
    <2> DEFINE low(y) == {v \in B : AtMost(value[v], y)}
               reach == {y \in Values(p, value) : 2 * UpTo(p, value, y) >= all}
               at == CHOOSE y \in reach : \A z \in reach : AtMost(y, z)
    <2>1. \A y : /\ low(y) \in SUBSET B /\ UpTo(p, value, y) = WeightOf(p, low(y))
                 /\ UpTo(p, value, y) \in Nat
      <3> SUFFICES ASSUME NEW y
                   PROVE  /\ low(y) \in SUBSET B
                          /\ UpTo(p, value, y) = WeightOf(p, low(y))
                          /\ UpTo(p, value, y) \in Nat
        OBVIOUS
      <3>1. low(y) \in SUBSET B /\ UpTo(p, value, y) = WeightOf(p, low(y))
        BY DEF UpTo
      <3>2. WeightOf(p, low(y)) \in Nat
        BY <3>1, WeightFacts
      <3> QED
        BY <3>1, <3>2
    <2>2. 2 * UpTo(p, value, Whole(x)) > all
      <3>1. M \in SUBSET low(Whole(x))
        BY DEF AtMost, Whole
      <3>2. more <= WeightOf(p, low(Whole(x)))
        BY <2>1, <3>1, WeightFacts
      <3> HIDE DEF low, all, more
      <3> QED
        BY <1>2, <2>1, <3>2
    <2>3. Whole(x) \in reach
      <3>1. \E v \in M : p.weight[v] > 0
        <4>1. more > 0
          <5> HIDE DEF all, more
          <5> QED
            BY <1>2
        <4> QED
          BY <1>1, <4>1, WeightFacts
      <3>2. Whole(x) \in Values(p, value)
        BY <3>1 DEF Values
      <3>3. 2 * UpTo(p, value, Whole(x)) >= all
        <4> DEFINE u == UpTo(p, value, Whole(x))
        <4>1. u \in Nat
          BY <2>1
        <4> HIDE DEF u, all
        <4>2. 2 * u >= all
          BY <1>2, <2>2, <4>1 DEF u
        <4> QED
          BY <4>2 DEF u
      <3> QED
        BY <3>2, <3>3
    <2>4. ASSUME NEW y \in reach PROVE \E n \in Nat : y = Whole(n) /\ n >= x
      <3>1. PICK n \in Nat : y = Whole(n)
        BY DEF Values
      <3>2. ASSUME n < x PROVE FALSE
        <4>1. low(y) \in SUBSET (B \ M)
          BY <3>1, <3>2 DEF AtMost, Whole
        <4>2. UpTo(p, value, y) <= WeightOf(p, B \ M)
          <5> DEFINE U == low(y)
          <5>1. U \in SUBSET (B \ M) /\ UpTo(p, value, y) = WeightOf(p, U)
            BY <2>1, <4>1
          <5> HIDE DEF U
          <5>2. WeightOf(p, U) <= WeightOf(p, B \ M)
            BY <1>1, <5>1, WeightFacts
          <5> QED
            BY <5>1, <5>2
        <4>3. 2 * UpTo(p, value, y) >= all /\ UpTo(p, value, y) \in Nat
          BY <2>1
        <4> DEFINE u == UpTo(p, value, y)
                   rest == WeightOf(p, B \ M)
        <4> HIDE DEF u, all, more, rest
        <4>4. u <= rest /\ 2 * u >= all /\ u \in Nat
          BY <4>2, <4>3 DEF u, rest
        <4>5. rest = all - more
          BY <1>2 DEF rest
        <4> QED
          BY <1>2, <4>4, <4>5
      <3> QED
        BY <3>1, <3>2
    <2> HIDE DEF reach
    <2>5. \A z \in reach : AtMost(Whole(x), z)
      BY <2>4 DEF AtMost, Whole
    <2>6. at \in reach /\ \A z \in reach : AtMost(at, z)
      BY <2>3, <2>5
    <2> HIDE DEF at
    <2>7. at = Whole(x)
      <3>1. PICK n \in Nat : at = Whole(n) /\ n >= x
        BY <2>4, <2>6
      <3>2. AtMost(Whole(n), Whole(x))
        BY <2>3, <2>6, <3>1
      <3>3. n <= x
        BY <3>2 DEF AtMost, Whole
      <3> QED
        BY <3>1, <3>3
    <2>8. all # 0 /\ 2 * UpTo(p, value, at) # all
      <3> DEFINE u == UpTo(p, value, Whole(x))
      <3>1. u \in Nat
        BY <2>1
      <3> HIDE DEF u, all, more
      <3>2. all # 0 /\ 2 * u # all
        BY <1>2, <2>2, <3>1 DEF u
      <3> QED
        BY <2>7, <3>2 DEF u
    <2>9. _weighted_median(p, value) = at
      BY <2>8 DEF _weighted_median, at, reach
    <2> QED
      BY <1>4, <2>7, <2>9 DEF Middle
  <1> QED
    BY <1>3, <1>4 DEF Weighed

LEMMA MajorityIsMedian ==
    ASSUME NEW p, Weighed(p), NEW value, NEW x \in Nat,
           \A v \in Ballots(p) : \E n \in Nat : value[v] = Whole(n),
           NEW M \in SUBSET Ballots(p), \A v \in M : value[v] = Whole(x),
           2 * WeightOf(p, M) > WeightOf(p, Ballots(p))
    PROVE  Middle(p, value) = Whole(x)
  <1> DEFINE B == Ballots(p)
             L == {v \in B : value[v] = Whole(x)}
             all == WeightOf(p, B)
             more == WeightOf(p, M)
             most == WeightOf(p, L)
  <1>1. B \in SUBSET B /\ L \in SUBSET B /\ M \in SUBSET L
    OBVIOUS
  <1>2. more \in Nat /\ most \in Nat /\ all \in Nat /\ more <= most
    BY <1>1, WeightFacts
  <1>3. 2 * most > all
    <2>1. 2 * more > all
      OBVIOUS
    <2> HIDE DEF all, more, most
    <2> QED
      BY <1>2, <2>1
  <1> QED
    BY <1>3, MedianOfMajority

-----------------------------------------------------------------------------
(* Projects                                                                *)

(* A ranking names no item twice, and each with one of its tiers.          *)
IsRanking(p, b) ==
    /\ b \in Seq(p.options \X Nat)
    /\ \A i \in DOMAIN b : b[i][2] \in DOMAIN p.rules.tiers[b[i][1]]
    /\ \A i, j \in DOMAIN b : b[i][1] = b[j][1] => i = j

Budgeted(p) ==
    /\ Weighed(p)
    /\ IsFiniteSet(p.options)
    /\ p.rules.min_spend \in Nat /\ p.rules.max_spend \in Nat /\ p.rules.min_spend <= p.rules.max_spend
    /\ p.rules.envelope \in Nat
    /\ \A o \in p.options : /\ p.id[o] \in Int
                            /\ \A t \in DOMAIN p.rules.tiers[o] : p.rules.tiers[o][t] \in Nat
    /\ \A v \in Ballots(p) : IsRanking(p, p.ballot[v])

(* A ranking all of whose entries cost something.                          *)
Priced(p, b) == \A i \in DOMAIN b : Cost(p, b[i]) > 0

LEMMA EntryFacts ==
    ASSUME NEW p, Budgeted(p), NEW b, IsRanking(p, b)
    PROVE  /\ Len(b) \in Nat /\ DOMAIN b = 1 .. Len(b) /\ IsFiniteSet(DOMAIN b)
           /\ \A i \in DOMAIN b :
                  /\ b[i][1] \in p.options /\ b[i] = <<b[i][1], b[i][2]>>
                  /\ Cost(p, b[i]) \in Nat
  <1>1. Len(b) \in Nat /\ DOMAIN b = 1 .. Len(b)
    BY DEF IsRanking
  <1>2. IsFiniteSet(1 .. Len(b))
    BY <1>1, FS_Interval
  <1>3. \A i \in DOMAIN b : b[i] \in p.options \X Nat
    BY DEF IsRanking
  <1> QED
    BY <1>1, <1>2, <1>3 DEF Budgeted, IsRanking, Cost

(* What a ranking spends entry by entry.                                   *)
LEMMA SpendFacts ==
    ASSUME NEW p, Budgeted(p), NEW b, IsRanking(p, b)
    PROVE  /\ \A n \in 0 .. Len(b) : Spend(p, b, n) \in Nat
           /\ Spend(p, b, 0) = 0
           /\ \A n \in 1 .. Len(b) : Spend(p, b, n) = Spend(p, b, n - 1) + Cost(p, b[n])
  <1> DEFINE cost == [i \in DOMAIN b |-> Cost(p, b[i])]
  <1>1. /\ Len(b) \in Nat /\ DOMAIN b = 1 .. Len(b) /\ IsFiniteSet(DOMAIN b)
        /\ \A i \in DOMAIN b : cost[i] = Cost(p, b[i]) /\ cost[i] \in Nat /\ cost[i] \in Int
    BY EntryFacts
  <1>2. \A n \in 0 .. Len(b) : 1 .. n \in SUBSET DOMAIN b
    BY <1>1
  <1>3. \A n : Spend(p, b, n) = SumFunctionOnSet(cost, 1 .. n)
    BY DEF Spend
  <1> HIDE DEF cost
  <1>4. \A n \in 0 .. Len(b) : Spend(p, b, n) \in Nat
    BY <1>1, <1>2, <1>3, SumIsNatural
  <1>5. Spend(p, b, 0) = 0
    <2>1. 1 .. 0 = {}
      OBVIOUS
    <2> QED
      BY <1>3, <2>1, SumOfNothing
  <1>6. ASSUME NEW n \in 1 .. Len(b)
        PROVE  Spend(p, b, n) = Spend(p, b, n - 1) + Cost(p, b[n])
    <2>1. /\ n \in 0 .. Len(b) /\ n - 1 \in 0 .. Len(b) /\ n \in DOMAIN b
          /\ n \in 1 .. n /\ (1 .. n) \ {n} = 1 .. (n - 1)
      BY <1>1
    <2>2. SumFunctionOnSet(cost, 1 .. n) = cost[n] + SumFunctionOnSet(cost, (1 .. n) \ {n})
      BY <1>1, <1>2, <2>1, SumSplits
    <2>3. Spend(p, b, n) = cost[n] + Spend(p, b, n - 1)
      BY <1>3, <2>1, <2>2
    <2>4. Spend(p, b, n - 1) \in Nat /\ cost[n] = Cost(p, b[n]) /\ cost[n] \in Nat
      BY <1>1, <1>4, <2>1
    <2> QED
      BY <2>3, <2>4
  <1> QED
    BY <1>4, <1>5, <1>6

LEMMA SpendGrows ==
    ASSUME NEW p, Budgeted(p), NEW b, IsRanking(p, b), Priced(p, b)
    PROVE  \A n \in 0 .. Len(b) : \A m \in 0 .. Len(b) :
               m < n => Spend(p, b, m) < Spend(p, b, n)
  <1> DEFINE T == {n \in Nat : n <= Len(b) => \A m \in 0 .. Len(b) :
                     m < n => Spend(p, b, m) < Spend(p, b, n)}
  <1>1. Len(b) \in Nat /\ DOMAIN b = 1 .. Len(b)
    BY EntryFacts
  <1>2. 0 \in T
    BY <1>1
  <1>3. ASSUME NEW n \in Nat, n \in T PROVE n + 1 \in T
    <2> SUFFICES ASSUME n + 1 <= Len(b), NEW m \in 0 .. Len(b), m < n + 1
                 PROVE  Spend(p, b, m) < Spend(p, b, n + 1)
      OBVIOUS
    <2>1. /\ n \in 0 .. Len(b) /\ n + 1 \in 1 .. Len(b) /\ (n + 1) - 1 = n
          /\ n + 1 \in DOMAIN b
      BY <1>1
    <2>2. Spend(p, b, n + 1) = Spend(p, b, n) + Cost(p, b[n + 1])
      BY <2>1, SpendFacts
    <2>3. Cost(p, b[n + 1]) \in Nat /\ Cost(p, b[n + 1]) > 0
      BY <2>1, EntryFacts DEF Priced
    <2>4. Spend(p, b, n) \in Nat /\ Spend(p, b, m) \in Nat
      BY <2>1, SpendFacts
    <2>5. Spend(p, b, m) <= Spend(p, b, n)
      <3>1. CASE m = n
        BY <2>4, <3>1
      <3>2. CASE m # n
        <4>1. m < n /\ n <= Len(b)
          BY <3>2
        <4>2. Spend(p, b, m) < Spend(p, b, n)
          BY <1>3, <4>1
        <4> QED
          BY <2>4, <4>2
      <3> QED
        BY <3>1, <3>2
    <2> QED
      BY <2>2, <2>3, <2>4, <2>5
  <1> HIDE DEF T
  <1>4. \A n \in Nat : n \in T
    BY <1>2, <1>3, NaturalInduction
  <1> QED
    BY <1>1, <1>4 DEF T

(* The items of the first n entries are n items.                           *)
Items(b, n) == {b[j][1] : j \in 1 .. n}

LEMMA ItemsCounted ==
    ASSUME NEW p, Budgeted(p), NEW b, IsRanking(p, b)
    PROVE  \A n \in 0 .. Len(b) : /\ IsFiniteSet(Items(b, n)) /\ Items(b, n) \subseteq p.options
                                  /\ Cardinality(Items(b, n)) = n
  <1> DEFINE T == {n \in Nat : n <= Len(b) =>
                     /\ IsFiniteSet(Items(b, n)) /\ Items(b, n) \subseteq p.options
                     /\ Cardinality(Items(b, n)) = n}
  <1>1. Len(b) \in Nat /\ DOMAIN b = 1 .. Len(b)
    BY EntryFacts
  <1>2. 0 \in T
    <2>1. Items(b, 0) = {}
      BY DEF Items
    <2> QED
      BY <2>1, FS_EmptySet
  <1>3. ASSUME NEW n \in Nat, n \in T PROVE n + 1 \in T
    <2> SUFFICES ASSUME n + 1 <= Len(b)
                 PROVE  /\ IsFiniteSet(Items(b, n + 1)) /\ Items(b, n + 1) \subseteq p.options
                        /\ Cardinality(Items(b, n + 1)) = n + 1
      OBVIOUS
    <2>1. n + 1 \in DOMAIN b /\ \A j \in 1 .. n : j \in DOMAIN b /\ j # n + 1
      BY <1>1
    <2>2. Items(b, n + 1) = Items(b, n) \union {b[n + 1][1]}
      BY DEF Items
    <2>3. b[n + 1][1] \notin Items(b, n)
      BY <2>1 DEF Items, IsRanking
    <2>4. /\ IsFiniteSet(Items(b, n)) /\ Items(b, n) \subseteq p.options
          /\ Cardinality(Items(b, n)) = n
      <3>1. n <= Len(b)
        BY <1>1
      <3> QED
        BY <1>3, <3>1
    <2>5. b[n + 1][1] \in p.options
      BY <2>1, EntryFacts
    <2>6. /\ IsFiniteSet(Items(b, n) \union {b[n + 1][1]})
          /\ Cardinality(Items(b, n) \union {b[n + 1][1]}) = Cardinality(Items(b, n)) + 1
      BY <2>3, <2>4, FS_AddElement
    <2>7. Items(b, n + 1) \subseteq p.options
      BY <2>2, <2>4, <2>5
    <2> QED
      BY <2>2, <2>4, <2>6, <2>7
  <1> HIDE DEF T
  <1>4. \A n \in Nat : n \in T
    BY <1>2, <1>3, NaturalInduction
  <1> QED
    BY <1>1, <1>4 DEF T

LEMMA RankingIsShort ==
    ASSUME NEW p, Budgeted(p), NEW b, IsRanking(p, b)
    PROVE  Len(b) <= Cardinality(p.options) /\ Cardinality(p.options) \in Nat
  <1>1. Len(b) \in Nat /\ Len(b) \in 0 .. Len(b)
    BY EntryFacts
  <1>2. IsFiniteSet(p.options)
    BY DEF Budgeted
  <1>3. /\ Items(b, Len(b)) \in SUBSET p.options
        /\ Cardinality(Items(b, Len(b))) = Len(b)
    BY <1>1, ItemsCounted
  <1> QED
    BY <1>2, <1>3, FS_Subset, FS_CardinalityType

(* Where a ranking puts an item: after what it spends before it, or after  *)
(* all that may be spent.                                                  *)
Place(p, b, o) ==
    IF \E i \in DOMAIN b : b[i][1] = o
    THEN Spend(p, b, (CHOOSE i \in DOMAIN b : b[i][1] = o) - 1)
    ELSE p.rules.max_spend

LEMMA PlaceFacts ==
    ASSUME NEW p, Budgeted(p), NEW b, IsRanking(p, b)
    PROVE  /\ \A o : Place(p, b, o) \in Nat
           /\ \A i \in DOMAIN b : Place(p, b, b[i][1]) = Spend(p, b, i - 1)
           /\ \A o \in p.options \ Items(b, Len(b)) : Place(p, b, o) = p.rules.max_spend
  <1>1. Len(b) \in Nat /\ DOMAIN b = 1 .. Len(b)
    BY EntryFacts
  <1>2. \A i \in DOMAIN b : i - 1 \in 0 .. Len(b)
    BY <1>1
  <1>3. ASSUME NEW i \in DOMAIN b
        PROVE  Place(p, b, b[i][1]) = Spend(p, b, i - 1)
    <2>1. (CHOOSE j \in DOMAIN b : b[j][1] = b[i][1]) = i
      BY DEF IsRanking
    <2> QED
      BY <2>1 DEF Place
  <1>4. \A o : Place(p, b, o) \in Nat
    <2> SUFFICES ASSUME NEW o PROVE Place(p, b, o) \in Nat
      OBVIOUS
    <2>1. CASE \E i \in DOMAIN b : b[i][1] = o
      <3>1. PICK i \in DOMAIN b : b[i][1] = o
        BY <2>1
      <3>2. Place(p, b, o) = Spend(p, b, i - 1)
        BY <1>3, <3>1
      <3> QED
        BY <1>2, <3>2, SpendFacts
    <2>2. CASE ~ \E i \in DOMAIN b : b[i][1] = o
      BY <2>2 DEF Place, Budgeted
    <2> QED
      BY <2>1, <2>2
  <1>5. \A o \in p.options \ Items(b, Len(b)) : Place(p, b, o) = p.rules.max_spend
    BY <1>1 DEF Place, Items
  <1> QED
    BY <1>3, <1>4, <1>5

(* The voters who hand in the ranking b, and that they outweigh the others.*)
Backers(p, b) == {v \in Ballots(p) : p.ballot[v] = b}
Prevails(p, b) == 2 * WeightOf(p, Backers(p, b)) > WeightOf(p, Ballots(p))

LEMMA PlacesOfMajority ==
    ASSUME NEW p, Budgeted(p), NEW b, IsRanking(p, b), Prevails(p, b)
    PROVE  MedianPosition(p) = [o \in p.options |-> Whole(Place(p, b, o))]
  <1>1. Weighed(p) /\ Backers(p, b) \in SUBSET Ballots(p)
    BY DEF Budgeted, Backers
  <1>2. Ballots(p) # {}
    <2> SUFFICES ASSUME Ballots(p) = {} PROVE FALSE
      OBVIOUS
    <2>1. Backers(p, b) = Ballots(p)
      BY DEF Backers
    <2> DEFINE w == WeightOf(p, Ballots(p))
    <2>2. w \in Nat /\ (w > 0 => Ballots(p) # {})
      BY <1>1, WeightFacts
    <2>3. 2 * w > w
      BY <2>1 DEF Prevails
    <2> HIDE DEF w
    <2> QED
      BY <2>2, <2>3
  <1>3. ASSUME NEW o \in p.options
        PROVE  Middle(p, [v \in Ballots(p) |-> Whole(Position(p, v, o))]) = Whole(Place(p, b, o))
    <2> DEFINE value == [v \in Ballots(p) |-> Whole(Position(p, v, o))]
    <2>1. \A v \in Ballots(p) : Position(p, v, o) = Place(p, p.ballot[v], o)
      BY DEF Position, Ranks, Place
    <2>2. \A v \in Ballots(p) : Position(p, v, o) \in Nat
      BY <2>1, PlaceFacts DEF Budgeted
    <2>3. \A v \in Ballots(p) : \E n \in Nat : value[v] = Whole(n)
      BY <2>2
    <2>4. \A v \in Backers(p, b) : value[v] = Whole(Place(p, b, o))
      BY <2>1 DEF Backers
    <2>5. Place(p, b, o) \in Nat
      BY PlaceFacts
    <2> HIDE DEF value
    <2>6. Middle(p, value) = Whole(Place(p, b, o))
      BY <1>1, <2>3, <2>4, <2>5, MajorityIsMedian DEF Prevails
    <2> QED
      BY <2>6 DEF value
  <1> QED
    BY <1>2, <1>3 DEF MedianPosition

(* The group wants to spend what the majority does, within the band.       *)
LEMMA StopOfMajority ==
    ASSUME NEW p, Budgeted(p), NEW b, IsRanking(p, b), Prevails(p, b)
    PROVE  \E s \in Nat : /\ StopPoint(p) = Whole(s) /\ s <= p.rules.max_spend
                          /\ Spend(p, b, Len(b)) <= s \/ s = p.rules.max_spend
  <1> DEFINE value == [v \in Ballots(p) |-> Whole(Spend(p, p.ballot[v], Len(p.ballot[v])))]
             x == Spend(p, b, Len(b))
             s == IF x <= p.rules.min_spend THEN p.rules.min_spend
                  ELSE IF p.rules.max_spend <= x THEN p.rules.max_spend ELSE x
  <1>1. ASSUME NEW c, IsRanking(p, c) PROVE Spend(p, c, Len(c)) \in Nat
    <2>1. Len(c) \in 0 .. Len(c)
      BY <1>1, EntryFacts
    <2> QED
      BY <1>1, <2>1, SpendFacts
  <1>2. x \in Nat /\ \A v \in Ballots(p) : \E n \in Nat : value[v] = Whole(n)
    BY <1>1 DEF Budgeted
  <1>3. \A v \in Backers(p, b) : value[v] = Whole(x)
    BY DEF Backers
  <1>4. Middle(p, value) = Whole(x)
    <2>1. Weighed(p) /\ Backers(p, b) \in SUBSET Ballots(p)
      BY DEF Budgeted, Backers
    <2> HIDE DEF value, x
    <2> QED
      BY <1>2, <1>3, <2>1, MajorityIsMedian DEF Prevails
  <1>5. StopPoint(p) = Greatest(Whole(p.rules.min_spend), Least(Whole(p.rules.max_spend), Whole(x)))
    BY <1>4 DEF StopPoint
  <1> HIDE DEF x
  <1>6. s \in Nat /\ s <= p.rules.max_spend /\ (x <= s \/ s = p.rules.max_spend)
    BY <1>2 DEF Budgeted
  <1>7. StopPoint(p) = Whole(s)
    BY <1>2, <1>5 DEF Greatest, Least, AtMost, Whole, Budgeted
  <1> QED
    BY <1>6, <1>7 DEF x

(* The tier that a majority chooses is the most chosen one.                *)
LEMMA TierOfMajority ==
    ASSUME NEW p, Budgeted(p), NEW b, IsRanking(p, b), Prevails(p, b),
           NEW i \in DOMAIN b, NEW T, b[i][2] \in T
    PROVE  Preferred(p, b[i][1], T) = b[i][2]
  <1> DEFINE o == b[i][1]
             t == b[i][2]
             B == Ballots(p)
             M == Backers(p, b)
             For(u) == {v \in B : \E j \in DOMAIN p.ballot[v] : p.ballot[v][j] = <<o, u>>}
  <1>1. /\ Weighed(p) /\ M \in SUBSET B /\ B \in SUBSET B /\ B \ M \in SUBSET B
        /\ \A u : For(u) \in SUBSET B
    BY DEF Budgeted, Backers
  <1>2. b[i] = <<o, t>>
    BY EntryFacts
  <1>3. M \in SUBSET For(t)
    BY <1>2 DEF Backers
  <1>4. ASSUME NEW u, u # t PROVE For(u) \in SUBSET (B \ M)
    <2> SUFFICES ASSUME NEW v \in For(u), v \in M PROVE FALSE
      OBVIOUS
    <2>1. PICK j \in DOMAIN b : b[j] = <<o, u>>
      BY DEF Backers
    <2>2. j = i
      BY <2>1 DEF IsRanking
    <2> QED
      BY <1>2, <1>4, <2>1, <2>2
  <1>5. WeightOf(p, M) <= Choosers(p, o, t) /\ Choosers(p, o, t) \in Nat
    <2> DEFINE V == For(t)
    <2>1. V \in SUBSET B /\ M \in SUBSET V /\ Choosers(p, o, t) = WeightOf(p, V)
      BY <1>1, <1>3 DEF Choosers
    <2> HIDE DEF V, For, M, B
    <2>2. WeightOf(p, M) <= WeightOf(p, V) /\ WeightOf(p, V) \in Nat
      BY <1>1, <2>1, WeightFacts DEF B
    <2> QED
      BY <2>1, <2>2
  <1>6. ASSUME NEW u, u # t
        PROVE  Choosers(p, o, u) < Choosers(p, o, t)
    <2> DEFINE V == For(u)
               all == WeightOf(p, B)
               more == WeightOf(p, M)
               rest == WeightOf(p, B \ M)
               ours == WeightOf(p, V)
    <2>1. V \in SUBSET (B \ M) /\ V \in SUBSET B /\ Choosers(p, o, u) = ours
      BY <1>1, <1>4, <1>6 DEF Choosers
    <2> HIDE DEF V
    <2>2. ours <= rest /\ rest = all - more /\ ours \in Nat /\ all \in Nat /\ more \in Nat
      BY <1>1, <2>1, WeightFacts
    <2>3. 2 * more > all /\ more <= Choosers(p, o, t)
      BY <1>5 DEF Prevails
    <2> HIDE DEF all, more, rest, ours
    <2> QED
      BY <1>5, <2>1, <2>2, <2>3
  <1> HIDE DEF o, t
  <1>7. t \in T /\ \A u \in T \ {t} : Choosers(p, o, t) > Choosers(p, o, u)
    <2>1. t \in T
      BY DEF t
    <2>2. \A u \in T \ {t} : Choosers(p, o, u) \in Nat /\ Choosers(p, o, u) < Choosers(p, o, t)
      <3> SUFFICES ASSUME NEW u \in T \ {t}
                   PROVE  Choosers(p, o, u) \in Nat /\ Choosers(p, o, u) < Choosers(p, o, t)
        OBVIOUS
      <3>1. For(u) \in SUBSET B /\ Choosers(p, o, u) = WeightOf(p, For(u))
        BY DEF Choosers
      <3>2. WeightOf(p, For(u)) \in Nat
        BY <1>1, <3>1, WeightFacts
      <3> QED
        BY <1>6, <3>1, <3>2
    <2> QED
      BY <1>5, <2>1, <2>2
  <1>8. ASSUME NEW w \in T,
               \A u \in T \ {w} : \/ Choosers(p, o, w) > Choosers(p, o, u)
                                  \/ /\ Choosers(p, o, w) = Choosers(p, o, u)
                                     /\ \/ p.rules.tiers[o][w] < p.rules.tiers[o][u]
                                        \/ p.rules.tiers[o][w] = p.rules.tiers[o][u] /\ w < u
        PROVE  w = t
    <2> SUFFICES ASSUME w # t PROVE FALSE
      OBVIOUS
    <2>1. Choosers(p, o, w) > Choosers(p, o, t) \/ Choosers(p, o, w) = Choosers(p, o, t)
      BY <1>7, <1>8
    <2>2. Choosers(p, o, t) > Choosers(p, o, w) /\ Choosers(p, o, t) \in Nat
      BY <1>5, <1>7
    <2>3. Choosers(p, o, w) \in Nat
      <3>1. For(w) \in SUBSET B /\ Choosers(p, o, w) = WeightOf(p, For(w))
        BY DEF Choosers
      <3>2. WeightOf(p, For(w)) \in Nat
        BY <1>1, <3>1, WeightFacts
      <3> QED
        BY <3>1, <3>2
    <2> QED
      BY <2>1, <2>2, <2>3
  <1>9. Preferred(p, o, T) = t
    BY <1>7, <1>8 DEF Preferred
  <1> QED
    BY <1>9 DEF o, t

(* The items the majority comes to within the limit are the first in line, *)
(* in its order.                                                           *)
LEMMA OrderOfMajority ==
    ASSUME NEW p, Budgeted(p), NEW b, IsRanking(p, b), Priced(p, b), Prevails(p, b),
           NEW i \in DOMAIN b, Spend(p, b, i - 1) < p.rules.max_spend
    PROVE  PriorityOrder(p)[i] = b[i][1]
  <1> DEFINE at == [o \in p.options |-> Whole(Place(p, b, o))]
             breadth == [o \in p.options |-> Breadth(p, o)]
             Before(q, o) ==
                 \/ Below(at[q], at[o])
                 \/ at[q] = at[o] /\ breadth[q] > breadth[o]
                 \/ at[q] = at[o] /\ breadth[q] = breadth[o] /\ p.id[q] < p.id[o]
             Ahead(o) == {q \in p.options : Before(q, o)}
  <1>1. Len(b) \in Nat /\ DOMAIN b = 1 .. Len(b) /\ i \in 1 .. Len(b)
    BY EntryFacts
  <1>2. \A o \in p.options : Place(p, b, o) \in Nat /\ breadth[o] \in Nat /\ p.id[o] \in Int
    <2>1. Weighed(p) /\ \A o : {v \in Ballots(p) : Ranks(p, v, o)} \in SUBSET Ballots(p)
      BY DEF Budgeted
    <2>2. \A o \in p.options : Breadth(p, o) \in Nat
      BY <2>1, WeightFacts DEF Breadth
    <2> QED
      BY <2>2, PlaceFacts DEF Budgeted
  <1>3. \A q, o \in p.options : /\ Place(p, b, q) < Place(p, b, o) => Before(q, o)
                                /\ Before(q, o) => Place(p, b, q) <= Place(p, b, o)
                                /\ ~Before(o, o)
    <2> SUFFICES ASSUME NEW q \in p.options, NEW o \in p.options
                 PROVE  /\ Place(p, b, q) < Place(p, b, o) => Before(q, o)
                        /\ Before(q, o) => Place(p, b, q) <= Place(p, b, o)
                        /\ ~Before(o, o)
      OBVIOUS
    <2>1. at[q] = Whole(Place(p, b, q)) /\ at[o] = Whole(Place(p, b, o))
      OBVIOUS
    <2>2. Place(p, b, q) \in Nat /\ Place(p, b, o) \in Nat /\ breadth[o] \in Nat /\ p.id[o] \in Int
      BY <1>2
    <2> HIDE DEF at, breadth
    <2>3. /\ Below(at[q], at[o]) <=> Place(p, b, q) < Place(p, b, o)
          /\ at[q] = at[o] => Place(p, b, q) = Place(p, b, o)
          /\ ~Below(at[o], at[o])
      BY <2>1, <2>2 DEF Below, Whole
    <2> QED
      BY <2>2, <2>3
  <1>4. PriorityOrder(p)[i] = CHOOSE o \in p.options : Cardinality(Ahead(o)) = i - 1
    <2>1. i \in 1 .. Cardinality(p.options)
      BY <1>1, RankingIsShort
    <2>2. PriorityOrder(p) = Ordered(p, at)
      BY PlacesOfMajority DEF PriorityOrder
    <2> HIDE DEF at
    <2>3. Ordered(p, at)[i] = CHOOSE o \in p.options : Cardinality(Ahead(o)) = i - 1
      BY <2>1 DEF Ordered
    <2> QED
      BY <2>2, <2>3
  <1> HIDE DEF Before
  <1>5. \A m \in 0 .. Len(b), n \in 0 .. Len(b) :
            /\ m < n => Spend(p, b, m) < Spend(p, b, n)
            /\ Spend(p, b, m) \in Nat
    BY SpendGrows, SpendFacts
  <1>6. \A j \in 1 .. Len(b) : /\ b[j][1] \in p.options /\ j - 1 \in 0 .. Len(b)
                               /\ Place(p, b, b[j][1]) = Spend(p, b, j - 1)
    BY <1>1, EntryFacts, PlaceFacts
  <1>7. ASSUME NEW j \in 1 .. Len(b), Spend(p, b, j - 1) < p.rules.max_spend
        PROVE  Cardinality(Ahead(b[j][1])) = j - 1
    <2>1. ASSUME NEW q \in Ahead(b[j][1]) PROVE q \in Items(b, j - 1)
      <3>1. Place(p, b, q) <= Spend(p, b, j - 1) /\ q \in p.options
        BY <1>3, <1>6, <2>1
      <3>2. Place(p, b, q) # p.rules.max_spend
        <4>1. /\ Place(p, b, q) \in Nat /\ Spend(p, b, j - 1) \in Nat
              /\ p.rules.max_spend \in Nat
          BY <1>2, <1>5, <1>6, <3>1 DEF Budgeted
        <4> QED
          BY <1>7, <3>1, <4>1
      <3>3. PICK k \in 1 .. Len(b) : q = b[k][1]
        BY <3>1, <3>2, PlaceFacts DEF Items
      <3>4. Spend(p, b, k - 1) <= Spend(p, b, j - 1)
        BY <1>6, <3>1, <3>3
      <3>5. ~(j < k)
        <4> SUFFICES ASSUME j - 1 < k - 1 PROVE FALSE
          OBVIOUS
        <4>1. /\ Spend(p, b, j - 1) < Spend(p, b, k - 1)
              /\ Spend(p, b, j - 1) \in Nat /\ Spend(p, b, k - 1) \in Nat
          BY <1>5, <1>6
        <4> QED
          BY <3>4, <4>1
      <3>6. k # j
        BY <1>3, <1>6, <2>1, <3>3
      <3> QED
        BY <3>3, <3>5, <3>6 DEF Items
    <2>2. ASSUME NEW k \in 1 .. (j - 1) PROVE b[k][1] \in Ahead(b[j][1])
      <3>1. k \in 1 .. Len(b) /\ k - 1 < j - 1
        BY <1>1
      <3>2. Spend(p, b, k - 1) < Spend(p, b, j - 1)
        BY <1>5, <1>6, <3>1
      <3> QED
        BY <1>3, <1>6, <3>1, <3>2
    <2>3. Ahead(b[j][1]) = Items(b, j - 1)
      BY <2>1, <2>2 DEF Items
    <2> QED
      BY <1>6, <2>3, ItemsCounted
  <1>8. ASSUME NEW o \in p.options, Cardinality(Ahead(o)) = i - 1
        PROVE  o = b[i][1]
    <2>1. CASE Place(p, b, o) < p.rules.max_spend
      <3>1. PICK j \in 1 .. Len(b) : o = b[j][1]
        <4>1. Place(p, b, o) \in Nat /\ p.rules.max_spend \in Nat
          BY <1>2 DEF Budgeted
        <4>2. Place(p, b, o) # p.rules.max_spend
          BY <2>1, <4>1
        <4>3. o \in Items(b, Len(b))
          BY <4>2, PlaceFacts
        <4> QED
          BY <4>3 DEF Items
      <3>2. Cardinality(Ahead(o)) = j - 1
        BY <1>6, <1>7, <2>1, <3>1
      <3> QED
        BY <1>1, <1>8, <3>1, <3>2
    <2>2. CASE ~(Place(p, b, o) < p.rules.max_spend)
      <3>1. ASSUME NEW k \in 1 .. i PROVE b[k][1] \in Ahead(o)
        <4>1. k \in 1 .. Len(b) /\ (k - 1 < i - 1 \/ k = i)
          BY <1>1
        <4>2. Spend(p, b, k - 1) <= Spend(p, b, i - 1)
          BY <1>1, <1>5, <1>6, <4>1
        <4>3. Place(p, b, b[k][1]) < Place(p, b, o)
          <5>1. /\ Place(p, b, b[k][1]) = Spend(p, b, k - 1) /\ Spend(p, b, k - 1) \in Nat
                /\ Spend(p, b, i - 1) \in Nat /\ Place(p, b, o) \in Nat
            BY <1>1, <1>2, <1>5, <1>6, <4>1
          <5>2. Spend(p, b, i - 1) < p.rules.max_spend /\ p.rules.max_spend \in Nat
            BY DEF Budgeted
          <5> QED
            BY <2>2, <4>2, <5>1, <5>2
        <4> QED
          BY <1>3, <1>6, <4>1, <4>3
      <3>2. Items(b, i) \in SUBSET Ahead(o)
        BY <3>1 DEF Items
      <3>3. IsFiniteSet(Ahead(o)) /\ i \in 0 .. Len(b)
        BY <1>1, FS_Subset DEF Budgeted
      <3>4. Cardinality(Items(b, i)) = i
        BY <3>3, ItemsCounted
      <3>5. i <= Cardinality(Ahead(o))
        BY <3>2, <3>3, <3>4, FS_Subset
      <3> QED
        BY <1>1, <1>8, <3>5
    <2> QED
      BY <2>1, <2>2
  <1>9. b[i][1] \in p.options /\ Cardinality(Ahead(b[i][1])) = i - 1
    BY <1>1, <1>6, <1>7
  <1> HIDE DEF Ahead
  <1> QED
    BY <1>4, <1>8, <1>9

FundStep(p, stop, after, n) ==
    IF n = 0 THEN [funded |-> <<>>, spent |-> 0, halt |-> "queue_exhausted"]
    ELSE Fund(p, stop, after[n - 1], PriorityOrder(p)[n])

LEMMA FundingRuns ==
    ASSUME NEW p, NEW stop, NEW n \in Nat
    PROVE  \E after : after = [k \in 0 .. n |-> FundStep(p, stop, after, k)]
  <1> DEFINE N == {m \in Nat : \E f : f = [k \in 0 .. m |-> FundStep(p, stop, f, k)]}
  <1>1. 0 \in N
    <2> DEFINE f == [k \in 0 .. 0 |->
                       [funded |-> <<>>, spent |-> 0, halt |-> "queue_exhausted"]]
    <2>1. f = [k \in 0 .. 0 |-> FundStep(p, stop, f, k)]
      BY DEF FundStep
    <2> QED
      BY <2>1
  <1>2. ASSUME NEW m \in Nat, m \in N PROVE m + 1 \in N
    <2>1. PICK f : f = [k \in 0 .. m |-> FundStep(p, stop, f, k)]
      BY <1>2
    <2> DEFINE g == [k \in 0 .. (m + 1) |-> FundStep(p, stop, f, k)]
    <2>2. ASSUME NEW k \in 0 .. (m + 1) PROVE FundStep(p, stop, f, k) = FundStep(p, stop, g, k)
      <3>1. CASE k = 0
        BY <3>1 DEF FundStep
      <3>2. CASE k # 0
        <4>1. k - 1 \in 0 .. m /\ k - 1 \in 0 .. (m + 1)
          BY <3>2
        <4>2. f[k - 1] = g[k - 1]
          BY <2>1, <4>1
        <4> HIDE DEF g
        <4> QED
          BY <3>2, <4>2 DEF FundStep
      <3> QED
        BY <3>1, <3>2
    <2>3. g = [k \in 0 .. (m + 1) |-> FundStep(p, stop, g, k)]
      BY <2>2
    <2> HIDE DEF g
    <2> QED
      BY <2>3
  <1> HIDE DEF N
  <1>3. n \in N
    BY <1>1, <1>2, NaturalInduction
  <1> QED
    BY <1>3 DEF N

(* The funded entries f are those of the ranking b, as far as both go, and *)
(* end before b does only where its next entry does not fit.               *)
Honours(p, f, b) ==
    \/ \E n \in 0 .. Len(b) :
           /\ f = SubSeq(b, 1, n)
           /\ n < Len(b) => Spend(p, b, n) + Cost(p, b[n + 1]) > Limit(p)
    \/ /\ \E S : f \in Seq(S)
       /\ Len(b) <= Len(f)
       /\ \A i \in 1 .. Len(b) : f[i] = b[i]

LEMMA PrefixGrows ==
    ASSUME NEW S, NEW b \in Seq(S), NEW n \in Nat, n < Len(b)
    PROVE  /\ Append(SubSeq(b, 1, n), b[n + 1]) = SubSeq(b, 1, n + 1)
           /\ n + 1 = Len(b) => SubSeq(b, 1, n + 1) = b
           /\ SubSeq(b, 1, 0) = <<>>
  OBVIOUS

LEMMA MajorityFunded ==
    ASSUME NEW p, Budgeted(p), NEW b, IsRanking(p, b), Priced(p, b), Prevails(p, b),
           \A o \in p.options : ~p.rules.fallback[o]
    PROVE  Honours(p, tally_project(p).funded, b)
  <1>0. PICK most \in Nat : /\ StopPoint(p) = Whole(most) /\ most <= p.rules.max_spend
                            /\ Spend(p, b, Len(b)) <= most \/ most = p.rules.max_spend
    BY StopOfMajority
  <1> DEFINE stop == StopPoint(p)
             last == Cardinality(p.options)
             after == CHOOSE f : f = [k \in 0 .. last |-> FundStep(p, stop, f, k)]
             order == PriorityOrder(p)
             going == "queue_exhausted"
  <1>1. tally_project(p) = after[last]
    BY DEF tally_project, Walk, FundStep
  <1>2. last \in Nat /\ Len(b) \in Nat /\ Len(b) <= last /\ DOMAIN b = 1 .. Len(b)
    BY RankingIsShort, EntryFacts
  <1>3. after = [k \in 0 .. last |-> FundStep(p, stop, after, k)]
    BY <1>2, FundingRuns
  <1>4. /\ stop = Whole(most) /\ most <= p.rules.max_spend
        /\ Spend(p, b, Len(b)) <= most \/ most = p.rules.max_spend
    BY <1>0
  <1> HIDE DEF after, stop, order
  <1> DEFINE Along(s, n) == /\ s = [funded |-> SubSeq(b, 1, n), spent |-> Spend(p, b, n),
                                    halt |-> going]
                            /\ n < Len(b)
             Over_(s) == s.halt # going /\ Honours(p, s.funded, b)
             Beyond(s) == /\ s = [funded |-> s.funded, spent |-> s.spent, halt |-> s.halt]
                          /\ \E S : s.funded \in Seq(S)
                          /\ Len(b) <= Len(s.funded)
                          /\ \A i \in 1 .. Len(b) : s.funded[i] = b[i]
             Good(n) == Along(after[n], n) \/ Over_(after[n]) \/ Beyond(after[n])
             T == {n \in Nat : n <= last => Good(n)}
  <1>5. Good(0)
    <2>1. after[0] = [funded |-> <<>>, spent |-> 0, halt |-> going]
      BY <1>2, <1>3 DEF FundStep
    <2>2. CASE Len(b) = 0
      <3>1. <<>> \in Seq({}) /\ Len(<<>>) = 0
        OBVIOUS
      <3>2. Beyond(after[0])
        BY <2>1, <2>2, <3>1
      <3> QED
        BY <3>2
    <2>3. CASE Len(b) # 0
      <3>1. SubSeq(b, 1, 0) = <<>> /\ Spend(p, b, 0) = 0
        <4>1. 0 \in Nat /\ 0 < Len(b) /\ b \in Seq(p.options \X Nat)
          BY <1>2, <2>3 DEF IsRanking
        <4> QED
          BY <4>1, PrefixGrows, SpendFacts
      <3>2. Along(after[0], 0)
        BY <1>2, <2>1, <2>3, <3>1
      <3> QED
        BY <3>2
    <2> QED
      BY <2>2, <2>3
  <1>6. ASSUME NEW n \in Nat, n + 1 <= last, Good(n) PROVE Good(n + 1)
    <2> DEFINE t == after[n]
               r == after[n + 1]
               o == order[n + 1]
    <2>1. r = Fund(p, stop, t, o)
      <3>1. n + 1 \in 0 .. last /\ n + 1 # 0 /\ (n + 1) - 1 = n
        BY <1>2, <1>6
      <3>2. r = FundStep(p, stop, after, n + 1)
        BY <1>3, <3>1
      <3> QED
        BY <3>1, <3>2 DEF FundStep, order
    <2> HIDE DEF t, r, o
    <2>2. CASE Along(t, n)
      <3> DEFINE e == b[n + 1]
      <3>1. /\ t.funded = SubSeq(b, 1, n) /\ t.spent = Spend(p, b, n) /\ t.halt = going
            /\ n < Len(b) /\ n \in 0 .. Len(b) /\ n + 1 \in DOMAIN b /\ n + 1 \in 1 .. Len(b)
            /\ (n + 1) - 1 = n
        BY <1>2, <2>2
      <3>2. /\ Spend(p, b, n) \in Nat /\ Spend(p, b, n) < Spend(p, b, Len(b))
            /\ Spend(p, b, Len(b)) \in Nat
        BY <1>2, <3>1, SpendFacts, SpendGrows
      <3>3. /\ e = <<e[1], e[2]>> /\ e[1] \in p.options /\ e[2] \in DOMAIN p.rules.tiers[e[1]]
            /\ Cost(p, e) \in Nat /\ Cost(p, e) > 0 /\ Cost(p, e) = p.rules.tiers[e[1]][e[2]]
        <4>1. /\ e = <<e[1], e[2]>> /\ e[1] \in p.options /\ Cost(p, e) \in Nat
          BY <3>1, EntryFacts
        <4>2. e[2] \in DOMAIN p.rules.tiers[e[1]] /\ Cost(p, e) > 0
          BY <3>1 DEF IsRanking, Priced
        <4> QED
          BY <4>1, <4>2 DEF Cost
      <3>4. p.rules.max_spend \in Nat /\ Limit(p) \in Nat /\ Limit(p) <= p.rules.max_spend
        BY DEF Budgeted, Limit
      <3>5. CASE AtMost(stop, Whole(t.spent))
        <4>1. most <= Spend(p, b, n)
          BY <1>4, <3>1, <3>2, <3>5 DEF AtMost, Whole
        <4>2. Spend(p, b, n) + Cost(p, e) > Limit(p)
          <5> HIDE DEF e
          <5> QED
            BY <1>4, <3>2, <3>3, <3>4, <4>1
        <4>3. r = [t EXCEPT !.halt = "stop_point"]
          BY <2>1, <3>1, <3>5 DEF Fund
        <4>4. r.funded = SubSeq(b, 1, n) /\ r.halt # going
          BY <2>2, <4>3
        <4>5. Over_(r)
          BY <3>1, <4>2, <4>4 DEF Honours
        <4> QED
          BY <4>5 DEF r
      <3>6. CASE ~AtMost(stop, Whole(t.spent))
        <4>1. Spend(p, b, n) < most /\ Spend(p, b, (n + 1) - 1) < p.rules.max_spend
          <5>1. Spend(p, b, n) < most
            BY <1>4, <3>1, <3>2, <3>6 DEF AtMost, Whole
          <5> QED
            BY <1>4, <3>1, <3>2, <3>4, <5>1
        <4>2. o = e[1]
          BY <3>1, <4>1, OrderOfMajority DEF o, order
        <4>3. Preferred(p, o, DOMAIN p.rules.tiers[o]) = e[2] /\ Preferred(p, o, {e[2]}) = e[2]
          BY <3>1, <3>3, <4>2, TierOfMajority
        <4>4. Fundable(p, t.spent, o) = Fits(p, t.spent, o) \intersect {e[2]}
          BY <3>3, <4>2, <4>3 DEF Fundable
        <4>5. e[2] \in Fits(p, t.spent, o) <=> Spend(p, b, n) + Cost(p, e) <= Limit(p)
          BY <3>1, <3>3, <4>2 DEF Fits, Limit
        <4>6. CASE Fundable(p, t.spent, o) = {}
          <5>1. Spend(p, b, n) + Cost(p, e) > Limit(p)
            <6>1. ~(Spend(p, b, n) + Cost(p, e) <= Limit(p))
              BY <4>4, <4>5, <4>6
            <6> HIDE DEF e
            <6> QED
              BY <3>2, <3>3, <3>4, <6>1
          <5>2. r = [t EXCEPT !.halt = "item_did_not_fit"]
            BY <2>1, <3>1, <3>6, <4>6 DEF Fund
          <5>3. r.funded = SubSeq(b, 1, n) /\ r.halt # going
            BY <2>2, <5>2
          <5>4. Over_(r)
            BY <3>1, <5>1, <5>3 DEF Honours
          <5> QED
            BY <5>4 DEF r
        <4>7. CASE Fundable(p, t.spent, o) # {}
          <5>1. Fundable(p, t.spent, o) = {e[2]}
            BY <4>4, <4>7
          <5>2. r = [t EXCEPT !.funded = Append(t.funded, <<o, e[2]>>),
                              !.spent = t.spent + p.rules.tiers[o][e[2]]]
            BY <2>1, <3>1, <3>6, <4>3, <4>7, <5>1 DEF Fund
          <5>3. Append(SubSeq(b, 1, n), e) = SubSeq(b, 1, n + 1)
            BY <3>1, PrefixGrows DEF IsRanking
          <5>4. Spend(p, b, n + 1) = Spend(p, b, n) + Cost(p, e)
            BY <3>1, SpendFacts
          <5> HIDE DEF e
          <5>5. r = [funded |-> SubSeq(b, 1, n + 1), spent |-> Spend(p, b, n + 1),
                     halt |-> going]
            BY <2>2, <3>1, <3>3, <4>2, <5>2, <5>3, <5>4
          <5>6. CASE n + 1 < Len(b)
            <6>1. Along(r, n + 1)
              BY <5>5, <5>6
            <6> QED
              BY <6>1 DEF r
          <5>7. CASE ~(n + 1 < Len(b))
            <6>1. SubSeq(b, 1, n + 1) = b /\ b \in Seq(p.options \X Nat)
              BY <1>2, <3>1, <5>7, PrefixGrows DEF IsRanking
            <6>2. r.funded = b /\ r = [funded |-> r.funded, spent |-> r.spent, halt |-> r.halt]
              BY <5>5, <6>1
            <6>3. \E S : r.funded \in Seq(S)
              BY <6>1, <6>2
            <6>4. Beyond(r)
              BY <1>2, <6>2, <6>3
            <6> QED
              BY <6>4 DEF r
          <5> QED
            BY <5>6, <5>7
        <4> QED
          BY <4>6, <4>7
      <3> QED
        BY <3>5, <3>6
    <2>3. CASE Over_(t)
      <3>1. r = t
        BY <2>1, <2>3 DEF Fund
      <3>2. Over_(r)
        BY <2>3, <3>1
      <3> QED
        BY <3>2 DEF r
    <2>4. CASE Beyond(t)
      <3>1. PICK S : t.funded \in Seq(S)
        BY <2>4
      <3>2. CASE \/ r = t
                 \/ \E h : r = [t EXCEPT !.halt = h]
        <4>1. r.funded = t.funded /\ r = [funded |-> r.funded, spent |-> r.spent, halt |-> r.halt]
          BY <2>4, <3>2
        <4>2. Beyond(r)
          BY <2>4, <4>1
        <4> QED
          BY <4>2 DEF r
      <3>3. CASE \E u, c : r = [t EXCEPT !.funded = Append(t.funded, <<o, u>>), !.spent = c]
        <4>1. PICK u, c : r = [t EXCEPT !.funded = Append(t.funded, <<o, u>>), !.spent = c]
          BY <3>3
        <4> DEFINE f == t.funded
                   x == <<o, u>>
                   all == S \union {x}
        <4>2. f \in Seq(all) /\ x \in all
          BY <3>1
        <4>3. Len(b) <= Len(f) /\ \A i \in 1 .. Len(b) : f[i] = b[i]
          BY <2>4
        <4>4. /\ r.funded = Append(f, x)
              /\ r = [funded |-> r.funded, spent |-> r.spent, halt |-> r.halt]
          BY <2>4, <4>1
        <4> HIDE DEF f, x, all
        <4>5. /\ Append(f, x) \in Seq(all) /\ Len(Append(f, x)) = Len(f) + 1
              /\ Len(f) \in Nat /\ \A i \in 1 .. Len(f) : Append(f, x)[i] = f[i]
          BY <4>2
        <4>6. /\ \E E : r.funded \in Seq(E)
              /\ Len(b) <= Len(r.funded)
              /\ \A i \in 1 .. Len(b) : r.funded[i] = b[i]
          BY <1>2, <4>3, <4>4, <4>5
        <4>7. Beyond(r)
          BY <4>4, <4>6
        <4> QED
          BY <4>7 DEF r
      <3>4. \/ r = t
            \/ \E h : r = [t EXCEPT !.halt = h]
            \/ \E u, c : r = [t EXCEPT !.funded = Append(t.funded, <<o, u>>), !.spent = c]
        BY <2>1 DEF Fund
      <3> QED
        BY <3>2, <3>3, <3>4
    <2> QED
      BY <1>6, <2>2, <2>3, <2>4 DEF t
  <1>7. last \in T
    <2>1. 0 \in T
      BY <1>5
    <2>2. ASSUME NEW n \in Nat, n \in T PROVE n + 1 \in T
      <3> SUFFICES ASSUME n + 1 <= last PROVE Good(n + 1)
        OBVIOUS
      <3>1. Good(n)
        BY <1>2, <2>2
      <3> HIDE DEF Good
      <3> QED
        BY <1>6, <3>1
    <2> HIDE DEF T, last
    <2> QED
      BY <1>2, <2>1, <2>2, NaturalInduction
  <1>8. Good(last)
    BY <1>2, <1>7
  <1> QED
    <2> DEFINE t == after[last]
    <2>1. Along(t, last) \/ Over_(t) \/ Beyond(t)
      BY <1>8
    <2> HIDE DEF t
    <2>2. ~Along(t, last)
      BY <1>2
    <2>3. Honours(p, t.funded, b)
      BY <2>1, <2>2 DEF Honours
    <2> QED
      BY <1>1, <2>3 DEF t

LEMMA MinOfTwo ==
    ASSUME NEW m \in Int, NEW n \in Int
    PROVE  Min({m, n}) = IF m < n THEN m ELSE n
  <1>1. CASE m < n
    <2>1. m \in {m, n} /\ \A y \in {m, n} : m <= y
      BY <1>1
    <2>2. \A x \in {m, n} : (\A y \in {m, n} : x <= y) => x = m
      BY <1>1
    <2> QED
      BY <1>1, <2>1, <2>2 DEF Min
  <1>2. CASE ~(m < n)
    <2>1. n \in {m, n} /\ \A y \in {m, n} : n <= y
      BY <1>2
    <2>2. \A x \in {m, n} : (\A y \in {m, n} : x <= y) => x = n
      BY <1>2
    <2> QED
      BY <1>2, <2>1, <2>2 DEF Min
  <1> QED
    BY <1>1, <1>2

(* In the terms of the property: what both have in common, and what comes  *)
(* next where the funded entries end first.                                *)
LEMMA HonouredEntries ==
    ASSUME NEW p, Budgeted(p), NEW b, IsRanking(p, b), NEW f, Honours(p, f, b)
    PROVE  /\ SubSeq(f, 1, Min({Len(f), Len(b)})) = SubSeq(b, 1, Min({Len(f), Len(b)}))
           /\ Len(f) < Len(b) => Spend(p, f, Len(f)) + Cost(p, b[Len(f) + 1]) >
                                   Min({p.rules.envelope, p.rules.max_spend})
  <1>1. Len(b) \in Nat /\ b \in Seq(p.options \X Nat) /\ DOMAIN b = 1 .. Len(b)
    BY DEF IsRanking
  <1>2. Min({p.rules.envelope, p.rules.max_spend}) = Limit(p)
    BY MinOfTwo DEF Budgeted, Limit
  <1>3. ASSUME NEW n \in 0 .. Len(b), f = SubSeq(b, 1, n),
               n < Len(b) => Spend(p, b, n) + Cost(p, b[n + 1]) > Limit(p)
        PROVE  /\ SubSeq(f, 1, Min({Len(f), Len(b)})) = SubSeq(b, 1, Min({Len(f), Len(b)}))
               /\ Len(f) < Len(b) => Spend(p, f, Len(f)) + Cost(p, b[Len(f) + 1]) > Limit(p)
    <2>1. Len(f) = n /\ DOMAIN f = 1 .. n /\ \A i \in 1 .. n : f[i] = b[i]
      BY <1>1, <1>3
    <2>2. Min({n, Len(b)}) = n
      BY <1>1, MinOfTwo
    <2>3. SubSeq(f, 1, n) = SubSeq(b, 1, n)
      BY <1>1, <1>3, <2>1
    <2>4. Spend(p, f, n) = Spend(p, b, n)
      <3> DEFINE ours == [i \in DOMAIN f |-> Cost(p, f[i])]
                 all  == [i \in DOMAIN b |-> Cost(p, b[i])]
      <3>1. \A i \in 1 .. n : all[i] \in Int /\ ours[i] = all[i]
        <4>1. \A i \in 1 .. n : i \in DOMAIN b /\ i \in DOMAIN f /\ f[i] = b[i]
          BY <1>1, <2>1
        <4>2. \A i \in DOMAIN b : Cost(p, b[i]) \in Nat
          BY EntryFacts
        <4> QED
          BY <4>1, <4>2
      <3>2. IsFiniteSet(1 .. n)
        BY FS_Interval
      <3> HIDE DEF ours, all
      <3>3. SumFunctionOnSet(ours, 1 .. n) = SumFunctionOnSet(all, 1 .. n)
        BY <3>1, <3>2, SumsAlike
      <3> QED
        BY <3>3 DEF Spend, ours, all
    <2> QED
      BY <1>3, <2>1, <2>2, <2>3, <2>4
  <1>4. ASSUME NEW S, f \in Seq(S), Len(b) <= Len(f), \A i \in 1 .. Len(b) : f[i] = b[i]
        PROVE  /\ SubSeq(f, 1, Min({Len(f), Len(b)})) = SubSeq(b, 1, Min({Len(f), Len(b)}))
               /\ ~(Len(f) < Len(b))
    <2>1. Len(f) \in Nat
      BY <1>4
    <2>2. Min({Len(f), Len(b)}) = Len(b)
      BY <1>1, <1>4, <2>1, MinOfTwo
    <2>3. SubSeq(f, 1, Len(b)) = SubSeq(b, 1, Len(b))
      BY <1>1, <1>4, <2>1
    <2>4. ~(Len(f) < Len(b))
      BY <1>1, <1>4, <2>1
    <2> QED
      BY <2>2, <2>3, <2>4
  <1> QED
    BY <1>2, <1>3, <1>4 DEF Honours

-----------------------------------------------------------------------------
(* Ranked pairs                                                            *)

(* What the locking of victories relies on in a profile.                   *)
Compared(p) ==
    /\ IsFiniteSet(p.options)
    /\ \A a, b \in p.options : p.pairwise[a][b] \in Int
    /\ \A o \in p.options : p.priority[o] \in Int

Weakest(p, V) == CHOOSE e \in V : \A f \in V : ~Stronger(p, e, f)

LEMMA VictoryFacts ==
    ASSUME NEW p, Compared(p)
    PROVE  /\ IsFiniteSet(Victories(p))
           /\ \A e \in Victories(p) :
                  /\ e[1] \in p.options /\ e[2] \in p.options /\ e[1] # e[2]
                  /\ e = <<e[1], e[2]>>
                  /\ Margin(p, e) \in Int /\ p.pairwise[e[1]][e[2]] \in Int
                  /\ p.priority[e[1]] \in Int /\ p.priority[e[2]] \in Int
  <1>1. IsFiniteSet(Victories(p))
    BY FS_Product, FS_Subset DEF Compared, Victories
  <1>2. ASSUME NEW e \in Victories(p)
        PROVE  /\ e[1] \in p.options /\ e[2] \in p.options /\ e[1] # e[2]
               /\ e = <<e[1], e[2]>>
               /\ Margin(p, e) \in Int /\ p.pairwise[e[1]][e[2]] \in Int
               /\ p.priority[e[1]] \in Int /\ p.priority[e[2]] \in Int
    <2>1. e \in p.options \X p.options /\ Margin(p, e) > 0
      BY DEF Victories
    <2>2. e[1] \in p.options /\ e[2] \in p.options /\ e = <<e[1], e[2]>>
      BY <2>1
    <2>3. p.pairwise[e[1]][e[2]] \in Int /\ p.pairwise[e[2]][e[1]] \in Int
      BY <2>2 DEF Compared
    <2>4. Margin(p, e) \in Int
      BY <2>3 DEF Margin
    <2>5. e[1] # e[2]
      BY <2>1, <2>3 DEF Margin
    <2> QED
      BY <2>2, <2>3, <2>4, <2>5 DEF Compared
  <1> QED
    BY <1>1, <1>2

(* Which of two victories is locked first: by margin, support, priority of *)
(* the winner and of the loser.                                            *)
LEMMA StrongerMeans ==
    ASSUME NEW p, NEW e, NEW f, Stronger(p, e, f)
    PROVE  \/ -Margin(p, e) < -Margin(p, f)
           \/ /\ -Margin(p, e) = -Margin(p, f)
              /\ \/ -p.pairwise[e[1]][e[2]] < -p.pairwise[f[1]][f[2]]
                 \/ /\ -p.pairwise[e[1]][e[2]] = -p.pairwise[f[1]][f[2]]
                    /\ \/ p.priority[e[1]] < p.priority[f[1]]
                       \/ /\ p.priority[e[1]] = p.priority[f[1]]
                          /\ p.priority[e[2]] < p.priority[f[2]]
  <1> DEFINE key(g) == <<-Margin(p, g), -p.pairwise[g[1]][g[2]],
                         p.priority[g[1]], p.priority[g[2]]>>
             a == key(e)
             b == key(f)
  <1>1. PICK i \in 1 .. 4 : a[i] < b[i] /\ \A j \in 1 .. i - 1 : a[j] = b[j]
    BY DEF Stronger
  <1>2. i = 1 \/ i = 2 \/ i = 3 \/ i = 4
    OBVIOUS
  <1>3. \A j \in 1 .. 4 : j < i => a[j] = b[j]
    BY <1>1
  <1>4. /\ a[1] = -Margin(p, e) /\ a[2] = -p.pairwise[e[1]][e[2]]
        /\ a[3] = p.priority[e[1]] /\ a[4] = p.priority[e[2]]
        /\ b[1] = -Margin(p, f) /\ b[2] = -p.pairwise[f[1]][f[2]]
        /\ b[3] = p.priority[f[1]] /\ b[4] = p.priority[f[2]]
    OBVIOUS
  <1> HIDE DEF a, b
  <1> QED
    BY <1>1, <1>2, <1>3, <1>4

(* No two options have the same priority.                                  *)
Untied(p) == \A a, o \in p.options : p.priority[a] = p.priority[o] => a = o

(* What the order of the victories compares, one after the other.          *)
Outranks(p, e, f) ==
    \/ Margin(p, e) > Margin(p, f)
    \/ /\ Margin(p, e) = Margin(p, f)
       /\ \/ p.pairwise[e[1]][e[2]] > p.pairwise[f[1]][f[2]]
          \/ /\ p.pairwise[e[1]][e[2]] = p.pairwise[f[1]][f[2]]
             /\ \/ p.priority[e[1]] < p.priority[f[1]]
                \/ /\ p.priority[e[1]] = p.priority[f[1]]
                   /\ p.priority[e[2]] < p.priority[f[2]]

LEMMA StrongerIsOutranking ==
    ASSUME NEW p, Compared(p), NEW e \in Victories(p), NEW f \in Victories(p)
    PROVE  Stronger(p, e, f) <=> Outranks(p, e, f)
  <1>1. \A g \in {e, f} : /\ Margin(p, g) \in Int /\ p.pairwise[g[1]][g[2]] \in Int
                          /\ p.priority[g[1]] \in Int /\ p.priority[g[2]] \in Int
    BY VictoryFacts
  <1>2. ASSUME Stronger(p, e, f) PROVE Outranks(p, e, f)
    <2>1. \/ -Margin(p, e) < -Margin(p, f)
          \/ /\ -Margin(p, e) = -Margin(p, f)
             /\ \/ -p.pairwise[e[1]][e[2]] < -p.pairwise[f[1]][f[2]]
                \/ /\ -p.pairwise[e[1]][e[2]] = -p.pairwise[f[1]][f[2]]
                   /\ \/ p.priority[e[1]] < p.priority[f[1]]
                      \/ /\ p.priority[e[1]] = p.priority[f[1]]
                         /\ p.priority[e[2]] < p.priority[f[2]]
      BY <1>2, StrongerMeans
    <2> QED
      BY <1>1, <2>1 DEF Outranks
  <1>3. ASSUME Outranks(p, e, f) PROVE Stronger(p, e, f)
    <2> DEFINE a == <<-Margin(p, e), -p.pairwise[e[1]][e[2]], p.priority[e[1]], p.priority[e[2]]>>
               b == <<-Margin(p, f), -p.pairwise[f[1]][f[2]], p.priority[f[1]], p.priority[f[2]]>>
    <2>1. /\ a[1] = -Margin(p, e) /\ a[2] = -p.pairwise[e[1]][e[2]]
          /\ a[3] = p.priority[e[1]] /\ a[4] = p.priority[e[2]]
          /\ b[1] = -Margin(p, f) /\ b[2] = -p.pairwise[f[1]][f[2]]
          /\ b[3] = p.priority[f[1]] /\ b[4] = p.priority[f[2]]
      OBVIOUS
    <2>2. Stronger(p, e, f) <=> \E i \in 1 .. 4 : a[i] < b[i] /\ \A j \in 1 .. i - 1 : a[j] = b[j]
      BY DEF Stronger
    <2> HIDE DEF a, b
    <2>3. \/ a[1] < b[1]
          \/ a[1] = b[1] /\ a[2] < b[2]
          \/ a[1] = b[1] /\ a[2] = b[2] /\ a[3] < b[3]
          \/ a[1] = b[1] /\ a[2] = b[2] /\ a[3] = b[3] /\ a[4] < b[4]
      BY <1>1, <1>3, <2>1 DEF Outranks
    <2>4. ASSUME NEW i \in 1 .. 4, a[i] < b[i], \A j \in 1 .. i - 1 : a[j] = b[j]
          PROVE  Stronger(p, e, f)
      BY <2>2, <2>4
    <2>5. CASE a[1] < b[1]
      <3>1. \A j \in 1 .. 1 - 1 : a[j] = b[j]
        OBVIOUS
      <3> QED
        BY <2>4, <2>5, <3>1
    <2>6. CASE a[1] = b[1] /\ a[2] < b[2]
      <3>1. \A j \in 1 .. 2 - 1 : j = 1
        OBVIOUS
      <3> QED
        BY <2>4, <2>6, <3>1
    <2>7. CASE a[1] = b[1] /\ a[2] = b[2] /\ a[3] < b[3]
      <3>1. \A j \in 1 .. 3 - 1 : j = 1 \/ j = 2
        OBVIOUS
      <3> QED
        BY <2>4, <2>7, <3>1
    <2>8. CASE a[1] = b[1] /\ a[2] = b[2] /\ a[3] = b[3] /\ a[4] < b[4]
      <3>1. \A j \in 1 .. 4 - 1 : j = 1 \/ j = 2 \/ j = 3
        OBVIOUS
      <3> QED
        BY <2>4, <2>8, <3>1
    <2> QED
      BY <2>3, <2>5, <2>6, <2>7, <2>8
  <1> QED
    BY <1>2, <1>3

(* A strict order, total where priorities differ.                          *)
LEMMA StrongerOrders ==
    ASSUME NEW p, Compared(p)
    PROVE  /\ \A e \in Victories(p) : ~Stronger(p, e, e)
           /\ \A e, f, g \in Victories(p) :
                  Stronger(p, e, f) /\ Stronger(p, f, g) => Stronger(p, e, g)
           /\ Untied(p) => \A e, f \in Victories(p) :
                  e # f => Stronger(p, e, f) \/ Stronger(p, f, e)
  <1>1. \A g \in Victories(p) :
              /\ Margin(p, g) \in Int /\ p.pairwise[g[1]][g[2]] \in Int
              /\ p.priority[g[1]] \in Int /\ p.priority[g[2]] \in Int
    BY VictoryFacts
  <1>2. ASSUME NEW e \in Victories(p) PROVE ~Stronger(p, e, e)
    <2>1. ~Outranks(p, e, e)
      BY <1>1 DEF Outranks
    <2> QED
      BY <2>1, StrongerIsOutranking
  <1>3. ASSUME NEW e \in Victories(p), NEW f \in Victories(p), NEW g \in Victories(p),
               Stronger(p, e, f), Stronger(p, f, g)
        PROVE  Stronger(p, e, g)
    <2>1. Outranks(p, e, f) /\ Outranks(p, f, g)
      BY <1>3, StrongerIsOutranking
    <2>2. Outranks(p, e, g)
      <3>1. \A x \in {e, f, g} : /\ Margin(p, x) \in Int /\ p.pairwise[x[1]][x[2]] \in Int
                                 /\ p.priority[x[1]] \in Int /\ p.priority[x[2]] \in Int
        BY <1>1
      <3> QED
        BY <2>1, <3>1 DEF Outranks
    <2> QED
      BY <2>2, StrongerIsOutranking
  <1>4. ASSUME Untied(p), NEW e \in Victories(p), NEW f \in Victories(p), e # f
        PROVE  Stronger(p, e, f) \/ Stronger(p, f, e)
    <2>1. /\ e[1] \in p.options /\ e[2] \in p.options /\ e = <<e[1], e[2]>>
          /\ f[1] \in p.options /\ f[2] \in p.options /\ f = <<f[1], f[2]>>
      BY VictoryFacts
    <2>2. ~(p.priority[e[1]] = p.priority[f[1]] /\ p.priority[e[2]] = p.priority[f[2]])
      <3>1. ~(e[1] = f[1] /\ e[2] = f[2])
        BY <1>4, <2>1
      <3> QED
        BY <1>4, <2>1, <3>1 DEF Untied
    <2>3. Outranks(p, e, f) \/ Outranks(p, f, e)
      <3>1. \A x \in {e, f} : /\ Margin(p, x) \in Int /\ p.pairwise[x[1]][x[2]] \in Int
                              /\ p.priority[x[1]] \in Int /\ p.priority[x[2]] \in Int
        BY <1>1
      <3> QED
        BY <2>2, <3>1 DEF Outranks
    <2> QED
      BY <2>3, StrongerIsOutranking
  <1> QED
    BY <1>2, <1>3, <1>4

(* Among some victories there is one that none of them is stronger than,   *)
(* and one that is stronger than none of them.                             *)
LEMMA ExtremesExist ==
    ASSUME NEW p, Compared(p), NEW V \in SUBSET Victories(p), V # {}
    PROVE  /\ \E e \in V : \A f \in V : ~Stronger(p, f, e)
           /\ \E e \in V : \A f \in V : ~Stronger(p, e, f)
  <1> DEFINE Top(T) == \E e \in T : \A f \in T : ~Stronger(p, f, e)
             Bottom(T) == \E e \in T : \A f \in T : ~Stronger(p, e, f)
             P == {T \in SUBSET V : T # {} => Top(T) /\ Bottom(T)}
  <1>1. {} \in P
    OBVIOUS
  <1>2. ASSUME NEW T \in SUBSET V, NEW x \in V, T \in P, x \notin T
        PROVE  T \union {x} \in P
    <2>1. x \in Victories(p) /\ T \subseteq Victories(p) /\ ~Stronger(p, x, x)
      BY StrongerOrders
    <2>2. CASE T = {}
      BY <2>1, <2>2
    <2>3. CASE T # {}
      <3>1. PICK e \in T : \A f \in T : ~Stronger(p, f, e)
        BY <1>2, <2>3
      <3>2. PICK l \in T : \A f \in T : ~Stronger(p, l, f)
        BY <1>2, <2>3
      <3>3. Top(T \union {x})
        <4>1. CASE Stronger(p, x, e)
          <5>1. \A f \in T : ~Stronger(p, f, x)
            BY <2>1, <3>1, <4>1, StrongerOrders
          <5> QED
            BY <2>1, <5>1
        <4>2. CASE ~Stronger(p, x, e)
          BY <3>1, <4>2
        <4> QED
          BY <4>1, <4>2
      <3>4. Bottom(T \union {x})
        <4>1. CASE Stronger(p, l, x)
          <5>1. \A f \in T : ~Stronger(p, x, f)
            BY <2>1, <3>2, <4>1, StrongerOrders
          <5> QED
            BY <2>1, <5>1
        <4>2. CASE ~Stronger(p, l, x)
          BY <3>2, <4>2
        <4> QED
          BY <4>1, <4>2
      <3> HIDE DEF Top, Bottom
      <3> QED
        BY <3>3, <3>4
    <2> QED
      BY <2>2, <2>3
  <1>3. IsFiniteSet(V)
    BY VictoryFacts, FS_Subset
  <1> HIDE DEF P
  <1>4. V \in P
    BY <1>1, <1>2, <1>3, SubsetInduction
  <1> QED
    BY <1>4 DEF P

(* Among finitely many victories one comes last, and none has a smaller    *)
(* margin.                                                                 *)
LEMMA WeakestFacts ==
    ASSUME NEW p, Compared(p), NEW V \in SUBSET Victories(p), V # {}
    PROVE  /\ Weakest(p, V) \in V
           /\ \A f \in V : ~Stronger(p, Weakest(p, V), f)
           /\ \A f \in V : Margin(p, f) >= Margin(p, Weakest(p, V))
  <1> DEFINE l == Weakest(p, V)
  <1>1. l \in V /\ \A f \in V : ~Stronger(p, l, f)
    <2>1. \E e \in V : \A f \in V : ~Stronger(p, e, f)
      BY ExtremesExist
    <2> QED
      BY <2>1 DEF Weakest
  <1> HIDE DEF l
  <1>2. ASSUME NEW f \in V PROVE Margin(p, f) >= Margin(p, l)
    <2>1. /\ f \in Victories(p) /\ l \in Victories(p)
          /\ Margin(p, f) \in Int /\ Margin(p, l) \in Int
      BY <1>1, VictoryFacts
    <2>2. ~Outranks(p, l, f)
      BY <1>1, <2>1, StrongerIsOutranking
    <2> QED
      BY <2>1, <2>2 DEF Outranks
  <1> QED
    BY <1>1, <1>2 DEF l

Locking(p, graph, V) ==
    IF V = {} THEN [locked |-> {}, reach |-> {}]
    ELSE Lock(graph[V \ {Weakest(p, V)}], Weakest(p, V))

(* The recursion over the victories is well defined.                       *)
LEMMA LockingExists ==
    ASSUME NEW p, Compared(p)
    PROVE  \E graph : graph = [V \in SUBSET Victories(p) |-> Locking(p, graph, V)]
  <1> DEFINE S == Victories(p)
             Small(n) == {V \in SUBSET S : Cardinality(V) <= n}
             N == {n \in Nat : \E g : g = [V \in Small(n) |-> Locking(p, g, V)]}
  <1>1. IsFiniteSet(S) /\ \A V \in SUBSET S : IsFiniteSet(V) /\ Cardinality(V) \in Nat
    BY VictoryFacts, FS_Subset, FS_CardinalityType
  <1>2. \A V \in SUBSET S : V # {} => Weakest(p, V) \in V
    BY WeakestFacts
  <1> HIDE DEF S
  <1>3. 0 \in N
    <2>1. Small(0) = {{}}
      BY <1>1, FS_EmptySet
    <2> DEFINE g == [V \in Small(0) |-> [locked |-> {}, reach |-> {}]]
    <2>2. g = [V \in Small(0) |-> Locking(p, g, V)]
      BY <2>1 DEF Locking
    <2> QED
      BY <2>2
  <1>4. ASSUME NEW n \in Nat, n \in N PROVE n + 1 \in N
    <2>1. PICK g : g = [V \in Small(n) |-> Locking(p, g, V)]
      BY <1>4
    <2> DEFINE h == [V \in Small(n + 1) |-> Locking(p, g, V)]
    <2>2. ASSUME NEW V \in Small(n + 1) PROVE Locking(p, g, V) = Locking(p, h, V)
      <3>1. CASE V = {}
        BY <3>1 DEF Locking
      <3>2. CASE V # {}
        <4> DEFINE R == V \ {Weakest(p, V)}
        <4>1. Weakest(p, V) \in V
          BY <1>2, <3>2
        <4>2. Cardinality(R) = Cardinality(V) - 1
          BY <1>1, <4>1, FS_RemoveElement
        <4>3. Cardinality(V) \in Nat /\ Cardinality(V) <= n + 1
          BY <1>1
        <4>4. Cardinality(R) <= n /\ Cardinality(R) <= n + 1
          BY <4>2, <4>3
        <4>5. R \in Small(n) /\ R \in Small(n + 1)
          BY <4>4
        <4> HIDE DEF R, Small
        <4>6. g[R] = h[R]
          BY <2>1, <4>5
        <4> QED
          BY <4>6 DEF Locking, R
      <3> QED
        BY <3>1, <3>2
    <2>3. h = [V \in Small(n + 1) |-> Locking(p, h, V)]
      BY <2>2
    <2>4. n + 1 \in Nat
      OBVIOUS
    <2> HIDE DEF h, Small
    <2> QED
      BY <2>3, <2>4
  <1> HIDE DEF N
  <1>5. Cardinality(S) \in N
    BY <1>1, <1>3, <1>4, NaturalInduction
  <1>6. Small(Cardinality(S)) = SUBSET S
    BY <1>1, FS_Subset
  <1> QED
    BY <1>5, <1>6 DEF N, S

(* Every set of options that a is in and that no victory of V leaves has b *)
(* in it: victories of V lead from a to b.                                 *)
Closed(p, V, C) == \A e \in V : e[1] \in C => e[2] \in C
Leads(p, V, a, b) == \A C \in SUBSET p.options : a \in C /\ Closed(p, V, C) => b \in C

(* What the graph of the victories V promises: it has no cycle, it reaches *)
(* no further than what is locked leads, and every victory of V is locked  *)
(* or answered by victories that are at least as strong.                   *)
Sound(p, V, g) ==
    /\ g.locked \subseteq V /\ g.locked \subseteq g.reach
    /\ g.reach \subseteq p.options \X p.options
    /\ \A a, b, c \in p.options : <<a, b>> \in g.reach /\ <<b, c>> \in g.reach => <<a, c>> \in g.reach
    /\ \A a \in p.options : <<a, a>> \notin g.reach
    /\ \A a, b \in p.options : <<a, b>> \in g.reach => Leads(p, g.locked, a, b)
    /\ \A e \in V : \/ e \in g.locked
                    \/ Leads(p, {f \in V : Margin(p, f) >= Margin(p, e)}, e[2], e[1])

LEMMA LeadsFurther ==
    ASSUME NEW p, NEW U, NEW V, U \subseteq V, NEW a, NEW b, Leads(p, U, a, b)
    PROVE  Leads(p, V, a, b)
  BY DEF Leads, Closed

(* Locking the next victory keeps the graph sound.                         *)
LEMMA LockKeepsSound ==
    ASSUME NEW p, Compared(p), NEW V \in SUBSET Victories(p),
           NEW w \in V, \A f \in V : Margin(p, f) >= Margin(p, w),
           NEW g, Sound(p, V \ {w}, g)
    PROVE  Sound(p, V, Lock(g, w))
  <1> DEFINE R == V \ {w}
             Strong(e) == {f \in V : Margin(p, f) >= Margin(p, e)}
             StrongR(e) == {f \in R : Margin(p, f) >= Margin(p, e)}
  <1>1. /\ w[1] \in p.options /\ w[2] \in p.options /\ w[1] # w[2] /\ w = <<w[1], w[2]>>
        /\ R \subseteq V
    BY VictoryFacts
  <1>2. Sound(p, R, g)
    OBVIOUS
  <1>3. ASSUME NEW e \in R
        PROVE  \/ e \in g.locked
               \/ Leads(p, Strong(e), e[2], e[1])
    <2>1. e \in g.locked \/ Leads(p, StrongR(e), e[2], e[1])
      BY <1>2 DEF Sound
    <2>2. StrongR(e) \subseteq Strong(e)
      OBVIOUS
    <2> HIDE DEF Strong, StrongR
    <2> QED
      BY <2>1, <2>2, LeadsFurther
  <1>4. CASE <<w[2], w[1]>> \in g.reach
    <2>1. Lock(g, w) = g
      BY <1>4 DEF Lock
    <2>2. Leads(p, R, w[2], w[1])
      <3>1. Leads(p, g.locked, w[2], w[1]) /\ g.locked \subseteq R
        BY <1>1, <1>2, <1>4 DEF Sound
      <3> HIDE DEF R
      <3> QED
        BY <3>1, LeadsFurther
    <2>3. R \subseteq Strong(w)
      OBVIOUS
    <2>4. Leads(p, Strong(w), w[2], w[1])
      <3> HIDE DEF Strong, R
      <3> QED
        BY <2>2, <2>3, LeadsFurther
    <2>5. \A e \in V : e \in g.locked \/ Leads(p, Strong(e), e[2], e[1])
      BY <1>3, <2>4
    <2> QED
      BY <1>2, <2>1, <2>5 DEF Sound
  <1>5. CASE <<w[2], w[1]>> \notin g.reach
    <2> DEFINE h == Lock(g, w)
               From == {w[1]} \union {x \in p.options : <<x, w[1]>> \in g.reach}
               To   == {w[2]} \union {x \in p.options : <<w[2], x>> \in g.reach}
    <2>1. g.reach \subseteq p.options \X p.options
      BY <1>2 DEF Sound
    <2>2. h.locked = g.locked \union {w}
      BY <1>5 DEF Lock
    <2>3. h.reach = g.reach \union (From \X To)
      <3>1. {x[1] : x \in {y \in g.reach : y[2] = w[1]}} =
                {x \in p.options : <<x, w[1]>> \in g.reach}
        BY <2>1
      <3>2. {x[2] : x \in {y \in g.reach : y[1] = w[2]}} =
                {x \in p.options : <<w[2], x>> \in g.reach}
        BY <2>1
      <3> QED
        BY <1>5, <3>1, <3>2 DEF Lock
    <2>4. From \subseteq p.options /\ To \subseteq p.options
      BY <1>1
    <2>5. \A a, b \in p.options :
              <<a, b>> \in h.reach <=> <<a, b>> \in g.reach \/ (a \in From /\ b \in To)
      BY <2>3
    <2>6. \A a \in p.options : a \in From <=> a = w[1] \/ <<a, w[1]>> \in g.reach
      BY <1>1
    <2>7. \A b \in p.options : b \in To <=> b = w[2] \/ <<w[2], b>> \in g.reach
      BY <1>1
    <2> HIDE DEF h, From, To
    <2>8. h.locked \subseteq V /\ h.locked \subseteq h.reach
      <3>1. g.locked \subseteq R /\ g.locked \subseteq g.reach
        BY <1>2 DEF Sound
      <3>2. w \in h.reach
        BY <1>1, <2>5, <2>6, <2>7
      <3> QED
        BY <2>2, <2>3, <3>1, <3>2
    <2>9. h.reach \subseteq p.options \X p.options
      BY <2>1, <2>3, <2>4
    <2>10. ASSUME NEW a \in p.options, NEW b \in p.options, NEW c \in p.options,
                  <<a, b>> \in h.reach, <<b, c>> \in h.reach
           PROVE  <<a, c>> \in h.reach
      <3>1. \A x, y, z \in p.options :
                <<x, y>> \in g.reach /\ <<y, z>> \in g.reach => <<x, z>> \in g.reach
        BY <1>2 DEF Sound
      <3>2. CASE <<a, b>> \in g.reach /\ <<b, c>> \in g.reach
        BY <2>5, <3>1, <3>2
      <3>3. CASE <<a, b>> \in g.reach /\ b \in From /\ c \in To
        BY <1>1, <2>5, <2>6, <3>1, <3>3
      <3>4. CASE a \in From /\ b \in To /\ <<b, c>> \in g.reach
        BY <1>1, <2>5, <2>7, <3>1, <3>4
      <3>5. CASE a \in From /\ c \in To
        BY <2>5, <3>5
      <3> QED
        BY <2>5, <2>10, <3>2, <3>3, <3>4, <3>5
    <2>11. ASSUME NEW a \in p.options PROVE <<a, a>> \notin h.reach
      <3>1. /\ <<a, a>> \notin g.reach
            /\ \A x, y, z \in p.options :
                <<x, y>> \in g.reach /\ <<y, z>> \in g.reach => <<x, z>> \in g.reach
        BY <1>2 DEF Sound
      <3>2. ~(a \in From /\ a \in To)
        BY <1>1, <1>5, <2>6, <2>7, <3>1
      <3> QED
        BY <2>5, <3>1, <3>2
    <2>12. ASSUME NEW a \in p.options, NEW b \in p.options, <<a, b>> \in h.reach
           PROVE  Leads(p, h.locked, a, b)
      <3>1. \A x, y \in p.options : <<x, y>> \in g.reach => Leads(p, h.locked, x, y)
        <4>1. \A x, y \in p.options : <<x, y>> \in g.reach => Leads(p, g.locked, x, y)
          BY <1>2 DEF Sound
        <4>2. g.locked \subseteq h.locked
          BY <2>2
        <4> QED
          BY <4>1, <4>2, LeadsFurther
      <3>2. CASE <<a, b>> \in g.reach
        BY <3>1, <3>2
      <3>3. CASE a \in From /\ b \in To
        <4> SUFFICES ASSUME NEW C \in SUBSET p.options, a \in C,
                            Closed(p, h.locked, C)
                     PROVE  b \in C
          BY DEF Leads
        <4>1. w[1] \in C
          BY <1>1, <2>6, <3>1, <3>3 DEF Leads
        <4>2. w[2] \in C
          BY <2>2, <4>1 DEF Closed
        <4> QED
          BY <1>1, <2>7, <3>1, <3>3, <4>2 DEF Leads
      <3> QED
        BY <2>5, <2>12, <3>2, <3>3
    <2>13. \A e \in V : e \in h.locked \/ Leads(p, Strong(e), e[2], e[1])
      BY <1>3, <2>2
    <2> QED
      BY <2>8, <2>9, <2>10, <2>11, <2>12, <2>13 DEF Sound, h
  <1> QED
    BY <1>4, <1>5

(* A sound graph reaches exactly where what is locked leads.               *)
LEMMA ReachIsLeading ==
    ASSUME NEW p, NEW V, NEW g, Sound(p, V, g), NEW a \in p.options, NEW b \in p.options
    PROVE  <<a, b>> \in g.reach <=> a # b /\ Leads(p, g.locked, a, b)
  <1> DEFINE C == {a} \union {o \in p.options : <<a, o>> \in g.reach}
  <1>1. /\ g.locked \subseteq g.reach /\ g.reach \subseteq p.options \X p.options
        /\ \A x, y, z \in p.options :
               <<x, y>> \in g.reach /\ <<y, z>> \in g.reach => <<x, z>> \in g.reach
        /\ <<a, a>> \notin g.reach
        /\ <<a, b>> \in g.reach => Leads(p, g.locked, a, b)
    BY DEF Sound
  <1>2. ASSUME a # b, Leads(p, g.locked, a, b) PROVE <<a, b>> \in g.reach
    <2>1. \A e \in g.locked : /\ e[1] \in p.options /\ e[2] \in p.options
                              /\ <<e[1], e[2]>> \in g.reach
      BY <1>1
    <2>2. Closed(p, g.locked, C)
      BY <1>1, <2>1 DEF Closed
    <2>3. C \in SUBSET p.options /\ a \in C
      OBVIOUS
    <2> HIDE DEF C
    <2>4. b \in C
      BY <1>2, <2>2, <2>3 DEF Leads
    <2> QED
      BY <1>2, <2>4 DEF C
  <1> QED
    BY <1>1, <1>2

(* Of the victories V those are locked that the stronger locked ones do not*)
(* answer.                                                                 *)
Settled(p, V, locked) ==
    /\ locked \subseteq V
    /\ \A e \in V :
           e \in locked <=> ~Leads(p, {f \in locked : Stronger(p, f, e)}, e[2], e[1])

LEMMA LockSettles ==
    ASSUME NEW p, Compared(p), Untied(p), NEW V \in SUBSET Victories(p),
           NEW w \in V, \A f \in V : ~Stronger(p, w, f),
           NEW g, Sound(p, V \ {w}, g), Settled(p, V \ {w}, g.locked)
    PROVE  Settled(p, V, Lock(g, w).locked)
  <1> DEFINE L == Lock(g, w).locked
  <1>1. w[1] \in p.options /\ w[2] \in p.options /\ w[1] # w[2]
    BY VictoryFacts
  <1>2. \A f \in V : f # w => Stronger(p, f, w)
    <2>1. \A f \in V : f \in Victories(p)
      OBVIOUS
    <2> QED
      BY <2>1, StrongerOrders
  <1>3. /\ g.locked \subseteq V \ {w}
        /\ \A e \in V \ {w} : e \in g.locked <=>
               ~Leads(p, {f \in g.locked : Stronger(p, f, e)}, e[2], e[1])
    BY DEF Settled
  <1>4. L = IF <<w[2], w[1]>> \in g.reach THEN g.locked ELSE g.locked \union {w}
    BY DEF Lock
  <1>5. <<w[2], w[1]>> \in g.reach <=> Leads(p, g.locked, w[2], w[1])
    BY <1>1, ReachIsLeading
  <1> HIDE DEF L
  <1>6. ASSUME NEW e \in V
        PROVE  e \in L <=> ~Leads(p, {f \in L : Stronger(p, f, e)}, e[2], e[1])
    <2>1. CASE e = w
      <3>1. {f \in L : Stronger(p, f, w)} = g.locked
        BY <1>2, <1>3, <1>4
      <3>2. w \in L <=> ~Leads(p, g.locked, w[2], w[1])
        BY <1>3, <1>4, <1>5
      <3> QED
        BY <2>1, <3>1, <3>2
    <2>2. CASE e # w
      <3>1. {f \in L : Stronger(p, f, e)} = {f \in g.locked : Stronger(p, f, e)}
        BY <1>4
      <3>2. e \in L <=> e \in g.locked
        BY <1>4, <2>2
      <3> QED
        BY <1>3, <2>2, <3>1, <3>2
    <2> QED
      BY <2>1, <2>2
  <1> QED
    BY <1>3, <1>4, <1>6 DEF Settled, L

(* Only one set of victories is settled.                                   *)
LEMMA SettledIsUnique ==
    ASSUME NEW p, Compared(p), NEW V \in SUBSET Victories(p),
           NEW L, Settled(p, V, L), NEW M, Settled(p, V, M)
    PROVE  L = M
  <1> DEFINE D == (L \ M) \union (M \ L)
  <1>1. L \subseteq V /\ M \subseteq V
    BY DEF Settled
  <1> SUFFICES ASSUME D # {} PROVE FALSE
    OBVIOUS
  <1>2. D \in SUBSET Victories(p)
    BY <1>1
  <1> HIDE DEF D
  <1>3. PICK e \in D : \A f \in D : ~Stronger(p, f, e)
    BY <1>2, ExtremesExist
  <1>4. {f \in L : Stronger(p, f, e)} = {f \in M : Stronger(p, f, e)}
    BY <1>3 DEF D
  <1>5. e \in V
    BY <1>1, <1>3 DEF D
  <1>6. e \in L <=> e \in M
    <2> DEFINE U == {f \in L : Stronger(p, f, e)}
               W == {f \in M : Stronger(p, f, e)}
    <2>1. (e \in L <=> ~Leads(p, U, e[2], e[1])) /\ (e \in M <=> ~Leads(p, W, e[2], e[1]))
      BY <1>5 DEF Settled
    <2> QED
      BY <1>4, <2>1
  <1> QED
    BY <1>3, <1>6 DEF D

(* The graph of all victories is sound, and settled where priorities differ*)
LEMMA GraphIsSound ==
    ASSUME NEW p, Compared(p)
    PROVE  \E g : /\ _ranked_pairs_graph(p) = g.locked /\ Sound(p, Victories(p), g)
                  /\ Untied(p) => Settled(p, Victories(p), g.locked)
  <1> DEFINE S == Victories(p)
             graph == CHOOSE g : g = [V \in SUBSET S |-> Locking(p, g, V)]
             Good(V) == /\ Sound(p, V, graph[V])
                        /\ Untied(p) => Settled(p, V, graph[V].locked)
             N == {n \in Nat : \A V \in SUBSET S : Cardinality(V) = n => Good(V)}
  <1>1. graph = [V \in SUBSET S |-> Locking(p, graph, V)]
    BY LockingExists
  <1>2. IsFiniteSet(S) /\ \A V \in SUBSET S : IsFiniteSet(V) /\ Cardinality(V) \in Nat
    BY VictoryFacts, FS_Subset, FS_CardinalityType
  <1>3. _ranked_pairs_graph(p) = graph[S].locked
    BY DEF _ranked_pairs_graph, Locking, Weakest
  <1> HIDE DEF graph
  <1>4. 0 \in N
    <2> SUFFICES Good({})
      BY <1>2, FS_EmptySet
    <2>1. graph[{}] = [locked |-> {}, reach |-> {}]
      BY <1>1 DEF Locking
    <2> QED
      BY <2>1 DEF Sound, Settled
  <1>5. ASSUME NEW n \in Nat, n \in N PROVE n + 1 \in N
    <2> SUFFICES ASSUME NEW V \in SUBSET S, Cardinality(V) = n + 1
                 PROVE  Good(V)
      OBVIOUS
    <2> DEFINE w == Weakest(p, V)
               R == V \ {w}
    <2>1. V # {}
      BY FS_EmptySet
    <2>2. /\ w \in V /\ \A f \in V : Margin(p, f) >= Margin(p, w)
          /\ \A f \in V : ~Stronger(p, w, f)
      BY <2>1, WeakestFacts
    <2>3. graph[V] = Lock(graph[R], w)
      BY <1>1, <2>1 DEF Locking
    <2>4. R \in SUBSET S /\ Cardinality(R) = n
      <3>1. IsFiniteSet(V)
        BY <1>2
      <3>2. Cardinality(V \ {w}) = Cardinality(V) - 1
        BY <2>2, <3>1, FS_RemoveElement
      <3> QED
        BY <3>2
    <2>5. /\ Sound(p, V \ {w}, graph[R])
          /\ Untied(p) => Settled(p, V \ {w}, graph[R].locked)
      BY <1>5, <2>4
    <2> HIDE DEF w, R
    <2>6. Sound(p, V, graph[V])
      BY <2>2, <2>3, <2>5, LockKeepsSound
    <2>7. Untied(p) => Settled(p, V, graph[V].locked)
      BY <2>2, <2>3, <2>5, LockSettles
    <2> QED
      BY <2>6, <2>7
  <1> HIDE DEF N
  <1>6. Cardinality(S) \in N
    BY <1>2, <1>4, <1>5, NaturalInduction
  <1> QED
    BY <1>3, <1>6 DEF N

(* Among some of the options there is one that none of them reaches.       *)
LEMMA SourceExists ==
    ASSUME NEW p, Compared(p), NEW rest \in SUBSET p.options, rest # {},
           NEW V, NEW g, Sound(p, V, g)
    PROVE  \E o \in rest : \A a \in rest : <<a, o>> \notin g.reach
  <1> DEFINE Above(o) == {a \in p.options : <<a, o>> \in g.reach}
             many == [o \in p.options |-> Cardinality(Above(o))]
  <1>1. \A o \in p.options : IsFiniteSet(Above(o)) /\ Cardinality(Above(o)) \in Nat
    BY FS_Subset, FS_CardinalityType DEF Compared
  <1>2. PICK o \in rest : \A q \in rest : many[o] <= many[q]
    <2>1. \A o \in rest : many[o] \in Int
      BY <1>1
    <2>2. IsFiniteSet(rest)
      BY FS_Subset DEF Compared
    <2> HIDE DEF many
    <2> QED
      BY <2>1, <2>2, LeastExists
  <1>3. ASSUME NEW a \in rest, <<a, o>> \in g.reach PROVE FALSE
    <2>1. Above(a) \subseteq Above(o)
      BY <1>3 DEF Sound
    <2>2. a \in Above(o) /\ a \notin Above(a)
      BY <1>3 DEF Sound
    <2>3. Cardinality(Above(a)) < Cardinality(Above(o))
      <3> HIDE DEF Above
      <3>1. Above(a) # Above(o)
        BY <2>2
      <3>2. Cardinality(Above(a)) <= Cardinality(Above(o)) /\
            (Cardinality(Above(a)) = Cardinality(Above(o)) => Above(a) = Above(o))
        BY <1>1, <2>1, FS_Subset
      <3> QED
        BY <1>1, <3>1, <3>2
    <2>4. many[o] <= many[a] /\ many[o] = Cardinality(Above(o)) /\ many[a] = Cardinality(Above(a))
      BY <1>2
    <2> HIDE DEF many, Above
    <2> QED
      BY <1>1, <2>3, <2>4
  <1> QED
    BY <1>3

(* The first of some options by their priorities.                          *)
LEMMA FirstFacts ==
    ASSUME NEW S, IsFiniteSet(S), S # {}, NEW priority, \A o \in S : priority[o] \in Int
    PROVE  /\ First(S, priority) \in S
           /\ \A o \in S : priority[First(S, priority)] <= priority[o]
  <1>1. \E o \in S : \A q \in S : priority[o] <= priority[q]
    BY LeastExists
  <1> QED
    BY <1>1 DEF First

LEMMA FirstIs ==
    ASSUME NEW S, NEW priority, \A o \in S : priority[o] \in Int,
           \A a, o \in S : priority[a] = priority[o] => a = o,
           NEW w \in S, \A o \in S : priority[w] <= priority[o]
    PROVE  First(S, priority) = w
  <1> DEFINE f == First(S, priority)
  <1>1. f \in S /\ \A o \in S : priority[f] <= priority[o]
    BY DEF First
  <1> HIDE DEF f
  <1>2. priority[f] <= priority[w] /\ priority[w] <= priority[f]
    BY <1>1
  <1>3. priority[f] = priority[w]
    BY <1>1, <1>2
  <1>4. f = w
    BY <1>1, <1>3
  <1> QED
    BY <1>4 DEF f

(* The first stays the first where others drop out.                        *)
LEMMA FirstStays ==
    ASSUME NEW S, IsFiniteSet(S), NEW priority, \A o \in S : priority[o] \in Int,
           \A a, o \in S : priority[a] = priority[o] => a = o,
           NEW T \in SUBSET S, First(S, priority) \in T
    PROVE  First(T, priority) = First(S, priority)
  <1> DEFINE w == First(S, priority)
  <1>1. w \in T /\ w \in S
    OBVIOUS
  <1> HIDE DEF w
  <1>2. S # {} /\ \A o \in S : priority[w] <= priority[o]
    <2>1. S # {}
      BY <1>1
    <2> QED
      BY <2>1, FirstFacts DEF w
  <1>3. First(T, priority) = w
    BY <1>1, <1>2, FirstIs
  <1> QED
    BY <1>3 DEF w

(* The options that no locked victory is over.                             *)
Sources(p) == {o \in p.options : \A e \in _ranked_pairs_graph(p) : e[2] # o}

(* A single winner is the first source, if there is a preference at all.   *)
LEMMA OneIsElected ==
    ASSUME NEW options, NEW rate, NEW weight, NEW priority,
           NEW p, p = _rated_totals(options, rate, weight, priority), Compared(p)
    PROVE  /\ \A w : w \in count_ranked_pairs(p, 1) <=>
                   /\ w = First(Sources(p), p.priority)
                   /\ \E a, b \in p.options : p.pairwise[a][b] > 0
           /\ p.options # {} => First(Sources(p), p.priority) \in Sources(p)
  <1> DEFINE q == [p EXCEPT !.options = Standing(p, 1)]
             locked == _ranked_pairs_graph(q)
             Round1(sofar) ==
                 LET rest == q.options \ sofar
                     sources == {o \in rest : \A e \in locked :
                                    e[2] = o => e[1] \notin rest}
                 IN  IF rest = {} THEN sofar
                     ELSE sofar \union {First(sources, p.priority)}
             Elected(f) == [k \in 0 .. 1 |-> IF k = 0 THEN {} ELSE Round1(f[k - 1])]
             elected == CHOOSE f : f = Elected(f)
  <1>1. q = p
    BY DEF Standing, _rated_totals
  <1>2. count_ranked_pairs(p, 1) =
            IF \E a, b \in q.options : p.pairwise[a][b] > 0 THEN elected[1] ELSE {}
    BY DEF count_ranked_pairs
  <1> HIDE DEF q
  <1>3. elected = Elected(elected)
    <2> DEFINE f == [k \in 0 .. 1 |-> IF k = 0 THEN {} ELSE Round1({})]
    <2> HIDE DEF Round1
    <2>1. f = Elected(f)
      OBVIOUS
    <2> HIDE DEF f
    <2> QED
      BY <2>1
  <1> HIDE DEF elected
  <1>4. elected[1] = Round1({})
    <2> HIDE DEF Round1
    <2> QED
      BY <1>3
  <1>5. PICK g : _ranked_pairs_graph(p) = g.locked /\ Sound(p, Victories(p), g)
    BY GraphIsSound
  <1>6. \A e \in g.locked : /\ e[1] \in p.options /\ e[2] \in p.options
                            /\ <<e[1], e[2]>> \in g.reach
    <2>1. g.locked \subseteq g.reach /\ g.reach \subseteq p.options \X p.options
      BY <1>5 DEF Sound
    <2> QED
      BY <2>1
  <1>7. elected[1] = IF p.options = {} THEN {} ELSE {First(Sources(p), p.priority)}
    <2>1. Sources(p) = {o \in p.options : \A e \in g.locked :
                            e[2] = o => e[1] \notin p.options}
      BY <1>5, <1>6 DEF Sources
    <2> QED
      BY <1>1, <1>4, <1>5, <2>1
  <1>8. ASSUME p.options # {} PROVE First(Sources(p), p.priority) \in Sources(p)
    <2>1. PICK o \in p.options : \A a \in p.options : <<a, o>> \notin g.reach
      <3>1. p.options \in SUBSET p.options
        OBVIOUS
      <3> QED
        BY <1>5, <1>8, <3>1, SourceExists
    <2>2. o \in Sources(p)
      BY <1>5, <1>6, <2>1 DEF Sources
    <2>3. IsFiniteSet(Sources(p)) /\ \A a \in Sources(p) : p.priority[a] \in Int
      BY FS_Subset DEF Compared, Sources
    <2> QED
      BY <2>2, <2>3, FirstFacts
  <1> QED
    BY <1>1, <1>2, <1>7, <1>8

(* A single winner is the source of a sound graph.                         *)
LEMMA WinnerIsSource ==
    ASSUME NEW options, NEW rate, NEW weight, NEW priority,
           NEW p, p = _rated_totals(options, rate, weight, priority),
           Compared(p), NEW w \in count_ranked_pairs(p, 1)
    PROVE  \E g : /\ Sound(p, Victories(p), g)
                  /\ w \in p.options
                  /\ \A e \in g.locked : e[2] # w
  <1>1. PICK g : _ranked_pairs_graph(p) = g.locked /\ Sound(p, Victories(p), g)
    BY GraphIsSound
  <1>2. w \in Sources(p)
    BY OneIsElected
  <1> QED
    BY <1>1, <1>2 DEF Sources

(* Whoever is preferred to the winner is reached from it by victories that *)
(* are at least as strong.                                                 *)
LEMMA WinnerAnswers ==
    ASSUME NEW options, NEW rate, NEW weight, NEW priority,
           NEW p, p = _rated_totals(options, rate, weight, priority),
           Compared(p), NEW w \in count_ranked_pairs(p, 1),
           NEW e \in Victories(p), e[2] = w
    PROVE  Leads(p, {f \in Victories(p) : Margin(p, f) >= Margin(p, e)}, w, e[1])
  <1>1. PICK g : Sound(p, Victories(p), g) /\ \A f \in g.locked : f[2] # w
    BY WinnerIsSource
  <1>2. e \notin g.locked
    BY <1>1
  <1> QED
    BY <1>1, <1>2 DEF Sound

(* Profile q compares w better than p does, and the others alike.          *)
Raised(p, q, w) ==
    /\ q.options = p.options /\ q.priority = p.priority /\ w \in p.options
    /\ \A a, o \in p.options \ {w} : q.pairwise[a][o] = p.pairwise[a][o]
    /\ \A o \in p.options : /\ q.pairwise[w][o] >= p.pairwise[w][o]
                            /\ q.pairwise[o][w] <= p.pairwise[o][w]

LEMMA RaisedVictories ==
    ASSUME NEW p, Compared(p), NEW q, Compared(q), NEW w, Raised(p, q, w)
    PROVE  /\ \A e \in p.options \X p.options : e[1] # w /\ e[2] # w =>
                  /\ Margin(q, e) = Margin(p, e)
                  /\ q.pairwise[e[1]][e[2]] = p.pairwise[e[1]][e[2]]
                  /\ e \in Victories(q) <=> e \in Victories(p)
           /\ \A e \in Victories(p) : e[1] = w =>
                  /\ e \in Victories(q) /\ Margin(q, e) >= Margin(p, e)
                  /\ q.pairwise[e[1]][e[2]] >= p.pairwise[e[1]][e[2]]
           /\ \A e \in Victories(q) : e[2] = w =>
                  /\ e \in Victories(p) /\ Margin(q, e) <= Margin(p, e)
                  /\ q.pairwise[e[1]][e[2]] <= p.pairwise[e[1]][e[2]]
  <1>1. \A a, o \in p.options : p.pairwise[a][o] \in Int /\ q.pairwise[a][o] \in Int
    BY DEF Raised, Compared
  <1>2. /\ q.options = p.options /\ w \in p.options
        /\ \A a, o \in p.options \ {w} : q.pairwise[a][o] = p.pairwise[a][o]
        /\ \A o \in p.options : /\ q.pairwise[w][o] >= p.pairwise[w][o]
                                /\ q.pairwise[o][w] <= p.pairwise[o][w]
    BY DEF Raised
  <1>3. /\ \A e \in Victories(p) : e \in p.options \X p.options /\ Margin(p, e) > 0
        /\ \A e \in Victories(q) : e \in p.options \X p.options /\ Margin(q, e) > 0
        /\ \A e \in p.options \X p.options : /\ Margin(p, e) > 0 => e \in Victories(p)
                                             /\ Margin(q, e) > 0 => e \in Victories(q)
    BY <1>2 DEF Victories
  <1>4. ASSUME NEW e \in p.options \X p.options
        PROVE  /\ e[1] \in p.options /\ e[2] \in p.options
               /\ Margin(p, e) = p.pairwise[e[1]][e[2]] - p.pairwise[e[2]][e[1]]
               /\ Margin(q, e) = q.pairwise[e[1]][e[2]] - q.pairwise[e[2]][e[1]]
               /\ p.pairwise[e[1]][e[2]] \in Int /\ p.pairwise[e[2]][e[1]] \in Int
               /\ q.pairwise[e[1]][e[2]] \in Int /\ q.pairwise[e[2]][e[1]] \in Int
    BY <1>1 DEF Margin
  <1>5. ASSUME NEW e \in p.options \X p.options, e[1] # w, e[2] # w
        PROVE  /\ Margin(q, e) = Margin(p, e)
               /\ q.pairwise[e[1]][e[2]] = p.pairwise[e[1]][e[2]]
               /\ e \in Victories(q) <=> e \in Victories(p)
    <2>1. /\ q.pairwise[e[1]][e[2]] = p.pairwise[e[1]][e[2]]
          /\ q.pairwise[e[2]][e[1]] = p.pairwise[e[2]][e[1]]
      BY <1>2, <1>4, <1>5
    <2> QED
      BY <1>3, <1>4, <2>1
  <1>6. ASSUME NEW e \in Victories(p), e[1] = w
        PROVE  /\ e \in Victories(q) /\ Margin(q, e) >= Margin(p, e)
               /\ q.pairwise[e[1]][e[2]] >= p.pairwise[e[1]][e[2]]
    <2>1. e \in p.options \X p.options /\ Margin(p, e) > 0
      BY <1>3
    <2>2. /\ q.pairwise[e[1]][e[2]] >= p.pairwise[e[1]][e[2]]
          /\ q.pairwise[e[2]][e[1]] <= p.pairwise[e[2]][e[1]]
      BY <1>2, <1>4, <1>6, <2>1
    <2>3. Margin(q, e) >= Margin(p, e) /\ Margin(q, e) > 0
      BY <1>4, <2>1, <2>2
    <2> QED
      BY <1>3, <2>1, <2>2, <2>3
  <1>7. ASSUME NEW e \in Victories(q), e[2] = w
        PROVE  /\ e \in Victories(p) /\ Margin(q, e) <= Margin(p, e)
               /\ q.pairwise[e[1]][e[2]] <= p.pairwise[e[1]][e[2]]
    <2>1. e \in p.options \X p.options /\ Margin(q, e) > 0
      BY <1>3
    <2>2. /\ q.pairwise[e[1]][e[2]] <= p.pairwise[e[1]][e[2]]
          /\ q.pairwise[e[2]][e[1]] >= p.pairwise[e[2]][e[1]]
      BY <1>2, <1>4, <1>7, <2>1
    <2>3. Margin(q, e) <= Margin(p, e) /\ Margin(p, e) > 0
      BY <1>4, <2>1, <2>2
    <2> QED
      BY <1>3, <2>1, <2>2, <2>3
  <1> QED
    BY <1>5, <1>6, <1>7

(* A victory that has not lost against one that has not gained stays ahead.*)
LEMMA StaysStronger ==
    ASSUME NEW p, Compared(p), NEW q, Compared(q), NEW w, Raised(p, q, w),
           NEW f, f \in Victories(p), f \in Victories(q),
           NEW e, e \in Victories(p), e \in Victories(q),
           Margin(q, f) >= Margin(p, f), Margin(q, e) <= Margin(p, e),
           q.pairwise[f[1]][f[2]] >= p.pairwise[f[1]][f[2]],
           q.pairwise[e[1]][e[2]] <= p.pairwise[e[1]][e[2]],
           Stronger(p, f, e)
    PROVE  Stronger(q, f, e)
  <1>1. Outranks(p, f, e) /\ q.priority = p.priority
    BY StrongerIsOutranking DEF Raised
  <1>2. /\ \A g \in {e, f} : Margin(p, g) \in Int /\ p.pairwise[g[1]][g[2]] \in Int
        /\ \A g \in {e, f} : Margin(q, g) \in Int /\ q.pairwise[g[1]][g[2]] \in Int
    BY VictoryFacts
  <1>3. Outranks(q, f, e)
    BY <1>1, <1>2 DEF Outranks
  <1> QED
    BY <1>3, StrongerIsOutranking

(* Where nothing leads to w, what leads elsewhere does not depend on the   *)
(* victories of w.                                                         *)
LEMMA LeadsAround ==
    ASSUME NEW p, NEW w, NEW U, NEW W, NEW a, a # w, NEW b,
           \A e \in U : e[2] # w, \A e \in U : e[1] # w => e \in W, Leads(p, U, a, b)
    PROVE  Leads(p, W, a, b)
  <1> SUFFICES ASSUME NEW C \in SUBSET p.options, a \in C, Closed(p, W, C) PROVE b \in C
    BY DEF Leads
  <1>1. Closed(p, U, C \ {w})
    BY DEF Closed
  <1>2. C \ {w} \in SUBSET p.options /\ a \in C \ {w}
    OBVIOUS
  <1>3. b \in C \ {w}
    BY <1>1, <1>2 DEF Leads
  <1> QED
    BY <1>3

(* All victories of a source are locked.                                   *)
LEMMA SourceLocks ==
    ASSUME NEW p, Compared(p), NEW L, Settled(p, Victories(p), L), NEW w,
           \A e \in L : e[2] # w, NEW e \in Victories(p), e[1] = w
    PROVE  e \in L
  <1> DEFINE U == {f \in L : Stronger(p, f, e)}
             C == p.options \ {w}
  <1>1. e[2] \in C
    BY VictoryFacts
  <1>2. Closed(p, U, C)
    <2>1. \A f \in U : f[2] \in p.options /\ f[2] # w
      BY VictoryFacts DEF Settled
    <2> QED
      BY <2>1 DEF Closed
  <1>3. ~Leads(p, U, e[2], e[1])
    BY <1>1, <1>2 DEF Leads
  <1> QED
    BY <1>3 DEF Settled

(* When a source is raised, what is locked stays, and only it gains.       *)
LEMMA RaisedIsSettled ==
    ASSUME NEW p, Compared(p), NEW q, Compared(q), NEW w, Raised(p, q, w),
           NEW L, Settled(p, Victories(p), L), \A e \in L : e[2] # w
    PROVE  Settled(q, Victories(q),
                   {e \in L : e[1] # w} \union {e \in Victories(q) : e[1] = w})
  <1> DEFINE M == {e \in L : e[1] # w} \union {e \in Victories(q) : e[1] = w}
  <1>1. /\ \A e \in Victories(p) : /\ e \in p.options \X p.options /\ e[1] # e[2]
                                   /\ e[1] \in p.options /\ e[2] \in p.options
        /\ \A e \in Victories(q) : /\ e \in p.options \X p.options /\ e[1] # e[2]
                                   /\ e[1] \in p.options /\ e[2] \in p.options
    BY VictoryFacts DEF Victories, Raised
  <1>2. L \subseteq Victories(p)
    BY DEF Settled
  <1>3. \A e \in L : e[1] # w => e \in Victories(q)
    BY <1>1, <1>2, RaisedVictories
  <1>4. M \subseteq Victories(q) /\ \A e \in M : e[2] # w
    BY <1>1, <1>3
  <1>5. \A U, a, b : Leads(q, U, a, b) <=> Leads(p, U, a, b)
    <2>1. q.options = p.options
      BY DEF Raised
    <2> QED
      BY <2>1 DEF Leads, Closed
  <1>6. \A e \in M : e[1] # w <=> e \in L /\ e[1] # w
    OBVIOUS
  <1>7. \A e \in L : e \in M
    BY <1>2, <1>3, RaisedVictories
  <1>8. /\ \A e \in L : e[1] # w => e \in M
        /\ \A e \in M : e[1] # w => e \in L
        /\ \A e \in Victories(q) : e[1] = w => e \in M
    OBVIOUS
  <1> HIDE DEF M
  <1>9. ASSUME NEW e \in Victories(q)
        PROVE  e \in M <=> ~Leads(q, {f \in M : Stronger(q, f, e)}, e[2], e[1])
    <2> DEFINE U == {f \in L : Stronger(p, f, e)}
               W == {f \in M : Stronger(q, f, e)}
    <2>1. CASE e[1] = w
      <3> DEFINE C == p.options \ {w}
      <3>1. e[2] \in C /\ e[1] \notin C
        BY <1>1, <2>1
      <3>2. Closed(p, W, C)
        BY <1>1, <1>4 DEF Closed
      <3>3. ~Leads(p, W, e[2], e[1])
        BY <3>1, <3>2 DEF Leads
      <3>4. e \in M
        BY <1>8, <2>1
      <3> QED
        BY <1>5, <3>3, <3>4
    <2>2. CASE e[2] = w
      <3>1. /\ e \in Victories(p) /\ Margin(q, e) <= Margin(p, e)
            /\ q.pairwise[e[1]][e[2]] <= p.pairwise[e[1]][e[2]]
        BY <2>2, RaisedVictories
      <3>2. e \notin L /\ e \notin M
        BY <1>4, <2>2
      <3>3. Leads(p, U, e[2], e[1])
        BY <3>1, <3>2 DEF Settled
      <3>4. U \subseteq W
        <4> SUFFICES ASSUME NEW f \in L, Stronger(p, f, e) PROVE f \in M /\ Stronger(q, f, e)
          OBVIOUS
        <4>1. /\ f \in M /\ f \in Victories(p) /\ f \in Victories(q) /\ f[2] # w
              /\ f \in p.options \X p.options
          BY <1>1, <1>2, <1>4, <1>7
        <4>2. /\ Margin(p, f) \in Int /\ Margin(q, f) \in Int
              /\ p.pairwise[f[1]][f[2]] \in Int /\ q.pairwise[f[1]][f[2]] \in Int
          BY <4>1, VictoryFacts
        <4>3. /\ Margin(q, f) >= Margin(p, f)
              /\ q.pairwise[f[1]][f[2]] >= p.pairwise[f[1]][f[2]]
          <5>1. CASE f[1] = w
            BY <4>1, <5>1, RaisedVictories
          <5>2. CASE f[1] # w
            <6>1. /\ Margin(q, f) = Margin(p, f)
                  /\ q.pairwise[f[1]][f[2]] = p.pairwise[f[1]][f[2]]
              BY <4>1, <5>2, RaisedVictories
            <6> QED
              BY <4>2, <6>1
          <5> QED
            BY <5>1, <5>2
        <4>4. Stronger(q, f, e)
          BY <3>1, <4>1, <4>3, StaysStronger
        <4> QED
          BY <4>1, <4>4
      <3> HIDE DEF U, W
      <3>5. Leads(q, W, e[2], e[1])
        BY <1>5, <3>3, <3>4, LeadsFurther
      <3> QED
        BY <3>2, <3>5 DEF W
    <2>3. CASE e[1] # w /\ e[2] # w
      <3>1. /\ e \in Victories(p) /\ Margin(q, e) = Margin(p, e)
            /\ q.pairwise[e[1]][e[2]] = p.pairwise[e[1]][e[2]]
            /\ Margin(p, e) \in Int /\ p.pairwise[e[1]][e[2]] \in Int
        BY <1>1, <2>3, RaisedVictories, VictoryFacts
      <3>2. e \in M <=> e \in L
        BY <1>8, <2>3
      <3>3. ASSUME NEW f \in L, f[1] # w
            PROVE  Stronger(p, f, e) <=> Stronger(q, f, e)
        <4>1. /\ f \in Victories(p) /\ f[2] # w /\ f \in p.options \X p.options
          BY <1>1, <1>2
        <4>2. /\ f \in Victories(q) /\ Margin(q, f) = Margin(p, f)
              /\ q.pairwise[f[1]][f[2]] = p.pairwise[f[1]][f[2]]
              /\ Margin(p, f) \in Int /\ p.pairwise[f[1]][f[2]] \in Int
          BY <3>3, <4>1, RaisedVictories, VictoryFacts
        <4>3. q.priority = p.priority
          BY DEF Raised
        <4>4. Outranks(p, f, e) <=> Outranks(q, f, e)
          BY <3>1, <4>2, <4>3 DEF Outranks
        <4> QED
          BY <3>1, <4>1, <4>2, <4>4, StrongerIsOutranking
      <3>4. /\ \A f \in U : f[2] # w /\ (f[1] # w => f \in W)
            /\ \A f \in W : f[2] # w /\ (f[1] # w => f \in U)
        BY <1>4, <1>8, <3>3
      <3>5. e \in L <=> ~Leads(p, U, e[2], e[1])
        BY <3>1 DEF Settled
      <3> HIDE DEF U, W
      <3>6. Leads(p, U, e[2], e[1]) <=> Leads(p, W, e[2], e[1])
        BY <2>3, <3>4, LeadsAround
      <3> QED
        BY <1>5, <3>2, <3>5, <3>6 DEF W
    <2> QED
      BY <2>1, <2>2, <2>3
  <1> QED
    BY <1>4, <1>9 DEF Settled, M

-----------------------------------------------------------------------------
(* Majority judgment                                                       *)

Histograms == [Ratings -> Nat]

(* The weight of the grades up to r.                                       *)
UpToGrade(h, r) == SumFunctionOnSet(h, 0 .. r)

(* The weights up to a grade grow with it.                                 *)
LEMMA GradeSums ==
    ASSUME NEW h \in Histograms
    PROVE  /\ \A r \in Ratings : UpToGrade(h, r) \in Nat
           /\ \A r, s \in Ratings : r <= s => UpToGrade(h, r) <= UpToGrade(h, s)
           /\ Weight(h) \in Nat
           /\ UpToGrade(h, TopRating) = Weight(h)
           /\ UpToGrade(h, 0) = h[0]
           /\ \A r \in Ratings : r # 0 => UpToGrade(h, r) = UpToGrade(h, r - 1) + h[r]
  <1>1. TopRating \in Nat /\ IsFiniteSet(Ratings) /\ \A r \in Ratings : h[r] \in Nat /\ h[r] \in Int
    <2>1. TopRating \in Nat /\ 0 \in Int /\ TopRating \in Int
      BY RatingAssumption
    <2>2. IsFiniteSet(Ratings)
      BY <2>1, FS_Interval DEF Ratings
    <2>3. \A r \in Ratings : h[r] \in Nat /\ h[r] \in Int
      BY DEF Histograms
    <2> QED
      BY <2>1, <2>2, <2>3
  <1>2. \A r \in Ratings : 0 .. r \in SUBSET Ratings /\ IsFiniteSet(0 .. r)
    BY <1>1, FS_Subset DEF Ratings
  <1>3. \A r \in Ratings : UpToGrade(h, r) \in Nat
    BY <1>1, <1>2, SumIsNatural DEF UpToGrade
  <1>4. ASSUME NEW r \in Ratings, NEW s \in Ratings, r <= s
        PROVE  UpToGrade(h, r) <= UpToGrade(h, s)
    <2>1. 0 .. r \in SUBSET (0 .. s)
      BY <1>1, <1>4 DEF Ratings
    <2>2. \A x \in 0 .. s : h[x] \in Nat
      BY <1>1, <1>2
    <2> QED
      BY <1>2, <2>1, <2>2, SumShrinks DEF UpToGrade
  <1>5. Weight(h) = UpToGrade(h, TopRating) /\ TopRating \in Ratings /\ 0 \in Ratings
    BY <1>1 DEF Weight, UpToGrade, Ratings
  <1>6. UpToGrade(h, 0) = h[0]
    <2>1. 0 .. 0 = {} \union {0} /\ {} \in SUBSET Ratings /\ 0 \in Ratings \ {}
      BY <1>5
    <2>2. \A s \in SUBSET Ratings : \A x \in Ratings \ s :
              SumFunctionOnSet(h, s \union {x}) = h[x] + SumFunctionOnSet(h, s)
      BY <1>1, SumGrows
    <2>3. SumFunctionOnSet(h, {} \union {0}) = h[0] + SumFunctionOnSet(h, {})
      BY <2>1, <2>2
    <2>4. h[0] \in Nat /\ SumFunctionOnSet(h, {}) = 0
      BY <1>1, <1>5, SumOfNothing
    <2> QED
      BY <2>1, <2>3, <2>4 DEF UpToGrade
  <1>7. ASSUME NEW r \in Ratings, r # 0
        PROVE  UpToGrade(h, r) = UpToGrade(h, r - 1) + h[r]
    <2>1. r - 1 \in Ratings /\ 0 .. r = (0 .. (r - 1)) \union {r} /\ r \notin 0 .. (r - 1)
      BY <1>1, <1>7 DEF Ratings
    <2>2. 0 .. (r - 1) \in SUBSET Ratings
      BY <1>2, <2>1
    <2>3. \A s \in SUBSET Ratings : \A x \in Ratings \ s :
              SumFunctionOnSet(h, s \union {x}) = h[x] + SumFunctionOnSet(h, s)
      BY <1>1, SumGrows
    <2>4. SumFunctionOnSet(h, (0 .. (r - 1)) \union {r}) = h[r] + SumFunctionOnSet(h, 0 .. (r - 1))
      BY <2>1, <2>2, <2>3
    <2>5. UpToGrade(h, r - 1) \in Nat /\ h[r] \in Nat
      BY <1>1, <1>3, <2>1
    <2>6. UpToGrade(h, r) = h[r] + UpToGrade(h, r - 1)
      BY <2>1, <2>4 DEF UpToGrade
    <2> QED
      BY <2>5, <2>6
  <1> QED
    BY <1>3, <1>4, <1>5, <1>6, <1>7

(* The n-th grade is the one up to which there are n.                      *)
LEMMA GradeMeans ==
    ASSUME NEW h \in Histograms, NEW n \in 0 .. Weight(h)
    PROVE  /\ GradeAt(h, n) \in Ratings
           /\ \A r \in Ratings : UpToGrade(h, r) >= n <=> GradeAt(h, n) <= r
  <1> DEFINE G == {r \in Ratings : UpToGrade(h, r) >= n}
  <1>1. G # {} /\ G \in SUBSET Nat
    BY GradeSums, RatingAssumption DEF Ratings
  <1>2. GradeAt(h, n) = Min(G)
    BY DEF GradeAt, UpToGrade
  <1>3. Min(G) \in G /\ \A r \in G : Min(G) <= r
    <2> HIDE DEF G
    <2> QED
      BY <1>1, LeastElement DEF Min
  <1>4. ASSUME NEW r \in Ratings, Min(G) <= r PROVE UpToGrade(h, r) >= n
    <2>1. Min(G) \in Ratings /\ UpToGrade(h, Min(G)) >= n
      BY <1>3
    <2>2. UpToGrade(h, Min(G)) <= UpToGrade(h, r) /\ UpToGrade(h, r) \in Nat /\ UpToGrade(h, Min(G)) \in Nat
      BY <1>4, <2>1, GradeSums
    <2> QED
      BY <2>1, <2>2
  <1> QED
    BY <1>2, <1>3, <1>4

(* Only one grade is up to there.                                          *)
LEMMA GradeUnique ==
    ASSUME NEW h \in Histograms, NEW n \in 0 .. Weight(h), NEW g \in Ratings,
           \A r \in Ratings : UpToGrade(h, r) >= n <=> g <= r
    PROVE  GradeAt(h, n) = g
  <1>1. GradeAt(h, n) \in Ratings /\ g <= GradeAt(h, n) /\ GradeAt(h, n) <= g
    <2>1. GradeAt(h, n) \in Int /\ g \in Int
      BY GradeMeans, RatingAssumption DEF Ratings
    <2> QED
      BY <2>1, GradeMeans
  <1> QED
    BY <1>1, RatingAssumption DEF Ratings

(* What a change at one grade does to the weight up to another.            *)
LEMMA OneGradeLess ==
    ASSUME NEW h \in Histograms, NEW l \in Histograms, NEW g \in Ratings,
           \A r \in Ratings \ {g} : l[r] = h[r], NEW r \in Ratings
    PROVE  UpToGrade(l, r) = IF g <= r THEN UpToGrade(h, r) + (l[g] - h[g]) ELSE UpToGrade(h, r)
  <1> DEFINE S == 0 .. r
  <1>1. r \in Int /\ 0 \in Int /\ g \in Nat /\ S \subseteq Ratings /\ (g \in S <=> g <= r)
    BY RatingAssumption DEF Ratings
  <1>2. IsFiniteSet(S)
    BY <1>1, FS_Interval
  <1> HIDE DEF S
  <1>3. \A s \in S : h[s] \in Int /\ l[s] \in Int
    BY <1>1 DEF Histograms
  <1>4. \A s \in S \ {g} : l[s] = h[s]
    BY <1>1
  <1>5. CASE g <= r
    <2>1. SumFunctionOnSet(l, S) = SumFunctionOnSet(h, S) + (l[g] - h[g])
      <3>1. g \in S
        BY <1>1, <1>5
      <3> QED
        BY <1>2, <1>3, <1>4, <3>1, SumUpdates
    <2> QED
      BY <1>5, <2>1 DEF UpToGrade, S
  <1>6. CASE ~(g <= r)
    <2>1. \A s \in S : h[s] \in Int /\ l[s] = h[s]
      BY <1>1, <1>3, <1>4, <1>6
    <2>2. SumFunctionOnSet(l, S) = SumFunctionOnSet(h, S)
      BY <1>2, <2>1, SumsAlike
    <2> QED
      BY <1>6, <2>2 DEF UpToGrade, S
  <1> QED
    BY <1>5, <1>6

(* h without the grade in place k.                                         *)
Taken(h, k) == [h EXCEPT ![GradeAt(h, k)] = @ - 1]

(* Taking the k-th grade away moves the later ones down by one place.      *)
LEMMA GradeTaken ==
    ASSUME NEW h \in Histograms, NEW k \in 1 .. Weight(h)
    PROVE  /\ Taken(h, k) \in Histograms /\ Weight(Taken(h, k)) = Weight(h) - 1
           /\ \A n \in 1 .. Weight(h) - 1 :
                  GradeAt(Taken(h, k), n) = GradeAt(h, IF n < k THEN n ELSE n + 1)
  <1> DEFINE g == GradeAt(h, k)
             l == Taken(h, k)
  <1>0. l = [h EXCEPT ![g] = @ - 1]
    BY DEF Taken
  <1>9. g = GradeAt(h, k)
    OBVIOUS
  <1> HIDE DEF g, l
  <1>1. /\ k \in 0 .. Weight(h) /\ g \in Ratings /\ Weight(h) \in Nat /\ TopRating \in Nat
        /\ \A r \in Ratings : UpToGrade(h, r) >= k <=> g <= r
    BY <1>9, GradeMeans, GradeSums, RatingAssumption
  <1>2. h[g] \in Nat /\ h[g] >= 1
    <2>1. h[g] \in Nat
      BY <1>1 DEF Histograms
    <2>2. CASE g = 0
      BY <1>1, <2>1, <2>2, GradeSums
    <2>3. CASE g # 0
      <3>1. g - 1 \in Ratings /\ ~(g <= g - 1)
        BY <1>1, <2>3 DEF Ratings
      <3>2. ~(UpToGrade(h, g - 1) >= k) /\ UpToGrade(h, g) >= k
        <4>1. g <= g
          BY <1>1 DEF Ratings
        <4> QED
          BY <1>1, <3>1, <4>1
      <3>3. UpToGrade(h, g) = UpToGrade(h, g - 1) + h[g] /\ UpToGrade(h, g - 1) \in Nat
        BY <1>1, <2>3, <3>1, GradeSums
      <3> QED
        BY <1>1, <2>1, <3>2, <3>3
    <2> QED
      BY <2>2, <2>3
  <1>3. l \in Histograms /\ l[g] = h[g] - 1 /\ \A r \in Ratings \ {g} : l[r] = h[r]
    BY <1>0, <1>1, <1>2 DEF Histograms
  <1>4. ASSUME NEW r \in Ratings
        PROVE  UpToGrade(l, r) = IF g <= r THEN UpToGrade(h, r) - 1 ELSE UpToGrade(h, r)
    <2>1. UpToGrade(l, r) =
              IF g <= r THEN UpToGrade(h, r) + (l[g] - h[g]) ELSE UpToGrade(h, r)
      BY <1>1, <1>3, OneGradeLess
    <2>2. l[g] - h[g] = -1 /\ UpToGrade(h, r) \in Nat
      BY <1>2, <1>3, GradeSums
    <2> QED
      BY <2>1, <2>2
  <1>5. Weight(l) = Weight(h) - 1
    <2>1. TopRating \in Ratings /\ g <= TopRating
      BY <1>1 DEF Ratings
    <2>2. UpToGrade(l, TopRating) = UpToGrade(h, TopRating) - 1
      BY <1>4, <2>1
    <2> QED
      BY <1>3, <2>2, GradeSums
  <1>6. ASSUME NEW n \in 1 .. Weight(h) - 1
        PROVE  GradeAt(l, n) = GradeAt(h, IF n < k THEN n ELSE n + 1)
    <2> DEFINE m == IF n < k THEN n ELSE n + 1
    <2>1. m \in 0 .. Weight(h) /\ n \in 0 .. Weight(l)
      BY <1>1, <1>5
    <2>2. \A r \in Ratings : UpToGrade(h, r) >= m <=> GradeAt(h, m) <= r
      <3> HIDE DEF m
      <3> QED
        BY <2>1, GradeMeans
    <2>3. ASSUME NEW r \in Ratings PROVE UpToGrade(l, r) >= n <=> UpToGrade(h, r) >= m
      <3>1. UpToGrade(h, r) \in Nat /\ n \in Nat /\ k \in Nat
        BY <1>1, GradeSums
      <3>2. UpToGrade(h, r) >= k <=> g <= r
        BY <1>1
      <3>3. UpToGrade(l, r) = IF g <= r THEN UpToGrade(h, r) - 1 ELSE UpToGrade(h, r)
        BY <1>4
      <3>4. CASE g <= r
        BY <3>1, <3>2, <3>3, <3>4
      <3>5. CASE ~(g <= r)
        BY <3>1, <3>2, <3>3, <3>5
      <3> QED
        BY <3>4, <3>5
    <2>4. GradeAt(h, m) \in Ratings
      <3> HIDE DEF m
      <3> QED
        BY <2>1, GradeMeans
    <2> HIDE DEF m
    <2>5. GradeAt(l, n) = GradeAt(h, m)
      BY <1>3, <2>1, <2>2, <2>3, <2>4, GradeUnique
    <2> QED
      BY <2>5 DEF m
  <1> QED
    BY <1>3, <1>5, <1>6 DEF l

-----------------------------------------------------------------------------
(* The place, among all grades in order, of the n-th that removal takes.   *)
TakenPlace(all, n) ==
    IF (all - n + 1) % 2 = 0 THEN (all - n + 1) \div 2 ELSE (all + n) \div 2

Removed(h) == [h EXCEPT ![_lower_median(h)] = @ - 1]

(* Which of the original grades is in place m after n removals.            *)
LEMMA GradesLeft ==
    ASSUME NEW h \in Histograms, NEW left,
           left = [n \in 0 .. Weight(h) |-> IF n = 0 THEN h ELSE Removed(left[n - 1])]
    PROVE  \A n \in 0 .. Weight(h) :
               /\ left[n] \in Histograms /\ Weight(left[n]) = Weight(h) - n
               /\ \A m \in 1 .. Weight(h) - n :
                      GradeAt(left[n], m) =
                          GradeAt(h, IF m <= (Weight(h) - n) \div 2 THEN m ELSE m + n)
  <1> DEFINE all == Weight(h)
             Kept(n) ==
               /\ left[n] \in Histograms /\ Weight(left[n]) = all - n
               /\ \A m \in 1 .. all - n :
                      GradeAt(left[n], m) =
                          GradeAt(h, IF m <= (all - n) \div 2 THEN m ELSE m + n)
             N == {n \in Nat : n \in 0 .. all => Kept(n)}
  <1>1. all \in Nat
    BY GradeSums
  <1> HIDE DEF all
  <1>2. 0 \in N
    <2>1. left[0] = h
      BY <1>1 DEF all
    <2> QED
      BY <1>1, <2>1 DEF all
  <1>3. ASSUME NEW n \in Nat, n \in N PROVE n + 1 \in N
    <2> SUFFICES ASSUME n + 1 \in 0 .. all PROVE Kept(n + 1)
      OBVIOUS
    <2>1. Kept(n) /\ n \in 0 .. all /\ n + 1 <= all
      BY <1>1, <1>3
    <2> DEFINE l == left[n]
               k == (all - n + 1) \div 2
    <2>2. l \in Histograms /\ Weight(l) = all - n
      BY <2>1
    <2>3. left[n + 1] = Removed(l)
      BY <1>1, <2>1 DEF all
    <2>4. k \in 1 .. Weight(l)
      BY <1>1, <2>1, <2>2
    <2>5. _lower_median(l) = GradeAt(l, k)
      BY <2>2 DEF _lower_median
    <2> HIDE DEF k
    <2>6. /\ Removed(l) \in Histograms /\ Weight(Removed(l)) = Weight(l) - 1
          /\ \A m \in 1 .. Weight(l) - 1 :
                GradeAt(Removed(l), m) = GradeAt(l, IF m < k THEN m ELSE m + 1)
      <3>1. Removed(l) = Taken(l, k)
        BY <2>5 DEF Removed, Taken
      <3> HIDE DEF l
      <3> QED
        BY <2>2, <2>4, <3>1, GradeTaken
    <2>7. ASSUME NEW m \in 1 .. all - (n + 1)
          PROVE  GradeAt(left[n + 1], m) =
                     GradeAt(h, IF m <= (all - (n + 1)) \div 2 THEN m ELSE m + (n + 1))
      <3>1. GradeAt(left[n + 1], m) = GradeAt(l, IF m < k THEN m ELSE m + 1)
        BY <1>1, <2>2, <2>3, <2>6
      <3>2. m < k <=> m <= (all - (n + 1)) \div 2
        BY <1>1, <2>1 DEF k
      <3>3. CASE m < k
        <4>1. m \in 1 .. all - n /\ m <= (all - n) \div 2
          BY <1>1, <2>1, <3>3 DEF k
        <4>2. GradeAt(l, m) = GradeAt(h, m)
          BY <2>1, <4>1
        <4> QED
          BY <3>1, <3>2, <3>3, <4>2
      <3>4. CASE ~(m < k)
        <4>1. m + 1 \in 1 .. all - n /\ ~(m + 1 <= (all - n) \div 2)
          BY <1>1, <2>1, <3>4 DEF k
        <4>2. GradeAt(l, m + 1) = GradeAt(h, (m + 1) + n)
          BY <2>1, <4>1
        <4>3. (m + 1) + n = m + (n + 1)
          OBVIOUS
        <4> QED
          BY <3>1, <3>2, <3>4, <4>2, <4>3
      <3> QED
        BY <3>3, <3>4
    <2>8. Weight(left[n + 1]) = all - (n + 1)
      BY <1>1, <2>2, <2>3, <2>6
    <2> QED
      BY <2>3, <2>6, <2>7, <2>8
  <1> HIDE DEF N
  <1>4. \A n \in Nat : n \in N
    BY <1>2, <1>3, NaturalInduction
  <1>5. \A n \in 0 .. all : Kept(n)
    <2>1. \A n \in 0 .. all : n \in Nat
      BY <1>1
    <2> HIDE DEF Kept
    <2> QED
      BY <1>4, <2>1 DEF N
  <1> QED
    BY <1>5 DEF all

(* So the n-th grade taken has a place among the original ones.            *)
LEMMA GradesTaken ==
    ASSUME NEW h \in Histograms, NEW left,
           left = [n \in 0 .. Weight(h) |-> IF n = 0 THEN h ELSE Removed(left[n - 1])]
    PROVE  \A n \in 1 .. Weight(h) :
               _lower_median(left[n - 1]) = GradeAt(h, TakenPlace(Weight(h), n))
  <1> SUFFICES ASSUME NEW n \in 1 .. Weight(h)
               PROVE  _lower_median(left[n - 1]) = GradeAt(h, TakenPlace(Weight(h), n))
    OBVIOUS
  <1> DEFINE all == Weight(h)
             m == (all - n + 2) \div 2
  <1>1. all \in Nat
    BY GradeSums
  <1>2. n - 1 \in 0 .. all /\ n \in 1 .. all
    BY <1>1
  <1>3. /\ Weight(left[n - 1]) = all - (n - 1)
        /\ \A i \in 1 .. all - (n - 1) :
              GradeAt(left[n - 1], i) =
                  GradeAt(h, IF i <= (all - (n - 1)) \div 2 THEN i ELSE i + (n - 1))
    BY <1>2, GradesLeft
  <1> HIDE DEF all
  <1>4. _lower_median(left[n - 1]) = GradeAt(left[n - 1], m)
    <2>1. Weight(left[n - 1]) + 1 = all - n + 2
      BY <1>1, <1>2, <1>3
    <2> QED
      BY <2>1 DEF _lower_median
  <1>5. m \in 1 .. all - (n - 1)
    BY <1>1, <1>2
  <1>6. (IF m <= (all - (n - 1)) \div 2 THEN m ELSE m + (n - 1)) = TakenPlace(all, n)
    BY <1>1, <1>2 DEF TakenPlace
  <1> HIDE DEF m
  <1> QED
    BY <1>3, <1>4, <1>5, <1>6 DEF all

-----------------------------------------------------------------------------
(* The best of some sequences, by their first n entries.                   *)
Worse(s, t, n) == \E i \in 1 .. n : s[i] < t[i] /\ \A j \in 1 .. i - 1 : s[j] = t[j]

Best(pool, grades, n) ==
    {o \in pool : \A q \in pool : ~Worse(grades[o], grades[q], n)}

Graded(pool, grades, all) ==
    /\ IsFiniteSet(pool) /\ pool # {} /\ all \in Nat
    /\ \A o \in pool : \A n \in 1 .. all : grades[o][n] \in Int

(* The best agree on what they were compared by.                           *)
LEMMA BestAgree ==
    ASSUME NEW pool, NEW grades, NEW all, Graded(pool, grades, all), NEW n \in 0 .. all,
           NEW o \in Best(pool, grades, n), NEW q \in Best(pool, grades, n)
    PROVE  \A k \in 1 .. n : grades[o][k] = grades[q][k]
  <1> DEFINE D == {k \in 1 .. n : grades[o][k] # grades[q][k]}
  <1>1. o \in pool /\ q \in pool /\ all \in Nat
    BY DEF Best, Graded
  <1>2. \A k \in 1 .. n : k \in Nat /\ grades[o][k] \in Int /\ grades[q][k] \in Int
    BY <1>1 DEF Graded
  <1>3. ASSUME D # {} PROVE FALSE
    <2>1. D \in SUBSET Nat
      BY <1>2
    <2> HIDE DEF D
    <2>2. PICK k \in D : \A j \in D : k <= j
      BY <1>3, <2>1, LeastElement
    <2>3. k \in 1 .. n /\ grades[o][k] # grades[q][k]
      BY <2>2 DEF D
    <2>4. \A j \in 1 .. k - 1 : j \in 1 .. n /\ ~(k <= j)
      BY <1>1, <2>3
    <2>5. \A j \in 1 .. k - 1 : grades[o][j] = grades[q][j]
      BY <2>2, <2>4 DEF D
    <2>6. grades[o][k] < grades[q][k] \/ grades[q][k] < grades[o][k]
      BY <1>2, <2>3
    <2>7. Worse(grades[o], grades[q], n) \/ Worse(grades[q], grades[o], n)
      BY <2>3, <2>5, <2>6 DEF Worse
    <2> QED
      BY <1>1, <2>7 DEF Best
  <1> QED
    BY <1>3

(* One entry more: the leaders among the best so far.                      *)
LEMMA BestNext ==
    ASSUME NEW pool, NEW grades, NEW all, Graded(pool, grades, all),
           NEW n \in 0 .. all - 1, NEW value,
           \A o \in Best(pool, grades, n) : value[o] = grades[o][n + 1]
    PROVE  Best(pool, grades, n + 1) = Leaders(Best(pool, grades, n), value)
  <1> DEFINE B == Best(pool, grades, n)
  <1>1. /\ all \in Nat /\ n \in 0 .. all /\ n + 1 \in 1 .. all /\ n \in Nat
        /\ (n + 1) - 1 = n /\ \A i \in 1 .. n : i \in 1 .. n + 1
        /\ \A i \in 1 .. n + 1 : i = n + 1 \/ i \in 1 .. n
    BY DEF Graded
  <1>2. B \subseteq pool
    BY DEF Best
  <1>3. \A o \in B : \A q \in B : \A k \in 1 .. n : grades[o][k] = grades[q][k]
    BY <1>1, BestAgree
  <1>4. \A o \in B : value[o] = grades[o][n + 1] /\ value[o] \in Int
    BY <1>1, <1>2 DEF Graded
  <1>5. ASSUME NEW o \in Best(pool, grades, n + 1), NEW q \in B
        PROVE  o \in B /\ value[q] <= value[o]
    <2>1. o \in pool /\ \A r \in pool : ~Worse(grades[o], grades[r], n + 1)
      BY DEF Best
    <2>2. \A r \in pool : ~Worse(grades[o], grades[r], n)
      BY <1>1, <2>1 DEF Worse
    <2>3. o \in B
      BY <2>1, <2>2 DEF Best
    <2>4. ~(grades[o][n + 1] < grades[q][n + 1])
      <3>1. ~Worse(grades[o], grades[q], n + 1)
        BY <1>2, <2>1
      <3>2. n + 1 \in 1 .. n + 1 /\ \A j \in 1 .. (n + 1) - 1 : grades[o][j] = grades[q][j]
        BY <1>1, <1>3, <2>3
      <3> QED
        BY <3>1, <3>2 DEF Worse
    <2> QED
      BY <1>4, <2>3, <2>4
  <1>6. ASSUME NEW o \in B, \A q \in B : value[q] <= value[o],
               NEW q \in pool, Worse(grades[o], grades[q], n + 1)
        PROVE  FALSE
    <2>1. PICK i \in 1 .. n + 1 : /\ grades[o][i] < grades[q][i]
                                  /\ \A j \in 1 .. i - 1 : grades[o][j] = grades[q][j]
      BY <1>6 DEF Worse
    <2>2. i \notin 1 .. n
      BY <1>2, <1>6, <2>1 DEF Best, Worse
    <2>3. i = n + 1 /\ \A j \in 1 .. n : grades[o][j] = grades[q][j]
      BY <1>1, <2>1, <2>2
    <2>4. q \in B
      <3>1. ASSUME NEW r \in pool, Worse(grades[q], grades[r], n) PROVE FALSE
        <4>1. PICK k \in 1 .. n : /\ grades[q][k] < grades[r][k]
                                  /\ \A j \in 1 .. k - 1 : grades[q][j] = grades[r][j]
          BY <3>1 DEF Worse
        <4>2. \A j \in 1 .. k - 1 : j \in 1 .. n
          BY <1>1, <4>1
        <4>3. Worse(grades[o], grades[r], n)
          BY <2>3, <4>1, <4>2 DEF Worse
        <4> QED
          BY <1>6, <4>3 DEF Best
      <3> QED
        BY <3>1 DEF Best
    <2>5. value[o] < value[q] /\ value[q] <= value[o] /\ value[o] \in Int /\ value[q] \in Int
      BY <1>4, <1>6, <2>1, <2>3, <2>4
    <2> QED
      BY <2>5
  <1>7. Leaders(B, value) \subseteq Best(pool, grades, n + 1)
    <2>1. \A o \in Leaders(B, value) : o \in B /\ \A q \in B : value[q] <= value[o]
      BY DEF Leaders
    <2> HIDE DEF B
    <2>2. \A o \in Leaders(B, value) : o \in pool /\ \A q \in pool : ~Worse(grades[o], grades[q], n + 1)
      BY <1>2, <1>6, <2>1
    <2> QED
      BY <2>2 DEF Best
  <1>8. Best(pool, grades, n + 1) \subseteq Leaders(B, value)
    <2>1. ASSUME NEW o \in Best(pool, grades, n + 1) PROVE o \in B
      BY <1>1 DEF Best, Worse
    <2> HIDE DEF B
    <2> QED
      BY <1>5, <2>1 DEF Leaders
  <1> QED
    BY <1>7, <1>8

(* Somebody is best.                                                       *)
LEMMA BestExists ==
    ASSUME NEW pool, NEW grades, NEW all, Graded(pool, grades, all)
    PROVE  /\ \A n \in 0 .. all : Best(pool, grades, n) # {} /\ Best(pool, grades, n) \subseteq pool
           /\ Best(pool, grades, 0) = pool
  <1> DEFINE N == {n \in Nat : n <= all => Best(pool, grades, n) # {}}
  <1>1. all \in Nat /\ IsFiniteSet(pool) /\ pool # {}
    BY DEF Graded
  <1>2. Best(pool, grades, 0) = pool
    BY DEF Best, Worse
  <1>3. 0 \in N
    BY <1>1, <1>2
  <1>4. ASSUME NEW n \in Nat, n \in N PROVE n + 1 \in N
    <2> SUFFICES ASSUME n + 1 <= all PROVE Best(pool, grades, n + 1) # {}
      OBVIOUS
    <2> DEFINE B == Best(pool, grades, n)
               value == [o \in B |-> grades[o][n + 1]]
    <2>1. n \in 0 .. all - 1 /\ n + 1 \in 1 .. all /\ n <= all
      BY <1>1
    <2>2. B # {} /\ B \subseteq pool
      BY <1>4, <2>1 DEF Best
    <2>3. IsFiniteSet(B)
      BY <1>1, <2>2, FS_Subset
    <2>4. \A o \in B : value[o] = grades[o][n + 1] /\ value[o] \in Int
      BY <2>1, <2>2 DEF Graded
    <2> HIDE DEF value
    <2>5. Best(pool, grades, n + 1) = Leaders(B, value)
      BY <2>1, <2>4, BestNext
    <2>6. PICK o \in B : \A q \in B : value[q] <= value[o]
      <3> HIDE DEF B
      <3> QED
        BY <2>2, <2>3, <2>4, GreatestExists
    <2> QED
      BY <2>5, <2>6 DEF Leaders
  <1> HIDE DEF N
  <1>5. \A n \in Nat : n \in N
    BY <1>3, <1>4, NaturalInduction
  <1>6. \A n \in 0 .. all : n \in Nat /\ n <= all
    BY <1>1
  <1> QED
    BY <1>2, <1>5, <1>6 DEF N, Best

(* Where the best agree for a while they stay the best.                    *)
LEMMA BestStays ==
    ASSUME NEW pool, NEW grades, NEW all, Graded(pool, grades, all),
           NEW m \in 0 .. all, NEW n \in 0 .. all, m <= n,
           \A k \in m + 1 .. n : \A o \in Best(pool, grades, m) : \A q \in Best(pool, grades, m) :
               grades[o][k] = grades[q][k]
    PROVE  Best(pool, grades, n) = Best(pool, grades, m)
  <1> DEFINE B == Best(pool, grades, m)
             N == {d \in Nat : m + d <= n => Best(pool, grades, m + d) = B}
  <1>1. all \in Nat /\ m \in Nat /\ n \in Nat
    BY DEF Graded
  <1>2. 0 \in N
    BY <1>1
  <1>3. ASSUME NEW d \in Nat, d \in N PROVE d + 1 \in N
    <2> SUFFICES ASSUME m + (d + 1) <= n PROVE Best(pool, grades, m + (d + 1)) = B
      OBVIOUS
    <2> DEFINE e == m + d
               value == [o \in B |-> grades[o][e + 1]]
    <2>1. e \in 0 .. all - 1 /\ e + 1 \in m + 1 .. n /\ e + 1 = m + (d + 1) /\ e + 1 \in 1 .. all /\ e <= n
      BY <1>1
    <2>2. Best(pool, grades, e) = B
      BY <1>3, <2>1
    <2> HIDE DEF e
    <2>3. \A o \in B : value[o] = grades[o][e + 1]
      OBVIOUS
    <2> HIDE DEF value
    <2>4. Best(pool, grades, e + 1) = Leaders(B, value)
      BY <2>1, <2>2, <2>3, BestNext
    <2>5. \A o \in B : \A q \in B : value[q] = value[o] /\ value[o] \in Int
      <3>1. B \subseteq pool
        BY DEF Best
      <3> QED
        BY <2>1, <2>3, <3>1 DEF Graded
    <2>6. \A o \in B : \A q \in B : value[q] <= value[o]
      <3> HIDE DEF B
      <3> QED
        BY <2>5
    <2>7. Leaders(B, value) = B
      BY <2>6 DEF Leaders
    <2> QED
      BY <2>1, <2>4, <2>7
  <1> HIDE DEF N
  <1>4. \A d \in Nat : d \in N
    BY <1>2, <1>3, NaturalInduction
  <1>5. n - m \in Nat /\ m + (n - m) = n /\ n <= n
    BY <1>1
  <1> QED
    BY <1>4, <1>5 DEF N

-----------------------------------------------------------------------------
(* Grades in pairs, after the first one of an odd number.                  *)
Paired(pool, grades, pairs, half, all) ==
    /\ Graded(pool, grades, all) /\ half \in Nat /\ (all = 2 * half \/ all = 2 * half + 1)
    /\ \A o \in pool :
           /\ Len(pairs[o]) = half
           /\ \A i \in 1 .. half :
                  /\ pairs[o][i][1] = grades[o][2 * i - 1 + (all - 2 * half)]
                  /\ pairs[o][i][2] = grades[o][2 * i + (all - 2 * half)]
                  /\ pairs[o][i] = <<pairs[o][i][1], pairs[o][i][2]>>

(* The n pairs from i on are equal.                                        *)
Steady(s, i, n) == \A j \in i .. i + n - 1 : s[j] = s[i]

(* A run reaches at least its first pair and at most the last one.         *)
LEMMA RunFacts ==
    ASSUME NEW s, NEW half \in Nat, Len(s) = half, NEW i \in 1 .. half
    PROVE  /\ Run(s, i) \in 1 .. half - i + 1
           /\ \A j \in i .. i + Run(s, i) - 1 : s[j] = s[i]
  <1> DEFINE S == {n \in 1 .. half - i + 1 : \A j \in i .. i + n - 1 : s[j] = s[i]}
             key == [n \in S |-> n]
  <1>1. 1 \in S
    <2>1. 1 \in 1 .. half - i + 1 /\ \A j \in i .. i + 1 - 1 : j = i
      OBVIOUS
    <2> QED
      BY <2>1
  <1>2. IsFiniteSet(S) /\ \A n \in S : n \in Int
    <2>1. half - i + 1 \in Int /\ 1 \in Int
      OBVIOUS
    <2>2. IsFiniteSet(1 .. half - i + 1)
      BY <2>1, FS_Interval
    <2> QED
      BY <2>2, FS_Subset
  <1>3. Run(s, i) = Max(S)
    BY DEF Run
  <1>4. Max(S) \in S
    <2>1. \A n \in S : key[n] = n
      OBVIOUS
    <2> HIDE DEF S, key
    <2>2. \A n \in S : key[n] \in Int
      BY <1>2, <2>1
    <2>3. PICK x \in S : \A y \in S : key[y] <= key[x]
      BY <1>1, <1>2, <2>2, GreatestExists
    <2>4. \A y \in S : x >= y
      BY <1>2, <2>1, <2>3
    <2> QED
      BY <2>3, <2>4 DEF Max
  <1> QED
    BY <1>3, <1>4

(* Nobody in A has another pair before the jump ends.                      *)
LEMMA JumpFacts ==
    ASSUME NEW pairs, NEW A, A # {}, NEW half \in Nat, \A o \in A : Len(pairs[o]) = half,
           NEW i \in 1 .. half, NEW d, d = Jump(pairs, A, i)
    PROVE  /\ d \in 1 .. half - i + 1
           /\ \A o \in A : Steady(pairs[o], i, d)
  <1> DEFINE T == {Run(pairs[o], i) : o \in A}
  <1>1. \A o \in A : /\ Run(pairs[o], i) \in 1 .. half - i + 1
                     /\ \A j \in i .. i + Run(pairs[o], i) - 1 : pairs[o][j] = pairs[o][i]
    BY RunFacts
  <1>2. T \in SUBSET Nat /\ T # {} /\ \A t \in T : t \in 1 .. half - i + 1
    BY <1>1
  <1>3. d = Min(T)
    BY DEF Jump
  <1>4. d \in T /\ \A t \in T : d <= t
    <2> HIDE DEF T
    <2> QED
      BY <1>2, <1>3, LeastTotal
  <1>5. ASSUME NEW o \in A, NEW j \in i .. i + d - 1 PROVE pairs[o][j] = pairs[o][i]
    <2>1. Run(pairs[o], i) \in 1 .. half - i + 1 /\ d <= Run(pairs[o], i) /\ d \in 1 .. half - i + 1
      BY <1>1, <1>2, <1>4
    <2>2. j \in i .. i + Run(pairs[o], i) - 1
      BY <2>1
    <2> QED
      BY <1>1, <2>2
  <1>6. d \in 1 .. half - i + 1
    BY <1>2, <1>4
  <1> QED
    BY <1>5, <1>6 DEF Steady

(* The pool and the pair at which a removal of pairs is.                   *)
Spots(pool, half) == ((SUBSET pool) \ {{}}) \X (1 .. half + 1)

Lowest(pairs, s) == Leaders(s[1], [o \in s[1] |-> pairs[o][s[2]][1]])
Both(pairs, s) == Leaders(Lowest(pairs, s), [o \in Lowest(pairs, s) |-> pairs[o][s[2]][2]])

PairsStep(pairs, half, left, s) ==
    IF Cardinality(s[1]) = 1 \/ s[2] > half THEN s[1]
    ELSE IF Cardinality(Both(pairs, s)) = 1 THEN Both(pairs, s)
    ELSE left[<<Both(pairs, s), s[2] + Jump(pairs, Both(pairs, s), s[2])>>]

(* Somebody leads.                                                         *)
LEMMA LeadersExist ==
    ASSUME NEW S, IsFiniteSet(S), S # {}, NEW value, \A o \in S : value[o] \in Int
    PROVE  Leaders(S, value) # {} /\ Leaders(S, value) \subseteq S /\ IsFiniteSet(Leaders(S, value))
  <1>1. PICK o \in S : \A q \in S : value[q] <= value[o]
    BY GreatestExists
  <1>2. Leaders(S, value) \subseteq S
    BY DEF Leaders
  <1> QED
    BY <1>1, <1>2, FS_Subset DEF Leaders

(* The next spot is a later one.                                           *)
LEMMA SpotsFollow ==
    ASSUME NEW pool, NEW grades, NEW pairs, NEW half, NEW all,
           Paired(pool, grades, pairs, half, all),
           NEW s \in Spots(pool, half), s[2] <= half
    PROVE  /\ <<Both(pairs, s), s[2] + Jump(pairs, Both(pairs, s), s[2])>> \in Spots(pool, half)
           /\ Jump(pairs, Both(pairs, s), s[2]) \in Nat \ {0}
  <1> DEFINE A == s[1]
             i == s[2]
             v == [o \in A |-> pairs[o][i][1]]
             L == Lowest(pairs, s)
             w == [o \in L |-> pairs[o][i][2]]
             B == Both(pairs, s)
  <1>1. half \in Nat /\ IsFiniteSet(pool) /\ A \subseteq pool /\ A # {} /\ i \in 1 .. half
    BY DEF Paired, Graded, Spots
  <1>2. \A o \in pool : pairs[o][i][1] \in Int /\ pairs[o][i][2] \in Int
    <2>1. /\ 2 * i - 1 + (all - 2 * half) \in 1 .. all
          /\ 2 * i + (all - 2 * half) \in 1 .. all
      BY <1>1 DEF Paired
    <2> QED
      BY <1>1, <2>1 DEF Paired, Graded
  <1>3. L = Leaders(A, v) /\ B = Leaders(L, w)
    BY DEF Lowest, Both
  <1>4. IsFiniteSet(A) /\ \A o \in A : v[o] \in Int
    BY <1>1, <1>2, FS_Subset
  <1> HIDE DEF v, A, L, B
  <1>5. L # {} /\ L \subseteq A /\ IsFiniteSet(L)
    BY <1>1, <1>3, <1>4, LeadersExist
  <1>6. \A o \in L : w[o] \in Int
    BY <1>1, <1>2, <1>5
  <1> HIDE DEF w
  <1>7. B # {} /\ B \subseteq pool
    BY <1>1, <1>3, <1>5, <1>6, LeadersExist
  <1>8. \A o \in B : Len(pairs[o]) = half
    BY <1>7 DEF Paired
  <1>9. Jump(pairs, B, i) \in 1 .. half - i + 1
    BY <1>1, <1>7, <1>8, JumpFacts
  <1>10. i + Jump(pairs, B, i) \in 1 .. half + 1 /\ Jump(pairs, B, i) \in Nat \ {0}
    BY <1>1, <1>9
  <1> QED
    BY <1>7, <1>10 DEF Spots, B

(* The recursion over the spots is well defined.                           *)
LEMMA RemovalExists ==
    ASSUME NEW pool, NEW grades, NEW pairs, NEW half, NEW all,
           Paired(pool, grades, pairs, half, all)
    PROVE  \E left : left = [s \in Spots(pool, half) |-> PairsStep(pairs, half, left, s)]
  <1> DEFINE D == Spots(pool, half)
             Late(n) == {s \in D : half + 1 - s[2] <= n}
             N == {n \in Nat : \E g : g = [s \in Late(n) |-> PairsStep(pairs, half, g, s)]}
             After(s) == <<Both(pairs, s), s[2] + Jump(pairs, Both(pairs, s), s[2])>>
  <1>1. half \in Nat /\ \A s \in D : s[2] \in Nat /\ s[2] <= half + 1
    BY DEF Paired, Spots
  <1>2. ASSUME NEW s \in D, s[2] <= half
        PROVE  After(s) \in D /\ After(s)[2] > s[2]
    <2>1. After(s) \in D /\ Jump(pairs, Both(pairs, s), s[2]) \in Nat \ {0}
      BY <1>2, SpotsFollow
    <2> QED
      BY <1>1, <2>1
  <1> HIDE DEF D
  <1>3. 0 \in N
    <2> DEFINE g == [s \in Late(0) |-> s[1]]
    <2>1. ASSUME NEW s \in Late(0) PROVE PairsStep(pairs, half, g, s) = s[1]
      BY <1>1 DEF PairsStep
    <2>2. g = [s \in Late(0) |-> PairsStep(pairs, half, g, s)]
      BY <2>1
    <2> QED
      BY <2>2
  <1>4. ASSUME NEW n \in Nat, n \in N PROVE n + 1 \in N
    <2>1. PICK g : g = [s \in Late(n) |-> PairsStep(pairs, half, g, s)]
      BY <1>4
    <2> DEFINE h == [s \in Late(n + 1) |-> PairsStep(pairs, half, g, s)]
    <2>2. ASSUME NEW s \in Late(n + 1)
          PROVE  PairsStep(pairs, half, g, s) = PairsStep(pairs, half, h, s)
      <3>1. CASE s[2] > half
        BY <3>1 DEF PairsStep
      <3>2. CASE ~(s[2] > half)
        <4>1. s \in D /\ s[2] \in Nat /\ s[2] <= half /\ half + 1 - s[2] <= n + 1
          BY <1>1, <3>2
        <4>2. After(s) \in D /\ After(s)[2] > s[2] /\ After(s)[2] \in Nat
          BY <1>1, <1>2, <4>1
        <4> DEFINE t == After(s)
        <4>3. PairsStep(pairs, half, g, s) =
                 (IF Cardinality(s[1]) = 1 \/ s[2] > half THEN s[1]
                  ELSE IF Cardinality(Both(pairs, s)) = 1 THEN Both(pairs, s) ELSE g[t])
          BY DEF PairsStep
        <4>4. PairsStep(pairs, half, h, s) =
                 (IF Cardinality(s[1]) = 1 \/ s[2] > half THEN s[1]
                  ELSE IF Cardinality(Both(pairs, s)) = 1 THEN Both(pairs, s) ELSE h[t])
          BY DEF PairsStep
        <4> HIDE DEF t
        <4>5. t \in D /\ t[2] \in Nat /\ t[2] > s[2]
          BY <4>2 DEF t
        <4>6. t \in Late(n) /\ t \in Late(n + 1)
          BY <1>1, <4>1, <4>5
        <4> HIDE DEF Late
        <4>7. g[t] = h[t]
          BY <2>1, <4>6
        <4> HIDE DEF h
        <4> QED
          BY <4>3, <4>4, <4>7
      <3> QED
        BY <3>1, <3>2
    <2>3. h = [s \in Late(n + 1) |-> PairsStep(pairs, half, h, s)]
      BY <2>2
    <2>4. n + 1 \in Nat
      OBVIOUS
    <2> HIDE DEF h, Late
    <2> QED
      BY <2>3, <2>4
  <1> HIDE DEF N
  <1>5. half + 1 \in N
    BY <1>1, <1>3, <1>4, NaturalInduction
  <1>6. Late(half + 1) = D
    BY <1>1
  <1> QED
    BY <1>5, <1>6 DEF N, D

(* Wherever a removal of pairs stands, it has the best by all the grades   *)
(* it has seen, and it ends with the best by all grades.                   *)
LEMMA RemovalEnds ==
    ASSUME NEW pool, NEW grades, NEW pairs, NEW half, NEW all,
           Paired(pool, grades, pairs, half, all), NEW left,
           left = [s \in Spots(pool, half) |-> PairsStep(pairs, half, left, s)]
    PROVE  \A i \in 1 .. half + 1 : \A m \in 0 .. all :
               \/ m = 2 * (i - 1) + (all - 2 * half)
               \/ i = 1 /\ m = 1 /\ all = 2 * half
               => left[<<Best(pool, grades, m), i>>] = Best(pool, grades, all)
  <1> DEFINE c == all - 2 * half
             End == Best(pool, grades, all)
             Stands(i, m) == m = 2 * (i - 1) + c \/ (i = 1 /\ m = 1 /\ c = 0)
             Ends(i) == \A m \in 0 .. all :
                            Stands(i, m) => left[<<Best(pool, grades, m), i>>] = End
             N == {k \in Nat : \A i \in 1 .. half + 1 : half + 1 - i <= k => Ends(i)}
  <1>1. /\ half \in Nat /\ all \in Nat /\ c \in {0, 1} /\ all = 2 * half + c
        /\ Graded(pool, grades, all) /\ IsFiniteSet(pool)
    BY DEF Paired, Graded
  <1>2. \A m \in 0 .. all : Best(pool, grades, m) # {} /\ Best(pool, grades, m) \subseteq pool
    BY <1>1, BestExists
  <1>3. ASSUME NEW m \in 0 .. all, Cardinality(Best(pool, grades, m)) = 1
        PROVE  Best(pool, grades, m) = End
    <2>1. IsFiniteSet(Best(pool, grades, m))
      BY <1>1, <1>2, FS_Subset
    <2>2. \A o \in Best(pool, grades, m) : \A q \in Best(pool, grades, m) : o = q
      BY <1>3, <2>1, FS_Singleton
    <2>3. all \in 0 .. all /\ m <= all
      BY <1>1
    <2> QED
      BY <1>1, <2>2, <2>3, BestStays
  <1>4. ASSUME NEW i \in 1 .. half + 1, NEW m \in 0 .. all, Stands(i, m), i > half
        PROVE  m = all
    BY <1>1, <1>4
  <1> HIDE DEF c, End
  <1>5. ASSUME NEW i \in 1 .. half, NEW m \in 0 .. all, Stands(i, m),
               NEW s, s = <<Best(pool, grades, m), i>>
        PROVE  /\ s \in Spots(pool, half) /\ s[1] = Best(pool, grades, m) /\ s[2] = i
               /\ Both(pairs, s) = Best(pool, grades, 2 * i + c) /\ 2 * i + c \in 0 .. all
    <2> DEFINE A == Best(pool, grades, m)
               v == [o \in A |-> pairs[o][i][1]]
               L == Leaders(A, v)
               w == [o \in L |-> pairs[o][i][2]]
               e == 2 * i - 1 + c
    <2>1. s[1] = A /\ s[2] = i /\ A \subseteq pool /\ s \in Spots(pool, half)
      <3>1. A \in (SUBSET pool) \ {{}}
        BY <1>2
      <3>2. i \in 1 .. half + 1
        BY <1>1
      <3>3. s = <<A, i>>
        BY <1>5
      <3> HIDE DEF A
      <3> QED
        BY <3>1, <3>2, <3>3 DEF Spots
    <2>2. Both(pairs, s) = Leaders(L, w)
      BY <2>1 DEF Both, Lowest
    <2>3. \A o \in pool : pairs[o][i][1] = grades[o][e] /\ pairs[o][i][2] = grades[o][e + 1]
      <3>1. 2 * i + c = e + 1
        BY <1>1
      <3> QED
        BY <3>1 DEF Paired, c
    <2>4. e \in 1 .. all - 1 /\ e - 1 \in 0 .. all - 1 /\ (e - 1) + 1 = e /\ e \in 0 .. all
          /\ e + 1 = 2 * i + c /\ e + 1 \in 0 .. all
      BY <1>1
    <2>5. L = Best(pool, grades, e)
      <3>1. \A o \in A : v[o] = grades[o][e]
        BY <2>1, <2>3
      <3>2. CASE m = e - 1
        <4> HIDE DEF v, e
        <4> QED
          BY <1>1, <2>4, <3>1, <3>2, BestNext
      <3>3. CASE m = e
        <4>1. \A o \in A : \A q \in A : v[o] = v[q] /\ v[q] \in Int
          <5>1. \A o \in A : \A q \in A : grades[o][e] = grades[q][e] /\ grades[q][e] \in Int
            <6>1. e \in 1 .. m /\ e \in 1 .. all
              BY <2>4, <3>3
            <6> HIDE DEF e
            <6>2. \A o \in A : \A q \in A : grades[o][e] = grades[q][e]
              BY <1>1, <6>1, BestAgree
            <6> QED
              BY <1>1, <2>1, <6>1, <6>2 DEF Graded
          <5> HIDE DEF v, A, e
          <5> QED
            BY <3>1, <5>1
        <4> HIDE DEF v, A
        <4>2. L = A
          BY <4>1 DEF Leaders
        <4> QED
          BY <3>3, <4>2 DEF A
      <3>4. m = e - 1 \/ m = e
        BY <1>1, <1>5
      <3> QED
        BY <3>2, <3>3, <3>4
    <2>6. L \subseteq pool
      BY <2>1 DEF Leaders
    <2>7. \A o \in L : w[o] = grades[o][e + 1]
      BY <2>3, <2>6
    <2> HIDE DEF w, v, L, e
    <2>8. Leaders(L, w) = Best(pool, grades, e + 1)
      BY <1>1, <2>4, <2>5, <2>7, BestNext
    <2> QED
      BY <2>1, <2>2, <2>4, <2>8
  <1>6. ASSUME NEW i \in 1 .. half,
               NEW B, B = Best(pool, grades, 2 * i + c), NEW d, d = Jump(pairs, B, i)
        PROVE  /\ d \in Nat \ {0} /\ i + d \in 1 .. half + 1
               /\ 2 * ((i + d) - 1) + c \in 0 .. all
               /\ Best(pool, grades, 2 * ((i + d) - 1) + c) = B
    <2>1. 2 * i + c \in 0 .. all
      BY <1>1
    <2>2. B # {} /\ B \subseteq pool
      BY <1>2, <1>6, <2>1
    <2>3. \A o \in B : Len(pairs[o]) = half
      BY <2>2 DEF Paired
    <2>4. d \in 1 .. half - i + 1 /\ \A o \in B : Steady(pairs[o], i, d)
      <3>1. half \in Nat /\ d = Jump(pairs, B, i) /\ B # {}
        BY <1>1, <1>6, <2>2
      <3> QED
        BY <2>3, <3>1, JumpFacts
    <2> DEFINE n == 2 * ((i + d) - 1) + c
    <2>5. n \in 0 .. all /\ 2 * i + c <= n /\ i + d \in 1 .. half + 1 /\ d \in Nat \ {0}
      BY <1>1, <2>4
    <2>6. ASSUME NEW k \in (2 * i + c) + 1 .. n, NEW o \in B, NEW q \in B
          PROVE  grades[o][k] = grades[q][k]
      <3> DEFINE j == (k - c + 1) \div 2
      <3>1. j \in i .. i + d - 1 /\ j \in 1 .. half /\ (k = 2 * j - 1 + c \/ k = 2 * j + c)
        BY <1>1, <2>4
      <3>2. ASSUME NEW r \in {o, q}
            PROVE  /\ k = 2 * j - 1 + c => grades[r][k] = grades[r][2 * i - 1 + c]
                   /\ k = 2 * j + c => grades[r][k] = grades[r][2 * i + c]
        <4>1. r \in B /\ r \in pool
          BY <2>2, <3>2
        <4> HIDE DEF j
        <4>2. pairs[r][j] = pairs[r][i]
          BY <2>4, <3>1, <4>1 DEF Steady
        <4>3. \A x \in {i, j} : /\ pairs[r][x][1] = grades[r][2 * x - 1 + c]
                                /\ pairs[r][x][2] = grades[r][2 * x + c]
          <5>1. \A x \in {i, j} : x \in 1 .. half
            BY <3>1
          <5>2. \A x \in 1 .. half : /\ pairs[r][x][1] = grades[r][2 * x - 1 + c]
                                     /\ pairs[r][x][2] = grades[r][2 * x + c]
            BY <4>1 DEF Paired, c
          <5> QED
            BY <5>1, <5>2
        <4> QED
          BY <4>2, <4>3
      <3>3. /\ grades[o][2 * i - 1 + c] = grades[q][2 * i - 1 + c]
            /\ grades[o][2 * i + c] = grades[q][2 * i + c]
        <4>1. 2 * i - 1 + c \in 1 .. 2 * i + c /\ 2 * i + c \in 1 .. 2 * i + c
          BY <1>1
        <4>2. \A x \in 1 .. 2 * i + c : grades[o][x] = grades[q][x]
          BY <1>1, <1>6, <2>1, BestAgree
        <4> QED
          BY <4>1, <4>2
      <3> HIDE DEF j
      <3> QED
        BY <3>1, <3>2, <3>3
    <2> HIDE DEF n
    <2>7. Best(pool, grades, n) = B
      BY <1>1, <1>6, <2>1, <2>5, <2>6, BestStays
    <2> QED
      BY <2>5, <2>7 DEF n
  <1>7. 0 \in N
    <2>1. ASSUME NEW i \in 1 .. half + 1, half + 1 - i <= 0, NEW m \in 0 .. all, Stands(i, m)
          PROVE  left[<<Best(pool, grades, m), i>>] = End
      <3>1. i > half
        BY <1>1, <2>1
      <3>2. m = all
        BY <1>4, <2>1, <3>1
      <3> DEFINE s == <<Best(pool, grades, m), i>>
      <3>3. s \in Spots(pool, half) /\ s[1] = Best(pool, grades, m) /\ s[2] > half
        BY <1>2, <3>1 DEF Spots
      <3> HIDE DEF s
      <3>4. left[s] = s[1]
        BY <3>3 DEF PairsStep
      <3> QED
        BY <3>2, <3>3, <3>4 DEF s, End
    <2> QED
      BY <2>1
  <1>8. ASSUME NEW k \in Nat, k \in N PROVE k + 1 \in N
    <2>1. ASSUME NEW i \in 1 .. half + 1, half + 1 - i <= k + 1, NEW m \in 0 .. all, Stands(i, m)
          PROVE  left[<<Best(pool, grades, m), i>>] = End
      <3>1. CASE half + 1 - i <= k
        BY <1>8, <2>1, <3>1
      <3>2. CASE ~(half + 1 - i <= k)
        <4> DEFINE s == <<Best(pool, grades, m), i>>
                   B == Best(pool, grades, 2 * i + c)
                   d == Jump(pairs, B, i)
                   t == <<B, i + d>>
        <4>1. i \in 1 .. half
          BY <1>1, <3>2
        <4>2. /\ s \in Spots(pool, half) /\ s[1] = Best(pool, grades, m) /\ s[2] = i
              /\ Both(pairs, s) = B /\ 2 * i + c \in 0 .. all
          <5>1. s = <<Best(pool, grades, m), i>>
            OBVIOUS
          <5> HIDE DEF s
          <5> QED
            BY <1>5, <2>1, <4>1, <5>1
        <4> HIDE DEF s
        <4>3. left[s] = (IF Cardinality(s[1]) = 1 \/ s[2] > half THEN s[1]
                         ELSE IF Cardinality(B) = 1 THEN B ELSE left[t])
          BY <4>2 DEF PairsStep
        <4> HIDE DEF t
        <4>4. CASE Cardinality(s[1]) = 1
          <5>1. left[s] = s[1]
            BY <4>3, <4>4
          <5> QED
            BY <1>3, <4>2, <4>4, <5>1 DEF s
        <4>5. CASE Cardinality(s[1]) # 1 /\ Cardinality(B) = 1
          <5>1. left[s] = B
            BY <1>1, <4>1, <4>2, <4>3, <4>5
          <5>2. B = End
            BY <1>3, <4>2, <4>5
          <5> QED
            BY <5>1, <5>2 DEF s
        <4>6. CASE Cardinality(s[1]) # 1 /\ Cardinality(B) # 1
          <5>1. left[s] = left[t]
            BY <1>1, <4>1, <4>2, <4>3, <4>6
          <5>2. d = Jump(pairs, B, i) /\ B = Best(pool, grades, 2 * i + c)
            OBVIOUS
          <5> HIDE DEF B, d
          <5>3. /\ d \in Nat \ {0} /\ i + d \in 1 .. half + 1
                /\ 2 * ((i + d) - 1) + c \in 0 .. all
                /\ Best(pool, grades, 2 * ((i + d) - 1) + c) = B
            BY <1>6, <4>1, <5>2
          <5>4. half + 1 - (i + d) <= k
            BY <1>1, <2>1, <5>3
          <5>5. Ends(i + d)
            BY <1>8, <5>3, <5>4
          <5>6. left[<<B, i + d>>] = End
            BY <5>3, <5>5
          <5> QED
            BY <5>1, <5>6 DEF s, t
        <4> QED
          BY <4>4, <4>5, <4>6
      <3> QED
        BY <3>1, <3>2
    <2> QED
      BY <2>1
  <1> HIDE DEF N
  <1>9. half + 1 \in N
    BY <1>1, <1>7, <1>8, NaturalInduction
  <1>10. \A i \in 1 .. half + 1 : Ends(i)
    <2>1. \A i \in 1 .. half + 1 : half + 1 - i <= half + 1
      BY <1>1
    <2> HIDE DEF Ends
    <2> QED
      BY <1>9, <2>1 DEF N
  <1>11. \A m : c = 0 <=> all = 2 * half
    BY <1>1
  <1> QED
    BY <1>10, <1>11 DEF c, End

-----------------------------------------------------------------------------
(* The n-th grade that removal takes from o, and o's grades in pairs.      *)
GradesOf(h, pool, all) ==
    [o \in pool |-> [n \in 1 .. all |-> GradeAt(h[o], TakenPlace(all, n))]]

(* Pairs holds the grades in the order in which removal takes them.        *)
LEMMA PairsFacts ==
    ASSUME NEW pool, IsFiniteSet(pool), pool # {}, NEW all \in Nat, NEW h,
           \A o \in pool : h[o] \in Histograms /\ Weight(h[o]) = all,
           NEW half, half = all \div 2,
           NEW pairs, pairs = [o \in pool |-> Pairs(h[o], half, all)],
           NEW grades, grades = GradesOf(h, pool, all)
    PROVE  Paired(pool, grades, pairs, half, all)
  <1> DEFINE c == all - 2 * half
  <1>1. half \in Nat /\ c \in {0, 1} /\ all = 2 * half + c
    OBVIOUS
  <1>2. \A n \in 1 .. all : TakenPlace(all, n) \in 1 .. all
    BY DEF TakenPlace
  <1>3. ASSUME NEW o \in pool, NEW n \in 1 .. all
        PROVE  grades[o][n] = GradeAt(h[o], TakenPlace(all, n)) /\ grades[o][n] \in Int
    <2>1. grades[o][n] = GradeAt(h[o], TakenPlace(all, n))
      BY DEF GradesOf
    <2>2. TakenPlace(all, n) \in 0 .. Weight(h[o])
      BY <1>2
    <2>3. GradeAt(h[o], TakenPlace(all, n)) \in Ratings
      BY <2>2, GradeMeans
    <2> QED
      BY <2>1, <2>3, RatingAssumption DEF Ratings
  <1>4. ASSUME NEW o \in pool, NEW i \in 1 .. half
        PROVE  /\ pairs[o][i] = <<pairs[o][i][1], pairs[o][i][2]>>
               /\ pairs[o][i][1] = grades[o][2 * i - 1 + c]
               /\ pairs[o][i][2] = grades[o][2 * i + c]
    <2>1. pairs[o][i] = <<GradeAt(h[o], half + 1 - i), GradeAt(h[o], all - half + i)>>
      BY DEF Pairs
    <2> DEFINE x == 2 * i - 1 + c
               y == 2 * i + c
    <2>2. x \in 1 .. all /\ y \in 1 .. all
      BY <1>1
    <2>3. TakenPlace(all, x) = half + 1 - i /\ TakenPlace(all, y) = all - half + i
      <3>1. CASE c = 0
        BY <1>1, <3>1 DEF TakenPlace
      <3>2. CASE c = 1
        BY <1>1, <3>2 DEF TakenPlace
      <3> QED
        BY <1>1, <3>1, <3>2
    <2> HIDE DEF x, y
    <2>4. grades[o][x] = GradeAt(h[o], half + 1 - i) /\ grades[o][y] = GradeAt(h[o], all - half + i)
      BY <1>3, <2>2, <2>3
    <2> QED
      BY <2>1, <2>4 DEF x, y
  <1>5. ASSUME NEW o \in pool PROVE Len(pairs[o]) = half
    <2>1. pairs[o] = [i \in 1 .. half |->
                         <<GradeAt(h[o], half + 1 - i), GradeAt(h[o], all - half + i)>>]
      BY DEF Pairs
    <2> QED
      BY <1>1, <2>1
  <1>6. Graded(pool, grades, all)
    BY <1>3 DEF Graded
  <1>7. all = 2 * half \/ all = 2 * half + 1
    BY <1>1
  <1>8. \A o \in pool : \A i \in 1 .. half :
            /\ pairs[o][i][1] = grades[o][2 * i - 1 + (all - 2 * half)]
            /\ pairs[o][i][2] = grades[o][2 * i + (all - 2 * half)]
            /\ pairs[o][i] = <<pairs[o][i][1], pairs[o][i][2]>>
    BY <1>4
  <1> QED
    BY <1>1, <1>5, <1>6, <1>7, <1>8 DEF Paired

(* The jumps of majority judgment leave the best by all grades taken.      *)
LEMMA SurvivorsAreBest ==
    ASSUME NEW pool, IsFiniteSet(pool), pool # {}, NEW all \in Nat, NEW h,
           \A o \in pool : h[o] \in Histograms /\ Weight(h[o]) = all
    PROVE  Survivors(h, pool) = Best(pool, GradesOf(h, pool, all), all)
  <1> DEFINE half == all \div 2
             c == all - 2 * half
             pairs == [o \in pool |-> Pairs(h[o], half, all)]
             grades == GradesOf(h, pool, all)
             Obeys(g) == g = [s \in Spots(pool, half) |-> PairsStep(pairs, half, g, s)]
             left == CHOOSE g : Obeys(g)
             v == [o \in pool |-> _lower_median(h[o])]
             first == Leaders(pool, v)
  <1>1. Survivors(h, pool) = left[<<first, 1>>]
    <2>1. Weight(h[CHOOSE o \in pool : TRUE]) = all
      OBVIOUS
    <2> QED
      BY <2>1 DEF Survivors, Spots, PairsStep, Both, Lowest
  <1>2. Paired(pool, grades, pairs, half, all)
    <2>1. half = all \div 2 /\ pairs = [o \in pool |-> Pairs(h[o], half, all)]
          /\ grades = GradesOf(h, pool, all)
      OBVIOUS
    <2> HIDE DEF half, pairs, grades
    <2> QED
      BY <2>1, PairsFacts
  <1>3. half \in Nat /\ c \in {0, 1} /\ all = 2 * half + c
    OBVIOUS
  <1> HIDE DEF half, pairs
  <1>4. \E g : Obeys(g)
    BY <1>2, RemovalExists
  <1>5. Obeys(left)
    <2> HIDE DEF Obeys
    <2> QED
      BY <1>4
  <1> HIDE DEF left
  <1>6. \A i \in 1 .. half + 1 : \A m \in 0 .. all :
               \/ m = 2 * (i - 1) + (all - 2 * half)
               \/ i = 1 /\ m = 1 /\ all = 2 * half
               => left[<<Best(pool, grades, m), i>>] = Best(pool, grades, all)
    <2> HIDE DEF grades
    <2> QED
      BY <1>2, <1>5, RemovalEnds
  <1>7. Graded(pool, grades, all)
    BY <1>2 DEF Paired
  <1>8. CASE all = 0
    <2>1. \A o \in pool : v[o] = 0
      <3> SUFFICES ASSUME NEW o \in pool PROVE GradeAt(h[o], 0) = 0
        BY <1>8 DEF _lower_median
      <3>1. 0 \in 0 .. Weight(h[o]) /\ 0 \in Ratings
        BY <1>8, RatingAssumption DEF Ratings
      <3>2. GradeAt(h[o], 0) \in Ratings /\ (UpToGrade(h[o], 0) >= 0 <=> GradeAt(h[o], 0) <= 0)
        BY <3>1, GradeMeans
      <3>3. UpToGrade(h[o], 0) \in Nat
        BY <3>1, GradeSums
      <3> QED
        BY <3>2, <3>3, RatingAssumption DEF Ratings
    <2> HIDE DEF v
    <2>2. first = pool
      BY <2>1 DEF Leaders
    <2>3. pool = Best(pool, grades, 0)
      <3> HIDE DEF grades
      <3> QED
        BY <1>7, BestExists
    <2>4. 1 \in 1 .. half + 1 /\ 0 \in 0 .. all /\ 0 = 2 * (1 - 1) + (all - 2 * half)
      BY <1>3, <1>8
    <2> HIDE DEF first, grades
    <2>5. left[<<Best(pool, grades, 0), 1>>] = Best(pool, grades, all)
      BY <1>6, <2>4
    <2> QED
      BY <1>1, <2>2, <2>3, <2>5 DEF grades
  <1>9. CASE all # 0
    <2>1. \A o \in pool : v[o] = grades[o][1]
      <3> SUFFICES ASSUME NEW o \in pool PROVE GradeAt(h[o], (all + 1) \div 2) = grades[o][1]
        BY DEF _lower_median
      <3>1. TakenPlace(all, 1) = (all + 1) \div 2 /\ 1 \in 1 .. all
        BY <1>9 DEF TakenPlace
      <3> QED
        BY <3>1 DEF GradesOf
    <2> HIDE DEF v, grades
    <2>2. pool = Best(pool, grades, 0)
      BY <1>7, BestExists
    <2>3. first = Best(pool, grades, 1)
      <3>1. 0 \in 0 .. all - 1 /\ 0 + 1 = 1
        BY <1>9
      <3>2. Best(pool, grades, 0 + 1) = Leaders(pool, v)
        BY <1>7, <2>1, <2>2, <3>1, BestNext
      <3> QED
        BY <3>1, <3>2
    <2>4. /\ 1 \in 1 .. half + 1 /\ 1 \in 0 .. all
          /\ \/ 1 = 2 * (1 - 1) + (all - 2 * half)
             \/ 1 = 1 /\ 1 = 1 /\ all = 2 * half
      BY <1>3, <1>9
    <2> HIDE DEF first
    <2>5. left[<<Best(pool, grades, 1), 1>>] = Best(pool, grades, all)
      BY <1>6, <2>4
    <2> QED
      BY <1>1, <2>3, <2>5 DEF grades
  <1> QED
    BY <1>8, <1>9

(* The survivors are the best by whole grades.                             *)
LEMMA JudgedGrades ==
    ASSUME NEW pool, IsFiniteSet(pool), pool # {}, NEW all \in Nat, NEW h,
           \A o \in pool : h[o] \in Histograms /\ Weight(h[o]) = all
    PROVE  /\ Survivors(h, pool) = Best(pool, GradesOf(h, pool, all), all)
           /\ Graded(pool, GradesOf(h, pool, all), all)
           /\ Survivors(h, pool) # {} /\ Survivors(h, pool) \subseteq pool
  <1>1. Survivors(h, pool) = Best(pool, GradesOf(h, pool, all), all)
    BY SurvivorsAreBest
  <1>2. ASSUME NEW o \in pool, NEW n \in 1 .. all
        PROVE  GradesOf(h, pool, all)[o][n] \in Int
    <2>1. GradesOf(h, pool, all)[o][n] = GradeAt(h[o], TakenPlace(all, n))
      BY DEF GradesOf
    <2>2. TakenPlace(all, n) \in 0 .. Weight(h[o])
      <3>1. TakenPlace(all, n) \in 0 .. all
        BY DEF TakenPlace
      <3> QED
        BY <3>1
    <2>3. GradeAt(h[o], TakenPlace(all, n)) \in Ratings
      BY <2>2, GradeMeans
    <2> QED
      BY <2>1, <2>3, RatingAssumption DEF Ratings
  <1>3. Graded(pool, GradesOf(h, pool, all), all)
    BY <1>2 DEF Graded
  <1>4. all \in 0 .. all
    OBVIOUS
  <1> QED
    BY <1>1, <1>3, <1>4, BestExists

(* The histogram of an option is one, and it has the weight of all ballots.*)
LEMMA HistogramFacts ==
    ASSUME NEW V, IsFiniteSet(V), NEW weight, \A v \in V : weight[v] \in Nat,
           NEW given, \A v \in V : given[v] \in Ratings, NEW h,
           h = [r \in Ratings |-> SumFunctionOnSet(weight, {v \in V : given[v] = r})]
    PROVE  /\ h \in Histograms /\ Weight(h) = SumFunctionOnSet(weight, V)
           /\ \A r \in Ratings :
                  UpToGrade(h, r) = SumFunctionOnSet(weight, {v \in V : given[v] <= r})
  <1> DEFINE Total(U) == SumFunctionOnSet(weight, U)
             Within(r) == {v \in V : given[v] <= r}
             At(r) == {v \in V : given[v] = r}
             N == {n \in Nat : n \in Ratings => UpToGrade(h, n) = Total(Within(n))}
  <1>1. \A U \in SUBSET V : Total(U) \in Nat
    BY SumIsNatural
  <1>2. \A r \in Ratings : h[r] = Total(At(r))
    OBVIOUS
  <1>3. h \in Histograms
    BY <1>1 DEF Histograms
  <1>4. TopRating \in Nat /\ \A r \in Ratings : r \in Nat /\ r <= TopRating
    BY RatingAssumption DEF Ratings
  <1>5. 0 \in N
    <2>1. Within(0) = At(0)
      BY <1>4
    <2>2. 0 \in Ratings
      BY <1>4 DEF Ratings
    <2> HIDE DEF Within, At
    <2> QED
      BY <1>2, <1>3, <2>1, <2>2, GradeSums
  <1>6. ASSUME NEW n \in Nat, n \in N PROVE n + 1 \in N
    <2> SUFFICES ASSUME n + 1 \in Ratings PROVE UpToGrade(h, n + 1) = Total(Within(n + 1))
      OBVIOUS
    <2>1. n \in Ratings /\ n + 1 # 0 /\ (n + 1) - 1 = n
      BY <1>4 DEF Ratings
    <2>2. UpToGrade(h, n + 1) = UpToGrade(h, n) + h[n + 1]
      BY <1>3, <2>1, GradeSums
    <2>3. /\ Within(n) \subseteq Within(n + 1) /\ Within(n + 1) \subseteq V
          /\ Within(n + 1) \ Within(n) = At(n + 1)
      <3>1. \A v \in V : /\ given[v] <= n => given[v] <= n + 1
                         /\ given[v] <= n + 1 /\ ~(given[v] <= n) <=> given[v] = n + 1
        BY <1>4
      <3> QED
        BY <3>1
    <2>4. IsFiniteSet(Within(n + 1)) /\ \A v \in Within(n + 1) : weight[v] \in Int
      BY <2>3, FS_Subset
    <2>5. UpToGrade(h, n) = Total(Within(n))
      BY <1>6, <2>1
    <2> HIDE DEF Within, At
    <2>6. Total(Within(n + 1)) = Total(Within(n)) + Total(At(n + 1))
      BY <2>3, <2>4, SumOfParts
    <2> QED
      BY <1>2, <2>2, <2>5, <2>6
  <1>7. Within(TopRating) = V
    BY <1>4
  <1> HIDE DEF N, Within
  <1>8. \A n \in Nat : n \in N
    BY <1>5, <1>6, NaturalInduction
  <1>9. \A r \in Ratings : UpToGrade(h, r) = Total(Within(r))
    BY <1>4, <1>8 DEF N
  <1>10. UpToGrade(h, TopRating) = Total(V)
    <2>1. TopRating \in Ratings
      BY <1>4 DEF Ratings
    <2> QED
      BY <1>7, <1>9, <2>1
  <1>11. Weight(h) = Total(V)
    BY <1>3, <1>10, GradeSums
  <1> QED
    BY <1>3, <1>9, <1>11 DEF Within

(* Removing one median grade after another is well defined.                *)
LEMMA RemovalsExist ==
    ASSUME NEW h, NEW all \in Nat
    PROVE  \E left : left = [n \in 0 .. all |-> IF n = 0 THEN h ELSE Removed(left[n - 1])]
  <1> DEFINE Step(g, n) == IF n = 0 THEN h ELSE Removed(g[n - 1])
             N == {m \in Nat : \E g : g = [n \in 0 .. m |-> Step(g, n)]}
  <1>1. 0 \in N
    <2> DEFINE g == [n \in 0 .. 0 |-> h]
    <2>1. \A n \in 0 .. 0 : Step(g, n) = h
      OBVIOUS
    <2>2. g = [n \in 0 .. 0 |-> Step(g, n)]
      BY <2>1
    <2> QED
      BY <2>2
  <1>2. ASSUME NEW m \in Nat, m \in N PROVE m + 1 \in N
    <2>1. PICK g : g = [n \in 0 .. m |-> Step(g, n)]
      BY <1>2
    <2> DEFINE f == [n \in 0 .. m + 1 |-> Step(g, n)]
    <2>2. ASSUME NEW n \in 0 .. m + 1 PROVE Step(g, n) = Step(f, n)
      <3>1. CASE n = 0
        BY <3>1
      <3>2. CASE n # 0
        <4>1. n - 1 \in 0 .. m /\ n - 1 \in 0 .. m + 1
          BY <3>2
        <4>2. g[n - 1] = Step(g, n - 1)
          <5> HIDE DEF Step
          <5> QED
            BY <2>1, <4>1
        <4>3. f[n - 1] = Step(g, n - 1)
          <5> HIDE DEF Step
          <5> QED
            BY <4>1
        <4> QED
          BY <3>2, <4>2, <4>3
      <3> QED
        BY <3>1, <3>2
    <2>3. f = [n \in 0 .. m + 1 |-> Step(f, n)]
      <3> HIDE DEF Step
      <3> QED
        BY <2>2
    <2>4. m + 1 \in Nat
      OBVIOUS
    <2> HIDE DEF f, Step
    <2> QED
      BY <2>3, <2>4
  <1> HIDE DEF N
  <1>3. all \in N
    BY <1>1, <1>2, NaturalInduction
  <1> QED
    BY <1>3 DEF N

-----------------------------------------------------------------------------
(* Raising an option                                                       *)

(* Ranked pairs still elects a winner that is raised.                      *)
LEMMA RaisedIsRanked ==
    ASSUME NEW options, NEW rate, NEW weight, NEW priority, NEW given, NEW many,
           NEW p, p = _rated_totals(options, rate, weight, priority),
           NEW q, q = _rated_totals(options, given, many, priority),
           Compared(p), Compared(q), Untied(p),
           \A a, o \in options : p.pairwise[a][o] >= 0,
           NEW w \in count_ranked_pairs(p, 1), Raised(p, q, w)
    PROVE  w \in count_ranked_pairs(q, 1)
  <1>1. /\ p.options = options /\ q.options = options /\ q.priority = p.priority
        /\ w \in options /\ Untied(q)
    BY DEF Raised, _rated_totals, Untied
  <1>2. /\ w = First(Sources(p), p.priority) /\ w \in Sources(p)
        /\ \E a, b \in options : p.pairwise[a][b] > 0
    BY <1>1, OneIsElected
  <1>3. PICK g : /\ _ranked_pairs_graph(p) = g.locked /\ Settled(p, Victories(p), g.locked)
    BY GraphIsSound
  <1>4. PICK h : /\ _ranked_pairs_graph(q) = h.locked /\ Settled(q, Victories(q), h.locked)
    BY <1>1, GraphIsSound
  <1>5. \A e \in g.locked : e[2] # w
    BY <1>2, <1>3 DEF Sources
  <1> DEFINE M == {e \in g.locked : e[1] # w} \union {e \in Victories(q) : e[1] = w}
  <1>6. Settled(q, Victories(q), M)
    BY <1>3, <1>5, RaisedIsSettled
  <1>7. h.locked = M
    <2> HIDE DEF M
    <2> QED
      BY <1>4, <1>6, SettledIsUnique
  <1>8. \A e \in Victories(q) : e[1] = w => e[2] # w
    BY VictoryFacts
  <1>9. w \in Sources(q)
    BY <1>1, <1>4, <1>5, <1>7, <1>8 DEF Sources
  <1>10. Sources(q) \subseteq Sources(p)
    <2> SUFFICES ASSUME NEW o \in Sources(q), NEW e \in g.locked, e[2] = o PROVE FALSE
      BY <1>1, <1>3 DEF Sources
    <2>1. o \in options /\ \A f \in h.locked : f[2] # o
      BY <1>1, <1>4 DEF Sources
    <2>2. CASE e[1] = w
      <3>1. e \in Victories(p)
        BY <1>3 DEF Settled
      <3>2. e \in Victories(q)
        BY <2>2, <3>1, RaisedVictories
      <3> QED
        BY <1>7, <2>1, <2>2, <3>2
    <2>3. CASE e[1] # w
      BY <1>7, <2>1, <2>3
    <2> QED
      BY <2>2, <2>3
  <1>11. First(Sources(q), p.priority) = w
    <2>1. /\ IsFiniteSet(Sources(p)) /\ \A o \in Sources(p) : p.priority[o] \in Int
          /\ \A a, o \in Sources(p) : p.priority[a] = p.priority[o] => a = o
      BY FS_Subset DEF Compared, Untied, Sources
    <2> QED
      BY <1>2, <1>9, <1>10, <2>1, FirstStays
  <1>12. \E a, b \in options : q.pairwise[a][b] > 0
    <2>1. PICK a \in options, b \in options : p.pairwise[a][b] > 0
      BY <1>2
    <2>2. \A x, y \in options : p.pairwise[x][y] \in Int /\ q.pairwise[x][y] \in Int
      BY <1>1 DEF Compared
    <2>3. CASE a # w /\ b # w
      <3>1. q.pairwise[a][b] = p.pairwise[a][b]
        BY <1>1, <2>3 DEF Raised
      <3> QED
        BY <2>1, <3>1
    <2>4. ASSUME NEW o \in options, p.pairwise[w][o] > 0
          PROVE  \E x, y \in options : q.pairwise[x][y] > 0
      <3>1. q.pairwise[w][o] >= p.pairwise[w][o]
        BY <1>1 DEF Raised
      <3>2. q.pairwise[w][o] > 0
        BY <1>1, <2>2, <2>4, <3>1
      <3> QED
        BY <1>1, <3>2
    <2>5. CASE b = w /\ a # w
      <3> DEFINE e == <<a, w>>
      <3>1. e \in options \X options /\ e[1] = a /\ e[2] = w
        BY <1>1
      <3>2. CASE e \in Victories(p)
        <4>1. e \notin g.locked
          BY <1>5
        <4>2. Leads(p, {f \in g.locked : Stronger(p, f, e)}, w, a)
          BY <1>3, <3>1, <3>2, <4>1 DEF Settled
        <4>3. ~Closed(p, {f \in g.locked : Stronger(p, f, e)}, {w})
          BY <1>1, <2>5, <4>2 DEF Leads
        <4>4. PICK f \in g.locked : f[1] = w
          BY <4>3 DEF Closed
        <4>5. f \in Victories(p)
          BY <1>3 DEF Settled
        <4>6. f[2] \in options /\ p.pairwise[w][f[2]] - p.pairwise[f[2]][w] > 0
          BY <1>1, <4>4, <4>5 DEF Victories, Margin
        <4>7. p.pairwise[w][f[2]] > 0
          <5>1. p.pairwise[f[2]][w] >= 0
            BY <1>1, <4>6
          <5> QED
            BY <1>1, <2>2, <4>6, <5>1
        <4> QED
          BY <2>4, <4>6, <4>7
      <3>3. CASE e \notin Victories(p)
        <4>1. ~(p.pairwise[a][w] - p.pairwise[w][a] > 0)
          BY <1>1, <3>1, <3>3 DEF Victories, Margin
        <4>2. p.pairwise[w][a] > 0
          BY <1>1, <2>1, <2>2, <2>5, <4>1
        <4> QED
          BY <2>4, <4>2
      <3> QED
        BY <3>2, <3>3
    <2> QED
      BY <2>1, <2>3, <2>4, <2>5
  <1>13. \E a, b \in q.options : q.pairwise[a][b] > 0
    BY <1>1, <1>12
  <1>14. \A x : x \in count_ranked_pairs(q, 1) <=>
             /\ x = First(Sources(q), q.priority)
             /\ \E a, b \in q.options : q.pairwise[a][b] > 0
    BY OneIsElected
  <1> QED
    BY <1>1, <1>11, <1>13, <1>14

(* Score still elects a winner that is raised.                             *)
LEMMA RaisedIsScored ==
    ASSUME NEW p, NEW q, NEW w \in count_score(p, 1),
           q.options = p.options, q.priority = p.priority, IsFiniteSet(p.options),
           \A o \in p.options : p.score[o] \in Int /\ q.score[o] \in Int,
           \A o \in p.options : p.priority[o] \in Int,
           \A o \in p.options \ {w} : q.score[o] = p.score[o], q.score[w] >= p.score[w]
    PROVE  w \in count_score(q, 1)
  <1> DEFINE Before(r, a, b) ==
                 \/ r.score[a] > r.score[b]
                 \/ r.score[a] = r.score[b] /\ r.priority[a] < r.priority[b]
             Ahead(r, o) == {x \in Supported(r) : x # o /\ Before(r, x, o)}
  <1>1. \A r, o : o \in count_score(r, 1) <=> o \in Supported(r) /\ Cardinality(Ahead(r, o)) < 1
    BY DEF count_score, TopN
  <1>2. \A o : IsFiniteSet(Ahead(p, o)) /\ Ahead(p, o) \subseteq p.options
    BY FS_Subset DEF Supported
  <1>3. w \in Supported(p) /\ Ahead(p, w) = {}
    <2> HIDE DEF Ahead
    <2>1. Cardinality(Ahead(p, w)) \in Nat /\ Cardinality(Ahead(p, w)) < 1
      BY <1>1, <1>2, FS_CardinalityType
    <2> QED
      BY <1>1, <1>2, <2>1, FS_EmptySet
  <1>4. w \in p.options /\ p.score[w] > 0
    BY <1>3 DEF Supported
  <1>5. w \in Supported(q)
    BY <1>4 DEF Supported
  <1>6. Ahead(q, w) = {}
    <2> SUFFICES ASSUME NEW x \in Supported(q), x # w, Before(q, x, w) PROVE FALSE
      OBVIOUS
    <2>1. x \in p.options /\ q.score[x] > 0
      BY DEF Supported
    <2>2. q.score[x] = p.score[x]
      BY <2>1
    <2>3. x \in Supported(p)
      BY <2>1, <2>2 DEF Supported
    <2>4. Before(p, x, w)
      BY <1>4, <2>1, <2>2
    <2> QED
      BY <1>3, <2>3, <2>4
  <1> HIDE DEF Ahead
  <1> QED
    BY <1>1, <1>5, <1>6, FS_EmptySet

(* A sequence of grades that is nowhere worse is not worse than what the   *)
(* other is not worse than.                                                *)
LEMMA WorseShifts ==
    ASSUME NEW n \in Nat, NEW s, NEW t, \A i \in 1 .. n : s[i] \in Int /\ t[i] \in Int,
           \A i \in 1 .. n : s[i] <= t[i], NEW u, \A i \in 1 .. n : u[i] \in Int
    PROVE  /\ Worse(t, u, n) => Worse(s, u, n)
           /\ Worse(u, s, n) => Worse(u, t, n)
  <1> DEFINE D == {j \in 1 .. n : s[j] # t[j]}
  <1>2. D \in SUBSET Nat
    OBVIOUS
  <1>3. ASSUME NEW x, NEW y, NEW i \in 1 .. n, x[i] < y[i], \A j \in 1 .. i - 1 : x[j] = y[j]
        PROVE  Worse(x, y, n)
    BY <1>3 DEF Worse
  <1>4. ASSUME NEW m \in 1 .. n, s[m] # t[m], \A j \in 1 .. m - 1 : s[j] = t[j]
        PROVE  s[m] < t[m]
    BY <1>4
  <1>5. ASSUME NEW i \in 1 .. n, \E j \in 1 .. i - 1 : s[j] # t[j]
        PROVE  \E m \in 1 .. i - 1 : s[m] < t[m] /\ \A j \in 1 .. m - 1 : s[j] = t[j]
    <2>1. D # {}
      BY <1>5
    <2>2. PICK m \in D : \A j \in D : m <= j
      BY <1>2, <2>1, LeastElement
    <2>3. m \in 1 .. n /\ s[m] # t[m]
      OBVIOUS
    <2>4. \A j \in 1 .. m - 1 : s[j] = t[j]
      <3> SUFFICES ASSUME NEW j \in 1 .. m - 1, s[j] # t[j] PROVE FALSE
        OBVIOUS
      <3>1. j \in D /\ j < m
        BY <2>3
      <3> QED
        BY <2>2, <3>1
    <2>5. m \in 1 .. i - 1
      <3>1. PICK k \in 1 .. i - 1 : s[k] # t[k]
        BY <1>5
      <3>2. k \in D
        BY <3>1
      <3>3. m <= k
        BY <2>2, <3>2
      <3> QED
        BY <2>3, <3>1, <3>3
    <2> QED
      BY <1>4, <2>3, <2>4, <2>5
  <1>6. ASSUME Worse(t, u, n) PROVE Worse(s, u, n)
    <2>1. PICK i \in 1 .. n : t[i] < u[i] /\ \A j \in 1 .. i - 1 : t[j] = u[j]
      BY <1>6 DEF Worse
    <2>2. CASE \A j \in 1 .. i - 1 : s[j] = t[j]
      <3>1. s[i] < u[i]
        BY <2>1
      <3>2. \A j \in 1 .. i - 1 : s[j] = u[j]
        BY <2>1, <2>2
      <3> QED
        BY <1>3, <3>1, <3>2
    <2>3. CASE \E j \in 1 .. i - 1 : s[j] # t[j]
      <3>1. PICK m \in 1 .. i - 1 : s[m] < t[m] /\ \A j \in 1 .. m - 1 : s[j] = t[j]
        BY <1>5, <2>3
      <3>2. m \in 1 .. n /\ \A j \in 1 .. m - 1 : j \in 1 .. i - 1
        OBVIOUS
      <3>3. s[m] < u[m] /\ \A j \in 1 .. m - 1 : s[j] = u[j]
        BY <2>1, <3>1, <3>2
      <3> QED
        BY <1>3, <3>2, <3>3
    <2> QED
      BY <2>2, <2>3
  <1>7. ASSUME Worse(u, s, n) PROVE Worse(u, t, n)
    <2>1. PICK i \in 1 .. n : u[i] < s[i] /\ \A j \in 1 .. i - 1 : u[j] = s[j]
      BY <1>7 DEF Worse
    <2>2. CASE \A j \in 1 .. i - 1 : s[j] = t[j]
      <3>1. u[i] < t[i]
        BY <2>1
      <3>2. \A j \in 1 .. i - 1 : u[j] = t[j]
        BY <2>1, <2>2
      <3> QED
        BY <1>3, <3>1, <3>2
    <2>3. CASE \E j \in 1 .. i - 1 : s[j] # t[j]
      <3>1. PICK m \in 1 .. i - 1 : s[m] < t[m] /\ \A j \in 1 .. m - 1 : s[j] = t[j]
        BY <1>5, <2>3
      <3>2. m \in 1 .. n /\ \A j \in 1 .. m - 1 : j \in 1 .. i - 1
        OBVIOUS
      <3>3. u[m] < t[m] /\ \A j \in 1 .. m - 1 : u[j] = t[j]
        BY <2>1, <3>1, <3>2
      <3> QED
        BY <1>3, <3>2, <3>3
    <2> QED
      BY <2>2, <2>3
  <1> QED
    BY <1>6, <1>7

(* Some grade above the worst is given iff not all grades are the worst.   *)
LEMMA SomeGradeAbove ==
    ASSUME NEW h \in Histograms
    PROVE  (\E r \in Ratings \ {0} : h[r] > 0) <=> UpToGrade(h, 0) < Weight(h)
  <1>1. TopRating \in Nat /\ \A r \in Ratings : r \in Nat /\ r <= TopRating
    BY RatingAssumption DEF Ratings
  <1>2. 0 \in Ratings /\ TopRating \in Ratings
    BY <1>1 DEF Ratings
  <1>3. ASSUME NEW r \in Ratings \ {0} PROVE h[r] \in Nat
    BY DEF Histograms
  <1>4. ASSUME NEW r \in Ratings \ {0}
        PROVE  /\ r - 1 \in Ratings /\ UpToGrade(h, r) = UpToGrade(h, r - 1) + h[r]
               /\ UpToGrade(h, r) \in Nat /\ UpToGrade(h, r - 1) \in Nat
    <2>1. r \in Ratings /\ r - 1 \in Ratings /\ r # 0
      BY <1>1 DEF Ratings
    <2> QED
      BY <2>1, GradeSums
  <1>5. ASSUME NEW r \in Ratings \ {0}, h[r] > 0 PROVE UpToGrade(h, 0) < Weight(h)
    <2>1. /\ UpToGrade(h, 0) <= UpToGrade(h, r - 1) /\ UpToGrade(h, r) <= UpToGrade(h, TopRating)
          /\ UpToGrade(h, TopRating) = Weight(h)
          /\ UpToGrade(h, 0) \in Nat /\ Weight(h) \in Nat
      <3>1. r - 1 \in Ratings /\ r \in Ratings /\ 0 <= r - 1 /\ r <= TopRating
        BY <1>1, <1>4
      <3> QED
        BY <1>2, <3>1, GradeSums
    <2> QED
      BY <1>3, <1>4, <1>5, <2>1
  <1>6. ASSUME UpToGrade(h, 0) < Weight(h) PROVE \E r \in Ratings \ {0} : h[r] > 0
    <2> DEFINE n == Weight(h)
               r == GradeAt(h, n)
    <2>1. n \in 0 .. Weight(h) /\ n \in Nat
      BY GradeSums
    <2> HIDE DEF n
    <2>2. r \in Ratings /\ \A x \in Ratings : UpToGrade(h, x) >= n <=> r <= x
      BY <2>1, GradeMeans
    <2> HIDE DEF r
    <2>3. UpToGrade(h, 0) < n /\ UpToGrade(h, 0) \in Nat
      BY <1>2, <1>6, GradeSums DEF n
    <2>4. r # 0
      BY <1>2, <2>1, <2>2, <2>3
    <2>5. r - 1 \in Ratings /\ ~(r <= r - 1)
      BY <1>1, <1>4, <2>2, <2>4
    <2>6. UpToGrade(h, r) >= n /\ ~(UpToGrade(h, r - 1) >= n)
      BY <1>1, <2>2, <2>5
    <2>7. h[r] > 0
      BY <1>3, <1>4, <2>1, <2>2, <2>4, <2>6
    <2> QED
      BY <2>2, <2>4, <2>7
  <1> QED
    BY <1>5, <1>6

(* With less weight up to each grade, the grade in every place is as good. *)
LEMMA GradesImprove ==
    ASSUME NEW h \in Histograms, NEW k \in Histograms, Weight(k) = Weight(h),
           \A r \in Ratings : UpToGrade(k, r) <= UpToGrade(h, r),
           NEW n \in 0 .. Weight(h)
    PROVE  GradeAt(h, n) <= GradeAt(k, n)
  <1> DEFINE g == GradeAt(k, n)
  <1>1. g \in Ratings /\ \A r \in Ratings : UpToGrade(k, r) >= n <=> g <= r
    <2>1. n \in 0 .. Weight(k)
      OBVIOUS
    <2> QED
      BY <2>1, GradeMeans
  <1> HIDE DEF g
  <1>2. g \in Nat /\ UpToGrade(k, g) \in Nat /\ UpToGrade(h, g) \in Nat /\ n \in Nat
    <2>1. Weight(h) \in Nat
      BY GradeSums
    <2> QED
      BY <1>1, <2>1, GradeSums, RatingAssumption DEF Ratings
  <1>3. UpToGrade(k, g) >= n /\ UpToGrade(k, g) <= UpToGrade(h, g)
    BY <1>1, <1>2
  <1>4. UpToGrade(h, g) >= n
    BY <1>2, <1>3
  <1>5. GradeAt(h, n) <= g
    BY <1>1, <1>4, GradeMeans
  <1> QED
    BY <1>5 DEF g

(* Who is among the best stays so when its own grades improve, and nobody  *)
(* else comes in.                                                          *)
LEMMA BestImproves ==
    ASSUME NEW pool, NEW all, NEW s, Graded(pool, s, all), NEW t, Graded(pool, t, all),
           NEW w \in Best(pool, s, all), \A o \in pool \ {w} : t[o] = s[o],
           \A n \in 1 .. all : s[w][n] <= t[w][n]
    PROVE  w \in Best(pool, t, all) /\ Best(pool, t, all) \subseteq Best(pool, s, all)
  <1>1. all \in Nat /\ w \in pool /\ \A o \in pool : ~Worse(s[w], s[o], all)
    BY DEF Graded, Best
  <1>2. \A o \in pool : \A n \in 1 .. all : s[o][n] \in Int /\ t[o][n] \in Int
    BY DEF Graded
  <1>3. ASSUME NEW u, \A n \in 1 .. all : u[n] \in Int
        PROVE  /\ Worse(t[w], u, all) => Worse(s[w], u, all)
               /\ Worse(u, s[w], all) => Worse(u, t[w], all)
    <2> DEFINE x == s[w]
               y == t[w]
    <2>1. /\ \A n \in 1 .. all : x[n] \in Int /\ y[n] \in Int
          /\ \A n \in 1 .. all : x[n] <= y[n]
      BY <1>1, <1>2
    <2> HIDE DEF x, y
    <2>2. (Worse(y, u, all) => Worse(x, u, all)) /\ (Worse(u, x, all) => Worse(u, y, all))
      BY <1>1, <1>3, <2>1, WorseShifts
    <2> QED
      BY <2>2 DEF x, y
  <1>4. ~Worse(t[w], t[w], all)
    <2>1. \A n \in 1 .. all : ~(t[w][n] < t[w][n])
      BY <1>1, <1>2
    <2> QED
      BY <2>1 DEF Worse
  <1>5. ASSUME NEW o \in pool PROVE ~Worse(t[w], t[o], all)
    <2>1. CASE o = w
      BY <1>4, <2>1
    <2>2. CASE o # w
      BY <1>1, <1>2, <1>3, <2>2
    <2> QED
      BY <2>1, <2>2
  <1>6. ASSUME NEW o \in Best(pool, t, all) PROVE o \in Best(pool, s, all)
    <2>1. o \in pool /\ \A x \in pool : ~Worse(t[o], t[x], all)
      BY DEF Best
    <2>2. CASE o = w
      BY <2>2
    <2>3. CASE o # w
      <3>1. t[o] = s[o] /\ \A n \in 1 .. all : s[o][n] \in Int
        BY <1>2, <2>1, <2>3
      <3>2. ~Worse(s[o], s[w], all)
        <4>1. ~Worse(s[o], t[w], all)
          BY <1>1, <2>1, <3>1
        <4> QED
          BY <1>3, <3>1, <4>1
      <3>3. \A x \in pool \ {w} : ~Worse(s[o], s[x], all)
        BY <2>1, <3>1
      <3> QED
        BY <2>1, <3>2, <3>3 DEF Best
    <2> QED
      BY <2>2, <2>3
  <1> QED
    BY <1>1, <1>5, <1>6 DEF Best

(* Majority judgment still elects a winner that is raised.                 *)
LEMMA RaisedIsJudged ==
    ASSUME NEW p, NEW q, NEW w \in count_majority_judgment(p, 1),
           q.options = p.options, q.priority = p.priority, IsFiniteSet(p.options),
           \A o \in p.options : p.priority[o] \in Int, Untied(p), NEW all \in Nat,
           \A o \in p.options :
               /\ p.histogram[o] \in Histograms /\ Weight(p.histogram[o]) = all
               /\ q.histogram[o] \in Histograms /\ Weight(q.histogram[o]) = all,
           \A o \in p.options \ {w} : q.histogram[o] = p.histogram[o],
           \A r \in Ratings : UpToGrade(q.histogram[w], r) <= UpToGrade(p.histogram[w], r)
    PROVE  w \in count_majority_judgment(q, 1)
  <1> DEFINE options == p.options
             Above(h) == {o \in options : \E r \in Ratings \ {0} : h[o][r] > 0}
             h == p.histogram
             k == q.histogram
             s == GradesOf(h, options, all)
             t == GradesOf(k, options, all)
             Given(x) == Survivors(x, options)
  <1>1. /\ w = First(Given(h), p.priority) /\ Above(h) # {}
        /\ Above(k) # {} => count_majority_judgment(q, 1) = {First(Given(k), p.priority)}
    BY DEF count_majority_judgment, _mj_outcome
  <1>2. options # {} /\ IsFiniteSet(options)
    BY <1>1
  <1>3. ASSUME NEW x, \A o \in options : x[o] \in Histograms /\ Weight(x[o]) = all
        PROVE  /\ Given(x) = Best(options, GradesOf(x, options, all), all)
               /\ Graded(options, GradesOf(x, options, all), all)
    <2> HIDE DEF options
    <2> QED
      BY <1>2, <1>3, JudgedGrades
  <1> HIDE DEF Given
  <1>4. /\ Given(h) = Best(options, s, all) /\ Graded(options, s, all)
        /\ Given(k) = Best(options, t, all) /\ Graded(options, t, all)
    BY <1>3
  <1>5. w \in Given(h) /\ Given(h) \subseteq options /\ IsFiniteSet(Given(h))
    <2>1. Given(h) # {} /\ Given(h) \subseteq options
      <3> HIDE DEF options, s, t
      <3>1. all \in 0 .. all
        OBVIOUS
      <3> QED
        BY <1>4, <3>1, BestExists
    <2>2. IsFiniteSet(Given(h)) /\ \A o \in Given(h) : p.priority[o] \in Int
      BY <1>2, <2>1, FS_Subset
    <2> QED
      BY <1>1, <2>1, <2>2, FirstFacts
  <1>6. w \in options
    BY <1>5
  <1>7. \A o \in options \ {w} : t[o] = s[o]
    BY DEF GradesOf
  <1>8. ASSUME NEW n \in 1 .. all PROVE s[w][n] <= t[w][n]
    <2>1. TakenPlace(all, n) \in 0 .. Weight(h[w])
      <3>1. TakenPlace(all, n) \in 0 .. all
        BY DEF TakenPlace
      <3> QED
        BY <1>6, <3>1
    <2>2. GradeAt(h[w], TakenPlace(all, n)) <= GradeAt(k[w], TakenPlace(all, n))
      <3>1. Weight(k[w]) = Weight(h[w]) /\ h[w] \in Histograms /\ k[w] \in Histograms
        BY <1>6
      <3> QED
        BY <2>1, <3>1, GradesImprove
    <2> QED
      BY <1>6, <2>2 DEF GradesOf
  <1>9. w \in Given(k) /\ Given(k) \subseteq Given(h)
    <2>1. w \in Best(options, s, all)
      BY <1>4, <1>5
    <2> HIDE DEF options, s, t
    <2> QED
      BY <1>4, <1>7, <1>8, <2>1, BestImproves
  <1>10. First(Given(k), p.priority) = w
    <2>1. /\ \A o \in Given(h) : p.priority[o] \in Int
          /\ \A a, o \in Given(h) : p.priority[a] = p.priority[o] => a = o
      BY <1>5 DEF Untied
    <2> QED
      BY <1>1, <1>5, <1>9, <2>1, FirstStays
  <1>11. Above(k) # {}
    <2>1. PICK o \in options : \E r \in Ratings \ {0} : h[o][r] > 0
      BY <1>1
    <2>2. UpToGrade(h[o], 0) < all /\ UpToGrade(h[o], 0) \in Nat /\ 0 \in Ratings
      <3>1. 0 \in Ratings
        BY RatingAssumption DEF Ratings
      <3> QED
        BY <2>1, <3>1, SomeGradeAbove, GradeSums
    <2>3. UpToGrade(k[o], 0) < all
      <3>1. CASE o = w
        <4>1. UpToGrade(k[w], 0) <= UpToGrade(h[w], 0) /\ UpToGrade(k[w], 0) \in Nat
          BY <1>6, <2>2, GradeSums
        <4> QED
          BY <2>2, <3>1, <4>1
      <3>2. CASE o # w
        BY <2>1, <2>2, <3>2
      <3> QED
        BY <3>1, <3>2
    <2>4. \E r \in Ratings \ {0} : k[o][r] > 0
      BY <2>1, <2>3, SomeGradeAbove
    <2> QED
      BY <2>1, <2>4
  <1> QED
    BY <1>1, <1>10, <1>11

(* Two series of ballots with the same weights, alike but for voter x.     *)
Recast(V, weight, before, after, x) ==
    /\ IsFiniteSet(V) /\ DOMAIN weight = V /\ x \in V
    /\ \A v \in V : weight[v] \in Nat
    /\ \A v \in V \ {x} : after[v] = before[v]

(* If the voter of one ballot gives w more, its score grows and no other.  *)
LEMMA RaisedScores ==
    ASSUME NEW options, NEW V, NEW weight, NEW before, NEW after, NEW x, NEW priority,
           Recast(V, weight, before, after, x), NEW w \in options,
           \A v \in V : \A o \in options : before[v][o] \in Ratings /\ after[v][o] \in Ratings,
           \A o \in options \ {w} : after[x][o] = before[x][o], after[x][w] > before[x][w],
           NEW p, p = _rated_totals(options, before, weight, priority),
           NEW q, q = _rated_totals(options, after, weight, priority)
    PROVE  /\ \A o \in options : p.score[o] \in Int /\ q.score[o] \in Int
           /\ \A o \in options \ {w} : q.score[o] = p.score[o]
           /\ q.score[w] >= p.score[w]
  <1> DEFINE Given(rate, o) == [v \in V |-> weight[v] * rate[v][o]]
  <1>1. /\ IsFiniteSet(V) /\ DOMAIN weight = V /\ x \in V
        /\ \A v \in V : weight[v] \in Nat
        /\ \A v \in V \ {x} : after[v] = before[v]
    BY DEF Recast
  <1>2. /\ p.score = [o \in options |-> SumFunctionOnSet(Given(before, o), V)]
        /\ q.score = [o \in options |-> SumFunctionOnSet(Given(after, o), V)]
    BY <1>1 DEF _rated_totals
  <1>3. \A r \in Ratings : r \in Nat
    BY RatingAssumption DEF Ratings
  <1>4. ASSUME NEW o \in options, NEW v \in V
        PROVE  /\ Given(before, o)[v] = weight[v] * before[v][o]
               /\ Given(after, o)[v] = weight[v] * after[v][o]
               /\ Given(before, o)[v] \in Int /\ Given(after, o)[v] \in Int
    <2>1. weight[v] \in Nat /\ before[v][o] \in Nat /\ after[v][o] \in Nat
      BY <1>1, <1>3
    <2> QED
      BY <2>1
  <1> HIDE DEF Given
  <1>5. ASSUME NEW o \in options
        PROVE  SumFunctionOnSet(Given(before, o), V) \in Int
               /\ SumFunctionOnSet(Given(after, o), V) \in Int
    BY <1>1, <1>4, SumIsInteger
  <1>6. ASSUME NEW o \in options \ {w}
        PROVE  SumFunctionOnSet(Given(after, o), V) = SumFunctionOnSet(Given(before, o), V)
    <2>1. \A v \in V : after[v][o] = before[v][o]
      BY <1>1
    <2>2. \A v \in V : Given(before, o)[v] \in Int /\ Given(after, o)[v] = Given(before, o)[v]
      BY <1>4, <2>1
    <2> QED
      BY <1>1, <2>2, SumsAlike
  <1>7. SumFunctionOnSet(Given(after, w), V) >= SumFunctionOnSet(Given(before, w), V)
    <2> DEFINE f == Given(before, w)
               g == Given(after, w)
    <2>1. /\ \A v \in V : f[v] \in Int /\ g[v] \in Int
          /\ \A v \in V \ {x} : g[v] = f[v]
      BY <1>1, <1>4
    <2>2. g[x] >= f[x]
      <3>1. weight[x] \in Nat /\ before[x][w] \in Nat /\ after[x][w] \in Nat
        BY <1>1, <1>3
      <3>2. \A m, a, b \in Nat : b > a => m * b >= m * a
        OBVIOUS
      <3>3. weight[x] * after[x][w] >= weight[x] * before[x][w]
        BY <3>1, <3>2
      <3> QED
        BY <1>1, <1>4, <3>3
    <2> HIDE DEF f, g
    <2>3. SumFunctionOnSet(g, V) = SumFunctionOnSet(f, V) + (g[x] - f[x])
      BY <1>1, <2>1, SumUpdates
    <2>4. SumFunctionOnSet(f, V) \in Int
      BY <1>1, <2>1, SumIsInteger
    <2> QED
      BY <1>1, <2>1, <2>2, <2>3, <2>4 DEF f, g
  <1> QED
    BY <1>2, <1>5, <1>6, <1>7

(* Up to each grade there is then less weight for w, and as much for all   *)
(* others.                                                                 *)
LEMMA RaisedGrades ==
    ASSUME NEW options, NEW V, NEW weight, NEW before, NEW after, NEW x, NEW priority,
           Recast(V, weight, before, after, x), NEW w \in options,
           \A v \in V : \A o \in options : before[v][o] \in Ratings /\ after[v][o] \in Ratings,
           \A o \in options \ {w} : after[x][o] = before[x][o], after[x][w] > before[x][w],
           NEW p, p = _rated_totals(options, before, weight, priority),
           NEW q, q = _rated_totals(options, after, weight, priority)
    PROVE  /\ \A o \in options :
                  /\ p.histogram[o] \in Histograms
                  /\ Weight(p.histogram[o]) = SumFunctionOnSet(weight, V)
                  /\ q.histogram[o] \in Histograms
                  /\ Weight(q.histogram[o]) = SumFunctionOnSet(weight, V)
           /\ \A o \in options \ {w} : q.histogram[o] = p.histogram[o]
           /\ \A r \in Ratings : UpToGrade(q.histogram[w], r) <= UpToGrade(p.histogram[w], r)
  <1> DEFINE At(rate, o, r) == {v \in V : rate[v][o] = r}
             NoBetter(rate, o, r) == {v \in V : rate[v][o] <= r}
             Histogram(rate, o) == [r \in Ratings |-> SumFunctionOnSet(weight, At(rate, o, r))]
  <1>1. /\ IsFiniteSet(V) /\ DOMAIN weight = V /\ x \in V
        /\ \A v \in V : weight[v] \in Nat
        /\ \A v \in V \ {x} : after[v] = before[v]
    BY DEF Recast
  <1>2. /\ p.histogram = [o \in options |-> Histogram(before, o)]
        /\ q.histogram = [o \in options |-> Histogram(after, o)]
    BY <1>1 DEF _rated_totals
  <1>3. ASSUME NEW rate, NEW o \in options, \A v \in V : rate[v][o] \in Ratings
        PROVE  /\ Histogram(rate, o) \in Histograms
               /\ Weight(Histogram(rate, o)) = SumFunctionOnSet(weight, V)
               /\ \A r \in Ratings : UpToGrade(Histogram(rate, o), r) =
                                        SumFunctionOnSet(weight, NoBetter(rate, o, r))
    <2> DEFINE given == [v \in V |-> rate[v][o]]
               h == Histogram(rate, o)
    <2>1. \A v \in V : given[v] \in Ratings /\ given[v] = rate[v][o]
      BY <1>3
    <2>2. h = [r \in Ratings |-> SumFunctionOnSet(weight, {v \in V : given[v] = r})]
      <3>1. \A r : At(rate, o, r) = {v \in V : given[v] = r}
        BY <2>1
      <3> HIDE DEF given, At
      <3> QED
        BY <3>1
    <2>3. \A r : NoBetter(rate, o, r) = {v \in V : given[v] <= r}
      BY <2>1
    <2> HIDE DEF given, h, NoBetter
    <2>4. /\ h \in Histograms /\ Weight(h) = SumFunctionOnSet(weight, V)
          /\ \A r \in Ratings : UpToGrade(h, r) = SumFunctionOnSet(weight, {v \in V : given[v] <= r})
      BY <1>1, <2>1, <2>2, HistogramFacts
    <2> QED
      BY <2>3, <2>4 DEF h
  <1> HIDE DEF Histogram
  <1>4. ASSUME NEW o \in options \ {w} PROVE Histogram(after, o) = Histogram(before, o)
    <2>1. \A v \in V : after[v][o] = before[v][o]
      BY <1>1
    <2>2. \A r : At(after, o, r) = At(before, o, r)
      BY <2>1
    <2> HIDE DEF At
    <2> QED
      BY <2>2 DEF Histogram
  <1>5. ASSUME NEW r \in Ratings
        PROVE  SumFunctionOnSet(weight, NoBetter(after, w, r)) <=
                   SumFunctionOnSet(weight, NoBetter(before, w, r))
    <2>1. NoBetter(after, w, r) \in SUBSET NoBetter(before, w, r) /\ NoBetter(before, w, r) \in SUBSET V
      <3>1. \A v \in V : /\ before[v][w] \in Nat /\ after[v][w] \in Nat /\ r \in Nat
                         /\ before[v][w] <= after[v][w]
        BY <1>1, RatingAssumption DEF Ratings
      <3> QED
        BY <3>1
    <2> HIDE DEF NoBetter
    <2>2. IsFiniteSet(NoBetter(before, w, r)) /\ \A v \in NoBetter(before, w, r) : weight[v] \in Nat
      BY <1>1, <2>1, FS_Subset
    <2> QED
      BY <2>1, <2>2, SumShrinks
  <1> HIDE DEF NoBetter, At
  <1>6. ASSUME NEW o \in options
        PROVE  /\ Histogram(before, o) \in Histograms
               /\ Weight(Histogram(before, o)) = SumFunctionOnSet(weight, V)
               /\ Histogram(after, o) \in Histograms
               /\ Weight(Histogram(after, o)) = SumFunctionOnSet(weight, V)
    BY <1>3
  <1>7. ASSUME NEW r \in Ratings
        PROVE  UpToGrade(Histogram(after, w), r) <= UpToGrade(Histogram(before, w), r)
    <2>1. UpToGrade(Histogram(after, w), r) = SumFunctionOnSet(weight, NoBetter(after, w, r))
      BY <1>3
    <2>2. UpToGrade(Histogram(before, w), r) = SumFunctionOnSet(weight, NoBetter(before, w, r))
      BY <1>3
    <2> QED
      BY <1>5, <2>1, <2>2
  <1> QED
    BY <1>2, <1>4, <1>6, <1>7

(* If one ballot moves w up among the others, profiles compare it better.  *)
LEMMA RaisedRanks ==
    ASSUME NEW options, NEW V, NEW weight, NEW before, NEW after, NEW x, NEW priority,
           Recast(V, weight, before, after, x), NEW w \in options,
           \A v \in V : \A o \in options : before[v][o] \in Nat /\ after[v][o] \in Nat,
           \A a, o \in options \ {w} : before[x][a] < before[x][o] <=> after[x][a] < after[x][o],
           \A o \in options : /\ before[x][w] > before[x][o] => after[x][w] > after[x][o]
                              /\ before[x][w] = before[x][o] => after[x][w] >= after[x][o],
           NEW p, p = _rated_totals(options, before, weight, priority),
           NEW q, q = _rated_totals(options, after, weight, priority)
    PROVE  /\ Raised(p, q, w)
           /\ \A a, o \in options : p.pairwise[a][o] \in Nat /\ q.pairwise[a][o] \in Nat
  <1> DEFINE For(rate, a, o) == {v \in V : rate[v][a] > rate[v][o]}
             Power(U) == SumFunctionOnSet(weight, U)
  <1>1. /\ IsFiniteSet(V) /\ DOMAIN weight = V /\ x \in V
        /\ \A v \in V : weight[v] \in Nat
        /\ \A v \in V \ {x} : after[v] = before[v]
    BY DEF Recast
  <1>2. /\ p.pairwise = [a \in options |-> [o \in options |-> Power(For(before, a, o))]]
        /\ q.pairwise = [a \in options |-> [o \in options |-> Power(For(after, a, o))]]
        /\ p.options = options /\ q.options = options
        /\ p.priority = priority /\ q.priority = priority
    BY <1>1 DEF _rated_totals
  <1>3. ASSUME NEW U \in SUBSET V, NEW W \in SUBSET U PROVE Power(W) <= Power(U)
    <2>1. IsFiniteSet(U) /\ \A v \in U : weight[v] \in Nat
      BY <1>1, FS_Subset
    <2> QED
      BY <2>1, SumShrinks
  <1>4. \A U \in SUBSET V : Power(U) \in Nat
    BY <1>1, SumIsNatural
  <1>5. \A rate, a, o : For(rate, a, o) \in SUBSET V
    OBVIOUS
  <1>6. ASSUME NEW a \in options \ {w}, NEW o \in options \ {w}
        PROVE  For(after, a, o) = For(before, a, o)
    <2>1. \A v \in V : after[v][a] > after[v][o] <=> before[v][a] > before[v][o]
      <3> SUFFICES ASSUME NEW v \in V
                   PROVE  after[v][a] > after[v][o] <=> before[v][a] > before[v][o]
        OBVIOUS
      <3>1. CASE v = x
        <4>1. before[x][o] < before[x][a] <=> after[x][o] < after[x][a]
          OBVIOUS
        <4> QED
          BY <1>1, <3>1, <4>1
      <3>2. CASE v # x
        BY <1>1, <3>2
      <3> QED
        BY <3>1, <3>2
    <2> QED
      BY <2>1
  <1>7. ASSUME NEW o \in options
        PROVE  /\ For(before, w, o) \in SUBSET For(after, w, o)
               /\ For(after, o, w) \in SUBSET For(before, o, w)
    <2>1. \A v \in V : /\ before[v][w] > before[v][o] => after[v][w] > after[v][o]
                       /\ after[v][o] > after[v][w] => before[v][o] > before[v][w]
      <3> SUFFICES ASSUME NEW v \in V
                   PROVE  /\ before[v][w] > before[v][o] => after[v][w] > after[v][o]
                          /\ after[v][o] > after[v][w] => before[v][o] > before[v][w]
        OBVIOUS
      <3>1. CASE v = x
        <4>1. /\ before[x][w] > before[x][o] => after[x][w] > after[x][o]
              /\ before[x][w] = before[x][o] => after[x][w] >= after[x][o]
              /\ before[x][w] \in Nat /\ before[x][o] \in Nat
              /\ after[x][w] \in Nat /\ after[x][o] \in Nat
          BY <1>1
        <4> QED
          BY <3>1, <4>1
      <3>2. CASE v # x
        BY <1>1, <3>2
      <3> QED
        BY <3>1, <3>2
    <2> QED
      BY <2>1
  <1> HIDE DEF For, Power
  <1>8. \A a, o \in options : p.pairwise[a][o] \in Nat /\ q.pairwise[a][o] \in Nat
    BY <1>2, <1>4, <1>5
  <1>9. \A a, o \in options \ {w} : q.pairwise[a][o] = p.pairwise[a][o]
    BY <1>2, <1>6
  <1>10. ASSUME NEW o \in options
         PROVE  /\ q.pairwise[w][o] >= p.pairwise[w][o]
                /\ q.pairwise[o][w] <= p.pairwise[o][w]
    <2>1. /\ Power(For(before, w, o)) <= Power(For(after, w, o))
          /\ Power(For(after, o, w)) <= Power(For(before, o, w))
      BY <1>3, <1>5, <1>7
    <2>2. /\ q.pairwise[w][o] = Power(For(after, w, o)) /\ p.pairwise[w][o] = Power(For(before, w, o))
          /\ q.pairwise[o][w] = Power(For(after, o, w)) /\ p.pairwise[o][w] = Power(For(before, o, w))
      BY <1>2
    <2>3. /\ Power(For(before, w, o)) \in Nat /\ Power(For(after, w, o)) \in Nat
          /\ Power(For(after, o, w)) \in Nat /\ Power(For(before, o, w)) \in Nat
      BY <1>4, <1>5
    <2> QED
      BY <2>1, <2>2, <2>3
  <1> QED
    BY <1>2, <1>8, <1>9, <1>10 DEF Raised

-----------------------------------------------------------------------------
(* Seats                                                                   *)

(* One seat more goes to one of those who back is behind and who have none,*)
(* if there are any.                                                       *)
NextSeat(backed, before, after) ==
    \/ backed \subseteq before /\ after = before
    \/ \E o \in backed \ before : after = before \union {o}

AddUp(backed, seats) ==
    \A n \in 1 .. 3 : /\ n > 1 => seats[n - 1] \subseteq seats[n]
                      /\ seats[n] \subseteq backed
                      /\ Cardinality(seats[n]) = Min({n, Cardinality(backed)})

(* Seats that are filled one after the other.                              *)
LEMMA SeatsFilled ==
    ASSUME NEW backed, IsFiniteSet(backed), NEW seats,
           NextSeat(backed, {}, seats[1]), NextSeat(backed, seats[1], seats[2]),
           NextSeat(backed, seats[2], seats[3])
    PROVE  AddUp(backed, seats)
  <1> DEFINE all == Cardinality(backed)
             Fill(S, n) == /\ S \subseteq backed
                           /\ Cardinality(S) = IF n <= all THEN n ELSE all
  <1>1. all \in Nat
    BY FS_CardinalityType
  <1>2. ASSUME NEW n \in Nat, NEW S, Fill(S, n), NEW T, NextSeat(backed, S, T)
        PROVE  Fill(T, n + 1) /\ S \subseteq T
    <2>1. IsFiniteSet(S) /\ Cardinality(S) \in Nat
      BY <1>2, FS_Subset, FS_CardinalityType
    <2>2. CASE backed \subseteq S /\ T = S
      <3>1. S = backed
        BY <1>2, <2>2
      <3> QED
        BY <1>1, <1>2, <2>2, <3>1
    <2>3. ASSUME NEW o \in backed \ S, T = S \union {o}
          PROVE  Fill(T, n + 1) /\ S \subseteq T
      <3>1. T \subseteq backed /\ S \subseteq T /\ S # backed
        BY <1>2, <2>3
      <3>2. Cardinality(T) = Cardinality(S) + 1
        BY <2>1, <2>3, FS_AddElement
      <3>3. Cardinality(S) < all
        <4>1. Cardinality(S) <= all /\ (Cardinality(S) = all => S = backed)
          BY <1>2, FS_Subset
        <4> QED
          BY <1>1, <2>1, <3>1, <4>1
      <3> QED
        BY <1>1, <1>2, <3>1, <3>2, <3>3
    <2> QED
      BY <1>2, <2>2, <2>3 DEF NextSeat
  <1>3. Fill({}, 0)
    BY <1>1, FS_EmptySet
  <1>4. Fill(seats[1], 1)
    <2> HIDE DEF Fill
    <2> QED
      BY <1>2, <1>3
  <1>5. Fill(seats[2], 2) /\ seats[1] \subseteq seats[2]
    <2> HIDE DEF Fill
    <2> QED
      BY <1>2, <1>4
  <1>6. Fill(seats[3], 3) /\ seats[2] \subseteq seats[3]
    <2> HIDE DEF Fill
    <2> QED
      BY <1>2, <1>5
  <1>7. \A n \in 1 .. 3 : Min({n, all}) = IF n <= all THEN n ELSE all
    <2> SUFFICES ASSUME NEW n \in 1 .. 3
                 PROVE  Min({n, all}) = IF n <= all THEN n ELSE all
      OBVIOUS
    <2> HIDE DEF all
    <2> QED
      BY <1>1, MinOfTwo
  <1> SUFFICES ASSUME NEW n \in 1 .. 3
               PROVE  /\ n > 1 => seats[n - 1] \subseteq seats[n]
                      /\ seats[n] \subseteq backed
                      /\ Cardinality(seats[n]) = Min({n, all})
    BY DEF AddUp
  <1> HIDE DEF all
  <1> QED
    <2>1. n = 1 \/ n = 2 \/ n = 3
      OBVIOUS
    <2>2. Cardinality(seats[n]) = IF n <= all THEN n ELSE all
      BY <1>4, <1>5, <1>6, <2>1
    <2>3. /\ n > 1 => seats[n - 1] \subseteq seats[n]
          /\ seats[n] \subseteq backed
      BY <1>4, <1>5, <1>6, <2>1
    <2> QED
      BY <1>7, <2>2, <2>3

(* The first n of S in the order R, as TopN takes them.                    *)
Top(S, R, n) == {o \in S : Cardinality({q \in S : q # o /\ <<q, o>> \in R}) < n}

Total(S, R) ==
    /\ \A a, b \in S : a # b => (<<a, b>> \in R <=> <<b, a>> \notin R)
    /\ \A a, b, c \in S : /\ a # b /\ b # c /\ a # c
                          /\ <<a, b>> \in R /\ <<b, c>> \in R
                          => <<a, c>> \in R

(* With every place there is one more of them.                             *)
LEMMA TopGrows ==
    ASSUME NEW S, IsFiniteSet(S), NEW R, Total(S, R), NEW n \in Nat,
           Cardinality(Top(S, R, n)) = n \/ Top(S, R, n) = S
    PROVE  /\ NextSeat(S, Top(S, R, n), Top(S, R, n + 1))
           /\ Cardinality(Top(S, R, n + 1)) = n + 1 \/ Top(S, R, n + 1) = S
  <1> DEFINE Ahead(o) == {q \in S : q # o /\ <<q, o>> \in R}
             rank == [o \in S |-> Cardinality(Ahead(o))]
             T == Top(S, R, n)
             U == Top(S, R, n + 1)
  <1>1. \A o \in S : IsFiniteSet(Ahead(o)) /\ Cardinality(Ahead(o)) \in Nat
    BY FS_Subset, FS_CardinalityType
  <1>2. /\ \A o : o \in T <=> o \in S /\ rank[o] < n
        /\ \A o : o \in U <=> o \in S /\ rank[o] < n + 1
    BY DEF Top
  <1>3. \A o \in S : rank[o] \in Nat
    BY <1>1
  <1>4. \A a, b \in S : <<a, b>> \in R /\ a # b => rank[a] < rank[b]
    <2> SUFFICES ASSUME NEW a \in S, NEW b \in S, <<a, b>> \in R, a # b
                 PROVE  rank[a] < rank[b]
      OBVIOUS
    <2>1. Ahead(a) \subseteq Ahead(b) /\ a \in Ahead(b) /\ a \notin Ahead(a)
      BY DEF Total
    <2>2. Cardinality(Ahead(a)) <= Cardinality(Ahead(b)) /\
          (Cardinality(Ahead(a)) = Cardinality(Ahead(b)) => Ahead(a) = Ahead(b))
      BY <1>1, <2>1, FS_Subset
    <2>3. rank[a] = Cardinality(Ahead(a)) /\ rank[b] = Cardinality(Ahead(b))
      OBVIOUS
    <2> HIDE DEF rank, Ahead
    <2> QED
      BY <1>1, <2>1, <2>2, <2>3
  <1>5. \A a, b \in S : a # b => (<<a, b>> \in R \/ <<b, a>> \in R)
    BY DEF Total
  <1> HIDE DEF rank, T, U
  <1>6. CASE S \subseteq T
    <2>1. \A o \in S : rank[o] < n /\ rank[o] < n + 1
      BY <1>3, <1>2, <1>6
    <2>2. T = S
      BY <1>2, <1>6
    <2>3. U = S
      BY <1>2, <2>1
    <2> QED
      BY <2>2, <2>3 DEF NextSeat, T, U
  <1>7. CASE ~(S \subseteq T)
    <2> DEFINE rest == S \ T
    <2>1. PICK m \in rest : \A o \in rest : rank[m] <= rank[o]
      <3>1. IsFiniteSet(rest) /\ rest # {} /\ \A o \in rest : rank[o] \in Int
        BY <1>3, <1>7, FS_Subset
      <3> HIDE DEF rest
      <3> QED
        BY <3>1, LeastExists
    <2>2. Ahead(m) = T
      <3>1. ASSUME NEW q \in Ahead(m) PROVE q \in T
        BY <1>3, <1>4, <2>1, <3>1
      <3>2. ASSUME NEW q \in T PROVE q \in Ahead(m)
        <4>1. q \in S /\ m \in S /\ q # m /\ rank[q] < n /\ ~(rank[m] < n)
          BY <1>2, <2>1, <3>2
        <4>2. <<m, q>> \notin R
          BY <1>3, <1>4, <4>1
        <4> QED
          BY <1>5, <4>1, <4>2
      <3> QED
        BY <3>1, <3>2
    <2>3. Cardinality(T) = n /\ rank[m] = n
      <3>1. T # S /\ rank[m] = Cardinality(Ahead(m))
        BY <1>7, <2>1 DEF rank
      <3> HIDE DEF Ahead
      <3> QED
        BY <2>2, <3>1 DEF T
    <2>4. \A o \in rest : o # m => rank[o] > n
      <3> SUFFICES ASSUME NEW o \in rest, o # m PROVE rank[o] > n
        OBVIOUS
      <3>1. <<m, o>> \in R \/ <<o, m>> \in R
        BY <1>5, <2>1
      <3>2. rank[m] <= rank[o] /\ rank[m] \in Nat /\ rank[o] \in Nat
        BY <1>3, <2>1
      <3>3. rank[o] # rank[m]
        BY <1>4, <2>1, <3>1, <3>2
      <3> QED
        BY <2>3, <3>2, <3>3
    <2>5. U = T \union {m}
      BY <1>3, <1>2, <2>1, <2>3, <2>4
    <2>6. IsFiniteSet(T)
      BY <1>1, <2>1, <2>2
    <2>7. Cardinality(U) = n + 1
      <3>1. m \notin T
        BY <2>1
      <3> QED
        BY <2>3, <2>5, <2>6, <3>1, FS_AddElement
    <2>8. m \in S \ T
      BY <2>1
    <2> QED
      BY <2>5, <2>7, <2>8 DEF NextSeat, T, U
  <1> QED
    BY <1>6, <1>7 DEF T, U

LEMMA TopSeats ==
    ASSUME NEW S, IsFiniteSet(S), NEW R, Total(S, R)
    PROVE  /\ NextSeat(S, {}, Top(S, R, 1))
           /\ NextSeat(S, Top(S, R, 1), Top(S, R, 2))
           /\ NextSeat(S, Top(S, R, 2), Top(S, R, 3))
  <1>1. Top(S, R, 0) = {} /\ Cardinality(Top(S, R, 0)) = 0
    <2>1. \A o : Cardinality({q \in S : q # o /\ <<q, o>> \in R}) \in Nat
      BY FS_Subset, FS_CardinalityType
    <2>2. Top(S, R, 0) = {}
      BY <2>1, \A k \in Nat : ~(k < 0) DEF Top
    <2> QED
      BY <2>2, FS_EmptySet
  <1>2. /\ NextSeat(S, Top(S, R, 0), Top(S, R, 1))
        /\ Cardinality(Top(S, R, 1)) = 1 \/ Top(S, R, 1) = S
    BY <1>1, TopGrows
  <1>3. /\ NextSeat(S, Top(S, R, 1), Top(S, R, 2))
        /\ Cardinality(Top(S, R, 2)) = 2 \/ Top(S, R, 2) = S
    BY <1>2, TopGrows
  <1>4. NextSeat(S, Top(S, R, 2), Top(S, R, 3))
    BY <1>3, TopGrows
  <1> QED
    BY <1>1, <1>2, <1>3, <1>4

(* The totals of a profile with weights and rates in Nat.                  *)
Polled(p) ==
    /\ p = _rated_totals(p.options, p.rate, p.weight, p.priority)
    /\ IsFiniteSet(p.options) /\ IsFiniteSet(DOMAIN p.weight)
    /\ \A v \in DOMAIN p.weight :
           p.weight[v] \in Nat /\ \A o \in p.options : p.rate[v][o] \in Nat
    /\ \A o \in p.options : p.priority[o] \in Int
    /\ Untied(p)

LEMMA SumIsPositive ==
    ASSUME NEW S, IsFiniteSet(S), NEW f, \A x \in S : f[x] \in Nat
    PROVE  /\ SumFunctionOnSet(f, S) \in Nat
           /\ SumFunctionOnSet(f, S) > 0 <=> \E x \in S : f[x] > 0
  <1>1. /\ SumFunctionOnSet(f, S) \in Nat
        /\ SumFunctionOnSet(f, S) > 0 => \E x \in S : f[x] > 0
    BY SumIsNatural
  <1>2. ASSUME NEW x \in S, f[x] > 0 PROVE SumFunctionOnSet(f, S) > 0
    <2>1. SumFunctionOnSet(f, S) = f[x] + SumFunctionOnSet(f, S \ {x})
      BY SumSplits
    <2>2. SumFunctionOnSet(f, S \ {x}) \in Nat
      BY SumIsNatural
    <2> QED
      BY <1>2, <2>1, <2>2
  <1> QED
    BY <1>1, <1>2

(* What the totals say about the ballots with weight.                      *)
LEMMA TotalsMean ==
    ASSUME NEW p, Polled(p), NEW a \in p.options
    PROVE  /\ p.score[a] \in Nat
           /\ p.score[a] > 0 <=> \E v \in DOMAIN p.weight : p.weight[v] > 0 /\ p.rate[v][a] > 0
           /\ \A o \in p.options :
                  /\ p.pairwise[a][o] \in Nat
                  /\ p.pairwise[a][o] > 0 <=>
                         \E v \in DOMAIN p.weight : p.weight[v] > 0 /\ p.rate[v][a] > p.rate[v][o]
           /\ \A r \in Ratings :
                  /\ p.histogram[a][r] \in Nat
                  /\ p.histogram[a][r] > 0 <=>
                         \E v \in DOMAIN p.weight : p.weight[v] > 0 /\ p.rate[v][a] = r
  <1> DEFINE V == DOMAIN p.weight
             given == [v \in V |-> p.weight[v] * p.rate[v][a]]
             For(o) == {v \in V : p.rate[v][a] > p.rate[v][o]}
             At(r) == {v \in V : p.rate[v][a] = r}
  <1>1. /\ p.score[a] = SumFunctionOnSet(given, V)
        /\ \A o \in p.options : p.pairwise[a][o] = SumFunctionOnSet(p.weight, For(o))
        /\ \A r \in Ratings : p.histogram[a][r] = SumFunctionOnSet(p.weight, At(r))
    <2> DEFINE q == _rated_totals(p.options, p.rate, p.weight, p.priority)
    <2>1. /\ q.score[a] = SumFunctionOnSet(given, V)
          /\ \A o \in p.options : q.pairwise[a][o] = SumFunctionOnSet(p.weight, For(o))
          /\ \A r \in Ratings : q.histogram[a][r] = SumFunctionOnSet(p.weight, At(r))
      BY DEF _rated_totals
    <2>2. q = p
      BY DEF Polled
    <2> HIDE DEF q, given, For, At
    <2> QED
      BY <2>1, <2>2
  <1>2. IsFiniteSet(V) /\ \A v \in V : p.weight[v] \in Nat /\ p.rate[v][a] \in Nat
    BY DEF Polled
  <1>3. \A T \in SUBSET V :
            /\ SumFunctionOnSet(p.weight, T) \in Nat
            /\ SumFunctionOnSet(p.weight, T) > 0 <=> \E v \in T : p.weight[v] > 0
    BY <1>2, FS_Subset, SumIsPositive
  <1>4. \A v \in V : given[v] \in Nat /\ (given[v] > 0 <=> p.weight[v] > 0 /\ p.rate[v][a] > 0)
    <2> SUFFICES ASSUME NEW v \in V
                 PROVE  given[v] \in Nat /\ (given[v] > 0 <=> p.weight[v] > 0 /\ p.rate[v][a] > 0)
      OBVIOUS
    <2>1. \A i, j \in Nat : i * j \in Nat /\ (i * j > 0 <=> i > 0 /\ j > 0)
      OBVIOUS
    <2> QED
      BY <1>2, <2>1
  <1>5. /\ SumFunctionOnSet(given, V) \in Nat
        /\ SumFunctionOnSet(given, V) > 0 <=> \E v \in V : p.weight[v] > 0 /\ p.rate[v][a] > 0
    <2> HIDE DEF given, V
    <2> QED
      BY <1>2, <1>4, SumIsPositive
  <1>6. \A o \in p.options :
            /\ p.pairwise[a][o] \in Nat
            /\ p.pairwise[a][o] > 0 <=> \E v \in V : p.weight[v] > 0 /\ p.rate[v][a] > p.rate[v][o]
    <2>1. ASSUME NEW o \in p.options
          PROVE  /\ p.pairwise[a][o] \in Nat
                 /\ p.pairwise[a][o] > 0 <=> \E v \in For(o) : p.weight[v] > 0
      <3>1. For(o) \in SUBSET V /\ p.pairwise[a][o] = SumFunctionOnSet(p.weight, For(o))
        BY <1>1
      <3> HIDE DEF For, V
      <3> QED
        BY <1>3, <3>1
    <2> QED
      BY <2>1
  <1>7. \A r \in Ratings :
            /\ p.histogram[a][r] \in Nat
            /\ p.histogram[a][r] > 0 <=> \E v \in V : p.weight[v] > 0 /\ p.rate[v][a] = r
    <2>1. ASSUME NEW r \in Ratings
          PROVE  /\ p.histogram[a][r] \in Nat
                 /\ p.histogram[a][r] > 0 <=> \E v \in At(r) : p.weight[v] > 0
      <3>1. At(r) \in SUBSET V /\ p.histogram[a][r] = SumFunctionOnSet(p.weight, At(r))
        BY <1>1
      <3> HIDE DEF At, V
      <3> QED
        BY <1>3, <3>1
    <2> QED
      BY <2>1
  <1> HIDE DEF given
  <1> QED
    BY <1>1, <1>5, <1>6, <1>7

(* Score.                                                                  *)
LEMMA ScoreSeats ==
    ASSUME NEW p, Polled(p)
    PROVE  /\ NextSeat(Supported(p), {}, count_score(p, 1))
           /\ NextSeat(Supported(p), count_score(p, 1), count_score(p, 2))
           /\ NextSeat(Supported(p), count_score(p, 2), count_score(p, 3))
  <1> DEFINE S == Supported(p)
             R == {e \in S \X S :
                      \/ p.score[e[1]] > p.score[e[2]]
                      \/ p.score[e[1]] = p.score[e[2]] /\ p.priority[e[1]] < p.priority[e[2]]}
  <1>1. \A o \in S : o \in p.options /\ p.score[o] \in Nat /\ p.priority[o] \in Int
    BY TotalsMean DEF Polled, Supported
  <1>2. IsFiniteSet(S)
    BY FS_Subset DEF Polled, Supported
  <1>3. \A n : count_score(p, n) = Top(S, R, n)
    <2> DEFINE Before(a, b) ==
                   \/ p.score[a] > p.score[b]
                   \/ p.score[a] = p.score[b] /\ p.priority[a] < p.priority[b]
               A(o) == {q \in S : q # o /\ Before(q, o)}
               B(o) == {q \in S : q # o /\ <<q, o>> \in R}
    <2>1. \A n : count_score(p, n) = {o \in S : Cardinality(A(o)) < n}
      BY DEF count_score, TopN
    <2>2. \A n : Top(S, R, n) = {o \in S : Cardinality(B(o)) < n}
      BY DEF Top
    <2>3. ASSUME NEW o \in S PROVE A(o) = B(o)
      <3>1. \A q \in S : <<q, o>> \in R <=> Before(q, o)
        OBVIOUS
      <3> HIDE DEF R, S, Before
      <3> QED
        BY <3>1
    <2> HIDE DEF A, B, S, R
    <2> QED
      BY <2>1, <2>2, <2>3
  <1>4. Total(S, R)
    <2>1. \A a, b \in S : p.priority[a] = p.priority[b] => a = b
      BY <1>1 DEF Polled, Untied
    <2>2. \A a, b \in S : <<a, b>> \in R <=>
              \/ p.score[a] > p.score[b]
              \/ p.score[a] = p.score[b] /\ p.priority[a] < p.priority[b]
      OBVIOUS
    <2> HIDE DEF R, S
    <2> QED
      BY <1>1, <2>1, <2>2 DEF Total
  <1> HIDE DEF S, R
  <1> QED
    BY <1>2, <1>3, <1>4, TopSeats DEF S

(* One stage of a tie break.                                               *)
Narrowed(p, needed, acc, name) ==
    LET c == cut(acc.tied, Stage(p, acc.tied, name), needed - Cardinality(acc.in))
    IN  [in |-> acc.in \union c.in, tied |-> c.tied]

Untouched(pool) == [in |-> {}, tied |-> pool]

Narrowing(p, pool, needed, stages, g, s) ==
    IF s = {} THEN Untouched(pool)
    ELSE Narrowed(p, needed, g[s \ {Max(s)}], stages[Max(s)])

LEMMA LastOf ==
    ASSUME NEW n \in Nat, NEW s \in SUBSET (1 .. n)
    PROVE  n \in s => Max(s) = n
  <1> SUFFICES ASSUME n \in s PROVE Max(s) = n
    OBVIOUS
  <1>1. \A x \in s : (\A y \in s : x >= y) <=> x = n
    OBVIOUS
  <1> QED
    BY <1>1 DEF Max

(* The stages are run one after the other.                                 *)
LEMMA NarrowRuns ==
    ASSUME NEW p, NEW pool, NEW needed, NEW stages, NEW n \in Nat, DOMAIN stages = 1 .. n
    PROVE  \E acc : /\ acc[0] = Untouched(pool)
                    /\ \A k \in 1 .. n : acc[k] = Narrowed(p, needed, acc[k - 1], stages[k])
                    /\ Narrow(p, pool, needed, stages) = acc[n].in
  <1> DEFINE N(g, s) == Narrowing(p, pool, needed, stages, g, s)
             Runs(m, g) == g = [s \in SUBSET (1 .. m) |-> N(g, s)]
             T == {m \in Nat : \E g : Runs(m, g)}
             run == CHOOSE g : g = [s \in SUBSET DOMAIN stages |-> N(g, s)]
  <1>1. Narrow(p, pool, needed, stages) = run[DOMAIN stages].in
    BY DEF Narrow, FoldLeft, MapThenFoldSet, Narrowing, Narrowed, Untouched
  <1>2. \A m \in Nat : m \in T
    <2>1. 0 \in T
      <3> DEFINE g == [s \in SUBSET (1 .. 0) |-> Untouched(pool)]
      <3>1. \A s \in SUBSET (1 .. 0) : s = {}
        OBVIOUS
      <3>2. Runs(0, g)
        BY <3>1 DEF Narrowing
      <3> QED
        BY <3>2
    <2>2. ASSUME NEW m \in Nat, m \in T PROVE m + 1 \in T
      <3>1. PICK g : Runs(m, g)
        BY <2>2
      <3> DEFINE h == [s \in SUBSET (1 .. m + 1) |->
                          IF m + 1 \in s
                          THEN Narrowed(p, needed, g[s \ {m + 1}], stages[m + 1])
                          ELSE g[s]]
      <3>2. ASSUME NEW s \in SUBSET (1 .. m + 1) PROVE h[s] = N(h, s)
        <4>1. CASE m + 1 \in s
          <5>1. Max(s) = m + 1 /\ s # {}
            BY <4>1, LastOf
          <5>2. s \ {m + 1} \in SUBSET (1 .. m + 1) /\ m + 1 \notin s \ {m + 1}
            OBVIOUS
          <5>3. h[s \ {m + 1}] = g[s \ {m + 1}]
            BY <5>2
          <5>4. h[s] = Narrowed(p, needed, g[s \ {m + 1}], stages[m + 1])
            BY <4>1
          <5> HIDE DEF h
          <5> QED
            BY <5>1, <5>3, <5>4 DEF Narrowing
        <4>2. CASE m + 1 \notin s
          <5>1. s \in SUBSET (1 .. m) /\ h[s] = g[s]
            BY <4>2
          <5>2. g[s] = N(g, s)
            BY <3>1, <5>1
          <5>3. s \ {Max(s)} \in SUBSET (1 .. m + 1) /\ m + 1 \notin s \ {Max(s)}
            BY <4>2
          <5>4. h[s \ {Max(s)}] = g[s \ {Max(s)}]
            BY <5>3
          <5> HIDE DEF h
          <5> QED
            BY <5>1, <5>2, <5>4 DEF Narrowing
        <4> QED
          BY <4>1, <4>2
      <3>3. Runs(m + 1, h)
        <4>1. h = [s \in SUBSET (1 .. m + 1) |-> h[s]]
          OBVIOUS
        <4> HIDE DEF h, N
        <4> QED
          BY <3>2, <4>1
      <3>4. m + 1 \in Nat
        OBVIOUS
      <3> HIDE DEF h, Runs
      <3> QED
        BY <3>3, <3>4
    <2> HIDE DEF T
    <2> QED
      BY <2>1, <2>2, NaturalInduction
  <1>3. Runs(n, run)
    <2>1. \E g : g = [s \in SUBSET DOMAIN stages |-> N(g, s)]
      BY <1>2
    <2> HIDE DEF N
    <2> QED
      BY <2>1
  <1> HIDE DEF run
  <1> DEFINE acc == [k \in 0 .. n |-> run[1 .. k]]
  <1>4. \A k \in 0 .. n : acc[k] = N(run, 1 .. k) /\ acc[k] = run[1 .. k]
    <2> SUFFICES ASSUME NEW k \in 0 .. n
                 PROVE  run[1 .. k] = N(run, 1 .. k)
      OBVIOUS
    <2>1. 1 .. k \in SUBSET (1 .. n)
      OBVIOUS
    <2> HIDE DEF N
    <2> QED
      BY <1>3, <2>1
  <1>5. acc[0] = Untouched(pool)
    <2>1. 1 .. 0 = {} /\ 0 \in 0 .. n
      OBVIOUS
    <2>2. N(run, {}) = Untouched(pool)
      BY DEF Narrowing
    <2> HIDE DEF acc, N
    <2> QED
      BY <1>4, <2>1, <2>2
  <1>6. ASSUME NEW k \in 1 .. n
        PROVE  acc[k] = Narrowed(p, needed, acc[k - 1], stages[k])
    <2>1. 1 .. k \in SUBSET (1 .. k) /\ k \in Nat /\ k \in 1 .. k /\ k - 1 \in 0 .. n /\ k \in 0 .. n
      OBVIOUS
    <2>2. Max(1 .. k) = k /\ 1 .. k # {}
      BY <2>1, LastOf
    <2>3. (1 .. k) \ {k} = 1 .. (k - 1)
      OBVIOUS
    <2> HIDE DEF acc
    <2> QED
      BY <1>4, <2>1, <2>2, <2>3 DEF Narrowing
  <1>7. Narrow(p, pool, needed, stages) = acc[n].in
    BY <1>1, <1>4
  <1> HIDE DEF acc
  <1> QED
    BY <1>5, <1>6, <1>7

(* A cut seats no more than needed, and enough are left of those it leaves *)
(* tied; unequal options are never tied.                                   *)
LEMMA CutFacts ==
    ASSUME NEW pool, IsFiniteSet(pool), NEW value, \A o \in pool : value[o] \in Int,
           NEW needed \in Nat \ {0}, NEW c, c = cut(pool, value, needed)
    PROVE  /\ c.in \subseteq pool /\ c.tied \subseteq pool \ c.in
           /\ Cardinality(c.in) <= needed
           /\ c.tied # {} => Cardinality(c.in) < needed
           /\ \/ c.in = pool
              \/ Cardinality(c.in) = needed
              \/ Cardinality(c.in) + Cardinality(c.tied) >= needed
           /\ (\A a, o \in pool : value[a] = value[o] => a = o) => c.tied = {}
  <1> DEFINE From(o) == {q \in pool : value[q] >= value[o]}
             Above(o) == {q \in pool : value[q] > value[o]}
             in == {o \in pool : Cardinality(From(o)) <= needed}
             rest == pool \ in
             tied == IF Cardinality(in) >= needed \/ in = pool THEN {}
                     ELSE {o \in rest : Cardinality(Above(o)) < needed}
  <1>1. c.in = in /\ c.tied = tied
    BY DEF cut
  <1>2. \A o : /\ IsFiniteSet(From(o)) /\ Cardinality(From(o)) \in Nat
               /\ IsFiniteSet(Above(o)) /\ Cardinality(Above(o)) \in Nat
    BY FS_Subset, FS_CardinalityType
  <1>3. in \subseteq pool /\ IsFiniteSet(in) /\ Cardinality(in) \in Nat
    <2> HIDE DEF From
    <2> QED
      BY FS_Subset, FS_CardinalityType
  <1>4. tied \subseteq rest /\ IsFiniteSet(tied) /\ Cardinality(tied) \in Nat
    <2>1. tied \subseteq rest
      OBVIOUS
    <2> HIDE DEF tied, in
    <2> QED
      BY <2>1, FS_Subset, FS_CardinalityType
  <1>5. \A o \in pool : o \in in <=> Cardinality(From(o)) <= needed
    OBVIOUS
  <1>6. /\ Cardinality(in) >= needed \/ in = pool => tied = {}
        /\ ~(Cardinality(in) >= needed \/ in = pool) =>
               \A o \in rest : o \in tied <=> Cardinality(Above(o)) < needed
    OBVIOUS
  <1> HIDE DEF in, tied
  <1>7. Cardinality(in) <= needed
    <2>1. CASE in = {}
      BY <2>1, FS_EmptySet
    <2>2. CASE in # {}
      <3>1. PICK o \in in : \A q \in in : value[o] <= value[q]
        <4>1. \A q \in in : value[q] \in Int
          BY <1>3
        <4> QED
          BY <1>3, <2>2, <4>1, LeastExists
      <3>2. in \subseteq From(o) /\ Cardinality(From(o)) <= needed
        BY <1>3, <1>5, <3>1
      <3>3. Cardinality(in) <= Cardinality(From(o))
        BY <1>2, <3>2, FS_Subset
      <3>4. Cardinality(From(o)) \in Nat /\ Cardinality(in) \in Nat
        BY <1>2, <1>3
      <3> HIDE DEF From
      <3> QED
        BY <3>2, <3>3, <3>4
    <2> QED
      BY <2>1, <2>2
  <1>8. tied # {} => Cardinality(in) < needed
    BY <1>3, <1>6
  <1>9. ASSUME Cardinality(in) < needed, in # pool
        PROVE  Cardinality(in) + Cardinality(tied) >= needed
    <2>1. PICK m \in rest : \A o \in rest : value[o] <= value[m]
      <3>1. IsFiniteSet(rest) /\ rest # {} /\ \A o \in rest : value[o] \in Int
        BY <1>3, <1>9, FS_Subset
      <3> HIDE DEF rest
      <3> QED
        BY <3>1, GreatestExists
    <2>2. \A o \in rest : value[o] = value[m] => o \in tied
      <3> SUFFICES ASSUME NEW o \in rest, value[o] = value[m] PROVE o \in tied
        OBVIOUS
      <3>1. Above(o) \subseteq in
        BY <2>1
      <3>2. Cardinality(Above(o)) <= Cardinality(in)
        BY <1>3, <3>1, FS_Subset
      <3>3. Cardinality(Above(o)) \in Nat /\ Cardinality(in) \in Nat
        BY <1>2, <1>3
      <3>4. o \in tied <=> Cardinality(Above(o)) < needed
        BY <1>3, <1>6, <1>9
      <3> HIDE DEF Above
      <3> QED
        BY <1>9, <3>2, <3>3, <3>4
    <2>3. From(m) \subseteq in \union tied
      BY <2>1, <2>2
    <2>4. ~(Cardinality(From(m)) <= needed)
      BY <1>5, <2>1
    <2>5. Cardinality(From(m)) <= Cardinality(in \union tied) /\ IsFiniteSet(in \union tied)
      <3>1. IsFiniteSet(in \union tied)
        BY <1>3, <1>4, FS_Union
      <3> QED
        BY <2>3, <3>1, FS_Subset
    <2>6. Cardinality(in \union tied) = Cardinality(in) + Cardinality(tied)
      <3>1. in \intersect tied = {}
        BY <1>4
      <3>2. Cardinality(in \union tied) =
                Cardinality(in) + Cardinality(tied) - Cardinality(in \intersect tied)
        BY <1>3, <1>4, FS_Union
      <3>3. Cardinality(in \intersect tied) = 0
        BY <3>1, FS_EmptySet
      <3> QED
        BY <1>3, <1>4, <3>2, <3>3
    <2>7. Cardinality(From(m)) \in Nat /\ Cardinality(in) \in Nat /\ Cardinality(tied) \in Nat
      BY <1>2, <1>3, <1>4
    <2> HIDE DEF From
    <2> QED
      BY <2>4, <2>5, <2>6, <2>7
  <1>10. ASSUME \A a, o \in pool : value[a] = value[o] => a = o, NEW t \in tied PROVE FALSE
    <2>1. t \in rest /\ ~(Cardinality(in) >= needed \/ in = pool)
      BY <1>4, <1>6, <1>10
    <2>2. Cardinality(Above(t)) < needed /\ ~(Cardinality(From(t)) <= needed)
      BY <1>5, <1>6, <1>10, <2>1
    <2>3. From(t) = Above(t) \union {t} /\ t \notin Above(t)
      BY <1>10, <2>1
    <2>4. Cardinality(From(t)) = Cardinality(Above(t)) + 1
      <3> HIDE DEF From, Above
      <3> QED
        BY <1>2, <2>3, FS_AddElement
    <2> HIDE DEF From, Above
    <2> QED
      BY <1>2, <2>2, <2>4
  <1> HIDE DEF From, Above
  <1> QED
    BY <1>1, <1>3, <1>4, <1>7, <1>8, <1>9, <1>10

StarStages == {"score", "preferences", "five_stars", "priority"}

(* Profiles over different options with the same totals.                   *)
SameTotals(p, q) == /\ q.score = p.score /\ q.pairwise = p.pairwise
                    /\ q.histogram = p.histogram /\ q.priority = p.priority

LEMMA StageFacts ==
    ASSUME NEW p, Polled(p), NEW q, SameTotals(p, q), NEW pool \in SUBSET p.options,
           NEW name \in StarStages,
           NEW value, value = Stage(q, pool, name)
    PROVE  /\ value = Stage(p, pool, name)
           /\ \A o \in pool : value[o] \in Int
           /\ name = "priority" => \A a, o \in pool : value[a] = value[o] => a = o
  <1>1. \A o \in pool : /\ o \in p.options /\ p.score[o] \in Nat /\ p.priority[o] \in Int
                        /\ p.histogram[o][TopRating] \in Nat
                        /\ \A x \in pool : p.pairwise[o][x] \in Nat
    <2>1. TopRating \in Ratings
      BY RatingAssumption DEF Ratings
    <2> QED
      BY <2>1, TotalsMean DEF Polled
  <1>2. IsFiniteSet(pool)
    BY FS_Subset DEF Polled
  <1>3. value = Stage(p, pool, name)
    BY DEF Stage, SameTotals
  <1>4. name = "score" => \A o \in pool : value[o] = p.score[o]
    BY <1>3 DEF Stage
  <1>5. name = "five_stars" => \A o \in pool : value[o] = p.histogram[o][TopRating]
    BY <1>3 DEF Stage
  <1>6. name = "priority" => \A o \in pool : value[o] = -p.priority[o]
    BY <1>3 DEF Stage
  <1>7. name = "preferences" => \A o \in pool : value[o] = SumFunctionOnSet(p.pairwise[o], pool)
    BY <1>3 DEF Stage
  <1>8. \A o \in pool : SumFunctionOnSet(p.pairwise[o], pool) \in Nat
    BY <1>1, <1>2, SumIsNatural
  <1>9. \A a, o \in pool : p.priority[a] = p.priority[o] => a = o
    BY DEF Polled, Untied
  <1>10. \A o \in pool : value[o] \in Int
    BY <1>1, <1>4, <1>5, <1>6, <1>7, <1>8 DEF StarStages
  <1>11. name = "priority" => \A a, o \in pool : value[a] = value[o] => a = o
    BY <1>1, <1>6, <1>9
  <1> QED
    BY <1>3, <1>10, <1>11

(* Nobody is lost while a tie is narrowed.                                 *)
InTheRunning(pool, needed, acc) ==
    /\ acc.in \subseteq pool /\ acc.tied \subseteq pool \ acc.in
    /\ Cardinality(acc.in) <= needed
    /\ acc.tied # {} => Cardinality(acc.in) < needed
    /\ \/ acc.in \union acc.tied = pool
       \/ Cardinality(acc.in) + Cardinality(acc.tied) >= needed

LEMMA NarrowStep ==
    ASSUME NEW p, Polled(p), NEW q, SameTotals(p, q), NEW pool \in SUBSET p.options,
           NEW name \in StarStages,
           NEW needed \in Nat \ {0}, NEW acc, InTheRunning(pool, needed, acc),
           NEW next, next = Narrowed(q, needed, acc, name)
    PROVE  /\ InTheRunning(pool, needed, next)
           /\ acc.in \subseteq next.in
           /\ name = "priority" => next.tied = {}
  <1> DEFINE I == acc.in
             T == acc.tied
             m == needed - Cardinality(I)
             value == Stage(q, T, name)
             c == cut(T, value, m)
  <1>1. next.in = I \union c.in /\ next.tied = c.tied
    BY DEF Narrowed
  <1>2. /\ I \subseteq pool /\ T \subseteq pool \ I /\ T \in SUBSET p.options
        /\ Cardinality(I) <= needed /\ (T # {} => Cardinality(I) < needed)
        /\ I \union T = pool \/ Cardinality(I) + Cardinality(T) >= needed
    BY DEF InTheRunning
  <1>3. /\ IsFiniteSet(I) /\ Cardinality(I) \in Nat
        /\ IsFiniteSet(T) /\ Cardinality(T) \in Nat
    <2>1. IsFiniteSet(pool)
      BY FS_Subset DEF Polled
    <2> QED
      BY <1>2, <2>1, FS_Subset, FS_CardinalityType
  <1>4. /\ \A o \in T : value[o] \in Int
        /\ name = "priority" => \A a, o \in T : value[a] = value[o] => a = o
    <2>1. value = Stage(q, T, name)
      OBVIOUS
    <2> HIDE DEF value, T
    <2> QED
      BY <1>2, <2>1, StageFacts DEF StarStages
  <1> HIDE DEF value
  <1>5. CASE T = {}
    <2>1. c.in = {} /\ c.tied = {}
      BY <1>5 DEF cut
    <2>2. next.in = I /\ next.tied = T
      BY <1>1, <1>5, <2>1
    <2> HIDE DEF I, T, c
    <2> QED
      BY <1>2, <1>5, <2>2 DEF InTheRunning, I, T
  <1>6. CASE T # {}
    <2>1. m \in Nat \ {0}
      BY <1>2, <1>3, <1>6
    <2> HIDE DEF m, I, T
    <2>2. /\ c.in \subseteq T /\ c.tied \subseteq T \ c.in
          /\ Cardinality(c.in) <= m
          /\ c.tied # {} => Cardinality(c.in) < m
          /\ \/ c.in = T
             \/ Cardinality(c.in) = m
             \/ Cardinality(c.in) + Cardinality(c.tied) >= m
          /\ (\A a, o \in T : value[a] = value[o] => a = o) => c.tied = {}
      BY <1>3, <1>4, <2>1, CutFacts
    <2> HIDE DEF c
    <2>3. /\ IsFiniteSet(c.in) /\ Cardinality(c.in) \in Nat
          /\ IsFiniteSet(c.tied) /\ Cardinality(c.tied) \in Nat
      <3>1. IsFiniteSet(c.in) /\ IsFiniteSet(c.tied)
        BY <1>3, <2>2, FS_Subset
      <3> QED
        BY <3>1, FS_CardinalityType
    <2>4. Cardinality(next.in) = Cardinality(I) + Cardinality(c.in)
      <3>1. I \intersect c.in = {}
        BY <1>2, <2>2
      <3>2. Cardinality(I \intersect c.in) = 0
        BY <3>1, FS_EmptySet
      <3>3. Cardinality(I \union c.in) =
                Cardinality(I) + Cardinality(c.in) - Cardinality(I \intersect c.in)
        BY <1>3, <2>3, FS_Union
      <3> QED
        BY <1>1, <1>3, <2>3, <3>2, <3>3
    <2>5. Cardinality(I) + m = needed
      BY <1>3 DEF m
    <2>6. m \in Int
      BY <2>1
    <2>7. \/ next.in \union next.tied = pool
          \/ Cardinality(next.in) + Cardinality(next.tied) >= needed
      <3>1. CASE c.in = T
        BY <1>1, <1>2, <1>3, <2>2, <2>3, <2>4, <3>1
      <3>2. CASE Cardinality(c.in) = m \/ Cardinality(c.in) + Cardinality(c.tied) >= m
        BY <1>1, <1>3, <2>3, <2>4, <2>5, <2>6, <3>2
      <3> QED
        BY <2>2, <3>1, <3>2
    <2>8. /\ Cardinality(next.in) <= needed
          /\ next.tied # {} => Cardinality(next.in) < needed
      BY <1>1, <1>3, <2>2, <2>3, <2>4, <2>5, <2>6
    <2>9. /\ next.in \subseteq pool /\ next.tied \subseteq pool \ next.in
          /\ I \subseteq next.in /\ (name = "priority" => next.tied = {})
      BY <1>1, <1>2, <1>4, <2>2
    <2> QED
      BY <2>7, <2>8, <2>9 DEF InTheRunning, I
  <1> QED
    BY <1>5, <1>6

Staged(stages, n) ==
    /\ DOMAIN stages = 1 .. n /\ stages[n] = "priority"
    /\ \A k \in 1 .. n : stages[k] \in StarStages

(* Whom the first stage seats.                                             *)
FirstCut(p, pool, needed, stages) == cut(pool, Stage(p, pool, stages[1]), needed).in

(* A tie break that ends in the priority seats as many as are needed, those*)
(* the first cut seats among them.                                         *)
LEMMA NarrowFacts ==
    ASSUME NEW p, Polled(p), NEW q, SameTotals(p, q), NEW pool \in SUBSET p.options,
           NEW needed \in Nat \ {0}, NEW n \in Nat \ {0}, NEW stages, Staged(stages, n),
           NEW R, R = Narrow(q, pool, needed, stages)
    PROVE  /\ R \subseteq pool /\ (R = pool \/ Cardinality(R) = needed)
           /\ Cardinality(R) <= needed
           /\ FirstCut(p, pool, needed, stages) \subseteq R
  <1>1. PICK acc : /\ acc[0] = Untouched(pool)
                   /\ \A k \in 1 .. n : acc[k] = Narrowed(q, needed, acc[k - 1], stages[k])
                   /\ R = acc[n].in
    BY NarrowRuns DEF Staged
  <1>2. IsFiniteSet(pool)
    BY FS_Subset DEF Polled
  <1> DEFINE first == cut(pool, Stage(q, pool, stages[1]), needed).in
             T == {k \in Nat : k \in 1 .. n => InTheRunning(pool, needed, acc[k])
                                              /\ first \subseteq acc[k].in}
  <1>3. InTheRunning(pool, needed, acc[0])
    BY <1>1, FS_EmptySet DEF InTheRunning, Untouched
  <1>4. acc[1].in = first
    <2>1. Cardinality({}) = 0 /\ needed - 0 = needed
      BY FS_EmptySet
    <2>2. acc[1] = Narrowed(q, needed, Untouched(pool), stages[1])
      BY <1>1
    <2>3. cut(pool, Stage(q, pool, stages[1]), needed - Cardinality({})).in = first
      BY <2>1
    <2> QED
      BY <2>2, <2>3 DEF Narrowed, Untouched
  <1> HIDE DEF first
  <1>5. ASSUME NEW k \in 1 .. n, InTheRunning(pool, needed, acc[k - 1])
        PROVE  /\ InTheRunning(pool, needed, acc[k])
               /\ acc[k - 1].in \subseteq acc[k].in
               /\ k = n => acc[k].tied = {}
    <2> DEFINE name == stages[k]
               last == acc[k - 1]
               next == acc[k]
    <2>1. name \in StarStages
      BY DEF Staged
    <2>2. next = Narrowed(q, needed, last, name) /\ InTheRunning(pool, needed, last)
      BY <1>1, <1>5
    <2>3. k = n => name = "priority"
      BY DEF Staged
    <2> HIDE DEF name, last, next
    <2>4. /\ InTheRunning(pool, needed, next) /\ last.in \subseteq next.in
          /\ name = "priority" => next.tied = {}
      BY <2>1, <2>2, NarrowStep
    <2> QED
      BY <2>3, <2>4 DEF last, next
  <1>6. ASSUME NEW k \in Nat, k \in T PROVE k + 1 \in T
    <2> SUFFICES ASSUME k + 1 \in 1 .. n
                 PROVE  InTheRunning(pool, needed, acc[k + 1]) /\ first \subseteq acc[k + 1].in
      OBVIOUS
    <2>1. (k + 1) - 1 = k /\ (k = 0 \/ k \in 1 .. n)
      OBVIOUS
    <2>2. InTheRunning(pool, needed, acc[k]) /\ (k # 0 => first \subseteq acc[k].in)
      BY <1>3, <1>6, <2>1
    <2>3. InTheRunning(pool, needed, acc[k + 1]) /\ acc[k].in \subseteq acc[k + 1].in
      BY <1>5, <2>1, <2>2
    <2> QED
      BY <1>4, <2>1, <2>2, <2>3
  <1>7. n \in T
    <2>1. 0 \in T
      OBVIOUS
    <2> HIDE DEF T
    <2> QED
      BY <1>6, <2>1, NaturalInduction
  <1>8. InTheRunning(pool, needed, acc[n]) /\ first \subseteq acc[n].in
    BY <1>7
  <1>9. acc[n].tied = {}
    <2>1. InTheRunning(pool, needed, acc[n - 1])
      <3>1. n - 1 \in Nat /\ (n - 1 = 0 \/ n - 1 \in 1 .. n)
        OBVIOUS
      <3>2. n - 1 \in T
        <4>1. 0 \in T
          OBVIOUS
        <4> HIDE DEF T
        <4> QED
          BY <1>6, <3>1, <4>1, NaturalInduction
      <3> QED
        BY <1>3, <3>1, <3>2
    <2> QED
      BY <1>5, <2>1
  <1>10. Cardinality(R) \in Nat
    BY <1>1, <1>2, <1>8, FS_Subset, FS_CardinalityType DEF InTheRunning
  <1>11. Cardinality(acc[n].tied) = 0
    BY <1>9, FS_EmptySet
  <1>12. Stage(q, pool, stages[1]) = Stage(p, pool, stages[1])
    <2>1. stages[1] \in StarStages
      BY DEF Staged
    <2> QED
      BY <2>1, StageFacts
  <1> QED
    BY <1>1, <1>8, <1>9, <1>10, <1>11, <1>12 DEF InTheRunning, first, FirstCut

LEMMA StagesAlike ==
    ASSUME NEW p, NEW q, SameTotals(p, q)
    PROVE  \A needed, acc, name : Narrowed(q, needed, acc, name) = Narrowed(p, needed, acc, name)
  <1>1. \A T, name : Stage(q, T, name) = Stage(p, T, name)
    BY DEF Stage, SameTotals
  <1> QED
    BY <1>1 DEF Narrowed

(* Tie breaks with the same first cut come out the same.                   *)
LEMMA NarrowAlike ==
    ASSUME NEW p, NEW q, SameTotals(p, q), NEW needed, NEW n \in Nat \ {0},
           NEW stages, DOMAIN stages = 1 .. n, NEW pool, NEW other,
           Narrowed(q, needed, Untouched(other), stages[1]) =
               Narrowed(p, needed, Untouched(pool), stages[1])
    PROVE  Narrow(q, other, needed, stages) = Narrow(p, pool, needed, stages)
  <1>1. PICK a : /\ a[0] = Untouched(pool)
                 /\ \A k \in 1 .. n : a[k] = Narrowed(p, needed, a[k - 1], stages[k])
                 /\ Narrow(p, pool, needed, stages) = a[n].in
    BY NarrowRuns
  <1>2. PICK b : /\ b[0] = Untouched(other)
                 /\ \A k \in 1 .. n : b[k] = Narrowed(q, needed, b[k - 1], stages[k])
                 /\ Narrow(q, other, needed, stages) = b[n].in
    BY NarrowRuns
  <1>3. \A acc, name : Narrowed(q, needed, acc, name) = Narrowed(p, needed, acc, name)
    BY StagesAlike
  <1> DEFINE T == {k \in Nat : k \in 1 .. n => a[k] = b[k]}
  <1>4. 0 \in T
    OBVIOUS
  <1>5. ASSUME NEW k \in Nat, k \in T PROVE k + 1 \in T
    <2> SUFFICES ASSUME k + 1 \in 1 .. n PROVE a[k + 1] = b[k + 1]
      OBVIOUS
    <2>1. (k + 1) - 1 = k
      OBVIOUS
    <2>2. /\ a[k + 1] = Narrowed(p, needed, a[k], stages[k + 1])
          /\ b[k + 1] = Narrowed(q, needed, b[k], stages[k + 1])
      BY <1>1, <1>2, <2>1
    <2>3. CASE k = 0
      BY <1>1, <1>2, <2>2, <2>3
    <2>4. CASE k # 0
      <3>1. a[k] = b[k]
        BY <1>5, <2>4
      <3> QED
        BY <1>3, <2>2, <3>1
    <2> QED
      BY <2>3, <2>4
  <1>6. n \in T
    <2> HIDE DEF T
    <2> QED
      BY <1>4, <1>5, NaturalInduction
  <1> QED
    BY <1>1, <1>2, <1>6

(* Counting rounds one after the other.                                    *)
InRounds(V, base, step, n, f) ==
    /\ f \in [0 .. n -> V] /\ f[0] = base
    /\ \A k \in 1 .. n : f[k] = step[f[k - 1]]

LEMMA RoundsExist ==
    ASSUME NEW V, NEW base \in V, NEW step \in [V -> V], NEW n \in Nat
    PROVE  \E f : InRounds(V, base, step, n, f)
  <1> DEFINE Rounds(m, f) == InRounds(V, base, step, m, f)
             T == {m \in Nat : \E f : Rounds(m, f)}
  <1> USE DEF InRounds
  <1>1. 0 \in T
    <2> DEFINE f == [k \in 0 .. 0 |-> base]
    <2>1. Rounds(0, f)
      OBVIOUS
    <2> QED
      BY <2>1
  <1>2. ASSUME NEW m \in Nat, m \in T PROVE m + 1 \in T
    <2>1. PICK f : Rounds(m, f)
      BY <1>2
    <2> DEFINE g == [k \in 0 .. m + 1 |-> IF k = m + 1 THEN step[f[m]] ELSE f[k]]
    <2>2. \A k \in 0 .. m : g[k] = f[k] /\ f[k] \in V
      BY <2>1
    <2>3. g[m + 1] = step[f[m]] /\ g[m + 1] \in V
      BY <2>1
    <2>4. g \in [0 .. m + 1 -> V]
      BY <2>2, <2>3
    <2> HIDE DEF g
    <2>5. \A k \in 1 .. m + 1 : g[k] = step[g[k - 1]]
      <3> SUFFICES ASSUME NEW k \in 1 .. m + 1 PROVE g[k] = step[g[k - 1]]
        OBVIOUS
      <3>1. k - 1 \in 0 .. m /\ (k = m + 1 \/ k \in 1 .. m)
        OBVIOUS
      <3>2. CASE k = m + 1
        BY <2>2, <2>3, <3>1, <3>2
      <3>3. CASE k \in 1 .. m
        BY <2>1, <2>2, <3>1, <3>3
      <3> QED
        BY <3>1, <3>2, <3>3
    <2>6. g[0] = base
      BY <2>1, <2>2
    <2>7. Rounds(m + 1, g) /\ m + 1 \in Nat
      BY <2>4, <2>5, <2>6
    <2> HIDE DEF Rounds
    <2> QED
      BY <2>7
  <1>3. n \in T
    <2> HIDE DEF T
    <2> QED
      BY <1>1, <1>2, NaturalInduction
  <1> HIDE DEF InRounds
  <1> QED
    BY <1>3

(* The winner of STAR is one of the options.                               *)
LEMMA StarFacts ==
    ASSUME NEW p, Polled(p), NEW q, SameTotals(p, q), q.options \subseteq p.options,
           q.options # {}
    PROVE  /\ Finalists(q) \subseteq q.options /\ Finalists(q) # {}
           /\ count_star(q) \in q.options
           /\ cut(q.options, Stage(p, q.options, "score"), 2).in \subseteq Finalists(q)
           /\ cut(Finalists(q), Stage(p, Finalists(q), "preferences"), 1).in \subseteq {count_star(q)}
  <1> DEFINE S1 == <<"score", "preferences", "five_stars", "priority">>
             S2 == <<"preferences", "score", "five_stars", "priority">>
             F == Finalists(q)
             W == Narrow(q, F, 1, S2)
  <1>1. Staged(S1, 4) /\ Staged(S2, 4) /\ S1[1] = "score" /\ S2[1] = "preferences"
    BY DEF Staged, StarStages
  <1>2. F = Narrow(q, q.options, 2, S1)
    BY DEF Finalists
  <1>3. count_star(q) = CHOOSE o \in W : TRUE
    BY DEF count_star
  <1> HIDE DEF S1, S2, F
  <1>4. /\ F \subseteq q.options /\ (F = q.options \/ Cardinality(F) = 2)
        /\ cut(q.options, Stage(p, q.options, S1[1]), 2).in \subseteq F
    <2> DEFINE O == q.options
               two == 2
               four == 4
    <2>1. /\ O \in SUBSET p.options /\ two \in Nat \ {0} /\ four \in Nat \ {0}
          /\ Staged(S1, four) /\ F = Narrow(q, O, two, S1)
      BY <1>1, <1>2
    <2> HIDE DEF O, two, four
    <2>2. /\ F \subseteq O /\ (F = O \/ Cardinality(F) = two)
          /\ FirstCut(p, O, two, S1) \subseteq F
      BY <2>1, NarrowFacts
    <2> QED
      BY <2>2 DEF O, two, FirstCut
  <1>5. F # {} /\ F \in SUBSET p.options
    BY <1>4, FS_EmptySet
  <1>6. /\ W \subseteq F /\ (W = F \/ Cardinality(W) = 1) /\ Cardinality(W) <= 1
        /\ cut(F, Stage(p, F, S2[1]), 1).in \subseteq W
    <2> DEFINE one == 1
               four == 4
    <2>1. /\ F \in SUBSET p.options /\ one \in Nat \ {0} /\ four \in Nat \ {0}
          /\ Staged(S2, four) /\ W = Narrow(q, F, one, S2)
      BY <1>1, <1>5
    <2> HIDE DEF W, one, four
    <2>2. /\ W \subseteq F /\ (W = F \/ Cardinality(W) = one) /\ Cardinality(W) <= one
          /\ FirstCut(p, F, one, S2) \subseteq W
      BY <2>1, NarrowFacts
    <2> QED
      BY <2>2 DEF one, FirstCut
  <1> HIDE DEF W
  <1>7. \A w \in W : W = {w}
    <2> SUFFICES ASSUME NEW w \in W, NEW x \in W PROVE x = w
      OBVIOUS
    <2>1. IsFiniteSet(W)
      BY <1>5, <1>6, FS_Subset DEF Polled
    <2>2. Cardinality(W) \in Nat /\ Cardinality(W) # 0
      BY <2>1, FS_EmptySet, FS_CardinalityType
    <2>3. Cardinality(W) = 1
      BY <1>6, <2>2
    <2> QED
      BY <2>1, <2>3, FS_Singleton
  <1>8. W # {}
    BY <1>5, <1>6, FS_EmptySet
  <1> QED
    BY <1>1, <1>3, <1>4, <1>5, <1>6, <1>7, <1>8 DEF F

(* Options with no support do not matter to STAR.                          *)
LEMMA StarAlone ==
    ASSUME NEW p, Polled(p), NEW s, Supported(p) = {s}
    PROVE  count_star(p) = s
  <1> DEFINE F == Finalists(p)
             value == Stage(p, p.options, "score")
             pref == Stage(p, F, "preferences")
  <1>1. /\ s \in p.options /\ p.score[s] \in Nat /\ p.score[s] > 0
        /\ \A o \in p.options \ {s} : p.score[o] \in Nat /\ ~(p.score[o] > 0)
    BY TotalsMean DEF Supported
  <1>2. /\ F \subseteq p.options /\ count_star(p) \in p.options
        /\ cut(p.options, value, 2).in \subseteq F
        /\ cut(F, pref, 1).in \subseteq {count_star(p)}
    BY <1>1, StarFacts DEF SameTotals
  <1> HIDE DEF F
  <1>3. IsFiniteSet(F) /\ \A a \in F : a \in p.options /\ \A o \in F : p.pairwise[a][o] \in Nat
    BY <1>2, FS_Subset, TotalsMean DEF Polled
  <1>4. s \in F
    <2>1. \A o \in p.options : value[o] = p.score[o]
      BY DEF Stage
    <2> HIDE DEF value
    <2>2. {o \in p.options : value[o] >= value[s]} = {s}
      BY <1>1, <2>1
    <2>3. Cardinality({o \in p.options : value[o] >= value[s]}) <= 2
      <3>1. Cardinality({s}) = 1
        BY FS_Singleton
      <3> QED
        BY <2>2, <3>1
    <2>4. s \in cut(p.options, value, 2).in
      BY <1>1, <2>3 DEF cut
    <2> QED
      BY <1>2, <2>4
  <1>5. \A o \in F \ {s} : \A a \in F : p.pairwise[o][a] = 0
    <2> SUFFICES ASSUME NEW o \in F \ {s}, NEW a \in F PROVE p.pairwise[o][a] = 0
      OBVIOUS
    <2>1. \A v \in DOMAIN p.weight : ~(p.weight[v] > 0 /\ p.rate[v][o] > 0)
      BY <1>1, <1>3, TotalsMean
    <2>2. \A v \in DOMAIN p.weight : ~(p.weight[v] > 0 /\ p.rate[v][o] > p.rate[v][a])
      BY <1>3, <2>1 DEF Polled
    <2>3. p.pairwise[o][a] \in Nat /\ ~(p.pairwise[o][a] > 0)
      BY <1>3, <2>2, TotalsMean
    <2> QED
      BY <2>3
  <1>6. \A o \in F \ {s} : p.pairwise[s][o] > 0
    <2> SUFFICES ASSUME NEW o \in F \ {s} PROVE p.pairwise[s][o] > 0
      OBVIOUS
    <2>1. PICK v \in DOMAIN p.weight : p.weight[v] > 0 /\ p.rate[v][s] > 0
      BY <1>1, TotalsMean
    <2>2. ~(p.rate[v][o] > 0)
      BY <1>1, <1>3, <2>1, TotalsMean
    <2>3. p.rate[v][s] > p.rate[v][o]
      BY <1>1, <1>3, <2>1, <2>2 DEF Polled
    <2> QED
      BY <1>1, <1>3, <2>1, <2>3, TotalsMean
  <1>7. /\ \A o \in F \ {s} : pref[o] = 0
        /\ F # {s} => pref[s] > 0
        /\ pref[s] \in Nat
    <2>1. \A o \in F : pref[o] = SumFunctionOnSet(p.pairwise[o], F)
      BY DEF Stage
    <2> HIDE DEF pref
    <2>2. \A o \in F \ {s} : pref[o] = 0
      <3> SUFFICES ASSUME NEW o \in F \ {s} PROVE pref[o] = 0
        OBVIOUS
      <3> DEFINE f == p.pairwise[o]
      <3>1. \A a \in F : f[a] = 0
        BY <1>5
      <3> HIDE DEF f
      <3>2. /\ SumFunctionOnSet(f, F) \in Nat
            /\ SumFunctionOnSet(f, F) > 0 <=> \E a \in F : f[a] > 0
        BY <1>3, <3>1, SumIsPositive
      <3> QED
        BY <2>1, <3>1, <3>2 DEF f
    <2>3. pref[s] \in Nat /\ (F # {s} => pref[s] > 0)
      <3> DEFINE f == p.pairwise[s]
      <3>1. \A a \in F : f[a] \in Nat /\ (a # s => f[a] > 0)
        BY <1>3, <1>4, <1>6
      <3> HIDE DEF f
      <3>2. /\ SumFunctionOnSet(f, F) \in Nat
            /\ SumFunctionOnSet(f, F) > 0 <=> \E a \in F : f[a] > 0
        BY <1>3, <3>1, SumIsPositive
      <3> QED
        BY <1>4, <2>1, <3>1, <3>2 DEF f
    <2> QED
      BY <2>2, <2>3
  <1>8. s \in cut(F, pref, 1).in
    <2> HIDE DEF pref
    <2>1. {o \in F : pref[o] >= pref[s]} = {s}
      BY <1>4, <1>7
    <2>2. Cardinality({o \in F : pref[o] >= pref[s]}) <= 1
      BY <2>1, FS_Singleton
    <2> QED
      BY <1>4, <2>2 DEF cut
  <1> QED
    BY <1>2, <1>8

LEMMA StarSame ==
    ASSUME NEW p, Polled(p), NEW a \in Supported(p), NEW b \in Supported(p), a # b,
           NEW q, q = [p EXCEPT !.options = Supported(p)]
    PROVE  count_star(q) = count_star(p)
  <1> DEFINE S == Supported(p)
             O == p.options
             v1 == Stage(p, O, "score")
             v2 == Stage(q, S, "score")
             c1 == cut(O, v1, 2)
             c2 == cut(S, v2, 2)
             S1 == <<"score", "preferences", "five_stars", "priority">>
             S2 == <<"preferences", "score", "five_stars", "priority">>
  <1>1. q.options = S /\ SameTotals(p, q)
    BY DEF SameTotals, Polled, _rated_totals
  <1>2. /\ IsFiniteSet(O) /\ S \subseteq O /\ IsFiniteSet(S)
        /\ \A o \in O : p.score[o] \in Nat /\ (o \in S <=> p.score[o] > 0)
    BY FS_Subset, TotalsMean DEF Polled, Supported
  <1>3. /\ \A o \in O : v1[o] = p.score[o]
        /\ \A o \in S : v2[o] = p.score[o]
    BY <1>1 DEF Stage, SameTotals
  <1> HIDE DEF v1, v2, S
  <1> DEFINE From(o) == {x \in O : v1[x] >= v1[o]}
             Above(o) == {x \in O : v1[x] > v1[o]}
  <1>4. \A o \in S : /\ From(o) = {x \in S : v2[x] >= v2[o]}
                     /\ Above(o) = {x \in S : v2[x] > v2[o]}
    BY <1>2, <1>3
  <1>5. ASSUME NEW o \in O \ S
        PROVE  ~(Cardinality(From(o)) <= 2) /\ ~(Cardinality(Above(o)) < 2)
    <2>1. {a, b} \subseteq Above(o) /\ {a, b} \union {o} \subseteq From(o) /\ o \notin {a, b}
      BY <1>2, <1>3, <1>5 DEF S
    <2>2. Cardinality({a, b}) = 2 /\ Cardinality({a, b} \union {o}) = 3
      <3>1. Cardinality({a}) = 1 /\ IsFiniteSet({a}) /\ b \notin {a}
        BY FS_Singleton
      <3>2. Cardinality({a} \union {b}) = Cardinality({a}) + 1 /\ IsFiniteSet({a} \union {b})
        BY <3>1, FS_AddElement
      <3>3. {a} \union {b} = {a, b}
        OBVIOUS
      <3>4. Cardinality({a, b}) = 2 /\ IsFiniteSet({a, b})
        BY <3>1, <3>2, <3>3
      <3>5. Cardinality({a, b} \union {o}) = Cardinality({a, b}) + 1
        BY <2>1, <3>4, FS_AddElement
      <3> QED
        BY <3>4, <3>5
    <2>3. /\ IsFiniteSet(From(o)) /\ Cardinality(From(o)) \in Nat
          /\ IsFiniteSet(Above(o)) /\ Cardinality(Above(o)) \in Nat
      BY <1>2, FS_Subset, FS_CardinalityType
    <2> HIDE DEF From, Above
    <2>4. Cardinality({a, b}) <= Cardinality(Above(o))
      BY <2>1, <2>3, FS_Subset
    <2>5. Cardinality({a, b} \union {o}) <= Cardinality(From(o))
      BY <2>1, <2>3, FS_Subset
    <2> QED
      BY <2>2, <2>3, <2>4, <2>5
  <1>6. /\ c1.in = {o \in O : Cardinality(From(o)) <= 2}
        /\ c1.tied = IF Cardinality(c1.in) >= 2 \/ c1.in = O THEN {}
                     ELSE {o \in O \ c1.in : Cardinality(Above(o)) < 2}
    BY DEF cut
  <1>7. /\ c2.in = {o \in S : Cardinality({x \in S : v2[x] >= v2[o]}) <= 2}
        /\ c2.tied = IF Cardinality(c2.in) >= 2 \/ c2.in = S THEN {}
                     ELSE {o \in S \ c2.in : Cardinality({x \in S : v2[x] > v2[o]}) < 2}
    BY DEF cut
  <1> HIDE DEF c1, c2, From, Above
  <1>8. c1.in = c2.in
    BY <1>2, <1>4, <1>5, <1>6, <1>7
  <1>9. c1.tied = c2.tied
    <2>1. Cardinality(S) >= 2
      <3>1. Cardinality({a}) = 1 /\ IsFiniteSet({a}) /\ b \notin {a}
        BY FS_Singleton
      <3>2. Cardinality({a} \union {b}) = 2
        BY <3>1, FS_AddElement
      <3>3. {a} \union {b} \subseteq S
        BY DEF S
      <3>4. Cardinality({a} \union {b}) <= Cardinality(S)
        BY <1>2, <3>3, FS_Subset
      <3>5. Cardinality(S) \in Nat
        BY <1>2, FS_CardinalityType
      <3> QED
        BY <3>2, <3>4, <3>5
    <2> QED
      BY <1>2, <1>4, <1>5, <1>6, <1>7, <1>8, <2>1
  <1>10. Narrowed(q, 2, Untouched(S), S1[1]) = Narrowed(p, 2, Untouched(O), S1[1])
    <2>1. 2 - Cardinality({}) = 2 /\ S1[1] = "score"
      BY FS_EmptySet
    <2>2. Narrowed(q, 2, Untouched(S), S1[1]) = [in |-> {} \union c2.in, tied |-> c2.tied]
      BY <2>1 DEF Narrowed, Untouched, c2, v2
    <2>3. Narrowed(p, 2, Untouched(O), S1[1]) = [in |-> {} \union c1.in, tied |-> c1.tied]
      BY <2>1 DEF Narrowed, Untouched, c1, v1
    <2> QED
      BY <1>8, <1>9, <2>2, <2>3
  <1>11. DOMAIN S1 = 1 .. 4 /\ DOMAIN S2 = 1 .. 4
    OBVIOUS
  <1>12. Finalists(q) = Narrow(q, S, 2, S1) /\ Finalists(p) = Narrow(p, O, 2, S1)
    BY <1>1 DEF Finalists
  <1>13. /\ count_star(q) = CHOOSE o \in Narrow(q, Finalists(q), 1, S2) : TRUE
         /\ count_star(p) = CHOOSE o \in Narrow(p, Finalists(p), 1, S2) : TRUE
    BY DEF count_star
  <1> DEFINE four == 4
             two == 2
             one == 1
             F == Finalists(p)
             G == Finalists(q)
  <1>14. four \in Nat \ {0} /\ DOMAIN S1 = 1 .. four /\ DOMAIN S2 = 1 .. four
    BY <1>11
  <1>15. /\ Narrowed(q, two, Untouched(S), S1[1]) = Narrowed(p, two, Untouched(O), S1[1])
         /\ G = Narrow(q, S, two, S1) /\ F = Narrow(p, O, two, S1)
    BY <1>10, <1>12
  <1> HIDE DEF S1, S2, O, four, two, one, F, G
  <1>16. G = F
    BY <1>1, <1>14, <1>15, NarrowAlike
  <1>17. \A acc, name : Narrowed(q, one, acc, name) = Narrowed(p, one, acc, name)
    BY <1>1, StagesAlike
  <1>18. Narrow(q, F, one, S2) = Narrow(p, F, one, S2)
    BY <1>1, <1>14, <1>17, NarrowAlike
  <1> QED
    BY <1>13, <1>16, <1>18 DEF F, G, one

(* STAR, with the winners taken off the ballots before the next is counted.*)
LEMMA StarSeats ==
    ASSUME NEW p, Polled(p), NEW one,
           one = IF Supported(p) = {} THEN {} ELSE {count_star(p)}
    PROVE  /\ NextSeat(Supported(p), {}, one)
           /\ NextSeat(Supported(p), one, count_bloc_star(p, 2))
           /\ NextSeat(Supported(p), count_bloc_star(p, 2), count_bloc_star(p, 3))
  <1> DEFINE S == Supported(p)
             Filled(sofar) ==
                 LET rest == S \ sofar
                 IN  sofar \union
                     (IF Cardinality(rest) <= 1 THEN rest
                      ELSE {count_star([p EXCEPT !.options = rest])})
             V == SUBSET S
             step == [sofar \in V |-> Filled(sofar)]
             Elected(n) == CHOOSE f : f = [k \in 0 .. n |-> IF k = 0 THEN {} ELSE Filled(f[k - 1])]
  <1>1. S \subseteq p.options /\ IsFiniteSet(S)
    BY FS_Subset DEF Supported, Polled
  <1>2. ASSUME NEW sofar \in V
        PROVE  NextSeat(S, sofar, Filled(sofar)) /\ Filled(sofar) \in V
    <2> DEFINE rest == S \ sofar
               q == [p EXCEPT !.options = rest]
    <2>1. IsFiniteSet(rest) /\ Cardinality(rest) \in Nat /\ rest \subseteq p.options
      BY <1>1, FS_Subset, FS_CardinalityType
    <2>2. CASE rest = {}
      <3>1. Cardinality(rest) <= 1
        BY <2>2, FS_EmptySet
      <3>2. Filled(sofar) = sofar \union rest
        BY <3>1
      <3> QED
        BY <2>2, <3>2 DEF NextSeat
    <2>3. CASE rest # {} /\ Cardinality(rest) <= 1
      <3>1. Cardinality(rest) = 1
        BY <2>1, <2>3, FS_EmptySet
      <3>2. PICK o : rest = {o}
        BY <2>1, <3>1, FS_Singleton
      <3>3. Filled(sofar) = sofar \union rest
        BY <2>3
      <3>4. o \in S \ sofar
        BY <3>2
      <3> QED
        BY <3>2, <3>3, <3>4 DEF NextSeat
    <2>4. CASE rest # {} /\ ~(Cardinality(rest) <= 1)
      <3>1. q.options = rest /\ SameTotals(p, q)
        BY DEF SameTotals, Polled, _rated_totals
      <3>2. Filled(sofar) = sofar \union {count_star(q)}
        BY <2>4
      <3> HIDE DEF rest, q
      <3>3. count_star(q) \in rest
        BY <2>1, <2>4, <3>1, StarFacts
      <3>4. count_star(q) \in S \ sofar
        BY <3>3 DEF rest
      <3> HIDE DEF S, Filled
      <3> QED
        BY <3>2, <3>4 DEF NextSeat
    <2> QED
      BY <2>2, <2>3, <2>4
  <1>3. \A n : count_bloc_star(p, n) = Elected(n)[n]
    BY DEF count_bloc_star
  <1>4. one = Filled({})
    <2>1. S \ {} = S
      OBVIOUS
    <2>2. CASE S = {}
      BY <2>2, FS_EmptySet
    <2>3. CASE S # {} /\ Cardinality(S) <= 1
      <3>1. Cardinality(S) \in Nat /\ Cardinality(S) # 0
        BY <1>1, <2>3, FS_EmptySet, FS_CardinalityType
      <3>2. Cardinality(S) = 1
        BY <2>3, <3>1
      <3>3. PICK s : S = {s}
        BY <1>1, <3>2, FS_Singleton
      <3>4. count_star(p) = s
        BY <3>3, StarAlone
      <3> QED
        BY <2>3, <3>3, <3>4
    <2>4. CASE S # {} /\ ~(Cardinality(S) <= 1)
      <3>1. PICK a \in S : TRUE
        BY <2>4
      <3>2. PICK b \in S : a # b
        <4>1. S # {a}
          <5>1. Cardinality({a}) = 1
            BY FS_Singleton
          <5> QED
            BY <2>4, <5>1
        <4> QED
          BY <3>1, <4>1
      <3>3. count_star([p EXCEPT !.options = S]) = count_star(p)
        BY <3>1, <3>2, StarSame
      <3> QED
        BY <2>1, <2>4, <3>3
    <2> QED
      BY <2>2, <2>3, <2>4
  <1> HIDE DEF S, Filled
  <1>5. ASSUME NEW n \in 2 .. 3
        PROVE  /\ Elected(n)[1] = Filled({}) /\ Elected(n)[2] = Filled(Filled({}))
               /\ n = 3 => Elected(n)[3] = Filled(Filled(Filled({})))
    <2> DEFINE Counted(f) == f = [k \in 0 .. n |-> IF k = 0 THEN {} ELSE Filled(f[k - 1])]
    <2>1. \E f : Counted(f)
      <3> DEFINE nobody == {}
      <3>1. /\ nobody \in V /\ n \in Nat
            /\ step \in [V -> V] /\ \A x \in V : step[x] = Filled(x)
        BY <1>2
      <3> HIDE DEF step, V, nobody
      <3>2. PICK f : InRounds(V, nobody, step, n, f)
        BY <3>1, RoundsExist
      <3> USE DEF InRounds
      <3>3. \A k \in 0 .. n : f[k] = IF k = 0 THEN {} ELSE Filled(f[k - 1])
        <4> SUFFICES ASSUME NEW k \in 1 .. n PROVE f[k] = Filled(f[k - 1])
          BY <3>2 DEF nobody
        <4>1. f[k - 1] \in V
          BY <3>2
        <4> QED
          BY <3>1, <3>2, <4>1
      <3>4. f = [k \in 0 .. n |-> f[k]]
        BY <3>2
      <3>5. Counted(f)
        BY <3>3, <3>4
      <3> QED
        BY <3>5
    <2>2. Counted(Elected(n))
      <3> HIDE DEF Counted
      <3> DEFINE f == CHOOSE x : Counted(x)
      <3>1. Counted(f)
        BY <2>1
      <3>2. f = Elected(n)
        BY DEF Counted
      <3> QED
        BY <3>1, <3>2
    <2> DEFINE f == Elected(n)
    <2> HIDE DEF f
    <2>3. \A k \in 0 .. n : f[k] = IF k = 0 THEN {} ELSE Filled(f[k - 1])
      BY <2>2 DEF f
    <2> QED
      BY <2>3 DEF f
  <1> DEFINE two == Filled(Filled({}))
             three == Filled(two)
  <1>6. count_bloc_star(p, 2) = two /\ count_bloc_star(p, 3) = three
    <2> HIDE DEF Elected
    <2>1. 2 \in 2 .. 3 /\ 3 \in 2 .. 3
      OBVIOUS
    <2> QED
      BY <1>3, <1>5, <2>1
  <1>7. NextSeat(S, {}, one) /\ one \in V
    BY <1>2, <1>4
  <1>8. NextSeat(S, one, two) /\ two \in V
    BY <1>2, <1>4, <1>7
  <1>9. NextSeat(S, two, three)
    BY <1>2, <1>8
  <1> QED
    BY <1>6, <1>7, <1>8, <1>9 DEF S

(* Comparing grade by grade orders sequences of grades.                    *)
LEMMA WorseOrders ==
    ASSUME NEW n \in Nat, NEW s, NEW t, NEW u,
           \A i \in 1 .. n : s[i] \in Int /\ t[i] \in Int /\ u[i] \in Int
    PROVE  /\ Worse(s, t, n) => ~Worse(t, s, n)
           /\ Worse(s, t, n) /\ ~Worse(u, t, n) => Worse(s, u, n)
           /\ ~Worse(t, s, n) /\ Worse(t, u, n) => Worse(s, u, n)
           /\ ~Worse(s, t, n) /\ ~Worse(t, s, n) => \A i \in 1 .. n : s[i] = t[i]
  <1>1. ASSUME NEW x, NEW y, \A i \in 1 .. n : x[i] \in Int /\ y[i] \in Int
        PROVE  \/ \A i \in 1 .. n : x[i] = y[i]
               \/ \E i \in 1 .. n : x[i] # y[i] /\ \A j \in 1 .. i - 1 : x[j] = y[j]
    <2> DEFINE D == {i \in 1 .. n : x[i] # y[i]}
    <2>1. CASE D = {}
      BY <2>1
    <2>2. CASE D # {}
      <3>1. D \in SUBSET Nat
        OBVIOUS
      <3>2. PICK i \in D : \A j \in D : i <= j
        <4> HIDE DEF D
        <4> QED
          BY <2>2, <3>1, LeastElement
      <3>3. \A j \in 1 .. i - 1 : j \notin D /\ j \in 1 .. n
        BY <3>2
      <3> QED
        BY <3>2, <3>3
    <2> QED
      BY <2>1, <2>2
  <1>2. ASSUME NEW x, NEW y, \A i \in 1 .. n : x[i] \in Int /\ y[i] \in Int
        PROVE  Worse(x, y, n) \/ Worse(y, x, n) \/ \A i \in 1 .. n : x[i] = y[i]
    <2> SUFFICES ASSUME NEW i \in 1 .. n, x[i] # y[i], \A j \in 1 .. i - 1 : x[j] = y[j]
                 PROVE  Worse(x, y, n) \/ Worse(y, x, n)
      BY <1>1, <1>2
    <2>1. x[i] < y[i] \/ y[i] < x[i]
      BY <1>2
    <2> QED
      BY <2>1 DEF Worse
  <1>3. ASSUME NEW x, NEW y, \A i \in 1 .. n : x[i] \in Int /\ y[i] \in Int,
               Worse(x, y, n), Worse(y, x, n)
        PROVE  FALSE
    <2>1. PICK i \in 1 .. n : x[i] < y[i] /\ \A j \in 1 .. i - 1 : x[j] = y[j]
      BY <1>3 DEF Worse
    <2>2. PICK k \in 1 .. n : y[k] < x[k] /\ \A j \in 1 .. k - 1 : y[j] = x[j]
      BY <1>3 DEF Worse
    <2>3. i < k \/ i = k \/ k < i
      OBVIOUS
    <2>4. (i < k => i \in 1 .. k - 1) /\ (k < i => k \in 1 .. i - 1)
      OBVIOUS
    <2> QED
      BY <1>3, <2>1, <2>2, <2>3, <2>4
  <1>4. ASSUME NEW x, NEW y, NEW z,
               \A i \in 1 .. n : x[i] \in Int /\ y[i] \in Int /\ z[i] \in Int,
               Worse(x, y, n), Worse(y, z, n) \/ \A i \in 1 .. n : y[i] = z[i]
        PROVE  Worse(x, z, n)
    <2>1. PICK i \in 1 .. n : x[i] < y[i] /\ \A j \in 1 .. i - 1 : x[j] = y[j]
      BY <1>4 DEF Worse
    <2>2. \A j \in 1 .. i - 1 : j \in 1 .. n
      OBVIOUS
    <2>3. CASE \A k \in 1 .. n : y[k] = z[k]
      BY <2>1, <2>2, <2>3 DEF Worse
    <2>4. CASE Worse(y, z, n)
      <3>1. PICK k \in 1 .. n : y[k] < z[k] /\ \A j \in 1 .. k - 1 : y[j] = z[j]
        BY <2>4 DEF Worse
      <3>2. CASE i <= k
        <4>1. x[i] < z[i]
          <5>1. y[i] <= z[i]
            <6>1. i = k \/ i \in 1 .. k - 1
              BY <3>2
            <6> QED
              BY <1>4, <3>1, <6>1
          <5> QED
            BY <1>4, <2>1, <5>1
        <4>2. \A j \in 1 .. i - 1 : x[j] = z[j]
          <5> SUFFICES ASSUME NEW j \in 1 .. i - 1 PROVE x[j] = z[j]
            OBVIOUS
          <5>1. j \in 1 .. k - 1
            BY <3>2
          <5> QED
            BY <2>1, <3>1, <5>1
        <4> QED
          BY <4>1, <4>2 DEF Worse
      <3>3. CASE k < i
        <4>1. x[k] < z[k]
          <5>1. k \in 1 .. i - 1
            BY <3>3
          <5> QED
            BY <2>1, <3>1, <5>1
        <4>2. \A j \in 1 .. k - 1 : x[j] = z[j]
          <5> SUFFICES ASSUME NEW j \in 1 .. k - 1 PROVE x[j] = z[j]
            OBVIOUS
          <5>1. j \in 1 .. i - 1
            BY <3>3
          <5> QED
            BY <2>1, <3>1, <5>1
        <4> QED
          BY <4>1, <4>2 DEF Worse
      <3> QED
        BY <3>2, <3>3
    <2> QED
      BY <1>4, <2>3, <2>4
  <1>5. ASSUME NEW x, NEW y, NEW z,
               \A i \in 1 .. n : x[i] \in Int /\ y[i] \in Int /\ z[i] \in Int,
               \A i \in 1 .. n : x[i] = y[i], Worse(y, z, n)
        PROVE  Worse(x, z, n)
    <2>1. PICK i \in 1 .. n : y[i] < z[i] /\ \A j \in 1 .. i - 1 : y[j] = z[j]
      BY <1>5 DEF Worse
    <2>2. \A j \in 1 .. i - 1 : j \in 1 .. n
      OBVIOUS
    <2> QED
      BY <1>5, <2>1, <2>2 DEF Worse
  <1>6. Worse(s, t, n) => ~Worse(t, s, n)
    BY <1>3
  <1>7. ASSUME Worse(s, t, n), ~Worse(u, t, n) PROVE Worse(s, u, n)
    <2>1. Worse(t, u, n) \/ \A i \in 1 .. n : t[i] = u[i]
      BY <1>2, <1>7
    <2> QED
      BY <1>4, <1>7, <2>1
  <1>8. ASSUME ~Worse(t, s, n), Worse(t, u, n) PROVE Worse(s, u, n)
    <2>1. Worse(s, t, n) \/ \A i \in 1 .. n : s[i] = t[i]
      BY <1>2, <1>8
    <2> QED
      BY <1>4, <1>5, <1>8, <2>1
  <1>9. ~Worse(s, t, n) /\ ~Worse(t, s, n) => \A i \in 1 .. n : s[i] = t[i]
    BY <1>2
  <1> QED
    BY <1>6, <1>7, <1>8, <1>9

Decided(h, priority, grades, all, a, b) ==
    _mj_outcome(h, {a, b}, priority) = a <=>
        \/ Worse(grades[b], grades[a], all)
        \/ ~Worse(grades[a], grades[b], all) /\ priority[a] < priority[b]

(* Of two options the one with the better grades wins, or, if their grades *)
(* are all alike, the first by priority.                                   *)
LEMMA PairIsJudged ==
    ASSUME NEW pool, NEW all \in Nat, NEW h,
           \A o \in pool : h[o] \in Histograms /\ Weight(h[o]) = all,
           NEW priority, \A o \in pool : priority[o] \in Int,
           \A a, o \in pool : priority[a] = priority[o] => a = o,
           NEW a \in pool, NEW b \in pool, a # b
    PROVE  Decided(h, priority, GradesOf(h, pool, all), all, a, b)
  <1> DEFINE S == Survivors(h, {a, b})
             g == GradesOf(h, pool, all)
             k == GradesOf(h, {a, b}, all)
             w == First(S, priority)
  <1>1. IsFiniteSet({a, b}) /\ {a, b} # {}
    <2>1. IsFiniteSet({a}) /\ {a, b} = {a} \union {b}
      BY FS_Singleton
    <2> QED
      BY <2>1, FS_AddElement
  <1>2. S = Best({a, b}, k, all) /\ Graded({a, b}, k, all) /\ S # {} /\ S \subseteq {a, b}
    <2>1. \A o \in {a, b} : h[o] \in Histograms /\ Weight(h[o]) = all
      OBVIOUS
    <2> QED
      BY <1>1, <2>1, JudgedGrades
  <1>3. k[a] = g[a] /\ k[b] = g[b]
    BY DEF GradesOf
  <1>4. \A i \in 1 .. all : g[a][i] \in Int /\ g[b][i] \in Int
    BY <1>2, <1>3 DEF Graded
  <1> DEFINE up == Worse(g[b], g[a], all)
             down == Worse(g[a], g[b], all)
  <1>5. up => ~down
    BY <1>4, WorseOrders
  <1>6. ~Worse(g[a], g[a], all) /\ ~Worse(g[b], g[b], all)
    BY <1>4 DEF Worse
  <1>7. (a \in S <=> ~down) /\ (b \in S <=> ~up)
    <2> HIDE DEF k
    <2> QED
      BY <1>2, <1>3, <1>6 DEF Best
  <1>8. w \in S /\ \A o \in S : priority[w] <= priority[o]
    <2>1. IsFiniteSet(S) /\ \A o \in S : priority[o] \in Int
      BY <1>1, <1>2, FS_Subset
    <2> HIDE DEF S
    <2> QED
      BY <1>2, <2>1, FirstFacts
  <1>9. w = a <=> a \in S /\ (b \in S => priority[a] < priority[b])
    <2> HIDE DEF S, w
    <2>1. /\ w = a \/ w = b
          /\ priority[a] \in Int /\ priority[b] \in Int /\ priority[a] # priority[b]
      BY <1>2, <1>8
    <2> QED
      BY <1>2, <1>8, <2>1
  <1>10. _mj_outcome(h, {a, b}, priority) = w
    BY DEF _mj_outcome
  <1> HIDE DEF up, down, S, w, g
  <1>11. w = a <=> up \/ (~down /\ priority[a] < priority[b])
    BY <1>5, <1>7, <1>9
  <1> QED
    BY <1>10, <1>11 DEF up, down, g, Decided

(* What decides between two options orders them all.                       *)
LEMMA JudgedOrder ==
    ASSUME NEW pool, NEW all \in Nat, NEW g,
           \A o \in pool : \A i \in 1 .. all : g[o][i] \in Int,
           NEW priority, \A o \in pool : priority[o] \in Int,
           \A a, o \in pool : priority[a] = priority[o] => a = o,
           NEW R,
           \A a, b \in pool : a # b => (<<a, b>> \in R <=>
               \/ Worse(g[b], g[a], all)
               \/ ~Worse(g[a], g[b], all) /\ priority[a] < priority[b])
    PROVE  Total(pool, R)
  <1> DEFINE Short(a, b) == Worse(g[a], g[b], all)
  <1>1. \A a, b \in pool : Short(a, b) => ~Short(b, a)
    BY WorseOrders
  <1>2. \A a, b, c \in pool :
            /\ Short(a, b) /\ ~Short(c, b) => Short(a, c)
            /\ ~Short(b, a) /\ Short(b, c) => Short(a, c)
    <2> SUFFICES ASSUME NEW a \in pool, NEW b \in pool, NEW c \in pool
                 PROVE  /\ Short(a, b) /\ ~Short(c, b) => Short(a, c)
                        /\ ~Short(b, a) /\ Short(b, c) => Short(a, c)
      OBVIOUS
    <2>1. \A i \in 1 .. all : g[a][i] \in Int /\ g[b][i] \in Int /\ g[c][i] \in Int
      OBVIOUS
    <2> QED
      BY <2>1, WorseOrders
  <1>3. \A a, b \in pool : a # b => (<<a, b>> \in R <=>
            Short(b, a) \/ (~Short(a, b) /\ priority[a] < priority[b]))
    OBVIOUS
  <1> HIDE DEF Short
  <1>4. ASSUME NEW a \in pool, NEW b \in pool, a # b
        PROVE  <<a, b>> \in R <=> <<b, a>> \notin R
    <2>1. /\ priority[a] \in Int /\ priority[b] \in Int /\ priority[a] # priority[b]
          /\ Short(a, b) => ~Short(b, a)
      BY <1>1, <1>4
    <2>2. /\ <<a, b>> \in R <=> Short(b, a) \/ (~Short(a, b) /\ priority[a] < priority[b])
          /\ <<b, a>> \in R <=> Short(a, b) \/ (~Short(b, a) /\ priority[b] < priority[a])
      BY <1>3, <1>4
    <2> QED
      BY <2>1, <2>2
  <1>5. ASSUME NEW a \in pool, NEW b \in pool, NEW c \in pool, a # b, b # c, a # c,
               <<a, b>> \in R, <<b, c>> \in R
        PROVE  <<a, c>> \in R
    <2>1. /\ Short(b, a) \/ (~Short(a, b) /\ priority[a] < priority[b])
          /\ Short(c, b) \/ (~Short(b, c) /\ priority[b] < priority[c])
          /\ <<a, c>> \in R <=> Short(c, a) \/ (~Short(a, c) /\ priority[a] < priority[c])
      BY <1>3, <1>5
    <2>2. priority[a] < priority[b] /\ priority[b] < priority[c] => priority[a] < priority[c]
      <3>1. priority[a] \in Int /\ priority[b] \in Int /\ priority[c] \in Int
        OBVIOUS
      <3> QED
        BY <3>1
    <2>3. Short(c, b) /\ ~Short(a, b) => Short(c, a)
      BY <1>2
    <2>4. ~Short(b, c) /\ Short(b, a) => Short(c, a)
      BY <1>2
    <2>5. Short(a, c) /\ ~Short(b, c) => Short(a, b)
      BY <1>2
    <2>6. Short(c, b) => ~Short(b, c)
      BY <1>1
    <2>7. Short(b, a) => ~Short(a, b)
      BY <1>1
    <2> QED
      BY <2>1, <2>2, <2>3, <2>4, <2>5, <2>6, <2>7
  <1> QED
    BY <1>4, <1>5 DEF Total

(* The single winner of majority judgment is first in the order by pairs.  *)
LEMMA JudgedFirst ==
    ASSUME NEW pool, IsFiniteSet(pool), NEW all \in Nat, NEW h,
           \A o \in pool : h[o] \in Histograms /\ Weight(h[o]) = all,
           NEW priority, \A o \in pool : priority[o] \in Int,
           \A a, o \in pool : priority[a] = priority[o] => a = o,
           NEW x \in pool, \E r \in Ratings \ {0} : h[x][r] > 0,
           NEW w, w = _mj_outcome(h, pool, priority)
    PROVE  /\ w \in pool /\ \E r \in Ratings \ {0} : h[w][r] > 0
           /\ \A q \in pool : q # w => _mj_outcome(h, {w, q}, priority) = w
  <1> DEFINE g == GradesOf(h, pool, all)
             S == Survivors(h, pool)
  <1>1. /\ S = Best(pool, g, all) /\ Graded(pool, g, all) /\ S # {} /\ S \subseteq pool
    BY JudgedGrades
  <1>2. w \in S /\ \A o \in S : priority[w] <= priority[o]
    <2>1. IsFiniteSet(S) /\ \A o \in S : priority[o] \in Int
      BY <1>1, FS_Subset
    <2>2. w = First(S, priority)
      BY DEF _mj_outcome
    <2> HIDE DEF S
    <2> QED
      BY <1>1, <2>1, <2>2, FirstFacts
  <1>3. \A o \in pool : \A i \in 1 .. all : g[o][i] = GradeAt(h[o], TakenPlace(all, i))
    BY DEF GradesOf
  <1>4. g = GradesOf(h, pool, all)
    OBVIOUS
  <1> HIDE DEF g, S
  <1>5. w \in pool /\ \A q \in pool : ~Worse(g[w], g[q], all)
    BY <1>1, <1>2 DEF Best
  <1>6. \A o \in pool : \A i \in 1 .. all : g[o][i] \in Int
    BY <1>1 DEF Graded
  <1>7. \E r \in Ratings \ {0} : h[w][r] > 0
    <2> SUFFICES ASSUME ~ \E r \in Ratings \ {0} : h[w][r] > 0 PROVE FALSE
      OBVIOUS
    <2> DEFINE bottom(o) == UpToGrade(h[o], 0)
    <2>1. 0 \in Ratings /\ TopRating \in Ratings /\ 0 <= TopRating
      BY RatingAssumption DEF Ratings
    <2>2. bottom(w) \in Nat /\ bottom(w) = all
      <3>1. ~(bottom(w) < all)
        BY <1>5, SomeGradeAbove
      <3>2. bottom(w) <= all /\ bottom(w) \in Nat
        BY <1>5, <2>1, GradeSums
      <3> QED
        BY <3>1, <3>2
    <2>3. bottom(x) \in Nat /\ bottom(x) < all
      BY <2>1, SomeGradeAbove, GradeSums
    <2>4. all \in 1 .. all /\ TakenPlace(all, all) = all
      BY <2>3 DEF TakenPlace
    <2>5. \A i \in 1 .. all : TakenPlace(all, i) \in 0 .. all
      BY DEF TakenPlace
    <2>6. \A o \in pool : \A i \in 1 .. all :
              /\ GradeAt(h[o], TakenPlace(all, i)) \in Nat
              /\ bottom(o) >= TakenPlace(all, i) <=> GradeAt(h[o], TakenPlace(all, i)) <= 0
      <3> SUFFICES ASSUME NEW o \in pool, NEW i \in 1 .. all
                   PROVE  /\ GradeAt(h[o], TakenPlace(all, i)) \in Nat
                          /\ bottom(o) >= TakenPlace(all, i) <=>
                                 GradeAt(h[o], TakenPlace(all, i)) <= 0
        OBVIOUS
      <3>1. TakenPlace(all, i) \in 0 .. Weight(h[o]) /\ h[o] \in Histograms
        BY <2>5
      <3> QED
        BY <2>1, <3>1, GradeMeans DEF Ratings
    <2>7. \A i \in 1 .. all : g[w][i] = 0
      BY <1>3, <1>5, <2>2, <2>5, <2>6
    <2>8. g[x][all] > 0 /\ \A i \in 1 .. all : g[x][i] \in Nat
      BY <1>3, <2>3, <2>4, <2>6
    <2>9. ~Worse(g[x], g[w], all)
      BY <2>7, <2>8 DEF Worse
    <2>10. g[w][all] = g[x][all]
      BY <1>5, <1>6, <2>4, <2>9, WorseOrders
    <2> QED
      BY <2>4, <2>7, <2>8, <2>10
  <1>8. ASSUME NEW q \in pool, q # w PROVE _mj_outcome(h, {w, q}, priority) = w
    <2>1. _mj_outcome(h, {w, q}, priority) = w <=>
              Worse(g[q], g[w], all) \/ (~Worse(g[w], g[q], all) /\ priority[w] < priority[q])
      <3>1. Decided(h, priority, GradesOf(h, pool, all), all, w, q)
        BY <1>5, <1>8, PairIsJudged
      <3> QED
        BY <1>4, <3>1 DEF Decided
    <2>2. ASSUME ~Worse(g[q], g[w], all) PROVE priority[w] < priority[q]
      <3>1. ASSUME NEW o \in pool PROVE ~Worse(g[q], g[o], all)
        <4>1. \A i \in 1 .. all : g[w][i] \in Int /\ g[q][i] \in Int /\ g[o][i] \in Int
          BY <1>5, <1>6
        <4> QED
          BY <1>5, <2>2, <4>1, WorseOrders
      <3>2. q \in S
        BY <1>1, <3>1 DEF Best
      <3>3. priority[w] <= priority[q] /\ priority[w] # priority[q]
        BY <1>2, <1>5, <1>8, <3>2
      <3> QED
        BY <1>5, <3>3
    <2> QED
      BY <1>5, <2>1, <2>2
  <1> QED
    BY <1>5, <1>7, <1>8

LEMMA MajoritySeats ==
    ASSUME NEW p, Polled(p),
           \A v \in DOMAIN p.weight : \A o \in p.options : p.rate[v][o] \in Ratings,
           NEW all \in Nat,
           \A o \in p.options : /\ p.histogram[o] \in Histograms
                                /\ Weight(p.histogram[o]) = all
    PROVE  /\ NextSeat(Supported(p), {}, count_majority_judgment(p, 1))
           /\ NextSeat(Supported(p), count_majority_judgment(p, 1),
                       count_majority_judgment(p, 2))
           /\ NextSeat(Supported(p), count_majority_judgment(p, 2),
                       count_majority_judgment(p, 3))
  <1> DEFINE h == p.histogram
             O == p.options
             pool == {o \in O : \E r \in Ratings \ {0} : h[o][r] > 0}
             S == Supported(p)
             R == {e \in S \X S : _mj_outcome(h, {e[1], e[2]}, p.priority) = e[1]}
             g == GradesOf(h, O, all)
             one == 1
             two == 2
             three == 3
  <1>1. /\ IsFiniteSet(O) /\ S \subseteq O /\ IsFiniteSet(S)
        /\ \A o \in O : p.priority[o] \in Int
        /\ \A a, o \in O : p.priority[a] = p.priority[o] => a = o
    BY FS_Subset DEF Supported, Polled, Untied
  <1>2. pool = S
    <2> SUFFICES ASSUME NEW o \in O
                 PROVE  (\E r \in Ratings \ {0} : h[o][r] > 0) <=> p.score[o] > 0
      BY DEF Supported
    <2>1. /\ p.score[o] > 0 <=> \E v \in DOMAIN p.weight : p.weight[v] > 0 /\ p.rate[v][o] > 0
          /\ \A r \in Ratings : h[o][r] > 0 <=>
                 \E v \in DOMAIN p.weight : p.weight[v] > 0 /\ p.rate[v][o] = r
      BY TotalsMean
    <2>2. \A r \in Ratings : r > 0 <=> r # 0
      BY RatingAssumption DEF Ratings
    <2> QED
      BY <2>1, <2>2
  <1>3. \A n : count_majority_judgment(p, n) =
            IF S = {} THEN {}
            ELSE IF n = 1 THEN {_mj_outcome(h, O, p.priority)}
            ELSE {o \in S : Cardinality({q \in S : q # o /\ _mj_outcome(h, {q, o}, p.priority) = q}) < n}
    BY <1>2 DEF count_majority_judgment, TopN
  <1>4. CASE S = {}
    BY <1>3, <1>4 DEF NextSeat
  <1>5. CASE S # {}
    <2>1. \A n : n # 1 => count_majority_judgment(p, n) = Top(S, R, n)
      <3>1. \A q, o \in S : <<q, o>> \in R <=> _mj_outcome(h, {q, o}, p.priority) = q
        OBVIOUS
      <3> DEFINE Past(o) == {q \in S : q # o /\ _mj_outcome(h, {q, o}, p.priority) = q}
                 Ahead(o) == {q \in S : q # o /\ <<q, o>> \in R}
      <3>2. \A o \in S : Past(o) = Ahead(o)
        <4> HIDE DEF R
        <4> QED
          BY <3>1
      <3>3. \A n : n # 1 =>
                count_majority_judgment(p, n) = {o \in S : Cardinality(Past(o)) < n}
        BY <1>3, <1>5
      <3>4. \A n : Top(S, R, n) = {o \in S : Cardinality(Ahead(o)) < n}
        BY DEF Top
      <3> HIDE DEF Past, Ahead, R, S
      <3> QED
        BY <3>2, <3>3, <3>4
    <2>2. Total(S, R)
      <3>1. \A o \in O : \A i \in 1 .. all : g[o][i] \in Int
        BY <1>1, <1>5, JudgedGrades DEF Graded
      <3>2. ASSUME NEW a \in S, NEW b \in S, a # b
            PROVE  <<a, b>> \in R <=>
                       \/ Worse(g[b], g[a], all)
                       \/ ~Worse(g[a], g[b], all) /\ p.priority[a] < p.priority[b]
        <4>1. <<a, b>> \in R <=> _mj_outcome(h, {a, b}, p.priority) = a
          OBVIOUS
        <4>2. a \in O /\ b \in O
          BY <1>1
        <4>3. g = GradesOf(h, O, all)
          OBVIOUS
        <4> HIDE DEF g, R, S
        <4>4. _mj_outcome(h, {a, b}, p.priority) = a <=>
                  \/ Worse(g[b], g[a], all)
                  \/ ~Worse(g[a], g[b], all) /\ p.priority[a] < p.priority[b]
          <5>1. Decided(h, p.priority, GradesOf(h, O, all), all, a, b)
            <6> HIDE DEF h, O
            <6> QED
              BY <1>1, <3>2, <4>2, PairIsJudged DEF h, O
          <5> QED
            BY <4>3, <5>1 DEF Decided
        <4> QED
          BY <4>1, <4>4
      <3> HIDE DEF R, g, S
      <3>3. /\ \A o \in S : \A i \in 1 .. all : g[o][i] \in Int
            /\ \A o \in S : p.priority[o] \in Int
            /\ \A a, o \in S : p.priority[a] = p.priority[o] => a = o
        BY <1>1, <3>1
      <3> QED
        BY <3>2, <3>3, JudgedOrder
    <2>3. count_majority_judgment(p, 1) = Top(S, R, one)
      <3> DEFINE w == _mj_outcome(h, O, p.priority)
      <3>1. /\ w \in O /\ \E r \in Ratings \ {0} : h[w][r] > 0
            /\ \A q \in O : q # w => _mj_outcome(h, {w, q}, p.priority) = w
        <4>1. PICK x \in O : \E r \in Ratings \ {0} : h[x][r] > 0
          BY <1>2, <1>5
        <4> QED
          BY <1>1, <4>1, JudgedFirst
      <3>2. w \in S /\ \A q \in S : q # w => <<w, q>> \in R
        BY <1>1, <1>2, <3>1
      <3>3. count_majority_judgment(p, 1) = {w}
        BY <1>3, <1>5
      <3> DEFINE Ahead(o) == {q \in S : q # o /\ <<q, o>> \in R}
      <3> HIDE DEF w, S, R
      <3>4. \A o \in S : IsFiniteSet(Ahead(o)) /\ Cardinality(Ahead(o)) \in Nat
        BY <1>1, FS_Subset, FS_CardinalityType
      <3>5. Cardinality(Ahead(w)) = 0
        <4>1. Ahead(w) = {}
          BY <2>2, <3>2 DEF Total
        <4> QED
          BY <4>1, FS_EmptySet
      <3>6. \A o \in S : o # w => Cardinality(Ahead(o)) # 0
        <4>1. \A o \in S : o # w => Ahead(o) # {}
          BY <3>2
        <4> QED
          BY <3>4, <4>1, FS_EmptySet
      <3>7. \A o \in S : Cardinality(Ahead(o)) < one <=> o = w
        <4>1. \A k \in Nat : k < one <=> k = 0
          OBVIOUS
        <4> HIDE DEF Ahead, one
        <4> QED
          BY <3>4, <3>5, <3>6, <4>1
      <3> QED
        BY <3>2, <3>3, <3>7 DEF Top
    <2>4. count_majority_judgment(p, two) = Top(S, R, two) /\ count_majority_judgment(p, three) = Top(S, R, three)
      <3>1. two # 1 /\ three # 1
        OBVIOUS
      <3> HIDE DEF two, three, S, R
      <3> QED
        BY <2>1, <3>1
    <2> HIDE DEF S, R
    <2>5. /\ NextSeat(S, {}, Top(S, R, 1)) /\ NextSeat(S, Top(S, R, 1), Top(S, R, 2))
          /\ NextSeat(S, Top(S, R, 2), Top(S, R, 3))
      BY <1>1, <2>2, TopSeats
    <2> QED
      BY <2>3, <2>4, <2>5 DEF S
  <1> QED
    BY <1>4, <1>5

(* Every supported option defeats every other one, which defeat nobody.    *)
LEMMA BackedVictories ==
    ASSUME NEW p, Polled(p), NEW S, S = Supported(p),
           NEW q, q = [p EXCEPT !.options = S]
    PROVE  /\ Compared(p) /\ Untied(p) /\ Compared(q) /\ Untied(q)
           /\ q.options = S /\ q.priority = p.priority /\ S \subseteq p.options
           /\ \A e \in Victories(p) : e[1] \in S
           /\ \A s \in S : \A o \in p.options \ S : <<s, o>> \in Victories(p)
           /\ \A e : e \in Victories(q) <=> e \in Victories(p) /\ e[2] \in S
           /\ \A e, f : Stronger(q, e, f) <=> Stronger(p, e, f)
  <1>1. S \subseteq p.options /\ IsFiniteSet(S)
    BY FS_Subset DEF Supported, Polled
  <1>2. /\ q.options = S /\ q.priority = p.priority /\ q.pairwise = p.pairwise
        /\ p.priority = q.priority
    <2>1. /\ p = _rated_totals(p.options, p.rate, p.weight, p.priority)
      BY DEF Polled
    <2> QED
      BY <2>1 DEF _rated_totals
  <1>3. \A a, o \in p.options : p.pairwise[a][o] \in Nat
    BY TotalsMean
  <1>4. Compared(p) /\ Untied(p) /\ Compared(q) /\ Untied(q)
    BY <1>1, <1>2, <1>3 DEF Compared, Untied, Polled
  <1>5. ASSUME NEW a \in p.options \ S, NEW o \in p.options PROVE p.pairwise[a][o] = 0
    <2>1. /\ ~(p.score[a] > 0) /\ p.pairwise[a][o] \in Nat
          /\ p.score[a] > 0 <=> \E v \in DOMAIN p.weight : p.weight[v] > 0 /\ p.rate[v][a] > 0
          /\ p.pairwise[a][o] > 0 <=>
                 \E v \in DOMAIN p.weight : p.weight[v] > 0 /\ p.rate[v][a] > p.rate[v][o]
      BY TotalsMean DEF Supported
    <2>2. \A v \in DOMAIN p.weight : p.rate[v][a] \in Nat /\ p.rate[v][o] \in Nat
      BY DEF Polled
    <2> QED
      BY <2>1, <2>2
  <1>6. ASSUME NEW s \in S, NEW o \in p.options \ S PROVE p.pairwise[s][o] > 0
    <2>1. /\ s \in p.options /\ p.score[s] > 0 /\ ~(p.score[o] > 0)
      BY DEF Supported
    <2>2. /\ p.score[s] > 0 <=> \E v \in DOMAIN p.weight : p.weight[v] > 0 /\ p.rate[v][s] > 0
          /\ p.score[o] > 0 <=> \E v \in DOMAIN p.weight : p.weight[v] > 0 /\ p.rate[v][o] > 0
          /\ p.pairwise[s][o] > 0 <=>
                 \E v \in DOMAIN p.weight : p.weight[v] > 0 /\ p.rate[v][s] > p.rate[v][o]
      BY <2>1, TotalsMean
    <2>3. PICK v \in DOMAIN p.weight : p.weight[v] > 0 /\ p.rate[v][s] > 0
      BY <2>1, <2>2
    <2>4. p.rate[v][o] \in Nat /\ ~(p.rate[v][o] > 0) /\ p.rate[v][s] \in Nat
      BY <2>1, <2>2, <2>3 DEF Polled
    <2>5. p.rate[v][s] > p.rate[v][o]
      BY <2>3, <2>4
    <2> QED
      BY <2>2, <2>3, <2>5
  <1>7. ASSUME NEW e \in Victories(p) PROVE e[1] \in S
    <2>1. /\ e[1] \in p.options /\ e[2] \in p.options
          /\ p.pairwise[e[1]][e[2]] - p.pairwise[e[2]][e[1]] > 0
      BY <1>4, VictoryFacts DEF Victories, Margin
    <2>2. p.pairwise[e[1]][e[2]] # 0
      BY <1>3, <2>1
    <2> QED
      BY <1>5, <2>1, <2>2
  <1>8. ASSUME NEW s \in S, NEW o \in p.options \ S PROVE <<s, o>> \in Victories(p)
    <2>1. s \in p.options /\ p.pairwise[s][o] > 0 /\ p.pairwise[o][s] = 0
      BY <1>1, <1>5, <1>6
    <2>2. p.pairwise[s][o] - p.pairwise[o][s] > 0
      BY <1>3, <2>1
    <2> QED
      BY <2>1, <2>2 DEF Victories, Margin
  <1>9. ASSUME NEW e PROVE e \in Victories(q) <=> e \in Victories(p) /\ e[2] \in S
    <2>1. Margin(q, e) = Margin(p, e)
      BY <1>2 DEF Margin
    <2>2. e \in Victories(q) <=> e \in S \X S /\ Margin(p, e) > 0
      BY <1>2, <2>1 DEF Victories
    <2>3. e \in Victories(p) <=> e \in p.options \X p.options /\ Margin(p, e) > 0
      BY DEF Victories
    <2>4. e \in S \X S <=> e \in p.options \X p.options /\ e[1] \in S /\ e[2] \in S
      BY <1>1
    <2> QED
      BY <1>7, <2>2, <2>3, <2>4
  <1>10. ASSUME NEW e, NEW f PROVE Stronger(q, e, f) <=> Stronger(p, e, f)
    BY <1>2 DEF Stronger, Margin
  <1> QED
    BY <1>1, <1>2, <1>4, <1>7, <1>8, <1>9, <1>10

(* So the graph of the supported options is a part of the graph of all.    *)
LEMMA BackedGraph ==
    ASSUME NEW p, Polled(p), NEW S, S = Supported(p),
           NEW q, q = [p EXCEPT !.options = S]
    PROVE  _ranked_pairs_graph(q) = {e \in _ranked_pairs_graph(p) : e[2] \in S}
  <1> DEFINE L == _ranked_pairs_graph(p)
             M == {e \in L : e[2] \in S}
  <1>1. /\ Compared(p) /\ Untied(p) /\ Compared(q) /\ Untied(q)
        /\ q.options = S /\ S \subseteq p.options
        /\ \A e \in Victories(p) : e[1] \in S
        /\ \A e : e \in Victories(q) <=> e \in Victories(p) /\ e[2] \in S
        /\ \A e, f : Stronger(q, e, f) <=> Stronger(p, e, f)
    BY BackedVictories
  <1>2. Settled(p, Victories(p), L) /\ Settled(q, Victories(q), _ranked_pairs_graph(q))
    BY <1>1, GraphIsSound
  <1> HIDE DEF L
  <1>3. L \subseteq Victories(p) /\ M \subseteq Victories(q)
    BY <1>1, <1>2 DEF Settled
  <1>4. \A e \in Victories(p) : e[1] \in p.options /\ e[2] \in p.options
    BY <1>1, VictoryFacts
  <1>5. ASSUME NEW e \in Victories(q)
        PROVE  e \in M <=> ~Leads(q, {f \in M : Stronger(q, f, e)}, e[2], e[1])
    <2> DEFINE U == {f \in L : Stronger(p, f, e)}
               W == {f \in M : Stronger(q, f, e)}
    <2>1. e \in Victories(p) /\ e[1] \in S /\ e[2] \in S
      BY <1>1
    <2>2. \A f : f \in W <=> f \in U /\ f[2] \in S
      BY <1>1
    <2>3. \A f \in U : f[1] \in S /\ f[2] \in p.options
      BY <1>1, <1>3, <1>4
    <2> HIDE DEF U, W
    <2>4. ASSUME Leads(q, W, e[2], e[1]) PROVE Leads(p, U, e[2], e[1])
      <3> SUFFICES ASSUME NEW C \in SUBSET p.options, e[2] \in C, Closed(p, U, C)
                   PROVE  e[1] \in C
        BY DEF Leads
      <3>1. C \intersect S \in SUBSET q.options /\ e[2] \in C \intersect S
        BY <1>1, <2>1
      <3>2. Closed(q, W, C \intersect S)
        BY <2>2 DEF Closed
      <3> QED
        BY <2>4, <3>1, <3>2 DEF Leads
    <2>5. ASSUME Leads(p, U, e[2], e[1]) PROVE Leads(q, W, e[2], e[1])
      <3> SUFFICES ASSUME NEW C \in SUBSET S, e[2] \in C, Closed(q, W, C)
                   PROVE  e[1] \in C
        BY <1>1 DEF Leads
      <3> DEFINE D == C \union (p.options \ S)
      <3>1. D \in SUBSET p.options /\ e[2] \in D
        BY <1>1
      <3>2. Closed(p, U, D)
        BY <2>2, <2>3 DEF Closed
      <3> HIDE DEF D
      <3>3. e[1] \in D
        BY <2>5, <3>1, <3>2 DEF Leads
      <3> QED
        BY <2>1, <3>3 DEF D
    <2>6. e \in L <=> ~Leads(p, U, e[2], e[1])
      BY <1>2, <2>1 DEF Settled, U
    <2> QED
      BY <2>1, <2>4, <2>5, <2>6 DEF W
  <1>6. Settled(q, Victories(q), M)
    <2> HIDE DEF M
    <2> QED
      BY <1>3, <1>5 DEF Settled
  <1>7. M = _ranked_pairs_graph(q)
    <2>1. Victories(q) \in SUBSET Victories(q)
      OBVIOUS
    <2> HIDE DEF M
    <2> QED
      BY <1>1, <1>2, <1>6, <2>1, SettledIsUnique
  <1> QED
    BY <1>7 DEF L

(* And it has the same sources.                                            *)
LEMMA BackedSources ==
    ASSUME NEW p, Polled(p), NEW S, S = Supported(p), S # {},
           NEW q, q = [p EXCEPT !.options = S]
    PROVE  Sources(q) = Sources(p)
  <1>1. /\ Compared(p) /\ Untied(p) /\ Compared(q) /\ Untied(q)
        /\ q.options = S /\ S \subseteq p.options
        /\ \A e \in Victories(p) : e[1] \in S
        /\ \A s \in S : \A o \in p.options \ S : <<s, o>> \in Victories(p)
    BY BackedVictories
  <1>2. _ranked_pairs_graph(q) = {e \in _ranked_pairs_graph(p) : e[2] \in S}
    BY BackedGraph
  <1>3. Settled(p, Victories(p), _ranked_pairs_graph(p))
    BY <1>1, GraphIsSound
  <1>4. \A o \in S : o \in Sources(q) <=> o \in Sources(p)
    BY <1>1, <1>2 DEF Sources
  <1>5. PICK s \in S : s \in Sources(p)
    <2>1. PICK g : _ranked_pairs_graph(q) = g.locked /\ Sound(q, Victories(q), g)
      BY <1>1, GraphIsSound
    <2>2. PICK s \in q.options : \A a \in q.options : <<a, s>> \notin g.reach
      <3>1. q.options \in SUBSET q.options /\ q.options # {}
        BY <1>1
      <3> QED
        BY <1>1, <2>1, <3>1, SourceExists
    <2>3. \A e \in g.locked : e[1] \in q.options /\ <<e[1], e[2]>> \in g.reach
      BY <2>1 DEF Sound
    <2>4. s \in Sources(q)
      BY <2>1, <2>2, <2>3 DEF Sources
    <2> QED
      BY <1>1, <1>4, <2>2, <2>4
  <1>6. ASSUME NEW o \in p.options \ S PROVE o \notin Sources(p)
    <2> DEFINE e == <<s, o>>
    <2>1. e \in Victories(p) /\ e[1] = s /\ e[2] = o
      BY <1>1
    <2>2. \A f \in _ranked_pairs_graph(p) : f[2] # s
      BY <1>5 DEF Sources
    <2> HIDE DEF e
    <2>3. e \in _ranked_pairs_graph(p)
      BY <1>1, <1>3, <2>1, <2>2, SourceLocks
    <2> QED
      BY <2>1, <2>3 DEF Sources
  <1>7. Sources(p) \subseteq p.options /\ Sources(q) \subseteq S
    BY <1>1 DEF Sources
  <1> QED
    BY <1>1, <1>4, <1>6, <1>7

(* One source after the other; the first is the single winner.             *)
LEMMA RankedSeats ==
    ASSUME NEW p, Polled(p), \E a, b \in Supported(p) : p.pairwise[a][b] > 0
    PROVE  /\ NextSeat(Supported(p), {}, count_ranked_pairs(p, 1))
           /\ NextSeat(Supported(p), count_ranked_pairs(p, 1), count_ranked_pairs(p, 2))
           /\ NextSeat(Supported(p), count_ranked_pairs(p, 2), count_ranked_pairs(p, 3))
  <1> DEFINE S == Supported(p)
             q == [p EXCEPT !.options = S]
             locked == _ranked_pairs_graph(q)
             Left(rest) == {o \in rest : \A e \in locked : e[2] = o => e[1] \notin rest}
             Filled(sofar) ==
                 LET rest == S \ sofar
                     sources == {o \in rest : \A e \in locked : e[2] = o => e[1] \notin rest}
                 IN  IF rest = {} THEN sofar
                     ELSE sofar \union {First(sources, p.priority)}
             V == SUBSET S
             step == [sofar \in V |-> Filled(sofar)]
             Elected(n) == CHOOSE f : f = [k \in 0 .. n |-> IF k = 0 THEN {} ELSE Filled(f[k - 1])]
             one == 1
             two == 2
             three == 3
  <1>1. /\ Compared(p) /\ Untied(p) /\ Compared(q) /\ Untied(q)
        /\ q.options = S /\ q.priority = p.priority /\ S \subseteq p.options
    <2>1. S = Supported(p) /\ q = [p EXCEPT !.options = S]
      OBVIOUS
    <2> HIDE DEF q, S
    <2> QED
      BY <2>1, BackedVictories
  <1>2. S # {} /\ \E a, b \in p.options : p.pairwise[a][b] > 0
    BY <1>1
  <1>3. PICK g : locked = g.locked /\ Sound(q, Victories(q), g)
    BY <1>1, GraphIsSound
  <1>4. \A e \in locked : e[1] \in S /\ e[2] \in S /\ <<e[1], e[2]>> \in g.reach
    <2> HIDE DEF q
    <2> QED
      BY <1>1, <1>3 DEF Sound
  <1>5. ASSUME NEW sofar \in V
        PROVE  NextSeat(S, sofar, Filled(sofar)) /\ Filled(sofar) \in V
    <2> DEFINE rest == S \ sofar
    <2>1. CASE rest = {}
      BY <2>1 DEF NextSeat
    <2>2. CASE rest # {}
      <3>1. PICK o \in rest : \A a \in rest : <<a, o>> \notin g.reach
        <4>1. rest \in SUBSET q.options
          BY <1>1
        <4> HIDE DEF rest, q, locked
        <4> QED
          BY <1>1, <1>3, <2>2, <4>1, SourceExists
      <3>2. o \in Left(rest)
        BY <1>4, <3>1
      <3>3. IsFiniteSet(Left(rest)) /\ \A a \in Left(rest) : p.priority[a] \in Int
        <4>1. Left(rest) \subseteq S
          OBVIOUS
        <4> HIDE DEF Left, q
        <4> QED
          BY <1>1, <4>1, FS_Subset DEF Compared
      <3>4. First(Left(rest), p.priority) \in rest
        <4>1. Left(rest) \subseteq rest
          OBVIOUS
        <4> HIDE DEF Left, rest
        <4> QED
          BY <3>2, <3>3, <4>1, FirstFacts
      <3>5. Filled(sofar) = sofar \union {First(Left(rest), p.priority)}
        BY <2>2
      <3> HIDE DEF Left, Filled
      <3> QED
        BY <3>4, <3>5 DEF NextSeat
    <2> QED
      BY <2>1, <2>2
  <1>6. count_ranked_pairs(p, one) = Filled({})
    <2>1. Left(S) = Sources(q)
      BY <1>1, <1>4 DEF Sources
    <2>2. Filled({}) = {First(Left(S), p.priority)}
      BY <1>2
    <2>3. Sources(q) = Sources(p)
      <3>1. S = Supported(p) /\ q = [p EXCEPT !.options = S]
        OBVIOUS
      <3> HIDE DEF q, S
      <3> QED
        BY <1>2, <3>1, BackedSources
    <2>4. \A w : w \in count_ranked_pairs(p, one) <=> w = First(Sources(p), p.priority)
      <3>1. p = _rated_totals(p.options, p.rate, p.weight, p.priority)
        BY DEF Polled
      <3> QED
        BY <1>1, <1>2, <3>1, OneIsElected
    <2>5. count_ranked_pairs(p, one) = {First(Sources(p), p.priority)}
      BY <2>4
    <2> HIDE DEF Left, Filled, q, S, one
    <2> QED
      BY <2>1, <2>2, <2>3, <2>5
  <1>7. \A n : n # 1 => count_ranked_pairs(p, n) = Elected(n)[n]
    <2> SUFFICES ASSUME NEW n, n # 1 PROVE count_ranked_pairs(p, n) = Elected(n)[n]
      OBVIOUS
    <2>1. Standing(p, n) = S
      BY DEF Standing
    <2> QED
      BY <1>1, <2>1 DEF count_ranked_pairs
  <1> HIDE DEF S, q, locked, Filled
  <1>8. ASSUME NEW n \in 2 .. 3
        PROVE  /\ Elected(n)[1] = Filled({}) /\ Elected(n)[2] = Filled(Filled({}))
               /\ n = 3 => Elected(n)[3] = Filled(Filled(Filled({})))
    <2> DEFINE Counted(f) == f = [k \in 0 .. n |-> IF k = 0 THEN {} ELSE Filled(f[k - 1])]
    <2>1. \E f : Counted(f)
      <3> DEFINE nobody == {}
      <3>1. /\ nobody \in V /\ n \in Nat
            /\ step \in [V -> V] /\ \A x \in V : step[x] = Filled(x)
        BY <1>5
      <3> HIDE DEF step, V, nobody
      <3>2. PICK f : InRounds(V, nobody, step, n, f)
        BY <3>1, RoundsExist
      <3> USE DEF InRounds
      <3>3. \A k \in 0 .. n : f[k] = IF k = 0 THEN {} ELSE Filled(f[k - 1])
        <4> SUFFICES ASSUME NEW k \in 1 .. n PROVE f[k] = Filled(f[k - 1])
          BY <3>2 DEF nobody
        <4>1. f[k - 1] \in V
          BY <3>2
        <4> QED
          BY <3>1, <3>2, <4>1
      <3>4. f = [k \in 0 .. n |-> f[k]]
        BY <3>2
      <3>5. Counted(f)
        BY <3>3, <3>4
      <3> QED
        BY <3>5
    <2>2. Counted(Elected(n))
      <3> HIDE DEF Counted
      <3> DEFINE f == CHOOSE x : Counted(x)
      <3>1. Counted(f)
        BY <2>1
      <3>2. f = Elected(n)
        BY DEF Counted
      <3> QED
        BY <3>1, <3>2
    <2> DEFINE f == Elected(n)
    <2> HIDE DEF f
    <2>3. \A k \in 0 .. n : f[k] = IF k = 0 THEN {} ELSE Filled(f[k - 1])
      BY <2>2 DEF f
    <2> QED
      BY <2>3 DEF f
  <1> DEFINE second == Filled(Filled({}))
             third == Filled(second)
  <1>9. count_ranked_pairs(p, 2) = second /\ count_ranked_pairs(p, 3) = third
    <2>1. two \in 2 .. 3 /\ three \in 2 .. 3 /\ two # 1 /\ three # 1
      OBVIOUS
    <2>2. Elected(two)[two] = second /\ Elected(three)[three] = third
      <3> HIDE DEF Elected
      <3> QED
        BY <1>8, <2>1
    <2>3. count_ranked_pairs(p, two) = second /\ count_ranked_pairs(p, three) = third
      <3> HIDE DEF Elected, two, three
      <3> QED
        BY <1>7, <2>1, <2>2
    <2> QED
      BY <2>3
  <1>10. NextSeat(S, {}, Filled({})) /\ Filled({}) \in V
    BY <1>5
  <1>11. NextSeat(S, Filled({}), second) /\ second \in V
    BY <1>5, <1>10
  <1>12. NextSeat(S, second, third)
    BY <1>5, <1>11
  <1> QED
    BY <1>6, <1>9, <1>10, <1>11, <1>12 DEF S
=============================================================================
