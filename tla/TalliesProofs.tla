--------------------------- MODULE TalliesProofs ---------------------------
(***************************************************************************)
(* Proofs about an open vote, for any voters, polls, ballots, delegations  *)
(* (with cycles) and shares. A voice can be traced to a ballot and a       *)
(* delegation of its voter, and the delegation strategy matters only to    *)
(* voters who delegate two topics of the proposal. Approval seats nobody   *)
(* over an option with more approvals, and treats equal options alike. A   *)
(* majority's median decides, a majority's budget is funded, no argument   *)
(* overturns ranked pairs, majority judgment skips no vote it should have  *)
(* removed, raising the winner on a ballot never makes it lose, and a seat *)
(* more never unseats anybody.                                             *)
(***************************************************************************)
EXTENDS Tallies, CountingProofs

(* A stable sort by numbers puts an entry first that has the least key.    *)
LEMMA FirstByIsIn ==
    ASSUME NEW I \in SUBSET Nat, IsFiniteSet(I), I # {}, NEW key,
           \A i \in I : key[i] \in Int
    PROVE  /\ FirstBy(I, key) \in I
           /\ \A j \in I : key[FirstBy(I, key)] <= key[j]
  <1> DEFINE Before(i, j) == key[i] < key[j] \/ (key[i] = key[j] /\ i <= j)
             P == {T \in SUBSET I : T # {} => \E i \in T : \A j \in T : Before(i, j)}
  <1>1. {} \in P
    OBVIOUS
  <1>2. ASSUME NEW T \in SUBSET I, NEW x \in I, T \in P, x \notin T
        PROVE  T \union {x} \in P
    <2>1. Before(x, x)
      OBVIOUS
    <2>2. CASE T = {}
      BY <2>1, <2>2
    <2>3. CASE T # {}
      <3>1. PICK i \in T : \A j \in T : Before(i, j)
        BY <1>2, <2>3
      <3>2. CASE Before(i, x)
        <4>1. \A j \in T \union {x} : Before(i, j)
          BY <3>1, <3>2
        <4> QED
          BY <4>1
      <3>3. CASE ~ Before(i, x)
        <4>1. Before(x, i)
          BY <3>3
        <4>2. \A j \in T \union {x} : Before(x, j)
          BY <2>1, <3>1, <4>1
        <4> QED
          BY <4>2
      <3> QED
        BY <3>2, <3>3
    <2> QED
      BY <2>2, <2>3
  <1> HIDE DEF P
  <1>3. I \in P
    BY <1>1, <1>2, SubsetInduction
  <1>4. \E i \in I : \A j \in I : Before(i, j)
    BY <1>3 DEF P
  <1>5. FirstBy(I, key) \in I /\ \A j \in I : Before(FirstBy(I, key), j)
    BY <1>4 DEF FirstBy
  <1>6. PICK m \in I : m = FirstBy(I, key)
    BY <1>5
  <1>7. \A j \in I : key[m] <= key[j]
    BY <1>5, <1>6
  <1> QED
    BY <1>6, <1>7

-----------------------------------------------------------------------------
(* The resolver                                                            *)

KeysOf(ctx) == {ctx.topics[i] : i \in DOMAIN ctx.topics} \union {Global}

(* What the resolver relies on in a context.                               *)
WellFormed(ctx) ==
    /\ IsFiniteSet(DOMAIN ctx.topics) /\ DOMAIN ctx.topics \subseteq Nat
    /\ \A i \in DOMAIN ctx.topics :
           /\ ctx.relevance[ctx.topics[i]] \in Int
           /\ \A u \in Voters : ctx.precedence[u][ctx.topics[i]] \in Int
    /\ \A u \in Voters, k \in KeysOf(ctx) : ctx.row[u][k] \in Rows \union {NoRow}

(* The ranks of a voter's delegated topics can be compared.                *)
LEMMA HeldFacts ==
    ASSUME NEW ctx, WellFormed(ctx), NEW u \in Voters
    PROVE  /\ Held(ctx, u) \in SUBSET Nat /\ IsFiniteSet(Held(ctx, u))
           /\ Held(ctx, u) \subseteq DOMAIN ctx.topics
           /\ \A i \in DOMAIN ctx.topics :
                  Rank(ctx, u)[i] \in Int /\ Irrelevance(ctx)[i] \in Int
           /\ \A i \in Held(ctx, u) :
                  Row(ctx, u, i) \in Rows /\ \E k \in KeysOf(ctx) : Row(ctx, u, i) = ctx.row[u][k]
  <1>1. Held(ctx, u) \subseteq DOMAIN ctx.topics
    BY DEF Held
  <1>2. IsFiniteSet(Held(ctx, u))
    BY <1>1, FS_Subset DEF WellFormed
  <1>3. \A i \in DOMAIN ctx.topics :
            Rank(ctx, u)[i] \in Int /\ Irrelevance(ctx)[i] \in Int
    BY DEF WellFormed, Rank, Irrelevance
  <1>4. \A i \in Held(ctx, u) :
            Row(ctx, u, i) \in Rows /\ \E k \in KeysOf(ctx) : Row(ctx, u, i) = ctx.row[u][k]
    BY DEF WellFormed, Held, Row, KeysOf
  <1> QED
    BY <1>1, <1>2, <1>3, <1>4 DEF WellFormed

(* The delegation that strict precedence finds is one the voter made.      *)
LEMMA FoundIsMade ==
    ASSUME NEW ctx, WellFormed(ctx), NEW u \in Voters,
           find_delegate_pure(ctx, u) # NoRow
    PROVE  /\ find_delegate_pure(ctx, u) \in Rows
           /\ \E k \in KeysOf(ctx) : find_delegate_pure(ctx, u) = ctx.row[u][k]
  <1>1. CASE Held(ctx, u) = {}
    BY <1>1 DEF find_delegate_pure, KeysOf, WellFormed
  <1>2. CASE Held(ctx, u) # {}
    <2>1. FirstBy(Held(ctx, u), Rank(ctx, u)) \in Held(ctx, u)
      BY <1>2, HeldFacts, FirstByIsIn
    <2> QED
      BY <1>2, <2>1, HeldFacts DEF find_delegate_pure
  <1> QED
    BY <1>1, <1>2

(* The ballot b is what the delegation r of v comes to: the ballot of the  *)
(* delegate or, if he is silent, of a delegate of his who is not v.        *)
Traced(ctx, v, r, b) ==
    \/ ctx.ballot[r.delegate] # NoBallot /\ b = ctx.ballot[r.delegate]
    \/ /\ ctx.ballot[r.delegate] = NoBallot /\ r.chain = "accept_sub"
       /\ \E k \in KeysOf(ctx) :
              LET s == ctx.row[r.delegate][k]
              IN  /\ s \in Rows /\ s.delegate # v
                  /\ ctx.ballot[s.delegate] # NoBallot
                  /\ b = ctx.ballot[s.delegate]

LEMMA FollowIsTraced ==
    ASSUME NEW ctx, WellFormed(ctx), NEW v \in Voters, NEW r \in Rows,
           NEW visited, v \in visited, Follow(ctx, r, visited) # NoVoice
    PROVE  \E by \in Voters :
              /\ Follow(ctx, r, visited) = Voice(ctx.ballot[by], by)
              /\ ctx.ballot[by] # NoBallot
              /\ Traced(ctx, v, r, ctx.ballot[by])
  <1> DEFINE d == r.delegate
             sub == find_delegate_pure(ctx, d)
  <1>1. d \in Voters
    BY DEF Rows
  <1>2. CASE ctx.ballot[d] # NoBallot
    BY <1>1, <1>2 DEF Follow, Traced
  <1>3. CASE ctx.ballot[d] = NoBallot
    <2>1. /\ r.chain = "accept_sub" /\ sub # NoRow
          /\ sub.delegate \notin visited /\ ctx.ballot[sub.delegate] # NoBallot
          /\ Follow(ctx, r, visited) = Voice(ctx.ballot[sub.delegate], sub.delegate)
      BY <1>3 DEF Follow
    <2>2. sub \in Rows /\ \E k \in KeysOf(ctx) : sub = ctx.row[d][k]
      BY <1>1, <2>1, FoundIsMade
    <2>3. sub.delegate \in Voters
      BY <2>2 DEF Rows
    <2>4. Traced(ctx, v, r, ctx.ballot[sub.delegate])
      BY <1>3, <2>1, <2>2 DEF Traced
    <2> QED
      BY <2>1, <2>3, <2>4
  <1> QED
    BY <1>2, <1>3

(* What a topic answers under relevance_weighted is traced, too.           *)
LEMMA AnswersAreTraced ==
    ASSUME NEW ctx, WellFormed(ctx), NEW v \in Voters, NEW i \in DOMAIN Answers(ctx, v)
    PROVE  /\ i \in Held(ctx, v)
           /\ Answers(ctx, v)[i] # NoVoice
           /\ \E by \in Voters :
                 /\ Answers(ctx, v)[i] = Voice(ctx.ballot[by], by)
                 /\ ctx.ballot[by] # NoBallot
                 /\ Traced(ctx, v, Row(ctx, v, i), ctx.ballot[by])
  <1> DEFINE r == Row(ctx, v, i)
  <1>1. /\ i \in Held(ctx, v)
        /\ Answers(ctx, v)[i] = _resolve_delegate_ballot(ctx, r, {v})
        /\ _resolve_delegate_ballot(ctx, r, {v}) # NoVoice
    BY DEF Answers, Voiced
  <1>2. _resolve_delegate_ballot(ctx, r, {v}) = Follow(ctx, r, {v} \union {r.delegate})
    BY <1>1 DEF _resolve_delegate_ballot
  <1>3. r \in Rows
    BY <1>1, HeldFacts
  <1> HIDE DEF r
  <1>4. \E by \in Voters :
            /\ Follow(ctx, r, {v} \union {r.delegate}) = Voice(ctx.ballot[by], by)
            /\ ctx.ballot[by] # NoBallot
            /\ Traced(ctx, v, r, ctx.ballot[by])
    BY <1>1, <1>2, <1>3, FollowIsTraced
  <1> QED
    BY <1>1, <1>2, <1>4 DEF r

(* The relevance of the topics that say the same adds up to a number, so   *)
(* some direction has the most of it.                                      *)
LEMMA SummedIsInteger ==
    ASSUME NEW ctx, WellFormed(ctx), NEW v \in Voters, NEW b
    PROVE  Summed(ctx, Answers(ctx, v), b) \in Int
  <1> DEFINE A == DOMAIN Answers(ctx, v)
             f == [i \in A |-> ctx.relevance[ctx.topics[i]]]
  <1>1. A \subseteq Held(ctx, v) /\ IsFiniteSet(A)
    <2>1. A \subseteq Held(ctx, v)
      BY AnswersAreTraced
    <2> QED
      BY <2>1, HeldFacts, FS_Subset
  <1>2. \A i \in A : f[i] \in Int
    BY <1>1, HeldFacts DEF WellFormed
  <1>3. Saying(Answers(ctx, v), b) \in SUBSET A
    BY DEF Saying
  <1> HIDE DEF A
  <1>4. SumFunctionOnSet(f, Saying(Answers(ctx, v), b)) \in Int
    BY <1>1, <1>2, <1>3, SumIsInteger
  <1> QED
    BY <1>4 DEF Summed, A
(* Relevance weighting speaks with the ballot of one of the answers.       *)
LEMMA RelevantIsAnswer ==
    ASSUME NEW ctx, WellFormed(ctx), NEW v \in Voters,
           DOMAIN Answers(ctx, v) # {}
    PROVE  \E i \in DOMAIN Answers(ctx, v), by \in Voters :
              Relevant(ctx, v, Answers(ctx, v)) = Voice(Answers(ctx, v)[i].ballot, by)
  <1> DEFINE answer == Answers(ctx, v)
             A == DOMAIN answer
  <1>1. A \subseteq Held(ctx, v)
    BY AnswersAreTraced
  <1>2. A \in SUBSET Nat /\ IsFiniteSet(A)
    BY <1>1, HeldFacts, FS_Subset
  <1>3. \A S \in SUBSET A : S # {} =>
            FirstBy(S, Rank(ctx, v)) \in S /\ FirstBy(S, Irrelevance(ctx)) \in S
    <2> SUFFICES ASSUME NEW S \in SUBSET A, S # {}
                 PROVE  FirstBy(S, Rank(ctx, v)) \in S
                        /\ FirstBy(S, Irrelevance(ctx)) \in S
      OBVIOUS
    <2>1. S \in SUBSET Nat /\ IsFiniteSet(S)
      BY <1>2, FS_Subset
    <2>2. \A i \in S : Rank(ctx, v)[i] \in Int /\ Irrelevance(ctx)[i] \in Int
      BY <1>1, HeldFacts
    <2> QED
      BY <2>1, <2>2, FirstByIsIn
  <1>4. CASE ctx.merges
    <2> DEFINE total == [i \in A |-> Summed(ctx, answer, answer[i].ballot)]
               top == {i \in A : \A j \in A : total[j] <= total[i]}
               n == FirstBy(top, Rank(ctx, v))
               m == FirstBy(Saying(answer, answer[n].ballot), Irrelevance(ctx))
    <2>1. \A i \in A : total[i] \in Int
      BY SummedIsInteger
    <2> HIDE DEF total
    <2>2. top # {}
      BY <1>2, <2>1, GreatestExists
    <2>3. n \in A
      BY <1>3, <2>2
    <2>4. m \in A
      <3>1. n \in Saying(answer, answer[n].ballot)
        BY <2>3 DEF Saying
      <3>2. Saying(answer, answer[n].ballot) \in SUBSET A
        BY DEF Saying
      <3> QED
        BY <1>3, <3>1, <3>2
    <2>5. Row(ctx, v, m).delegate \in Voters
      BY <1>1, <2>4, HeldFacts DEF Rows
    <2>6. Relevant(ctx, v, answer) = Voice(answer[n].ballot, Row(ctx, v, m).delegate)
      BY <1>4 DEF Relevant, find_vote_via_relevance_weighting_pure, total
    <2> QED
      BY <2>3, <2>5, <2>6
  <1>5. CASE ~ ctx.merges
    <2> DEFINE key == Irrelevance(ctx)
               top == {i \in A : \A j \in A : key[i] <= key[j]}
               n == FirstBy(top, Rank(ctx, v))
    <2>1. \A i \in A : key[i] \in Int
      BY <1>1, HeldFacts
    <2>2. top # {}
      <3>1. FirstBy(A, key) \in A /\ \A j \in A : key[FirstBy(A, key)] <= key[j]
        BY <1>2, <2>1, FirstByIsIn
      <3> QED
        BY <3>1
    <2>3. n \in A
      BY <1>3, <2>2
    <2>4. Relevant(ctx, v, answer) = answer[n]
      BY <1>5 DEF Relevant, find_vote_via_relevance_for_multi_option_pure
    <2>5. \A i \in A : \E by \in Voters : answer[i] = Voice(answer[i].ballot, by)
      <3> SUFFICES ASSUME NEW i \in A
                   PROVE  \E by \in Voters : answer[i] = Voice(answer[i].ballot, by)
        OBVIOUS
      <3>1. PICK by \in Voters : answer[i] = Voice(ctx.ballot[by], by)
        BY AnswersAreTraced
      <3>2. Voice(ctx.ballot[by], by).ballot = ctx.ballot[by]
        BY DEF Voice
      <3> QED
        BY <3>1, <3>2
    <2> HIDE DEF n
    <2> QED
      BY <2>3, <2>4, <2>5
  <1> QED
    BY <1>4, <1>5

(* A voter without a ballot of her own is heard, if at all, through a      *)
(* delegation she made.                                                    *)
LEMMA ResolvedIsTraced ==
    ASSUME NEW ctx, WellFormed(ctx), NEW v \in Voters, ctx.ballot[v] = NoBallot,
           resolve_vote_pure(ctx, v) # NoVoice
    PROVE  \E k \in KeysOf(ctx) :
              /\ ctx.row[v][k] \in Rows
              /\ Traced(ctx, v, ctx.row[v][k], resolve_vote_pure(ctx, v).ballot)
  <1> DEFINE heard == resolve_vote_pure(ctx, v)
             first == IF ctx.strategy[v] = "relevance_weighted"
                      THEN Relevant(ctx, v, Answers(ctx, v)) ELSE NoVoice
  <1>1. heard = IF first # NoVoice THEN first ELSE Strict(ctx, v)
    BY DEF resolve_vote_pure, FallThrough
  <1>2. CASE first # NoVoice
    <2>1. first = Relevant(ctx, v, Answers(ctx, v)) /\ DOMAIN Answers(ctx, v) # {}
      BY <1>2 DEF Relevant
    <2>2. PICK i \in DOMAIN Answers(ctx, v) : first.ballot = Answers(ctx, v)[i].ballot
      BY <2>1, RelevantIsAnswer DEF Voice
    <2>3. i \in Held(ctx, v) /\ Traced(ctx, v, Row(ctx, v, i), first.ballot)
      BY <2>2, AnswersAreTraced DEF Voice
    <2>4. Row(ctx, v, i) \in Rows /\ \E k \in KeysOf(ctx) : Row(ctx, v, i) = ctx.row[v][k]
      BY <2>3, HeldFacts
    <2> QED
      BY <1>1, <1>2, <2>3, <2>4
  <1>3. CASE first = NoVoice
    <2> DEFINE r == find_delegate_pure(ctx, v)
    <2>1. heard = Follow(ctx, r, {v}) /\ r # NoRow /\ heard # NoVoice
      BY <1>1, <1>3 DEF Strict
    <2>2. r \in Rows /\ \E k \in KeysOf(ctx) : r = ctx.row[v][k]
      BY <2>1, FoundIsMade
    <2> HIDE DEF r
    <2>3. Traced(ctx, v, r, heard.ballot)
      BY <2>1, <2>2, FollowIsTraced DEF Voice
    <2> QED
      BY <2>2, <2>3
  <1> QED
    BY <1>2, <1>3
(* With one delegated topic at most, relevance weighting finds what strict *)
(* precedence finds: there is nothing to weigh.                            *)
LEMMA StrategiesAgree ==
    ASSUME NEW ctx, WellFormed(ctx), NEW v \in Voters, ctx.ballot[v] = NoBallot,
           Cardinality(Held(ctx, v)) <= 1, DOMAIN Answers(ctx, v) # {}
    PROVE  /\ Strict(ctx, v) # NoVoice
           /\ Relevant(ctx, v, Answers(ctx, v)).ballot = Strict(ctx, v).ballot
  <1>1. PICK i \in DOMAIN Answers(ctx, v), by \in Voters :
            Relevant(ctx, v, Answers(ctx, v)) = Voice(Answers(ctx, v)[i].ballot, by)
    BY RelevantIsAnswer
  <1>2. i \in Held(ctx, v) /\ Answers(ctx, v)[i] # NoVoice
    BY AnswersAreTraced
  <1>3. Held(ctx, v) = {i}
    <2>1. IsFiniteSet(Held(ctx, v)) /\ Cardinality(Held(ctx, v)) \in Nat
      BY HeldFacts, FS_CardinalityType
    <2>2. Cardinality(Held(ctx, v)) = 1
      BY <1>2, <2>1, FS_EmptySet
    <2> QED
      BY <1>2, <2>1, <2>2, FS_Singleton
  <1> DEFINE r == Row(ctx, v, i)
  <1>4. r \in Rows /\ r.delegate \in Voters
    BY <1>2, HeldFacts DEF Rows
  <1>5. find_delegate_pure(ctx, v) = r
    <2>1. FirstBy({i}, Rank(ctx, v)) = i
      BY <1>3, HeldFacts, FirstByIsIn
    <2> QED
      BY <1>3, <2>1 DEF find_delegate_pure
  <1>6. Strict(ctx, v) = Follow(ctx, r, {v})
    BY <1>4, <1>5, RowAssumption DEF Strict
  <1>7. Answers(ctx, v)[i] = Follow(ctx, r, {v} \union {r.delegate})
    BY <1>2 DEF Answers, Voiced, _resolve_delegate_ballot
  <1>8. Follow(ctx, r, {v} \union {r.delegate}) = Follow(ctx, r, {v})
    BY <1>2, <1>7 DEF Follow
  <1> QED
    BY <1>1, <1>2, <1>6, <1>7, <1>8 DEF Voice

-----------------------------------------------------------------------------
(* The open poll                                                           *)

(* The poll is fixed, and with it the keys a delegation may have.          *)
LEMMA PollFixed ==
    ASSUME [Next]_vars
    PROVE  poll' = poll /\ Keys' = Keys
  <1>1. poll' = poll
    BY DEF Next, cast_vote, retract_vote, upsert_delegation, revoke_delegation,
           set_delegation_strategy, SetEligible, vars
  <1>2. Keys' = Keys
    BY <1>1 DEF Keys
  <1> QED
    BY <1>1, <1>2

(* Ballots, delegations, strategies and the roll are always well-formed,   *)
(* whichever handlers write them.                                          *)
THEOREM TypeCorrect == Spec => []TypeOK
<1>1. Init => TypeOK
  BY DEF Init, TypeOK
<1>2. TypeOK /\ [Next]_vars => TypeOK'
  <2> SUFFICES ASSUME TypeOK, [Next]_vars PROVE TypeOK'
    OBVIOUS
  <2> USE PollFixed
  <2>1. ASSUME NEW v \in Voters, cast_vote(v) PROVE TypeOK'
    BY <2>1 DEF cast_vote, TypeOK
  <2>2. ASSUME NEW v \in Voters, retract_vote(v) PROVE TypeOK'
    BY <2>2 DEF retract_vote, TypeOK
  <2>3. ASSUME NEW v \in Voters, upsert_delegation(v) PROVE TypeOK'
    <3>1. PICK o \in poll.offers[v] : row' = [row EXCEPT ![v][o.key] = o.row]
      BY <2>3 DEF upsert_delegation
    <3>2. o.row \in Rows
      BY <3>1, RowAssumption DEF TypeOK
    <3>3. row' \in [Voters -> [Keys -> Rows \union {NoRow}]]
      BY <3>1, <3>2 DEF TypeOK
    <3> QED
      BY <2>3, <3>3 DEF upsert_delegation, TypeOK
  <2>4. ASSUME NEW v \in Voters, revoke_delegation(v) PROVE TypeOK'
    <3>1. row' \in [Voters -> [Keys -> Rows \union {NoRow}]]
      BY <2>4 DEF revoke_delegation, TypeOK
    <3> QED
      BY <2>4, <3>1 DEF revoke_delegation, TypeOK
  <2>5. ASSUME NEW v \in Voters, set_delegation_strategy(v) PROVE TypeOK'
    BY <2>5 DEF set_delegation_strategy, TypeOK
  <2>6. ASSUME NEW v \in Voters, SetEligible(v) PROVE TypeOK'
    BY <2>6 DEF SetEligible, TypeOK
  <2>7. CASE UNCHANGED vars
    BY <2>7 DEF vars, TypeOK
  <2> QED
    BY <2>1, <2>2, <2>3, <2>4, <2>5, <2>6, <2>7 DEF Next
<1> QED
  BY <1>1, <1>2, PTL DEF Spec

(* What _build_context loads is a context the resolver can work with.      *)
LEMMA ContextFacts ==
    ASSUME TypeOK
    PROVE  /\ WellFormed(context) /\ KeysOf(context) = Keys
           /\ \A u \in Voters : context.ballot[u] = IF u \in roll THEN box[u] ELSE NoBallot
           /\ \A u \in Voters, k \in Keys :
                  context.row[u][k] = IF poll.gated THEN NoRow ELSE row[u][k]
  <1>1. poll.gated \in BOOLEAN
    BY PollAssumption DEF TypeOK
  <1>2. KeysOf(context) = Keys
    BY DEF KeysOf, Keys, context, _build_context
  <1>3. /\ \A u \in Voters : context.ballot[u] = IF u \in roll THEN box[u] ELSE NoBallot
        /\ \A u \in Voters, k \in Keys :
               context.row[u][k] = IF poll.gated THEN NoRow ELSE row[u][k]
    BY <1>1 DEF context, _build_context
  <1>4. /\ IsFiniteSet(DOMAIN context.topics) /\ DOMAIN context.topics \subseteq Nat
        /\ \A i \in DOMAIN context.topics :
               /\ context.relevance[context.topics[i]] \in Int
               /\ \A u \in Voters : context.precedence[u][context.topics[i]] \in Int
    BY PollAssumption DEF context, _build_context, TypeOK
  <1>5. \A u \in Voters, k \in Keys : context.row[u][k] \in Rows \union {NoRow}
    BY <1>3 DEF TypeOK
  <1> QED
    BY <1>2, <1>3, <1>4, <1>5 DEF WellFormed

(* A voter is heard through her own ballot or through a delegation she     *)
(* made, however the delegations of others are entangled with hers: no     *)
(* ballot of a third hop, of a former member, or where delegation is off.  *)
THEOREM VoicesTraced == Spec => []VoiceTraced
<1>1. TypeOK => VoiceTraced
  <2> SUFFICES ASSUME TypeOK PROVE VoiceTraced
    OBVIOUS
  <2> SUFFICES ASSUME NEW v \in DOMAIN Voices
               PROVE  LET voice   == Voices[v]
                          Says(u) == u \in roll /\ box[u] = voice.ballot
                          Silent(u) == u \notin roll \/ box[u] = NoBallot
                          Delegations(u) == {row[u][k] : k \in Keys} \ {NoRow}
                      IN  IF box[v] # NoBallot THEN voice = Voice(box[v], v)
                          ELSE /\ ~poll.gated
                               /\ \E r \in Delegations(v) :
                                      \/ Says(r.delegate)
                                      \/ /\ Silent(r.delegate) /\ r.chain = "accept_sub"
                                         /\ \E s \in Delegations(r.delegate) :
                                                s.delegate # v /\ Says(s.delegate)
    BY DEF VoiceTraced
  <2>1. /\ v \in roll /\ v \in Voters
        /\ Voices[v] = resolve_vote_pure(context, v)
        /\ resolve_vote_pure(context, v) # NoVoice
    BY DEF Voices, Voiced, TypeOK
  <2>2. context.ballot[v] = box[v]
    BY <2>1, ContextFacts
  <2>3. CASE box[v] # NoBallot
    BY <2>1, <2>2, <2>3 DEF resolve_vote_pure
  <2>4. CASE box[v] = NoBallot
    <3> DEFINE b == Voices[v].ballot
    <3>1. PICK k \in Keys : context.row[v][k] \in Rows
                            /\ Traced(context, v, context.row[v][k], b)
      BY <2>1, <2>2, <2>4, ResolvedIsTraced, ContextFacts
    <3>2. ~ poll.gated /\ context.row[v][k] = row[v][k]
      BY <2>1, <3>1, ContextFacts, RowAssumption
    <3> DEFINE r == row[v][k]
    <3>3. r \in Rows /\ r # NoRow /\ r.delegate \in Voters
      BY <3>1, <3>2, RowAssumption DEF Rows
    <3>4. CASE context.ballot[r.delegate] # NoBallot
      <4>1. r.delegate \in roll /\ box[r.delegate] = b
        BY <3>1, <3>2, <3>3, <3>4, ContextFacts DEF Traced
      <4> QED
        BY <2>4, <3>2, <3>3, <4>1
    <3>5. CASE context.ballot[r.delegate] = NoBallot
      <4>1. PICK j \in Keys :
                /\ context.row[r.delegate][j] \in Rows
                /\ context.row[r.delegate][j].delegate # v
                /\ context.ballot[context.row[r.delegate][j].delegate] # NoBallot
                /\ b = context.ballot[context.row[r.delegate][j].delegate]
        BY <3>1, <3>2, <3>5, ContextFacts DEF Traced
      <4> DEFINE s == row[r.delegate][j]
      <4>2. s = context.row[r.delegate][j]
        BY <3>2, <3>3, <4>1, ContextFacts
      <4>3. s \in Rows /\ s # NoRow /\ s.delegate \in Voters
        BY <4>1, <4>2, RowAssumption DEF Rows
      <4>4. s.delegate # v /\ s.delegate \in roll /\ box[s.delegate] = b
        BY <4>1, <4>2, <4>3, ContextFacts
      <4>5. r.chain = "accept_sub" /\ (r.delegate \notin roll \/ box[r.delegate] = NoBallot)
        BY <3>1, <3>2, <3>3, <3>5, ContextFacts DEF Traced
      <4> QED
        BY <2>4, <3>2, <3>3, <4>3, <4>4, <4>5
    <3> QED
      BY <3>4, <3>5
  <2> QED
    BY <2>3, <2>4
<1> QED
  BY <1>1, TypeCorrect, PTL

(* Strict precedence does not look at the strategy of anybody.             *)
LEMMA StrictIgnoresStrategy ==
    ASSUME NEW c, NEW d, c.topics = d.topics, c.ballot = d.ballot, c.row = d.row,
           c.precedence = d.precedence, NEW v
    PROVE  Strict(c, v) = Strict(d, v) /\ Held(c, v) = Held(d, v)
  <1>1. \A u : find_delegate_pure(c, u) = find_delegate_pure(d, u)
    BY DEF find_delegate_pure, Held, Row, Rank
  <1>2. Held(c, v) = Held(d, v)
    BY DEF Held
  <1> QED
    BY <1>1, <1>2 DEF Strict, Follow

(* The strategy settles conflicts between topics and nothing else: with at *)
(* most one delegated topic a voter is heard the same under either, or not *)
(* heard under either.                                                     *)
THEOREM StrategyOnlySettlesConflicts == Spec => []StrategyNeedsChoice
<1>1. TypeOK => StrategyNeedsChoice
  <2> SUFFICES ASSUME TypeOK, NEW v \in roll, Cardinality(Held(context, v)) <= 1
               PROVE  Heard(v, "strict_precedence") = Heard(v, "relevance_weighted")
    BY DEF StrategyNeedsChoice
  <2> DEFINE c == [context EXCEPT !.strategy[v] = "strict_precedence"]
             d == [context EXCEPT !.strategy[v] = "relevance_weighted"]
  <2>1. v \in Voters
    BY DEF TypeOK
  <2>2. /\ c.topics = context.topics /\ d.topics = context.topics
        /\ c.ballot = context.ballot /\ d.ballot = context.ballot
        /\ c.row = context.row /\ d.row = context.row
        /\ c.precedence = context.precedence /\ d.precedence = context.precedence
        /\ d.relevance = context.relevance
        /\ c.strategy[v] = "strict_precedence" /\ d.strategy[v] = "relevance_weighted"
    BY <2>1 DEF context, _build_context, TypeOK
  <2>3. WellFormed(d)
    BY <2>2, ContextFacts DEF WellFormed, KeysOf
  <2>4. /\ Heard(v, "strict_precedence") =
             IF resolve_vote_pure(c, v) = NoVoice THEN NoBallot
             ELSE resolve_vote_pure(c, v).ballot
        /\ Heard(v, "relevance_weighted") =
             IF resolve_vote_pure(d, v) = NoVoice THEN NoBallot
             ELSE resolve_vote_pure(d, v).ballot
    BY DEF Heard
  <2> HIDE DEF c, d
  <2>5. Strict(c, v) = Strict(d, v) /\ Held(d, v) = Held(context, v)
    <3>1. Strict(c, v) = Strict(d, v)
      BY <2>2, StrictIgnoresStrategy
    <3>2. Held(d, v) = Held(context, v)
      BY <2>2, StrictIgnoresStrategy
    <3> QED
      BY <3>1, <3>2
  <2>6. CASE d.ballot[v] # NoBallot
    BY <2>2, <2>4, <2>6 DEF resolve_vote_pure
  <2>7. CASE d.ballot[v] = NoBallot
    <3>1. resolve_vote_pure(c, v) = Strict(d, v)
      BY <2>2, <2>5, <2>7 DEF resolve_vote_pure, FallThrough
    <3>2. CASE DOMAIN Answers(d, v) = {}
      <4>1. resolve_vote_pure(d, v) = Strict(d, v)
        BY <2>2, <2>7, <3>2 DEF resolve_vote_pure, FallThrough, Relevant
      <4> QED
        BY <2>4, <3>1, <4>1
    <3>3. CASE DOMAIN Answers(d, v) # {}
      <4> DEFINE said == Relevant(d, v, Answers(d, v))
      <4>1. Strict(d, v) # NoVoice /\ said.ballot = Strict(d, v).ballot
        BY <2>1, <2>3, <2>5, <2>7, <3>3, StrategiesAgree
      <4>2. said # NoVoice
        <5>1. PICK i \in DOMAIN Answers(d, v), by \in Voters :
                  said = Voice(Answers(d, v)[i].ballot, by)
          BY <2>1, <2>3, <3>3, RelevantIsAnswer
        <5>2. PICK u \in Voters : /\ Answers(d, v)[i] = Voice(d.ballot[u], u)
                                  /\ d.ballot[u] # NoBallot
          BY <2>1, <2>3, AnswersAreTraced
        <5>3. d.ballot[u] \in poll.ballots
          BY <2>2, <5>2, ContextFacts DEF TypeOK
        <5>4. said \in [ballot : poll.ballots, by : Voters]
          BY <5>1, <5>2, <5>3 DEF Voice
        <5> QED
          BY <5>4, PollAssumption DEF TypeOK
      <4>3. resolve_vote_pure(d, v) = said
        BY <2>2, <2>7, <4>2 DEF resolve_vote_pure, FallThrough
      <4> QED
        BY <2>4, <3>1, <4>1, <4>2, <4>3
    <3> QED
      BY <3>2, <3>3
  <2> QED
    BY <2>6, <2>7
<1> QED
  BY <1>1, TypeCorrect, PTL
-----------------------------------------------------------------------------
(* The counters                                                            *)

(* However an approval vote is configured and its ties are broken, equally *)
(* approved options are treated alike, and nobody is seated over an option *)
(* with more approvals, at every moment of the vote.                       *)
THEOREM ApprovalIsFair == Spec => []EqualApprovalsEqualChances
<1>1. TypeOK => EqualApprovalsEqualChances
  <2> SUFFICES ASSUME TypeOK, poll.method = "approval" PROVE EqualApprovalsEqualChances
    BY DEF EqualApprovalsEqualChances
  <2> SUFFICES ASSUME NEW what, what = What, NEW outcomes, outcomes = compute_tally_pure
               PROVE  LET For(o) == {v \in DOMAIN what : o \in what[v]}
                          approvals == [o \in poll.options |->
                              SumFunctionOnSet(Many(what), For(o))]
                      IN  \A T \in outcomes : \A o \in T, q \in poll.options \ T :
                              /\ approvals[q] <= approvals[o]
                              /\ approvals[q] = approvals[o] /\ For(q) # {} =>
                                     \/ (T \ {o}) \union {q} \in outcomes
                                     \/ poll.rules.resolver = "broader_approval_base"
    BY Zenon DEF EqualApprovalsEqualChances
  <2> DEFINE p == [options |-> poll.options, approved |-> what, weight |-> Many(what),
                     rules |-> poll.rules]
  <2>1. DOMAIN what \in SUBSET Voters
    BY DEF What, Voices, Voiced, TypeOK
  <2>2. Countable(p)
    <3>1. IsFiniteSet(DOMAIN what)
      BY <2>1, VoterAssumption, FS_Subset
    <3>2. \A v \in DOMAIN what : _weight_of(v) \in Nat
      BY <2>1, PollAssumption DEF _weight_of, TypeOK
    <3>3. poll.rules.configured => poll.rules.min \in Int /\ poll.rules.max \in Int
      BY PollAssumption DEF TypeOK
    <3>4. IsFiniteSet(poll.options)
      BY PollAssumption DEF TypeOK
    <3> QED
      BY <3>1, <3>2, <3>3, <3>4 DEF Countable, Many
  <2>3. outcomes = resolve_tie_if_needed(p)
    BY DEF compute_tally_pure, Outcome
  <2>4. /\ p.options = poll.options /\ p.approved = what /\ p.weight = Many(what)
        /\ p.rules = poll.rules /\ DOMAIN Many(what) = DOMAIN what
    BY DEF Many
  <2> HIDE DEF p
  <2>5. Leveled(p, _compute_approval_tally_pure(p))
    BY <2>2, ConfiguredIsLeveled, LegacyIsLeveled DEF _compute_approval_tally_pure
  <2>6. Fair(p, outcomes)
    BY <2>2, <2>3, <2>5, LeveledIsFair DEF resolve_tie_if_needed
  <2>7. \A T \in outcomes : T \subseteq poll.options
    BY <2>2, <2>3, <2>4, <2>5, LeveledIsFair DEF resolve_tie_if_needed, Named
  <2> DEFINE For(o) == {v \in DOMAIN what : o \in what[v]}
             approvals == [o \in poll.options |-> SumFunctionOnSet(Many(what), For(o))]
  <2>8. \A o \in poll.options : approvals[o] = Approvals(p, o)
    BY <2>4 DEF Approvals
  <2>9. \A o \in poll.options : o \in Named(p) <=> For(o) # {}
    BY <2>4 DEF Named
  <2> HIDE DEF approvals, For
  <2> SUFFICES ASSUME NEW T \in outcomes, NEW o \in T, NEW q \in poll.options \ T
               PROVE  /\ approvals[q] <= approvals[o]
                      /\ approvals[q] = approvals[o] /\ For(q) # {} =>
                             \/ (T \ {o}) \union {q} \in outcomes
                             \/ poll.rules.resolver = "broader_approval_base"
    BY Zenon DEF approvals, For
  <2>10. o \in poll.options /\ q \in p.options \ T
    BY <2>4, <2>7
  <2>11. /\ Approvals(p, q) <= Approvals(p, o)
         /\ Approvals(p, q) = Approvals(p, o) /\ q \in Named(p) =>
                \/ (T \ {o}) \union {q} \in outcomes
                \/ p.rules.resolver = "broader_approval_base"
    BY <2>6, <2>10 DEF Fair
  <2> QED
    BY <2>4, <2>8, <2>9, <2>10, <2>11
<1> QED
  BY <1>1, TypeCorrect, PTL

(* What is counted are ballots that were cast, each with a natural weight. *)
LEMMA WhatFacts ==
    ASSUME TypeOK
    PROVE  /\ DOMAIN What \in SUBSET Voters /\ IsFiniteSet(DOMAIN What)
           /\ \A v \in DOMAIN What : What[v] \in poll.ballots
  <1>1. DOMAIN What \in SUBSET Voters
    BY DEF What, Voices, Voiced, TypeOK
  <1>2. IsFiniteSet(DOMAIN What)
    BY <1>1, VoterAssumption, FS_Subset
  <1>3. ASSUME NEW v \in DOMAIN What PROVE What[v] \in poll.ballots
    <2>1. /\ v \in roll /\ v \in Voters /\ resolve_vote_pure(context, v) # NoVoice
          /\ What[v] = resolve_vote_pure(context, v).ballot
      BY <1>1 DEF What, Voices, Voiced
    <2>2. WellFormed(context) /\ \A u \in Voters : context.ballot[u] # NoBallot =>
              context.ballot[u] \in poll.ballots
      BY ContextFacts DEF TypeOK
    <2>3. CASE context.ballot[v] # NoBallot
      <3>1. What[v] = context.ballot[v]
        BY <2>1, <2>3 DEF resolve_vote_pure, Voice
      <3> QED
        BY <2>1, <2>2, <2>3, <3>1
    <2>4. CASE context.ballot[v] = NoBallot
      <3>1. PICK k \in KeysOf(context) :
                /\ context.row[v][k] \in Rows
                /\ Traced(context, v, context.row[v][k], What[v])
        BY <2>1, <2>2, <2>4, ResolvedIsTraced
      <3>2. \E u \in Voters : context.ballot[u] # NoBallot /\ What[v] = context.ballot[u]
        BY <3>1 DEF Traced, Rows
      <3> QED
        BY <2>2, <3>2
    <2> QED
      BY <2>3, <2>4
  <1> QED
    BY <1>1, <1>2, <1>3

(* The weight of a counted ballot is a natural number, and one where shares*)
(* are not used.                                                           *)
LEMMA ManyFacts ==
    ASSUME TypeOK
    PROVE  /\ \A v \in DOMAIN What : Many(What)[v] \in Nat
           /\ ~poll.weighted => \A v \in DOMAIN What : Many(What)[v] = 1
  <1>1. \A v \in DOMAIN What : v \in Voters /\ Many(What)[v] = _weight_of(v)
    BY WhatFacts DEF Many
  <1>2. \A v \in DOMAIN What : _weight_of(v) \in Nat
    BY <1>1, PollAssumption DEF _weight_of, TypeOK
  <1>3. \A v \in DOMAIN What : Many(What)[v] \in Nat
    BY <1>1, <1>2
  <1>4. ASSUME ~poll.weighted PROVE \A v \in DOMAIN What : Many(What)[v] = 1
    BY <1>1, <1>4 DEF _weight_of
  <1> QED
    BY <1>3, <1>4

LEMMA ProjectFacts ==
    ASSUME TypeOK, poll.method = "budget_project",
           NEW p, p = Budget(What, Many(What), poll.weighted)
    PROVE  /\ compute_tally_pure = tally_project(p)
           /\ p.weight = Many(What) /\ Ballots(p) = DOMAIN What
           /\ p.options = poll.options /\ p.ballot = What /\ p.rules = poll.rules
           /\ poll.rules.envelope \in Nat /\ poll.rules.max_spend \in Nat
           /\ Budgeted(p)
           /\ \A b \in poll.ballots : IsRanking(p, b)
  <1>1. compute_tally_pure = tally_project(p)
    BY DEF compute_tally_pure, Outcome
  <1>2. /\ poll.rules \in [envelope : Nat, min_spend : Nat, max_spend : Nat,
                            tiers : [poll.options -> Seq(Nat)],
                            fallback : [poll.options -> BOOLEAN]]
        /\ poll.rules.min_spend <= poll.rules.max_spend
        /\ IsFiniteSet(poll.options) /\ poll.weighted \in BOOLEAN
        /\ \A o \in poll.options : poll.priority[o] \in Int
    BY PollAssumption, ProjectAssumption, PriorityAssumption DEF TypeOK
  <1>3. /\ p.weighted = poll.weighted /\ p.weight = Many(What)
        /\ p.options = poll.options /\ p.id = poll.priority /\ p.ballot = What
        /\ p.rules = poll.rules
    BY DEF Budget
  <1>4. Ballots(p) = DOMAIN What
    BY <1>3 DEF Ballots, Many
  <1>5. \A b \in poll.ballots : IsRanking(p, b)
    BY <1>3, ProjectAssumption DEF IsRanking, TypeOK
  <1>6. Weighed(p)
    <2>1. IsFiniteSet(Ballots(p)) /\ p.weighted \in BOOLEAN
      BY <1>2, <1>3, <1>4, WhatFacts
    <2>2. \A v \in Ballots(p) : p.weight[v] \in Nat
      BY <1>3, <1>4, ManyFacts
    <2>3. ~p.weighted => \A v \in Ballots(p) : p.weight[v] = 1
      BY <1>3, <1>4, ManyFacts
    <2> QED
      BY <2>1, <2>2, <2>3 DEF Weighed
  <1>7. /\ \A o \in poll.options : \A t \in DOMAIN poll.rules.tiers[o] :
               poll.rules.tiers[o][t] \in Nat
        /\ poll.rules.envelope \in Nat /\ poll.rules.min_spend \in Nat
        /\ poll.rules.max_spend \in Nat
    BY <1>2
  <1>8. Budgeted(p)
    BY <1>2, <1>3, <1>4, <1>5, <1>6, <1>7, WhatFacts DEF Budgeted
  <1> QED
    BY <1>1, <1>3, <1>4, <1>5, <1>7, <1>8

(* Voters with more than half the weight who hand in one ranking of items  *)
(* that cost something have it funded in their order and tiers up to the   *)
(* first entry that does not fit, whatever the others rank and wherever the*)
(* medians put the items.                                                  *)
THEOREM MajorityIsFunded == Spec => []MajorityRankingFunded
<1>1. TypeOK => MajorityRankingFunded
  <2> SUFFICES ASSUME TypeOK, poll.method = "budget_project",
                      \A o \in poll.options : ~poll.rules.fallback[o],
                      NEW what, what = What,
                      NEW funded, funded = compute_tally_pure.funded,
                      NEW b \in poll.ballots,
                      ~ \E i \in DOMAIN b : Cost(poll, b[i]) = 0,
                      2 * SumFunctionOnSet(Many(what), {v \in DOMAIN what : what[v] = b})
                          > SumFunctionOnSet(Many(what), DOMAIN what)
               PROVE  LET common == Min({Len(funded), Len(b)})
                      IN  /\ SubSeq(funded, 1, common) = SubSeq(b, 1, common)
                          /\ Len(funded) < Len(b) =>
                               Spend(poll, funded, Len(funded)) + Cost(poll, b[Len(funded) + 1])
                                 > Min({poll.rules.envelope, poll.rules.max_spend})
    BY Zenon DEF MajorityRankingFunded
  <2> DEFINE p == Budget(What, Many(What), poll.weighted)
  <2>1. /\ compute_tally_pure = tally_project(p)
        /\ p.weight = Many(What) /\ Ballots(p) = DOMAIN What
        /\ p.options = poll.options /\ p.ballot = What /\ p.rules = poll.rules
        /\ Budgeted(p) /\ IsRanking(p, b)
    BY ProjectFacts
  <2> HIDE DEF p
  <2>2. /\ \A e : Cost(poll, e) = Cost(p, e)
        /\ \A f, n : Spend(poll, f, n) = Spend(p, f, n)
    BY <2>1 DEF Cost, Spend
  <2>3. Priced(p, b)
    <3>1. \A i \in DOMAIN b : Cost(p, b[i]) \in Nat /\ Cost(p, b[i]) # 0
      BY <2>1, <2>2, EntryFacts
    <3> QED
      BY <3>1 DEF Priced
  <2>4. Prevails(p, b)
    BY <2>1 DEF Prevails, Backers, WeightOf
  <2>5. \A o \in p.options : ~p.rules.fallback[o]
    BY <2>1
  <2>6. Honours(p, funded, b)
    BY <2>1, <2>3, <2>4, <2>5, MajorityFunded
  <2>7. /\ SubSeq(funded, 1, Min({Len(funded), Len(b)})) =
              SubSeq(b, 1, Min({Len(funded), Len(b)}))
        /\ Len(funded) < Len(b) =>
              Spend(p, funded, Len(funded)) + Cost(p, b[Len(funded) + 1])
                > Min({p.rules.envelope, p.rules.max_spend})
    BY <2>1, <2>6, HonouredEntries
  <2> QED
    BY <2>1, <2>2, <2>7
<1> QED
  BY <1>1, TypeCorrect, PTL

(* A ranked-pairs winner answers every option that more voters prefer to it*)
(* than the other way round, through victories that are at least as strong,*)
(* for any options, ballots, shares and priorities.                        *)
THEOREM WinnerIsImmune == Spec => []ImmuneToArguments
<1>1. TypeOK => ImmuneToArguments
  <2> SUFFICES ASSUME TypeOK, poll.method = "ranked_pairs",
                      NEW p, p = ProfileOf(What),
                      NEW w \in Elect(p, 1), NEW o \in poll.options,
                      <<o, w>> \in Victories(p)
               PROVE  o \in Beats(p, w, Margin(p, <<o, w>>))
    BY DEF ImmuneToArguments
  <2> DEFINE stated == {v \in DOMAIN What : What[v] # Abstain}
             rate   == [v \in stated |-> What[v]]
             weight == [v \in stated |-> _weight_of(v)]
             For(a, b) == {v \in DOMAIN weight : rate[v][a] > rate[v][b]}
  <2>1. p = _rated_totals(poll.options, rate, weight, poll.priority)
    BY DEF ProfileOf
  <2>2. IsFiniteSet(stated) /\ \A v \in stated : weight[v] \in Int
    <3>1. \A v \in DOMAIN What : v \in Voters
      BY WhatFacts
    <3>2. \A v \in Voters : _weight_of(v) \in Int
      BY PollAssumption DEF _weight_of, TypeOK
    <3> QED
      BY <3>1, <3>2, WhatFacts, FS_Subset
  <2>3. ASSUME NEW a \in poll.options, NEW b \in poll.options
        PROVE  p.pairwise[a][b] \in Int
    <3>1. p.pairwise[a][b] = SumFunctionOnSet(weight, For(a, b))
      <4> HIDE DEF stated, weight, rate
      <4> QED
        BY <2>1 DEF _rated_totals
    <3>2. For(a, b) \in SUBSET stated
      OBVIOUS
    <3> HIDE DEF For, stated, weight
    <3> QED
      BY <2>2, <3>1, <3>2, SumIsInteger
  <2>4. p.options = poll.options /\ p.priority = poll.priority
    <3> HIDE DEF weight, rate
    <3> QED
      BY <2>1 DEF _rated_totals
  <2>5. Compared(p)
    BY <2>3, <2>4, PollAssumption, PriorityAssumption DEF Compared, TypeOK
  <2>6. w \in count_ranked_pairs(p, 1)
    BY DEF Elect
  <2> DEFINE m == Margin(p, <<o, w>>)
             strong == {f \in Victories(p) : Margin(p, f) >= m}
  <2>7. Leads(p, strong, w, o)
    <3> DEFINE e == <<o, w>>
    <3>1. e \in Victories(p) /\ e[1] = o /\ e[2] = w
      OBVIOUS
    <3> HIDE DEF e, rate, weight
    <3>2. Leads(p, {f \in Victories(p) : Margin(p, f) >= Margin(p, e)}, w, e[1])
      BY <2>1, <2>5, <2>6, <3>1, WinnerAnswers
    <3> QED
      BY <3>1, <3>2 DEF e
  <2> QED
    <3>1. \A C \in SUBSET p.options :
              /\ w \in C
              /\ \A e \in Victories(p) : Margin(p, e) >= m /\ e[1] \in C => e[2] \in C
              => o \in C
      BY <2>7 DEF Leads, Closed
    <3> QED
      BY <2>4, <3>1 DEF Beats
<1> QED
  BY <1>1, TypeCorrect, PTL

(* The median grades taken one after another, by their places.             *)
LEMMA MedianGradesAre ==
    ASSUME NEW h \in Histograms, NEW all \in Nat, Weight(h) = all
    PROVE  MedianGrades(h) = [n \in 1 .. all |-> GradeAt(h, TakenPlace(all, n))]
  <1> DEFINE Obeys(g) == g = [n \in 0 .. Weight(h) |-> IF n = 0 THEN h ELSE Removed(g[n - 1])]
             left == CHOOSE g : Obeys(g)
  <1>1. MedianGrades(h) = [n \in 1 .. Weight(h) |-> _lower_median(left[n - 1])]
    BY DEF MedianGrades, Without, Removed
  <1>2. Obeys(left)
    <2>1. \E g : Obeys(g)
      <3>1. Weight(h) \in Nat
        OBVIOUS
      <3> QED
        BY <3>1, RemovalsExist
    <2> HIDE DEF Obeys
    <2> QED
      BY <2>1
  <1> HIDE DEF left
  <1>3. \A n \in 1 .. Weight(h) :
            _lower_median(left[n - 1]) = GradeAt(h, TakenPlace(Weight(h), n))
    BY <1>2, GradesTaken
  <1> QED
    BY <1>1, <1>3

(* The histograms of a vote by majority judgment.                          *)
LEMMA JudgedFacts ==
    ASSUME TypeOK, poll.method = "majority_judgment",
           NEW p, p = ProfileOf(What)
    PROVE  \E all \in Nat : \A o \in poll.options :
               p.histogram[o] \in Histograms /\ Weight(p.histogram[o]) = all
  <1> DEFINE stated == {v \in DOMAIN What : What[v] # Abstain}
             rate   == [v \in stated |-> What[v]]
             weight == [v \in stated |-> _weight_of(v)]
             all    == SumFunctionOnSet(weight, stated)
  <1>1. p = _rated_totals(poll.options, rate, weight, poll.priority)
    BY DEF ProfileOf
  <1>2. IsFiniteSet(stated) /\ (\A v \in stated : weight[v] \in Nat) /\ DOMAIN weight = stated
    <2>1. \A v \in DOMAIN What : v \in Voters
      BY WhatFacts
    <2>2. \A v \in Voters : _weight_of(v) \in Nat
      BY PollAssumption DEF _weight_of, TypeOK
    <2> QED
      BY <2>1, <2>2, WhatFacts, FS_Subset
  <1>3. \A v \in stated : \A o \in poll.options : rate[v][o] \in Ratings
    <2>1. \A v \in stated : What[v] \in poll.ballots \ {Abstain}
      BY WhatFacts
    <2>2. \A v \in stated : What[v] \in [poll.options -> Ratings]
      BY <2>1, BallotAssumption DEF TypeOK
    <2> QED
      BY <2>2
  <1> HIDE DEF stated, rate, weight
  <1>4. all \in Nat
    BY <1>2, SumIsNatural
  <1>5. ASSUME NEW o \in poll.options
        PROVE  p.histogram[o] \in Histograms /\ Weight(p.histogram[o]) = all
    <2> DEFINE given == [v \in stated |-> rate[v][o]]
               h == p.histogram[o]
    <2>1. \A v \in stated : given[v] \in Ratings
      BY <1>3
    <2>2. h = [r \in Ratings |-> SumFunctionOnSet(weight, {v \in DOMAIN weight : rate[v][o] = r})]
      <3>1. p.histogram = [a \in poll.options |-> [r \in Ratings |->
                              SumFunctionOnSet(weight, {v \in DOMAIN weight : rate[v][a] = r})]]
        BY <1>1 DEF _rated_totals
      <3> QED
        BY <3>1
    <2>3. h = [r \in Ratings |-> SumFunctionOnSet(weight, {v \in stated : given[v] = r})]
      <3>1. \A r \in Ratings : {v \in DOMAIN weight : rate[v][o] = r} = {v \in stated : given[v] = r}
        BY <1>2
      <3> HIDE DEF h, given
      <3> QED
        BY <2>2, <3>1
    <2> HIDE DEF h, given
    <2>4. h \in Histograms /\ Weight(h) = all
      BY <1>2, <2>1, <2>3, HistogramFacts
    <2> QED
      BY <2>4 DEF h
  <1> QED
    BY <1>4, <1>5

(* Jumping over whole runs of equal pairs of grades leaves the options that*)
(* taking one median grade at a time leaves, for any ballots and shares.   *)
THEOREM JumpsAreRemovals == Spec => []MedianRemovalExact
<1>1. TypeOK => MedianRemovalExact
  <2> SUFFICES ASSUME TypeOK, poll.method = "majority_judgment",
                      NEW p, p = ProfileOf(What),
                      NEW grades, grades = [o \in poll.options |-> MedianGrades(p.histogram[o])],
                      NEW pool \in (SUBSET poll.options) \ {{}}
               PROVE  Survivors(p.histogram, pool) =
                          {o \in pool : \A q \in pool : ~WorseThan(grades[o], grades[q])}
    BY DEF MedianRemovalExact
  <2> DEFINE h == p.histogram
  <2>1. PICK all \in Nat : \A o \in poll.options : h[o] \in Histograms /\ Weight(h[o]) = all
    BY JudgedFacts
  <2>2. IsFiniteSet(pool) /\ pool # {} /\ pool \subseteq poll.options
    BY PollAssumption, FS_Subset DEF TypeOK
  <2>3. Survivors(h, pool) = Best(pool, GradesOf(h, pool, all), all)
    <3> HIDE DEF h
    <3> QED
      BY <2>1, <2>2, SurvivorsAreBest
  <2>4. \A o \in pool : grades[o] = GradesOf(h, pool, all)[o] /\ DOMAIN grades[o] = 1 .. all
    <3>1. \A o \in pool : MedianGrades(h[o]) = [n \in 1 .. all |-> GradeAt(h[o], TakenPlace(all, n))]
      BY <2>1, <2>2, MedianGradesAre
    <3> QED
      BY <2>2, <3>1 DEF GradesOf
  <2> DEFINE taken == GradesOf(h, pool, all)
  <2> HIDE DEF taken, h
  <2>5. ASSUME NEW o \in pool, NEW q \in pool
        PROVE  WorseThan(grades[o], grades[q]) <=> Worse(taken[o], taken[q], all)
    <3>1. grades[o] = taken[o] /\ grades[q] = taken[q] /\ DOMAIN grades[o] = 1 .. all
      BY <2>4 DEF taken
    <3>2. WorseThan(grades[o], grades[q]) <=> Worse(grades[o], grades[q], all)
      BY <3>1 DEF WorseThan, Worse
    <3> QED
      BY <3>1, <3>2
  <2> QED
    BY <2>3, <2>5 DEF Best, h, taken
<1> QED
  BY <1>1, TypeCorrect, PTL

(* Ballots that were cast, of some of the voters.                          *)
Counted(what) ==
    /\ DOMAIN what \in SUBSET Voters /\ IsFiniteSet(DOMAIN what)
    /\ \A v \in DOMAIN what : what[v] \in poll.ballots

(* Moving the winner up on one ballot leaves it the winner.                *)
LEMMA RaisedIsElected ==
    ASSUME TypeOK, poll.method \in {"score", "majority_judgment", "ranked_pairs"},
           NEW before, Counted(before), NEW after, Counted(after),
           NEW x \in DOMAIN before, Abstain \notin {before[x], after[x]},
           after = [before EXCEPT ![x] = after[x]],
           NEW w \in poll.options, Lifts(before[x], after[x], w),
           w \in Elect(ProfileOf(before), 1)
    PROVE  w \in Elect(ProfileOf(after), 1)
  <1> DEFINE V == {v \in DOMAIN before : before[v] # Abstain}
             weight == [v \in V |-> _weight_of(v)]
             rate   == [v \in V |-> before[v]]
             given  == [v \in V |-> after[v]]
             p == _rated_totals(poll.options, rate, weight, poll.priority)
             q == _rated_totals(poll.options, given, weight, poll.priority)
             options == poll.options
  <1>1. /\ DOMAIN after = DOMAIN before
        /\ \A v \in DOMAIN before : v # x => after[v] = before[v]
    OBVIOUS
  <1>2. V = {v \in DOMAIN after : after[v] # Abstain}
    BY <1>1
  <1>3. ProfileOf(before) = p /\ ProfileOf(after) = q
    <2>1. ProfileOf(before) = p
      BY DEF ProfileOf
    <2>2. ProfileOf(after) = q
      <3> DEFINE U == {v \in DOMAIN after : after[v] # Abstain}
      <3>1. ProfileOf(after) = _rated_totals(poll.options, [v \in U |-> after[v]],
                                             [v \in U |-> _weight_of(v)], poll.priority)
        BY DEF ProfileOf
      <3>2. U = V
        BY <1>2
      <3> HIDE DEF U, V
      <3> QED
        BY <3>1, <3>2
    <2> QED
      BY <2>1, <2>2
  <1>4. /\ IsFiniteSet(V) /\ x \in V /\ V \subseteq DOMAIN before
        /\ \A v \in V : v \in Voters
        /\ \A v \in V : before[v] \in poll.ballots \ {Abstain}
        /\ \A v \in V : after[v] \in poll.ballots \ {Abstain}
    <2>1. IsFiniteSet(V)
      BY FS_Subset DEF Counted
    <2> QED
      BY <1>1, <1>2, <2>1 DEF Counted
  <1>5. Recast(V, weight, rate, given, x)
    <2>1. \A v \in V : _weight_of(v) \in Nat
      BY <1>4, PollAssumption DEF _weight_of, TypeOK
    <2> HIDE DEF V
    <2> QED
      BY <1>1, <1>4, <2>1 DEF Recast
  <1>6. /\ IsFiniteSet(options) /\ \A o \in options : poll.priority[o] \in Int
        /\ \A a, o \in options : poll.priority[a] = poll.priority[o] => a = o
    BY PollAssumption, PriorityAssumption DEF TypeOK
  <1>7. /\ \A v \in V : rate[v] = before[v] /\ given[v] = after[v]
        /\ rate[x] = before[x] /\ given[x] = after[x]
    BY <1>4
  <1> HIDE DEF V, weight, rate, given
  <1>8. /\ p.options = options /\ q.options = options
        /\ p.priority = poll.priority /\ q.priority = poll.priority
    BY DEF _rated_totals
  <1>9. ASSUME poll.method # "ranked_pairs"
        PROVE  /\ \A v \in V : \A o \in options : rate[v][o] \in Ratings /\ given[v][o] \in Ratings
               /\ \A o \in options \ {w} : given[x][o] = rate[x][o]
               /\ given[x][w] > rate[x][w]
    <2>1. \A b \in poll.ballots \ {Abstain} : b \in [options -> Ratings]
      BY <1>9, BallotAssumption DEF TypeOK
    <2>2. \A v \in V : rate[v] \in [options -> Ratings] /\ given[v] \in [options -> Ratings]
      BY <1>4, <1>7, <2>1
    <2>3. after[x][w] > before[x][w] /\ after[x] = [before[x] EXCEPT ![w] = after[x][w]]
      BY <1>9 DEF Lifts
    <2>4. \A o \in options \ {w} : given[x][o] = rate[x][o]
      <3>1. rate[x] \in [options -> Ratings] /\ given[x] = [rate[x] EXCEPT ![w] = given[x][w]]
        BY <1>4, <1>7, <2>2, <2>3
      <3> QED
        BY <3>1
    <2> QED
      BY <1>7, <2>2, <2>3, <2>4
  <1>10. CASE poll.method = "score"
    <2>1. w \in count_score(p, 1)
      BY <1>3, <1>10 DEF Elect
    <2>2. /\ \A o \in options : p.score[o] \in Int /\ q.score[o] \in Int
          /\ \A o \in options \ {w} : q.score[o] = p.score[o]
          /\ q.score[w] >= p.score[w]
      BY <1>5, <1>9, <1>10, RaisedScores
    <2> HIDE DEF p, q, options
    <2>3. w \in count_score(q, 1)
      BY <1>6, <1>8, <2>1, <2>2, RaisedIsScored
    <2> QED
      BY <1>3, <1>10, <2>3 DEF Elect
  <1>11. CASE poll.method = "majority_judgment"
    <2> DEFINE all == SumFunctionOnSet(weight, V)
    <2>1. w \in count_majority_judgment(p, 1)
      BY <1>3, <1>11 DEF Elect
    <2>2. /\ \A o \in options :
                  /\ p.histogram[o] \in Histograms /\ Weight(p.histogram[o]) = all
                  /\ q.histogram[o] \in Histograms /\ Weight(q.histogram[o]) = all
          /\ \A o \in options \ {w} : q.histogram[o] = p.histogram[o]
          /\ \A r \in Ratings : UpToGrade(q.histogram[w], r) <= UpToGrade(p.histogram[w], r)
      BY <1>5, <1>9, <1>11, RaisedGrades
    <2>3. all \in Nat
      BY <1>5, SumIsNatural DEF Recast
    <2>4. Untied(p)
      BY <1>6, <1>8 DEF Untied
    <2> HIDE DEF p, q, options, all
    <2>5. w \in count_majority_judgment(q, 1)
      BY <1>6, <1>8, <2>1, <2>2, <2>3, <2>4, RaisedIsJudged
    <2> QED
      BY <1>3, <1>11, <2>5 DEF Elect
  <1>12. CASE poll.method = "ranked_pairs"
    <2>1. w \in count_ranked_pairs(p, 1)
      BY <1>3, <1>12 DEF Elect
    <2>2. \A v \in V : \A o \in options : rate[v][o] \in Nat /\ given[v][o] \in Nat
      <3>1. \A b \in poll.ballots \ {Abstain} : b \in [options -> Nat]
        BY <1>12, BallotAssumption DEF TypeOK
      <3> QED
        BY <1>4, <1>7, <3>1
    <2>3. /\ \A a, o \in options \ {w} : rate[x][a] < rate[x][o] <=> given[x][a] < given[x][o]
          /\ \A o \in options : /\ rate[x][w] > rate[x][o] => given[x][w] > given[x][o]
                                /\ rate[x][w] = rate[x][o] => given[x][w] >= given[x][o]
      BY <1>7, <1>12 DEF Lifts
    <2>4. /\ p = _rated_totals(options, rate, weight, poll.priority)
          /\ q = _rated_totals(options, given, weight, poll.priority)
          /\ options = poll.options
      OBVIOUS
    <2>5. w \in options
      BY <2>4
    <2> HIDE DEF options, rate, given, weight, p, q
    <2>6. /\ Raised(p, q, w)
          /\ \A a, o \in options : p.pairwise[a][o] \in Nat /\ q.pairwise[a][o] \in Nat
      BY <1>5, <2>2, <2>3, <2>4, <2>5, RaisedRanks
    <2>7. Compared(p) /\ Compared(q) /\ Untied(p)
      BY <1>6, <1>8, <2>4, <2>6 DEF Compared, Untied
    <2>8. \A a, o \in options : p.pairwise[a][o] >= 0
      BY <2>6
    <2>9. w \in count_ranked_pairs(q, 1)
      BY <2>1, <2>4, <2>6, <2>7, <2>8, RaisedIsRanked
    <2> QED
      BY <1>3, <1>12, <2>9 DEF Elect
  <1> QED
    BY <1>10, <1>11, <1>12

(* Moving the winner up on one ballot never makes it lose, by score, by    *)
(* majority judgment or by ranked pairs, for any ballots of the others, any*)
(* shares and any priorities.                                              *)
THEOREM RaisingNeverHurts == Spec => RaisingHelps
<1>1. Spec => []Counted(What)
  <2>1. TypeOK => Counted(What)
    BY WhatFacts DEF Counted
  <2> QED
    BY <2>1, TypeCorrect, PTL
<1> DEFINE Raising ==
        poll.method \in {"score", "majority_judgment", "ranked_pairs"} =>
           \A before \in {What}, after \in {What'} :
               \A v \in DOMAIN before \intersect DOMAIN after, w \in poll.options :
                   /\ before[v] # after[v]
                   /\ Abstain \notin {before[v], after[v]}
                   /\ Lifts(before[v], after[v], w)
                   /\ after = [before EXCEPT ![v] = after[v]]
                   /\ w \in Elect(ProfileOf(before), 1)
                   => w \in Elect(ProfileOf(after), 1)
<1>2. TypeOK /\ Counted(What) /\ Counted(What)' /\ [Next]_vars => Raising
  <2> SUFFICES ASSUME TypeOK, Counted(What), Counted(What)', [Next]_vars,
                      poll.method \in {"score", "majority_judgment", "ranked_pairs"},
                      NEW before, before = What, NEW after, after = What',
                      NEW v \in DOMAIN before, NEW w \in poll.options,
                      Abstain \notin {before[v], after[v]},
                      Lifts(before[v], after[v], w),
                      after = [before EXCEPT ![v] = after[v]],
                      w \in Elect(ProfileOf(before), 1)
               PROVE  w \in Elect(ProfileOf(after), 1)
    OBVIOUS
  <2>1. poll' = poll
    BY PollFixed
  <2>2. Counted(before) /\ Counted(after)
    BY <2>1 DEF Counted
  <2> QED
    BY <2>2, RaisedIsElected
<1> QED
  BY <1>1, <1>2, TypeCorrect, PTL DEF Spec, RaisingHelps

(* The profile that is counted by score, STAR, majority judgment or ranked *)
(* pairs.                                                                  *)
LEMMA ProfileFacts ==
    ASSUME TypeOK, NEW p, p = ProfileOf(What),
           poll.method \in {"score", "star", "majority_judgment", "ranked_pairs"}
    PROVE  /\ Polled(p) /\ p.options = poll.options
           /\ poll.method # "ranked_pairs" =>
                  \A v \in DOMAIN p.weight : \A o \in p.options : p.rate[v][o] \in Ratings
  <1> DEFINE V == {v \in DOMAIN What : What[v] # Abstain}
             rate == [v \in V |-> What[v]]
             weight == [v \in V |-> _weight_of(v)]
  <1>1. p = _rated_totals(poll.options, rate, weight, poll.priority)
    BY DEF ProfileOf
  <1>2. IsFiniteSet(V) /\ DOMAIN weight = V
    BY WhatFacts, FS_Subset
  <1>3. \A v \in V : weight[v] \in Nat
    <2>1. \A v \in V : v \in Voters /\ weight[v] = _weight_of(v)
      BY WhatFacts
    <2> QED
      BY <2>1, PollAssumption DEF _weight_of, TypeOK
  <1>4. \A v \in V : rate[v] \in poll.ballots \ {Abstain}
    BY WhatFacts
  <1> HIDE DEF V, rate, weight
  <1>5. /\ poll.method # "ranked_pairs" => \A v \in V : rate[v] \in [poll.options -> Ratings]
        /\ poll.method = "ranked_pairs" => \A v \in V : rate[v] \in [poll.options -> Nat]
    BY <1>4, BallotAssumption DEF TypeOK
  <1>6. \A v \in V : \A o \in poll.options :
            /\ rate[v][o] \in Nat
            /\ poll.method # "ranked_pairs" => rate[v][o] \in Ratings
    <2>1. \A r \in Ratings : r \in Nat
      BY DEF Ratings
    <2> QED
      BY <1>5, <2>1
  <1>7. /\ IsFiniteSet(poll.options) /\ \A o \in poll.options : poll.priority[o] \in Int
        /\ \A a, o \in poll.options : poll.priority[a] = poll.priority[o] => a = o
    BY PollAssumption, PriorityAssumption DEF TypeOK
  <1>8. /\ p.options = poll.options /\ p.rate = rate /\ p.weight = weight
        /\ p.priority = poll.priority
    BY <1>1 DEF _rated_totals
  <1> QED
    BY <1>1, <1>2, <1>3, <1>6, <1>7, <1>8 DEF Polled, Untied

(* With every seat more, score, STAR, majority judgment and ranked pairs   *)
(* elect one more of the options that have any support, and nobody else:   *)
(* the counter for one seat and the counter for several, which are separate*)
(* code over different pools, never disagree.                              *)
THEOREM SeatsAreAdded == Spec => []SeatsAddUp
<1>1. TypeOK => SeatsAddUp
  <2> SUFFICES ASSUME TypeOK,
                      poll.method \in {"score", "star", "majority_judgment", "ranked_pairs"},
                      NEW p, p = ProfileOf(What),
                      NEW seats, seats = [n \in 1 .. 3 |-> Elect(p, n)],
                      NEW backed, backed = Supported(p),
                      ~(/\ poll.method = "ranked_pairs"
                        /\ ~ \E a, b \in backed : p.pairwise[a][b] > 0)
               PROVE  \A n \in 1 .. 3 :
                          /\ n > 1 => seats[n - 1] \subseteq seats[n]
                          /\ seats[n] \subseteq backed
                          /\ Cardinality(seats[n]) = Min({n, Cardinality(backed)})
    BY DEF SeatsAddUp
  <2>1. /\ Polled(p) /\ p.options = poll.options
        /\ poll.method # "ranked_pairs" =>
               \A v \in DOMAIN p.weight : \A o \in p.options : p.rate[v][o] \in Ratings
    BY ProfileFacts
  <2> DEFINE one == seats[1]
             two == seats[2]
             three == seats[3]
             InTurn(a, b, c) ==
                 /\ NextSeat(backed, {}, a) /\ NextSeat(backed, a, b) /\ NextSeat(backed, b, c)
  <2>2. one = Elect(p, 1) /\ two = Elect(p, 2) /\ three = Elect(p, 3)
    <3>1. 1 \in 1 .. 3 /\ 2 \in 1 .. 3 /\ 3 \in 1 .. 3
      OBVIOUS
    <3> QED
      BY <3>1
  <2>3. one = seats[1] /\ two = seats[2] /\ three = seats[3]
    OBVIOUS
  <2> HIDE DEF one, two, three, InTurn
  <2>4. ASSUME poll.method = "score"
        PROVE  InTurn(one, two, three)
    <3>1. InTurn(count_score(p, 1), count_score(p, 2), count_score(p, 3))
      BY <2>1, ScoreSeats DEF InTurn
    <3>2. /\ Elect(p, 1) = count_score(p, 1) /\ Elect(p, 2) = count_score(p, 2)
          /\ Elect(p, 3) = count_score(p, 3)
      BY <2>4 DEF Elect
    <3> QED
      BY <2>2, <3>1, <3>2
  <2>5. ASSUME poll.method = "star"
        PROVE  InTurn(one, two, three)
    <3> DEFINE star == IF backed = {} THEN {} ELSE {count_star(p)}
    <3>1. InTurn(star, count_bloc_star(p, 2), count_bloc_star(p, 3))
      BY <2>1, StarSeats DEF InTurn
    <3>2. /\ Elect(p, 1) = star /\ Elect(p, 2) = count_bloc_star(p, 2)
          /\ Elect(p, 3) = count_bloc_star(p, 3)
      BY <2>5 DEF Elect
    <3> HIDE DEF star
    <3> QED
      BY <2>2, <3>1, <3>2
  <2>6. ASSUME poll.method = "majority_judgment"
        PROVE  InTurn(one, two, three)
    <3>1. PICK all \in Nat : \A o \in p.options :
              p.histogram[o] \in Histograms /\ Weight(p.histogram[o]) = all
      BY <2>1, <2>6, JudgedFacts
    <3>2. InTurn(count_majority_judgment(p, 1), count_majority_judgment(p, 2),
                 count_majority_judgment(p, 3))
      BY <2>1, <2>6, <3>1, MajoritySeats DEF InTurn
    <3>3. /\ Elect(p, 1) = count_majority_judgment(p, 1) /\ Elect(p, 2) = count_majority_judgment(p, 2)
          /\ Elect(p, 3) = count_majority_judgment(p, 3)
      BY <2>6 DEF Elect
    <3> QED
      BY <2>2, <3>2, <3>3
  <2>7. ASSUME poll.method = "ranked_pairs"
        PROVE  InTurn(one, two, three)
    <3>1. InTurn(count_ranked_pairs(p, 1), count_ranked_pairs(p, 2), count_ranked_pairs(p, 3))
      BY <2>1, <2>7, RankedSeats DEF InTurn
    <3>2. /\ Elect(p, 1) = count_ranked_pairs(p, 1) /\ Elect(p, 2) = count_ranked_pairs(p, 2)
          /\ Elect(p, 3) = count_ranked_pairs(p, 3)
      BY <2>7 DEF Elect
    <3> QED
      BY <2>2, <3>1, <3>2
  <2>8. InTurn(one, two, three)
    BY <2>4, <2>5, <2>6, <2>7
  <2>9. IsFiniteSet(backed)
    BY <2>1, FS_Subset DEF Polled, Supported
  <2>10. /\ NextSeat(backed, {}, seats[1]) /\ NextSeat(backed, seats[1], seats[2])
        /\ NextSeat(backed, seats[2], seats[3])
    BY <2>3, <2>8 DEF InTurn
  <2>11. AddUp(backed, seats)
    BY <2>9, <2>10, SeatsFilled
  <2> QED
    BY <2>11 DEF AddUp
<1> QED
  BY <1>1, TypeCorrect, PTL
=============================================================================
