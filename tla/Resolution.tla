----------------------------- MODULE Resolution ------------------------------
(***************************************************************************)
(* Who speaks for a voter: the pure resolver of delegation_engine.py.      *)
(* A context ctx is what _build_context loads for one proposal:            *)
(*   ctx.topics          the proposal's topics, in their stored order      *)
(*   ctx.relevance[t]    the relevance of topic t to the proposal          *)
(*   ctx.merges          TRUE for binary votes, whose directions are summed*)
(*   ctx.ballot[u]       the direct ballot of u, NoBallot if there is none *)
(*   ctx.row[u][k]       u's delegation for topic k, or for Global         *)
(*   ctx.precedence[u]   u's rank of each topic, Unranked without a row    *)
(*   ctx.strategy[u]     u's delegation strategy                           *)
(* A delegation names a delegate and what to do when he has not voted.     *)
(***************************************************************************)
EXTENDS Integers, Sequences, FiniteSetsExt

CONSTANTS
    Global,       \* the key of a delegation for every topic
    NoBallot,     \* no direct ballot
    NoRow,        \* no delegation
    NoVoice       \* nothing resolves: the voter counts as not cast

Unranked == 9999

(* The entry of I, a set of positions in ctx.topics, that a stable sort by *)
(* key puts first.                                                         *)
FirstBy(I, key) ==
    CHOOSE i \in I : \A j \in I :
        key[i] < key[j] \/ (key[i] = key[j] /\ i <= j)

(* The topics of the proposal u has delegated.                             *)
Held(ctx, u) == {i \in DOMAIN ctx.topics : ctx.row[u][ctx.topics[i]] # NoRow}

Row(ctx, u, i) == ctx.row[u][ctx.topics[i]]

Rank(ctx, u) == [i \in DOMAIN ctx.topics |-> ctx.precedence[u][ctx.topics[i]]]

(* The delegation of the highest-ranked topic that has one; the global one *)
(* only when no topic of the proposal is delegated.                        *)
find_delegate_pure(ctx, u) ==
    IF Held(ctx, u) = {} THEN ctx.row[u][Global]
    ELSE Row(ctx, u, FirstBy(Held(ctx, u), Rank(ctx, u)))

Voice(ballot, by) == [ballot |-> ballot, by |-> by]

(* Mutant: a delegate who has not voted is always skipped over.            *)
FollowAnyChain(ctx, row, visited) ==
    LET d   == row.delegate
        sub == find_delegate_pure(ctx, d)
    IN  IF ctx.ballot[d] # NoBallot THEN Voice(ctx.ballot[d], d)
        ELSE IF /\ sub # NoRow
                /\ sub.delegate \notin visited
                /\ ctx.ballot[sub.delegate] # NoBallot
             THEN Voice(ctx.ballot[sub.delegate], sub.delegate)
             ELSE NoVoice

(* The ballot a delegation leads to: the delegate's own, and under         *)
(* accept_sub that of the delegate's delegate, one hop and no further.     *)
Follow(ctx, row, visited) ==
    LET d   == row.delegate
        sub == find_delegate_pure(ctx, d)
    IN  IF ctx.ballot[d] # NoBallot THEN Voice(ctx.ballot[d], d)
        ELSE IF /\ row.chain = "accept_sub"
                /\ sub # NoRow
                /\ sub.delegate \notin visited
                /\ ctx.ballot[sub.delegate] # NoBallot
             THEN Voice(ctx.ballot[sub.delegate], sub.delegate)
             ELSE NoVoice

_resolve_delegate_ballot(ctx, row, visited) ==
    IF row.delegate \in visited THEN NoVoice
    ELSE Follow(ctx, row, visited \union {row.delegate})

(* Those of f that lead to a ballot.                                        *)
Voiced(f) == [i \in {j \in DOMAIN f : f[j] # NoVoice} |-> f[i]]

(* The topics of u whose delegation leads to a ballot, and to which.       *)
Answers(ctx, u) ==
    Voiced([i \in Held(ctx, u) |-> _resolve_delegate_ballot(ctx, Row(ctx, u, i), {u})])

(* The answered topics that say b, and what they weigh together.           *)
Saying(answer, b) == {i \in DOMAIN answer : answer[i].ballot = b}

Summed(ctx, answer, b) ==
    SumFunctionOnSet([i \in DOMAIN answer |-> ctx.relevance[ctx.topics[i]]],
                     Saying(answer, b))

(* Sorting key: the most relevant topic first.                             *)
Irrelevance(ctx) == [i \in DOMAIN ctx.topics |-> -ctx.relevance[ctx.topics[i]]]

(* Binary votes: relevance is summed by direction. Among directions that   *)
(* tie, the one of the highest-ranked topic; the vote is attributed to the *)
(* delegate of the winning direction's most relevant topic, though a chain *)
(* may have led from him to somebody else's ballot.                        *)
find_vote_via_relevance_weighting_pure(ctx, u, answer) ==
    LET total == [i \in DOMAIN answer |-> Summed(ctx, answer, answer[i].ballot)]
        top   == {i \in DOMAIN answer : \A j \in DOMAIN answer : total[j] <= total[i]}
        direction == answer[FirstBy(top, Rank(ctx, u))].ballot
    IN  Voice(direction,
              Row(ctx, u, FirstBy(Saying(answer, direction), Irrelevance(ctx))).delegate)

(* Other methods: nothing is merged; the most relevant topic that leads to *)
(* a ballot decides, the higher-ranked one of two that weigh the same.     *)
find_vote_via_relevance_for_multi_option_pure(ctx, u, answer) ==
    LET key == Irrelevance(ctx)
        top == {i \in DOMAIN answer : \A j \in DOMAIN answer : key[i] <= key[j]}
    IN  answer[FirstBy(top, Rank(ctx, u))]

Relevant(ctx, u, answer) ==
    IF DOMAIN answer = {} THEN NoVoice
    ELSE IF ctx.merges THEN find_vote_via_relevance_weighting_pure(ctx, u, answer)
    ELSE find_vote_via_relevance_for_multi_option_pure(ctx, u, answer)

Strict(ctx, u) ==
    IF find_delegate_pure(ctx, u) = NoRow THEN NoVoice
    ELSE Follow(ctx, find_delegate_pure(ctx, u), {u})

(* Mutant: when no delegated topic leads to a ballot, the global delegate  *)
(* speaks, as the comments of the relevance resolver have it.              *)
GlobalOrStrict(ctx, u, voice) ==
    IF voice # NoVoice THEN voice
    ELSE IF ctx.strategy[u] = "relevance_weighted" /\ ctx.row[u][Global] # NoRow
         THEN Follow(ctx, ctx.row[u][Global], {u})
         ELSE Strict(ctx, u)

(* A relevance-weighted voter none of whose topics leads to a ballot falls *)
(* through to strict precedence.                                           *)
FallThrough(ctx, u, voice) ==
    IF voice # NoVoice THEN voice ELSE Strict(ctx, u)

(* Own ballot first, then the strategy.                                    *)
resolve_vote_pure(ctx, u) ==
    IF ctx.ballot[u] # NoBallot THEN Voice(ctx.ballot[u], u)
    ELSE FallThrough(ctx, u, IF ctx.strategy[u] = "relevance_weighted"
                             THEN Relevant(ctx, u, Answers(ctx, u)) ELSE NoVoice)
=============================================================================
