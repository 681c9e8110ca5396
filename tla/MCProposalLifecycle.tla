------------------------- MODULE MCProposalLifecycle -------------------------
(***************************************************************************)
(* Small instances of ProposalLifecycle for TLC: two voters, one or two    *)
(* ballots to cast, one or two concurrent request handlers and the worker. *)
(***************************************************************************)
EXTENDS ProposalLifecycle, TLC

CONSTANTS r1, r2, worker, none, alice, bob, yes, no, blank, uncounted

OneRequest == {r1}
TwoRequests == {r1, r2}
Voters == {alice, bob}
TwoBallots == {yes, no}

Boxes == [Voters -> Ballot \cup {blank}]

(* A vote passes when bob votes for it, and is over the weighted-ballot    *)
(* cap when everybody voted.                                               *)
PassingBoxes == {box \in Boxes : box[bob] = yes}
CappedBoxes == {box \in Boxes : \A v \in Voters : box[v] # blank}

Experimental == {"experimental"}
RankedChoice == {"ranked_choice"}
NotGated == {FALSE}
BothGatings == BOOLEAN
AdvanceAndArchive == {"advance", "archive"}
AllOps == RequestOps
AllButDelete == RequestOps \ {"delete"}

Symmetry == Permutations({r1, r2})
=============================================================================
