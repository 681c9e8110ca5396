------------------------ MODULE MCStableResultWorker ------------------------
(***************************************************************************)
(* Small instances of StableResultWorker for TLC: two options and a voting *)
(* window of four units.                                                   *)
(***************************************************************************)
EXTENDS StableResultWorker

CONSTANTS apple, pear

TwoOptions == {apple, pear}

Held(winners, sound) == [winners |-> winners, sound |-> sound]

(* A binary vote has no winner set, a ranked-choice one no evidence flag.  *)
(* Two experimental results differ, and one of them may not count.         *)
SnapshotResult(m) ==
    CASE m = "binary" -> {Held({}, TRUE), Held({}, FALSE)}
      [] m = "ranked_choice" -> {Held({apple}, TRUE), Held({pear}, TRUE)}
      [] m = "experimental" -> {Held({apple}, TRUE), Held({pear}, TRUE),
                                Held({apple}, FALSE)}

AllMethods == {"binary", "experimental", "ranked_choice"}
RankedChoice == {"ranked_choice"}
EitherActivity == BOOLEAN
Required == {TRUE}
=============================================================================
