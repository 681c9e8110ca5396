------------------------- MODULE StableResultProofs -------------------------
(***************************************************************************)
(* Proofs about StableResultWorker, for any window length, fractions,      *)
(* outage and snapshot contents: the variables keep their types, the       *)
(* extensions of the first round stay within the budget, no unstable       *)
(* result is closed while it could still be extended, and nothing is       *)
(* closed before the deadline the voters were given.                       *)
(***************************************************************************)
EXTENDS StableResultWorker, SumLemmas

(* What the three proofs need of the durations.                            *)
LEMMA PercentFacts ==
    ASSUME NEW n \in Int
    PROVE  n \div 100 \in Int /\ (n \div 100) * 100 <= n
  OBVIOUS

(* The durations computed from the row and the audit log are integers.     *)
LEMMA DurationFacts ==
    ASSUME TypeOK
    PROVE  /\ original_duration \in Int
           /\ stable_window_duration \in Int
           /\ extension_budget \in Int
           /\ stable_window_starts_at \in Int
  <1>1. original_duration \in Int
    BY DEF TypeOK, original_duration
  <1>2. WindowPercent \in Int /\ ExtensionPercent \in Int
    BY TimeAssumption
  <1>3. /\ original_duration * WindowPercent \in Int
        /\ original_duration * ExtensionPercent \in Int
    BY <1>1, <1>2
  <1>4. stable_window_duration \in Int /\ extension_budget \in Int
    BY <1>3, PercentFacts DEF stable_window_duration, extension_budget
  <1> QED
    BY <1>1, <1>4 DEF TypeOK, stable_window_starts_at

(* The four outcomes of a tick.                                            *)
LEMMA DecideCases ==
    ASSUME NEW S, Decide(S)
    PROVE  CloseOnTime \/ CloseEarly \/ (CanExtend /\ Extend) \/ Wait
  BY DEF Decide

(* The types, and a window that does not end before it starts.             *)
TypeInv ==
    /\ TypeOK
    /\ status # "closed" => start <= end

(* An evaluation, whatever it decides, keeps the types and the order of    *)
(* start and end.                                                          *)
LEMMA EvaluateType ==
    ASSUME TypeInv, Evaluate
    PROVE  TypeInv'
  <1>1. snapshots' \subseteq Snapshot
    <2>1. method \in Method /\ now \in Nat /\ snapshots \subseteq Snapshot
      BY DEF TypeInv, TypeOK
    <2>2. PICK r \in Result(method) :
              snapshots' = snapshots \cup {[at |-> now, result |-> r]}
      BY DEF Evaluate
    <2>3. r \in Outcome
      BY <2>1, <2>2, MethodAssumption
    <2> QED
      BY <2>1, <2>2, <2>3 DEF Snapshot
  <1>2. status = "voting"
    BY DEF Evaluate
  <1>3. CASE CanExtend /\ Extend
    <2>1. stable_window_duration \in Int /\ stable_window_duration > 0
      BY <1>3, DurationFacts DEF CanExtend, TypeInv
    <2> QED
      BY <1>1, <1>2, <1>3, <2>1 DEF TypeInv, TypeOK, Extend, Evaluate
  <1>4. CASE CloseOnTime \/ CloseEarly \/ Wait
    BY <1>1, <1>2, <1>4
    DEF TypeInv, TypeOK, CloseOnTime, CloseEarly, Wait, Evaluate
  <1> QED
    BY <1>3, <1>4, DecideCases DEF Evaluate

(* Every action keeps the types and the order of start and end.            *)
LEMMA TypeNext == TypeInv /\ [Next]_vars => TypeInv'
<1> SUFFICES ASSUME TypeInv, [Next]_vars PROVE TypeInv'
  OBVIOUS
<1> USE TimeAssumption
<1>1. CASE Evaluate
  BY <1>1, EvaluateType
<1>2. CASE Advance
  BY <1>2 DEF Advance, TypeInv, TypeOK
<1>3. CASE Escalate
  BY <1>3 DEF Escalate, TypeInv, TypeOK
<1>4. CASE ResolveFinal
  BY <1>4 DEF ResolveFinal, TypeInv, TypeOK
<1>5. CASE ResolveExtend
  BY <1>5 DEF ResolveExtend, TypeInv, TypeOK
<1>6. CASE ResolveBackToDeliberation
  BY <1>6 DEF ResolveBackToDeliberation, TypeInv, TypeOK
<1>7. CASE Reopen
  BY <1>7 DEF Reopen, TypeInv, TypeOK
<1>8. CASE TimePasses
  BY <1>8 DEF TimePasses, TypeInv, TypeOK
<1>9. CASE UNCHANGED vars
  BY <1>9 DEF vars, TypeInv, TypeOK
<1> QED
  BY <1>1, <1>2, <1>3, <1>4, <1>5, <1>6, <1>7, <1>8, <1>9 DEF Next

(* So both hold in every reachable state.                                  *)
LEMMA TypeInvariance == Spec => []TypeInv
<1>1. Init => TypeInv
  BY TimeAssumption DEF Init, TypeInv, TypeOK, Snapshot
<1>2. TypeInv /\ [Next]_vars => TypeInv'
  BY TypeNext
<1> QED
  BY <1>1, <1>2, PTL DEF Spec

(* The variables keep their types.                                         *)
THEOREM TypeCorrect == Spec => []TypeOK
<1>1. TypeInv => TypeOK
  BY DEF TypeInv
<1> QED
  BY <1>1, TypeInvariance, PTL

-----------------------------------------------------------------------------
(* The budget.  Until the first escalation the proposal is in its first    *)
(* round, and is voted on or closed.                                       *)
BudgetInv ==
    /\ BudgetKept
    /\ escalations = 0 => status \in {"voting", "closed"}

(* apply_extension grants only what _react_to_destabilization found in the *)
(* budget.                                                                 *)
LEMMA ExtendKeepsBudget ==
    ASSUME TypeInv, end = start + Duration + used, CanExtend
    PROVE  (used + stable_window_duration) * 100
               <= Duration * ExtensionPercent
  <1>1. original_duration = Duration
    BY TimeAssumption DEF original_duration, TypeInv, TypeOK
  <1>2. Duration * ExtensionPercent \in Int
    BY TimeAssumption
  <1>3. /\ extension_budget \in Int
        /\ extension_budget * 100 <= Duration * ExtensionPercent
    BY <1>1, <1>2, PercentFacts DEF extension_budget
  <1>4. used + stable_window_duration <= extension_budget
    BY <1>3, DurationFacts DEF CanExtend, TypeInv, TypeOK
  <1> QED
    BY <1>2, <1>3, <1>4, DurationFacts DEF TypeInv, TypeOK

(* No action grants anything else before the first escalation.             *)
LEMMA BudgetNext == TypeInv /\ BudgetInv /\ [Next]_vars => BudgetInv'
<1> SUFFICES ASSUME TypeInv, BudgetInv, [Next]_vars PROVE BudgetInv'
  OBVIOUS
<1>1. CASE Evaluate
  <2>1. CASE CanExtend /\ Extend
    <3>1. stable_window_duration \in Int
      BY DurationFacts DEF TypeInv
    <3>2. CASE escalations = 0
      <4>1. end = start + Duration + used
        BY <1>1, <3>2 DEF Evaluate, BudgetInv, BudgetKept
      <4>2. used' * 100 <= Duration * ExtensionPercent
        BY <2>1, <4>1, ExtendKeepsBudget DEF Extend
      <4>3. end' = start' + Duration + used'
        BY <1>1, <2>1, <3>1, <4>1, TimeAssumption
        DEF Evaluate, Extend, TypeInv, TypeOK
      <4> QED
        BY <1>1, <2>1, <4>2, <4>3
        DEF Evaluate, Extend, BudgetInv, BudgetKept
    <3>3. CASE escalations # 0
      BY <1>1, <3>3 DEF Evaluate, BudgetInv, BudgetKept
    <3> QED
      BY <3>2, <3>3
  <2>2. CASE CloseOnTime \/ CloseEarly \/ Wait
    BY <1>1, <2>2
    DEF Evaluate, CloseOnTime, CloseEarly, Wait, BudgetInv, BudgetKept
  <2> QED
    BY <1>1, <2>1, <2>2, DecideCases DEF Evaluate
<1>2. CASE Advance
  BY <1>2 DEF Advance, BudgetInv, BudgetKept
<1>3. CASE Escalate
  BY <1>3 DEF Escalate, BudgetInv, BudgetKept, TypeInv, TypeOK
<1>4. CASE ResolveFinal
  BY <1>4 DEF ResolveFinal, BudgetInv, BudgetKept
<1>5. CASE ResolveExtend
  BY <1>5 DEF ResolveExtend, BudgetInv, BudgetKept
<1>6. CASE ResolveBackToDeliberation
  BY <1>6 DEF ResolveBackToDeliberation, BudgetInv, BudgetKept
<1>7. CASE Reopen
  BY <1>7 DEF Reopen, BudgetInv, BudgetKept
<1>8. CASE TimePasses
  BY <1>8 DEF TimePasses, BudgetInv, BudgetKept
<1>9. CASE UNCHANGED vars
  BY <1>9 DEF vars, BudgetInv, BudgetKept
<1> QED
  BY <1>1, <1>2, <1>3, <1>4, <1>5, <1>6, <1>7, <1>8, <1>9 DEF Next

(* Extensions of the first round of voting never exceed the budget, and    *)
(* move the deadline by exactly what was granted.                          *)
THEOREM BudgetCorrect == Spec => []BudgetKept
<1>1. Init => BudgetInv
  BY TimeAssumption DEF Init, BudgetInv, BudgetKept
<1>2. TypeInv /\ BudgetInv /\ [Next]_vars => BudgetInv'
  BY BudgetNext
<1>3. BudgetInv => BudgetKept
  BY DEF BudgetInv
<1> QED
  BY <1>1, <1>2, <1>3, TypeInvariance, PTL DEF Spec
-----------------------------------------------------------------------------
(* The evidence                                                            *)

(* A stable sliding window is steady: for an experimental vote, the state  *)
(* the window began in is among the evidence.                              *)
LEMMA ExtensionSteady ==
    ASSUME NEW S \in SUBSET Snapshot, NEW cutoff \in Int,
           ExtensionStable(S, cutoff), method \in Method
    PROVE  Steady(Since(S, cutoff))
  <1>1. CASE method = "binary"
    BY <1>1 DEF ExtensionStable, Steady, binary_snapshot_is_stable
  <1>2. CASE method = "ranked_choice"
    BY <1>2 DEF ExtensionStable, Steady
  <1>3. CASE method = "experimental"
    <2> DEFINE prior == {s \in S : s.at <= cutoff}
    <2> DEFINE selected == Latest(prior) \cup Since(S, cutoff + 1)
    <2>1. \A s, u \in selected :
              s.result.sound /\ s.result.winners = u.result.winners
      BY <1>3 DEF ExtensionStable, experimental_window_stable
    <2>2. ASSUME NEW s \in Since(S, cutoff) PROVE s \in selected
      <3>1. s \in S /\ s.at >= cutoff /\ s.at \in Int
        BY DEF Since, Snapshot
      <3>2. CASE s.at = cutoff
        BY <3>1, <3>2 DEF Latest
      <3>3. CASE s.at # cutoff
        BY <3>1, <3>3 DEF Since
      <3> QED
        BY <3>2, <3>3
    <2>3. \A s, u \in Since(S, cutoff) :
              s.result.sound /\ s.result.winners = u.result.winners
      BY <2>1, <2>2
    <2> QED
      BY <1>3, <2>3 DEF Steady
  <1> QED
    BY <1>1, <1>2, <1>3, MethodAssumption

(* A window of the original kind that is not unstable is steady, too.      *)
LEMMA OriginalSteady ==
    ASSUME NEW S \in SUBSET Snapshot, NEW window \in Int,
           ~ OriginalWindowUnstable(S, window), method \in Method
    PROVE  Steady(Since(S, window))
  <1>1. CASE method = "binary"
    BY <1>1 DEF OriginalWindowUnstable, Steady, binary_snapshot_is_stable
  <1>2. CASE method = "ranked_choice"
    <2> DEFINE before == Latest({s \in S : s.at < window})
    <2>1. NeighboursOverlap(Since(S, window) \cup before)
      BY <1>2 DEF OriginalWindowUnstable
    <2>2. ASSUME NEW s \in Since(S, window), NEW u \in Since(S, window),
                 Adjacent(Since(S, window), s, u)
          PROVE  Adjacent(Since(S, window) \cup before, s, u)
      <3>1. ASSUME NEW w \in before PROVE w.at <= s.at
        BY DEF Latest, Since, Snapshot
      <3> QED
        BY <2>2, <3>1 DEF Adjacent
    <2>3. NeighboursOverlap(Since(S, window))
      BY <2>1, <2>2 DEF NeighboursOverlap
    <2> QED
      BY <1>2, <2>3 DEF Steady
  <1>3. CASE method = "experimental"
    <2>1. experimental_window_stable(S, window)
      BY <1>3 DEF OriginalWindowUnstable
    <2>2. ExtensionStable(S, window)
      BY <1>3, <2>1 DEF ExtensionStable
    <2> QED
      BY <2>2, ExtensionSteady
  <1> QED
    BY <1>1, <1>2, <1>3, MethodAssumption

(* Nothing was used before the first extension.                            *)
UsedInv == extensions = 0 => used = 0

(* Nothing was granted as long as there is no extension row.               *)
LEMMA UsedNext == TypeInv /\ UsedInv /\ [Next]_vars => UsedInv'
<1> SUFFICES ASSUME TypeInv, UsedInv, [Next]_vars PROVE UsedInv'
  OBVIOUS
<1>1. CASE Evaluate
  <2>1. CASE CanExtend /\ Extend
    BY <2>1 DEF Extend, UsedInv, TypeInv, TypeOK
  <2>2. CASE CloseOnTime \/ CloseEarly \/ Wait
    BY <2>2 DEF CloseOnTime, CloseEarly, Wait, UsedInv
  <2> QED
    BY <1>1, <2>1, <2>2, DecideCases DEF Evaluate
<1>2. CASE UNCHANGED <<extensions, used>>
  BY <1>2 DEF UsedInv
<1> QED
  BY <1>1, <1>2
  DEF Next, Advance, Escalate, ResolveFinal, ResolveExtend,
      ResolveBackToDeliberation, Reopen, TimePasses, vars

(* When an extension is granted, everything it is computed from is a       *)
(* number, and the stable window is not empty.                             *)
LEMMA GrantTypes ==
    ASSUME TypeOK, CanExtend
    PROVE  /\ now \in Int /\ end \in Int /\ start \in Int /\ used \in Int
           /\ stable_window_duration \in Int /\ stable_window_duration > 0
           /\ original_duration \in Int /\ method \in Method
  BY DurationFacts DEF TypeOK, CanExtend

(* A close of the worker, with an extension still to be had.               *)
LEMMA CloseIsSteady ==
    ASSUME TypeInv, UsedInv, Evaluate, WorkerCloses, active, CanExtend
    PROVE  \E t \in {now, end} :
               Steady(Since(snapshots', t - stable_window_duration))
  <1>1. /\ now \in Int /\ end \in Int /\ start \in Int /\ used \in Int
        /\ stable_window_duration \in Int /\ stable_window_duration > 0
        /\ original_duration \in Int /\ method \in Method
    BY GrantTypes DEF TypeInv
  <1>2. snapshots' \in SUBSET Snapshot
    <2>1. TypeInv'
      BY EvaluateType
    <2> QED
      BY <2>1 DEF TypeInv, TypeOK, Snapshot
  <1>3. CASE StableAgain(snapshots')
    BY <1>1, <1>2, <1>3, ExtensionSteady DEF StableAgain
  <1>4. CASE ~ StableAgain(snapshots')
    <2>1. Decide(snapshots') /\ status' # status
      BY DEF Evaluate, WorkerCloses
    <2>2. ~ Destabilized(snapshots') /\ Due
      BY <1>4, <2>1 DEF Decide, Wait, Extend
    <2>3. extensions = 0 /\ used = 0
      BY <1>4, <2>2 DEF Destabilized, StableAgain, UsedInv, TypeInv, TypeOK
    <2>4. stable_window_starts_at = end - stable_window_duration
      BY <1>1, <2>3 DEF stable_window_starts_at, original_duration
    <2>5. now >= stable_window_starts_at
      BY <1>1, <2>2, <2>4 DEF Due
    <2>6. ~ OriginalWindowUnstable(snapshots', end - stable_window_duration)
      BY <2>2, <2>3, <2>4, <2>5 DEF Destabilized
    <2> QED
      BY <1>1, <1>2, <2>6, OriginalSteady
  <1> QED
    BY <1>3, <1>4

(* An unstable result is not made final while it can still be extended,    *)
(* whichever method is used and whatever the outages of the worker.        *)
THEOREM NoUnstableCloseCorrect == Spec => NoUnstableClose
<1>1. Init => UsedInv
  BY DEF Init, UsedInv
<1>2. TypeInv /\ UsedInv /\ [Next]_vars => UsedInv'
  BY UsedNext
<1> DEFINE Steadily == WorkerCloses /\ active =>
                          \/ ~ CanExtend
                          \/ \E t \in {now, end} :
                                 Steady(Since(snapshots',
                                              t - stable_window_duration))
<1>3. TypeInv /\ UsedInv /\ [Next]_vars => [Steadily]_vars
  <2> SUFFICES ASSUME TypeInv, UsedInv, Next, WorkerCloses, active, CanExtend
               PROVE  \E t \in {now, end} :
                          Steady(Since(snapshots',
                                       t - stable_window_duration))
    OBVIOUS
  <2>1. Evaluate
    BY DEF Next, WorkerCloses, Advance, Escalate, ResolveFinal,
           ResolveExtend, ResolveBackToDeliberation, Reopen, TimePasses
  <2> QED
    BY <2>1, CloseIsSteady
<1> QED
  BY <1>1, <1>2, <1>3, TypeInvariance, PTL DEF Spec, NoUnstableClose
-----------------------------------------------------------------------------
(* The original deadline                                                   *)

(* The start of the stable window in the first round of voting.            *)
WindowStart == start + Duration - (Duration * WindowPercent) \div 100

Agree(s, u) == s.result.sound /\ s.result.winners = u.result.winners

(* The evidence experimental_window_stable selects for that window.        *)
Evidence(S) ==
    Latest({s \in S : s.at <= WindowStart}) \cup Since(S, WindowStart + 1)

(* What made the worker extend, and stays on file: an unsound snapshot, or *)
(* no snapshot from before the window, or two that do not agree; or else a *)
(* tick on the very start of the window.                                   *)
Shaken(S) ==
    \/ method = "binary" /\ \E s \in Since(S, WindowStart) : ~ s.result.sound
    \/ method = "experimental" /\ \E s \in S : s.at = WindowStart
    \/ method = "experimental" /\ \A s \in S : s.at > WindowStart
    \/ method = "experimental" /\ \E s, u \in Evidence(S) : ~ Agree(s, u)

(* Only a ranked-choice vote is escalated, so all others stay in the first *)
(* round; they are extended for a reason that is still on file.            *)
ShakenInv ==
    /\ IsFiniteSet(snapshots)
    /\ method # "ranked_choice" =>
           /\ escalations = 0
           /\ extensions > 0 => now >= WindowStart /\ Shaken(snapshots)

LEMMA WindowFacts ==
    ASSUME TypeOK
    PROVE  /\ WindowStart \in Int
           /\ (Duration * WindowPercent) \div 100 \in Int
           /\ now \in Nat /\ start \in Nat /\ end \in Nat
           /\ used \in Nat /\ extensions \in Nat
  <1>1. Duration * WindowPercent \in Int
    BY TimeAssumption
  <1> QED
    BY <1>1, PercentFacts, TimeAssumption DEF WindowStart, TypeOK

(* In the first round, what the code computes from the row and the audit   *)
(* log is the window the vote began with.                                  *)
LEMMA FirstRoundWindow ==
    ASSUME TypeInv, end = start + Duration + used
    PROVE  /\ original_duration = Duration
           /\ stable_window_starts_at = WindowStart
           /\ stable_window_duration = (Duration * WindowPercent) \div 100
  <1>1. original_duration = Duration
    BY TimeAssumption DEF original_duration, TypeInv, TypeOK
  <1> QED
    BY <1>1 DEF stable_window_starts_at, stable_window_duration, WindowStart

(* Another snapshot, taken after the window began, does not make the       *)
(* evidence any better.                                                    *)
LEMMA ShakenGrows ==
    ASSUME TypeOK, NEW S \in SUBSET Snapshot, NEW new \in Snapshot,
           new.at = now, now >= WindowStart, Shaken(S)
    PROVE  Shaken(S \cup {new})
  <1> DEFINE T == S \cup {new}
  <1>1. CASE method = "binary"
    BY <1>1 DEF Shaken, Since
  <1>2. CASE method = "experimental" /\ new.at = WindowStart
    BY <1>2 DEF Shaken
  <1>3. CASE method = "experimental" /\ new.at > WindowStart
    <2>1. {s \in T : s.at <= WindowStart} = {s \in S : s.at <= WindowStart}
      BY <1>3, WindowFacts
    <2>2. Evidence(S) \subseteq Evidence(T)
      BY <2>1 DEF Evidence, Since
    <2> QED
      BY <1>3, <2>2 DEF Shaken
  <1>4. new.at = WindowStart \/ new.at > WindowStart
    BY WindowFacts
  <1>5. method \in {"binary", "experimental"}
    BY DEF Shaken
  <1> QED
    BY <1>1, <1>2, <1>3, <1>4, <1>5

(* Among finitely many snapshots there is a latest one.                    *)
LEMMA LatestExists ==
    ASSUME NEW S \in SUBSET Snapshot, NEW t \in Int, S # {},
           \A s \in S : s.at <= t
    PROVE  Latest(S) # {}
  <1> DEFINE ages == {n \in Nat : \E s \in S : n = t - s.at}
  <1>1. \A s \in S : s.at \in Nat /\ t - s.at \in ages
    BY DEF Snapshot
  <1>2. PICK n \in ages : \A m \in ages : n <= m
    BY <1>1, LeastElement
  <1>3. PICK s \in S : n = t - s.at
    OBVIOUS
  <1>4. \A u \in S : t - s.at <= t - u.at
    BY <1>1, <1>2, <1>3
  <1>5. s \in Latest(S)
    BY <1>1, <1>4 DEF Latest
  <1> QED
    BY <1>5

(* The first extension is granted because the window is not stable.        *)
LEMMA GrantIsShaken ==
    ASSUME TypeInv, NEW S \in SUBSET Snapshot, IsFiniteSet(S),
           NEW new \in S, new.at = now, now >= WindowStart,
           method \in {"binary", "experimental"},
           OriginalWindowUnstable(S, WindowStart)
    PROVE  Shaken(S)
  <1>1. CASE method = "binary"
    BY <1>1 DEF OriginalWindowUnstable, Shaken, binary_snapshot_is_stable
  <1>2. CASE method = "experimental"
    <2> DEFINE prior == {s \in S : s.at <= WindowStart}
    <2>1. CASE prior = {} \/ now = WindowStart
      BY <1>2, <2>1, WindowFacts DEF Shaken, Snapshot, TypeInv
    <2>2. CASE prior # {} /\ now # WindowStart
      <3>1. now > WindowStart
        BY <2>2, WindowFacts DEF TypeInv
      <3>2. PICK old \in Latest(prior) : TRUE
        BY <2>2, LatestExists, WindowFacts DEF TypeInv
      <3>3. old \in Evidence(S) /\ new \in Evidence(S) /\ old # new
        BY <3>1, <3>2, WindowFacts DEF Evidence, Latest, Since, TypeInv
      <3>4. IsFiniteSet(Evidence(S)) /\ Cardinality(Evidence(S)) \in Nat
        <4>1. Evidence(S) \subseteq S
          BY DEF Evidence, Latest, Since
        <4> QED
          BY <4>1, FS_Subset, FS_CardinalityType
      <3>5. Cardinality(Evidence(S)) >= 2
        <4>1. Cardinality(Evidence(S)) \notin {0, 1}
          BY <3>3, <3>4, FS_EmptySet, FS_Singleton
        <4> QED
          BY <3>4, <4>1
      <3>6. ~ experimental_window_stable(S, WindowStart)
        BY <1>2 DEF OriginalWindowUnstable
      <3> QED
        BY <1>2, <2>2, <3>5, <3>6
        DEF Shaken, experimental_window_stable, Evidence, Agree
    <2> QED
      BY <2>1, <2>2
  <1> QED
    BY <1>1, <1>2

(* A sliding window that began before the stable window is not stable: it  *)
(* holds all the evidence that made the worker extend.                     *)
LEMMA ShakenIsUnstable ==
    ASSUME TypeOK, NEW S \in SUBSET Snapshot, Shaken(S),
           NEW cutoff \in Int, cutoff < WindowStart,
           method = "experimental" => \A s \in S : s.at # WindowStart
    PROVE  ~ ExtensionStable(S, cutoff)
  <1>1. \A s \in S : s.at \in Nat
    BY DEF Snapshot
  <1>2. CASE method = "binary"
    BY <1>1, <1>2, WindowFacts
    DEF Shaken, ExtensionStable, Since, binary_snapshot_is_stable
  <1>3. CASE method = "experimental" /\ \A s \in S : s.at > WindowStart
    BY <1>1, <1>3, WindowFacts DEF ExtensionStable, experimental_window_stable
  <1>4. CASE method = "experimental" /\ \E s, u \in Evidence(S) : ~ Agree(s, u)
    <2> DEFINE selected == Latest({s \in S : s.at <= cutoff})
                             \cup Since(S, cutoff + 1)
    <2>1. Evidence(S) \subseteq selected
      <3> SUFFICES ASSUME NEW s \in Evidence(S) PROVE s \in selected
        OBVIOUS
      <3>1. s \in S /\ s.at \in Nat
        BY <1>1 DEF Evidence, Latest, Since
      <3>2. CASE s.at > cutoff
        BY <3>1, <3>2 DEF Since
      <3>3. CASE s.at <= cutoff
        BY <1>1, <3>1, <3>3, WindowFacts DEF Evidence, Latest, Since
      <3> QED
        BY <3>1, <3>2, <3>3
    <2>2. \E s, u \in selected : ~ Agree(s, u)
      BY <1>4, <2>1
    <2> QED
      BY <1>4, <2>2 DEF ExtensionStable, experimental_window_stable, Agree
  <1> QED
    BY <1>2, <1>3, <1>4 DEF Shaken
(* One evaluation: what it decides rests on the snapshots up to now.       *)
LEMMA ShakenEvaluate ==
    ASSUME TypeInv, BudgetInv, UsedInv, ShakenInv, Evaluate
    PROVE  ShakenInv'
  <1>1. PICK r \in Result(method) :
            snapshots' = snapshots \cup {[at |-> now, result |-> r]}
    BY DEF Evaluate
  <1> DEFINE new == [at |-> now, result |-> r]
  <1>2. new \in Snapshot /\ new.at = now /\ snapshots' \in SUBSET Snapshot
    BY <1>1, MethodAssumption DEF TypeInv, TypeOK, Snapshot
  <1>3. IsFiniteSet(snapshots')
    BY <1>1, FS_AddElement DEF ShakenInv
  <1> SUFFICES ASSUME method # "ranked_choice", extensions' > 0
               PROVE  now >= WindowStart /\ Shaken(snapshots')
    BY <1>3 DEF Evaluate, ShakenInv, WindowStart, Shaken, Since, Evidence, Latest
  <1>4. CASE extensions > 0
    BY <1>1, <1>2, <1>4, ShakenGrows DEF ShakenInv, TypeInv, TypeOK
  <1>5. CASE ~ extensions > 0
    <2>1. extensions = 0
      BY <1>5, WindowFacts DEF TypeInv
    <2>2. CanExtend /\ Extend /\ Destabilized(snapshots')
      BY <2>1, WindowFacts DEF Evaluate, Decide, Wait, CloseOnTime, CloseEarly, TypeInv
    <2>3. end = start + Duration + used
      BY DEF Evaluate, ShakenInv, BudgetInv, BudgetKept
    <2>4. /\ now >= WindowStart
          /\ OriginalWindowUnstable(snapshots', WindowStart)
      BY <2>1, <2>2, <2>3, FirstRoundWindow DEF Destabilized
    <2>5. method \in {"binary", "experimental"}
      BY MethodAssumption DEF TypeInv, TypeOK
    <2> QED
      BY <1>1, <1>2, <1>3, <2>4, <2>5, GrantIsShaken
  <1> QED
    BY <1>4, <1>5

(* The other actions write no snapshot and grant no extension; time only   *)
(* goes on.                                                                *)
LEMMA ShakenNext ==
    TypeInv /\ BudgetInv /\ UsedInv /\ ShakenInv /\ [Next]_vars => ShakenInv'
<1> SUFFICES ASSUME TypeInv, BudgetInv, UsedInv, ShakenInv, [Next]_vars
             PROVE  ShakenInv'
  OBVIOUS
<1>1. CASE Evaluate
  BY <1>1, ShakenEvaluate
<1>2. ASSUME UNCHANGED <<method, start, extensions, snapshots>>,
             now' = now \/ now' = now + 1,
             escalations' = escalations \/ method = "ranked_choice"
      PROVE  ShakenInv'
  <2>1. WindowStart' = WindowStart /\ (Shaken(snapshots) => Shaken(snapshots)')
    BY <1>2 DEF WindowStart, Shaken, Since, Evidence, Latest, Agree
  <2>2. now >= WindowStart => now' >= WindowStart
    BY <1>2, WindowFacts DEF TypeInv
  <2> QED
    BY <1>2, <2>1, <2>2 DEF ShakenInv
<1>3. CASE Reopen
  BY <1>3 DEF Reopen, ShakenInv, BudgetInv
<1> QED
  BY <1>1, <1>2, <1>3
  DEF Next, Advance, Escalate, ResolveFinal, ResolveExtend,
      ResolveBackToDeliberation, TimePasses, vars

(* A close of the worker before the original deadline would be an early    *)
(* one, and its sliding window would hold what made the worker extend.     *)
LEMMA CloseIsNotEarly ==
    ASSUME TypeInv, BudgetInv, UsedInv, ShakenInv, Evaluate, WorkerCloses,
           method # "ranked_choice",
           ~ (method = "experimental" /\ TickOnWindowStart)
    PROVE  now >= start + Duration
  <1>1. end = start + Duration + used
    BY DEF Evaluate, ShakenInv, BudgetInv, BudgetKept
  <1>2. CASE Due
    BY <1>1, <1>2, WindowFacts, TimeAssumption DEF Due, TypeInv
  <1>3. CASE ~ Due
    <2>1. StableAgain(snapshots') /\ UNCHANGED <<method, start, now>>
      BY <1>3 DEF Evaluate, WorkerCloses, Decide, Wait, Extend
    <2>2. /\ extensions > 0
          /\ extensions' = extensions
          /\ ExtensionStable(snapshots', now - stable_window_duration)
      BY <1>3, <2>1 DEF StableAgain, Evaluate, Decide, CloseEarly, WorkerCloses, Wait, Extend
    <2>3. ShakenInv' /\ TypeInv'
      BY ShakenEvaluate, EvaluateType
    <2>4. Shaken(snapshots')
      BY <2>1, <2>2, <2>3
      DEF ShakenInv, Shaken, Since, Evidence, Latest, WindowStart, Agree
    <2>5. snapshots' \in SUBSET Snapshot
      BY <2>3 DEF TypeInv, TypeOK, Snapshot
    <2>6. stable_window_duration = (Duration * WindowPercent) \div 100
      BY <1>1, FirstRoundWindow
    <2>7. now - stable_window_duration \in Int
      BY <2>6, WindowFacts DEF TypeInv
    <2>8. method = "experimental" => \A s \in snapshots' : s.at # WindowStart
      BY DEF TickOnWindowStart, WindowStart
    <2>9. ~ (now - stable_window_duration < WindowStart)
      BY <2>2, <2>4, <2>5, <2>7, <2>8, ShakenIsUnstable DEF TypeInv
    <2> QED
      BY <2>6, <2>9, WindowFacts, TimeAssumption DEF WindowStart, TypeInv
  <1> QED
    BY <1>2, <1>3

(* Voters can rely on the deadline they were given, with any window,       *)
(* budget and outage: a grant leaves evidence on file that keeps the       *)
(* sliding window unstable until the original deadline.                    *)
THEOREM DeadlineKept == Spec => OriginalDeadlineKept
<1>1. Init => BudgetInv /\ UsedInv /\ ShakenInv
  BY FS_EmptySet, TimeAssumption DEF Init, BudgetInv, BudgetKept, UsedInv, ShakenInv
<1>2. TypeInv /\ BudgetInv /\ UsedInv /\ ShakenInv /\ [Next]_vars
        => BudgetInv' /\ UsedInv' /\ ShakenInv'
  BY BudgetNext, UsedNext, ShakenNext
<1> DEFINE OnTime == WorkerCloses /\ method # "ranked_choice"
                       /\ ~ (method = "experimental" /\ TickOnWindowStart)
                     => now >= start + Duration
<1>3. TypeInv /\ BudgetInv /\ UsedInv /\ ShakenInv /\ [Next]_vars => [OnTime]_vars
  <2> SUFFICES ASSUME TypeInv, BudgetInv, UsedInv, ShakenInv, Next, WorkerCloses,
                      method # "ranked_choice",
                      ~ (method = "experimental" /\ TickOnWindowStart)
               PROVE  now >= start + Duration
    OBVIOUS
  <2>1. Evaluate
    BY DEF Next, WorkerCloses, Advance, Escalate, ResolveFinal,
           ResolveExtend, ResolveBackToDeliberation, Reopen, TimePasses
  <2> QED
    BY <2>1, CloseIsNotEarly
<1> QED
  BY <1>1, <1>2, <1>3, TypeInvariance, PTL DEF Spec, OriginalDeadlineKept
=============================================================================
