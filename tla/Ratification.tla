---------------------------- MODULE Ratification ----------------------------
(***************************************************************************)
(* What the pending-action queue promises to the people of an              *)
(* organization, without sessions, rows or races: an action is put to the  *)
(* approvers, they endorse it one by one, it takes effect only with a      *)
(* quorum behind it, and once it is closed it stays closed.  Names of the  *)
(* closing (executed, declined, expired, failed) are below this level, for *)
(* the code does not keep them: see PendingActions.                        *)
(*                                                                         *)
(* Source: backend/pending_actions/engine.py.                              *)
(***************************************************************************)
EXTENDS Naturals, FiniteSets

CONSTANTS People, Matters, Quorums

VARIABLES
    stage,        \* stage[m]: "absent", "open" or "closed"
    needed,       \* needed[m]: the endorsements m takes
    endorsers,    \* endorsers[m]: who has approved m
    enacted       \* the matters whose payload changed the organization

vars == <<stage, needed, endorsers, enacted>>

Init ==
    /\ stage = [m \in Matters |-> "absent"]
    /\ needed \in [Matters -> Quorums]
    /\ endorsers = [m \in Matters |-> {}]
    /\ enacted = {}

(* Too few approvers exist: the initiator acts alone and nothing is put to *)
(* a vote.                                                                 *)
ActAlone(m) ==
    /\ stage[m] = "absent"
    /\ m \notin enacted
    /\ enacted' = enacted \union {m}
    /\ UNCHANGED <<stage, needed, endorsers>>

(* The outcome of an endorsement: still open, or closed, and enacted only  *)
(* if the endorsers now are a quorum.                                      *)
Outcome(m) ==
    \/ /\ stage' = [stage EXCEPT ![m] = IF @ = "absent" THEN "open" ELSE @]
       /\ UNCHANGED enacted
    \/ /\ Cardinality(endorsers'[m]) >= needed'[m]
       /\ stage' = [stage EXCEPT ![m] = "closed"]
       /\ enacted' \in {enacted, enacted \union {m}}

Propose(m, p) ==
    /\ stage[m] = "absent"
    /\ m \notin enacted
    /\ endorsers' = [endorsers EXCEPT ![m] = {p}]
    /\ \E q \in Quorums : needed' = [needed EXCEPT ![m] = q]
    /\ Outcome(m)

Endorse(m, p) ==
    /\ stage[m] # "absent"
    /\ p \notin endorsers[m]
    /\ endorsers' = [endorsers EXCEPT ![m] = @ \union {p}]
    /\ Outcome(m)
    /\ UNCHANGED needed

(* A veto, or the end of the window, for one matter or for several.        *)
Close(S) ==
    /\ \A m \in S : stage[m] # "absent"
    /\ stage' = [m \in Matters |-> IF m \in S THEN "closed" ELSE stage[m]]
    /\ UNCHANGED <<needed, endorsers, enacted>>

CloseSome == \E S \in SUBSET Matters : Close(S)

Next ==
    \/ \E m \in Matters : ActAlone(m)
    \/ \E m \in Matters, p \in People : Propose(m, p) \/ Endorse(m, p)
    \/ CloseSome

(* Nothing stays open for ever.                                            *)
Fairness == \A m \in Matters : WF_vars(stage[m] = "open" /\ Close({m}))

Spec == Init /\ [][Next]_vars /\ Fairness
=============================================================================
