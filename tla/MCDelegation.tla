---------------------------- MODULE MCDelegation ----------------------------
(* Instances of Delegation for TLC.                                        *)
EXTENDS Delegation, TLC

CONSTANTS alice, bob, roads, everything, h1, h2

TwoUsers    == {alice, bob}
OneTopic    == {roads}
OneHandler  == {h1}
TwoHandlers == {h1, h2}
AllOps      == {"upsert", "request", "revoke", "follow", "respond", "cancel", "list",
                "permission", "revert", "leave", "switch", "restart"}
DirectOps   == {"upsert", "revoke"}
AnyPolicy   == {"require_approval", "auto_approve_view", "auto_approve_delegate"}
Approval    == {"require_approval"}
Symmetry    == Permutations(TwoUsers) \union Permutations(TwoHandlers)
=============================================================================
