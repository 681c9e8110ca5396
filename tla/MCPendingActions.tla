-------------------------- MODULE MCPendingActions --------------------------
(* Instances of PendingActions for TLC.                                    *)
EXTENDS PendingActions, TLC

CONSTANTS alice, bob, carol, edit, c1, c2, h1, h2

(* One edit of two cells, in this order.                                   *)
MCUsers    == {alice, bob, carol}
MCCells    == {c1, c2}
MCActions  == {edit}
MCPayload  == [a \in {edit} |-> <<c1, c2>>]
MCHandlers == {h1, h2}
MCThresholds == 1 .. 3

=============================================================================
