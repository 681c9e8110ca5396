------------------------------ MODULE MCShares ------------------------------
(* Instances of Shares for TLC.                                            *)
EXTENDS Shares, TLC

CONSTANTS alice, bob, h1, h2, s1, s2

MCMembers   == {alice, bob}
MCHandlers  == {h1, h2}
MCSweepers  == {s1, s2}
MCWeights   == {0, 1, 3}
MCCaps      == {3, 5}
AllOps      == {"set", "transfer", "cap", "admit", "suspend", "rule"}
TransferOps == {"transfer"}
=============================================================================
