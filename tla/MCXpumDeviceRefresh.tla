------------------------ MODULE MCXpumDeviceRefresh ------------------------
(* Instances of XpumDeviceRefresh for TLC.                                 *)
EXTENDS XpumDeviceRefresh

CONSTANTS n1, n2, d1

TwoNodes == {n1, n2}
OneNode == {n1}
OneDevice == {d1}
=============================================================================
