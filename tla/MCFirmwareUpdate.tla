-------------------------- MODULE MCFirmwareUpdate --------------------------
(* Instances of FirmwareUpdate for TLC.                                    *)
EXTENDS FirmwareUpdate

CONSTANTS u1, n1, n2

OneUpdate == {u1}
TwoNodes == {n1, n2}

AllNodes == [u \in Updates |-> Nodes]

(* Every update has a taint key of its own.                                *)
OwnKeys == [u \in Updates |-> u]
=============================================================================
