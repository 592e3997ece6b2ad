--------------------------- MODULE MCAmotaSystem ----------------------------
(***************************************************************************)
(* Instances of AmotaSystem for TLC, with the sizes of MCAmotaService but  *)
(* for a full data packet, which is three frames: one that loses a frame   *)
(* can then be refused twice.                                              *)
(***************************************************************************)
EXTENDS AmotaSystem, TLC

CONSTANTS good, edge

\* The image of good has 12 bytes, a full packet and one of 2 bytes; that of edge
\* has 3, and its one data packet fills exactly one BLE write.
MCFirmware ==
  (good :> [length |-> 14, declared |-> 12]) @@
  (edge :> [length |-> 5, declared |-> 3])

MCEdgeFile == [p \in {edge} |-> MCFirmware[p]]

=============================================================================
