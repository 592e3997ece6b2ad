--------------------------- MODULE MCAmotaService ---------------------------
(***************************************************************************)
(* Instances of AmotaService for TLC.  The sizes of the .cfg files are     *)
(* scaled down: a header or verify packet is one frame, a full data packet *)
(* two, and a data packet of 3 bytes fills exactly one BLE write.          *)
(***************************************************************************)
EXTENDS AmotaService, TLC

CONSTANTS good, cut, short, empty, absent

\* The image of good has 6 bytes, a full packet and one of 2 bytes; that of cut
\* ends after 1 of its 6 bytes; short has no complete header.
MCFirmware ==
  (good  :> [length |-> 8, declared |-> 6]) @@
  (cut   :> [length |-> 3, declared |-> 6]) @@
  (short :> [length |-> 1, declared |-> 0]) @@
  (empty :> [length |-> 0, declared |-> 0])

\* Fewer files, for the runs with several starts and those about one file.
MCFewFiles == [p \in {good, short} |-> MCFirmware[p]]
MCGoodFile == [p \in {good} |-> MCFirmware[p]]

=============================================================================
