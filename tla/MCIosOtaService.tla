-------------------------- MODULE MCIosOtaService ---------------------------
(***************************************************************************)
(* Instances of IosOtaService for TLC, with the sizes scaled down.         *)
(***************************************************************************)
EXTENDS IosOtaService, TLC

CONSTANTS good, tiny, empty, absent

\* good has a header of 2 bytes and an image of 6, one full brick and a rest; tiny
\* is nothing but a header, which the library refuses.
MCSize == (good :> 8) @@ (tiny :> 2) @@ (empty :> 0)

=============================================================================
