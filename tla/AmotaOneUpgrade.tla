-------------------------- MODULE AmotaOneUpgrade --------------------------
(***************************************************************************)
(* What AmOtaService promises of its upgrades, without its threads, files  *)
(* and frames: they are numbered by the starts, there is one at a time,    *)
(* each begins and ends once, and after the first stop none begins and at  *)
(* most one frame still goes out before the next start.                    *)
(***************************************************************************)
EXTENDS Naturals

CONSTANT Max      \* bound: accepted starts

None == 0

VARIABLES
  granted,      \* accepted starts
  owner,        \* the upgrade under way, or None
  closed,       \* a stop has closed the service for good
  stray         \* frames since the stop

vars == <<granted, owner, closed, stray>>

Init ==
  /\ granted = 0
  /\ owner = None
  /\ closed = FALSE
  /\ stray = 0

\* An accepted start begins an upgrade.
Grant ==
  /\ granted < Max
  /\ ~closed
  /\ owner = None
  /\ granted' = granted + 1
  /\ owner' = granted + 1
  /\ stray' = 0
  /\ UNCHANGED closed

\* Once the service is closed it begins nothing.
GrantNothing ==
  /\ granted < Max
  /\ closed
  /\ granted' = granted + 1
  /\ stray' = 0
  /\ UNCHANGED <<owner, closed>>

Finish ==
  /\ owner # None
  /\ owner' = None
  /\ UNCHANGED <<granted, closed, stray>>

\* The upgrade under way goes on until it notices.
Close ==
  /\ closed' = TRUE
  /\ UNCHANGED <<granted, owner, stray>>

Stray ==
  /\ closed
  /\ owner # None
  /\ stray = 0
  /\ stray' = 1
  /\ UNCHANGED <<granted, owner, closed>>

Next == Grant \/ GrantNothing \/ Finish \/ Close \/ Stray

Spec == Init /\ [][Next]_vars

=============================================================================
