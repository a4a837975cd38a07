--------------------------- MODULE MCSyncHotstuff ---------------------------
(***************************************************************************)
(* Model checking of SyncHotstuff with the main node and two others.  The  *)
(* unit of time is MaxLatency.                                             *)
(***************************************************************************)
EXTENDS SyncHotstuff

MCNodes == {"n0", "n1", "n2"}
=============================================================================
