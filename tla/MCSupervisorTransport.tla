----------------------- MODULE MCSupervisorTransport ------------------------
(* SupervisorTransport on small instances for TLC. *)
EXTENDS SupervisorTransport
=============================================================================
