------------------------- MODULE MCActorScenarios ---------------------------
(* ActorScenarios on small instances for TLC. *)
EXTENDS ActorScenarios

MCDrivers ==
  {"during_term_batch", "after_running", "stale_executor", "wedged_supervisor",
   "control_frame_validation", "cleanup_request_binding", "identity_ack_missing_config",
   "altered_executable_identity", "reused_pid", "kill_supervisor_after_running",
   "fallback_early_before_running", "fallback_wrong_phase_after_loss",
   "supervisor_before_identity", "anchor_before_identity", "after_armed_before_exec",
   "ordinary_term_success", "bootstrap_environment"}
=============================================================================
