---------------------------- MODULE MCSdkSession -----------------------------
(* SdkSession on small instances for TLC. *)
EXTENDS SdkSession

MCShapes == {<<"text">>, <<"redacted_thinking", "tool_use">>, <<"tool_use", "tool_use">>}
=============================================================================
