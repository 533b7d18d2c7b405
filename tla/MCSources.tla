----------------------------- MODULE MCSources ------------------------------
(* Small instances of Sources. *)
EXTENDS Sources

CONSTANTS j1, j2, j3, m1, m2, m3, u1, u2

MCPeriod == (j1 :> 2) @@ (j2 :> 4) @@ (j3 :> 4)

MCConfigurations == {{"interval"}, {"sqs"}, {"websocket"}}

=============================================================================
