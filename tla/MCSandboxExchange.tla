--------------------------- MODULE MCSandboxExchange ---------------------------
(* Ordinary traffic, long enough for the indices of a queue of two entries *)
(* to wrap, and every call and fault scenario, after any one call or batch; *)
(* the child may crash in both.                                            *)
EXTENDS SandboxExchange

MCPlans ==
  {[calls |-> {"echo", "echo_batch", "request_quiesce", "BAD_GENERATION"},
    MaxCorrelation |-> 5, crash |-> TRUE],
   [calls |-> Calls, MaxCorrelation |-> 2, crash |-> TRUE]}
=============================================================================
