-------------------------- MODULE MCProviderExecutor --------------------------
(* A route of three models: the first and the last share a pooled provider.  *)
EXTENDS ProviderExecutor

CONSTANTS m1, m2, m3, p, q

MCRoute == <<m1, m2, m3>>
MCProviderOf == [m \in {m1, m2, m3} |-> IF m = m2 THEN q ELSE p]

(* A client that streams, with the shipped resume and no bench.             *)
Streaming ==
  [mode |-> "off", pauses |-> {{}}, stream |-> TRUE, messages |-> TRUE,
   clean |-> TRUE, resume |-> TRUE, retry |-> FALSE, tries |-> 1,
   total |-> 3, floor |-> 0, stall |-> 2, think |-> 0]

(* A client that waits for the whole answer, on a process that retries.     *)
Buffered ==
  [mode |-> "off", pauses |-> {{}}, stream |-> FALSE, messages |-> TRUE,
   clean |-> FALSE, resume |-> FALSE, retry |-> TRUE, tries |-> 2,
   total |-> 2, floor |-> 0, stall |-> 0, think |-> 1]

(* Two live models at most, and the registry in either mode.  The Responses *)
(* API streams what can be neither continued nor closed.                   *)
Benching ==
  [mode |-> "consecutive", pauses |-> {{m2}, {m1, m2, m3}}, stream |-> TRUE,
   messages |-> TRUE, clean |-> FALSE, resume |-> TRUE, retry |-> TRUE, tries |-> 1,
   total |-> 1, floor |-> 1, stall |-> 0, think |-> 1]

Responses ==
  [mode |-> "rate_based", pauses |-> {{m3}}, stream |-> TRUE, messages |-> FALSE,
   clean |-> TRUE, resume |-> TRUE, retry |-> FALSE, tries |-> 2,
   total |-> 1, floor |-> 0, stall |-> 0, think |-> 0]

MCPolicies == {Streaming, Buffered, Benching, Responses}
=============================================================================
