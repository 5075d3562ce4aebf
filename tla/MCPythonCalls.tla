---------------------------- MODULE MCPythonCalls ----------------------------
(* A small instance of PythonCalls. *)
EXTENDS PythonCalls

CONSTANTS p1, p2

TwoThreads == {p1, p2}

Argument(naming, timeouts, permits, threads) ==
    [naming_strategy |-> naming, timeouts |-> timeouts,
     max_concurrent |-> permits, runtime_threads |-> threads]

\* One that is refused for its name, one for its timeout, one that is accepted and
\* cannot be converted, and one with a limit that no semaphore has.
MCArguments ==
    {Argument("by_date", "representable", 200, 0), Argument("url_based", "negative", 200, 0),
     Argument("sequential", "unrepresentable", 200, 0),
     Argument("url_based", "representable", 300, 2)}
=============================================================================
