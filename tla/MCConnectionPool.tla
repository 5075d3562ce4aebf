-------------------------- MODULE MCConnectionPool --------------------------
(* Small instances of ConnectionPool, and its refinement of ConnectionLease. *)
EXTENDS ConnectionPool, TLC

CONSTANTS k1, k2, t1, t2, t3

OneKey == {k1}
TwoKeys == {k1, k2}
TwoTasks == {t1, t2}
ThreeTasks == {t1, t2, t3}

OneOfEach == [k \in Keys |-> IF k = k1 THEN {"Http1"} ELSE {"Http2"}]
OnlyHttp1 == [k \in Keys |-> {"Http1"}]
EitherProtocol == [k \in Keys |-> Protocols]

TaskSymmetry == Permutations(Tasks)

\* The abstract pool.  A task opens at most one connection per call of acquire,
\* which bounds the ids.
Lease == INSTANCE ConnectionLease WITH
    Conns <- Keys \X (0 .. Cardinality(Tasks) * MaxCalls),
    idle <- IdleConns,
    lease <- LeaseOf
LeaseSpec == Lease!LSpec
=============================================================================
