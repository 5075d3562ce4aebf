--------------------------- MODULE ConnectionLease ---------------------------
(***************************************************************************)
(* What the pool promises of HTTP/1.1 connections, with no lock, counter,  *)
(* protocol or queue in it: a connection carries the request of one task   *)
(* at a time.  A task leases a fresh connection or one that is idle, and   *)
(* gives it back or loses it; a lost connection is never seen again, and   *)
(* an idle one stays idle until it is leased.                              *)
(***************************************************************************)
EXTENDS TLAPS

CONSTANTS
    Tasks,   \* who leases
    Conns,   \* names of connections: a connection may take over a name that is free
    NoConn   \* the lease of a task that has none

VARIABLES
    idle,    \* connections nobody uses
    lease    \* the connection each task uses

leaseVars == <<idle, lease>>

Leased == {lease[t] : t \in Tasks} \ {NoConn}

LInit ==
    /\ idle = {}
    /\ lease = [t \in Tasks |-> NoConn]

LeaseFresh(t, c) ==
    /\ lease[t] = NoConn
    /\ c \notin idle \cup Leased
    /\ lease' = [lease EXCEPT ![t] = c]
    /\ UNCHANGED idle

LeaseIdle(t, c) ==
    /\ lease[t] = NoConn
    /\ c \in idle
    /\ idle' = idle \ {c}
    /\ lease' = [lease EXCEPT ![t] = c]

GiveBack(t) ==
    /\ lease[t] # NoConn
    /\ idle' = idle \cup {lease[t]}
    /\ lease' = [lease EXCEPT ![t] = NoConn]

Lose(t) ==
    /\ lease[t] # NoConn
    /\ lease' = [lease EXCEPT ![t] = NoConn]
    /\ UNCHANGED idle

LNext ==
    \E t \in Tasks : \/ \E c \in Conns : LeaseFresh(t, c) \/ LeaseIdle(t, c)
                     \/ GiveBack(t)
                     \/ Lose(t)

LSpec == LInit /\ [][LNext]_leaseVars

-----------------------------------------------------------------------------
LeaseTypeOK == lease \in [Tasks -> Conns \cup {NoConn}]

\* No connection serves two tasks, and none is idle while a task uses it.
OneUser ==
    /\ \A t, u \in Tasks : t # u /\ lease[t] # NoConn => lease[t] # lease[u]
    /\ \A t \in Tasks : lease[t] # NoConn => lease[t] \notin idle

\* The promise follows from the actions alone: whatever implements LSpec, as the
\* pool does, has one user per connection.
THEOREM LeaseSafe == LSpec => []OneUser
<1> DEFINE Inv == LeaseTypeOK /\ OneUser
<1>1. LInit => Inv
  BY DEF LInit, LeaseTypeOK, OneUser
<1>2. Inv /\ [LNext]_leaseVars => Inv'
  <2> SUFFICES ASSUME Inv, [LNext]_leaseVars PROVE Inv'
    OBVIOUS
  <2>1. CASE UNCHANGED leaseVars
    BY <2>1 DEF leaseVars, LeaseTypeOK, OneUser
  <2>2. ASSUME NEW t \in Tasks, NEW c \in Conns, LeaseFresh(t, c) PROVE Inv'
    BY <2>2 DEF LeaseFresh, Leased, LeaseTypeOK, OneUser
  <2>3. ASSUME NEW t \in Tasks, NEW c \in Conns, LeaseIdle(t, c) PROVE Inv'
    BY <2>3 DEF LeaseIdle, LeaseTypeOK, OneUser
  <2>4. ASSUME NEW t \in Tasks, GiveBack(t) PROVE Inv'
    BY <2>4 DEF GiveBack, LeaseTypeOK, OneUser
  <2>5. ASSUME NEW t \in Tasks, Lose(t) PROVE Inv'
    BY <2>5 DEF Lose, LeaseTypeOK, OneUser
  <2>6. QED
    BY <2>1, <2>2, <2>3, <2>4, <2>5 DEF LNext
<1>3. QED
  BY <1>1, <1>2, PTL DEF LSpec
=============================================================================
