---------------------------- MODULE MCTransport ----------------------------
(* Small instances of Transport. *)
EXTENDS Transport

CONSTANTS h1, h2

TwoHosts == {h1, h2}
MCRetryAfters == {9}
=============================================================================
