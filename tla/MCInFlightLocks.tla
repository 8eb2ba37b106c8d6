-------------------------- MODULE MCInFlightLocks --------------------------
(* Three streams race for the lock of one session. *)
EXTENDS InFlightLocks

CONSTANTS s1, s2, s3, k1

MCKeyOf == [s \in Streams |-> k1]
=============================================================================
