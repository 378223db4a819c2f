----------------------------- MODULE MCStateLock -----------------------------
(* Instances of StateLock for TLC: two jobs that end before the age limit  *)
(* of the check (timeout-minutes 45 under 60) and commands of operators,   *)
(* one of them with a lock that the check cannot date.                     *)
EXTENDS StateLock

CONSTANTS s1, s2, r1, r2, r3, r4, w1, w2
=============================================================================
