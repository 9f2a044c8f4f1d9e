---------------------------- MODULE MCRunBoundary ----------------------------
(* RunBoundary with a channel of one item, so that every second send waits,  *)
(* and a ceiling that can be disarmed and armed again before it expires.     *)
EXTENDS RunBoundary
=============================================================================
