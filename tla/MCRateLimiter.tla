---------------------------- MODULE MCRateLimiter ----------------------------
(***************************************************************************)
(* Two callers, a limit of two per three ticks, a clock long enough for a  *)
(* window to pass twice.                                                   *)
(***************************************************************************)
EXTENDS RateLimiter, TLC

CONSTANTS alice, bob

TwoCallers == {alice, bob}
=============================================================================
