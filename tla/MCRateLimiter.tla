---------------------------- MODULE MCRateLimiter ----------------------------
(* Three callers, a bucket of two requests that fills in four ticks: waiters *)
(* wake together, and the clock passes a full window after an idle start.    *)
EXTENDS RateLimiter, TLC

Callers3 == Permutations(Callers)
==============================================================================
