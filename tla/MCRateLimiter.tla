---------------------------- MODULE MCRateLimiter ----------------------------
(* As many limiters as can be referred to at once.                          *)
EXTENDS RateLimiter

CONSTANTS a1, r1, r2, r3, l1, l2, l3, l4
=============================================================================
