----------------------------- MODULE TokenBucket -----------------------------
(***************************************************************************)
(* What a rate limit promises: each address has one bucket of Burst tokens  *)
(* that gains Rate at every tick of the clock, and a request is admitted    *)
(* for a token.                                                            *)
(***************************************************************************)
EXTENDS Integers

CONSTANTS Addresses, Rate, Burst

VARIABLE level   \* address -> tokens in its bucket

Refilled(n) == IF n + Rate > Burst THEN Burst ELSE n + Rate

Init == level = [a \in Addresses |-> Burst]

Admit(a) == level[a] >= 1 /\ level' = [level EXCEPT ![a] = @ - 1]

Tick == level' = [a \in Addresses |-> Refilled(level[a])]

Next == Tick \/ \E a \in Addresses : Admit(a)

Spec == Init /\ [][Next]_level
=============================================================================
