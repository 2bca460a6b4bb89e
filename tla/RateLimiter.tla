----------------------------- MODULE RateLimiter -----------------------------
(***************************************************************************)
(* The rate limiter of package middleware.  A request looks its address up  *)
(* in the clients map under the lock, and takes a token from the limiter it *)
(* got there after the lock is released; meanwhile cleanupLoop may have     *)
(* evicted the address.  An evicted address starts again with a full        *)
(* bucket.  Time passes in ticks; ages are counted only as far as they      *)
(* matter, so that time itself needs no bound.                             *)
(***************************************************************************)
EXTENDS Integers

CONSTANTS
  Addresses,
  Calls,          \* requests, each free again when it is answered
  Limiters,       \* rate.Limiter objects; one nobody refers to is free again
  Rate, Burst,    \* tokens per tick and at most (50 per second, 100)
  TTL, Period,    \* clientTTL and cleanupPeriod (3 minutes, 1 minute)
  Slack           \* a request this slow to take its token is late (178 s)

ASSUME RateAssumption == Rate \in Nat \ {0} /\ Burst \in Nat \ {0}
ASSUME PeriodAssumption == TTL \in Nat /\ Period \in Nat \ {0}

(* What the values of main.go satisfy: a bucket is full again within the    *)
(* time to live less the slack.                                            *)
ASSUME RefillAssumption == Slack \in 0..TTL /\ (TTL - Slack) * Rate >= Burst

VARIABLES
  tokens,    \* limiter -> tokens left
  clients,   \* address -> [limiter, idle] or None; idle: ticks since lastSeen
  held,      \* request -> [address, limiter, age] or None: looked up, no token yet
  ticker,    \* ticks since the ticker of cleanupLoop was received
  loop,      \* "running", "cancelled" or "stopped"
  budget     \* address -> what one bucket for all but late requests would hold

vars == <<tokens, clients, held, ticker, loop, budget>>

None == [none |-> TRUE]
Client == [limiter : Limiters, idle : 0..TTL + 1]
Held == [address : Addresses, limiter : Limiters, age : 0..Slack + 1]

Refilled(n) == IF n + Rate > Burst THEN Burst ELSE n + Rate
Aged(n, max) == IF n > max THEN n ELSE n + 1

Known(a) == clients[a] # None
Waiting(r) == held[r] # None
Free(l) ==
  /\ \A a \in Addresses : Known(a) => clients[a].limiter # l
  /\ \A r \in Calls : Waiting(r) => held[r].limiter # l

-----------------------------------------------------------------------------
Hold(r, a, l) == held' = [held EXCEPT ![r] = [address |-> a, limiter |-> l, age |-> 0]]

(* getVisitor for an address the map does not have: a full limiter.         *)
NewVisitor(r, a, l) ==
  /\ ~Waiting(r) /\ ~Known(a) /\ Free(l)
  /\ tokens' = [tokens EXCEPT ![l] = Burst]
  /\ clients' = [clients EXCEPT ![a] = [limiter |-> l, idle |-> 0]]
  /\ Hold(r, a, l)
  /\ UNCHANGED <<ticker, loop, budget>>

GetVisitor(r, a) ==
  /\ ~Waiting(r) /\ Known(a)
  /\ clients' = [clients EXCEPT ![a].idle = 0]
  /\ Hold(r, a, clients[a].limiter)
  /\ UNCHANGED <<tokens, ticker, loop, budget>>

(* Mutant: a token is taken whether or not there is one.                    *)
AllowUnguarded(r) ==
  /\ Waiting(r)
  /\ tokens' = [tokens EXCEPT ![held[r].limiter] = @ - 1]
  /\ held' = [held EXCEPT ![r] = None]
  /\ UNCHANGED <<clients, ticker, loop, budget>>

(* Allow takes a token if there is one; the request is served or refused.   *)
Allow(r) ==
  LET l == held[r].limiter
      a == held[r].address
      allowed == tokens[l] >= 1
  IN  /\ Waiting(r)
      /\ tokens' = IF allowed THEN [tokens EXCEPT ![l] = @ - 1] ELSE tokens
      /\ budget' = IF allowed /\ held[r].age <= Slack THEN [budget EXCEPT ![a] = @ - 1]
                   ELSE budget
      /\ held' = [held EXCEPT ![r] = None]
      /\ UNCHANGED <<clients, ticker, loop>>

(* Mutant: an address is evicted at half its time to live.                  *)
CleanupEarly ==
  /\ loop # "stopped" /\ ticker = Period
  /\ ticker' = 0
  /\ clients' = [a \in Addresses |->
                   IF Known(a) /\ 2 * clients[a].idle > TTL THEN None ELSE clients[a]]
  /\ UNCHANGED <<tokens, held, loop, budget>>

(* Mutant: the comparison with the time to live is inverted.                *)
CleanupInverted ==
  /\ loop # "stopped" /\ ticker = Period
  /\ ticker' = 0
  /\ clients' = [a \in Addresses |->
                   IF Known(a) /\ clients[a].idle < TTL THEN None ELSE clients[a]]
  /\ UNCHANGED <<tokens, held, loop, budget>>

(* cleanup, when the ticker fires, under the lock.                         *)
Cleanup ==
  /\ loop # "stopped" /\ ticker = Period
  /\ ticker' = 0
  /\ clients' = [a \in Addresses |->
                   IF Known(a) /\ clients[a].idle > TTL THEN None ELSE clients[a]]
  /\ UNCHANGED <<tokens, held, loop, budget>>

(* Shutdown cancels the context; the loop may clean up once more before it  *)
(* sees that, since select takes either of two ready channels.             *)
Shutdown ==
  /\ loop = "running" /\ loop' = "cancelled"
  /\ UNCHANGED <<tokens, clients, held, ticker, budget>>

StopLoop ==
  /\ loop = "cancelled" /\ loop' = "stopped"
  /\ UNCHANGED <<tokens, clients, held, ticker, budget>>

(* A tick: limiters refill, ages grow; a tick not yet received is kept.     *)
Tick ==
  /\ tokens' = [l \in Limiters |-> Refilled(tokens[l])]
  /\ budget' = [a \in Addresses |-> Refilled(budget[a])]
  /\ clients' = [a \in Addresses |->
       IF Known(a) THEN [clients[a] EXCEPT !.idle = Aged(@, TTL)] ELSE None]
  /\ held' = [r \in Calls |->
       IF Waiting(r) THEN [held[r] EXCEPT !.age = Aged(@, Slack)] ELSE None]
  /\ ticker' = IF ticker < Period THEN ticker + 1 ELSE ticker
  /\ UNCHANGED loop

-----------------------------------------------------------------------------
Init ==
  /\ tokens = [l \in Limiters |-> Burst]
  /\ clients = [a \in Addresses |-> None]
  /\ held = [r \in Calls |-> None]
  /\ ticker = 0
  /\ loop = "running"
  /\ budget = [a \in Addresses |-> Burst]

Next ==
  \/ \E r \in Calls, a \in Addresses :
       GetVisitor(r, a) \/ \E l \in Limiters : NewVisitor(r, a, l)
  \/ \E r \in Calls : Allow(r)
  \/ Cleanup \/ Shutdown \/ StopLoop \/ Tick

(* Time passes, and the runtime schedules the cleanup goroutine.            *)
Spec == Init /\ [][Next]_vars /\ WF_vars(Tick) /\ WF_vars(Cleanup)

-----------------------------------------------------------------------------
(* Properties *)

TypeOK ==
  /\ tokens \in [Limiters -> 0..Burst]
  /\ clients \in [Addresses -> Client \union {None}]
  /\ held \in [Calls -> Held \union {None}]
  /\ ticker \in 0..Period
  /\ loop \in {"running", "cancelled", "stopped"}
  /\ budget \in [Addresses -> 0..Burst]

(* Whatever is evicted and looked up again, and however slow a request is   *)
(* to take its token, those that are not late are admitted as by one bucket *)
(* per address.                                                            *)
Bucket == INSTANCE TokenBucket WITH level <- budget
ImplementsBucket == Bucket!Spec

(* An address that stays away is dropped from the map, unless the limiter   *)
(* is shut down: the map does not grow for ever.                           *)
IdleIsForgotten ==
  \A a \in Addresses :
    Known(a) /\ clients[a].idle > TTL ~>
      ~Known(a) \/ clients[a].idle = 0 \/ loop = "stopped"
=============================================================================
