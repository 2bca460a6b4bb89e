---------------------------- MODULE ServerProofs ----------------------------
(***************************************************************************)
(* Proofs about what a request meets before and under its handler: the rate *)
(* limiter, which implements one token bucket per address for any           *)
(* addresses, requests and delays if a bucket is full again within the time *)
(* to live less the slack (RefillAssumption); and the connection pool, for  *)
(* any set of requests, inside Do or not, and a pool of any size.          *)
(***************************************************************************)
EXTENDS ConnPool, RateLimiter, SequenceTheorems, FiniteSetTheorems, TLAPS

-----------------------------------------------------------------------------
(* The connection pool *)

(* Only Do's requests ask for a transaction, and once; whoever waits or runs*)
(* has a statement left: what PoolTypeOK needs to be inductive.            *)
WaitingHasWork ==
  \A r \in Requests :
    /\ pc[r] = "begin" => r \in Transactional \ inTx
    /\ pc[r] \in {"begin", "query", "running"} => left[r] > 0

PoolInv == PoolTypeOK /\ ConnectionsReturned /\ WaitingHasWork

(* Taking one element out of a sequence leaves a sequence over the same set. *)
LEMMA RemoveAtType ==
  ASSUME NEW S, NEW s \in Seq(S), NEW k \in DOMAIN s
  PROVE  RemoveAt(s, k) \in Seq(S)
<1>1. /\ k \in 1..Len(s)
      /\ Len(s) \in Nat
  BY LenProperties
<1>2. \A i \in 1..(k-1) : s[i] \in S
  BY <1>1, ElementOfSeq, SMT
<1>3. \A i \in (k+1)..Len(s) : s[i] \in S
  BY <1>1, ElementOfSeq, SMT
<1>4. SubSeq(s, 1, k-1) \in Seq(S)
  BY <1>1, SubSeqProperties, SMT
<1>5. SubSeq(s, k+1, Len(s)) \in Seq(S)
  BY <1>1, SubSeqProperties, SMT
<1> QED
  BY <1>4, <1>5, ConcatProperties DEF RemoveAt

(* ... which keeps every other element, in order.                          *)
LEMMA RemoveAtElements ==
  ASSUME NEW S, NEW s \in Seq(S), NEW k \in DOMAIN s
  PROVE  /\ Len(RemoveAt(s, k)) = Len(s) - 1
         /\ \A i \in 1..(Len(s) - 1) :
              RemoveAt(s, k)[i] = IF i < k THEN s[i] ELSE s[i+1]
<1> DEFINE a == SubSeq(s, 1, k-1)
           b == SubSeq(s, k+1, Len(s))
<1>1. k \in 1..Len(s) /\ Len(s) \in Nat
  BY LenProperties
<1>2. /\ a \in Seq(S) /\ Len(a) = k - 1
      /\ \A i \in 1..(k-1) : a[i] = s[i]
  <2>1. \A i \in 1..(k-1) : s[i] \in S
    BY <1>1, ElementOfSeq, SMT
  <2> QED
    BY <1>1, <2>1, SubSeqProperties, SMT
<1>3. /\ b \in Seq(S) /\ Len(b) = Len(s) - k
      /\ \A i \in 1..(Len(s) - k) : b[i] = s[k+i]
  <2>1. \A i \in (k+1)..Len(s) : s[i] \in S
    BY <1>1, ElementOfSeq, SMT
  <2> QED
    BY <1>1, <2>1, SubSeqProperties, SMT
<1> HIDE DEF a, b
<1>4. /\ Len(a \o b) = Len(s) - 1
      /\ \A i \in 1..(Len(s) - 1) :
           (a \o b)[i] = IF i < k THEN a[i] ELSE b[i - (k - 1)]
  <2>1. /\ Len(a \o b) = Len(a) + Len(b)
        /\ \A i \in 1..(Len(a) + Len(b)) :
             (a \o b)[i] = IF i <= Len(a) THEN a[i] ELSE b[i - Len(a)]
    BY <1>2, <1>3, ConcatProperties
  <2>2. Len(a) = k - 1 /\ Len(b) = Len(s) - k
    BY <1>2, <1>3
  <2>3. (k - 1) + (Len(s) - k) = Len(s) - 1
    BY <1>1
  <2>4. \A i \in 1..(Len(s) - 1) : (i <= k - 1) <=> (i < k)
    BY <1>1
  <2> QED
    BY <2>1, <2>2, <2>3, <2>4
<1>5. RemoveAt(s, k) = a \o b
  BY DEF RemoveAt, a, b
<1>6. ASSUME NEW i \in 1..(Len(s) - 1)
      PROVE  (a \o b)[i] = IF i < k THEN s[i] ELSE s[i+1]
  <2>1. CASE i < k
    BY <1>1, <1>2, <1>4, <2>1
  <2>2. CASE ~(i < k)
    <3>1. i - (k - 1) \in 1..(Len(s) - k) /\ k + (i - (k - 1)) = i + 1
      BY <1>1, <2>2
    <3> QED
      BY <1>3, <1>4, <2>2, <3>1
  <2> QED
    BY <2>1, <2>2
<1> QED
  BY <1>4, <1>5, <1>6, Zenon

LEMMA PoolInvInit == PoolInit => PoolInv
<1> SUFFICES ASSUME PoolInit PROVE PoolInv
  OBVIOUS
<1>1. <<>> \in Seq(Requests)
  BY EmptySeq
<1>2. MaxStatements \in Nat \ {0}
  BY PoolAssumption
<1> QED
  BY <1>1, <1>2 DEF PoolInit, PoolInv, PoolTypeOK, ConnectionsReturned, WaitingHasWork, States

LEMMA PoolInvNext == PoolInv /\ [PoolNext]_poolVars => PoolInv'
<1> SUFFICES ASSUME PoolInv, [PoolNext]_poolVars PROVE PoolInv'
  OBVIOUS
<1> USE DEF PoolInv, ConnectionsReturned, WaitingHasWork
<1>0. MaxStatements \in Nat \ {0} /\ Transactional \subseteq Requests
  BY PoolAssumption
<1>1. ASSUME NEW r \in Requests, Arrive(r) PROVE PoolInv'
  BY <1>0, <1>1 DEF Arrive, PoolTypeOK, States
<1>2. ASSUME NEW r \in Requests, NEW for \in {"begin", "query"}, Wait(r, for),
             for = "begin" => r \in Transactional \ inTx
      PROVE  PoolInv'
  <2>1. queue' \in Seq(Requests)
    BY <1>2, AppendProperties DEF Wait, PoolTypeOK
  <2> QED
    BY <1>0, <1>2, <2>1 DEF Wait, PoolTypeOK, States
<1>3. ASSUME Acquire PROVE PoolInv'
  <2>1. Head(queue) \in Requests /\ Tail(queue) \in Seq(Requests)
    BY <1>3, HeadTailProperties DEF Acquire, PoolTypeOK
  <2>2. CASE pc[Head(queue)] = "begin"
    BY <1>0, <1>3, <2>1, <2>2 DEF Acquire, PoolTypeOK, States
  <2>3. CASE pc[Head(queue)] = "query"
    BY <1>0, <1>3, <2>1, <2>3 DEF Acquire, PoolTypeOK, States
  <2> QED
    BY <1>3, <2>2, <2>3 DEF Acquire
<1>4. ASSUME NEW r \in Requests, Release(r) PROVE PoolInv'
  BY <1>0, <1>4 DEF Release, PoolTypeOK, States
<1>5. ASSUME NEW r \in Requests, Commit(r) PROVE PoolInv'
  BY <1>0, <1>5 DEF Commit, Leave, PoolTypeOK, States
<1>6. ASSUME NEW r \in Requests, Fail(r) PROVE PoolInv'
  BY <1>0, <1>6 DEF Fail, Leave, PoolTypeOK, States
<1>7. ASSUME NEW r \in Requests, Disconnect(r) PROVE PoolInv'
  <2>1. queue' \in Seq(Requests)
    BY <1>7, RemoveAtType DEF Disconnect, PoolTypeOK
  <2> QED
    BY <1>0, <1>7, <2>1 DEF Disconnect, Leave, PoolTypeOK, States
<1>8. CASE UNCHANGED poolVars
  BY <1>8 DEF poolVars, PoolTypeOK
<1> QED
  BY <1>1, <1>2, <1>3, <1>4, <1>5, <1>6, <1>7, <1>8
     DEF PoolNext, Proceed, BeginTx, Query

(* Every variable keeps its type.                                          *)
THEOREM PoolInvariant == PoolSpec => []PoolInv
<1> QED
  BY PoolInvInit, PoolInvNext, PTL DEF PoolSpec

(* Whatever the requests do, fail or leave, a request that has left holds no *)
(* connection.                                                             *)
THEOREM NoConnectionLeaks == PoolSpec => []ConnectionsReturned
<1>1. PoolInv => ConnectionsReturned
  BY DEF PoolInv
<1> QED
  BY <1>1, PoolInvariant, PTL

(* When nobody who has a connection will return it without another, every   *)
(* connection is held by a request inside Do that waits for its second:     *)
(* nothing else a request does, and no way it ends, can stop the pool.      *)
THEOREM PoolStuckOnlyInDo == PoolSpec => []StuckOnlyInDo
<1>1. PoolInv => StuckOnlyInDo
  <2> SUFFICES ASSUME PoolInv, Stuck PROVE Wedged
    BY DEF StuckOnlyInDo
  <2>1. Running = {}
    BY DEF Stuck, Running
  <2>2. ASSUME NEW r \in inTx PROVE pc[r] = "query"
    <3>1. r \in Requests /\ pc[r] \in States
      BY <2>2, PoolAssumption DEF PoolInv, PoolTypeOK
    <3>2. pc[r] # "idle" /\ pc[r] # "begin"
      BY <2>2, <3>1 DEF PoolInv, ConnectionsReturned, WaitingHasWork
    <3> QED
      BY <3>1, <3>2 DEF Stuck, States
  <2>3. {r \in inTx : pc[r] = "query"} = inTx
    BY <2>2
  <2>4. IsFiniteSet(inTx)
    BY PoolAssumption, FS_Subset DEF PoolInv, PoolTypeOK
  <2>5. Cardinality(Running) = 0 /\ Cardinality(inTx) \in Nat
    BY <2>1, <2>4, FS_EmptySet, FS_CardinalityType
  <2>6. Cardinality(inTx) >= MaxConns
    BY <2>5, PoolAssumption DEF Stuck, InUse
  <2> QED
    BY <2>3, <2>6 DEF Wedged
<1> QED
  BY <1>1, PoolInvariant, PTL

LEMMA QueueNext == PoolInv /\ QueueIsWaiting /\ [PoolNext]_poolVars => QueueIsWaiting'
<1> SUFFICES ASSUME PoolInv, QueueIsWaiting, [PoolNext]_poolVars PROVE QueueIsWaiting'
  OBVIOUS
<1>0. /\ pc \in [Requests -> States] /\ queue \in Seq(Requests)
      /\ Len(queue) \in Nat /\ DOMAIN queue = 1..Len(queue)
  BY LenProperties DEF PoolInv, PoolTypeOK
<1>1. ASSUME NEW r \in Requests, UNCHANGED queue,
             \A q \in Requests \ {r} : pc'[q] = pc[q],
             {pc[r], pc'[r]} \intersect {"begin", "query"} = {}
      PROVE  QueueIsWaiting'
  <2>1. \A k \in DOMAIN queue : queue[k] \in Requests /\ queue[k] # r
    BY <1>0, <1>1, ElementOfSeq DEF QueueIsWaiting
  <2> QED
    BY <1>1, <2>1 DEF QueueIsWaiting
<1>2. ASSUME NEW r \in Requests, NEW for \in {"begin", "query"}, Wait(r, for)
      PROVE  QueueIsWaiting'
  <2>1. /\ pc' = [pc EXCEPT ![r] = for] /\ pc[r] = "ready"
        /\ Len(queue') = Len(queue) + 1 /\ DOMAIN queue' = 1..Len(queue')
        /\ \A k \in 1..Len(queue) : queue'[k] = queue[k]
        /\ queue'[Len(queue) + 1] = r
    BY <1>0, <1>2, AppendProperties, LenProperties DEF Wait
  <2>2. \A k \in 1..Len(queue) : queue[k] \in Requests /\ queue[k] # r
    BY <1>0, <2>1, ElementOfSeq DEF QueueIsWaiting
  <2> QED
    BY <1>0, <2>1, <2>2 DEF QueueIsWaiting
<1>3. ASSUME Acquire PROVE QueueIsWaiting'
  <2> DEFINE r == Head(queue)
  <2>1. /\ queue # <<>> /\ Len(queue) > 0 /\ r = queue[1]
        /\ Len(queue') = Len(queue) - 1 /\ DOMAIN queue' = 1..(Len(queue) - 1)
        /\ \A k \in 1..(Len(queue) - 1) : queue'[k] = queue[k+1]
    <3>1. queue # <<>> /\ queue' = Tail(queue)
      BY <1>3 DEF Acquire
    <3> QED
      BY <1>0, <3>1, HeadTailProperties, LenProperties, EmptySeq
  <2>2. r \in Requests /\ \A k \in 2..Len(queue) : queue[k] \in Requests /\ queue[k] # r
    BY <1>0, <2>1, ElementOfSeq DEF QueueIsWaiting
  <2>3. /\ pc'[r] \notin {"begin", "query"}
        /\ \A q \in Requests \ {r} : pc'[q] = pc[q]
    BY <1>0, <1>3, <2>2 DEF Acquire
  <2>4. \A q \in Requests : pc'[q] \in {"begin", "query"} =>
          \E k \in DOMAIN queue' : queue'[k] = q
    <3> SUFFICES ASSUME NEW q \in Requests, pc'[q] \in {"begin", "query"}
                 PROVE  \E k \in DOMAIN queue' : queue'[k] = q
      OBVIOUS
    <3>1. q # r /\ pc[q] \in {"begin", "query"}
      BY <2>3
    <3>2. PICK k \in 1..Len(queue) : queue[k] = q
      BY <1>0, <3>1 DEF QueueIsWaiting
    <3>3. k - 1 \in 1..(Len(queue) - 1) /\ (k - 1) + 1 = k
      BY <1>0, <2>1, <3>1, <3>2
    <3> QED
      BY <2>1, <3>2, <3>3
  <2>5. \A k \in DOMAIN queue' : pc'[queue'[k]] \in {"begin", "query"}
    BY <1>0, <2>1, <2>2, <2>3 DEF QueueIsWaiting
  <2>6. \A j, k \in DOMAIN queue' : queue'[j] = queue'[k] => j = k
    <3> SUFFICES ASSUME NEW j \in 1..(Len(queue) - 1), NEW k \in 1..(Len(queue) - 1),
                        queue[j+1] = queue[k+1]
                 PROVE  j = k
      BY <2>1
    <3>1. j + 1 \in DOMAIN queue /\ k + 1 \in DOMAIN queue
      BY <1>0
    <3>2. j + 1 = k + 1
      BY <3>1 DEF QueueIsWaiting
    <3> QED
      BY <3>2
  <2> QED
    BY <2>4, <2>5, <2>6 DEF QueueIsWaiting
<1>4. ASSUME NEW r \in Requests, Disconnect(r) PROVE QueueIsWaiting'
  <2>1. PICK x \in DOMAIN queue : queue[x] = r /\ queue' = RemoveAt(queue, x)
    BY <1>4 DEF Disconnect
  <2>2. /\ Len(queue') = Len(queue) - 1
        /\ \A i \in 1..(Len(queue) - 1) :
             queue'[i] = IF i < x THEN queue[i] ELSE queue[i+1]
    BY <1>0, <2>1, RemoveAtElements
  <2>3. DOMAIN queue' = 1..(Len(queue) - 1) /\ x \in 1..Len(queue)
    <3>1. queue' \in Seq(Requests)
      BY <1>0, <2>1, RemoveAtType
    <3> QED
      BY <1>0, <2>1, <2>2, <3>1, LenProperties
  <2>4. \A k \in 1..Len(queue) : queue[k] \in Requests /\ (queue[k] = r <=> k = x)
    BY <1>0, <2>1, ElementOfSeq DEF QueueIsWaiting
  <2>5. /\ pc'[r] = "idle"
        /\ \A q \in Requests \ {r} : pc'[q] = pc[q]
    BY <1>0, <1>4 DEF Disconnect, Leave
  <2>6. \A q \in Requests : pc'[q] \in {"begin", "query"} =>
          \E k \in DOMAIN queue' : queue'[k] = q
    <3> SUFFICES ASSUME NEW q \in Requests, pc'[q] \in {"begin", "query"}
                 PROVE  \E k \in DOMAIN queue' : queue'[k] = q
      OBVIOUS
    <3>1. q # r /\ pc[q] \in {"begin", "query"}
      BY <2>5
    <3>2. PICK k \in 1..Len(queue) : queue[k] = q
      BY <1>0, <3>1 DEF QueueIsWaiting
    <3>3. CASE k < x
      <4>1. k \in 1..(Len(queue) - 1)
        BY <1>0, <2>3, <3>3
      <4> QED
        BY <2>2, <2>3, <3>2, <3>3, <4>1
    <3>4. CASE ~(k < x)
      <4>1. k - 1 \in 1..(Len(queue) - 1) /\ (k - 1) + 1 = k /\ ~(k - 1 < x)
        BY <1>0, <2>1, <2>3, <3>1, <3>2, <3>4
      <4> QED
        BY <2>2, <2>3, <3>2, <4>1
    <3> QED
      BY <3>3, <3>4
  <2>7. \A i \in 1..(Len(queue) - 1) :
          \E k \in 1..Len(queue) : /\ k # x /\ queue'[i] = queue[k]
                                   /\ k = IF i < x THEN i ELSE i + 1
    BY <1>0, <2>2, <2>3
  <2>8. \A k \in DOMAIN queue' : pc'[queue'[k]] \in {"begin", "query"}
    BY <1>0, <2>3, <2>4, <2>5, <2>7 DEF QueueIsWaiting
  <2>9. \A j, k \in DOMAIN queue' : queue'[j] = queue'[k] => j = k
    <3> SUFFICES ASSUME NEW j \in 1..(Len(queue) - 1), NEW k \in 1..(Len(queue) - 1),
                        queue'[j] = queue'[k]
                 PROVE  j = k
      BY <2>3
    <3>1. PICK a \in 1..Len(queue) : queue'[j] = queue[a] /\ a = IF j < x THEN j ELSE j + 1
      BY <2>7
    <3>2. PICK b \in 1..Len(queue) : queue'[k] = queue[b] /\ b = IF k < x THEN k ELSE k + 1
      BY <2>7
    <3>3. a = b
      <4>1. queue[a] = queue[b] /\ a \in DOMAIN queue /\ b \in DOMAIN queue
        BY <1>0, <3>1, <3>2
      <4> QED
        BY <4>1 DEF QueueIsWaiting
    <3>4. /\ x \in Nat /\ j \in Nat /\ k \in Nat
          /\ a = IF j < x THEN j ELSE j + 1
          /\ a = IF k < x THEN k ELSE k + 1
      BY <1>0, <2>3, <3>1, <3>2, <3>3
    <3> QED
      BY <3>4
  <2> QED
    BY <2>6, <2>8, <2>9 DEF QueueIsWaiting
<1>5. CASE UNCHANGED poolVars
  BY <1>5 DEF poolVars, QueueIsWaiting
<1>6. ASSUME NEW r \in Requests,
             Arrive(r) \/ Release(r) \/ Commit(r) \/ Fail(r)
      PROVE  QueueIsWaiting'
  <2>1. /\ UNCHANGED queue
        /\ \A q \in Requests \ {r} : pc'[q] = pc[q]
        /\ {pc[r], pc'[r]} \intersect {"begin", "query"} = {}
    BY <1>0, <1>6 DEF Arrive, Release, Commit, Fail, Leave
  <2> QED
    BY <1>1, <2>1
<1> QED
  BY <1>2, <1>3, <1>4, <1>5, <1>6 DEF PoolNext, Proceed, BeginTx, Query

(* A connection is only ever granted to a request that still waits for one: *)
(* a disconnect takes exactly its own place out of the queue.              *)
THEOREM QueueHoldsTheWaiting == PoolSpec => []QueueIsWaiting
<1>1. PoolInit => QueueIsWaiting
  BY EmptySeq DEF PoolInit, QueueIsWaiting
<1> QED
  BY <1>1, QueueNext, PoolInvariant, PTL DEF PoolSpec

-----------------------------------------------------------------------------
(* The rate limiter *)

(* An address that is not in the map has a full bucket coming.              *)
UnknownIsFull == \A a \in Addresses : ~Known(a) => budget[a] = Burst

(* A limiter in the map never has more than its address's bucket.           *)
WithinBudget == \A a \in Addresses : Known(a) => tokens[clients[a].limiter] <= budget[a]

(* While nobody is on time any more the bucket refills undisturbed.         *)
RefillsWhenIdle ==
  \A a \in Addresses :
    Known(a) /\ clients[a].idle > Slack =>
      budget[a] = Burst \/ budget[a] >= (clients[a].idle - Slack) * Rate

(* A request that is on time holds the limiter the map has, looked up no    *)
(* earlier than the entry was last seen.                                   *)
OnTimeHoldsCurrent ==
  \A r \in Calls :
    Waiting(r) /\ held[r].age <= Slack =>
      /\ clients[held[r].address] # None
      /\ clients[held[r].address].limiter = held[r].limiter
      /\ clients[held[r].address].idle <= held[r].age

LimiterInv ==
  TypeOK /\ UnknownIsFull /\ WithinBudget /\ RefillsWhenIdle /\ OnTimeHoldsCurrent

(* The numbers are numbers.                                                *)
LEMMA Constants ==
  /\ Rate \in Nat \ {0} /\ Burst \in Nat \ {0} /\ TTL \in Nat /\ Period \in Nat \ {0}
  /\ Slack \in 0..TTL /\ (TTL - Slack) * Rate >= Burst
BY RateAssumption, PeriodAssumption, RefillAssumption

(* Nothing is told from None by its fields.                                *)
LEMMA NoneIsNothing == None \notin Client /\ None \notin Held
<1>1. ASSUME None \in Client PROVE FALSE
  <2>1. DOMAIN None = {"limiter", "idle"}
    BY <1>1 DEF Client
  <2>2. DOMAIN None = {"none"}
    BY DEF None
  <2> QED
    BY <2>1, <2>2
<1>2. ASSUME None \in Held PROVE FALSE
  <2>1. DOMAIN None = {"address", "limiter", "age"}
    BY <1>2 DEF Held
  <2>2. DOMAIN None = {"none"}
    BY DEF None
  <2> QED
    BY <2>1, <2>2
<1> QED
  BY <1>1, <1>2

(* Refilling keeps a level within its bounds and never lowers it.           *)
LEMMA RefilledBounds ==
  ASSUME NEW n \in 0..Burst
  PROVE  /\ Refilled(n) \in 0..Burst /\ Refilled(n) >= n
         /\ Refilled(n) = Burst \/ Refilled(n) = n + Rate
BY Constants DEF Refilled

LEMMA RefilledMonotone ==
  ASSUME NEW m \in 0..Burst, NEW n \in 0..Burst, m <= n
  PROVE  Refilled(m) <= Refilled(n)
BY Constants DEF Refilled

(* Two ticks of idleness are worth one refill more.                        *)
LEMMA OneMoreTick ==
  ASSUME NEW n \in Nat
  PROVE  (n + 1) * Rate = n * Rate + Rate /\ n * Rate \in Nat
BY Constants

(* Longer idle, more refilled.                                             *)
LEMMA PastTimeToLive == (TTL + 1 - Slack) * Rate >= Burst
<1>1. TTL - Slack \in Nat
  BY Constants
<1>2. ((TTL - Slack) + 1) * Rate = (TTL - Slack) * Rate + Rate
  BY <1>1, OneMoreTick
<1>3. (TTL - Slack) + 1 = TTL + 1 - Slack
  BY Constants
<1> QED
  BY <1>1, <1>2, <1>3, OneMoreTick, Constants

LEMMA InitLimiter == Init => LimiterInv
<1> SUFFICES ASSUME Init PROVE LimiterInv
  OBVIOUS
<1>1. TypeOK
  BY Constants DEF Init, TypeOK
<1>2. UnknownIsFull
  BY DEF Init, UnknownIsFull
<1>3. WithinBudget /\ RefillsWhenIdle
  BY DEF Init, WithinBudget, RefillsWhenIdle, Known
<1>4. OnTimeHoldsCurrent
  BY DEF Init, OnTimeHoldsCurrent, Waiting
<1> QED
  BY <1>1, <1>2, <1>3, <1>4 DEF LimiterInv

(* An entry of the map, and what a waiting request holds, have their types. *)
LEMMA EntryTypes ==
  ASSUME TypeOK
  PROVE  /\ \A a \in Addresses : Known(a) =>
              clients[a] \in Client /\ clients[a].limiter \in Limiters
              /\ clients[a].idle \in 0..TTL + 1
         /\ \A r \in Calls : Waiting(r) =>
              held[r] \in Held /\ held[r].address \in Addresses
              /\ held[r].limiter \in Limiters /\ held[r].age \in 0..Slack + 1
BY DEF TypeOK, Known, Waiting, Client, Held

(* A new visitor: its address is unknown, so nobody is on time for it.      *)
LEMMA NewVisitorKeeps ==
  ASSUME LimiterInv, NEW r \in Calls, NEW a \in Addresses, NEW l \in Limiters,
         NewVisitor(r, a, l)
  PROVE  LimiterInv'
<1> USE DEF LimiterInv
<1>1. TypeOK'
  BY Constants DEF TypeOK, NewVisitor, Hold, Client, Held
<1> DEFINE entry == [limiter |-> l, idle |-> 0]
           hold  == [address |-> a, limiter |-> l, age |-> 0]
<1>2. /\ clients' = [clients EXCEPT ![a] = entry] /\ clients \in [Addresses -> Client \union {None}]
      /\ held' = [held EXCEPT ![r] = hold] /\ held \in [Calls -> Held \union {None}]
      /\ tokens' = [tokens EXCEPT ![l] = Burst] /\ tokens \in [Limiters -> 0..Burst]
      /\ budget' = budget /\ clients[a] = None /\ budget[a] = Burst
      /\ \A b \in Addresses : Known(b) => clients[b].limiter # l
  BY DEF NewVisitor, Hold, TypeOK, Known, Free, UnknownIsFull
<1>3. entry \in Client /\ hold \in Held
  BY Constants DEF Client, Held
<1> HIDE DEF entry
<1>4. \A b \in Addresses \ {a} : clients'[b] = clients[b] /\ (Known(b)' <=> Known(b))
  BY <1>2 DEF Known
<1>5. Known(a)' /\ clients'[a].limiter = l /\ clients'[a].idle = 0
  BY <1>2, <1>3, NoneIsNothing DEF Known, entry
<1>6. UnknownIsFull'
  BY <1>2, <1>4, <1>5 DEF UnknownIsFull
<1>7. WithinBudget'
  <2>1. ASSUME NEW b \in Addresses \ {a}, Known(b)' PROVE tokens'[clients'[b].limiter] <= budget'[b]
    BY <2>1, <1>2, <1>4, EntryTypes DEF WithinBudget
  <2>2. tokens'[clients'[a].limiter] <= budget'[a]
    BY <1>2, <1>5, Constants
  <2> QED
    BY <2>1, <2>2 DEF WithinBudget
<1>8. RefillsWhenIdle'
  BY <1>2, <1>4, <1>5, Constants DEF RefillsWhenIdle
<1>9. OnTimeHoldsCurrent'
  <2>1. ASSUME NEW q \in Calls \ {r}, Waiting(q)', held'[q].age <= Slack
        PROVE  /\ clients'[held'[q].address] # None
               /\ clients'[held'[q].address].limiter = held'[q].limiter
               /\ clients'[held'[q].address].idle <= held'[q].age
    <3>1. held'[q] = held[q] /\ Waiting(q)
      BY <1>2, <2>1 DEF Waiting
    <3>2. /\ held[q].address \in Addresses /\ clients[held[q].address] # None
          /\ clients[held[q].address].limiter = held[q].limiter
          /\ clients[held[q].address].idle <= held[q].age
      BY <3>1, <2>1, EntryTypes DEF OnTimeHoldsCurrent
    <3>3. clients'[held[q].address] = clients[held[q].address]
      BY <3>2, <1>2, <1>4
    <3> QED
      BY <3>1, <3>2, <3>3
  <2>2. held'[r].address = a /\ held'[r].limiter = l /\ held'[r].age = 0
    BY <1>2
  <2> QED
    BY <2>1, <2>2, <1>5, Constants DEF OnTimeHoldsCurrent, Known
<1> QED
  BY <1>1, <1>6, <1>7, <1>8, <1>9

(* Looking a known address up again makes its entry younger.               *)
LEMMA GetVisitorKeeps ==
  ASSUME LimiterInv, NEW r \in Calls, NEW a \in Addresses, GetVisitor(r, a)
  PROVE  LimiterInv'
<1> USE DEF LimiterInv
<1>1. clients[a] \in Client /\ clients[a].limiter \in Limiters
  BY EntryTypes DEF GetVisitor
<1> DEFINE hold == [address |-> a, limiter |-> clients[a].limiter, age |-> 0]
<1>2. hold \in Held
  BY <1>1, Constants DEF Held
<1>3. /\ clients' = [clients EXCEPT ![a].idle = 0] /\ clients \in [Addresses -> Client \union {None}]
      /\ held' = [held EXCEPT ![r] = hold] /\ held \in [Calls -> Held \union {None}]
      /\ tokens' = tokens /\ budget' = budget /\ Known(a)
  BY DEF GetVisitor, Hold, TypeOK
<1>4. /\ clients'[a] \in Client /\ clients'[a].limiter = clients[a].limiter
      /\ clients'[a].idle = 0 /\ Known(a)'
  BY <1>1, <1>3, Constants, NoneIsNothing DEF Client, Known
<1>5. \A b \in Addresses \ {a} : clients'[b] = clients[b] /\ (Known(b)' <=> Known(b))
  BY <1>3 DEF Known
<1>6. TypeOK'
  <2>1. clients' \in [Addresses -> Client \union {None}]
    BY <1>3, <1>4, <1>5
  <2>2. held' \in [Calls -> Held \union {None}]
    BY <1>2, <1>3
  <2> QED
    BY <2>1, <2>2, <1>3 DEF TypeOK, GetVisitor
<1>7. UnknownIsFull' /\ WithinBudget'
  BY <1>3, <1>4, <1>5 DEF UnknownIsFull, WithinBudget
<1>8. RefillsWhenIdle'
  BY <1>3, <1>4, <1>5, Constants DEF RefillsWhenIdle
<1>9. OnTimeHoldsCurrent'
  <2>1. ASSUME NEW q \in Calls \ {r}, Waiting(q)', held'[q].age <= Slack
        PROVE  /\ clients'[held'[q].address] # None
               /\ clients'[held'[q].address].limiter = held'[q].limiter
               /\ clients'[held'[q].address].idle <= held'[q].age
    <3>1. held'[q] = held[q] /\ Waiting(q)
      BY <1>3, <2>1 DEF Waiting
    <3>2. held[q].address \in Addresses /\ held[q].age \in 0..Slack + 1
      BY <3>1, EntryTypes
    <3>3. /\ clients[held[q].address] # None
          /\ clients[held[q].address].limiter = held[q].limiter
          /\ clients[held[q].address].idle <= held[q].age
      BY <3>1, <2>1 DEF OnTimeHoldsCurrent
    <3>4. CASE held[q].address = a
      BY <3>1, <3>2, <3>3, <3>4, <1>4 DEF Known
    <3>5. CASE held[q].address # a
      BY <3>1, <3>2, <3>3, <3>5, <1>5
    <3> QED
      BY <3>4, <3>5
  <2>2. held'[r].address = a /\ held'[r].limiter = clients[a].limiter /\ held'[r].age = 0
    BY <1>3
  <2> QED
    BY <2>1, <2>2, <1>4, Constants DEF OnTimeHoldsCurrent, Known
<1> QED
  BY <1>6, <1>7, <1>8, <1>9

(* A request on time finds a token only if its address's bucket has one.    *)
LEMMA AllowWithinBudget ==
  ASSUME LimiterInv, NEW r \in Calls, Waiting(r), held[r].age <= Slack,
         tokens[held[r].limiter] >= 1
  PROVE  budget[held[r].address] >= 1
<1>1. held[r].address \in Addresses /\ held[r].limiter \in Limiters
  BY EntryTypes DEF LimiterInv
<1>2. Known(held[r].address) /\ clients[held[r].address].limiter = held[r].limiter
  BY DEF LimiterInv, OnTimeHoldsCurrent, Known
<1>3. tokens[held[r].limiter] <= budget[held[r].address]
  BY <1>1, <1>2 DEF LimiterInv, WithinBudget
<1> QED
  BY <1>1, <1>3 DEF LimiterInv, TypeOK

LEMMA AllowKeeps ==
  ASSUME LimiterInv, NEW r \in Calls, Allow(r)
  PROVE  LimiterInv'
<1> USE DEF LimiterInv
<1> DEFINE l == held[r].limiter
           a == held[r].address
           charged == tokens[l] >= 1 /\ held[r].age <= Slack
<1>1. /\ Waiting(r) /\ a \in Addresses /\ l \in Limiters /\ held[r].age \in 0..Slack + 1
  BY EntryTypes DEF Allow
<1>2. /\ clients' = clients /\ held' = [held EXCEPT ![r] = None]
      /\ tokens' = IF tokens[l] >= 1 THEN [tokens EXCEPT ![l] = @ - 1] ELSE tokens
      /\ budget' = IF charged THEN [budget EXCEPT ![a] = @ - 1] ELSE budget
      /\ ticker' = ticker /\ loop' = loop
  BY DEF Allow
<1>3. charged => budget[a] >= 1 /\ Known(a) /\ clients[a].limiter = l /\ clients[a].idle <= Slack
  <2> SUFFICES ASSUME charged
               PROVE  budget[a] >= 1 /\ Known(a) /\ clients[a].limiter = l /\ clients[a].idle <= Slack
    OBVIOUS
  <2>1. clients[a] # None /\ clients[a].limiter = l /\ clients[a].idle <= held[r].age
    BY <1>1 DEF OnTimeHoldsCurrent
  <2>2. clients[a].idle \in 0..TTL + 1
    BY <2>1, <1>1, EntryTypes DEF Known
  <2> QED
    BY <2>1, <2>2, <1>1, AllowWithinBudget, Constants DEF Known
<1>4. tokens \in [Limiters -> 0..Burst] /\ budget \in [Addresses -> 0..Burst]
  BY DEF TypeOK
<1> HIDE DEF l, a, charged
<1>5. tokens' \in [Limiters -> 0..Burst] /\ budget' \in [Addresses -> 0..Burst]
  BY <1>1, <1>2, <1>3, <1>4, Constants
<1>6. TypeOK'
  BY <1>2, <1>5 DEF TypeOK
<1>7. \A b \in Addresses : (Known(b)' <=> Known(b)) /\ clients'[b] = clients[b]
  BY <1>2 DEF Known
<1>8. \A b \in Addresses : b # a \/ ~charged => budget'[b] = budget[b]
  BY <1>2, <1>4
<1>9. UnknownIsFull'
  BY <1>3, <1>7, <1>8 DEF UnknownIsFull
<1>10. WithinBudget'
  <2> SUFFICES ASSUME NEW b \in Addresses, Known(b)
               PROVE  tokens'[clients[b].limiter] <= budget'[b]
    BY <1>7 DEF WithinBudget
  <2>1. clients[b].limiter \in Limiters /\ tokens[clients[b].limiter] <= budget[b]
    BY EntryTypes DEF WithinBudget
  <2>2. tokens'[clients[b].limiter] <= tokens[clients[b].limiter]
    BY <1>1, <1>2, <1>4, <2>1
  <2>3. CASE b = a /\ charged
    <3>1. tokens'[l] = tokens[l] - 1 /\ budget'[a] = budget[a] - 1
      BY <1>1, <1>2, <1>4, <2>3 DEF charged
    <3> QED
      BY <3>1, <2>1, <2>3, <1>1, <1>3, <1>4
  <2>4. CASE ~(b = a /\ charged)
    BY <2>1, <2>2, <2>4, <1>4, <1>5, <1>8
  <2> QED
    BY <2>3, <2>4
<1>11. RefillsWhenIdle'
  <2> SUFFICES ASSUME NEW b \in Addresses, Known(b), clients[b].idle > Slack
               PROVE  budget'[b] = budget[b]
    BY <1>7 DEF RefillsWhenIdle
  <2>1. clients[b].idle \in 0..TTL + 1
    BY EntryTypes
  <2> QED
    BY <2>1, <1>3, <1>8, Constants
<1>12. OnTimeHoldsCurrent'
  <2> SUFFICES ASSUME NEW q \in Calls, Waiting(q)'
               PROVE  Waiting(q) /\ held'[q] = held[q]
    BY <1>7, EntryTypes DEF OnTimeHoldsCurrent
  <2> QED
    BY <1>2 DEF Waiting, TypeOK
<1> QED
  BY <1>6, <1>9, <1>10, <1>11, <1>12

(* Evicted after its time to live, an address's bucket is full.             *)
LEMMA CleanupKeeps ==
  ASSUME LimiterInv, Cleanup
  PROVE  LimiterInv'
<1> USE DEF LimiterInv
<1>1. /\ clients \in [Addresses -> Client \union {None}]
      /\ clients' = [a \in Addresses |->
           IF Known(a) /\ clients[a].idle > TTL THEN None ELSE clients[a]]
      /\ tokens' = tokens /\ held' = held /\ loop' = loop /\ budget' = budget /\ ticker' = 0
  BY DEF Cleanup, TypeOK
<1>2. TypeOK'
  BY <1>1, Constants DEF TypeOK
<1>3. \A a \in Addresses : Known(a)' =>
        Known(a) /\ clients'[a] = clients[a]
  BY <1>1 DEF Known
<1>4. UnknownIsFull'
  <2> SUFFICES ASSUME NEW a \in Addresses, Known(a), clients[a].idle > TTL
               PROVE  budget[a] = Burst
    BY <1>1 DEF UnknownIsFull, Known
  <2>1. clients[a].idle = TTL + 1 /\ budget[a] \in 0..Burst
    BY EntryTypes, Constants DEF TypeOK
  <2>2. budget[a] = Burst \/ budget[a] >= (TTL + 1 - Slack) * Rate
    BY <2>1, Constants DEF RefillsWhenIdle
  <2>3. (TTL + 1 - Slack) * Rate \in Int
    BY Constants
  <2> QED
    BY <2>1, <2>2, <2>3, PastTimeToLive, Constants
<1>5. WithinBudget' /\ RefillsWhenIdle'
  BY <1>1, <1>3 DEF WithinBudget, RefillsWhenIdle
<1>6. OnTimeHoldsCurrent'
  <2> SUFFICES ASSUME NEW r \in Calls, Waiting(r), held[r].age <= Slack
               PROVE  /\ clients'[held[r].address] # None
                      /\ clients'[held[r].address].limiter = held[r].limiter
                      /\ clients'[held[r].address].idle <= held[r].age
    BY <1>1 DEF OnTimeHoldsCurrent, Waiting
  <2>1. /\ clients[held[r].address] # None
        /\ clients[held[r].address].limiter = held[r].limiter
        /\ clients[held[r].address].idle <= held[r].age
    BY DEF OnTimeHoldsCurrent
  <2>2. held[r].address \in Addresses /\ held[r].age \in 0..Slack + 1
        /\ clients[held[r].address].idle \in 0..TTL + 1
    BY <2>1, EntryTypes DEF Known
  <2>3. ~(clients[held[r].address].idle > TTL)
    BY <2>1, <2>2, Constants
  <2> QED
    BY <1>1, <2>1, <2>2, <2>3
<1> QED
  BY <1>2, <1>4, <1>5, <1>6

(* A tick refills the bucket by as much as idleness counts for.             *)
LEMMA TickKeeps ==
  ASSUME LimiterInv, Tick
  PROVE  LimiterInv'
<1> USE DEF LimiterInv
<1>1. /\ tokens \in [Limiters -> 0..Burst] /\ budget \in [Addresses -> 0..Burst]
      /\ clients \in [Addresses -> Client \union {None}] /\ held \in [Calls -> Held \union {None}]
  BY DEF TypeOK
<1>2. /\ tokens' = [l \in Limiters |-> Refilled(tokens[l])]
      /\ budget' = [a \in Addresses |-> Refilled(budget[a])]
  BY DEF Tick
<1>3. ASSUME NEW a \in Addresses, Known(a)
      PROVE  /\ clients'[a] \in Client /\ Known(a)'
             /\ clients'[a].limiter = clients[a].limiter
             /\ clients'[a].idle = Aged(clients[a].idle, TTL)
  <2>1. clients[a] \in Client
    BY <1>3, EntryTypes
  <2>2. clients'[a] = [clients[a] EXCEPT !.idle = Aged(@, TTL)]
    BY <1>3 DEF Tick
  <2>3. Aged(clients[a].idle, TTL) \in 0..TTL + 1
    BY <2>1, Constants DEF Client, Aged
  <2>4. clients'[a] \in Client
    BY <2>1, <2>2, <2>3 DEF Client
  <2> QED
    BY <2>1, <2>2, <2>4, NoneIsNothing DEF Client, Known
<1>4. ASSUME NEW r \in Calls, Waiting(r)
      PROVE  /\ held'[r] \in Held
             /\ held'[r].address = held[r].address /\ held'[r].limiter = held[r].limiter
             /\ held'[r].age = Aged(held[r].age, Slack)
  <2>1. held[r] \in Held
    BY <1>4, EntryTypes
  <2>2. held'[r] = [held[r] EXCEPT !.age = Aged(@, Slack)]
    BY <1>4 DEF Tick
  <2>3. Aged(held[r].age, Slack) \in 0..Slack + 1
    BY <2>1, Constants DEF Held, Aged
  <2> QED
    BY <2>1, <2>2, <2>3 DEF Held
<1>5. \A a \in Addresses : ~Known(a) => clients'[a] = None
  BY DEF Tick
<1>6. \A r \in Calls : ~Waiting(r) => held'[r] = None
  BY DEF Tick
<1>7. TypeOK'
  <2>1. tokens' \in [Limiters -> 0..Burst] /\ budget' \in [Addresses -> 0..Burst]
    BY <1>1, <1>2, RefilledBounds
  <2>2. clients' \in [Addresses -> Client \union {None}]
    <3>1. \A a \in Addresses : clients'[a] \in Client \union {None}
      BY <1>3, <1>5
    <3> QED
      BY <3>1 DEF Tick
  <2>3. held' \in [Calls -> Held \union {None}]
    <3>1. \A r \in Calls : held'[r] \in Held \union {None}
      BY <1>4, <1>6
    <3> QED
      BY <3>1 DEF Tick
  <2>4. ticker' \in 0..Period /\ loop' = loop
    BY Constants DEF Tick, TypeOK
  <2> QED
    BY <2>1, <2>2, <2>3, <2>4 DEF TypeOK
<1>8. UnknownIsFull'
  <2> SUFFICES ASSUME NEW a \in Addresses, ~Known(a)
               PROVE  budget'[a] = Burst
    BY <1>3 DEF UnknownIsFull
  <2>1. budget[a] = Burst
    BY DEF UnknownIsFull
  <2> QED
    BY <2>1, <1>2, Constants DEF Refilled
<1>9. WithinBudget'
  <2> SUFFICES ASSUME NEW a \in Addresses, Known(a)
               PROVE  tokens'[clients[a].limiter] <= budget'[a]
    BY <1>3, <1>5 DEF WithinBudget, Known
  <2>1. clients[a].limiter \in Limiters /\ tokens[clients[a].limiter] <= budget[a]
    BY EntryTypes DEF WithinBudget
  <2> QED
    BY <2>1, <1>1, <1>2, RefilledMonotone
<1>10. RefillsWhenIdle'
  <2> SUFFICES ASSUME NEW a \in Addresses, Known(a), Aged(clients[a].idle, TTL) > Slack
               PROVE  \/ budget'[a] = Burst
                      \/ budget'[a] >= (Aged(clients[a].idle, TTL) - Slack) * Rate
    BY <1>3, <1>5 DEF RefillsWhenIdle, Known
  <2>1. clients[a].idle \in 0..TTL + 1 /\ budget[a] \in 0..Burst
    BY EntryTypes, <1>1
  <2>2. budget'[a] = Burst \/ budget'[a] = budget[a] + Rate
    BY <2>1, <1>2, RefilledBounds
  <2>3. budget'[a] \in 0..Burst /\ budget'[a] >= budget[a]
    BY <2>1, <1>2, RefilledBounds
  <2>4. CASE clients[a].idle > TTL
    <3>1. Aged(clients[a].idle, TTL) = clients[a].idle /\ clients[a].idle > Slack
      BY <2>1, <2>4, Constants DEF Aged
    <3>2. budget[a] = Burst \/ budget[a] >= (clients[a].idle - Slack) * Rate
      BY <3>1 DEF RefillsWhenIdle
    <3>3. (clients[a].idle - Slack) * Rate \in Int
      BY <2>1, Constants
    <3> QED
      BY <3>1, <3>2, <3>3, <2>1, <2>3, Constants
  <2>5. CASE ~(clients[a].idle > TTL)
    <3> DEFINE n == clients[a].idle - Slack
    <3>1. Aged(clients[a].idle, TTL) - Slack = n + 1 /\ n \in Int /\ n >= 0
      BY <2>1, <2>5, Constants DEF Aged
    <3>2. n = 0 \/ budget[a] = Burst \/ budget[a] >= n * Rate
      BY <3>1, <2>1, Constants DEF RefillsWhenIdle
    <3>3. (n + 1) * Rate = n * Rate + Rate /\ n * Rate \in Nat
      BY <3>1, OneMoreTick
    <3>4. n = 0 => n * Rate = 0
      BY Constants
    <3> HIDE DEF n
    <3> QED
      BY <3>1, <3>2, <3>3, <3>4, <2>1, <2>2, <2>3, Constants
  <2> QED
    BY <2>4, <2>5
<1>11. OnTimeHoldsCurrent'
  <2> SUFFICES ASSUME NEW r \in Calls, Waiting(r), Aged(held[r].age, Slack) <= Slack
               PROVE  /\ clients'[held[r].address] # None
                      /\ clients'[held[r].address].limiter = held[r].limiter
                      /\ clients'[held[r].address].idle <= Aged(held[r].age, Slack)
    BY <1>4, <1>6 DEF OnTimeHoldsCurrent, Waiting
  <2>1. held[r].address \in Addresses /\ held[r].age \in 0..Slack + 1
    BY EntryTypes
  <2>2. held[r].age <= Slack /\ Aged(held[r].age, Slack) = held[r].age + 1
    BY <2>1, Constants DEF Aged
  <2>3. /\ Known(held[r].address) /\ clients[held[r].address].limiter = held[r].limiter
        /\ clients[held[r].address].idle <= held[r].age
    BY <2>2 DEF OnTimeHoldsCurrent, Known
  <2>4. clients[held[r].address].idle \in 0..TTL + 1
    BY <2>1, <2>3, EntryTypes
  <2>5. /\ clients'[held[r].address] # None
        /\ clients'[held[r].address].limiter = held[r].limiter
        /\ clients'[held[r].address].idle = Aged(clients[held[r].address].idle, TTL)
    <3> DEFINE b == held[r].address
    <3>1. b \in Addresses /\ Known(b)
      BY <2>1, <2>3
    <3>2. clients'[b] # None /\ clients'[b].limiter = clients[b].limiter
          /\ clients'[b].idle = Aged(clients[b].idle, TTL)
      <4> HIDE DEF b
      <4> QED
        BY <3>1, <1>3 DEF Known
    <3> QED
      BY <3>2, <2>3
  <2>6. Aged(clients[held[r].address].idle, TTL) <= held[r].age + 1
    BY <2>1, <2>3, <2>4, Constants DEF Aged
  <2> QED
    BY <2>2, <2>5, <2>6
<1> QED
  BY <1>7, <1>8, <1>9, <1>10, <1>11

(* What leaves limiters, clients, requests and buckets alone keeps the      *)
(* invariant.                                                              *)
LEMMA StandsKeeps ==
  ASSUME LimiterInv, UNCHANGED <<tokens, clients, held, ticker, budget>>,
         loop' \in {"running", "cancelled", "stopped"}
  PROVE  LimiterInv'
<1> USE DEF LimiterInv
<1>1. TypeOK'
  BY DEF TypeOK
<1>2. UnknownIsFull'
  BY DEF UnknownIsFull, Known
<1>3. WithinBudget'
  BY DEF WithinBudget, Known
<1>4. RefillsWhenIdle'
  BY DEF RefillsWhenIdle, Known
<1>5. OnTimeHoldsCurrent'
  BY DEF OnTimeHoldsCurrent, Known, Waiting
<1> QED
  BY <1>1, <1>2, <1>3, <1>4, <1>5

(* Every step keeps the invariant.                                         *)
LEMMA StepKeeps == LimiterInv /\ [Next]_vars => LimiterInv'
<1> SUFFICES ASSUME LimiterInv, [Next]_vars PROVE LimiterInv'
  OBVIOUS
<1>1. CASE \E r \in Calls, a \in Addresses :
             GetVisitor(r, a) \/ \E l \in Limiters : NewVisitor(r, a, l)
  BY <1>1, GetVisitorKeeps, NewVisitorKeeps
<1>2. CASE \E r \in Calls : Allow(r)
  BY <1>2, AllowKeeps
<1>3. CASE Cleanup
  BY <1>3, CleanupKeeps
<1>4. CASE Tick
  BY <1>4, TickKeeps
<1>5. CASE Shutdown \/ StopLoop
  <2>1. UNCHANGED <<tokens, clients, held, ticker, budget>>
    BY <1>5 DEF Shutdown, StopLoop
  <2>2. loop' \in {"running", "cancelled", "stopped"}
    BY <1>5 DEF Shutdown, StopLoop
  <2> QED
    BY <2>1, <2>2, StandsKeeps
<1>6. CASE UNCHANGED vars
  <2>1. UNCHANGED <<tokens, clients, held, ticker, budget>>
    BY <1>6 DEF vars
  <2>2. loop' \in {"running", "cancelled", "stopped"}
    BY <1>6 DEF vars, LimiterInv, TypeOK
  <2> QED
    BY <2>1, <2>2, StandsKeeps
<1> QED
  BY <1>1, <1>2, <1>3, <1>4, <1>5, <1>6 DEF Next

(* Type correctness: no limiter and no bucket holds less than nothing or    *)
(* more than Burst, and ages stay within what they are counted to.          *)
THEOREM LimiterInvariant == Spec => []TypeOK
<1>1. Spec => []LimiterInv
  BY InitLimiter, StepKeeps, PTL DEF Spec
<1>2. LimiterInv => TypeOK
  BY DEF LimiterInv
<1> QED
  BY <1>1, <1>2, PTL

(* A step of the limiter is one of the buckets, or none.                    *)
LEMMA StepRefines == LimiterInv /\ [Next]_vars => [Bucket!Next]_budget
<1> SUFFICES ASSUME LimiterInv, [Next]_vars PROVE [Bucket!Next]_budget
  OBVIOUS
<1>1. ASSUME NEW r \in Calls, Allow(r) PROVE [Bucket!Next]_budget
  <2>1. Waiting(r) /\ held[r].address \in Addresses
    BY <1>1, EntryTypes DEF Allow, LimiterInv
  <2>2. CASE tokens[held[r].limiter] >= 1 /\ held[r].age <= Slack
    <3>1. budget[held[r].address] >= 1
      BY <2>1, <2>2, AllowWithinBudget
    <3>2. Bucket!Admit(held[r].address)
      BY <1>1, <2>2, <3>1 DEF Allow, Bucket!Admit
    <3> QED
      BY <2>1, <3>2 DEF Bucket!Next
  <2>3. CASE ~(tokens[held[r].limiter] >= 1 /\ held[r].age <= Slack)
    BY <1>1, <2>3 DEF Allow
  <2> QED
    BY <2>2, <2>3
<1>2. CASE Tick
  BY <1>2 DEF Tick, Bucket!Tick, Bucket!Next, Refilled, Bucket!Refilled
<1>3. CASE \E r \in Calls, a \in Addresses :
             GetVisitor(r, a) \/ \E l \in Limiters : NewVisitor(r, a, l)
  BY <1>3 DEF GetVisitor, NewVisitor
<1>4. CASE Cleanup \/ Shutdown \/ StopLoop \/ UNCHANGED vars
  BY <1>4 DEF Cleanup, Shutdown, StopLoop, vars
<1> QED
  BY <1>1, <1>2, <1>3, <1>4 DEF Next

(* For any addresses, requests, delays and rates, the limiter with its map  *)
(* and its evictions implements one token bucket per address.               *)
THEOREM LimiterImplementsBucket == Spec => ImplementsBucket
<1>1. Init => Bucket!Init
  BY DEF Init, Bucket!Init
<1>2. LimiterInv /\ [Next]_vars => [Bucket!Next]_budget
  BY StepRefines
<1> QED
  BY <1>1, <1>2, InitLimiter, StepKeeps, PTL DEF Spec, ImplementsBucket, Bucket!Spec
=============================================================================
