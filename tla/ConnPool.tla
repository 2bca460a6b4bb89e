------------------------------ MODULE ConnPool ------------------------------
(***************************************************************************)
(* The connection pool under TransactionManager.Do.  Every statement of a  *)
(* repository takes a connection from the pool and gives it back.  A       *)
(* request inside Do keeps a second one: Begin took it, and the statements *)
(* of the callback never use it.  Waiters are served in arrival order, as  *)
(* pgxpool does; only the client's disconnect cancels a wait, since        *)
(* neither the server nor the handlers set a deadline.                     *)
(***************************************************************************)
EXTENDS Integers, Sequences, FiniteSets, SequencesExt

CONSTANTS
  Requests,
  Transactional,   \* the requests that go through Do
  MaxConns,        \* DB_MAX_CONNS
  MaxStatements    \* bound: statements of one request

ASSUME PoolAssumption ==
  /\ IsFiniteSet(Requests) /\ Transactional \subseteq Requests
  /\ MaxConns \in Nat \ {0} /\ MaxStatements \in Nat \ {0}

VARIABLES
  pc,      \* request -> idle, ready, begin or query (waiting), running
  left,    \* request -> statements it has still to run
  queue,   \* the waiting requests, first come first served
  inTx     \* the requests whose Do holds a connection

poolVars == <<pc, left, queue, inTx>>

States == {"idle", "ready", "begin", "query", "running"}

Running == {r \in Requests : pc[r] = "running"}
InUse == Cardinality(Running) + Cardinality(inTx)

-----------------------------------------------------------------------------
Arrive(r) ==
  /\ pc[r] = "idle"
  /\ pc' = [pc EXCEPT ![r] = "ready"]
  /\ \E n \in 1..MaxStatements : left' = [left EXCEPT ![r] = n]
  /\ UNCHANGED <<queue, inTx>>

Wait(r, for) ==
  /\ pc[r] = "ready" /\ left[r] > 0
  /\ pc' = [pc EXCEPT ![r] = for]
  /\ queue' = Append(queue, r)
  /\ UNCHANGED <<left, inTx>>

(* Mutant: a handler inside Do calls a usecase that begins one of its own.  *)
BeginTxNested(r) == r \in Transactional /\ Wait(r, "begin")

(* db.Begin of Do: until then its reads are statements like any other.      *)
BeginTx(r) == r \in Transactional \ inTx /\ Wait(r, "begin")

(* A repository's statement: its own connection, inside Do or not.         *)
Query(r) == Wait(r, "query")

Acquire ==
  /\ queue # <<>> /\ InUse < MaxConns
  /\ LET r == Head(queue)
     IN  \/ /\ pc[r] = "begin"
            /\ pc' = [pc EXCEPT ![r] = "ready"]
            /\ inTx' = inTx \union {r}
         \/ /\ pc[r] = "query"
            /\ pc' = [pc EXCEPT ![r] = "running"]
            /\ UNCHANGED inTx
  /\ queue' = Tail(queue)
  /\ UNCHANGED left

Release(r) ==
  /\ pc[r] = "running"
  /\ pc' = [pc EXCEPT ![r] = "ready"]
  /\ left' = [left EXCEPT ![r] = @ - 1]
  /\ UNCHANGED <<queue, inTx>>

(* The request leaves; Do commits or rolls back, which frees its connection. *)
Leave(r) ==
  /\ pc' = [pc EXCEPT ![r] = "idle"]
  /\ left' = [left EXCEPT ![r] = 0]
  /\ inTx' = inTx \ {r}

Commit(r) ==
  /\ pc[r] = "ready" /\ left[r] = 0
  /\ Leave(r)
  /\ UNCHANGED queue

(* Mutant: Do returns the callback's error without tx.Rollback.            *)
FailWithoutRollback(r) ==
  /\ pc[r] = "running"
  /\ pc' = [pc EXCEPT ![r] = "idle"]
  /\ left' = [left EXCEPT ![r] = 0]
  /\ UNCHANGED <<queue, inTx>>

(* A statement fails: its connection returns, and Do rolls back.           *)
Fail(r) ==
  /\ pc[r] = "running"
  /\ Leave(r)
  /\ UNCHANGED queue

(* Mutant: the cancelled waiter keeps its place in the queue.              *)
DisconnectKeepsPlace(r) ==
  /\ pc[r] \in {"begin", "query"}
  /\ Leave(r)
  /\ UNCHANGED queue

(* The client disconnects, which cancels the wait for a connection.        *)
Disconnect(r) ==
  /\ pc[r] \in {"begin", "query"}
  /\ Leave(r)
  /\ \E k \in DOMAIN queue : queue[k] = r /\ queue' = RemoveAt(queue, k)

PoolInit ==
  /\ pc = [r \in Requests |-> "idle"]
  /\ left = [r \in Requests |-> 0]
  /\ queue = <<>>
  /\ inTx = {}

Proceed(r) == BeginTx(r) \/ Query(r) \/ Release(r) \/ Commit(r) \/ Fail(r)

PoolNext ==
  \/ Acquire
  \/ \E r \in Requests : Arrive(r) \/ Proceed(r) \/ Disconnect(r)

(* Goroutines run and statements return; clients need not arrive or leave. *)
PoolSpec == PoolInit /\ [][PoolNext]_poolVars /\ WF_poolVars(Acquire)
             /\ \A r \in Requests : WF_poolVars(Proceed(r))

-----------------------------------------------------------------------------
(* Properties *)

PoolTypeOK ==
  /\ pc \in [Requests -> States]
  /\ left \in [Requests -> 0..MaxStatements]
  /\ queue \in Seq(Requests)
  /\ inTx \subseteq Transactional

(* Nobody who has a connection will give it back without getting another.   *)
Stuck ==
  /\ queue # <<>> /\ InUse >= MaxConns
  /\ \A r \in Requests : pc[r] \notin {"ready", "running"}

(* Requests inside Do, each waiting for its second connection, hold all.    *)
Wedged == Cardinality({r \in inTx : pc[r] = "query"}) >= MaxConns

(* The pool comes to a stop in no other way than by as many requests inside *)
(* Do as there are connections: plain requests, errors and clients that     *)
(* leave never block it, and fewer requests inside Do cannot.              *)
StuckOnlyInDo == Stuck => Wedged

(* The queue holds each waiting request once, and nobody else, so no        *)
(* connection is granted to a request that has left.                       *)
QueueIsWaiting ==
  /\ \A r \in Requests : pc[r] \in {"begin", "query"} =>
                           \E k \in DOMAIN queue : queue[k] = r
  /\ \A k \in DOMAIN queue : pc[queue[k]] \in {"begin", "query"}
  /\ \A j, k \in DOMAIN queue : queue[j] = queue[k] => j = k

(* A request that has left, whichever way, holds no connection.            *)
ConnectionsReturned == \A r \in inTx : pc[r] # "idle"

(* Every request is answered, with success or an error, unless the pool is  *)
(* wedged again and again or for good, which the code does not prevent: a   *)
(* wedge that a client's disconnect resolves delays the others, no more.    *)
EveryRequestAnswered ==
  <>[](~Wedged) => \A r \in Requests : pc[r] # "idle" ~> pc[r] = "idle"

(* "Helper to get queries with transaction if available": inside Do the     *)
(* statements use the connection of the transaction, so one request holds   *)
(* one connection.                                                         *)
OneConnectionEach == inTx \intersect Running = {}
=============================================================================
