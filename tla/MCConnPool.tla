----------------------------- MODULE MCConnPool -----------------------------
(* As many requests through Do as the pool has connections, two, and two    *)
(* plain ones beside them.                                                 *)
EXTENDS ConnPool

CONSTANTS d1, d2, p1, p2

MCRequests == {d1, d2, p1, p2}
MCTransactional == {d1, d2}
=============================================================================
