---------------------------- MODULE MCQueryCache ----------------------------
(* QueryCache for TLC: three workers and two cache keys.                  *)
EXTENDS QueryCache
=============================================================================
