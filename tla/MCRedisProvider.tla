-------------------------- MODULE MCRedisProvider --------------------------
(* Small instances of RedisProvider for TLC. *)
EXTENDS RedisProvider

CONSTANT k1

\* k1's DcValue is a number, say, and does not decode the empty string; the
\* other key's is a string and does.
MCMalformed == {<<k1, Empty>>}

=============================================================================
