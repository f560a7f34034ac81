----------------------------- MODULE MCPoyaSDK -----------------------------
(* Small instances of PoyaSDK for TLC. *)
EXTENDS PoyaSDK, TLC

CONSTANTS d1, d2, k1, r1

\* d2 cannot decode r1 (say d1 is a string and d2 an int).
MCMalformed == {<<d2, r1>>}

\* A struct whose two fields have the same key: the second takes it over.
CollidingConfig == {d1 :> k1 @@ d2 :> k1}

=============================================================================
