--------------------------- MODULE MCEtcdProvider ---------------------------
(* Small instances of EtcdProvider for TLC. *)
EXTENDS EtcdProvider

CONSTANTS k1, b

\* b is a string k1's DcValue cannot decode; k2's can.
MCMalformed == {<<k1, b>>}

=============================================================================
