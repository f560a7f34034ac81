--------------------------- MODULE MCFileProvider ---------------------------
(* Small instances of FileProvider for TLC. *)
EXTENDS FileProvider

CONSTANTS k1, b

\* b is a string k1's DcValue cannot decode; k2's can.
MCMalformed == {<<k1, b>>}
NoneMalformed == {}

=============================================================================
