--------------------------- MODULE MCPollProvider ---------------------------
(* Small instances of PollProvider for TLC. *)
EXTENDS PollProvider

CONSTANTS k1, b

\* b is a string k1's DcValue cannot decode.
MCMalformed == {<<k1, b>>}

=============================================================================
