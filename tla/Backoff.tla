------------------------------ MODULE Backoff ------------------------------
(***************************************************************************)
(* provider/backoff.go: how long a provider waits before it reconnects, in *)
(* milliseconds.                                                           *)
(***************************************************************************)
EXTENDS Naturals

BackoffBase == 500
BackoffMax == 30000

\* Doubled once per attempt; the loop returns as soon as the cap is reached.
delay[n \in Nat] ==
    IF n = 0 THEN BackoffBase
    ELSE IF 2 * delay[n - 1] >= BackoffMax THEN BackoffMax ELSE 2 * delay[n - 1]

Backoff(attempt) == delay[attempt]

=============================================================================
