---------------------------- MODULE SyncContract ----------------------------
(***************************************************************************)
(* What a provider and the SDK promise together, with nothing of how:      *)
(* the value behind every registered key follows the history of that key   *)
(* in the backend.  Every Watch call is a source of reports.  A source may *)
(* skip states of the history, and it may lag behind the others, but no    *)
(* source goes back to an older state than one it has reported, and no     *)
(* value is shown that the backend did not hold for the key.  To the last  *)
(* of these there are exceptions, the members of Misreads: what a source   *)
(* is known to report where it failed to find out.                         *)
(*                                                                         *)
(* Each provider module shows, by a refinement mapping, that it implements *)
(* this specification.                                                     *)
(***************************************************************************)
EXTENDS Naturals, Sequences, DcEntry

CONSTANTS
    Source,    \* the Watch calls, one per SDK.Start
    Misreads   \* strings a source may report that the backend does not hold

VARIABLES
    log,    \* the states the backend has been in, oldest first
    seen,   \* seen[s][k]: the position in log of s's latest report about k
    view    \* view[k]: what Get returns

vars == <<log, seen, view>>

TypeOK ==
    /\ log \in Seq(Contents)
    /\ log # << >>
    /\ seen \in [Source -> [Key -> 0 .. Len(log)]]
    /\ view \in [Key -> Val]

Init ==
    /\ \E c \in Contents : log = <<c>>
    /\ seen = [s \in Source |-> [k \in Key |-> 0]]
    /\ view = [k \in Key |-> Default]

\* Somebody changes the backend, one key or several in one transaction.
Publish ==
    /\ \E c \in Contents : log' = Append(log, c)
    /\ UNCHANGED <<seen, view>>

\* Source s reports position i of the history of key k.
Sync(s, k, i) ==
    /\ i >= seen[s][k]
    /\ seen' = [seen EXCEPT ![s][k] = i]
    /\ view' = [view EXCEPT ![k] = Applied(k, @, log[i][k])]
    /\ UNCHANGED log

\* A report that tells nothing of the history.
Misread(k) ==
    /\ \E c \in Misreads : view' = [view EXCEPT ![k] = Applied(k, @, c)]
    /\ UNCHANGED <<log, seen>>

Next ==
    \/ Publish
    \/ \E s \in Source : \E k \in Key : \E i \in 1 .. Len(log) : Sync(s, k, i)
    \/ \E k \in Key : Misread(k)

Spec == Init /\ [][Next]_vars

=============================================================================
