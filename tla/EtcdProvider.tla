---------------------------- MODULE EtcdProvider ----------------------------
(***************************************************************************)
(* The etcd provider.  Watch reads every key below the prefix, reports     *)
(* what it found, and opens a watch from the revision after the one it     *)
(* read; when the watch breaks it backs off and does all of it again.      *)
(*                                                                         *)
(* The backend is its list of revisions.  etcd delivers the events of one  *)
(* watch in order and without gaps, until the watch ends.  Key is the set  *)
(* of registered keys below the watched prefix (KeyPaths says which those  *)
(* are); the SDK ignores events about others.                              *)
(***************************************************************************)
EXTENDS Naturals, Sequences, DcEntry, Backoff

CONSTANTS
    MaxWrites,   \* bound: changes of the backend
    MaxDrops,    \* bound: watches that break (closed channel, compaction)
    MaxAttempt   \* bound: attempts are counted up to the one that first
                 \* waits BackoffMax, as all later ones do

ASSUME EtcdAssumption ==
    /\ MaxWrites \in Nat
    /\ MaxDrops \in Nat
    /\ MaxAttempt \in Nat
    /\ Backoff(MaxAttempt) = BackoffMax

VARIABLES
    log,        \* log[i]: what etcd held at revision i
    view,       \* view[k]: what Get returns for the DcValue behind k
    seen,       \* history: the revision view[k] last took account of
    cancelled,  \* the context is done
    pc,         \* "read", "load", "watch", "apply", "backoff", "returned"
    rev,        \* revision of the read, then of the last event received
    todo,       \* keys of that read or event batch not reported yet
    attempt,    \* the reconnect counter
    wait,       \* history: how long the latest SleepBackoff since the last good
                \* read waits
    drops       \* how many watches have broken

vars == <<log, view, seen, cancelled, pc, rev, todo, attempt, wait, drops>>

TypeOK ==
    /\ log \in Seq(Contents)
    /\ Len(log) \in 1 .. MaxWrites + 1
    /\ view \in [Key -> Val]
    /\ seen \in [Key -> 0 .. Len(log)]
    /\ cancelled \in BOOLEAN
    /\ pc \in {"read", "load", "watch", "apply", "backoff", "returned"}
    /\ rev \in 0 .. Len(log)
    /\ todo \subseteq Key
    /\ pc \notin {"load", "apply"} => todo = {}
    /\ attempt \in 0 .. MaxAttempt
    /\ wait \in {0} \cup BackoffBase .. BackoffMax
    /\ drops \in 0 .. MaxDrops

Init ==
    /\ \E c \in Contents : log = <<c>>
    /\ view = [k \in Key |-> Default]
    /\ seen = [k \in Key |-> 0]
    /\ cancelled = FALSE
    /\ pc = "read"
    /\ rev = 0
    /\ todo = {}
    /\ attempt = 0
    /\ wait = 0
    /\ drops = 0

-----------------------------------------------------------------------------
Current == log[Len(log)]

\* Somebody commits a transaction.
Write ==
    /\ Len(log) <= MaxWrites
    /\ \E c \in Contents \ {Current} : log' = Append(log, c)
    /\ UNCHANGED <<view, seen, cancelled, pc, rev, todo, attempt, wait, drops>>

\* client.Get: the response names the keys that exist, and its revision.
ReadOk ==
    /\ pc = "read"
    /\ pc' = "load"
    /\ rev' = Len(log)
    /\ todo' = {k \in Key : Current[k] # Absent}
    /\ UNCHANGED <<log, view, seen, cancelled, attempt, wait, drops>>

\* SleepBackoff begins.
BackOff ==
    /\ pc' = "backoff"
    /\ wait' = Backoff(attempt)
    /\ UNCHANGED <<log, view, seen, cancelled, rev, todo, attempt>>

ReadFails ==
    /\ pc = "read"
    /\ BackOff
    /\ UNCHANGED drops

\* onChange or onDelete for one key, with what revision rev says of it.
Report(k) ==
    /\ k \in todo
    /\ todo' = todo \ {k}
    /\ view' = [view EXCEPT ![k] = Applied(k, @, log[rev][k])]
    /\ seen' = [seen EXCEPT ![k] = rev]
    /\ UNCHANGED <<log, cancelled, pc, rev, attempt, wait, drops>>

\* Mutant: delete events are ignored.
ApplyPutsOnly(k) ==
    /\ pc = "apply"
    /\ IF log[rev][k] # Absent THEN Report(k)
       ELSE /\ k \in todo
            /\ todo' = todo \ {k}
            /\ UNCHANGED <<log, view, seen, cancelled, pc, rev, attempt, wait,
                           drops>>

LoadKey(k) == pc = "load" /\ Report(k)

\* Mutant: the watch is opened before every key is loaded.
OpenWatchEarly ==
    /\ pc = "load"
    /\ pc' = "watch"
    /\ attempt' = 0
    /\ wait' = 0
    /\ UNCHANGED <<log, view, seen, cancelled, rev, todo, drops>>

\* Mutant: the watch starts at the latest revision, not at the read's.
OpenWatchFromNow ==
    /\ pc = "load"
    /\ todo = {}
    /\ pc' = "watch"
    /\ attempt' = 0
    /\ rev' = Len(log)
    /\ wait' = 0
    /\ UNCHANGED <<log, view, seen, cancelled, todo, drops>>

\* Mutant: the watch replays the whole history.
OpenWatchFromStart ==
    /\ pc = "load"
    /\ todo = {}
    /\ pc' = "watch"
    /\ attempt' = 0
    /\ rev' = 1
    /\ wait' = 0
    /\ UNCHANGED <<log, view, seen, cancelled, todo, drops>>

\* Mutant: a successful read does not reset the backoff.
OpenWatchNoReset ==
    /\ pc = "load"
    /\ todo = {}
    /\ pc' = "watch"
    /\ wait' = 0
    /\ UNCHANGED <<log, view, seen, cancelled, rev, todo, attempt, drops>>

\* Every key is loaded: reset the backoff and watch from rev + 1.
OpenWatch ==
    /\ pc = "load"
    /\ todo = {}
    /\ pc' = "watch"
    /\ attempt' = 0
    /\ wait' = 0
    /\ UNCHANGED <<log, view, seen, cancelled, rev, todo, drops>>

\* The events of the next revision arrive.
Receive ==
    /\ pc = "watch"
    /\ rev < Len(log)
    /\ pc' = "apply"
    /\ rev' = rev + 1
    /\ todo' = {k \in Key : log[rev + 1][k] # log[rev][k]}
    /\ UNCHANGED <<log, view, seen, cancelled, attempt, wait, drops>>

ApplyEvent(k) == pc = "apply" /\ Report(k)

EventsDone ==
    /\ pc = "apply"
    /\ todo = {}
    /\ pc' = "watch"
    /\ UNCHANGED <<log, view, seen, cancelled, rev, todo, attempt, wait, drops>>

\* Mutant: a broken watch ends Watch.
WatchDropsForGood ==
    /\ pc = "watch"
    /\ drops < MaxDrops
    /\ drops' = drops + 1
    /\ pc' = "returned"
    /\ UNCHANGED <<log, view, seen, cancelled, rev, todo, attempt, wait>>

\* The channel closes or reports an error; events not received are lost.
WatchDrops ==
    /\ pc = "watch"
    /\ drops < MaxDrops
    /\ drops' = drops + 1
    /\ BackOff

BackoffElapses ==
    /\ pc = "backoff"
    /\ pc' = "read"
    /\ attempt' = IF attempt < MaxAttempt THEN attempt + 1 ELSE attempt
    /\ UNCHANGED <<log, view, seen, cancelled, rev, todo, wait, drops>>

\* Mutant: only drain looks at the context.
ReturnFromWatchOnly ==
    /\ pc = "watch"
    /\ cancelled
    /\ pc' = "returned"
    /\ UNCHANGED <<log, view, seen, cancelled, rev, todo, attempt, wait, drops>>

\* The context is looked at before a read, during a backoff, and beside the
\* watch channel, where an event may be served first.
Return ==
    /\ pc \in {"read", "watch", "backoff"}
    /\ cancelled
    /\ pc' = "returned"
    /\ UNCHANGED <<log, view, seen, cancelled, rev, todo, attempt, wait, drops>>

\* SDK.Stop.
Cancel ==
    /\ cancelled' = TRUE
    /\ UNCHANGED <<log, view, seen, pc, rev, todo, attempt, wait, drops>>

Reporting == \E k \in Key : LoadKey(k) \/ ApplyEvent(k)

Next ==
    \/ Write
    \/ ReadOk
    \/ ReadFails
    \/ Reporting
    \/ OpenWatch
    \/ Receive
    \/ EventsDone
    \/ WatchDrops
    \/ BackoffElapses
    \/ Return
    \/ Cancel

Spec == Init /\ [][Next]_vars

\* The goroutine runs, timers fire, and etcd delivers the events of an open
\* watch.  While the context is live, reads do not fail for ever.  Nothing
\* is assumed of who writes, of watches breaking or of Stop.
Fairness ==
    /\ WF_vars(ReadOk \/ ReadFails)
    /\ SF_vars(~cancelled /\ ReadOk)
    /\ WF_vars(Reporting \/ OpenWatch \/ EventsDone)
    /\ WF_vars(Receive)
    /\ WF_vars(BackoffElapses)
    /\ SF_vars(Return)

FairSpec == Spec /\ Fairness

-----------------------------------------------------------------------------
(* Properties.                                                             *)

\* While it waits for events, every key that exists at the revision reached
\* shows its value of that revision: no put is lost between the read and the
\* watch, between two event batches, or while the watch was broken.
PutsMirrored ==
    pc = "watch" => \A k \in Key :
        log[rev][k] # Absent => Shows(k, view[k], log[rev][k])

\* As long as no watch has broken, every key that does not exist at the
\* revision reached shows its default, so a deleted key does not linger.
DeletesMirrored ==
    pc = "watch" /\ drops = 0 =>
        \A k \in Key : log[rev][k] = Absent => view[k] = Default

\* "On a reconnect this also catches any change missed while the watch was
\* down" (etcd.go), a deletion being a change.
MissedChangesCaught ==
    pc = "watch" => \A k \in Key : Shows(k, view[k], log[rev][k])

\* Failed reads in a row wait longer and longer, up to the cap; a watch that
\* breaks after a successful read starts from the base again.
BackoffSchedule ==
    [][pc # "backoff" /\ pc' = "backoff" =>
          IF pc = "read" THEN wait' > wait \/ wait' = BackoffMax
                         ELSE wait' = BackoffBase]_vars

\* Unless the SDK is stopped, every key that exists in the end shows its
\* value, however often reads fail and watches break before that.
PutsConverge ==
    \/ <>[](\A k \in Key :
              Current[k] # Absent => Shows(k, view[k], Current[k]))
    \/ <>cancelled

\* Once the context is done Watch returns, so Stop does.
WatchReturns == cancelled ~> pc = "returned"

\* What a provider promises: nothing is reported that etcd did not hold, and
\* no key goes back to an older revision, across any number of reconnects.
Contract == INSTANCE SyncContract
    WITH Source <- {"watch"}, Misreads <- {}, seen <- [s \in {"watch"} |-> seen]
Implements == Contract!Spec

=============================================================================
