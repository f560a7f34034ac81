---------------------------- MODULE FileProvider ----------------------------
(***************************************************************************)
(* The file provider.  New loads the file; Watch adds it to fsnotify,      *)
(* reports what was loaded, and loads the file again on every event about  *)
(* it.  All Watch calls (one per SDK.Start) share the loaded values and    *)
(* the mutex that guards them, which is held while they are reported.      *)
(*                                                                         *)
(* The writer of the file and fsnotify are external.  An edit is an atomic *)
(* replacement, or truncation and then writing, and in between the file    *)
(* does not parse.  Every change makes an event for every watcher that has *)
(* added the file; an fsnotify error (its queue overflowed) stands for     *)
(* events that were lost.  How fsnotify spells the file in an event is its *)
(* choice.  How long is slept or backed off is left out.                   *)
(***************************************************************************)
EXTENDS Naturals, Sequences, DcEntry

CONSTANTS
    Watcher,    \* one Watch call each
    MaxWrites,  \* bound: changes of the file
    MaxErrors   \* bound: errors fsnotify reports

ASSUME FileAssumption == {MaxWrites, MaxErrors} \subseteq Nat

VARIABLES
    log,        \* the contents of the file, oldest first
    broken,     \* the file does not exist or does not parse just now
    pending,    \* pending[w]: an event is waiting for watcher w
    errors,     \* errors reported so far
    missed,     \* history: since the file was last read it has changed with
                \* nobody watching, or an event was lost or ignored
    view,       \* view[k]: what Get returns for the DcValue behind k
    seen,       \* history: the position in log view[k] last took account of
    cancelled,  \* the context is done
    at,         \* p.values, as the position in log it was loaded from
    pc,         \* "add", "lock", "emit", "select", "load", "store",
                \* "backoff", "returned" or "failed" (returned an error)
    read,       \* read[w]: the position in log w has read, not stored yet
    todo        \* todo[w]: keys emitAll has still to report

fileVars  == <<log, broken, pending, errors, missed>>
sdkVars   == <<view, seen>>
watchVars == <<pc, read, todo>>
vars == <<fileVars, sdkVars, cancelled, at, watchVars>>

TypeOK ==
    /\ log \in Seq(Contents)
    /\ Len(log) \in 1 .. MaxWrites + 1
    /\ broken \in BOOLEAN
    /\ pending \in [Watcher -> BOOLEAN]
    /\ errors \in 0 .. MaxErrors
    /\ missed \in BOOLEAN
    /\ view \in [Key -> Val]
    /\ seen \in [Key -> 0 .. Len(log)]
    /\ cancelled \in BOOLEAN
    /\ at \in 1 .. Len(log)
    /\ pc \in [Watcher -> {"add", "lock", "emit", "select", "load", "store",
                           "backoff", "returned", "failed"}]
    /\ read \in [Watcher -> 1 .. Len(log)]
    /\ todo \in [Watcher -> SUBSET Key]
    /\ \A w \in Watcher : todo[w] # {} => pc[w] = "emit"

\* New has loaded the file.
Init ==
    /\ \E c \in Contents : log = <<c>>
    /\ broken = FALSE
    /\ pending = [w \in Watcher |-> FALSE]
    /\ errors = 0
    /\ missed = FALSE
    /\ view = [k \in Key |-> Default]
    /\ seen = [k \in Key |-> 0]
    /\ cancelled = FALSE
    /\ at = 1
    /\ pc = [w \in Watcher |-> "add"]
    /\ read = [w \in Watcher |-> 1]
    /\ todo = [w \in Watcher |-> {}]

-----------------------------------------------------------------------------
(* The file and fsnotify.                                                  *)

Current == log[Len(log)]

Added(w) == pc[w] \notin {"add", "failed"}

FileChanges ==
    /\ missed' = (missed \/ \A w \in Watcher : ~Added(w))
    /\ pending' = [w \in Watcher |-> pending[w] \/ Added(w)]
    /\ UNCHANGED <<errors, sdkVars, cancelled, at, watchVars>>

\* The file is replaced in one step (write elsewhere and rename).
Replace ==
    /\ Len(log) <= MaxWrites
    /\ ~broken
    /\ \E c \in Contents : log' = Append(log, c)
    /\ FileChanges
    /\ UNCHANGED broken

\* Or it is truncated, and written.
Truncate ==
    /\ Len(log) <= MaxWrites
    /\ ~broken
    /\ broken' = TRUE
    /\ FileChanges
    /\ UNCHANGED log

Fill ==
    /\ broken
    /\ broken' = FALSE
    /\ \E c \in Contents : log' = Append(log, c)
    /\ FileChanges

-----------------------------------------------------------------------------
(* One Watch call.                                                         *)

Goto(w, l) == pc' = [pc EXCEPT ![w] = l]

\* watcher.Add succeeds for the file and its directory.
AddOk(w) ==
    /\ pc[w] = "add"
    /\ Goto(w, "lock")
    /\ UNCHANGED <<fileVars, sdkVars, cancelled, at, read, todo>>

\* fsnotify.NewWatcher or one of the two Adds fails, because the file is missing
\* just then or for want of anything else (inotify instances and watches are
\* limited).  Watch returns an error, which ends the goroutine.
AddFails(w) ==
    /\ pc[w] = "add"
    /\ Goto(w, "failed")
    /\ UNCHANGED <<fileVars, sdkVars, cancelled, at, read, todo>>

\* p.mu is held by a watcher that is in the middle of emitAll.
Unlocked == \A w \in Watcher : pc[w] # "emit"

\* emitAll takes the lock ...
EmitBegins(w) ==
    /\ pc[w] = "lock"
    /\ Unlocked
    /\ Goto(w, "emit")
    /\ todo' = [todo EXCEPT ![w] = Key]
    /\ UNCHANGED <<fileVars, sdkVars, cancelled, at, read>>

\* Mutant: keys that are missing from the file are passed over.
EmitPresentKey(w, k) ==
    /\ pc[w] = "emit"
    /\ k \in todo[w]
    /\ todo' = [todo EXCEPT ![w] = @ \ {k}]
    /\ IF log[at][k] = Absent THEN UNCHANGED sdkVars
       ELSE /\ view' = [view EXCEPT ![k] = Applied(k, @, log[at][k])]
            /\ seen' = [seen EXCEPT ![k] = at]
    /\ UNCHANGED <<fileVars, cancelled, at, pc, read>>

\* Mutant: emitAll looks at a newer file than the one that was loaded.
EmitKeyReread(w, k) ==
    /\ pc[w] = "emit"
    /\ k \in todo[w]
    /\ todo' = [todo EXCEPT ![w] = @ \ {k}]
    /\ view' = [view EXCEPT ![k] = Applied(k, @, Current[k])]
    /\ seen' = [seen EXCEPT ![k] = at]
    /\ UNCHANGED <<fileVars, cancelled, at, pc, read>>

\* ... calls onChange or onDelete for every key, changed or not ...
EmitKey(w, k) ==
    /\ pc[w] = "emit"
    /\ k \in todo[w]
    /\ todo' = [todo EXCEPT ![w] = @ \ {k}]
    /\ view' = [view EXCEPT ![k] = Applied(k, @, log[at][k])]
    /\ seen' = [seen EXCEPT ![k] = at]
    /\ UNCHANGED <<fileVars, cancelled, at, pc, read>>

\* Mutant: emitAll stops before the last key.
EmitEndsEarly(w) ==
    /\ pc[w] = "emit"
    /\ Goto(w, "select")
    /\ UNCHANGED <<fileVars, sdkVars, cancelled, at, read, todo>>

\* ... and releases it.
EmitEnds(w) ==
    /\ pc[w] = "emit"
    /\ todo[w] = {}
    /\ Goto(w, "select")
    /\ UNCHANGED <<fileVars, sdkVars, cancelled, at, read, todo>>

\* An event that names the file as p.path does: sleep, then detectChanges.
TakeEvent(w) ==
    /\ pc[w] = "select"
    /\ pending[w]
    /\ pending' = [pending EXCEPT ![w] = FALSE]
    /\ Goto(w, "load")
    /\ UNCHANGED <<log, broken, errors, missed, sdkVars, cancelled, at, read,
                   todo>>

\* An event about the file that names it otherwise is taken for one about
\* another file: fsnotify cleans and joins paths, p.path is as configured.
IgnoreEvent(w) ==
    /\ pc[w] = "select"
    /\ pending[w]
    /\ pending' = [pending EXCEPT ![w] = FALSE]
    /\ missed' = TRUE
    /\ UNCHANGED <<log, broken, errors, sdkVars, cancelled, at, watchVars>>

\* load reads and parses the file without the lock ...
LoadReads(w) ==
    /\ pc[w] = "load"
    /\ ~broken
    /\ read' = [read EXCEPT ![w] = Len(log)]
    /\ Goto(w, "store")
    /\ missed' = FALSE
    /\ UNCHANGED <<log, broken, pending, errors, sdkVars, cancelled, at, todo>>

\* Mutant: a failed load ends Watch.
LoadFailsForGood(w) ==
    /\ pc[w] = "load"
    /\ broken
    /\ Goto(w, "returned")
    /\ UNCHANGED <<fileVars, sdkVars, cancelled, at, read, todo>>

\* ... gives up if that fails ...
LoadFails(w) ==
    /\ pc[w] = "load"
    /\ broken
    /\ Goto(w, "select")
    /\ UNCHANGED <<fileVars, sdkVars, cancelled, at, read, todo>>

\* Mutant: p.values keeps the file of the load that was first.
LoadStoresOnce(w) ==
    /\ pc[w] = "store"
    /\ Unlocked
    /\ at' = IF at = 1 THEN read[w] ELSE at
    /\ Goto(w, "lock")
    /\ UNCHANGED <<fileVars, sdkVars, cancelled, read, todo>>

\* ... and takes the lock to replace p.values.
LoadStores(w) ==
    /\ pc[w] = "store"
    /\ Unlocked
    /\ at' = read[w]
    /\ Goto(w, "lock")
    /\ UNCHANGED <<fileVars, sdkVars, cancelled, read, todo>>

\* fsnotify reports an error; the events it stands for are gone.
WatchError(w) ==
    /\ pc[w] = "select"
    /\ errors < MaxErrors
    /\ errors' = errors + 1
    /\ missed' = (missed \/ pending[w])
    /\ pending' = [pending EXCEPT ![w] = FALSE]
    /\ Goto(w, "backoff")
    /\ UNCHANGED <<log, broken, sdkVars, cancelled, at, read, todo>>

\* The file and its directory are added again; nothing is loaded.
BackoffElapses(w) ==
    /\ pc[w] = "backoff"
    /\ Goto(w, "select")
    /\ UNCHANGED <<fileVars, sdkVars, cancelled, at, read, todo>>

\* Mutant: the context is looked at in the backoff only.
ReturnFromBackoffOnly(w) ==
    /\ pc[w] = "backoff"
    /\ cancelled
    /\ Goto(w, "returned")
    /\ UNCHANGED <<fileVars, sdkVars, cancelled, at, read, todo>>

Return(w) ==
    /\ pc[w] \in {"select", "backoff"}
    /\ cancelled
    /\ Goto(w, "returned")
    /\ UNCHANGED <<fileVars, sdkVars, cancelled, at, read, todo>>

\* SDK.Stop.
Cancel ==
    /\ cancelled' = TRUE
    /\ UNCHANGED <<fileVars, sdkVars, at, watchVars>>

Load(w) == LoadReads(w) \/ LoadFails(w) \/ LoadStores(w)

Emit(w) == EmitBegins(w) \/ (\E k \in Key : EmitKey(w, k)) \/ EmitEnds(w)

Next ==
    \/ Replace
    \/ Truncate
    \/ Fill
    \/ Cancel
    \/ \E w \in Watcher :
          \/ AddOk(w)
          \/ AddFails(w)
          \/ TakeEvent(w)
          \/ IgnoreEvent(w)
          \/ Load(w)
          \/ Emit(w)
          \/ WatchError(w)
          \/ BackoffElapses(w)
          \/ Return(w)

Spec == Init /\ [][Next]_vars

\* The goroutines run; the mutex is handed over and select chooses at
\* random, so a branch that is ready again and again is taken.  Nothing is
\* assumed of who edits the file or stops the SDK.
Fairness == \A w \in Watcher :
    /\ WF_vars(AddOk(w) \/ AddFails(w))
    /\ SF_vars(Load(w))
    /\ SF_vars(Emit(w))
    /\ SF_vars(TakeEvent(w) \/ IgnoreEvent(w))
    /\ WF_vars(BackoffElapses(w))
    /\ SF_vars(Return(w))

FairSpec == Spec /\ Fairness

-----------------------------------------------------------------------------
(* Properties.                                                             *)

\* Whenever nobody has a report to make, the DcValues show p.values: two
\* watchers that load and report at the same time do not leave a mixture of
\* an older and a newer file behind.
ViewFollowsValues ==
    /\ \A w \in Watcher : pc[w] \notin {"lock", "emit"}
    /\ \E w \in Watcher : pc[w] \in {"select", "load", "store", "backoff"}
    => \A k \in Key : Shows(k, view[k], log[at][k])

\* When no watcher has anything to do, p.values is what the file holds, even
\* though a watcher may have stored an older file over a newer one: it then
\* has an event left to take.  The exceptions are an edit before any watcher
\* has added the file, and an event that is lost or ignored.
QuietIsCurrent ==
    /\ \E w \in Watcher : Added(w)
    /\ \A w \in Watcher : Added(w) => pc[w] = "select" /\ ~pending[w]
    /\ ~missed /\ ~broken /\ ~cancelled
    => at = Len(log)

\* "On every change the file is re-read and all registered values are
\* updated" (README.md:555): unless the SDK is stopped or the file is left
\* broken, every DcValue ends up showing the file.  The exceptions are those
\* of QuietIsCurrent, and that every Watch call has ended with an error: then
\* not even what New loaded is shown, though the file is fine.
Converges ==
    \/ <>[](\A k \in Key : Shows(k, view[k], Current[k]))
    \/ <>cancelled
    \/ <>[]broken
    \/ <>[]missed
    \/ <>[](\A w \in Watcher : pc[w] = "failed")

\* Once the context is done every Watch call returns, so Stop does.
WatchReturns ==
    \A w \in Watcher : cancelled ~> pc[w] \in {"returned", "failed"}

\* One watcher implements what a provider promises.
Contract == INSTANCE SyncContract
    WITH Source <- {"watch"}, Misreads <- {}, seen <- [s \in {"watch"} |-> seen]
Implements == Contract!Spec

=============================================================================
