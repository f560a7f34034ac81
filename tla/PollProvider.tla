---------------------------- MODULE PollProvider ----------------------------
(***************************************************************************)
(* The polling providers: mysql, postgresql and vault.  Watch reads every  *)
(* key at once, at start and then on a ticker, and compares what it read   *)
(* with lastValues, the map of what it reported last, to decide what to    *)
(* call back about.  One poll is a read of the backend and then one step   *)
(* per key; the backend may change between any two of these steps.         *)
(*                                                                         *)
(* Each watcher is one Watch call with a lastValues of its own.  There is  *)
(* one per SDK.Start, and all of them store into the same DcValues.        *)
(***************************************************************************)
EXTENDS Naturals, Sequences, DcEntry

CONSTANTS
    Watcher,
    Nobody,          \* not a watcher
    Empty,           \* the empty string: what Go reads for a missing map key
    Unreadable,      \* stored values the driver cannot hand over as a string:
                     \* a NULL column, a non-string Vault field
    MissingIsError,  \* the keys are fields of one Vault secret, and a read
                     \* fails when there is no such secret
    MaxWrites        \* bound: changes of the backend

ASSUME PollAssumption ==
    /\ Nobody \notin Watcher
    /\ Empty # Absent
    /\ Unreadable \subseteq Raw
    /\ MissingIsError \in BOOLEAN
    /\ MaxWrites \in Nat

VARIABLES
    log,        \* the states of the backend, oldest first
    missing,    \* the Vault secret does not exist: never written, or removed
                \* with all its versions
    view,       \* view[k]: what Get returns for the DcValue behind k
    seen,       \* history: seen[w][k] is the position in log of w's latest
                \* report about k
    by,         \* history: by[k] is the watcher whose report view[k] is from
    cancelled,  \* the context is done
    pc,         \* pc[w]: "poll" (about to read), "emit" (walking the keys),
                \* "wait" (in select) or "returned"
    last,       \* last[w]: lastValues
    at,         \* history: the position in log of w's latest read
    todo        \* todo[w]: keys the current poll has not compared yet

backendVars == <<log, missing>>
watchVars == <<pc, last, at, todo>>
storeVars == <<view, seen, by>>
vars == <<backendVars, storeVars, cancelled, watchVars>>

Current == log[Len(log)]

\* There may be no secret behind contents c.  A secret whose latest version
\* is deleted is there still, and so is one without any of the keys: both are
\* read as an empty set of fields.
CanBeMissing(c) == MissingIsError /\ \A k \in Key : c[k] = Absent

TypeOK ==
    /\ log \in Seq(Contents)
    /\ Len(log) \in 1 .. MaxWrites + 1
    /\ missing \in BOOLEAN
    /\ missing => CanBeMissing(Current)
    /\ view \in [Key -> Val]
    /\ seen \in [Watcher -> [Key -> 0 .. Len(log)]]
    /\ by \in [Key -> Watcher \cup {Nobody}]
    /\ cancelled \in BOOLEAN
    /\ pc \in [Watcher -> {"poll", "emit", "wait", "returned"}]
    /\ last \in [Watcher -> Contents]
    /\ at \in [Watcher -> 0 .. Len(log)]
    /\ todo \in [Watcher -> SUBSET Key]
    /\ \A w \in Watcher : pc[w] = "emit" => at[w] > 0

\* Every watcher polls once before it waits for its ticker.
Init ==
    /\ \E c \in Contents : log = <<c>> /\ missing \in {FALSE, CanBeMissing(c)}
    /\ view = [k \in Key |-> Default]
    /\ seen = [w \in Watcher |-> [k \in Key |-> 0]]
    /\ by = [k \in Key |-> Nobody]
    /\ cancelled = FALSE
    /\ pc = [w \in Watcher |-> "poll"]
    /\ last = [w \in Watcher |-> [k \in Key |-> Absent]]
    /\ at = [w \in Watcher |-> 0]
    /\ todo = [w \in Watcher |-> {}]

-----------------------------------------------------------------------------
(* The backend.                                                            *)

\* A transaction changes any number of keys; a secret comes and goes.
Write ==
    /\ Len(log) <= MaxWrites
    /\ \E c \in Contents : \E m \in {FALSE, CanBeMissing(c)} :
          /\ c # Current \/ m # missing
          /\ log' = Append(log, c)
          /\ missing' = m
    /\ UNCHANGED <<storeVars, cancelled, watchVars>>

\* A value that cannot be scanned is left out of the map a read returns.
Readable(c) == [k \in Key |-> IF c[k] \in Unreadable THEN Absent ELSE c[k]]

-----------------------------------------------------------------------------
(* One watcher.                                                            *)

\* What the current poll fetched.
Polled(w) == Readable(log[at[w]])

\* Mutant: the read may go to a replica that lags behind.
PollOkFromReplica(w) ==
    /\ pc[w] = "poll"
    /\ ~missing
    /\ pc' = [pc EXCEPT ![w] = "emit"]
    /\ \E i \in 1 .. Len(log) : at' = [at EXCEPT ![w] = i]
    /\ todo' = [todo EXCEPT ![w] = Key]
    /\ UNCHANGED <<backendVars, storeVars, cancelled, last>>

\* Mutant: a read that finds none of the keys is taken for a failed one.
PollOkUnlessEmpty(w) ==
    /\ pc[w] = "poll"
    /\ \E k \in Key : Current[k] # Absent
    /\ pc' = [pc EXCEPT ![w] = "emit"]
    /\ at' = [at EXCEPT ![w] = Len(log)]
    /\ todo' = [todo EXCEPT ![w] = Key]
    /\ UNCHANGED <<backendVars, storeVars, cancelled, last>>

\* GetAll or readSecret succeeds, also if it finds nothing.
PollOk(w) ==
    /\ pc[w] = "poll"
    /\ ~missing
    /\ pc' = [pc EXCEPT ![w] = "emit"]
    /\ at' = [at EXCEPT ![w] = Len(log)]
    /\ todo' = [todo EXCEPT ![w] = Key]
    /\ UNCHANGED <<backendVars, storeVars, cancelled, last>>

\* Mutant: the error is not looked at, the keys are compared all the same.
PollFailsCompares(w) ==
    /\ pc[w] = "poll"
    /\ pc' = [pc EXCEPT ![w] = "emit"]
    /\ todo' = [todo EXCEPT ![w] = Key]
    /\ UNCHANGED <<backendVars, storeVars, cancelled, last, at>>

\* Mutant: a failed read is tried again without a look at the context.
PollFailsRetries(w) ==
    /\ pc[w] = "poll"
    /\ UNCHANGED <<vars>>

\* It fails: skip this cycle.
PollFails(w) ==
    /\ pc[w] = "poll"
    /\ pc' = [pc EXCEPT ![w] = "wait"]
    /\ UNCHANGED <<backendVars, storeVars, cancelled, last, at, todo>>

\* lastValues[key]: a missing key reads as the empty string.
LastValue(w, k) == IF last[w][k] = Absent THEN Empty ELSE last[w][k]

Compare(w, k) ==
    /\ pc[w] = "emit"
    /\ k \in todo[w]
    /\ todo' = [todo EXCEPT ![w] = @ \ {k}]
    /\ UNCHANGED <<backendVars, cancelled, pc, at>>

\* Mutant: lastValues is updated, a deletion is not reported.
ReportNoDelete(w, k) ==
    /\ last' = [last EXCEPT ![w][k] = Polled(w)[k]]
    /\ view' = IF Polled(w)[k] = Absent THEN view
               ELSE [view EXCEPT ![k] = Applied(k, @, Polled(w)[k])]
    /\ seen' = [seen EXCEPT ![w][k] = at[w]]
    /\ by' = [by EXCEPT ![k] = w]

\* Mutant: lastValues is not updated.
ReportForgets(w, k) ==
    /\ view' = [view EXCEPT ![k] = Applied(k, @, Polled(w)[k])]
    /\ seen' = [seen EXCEPT ![w][k] = at[w]]
    /\ by' = [by EXCEPT ![k] = w]
    /\ UNCHANGED last

\* The callback, and what it does to the DcValue.
Report(w, k) ==
    /\ last' = [last EXCEPT ![w][k] = Polled(w)[k]]
    /\ view' = [view EXCEPT ![k] = Applied(k, @, Polled(w)[k])]
    /\ seen' = [seen EXCEPT ![w][k] = at[w]]
    /\ by' = [by EXCEPT ![k] = w]

EmitChange(w, k) ==
    /\ Compare(w, k)
    /\ Polled(w)[k] # Absent
    /\ Polled(w)[k] # LastValue(w, k)
    /\ Report(w, k)

EmitDelete(w, k) ==
    /\ Compare(w, k)
    /\ Polled(w)[k] = Absent
    /\ last[w][k] # Absent
    /\ Report(w, k)

\* Nothing to report about the key.
SkipKey(w, k) ==
    /\ Compare(w, k)
    /\ Polled(w)[k] \in {Absent, LastValue(w, k)}
    /\ Polled(w)[k] = Absent => last[w][k] = Absent
    /\ UNCHANGED <<storeVars, last>>

PollEnds(w) ==
    /\ pc[w] = "emit"
    /\ todo[w] = {}
    /\ pc' = [pc EXCEPT ![w] = "wait"]
    /\ UNCHANGED <<backendVars, storeVars, cancelled, last, at, todo>>

\* select: the ticker may be served even when the context is done as well.
Tick(w) ==
    /\ pc[w] = "wait"
    /\ pc' = [pc EXCEPT ![w] = "poll"]
    /\ UNCHANGED <<backendVars, storeVars, cancelled, last, at, todo>>

Return(w) ==
    /\ pc[w] = "wait"
    /\ cancelled
    /\ pc' = [pc EXCEPT ![w] = "returned"]
    /\ UNCHANGED <<backendVars, storeVars, cancelled, last, at, todo>>

\* SDK.Stop.
Cancel ==
    /\ cancelled' = TRUE
    /\ UNCHANGED <<backendVars, storeVars, watchVars>>

Emit(w) ==
    \/ \E k \in Key : EmitChange(w, k) \/ EmitDelete(w, k) \/ SkipKey(w, k)
    \/ PollEnds(w)

Watch(w) == PollOk(w) \/ PollFails(w) \/ Emit(w) \/ Tick(w) \/ Return(w)

Next == Write \/ Cancel \/ \E w \in Watcher : Watch(w)

Spec == Init /\ [][Next]_vars

\* The watcher goroutine runs and its ticker ticks.  While the context is
\* live, a backend that can be read at all answers again and again, though
\* some reads may fail; a select that finds the context done again and again
\* takes that branch.  Nothing is assumed of reads with a cancelled context,
\* nor of who writes to the backend or stops the SDK.
Fairness == \A w \in Watcher :
    /\ WF_vars(PollOk(w) \/ PollFails(w))
    /\ SF_vars(~cancelled /\ PollOk(w))
    /\ WF_vars(Emit(w))
    /\ WF_vars(Tick(w) \/ Return(w))
    /\ SF_vars(Return(w))

FairSpec == Spec /\ Fairness

-----------------------------------------------------------------------------
(* Properties.                                                             *)

\* The key's value is no other watcher's doing.
Undisturbed(w, k) == by[k] \in {w, Nobody}

\* A DcValue whose latest report, if any, came from w shows what w's
\* lastValues holds: a value in it that decodes is the value shown, a key
\* missing from it shows its default.  This is what a decision to report
\* nothing rests on.
LastMatchesView ==
    \A w \in Watcher : \A k \in Key :
        Undisturbed(w, k) => Shows(k, view[k], last[w][k])

\* An empty string that was found first thing, or again after a deletion, is
\* never reported, because a missing map entry reads as the empty string too
\* (provider/mysql/mysql.go:234).  The comment above poll says that an empty
\* lastValues makes it emit every current value.
EmptyUnreported(k, c) == c = Empty /\ view[k] = Default

\* Between polls, every DcValue that no other watcher has stored into since
\* shows what this watcher's latest successful read found, over any history
\* of values that come, go, fail to decode and come back.
Mirror ==
    \A w \in Watcher : pc[w] = "wait" /\ at[w] > 0 =>
        \A k \in Key : Undisturbed(w, k) =>
            \/ Shows(k, view[k], Polled(w)[k])
            \/ EmptyUnreported(k, Polled(w)[k])

\* Unless the SDK is stopped, every DcValue ends up showing what the backend
\* holds, with any number of watchers racing each other to store: a key that is
\* gone for good shows its default, also when it was the last field of a Vault
\* secret or went with the deletion of the secret's latest version.  There are
\* two exceptions: the unreported empty string, and a Vault secret that stays
\* gone altogether.  README.md says of deleted keys "no stale value lingers",
\* but every read of a secret that does not exist is an error and the cycle
\* is skipped, so the values of its keys do linger.
Converges ==
    \/ <>[](\A k \in Key :
               LET c == Readable(Current)[k]
               IN  Shows(k, view[k], c) \/ EmptyUnreported(k, c))
    \/ <>cancelled
    \/ <>[]missing

\* Once the context is done every watcher comes back, so Stop does.
WatchReturns == \A w \in Watcher : cancelled ~> pc[w] = "returned"

\* Any number of watchers implement what a provider promises.
Contract == INSTANCE SyncContract
    WITH Source <- Watcher,
         Misreads <- {},
         log <- [i \in 1 .. Len(log) |-> Readable(log[i])]
Implements == Contract!Spec

=============================================================================
