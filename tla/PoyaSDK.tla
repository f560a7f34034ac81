------------------------------ MODULE PoyaSDK ------------------------------
(***************************************************************************)
(* The SDK of poya.go and the DcValues it looks after: registration,       *)
(* Start, the two callbacks a provider's Watch drives, and Stop.           *)
(*                                                                         *)
(* Threads: the application (registration, Start, Stop), and one watcher   *)
(* goroutine per Start, in which the provider calls onChange and onDelete  *)
(* one after the other.  s.mu guards the values map only: a callback reads *)
(* the entry under the lock and stores through it after the unlock, so the *)
(* lookup and the store are two steps.  The provider is external here: it  *)
(* may call back about any key it watches at any time.                     *)
(***************************************************************************)
EXTENDS Naturals, FiniteSets

CONSTANTS
    Key,          \* full keys
    Dc,           \* the application's DcValues
    Seed,         \* values the application gives a DcValue as its default
    Raw,          \* raw strings a provider can report
    Malformed,    \* pairs <<d, r>>: r does not decode into the type of d
    Config,       \* structs passed to RegisterConfig: functions from their
                  \* DcValue fields to the full key of each
    Watcher,      \* one per call of Start
    Stopper,      \* one per call of Stop
    PrefixWatch,  \* the provider reports keys it was not asked for (etcd)
    NoEntry,      \* what looking up an unregistered key returns
    Deleted,      \* what onDelete reports in the place of a raw string
    NoCall        \* the watcher is not in a callback

\* An entry of the values map: the atomic.Value and the default of a DcValue.
Entry == [dc : Dc, defaultVal : Seed]

\* A callback between its lookup and its return.
Call == [key : Key, raw : Raw \cup {Deleted}, ent : Entry \cup {NoEntry}]

ASSUME SDKAssumption ==
    /\ Malformed \subseteq Dc \X Raw
    /\ Config \subseteq UNION {[D -> Key] : D \in SUBSET Dc}
    /\ PrefixWatch \in BOOLEAN
    /\ NoEntry \notin Entry
    /\ Deleted \notin Raw
    /\ NoCall \notin Call
    /\ Seed \cap Raw = {}

VARIABLES
    disabled,      \* Config.Disabled
    defaultValue,  \* defaultValue[d]: the field of DcValue d
    val,           \* val[d]: its atomic.Value, what Get returns
    values,        \* the SDK's map from key to entry
    registering,   \* <<d, k>> fields RegisterConfig has not reached yet
    cancelled,     \* s.ctx is done
    pc,            \* pc[w]: where watcher goroutine w is
    watched,       \* watched[w]: the keys Start handed to Provider.Watch
    call,          \* call[w]: the callback w is in
    stopping,      \* stopping[s]: where call s of Stop is
    given,         \* history: <<d, v>>, v was once d's default
    told,          \* history: <<d, r>>, r was reported for d's key
    late           \* history: watchers started after the context was done

appVars   == <<disabled, registering, stopping>>
valueVars == <<defaultValue, val>>
watchVars == <<pc, watched, call, late>>
histVars  == <<given, told>>
vars == <<appVars, valueVars, values, cancelled, watchVars, histVars>>

TypeOK ==
    /\ disabled \in BOOLEAN
    /\ defaultValue \in [Dc -> Seed]
    /\ val \in [Dc -> Seed \cup Raw]
    /\ values \in [Key -> Entry \cup {NoEntry}]
    /\ registering \subseteq Dc \X Key
    /\ cancelled \in BOOLEAN
    /\ pc \in [Watcher -> {"unstarted", "watching", "callback", "returned"}]
    /\ watched \in [Watcher -> SUBSET Key]
    /\ call \in [Watcher -> Call \cup {NoCall}]
    /\ \A w \in Watcher : pc[w] = "callback" <=> call[w] # NoCall
    /\ stopping \in [Stopper -> {"uncalled", "waiting", "returned"}]
    /\ given \subseteq Dc \X Seed
    /\ told \subseteq Dc \X Raw
    /\ late \subseteq Watcher

Init ==
    /\ disabled \in BOOLEAN
    /\ defaultValue \in [Dc -> Seed]
    /\ val = defaultValue
    /\ values = [k \in Key |-> NoEntry]
    /\ registering = {}
    /\ cancelled = FALSE
    /\ pc = [w \in Watcher |-> "unstarted"]
    /\ watched = [w \in Watcher |-> {}]
    /\ call = [w \in Watcher |-> NoCall]
    /\ stopping = [s \in Stopper |-> "uncalled"]
    /\ given = {<<d, defaultValue[d]>> : d \in Dc}
    /\ told = {}
    /\ late = {}

-----------------------------------------------------------------------------
(* The application thread.                                                 *)

\* DcValue.SetDefaultAndValue, which the decode hooks call.  An entry that
\* is already registered keeps the default it copied.
SetDefaultAndValue(d, v) ==
    /\ defaultValue' = [defaultValue EXCEPT ![d] = v]
    /\ val' = [val EXCEPT ![d] = v]
    /\ given' = given \cup {<<d, v>>}
    /\ UNCHANGED <<appVars, values, cancelled, watchVars, told>>

\* The entry Register and handleDcValue build for a DcValue.
EntryOf(d) == [dc |-> d, defaultVal |-> defaultValue[d]]

\* Register: a later registration of the same key takes the key over.
Register(d, k) ==
    /\ values' = [values EXCEPT ![k] = EntryOf(d)]
    /\ UNCHANGED <<appVars, valueVars, cancelled, watchVars, histVars>>

\* RegisterConfig walks a struct; each field takes and releases s.mu by
\* itself, so the rest of the program can run between two fields.  (Bound:
\* one RegisterConfig at a time.)
RegisterConfig(c) ==
    /\ registering = {}
    /\ registering' = {<<d, c[d]>> : d \in DOMAIN c}
    /\ UNCHANGED <<disabled, stopping, valueVars, values, cancelled,
                   watchVars, histVars>>

HandleDcValue(d, k) ==
    /\ <<d, k>> \in registering
    /\ registering' = registering \ {<<d, k>>}
    /\ values' = [values EXCEPT ![k] = EntryOf(d)]
    /\ UNCHANGED <<disabled, stopping, valueVars, cancelled, watchVars,
                   histVars>>

Registered == {k \in Key : values[k] # NoEntry}

\* Start: the goroutine watches the keys registered by now, and only those.
Start(w) ==
    /\ ~disabled
    /\ pc[w] = "unstarted"
    /\ pc' = [pc EXCEPT ![w] = "watching"]
    /\ watched' = [watched EXCEPT ![w] = Registered]
    /\ late' = IF cancelled THEN late \cup {w} ELSE late
    /\ UNCHANGED <<appVars, valueVars, values, cancelled, call, histVars>>

\* Mutant: Stop waits without having cancelled the context.
StopWithoutCancel(s) ==
    /\ stopping[s] = "uncalled"
    /\ stopping' = [stopping EXCEPT ![s] = "waiting"]
    /\ UNCHANGED <<disabled, registering, valueVars, values, cancelled,
                   watchVars, histVars>>

\* Stop: cancel the context, then wait for every watcher goroutine.
Stop(s) ==
    /\ stopping[s] = "uncalled"
    /\ stopping' = [stopping EXCEPT ![s] = "waiting"]
    /\ cancelled' = TRUE
    /\ UNCHANGED <<disabled, registering, valueVars, values, watchVars,
                   histVars>>

Running(w) == pc[w] \in {"watching", "callback"}

\* Mutant: Stop returns without waiting for the goroutines.
StopWithoutWait(s) ==
    /\ stopping[s] = "waiting"
    /\ stopping' = [stopping EXCEPT ![s] = "returned"]
    /\ UNCHANGED <<disabled, registering, valueVars, values, cancelled,
                   watchVars, histVars>>

\* s.wg.Wait() lets Stop go when no watcher goroutine is left.
StopReturns(s) ==
    /\ stopping[s] = "waiting"
    /\ \A w \in Watcher : ~Running(w)
    /\ stopping' = [stopping EXCEPT ![s] = "returned"]
    /\ UNCHANGED <<disabled, registering, valueVars, values, cancelled,
                   watchVars, histVars>>

-----------------------------------------------------------------------------
(* A watcher goroutine.  A provider that has not noticed the cancellation  *)
(* yet may still call back.                                                *)

Reports(w, k) == PrefixWatch \/ k \in watched[w]

\* onChange, up to s.mu.RUnlock().
OnChange(w, k, r) ==
    /\ pc[w] = "watching"
    /\ Reports(w, k)
    /\ pc' = [pc EXCEPT ![w] = "callback"]
    /\ call' = [call EXCEPT ![w] = [key |-> k, raw |-> r,
                                    ent |-> values[k]]]
    /\ told' = IF values[k] = NoEntry THEN told
               ELSE told \cup {<<values[k].dc, r>>}
    /\ UNCHANGED <<appVars, valueVars, values, cancelled, watched, late,
                   given>>

\* onDelete, up to s.mu.RUnlock().
OnDelete(w, k) ==
    /\ pc[w] = "watching"
    /\ Reports(w, k)
    /\ pc' = [pc EXCEPT ![w] = "callback"]
    /\ call' = [call EXCEPT ![w] = [key |-> k, raw |-> Deleted,
                                    ent |-> values[k]]]
    /\ UNCHANGED <<appVars, valueVars, values, cancelled, watched, late,
                   histVars>>

\* Mutant: the callback is not over after its store.
CallbackRepeats(w) ==
    /\ pc' = [pc EXCEPT ![w] = "watching"]
    /\ UNCHANGED <<appVars, defaultValue, values, cancelled, watched, call,
                   late, histVars>>

CallbackReturns(w) ==
    /\ pc' = [pc EXCEPT ![w] = "watching"]
    /\ call' = [call EXCEPT ![w] = NoCall]
    /\ UNCHANGED <<appVars, defaultValue, values, cancelled, watched, late,
                   histVars>>

\* The key is not registered: the callback returns without a store.
Unregistered(w) ==
    /\ pc[w] = "callback"
    /\ call[w].ent = NoEntry
    /\ CallbackReturns(w)
    /\ UNCHANGED val

\* Mutant: a value that does not decode is stored all the same.
UpdateEntryUndecoded(w) ==
    /\ pc[w] = "callback"
    /\ call[w].raw # Deleted
    /\ call[w].ent # NoEntry
    /\ val' = [val EXCEPT ![call[w].ent.dc] = call[w].raw]
    /\ CallbackReturns(w)

\* updateEntry: decode, and store only what decoded.
UpdateEntry(w) ==
    /\ pc[w] = "callback"
    /\ call[w].raw # Deleted
    /\ call[w].ent # NoEntry
    /\ val' = IF <<call[w].ent.dc, call[w].raw>> \in Malformed THEN val
              ELSE [val EXCEPT ![call[w].ent.dc] = call[w].raw]
    /\ CallbackReturns(w)

\* revertEntry: store the default the entry was registered with.
RevertEntry(w) ==
    /\ pc[w] = "callback"
    /\ call[w].raw = Deleted
    /\ call[w].ent # NoEntry
    /\ val' = [val EXCEPT ![call[w].ent.dc] = call[w].ent.defaultVal]
    /\ CallbackReturns(w)

\* Watch returns: because the context is done, or at any time with an error,
\* which is logged and ends the goroutine.
WatchReturns(w) ==
    /\ pc[w] = "watching"
    /\ pc' = [pc EXCEPT ![w] = "returned"]
    /\ UNCHANGED <<appVars, valueVars, values, cancelled, watched, call, late,
                   histVars>>

Callback(w) == Unregistered(w) \/ UpdateEntry(w) \/ RevertEntry(w)

Application ==
    \/ \E d \in Dc : \E v \in Seed : SetDefaultAndValue(d, v)
    \/ \E d \in Dc : \E k \in Key : Register(d, k)
    \/ \E c \in Config : RegisterConfig(c)
    \/ \E d \in Dc : \E k \in Key : HandleDcValue(d, k)
    \/ \E w \in Watcher : Start(w)
    \/ \E s \in Stopper : Stop(s) \/ StopReturns(s)

Watching(w) ==
    \/ \E k \in Key : \E r \in Raw : OnChange(w, k, r)
    \/ \E k \in Key : OnDelete(w, k)
    \/ Callback(w)
    \/ WatchReturns(w)

Next == Application \/ \E w \in Watcher : Watching(w)

Spec == Init /\ [][Next]_vars

\* A callback runs to its end.  A provider returns from Watch once the
\* context is done: its select offers ctx.Done() beside its events each time
\* round, so it may serve an event first but not for ever.
Fairness ==
    /\ \A w \in Watcher : WF_vars(Callback(w))
    /\ \A w \in Watcher : SF_vars(cancelled /\ WatchReturns(w))
    /\ \A s \in Stopper : WF_vars(StopReturns(s))

FairSpec == Spec /\ Fairness

-----------------------------------------------------------------------------
(* Properties.                                                             *)

\* Get only ever returns a default the application gave this very DcValue,
\* or a string that a provider reported while this DcValue held the key and
\* that decodes into its type.  The callbacks work on an entry they read
\* before the unlock, while the map is being changed by registrations.
Provenance ==
    \A d \in Dc :
        \/ <<d, val[d]>> \in given
        \/ <<d, val[d]>> \in told \ Malformed

\* A key that Start handed to the provider is still registered whenever the
\* provider reports it: no update of a watched key is dropped by the early
\* return of the callbacks.
WatchedKeysAreServed ==
    \A w \in Watcher :
        pc[w] = "callback" /\ call[w].key \in watched[w] => call[w].ent # NoEntry

\* Once a Stop has returned, no watcher goroutine that was running when the
\* context was cancelled is left, in the middle of a callback or not.
StopDrains ==
    (\E s \in Stopper : stopping[s] = "returned")
        => \A w \in Watcher \ late : ~Running(w)

\* What an application relies on after Stop: no value moves any more unless
\* the application itself sets it, or has called Start again.
NoStoreAfterStop ==
    [][(\E s \in Stopper : stopping[s] = "returned") /\ late = {}
         => val' = val \/ \E d \in Dc : \E v \in Seed : SetDefaultAndValue(d, v)
      ]_vars

\* With Config.Disabled every DcValue keeps its default, whatever else the
\* application calls.
DisabledKeepsDefaults == disabled => val = defaultValue

\* Every call of Stop comes back, however many callbacks are under way.
StopTerminates ==
    \A s \in Stopper : stopping[s] = "waiting" ~> stopping[s] = "returned"

=============================================================================
