--------------------------- MODULE PoyaSDK_proofs ---------------------------
(***************************************************************************)
(* Proofs about PoyaSDK, for any number of keys, DcValues, values,         *)
(* watchers and Stop calls.                                                *)
(***************************************************************************)
EXTENDS PoyaSDK, TLAPS

\* What makes Provenance inductive: every default an entry or a callback in
\* flight could store was given to that very DcValue, and so was every
\* DcValue's own; and what a callback is about to store was reported for it.
EntriesAreGiven ==
    /\ \A d \in Dc : <<d, defaultValue[d]>> \in given
    /\ \A k \in Key :
          values[k] # NoEntry => <<values[k].dc, values[k].defaultVal>> \in given

CallsAreGiven ==
    \A w \in Watcher : pc[w] = "callback" /\ call[w].ent # NoEntry =>
        /\ <<call[w].ent.dc, call[w].ent.defaultVal>> \in given
        /\ call[w].raw # Deleted => <<call[w].ent.dc, call[w].raw>> \in told

\* What makes WatchedKeysAreServed inductive: registration is for good.
WatchedAreRegistered ==
    \A w \in Watcher : \A k \in watched[w] : values[k] # NoEntry

\* What makes StopDrains inductive: no Stop waits on a live context.
StopCancels == (\E s \in Stopper : stopping[s] # "uncalled") => cancelled

GivenInv == Provenance /\ EntriesAreGiven /\ CallsAreGiven
ServedInv == WatchedAreRegistered /\ WatchedKeysAreServed
StopInv == StopCancels /\ StopDrains

-----------------------------------------------------------------------------
\* The initial states satisfy the type invariant.
LEMMA InitTypeOK == Init => TypeOK
<1> SUFFICES ASSUME Init PROVE TypeOK
  OBVIOUS
<1>1. val \in [Dc -> Seed \cup Raw]
  BY DEF Init
<1>2. call \in [Watcher -> Call \cup {NoCall}]
  BY DEF Init
<1>3. \A w \in Watcher : pc[w] = "callback" <=> call[w] # NoCall
  BY DEF Init
<1>4. given \subseteq Dc \X Seed
  BY DEF Init
<1> QED
  BY <1>1, <1>2, <1>3, <1>4 DEF Init, TypeOK

\* Every step preserves it, action by action.
LEMMA NextTypeOK == TypeOK /\ [Next]_vars => TypeOK'
<1> SUFFICES ASSUME TypeOK, [Next]_vars PROVE TypeOK'
  OBVIOUS
<1> USE SDKAssumption DEF TypeOK, appVars, valueVars, watchVars, histVars
<1>1. ASSUME NEW d \in Dc, NEW v \in Seed, SetDefaultAndValue(d, v)
      PROVE  TypeOK'
  BY <1>1 DEF SetDefaultAndValue
<1>2. ASSUME NEW d \in Dc, NEW k \in Key, Register(d, k)
      PROVE  TypeOK'
  BY <1>2 DEF Register, EntryOf, Entry
<1>3. ASSUME NEW c \in Config, RegisterConfig(c)
      PROVE  TypeOK'
  <2>1. PICK D \in SUBSET Dc : c \in [D -> Key]
    OBVIOUS
  <2>2. registering' \subseteq Dc \X Key
    BY <1>3, <2>1 DEF RegisterConfig
  <2> QED
    BY <1>3, <2>2 DEF RegisterConfig
<1>4. ASSUME NEW d \in Dc, NEW k \in Key, HandleDcValue(d, k)
      PROVE  TypeOK'
  BY <1>4 DEF HandleDcValue, EntryOf, Entry
<1>5. ASSUME NEW w \in Watcher, Start(w)
      PROVE  TypeOK'
  BY <1>5 DEF Start, Registered
<1>6. ASSUME NEW s \in Stopper, Stop(s) \/ StopReturns(s)
      PROVE  TypeOK'
  BY <1>6 DEF Stop, StopReturns
<1>7. ASSUME NEW w \in Watcher, NEW k \in Key, NEW r \in Raw, OnChange(w, k, r)
      PROVE  TypeOK'
  <2>1. [key |-> k, raw |-> r, ent |-> values[k]] \in Call
    BY DEF Call
  <2>2. call' \in [Watcher -> Call \cup {NoCall}]
    BY <1>7, <2>1 DEF OnChange
  <2>3. \A x \in Watcher : pc'[x] = "callback" <=> call'[x] # NoCall
    BY <1>7, <2>1 DEF OnChange
  <2>4. told' \subseteq Dc \X Raw
    BY <1>7 DEF OnChange, Entry
  <2> QED
    BY <1>7, <2>2, <2>3, <2>4 DEF OnChange
<1>8. ASSUME NEW w \in Watcher, NEW k \in Key, OnDelete(w, k)
      PROVE  TypeOK'
  <2>1. [key |-> k, raw |-> Deleted, ent |-> values[k]] \in Call
    BY DEF Call
  <2>2. call' \in [Watcher -> Call \cup {NoCall}]
    BY <1>8, <2>1 DEF OnDelete
  <2>3. \A x \in Watcher : pc'[x] = "callback" <=> call'[x] # NoCall
    BY <1>8, <2>1 DEF OnDelete
  <2> QED
    BY <1>8, <2>2, <2>3 DEF OnDelete
<1>9. ASSUME NEW w \in Watcher, Callback(w)
      PROVE  TypeOK'
  <2>1. call[w] \in Call
    BY <1>9 DEF Callback, Unregistered, UpdateEntry, RevertEntry
  <2>2. val' \in [Dc -> Seed \cup Raw]
    BY <1>9, <2>1 DEF Callback, Unregistered, UpdateEntry, RevertEntry, Call, Entry
  <2> QED
    BY <1>9, <2>2
    DEF Callback, Unregistered, UpdateEntry, RevertEntry, CallbackReturns
<1>10. ASSUME NEW w \in Watcher, WatchReturns(w)
       PROVE  TypeOK'
  BY <1>10 DEF WatchReturns
<1>11. CASE UNCHANGED vars
  BY <1>11 DEF vars
<1> QED
  BY <1>1, <1>2, <1>3, <1>4, <1>5, <1>6, <1>7, <1>8, <1>9, <1>10, <1>11
  DEF Next, Application, Watching

\* Type correctness.
THEOREM TypeCorrect == Spec => []TypeOK
BY InitTypeOK, NextTypeOK, PTL DEF Spec

-----------------------------------------------------------------------------
\* A callback that returns leaves every other watcher's call alone.
LEMMA OtherCalls ==
  ASSUME TypeOK, NEW w \in Watcher, Callback(w), NEW x \in Watcher,
         pc'[x] = "callback"
  PROVE  pc[x] = "callback" /\ call'[x] = call[x]
BY DEF TypeOK, Callback, Unregistered, UpdateEntry, RevertEntry, CallbackReturns

\* Every step preserves the provenance of what is stored and of what may be
\* stored next.
LEMMA NextGivenInv == TypeOK /\ GivenInv /\ [Next]_vars => GivenInv'
<1> SUFFICES ASSUME TypeOK, GivenInv, [Next]_vars PROVE GivenInv'
  OBVIOUS
<1> USE DEF GivenInv, Provenance, EntriesAreGiven, CallsAreGiven
<1>1. ASSUME NEW d \in Dc, NEW v \in Seed, SetDefaultAndValue(d, v)
      PROVE  GivenInv'
  <2>1. Provenance'
    BY <1>1 DEF SetDefaultAndValue, TypeOK
  <2>2. EntriesAreGiven'
    BY <1>1 DEF SetDefaultAndValue, TypeOK
  <2>3. CallsAreGiven'
    BY <1>1 DEF SetDefaultAndValue, watchVars
  <2> QED
    BY <2>1, <2>2, <2>3
<1>2. ASSUME NEW d \in Dc, NEW k \in Key,
             Register(d, k) \/ HandleDcValue(d, k)
      PROVE  GivenInv'
  BY <1>2 DEF Register, HandleDcValue, EntryOf, TypeOK, valueVars, watchVars,
              histVars
<1>3. ASSUME NEW c \in Config, RegisterConfig(c)
      PROVE  GivenInv'
  BY <1>3 DEF RegisterConfig, valueVars, watchVars, histVars
<1>4. ASSUME NEW w \in Watcher, Start(w) \/ WatchReturns(w)
      PROVE  GivenInv'
  BY <1>4 DEF Start, WatchReturns, TypeOK, valueVars, histVars
<1>5. ASSUME NEW s \in Stopper, Stop(s) \/ StopReturns(s)
      PROVE  GivenInv'
  BY <1>5 DEF Stop, StopReturns, valueVars, watchVars, histVars
<1>6. ASSUME NEW w \in Watcher, NEW k \in Key, NEW r \in Raw, OnChange(w, k, r)
      PROVE  GivenInv'
  <2>1. Provenance' /\ EntriesAreGiven'
    BY <1>6 DEF OnChange, valueVars
  <2>2. CallsAreGiven'
    BY <1>6 DEF OnChange, TypeOK
  <2> QED
    BY <2>1, <2>2
<1>7. ASSUME NEW w \in Watcher, NEW k \in Key, OnDelete(w, k)
      PROVE  GivenInv'
  <2>1. Provenance' /\ EntriesAreGiven'
    BY <1>7 DEF OnDelete, valueVars, histVars
  <2>2. CallsAreGiven'
    BY <1>7 DEF OnDelete, TypeOK, histVars
  <2> QED
    BY <2>1, <2>2
<1>8. ASSUME NEW w \in Watcher, Callback(w)
      PROVE  GivenInv'
  <2>1. Provenance'
    BY <1>8 DEF Callback, Unregistered, UpdateEntry, RevertEntry,
                CallbackReturns, TypeOK, histVars
  <2>2. EntriesAreGiven'
    BY <1>8 DEF Callback, Unregistered, UpdateEntry, RevertEntry,
                CallbackReturns, histVars
  <2>3. CallsAreGiven'
    BY <1>8, OtherCalls
    DEF Callback, Unregistered, UpdateEntry, RevertEntry, CallbackReturns,
        histVars
  <2> QED
    BY <2>1, <2>2, <2>3
<1>9. CASE UNCHANGED vars
  BY <1>9 DEF vars, valueVars, watchVars, histVars
<1> QED
  BY <1>1, <1>2, <1>3, <1>4, <1>5, <1>6, <1>7, <1>8, <1>9
  DEF Next, Application, Watching

\* Get returns a default this DcValue was given, or a string a provider
\* reported for it and that decodes into its type.
THEOREM ProvenanceHolds == Spec => []Provenance
<1>1. Init => GivenInv
  BY DEF Init, GivenInv, Provenance, EntriesAreGiven, CallsAreGiven
<1>2. GivenInv => Provenance
  BY DEF GivenInv
<1> QED
  BY <1>1, <1>2, TypeCorrect, NextGivenInv, PTL DEF Spec

-----------------------------------------------------------------------------
\* Every step keeps watched keys registered, and callbacks about them served.
LEMMA NextServedInv == TypeOK /\ ServedInv /\ [Next]_vars => ServedInv'
<1> SUFFICES ASSUME TypeOK, ServedInv, [Next]_vars PROVE ServedInv'
  OBVIOUS
<1> USE SDKAssumption DEF ServedInv, WatchedAreRegistered, WatchedKeysAreServed
<1>1. ASSUME NEW d \in Dc, NEW k \in Key,
             Register(d, k) \/ HandleDcValue(d, k)
      PROVE  ServedInv'
  <2>1. EntryOf(d) # NoEntry
    BY DEF EntryOf, Entry, TypeOK
  <2> QED
    BY <1>1, <2>1 DEF Register, HandleDcValue, TypeOK, watchVars
<1>2. ASSUME NEW w \in Watcher, Start(w)
      PROVE  ServedInv'
  BY <1>2 DEF Start, Registered, TypeOK
<1>3. ASSUME NEW w \in Watcher, NEW k \in Key, NEW r \in Raw, OnChange(w, k, r)
      PROVE  ServedInv'
  BY <1>3 DEF OnChange, TypeOK
<1>4. ASSUME NEW w \in Watcher, NEW k \in Key, OnDelete(w, k)
      PROVE  ServedInv'
  BY <1>4 DEF OnDelete, TypeOK
<1>5. ASSUME NEW w \in Watcher, Callback(w)
      PROVE  ServedInv'
  BY <1>5, OtherCalls
  DEF Callback, Unregistered, UpdateEntry, RevertEntry, CallbackReturns
<1>6. ASSUME NEW w \in Watcher, WatchReturns(w)
      PROVE  ServedInv'
  BY <1>6 DEF WatchReturns, TypeOK
<1>7. ASSUME UNCHANGED <<values, watchVars>>
      PROVE  ServedInv'
  BY <1>7 DEF watchVars
<1> QED
  BY <1>1, <1>2, <1>3, <1>4, <1>5, <1>6, <1>7
  DEF Next, Application, Watching, SetDefaultAndValue, RegisterConfig, Stop,
      StopReturns, vars

\* No report of a key that Start handed to the provider is dropped.
THEOREM WatchedKeysServed == Spec => []WatchedKeysAreServed
<1>1. Init => ServedInv
  BY DEF Init, ServedInv, WatchedAreRegistered, WatchedKeysAreServed
<1>2. ServedInv => WatchedKeysAreServed
  BY DEF ServedInv
<1> QED
  BY <1>1, <1>2, TypeCorrect, NextServedInv, PTL DEF Spec

-----------------------------------------------------------------------------
\* Every step keeps Stop's promise: a watcher that is running once a Stop has
\* returned was started after the context was done.
LEMMA NextStopInv == TypeOK /\ StopInv /\ [Next]_vars => StopInv'
<1> SUFFICES ASSUME TypeOK, StopInv, [Next]_vars PROVE StopInv'
  OBVIOUS
<1> USE DEF StopInv, StopCancels, StopDrains
<1>1. ASSUME NEW w \in Watcher, Start(w)
      PROVE  StopInv'
  BY <1>1 DEF Start, Running, TypeOK, appVars
<1>2. ASSUME NEW s \in Stopper, Stop(s)
      PROVE  StopInv'
  BY <1>2 DEF Stop, Running, TypeOK, watchVars
<1>3. ASSUME NEW s \in Stopper, StopReturns(s)
      PROVE  StopInv'
  BY <1>3 DEF StopReturns, Running, TypeOK, watchVars
<1>4. ASSUME NEW w \in Watcher, Watching(w)
      PROVE  StopInv'
  <2>1. UNCHANGED <<stopping, cancelled, late>>
    BY <1>4 DEF Watching, OnChange, OnDelete, Callback, Unregistered,
                UpdateEntry, RevertEntry, CallbackReturns, WatchReturns, appVars
  <2>2. ASSUME NEW x \in Watcher, Running(x)' PROVE Running(x)
    BY <1>4, <2>2
    DEF Watching, OnChange, OnDelete, Callback, Unregistered, UpdateEntry,
        RevertEntry, CallbackReturns, WatchReturns, Running, TypeOK
  <2> QED
    BY <2>1, <2>2
<1>5. ASSUME UNCHANGED <<stopping, cancelled, watchVars>>
      PROVE  StopInv'
  BY <1>5 DEF watchVars, Running
<1> QED
  BY <1>1, <1>2, <1>3, <1>4, <1>5
  DEF Next, Application, SetDefaultAndValue, Register, RegisterConfig,
      HandleDcValue, vars, appVars

\* Once a Stop has returned, nothing that was running before is left.
THEOREM StopDrained == Spec => []StopDrains
<1>1. Init => StopInv
  BY DEF Init, StopInv, StopCancels, StopDrains
<1>2. StopInv => StopDrains
  BY DEF StopInv
<1> QED
  BY <1>1, <1>2, TypeCorrect, NextStopInv, PTL DEF Spec

\* After that, values only move when the application sets them.
THEOREM StoppedIsStill == Spec => NoStoreAfterStop
<1> DEFINE Still == \/ val' = val
                    \/ \E d \in Dc : \E v \in Seed : SetDefaultAndValue(d, v)
           Stopped == (\E s \in Stopper : stopping[s] = "returned") /\ late = {}
<1>1. StopDrains /\ [Next]_vars => [Stopped => Still]_vars
  <2> SUFFICES ASSUME StopDrains, [Next]_vars, Stopped PROVE Still
    OBVIOUS
  <2>1. \A w \in Watcher : ~Running(w)
    BY DEF StopDrains
  <2>2. \A w \in Watcher : ~Callback(w)
    BY <2>1 DEF Callback, Unregistered, UpdateEntry, RevertEntry, Running
  <2> QED
    BY <2>2
    DEF Next, Application, Watching, OnChange, OnDelete, WatchReturns, Register,
        RegisterConfig, HandleDcValue, Start, Stop, StopReturns, vars, valueVars
<1> QED
  BY <1>1, StopDrained, PTL DEF Spec, NoStoreAfterStop

-----------------------------------------------------------------------------
\* What makes DisabledKeepsDefaults inductive: no watcher is ever started.
DisabledInv ==
    disabled => val = defaultValue /\ \A w \in Watcher : pc[w] = "unstarted"

\* A disabled SDK leaves every DcValue at its default.
THEOREM DisabledIsInert == Spec => []DisabledKeepsDefaults
<1>1. Init => DisabledInv
  BY DEF Init, DisabledInv
<1>2. TypeOK /\ DisabledInv /\ [Next]_vars => DisabledInv'
  <2> SUFFICES ASSUME TypeOK, DisabledInv, disabled, [Next]_vars
               PROVE  DisabledInv'
    BY DEF DisabledInv, Next, Application, Watching, SetDefaultAndValue,
           Register, RegisterConfig, HandleDcValue, Start, Stop, StopReturns,
           OnChange, OnDelete, Callback, Unregistered, UpdateEntry, RevertEntry,
           CallbackReturns, WatchReturns, vars, appVars
  <2>1. \A w \in Watcher : ~Start(w) /\ ~Watching(w)
    BY DEF DisabledInv, Start, Watching, OnChange, OnDelete, Callback,
           Unregistered, UpdateEntry, RevertEntry, WatchReturns
  <2>2. ASSUME NEW d \in Dc, NEW v \in Seed, SetDefaultAndValue(d, v)
        PROVE  DisabledInv'
    BY <2>2 DEF SetDefaultAndValue, DisabledInv, watchVars
  <2> QED
    BY <2>1, <2>2
    DEF Next, Application, DisabledInv, Register, RegisterConfig, HandleDcValue,
        Stop, StopReturns, vars, appVars, valueVars, watchVars
<1>3. DisabledInv => DisabledKeepsDefaults
  BY DEF DisabledInv, DisabledKeepsDefaults
<1> QED
  BY <1>1, <1>2, <1>3, TypeCorrect, PTL DEF Spec

=============================================================================
