------------------------- MODULE FileProvider_proofs -------------------------
(***************************************************************************)
(* Proofs about FileProvider for any set of watchers, keys and strings,    *)
(* any number of edits and of fsnotify errors.                             *)
(***************************************************************************)
EXTENDS FileProvider, SequenceTheorems, TLAPS

\* The lock: one watcher reports at a time.
Mutex == \A w, v \in Watcher : pc[w] = "emit" /\ pc[v] = "emit" => w = v

\* What the watcher that reports has reported is what p.values says.
EmittedIsShown ==
    \A w \in Watcher : pc[w] = "emit" =>
        \A k \in Key \ todo[w] : Shows(k, view[k], log[at][k])

\* A watcher that has read an older file than the one there is has an event
\* left to take.
StaleIsPending ==
    \A w \in Watcher :
        pc[w] = "store" /\ read[w] # Len(log) => pending[w] = TRUE

\* An older file in p.values is on the way out: somebody has an event to take
\* or is on the way to store the file there is.
NewFileIsComing ==
    \/ missed = TRUE
    \/ broken = TRUE
    \/ at = Len(log)
    \/ \E w \in Watcher :
          \/ pending[w] = TRUE
          \/ pc[w] = "load"
          \/ pc[w] = "store" /\ read[w] = Len(log)

\* The second half of an edit is within the bound.
BrokenHasRoom == broken = TRUE => Len(log) <= MaxWrites

\* Events wait for watchers that have added the file.
PendingIsAdded == \A w \in Watcher : pending[w] = TRUE => Added(w)

IInv ==
    /\ TypeOK
    /\ BrokenHasRoom
    /\ Mutex
    /\ EmittedIsShown
    /\ ViewFollowsValues
    /\ StaleIsPending
    /\ PendingIsAdded
    /\ NewFileIsComing

\* The steps of one Watch call.
Step(w) ==
    \/ AddOk(w) \/ AddFails(w)
    \/ TakeEvent(w) \/ IgnoreEvent(w) \/ Load(w) \/ Emit(w)
    \/ WatchError(w) \/ BackoffElapses(w) \/ Return(w)

-----------------------------------------------------------------------------
(* Types.                                                                  *)

LEMMA InitTypeOK == Init => TypeOK /\ BrokenHasRoom
<1> SUFFICES ASSUME Init PROVE TypeOK /\ BrokenHasRoom
  OBVIOUS
<1>1. log \in Seq(Contents) /\ Len(log) = 1
  BY DEF Init
<1>2. /\ view \in [Key -> Val] /\ seen \in [Key -> 0 .. Len(log)]
      /\ Len(log) \in 1 .. MaxWrites + 1 /\ at \in 1 .. Len(log)
      /\ errors \in 0 .. MaxErrors
  BY <1>1, FileAssumption DEF Init, Val
<1>3. /\ broken \in BOOLEAN /\ missed \in BOOLEAN /\ cancelled \in BOOLEAN
      /\ pending \in [Watcher -> BOOLEAN]
  BY Zenon DEF Init
<1>4. /\ pc \in [Watcher -> {"add", "lock", "emit", "select", "load", "store",
                             "backoff", "returned", "failed"}]
      /\ read \in [Watcher -> 1 .. Len(log)]
      /\ todo \in [Watcher -> SUBSET Key]
      /\ \A w \in Watcher : todo[w] # {} => pc[w] = "emit"
  BY <1>1 DEF Init
<1>5. BrokenHasRoom
  BY DEF Init, BrokenHasRoom
<1> QED
  BY <1>1, <1>2, <1>3, <1>4, <1>5, Zenon DEF TypeOK

\* An edit makes the history one longer, or none.
LEMMA EditTypeOK ==
  ASSUME TypeOK, BrokenHasRoom, Replace \/ Truncate \/ Fill
  PROVE  TypeOK' /\ BrokenHasRoom'
<1>1. /\ log' \in Seq(Contents)
      /\ Len(log') \in 1 .. MaxWrites + 1
      /\ Len(log') >= Len(log)
  <2>1. CASE Truncate
    BY <2>1 DEF Truncate, TypeOK
  <2>2. CASE Replace
    BY <2>2, FileAssumption DEF Replace, TypeOK
  <2>3. CASE Fill
    BY <2>3, FileAssumption DEF Fill, TypeOK, BrokenHasRoom
  <2> QED
    BY <2>1, <2>2, <2>3
<1>2. UNCHANGED <<errors, view, seen, cancelled, at, pc, read, todo>>
  BY DEF Replace, Truncate, Fill, FileChanges, sdkVars, watchVars
<1>3. /\ seen' \in [Key -> 0 .. Len(log')] /\ at' \in 1 .. Len(log')
      /\ read' \in [Watcher -> 1 .. Len(log')]
  BY <1>1, <1>2 DEF TypeOK
<1>4. broken' \in BOOLEAN
  BY Zenon DEF Replace, Truncate, Fill, TypeOK
<1>5. /\ missed' \in BOOLEAN
      /\ pending' \in [Watcher -> BOOLEAN]
  BY Zenon DEF Replace, Truncate, Fill, FileChanges, TypeOK
<1>6. TypeOK'
  BY <1>1, <1>2, <1>3, <1>4, <1>5, Zenon DEF TypeOK
<1>7. BrokenHasRoom'
  BY DEF Replace, Truncate, Fill, FileChanges, BrokenHasRoom
<1> QED
  BY <1>6, <1>7

\* What a watcher reads or reports comes from a position of the history.
LEMMA StepTypeOK ==
  ASSUME TypeOK, BrokenHasRoom, NEW w \in Watcher, Step(w)
  PROVE  TypeOK' /\ BrokenHasRoom'
<1> USE DEF fileVars, sdkVars, watchVars, Goto
<1>1. UNCHANGED <<log, broken, cancelled>>
  BY DEF Step, AddOk, AddFails, TakeEvent, IgnoreEvent, Load, LoadReads,
         LoadFails, LoadStores, Emit, EmitBegins, EmitKey, EmitEnds, WatchError,
         BackoffElapses, Return
<1>2. missed' \in BOOLEAN /\ pending' \in [Watcher -> BOOLEAN]
  <2>1. pending' = pending \/ pending' = [pending EXCEPT ![w] = FALSE]
    BY DEF Step, AddOk, AddFails, TakeEvent, IgnoreEvent, Load, LoadReads,
           LoadFails, LoadStores, Emit, EmitBegins, EmitKey, EmitEnds,
           WatchError, BackoffElapses, Return
  <2>2. missed' = missed \/ missed' \in BOOLEAN \/ WatchError(w)
    BY DEF Step, AddOk, AddFails, TakeEvent, IgnoreEvent, Load, LoadReads,
           LoadFails, LoadStores, Emit, EmitBegins, EmitKey, EmitEnds,
           BackoffElapses, Return
  <2>3. WatchError(w) => missed' \in BOOLEAN
    BY Zenon DEF WatchError, TypeOK
  <2>4. missed' \in BOOLEAN
    BY <2>2, <2>3, Zenon DEF TypeOK
  <2>5. [pending EXCEPT ![w] = FALSE] \in [Watcher -> BOOLEAN]
    BY Zenon DEF TypeOK
  <2> QED
    BY <2>1, <2>4, <2>5, Zenon DEF TypeOK
<1>3. errors' \in 0 .. MaxErrors
  BY FileAssumption
  DEF Step, AddOk, AddFails, TakeEvent, IgnoreEvent, Load, LoadReads, LoadFails,
      LoadStores, Emit, EmitBegins, EmitKey, EmitEnds, WatchError,
      BackoffElapses, Return, TypeOK
<1>4. view' \in [Key -> Val] /\ seen' \in [Key -> 0 .. Len(log)]
  <2>1. CASE \E k \in Key : EmitKey(w, k)
    <3>1. PICK k \in Key : EmitKey(w, k)
      BY <2>1
    <3>2. log[at][k] \in Raw \cup {Absent} /\ at \in 0 .. Len(log)
      BY DEF TypeOK, Contents
    <3>3. Applied(k, view[k], log[at][k]) \in Val
      BY <3>2 DEF Applied, RevertEntry, UpdateEntry, Val, TypeOK
    <3> QED
      BY <3>1, <3>2, <3>3 DEF EmitKey, TypeOK
  <2>2. CASE UNCHANGED sdkVars
    BY <2>2 DEF TypeOK
  <2> QED
    BY <2>1, <2>2
    DEF Step, AddOk, AddFails, TakeEvent, IgnoreEvent, Load, LoadReads,
        LoadFails, LoadStores, Emit, EmitBegins, EmitEnds, WatchError,
        BackoffElapses, Return
<1>5. /\ at' \in 1 .. Len(log) /\ read' \in [Watcher -> 1 .. Len(log)]
      /\ todo' \in [Watcher -> SUBSET Key]
      /\ pc' \in [Watcher -> {"add", "lock", "emit", "select", "load", "store",
                              "backoff", "returned", "failed"}]
  <2>1. at' = at \/ at' = read[w]
    BY DEF Step, AddOk, AddFails, TakeEvent, IgnoreEvent, Load, LoadReads,
           LoadFails, LoadStores, Emit, EmitBegins, EmitKey, EmitEnds,
           WatchError, BackoffElapses, Return
  <2>2. read' = read \/ read' = [read EXCEPT ![w] = Len(log)]
    BY DEF Step, AddOk, AddFails, TakeEvent, IgnoreEvent, Load, LoadReads,
           LoadFails, LoadStores, Emit, EmitBegins, EmitKey, EmitEnds,
           WatchError, BackoffElapses, Return
  <2>3. \/ todo' = todo \/ todo' = [todo EXCEPT ![w] = Key]
        \/ \E k \in Key : todo' = [todo EXCEPT ![w] = todo[w] \ {k}]
    BY DEF Step, AddOk, AddFails, TakeEvent, IgnoreEvent, Load, LoadReads,
           LoadFails, LoadStores, Emit, EmitBegins, EmitKey, EmitEnds,
           WatchError, BackoffElapses, Return
  <2>4. \/ pc' = pc
        \/ \E l \in {"lock", "emit", "select", "load", "store", "backoff",
                     "returned", "failed"} : pc' = [pc EXCEPT ![w] = l]
    BY DEF Step, AddOk, AddFails, TakeEvent, IgnoreEvent, Load, LoadReads,
           LoadFails, LoadStores, Emit, EmitBegins, EmitKey, EmitEnds,
           WatchError, BackoffElapses, Return
  <2>5. at' \in 1 .. Len(log) /\ read' \in [Watcher -> 1 .. Len(log)]
    <3>1. /\ Len(log) \in Nat /\ Len(log) \in 1 .. Len(log)
          /\ read \in [Watcher -> 1 .. Len(log)] /\ at \in 1 .. Len(log)
      BY FileAssumption DEF TypeOK
    <3> QED
      BY <2>1, <2>2, <3>1
  <2>6. todo' \in [Watcher -> SUBSET Key]
    <3>1. todo \in [Watcher -> SUBSET Key] /\ Key \in SUBSET Key
      BY DEF TypeOK
    <3>2. \A k \in Key : todo[w] \ {k} \in SUBSET Key
      BY <3>1
    <3> QED
      BY <2>3, <3>1, <3>2
  <2>7. pc' \in [Watcher -> {"add", "lock", "emit", "select", "load", "store",
                            "backoff", "returned", "failed"}]
    <3>1. pc \in [Watcher -> {"add", "lock", "emit", "select", "load", "store",
                             "backoff", "returned", "failed"}]
      BY DEF TypeOK
    <3> QED
      BY <2>4, <3>1
  <2> QED
    BY <2>5, <2>6, <2>7
<1>6. \A v \in Watcher : todo'[v] # {} => pc'[v] = "emit"
  BY DEF Step, AddOk, AddFails, TakeEvent, IgnoreEvent, Load, LoadReads,
         LoadFails, LoadStores, Emit, EmitBegins, EmitKey, EmitEnds, WatchError,
         BackoffElapses, Return, TypeOK
<1>7. TypeOK'
  BY <1>1, <1>2, <1>3, <1>4, <1>5, <1>6, Zenon DEF TypeOK
<1> QED
  BY <1>1, <1>7 DEF BrokenHasRoom

-----------------------------------------------------------------------------
(* The lock, and what is shown.                                            *)

\* A watcher moves itself only, and takes the lock when nobody has it.
LEMMA StepMoves ==
  ASSUME TypeOK, NEW w \in Watcher, Step(w)
  PROVE  /\ \A v \in Watcher : v # w => pc'[v] = pc[v] /\ todo'[v] = todo[v]
         /\ pc'[w] = "emit" => pc[w] = "emit" \/ Unlocked
         /\ UNCHANGED log
BY DEF Step, AddOk, AddFails, TakeEvent, IgnoreEvent, Load, LoadReads,
       LoadFails, LoadStores, Emit, EmitBegins, EmitKey, EmitEnds, WatchError,
       BackoffElapses, Return, Goto, fileVars, sdkVars, watchVars, TypeOK

LEMMA StepMutex ==
  ASSUME TypeOK, Mutex, NEW w \in Watcher, Step(w) PROVE Mutex'
BY StepMoves DEF Mutex, Unlocked

\* Nothing that is shown or loaded changes in the other steps.
LEMMA QuietShown ==
  ASSUME TypeOK, EmittedIsShown, ViewFollowsValues, NEW w \in Watcher,
         \A v \in Watcher : v # w => pc'[v] = pc[v],
         pc[w] \notin {"lock", "emit"}, pc'[w] # "emit",
         pc'[w] # "lock" =>
            /\ pc'[w] \in {"select", "load", "store", "backoff"}
               => pc[w] \in {"select", "load", "store", "backoff"},
         UNCHANGED <<log, at, view, todo>>
  PROVE  EmittedIsShown' /\ ViewFollowsValues'
<1>1. EmittedIsShown'
  BY DEF EmittedIsShown
<1>2. ViewFollowsValues'
  BY DEF ViewFollowsValues
<1> QED
  BY <1>1, <1>2

LEMMA StepShown ==
  ASSUME TypeOK, Mutex, EmittedIsShown, ViewFollowsValues,
         NEW w \in Watcher, Step(w)
  PROVE  EmittedIsShown' /\ ViewFollowsValues'
<1> USE DEF fileVars, sdkVars, watchVars, Goto
<1>1. CASE EmitBegins(w)
  <2>1. pc'[w] = "emit" /\ todo'[w] = Key /\ UNCHANGED <<log, at, view>>
    BY <1>1 DEF EmitBegins, TypeOK
  <2>2. EmittedIsShown'
    BY <2>1, StepMoves DEF EmittedIsShown
  <2> QED
    BY <2>1, <2>2 DEF ViewFollowsValues
<1>2. ASSUME NEW k \in Key, EmitKey(w, k)
      PROVE  EmittedIsShown' /\ ViewFollowsValues'
  <2>1. /\ pc[w] = "emit" /\ todo'[w] = todo[w] \ {k}
        /\ UNCHANGED <<log, at, pc>>
        /\ view' = [view EXCEPT ![k] = Applied(k, @, log[at][k])]
    BY <1>2 DEF EmitKey, TypeOK
  <2>2. /\ Shows(k, view'[k], log[at][k])
        /\ \A j \in Key : j # k => view'[j] = view[j]
    <3>1. Shows(k, Applied(k, view[k], log[at][k]), log[at][k])
      BY DEF Applied, RevertEntry, UpdateEntry, Shows
    <3> QED
      BY <2>1, <3>1 DEF TypeOK
  <2>3. ASSUME NEW v \in Watcher, pc'[v] = "emit", NEW j \in Key \ todo'[v]
        PROVE  Shows(j, view'[j], log'[at'][j])
    <3>1. v = w
      BY <2>1, <2>3 DEF Mutex
    <3> QED
      BY <2>1, <2>2, <2>3, <3>1 DEF EmittedIsShown
  <2>4. EmittedIsShown'
    BY <2>3 DEF EmittedIsShown
  <2> QED
    BY <2>1, <2>4 DEF ViewFollowsValues
<1>3. CASE EmitEnds(w)
  <2>1. /\ pc[w] = "emit" /\ todo[w] = {} /\ pc'[w] = "select"
        /\ UNCHANGED <<log, at, view, todo>>
    BY <1>3 DEF EmitEnds, TypeOK
  <2>2. \A k \in Key : Shows(k, view[k], log[at][k])
    BY <2>1 DEF EmittedIsShown
  <2> QED
    BY <2>1, <2>2 DEF EmittedIsShown, ViewFollowsValues
<1>4. CASE LoadStores(w)
  <2>1. /\ pc'[w] = "lock"
        /\ \A v \in Watcher : pc[v] # "emit"
    BY <1>4 DEF LoadStores, Unlocked, TypeOK
  <2>2. \A v \in Watcher : pc'[v] # "emit"
    BY <2>1, StepMoves
  <2> QED
    BY <2>1, <2>2 DEF EmittedIsShown, ViewFollowsValues
<1>5. CASE \/ AddOk(w) \/ AddFails(w) \/ TakeEvent(w) \/ IgnoreEvent(w)
           \/ LoadReads(w) \/ LoadFails(w) \/ WatchError(w)
           \/ BackoffElapses(w) \/ Return(w)
  <2>1. /\ pc[w] \notin {"lock", "emit"} /\ pc'[w] # "emit"
        /\ pc'[w] # "lock" =>
              /\ pc'[w] \in {"select", "load", "store", "backoff"}
                 => pc[w] \in {"select", "load", "store", "backoff"}
        /\ UNCHANGED <<log, at, view, todo>>
    BY <1>5 DEF AddOk, AddFails, TakeEvent, IgnoreEvent, LoadReads, LoadFails,
       WatchError, BackoffElapses, Return, TypeOK
  <2> QED
    BY <2>1, StepMoves, QuietShown
<1> QED
  BY <1>1, <1>2, <1>3, <1>4, <1>5 DEF Step, Load, Emit

-----------------------------------------------------------------------------
(* The newest file.                                                        *)

\* An event comes with every edit, or the edit is missed.
LEMMA EditComes ==
  ASSUME IInv, Replace \/ Truncate \/ Fill
  PROVE  StaleIsPending' /\ PendingIsAdded' /\ NewFileIsComing'
<1>1. /\ UNCHANGED <<pc, read>>
      /\ \A w \in Watcher : pending'[w] = (pending[w] \/ Added(w))
      /\ (\A w \in Watcher : ~Added(w)) => missed' = TRUE
  BY DEF Replace, Truncate, Fill, FileChanges, watchVars
<1>2. \A w \in Watcher : Added(w) => pending'[w] = TRUE
  BY <1>1
<1>3. \A w \in Watcher : Added(w)' <=> Added(w)
  BY <1>1 DEF Added
<1>4. StaleIsPending'
  BY <1>1, <1>2 DEF StaleIsPending, Added
<1>5. PendingIsAdded'
  BY <1>1, <1>3 DEF PendingIsAdded, IInv, TypeOK
<1>6. NewFileIsComing'
  BY <1>1, <1>2 DEF NewFileIsComing
<1> QED
  BY <1>4, <1>5, <1>6

LEMMA StepComes ==
  ASSUME IInv, NEW w \in Watcher, Step(w)
  PROVE  StaleIsPending' /\ PendingIsAdded' /\ NewFileIsComing'
<1> USE DEF fileVars, sdkVars, watchVars, Goto
<1>1. CASE TakeEvent(w)
  <2>1. /\ pc[w] = "select" /\ pc'[w] = "load" /\ pending'[w] = FALSE
        /\ \A v \in Watcher : v # w => pending'[v] = pending[v]
        /\ UNCHANGED <<log, broken, missed, at, read>>
    BY <1>1 DEF TakeEvent, IInv, TypeOK
  <2> QED
    BY <2>1, StepMoves
    DEF IInv, StaleIsPending, PendingIsAdded, Added, NewFileIsComing
<1>2. CASE LoadReads(w)
  <2>1. /\ pc[w] = "load" /\ pc'[w] = "store" /\ read'[w] = Len(log)
        /\ \A v \in Watcher : v # w => read'[v] = read[v]
        /\ UNCHANGED <<log, broken, pending, at>>
    BY <1>2 DEF LoadReads, IInv, TypeOK
  <2> QED
    BY <2>1, StepMoves
    DEF IInv, StaleIsPending, PendingIsAdded, Added, NewFileIsComing
<1>3. CASE LoadStores(w)
  <2>1. /\ pc[w] = "store" /\ pc'[w] = "lock" /\ at' = read[w]
        /\ UNCHANGED <<log, broken, missed, pending, read>>
    BY <1>3 DEF LoadStores, IInv, TypeOK
  <2> QED
    BY <2>1, StepMoves
    DEF IInv, StaleIsPending, PendingIsAdded, Added, NewFileIsComing
<1>4. CASE WatchError(w)
  <2>1. /\ pc[w] = "select" /\ pc'[w] = "backoff" /\ pending'[w] = FALSE
        /\ \A v \in Watcher : v # w => pending'[v] = pending[v]
        /\ missed' = (missed \/ pending[w])
        /\ UNCHANGED <<log, broken, at, read>>
    BY <1>4 DEF WatchError, IInv, TypeOK
  <2>2. missed = TRUE \/ pending[w] = TRUE => missed' = TRUE
    BY <2>1
  <2> QED
    BY <2>1, <2>2, StepMoves
    DEF IInv, StaleIsPending, PendingIsAdded, Added, NewFileIsComing
<1>5. CASE IgnoreEvent(w)
  <2>1. /\ pc[w] = "select" /\ pc' = pc /\ pending'[w] = FALSE
        /\ \A v \in Watcher : v # w => pending'[v] = pending[v]
        /\ missed' = TRUE
        /\ UNCHANGED <<log, broken, at, read>>
    BY <1>5 DEF IgnoreEvent, IInv, TypeOK
  <2> QED
    BY <2>1
    DEF IInv, StaleIsPending, PendingIsAdded, Added, NewFileIsComing
<1>6. CASE \/ AddOk(w) \/ AddFails(w) \/ LoadFails(w) \/ Emit(w)
           \/ BackoffElapses(w) \/ Return(w)
  <2>1. /\ pc[w] # "store" /\ pc'[w] # "store"
        /\ pc[w] = "load" => broken = TRUE
        /\ pc[w] \notin {"add", "failed"} => pc'[w] \notin {"add", "failed"}
        /\ UNCHANGED <<log, broken, missed, pending, at, read>>
    BY <1>6 DEF AddOk, AddFails, LoadFails, Emit, EmitBegins, EmitKey,
       EmitEnds, BackoffElapses, Return, IInv, TypeOK
  <2> QED
    BY <2>1, StepMoves
    DEF IInv, StaleIsPending, PendingIsAdded, Added, NewFileIsComing
<1> QED
  BY <1>1, <1>2, <1>3, <1>4, <1>5, <1>6 DEF Step, Load

-----------------------------------------------------------------------------
(* The properties.                                                         *)

\* Nothing else changes what the invariant is about.
LEMMA StopInv == ASSUME IInv, Cancel \/ UNCHANGED vars PROVE IInv'
<1>1. UNCHANGED <<log, broken, pending, errors, missed, view, seen, at, pc,
                  read, todo>>
  BY DEF Cancel, vars, fileVars, sdkVars, watchVars
<1>2. cancelled' \in BOOLEAN
  BY Zenon DEF Cancel, vars, IInv, TypeOK
<1>3. TypeOK'
  BY <1>1, <1>2, Zenon DEF IInv, TypeOK
<1> QED
  BY <1>1, <1>3
  DEF IInv, BrokenHasRoom, Mutex, EmittedIsShown, ViewFollowsValues,
      StaleIsPending, PendingIsAdded, Added, NewFileIsComing

\* Every reachable state satisfies the invariant.
THEOREM Invariance == Spec => []IInv
<1>1. Init => IInv
  BY InitTypeOK
  DEF Init, IInv, Mutex, EmittedIsShown, ViewFollowsValues, StaleIsPending,
      PendingIsAdded, NewFileIsComing
<1>2. ASSUME IInv, Replace \/ Truncate \/ Fill PROVE IInv'
  <2>1. /\ UNCHANGED <<view, at, pc, todo>>
        /\ log' = log \/ \E c \in Contents : log' = Append(log, c)
    BY <1>2 DEF Replace, Truncate, Fill, FileChanges, sdkVars, watchVars
  <2>2. log'[at'] = log[at]
    <3>1. log \in Seq(Contents) /\ at \in 1 .. Len(log)
      BY <1>2 DEF IInv, TypeOK
    <3> QED
      BY <2>1, <3>1
  <2>3. Mutex' /\ EmittedIsShown' /\ ViewFollowsValues'
    <3>1. Mutex'
      BY <1>2, <2>1 DEF IInv, Mutex
    <3>2. EmittedIsShown'
      BY <1>2, <2>1, <2>2 DEF IInv, EmittedIsShown
    <3>3. ViewFollowsValues'
      BY <1>2, <2>1, <2>2 DEF IInv, ViewFollowsValues
    <3> QED
      BY <3>1, <3>2, <3>3
  <2> QED
    BY <1>2, <2>3, EditTypeOK, EditComes DEF IInv
<1>3. ASSUME IInv, NEW w \in Watcher, Step(w) PROVE IInv'
  BY <1>3, StepTypeOK, StepMutex, StepShown, StepComes DEF IInv
<1>4. ASSUME IInv, [Next]_vars PROVE IInv'
  BY <1>2, <1>3, <1>4, StopInv DEF Next, Step
<1> QED
  BY <1>1, <1>4, PTL DEF Spec

\* Every variable keeps its type.
THEOREM TypeCorrect == Spec => []TypeOK
<1>1. IInv => TypeOK
  BY DEF IInv
<1> QED
  BY <1>1, Invariance, PTL

\* The lock is held while the values are reported, and values are replaced
\* only by a watcher that reports them next: no mixture of two files is left.
THEOREM ViewFollowsValuesHolds == Spec => []ViewFollowsValues
<1>1. IInv => ViewFollowsValues
  BY DEF IInv
<1> QED
  BY <1>1, Invariance, PTL

\* An older file that is stored over a newer one is replaced in the end: when
\* nobody has anything to do, the newest file is loaded.
THEOREM QuietIsCurrentHolds == Spec => []QuietIsCurrent
<1>1. IInv => QuietIsCurrent
  <2> SUFFICES ASSUME IInv,
                      \A w \in Watcher : Added(w) => pc[w] = "select"
                                                     /\ ~pending[w],
                      ~missed, ~broken
               PROVE  at = Len(log)
    BY DEF QuietIsCurrent
  <2>1. \A w \in Watcher : pending[w] # TRUE
    BY DEF IInv, PendingIsAdded
  <2>2. \A w \in Watcher : pc[w] \notin {"load", "store"}
    BY DEF Added
  <2> QED
    BY <2>1, <2>2 DEF IInv, NewFileIsComing
<1> QED
  BY <1>1, Invariance, PTL

-----------------------------------------------------------------------------
(* One watcher implements the contract.                                    *)

\* What a watcher has read is no older than what is loaded, and no report took
\* account of a newer file than that.  With two watchers neither would hold.
Ordered ==
    /\ \A w \in Watcher : at <= read[w]
    /\ \A k \in Key : seen[k] <= at

LEMMA NextOrdered ==
  ASSUME \A v, w \in Watcher : v = w, TypeOK, Ordered, [Next]_vars
  PROVE  Ordered'
<1> USE DEF fileVars, sdkVars, watchVars
<1>1. /\ at \in 1 .. Len(log) /\ Len(log) \in Nat
      /\ read \in [Watcher -> 1 .. Len(log)]
      /\ seen \in [Key -> 0 .. Len(log)]
  BY FileAssumption DEF TypeOK
<1>2. CASE UNCHANGED <<at, read, seen>>
  BY <1>2 DEF Ordered
<1>3. ASSUME NEW w \in Watcher, NEW k \in Key, EmitKey(w, k) PROVE Ordered'
  BY <1>1, <1>3 DEF EmitKey, Ordered
<1>4. ASSUME NEW w \in Watcher, LoadReads(w) PROVE Ordered'
  BY <1>1, <1>4 DEF LoadReads, Ordered
<1>5. ASSUME NEW w \in Watcher, LoadStores(w) PROVE Ordered'
  <2>1. at' = read[w] /\ UNCHANGED <<read, seen>>
    BY <1>5 DEF LoadStores
  <2>2. ASSUME NEW k \in Key PROVE seen[k] <= read[w]
    <3>1. seen[k] <= at /\ at <= read[w]
      BY DEF Ordered
    <3> QED
      BY <1>1, <3>1
  <2>3. \A v \in Watcher : read[w] <= read[v]
    BY <1>1
  <2> QED
    BY <2>1, <2>2, <2>3 DEF Ordered
<1> QED
  BY <1>2, <1>3, <1>4, <1>5
  DEF Next, vars, Replace, Truncate, Fill, FileChanges, Cancel, AddOk,
      AddFails, TakeEvent, IgnoreEvent, Load, LoadFails, Emit, EmitBegins,
      EmitEnds, WatchError, BackoffElapses, Return, Goto

\* A report is a Sync.
LEMMA EmitSyncs ==
  ASSUME TypeOK, Ordered, NEW w \in Watcher, NEW k \in Key, EmitKey(w, k)
  PROVE  Contract!Next
<1>1. at \in 1 .. Len(log) /\ at >= seen[k]
  BY DEF TypeOK, Ordered
<1>2. [s \in {"watch"} |-> seen]'
          = [[s \in {"watch"} |-> seen] EXCEPT !["watch"][k] = at]
  BY DEF EmitKey
<1>3. Contract!Sync("watch", k, at)
  BY <1>1, <1>2
  DEF EmitKey, fileVars, Contract!Sync, Contract!Applied,
      Contract!UpdateEntry, Contract!RevertEntry, Contract!Decodes, Applied,
      UpdateEntry, RevertEntry, Decodes
<1> QED
  BY <1>1, <1>3 DEF Contract!Next

\* A single Watch call reports only what the file held, and never an older
\* file after a newer one.
THEOREM OneWatcherImplementsContract ==
  (\A v, w \in Watcher : v = w) => (Spec => Implements)
<1> SUFFICES ASSUME \A v, w \in Watcher : v = w PROVE Spec => Implements
  OBVIOUS
<1>1. Init => Contract!Init
  BY DEF Init, Contract!Init, Contract!Contents, Contents
<1>2. Init => Ordered
  BY DEF Init, Ordered
<1>3. TypeOK /\ Ordered /\ [Next]_vars => Ordered'
  BY NextOrdered
<1>4. ASSUME TypeOK, Ordered, [Next]_vars
      PROVE  [Contract!Next]_Contract!vars
  <2>1. CASE \E c \in Contents : log' = Append(log, c) /\ UNCHANGED sdkVars
    BY <2>1 DEF sdkVars, Contract!Next, Contract!Publish, Contract!Contents,
                Contents
  <2>2. CASE UNCHANGED <<log, sdkVars>>
    BY <2>2 DEF sdkVars, Contract!vars
  <2>3. \/ \E c \in Contents : log' = Append(log, c) /\ UNCHANGED sdkVars
        \/ UNCHANGED <<log, sdkVars>>
        \/ \E w \in Watcher : \E k \in Key : EmitKey(w, k)
    BY <1>4
    DEF Next, vars, fileVars, Replace, Truncate, Fill, FileChanges, Cancel,
        AddOk, AddFails, TakeEvent, IgnoreEvent, Load, LoadReads, LoadFails,
        LoadStores, Emit, EmitBegins, EmitEnds, WatchError, BackoffElapses,
        Return
  <2> QED
    BY <1>4, <2>1, <2>2, <2>3, EmitSyncs
<1> QED
  BY <1>1, <1>2, <1>3, <1>4, TypeCorrect, PTL
  DEF Spec, Implements, Contract!Spec

=============================================================================
