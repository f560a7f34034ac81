------------------------ MODULE PollProvider_proofs ------------------------
(***************************************************************************)
(* Proofs about PollProvider for any set of watchers, any set of keys, any *)
(* set of raw strings and any number of writes.                            *)
(***************************************************************************)
EXTENDS PollProvider, SequenceTheorems, TLAPS

\* What makes Mirror inductive: apart from the keys a poll has still to
\* compare, lastValues is what the latest successful read found, or lacks an
\* empty string that it found.
LastIsPolled ==
    \A w \in Watcher : at[w] > 0 =>
        \A k \in Key : (pc[w] = "emit" => k \notin todo[w]) =>
            \/ last[w][k] = Polled(w)[k]
            \/ last[w][k] = Absent /\ Polled(w)[k] = Empty

\* What makes the refinement work: a watcher's reads never go back.
SeenIsBehind == \A w \in Watcher : \A k \in Key : seen[w][k] <= at[w]

-----------------------------------------------------------------------------
\* A value that was read is a value or Absent.
LEMMA PolledType ==
  ASSUME TypeOK, NEW w \in Watcher, at[w] > 0, NEW k \in Key
  PROVE  /\ at[w] \in 1 .. Len(log)
         /\ log[at[w]] \in Contents
         /\ Polled(w) \in Contents
         /\ Polled(w)[k] \in (Raw \ Unreadable) \cup {Absent}
<1>1. at[w] \in 1 .. Len(log)
  BY DEF TypeOK
<1>2. log[at[w]] \in Contents
  BY <1>1 DEF TypeOK
<1> QED
  BY <1>1, <1>2 DEF Polled, Readable, Contents

\* What a callback leaves behind is a value.
LEMMA AppliedType ==
  ASSUME NEW k \in Key, NEW old \in Val, NEW c \in Raw \cup {Absent}
  PROVE  Applied(k, old, c) \in Val
BY DEF Applied, RevertEntry, UpdateEntry, Val

\* And the value it leaves behind shows what it was told.
LEMMA AppliedShows ==
  ASSUME NEW k, NEW old, NEW c
  PROVE  Shows(k, Applied(k, old, c), c)
BY DEF Applied, RevertEntry, UpdateEntry, Shows

\* The initial states satisfy the type invariant.
LEMMA InitTypeOK == Init => TypeOK
<1> SUFFICES ASSUME Init PROVE TypeOK
  OBVIOUS
<1>1. log \in Seq(Contents) /\ Len(log) = 1
  BY DEF Init
<1>2. view \in [Key -> Val]
  BY DEF Init, Val
<1>3. last \in [Watcher -> Contents]
  BY DEF Init, Contents
<1>4. seen \in [Watcher -> [Key -> 0 .. Len(log)]] /\ at \in [Watcher -> 0 .. Len(log)]
  BY <1>1 DEF Init
<1>5. /\ by \in [Key -> Watcher \cup {Nobody}]
      /\ pc = [w \in Watcher |-> "poll"]
      /\ todo \in [Watcher -> SUBSET Key]
      /\ cancelled \in BOOLEAN
  BY DEF Init
<1>6. Len(log) \in 1 .. MaxWrites + 1
  BY <1>1, PollAssumption
<1>7. missing \in BOOLEAN /\ (missing => CanBeMissing(Current))
  <2>1. PICK c \in Contents : log = <<c>> /\ missing \in {FALSE, CanBeMissing(c)}
    BY DEF Init
  <2>2. Current = c
    BY <2>1 DEF Current
  <2>3. CanBeMissing(c) \in BOOLEAN
    BY DEF CanBeMissing
  <2> QED
    BY <2>1, <2>2, <2>3
<1> QED
  BY <1>1, <1>2, <1>3, <1>4, <1>5, <1>6, <1>7 DEF TypeOK

\* Every step preserves it.
LEMMA NextTypeOK == TypeOK /\ [Next]_vars => TypeOK'
<1> SUFFICES ASSUME TypeOK, [Next]_vars PROVE TypeOK'
  OBVIOUS
<1> USE PollAssumption DEF backendVars, watchVars, storeVars
<1>0. ASSUME UNCHANGED backendVars
      PROVE  /\ missing' \in BOOLEAN
             /\ missing' => CanBeMissing(Current)'
  BY <1>0 DEF CanBeMissing, Current, TypeOK
<1>1. CASE Write
  <2>1. PICK c \in Contents :
          /\ log' = Append(log, c)
          /\ missing' \in {FALSE, CanBeMissing(c)}
    BY <1>1 DEF Write
  <2>2. log' \in Seq(Contents) /\ Len(log') = Len(log) + 1 /\ Current' = c
    BY <2>1 DEF Current, TypeOK
  <2>3. CanBeMissing(c) \in BOOLEAN /\ CanBeMissing(Current)' = CanBeMissing(c)
    BY <2>2 DEF CanBeMissing
  <2>4. missing' \in BOOLEAN /\ (missing' => CanBeMissing(Current)')
    BY <2>1, <2>3
  <2> QED
    BY <1>1, <2>2, <2>4 DEF Write, TypeOK
<1>2. ASSUME NEW w \in Watcher, PollOk(w) PROVE TypeOK'
  BY <1>0, <1>2 DEF PollOk, TypeOK
<1>3. ASSUME NEW w \in Watcher,
             PollFails(w) \/ Tick(w) \/ Return(w) \/ PollEnds(w)
      PROVE  TypeOK'
  BY <1>0, <1>3 DEF PollFails, Tick, Return, PollEnds, TypeOK
<1>4. ASSUME NEW w \in Watcher, NEW k \in Key,
             EmitChange(w, k) \/ EmitDelete(w, k)
      PROVE  TypeOK'
  <2>1. at[w] > 0
    BY <1>4 DEF EmitChange, EmitDelete, Compare, TypeOK
  <2>2. Polled(w)[k] \in Raw \cup {Absent} /\ at[w] \in 1 .. Len(log)
    BY <2>1, PolledType
  <2>3. Applied(k, view[k], Polled(w)[k]) \in Val
    BY <2>2, AppliedType DEF TypeOK
  <2>4. view' \in [Key -> Val] /\ by' \in [Key -> Watcher \cup {Nobody}]
    BY <1>4, <2>3 DEF EmitChange, EmitDelete, Report, TypeOK
  <2>7. seen' \in [Watcher -> [Key -> 0 .. Len(log)]]
    <3>1. [seen[w] EXCEPT ![k] = at[w]] \in [Key -> 0 .. Len(log)]
      BY <2>2 DEF TypeOK
    <3>2. seen' = [seen EXCEPT ![w] = [seen[w] EXCEPT ![k] = at[w]]]
      BY <1>4 DEF EmitChange, EmitDelete, Report, TypeOK
    <3> QED
      BY <3>1, <3>2 DEF TypeOK
  <2>5. last' \in [Watcher -> Contents]
    <3>1. last[w] \in [Key -> Raw \cup {Absent}]
      BY DEF TypeOK, Contents
    <3>2. [last[w] EXCEPT ![k] = Polled(w)[k]] \in Contents
      BY <2>2, <3>1 DEF Contents
    <3>3. last' = [last EXCEPT ![w] = [last[w] EXCEPT ![k] = Polled(w)[k]]]
      BY <1>4 DEF EmitChange, EmitDelete, Report, TypeOK
    <3> QED
      BY <3>2, <3>3 DEF TypeOK
  <2>6. /\ todo' \in [Watcher -> SUBSET Key]
        /\ UNCHANGED <<backendVars, cancelled, pc, at>>
    BY <1>4 DEF EmitChange, EmitDelete, Compare, TypeOK
  <2> QED
    BY <1>0, <2>4, <2>5, <2>6, <2>7 DEF TypeOK
<1>5. ASSUME NEW w \in Watcher, NEW k \in Key, SkipKey(w, k) PROVE TypeOK'
  BY <1>0, <1>5 DEF SkipKey, Compare, TypeOK
<1>6. CASE Cancel
  BY <1>0, <1>6 DEF Cancel, TypeOK
<1>7. CASE UNCHANGED vars
  BY <1>0, <1>7 DEF vars, TypeOK
<1> QED
  BY <1>1, <1>2, <1>3, <1>4, <1>5, <1>6, <1>7 DEF Next, Watch, Emit

\* Type correctness, with any number of watchers.
THEOREM TypeCorrect == Spec => []TypeOK
BY InitTypeOK, NextTypeOK, PTL DEF Spec

-----------------------------------------------------------------------------
(* lastValues and the DcValues never drift apart.                          *)

\* Only the callback of a key disturbs what the key shows.
LEMMA NextLastMatchesView ==
  ASSUME TypeOK, LastMatchesView, [Next]_vars
  PROVE  LastMatchesView'
<1>1. CASE UNCHANGED <<view, by, last>>
  BY <1>1 DEF LastMatchesView, Undisturbed, Shows
<1>2. ASSUME NEW w \in Watcher, NEW k \in Key, Report(w, k)
      PROVE  LastMatchesView'
  <2> SUFFICES ASSUME NEW v \in Watcher, NEW j \in Key,
                      by'[j] \in {v, Nobody}
               PROVE  Shows(j, view'[j], last'[v][j])
    BY DEF LastMatchesView, Undisturbed, Shows
  <2>1. CASE j = k
    <3>1. /\ view'[k] = Applied(k, view[k], Polled(w)[k])
          /\ last'[w][k] = Polled(w)[k]
          /\ by'[k] = w
      BY <1>2 DEF Report, TypeOK, Contents
    <3>2. v = w
      BY <2>1, <3>1, PollAssumption
    <3> QED
      BY <2>1, <3>1, <3>2, AppliedShows
  <2>2. CASE j # k
    <3>1. view'[j] = view[j] /\ last'[v][j] = last[v][j] /\ by'[j] = by[j]
      BY <1>2, <2>2 DEF Report, TypeOK, Contents
    <3> QED
      BY <3>1 DEF LastMatchesView, Undisturbed
  <2> QED
    BY <2>1, <2>2
<1> QED
  BY <1>1, <1>2 DEF Next, Write, Cancel, Watch, PollOk, PollFails, Emit,
     EmitChange, EmitDelete, SkipKey, PollEnds, Tick, Return, backendVars,
     watchVars, storeVars, vars

\* What a decision of the poll rests on, with any number of watchers: a value
\* in lastValues is the value its DcValue shows, and a key missing from it
\* shows its default, unless another watcher has stored into it since.
THEOREM LastMatchesViewHolds == Spec => []LastMatchesView
<1>1. Init => LastMatchesView
  <2> SUFFICES ASSUME Init, NEW w \in Watcher, NEW k \in Key
               PROVE  Shows(k, view[k], last[w][k])
    BY DEF LastMatchesView
  <2>1. view[k] = Default /\ last[w][k] = Absent
    BY DEF Init
  <2> QED
    BY <2>1 DEF Shows
<1>2. TypeOK /\ LastMatchesView /\ [Next]_vars => LastMatchesView'
  BY NextLastMatchesView
<1> QED
  BY <1>1, <1>2, TypeCorrect, PTL DEF Spec

-----------------------------------------------------------------------------
(* A finished poll leaves lastValues equal to what it read.                *)

\* Only the comparison of a key, or a new read, disturbs what is said of it.
LEMMA NextLastIsPolled ==
  ASSUME TypeOK, LastIsPolled, [Next]_vars
  PROVE  LastIsPolled'
<1>1. ASSUME NEW w \in Watcher, at'[w] = at[w], at[w] > 0,
             UNCHANGED log \/ Write
      PROVE  Polled(w)' = Polled(w)
  <2>1. log'[at[w]] = log[at[w]]
    <3>1. CASE UNCHANGED log
      BY <3>1
    <3>2. CASE Write
      <4>1. PICK c \in Contents : log' = Append(log, c)
        BY <3>2 DEF Write
      <4> QED
        BY <1>1, <4>1, PolledType DEF TypeOK
    <3> QED
      BY <1>1, <3>1, <3>2
  <2> QED
    BY <1>1, <2>1 DEF Polled, Readable
<1>2. CASE Write
  BY <1>1, <1>2 DEF Write, watchVars, LastIsPolled
<1>3. ASSUME NEW w \in Watcher, PollOk(w) PROVE LastIsPolled'
  <2> SUFFICES ASSUME NEW v \in Watcher, at'[v] > 0, NEW k \in Key,
                      pc'[v] = "emit" => k \notin todo'[v]
               PROVE  \/ last'[v][k] = Polled(v)'[k]
                      \/ last'[v][k] = Absent /\ Polled(v)'[k] = Empty
    BY DEF LastIsPolled
  <2>1. v # w
    BY <1>3 DEF PollOk, TypeOK
  <2> QED
    BY <1>1, <1>3, <2>1 DEF PollOk, backendVars, TypeOK, LastIsPolled
<1>4. ASSUME NEW w \in Watcher,
             PollFails(w) \/ Tick(w) \/ Return(w) \/ PollEnds(w)
      PROVE  LastIsPolled'
  <2> SUFFICES ASSUME NEW v \in Watcher, at'[v] > 0, NEW k \in Key,
                      pc'[v] = "emit" => k \notin todo'[v]
               PROVE  \/ last'[v][k] = Polled(v)'[k]
                      \/ last'[v][k] = Absent /\ Polled(v)'[k] = Empty
    BY DEF LastIsPolled
  <2>1. UNCHANGED <<log, last, at, todo>> /\ Polled(v)' = Polled(v)
    BY <1>1, <1>4 DEF PollFails, Tick, Return, PollEnds, backendVars
  <2>2. pc[v] = "emit" => k \notin todo[v]
    BY <1>4, <2>1 DEF PollFails, Tick, Return, PollEnds, TypeOK
  <2> QED
    BY <2>1, <2>2 DEF LastIsPolled
<1>5. ASSUME NEW w \in Watcher, NEW k \in Key, Compare(w, k),
             \/ Report(w, k)
             \/ /\ UNCHANGED last
                /\ \/ last[w][k] = Polled(w)[k]
                   \/ last[w][k] = Absent /\ Polled(w)[k] = Empty
      PROVE  LastIsPolled'
  <2> SUFFICES ASSUME NEW v \in Watcher, at'[v] > 0, NEW j \in Key,
                      pc'[v] = "emit" => j \notin todo'[v]
               PROVE  \/ last'[v][j] = Polled(v)'[j]
                      \/ last'[v][j] = Absent /\ Polled(v)'[j] = Empty
    BY DEF LastIsPolled
  <2>1. UNCHANGED <<log, pc, at>> /\ Polled(v)' = Polled(v)
    BY <1>1, <1>5 DEF Compare, backendVars
  <2>2. CASE v = w /\ j = k
    BY <1>5, <2>1, <2>2 DEF Report, TypeOK, Contents
  <2>3. CASE ~(v = w /\ j = k)
    <3>1. last'[v][j] = last[v][j]
      BY <1>5, <2>3 DEF Report, TypeOK, Contents
    <3>2. pc[v] = "emit" => j \notin todo[v]
      BY <1>5, <2>1, <2>3 DEF Compare, TypeOK
    <3> QED
      BY <2>1, <3>1, <3>2 DEF LastIsPolled
  <2> QED
    BY <2>2, <2>3
<1>6. ASSUME NEW w \in Watcher, NEW k \in Key, SkipKey(w, k)
      PROVE  LastIsPolled'
  <2>1. \/ last[w][k] = Polled(w)[k]
        \/ last[w][k] = Absent /\ Polled(w)[k] = Empty
    BY <1>6 DEF SkipKey, LastValue
  <2> QED
    BY <1>5, <1>6, <2>1 DEF SkipKey
<1>7. CASE Cancel \/ UNCHANGED vars
  BY <1>7 DEF Cancel, vars, backendVars, watchVars, storeVars, LastIsPolled,
     Polled, Readable
<1> QED
  BY <1>2, <1>3, <1>4, <1>5, <1>6, <1>7
     DEF Next, Watch, Emit, EmitChange, EmitDelete

\* Between polls every DcValue shows what the latest successful read of the
\* watcher that stored into it last found, over any history of values that
\* come, go, fail to decode and come back.
THEOREM MirrorHolds == Spec => []Mirror
<1>1. Init => LastIsPolled
  BY DEF Init, LastIsPolled
<1>2. TypeOK /\ LastIsPolled /\ [Next]_vars => LastIsPolled'
  BY NextLastIsPolled
<1>3. LastMatchesView /\ LastIsPolled => Mirror
  <2> SUFFICES ASSUME LastMatchesView, LastIsPolled,
                      NEW w \in Watcher, pc[w] = "wait", at[w] > 0,
                      NEW k \in Key, Undisturbed(w, k)
               PROVE  \/ Shows(k, view[k], Polled(w)[k])
                      \/ EmptyUnreported(k, Polled(w)[k])
    BY DEF Mirror
  <2>1. Shows(k, view[k], last[w][k])
    BY DEF LastMatchesView
  <2>2. CASE last[w][k] = Polled(w)[k]
    BY <2>1, <2>2
  <2>3. CASE last[w][k] = Absent /\ Polled(w)[k] = Empty
    BY <2>1, <2>3 DEF Shows, EmptyUnreported
  <2> QED
    BY <2>2, <2>3 DEF LastIsPolled
<1> QED
  BY <1>1, <1>2, <1>3, TypeCorrect, LastMatchesViewHolds, PTL DEF Spec

-----------------------------------------------------------------------------
(* The watchers implement SyncContract.                                    *)

\* No watcher has reported a state that it has not read yet.
LEMMA NextSeenIsBehind ==
  ASSUME TypeOK, SeenIsBehind, [Next]_vars
  PROVE  SeenIsBehind'
<1>1. CASE UNCHANGED <<seen, at>>
  BY <1>1 DEF SeenIsBehind
<1>2. ASSUME NEW w \in Watcher, PollOk(w) PROVE SeenIsBehind'
  <2> SUFFICES ASSUME NEW v \in Watcher, NEW k \in Key
               PROVE  seen[v][k] <= at'[v]
    BY <1>2 DEF PollOk, storeVars, SeenIsBehind
  <2>1. seen[v][k] \in 0 .. Len(log)
    BY DEF TypeOK
  <2>2. CASE v = w
    BY <1>2, <2>1, <2>2 DEF PollOk, TypeOK
  <2>3. CASE v # w
    BY <1>2, <2>3 DEF PollOk, SeenIsBehind, TypeOK
  <2> QED
    BY <2>2, <2>3
<1>3. ASSUME NEW w \in Watcher, NEW k \in Key, Report(w, k), UNCHANGED at
      PROVE  SeenIsBehind'
  <2> SUFFICES ASSUME NEW v \in Watcher, NEW j \in Key
               PROVE  seen'[v][j] <= at[v]
    BY <1>3 DEF SeenIsBehind
  <2>1. /\ seen \in [Watcher -> [Key -> 0 .. Len(log)]]
        /\ at[w] \in Int
        /\ seen' = [seen EXCEPT ![w][k] = at[w]]
    BY <1>3 DEF Report, TypeOK
  <2>2. CASE v = w /\ j = k
    BY <2>1, <2>2
  <2>3. CASE ~(v = w /\ j = k)
    <3>1. seen'[v][j] = seen[v][j]
      BY <2>1, <2>3
    <3> QED
      BY <3>1 DEF SeenIsBehind
  <2> QED
    BY <2>2, <2>3
<1> QED
  BY <1>1, <1>2, <1>3 DEF Next, Write, Cancel, Watch, PollFails, Emit,
     EmitChange, EmitDelete, SkipKey, Compare, PollEnds, Tick, Return,
     backendVars, watchVars, storeVars, vars

\* The history the contract sees: what a read of each state returns.
ReadableLog == [i \in 1 .. Len(log) |-> Readable(log[i])]

\* It is a history of states.
LEMMA ReadableLogType ==
  ASSUME TypeOK
  PROVE  ReadableLog \in Seq(Contents) /\ Len(ReadableLog) = Len(log)
<1>1. \A i \in 1 .. Len(log) : Readable(log[i]) \in Contents
  BY DEF TypeOK, Readable, Contents
<1> QED
  BY <1>1 DEF TypeOK, ReadableLog

\* A write publishes one more state.
LEMMA WritePublishes ==
  ASSUME TypeOK, Write PROVE Contract!Publish
<1>1. PICK c \in Contents : log' = Append(log, c)
  BY DEF Write
<1>2. /\ Len(log) \in Nat
      /\ Len(log') = Len(log) + 1
      /\ log'[Len(log) + 1] = c
      /\ \A i \in 1 .. Len(log) : log'[i] = log[i]
  BY <1>1 DEF TypeOK
<1>3. Readable(c) \in Contents
  BY DEF Readable, Contents
<1>4. ReadableLog' = Append(ReadableLog, Readable(c))
  <2>1. ReadableLog \in Seq(Contents) /\ Len(ReadableLog) = Len(log)
    BY ReadableLogType
  <2>2. ReadableLog' \in Seq(Contents) /\ Len(ReadableLog') = Len(log) + 1
    <3>1. log' \in Seq(Contents)
      BY <1>1 DEF TypeOK
    <3>2. \A i \in 1 .. Len(log') : Readable(log'[i]) \in Contents
      BY <3>1 DEF Readable, Contents
    <3> QED
      BY <1>2, <3>1, <3>2 DEF ReadableLog
  <2>3. /\ Append(ReadableLog, Readable(c)) \in Seq(Contents)
        /\ Len(Append(ReadableLog, Readable(c))) = Len(log) + 1
    BY <1>3, <2>1
  <2>4. ASSUME NEW i \in 1 .. Len(log) + 1
        PROVE  ReadableLog'[i] = Append(ReadableLog, Readable(c))[i]
    <3>1. ReadableLog'[i] = Readable(log'[i])
      BY <1>2 DEF ReadableLog, Readable
    <3>2. CASE i = Len(log) + 1
      BY <1>2, <1>3, <2>1, <3>1, <3>2
    <3>3. CASE i \in 1 .. Len(log)
      <4>1. Append(ReadableLog, Readable(c))[i] = ReadableLog[i]
        BY <1>3, <2>1, <3>3
      <4>2. ReadableLog[i] = Readable(log[i])
        BY <3>3 DEF ReadableLog
      <4> QED
        BY <1>2, <3>1, <3>3, <4>1, <4>2
    <3>4. i = Len(log) + 1 \/ i \in 1 .. Len(log)
      BY <1>2
    <3> QED
      BY <3>2, <3>3, <3>4
  <2> QED
    BY <2>2, <2>3, <2>4, SeqEqual
<1> QED
  <2>1. Contract!Contents = Contents
    BY DEF Contract!Contents, Contents
  <2>2. UNCHANGED <<seen, view>>
    BY DEF Write, storeVars
  <2> QED
    BY <1>3, <1>4, <2>1, <2>2 DEF Contract!Publish, ReadableLog

\* A callback takes account of the state its poll read.
LEMMA ReportSyncs ==
  ASSUME TypeOK, SeenIsBehind, NEW w \in Watcher, NEW k \in Key,
         Compare(w, k), Report(w, k)
  PROVE  Contract!Sync(w, k, at[w]) /\ at[w] \in 1 .. Len(ReadableLog)
<1>1. at[w] \in 1 .. Len(log) /\ Len(log) \in Nat
  BY DEF Compare, TypeOK
<1>2. ReadableLog[at[w]] = Polled(w) /\ Len(ReadableLog) = Len(log)
  BY <1>1 DEF ReadableLog, Polled
<1>3. at[w] >= seen[w][k]
  BY <1>1 DEF SeenIsBehind, TypeOK
<1>4. ReadableLog' = ReadableLog
  BY DEF Compare, backendVars, ReadableLog, Readable
<1> QED
  BY <1>1, <1>2, <1>3, <1>4
     DEF Contract!Sync, Contract!Applied, Contract!UpdateEntry,
         Contract!RevertEntry, Contract!Decodes, Report, ReadableLog,
         Applied, UpdateEntry, RevertEntry, Decodes

\* Every step is a step of the contract or none at all.
LEMMA StepRefines ==
  ASSUME TypeOK, SeenIsBehind, [Next]_vars PROVE [Contract!Next]_Contract!vars
<1>1. CASE Write
  BY <1>1, WritePublishes DEF Contract!Next
<1>2. ASSUME NEW w \in Watcher, NEW k \in Key,
             EmitChange(w, k) \/ EmitDelete(w, k)
      PROVE  Contract!Next
  BY <1>2, ReportSyncs DEF EmitChange, EmitDelete, Contract!Next, ReadableLog
<1>3. CASE UNCHANGED <<log, view, seen>>
  BY <1>3 DEF Contract!vars, Readable
<1> QED
  BY <1>1, <1>2, <1>3 DEF Next, Cancel, Watch, PollOk, PollFails, Emit,
     SkipKey, Compare, PollEnds, Tick, Return, backendVars, watchVars,
     storeVars, vars

\* Any number of watchers implement what a provider promises: no value the
\* backend did not hold is ever shown, and no watcher goes back to an older
\* state than one it has reported.
THEOREM PollImplementsContract == Spec => Implements
<1>1. Init => Contract!Init
  <2> SUFFICES ASSUME Init PROVE Contract!Init
    OBVIOUS
  <2>1. PICK c \in Contents : log = <<c>>
    BY DEF Init
  <2>2. ReadableLog = <<Readable(c)>>
    BY <2>1 DEF ReadableLog
  <2>3. Readable(c) \in Contents
    BY DEF Readable, Contents
  <2> QED
    BY <2>2, <2>3 DEF Contract!Init, Contract!Contents, Contents, Init,
       ReadableLog
<1>2. Init => SeenIsBehind
  <2> SUFFICES ASSUME Init, NEW w \in Watcher, NEW k \in Key
               PROVE  seen[w][k] <= at[w]
    BY DEF SeenIsBehind
  <2>1. seen[w][k] = 0 /\ at[w] = 0
    BY DEF Init
  <2> QED
    BY <2>1
<1>3. TypeOK /\ SeenIsBehind /\ [Next]_vars => SeenIsBehind'
  BY NextSeenIsBehind
<1>4. TypeOK /\ SeenIsBehind /\ [Next]_vars => [Contract!Next]_Contract!vars
  BY StepRefines
<1> QED
  BY <1>1, <1>2, <1>3, <1>4, TypeCorrect, PTL DEF Spec, Implements, Contract!Spec

=============================================================================
