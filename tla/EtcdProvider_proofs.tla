------------------------- MODULE EtcdProvider_proofs -------------------------
(***************************************************************************)
(* Proofs about EtcdProvider for any set of keys and strings, any number   *)
(* of writes and of watches that break: first what the DcValues show, then *)
(* how long the provider backs off.                                        *)
(***************************************************************************)
EXTENDS EtcdProvider, SequenceTheorems, WellFoundedInduction, TLAPS

\* The type of everything but the backoff's counters, and where the revision
\* read or received can be.
StateType ==
    /\ log \in Seq(Contents)
    /\ Len(log) > 0
    /\ view \in [Key -> Val]
    /\ seen \in [Key -> Nat]
    /\ rev \in 0 .. Len(log)
    /\ drops \in Nat
    /\ pc \in {"load", "watch", "apply"} => rev > 0
    /\ pc = "watch" => todo = {}

\* A key that is not waiting to be reported shows its value, if it has one.
PutsShown ==
    pc \in {"load", "watch", "apply"} =>
        \A k \in Key \ todo :
            log[rev][k] # Absent => Shows(k, view[k], log[rev][k])

\* Until a watch breaks, nothing shows another value than its default before
\* the first read is reported, and then no key that does not exist.
DeletesShown ==
    drops = 0 =>
        /\ pc \in {"read", "backoff"} => view = [k \in Key |-> Default]
        /\ pc = "load" =>
              \A k \in Key : log[rev][k] = Absent => view[k] = Default
        /\ pc \in {"watch", "apply"} =>
              \A k \in Key \ todo : log[rev][k] = Absent => view[k] = Default

\* Reports never take account of a revision after the one reached.
SeenIsReached == \A k \in Key : seen[k] <= rev

IInv == StateType /\ PutsShown /\ DeletesShown /\ SeenIsReached

-----------------------------------------------------------------------------
(* One step.                                                               *)

LEMMA InitInv == Init => IInv
<1> SUFFICES ASSUME Init PROVE IInv
  OBVIOUS
<1>1. log \in Seq(Contents) /\ Len(log) = 1
  BY DEF Init
<1>2. StateType
  BY <1>1 DEF Init, StateType, Val
<1> QED
  BY <1>2 DEF Init, IInv, PutsShown, DeletesShown, SeenIsReached

\* The revisions there are stay what they are.
LEMMA WriteInv == ASSUME IInv, Write PROVE IInv'
<1>1. PICK c \in Contents : log' = Append(log, c)
  BY DEF Write
<1>2. /\ log' \in Seq(Contents)
      /\ Len(log') = Len(log) + 1
      /\ \A i \in 1 .. Len(log) : log'[i] = log[i]
  BY <1>1 DEF IInv, StateType
<1>3. StateType'
  BY <1>2 DEF Write, IInv, StateType
<1>4. pc \in {"load", "watch", "apply"} => log'[rev'] = log[rev]
  BY <1>2 DEF Write, IInv, StateType
<1>5. PutsShown'
  BY <1>4 DEF Write, IInv, PutsShown
<1>6. DeletesShown'
  BY <1>4 DEF Write, IInv, DeletesShown
<1> QED
  BY <1>3, <1>5, <1>6 DEF Write, IInv, SeenIsReached

LEMMA ReadInv == ASSUME IInv, ReadOk PROVE IInv'
<1>1. rev' = Len(log) /\ pc' = "load" /\ pc = "read" /\ UNCHANGED log
  BY DEF ReadOk
<1>2. StateType'
  BY <1>1 DEF ReadOk, IInv, StateType
<1>3. ASSUME NEW k \in Key \ todo' PROVE log'[rev'][k] = Absent
  BY <1>1, <1>3 DEF ReadOk, Current
<1>4. PutsShown'
  BY <1>3 DEF PutsShown
<1>5. DeletesShown'
  BY <1>1 DEF ReadOk, IInv, DeletesShown
<1>6. SeenIsReached'
  <2>1. ASSUME NEW k \in Key PROVE seen'[k] <= rev'
    <3>1. seen[k] <= rev /\ seen[k] \in Nat
      BY DEF IInv, StateType, SeenIsReached
    <3> QED
      BY <1>1, <3>1 DEF ReadOk, IInv, StateType
  <2> QED
    BY <2>1 DEF SeenIsReached
<1> QED
  BY <1>2, <1>4, <1>5, <1>6 DEF IInv

\* A report makes its key show what the revision reached says of it.
LEMMA ReportInv ==
  ASSUME IInv, NEW k \in Key, LoadKey(k) \/ ApplyEvent(k)
  PROVE  IInv'
<1>1. /\ pc \in {"load", "apply"} /\ k \in todo
      /\ view' = [view EXCEPT ![k] = Applied(k, @, log[rev][k])]
      /\ seen' = [seen EXCEPT ![k] = rev]
      /\ todo' = todo \ {k}
      /\ UNCHANGED <<log, pc, rev, drops>>
  BY DEF LoadKey, ApplyEvent, Report
<1>2. rev \in 1 .. Len(log) /\ log[rev][k] \in Raw \cup {Absent}
  BY <1>1 DEF IInv, StateType, Contents
<1>3. /\ Applied(k, view[k], log[rev][k]) \in Val
      /\ Shows(k, Applied(k, view[k], log[rev][k]), log[rev][k])
  BY <1>2 DEF Applied, RevertEntry, UpdateEntry, Shows, Val, IInv, StateType
<1>4. view' \in [Key -> Val] /\ Shows(k, view'[k], log[rev][k])
  BY <1>1, <1>3 DEF IInv, StateType
<1>5. \A j \in Key : j # k => view'[j] = view[j]
  BY <1>1 DEF IInv, StateType
<1>6. StateType'
  BY <1>1, <1>2, <1>4 DEF IInv, StateType
<1>7. PutsShown'
  BY <1>1, <1>4, <1>5 DEF IInv, PutsShown
<1>8. DeletesShown'
  <2>1. log[rev][k] = Absent => view'[k] = Default
    BY <1>4 DEF Shows
  <2> QED
    BY <1>1, <1>5, <2>1 DEF IInv, DeletesShown
<1>9. SeenIsReached'
  <2>1. ASSUME NEW j \in Key PROVE seen'[j] <= rev
    <3>1. seen[j] <= rev /\ j \in DOMAIN seen
      BY DEF IInv, StateType, SeenIsReached
    <3>2. seen'[j] = seen[j] \/ seen'[j] = rev
      BY <1>1, <3>1
    <3> QED
      BY <1>2, <3>1, <3>2
  <2> QED
    BY <1>1, <2>1 DEF SeenIsReached
<1> QED
  BY <1>6, <1>7, <1>8, <1>9 DEF IInv

\* A key without an event is the same in the next revision.
LEMMA ReceiveInv == ASSUME IInv, Receive PROVE IInv'
<1>1. /\ rev \in Nat /\ rev' = rev + 1 /\ rev' \in 1 .. Len(log)
      /\ todo = {} /\ pc = "watch" /\ pc' = "apply"
      /\ UNCHANGED <<log, view, seen, drops>>
  BY DEF Receive, IInv, StateType
<1>2. StateType'
  BY <1>1 DEF IInv, StateType
<1>3. ASSUME NEW k \in Key \ todo' PROVE log'[rev'][k] = log[rev][k]
  BY <1>1, <1>3 DEF Receive
<1>4. PutsShown'
  BY <1>1, <1>3 DEF IInv, PutsShown
<1>5. DeletesShown'
  BY <1>1, <1>3 DEF IInv, DeletesShown
<1>6. SeenIsReached'
  <2>1. ASSUME NEW k \in Key PROVE seen[k] <= rev'
    <3>1. seen[k] <= rev /\ seen[k] \in Nat
      BY DEF IInv, StateType, SeenIsReached
    <3> QED
      BY <1>1, <3>1
  <2> QED
    BY <1>1, <2>1 DEF SeenIsReached
<1> QED
  BY <1>2, <1>4, <1>5, <1>6 DEF IInv

LEMMA DropInv == ASSUME IInv, WatchDrops PROVE IInv'
<1>1. drops \in Nat /\ drops' = drops + 1 /\ pc' = "backoff"
  BY DEF WatchDrops, BackOff, IInv, StateType
<1>2. StateType'
  BY <1>1 DEF WatchDrops, BackOff, IInv, StateType
<1> QED
  BY <1>1, <1>2 DEF WatchDrops, BackOff, IInv, PutsShown, DeletesShown,
                    SeenIsReached

\* Every reachable state satisfies the invariant.
THEOREM Invariance == Spec => []IInv
<1>1. ASSUME IInv, [Next]_vars PROVE IInv'
  <2>1. CASE ReadFails \/ BackoffElapses
    BY <1>1, <2>1 DEF ReadFails, BackOff, BackoffElapses, IInv, StateType,
       PutsShown, DeletesShown, SeenIsReached
  <2>2. CASE OpenWatch \/ EventsDone
    BY <1>1, <2>2 DEF OpenWatch, EventsDone, IInv, StateType, PutsShown,
       DeletesShown, SeenIsReached
  <2>3. CASE Return \/ Cancel \/ UNCHANGED vars
    BY <1>1, <2>3 DEF Return, Cancel, vars, IInv, StateType, PutsShown,
       DeletesShown, SeenIsReached
  <2> QED
    BY <1>1, <2>1, <2>2, <2>3, WriteInv, ReadInv, ReportInv, ReceiveInv,
       DropInv DEF Next, Reporting
<1> QED
  BY <1>1, InitInv, PTL DEF Spec

-----------------------------------------------------------------------------
(* The properties.                                                         *)

\* No put is lost between the read and the watch (which starts at the
\* revision after the read's), between two event batches, or while the watch
\* was broken.
THEOREM PutsMirroredHolds == Spec => []PutsMirrored
<1>1. IInv => PutsMirrored
  BY DEF IInv, StateType, PutsShown, PutsMirrored
<1> QED
  BY <1>1, Invariance, PTL

\* No delete is lost either, as long as no watch has broken.
THEOREM DeletesMirroredHolds == Spec => []DeletesMirrored
<1>1. IInv => DeletesMirrored
  BY DEF IInv, StateType, DeletesShown, DeletesMirrored
<1> QED
  BY <1>1, Invariance, PTL

\* A report is a Sync.
LEMMA ReportSyncs ==
  ASSUME IInv, NEW k \in Key, LoadKey(k) \/ ApplyEvent(k)
  PROVE  Contract!Next
<1>1. /\ rev \in 1 .. Len(log) /\ rev >= seen[k]
      /\ Report(k)
  BY DEF LoadKey, ApplyEvent, IInv, StateType, SeenIsReached
<1>2. [s \in {"watch"} |-> seen]'
          = [[s \in {"watch"} |-> seen] EXCEPT !["watch"][k] = rev]
  BY <1>1 DEF Report
<1>3. Contract!Sync("watch", k, rev)
  BY <1>1, <1>2
  DEF Report, Contract!Sync, Contract!Applied, Contract!UpdateEntry,
      Contract!RevertEntry, Contract!Decodes, Applied, UpdateEntry,
      RevertEntry, Decodes
<1> QED
  BY <1>1, <1>3 DEF Contract!Next

\* Nothing is reported that etcd did not hold, and no key goes back to an
\* older revision, across any number of reconnects.
THEOREM EtcdImplementsContract == Spec => Implements
<1>1. Init => Contract!Init
  BY DEF Init, Contract!Init, Contract!Contents, Contents
<1>2. ASSUME IInv, [Next]_vars PROVE [Contract!Next]_Contract!vars
  <2>1. CASE Write
    BY <2>1 DEF Write, Contract!Next, Contract!Publish, Contract!Contents,
                Contents
  <2>2. CASE UNCHANGED <<log, seen, view>>
    BY <2>2 DEF Contract!vars
  <2>3. \/ Write \/ UNCHANGED <<log, seen, view>>
        \/ \E k \in Key : LoadKey(k) \/ ApplyEvent(k)
    BY <1>2 DEF Next, ReadOk, ReadFails, BackOff, Reporting, OpenWatch,
       Receive, EventsDone, WatchDrops, BackoffElapses, Return, Cancel, vars
  <2> QED
    BY <1>2, <2>1, <2>2, <2>3, ReportSyncs
<1> QED
  BY <1>1, <1>2, Invariance, PTL DEF Spec, Implements, Contract!Spec

-----------------------------------------------------------------------------
(* The backoff.                                                            *)

\* Less than, as the set of pairs the induction theorem is about.
Less == {p \in Nat \X Nat : p[1] < p[2]}

\* Induction for a set of numbers.
LEMMA NatSetInduction ==
  ASSUME NEW S, 0 \in S, \A n \in Nat : n \in S => n + 1 \in S
  PROVE  \A n \in Nat : n \in S
<1> SUFFICES ASSUME NEW n \in Nat, n \notin S PROVE FALSE
  OBVIOUS
<1> DEFINE T == {m \in Nat : m \notin S}
<1>1. T \subseteq Nat /\ T # {}
  OBVIOUS
<1>2. PICK x \in T : \A y \in T : ~(<<y, x>> \in Less)
  <2> HIDE DEF T
  <2>1. IsWellFoundedOn(Less, Nat)
    <3>1. OpToRel(<, Nat) = Less
      BY DEF OpToRel, Less
    <3> QED
      BY <3>1, NatLessThanWellFounded
  <2> QED
    BY <1>1, <2>1, WFMin
<1>3. x \in Nat /\ x # 0 /\ x - 1 \in Nat /\ x - 1 < x
  OBVIOUS
<1>4. <<x - 1, x>> \in Less
  BY <1>3 DEF Less
<1>5. x - 1 \notin T
  <2> HIDE DEF T
  <2> QED
    BY <1>2, <1>4
<1> QED
  BY <1>3, <1>5

\* The recursion of delay is met by a function, the one with the values that
\* are named here, so delay is such a function.
LEMMA DelayUnfolds ==
  \A n \in Nat : delay[n] =
      IF n = 0 THEN BackoffBase
      ELSE IF 2 * delay[n - 1] >= BackoffMax THEN BackoffMax
      ELSE 2 * delay[n - 1]
<1> DEFINE f == [n \in Nat |->
                    IF n = 0 THEN 500 ELSE IF n = 1 THEN 1000
                    ELSE IF n = 2 THEN 2000 ELSE IF n = 3 THEN 4000
                    ELSE IF n = 4 THEN 8000 ELSE IF n = 5 THEN 16000
                    ELSE 30000]
<1>1. \A n \in Nat : f[n] = IF n = 0 THEN BackoffBase
                     ELSE IF 2 * f[n - 1] >= BackoffMax THEN BackoffMax
                     ELSE 2 * f[n - 1]
  BY DEF BackoffBase, BackoffMax
<1>2. f = [n \in Nat |-> IF n = 0 THEN BackoffBase
                     ELSE IF 2 * f[n - 1] >= BackoffMax THEN BackoffMax
                     ELSE 2 * f[n - 1]]
  BY <1>1
<1> HIDE DEF f
<1>3. \E g : g = [n \in Nat |-> IF n = 0 THEN BackoffBase
                     ELSE IF 2 * g[n - 1] >= BackoffMax THEN BackoffMax
                     ELSE 2 * g[n - 1]]
  BY <1>2
<1>4. delay = [n \in Nat |-> IF n = 0 THEN BackoffBase
                     ELSE IF 2 * delay[n - 1] >= BackoffMax THEN BackoffMax
                     ELSE 2 * delay[n - 1]]
  BY <1>3, Zenon DEF delay
<1> QED
  BY <1>4

\* A wait is never shorter than the base nor longer than the cap, and each is
\* longer than the one before it or the cap.
LEMMA DelayGrows ==
  \A n \in Nat : /\ Backoff(n) \in BackoffBase .. BackoffMax
                 /\ Backoff(n + 1) > Backoff(n) \/ Backoff(n + 1) = BackoffMax
<1> DEFINE S == {n \in Nat : delay[n] \in BackoffBase .. BackoffMax}
<1>1. 0 \in S
  <2>1. delay[0] = BackoffBase
    BY DelayUnfolds, Zenon
  <2>2. BackoffBase \in BackoffBase .. BackoffMax
    BY DEF BackoffBase, BackoffMax
  <2> QED
    BY <2>1, <2>2
<1>2. ASSUME NEW n \in Nat, n \in S PROVE n + 1 \in S
  <2>1. PICK d \in BackoffBase .. BackoffMax : delay[n] = d
    BY <1>2
  <2>2. d \in Nat /\ 500 <= d
    BY DEF BackoffBase, BackoffMax
  <2>3. (IF 2 * d >= BackoffMax THEN BackoffMax ELSE 2 * d)
            \in BackoffBase .. BackoffMax
    BY <2>2 DEF BackoffBase, BackoffMax
  <2>4. delay[n + 1] = IF 2 * d >= BackoffMax THEN BackoffMax ELSE 2 * d
    BY <2>1, DelayUnfolds
  <2>5. delay[n + 1] \in BackoffBase .. BackoffMax
    BY <2>3, <2>4, Zenon
  <2>6. n + 1 \in Nat
    OBVIOUS
  <2> QED
    BY <2>5, <2>6, Zenon
<1>3. \A n \in Nat : n \in S
  <2> HIDE DEF S
  <2> QED
    BY <1>1, <1>2, NatSetInduction
<1>4. ASSUME NEW n \in Nat
      PROVE  delay[n + 1] > delay[n] \/ delay[n + 1] = BackoffMax
  <2>1. PICK d \in BackoffBase .. BackoffMax : delay[n] = d
    BY <1>3
  <2>2. delay[n + 1] = IF 2 * d >= BackoffMax THEN BackoffMax ELSE 2 * d
    BY <2>1, DelayUnfolds
  <2> QED
    BY <2>1, <2>2 DEF BackoffBase, BackoffMax
<1> QED
  BY <1>3, <1>4 DEF Backoff

\* The type of the counters, and of what only the control flow depends on.
CounterType ==
    /\ Len(log) <= MaxWrites + 1
    /\ pc \in {"read", "load", "watch", "apply", "backoff", "returned"}
    /\ todo \subseteq Key
    /\ pc \notin {"load", "apply"} => todo = {}
    /\ attempt \in 0 .. MaxAttempt
    /\ drops <= MaxDrops

\* The latest wait belongs to the attempt before this one, in "backoff" to
\* this one; a good read starts again from none.  The attempt that is counted
\* no further stands for all that wait the cap.
WaitFits ==
    /\ pc \in {"watch", "apply"} => attempt = 0 /\ wait = 0
    /\ pc = "backoff" => wait = Backoff(attempt)
    /\ pc \in {"read", "load"} =>
          \/ attempt = 0 /\ wait = 0
          \/ attempt > 0 /\ wait = Backoff(attempt - 1)
          \/ attempt = MaxAttempt /\ wait = BackoffMax
    /\ wait \in {0} \cup BackoffBase .. BackoffMax

CounterInv == CounterType /\ WaitFits /\ cancelled \in BOOLEAN

LEMMA CounterStep ==
  ASSUME IInv, CounterInv, [Next]_vars
  PROVE  CounterType' /\ WaitFits'
<1>1. CounterType /\ WaitFits
  BY DEF CounterInv
<1>2. /\ BackoffMax \in BackoffBase .. BackoffMax
      /\ Len(log) \in Nat /\ drops \in Nat /\ attempt \in Nat
      /\ Backoff(attempt) \in BackoffBase .. BackoffMax
  <2>1. attempt \in Nat
    BY <1>1, EtcdAssumption DEF CounterType
  <2>2. BackoffMax \in BackoffBase .. BackoffMax
    BY DEF BackoffBase, BackoffMax
  <2> QED
    BY <2>1, <2>2, DelayGrows DEF IInv, StateType
<1>3. CASE Write
  <2>1. Len(log') = Len(log) + 1
    BY <1>3 DEF Write, IInv, StateType
  <2> QED
    BY <1>1, <1>2, <1>3, <2>1, EtcdAssumption DEF Write, CounterType, WaitFits
<1>4. CASE ReadOk
  BY <1>1, <1>4 DEF ReadOk, CounterType, WaitFits
<1>5. CASE ReadFails
  BY <1>1, <1>2, <1>5 DEF ReadFails, BackOff, CounterType, WaitFits
<1>6. CASE Reporting
  BY <1>1, <1>6
  DEF Reporting, LoadKey, ApplyEvent, Report, CounterType, WaitFits
<1>7. CASE OpenWatch
  BY <1>1, <1>7, EtcdAssumption DEF OpenWatch, CounterType, WaitFits
<1>8. CASE Receive \/ EventsDone
  BY <1>1, <1>8 DEF Receive, EventsDone, CounterType, WaitFits
<1>9. CASE WatchDrops
  BY <1>1, <1>2, <1>9, EtcdAssumption
  DEF WatchDrops, BackOff, CounterType, WaitFits
<1>10. CASE BackoffElapses
  <2>1. CounterType'
    BY <1>1, <1>10, EtcdAssumption DEF BackoffElapses, CounterType
  <2>2. /\ pc = "backoff" /\ pc' = "read" /\ wait' = Backoff(attempt)
        /\ \/ attempt' = attempt + 1
           \/ attempt' = attempt /\ attempt = MaxAttempt
    BY <1>1, <1>10, EtcdAssumption DEF BackoffElapses, CounterType, WaitFits
  <2>3. \/ attempt' > 0 /\ wait' = Backoff(attempt' - 1)
        \/ attempt' = MaxAttempt /\ wait' = BackoffMax
    <3>1. CASE attempt' = attempt + 1
      BY <1>2, <2>2, <3>1, attempt' - 1 = attempt
    <3> QED
      BY <2>2, <3>1, EtcdAssumption
  <2> QED
    BY <1>2, <2>1, <2>2, <2>3 DEF WaitFits
<1>11. CASE Return \/ Cancel \/ UNCHANGED vars
  BY <1>1, <1>11 DEF Return, Cancel, vars, CounterType, WaitFits
<1> QED
  BY <1>3, <1>4, <1>5, <1>6, <1>7, <1>8, <1>9, <1>10, <1>11 DEF Next

\* Every reachable state satisfies it.
THEOREM CounterInvariance == Spec => []CounterInv
<1>1. Init => CounterInv
  <2> SUFFICES ASSUME Init PROVE CounterInv
    OBVIOUS
  <2>1. Len(log) = 1
    BY DEF Init
  <2>2. CounterType /\ WaitFits
    BY <2>1, EtcdAssumption DEF Init, CounterType, WaitFits
  <2> QED
    BY <2>2, Zenon DEF Init, CounterInv
<1>2. ASSUME IInv, CounterInv, [Next]_vars PROVE CounterInv'
  <2>1. cancelled' = TRUE \/ cancelled' = cancelled
    BY <1>2, Zenon
    DEF Next, Write, ReadOk, ReadFails, BackOff, Reporting, LoadKey,
        ApplyEvent, Report, OpenWatch, Receive, EventsDone, WatchDrops,
        BackoffElapses, Return, Cancel, vars
  <2> QED
    BY <1>2, <2>1, CounterStep, Zenon DEF CounterInv
<1> QED
  BY <1>1, <1>2, Invariance, PTL DEF Spec

\* Every reachable state is well typed; every wait is one that Backoff allows.
THEOREM TypeCorrect == Spec => []TypeOK
<1>1. ASSUME IInv, CounterInv PROVE TypeOK
  <2>1. ASSUME NEW k \in Key PROVE seen[k] \in 0 .. Len(log)
    <3>1. seen[k] <= rev /\ seen[k] \in Nat
      BY <1>1 DEF IInv, StateType, SeenIsReached
    <3> QED
      BY <1>1, <3>1 DEF IInv, StateType
  <2>2. seen \in [Key -> 0 .. Len(log)]
    BY <1>1, <2>1 DEF IInv, StateType
  <2>3. Len(log) \in 1 .. MaxWrites + 1 /\ drops \in 0 .. MaxDrops
    BY <1>1, EtcdAssumption DEF IInv, StateType, CounterInv, CounterType
  <2> QED
    BY <1>1, <2>2, <2>3, Zenon
    DEF IInv, StateType, CounterInv, CounterType, WaitFits, TypeOK
<1> QED
  BY <1>1, Invariance, CounterInvariance, PTL

\* Failed reads in a row wait longer and longer up to the cap, however many
\* there are, and after a good read the next wait is the base.
THEOREM BackoffScheduleHolds == Spec => BackoffSchedule
<1>1. ASSUME CounterInv, [Next]_vars, pc # "backoff", pc' = "backoff"
      PROVE  IF pc = "read" THEN wait' > wait \/ wait' = BackoffMax
                            ELSE wait' = BackoffBase
  <2>1. ReadFails \/ WatchDrops
    BY <1>1 DEF Next, Write, ReadOk, Reporting, LoadKey, ApplyEvent, Report,
       OpenWatch, Receive, EventsDone, BackoffElapses, Return, Cancel, vars
  <2>2. CASE ReadFails
    <3>1. /\ pc = "read" /\ wait' = Backoff(attempt) /\ attempt \in Nat
          /\ wait' \in BackoffBase .. BackoffMax
      BY <1>1, <2>2, DelayGrows, EtcdAssumption
      DEF ReadFails, BackOff, CounterInv, CounterType
    <3>2. CASE attempt = 0 /\ wait = 0
      <4>1. PICK d \in BackoffBase .. BackoffMax : wait' = d
        BY <3>1
      <4>2. d > 0
        BY DEF BackoffBase, BackoffMax
      <4> QED
        BY <3>1, <3>2, <4>1, <4>2
    <3>3. CASE attempt > 0 /\ wait = Backoff(attempt - 1)
      <4>1. attempt - 1 \in Nat /\ (attempt - 1) + 1 = attempt
        BY <3>1, <3>3
      <4> QED
        BY <3>1, <3>3, <4>1, DelayGrows
    <3>4. CASE attempt = MaxAttempt /\ wait = BackoffMax
      BY <3>1, <3>4, EtcdAssumption
    <3> QED
      BY <1>1, <3>1, <3>2, <3>3, <3>4 DEF CounterInv, WaitFits
  <2>3. CASE WatchDrops
    BY <1>1, <2>3, DelayUnfolds
    DEF WatchDrops, BackOff, CounterInv, WaitFits, Backoff
  <2> QED
    BY <2>1, <2>2, <2>3
<1> QED
  BY <1>1, CounterInvariance, PTL DEF Spec, BackoffSchedule

=============================================================================
