------------------------ MODULE RedisProvider_proofs ------------------------
(***************************************************************************)
(* Proofs about RedisProvider for any set of keys and strings, any number  *)
(* of writes, failing commands and lost connections.                       *)
(***************************************************************************)
EXTENDS RedisProvider, SequenceTheorems, TLAPS

\* What makes the refinement work: while the keys of an MGET are compared, no
\* report took account of a state newer than the MGET's.
SeenIsBehind == pc = "emit" => at > 0 /\ \A k \in Key : seen[k] <= at

\* k has neither to be compared nor is a notification about it waiting.
NothingPending(k) == k \notin todo /\ \A i \in 1 .. Len(msgs) : msgs[i] # k

\* What makes QuietIsCurrent inductive: until something is lost, every key
\* that is not shown has a comparison or a notification to come, and what an
\* MGET returned is what redis holds of the keys nobody has been notified of.
StaleIsPending ==
    Listening /\ ~missed => \A k \in Key :
        /\ NothingPending(k) => ShowsRedis(k)
        /\ pc = "emit" /\ (\A i \in 1 .. Len(msgs) : msgs[i] # k) =>
               at > 0 /\ log[at][k] = Current[k]

\* A notification is about one key.
OneAtATime == pc = "get" => \E k \in Key : todo = {k}

-----------------------------------------------------------------------------
(* One comparison.                                                         *)

\* Only these actions touch what the DcValues show: each compares one key.
LEMMA StepsOfTheView ==
  ASSUME [Next]_vars
  PROVE  \/ UNCHANGED sdkVars
         \/ \E k \in Key : EmitKey(k) \/ GetOk(k) \/ GetFails(k)
BY DEF Next, Write, SubscriptionActive, ConnectionLost, Connecting, Subscribe,
       ConfigFails, BackoffElapses, Reading, MGetOk, MGetFails, Emitting,
       EmitEnds, Notified, ResyncTick, ChannelCloses, Return, Cancel, vars

\* A report leaves values behind, and the key shows what was reported.
LEMMA ReportType ==
  ASSUME TypeOK, NEW k \in Key, NEW c \in Raw \cup {Absent}, Report(k, c)
  PROVE  /\ view' \in [Key -> Val]
         /\ last' \in [Key -> Raw \cup {Absent}]
         /\ LastMatchesView => LastMatchesView'
<1>1. Applied(k, view[k], c) \in Val
  BY DEF Applied, RevertEntry, UpdateEntry, Val, TypeOK
<1>2. Shows(k, Applied(k, view[k], c), c)
  BY DEF Applied, RevertEntry, UpdateEntry, Shows
<1>3. /\ view' \in [Key -> Val]
      /\ last' \in [Key -> Raw \cup {Absent}]
  BY <1>1 DEF Report, TypeOK
<1>4. ASSUME LastMatchesView, NEW j \in Key PROVE Shows(j, view'[j], last'[j])
  <2>1. CASE j = k
    BY <1>2, <2>1 DEF Report, TypeOK
  <2>2. CASE j # k
    <3>1. view'[j] = view[j] /\ last'[j] = last[j]
      BY <2>2 DEF Report, TypeOK
    <3> QED
      BY <1>4, <3>1 DEF LastMatchesView
  <2> QED
    BY <2>1, <2>2
<1> QED
  BY <1>3, <1>4 DEF LastMatchesView

\* What a reader compares comes from a state redis has been in.
LEMMA ReadType ==
  ASSUME TypeOK, NEW k \in Key, NEW n \in 1 .. Len(log)
  PROVE  log[n][k] \in Raw \cup {Absent} /\ n \in 0 .. Len(log)
BY RedisAssumption DEF TypeOK

\* The three places that compare a key.
LEMMA ViewSteps ==
  ASSUME TypeOK, SeenIsBehind, NEW k \in Key,
         EmitKey(k) \/ GetOk(k) \/ GetFails(k)
  PROVE  /\ UNCHANGED log
         /\ \/ UNCHANGED sdkVars
            \/ \E n \in 1 .. Len(log) : /\ Report(k, log[n][k])
                                        /\ seen' = [seen EXCEPT ![k] = n]
                                        /\ n >= seen[k]
            \/ Report(k, Empty) /\ UNCHANGED seen
<1>1. Len(log) \in 1 .. Len(log) /\ Len(log) >= seen[k]
  BY DEF TypeOK
<1>2. CASE EmitKey(k)
  <2>1. at \in 1 .. Len(log) /\ at >= seen[k]
    BY <1>2 DEF EmitKey, SeenIsBehind, TypeOK
  <2> QED
    BY <1>2, <2>1 DEF EmitKey, Compare
<1>3. CASE GetOk(k)
  BY <1>1, <1>3 DEF GetOk, Handled, Compare, Current
<1>4. CASE GetFails(k)
  BY <1>4 DEF GetFails, Handled
<1> QED
  BY <1>2, <1>3, <1>4

-----------------------------------------------------------------------------
(* Types, and reads that never go back.                                    *)

LEMMA InitTypeOK == Init => TypeOK /\ SeenIsBehind
<1> SUFFICES ASSUME Init PROVE TypeOK /\ SeenIsBehind
  OBVIOUS
<1>1. log \in Seq([Key -> Stored \cup {Absent}]) /\ Len(log) = 1
  BY DEF Init
<1>2. view \in [Key -> Val] /\ last \in [Key -> Raw \cup {Absent}]
  BY DEF Init, Val
<1>3. seen \in [Key -> 0 .. Len(log)] /\ at \in 0 .. Len(log)
  BY <1>1 DEF Init
<1>4. /\ Len(log) \in 1 .. MaxWrites + 1
      /\ fails \in 0 .. MaxFails /\ drops \in 0 .. MaxDrops
  BY <1>1, RedisAssumption DEF Init
<1>5. msgs = << >> /\ msgs \in Seq(Key)
  BY DEF Init
<1>6. resync \in BOOLEAN /\ missed \in BOOLEAN /\ cancelled \in BOOLEAN
  BY Zenon DEF Init
<1>7. pc = "connect" /\ sub = "none" /\ todo = {}
  BY DEF Init
<1>8. /\ sub \in {"none", "requested", "active"} /\ todo \subseteq Key
      /\ pc \in {"connect", "mget", "emit", "select", "get", "backoff",
                "returned"}
      /\ pc \in {"mget", "emit", "select", "get"} <=> sub # "none"
  BY <1>7
<1>9. TypeOK
  BY <1>1, <1>2, <1>3, <1>4, <1>5, <1>6, <1>7, <1>8, Zenon DEF TypeOK
<1> QED
  BY <1>7, <1>9 DEF SeenIsBehind

\* A write lengthens the history.
LEMMA WriteTypeOK ==
  ASSUME TypeOK, NEW k \in Key, NEW c \in Stored \cup {Absent}, Write(k, c)
  PROVE  TypeOK'
<1>1. Current \in [Key -> Stored \cup {Absent}]
  BY DEF Current, TypeOK
<1>2. [Current EXCEPT ![k] = c] \in [Key -> Stored \cup {Absent}]
  BY <1>1
<1>3. /\ log' \in Seq([Key -> Stored \cup {Absent}])
      /\ Len(log') = Len(log) + 1
  BY <1>2 DEF Write, TypeOK
<1>4. Len(log) \in Nat /\ Len(log') \in 1 .. MaxWrites + 1
  BY <1>3, RedisAssumption DEF Write, TypeOK
<1>5. msgs' \in Seq(Key) /\ missed' \in BOOLEAN
  BY DEF Write, TypeOK, Listening
<1>6. seen' \in [Key -> 0 .. Len(log')] /\ at' \in 0 .. Len(log')
  BY <1>3, <1>4 DEF Write, sdkVars, TypeOK
<1> QED
  BY <1>3, <1>4, <1>5, <1>6 DEF Write, sdkVars, TypeOK

LEMMA NextTypeOK ==
  ASSUME TypeOK, SeenIsBehind, [Next]_vars PROVE TypeOK'
<1> USE RedisAssumption DEF connVars, sdkVars
<1>1. ASSUME NEW k \in Key, NEW c \in Stored \cup {Absent}, Write(k, c)
      PROVE  TypeOK'
  BY <1>1, WriteTypeOK
<1>2. CASE SubscriptionActive
  BY <1>2 DEF SubscriptionActive, TypeOK
<1>3. CASE ConnectionLost
  BY <1>3 DEF ConnectionLost, TypeOK, Listening
<1>4. CASE Subscribe \/ BackoffElapses
  BY <1>4 DEF Subscribe, BackoffElapses, TypeOK
<1>5. CASE ConfigFails \/ MGetFails
  <2>1. CommandFails
    BY <1>5 DEF ConfigFails, MGetFails
  <2>2. fails' \in 0 .. MaxFails
    BY <2>1 DEF CommandFails, TypeOK
  <2>3. CASE ConfigFails
    BY <2>2, <2>3 DEF ConfigFails, TypeOK
  <2>4. CASE MGetFails
    BY <2>2, <2>4 DEF MGetFails, TypeOK
  <2> QED
    BY <1>5, <2>3, <2>4
<1>6. CASE MGetOk
  <2>1. at' \in 0 .. Len(log') /\ seen' \in [Key -> 0 .. Len(log')]
    BY <1>6 DEF MGetOk, TypeOK
  <2> QED
    BY <1>6, <2>1 DEF MGetOk, TypeOK
<1>7. ASSUME NEW k \in Key, EmitKey(k) \/ GetOk(k) \/ GetFails(k)
      PROVE  TypeOK'
  <2>1. /\ view' \in [Key -> Val]
        /\ last' \in [Key -> Raw \cup {Absent}]
        /\ seen' \in [Key -> 0 .. Len(log)]
        /\ UNCHANGED log
    BY <1>7, ViewSteps, ReportType, ReadType DEF TypeOK
  <2>2. CASE EmitKey(k)
    BY <2>1, <2>2 DEF EmitKey, TypeOK
  <2>3. CASE GetOk(k)
    BY <2>1, <2>3 DEF GetOk, Handled, TypeOK
  <2>4. CASE GetFails(k)
    BY <2>1, <2>4 DEF GetFails, Handled, CommandFails, TypeOK
  <2> QED
    BY <1>7, <2>2, <2>3, <2>4
<1>8. CASE EmitEnds \/ ResyncTick
  BY <1>8 DEF EmitEnds, ResyncTick, TypeOK
<1>9. CASE Notified
  BY <1>9 DEF Notified, TypeOK
<1>10. CASE ChannelCloses \/ Return
  <2>1. << >> \in Seq(Key)
    OBVIOUS
  <2>2. CASE ChannelCloses
    <3>1. drops' \in 0 .. MaxDrops
      BY <2>2 DEF ChannelCloses, TypeOK
    <3> QED
      BY <2>1, <2>2, <3>1 DEF ChannelCloses, TypeOK
  <2>3. CASE Return
    BY <2>1, <2>3 DEF Return, TypeOK
  <2> QED
    BY <1>10, <2>2, <2>3
<1>11. CASE Cancel \/ UNCHANGED vars
  BY <1>11 DEF Cancel, vars, TypeOK
<1> QED
  BY <1>1, <1>2, <1>3, <1>4, <1>5, <1>6, <1>7, <1>8, <1>9, <1>10, <1>11
     DEF Next, Connecting, Reading, Emitting

LEMMA NextSeenIsBehind ==
  ASSUME TypeOK, SeenIsBehind, [Next]_vars PROVE SeenIsBehind'
<1>1. CASE MGetOk
  <2>1. at' = Len(log) /\ UNCHANGED seen
    BY <1>1 DEF MGetOk, sdkVars
  <2> QED
    BY <2>1 DEF SeenIsBehind, TypeOK
<1>2. ASSUME NEW k \in Key, EmitKey(k) PROVE SeenIsBehind'
  <2>1. at \in Nat /\ at > 0 /\ at' = at /\ pc' = pc /\ pc = "emit"
    BY <1>2 DEF EmitKey, SeenIsBehind, TypeOK
  <2>2. UNCHANGED seen \/ seen' = [seen EXCEPT ![k] = at]
    BY <1>2 DEF EmitKey, Compare, sdkVars
  <2>3. ASSUME NEW j \in Key PROVE seen'[j] <= at
    <3>1. seen[j] <= at /\ j \in DOMAIN seen
      BY <2>1 DEF SeenIsBehind, TypeOK
    <3>2. seen'[j] = seen[j] \/ seen'[j] = at
      BY <2>2, <3>1
    <3> QED
      BY <2>1, <3>1, <3>2
  <2> QED
    BY <2>1, <2>3 DEF SeenIsBehind
<1>3. CASE pc' # "emit"
  BY <1>3 DEF SeenIsBehind
<1>4. CASE UNCHANGED <<pc, at, seen>>
  BY <1>4 DEF SeenIsBehind
<1> QED
  BY <1>1, <1>2, <1>3, <1>4
  DEF Next, Write, SubscriptionActive, ConnectionLost, Connecting, Subscribe,
      ConfigFails, BackoffElapses, Reading, MGetFails, Emitting, EmitEnds,
      GetOk, GetFails, Handled, Notified, ResyncTick, ChannelCloses, Return,
      Cancel, vars, sdkVars

\* Type correctness, and what the refinement needs.
THEOREM TypeCorrect == Spec => []TypeOK /\ []SeenIsBehind
<1>1. TypeOK /\ SeenIsBehind /\ [Next]_vars => TypeOK' /\ SeenIsBehind'
  BY NextTypeOK, NextSeenIsBehind
<1> QED
  BY <1>1, InitTypeOK, PTL DEF Spec

-----------------------------------------------------------------------------
(* The properties.                                                         *)

\* The MGETs and the GETs after notifications share lastValues, and failed
\* GETs write to it: it never drifts from what the DcValues show, however
\* often the connection breaks.
THEOREM LastMatchesViewHolds == Spec => []LastMatchesView
<1>1. Init => LastMatchesView
  BY DEF Init, LastMatchesView, Shows
<1>2. ASSUME TypeOK, SeenIsBehind, LastMatchesView, [Next]_vars
      PROVE  LastMatchesView'
  <2>1. CASE UNCHANGED sdkVars
    BY <1>2, <2>1 DEF sdkVars, LastMatchesView, Shows
  <2>2. ASSUME NEW k \in Key, NEW c \in Raw \cup {Absent}, Report(k, c)
        PROVE  LastMatchesView'
    BY <1>2, <2>2, ReportType
  <2> QED
    BY <1>2, <2>1, <2>2, StepsOfTheView, ViewSteps, ReadType, RedisAssumption
<1> QED
  BY <1>1, <1>2, TypeCorrect, PTL DEF Spec

\* A comparison with what redis holds leaves the key showing that, or an
\* empty string unreported.
LEMMA ComparedIsShown ==
  ASSUME TypeOK, LastMatchesView, NEW k \in Key, NEW n \in 1 .. Len(log),
         Compare(k, Current[k], n)
  PROVE  \/ Shows(k, view'[k], Current[k])
         \/ Current[k] = Empty /\ view'[k] = Default
<1>1. Current[k] \in Raw \cup {Absent} /\ Shows(k, view[k], last[k])
  BY ReadType DEF Current, TypeOK, LastMatchesView
<1>2. CASE Report(k, Current[k])
  BY <1>2 DEF Report, Applied, RevertEntry, UpdateEntry, Shows, TypeOK
<1>3. CASE UNCHANGED sdkVars /\ Current[k] = Absent /\ last[k] = Absent
  BY <1>1, <1>3 DEF sdkVars
<1>4. CASE UNCHANGED sdkVars /\ Current[k] = LastValue(k)
  BY <1>1, <1>4 DEF sdkVars, LastValue, Shows
<1> QED
  BY <1>2, <1>3, <1>4 DEF Compare

\* And it leaves what is said of the other keys alone.
LEMMA CompareLeavesOthers ==
  ASSUME TypeOK, NEW k \in Key, NEW j \in Key, j # k, NEW c, NEW n,
         Compare(k, c, n), UNCHANGED log, ShowsRedis(j)
  PROVE  ShowsRedis(j)'
<1>1. view'[j] = view[j]
  BY DEF Compare, Report, sdkVars, TypeOK
<1> QED
  BY <1>1 DEF ShowsRedis, Shows, EmptyUnreported, Current

\* A write is a notification, or is lost.
LEMMA WriteStaleIsPending ==
  ASSUME TypeOK, StaleIsPending, NEW k \in Key,
         NEW c \in Stored \cup {Absent}, Write(k, c)
  PROVE  StaleIsPending'
<1> SUFFICES ASSUME Listening, ~missed, ~missed', NEW j \in Key
             PROVE  /\ NothingPending(j)' => ShowsRedis(j)'
                    /\ pc = "emit" /\ (\A i \in 1 .. Len(msgs') : msgs'[i] # j)
                       => at > 0 /\ log'[at][j] = Current'[j]
  BY DEF StaleIsPending, Listening, Write
<1>1. sub = "active" /\ msgs' = Append(msgs, k)
  BY DEF Write, Listening, TypeOK
<1>2. /\ Len(msgs') = Len(msgs) + 1 /\ Len(msgs) \in Nat
      /\ msgs'[Len(msgs) + 1] = k
      /\ \A i \in 1 .. Len(msgs) : msgs'[i] = msgs[i]
  BY <1>1 DEF TypeOK
<1>3. CASE j = k
  BY <1>2, <1>3 DEF NothingPending
<1>4. CASE j # k
  <2>1. Current' = [Current EXCEPT ![k] = c]
    BY DEF Write, Current, TypeOK
  <2>2. Current'[j] = Current[j]
    BY <1>4, <2>1 DEF Current, TypeOK
  <2>3. at > 0 => log'[at] = log[at]
    BY DEF Write, TypeOK
  <2>4. NothingPending(j)' => NothingPending(j)
    BY <1>2 DEF NothingPending, Write
  <2>5. ShowsRedis(j) => ShowsRedis(j)'
    BY <2>2 DEF ShowsRedis, Shows, EmptyUnreported, Write, sdkVars
  <2> QED
    BY <1>2, <2>2, <2>3, <2>4, <2>5 DEF StaleIsPending
<1> QED
  BY <1>3, <1>4

LEMMA NextOneAtATime ==
  ASSUME TypeOK, OneAtATime, [Next]_vars PROVE OneAtATime'
<1>1. CASE Notified
  <2>1. msgs # << >> /\ msgs \in Seq(Key) /\ todo' = {Head(msgs)}
    BY <1>1 DEF Notified, TypeOK
  <2>2. Head(msgs) \in Key
    BY <2>1
  <2> QED
    BY <2>1, <2>2 DEF OneAtATime
<1>2. CASE pc' # "get" \/ UNCHANGED <<pc, todo>>
  BY <1>2 DEF OneAtATime
<1> QED
  BY <1>1, <1>2
  DEF Next, Write, SubscriptionActive, ConnectionLost, Connecting, Subscribe,
      ConfigFails, BackoffElapses, Reading, MGetOk, MGetFails, Emitting,
      EmitEnds, EmitKey, GetOk, GetFails, Handled, ResyncTick, ChannelCloses,
      Return, Cancel, vars, TypeOK

LEMMA NextStaleIsPending ==
  ASSUME TypeOK, LastMatchesView, StaleIsPending, OneAtATime, [Next]_vars
  PROVE  StaleIsPending'
<1>1. ASSUME NEW k \in Key, NEW c \in Stored \cup {Absent}, Write(k, c)
      PROVE  StaleIsPending'
  BY <1>1, WriteStaleIsPending
<1>2. CASE MGetOk
  <2>1. log[Len(log)] = Current /\ Len(log) > 0
    BY DEF Current, TypeOK
  <2> QED
    BY <1>2, <2>1 DEF MGetOk, StaleIsPending, NothingPending, Current
<1>3. ASSUME NEW k \in Key, EmitKey(k) PROVE StaleIsPending'
  <2> SUFFICES ASSUME ~missed, NEW j \in Key
               PROVE  /\ NothingPending(j)' => ShowsRedis(j)'
                      /\ (\A i \in 1 .. Len(msgs) : msgs[i] # j) =>
                             at > 0 /\ log[at][j] = Current[j]
    BY <1>3 DEF EmitKey, connVars, StaleIsPending, Current
  <2>1. Listening /\ pc = "emit" /\ UNCHANGED <<log, msgs>>
    BY <1>3 DEF EmitKey, connVars, Listening
  <2>2. CASE j = k
    <3>1. ASSUME NothingPending(j)' PROVE ShowsRedis(j)'
      <4>1. at > 0 /\ log[at][k] = Current[k]
        BY <2>1, <2>2, <3>1 DEF NothingPending, StaleIsPending
      <4>2. at \in 1 .. Len(log) /\ Compare(k, Current[k], at)
        BY <1>3, <4>1 DEF EmitKey, TypeOK
      <4> QED
        BY <2>1, <2>2, <4>2, ComparedIsShown
        DEF ShowsRedis, EmptyUnreported, Shows, Current
    <3> QED
      BY <2>1, <3>1 DEF StaleIsPending
  <2>3. CASE j # k
    <3>1. ASSUME NothingPending(j)' PROVE ShowsRedis(j)'
      <4>1. NothingPending(j)
        BY <1>3, <2>1, <2>3, <3>1 DEF NothingPending, EmitKey
      <4> QED
        BY <1>3, <2>1, <2>3, <4>1, CompareLeavesOthers
        DEF StaleIsPending, EmitKey
    <3> QED
      BY <2>1, <3>1 DEF StaleIsPending
  <2> QED
    BY <2>2, <2>3
<1>4. CASE Notified
  <2>1. /\ Len(msgs) \in Nat /\ Len(msgs) > 0
        /\ Len(msgs') = Len(msgs) - 1
        /\ \A i \in 1 .. Len(msgs') : msgs'[i] = msgs[i + 1]
        /\ todo' = {msgs[1]} /\ todo = {}
    BY <1>4 DEF Notified, TypeOK
  <2>2. ASSUME NEW j \in Key, NothingPending(j)' PROVE NothingPending(j)
    <3> SUFFICES ASSUME NEW i \in 1 .. Len(msgs) PROVE msgs[i] # j
      BY <2>1 DEF NothingPending
    <3>1. CASE i = 1
      BY <2>1, <2>2, <3>1 DEF NothingPending
    <3>2. CASE i # 1
      <4>1. i - 1 \in 1 .. Len(msgs') /\ msgs'[i - 1] = msgs[i]
        BY <2>1, <3>2
      <4> QED
        BY <2>2, <4>1 DEF NothingPending
    <3> QED
      BY <3>1, <3>2
  <2> QED
    BY <1>4, <2>2 DEF Notified, StaleIsPending, Listening, ShowsRedis, Shows,
       EmptyUnreported, Current, sdkVars
<1>5. ASSUME NEW k \in Key, GetOk(k) PROVE StaleIsPending'
  <2> SUFFICES ASSUME ~missed, NEW j \in Key, NothingPending(j)'
               PROVE  ShowsRedis(j)'
    BY <1>5 DEF GetOk, Handled, StaleIsPending
  <2>1. Listening /\ UNCHANGED <<log, msgs>>
    BY <1>5 DEF GetOk, Handled, Listening
  <2>2. Compare(k, Current[k], Len(log)) /\ Len(log) \in 1 .. Len(log)
    BY <1>5 DEF GetOk, TypeOK
  <2>3. CASE j = k
    BY <2>1, <2>2, <2>3, ComparedIsShown
    DEF ShowsRedis, EmptyUnreported, Shows, Current
  <2>4. CASE j # k /\ j \notin todo
    <3>1. NothingPending(j)
      BY <2>1, <2>4 DEF NothingPending
    <3> QED
      BY <2>1, <2>2, <2>4, <3>1, CompareLeavesOthers DEF StaleIsPending
  <2>5. todo = {k}
    BY <1>5 DEF GetOk, Handled, OneAtATime
  <2> QED
    BY <2>3, <2>4, <2>5
<1>6. ASSUME NEW k \in Key, GetFails(k) PROVE StaleIsPending'
  BY <1>6 DEF GetFails, StaleIsPending
<1>7. CASE ConnectionLost
  <2>1. CASE Listening /\ ~missed'
    <3>1. /\ ~missed /\ msgs = << >>
          /\ UNCHANGED <<pc, log, msgs, sdkVars, at, todo>>
      BY <1>7, <2>1 DEF ConnectionLost
    <3> QED
      BY <2>1, <3>1 DEF StaleIsPending, Listening, NothingPending, ShowsRedis,
         Shows, EmptyUnreported, Current, sdkVars
  <2>2. CASE ~(Listening /\ ~missed')
    BY <1>7, <2>2 DEF ConnectionLost, StaleIsPending, Listening
  <2> QED
    BY <2>1, <2>2
<1>8. CASE EmitEnds
  BY <1>8 DEF EmitEnds, connVars, sdkVars, StaleIsPending, Listening,
     NothingPending, ShowsRedis, Shows, EmptyUnreported, Current
<1>9. CASE UNCHANGED <<log, msgs, missed, view, pc, at, todo>>
  BY <1>9 DEF StaleIsPending, Listening, NothingPending, ShowsRedis, Shows,
     EmptyUnreported, Current
<1>10. CASE MGetFails \/ pc' \in {"connect", "mget", "backoff", "returned"}
  BY <1>10 DEF MGetFails, StaleIsPending, Listening
<1> QED
  BY <1>1, <1>2, <1>3, <1>4, <1>5, <1>6, <1>7, <1>8, <1>9, <1>10
  DEF Next, SubscriptionActive, Connecting, Subscribe, ConfigFails,
      BackoffElapses, Reading, Emitting, ResyncTick, ChannelCloses, Return,
      Cancel, connVars, sdkVars, vars

\* Whatever order MGETs, notifications, GETs and failures come in, a provider
\* with nothing left to do has lost something since its latest MGET or shows
\* what redis holds, but for an empty string that went unreported.
THEOREM QuietIsCurrentHolds == Spec => []QuietIsCurrent
<1>1. Init => StaleIsPending /\ OneAtATime
  BY DEF Init, StaleIsPending, OneAtATime, Listening
<1>2. TypeOK /\ LastMatchesView /\ StaleIsPending /\ OneAtATime /\ [Next]_vars
      => StaleIsPending' /\ OneAtATime'
  BY NextStaleIsPending, NextOneAtATime
<1>3. TypeOK /\ StaleIsPending => QuietIsCurrent
  <2> SUFFICES ASSUME TypeOK, StaleIsPending, pc = "select", msgs = << >>,
                      ~missed, NEW k \in Key
               PROVE  ShowsRedis(k)
    BY DEF QuietIsCurrent
  <2>1. todo = {} /\ Len(msgs) = 0
    BY DEF TypeOK
  <2>2. NothingPending(k)
    BY <2>1 DEF NothingPending
  <2> QED
    BY <2>2 DEF StaleIsPending, Listening
<1> QED
  BY <1>1, <1>2, <1>3, TypeCorrect, LastMatchesViewHolds, PTL DEF Spec

\* A write publishes one more state.
LEMMA WritePublishes ==
  ASSUME TypeOK, NEW k \in Key, NEW c \in Stored \cup {Absent}, Write(k, c)
  PROVE  Contract!Publish
<1>1. [Current EXCEPT ![k] = c] \in Contract!Contents
  BY RedisAssumption DEF Current, TypeOK, Contract!Contents
<1> QED
  BY <1>1 DEF Write, sdkVars, Contract!Publish

\* A report about a state that was read is a Sync.
LEMMA ReportSyncs ==
  ASSUME TypeOK, NEW k \in Key, NEW n \in 1 .. Len(log), UNCHANGED log,
         Report(k, log[n][k]), seen' = [seen EXCEPT ![k] = n], n >= seen[k]
  PROVE  Contract!Next
<1>1. [s \in {"watch"} |-> seen]'
          = [[s \in {"watch"} |-> seen] EXCEPT !["watch"][k] = n]
  OBVIOUS
<1>2. Contract!Sync("watch", k, n)
  BY <1>1 DEF Report, Contract!Sync, Contract!Applied, Contract!UpdateEntry,
              Contract!RevertEntry, Contract!Decodes, Applied, UpdateEntry,
              RevertEntry, Decodes
<1> QED
  BY <1>2 DEF Contract!Next

\* The redis provider keeps what the contract promises, across reconnects and
\* for DcValues of any type: no value goes back, and none is shown that redis
\* did not hold but for the "" that a failed GET is taken for.
THEOREM RedisImplementsContract == Spec => Implements
<1>1. Init => Contract!Init
  BY RedisAssumption DEF Init, Contract!Init, Contract!Contents
<1>2. ASSUME TypeOK, SeenIsBehind, [Next]_vars
      PROVE  [Contract!Next]_Contract!vars
  <2>1. ASSUME NEW k \in Key, NEW c \in Stored \cup {Absent}, Write(k, c)
        PROVE  Contract!Next
    BY <1>2, <2>1, WritePublishes DEF Contract!Next
  <2>2. CASE UNCHANGED <<log, sdkVars>>
    BY <2>2 DEF sdkVars, Contract!vars
  <2>3. ASSUME NEW k \in Key, Report(k, Empty), UNCHANGED <<log, seen>>
        PROVE  Contract!Next
    <3>1. Contract!Misread(k)
      BY <2>3 DEF Report, Contract!Misread, Contract!Applied,
                  Contract!UpdateEntry, Contract!RevertEntry,
                  Contract!Decodes, Applied, UpdateEntry, RevertEntry, Decodes
    <3> QED
      BY <3>1 DEF Contract!Next
  <2>4. ASSUME NEW k \in Key, EmitKey(k) \/ GetOk(k) \/ GetFails(k)
        PROVE  [Contract!Next]_Contract!vars
    BY <1>2, <2>2, <2>3, <2>4, ViewSteps, ReportSyncs
  <2>5. \/ \E k \in Key : \E c \in Stored \cup {Absent} : Write(k, c)
        \/ UNCHANGED <<log, sdkVars>>
        \/ \E k \in Key : EmitKey(k) \/ GetOk(k) \/ GetFails(k)
    BY <1>2 DEF Next, SubscriptionActive, ConnectionLost, Connecting,
       Subscribe, ConfigFails, BackoffElapses, Reading, MGetOk, MGetFails,
       Emitting, EmitEnds, Notified, ResyncTick, ChannelCloses, Return,
       Cancel, vars
  <2> QED
    BY <2>1, <2>2, <2>4, <2>5
<1> QED
  BY <1>1, <1>2, TypeCorrect, PTL DEF Spec, Implements, Contract!Spec

=============================================================================
