--------------------------- MODULE RedisProvider ---------------------------
(***************************************************************************)
(* The redis provider.  Watch subscribes to keyspace notifications, reads  *)
(* every key with one MGET, and then reads a key again whenever it is told *)
(* that the key changed, or all of them when the optional resync timer     *)
(* ticks.  lastValues decides what is called back about.                   *)
(*                                                                         *)
(* Redis and go-redis are external: a notification is published once, to   *)
(* the subscriptions that are in effect at that moment.  PSubscribe sends  *)
(* its command and does not wait for the server to confirm it; go-redis    *)
(* renews a broken connection by itself and keeps the channel open.        *)
(* Waiting times (the backoff, the resync interval) are left out.          *)
(***************************************************************************)
EXTENDS Naturals, Sequences, DcEntry

CONSTANTS
    Stored,      \* the strings redis can hold
    Empty,       \* the empty string, which a string DcValue takes as a value
    MaxWrites,   \* bound: changes of the backend
    MaxFails,    \* bound: commands that fail while the context is live
    MaxDrops     \* bound: connections lost and channels closed

ASSUME RedisAssumption ==
    /\ Stored \subseteq Raw
    /\ Empty \in Raw
    /\ {MaxWrites, MaxFails, MaxDrops} \subseteq Nat

VARIABLES
    resync,     \* Config.ResyncInterval > 0
    log,        \* the states of the backend, oldest first
    sub,        \* the subscription: "none", "requested", "active"
    msgs,       \* keys in the notifications that have not been received
    missed,     \* history: since the latest MGET a notification was lost or a
                \* read failed
    view,       \* view[k]: what Get returns for the DcValue behind k
    seen,       \* history: the position in log view[k] last took account of
    cancelled,  \* the context is done
    pc,         \* "connect", "mget", "emit", "select", "get", "backoff",
                \* "returned"
    last,       \* lastValues
    at,         \* the position in log of the latest MGET
    todo,       \* keys that MGET or a notification leaves to be compared
    fails, drops

connVars == <<sub, msgs, missed, drops>>
sdkVars  == <<view, seen, last>>
vars == <<resync, log, connVars, sdkVars, cancelled, pc, at, todo, fails>>

TypeOK ==
    /\ resync \in BOOLEAN
    /\ missed \in BOOLEAN
    /\ log \in Seq([Key -> Stored \cup {Absent}])
    /\ Len(log) \in 1 .. MaxWrites + 1
    /\ sub \in {"none", "requested", "active"}
    /\ msgs \in Seq(Key)
    /\ sub # "active" => msgs = << >>
    /\ view \in [Key -> Val]
    /\ seen \in [Key -> 0 .. Len(log)]
    /\ cancelled \in BOOLEAN
    /\ pc \in {"connect", "mget", "emit", "select", "get", "backoff", "returned"}
    /\ pc \in {"mget", "emit", "select", "get"} <=> sub # "none"
    /\ last \in [Key -> Raw \cup {Absent}]
    /\ at \in 0 .. Len(log)
    /\ todo \subseteq Key
    /\ pc \notin {"emit", "get"} => todo = {}
    /\ fails \in 0 .. MaxFails
    /\ drops \in 0 .. MaxDrops

Init ==
    /\ resync \in BOOLEAN
    /\ missed = FALSE
    /\ \E c \in [Key -> Stored \cup {Absent}] : log = <<c>>
    /\ sub = "none"
    /\ msgs = << >>
    /\ view = [k \in Key |-> Default]
    /\ seen = [k \in Key |-> 0]
    /\ cancelled = FALSE
    /\ pc = "connect"
    /\ last = [k \in Key |-> Absent]
    /\ at = 0
    /\ todo = {}
    /\ fails = 0
    /\ drops = 0

-----------------------------------------------------------------------------
(* Redis and go-redis.                                                     *)

Current == log[Len(log)]

\* The latest MGET is over, and notifications are relied on.
Listening == pc \in {"emit", "select", "get"}

\* SET, DEL, expiry or eviction of one key, and its notification.  Nobody
\* learns of it if there is no subscription and no MGET still to come.
Write(k, c) ==
    /\ Len(log) <= MaxWrites
    /\ c # Current[k]
    /\ log' = Append(log, [Current EXCEPT ![k] = c])
    /\ msgs' = IF sub = "active" THEN Append(msgs, k) ELSE msgs
    /\ missed' = (missed \/ (Listening /\ sub = "requested"))
    /\ UNCHANGED <<resync, sub, drops, sdkVars, cancelled, pc, at, todo, fails>>

\* The server has processed the PSUBSCRIBE.
SubscriptionActive ==
    /\ sub = "requested"
    /\ sub' = "active"
    /\ UNCHANGED <<resync, log, msgs, missed, drops, sdkVars, cancelled, pc,
                   at, todo, fails>>

\* The connection breaks: go-redis reconnects and subscribes again.
ConnectionLost ==
    /\ sub = "active"
    /\ drops < MaxDrops
    /\ drops' = drops + 1
    /\ sub' = "requested"
    /\ msgs' = << >>
    /\ missed' = (missed \/ (Listening /\ msgs # << >>))
    /\ UNCHANGED <<resync, log, sdkVars, cancelled, pc, at, todo, fails>>

\* A command may fail now and then, and does with a cancelled context.
CommandFails ==
    /\ cancelled \/ fails < MaxFails
    /\ fails' = IF cancelled THEN fails ELSE fails + 1

-----------------------------------------------------------------------------
(* Watch.                                                                  *)

\* lastValues[key]: a missing key reads as the empty string.
LastValue(k) == IF last[k] = Absent THEN Empty ELSE last[k]

\* subscribeOnce: ConfigSet succeeds and the subscription is requested.
Subscribe ==
    /\ pc = "connect"
    /\ pc' = "mget"
    /\ sub' = "requested"
    /\ UNCHANGED <<resync, log, msgs, missed, drops, sdkVars, cancelled, at,
                   todo, fails>>

\* subscribeOnce returns false when ConfigSet fails.
ConfigFails ==
    /\ pc = "connect"
    /\ CommandFails
    /\ pc' = "backoff"
    /\ UNCHANGED <<resync, log, connVars, sdkVars, cancelled, at, todo>>

\* resyncAll: the MGET.
MGetOk ==
    /\ pc = "mget"
    /\ pc' = "emit"
    /\ at' = Len(log)
    /\ todo' = Key
    /\ missed' = FALSE
    /\ UNCHANGED <<resync, log, sub, msgs, drops, sdkVars, cancelled, fails>>

\* It fails: resyncAll returns, and the subscription is served all the same.
MGetFails ==
    /\ pc = "mget"
    /\ CommandFails
    /\ pc' = "select"
    /\ missed' = TRUE
    /\ UNCHANGED <<resync, log, sub, msgs, drops, sdkVars, cancelled, at, todo>>

\* Record value c of key k in lastValues and call onChange or onDelete, if
\* it differs from what was reported last.
Report(k, c) ==
    /\ last' = [last EXCEPT ![k] = c]
    /\ view' = [view EXCEPT ![k] = Applied(k, @, c)]

Compare(k, c, position) ==
    LET changed == IF c = Absent THEN last[k] # Absent ELSE c # LastValue(k)
    IN  \/ changed /\ Report(k, c) /\ seen' = [seen EXCEPT ![k] = position]
        \/ ~changed /\ UNCHANGED sdkVars

\* Mutant: the MGET removes a missing key from lastValues without onDelete.
EmitKeyAfresh(k) ==
    /\ pc = "emit"
    /\ k \in todo
    /\ todo' = todo \ {k}
    /\ IF log[at][k] = Absent
       THEN last' = [last EXCEPT ![k] = Absent] /\ UNCHANGED <<view, seen>>
       ELSE Compare(k, log[at][k], at)
    /\ UNCHANGED <<resync, log, connVars, cancelled, pc, at, fails>>

EmitKey(k) ==
    /\ pc = "emit"
    /\ k \in todo
    /\ todo' = todo \ {k}
    /\ Compare(k, log[at][k], at)
    /\ UNCHANGED <<resync, log, connVars, cancelled, pc, at, fails>>

\* Mutant: notifications that came while the keys were compared are dropped.
EmitEndsDrains ==
    /\ pc = "emit"
    /\ todo = {}
    /\ pc' = "select"
    /\ msgs' = << >>
    /\ UNCHANGED <<resync, log, sub, missed, drops, sdkVars, cancelled, at,
                   todo, fails>>

EmitEnds ==
    /\ pc = "emit"
    /\ todo = {}
    /\ pc' = "select"
    /\ UNCHANGED <<resync, log, connVars, sdkVars, cancelled, at, todo, fails>>

\* A notification names a key; its value is read with a GET of its own.
Notified ==
    /\ pc = "select"
    /\ msgs # << >>
    /\ pc' = "get"
    /\ todo' = {Head(msgs)}
    /\ msgs' = Tail(msgs)
    /\ UNCHANGED <<resync, log, sub, missed, drops, sdkVars, cancelled, at,
                   fails>>

Handled(k) ==
    /\ pc = "get"
    /\ k \in todo
    /\ pc' = "select"
    /\ todo' = {}
    /\ UNCHANGED <<resync, log, sub, msgs, drops, cancelled, at>>

\* Mutant: the notification is answered from the latest MGET.
GetFromMGet(k) ==
    /\ Handled(k)
    /\ at > 0
    /\ Compare(k, log[at][k], at)
    /\ UNCHANGED <<missed, fails>>

\* Mutant: the GET may go to a replica that lags behind.
GetFromReplica(k) ==
    /\ Handled(k)
    /\ \E n \in 1 .. Len(log) : Compare(k, log[n][k], n)
    /\ UNCHANGED <<missed, fails>>

GetOk(k) ==
    /\ Handled(k)
    /\ Compare(k, Current[k], Len(log))
    /\ UNCHANGED <<missed, fails>>

\* getExists turns any error into ("", true): the key holds "".
GetFails(k) ==
    /\ Handled(k)
    /\ CommandFails
    /\ missed' = TRUE
    /\ IF Empty # LastValue(k) THEN Report(k, Empty) /\ UNCHANGED seen
                              ELSE UNCHANGED sdkVars

\* Mutant: a resync starts while the keys of the last one are compared.
ResyncInterrupts ==
    /\ resync
    /\ pc \in {"select", "emit"}
    /\ pc' = "mget"
    /\ UNCHANGED <<resync, log, connVars, sdkVars, cancelled, at, todo, fails>>

\* The resync ticker, if there is one.
ResyncTick ==
    /\ resync
    /\ pc = "select"
    /\ pc' = "mget"
    /\ UNCHANGED <<resync, log, connVars, sdkVars, cancelled, at, todo, fails>>

\* The message channel is closed: subscribeOnce closes the subscription and
\* returns false.
ChannelCloses ==
    /\ pc = "select"
    /\ drops < MaxDrops
    /\ drops' = drops + 1
    /\ pc' = "backoff"
    /\ sub' = "none"
    /\ msgs' = << >>
    /\ UNCHANGED <<resync, log, missed, sdkVars, cancelled, at, todo, fails>>

BackoffElapses ==
    /\ pc = "backoff"
    /\ pc' = "connect"
    /\ UNCHANGED <<resync, log, connVars, sdkVars, cancelled, at, todo, fails>>

\* Mutant: the context is not looked at while backing off or connecting.
ReturnFromSelectOnly ==
    /\ pc = "select"
    /\ cancelled
    /\ pc' = "returned"
    /\ sub' = "none"
    /\ msgs' = << >>
    /\ UNCHANGED <<resync, log, missed, drops, sdkVars, cancelled, at, todo,
                   fails>>

Return ==
    /\ pc \in {"connect", "select", "backoff"}
    /\ cancelled
    /\ pc' = "returned"
    /\ sub' = "none"
    /\ msgs' = << >>
    /\ UNCHANGED <<resync, log, missed, drops, sdkVars, cancelled, at, todo,
                   fails>>

\* SDK.Stop.
Cancel ==
    /\ cancelled' = TRUE
    /\ UNCHANGED <<resync, log, connVars, sdkVars, pc, at, todo, fails>>

Connecting == Subscribe \/ ConfigFails \/ BackoffElapses
Reading == MGetOk \/ MGetFails \/ \E k \in Key : GetOk(k) \/ GetFails(k)
Emitting == EmitEnds \/ \E k \in Key : EmitKey(k)

Next ==
    \/ \E k \in Key : \E c \in Stored \cup {Absent} : Write(k, c)
    \/ SubscriptionActive
    \/ ConnectionLost
    \/ Connecting
    \/ Reading
    \/ Emitting
    \/ Notified
    \/ ResyncTick
    \/ ChannelCloses
    \/ Return
    \/ Cancel

Spec == Init /\ [][Next]_vars

\* The goroutine runs; redis confirms subscriptions and answers commands;
\* select takes each of its ready branches again and again (it chooses among
\* them at random).  Nothing is assumed of who writes or stops the SDK.
Fairness ==
    /\ WF_vars(SubscriptionActive)
    /\ WF_vars(Connecting)
    /\ WF_vars(Reading)
    /\ WF_vars(Emitting)
    /\ SF_vars(Notified)
    /\ SF_vars(ResyncTick)
    /\ SF_vars(Return)

FairSpec == Spec /\ Fairness

-----------------------------------------------------------------------------
(* Properties.                                                             *)

\* Two readers of the backend (the MGETs and the GETs after notifications)
\* share lastValues, and it survives reconnects; it never drifts from what
\* the DcValues show.
LastMatchesView == \A k \in Key : Shows(k, view[k], last[k])

\* A string DcValue whose key holds "" when it is first seen, or again after a
\* deletion, is not told: a key missing from lastValues reads as "" too
\* (redis.go:158 and 184).  README.md:18 says that current values load on
\* start.  With a default that is not "", Get does not return what redis holds.
EmptyUnreported(k, c) == c = Empty /\ view[k] = Default

ShowsRedis(k) ==
    Shows(k, view[k], Current[k]) \/ EmptyUnreported(k, Current[k])

\* With nothing to do and no notification or read lost since the latest MGET,
\* every DcValue shows what redis holds, however MGETs, notifications and GETs
\* have mixed.  So the "" that a string DcValue shows after a failed GET is
\* there between that failure and the next MGET only.
QuietIsCurrent ==
    pc = "select" /\ msgs = << >> /\ ~missed => \A k \in Key : ShowsRedis(k)

\* Unless the SDK is stopped, every DcValue ends up showing what redis holds.
\* With a resync interval nothing but an unreported "" stands in the way.
\* Without one, a lost notification or a failed read is never made good (the
\* "" of a failed GET stays), unless the subscription breaks and is set up
\* again.
Converges ==
    \/ <>[](\A k \in Key : ShowsRedis(k))
    \/ <>cancelled
    \/ ~resync /\ <>[]missed

\* Once the context is done Watch returns, so Stop does.
WatchReturns == cancelled ~> pc = "returned"

\* What a provider promises: never an older value after a newer one, whatever
\* order notifications and resyncs come in, and only values redis held, with
\* one exception.  A GET that fails is reported as "" (redis.go:109), so that
\* the SDK "does not spuriously revert to the default on a network hiccup"; a
\* string DcValue then shows "", which is neither its default nor what redis
\* holds.
Contract == INSTANCE SyncContract
    WITH Source <- {"watch"}, Misreads <- {Empty},
         seen <- [s \in {"watch"} |-> seen]
Implements == Contract!Spec

=============================================================================
