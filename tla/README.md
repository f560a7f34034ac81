# poya, specified in TLA+

poya is a Go SDK for configuration values that follow a backend: an application
registers `DcValue[T]`s under keys, calls `Start`, and from then on `Get` returns
what etcd, redis, Vault, MySQL, PostgreSQL or a file holds for the key. This
directory holds TLA+ modules of the code that does it, the TLC configurations
that check them, and proofs that TLAPS checks. Everything is translated from the
Go source; `PROJECT.json` maps each definition to its lines.

## 1. The system

### Components

| component | state it keeps | operations | what makes it correct |
|---|---|---|---|
| SDK core (`poya.go`) | `values` (key to entry) under `mu`, `ctx`, `wg`, `disabled` | `Register`, `RegisterConfig`, `Start`, the callbacks `onChange` and `onDelete`, `Stop` | a value reaches the DcValue it was meant for; `Stop` drains and returns; nothing moves afterwards |
| DcValue (`dcvalue.go`) | `defaultValue`, the atomic `val`, `kind` | `NewDcValue`, `Get`, `SetDefaultAndValue`, the `Internal*` methods | `Get` returns a default or a decoded backend value; a store never changes the dynamic type |
| decoding (`poya.go:380-500`) | none | `updateEntry`, `parseValue` | documented types parse; a string that does not decode changes nothing |
| decode hooks (`hooks/`) | none | `Hook`, `StringToDcValue`, `JSONString` | a config file's value is what the provider's string would be, and what a deletion restores |
| key paths (`poya.go:30-50,141-317`) | the recursion | tags, prefixes, nested structs and maps | each DcValue gets the key its tags say, and none is left out |
| `CommonPrefix` (`provider/provider.go`) | a loop | and etcd's range, Vault's path and fields | the longest common prefix; every key is covered |
| backoff (`provider/backoff.go`) | none | `Backoff`, `SleepBackoff` | grows, is capped |
| etcd | revision, `attempt` | read, watch, drain, reconnect | no event lost or replayed across reconnects |
| redis | `lastValues`, the subscription | subscribe, MGET, GET per notification, resync | `lastValues` matches what was reported; lost notifications are made good |
| mysql, postgresql, vault | `lastValues` | poll, compare, report | as above |
| file | `values` under `mu`, shared by all Watch calls | load, emit, fsnotify events | what is shown is one file, and the latest |
| metrics, loggers, examples | counters | | output only |

### How they interact

A config loader may first let a hook fill the DcValues. `RegisterConfig` walks the
configuration and enters each DcValue, with a copy of its default and kind, under its
key. `Start` takes a snapshot of the keys and runs `Provider.Watch` in a goroutine. The
provider calls `onChange(key, raw)` and `onDelete(key)`, one after the other. A callback
looks the entry up under `s.mu`, **unlocks**, decodes and stores into the DcValue's
atomic value; `onDelete` stores the default the entry was registered with. `Stop`
cancels the context every provider's select looks at, and waits for the goroutines.
Backends, go-redis, etcd's client, fsnotify and mapstructure are external and are
modelled from how the code uses them.

### What is hard

Callbacks in flight while keys are re-registered or while `Stop` runs; two `Start`s
storing into the same values; a backend that changes between a read and the report of
each key; reads that fail; watches and subscriptions that break and lose events;
`lastValues` drifting from what was reported; half-written files; three separate
dispatches on the type of a DcValue that must agree; the order of loading, registering
and reporting; boundaries of string slicing. `PROJECT.json` lists these at their lines
as hazards, with the properties aimed at each.

## 2. The modules

| module | models | proofs |
|---|---|---|
| `DcEntry` | the vocabulary: contents of a backend, decoding, what a callback leaves behind | |
| `SyncContract` | the abstract specification: what a provider and the SDK promise together | |
| `PoyaSDK` | `poya.go`, with any provider | `PoyaSDK_proofs` |
| `Registration` | `RegisterConfig`'s walk, tags and prefixes; implements `PoyaSDK`'s registration | `Registration_proofs` |
| `Decoding` | one DcValue: its type, the parsers, the hooks, the entry | `Decoding_proofs` |
| `PollProvider` | mysql, postgresql, vault; implements `SyncContract` | `PollProvider_proofs` |
| `EtcdProvider`, `Backoff` | etcd, `backoff.go`; implements `SyncContract` | `EtcdProvider_proofs` |
| `RedisProvider` | redis; implements `SyncContract` | `RedisProvider_proofs` |
| `FileProvider` | file; one watcher implements `SyncContract` | `FileProvider_proofs` |
| `KeyPaths` | `CommonPrefix` and its uses | `KeyPaths_proofs` |
| `MC*` | small constants for TLC | |

**How state corresponds.** A raw string is an element of `Raw`; whether it decodes into
the type behind a key is the relation `Malformed`, and a decoded value is written as
the raw string itself, so that defaults are told apart from reported values. `val` (or
`view` in the provider modules) is the atomic value. In provider modules the backend is
its history `log`, one entry per transaction; `seen` is a history variable, the position
the latest report about a key took account of. `pc` is the place in the provider's loop,
and each action runs from one point where another thread, the backend or the context can
matter to the next.

**`SyncContract`.** Every Watch call is a `Source`. `Sync(s, k, i)` moves a key's value to
what the backend held at position `i`, never to an older one than `s` has reported;
`Publish` is a write. Sources may lag behind each other and skip states, but never go
back, and never invent a value but for the members of `Misreads` (`Misread(k)`). That set
is empty for every provider but redis, where it holds the `""` a failed GET is taken for.

**`PoyaSDK`.** `OnChange` and `OnDelete` end at `RUnlock`, with the entry they read in
`call[w]`; `UpdateEntry`, `RevertEntry` and `Unregistered` are the rest of the callback.
`RegisterConfig` takes the fields of a struct, `HandleDcValue` registers one of them, so
other threads run in between. A provider is anything that calls back about a watched
key (about any key with `PrefixWatch`, as etcd does) and may return at any time,
with or without an error. `SetDefaultAndValue` is what the decode hooks do.

**`Registration`.** A configuration is a tree of structs, maps, pointers, interfaces and
DcValues; strings are sequences over `Char`. `todo` is the stack of the recursion: a task
is a call of `registerConfig`, with the path and addressability the code computes for the
node, and with what its loop has not come to yet. `WalkStruct` is one round of the loop over
fields, `WalkMap` one round of the loop over entries (in any order), `HandleDcValue`
registers a DcValue, `NodeDone` returns. `Documented` is the reference: the keys as
README.md composes them, with one function, `keysWithin`, that looks so and so many
levels down and knows nothing of the walk's rules about slashes. `due` is a history
variable: the documented keys that have not been registered. `RegistersAsSDK` shows that
every step of the walk is a step of `PoyaSDK` or changes nothing there.

`RegistrationAssumption` says which configurations this is about: names and tags neither
begin nor end with a slash, nor does a map key except in front and, where it does not lead
to a DcValue itself, at its end; `Config.Prefix` is not a bare slash; the trees are finite
(`MaxDepth` bounds their depth, so that looking one level further finds nothing more; the
code has no such bound, and cannot walk a cyclic configuration).
`DistinctAssumption` says that no DcValue is in two places of a configuration, which gives
it one key.

**`Decoding`.** `type` is one of twelve classes of Go types, chosen so that every branch of
`parseValue`, `parseScalarString`, `Hook` and the kind switch has one: a string, a sized
integer, a Duration, a `time.Time`, `[]byte`, another slice, a struct, a map, and
TextUnmarshalers that are a number, a string, a struct and a slice underneath. A string
is what it denotes and the form it is written in. `Load` is any hook on any source,
`Register` copies default and kind into the entry, `OnChange` and `OnDelete` are the
callbacks; `Store` is `atomic.Value.Store`, which panics when the dynamic type changes.

**`PollProvider`.** `PollOk` is the one query of a cycle, `EmitChange`, `EmitDelete` and
`SkipKey` the comparison of one key, in any order (that of a map walk). Go's
`lastValues[key]` for a missing key is `Empty`, which the model keeps. The parameters
tell SQL from Vault: `Unreadable` values (NULL, non-strings) are left out of what a read
returns; with `MissingIsError` the secret as a whole may be `missing`, and then no read
succeeds. A secret whose latest version is deleted, or which has none of the keys, is
not missing: `readSecret` returns an empty map for it, and deletions are reported.

**`EtcdProvider`.** `ReadOk` fixes the revision, `LoadKey` reports each key found,
`OpenWatch` resets the backoff and watches from the next revision, `Receive` and
`ApplyEvent` take one transaction's events, `WatchDrops` breaks the watch.

**`RedisProvider`.** A write notifies only a subscription that is in effect.
`SubscriptionActive` and `ConnectionLost` are the server and go-redis. `MGetOk` and
`GetOk` are the two readers; both go through `Compare`. `GetFails` is `getExists`'s
`("", true)`, after which the string `""` is reported like any other, and shown if the
DcValue is a string (the contract's `Misread`). `resync` is the
choice of a configuration with or without `ResyncInterval`, made in `Init`. `missed` is a
history variable: since the latest MGET, a notification was lost or a read failed.

**`FileProvider`.** `Init` is `New` with its load. `p.values` is the position in `log` it was
loaded from. `load` is two steps, because it reads without the lock and stores with it;
`emitAll` holds the lock from `EmitBegins` to `EmitEnds`. `AddFails` ends `Watch` with an error
before it has reported anything, whatever the file is like. An event that names the file
as `Config.Path` does is taken by `TakeEvent`, any other by `IgnoreEvent`; which of the two it
is, is fsnotify's choice. `missed` is a history variable: since the file was last read, it
has changed with nobody watching, or an event was lost or ignored.

**`KeyPaths`.** The two loops of `CommonPrefix` run step by step on sequences of
characters; `EtcdRange`, `VaultWatchPath`, `VaultWatchField` and `SplitKey` are what
the providers do with the result.

## 3. What TLC checks

Every property has a mutant of the code, listed in `PROJECT.json`, that breaks it.

| run | checks | bounds |
|---|---|---|
| `sdk` | `Provenance`: `Get` returns a default given to this DcValue, or a string reported while it held the key that decodes into it; `StopDrains`, `NoStoreAfterStop`, `StopTerminates` | 2 DcValues on 1 key, 1 string only one of them decodes, a struct whose fields collide, 2 watchers, 2 Stops, prefix watches |
| `poll` | `LastMatchesView`, `Mirror`, `Implements`, `Converges`, `WatchReturns` | 1 key, 4 strings (one undecodable, one empty, one unscannable), 2 writes, 2 watchers, a secret that is emptied or removed altogether |
| `etcd` | `PutsMirrored`, `DeletesMirrored`, `BackoffSchedule`, `Implements`, `PutsConverge`, `WatchReturns` | 2 keys, 2 strings, 2 writes, 1 broken watch, any number of failed reads |
| `redis` | `LastMatchesView`, `QuietIsCurrent`, `Implements`, `Converges`, `WatchReturns` | a number's key and a string's, 2 strings (one empty), 2 writes, with and without a resync interval, 1 failed command, 1 lost connection or closed channel |
| `file_live` | `Implements`, `Converges`, `WatchReturns` | 1 watcher, 2 keys, 2 strings, 2 writes (atomic or not), 1 fsnotify error |
| `file_shared` | `ViewFollowsValues`, `QuietIsCurrent` | 2 watchers, 2 keys, 2 writes, 1 error |
| `prefix_loop` | `LongestCommonPrefix`, `SiblingsAreFound` | up to 3 distinct keys of up to 3 of 3 characters |
| `decoding` | `NoMismatch`, `DocumentedTypesParseByKind`, `DeleteRestoresSeed`, `SameTextSameValue` | 12 classes of types, 2 meanings (one too wide for an int8), every form of string, any sequence of loads, registrations and reports |
| `registration` | `NothingLeftOut`, `LastFieldWins`, `RegistersAsSDK` | trees up to 4 deep with 2 DcValues, 4 kinds of tags, 3 SDK prefixes |

`TypeOK` is checked once per module; those of `KeyPaths` and `Registration` are stated and
proved in `KeyPaths_proofs` and, as part of `Inv`, in `Registration_proofs`.

**Why the bounds are enough.** Provider runs have two writes: they allow a value to come,
go or change, and change again between a read and its report; with a lost event and a
failed read that is every way a comparison with `lastValues` can go wrong, since keys do
not influence each other except through one shared read, for which two keys are enough
(the poll's keys only share `at`, and the proofs cover any number). Two watchers are
enough for every race, as a store by one is followed by at most one conflicting store of
another. `MaxAttempt = 6` is the first attempt that waits the full 30 s. Key lengths of 3
hold a parent, a slash and a name; three keys let the prefix shrink twice. The trees of
`registration` put every kind of node under every other, with and without a pointer or an
interface in between. `CHECK_DEADLOCK FALSE` appears where the system does stop: all
watchers have returned, a bounded backend has no writes left, or the walk is over.

**Fairness.** The specifications named `Spec` assume none. `FairSpec` assumes that
goroutines run and timers fire (weak fairness), that a select whose branch is ready
again and again takes it (strong fairness: Go chooses among ready branches at random),
and that a backend that can be read answers again and again (strong fairness of the
read while the context is live, beside reads that fail as often as they like). Nothing
is assumed of writers, of connections breaking, or of anybody calling `Stop`.

### Where the code and its documentation disagree

Three runs expect a violation. Each states what a comment or README.md says and finds
what the code does instead.

| run | what happens |
|---|---|
| `etcd_missed_delete` | a key deleted while the watch is down lingers (`etcd.go:82`); `DeletesMirrored` holds until a watch breaks |
| `prefix_etcd` | a common prefix that ends inside a name, or a single key, gives a range without the keys (`etcd.go:59`); `SiblingsAreFound` says when it does not |
| `decoding_documented` | a `time.Time`, a `[]byte` and a TextUnmarshaler that is a struct or a slice are taken for JSON, and their text form is ignored (`poya.go:381`, against `README.md:27`); `DocumentedTypesParseByKind` says for which types it is not |

Other disagreements are exceptions written into passing properties, which would fail
without them:

- `Mirror` and `Converges` of `PollProvider`: a key that holds `""` when it is first seen is
  never reported (`EmptyUnreported`; `mysql.go:234` against the comment at 216-217, the
  same in postgresql and vault).
- `Converges` of `PollProvider`: when a Vault secret is removed with all its versions, every
  read is an error (`vault.go:129`) and its old values stay, although `README.md:21` promises
  that nothing lingers (`missing`). When only its latest version is deleted, or its last
  field removed, the defaults do come back, and `Converges` checks that.
- `Converges` of `RedisProvider`: without a resync interval, one failed MGET at start
  (`redis.go:171`) or one lost notification is never made good (`missed`), although
  `README.md:18` says that current values load on start.
- `Implements` of `RedisProvider` (`Misreads`): a GET that fails is reported as `""`
  (`redis.go:109`), "so the SDK does not spuriously revert to the default on a network
  hiccup" (`redis.go:101-102`). A string DcValue, the type in README.md's quick start, then
  shows `""`, which redis did not hold. `QuietIsCurrent` says how long: until the next MGET,
  which without a resync interval may never come, as `Converges` allows (`missed`).
- `QuietIsCurrent` and `Converges` of `RedisProvider`: a string DcValue whose key holds `""`
  when it is first seen is not told, with a resync interval or without (`EmptyUnreported`;
  `redis.go:158,184`, against `README.md:18`).
- `QuietIsCurrent` and `Converges` of `FileProvider`: an edit between `New`'s load and
  `Watch`'s `watcher.Add` (`file.go:114`) is not seen until the next one, nor is one whose
  event was lost in an fsnotify error (`file.go:148`) or spells the path in another way than
  `Config.Path` (`file.go:126`): see `missed`. `README.md:555` promises a reload on every change.
- `Converges` of `FileProvider`: when `fsnotify.NewWatcher` or one of the two `Add`s fails
  (`file.go:97,103,109`), `Watch` is over for good, and the DcValues stay at their defaults
  although `New` has loaded the file and the file is fine (`pc[w] = "failed"`).
- `SiblingsAreFound`: vault reads another secret and other fields when the names in the
  secret all start alike (`vault.go:108`, against `README.md:450-451`).
- `DeleteRestoresSeed`: a hook that goes through JSON leaves a zero default
  (`dchook.go:219`), so a deletion does not restore the file's value (`README.md:369`).
- `SameTextSameValue`: a named string with an UnmarshalText is converted by the hook and
  parsed by the SDK (against `README.md:343`), and a numeral that UnmarshalText of a named
  number rejects is a number to the hook and an error to the SDK (`dchook.go:126` says the
  hook's parser mirrors the SDK's).
- `NoMismatch`: a DcValue of a map panics on the first report (`poya.go:498` hands back a
  string).

Some things the model shows that no document speaks of: a native number is wrapped to
the width of its field, and becomes a rune in a string field (`Converted`,
`dchook.go:65`); a tag with both a key and a prefix nests under the key; a struct behind
an interface-typed field is not looked into; a default given after registration is not
what a deletion restores.

## 4. What is proved

For every value of the constants, from the named assumptions of the modules
(`EntryAssumption`, `SDKAssumption`, `PollAssumption`, `EtcdAssumption`,
`RedisAssumption`, `FileAssumption`, `KeyPathsAssumption`, `DecodingAssumption`,
`RegistrationAssumption`, `DistinctAssumption`), which TLC evaluates in the runs of these
modules. Each proof names the strengthening it needs and has one step per action.

**`PoyaSDK_proofs`**, any number of keys, DcValues, watchers and Stops:

- `TypeCorrect`.
- `ProvenanceHolds`. `Provenance` says nothing of the entries that `RevertEntry` and
  `UpdateEntry` will store through, so the induction also needs `EntriesAreGiven` (the
  default in an entry was once this DcValue's) and `CallsAreGiven` (the same of the entry a
  callback holds, and that its string was reported for that DcValue).
- `WatchedKeysServed`: no report about a key that `Start` handed out is dropped. Needs
  `WatchedAreRegistered`: such a key has an entry, since no code removes one.
- `StopDrained`. Needs `StopCancels`: a Stop that has been called has cancelled the
  context, so a watcher started after one returned is in `late`.
- `StoppedIsStill`, an action property, from the same invariant: with no watcher
  running no callback can take a step.
- `DisabledIsInert`. Needs that no watcher ever leaves "unstarted".

`WatchedKeysAreServed` and `DisabledKeepsDefaults` are proved and in no run.

**`PollProvider_proofs`**, any number of watchers:

- `TypeCorrect`.
- `LastMatchesViewHolds`. Inductive over `TypeOK`: `by` tells whose report a value is from.
- `MirrorHolds`. Needs `LastIsPolled`: apart from the keys still to be compared, `lastValues`
  is what the latest successful read found, but for the unreported empty string.
- `PollImplementsContract`. `Write` is `Publish`, a callback is `Sync(w, k, at[w])`, all else
  stutters. Needs `SeenIsBehind`: no report takes account of a state newer than the
  watcher's last read.

**`EtcdProvider_proofs`**, any number of writes and of watches that break:

- `PutsMirroredHolds`. `PutsMirrored` is about `pc = "watch"` only; `PutsShown` says what is
  true on the way there, of the keys that are not in `todo`.
- `DeletesMirroredHolds`. Needs `DeletesShown`: until a watch breaks, nothing but defaults is
  shown before the first read is reported. After a break the same state is reached with
  old values, which is where `etcd_missed_delete` goes wrong.
- `EtcdImplementsContract`. Needs `SeenIsReached`: no report is ahead of `rev`, which never
  goes back.
- `TypeCorrect` and `BackoffScheduleHolds`, for any number of attempts. Need `WaitFits`: the last
  wait is the one the schedule has for the attempts counted. `DelayUnfolds` and
  `DelayGrows` are about the recursive function `delay`, which doubles until the cap;
  the bound on the attempts counted cuts nothing off, because the cap has been reached
  by then.

**`RedisProvider_proofs`**, any number of failures and lost connections:

- `TypeCorrect`, with `SeenIsBehind`: while the keys of an MGET are compared, no report took
  account of a newer state. This is what makes the two readers safe to interleave.
- `LastMatchesViewHolds`.
- `QuietIsCurrentHolds`. Needs `StaleIsPending`: until something is lost, a key that is not
  shown has a comparison or a notification to come, and what an MGET returned is still
  what redis holds of every key nobody has been notified of.
- `RedisImplementsContract`, for DcValues of any type. A comparison is `Sync`, with the
  position of the MGET or the newest one; a failed GET that is reported is `Misread`.

**`FileProvider_proofs`**, any number of watchers:

- `TypeCorrect`. Needs `BrokenHasRoom`, that the bound on writes counts the second half of
  an edit.
- `ViewFollowsValuesHolds`. Needs `Mutex` (one watcher reports at a time) and
  `EmittedIsShown` (what it has reported is what `p.values` says).
- `QuietIsCurrentHolds`. Needs `StaleIsPending` (a watcher about to store an older file has
  an event left to take, since every edit makes one for every watcher) and
  `NewFileIsComing` (while `p.values` is old, somebody has an event to take, or is on the
  way to store the newest file).
- `OneWatcherImplementsContract`. Needs `Ordered`, which two watchers break: one may store
  an older file after the other has reported a newer one.

**`KeyPaths_proofs`**, keys of any length over any characters:

- `LongestReturned`. Needs `PassedKeysMatch` (the keys already passed have the candidate as a
  prefix) and `NothingLost` (every common prefix is a prefix of the candidate).
- `SiblingsFound`: exactly which lists etcd and Vault find again with the result, for keys
  of any length. The half about etcd is that the range covers the keys when the longest
  common prefix ends in a slash. The half about Vault takes a secret's keys apart at
  their last slashes (`SplitKeyCuts`), which every key must share with the prefix
  (`PrefixOfSecret`), and compares field by field (`VaultFieldsFound`).

**`Registration_proofs`**, any finite trees, any alphabet, any prefix:

- `NoneLeftOut`, `LastOneWins` and `WalkIsRegisterConfig`, from one invariant, `Inv`. None of
  the three is inductive: they speak of `due` and `values` and say nothing of the stack.
  `Inv` says that `due` is exactly `StackKeys(todo)`, the documented keys of everything
  still on the stack, each task's under its own path; that tasks are well formed and,
  for a struct, come in the order of its fields (`StackInv`); and that no key of a later
  field is registered while one of an earlier field is due (`FieldsInOrder`).
- Each action takes the task on top of the stack apart. `StructRound` and `MapRound` say
  that one round splits the keys of a task into those of the child it visits and those
  of the rest of its loop. They rest on `FieldStep` and `EntryStep`: the path the code
  composes with its slash rules is the reference's segments joined by slashes.
- The reference recurses over trees. `KeysWithinUnfolds` proves that the recursive
  function exists and unfolds: functions that satisfy its equation down to a
  level exist by induction over the level (`ChainsExist`), agree (`ChainsAgree`), and
  together are the function that `CHOOSE` picks.

**`Decoding_proofs`**, any meanings, any sequence of loads, registrations and reports:

- `TypeCorrect` and `NoMismatchHolds`. Need `KindsFollowType`: the kind in the DcValue and
  the one copied into the entry are what T calls for, although they are set in three
  places.
- `DeletesRestore`. Needs `DefaultsAreGiven`.
- `DocumentedTypesParsed`. Needs `LatestIsShown`.
- `ParsersAgree`. Needs `GivenByHook`: what was seeded came out of one of the hooks.

Two proofs need an induction over natural numbers. The library's induction theorem takes
an operator as a parameter, which the installed provers cannot instantiate;
`NatSetInduction` states it about the subset of `Nat` for which the claim holds, and
follows from the well-foundedness of `<`.

**Only model-checked.** All liveness properties: `StopTerminates`, `Converges`,
`PutsConverge`, `WatchReturns` (fairness and ENABLED are outside the prover's reach). Every
invariant and every other property of the passing runs is proved, the file provider's
`Implements` for a single watcher.

## 5. What is not modelled

- Metrics, loggers, the examples and the dashboard only produce output.
- `Provider.Get` and `Close` keep no state and are not called by the SDK.
- How a file is parsed and how a value in it is turned into a string is data; so are
  SQL and the spelling of paths: that an event may name the file differently is
  modelled, when it does is not.
- Waiting times are left out but for etcd's backoff schedule. In redis `attempt` is never
  reset (`redis.go:96`), so late reconnections wait longest; no text promises otherwise.
- An empty key list (Watch waits for the context) is left out: nothing can be reported.
- DcValues that are embedded in a struct (anonymous fields), and DcValue fields held by
  value that neither `NewDcValue` nor a hook has set: their kind is the zero one and their
  atomic value is empty.
- `LastFieldWins` is about the fields of the struct given to `RegisterConfig`. Of the entries
  of a map that come to one key any may win; only `RegistersAsSDK` has that order.
- `DcValue[any]`, a native `time.Time` from a YAML loader, a configuration that is itself a
  DcValue, and prefix tags that end in a slash.

## 6. Plan

Done, in this order: `SyncContract`, `PoyaSDK`, `PollProvider`, `EtcdProvider`, `KeyPaths`,
`RedisProvider`, `FileProvider`, `Decoding`, `Registration`, and the proofs above.

Left:

1. The waiting times of redis and of the file provider's backoff, as history variables
   like etcd's `wait`.
2. A key registered after `Start`: which providers report it, and when (`poya.go:330`).
