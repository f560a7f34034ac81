------------------------------ MODULE DcEntry ------------------------------
(***************************************************************************)
(* The vocabulary the other modules share: what a backend can hold for a   *)
(* key, what DcValue.Get can return, and what one onChange or onDelete     *)
(* callback does to the value behind a registered key.                     *)
(*                                                                         *)
(* A raw provider string is a member of Raw.  Decoding it into the         *)
(* DcValue's type either fails (the pair is in Malformed) or yields the    *)
(* value the string denotes, for which the raw token itself stands.        *)
(***************************************************************************)

CONSTANTS
    Key,        \* full keys: SDK prefix, parent prefixes and field key
    Raw,        \* raw strings a backend can hold
    Absent,     \* "the backend does not hold the key"
    Default,    \* the default a key's DcValue was constructed with
    Malformed   \* pairs <<k, r>>: r does not decode into the type behind k

ASSUME EntryAssumption ==
    /\ Absent \notin Raw
    /\ Default \notin Raw
    /\ Malformed \subseteq Key \X Raw

\* What a backend holds, seen as one snapshot of every key.
Contents == [Key -> Raw \cup {Absent}]

\* What Get can return.
Val == Raw \cup {Default}

Decodes(k, r) == <<k, r>> \notin Malformed

\* updateEntry: a decode error returns before the Store, so the old value
\* stays.
UpdateEntry(k, old, r) == IF Decodes(k, r) THEN r ELSE old

\* revertEntry: the default the DcValue was registered with.
RevertEntry == Default

\* The value behind k once the SDK has been told that the backend holds c.
Applied(k, old, c) == IF c = Absent THEN RevertEntry ELSE UpdateEntry(k, old, c)

\* v is what the DcValue of k should show when the backend holds c: the
\* default for a missing key; a value that does not decode constrains nothing.
Shows(k, v, c) ==
    \/ c = Absent /\ v = Default
    \/ c # Absent /\ (Decodes(k, c) => v = c)

=============================================================================
