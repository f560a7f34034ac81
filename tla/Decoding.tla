------------------------------ MODULE Decoding ------------------------------
(***************************************************************************)
(* How one DcValue[T] gets its values: from NewDcValue, from a decode hook *)
(* of a config loader (hooks/internal/dchook), and from the raw strings a  *)
(* provider reports.  T is one of a few classes of Go types, and a string  *)
(* is abstracted to what it denotes and in which form it is written.       *)
(*                                                                         *)
(* Three decisions are made in three places: the entry kind, from the      *)
(* reflect.Kind of T, picks JSON or parseValue for provider strings;       *)
(* parseValue and parseScalarString each pick a parser from T; and the     *)
(* hooks pick a conversion from T and the kind of the source.              *)
(***************************************************************************)

CONSTANTS
    Meaning,   \* the values a source can denote
    Wide,      \* those that do not fit the width of an "int8"
    Nil,       \* the field's pointer is nil
    NoEntry,   \* the key is not registered
    None,      \* no report since the value was seeded or registered
    Deleted,   \* the latest report is a deletion
    Error,     \* the string does not decode
    Unhandled  \* the hook passes the source through, or fails

\* What Go makes of a string or number without understanding it: the string
\* as it is, the string of one rune, a number cut to its width.
Mangled == {"verbatim", "rune", "wrapped"}

-----------------------------------------------------------------------------
(* Types, sources and values.                                              *)

\* Types whose pointer implements encoding.TextUnmarshaler: a named number, a
\* named string, a struct (netip.Addr) and a slice (net.IP).
TextUnmarshaler == {"level", "name", "addr", "ip"}

Kind(t) ==
    CASE t \in {"time", "addr", "struct"} -> "struct"
      [] t \in {"bytes", "ip", "list"}   -> "slice"
      [] t \in {"int8", "duration", "level"} -> "number"
      [] t \in {"string", "name"} -> "string"
      [] t = "map" -> "map"

Type == TextUnmarshaler \cup
    {"string", "int8", "duration", "time", "bytes", "list", "struct", "map"}

\* A string that writes a value down: in its plain text form ("30s", RFC 3339,
\* "42"), as a numeral, as the JSON string or the JSON array or object that
\* encoding/json writes for it; and the string null.  The text form of a
\* TextUnmarshaler is never a numeral.
Raw == [kind : {"string"}, form : {"text", "numeral", "quoted", "composite"},
        v : Meaning]
           \cup [kind : {"string"}, form : {"null"}, v : {"zero"}]

\* What a config loader hands to a hook.
Source == Raw \cup [kind : {"map", "list"}, form : {"composite"}, v : Meaning]
              \cup [kind : {"number"}, form : {"native"}, v : Meaning]

\* A Go value with its dynamic type.
Value == [type : Type, v : Meaning \cup Mangled \cup {"zero"}]
Typed(t, v) == [type |-> t, v |-> v]

Verbatim(r) == IF r.form = "text" THEN r.v ELSE "verbatim"

\* strconv with rt.Bits().
ParseNumber(t, r) ==
    IF /\ r.form = "numeral" \/ (r.form = "text" /\ t = "int8")
       /\ t = "int8" => r.v \notin Wide
    THEN Typed(t, r.v) ELSE Error

\* Mutant: the special cases are left to the kind.
ParseValueByKind(t, r) ==
    CASE t \in {"string", "name", "bytes"} -> Typed(t, Verbatim(r))
      [] t = "level" /\ r.form = "text"    -> Typed(t, r.v)
      [] t = "int8"                       -> ParseNumber(t, r)
      [] t \in {"duration", "level"}      -> Error
      [] OTHER                            -> Typed("string", Verbatim(r))

\* parseValue: a kind that it does not parse gives back the string, as a
\* string.
ParseValue(t, r) ==
    CASE t \in {"duration", "time"} \cup TextUnmarshaler ->
             IF r.form = "text" THEN Typed(t, r.v) ELSE Error
      [] t \in {"string", "bytes"} -> Typed(t, Verbatim(r))
      [] t = "int8"                -> ParseNumber(t, r)
      [] OTHER                     -> Typed("string", Verbatim(r))

\* json.Unmarshal into a new T.
JSONForms(t) ==
    CASE t \in {"time"} \cup TextUnmarshaler -> {"quoted"}
      [] t = "bytes"                         -> {"quoted", "composite"}
      [] OTHER                               -> {"composite"}

Unmarshal(t, r) ==
    IF r.form \in JSONForms(t) \cup {"null"} THEN Typed(t, r.v) ELSE Error

\* Mutant: a number is cut to its width.
ParseScalarStringWraps(t, r) ==
    IF /\ r.form = "text"
       /\ t \in {"int8", "duration", "time"} \cup TextUnmarshaler
    THEN Typed(t, IF t = "int8" /\ r.v \in Wide THEN "wrapped" ELSE r.v)
    ELSE Error

\* dchook's parseScalarString.  It handles no strings, bytes or other kinds,
\* and where UnmarshalText fails it goes on to the kind.
ParseScalarString(t, r) ==
    CASE t \in {"duration", "time"} ->
             IF r.form = "text" THEN Typed(t, r.v) ELSE Error
      [] t \in TextUnmarshaler /\ r.form = "text" -> Typed(t, r.v)
      [] Kind(t) = "number" /\ t # "duration"     -> ParseNumber(t, r)
      [] OTHER                                    -> Error

-----------------------------------------------------------------------------
(* DcValues, entries and hooks.                                            *)

\* The entry kind that NewDcValue and SetDefaultAndValue derive from T.
EntryKind(t) ==
    CASE Kind(t) = "struct" -> "struct"
      [] Kind(t) = "slice"  -> "array"
      [] OTHER              -> "scalar"

DcValue == [defaultValue : Value, val : Value,
            kind : {"scalar", "struct", "array"}]

\* Mutant: SetDefaultAndValue leaves the default alone.
SeededValueOnly(x) ==
    [defaultValue |-> Typed(x.type, "zero"), val |-> x,
     kind |-> EntryKind(x.type)]

\* NewDcValue and SetDefaultAndValue.
Seeded(x) == [defaultValue |-> x, val |-> x, kind |-> EntryKind(x.type)]

\* A source that a hook passes through is an error of the loader, like a hook
\* that fails; either way the field stays.

\* Mutant: the kind of the new DcValue is not set.
HandleJSONNoKind(t, r) ==
    IF Unmarshal(t, r) = Error THEN Unhandled
    ELSE [defaultValue |-> Typed(t, "zero"), val |-> Unmarshal(t, r),
          kind |-> "scalar"]

\* handleJSONDcValue: SetDefaultAndValue with a zero T sets the kind, then
\* InternalSetJSON sets the value, and the value only.
HandleJSON(t, r) ==
    IF Unmarshal(t, r) = Error THEN Unhandled
    ELSE [Seeded(Typed(t, "zero")) EXCEPT !.val = Unmarshal(t, r)]

SetScalar(x) == IF x = Error THEN Unhandled ELSE Seeded(x)

\* StringToDcValue.
StringToDcValue(t, s) ==
    IF s.kind = "string" /\ Kind(t) # "string"
    THEN SetScalar(ParseScalarString(t, s)) ELSE Unhandled

\* JSONString; a text form is no JSON for these types.
JSONString(t, s) ==
    IF s.kind = "string" /\ Kind(t) \in {"struct", "slice"}
    THEN HandleJSON(t, s) ELSE Unhandled

\* Mutant: the source is kept as it is.
ConvertedNot(t, s) ==
    CASE s.kind = "number" /\ Kind(t) = "string" -> Typed("int8", s.v)
      [] s.kind = "string" /\ Kind(t) = "string" -> Typed(t, Verbatim(s))
      [] s.kind = Kind(t) /\ s.kind # "string" -> Typed(t, s.v)
      [] OTHER -> Error

\* reflect.Value.Convert where ConvertibleTo allows it: between numbers, with
\* the width of the target, from an integer to the string of a rune, and
\* between strings, UnmarshalText or not.
Converted(t, s) ==
    CASE s.kind = "number" /\ Kind(t) = "string" -> Typed(t, "rune")
      [] s.kind = "number" /\ t = "int8" /\ s.v \in Wide -> Typed(t, "wrapped")
      [] s.kind = "string" /\ t = "string" -> Typed(t, Verbatim(s))
      [] s.kind = "string" /\ t = "name"   -> Typed(t, "verbatim")
      [] s.kind = Kind(t) /\ s.kind # "string" -> Typed(t, s.v)
      [] OTHER -> Error

\* Hook, the general one.
Hook(t, s) ==
    CASE \/ Kind(t) = "struct" /\ t # "time" /\ s.kind = "map"
         \/ Kind(t) = "slice" /\ s.kind = "list"  -> HandleJSON(t, s)
      [] s.kind = "string" /\ Kind(t) # "string"  -> StringToDcValue(t, s)
      [] OTHER                                    -> SetScalar(Converted(t, s))

-----------------------------------------------------------------------------
(* The program: one field, one key.                                        *)

VARIABLES
    type,       \* T
    dc,         \* the field, a *DcValue[T]
    entry,      \* the SDK's entry for its key: default and kind
    crashed,    \* atomic.Value.Store met a value of another type
    given,      \* history: what seeded dc: its source, the value it showed,
                \* and whether it went through JSON
    promised,   \* history: given when the key was registered
    latest      \* history: the latest report since then

vars == <<type, dc, entry, crashed, given, promised, latest>>

Entry == [defaultVal : Value, kind : {"scalar", "struct", "array"}]
Gift == [source : Source \cup {None}, value : Value, json : BOOLEAN]

ASSUME DecodingAssumption ==
    /\ Wide \subseteq Meaning
    /\ Meaning \cap ({"zero"} \cup Mangled) = {}
    /\ Error \notin Value
    /\ {Nil, Unhandled} \cap DcValue = {}
    /\ NoEntry \notin Entry
    /\ None \notin Source \cup Gift \cup {Deleted}
    /\ Deleted \notin Raw

TypeOK ==
    /\ type \in Type
    /\ dc \in DcValue \cup {Nil}
    /\ dc # Nil => dc.val.type = type /\ dc.defaultValue.type = type
    /\ entry \in Entry \cup {NoEntry}
    /\ crashed \in BOOLEAN
    /\ given \in Gift \cup {None}
    /\ promised \in Gift \cup {None}
    /\ latest \in Raw \cup {None, Deleted}
    /\ entry # NoEntry => dc # Nil /\ promised # None

\* A nil field for a hook to fill, or one that NewDcValue made.
Init ==
    /\ type \in Type
    /\ \/ dc = Nil /\ given = None
       \/ \E v \in Meaning \ Wide :
              /\ dc = Seeded(Typed(type, v))
              /\ given = [source |-> None, value |-> dc.val, json |-> FALSE]
    /\ entry = NoEntry
    /\ crashed = FALSE
    /\ promised = None
    /\ latest = None

\* A loader decodes source s into the field; x is what the hook makes of it.
\* That ends up in the field's own DcValue when there is one, so a registered
\* key stays attached to it.
Load(s, x) ==
    /\ ~crashed
    /\ x # Unhandled
    /\ dc' = x
    /\ given' = [source |-> s, value |-> x.val, json |-> x.defaultValue # x.val]
    /\ latest' = None
    /\ UNCHANGED <<type, entry, crashed, promised>>

\* Register, handleDcValue: the entry copies default and kind; a nil field
\* is skipped.
Register ==
    /\ ~crashed
    /\ dc # Nil
    /\ entry' = [defaultVal |-> dc.defaultValue, kind |-> dc.kind]
    /\ promised' = given
    /\ latest' = None
    /\ UNCHANGED <<type, dc, crashed, given>>

\* atomic.Value.Store panics when the dynamic type changes.
Store(x) ==
    IF x.type = dc.val.type
    THEN dc' = [dc EXCEPT !.val = x] /\ UNCHANGED crashed
    ELSE crashed' = TRUE /\ UNCHANGED dc

\* updateEntry: the entry kind picks the decoder.
Decoded(r) ==
    IF entry.kind = "scalar" THEN ParseValue(type, r) ELSE Unmarshal(type, r)

OnChange(r) ==
    /\ ~crashed
    /\ entry # NoEntry
    /\ IF Decoded(r) = Error THEN UNCHANGED <<dc, crashed>>
       ELSE Store(Decoded(r))
    /\ latest' = r
    /\ UNCHANGED <<type, entry, given, promised>>

\* revertEntry.
OnDelete ==
    /\ ~crashed
    /\ entry # NoEntry
    /\ Store(entry.defaultVal)
    /\ latest' = Deleted
    /\ UNCHANGED <<type, entry, given, promised>>

Next ==
    \/ \E s \in Source : \/ Load(s, Hook(type, s))
                         \/ Load(s, StringToDcValue(type, s))
                         \/ Load(s, JSONString(type, s))
    \/ Register
    \/ \E r \in Raw : OnChange(r)
    \/ OnDelete

Spec == Init /\ [][Next]_vars

-----------------------------------------------------------------------------
(* Properties.                                                             *)

\* The form in which README.md says a provider string holds a value of T:
\* JSON for structs and slices, text for everything else it lists.
DocumentedForm(t) == IF t \in {"list", "struct"} THEN "composite" ELSE "text"

ShowsLatest ==
    latest \in Raw /\ latest.form = DocumentedForm(type)
        /\ (type = "int8" => latest.v \notin Wide)
        => dc.val.v = latest.v

\* README.md:27: "time.Duration, time.Time, []byte, and encoding.TextUnmarshaler
\* types parse from provider strings".  The kind switch comes first: a T that
\* is a struct or a slice underneath never reaches parseValue.
DocumentedTypesParse == type # "map" => ShowsLatest

\* It is true of every T whose kind leads to the decoder the README names,
\* whichever way the DcValue was made: by NewDcValue or by any hook, before
\* or after it was registered.
KindMatchesForm ==
    DocumentedForm(type) = "text" <=> EntryKind(type) = "scalar"
DocumentedTypesParseByKind == type # "map" /\ KindMatchesForm => ShowsLatest

\* No report brings the program down, unless T is of a kind that neither
\* decoder is meant for.
NoMismatch == crashed => type = "map"

\* A deletion restores what the DcValue showed when it was seeded, as of its
\* registration.  The exception: a hook that goes through JSON leaves the
\* zero value as the default, though README.md:369 says that the config "now
\* holds the file values as DcValue defaults".
DeleteRestoresSeed ==
    latest = Deleted =>
        \/ dc.val = promised.value
        \/ promised.json /\ dc.val = Typed(type, "zero")

\* A provider that holds the very string a hook was given decodes it to the
\* value the hook made of it: dchook's parser "mirrors poya's parseValue"
\* (dchook.go:126).  Two exceptions, types that implement TextUnmarshaler: a
\* named string is converted by the hook and parsed by the SDK, though
\* README.md:343 lists all such types among those the hooks parse; and a
\* numeral that UnmarshalText rejects is a number of a named number type to
\* the hook, and an error to the SDK.
SameTextSameValue ==
    entry # NoEntry /\ entry.kind = "scalar" /\ given.source \in Raw =>
        \/ Decoded(given.source) = given.value
        \/ type = "name"
        \/ type = "level" /\ given.source.form = "numeral"

=============================================================================
