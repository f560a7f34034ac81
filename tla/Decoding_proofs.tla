-------------------------- MODULE Decoding_proofs --------------------------
(***************************************************************************)
(* Proofs about Decoding for any set of values that sources and strings    *)
(* can denote: the case analyses of the two parsers and of the hooks fit   *)
(* together, whatever is loaded, registered, reported and deleted.         *)
(***************************************************************************)
EXTENDS Decoding, TLAPS

\* x is a DcValue[t] as NewDcValue, SetDefaultAndValue or a hook leave it.
WellSeeded(t, x) ==
    /\ x \in DcValue
    /\ x.val.type = t
    /\ x.defaultValue.type = t
    /\ x.kind = EntryKind(t)
    /\ x.defaultValue \in {x.val, Typed(t, "zero")}

\* The three hooks.
Hooks(t, s) == {Hook(t, s), StringToDcValue(t, s), JSONString(t, s)}

\* What makes NoMismatch inductive: the kind that picks the decoder is that of
\* T, in the DcValue and in the entry, and so is the type of the default.
KindsFollowType ==
    /\ dc # Nil => dc.kind = EntryKind(type)
    /\ entry # NoEntry => /\ entry.kind = EntryKind(type)
                          /\ entry.defaultVal.type = type

\* What makes DeleteRestoresSeed inductive: the default is the value that was
\* seeded, or zero if that went through JSON.
DefaultOf(g) == IF g.json THEN Typed(type, "zero") ELSE g.value
DefaultsAreGiven ==
    /\ dc # Nil => given # None /\ dc.defaultValue = DefaultOf(given)
    /\ entry # NoEntry => entry.defaultVal = DefaultOf(promised)

\* The DcValue shows what the latest report decodes to.
LatestIsShown ==
    /\ latest # None => entry # NoEntry
    /\ latest = Deleted => dc.val = entry.defaultVal
    /\ latest \in Raw /\ ~crashed =>
           Decoded(latest) = Error \/ dc.val = Decoded(latest)

\* What SameTextSameValue needs: what was given came out of a hook.
GivenByHook ==
    given # None /\ given.source # None =>
        \E x \in Hooks(type, given.source) :
            x # Unhandled /\ given.value = x.val

-----------------------------------------------------------------------------
(* The parsers and the hooks.                                              *)

\* Every kind of T is one of the three entry kinds.
LEMMA EntryKindType == \A t : EntryKind(t) \in {"scalar", "struct", "array"}
BY DEF EntryKind

\* Only a type that no special case and no kind of parseByKind covers comes
\* out of parseValue as a string of another type.
LEMMA ParseValueType ==
  ASSUME NEW t \in Type, EntryKind(t) = "scalar", t # "map", NEW r \in Raw,
         ParseValue(t, r) # Error
  PROVE  ParseValue(t, r) \in Value /\ ParseValue(t, r).type = t
<1>1. t \in {"string", "name", "int8", "duration", "level"}
  BY DEF Type, TextUnmarshaler, EntryKind, Kind
<1>2. r.v \in Meaning \cup {"zero"}
  BY DEF Raw
<1> QED
  BY <1>1, <1>2 DEF ParseValue, ParseNumber, Verbatim, TextUnmarshaler, Typed,
                    Value, Mangled, Type

\* JSON gives a T or an error.
LEMMA UnmarshalType ==
  ASSUME NEW t \in Type, NEW r \in Source, Unmarshal(t, r) # Error
  PROVE  Unmarshal(t, r) \in Value /\ Unmarshal(t, r).type = t
<1>1. r.v \in Meaning \cup {"zero"}
  BY DEF Source, Raw
<1> QED
  BY <1>1 DEF Unmarshal, Typed, Value

\* So do the parser of the hooks and reflect's conversion.
LEMMA ScalarType ==
  ASSUME NEW t \in Type, NEW s \in Source,
         NEW x \in {ParseScalarString(t, s), Converted(t, s)}, x # Error
  PROVE  x \in Value /\ x.type = t
<1>1. s.v \in Meaning \cup {"zero"}
  BY DEF Source, Raw
<1>2. CASE x = ParseScalarString(t, s)
  BY <1>1, <1>2 DEF ParseScalarString, ParseNumber, Typed, Value
<1>3. CASE x = Converted(t, s)
  BY <1>1, <1>3 DEF Converted, Verbatim, Typed, Value, Mangled
<1> QED
  BY <1>2, <1>3

\* A value of T seeds a DcValue[T].
LEMMA SeededType ==
  ASSUME NEW t \in Type, NEW x \in Value, x.type = t
  PROVE  WellSeeded(t, Seeded(x))
BY EntryKindType DEF WellSeeded, Seeded, DcValue

\* A hook hands back a DcValue[T] whose kind is that of T, or nothing.
LEMMA HookType ==
  ASSUME NEW t \in Type, NEW s \in Source, NEW x \in Hooks(t, s),
         x # Unhandled
  PROVE  WellSeeded(t, x)
<1>1. ASSUME NEW y \in {ParseScalarString(t, s), Converted(t, s)},
             x = SetScalar(y)
      PROVE  WellSeeded(t, x)
  BY <1>1, ScalarType, SeededType DEF SetScalar
<1>2. ASSUME x = HandleJSON(t, s)
      PROVE  WellSeeded(t, x)
  <2>1. Typed(t, "zero") \in Value /\ Typed(t, "zero").type = t
    BY DEF Typed, Value
  <2>2. WellSeeded(t, Seeded(Typed(t, "zero")))
    BY <2>1, SeededType
  <2>3. /\ x = [Seeded(Typed(t, "zero")) EXCEPT !.val = Unmarshal(t, s)]
        /\ Unmarshal(t, s) # Error
    BY <1>2 DEF HandleJSON
  <2>4. Unmarshal(t, s) \in Value /\ Unmarshal(t, s).type = t
    BY <2>3, UnmarshalType
  <2> QED
    BY <2>1, <2>2, <2>3, <2>4 DEF WellSeeded, Seeded, DcValue
<1>3. \/ x = HandleJSON(t, s)
      \/ x = SetScalar(ParseScalarString(t, s))
      \/ x = SetScalar(Converted(t, s))
  BY DEF Hooks, Hook, StringToDcValue, JSONString
<1> QED
  BY <1>1, <1>2, <1>3

\* updateEntry makes a T of a string, or nothing: the kinds that lead to
\* parseValue are those it knows.
LEMMA DecodedType ==
  ASSUME type \in Type, type # "map", entry.kind = EntryKind(type),
         NEW r \in Raw, Decoded(r) # Error
  PROVE  Decoded(r) \in Value /\ Decoded(r).type = type
<1>1. r \in Source
  BY DEF Source
<1> QED
  BY <1>1, ParseValueType, UnmarshalType DEF Decoded

\* It makes a value of a string even of a map.
LEMMA DecodedValue ==
  ASSUME type \in Type, NEW r \in Raw, Decoded(r) # Error
  PROVE  Decoded(r) \in Value
<1>1. r \in Source
  BY DEF Source
<1>2. r.v \in Meaning \cup {"zero"}
  BY DEF Raw
<1>3. ASSUME ParseValue(type, r) # Error PROVE ParseValue(type, r) \in Value
  BY <1>2, <1>3 DEF ParseValue, ParseNumber, Verbatim, TextUnmarshaler, Typed,
                    Value, Mangled, Type
<1> QED
  BY <1>1, <1>3, UnmarshalType DEF Decoded

-----------------------------------------------------------------------------
(* The inductive invariant.                                                *)

Inv ==
    /\ TypeOK
    /\ KindsFollowType
    /\ NoMismatch
    /\ DefaultsAreGiven
    /\ LatestIsShown
    /\ GivenByHook

\* Reports are told apart from deletions and from none.
LEMMA ReportsDiffer == None \notin Raw /\ None # Deleted /\ Deleted \notin Raw
BY DecodingAssumption DEF Source

LEMMA InitInv == Init => Inv
<1> SUFFICES ASSUME Init PROVE Inv
  OBVIOUS
<1>1. KindsFollowType /\ NoMismatch /\ LatestIsShown
  <2>1. dc # Nil => dc.kind = EntryKind(type)
    BY DEF Init, Seeded, Typed
  <2> QED
    BY <2>1, ReportsDiffer DEF Init, KindsFollowType, NoMismatch,
                               LatestIsShown
<1>2. CASE dc = Nil /\ given = None
  BY <1>1, <1>2, DecodingAssumption
  DEF Init, Inv, TypeOK, DefaultsAreGiven, GivenByHook
<1>3. ASSUME NEW v \in Meaning \ Wide,
             dc = Seeded(Typed(type, v)),
             given = [source |-> None, value |-> dc.val, json |-> FALSE]
      PROVE  Inv
  <2>1. Typed(type, v) \in Value /\ Typed(type, v).type = type
    BY DEF Init, Typed, Value
  <2>2. WellSeeded(type, dc)
    BY <1>3, <2>1, SeededType DEF Init
  <2>3. given \in Gift
    BY <1>3, <2>2 DEF WellSeeded, DcValue, Gift
  <2>4. TypeOK
    BY <2>2, <2>3, DecodingAssumption DEF Init, TypeOK, WellSeeded
  <2>5. DefaultsAreGiven
    BY <1>3, <2>3, DecodingAssumption
    DEF Init, DefaultsAreGiven, DefaultOf, Seeded
  <2>6. GivenByHook
    BY <1>3 DEF GivenByHook
  <2> QED
    BY <1>1, <2>4, <2>5, <2>6 DEF Inv
<1> QED
  BY <1>2, <1>3 DEF Init

\* Whatever hook decodes whatever source into the field.
LEMMA LoadInv ==
  ASSUME Inv, NEW s \in Source, NEW x \in Hooks(type, s), Load(s, x)
  PROVE  Inv'
<1>1. WellSeeded(type, x)
  BY HookType DEF Load, Inv, TypeOK
<1>2. (x.defaultValue # x.val) \in BOOLEAN
  OBVIOUS
<1>3. given' \in Gift
  BY <1>1, <1>2 DEF Load, Gift, WellSeeded, DcValue
<1>4. TypeOK'
  BY <1>1, <1>3, DecodingAssumption DEF Load, Inv, TypeOK, WellSeeded
<1>5. KindsFollowType' /\ NoMismatch'
  BY <1>1 DEF Load, Inv, KindsFollowType, NoMismatch, WellSeeded
<1>6. DefaultsAreGiven'
  <2>1. dc'.defaultValue = DefaultOf(given)'
    BY <1>1 DEF Load, DefaultOf, WellSeeded
  <2> QED
    BY <1>3, <2>1, DecodingAssumption
    DEF Load, Inv, DefaultsAreGiven, DefaultOf
<1>7. LatestIsShown'
  BY ReportsDiffer DEF Load, LatestIsShown
<1>8. GivenByHook'
  BY DEF Load, GivenByHook, Hooks
<1> QED
  BY <1>4, <1>5, <1>6, <1>7, <1>8 DEF Inv

\* A registration copies kind and default.
LEMMA RegisterInv ==
  ASSUME Inv, Register
  PROVE  Inv'
<1>1. dc \in DcValue /\ dc # Nil /\ given # None
  BY DEF Register, Inv, TypeOK, DefaultsAreGiven
<1>2. entry' \in Entry
  BY <1>1 DEF Register, DcValue, Entry
<1>3. entry'.kind = EntryKind(type) /\ entry'.defaultVal.type = type
  BY <1>1 DEF Register, Inv, TypeOK, KindsFollowType
<1>4. TypeOK' /\ KindsFollowType' /\ NoMismatch'
  BY <1>1, <1>2, <1>3, DecodingAssumption
  DEF Register, Inv, TypeOK, KindsFollowType, NoMismatch
<1>5. DefaultsAreGiven'
  BY <1>1 DEF Register, Inv, DefaultsAreGiven, DefaultOf
<1>6. LatestIsShown' /\ GivenByHook'
  BY ReportsDiffer DEF Register, Inv, LatestIsShown, GivenByHook, Hooks
<1> QED
  BY <1>4, <1>5, <1>6 DEF Inv

\* A provider string is decoded and stored.
LEMMA OnChangeInv ==
  ASSUME Inv, NEW r \in Raw, OnChange(r)
  PROVE  Inv'
<1>1. /\ type \in Type
      /\ dc \in DcValue /\ dc # Nil
      /\ entry \in Entry /\ entry # NoEntry /\ entry.kind = EntryKind(type)
  BY DEF OnChange, Inv, TypeOK, KindsFollowType
<1>2. Decoded(r)' = Decoded(r)
  BY DEF OnChange, Decoded
<1>3. /\ dc' \in DcValue /\ dc' # Nil
      /\ dc'.defaultValue = dc.defaultValue
      /\ dc'.kind = dc.kind
      /\ dc'.val.type = type
  BY <1>1, DecodedValue, DecodingAssumption
  DEF OnChange, Store, DcValue, Inv, TypeOK
<1>4. crashed' => type = "map"
  BY <1>1, DecodedType DEF OnChange, Store, Inv, TypeOK, NoMismatch
<1>5. crashed' \in BOOLEAN
  BY DEF OnChange, Store, Inv, TypeOK
<1>6. TypeOK' /\ KindsFollowType' /\ NoMismatch'
  BY <1>1, <1>3, <1>4, <1>5 DEF OnChange, Inv, TypeOK, KindsFollowType,
                                NoMismatch
<1>7. DefaultsAreGiven'
  BY <1>1, <1>3 DEF OnChange, Inv, DefaultsAreGiven, DefaultOf
<1>8. LatestIsShown'
  <2>1. ~crashed' => Decoded(r) = Error \/ dc'.val = Decoded(r)
    BY <1>1 DEF OnChange, Store, DcValue
  <2> QED
    BY <1>1, <1>2, <2>1, ReportsDiffer DEF OnChange, LatestIsShown
<1>9. GivenByHook'
  BY DEF OnChange, Inv, GivenByHook, Hooks
<1> QED
  BY <1>6, <1>7, <1>8, <1>9 DEF Inv

\* A deletion stores the entry's default.
LEMMA OnDeleteInv ==
  ASSUME Inv, OnDelete
  PROVE  Inv'
<1>1. /\ type \in Type
      /\ dc \in DcValue /\ dc # Nil /\ dc.val.type = type
      /\ entry \in Entry /\ entry # NoEntry /\ entry.defaultVal.type = type
  BY DEF OnDelete, Inv, TypeOK, KindsFollowType
<1>2. dc' = [dc EXCEPT !.val = entry.defaultVal] /\ crashed' = crashed
  BY <1>1 DEF OnDelete, Store
<1>3. /\ dc' \in DcValue /\ dc' # Nil
      /\ dc'.defaultValue = dc.defaultValue
      /\ dc'.kind = dc.kind
      /\ dc'.val = entry.defaultVal
  BY <1>1, <1>2, DecodingAssumption DEF DcValue, Entry
<1>4. TypeOK' /\ KindsFollowType' /\ NoMismatch'
  BY <1>1, <1>2, <1>3 DEF OnDelete, Inv, TypeOK, KindsFollowType, NoMismatch
<1>5. DefaultsAreGiven'
  BY <1>1, <1>3 DEF OnDelete, Inv, DefaultsAreGiven, DefaultOf
<1>6. LatestIsShown' /\ GivenByHook'
  BY <1>1, <1>3, ReportsDiffer
  DEF OnDelete, Inv, LatestIsShown, GivenByHook, Hooks
<1> QED
  BY <1>4, <1>5, <1>6 DEF Inv

\* Every reachable state satisfies the invariant.
THEOREM Invariance == Spec => []Inv
<1>1. Inv /\ [Next]_vars => Inv'
  <2> SUFFICES ASSUME Inv, [Next]_vars PROVE Inv'
    OBVIOUS
  <2>1. ASSUME NEW s \in Source, NEW x \in Hooks(type, s), Load(s, x)
        PROVE  Inv'
    BY <2>1, LoadInv
  <2>2. CASE Register
    BY <2>2, RegisterInv
  <2>3. ASSUME NEW r \in Raw, OnChange(r) PROVE Inv'
    BY <2>3, OnChangeInv
  <2>4. CASE OnDelete
    BY <2>4, OnDeleteInv
  <2>5. CASE UNCHANGED vars
    BY <2>5 DEF vars, Inv, TypeOK, KindsFollowType, NoMismatch,
                DefaultsAreGiven, DefaultOf, LatestIsShown, Decoded,
                GivenByHook, Hooks
  <2> QED
    BY <2>1, <2>2, <2>3, <2>4, <2>5 DEF Next, Hooks
<1> QED
  BY <1>1, InitInv, PTL DEF Spec

\* Types, values and entries are what they should be, whatever the code does
\* with a kind it does not handle.
THEOREM TypeCorrect == Spec => []TypeOK
<1>1. Inv => TypeOK
  BY DEF Inv
<1> QED
  BY <1>1, Invariance, PTL

\* No report brings the program down, unless T is a map.
THEOREM NoMismatchHolds == Spec => []NoMismatch
<1>1. Inv => NoMismatch
  BY DEF Inv
<1> QED
  BY <1>1, Invariance, PTL

\* A deletion restores what was seeded, or zero if it went through JSON.
THEOREM DeletesRestore == Spec => []DeleteRestoresSeed
<1>1. Inv => DeleteRestoresSeed
  BY ReportsDiffer DEF Inv, LatestIsShown, DefaultsAreGiven, DefaultOf,
                       DeleteRestoresSeed
<1> QED
  BY <1>1, Invariance, PTL

\* A T whose kind leads to the decoder README.md names shows a reported string
\* in the documented form.
THEOREM DocumentedTypesParsed == Spec => []DocumentedTypesParseByKind
<1>1. Inv => DocumentedTypesParseByKind
  <2> SUFFICES ASSUME Inv, type # "map", KindMatchesForm, latest \in Raw,
                      latest.form = DocumentedForm(type),
                      type = "int8" => latest.v \notin Wide
               PROVE  dc.val.v = latest.v
    BY DEF DocumentedTypesParseByKind, ShowsLatest
  <2>1. /\ type \in Type
        /\ entry.kind = EntryKind(type)
        /\ ~crashed
    BY ReportsDiffer DEF Inv, TypeOK, LatestIsShown, KindsFollowType,
                         NoMismatch
  <2>2. Decoded(latest) = Typed(type, latest.v)
    <3>1. CASE EntryKind(type) = "scalar"
      <4>1. latest.form = "text"
        BY <3>1 DEF KindMatchesForm
      <4>2. type \in {"string", "name", "int8", "duration", "level"}
        BY <2>1, <3>1 DEF Type, TextUnmarshaler, EntryKind, Kind
      <4> QED
        BY <2>1, <3>1, <4>1, <4>2
        DEF Decoded, ParseValue, ParseNumber, Verbatim, TextUnmarshaler
    <3>2. CASE EntryKind(type) # "scalar"
      <4>1. type \in {"list", "struct"} /\ latest.form = "composite"
        BY <3>2 DEF KindMatchesForm, DocumentedForm
      <4> QED
        BY <2>1, <3>2, <4>1
        DEF Decoded, Unmarshal, JSONForms, TextUnmarshaler
    <3> QED
      BY <3>1, <3>2
  <2>3. Typed(type, latest.v) # Error
    <3>1. latest.v \in Meaning \cup {"zero"}
      BY DEF Raw
    <3> QED
      BY <2>1, <3>1, DecodingAssumption DEF Typed, Value
  <2> QED
    BY <2>1, <2>2, <2>3 DEF Inv, LatestIsShown, Typed
<1> QED
  BY <1>1, Invariance, PTL

\* The hooks' parser and the SDK's make the same value of the same string,
\* but for the two exceptions.
THEOREM ParsersAgree == Spec => []SameTextSameValue
<1>1. Inv => SameTextSameValue
  <2> SUFFICES ASSUME Inv, entry # NoEntry, entry.kind = "scalar",
                      given.source \in Raw, type # "name",
                      ~(type = "level" /\ given.source.form = "numeral")
               PROVE  Decoded(given.source) = given.value
    BY DEF SameTextSameValue
  <2> DEFINE s == given.source
  <2>1. /\ type \in Type
        /\ EntryKind(type) = "scalar"
        /\ given # None /\ s # None
    BY ReportsDiffer DEF Inv, TypeOK, KindsFollowType, DefaultsAreGiven
  <2>2. type \in {"string", "int8", "duration", "level", "map"}
    BY <2>1 DEF Type, TextUnmarshaler, EntryKind, Kind
  <2>3. PICK x \in Hooks(type, s) : x # Unhandled /\ given.value = x.val
    BY <2>1 DEF Inv, GivenByHook
  <2>4. s.kind = "string"
    BY DEF Raw
  <2> DEFINE y == IF type = "string" THEN Converted(type, s)
                  ELSE ParseScalarString(type, s)
  <2>5. x = SetScalar(y)
    BY <2>2, <2>3, <2>4 DEF Hooks, Hook, StringToDcValue, JSONString, Kind
  <2>6. given.value = y /\ y # Error
    BY <2>3, <2>5 DEF SetScalar, Seeded
  <2>7. y = ParseValue(type, s)
    BY <2>2, <2>4, <2>6
    DEF ParseScalarString, Converted, ParseValue, ParseNumber, Verbatim,
        TextUnmarshaler, Kind
  <2> QED
    BY <2>6, <2>7 DEF Decoded
<1> QED
  BY <1>1, Invariance, PTL

=============================================================================
