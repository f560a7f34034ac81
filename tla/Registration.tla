---------------------------- MODULE Registration ----------------------------
(***************************************************************************)
(* RegisterConfig: the walk over a configuration that finds its DcValues   *)
(* and puts the full key of each together from struct tags, field names,   *)
(* map keys and prefixes.  Each DcValue is put into the values map under   *)
(* the lock by itself, so the rest of the program runs between two steps.  *)
(*                                                                         *)
(* A configuration is a tree:                                              *)
(*   [kind |-> "dc", id, ptr]          a DcValue, by pointer or by value   *)
(*   [kind |-> "struct", ptr, fields]  fields in order                     *)
(*   [kind |-> "map", entries]         a map[string]any: <<key, node>>     *)
(*   [kind |-> "nil"]                  nil, or nothing the SDK knows       *)
(* A field is [name (lower-cased), tag, exported, any (of an interface     *)
(* type), node], a tag a sequence of its parts [kind, name].               *)
(***************************************************************************)
EXTENDS Naturals, FiniteSets, SequencesExt

CONSTANTS
    Char,        \* what strings are made of: names, and the slash
    Slash,       \* "/"
    Dc,          \* the DcValues of the configuration
    Key,         \* full keys
    Node,        \* the nodes of the trees
    Config,      \* the configurations: pointers to a struct, or maps
    Prefix,      \* values of Config.Prefix
    NoEntry,     \* no DcValue has the key
    MaxDepth     \* bound: how deep the trees are

VARIABLES
    config,      \* the argument of RegisterConfig
    prefix,      \* s.prefix
    todo,        \* the recursion's stack: what is still to be visited, under
                 \* which path, if it is addressable, and what the loop over
                 \* its fields or entries has not come to yet
    called,      \* RegisterConfig has been called
    values,      \* the keys registered so far, with the DcValue of each
    due          \* history: the <<DcValue, key>> that are still to come

vars == <<config, prefix, todo, called, values, due>>

String == Seq(Char)

EndsInSlash(s) == s # << >> /\ Last(s) = Slash
TrimSlash(s) == IF EndsInSlash(s) THEN Front(s) ELSE s
Dir(s) == IF s = << >> THEN s ELSE Append(TrimSlash(s), Slash)
TrimLeadingSlash(s) == IF s # << >> /\ Head(s) = Slash THEN Tail(s) ELSE s

\* New
SDKPrefix(p) == Dir(p)

\* parsePoyaTag: the last key: or prefix: part counts, a part without either
\* is a key if there is none yet.
TagKey(tag) == FoldLeft(
    LAMBDA key, part : IF \/ part.kind = "key"
                          \/ part.kind = "bare" /\ key = << >>
                       THEN part.name ELSE key, << >>, tag)
TagPrefix(tag) == FoldLeft(
    LAMBDA p, part : IF part.kind = "prefix" THEN part.name ELSE p, << >>, tag)

\* isDcValue: a pointer, or a value that has an address.
IsDcValue(node, addr) == node.kind = "dc" /\ (node.ptr \/ addr)

\* mapChildPrefix
MapChildPrefix(parent, key) ==
    LET k == TrimLeadingSlash(key)
    IN  IF parent = << >> \/ EndsInSlash(parent) THEN parent \o k
        ELSE Append(parent, Slash) \o k

\* Mutant: the prefix goes before the key.
NestedPrefixFirst(parent, tag) ==
    LET part == IF TagPrefix(tag) # << >> THEN TagPrefix(tag) ELSE TagKey(tag)
    IN  IF part = << >> THEN parent ELSE Append(parent \o part, Slash)

\* calcNestedPrefix: with both in the tag, the key is the prefix.
NestedPrefix(parent, tag) ==
    LET part == IF TagKey(tag) # << >> THEN TagKey(tag) ELSE TagPrefix(tag)
    IN  IF part = << >> THEN parent ELSE Append(parent \o part, Slash)

Task(node, path, addr) ==
    [node |-> node, path |-> path, addr |-> addr,
     rest |-> CASE node.kind = "struct" -> node.fields
                [] node.kind = "map"    -> node.entries
                [] OTHER                -> << >>]

\* One round of registerConfigStruct's loop: what is visited for field f.
FieldTasks(f, parent, addr) ==
    CASE ~f.exported -> << >>
      [] f.exported /\ IsDcValue(f.node, addr /\ ~f.any) ->
             LET key == IF TagKey(f.tag) # << >> THEN TagKey(f.tag) ELSE f.name
             IN  <<Task(f.node, parent \o key, addr)>>
      [] f.exported /\ f.node.kind \in {"struct", "map"} /\ ~f.any ->
             <<Task(f.node, NestedPrefix(parent, f.tag), addr)>>
      [] OTHER -> << >>

-----------------------------------------------------------------------------
(* What README.md says of the same configuration, as a definition of its   *)
(* own: a key is a list of segments, joined by slashes.                    *)

Segment(s) == TrimSlash(TrimLeadingSlash(s))

Under(parent, s) ==
    IF parent = << >> THEN s ELSE IF s = << >> THEN parent
    ELSE Append(parent, Slash) \o s

\* Of these DcValues and keys, the keys under one more segment.
KeysUnder(parent, keys) == {<<e[1], Under(parent, e[2])>> : e \in keys}

\* A node, and if it has an address.
Spot == Node \X BOOLEAN

\* The key of a DcValue by itself.
OwnKey(s) ==
    IF s[1].kind = "dc" /\ (s[1].ptr \/ s[2]) THEN {<<s[1].id, << >>>>} ELSE {}

\* What keys lead to below a node: spots, each with the segment before it.
\* "Full key = SDK Prefix + Parent Prefixes + Field Key".  Three things are
\* the code's, where README.md says nothing, or something else: a field of an
\* interface type is not looked into; a DcValue held by value has no key
\* where it has no address; and a tag with both a key and a prefix, "both a
\* value and a prefix for deeper nesting", nests under the key.
FieldSpots(f, addr) ==
    LET own == IF TagKey(f.tag) # << >> THEN TagKey(f.tag)
               ELSE IF f.node.kind = "dc" THEN f.name ELSE TagPrefix(f.tag)
    IN  IF ~f.exported \/ (f.any /\ f.node.kind # "dc") THEN {}
        ELSE {<<Segment(own), <<f.node, addr /\ ~f.any>>>>}

EntrySpots(e) == {<<Segment(e[1]), <<e[2], FALSE>>>>}

Inside(s) ==
    CASE s[1].kind = "map" -> UNION {EntrySpots(e) : e \in s[1].entries}
      [] s[1].kind = "struct" ->
             UNION {FieldSpots(s[1].fields[i], s[1].ptr \/ s[2])
                       : i \in DOMAIN s[1].fields}
      [] OTHER -> {}

\* The keys of a spot x[2] if one looks no further down than x[1].
keysWithin[x \in Nat \X Spot] ==
    IF x[1] = 0 THEN {}
    ELSE OwnKey(x[2]) \cup
         UNION {KeysUnder(c[1], keysWithin[<<x[1] - 1, c[2]>>])
                   : c \in Inside(x[2])}

DocumentedKeys(s) == keysWithin[<<MaxDepth, s>>]

Documented(c, p) == KeysUnder(TrimSlash(p), DocumentedKeys(<<c, FALSE>>))

\* The keys that spots lead to, of one field and of one entry.
KeysBelow(spots) == UNION {KeysUnder(c[1], DocumentedKeys(c[2])) : c \in spots}
FieldKeys(f, addr) == KeysBelow(FieldSpots(f, addr))
EntryKeys(e) == KeysBelow(EntrySpots(e))

-----------------------------------------------------------------------------
(* The configurations for which this is meant.                             *)

\* A name: a string that neither begins nor ends with a slash.
IsName(s) == s \in String /\ s # << >> /\ Head(s) # Slash /\ Last(s) # Slash

IsField(f) ==
    /\ f.node \in Node
    /\ f.exported \in BOOLEAN
    /\ f.any \in BOOLEAN
    /\ IsName(f.name)
    /\ TagKey(f.tag) = << >> \/ IsName(TagKey(f.tag))
    /\ TagPrefix(f.tag) = << >> \/ IsName(TagPrefix(f.tag))

\* A map key may have a slash in front and, if it leads on, one at its end.
IsMapEntry(e) ==
    /\ e[1] \in String
    /\ IsName(Segment(e[1]))
    /\ e[2] \in Node
    /\ e[2].kind = "dc" => ~EndsInSlash(e[1])

IsNode(n) ==
    \/ n.kind = "nil"
    \/ n.kind = "dc" /\ n.id \in Dc /\ n.ptr \in BOOLEAN
    \/ /\ n.kind = "map"
       /\ \A e \in n.entries : IsMapEntry(e)
    \/ /\ n.kind = "struct"
       /\ n.ptr \in BOOLEAN
       /\ n.fields \in Seq({n.fields[i] : i \in DOMAIN n.fields})
       /\ \A i \in DOMAIN n.fields : IsField(n.fields[i])

\* The trees are finite: no deeper than MaxDepth.
ASSUME RegistrationAssumption ==
    /\ Slash \in Char
    /\ MaxDepth \in Nat
    /\ \A n \in Node : IsNode(n)
    /\ \A s \in Spot :
          keysWithin[<<MaxDepth + 1, s>>] = keysWithin[<<MaxDepth, s>>]
    /\ Config \subseteq {n \in Node : n.kind \in {"struct", "map"}}
    /\ Prefix \subseteq String \ {<<Slash>>}

Dcs(keys) == {e[1] : e \in keys}

\* The DcValues of the two sets of keys are different ones.
Apart(keys1, keys2) == Dcs(keys1) \cap Dcs(keys2) = {}

\* No DcValue is in two places of a configuration, so it has one key.
ASSUME DistinctAssumption ==
    /\ NoEntry \notin Dc
    /\ \A n \in Node : n.kind = "struct" =>
          \A addr \in BOOLEAN : \A i, j \in DOMAIN n.fields : i # j =>
              Apart(FieldKeys(n.fields[i], addr), FieldKeys(n.fields[j], addr))
    /\ \A n \in Node : n.kind = "map" =>
          \A d, e \in n.entries : d # e => Apart(EntryKeys(d), EntryKeys(e))
    /\ \A c \in Config, p \in Prefix :
          LET keys == Documented(c, SDKPrefix(p))
          IN  /\ keys \subseteq Dc \X Key
              /\ \A d, e \in keys : d[1] = e[1] => d = e

-----------------------------------------------------------------------------
(* The walk.                                                               *)

Init ==
    /\ config \in Config
    /\ prefix \in {SDKPrefix(p) : p \in Prefix}
    /\ todo = << >>
    /\ called = FALSE
    /\ values = [k \in Key |-> NoEntry]
    /\ due = {}

RegisterConfig ==
    /\ ~called
    /\ called' = TRUE
    /\ todo' = <<Task(config, << >>, FALSE)>>
    /\ due' = Documented(config, prefix)
    /\ UNCHANGED <<config, prefix, values>>

\* registerConfig and handleDcValue: a DcValue.
HandleDcValue ==
    /\ todo # << >>
    /\ LET t == Head(todo)
           fullKey == prefix \o t.path
       IN  /\ IsDcValue(t.node, t.addr)
           /\ values' = [values EXCEPT ![fullKey] = t.node.id]
           /\ due' = due \ {<<t.node.id, fullKey>>}
    /\ todo' = Tail(todo)
    /\ UNCHANGED <<config, prefix, called>>

\* Mutant: the loop ends at a field that is no DcValue.
WalkStructBreaks ==
    /\ todo # << >>
    /\ LET t == Head(todo)
           f == Head(t.rest)
           addr == t.node.ptr \/ t.addr
       IN  /\ t.node.kind = "struct"
           /\ t.rest # << >>
           /\ todo' = FieldTasks(f, Dir(t.path), addr)
                      \o <<[t EXCEPT !.rest = IF IsDcValue(f.node, addr)
                                              THEN Tail(@) ELSE << >>]>>
                      \o Tail(todo)
    /\ UNCHANGED <<config, prefix, called, values, due>>

\* Mutant: the fields are walked from the last to the first.
WalkStructBackwards ==
    /\ todo # << >>
    /\ LET t == Head(todo)
       IN  /\ t.node.kind = "struct"
           /\ t.rest # << >>
           /\ todo' = FieldTasks(Last(t.rest), Dir(t.path),
                                 t.node.ptr \/ t.addr)
                      \o <<[t EXCEPT !.rest = Front(@)]>> \o Tail(todo)
    /\ UNCHANGED <<config, prefix, called, values, due>>

\* registerConfigStruct: its next field, under a path that ends in a slash if
\* there is any.
WalkStruct ==
    /\ todo # << >>
    /\ LET t == Head(todo)
       IN  /\ t.node.kind = "struct"
           /\ t.rest # << >>
           /\ todo' = FieldTasks(Head(t.rest), Dir(t.path),
                                 t.node.ptr \/ t.addr)
                      \o <<[t EXCEPT !.rest = Tail(@)]>> \o Tail(todo)
    /\ UNCHANGED <<config, prefix, called, values, due>>

\* registerConfigMap: any of its entries; none has an address.
WalkMap ==
    /\ todo # << >>
    /\ LET t == Head(todo)
       IN  /\ t.node.kind = "map"
           /\ \E e \in t.rest :
                 todo' = <<Task(e[2], MapChildPrefix(t.path, e[1]), FALSE),
                           [t EXCEPT !.rest = @ \ {e}]>> \o Tail(todo)
    /\ UNCHANGED <<config, prefix, called, values, due>>

\* registerConfig returns: nothing, or nothing more, to register here.
NodeDone ==
    /\ todo # << >>
    /\ LET t == Head(todo)
       IN  /\ ~IsDcValue(t.node, t.addr)
           /\ t.node.kind = "struct" => t.rest = << >>
           /\ t.node.kind = "map" => t.rest = {}
    /\ todo' = Tail(todo)
    /\ UNCHANGED <<config, prefix, called, values, due>>

Next == RegisterConfig \/ HandleDcValue \/ WalkStruct \/ WalkMap \/ NodeDone

Spec == Init /\ [][Next]_vars

-----------------------------------------------------------------------------
(* Properties.                                                             *)

Done == called /\ todo = << >>

\* The walk leaves out no DcValue that has a documented key, however structs,
\* maps, pointers and interfaces are nested.
NothingLeftOut == Done => due = {}

KeysOfField(i) ==
    KeysUnder(TrimSlash(prefix), FieldKeys(config.fields[i], config.ptr))

\* Where fields of the struct given to RegisterConfig collide, however deep
\* below them, the last one in the order of the fields gets the key.  (Of the
\* entries of a map that collide any may get it, in the order of the walk.)
LastFieldWins ==
    Done /\ config.kind = "struct" =>
        \A i, j \in DOMAIN config.fields : i < j =>
            \A d \in KeysOfField(i), e \in KeysOfField(j) :
                d[2] = e[2] => values[d[2]] # d[1]

\* The walk does what PoyaSDK takes RegisterConfig to do: it fixes a function
\* from the DcValues of the configuration to their documented keys, and puts
\* its pairs into the values map one by one, and nothing else.
SDK == INSTANCE PoyaSDK WITH
    Seed <- {"default"}, Raw <- {}, Malformed <- {}, Watcher <- {},
    Stopper <- {}, PrefixWatch <- FALSE, Deleted <- "deleted",
    NoCall <- NoEntry,
    disabled <- FALSE, cancelled <- FALSE, registering <- due,
    defaultValue <- [d \in Dc |-> "default"], val <- [d \in Dc |-> "default"],
    values <- [k \in Key |->
                  IF values[k] = NoEntry THEN NoEntry
                  ELSE [dc |-> values[k], defaultVal |-> "default"]],
    pc <- << >>, watched <- << >>, call <- << >>, stopping <- << >>,
    given <- {<<d, "default">> : d \in Dc}, told <- {}, late <- {}

KeyOf(pairs) == [d \in {e[1] : e \in pairs} |->
                    (CHOOSE e \in pairs : e[1] = d)[2]]

RegistersAsSDK ==
    [][values' # values \/ due' # due =>
          \/ SDK!RegisterConfig(KeyOf(due'))
          \/ \E d \in Dc : \E k \in Key : SDK!HandleDcValue(d, k)]_vars

=============================================================================
