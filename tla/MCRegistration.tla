--------------------------- MODULE MCRegistration ---------------------------
(* Small configurations for TLC: structs in structs, maps and interfaces,  *)
(* maps in both, one DcValue at the top and one further down.              *)
EXTENDS Registration, TLC

CONSTANTS d1, d2

Part(kind, name) == [kind |-> kind, name |-> <<name>>]
Tags == {<< >>, <<Part("key", "a")>>, <<Part("prefix", "b")>>,
         <<Part("bare", "b"), Part("prefix", "b"), Part("key", "a")>>}
Field(name, tag, any, node) ==
    [name |-> <<name>>, tag |-> tag, exported |-> TRUE, any |-> any,
     node |-> node]
Struct(ptr, fields) == [kind |-> "struct", ptr |-> ptr, fields |-> fields]
Map(entries) == [kind |-> "map", entries |-> entries]
Nothing == [kind |-> "nil"]
DcNode(d, ptr) == [kind |-> "dc", id |-> d, ptr |-> ptr]

\* "x" and "/x"
MapKeys(x) == {<<x>>, <<Slash, x>>}

Leaf == {DcNode(d1, ptr) : ptr \in BOOLEAN}
Inner ==
    {Struct(ptr, <<Field("b", tag, any, n)>>)
        : ptr, any \in BOOLEAN, tag \in Tags, n \in Leaf}
    \cup {Map({<<k, n>>}) : k \in MapKeys("a"), n \in Leaf}
Middle == Leaf \cup {Nothing} \cup Inner
    \cup {Map({<<k, n>>}) : k \in {<<"b">>, <<"b", Slash>>}, n \in Inner}
    \cup {Struct(ptr, <<Field("a", tag, FALSE, n)>>)
             : ptr \in BOOLEAN, tag \in Tags, n \in Inner}

Hidden == [Field("b", << >>, FALSE, DcNode(d2, TRUE)) EXCEPT !.exported = FALSE]

MCConfig ==
    {Struct(TRUE, <<Field("a", tag, any, n), Hidden,
                    Field("a", <<Part(kind, name)>>, FALSE,
                          DcNode(d2, FALSE))>>)
        : tag \in Tags, any \in BOOLEAN, n \in Middle,
          kind \in {"key", "prefix"}, name \in {"a", "b"}}
    \cup UNION {{Map({<<k, n>>, <<other, DcNode(d2, TRUE)>>})
                    : other \in MapKeys("a") \ {k}}
                   : k \in MapKeys("a"), n \in Middle}

Nodes == Middle \cup {DcNode(d2, ptr) : ptr \in BOOLEAN} \cup MCConfig
MCNode == Nodes

MCPrefix == {<< >>, <<"app">>, <<"app", Slash>>}

\* Up to four segments under the prefix.
Path(s) == [i \in 1 .. 2 * Len(s) - 1 |->
               IF i % 2 = 0 THEN Slash ELSE s[(i + 1) \div 2]]
MCKey == {Path(p \o s) : p \in {<< >>, <<"app">>},
                         s \in UNION {[1 .. n -> {"a", "b"}] : n \in 1 .. 4}}

=============================================================================
