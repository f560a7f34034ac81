------------------------ MODULE Registration_proofs ------------------------
(***************************************************************************)
(* Proofs about Registration for any alphabet, any prefixes and any finite *)
(* trees of structs and maps: the walk finds every documented key and no   *)
(* other one, in the order of the fields, and does what PoyaSDK takes      *)
(* RegisterConfig to do.                                                   *)
(***************************************************************************)
EXTENDS Registration, SequenceTheorems, WellFoundedInduction, TLAPS

-----------------------------------------------------------------------------
(* Strings.                                                                *)

\* Appending and taking the last character off undo each other.
LEMMA AppendLast ==
  ASSUME NEW x \in String, NEW c \in Char
  PROVE  /\ Append(x, c) \in String
         /\ Append(x, c) # << >>
         /\ Front(Append(x, c)) = x
         /\ Last(Append(x, c)) = c
<1> DEFINE s == Append(x, c)
<1>1. /\ s \in String
      /\ Len(s) = Len(x) + 1
      /\ s[Len(s)] = c
      /\ \A i \in 1 .. Len(x) : s[i] = x[i]
      /\ Len(x) \in Nat
  BY DEF String
<1> HIDE DEF s
<1>2. /\ SubSeq(s, 1, Len(x)) \in Seq(Char)
      /\ Len(SubSeq(s, 1, Len(x))) = Len(x)
      /\ \A i \in 1 .. Len(x) : SubSeq(s, 1, Len(x))[i] = s[i]
  <2>1. \A i \in 1 .. Len(x) : s[i] \in Char
    BY <1>1 DEF String
  <2> QED
    BY <1>1, <2>1, SubSeqProperties, Z3
<1>3. SubSeq(s, 1, Len(x)) = x
  BY <1>1, <1>2, SeqEqual DEF String
<1> QED
  BY <1>1, <1>3 DEF Front, Last, s

\* A string that is not empty is one with its last character appended.
LEMMA FrontLast ==
  ASSUME NEW s \in String, s # << >>
  PROVE  /\ Front(s) \in String
         /\ Last(s) \in Char
         /\ s = Append(Front(s), Last(s))
<1> DEFINE n == Len(s) - 1
           x == SubSeq(s, 1, n)
<1>1. n \in Nat /\ Len(s) = n + 1 /\ \A i \in 1 .. Len(s) : s[i] \in Char
  BY DEF String
<1>2. /\ x \in Seq(Char)
      /\ Len(x) = n
      /\ \A i \in 1 .. n : x[i] = s[i]
  BY <1>1, SubSeqProperties, Z3
<1> HIDE DEF x, n
<1>3. /\ Append(x, s[Len(s)]) \in Seq(Char)
      /\ Len(Append(x, s[Len(s)])) = n + 1
      /\ \A i \in 1 .. n + 1 : Append(x, s[Len(s)])[i] = s[i]
  BY <1>1, <1>2
<1>4. Append(x, s[Len(s)]) = s
  BY <1>1, <1>3, SeqEqual DEF String
<1> QED
  BY <1>1, <1>2, <1>4 DEF Front, Last, String, x, n

\* The empty string changes nothing, and where the brackets are neither.
LEMMA Concat ==
  ASSUME NEW x \in String, NEW y \in String
  PROVE  /\ x \o y \in String
         /\ x \o << >> = x
         /\ << >> \o x = x
         /\ y # << >> => x \o y # << >>
  BY ConcatProperties, ConcatEmptySeq, ConcatEqualIffEmpty DEF String

LEMMA ConcatTwice ==
  ASSUME NEW x \in String, NEW y \in String, NEW z \in String
  PROVE  (x \o y) \o z = x \o (y \o z)
  BY ConcatAssociative DEF String

LEMMA ConcatAppend ==
  ASSUME NEW x \in String, NEW y \in String, NEW c \in Char
  PROVE  x \o Append(y, c) = Append(x \o y, c)
<1>1. <<c>> \in String /\ Append(y, c) = y \o <<c>>
  BY DEF String
<1>2. Append(x \o y, c) = (x \o y) \o <<c>>
  BY Concat DEF String
<1> QED
  BY <1>1, <1>2, ConcatTwice

\* TrimSlash takes one slash off the end, and no other character.
LEMMA Trim ==
  ASSUME NEW s \in String
  PROVE  /\ TrimSlash(s) \in String
         /\ EndsInSlash(s) => s = Append(TrimSlash(s), Slash)
         /\ ~EndsInSlash(s) => TrimSlash(s) = s
         /\ TrimSlash(Append(s, Slash)) = s
         /\ EndsInSlash(Append(s, Slash))
         /\ TrimLeadingSlash(s) \in String
  <1>1. TrimLeadingSlash(s) \in String
    BY HeadTailProperties DEF TrimLeadingSlash, String
  <1> QED
    BY <1>1, AppendLast, FrontLast, RegistrationAssumption
    DEF TrimSlash, EndsInSlash

\* What is in front of a string does not count for its end.
LEMMA TrimConcat ==
  ASSUME NEW x \in String, NEW k \in String, k # << >>
  PROVE  /\ EndsInSlash(x \o k) <=> EndsInSlash(k)
         /\ TrimSlash(x \o k) = x \o TrimSlash(k)
<1>1. PICK y \in String, c \in Char : k = Append(y, c)
  BY FrontLast
<1>2. x \o k = Append(x \o y, c) /\ x \o y \in String
  BY <1>1, Concat, ConcatAppend
<1>3. EndsInSlash(k) <=> c = Slash
  BY <1>1, AppendLast DEF EndsInSlash
<1>4. EndsInSlash(x \o k) <=> c = Slash
  BY <1>2, AppendLast DEF EndsInSlash
<1>5. CASE c = Slash
  BY <1>1, <1>2, <1>5, Trim
<1>6. CASE c # Slash
  BY <1>3, <1>4, <1>6, <1>2, Trim, Concat
<1> QED
  BY <1>3, <1>4, <1>5, <1>6

\* A path that is not just a slash.
IsPath(s) == s \in String /\ (s # << >> => TrimSlash(s) # << >>)

\* The slash that Dir ends a path in is the one that joins a segment to it.
LEMMA DirTrim ==
  ASSUME NEW s \in String, IsPath(s)
  PROVE  /\ Dir(s) \in String
         /\ TrimSlash(Dir(s)) = TrimSlash(s)
         /\ IsPath(Dir(s))
         /\ \A k \in String : k # << >> => Under(TrimSlash(s), k) = Dir(s) \o k
<1>1. CASE s = << >>
  <2>1. TrimSlash(s) = s /\ Dir(s) = s
    BY <1>1 DEF TrimSlash, EndsInSlash, Dir
  <2> QED
    BY <1>1, <2>1, Concat DEF Under, IsPath
<1>2. CASE s # << >>
  <2>1. Dir(s) = Append(TrimSlash(s), Slash) /\ TrimSlash(s) \in String
    BY <1>2, Trim DEF Dir
  <2>2. Dir(s) \in String /\ TrimSlash(Dir(s)) = TrimSlash(s)
    BY <2>1, Trim, AppendLast, RegistrationAssumption
  <2> QED
    BY <1>2, <2>1, <2>2 DEF IsPath, Under
<1> QED
  BY <1>1, <1>2

\* The prefix does not change what a path's last character is.
LEMMA DirConcat ==
  ASSUME NEW p \in String, NEW q \in String, p = << >> \/ EndsInSlash(p)
  PROVE  Dir(p \o q) = p \o Dir(q)
<1>1. CASE q = << >>
  <2>1. p \o q = p /\ Dir(q) = q
    BY <1>1, Concat DEF Dir
  <2>2. Dir(p) = p
    BY Trim DEF Dir
  <2> QED
    BY <1>1, <2>1, <2>2
<1>2. CASE q # << >>
  <2>1. /\ p \o q # << >> /\ p \o q \in String
        /\ TrimSlash(p \o q) = p \o TrimSlash(q)
    BY <1>2, Concat, TrimConcat
  <2>2. p \o Dir(q) = Append(p \o TrimSlash(q), Slash)
    BY <1>2, Trim, ConcatAppend, RegistrationAssumption DEF Dir
  <2> QED
    BY <2>1, <2>2 DEF Dir
<1> QED
  BY <1>1, <1>2

\* One segment under another: in whichever order they are put together.
LEMMA UnderUnder ==
  ASSUME NEW a \in String, NEW b \in String, NEW c \in String
  PROVE  /\ Under(a, b) \in String
         /\ Under(a, Under(b, c)) = Under(Under(a, b), c)
<1> DEFINE as == Append(a, Slash)
           bs == Append(b, Slash)
<1>1. /\ as \in String /\ bs \in String /\ as # << >> /\ bs # << >>
  BY AppendLast, RegistrationAssumption
<1>2. Under(a, b) \in String
  BY <1>1, Concat DEF Under
<1> HIDE DEF as, bs
<1>3. CASE a = << >> \/ b = << >> \/ c = << >>
  BY <1>2, <1>3 DEF Under
<1>4. CASE a # << >> /\ b # << >> /\ c # << >>
  <2>1. bs \o c # << >> /\ bs \o c \in String /\ as \o b # << >>
        /\ as \o b \in String
    BY <1>1, <1>4, Concat
  <2>2. Under(a, Under(b, c)) = as \o (bs \o c)
    BY <1>4, <2>1 DEF Under, as, bs
  <2>3. Under(Under(a, b), c) = Append(as \o b, Slash) \o c
    BY <1>4, <2>1 DEF Under, as
  <2>4. Append(as \o b, Slash) = as \o bs
    BY <1>1, ConcatAppend, RegistrationAssumption DEF bs
  <2>5. as \o (bs \o c) = (as \o bs) \o c
    BY <1>1, ConcatTwice
  <2> QED
    BY <1>2, <2>2, <2>3, <2>4, <2>5
<1> QED
  BY <1>2, <1>3, <1>4

-----------------------------------------------------------------------------
(* What keysWithin computes: there is a function that meets its recursion, *)
(* put together level by level.                                            *)

Less == {p \in Nat \X Nat : p[1] < p[2]}

\* Induction for a set of numbers.
LEMMA NatSetInduction ==
  ASSUME NEW S, 0 \in S, \A n \in Nat : n \in S => n + 1 \in S
  PROVE  \A n \in Nat : n \in S
<1> SUFFICES ASSUME NEW n \in Nat, n \notin S PROVE FALSE
  OBVIOUS
<1> DEFINE T == {m \in Nat : m \notin S}
<1>1. T \subseteq Nat /\ T # {}
  OBVIOUS
<1>2. PICK x \in T : \A y \in T : ~(<<y, x>> \in Less)
  <2> HIDE DEF T
  <2>1. IsWellFoundedOn(Less, Nat)
    <3>1. OpToRel(<, Nat) = Less
      BY DEF OpToRel, Less
    <3> QED
      BY <3>1, NatLessThanWellFounded
  <2> QED
    BY <1>1, <2>1, WFMin
<1>3. x \in Nat /\ x # 0 /\ x - 1 \in Nat /\ x - 1 < x
  OBVIOUS
<1>4. <<x - 1, x>> \in Less
  BY <1>3 DEF Less
<1>5. x - 1 \notin T
  <2> HIDE DEF T
  <2> QED
    BY <1>2, <1>4
<1> QED
  BY <1>3, <1>5

\* Stated by itself because the solvers are slow to see it of long terms.
LEMMA PairParts ==
  ASSUME NEW t, NEW a, NEW b, t = <<a, b>> PROVE t[1] = a /\ t[2] = b
  OBVIOUS

\* What is inside a spot is a spot, under a segment.
LEMMA InsideType ==
  ASSUME NEW s \in Spot, NEW c \in Inside(s)
  PROVE  c = <<c[1], c[2]>> /\ c[1] \in String /\ c[2] \in Spot
<1> DEFINE n == s[1]
<1>1. n \in Node /\ s[2] \in BOOLEAN
  BY DEF Spot
<1>2. IsNode(n)
  BY <1>1, RegistrationAssumption
<1>3. ASSUME NEW t \in String PROVE Segment(t) \in String
  BY <1>3, Trim DEF Segment
<1>4. CASE n.kind = "map"
  <2>1. PICK e \in n.entries : c \in EntrySpots(e)
    BY <1>4 DEF Inside
  <2>2. IsMapEntry(e)
    BY <1>2, <1>4 DEF IsNode
  <2>3. c = <<Segment(e[1]), <<e[2], FALSE>>>>
    BY <2>1 DEF EntrySpots
  <2>4. Segment(e[1]) \in String /\ <<e[2], FALSE>> \in Spot
    BY <1>3, <2>2 DEF IsMapEntry, Spot
  <2> QED
    BY <2>3, <2>4, PairParts, Zenon
<1>5. CASE n.kind = "struct"
  <2>1. PICK i \in DOMAIN n.fields :
            c \in FieldSpots(n.fields[i], n.ptr \/ s[2])
    BY <1>5 DEF Inside
  <2> DEFINE f == n.fields[i]
             addr == n.ptr \/ s[2]
             own == IF TagKey(f.tag) # << >> THEN TagKey(f.tag)
                    ELSE IF f.node.kind = "dc" THEN f.name ELSE TagPrefix(f.tag)
  <2>2. IsField(f)
    BY <1>2, <1>5 DEF IsNode
  <2>3. own \in String
    BY <2>2, EmptySeq DEF IsField, IsName, String
  <2>4. c = <<Segment(own), <<f.node, addr /\ ~f.any>>>>
    BY <2>1, Zenon DEF FieldSpots
  <2>5. (addr /\ ~f.any) \in BOOLEAN
    OBVIOUS
  <2>6. <<f.node, addr /\ ~f.any>> \in Spot
    BY <2>2, <2>5 DEF IsField, Spot
  <2> HIDE DEF own
  <2>7. Segment(own) \in String
    BY <1>3, <2>3
  <2> QED
    BY <2>4, <2>6, <2>7, PairParts, Zenon
<1> QED
  BY <1>2, <1>4, <1>5 DEF Inside, IsNode

\* The keys of all spots, if h gives those of the spots inside them.
Layer(h) ==
    [s \in Spot |-> OwnKey(s) \cup
                    UNION {KeysUnder(c[1], h[c[2]]) : c \in Inside(s)}]

Chain(g, d) ==
    /\ g[0] = [s \in Spot |-> {}]
    /\ \A n \in 1 .. d : g[n] = Layer(g[n - 1])

\* Level after level can be put together, and in one way only.
LEMMA ChainsExist == \A d \in Nat : \E g : Chain(g, d)
<1> DEFINE S == {d \in Nat : \E g : Chain(g, d)}
<1>1. 0 \in S
  <2>1. Chain([n \in {0} |-> [s \in Spot |-> {}]], 0)
    BY DEF Chain
  <2> QED
    BY <2>1
<1>2. ASSUME NEW d \in Nat, d \in S PROVE d + 1 \in S
  <2>1. PICK g : Chain(g, d)
    BY <1>2
  <2> DEFINE h == [n \in 0 .. d + 1 |->
                      IF n = d + 1 THEN Layer(g[d]) ELSE g[n]]
  <2>2. h[0] = g[0]
    OBVIOUS
  <2>3. ASSUME NEW n \in 1 .. d + 1 PROVE h[n] = Layer(h[n - 1])
    <3>1. n - 1 \in 0 .. d /\ h[n - 1] = g[n - 1]
      OBVIOUS
    <3>2. n = d + 1 => h[n] = Layer(g[n - 1])
      OBVIOUS
    <3>3. n # d + 1 => n \in 1 .. d /\ h[n] = g[n]
      OBVIOUS
    <3> QED
      BY <2>1, <3>1, <3>2, <3>3 DEF Chain
  <2>4. Chain(h, d + 1)
    <3> HIDE DEF h
    <3> QED
      BY <2>1, <2>2, <2>3 DEF Chain
  <2> QED
    BY <2>4
<1> HIDE DEF S
<1>3. \A d \in Nat : d \in S
  BY <1>1, <1>2, NatSetInduction
<1> QED
  BY <1>3 DEF S

LEMMA ChainsAgree ==
  ASSUME NEW g, NEW h, NEW d \in Nat, Chain(g, d), Chain(h, d + 1)
  PROVE  g[d] = h[d]
<1> DEFINE S == {n \in Nat : n <= d => g[n] = h[n]}
<1>1. 0 \in S
  BY DEF Chain
<1>2. ASSUME NEW n \in Nat, n \in S PROVE n + 1 \in S
  <2>1. CASE n + 1 <= d
    <3>1. n + 1 \in 1 .. d /\ n + 1 \in 1 .. d + 1 /\ (n + 1) - 1 = n
      BY <2>1
    <3>2. g[n + 1] = Layer(g[n]) /\ h[n + 1] = Layer(h[n])
      BY <3>1 DEF Chain
    <3> QED
      BY <1>2, <2>1, <3>2
  <2> QED
    BY <2>1
<1> HIDE DEF S
<1>3. \A n \in Nat : n \in S
  BY <1>1, <1>2, NatSetInduction
<1> QED
  BY <1>3 DEF S

\* So there is a function as keysWithin is defined to be, and it is one.
LEMMA KeysWithinUnfolds ==
  \A n \in Nat, s \in Spot :
      /\ keysWithin[<<0, s>>] = {}
      /\ keysWithin[<<n + 1, s>>] =
             OwnKey(s) \cup UNION {KeysUnder(c[1], keysWithin[<<n, c[2]>>])
                                      : c \in Inside(s)}
<1> DEFINE level == [d \in Nat |-> (CHOOSE g : Chain(g, d))[d]]
           Meets(k) == k = [x \in Nat \X Spot |->
               IF x[1] = 0 THEN {}
               ELSE OwnKey(x[2]) \cup
                    UNION {KeysUnder(c[1], k[<<x[1] - 1, c[2]>>])
                              : c \in Inside(x[2])}]
           f == [x \in Nat \X Spot |-> level[x[1]][x[2]]]
<1>1. level[0] = [s \in Spot |-> {}]
  BY ChainsExist DEF Chain
<1>2. ASSUME NEW d \in Nat PROVE level[d + 1] = Layer(level[d])
  <2> DEFINE g == CHOOSE g : Chain(g, d)
             h == CHOOSE h : Chain(h, d + 1)
  <2>1. Chain(g, d) /\ Chain(h, d + 1)
    BY ChainsExist
  <2>2. level[d] = g[d] /\ level[d + 1] = h[d + 1]
    OBVIOUS
  <2> HIDE DEF g, h, level
  <2>3. g[d] = h[d]
    BY <2>1, ChainsAgree
  <2>4. h[d + 1] = Layer(h[d])
    BY <2>1 DEF Chain
  <2> QED
    BY <2>2, <2>3, <2>4
<1> HIDE DEF level
<1>3. ASSUME NEW n \in Nat, NEW s \in Spot PROVE f[<<n, s>>] = level[n][s]
  <2>1. <<n, s>> \in Nat \X Spot
    OBVIOUS
  <2> QED
    BY <2>1, PairParts, Zenon
<1>4. ASSUME NEW x \in Nat \X Spot
      PROVE  f[x] = IF x[1] = 0 THEN {}
                    ELSE OwnKey(x[2]) \cup
                         UNION {KeysUnder(c[1], f[<<x[1] - 1, c[2]>>])
                                   : c \in Inside(x[2])}
  <2> DEFINE n == x[1]
             s == x[2]
  <2>1. n \in Nat /\ s \in Spot /\ f[x] = level[n][s]
    OBVIOUS
  <2> HIDE DEF f, n, s
  <2>2. CASE n = 0
    BY <1>1, <2>1, <2>2 DEF n
  <2>3. CASE n # 0
    <3>1. n - 1 \in Nat /\ (n - 1) + 1 = n
      BY <2>1, <2>3
    <3>2. level[n] = Layer(level[n - 1])
      BY <1>2, <3>1
    <3>3. f[x] = OwnKey(s) \cup
                 UNION {KeysUnder(c[1], level[n - 1][c[2]]) : c \in Inside(s)}
      BY <2>1, <3>2 DEF Layer
    <3>4. \A c \in Inside(s) : f[<<n - 1, c[2]>>] = level[n - 1][c[2]]
      BY <1>3, <2>1, <3>1, InsideType
    <3> QED
      BY <2>3, <3>3, <3>4 DEF n, s
  <2> QED
    BY <2>2, <2>3
<1>5. Meets(f)
  <2> DEFINE body == [x \in Nat \X Spot |->
               IF x[1] = 0 THEN {}
               ELSE OwnKey(x[2]) \cup
                    UNION {KeysUnder(c[1], f[<<x[1] - 1, c[2]>>])
                              : c \in Inside(x[2])}]
  <2>1. f = [x \in Nat \X Spot |-> f[x]]
    OBVIOUS
  <2> HIDE DEF f
  <2> QED
    BY <1>4, <2>1
<1> HIDE DEF f
<1>6. Meets(keysWithin)
  BY <1>5, Zenon DEF keysWithin
<1>7. ASSUME NEW x \in Nat \X Spot
      PROVE  keysWithin[x] =
                 IF x[1] = 0 THEN {}
                 ELSE OwnKey(x[2]) \cup
                      UNION {KeysUnder(c[1], keysWithin[<<x[1] - 1, c[2]>>])
                                : c \in Inside(x[2])}
  BY <1>6, Zenon
<1>8. ASSUME NEW n \in Nat, NEW s \in Spot
      PROVE  /\ keysWithin[<<0, s>>] = {}
             /\ keysWithin[<<n + 1, s>>] =
                    OwnKey(s) \cup
                    UNION {KeysUnder(c[1], keysWithin[<<n, c[2]>>])
                              : c \in Inside(s)}
  <2> DEFINE x == <<0, s>>
             y == <<n + 1, s>>
  <2>1. x \in Nat \X Spot /\ y \in Nat \X Spot
    OBVIOUS
  <2>2. x[1] = 0 /\ y[1] = n + 1 /\ y[2] = s
    OBVIOUS
  <2>3. n + 1 # 0 /\ (n + 1) - 1 = n
    OBVIOUS
  <2> HIDE DEF x, y
  <2>4. keysWithin[x] = {}
    BY <1>7, <2>1, <2>2, Zenon
  <2>5. keysWithin[y] = OwnKey(s) \cup
                    UNION {KeysUnder(c[1], keysWithin[<<n, c[2]>>])
                              : c \in Inside(s)}
    <3>1. y[1] # 0
      BY <2>2, <2>3
    <3>2. keysWithin[y] =
              OwnKey(y[2]) \cup
              UNION {KeysUnder(c[1], keysWithin[<<y[1] - 1, c[2]>>])
                        : c \in Inside(y[2])}
      BY <1>7, <2>1, <3>1, Zenon
    <3>3. y[1] - 1 = n
      BY <2>2, <2>3
    <3> QED
      BY <2>2, <3>2, <3>3, Zenon
  <2> QED
    BY <2>4, <2>5 DEF x, y
<1> QED
  BY <1>8

-----------------------------------------------------------------------------
(* Documented keys.                                                        *)

\* Keys under a segment, and under two: it is the DcValues' keys that change.
LEMMA KeysUnderPairs ==
  ASSUME NEW a \in String, NEW keys \in SUBSET (Dc \X String)
  PROVE  /\ KeysUnder(a, keys) \in SUBSET (Dc \X String)
         /\ \A x \in KeysUnder(a, keys) : \E e \in keys : x[1] = e[1]
         /\ \A b \in String :
               KeysUnder(b, KeysUnder(a, keys)) = KeysUnder(Under(b, a), keys)
<1>1. ASSUME NEW e \in keys
      PROVE  /\ e[1] \in Dc /\ e[2] \in String
             /\ Under(a, e[2]) \in String
             /\ \A b \in String :
                    Under(b, Under(a, e[2])) = Under(Under(b, a), e[2])
  <2>1. e[1] \in Dc /\ e[2] \in String
    OBVIOUS
  <2> QED
    BY <2>1, UnderUnder
<1>2. \A x \in KeysUnder(a, keys) : \E e \in keys : x = <<e[1], Under(a, e[2])>>
  BY DEF KeysUnder
<1>3. KeysUnder(a, keys) \in SUBSET (Dc \X String)
  BY <1>1, <1>2
<1>4. ASSUME NEW b \in String
      PROVE  KeysUnder(b, KeysUnder(a, keys)) = KeysUnder(Under(b, a), keys)
  <2>1. ASSUME NEW e \in keys
        PROVE  <<e[1], Under(b, Under(a, e[2]))>> =
               <<e[1], Under(Under(b, a), e[2])>>
    BY <1>1
  <2>2. KeysUnder(b, KeysUnder(a, keys)) =
            {<<e[1], Under(b, Under(a, e[2]))>> : e \in keys}
    <3>1. KeysUnder(b, KeysUnder(a, keys)) =
              {<<<<e[1], Under(a, e[2])>>[1],
                 Under(b, <<e[1], Under(a, e[2])>>[2])>> : e \in keys}
      BY DEF KeysUnder
    <3> QED
      BY <3>1
  <2> QED
    BY <2>1, <2>2 DEF KeysUnder
<1> QED
  BY <1>2, <1>3, <1>4

LEMMA OwnKeyType ==
  ASSUME NEW s \in Spot PROVE OwnKey(s) \in SUBSET (Dc \X String)
<1>1. IsNode(s[1])
  BY RegistrationAssumption DEF Spot
<1>2. << >> \in String
  BY DEF String
<1> QED
  BY <1>1, <1>2 DEF OwnKey, IsNode

\* However far down one looks, what is found are DcValues with strings.
LEMMA KeysWithinType ==
  \A n \in Nat : \A s \in Spot : keysWithin[<<n, s>>] \in SUBSET (Dc \X String)
<1> DEFINE S == {n \in Nat :
                    \A s \in Spot :
                        keysWithin[<<n, s>>] \in SUBSET (Dc \X String)}
<1>1. 0 \in S
  BY KeysWithinUnfolds
<1>2. ASSUME NEW n \in Nat, n \in S PROVE n + 1 \in S
  <2>1. ASSUME NEW s \in Spot
        PROVE  keysWithin[<<n + 1, s>>] \in SUBSET (Dc \X String)
    <3>1. ASSUME NEW c \in Inside(s)
          PROVE  KeysUnder(c[1], keysWithin[<<n, c[2]>>])
                     \in SUBSET (Dc \X String)
      <4>1. c[1] \in String /\ c[2] \in Spot
        BY InsideType
      <4>2. keysWithin[<<n, c[2]>>] \in SUBSET (Dc \X String)
        BY <1>2, <4>1
      <4> QED
        BY <4>1, <4>2, KeysUnderPairs
    <3>2. keysWithin[<<n + 1, s>>] =
             OwnKey(s) \cup UNION {KeysUnder(c[1], keysWithin[<<n, c[2]>>])
                                      : c \in Inside(s)}
      BY KeysWithinUnfolds
    <3> QED
      BY <3>1, <3>2, OwnKeyType
  <2> QED
    BY <2>1
<1> HIDE DEF S
<1>3. \A n \in Nat : n \in S
  BY <1>1, <1>2, NatSetInduction
<1> QED
  BY <1>3 DEF S

\* The trees are no deeper than MaxDepth, so the bound on it cuts nothing off.
LEMMA DocumentedKeysUnfold ==
  ASSUME NEW s \in Spot
  PROVE  /\ DocumentedKeys(s) \in SUBSET (Dc \X String)
         /\ DocumentedKeys(s) = OwnKey(s) \cup KeysBelow(Inside(s))
<1>1. MaxDepth \in Nat
      /\ keysWithin[<<MaxDepth + 1, s>>] = keysWithin[<<MaxDepth, s>>]
  BY RegistrationAssumption
<1>2. keysWithin[<<MaxDepth + 1, s>>] =
             OwnKey(s) \cup
             UNION {KeysUnder(c[1], keysWithin[<<MaxDepth, c[2]>>])
                       : c \in Inside(s)}
  BY <1>1, KeysWithinUnfolds
<1>3. DocumentedKeys(s) \in SUBSET (Dc \X String)
  BY <1>1, KeysWithinType DEF DocumentedKeys
<1> QED
  BY <1>1, <1>2, <1>3 DEF DocumentedKeys, KeysBelow

LEMMA KeysBelowOne ==
  ASSUME NEW a, NEW s
  PROVE  KeysBelow({<<a, s>>}) = KeysUnder(a, DocumentedKeys(s))
  BY DEF KeysBelow

\* The keys of the fields or entries that a node has.
LEMMA DocumentedKeysOfNode ==
  ASSUME NEW n \in Node, NEW addr \in BOOLEAN
  PROVE  /\ n.kind = "struct" =>
               DocumentedKeys(<<n, addr>>) =
                   UNION {FieldKeys(n.fields[i], n.ptr \/ addr)
                             : i \in DOMAIN n.fields}
         /\ n.kind = "map" =>
               DocumentedKeys(<<n, addr>>) =
                   UNION {EntryKeys(e) : e \in n.entries}
         /\ n.kind \notin {"struct", "map"} =>
               DocumentedKeys(<<n, addr>>) = OwnKey(<<n, addr>>)
<1> DEFINE s == <<n, addr>>
<1>1. s \in Spot /\ s[1] = n /\ s[2] = addr
  BY DEF Spot
<1>2. DocumentedKeys(s) = OwnKey(s) \cup KeysBelow(Inside(s))
  BY <1>1, DocumentedKeysUnfold
<1> HIDE DEF s
<1>3. n.kind # "dc" => OwnKey(s) = {}
  BY <1>1 DEF OwnKey
<1>4. CASE n.kind = "struct"
  <2>1. Inside(s) = UNION {FieldSpots(n.fields[i], n.ptr \/ addr)
                              : i \in DOMAIN n.fields}
    BY <1>1, <1>4, Zenon DEF Inside
  <2>2. KeysBelow(Inside(s)) =
            UNION {FieldKeys(n.fields[i], n.ptr \/ addr)
                      : i \in DOMAIN n.fields}
    BY <2>1 DEF KeysBelow, FieldKeys
  <2> QED
    BY <1>2, <1>3, <1>4, <2>2 DEF s
<1>5. CASE n.kind = "map"
  <2>1. Inside(s) = UNION {EntrySpots(e) : e \in n.entries}
    BY <1>1, <1>5 DEF Inside
  <2>2. KeysBelow(Inside(s)) = UNION {EntryKeys(e) : e \in n.entries}
    BY <2>1 DEF KeysBelow, EntryKeys
  <2> QED
    BY <1>2, <1>3, <1>5, <2>2 DEF s
<1>6. CASE n.kind \notin {"struct", "map"}
  <2>1. Inside(s) = {}
    BY <1>1, <1>6 DEF Inside
  <2> QED
    BY <1>2, <1>6, <2>1 DEF KeysBelow, s
<1> QED
  BY <1>4, <1>5, <1>6

-----------------------------------------------------------------------------
(* What is still to be visited, and the keys it leads to.                  *)

\* s.prefix, as New leaves it.
PrefixOK ==
    /\ prefix \in String
    /\ prefix = << >> \/ EndsInSlash(prefix)
    /\ IsPath(prefix)

\* If the fields of the task's node have an address.
Addressable(t) == t.node.ptr \/ t.addr

\* The keys of what the loop has not come to, of a DcValue its own one.
RestKeys(t) ==
    CASE t.node.kind = "struct" ->
             UNION {FieldKeys(t.rest[i], Addressable(t)) : i \in DOMAIN t.rest}
      [] t.node.kind = "map" -> UNION {EntryKeys(e) : e \in t.rest}
      [] t.node.kind \notin {"struct", "map"} -> OwnKey(<<t.node, t.addr>>)

TaskKeys(t) == KeysUnder(TrimSlash(prefix \o t.path), RestKeys(t))

IsStack(q) == \E S : q \in Seq(S)

IsTask(t) ==
    /\ t = [node |-> t.node, path |-> t.path, addr |-> t.addr, rest |-> t.rest]
    /\ t.node \in Node
    /\ t.addr \in BOOLEAN
    /\ t.path \in String
    /\ IsPath(prefix \o t.path)
    /\ t.node.kind = "dc" => ~EndsInSlash(prefix \o t.path)
    /\ t.node.kind = "struct" =>
          /\ IsStack(t.rest)
          /\ \A i \in DOMAIN t.rest : IsField(t.rest[i])
          /\ \A i, j \in DOMAIN t.rest : i # j =>
                Apart(FieldKeys(t.rest[i], Addressable(t)),
                      FieldKeys(t.rest[j], Addressable(t)))
    /\ t.node.kind = "map" =>
          /\ \A e \in t.rest : IsMapEntry(e)
          /\ \A d, e \in t.rest : d # e => Apart(EntryKeys(d), EntryKeys(e))

\* A node that is come to is still to be visited as a whole.
LEMMA FreshTask ==
  ASSUME NEW n \in Node, NEW path \in String, NEW addr \in BOOLEAN,
         IsPath(prefix \o path),
         n.kind = "dc" => ~EndsInSlash(prefix \o path)
  PROVE  /\ IsTask(Task(n, path, addr))
         /\ RestKeys(Task(n, path, addr)) = DocumentedKeys(<<n, addr>>)
<1> DEFINE t == Task(n, path, addr)
<1>1. /\ t = [node |-> t.node, path |-> t.path, addr |-> t.addr,
              rest |-> t.rest]
      /\ t.node = n /\ t.path = path /\ t.addr = addr
      /\ n.kind = "struct" => t.rest = n.fields
      /\ n.kind = "map" => t.rest = n.entries
  BY DEF Task
<1>2. Addressable(t) = (n.ptr \/ addr)
  BY <1>1, Zenon DEF Addressable
<1> HIDE DEF t
<1>3. IsNode(n)
  BY RegistrationAssumption
<1>4. (n.ptr \/ addr) \in BOOLEAN
  OBVIOUS
<1>5. n.kind = "struct" =>
          /\ IsStack(t.rest)
          /\ \A i \in DOMAIN t.rest : IsField(t.rest[i])
          /\ \A i, j \in DOMAIN t.rest : i # j =>
                Apart(FieldKeys(t.rest[i], Addressable(t)),
                      FieldKeys(t.rest[j], Addressable(t)))
  <2> SUFFICES ASSUME n.kind = "struct"
               PROVE  /\ IsStack(n.fields)
                      /\ \A i \in DOMAIN n.fields : IsField(n.fields[i])
                      /\ \A i, j \in DOMAIN n.fields : i # j =>
                            Apart(FieldKeys(n.fields[i], n.ptr \/ addr),
                                  FieldKeys(n.fields[j], n.ptr \/ addr))
    BY <1>2, <1>1, Zenon
  <2>1. n.fields \in Seq({n.fields[i] : i \in DOMAIN n.fields})
        /\ \A i \in DOMAIN n.fields : IsField(n.fields[i])
    BY <1>3 DEF IsNode
  <2>2. IsStack(n.fields)
    BY <2>1, Zenon DEF IsStack
  <2>3. \A a \in BOOLEAN : \A i, j \in DOMAIN n.fields : i # j =>
            Apart(FieldKeys(n.fields[i], a), FieldKeys(n.fields[j], a))
    BY DistinctAssumption, Zenon
  <2> QED
    BY <1>4, <2>1, <2>2, <2>3, Zenon
<1>6. n.kind = "map" =>
          /\ \A e \in t.rest : IsMapEntry(e)
          /\ \A d, e \in t.rest : d # e => Apart(EntryKeys(d), EntryKeys(e))
  BY <1>1, <1>3, DistinctAssumption DEF IsNode
<1>7. IsTask(t)
  BY <1>1, <1>5, <1>6 DEF IsTask
<1>8. RestKeys(t) = DocumentedKeys(<<n, addr>>)
  <2>1. CASE n.kind = "struct"
    <3>1. RestKeys(t) = UNION {FieldKeys(n.fields[i], n.ptr \/ addr)
                                  : i \in DOMAIN n.fields}
      BY <1>2, <1>1, <2>1, Zenon DEF RestKeys
    <3> QED
      BY <2>1, <3>1, DocumentedKeysOfNode
  <2>2. CASE n.kind = "map"
    BY <1>1, <2>2, DocumentedKeysOfNode DEF RestKeys
  <2>3. CASE n.kind \notin {"struct", "map"}
    BY <1>1, <2>3, DocumentedKeysOfNode DEF RestKeys
  <2> QED
    BY <2>1, <2>2, <2>3
<1> QED
  BY <1>7, <1>8 DEF t

\* Its path is its parent's with one more segment, k without its slashes.
LEMMA ChildTask ==
  ASSUME PrefixOK,
         NEW path \in String, IsPath(prefix \o path),
         NEW k \in String, IsPath(k),
         NEW n \in Node, NEW addr \in BOOLEAN,
         n.kind = "dc" => k # << >> /\ ~EndsInSlash(k)
  PROVE  /\ IsTask(Task(n, Dir(path) \o k, addr))
         /\ TaskKeys(Task(n, Dir(path) \o k, addr)) =
                KeysUnder(TrimSlash(prefix \o path),
                          KeysUnder(TrimSlash(k), DocumentedKeys(<<n, addr>>)))
<1> DEFINE full == prefix \o path
           child == Dir(path) \o k
           t == Task(n, child, addr)
<1>1. /\ prefix \in String /\ full \in String /\ IsPath(full)
      /\ Dir(full) = prefix \o Dir(path)
      /\ TrimSlash(full) \in String /\ TrimSlash(k) \in String
  BY DirConcat, Concat, Trim DEF PrefixOK
<1>2. /\ Dir(full) \in String
      /\ TrimSlash(Dir(full)) = TrimSlash(full)
      /\ IsPath(Dir(full))
      /\ \A s \in String :
            s # << >> => Under(TrimSlash(full), s) = Dir(full) \o s
  BY <1>1, DirTrim
<1>3. Dir(path) \in String
  BY Trim, AppendLast, RegistrationAssumption DEF Dir
<1>4. child \in String /\ prefix \o child = Dir(full) \o k
  <2> DEFINE dir == Dir(path)
  <2>1. dir \in String
    BY <1>3
  <2> HIDE DEF dir
  <2>2. dir \o k \in String
    BY <2>1, Concat
  <2>3. \A x, y, z \in String : (x \o y) \o z = x \o (y \o z)
    BY ConcatTwice
  <2>4. prefix \in String /\ k \in String
    BY <1>1
  <2>5. (prefix \o dir) \o k = prefix \o (dir \o k)
    BY <2>1, <2>3, <2>4, Zenon
  <2> QED
    BY <1>1, <2>2, <2>5 DEF dir
<1> HIDE DEF full, child
<1>5. /\ IsPath(prefix \o child)
      /\ TrimSlash(prefix \o child) = Under(TrimSlash(full), TrimSlash(k))
      /\ n.kind = "dc" => ~EndsInSlash(prefix \o child)
  <2>1. CASE k = << >>
    <3>1. prefix \o child = Dir(full) /\ TrimSlash(k) = << >>
      BY <1>2, <1>4, <2>1, Concat DEF TrimSlash, EndsInSlash
    <3> QED
      BY <1>2, <2>1, <3>1 DEF Under
  <2>2. CASE k # << >>
    <3>1. TrimSlash(k) # << >>
      BY <2>2 DEF IsPath
    <3>2. /\ EndsInSlash(prefix \o child) <=> EndsInSlash(k)
          /\ TrimSlash(prefix \o child) = Dir(full) \o TrimSlash(k)
      BY <1>2, <1>4, <2>2, TrimConcat
    <3>3. Dir(full) \o TrimSlash(k) # << >> /\ prefix \o child \in String
      BY <1>1, <1>2, <1>4, <3>1, Concat
    <3> QED
      BY <1>1, <1>2, <3>1, <3>2, <3>3 DEF IsPath
  <2> QED
    BY <2>1, <2>2
<1>6. IsTask(t) /\ RestKeys(t) = DocumentedKeys(<<n, addr>>)
  BY <1>4, <1>5, FreshTask
<1>7. t.path = child
  BY DEF Task
<1> HIDE DEF t
<1>8. TaskKeys(t) = KeysUnder(Under(TrimSlash(full), TrimSlash(k)),
                              DocumentedKeys(<<n, addr>>))
  BY <1>5, <1>6, <1>7 DEF TaskKeys
<1>9. DocumentedKeys(<<n, addr>>) \in SUBSET (Dc \X String)
  <2>1. <<n, addr>> \in Spot
    BY DEF Spot
  <2> QED
    BY <2>1, DocumentedKeysUnfold
<1>10. KeysUnder(TrimSlash(full),
                 KeysUnder(TrimSlash(k), DocumentedKeys(<<n, addr>>))) =
       KeysUnder(Under(TrimSlash(full), TrimSlash(k)),
                 DocumentedKeys(<<n, addr>>))
  BY <1>1, <1>9, KeysUnderPairs
<1> QED
  BY <1>6, <1>8, <1>10 DEF t, child, full

\* A name is one segment as it is.
LEMMA NameTrim ==
  ASSUME NEW s \in String, IsName(s)
  PROVE  /\ s # << >> /\ ~EndsInSlash(s) /\ IsPath(s)
         /\ TrimSlash(s) = s /\ Segment(s) = s
  BY DEF IsName, EndsInSlash, IsPath, TrimSlash, TrimLeadingSlash, Segment

\* One round of a struct's loop: nothing is visited for a field that leads to
\* no key, and what is visited for another leads to its keys.
LEMMA FieldStep ==
  ASSUME PrefixOK,
         NEW path \in String, IsPath(prefix \o path),
         NEW f, IsField(f), NEW addr \in BOOLEAN
  PROVE  \/ FieldTasks(f, Dir(path), addr) = << >> /\ FieldKeys(f, addr) = {}
         \/ \E u : /\ FieldTasks(f, Dir(path), addr) = <<u>>
                   /\ IsTask(u)
                   /\ TaskKeys(u) = KeysUnder(TrimSlash(prefix \o path),
                                              FieldKeys(f, addr))
<1> DEFINE at == addr /\ ~f.any
           own == IF TagKey(f.tag) # << >> THEN TagKey(f.tag)
                  ELSE IF f.node.kind = "dc" THEN f.name ELSE TagPrefix(f.tag)
           full == prefix \o path
<1>1. /\ f.node \in Node /\ f.exported \in BOOLEAN /\ f.any \in BOOLEAN
      /\ at \in BOOLEAN
      /\ IsNode(f.node)
  BY RegistrationAssumption DEF IsField
<1>2. /\ own \in String
      /\ own # << >> => IsName(own)
      /\ f.node.kind = "dc" => own # << >>
  BY EmptySeq DEF IsField, IsName, String
<1>3. /\ IsPath(own)
      /\ Segment(own) = own
      /\ own # << >> => ~EndsInSlash(own)
  <2>1. CASE own = << >>
    BY <1>2, <2>1 DEF IsPath, Segment, TrimSlash, TrimLeadingSlash, EndsInSlash
  <2>2. CASE own # << >>
    BY <1>2, <2>2, NameTrim
  <2> QED
    BY <2>1, <2>2
<1>4. CASE ~f.exported \/ (f.any /\ f.node.kind # "dc")
  <2>1. FieldKeys(f, addr) = {}
    BY <1>4, Zenon DEF FieldKeys, KeysBelow, FieldSpots
  <2>2. FieldTasks(f, Dir(path), addr) = << >>
    BY <1>4, Zenon DEF FieldTasks, IsDcValue
  <2> QED
    BY <2>1, <2>2
<1>5. CASE f.exported /\ ~(f.any /\ f.node.kind # "dc")
  <2>1. FieldSpots(f, addr) = {<<own, <<f.node, at>>>>}
    BY <1>3, <1>5, Zenon DEF FieldSpots
  <2>2. FieldKeys(f, addr) = KeysUnder(own, DocumentedKeys(<<f.node, at>>))
    BY <2>1 DEF FieldKeys, KeysBelow
  <2> HIDE DEF own, at
  <2>3. CASE f.node.kind = "dc" /\ IsDcValue(f.node, at)
    <3> DEFINE u == Task(f.node, Dir(path) \o own, addr)
    <3>1. FieldTasks(f, Dir(path), addr) = <<u>>
      BY <1>5, <2>3, Zenon DEF FieldTasks, own, at
    <3>2. OwnKey(<<f.node, at>>) = {<<f.node.id, << >>>>}
      BY <2>3 DEF OwnKey, IsDcValue
    <3>3. OwnKey(<<f.node, addr>>) = {<<f.node.id, << >>>>}
      BY <2>3 DEF OwnKey, IsDcValue, at
    <3>4. DocumentedKeys(<<f.node, at>>) = DocumentedKeys(<<f.node, addr>>)
      BY <1>1, <2>3, <3>2, <3>3, DocumentedKeysOfNode
    <3>5. own # << >> /\ ~EndsInSlash(own) /\ TrimSlash(own) = own
      BY <1>2, <1>3, <2>3 DEF TrimSlash
    <3>6. IsTask(u) /\ TaskKeys(u) =
              KeysUnder(TrimSlash(full),
                        KeysUnder(own, DocumentedKeys(<<f.node, addr>>)))
      BY <1>1, <1>2, <1>3, <3>5, ChildTask
    <3> HIDE DEF u
    <3> QED
      BY <2>2, <3>1, <3>4, <3>6
  <2>4. CASE \/ f.node.kind = "nil"
             \/ f.node.kind = "dc" /\ ~IsDcValue(f.node, at)
    <3>1. FieldTasks(f, Dir(path), addr) = << >>
      BY <1>5, <2>4, Zenon DEF FieldTasks, IsDcValue, at
    <3>2. OwnKey(<<f.node, at>>) = {}
      BY <2>4 DEF OwnKey, IsDcValue
    <3>3. DocumentedKeys(<<f.node, at>>) = {}
      BY <1>1, <2>4, <3>2, DocumentedKeysOfNode
    <3> QED
      BY <2>2, <3>1, <3>3 DEF KeysUnder
  <2>5. CASE f.node.kind \in {"struct", "map"}
    <3> DEFINE k == IF own = << >> THEN << >> ELSE Append(own, Slash)
               u == Task(f.node, Dir(path) \o k, addr)
    <3>1. Dir(path) \in String
      BY Trim, AppendLast, RegistrationAssumption DEF Dir
    <3>2. NestedPrefix(Dir(path), f.tag) = Dir(path) \o k
      <4>1. own = IF TagKey(f.tag) # << >> THEN TagKey(f.tag)
                  ELSE TagPrefix(f.tag)
        BY <2>5 DEF own
      <4>2. NestedPrefix(Dir(path), f.tag) =
                IF own = << >> THEN Dir(path)
                ELSE Append(Dir(path) \o own, Slash)
        BY <4>1, Zenon DEF NestedPrefix
      <4> QED
        BY <1>2, <3>1, <4>2, Concat, ConcatAppend, RegistrationAssumption
    <3>3. FieldTasks(f, Dir(path), addr) = <<u>>
      <4>1. ~IsDcValue(f.node, addr /\ ~f.any)
        BY <2>5 DEF IsDcValue
      <4>2. FieldTasks(f, Dir(path), addr) =
                <<Task(f.node, NestedPrefix(Dir(path), f.tag), addr)>>
        BY <1>5, <2>5, <4>1, Zenon DEF FieldTasks
      <4> QED
        BY <3>2, <4>2
    <3>4. k \in String /\ IsPath(k) /\ TrimSlash(k) = own
      <4>1. CASE own = << >>
        BY <1>2, <4>1 DEF IsPath, TrimSlash, EndsInSlash
      <4>2. CASE own # << >>
        BY <1>2, <4>2, Trim, AppendLast, RegistrationAssumption DEF IsPath
      <4> QED
        BY <4>1, <4>2
    <3>5. at = addr
      BY <1>1, <1>5, <2>5 DEF at
    <3> HIDE DEF k
    <3>6. IsTask(u) /\ TaskKeys(u) =
              KeysUnder(TrimSlash(full),
                        KeysUnder(own, DocumentedKeys(<<f.node, addr>>)))
      BY <1>1, <2>5, <3>4, ChildTask
    <3> HIDE DEF u
    <3> QED
      BY <2>2, <3>3, <3>5, <3>6
  <2> QED
    BY <1>1, <2>3, <2>4, <2>5 DEF IsNode
<1> QED
  BY <1>1, <1>4, <1>5

\* One round of a map's loop.
LEMMA EntryStep ==
  ASSUME PrefixOK,
         NEW path \in String, IsPath(prefix \o path),
         NEW e, IsMapEntry(e)
  PROVE  /\ IsTask(Task(e[2], MapChildPrefix(path, e[1]), FALSE))
         /\ TaskKeys(Task(e[2], MapChildPrefix(path, e[1]), FALSE)) =
                KeysUnder(TrimSlash(prefix \o path), EntryKeys(e))
<1> DEFINE k == TrimLeadingSlash(e[1])
<1>1. /\ e[1] \in String /\ k \in String /\ e[2] \in Node
      /\ Segment(e[1]) = TrimSlash(k)
      /\ TrimSlash(k) # << >>
      /\ k # << >>
      /\ IsPath(k)
  BY Trim DEF IsMapEntry, Segment, IsName, IsPath, TrimSlash, EndsInSlash
<1>2. MapChildPrefix(path, e[1]) = Dir(path) \o k
  <2>1. path # << >> => Dir(path) = Append(TrimSlash(path), Slash)
    BY DEF Dir
  <2>2. EndsInSlash(path) => Dir(path) = path
    BY <2>1, Trim DEF EndsInSlash
  <2>3. path # << >> /\ ~EndsInSlash(path) => Dir(path) = Append(path, Slash)
    BY <2>1, Trim
  <2>4. path = << >> => Dir(path) = path
    BY DEF Dir
  <2> QED
    BY <2>2, <2>3, <2>4, Zenon DEF MapChildPrefix
<1>3. e[2].kind = "dc" => ~EndsInSlash(k)
  <2> SUFFICES ASSUME e[2].kind = "dc", EndsInSlash(k) PROVE FALSE
    OBVIOUS
  <2>1. ~EndsInSlash(e[1])
    BY DEF IsMapEntry
  <2>2. PICK c \in String : e[1] = c \o k
    <3>1. CASE k = e[1]
      BY <3>1, <1>1, Concat, EmptySeq DEF String
    <3>2. CASE k # e[1]
      <4>1. e[1] # << >> /\ k = Tail(e[1])
        BY <3>2 DEF TrimLeadingSlash
      <4>2. <<Head(e[1])>> \in String
        BY <1>1, <4>1 DEF String
      <4>3. e[1] = <<Head(e[1])>> \o Tail(e[1])
        BY <1>1, <4>1 DEF String
      <4> QED
        BY <4>1, <4>2, <4>3
    <3> QED
      BY <3>1, <3>2
  <2> HIDE DEF k
  <2>3. EndsInSlash(c \o k)
    BY <1>1, TrimConcat
  <2> QED
    BY <2>1, <2>2, <2>3
<1>4. EntryKeys(e) = KeysUnder(TrimSlash(k), DocumentedKeys(<<e[2], FALSE>>))
  <2>1. EntrySpots(e) = {<<TrimSlash(k), <<e[2], FALSE>>>>}
    BY <1>1 DEF EntrySpots
  <2> QED
    BY <2>1, KeysBelowOne DEF EntryKeys
<1> HIDE DEF k
<1> QED
  BY <1>1, <1>2, <1>3, <1>4, ChildTask

-----------------------------------------------------------------------------
(* The stack: the tasks on it lead to different DcValues, and a task comes *)
(* before those that later fields of the configuration have led to.        *)

InOrder(x, y) ==
    /\ x[1] # y[1]
    /\ config.kind = "struct" =>
          \A m, n \in DOMAIN config.fields :
              x \in KeysOfField(m) /\ y \in KeysOfField(n) => m <= n

\* The loop over the fields of the configuration itself.
Cursor(t) ==
    /\ t.node = config
    /\ t.path = << >>
    /\ t.addr = FALSE
    /\ \E m \in 1 .. Len(config.fields) + 1 :
          t.rest = SubSeq(config.fields, m, Len(config.fields))

InOneField(t) ==
    config.kind = "struct" =>
        \/ Cursor(t)
        \/ \E m \in DOMAIN config.fields : TaskKeys(t) \subseteq KeysOfField(m)

TaskInv(t) == IsTask(t) /\ InOneField(t)

StackKeys(q) == UNION {TaskKeys(q[i]) : i \in DOMAIN q}

StackInv(q) ==
    /\ IsStack(q)
    /\ \A i \in DOMAIN q : TaskInv(q[i])
    /\ \A i, j \in DOMAIN q : i < j =>
          \A x \in TaskKeys(q[i]), y \in TaskKeys(q[j]) : InOrder(x, y)

\* A stack is what is on top of it and what is below that.
LEMMA ConsStack ==
  ASSUME NEW u, NEW q, IsStack(q)
  PROVE  /\ IsStack(<<u>> \o q)
         /\ Len(q) \in Nat
         /\ DOMAIN q = 1 .. Len(q)
         /\ DOMAIN (<<u>> \o q) = 1 .. Len(q) + 1
         /\ (<<u>> \o q)[1] = u
         /\ \A i \in DOMAIN q : (<<u>> \o q)[i + 1] = q[i]
<1>1. PICK S : q \in Seq(S)
  BY DEF IsStack
<1> DEFINE T == S \cup {u}
           r == <<u>> \o q
<1>2. q \in Seq(T) /\ <<u>> \in Seq(T) /\ Len(<<u>>) = 1
  BY <1>1, SeqMonotonic
<1>3. /\ r \in Seq(T)
      /\ Len(r) = 1 + Len(q)
      /\ \A i \in 1 .. 1 + Len(q) : r[i] = IF i <= 1 THEN <<u>>[i] ELSE q[i - 1]
  BY <1>2, ConcatProperties
<1>4. Len(q) \in Nat /\ DOMAIN q = 1 .. Len(q) /\ DOMAIN r = 1 .. Len(q) + 1
  BY <1>2, <1>3, LenProperties
<1>5. IsStack(r)
  BY <1>3, Zenon DEF IsStack
<1> HIDE DEF r
<1>6. r[1] = u
  BY <1>3, <1>4
<1>7. ASSUME NEW i \in DOMAIN q PROVE r[i + 1] = q[i]
  BY <1>3, <1>4
<1> QED
  BY <1>4, <1>5, <1>6, <1>7 DEF r

LEMMA HeadOfStack ==
  ASSUME NEW q, IsStack(q), q # << >>
  PROVE  IsStack(Tail(q)) /\ q = <<Head(q)>> \o Tail(q)
<1>1. PICK S : q \in Seq(S)
  BY DEF IsStack
<1>2. Tail(q) \in Seq(S)
  BY <1>1, HeadTailProperties
<1>3. IsStack(Tail(q))
  BY <1>2, Zenon DEF IsStack
<1>4. q = <<Head(q)>> \o Tail(q)
  BY <1>1
<1> QED
  BY <1>3, <1>4

\* One task more.
LEMMA Push ==
  ASSUME NEW u, NEW q, IsStack(q)
  PROVE  /\ StackKeys(<<u>> \o q) = TaskKeys(u) \cup StackKeys(q)
         /\ StackInv(<<u>> \o q) <=>
                /\ TaskInv(u)
                /\ StackInv(q)
                /\ \A x \in TaskKeys(u), y \in StackKeys(q) : InOrder(x, y)
<1> DEFINE r == <<u>> \o q
           n == Len(q)
<1>1. /\ IsStack(r) /\ n \in Nat
      /\ DOMAIN q = 1 .. n /\ DOMAIN r = 1 .. n + 1
      /\ r[1] = u
      /\ \A i \in 1 .. n : r[i + 1] = q[i]
  BY ConsStack
<1> HIDE DEF r, n
<1>2. \A i \in 1 .. n + 1 : i = 1 \/ \E j \in 1 .. n : i = j + 1
  <2> SUFFICES ASSUME NEW i \in 1 .. n + 1, i # 1
               PROVE  \E j \in 1 .. n : i = j + 1
    OBVIOUS
  <2>1. i - 1 \in 1 .. n /\ i = (i - 1) + 1
    BY <1>1
  <2> QED
    BY <2>1
<1>3. 1 \in 1 .. n + 1 /\ \A j \in 1 .. n : j + 1 \in 1 .. n + 1
  BY <1>1
<1>4. StackKeys(r) = TaskKeys(u) \cup StackKeys(q)
  <2>1. \A x : x \in StackKeys(r) <=> \E i \in 1 .. n + 1 : x \in TaskKeys(r[i])
    BY <1>1 DEF StackKeys
  <2>2. \A x : x \in StackKeys(q) <=> \E i \in 1 .. n : x \in TaskKeys(q[i])
    BY <1>1 DEF StackKeys
  <2>3. ASSUME NEW x
        PROVE  x \in StackKeys(r) <=> x \in TaskKeys(u) \/ x \in StackKeys(q)
    <3>1. ASSUME x \in StackKeys(r)
          PROVE  x \in TaskKeys(u) \/ x \in StackKeys(q)
      <4>1. PICK i \in 1 .. n + 1 : x \in TaskKeys(r[i])
        BY <2>1, <3>1
      <4>2. CASE i = 1
        BY <1>1, <4>1, <4>2
      <4>3. CASE i # 1
        <5>1. PICK j \in 1 .. n : i = j + 1
          BY <1>2, <4>3
        <5>2. x \in TaskKeys(q[j])
          BY <1>1, <4>1, <5>1
        <5> QED
          BY <2>2, <5>2
      <4> QED
        BY <4>2, <4>3
    <3>2. ASSUME x \in TaskKeys(u) PROVE x \in StackKeys(r)
      BY <1>1, <1>3, <2>1, <3>2
    <3>3. ASSUME x \in StackKeys(q) PROVE x \in StackKeys(r)
      <4>1. PICK j \in 1 .. n : x \in TaskKeys(q[j])
        BY <2>2, <3>3
      <4>2. x \in TaskKeys(r[j + 1]) /\ j + 1 \in 1 .. n + 1
        BY <1>1, <1>3, <4>1
      <4> QED
        BY <2>1, <4>2
    <3> QED
      BY <3>1, <3>2, <3>3
  <2> QED
    BY <2>3
<1>5. ASSUME StackInv(r)
      PROVE  /\ TaskInv(u)
             /\ StackInv(q)
             /\ \A x \in TaskKeys(u), y \in StackKeys(q) : InOrder(x, y)
  <2>1. \A i \in 1 .. n + 1 : TaskInv(r[i])
    BY <1>1, <1>5 DEF StackInv
  <2>2. \A i, j \in 1 .. n + 1 : i < j =>
          \A x \in TaskKeys(r[i]), y \in TaskKeys(r[j]) : InOrder(x, y)
    BY <1>1, <1>5 DEF StackInv
  <2>3. TaskInv(u) /\ \A i \in 1 .. n : TaskInv(q[i])
    <3>1. TaskInv(u)
      BY <1>1, <1>3, <2>1
    <3>2. ASSUME NEW i \in 1 .. n PROVE TaskInv(q[i])
      <4>1. TaskInv(r[i + 1])
        BY <1>3, <2>1
      <4> QED
        BY <1>1, <4>1
    <3> QED
      BY <3>1, <3>2
  <2>4. ASSUME NEW i \in 1 .. n, NEW j \in 1 .. n, i < j,
               NEW x \in TaskKeys(q[i]), NEW y \in TaskKeys(q[j])
        PROVE  InOrder(x, y)
    <3>1. i + 1 \in 1 .. n + 1 /\ j + 1 \in 1 .. n + 1 /\ i + 1 < j + 1
      BY <1>3, <2>4
    <3>2. x \in TaskKeys(r[i + 1]) /\ y \in TaskKeys(r[j + 1])
      BY <1>1
    <3> QED
      BY <2>2, <3>1, <3>2
  <2>5. ASSUME NEW x \in TaskKeys(u), NEW y \in StackKeys(q)
        PROVE  InOrder(x, y)
    <3>1. PICK j \in 1 .. n : y \in TaskKeys(q[j])
      BY <1>1 DEF StackKeys
    <3>2. 1 < j + 1 /\ j + 1 \in 1 .. n + 1 /\ 1 \in 1 .. n + 1
      BY <1>3
    <3>3. y \in TaskKeys(r[j + 1]) /\ x \in TaskKeys(r[1])
      BY <1>1, <3>1
    <3> QED
      BY <2>2, <3>2, <3>3
  <2> QED
    BY <1>1, <2>3, <2>4, <2>5 DEF StackInv
<1>6. ASSUME TaskInv(u), StackInv(q),
             \A x \in TaskKeys(u), y \in StackKeys(q) : InOrder(x, y)
      PROVE  StackInv(r)
  <2>1. \A i \in 1 .. n : TaskInv(q[i])
    BY <1>1, <1>6 DEF StackInv
  <2>2. \A i, j \in 1 .. n : i < j =>
          \A x \in TaskKeys(q[i]), y \in TaskKeys(q[j]) : InOrder(x, y)
    BY <1>1, <1>6 DEF StackInv
  <2>3. ASSUME NEW i \in 1 .. n + 1 PROVE TaskInv(r[i])
    <3>1. CASE i = 1
      BY <1>1, <1>6, <3>1
    <3>2. CASE i # 1
      BY <1>1, <1>2, <2>1, <3>2
    <3> QED
      BY <3>1, <3>2
  <2>4. ASSUME NEW i \in 1 .. n + 1, NEW j \in 1 .. n + 1, i < j,
               NEW x \in TaskKeys(r[i]), NEW y \in TaskKeys(r[j])
        PROVE  InOrder(x, y)
    <3>1. j # 1
      BY <2>4
    <3>2. PICK jj \in 1 .. n : j = jj + 1
      BY <1>2, <3>1
    <3>3. y \in TaskKeys(q[jj])
      BY <1>1, <2>4, <3>2
    <3>4. CASE i = 1
      <4>1. x \in TaskKeys(u)
        BY <1>1, <2>4, <3>4
      <4>2. y \in StackKeys(q)
        BY <1>1, <3>3 DEF StackKeys
      <4> QED
        BY <1>6, <4>1, <4>2
    <3>5. CASE i # 1
      <4>1. PICK ii \in 1 .. n : i = ii + 1
        BY <1>2, <3>5
      <4>2. x \in TaskKeys(q[ii]) /\ ii < jj
        BY <1>1, <2>4, <3>2, <4>1
      <4> QED
        BY <2>2, <3>3, <4>2
    <3> QED
      BY <3>4, <3>5
  <2> QED
    BY <1>1, <2>3, <2>4 DEF StackInv
<1> QED
  BY <1>4, <1>5, <1>6 DEF r

\* Nothing has been taken off a task.
LEMMA SameTask ==
  ASSUME NEW t, NEW rest, NEW q, IsStack(q), StackInv(<<t>> \o q),
         TaskInv(rest), TaskKeys(t) = TaskKeys(rest)
  PROVE  /\ StackInv(<<rest>> \o q)
         /\ StackKeys(<<rest>> \o q) = StackKeys(<<t>> \o q)
  BY Push

-----------------------------------------------------------------------------
(* One round of a loop splits the task it belongs to.                      *)

\* KeysUnder takes keys one by one and keeps their DcValues.
LEMMA KeysUnderSets ==
  ASSUME NEW a, NEW A, NEW B
  PROVE  /\ KeysUnder(a, A \cup B) = KeysUnder(a, A) \cup KeysUnder(a, B)
         /\ KeysUnder(a, {}) = {}
         /\ A \subseteq B => KeysUnder(a, A) \subseteq KeysUnder(a, B)
         /\ \A x \in KeysUnder(a, A) : \E e \in A : x[1] = e[1]
  BY DEF KeysUnder

\* A DcValue belongs to one field of the configuration.
LEMMA FieldsApart ==
  ASSUME config \in Config, config.kind = "struct",
         NEW m \in DOMAIN config.fields, NEW n \in DOMAIN config.fields,
         NEW x \in KeysOfField(m), NEW y \in KeysOfField(n), x[1] = y[1]
  PROVE  m = n
<1>1. config \in Node /\ IsNode(config)
  BY RegistrationAssumption
<1>2. config.ptr \in BOOLEAN
  BY <1>1 DEF IsNode
<1>3. /\ \E d \in FieldKeys(config.fields[m], config.ptr) : x[1] = d[1]
      /\ \E e \in FieldKeys(config.fields[n], config.ptr) : y[1] = e[1]
  BY KeysUnderSets DEF KeysOfField
<1>4. m # n => Apart(FieldKeys(config.fields[m], config.ptr),
                     FieldKeys(config.fields[n], config.ptr))
  BY <1>1, <1>2, DistinctAssumption
<1> QED
  BY <1>3, <1>4 DEF Apart, Dcs

\* What comes before and what comes after within one field is in order.
LEMMA OneFieldInOrder ==
  ASSUME config \in Config, config.kind = "struct",
         NEW m \in DOMAIN config.fields, NEW n \in DOMAIN config.fields,
         m <= n,
         NEW x \in KeysOfField(m), NEW y \in KeysOfField(n), x[1] # y[1]
  PROVE  InOrder(x, y)
<1> SUFFICES ASSUME NEW i \in DOMAIN config.fields,
                    NEW j \in DOMAIN config.fields,
                    x \in KeysOfField(i), y \in KeysOfField(j)
             PROVE  i <= j
  BY DEF InOrder
<1>1. i = m /\ j = n
  BY FieldsApart
<1> QED
  BY <1>1

\* What the task leads to in its next round, what is split off it.
NextKeys(t) == KeysUnder(TrimSlash(prefix \o t.path),
                         FieldKeys(Head(t.rest), Addressable(t)))
KeysAt(t, e) == KeysUnder(TrimSlash(prefix \o t.path), EntryKeys(e))

\* Keys, and the task that leads to the rest of t's.
Splits(t, keys, rest) ==
    /\ TaskInv(rest)
    /\ TaskKeys(t) = keys \cup TaskKeys(rest)
    /\ \A x \in keys, y \in TaskKeys(rest) : InOrder(x, y)
    /\ config.kind = "struct" =>
          \E m \in DOMAIN config.fields : keys \subseteq KeysOfField(m)

\* The next field is split off, and the later ones come after it.
LEMMA StructRound ==
  ASSUME PrefixOK, config \in Config,
         NEW t, TaskInv(t), t.node.kind = "struct", t.rest # << >>
  PROVE  /\ IsField(Head(t.rest))
         /\ Splits(t, NextKeys(t), [t EXCEPT !.rest = Tail(@)])
<1> DEFINE rest == [t EXCEPT !.rest = Tail(@)]
           keys == NextKeys(t)
           f == Head(t.rest)
           addr == Addressable(t)
           tail == Tail(t.rest)
           P == TrimSlash(prefix \o t.path)
<1>1. PICK S : t.rest \in Seq(S)
  BY DEF TaskInv, IsTask, IsStack
<1> DEFINE n == Len(t.rest)
<1>2. /\ n \in Nat /\ n > 0 /\ DOMAIN t.rest = 1 .. n
      /\ f = t.rest[1]
      /\ tail \in Seq(S)
      /\ DOMAIN tail = 1 .. n - 1
      /\ \A i \in 1 .. n - 1 : tail[i] = t.rest[i + 1]
  BY <1>1, HeadTailProperties, LenProperties
<1>3. /\ rest.node = t.node /\ rest.path = t.path /\ rest.addr = t.addr
      /\ rest.rest = tail
      /\ rest = [node |-> rest.node, path |-> rest.path, addr |-> rest.addr,
                 rest |-> rest.rest]
  <2>1. t = [node |-> t.node, path |-> t.path, addr |-> t.addr,
             rest |-> t.rest]
    BY DEF TaskInv, IsTask
  <2>2. rest = [node |-> t.node, path |-> t.path, addr |-> t.addr,
                rest |-> tail]
    BY <2>1
  <2> HIDE DEF rest, tail
  <2> QED
    BY <2>2
<1>4. /\ \A i \in 1 .. n : IsField(t.rest[i])
      /\ \A i, j \in 1 .. n : i # j =>
            Apart(FieldKeys(t.rest[i], addr), FieldKeys(t.rest[j], addr))
  BY <1>2 DEF TaskInv, IsTask
<1> HIDE DEF f, addr, P, n, tail, rest, keys
<1>5. 1 \in 1 .. n /\ \A i \in 1 .. n - 1 : i + 1 \in 1 .. n
  BY <1>2
<1>6. Addressable(rest) = addr
  BY <1>3, Zenon DEF Addressable, addr
<1>7. IsTask(rest)
  <2>1. IsStack(tail)
    BY <1>2, Zenon DEF IsStack
  <2>2. ASSUME NEW i \in 1 .. n - 1 PROVE IsField(tail[i])
    BY <1>2, <1>4, <1>5
  <2>3. ASSUME NEW i \in 1 .. n - 1, NEW j \in 1 .. n - 1, i # j
        PROVE  Apart(FieldKeys(tail[i], addr),
                     FieldKeys(tail[j], addr))
    <3>1. i + 1 # j + 1
      BY <1>2, <2>3
    <3> QED
      BY <1>2, <1>4, <1>5, <3>1
  <2>4. t.node.kind # "map" /\ t.node.kind # "dc"
    OBVIOUS
  <2> QED
    BY <1>2, <1>3, <1>6, <2>1, <2>2, <2>3, <2>4 DEF TaskInv, IsTask
<1>8. RestKeys(t) = UNION {FieldKeys(t.rest[i], addr) : i \in 1 .. n}
  BY <1>2, Zenon DEF RestKeys, addr
<1>9. RestKeys(rest) = UNION {FieldKeys(t.rest[i + 1], addr) : i \in 1 .. n - 1}
  <2>1. RestKeys(rest) = UNION {FieldKeys(tail[i], addr) : i \in DOMAIN tail}
    BY <1>3, <1>6 DEF RestKeys
  <2> QED
    BY <1>2, <2>1
<1>10. RestKeys(t) = FieldKeys(f, addr) \cup RestKeys(rest)
  <2>1. \A i \in 1 .. n : i = 1 \/ \E j \in 1 .. n - 1 : i = j + 1
    <3> SUFFICES ASSUME NEW i \in 1 .. n, i # 1
                 PROVE  \E j \in 1 .. n - 1 : i = j + 1
      OBVIOUS
    <3>1. i - 1 \in 1 .. n - 1 /\ i = (i - 1) + 1
      BY <1>2
    <3> QED
      BY <3>1
  <2>2. ASSUME NEW x \in RestKeys(t)
        PROVE  x \in FieldKeys(f, addr) \cup RestKeys(rest)
    <3>1. PICK i \in 1 .. n : x \in FieldKeys(t.rest[i], addr)
      BY <1>8
    <3> QED
      BY <1>2, <1>9, <2>1, <3>1
  <2>3. FieldKeys(f, addr) \subseteq RestKeys(t)
    BY <1>2, <1>5, <1>8
  <2>4. RestKeys(rest) \subseteq RestKeys(t)
    BY <1>5, <1>8, <1>9
  <2> QED
    BY <2>2, <2>3, <2>4
<1>11. /\ keys = KeysUnder(P, FieldKeys(f, addr))
       /\ TaskKeys(t) = KeysUnder(P, RestKeys(t))
       /\ TaskKeys(rest) = KeysUnder(P, RestKeys(rest))
  BY <1>3, Zenon DEF TaskKeys, NextKeys, keys, P, f, addr
<1>12. TaskKeys(t) = keys \cup TaskKeys(rest)
  BY <1>10, <1>11, KeysUnderSets
<1>13. ASSUME NEW x \in keys, NEW y \in TaskKeys(rest) PROVE x[1] # y[1]
  <2>1. PICK d \in FieldKeys(f, addr) : x[1] = d[1]
    BY <1>11, KeysUnderSets
  <2>2. PICK e \in RestKeys(rest) : y[1] = e[1]
    BY <1>11, KeysUnderSets
  <2>3. PICK i \in 1 .. n - 1 : e \in FieldKeys(t.rest[i + 1], addr)
    BY <1>9
  <2>4. i + 1 # 1 /\ i + 1 \in 1 .. n /\ 1 \in 1 .. n
    BY <1>2
  <2>5. Apart(FieldKeys(f, addr), FieldKeys(t.rest[i + 1], addr))
    BY <1>2, <1>4, <2>4
  <2> QED
    BY <2>1, <2>2, <2>3, <2>5 DEF Apart, Dcs
<1>14. ASSUME config.kind = "struct"
       PROVE  /\ InOneField(rest)
              /\ \E m \in DOMAIN config.fields : keys \subseteq KeysOfField(m)
              /\ \A x \in keys, y \in TaskKeys(rest) : InOrder(x, y)
  <2>1. CASE \E m \in DOMAIN config.fields :
                TaskKeys(t) \subseteq KeysOfField(m)
    <3>1. PICK m \in DOMAIN config.fields : TaskKeys(t) \subseteq KeysOfField(m)
      BY <2>1
    <3>2. /\ keys \subseteq KeysOfField(m)
          /\ TaskKeys(rest) \subseteq KeysOfField(m)
      BY <1>12, <3>1
    <3>3. m <= m
      <4>1. IsNode(config)
        BY RegistrationAssumption
      <4>2. PICK Q : config.fields \in Seq(Q)
        BY <1>14, <4>1 DEF IsNode
      <4>3. DOMAIN config.fields = 1 .. Len(config.fields)
            /\ Len(config.fields) \in Nat
        BY <4>2, LenProperties
      <4> QED
        BY <4>3
    <3>4. \A x \in keys, y \in TaskKeys(rest) : InOrder(x, y)
      BY <1>13, <1>14, <3>2, <3>3, OneFieldInOrder
    <3> QED
      BY <3>2, <3>4 DEF InOneField
  <2>2. CASE Cursor(t)
    <3> DEFINE fields == config.fields
               N == Len(config.fields)
    <3>1. PICK m \in 1 .. N + 1 : t.rest = SubSeq(fields, m, N)
      BY <2>2 DEF Cursor
    <3>2. config \in Node /\ IsNode(config)
      BY RegistrationAssumption
    <3>3. PICK Q : fields \in Seq(Q)
      BY <1>14, <3>2 DEF IsNode
    <3>4. N \in Nat /\ DOMAIN fields = 1 .. N
      BY <3>3, LenProperties
    <3> HIDE DEF fields, N
    <3>5. m \in 1 .. N
      <4>1. m = N + 1 => t.rest = << >>
        BY <3>1, <3>4, SubSeqEmpty
      <4> QED
        BY <3>1, <3>4, <4>1
    <3>6. Head(t.rest) = fields[m] /\ tail = SubSeq(fields, m + 1, N)
      <4>1. m \in 1 .. Len(fields) /\ N \in m .. Len(fields)
        BY <3>4, <3>5 DEF N, fields
      <4>2. /\ Head(SubSeq(fields, m, N)) = fields[m]
            /\ Tail(SubSeq(fields, m, N)) = SubSeq(fields, m + 1, N)
        BY <3>3, <4>1, HeadTailOfSubSeq, Zenon
      <4> QED
        BY <3>1, <4>2 DEF tail
    <3>7. m + 1 \in 1 .. N + 1
      BY <3>4, <3>5
    <3>8. Cursor(rest)
      BY <1>3, <2>2, <3>6, <3>7 DEF Cursor, fields, N
    <3>9. addr = config.ptr /\ P = TrimSlash(prefix)
      <4>1. config.ptr \in BOOLEAN /\ t.addr = FALSE /\ t.node = config
        BY <1>14, <2>2, <3>2 DEF IsNode, Cursor
      <4>2. prefix \o t.path = prefix
        BY <2>2, Concat, EmptySeq DEF Cursor, PrefixOK, String
      <4> QED
        BY <4>1, <4>2 DEF addr, Addressable, P
    <3>10. keys = KeysOfField(m)
      BY <1>11, <3>6, <3>9 DEF KeysOfField, f, fields
    <3>11. ASSUME NEW y \in TaskKeys(rest)
           PROVE  \E j \in DOMAIN fields : m <= j /\ y \in KeysOfField(j)
      <4>1. PICK i \in 1 .. n - 1 :
                y \in KeysUnder(P, FieldKeys(tail[i], addr))
        <5>1. PICK e \in RestKeys(rest) : y = <<e[1], Under(P, e[2])>>
          BY <1>11 DEF KeysUnder
        <5>2. PICK i \in 1 .. n - 1 : e \in FieldKeys(t.rest[i + 1], addr)
          BY <1>9
        <5> QED
          BY <1>2, <5>1, <5>2 DEF KeysUnder
      <4>2. Len(tail) = n - 1 /\ n - 1 = N - m
        <5>1. \A j \in m .. N : fields[j] \in Q
          BY <3>3, <3>4, <3>5, ElementOfSeq DEF N, fields
        <5>2. Len(SubSeq(fields, m, N)) = N - m + 1
          BY <3>4, <3>5, <5>1, SubSeqProperties, Z3
        <5> QED
          BY <1>1, <1>2, <3>1, <3>4, <3>5, <5>2, HeadTailProperties DEF n, tail
      <4>3. i + m \in 1 .. N /\ m <= i + m
        BY <1>2, <3>4, <3>5, <4>2
      <4>4. tail[i] = fields[i + m]
        <5>1. \A j \in m + 1 .. N : fields[j] \in Q
          BY <3>3, <3>4, <3>5, ElementOfSeq DEF N, fields
        <5>2. \A j \in 1 .. N - (m + 1) + 1 :
                  SubSeq(fields, m + 1, N)[j] = fields[(m + 1) + j - 1]
          BY <3>4, <3>5, <5>1, SubSeqProperties, Z3
        <5>3. i \in 1 .. N - (m + 1) + 1 /\ (m + 1) + i - 1 = i + m
          BY <3>4, <3>5, <4>2
        <5> QED
          BY <3>6, <5>2, <5>3
      <4>5. y \in KeysOfField(i + m)
        BY <3>9, <4>1, <4>4 DEF KeysOfField, fields
      <4> QED
        BY <3>4, <4>3, <4>5
    <3>12. m \in DOMAIN fields
      BY <3>4, <3>5
    <3>13. \A x \in keys, y \in TaskKeys(rest) : InOrder(x, y)
      BY <1>13, <1>14, <3>10, <3>11, <3>12, OneFieldInOrder DEF fields
    <3> QED
      BY <3>8, <3>10, <3>12, <3>13 DEF InOneField, fields
  <2> QED
    BY <1>14, <2>1, <2>2 DEF TaskInv, InOneField
<1>15. IsField(Head(t.rest))
  BY <1>2, <1>4, <1>5 DEF f
<1>16. config.kind # "struct" =>
           /\ InOneField(rest)
           /\ \A x \in keys, y \in TaskKeys(rest) : InOrder(x, y)
  BY <1>13 DEF InOneField, InOrder
<1> QED
  BY <1>7, <1>12, <1>14, <1>15, <1>16 DEF TaskInv, Splits, rest, keys

\* Any entry can be split off.
LEMMA MapRound ==
  ASSUME PrefixOK, config \in Config,
         NEW t, TaskInv(t), t.node.kind = "map", NEW e \in t.rest
  PROVE  /\ IsMapEntry(e)
         /\ Splits(t, KeysAt(t, e), [t EXCEPT !.rest = @ \ {e}])
<1> DEFINE rest == [t EXCEPT !.rest = @ \ {e}]
           keys == KeysAt(t, e)
           P == TrimSlash(prefix \o t.path)
<1>1. /\ rest.node = t.node /\ rest.path = t.path /\ rest.addr = t.addr
      /\ rest.rest = t.rest \ {e}
      /\ rest = [node |-> rest.node, path |-> rest.path, addr |-> rest.addr,
                 rest |-> rest.rest]
  <2>1. t = [node |-> t.node, path |-> t.path, addr |-> t.addr,
             rest |-> t.rest]
    BY DEF TaskInv, IsTask
  <2>2. rest = [node |-> t.node, path |-> t.path, addr |-> t.addr,
                rest |-> t.rest \ {e}]
    BY <2>1
  <2> HIDE DEF rest
  <2> QED
    BY <2>2
<1> HIDE DEF rest, keys
<1>2. /\ \A d \in t.rest : IsMapEntry(d)
      /\ \A c, d \in t.rest : c # d => Apart(EntryKeys(c), EntryKeys(d))
  BY DEF TaskInv, IsTask
<1>3. IsTask(rest)
  BY <1>1, <1>2, Zenon DEF TaskInv, IsTask
<1>4. RestKeys(t) = UNION {EntryKeys(d) : d \in t.rest}
  BY DEF RestKeys
<1>5. RestKeys(rest) = UNION {EntryKeys(d) : d \in t.rest \ {e}}
  BY <1>1 DEF RestKeys
<1>6. RestKeys(t) = EntryKeys(e) \cup RestKeys(rest)
  BY <1>4, <1>5
<1>7. TaskKeys(t) = KeysUnder(P, RestKeys(t))
      /\ TaskKeys(rest) = KeysUnder(P, RestKeys(rest))
  BY <1>1 DEF TaskKeys
<1> HIDE DEF P
<1>8. keys = KeysUnder(P, EntryKeys(e))
  BY DEF P, keys, KeysAt
<1>9. TaskKeys(t) = keys \cup TaskKeys(rest)
  <2>1. KeysUnder(P, EntryKeys(e) \cup RestKeys(rest)) =
            KeysUnder(P, EntryKeys(e)) \cup KeysUnder(P, RestKeys(rest))
    BY KeysUnderSets
  <2> QED
    BY <1>6, <1>7, <1>8, <2>1
<1>10. ASSUME NEW x \in keys, NEW y \in TaskKeys(rest) PROVE x[1] # y[1]
  <2>1. PICK c \in EntryKeys(e) : x[1] = c[1]
    BY <1>8, KeysUnderSets
  <2>2. PICK b \in RestKeys(rest) : y[1] = b[1]
    BY <1>7, KeysUnderSets
  <2>3. PICK d \in t.rest \ {e} : b \in EntryKeys(d)
    BY <1>5
  <2>4. Apart(EntryKeys(e), EntryKeys(d))
    BY <1>2
  <2> QED
    BY <2>1, <2>2, <2>3, <2>4 DEF Apart, Dcs
<1>11. ASSUME config.kind = "struct"
       PROVE  /\ InOneField(rest)
              /\ \E m \in DOMAIN config.fields : keys \subseteq KeysOfField(m)
              /\ \A x \in keys, y \in TaskKeys(rest) : InOrder(x, y)
  <2>1. ~Cursor(t)
    BY <1>11 DEF Cursor
  <2>2. PICK m \in DOMAIN config.fields : TaskKeys(t) \subseteq KeysOfField(m)
    BY <1>11, <2>1 DEF TaskInv, InOneField
  <2>3. keys \subseteq KeysOfField(m) /\ TaskKeys(rest) \subseteq KeysOfField(m)
    BY <1>9, <2>2
  <2>4. m <= m
    <3>1. IsNode(config)
      BY RegistrationAssumption
    <3>2. PICK Q : config.fields \in Seq(Q)
      BY <1>11, <3>1 DEF IsNode
    <3>3. DOMAIN config.fields = 1 .. Len(config.fields)
          /\ Len(config.fields) \in Nat
      BY <3>2, LenProperties
    <3> QED
      BY <3>3
  <2>5. \A x \in keys, y \in TaskKeys(rest) : InOrder(x, y)
    BY <1>10, <1>11, <2>3, <2>4, OneFieldInOrder
  <2> QED
    BY <2>3, <2>5 DEF InOneField
<1>12. config.kind # "struct" =>
           /\ InOneField(rest)
           /\ \A x \in keys, y \in TaskKeys(rest) : InOrder(x, y)
  BY <1>10 DEF InOneField, InOrder
<1> QED
  BY <1>2, <1>3, <1>9, <1>11, <1>12 DEF TaskInv, Splits, rest, keys

-----------------------------------------------------------------------------
(* The invariant.                                                          *)

\* As long as one field is not done with, no key of a later one is; and a key
\* that fields share keeps an earlier one's DcValue only until the later
\* one's is put there.
FieldsInOrder ==
    config.kind = "struct" =>
        \A i, j \in DOMAIN config.fields : i < j =>
            /\ due \cap KeysOfField(i) # {} => KeysOfField(j) \subseteq due
            /\ \A d \in KeysOfField(i), e \in KeysOfField(j) :
                  d[2] = e[2] /\ values[d[2]] = d[1] => e \in due

\* What is due is exactly what is still to be visited.
Inv ==
    /\ config \in Config
    /\ prefix \in {SDKPrefix(p) : p \in Prefix}
    /\ values \in [Key -> Dc \cup {NoEntry}]
    /\ StackInv(todo)
    /\ due = StackKeys(todo)
    /\ due \subseteq Documented(config, prefix)
    /\ ~called => todo = << >> /\ values = [k \in Key |-> NoEntry]
    /\ FieldsInOrder

\* New leaves a prefix empty or with one slash at its end.
LEMMA PrefixIsOK == ASSUME Inv PROVE PrefixOK
<1>1. PICK p \in Prefix : prefix = Dir(p)
  BY DEF Inv, SDKPrefix
<1>2. p \in String /\ p # <<Slash>>
  BY RegistrationAssumption
<1>3. IsPath(p)
  <2> SUFFICES ASSUME p # << >>, TrimSlash(p) = << >> PROVE FALSE
    BY <1>2 DEF IsPath
  <2>1. EndsInSlash(p)
    BY <1>2, Trim
  <2>2. p = Append(<< >>, Slash)
    BY <1>2, <2>1, Trim
  <2> QED
    BY <1>2, <2>2
<1>4. prefix \in String /\ IsPath(prefix)
  BY <1>1, <1>2, <1>3, DirTrim
<1>5. prefix = << >> \/ EndsInSlash(prefix)
  BY <1>1, <1>2, Trim DEF Dir
<1> QED
  BY <1>4, <1>5 DEF PrefixOK

\* The documented keys of a struct are those of its fields.
LEMMA FieldsOfConfig ==
  ASSUME config \in Config, config.kind = "struct"
  PROVE  Documented(config, prefix) =
             UNION {KeysOfField(i) : i \in DOMAIN config.fields}
<1>1. config \in Node /\ IsNode(config)
  BY RegistrationAssumption
<1>2. (config.ptr \/ FALSE) = config.ptr
  BY <1>1 DEF IsNode
<1>3. DocumentedKeys(<<config, FALSE>>) =
          UNION {FieldKeys(config.fields[i], config.ptr \/ FALSE)
                    : i \in DOMAIN config.fields}
  BY <1>1, DocumentedKeysOfNode
<1> DEFINE P == TrimSlash(prefix)
           F(i) == FieldKeys(config.fields[i], config.ptr)
<1>4. DocumentedKeys(<<config, FALSE>>) =
          UNION {F(i) : i \in DOMAIN config.fields}
  BY <1>2, <1>3, Zenon
<1> HIDE DEF F
<1>5. KeysUnder(P, UNION {F(i) : i \in DOMAIN config.fields}) =
          UNION {KeysUnder(P, F(i)) : i \in DOMAIN config.fields}
  BY DEF KeysUnder
<1> QED
  BY <1>4, <1>5 DEF Documented, KeysOfField, F

LEMMA EmptyStack ==
  StackInv(<< >>) /\ StackKeys(<< >>) = {} /\ IsStack(<< >>)
<1>1. IsStack(<< >>)
  BY EmptySeq, Zenon DEF IsStack
<1>2. DOMAIN << >> = {}
  OBVIOUS
<1> QED
  BY <1>1, <1>2 DEF StackInv, StackKeys

LEMMA InitInv == Init => Inv
<1> SUFFICES ASSUME Init PROVE Inv
  OBVIOUS
<1>1. /\ config \in Config /\ prefix \in {SDKPrefix(p) : p \in Prefix}
      /\ todo = << >> /\ due = {} /\ values = [k \in Key |-> NoEntry]
  BY DEF Init
<1>2. StackInv(todo) /\ due = StackKeys(todo)
  BY <1>1, EmptyStack
<1>3. Documented(config, prefix) \subseteq Dc \X Key
  BY <1>1, DistinctAssumption
<1>4. FieldsInOrder
  <2> SUFFICES ASSUME config.kind = "struct",
                      NEW i \in DOMAIN config.fields,
                      NEW d \in KeysOfField(i)
               PROVE  values[d[2]] # d[1]
    BY <1>1 DEF FieldsInOrder
  <2>1. d \in Documented(config, prefix)
    BY <1>1, FieldsOfConfig
  <2>2. d[1] \in Dc /\ d[2] \in Key
    BY <1>3, <2>1
  <2> QED
    BY <1>1, <2>2, DistinctAssumption
<1> QED
  BY <1>1, <1>2, <1>4 DEF Inv

\* What only depends on config and prefix is the same after a step.
LEMMA SameStack ==
  ASSUME UNCHANGED <<config, prefix>>, NEW q
  PROVE  /\ StackInv(q)' <=> StackInv(q)
         /\ StackKeys(q)' = StackKeys(q)
         /\ \A i : KeysOfField(i)' = KeysOfField(i)
<1>1. config' = config /\ prefix' = prefix
  OBVIOUS
<1>2. ASSUME NEW t PROVE TaskKeys(t)' = TaskKeys(t)
  BY <1>1, Zenon DEF TaskKeys
<1>3. ASSUME NEW i PROVE KeysOfField(i)' = KeysOfField(i)
  BY <1>1, Zenon DEF KeysOfField
<1>4. ASSUME NEW x, NEW y PROVE InOrder(x, y)' <=> InOrder(x, y)
  BY <1>1, <1>3 DEF InOrder
<1>5. ASSUME NEW t PROVE TaskInv(t)' <=> TaskInv(t)
  <2>1. IsTask(t)' <=> IsTask(t)
    BY <1>1, Zenon DEF IsTask
  <2>2. InOneField(t)' <=> InOneField(t)
    BY <1>1, <1>2, <1>3, Zenon DEF InOneField, Cursor
  <2> QED
    BY <2>1, <2>2, Zenon DEF TaskInv
<1>6. StackInv(q)' <=> StackInv(q)
  BY <1>2, <1>4, <1>5, Zenon DEF StackInv
<1>7. StackKeys(q)' = StackKeys(q)
  BY <1>2 DEF StackKeys
<1> QED
  BY <1>3, <1>6, <1>7

-----------------------------------------------------------------------------
(* The steps.                                                              *)

\* A step of the walk that registers nothing.
LEMMA WalkInv ==
  ASSUME Inv, UNCHANGED <<config, prefix, called, values, due>>, called,
         StackInv(todo'), StackKeys(todo') = StackKeys(todo)
  PROVE  Inv'
<1>1. StackInv(todo)' /\ StackKeys(todo)' = StackKeys(todo')
  BY SameStack
<1>2. FieldsInOrder'
  <2>1. FieldsInOrder
    BY DEF Inv
  <2>2. \A i : KeysOfField(i)' = KeysOfField(i)
    BY SameStack
  <2> QED
    BY <2>1, <2>2 DEF FieldsInOrder
<1>3. Documented(config, prefix)' = Documented(config, prefix)
  OBVIOUS
<1>4. due' = StackKeys(todo)' /\ due' \subseteq Documented(config, prefix)'
  BY <1>1, <1>3 DEF Inv
<1>5. called'
  BY Zenon
<1> QED
  BY <1>1, <1>2, <1>4, <1>5 DEF Inv

\* One that splits a task.
LEMMA SplitInv ==
  ASSUME Inv, UNCHANGED <<config, prefix, called, values, due>>, called,
         NEW t, NEW u, NEW keys, NEW rest, NEW q, IsStack(q),
         todo = <<t>> \o q, StackInv(<<t>> \o q),
         todo' = <<u>> \o (<<rest>> \o q),
         IsTask(u), TaskKeys(u) = keys, Splits(t, keys, rest)
  PROVE  Inv'
<1>1. /\ TaskInv(u) /\ TaskInv(rest)
      /\ TaskKeys(t) = TaskKeys(u) \cup TaskKeys(rest)
      /\ \A x \in TaskKeys(u), y \in TaskKeys(rest) : InOrder(x, y)
  BY DEF Splits, TaskInv, InOneField
<1> DEFINE r == <<rest>> \o q
<1>2. /\ StackInv(q)
      /\ \A x \in TaskKeys(t), y \in StackKeys(q) : InOrder(x, y)
      /\ StackKeys(todo) = TaskKeys(t) \cup StackKeys(q)
  BY Push
<1>3. StackInv(r) /\ StackKeys(r) = TaskKeys(rest) \cup StackKeys(q)
  BY <1>1, <1>2, Push
<1>4. IsStack(r)
  BY ConsStack
<1> HIDE DEF r
<1>5. \A x \in TaskKeys(u), y \in StackKeys(r) : InOrder(x, y)
  BY <1>1, <1>2, <1>3
<1>6. /\ StackInv(<<u>> \o r)
      /\ StackKeys(<<u>> \o r) = TaskKeys(u) \cup StackKeys(r)
  BY <1>1, <1>3, <1>4, <1>5, Push
<1>7. StackInv(todo') /\ StackKeys(todo') = StackKeys(todo)
  BY <1>1, <1>2, <1>3, <1>6 DEF r
<1> QED
  BY <1>7, WalkInv

LEMMA TwoTasks == ASSUME NEW u, NEW t PROVE <<u, t>> = <<u>> \o <<t>>
<1> DEFINE S == {u, t}
           a == <<u>>
           b == <<t>>
           c == <<u, t>>
<1>1. a \in Seq(S) /\ b \in Seq(S) /\ c \in Seq(S)
      /\ Len(a) = 1 /\ Len(b) = 1 /\ Len(c) = 2
      /\ a[1] = u /\ b[1] = t /\ c[1] = u /\ c[2] = t
  OBVIOUS
<1> HIDE DEF a, b, c
<1>2. /\ a \o b \in Seq(S)
      /\ Len(a \o b) = 2
      /\ \A i \in 1 .. 2 : (a \o b)[i] = IF i <= 1 THEN a[i] ELSE b[i - 1]
  BY <1>1, ConcatProperties
<1>3. \A i \in 1 .. 2 : c[i] = (a \o b)[i]
  BY <1>1, <1>2
<1>4. c = a \o b
  BY <1>1, <1>2, <1>3, SeqEqual
<1> QED
  BY <1>4 DEF a, b, c

\* All documented keys are due at first.
LEMMA RegisterConfigInv == ASSUME Inv, RegisterConfig PROVE Inv'
<1> DEFINE t == Task(config, << >>, FALSE)
<1>1. /\ todo' = <<t>> /\ due' = Documented(config, prefix)
      /\ values' = values /\ config' = config /\ prefix' = prefix
      /\ values = [k \in Key |-> NoEntry]
      /\ called'
  BY DEF RegisterConfig, Inv
<1>2. PrefixOK /\ config \in Config /\ config \in Node
      /\ config.kind \in {"struct", "map"} /\ IsNode(config)
  BY PrefixIsOK, RegistrationAssumption DEF Inv
<1>3. << >> \in String /\ prefix \o << >> = prefix
  BY <1>2, EmptySeq, Concat DEF PrefixOK, String
<1>4. IsTask(t) /\ RestKeys(t) = DocumentedKeys(<<config, FALSE>>)
  BY <1>2, <1>3, FreshTask DEF PrefixOK
<1>5. TaskKeys(t) = Documented(config, prefix)
  BY <1>3, <1>4 DEF TaskKeys, Documented, Task
<1>6. InOneField(t)
  <2> SUFFICES ASSUME config.kind = "struct" PROVE Cursor(t)
    BY DEF InOneField
  <2>1. PICK S : config.fields \in Seq(S)
    BY <1>2 DEF IsNode
  <2>2. /\ SubSeq(config.fields, 1, Len(config.fields)) = config.fields
        /\ 1 \in 1 .. Len(config.fields) + 1
    BY <2>1, SubSeqFull
  <2>3. t.rest = config.fields
    BY DEF Task
  <2> QED
    BY <2>2, <2>3 DEF Cursor, Task
<1> HIDE DEF t
<1>7. <<t>> = <<t>> \o << >>
  OBVIOUS
<1>8. /\ StackInv(<<t>> \o << >>)
      /\ StackKeys(<<t>> \o << >>) = TaskKeys(t)
  <2>1. TaskInv(t)
    BY <1>4, <1>6 DEF TaskInv
  <2>2. /\ StackKeys(<<t>> \o << >>) = TaskKeys(t) \cup StackKeys(<< >>)
        /\ StackInv(<<t>> \o << >>) <=>
               /\ TaskInv(t)
               /\ StackInv(<< >>)
               /\ \A x \in TaskKeys(t), y \in StackKeys(<< >>) : InOrder(x, y)
    BY EmptyStack, Push, Zenon
  <2> QED
    BY <2>1, <2>2, EmptyStack
<1>9. /\ StackInv(todo)'
      /\ StackKeys(todo)' = Documented(config, prefix)
      /\ \A i : KeysOfField(i)' = KeysOfField(i)
  BY <1>1, <1>5, <1>7, <1>8, SameStack
<1>10. due' = StackKeys(todo)' /\ due' \subseteq Documented(config, prefix)'
  BY <1>1, <1>9
<1>11. FieldsInOrder'
  <2> SUFFICES ASSUME config.kind = "struct",
                      NEW i \in DOMAIN config.fields,
                      NEW j \in DOMAIN config.fields
               PROVE  /\ KeysOfField(j) \subseteq due'
                      /\ \A d \in KeysOfField(i) : values'[d[2]] # d[1]
    BY <1>1, <1>9 DEF FieldsInOrder
  <2>1. /\ KeysOfField(j) \subseteq Documented(config, prefix)
        /\ KeysOfField(i) \subseteq Documented(config, prefix)
    BY <1>2, FieldsOfConfig
  <2>2. Documented(config, prefix) \subseteq Dc \X Key
    BY DistinctAssumption DEF Inv
  <2> QED
    BY <1>1, <2>1, <2>2, DistinctAssumption
<1> QED
  BY <1>1, <1>9, <1>10, <1>11 DEF Inv

\* The DcValue and key that a task for a DcValue leads to.
LEMMA DcTask ==
  ASSUME PrefixOK, NEW t, IsTask(t), IsDcValue(t.node, t.addr)
  PROVE  TaskKeys(t) = {<<t.node.id, prefix \o t.path>>}
<1>1. t.node.kind = "dc" /\ ~EndsInSlash(prefix \o t.path)
  BY DEF IsDcValue, IsTask
<1>2. OwnKey(<<t.node, t.addr>>) = {<<t.node.id, << >>>>}
  BY DEF IsDcValue, OwnKey
<1>3. RestKeys(t) = {<<t.node.id, << >>>>}
  BY <1>1, <1>2 DEF RestKeys
<1> DEFINE key == prefix \o t.path
<1>4. TrimSlash(key) = key
  BY <1>1 DEF TrimSlash
<1> HIDE DEF key
<1>5. Under(key, << >>) = key
  BY DEF Under
<1>6. KeysUnder(key, {<<t.node.id, << >>>>}) = {<<t.node.id, key>>}
  BY <1>5 DEF KeysUnder
<1> QED
  BY <1>3, <1>4, <1>6 DEF TaskKeys, key

\* What a DcValue is registered under is due, and then no more.
LEMMA HandleDcValueInv ==
  ASSUME Inv, HandleDcValue
  PROVE  /\ Inv'
         /\ \E d \in Dc, k \in Key :
               /\ <<d, k>> \in due
               /\ due' = due \ {<<d, k>>}
               /\ values' = [values EXCEPT ![k] = d]
<1> DEFINE t == Head(todo)
           q == Tail(todo)
           id == t.node.id
           key == prefix \o t.path
           x == <<id, key>>
<1>1. /\ todo # << >> /\ IsDcValue(t.node, t.addr)
      /\ values' = [values EXCEPT ![key] = id]
      /\ due' = due \ {x}
      /\ todo' = q
      /\ config' = config /\ prefix' = prefix
  BY DEF HandleDcValue
<1>2. StackInv(todo) /\ due = StackKeys(todo)
      /\ values \in [Key -> Dc \cup {NoEntry}]
      /\ config \in Config
      /\ due \subseteq Documented(config, prefix)
  BY DEF Inv
<1>3. IsStack(q) /\ todo = <<t>> \o q
  BY <1>1, <1>2, HeadOfStack DEF StackInv
<1>4. called /\ called'
  <2>1. called
    BY <1>1 DEF Inv
  <2>2. called' = called
    BY DEF HandleDcValue
  <2> QED
    BY <2>1, <2>2, Zenon
<1> HIDE DEF t, q
<1>5. /\ TaskInv(t) /\ StackInv(q)
      /\ \A a \in TaskKeys(t), b \in StackKeys(q) : InOrder(a, b)
      /\ due = TaskKeys(t) \cup StackKeys(q)
  BY <1>2, <1>3, Push
<1>6. TaskKeys(t) = {x}
  BY <1>1, <1>5, PrefixIsOK, DcTask DEF TaskInv
<1> HIDE DEF id, key
<1>7. x[1] = id /\ x[2] = key
  OBVIOUS
<1>8. x \in Dc \X Key /\ Documented(config, prefix) \subseteq Dc \X Key
      /\ \A d, e \in Documented(config, prefix) : d[1] = e[1] => d = e
  BY <1>2, <1>5, <1>6, DistinctAssumption DEF Inv
<1>9. id \in Dc /\ key \in Key
  BY <1>7, <1>8
<1> HIDE DEF x
<1>10. due' = StackKeys(q)
  <2>1. x \notin StackKeys(q)
    BY <1>5, <1>6 DEF InOrder
  <2> QED
    BY <1>1, <1>5, <1>6, <2>1
<1>11. /\ StackInv(todo)' /\ due' = StackKeys(todo)'
       /\ \A i : KeysOfField(i)' = KeysOfField(i)
  BY <1>1, <1>5, <1>10, SameStack
<1>12. FieldsInOrder'
  <2> SUFFICES ASSUME config.kind = "struct",
                      NEW i \in DOMAIN config.fields,
                      NEW j \in DOMAIN config.fields, i < j
               PROVE  /\ due' \cap KeysOfField(i) # {} =>
                             KeysOfField(j) \subseteq due'
                      /\ \A d \in KeysOfField(i), e \in KeysOfField(j) :
                            d[2] = e[2] /\ values'[d[2]] = d[1] => e \in due'
    BY <1>1, <1>11 DEF FieldsInOrder
  <2>1. /\ due \cap KeysOfField(i) # {} => KeysOfField(j) \subseteq due
        /\ \A d \in KeysOfField(i), e \in KeysOfField(j) :
              d[2] = e[2] /\ values[d[2]] = d[1] => e \in due
    BY DEF Inv, FieldsInOrder
  <2>2. ASSUME NEW y \in due' \cap KeysOfField(i)
        PROVE  KeysOfField(j) \subseteq due'
    <3>1. ~(j <= i)
      <4>1. PICK S : config.fields \in Seq(S)
        <5>1. IsNode(config)
          BY <1>2, RegistrationAssumption
        <5> QED
          BY <5>1 DEF IsNode
      <4>2. i \in Nat /\ j \in Nat
        BY <4>1, LenProperties
      <4> QED
        BY <2>2, <4>2
    <3>2. x \notin KeysOfField(j)
      BY <1>5, <1>6, <1>10, <2>2, <3>1 DEF InOrder
    <3>3. KeysOfField(j) \subseteq due
      BY <1>1, <2>1, <2>2
    <3> QED
      BY <1>1, <3>2, <3>3
  <2>3. ASSUME NEW d \in KeysOfField(i), NEW e \in KeysOfField(j),
               d[2] = e[2], values'[d[2]] = d[1]
        PROVE  e \in due'
    <3>1. d \in Documented(config, prefix) /\ e \in Documented(config, prefix)
      BY <1>2, FieldsOfConfig
    <3>2. d \in Dc \X Key /\ e \in Dc \X Key
      BY <1>8, <3>1
    <3>3. CASE d[2] = key
      <4>1. d[1] = id
        BY <1>1, <1>2, <1>9, <2>3, <3>3
      <4>2. x \in Documented(config, prefix)
        BY <1>2, <1>5, <1>6
      <4>3. d = x
        BY <1>7, <1>8, <3>1, <4>1, <4>2
      <4>4. x \in due \cap KeysOfField(i)
        BY <1>5, <1>6, <4>3
      <4>5. e \in due
        BY <2>1, <4>4
      <4>6. e # x
        <5>1. i # j
          <6>1. PICK S : config.fields \in Seq(S)
            <7>1. IsNode(config)
              BY <1>2, RegistrationAssumption
            <7> QED
              BY <7>1 DEF IsNode
          <6>2. i \in Nat /\ j \in Nat
            BY <6>1, LenProperties
          <6> QED
            BY <6>2
        <5> QED
          BY <1>2, <4>3, <5>1, FieldsApart
      <4> QED
        BY <1>1, <4>5, <4>6
    <3>4. CASE d[2] # key
      <4>1. values'[d[2]] = values[d[2]]
        BY <1>1, <1>2, <3>2, <3>4
      <4>2. e \in due
        BY <2>1, <2>3, <4>1
      <4>3. e # x
        BY <1>7, <2>3, <3>4
      <4> QED
        BY <1>1, <4>2, <4>3
    <3> QED
      BY <3>3, <3>4
  <2> QED
    BY <2>2, <2>3
<1>13. Documented(config, prefix)' = Documented(config, prefix)
  BY <1>1
<1>14. due' \subseteq Documented(config, prefix)'
  BY <1>1, <1>2, <1>13
<1>15. values' \in [Key -> Dc \cup {NoEntry}]
  BY <1>1, <1>2, <1>9
<1>16. Inv'
  BY <1>1, <1>4, <1>11, <1>12, <1>14, <1>15 DEF Inv
<1>17. x \in due
  BY <1>5, <1>6
<1> QED
  BY <1>1, <1>9, <1>16, <1>17 DEF x

LEMMA WalkStructInv == ASSUME Inv, WalkStruct PROVE Inv'
<1> DEFINE t == Head(todo)
           q == Tail(todo)
           addr == Addressable(t)
           f == Head(t.rest)
           us == FieldTasks(f, Dir(t.path), addr)
           rest == [t EXCEPT !.rest = Tail(@)]
           keys == NextKeys(t)
<1>1. /\ todo # << >> /\ t.node.kind = "struct" /\ t.rest # << >>
      /\ todo' = us \o <<rest>> \o q
      /\ UNCHANGED <<config, prefix, called, values, due>>
  BY DEF WalkStruct, Addressable
<1>2. StackInv(todo) /\ PrefixOK /\ config \in Config
  BY PrefixIsOK DEF Inv
<1>3. called
  BY <1>1 DEF Inv
<1> HIDE DEF t, q, addr
<1>4. IsStack(q) /\ todo = <<t>> \o q
  BY <1>1, <1>2, HeadOfStack DEF StackInv, t, q
<1>5. TaskInv(t) /\ StackInv(<<t>> \o q)
  BY <1>2, <1>4, Push
<1>6. IsField(f) /\ Splits(t, keys, rest)
  BY <1>1, <1>2, <1>5, StructRound
<1>7. addr \in BOOLEAN /\ t.path \in String /\ IsPath(prefix \o t.path)
  BY <1>5 DEF TaskInv, IsTask, addr, Addressable
<1> HIDE DEF rest, keys, f, us
<1>8. \/ us = << >> /\ FieldKeys(f, addr) = {}
      \/ \E u : us = <<u>> /\ IsTask(u) /\ TaskKeys(u) = keys
  BY <1>2, <1>6, <1>7, FieldStep DEF us, keys, NextKeys, f, addr
<1>9. CASE us = << >> /\ FieldKeys(f, addr) = {}
  <2>1. todo' = <<rest>> \o q
    BY <1>1, <1>9
  <2>2. keys = {}
    BY <1>9, KeysUnderSets DEF keys, NextKeys, f, addr
  <2>3. TaskInv(rest) /\ TaskKeys(t) = TaskKeys(rest)
    BY <1>6, <2>2 DEF Splits
  <2>4. /\ StackInv(<<rest>> \o q)
        /\ StackKeys(<<rest>> \o q) = StackKeys(<<t>> \o q)
    BY <1>4, <1>5, <2>3, SameTask
  <2> QED
    BY <1>1, <1>3, <1>4, <2>1, <2>4, WalkInv
<1>10. CASE \E u : us = <<u>> /\ IsTask(u) /\ TaskKeys(u) = keys
  <2>1. PICK u : us = <<u>> /\ IsTask(u) /\ TaskKeys(u) = keys
    BY <1>10
  <2>2. todo' = <<u>> \o (<<rest>> \o q)
    <3>1. PICK S : q \in Seq(S)
      BY <1>4 DEF IsStack
    <3> DEFINE T == S \cup {u, rest}
    <3>2. q \in Seq(T) /\ <<u>> \in Seq(T) /\ <<rest>> \in Seq(T)
      BY <3>1, SeqMonotonic
    <3> HIDE DEF T
    <3>3. (<<u>> \o <<rest>>) \o q = <<u>> \o (<<rest>> \o q)
      BY <3>2, ConcatAssociative
    <3> QED
      BY <1>1, <2>1, <3>3
  <2> QED
    BY <1>1, <1>3, <1>4, <1>5, <1>6, <2>1, <2>2, SplitInv, Zenon
<1> QED
  BY <1>8, <1>9, <1>10

LEMMA WalkMapInv == ASSUME Inv, WalkMap PROVE Inv'
<1> DEFINE t == Head(todo)
           q == Tail(todo)
<1>1. /\ todo # << >> /\ t.node.kind = "map"
      /\ UNCHANGED <<config, prefix, called, values, due>>
  BY DEF WalkMap
<1>2. PICK e \in t.rest :
          todo' = <<Task(e[2], MapChildPrefix(t.path, e[1]), FALSE),
                    [t EXCEPT !.rest = @ \ {e}]>> \o q
  BY DEF WalkMap
<1> DEFINE u == Task(e[2], MapChildPrefix(t.path, e[1]), FALSE)
           rest == [t EXCEPT !.rest = @ \ {e}]
           keys == KeysAt(t, e)
<1>3. StackInv(todo) /\ PrefixOK /\ config \in Config
  BY PrefixIsOK DEF Inv
<1>4. called
  BY <1>1 DEF Inv
<1> HIDE DEF t, q
<1>5. IsStack(q) /\ todo = <<t>> \o q
  BY <1>1, <1>3, HeadOfStack DEF StackInv, t, q
<1>6. TaskInv(t) /\ StackInv(<<t>> \o q)
  BY <1>3, <1>5, Push
<1>7. IsMapEntry(e) /\ Splits(t, keys, rest)
  BY <1>1, <1>3, <1>6, MapRound
<1>8. t.path \in String /\ IsPath(prefix \o t.path)
  BY <1>6 DEF TaskInv, IsTask
<1>9. IsTask(u) /\ TaskKeys(u) = keys
  BY <1>3, <1>7, <1>8, EntryStep DEF KeysAt
<1> HIDE DEF u, rest, keys
<1>10. todo' = <<u>> \o (<<rest>> \o q)
  <2>1. PICK S : q \in Seq(S)
    BY <1>5 DEF IsStack
  <2> DEFINE T == S \cup {u, rest}
  <2>2. q \in Seq(T) /\ <<u>> \in Seq(T) /\ <<rest>> \in Seq(T)
    BY <2>1, SeqMonotonic
  <2> HIDE DEF T
  <2>3. (<<u>> \o <<rest>>) \o q = <<u>> \o (<<rest>> \o q)
    BY <2>2, ConcatAssociative
  <2>4. <<u, rest>> = <<u>> \o <<rest>>
    BY TwoTasks
  <2> QED
    BY <1>2, <2>3, <2>4 DEF u, rest
<1> QED
  BY <1>1, <1>4, <1>5, <1>6, <1>7, <1>9, <1>10, SplitInv, Zenon

LEMMA NodeDoneInv == ASSUME Inv, NodeDone PROVE Inv'
<1> DEFINE t == Head(todo)
           q == Tail(todo)
<1>1. /\ todo # << >> /\ ~IsDcValue(t.node, t.addr)
      /\ t.node.kind = "struct" => t.rest = << >>
      /\ t.node.kind = "map" => t.rest = {}
      /\ todo' = q
      /\ UNCHANGED <<config, prefix, called, values, due>>
  BY DEF NodeDone
<1>2. StackInv(todo)
  BY DEF Inv
<1>3. called
  BY <1>1 DEF Inv
<1> HIDE DEF t, q
<1>4. IsStack(q) /\ todo = <<t>> \o q
  BY <1>1, <1>2, HeadOfStack DEF StackInv, t, q
<1>5. StackInv(q) /\ StackKeys(todo) = TaskKeys(t) \cup StackKeys(q)
  BY <1>2, <1>4, Push
<1>6. RestKeys(t) = {}
  <2>1. CASE t.node.kind = "struct"
    <3>1. DOMAIN t.rest = {}
      BY <1>1, <2>1
    <3> QED
      BY <2>1, <3>1 DEF RestKeys
  <2>2. CASE t.node.kind = "map"
    BY <1>1, <2>2 DEF RestKeys
  <2>3. CASE t.node.kind \notin {"struct", "map"}
    BY <1>1, <2>3 DEF RestKeys, OwnKey, IsDcValue
  <2> QED
    BY <2>1, <2>2, <2>3
<1>7. TaskKeys(t) = {}
  BY <1>6, KeysUnderSets DEF TaskKeys
<1> QED
  BY <1>1, <1>3, <1>5, <1>7, WalkInv

LEMMA NextInv == Inv /\ [Next]_vars => Inv'
<1> SUFFICES ASSUME Inv, [Next]_vars PROVE Inv'
  OBVIOUS
<1>1. CASE UNCHANGED vars
  <2>1. /\ config' = config /\ prefix' = prefix /\ todo' = todo
        /\ called' = called /\ values' = values /\ due' = due
    BY <1>1 DEF vars
  <2>2. StackInv(todo)' /\ StackKeys(todo)' = StackKeys(todo)
        /\ \A i : KeysOfField(i)' = KeysOfField(i)
    BY <2>1, SameStack DEF Inv
  <2>3. FieldsInOrder'
    BY <2>1, <2>2 DEF Inv, FieldsInOrder
  <2>4. ~called' => todo' = << >> /\ values' = [k \in Key |-> NoEntry]
    BY <2>1, Zenon DEF Inv
  <2>5. /\ config' \in Config /\ prefix' \in {SDKPrefix(p) : p \in Prefix}
        /\ values' \in [Key -> Dc \cup {NoEntry}]
        /\ due' = StackKeys(todo)'
        /\ due' \subseteq Documented(config, prefix)'
    BY <2>1, <2>2, Zenon DEF Inv
  <2> QED
    BY <2>2, <2>3, <2>4, <2>5, Zenon DEF Inv
<1> QED
  BY <1>1, RegisterConfigInv, HandleDcValueInv, WalkStructInv, WalkMapInv,
     NodeDoneInv DEF Next

-----------------------------------------------------------------------------
(* The theorems.                                                           *)

\* What is due is what is still to be visited, in the order of the fields.
THEOREM Invariance == Spec => []Inv
<1> QED
  BY InitInv, NextInv, PTL DEF Spec

\* RegisterConfig registers every DcValue that has a documented key: when it
\* returns, none is left out.
THEOREM NoneLeftOut == Spec => []NothingLeftOut
<1>1. Inv => NothingLeftOut
  BY EmptyStack DEF Inv, NothingLeftOut, Done
<1> QED
  BY <1>1, Invariance, PTL

\* Of fields of the struct given to RegisterConfig that come to one key, none
\* but the last ends up with it.
THEOREM LastOneWins == Spec => []LastFieldWins
<1>1. ASSUME Inv, Done PROVE due = {}
  BY <1>1, EmptyStack DEF Inv, Done
<1>2. Inv => LastFieldWins
  BY <1>1 DEF Inv, FieldsInOrder, LastFieldWins
<1> QED
  BY <1>2, Invariance, PTL

\* The call of RegisterConfig fixes the function PoyaSDK speaks of.
LEMMA CallAsSDK ==
  ASSUME Inv, RegisterConfig PROVE SDK!RegisterConfig(KeyOf(due'))
<1>1. /\ due = {} /\ values' = values /\ due' = Documented(config, prefix)
  BY EmptyStack DEF RegisterConfig, Inv
<1>2. /\ due' \subseteq Dc \X Key
      /\ \A d, e \in due' : d[1] = e[1] => d = e
  BY <1>1, DistinctAssumption DEF Inv
<1> DEFINE c == KeyOf(due')
<1>3. DOMAIN c = {e[1] : e \in due'}
  BY DEF KeyOf
<1>4. ASSUME NEW e \in due' PROVE e = <<e[1], c[e[1]]>>
  <2>1. c[e[1]] = (CHOOSE x \in due' : x[1] = e[1])[2]
    BY DEF KeyOf
  <2>2. (CHOOSE x \in due' : x[1] = e[1]) = e
    BY <1>2
  <2>3. e = <<e[1], e[2]>>
    BY <1>2
  <2> HIDE DEF c
  <2>4. c[e[1]] = e[2]
    BY <2>1, <2>2, Zenon
  <2> QED
    BY <2>3, <2>4
<1> HIDE DEF c
<1>5. due' = {<<d, c[d]>> : d \in DOMAIN c}
  BY <1>3, <1>4
<1> QED
  BY <1>1, <1>5 DEF SDK!RegisterConfig, SDK!valueVars, SDK!watchVars,
                   SDK!histVars, c

\* Each DcValue registered is a HandleDcValue of it.
LEMMA HandleAsSDK ==
  ASSUME Inv, HandleDcValue
  PROVE  \E d \in Dc : \E k \in Key : SDK!HandleDcValue(d, k)
<1>1. PICK d \in Dc, k \in Key :
          /\ <<d, k>> \in due
          /\ due' = due \ {<<d, k>>}
          /\ values' = [values EXCEPT ![k] = d]
  BY HandleDcValueInv
<1>2. values \in [Key -> Dc \cup {NoEntry}] /\ d # NoEntry
  BY DistinctAssumption DEF Inv
<1> DEFINE Shown(v) == [j \in Key |->
                          IF v[j] = NoEntry THEN NoEntry
                          ELSE [dc |-> v[j], defaultVal |-> "default"]]
           given == [x \in Dc |-> "default"]
<1>3. Shown(values') =
          [Shown(values) EXCEPT ![k] = [dc |-> d, defaultVal |-> given[d]]]
  BY <1>1, <1>2
<1> QED
  BY <1>1, <1>3 DEF SDK!HandleDcValue, SDK!EntryOf, SDK!valueVars,
                   SDK!watchVars, SDK!histVars

\* The walk is a RegisterConfig of PoyaSDK and then one HandleDcValue for
\* every DcValue; the rest of it changes nothing PoyaSDK speaks of.
THEOREM WalkIsRegisterConfig == Spec => RegistersAsSDK
<1>1. ASSUME Inv, Next, values' # values \/ due' # due
      PROVE  \/ SDK!RegisterConfig(KeyOf(due'))
             \/ \E d \in Dc : \E k \in Key : SDK!HandleDcValue(d, k)
  <2>1. RegisterConfig \/ HandleDcValue
    BY <1>1 DEF Next, WalkStruct, WalkMap, NodeDone
  <2> QED
    BY <1>1, <2>1, CallAsSDK, HandleAsSDK
<1>2. Inv /\ [Next]_vars =>
          [values' # values \/ due' # due =>
              \/ SDK!RegisterConfig(KeyOf(due'))
              \/ \E d \in Dc : \E k \in Key : SDK!HandleDcValue(d, k)]_vars
  BY <1>1
<1> QED
  BY <1>2, Invariance, PTL DEF Spec, RegistersAsSDK

=============================================================================
