-------------------------- MODULE KeyPaths_proofs --------------------------
(***************************************************************************)
(* Proofs about KeyPaths for any number of keys of any length: the loop    *)
(* returns the longest common prefix; etcd's range covers the keys exactly *)
(* when that ends in a slash; and Vault's Watch finds the fields of one    *)
(* secret exactly when their names do not start alike.                     *)
(***************************************************************************)
EXTENDS KeyPaths, SequenceTheorems, TLAPS

TypeOK ==
    /\ keys \in Seq(Seq(Char))
    /\ keys # << >>
    /\ i \in 2 .. Len(keys) + 1
    /\ prefix \in Seq(Char)
    /\ pc \in {"loop", "done"}

\* The keys the outer loop has passed all start with the prefix.
PassedKeysMatch == \A m \in 1 .. i - 1 : HasPrefix(keys[m], prefix)

\* No common prefix has been given up, however the loop has shortened it so
\* far; this is what makes the result the longest one.
NothingLost ==
    \A p \in Seq(Char) : IsCommonPrefix(p) => HasPrefix(prefix, p)

Inv ==
    /\ TypeOK
    /\ PassedKeysMatch
    /\ NothingLost
    /\ pc = "done" => i = Len(keys) + 1

-----------------------------------------------------------------------------
(* Strings and their prefixes.                                             *)

\* HasPrefix compares character by character.
LEMMA PrefixElements ==
  ASSUME NEW s \in Seq(Char), NEW p \in Seq(Char)
  PROVE  HasPrefix(s, p) <=>
             Len(p) <= Len(s) /\ \A j \in 1 .. Len(p) : s[j] = p[j]
<1> SUFFICES ASSUME Len(p) <= Len(s)
             PROVE  SubSeq(s, 1, Len(p)) = p <=>
                        \A j \in 1 .. Len(p) : s[j] = p[j]
  BY DEF HasPrefix
<1> DEFINE t == SubSeq(s, 1, Len(p))
<1>1. \A j \in 1 .. Len(p) : s[j] \in Char
  OBVIOUS
<1>2. /\ t \in Seq(Char)
      /\ Len(t) = Len(p)
      /\ \A j \in 1 .. Len(p) : t[j] = s[j]
  BY <1>1, SubSeqProperties, Z3
<1>3. ASSUME \A j \in 1 .. Len(p) : s[j] = p[j] PROVE t = p
  BY <1>2, <1>3, SeqEqual
<1> QED
  BY <1>2, <1>3

\* The first n characters of a string are a string and a prefix of it.
LEMMA FirstCharacters ==
  ASSUME NEW s \in Seq(Char), NEW n \in 0 .. Len(s)
  PROVE  /\ SubSeq(s, 1, n) \in Seq(Char)
         /\ Len(SubSeq(s, 1, n)) = n
         /\ \A j \in 1 .. n : SubSeq(s, 1, n)[j] = s[j]
<1>1. \A j \in 1 .. n : s[j] \in Char
  OBVIOUS
<1> QED
  BY <1>1, SubSeqProperties, Z3

\* What starts with a string starts with the first part of it, and of two
\* prefixes the shorter is a prefix of the longer.
LEMMA ShorterPrefix ==
  ASSUME NEW s \in Seq(Char), NEW p \in Seq(Char), NEW q \in Seq(Char),
         Len(q) <= Len(p), HasPrefix(s, p)
  PROVE  /\ (\A j \in 1 .. Len(q) : q[j] = p[j]) => HasPrefix(s, q)
         /\ HasPrefix(s, q) => HasPrefix(p, q)
<1>1. Len(p) <= Len(s) /\ \A j \in 1 .. Len(p) : s[j] = p[j]
  BY PrefixElements
<1>2. ASSUME \A j \in 1 .. Len(q) : q[j] = p[j] PROVE HasPrefix(s, q)
  <2>1. Len(q) <= Len(s) /\ \A j \in 1 .. Len(q) : s[j] = q[j]
    BY <1>1, <1>2
  <2> QED
    BY <2>1, PrefixElements
<1>3. ASSUME HasPrefix(s, q) PROVE HasPrefix(p, q)
  <2>1. \A j \in 1 .. Len(q) : s[j] = q[j]
    BY <1>3, PrefixElements
  <2>2. \A j \in 1 .. Len(q) : p[j] = q[j]
    BY <1>1, <2>1
  <2> QED
    BY <2>2, PrefixElements
<1> QED
  BY <1>2, <1>3

-----------------------------------------------------------------------------
(* The loop.                                                               *)

LEMMA InitInv == Init => Inv
<1> SUFFICES ASSUME Init PROVE Inv
  OBVIOUS
<1>1. PICK n \in 1 .. MaxKeys : keys \in [1 .. n -> Keys]
  BY DEF Init
<1>2. Keys \subseteq Seq(Char)
  BY DEF Keys
<1>3. keys \in Seq(Seq(Char)) /\ Len(keys) = n
  BY <1>1, <1>2, KeyPathsAssumption
<1>4. TypeOK
  BY <1>1, <1>3, KeyPathsAssumption DEF Init, TypeOK
<1>5. PassedKeysMatch
  BY <1>4, PrefixElements DEF Init, TypeOK, PassedKeysMatch
<1>6. NothingLost
  BY <1>4 DEF Init, TypeOK, NothingLost, IsCommonPrefix, KeySet
<1> QED
  BY <1>4, <1>5, <1>6 DEF Init, Inv

LEMMA StepInv == Inv /\ [Next]_vars => Inv'
<1> SUFFICES ASSUME Inv, [Next]_vars PROVE Inv'
  OBVIOUS
<1> USE DEF Inv
<1>1. CASE NextKey
  <2>1. TypeOK'
    BY <1>1 DEF NextKey, TypeOK
  <2>2. PassedKeysMatch'
    BY <1>1 DEF NextKey, TypeOK, PassedKeysMatch
  <2>3. NothingLost' /\ pc' = "loop"
    BY <1>1 DEF NextKey, NothingLost, IsCommonPrefix, KeySet
  <2> QED
    BY <2>1, <2>2, <2>3
<1>2. CASE Shorten
  <2>1. /\ Len(prefix) \in Nat \ {0}
        /\ Len(prefix) - 1 \in 0 .. Len(prefix)
    BY <1>2 DEF Shorten, TypeOK
  <2>2. /\ prefix' \in Seq(Char)
        /\ Len(prefix') = Len(prefix) - 1
        /\ \A j \in 1 .. Len(prefix) - 1 : prefix'[j] = prefix[j]
    BY <1>2, <2>1, FirstCharacters DEF Shorten, TypeOK
  <2>3. TypeOK' /\ pc' = "loop"
    BY <1>2, <2>2 DEF Shorten, TypeOK
  <2>4. PassedKeysMatch'
    <3> SUFFICES ASSUME NEW m \in 1 .. i - 1 PROVE HasPrefix(keys[m], prefix')
      BY <1>2 DEF Shorten, PassedKeysMatch
    <3>1. keys[m] \in Seq(Char) /\ HasPrefix(keys[m], prefix)
      BY DEF TypeOK, PassedKeysMatch
    <3>2. /\ prefix \in Seq(Char)
          /\ Len(prefix') <= Len(prefix)
          /\ \A j \in 1 .. Len(prefix') : prefix'[j] = prefix[j]
      BY <2>1, <2>2 DEF TypeOK
    <3> QED
      BY <2>2, <3>1, <3>2, ShorterPrefix
  <2>5. ASSUME NEW p \in Seq(Char), IsCommonPrefix(p)
        PROVE  HasPrefix(prefix', p)
    <3>1. HasPrefix(keys[i], p) /\ HasPrefix(prefix, p)
      BY <1>2, <2>5 DEF Shorten, TypeOK, IsCommonPrefix, KeySet, NothingLost
    <3>2. p # prefix
      BY <1>2, <3>1 DEF Shorten
    <3>3. Len(p) # Len(prefix)
      BY <3>1, <3>2, SubSeqFull DEF HasPrefix, TypeOK
    <3> QED
      <4>1. HasPrefix(prefix, prefix')
        <5>1. /\ prefix \in Seq(Char)
              /\ Len(prefix') <= Len(prefix)
              /\ \A j \in 1 .. Len(prefix') : prefix[j] = prefix'[j]
          BY <2>1, <2>2 DEF TypeOK
        <5> QED
          BY <2>2, <5>1, PrefixElements
      <4>2. Len(p) <= Len(prefix')
        <5>1. Len(p) <= Len(prefix) /\ Len(p) \in Nat
          BY <2>5, <3>1 DEF HasPrefix
        <5> QED
          BY <2>1, <2>2, <3>3, <5>1
      <4> QED
        BY <2>2, <3>1, <4>1, <4>2, ShorterPrefix DEF TypeOK
  <2>6. NothingLost'
    BY <1>2, <2>5 DEF Shorten, NothingLost, IsCommonPrefix, KeySet
  <2> QED
    BY <2>3, <2>4, <2>6
<1>3. CASE Done
  BY <1>3 DEF Done, TypeOK, PassedKeysMatch, NothingLost, IsCommonPrefix,
              KeySet
<1>4. CASE UNCHANGED vars
  BY <1>4 DEF vars, TypeOK, PassedKeysMatch, NothingLost, IsCommonPrefix,
              KeySet
<1> QED
  BY <1>1, <1>2, <1>3, <1>4 DEF Next

\* Every reachable state satisfies the invariant.
THEOREM Invariance == Spec => []Inv
BY InitInv, StepInv, PTL DEF Spec

\* What the loop returns is a prefix of every key.
LEMMA ResultIsCommon == Inv /\ pc = "done" => IsCommonPrefix(prefix)
BY DEF Inv, TypeOK, PassedKeysMatch, IsCommonPrefix, KeySet

\* CommonPrefix returns the longest common prefix, whatever the keys and their
\* order.
THEOREM LongestReturned == Spec => []LongestCommonPrefix
<1>1. Inv => LongestCommonPrefix
  <2> SUFFICES ASSUME Inv, pc = "done", NEW k \in KeySet, NEW n \in 0 .. Len(k),
                      IsCommonPrefix(SubSeq(k, 1, n))
               PROVE  n <= Len(prefix)
    BY ResultIsCommon DEF LongestCommonPrefix
  <2>1. k \in Seq(Char)
    BY DEF Inv, TypeOK, KeySet
  <2>2. SubSeq(k, 1, n) \in Seq(Char) /\ Len(SubSeq(k, 1, n)) = n
    BY <2>1, FirstCharacters
  <2> QED
    BY <2>2 DEF Inv, NothingLost, HasPrefix
<1> QED
  BY <1>1, Invariance, PTL

\* etcd's one range covers every key exactly when the common prefix ends in a
\* slash: otherwise the slash the code appends asks for a longer prefix than
\* the longest common one.
LEMMA EtcdKeysFound == Inv /\ pc = "done" => EtcdFindsKeys
<1> SUFFICES ASSUME Inv, pc = "done"
             PROVE  IsCommonPrefix(EtcdRange(prefix)) <=> EndsInSlash(prefix)
  BY DEF EtcdFindsKeys, IsCommonPrefix
<1>1. CASE EndsInSlash(prefix)
  BY <1>1, ResultIsCommon DEF EtcdRange, EndsInSlash
<1>2. CASE ~EndsInSlash(prefix)
  <2>1. /\ EtcdRange(prefix) \in Seq(Char)
        /\ Len(EtcdRange(prefix)) = Len(prefix) + 1
    BY <1>2, KeyPathsAssumption, AppendProperties
    DEF EtcdRange, Inv, TypeOK
  <2> QED
    BY <1>2, <2>1 DEF Inv, TypeOK, NothingLost, HasPrefix
<1> QED
  BY <1>1, <1>2

-----------------------------------------------------------------------------
(* Vault.                                                                  *)

LEMMA PairParts ==
  ASSUME NEW t, NEW a, NEW b, t = <<a, b>> PROVE t[1] = a /\ t[2] = b
OBVIOUS

\* SplitKey cuts a key into the secret, a slash and the name of a field.
LEMMA SplitKeyCuts ==
  ASSUME NEW k \in Seq(Char), NEW P, P = SplitKey(k)[1], P # << >>
  PROVE  /\ P \in Seq(Char) /\ Len(P) \in Nat \ {0}
         /\ Len(P) + 1 <= Len(k) /\ k[Len(P) + 1] = Slash
         /\ \A j \in 1 .. Len(P) : k[j] = P[j]
         /\ SplitKey(k) = <<P, SubSeq(k, Len(P) + 2, Len(k))>>
         /\ SplitKey(k)[2] = SubSeq(k, Len(P) + 2, Len(k))
<1>1. LastSlash(k) # {}
  BY DEF SplitKey
<1>2. PICK n \in LastSlash(k) :
          SplitKey(k) = <<SubSeq(k, 1, n - 1), SubSeq(k, n + 1, Len(k))>>
  <2> DEFINE n == CHOOSE x \in LastSlash(k) : TRUE
  <2>1. n \in LastSlash(k)
    BY <1>1, Zenon
  <2>2. SplitKey(k) = <<SubSeq(k, 1, n - 1), SubSeq(k, n + 1, Len(k))>>
    BY <1>1, Zenon DEF SplitKey
  <2> QED
    BY <2>1, <2>2, Zenon
<1>3. n \in 1 .. Len(k) /\ k[n] = Slash /\ n - 1 \in 0 .. Len(k)
  BY DEF LastSlash
<1>4. /\ P = SubSeq(k, 1, n - 1)
      /\ SplitKey(k)[2] = SubSeq(k, n + 1, Len(k))
  <2> DEFINE t == SplitKey(k)
             a == SubSeq(k, 1, n - 1)
             b == SubSeq(k, n + 1, Len(k))
  <2>1. t = <<a, b>> /\ P = t[1]
    BY <1>2
  <2> HIDE DEF t, a, b
  <2>2. P = a /\ t[2] = b
    BY <2>1, PairParts, Zenon
  <2> QED
    BY <2>2, Zenon DEF t, a, b
<1>5. /\ P \in Seq(Char) /\ Len(P) = n - 1
      /\ \A j \in 1 .. n - 1 : P[j] = k[j]
  BY <1>3, <1>4, FirstCharacters
<1>6. Len(P) # 0
  BY <1>5, EmptySeq
<1>7. n = Len(P) + 1 /\ n + 1 = Len(P) + 2 /\ Len(P) \in Nat
  BY <1>3, <1>5
<1>8. SplitKey(k) = <<P, SubSeq(k, Len(P) + 2, Len(k))>>
  BY <1>2, <1>4, <1>7, Zenon
<1>9. SplitKey(k)[2] = SubSeq(k, Len(P) + 2, Len(k))
  BY <1>4, <1>7, Zenon
<1>10. \A j \in 1 .. Len(P) : k[j] = P[j]
  BY <1>5
<1>11. /\ Len(P) \in Nat \ {0} /\ Len(P) + 1 <= Len(k)
       /\ k[Len(P) + 1] = Slash
  BY <1>3, <1>6, <1>7
<1> QED
  BY <1>5, <1>8, <1>9, <1>10, <1>11, Zenon

\* The keys that are fields of one secret all start with its path and a slash,
\* and so does the longest common prefix; it is longer exactly when the names
\* start alike.
LEMMA PrefixOfSecret ==
  ASSUME Inv, pc = "done", NEW P, P # << >>,
         \A k \in KeySet : SplitKey(k)[1] = P
  PROVE  /\ P \in Seq(Char)
         /\ Len(prefix) >= Len(P) + 1
         /\ prefix[Len(P) + 1] = Slash
         /\ \A j \in 1 .. Len(P) : prefix[j] = P[j]
         /\ Len(prefix) > Len(P) + 1 <=> NamesStartAlike
<1> DEFINE N == Len(P) + 1
           Path == Append(P, Slash)
<1>1. KeySet \subseteq Seq(Char) /\ KeySet # {} /\ prefix \in Seq(Char)
  <2>1. keys \in Seq(Seq(Char)) /\ Len(keys) >= 1
    BY DEF Inv, TypeOK
  <2>2. keys[1] \in KeySet
    BY <2>1 DEF KeySet
  <2> QED
    BY <2>1, <2>2 DEF KeySet, Inv, TypeOK
<1>2. ASSUME NEW k \in KeySet
      PROVE  /\ P \in Seq(Char) /\ Len(P) \in Nat \ {0}
             /\ N <= Len(k) /\ k[N] = Slash
             /\ \A j \in 1 .. Len(P) : k[j] = P[j]
             /\ SplitKey(k)[2] = SubSeq(k, N + 1, Len(k))
  <2>1. k \in Seq(Char) /\ P = SplitKey(k)[1]
    BY <1>1
  <2>2. /\ P \in Seq(Char) /\ Len(P) \in Nat \ {0}
        /\ N <= Len(k) /\ k[N] = Slash
        /\ \A j \in 1 .. Len(P) : k[j] = P[j]
        /\ SplitKey(k)[2] = SubSeq(k, Len(P) + 2, Len(k))
    BY <2>1, SplitKeyCuts, Zenon
  <2>3. Len(P) + 2 = N + 1
    BY <2>2
  <2> QED
    BY <2>2, <2>3, Zenon
<1>3. P \in Seq(Char) /\ N \in Nat \ {0} /\ Slash \in Char
  BY <1>1, <1>2, KeyPathsAssumption
<1>4. /\ Path \in Seq(Char) /\ Len(Path) = N /\ Path[N] = Slash
      /\ \A j \in 1 .. Len(P) : Path[j] = P[j]
  BY <1>3
<1> HIDE DEF Path
<1>5. ASSUME NEW p \in Seq(Char), IsCommonPrefix(p)
      PROVE  /\ Len(p) <= Len(prefix)
             /\ \A j \in 1 .. Len(p) : prefix[j] = p[j]
  <2>1. HasPrefix(prefix, p)
    BY <1>5 DEF Inv, NothingLost
  <2> QED
    BY <1>1, <2>1, PrefixElements
<1>6. ASSUME NEW k \in KeySet PROVE HasPrefix(k, Path)
  <2>1. k \in Seq(Char) /\ Len(Path) <= Len(k)
    BY <1>1, <1>2, <1>4
  <2>2. \A j \in 1 .. Len(Path) : k[j] = Path[j]
    BY <1>2, <1>3, <1>4
  <2> QED
    BY <1>4, <2>1, <2>2, PrefixElements
<1>7. Len(prefix) >= N /\ \A j \in 1 .. N : prefix[j] = Path[j]
  BY <1>4, <1>5, <1>6 DEF IsCommonPrefix
<1>8. ASSUME Len(prefix) > N PROVE NamesStartAlike
  <2>1. prefix[N + 1] \in Char /\ N + 1 \in 1 .. Len(prefix)
    BY <1>1, <1>3, <1>8
  <2>2. ASSUME NEW k \in KeySet
        PROVE  SplitKey(k)[2] # << >> /\ SplitKey(k)[2][1] = prefix[N + 1]
    <3>1. HasPrefix(k, prefix) /\ k \in Seq(Char)
      BY <1>1, ResultIsCommon DEF IsCommonPrefix
    <3>2. Len(k) > N /\ k[N + 1] = prefix[N + 1]
      BY <1>1, <2>1, <3>1, PrefixElements
    <3>3. SplitKey(k)[2] = SubSeq(k, N + 1, Len(k))
      BY <1>2
    <3>4. /\ Len(SubSeq(k, N + 1, Len(k))) = Len(k) - N
          /\ SubSeq(k, N + 1, Len(k))[1] = k[N + 1]
      BY <1>3, <3>1, <3>2
    <3>5. SubSeq(k, N + 1, Len(k)) # << >>
      <4>1. Len(k) - N # 0
        BY <1>3, <3>1, <3>2
      <4> QED
        BY <3>4, <4>1, EmptySeq
    <3> QED
      BY <3>2, <3>3, <3>4, <3>5, Zenon
  <2> QED
    BY <2>1, <2>2 DEF NamesStartAlike
<1>9. ASSUME NamesStartAlike PROVE Len(prefix) > N
  <2>1. PICK c \in Char : \A k \in KeySet :
            SplitKey(k)[2] # << >> /\ SplitKey(k)[2][1] = c
    BY <1>9 DEF NamesStartAlike
  <2> DEFINE q == Append(Path, c)
  <2>2. /\ q \in Seq(Char) /\ Len(q) = N + 1 /\ q[N + 1] = c
        /\ \A j \in 1 .. N : q[j] = Path[j]
    BY <1>3, <1>4
  <2> HIDE DEF q
  <2>3. ASSUME NEW k \in KeySet PROVE HasPrefix(k, q)
    <3>1. k \in Seq(Char) /\ N <= Len(k)
      BY <1>1, <1>2
    <3>2. SubSeq(k, N + 1, Len(k)) # << >> /\ SubSeq(k, N + 1, Len(k))[1] = c
      BY <1>2, <2>1
    <3>3. Len(k) > N
      BY <1>3, <3>1, <3>2
    <3>4. k[N + 1] = c
      BY <1>3, <3>1, <3>2, <3>3
    <3>5. \A j \in 1 .. N : k[j] = Path[j]
      BY <1>4, <1>6, <3>1, PrefixElements
    <3>6. \A j \in 1 .. Len(q) : k[j] = q[j]
      BY <1>3, <2>2, <3>4, <3>5
    <3> QED
      BY <1>3, <2>2, <3>1, <3>3, <3>6, PrefixElements
  <2>4. Len(q) <= Len(prefix)
    BY <1>5, <2>2, <2>3 DEF IsCommonPrefix
  <2> QED
    BY <1>1, <1>3, <2>2, <2>4
<1> QED
  BY <1>3, <1>4, <1>7, <1>8, <1>9

\* Vault's Watch finds every field of one secret where Vault's Get does
\* exactly when the names of the fields do not start alike; otherwise the
\* common prefix ends inside the names, and so do path and fields.
LEMMA VaultFieldsFound == Inv /\ pc = "done" => VaultFindsFields
<1> SUFFICES ASSUME Inv, pc = "done", OneSecret
             PROVE  WatchFindsFields <=> ~NamesStartAlike
  BY DEF VaultFindsFields
<1>1. PICK P : P # << >> /\ \A k \in KeySet : SplitKey(k)[1] = P
  BY DEF OneSecret
<1> DEFINE N == Len(P) + 1
<1>2. /\ P \in Seq(Char)
      /\ Len(prefix) >= N /\ prefix[N] = Slash
      /\ \A j \in 1 .. Len(P) : prefix[j] = P[j]
      /\ Len(prefix) > N <=> NamesStartAlike
  BY <1>1, PrefixOfSecret
<1>3. /\ prefix \in Seq(Char) /\ Len(prefix) \in Nat /\ N \in Nat \ {0}
      /\ Len(P) \in Nat \ {0}
  <2>1. prefix \in Seq(Char)
    BY DEF Inv, TypeOK
  <2> QED
    BY <1>1, <1>2, <2>1, EmptySeq
<1>4. ASSUME NEW k \in KeySet
      PROVE  /\ k \in Seq(Char) /\ Len(prefix) <= Len(k)
             /\ SplitKey(k) = <<P, SubSeq(k, N + 1, Len(k))>>
             /\ SplitKey(k)[2] = SubSeq(k, N + 1, Len(k))
             /\ VaultWatchField(prefix, k)
                   = SubSeq(k, Len(prefix) + 1, Len(k))
  <2>1. k \in Seq(Char) /\ HasPrefix(k, prefix)
    BY ResultIsCommon DEF Inv, TypeOK, KeySet, IsCommonPrefix
  <2>2. /\ SplitKey(k) = <<P, SubSeq(k, Len(P) + 2, Len(k))>>
        /\ SplitKey(k)[2] = SubSeq(k, Len(P) + 2, Len(k))
    BY <1>1, <2>1, SplitKeyCuts
  <2>3. Len(P) + 2 = N + 1
    BY <1>3
  <2> QED
    BY <2>1, <2>2, <2>3 DEF HasPrefix, VaultWatchField, TrimPrefix
<1>5. CASE NamesStartAlike
  <2>1. PICK k \in KeySet : TRUE
    BY DEF Inv, TypeOK, KeySet
  <2>2. Len(SubSeq(k, N + 1, Len(k))) = Len(k) - N
    BY <1>2, <1>3, <1>4
  <2>3. Len(VaultWatchField(prefix, k)) = Len(k) - Len(prefix)
    BY <1>3, <1>4
  <2>4. Len(k) - Len(prefix) # Len(k) - N
    BY <1>2, <1>3, <1>4, <1>5
  <2>5. SplitKey(k)[2] # VaultWatchField(prefix, k)
    BY <1>4, <2>2, <2>3, <2>4
  <2> QED
    BY <1>5, <2>5 DEF WatchFindsFields
<1>6. CASE ~NamesStartAlike
  <2>1. Len(prefix) = N
    BY <1>2, <1>3, <1>6
  <2>2. TrimSlash(prefix) = P
    <3>1. TrimSlash(prefix) = SubSeq(prefix, 1, N - 1) /\ N - 1 = Len(P)
      BY <1>2, <1>3, <2>1 DEF TrimSlash, EndsInSlash
    <3>2. /\ SubSeq(prefix, 1, N - 1) \in Seq(Char)
          /\ Len(SubSeq(prefix, 1, N - 1)) = N - 1
          /\ \A j \in 1 .. N - 1 : SubSeq(prefix, 1, N - 1)[j] = prefix[j]
      BY <1>3, <2>1, FirstCharacters
    <3> QED
      BY <1>2, <1>3, <3>1, <3>2, SeqEqual
  <2>3. ASSUME NEW k \in KeySet
        PROVE  SplitKey(k) = <<VaultWatchPath(prefix),
                               VaultWatchField(prefix, k)>>
    BY <1>4, <2>1, <2>2 DEF VaultWatchPath
  <2> QED
    BY <1>6, <2>3 DEF WatchFindsFields
<1> QED
  BY <1>5, <1>6

\* etcd and Vault find the registered keys in exactly the cases named, for any
\* keys: a single key, keys that part inside a name, and fields that start
\* alike are missed, whatever the order of the keys.
THEOREM SiblingsFound == Spec => []SiblingsAreFound
<1>1. Inv => SiblingsAreFound
  BY EtcdKeysFound, VaultFieldsFound DEF SiblingsAreFound
<1> QED
  BY <1>1, Invariance, PTL

=============================================================================
