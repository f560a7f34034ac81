------------------------------ MODULE KeyPaths ------------------------------
(***************************************************************************)
(* How the providers turn the registered keys into what they watch:        *)
(* CommonPrefix of provider/provider.go, run step by step, and the range,  *)
(* pattern, secret path and field names etcd, redis and vault derive from  *)
(* its result.  A string is a sequence of characters; Start builds keys    *)
(* by walking a Go map, so they come in any order.                         *)
(***************************************************************************)
EXTENDS Naturals, Sequences

CONSTANTS
    Char,     \* the characters keys are made of
    Slash,    \* "/"
    MaxLen,   \* bound: the length of a key
    MaxKeys   \* bound: the number of keys

ASSUME KeyPathsAssumption ==
    /\ Slash \in Char
    /\ MaxLen \in Nat
    /\ MaxKeys \in Nat \ {0}

VARIABLES
    keys,     \* the argument
    i,        \* the key the outer loop is at
    prefix,   \* the local variable
    pc        \* "loop" or "done"

vars == <<keys, i, prefix, pc>>

\* Every non-empty string of at most MaxLen characters.
Keys == UNION {[1 .. n -> Char] : n \in 1 .. MaxLen}

\* strings.HasPrefix
HasPrefix(s, p) == Len(p) <= Len(s) /\ SubSeq(s, 1, Len(p)) = p

\* strings.HasSuffix(s, "/")
EndsInSlash(s) == s # << >> /\ s[Len(s)] = Slash

\* strings.TrimPrefix
TrimPrefix(s, p) == IF HasPrefix(s, p) THEN SubSeq(s, Len(p) + 1, Len(s)) ELSE s

\* strings.TrimSuffix(s, "/")
TrimSlash(s) == IF EndsInSlash(s) THEN SubSeq(s, 1, Len(s) - 1) ELSE s

Init ==
    /\ \E n \in 1 .. MaxKeys :
          \E ks \in [1 .. n -> Keys] :
             /\ \A m1, m2 \in 1 .. n : m1 # m2 => ks[m1] # ks[m2]
             /\ keys = ks
    /\ i = 2
    /\ prefix = keys[1]
    /\ pc = "loop"

\* keys[i] has the prefix: on to the next key.
NextKey ==
    /\ pc = "loop"
    /\ i <= Len(keys)
    /\ HasPrefix(keys[i], prefix)
    /\ i' = i + 1
    /\ UNCHANGED <<keys, prefix, pc>>

\* Mutant: the inner loop runs once per key only.
ShortenOnce ==
    /\ pc = "loop"
    /\ i <= Len(keys)
    /\ ~HasPrefix(keys[i], prefix)
    /\ prefix # << >>
    /\ prefix' = SubSeq(prefix, 1, Len(prefix) - 1)
    /\ i' = i + 1
    /\ UNCHANGED <<keys, pc>>

\* It has not: drop the last character.
Shorten ==
    /\ pc = "loop"
    /\ i <= Len(keys)
    /\ ~HasPrefix(keys[i], prefix)
    /\ prefix # << >>
    /\ prefix' = SubSeq(prefix, 1, Len(prefix) - 1)
    /\ UNCHANGED <<keys, i, pc>>

Done ==
    /\ pc = "loop"
    /\ i > Len(keys)
    /\ pc' = "done"
    /\ UNCHANGED <<keys, i, prefix>>

Next == NextKey \/ Shorten \/ Done

Spec == Init /\ [][Next]_vars

-----------------------------------------------------------------------------
(* What the providers make of the result.                                  *)

\* etcd: the range that is read and watched.
EtcdRange(p) ==
    IF EndsInSlash(p) THEN p ELSE Append(p, Slash)

\* Mutant: the slash is left on the secret path.
VaultPathUntrimmed(p) == p

\* vault: the secret Watch reads, and the field it looks up for a key.
VaultWatchPath(p) == TrimSlash(p)
VaultWatchField(p, k) == TrimPrefix(k, p)

\* vault: splitKey, the secret and the field Get reads for a key.
LastSlash(k) == {n \in 1 .. Len(k) : k[n] = Slash /\
                                     \A m \in n + 1 .. Len(k) : k[m] # Slash}
SplitKey(k) ==
    IF LastSlash(k) = {} THEN << << >>, k >>
    ELSE LET n == CHOOSE x \in LastSlash(k) : TRUE
         IN  <<SubSeq(k, 1, n - 1), SubSeq(k, n + 1, Len(k))>>

-----------------------------------------------------------------------------
(* Properties.                                                             *)

KeySet == {keys[m] : m \in 1 .. Len(keys)}

IsCommonPrefix(p) == \A k \in KeySet : HasPrefix(k, p)

\* CommonPrefix returns the longest string every key starts with, so its
\* result does not depend on the order of the map walk.
LongestCommonPrefix ==
    pc = "done" =>
        /\ IsCommonPrefix(prefix)
        /\ \A k \in KeySet : \A n \in 0 .. Len(k) :
              IsCommonPrefix(SubSeq(k, 1, n)) => n <= Len(prefix)

\* One etcd range covers every registered key ("Watch monitors all keys
\* under a common prefix using a single etcd Watch call", etcd.go).
EtcdCoversKeys ==
    pc = "done" => \A k \in KeySet : HasPrefix(k, EtcdRange(prefix))

\* The registered keys are the fields of one secret P: P/x, P/y, ...
OneSecret ==
    \E P \in {SplitKey(k)[1] : k \in KeySet} :
        P # << >> /\ \A k \in KeySet : SplitKey(k)[1] = P

\* Vault's Watch finds a key where Vault's Get does: in the secret P, in the
\* field named after it ("With `Prefix: "myapp/"` the secret lives at
\* `<mount>/myapp` with fields named after each key", README.md).
WatchFindsFields == \A k \in KeySet :
    SplitKey(k) = <<VaultWatchPath(prefix), VaultWatchField(prefix, k)>>

\* The field names of that secret all begin with the same character (as the
\* only name of a single key does), so the common prefix ends inside them.
NamesStartAlike == \E c \in Char : \A k \in KeySet :
    LET name == SplitKey(k)[2] IN name # << >> /\ name[1] = c

\* etcd's range covers the keys exactly when the common prefix ends at a slash.
EtcdFindsKeys ==
    (\A k \in KeySet : HasPrefix(k, EtcdRange(prefix)))
        <=> EndsInSlash(prefix)

\* Vault's Watch finds the fields exactly when their names do not start alike.
VaultFindsFields == OneSecret => (WatchFindsFields <=> ~NamesStartAlike)

\* Exactly when the two promises hold.  In every other case the provider
\* misses keys, although the comment of etcd.go and README.md say otherwise.
SiblingsAreFound == pc = "done" => EtcdFindsKeys /\ VaultFindsFields

=============================================================================
