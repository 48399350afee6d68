----------------------------- MODULE LruHashMap -----------------------------
(***************************************************************************)
(* The access-ordered map LruCache keeps its entries in                    *)
(* (jsMain/.../internal/LruHashMap.kt; LruHashMap.jvm.kt and               *)
(* LruHashMap.native.kt behave alike).  A map is the sequence of its       *)
(* entries, eldest first: get and put take the entry out of its place and  *)
(* add it again at the end.                                                *)
(***************************************************************************)
EXTENDS Sequences
Seqs == INSTANCE SequencesExt

CONSTANT NoValue    \* Kotlin's null

KeysOf(map) == {map[i].key : i \in DOMAIN map}

ValuesOf(map) == {map[i].value : i \in DOMAIN map}

IndexOfKey(map, key) == CHOOSE i \in DOMAIN map : map[i].key = key

Lookup(map, key) ==
    IF key \in KeysOf(map) THEN map[IndexOfKey(map, key)].value ELSE NoValue

\* remove(key)
Without(map, key) ==
    IF key \in KeysOf(map) THEN Seqs!RemoveAt(map, IndexOfKey(map, key)) ELSE map

\* put(key, value): the previous value is Lookup(map, key)
With(map, key, value) ==
    Append(Without(map, key), [key |-> key, value |-> value])

\* get(key): a hit moves the entry to the end
Touched(map, key) ==
    IF key \in KeysOf(map) THEN With(map, key, Lookup(map, key)) ELSE map

\* entries.firstOrNull() of a map that is not empty
Eldest(map) == Head(map)
=============================================================================
