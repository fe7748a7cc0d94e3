----------------------------- MODULE PriceCache -----------------------------
(***************************************************************************)
(* BoundedLRUCache (stochopia/cache.py) as the deterministic pricing paths *)
(* use it: a sequence of entries, the one used longest ago first.          *)
(***************************************************************************)
EXTENDS Integers, Sequences, SequencesExt

Entry(key, value) == [key |-> key, value |-> value]

Holds(cache, key) == \E i \in DOMAIN cache : cache[i].key = key

\* Where a key that is held is; no key is held twice.
Place(cache, key) == CHOOSE i \in DOMAIN cache : cache[i].key = key

Without(cache, key) == IF Holds(cache, key) THEN RemoveAt(cache, Place(cache, key)) ELSE cache

\* Mutant: a key that is read does not move to the end.
TouchInPlace(cache, key) == cache

\* __getitem__ and get of a key that is held; "key in cache" goes through
\* __getitem__ as well.
Touch(cache, key) == Append(Without(cache, key), cache[Place(cache, key)])

\* __setitem__: the entry comes last and the oldest ones go.
Store(cache, key, value, size) ==
  LET longer == Append(Without(cache, key), Entry(key, value))
      excess == Len(longer) - size
  IN  IF excess <= 0 THEN longer ELSE SubSeq(longer, excess + 1, Len(longer))

Keys(cache) == [i \in DOMAIN cache |-> cache[i].key]

=============================================================================
