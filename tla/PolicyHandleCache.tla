-------------------------- MODULE PolicyHandleCache --------------------------
(***************************************************************************)
(* BoundedPolicyHandleCache: an OrderedDict of loaded policies, the least  *)
(* recently used first.                                                    *)
(***************************************************************************)
EXTENDS SequencesExt

CONSTANTS
    Policies,
    CacheSize   \* max_size

ASSUME CacheAssumption == CacheSize \in Nat \ {0}

Cached(cache, p) == p \in ToSet(cache)

\* popitem(last=False) until there is room for one more.
Evicted(cache) ==
    IF Len(cache) >= CacheSize THEN SubSeq(cache, Len(cache) - CacheSize + 2, Len(cache))
                               ELSE cache

\* Mutant of Touched: a hit leaves the entry where it is.
TouchedInPlace(cache, p) ==
    IF Cached(cache, p) THEN cache ELSE Append(Evicted(cache), p)

\* get: a hit moves the entry to the end, a miss inserts the loaded handle.
Touched(cache, p) ==
    IF Cached(cache, p)
      THEN LET i == CHOOSE i \in DOMAIN cache : cache[i] = p
           IN  Append(RemoveAt(cache, i), p)
      ELSE Append(Evicted(cache), p)

\* In a history of uses p came once more after the last use of q, if q has one.
UsedAfter(uses, p, q) ==
    \E k \in DOMAIN uses : uses[k] = p /\ \A j \in DOMAIN uses : uses[j] = q => j < k

\* The cache is the CacheSize policies used most recently, or all there are, in
\* the order of their last use.
MostRecent(cache, uses) ==
    /\ Len(cache) <= CacheSize /\ ToSet(cache) \subseteq ToSet(uses)
    /\ \A i, j \in DOMAIN cache : i < j => UsedAfter(uses, cache[j], cache[i])
    /\ \A p \in ToSet(uses) \ ToSet(cache) :
          Len(cache) = CacheSize /\ \A i \in DOMAIN cache : UsedAfter(uses, cache[i], p)
=============================================================================
