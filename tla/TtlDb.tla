------------------------------- MODULE TtlDb -------------------------------
(***************************************************************************)
(* InMemoryTtlDb (src/infra/cache/ttl-db.ts) as src/infra/transport.ts     *)
(* uses it: a map whose keys expire, with a clean-up that runs at most     *)
(* once per interval and a limit on the number of keys.  Expired keys stay *)
(* in the map, and count for the limit, until one of the two removes them. *)
(***************************************************************************)
EXTENDS Integers, Sequences, FiniteSets

CONSTANTS
    TtlMs,
    MaxKeys,
    CleanupMinInterval,
    MaxTime         \* bound of the clock

ASSUME TtlDbConstants ==
    TtlMs \in Nat /\ MaxKeys \in Nat \ {0} /\ CleanupMinInterval \in Nat /\ MaxTime \in Nat

VARIABLES
    now,            \* Date.now()
    store,          \* the Map: a set of entries, with their place in its order
    inserted,       \* keys that were ever inserted
    lastCleanupAt

storeVars == <<store, inserted, lastCleanupAt>>

TtlDbInit == now = 0 /\ store = {} /\ inserted = 0 /\ lastCleanupAt = 0

IsValid(entry) == entry.expiresAt > now

Has(key) == \E e \in store : e.key = key /\ IsValid(e)

AfterCleanup ==
    IF now - lastCleanupAt < CleanupMinInterval THEN store ELSE {e \in store : IsValid(e)}

\* Sorting by expiry is stable: of two that expire together the older one is first.
Before(e, f) == e.expiresAt < f.expiresAt \/ (e.expiresAt = f.expiresAt /\ e.nr < f.nr)

\* Mutant: the last to expire goes, which is the new one.
EvictedLatest(entries) ==
    IF Cardinality(entries) <= MaxKeys THEN entries
    ELSE {e \in entries : \E f \in entries : Before(e, f)}

\* evictOverflow: one key at most is too many, and the first to expire goes.
Evicted(entries) ==
    IF Cardinality(entries) <= MaxKeys THEN entries
    ELSE {e \in entries : \E f \in entries : Before(f, e)}

CleanedUp ==
    lastCleanupAt' = IF now - lastCleanupAt < CleanupMinInterval THEN lastCleanupAt ELSE now

\* has(key) and, if that is false, set(key), in one turn; has deletes the key if
\* it finds it expired.
HasOrSet(key) ==
    /\ store' = IF Has(key) THEN AfterCleanup
                ELSE Evicted({e \in AfterCleanup : e.key # key}
                             \cup {[key |-> key, expiresAt |-> now + TtlMs, nr |-> inserted]})
    /\ inserted' = IF Has(key) THEN inserted ELSE inserted + 1
    /\ CleanedUp
=============================================================================
