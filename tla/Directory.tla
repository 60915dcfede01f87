----------------------------- MODULE Directory -----------------------------
(***************************************************************************)
(* Where an action's message goes: src/business/actions/resolve-target.ts, *)
(* parseTarget of src/business/messaging/targets.ts, and the least         *)
(* recently used cache of names of src/business/messaging/directory.ts.    *)
(* Names are looked up in the default account, which is the one modelled.  *)
(***************************************************************************)
EXTENDS Member

CONSTANTS
    Group, NoTarget,
    MaxSize, DirectoryTtl

ASSUME DirectoryConstants ==
    /\ NoTarget \notin Users \cup Names \cup {Group}
    /\ MaxSize \in Nat \ {0} /\ DirectoryTtl \in Nat

VARIABLE directoryCache     \* the Map, least recently used first

DirectoryInit == directoryCache = <<>>

-----------------------------------------------------------------------------
(* DirectoryLRUCache *)

IsUsable(entry) == now <= entry.expiresAt

Others(entries, key) ==
    LET Other(entry) == entry.key # key IN SelectSeq(entries, Other)

\* get of a key that is there and usable: the entry moves to the end.
Touched(entries, key) ==
    LET entry == entries[CHOOSE i \in DOMAIN entries : entries[i].key = key] IN
    Append(Others(entries, key), entry)

\* set: the oldest entry leaves a full cache
WithEntry(entries, key, id) ==
    LET kept == Others(entries, key) IN
    Append(IF Len(kept) >= MaxSize THEN Tail(kept) ELSE kept,
           [key |-> key, id |-> id, expiresAt |-> now + DirectoryTtl])

-----------------------------------------------------------------------------
(* resolveUsername *)

CachedFor(asked) == {i \in DOMAIN directoryCache :
                        directoryCache[i].key = asked /\ IsUsable(directoryCache[i])}

\* exact matches first, then any
Best(asked) ==
    LET found == IF GroupIsKnown THEN LookupUsers(asked) ELSE {}
        exact == {u \in found : u.name = asked}
    IN  IF exact # {} THEN exact ELSE found

\* A message to a name goes to target; a name nobody has is taken literally.
ResolveUsername(asked, target) ==
    IF CachedFor(asked) # {}
      THEN /\ target = directoryCache[CHOOSE i \in CachedFor(asked) : TRUE].id
           /\ directoryCache' = Touched(directoryCache, asked)
      ELSE IF Best(asked) # {}
        THEN \E u \in Best(asked) :
               /\ target = u.id
               /\ directoryCache' =
                    WithEntry(WithEntry(WithEntry(Others(directoryCache, asked),
                                                  asked, u.id), u.name, u.id), u.id, u.id)
        ELSE target = asked /\ directoryCache' = Others(directoryCache, asked)

-----------------------------------------------------------------------------
\* parseTarget: a group, something that looks like an id, or a name
ParseTarget(to, target) ==
    IF to \in Names THEN ResolveUsername(to, target)
    ELSE target = to /\ UNCHANGED directoryCache

\* The target of the call, or else the group it comes from, or else none.
ResolveActionTarget(to, inGroup, target) ==
    IF to # NoTarget THEN ParseTarget(to, target)
    ELSE target = (IF inGroup THEN Group ELSE NoTarget) /\ UNCHANGED directoryCache
=============================================================================
