------------------------------- MODULE Member -------------------------------
(***************************************************************************)
(* What the account knows about the members of a group                     *)
(* (src/infra/cache/member.ts): the list the server returned, kept for     *)
(* GroupTtl, the speakers it has seen, kept for SessionTtl, and the uid of *)
(* the assistant, kept for ever.                                           *)
(*                                                                         *)
(* The server's list changes while requests for it are on their way; an    *)
(* answer carries the list as it was when the server handled the request.  *)
(* A request fails after RequestTimeout at the latest.                     *)
(***************************************************************************)
EXTENDS TtlDb

CONSTANTS
    Callers,        \* concurrent callers of getMembers
    Users, NoUser,
    Names,
    NameContains,   \* <<name, query>>: the name contains the query
    Rosters,        \* the member lists the server has one after the other
    Speakers,       \* [id, name] of users that write in the group
    GroupTtl, SessionTtl, RequestTimeout

MemberType == [id : Users, name : Names, type : {"user", "yuanbao", "bot"}]

ASSUME MemberConstants ==
    /\ Rosters \in Seq(SUBSET MemberType) /\ Rosters # <<>>
    /\ NameContains \subseteq Names \X Names
    /\ Speakers \subseteq [id : Users, name : Names] /\ NoUser \notin Users
    /\ GroupTtl \in Nat /\ SessionTtl \in Nat /\ RequestTimeout \in Nat

VARIABLES
    roster,         \* the server's list: a position in Rosters
    ended,          \* history: when each list stopped being the server's
    connected,      \* a client is registered and its state is "connected"
    cache,          \* GroupMember.cache: [version, at], version 0 if there is none
    session,        \* SessionMember.groupUsers: name and lastSeen, or none
    yuanbaoUserId,  \* yuanbaoUserIdCache
    query           \* what each caller of getMembers waits for

memberVars == <<cache, session, yuanbaoUserId>>
serverVars == <<roster, ended, connected>>

NoList == [version |-> 0, at |-> 0]
NoRecord == [known |-> FALSE]
NoQuery == [asked |-> FALSE]

MemberInit ==
    /\ roster = 1 /\ ended = [v \in DOMAIN Rosters |-> MaxTime] /\ connected = TRUE
    /\ cache = NoList
    /\ session = [u \in Users |-> NoRecord]
    /\ yuanbaoUserId = NoUser
    /\ query = [c \in Callers |-> NoQuery]

ListOf(entry) == IF entry.version = 0 THEN {} ELSE Rosters[entry.version]

-----------------------------------------------------------------------------
(* The environment *)

RosterChanges ==
    /\ roster < Len(Rosters)
    /\ roster' = roster + 1 /\ ended' = [ended EXCEPT ![roster] = now]
    /\ UNCHANGED connected

ConnectionChanges == connected' = ~connected /\ UNCHANGED <<roster, ended>>

\* The server handles the request of c.
ServerAnswers(c) ==
    /\ query[c].asked /\ query[c].answer = 0
    /\ query' = [query EXCEPT ![c].answer = roster]

-----------------------------------------------------------------------------
(* SessionMember *)

Recorded(name) == [known |-> TRUE, name |-> name, lastSeen |-> now]

\* recordUser; the clean-up of old records happens here and nowhere else.
RecordUser(id, name) ==
    session' = [u \in Users |->
                  IF u = id THEN Recorded(name)
                  ELSE IF session[u].known /\ now - session[u].lastSeen > SessionTtl
                    THEN NoRecord ELSE session[u]]

\* upsertUser for every member of a fetched list; lastSeen is kept if there is one
Upserted(list) ==
    [u \in Users |->
       IF \E m \in list : m.id = u
         THEN [Recorded((CHOOSE m \in list : m.id = u).name) EXCEPT
                 !.lastSeen = IF session[u].known THEN session[u].lastSeen ELSE @]
         ELSE session[u]]

-----------------------------------------------------------------------------
(* GroupMember.getMembers and fetchFromApi *)

IsFresh(entry) == entry.version # 0 /\ now - entry.at < GroupTtl

\* Does getMembers have to wait for the server?
MustAsk == ~IsFresh(cache) /\ connected

\* It waits; what was cached is kept for the case that the request fails.
Ask(c) ==
    query' = [query EXCEPT ![c] =
                [asked |-> TRUE, at |-> now, cached |-> cache, answer |-> 0]]

\* Mutant: the list returned in place of a failed answer counts as fetched now.
FetchedWithStale(c, ok) ==
    LET version == IF ok THEN query[c].answer ELSE query[c].cached.version IN
    /\ cache' = IF version # 0 THEN [version |-> version, at |-> now] ELSE cache
    /\ session' = IF ok THEN Upserted(Rosters[version]) ELSE session

\* The answer is cached unless it is an empty list.
Fetched(c, ok) ==
    LET version == query[c].answer IN
    IF ok /\ Rosters[version] # {}
      THEN /\ cache' = [version |-> version, at |-> now]
           /\ session' = Upserted(Rosters[version])
      ELSE UNCHANGED <<cache, session>>

\* The list getMembers returns after that.
Returned(c, ok) ==
    IF ok /\ Rosters[query[c].answer] # {} THEN Rosters[query[c].answer]
    ELSE ListOf(query[c].cached)

\* The request of c settles: an answer, an error code, a timeout.
CanSettle(c, ok) == query[c].asked /\ (ok => query[c].answer # 0)
Forgets(c) == query' = [query EXCEPT ![c] = NoQuery]

-----------------------------------------------------------------------------
(* Look-ups, and the uid of the assistant *)

\* lookupUserByNickName: the cached list, however old, then the speakers
ByNickName(list, users, name) ==
    LET listed == {m.id : m \in {x \in list : x.name = name}}
        spoken == {u \in Users : users[u].known /\ users[u].name = name}
    IN  IF listed # {} THEN listed ELSE spoken

\* lookupUsers: what the cached list has under a name that contains the query,
\* or else the speakers
LookupUsers(asked) ==
    LET listed == {[id |-> m.id, name |-> m.name] :
                     m \in {x \in ListOf(cache) : <<x.name, asked>> \in NameContains}}
        spoken == {[id |-> u, name |-> session[u].name] :
                     u \in {x \in Users : session[x].known /\ <<session[x].name, asked>> \in NameContains}}
    IN  IF listed # {} THEN listed ELSE spoken

\* listGroupCodes is empty as long as no speaker of the group is known.
GroupIsKnown == \E u \in Users : session[u].known

\* queryYuanbaoUserId with the list getMembers returned
UidIn(list) ==
    LET ids(type) == {m.id : m \in {x \in list : x.type = type}} IN
    IF ids("yuanbao") # {} THEN ids("yuanbao")
    ELSE IF ids("bot") # {} THEN ids("bot") ELSE {NoUser}

-----------------------------------------------------------------------------
\* A cached list was the server's at most one request before the time it is
\* stamped with, in whatever order answers arrive and requests fail: within
\* GroupTtl of that time it may be used without asking.
CacheKnowsItsAge ==
    cache.version # 0 => ended[cache.version] >= cache.at - RequestTimeout
=============================================================================
