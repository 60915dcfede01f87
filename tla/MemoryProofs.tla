---------------------------- MODULE MemoryProofs ----------------------------
(***************************************************************************)
(* Proofs about what the plugin keeps in memory from one request to the    *)
(* next.  TokenCache, for any number of callers and fetches: a cached      *)
(* token always has a timer, and a request sent again after a 401 carries  *)
(* a token fetched after it.  GroupHistory, for any number of messages and *)
(* lanes and any size of the lists: what was answered is not shown again,  *)
(* a recall is final, and no reply loses a message of its own lane.        *)
(***************************************************************************)
EXTENDS TokenCache, GroupHistory, TLAPS

-----------------------------------------------------------------------------
(* The sign-token cache *)

\* The handle that is kept belongs to a timer that is armed, and so does one of
\* the timers while a token is cached.
TimersInv ==
    /\ armed \in [TimerKinds -> Nat]
    /\ timer \in TimerKinds \cup {"none"}
    /\ timer # "none" => armed[timer] > 0
    /\ RefreshPlanned

-----------------------------------------------------------------------------
\* A forced refresh has no token to look after.
LEMMA ForcedTimers ==
    ASSUME TimersInv, NEW who, NEW tmr \in [TimerKinds -> Nat], ForceRefresh(who, tmr)
    PROVE  TimersInv'
BY DEF TimersInv, ForceRefresh, RefreshPlanned

\* clearTimeout is called for a timer that is armed.
LEMMA ClearedTyped == TimersInv => TimerCleared \in [TimerKinds -> Nat]
BY DEF TimersInv, TimerCleared, TimerKinds

\* Nothing is cached.
LEMMA TimersInit == Init => TimersInv
BY DEF Init, TimersInv, RefreshPlanned

\* Whatever ends a timer fetches, and whatever caches a token arms one.
LEMMA TimersNext == TimersInv /\ [Next]_vars => TimersInv'
<1>. SUFFICES ASSUME TimersInv, [Next]_vars PROVE TimersInv'
  OBVIOUS
<1>1. ASSUME UNCHANGED <<cacheVars, timerVars>> PROVE TimersInv'
  BY <1>1 DEF TimersInv, RefreshPlanned, cacheVars, timerVars
<1>2. CASE \E c \in Callers : Call(c) \/ Headers(c) \/ Answered(c)
  <2>. QED  BY <1>1, <1>2 DEF Call, Headers, UseCached, Join, FetchAnew, Answered
<1>3. CASE \E c \in Callers : Unauthorized(c) \/ Renew(c)
  BY <1>3, ForcedTimers, ClearedTyped DEF Unauthorized, Renew
<1>4. CASE \E f \in Fetches : FetchFails(f)
  BY <1>4, <1>1 DEF FetchFails, TimersInv, RefreshPlanned, TimerKinds, cacheVars, timerVars
<1>5. CASE \E f \in Fetches, b \in BOOLEAN : FetchSucceeds(f, b)
  BY <1>5, <1>1, ClearedTyped DEF FetchSucceeds, TimersInv, RefreshPlanned, TimerKinds
<1>6. CASE \E k \in TimerKinds : TimerFires(k)
  <2>. PICK k \in TimerKinds : TimerFires(k)
    BY <1>6
  <2>1. [armed EXCEPT ![k] = @ - 1] \in [TimerKinds -> Nat]
    BY DEF TimerFires, TimersInv, TimerKinds
  <2>. QED  BY <2>1, ForcedTimers DEF TimerFires
<1>7. CASE Expire
  BY <1>7 DEF Expire, TimersInv, RefreshPlanned, timerVars
<1>8. CASE UNCHANGED vars
  BY <1>8, <1>1 DEF vars
<1>. QED  BY <1>2, <1>3, <1>4, <1>5, <1>6, <1>7, <1>8 DEF Next, Settles

\* A cached token always has a timer that will refresh it.
THEOREM TokensAreRenewed == Spec => []RefreshPlanned
<1>1. TimersInv => RefreshPlanned
  BY DEF TimersInv
<1>. QED  BY <1>1, TimersInit, TimersNext, PTL DEF Spec

-----------------------------------------------------------------------------
\* Where a caller whose request met a 401 is, and which token waits for it: the
\* fetch it forced, then that fetch's token in the cache, then that token in its
\* request.  Only when that token may not be cached may there be another.
RetryOf(c) ==
    /\ pc[c] = "forcing" => renewal[c] = waits[c] /\ attempt[c] = 0
    /\ pc[c] = "ready" /\ attempt[c] = 1 =>
          (token = renewal[c] /\ ~expired /\ token # None) \/ renewal[c] \in uncached
    /\ pc[c] = "headers" /\ attempt[c] = 1 => renewal[c] \in uncached
    /\ pc[c] = "sending" /\ attempt[c] = 1 => sent[c] = renewal[c] \/ renewal[c] \in uncached
    /\ pc[c] \in {"idle", "renewing"} => attempt[c] = 0

CallersTyped ==
    /\ pc \in [Callers -> {"idle", "ready", "headers", "sending", "forcing", "renewing"}]
    /\ waits \in [Callers -> 0..MaxFetches]
    /\ attempt \in [Callers -> 0..1]
    /\ sent \in [Callers -> 0..MaxFetches]
    /\ renewal \in [Callers -> 0..MaxFetches]

RetryInv ==
    /\ CallersTyped
    /\ started \in 0..MaxFetches /\ token \in 0..MaxFetches
    /\ fetchPromise \in 0..MaxFetches
    /\ \A c \in Callers : RetryOf(c)

\* Nobody has called.
LEMMA RetryInit == Init => RetryInv
BY TokenConstants DEF Init, RetryInv, CallersTyped, RetryOf, None

\* A caller's own step.
LEMMA HeadersRetry ==
    ASSUME RetryInv, NEW c \in Callers, Headers(c)
    PROVE  RetryInv'
<1>1. CallersTyped'
  <2>1. started + 1 \in 0..MaxFetches \/ ~FetchAnew(c)
    BY TokenConstants DEF RetryInv, FetchAnew, StartFetch
  <2>. QED  BY <2>1 DEF RetryInv, CallersTyped, Headers, UseCached, Join, FetchAnew, historyVars
<1>2. started' \in 0..MaxFetches /\ token' \in 0..MaxFetches /\ fetchPromise' \in 0..MaxFetches
  BY TokenConstants
  DEF RetryInv, Headers, UseCached, Join, FetchAnew, StartFetch, fetchVars, cacheVars
<1>3. ASSUME NEW d \in Callers PROVE RetryOf(d)'
  BY <1>3 DEF RetryInv, CallersTyped, RetryOf, Headers, UseCached, Join, FetchAnew, StartFetch,
     cacheVars, historyVars
<1>. QED  BY <1>1, <1>2, <1>3 DEF RetryInv

\* A forced refresh comes when nobody is about to read the cache.
LEMMA ForcedRetry ==
    ASSUME RetryInv, Idle, NEW who, NEW tmr, ForceRefresh(who, tmr)
    PROVE  /\ started' \in 0..MaxFetches /\ token' \in 0..MaxFetches /\ fetchPromise' \in 0..MaxFetches
           /\ \A d \in Callers : UNCHANGED <<pc[d], waits[d], attempt[d], sent[d], renewal[d]>> => RetryOf(d)'
<1>1. started' \in 0..MaxFetches /\ token' \in 0..MaxFetches /\ fetchPromise' \in 0..MaxFetches
  BY TokenConstants DEF RetryInv, ForceRefresh, StartFetch, None
<1>2. ASSUME NEW d \in Callers, UNCHANGED <<pc[d], waits[d], attempt[d], sent[d], renewal[d]>>
      PROVE  RetryOf(d)'
  BY <1>2 DEF RetryInv, RetryOf, ForceRefresh, Idle
<1>. QED  BY <1>1, <1>2

\* A call, and the answers to its request.
LEMMA CallerRetry ==
    ASSUME RetryInv, NEW c \in Callers, Call(c) \/ Unauthorized(c) \/ Answered(c) \/ Renew(c)
    PROVE  RetryInv'
<1>1. CallersTyped'
  BY TokenConstants
  DEF RetryInv, CallersTyped, Call, Unauthorized, Answered, Renew, ForceRefresh, StartFetch,
    historyVars, None
<1>2. CASE Call(c) \/ Answered(c)
  <2>1. ASSUME NEW d \in Callers PROVE RetryOf(d)'
    BY <1>2, <2>1 DEF RetryInv, CallersTyped, RetryOf, Call, Answered, cacheVars, historyVars
  <2>. QED  BY <1>1, <1>2, <2>1 DEF RetryInv, Call, Answered, fetchVars, cacheVars
<1>3. CASE Unauthorized(c) \/ Renew(c)
  <2>1. Idle /\ ForceRefresh("call", TimerCleared)
    BY <1>3 DEF Unauthorized, Renew
  <2>2. RetryOf(c)'
    BY <1>3 DEF RetryInv, CallersTyped, RetryOf, Unauthorized, Renew, Idle
  <2>3. ASSUME NEW d \in Callers, d # c PROVE UNCHANGED <<pc[d], waits[d], attempt[d], sent[d], renewal[d]>>
    BY <1>3, <2>3 DEF RetryInv, CallersTyped, Unauthorized, Renew
  <2>. QED  BY <1>1, <2>1, <2>2, <2>3, ForcedRetry DEF RetryInv
<1>. QED  BY <1>2, <1>3

\* A fetch settles, and those who waited for it go on.
LEMMA SettlesRetry ==
    ASSUME RetryInv, NEW f \in Fetches, Settles(f)
    PROVE  RetryInv'
<1>1. CallersTyped'
  BY TokenConstants
  DEF RetryInv, CallersTyped, Settles, FetchFails, FetchSucceeds, ResumeOk, ResumeFailed,
    Fetches, None
<1>2. started' \in 0..MaxFetches /\ token' \in 0..MaxFetches /\ fetchPromise' \in 0..MaxFetches
  BY TokenConstants DEF RetryInv, Settles, FetchFails, FetchSucceeds, cacheVars, Fetches, None
<1>3. ASSUME NEW d \in Callers PROVE RetryOf(d)'
  <2>1. CASE FetchFails(f)
    BY <1>3, <2>1 DEF RetryInv, CallersTyped, RetryOf, FetchFails, ResumeFailed, Waiting, Idle
  <2>2. ASSUME NEW b \in BOOLEAN, FetchSucceeds(f, b) PROVE RetryOf(d)'
    BY <1>3, <2>2
    DEF RetryInv, CallersTyped, RetryOf, FetchSucceeds, ResumeOk, Waiting, Idle, Fetches,
      None, cacheVars
  <2>. QED  BY <2>1, <2>2 DEF Settles
<1>. QED  BY <1>1, <1>2, <1>3 DEF RetryInv

\* Every step keeps what is known of each call.
LEMMA RetryNext == RetryInv /\ [Next]_vars => RetryInv'
<1>. SUFFICES ASSUME RetryInv, [Next]_vars PROVE RetryInv'
  OBVIOUS
<1>1. CASE \E c \in Callers : Call(c) \/ Headers(c) \/ Unauthorized(c) \/ Answered(c) \/ Renew(c)
  BY <1>1, HeadersRetry, CallerRetry
<1>2. CASE \E f \in Fetches : Settles(f)
  BY <1>2, SettlesRetry
<1>3. CASE \E k \in TimerKinds : TimerFires(k)
  <2>1. Idle /\ UNCHANGED <<callerVars, renewal>> /\ \E who, tmr : ForceRefresh(who, tmr)
    BY <1>3 DEF TimerFires
  <2>2. CallersTyped'
    BY <2>1 DEF RetryInv, CallersTyped, callerVars
  <2>. QED  BY <2>1, <2>2, ForcedRetry DEF RetryInv, callerVars
<1>4. CASE Expire
  <2>1. ASSUME NEW d \in Callers PROVE RetryOf(d)'
    BY <1>4, <2>1 DEF RetryInv, RetryOf, Expire, Idle, callerVars, historyVars
  <2>. QED  BY <1>4, <2>1 DEF RetryInv, CallersTyped, Expire, fetchVars, callerVars, historyVars
<1>5. CASE UNCHANGED vars
  BY <1>5
  DEF RetryInv, CallersTyped, RetryOf, vars, fetchVars, cacheVars, callerVars, historyVars
<1>. QED  BY <1>1, <1>2, <1>3, <1>4, <1>5 DEF Next

\* A request sent again after a 401 carries a token fetched after that 401,
\* whoever else fetches, refreshes or expires tokens in between - unless the
\* fetched one may not be cached.
THEOREM RetriesAreFresh == Spec => []RetryIsFresh
<1>1. RetryInv => RetryIsFresh
  BY DEF RetryInv, CallersTyped, RetryOf, RetryIsFresh
<1>. QED  BY <1>1, RetryInit, RetryNext, PTL DEF Spec

-----------------------------------------------------------------------------
(* The history of a group *)

\* A message waits in one place, and only before it is recorded.
WaitsOnce ==
    /\ \A l, k \in Lanes : \A i \in DOMAIN lane[l], j \in DOMAIN lane[k] :
         lane[l][i] = lane[k][j] => l = k /\ i = j
    /\ \A l \in Lanes : \A i \in DOMAIN lane[l] :
         kind[lane[l][i]] # "unsent" /\ lane[l][i] \notin recorded

\* The history holds messages that were recorded, each once.
RecordedOnce ==
    /\ IsInjective(history) /\ ToSet(history) \subseteq recorded
    /\ \A m \in recorded : kind[m] # "unsent"
    /\ HistoryLimit = 0 => history = <<>>

\* What a reply was given had been recorded.
ContextKnown ==
    /\ \A l \in Lanes : context[l] \subseteq recorded \cap shown
    /\ settled \subseteq recorded

HistoryInv ==
    /\ HistoryTypeOK /\ WaitsOnce /\ RecordedOnce /\ ContextKnown
    /\ NotShownAgain /\ RecalledStaysOut

-----------------------------------------------------------------------------
(* Lists *)

\* Appending to a list.
LEMMA Appended ==
    ASSUME NEW S, NEW s \in Seq(S), NEW e \in S
    PROVE  /\ Append(s, e) \in Seq(S) /\ Len(Append(s, e)) = Len(s) + 1
           /\ Append(s, e)[1] = IF s = <<>> THEN e ELSE s[1]
           /\ ToSet(Append(s, e)) = ToSet(s) \cup {e}
           /\ IsInjective(s) /\ e \notin ToSet(s) => IsInjective(Append(s, e))
<1>. DEFINE a == Append(s, e)
<1>1. /\ a \in Seq(S) /\ Len(a) = Len(s) + 1
      /\ DOMAIN s = 1 .. Len(s) /\ DOMAIN a = 1 .. Len(s) + 1 /\ Len(s) \in Nat
      /\ \A i \in 1 .. Len(s) : a[i] = s[i]
      /\ a[Len(s) + 1] = e
      /\ a[1] = IF s = <<>> THEN e ELSE s[1]
  OBVIOUS
<1>. HIDE DEF a
<1>2. ToSet(a) \subseteq ToSet(s) \cup {e}
  <2>1. ASSUME NEW i \in 1 .. Len(s) + 1 PROVE a[i] \in ToSet(s) \cup {e}
    BY <1>1 DEF ToSet
  <2>. QED  BY <1>1, <2>1 DEF ToSet
<1>3. ToSet(s) \cup {e} \subseteq ToSet(a)
  <2>1. e \in ToSet(a)
    BY <1>1 DEF ToSet
  <2>2. ASSUME NEW i \in 1 .. Len(s) PROVE s[i] \in ToSet(a)
    BY <1>1 DEF ToSet
  <2>. QED  BY <1>1, <2>1, <2>2 DEF ToSet
<1>4. ASSUME IsInjective(s), e \notin ToSet(s) PROVE IsInjective(a)
  BY <1>1, <1>4 DEF ToSet, IsInjective
<1>. QED  BY <1>1, <1>2, <1>3, <1>4 DEF a

\* Taking the first entry from a list.
LEMMA Taken ==
    ASSUME NEW S, NEW s \in Seq(S), s # <<>>
    PROVE  /\ Tail(s) \in Seq(S) /\ Head(s) = s[1] /\ 1 \in DOMAIN s
           /\ \A i \in DOMAIN Tail(s) : i + 1 \in DOMAIN s /\ Tail(s)[i] = s[i + 1] /\ i \in Nat /\ i > 0
OBVIOUS

\* Cutting a list leaves entries of the list, in their order, and no more than
\* it may have; only a list with one entry too many loses its first.
LEMMA Cut ==
    ASSUME NEW S, NEW s \in Seq(S), NEW n \in Nat
    PROVE  /\ Newest(s, n) \in Seq(S) /\ Len(Newest(s, n)) <= n
           /\ ToSet(Newest(s, n)) \subseteq ToSet(s)
           /\ IsInjective(s) => IsInjective(Newest(s, n))
           /\ Len(s) <= n => Newest(s, n) = s
           /\ Len(s) = n + 1 => /\ Len(Newest(s, n)) = n
                                /\ ToSet(s) \subseteq ToSet(Newest(s, n)) \cup {s[1]}
<1>1. CASE Len(s) <= n
  BY <1>1 DEF Newest
<1>2. CASE Len(s) > n
  <2>. DEFINE d == Len(s) - n
              c == Newest(s, n)
  <2>1. /\ c \in Seq(S) /\ Len(c) = n /\ d \in Nat /\ DOMAIN c = 1 .. n /\ DOMAIN s = 1 .. n + d
        /\ \A i \in 1 .. n : c[i] = s[i + d]
    BY <1>2 DEF Newest
  <2>. HIDE DEF c, d
  <2>2. ToSet(c) \subseteq ToSet(s)
    <3>1. ASSUME NEW i \in 1 .. n PROVE c[i] \in ToSet(s)
      <4>1. i + d \in 1 .. n + d
        BY <2>1
      <4>. QED  BY <2>1, <4>1 DEF ToSet
    <3>. QED  BY <2>1, <3>1 DEF ToSet
  <2>3. IsInjective(s) => IsInjective(c)
    BY <2>1 DEF IsInjective
  <2>4. ASSUME Len(s) = n + 1 PROVE ToSet(s) \subseteq ToSet(c) \cup {s[1]}
    <3>1. d = 1
      BY <2>4 DEF d
    <3>2. ASSUME NEW i \in 1 .. n + 1, i # 1 PROVE s[i] = c[i - 1] /\ i - 1 \in 1 .. n
      BY <2>1, <3>1, <3>2
    <3>3. ASSUME NEW i \in 1 .. n + 1 PROVE s[i] \in ToSet(c) \cup {s[1]}
      <4>1. CASE i # 1
        BY <2>1, <3>2, <4>1 DEF ToSet
      <4>. QED  BY <4>1
    <3>. QED  BY <2>1, <3>1, <3>3 DEF ToSet
  <2>. QED  BY <1>2, <2>1, <2>2, <2>3, <2>4 DEF c
<1>. QED  BY <1>1, <1>2

\* Removing an entry from a list that has it once.
LEMMA Removed ==
    ASSUME NEW S, NEW s \in Seq(S), NEW i \in DOMAIN s, IsInjective(s)
    PROVE  /\ RemoveAt(s, i) \in Seq(S) /\ Len(RemoveAt(s, i)) = Len(s) - 1
           /\ ToSet(RemoveAt(s, i)) = ToSet(s) \ {s[i]}
           /\ IsInjective(RemoveAt(s, i))
<1>. DEFINE r == RemoveAt(s, i)
            n == Len(s)
            a == SubSeq(s, 1, i - 1)
            b == SubSeq(s, i + 1, n)
<1>1. i \in 1 .. n /\ n \in Nat /\ DOMAIN s = 1 .. n
  OBVIOUS
<1>2. a \in Seq(S) /\ Len(a) = i - 1 /\ \A j \in 1 .. i - 1 : a[j] = s[j]
  BY <1>1
<1>3. b \in Seq(S) /\ Len(b) = n - i /\ \A j \in 1 .. n - i : b[j] = s[i + j]
  BY <1>1
<1>4. r = a \o b
  BY DEF RemoveAt
<1>. HIDE DEF r, a, b, n
<1>5. /\ r \in Seq(S) /\ Len(r) = n - 1 /\ DOMAIN r = 1 .. n - 1
      /\ \A j \in 1 .. n - 1 : r[j] = IF j <= i - 1 THEN a[j] ELSE b[j - (i - 1)]
  <2>1. /\ r \in Seq(S) /\ Len(r) = Len(a) + Len(b) /\ DOMAIN r = 1 .. Len(a) + Len(b)
        /\ \A j \in 1 .. Len(a) + Len(b) : r[j] = IF j <= Len(a) THEN a[j] ELSE b[j - Len(a)]
    BY <1>2, <1>3, <1>4
  <2>2. Len(a) + Len(b) = n - 1
    BY <1>1, <1>2, <1>3
  <2>. QED  BY <1>2, <2>1, <2>2
<1>6. ASSUME NEW j \in 1 .. n - 1, j < i PROVE r[j] = s[j]
  BY <1>1, <1>2, <1>5, <1>6
<1>7. ASSUME NEW j \in 1 .. n - 1, j >= i PROVE r[j] = s[j + 1]
  <2>1. j - (i - 1) \in 1 .. n - i /\ i + (j - (i - 1)) = j + 1 /\ ~ (j <= i - 1)
    BY <1>1, <1>7
  <2>2. r[j] = b[j - (i - 1)]
    BY <1>5, <2>1
  <2>. QED  BY <1>3, <2>1, <2>2
<1>. DEFINE from(j) == IF j < i THEN j ELSE j + 1
<1>8. ASSUME NEW j \in 1 .. n - 1
      PROVE  from(j) \in 1 .. n /\ from(j) # i /\ r[j] = s[from(j)]
  BY <1>1, <1>6, <1>7
<1>9. ASSUME NEW j \in 1 .. n, j # i PROVE s[j] \in ToSet(r)
  <2>1. CASE j < i
    <3>1. j \in 1 .. n - 1 /\ r[j] = s[j]
      BY <1>1, <1>6, <2>1
    <3>. QED  BY <1>5, <3>1 DEF ToSet
  <2>2. CASE j > i
    <3>1. j - 1 \in 1 .. n - 1 /\ j - 1 >= i /\ (j - 1) + 1 = j
      BY <1>1, <2>2
    <3>2. r[j - 1] = s[j]
      BY <1>7, <3>1
    <3>. QED  BY <1>5, <3>1, <3>2 DEF ToSet
  <2>. QED  BY <1>1, <1>9, <2>1, <2>2
<1>10. ASSUME NEW j \in 1 .. n - 1, NEW k \in 1 .. n - 1, r[j] = r[k] PROVE j = k
  <2>1. from(j) = from(k)
    <3>1. s[from(j)] = s[from(k)]
      BY <1>8, <1>10
    <3>. HIDE DEF from
    <3>. QED  BY <1>1, <1>8, <3>1 DEF IsInjective
  <2>. QED  BY <1>1, <2>1
<1>11. ASSUME NEW j \in 1 .. n - 1 PROVE r[j] \in ToSet(s) \ {s[i]}
  <2>1. from(j) \in 1 .. n /\ from(j) # i /\ r[j] = s[from(j)]
    BY <1>8
  <2>. HIDE DEF from
  <2>. QED  BY <1>1, <2>1 DEF ToSet, IsInjective
<1>12. IsInjective(r)
  BY <1>5, <1>10 DEF IsInjective
<1>13. ToSet(r) \subseteq ToSet(s) \ {s[i]}
  BY <1>5, <1>11 DEF ToSet
<1>14. ToSet(s) \ {s[i]} \subseteq ToSet(r)
  BY <1>1, <1>9 DEF ToSet
<1>. QED  BY <1>5, <1>12, <1>13, <1>14 DEF r, n
-----------------------------------------------------------------------------
(* What the history shows *)

\* Nothing has been sent.
LEMMA HistoryStarts == HistoryInit => HistoryInv
<1>. HAVE HistoryInit
<1>1. HistoryTypeOK
  BY HistoryConstants DEF HistoryInit, HistoryTypeOK, Kinds
<1>. QED  BY <1>1 DEF HistoryInit, HistoryInv, WaitsOnce, RecordedOnce, ContextKnown,
           NotShownAgain, RecalledStaysOut, ToSet, IsInjective

\* A message arrives and waits at the end of a lane.
LEMMA ReceiveKeeps ==
    ASSUME HistoryInv, NEW m \in Messages, NEW l \in Lanes, NEW k \in Kinds, Receive(m, l, k)
    PROVE  HistoryInv'
<1>1. /\ lane[l] \in Seq(Messages) /\ lane' = [lane EXCEPT ![l] = Append(lane[l], m)]
      /\ lane' \in [Lanes -> Seq(Messages)]
  BY DEF HistoryInv, HistoryTypeOK, Receive
<1>2. HistoryTypeOK'
  BY <1>1 DEF HistoryInv, HistoryTypeOK, Receive, chatVars, ghostVars
<1>3. m \notin recorded /\ \A o \in Lanes : \A i \in DOMAIN lane[o] : lane[o][i] # m
  BY DEF HistoryInv, WaitsOnce, RecordedOnce, Receive
<1>4. /\ \A o \in Lanes : o # l => lane'[o] = lane[o]
      /\ lane'[l] = Append(lane[l], m)
  BY <1>1 DEF HistoryInv, HistoryTypeOK
<1>5. ASSUME NEW o \in Lanes, NEW i \in DOMAIN lane'[o]
      PROVE  \/ i \in DOMAIN lane[o] /\ lane'[o][i] = lane[o][i]
             \/ o = l /\ i = Len(lane[l]) + 1 /\ lane'[o][i] = m
  BY <1>1, <1>4
<1>6. WaitsOnce'
  <2>1. ASSUME NEW o \in Lanes, NEW p \in Lanes, NEW i \in DOMAIN lane'[o], NEW j \in DOMAIN lane'[p],
               lane'[o][i] = lane'[p][j]
        PROVE  o = p /\ i = j
    BY <1>3, <1>5, <2>1 DEF HistoryInv, WaitsOnce
  <2>2. ASSUME NEW o \in Lanes, NEW i \in DOMAIN lane'[o]
        PROVE  kind'[lane'[o][i]] # "unsent" /\ lane'[o][i] \notin recorded
    <3>1. kind'[m] = k /\ k # "unsent"
      BY DEF HistoryInv, HistoryTypeOK, Receive, Kinds
    <3>2. CASE i \in DOMAIN lane[o] /\ lane'[o][i] = lane[o][i]
      <4>1. lane[o][i] # m /\ kind[lane[o][i]] # "unsent" /\ lane[o][i] \notin recorded
        BY <1>3, <3>2 DEF HistoryInv, WaitsOnce
      <4>2. lane[o][i] \in Messages
        BY <3>2 DEF HistoryInv, HistoryTypeOK
      <4>. QED  BY <3>2, <4>1, <4>2 DEF HistoryInv, HistoryTypeOK, Receive
    <3>. QED  BY <1>3, <1>5, <3>1, <3>2
  <2>. QED  BY <2>1, <2>2 DEF WaitsOnce, Receive, ghostVars
<1>7. RecordedOnce'
  BY <1>3 DEF HistoryInv, HistoryTypeOK, RecordedOnce, Receive, chatVars, ghostVars
<1>. QED  BY <1>2, <1>6, <1>7
DEF HistoryInv, ContextKnown, NotShownAgain, RecalledStaysOut, Receive, chatVars, ghostVars

\* A lane's queue takes a message that was not recorded and waits nowhere else.
LEMMA TakesOne ==
    ASSUME HistoryInv, NEW l \in Lanes, Takes(l)
    PROVE  LET m == Head(lane[l]) IN
           /\ m \in Messages /\ m \notin recorded /\ kind[m] # "unsent"
           /\ lane' \in [Lanes -> Seq(Messages)]
           /\ \A o, p \in Lanes : \A i \in DOMAIN lane'[o], j \in DOMAIN lane'[p] :
                lane'[o][i] = lane'[p][j] => o = p /\ i = j
           /\ \A o \in Lanes : \A i \in DOMAIN lane'[o] :
                /\ lane'[o][i] # m /\ lane'[o][i] \notin recorded
                /\ kind[lane'[o][i]] # "unsent"
<1>. DEFINE m == Head(lane[l])
            from(o, i) == IF o = l THEN i + 1 ELSE i
<1>1. /\ lane[l] \in Seq(Messages) /\ lane[l] # <<>>
      /\ lane' = [lane EXCEPT ![l] = Tail(lane[l])]
  BY DEF HistoryInv, HistoryTypeOK, Takes
<1>2. /\ Tail(lane[l]) \in Seq(Messages) /\ m = lane[l][1] /\ 1 \in DOMAIN lane[l]
      /\ \A i \in DOMAIN Tail(lane[l]) :
           /\ i + 1 \in DOMAIN lane[l] /\ Tail(lane[l])[i] = lane[l][i + 1]
           /\ i \in Nat /\ i > 0
  BY <1>1, Taken
<1>3. /\ lane' \in [Lanes -> Seq(Messages)] /\ lane'[l] = Tail(lane[l])
      /\ \A o \in Lanes : o # l => lane'[o] = lane[o]
  BY <1>1, <1>2 DEF HistoryInv, HistoryTypeOK
<1>4. m \in Messages /\ m \notin recorded /\ kind[m] # "unsent"
  BY <1>1, <1>2 DEF HistoryInv, HistoryTypeOK, WaitsOnce
<1>5. ASSUME NEW o \in Lanes, NEW i \in DOMAIN lane'[o]
      PROVE  /\ from(o, i) \in DOMAIN lane[o] /\ lane'[o][i] = lane[o][from(o, i)]
             /\ i \in Nat /\ (o = l => from(o, i) # 1)
  <2>1. CASE o = l
    BY <1>2, <1>3, <2>1
  <2>2. CASE o # l
    <3>1. lane[o] \in Seq(Messages) /\ lane'[o] = lane[o]
      BY <1>3, <2>2 DEF HistoryInv, HistoryTypeOK
    <3>. QED  BY <2>2, <3>1
  <2>. QED  BY <2>1, <2>2
<1>6. ASSUME NEW o \in Lanes, NEW i \in DOMAIN lane'[o]
      PROVE  lane'[o][i] # m /\ lane'[o][i] \notin recorded /\ kind[lane'[o][i]] # "unsent"
  <2>. HIDE DEF from
  <2>. QED  BY <1>2, <1>5 DEF HistoryInv, WaitsOnce
<1>7. ASSUME NEW o \in Lanes, NEW p \in Lanes, NEW i \in DOMAIN lane'[o], NEW j \in DOMAIN lane'[p],
             lane'[o][i] = lane'[p][j]
      PROVE  o = p /\ i = j
  <2>1. o = p /\ from(o, i) = from(p, j)
    <3>. HIDE DEF from
    <3>. QED  BY <1>5, <1>7 DEF HistoryInv, WaitsOnce
  <2>. QED  BY <1>5, <2>1
<1>. QED  BY <1>3, <1>4, <1>6, <1>7

\* Recording pictures keeps their list within its limit.
LEMMA MediaKept ==
    ASSUME HistoryInv, NEW m \in Messages, DownloadMedia(m)
    PROVE  media' \in Seq(Messages) /\ Len(media') <= MediaLimit
<1>1. Append(media, m) \in Seq(Messages)
  BY DEF HistoryInv, HistoryTypeOK
<1>2. /\ Newest(Append(media, m), MediaLimit) \in Seq(Messages)
      /\ Len(Newest(Append(media, m), MediaLimit)) <= MediaLimit
  BY <1>1, Cut, HistoryConstants
<1>. QED  BY <1>2 DEF HistoryInv, HistoryTypeOK, DownloadMedia, RecordMedia

\* A message that does not mention the bot is recorded, and is new to the list.
LEMMA RecordKeeps ==
    ASSUME HistoryInv, NEW l \in Lanes, Record(l)
    PROVE  HistoryInv'
<1>. DEFINE m == Head(lane[l])
            a == Append(history, m)
<1>1. /\ m \in Messages /\ m \notin recorded /\ kind[m] # "unsent"
      /\ lane' \in [Lanes -> Seq(Messages)]
  BY TakesOne DEF Record
<1>2. history \in Seq(Messages) /\ m \notin ToSet(history) /\ IsInjective(history)
  BY <1>1 DEF HistoryInv, HistoryTypeOK, RecordedOnce
<1>3. /\ a \in Seq(Messages) /\ ToSet(a) = ToSet(history) \cup {m} /\ IsInjective(a)
  BY <1>1, <1>2, Appended
<1>4. /\ Newest(a, HistoryLimit) \in Seq(Messages) /\ Len(Newest(a, HistoryLimit)) <= HistoryLimit
      /\ ToSet(Newest(a, HistoryLimit)) \subseteq ToSet(history) \cup {m}
      /\ IsInjective(Newest(a, HistoryLimit))
  BY <1>3, Cut, HistoryConstants
<1>5. /\ history' \in Seq(Messages) /\ Len(history') <= HistoryLimit /\ IsInjective(history')
      /\ recorded \subseteq recorded' /\ recorded' \subseteq recorded \cup {m}
      /\ ToSet(history') \subseteq ToSet(history) \cup (recorded' \ recorded)
      /\ HistoryLimit = 0 => UNCHANGED <<history, recorded>>
  BY <1>1, <1>2, <1>4, HistoryConstants DEF HistoryInv, HistoryTypeOK, Record, RecordPending
<1>6. media' \in Seq(Messages) /\ Len(media') <= MediaLimit
  BY <1>1, MediaKept DEF Record, DownloadMedia
<1>7. HistoryTypeOK'
  BY <1>1, <1>5, <1>6 DEF HistoryInv, HistoryTypeOK, Record
<1>8. WaitsOnce'
  BY <1>5, TakesOne DEF WaitsOnce, Record
<1>9. RecordedOnce'
  BY <1>1, <1>5 DEF HistoryInv, RecordedOnce, Record
<1>10. NotShownAgain' /\ ContextKnown'
  BY <1>1, <1>5 DEF HistoryInv, NotShownAgain, ContextKnown, Record
<1>11. RecalledStaysOut'
  <2>1. \A r \in recalled : r \notin events => r \in recorded /\ r \notin ToSet(history)
    BY DEF HistoryInv, RecalledStaysOut
  <2>. QED  BY <2>1, <1>5 DEF RecalledStaysOut, Record
<1>. QED  BY <1>7, <1>8, <1>9, <1>10, <1>11 DEF HistoryInv

\* A mention takes the history into its context.
LEMMA BuildContextKeeps ==
    ASSUME HistoryInv, NEW l \in Lanes, BuildContext(l)
    PROVE  HistoryInv'
<1>1. Head(lane[l]) \in Messages /\ lane' \in [Lanes -> Seq(Messages)]
  BY TakesOne DEF BuildContext
<1>2. ToSet(history) \subseteq recorded /\ recorded \subseteq Messages
  BY DEF HistoryInv, HistoryTypeOK, RecordedOnce
<1>3. HistoryTypeOK'
  <2>1. media' \in Seq(Messages) /\ Len(media') <= MediaLimit
    BY <1>1, MediaKept DEF BuildContext
  <2>. QED  BY <1>1, <1>2, <2>1 DEF HistoryInv, HistoryTypeOK, BuildContext
<1>4. WaitsOnce'
  BY TakesOne DEF WaitsOnce, BuildContext
<1>5. ContextKnown'
  <2>1. ASSUME NEW o \in Lanes PROVE context'[o] \subseteq recorded \cap shown'
    BY <1>2, <2>1 DEF HistoryInv, HistoryTypeOK, ContextKnown, BuildContext
  <2>. QED  BY <2>1 DEF HistoryInv, ContextKnown, BuildContext
<1>. QED  BY <1>3, <1>4, <1>5
          DEF HistoryInv, RecordedOnce, NotShownAgain, RecalledStaysOut, BuildContext, chatVars

\* A reply ends: what it was given is settled, and the history is empty.
LEMMA ReplyKeeps ==
    ASSUME HistoryInv, NEW l \in Lanes, ReplyCompletes(l) \/ ReplyFails(l)
    PROVE  HistoryInv'
<1>1. \/ /\ HistoryLimit > 0 /\ history' = <<>> /\ settled' = settled \cup context[l]
      \/ history' = history /\ settled' = settled
      \/ history' = <<>> /\ history = <<>> /\ settled' = settled \cup context[l]
  BY HistoryConstants
  DEF HistoryInv, RecordedOnce, ReplyCompletes, ReplyFails, Cleared, chatVars, ghostVars
<1>2. history' \in Seq(Messages) /\ Len(history') <= HistoryLimit /\ IsInjective(history')
  <2>1. CASE history' = <<>>
    BY <2>1, HistoryConstants DEF IsInjective
  <2>2. CASE history' = history
    BY <2>2 DEF HistoryInv, HistoryTypeOK, RecordedOnce
  <2>. QED  BY <1>1, <2>1, <2>2
<1>3. ToSet(history') \subseteq ToSet(history) /\ (settled' # settled => ToSet(history') = {})
  BY <1>1 DEF ToSet
<1>4. /\ UNCHANGED <<lane, kind, media, events, brought, recorded, recalled, shown>>
      /\ context' = [context EXCEPT ![l] = {}]
      /\ replying' = [replying EXCEPT ![l] = NoMessage]
      /\ settled' \subseteq settled \cup context[l]
  BY <1>1 DEF ReplyCompletes, ReplyFails, chatVars, ghostVars
<1>5. HistoryTypeOK'
  BY <1>2, <1>4 DEF HistoryInv, HistoryTypeOK, ContextKnown
<1>6. WaitsOnce'
  BY <1>4 DEF HistoryInv, WaitsOnce
<1>7. RecordedOnce'
  BY <1>1, <1>2, <1>3, <1>4 DEF HistoryInv, RecordedOnce
<1>8. ContextKnown'
  BY <1>4 DEF HistoryInv, HistoryTypeOK, ContextKnown
<1>. QED  BY <1>3, <1>4, <1>5, <1>6, <1>7, <1>8 DEF HistoryInv, NotShownAgain, RecalledStaysOut

\* A recalled message is the only one that leaves, and was recorded.
LEMMA RecallKeeps ==
    ASSUME HistoryInv, NEW m \in Messages, Recall(m)
    PROVE  /\ HistoryInv'
           /\ ToSet(history') = IF m \in ToSet(history) THEN ToSet(history) \ {m} ELSE ToSet(history)
<1>1. ASSUME m \in ToSet(history) PROVE IndexOf(m) \in DOMAIN history /\ history[IndexOf(m)] = m
  <2>1. PICK i \in DOMAIN history : history[i] = m
    BY <1>1 DEF ToSet
  <2>2. /\ history \in Seq(Messages) /\ DOMAIN history = 1 .. Len(history)
    BY DEF HistoryInv, HistoryTypeOK
  <2>3. ASSUME NEW j \in 1 .. i - 1 PROVE history[j] # m
    <3>1. j \in DOMAIN history /\ j # i
      BY <2>1, <2>2, <2>3
    <3>. QED  BY <2>1, <3>1 DEF HistoryInv, RecordedOnce, IsInjective
  <2>. QED  BY <2>1, <2>3 DEF IndexOf
<1>2. /\ history' \in Seq(Messages) /\ Len(history') <= HistoryLimit /\ IsInjective(history')
      /\ ToSet(history') = IF m \in ToSet(history) THEN ToSet(history) \ {m} ELSE ToSet(history)
  <2>. DEFINE r == RemoveAt(history, IndexOf(m))
  <2>1. history \in Seq(Messages) /\ IsInjective(history) /\ Len(history) <= HistoryLimit
    BY DEF HistoryInv, HistoryTypeOK, RecordedOnce
  <2>2. CASE m \in ToSet(history)
    <3>1. /\ r \in Seq(Messages) /\ Len(r) = Len(history) - 1 /\ IsInjective(r)
          /\ ToSet(r) = ToSet(history) \ {m}
      BY <1>1, <2>1, <2>2, Removed
    <3>2. history' = r
      BY <2>2 DEF Recall
    <3>3. Len(r) <= HistoryLimit
      BY <2>1, <3>1, HistoryConstants
    <3>. QED  BY <2>2, <3>1, <3>2, <3>3
  <2>3. CASE m \notin ToSet(history)
    BY <2>1, <2>3 DEF Recall
  <2>. QED  BY <2>2, <2>3
<1>3. HistoryTypeOK'
  BY <1>2 DEF HistoryInv, HistoryTypeOK, Recall
<1>4. WaitsOnce' /\ ContextKnown'
  BY DEF HistoryInv, WaitsOnce, ContextKnown, Recall
<1>5. RecordedOnce'
  <2>1. HistoryLimit = 0 => m \notin ToSet(history)
    BY DEF HistoryInv, RecordedOnce, ToSet
  <2>. QED  BY <1>2, <2>1 DEF HistoryInv, RecordedOnce, Recall
<1>6. NotShownAgain'
  BY <1>2 DEF HistoryInv, NotShownAgain, Recall
<1>7. RecalledStaysOut'
  <2>1. /\ \A r \in recalled : r \notin events => r \in recorded /\ r \notin ToSet(history)
        /\ ToSet(history) \subseteq recorded
    BY DEF HistoryInv, RecalledStaysOut, RecordedOnce
  <2>. QED  BY <2>1, <1>2 DEF RecalledStaysOut, Recall
<1>. QED  BY <1>2, <1>3, <1>4, <1>5, <1>6, <1>7 DEF HistoryInv

\* Every step keeps the history as it should be.
LEMMA HistoryKeeps == HistoryInv /\ [HistoryNext]_groupVars => HistoryInv'
<1>. SUFFICES ASSUME HistoryInv, [HistoryNext]_groupVars PROVE HistoryInv'
  OBVIOUS
<1>1. CASE \E m \in Messages : Recall(m) \/ \E l \in Lanes, k \in Kinds : Receive(m, l, k)
  BY <1>1, RecallKeeps, ReceiveKeeps
<1>2. CASE \E l \in Lanes : Record(l) \/ BuildContext(l) \/ ReplyCompletes(l) \/ ReplyFails(l)
  BY <1>2, RecordKeeps, BuildContextKeeps, ReplyKeeps
<1>3. CASE UNCHANGED groupVars
  BY <1>3 DEF HistoryInv, HistoryTypeOK, WaitsOnce, RecordedOnce, ContextKnown, NotShownAgain,
              RecalledStaysOut, groupVars, chatVars, ghostVars
<1>. QED  BY <1>1, <1>2, <1>3 DEF HistoryNext

\* What holds of the history in every state.
THEOREM HistoryIsKept == HistorySpec => []HistoryInv
BY HistoryStarts, HistoryKeeps, PTL DEF HistorySpec

\* What the agent answered with is not shown to it again, whatever the group's
\* lanes record, answer or fail to answer at the same time.
THEOREM AnsweredNotShownAgain == HistorySpec => []NotShownAgain
<1>1. HistoryInv => NotShownAgain
  BY DEF HistoryInv
<1>. QED  BY <1>1, HistoryIsKept, PTL

\* A recalled message either reaches the agent as a notice or was recorded and
\* is out of the history for good.
THEOREM RecallIsFinal == HistorySpec => []RecalledStaysOut
<1>1. HistoryInv => RecalledStaysOut
  BY DEF HistoryInv
<1>. QED  BY <1>1, HistoryIsKept, PTL

\* A message comes through one lane, and is recorded from there.
LanesApart ==
    /\ \A l, k \in Lanes : \A m \in brought[l] \cap brought[k] : l = k
    /\ \A l \in Lanes : ToSet(lane[l]) \subseteq brought[l]
    /\ \A l \in Lanes : \A m \in brought[l] : kind[m] # "unsent"
    /\ recorded \subseteq UNION {brought[l] : l \in Lanes}

\* While a lane replies it records nothing: of its own messages the history
\* holds only what the agent was given.
ReplySawOwn == \A l \in Lanes : replying[l] # NoMessage => ToSet(history) \cap brought[l] \subseteq shown

LaneInv == LanesApart /\ ReplySawOwn

\* Nothing has come through any lane.
LEMMA LanesStart == HistoryInit => LaneInv
BY DEF HistoryInit, LaneInv, LanesApart, ReplySawOwn, ToSet

\* A step that takes no message in and records none.
LEMMA SameLanes ==
    ASSUME LaneInv, UNCHANGED <<brought, recorded, kind>>, ToSet(history') \subseteq ToSet(history),
           \A l \in Lanes : ToSet(lane'[l]) \subseteq ToSet(lane[l]),
           shown \subseteq shown',
           \A l \in Lanes : replying'[l] # NoMessage =>
               replying[l] # NoMessage \/ ToSet(history') \subseteq shown'
    PROVE  LaneInv'
BY DEF LaneInv, LanesApart, ReplySawOwn

\* A lane that takes a message keeps the others.
LEMMA TakesFromLane ==
    ASSUME HistoryInv, NEW l \in Lanes, Takes(l)
    PROVE  /\ Head(lane[l]) \in ToSet(lane[l])
           /\ \A k \in Lanes : ToSet(lane'[k]) \subseteq ToSet(lane[k])
<1>1. lane[l] \in Seq(Messages) /\ lane[l] # <<>> /\ lane' = [lane EXCEPT ![l] = Tail(lane[l])]
  BY DEF HistoryInv, HistoryTypeOK, Takes
<1>2. Head(lane[l]) \in ToSet(lane[l]) /\ ToSet(Tail(lane[l])) \subseteq ToSet(lane[l])
  BY <1>1, Taken DEF ToSet
<1>. QED  BY <1>1, <1>2 DEF HistoryInv, HistoryTypeOK

\* Every lane sees its own messages recorded before it replies, not while.
LEMMA LanesKeep == HistoryInv /\ LaneInv /\ [HistoryNext]_groupVars => LaneInv'
<1>. SUFFICES ASSUME HistoryInv, LaneInv, [HistoryNext]_groupVars PROVE LaneInv'
  OBVIOUS
<1>1. CASE \E m \in Messages : Recall(m)
  <2>. PICK m \in Messages : Recall(m)
    BY <1>1
  <2>1. ToSet(history') \subseteq ToSet(history)
    BY RecallKeeps
  <2>. QED  BY <2>1, SameLanes DEF Recall
<1>2. CASE \E m \in Messages, l \in Lanes, k \in Kinds : Receive(m, l, k)
  <2>. PICK m \in Messages, l \in Lanes, k \in Kinds : Receive(m, l, k)
    BY <1>2
  <2>1. /\ m \notin recorded /\ \A o \in Lanes : m \notin brought[o]
        /\ kind'[m] # "unsent" /\ \A n \in Messages : n # m => kind'[n] = kind[n]
    BY DEF HistoryInv, HistoryTypeOK, RecordedOnce, LaneInv, LanesApart, Receive, Kinds
  <2>2. /\ \A o \in Lanes : brought[o] \subseteq Messages
        /\ brought'[l] = brought[l] \cup {m} /\ \A o \in Lanes : o # l => brought'[o] = brought[o]
    BY DEF HistoryInv, HistoryTypeOK, Receive
  <2>3. \A o \in Lanes : ToSet(lane'[o]) \subseteq brought'[o]
    <3>1. lane[l] \in Seq(Messages) /\ lane' = [lane EXCEPT ![l] = Append(lane[l], m)]
      BY DEF HistoryInv, HistoryTypeOK, Receive
    <3>2. ToSet(Append(lane[l], m)) = ToSet(lane[l]) \cup {m}
      BY <3>1, Appended
    <3>. QED  BY <2>2, <3>1, <3>2 DEF HistoryInv, HistoryTypeOK, LaneInv, LanesApart
  <2>4. LanesApart'
    BY <2>1, <2>2, <2>3 DEF LaneInv, LanesApart, Receive
  <2>5. m \notin ToSet(history)
    BY <2>1 DEF HistoryInv, RecordedOnce
  <2>6. ReplySawOwn'
    BY <2>2, <2>5 DEF LaneInv, ReplySawOwn, Receive, chatVars
  <2>. QED  BY <2>4, <2>6 DEF LaneInv
<1>3. CASE \E l \in Lanes : Record(l)
  <2>. PICK l \in Lanes : Record(l)
    BY <1>3
  <2>. DEFINE m == Head(lane[l])
  <2>1. /\ m \in brought[l] /\ m \in Messages
        /\ \A k \in Lanes : ToSet(lane'[k]) \subseteq ToSet(lane[k])
    BY TakesFromLane, TakesOne DEF Record, LaneInv, LanesApart
  <2>2. recorded' \subseteq recorded \cup {m} /\ ToSet(history') \subseteq ToSet(history) \cup {m}
    <3>1. /\ Append(history, m) \in Seq(Messages)
          /\ ToSet(Append(history, m)) = ToSet(history) \cup {m}
      BY <2>1, Appended DEF HistoryInv, HistoryTypeOK
    <3>2. ToSet(Newest(Append(history, m), HistoryLimit)) \subseteq ToSet(history) \cup {m}
      BY <3>1, Cut, HistoryConstants
    <3>. QED  BY <3>2 DEF Record, RecordPending
  <2>3. LanesApart'
    BY <2>1, <2>2 DEF LaneInv, LanesApart, Record
  <2>4. ASSUME NEW k \in Lanes, replying'[k] # NoMessage
        PROVE  ToSet(history') \cap brought'[k] \subseteq shown'
    <3>1. k # l /\ replying[k] # NoMessage
      BY <2>4 DEF Record, Takes
    <3>2. m \notin brought[k]
      BY <2>1, <3>1 DEF LaneInv, LanesApart
    <3>. QED  BY <2>2, <3>1, <3>2 DEF LaneInv, ReplySawOwn, Record
  <2>. QED  BY <2>3, <2>4 DEF LaneInv, ReplySawOwn
<1>4. CASE \E l \in Lanes : BuildContext(l)
  <2>. PICK l \in Lanes : BuildContext(l)
    BY <1>4
  <2>1. \A k \in Lanes : ToSet(lane'[k]) \subseteq ToSet(lane[k])
    BY TakesFromLane DEF BuildContext
  <2>. QED  BY <2>1, SameLanes DEF BuildContext, chatVars
<1>5. CASE \E l \in Lanes : ReplyCompletes(l) \/ ReplyFails(l)
  <2>. PICK l \in Lanes : ReplyCompletes(l) \/ ReplyFails(l)
    BY <1>5
  <2>1. ToSet(history') \subseteq ToSet(history)
    BY DEF ReplyCompletes, ReplyFails, Cleared, chatVars, ToSet
  <2>2. \A k \in Lanes : replying'[k] # NoMessage => replying[k] # NoMessage
    BY DEF ReplyCompletes, ReplyFails, HistoryInv, HistoryTypeOK
  <2>. QED  BY <2>1, <2>2, SameLanes DEF ReplyCompletes, ReplyFails, chatVars, ghostVars
<1>6. CASE UNCHANGED groupVars
  BY <1>6, SameLanes DEF groupVars, chatVars, ghostVars
<1>. QED  BY <1>1, <1>2, <1>3, <1>4, <1>5, <1>6 DEF HistoryNext

\* A step that loses a message was told of it, has told of it, or had no room.
LEMMA LosesNothing ==
    ASSUME HistoryInv, LaneInv, [HistoryNext]_groupVars,
           NEW m \in ToSet(history) \ ToSet(history')
    PROVE  \/ m \in shown \cup recalled'
           \/ m = Head(history) /\ Len(history) = HistoryLimit /\ Len(history') = HistoryLimit
           \/ /\ \E l \in Lanes : replying[l] # NoMessage /\ replying'[l] = NoMessage /\ m \notin brought[l]
              /\ ~ \A l, k \in Lanes : l = k
<1>1. CASE \E r \in Messages : Recall(r)
  <2>. PICK r \in Messages : Recall(r)
    BY <1>1
  <2>1. m = r
    BY RecallKeeps
  <2>. QED  BY <2>1 DEF Recall
<1>2. CASE \E r \in Messages, l \in Lanes, k \in Kinds : Receive(r, l, k)
  BY <1>2 DEF Receive, chatVars
<1>3. CASE \E l \in Lanes : Record(l)
  <2>. PICK l \in Lanes : Record(l)
    BY <1>3
  <2>. DEFINE a == Append(history, Head(lane[l]))
  <2>1. /\ history \in Seq(Messages) /\ Len(history) <= HistoryLimit
        /\ Head(lane[l]) \in Messages /\ HistoryLimit \in Nat
    BY TakesOne, HistoryConstants DEF Record, HistoryInv, HistoryTypeOK
  <2>2. /\ a \in Seq(Messages) /\ Len(a) = Len(history) + 1
        /\ ToSet(a) = ToSet(history) \cup {Head(lane[l])}
        /\ a[1] = IF history = <<>> THEN Head(lane[l]) ELSE history[1]
    BY <2>1, Appended
  <2>3. history' = Newest(a, HistoryLimit)
    BY DEF Record, RecordPending
  <2>. HIDE DEF a
  <2>4. Len(a) = HistoryLimit + 1
    <3>1. Len(a) <= HistoryLimit => history' = a
      BY <2>1, <2>2, <2>3, Cut
    <3>. QED  BY <2>1, <2>2, <3>1
  <2>5. Len(history') = HistoryLimit /\ m = a[1]
    BY <2>1, <2>2, <2>3, <2>4, Cut
  <2>6. history # <<>> /\ Head(history) = history[1]
    BY <2>1 DEF ToSet
  <2>. QED  BY <2>1, <2>2, <2>4, <2>5, <2>6
<1>4. CASE \E l \in Lanes : BuildContext(l)
  BY <1>4 DEF BuildContext, chatVars
<1>5. CASE \E l \in Lanes : ReplyCompletes(l) \/ ReplyFails(l)
  <2>. PICK l \in Lanes : ReplyCompletes(l) \/ ReplyFails(l)
    BY <1>5
  <2>1. replying[l] # NoMessage /\ replying'[l] = NoMessage
    BY DEF ReplyCompletes, ReplyFails, HistoryInv, HistoryTypeOK
  <2>2. CASE m \in brought[l]
    BY <2>1, <2>2 DEF LaneInv, ReplySawOwn
  <2>3. CASE m \notin brought[l]
    <3>1. PICK k \in Lanes : m \in brought[k]
      BY DEF HistoryInv, RecordedOnce, LaneInv, LanesApart
    <3>. QED  BY <2>1, <2>3, <3>1
  <2>. QED  BY <2>2, <2>3
<1>6. CASE UNCHANGED groupVars
  BY <1>6 DEF groupVars, chatVars
<1>. QED  BY <1>1, <1>2, <1>3, <1>4, <1>5, <1>6 DEF HistoryNext

\* What is known of the lanes in every state.
LEMMA LanesAreKept == HistorySpec => []LaneInv
BY LanesStart, LanesKeep, HistoryIsKept, PTL DEF HistorySpec

\* A reply loses no message of its own lane: what leaves the history was shown to
\* the agent, was recalled, was the oldest of a full list, or came through
\* another lane while the reply was under way.
THEOREM LanesLoseNothing == HistorySpec => NothingLost
<1>1. HistoryInv /\ LaneInv /\ [HistoryNext]_groupVars =>
        [\A m \in ToSet(history) \ ToSet(history') :
          \/ m \in shown \cup recalled'
          \/ m = Head(history) /\ Len(history) = HistoryLimit /\ Len(history') = HistoryLimit
          \/ \E l \in Lanes :
                replying[l] # NoMessage /\ replying'[l] = NoMessage /\ m \notin brought[l]]_groupVars
  BY LosesNothing
<1>. QED  BY <1>1, LanesAreKept, HistoryIsKept, PTL DEF HistorySpec, NothingLost

\* A group with one lane loses no message between two replies at all.
THEOREM OneLaneLosesNothing ==
    ASSUME \A l, k \in Lanes : l = k
    PROVE  HistorySpec =>
             [][\A m \in ToSet(history) \ ToSet(history') :
                   \/ m \in shown \cup recalled'
                   \/ /\ m = Head(history)
                      /\ Len(history) = HistoryLimit /\ Len(history') = HistoryLimit]_groupVars
<1>1. HistoryInv /\ LaneInv /\ [HistoryNext]_groupVars =>
        [\A m \in ToSet(history) \ ToSet(history') :
          \/ m \in shown \cup recalled'
          \/ /\ m = Head(history)
             /\ Len(history) = HistoryLimit /\ Len(history') = HistoryLimit]_groupVars
  BY LosesNothing
<1>. QED  BY <1>1, LanesAreKept, HistoryIsKept, PTL DEF HistorySpec
=============================================================================
