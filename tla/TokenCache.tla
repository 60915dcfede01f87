----------------------------- MODULE TokenCache -----------------------------
(***************************************************************************)
(* The sign-token cache of one account (src/access/http/request.ts):       *)
(* cached token, single-flight fetch, forced refresh, refresh timers, and  *)
(* the HTTP calls that retry once on 401.  Accounts share nothing; one     *)
(* with a static token never reaches the cache.                            *)
(*                                                                         *)
(* Fetches are numbered in the order they start, and a token bears the     *)
(* number of its fetch, so that a larger number is a fresher token.  What  *)
(* doFetchSignToken does inside one fetch (signing, up to three more tries *)
(* on code 10099) is one fetch with one outcome.  A caller resumes in the  *)
(* microtasks of the event that settled its promise: "ready" callers run   *)
(* before the next event.                                                  *)
(***************************************************************************)
EXTENDS Naturals

CONSTANTS
    Callers,       \* concurrent HTTP calls and gateway refreshes
    MaxFetches     \* bound on the number of fetches

ASSUME TokenConstants == MaxFetches \in Nat \ {0}

Fetches == 1..MaxFetches
None == 0

VARIABLES
    fetch,         \* each fetch: who started it while it is in flight
    started,       \* how many fetches have started
    token,         \* tokenCacheMap entry (None: no entry)
    expired,       \* that entry's expiresAt has passed
    fetchPromise,  \* tokenFetchPromises entry (None: no entry)
    armed,         \* armed timers of each kind
    timer,         \* kind of the timer in tokenRefreshTimers, or "none"
    pc,            \* where each caller is
    waits,         \* the fetch a caller awaits, or awaited last in its call
    attempt,       \* attempt counter of yuanbaoPost / yuanbaoGet
    sent,          \* token of the caller's current request
    renewal,       \* history: the fetch a caller started because of a 401
    uncached       \* history: fetches that brought a token without a duration

fetchVars == <<fetch, started, fetchPromise>>
cacheVars == <<token, expired>>
timerVars == <<armed, timer>>
callerVars == <<pc, waits, attempt, sent>>
historyVars == <<renewal, uncached>>
vars == <<fetchVars, cacheVars, timerVars, callerVars, historyVars>>

TimerKinds == {"refresh", "retry"}
Starters == {"call"} \cup TimerKinds
InFlight(f) == fetch[f] \in Starters

TypeOK ==
    /\ fetch \in [Fetches -> Starters \cup {"unborn", "settled"}]
    /\ started \in 0..MaxFetches
    /\ token \in 0..MaxFetches /\ expired \in BOOLEAN
    /\ fetchPromise \in 0..MaxFetches
    /\ armed \in [TimerKinds -> Nat]
    /\ timer \in TimerKinds \cup {"none"}
    /\ pc \in [Callers -> {"idle", "ready", "headers", "sending", "forcing", "renewing"}]
    /\ waits \in [Callers -> 0..MaxFetches]
    /\ attempt \in [Callers -> 0..1]
    /\ sent \in [Callers -> 0..MaxFetches]
    /\ renewal \in [Callers -> 0..MaxFetches]
    /\ uncached \subseteq Fetches

Init ==
    /\ fetch = [f \in Fetches |-> "unborn"]
    /\ started = 0 /\ fetchPromise = None
    /\ token = None /\ expired = FALSE
    /\ armed = [k \in TimerKinds |-> 0] /\ timer = "none"
    /\ pc = [c \in Callers |-> "idle"] /\ waits = [c \in Callers |-> None]
    /\ attempt = [c \in Callers |-> 0] /\ sent = [c \in Callers |-> None]
    /\ renewal = [c \in Callers |-> None] /\ uncached = {}

-----------------------------------------------------------------------------
\* No promise continuation is due: the event loop may take the next event.
Idle == \A c \in Callers : pc[c] # "ready"

\* Timers left once clearTimeout has been called on the one in the map.
TimerCleared == IF timer = "none" THEN armed ELSE [armed EXCEPT ![timer] = @ - 1]

\* A new fetch becomes the one in tokenFetchPromises.
StartFetch(who) ==
    /\ started < MaxFetches
    /\ started' = started + 1
    /\ fetch' = [fetch EXCEPT ![started + 1] = who]
    /\ fetchPromise' = started + 1

\* Mutant: the cached token survives a forced refresh, its timer does not.
ForceRefreshKeepingToken(who, tmr) ==
    /\ StartFetch(who)
    /\ armed' = tmr
    /\ timer' = "none"
    /\ UNCHANGED <<cacheVars, uncached>>

\* forceRefreshSignToken: clearSignTokenCache, forget the fetch in flight,
\* start another.  tmr are the timers armed before it.
ForceRefresh(who, tmr) ==
    /\ StartFetch(who)
    /\ token' = None /\ expired' = FALSE
    /\ armed' = tmr
    /\ timer' = "none"
    /\ UNCHANGED uncached

-----------------------------------------------------------------------------
(* Callers *)

\* yuanbaoPost / yuanbaoGet.
Call(c) ==
    /\ Idle /\ pc[c] = "idle"
    /\ pc' = [pc EXCEPT ![c] = "ready"]
    /\ UNCHANGED <<fetchVars, cacheVars, timerVars, waits, attempt, sent, historyVars>>

\* getSignToken of getAuthHeaders: cached token, fetch in flight, new fetch.
UseCached(c) ==
    /\ pc[c] = "ready"
    /\ token # None /\ ~expired
    /\ pc' = [pc EXCEPT ![c] = "sending"]
    /\ sent' = [sent EXCEPT ![c] = token]
    /\ UNCHANGED <<fetchVars, cacheVars, timerVars, waits, attempt, historyVars>>

Join(c) ==
    /\ pc[c] = "ready"
    /\ token = None \/ expired
    /\ fetchPromise # None
    /\ pc' = [pc EXCEPT ![c] = "headers"]
    /\ waits' = [waits EXCEPT ![c] = fetchPromise]
    /\ UNCHANGED <<fetchVars, cacheVars, timerVars, attempt, sent, historyVars>>

FetchAnew(c) ==
    /\ pc[c] = "ready"
    /\ token = None \/ expired
    /\ fetchPromise = None
    /\ StartFetch("call")
    /\ pc' = [pc EXCEPT ![c] = "headers"]
    /\ waits' = [waits EXCEPT ![c] = started + 1]
    /\ UNCHANGED <<cacheVars, timerVars, attempt, sent, historyVars>>

\* Mutant: the caller joins the fetch in flight instead of starting another.
UnauthorizedJoining(c) ==
    /\ Idle /\ pc[c] = "sending" /\ attempt[c] = 0
    /\ IF fetchPromise = None
         THEN ForceRefresh("call", TimerCleared)
         ELSE /\ token' = None /\ expired' = FALSE
              /\ armed' = TimerCleared /\ timer' = "none"
              /\ UNCHANGED <<fetchVars, uncached>>
    /\ pc' = [pc EXCEPT ![c] = "forcing"]
    /\ waits' = [waits EXCEPT ![c] = fetchPromise']
    /\ sent' = [sent EXCEPT ![c] = None]
    /\ renewal' = [renewal EXCEPT ![c] = started + 1]
    /\ UNCHANGED attempt

\* 401 on the first attempt: force a refresh, then go round the loop again.
Unauthorized(c) ==
    /\ Idle /\ pc[c] = "sending" /\ attempt[c] = 0
    /\ ForceRefresh("call", TimerCleared)
    /\ pc' = [pc EXCEPT ![c] = "forcing"]
    /\ waits' = [waits EXCEPT ![c] = started + 1]
    /\ sent' = [sent EXCEPT ![c] = None]
    /\ renewal' = [renewal EXCEPT ![c] = started + 1]
    /\ UNCHANGED attempt

\* Any other answer, a second 401 included, ends the call.
Answered(c) ==
    /\ Idle /\ pc[c] = "sending"
    /\ pc' = [pc EXCEPT ![c] = "idle"]
    /\ waits' = [waits EXCEPT ![c] = None]
    /\ attempt' = [attempt EXCEPT ![c] = 0]
    /\ sent' = [sent EXCEPT ![c] = None]
    /\ renewal' = [renewal EXCEPT ![c] = None]
    /\ UNCHANGED <<fetchVars, cacheVars, timerVars, uncached>>

\* onAuthFailed of the gateway: the server refused the token of an auth-bind.
Renew(c) ==
    /\ Idle /\ pc[c] = "idle"
    /\ ForceRefresh("call", TimerCleared)
    /\ pc' = [pc EXCEPT ![c] = "renewing"]
    /\ waits' = [waits EXCEPT ![c] = started + 1]
    /\ UNCHANGED <<attempt, sent, renewal>>

-----------------------------------------------------------------------------
(* Fetches and timers *)

Waiting(c, f) == pc[c] \in {"headers", "forcing", "renewing"} /\ waits[c] = f

\* Where the callers of fetch f go: those that wanted headers send with its
\* token, those that forced a refresh ask for headers again.
ResumeOk(f) ==
    /\ pc' = [c \in Callers |->
                IF ~Waiting(c, f) THEN pc[c]
                ELSE CASE pc[c] = "headers" -> "sending"
                       [] pc[c] = "forcing" -> "ready"
                       [] OTHER -> "idle"]
    /\ sent' = [c \in Callers |->
                  IF Waiting(c, f) /\ pc[c] = "headers" THEN f ELSE sent[c]]
    /\ attempt' = [c \in Callers |->
                     IF Waiting(c, f) /\ pc[c] = "forcing" THEN 1 ELSE attempt[c]]
    /\ waits' = [c \in Callers |->
                   IF Waiting(c, f) /\ pc[c] = "renewing" THEN None ELSE waits[c]]
    /\ UNCHANGED renewal

\* They throw: the call is over.
ResumeFailed(f) ==
    /\ pc' = [c \in Callers |-> IF Waiting(c, f) THEN "idle" ELSE pc[c]]
    /\ waits' = [c \in Callers |-> IF Waiting(c, f) THEN None ELSE waits[c]]
    /\ attempt' = [c \in Callers |-> IF Waiting(c, f) THEN 0 ELSE attempt[c]]
    /\ renewal' = [c \in Callers |-> IF Waiting(c, f) THEN None ELSE renewal[c]]
    /\ UNCHANGED sent

\* A fetch settles: cache the token and rearm the timer, unless its duration is
\* zero; its finally removes whatever fetch is registered.
FetchSucceeds(f, cacheable) ==
    /\ Idle /\ InFlight(f)
    /\ fetch' = [fetch EXCEPT ![f] = "settled"]
    /\ fetchPromise' = None
    /\ IF cacheable
         THEN /\ token' = f /\ expired' = FALSE
              /\ armed' = [TimerCleared EXCEPT !["refresh"] = @ + 1]
              /\ timer' = "refresh"
              /\ UNCHANGED uncached
         ELSE uncached' = uncached \cup {f} /\ UNCHANGED <<cacheVars, timerVars>>
    /\ ResumeOk(f)
    /\ UNCHANGED started

\* Mutant: a failed fetch stays registered.
FetchFailsRegistered(f) ==
    /\ Idle /\ InFlight(f)
    /\ fetch' = [fetch EXCEPT ![f] = "settled"]
    /\ IF fetch[f] = "refresh"
         THEN /\ armed' = [armed EXCEPT !["retry"] = @ + 1]
              /\ timer' = "retry"
         ELSE UNCHANGED timerVars
    /\ ResumeFailed(f)
    /\ UNCHANGED <<started, fetchPromise, cacheVars, uncached>>

\* A fetch fails; the callback of a refresh timer arms a retry.
FetchFails(f) ==
    /\ Idle /\ InFlight(f)
    /\ fetch' = [fetch EXCEPT ![f] = "settled"]
    /\ fetchPromise' = None
    /\ IF fetch[f] = "refresh"
         THEN /\ armed' = [armed EXCEPT !["retry"] = @ + 1]
              /\ timer' = "retry"
         ELSE UNCHANGED timerVars
    /\ ResumeFailed(f)
    /\ UNCHANGED <<started, cacheVars, uncached>>

\* A timer fires: it removes the map's handle, whosever that is, so the
\* forced refresh that follows clears no timer.
TimerFires(k) ==
    /\ Idle /\ armed[k] > 0
    /\ ForceRefresh(k, [armed EXCEPT ![k] = @ - 1])
    /\ UNCHANGED <<callerVars, renewal>>

Expire ==
    /\ Idle /\ token # None /\ ~expired
    /\ expired' = TRUE
    /\ UNCHANGED <<fetchVars, token, timerVars, callerVars, historyVars>>

-----------------------------------------------------------------------------
Headers(c) == UseCached(c) \/ Join(c) \/ FetchAnew(c)

Settles(f) == FetchFails(f) \/ \E b \in BOOLEAN : FetchSucceeds(f, b)

Next ==
    \/ \E c \in Callers : Call(c) \/ Headers(c) \/ Unauthorized(c) \/ Answered(c) \/ Renew(c)
    \/ \E f \in Fetches : Settles(f)
    \/ \E k \in TimerKinds : TimerFires(k)
    \/ Expire

Spec == Init /\ [][Next]_vars

\* Continuations run, fetches settle and servers answer; nobody has to call.
\* Strong fairness where microtasks of other callers come in between: they
\* only ever delay an event that has arrived.
FairSpec ==
    /\ Spec
    /\ \A c \in Callers : WF_vars(Headers(c)) /\ SF_vars(Answered(c))
    /\ \A f \in Fetches : SF_vars(Settles(f))

-----------------------------------------------------------------------------
\* A request sent again after a 401 carries a token fetched after that 401,
\* whichever other fetches and refreshes complete in between - unless that
\* fetch brought a token without a duration: it is not cached, and the retry
\* may find an older token that is.
RetryIsFresh ==
    \A c \in Callers :
        (pc[c] = "sending" /\ attempt[c] = 1) =>
            sent[c] >= renewal[c] \/ renewal[c] \in uncached

\* A cached token always has a timer that will refresh it: overwriting or
\* clearing handles never leaves a token to expire unattended.
RefreshPlanned == token # None => armed["refresh"] + armed["retry"] > 0

\* Every HTTP call returns or throws, although promises are dropped from the
\* map while callers wait for them (premise: fetch numbers do not run out).
EveryCallEnds ==
    \A c \in Callers : (pc[c] # "idle") ~> (pc[c] = "idle" \/ started = MaxFetches)
=============================================================================
