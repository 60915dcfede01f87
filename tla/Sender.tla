------------------------------- MODULE Sender -------------------------------
(***************************************************************************)
(* Outgoing messages, from a reply's payload or an action's parameters to  *)
(* the socket: handleAction (src/business/actions/handler.ts),             *)
(* createMessageSender, the senders of text, media and stickers, and the   *)
(* transport with its quote of the first reply (src/infra/transport.ts).   *)
(*                                                                         *)
(* A call works through its items; stage[c] says what it waits for.  Even  *)
(* an await with nothing to wait for gives the other calls a turn, which   *)
(* is why a message is quoted and sent in a step of its own.               *)
(***************************************************************************)
EXTENDS Directory

CONSTANTS
    Refs, NoRef,    \* inbound messages that are answered
    Jobs,           \* calls that may be made
    Mode            \* account.replyToMode: "off", "first" or "all"

\* What a call sends.  A reply quotes ref, an inbound message of refFrom, and
\* shares the trace context of ref with the other replies to it.  "outbound" is
\* the host's sendText or sendMedia, which call handleAction.
JobType ==
    [via : {"reply", "action", "outbound"}, ref : Refs \cup {NoRef},
     refFrom : Users \cup {NoUser}, to : Users \cup Names \cup {Group, NoTarget},
     inGroup : BOOLEAN,
     items : Seq([kind : {"text", "media", "sticker"}, names : Names \cup {NoUser}])]

ASSUME SenderConstants ==
    /\ Jobs \subseteq JobType /\ NoRef \notin Refs /\ Mode \in {"off", "first", "all"}
    /\ NoUser \notin Names
    /\ \A j \in Jobs : j.via = "reply" <=> j.ref # NoRef

VARIABLES
    job, target, items,
    stage,          \* what each call waits for
    body,           \* the message it is about to send
    told,           \* the result of the call
    seqCounter,     \* of the trace context of each inbound message
    delivered,      \* hasActionDelivered
    wire            \* history: the messages in the order the client got them

callVars == <<job, target, items, stage, body, told>>
traceVars == <<seqCounter, delivered>>
senderVars == <<storeVars, memberVars, query, directoryCache, callVars, traceVars, wire>>

NoJob == [via |-> "reply", ref |-> NoRef, refFrom |-> NoUser, to |-> NoTarget,
          inGroup |-> FALSE, items |-> <<>>]
NoBody == [kind |-> "none", mentions |-> NoUser]

SenderInit ==
    /\ job = [c \in Callers |-> NoJob]
    /\ target = [c \in Callers |-> NoTarget]
    /\ items = [c \in Callers |-> <<>>]
    /\ stage = [c \in Callers |-> "idle"]
    /\ body = [c \in Callers |-> NoBody]
    /\ told = [c \in Callers |-> "nothing"]
    /\ seqCounter = [r \in Refs |-> 0] /\ delivered = FALSE
    /\ wire = <<>>

IsGroup(c) == target[c] = Group
Goto(c, where) == stage' = [stage EXCEPT ![c] = where]

-----------------------------------------------------------------------------
(* A call begins and ends *)

\* What the caller is told; the host's sendText and sendMedia look only for an
\* exception, which handleAction does not throw.
Ends(c, result) ==
    /\ Goto(c, "done")
    /\ told' = [told EXCEPT ![c] = IF job[c].via = "outbound" THEN "ok" ELSE result]
    /\ items' = [items EXCEPT ![c] = <<>>]
    /\ body' = [body EXCEPT ![c] = NoBody]

\* handleAction up to the first item: the client, then the target.  A client that
\* is registered need not be connected.
BeginAction(c, j) ==
    \E to \in Users \cup Names \cup {Group, NoTarget}, registered \in BOOLEAN :
        /\ connected => registered
        /\ IF j.items = <<>> \/ ~registered
             THEN to = NoTarget /\ UNCHANGED directoryCache
             ELSE ResolveActionTarget(j.to, j.inGroup, to)
        /\ target' = [target EXCEPT ![c] = to]
        /\ IF to = NoTarget
             THEN /\ Goto(c, "done")
                  /\ told' = [told EXCEPT ![c] = IF j.via = "outbound" THEN "ok" ELSE "failed"]
                  /\ UNCHANGED items
             ELSE Goto(c, "item") /\ items' = [items EXCEPT ![c] = j.items] /\ UNCHANGED told

\* createMessageSender for the message the reply is to, and deliver
BeginReply(c, j) ==
    /\ target' = [target EXCEPT ![c] = j.to]
    /\ items' = [items EXCEPT ![c] = j.items]
    /\ Goto(c, "item")
    /\ UNCHANGED <<told, directoryCache>>

Begin(c, j) ==
    /\ stage[c] = "idle"
    /\ job' = [job EXCEPT ![c] = j]
    /\ IF j.via = "reply" THEN BeginReply(c, j) ELSE BeginAction(c, j)
    /\ UNCHANGED <<storeVars, memberVars, query, body, traceVars, wire>>

\* An item is done.  Only the failure of a text ends an action.
NextItem(c, ok) ==
    IF job[c].via # "reply" /\ Head(items[c]).kind = "text" /\ ~ok
      THEN Ends(c, "failed")
    ELSE IF Len(items[c]) = 1 THEN Ends(c, "ok")
    ELSE /\ items' = [items EXCEPT ![c] = Tail(@)]
         /\ Goto(c, "item")
         /\ UNCHANGED <<told, body>>

-----------------------------------------------------------------------------
(* The message body *)

\* sendText, and sendMedia's fallback to a text with the link: mentions are
\* resolved in groups only, with one look at the server if the name is not known.
Compose(c, b, where) ==
    /\ body' = [body EXCEPT ![c] = b]
    /\ Goto(c, where)

PrepareText(c) ==
    LET name == Head(items[c]).names
        found == ByNickName(ListOf(cache), session, name)
        asks == IsGroup(c) /\ name # NoUser /\ found = {}
    IN  /\ Head(items[c]).kind = "text"
        /\ \/ /\ asks /\ MustAsk
              /\ Ask(c) /\ Compose(c, NoBody, "mention")
           \/ /\ ~(asks /\ MustAsk)
              /\ \E u \in IF IsGroup(c) /\ name # NoUser /\ found # {} THEN found ELSE {NoUser} :
                    Compose(c, [kind |-> "text", mentions |-> u], "quote")
              /\ UNCHANGED query

PrepareMedia(c) ==
    /\ Head(items[c]).kind = "media"
    /\ Goto(c, "load")
    /\ UNCHANGED <<query, body>>

PrepareSticker(c) ==
    /\ Head(items[c]).kind = "sticker"
    /\ Compose(c, [kind |-> "sticker", mentions |-> NoUser], "quote")
    /\ UNCHANGED query

Prepare(c) ==
    /\ stage[c] = "item"
    /\ PrepareText(c) \/ PrepareMedia(c) \/ PrepareSticker(c)
    /\ UNCHANGED <<storeVars, memberVars, directoryCache, job, target, items, told,
                   traceVars, wire>>

\* The sticker is not in the cache.
StickerUnknown(c) ==
    /\ stage[c] = "item" /\ Head(items[c]).kind = "sticker"
    /\ NextItem(c, FALSE)
    /\ UNCHANGED <<storeVars, memberVars, query, directoryCache, job, target, traceVars, wire>>

\* A media message or, if any step of its preparation fails, the link as a text
MediaStep(c, from, next) ==
    /\ stage[c] = from
    /\ IF next \in {"media", "link"}
         THEN Compose(c, [kind |-> next, mentions |-> NoUser], "quote")
         ELSE Goto(c, next) /\ UNCHANGED body
    /\ UNCHANGED <<storeVars, memberVars, query, directoryCache, job, target, items, told,
                   traceVars, wire>>

\* The host's loader; the plugin's own download takes over what it cannot load.
Loaded(c, ok) == MediaStep(c, "load", IF ok THEN "upload" ELSE "download")

\* From disk or from the network; what is too large is a failure.
Downloaded(c, ok) == MediaStep(c, "download", IF ok THEN "upload" ELSE "link")

\* Too large, no permission to upload, or the upload fails
Uploaded(c, ok) == MediaStep(c, "upload", IF ok THEN "media" ELSE "link")

\* The list asked for a mention is there; a name nobody has stays text.
MentionResolved(c, ok) ==
    /\ stage[c] = "mention" /\ CanSettle(c, ok)
    /\ Fetched(c, ok) /\ Forgets(c)
    /\ LET list == IF cache'.version = 0 THEN {} ELSE Rosters[cache'.version]
           found == ByNickName(list, session', Head(items[c]).names)
       IN  \E u \in IF found = {} THEN {NoUser} ELSE found :
              Compose(c, [kind |-> "text", mentions |-> u], "quote")
    /\ UNCHANGED <<storeVars, yuanbaoUserId, directoryCache, job, target, items, told,
                   traceVars, wire>>

-----------------------------------------------------------------------------
(* The transport *)

AsksForUid(c) == IsGroup(c) /\ job[c].ref # NoRef /\ Mode # "off" /\ job[c].refFrom # NoUser

\* queryYuanbaoUserId: the list is needed until the uid is known.
LooksUpUid(c) ==
    /\ stage[c] = "quote" /\ AsksForUid(c) /\ yuanbaoUserId = NoUser
    /\ IF MustAsk THEN Ask(c) /\ Goto(c, "uid") /\ UNCHANGED yuanbaoUserId
       ELSE yuanbaoUserId' \in UidIn(ListOf(cache)) /\ Goto(c, "send") /\ UNCHANGED query
    /\ UNCHANGED <<storeVars, cache, session, directoryCache, job, target, items, body, told,
                   traceVars, wire>>

UidResolved(c, ok) ==
    /\ stage[c] = "uid" /\ CanSettle(c, ok)
    /\ Fetched(c, ok) /\ Forgets(c)
    /\ \E u \in UidIn(Returned(c, ok)) :
          yuanbaoUserId' = IF u = NoUser THEN yuanbaoUserId ELSE u
    /\ Goto(c, "send")
    /\ UNCHANGED <<storeVars, directoryCache, job, target, items, body, told, traceVars, wire>>

NoLookUp(c) ==
    /\ stage[c] = "quote" /\ IsGroup(c) /\ ~(AsksForUid(c) /\ yuanbaoUserId = NoUser)
    /\ Goto(c, "send")
    /\ UNCHANGED <<storeVars, memberVars, query, directoryCache, job, target, items, body, told,
                   traceVars, wire>>

\* classifyReplyMode
Classified(c) ==
    IF ~IsGroup(c) \/ job[c].ref = NoRef \/ Mode = "off" THEN "no"
    ELSE IF job[c].refFrom # NoUser /\ job[c].refFrom = yuanbaoUserId THEN "no"
    ELSE IF Mode = "all" THEN "yes" ELSE "first"

\* shouldAttachReplyRef, after its await
Quotes(c) == Classified(c) = "yes" \/ (Classified(c) = "first" /\ ~Has(job[c].ref))

\* The quote is decided (a direct message has none and does not wait for it),
\* the sequence number taken, and the message written, or refused by a client
\* that is not connected.
Send(c) ==
    LET r == job[c].ref
        message == [by |-> c, body |-> body[c], to |-> target[c],
                    written |-> connected, quote |-> IF Quotes(c) THEN r ELSE NoRef, at |-> now,
                    trace |-> r, seq |-> IF r = NoRef THEN 0 ELSE seqCounter[r] + 1]
    IN  /\ stage[c] = "send" \/ (stage[c] = "quote" /\ ~IsGroup(c))
        /\ IF Classified(c) = "first" THEN HasOrSet(r) ELSE UNCHANGED storeVars
        /\ seqCounter' = IF r = NoRef THEN seqCounter ELSE [seqCounter EXCEPT ![r] = @ + 1]
        /\ wire' = Append(wire, message)
        /\ IF connected THEN Goto(c, "answer") /\ UNCHANGED <<items, told, body>>
           ELSE NextItem(c, FALSE)
        /\ UNCHANGED <<memberVars, query, directoryCache, job, target, delivered>>

\* Mutant: the number of a message that failed is given back.
AnsweredGivingBack(c, ok) ==
    LET r == job[c].ref IN
    /\ stage[c] = "answer"
    /\ NextItem(c, ok)
    /\ seqCounter' = IF ok \/ r = NoRef THEN seqCounter ELSE [seqCounter EXCEPT ![r] = @ - 1]
    /\ delivered' = (delivered \/ (ok /\ job[c].via # "reply"))
    /\ UNCHANGED <<storeVars, memberVars, query, directoryCache, job, target, wire>>

\* The server answers with a code, or the request times out.
Answered(c, ok) ==
    /\ stage[c] = "answer"
    /\ NextItem(c, ok)
    /\ delivered' = (delivered \/ (ok /\ job[c].via # "reply"))
    /\ UNCHANGED <<storeVars, memberVars, query, directoryCache, job, target, seqCounter, wire>>

Turn(c) ==
    \/ \E j \in Jobs : Begin(c, j)
    \/ Prepare(c) \/ StickerUnknown(c) \/ LooksUpUid(c) \/ NoLookUp(c) \/ Send(c)
    \/ \E ok \in BOOLEAN :
         \/ Loaded(c, ok) \/ Downloaded(c, ok) \/ Uploaded(c, ok)
         \/ MentionResolved(c, ok) \/ UidResolved(c, ok) \/ Answered(c, ok)
=============================================================================
