---------------------------- MODULE GroupHistory ----------------------------
(***************************************************************************)
(* Pending history of one group chat: messages that do not mention the bot *)
(* are recorded, the next one that does takes the history into its context *)
(* and clears it when the reply is over, a recall removes a recorded       *)
(* message or tells the agent about it.                                    *)
(*   src/business/messaging/chat-history.ts                                *)
(*   src/business/messaging/callbacks/recall.ts                            *)
(*   src/business/pipeline/middlewares/{resolve-mention,build-context,     *)
(*     download-media}.ts                                                  *)
(*                                                                         *)
(* A lane is a session queue that feeds the group's pipelines: it runs one *)
(* message at a time.  The history is keyed by group code only, so all the *)
(* lanes of a group - the base and control lanes of each account - share   *)
(* it.  Recalls are callbacks and overtake the lanes.                      *)
(***************************************************************************)
EXTENDS Naturals, Sequences, SequencesExt

CONSTANTS
    Messages,      \* messages of the group
    Lanes,         \* session queues whose pipelines handle them
    NoMessage,
    HistoryLimit,  \* account.historyLimit
    MediaLimit     \* MEDIA_HISTORY_MAX_PER_CHAT

ASSUME HistoryConstants ==
    /\ NoMessage \notin Messages
    /\ HistoryLimit \in Nat
    /\ MediaLimit \in Nat \ {0}

VARIABLES
    lane,       \* messages waiting in each lane, oldest first
    kind,       \* what each message is, "unsent" before it arrives
    replying,   \* the mention each lane's pipeline is answering (NoMessage: idle)
    context,    \* history the lane's current reply was given
    history,    \* chatHistories entry of the group, as message ids
    media,      \* chatMediaHistories entry of the group
    events,     \* recall notices injected for the agent
    brought,    \* history: the messages each lane brought
    recorded,   \* history: messages that were recorded
    recalled,   \* history: messages recalled so far
    shown,      \* history: messages the agent was given in some context
    settled     \* history: those in the context of a reply that completed

chatVars == <<history, media>>
ghostVars == <<brought, recorded, recalled, shown, settled>>
groupVars == <<lane, kind, replying, context, chatVars, events, ghostVars>>

Kinds == {"plain", "picture", "mention"}

HistoryTypeOK ==
    /\ lane \in [Lanes -> Seq(Messages)]
    /\ kind \in [Messages -> Kinds \cup {"unsent"}]
    /\ replying \in [Lanes -> Messages \cup {NoMessage}]
    /\ context \in [Lanes -> SUBSET Messages]
    /\ history \in Seq(Messages) /\ media \in Seq(Messages)
    /\ Len(history) <= HistoryLimit /\ Len(media) <= MediaLimit
    /\ events \subseteq Messages
    /\ brought \in [Lanes -> SUBSET Messages]
    /\ recorded \subseteq Messages /\ recalled \subseteq Messages
    /\ shown \subseteq Messages /\ settled \subseteq shown

HistoryInit ==
    /\ lane = [l \in Lanes |-> <<>>]
    /\ kind = [m \in Messages |-> "unsent"]
    /\ replying = [l \in Lanes |-> NoMessage]
    /\ context = [l \in Lanes |-> {}]
    /\ history = <<>> /\ media = <<>>
    /\ events = {}
    /\ brought = [l \in Lanes |-> {}]
    /\ recorded = {} /\ recalled = {} /\ shown = {} /\ settled = {}

-----------------------------------------------------------------------------
\* Mutant: the list is cut one entry early.
NewestCutEarly(s, n) ==
    IF Len(s) < n THEN s ELSE SubSeq(s, Len(s) - n + 2, Len(s))

\* The newest n entries of a list: what both histories keep.
Newest(s, n) == IF Len(s) <= n THEN s ELSE SubSeq(s, Len(s) - n + 1, Len(s))

\* recordPendingHistoryEntryIfEnabled of the SDK.
RecordPending(m) ==
    IF HistoryLimit > 0
      THEN /\ history' = Newest(Append(history, m), HistoryLimit)
           /\ recorded' = recorded \cup {m}
      ELSE UNCHANGED <<history, recorded>>

\* recordMediaHistory.
RecordMedia(m) == media' = Newest(Append(media, m), MediaLimit)

\* clearHistoryEntriesIfEnabled of the SDK.
Cleared == IF HistoryLimit > 0 THEN <<>> ELSE history

Receive(m, l, k) ==
    /\ kind[m] = "unsent"
    /\ kind' = [kind EXCEPT ![m] = k]
    /\ lane' = [lane EXCEPT ![l] = Append(@, m)]
    /\ brought' = [brought EXCEPT ![l] = @ \cup {m}]
    /\ UNCHANGED <<replying, context, chatVars, events, recorded, recalled, shown, settled>>

\* A lane's queue starts its next task.
Takes(l) ==
    /\ replying[l] = NoMessage
    /\ lane[l] # <<>>
    /\ lane' = [lane EXCEPT ![l] = Tail(@)]

\* resolve-mention, no mention: record and end the pipeline.
Record(l) ==
    LET m == Head(lane[l]) IN
    /\ Takes(l)
    /\ kind[m] # "mention"
    /\ RecordPending(m)
    /\ IF kind[m] = "picture" THEN RecordMedia(m) ELSE UNCHANGED media
    /\ UNCHANGED <<kind, replying, context, events, brought, recalled, shown, settled>>

\* download-media for a mention, which may have pictures.  (Which earlier pictures
\* it adds to the message is data.)
DownloadMedia(m) == RecordMedia(m) \/ UNCHANGED media

\* build-context up to next(): the whole history goes into the context.  (The
\* downloads before it only delay it, like waiting in the lane.)
BuildContext(l) ==
    LET m == Head(lane[l]) IN
    /\ Takes(l)
    /\ kind[m] = "mention"
    /\ replying' = [replying EXCEPT ![l] = m]
    /\ context' = [context EXCEPT ![l] = ToSet(history)]
    /\ shown' = shown \cup ToSet(history) \cup {m}
    /\ DownloadMedia(m)
    /\ UNCHANGED <<kind, history, events, brought, recorded, recalled, settled>>

\* Mutant: the history is not cleared after the reply.
ReplyCompletesUncleared(l) ==
    /\ replying[l] # NoMessage
    /\ settled' = settled \cup context[l]
    /\ replying' = [replying EXCEPT ![l] = NoMessage]
    /\ context' = [context EXCEPT ![l] = {}]
    /\ UNCHANGED <<lane, kind, chatVars, events, brought, recorded, recalled, shown>>

\* build-context after next(): clear the group's history.
ReplyCompletes(l) ==
    /\ replying[l] # NoMessage
    /\ history' = Cleared
    /\ settled' = settled \cup context[l]
    /\ replying' = [replying EXCEPT ![l] = NoMessage]
    /\ context' = [context EXCEPT ![l] = {}]
    /\ UNCHANGED <<lane, kind, media, events, brought, recorded, recalled, shown>>

\* next() throws: the pipeline ends without clearing.
ReplyFails(l) ==
    /\ replying[l] # NoMessage
    /\ replying' = [replying EXCEPT ![l] = NoMessage]
    /\ context' = [context EXCEPT ![l] = {}]
    /\ UNCHANGED <<lane, kind, chatVars, events, ghostVars>>

\* Mutant: the oldest entry is removed instead of the recalled one.
RecallOldest(m) ==
    /\ kind[m] # "unsent" /\ m \notin recalled
    /\ recalled' = recalled \cup {m}
    /\ IF m \in ToSet(history)
         THEN history' = Tail(history) /\ UNCHANGED events
         ELSE events' = events \cup {m} /\ UNCHANGED history
    /\ UNCHANGED <<lane, kind, replying, context, media, brought, recorded, shown, settled>>

\* findIndex: where a message is in the history.
IndexOf(m) ==
    CHOOSE i \in DOMAIN history : /\ history[i] = m
                                  /\ \A j \in 1 .. i - 1 : history[j] # m

\* handleGroupRecall for one entry of the list.
Recall(m) ==
    /\ kind[m] # "unsent" /\ m \notin recalled
    /\ recalled' = recalled \cup {m}
    /\ IF m \in ToSet(history)
         THEN history' = RemoveAt(history, IndexOf(m)) /\ UNCHANGED events
         ELSE events' = events \cup {m} /\ UNCHANGED history
    /\ UNCHANGED <<lane, kind, replying, context, media, brought, recorded, shown, settled>>

HistoryNext ==
    \/ \E m \in Messages : Recall(m) \/ \E l \in Lanes, k \in Kinds : Receive(m, l, k)
    \/ \E l \in Lanes : Record(l) \/ BuildContext(l) \/ ReplyCompletes(l) \/ ReplyFails(l)

HistorySpec == HistoryInit /\ [][HistoryNext]_groupVars

-----------------------------------------------------------------------------
\* What the agent answered with is not shown to it again: a message in the
\* context of a completed reply is gone from the history for good, whatever
\* lanes recorded, failed or completed in between.
NotShownAgain == settled \cap ToSet(history) = {}

\* A recalled message that the agent gets no notice of had been recorded and is
\* out of the history for good, so that no later context can hold it.
RecalledStaysOut ==
    \A m \in recalled :
        (m \notin events) => m \notin ToSet(history) /\ m \in recorded

\* No message is lost between two replies: an entry leaves the history only
\* when it was shown to the agent, was recalled, is the oldest of a full list that
\* stays full - or came through another lane than that whose reply ends, while
\* that reply was under way.  A lane's own messages are never lost by its replies.
NothingLost ==
    [][\A m \in ToSet(history) \ ToSet(history') :
          \/ m \in shown \cup recalled'
          \/ m = Head(history) /\ Len(history) = HistoryLimit /\ Len(history') = HistoryLimit
          \/ \E l \in Lanes :
                replying[l] # NoMessage /\ replying'[l] = NoMessage /\ m \notin brought[l]]_groupVars
=============================================================================
