--------------------------- MODULE DispatchReply ---------------------------
(***************************************************************************)
(* One run of the dispatch-reply middleware                                *)
(* (src/business/pipeline/middlewares/dispatch-reply.ts) over its output   *)
(* session and its heartbeat.                                              *)
(*                                                                         *)
(* The host's reply dispatcher is the environment: it calls the callbacks  *)
(* of replyOptions and deliver in any order and does not wait for the      *)
(* promises they return, except that deliver calls come one at a time and  *)
(* that it settles when the last one has.  Payloads deliver discards       *)
(* (reasoning, tool results, suppressed warnings) are no step.             *)
(***************************************************************************)
EXTENDS Naturals, Sequences, SequencesExt

CONSTANTS MaxSegments, MaxPieces, MaxDrains, NoPiece

ASSUME ReplyConstants ==
    /\ MaxSegments \in Nat /\ MaxPieces \in Nat /\ MaxDrains \in Nat
    /\ NoPiece \notin (Nat \X Nat)

VARIABLES
    disableBlockStreaming, segment, cumulative, sentIndex, sendChain, toSend, inFlight,
    poisoned, aborted, receivedPartial, hasSentContent, sentText,       \* StreamingSession
    active, idle, awaiting, armed, timer, everStarted, finishEmitted,
    finishAwaited, forceStopped, wire,                                  \* ReplyHeartbeat
    phase,            \* where the handler is
    delivering,       \* what the current deliver call awaits
    hasSent,          \* hasSentContent of the handler
    signalAborted,    \* ctx.abortSignal.aborted
    actionDelivered,  \* traceContext.hasActionDelivered()
    fallbackSent,
    written,          \* history: pieces of text the agent wrote
    reached           \* history: content came to the user, by more than Unheard sends

Session == INSTANCE StreamingSession
Heartbeat == INSTANCE ReplyHeartbeat

textVars == <<segment, cumulative, sentIndex>>
chainVars == <<sendChain, toSend, inFlight, poisoned, hasSentContent, sentText>>
sessionVars == <<disableBlockStreaming, textVars, chainVars, aborted, receivedPartial>>
heartbeatVars == <<active, idle, awaiting, armed, timer, everStarted, finishEmitted,
                   finishAwaited, forceStopped, wire>>
replyVars == <<hasSent, signalAborted, actionDelivered, fallbackSent>>
historyVars == <<written, reached>>
vars == <<sessionVars, heartbeatVars, phase, delivering, replyVars, historyVars>>

Ended == {"returned", "threw"}

\* What a send comes to.  "lost": the message may be with the user, but its
\* answer is not with the plugin (a timeout, a lost connection); it is told of
\* it as of a refusal.
Outcomes == {"ok", "refused", "lost", "throws"}

\* The sends that can have brought content to the user, and those of them the
\* plugin cannot tell from refused ones.  (deliver takes every send that does not
\* throw for content.)
Arrivals == {"chunk", "deliver", "action"} \X {"ok", "lost"}
Unheard == {"chunk", "action"} \X {"lost"}

Arrives(by, outcome) == reached' = (reached \/ <<by, outcome>> \in Arrivals \ Unheard)

TypeOK ==
    /\ Session!SessionTypeOK /\ Heartbeat!HeartbeatTypeOK
    /\ phase \in {"dispatching", "draining", "sending", "fallback"} \cup Ended
    /\ delivering \in {"none", "media", "text"}
    /\ hasSent \in BOOLEAN /\ signalAborted \in BOOLEAN /\ actionDelivered \in BOOLEAN
    /\ fallbackSent \in BOOLEAN /\ reached \in BOOLEAN
    /\ written \subseteq Session!Pieces

Init ==
    /\ Session!SessionInit /\ Heartbeat!HeartbeatInit
    /\ phase = "dispatching" /\ delivering = "none"
    /\ hasSent = FALSE /\ signalAborted = FALSE /\ actionDelivered = FALSE
    /\ fallbackSent = FALSE /\ written = {} /\ reached = FALSE

-----------------------------------------------------------------------------
(* Callbacks of the host, while it dispatches. *)

\* onAgentRunStart, and onPartialReply without text.
SignOfLife ==
    /\ phase = "dispatching"
    /\ Heartbeat!EmitRunning
    /\ UNCHANGED <<sessionVars, phase, delivering, replyVars, historyVars>>

\* onAssistantMessageStart
MessageStarts ==
    /\ phase = "dispatching"
    /\ Session!BeginNewSegment
    /\ Heartbeat!EmitRunning
    /\ UNCHANGED <<phase, delivering, replyVars, historyVars>>

\* onPartialReply with more text
PartialReply ==
    /\ phase = "dispatching"
    /\ Session!Update(1)
    /\ Heartbeat!EmitRunning
    /\ written' = written \cup {<<segment, cumulative + 1>>}
    /\ UNCHANGED <<phase, delivering, replyVars, reached>>

\* onToolStart
ToolStarts ==
    /\ phase = "dispatching"
    /\ Session!FlushNow
    /\ UNCHANGED <<heartbeatVars, phase, delivering, replyVars, historyVars>>

\* An item (sticker, media, text) of a message action of the agent was sent: a
\* successful one is marked in the trace context.
ActionDelivers(outcome) ==
    /\ phase = "dispatching"
    /\ actionDelivered' = (actionDelivered \/ outcome = "ok")
    /\ Arrives("action", outcome)
    /\ UNCHANGED <<sessionVars, heartbeatVars, phase, delivering, hasSent, signalAborted,
                   fallbackSent, written>>

\* deliver(): media first; text only if no partial reply has come yet.
DeliverStarts(first) ==
    /\ phase = "dispatching" /\ delivering = "none" /\ ~signalAborted
    /\ first = "text" => ~receivedPartial
    /\ delivering' = first
    /\ UNCHANGED <<sessionVars, heartbeatVars, phase, replyVars, historyVars>>

\* A send of deliver settles.  What counts as sent did not throw; whether the
\* server took it is not looked at.
DeliverSettles(outcome, hasText) ==
    /\ delivering # "none"
    /\ hasSent' = (hasSent \/ outcome # "throws")
    /\ Arrives("deliver", outcome)
    /\ delivering' = IF delivering = "media" /\ outcome # "throws" /\ hasText /\ ~receivedPartial
                       THEN "text" ELSE "none"
    /\ UNCHANGED <<sessionVars, heartbeatVars, phase, signalAborted, actionDelivered,
                   fallbackSent, written>>

\* A newer message or a stop request aborts the signal.
SignalAborts ==
    /\ phase \notin Ended /\ ~signalAborted
    /\ signalAborted' = TRUE
    /\ UNCHANGED <<sessionVars, heartbeatVars, phase, delivering, hasSent, actionDelivered,
                   fallbackSent, historyVars>>

-----------------------------------------------------------------------------
(* The handler after the dispatch. *)

DispatchResolves ==
    /\ phase = "dispatching" /\ delivering = "none"
    /\ phase' = "draining"
    /\ UNCHANGED <<sessionVars, heartbeatVars, delivering, replyVars, historyVars>>

\* session.finalize() has waited for the chain.
FinalizeTakes ==
    /\ phase = "draining" /\ ~poisoned
    /\ Session!TakeRemaining
    /\ phase' = "sending"
    /\ UNCHANGED <<heartbeatVars, delivering, replyVars, historyVars>>

\* Mutant: the agent's message actions are not looked at.
NothingStreamed == ~hasSent /\ ~hasSentContent

NothingSaid == ~hasSent /\ ~hasSentContent /\ ~actionDelivered

\* finalize() returns: send the fallback reply, if the account has one and
\* nothing was said.
FinalizeReturns(fallbackReply) ==
    /\ phase = "sending" /\ Session!SenderFree /\ ~poisoned
    /\ hasSent' = (hasSent \/ hasSentContent)
    /\ IF fallbackReply /\ NothingSaid /\ ~signalAborted
         THEN /\ phase' = "fallback" /\ fallbackSent' = TRUE
              /\ UNCHANGED heartbeatVars
         ELSE /\ phase' = "returned" /\ UNCHANGED fallbackSent
              /\ Heartbeat!FinishIfNeeded
    /\ UNCHANGED <<sessionVars, delivering, signalAborted, actionDelivered, historyVars>>

FallbackSettles ==
    /\ phase = "fallback"
    /\ phase' = "returned"
    /\ Heartbeat!FinishIfNeeded
    /\ UNCHANGED <<sessionVars, delivering, replyVars, historyVars>>

\* Mutant: a rejected chain never reaches the handler.
HandlerThrowsUnlessDraining ==
    /\ phase \in {"dispatching", "fallback"}
    /\ phase' = "threw"
    /\ Session!Abort
    /\ Heartbeat!FinishIfNeeded
    /\ UNCHANGED <<delivering, replyVars, historyVars>>

\* The dispatch, finalize or the fallback reply throws: abort the session,
\* finish the heartbeat, rethrow.
HandlerThrows ==
    /\ \/ phase \in {"dispatching", "fallback"}
       \/ phase \in {"draining", "sending"} /\ poisoned
    /\ phase' = "threw"
    /\ Session!Abort
    /\ Heartbeat!FinishIfNeeded
    /\ UNCHANGED <<delivering, replyVars, historyVars>>

-----------------------------------------------------------------------------
(* What goes on by itself. *)

ChunkSettles ==
    \E outcome \in Outcomes :
        /\ Session!ChunkSettles(outcome)
        /\ Arrives("chunk", outcome)
        /\ UNCHANGED <<heartbeatVars, phase, delivering, replyVars, written>>

SendStep ==
    /\ Session!DrainStarts \/ Session!ChunkStarts
    /\ UNCHANGED <<heartbeatVars, phase, delivering, replyVars, historyVars>>

HeartbeatStep ==
    /\ \/ Heartbeat!LoopFires
       \/ \E dissolved \in BOOLEAN :
             Heartbeat!RunningSettles(dissolved) \/ Heartbeat!FinishSettles(dissolved)
    /\ UNCHANGED <<sessionVars, phase, delivering, replyVars, historyVars>>

AgentStalls ==
    /\ Heartbeat!GoesIdle
    /\ UNCHANGED <<sessionVars, phase, delivering, replyVars, historyVars>>

Callback ==
    \/ SignOfLife \/ MessageStarts \/ PartialReply \/ ToolStarts
    \/ \E outcome \in {"ok", "lost"} : ActionDelivers(outcome)
    \/ \E first \in {"media", "text"} : DeliverStarts(first)

DeliverStep ==
    \E outcome \in Outcomes, hasText \in BOOLEAN :
        DeliverSettles(outcome, hasText)

HandlerStep ==
    FinalizeTakes \/ FallbackSettles \/ \E configured \in BOOLEAN : FinalizeReturns(configured)

Next ==
    \/ Callback \/ DeliverStep \/ SignalAborts
    \/ DispatchResolves \/ HandlerStep \/ HandlerThrows
    \/ SendStep \/ ChunkSettles \/ HeartbeatStep \/ AgentStalls

Spec == Init /\ [][Next]_vars

\* Sends and heartbeats settle, timers fire, awaits go on.  Nothing is assumed
\* of the host.
FairSpec ==
    /\ Spec
    /\ WF_vars(SendStep) /\ WF_vars(ChunkSettles)
    /\ WF_vars(HandlerStep) /\ WF_vars(HandlerThrows /\ phase # "dispatching")
    /\ WF_vars(HeartbeatStep)

-----------------------------------------------------------------------------
\* Text goes out in the order it was written and no piece goes out twice,
\* whichever drains, flushes and new segments overlap.
Before(a, b) == a[1] < b[1] \/ (a[1] = b[1] /\ a[2] < b[2])

SentInOrder ==
    \A i \in 1..(Len(sentText) - 1) : Before(sentText[i], sentText[i + 1])

\* A reply that returns has handed over the whole of the last assistant
\* message: no overlap of a drain with finalize leaves a tail behind.
LastMessageComplete ==
    phase = "returned" => \A i \in 1..cumulative : <<segment, i>> \in ToSet(sentText)

\* The fallback reply is for a reply that had nothing to say: no streamed text,
\* delivered payload or message action has reached the user before it, and none
\* does after it.  The exception is Unheard: a chunk or an action whose answer was
\* lost may have reached the user.
FallbackStandsAlone == fallbackSent => ~reached

\* FINISH is the last heartbeat of a reply: no RUNNING that was delayed, or
\* whose timer was armed before, follows it.
FinishIsLast == [][wire = "finish" => wire' = "finish"]_vars

\* The handler never has two heartbeat loops, nor a timer it cannot clear.
OneLoop == awaiting + armed <= 1 /\ (armed = 1 <=> timer)

\* Once the dispatch is over the handler returns or throws, although chains may
\* have been rejected, and its heartbeat falls silent.
ReplyEnds ==
    (phase # "dispatching") ~> (phase \in Ended /\ awaiting = 0 /\ armed = 0 /\ inFlight = NoPiece)

\* "Set disableBlockStreaming: true to send the complete reply": when nothing
\* went wrong, all the agent wrote is sent.
CompleteReply ==
    (phase = "returned" /\ disableBlockStreaming) => written \subseteq ToSet(sentText)
=============================================================================
