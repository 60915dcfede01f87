-------------------------- MODULE StreamingSession --------------------------
(***************************************************************************)
(* The output session of one reply                                         *)
(* (src/business/outbound/streaming-output-session.ts): cumulative text    *)
(* comes in, chunks go out one after the other, everything that was not    *)
(* sent yet goes out at the end.                                           *)
(*                                                                         *)
(* Text is counted in pieces: <<g, i>> is the i-th piece of the assistant  *)
(* message g, cumulativeText is a prefix of the current message, a chunk   *)
(* is a run of pieces that are sent one by one.  Where the chunker cuts,   *)
(* and whether the unsent text is long enough and safe to cut, is a choice.*)
(* The repair of newlines around reasoning blocks is left out, so a later  *)
(* cumulative text always extends an earlier one of the same message.      *)
(***************************************************************************)
EXTENDS Naturals, Sequences

CONSTANTS
    MaxSegments,   \* bound on the assistant messages of a reply
    MaxPieces,     \* bound on the text of one message
    MaxDrains,     \* bound on the drains queued by tool calls
    NoPiece

VARIABLES
    disableBlockStreaming,  \* option of the account
    segment,                \* number of the current assistant message
    cumulative,             \* length of cumulativeText
    sentIndex,
    sendChain,              \* drains whose turn has not come
    toSend,                 \* pieces the running drain still has to send
    inFlight,               \* the piece sender.sendText works on
    poisoned,               \* a send threw: both chains reject from now on
    aborted,
    receivedPartial,
    hasSentContent,
    sentText                \* history: pieces given to the sender, in order

textVars == <<segment, cumulative, sentIndex>>
chainVars == <<sendChain, toSend, inFlight, poisoned, hasSentContent, sentText>>
sessionVars == <<disableBlockStreaming, textVars, chainVars, aborted, receivedPartial>>

Pieces == (0..MaxSegments) \X (1..MaxPieces)

SessionTypeOK ==
    /\ disableBlockStreaming \in BOOLEAN
    /\ segment \in 0..MaxSegments
    /\ cumulative \in 0..MaxPieces /\ sentIndex \in 0..MaxPieces
    /\ sendChain \in Seq({"stream", "force"})
    /\ toSend \in Seq(Pieces) /\ sentText \in Seq(Pieces)
    /\ inFlight \in Pieces \cup {NoPiece}
    /\ poisoned \in BOOLEAN /\ aborted \in BOOLEAN
    /\ receivedPartial \in BOOLEAN /\ hasSentContent \in BOOLEAN

SessionInit ==
    /\ disableBlockStreaming \in BOOLEAN
    /\ segment = 0 /\ cumulative = 0 /\ sentIndex = 0
    /\ sendChain = <<>> /\ toSend = <<>> /\ inFlight = NoPiece /\ poisoned = FALSE
    /\ aborted = FALSE /\ receivedPartial = FALSE /\ hasSentContent = FALSE
    /\ sentText = <<>>

-----------------------------------------------------------------------------
\* The pieces of the current message from index a (exclusive) up to b.
Slice(a, b) == [i \in 1..(b - a) |-> <<segment, a + i>>]

\* Nothing is being sent, and a drain or finalize may go on.
SenderFree == toSend = <<>> /\ inFlight = NoPiece

\* update(): the text grew by n pieces.
Update(n) ==
    /\ ~aborted
    /\ cumulative + n <= MaxPieces
    /\ receivedPartial' = TRUE
    /\ cumulative' = cumulative + n
    /\ sendChain' = IF disableBlockStreaming THEN sendChain ELSE Append(sendChain, "stream")
    /\ UNCHANGED <<disableBlockStreaming, segment, sentIndex, toSend, inFlight, poisoned,
                   aborted, hasSentContent, sentText>>

\* beginNewSegment(): whatever was not taken by a drain is forgotten.
BeginNewSegment ==
    /\ ~aborted
    /\ segment < MaxSegments
    /\ segment' = segment + 1
    /\ cumulative' = 0
    /\ sentIndex' = 0
    /\ UNCHANGED <<disableBlockStreaming, chainVars, aborted, receivedPartial>>

\* flushNow()
FlushNow ==
    /\ ~aborted
    /\ Len(sendChain) < MaxDrains
    /\ sendChain' = IF disableBlockStreaming THEN sendChain ELSE Append(sendChain, "force")
    /\ UNCHANGED <<disableBlockStreaming, textVars, toSend, inFlight, poisoned, aborted,
                   receivedPartial, hasSentContent, sentText>>

\* Up to where a drain sends: everything, or, while streaming, all but the
\* last chunk, if there is more than one.
DrainEnds(mode) ==
    IF mode = "force" THEN {cumulative}
    ELSE {sentIndex} \cup {c \in 1..cumulative : sentIndex < c /\ c < cumulative}

\* Mutant: the cursor does not move when a drain takes text.
DrainStartsWithoutCursor ==
    /\ sendChain # <<>> /\ SenderFree /\ ~poisoned /\ ~aborted
    /\ sendChain' = Tail(sendChain)
    /\ \E end \in DrainEnds(Head(sendChain)) : toSend' = Slice(sentIndex, end)
    /\ UNCHANGED <<disableBlockStreaming, textVars, inFlight, poisoned, aborted,
                   receivedPartial, hasSentContent, sentText>>

\* The next drain of the chain runs: drainUnsent and sendUnsent move the
\* cursor before the first chunk is sent.
DrainStarts ==
    /\ sendChain # <<>> /\ SenderFree /\ ~poisoned /\ ~aborted
    /\ sendChain' = Tail(sendChain)
    /\ \E end \in DrainEnds(Head(sendChain)) :
          /\ toSend' = Slice(sentIndex, end)
          /\ sentIndex' = end
    /\ UNCHANGED <<disableBlockStreaming, segment, cumulative, inFlight, poisoned, aborted,
                   receivedPartial, hasSentContent, sentText>>

\* enqueueTextSend: after the interval between sends, unless aborted.
ChunkStarts ==
    /\ toSend # <<>> /\ inFlight = NoPiece /\ ~aborted
    /\ inFlight' = Head(toSend)
    /\ toSend' = Tail(toSend)
    /\ sentText' = Append(sentText, Head(toSend))
    /\ UNCHANGED <<disableBlockStreaming, textVars, sendChain, poisoned, aborted,
                   receivedPartial, hasSentContent>>

\* sender.sendText answers, with an error that is only logged, or throws, which
\* rejects the chains and whatever was queued on them.
ChunkSettles(outcome) ==
    /\ inFlight # NoPiece
    /\ inFlight' = NoPiece
    /\ hasSentContent' = (hasSentContent \/ outcome = "ok")
    /\ IF outcome = "throws"
         THEN poisoned' = TRUE /\ toSend' = <<>> /\ sendChain' = <<>>
         ELSE UNCHANGED <<poisoned, toSend, sendChain>>
    /\ UNCHANGED <<disableBlockStreaming, textVars, aborted, receivedPartial, sentText>>

\* Mutant: finalize does not wait for the send in progress and what is
\* queued behind it is replaced.
TakeRemainingAtOnce ==
    /\ toSend' = Slice(sentIndex, cumulative)
    /\ sentIndex' = cumulative
    /\ sendChain' = <<>>
    /\ UNCHANGED <<disableBlockStreaming, segment, cumulative, inFlight, poisoned,
                   aborted, receivedPartial, hasSentContent, sentText>>

\* finalize() after `await sendChain`: take all that is left.  (The cursor
\* moves when the chunks are out; nobody reads it in between.)
TakeRemaining ==
    /\ sendChain = <<>> /\ SenderFree
    /\ toSend' = Slice(sentIndex, cumulative)
    /\ sentIndex' = cumulative
    /\ UNCHANGED <<disableBlockStreaming, segment, cumulative, sendChain, inFlight, poisoned,
                   aborted, receivedPartial, hasSentContent, sentText>>

\* abort()
Abort ==
    /\ aborted' = TRUE
    /\ cumulative' = 0
    /\ sendChain' = <<>>
    /\ toSend' = <<>>
    /\ UNCHANGED <<disableBlockStreaming, segment, sentIndex, inFlight, poisoned,
                   receivedPartial, hasSentContent, sentText>>
=============================================================================
