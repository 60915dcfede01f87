---------------------------- MODULE StreamedText ----------------------------
(***************************************************************************)
(* What becomes of one assistant message on its way through the streaming  *)
(* session (src/business/outbound/streaming-output-session.ts) and the     *)
(* preparation of outgoing text: where the text is cut, what the cursor    *)
(* does, and which fences are added.                                       *)
(*                                                                         *)
(* StreamingSession has the order of sends, aborts and failures and leaves *)
(* the text open; here nothing fails, and a drain sends all its chunks in  *)
(* the step in which it moves the cursor.  Partial replies come in while   *)
(* drains wait for their turn, so a drain may run late or not at all.      *)
(***************************************************************************)
EXTENDS ThinkingBoundary

CONSTANTS
    Messages,       \* texts the agent may write, as sequences of classes
    MinChars, MaxChars,
    MaxReasoning    \* bound on the ends of reasoning blocks

ASSUME StreamedConstants ==
    /\ Messages \subseteq Seq(Classes)
    /\ MinChars \in Nat /\ MaxChars \in Nat \ {0} /\ MaxReasoning \in Nat

VARIABLES
    message,
    chunker,        \* chunkText: the host's, made aware of blocks, or the default
    received,       \* how much of the message has come in
    cumulativeText,
    sentIndex,
    due,            \* a drain waits for its turn
    reasoned,       \* ends of reasoning blocks so far
    finalized,
    sent,           \* history: the texts given to the client
    rewritten,      \* history: a repair changed text that had been sent
    stuck,          \* history: the cursor stayed where it was when text was sent
    torn            \* history: a chunk that stayed behind began with a mark from within a line

sessionVars == <<cumulativeText, sentIndex, sent, stuck, torn>>
textVars == <<message, chunker, received, due, reasoned, finalized, rewritten, sessionVars, repairVars>>

TextInit ==
    /\ \E m \in Messages : message = [i \in DOMAIN m |-> [c |-> m[i], at |-> i]]
    /\ chunker \in {"host", "default"}
    /\ received = 0 /\ cumulativeText = <<>> /\ sentIndex = 0
    /\ due = FALSE /\ reasoned = 0 /\ finalized = FALSE /\ sent = <<>>
    /\ rewritten = FALSE /\ stuck = FALSE /\ torn = FALSE
    /\ RepairInit

Unsent == Rest(cumulativeText, sentIndex)

-----------------------------------------------------------------------------
(* Cutting *)

\* defaultChunkText: after the last line break that fits
NextCut(text, from) ==
    LET breaks == {i \in from + 1 .. from + MaxChars : text[i].c = NL} IN
    IF Len(text) - from <= MaxChars THEN Len(text)
    ELSE IF breaks # {} THEN Max(breaks) ELSE from + MaxChars

DefaultCuts(text) ==
    LET Add(cuts) ==
          LET from == IF cuts = <<>> THEN 0 ELSE Last(cuts) IN
          IF from = Len(text) THEN cuts ELSE Append(cuts, NextCut(text, from))
        cuts[i \in 0 .. Len(text)] == IF i = 0 THEN <<>> ELSE Add(cuts[i - 1])
    IN  cuts[Len(text)]

DefaultChunks(text) ==
    LET cuts == DefaultCuts(text) IN
    [i \in DOMAIN cuts |-> Slice(text, IF i = 1 THEN 0 ELSE cuts[i - 1], cuts[i])]

Opened(opener, chunk) == opener \o <<Added(NL)>> \o chunk
Closed(chunk) == (IF Last(chunk).c = NL THEN chunk ELSE Append(chunk, Added(NL))) \o <<Added(Fence)>>

\* core.channel.text.chunkMarkdownText: a code block that is cut is closed and
\* opened again.
HostChunks(text) ==
    LET chunks == DefaultChunks(text)
        opener(i) == IF i = 0 THEN <<>> ELSE FenceAt(Slice(text, 0, DefaultCuts(text)[i]), <<>>)
        Decorated(i) ==
          LET chunk == IF opener(i - 1) # <<>> THEN Opened(opener(i - 1), chunks[i]) ELSE chunks[i] IN
          IF i < Len(chunks) /\ opener(i) # <<>> THEN Closed(chunk) ELSE chunk
    IN  [i \in DOMAIN chunks |-> Decorated(i)]

RawChunks(text) ==
    IF chunker = "default" THEN DefaultChunks(text) ELSE ChunkAware(text, HostChunks(text))

\* applyCrossMessageFenceRepair: what was sent before ended inside the fence
\* initial opens, and every chunk that begins inside one gets that line.
Repaired(chunks, initial) ==
    LET IsOpened(chunk) ==
          LET text == {i \in DOMAIN chunk : chunk[i].c # NL} IN
          text # {} /\ chunk[Min(text)].c \in Fences
        Put(acc, i) ==
          LET ends == FenceAt(chunks[i], acc.opener)
              out == IF acc.opener # <<>> /\ ~IsOpened(chunks[i])
                       THEN Opened(acc.opener, chunks[i]) ELSE chunks[i]
          IN  IF ends # <<>> /\ i < Len(chunks)
                THEN [out |-> Append(acc.out, Closed(out)), opener |-> initial]
                ELSE [out |-> Append(acc.out, out), opener |-> ends]
        acc[i \in 0 .. Len(chunks)] ==
          IF i = 0 THEN [out |-> <<>>, opener |-> initial] ELSE Put(acc[i - 1], i)
    IN  IF initial = <<>> THEN chunks ELSE acc[Len(chunks)].out

-----------------------------------------------------------------------------
(* The cursor *)

\* stripChunkDecorations: a first line that opens a fence, a last that closes one
Stripped(chunk) ==
    LET hasLine == chunk # <<>> /\ Head(chunk).c \in Fences /\ Positions(chunk, NL) # {}
        body == IF hasLine THEN Rest(chunk, LineEnd(chunk, 1)) ELSE chunk
        closing == {i \in Positions(body, NL) :
                      /\ ClassAt(body, i + 1) = Fence
                      /\ IsBlank(Rest(body, i + 1))}
    IN  IF closing = {} THEN body ELSE SubSeq(body, 1, Min(closing) - 1)

\* Mutant: the body is taken for the end of the text without a look.
OffsetOfLastUnchecked(unsent, chunks) ==
    LET body == Stripped(Last(chunks)) IN
    IF Len(chunks) <= 1 \/ body = <<>> THEN 0 ELSE Len(unsent) - Len(body)

\* originalOffsetForKeepingLastChunk: the body of the last chunk is looked for
\* in what is not sent yet, first at its end.
OffsetOfLast(unsent, chunks) ==
    LET body == Stripped(Last(chunks))
        places == {i \in 0 .. Len(unsent) :
                     StartsWith(Rest(unsent, i), body)}
    IN  IF Len(chunks) <= 1 \/ body = <<>> \/ places = {} THEN 0 ELSE Max(places)

-----------------------------------------------------------------------------
(* Sending *)

\* prepareOutboundContent
Prepared(chunk) == SanitizeTables(NormalizeMath(chunk))

\* sendChunks, of which sendText skips the blank ones
Sends(chunks) ==
    LET Send(texts, chunk) == IF IsBlank(chunk) THEN texts ELSE Append(texts, Prepared(chunk))
        texts[i \in 0 .. Len(chunks)] == IF i = 0 THEN sent ELSE Send(texts[i - 1], chunks[i])
    IN  sent' = texts[Len(chunks)]

FenceAtCursor == FenceAt(Slice(cumulativeText, 0, sentIndex), <<>>)
Delivery(raw) == Repaired(raw, FenceAtCursor)

\* A mark from within a line is no fence, but at the head of a chunk it looks like one.
BeginsTorn(chunk) ==
    \E i \in DOMAIN cumulativeText \ LineStarts(cumulativeText) :
        cumulativeText[i].c \in Fences /\ chunk # <<>> /\ Head(chunk) = cumulativeText[i]

\* drainUnsent(false): all chunks but the last, which stays behind the cursor
Streamable == ~IsBlank(Unsent) /\ Len(Unsent) >= MinChars /\ IsSplitSafe(Unsent, MaxChars)

Stream ==
    LET raw == RawChunks(Unsent) IN
    IF Streamable /\ Len(raw) > 1
      THEN /\ sentIndex' = sentIndex + OffsetOfLast(Unsent, raw)
           /\ Sends(Front(Delivery(raw)))
           /\ stuck' = (stuck \/ sentIndex' = sentIndex)
           /\ torn' = (torn \/ BeginsTorn(Last(raw)))
      ELSE UNCHANGED <<sentIndex, sent, stuck, torn>>

\* drainUnsent(true), and what finalize does: everything
SendRest ==
    /\ IF IsBlank(Unsent) THEN UNCHANGED <<sentIndex, sent>>
       ELSE sentIndex' = Len(cumulativeText) /\ Sends(Delivery(RawChunks(Unsent)))
    /\ UNCHANGED <<stuck, torn>>

-----------------------------------------------------------------------------
(* The callbacks of the reply *)

\* Text that changes below the cursor
Rewrites(text) ==
    ~StartsWith(text, Slice(cumulativeText, 0, sentIndex))

SetText(text) ==
    /\ cumulativeText' = text
    /\ rewritten' = (rewritten \/ Rewrites(text))

\* update
Update(n) ==
    /\ ~finalized /\ received + n <= Len(message)
    /\ received' = received + n /\ due' = TRUE
    /\ SetText(Applied(SubSeq(message, 1, received + n)))
    /\ UNCHANGED <<message, chunker, sentIndex, sent, stuck, torn, reasoned, finalized, repairVars>>

\* markReasoningBoundary
MarkReasoningBoundary ==
    /\ ~finalized /\ reasoned < MaxReasoning
    /\ reasoned' = reasoned + 1
    /\ \/ FirstReasoningEnd(cumulativeText) /\ UNCHANGED <<cumulativeText, rewritten, due>>
       \/ \E text \in {Sandwiched(firstEnd.text, cumulativeText).text} :
            /\ SecondReasoningEnd(cumulativeText, text)
            /\ SetText(text)
            /\ due' = (due \/ text # cumulativeText)
    /\ UNCHANGED <<message, chunker, received, finalized, sentIndex, sent, stuck, torn>>

Unread == <<message, chunker, received, cumulativeText, reasoned, rewritten, repairVars>>

\* Drains that wait while another one runs find the text that the last of them
\* finds; one stands for all.
Drain ==
    /\ ~finalized /\ due
    /\ due' = FALSE /\ Stream
    /\ UNCHANGED <<Unread, finalized>>

\* A flush is queued behind the drains.
FlushNow ==
    /\ ~finalized /\ ~due
    /\ SendRest
    /\ UNCHANGED <<Unread, due, finalized>>

\* The agent is done, so all of the message has come in, and the queue is empty.
Finalize ==
    /\ ~finalized /\ ~due /\ received = Len(message)
    /\ SendRest /\ finalized' = TRUE
    /\ UNCHANGED <<Unread, due>>

TextNext ==
    \/ \E n \in 1 .. Len(message) : Update(n)
    \/ MarkReasoningBoundary \/ Drain \/ FlushNow \/ Finalize

TextSpec == TextInit /\ [][TextNext]_textVars

-----------------------------------------------------------------------------
(* Properties *)

\* What a reader sees: not the line breaks, nor what stands on the line of a fence
Readable(text) ==
    {i \in DOMAIN text : /\ text[i].c \in Classes \ ({NL} \cup Fences)
                         /\ \A f \in FenceLines(text) : i \notin f .. LineEnd(text, f)}

NothingTwice ==
    \A k, l \in DOMAIN sent : \A i \in Readable(sent[k]), j \in Readable(sent[l]) :
        sent[k][i].at = sent[l][j].at => k = l /\ i = j

NothingMissing ==
    {cumulativeText[i].at : i \in Readable(cumulativeText)}
        \subseteq UNION {{sent[k][i].at : i \in DOMAIN sent[k]} : k \in DOMAIN sent}

\* When the reply is over everything that can be read of it was sent, however its
\* partial replies, drains and flushes interleave, and nothing of it twice: the
\* cursor never jumps over text, and neither the fences that are added and
\* stripped nor the healing of tables and formulas takes any away.  Only a repair
\* of text that was already sent can cost or double a character, a cut in front of
\* a mark within a line the rest of that line, and a last chunk without a body,
\* which leaves the cursor where it is, doubles the chunks before it.
SentExactly ==
    /\ finalized /\ ~rewritten /\ ~torn => NothingMissing
    /\ ~rewritten /\ ~stuck => NothingTwice

\* Policy 011: no chunk of a text ends inside one of its tables or diagrams,
\* wherever the host's chunker would cut it, and no part of the text is dropped:
\* each chunk is the text from where the one before ends.
BlocksKept ==
    LET chunks == RawChunks(Unsent)
        end == ChunkEnds(chunks)
    IN  chunker = "host" /\ AtomicBlocks(Unsent) # {} /\ Len(chunks) > 1 =>
          /\ end[Len(chunks)] = Len(Unsent)
          /\ \A i \in DOMAIN chunks :
               /\ chunks[i] = Slice(Unsent, end[i - 1], end[i])
               /\ \A b \in AtomicBlocks(Unsent) : ~Cuts(b, end[i])
=============================================================================
