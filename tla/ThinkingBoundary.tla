-------------------------- MODULE ThinkingBoundary --------------------------
(***************************************************************************)
(* The repair of line breaks that reasoning leaves in the reply            *)
(* (src/business/outbound/repair/thinking-boundary.ts).  It keeps the text *)
(* at which each reasoning block ended and, from the second of two ends in *)
(* a row, one replacement, and applies them to every later partial reply.  *)
(***************************************************************************)
EXTENDS Markdown

VARIABLES
    prefixes,       \* reasoningBoundaryPrefixes
    firstEnd,       \* textAtFirstReasoningEnd, if one of two ends has come
    sandwich        \* sandwichRepair.brokenFragment; the repaired one is Mended(sandwich)

repairVars == <<prefixes, firstEnd, sandwich>>

NoEnd == [come |-> FALSE, text |-> <<>>]

RepairInit == prefixes = <<>> /\ firstEnd = NoEnd /\ sandwich = <<>>

FirstIsBreak(text) == text # <<>> /\ Head(text).c = NL

\* shouldPreserveJoinNewline.  Of the marks that begin a line only these are
\* told apart here; headings, lists and quotes are kept like the first two.
Preserves(after) ==
    after # <<>> /\ (Head(after).c \in {Pipe} \cup Fences \/ Chars(Head(Lines(after))) = <<Rule>>)

\* repairThinkingBoundaryJoin
Joins(incoming, prefix) ==
    LET suffix == Rest(incoming, Len(prefix))
        last == Last(prefix).c
        double == ClassAt(suffix, 2) = NL
        kept == IF double THEN last \in {"comma", "stop"}
                ELSE last = "comma" \/ Preserves(Tail(suffix))
        text == {i \in DOMAIN suffix : suffix[i].c # NL}
    IN  IF ~StartsWith(incoming, prefix) \/ last = NL \/ ~FirstIsBreak(suffix) \/ kept
          THEN incoming
          ELSE SubSeq(incoming, 1, Len(prefix))
                 \o (IF text = {} THEN <<>> ELSE Rest(suffix, Min(text) - 1))

-----------------------------------------------------------------------------
(* repairSandwichText *)

SingleBreaks(text) ==
    {i \in Positions(text, NL) : i - 1 \notin Positions(text, NL) /\ i + 1 \notin Positions(text, NL)}

IsRow(line) == line # <<>> /\ Head(line).c = Pipe /\ Last(line).c = Pipe

LooksLikeTable(text) ==
    /\ Positions(text, Pipe) # {}
    /\ Positions(text, Rule) # {}
         \/ Len(SelectSeq(Lines(text), IsTableLine)) >= 2

\* repairBrokenTableRows
RowsMended(text) ==
    LET lines == Lines(text)
        Mend(rows, line) ==
          IF /\ rows # <<>> /\ IsTableLine(Last(rows))
             /\ ~IsRow(Last(rows)) \/ (line # <<>> /\ ~IsTableLine(line) /\ Last(line).c = Pipe)
            THEN Append(Front(rows), Last(rows) \o line) ELSE Append(rows, line)
        rows[i \in 0 .. Len(lines)] == IF i = 0 THEN <<>> ELSE Mend(rows[i - 1], lines[i])
    IN  Joined(rows[Len(lines)])

Mended(delta) ==
    LET breaks == SingleBreaks(delta)
        i == Min(breaks)
        before == Last(Lines(SubSeq(delta, 1, i - 1)))
        after == Rest(delta, i)
    IN  CASE breaks = {} -> delta
          [] Cardinality(breaks) > 1 -> IF LooksLikeTable(delta) THEN RowsMended(delta) ELSE delta
          [] OTHER -> IF (IsRow(before) /\ IsRow(Head(Lines(after)))) \/ Preserves(after)
                        THEN delta ELSE RemoveAt(delta, i)

\* The text after the repair, and what was broken, if anything
Sandwiched(snapshot, text) ==
    LET prefix == IF StartsWith(text, snapshot) THEN Slice(text, 0, Len(snapshot)) ELSE <<>>
        delta == Rest(text, Len(prefix))
    IN  IF Chars(Mended(delta)) = Chars(delta) THEN [text |-> text, broken |-> <<>>]
        ELSE [text |-> prefix \o Mended(delta), broken |-> delta]

\* String.replace takes the repaired fragment for a pattern, in which two dollar
\* signs stand for one: no longer the mark of display math.
AsReplacement(text) ==
    [i \in DOMAIN text |-> IF text[i].c = Math THEN [text[i] EXCEPT !.c = "x"] ELSE text[i]]

Replaced(text, broken) ==
    LET places == {i \in 0 .. Len(text) : StartsWith(Rest(text, i), broken)}
        from == Min(places)
        to == from + Len(broken)
    IN  IF broken = <<>> \/ places = {} THEN text
        ELSE Slice(text, 0, from) \o AsReplacement(Mended(Slice(text, from, to))) \o Rest(text, to)

\* applyPartialReply
Applied(incoming) ==
    LET text[i \in 0 .. Len(prefixes)] ==
          IF i = 0 THEN incoming ELSE Joins(text[i - 1], prefixes[i])
    IN  Replaced(text[Len(prefixes)], sandwich)

-----------------------------------------------------------------------------
\* markReasoningEnd, the first of two: the text as it is now
FirstReasoningEnd(text) ==
    /\ ~firstEnd.come
    /\ firstEnd' = [come |-> TRUE, text |-> text]
    /\ prefixes' = IF text = <<>> THEN prefixes ELSE Append(prefixes, text)
    /\ UNCHANGED sandwich

\* The second: what came in between may be mended.
SecondReasoningEnd(text, mended) ==
    /\ firstEnd.come
    /\ LET result == Sandwiched(firstEnd.text, text) IN
       /\ mended = result.text
       /\ sandwich' = IF result.broken = <<>> THEN sandwich ELSE result.broken
       /\ prefixes' = IF mended = <<>> \/ Last(mended).c = NL THEN prefixes
                      ELSE Append(prefixes, mended)
    /\ firstEnd' = NoEnd
=============================================================================
