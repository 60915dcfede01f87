------------------------------ MODULE Markdown ------------------------------
(***************************************************************************)
(* The Markdown helpers of outgoing text (src/business/utils/markdown.ts). *)
(*                                                                         *)
(* A text is a sequence of characters [c, at]: c is the class of the       *)
(* character, at its position in the message the text stems from, 0 for    *)
(* one the code has added.  Classes are as coarse as the code allows: the  *)
(* marks the helpers look for (code fences, pipes, $$) are one character   *)
(* each, a rule is a run of dashes, "x" any other character, and a blank   *)
(* line is an empty one.                                                   *)
(***************************************************************************)
EXTENDS Integers, Sequences, SequencesExt, FiniteSetsExt

NL == "newline"
Fence == "fence"
DiagramFence == "diagram"
Fences == {Fence, DiagramFence}
Pipe == "pipe"
Rule == "rule"
Math == "math"
Classes == {"x", "comma", "stop", NL, Pipe, Rule, Math} \cup Fences

Added(class) == [c |-> class, at |-> 0]

\* Texts are equal if their characters are, wherever these stem from.
Chars(text) == [i \in DOMAIN text |-> text[i].c]
StartsWith(text, prefix) == IsPrefix(Chars(prefix), Chars(text))
ClassAt(text, i) == IF i \in DOMAIN text THEN text[i].c ELSE "none"
\* slice(from, to), which stops at the end of the text
Slice(text, from, to) == SubSeq(text, from + 1, Min({to, Len(text)}))
Rest(text, n) == Slice(text, n, Len(text))
Positions(text, class) == {i \in DOMAIN text : text[i].c = class}
IsBlank(text) == \A i \in DOMAIN text : text[i].c = NL

-----------------------------------------------------------------------------
(* Lines *)

\* split("\n") and join("\n")
Lines(text) ==
    LET Put(lines, char) ==
          IF char.c = NL THEN Append(lines, <<>>)
          ELSE Append(Front(lines), Append(Last(lines), char))
        lines[i \in 0 .. Len(text)] == IF i = 0 THEN << <<>> >> ELSE Put(lines[i - 1], text[i])
    IN  lines[Len(text)]

Joined(lines) ==
    LET Put(text, i) == IF i = 1 THEN lines[1] ELSE text \o <<Added(NL)>> \o lines[i]
        text[i \in 0 .. Len(lines)] == IF i = 0 THEN <<>> ELSE Put(text[i - 1], i)
    IN  text[Len(lines)]

LineStarts(text) ==
    {i \in DOMAIN text : i = 1 \/ text[i - 1].c = NL}

LineEnd(text, i) ==
    LET newlines == {j \in Positions(text, NL) : j >= i} IN
    IF newlines = {} THEN Len(text) ELSE Min(newlines)

LineAt(text, i) ==
    LET end == LineEnd(text, i) IN
    Slice(text, i - 1, IF text[end].c = NL THEN end - 1 ELSE end)

-----------------------------------------------------------------------------
(* Code fences and display math *)

FenceLines(text) == {i \in LineStarts(text) : text[i].c \in Fences}
IsOdd(set) == Cardinality(set) % 2 = 1

\* computeFenceStateAt: the line that opened the fence the text ends in, if any;
\* initial is that of the fence it begins in.
FenceAt(text, initial) ==
    LET fences == FenceLines(text)
    IN  IF fences = {} THEN initial
        ELSE IF (initial # <<>>) = IsOdd(fences) THEN <<>> ELSE LineAt(text, Max(fences))

InFence(text, i) == IsOdd({f \in FenceLines(text) : f < i})

\* hasUnclosedMathBlock
HasUnclosedMath(text) ==
    IsOdd({i \in Positions(text, Math) :
             /\ ~InFence(text, i)
             /\ \A f \in FenceLines(text) : i \notin f .. LineEnd(text, f)})

\* normalizeMathBlocks: blank lines go from inside a formula.  Unlike
\* hasUnclosedMathBlock this looks at the rest of a fence's line as well.
NormalizeMath(text) ==
    LET inMath(i) == IsOdd({j \in Positions(text, Math) : j < i /\ ~InFence(text, j)})
        Doubled(i) == text[i].c = NL /\ i > 1 /\ text[i - 1].c = NL /\ inMath(i)
        Keep(kept, i) == IF Doubled(i) THEN kept ELSE Append(kept, text[i])
        kept[i \in 0 .. Len(text)] == IF i = 0 THEN <<>> ELSE Keep(kept[i - 1], i)
    IN  kept[Len(text)]

-----------------------------------------------------------------------------
(* Pipe tables *)

HasPipe(line) == Positions(line, Pipe) # {}
IsTableLine(line) == line # <<>> /\ Head(line).c = Pipe

\* healPipeTableRegion: rows that were torn apart, in a region that has blank
\* lines and, read without its line breaks, the separator of a table
HasSeparator(text) ==
    \E i \in DOMAIN text :
        /\ i + 4 <= Len(text)
        /\ Chars(SubSeq(text, i, i + 4)) = <<Pipe, Rule, Pipe, Rule, Pipe>>

Healed(region) ==
    LET Merge(rows, line) ==
          IF line = <<>> THEN rows
          ELSE IF rows # <<>> /\ ~(Last(Last(rows)).c = Pipe /\ Head(line).c = Pipe)
            THEN Append(Front(rows), Last(rows) \o line) ELSE Append(rows, line)
        rows[i \in 0 .. Len(region)] == IF i = 0 THEN <<>> ELSE Merge(rows[i - 1], region[i])
    IN  IF Contains(region, <<>>) /\ HasSeparator(FlattenSeq(region))
          THEN rows[Len(region)] ELSE region

\* sanitizePipeTables: a region reaches from a line with a pipe to the last one
\* before a line that has something else.
SanitizeTables(text) ==
    LET lines == Lines(text)
        piped == {i \in DOMAIN lines : HasPipe(lines[i])}
        inRegion(i) == /\ \E j \in piped : j <= i /\ \A k \in j .. i : k \in piped \/ lines[k] = <<>>
                       /\ \E j \in piped : j >= i /\ \A k \in i .. j : k \in piped \/ lines[k] = <<>>
        Put(acc, i) ==
          IF ~inRegion(i) THEN [out |-> Append(acc.out, lines[i]), region |-> <<>>]
          ELSE IF i < Len(lines) /\ inRegion(i + 1)
            THEN [acc EXCEPT !.region = Append(@, lines[i])]
            ELSE [out |-> acc.out \o Healed(Append(acc.region, lines[i])), region |-> <<>>]
        acc[i \in 0 .. Len(lines)] ==
          IF i = 0 THEN [out |-> <<>>, region |-> <<>>] ELSE Put(acc[i - 1], i)
    IN  IF Len(lines) < 2 \/ Cardinality(Positions(text, Pipe)) < 3 THEN text
        ELSE Joined(acc[Len(lines)].out)

\* isTableInProgress: no blank line has closed the last table yet
TableInProgress(text) ==
    LET rows == {i \in LineStarts(text) : text[i].c = Pipe}
        end == LineEnd(text, Max(rows))
    IN  rows # {} /\ ~(ClassAt(text, end) = NL /\ ClassAt(text, end + 1) = NL)

\* isSplitSafe
IsSplitSafe(text, maxChars) ==
    /\ FenceAt(text, <<>>) # <<>> => Len(text) > maxChars
    /\ HasUnclosedMath(text) => Len(text) > maxChars
    /\ ~TableInProgress(text)

-----------------------------------------------------------------------------
(* Atomic blocks *)

\* extractAtomicBlocks: [from, to] are offsets, as a cut after n characters is n.
Diagrams(text) ==
    {[from |-> f - 1, to |-> LineEnd(text, Min({g \in FenceLines(text) : g > f}))] :
        f \in {g \in FenceLines(text) : /\ text[g].c = DiagramFence /\ ~InFence(text, g)
                                        /\ \E h \in FenceLines(text) : h > g}}

Tables(text) ==
    LET rows == {i \in LineStarts(text) : text[i].c = Pipe /\ ~InFence(text, i)}
        Below(i) == LineEnd(text, i) + 1
        IsRun(i, j) == \A k \in LineStarts(text) : k \in i .. j => k \in rows
    IN  {[from |-> p[1] - 1, to |-> LineEnd(text, p[2])] :
            p \in {q \in rows \X rows : /\ q[1] < q[2] /\ IsRun(q[1], q[2])
                                        /\ Below(q[2]) \notin rows
                                        /\ \A i \in rows : Below(i) # q[1]}}

AtomicBlocks(text) == Diagrams(text) \cup Tables(text)

Cuts(b, offset) == b.from < offset /\ offset < b.to

\* Mutant: a block that begins where the chunk does is cut where the chunker did.
CutBesideAsTold(b, offset, window) == IF b.from > window THEN b.from ELSE offset

\* A cut inside a block moves before it or, if the chunk begins with it, behind.
CutBeside(b, offset, window) == IF b.from > window THEN b.from ELSE b.to

\* Where each chunk ends in the concatenation of all
ChunkEnds(chunks) ==
    LET end[i \in 0 .. Len(chunks)] == IF i = 0 THEN 0 ELSE end[i - 1] + Len(chunks[i])
    IN  end

\* Where the cuts of a text go whose chunks end at offsets
Adjusted(text, offsets, n) ==
    LET Hit(i) == {b \in AtomicBlocks(text) : Cuts(b, offsets[i])}
        cut[i \in 0 .. n] ==
          IF i = 0 THEN 0
          ELSE IF Hit(i) = {} THEN offsets[i]
          ELSE CutBeside(CHOOSE b \in Hit(i) : TRUE, offsets[i], cut[i - 1])
    IN  cut

\* The text in pieces, without the empty ones
Pieces(text, cuts, n) ==
    LET Put(pieces, piece) == IF piece = <<>> THEN pieces ELSE Append(pieces, piece)
        pieces[i \in 0 .. n] ==
          IF i = 0 THEN <<>> ELSE Put(pieces[i - 1], Slice(text, cuts[i - 1], cuts[i]))
    IN  Put(pieces[n], Rest(text, cuts[n]))

\* chunkMarkdownTextAtomicAware.  Marks the host's chunker adds count as text, so
\* that a cut may lie behind the end.
ChunkAware(text, rawChunks) ==
    LET n == Len(rawChunks) - 1 IN
    IF n <= 0 \/ AtomicBlocks(text) = {} THEN rawChunks
    ELSE Pieces(text, Adjusted(text, ChunkEnds(rawChunks), n), n)
=============================================================================
