--------------------------- MODULE MCStreamedText ---------------------------
EXTENDS StreamedText

\* A code block at a place where text is cut, a diagram, a table, a table whose
\* separator was torn, a formula with a blank line, prose with every kind of line
\* break, a table row that was torn, and a line cut in front of a mark within it.
MCMessages ==
    {<<"x", "x", "x", NL, Fence, NL, "x", NL, Fence>>,
     <<"x", NL, DiagramFence, NL, "x", "x", NL, Fence, NL, "x">>,
     <<"x", NL, Pipe, "x", NL, Pipe, "x", NL, NL, "x">>,
     <<Pipe, Rule, NL, NL, Pipe, Rule, Pipe, NL, NL, "x">>,
     <<"x", Math, "x", NL, NL, "x", Math, NL, "x">>,
     <<"x", NL, "comma", NL, "x", "stop", NL, NL, Rule>>,
     <<Pipe, "x", NL, Math, Pipe, NL, NL, "x">>,
     <<"x", "x", "x", "x", Fence, "x", NL, "x">>}
=============================================================================
