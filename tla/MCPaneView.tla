---------------------------- MODULE MCPaneView ----------------------------
(* PaneView with two panes, a ring of three lines and a palette of two commands. *)
EXTENDS PaneView

MCChunks == {<<1, k>> : k \in {"line", "lines", "clear", "query", "alt", "ButtonEvent"}}
            \cup {<<2, "line">>}
MCCommands == <<"Find", "Copy">>
Plain == [kind |-> "letter", ctrl |-> FALSE, alt |-> FALSE, super |-> FALSE,
          text |-> TRUE, bound |-> FALSE]
MCKeys == {Plain, [Plain EXCEPT !.kind = "modifier", !.text = FALSE]}
=============================================================================
