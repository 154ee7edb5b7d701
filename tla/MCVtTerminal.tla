---------------------------- MODULE MCVtTerminal ----------------------------
(***************************************************************************)
(* VtTerminal on a screen of 3 x 3, with a history of two lines: what a    *)
(* program may write (whole sequences, their fragments and text), and the  *)
(* situations it may have brought about before.                            *)
(***************************************************************************)
EXTENDS VtTerminal

CSI(seq) == <<"ESC", "[">> \o seq
Dec(seq) == CSI(<<"?">> \o seq)
Fresh == <<"ESC", "c">>
Combined == <<"L2", "CC">>
Wide == <<"L3", "CC", "CC">>
Prompt == <<"ESC", "]", "1", "3", "3", ";", "A", "BEL">>

Text == {<<"x">>, <<"q">>, <<" ">>, <<"BAD">>, Combined, Wide}
Controls == {<<"BS">>, <<"HT">>, <<"LF">>, <<"CR">>, <<"SO">>, <<"SI">>}
Fragments == {<<"ESC">>, <<"ESC", "[", "3">>, <<"m">>, <<"L3", "CC">>, <<"CC">>,
              <<"ESC", "]", "0", ";", "x">>, <<"BEL">>, <<"\\">>, <<"ESC", "P", "x">>}
Escapes == {<<"ESC", "M">>, <<"ESC", "D">>, <<"ESC", "E">>, <<"ESC", "7">>, <<"ESC", "8">>,
            Fresh, <<"ESC", "=">>, <<"ESC", ">">>, <<"ESC", "H">>, <<"ESC", "(", "0">>,
            <<"ESC", ")", "0">>}
\* "9999" wraps: -2289 in twelve bits.
Moves == {CSI(<<"A">>), CSI(<<"B">>), CSI(<<"9", "9", "9", "9", "B">>), CSI(<<"C">>),
          CSI(<<"9", "9", "9", "9", "C">>), CSI(<<"D">>), CSI(<<"E">>), CSI(<<"F">>),
          CSI(<<"2", "G">>), CSI(<<"3", "d">>), CSI(<<"H">>), CSI(<<"3", ";", "3", "H">>)}
Erasures == {CSI(<<"J">>), CSI(<<"1", "J">>), CSI(<<"2", "J">>), CSI(<<"3", "J">>),
             CSI(<<"K">>), CSI(<<"1", "K">>), CSI(<<"2", "K">>), CSI(<<"X">>),
             CSI(<<"9", "9", "9", "9", "X">>)}
Shifts == {CSI(<<"L">>), CSI(<<"M">>), CSI(<<"P">>), CSI(<<"@">>), CSI(<<"2", "S">>),
           CSI(<<"T">>), CSI(<<"9", "9", "9", "9", "S">>)}
Regions == {CSI(<<"2", ";", "3", "r">>), CSI(<<"1", ";", "2", "r">>), CSI(<<"r">>)}
PlainSgr == {CSI(<<"m">>), CSI(<<"1", ";", "3", "1", "m">>), CSI(<<"4", ":", "3", "m">>),
             CSI(<<"4", ":", "0", "m">>), CSI(<<"3", "8", ";", "5", ";", "1", "m">>)}
Modes == {Dec(<<"6", "h">>), Dec(<<"6", "l">>), Dec(<<"7", "l">>), CSI(<<"4", "h">>),
          Dec(<<"2", "5", "l">>), Dec(<<"1", "0", "0", "0", ";", "1", "0", "0", "6", "h">>)}
Alternate == {Dec(<<"1", "0", "4", "9", "h">>), Dec(<<"1", "0", "4", "9", "l">>)}
Queries == {CSI(<<"6", "n">>), CSI(<<">", "c">>), CSI(<<">", "4", "m">>), CSI(<<"?", "1", "m">>),
            CSI(<<"2", " ", "q">>), CSI(<<"2", "(", "C">>), CSI(<<"s">>), CSI(<<"u">>), CSI(<<"g">>), CSI(<<"3", "g">>)}
Commands == {Prompt, <<"ESC", "]", "1", "3", "3", ";", "D", ";", "1", "BEL">>,
             <<"ESC", "]", "5", "2", ";", "c", ";", "q", "=", "BEL">>,
             <<"ESC", "]", "7", ";", "f", "h", "/", "x", "ESC", "\\">>}

MCChunks == Text \cup Controls \cup Fragments \cup Escapes \cup Moves \cup Erasures \cup Shifts
            \cup Regions \cup PlainSgr \cup Modes \cup Alternate \cup Queries \cup Commands

Line == <<"x", "x", "LF", "CR">>
History3 == Line \o <<"x">> \o Combined \o <<"LF", "CR">> \o Prompt \o Line \o Line \o Line
MCPrologues == {
    <<>>,
    <<<<"x", "x", "x">>>>,                                      \* a wrap is pending
    <<History3>>,                                               \* the ring has turned
    <<<<"LF", "LF">> \o Prompt \o <<"x">> \o Combined \o <<"LF", "CR">>>>, \* a mark in the history
    <<<<"x", "x">> \o Wide \o Combined>>,                       \* a wide glyph at the margin
    <<CSI(<<"2", ";", "3", "r">>) \o Dec(<<"6", "h">>) \o <<"LF", "LF">>>>, \* origin mode in a region
    <<Line \o Dec(<<"1", "0", "4", "9", "h">>) \o <<"LF", "LF", "x">>>>,   \* the alternate screen
    <<CSI(<<"3", ";", "3", "H">>) \o CSI(<<"4", "m">>) \o <<"ESC", "7", "ESC", "[", "H">>>>,
    <<CSI(<<"4", "h">>) \o <<"x">> \o Wide \o CSI(<<"2", "G">>)>>,         \* insert mode
    <<Line \o <<"x">> \o Combined, Dec(<<"1", "0", "4", "9", "h">>) \o <<"x">> \o Combined>>,
    <<Prompt, Dec(<<"1", "0", "4", "9", "h">>) \o CSI(<<"2", ";", "3", "r">>) \o <<"ESC", "7">>>>,
    <<History3 \o CSI(<<"1", ";", "2", "r">>) \o Wide>>,       \* a region above the last row
    <<History3 \o CSI(<<"H">>) \o <<"x">> \o Wide \o CSI(<<"2", "G">>)>>, \* inside a wide glyph
    <<Dec(<<"7", "l">>) \o <<"x", "x">> \o Wide>>,             \* a wide glyph cut by the margin
    <<<<"ESC", "(", "0">>, <<"ESC", "]", "0", ";">>>>,          \* in a string
    <<<<"ESC", "[", ">", "4", ";">>>>}                          \* in a sequence
MCSizes == {<<4, 2>>, <<2, 3>>, <<0, 0>>}
=============================================================================
