----------------------------- MODULE MCWinTabs -----------------------------
(* WinTabs with windows of a few pixels and cells of one or two. *)
EXTENDS WinTabs

MCNewSize == <<12, 9>>
MCSizes == {MCNewSize, <<7, 4>>}
=============================================================================
