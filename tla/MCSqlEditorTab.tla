--------------------------- MODULE MCSqlEditorTab ---------------------------
(* Values of the constants of SqlEditorTab for TLC. *)
EXTENDS SqlEditorTab

\* One tab, closed and opened again.
OneTab == [e \in Editors |-> CHOOSE b \in Tabs : TRUE]
=============================================================================
