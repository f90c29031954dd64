--------------------------- MODULE MCEditorSession ---------------------------
(* EditorSession for TLC. *)
EXTENDS EditorSession

CONSTANTS f1, f2

\* One version, of which one field is as the diagram was opened.
MCVersion == {[f \in Field |-> IF f = f2 THEN 0 ELSE Historic]}
=============================================================================
