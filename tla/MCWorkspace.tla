---------------------------- MODULE MCWorkspace ----------------------------
(***************************************************************************)
(* Small estates for TLC.                                                  *)
(***************************************************************************)
EXTENDS Workspace

CONSTANTS v, w


\* The profile leaves v as it is and makes w of w's unmapped form.
MCProfile == [x \in Version |-> IF x = v THEN w ELSE x]
=============================================================================
