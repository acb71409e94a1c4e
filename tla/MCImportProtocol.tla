-------------------------- MODULE MCImportProtocol --------------------------
(* One import with two possible poll continuations.                          *)
EXTENDS ImportProtocol
=============================================================================
