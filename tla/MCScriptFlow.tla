----------------------------- MODULE MCScriptFlow -----------------------------
(* An instance of ScriptFlow for TLC. *)
EXTENDS ScriptFlow

AnyLine == AllKinds
=============================================================================
