------------------------------- MODULE MCConfig -------------------------------
(* Two devices and two layouts: an old, a new and a default value of a setting. The *)
(* second run has two states of the stack under the local variable of save_internal. *)
EXTENDS Config
===============================================================================
