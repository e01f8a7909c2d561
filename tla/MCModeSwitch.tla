----------------------------- MODULE MCModeSwitch -----------------------------
(* ModeSwitch for TLC: the HTTP threads are interchangeable. *)
EXTENDS ModeSwitch, TLC

SymmetricHandlers == Permutations(Handlers)
=============================================================================
