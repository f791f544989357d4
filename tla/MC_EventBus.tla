----------------------------- MODULE MC_EventBus ----------------------------
(* Small instances of EventBus for TLC. *)
EXTENDS EventBus
=============================================================================
