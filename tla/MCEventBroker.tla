--------------------------- MODULE MCEventBroker ---------------------------
(* Two contexts; two relays of one context compete for the same events. *)
EXTENDS EventBroker

MCRelay == {"health", "damage", "sound"}
MCContextOf == [health |-> "System", damage |-> "System", sound |-> "Sound"]
MCTypeOf == [health |-> "PlayerDamage", damage |-> "PlayerDamage",
             sound |-> "PlayerDeath"]
=============================================================================
