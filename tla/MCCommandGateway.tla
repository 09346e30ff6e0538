--------------------------- MODULE MCCommandGateway ---------------------------
(* An operator who may start, and one who may only pause; the policy file   *)
(* may be missing, which permits nothing.                                  *)
EXTENDS CommandGateway, TLC

CONSTANTS demo, anonymous

Demo == (demo :> {"start", "pause"}) @@ (anonymous :> {"pause"})
Missing == (demo :> {}) @@ (anonymous :> {})

PolicyFiles == {Demo, Missing}
=============================================================================
