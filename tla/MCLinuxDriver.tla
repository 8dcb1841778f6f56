--------------------------- MODULE MCLinuxDriver ---------------------------
(* Constants of LinuxDriver for TLC: packets of K operand beats, C output  *)
(* beats.                                                                  *)
EXTENDS LinuxDriver, TLC

CONSTANTS
  K,        \* beats of an operand packet
  OutLens   \* S2MM lengths the callers give

RunConfigs == {"k" :> K @@ "x" :> K @@ "a" :> C @@ "y" :> n : n \in OutLens}
=============================================================================
