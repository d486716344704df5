--------------------------- MODULE MCControlPlane ---------------------------
(* Model values and bounds for checking ControlPlane with TLC.  One clock  *)
(* tick is one renewal interval, and half of the control-plane ttl.     *)
EXTENDS ControlPlane

CONSTANTS cp, mining, chatTask

TtlOfDef == [r \in Resources |-> IF r = cp THEN 2 ELSE 1]

HoldersDef == (1..MaxBoots) \X (1..MaxTenure)
=============================================================================
