------------------------- MODULE MCProvisioningIntent -------------------------
(* Small instances of ProvisioningIntent for TLC.                          *)
EXTENDS ProvisioningIntent, TLC
=============================================================================
