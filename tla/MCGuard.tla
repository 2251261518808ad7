------------------------------ MODULE MCGuard -------------------------------
(* Instances of Guard for TLC.                                             *)
EXTENDS Guard

CONSTANTS k1, k2, k3, k4
MCKeys == {k1, k2, k3, k4}
MCTable == {k1, k2, k4}
MCLookups == {<<k1, k3, k2, k4>>}
=============================================================================
