---------------------------- MODULE MCGatewayManager ----------------------------
(* One entry for TLC: two client ids, two clients of which one may be orphaned, *)
(* two rings and a memory for one of them.                                      *)
EXTENDS GatewayManager

CONSTANTS i1, i2, k1, k2, c1, c2

=============================================================================
