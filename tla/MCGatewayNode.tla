---------------------------- MODULE MCGatewayNode ----------------------------
(* Instances of GatewayNode for TLC.                                        *)
EXTENDS GatewayNode, TLC
=============================================================================
