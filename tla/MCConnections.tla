---------------------------- MODULE MCConnections ----------------------------
(***************************************************************************)
(* Two runs at one address, one at another; two links.                     *)
(***************************************************************************)
EXTENDS ConnectionsProps

CONSTANTS r1, r2, r3, ip1, ip2

MCIpOf == [r \in Routers |-> IF r = r3 THEN ip2 ELSE ip1]
=============================================================================
