-------------------------- MODULE MCGatewaySession --------------------------
(* Instances of GatewaySession for TLC: the scan requests that are sent. *)
EXTENDS GatewaySession

CONSTANTS s1, s2, m1, m2, b1, b2

(* A plain scan and every batch, with or without a vendor in the message. *)
AllScans == [vendor : Vendors \cup {Unnamed}, items : SUBSET (Vendors \cup {Unnamed})]
=============================================================================
