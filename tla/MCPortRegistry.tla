--------------------------- MODULE MCPortRegistry ---------------------------
(* Two cores, three tags; one specific address; ports 80 and 65616, which  *)
(* name the same 16-bit port, and 443.                                     *)
EXTENDS PortRegistry, TLC

MCPorts == {80, 65616, 443}
=============================================================================
