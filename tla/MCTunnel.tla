------------------------------ MODULE MCTunnel ------------------------------
(* Tunnel, and so FlowControl, on a stream of a few bytes; the values are in *)
(* the .cfg files.                                                           *)
EXTENDS Tunnel

=============================================================================
