------------------------------ MODULE MCRekey ------------------------------
(***************************************************************************)
(* Rekey on small budgets (the values are in the .cfg files), with what a  *)
(* comment in the source says of a re-exchange, stated as a property.      *)
(***************************************************************************)
EXTENDS Rekey

(* client/encrypted.rs: "Either this packet is a KEXINIT, in which case we  *)
(* start a key re-exchange."  A client never gives up because its server    *)
(* asked for one.                                                           *)
RekeyRequestAccepted == session["client"].status # "Kex"

=============================================================================
