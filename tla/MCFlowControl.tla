--------------------------- MODULE MCFlowControl ---------------------------
(* FlowControl on a stream of a few bytes; the values are in the .cfg file. *)
EXTENDS FlowControl

=============================================================================
