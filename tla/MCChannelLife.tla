--------------------------- MODULE MCChannelLife ---------------------------
(* ChannelLife with a few channels; the values are in the .cfg files. *)
EXTENDS ChannelLife

(* lib.rs, WrongChannel: "Message received/sent on unopened channel."  The  *)
(* client ends its session with that error only over a number it has never  *)
(* given to a channel (client_read_authenticated, CHANNEL_WINDOW_ADJUST).   *)
WrongChannelUnopened ==
    [][client.fate = "running" /\ client'.fate = "WrongChannel"
         => Head(down).num \notin 2..client.last_channel_id]_vars

=============================================================================
