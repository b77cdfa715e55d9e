---------------------------- MODULE MCPacketRead ----------------------------
(* PacketRead with short lines and a few packets; see MCPacketRead_loop.cfg. *)
EXTENDS PacketRead

MCLines == {<<"id", "CR", "LF">>, <<"id", "LF">>,
            <<"text", "CR", "LF", "id", "CR", "LF">>,
            <<"LF", "id", "CR", "LF">>}

MCPackets == {<<"plain", "skipped", "plain">>, <<"plain", "plain", "skipped">>,
              <<"plain", "plain", "DISCONNECT">>}

=============================================================================
