------------------------------- MODULE Tunnel -------------------------------
(***************************************************************************)
(* FlowControl with the other user of a client's channel, the RemoteTunnel *)
(* of client/tunnel.rs, which copies between the channel and a TCP stream. *)
(* Its three tasks share the channel: receive_msg_loop hands what the      *)
(* session reports to the other two, send_to_ssh_loop copies the TCP       *)
(* stream, with a window of its own, and send_to_tcp_loop writes what the  *)
(* server sends.                                                           *)
(*                                                                         *)
(* The window of send_to_ssh_loop is app.window_size, its state app.phase. *)
(***************************************************************************)
EXTENDS FlowControl

CONSTANTS
    Uses,      \* who uses the channel: "Channel" (FlowControl), "RemoteTunnel"
    Margin,    \* what a read leaves free of a packet: 64
    Answers,   \* bound: messages with data that the server sends
    Endings    \* what may end the copying: "eof" (of the server), "error" (of
               \* a write to the TCP stream), "reset" (an error of a read)

ASSUME TunnelAssumption ==
    /\ Uses \subseteq {"Channel", "RemoteTunnel"}
    /\ Margin \in Nat /\ Margin < MaxPacket
    /\ Answers \in Nat /\ Endings \subseteq {"eof", "error", "reset"}

VARIABLES
    tunnel,   \* use; the loops receive, ssh and tcp; what the server sends
    toSsh,    \* receiver_ssh: window sizes and the server's EOF
    toTcp,    \* receiver_tcp: messages with data, and the EOF
    queued,   \* history: data has had to wait for the session's window
    cut       \* history: of a message a part has left and the rest had to wait

tunnelVars == <<tunnel, toSsh, toTcp>>

allVars == <<vars, tunnelVars, queued, cut>>

Tunnelling == tunnel.use = "RemoteTunnel"

NewSize(n) == [eof |-> FALSE, size |-> n]

ServerEof == [eof |-> TRUE, size |-> 0]

(* RemoteTunnel::run spawns the loops. *)
Run ==
    /\ Tunnelling /\ app.phase = "idle"
    /\ app' = [app EXCEPT !.phase = "sending", !.end = Total]
    /\ UNCHANGED <<mailbox, adjusted, chan, wire, adjusts, peer, tunnelVars, queued, cut>>

-----------------------------------------------------------------------------
(* send_to_ssh_loop.  A read of no bytes is the end of the TCP stream, even *)
(* if no bytes were asked for.                                              *)
Sendable_BothLess(window) == Min({window, MaxPacket}) - Margin   \* mutant

Sendable(window) == Min({window, MaxPacket - Margin})

CopyToSsh ==
    /\ Tunnelling /\ tunnel.ssh = "up"
    /\ app.phase = "sending"
    /\ chan.alive /\ Len(mailbox) < Capacity
    /\ LET most == Min({Sendable(app.window_size), Total - app.taken})
       IN  \/ /\ most = 0
              /\ mailbox' = Append(mailbox, Eof)
              /\ app' = [app EXCEPT !.phase = "done"]
              /\ tunnel' = [tunnel EXCEPT !.ssh = "over"]
           \/ \E n \in (IF ShortReads THEN 1..most ELSE {most} \ {0}) :
              /\ mailbox' = Append(mailbox, Data(app.taken, n))
              /\ app' = [app EXCEPT
                     !.taken = @ + n,
                     !.window_size = Charge(@, n),
                     !.phase = IF Charge(app.window_size, n) > 0 THEN "sending"
                               ELSE "waiting"]
              /\ UNCHANGED tunnel
    /\ UNCHANGED <<adjusted, chan, wire, adjusts, peer, toSsh, toTcp, queued, cut>>

(* Error::SendError, when the session has ended; or the error of a read.    *)
(* Neither sends an EOF.                                                    *)
CopyFails ==
    /\ Tunnelling /\ tunnel.ssh = "up"
    /\ app.phase = "sending"
    /\ app' = [app EXCEPT !.phase = "failed"]
    /\ \/ ~chan.alive /\ tunnel' = [tunnel EXCEPT !.ssh = "over"]
       \/ "reset" \in Endings /\ tunnel' = [tunnel EXCEPT !.ssh = "error"]
    /\ UNCHANGED <<mailbox, adjusted, chan, wire, adjusts, peer, toSsh, toTcp, queued, cut>>

(* The loop that waits for the window: a size, whatever it is, ends it; the *)
(* server's EOF is a panic; with receive_msg_loop gone it goes on without.  *)
CopyResumes ==
    /\ Tunnelling /\ tunnel.ssh = "up"
    /\ app.phase = "waiting"
    /\ \/ /\ toSsh # <<>> /\ ~Head(toSsh).eof
          /\ toSsh' = Tail(toSsh)
          /\ app' = [app EXCEPT !.phase = "sending", !.window_size = Head(toSsh).size]
          /\ UNCHANGED tunnel
       \/ /\ toSsh # <<>> /\ Head(toSsh).eof
          /\ toSsh' = Tail(toSsh)
          /\ tunnel' = [tunnel EXCEPT !.ssh = "panic"]
          /\ UNCHANGED app
       \/ /\ toSsh = <<>> /\ tunnel.receive = "over"
          /\ app' = [app EXCEPT !.phase = "sending"]
          /\ UNCHANGED <<tunnel, toSsh>>
    /\ UNCHANGED <<mailbox, adjusted, chan, wire, adjusts, peer, toTcp, queued, cut>>

-----------------------------------------------------------------------------
(* receive_msg_loop ends when a loop it has a message for has ended. *)
Receiving == Tunnelling /\ app.phase # "idle" /\ tunnel.receive = "up"

ToSsh(t, msg) ==
    IF t.ssh = "up"
    THEN toSsh' = Append(toSsh, msg) /\ tunnel' = t
    ELSE tunnel' = [t EXCEPT !.receive = "over"] /\ UNCHANGED toSsh

ReceiveAdjusted ==
    /\ Receiving
    /\ adjusted # <<>>
    /\ adjusted' = Tail(adjusted)
    /\ ToSsh(tunnel, NewSize(Head(adjusted)))
    /\ UNCHANGED <<app, mailbox, chan, wire, adjusts, peer, toTcp, queued, cut>>

ReceiveData ==
    /\ Receiving
    /\ tunnel.answers > 0 /\ ~tunnel.eof
    /\ LET t == [tunnel EXCEPT !.answers = @ - 1]
       IN  IF t.tcp = "up"
           THEN toTcp' = Append(toTcp, "Data") /\ tunnel' = t
           ELSE tunnel' = [t EXCEPT !.receive = "over"] /\ UNCHANGED toTcp
    /\ UNCHANGED <<app, mailbox, adjusted, chan, wire, adjusts, peer, toSsh, queued, cut>>

(* The EOF goes to both. *)
ReceiveEof ==
    /\ Receiving
    /\ "eof" \in Endings /\ ~tunnel.eof
    /\ LET t == [tunnel EXCEPT !.eof = TRUE]
       IN  \/ /\ t.tcp = "up"
              /\ toTcp' = Append(toTcp, "Eof")
              /\ ToSsh(t, ServerEof)
           \/ /\ t.tcp # "up"
              /\ tunnel' = [t EXCEPT !.receive = "over"]
              /\ UNCHANGED <<toSsh, toTcp>>
    /\ UNCHANGED <<app, mailbox, adjusted, chan, wire, adjusts, peer, queued, cut>>

ReceiveGone ==
    /\ Receiving
    /\ adjusted = <<>> /\ Gone
    /\ tunnel' = [tunnel EXCEPT !.receive = "over"]
    /\ UNCHANGED <<vars, toSsh, toTcp, queued, cut>>

(* send_to_tcp_loop. *)
CopyToTcp ==
    /\ Tunnelling /\ tunnel.tcp = "up"
    /\ \/ /\ toTcp # <<>>
          /\ toTcp' = Tail(toTcp)
          /\ \/ Head(toTcp) = "Data" /\ UNCHANGED tunnel
             \/ Head(toTcp) = "Eof" /\ tunnel' = [tunnel EXCEPT !.tcp = "over"]
             \/ /\ Head(toTcp) = "Data" /\ "error" \in Endings
                /\ tunnel' = [tunnel EXCEPT !.tcp = "error"]
       \/ /\ toTcp = <<>> /\ tunnel.receive = "over"
          /\ tunnel' = [tunnel EXCEPT !.tcp = "over"]
          /\ UNCHANGED toTcp
    /\ UNCHANGED <<vars, toSsh, queued, cut>>

-----------------------------------------------------------------------------
TunnelInit ==
    /\ Init
    /\ \E use \in Uses :
          /\ use = "RemoteTunnel" => app.sender = "client"
          /\ tunnel = [use |-> use, receive |-> "up", ssh |-> "up", tcp |-> "up",
                       answers |-> Answers, eof |-> FALSE]
    /\ toSsh = <<>> /\ toTcp = <<>>
    /\ queued = FALSE /\ cut = FALSE

TunnelSteps ==
    \/ Run \/ CopyToSsh \/ CopyFails \/ CopyResumes
    \/ ReceiveAdjusted \/ ReceiveData \/ ReceiveEof \/ ReceiveGone
    \/ CopyToTcp

ChannelSteps == ~Tunnelling /\ AppSteps /\ UNCHANGED <<tunnelVars, queued, cut>>

Sessions ==
    /\ SessionSteps
    /\ queued' = (queued \/ chan'.pending_data # <<>>)
    /\ cut' = (cut \/ \E i \in DOMAIN chan'.pending_data : chan'.pending_data[i].from > 0)
    /\ UNCHANGED tunnelVars

HandlerCloses == ServerCloses /\ UNCHANGED <<tunnelVars, queued, cut>>

TunnelNext == TunnelSteps \/ ChannelSteps \/ Sessions \/ HandlerCloses

TunnelSpec == TunnelInit /\ [][TunnelNext]_allVars

(* All loops keep running, and the application does not abandon a call. *)
TunnelFairSpec ==
    /\ TunnelSpec
    /\ WF_allVars(Run) /\ WF_allVars(CopyToSsh \/ CopyFails \/ CopyResumes)
    /\ WF_allVars(ReceiveAdjusted \/ ReceiveGone) /\ WF_allVars(CopyToTcp)
    /\ WF_allVars(ChannelSteps) /\ WF_allVars(Sessions)

-----------------------------------------------------------------------------
(* The handler gets the stream in order, each byte once, at least as long   *)
(* as no message is cut: what is put back with an offset may leave again    *)
(* (flush_pending).  A message that has had to wait, even as a whole, may   *)
(* arrive as plain data although it was sent as extended data.              *)
Sequenced ==
    /\ Len(peer.delivered) <= Total
    /\ \A i \in DOMAIN peer.delivered : peer.delivered[i] \in {<<Ext, i>>, <<FALSE, i>>}

InOrderUntilCut ==
    /\ ~cut => Sequenced
    /\ ~queued => InOrder

(* What a tunnel does not copy has a reason.  Its EOF comes before the end  *)
(* of the TCP stream only if it has outrun the session's window, whose next *)
(* report may then be 0, or if a write failed or the channel is gone.  The  *)
(* server's data is given up before the server's EOF only if the other      *)
(* direction has ended, be it by an error of its read, which ends both      *)
(* directions of a channel that is open.  And that direction ends without   *)
(* an EOF only over such an error, the end of the session, or the server's  *)
(* EOF (send_to_ssh_loop, receive_msg_loop).                                *)
CutsExplained ==
    Tunnelling =>
        /\ app.phase = "done" /\ app.taken < Total =>
              queued \/ tunnel.tcp = "error" \/ Gone
        /\ tunnel.tcp = "over" /\ ~tunnel.eof =>
              app.phase = "done" \/ tunnel.ssh = "error" \/ Gone
        /\ tunnel.ssh = "panic" => tunnel.eof
        /\ app.phase = "failed" => tunnel.ssh = "error" \/ Gone

=============================================================================
