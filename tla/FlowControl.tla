---------------------------- MODULE FlowControl ----------------------------
(***************************************************************************)
(* One direction of one open channel, from the application's data() to the *)
(* peer's data handler: the window a client's Channel keeps, the bounded   *)
(* queue to the event loop, the window and the pending_data of the sending *)
(* session, the data packets and the EOF, the receiver's window and the    *)
(* CHANNEL_WINDOW_ADJUSTs that come back.  session.rs holds the code of    *)
(* both session ends; a server's application differs in that its Handle    *)
(* queues a buffer of any size and hears nothing of the window.            *)
(* The server may close the channel of a client that is still sending.     *)
(*                                                                         *)
(* The application's stream is the bytes 1, 2, ..., Total.  A byte         *)
(* travels as <<ext, b>>: ext says whether it went out as extended data.   *)
(***************************************************************************)
EXTENDS Naturals, Sequences, SequencesExt, FiniteSetsExt

CONSTANTS
    Total,         \* bytes the application sends in all
    Ends,          \* positions of the stream at which a call of data() ends
    Senders,       \* "client" (Channel::data) and "server" (Handle::data)
    Ext,           \* does it call extended_data() instead of data()?
    ShortReads,    \* may the source deliver fewer bytes than asked for?
    Waits,         \* does it call wait() between the calls?
    WindowSize,    \* config.window_size of the receiver
    Targets,       \* what its handler's adjust_window may return
    MaxPacket,     \* recipient_maximum_packet_size
    Capacity,      \* capacity of the queue to the event loop
    Closes         \* may the server close the channel?

ASSUME FlowAssumption ==
    /\ Total \in Nat /\ Ends \subseteq 1..Total /\ Total \in Ends
    /\ Senders \subseteq {"client", "server"}
    /\ Ext \in BOOLEAN /\ ShortReads \in BOOLEAN /\ Waits \in BOOLEAN
    /\ WindowSize \in Nat /\ Targets \subseteq Nat
    /\ MaxPacket \in Nat \ {0} /\ Capacity \in Nat \ {0}
    /\ Closes \in BOOLEAN

VARIABLES
    app,        \* the application's Channel: phase, window_size, taken
    mailbox,    \* data and Eof messages on their way to the event loop
    adjusted,   \* WindowAdjusted messages on their way to the application
    chan,       \* the sending session's Channel record, whether it is in the
                \* table, and its task's fate
    wire,       \* CHANNEL_(EXTENDED_)DATA packets in flight, <<>> for the EOF
    adjusts,    \* CHANNEL_WINDOW_ADJUSTs and the CHANNEL_CLOSE in flight
    peer        \* the receiving session: its window, its target, its bytes

vars == <<app, mailbox, adjusted, chan, wire, adjusts, peer>>

-----------------------------------------------------------------------------
(* Channel::send_data, in the application's task. *)

NextEnd == Min({e \in Ends : e > app.taken} \cup {Total})

Data(from, n) == [eof |-> FALSE, bytes |-> [i \in 1..n |-> from + i]]

Eof == [eof |-> TRUE, bytes |-> <<>>]

Adjust(n) == [close |-> FALSE, amount |-> n]

Close == [close |-> TRUE, amount |-> 0]

(* No sender is left for what the application waits for. *)
Gone == ~chan.open \/ ~chan.alive

Charge_Forgotten(window, n) == window   \* mutant

Charge(window, n) == window - n

(* One round of the outer loop: read at most `sendable' bytes, charge the   *)
(* window, queue them.  An empty read with room to send ends the call.      *)
AppSend ==
    /\ app.phase = "sending"
    /\ chan.alive /\ Len(mailbox) < Capacity
    /\ LET sendable == Min({app.window_size, MaxPacket})
           most     == Min({sendable, app.end - app.taken})
       IN  \E n \in (IF ShortReads THEN Min({1, most})..most ELSE {most}) :
             /\ mailbox' = Append(mailbox, Data(app.taken, n))
             /\ app' = [app EXCEPT
                    !.taken = @ + n,
                    !.window_size = Charge(@, n),
                    !.phase = IF sendable > 0 /\ n = 0 THEN "idle"
                              ELSE IF Charge(app.window_size, n) > 0 THEN "sending"
                              ELSE "waiting"]
    /\ UNCHANGED <<adjusted, chan, wire, adjusts, peer>>

(* The inner loop: the window is set to the size that was reported.  On a   *)
(* channel that is gone recv() yields None, and the outer loop goes on.     *)
AppResume ==
    /\ app.phase = "waiting"
    /\ \/ /\ adjusted # <<>>
          /\ adjusted' = Tail(adjusted)
          /\ app' = [app EXCEPT !.phase = "sending", !.window_size = Head(adjusted)]
       \/ /\ adjusted = <<>> /\ Gone
          /\ app' = [app EXCEPT !.phase = "sending"]
          /\ UNCHANGED adjusted
    /\ UNCHANGED <<mailbox, chan, wire, adjusts, peer>>

(* Error::SendError: the session has ended. *)
AppFails ==
    /\ ~chan.alive
    /\ app.phase \in {"sending", "idle"}
    /\ app' = [app EXCEPT !.phase = "failed"]
    /\ UNCHANGED <<mailbox, adjusted, chan, wire, adjusts, peer>>

AppCall ==
    /\ app.sender = "client"
    /\ app.phase = "idle" /\ chan.alive
    /\ app.taken < Total
    /\ app' = [app EXCEPT !.phase = "sending", !.end = NextEnd]
    /\ UNCHANGED <<mailbox, adjusted, chan, wire, adjusts, peer>>

(* Channel::wait between two calls: here the reported size is added. *)
AppWait ==
    /\ Waits
    /\ app.phase = "idle"
    /\ adjusted # <<>>
    /\ adjusted' = Tail(adjusted)
    /\ app' = [app EXCEPT !.window_size = @ + Head(adjusted)]
    /\ UNCHANGED <<mailbox, chan, wire, adjusts, peer>>

(* Handle::data of a server. *)
HandleData ==
    /\ app.sender = "server"
    /\ app.phase = "idle"
    /\ app.taken < Total
    /\ chan.alive /\ Len(mailbox) < Capacity
    /\ mailbox' = Append(mailbox, Data(app.taken, NextEnd - app.taken))
    /\ app' = [app EXCEPT !.taken = NextEnd]
    /\ UNCHANGED <<adjusted, chan, wire, adjusts, peer>>

AppEof ==
    /\ app.phase = "idle"
    /\ app.taken = Total
    /\ chan.alive /\ Len(mailbox) < Capacity
    /\ mailbox' = Append(mailbox, Eof)
    /\ app' = [app EXCEPT !.phase = "done"]
    /\ UNCHANGED <<adjusted, chan, wire, adjusts, peer>>

-----------------------------------------------------------------------------
(* Encrypted, in the event loop of the sender. *)

(* Cut bytes into packets of at most MaxPacket. *)
Packets(bytes, ext) ==
    [k \in 1..((Len(bytes) + MaxPacket - 1) \div MaxPacket) |->
        LET piece == SubSeq(bytes, (k - 1) * MaxPacket + 1,
                            Min({k * MaxPacket, Len(bytes)}))
        IN  [i \in DOMAIN piece |-> <<ext, piece[i]>>]]

(* data_noqueue slices the buffer from `from' up to the window, not up to   *)
(* `from' plus the window: it panics when the window ends before `from'.    *)
SliceEnd_NoWindow(window, buf) == Len(buf)   \* mutant

SliceEnd(window, buf) == IF Len(buf) > window THEN window ELSE Len(buf)

SliceFails(window, buf, from) == from > SliceEnd(window, buf)

Slice(window, buf, from) == SubSeq(buf, from + 1, SliceEnd(window, buf))

Sent(c, bytes, ext) ==
    /\ chan' = c
    /\ wire' = wire \o Packets(bytes, ext)

Queue_InFront(pending, entries) == entries \o pending   \* mutant

Queue(pending, entries) == pending \o entries

(* data / extended_data: behind pending data the message just waits;        *)
(* otherwise what the window does not take is kept with its offset.         *)
SessionData ==
    /\ chan.alive /\ chan.open
    /\ mailbox # <<>> /\ ~Head(mailbox).eof
    /\ mailbox' = Tail(mailbox)
    /\ LET buf  == Head(mailbox).bytes
           now  == Slice(chan.recipient_window_size, buf, 0)
           rest == IF chan.pending_data # <<>> THEN <<[buf |-> buf, from |-> 0]>>
                   ELSE IF Len(now) < Len(buf)
                   THEN <<[buf |-> buf, from |-> Len(now)]>>
                   ELSE <<>>
           sent == IF chan.pending_data # <<>> THEN <<>> ELSE now
       IN  Sent([chan EXCEPT !.recipient_window_size = @ - Len(sent),
                             !.pending_data = Queue(@, rest)], sent, Ext)
    /\ UNCHANGED <<app, adjusted, adjusts, peer>>

(* Encrypted::eof: the packet leaves at once, pending data or not. *)
SessionEof ==
    /\ chan.alive /\ chan.open
    /\ mailbox # <<>> /\ Head(mailbox).eof
    /\ mailbox' = Tail(mailbox)
    /\ wire' = Append(wire, <<>>)
    /\ UNCHANGED <<app, adjusted, chan, adjusts, peer>>

(* Nothing happens for a channel that is not in the table. *)
SessionDrops ==
    /\ chan.alive /\ ~chan.open
    /\ mailbox # <<>>
    /\ mailbox' = Tail(mailbox)
    /\ UNCHANGED <<app, adjusted, chan, wire, adjusts, peer>>

(* Room in the window: flush_pending goes on with the queue.  An entry that *)
(* was cut is put back, and the loop ends, when the bytes sent this time    *)
(* are fewer than the whole buffer; its new offset is that number.  What    *)
(* was extended data leaves as plain data.                                  *)
FlushOne(f, entry) ==
    IF f.stop THEN [f EXCEPT !.left = Append(@, entry)]
    ELSE IF SliceFails(f.window, entry.buf, entry.from)
    THEN [f EXCEPT !.stop = TRUE, !.panic = TRUE]
    ELSE LET now == Slice(f.window, entry.buf, entry.from) IN
         IF Len(now) < Len(entry.buf)
         THEN [f EXCEPT !.stop = TRUE, !.window = @ - Len(now),
                        !.out = @ \o Packets(now, FALSE),
                        !.left = <<[entry EXCEPT !.from = Len(now)]>>]
         ELSE [f EXCEPT !.window = @ - Len(now),
                        !.out = @ \o Packets(now, FALSE)]

Unflushed(window) ==
    [window |-> window, out |-> <<>>, left |-> <<>>, stop |-> FALSE, panic |-> FALSE]

Flush(window) == FoldLeft(FlushOne, Unflushed(window), chan.pending_data)

(* CHANNEL_WINDOW_ADJUST and the default window_adjusted handlers; the      *)
(* client's reports what the flush has left of the window.                  *)
SessionAdjust ==
    /\ chan.alive /\ chan.open
    /\ adjusts # <<>> /\ ~Head(adjusts).close
    /\ adjusts' = Tail(adjusts)
    /\ LET f == Flush(chan.recipient_window_size + Head(adjusts).amount)
       IN  IF f.panic
           THEN /\ chan' = [chan EXCEPT !.alive = FALSE]
                /\ UNCHANGED <<wire, adjusted>>
           ELSE /\ chan' = [chan EXCEPT !.recipient_window_size = f.window,
                                        !.pending_data = f.left]
                /\ wire' = wire \o f.out
                /\ adjusted' = IF app.sender = "client"
                               THEN Append(adjusted, f.window) ELSE adjusted
    /\ UNCHANGED <<app, mailbox, peer>>

(* For a channel that is not in the table the session ends: WrongChannel. *)
SessionMisses ==
    /\ chan.alive /\ ~chan.open
    /\ adjusts # <<>> /\ ~Head(adjusts).close
    /\ adjusts' = Tail(adjusts)
    /\ chan' = [chan EXCEPT !.alive = FALSE]
    /\ UNCHANGED <<app, mailbox, adjusted, wire, peer>>

(* CHANNEL_CLOSE: the entry, with its pending_data, and the sender of what  *)
(* the application waits for are dropped.                                   *)
SessionClosed ==
    /\ chan.alive
    /\ adjusts # <<>> /\ Head(adjusts).close
    /\ adjusts' = Tail(adjusts)
    /\ chan' = [chan EXCEPT !.open = FALSE]
    /\ UNCHANGED <<app, mailbox, adjusted, wire, peer>>

-----------------------------------------------------------------------------
(* adjust_window_size and the data handler, in the receiver's event loop.   *)

(* "Ignore extra data": bytes beyond the window are not charged to it (but  *)
(* the handler is given them all the same).                                 *)
Received_NotCharged(window, n) == window   \* mutant

Received(window, n) == IF n <= window THEN window - n ELSE window

NeedsAdjust_Quarter(left, target) == left < target \div 4   \* mutant

NeedsAdjust(left, target) == left < target \div 2

Grant_WholeTarget(left, target) == target   \* mutant

Grant(left, target) == target - left

ReceiverEof ==
    /\ wire # <<>> /\ Head(wire) = <<>>
    /\ wire' = Tail(wire)
    /\ peer' = [peer EXCEPT !.eof = TRUE]
    /\ UNCHANGED <<app, mailbox, adjusted, chan, adjusts>>

(* adjust_window of a server chooses the next target, and 0 leaves it as it *)
(* is.  A client keeps to config.window_size, whatever its handler says.    *)
NextTargets ==
    IF app.sender = "client"
    THEN {IF t > 0 THEN t ELSE peer.target : t \in Targets}
    ELSE {WindowSize}

ReceiverData ==
    /\ wire # <<>> /\ Head(wire) # <<>>
    /\ wire' = Tail(wire)
    /\ LET n    == Len(Head(wire))
           left == Received(peer.sender_window_size, n)
       IN  IF NeedsAdjust(left, peer.target)
           THEN /\ adjusts' = Append(adjusts, Adjust(Grant(left, peer.target)))
                /\ \E t \in NextTargets :
                     peer' = [peer EXCEPT !.sender_window_size = peer.target,
                                          !.target = t,
                                          !.delivered = @ \o Head(wire)]
           ELSE /\ peer' = [peer EXCEPT !.sender_window_size = left,
                                        !.delivered = @ \o Head(wire)]
                /\ UNCHANGED adjusts
    /\ UNCHANGED <<app, mailbox, adjusted, chan>>

(* Session::close of the server, by its handler: the packet is written, the *)
(* entry stays, and data is received, and the window adjusted, as before.   *)
ServerCloses ==
    /\ Closes /\ app.sender = "client" /\ ~peer.closed
    /\ peer' = [peer EXCEPT !.closed = TRUE]
    /\ adjusts' = Append(adjusts, Close)
    /\ UNCHANGED <<app, mailbox, adjusted, chan, wire>>

-----------------------------------------------------------------------------
(* The channel has just been confirmed with the receiver's window. *)
Init ==
    /\ \E sender \in Senders :
          app = [sender |-> sender, phase |-> "idle",
                 window_size |-> WindowSize, taken |-> 0, end |-> 0]
    /\ mailbox = <<>> /\ adjusted = <<>>
    /\ chan = [recipient_window_size |-> WindowSize, pending_data |-> <<>>,
               open |-> TRUE, alive |-> TRUE]
    /\ wire = <<>> /\ adjusts = <<>>
    /\ peer = [sender_window_size |-> WindowSize, target |-> WindowSize,
               delivered |-> <<>>, eof |-> FALSE, closed |-> FALSE]

AppSteps ==
    \/ AppSend \/ AppResume \/ AppFails
    \/ AppCall \/ AppWait \/ HandleData \/ AppEof

SessionSteps ==
    \/ SessionData \/ SessionEof \/ SessionDrops
    \/ SessionAdjust \/ SessionMisses \/ SessionClosed
    \/ ReceiverData \/ ReceiverEof

Next == AppSteps \/ SessionSteps \/ ServerCloses

Spec == Init /\ [][Next]_vars

-----------------------------------------------------------------------------
SumOf(numbers) == FoldLeft(LAMBDA n, m : n + m, 0, numbers)

Bytes(packets) == SumOf([i \in DOMAIN packets |-> Len(packets[i])])

Amount(seq) == SumOf([i \in DOMAIN seq |-> seq[i].amount])

(* Every variable keeps its type. *)
TypeOK ==
    /\ app \in [sender : Senders, phase : {"idle", "sending", "waiting", "done", "failed"},
                window_size : Nat, taken : 0..Total, end : 0..Total]
    /\ mailbox \in Seq([eof : BOOLEAN, bytes : Seq(1..Total)]) /\ Len(mailbox) <= Capacity
    /\ adjusted \in Seq(Nat) /\ adjusts \in Seq([close : BOOLEAN, amount : Nat])
    /\ chan \in [recipient_window_size : Nat, open : BOOLEAN, alive : BOOLEAN,
                 pending_data : Seq([buf : Seq(1..Total), from : 0..Total])]
    /\ wire \in Seq(Seq(BOOLEAN \X (1..Total)))
    /\ peer \in [sender_window_size : Nat, target : Nat,
                 delivered : Seq(BOOLEAN \X (1..Total)),
                 eof : BOOLEAN, closed : BOOLEAN]

(* No byte of the window is lost or invented: what the sender may still     *)
(* send, what is under way and what has been granted add up to what the     *)
(* receiver expects (data_noqueue, flush_pending, adjust_window_size).      *)
WindowConserved ==
    ~Gone =>
        chan.recipient_window_size + Bytes(wire) + Amount(adjusts)
            = peer.sender_window_size

(* Hence a thrussh peer never runs into the "Ignore extra data" branch. *)
NoExtraData == wire # <<>> => Len(Head(wire)) <= peer.sender_window_size

(* client/mod.rs, writable_packet_size: "the remaining window size in the   *)
(* channel".  While the application may send, its count is at most what the *)
(* session's window leaves after the messages still queued.                 *)
QueuedBytes(messages) == Bytes([i \in DOMAIN messages |-> messages[i].bytes])

RemainingWindow ==
    ~Gone /\ app.phase = "sending"
        => app.window_size + QueuedBytes(mailbox) <= chan.recipient_window_size

(* The handler gets the stream in order, each byte once, and of the kind it *)
(* was sent as (Channel::data, Encrypted::data, flush_pending).             *)
InOrder ==
    /\ Len(peer.delivered) <= Total
    /\ \A i \in DOMAIN peer.delivered : peer.delivered[i] = <<Ext, i>>

(* While the window is adjusted only when it is used up, the direction is a *)
(* ByteStream, also if the channel closes on the way: given by              *)
(* Channel::data and eof, or a RemoteTunnel, handed to Handler::data, or    *)
(* extended_data, and channel_eof.                                          *)
AsGiven(byte) == IF byte[1] = Ext THEN byte[2] ELSE 0

Stream ==
    INSTANCE ByteStream WITH
        given <- app.taken, closed <- app.phase = "done" /\ app.taken = Total,
        received <- [i \in DOMAIN peer.delivered |-> AsGiven(peer.delivered[i])],
        ended <- peer.eof

ImplementsByteStream == Stream!Spec

(* Every byte arrives in the end, unless the channel closes: nobody waits   *)
(* for a window adjustment that nobody will send.                           *)
AllDelivered == <>(~chan.open \/ (Len(peer.delivered) = Total /\ peer.eof))

(* A call of data() returns.  The one that does not has used up its window  *)
(* when the channel is gone: its outer loop then queues empty messages for  *)
(* as long as the connection lives (Channel::send_data).                    *)
DataReturns ==
    app.phase \in {"sending", "waiting"}
        ~> \/ app.phase \in {"idle", "done", "failed"}
           \/ app.window_size = 0 /\ ~chan.open

=============================================================================
