----------------------------- MODULE PacketRead -----------------------------
(***************************************************************************)
(* How one side reads: SshRead finds the identification line (ssh_read.rs) *)
(* and hands what it has read too much to cipher::read (cipher/mod.rs),    *)
(* which is one branch of the select! of the event loop (run of            *)
(* client/mod.rs, run_stream of server/mod.rs), next to the mailbox and,   *)
(* at a server, the timeout; after the loop, the rest is drained.          *)
(*                                                                         *)
(* The peer's stream is a sequence of units: lines, then packets of Header *)
(* units of length field and Body units of the rest.  The unit "id" stands *)
(* for all of "SSH-2.0-...".  Units arrive in any portions, and the stream *)
(* may end after any of them.                                              *)
(***************************************************************************)
EXTENDS Integers, Sequences

CONSTANTS
    Roles,         \* "client", "server": which of the two loops
    Lines,         \* what the peer may send first: sequences of "id", "text",
                   \* "CR" and "LF"
    Packets,       \* and then: sequences of "plain", "skipped" (IGNORE,
                   \* UNIMPLEMENTED, DEBUG) and "DISCONNECT"
    Header, Body,  \* units of a packet
    KexPackets,    \* packets of the first key exchange: its ciphers are clear
                   \* and the mailbox is not served
    IdBuffer,      \* units the buffer of read_ssh_id holds
    Messages       \* bound: messages that come over the mailbox

(* The identification line is the last of the lines. *)
EndsWithId(lines) ==
    \E j \in DOMAIN lines :
        /\ j < Len(lines) /\ lines[Len(lines)] = "LF"
        /\ \A k \in DOMAIN lines :
              /\ lines[k] = "id" <=> k = j
              /\ k > j /\ lines[k] = "LF" => k = Len(lines)

ASSUME ReadAssumption ==
    /\ Roles \subseteq {"client", "server"}
    /\ Lines \subseteq Seq({"id", "text", "CR", "LF"})
    /\ \A lines \in Lines : EndsWithId(lines)
    /\ Packets \subseteq Seq({"plain", "skipped", "DISCONNECT"})
    /\ Header \in Nat \ {0} /\ Body \in Nat \ {0}
    /\ KexPackets \in Nat \ {0} /\ IdBuffer \in Nat \ {0} /\ Messages \in Nat

VARIABLES
    peer,      \* its lines and packets, how much has arrived, is the stream over
    task,      \* the reading task: role, phase and the messages still to come
    source,    \* SshRead: units taken from the socket, in its buffer, held back
    reading,   \* the read future: stage, units got, units the body should have
    buffer,    \* what the SSHBuffer holds: <<>>, <<a packet's number>>, <<0>>
               \* for bytes that are no packet
    opened,    \* seqn: packets opened so far
    handled,   \* history: the packets given to reply
    torn       \* history: a read was dropped after its first unit

vars == <<peer, task, source, reading, buffer, opened, handled, torn>>

Size == Header + Body

Total == Len(peer.lines) + Size * Len(peer.packets)

Least(a, b) == IF a < b THEN a ELSE b

Available == peer.arrived - source.taken

AtEnd == peer.gone /\ Available = 0

-----------------------------------------------------------------------------
(* The network: units arrive, or the peer is gone for good. *)
Arrive ==
    /\ ~peer.gone /\ peer.arrived < Total
    /\ \E n \in peer.arrived + 1 .. Total : peer' = [peer EXCEPT !.arrived = n]
    /\ UNCHANGED <<task, source, reading, buffer, opened, handled, torn>>

PeerGone ==
    /\ ~peer.gone
    /\ peer' = [peer EXCEPT !.gone = TRUE]
    /\ UNCHANGED <<task, source, reading, buffer, opened, handled, torn>>

Phase(p) == task' = [task EXCEPT !.phase = p]

-----------------------------------------------------------------------------
(* read_ssh_id.  The buffer holds the last source.total units taken. *)
Unit(k) == IF k <= Len(peer.lines) THEN peer.lines[k] ELSE "packet"

(* Where the first line of the buffer ends.  A line feed that is the first  *)
(* unit of the buffer goes unnoticed.                                       *)
LineEnds_CrLf(from, to) ==   \* mutant
    {k \in from + 2 .. to : Unit(k) = "LF" /\ Unit(k - 1) = "CR"}

LineEnds(from, to) == {k \in from + 2 .. to : Unit(k) = "LF"}

IsId(from) == Unit(from + 1) = "id"

(* What is read behind the identification line stays in the buffer. *)
Held_Dropped(end, taken) == 0   \* mutant

Held(end, taken) == taken - end

ReadId ==
    /\ task.phase = "id"
    /\ Available > 0 /\ source.total < IdBuffer
    /\ LET n     == Least(Available, IdBuffer - source.total)
           from  == source.taken - source.total
           taken == source.taken + n
           ends  == LineEnds(from, taken)
       IN  \/ /\ ends = {}
              /\ source' = [taken |-> taken, total |-> source.total + n, held |-> 0]
              /\ UNCHANGED task
           \/ \E end \in ends :
              /\ IsId(from) /\ \A k \in ends : end <= k
              /\ source' = [taken |-> taken, total |-> 0, held |-> Held(end, taken)]
              /\ Phase("select")
           \/ \* a preliminary line: the whole buffer is discarded
              /\ ends # {} /\ ~IsId(from)
              /\ source' = [taken |-> taken, total |-> 0, held |-> 0]
              /\ UNCHANGED task
    /\ UNCHANGED <<peer, reading, buffer, opened, handled, torn>>

(* No more units, or no more room for them: Error::Disconnect. *)
IdFails ==
    /\ task.phase = "id"
    /\ AtEnd \/ source.total = IdBuffer
    /\ Phase("over")
    /\ UNCHANGED <<peer, source, reading, buffer, opened, handled, torn>>

-----------------------------------------------------------------------------
(* cipher::read, polled by select! or by the loop that drains. *)
Fresh == [stage |-> "length", got |-> 0, want |-> Header]

Polled == task.phase \in {"select", "draining"}

(* The place in the stream of the next unit, and the packet that begins     *)
(* where the read future has begun, if one does.                            *)
Position == source.taken - source.held

Begun ==
    Position - (IF reading.stage = "length" THEN 0 ELSE Header) - reading.got

AtPacket(k) ==
    /\ k \in DOMAIN peer.packets
    /\ Begun = Len(peer.lines) + Size * (k - 1)

(* A length is decrypted, and a packet opened, with the number of packets   *)
(* opened before; with any other bytes than the next packet's, the length   *)
(* is arbitrary and the tag is wrong.                                       *)
Intact == AtPacket(opened + 1)

BodyLengths == IF Intact THEN {Body} ELSE {1, Body, Total + 1}

Wanted_All == reading.want   \* mutant

Wanted == reading.want - reading.got

Fits_Strictly(n) == n < Wanted   \* mutant

Fits(n) == n <= Wanted

(* All the SshRead holds is given at once; put_slice asserts that it fits.  *)
HeldGiven ==
    /\ Polled /\ source.held > 0
    /\ reading.got < reading.want
    /\ IF ~Fits(source.held)
       THEN Phase("panic") /\ UNCHANGED <<source, reading>>
       ELSE /\ source' = [source EXCEPT !.held = 0]
            /\ reading' = [reading EXCEPT !.got = @ + source.held]
            /\ UNCHANGED task
    /\ UNCHANGED <<peer, buffer, opened, handled, torn>>

SocketRead ==
    /\ Polled /\ source.held = 0
    /\ reading.got < reading.want /\ Available > 0
    /\ LET n == Least(Available, Wanted)
       IN  /\ source' = [source EXCEPT !.taken = @ + n]
           /\ reading' = [reading EXCEPT !.got = @ + n]
    /\ UNCHANGED <<peer, task, buffer, opened, handled, torn>>

(* The length is there: the buffer is cleared and given the packet's size. *)
LengthRead ==
    /\ Polled
    /\ reading.stage = "length" /\ reading.got = reading.want
    /\ \E n \in BodyLengths : reading' = [stage |-> "body", got |-> 0, want |-> n]
    /\ buffer' = <<0>>
    /\ UNCHANGED <<peer, task, source, opened, handled, torn>>

WholeRead ==
    /\ Polled
    /\ reading.stage = "body" /\ reading.got = reading.want

EndOfStream_Between ==   \* mutant
    /\ Polled /\ AtEnd /\ source.held = 0
    /\ reading.stage = "length" /\ reading.got = 0

EndOfStream ==
    /\ Polled /\ AtEnd /\ source.held = 0
    /\ reading.got < reading.want

ReadFails == EndOfStream \/ (WholeRead /\ ~Intact)

(* seqn, which a packet that cannot be opened leaves as it is. *)
Opened_SeqnKept == opened   \* mutant

Opened == opened + 1

-----------------------------------------------------------------------------
(* The end of an iteration: the buffer is cleared, and the next select!     *)
(* makes a new read future.                                                 *)
NextIteration ==
    /\ buffer' = <<>> /\ reading' = Fresh

(* `continue' makes a new future, too, but leaves the buffer as it is. *)
Continue == reading' = Fresh /\ UNCHANGED <<buffer, task, handled>>

(* `break': the server shuts its side down and drains what still comes; the *)
(* client does so only after its own disconnect.                            *)
Break ==
    /\ Phase(IF task.role = "server" THEN "draining" ELSE "over")
    /\ NextIteration
    /\ UNCHANGED handled

(* reply: the session's handlers, which may fail, as may the write behind   *)
(* them, or disconnect.                                                     *)
Reply(k) ==
    /\ handled' = Append(handled, k)
    /\ NextIteration
    /\ UNCHANGED task \/ Phase("over") \/ Phase("draining")

Packet ==
    /\ task.phase = "select"
    /\ WholeRead /\ Intact
    /\ opened' = Opened
    /\ LET read == opened + 1
       IN  CASE peer.packets[read] = "DISCONNECT" -> Break
             [] peer.packets[read] = "skipped" ->   \* the packet stays in the buffer
                  /\ reading' = Fresh /\ buffer' = <<read>>
                  /\ UNCHANGED <<task, handled>>
             [] peer.packets[read] = "plain" -> Reply(read)
    /\ UNCHANGED <<peer, source, torn>>

(* The client stops at an error of cipher::read. *)
ClientReadError ==
    /\ task.phase = "select" /\ task.role = "client"
    /\ ReadFails
    /\ Break
    /\ UNCHANGED <<peer, source, opened, torn>>

(* The server looks at the length of its buffer only: what is left there    *)
(* from a packet it skipped, or from the packet it could not read, is taken *)
(* for a packet.  Bytes that are none may mean anything.                    *)
ServerReadError ==
    /\ task.phase = "select" /\ task.role = "server"
    /\ ReadFails
    /\ CASE buffer = <<>> -> Break
         [] buffer = <<0>> -> Break \/ Continue \/ Reply(0)
         [] OTHER -> Continue
    /\ UNCHANGED <<peer, source, opened, torn>>

(* The other branches of select! drop the read future and what it has got.  *)
Torn(got) == torn' = (torn \/ reading.stage = "body" \/ got > 0)

MailboxServed == opened >= KexPackets

(* The session's call, the flush or the write behind it may fail. *)
Message ==
    /\ task.phase = "select"
    /\ MailboxServed /\ task.messages > 0
    /\ \E phase \in {"select", "over"} :
          task' = [task EXCEPT !.messages = @ - 1, !.phase = phase]
    /\ NextIteration /\ Torn(reading.got)
    /\ UNCHANGED <<peer, source, opened, handled>>

(* Msg::Disconnect, or the last Handle is dropped. *)
Disconnect ==
    /\ task.phase = "select" /\ task.role = "client"
    /\ MailboxServed
    /\ Phase("draining")
    /\ NextIteration /\ Torn(reading.got)
    /\ UNCHANGED <<peer, source, opened, handled>>

(* connection_timeout, in the identification and in the loop of a server. *)
Timeout ==
    /\ task.role = "server"
    /\ \/ /\ task.phase = "id"
          /\ Phase("over") /\ UNCHANGED <<reading, buffer, torn>>
       \/ /\ task.phase = "select"
          /\ Phase("draining")
          /\ NextIteration /\ Torn(reading.got)
    /\ UNCHANGED <<peer, source, opened, handled>>

(* while cipher::read(..).await? != 0: it never is, so only an error, the   *)
(* end of the stream being one, ends the task.                              *)
Drain ==
    /\ task.phase = "draining"
    /\ \/ /\ WholeRead /\ Intact
          /\ opened' = Opened /\ NextIteration
          /\ UNCHANGED task
       \/ /\ ReadFails
          /\ Phase("over")
          /\ UNCHANGED <<reading, buffer, opened>>
    /\ UNCHANGED <<peer, source, handled, torn>>

-----------------------------------------------------------------------------
Init ==
    /\ \E lines \in Lines, packets \in Packets :
          peer = [lines |-> lines, packets |-> packets, arrived |-> 0, gone |-> FALSE]
    /\ \E role \in Roles : task = [role |-> role, phase |-> "id", messages |-> Messages]
    /\ source = [taken |-> 0, total |-> 0, held |-> 0]
    /\ reading = Fresh
    /\ buffer = <<>>
    /\ opened = 0 /\ handled = <<>> /\ torn = FALSE

Reader ==
    \/ ReadId \/ IdFails
    \/ HeldGiven \/ SocketRead \/ LengthRead
    \/ Packet \/ ClientReadError \/ ServerReadError \/ Drain

Next == Reader \/ Arrive \/ PeerGone \/ Message \/ Disconnect \/ Timeout

Spec == Init /\ [][Next]_vars

(* The task is polled while its socket is ready. *)
FairSpec == Spec /\ WF_vars(Reader)

-----------------------------------------------------------------------------
(* Every variable keeps its type, and no more is read than has arrived. *)
TypeOK ==
    /\ peer \in [lines : Lines, packets : Packets, arrived : 0..Total, gone : BOOLEAN]
    /\ task \in [role : Roles, messages : 0..Messages,
                 phase : {"id", "select", "draining", "over", "panic"}]
    /\ source \in [taken : 0..peer.arrived, total : 0..IdBuffer, held : 0..Total]
    /\ source.total <= source.taken /\ source.held <= source.taken
    /\ reading \in [stage : {"length", "body"}, got : Nat, want : Nat \ {0}]
    /\ reading.got <= reading.want
    /\ buffer = <<>> \/ buffer = <<0>> \/ \E k \in DOMAIN peer.packets : buffer = <<k>>
    /\ opened \in 0..Len(peer.packets)
    /\ handled \in Seq({0} \cup DOMAIN peer.packets)
    /\ torn \in BOOLEAN

(* An identification that comes first is found in whatever portions it      *)
(* arrives, and with whatever behind it (read_ssh_id).                      *)
IdentificationFound ==
    peer.lines[1] = "id" /\ task.phase = "id" => source.taken < Len(peer.lines)

(* Nothing of the stream is lost between the identification and the         *)
(* packets, or between two packets, as long as select! drops no read that   *)
(* has begun (SshRead, cipher::read, `continue').                           *)
InStep ==
    Polled /\ ~torn => Begun = Len(peer.lines) + Size * opened \/ AtEnd

(* reply is given every packet that is not skipped, once and in order.  It  *)
(* is given something else only when a read was dropped, and at the end of  *)
(* the stream by a server.                                                  *)
HandledInOrder ==
    /\ task.phase = "select" =>
          {handled[i] : i \in DOMAIN handled} \ {0}
              = {k \in 1..opened : peer.packets[k] = "plain"}
    /\ \A i, j \in DOMAIN handled :
          i < j /\ handled[i] # 0 /\ handled[j] # 0 => handled[i] < handled[j]
    /\ (\E i \in DOMAIN handled : handled[i] = 0)
          => task.role = "server" /\ (torn \/ peer.gone)

(* The task panics only over what was read with the identification line, by *)
(* a read that went on for more than the length of a packet (put_slice).    *)
PanicsExplained ==
    task.phase = "panic" => source.taken > Len(peer.lines) + Header /\ opened = 0

(* The end of the stream ends the task, unless a server has just skipped a  *)
(* packet, which it then skips for ever (`continue' without a clear), or    *)
(* bytes it took for such a packet.                                         *)
SkipsForEver ==
    /\ task.role = "server" /\ task.phase = "select" /\ AtEnd
    /\ \/ buffer = <<0>>
       \/ \E k \in DOMAIN peer.packets : buffer = <<k>> /\ peer.packets[k] = "skipped"

StreamEnds == peer.gone ~> (task.phase \in {"over", "panic"} \/ SkipsForEver)

=============================================================================
