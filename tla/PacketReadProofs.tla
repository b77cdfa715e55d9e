-------------------------- MODULE PacketReadProofs --------------------------
(***************************************************************************)
(* Theorems about PacketRead, for every identification, every sequence of  *)
(* packets and every size.  All its safety invariants follow from one      *)
(* inductive invariant: where the read future began in the stream, and     *)
(* what SshRead may still hold back.                                       *)
(***************************************************************************)
EXTENDS PacketRead, TLAPS

-----------------------------------------------------------------------------
(* The inductive invariant. *)

(* Before the identification is found nothing else has happened; one that   *)
(* comes first has lost nothing of what was read.                           *)
Identifying ==
    task.phase = "id" =>
        /\ source.held = 0
        /\ reading = Fresh /\ opened = 0 /\ handled = <<>> /\ ~torn
        /\ peer.lines[1] = "id" => source.total = source.taken

(* What is held back begins where the packets begin. *)
HeldFirst ==
    Polled /\ source.held > 0 =>
        /\ reading = Fresh /\ opened = 0
        /\ source.taken - source.held = Len(peer.lines)

Aligned == Begun = Len(peer.lines) + Size * opened

Steady ==
    Polled /\ ~torn =>
        AtEnd \/ (Aligned /\ (reading.stage = "body" => reading.want = Body))

Lengths == reading.stage = "length" => reading.want = Header

HandledOpened == \A i \in DOMAIN handled : handled[i] <= opened

IInv ==
    /\ TypeOK
    /\ Identifying /\ IdentificationFound
    /\ HeldFirst /\ Steady /\ Lengths
    /\ HandledOpened /\ HandledInOrder
    /\ PanicsExplained

-----------------------------------------------------------------------------
(* Sizes and places. *)

LEMMA Sizes ==
    ASSUME TypeOK
    PROVE  /\ Len(peer.lines) \in Nat /\ DOMAIN peer.lines = 1..Len(peer.lines)
           /\ Len(peer.packets) \in Nat
           /\ DOMAIN peer.packets = 1..Len(peer.packets)
           /\ Header \in Nat \ {0} /\ Body \in Nat \ {0}
           /\ Size \in Nat \ {0} /\ Size = Header + Body
<1>1. peer.lines \in Seq({"id", "text", "CR", "LF"})
  BY ReadAssumption DEF TypeOK
<1>2. peer.packets \in Seq({"plain", "skipped", "DISCONNECT"})
  BY ReadAssumption DEF TypeOK
<1>3. /\ Len(peer.lines) \in Nat /\ DOMAIN peer.lines = 1..Len(peer.lines)
      /\ Len(peer.packets) \in Nat /\ DOMAIN peer.packets = 1..Len(peer.packets)
  BY <1>1, <1>2
<1> QED
  BY <1>3, ReadAssumption DEF Size

LEMMA TotalIsNat == ASSUME TypeOK PROVE Total \in Nat
<1>1. \A a, b \in Nat : a * b \in Nat
  OBVIOUS
<1>2. Size * Len(peer.packets) \in Nat
  BY <1>1, Sizes
<1> QED
  BY <1>2, Sizes DEF Total

(* The numbers that TypeOK speaks of. *)
LEMMA SourceIs ==
    ASSUME TypeOK
    PROVE  /\ peer.arrived \in Nat /\ peer.arrived <= Total /\ Total \in Nat
           /\ source.taken \in Nat /\ source.taken <= peer.arrived
           /\ source.total \in Nat /\ source.total <= IdBuffer
           /\ source.total <= source.taken /\ IdBuffer \in Nat
           /\ source.held \in Nat /\ source.held <= source.taken
<1>1. /\ peer.arrived \in 0..Total
      /\ source.taken \in 0..peer.arrived /\ source.total \in 0..IdBuffer
      /\ source.held \in 0..Total
      /\ source.total <= source.taken /\ source.held <= source.taken
  BY DEF TypeOK
<1>2. IdBuffer \in Nat
  BY ReadAssumption
<1> QED
  BY <1>1, <1>2, TotalIsNat

LEMMA AvailableIs ==
    ASSUME TypeOK
    PROVE  Available \in Nat /\ Available = peer.arrived - source.taken
  BY SourceIs DEF Available

LEMMA ReadingIs ==
    ASSUME TypeOK
    PROVE  /\ reading.got \in Nat /\ reading.want \in Nat \ {0}
           /\ reading.got <= reading.want
  BY DEF TypeOK

LEMMA OpenedIs ==
    ASSUME TypeOK
    PROVE  opened \in Nat /\ opened <= Len(peer.packets)
  BY Sizes DEF TypeOK

(* No step changes what the peer sends, and nothing that came goes back. *)
LEMMA StreamKept ==
    ASSUME TypeOK, [Next]_vars
    PROVE  /\ peer'.lines = peer.lines /\ peer'.packets = peer.packets
           /\ peer' \in [lines : Lines, packets : Packets, arrived : 0..Total,
                         gone : BOOLEAN]
           /\ peer'.arrived >= peer.arrived
           /\ peer.gone => peer'.gone /\ peer'.arrived = peer.arrived
           /\ Total' = Total
<1>1. CASE Arrive
  <2>1. PICK n \in peer.arrived + 1 .. Total : peer' = [peer EXCEPT !.arrived = n]
    BY <1>1 DEF Arrive
  <2>2. ~peer.gone
    BY <1>1 DEF Arrive
  <2>5. n \in 0..Total
    BY SourceIs
  <2>3. peer' \in [lines : Lines, packets : Packets, arrived : 0..Total,
                   gone : BOOLEAN]
    BY <2>1, <2>5 DEF TypeOK
  <2>4. /\ peer'.lines = peer.lines /\ peer'.packets = peer.packets
        /\ peer'.arrived >= peer.arrived /\ peer'.gone = peer.gone
    BY <2>1, SourceIs DEF TypeOK
  <2> QED
    BY <2>2, <2>3, <2>4 DEF Total
<1>2. CASE PeerGone
  <2>1. peer' = [peer EXCEPT !.gone = TRUE]
    BY <1>2 DEF PeerGone
  <2>2. peer' \in [lines : Lines, packets : Packets, arrived : 0..Total,
                   gone : BOOLEAN]
    BY <2>1 DEF TypeOK
  <2>3. /\ peer'.lines = peer.lines /\ peer'.packets = peer.packets
        /\ peer'.arrived = peer.arrived /\ peer'.gone
    BY <2>1 DEF TypeOK
  <2> QED
    BY <2>2, <2>3, SourceIs DEF Total
<1>3. CASE UNCHANGED peer
  BY <1>3, SourceIs DEF TypeOK, Total
<1> QED
  BY <1>1, <1>2, <1>3 DEF Next, vars, Reader, ReadId, IdFails, HeldGiven,
     SocketRead, LengthRead, Packet, ClientReadError, ServerReadError, Drain,
     Message, Disconnect, Timeout

(* The identification line ends at the last unit of the lines, and what     *)
(* begins with the identification is followed by no earlier line feed.      *)
LEMMA IdLine ==
    ASSUME TypeOK
    PROVE  /\ Len(peer.lines) >= 2 /\ Unit(Len(peer.lines)) = "LF"
           /\ \A from, end \in Nat :
                 Unit(from + 1) = "id" /\ end >= from + 2 /\ Unit(end) = "LF"
                    => end = Len(peer.lines)
<1>1. EndsWithId(peer.lines)
  BY ReadAssumption DEF TypeOK
<1>2. PICK j \in DOMAIN peer.lines :
          /\ j < Len(peer.lines) /\ peer.lines[Len(peer.lines)] = "LF"
          /\ \A k \in DOMAIN peer.lines :
                /\ peer.lines[k] = "id" <=> k = j
                /\ k > j /\ peer.lines[k] = "LF" => k = Len(peer.lines)
  BY <1>1 DEF EndsWithId
<1>3. Len(peer.lines) >= 2 /\ Unit(Len(peer.lines)) = "LF"
  BY <1>2, Sizes DEF Unit
<1>4. ASSUME NEW from \in Nat, NEW end \in Nat,
             Unit(from + 1) = "id", end >= from + 2, Unit(end) = "LF"
      PROVE  end = Len(peer.lines)
  <2>1. from + 1 \in DOMAIN peer.lines /\ peer.lines[from + 1] = "id"
    BY <1>4, Sizes DEF Unit
  <2>2. end \in DOMAIN peer.lines /\ peer.lines[end] = "LF"
    BY <1>4, Sizes DEF Unit
  <2> QED
    BY <1>2, <1>4, <2>1, <2>2, Sizes
<1> QED
  BY <1>3, <1>4

-----------------------------------------------------------------------------
(* Types. *)

(* SshRead: what is taken has arrived, what is held has been taken. *)
SourceTyped ==
    /\ source \in [taken : 0..peer.arrived, total : 0..IdBuffer, held : 0..Total]
    /\ source.total <= source.taken /\ source.held <= source.taken

ReadingTyped ==
    /\ reading \in [stage : {"length", "body"}, got : Nat, want : Nat \ {0}]
    /\ reading.got <= reading.want

TaskTyped ==
    task \in [role : Roles, messages : 0..Messages,
              phase : {"id", "select", "draining", "over", "panic"}]

BufferTyped ==
    buffer = <<>> \/ buffer = <<0>> \/ \E k \in DOMAIN peer.packets : buffer = <<k>>

PacketsTyped ==
    /\ opened \in 0..Len(peer.packets)
    /\ handled \in Seq({0} \cup DOMAIN peer.packets)
    /\ torn \in BOOLEAN

LEMMA SourceStep ==
    ASSUME TypeOK, [Next]_vars
    PROVE  SourceTyped'
<1> USE DEF SourceTyped
<1>0. /\ peer'.arrived \in Nat /\ peer'.arrived >= peer.arrived /\ Total' = Total
      /\ peer'.arrived <= Total
  BY StreamKept, SourceIs
<1>1. ASSUME NEW s \in [taken : 0..peer.arrived, total : 0..IdBuffer, held : 0..Total],
             s.total <= s.taken, s.held <= s.taken, source' = s
      PROVE  SourceTyped'
  <2>1. s.taken \in 0..peer'.arrived
    BY <1>0, <1>1, SourceIs
  <2>2. s \in [taken : 0..peer'.arrived, total : 0..IdBuffer, held : 0..Total]
    BY <1>1, <2>1
  <2> QED
    BY <1>0, <1>1, <2>2
<1>2. CASE ReadId
  <2> DEFINE n     == Least(Available, IdBuffer - source.total)
             from  == source.taken - source.total
             taken == source.taken + n
             ends  == LineEnds(from, taken)
  <2>1. /\ n \in Nat /\ n <= Available /\ n <= IdBuffer - source.total
        /\ from \in Nat /\ taken \in Nat /\ from <= taken
        /\ taken <= peer.arrived
    BY <1>2, SourceIs, AvailableIs DEF ReadId, Least
  <2>2. \A k \in ends : k \in from + 2 .. taken
    BY DEF LineEnds
  <2> HIDE DEF n, from, ends
  <2>3. CASE source' = [taken |-> taken, total |-> source.total + n, held |-> 0]
    <3>1. taken \in 0..peer.arrived /\ source.total + n \in 0..IdBuffer
          /\ source.total + n <= taken /\ 0 \in 0..Total
      BY <2>1, SourceIs
    <3> QED
      BY <1>1, <2>3, <3>1, <2>1
  <2>4. ASSUME NEW end \in ends,
               source' = [taken |-> taken, total |-> 0, held |-> Held(end, taken)]
        PROVE  SourceTyped'
    <3>1. /\ Held(end, taken) \in 0..Total /\ Held(end, taken) <= taken
          /\ taken \in 0..peer.arrived /\ 0 \in 0..IdBuffer /\ 0 <= taken
      BY <2>1, <2>2, SourceIs DEF Held
    <3> QED
      BY <1>1, <2>4, <3>1
  <2>5. CASE source' = [taken |-> taken, total |-> 0, held |-> 0]
    <3>1. taken \in 0..peer.arrived /\ 0 \in 0..IdBuffer /\ 0 <= taken /\ 0 \in 0..Total
      BY <2>1, SourceIs
    <3> QED
      BY <1>1, <2>5, <3>1
  <2> QED
    BY <1>2, <2>3, <2>4, <2>5 DEF ReadId, n, from, ends
<1>3. CASE HeldGiven
  <2>1. source' = source \/ source' = [source EXCEPT !.held = 0]
    BY <1>3 DEF HeldGiven
  <2> QED
    BY <1>1, <2>1, SourceIs DEF TypeOK
<1>4. CASE SocketRead
  <2>1. source' = [source EXCEPT !.taken = @ + Least(Available, Wanted)]
    BY <1>4 DEF SocketRead
  <2>2. /\ source.taken + Least(Available, Wanted) \in 0..peer.arrived
        /\ source.taken <= source.taken + Least(Available, Wanted)
    BY <1>4, SourceIs, ReadingIs, AvailableIs DEF SocketRead, Wanted, Least
  <2>3. [source EXCEPT !.taken = @ + Least(Available, Wanted)]
            \in [taken : 0..peer.arrived, total : 0..IdBuffer, held : 0..Total]
    BY <2>2 DEF TypeOK
  <2>4. DOMAIN source = {"taken", "total", "held"}
    BY DEF TypeOK
  <2>5. /\ source'.total = source.total /\ source'.held = source.held
        /\ source'.taken = source.taken + Least(Available, Wanted)
    BY <2>1, <2>4
  <2>6. /\ source'.total <= source'.taken /\ source'.held <= source'.taken
    BY <2>2, <2>5, SourceIs
  <2> QED
    BY <1>1, <2>1, <2>3, <2>6
<1>5. CASE UNCHANGED source
  BY <1>1, <1>5 DEF TypeOK
<1> QED
  BY <1>2, <1>3, <1>4, <1>5 DEF Next, vars, Reader, IdFails, LengthRead, Packet,
     ClientReadError, ServerReadError, Drain, Arrive, PeerGone, Message,
     Disconnect, Timeout

(* What a whole packet leads to. *)
LEMMA PacketCases ==
    ASSUME TypeOK, Packet
    PROVE  /\ opened + 1 \in DOMAIN peer.packets /\ opened' = Opened
           /\ \/ peer.packets[opened + 1] = "DISCONNECT" /\ Break
              \/ /\ peer.packets[opened + 1] = "skipped"
                 /\ reading' = Fresh /\ buffer' = <<opened + 1>>
                 /\ task' = task /\ handled' = handled
              \/ peer.packets[opened + 1] = "plain" /\ Reply(opened + 1)
<1>1. opened + 1 \in DOMAIN peer.packets /\ opened' = Opened
  BY DEF Packet, Intact, AtPacket
<1>2. peer.packets[opened + 1] \in {"plain", "skipped", "DISCONNECT"}
  <2>1. peer.packets \in Seq({"plain", "skipped", "DISCONNECT"})
    BY ReadAssumption DEF TypeOK
  <2> QED
    BY <1>1, <2>1
<1>3. CASE peer.packets[opened + 1] = "DISCONNECT"
  BY <1>1, <1>3 DEF Packet
<1>4. CASE peer.packets[opened + 1] = "skipped"
  BY <1>1, <1>4 DEF Packet
<1>5. CASE peer.packets[opened + 1] = "plain"
  BY <1>1, <1>5 DEF Packet
<1> QED
  BY <1>2, <1>3, <1>4, <1>5

(* What the server makes of a read that fails. *)
LEMMA ServerErrorCases ==
    ASSUME ServerReadError
    PROVE  \/ Break \/ Continue
           \/ buffer = <<0>> /\ Reply(0)
<1>1. CASE buffer = <<>>
  BY <1>1 DEF ServerReadError
<1>2. CASE buffer = <<0>>
  BY <1>2 DEF ServerReadError
<1>3. CASE buffer # <<>> /\ buffer # <<0>>
  BY <1>3 DEF ServerReadError
<1> QED
  BY <1>1, <1>2, <1>3

(* Every step that ends an iteration leaves the next read future. *)
LEMMA FreshTyped == ASSUME reading' = Fresh PROVE ReadingTyped'
  BY ReadAssumption DEF ReadingTyped, Fresh

LEMMA ReadingStep ==
    ASSUME TypeOK, [Next]_vars
    PROVE  ReadingTyped'
<1>1. CASE HeldGiven
  <2>1. CASE reading' = reading
    BY <2>1 DEF TypeOK, ReadingTyped
  <2>2. CASE reading' = [reading EXCEPT !.got = @ + source.held]
             /\ Fits(source.held)
    <3>1. /\ reading.got + source.held \in Nat
          /\ reading.got + source.held <= reading.want
      BY <2>2, ReadingIs, SourceIs DEF Fits, Wanted
    <3> QED
      BY <2>2, <3>1 DEF TypeOK, ReadingTyped
  <2> QED
    BY <1>1, <2>1, <2>2 DEF HeldGiven
<1>2. CASE SocketRead
  <2>1. reading' = [reading EXCEPT !.got = @ + Least(Available, Wanted)]
    BY <1>2 DEF SocketRead
  <2>2. /\ reading.got + Least(Available, Wanted) \in Nat
        /\ reading.got + Least(Available, Wanted) <= reading.want
    BY <1>2, ReadingIs, AvailableIs DEF SocketRead, Wanted, Least
  <2> QED
    BY <2>1, <2>2 DEF TypeOK, ReadingTyped
<1>3. CASE LengthRead
  <2>1. PICK n \in BodyLengths : reading' = [stage |-> "body", got |-> 0, want |-> n]
    BY <1>3 DEF LengthRead
  <2>2. n \in Nat \ {0}
    BY TotalIsNat, Sizes DEF BodyLengths
  <2> QED
    BY <2>1, <2>2 DEF ReadingTyped
<1>4. CASE UNCHANGED reading
  BY <1>4 DEF TypeOK, ReadingTyped
<1>5. CASE Packet \/ ClientReadError \/ ServerReadError
  BY <1>5, PacketCases, ServerErrorCases, FreshTyped
     DEF ClientReadError, Break, Continue, Reply, NextIteration
<1> QED
  BY <1>1, <1>2, <1>3, <1>4, <1>5, FreshTyped DEF Next, vars, Reader, ReadId,
     IdFails, Drain, Arrive, PeerGone, Message, Disconnect, Timeout, NextIteration

LEMMA TaskStep ==
    ASSUME TypeOK, [Next]_vars
    PROVE  TaskTyped'
<1>1. ASSUME NEW p \in {"id", "select", "draining", "over", "panic"}, Phase(p)
      PROVE  TaskTyped'
  BY <1>1 DEF Phase, TaskTyped, TypeOK
<1>2. CASE Message
  <2>1. PICK phase \in {"select", "over"} :
            task' = [task EXCEPT !.messages = @ - 1, !.phase = phase]
    BY <1>2 DEF Message
  <2>2. task.messages - 1 \in 0..Messages
    BY <1>2, ReadAssumption DEF Message, TypeOK
  <2> QED
    BY <2>1, <2>2 DEF TaskTyped, TypeOK
<1>3. CASE UNCHANGED task
  BY <1>3 DEF TaskTyped, TypeOK
<1>4. ASSUME Break \/ Continue \/ (\E k \in Nat : Reply(k))
      PROVE  TaskTyped'
  BY <1>1, <1>3, <1>4 DEF Break, Continue, Reply
<1>5. CASE Packet
  <2>1. Break \/ task' = task \/ Reply(opened + 1)
    BY <1>5, PacketCases
  <2> QED
    BY <1>3, <1>4, <2>1, OpenedIs
<1>6. CASE ClientReadError \/ ServerReadError
  BY <1>4, <1>6 DEF ClientReadError, ServerReadError
<1> QED
  BY <1>1, <1>2, <1>3, <1>5, <1>6 DEF Next, vars, Reader, ReadId, IdFails,
     HeldGiven, SocketRead, LengthRead, Drain, Arrive, PeerGone, Disconnect,
     Timeout

LEMMA BufferStep ==
    ASSUME TypeOK, [Next]_vars
    PROVE  BufferTyped'
<1>0. peer'.packets = peer.packets
  BY StreamKept
<1>1. CASE buffer' = buffer
  BY <1>0, <1>1 DEF BufferTyped, TypeOK
<1>2. CASE buffer' = <<>> \/ buffer' = <<0>>
  BY <1>2 DEF BufferTyped
<1>3. CASE Packet
  <2>1. buffer' = <<>> \/ (opened + 1 \in DOMAIN peer.packets /\ buffer' = <<opened + 1>>)
    BY <1>3, PacketCases DEF Break, Reply, NextIteration
  <2> QED
    BY <1>0, <1>2, <2>1 DEF BufferTyped
<1>4. CASE ClientReadError \/ ServerReadError
  <2>1. buffer' = <<>> \/ buffer' = buffer
    BY <1>4, ServerErrorCases
       DEF ClientReadError, Break, Continue, Reply, NextIteration
  <2> QED
    BY <1>1, <1>2, <2>1
<1> QED
  BY <1>1, <1>2, <1>3, <1>4 DEF Next, vars, Reader, ReadId, IdFails, HeldGiven,
     SocketRead, LengthRead, Drain, Arrive, PeerGone, Message, Disconnect,
     Timeout, NextIteration

LEMMA PacketsStep ==
    ASSUME TypeOK, [Next]_vars
    PROVE  PacketsTyped'
<1>0. peer'.packets = peer.packets
  BY StreamKept
<1>1. ASSUME opened' = opened \/ (Intact /\ opened' = Opened)
      PROVE  opened' \in 0..Len(peer'.packets)
  BY <1>0, <1>1, OpenedIs, Sizes DEF Intact, AtPacket, Opened
<1>2. ASSUME NEW k \in {0} \cup DOMAIN peer.packets, handled' = Append(handled, k)
      PROVE  handled' \in Seq({0} \cup DOMAIN peer'.packets)
  BY <1>0, <1>2 DEF TypeOK
<1>3. ASSUME handled' = handled
      PROVE  handled' \in Seq({0} \cup DOMAIN peer'.packets)
  BY <1>0, <1>3 DEF TypeOK
<1>4. torn' \in BOOLEAN
  BY DEF Next, vars, Reader, ReadId, IdFails, HeldGiven, SocketRead, LengthRead,
     Packet, ClientReadError, ServerReadError, Drain, Arrive, PeerGone, Message,
     Disconnect, Timeout, Torn, TypeOK
<1>5. opened' \in 0..Len(peer'.packets)
  BY <1>1 DEF Next, vars, Reader, ReadId, IdFails, HeldGiven, SocketRead,
     LengthRead, Packet, ClientReadError, ServerReadError, Drain, Arrive,
     PeerGone, Message, Disconnect, Timeout
<1>6. CASE Packet
  <2>1. handled' = handled \/ handled' = Append(handled, opened + 1)
    BY <1>6, PacketCases DEF Break, Reply
  <2> QED
    BY <1>2, <1>3, <1>4, <1>5, <1>6, <2>1, PacketCases DEF PacketsTyped
<1>7. CASE ClientReadError \/ ServerReadError
  <2>1. handled' = handled \/ handled' = Append(handled, 0)
    BY <1>7, ServerErrorCases DEF ClientReadError, Break, Continue, Reply
  <2> QED
    BY <1>2, <1>3, <1>4, <1>5, <2>1 DEF PacketsTyped
<1>8. CASE handled' = handled
  BY <1>3, <1>4, <1>5, <1>8 DEF PacketsTyped
<1> QED
  BY <1>6, <1>7, <1>8 DEF Next, vars, Reader, ReadId, IdFails, HeldGiven,
     SocketRead, LengthRead, Drain, Arrive, PeerGone, Message, Disconnect, Timeout

LEMMA TypeStep ==
    ASSUME TypeOK, [Next]_vars
    PROVE  TypeOK'
  BY StreamKept, SourceStep, ReadingStep, TaskStep, BufferStep, PacketsStep
     DEF TypeOK, SourceTyped, ReadingTyped, TaskTyped, BufferTyped, PacketsTyped

-----------------------------------------------------------------------------
(* The identification. *)

(* Nothing but read_ssh_id, and what arrives, happens before it is found. *)
LEMMA OnlyReadId ==
    ASSUME TypeOK, Next, task'.phase = "id"
    PROVE  task.phase = "id" /\ (ReadId \/ Arrive \/ PeerGone)
<1>0. \A p : Phase(p) => task'.phase = p
  BY DEF Phase, TypeOK
<1>1. CASE Packet
  BY <1>0, <1>1, PacketCases DEF Packet, Break, Reply
<1>2. CASE ClientReadError \/ ServerReadError
  BY <1>0, <1>2, ServerErrorCases
     DEF ClientReadError, ServerReadError, Break, Continue, Reply
<1>3. CASE Message
  BY <1>3 DEF Message, TypeOK
<1>4. CASE HeldGiven \/ SocketRead \/ LengthRead
  BY <1>0, <1>4 DEF HeldGiven, SocketRead, LengthRead, Polled
<1>5. CASE IdFails \/ Drain \/ Disconnect \/ Timeout
  BY <1>0, <1>5 DEF IdFails, Drain, Disconnect, Timeout
<1>6. CASE ReadId \/ Arrive \/ PeerGone
  BY <1>6 DEF ReadId, Arrive, PeerGone
<1> QED
  BY <1>1, <1>2, <1>3, <1>4, <1>5, <1>6 DEF Next, Reader

(* The three ways read_ssh_id goes on. *)
LEMMA ReadIdCases ==
    ASSUME TypeOK, ReadId
    PROVE  \E n \in Nat, from \in Nat :
              /\ n > 0 /\ from = source.taken - source.total
              /\ \/ /\ LineEnds(from, source.taken + n) = {}
                    /\ source' = [taken |-> source.taken + n,
                                  total |-> source.total + n, held |-> 0]
                    /\ task' = task
                 \/ \E end \in LineEnds(from, source.taken + n) :
                    /\ IsId(from)
                    /\ source' = [taken |-> source.taken + n, total |-> 0,
                                  held |-> Held(end, source.taken + n)]
                    /\ Phase("select")
                 \/ /\ LineEnds(from, source.taken + n) # {} /\ ~IsId(from)
                    /\ source' = [taken |-> source.taken + n, total |-> 0, held |-> 0]
                    /\ task' = task
<1> DEFINE n    == Least(Available, IdBuffer - source.total)
           from == source.taken - source.total
           ends == LineEnds(from, source.taken + n)
<1>1. n \in Nat /\ n > 0 /\ from \in Nat
  BY SourceIs, AvailableIs DEF ReadId, Least
<1>2. \/ /\ ends = {}
         /\ source' = [taken |-> source.taken + n, total |-> source.total + n, held |-> 0]
         /\ UNCHANGED task
      \/ \E end \in ends :
         /\ IsId(from) /\ \A k \in ends : end <= k
         /\ source' = [taken |-> source.taken + n, total |-> 0,
                       held |-> Held(end, source.taken + n)]
         /\ Phase("select")
      \/ /\ ends # {} /\ ~IsId(from)
         /\ source' = [taken |-> source.taken + n, total |-> 0, held |-> 0]
         /\ UNCHANGED task
  BY Zenon DEF ReadId
<1> HIDE DEF n, from
<1>3. from = source.taken - source.total
  BY DEF from
<1> QED
  BY <1>1, <1>2, <1>3

LEMMA IdentifyingStep ==
    ASSUME TypeOK, Identifying, IdentificationFound, Next
    PROVE  Identifying' /\ IdentificationFound'
<1> SUFFICES ASSUME task'.phase = "id"
             PROVE  Identifying' /\ IdentificationFound'
  BY DEF Identifying, IdentificationFound
<1>0. task.phase = "id" /\ (ReadId \/ Arrive \/ PeerGone)
  BY OnlyReadId
<1>1. /\ source.held = 0
      /\ reading = Fresh /\ opened = 0 /\ handled = <<>> /\ ~torn
      /\ peer.lines[1] = "id" => source.total = source.taken
      /\ peer.lines[1] = "id" => source.taken < Len(peer.lines)
  BY <1>0 DEF Identifying, IdentificationFound
<1>2. CASE Arrive \/ PeerGone
  <2>1. peer'.lines = peer.lines
    BY StreamKept
  <2>2. UNCHANGED <<task, source, reading, opened, handled, torn>>
    BY <1>2 DEF Arrive, PeerGone
  <2> QED
    BY <1>1, <2>1, <2>2 DEF Identifying, IdentificationFound, Fresh
<1>3. CASE ReadId
  <2>1. UNCHANGED <<peer, reading, opened, handled, torn>>
    BY <1>3 DEF ReadId
  <2>2. PICK n \in Nat, from \in Nat :
              /\ n > 0 /\ from = source.taken - source.total
              /\ \/ /\ LineEnds(from, source.taken + n) = {}
                    /\ source' = [taken |-> source.taken + n,
                                  total |-> source.total + n, held |-> 0]
                    /\ task' = task
                 \/ \E end \in LineEnds(from, source.taken + n) :
                    /\ IsId(from)
                    /\ source' = [taken |-> source.taken + n, total |-> 0,
                                  held |-> Held(end, source.taken + n)]
                    /\ Phase("select")
                 \/ /\ LineEnds(from, source.taken + n) # {} /\ ~IsId(from)
                    /\ source' = [taken |-> source.taken + n, total |-> 0, held |-> 0]
                    /\ task' = task
    BY <1>3, ReadIdCases
  <2>3. ~Phase("select")
    BY DEF Phase, TypeOK
  <2>4. source'.held = 0
    BY <2>2, <2>3
  <2>5. ASSUME peer.lines[1] = "id"
        PROVE  source'.total = source'.taken /\ source'.taken < Len(peer.lines)
    <3>1. from = 0 /\ source.total = source.taken
      BY <1>1, <2>2, <2>5, SourceIs
    <3>2. IsId(from)
      BY <2>5, <3>1, IdLine, Sizes DEF IsId, Unit
    <3>3. /\ LineEnds(from, source.taken + n) = {}
          /\ source'.taken = source.taken + n /\ source'.total = source.total + n
      BY <2>2, <2>3, <3>2
    <3>4. Len(peer.lines) \notin 2 .. source.taken + n
      <4>1. Len(peer.lines) \in 2 .. source.taken + n
               => Len(peer.lines) \in LineEnds(from, source.taken + n)
        BY <3>1, IdLine DEF LineEnds
      <4> QED
        BY <3>3, <4>1
    <3> QED
      BY <3>1, <3>3, <3>4, IdLine, Sizes, SourceIs
  <2> QED
    BY <1>1, <2>1, <2>4, <2>5 DEF Identifying, IdentificationFound, Fresh
<1> QED
  BY <1>0, <1>2, <1>3

-----------------------------------------------------------------------------
(* Where the read future began. *)

LEMMA LengthsStep ==
    ASSUME TypeOK, Lengths, [Next]_vars
    PROVE  Lengths'
<1>1. CASE reading' = Fresh
  BY <1>1 DEF Lengths, Fresh
<1>2. CASE HeldGiven \/ SocketRead
  BY <1>2 DEF HeldGiven, SocketRead, Lengths, TypeOK
<1>3. CASE LengthRead
  BY <1>3 DEF LengthRead, Lengths
<1>4. CASE UNCHANGED reading
  BY <1>4 DEF Lengths
<1>5. CASE Packet \/ ClientReadError \/ ServerReadError
  BY <1>1, <1>5, PacketCases, ServerErrorCases
     DEF ClientReadError, Break, Continue, Reply, NextIteration
<1> QED
  BY <1>1, <1>2, <1>3, <1>4, <1>5 DEF Next, vars, Reader, ReadId, IdFails,
     Drain, Arrive, PeerGone, Message, Disconnect, Timeout, NextIteration

(* The places, stage by stage. *)
Places ==
    /\ reading.stage = "length" => Begun = source.taken - source.held - reading.got
    /\ reading.stage = "body" =>
          Begun = source.taken - source.held - Header - reading.got
    /\ reading.stage \in {"length", "body"}
    /\ Begun \in Int

LEMMA BegunIs == ASSUME TypeOK PROVE Places
<1>1. /\ source.taken \in Int /\ source.held \in Int /\ reading.got \in Int
      /\ Header \in Int
  BY SourceIs, ReadingIs, Sizes
<1>2. reading.stage \in {"length", "body"}
  BY DEF TypeOK
<1>3. ASSUME reading.stage = "length"
      PROVE  Begun = source.taken - source.held - reading.got /\ Begun \in Int
  <2>1. Begun = (source.taken - source.held) - 0 - reading.got
    BY <1>3 DEF Begun, Position
  <2> QED
    BY <1>1, <2>1
<1>4. ASSUME reading.stage = "body"
      PROVE  Begun = source.taken - source.held - Header - reading.got /\ Begun \in Int
  <2>1. Begun = (source.taken - source.held) - Header - reading.got
    BY <1>4 DEF Begun, Position
  <2> QED
    BY <1>1, <2>1
<1> QED
  BY <1>2, <1>3, <1>4 DEF Places

LEMMA BegunNext == TypeOK' => Places'
<1>1. TypeOK => Places
  BY BegunIs
<1> QED
  BY <1>1, PTL

LEMMA OneMore ==
    ASSUME NEW n \in Nat, TypeOK
    PROVE  /\ Size * n \in Nat
           /\ Size * (n + 1) = Size * n + Header + Body
           /\ n + 1 - 1 = n
<1>1. \A a, b \in Nat : a * b \in Nat /\ a * (b + 1) = a * b + a
  OBVIOUS
<1>2. Size \in Nat /\ Header \in Nat /\ Body \in Nat /\ Size = Header + Body
  BY Sizes
<1>3. Size * n \in Nat /\ Size * (n + 1) = Size * n + Size
  BY <1>1, <1>2
<1> QED
  BY <1>2, <1>3

(* A read that has got something, and began where a packet does, reads it.  *)
LEMMA AlignedIsIntact ==
    ASSUME TypeOK, Aligned, reading.stage = "body" \/ reading.got > 0
    PROVE  Intact
<1>1. opened \in Nat /\ opened <= Len(peer.packets)
  BY OpenedIs
<1>2. opened # Len(peer.packets)
  <2>1. /\ source.taken \in Nat /\ source.held \in Nat /\ reading.got \in Nat
        /\ Header \in Nat \ {0} /\ Total \in Nat /\ source.taken <= Total
    <3>1. source.taken <= peer.arrived /\ peer.arrived <= Total /\ Total \in Nat
          /\ peer.arrived \in Nat /\ source.taken \in Nat /\ source.held \in Nat
      BY SourceIs
    <3> QED
      BY <3>1, ReadingIs, Sizes
  <2>2. Begun < source.taken
    <3>1. CASE reading.stage = "length"
      BY <2>1, <3>1, BegunIs DEF Places
    <3>2. CASE reading.stage = "body"
      BY <2>1, <3>2, BegunIs DEF Places
    <3> QED
      BY <3>1, <3>2, BegunIs DEF Places
  <2>3. opened = Len(peer.packets) => Begun = Total
    BY DEF Aligned, Total
  <2> QED
    BY <2>1, <2>2, <2>3
<1>3. opened + 1 \in DOMAIN peer.packets
  BY <1>1, <1>2, Sizes
<1>4. Begun = Len(peer.lines) + Size * ((opened + 1) - 1)
  <2>1. (opened + 1) - 1 = opened
    BY <1>1
  <2> QED
    BY <2>1 DEF Aligned
<1> QED
  BY <1>3, <1>4 DEF Intact, AtPacket

(* A read from an aligned place fails at the end of the stream only. *)
LEMMA SteadyFails ==
    ASSUME TypeOK, Steady, Polled, ~torn, ReadFails
    PROVE  AtEnd
<1>1. CASE EndOfStream
  BY <1>1 DEF EndOfStream
<1>2. CASE WholeRead /\ ~Intact
  BY <1>2, AlignedIsIntact DEF Steady, WholeRead
<1> QED
  BY <1>1, <1>2 DEF ReadFails

LEMMA HeldStep ==
    ASSUME TypeOK, Identifying, HeldFirst, Next
    PROVE  HeldFirst'
<1> SUFFICES ASSUME Polled', source'.held > 0
             PROVE  /\ reading' = Fresh /\ opened' = 0
                    /\ source'.taken - source'.held = Len(peer'.lines)
  BY DEF HeldFirst, Fresh
<1>0. peer'.lines = peer.lines
  BY StreamKept
<1>1. CASE ReadId
  <2>1. task.phase = "id" /\ UNCHANGED <<reading, opened>>
    BY <1>1 DEF ReadId
  <2>2. reading = Fresh /\ opened = 0
    BY <2>1 DEF Identifying
  <2>3. PICK n \in Nat, from \in Nat :
              /\ n > 0 /\ from = source.taken - source.total
              /\ \/ /\ LineEnds(from, source.taken + n) = {}
                    /\ source' = [taken |-> source.taken + n,
                                  total |-> source.total + n, held |-> 0]
                    /\ task' = task
                 \/ \E end \in LineEnds(from, source.taken + n) :
                    /\ IsId(from)
                    /\ source' = [taken |-> source.taken + n, total |-> 0,
                                  held |-> Held(end, source.taken + n)]
                    /\ Phase("select")
                 \/ /\ LineEnds(from, source.taken + n) # {} /\ ~IsId(from)
                    /\ source' = [taken |-> source.taken + n, total |-> 0, held |-> 0]
                    /\ task' = task
    BY <1>1, ReadIdCases
  <2>4. PICK end \in LineEnds(from, source.taken + n) :
            /\ IsId(from)
            /\ source' = [taken |-> source.taken + n, total |-> 0,
                          held |-> Held(end, source.taken + n)]
    BY <2>3
  <2>5. /\ end \in Nat /\ end >= from + 2 /\ Unit(end) = "LF"
        /\ Unit(from + 1) = "id"
    BY <2>4, SourceIs DEF LineEnds, IsId
  <2>6. end = Len(peer.lines)
    BY <2>5, IdLine
  <2>7. source'.taken - source'.held = end
    BY <2>4, <2>5, SourceIs DEF Held
  <2> QED
    BY <1>0, <2>1, <2>2, <2>6, <2>7
<1>2. CASE UNCHANGED <<source, reading, opened>> /\ Polled
  BY <1>0, <1>2 DEF HeldFirst
<1>3. CASE UNCHANGED <<source, opened>> /\ Polled /\ reading' = Fresh
  BY <1>0, <1>3 DEF HeldFirst
<1>4. ASSUME Polled, source.held > 0
      PROVE  ~WholeRead /\ ~EndOfStream /\ ~ReadFails /\ ~LengthRead /\ ~SocketRead
  <2>1. reading.stage = "length" /\ reading.got = 0 /\ reading.want = Header
    BY <1>4 DEF HeldFirst, Fresh
  <2> QED
    BY <1>4, <2>1, Sizes DEF WholeRead, EndOfStream, ReadFails, LengthRead, SocketRead
<1>5. CASE HeldGiven
  BY <1>5 DEF HeldGiven, Phase, Polled, TypeOK
<1>6. CASE SocketRead
  <2>1. source'.held = source.held /\ Polled
    BY <1>6 DEF SocketRead, TypeOK
  <2> QED
    BY <1>4, <1>6, <2>1
<1>7. CASE LengthRead
  BY <1>4, <1>7 DEF LengthRead
<1>8. CASE Packet \/ ClientReadError \/ ServerReadError \/ Drain
  <2>1. source' = source /\ Polled /\ (WholeRead \/ ReadFails)
    BY <1>8 DEF Packet, ClientReadError, ServerReadError, Drain, Polled
  <2> QED
    BY <1>4, <2>1
<1>9. CASE IdFails
  BY <1>9 DEF IdFails, Phase, Polled, TypeOK
<1>10. CASE Message \/ Disconnect
  BY <1>3, <1>10 DEF Message, Disconnect, NextIteration, Polled
<1>11. CASE Timeout
  <2>1. CASE task.phase = "id"
    BY <1>11, <2>1 DEF Timeout, Phase, Polled, TypeOK
  <2>2. CASE task.phase = "select"
    BY <1>3, <1>11, <2>2 DEF Timeout, NextIteration, Polled
  <2> QED
    BY <1>11, <2>1, <2>2 DEF Timeout
<1>12. CASE Arrive \/ PeerGone
  BY <1>2, <1>12 DEF Arrive, PeerGone, Polled
<1> QED
  BY <1>1, <1>5, <1>6, <1>7, <1>8, <1>9, <1>10, <1>11, <1>12 DEF Next, Reader

LEMMA SteadyStep ==
    ASSUME TypeOK, Identifying, HeldFirst, Lengths, Steady, Next
    PROVE  Steady'
<1> SUFFICES ASSUME Polled', ~torn'
             PROVE  AtEnd' \/ (Aligned' /\ (reading'.stage = "body" => reading'.want = Body))
  BY DEF Steady
<1>0. peer'.lines = peer.lines /\ Size' = Size
  BY StreamKept DEF Size
<1>1. TypeOK'
  BY TypeStep
<1>2. ASSUME AtEnd, UNCHANGED <<peer, source>>
      PROVE  AtEnd'
  BY <1>2 DEF AtEnd, Available
<1>3. ASSUME Begun' = Begun, opened' = opened, Aligned
      PROVE  Aligned'
  BY <1>0, <1>3 DEF Aligned
<1>4. Polled => AtEnd \/ torn \/ (Aligned /\ (reading.stage = "body" => reading.want = Body))
  BY DEF Steady
\* a packet has been opened: the next one begins where it ended
<1>5. ASSUME Polled, ~torn, WholeRead, Intact, opened' = opened + 1, reading' = Fresh,
             UNCHANGED <<peer, source>>
      PROVE  AtEnd' \/ (Aligned' /\ (reading'.stage = "body" => reading'.want = Body))
  <2>1. CASE AtEnd
    BY <1>2, <1>5, <2>1
  <2>2. CASE Aligned /\ reading.want = Body
    <3>1. /\ reading'.stage = "length" /\ reading'.got = 0
          /\ reading.stage = "body" /\ reading.got = Body
      BY <1>5, <2>2 DEF Fresh, WholeRead
    <3>2. /\ Begun' = source.taken - source.held - 0
          /\ Begun = source.taken - source.held - Header - Body
      BY <1>1, <1>5, <3>1, BegunIs, BegunNext DEF Places
    <3>3. Begun = Len(peer.lines) + Size * opened
      BY <2>2 DEF Aligned
    <3>4. Size * (opened + 1) = Size * opened + Header + Body /\ Size * opened \in Nat
      BY OneMore, OpenedIs
    <3>5. /\ Header \in Nat /\ Body \in Nat /\ Len(peer.lines) \in Nat
          /\ source.taken \in Nat /\ source.held \in Nat
      BY Sizes, SourceIs
    <3>6. Begun' = Len(peer.lines) + Size * (opened + 1)
      <4> DEFINE before == Size * opened
                 after  == Size * (opened + 1)
      <4>1. after = before + Header + Body /\ before \in Nat
        BY <3>4
      <4>2. Begun = Len(peer.lines) + before
        BY <3>3
      <4> DEFINE first == Len(peer.lines)
                 place == source.taken - source.held
      <4>3. first + before = place - Header - Body
        BY <3>2, <4>2
      <4>4. Header \in Nat /\ Body \in Nat /\ first \in Nat /\ place \in Int
        BY <3>5
      <4>5. Begun' = place - 0
        BY <3>2
      <4> HIDE DEF before, after, first, place
      <4>6. place = first + (before + Header + Body)
        BY <4>1, <4>3, <4>4
      <4>7. Begun' = first + after
        BY <4>1, <4>4, <4>5, <4>6
      <4> QED
        BY <4>7 DEF after, first
    <3> QED
      BY <1>0, <1>5, <3>1, <3>6 DEF Aligned
  <2> QED
    BY <1>4, <1>5, <2>1, <2>2 DEF WholeRead
\* nothing was got yet, or the stream is over: a new read begins at the same place
<1>6. ASSUME Polled, ~torn, AtEnd \/ (reading.stage = "length" /\ reading.got = 0),
             opened' = opened, reading' = Fresh, UNCHANGED <<peer, source>>
      PROVE  AtEnd' \/ (Aligned' /\ (reading'.stage = "body" => reading'.want = Body))
  <2>1. CASE AtEnd
    BY <1>2, <1>6, <2>1
  <2>2. CASE ~AtEnd
    <3>1. reading'.stage = "length" /\ reading'.got = 0
      BY <1>6 DEF Fresh
    <3>2. Begun' = Begun
      BY <1>1, <1>6, <2>2, <3>1, BegunIs, BegunNext DEF Places
    <3> QED
      BY <1>3, <1>4, <1>6, <2>2, <3>1, <3>2
  <2> QED
    BY <2>1, <2>2
<1>7. CASE ReadId
  <2>1. task.phase = "id" /\ UNCHANGED <<peer, reading, opened>>
    BY <1>7 DEF ReadId
  <2>2. reading = Fresh /\ opened = 0
    BY <2>1 DEF Identifying
  <2>3. PICK n \in Nat, from \in Nat :
              /\ n > 0 /\ from = source.taken - source.total
              /\ \/ /\ LineEnds(from, source.taken + n) = {}
                    /\ source' = [taken |-> source.taken + n,
                                  total |-> source.total + n, held |-> 0]
                    /\ task' = task
                 \/ \E end \in LineEnds(from, source.taken + n) :
                    /\ IsId(from)
                    /\ source' = [taken |-> source.taken + n, total |-> 0,
                                  held |-> Held(end, source.taken + n)]
                    /\ Phase("select")
                 \/ /\ LineEnds(from, source.taken + n) # {} /\ ~IsId(from)
                    /\ source' = [taken |-> source.taken + n, total |-> 0, held |-> 0]
                    /\ task' = task
    BY <1>7, ReadIdCases
  <2>4. task' # task
    BY <2>1 DEF Polled
  <2>5. PICK end \in LineEnds(from, source.taken + n) :
            /\ IsId(from)
            /\ source' = [taken |-> source.taken + n, total |-> 0,
                          held |-> Held(end, source.taken + n)]
    BY <2>3, <2>4
  <2>6. /\ end \in Nat /\ end >= from + 2 /\ Unit(end) = "LF"
        /\ Unit(from + 1) = "id"
    BY <2>5, SourceIs DEF LineEnds, IsId
  <2>7. end = Len(peer.lines)
    BY <2>6, IdLine
  <2>8. source'.taken - source'.held = end
    BY <2>5, <2>6, SourceIs DEF Held
  <2>9. Begun' = source'.taken - source'.held - reading'.got /\ reading'.got = 0
    BY <1>1, <2>1, <2>2, BegunNext DEF Fresh, Places
  <2>10. Begun' = Len(peer.lines) + Size * opened'
    <3>1. \A a \in Nat : a * 0 = 0
      OBVIOUS
    <3>2. Size * opened' = 0
      BY <2>1, <2>2, <3>1, Sizes
    <3> QED
      BY <2>6, <2>7, <2>8, <2>9, <3>2
  <2> QED
    BY <1>0, <2>1, <2>2, <2>10 DEF Aligned, Fresh
<1>8. CASE HeldGiven
  <2>1. task' = task
    BY <1>8 DEF HeldGiven, Phase, Polled, TypeOK
  <2>2. CASE task' = task /\ Phase("panic")
    BY <2>2 DEF Phase, Polled, TypeOK
  <2>3. CASE /\ source' = [source EXCEPT !.held = 0]
             /\ reading' = [reading EXCEPT !.got = @ + source.held]
    <3>1. /\ source'.taken = source.taken /\ source'.held = 0
          /\ reading'.stage = reading.stage /\ reading'.want = reading.want
          /\ reading'.got = reading.got + source.held
      BY <2>3 DEF TypeOK
    <3>2. Begun' = Begun
      <4>1. /\ source.taken \in Int /\ source.held \in Int /\ reading.got \in Int
            /\ Header \in Int
        BY SourceIs, ReadingIs, Sizes
      <4> QED
        BY <1>1, <3>1, <4>1, BegunIs, BegunNext DEF Places
    <3>3. AtEnd => AtEnd'
      BY <1>8, <3>1 DEF HeldGiven, AtEnd, Available
    <3> QED
      BY <1>3, <1>4, <1>8, <3>1, <3>2, <3>3 DEF HeldGiven
  <2> QED
    BY <1>8, <2>1, <2>2, <2>3 DEF HeldGiven
<1>9. CASE SocketRead
  <2>1. /\ source' = [source EXCEPT !.taken = @ + Least(Available, Wanted)]
        /\ reading' = [reading EXCEPT !.got = @ + Least(Available, Wanted)]
        /\ opened' = opened /\ torn' = torn /\ Polled /\ ~AtEnd
    BY <1>9 DEF SocketRead, AtEnd
  <2>2. Least(Available, Wanted) \in Int
    BY AvailableIs, ReadingIs DEF Least, Wanted
  <2>3. /\ source'.taken = source.taken + Least(Available, Wanted)
        /\ source'.held = source.held
        /\ reading'.stage = reading.stage /\ reading'.want = reading.want
        /\ reading'.got = reading.got + Least(Available, Wanted)
    BY <2>1 DEF TypeOK
  <2>4. Begun' = Begun
    <3>1. /\ source.taken \in Int /\ source.held \in Int /\ reading.got \in Int
          /\ Header \in Int
      BY SourceIs, ReadingIs, Sizes
    <3> QED
      BY <1>1, <2>2, <2>3, <3>1, BegunIs, BegunNext DEF Places
  <2> QED
    BY <1>3, <1>4, <2>1, <2>3, <2>4
<1>10. CASE LengthRead
  <2>1. PICK n \in BodyLengths : reading' = [stage |-> "body", got |-> 0, want |-> n]
    BY <1>10 DEF LengthRead
  <2>2. /\ reading.stage = "length" /\ reading.got = reading.want /\ Polled
        /\ UNCHANGED <<peer, source, opened, torn>>
    BY <1>10 DEF LengthRead
  <2>3. reading.got = Header
    BY <2>2 DEF Lengths
  <2>4. CASE AtEnd
    BY <1>2, <2>2, <2>4
  <2>5. CASE Aligned
    <3>1. Intact
      BY <2>3, <2>5, AlignedIsIntact, Sizes
    <3>2. n = Body
      BY <3>1 DEF BodyLengths
    <3>3. Begun' = Begun
      <4>1. /\ source.taken \in Int /\ source.held \in Int /\ Header \in Int
        BY SourceIs, Sizes
      <4> QED
        BY <1>1, <2>1, <2>2, <2>3, <4>1, BegunIs, BegunNext DEF Places
    <3> QED
      BY <1>3, <2>1, <2>2, <2>5, <3>2, <3>3
  <2> QED
    BY <1>4, <2>2, <2>4, <2>5
<1>11. CASE Packet
  <2>1. /\ Polled /\ ~torn /\ WholeRead /\ Intact /\ UNCHANGED <<peer, source>>
        /\ opened' = opened + 1
    BY <1>11 DEF Packet, Polled, Opened
  <2>2. reading' = Fresh
    BY <1>11, PacketCases DEF Break, Reply, NextIteration
  <2> QED
    BY <1>5, <2>1, <2>2
<1>12. CASE ClientReadError \/ ServerReadError
  <2>1. /\ Polled /\ ~torn /\ ReadFails /\ UNCHANGED <<peer, source, opened>>
    BY <1>12 DEF ClientReadError, ServerReadError, Polled
  <2>2. reading' = Fresh
    BY <1>12, ServerErrorCases
       DEF ClientReadError, Break, Continue, Reply, NextIteration
  <2> QED
    BY <1>6, <2>1, <2>2, SteadyFails
<1>13. CASE Drain
  <2>1. WholeRead /\ Intact /\ opened' = opened + 1 /\ reading' = Fresh
    BY <1>13 DEF Drain, Opened, NextIteration, Phase, Polled, TypeOK
  <2> QED
    BY <1>5, <1>13, <2>1 DEF Drain, Polled
<1>14. ASSUME UNCHANGED <<peer, source, opened>>, reading' = Fresh, Torn(reading.got), Polled
       PROVE  AtEnd' \/ (Aligned' /\ (reading'.stage = "body" => reading'.want = Body))
  <2>1. ~torn /\ reading.stage # "body" /\ ~(reading.got > 0)
    BY <1>14 DEF Torn
  <2>2. reading.stage = "length" /\ reading.got = 0
    BY <2>1, ReadingIs, BegunIs DEF Places
  <2> QED
    BY <1>6, <1>14, <2>1, <2>2
<1>15. CASE Message \/ Disconnect
  BY <1>14, <1>15 DEF Message, Disconnect, NextIteration, Polled
<1>16. CASE Timeout
  <2>1. CASE task.phase = "id"
    BY <1>16, <2>1 DEF Timeout, Phase, Polled, TypeOK
  <2>2. CASE task.phase = "select"
    BY <1>14, <1>16, <2>2 DEF Timeout, NextIteration, Polled
  <2> QED
    BY <1>16, <2>1, <2>2 DEF Timeout
<1>17. CASE Arrive \/ PeerGone
  <2>1. ~AtEnd /\ UNCHANGED <<task, source, reading, opened, torn>>
    BY <1>17 DEF Arrive, PeerGone, AtEnd
  <2>2. Begun' = Begun
    BY <2>1 DEF Begun, Position
  <2> QED
    BY <1>3, <1>4, <2>1, <2>2 DEF Polled
<1>18. CASE IdFails
  BY <1>18 DEF IdFails, Phase, Polled, TypeOK
<1> QED
  BY <1>7, <1>8, <1>9, <1>10, <1>11, <1>12, <1>13, <1>15, <1>16, <1>17, <1>18
     DEF Next, Reader

-----------------------------------------------------------------------------
(* What is handled, and the panic. *)

(* What a step does with the packets that were opened and handled.          *)
LEMMA HandledCases ==
    ASSUME TypeOK, Next
    PROVE  \/ handled' = handled /\ opened' = opened
           \/ /\ handled' = handled /\ opened' = opened + 1
              /\ peer.packets[opened + 1] # "plain" \/ task'.phase = "draining"
           \/ /\ handled' = Append(handled, opened + 1) /\ opened' = opened + 1
              /\ peer.packets[opened + 1] = "plain"
           \/ /\ handled' = Append(handled, 0) /\ opened' = opened
              /\ ServerReadError
<1>1. CASE ReadId \/ IdFails \/ Arrive \/ PeerGone
  BY <1>1 DEF ReadId, IdFails, Arrive, PeerGone
<1>2. CASE HeldGiven \/ SocketRead \/ LengthRead
  BY <1>2 DEF HeldGiven, SocketRead, LengthRead
<1>3. CASE Packet
  <2>1. /\ opened' = opened + 1
        /\ \/ peer.packets[opened + 1] = "DISCONNECT" /\ handled' = handled
           \/ peer.packets[opened + 1] = "skipped" /\ handled' = handled
           \/ /\ peer.packets[opened + 1] = "plain"
              /\ handled' = Append(handled, opened + 1)
    BY <1>3, PacketCases DEF Opened, Break, Reply
  <2> QED
    BY <2>1
<1>4. CASE ClientReadError
  BY <1>4 DEF ClientReadError, Break
<1>5. CASE ServerReadError
  <2>1. opened' = opened
    BY <1>5 DEF ServerReadError
  <2>2. handled' = handled \/ handled' = Append(handled, 0)
    BY <1>5, ServerErrorCases DEF Break, Continue, Reply
  <2> QED
    BY <1>5, <2>1, <2>2
<1>6. CASE Drain
  BY <1>6 DEF Drain, Opened, Phase
<1>7. CASE Message \/ Disconnect \/ Timeout
  BY <1>7 DEF Message, Disconnect, Timeout
<1> QED
  BY <1>1, <1>2, <1>3, <1>4, <1>5, <1>6, <1>7 DEF Next, Reader

(* The role stays, and what was dropped stays dropped.                      *)
LEMMA Kept ==
    ASSUME TypeOK, Next
    PROVE  task'.role = task.role /\ (torn => torn')
<1>0. \A p : Phase(p) => task'.role = task.role
  BY DEF Phase, TypeOK
<1>8. Torn(reading.got) => (torn => torn')
  BY Zenon DEF Torn
<1>1. CASE ReadId \/ IdFails \/ Arrive \/ PeerGone
  BY <1>0, <1>1 DEF ReadId, IdFails, Arrive, PeerGone
<1>2. CASE HeldGiven \/ SocketRead \/ LengthRead
  BY <1>0, <1>2 DEF HeldGiven, SocketRead, LengthRead
<1>3. CASE Packet
  BY <1>0, <1>3, PacketCases DEF Packet, Break, Reply
<1>4. CASE ClientReadError \/ ServerReadError
  BY <1>0, <1>4, ServerErrorCases
     DEF ClientReadError, ServerReadError, Break, Continue, Reply
<1>5. CASE Drain
  BY <1>0, <1>5 DEF Drain
<1>6. CASE Message
  <2>1. task'.role = task.role
    BY <1>6 DEF Message, TypeOK
  <2> QED
    BY <1>6, <1>8, <2>1 DEF Message
<1>7. CASE Disconnect \/ Timeout
  <2>1. task'.role = task.role
    BY <1>0, <1>7 DEF Disconnect, Timeout
  <2>2. Torn(reading.got) \/ torn' = torn
    BY <1>7, Zenon DEF Disconnect, Timeout
  <2> QED
    BY <1>8, <2>1, <2>2
<1> QED
  BY <1>1, <1>2, <1>3, <1>4, <1>5, <1>6, <1>7 DEF Next, Reader

(* select! is entered from itself, and from the identification.             *)
LEMMA SelectFrom ==
    ASSUME TypeOK, Next, task'.phase = "select"
    PROVE  task.phase = "select" \/ (task.phase = "id" /\ UNCHANGED <<opened, handled>>)
<1>0. \A p : Phase(p) => task'.phase = p
  BY DEF Phase, TypeOK
<1>1. CASE ReadId \/ IdFails \/ Arrive \/ PeerGone
  BY <1>0, <1>1 DEF ReadId, IdFails, Arrive, PeerGone
<1>2. CASE HeldGiven \/ SocketRead \/ LengthRead
  BY <1>0, <1>2 DEF HeldGiven, SocketRead, LengthRead
<1>3. CASE Packet \/ ClientReadError \/ ServerReadError \/ Message \/ Disconnect
  BY <1>3 DEF Packet, ClientReadError, ServerReadError, Message, Disconnect
<1>4. CASE Drain \/ Timeout
  BY <1>0, <1>4 DEF Drain, Timeout
<1> QED
  BY <1>1, <1>2, <1>3, <1>4 DEF Next, Reader

(* A sequence with one element more. *)
LEMMA AppendIs ==
    ASSUME NEW S, NEW s \in Seq(S), NEW e \in S
    PROVE  /\ DOMAIN Append(s, e) = DOMAIN s \cup {Len(s) + 1}
           /\ DOMAIN s = 1..Len(s) /\ Len(s) \in Nat
           /\ Append(s, e)[Len(s) + 1] = e
           /\ \A i \in DOMAIN s : Append(s, e)[i] = s[i]
  OBVIOUS

LEMMA HandledOpenedStep ==
    ASSUME TypeOK, HandledOpened, Next
    PROVE  HandledOpened'
<1>1. TypeOK'
  BY TypeStep
<1>2. /\ handled \in Seq(Int) /\ opened \in Nat
      /\ \A i \in DOMAIN handled : handled[i] \in Int
  <2>1. DOMAIN peer.packets \subseteq Int
    BY Sizes
  <2>2. handled \in Seq({0} \cup DOMAIN peer.packets)
    BY DEF TypeOK
  <2>3. handled \in Seq(Int)
    BY <2>1, <2>2
  <2> QED
    BY <2>3, OpenedIs
<1>3. CASE handled' = handled /\ (opened' = opened \/ opened' = opened + 1)
  BY <1>2, <1>3 DEF HandledOpened
<1>4. ASSUME NEW k \in Int, handled' = Append(handled, k), k <= opened',
             opened' = opened \/ opened' = opened + 1
      PROVE  HandledOpened'
  BY <1>2, <1>4, AppendIs DEF HandledOpened
<1> QED
  BY <1>2, <1>3, <1>4, HandledCases

LEMMA HandledStep ==
    ASSUME TypeOK, Identifying, Steady, HandledOpened, HandledInOrder, Next
    PROVE  HandledInOrder'
<1> DEFINE given    == {handled[i] : i \in DOMAIN handled} \ {0}
           wanted   == {k \in 1..opened : peer.packets[k] = "plain"}
           anything == \E i \in DOMAIN handled : handled[i] = 0
<1>1. peer'.packets = peer.packets /\ (peer.gone => peer'.gone)
  BY StreamKept
<1>2. task'.role = task.role /\ (torn => torn')
  BY Kept
<1>3. /\ handled \in Seq(Int) /\ opened \in Nat
      /\ \A i \in DOMAIN handled : handled[i] \in Int /\ handled[i] <= opened
  <2>1. DOMAIN peer.packets \subseteq Int
    BY Sizes
  <2>2. handled \in Seq({0} \cup DOMAIN peer.packets)
    BY DEF TypeOK
  <2>3. handled \in Seq(Int)
    BY <2>1, <2>2
  <2> QED
    BY <2>3, OpenedIs DEF HandledOpened
<1>4. task'.phase = "select" => given = wanted
  <2>1. CASE task.phase = "select"
    BY <2>1 DEF HandledInOrder
  <2>2. CASE task.phase = "id"
    <3>1. handled = <<>> /\ opened = 0
      BY <2>2 DEF Identifying
    <3>2. given = {} /\ wanted = {}
      BY <3>1
    <3> QED
      BY <3>2
  <2> QED
    BY <2>1, <2>2, SelectFrom
<1>5. \A i, j \in DOMAIN handled :
        i < j /\ handled[i] # 0 /\ handled[j] # 0 => handled[i] < handled[j]
  BY DEF HandledInOrder
<1>6. anything => task.role = "server" /\ (torn \/ peer.gone)
  BY DEF HandledInOrder
<1>7. CASE handled' = handled /\ opened' = opened
  <2>1. (given = wanted)' <=> given = wanted
    BY <1>1, <1>7
  <2> QED
    BY <1>1, <1>2, <1>4, <1>5, <1>6, <1>7, <2>1 DEF HandledInOrder
<1>8. CASE /\ handled' = handled /\ opened' = opened + 1
           /\ peer.packets[opened + 1] # "plain" \/ task'.phase = "draining"
  <2>1. peer.packets[opened + 1] # "plain" => wanted' = wanted
    BY <1>1, <1>3, <1>8
  <2>2. task'.phase = "select" => (given = wanted)'
    BY <1>4, <1>8, <2>1
  <2> QED
    BY <1>1, <1>2, <1>5, <1>6, <1>8, <2>2 DEF HandledInOrder
<1>9. CASE /\ handled' = Append(handled, opened + 1) /\ opened' = opened + 1
           /\ peer.packets[opened + 1] = "plain"
  <2>1. /\ DOMAIN handled' = DOMAIN handled \cup {Len(handled) + 1}
        /\ DOMAIN handled = 1..Len(handled) /\ Len(handled) \in Nat
        /\ handled'[Len(handled) + 1] = opened + 1
        /\ \A i \in DOMAIN handled : handled'[i] = handled[i]
    BY <1>3, <1>9, AppendIs
  <2>2. wanted' = wanted \cup {opened + 1}
    BY <1>1, <1>3, <1>9
  <2>3. given' = given \cup {opened + 1}
    BY <1>3, <2>1
  <2>4. task'.phase = "select" => (given = wanted)'
    BY <1>4, <2>2, <2>3
  <2>5. \A i, j \in DOMAIN handled' :
          i < j /\ handled'[i] # 0 /\ handled'[j] # 0 => handled'[i] < handled'[j]
    BY <1>3, <1>5, <2>1
  <2>6. anything' => anything
    BY <1>3, <2>1
  <2> QED
    BY <1>1, <1>2, <1>6, <2>4, <2>5, <2>6 DEF HandledInOrder
<1>10. CASE /\ handled' = Append(handled, 0) /\ opened' = opened
            /\ ServerReadError
  <2>1. /\ DOMAIN handled' = DOMAIN handled \cup {Len(handled) + 1}
        /\ DOMAIN handled = 1..Len(handled) /\ Len(handled) \in Nat
        /\ handled'[Len(handled) + 1] = 0
        /\ \A i \in DOMAIN handled : handled'[i] = handled[i]
    BY <1>3, <1>10, AppendIs
  <2>2. given' = given
    BY <2>1
  <2>3. wanted' = wanted
    BY <1>1, <1>10
  <2>4. task'.phase = "select" => (given = wanted)'
    BY <1>4, <2>2, <2>3
  <2>5. \A i, j \in DOMAIN handled' :
          i < j /\ handled'[i] # 0 /\ handled'[j] # 0 => handled'[i] < handled'[j]
    BY <1>5, <2>1
  <2>6. task.role = "server" /\ (torn \/ peer.gone)
    BY <1>10, SteadyFails DEF ServerReadError, Polled, AtEnd
  <2> QED
    BY <1>1, <1>2, <2>4, <2>5, <2>6 DEF HandledInOrder
<1> QED
  BY <1>7, <1>8, <1>9, <1>10, HandledCases

(* The panic is the one of put_slice. *)
LEMMA PanicsStep ==
    ASSUME TypeOK, HeldFirst, PanicsExplained, Next
    PROVE  PanicsExplained'
<1> SUFFICES ASSUME task'.phase = "panic"
             PROVE  source'.taken > Len(peer'.lines) + Header /\ opened' = 0
  BY DEF PanicsExplained
<1>0. \A p : Phase(p) => task'.phase = p
  BY DEF Phase, TypeOK
<1>1. peer'.lines = peer.lines
  BY StreamKept
<1>2. CASE HeldGiven
  <2>1. CASE Fits(source.held)
    BY <1>2, <2>1 DEF HeldGiven, Polled
  <2>2. CASE ~Fits(source.held)
    <3>1. /\ Polled /\ source.held > 0 /\ UNCHANGED <<source, opened>>
      BY <1>2, <2>2 DEF HeldGiven
    <3>2. /\ reading.got = 0 /\ reading.want = Header /\ opened = 0
          /\ source.taken - source.held = Len(peer.lines)
      BY <3>1 DEF HeldFirst, Fresh
    <3>3. source.held > Header
      BY <2>2, <3>2, SourceIs, Sizes DEF Fits, Wanted
    <3>4. /\ source.taken \in Nat /\ source.held \in Nat /\ Header \in Nat
          /\ Len(peer.lines) \in Nat
      BY SourceIs, Sizes
    <3> QED
      BY <1>1, <3>1, <3>2, <3>3, <3>4
  <2> QED
    BY <2>1, <2>2
<1>3. CASE ReadId \/ IdFails \/ SocketRead \/ LengthRead
  BY <1>0, <1>3 DEF ReadId, IdFails, SocketRead, LengthRead, Polled
<1>4. CASE Packet
  BY <1>0, <1>4, PacketCases DEF Packet, Break, Reply
<1>5. CASE ClientReadError \/ ServerReadError
  BY <1>0, <1>5, ServerErrorCases
     DEF ClientReadError, ServerReadError, Break, Continue, Reply
<1>6. CASE Drain \/ Disconnect \/ Timeout
  BY <1>0, <1>6 DEF Drain, Disconnect, Timeout
<1>7. CASE Message
  BY <1>7 DEF Message, TypeOK
<1>8. CASE Arrive \/ PeerGone
  BY <1>1, <1>8 DEF Arrive, PeerGone, PanicsExplained
<1> QED
  BY <1>2, <1>3, <1>4, <1>5, <1>6, <1>7, <1>8 DEF Next, Reader

-----------------------------------------------------------------------------
(* The invariant, and what follows from it. *)

LEMMA Start == Init => IInv
<1> SUFFICES ASSUME Init PROVE IInv
  OBVIOUS
<1>1. PICK lines \in Lines, packets \in Packets :
         peer = [lines |-> lines, packets |-> packets, arrived |-> 0, gone |-> FALSE]
  BY DEF Init
<1>2. PICK role \in Roles :
         task = [role |-> role, phase |-> "id", messages |-> Messages]
  BY DEF Init
<1>3. /\ source = [taken |-> 0, total |-> 0, held |-> 0]
      /\ reading = Fresh /\ buffer = <<>> /\ opened = 0 /\ handled = <<>>
      /\ torn = FALSE
  BY DEF Init
<1>4. /\ Header \in Nat \ {0} /\ Body \in Nat \ {0} /\ IdBuffer \in Nat
      /\ Messages \in Nat
  BY ReadAssumption
<1>5. /\ Len(lines) \in Nat /\ Len(packets) \in Nat
      /\ lines # <<>>
  <2>1. lines \in Seq({"id", "text", "CR", "LF"})
    BY ReadAssumption
  <2>2. packets \in Seq({"plain", "skipped", "DISCONNECT"})
    BY ReadAssumption
  <2>3. EndsWithId(lines)
    BY ReadAssumption
  <2>4. PICK j \in DOMAIN lines : j < Len(lines)
    BY <2>3 DEF EndsWithId
  <2> QED
    BY <2>1, <2>2, <2>4
<1>6. Total \in Nat
  <2>1. \A a, b \in Nat : a * b \in Nat
    OBVIOUS
  <2>2. Size \in Nat /\ Size * Len(packets) \in Nat
    BY <1>4, <1>5, <2>1 DEF Size
  <2>3. Total = Len(lines) + Size * Len(packets)
    BY <1>1 DEF Total
  <2> QED
    BY <1>5, <2>2, <2>3
<1>7. TypeOK
  <2>1. peer \in [lines : Lines, packets : Packets, arrived : 0..Total, gone : BOOLEAN]
    BY <1>1, <1>6
  <2>2. task \in [role : Roles, messages : 0..Messages,
                  phase : {"id", "select", "draining", "over", "panic"}]
    BY <1>2, <1>4
  <2>3. /\ source \in [taken : 0..peer.arrived, total : 0..IdBuffer, held : 0..Total]
        /\ source.total <= source.taken /\ source.held <= source.taken
    BY <1>1, <1>3, <1>4, <1>6
  <2>4. /\ reading \in [stage : {"length", "body"}, got : Nat, want : Nat \ {0}]
        /\ reading.got <= reading.want
    BY <1>3, <1>4 DEF Fresh
  <2>5. opened \in 0..Len(peer.packets)
    BY <1>1, <1>3, <1>5
  <2>6. /\ buffer = <<>> \/ buffer = <<0>> \/ \E k \in DOMAIN peer.packets : buffer = <<k>>
        /\ torn \in BOOLEAN
    BY <1>3
  <2>7. handled \in Seq({0} \cup DOMAIN peer.packets)
    BY <1>3
  <2> QED
    BY <2>1, <2>2, <2>3, <2>4, <2>5, <2>6, <2>7, Zenon DEF TypeOK
<1>8. Identifying /\ Lengths /\ HandledOpened
  BY <1>3 DEF Identifying, Lengths, HandledOpened, Fresh
<1>9. ~Polled /\ task.phase = "id"
  BY <1>2 DEF Polled
<1>10. HeldFirst /\ Steady /\ PanicsExplained
  BY <1>9 DEF HeldFirst, Steady, PanicsExplained
<1>11. IdentificationFound
  <2>1. Len(peer.lines) > 0
    <3>1. lines \in Seq({"id", "text", "CR", "LF"})
      BY ReadAssumption
    <3> QED
      BY <1>1, <1>5, <3>1
  <2> QED
    BY <1>3, <2>1 DEF IdentificationFound
<1>12. HandledInOrder
  BY <1>3, <1>9 DEF HandledInOrder
<1> QED
  BY <1>7, <1>8, <1>10, <1>11, <1>12 DEF IInv

LEMMA StepIInv == IInv /\ [Next]_vars => IInv'
<1> SUFFICES ASSUME IInv, [Next]_vars PROVE IInv'
  OBVIOUS
<1>0. /\ TypeOK /\ Identifying /\ IdentificationFound /\ HeldFirst /\ Steady
      /\ Lengths /\ HandledOpened /\ HandledInOrder /\ PanicsExplained
  BY DEF IInv
<1>1. TypeOK' /\ Lengths'
  BY <1>0, TypeStep, LengthsStep
<1>2. CASE Next
  <2>1. Identifying' /\ IdentificationFound'
    BY <1>0, <1>2, IdentifyingStep
  <2>2. HeldFirst'
    BY <1>0, <1>2, HeldStep
  <2>3. Steady'
    BY <1>0, <1>2, SteadyStep
  <2>4. HandledOpened' /\ HandledInOrder'
    BY <1>0, <1>2, HandledOpenedStep, HandledStep
  <2>5. PanicsExplained'
    BY <1>0, <1>2, PanicsStep
  <2> QED
    BY <1>1, <2>1, <2>2, <2>3, <2>4, <2>5 DEF IInv
<1>3. CASE UNCHANGED vars
  <2>1. UNCHANGED <<peer, task, source, reading, buffer, opened, handled, torn>>
    BY <1>3 DEF vars
  <2>2. Identifying' /\ IdentificationFound'
    BY <1>0, <2>1 DEF Identifying, IdentificationFound, Fresh
  <2>3. HeldFirst'
    BY <1>0, <2>1 DEF HeldFirst, Polled, Fresh
  <2>4. Steady'
    BY <1>0, <2>1 DEF Steady, Polled, AtEnd, Available, Aligned, Begun, Position, Size
  <2>5. HandledOpened' /\ HandledInOrder' /\ PanicsExplained'
    BY <1>0, <2>1 DEF HandledOpened, HandledInOrder, PanicsExplained
  <2> QED
    BY <1>1, <2>2, <2>3, <2>4, <2>5 DEF IInv
<1> QED
  BY <1>2, <1>3

LEMMA Invariance == Spec => []IInv
  BY Start, StepIInv, PTL DEF Spec

-----------------------------------------------------------------------------
(* Every variable keeps its type, and no more is read than has arrived      *)
(* (TypeOK of PacketRead).                                                  *)
THEOREM TypeCorrect == Spec => []TypeOK
<1>1. IInv => TypeOK
  BY DEF IInv
<1> QED
  BY <1>1, Invariance, PTL

(* An identification that comes first is found in whatever portions it      *)
(* arrives (read_ssh_id).                                                   *)
THEOREM IdentificationAlwaysFound == Spec => []IdentificationFound
<1>1. IInv => IdentificationFound
  BY DEF IInv
<1> QED
  BY <1>1, Invariance, PTL

(* A read future that was not dropped reads the next packet from its first  *)
(* byte (SshRead, cipher::read).                                            *)
THEOREM AlwaysInStep == Spec => []InStep
<1>1. IInv => InStep
  BY Zenon DEF IInv, Steady, Aligned, InStep
<1> QED
  BY <1>1, Invariance, PTL

(* reply is given every packet that is not skipped, once and in order (run, *)
(* run_stream).                                                             *)
THEOREM HandledAsSent == Spec => []HandledInOrder
<1>1. IInv => HandledInOrder
  BY DEF IInv
<1> QED
  BY <1>1, Invariance, PTL

(* Only bytes that were read with the identification line, and that are     *)
(* more than a length field, make the read panic (put_slice in poll_read).  *)
THEOREM OnlyOversizedReadsPanic == Spec => []PanicsExplained
<1>1. IInv => PanicsExplained
  BY DEF IInv
<1> QED
  BY <1>1, Invariance, PTL

=============================================================================
