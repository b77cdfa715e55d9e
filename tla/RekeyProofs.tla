---------------------------- MODULE RekeyProofs ----------------------------
(***************************************************************************)
(* Theorems about Rekey, for every bound: the type invariant, and that a   *)
(* session id never changes once it is set.                                *)
(***************************************************************************)
EXTENDS Rekey, SequenceTheorems, TLAPS

USE DEF Side, Peer, Stage, Status, PacketType

-----------------------------------------------------------------------------
(* The building blocks keep the types they are given. *)

(* A packet sealed by a well-typed session is well typed. *)
LEMMA SealedTyped ==
    ASSUME NEW ep \in Endpoint, NEW type \in PacketType, NEW value \in Nat,
           NEW signed \in Exchange
    PROVE  Sealed(ep, type, value, signed) \in Packet
BY DEF Sealed, Packet, Endpoint

LEMMA NoExchangeTyped == NoExchange \in Exchange
BY EmptySeq DEF NoExchange, Exchange

LEMMA PlainTyped ==
    ASSUME NEW ep \in Endpoint, NEW type \in PacketType
    PROVE  Plain(ep, type) \in Packet
BY SealedTyped, NoExchangeTyped DEF Plain

LEMMA SingletonTyped ==
    ASSUME NEW S, NEW e \in S
    PROVE  <<e>> \in Seq(S)
OBVIOUS

LEMMA OwnKexInitTyped ==
    ASSUME NEW s \in Side, NEW exchange \in Exchange, NEW n \in Nat
    PROVE  OwnKexInit(s, exchange, n) \in Exchange
<1>1. <<n>> \in Seq(Nat)
  OBVIOUS
<1>2. CASE s = "client"
  BY <1>1, <1>2 DEF OwnKexInit, Exchange
<1>3. CASE s = "server"
  BY <1>1, <1>3 DEF OwnKexInit, Exchange
<1> QED BY <1>2, <1>3

(* What a handler of side s may leave: a session of the right type whose    *)
(* stage is one of its role.                                                *)
Proper(s, ep) ==
    /\ ep \in Endpoint
    /\ ep.kex # IF s = "client" THEN "KexDh" ELSE "KexDhDone"

LEMMA WriteKexInitTyped ==
    ASSUME NEW s \in Side, NEW ep, Proper(s, ep)
    PROVE  /\ Proper(s, WriteKexInit(s, ep))
           /\ WriteKexInit(s, ep).encrypted = ep.encrypted
           /\ WriteKexInit(s, ep).session_id = ep.session_id
<1> DEFINE x == OwnKexInit(s, ep.exchange, ep.drawn + 1)
<1>1. x \in Exchange
  BY OwnKexInitTyped DEF Endpoint, Proper
<1> HIDE DEF x
<1>2. WriteKexInit(s, ep) = [ep EXCEPT !.drawn = @ + 1, !.exchange = x]
  BY DEF WriteKexInit, x
<1> DEFINE w == [ep EXCEPT !.drawn = @ + 1, !.exchange = x]
<1>3. ep.drawn + 1 \in Nat
  BY DEF Proper, Endpoint
<1>4. w \in Endpoint /\ w.kex = ep.kex /\ w.encrypted = ep.encrypted
        /\ w.session_id = ep.session_id
  BY <1>1, <1>3 DEF Proper, Endpoint
<1> QED BY <1>2, <1>4 DEF Proper

LEMMA TakeExchangeTyped ==
    ASSUME NEW s \in Side, NEW ep, Proper(s, ep)
    PROVE  /\ Proper(s, TakeExchange(ep))
           /\ TakeExchange(ep).encrypted = ep.encrypted
           /\ TakeExchange(ep).session_id = ep.session_id
BY NoExchangeTyped DEF TakeExchange, Proper, Endpoint

LEMMA InitiateRekeyTyped ==
    ASSUME NEW s \in Side, NEW ep, Proper(s, ep)
    PROVE  /\ Proper(s, InitiateRekey(s, ep))
           /\ InitiateRekey(s, ep).encrypted = ep.encrypted
           /\ InitiateRekey(s, ep).session_id = ep.session_id
<1> DEFINE w == WriteKexInit(s, TakeExchange(ep))
<1>1. /\ Proper(s, w)
      /\ w.encrypted = ep.encrypted /\ w.session_id = ep.session_id
  BY TakeExchangeTyped, WriteKexInitTyped
<1> HIDE DEF w
<1>2. InitiateRekey(s, ep) = [w EXCEPT !.kex = "KexInit"]
  BY DEF InitiateRekey, w
<1> QED BY <1>1, <1>2 DEF Proper, Endpoint

LEMMA KexInitPacketTyped ==
    ASSUME NEW ep \in Endpoint
    PROVE  KexInitPacket(ep) \in Packet
BY SealedTyped, NoExchangeTyped DEF KexInitPacket, Endpoint

(* flush keeps the type, the stage of encryption and the session id. *)
LEMMA FlushedTyped ==
    ASSUME NEW s \in Side, NEW ep, Proper(s, ep)
    PROVE  /\ Proper(s, Flushed(s, ep))
           /\ Flushed(s, ep).encrypted = ep.encrypted
           /\ Flushed(s, ep).session_id = ep.session_id
           /\ FlushedPackets(s, ep) \in Seq(Packet)
<1>1. InitiateRekey(s, ep) \in Endpoint
  BY InitiateRekeyTyped DEF Proper
<1>2. <<KexInitPacket(InitiateRekey(s, ep))>> \in Seq(Packet)
  BY <1>1, KexInitPacketTyped, SingletonTyped
<1> QED BY <1>2, InitiateRekeyTyped, EmptySeq DEF Flushed, FlushedPackets

-----------------------------------------------------------------------------
(* The handlers keep the type of the session. *)

LEMMA ComputeKeysTyped ==
    ASSUME NEW ep \in Endpoint, NEW hash \in Exchange
    PROVE  ComputeKeys(ep, hash) \in NewKeys
BY DEF ComputeKeys, NewKeys, Endpoint

LEMMA EncryptedTyped ==
    ASSUME NEW s \in Side, NEW ep, Proper(s, ep)
    PROVE  Proper(s, Encrypted(ep))
BY DEF Encrypted, Proper, Endpoint, NewKeys

LEMMA RekeyedTyped ==
    ASSUME NEW s \in Side, NEW ep, Proper(s, ep)
    PROVE  /\ Proper(s, Rekeyed(ep))
           /\ Rekeyed(ep).encrypted = ep.encrypted
           /\ Rekeyed(ep).session_id = ep.session_id
BY DEF Rekeyed, Proper, Endpoint, NewKeys

(* A value joins the transcript. *)
LEMMA ExchangeGrows ==
    ASSUME NEW x \in Exchange, NEW n \in Nat, NEW m \in Nat
    PROVE  /\ [x EXCEPT !.server_kex_init = Append(@, n),
                        !.client_ephemeral = <<m>>] \in Exchange
           /\ [x EXCEPT !.server_ephemeral = Append(@, n)] \in Exchange
           /\ [x EXCEPT !.client_kex_init = Append(@, n)] \in Exchange
           /\ [x EXCEPT !.client_ephemeral = Append(@, n),
                        !.server_ephemeral = <<m>>] \in Exchange
<1>1. <<m>> \in Seq(Nat)
  OBVIOUS
<1>2. \A seq \in Seq(Nat) : Append(seq, n) \in Seq(Nat)
  BY AppendProperties
<1> QED BY <1>1, <1>2 DEF Exchange

LEMMA ClientDhTyped ==
    ASSUME NEW ep, Proper("client", ep), NEW n \in Nat
    PROVE  /\ Proper("client", ClientDh(ep, n))
           /\ ClientDh(ep, n).encrypted = ep.encrypted
           /\ ClientDh(ep, n).session_id = ep.session_id
<1> DEFINE x == [ep.exchange EXCEPT !.server_kex_init = Append(@, n),
                                    !.client_ephemeral = <<ep.drawn + 1>>]
<1>1. x \in Exchange /\ ep.drawn + 1 \in Nat
  <2>1. ep.exchange \in Exchange /\ ep.drawn + 1 \in Nat
    BY DEF Proper, Endpoint
  <2> QED BY <2>1, ExchangeGrows
<1>2. ClientDh(ep, n) = [ep EXCEPT !.kex = "KexDhDone", !.drawn = @ + 1, !.exchange = x]
  BY DEF ClientDh, x, Proper, Endpoint, Exchange
<1> HIDE DEF x
<1> QED BY <1>1, <1>2 DEF Proper, Endpoint

LEMMA KexInitReceivedTyped ==
    ASSUME NEW ep, Proper("server", ep), NEW n \in Nat
    PROVE  /\ Proper("server", KexInitReceived(ep, n))
           /\ KexInitReceived(ep, n).encrypted = ep.encrypted
           /\ KexInitReceived(ep, n).session_id = ep.session_id
<1> DEFINE x == [ep.exchange EXCEPT !.client_kex_init = Append(@, n)]
<1>1. x \in Exchange
  BY ExchangeGrows DEF Proper, Endpoint
<1>2. KexInitReceived(ep, n) = [ep EXCEPT !.kex = "KexDh", !.exchange = x]
  BY DEF KexInitReceived, x, Proper, Endpoint, Exchange
<1> HIDE DEF x
<1> QED BY <1>1, <1>2 DEF Proper, Endpoint

LEMMA ServerDhDoneTyped ==
    ASSUME NEW ep, Proper("server", ep), NEW hash \in Exchange
    PROVE  /\ Proper("server", ServerDhDone(ep, hash))
           /\ ServerDhDone(ep, hash).encrypted = ep.encrypted
           /\ ServerDhDone(ep, hash).session_id = ep.session_id
<1>1. ComputeKeys(ep, hash) \in NewKeys /\ ep.drawn + 1 \in Nat
  BY ComputeKeysTyped DEF Proper, Endpoint
<1> QED BY <1>1 DEF ServerDhDone, Proper, Endpoint

-----------------------------------------------------------------------------
(* An iteration of an event loop: what ReadDone and ReadFailed preserve. *)

(* The part of TypeOK the reads may disturb. *)
ReadsTyped ==
    /\ session \in [Side -> Endpoint]
    /\ \A s \in Side : Proper(s, session[s])
    /\ wire \in [Side -> Seq(Packet)]

LEMMA TypeOKSplit ==
    TypeOK <=> /\ ReadsTyped
               /\ sends \in [Side -> Nat]
               /\ answers \in [Side -> Nat]
               /\ limits \in [Side -> Nat]
               /\ behind \in [Side -> BOOLEAN]
BY DEF TypeOK, ReadsTyped, Proper

(* The head of a well-typed stream that is not empty. *)
LEMMA HeadTyped ==
    ASSUME ReadsTyped, NEW s \in Side, NEW types, Reads(s, types)
    PROVE  /\ Head(wire[Peer(s)]) \in Packet
           /\ Head(wire[Peer(s)]).value \in Nat
           /\ Tail(wire[Peer(s)]) \in Seq(Packet)
<1>1. wire[Peer(s)] \in Seq(Packet) /\ wire[Peer(s)] # <<>>
  BY DEF ReadsTyped, Reads
<1>2. Head(wire[Peer(s)]) \in Packet /\ Tail(wire[Peer(s)]) \in Seq(Packet)
  BY <1>1, HeadTailProperties
<1> QED BY <1>2 DEF Packet

(* A read never changes the id of an encrypted session. *)
IdKept(s) ==
    session[s].encrypted =>
        session'[s].encrypted /\ session'[s].session_id = session[s].session_id

LEMMA ReadDoneTyped ==
    ASSUME ReadsTyped, NEW s \in Side, NEW types, Reads(s, types),
           NEW ep, Proper(s, ep), NEW out \in Seq(Packet),
           session[s].encrypted =>
               ep.encrypted /\ ep.session_id = session[s].session_id,
           ReadDone(s, ep, out)
    PROVE  ReadsTyped' /\ \A t \in Side : IdKept(t)
<1>1. /\ Proper(s, Flushed(s, ep))
      /\ Flushed(s, ep).encrypted = ep.encrypted
      /\ Flushed(s, ep).session_id = ep.session_id
      /\ FlushedPackets(s, ep) \in Seq(Packet)
  BY FlushedTyped
<1>2. session' \in [Side -> Endpoint] /\ \A t \in Side : Proper(t, session'[t])
  BY <1>1 DEF ReadDone, ReadsTyped, Proper
<1>3. wire[s] \o out \o FlushedPackets(s, ep) \in Seq(Packet)
  BY <1>1, ConcatProperties DEF ReadsTyped
<1>4. wire' \in [Side -> Seq(Packet)]
  BY <1>3, HeadTyped DEF ReadDone, ReadsTyped
<1>5. ASSUME NEW t \in Side
      PROVE  IdKept(t)
  BY <1>1 DEF IdKept, ReadDone, ReadsTyped
<1> QED BY <1>2, <1>4, <1>5 DEF ReadsTyped

LEMMA ReadFailedTyped ==
    ASSUME ReadsTyped, NEW s \in Side, NEW types, Reads(s, types),
           NEW why \in Status, ReadFailed(s, why)
    PROVE  ReadsTyped' /\ \A t \in Side : IdKept(t)
<1>1. Proper(s, [session[s] EXCEPT !.status = why])
  BY DEF ReadsTyped, Proper, Endpoint
<1>2. session' = [session EXCEPT ![s] = [session[s] EXCEPT !.status = why]]
  BY DEF ReadFailed
<1>3. session' \in [Side -> Endpoint] /\ \A t \in Side : Proper(t, session'[t])
  BY <1>1, <1>2 DEF ReadsTyped, Proper
<1>4. wire' \in [Side -> Seq(Packet)]
  BY HeadTyped DEF ReadFailed, ReadsTyped
<1>5. ASSUME NEW t \in Side
      PROVE  IdKept(t)
  BY <1>2 DEF IdKept, ReadsTyped, Endpoint
<1> QED BY <1>3, <1>4, <1>5 DEF ReadsTyped

-----------------------------------------------------------------------------
(* The actions of either side and of the client. *)

(* Packets of the other layers, on either side. *)
LEMMA ReadConnTyped ==
    ASSUME ReadsTyped, NEW s \in Side, ReadConn(s)
    PROVE  ReadsTyped' /\ \A t \in Side : IdKept(t)
<1>1. PICK n \in 0..1 :
         ReadDone(s, session[s], [i \in 1..n |-> Plain(session[s], "CONN")])
  BY DEF ReadConn
<1> DEFINE out == [i \in 1..n |-> Plain(session[s], "CONN")]
<1>2. session[s] \in Endpoint /\ Proper(s, session[s])
  BY DEF ReadsTyped
<1>3. out \in Seq(Packet)
  <2>1. Plain(session[s], "CONN") \in Packet
    BY <1>2, PlainTyped
  <2> QED BY <2>1
<1>4. Reads(s, PacketType \ {"KEXINIT"}) /\ ReadDone(s, session[s], out)
  BY <1>1 DEF ReadConn
<1> HIDE DEF out
<1> QED BY <1>2, <1>3, <1>4, ReadDoneTyped


LEMMA ClientReadsTyped ==
    ASSUME ReadsTyped, ClientReads
    PROVE  ReadsTyped' /\ \A t \in Side : IdKept(t)
<1> DEFINE ep == session["client"]
           p  == Head(wire["server"])
<1>1. ep \in Endpoint /\ Proper("client", ep)
  BY DEF ReadsTyped
<1>2. ASSUME NEW types, Reads("client", types)
      PROVE  p \in Packet /\ p.value \in Nat
  BY <1>2, HeadTyped
<1>3. CASE ClientParse
  <2> DEFINE dh == ClientDh(ep, p.value)
  <2>1. Reads("client", {"KEXINIT"}) /\ p.value \in Nat
    BY <1>2, <1>3 DEF ClientParse
  <2>2. /\ Proper("client", dh)
        /\ dh.encrypted = ep.encrypted /\ dh.session_id = ep.session_id
    BY <1>1, <2>1, ClientDhTyped
  <2> DEFINE out == <<Sealed(dh, "ECDH_INIT", dh.drawn, NoExchange)>>
  <2>3. out \in Seq(Packet)
    <3>1. dh \in Endpoint /\ dh.drawn \in Nat
      BY <2>2 DEF Proper, Endpoint
    <3>2. Sealed(dh, "ECDH_INIT", dh.drawn, NoExchange) \in Packet
      BY <3>1, SealedTyped, NoExchangeTyped
    <3> QED BY <3>2, SingletonTyped
  <2>4. ReadDone("client", dh, out)
    BY <1>3 DEF ClientParse
  <2> HIDE DEF dh, out
  <2> QED BY <2>1, <2>2, <2>3, <2>4, ReadDoneTyped
<1>4. CASE ClientRekeyRequested
  <2> DEFINE none == [ep EXCEPT !.kex = "None"]
  <2>1. Reads("client", {"KEXINIT"})
    BY <1>4 DEF ClientRekeyRequested
  <2>2. /\ Proper("client", none)
        /\ none.encrypted = ep.encrypted /\ none.session_id = ep.session_id
    BY <1>1 DEF Proper, Endpoint
  <2>3. ReadFailed("client", "Kex") \/ ReadDone("client", none, <<>>)
    BY <1>4 DEF ClientRekeyRequested
  <2> HIDE DEF none
  <2> QED BY <2>1, <2>2, <2>3, ReadDoneTyped, ReadFailedTyped, EmptySeq
<1>5. CASE ClientKeyCheck
  <2> DEFINE hash == [ep.exchange EXCEPT !.server_ephemeral = Append(@, p.value)]
             new  == [ep EXCEPT !.kex = "NewKeys", !.exchange = hash,
                                !.newkeys = ComputeKeys(ep, hash)]
             out  == <<Plain(ep, "NEWKEYS")>>
  <2>1. Reads("client", {"ECDH_REPLY"}) /\ p.value \in Nat
    BY <1>2, <1>5 DEF ClientKeyCheck
  <2>2. hash \in Exchange /\ ComputeKeys(ep, hash) \in NewKeys
    <3>1. ep.exchange \in Exchange
      BY <1>1 DEF Endpoint
    <3>2. hash \in Exchange
      BY <2>1, <3>1, ExchangeGrows
    <3> HIDE DEF hash
    <3> QED BY <1>1, <3>2, ComputeKeysTyped
  <2>3. out \in Seq(Packet)
    BY <1>1, PlainTyped, SingletonTyped
  <2>4. \/ ReadDone("client", new, out)
        \/ ReadFailed("client", "WrongServerSig")
    BY <1>5 DEF ClientKeyCheck
  <2> HIDE DEF hash
  <2>5. /\ Proper("client", new)
        /\ new.encrypted = ep.encrypted /\ new.session_id = ep.session_id
    BY <1>1, <2>2 DEF Proper, Endpoint
  <2> HIDE DEF new, out
  <2> QED BY <2>1, <2>3, <2>4, <2>5, ReadDoneTyped, ReadFailedTyped
<1>6. CASE ClientWrongPacket
  BY <1>6, ReadFailedTyped DEF ClientWrongPacket
<1>7. CASE ClientNewKeys
  <2>1. Reads("client", PacketType)
    BY <1>7 DEF ClientNewKeys
  <2>2. CASE ReadFailed("client", "Kex")
    BY <2>1, <2>2, ReadFailedTyped
  <2>3. CASE ep.encrypted /\ ReadDone("client", [Rekeyed(ep) EXCEPT !.over = FALSE], <<>>)
    <3> DEFINE new == [Rekeyed(ep) EXCEPT !.over = FALSE]
    <3>1. /\ Proper("client", new)
          /\ new.encrypted = ep.encrypted /\ new.session_id = ep.session_id
      BY <1>1, RekeyedTyped DEF Proper, Endpoint
    <3>2. ReadDone("client", new, <<>>)
      BY <2>3
    <3> HIDE DEF new
    <3> QED BY <2>1, <3>1, <3>2, ReadDoneTyped, EmptySeq
  <2>4. CASE /\ ~ep.encrypted
             /\ ReadDone("client", Encrypted(ep), <<Plain(Encrypted(ep), "CONN")>>)
    <3> DEFINE new == Encrypted(ep)
               out == <<Plain(new, "CONN")>>
    <3>1. Proper("client", new) /\ new \in Endpoint
      BY <1>1, EncryptedTyped DEF Proper
    <3>2. ReadDone("client", new, out) /\ ~session["client"].encrypted
      BY <2>4
    <3> HIDE DEF new
    <3>3. out \in Seq(Packet)
      BY <3>1, PlainTyped, SingletonTyped
    <3> HIDE DEF out
    <3> QED BY <2>1, <3>1, <3>2, <3>3, ReadDoneTyped
  <2> QED BY <1>7, <2>2, <2>3, <2>4 DEF ClientNewKeys
<1> QED BY <1>3, <1>4, <1>5, <1>6, <1>7, ReadConnTyped DEF ClientReads

-----------------------------------------------------------------------------
(* The actions of the server. *)

LEMMA ServerReadsTyped ==
    ASSUME ReadsTyped, ServerReads
    PROVE  ReadsTyped' /\ \A t \in Side : IdKept(t)
<1> DEFINE ep == session["server"]
           p  == Head(wire["client"])
<1>1. ep \in Endpoint /\ Proper("server", ep)
  BY DEF ReadsTyped
<1>2. ASSUME NEW types, Reads("server", types)
      PROVE  p \in Packet /\ p.value \in Nat
  BY <1>2, HeadTyped
<1>3. CASE ServerParse
  <2> DEFINE new == KexInitReceived(ep, p.value)
  <2>1. Reads("server", {"KEXINIT"}) /\ p.value \in Nat /\ ReadDone("server", new, <<>>)
    BY <1>2, <1>3 DEF ServerParse
  <2>2. /\ Proper("server", new)
        /\ new.encrypted = ep.encrypted /\ new.session_id = ep.session_id
    BY <1>1, <2>1, KexInitReceivedTyped
  <2> HIDE DEF new
  <2> QED BY <2>1, <2>2, ReadDoneTyped, EmptySeq
<1>4. CASE ServerRekeyRequested
  <2> DEFINE none == [ep EXCEPT !.kex = "None"]
             ep2  == WriteKexInit("server", TakeExchange(ep))
             new  == KexInitReceived(ep2, p.value)
             out  == <<KexInitPacket(ep2)>>
  <2>1. Reads("server", {"KEXINIT"}) /\ p.value \in Nat
    BY <1>2, <1>4 DEF ServerRekeyRequested
  <2>2. /\ Proper("server", none)
        /\ none.encrypted = ep.encrypted /\ none.session_id = ep.session_id
    BY <1>1 DEF Proper, Endpoint
  <2>3. ReadDone("server", new, out) \/ ReadDone("server", none, <<>>)
    BY <1>4 DEF ServerRekeyRequested
  <2>4. /\ Proper("server", ep2)
        /\ ep2.encrypted = ep.encrypted /\ ep2.session_id = ep.session_id
    BY <1>1, TakeExchangeTyped, WriteKexInitTyped
  <2> HIDE DEF ep2
  <2>5. /\ Proper("server", new)
        /\ new.encrypted = ep.encrypted /\ new.session_id = ep.session_id
    BY <2>1, <2>4, KexInitReceivedTyped
  <2>6. out \in Seq(Packet)
    BY <2>4, KexInitPacketTyped, SingletonTyped DEF Proper
  <2> HIDE DEF none, new, out
  <2> QED BY <2>1, <2>2, <2>3, <2>5, <2>6, ReadDoneTyped, EmptySeq
<1>5. CASE ServerDh
  <2> DEFINE hash == ServerDhExchange(ep, p.value)
             new  == ServerDhDone(ep, hash)
             out  == <<Sealed(ep, "ECDH_REPLY", ep.drawn + 1, hash),
                       Plain(ep, "NEWKEYS")>>
  <2>1. Reads("server", {"ECDH_INIT"}) /\ p.value \in Nat
    BY <1>2, <1>5 DEF ServerDh
  <2>2. ep.exchange \in Exchange /\ ep.drawn + 1 \in Nat
    BY <1>1 DEF Endpoint
  <2>3. hash \in Exchange
    BY <2>1, <2>2, ExchangeGrows DEF ServerDhExchange
  <2>4. ReadDone("server", new, out)
    BY <1>5 DEF ServerDh
  <2> HIDE DEF hash
  <2>5. /\ Proper("server", new)
        /\ new.encrypted = ep.encrypted /\ new.session_id = ep.session_id
    BY <1>1, <2>3, ServerDhDoneTyped
  <2>6. out \in Seq(Packet)
    <3>1. /\ Sealed(ep, "ECDH_REPLY", ep.drawn + 1, hash) \in Packet
          /\ Plain(ep, "NEWKEYS") \in Packet
      BY <1>1, <2>2, <2>3, SealedTyped, PlainTyped
    <3> QED BY <3>1
  <2> HIDE DEF new, out
  <2> QED BY <2>1, <2>4, <2>5, <2>6, ReadDoneTyped
<1>6. CASE ServerDhAssertion
  BY <1>6, ReadFailedTyped DEF ServerDhAssertion
<1>7. CASE ServerNewKeys
  <2> DEFINE new == IF ep.encrypted THEN Rekeyed(ep) ELSE Encrypted(ep)
  <2>1. Reads("server", PacketType)
    BY <1>7 DEF ServerNewKeys
  <2>2. ReadFailed("server", "Kex") \/ ReadDone("server", new, <<>>)
    BY <1>7 DEF ServerNewKeys
  <2>3. /\ Proper("server", new)
        /\ ep.encrypted => new.encrypted /\ new.session_id = ep.session_id
    BY <1>1, RekeyedTyped, EncryptedTyped
  <2> HIDE DEF new
  <2> QED BY <2>1, <2>2, <2>3, ReadDoneTyped, ReadFailedTyped, EmptySeq
<1> QED BY <1>3, <1>4, <1>5, <1>6, <1>7, ReadConnTyped DEF ServerReads

-----------------------------------------------------------------------------
(* The other actions, and the theorems. *)

LEMMA SendTyped ==
    ASSUME ReadsTyped, NEW s \in Side, Send(s)
    PROVE  ReadsTyped' /\ \A t \in Side : IdKept(t)
<1> DEFINE ep  == session[s]
           out == <<Plain(ep, "CONN")>>
<1>1. ep \in Endpoint /\ Proper(s, ep) /\ wire[s] \in Seq(Packet)
  BY DEF ReadsTyped
<1>2. /\ Proper(s, Flushed(s, ep))
      /\ Flushed(s, ep).encrypted = ep.encrypted
      /\ Flushed(s, ep).session_id = ep.session_id
      /\ FlushedPackets(s, ep) \in Seq(Packet)
  BY <1>1, FlushedTyped
<1>3. out \in Seq(Packet)
  BY <1>1, PlainTyped, SingletonTyped
<1>4. /\ session' = [session EXCEPT ![s] = Flushed(s, ep)]
      /\ wire' = [wire EXCEPT ![s] = wire[s] \o out \o FlushedPackets(s, ep)]
  BY DEF Send
<1> HIDE DEF out
<1>5. wire[s] \o out \o FlushedPackets(s, ep) \in Seq(Packet)
  BY <1>1, <1>2, <1>3, ConcatProperties
<1>6. session' \in [Side -> Endpoint] /\ \A t \in Side : Proper(t, session'[t])
  BY <1>2, <1>4 DEF ReadsTyped, Proper
<1>7. \A t \in Side : IdKept(t)
  BY <1>2, <1>4 DEF IdKept, ReadsTyped
<1> QED BY <1>4, <1>5, <1>6, <1>7 DEF ReadsTyped

(* Only one field of the session changes, and nothing else. *)
LEMMA FieldTyped ==
    ASSUME ReadsTyped, NEW s \in Side, UNCHANGED wire,
           \/ session' = [session EXCEPT ![s].over = TRUE]
           \/ session' = [session EXCEPT ![s].status = "closed"]
    PROVE  ReadsTyped' /\ \A t \in Side : IdKept(t)
<1> DEFINE ep == session[s]
<1>1. ep \in Endpoint /\ Proper(s, ep)
  BY DEF ReadsTyped
<1>2. PICK new :
         /\ session' = [session EXCEPT ![s] = new]
         /\ new = [ep EXCEPT !.over = TRUE] \/ new = [ep EXCEPT !.status = "closed"]
  OBVIOUS
<1>3. /\ Proper(s, new)
      /\ new.encrypted = ep.encrypted /\ new.session_id = ep.session_id
  BY <1>1, <1>2 DEF Proper, Endpoint
<1>4. session' \in [Side -> Endpoint] /\ \A t \in Side : Proper(t, session'[t])
  BY <1>2, <1>3 DEF ReadsTyped, Proper
<1>5. \A t \in Side : IdKept(t)
  BY <1>2, <1>3 DEF IdKept, ReadsTyped
<1> QED BY <1>4, <1>5 DEF ReadsTyped

LEMMA StepTyped ==
    ASSUME TypeOK, [Next]_vars
    PROVE  TypeOK' /\ \A t \in Side : IdKept(t)
<1>1. /\ ReadsTyped
      /\ sends \in [Side -> Nat] /\ answers \in [Side -> Nat] /\ limits \in [Side -> Nat]
      /\ behind \in [Side -> BOOLEAN]
  BY TypeOKSplit
<1>2. (ReadsTyped' /\ sends' \in [Side -> Nat] /\ answers' \in [Side -> Nat]
         /\ limits' \in [Side -> Nat] /\ behind' \in [Side -> BOOLEAN]) => TypeOK'
  BY DEF TypeOK, ReadsTyped, Proper
<1>3. CASE ClientReads \/ ServerReads
  <2>1. /\ sends' \in [Side -> Nat] /\ limits' \in [Side -> Nat]
        /\ answers' \in [Side -> Nat] /\ behind' \in [Side -> BOOLEAN]
    <3>1. CASE UNCHANGED Budgets /\ behind' \in [Side -> BOOLEAN]
      BY <1>1, <3>1 DEF Budgets
    <3>2. ASSUME NEW s \in Side, ReadConn(s)
          PROVE  /\ sends' = sends /\ limits' = limits
                 /\ answers' \in [Side -> Nat] /\ behind' \in [Side -> BOOLEAN]
      BY <1>1, <3>2 DEF ReadConn
    <3> QED BY <1>1, <1>3, <3>1, <3>2 DEF ClientReads, ServerReads, ClientParse,
          ClientRekeyRequested, ClientKeyCheck, ClientWrongPacket, ClientNewKeys,
          ServerParse, ServerRekeyRequested, ServerDh, ServerDhAssertion, ServerNewKeys
  <2> QED BY <1>1, <1>2, <1>3, <2>1, ClientReadsTyped, ServerReadsTyped
<1>4. ASSUME NEW s \in Side, Send(s)
      PROVE  TypeOK' /\ \A t \in Side : IdKept(t)
  <2>1. /\ sends' \in [Side -> Nat] /\ answers' = answers /\ limits' = limits /\ behind' = behind
    BY <1>1, <1>4 DEF Send
  <2> QED BY <1>1, <1>2, <1>4, <2>1, SendTyped
<1>5. ASSUME NEW s \in Side, LimitReached(s)
      PROVE  TypeOK' /\ \A t \in Side : IdKept(t)
  <2>1. /\ limits' \in [Side -> Nat] /\ answers' = answers /\ sends' = sends /\ behind' = behind
    BY <1>1, <1>5 DEF LimitReached
  <2>2. UNCHANGED wire /\ session' = [session EXCEPT ![s].over = TRUE]
    BY <1>5 DEF LimitReached
  <2> QED BY <1>1, <1>2, <2>1, <2>2, FieldTyped
<1>6. ASSUME NEW s \in Side, Hangup(s)
      PROVE  TypeOK' /\ \A t \in Side : IdKept(t)
  <2>1. /\ limits' = limits /\ answers' = answers /\ sends' = sends /\ behind' = behind /\ UNCHANGED wire
        /\ session' = [session EXCEPT ![s].status = "closed"]
    BY <1>6 DEF Hangup
  <2> QED BY <1>1, <1>2, <2>1, FieldTyped
<1>7. CASE UNCHANGED vars
  BY <1>7 DEF vars, TypeOK, IdKept
<1> QED BY <1>3, <1>4, <1>5, <1>6, <1>7 DEF Next

LEMMA InitTyped == Init => TypeOK
<1> SUFFICES ASSUME Init PROVE TypeOK
  OBVIOUS
<1>1. ASSUME NEW s \in Side
      PROVE  Fresh(s) \in Endpoint /\ Fresh(s).kex = "KexInit"
  BY OwnKexInitTyped, NoExchangeTyped DEF Fresh, Endpoint, NewKeys, Clear
<1>2. session = [s \in Side |-> Fresh(s)]
  BY DEF Init
<1>3. ReadsTyped
  <2>1. ASSUME NEW s \in Side
        PROVE  <<KexInitPacket(Fresh(s))>> \in Seq(Packet)
    BY <1>1, KexInitPacketTyped, SingletonTyped
  <2>2. wire \in [Side -> Seq(Packet)]
    BY <2>1 DEF Init
  <2> QED BY <1>1, <1>2, <2>2 DEF ReadsTyped, Proper
<1> QED BY <1>3, TypeOKSplit, BoundsAssumption DEF Init

(* Whatever the bounds, every variable keeps its type and each side stays   *)
(* in the Kex states of its role (the handlers of both KEXINIT paths).      *)
THEOREM TypeCorrect == Spec => []TypeOK
<1>1. TypeOK /\ [Next]_vars => TypeOK'
  BY StepTyped
<1> QED BY InitTyped, <1>1, PTL DEF Spec

(* Whatever the bounds, the id of an encrypted session is never replaced,   *)
(* however many re-exchanges follow (newkeys leaves session_id alone and    *)
(* compute_keys passes it on).                                              *)
THEOREM SessionIdNeverChanges == Spec => SessionIdFixed
<1>1. TypeOK /\ [Next]_vars =>
        [\A s \in Side : session[s].encrypted =>
            /\ session'[s].encrypted
            /\ session'[s].session_id = session[s].session_id]_vars
  BY StepTyped DEF IdKept
<1> QED BY TypeCorrect, <1>1, PTL DEF Spec, SessionIdFixed

=============================================================================
