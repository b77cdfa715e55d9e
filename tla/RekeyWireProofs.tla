-------------------------- MODULE RekeyWireProofs --------------------------
(***************************************************************************)
(* What crosses in a key exchange, for every bound: which packets can be   *)
(* under way in each pair of Kex states, under which keys, and what the    *)
(* two sessions know of each other.  From this inductive invariant follow  *)
(* the safety properties of Rekey: no packet meets the wrong key, the      *)
(* server's signature is always accepted, session ids agree, enc.exchange  *)
(* is kept, and the ways in which a session can fail.                      *)
(***************************************************************************)
EXTENDS RekeyProofs

USE DEF Side, Peer, Stage, Status, PacketType

-----------------------------------------------------------------------------
(* What may be under way.  A stream is n NEWKEYS (0 or 1), then CONN        *)
(* packets with at most one KEXINIT, at place k (0: none), then the         *)
(* handshake packets e.  NEWKEYS is sealed with the first key, everything   *)
(* behind it with the next one.                                             *)

TypeAt(w, n, k, e, i) ==
    IF i <= n THEN "NEWKEYS"
    ELSE IF i = k THEN "KEXINIT"
    ELSE IF i <= Len(w) - Len(e) THEN "CONN"
    ELSE e[i - (Len(w) - Len(e))]

Stream(w, n, k, e, first, next) ==
    /\ n + Len(e) <= Len(w)
    /\ k # 0 => n < k /\ k <= Len(w) - Len(e)
    /\ \A i \in 1..Len(w) :
          /\ w[i].type = TypeAt(w, n, k, e, i)
          /\ w[i].sealed = IF i <= n THEN first ELSE next

(* One side has its new keys in use, the other has computed them and waits  *)
(* for the NEWKEYS under way.                                               *)
ClientAhead(c, s) == c.kex \in {"None", "KexInit"} /\ s.kex = "NewKeys"
ServerAhead(c, s) == s.kex \in {"None", "KexInit"} /\ c.kex = "NewKeys"

(* From the client to the server.  late[r] is whether r may have answered   *)
(* a packet behind the KEXINIT of its re-exchange under way.                *)
UpNewKeys(c, s) == IF s.kex = "NewKeys" /\ c.kex # "KexDhDone" THEN 1 ELSE 0

UpKexInit(c, s) ==
    \/ c.kex = "KexInit" /\ s.kex # "KexDh"
    \/ c.kex = "KexDhDone" /\ s.kex = "KexInit"

UpEnd(c, s) ==
    IF c.kex = "KexDhDone" /\ s.kex # "NewKeys" THEN <<"ECDH_INIT">> ELSE <<>>

UpKey(c, s) == IF UpNewKeys(c, s) = 1 THEN s.newkeys.cipher ELSE s.cipher

UpAt(c, s, u, late, k) ==
    /\ Stream(u, UpNewKeys(c, s), k, UpEnd(c, s), s.cipher, UpKey(c, s))
    /\ k # 0 <=> UpKexInit(c, s)
    /\ c.kex = "NewKeys" \/ (c.kex = "KexDhDone" /\ s.kex = "NewKeys")
         => Len(u) = UpNewKeys(c, s)
    /\ c.kex \in {"KexInit", "KexDhDone"} /\ Len(u) - Len(UpEnd(c, s)) > k => late["client"]
    /\ k # 0 => c.exchange.client_kex_init = <<u[k].value>>
    /\ UpEnd(c, s) # <<>> => c.exchange.client_ephemeral = <<u[Len(u)].value>>

Up(c, s, u, late) == s.status = "up" => \E k \in 0..Len(u) : UpAt(c, s, u, late, k)

(* From the server to the client. *)
DownNewKeys(c) == IF c.kex = "NewKeys" THEN 1 ELSE 0

DownKexInit(c, s) ==
    \/ s.kex = "KexInit" /\ c.kex # "KexDhDone"
    \/ s.kex = "KexDh" /\ c.kex = "KexInit"

DownEnd(c, s) ==
    IF c.kex = "KexDhDone" /\ s.kex = "NewKeys"
    THEN <<"ECDH_REPLY", "NEWKEYS">> ELSE <<>>

DownKey(c) == IF c.kex = "NewKeys" THEN c.newkeys.cipher ELSE c.cipher

DownAt(c, s, d, late, k) ==
    /\ Stream(d, DownNewKeys(c), k, DownEnd(c, s), c.cipher, DownKey(c))
    /\ k # 0 <=> DownKexInit(c, s)
    /\ s.kex = "NewKeys" /\ c.kex # "KexDhDone" => Len(d) = DownNewKeys(c)
    /\ c.kex = "KexDhDone" \/ k # 0 => (Len(d) - Len(DownEnd(c, s)) > k => late["server"])
    /\ k # 0 => s.exchange.server_kex_init = <<d[k].value>>
    /\ DownEnd(c, s) # <<>> =>
          /\ s.exchange.server_ephemeral = <<d[Len(d) - 1].value>>
          /\ d[Len(d) - 1].signed = s.exchange

Down(c, s, d, late) == c.status = "up" => \E k \in 0..Len(d) : DownAt(c, s, d, late, k)

-----------------------------------------------------------------------------
(* How the two sessions agree. *)

PhasesMatch(c, s) ==
    /\ s.kex = "KexDh" => c.kex \in {"KexInit", "KexDhDone"}
    /\ s.kex = "None" => c.kex # "KexDhDone"

KeysMatch(c, s) ==
    /\ ClientAhead(c, s) => c.cipher = s.newkeys.cipher
    /\ ServerAhead(c, s) => s.cipher = c.newkeys.cipher
    /\ ~ClientAhead(c, s) /\ ~ServerAhead(c, s) => c.cipher = s.cipher
    /\ c.kex = "NewKeys" /\ s.kex = "NewKeys" => c.newkeys.cipher = s.newkeys.cipher

IdsMatch(c, s) ==
    /\ c.encrypted /\ s.encrypted => c.session_id = s.session_id
    /\ ClientAhead(c, s) =>
          c.encrypted /\ (~s.encrypted => s.newkeys.session_id = c.session_id)
    /\ ServerAhead(c, s) =>
          s.encrypted /\ (~c.encrypted => c.newkeys.session_id = s.session_id)
    /\ ~ClientAhead(c, s) /\ ~ServerAhead(c, s) => c.encrypted = s.encrypted
    /\ c.kex = "NewKeys" /\ s.kex = "NewKeys" /\ ~c.encrypted
          => c.newkeys.session_id = s.newkeys.session_id

ExchangesMatch(c, s) ==
    /\ c.kex = "KexInit" =>
          /\ c.exchange.server_kex_init = <<>>
          /\ c.exchange.client_ephemeral = <<>>
          /\ c.exchange.server_ephemeral = <<>>
    /\ s.kex = "KexInit" =>
          /\ s.exchange.client_kex_init = <<>>
          /\ s.exchange.client_ephemeral = <<>>
          /\ s.exchange.server_ephemeral = <<>>
    /\ s.kex = "KexDh" =>
          /\ s.exchange.client_kex_init = c.exchange.client_kex_init
          /\ s.exchange.client_ephemeral = <<>>
          /\ s.exchange.server_ephemeral = <<>>
    /\ c.kex = "KexDhDone" =>
          /\ c.exchange.server_kex_init = s.exchange.server_kex_init
          /\ c.exchange.server_ephemeral = <<>>
    /\ c.kex = "KexDhDone" /\ s.kex = "NewKeys" =>
          /\ c.exchange.client_kex_init = s.exchange.client_kex_init
          /\ c.exchange.client_ephemeral = s.exchange.client_ephemeral
          /\ s.newkeys.cipher = s.exchange
          /\ ~s.encrypted => s.newkeys.session_id = s.exchange

(* enc.exchange rests with an encrypted session that is not re-exchanging;  *)
(* only the limits make a server ask for a re-exchange.                     *)
Parked(ep) ==
    /\ ep.parked <=> ep.encrypted /\ ep.kex = "None"
    /\ ep.kex = "None" => ep.encrypted

Agree(c, s) ==
    /\ PhasesMatch(c, s) /\ KeysMatch(c, s) /\ IdsMatch(c, s) /\ ExchangesMatch(c, s)
    /\ Parked(c) /\ Parked(s)
    /\ s.kex = "KexInit" /\ s.encrypted => s.over

Linked(c, s, u, d, late) ==
    /\ Agree(c, s) /\ Up(c, s, u, late) /\ Down(c, s, d, late)
    /\ late["server"] => s.over

(* How sessions end: each failure leaves both sides where it was found. *)
Ends(c, s, late) ==
    /\ c.status \in {"up", "closed", "Kex", "Inconsistent"}
    /\ s.status \in {"up", "closed", "panic"}
    /\ c.status = "Kex" => c.kex = "None" /\ s.kex = "KexInit" /\ s.over
    /\ c.status = "Inconsistent" => c.kex = "KexDhDone" /\ late["server"] /\ s.over
    /\ s.status = "panic" => s.kex = "KexDh" /\ late["client"]
    /\ c.status = "closed" \/ s.status = "closed"
          => c.status \in {"Kex", "Inconsistent"} \/ s.status = "panic"

IInv ==
    /\ TypeOK
    /\ \A r \in Side : behind[r] => CrossingAnswers
    /\ ServerLimits = 0 => limits["server"] = 0 /\ ~session["server"].over
    /\ Linked(session["client"], session["server"], wire["client"], wire["server"], behind)
    /\ Ends(session["client"], session["server"], behind)

-----------------------------------------------------------------------------
(* Streams under reading and writing. *)

Ends3 == {<<>>, <<"ECDH_INIT">>, <<"ECDH_REPLY", "NEWKEYS">>}

(* The place of KEXINIT after one packet was read. *)
Before(k) == IF k = 0 THEN 0 ELSE k - 1

LEMMA EndLengths ==
    /\ Len(<<>>) = 0
    /\ Len(<<"ECDH_INIT">>) = 1 /\ <<"ECDH_INIT">>[1] = "ECDH_INIT"
    /\ Len(<<"ECDH_REPLY", "NEWKEYS">>) = 2
    /\ <<"ECDH_REPLY", "NEWKEYS">>[1] = "ECDH_REPLY"
    /\ <<"ECDH_REPLY", "NEWKEYS">>[2] = "NEWKEYS"
OBVIOUS

LEMMA TailFacts ==
    ASSUME NEW w \in Seq(Packet), w # <<>>
    PROVE  /\ Tail(w) \in Seq(Packet)
           /\ Len(w) \in Nat \ {0}
           /\ Len(Tail(w)) = Len(w) - 1
           /\ \A i \in 1..Len(Tail(w)) : Tail(w)[i] = w[i + 1]
           /\ Head(w) = w[1] /\ Head(w) \in Packet
OBVIOUS

LEMMA AppendFacts ==
    ASSUME NEW w \in Seq(Packet), NEW p \in Packet
    PROVE  /\ w \o <<p>> \in Seq(Packet)
           /\ Len(w) \in Nat
           /\ Len(w \o <<p>>) = Len(w) + 1
           /\ \A i \in 1..Len(w) : (w \o <<p>>)[i] = w[i]
           /\ (w \o <<p>>)[Len(w) + 1] = p
OBVIOUS

(* Reading any packet but the first of the handshake packets at the end. *)
LEMMA StreamTail ==
    ASSUME NEW w \in Seq(Packet), w # <<>>, NEW n \in 0..1, NEW k \in 0..Len(w),
           NEW e \in Ends3, NEW first, NEW next, NEW any,
           Stream(w, n, k, e, first, next), n = 1 \/ Len(w) > Len(e)
    PROVE  Stream(Tail(w), 0, Before(k), e, any, next)
<1>1. /\ Len(w) \in Nat \ {0} /\ Len(Tail(w)) = Len(w) - 1
      /\ \A i \in 1..Len(Tail(w)) : Tail(w)[i] = w[i + 1]
  BY TailFacts
<1>2. Len(e) \in Nat /\ n + Len(e) <= Len(w) /\ Len(e) < Len(w)
  BY EndLengths DEF Stream, Ends3
<1>3. ASSUME NEW i \in 1..Len(Tail(w))
      PROVE  TypeAt(Tail(w), 0, Before(k), e, i) = TypeAt(w, n, k, e, i + 1)
  <2>1. i - (Len(Tail(w)) - Len(e)) = i + 1 - (Len(w) - Len(e))
    BY <1>1, <1>2
  <2>2. ~(i <= 0) /\ ~(i + 1 <= n)
    BY <1>1
  <2>3. i = Before(k) <=> i + 1 = k
    BY <1>1 DEF Before
  <2>4. i <= Len(Tail(w)) - Len(e) <=> i + 1 <= Len(w) - Len(e)
    BY <1>1, <1>2
  <2> QED BY <2>1, <2>2, <2>3, <2>4 DEF TypeAt
<1>4. ASSUME NEW i \in 1..Len(Tail(w))
      PROVE  /\ Tail(w)[i].type = TypeAt(Tail(w), 0, Before(k), e, i)
             /\ Tail(w)[i].sealed = IF i <= 0 THEN any ELSE next
  <2>1. i + 1 \in 1..Len(w) /\ Tail(w)[i] = w[i + 1] /\ ~(i + 1 <= n) /\ ~(i <= 0)
    BY <1>1
  <2>2. w[i + 1].type = TypeAt(w, n, k, e, i + 1) /\ w[i + 1].sealed = next
    BY <2>1 DEF Stream
  <2> QED BY <1>3, <2>1, <2>2
<1>5. 0 + Len(e) <= Len(Tail(w))
  BY <1>1, <1>2
<1>6. Before(k) # 0 => 0 < Before(k) /\ Before(k) <= Len(Tail(w)) - Len(e)
  BY <1>1, <1>2 DEF Before, Stream
<1> QED BY <1>4, <1>5, <1>6 DEF Stream

(* Reading ECDH_INIT, and ECDH_REPLY with NEWKEYS behind it. *)
LEMMA StreamEndTail ==
    ASSUME NEW w \in Seq(Packet), w # <<>>, NEW first, NEW next, NEW any
    PROVE  /\ Stream(w, 0, 0, <<"ECDH_INIT">>, first, next) /\ Len(w) = 1
                => Stream(Tail(w), 0, 0, <<>>, any, next)
           /\ Stream(w, 0, 0, <<"ECDH_REPLY", "NEWKEYS">>, first, next) /\ Len(w) = 2
                => Stream(Tail(w), 1, 0, <<>>, next, any)
<1>1. /\ Len(w) \in Nat \ {0} /\ Len(Tail(w)) = Len(w) - 1
      /\ \A i \in 1..Len(Tail(w)) : Tail(w)[i] = w[i + 1]
  BY TailFacts
<1> DEFINE t == Tail(w)
<1>2. Len(t) = Len(w) - 1 /\ \A i \in 1..Len(t) : t[i] = w[i + 1]
  BY <1>1
<1> HIDE DEF t
<1>3. ASSUME Len(w) = 1
      PROVE  Stream(t, 0, 0, <<>>, any, next)
  <2>1. Len(t) = 0 /\ 1..Len(t) = {}
    BY <1>2, <1>3
  <2> QED BY <2>1, EndLengths DEF Stream
<1>4. ASSUME Stream(w, 0, 0, <<"ECDH_REPLY", "NEWKEYS">>, first, next), Len(w) = 2
      PROVE  Stream(t, 1, 0, <<>>, next, any)
  <2>1. w[2].type = "NEWKEYS" /\ w[2].sealed = next
    BY <1>4, EndLengths DEF Stream, TypeAt
  <2>2. Len(t) = 1 /\ t[1] = w[2]
    BY <1>2, <1>4
  <2>3. 1..Len(t) = {1}
    BY <2>2
  <2> QED BY <2>1, <2>2, <2>3, EndLengths DEF Stream, TypeAt
<1> QED BY <1>3, <1>4 DEF t

(* Writing behind a stream that has no handshake packets at its end. *)
LEMMA StreamAppend ==
    ASSUME NEW w \in Seq(Packet), NEW n \in 0..1, NEW k \in 0..Len(w),
           NEW first, NEW next, NEW p \in Packet,
           Stream(w, n, k, <<>>, first, next), p.sealed = next
    PROVE  /\ p.type = "CONN" => Stream(w \o <<p>>, n, k, <<>>, first, next)
           /\ p.type = "KEXINIT" /\ k = 0
                => Stream(w \o <<p>>, n, Len(w) + 1, <<>>, first, next)
           /\ p.type = "ECDH_INIT"
                => Stream(w \o <<p>>, n, k, <<"ECDH_INIT">>, first, next)
<1> DEFINE v == w \o <<p>>
<1>1. /\ Len(w) \in Nat /\ Len(v) = Len(w) + 1
      /\ \A i \in 1..Len(w) : v[i] = w[i]
      /\ v[Len(w) + 1] = p
  BY AppendFacts
<1> HIDE DEF v
<1>2. /\ n <= Len(w)
      /\ k # 0 => n < k /\ k <= Len(w)
  BY EndLengths DEF Stream
<1>3. ASSUME NEW i \in 1..Len(v)
      PROVE  /\ i \in 1..Len(w) => v[i].type = TypeAt(w, n, k, <<>>, i)
             /\ i \notin 1..Len(w) => i = Len(w) + 1 /\ ~(i <= n) /\ v[i].type = p.type
             /\ v[i].sealed = IF i <= n THEN first ELSE next
  BY <1>1, <1>2 DEF Stream
<1>4. CASE p.type = "CONN"
  BY <1>1, <1>2, <1>3, <1>4, EndLengths DEF Stream, TypeAt
<1>5. CASE p.type = "KEXINIT" /\ k = 0
  BY <1>1, <1>2, <1>3, <1>5, EndLengths DEF Stream, TypeAt
<1>6. CASE p.type = "ECDH_INIT"
  BY <1>1, <1>2, <1>3, <1>6, EndLengths DEF Stream, TypeAt
<1> QED BY <1>4, <1>5, <1>6 DEF v

(* ECDH_REPLY and NEWKEYS leave together, NEWKEYS of the client alone. *)
LEMMA StreamReply ==
    ASSUME NEW w \in Seq(Packet), NEW first, NEW next, NEW p \in Packet, NEW q \in Packet,
           Stream(w, 0, 0, <<>>, first, next), p.sealed = next, q.sealed = next,
           p.type = "ECDH_REPLY", q.type = "NEWKEYS"
    PROVE  /\ w \o <<p, q>> \in Seq(Packet)
           /\ Len(w \o <<p, q>>) = Len(w) + 2
           /\ (w \o <<p, q>>)[Len(w) + 1] = p
           /\ Stream(w \o <<p, q>>, 0, 0, <<"ECDH_REPLY", "NEWKEYS">>, first, next)
<1> DEFINE v == w \o <<p, q>>
<1>1. /\ v \in Seq(Packet)
      /\ Len(w) \in Nat /\ Len(v) = Len(w) + 2
      /\ \A i \in 1..Len(w) : v[i] = w[i]
      /\ v[Len(w) + 1] = p /\ v[Len(w) + 2] = q
  OBVIOUS
<1> HIDE DEF v
<1>2. ASSUME NEW i \in 1..Len(v)
      PROVE  /\ v[i].type = TypeAt(v, 0, 0, <<"ECDH_REPLY", "NEWKEYS">>, i)
             /\ v[i].sealed = next
  <2>1. i \in 1..Len(w) => v[i].type = "CONN" /\ v[i].sealed = next
    BY <1>1, EndLengths DEF Stream, TypeAt
  <2>2. i \in 1..Len(w) \/ i = Len(w) + 1 \/ i = Len(w) + 2
    BY <1>1
  <2> QED BY <1>1, <2>1, <2>2, EndLengths DEF TypeAt
<1>3. Stream(v, 0, 0, <<"ECDH_REPLY", "NEWKEYS">>, first, next)
  BY <1>1, <1>2, EndLengths DEF Stream
<1> QED BY <1>1, <1>3 DEF v

LEMMA StreamNewKeys ==
    ASSUME NEW p \in Packet, p.type = "NEWKEYS", NEW next
    PROVE  /\ <<>> \o <<p>> = <<p>>
           /\ Stream(<<p>>, 1, 0, <<>>, p.sealed, next)
<1>1. Len(<<p>>) = 1 /\ <<p>>[1] = p
  OBVIOUS
<1>2. Stream(<<p>>, 1, 0, <<>>, p.sealed, next)
  BY <1>1, EndLengths DEF Stream, TypeAt
<1> QED BY <1>2

-----------------------------------------------------------------------------
(* Two sessions of the right types with two streams between them. *)
Pair(c, s, u, d) ==
    /\ Proper("client", c) /\ Proper("server", s)
    /\ u \in Seq(Packet) /\ d \in Seq(Packet)

(* ep1 is ep but for the Kex state, the transcript and what was drawn. *)
SameBut(ep, ep1) ==
    /\ ep1.encrypted = ep.encrypted /\ ep1.cipher = ep.cipher
    /\ ep1.session_id = ep.session_id /\ ep1.newkeys = ep.newkeys
    /\ ep1.over = ep.over /\ ep1.status = ep.status

(* A fresh KEXINIT on a transcript that was cleared. *)
LEMMA FreshKexInit ==
    ASSUME NEW s \in Side, NEW ep, Proper(s, ep)
    PROVE  LET ep1 == WriteKexInit(s, TakeExchange(ep))
               p   == KexInitPacket(ep1)
           IN  /\ Proper(s, ep1) /\ p \in Packet
               /\ SameBut(ep, ep1) /\ ~ep1.parked
               /\ ep1.exchange.client_ephemeral = <<>>
               /\ ep1.exchange.server_ephemeral = <<>>
               /\ p.type = "KEXINIT" /\ p.sealed = ep.cipher
               /\ s = "client" => /\ ep1.exchange.client_kex_init = <<p.value>>
                                  /\ ep1.exchange.server_kex_init = <<>>
               /\ s = "server" => /\ ep1.exchange.client_kex_init = <<>>
                                  /\ ep1.exchange.server_kex_init = <<p.value>>
               /\ ep1.kex = ep.kex
<1> DEFINE t == TakeExchange(ep)
           x == OwnKexInit(s, NoExchange, t.drawn + 1)
           ep1 == WriteKexInit(s, t)
           p   == KexInitPacket(ep1)
<1>1. t \in Endpoint /\ t = [ep EXCEPT !.parked = FALSE, !.exchange = NoExchange]
  BY TakeExchangeTyped DEF TakeExchange, Proper
<1>2. ep \in Endpoint /\ t.exchange = NoExchange /\ SameBut(ep, t) /\ ~t.parked
        /\ t.kex = ep.kex
  BY <1>1 DEF Proper, Endpoint, SameBut
<1>3. Proper(s, ep1)
  BY TakeExchangeTyped, WriteKexInitTyped
<1> HIDE DEF t
<1>4. ep1 = [t EXCEPT !.drawn = t.drawn + 1, !.exchange = x]
  BY <1>1, <1>2 DEF WriteKexInit, Endpoint
<1>5. /\ x.client_ephemeral = <<>> /\ x.server_ephemeral = <<>>
      /\ s = "client" => x.client_kex_init = <<t.drawn + 1>> /\ x.server_kex_init = <<>>
      /\ s = "server" => x.client_kex_init = <<>> /\ x.server_kex_init = <<t.drawn + 1>>
  BY DEF OwnKexInit, NoExchange
<1> HIDE DEF x
<1>6. /\ ep1.exchange = x /\ ep1.drawn = t.drawn + 1
      /\ SameBut(t, ep1) /\ ep1.parked = t.parked /\ ep1.kex = t.kex
  BY <1>1, <1>4 DEF Endpoint, SameBut
<1> HIDE DEF ep1
<1>7. p.type = "KEXINIT" /\ p.sealed = ep1.cipher /\ p.value = ep1.drawn
  BY DEF KexInitPacket, Sealed
<1>8. p \in Packet
  BY <1>3, KexInitPacketTyped DEF Proper
<1>9. SameBut(ep, ep1) /\ ~ep1.parked /\ ep1.cipher = ep.cipher
  BY <1>2, <1>6 DEF SameBut
<1> HIDE DEF p
<1>10. /\ Proper(s, ep1) /\ p \in Packet
       /\ SameBut(ep, ep1) /\ ~ep1.parked
       /\ ep1.exchange.client_ephemeral = <<>>
       /\ ep1.exchange.server_ephemeral = <<>>
       /\ p.type = "KEXINIT" /\ p.sealed = ep.cipher
       /\ s = "client" => /\ ep1.exchange.client_kex_init = <<p.value>>
                          /\ ep1.exchange.server_kex_init = <<>>
       /\ s = "server" => /\ ep1.exchange.client_kex_init = <<>>
                          /\ ep1.exchange.server_kex_init = <<p.value>>
       /\ ep1.kex = ep.kex
  BY <1>2, <1>3, <1>5, <1>6, <1>7, <1>8, <1>9
<1> QED BY <1>10 DEF ep1, p, t

(* What a flush of side s may do: nothing, or start a re-exchange. *)
LEMMA FlushCases ==
    ASSUME NEW s \in Side, NEW ep, Proper(s, ep), NEW w \in Seq(Packet)
    PROVE  \/ /\ Flushed(s, ep) = ep
              /\ w \o FlushedPackets(s, ep) = w
           \/ /\ ep.encrypted /\ ep.over /\ ep.kex = "None"
              /\ \E p \in Packet :
                    LET ep1 == Flushed(s, ep)
                    IN  /\ w \o FlushedPackets(s, ep) = w \o <<p>>
                        /\ SameBut(ep, ep1) /\ ~ep1.parked /\ ep1.kex = "KexInit"
                        /\ ep1.exchange.client_ephemeral = <<>>
                        /\ ep1.exchange.server_ephemeral = <<>>
                        /\ p.type = "KEXINIT" /\ p.sealed = ep.cipher
                        /\ s = "client" => /\ ep1.exchange.client_kex_init = <<p.value>>
                                           /\ ep1.exchange.server_kex_init = <<>>
                        /\ s = "server" => /\ ep1.exchange.client_kex_init = <<>>
                                           /\ ep1.exchange.server_kex_init = <<p.value>>
<1>1. CASE ~MustRekey(ep)
  <2>1. FlushedPackets(s, ep) = <<>> /\ Flushed(s, ep) = ep
    BY <1>1 DEF Flushed, FlushedPackets
  <2>2. w \o <<>> = w
    OBVIOUS
  <2> QED BY <2>1, <2>2
<1>2. CASE MustRekey(ep)
  <2> DEFINE ep0 == WriteKexInit(s, TakeExchange(ep))
             ep1 == InitiateRekey(s, ep)
             p   == KexInitPacket(ep1)
  <2>1. /\ Proper(s, ep0) /\ SameBut(ep, ep0) /\ ~ep0.parked
        /\ ep0.exchange.client_ephemeral = <<>>
        /\ ep0.exchange.server_ephemeral = <<>>
        /\ s = "client" => /\ ep0.exchange.client_kex_init = <<KexInitPacket(ep0).value>>
                           /\ ep0.exchange.server_kex_init = <<>>
        /\ s = "server" => /\ ep0.exchange.client_kex_init = <<>>
                           /\ ep0.exchange.server_kex_init = <<KexInitPacket(ep0).value>>
    BY FreshKexInit
  <2>2. ep1 = [ep0 EXCEPT !.kex = "KexInit"]
    BY DEF InitiateRekey
  <2> HIDE DEF ep0
  <2>3. /\ SameBut(ep0, ep1) /\ ep1.parked = ep0.parked /\ ep1.kex = "KexInit"
        /\ ep1.exchange = ep0.exchange /\ ep1.drawn = ep0.drawn
    BY <2>1, <2>2 DEF Proper, Endpoint, SameBut
  <2>4. ep1 \in Endpoint
    BY InitiateRekeyTyped DEF Proper
  <2> HIDE DEF ep1
  <2>5. /\ p.type = "KEXINIT" /\ p.sealed = ep1.cipher
        /\ p.value = KexInitPacket(ep0).value
    BY <2>3 DEF KexInitPacket, Sealed
  <2>6. p \in Packet
    BY <2>4, KexInitPacketTyped
  <2> HIDE DEF p
  <2>7. FlushedPackets(s, ep) = <<p>> /\ Flushed(s, ep) = ep1
    BY <1>2 DEF Flushed, FlushedPackets, ep1, p
  <2>8. ep.encrypted /\ ep.over /\ ep.kex = "None"
    BY <1>2 DEF MustRekey
  <2>9. SameBut(ep, ep1) /\ p.sealed = ep.cipher
    BY <2>1, <2>3, <2>5 DEF SameBut
  <2>10. /\ w \o FlushedPackets(s, ep) = w \o <<p>>
         /\ SameBut(ep, ep1) /\ ~ep1.parked /\ ep1.kex = "KexInit"
         /\ ep1.exchange.client_ephemeral = <<>>
         /\ ep1.exchange.server_ephemeral = <<>>
         /\ p.type = "KEXINIT" /\ p.sealed = ep.cipher
         /\ s = "client" => /\ ep1.exchange.client_kex_init = <<p.value>>
                            /\ ep1.exchange.server_kex_init = <<>>
         /\ s = "server" => /\ ep1.exchange.client_kex_init = <<>>
                            /\ ep1.exchange.server_kex_init = <<p.value>>
    BY <2>1, <2>3, <2>5, <2>7, <2>9
  <2> QED BY <2>6, <2>7, <2>8, <2>10
<1> QED BY <1>1, <1>2

(* The client starts a re-exchange. *)
LEMMA ClientFlush ==
    ASSUME NEW c, NEW s, NEW u, NEW d, Pair(c, s, u, d), NEW late,
           Linked(c, s, u, d, late)
    PROVE  Linked(Flushed("client", c), s, u \o FlushedPackets("client", c), d, late)
<1> DEFINE c1 == Flushed("client", c)
           u1 == u \o FlushedPackets("client", c)
           Starts == /\ c.encrypted /\ c.over /\ c.kex = "None"
                     /\ \E p \in Packet :
                          /\ u1 = u \o <<p>>
                          /\ SameBut(c, c1) /\ ~c1.parked /\ c1.kex = "KexInit"
                          /\ c1.exchange.client_ephemeral = <<>>
                          /\ c1.exchange.server_ephemeral = <<>>
                          /\ p.type = "KEXINIT" /\ p.sealed = c.cipher
                          /\ c1.exchange.client_kex_init = <<p.value>>
                          /\ c1.exchange.server_kex_init = <<>>
<1>1. /\ Proper("client", c) /\ Proper("server", s)
      /\ u \in Seq(Packet) /\ d \in Seq(Packet)
      /\ "client" \in Side
  BY DEF Pair
<1>2. CASE c1 = c /\ u1 = u
  BY <1>2
<1>3. CASE Starts
  <2> HIDE DEF c1, u1
  <2>1. PICK p \in Packet :
                /\ u1 = u \o <<p>>
                /\ SameBut(c, c1) /\ ~c1.parked /\ c1.kex = "KexInit"
                /\ c1.exchange.client_ephemeral = <<>>
                /\ c1.exchange.server_ephemeral = <<>>
                /\ p.type = "KEXINIT" /\ p.sealed = c.cipher
                /\ c1.exchange.client_kex_init = <<p.value>>
                /\ c1.exchange.server_kex_init = <<>>
    BY <1>3
  <2>2. s.kex \in {"None", "KexInit", "NewKeys"} /\ c.kex = "None" /\ c.encrypted
    BY <1>1, <1>3 DEF Linked, Agree, PhasesMatch, Proper, Endpoint
  <2>3. Agree(c, s)
    BY DEF Linked
  <2>4. Agree(c1, s)
    <3>1. PhasesMatch(c1, s)
      BY <2>1, <2>2 DEF PhasesMatch
    <3>2. KeysMatch(c1, s) /\ IdsMatch(c1, s)
      BY <2>1, <2>2, <2>3 DEF Agree, KeysMatch, IdsMatch, ClientAhead, ServerAhead, SameBut
    <3>3. ExchangesMatch(c1, s)
      BY <2>1, <2>2, <2>3 DEF Agree, ExchangesMatch
    <3>4. Parked(c1) /\ Parked(s) /\ (s.kex = "KexInit" /\ s.encrypted => s.over)
      BY <2>1, <2>3 DEF Agree, Parked
    <3> QED BY <3>1, <3>2, <3>3, <3>4 DEF Agree
  <2>5. Up(c1, s, u1, late)
    <3> SUFFICES ASSUME s.status = "up"
                 PROVE  \E k \in 0..Len(u1) : UpAt(c1, s, u1, late, k)
      BY DEF Up
    <3>1. PICK k \in 0..Len(u) : UpAt(c, s, u, late, k)
      BY DEF Linked, Up
    <3>2. k = 0 /\ UpEnd(c, s) = <<>> /\ UpEnd(c1, s) = <<>>
            /\ UpNewKeys(c1, s) = UpNewKeys(c, s) /\ UpNewKeys(c, s) \in 0..1
            /\ UpKey(c1, s) = UpKey(c, s) /\ UpKexInit(c1, s)
      BY <2>1, <2>2, <3>1 DEF UpAt, UpKexInit, UpEnd, UpNewKeys, UpKey
    <3>3. p.sealed = UpKey(c, s)
      BY <2>1, <2>2, <2>3 DEF Agree, KeysMatch, ClientAhead, ServerAhead, UpKey, UpNewKeys
    <3>4. Stream(u, UpNewKeys(c, s), 0, <<>>, s.cipher, UpKey(c, s))
      BY <3>1, <3>2 DEF UpAt
    <3>5. Stream(u1, UpNewKeys(c, s), Len(u) + 1, <<>>, s.cipher, UpKey(c, s))
      BY <1>1, <2>1, <3>2, <3>3, <3>4, StreamAppend, AppendFacts
    <3>6. Len(u) \in Nat /\ Len(u1) = Len(u) + 1 /\ u1[Len(u) + 1] = p
      BY <1>1, <2>1, AppendFacts
    <3>7. UpAt(c1, s, u1, late, Len(u) + 1)
      BY <2>1, <2>2, <3>2, <3>5, <3>6, EndLengths DEF UpAt
    <3> QED BY <3>6, <3>7
  <2>6. Down(c1, s, d, late)
    <3>1. ASSUME NEW k \in 0..Len(d), DownAt(c, s, d, late, k)
          PROVE  DownAt(c1, s, d, late, k)
      BY <2>1, <2>2, <3>1 DEF DownAt, DownNewKeys, DownKexInit, DownEnd, DownKey, SameBut
    <3> QED BY <2>1, <3>1 DEF Linked, Down, SameBut
  <2> QED BY <2>4, <2>5, <2>6 DEF Linked, c1, u1
<1>4. (c1 = c /\ u1 = u) \/ Starts
  <2>1. \/ c1 = c /\ u1 = u
        \/ /\ c.encrypted /\ c.over /\ c.kex = "None"
           /\ \E p \in Packet :
                     /\ u1 = u \o <<p>>
                     /\ SameBut(c, c1) /\ ~c1.parked /\ c1.kex = "KexInit"
                     /\ c1.exchange.client_ephemeral = <<>>
                     /\ c1.exchange.server_ephemeral = <<>>
                     /\ p.type = "KEXINIT" /\ p.sealed = c.cipher
                     /\ "client" = "client" => /\ c1.exchange.client_kex_init = <<p.value>>
                                            /\ c1.exchange.server_kex_init = <<>>
                     /\ "client" = "server" => /\ c1.exchange.client_kex_init = <<>>
                                            /\ c1.exchange.server_kex_init = <<p.value>>
    BY <1>1, FlushCases
  <2> HIDE DEF c1, u1
  <2> QED BY <2>1
<1> QED BY <1>2, <1>3, <1>4

(* The server starts a re-exchange. *)
LEMMA ServerFlush ==
    ASSUME NEW c, NEW s, NEW u, NEW d, Pair(c, s, u, d), NEW late,
           Linked(c, s, u, d, late)
    PROVE  Linked(c, Flushed("server", s), u, d \o FlushedPackets("server", s), late)
<1> DEFINE s1 == Flushed("server", s)
           d1 == d \o FlushedPackets("server", s)
           Starts == /\ s.encrypted /\ s.over /\ s.kex = "None"
                     /\ \E p \in Packet :
                          /\ d1 = d \o <<p>>
                          /\ SameBut(s, s1) /\ ~s1.parked /\ s1.kex = "KexInit"
                          /\ s1.exchange.client_ephemeral = <<>>
                          /\ s1.exchange.server_ephemeral = <<>>
                          /\ p.type = "KEXINIT" /\ p.sealed = s.cipher
                          /\ s1.exchange.client_kex_init = <<>>
                          /\ s1.exchange.server_kex_init = <<p.value>>
<1>1. /\ Proper("client", c) /\ Proper("server", s)
      /\ u \in Seq(Packet) /\ d \in Seq(Packet)
      /\ "server" \in Side
  BY DEF Pair
<1>2. CASE s1 = s /\ d1 = d
  BY <1>2
<1>3. CASE Starts
  <2> HIDE DEF s1, d1
  <2>1. PICK p \in Packet :
                /\ d1 = d \o <<p>>
                /\ SameBut(s, s1) /\ ~s1.parked /\ s1.kex = "KexInit"
                /\ s1.exchange.client_ephemeral = <<>>
                /\ s1.exchange.server_ephemeral = <<>>
                /\ p.type = "KEXINIT" /\ p.sealed = s.cipher
                /\ s1.exchange.client_kex_init = <<>>
                /\ s1.exchange.server_kex_init = <<p.value>>
    BY <1>3
  <2>2. c.kex \in {"None", "KexInit", "NewKeys"} /\ s.kex = "None" /\ s.encrypted /\ s.over
    BY <1>1, <1>3 DEF Linked, Agree, PhasesMatch, Proper, Endpoint
  <2>3. Agree(c, s)
    BY DEF Linked
  <2>4. Agree(c, s1)
    <3>1. PhasesMatch(c, s1)
      BY <2>1, <2>2 DEF PhasesMatch
    <3>2. KeysMatch(c, s1) /\ IdsMatch(c, s1)
      BY <2>1, <2>2, <2>3 DEF Agree, KeysMatch, IdsMatch, ClientAhead, ServerAhead, SameBut
    <3>3. ExchangesMatch(c, s1)
      BY <2>1, <2>2, <2>3 DEF Agree, ExchangesMatch
    <3>4. Parked(c) /\ Parked(s1) /\ s1.over
      BY <2>1, <2>2, <2>3 DEF Agree, Parked, SameBut
    <3> QED BY <3>1, <3>2, <3>3, <3>4 DEF Agree
  <2>5. Down(c, s1, d1, late)
    <3> SUFFICES ASSUME c.status = "up"
                 PROVE  \E k \in 0..Len(d1) : DownAt(c, s1, d1, late, k)
      BY DEF Down
    <3>1. PICK k \in 0..Len(d) : DownAt(c, s, d, late, k)
      BY DEF Linked, Down
    <3>2. k = 0 /\ DownEnd(c, s) = <<>> /\ DownEnd(c, s1) = <<>>
            /\ DownNewKeys(c) \in 0..1 /\ DownKexInit(c, s1)
      BY <2>1, <2>2, <3>1 DEF DownAt, DownKexInit, DownEnd, DownNewKeys
    <3>3. p.sealed = DownKey(c)
      BY <2>1, <2>2, <2>3 DEF Agree, KeysMatch, ClientAhead, ServerAhead, DownKey
    <3>4. Stream(d, DownNewKeys(c), 0, <<>>, c.cipher, DownKey(c))
      BY <3>1, <3>2 DEF DownAt
    <3>5. Stream(d1, DownNewKeys(c), Len(d) + 1, <<>>, c.cipher, DownKey(c))
      BY <1>1, <2>1, <3>2, <3>3, <3>4, StreamAppend, AppendFacts
    <3>6. Len(d) \in Nat /\ Len(d1) = Len(d) + 1 /\ d1[Len(d) + 1] = p
      BY <1>1, <2>1, AppendFacts
    <3>7. DownAt(c, s1, d1, late, Len(d) + 1)
      BY <2>1, <2>2, <3>2, <3>5, <3>6, EndLengths DEF DownAt
    <3> QED BY <3>6, <3>7
  <2>6. Up(c, s1, u, late)
    <3>1. ASSUME NEW k \in 0..Len(u), UpAt(c, s, u, late, k)
          PROVE  UpAt(c, s1, u, late, k)
      BY <2>1, <2>2, <3>1 DEF UpAt, UpNewKeys, UpKexInit, UpEnd, UpKey, SameBut
    <3> QED BY <2>1, <3>1 DEF Linked, Up, SameBut
  <2>7. late["server"] => s1.over
    BY <2>1 DEF Linked, SameBut
  <2> QED BY <2>4, <2>5, <2>6, <2>7 DEF Linked, s1, d1
<1>4. (s1 = s /\ d1 = d) \/ Starts
  <2>1. \/ s1 = s /\ d1 = d
        \/ /\ s.encrypted /\ s.over /\ s.kex = "None"
           /\ \E p \in Packet :
                     /\ d1 = d \o <<p>>
                     /\ SameBut(s, s1) /\ ~s1.parked /\ s1.kex = "KexInit"
                     /\ s1.exchange.client_ephemeral = <<>>
                     /\ s1.exchange.server_ephemeral = <<>>
                     /\ p.type = "KEXINIT" /\ p.sealed = s.cipher
                     /\ "server" = "client" => /\ s1.exchange.client_kex_init = <<p.value>>
                                            /\ s1.exchange.server_kex_init = <<>>
                     /\ "server" = "server" => /\ s1.exchange.client_kex_init = <<>>
                                            /\ s1.exchange.server_kex_init = <<p.value>>
    BY <1>1, FlushCases
  <2> HIDE DEF s1, d1
  <2> QED BY <2>1
<1> QED BY <1>2, <1>3, <1>4

-----------------------------------------------------------------------------
(* Packets of the other layers come and go. *)

LEMMA LateGrows ==
    ASSUME NEW c, NEW s, NEW u, NEW d, NEW late, NEW late1,
           late["client"] => late1["client"], late1["server"] = late["server"],
           Linked(c, s, u, d, late)
    PROVE  Linked(c, s, u, d, late1)
<1>1. Up(c, s, u, late1)
  BY DEF Linked, Up, UpAt
<1>2. Down(c, s, d, late1)
  BY DEF Linked, Down, DownAt
<1> QED BY <1>1, <1>2 DEF Linked

LEMMA ServerLateGrows ==
    ASSUME NEW c, NEW s, NEW u, NEW d, NEW late, NEW late1,
           late["server"] => late1["server"], late1["client"] = late["client"],
           late1["server"] => s.over, Linked(c, s, u, d, late)
    PROVE  Linked(c, s, u, d, late1)
<1>1. Up(c, s, u, late1)
  BY DEF Linked, Up, UpAt
<1>2. Down(c, s, d, late1)
  BY DEF Linked, Down, DownAt
<1> QED BY <1>1, <1>2 DEF Linked

LEMMA ClientTakesConn ==
    ASSUME NEW c, NEW s, NEW u, NEW d, Pair(c, s, u, d), NEW late,
           Linked(c, s, u, d, late), d # <<>>, Head(d).type # "KEXINIT",
           c.kex \in {"None", "KexInit"}
    PROVE  Linked(c, s, u, Tail(d), late)
<1>1. d \in Seq(Packet) /\ Tail(d) \in Seq(Packet) /\ Len(d) \in Nat \ {0}
        /\ Len(Tail(d)) = Len(d) - 1 /\ Head(d) = d[1]
        /\ \A i \in 1..Len(Tail(d)) : Tail(d)[i] = d[i + 1]
  BY TailFacts DEF Pair
<1>2. ASSUME NEW k \in 0..Len(d), DownAt(c, s, d, late, k)
      PROVE  Before(k) \in 0..Len(Tail(d)) /\ DownAt(c, s, Tail(d), late, Before(k))
  <2>1. DownNewKeys(c) = 0 /\ DownEnd(c, s) = <<>> /\ DownKey(c) = c.cipher
    BY DEF DownNewKeys, DownEnd, DownKey
  <2>2. Stream(d, 0, k, <<>>, c.cipher, c.cipher)
    BY <1>2, <2>1 DEF DownAt
  <2>3. k # 1
    BY <1>1, <2>2, EndLengths DEF Stream, TypeAt
  <2>4. Stream(Tail(d), 0, Before(k), <<>>, c.cipher, c.cipher)
    BY <1>1, <2>2, StreamTail, EndLengths DEF Ends3
  <2>5. /\ Before(k) \in 0..Len(Tail(d)) /\ (Before(k) # 0 <=> k # 0)
        /\ k # 0 => Tail(d)[Before(k)] = d[k]
        /\ Len(Tail(d)) - 0 > Before(k) => Len(d) - 0 > k
    BY <1>1, <2>3 DEF Before
  <2>6. s.kex = "NewKeys" /\ c.kex # "KexDhDone" => Len(d) = 0
    BY <1>2, <2>1 DEF DownAt
  <2> QED BY <1>1, <1>2, <2>1, <2>4, <2>5, <2>6, EndLengths DEF DownAt
<1> QED BY <1>2 DEF Linked, Down

LEMMA ClientSays ==
    ASSUME NEW c, NEW s, NEW u, NEW d, Pair(c, s, u, d), NEW late,
           Linked(c, s, u, d, late), c.kex \in {"None", "KexInit"},
           c.kex = "KexInit" => late["client"],
           NEW p \in Packet, p.type = "CONN", p.sealed = c.cipher
    PROVE  Linked(c, s, u \o <<p>>, d, late)
<1> DEFINE u1 == u \o <<p>>
<1>1. u \in Seq(Packet) /\ Len(u) \in Nat /\ Len(u1) = Len(u) + 1
        /\ \A i \in 1..Len(u) : u1[i] = u[i]
  BY AppendFacts DEF Pair
<1> HIDE DEF u1
<1>2. ASSUME NEW k \in 0..Len(u), UpAt(c, s, u, late, k)
      PROVE  k \in 0..Len(u1) /\ UpAt(c, s, u1, late, k)
  <2>1. UpEnd(c, s) = <<>> /\ UpNewKeys(c, s) \in 0..1
    BY DEF UpEnd, UpNewKeys
  <2>2. Stream(u, UpNewKeys(c, s), k, <<>>, s.cipher, UpKey(c, s))
    BY <1>2, <2>1 DEF UpAt
  <2>3. p.sealed = UpKey(c, s)
    BY DEF Linked, Agree, KeysMatch, ClientAhead, ServerAhead, UpKey, UpNewKeys
  <2>4. Stream(u1, UpNewKeys(c, s), k, <<>>, s.cipher, UpKey(c, s))
    BY <1>1, <2>1, <2>2, <2>3, StreamAppend DEF u1
  <2> QED BY <1>1, <1>2, <2>1, <2>4, EndLengths DEF UpAt
<1> QED BY <1>2 DEF Linked, Up, u1

LEMMA ServerTakesConn ==
    ASSUME NEW c, NEW s, NEW u, NEW d, Pair(c, s, u, d), NEW late,
           Linked(c, s, u, d, late), u # <<>>, Head(u).type # "KEXINIT",
           s.kex \in {"None", "KexInit"}
    PROVE  Linked(c, s, Tail(u), d, late)
<1>1. u \in Seq(Packet) /\ Tail(u) \in Seq(Packet) /\ Len(u) \in Nat \ {0}
        /\ Len(Tail(u)) = Len(u) - 1 /\ Head(u) = u[1]
        /\ \A i \in 1..Len(Tail(u)) : Tail(u)[i] = u[i + 1]
  BY TailFacts DEF Pair
<1>2. ASSUME NEW k \in 0..Len(u), UpAt(c, s, u, late, k)
      PROVE  Before(k) \in 0..Len(Tail(u)) /\ UpAt(c, s, Tail(u), late, Before(k))
  <2>1. UpNewKeys(c, s) = 0 /\ UpKey(c, s) = s.cipher
          /\ UpEnd(c, s) \in {<<>>, <<"ECDH_INIT">>}
          /\ Len(UpEnd(c, s)) \in 0..1
    BY EndLengths DEF UpNewKeys, UpEnd, UpKey
  <2>2. Stream(u, 0, k, UpEnd(c, s), s.cipher, s.cipher)
    BY <1>2, <2>1 DEF UpAt
  <2>3. k # 1
    BY <1>1, <2>2, EndLengths DEF Stream, TypeAt
  <2>4. UpEnd(c, s) # <<>> => k # 0 /\ Len(u) > 1
    <3>1. UpEnd(c, s) # <<>> => c.kex = "KexDhDone" /\ s.kex = "KexInit"
      BY DEF UpEnd, Linked, Agree, PhasesMatch
    <3>2. c.kex = "KexDhDone" /\ s.kex = "KexInit" => k # 0
      BY <1>2 DEF UpAt, UpKexInit
    <3> QED BY <1>1, <2>3, <3>1, <3>2
  <2>5. Len(u) > Len(UpEnd(c, s))
    <3>1. CASE UpEnd(c, s) = <<>>
      BY <1>1, <3>1, EndLengths
    <3>2. CASE UpEnd(c, s) # <<>>
      BY <1>1, <2>1, <2>4, <3>2
    <3> QED BY <3>1, <3>2
  <2>6. Stream(Tail(u), 0, Before(k), UpEnd(c, s), s.cipher, s.cipher)
    BY <1>1, <2>1, <2>2, <2>5, StreamTail DEF Ends3
  <2>7. /\ Before(k) \in 0..Len(Tail(u)) /\ (Before(k) # 0 <=> k # 0)
        /\ k # 0 => Tail(u)[Before(k)] = u[k]
        /\ Len(Tail(u)) - Len(UpEnd(c, s)) > Before(k) => Len(u) - Len(UpEnd(c, s)) > k
        /\ UpEnd(c, s) # <<>> => Tail(u)[Len(Tail(u))] = u[Len(u)]
    BY <1>1, <2>1, <2>3, <2>4 DEF Before
  <2>8. c.kex = "NewKeys" \/ (c.kex = "KexDhDone" /\ s.kex = "NewKeys") => Len(u) = 0
    BY <1>2, <2>1 DEF UpAt
  <2>9. Stream(Tail(u), UpNewKeys(c, s), Before(k), UpEnd(c, s), s.cipher, UpKey(c, s))
    BY <2>1, <2>6
  <2>10. /\ c.kex # "NewKeys" /\ ~(c.kex = "KexDhDone" /\ s.kex = "NewKeys")
         /\ c.kex \in {"KexInit", "KexDhDone"}
              /\ Len(Tail(u)) - Len(UpEnd(c, s)) > Before(k) => late["client"]
    BY <1>1, <1>2, <2>7, <2>8 DEF UpAt
  <2>11. /\ Before(k) # 0 => c.exchange.client_kex_init = <<Tail(u)[Before(k)].value>>
         /\ UpEnd(c, s) # <<>>
              => c.exchange.client_ephemeral = <<Tail(u)[Len(Tail(u))].value>>
         /\ Before(k) # 0 <=> UpKexInit(c, s)
    BY <1>2, <2>7 DEF UpAt
  <2> QED BY <2>7, <2>9, <2>10, <2>11 DEF UpAt
<1> QED BY <1>2 DEF Linked, Up

LEMMA ServerSays ==
    ASSUME NEW c, NEW s, NEW u, NEW d, Pair(c, s, u, d), NEW late,
           Linked(c, s, u, d, late), s.encrypted, s.kex \in {"None", "KexInit"},
           s.kex = "KexInit" => late["server"],
           NEW p \in Packet, p.type = "CONN", p.sealed = s.cipher
    PROVE  Linked(c, s, u, d \o <<p>>, late)
<1> DEFINE d1 == d \o <<p>>
<1>1. d \in Seq(Packet) /\ Len(d) \in Nat /\ Len(d1) = Len(d) + 1
        /\ \A i \in 1..Len(d) : d1[i] = d[i]
  BY AppendFacts DEF Pair
<1> HIDE DEF d1
<1>2. ASSUME NEW k \in 0..Len(d), DownAt(c, s, d, late, k)
      PROVE  k \in 0..Len(d1) /\ DownAt(c, s, d1, late, k)
  <2>1. DownEnd(c, s) = <<>> /\ DownNewKeys(c) \in 0..1
    BY DEF DownEnd, DownNewKeys
  <2>2. Stream(d, DownNewKeys(c), k, <<>>, c.cipher, DownKey(c))
    BY <1>2, <2>1 DEF DownAt
  <2>3. p.sealed = DownKey(c)
    BY DEF Linked, Agree, KeysMatch, ClientAhead, ServerAhead, DownKey
  <2>4. Stream(d1, DownNewKeys(c), k, <<>>, c.cipher, DownKey(c))
    BY <1>1, <2>1, <2>2, <2>3, StreamAppend DEF d1
  <2>5. c.kex = "KexDhDone" \/ k # 0 => late["server"]
    BY <1>2 DEF DownAt, DownKexInit, Linked, Agree, PhasesMatch
  <2> QED BY <1>1, <1>2, <2>1, <2>4, <2>5, EndLengths DEF DownAt
<1> QED BY <1>2 DEF Linked, Down, d1

-----------------------------------------------------------------------------
(* The packets of the key exchange that the client reads. *)

LEMMA ExchangeEqual ==
    ASSUME NEW x \in Exchange, NEW y \in Exchange,
           x.client_kex_init = y.client_kex_init, x.server_kex_init = y.server_kex_init,
           x.client_ephemeral = y.client_ephemeral, x.server_ephemeral = y.server_ephemeral
    PROVE  x = y
<1>1. \A z \in Exchange :
         z = [client_kex_init  |-> z.client_kex_init,  server_kex_init  |-> z.server_kex_init,
              client_ephemeral |-> z.client_ephemeral, server_ephemeral |-> z.server_ephemeral]
  BY DEF Exchange
<1> QED BY <1>1

LEMMA AppendToNone ==
    ASSUME NEW n \in Nat
    PROVE  Append(<<>>, n) = <<n>> /\ <<n>> \in Seq(Nat)
OBVIOUS

(* client_parse: the server's KEXINIT is answered by ECDH_INIT. *)
LEMMA ClientParseLinks ==
    ASSUME NEW c, NEW s, NEW u, NEW d, Pair(c, s, u, d), NEW late,
           Linked(c, s, u, d, late), c.status = "up", c.kex = "KexInit",
           d # <<>>, Head(d).type = "KEXINIT",
           NEW c1, c1 = ClientDh(c, Head(d).value),
           NEW p, p = Sealed(c1, "ECDH_INIT", c1.drawn, NoExchange), p \in Packet
    PROVE  Linked(c1, s, u \o <<p>>, Tail(d), late)
<1> DEFINE v == Head(d).value
           u1 == u \o <<p>>
<1>1. c \in Endpoint /\ s \in Endpoint /\ c.exchange \in Exchange /\ c.drawn \in Nat
        /\ s.kex # "KexDhDone"
  BY DEF Pair, Proper, Endpoint
<1>2. d \in Seq(Packet) /\ Tail(d) \in Seq(Packet) /\ Len(d) \in Nat \ {0}
        /\ Len(Tail(d)) = Len(d) - 1 /\ Head(d) = d[1] /\ Head(d) \in Packet
  BY TailFacts DEF Pair
<1>3. u \in Seq(Packet) /\ Len(u) \in Nat /\ Len(u1) = Len(u) + 1
        /\ u1[Len(u1)] = p
        /\ \A i \in 1..Len(u) : u1[i] = u[i]
  BY AppendFacts DEF Pair
<1>4. v \in Nat
  BY <1>2 DEF Packet
<1> HIDE DEF v, u1
<1>5. Agree(c, s)
  BY DEF Linked
<1>6. /\ SameBut(c, c1) /\ c1.kex = "KexDhDone" /\ c1.parked = c.parked
      /\ c1.exchange.client_kex_init = c.exchange.client_kex_init
      /\ c1.exchange.server_kex_init = <<v>>
      /\ c1.exchange.client_ephemeral = <<p.value>>
      /\ c1.exchange.server_ephemeral = <<>>
      /\ p.type = "ECDH_INIT" /\ p.sealed = c.cipher
  <2>1. Append(c.exchange.server_kex_init, v) = <<v>> /\ c.exchange.server_ephemeral = <<>>
    BY <1>4, <1>5, AppendToNone DEF Agree, ExchangesMatch
  <2> DEFINE x == [c.exchange EXCEPT !.server_kex_init = <<v>>,
                                     !.client_ephemeral = <<c.drawn + 1>>]
  <2>2. c1 = [c EXCEPT !.kex = "KexDhDone", !.drawn = c.drawn + 1, !.exchange = x]
    BY <1>1, <2>1 DEF ClientDh, v, Endpoint, Exchange
  <2>3. /\ x.client_kex_init = c.exchange.client_kex_init
        /\ x.server_kex_init = <<v>>
        /\ x.client_ephemeral = <<c.drawn + 1>>
        /\ x.server_ephemeral = <<>>
    BY <1>1, <2>1 DEF Exchange
  <2> HIDE DEF x
  <2>4. /\ SameBut(c, c1) /\ c1.kex = "KexDhDone" /\ c1.parked = c.parked
        /\ c1.exchange = x /\ c1.drawn = c.drawn + 1
    BY <1>1, <2>2 DEF SameBut, Endpoint
  <2>5. p.type = "ECDH_INIT" /\ p.sealed = c1.cipher /\ p.value = c1.drawn
    BY DEF Sealed
  <2> QED BY <2>3, <2>4, <2>5 DEF SameBut
<1>7. PICK k \in 0..Len(d) : DownAt(c, s, d, late, k)
  BY DEF Linked, Down
<1>8. Stream(d, 0, k, <<>>, c.cipher, c.cipher)
  BY <1>7 DEF DownAt, DownNewKeys, DownEnd, DownKey
<1>9. k = 1
  BY <1>2, <1>8, EndLengths DEF Stream, TypeAt
<1>10. /\ s.kex \in {"KexInit", "KexDh"}
       /\ s.exchange.server_kex_init = <<v>>
       /\ Len(d) > 1 => late["server"]
  BY <1>2, <1>7, <1>9, EndLengths DEF DownAt, DownKexInit, DownEnd, v
<1>11. Agree(c1, s)
  <2>1. PhasesMatch(c1, s)
    BY <1>6, <1>10 DEF PhasesMatch
  <2>2. KeysMatch(c1, s) /\ IdsMatch(c1, s)
    BY <1>5, <1>6, <1>10 DEF Agree, KeysMatch, IdsMatch, ClientAhead, ServerAhead, SameBut
  <2>3. ExchangesMatch(c1, s)
    BY <1>5, <1>6, <1>10 DEF Agree, ExchangesMatch
  <2>4. Parked(c1) /\ Parked(s) /\ (s.kex = "KexInit" /\ s.encrypted => s.over)
    BY <1>5, <1>6 DEF Agree, Parked, SameBut
  <2> QED BY <2>1, <2>2, <2>3, <2>4 DEF Agree
<1>12. Down(c1, s, Tail(d), late)
  <2>1. Stream(Tail(d), 0, 0, <<>>, c.cipher, c.cipher)
    <3>1. Stream(d, 0, 1, <<>>, c.cipher, c.cipher) /\ 1 \in 0..Len(d) /\ 0 \in 0..1
      BY <1>2, <1>8, <1>9
    <3>2. <<>> \in Ends3 /\ Len(d) > Len(<<>>) /\ Before(1) = 0
      BY <1>2, EndLengths DEF Ends3, Before
    <3> QED BY <1>2, <3>1, <3>2, StreamTail
  <2>2. DownAt(c1, s, Tail(d), late, 0)
    BY <1>2, <1>6, <1>10, <2>1, EndLengths
       DEF DownAt, DownNewKeys, DownKexInit, DownEnd, DownKey, SameBut
  <2> QED BY <1>2, <2>2 DEF Down
<1>13. Up(c1, s, u1, late)
  <2> SUFFICES ASSUME s.status = "up", NEW j \in 0..Len(u), UpAt(c, s, u, late, j)
               PROVE  UpAt(c1, s, u1, late, j) /\ j \in 0..Len(u1)
    BY <1>6 DEF Linked, Up
  <2>1. Stream(u, 0, j, <<>>, s.cipher, s.cipher)
    BY <1>10 DEF UpAt, UpNewKeys, UpEnd, UpKey
  <2>2. p.sealed = s.cipher
    BY <1>5, <1>6, <1>10 DEF Agree, KeysMatch, ClientAhead, ServerAhead
  <2>3. Stream(u1, 0, j, <<"ECDH_INIT">>, s.cipher, s.cipher)
    <3>1. 0 \in 0..1 /\ u \in Seq(Packet) /\ j \in 0..Len(u) /\ p \in Packet
      BY <1>3
    <3> QED BY <1>6, <2>1, <2>2, <3>1, StreamAppend DEF u1
  <2>4. /\ UpNewKeys(c1, s) = 0 /\ UpEnd(c1, s) = <<"ECDH_INIT">> /\ UpKey(c1, s) = s.cipher
        /\ UpEnd(c, s) = <<>> /\ (UpKexInit(c1, s) <=> UpKexInit(c, s))
    BY <1>6, <1>10 DEF UpNewKeys, UpEnd, UpKey, UpKexInit
  <2>5. Len(u) > j => late["client"]
    <3>1. Len(u) - Len(UpEnd(c, s)) > j => late["client"]
      BY DEF UpAt
    <3> QED BY <1>3, <2>4, <3>1, EndLengths
  <2>6. /\ (j # 0 <=> UpKexInit(c1, s))
        /\ j # 0 => c1.exchange.client_kex_init = <<u1[j].value>>
    BY <1>3, <1>6, <2>4 DEF UpAt
  <2>7. /\ c1.exchange.client_ephemeral = <<u1[Len(u1)].value>>
        /\ Len(u1) - Len(UpEnd(c1, s)) > j => late["client"]
    <3>1. Len(UpEnd(c1, s)) = 1
      BY <2>4, EndLengths
    <3>2. Len(u1) - Len(UpEnd(c1, s)) = Len(u)
      <4>1. Len(u) \in Nat /\ Len(u1) = Len(u) + 1
        BY <1>3
      <4>2. Len(u1) - 1 = Len(u)
        BY <4>1
      <4> QED BY <3>1, <4>2
    <3> QED BY <1>3, <1>6, <2>5, <3>2
  <2>8. UpAt(c1, s, u1, late, j)
    <3>1. Stream(u1, UpNewKeys(c1, s), j, UpEnd(c1, s), s.cipher, UpKey(c1, s))
      BY <2>3, <2>4
    <3>2. ~(c1.kex = "NewKeys" \/ (c1.kex = "KexDhDone" /\ s.kex = "NewKeys"))
      BY <1>6, <1>10
    <3> QED BY <2>6, <2>7, <3>1, <3>2 DEF UpAt
  <2>9. j \in 0..Len(u1)
    BY <1>3
  <2> QED BY <2>8, <2>9
<1> QED BY <1>11, <1>12, <1>13 DEF Linked, u1

(* What server_key_check computes, and the session it leaves. *)
ClientHash(ep, n) == [ep.exchange EXCEPT !.server_ephemeral = Append(@, n)]

KeyChecked(ep, hash) ==
    [ep EXCEPT !.kex = "NewKeys", !.exchange = hash, !.newkeys = ComputeKeys(ep, hash)]

(* server_key_check: the transcripts are the same, so the signature is      *)
(* accepted; NEWKEYS is the only packet on its way to the server.           *)
LEMMA ClientKeyCheckLinks ==
    ASSUME NEW c, NEW s, NEW u, NEW d, Pair(c, s, u, d), NEW late,
           Linked(c, s, u, d, late), c.status = "up", c.kex = "KexDhDone",
           d # <<>>, Head(d).type = "ECDH_REPLY",
           NEW hash, hash = ClientHash(c, Head(d).value),
           NEW c1, c1 = KeyChecked(c, hash)
    PROVE  /\ Head(d).signed = hash
           /\ Linked(c1, s, u \o <<Plain(c, "NEWKEYS")>>, Tail(d), late)
<1> DEFINE v == Head(d).value
           p == Plain(c, "NEWKEYS")
<1>1. c \in Endpoint /\ s \in Endpoint /\ c.exchange \in Exchange /\ s.exchange \in Exchange
        /\ s.kex # "KexDhDone"
  BY DEF Pair, Proper, Endpoint
<1>2. d \in Seq(Packet) /\ Tail(d) \in Seq(Packet) /\ Len(d) \in Nat \ {0}
        /\ Len(Tail(d)) = Len(d) - 1 /\ Head(d) = d[1] /\ Head(d) \in Packet
  BY TailFacts DEF Pair
<1>3. v \in Nat
  BY <1>2 DEF Packet
<1>4. p \in Packet /\ p.type = "NEWKEYS" /\ p.sealed = c.cipher
  BY <1>1, PlainTyped DEF Plain, Sealed
<1> HIDE DEF v, p
<1>5. Agree(c, s)
  BY DEF Linked
<1>6. PICK k \in 0..Len(d) : DownAt(c, s, d, late, k)
  BY DEF Linked, Down
<1>7. k = 0 /\ DownNewKeys(c) = 0 /\ DownKey(c) = c.cipher
  BY <1>6 DEF DownAt, DownKexInit, DownNewKeys, DownKey
<1>8. s.kex = "NewKeys" /\ DownEnd(c, s) = <<"ECDH_REPLY", "NEWKEYS">>
  <2>1. CASE DownEnd(c, s) = <<>>
    BY <1>2, <1>6, <1>7, <2>1, EndLengths DEF DownAt, Stream, TypeAt
  <2> QED BY <2>1 DEF DownEnd
<1>9. Stream(d, 0, 0, <<"ECDH_REPLY", "NEWKEYS">>, c.cipher, c.cipher)
  BY <1>6, <1>7, <1>8 DEF DownAt
<1>10. Len(d) = 2
  BY <1>2, <1>9, EndLengths DEF Stream, TypeAt
<1>11. s.exchange.server_ephemeral = <<v>> /\ Head(d).signed = s.exchange
  BY <1>2, <1>6, <1>8, <1>10 DEF DownAt, v
<1>12. hash = s.exchange
  <2>1. Append(c.exchange.server_ephemeral, v) = <<v>> /\ <<v>> \in Seq(Nat)
    BY <1>3, <1>5, AppendToNone DEF Agree, ExchangesMatch
  <2>2. hash = [c.exchange EXCEPT !.server_ephemeral = <<v>>]
    BY <1>1, <2>1 DEF ClientHash, v, Exchange
  <2>3. hash \in Exchange
    BY <1>1, <2>1, <2>2 DEF Exchange
  <2>4. /\ hash.client_kex_init = s.exchange.client_kex_init
        /\ hash.server_kex_init = s.exchange.server_kex_init
        /\ hash.client_ephemeral = s.exchange.client_ephemeral
        /\ hash.server_ephemeral = s.exchange.server_ephemeral
    BY <1>1, <1>5, <1>8, <1>11, <2>2 DEF Agree, ExchangesMatch, Exchange
  <2> QED BY <1>1, <2>3, <2>4, ExchangeEqual
<1>13. /\ c1.encrypted = c.encrypted /\ c1.cipher = c.cipher
       /\ c1.session_id = c.session_id /\ c1.status = c.status
       /\ c1.kex = "NewKeys" /\ c1.parked = c.parked
       /\ c1.newkeys.cipher = hash
       /\ ~c.encrypted => c1.newkeys.session_id = hash
  BY <1>1 DEF KeyChecked, Endpoint, ComputeKeys
<1>14. Agree(c1, s)
  <2>1. PhasesMatch(c1, s)
    BY <1>8, <1>13 DEF PhasesMatch
  <2>2. s.newkeys.cipher = s.exchange
    BY <1>5, <1>8 DEF Agree, ExchangesMatch
  <2>3. KeysMatch(c1, s)
    BY <1>5, <1>8, <1>12, <1>13, <2>2 DEF Agree, KeysMatch, ClientAhead, ServerAhead
  <2>4. IdsMatch(c1, s)
    BY <1>5, <1>8, <1>12, <1>13 DEF Agree, IdsMatch, ExchangesMatch, ClientAhead, ServerAhead
  <2>5. ExchangesMatch(c1, s)
    BY <1>8, <1>13 DEF ExchangesMatch
  <2>6. Parked(c1) /\ Parked(s) /\ (s.kex = "KexInit" /\ s.encrypted => s.over)
    BY <1>5, <1>13 DEF Agree, Parked
  <2> QED BY <2>1, <2>3, <2>4, <2>5, <2>6 DEF Agree
<1>15. Down(c1, s, Tail(d), late)
  <2>1. Stream(Tail(d), 1, 0, <<>>, c.cipher, c1.newkeys.cipher)
    BY <1>2, <1>9, <1>10, StreamEndTail
  <2>2. DownAt(c1, s, Tail(d), late, 0)
    BY <1>2, <1>8, <1>10, <1>13, <2>1, EndLengths
       DEF DownAt, DownNewKeys, DownKexInit, DownEnd, DownKey
  <2> QED BY <1>2, <2>2 DEF Down
<1>16. Up(c1, s, u \o <<p>>, late)
  <2> SUFFICES ASSUME s.status = "up"
               PROVE  UpAt(c1, s, <<p>>, late, 0) /\ u \o <<p>> = <<p>>
    <3>1. 0 \in 0..Len(<<p>>)
      OBVIOUS
    <3> QED BY <3>1 DEF Up
  <2>1. PICK j \in 0..Len(u) : UpAt(c, s, u, late, j)
    BY DEF Linked, Up
  <2>2. Len(u) = 0
    BY <1>8, <2>1 DEF UpAt, UpNewKeys
  <2>3. u = <<>>
    BY <2>2 DEF Pair
  <2>4. u \o <<p>> = <<p>>
    BY <1>4, <2>3, StreamNewKeys
  <2>5. c.cipher = s.cipher
    BY <1>5, <1>8 DEF Agree, KeysMatch, ClientAhead, ServerAhead
  <2>6. Stream(<<p>>, 1, 0, <<>>, s.cipher, s.newkeys.cipher)
    BY <1>4, <2>5, StreamNewKeys
  <2>7. Len(<<p>>) = 1
    OBVIOUS
  <2>8. UpNewKeys(c1, s) = 1 /\ UpKey(c1, s) = s.newkeys.cipher /\ UpEnd(c1, s) = <<>>
          /\ ~UpKexInit(c1, s)
    BY <1>8, <1>13 DEF UpNewKeys, UpKey, UpEnd, UpKexInit
  <2> QED BY <1>13, <2>4, <2>6, <2>7, <2>8, EndLengths DEF UpAt
<1> QED BY <1>11, <1>12, <1>14, <1>15, <1>16 DEF Linked, p

(* encrypted() and newkeys() of the client: the key under way is next. *)
LEMMA ClientNewKeysLinks ==
    ASSUME NEW c, NEW s, NEW u, NEW d, Pair(c, s, u, d), NEW late,
           Linked(c, s, u, d, late), c.status = "up", c.kex = "NewKeys", d # <<>>,
           NEW c1, c1.kex = "None", c1.parked, c1.encrypted,
           c1.cipher = c.newkeys.cipher, c1.status = c.status,
           c1.session_id = IF c.encrypted THEN c.session_id ELSE c.newkeys.session_id,
           NEW late1, late1["server"] = late["server"]
    PROVE  /\ Head(d).type = "NEWKEYS" /\ s.kex # "KexDh"
           /\ Linked(c1, s, u, Tail(d), late1)
<1>1. s \in Endpoint /\ s.kex # "KexDhDone" /\ c.encrypted \in BOOLEAN /\ s.encrypted \in BOOLEAN
  BY DEF Pair, Proper, Endpoint
<1>2. d \in Seq(Packet) /\ Tail(d) \in Seq(Packet) /\ Len(d) \in Nat \ {0}
        /\ Len(Tail(d)) = Len(d) - 1 /\ Head(d) = d[1]
        /\ \A i \in 1..Len(Tail(d)) : Tail(d)[i] = d[i + 1]
  BY TailFacts DEF Pair
<1>3. Agree(c, s)
  BY DEF Linked
<1>4. s.kex \in {"None", "KexInit", "NewKeys"}
  BY <1>1, <1>3 DEF Agree, PhasesMatch, Endpoint
<1>5. PICK k \in 0..Len(d) : DownAt(c, s, d, late, k)
  BY DEF Linked, Down
<1>6. DownNewKeys(c) = 1 /\ DownEnd(c, s) = <<>> /\ DownKey(c) = c.newkeys.cipher
  BY DEF DownNewKeys, DownEnd, DownKey
<1>7. Stream(d, 1, k, <<>>, c.cipher, c.newkeys.cipher)
  BY <1>5, <1>6 DEF DownAt
<1>8. Head(d).type = "NEWKEYS" /\ k # 1
  BY <1>2, <1>7, EndLengths DEF Stream, TypeAt
<1>9. Agree(c1, s)
  <2>1. PhasesMatch(c1, s)
    BY <1>4 DEF PhasesMatch
  <2>2. KeysMatch(c1, s)
    BY <1>3, <1>4 DEF Agree, KeysMatch, ClientAhead, ServerAhead
  <2>3. IdsMatch(c1, s)
    BY <1>1, <1>3, <1>4 DEF Agree, IdsMatch, ClientAhead, ServerAhead
  <2>4. ExchangesMatch(c1, s)
    BY <1>3, <1>4 DEF Agree, ExchangesMatch
  <2>5. Parked(c1) /\ Parked(s) /\ (s.kex = "KexInit" /\ s.encrypted => s.over)
    BY <1>3 DEF Agree, Parked
  <2> QED BY <2>1, <2>2, <2>3, <2>4, <2>5 DEF Agree
<1>10. Down(c1, s, Tail(d), late1)
  <2>1. Stream(Tail(d), 0, Before(k), <<>>, c1.cipher, c1.cipher)
    BY <1>2, <1>7, StreamTail, EndLengths DEF Ends3
  <2>2. /\ Before(k) \in 0..Len(Tail(d)) /\ (Before(k) # 0 <=> k # 0)
        /\ k # 0 => Tail(d)[Before(k)] = d[k]
        /\ Len(Tail(d)) - 0 > Before(k) /\ k # 0 => Len(d) - 0 > k
    BY <1>2, <1>8 DEF Before
  <2>3. s.kex = "NewKeys" => Len(d) = 1
    BY <1>5, <1>6 DEF DownAt
  <2>4. /\ DownNewKeys(c1) = 0 /\ DownEnd(c1, s) = <<>> /\ DownKey(c1) = c1.cipher
        /\ (DownKexInit(c1, s) <=> DownKexInit(c, s))
    BY <1>4 DEF DownNewKeys, DownEnd, DownKey, DownKexInit
  <2>5. DownAt(c1, s, Tail(d), late1, Before(k))
    BY <1>2, <1>5, <1>6, <2>1, <2>2, <2>3, <2>4, EndLengths DEF DownAt
  <2> QED BY <2>2, <2>5 DEF Down
<1>11. Up(c1, s, u, late1)
  <2> SUFFICES ASSUME s.status = "up", NEW j \in 0..Len(u), UpAt(c, s, u, late, j)
               PROVE  UpAt(c1, s, u, late1, j)
    BY DEF Linked, Up
  <2>1. /\ UpNewKeys(c1, s) = UpNewKeys(c, s) /\ UpEnd(c1, s) = UpEnd(c, s)
        /\ UpEnd(c1, s) = <<>>
        /\ UpKey(c1, s) = UpKey(c, s) /\ ~UpKexInit(c1, s) /\ ~UpKexInit(c, s)
    BY <1>4 DEF UpNewKeys, UpEnd, UpKey, UpKexInit
  <2> QED BY <2>1 DEF UpAt
<1> QED BY <1>4, <1>8, <1>9, <1>10, <1>11 DEF Linked

(* What the client refuses is a request that a server at its own limit has  *)
(* pending, and then enc.exchange is there, or data behind such a request.  *)
LEMMA ClientRefuses ==
    ASSUME NEW c, NEW s, NEW u, NEW d, Pair(c, s, u, d), NEW late,
           Linked(c, s, u, d, late), c.status = "up", d # <<>>
    PROVE  /\ c.encrypted /\ c.kex # "KexInit" /\ Head(d).type = "KEXINIT"
                => c.parked /\ c.kex = "None" /\ s.kex = "KexInit" /\ s.over
           /\ c.kex = "KexDhDone" /\ Head(d).type \notin {"ECDH_REPLY", "KEXINIT"}
                => late["server"] /\ s.over
<1>1. d \in Seq(Packet) /\ Len(d) \in Nat \ {0} /\ Head(d) = d[1]
        /\ c.kex \in Stage /\ c.kex # "KexDh"
  BY TailFacts DEF Pair, Proper, Endpoint
<1>2. Agree(c, s)
  BY DEF Linked
<1>3. PICK k \in 0..Len(d) : DownAt(c, s, d, late, k)
  BY DEF Linked, Down
<1>4. d[1].type = TypeAt(d, DownNewKeys(c), k, DownEnd(c, s), 1)
  BY <1>1, <1>3 DEF DownAt, Stream
<1>5. ASSUME c.encrypted, c.kex # "KexInit", Head(d).type = "KEXINIT"
      PROVE  c.parked /\ c.kex = "None" /\ s.kex = "KexInit" /\ s.over
  <2>1. k = 1
    <3>1. CASE DownEnd(c, s) = <<>>
      BY <1>1, <1>3, <1>4, <1>5, <3>1, EndLengths DEF TypeAt, DownAt, Stream
    <3>2. CASE DownEnd(c, s) = <<"ECDH_REPLY", "NEWKEYS">>
      <4>1. Len(d) >= 2
        BY <1>1, <1>3, <3>2, EndLengths DEF DownAt, Stream, DownNewKeys
      <4> QED BY <1>1, <1>4, <1>5, <3>2, <4>1, EndLengths DEF TypeAt
    <3> QED BY <3>1, <3>2 DEF DownEnd
  <2>2. c.kex = "None" /\ s.kex = "KexInit"
    BY <1>1, <1>3, <1>4, <1>5, <2>1 DEF DownAt, DownKexInit, TypeAt, DownNewKeys, Stream,
       Agree, PhasesMatch
  <2> QED BY <1>2, <1>5, <2>2 DEF Agree, Parked, IdsMatch, ClientAhead, ServerAhead
<1>6. ASSUME c.kex = "KexDhDone", Head(d).type \notin {"ECDH_REPLY", "KEXINIT"}
      PROVE  late["server"] /\ s.over
  <2>1. DownNewKeys(c) = 0 /\ k = 0
    BY <1>3, <1>6 DEF DownNewKeys, DownAt, DownKexInit
  <2>2. Len(d) > Len(DownEnd(c, s))
    <3>1. CASE DownEnd(c, s) = <<>>
      BY <1>1, <3>1, EndLengths
    <3>2. CASE DownEnd(c, s) = <<"ECDH_REPLY", "NEWKEYS">>
      <4>1. Len(d) >= 2
        BY <1>1, <1>3, <2>1, <3>2, EndLengths DEF DownAt, Stream
      <4> QED BY <1>1, <1>4, <1>6, <2>1, <3>2, <4>1, EndLengths DEF TypeAt
    <3> QED BY <3>1, <3>2 DEF DownEnd
  <2>3. Len(d) - Len(DownEnd(c, s)) > 0
    BY <1>1, <2>2, EndLengths DEF DownEnd
  <2> QED BY <1>3, <1>6, <2>1, <2>3 DEF DownAt, Linked
<1> QED BY <1>5, <1>6

-----------------------------------------------------------------------------
(* The packets of the key exchange that the server reads. *)

(* server_parse takes the client's KEXINIT into the transcript.             *)
LEMMA KexInitReceivedFields ==
    ASSUME NEW ep, Proper("server", ep), NEW n \in Nat,
           ep.exchange.client_kex_init = <<>>
    PROVE  LET ep1 == KexInitReceived(ep, n)
           IN  /\ SameBut(ep, ep1) /\ ep1.kex = "KexDh" /\ ep1.parked = ep.parked
               /\ ep1.exchange.client_kex_init = <<n>>
               /\ ep1.exchange.server_kex_init = ep.exchange.server_kex_init
               /\ ep1.exchange.client_ephemeral = ep.exchange.client_ephemeral
               /\ ep1.exchange.server_ephemeral = ep.exchange.server_ephemeral
<1> DEFINE ep1 == KexInitReceived(ep, n)
           x == [ep.exchange EXCEPT !.client_kex_init = <<n>>]
<1>1. ep \in Endpoint /\ ep.exchange \in Exchange
  BY DEF Proper, Endpoint
<1>2. Append(ep.exchange.client_kex_init, n) = <<n>>
  BY AppendToNone
<1>3. ep1 = [ep EXCEPT !.kex = "KexDh", !.exchange = x]
  BY <1>1, <1>2 DEF KexInitReceived, Endpoint, Exchange
<1>4. /\ x.client_kex_init = <<n>>
      /\ x.server_kex_init = ep.exchange.server_kex_init
      /\ x.client_ephemeral = ep.exchange.client_ephemeral
      /\ x.server_ephemeral = ep.exchange.server_ephemeral
  BY <1>1 DEF Exchange
<1> HIDE DEF x
<1>5. ep1.exchange = x /\ ep1.kex = "KexDh" /\ ep1.parked = ep.parked /\ SameBut(ep, ep1)
  BY <1>1, <1>3 DEF Endpoint, SameBut
<1> HIDE DEF ep1
<1>6. /\ SameBut(ep, ep1) /\ ep1.kex = "KexDh" /\ ep1.parked = ep.parked
      /\ ep1.exchange.client_kex_init = <<n>>
      /\ ep1.exchange.server_kex_init = ep.exchange.server_kex_init
      /\ ep1.exchange.client_ephemeral = ep.exchange.client_ephemeral
      /\ ep1.exchange.server_ephemeral = ep.exchange.server_ephemeral
  BY <1>4, <1>5
<1> QED BY <1>6 DEF ep1

(* What the server finds at the head of its stream. *)
LEMMA ServerHead ==
    ASSUME NEW c, NEW s, NEW u, NEW d, Pair(c, s, u, d), NEW late,
           Linked(c, s, u, d, late), u # <<>>, NEW k \in 0..Len(u),
           UpAt(c, s, u, late, k)
    PROVE  /\ Head(u).type = "KEXINIT" =>
                /\ k = 1 /\ UpKexInit(c, s) /\ UpNewKeys(c, s) = 0
                /\ c.exchange.client_kex_init = <<Head(u).value>>
                /\ Len(UpEnd(c, s)) + 1 <= Len(u)
           /\ Head(u).type = "ECDH_INIT" =>
                /\ k = 0 /\ Len(u) = 1 /\ UpEnd(c, s) = <<"ECDH_INIT">>
                /\ UpNewKeys(c, s) = 0
                /\ c.exchange.client_ephemeral = <<Head(u).value>>
           /\ Head(u).type = "NEWKEYS" <=> UpNewKeys(c, s) = 1
           /\ Head(u).type \notin {"KEXINIT", "ECDH_INIT", "NEWKEYS"} =>
                k # 1 /\ Len(u) - Len(UpEnd(c, s)) > 0
<1>1. u \in Seq(Packet) /\ Len(u) \in Nat \ {0} /\ Head(u) = u[1]
  BY TailFacts DEF Pair
<1>2. /\ Stream(u, UpNewKeys(c, s), k, UpEnd(c, s), s.cipher, UpKey(c, s))
      /\ u[1].type = TypeAt(u, UpNewKeys(c, s), k, UpEnd(c, s), 1)
  BY <1>1 DEF UpAt, Stream
<1>3. UpNewKeys(c, s) \in 0..1
  BY DEF UpNewKeys
<1>4. CASE UpEnd(c, s) = <<>>
  BY <1>1, <1>2, <1>3, <1>4, EndLengths DEF UpAt, Stream, TypeAt
<1>5. CASE UpEnd(c, s) = <<"ECDH_INIT">>
  <2>1. UpNewKeys(c, s) = 0
    BY <1>5 DEF UpEnd, UpNewKeys
  <2>2. Len(UpEnd(c, s)) = 1 /\ UpEnd(c, s)[1] = "ECDH_INIT"
    BY <1>5, EndLengths
  <2>3. /\ u[1].type = "ECDH_INIT" <=> Len(u) = 1
        /\ u[1].type = "KEXINIT" <=> k = 1
        /\ u[1].type \in {"ECDH_INIT", "KEXINIT", "CONN"}
        /\ k # 0 => k <= Len(u) - 1
    <3>1. u[1].type = TypeAt(u, 0, k, <<"ECDH_INIT">>, 1) /\ 0 + 1 <= Len(u)
            /\ (k # 0 => k <= Len(u) - 1)
      BY <1>2, <1>5, <2>1, <2>2 DEF Stream
    <3>2. /\ k = 1 => u[1].type = "KEXINIT"
          /\ k # 1 /\ 1 <= Len(u) - 1 => u[1].type = "CONN"
      BY <3>1, EndLengths DEF TypeAt
    <3>3. ASSUME Len(u) = 1
          PROVE  k = 0 /\ u[1].type = "ECDH_INIT"
      <4>1. k = 0 /\ ~(1 <= Len(u) - 1) /\ 1 - (Len(u) - 1) = 1
        BY <3>1, <3>3
      <4>2. u[1].type = <<"ECDH_INIT">>[1]
        BY <3>1, <4>1, EndLengths DEF TypeAt
      <4> QED BY <4>1, <4>2, EndLengths
    <3>4. Len(u) # 1 => 1 <= Len(u) - 1
      <4> DEFINE n == Len(u)
      <4>1. n \in Nat /\ n # 0
        BY <1>1
      <4> HIDE DEF n
      <4>2. n # 1 => 1 <= n - 1
        BY <4>1
      <4> QED BY <4>2 DEF n
    <3> QED BY <3>1, <3>2, <3>3, <3>4
  <2>4. c.exchange.client_ephemeral = <<u[Len(u)].value>>
    BY <1>5 DEF UpAt
  <2> QED BY <1>1, <1>5, <2>1, <2>2, <2>3, <2>4 DEF UpAt
<1> QED BY <1>4, <1>5 DEF UpEnd

(* The server reads the KEXINIT of a client that waits for ECDH_REPLY or    *)
(* for its own KEXINIT; the new KEXINIT, if any, has been written already.  *)
LEMMA KexInitTaken ==
    ASSUME NEW c, NEW s, NEW u, NEW d, Pair(c, s, u, d), NEW late,
           Linked(c, s, u, d, late), s.status = "up", u # <<>>, Head(u).type = "KEXINIT",
           s.kex \in {"None", "KexInit"},
           NEW s1, SameBut(s, s1), s1.kex = "KexDh"
    PROVE  Up(c, s1, Tail(u), late)
<1>1. u \in Seq(Packet) /\ Tail(u) \in Seq(Packet) /\ Len(u) \in Nat \ {0}
        /\ Len(Tail(u)) = Len(u) - 1 /\ Head(u) = u[1]
        /\ \A i \in 1..Len(Tail(u)) : Tail(u)[i] = u[i + 1]
  BY TailFacts DEF Pair
<1>2. PICK k \in 0..Len(u) : UpAt(c, s, u, late, k)
  BY DEF Linked, Up
<1>3. /\ k = 1 /\ UpKexInit(c, s) /\ UpNewKeys(c, s) = 0
      /\ Len(UpEnd(c, s)) + 1 <= Len(u)
  BY <1>2, ServerHead
<1>4. /\ UpEnd(c, s1) = UpEnd(c, s) /\ UpKey(c, s) = s.cipher /\ UpKey(c, s1) = s.cipher
      /\ UpNewKeys(c, s1) = 0 /\ ~UpKexInit(c, s1) /\ s1.cipher = s.cipher
      /\ c.kex \in {"KexInit", "KexDhDone"} /\ UpEnd(c, s) \in Ends3
      /\ Len(UpEnd(c, s)) \in 0..1
  BY <1>3, EndLengths DEF UpEnd, UpKey, UpNewKeys, UpKexInit, SameBut, Ends3
<1>5. Stream(u, 0, 1, UpEnd(c, s), s.cipher, s.cipher)
  BY <1>2, <1>3, <1>4 DEF UpAt
<1>6. Stream(Tail(u), 0, 0, UpEnd(c, s), s.cipher, s.cipher)
  <2>1. Before(1) = 0 /\ 1 \in 0..Len(u) /\ 0 \in 0..1 /\ Len(u) > Len(UpEnd(c, s))
    BY <1>1, <1>3, <1>4 DEF Before
  <2> QED BY <1>1, <1>4, <1>5, <2>1, StreamTail
<1>7. Len(Tail(u)) - Len(UpEnd(c, s)) > 0 => late["client"]
  <2>1. Len(u) - Len(UpEnd(c, s)) > 1 => late["client"]
    BY <1>2, <1>3, <1>4 DEF UpAt
  <2> QED BY <1>1, <1>4, <2>1
<1>8. UpEnd(c, s) # <<>> => c.exchange.client_ephemeral = <<Tail(u)[Len(Tail(u))].value>>
  <2>1. UpEnd(c, s) # <<>> => c.exchange.client_ephemeral = <<u[Len(u)].value>>
    BY <1>2 DEF UpAt
  <2>2. UpEnd(c, s) # <<>> => Len(UpEnd(c, s)) = 1
    BY EndLengths DEF UpEnd
  <2>3. Len(u) > 1 => Tail(u)[Len(Tail(u))] = u[Len(u)]
    BY <1>1
  <2> QED BY <1>1, <1>3, <2>1, <2>2, <2>3
<1>9. UpAt(c, s1, Tail(u), late, 0)
  <2>1. Stream(Tail(u), UpNewKeys(c, s1), 0, UpEnd(c, s1), s1.cipher, UpKey(c, s1))
    BY <1>4, <1>6
  <2>2. /\ ~(c.kex = "NewKeys" \/ (c.kex = "KexDhDone" /\ s1.kex = "NewKeys"))
        /\ Len(Tail(u)) - Len(UpEnd(c, s1)) > 0 => late["client"]
        /\ UpEnd(c, s1) # <<>> => c.exchange.client_ephemeral = <<Tail(u)[Len(Tail(u))].value>>
    BY <1>4, <1>7, <1>8
  <2> QED BY <1>4, <2>1, <2>2 DEF UpAt
<1> QED BY <1>1, <1>9 DEF Up

(* Both KEXINITs crossed. *)
LEMMA ServerParseLinks ==
    ASSUME NEW c, NEW s, NEW u, NEW d, Pair(c, s, u, d), NEW late,
           Linked(c, s, u, d, late), s.status = "up", s.kex = "KexInit",
           u # <<>>, Head(u).type = "KEXINIT"
    PROVE  /\ c.kex # "None"
           /\ Linked(c, KexInitReceived(s, Head(u).value), Tail(u), d, late)
<1> DEFINE v == Head(u).value
           s1 == KexInitReceived(s, v)
<1>1. Agree(c, s)
  BY DEF Linked
<1>2. PICK k \in 0..Len(u) : UpAt(c, s, u, late, k)
  BY DEF Linked, Up
<1>3. c.kex \in {"KexInit", "KexDhDone"} /\ c.exchange.client_kex_init = <<v>>
  BY <1>2, ServerHead DEF UpKexInit
<1>4. v \in Nat
  BY TailFacts DEF Pair, Packet
<1>5. /\ SameBut(s, s1) /\ s1.kex = "KexDh" /\ s1.parked = s.parked
      /\ s1.exchange.client_kex_init = <<v>>
      /\ s1.exchange.server_kex_init = s.exchange.server_kex_init
      /\ s1.exchange.client_ephemeral = <<>>
      /\ s1.exchange.server_ephemeral = <<>>
  BY <1>1, <1>4, KexInitReceivedFields DEF Pair, Agree, ExchangesMatch
<1> HIDE DEF v, s1
<1>6. Up(c, s1, Tail(u), late)
  BY <1>5, KexInitTaken
<1>7. Down(c, s1, d, late)
  <2>1. ASSUME NEW j \in 0..Len(d), DownAt(c, s, d, late, j)
        PROVE  DownAt(c, s1, d, late, j)
    BY <1>3, <1>5, <2>1 DEF DownAt, DownKexInit, DownEnd, SameBut
  <2> QED BY <2>1 DEF Linked, Down
<1>8. Agree(c, s1)
  <2>1. PhasesMatch(c, s1)
    BY <1>3, <1>5 DEF PhasesMatch
  <2>2. KeysMatch(c, s1) /\ IdsMatch(c, s1)
    BY <1>1, <1>3, <1>5 DEF Agree, KeysMatch, IdsMatch, ClientAhead, ServerAhead, SameBut
  <2>3. ExchangesMatch(c, s1)
    BY <1>1, <1>3, <1>5 DEF Agree, ExchangesMatch
  <2>4. Parked(c) /\ Parked(s1)
    BY <1>1, <1>5 DEF Agree, Parked, SameBut
  <2> QED BY <1>5, <2>1, <2>2, <2>3, <2>4 DEF Agree
<1>9. late["server"] => s1.over
  BY <1>5 DEF Linked, SameBut
<1> QED BY <1>3, <1>6, <1>7, <1>8, <1>9 DEF Linked, s1, v

(* received_rekey: the server had not sent its KEXINIT yet; enc.exchange is *)
(* there for it.                                                            *)
LEMMA ServerRekeyLinks ==
    ASSUME NEW c, NEW s, NEW u, NEW d, Pair(c, s, u, d), NEW late,
           Linked(c, s, u, d, late), s.status = "up", s.encrypted, s.kex # "KexInit",
           u # <<>>, Head(u).type = "KEXINIT",
           NEW s0, s0 = WriteKexInit("server", TakeExchange(s))
    PROVE  /\ s.parked
           /\ Linked(c, KexInitReceived(s0, Head(u).value), Tail(u),
                     d \o <<KexInitPacket(s0)>>, late)
<1> DEFINE v == Head(u).value
           p == KexInitPacket(s0)
           s1 == KexInitReceived(s0, v)
           d1 == d \o <<p>>
<1>1. Agree(c, s)
  BY DEF Linked
<1>2. PICK k \in 0..Len(u) : UpAt(c, s, u, late, k)
  BY DEF Linked, Up
<1>3. UpKexInit(c, s) /\ UpNewKeys(c, s) = 0 /\ c.exchange.client_kex_init = <<v>>
  BY <1>2, ServerHead
<1>4. c.kex = "KexInit" /\ s.kex = "None"
  BY <1>3 DEF UpKexInit, UpNewKeys, Pair, Proper, Endpoint
<1>5. s.parked
  BY <1>1, <1>4 DEF Agree, Parked
<1>6. v \in Nat
  BY TailFacts DEF Pair, Packet
<1>7. /\ Proper("server", s0) /\ p \in Packet
      /\ SameBut(s, s0) /\ ~s0.parked
      /\ s0.exchange.client_ephemeral = <<>>
      /\ s0.exchange.server_ephemeral = <<>>
      /\ p.type = "KEXINIT" /\ p.sealed = s.cipher
      /\ s0.exchange.client_kex_init = <<>>
      /\ s0.exchange.server_kex_init = <<p.value>>
  BY FreshKexInit DEF Pair
<1>8. /\ SameBut(s0, s1) /\ s1.kex = "KexDh" /\ ~s1.parked
      /\ s1.exchange.client_kex_init = <<v>>
      /\ s1.exchange.server_kex_init = <<p.value>>
      /\ s1.exchange.client_ephemeral = <<>>
      /\ s1.exchange.server_ephemeral = <<>>
  BY <1>6, <1>7, KexInitReceivedFields
<1>9. SameBut(s, s1)
  BY <1>7, <1>8 DEF SameBut
<1> HIDE DEF v, p, s1
<1>10. d \in Seq(Packet) /\ Len(d) \in Nat /\ Len(d1) = Len(d) + 1
        /\ d1[Len(d) + 1] = p
  BY <1>7, AppendFacts DEF Pair
<1> HIDE DEF d1
<1>11. Up(c, s1, Tail(u), late)
  BY <1>4, <1>8, <1>9, KexInitTaken
<1>12. Down(c, s1, d1, late)
  <2> SUFFICES ASSUME c.status = "up"
               PROVE  \E j \in 0..Len(d1) : DownAt(c, s1, d1, late, j)
    BY DEF Down
  <2>1. PICK j \in 0..Len(d) : DownAt(c, s, d, late, j)
    BY DEF Linked, Down
  <2>2. j = 0 /\ DownEnd(c, s) = <<>> /\ DownEnd(c, s1) = <<>>
          /\ DownNewKeys(c) = 0 /\ DownKexInit(c, s1) /\ DownKey(c) = c.cipher
    BY <1>4, <1>8, <2>1 DEF DownAt, DownKexInit, DownEnd, DownNewKeys, DownKey
  <2>3. p.sealed = c.cipher
    BY <1>1, <1>4, <1>7 DEF Agree, KeysMatch, ClientAhead, ServerAhead
  <2>4. Stream(d, 0, 0, <<>>, c.cipher, c.cipher)
    BY <2>1, <2>2 DEF DownAt
  <2>5. Stream(d1, 0, Len(d) + 1, <<>>, c.cipher, c.cipher)
    <3>1. 0 \in 0..1 /\ 0 \in 0..Len(d)
      BY <1>10
    <3> QED BY <1>7, <1>10, <2>3, <2>4, <3>1, StreamAppend DEF d1
  <2>6. DownAt(c, s1, d1, late, Len(d) + 1)
    BY <1>4, <1>8, <1>10, <2>2, <2>5, EndLengths DEF DownAt
  <2> QED BY <1>10, <2>6
<1>13. Agree(c, s1)
  <2>1. PhasesMatch(c, s1)
    BY <1>4, <1>8 DEF PhasesMatch
  <2>2. KeysMatch(c, s1) /\ IdsMatch(c, s1)
    BY <1>1, <1>4, <1>8, <1>9 DEF Agree, KeysMatch, IdsMatch, ClientAhead, ServerAhead, SameBut
  <2>3. ExchangesMatch(c, s1)
    BY <1>1, <1>3, <1>4, <1>8 DEF Agree, ExchangesMatch
  <2>4. Parked(c) /\ Parked(s1)
    BY <1>1, <1>8 DEF Agree, Parked
  <2> QED BY <1>8, <2>1, <2>2, <2>3, <2>4 DEF Agree
<1>14. late["server"] => s1.over
  BY <1>9 DEF Linked, SameBut
<1> QED BY <1>5, <1>11, <1>12, <1>13, <1>14 DEF Linked, v, p, s1, d1

(* KexDh::parse: the server's transcript is complete and signed; ECDH_REPLY *)
(* and NEWKEYS are the last packets under the old key.                      *)
LEMMA ServerDhLinks ==
    ASSUME NEW c, NEW s, NEW u, NEW d, Pair(c, s, u, d), NEW late,
           Linked(c, s, u, d, late), s.status = "up", s.kex = "KexDh",
           u # <<>>, Head(u).type = "ECDH_INIT",
           NEW hash, hash = ServerDhExchange(s, Head(u).value)
    PROVE  Linked(c, ServerDhDone(s, hash), Tail(u),
                  d \o <<Sealed(s, "ECDH_REPLY", s.drawn + 1, hash), Plain(s, "NEWKEYS")>>,
                  late)
<1> DEFINE v == Head(u).value
           s1 == ServerDhDone(s, hash)
           p == Sealed(s, "ECDH_REPLY", s.drawn + 1, hash)
           q == Plain(s, "NEWKEYS")
           d1 == d \o <<p, q>>
<1>1. s \in Endpoint /\ s.exchange \in Exchange /\ s.drawn + 1 \in Nat
  BY DEF Pair, Proper, Endpoint
<1>2. Agree(c, s)
  BY DEF Linked
<1>3. PICK k \in 0..Len(u) : UpAt(c, s, u, late, k)
  BY DEF Linked, Up
<1>4. k = 0 /\ Len(u) = 1 /\ UpEnd(c, s) = <<"ECDH_INIT">>
        /\ c.exchange.client_ephemeral = <<v>>
  BY <1>3, ServerHead
<1>5. c.kex = "KexDhDone"
  BY <1>4 DEF UpEnd
<1>6. v \in Nat
  BY TailFacts DEF Pair, Packet
<1>7. /\ hash \in Exchange
      /\ hash.client_kex_init = s.exchange.client_kex_init
      /\ hash.server_kex_init = s.exchange.server_kex_init
      /\ hash.client_ephemeral = <<v>>
      /\ hash.server_ephemeral = <<s.drawn + 1>>
  <2>1. Append(s.exchange.client_ephemeral, v) = <<v>> /\ <<v>> \in Seq(Nat)
    BY <1>2, <1>6, AppendToNone DEF Agree, ExchangesMatch
  <2>2. <<s.drawn + 1>> \in Seq(Nat)
    BY <1>1
  <2>3. hash = [s.exchange EXCEPT !.client_ephemeral = <<v>>,
                                  !.server_ephemeral = <<s.drawn + 1>>]
    BY <1>1, <2>1 DEF ServerDhExchange, v, Exchange
  <2> QED BY <1>1, <2>1, <2>2, <2>3 DEF Exchange
<1>8. /\ s1.encrypted = s.encrypted /\ s1.cipher = s.cipher /\ s1.session_id = s.session_id
      /\ s1.over = s.over /\ s1.status = s.status /\ s1.parked = s.parked
      /\ s1.kex = "NewKeys" /\ s1.exchange = hash
      /\ s1.newkeys.cipher = hash
      /\ ~s.encrypted => s1.newkeys.session_id = hash
  BY <1>1 DEF ServerDhDone, ComputeKeys, Endpoint
<1>9. /\ p \in Packet /\ p.type = "ECDH_REPLY" /\ p.sealed = s.cipher
      /\ p.value = s.drawn + 1 /\ p.signed = hash
      /\ q \in Packet /\ q.type = "NEWKEYS" /\ q.sealed = s.cipher
  BY <1>1, <1>7, SealedTyped, PlainTyped DEF Sealed, Plain
<1> HIDE DEF v, s1, p, q
<1>10. Agree(c, s1)
  <2>1. PhasesMatch(c, s1)
    BY <1>5, <1>8 DEF PhasesMatch
  <2>2. KeysMatch(c, s1) /\ IdsMatch(c, s1)
    BY <1>2, <1>5, <1>8 DEF Agree, KeysMatch, IdsMatch, ClientAhead, ServerAhead
  <2>3. ExchangesMatch(c, s1)
    BY <1>2, <1>4, <1>5, <1>7, <1>8 DEF Agree, ExchangesMatch
  <2>4. Parked(c) /\ Parked(s1)
    BY <1>2, <1>8 DEF Agree, Parked
  <2> QED BY <1>8, <2>1, <2>2, <2>3, <2>4 DEF Agree
<1>11. Up(c, s1, Tail(u), late)
  <2>1. u \in Seq(Packet) /\ Len(u) \in Nat \ {0} /\ Len(Tail(u)) = Len(u) - 1
    BY TailFacts DEF Pair
  <2>2. Stream(u, 0, 0, <<"ECDH_INIT">>, s.cipher, s.cipher)
    BY <1>3, <1>4 DEF UpAt, UpNewKeys, UpKey
  <2>3. Stream(Tail(u), 0, 0, <<>>, s.cipher, s.cipher)
    BY <1>4, <2>1, <2>2, StreamEndTail
  <2>4. UpAt(c, s1, Tail(u), late, 0)
    <3>1. /\ UpNewKeys(c, s1) = 0 /\ UpKey(c, s1) = s1.cipher /\ UpEnd(c, s1) = <<>>
          /\ ~UpKexInit(c, s1)
      BY <1>5, <1>8 DEF UpNewKeys, UpKey, UpEnd, UpKexInit
    <3>2. Len(Tail(u)) = 0 /\ Len(UpEnd(c, s1)) = 0
      BY <1>4, <2>1, <3>1, EndLengths
    <3>3. Stream(Tail(u), UpNewKeys(c, s1), 0, UpEnd(c, s1), s1.cipher, UpKey(c, s1))
      BY <1>8, <2>3, <3>1
    <3>4. /\ Len(Tail(u)) = UpNewKeys(c, s1)
          /\ ~(Len(Tail(u)) - Len(UpEnd(c, s1)) > 0)
      <4>1. ~(0 - 0 > 0)
        OBVIOUS
      <4> QED BY <3>1, <3>2, <4>1, Zenon
    <3> QED BY <3>1, <3>3, <3>4 DEF UpAt
  <2> QED BY <1>4, <2>1, <2>4 DEF Up
<1>12. Down(c, s1, d1, late)
  <2> SUFFICES ASSUME c.status = "up"
               PROVE  \E j \in 0..Len(d1) : DownAt(c, s1, d1, late, j)
    BY DEF Down
  <2>1. PICK j \in 0..Len(d) : DownAt(c, s, d, late, j)
    BY DEF Linked, Down
  <2>2. j = 0 /\ DownEnd(c, s) = <<>> /\ DownEnd(c, s1) = <<"ECDH_REPLY", "NEWKEYS">>
          /\ DownNewKeys(c) = 0 /\ ~DownKexInit(c, s1) /\ DownKey(c) = c.cipher
    BY <1>5, <1>8, <2>1 DEF DownAt, DownKexInit, DownEnd, DownNewKeys, DownKey
  <2>3. s.cipher = c.cipher
    BY <1>2, <1>5 DEF Agree, KeysMatch, ClientAhead, ServerAhead
  <2>4. Stream(d, 0, 0, <<>>, c.cipher, c.cipher) /\ d \in Seq(Packet) /\ Len(d) \in Nat
    BY <2>1, <2>2 DEF DownAt, Pair
  <2>5. /\ d1 \in Seq(Packet) /\ Len(d1) = Len(d) + 2 /\ d1[Len(d) + 1] = p
        /\ Stream(d1, 0, 0, <<"ECDH_REPLY", "NEWKEYS">>, c.cipher, c.cipher)
    BY <1>9, <2>3, <2>4, StreamReply
  <2> HIDE DEF d1
  <2>6. Len(d) > 0 => late["server"]
    BY <1>5, <2>1, <2>2, <2>4, EndLengths DEF DownAt
  <2>7. Len(d1) - Len(DownEnd(c, s1)) = Len(d) /\ Len(d1) - 1 = Len(d) + 1
          /\ 0 \in 0..Len(d1)
    BY <2>2, <2>4, <2>5, EndLengths
  <2>8. DownAt(c, s1, d1, late, 0)
    BY <1>5, <1>7, <1>8, <1>9, <2>2, <2>5, <2>6, <2>7 DEF DownAt
  <2> QED BY <2>7, <2>8
<1>13. late["server"] => s1.over
  BY <1>8 DEF Linked
<1> QED BY <1>10, <1>11, <1>12, <1>13 DEF Linked, s1, p, q

(* encrypted() and newkeys() of the server. *)
LEMMA ServerNewKeysLinks ==
    ASSUME NEW c, NEW s, NEW u, NEW d, Pair(c, s, u, d), NEW late,
           Linked(c, s, u, d, late), s.status = "up", s.kex = "NewKeys", u # <<>>,
           NEW s1, s1.kex = "None", s1.parked, s1.encrypted,
           s1.cipher = s.newkeys.cipher, s1.status = s.status, s1.over = s.over,
           s1.session_id = IF s.encrypted THEN s.session_id ELSE s.newkeys.session_id,
           NEW late1, late1["client"] = late["client"], ~late1["server"]
    PROVE  /\ Head(u).type = "NEWKEYS" /\ c.kex # "KexDhDone"
           /\ Linked(c, s1, Tail(u), d, late1)
<1>1. c.kex \in Stage /\ c.kex # "KexDh" /\ c.encrypted \in BOOLEAN /\ s.encrypted \in BOOLEAN
  BY DEF Pair, Proper, Endpoint
<1>2. u \in Seq(Packet) /\ Tail(u) \in Seq(Packet) /\ Len(u) \in Nat \ {0}
        /\ Len(Tail(u)) = Len(u) - 1 /\ Head(u) = u[1]
        /\ \A i \in 1..Len(Tail(u)) : Tail(u)[i] = u[i + 1]
  BY TailFacts DEF Pair
<1>3. Agree(c, s)
  BY DEF Linked
<1>4. PICK k \in 0..Len(u) : UpAt(c, s, u, late, k)
  BY DEF Linked, Up
<1>5. c.kex \in {"None", "KexInit", "NewKeys"}
  <2>1. ~(c.kex = "KexDhDone")
    BY <1>2, <1>4 DEF UpAt, UpNewKeys
  <2> QED BY <1>1, <2>1
<1>6. UpNewKeys(c, s) = 1 /\ UpEnd(c, s) = <<>> /\ UpKey(c, s) = s.newkeys.cipher
  BY <1>5 DEF UpNewKeys, UpEnd, UpKey
<1>7. Stream(u, 1, k, <<>>, s.cipher, s.newkeys.cipher)
  BY <1>4, <1>6 DEF UpAt
<1>8. Head(u).type = "NEWKEYS" /\ k # 1
  BY <1>2, <1>7, EndLengths DEF Stream, TypeAt
<1>9. Agree(c, s1)
  <2>1. PhasesMatch(c, s1)
    BY <1>5 DEF PhasesMatch
  <2>2. KeysMatch(c, s1)
    BY <1>3, <1>5 DEF Agree, KeysMatch, ClientAhead, ServerAhead
  <2>3. IdsMatch(c, s1)
    BY <1>1, <1>3, <1>5 DEF Agree, IdsMatch, ClientAhead, ServerAhead
  <2>4. ExchangesMatch(c, s1)
    BY <1>3, <1>5 DEF Agree, ExchangesMatch
  <2>5. Parked(c) /\ Parked(s1)
    BY <1>3 DEF Agree, Parked
  <2> QED BY <2>1, <2>2, <2>3, <2>4, <2>5 DEF Agree
<1>10. Up(c, s1, Tail(u), late1)
  <2>1. Stream(Tail(u), 0, Before(k), <<>>, s1.cipher, s1.cipher)
    BY <1>2, <1>7, StreamTail, EndLengths DEF Ends3
  <2>2. /\ Before(k) \in 0..Len(Tail(u)) /\ (Before(k) # 0 <=> k # 0)
        /\ k # 0 => Tail(u)[Before(k)] = u[k]
        /\ Len(Tail(u)) > Before(k) /\ k # 0 => Len(u) > k
    <3>1. k \in 0..Len(u) /\ k # 1 /\ Len(u) \in Nat \ {0} /\ Len(Tail(u)) = Len(u) - 1
      BY <1>2, <1>8
    <3>2. /\ Before(k) \in 0..Len(Tail(u)) /\ (Before(k) # 0 <=> k # 0)
          /\ k # 0 => Before(k) = k - 1 /\ k - 1 \in 1..Len(Tail(u))
          /\ Len(Tail(u)) > Before(k) /\ k # 0 => Len(u) > k
      BY <3>1 DEF Before
    <3>3. k # 0 => Tail(u)[k - 1] = u[k]
      BY <1>2, <3>1, <3>2
    <3> QED BY <3>2, <3>3
  <2>3. c.kex = "NewKeys" => Len(Tail(u)) = 0
    <3>1. c.kex = "NewKeys" => Len(u) = 1
      BY <1>4, <1>6 DEF UpAt
    <3>2. Len(Tail(u)) = Len(u) - 1
      BY <1>2
    <3>3. 1 - 1 = 0
      OBVIOUS
    <3> QED BY <3>1, <3>2, <3>3, Zenon
  <2>4. /\ UpNewKeys(c, s1) = 0 /\ UpEnd(c, s1) = <<>> /\ UpKey(c, s1) = s1.cipher
        /\ (UpKexInit(c, s1) <=> UpKexInit(c, s))
        /\ (UpKexInit(c, s) <=> c.kex = "KexInit")
    BY <1>5 DEF UpNewKeys, UpEnd, UpKey, UpKexInit
  <2>5. UpAt(c, s1, Tail(u), late1, Before(k))
    <3>1. c.kex = "KexInit" /\ Len(Tail(u)) - 0 > Before(k) => late["client"]
      <4>1. Len(u) - 0 > k /\ c.kex = "KexInit" => late["client"]
        BY <1>4, <1>6, EndLengths DEF UpAt
      <4>2. k # 0 <=> c.kex = "KexInit"
        BY <1>4, <2>4 DEF UpAt
      <4> QED BY <1>2, <2>2, <4>1, <4>2
    <3>2. k # 0 => c.exchange.client_kex_init = <<u[k].value>>
      BY <1>4 DEF UpAt
    <3>3. k # 0 <=> UpKexInit(c, s)
      BY <1>4 DEF UpAt
    <3> QED BY <1>5, <2>1, <2>2, <2>3, <2>4, <3>1, <3>2, <3>3, EndLengths DEF UpAt
  <2> QED BY <2>2, <2>5 DEF Up
<1>11. Down(c, s1, d, late1)
  <2> SUFFICES ASSUME c.status = "up", NEW j \in 0..Len(d), DownAt(c, s, d, late, j)
               PROVE  DownAt(c, s1, d, late1, j)
    BY DEF Linked, Down
  <2>1. /\ DownEnd(c, s1) = DownEnd(c, s) /\ DownEnd(c, s1) = <<>>
        /\ ~DownKexInit(c, s1) /\ ~DownKexInit(c, s)
    BY <1>5 DEF DownEnd, DownKexInit
  <2> QED BY <1>5, <2>1 DEF DownAt
<1> QED BY <1>5, <1>8, <1>9, <1>10, <1>11 DEF Linked

(* The assertion of KexDh::parse fails only on an answer of the client.     *)
LEMMA ServerPanics ==
    ASSUME NEW c, NEW s, NEW u, NEW d, Pair(c, s, u, d), NEW late,
           Linked(c, s, u, d, late), s.status = "up", s.kex = "KexDh", u # <<>>,
           Head(u).type \notin {"ECDH_INIT", "KEXINIT"}
    PROVE  late["client"]
<1>1. PICK k \in 0..Len(u) : UpAt(c, s, u, late, k)
  BY DEF Linked, Up
<1>2. c.kex \in {"KexInit", "KexDhDone"} /\ UpNewKeys(c, s) = 0 /\ ~UpKexInit(c, s)
  BY DEF Linked, Agree, PhasesMatch, UpNewKeys, UpKexInit
<1>3. Head(u).type # "NEWKEYS"
  BY <1>1, <1>2, ServerHead
<1>4. k = 0 /\ Len(u) - Len(UpEnd(c, s)) > 0
  BY <1>1, <1>2, <1>3, ServerHead DEF UpAt
<1> QED BY <1>1, <1>2, <1>4 DEF UpAt

-----------------------------------------------------------------------------
(* From the handlers to the iterations of the two loops. *)

(* ReadDone of the client: the handler, then the flush. *)
LEMMA ClientDone ==
    ASSUME ReadsTyped, NEW types, Reads("client", types),
           NEW ep, Proper("client", ep), ep.status = "up", NEW out \in Seq(Packet),
           ReadDone("client", ep, out), NEW late,
           Linked(ep, session["server"], wire["client"] \o out, Tail(wire["server"]), late)
    PROVE  /\ Linked(session'["client"], session'["server"], wire'["client"], wire'["server"],
                     late)
           /\ session'["client"].status = "up" /\ session'["server"] = session["server"]
<1> DEFINE s == session["server"]
           u == wire["client"]
           d == wire["server"]
<1>1. /\ session'["client"] = Flushed("client", ep)
      /\ session'["server"] = s
      /\ wire'["client"] = u \o out \o FlushedPackets("client", ep)
      /\ wire'["server"] = Tail(d)
  BY DEF ReadDone, ReadsTyped
<1>2. Tail(d) \in Seq(Packet) /\ u \in Seq(Packet) /\ Proper("server", s)
  BY HeadTyped DEF ReadsTyped
<1>3. u \o out \in Seq(Packet)
  BY <1>2, ConcatProperties
<1>4. Pair(ep, s, u \o out, Tail(d))
  BY <1>2, <1>3 DEF Pair
<1>5. Linked(Flushed("client", ep), s, u \o out \o FlushedPackets("client", ep), Tail(d), late)
  BY <1>4, ClientFlush
<1>6. Flushed("client", ep).status = "up"
  BY <1>3, FlushCases DEF SameBut
<1> QED BY <1>1, <1>5, <1>6

LEMMA ServerDone ==
    ASSUME ReadsTyped, NEW types, Reads("server", types),
           NEW ep, Proper("server", ep), ep.status = "up", NEW out \in Seq(Packet),
           ep.over = session["server"].over,
           ReadDone("server", ep, out), NEW late,
           Linked(session["client"], ep, Tail(wire["client"]), wire["server"] \o out, late)
    PROVE  /\ Linked(session'["client"], session'["server"], wire'["client"], wire'["server"],
                     late)
           /\ session'["server"].status = "up" /\ session'["client"] = session["client"]
           /\ session'["server"].over = session["server"].over
           /\ ep.kex # "None" => session'["server"].kex = ep.kex
<1> DEFINE c == session["client"]
           u == wire["client"]
           d == wire["server"]
<1>1. /\ session'["server"] = Flushed("server", ep)
      /\ session'["client"] = c
      /\ wire'["server"] = d \o out \o FlushedPackets("server", ep)
      /\ wire'["client"] = Tail(u)
  BY DEF ReadDone, ReadsTyped
<1>2. Tail(u) \in Seq(Packet) /\ d \in Seq(Packet) /\ Proper("client", c)
  BY HeadTyped DEF ReadsTyped
<1>3. d \o out \in Seq(Packet)
  BY <1>2, ConcatProperties
<1>4. Pair(c, ep, Tail(u), d \o out)
  BY <1>2, <1>3 DEF Pair
<1>5. Linked(c, Flushed("server", ep), Tail(u), d \o out \o FlushedPackets("server", ep), late)
  BY <1>4, ServerFlush
<1>6. Flushed("server", ep).status = "up" /\ Flushed("server", ep).over = ep.over
  BY <1>3, FlushCases DEF SameBut
<1>7. ep.kex # "None" => Flushed("server", ep) = ep
  BY DEF Flushed, MustRekey
<1> QED BY <1>1, <1>5, <1>6, <1>7

(* Agreement does not look at the status of a session. *)
LEMMA StatusAside ==
    ASSUME NEW c \in Endpoint, NEW s \in Endpoint, NEW u, NEW d, NEW late, NEW why,
           Linked(c, s, u, d, late)
    PROVE  /\ why # "up" => Linked([c EXCEPT !.status = why], s, u, d, late)
           /\ why # "up" => Linked(c, [s EXCEPT !.status = why], u, d, late)
<1>1. ASSUME NEW c1, c1 = [c EXCEPT !.status = why], why # "up"
      PROVE  Linked(c1, s, u, d, late)
  <2>1. /\ c1.kex = c.kex /\ c1.encrypted = c.encrypted /\ c1.exchange = c.exchange
        /\ c1.parked = c.parked /\ c1.cipher = c.cipher /\ c1.session_id = c.session_id
        /\ c1.newkeys = c.newkeys /\ c1.status = why
    BY <1>1 DEF Endpoint
  <2> HIDE <1>1
  <2>2. Agree(c1, s)
    BY <2>1 DEF Linked, Agree, PhasesMatch, KeysMatch, IdsMatch, ExchangesMatch, Parked,
       ClientAhead, ServerAhead
  <2>3. Up(c1, s, u, late)
    BY <2>1 DEF Linked, Up, UpAt, UpNewKeys, UpKexInit, UpEnd, UpKey
  <2>4. Down(c1, s, d, late)
    BY <1>1, <2>1 DEF Down
  <2> QED BY <2>2, <2>3, <2>4 DEF Linked
<1>2. ASSUME NEW s1, s1 = [s EXCEPT !.status = why], why # "up"
      PROVE  Linked(c, s1, u, d, late)
  <2>1. /\ s1.kex = s.kex /\ s1.encrypted = s.encrypted /\ s1.exchange = s.exchange
        /\ s1.parked = s.parked /\ s1.cipher = s.cipher /\ s1.session_id = s.session_id
        /\ s1.newkeys = s.newkeys /\ s1.over = s.over /\ s1.status = why
    BY <1>2 DEF Endpoint
  <2> HIDE <1>2
  <2>2. Agree(c, s1)
    BY <2>1 DEF Linked, Agree, PhasesMatch, KeysMatch, IdsMatch, ExchangesMatch, Parked,
       ClientAhead, ServerAhead
  <2>3. Down(c, s1, d, late)
    BY <2>1 DEF Linked, Down, DownAt, DownKexInit, DownEnd
  <2>4. Up(c, s1, u, late)
    BY <1>2, <2>1 DEF Up
  <2> QED BY <2>1, <2>2, <2>3, <2>4 DEF Linked
<1> QED BY <1>1, <1>2

(* A stream its reader no longer reads may hold anything. *)
LEMMA UnreadAside ==
    ASSUME NEW c, NEW s, NEW u, NEW d, NEW late, NEW w, Linked(c, s, u, d, late)
    PROVE  /\ s.status # "up" => Linked(c, s, w, d, late)
           /\ c.status # "up" => Linked(c, s, u, w, late)
BY DEF Linked, Up, Down

LEMMA ClientFailed ==
    ASSUME ReadsTyped, NEW why \in Status, why # "up", ReadFailed("client", why), NEW late,
           Linked(session["client"], session["server"], wire["client"], wire["server"], late)
    PROVE  /\ Linked(session'["client"], session'["server"], wire'["client"], wire'["server"],
                     late)
           /\ session'["client"].status = why /\ session'["server"] = session["server"]
           /\ session'["client"].kex = session["client"].kex
<1> DEFINE c1 == [session["client"] EXCEPT !.status = why]
<1>1. session["client"] \in Endpoint /\ session["server"] \in Endpoint
  BY DEF ReadsTyped
<1>2. session'["client"] = c1 /\ session'["server"] = session["server"]
        /\ wire'["client"] = wire["client"] /\ c1.status = why
        /\ c1.kex = session["client"].kex
  BY <1>1 DEF ReadFailed, ReadsTyped, Endpoint
<1>3. Linked(c1, session["server"], wire["client"], wire["server"], late)
  BY <1>1, StatusAside
<1> HIDE DEF c1
<1>4. Linked(c1, session["server"], wire["client"], wire'["server"], late)
  BY <1>2, <1>3, UnreadAside
<1> QED BY <1>2, <1>4

LEMMA ServerFailed ==
    ASSUME ReadsTyped, NEW why \in Status, why # "up", ReadFailed("server", why), NEW late,
           Linked(session["client"], session["server"], wire["client"], wire["server"], late)
    PROVE  /\ Linked(session'["client"], session'["server"], wire'["client"], wire'["server"],
                     late)
           /\ session'["server"].status = why /\ session'["client"] = session["client"]
           /\ session'["server"].over = session["server"].over
           /\ session'["server"].kex = session["server"].kex
<1> DEFINE s1 == [session["server"] EXCEPT !.status = why]
<1>1. session["client"] \in Endpoint /\ session["server"] \in Endpoint
  BY DEF ReadsTyped
<1>2. session'["server"] = s1 /\ session'["client"] = session["client"]
        /\ wire'["server"] = wire["server"] /\ s1.status = why
        /\ s1.over = session["server"].over /\ s1.kex = session["server"].kex
  BY <1>1 DEF ReadFailed, ReadsTyped, Endpoint
<1>3. Linked(session["client"], s1, wire["client"], wire["server"], late)
  BY <1>1, StatusAside
<1> HIDE DEF s1
<1>4. Linked(session["client"], s1, wire'["client"], wire["server"], late)
  BY <1>2, <1>3, UnreadAside
<1> QED BY <1>2, <1>4

-----------------------------------------------------------------------------
(* Every iteration preserves the links. *)

LinkedNow(late) ==
    Linked(session["client"], session["server"], wire["client"], wire["server"], late)

EndsNow(late) == Ends(session["client"], session["server"], late)

(* What an iteration achieves. *)
Sound(late) ==
    /\ Linked(session'["client"], session'["server"], wire'["client"], wire'["server"], late)
    /\ Ends(session'["client"], session'["server"], late)
    /\ session'["server"].over = session["server"].over

LEMMA NowTyped ==
    ASSUME ReadsTyped
    PROVE  /\ Pair(session["client"], session["server"], wire["client"], wire["server"])
           /\ \A s \in Side : session[s] \in Endpoint /\ wire[s] \in Seq(Packet)
BY DEF ReadsTyped, Pair

(* What a read begins with. *)
LEMMA Reading ==
    ASSUME ReadsTyped, NEW s \in Side, NEW types, Reads(s, types)
    PROVE  /\ session[s].status = "up" /\ wire[Peer(s)] # <<>>
           /\ Head(wire[Peer(s)]).type \in types
           /\ Head(wire[Peer(s)]).value \in Nat
BY HeadTyped DEF Reads

(* The iteration went well: the statuses are what they were. *)
LEMMA ClientWentOn ==
    ASSUME ReadsTyped, NEW types, Reads("client", types), NEW late, EndsNow(late),
           NEW late1, session["server"].kex = "KexDh" /\ late["client"] => late1["client"],
           session'["client"].status = "up", session'["server"] = session["server"],
           Linked(session'["client"], session'["server"], wire'["client"], wire'["server"],
                  late1)
    PROVE  Sound(late1)
BY Reading DEF Sound, Ends, EndsNow

LEMMA ServerWentOn ==
    ASSUME ReadsTyped, NEW types, Reads("server", types), NEW late, EndsNow(late),
           NEW late1,
           session["client"].kex = "KexDhDone" /\ late["server"] => late1["server"],
           session["client"].kex = "None" /\ session["server"].kex = "KexInit"
               => session'["server"].kex = "KexInit",
           session'["server"].status = "up", session'["client"] = session["client"],
           session'["server"].over = session["server"].over,
           Linked(session'["client"], session'["server"], wire'["client"], wire'["server"],
                  late1)
    PROVE  Sound(late1)
BY Reading DEF Sound, Ends, EndsNow

LEMMA ClientParseSound ==
    ASSUME ReadsTyped, NEW late, LinkedNow(late), EndsNow(late), ClientParse
    PROVE  Sound(late)
<1> DEFINE c == session["client"]
           d == wire["server"]
           ep == ClientDh(c, Head(d).value)
           p == Sealed(ep, "ECDH_INIT", ep.drawn, NoExchange)
<1>1. /\ Reads("client", {"KEXINIT"}) /\ c.kex = "KexInit"
      /\ ReadDone("client", ep, <<p>>)
  BY DEF ClientParse
<1>2. /\ c.status = "up" /\ d # <<>> /\ Head(d).type = "KEXINIT"
      /\ Head(d).value \in Nat
  BY <1>1, Reading
<1>3. Proper("client", c) /\ c \in Endpoint
  BY DEF ReadsTyped
<1>4. Proper("client", ep) /\ ep \in Endpoint /\ ep.drawn \in Nat
  BY <1>2, <1>3, ClientDhTyped DEF Proper, Endpoint
<1>5. ep.status = "up"
  BY <1>2, <1>3 DEF ClientDh, Endpoint
<1>6. p \in Packet
  BY <1>4, SealedTyped, NoExchangeTyped
<1>7. <<p>> \in Seq(Packet)
  BY <1>6, SingletonTyped
<1>8. Linked(ep, session["server"], wire["client"] \o <<p>>, Tail(d), late)
  BY <1>1, <1>2, <1>6, NowTyped, ClientParseLinks DEF LinkedNow
<1> HIDE DEF ep, p
<1> QED BY <1>1, <1>4, <1>5, <1>7, <1>8, ClientDone, ClientWentOn

LEMMA ClientRekeyRequestedSound ==
    ASSUME ReadsTyped, NEW late, LinkedNow(late), EndsNow(late), ClientRekeyRequested
    PROVE  Sound(late)
<1>1. /\ Reads("client", {"KEXINIT"})
      /\ session["client"].encrypted /\ session["client"].kex # "KexInit"
  BY DEF ClientRekeyRequested
<1>2. /\ session["client"].parked /\ session["client"].kex = "None"
      /\ session["server"].kex = "KexInit" /\ session["server"].over
  BY <1>1, Reading, NowTyped, ClientRefuses DEF LinkedNow
<1>3. ReadFailed("client", "Kex")
  BY <1>2 DEF ClientRekeyRequested
<1> QED BY <1>2, <1>3, ClientFailed DEF LinkedNow, Sound, Ends, EndsNow

LEMMA ClientWrongPacketSound ==
    ASSUME ReadsTyped, NEW late, LinkedNow(late), EndsNow(late), ClientWrongPacket
    PROVE  Sound(late)
<1>1. /\ Reads("client", PacketType \ {"ECDH_REPLY", "KEXINIT"})
      /\ session["client"].kex = "KexDhDone" /\ ReadFailed("client", "Inconsistent")
  BY DEF ClientWrongPacket
<1>2. late["server"] /\ session["server"].over
  BY <1>1, Reading, NowTyped, ClientRefuses DEF LinkedNow
<1> QED BY <1>1, <1>2, ClientFailed DEF LinkedNow, Sound, Ends, EndsNow

LEMMA ClientKeyCheckSound ==
    ASSUME ReadsTyped, NEW late, LinkedNow(late), EndsNow(late), ClientKeyCheck
    PROVE  Sound(late)
<1> DEFINE c == session["client"]
           d == wire["server"]
           hash == ClientHash(c, Head(d).value)
           ep == KeyChecked(c, hash)
           p == Plain(c, "NEWKEYS")
<1>1. Reads("client", {"ECDH_REPLY"}) /\ c.kex = "KexDhDone"
  BY DEF ClientKeyCheck
<1>2. /\ c.status = "up" /\ d # <<>> /\ Head(d).type = "ECDH_REPLY"
      /\ Head(d).value \in Nat
  BY <1>1, Reading
<1>3. Proper("client", c) /\ c \in Endpoint
  BY DEF ReadsTyped
<1>4. /\ Head(d).signed = hash
      /\ Linked(ep, session["server"], wire["client"] \o <<p>>, Tail(d), late)
  BY <1>1, <1>2, NowTyped, ClientKeyCheckLinks DEF LinkedNow
<1>5. ReadDone("client", ep, <<p>>)
  BY <1>4 DEF ClientKeyCheck, ClientHash, KeyChecked
<1>6. hash \in Exchange /\ ComputeKeys(c, hash) \in NewKeys
  <2>1. hash \in Exchange
    BY <1>2, <1>3, ExchangeGrows DEF ClientHash, Endpoint
  <2> HIDE DEF hash
  <2> QED BY <1>3, <2>1, ComputeKeysTyped
<1> HIDE DEF hash
<1>7. Proper("client", ep) /\ ep.status = "up"
  BY <1>2, <1>3, <1>6 DEF KeyChecked, Proper, Endpoint
<1>8. <<p>> \in Seq(Packet)
  BY <1>3, PlainTyped, SingletonTyped
<1> HIDE DEF ep, p
<1> QED BY <1>1, <1>4, <1>5, <1>7, <1>8, ClientDone, ClientWentOn

LEMMA ClientNewKeysSound ==
    ASSUME ReadsTyped, NEW late, LinkedNow(late), EndsNow(late), ClientNewKeys,
           NEW late1, late1["server"] = late["server"]
    PROVE  Sound(late1)
<1> DEFINE c == session["client"]
           s == session["server"]
           u == wire["client"]
           d == wire["server"]
           new == [Rekeyed(c) EXCEPT !.over = FALSE]
           enc == Encrypted(c)
           p == Plain(enc, "CONN")
<1>1. Reads("client", PacketType) /\ c.kex = "NewKeys"
  BY DEF ClientNewKeys
<1>2. c.status = "up" /\ d # <<>>
  BY <1>1, Reading
<1>3. Proper("client", c) /\ c \in Endpoint
  BY DEF ReadsTyped
<1>4. /\ Proper("client", new) /\ Proper("client", enc) /\ enc \in Endpoint
      /\ new.status = "up" /\ enc.status = "up"
  <2>1. Proper("client", Rekeyed(c)) /\ Proper("client", enc)
    BY <1>3, RekeyedTyped, EncryptedTyped
  <2>2. Rekeyed(c).status = "up" /\ enc.status = "up"
    BY <1>2, <1>3 DEF Rekeyed, Encrypted, Endpoint
  <2> QED BY <2>1, <2>2 DEF Proper, Endpoint
<1>5. /\ enc.kex = "None" /\ enc.parked /\ enc.encrypted
      /\ enc.cipher = c.newkeys.cipher /\ enc.session_id = c.newkeys.session_id
      /\ new.kex = "None" /\ new.parked /\ (c.encrypted => new.encrypted)
      /\ new.cipher = c.newkeys.cipher /\ new.session_id = c.session_id
  BY <1>3 DEF Encrypted, Rekeyed, Endpoint
<1>6. CASE c.encrypted
  <2> HIDE DEF new
  <2>1. Head(d).type = "NEWKEYS" /\ s.kex # "KexDh" /\ Linked(new, s, u, Tail(d), late1)
    BY <1>1, <1>2, <1>4, <1>5, <1>6, NowTyped, ClientNewKeysLinks DEF LinkedNow
  <2>2. ReadDone("client", new, <<>>)
    BY <1>6, <2>1 DEF ClientNewKeys, new
  <2>3. u \o <<>> = u /\ <<>> \in Seq(Packet)
    BY NowTyped
  <2> QED BY <1>1, <1>4, <2>1, <2>2, <2>3, ClientDone, ClientWentOn
<1>7. CASE ~c.encrypted
  <2> HIDE DEF enc
  <2>1. Head(d).type = "NEWKEYS" /\ s.kex # "KexDh" /\ Linked(enc, s, u, Tail(d), late1)
    BY <1>1, <1>2, <1>4, <1>5, <1>7, NowTyped, ClientNewKeysLinks DEF LinkedNow
  <2>2. ReadDone("client", enc, <<p>>)
    BY <1>7, <2>1 DEF ClientNewKeys, enc
  <2>3. p \in Packet /\ p.type = "CONN" /\ p.sealed = enc.cipher
    BY <1>4, PlainTyped DEF Plain, Sealed
  <2>4. <<p>> \in Seq(Packet)
    BY <2>3, SingletonTyped
  <2>5. Pair(enc, s, u, Tail(d))
    BY <1>1, <1>4, NowTyped, HeadTyped DEF Pair
  <2> HIDE DEF p
  <2>6. Linked(enc, s, u \o <<p>>, Tail(d), late1)
    <3>1. enc.kex \in {"None", "KexInit"} /\ (enc.kex = "KexInit" => late1["client"])
      BY <1>5
    <3>2. Linked(enc, s, u, Tail(d), late1)
      BY <2>1
    <3> HIDE DEF s, u, d
    <3> QED BY <2>3, <2>5, <3>1, <3>2, ClientSays
  <2>7. /\ Linked(session'["client"], session'["server"], wire'["client"],
                   wire'["server"], late1)
        /\ session'["client"].status = "up" /\ session'["server"] = session["server"]
    <3> HIDE DEF enc
    <3> QED BY <1>1, <1>4, <2>2, <2>4, <2>6, ClientDone
  <2>8. ~(session["server"].kex = "KexDh" /\ late["client"])
    BY <2>1
  <2> QED BY <1>1, <2>7, <2>8, ClientWentOn
<1> QED BY <1>6, <1>7

LEMMA ServerParseSound ==
    ASSUME ReadsTyped, NEW late, LinkedNow(late), EndsNow(late), ServerParse
    PROVE  Sound(late)
<1> DEFINE s == session["server"]
           u == wire["client"]
           d == wire["server"]
           ep == KexInitReceived(s, Head(u).value)
<1>1. /\ Reads("server", {"KEXINIT"}) /\ s.kex = "KexInit"
      /\ ReadDone("server", ep, <<>>)
  BY DEF ServerParse
<1>2. /\ s.status = "up" /\ u # <<>> /\ Head(u).type = "KEXINIT"
      /\ Head(u).value \in Nat
  BY <1>1, Reading
<1>3. Proper("server", s) /\ s \in Endpoint
  BY DEF ReadsTyped
<1>4. Proper("server", ep) /\ ep.status = "up" /\ ep.over = s.over
  BY <1>2, <1>3, KexInitReceivedTyped DEF KexInitReceived, Endpoint
<1>5. session["client"].kex # "None" /\ Linked(session["client"], ep, Tail(u), d, late)
  BY <1>1, <1>2, NowTyped, ServerParseLinks DEF LinkedNow
<1>6. d \o <<>> = d /\ <<>> \in Seq(Packet)
  BY NowTyped
<1> HIDE DEF ep
<1> QED BY <1>1, <1>4, <1>5, <1>6, ServerDone, ServerWentOn

LEMMA ServerRekeyRequestedSound ==
    ASSUME ReadsTyped, NEW late, LinkedNow(late), EndsNow(late), ServerRekeyRequested
    PROVE  Sound(late)
<1> DEFINE s == session["server"]
           u == wire["client"]
           d == wire["server"]
           s0 == WriteKexInit("server", TakeExchange(s))
           ep == KexInitReceived(s0, Head(u).value)
           p == KexInitPacket(s0)
<1>1. /\ Reads("server", {"KEXINIT"}) /\ s.encrypted /\ s.kex # "KexInit"
  BY DEF ServerRekeyRequested
<1>2. /\ s.status = "up" /\ u # <<>> /\ Head(u).type = "KEXINIT"
      /\ Head(u).value \in Nat
  BY <1>1, Reading
<1>3. Proper("server", s) /\ s \in Endpoint
  BY DEF ReadsTyped
<1>4. s.parked /\ Linked(session["client"], ep, Tail(u), d \o <<p>>, late)
  BY <1>1, <1>2, NowTyped, ServerRekeyLinks DEF LinkedNow
<1>5. ReadDone("server", ep, <<p>>)
  BY <1>4 DEF ServerRekeyRequested
<1>6. Proper("server", s0) /\ s0 \in Endpoint /\ SameBut(s, s0) /\ p \in Packet
  BY <1>3, FreshKexInit DEF Proper
<1> HIDE DEF s0
<1>7. Proper("server", ep) /\ ep.status = s0.status /\ ep.over = s0.over
  BY <1>2, <1>6, KexInitReceivedTyped DEF KexInitReceived, Endpoint
<1>8. ep.status = "up" /\ ep.over = s.over
  BY <1>2, <1>6, <1>7 DEF SameBut
<1>9. <<p>> \in Seq(Packet)
  BY <1>6, SingletonTyped
<1> HIDE DEF ep, p
<1> QED BY <1>1, <1>4, <1>5, <1>7, <1>8, <1>9, ServerDone, ServerWentOn

LEMMA ServerDhSound ==
    ASSUME ReadsTyped, NEW late, LinkedNow(late), EndsNow(late), ServerDh
    PROVE  Sound(late)
<1> DEFINE s == session["server"]
           u == wire["client"]
           d == wire["server"]
           hash == ServerDhExchange(s, Head(u).value)
           ep == ServerDhDone(s, hash)
           p == Sealed(s, "ECDH_REPLY", s.drawn + 1, hash)
           q == Plain(s, "NEWKEYS")
<1>1. /\ Reads("server", {"ECDH_INIT"}) /\ s.kex = "KexDh"
      /\ ReadDone("server", ep, <<p, q>>)
  BY DEF ServerDh
<1>2. /\ s.status = "up" /\ u # <<>> /\ Head(u).type = "ECDH_INIT"
      /\ Head(u).value \in Nat
  BY <1>1, Reading
<1>3. Proper("server", s) /\ s \in Endpoint
  BY DEF ReadsTyped
<1>4. s.exchange \in Exchange /\ s.drawn + 1 \in Nat
  BY <1>3 DEF Endpoint
<1>5. hash \in Exchange
  BY <1>2, <1>4, ExchangeGrows DEF ServerDhExchange
<1>6. Linked(session["client"], ep, Tail(u), d \o <<p, q>>, late)
  BY <1>1, <1>2, NowTyped, ServerDhLinks DEF LinkedNow
<1> HIDE DEF hash
<1>7. Proper("server", ep) /\ ep.status = "up" /\ ep.over = s.over
  BY <1>2, <1>3, <1>5, ServerDhDoneTyped DEF ServerDhDone, Endpoint
<1>8. p \in Packet /\ q \in Packet
  BY <1>3, <1>4, <1>5, SealedTyped, PlainTyped
<1> HIDE DEF ep, p, q
<1>9. <<p, q>> \in Seq(Packet)
  BY <1>8
<1> QED BY <1>1, <1>6, <1>7, <1>9, ServerDone, ServerWentOn

LEMMA ServerDhAssertionSound ==
    ASSUME ReadsTyped, NEW late, LinkedNow(late), EndsNow(late), ServerDhAssertion
    PROVE  Sound(late)
<1>1. /\ Reads("server", PacketType \ {"ECDH_INIT", "KEXINIT"})
      /\ session["server"].kex = "KexDh" /\ ReadFailed("server", "panic")
  BY DEF ServerDhAssertion
<1>2. late["client"]
  BY <1>1, Reading, NowTyped, ServerPanics DEF LinkedNow
<1> QED BY <1>1, <1>2, ServerFailed DEF LinkedNow, Sound, Ends, EndsNow

LEMMA ServerNewKeysSound ==
    ASSUME ReadsTyped, NEW late, LinkedNow(late), EndsNow(late), ServerNewKeys,
           NEW late1, late1["client"] = late["client"], ~late1["server"]
    PROVE  Sound(late1)
<1> DEFINE s == session["server"]
           u == wire["client"]
           d == wire["server"]
           ep == IF s.encrypted THEN Rekeyed(s) ELSE Encrypted(s)
<1>1. Reads("server", PacketType) /\ s.kex = "NewKeys"
  BY DEF ServerNewKeys
<1>2. s.status = "up" /\ u # <<>>
  BY <1>1, Reading
<1>3. Proper("server", s) /\ s \in Endpoint
  BY DEF ReadsTyped
<1>4. /\ Proper("server", ep) /\ ep.status = "up" /\ ep.over = s.over
      /\ ep.kex = "None" /\ ep.parked /\ ep.encrypted
      /\ ep.cipher = s.newkeys.cipher
      /\ ep.session_id = IF s.encrypted THEN s.session_id ELSE s.newkeys.session_id
  <2>1. Proper("server", ep)
    BY <1>3, RekeyedTyped, EncryptedTyped
  <2>2. CASE s.encrypted
    BY <1>2, <1>3, <2>1, <2>2 DEF Rekeyed, Endpoint
  <2>3. CASE ~s.encrypted
    BY <1>2, <1>3, <2>1, <2>3 DEF Encrypted, Endpoint
  <2> QED BY <2>2, <2>3
<1> HIDE DEF ep
<1>5. /\ Head(u).type = "NEWKEYS" /\ session["client"].kex # "KexDhDone"
      /\ Linked(session["client"], ep, Tail(u), d, late1)
  BY <1>1, <1>2, <1>4, NowTyped, ServerNewKeysLinks DEF LinkedNow
<1>6. ReadDone("server", ep, <<>>)
  BY <1>5 DEF ServerNewKeys, ep
<1>7. d \o <<>> = d /\ <<>> \in Seq(Packet)
  BY NowTyped
<1> QED BY <1>1, <1>4, <1>5, <1>6, <1>7, ServerDone, ServerWentOn

LEMMA NoneOrOne ==
    ASSUME NEW n \in 0..1, NEW p \in Packet, NEW w \in Seq(Packet)
    PROVE  LET out == [i \in 1..n |-> p]
           IN  /\ out \in Seq(Packet)
               /\ n = 0 => w \o out = w
               /\ n = 1 => w \o out = w \o <<p>>
<1> DEFINE out == [i \in 1..n |-> p]
<1>1. out \in [1..n -> Packet] /\ n \in Nat
  OBVIOUS
<1>2. out \in Seq(Packet)
  BY <1>1, SeqDef, Zenon
<1>3. Len(out) \in Nat /\ 1..n = 1..Len(out)
  BY <1>1, <1>2, LenProperties, Zenon
<1>4. \A i \in 1..n : out[i] = p
  OBVIOUS
<1> HIDE DEF out
<1>5. Len(out) = n
  <2>1. n = 0 => Len(out) = 0
    <3> SUFFICES ASSUME n = 0, Len(out) # 0 PROVE FALSE
      OBVIOUS
    <3>1. 1 \in 1..Len(out)
      BY <1>3
    <3> QED BY <1>3, <3>1
  <2>2. n = 1 => Len(out) = 1
    <3> SUFFICES ASSUME n = 1 PROVE Len(out) = 1
      OBVIOUS
    <3>1. 1 \in 1..Len(out) /\ Len(out) \in 1..Len(out)
      BY <1>3
    <3>2. Len(out) \in 1..1
      BY <1>3, <3>1
    <3> QED BY <3>2
  <2>3. n = 0 \/ n = 1
    OBVIOUS
  <2> QED BY <2>1, <2>2, <2>3
<1>6. n = 0 => out = <<>>
  <2>1. \A i \in 1..0 : out[i] = <<>>[i]
    OBVIOUS
  <2>2. <<>> \in Seq(Packet) /\ Len(<<>>) = 0
    BY EmptySeq
  <2> QED BY <1>2, <1>5, <2>1, <2>2, SeqEqual
<1>7. n = 1 => out = <<p>>
  <2>1. <<p>> \in Seq(Packet) /\ Len(<<p>>) = 1 /\ <<p>>[1] = p
    OBVIOUS
  <2>2. n = 1 => \A i \in 1..Len(out) : out[i] = <<p>>[i]
    BY <1>4, <1>5, <2>1
  <2> QED BY <1>2, <1>5, <2>1, <2>2, SeqEqual
<1>8. w \o <<>> = w
  BY ConcatEmptySeq
<1> QED BY <1>2, <1>6, <1>7, <1>8 DEF out

LEMMA PlainConn ==
    ASSUME NEW ep \in Endpoint
    PROVE  /\ Plain(ep, "CONN") \in Packet
           /\ Plain(ep, "CONN").type = "CONN" /\ Plain(ep, "CONN").sealed = ep.cipher
BY PlainTyped DEF Plain, Sealed

(* A CONN packet is read and perhaps answered; behind an own KEXINIT only   *)
(* if answers may cross it.                                                 *)
LEMMA ClientReadConnSound ==
    ASSUME ReadsTyped, NEW late, NEW late1,
           late["client"] => late1["client"], late1["server"] = late["server"],
           LinkedNow(late), EndsNow(late), NEW n \in 0..1,
           Reads("client", PacketType \ {"KEXINIT"}),
           session["client"].kex \in {"None", "KexInit"},
           n = 1 /\ session["client"].kex = "KexInit" => late1["client"],
           ReadDone("client", session["client"],
                    [i \in 1..n |-> Plain(session["client"], "CONN")])
    PROVE  Sound(late1)
<1> DEFINE c == session["client"]
           s == session["server"]
           u == wire["client"]
           d == wire["server"]
           p == Plain(c, "CONN")
           out == [i \in 1..n |-> p]
<1>1. c.status = "up" /\ d # <<>> /\ Head(d).type # "KEXINIT"
  BY Reading
<1>2. c \in Endpoint /\ Proper("client", c) /\ u \in Seq(Packet)
  BY DEF ReadsTyped
<1>3. Linked(c, s, u, Tail(d), late)
  BY <1>1, NowTyped, ClientTakesConn DEF LinkedNow
<1>4. Linked(c, s, u, Tail(d), late1)
  BY <1>3, LateGrows
<1>5. p \in Packet /\ p.type = "CONN" /\ p.sealed = c.cipher
  BY <1>2, PlainConn
<1>6. Pair(c, s, u, Tail(d))
  BY NowTyped, HeadTyped DEF Pair
<1> HIDE DEF p
<1>7. out \in Seq(Packet) /\ Linked(c, s, u \o out, Tail(d), late1)
  <2>1. out \in Seq(Packet) /\ (n = 0 => u \o out = u) /\ (n = 1 => u \o out = u \o <<p>>)
    BY <1>2, <1>5, NoneOrOne
  <2>2. n = 1 => (c.kex = "KexInit" => late1["client"])
    OBVIOUS
  <2> HIDE DEF c, s, u, d, out
  <2>3. CASE n = 0
    BY <1>4, <2>1, <2>3
  <2>4. CASE n = 1
    <3>1. c.kex \in {"None", "KexInit"} /\ (c.kex = "KexInit" => late1["client"])
      BY <2>2, <2>4 DEF c
    <3>2. Linked(c, s, u \o <<p>>, Tail(d), late1)
      BY <1>4, <1>5, <1>6, <3>1, ClientSays
    <3> QED BY <2>1, <2>4, <3>2
  <2> QED BY <2>3, <2>4
<1>8. ReadDone("client", c, out)
  BY DEF p
<1> HIDE DEF out
<1> QED BY <1>1, <1>2, <1>7, <1>8, ClientDone, ClientWentOn

LEMMA ServerReadConnSound ==
    ASSUME ReadsTyped, NEW late, NEW late1,
           late["server"] => late1["server"], late1["client"] = late["client"],
           late1["server"] => session["server"].over,
           LinkedNow(late), EndsNow(late), NEW n \in 0..1,
           Reads("server", PacketType \ {"KEXINIT"}), session["server"].encrypted,
           session["server"].kex \in {"None", "KexInit"},
           n = 1 /\ session["server"].kex = "KexInit" => late1["server"],
           ReadDone("server", session["server"],
                    [i \in 1..n |-> Plain(session["server"], "CONN")])
    PROVE  Sound(late1)
<1> DEFINE c == session["client"]
           s == session["server"]
           u == wire["client"]
           d == wire["server"]
           p == Plain(s, "CONN")
           out == [i \in 1..n |-> p]
<1>1. s.status = "up" /\ u # <<>> /\ Head(u).type # "KEXINIT"
  BY Reading
<1>2. s \in Endpoint /\ Proper("server", s) /\ d \in Seq(Packet)
  BY DEF ReadsTyped
<1>3. Linked(c, s, Tail(u), d, late)
  BY <1>1, NowTyped, ServerTakesConn DEF LinkedNow
<1>4. Linked(c, s, Tail(u), d, late1)
  BY <1>3, ServerLateGrows
<1>5. p \in Packet /\ p.type = "CONN" /\ p.sealed = s.cipher
  BY <1>2, PlainConn
<1>6. Pair(c, s, Tail(u), d)
  BY NowTyped, HeadTyped DEF Pair
<1> HIDE DEF p
<1>7. out \in Seq(Packet) /\ Linked(c, s, Tail(u), d \o out, late1)
  <2>1. out \in Seq(Packet) /\ (n = 0 => d \o out = d) /\ (n = 1 => d \o out = d \o <<p>>)
    BY <1>2, <1>5, NoneOrOne
  <2>2. /\ s.encrypted /\ s.kex \in {"None", "KexInit"}
        /\ n = 1 /\ s.kex = "KexInit" => late1["server"]
    OBVIOUS
  <2> HIDE DEF c, s, u, d, out
  <2>3. CASE n = 0
    BY <1>4, <2>1, <2>3
  <2>4. CASE n = 1
    <3>1. Linked(c, s, Tail(u), d \o <<p>>, late1)
      BY <1>4, <1>5, <1>6, <2>2, <2>4, ServerSays
    <3> QED BY <2>1, <2>4, <3>1
  <2> QED BY <2>3, <2>4
<1>8. ReadDone("server", s, out)
  BY DEF p
<1> HIDE DEF out
<1> QED BY <1>1, <1>2, <1>7, <1>8, ServerDone, ServerWentOn

(* The gate is open: a message of the application leaves, then the flush.   *)
LEMMA ClientSendSound ==
    ASSUME ReadsTyped, NEW late, LinkedNow(late), EndsNow(late), Send("client")
    PROVE  Sound(late)
<1> DEFINE c == session["client"]
           s == session["server"]
           u == wire["client"]
           d == wire["server"]
           p == Plain(c, "CONN")
<1>1. c.status = "up" /\ c.kex = "None"
  BY DEF Send, IsRekeying
<1>2. c \in Endpoint /\ Proper("client", c) /\ Proper("server", s)
        /\ u \in Seq(Packet) /\ d \in Seq(Packet)
  BY DEF ReadsTyped
<1>3. p \in Packet /\ p.type = "CONN" /\ p.sealed = c.cipher
  BY <1>2, PlainConn
<1>4. u \o <<p>> \in Seq(Packet)
  BY <1>2, <1>3, AppendFacts
<1>5. /\ session'["client"] = Flushed("client", c) /\ session'["server"] = s
      /\ wire'["client"] = u \o <<p>> \o FlushedPackets("client", c)
      /\ wire'["server"] = d
  BY DEF Send, ReadsTyped
<1>6. Linked(c, s, u, d, late) /\ Pair(c, s, u, d) /\ Ends(c, s, late)
  BY NowTyped DEF LinkedNow, EndsNow
<1> HIDE DEF c, s, u, d, p
<1>7. Linked(c, s, u \o <<p>>, d, late)
  <2>1. c.kex \in {"None", "KexInit"} /\ (c.kex = "KexInit" => late["client"])
    BY <1>1
  <2> QED BY <1>3, <1>6, <2>1, ClientSays
<1>8. Pair(c, s, u \o <<p>>, d)
  BY <1>4, <1>6 DEF Pair
<1>9. Linked(Flushed("client", c), s, u \o <<p>> \o FlushedPackets("client", c), d, late)
  BY <1>7, <1>8, ClientFlush
<1>10. Flushed("client", c).status = c.status
  BY <1>2, FlushCases DEF SameBut
<1>11. Ends(session'["client"], session'["server"], late)
  BY <1>1, <1>5, <1>6, <1>10 DEF Ends
<1> QED BY <1>5, <1>9, <1>11 DEF Sound, s

LEMMA ServerSendSound ==
    ASSUME ReadsTyped, NEW late, LinkedNow(late), EndsNow(late), Send("server")
    PROVE  Sound(late)
<1> DEFINE c == session["client"]
           s == session["server"]
           u == wire["client"]
           d == wire["server"]
           p == Plain(s, "CONN")
<1>1. s.status = "up" /\ s.kex = "None" /\ s.encrypted
  BY DEF Send, IsRekeying
<1>2. s \in Endpoint /\ Proper("client", c) /\ Proper("server", s)
        /\ u \in Seq(Packet) /\ d \in Seq(Packet)
  BY DEF ReadsTyped
<1>3. p \in Packet /\ p.type = "CONN" /\ p.sealed = s.cipher
  BY <1>2, PlainConn
<1>4. d \o <<p>> \in Seq(Packet)
  BY <1>2, <1>3, AppendFacts
<1>5. /\ session'["server"] = Flushed("server", s) /\ session'["client"] = c
      /\ wire'["server"] = d \o <<p>> \o FlushedPackets("server", s)
      /\ wire'["client"] = u
  BY DEF Send, ReadsTyped
<1>6. Linked(c, s, u, d, late) /\ Pair(c, s, u, d) /\ Ends(c, s, late)
  BY NowTyped DEF LinkedNow, EndsNow
<1> HIDE DEF c, s, u, d, p
<1>7. Linked(c, s, u, d \o <<p>>, late)
  BY <1>1, <1>3, <1>6, ServerSays
<1>8. Pair(c, s, u, d \o <<p>>)
  BY <1>4, <1>6 DEF Pair
<1>9. Linked(c, Flushed("server", s), u, d \o <<p>> \o FlushedPackets("server", s), late)
  BY <1>7, <1>8, ServerFlush
<1>10. Flushed("server", s).status = s.status /\ Flushed("server", s).over = s.over
  BY <1>2, FlushCases DEF SameBut
<1>11. Ends(session'["client"], session'["server"], late)
  BY <1>1, <1>5, <1>6, <1>10 DEF Ends
<1> QED BY <1>5, <1>9, <1>10, <1>11 DEF Sound, s

(* A limit that is reached changes nothing until the next flush. *)
LEMMA LimitReachedSound ==
    ASSUME ReadsTyped, NEW late, LinkedNow(late), EndsNow(late),
           NEW t \in Side, LimitReached(t)
    PROVE  /\ Linked(session'["client"], session'["server"], wire'["client"], wire'["server"],
                     late)
           /\ Ends(session'["client"], session'["server"], late)
           /\ t = "client" => session'["server"].over = session["server"].over
<1> DEFINE ep == [session[t] EXCEPT !.over = TRUE]
<1>1. session[t] \in Endpoint /\ UNCHANGED wire /\ session' = [session EXCEPT ![t] = ep]
        /\ session \in [Side -> Endpoint]
  BY DEF ReadsTyped, LimitReached
<1>2. /\ ep.kex = session[t].kex /\ ep.encrypted = session[t].encrypted
      /\ ep.exchange = session[t].exchange /\ ep.parked = session[t].parked
      /\ ep.cipher = session[t].cipher /\ ep.session_id = session[t].session_id
      /\ ep.newkeys = session[t].newkeys /\ ep.status = session[t].status /\ ep.over
  BY <1>1 DEF Endpoint
<1>3. session'[t] = ep /\ \A r \in Side : r # t => session'[r] = session[r]
  BY <1>1
<1> HIDE DEF ep
<1>4. CASE t = "client"
  <2> DEFINE c == session["client"]
             s == session["server"]
             u == wire["client"]
             d == wire["server"]
  <2>1. Linked(c, s, u, d, late) /\ Ends(c, s, late)
    BY DEF LinkedNow, EndsNow
  <2>2. session'["server"] = s /\ session'["client"] = ep
    BY <1>3, <1>4
  <2> HIDE DEF s, u, d
  <2>3. Agree(ep, s)
    BY <1>2, <1>4, <2>1 DEF Linked, Agree, PhasesMatch, KeysMatch, IdsMatch, ExchangesMatch,
       Parked, ClientAhead, ServerAhead
  <2>4. Up(ep, s, u, late)
    BY <1>2, <1>4, <2>1 DEF Linked, Up, UpAt, UpNewKeys, UpKexInit, UpEnd, UpKey
  <2>5. Down(ep, s, d, late)
    BY <1>2, <1>4, <2>1 DEF Linked, Down, DownAt, DownKexInit, DownEnd, DownNewKeys, DownKey
  <2>6. Linked(ep, s, u, d, late)
    BY <2>1, <2>3, <2>4, <2>5 DEF Linked
  <2>7. Ends(ep, s, late)
    BY <1>2, <1>4, <2>1 DEF Ends
  <2> QED BY <1>1, <2>2, <2>6, <2>7 DEF s, u, d
<1>5. CASE t = "server"
  <2> DEFINE c == session["client"]
             s == session["server"]
             u == wire["client"]
             d == wire["server"]
  <2>1. Linked(c, s, u, d, late) /\ Ends(c, s, late)
    BY DEF LinkedNow, EndsNow
  <2>2. session'["client"] = c /\ session'["server"] = ep
    BY <1>3, <1>5
  <2> HIDE DEF c, u, d
  <2>3. Agree(c, ep)
    BY <1>2, <1>5, <2>1 DEF Linked, Agree, PhasesMatch, KeysMatch, IdsMatch, ExchangesMatch,
       Parked, ClientAhead, ServerAhead
  <2>4. Up(c, ep, u, late)
    BY <1>2, <1>5, <2>1 DEF Linked, Up, UpAt, UpNewKeys, UpKexInit, UpEnd, UpKey
  <2>5. Down(c, ep, d, late)
    BY <1>2, <1>5, <2>1 DEF Linked, Down, DownAt, DownKexInit, DownEnd
  <2>6. Linked(c, ep, u, d, late)
    BY <1>2, <2>3, <2>4, <2>5 DEF Linked
  <2>7. Ends(c, ep, late)
    BY <1>2, <1>5, <2>1 DEF Ends
  <2> QED BY <1>1, <1>5, <2>2, <2>6, <2>7 DEF c, u, d
<1> QED BY <1>4, <1>5

(* The end of the stream: the other side has failed before. *)
LEMMA HangupSound ==
    ASSUME ReadsTyped, NEW late, LinkedNow(late), EndsNow(late), NEW t \in Side, Hangup(t)
    PROVE  Sound(late)
<1> DEFINE c == session["client"]
           s == session["server"]
           c1 == [c EXCEPT !.status = "closed"]
           s1 == [s EXCEPT !.status = "closed"]
<1>1. c \in Endpoint /\ s \in Endpoint /\ UNCHANGED wire
        /\ session' = [session EXCEPT ![t] = [session[t] EXCEPT !.status = "closed"]]
        /\ session[t].status = "up" /\ session[Peer(t)].status # "up"
        /\ session \in [Side -> Endpoint]
  BY DEF ReadsTyped, Hangup
<1>2. /\ c1.status = "closed" /\ s1.status = "closed" /\ s1.over = s.over
      /\ c1.kex = c.kex /\ s1.kex = s.kex
  BY <1>1 DEF Endpoint
<1>3. /\ Linked(c1, s, wire["client"], wire["server"], late)
      /\ Linked(c, s1, wire["client"], wire["server"], late)
  BY <1>1, StatusAside DEF LinkedNow
<1>4. Ends(c, s, late)
  BY DEF EndsNow
<1>5. CASE t = "client"
  <2>1. session'["client"] = c1 /\ session'["server"] = s
    BY <1>1, <1>5
  <2>2. c.status = "up" /\ s.status # "up"
    BY <1>1, <1>5
  <2> HIDE DEF c1
  <2>3. Ends(c1, s, late)
    BY <1>2, <1>4, <2>2 DEF Ends
  <2> QED BY <1>1, <1>3, <2>1, <2>3 DEF Sound
<1>6. CASE t = "server"
  <2>1. session'["server"] = s1 /\ session'["client"] = c
    BY <1>1, <1>6
  <2>2. s.status = "up" /\ c.status # "up"
    BY <1>1, <1>6
  <2> HIDE DEF s1
  <2>3. Ends(c, s1, late)
    BY <1>2, <1>4, <2>2 DEF Ends
  <2> QED BY <1>1, <1>2, <1>3, <2>1, <2>3 DEF Sound
<1> QED BY <1>5, <1>6

-----------------------------------------------------------------------------
(* The invariant. *)

(* What every step must achieve. *)
LEMMA Remains ==
    ASSUME IInv, TypeOK', \A r \in Side : behind'[r] => CrossingAnswers,
           Linked(session'["client"], session'["server"], wire'["client"], wire'["server"],
                  behind'),
           Ends(session'["client"], session'["server"], behind'),
           ServerLimits = 0 => limits'["server"] = 0 /\ ~session'["server"].over
    PROVE  IInv'
BY DEF IInv

(* A step that leaves the limits alone. *)
LEMMA SoundRemains ==
    ASSUME IInv, TypeOK', UNCHANGED limits, NEW late, late = behind',
           \A r \in Side : late[r] => CrossingAnswers, Sound(late)
    PROVE  IInv'
<1>1. /\ Linked(session'["client"], session'["server"], wire'["client"], wire'["server"],
                behind')
      /\ Ends(session'["client"], session'["server"], behind')
      /\ session'["server"].over = session["server"].over
  BY DEF Sound
<1>2. ServerLimits = 0 => limits'["server"] = 0 /\ ~session'["server"].over
  BY <1>1 DEF IInv
<1> QED BY <1>1, <1>2, Remains

LEMMA HandlerRemains ==
    ASSUME IInv, TypeOK',
           \/ ClientParse \/ ClientRekeyRequested \/ ClientKeyCheck \/ ClientWrongPacket
           \/ ServerParse \/ ServerRekeyRequested \/ ServerDh \/ ServerDhAssertion
    PROVE  IInv'
<1>1. ReadsTyped /\ LinkedNow(behind) /\ EndsNow(behind)
  BY TypeOKSplit DEF IInv, LinkedNow, EndsNow
<1>2. UNCHANGED <<behind, limits>>
  BY DEF ClientParse, ClientRekeyRequested, ClientKeyCheck, ClientWrongPacket,
     ServerParse, ServerRekeyRequested, ServerDh, ServerDhAssertion, Budgets
<1>3. Sound(behind)
  BY <1>1, ClientParseSound, ClientRekeyRequestedSound, ClientKeyCheckSound,
     ClientWrongPacketSound, ServerParseSound,
     ServerRekeyRequestedSound, ServerDhSound, ServerDhAssertionSound
<1>4. \A r \in Side : behind[r] => CrossingAnswers
  BY DEF IInv
<1> QED BY <1>2, <1>3, <1>4, SoundRemains

(* NEWKEYS ends the exchange, and with it what stood behind its KEXINIT. *)
LEMMA NewKeysRemains ==
    ASSUME IInv, TypeOK', ClientNewKeys \/ ServerNewKeys
    PROVE  IInv'
<1>1. ReadsTyped /\ LinkedNow(behind) /\ EndsNow(behind)
  BY TypeOKSplit DEF IInv, LinkedNow, EndsNow
<1>2. behind \in [Side -> BOOLEAN] /\ \A r \in Side : behind[r] => CrossingAnswers
  BY DEF IInv, TypeOK
<1>3. PICK r \in Side :
        /\ behind' = [behind EXCEPT ![r] = FALSE] /\ limits' = limits
        /\ (r = "client" /\ ClientNewKeys) \/ (r = "server" /\ ServerNewKeys)
  BY DEF ClientNewKeys, ServerNewKeys, Budgets
<1> DEFINE late1 == behind'
<1>4. /\ ~late1[r] /\ \A t \in Side : t # r => late1[t] = behind[t]
      /\ \A t \in Side : late1[t] => CrossingAnswers
  BY <1>2, <1>3
<1>5. late1 = behind'
  OBVIOUS
<1> HIDE DEF late1
<1>6. Sound(late1)
  <2>1. CASE r = "client" /\ ClientNewKeys
    BY <1>1, <1>4, <2>1, ClientNewKeysSound
  <2>2. CASE r = "server" /\ ServerNewKeys
    BY <1>1, <1>4, <2>2, ServerNewKeysSound
  <2> QED BY <1>3, <2>1, <2>2
<1> QED BY <1>3, <1>4, <1>5, <1>6, SoundRemains

LEMMA ReadConnRemains ==
    ASSUME IInv, TypeOK', NEW t \in Side, ReadConn(t)
    PROVE  IInv'
<1>1. ReadsTyped /\ LinkedNow(behind) /\ EndsNow(behind)
  BY TypeOKSplit DEF IInv, LinkedNow, EndsNow
<1>2. PICK n \in 0..1 :
        /\ n = 1 => session[t].kex = "None" \/ CrossingAnswers
        /\ ReadDone(t, session[t], [i \in 1..n |-> Plain(session[t], "CONN")])
        /\ behind' = [behind EXCEPT ![t] = @ \/ (n = 1 /\ session[t].kex = "KexInit")]
  BY DEF ReadConn
<1>3. /\ Reads(t, PacketType \ {"KEXINIT"})
      /\ session[t].encrypted /\ session[t].kex \in {"None", "KexInit"}
      /\ limits' = limits
  BY DEF ReadConn
<1>4. behind \in [Side -> BOOLEAN] /\ \A r \in Side : behind[r] => CrossingAnswers
  BY DEF IInv, TypeOK
<1>5. (session["server"].encrypted /\ session["server"].kex = "KexInit") \/ behind["server"]
        => session["server"].over
  BY DEF IInv, Linked, Agree
<1> DEFINE late1 == behind'
<1>6. /\ late1[t] <=> behind[t] \/ (n = 1 /\ session[t].kex = "KexInit")
      /\ \A r \in Side : r # t => late1[r] = behind[r]
  BY <1>2, <1>4
<1>7. late1 = behind'
  OBVIOUS
<1> HIDE DEF late1
<1>8. \A r \in Side : late1[r] => CrossingAnswers
  BY <1>2, <1>4, <1>6
<1>9. late1["server"] => session["server"].over
  BY <1>3, <1>5, <1>6
<1>10. CASE t = "client"
  <2>1. Sound(late1)
    BY <1>1, <1>2, <1>3, <1>6, <1>10, ClientReadConnSound
  <2> QED BY <1>3, <1>7, <1>8, <2>1, SoundRemains
<1>11. CASE t = "server"
  <2>1. Sound(late1)
    BY <1>1, <1>2, <1>3, <1>6, <1>9, <1>11, ServerReadConnSound
  <2> QED BY <1>3, <1>7, <1>8, <2>1, SoundRemains
<1> QED BY <1>10, <1>11

LEMMA LimitReachedRemains ==
    ASSUME IInv, TypeOK', NEW t \in Side, LimitReached(t)
    PROVE  IInv'
<1>1. ReadsTyped /\ LinkedNow(behind) /\ EndsNow(behind)
  BY TypeOKSplit DEF IInv, LinkedNow, EndsNow
<1>2. UNCHANGED behind /\ limits[t] > 0
        /\ limits' = [limits EXCEPT ![t] = @ - 1] /\ limits \in [Side -> Nat]
  BY DEF LimitReached, IInv, TypeOK
<1>3. \A r \in Side : behind'[r] => CrossingAnswers
  BY <1>2 DEF IInv
<1>4. /\ Linked(session'["client"], session'["server"], wire'["client"], wire'["server"],
                behind)
      /\ Ends(session'["client"], session'["server"], behind)
      /\ t = "client" => session'["server"].over = session["server"].over
  BY <1>1, LimitReachedSound
<1>5. ServerLimits = 0 => t = "client" /\ limits'["server"] = 0 /\ ~session'["server"].over
  <2> SUFFICES ASSUME ServerLimits = 0
               PROVE  t = "client" /\ limits'["server"] = 0 /\ ~session'["server"].over
    OBVIOUS
  <2>1. limits["server"] = 0 /\ ~session["server"].over
    BY DEF IInv
  <2>2. t # "server"
    BY <1>2, <2>1
  <2>3. limits'["server"] = limits["server"]
    BY <1>2, <2>2
  <2> QED BY <1>4, <2>1, <2>2, <2>3
<1> QED BY <1>2, <1>3, <1>4, <1>5, Remains

LEMMA StepKeepsIInv ==
    ASSUME IInv, [Next]_vars
    PROVE  IInv'
<1>1. TypeOK' /\ ReadsTyped /\ LinkedNow(behind) /\ EndsNow(behind)
  BY StepTyped, TypeOKSplit DEF IInv, LinkedNow, EndsNow
<1>8. \A r \in Side : behind[r] => CrossingAnswers
  BY DEF IInv
<1>2. CASE ClientReads
  BY <1>1, <1>2, HandlerRemains, NewKeysRemains, ReadConnRemains DEF ClientReads
<1>3. CASE ServerReads
  BY <1>1, <1>3, HandlerRemains, NewKeysRemains, ReadConnRemains DEF ServerReads
<1>4. ASSUME NEW t \in Side, Send(t)
      PROVE  IInv'
  <2>1. UNCHANGED <<behind, limits>>
    BY <1>4 DEF Send
  <2>2. Sound(behind)
    BY <1>1, <1>4, ClientSendSound, ServerSendSound
  <2> QED BY <1>1, <1>8, <2>1, <2>2, SoundRemains
<1>5. ASSUME NEW t \in Side, LimitReached(t)
      PROVE  IInv'
  BY <1>1, <1>5, LimitReachedRemains
<1>6. ASSUME NEW t \in Side, Hangup(t)
      PROVE  IInv'
  <2>1. UNCHANGED <<behind, limits>>
    BY <1>6 DEF Hangup
  <2>2. Sound(behind)
    BY <1>1, <1>6, HangupSound
  <2> QED BY <1>1, <1>8, <2>1, <2>2, SoundRemains
<1>7. CASE UNCHANGED vars
  <2>1. UNCHANGED <<session, wire, behind, limits>>
    BY <1>7 DEF vars
  <2> QED BY <1>1, <2>1 DEF IInv
<1> QED BY <1>2, <1>3, <1>4, <1>5, <1>6, <1>7 DEF Next

(* Both sides have written their first KEXINIT. *)
LEMMA InitIInv == Init => IInv
<1> SUFFICES ASSUME Init PROVE IInv
  OBVIOUS
<1> DEFINE c == session["client"]
           s == session["server"]
           u == wire["client"]
           d == wire["server"]
<1>1. TypeOK
  BY InitTyped
<1>2. c = Fresh("client") /\ s = Fresh("server")
        /\ u = <<KexInitPacket(Fresh("client"))>> /\ d = <<KexInitPacket(Fresh("server"))>>
  BY DEF Init
<1>3. \A r \in Side :
        /\ Fresh(r).kex = "KexInit" /\ Fresh(r).encrypted = FALSE /\ ~Fresh(r).parked
        /\ Fresh(r).cipher = Clear /\ ~Fresh(r).over /\ Fresh(r).status = "up"
        /\ Fresh(r).drawn = 1 /\ Fresh(r).exchange = OwnKexInit(r, NoExchange, 1)
  BY DEF Fresh
<1>4. \A r \in Side : KexInitPacket(Fresh(r)).type = "KEXINIT"
        /\ KexInitPacket(Fresh(r)).sealed = Clear /\ KexInitPacket(Fresh(r)).value = 1
  BY <1>3 DEF KexInitPacket, Sealed
<1>5. /\ c.exchange.client_kex_init = <<1>> /\ c.exchange.server_kex_init = <<>>
      /\ c.exchange.client_ephemeral = <<>> /\ c.exchange.server_ephemeral = <<>>
      /\ s.exchange.client_kex_init = <<>> /\ s.exchange.server_kex_init = <<1>>
      /\ s.exchange.client_ephemeral = <<>> /\ s.exchange.server_ephemeral = <<>>
  BY <1>2, <1>3 DEF OwnKexInit, NoExchange
<1>6. /\ c.kex = "KexInit" /\ c.encrypted = FALSE /\ ~c.parked /\ c.cipher = Clear
      /\ ~c.over /\ c.status = "up"
      /\ s.kex = "KexInit" /\ s.encrypted = FALSE /\ ~s.parked /\ s.cipher = Clear
      /\ ~s.over /\ s.status = "up"
  BY <1>2, <1>3
<1>7. /\ Len(u) = 1 /\ u[1].type = "KEXINIT" /\ u[1].sealed = Clear /\ u[1].value = 1
      /\ Len(d) = 1 /\ d[1].type = "KEXINIT" /\ d[1].sealed = Clear /\ d[1].value = 1
  BY <1>2, <1>4
<1>8. /\ \A r \in Side : ~behind[r]
      /\ limits["server"] = ServerLimits
  BY BoundsAssumption DEF Init
<1> HIDE DEF c, s, u, d
<1>9. Agree(c, s)
  <2>1. PhasesMatch(c, s) /\ Parked(c) /\ Parked(s)
    BY <1>6 DEF PhasesMatch, Parked
  <2>2. ~ClientAhead(c, s) /\ ~ServerAhead(c, s) /\ c.kex # "NewKeys"
    BY <1>6 DEF ClientAhead, ServerAhead
  <2>3. KeysMatch(c, s) /\ IdsMatch(c, s)
    BY <1>6, <2>2 DEF KeysMatch, IdsMatch
  <2>4. ExchangesMatch(c, s)
    BY <1>5, <1>6 DEF ExchangesMatch
  <2> QED BY <1>6, <2>1, <2>2, <2>3, <2>4 DEF Agree
<1>10. \A w \in {u, d} : Stream(w, 0, 1, <<>>, Clear, Clear)
  BY <1>7 DEF Stream, TypeAt
<1>11. UpAt(c, s, u, behind, 1)
  BY <1>5, <1>6, <1>7, <1>10 DEF UpAt, UpNewKeys, UpKexInit, UpEnd, UpKey
<1>12. DownAt(c, s, d, behind, 1)
  BY <1>5, <1>6, <1>7, <1>10 DEF DownAt, DownNewKeys, DownKexInit, DownEnd, DownKey
<1>13. Linked(c, s, u, d, behind)
  BY <1>7, <1>8, <1>9, <1>11, <1>12 DEF Linked, Up, Down
<1>14. Ends(c, s, behind)
  BY <1>6 DEF Ends
<1>15. /\ \A r \in Side : behind[r] => CrossingAnswers
       /\ (ServerLimits = 0 => limits["server"] = 0 /\ ~s.over)
  BY <1>6, <1>8
<1> QED BY <1>1, <1>13, <1>14, <1>15 DEF IInv, c, s, u, d

(* Whatever the bounds, IInv holds throughout: the packets under way always *)
(* fit the Kex states of the two sessions (client_parse, server_parse and   *)
(* the handlers of ECDH_INIT, ECDH_REPLY and NEWKEYS).                      *)
THEOREM WireInvariant == Spec => []IInv
<1>1. IInv /\ [Next]_vars => IInv'
  BY StepKeepsIInv
<1> QED BY InitIInv, <1>1, PTL DEF Spec

-----------------------------------------------------------------------------
(* What the invariant shows. *)

(* In each direction the packet to be read next is sealed with the key its  *)
(* reader has in use.                                                       *)
LEMMA HeadSealed ==
    ASSUME NEW w \in Seq(Packet), w # <<>>, NEW n \in {0, 1}, NEW k, NEW e,
           NEW first, NEW next, Stream(w, n, k, e, first, next),
           n = 0 => next = first
    PROVE  Head(w).sealed = first
<1>1. 1 \in 1..Len(w) /\ Head(w) = w[1]
  BY EmptySeq
<1>2. w[1].sealed = IF 1 <= n THEN first ELSE next
  BY <1>1 DEF Stream
<1> QED BY <1>1, <1>2

LEMMA OpensNext ==
    ASSUME IInv
    PROVE  SealedForReader
<1> DEFINE c == session["client"]
           s == session["server"]
           u == wire["client"]
           d == wire["server"]
<1>1. u \in Seq(Packet) /\ d \in Seq(Packet)
        /\ Up(c, s, u, behind) /\ Down(c, s, d, behind)
  BY DEF IInv, TypeOK, Linked
<1> HIDE DEF c, s, u, d
<1>2. ASSUME s.status = "up", u # <<>> PROVE Head(u).sealed = s.cipher
  <2>1. PICK k \in 0..Len(u) : UpAt(c, s, u, behind, k)
    BY <1>1, <1>2 DEF Up
  <2>2. Stream(u, UpNewKeys(c, s), k, UpEnd(c, s), s.cipher, UpKey(c, s))
    BY <2>1 DEF UpAt
  <2>3. UpNewKeys(c, s) \in {0, 1} /\ (UpNewKeys(c, s) = 0 => UpKey(c, s) = s.cipher)
    BY DEF UpNewKeys, UpKey
  <2> QED BY <1>1, <1>2, <2>2, <2>3, HeadSealed
<1>3. ASSUME c.status = "up", d # <<>> PROVE Head(d).sealed = c.cipher
  <2>1. PICK k \in 0..Len(d) : DownAt(c, s, d, behind, k)
    BY <1>1, <1>3 DEF Down
  <2>2. Stream(d, DownNewKeys(c), k, DownEnd(c, s), c.cipher, DownKey(c))
    BY <2>1 DEF DownAt
  <2>3. DownNewKeys(c) \in {0, 1} /\ (DownNewKeys(c) = 0 => DownKey(c) = c.cipher)
    BY DEF DownNewKeys, DownKey
  <2> QED BY <1>1, <1>3, <2>2, <2>3, HeadSealed
<1> QED BY <1>2, <1>3 DEF SealedForReader, c, s, u, d

LEMMA StateFacts ==
    ASSUME IInv
    PROVE  HonestSignature /\ SessionIdsAgree /\ ExchangeKept /\ FailuresExplained
<1> DEFINE c == session["client"]
           s == session["server"]
<1>1. IdsMatch(c, s) /\ Parked(c) /\ Parked(s) /\ Ends(c, s, behind)
  BY DEF IInv, Linked, Agree
<1> HIDE DEF c, s
<1>3. c.encrypted /\ s.encrypted => c.session_id = s.session_id
  BY <1>1 DEF IdsMatch
<1>4. \A ep \in {c, s} : ep.encrypted /\ ep.kex = "None" => ep.parked
  BY <1>1 DEF Parked
<1>5. /\ c.status # "WrongServerSig"
      /\ c.status = "Kex" => s.kex = "KexInit" /\ s.over
      /\ c.status = "Inconsistent" => behind["server"] /\ s.over
      /\ s.status \in {"up", "closed", "panic"}
      /\ s.status = "panic" => behind["client"]
  BY <1>1 DEF Ends
<1>6. HonestSignature /\ FailuresExplained
  BY <1>5 DEF HonestSignature, FailuresExplained, c, s
<1>7. SessionIdsAgree
  BY <1>3 DEF SessionIdsAgree, c, s
<1>8. ExchangeKept
  BY <1>4 DEF ExchangeKept, c, s
<1> QED BY <1>6, <1>7, <1>8

(* Whatever crosses the two cipher switches, and however many re-exchanges  *)
(* there are, a live session opens each packet with the key it was sealed   *)
(* with (cipher::read after newkeys and encrypted).                         *)
THEOREM OpensEveryPacket == Spec => []SealedForReader
BY WireInvariant, OpensNext, PTL

(* The client never refuses the signature of its server: in every exchange, *)
(* also one both sides have started, the two have collected the same        *)
(* transcript (server_key_check).                                           *)
THEOREM SignatureAccepted == Spec => []HonestSignature
<1>1. IInv => HonestSignature
  BY StateFacts
<1> QED BY WireInvariant, <1>1, PTL

(* Both sides of an encrypted connection have the same session id, the one  *)
(* the authentication signatures cover (compute_keys, encrypted).           *)
THEOREM SameSessionId == Spec => []SessionIdsAgree
<1>1. IInv => SessionIdsAgree
  BY StateFacts
<1> QED BY WireInvariant, <1>1, PTL

(* enc.exchange is there whenever a re-exchange may start, so neither flush *)
(* nor the KEXINIT handlers ever find it taken (take() in initiate_rekey    *)
(* and received_rekey, newkeys).                                            *)
THEOREM ExchangeNeverLost == Spec => []ExchangeKept
<1>1. IInv => ExchangeKept
  BY StateFacts
<1> QED BY WireInvariant, <1>1, PTL

(* A re-exchange fails in three ways only: the client refuses the KEXINIT   *)
(* of an exchange the server has started at its own limit; the client finds *)
(* a packet the server sent behind its KEXINIT of that same exchange; the   *)
(* assertion of KexDh::parse finds one the client sent behind its own.      *)
THEOREM FailuresHaveACause == Spec => []FailuresExplained
<1>1. IInv => FailuresExplained
  BY StateFacts
<1> QED BY WireInvariant, <1>1, PTL

(* If no limit of the server is reached and nothing is answered behind a    *)
(* pending KEXINIT, no session ever fails: for what applications send, the  *)
(* is_rekeying gate is enough.                                              *)
THEOREM QuietNeverFails ==
    ASSUME ServerLimits = 0, ~CrossingAnswers
    PROVE  Spec => []NoFailure
<1>1. IInv => NoFailure
  <2> SUFFICES ASSUME IInv PROVE NoFailure
    OBVIOUS
  <2> DEFINE c == session["client"]
             s == session["server"]
  <2>1. ~s.over /\ ~behind["client"] /\ Ends(c, s, behind)
    BY DEF IInv
  <2> HIDE DEF c, s
  <2>2. c.status = "up" /\ s.status = "up"
    BY <2>1 DEF Ends
  <2> QED BY <2>2 DEF NoFailure, c, s
<1> QED BY WireInvariant, <1>1, PTL

=============================================================================
