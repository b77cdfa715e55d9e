------------------------------- MODULE Rekey -------------------------------
(***************************************************************************)
(* The first key exchange and the later key re-exchanges of one SSH        *)
(* connection between a thrussh client and a thrussh server: the Kex state *)
(* machines of session.rs, client/mod.rs, client/encrypted.rs,             *)
(* server/mod.rs and server/encrypted.rs, the cipher switch, the session   *)
(* id, the re-exchange limit of Encrypted::flush and the is_rekeying gate  *)
(* of the two event loops.                                                 *)
(*                                                                         *)
(* One action is one iteration of an event loop: it reads one packet or    *)
(* takes one message of the application, flushes, and writes the result to *)
(* the socket.  The transport is a reliable FIFO byte stream per           *)
(* direction, so `wire' holds whole packets.  Packets of the service,      *)
(* authentication and connection layers are all "CONN" here; what they do  *)
(* is the business of the other modules.  Randomness is a counter per      *)
(* side, and the exchange hash is the transcript it is computed from.      *)
(***************************************************************************)
EXTENDS Naturals, Sequences

CONSTANTS
    MaxSends,         \* CONN packets each application may hand to its session
    MaxAnswers,       \* CONN packets each session may emit in answer to one
    ClientLimits,     \* times the client's write or time limit is reached
    ServerLimits,     \* the same for the server
    CrossingAnswers   \* may a session answer while its own KEXINIT is pending?

ASSUME BoundsAssumption ==
    /\ MaxSends \in Nat /\ MaxAnswers \in Nat
    /\ ClientLimits \in Nat /\ ServerLimits \in Nat
    /\ CrossingAnswers \in BOOLEAN

VARIABLES
    session,   \* the Session record of each side
    wire,      \* wire[s]: packets s has written and its peer has not read
    sends,     \* application messages left, per side
    answers,   \* answers left, per side
    limits,    \* limit crossings left, per side
    behind     \* history: has the side answered behind the KEXINIT of its
               \* re-exchange under way?

vars == <<session, wire, sends, answers, limits, behind>>

Side == {"client", "server"}

Peer(s) == IF s = "client" THEN "server" ELSE "client"

Exchange == [client_kex_init  : Seq(Nat), server_kex_init  : Seq(Nat),
             client_ephemeral : Seq(Nat), server_ephemeral : Seq(Nat)]

NoExchange == [client_kex_init  |-> <<>>, server_kex_init  |-> <<>>,
               client_ephemeral |-> <<>>, server_ephemeral |-> <<>>]

(* CLEAR_PAIR before the first exchange, then the keys of an exchange hash. *)
Clear == NoExchange

Stage == {"None", "KexInit", "KexDh", "KexDhDone", "NewKeys"}

Status == {"up", "closed", "Kex", "Inconsistent", "WrongServerSig", "panic"}

PacketType == {"KEXINIT", "ECDH_INIT", "ECDH_REPLY", "NEWKEYS", "CONN"}

NewKeys == [cipher : Exchange, session_id : Exchange]

(* `kex' stands for common.kex until `encrypted', for enc.rekey afterwards; *)
(* `parked' says that enc.exchange is Some; `over' that flush would find    *)
(* the write limit or the time limit reached.                               *)
Endpoint ==
    [encrypted : BOOLEAN, kex : Stage, exchange : Exchange, parked : BOOLEAN,
     cipher : Exchange, session_id : Exchange, newkeys : NewKeys,
     over : BOOLEAN, drawn : Nat, status : Status]

Packet == [type : PacketType, sealed : Exchange, value : Nat, signed : Exchange]

(* CipherPair::write: a packet is sealed with the writer's current key. *)
Sealed(ep, type, value, signed) ==
    [type |-> type, sealed |-> ep.cipher, value |-> value, signed |-> signed]

Plain(ep, type) == Sealed(ep, type, 0, NoExchange)

-----------------------------------------------------------------------------
(* Building blocks of the handlers. *)

(* client_write / server_write: a fresh KEXINIT replaces the own field. *)
OwnKexInit(s, exchange, n) ==
    IF s = "client" THEN [exchange EXCEPT !.client_kex_init = <<n>>]
                    ELSE [exchange EXCEPT !.server_kex_init = <<n>>]

WriteKexInit(s, ep) ==
    [ep EXCEPT !.drawn = @ + 1,
               !.exchange = OwnKexInit(s, @, ep.drawn + 1)]

KexInitPacket(ep) == Sealed(ep, "KEXINIT", ep.drawn, NoExchange)

(* KexInit::initiate_rekey and KexInit::received_rekey take enc.exchange    *)
(* and clear what the last exchange left in it.                             *)
TakeExchange_NotCleared(ep) == [ep EXCEPT !.parked = FALSE]   \* mutant

TakeExchange(ep) == [ep EXCEPT !.parked = FALSE, !.exchange = NoExchange]

(* The condition under which the two flush functions start a re-exchange. *)
MustRekey(ep) == ep.encrypted /\ ep.over /\ ep.kex = "None" /\ ep.parked

InitiateRekey(s, ep) ==
    [WriteKexInit(s, TakeExchange(ep)) EXCEPT !.kex = "KexInit"]

Flushed(s, ep) == IF MustRekey(ep) THEN InitiateRekey(s, ep) ELSE ep

FlushedPackets(s, ep) ==
    IF MustRekey(ep) THEN <<KexInitPacket(InitiateRekey(s, ep))>> ELSE <<>>

(* KexDhDone::compute_keys: the first exchange hash is the session id. *)
ComputeKeys(ep, hash) ==
    [cipher |-> hash,
     session_id |-> IF ep.encrypted THEN ep.session_id ELSE hash]

(* CommonSession::encrypted, after the first NEWKEYS. *)
Encrypted(ep) ==
    [ep EXCEPT !.encrypted = TRUE, !.kex = "None", !.parked = TRUE,
               !.cipher = ep.newkeys.cipher,
               !.session_id = ep.newkeys.session_id]

(* Mutants of Rekeyed. *)
Rekeyed_NewSessionId(ep) ==
    [ep EXCEPT !.kex = "None", !.parked = TRUE, !.cipher = ep.newkeys.cipher,
               !.session_id = ep.newkeys.cipher]
Rekeyed_ExchangeLost(ep) ==
    [ep EXCEPT !.kex = "None", !.cipher = ep.newkeys.cipher]
Rekeyed_StillInKex(ep) ==
    [ep EXCEPT !.parked = TRUE, !.cipher = ep.newkeys.cipher]

(* CommonSession::newkeys, after a later one. *)
Rekeyed(ep) ==
    [ep EXCEPT !.kex = "None", !.parked = TRUE, !.cipher = ep.newkeys.cipher]

(* is_rekeying, which keeps the application's messages waiting. *)
IsRekeying_FirstOnly(ep) == ~ep.encrypted   \* mutant

IsRekeying(ep) == ~ep.encrypted \/ ep.kex # "None"

-----------------------------------------------------------------------------
(* Iterations of an event loop. *)

Reads(s, types) ==
    /\ session[s].status = "up"
    /\ wire[Peer(s)] # <<>>
    /\ Head(wire[Peer(s)]).type \in types

(* The packet was handled: flush, write what was produced, forget it. *)
ReadDone(s, ep, out) ==
    /\ session' = [session EXCEPT ![s] = Flushed(s, ep)]
    /\ wire' = [wire EXCEPT ![s] = @ \o out \o FlushedPackets(s, ep),
                            ![Peer(s)] = Tail(@)]

(* reply() returned an error or panicked: nothing is written any more. *)
ReadFailed(s, why) ==
    /\ session' = [session EXCEPT ![s].status = why]
    /\ wire' = [wire EXCEPT ![Peer(s)] = Tail(@)]

Budgets == <<sends, answers, limits>>

(* client_parse in state KexInit: answer the server's KEXINIT by ECDH_INIT. *)
ClientDh(ep, kexinit) ==
    [ep EXCEPT !.kex = "KexDhDone", !.drawn = @ + 1,
               !.exchange.server_kex_init = Append(@, kexinit),
               !.exchange.client_ephemeral = <<ep.drawn + 1>>]

ClientParse ==
    /\ Reads("client", {"KEXINIT"})
    /\ session["client"].kex = "KexInit"
    /\ LET ep == ClientDh(session["client"], Head(wire["server"]).value)
       IN  ReadDone("client", ep, <<Sealed(ep, "ECDH_INIT", ep.drawn, NoExchange)>>)
    /\ UNCHANGED <<Budgets, behind>>

(* KEXINIT while this side has not sent one.  received_rekey fills in algo  *)
(* and client_parse refuses a KexInit whose algo is filled in.  When        *)
(* enc.exchange is gone, the Kex that rekey.take() removed is just dropped. *)
ClientRekeyRequested ==
    /\ Reads("client", {"KEXINIT"})
    /\ session["client"].encrypted
    /\ session["client"].kex # "KexInit"
    /\ IF session["client"].parked
       THEN ReadFailed("client", "Kex")
       ELSE ReadDone("client", [session["client"] EXCEPT !.kex = "None"], <<>>)
    /\ UNCHANGED <<Budgets, behind>>

(* KexDhDone::server_key_check: the signature covers the server's           *)
(* transcript; then NEWKEYS goes out under the old key.                     *)
ClientKeyCheck ==
    /\ Reads("client", {"ECDH_REPLY"})
    /\ session["client"].kex = "KexDhDone"
    /\ LET p    == Head(wire["server"])
           ep   == session["client"]
           hash == [ep.exchange EXCEPT !.server_ephemeral = Append(@, p.value)]
       IN  IF p.signed = hash
           THEN ReadDone("client",
                         [ep EXCEPT !.kex = "NewKeys", !.exchange = hash,
                                    !.newkeys = ComputeKeys(ep, hash)],
                         <<Plain(ep, "NEWKEYS")>>)
           ELSE ReadFailed("client", "WrongServerSig")
    /\ UNCHANGED <<Budgets, behind>>

ClientWrongPacket ==
    /\ Reads("client", PacketType \ {"ECDH_REPLY", "KEXINIT"})
    /\ session["client"].kex = "KexDhDone"
    /\ ReadFailed("client", "Inconsistent")
    /\ UNCHANGED <<Budgets, behind>>

(* The first time the client asks for the authentication service at once;   *)
(* later, the byte count and the clock of the limits restart.               *)
ClientNewKeys ==
    /\ Reads("client", PacketType)
    /\ session["client"].kex = "NewKeys"
    /\ session["client"].encrypted => Head(wire["server"]).type # "KEXINIT"
    /\ LET ep == session["client"]
       IN  IF Head(wire["server"]).type # "NEWKEYS"
           THEN ReadFailed("client", "Kex")
           ELSE IF ep.encrypted
           THEN ReadDone("client", [Rekeyed(ep) EXCEPT !.over = FALSE], <<>>)
           ELSE ReadDone("client", Encrypted(ep), <<Plain(Encrypted(ep), "CONN")>>)
    /\ behind' = [behind EXCEPT !["client"] = FALSE]
    /\ UNCHANGED Budgets

(* server_parse takes the client's KEXINIT into the transcript. *)
KexInitReceived_WrongStage(ep, kexinit) ==   \* mutant
    [ep EXCEPT !.kex = "KexDhDone",
               !.exchange.client_kex_init = Append(@, kexinit)]

KexInitReceived(ep, kexinit) ==
    [ep EXCEPT !.kex = "KexDh",
               !.exchange.client_kex_init = Append(@, kexinit)]

(* The server has sent its own KEXINIT before. *)
ServerParse ==
    /\ Reads("server", {"KEXINIT"})
    /\ session["server"].kex = "KexInit"
    /\ ReadDone("server",
                KexInitReceived(session["server"], Head(wire["client"]).value), <<>>)
    /\ UNCHANGED <<Budgets, behind>>

(* It has not: received_rekey and server_parse, which now sends it.  When   *)
(* enc.exchange is gone, the Kex that rekey.take() removed is just dropped. *)
ServerRekeyRequested ==
    /\ Reads("server", {"KEXINIT"})
    /\ session["server"].encrypted
    /\ session["server"].kex # "KexInit"
    /\ LET ep  == session["server"]
           ep2 == WriteKexInit("server", TakeExchange(ep))
       IN  IF ep.parked
           THEN ReadDone("server",
                         KexInitReceived(ep2, Head(wire["client"]).value),
                         <<KexInitPacket(ep2)>>)
           ELSE ReadDone("server", [ep EXCEPT !.kex = "None"], <<>>)
    /\ UNCHANGED <<Budgets, behind>>

(* KexDh::parse: ECDH_REPLY and NEWKEYS leave under the old key. *)
ServerDhExchange(ep, ephemeral) ==
    [ep.exchange EXCEPT !.client_ephemeral = Append(@, ephemeral),
                        !.server_ephemeral = <<ep.drawn + 1>>]

ServerDhDone_SwitchesAtOnce(ep, hash) ==   \* mutant
    [ep EXCEPT !.kex = "NewKeys", !.exchange = hash, !.drawn = @ + 1,
               !.newkeys = ComputeKeys(ep, hash), !.cipher = hash]

ServerDhDone(ep, hash) ==
    [ep EXCEPT !.kex = "NewKeys", !.exchange = hash, !.drawn = @ + 1,
               !.newkeys = ComputeKeys(ep, hash)]

ServerDh ==
    /\ Reads("server", {"ECDH_INIT"})
    /\ session["server"].kex = "KexDh"
    /\ LET ep   == session["server"]
           hash == ServerDhExchange(ep, Head(wire["client"]).value)
       IN  ReadDone("server",
                    ServerDhDone(ep, hash),
                    <<Sealed(ep, "ECDH_REPLY", ep.drawn + 1, hash),
                      Plain(ep, "NEWKEYS")>>)
    /\ UNCHANGED <<Budgets, behind>>

(* The assertion of KexDh::parse on any other packet. *)
ServerDhAssertion ==
    /\ Reads("server", PacketType \ {"ECDH_INIT", "KEXINIT"})
    /\ session["server"].kex = "KexDh"
    /\ ReadFailed("server", "panic")
    /\ UNCHANGED <<Budgets, behind>>

(* Unlike the client, the server never resets the counters of its limits. *)
ServerNewKeys ==
    /\ Reads("server", PacketType)
    /\ session["server"].kex = "NewKeys"
    /\ session["server"].encrypted => Head(wire["client"]).type # "KEXINIT"
    /\ LET ep == session["server"]
       IN  IF Head(wire["client"]).type # "NEWKEYS"
           THEN ReadFailed("server", "Kex")
           ELSE ReadDone("server",
                         IF ep.encrypted THEN Rekeyed(ep) ELSE Encrypted(ep), <<>>)
    /\ behind' = [behind EXCEPT !["server"] = FALSE]
    /\ UNCHANGED Budgets

(* Any other packet, also while an own KEXINIT is pending: the session may  *)
(* answer (a window adjustment, a reply, data of the handler).              *)
ReadConn(s) ==
    /\ Reads(s, PacketType \ {"KEXINIT"})
    /\ session[s].encrypted
    /\ session[s].kex \in {"None", "KexInit"}
    /\ \E n \in 0..1 :
          /\ n <= answers[s]
          /\ n = 1 => session[s].kex = "None" \/ CrossingAnswers
          /\ ReadDone(s, session[s], [i \in 1..n |-> Plain(session[s], "CONN")])
          /\ answers' = [answers EXCEPT ![s] = @ - n]
          /\ behind' = [behind EXCEPT ![s] = @ \/ (n = 1 /\ session[s].kex = "KexInit")]
    /\ UNCHANGED <<sends, limits>>

ClientReads == \/ ClientParse \/ ClientRekeyRequested \/ ClientKeyCheck
               \/ ClientWrongPacket \/ ClientNewKeys \/ ReadConn("client")

ServerReads == \/ ServerParse \/ ServerRekeyRequested \/ ServerDh
               \/ ServerDhAssertion \/ ServerNewKeys \/ ReadConn("server")

(* receiver.recv(), taken only if !is_rekeying(). *)
Send(s) ==
    /\ session[s].status = "up"
    /\ ~IsRekeying(session[s])
    /\ sends[s] > 0
    /\ sends' = [sends EXCEPT ![s] = @ - 1]
    /\ session' = [session EXCEPT ![s] = Flushed(s, @)]
    /\ wire' = [wire EXCEPT ![s] = @ \o <<Plain(session[s], "CONN")>>
                                     \o FlushedPackets(s, session[s])]
    /\ UNCHANGED <<answers, limits, behind>>

(* The written bytes or the time since last_rekey pass the limit; only the  *)
(* next flush looks at them.                                                *)
LimitReached(s) ==
    /\ session[s].status = "up"
    /\ session[s].encrypted /\ ~session[s].over
    /\ limits[s] > 0
    /\ limits' = [limits EXCEPT ![s] = @ - 1]
    /\ session' = [session EXCEPT ![s].over = TRUE]
    /\ UNCHANGED <<wire, sends, answers, behind>>

(* End of stream: the read yields fewer than five bytes and the loop ends. *)
Hangup(s) ==
    /\ session[s].status = "up"
    /\ session[Peer(s)].status # "up"
    /\ wire[Peer(s)] = <<>>
    /\ session' = [session EXCEPT ![s].status = "closed"]
    /\ UNCHANGED <<wire, sends, answers, limits, behind>>

-----------------------------------------------------------------------------
(* Both sides have read the peer's identification and written a KEXINIT. *)
Fresh(s) ==
    [encrypted |-> FALSE, kex |-> "KexInit",
     exchange |-> OwnKexInit(s, NoExchange, 1), parked |-> FALSE,
     cipher |-> Clear, session_id |-> NoExchange,
     newkeys |-> [cipher |-> Clear, session_id |-> NoExchange],
     over |-> FALSE, drawn |-> 1, status |-> "up"]

Init ==
    /\ session = [s \in Side |-> Fresh(s)]
    /\ wire = [s \in Side |-> <<KexInitPacket(Fresh(s))>>]
    /\ sends = [s \in Side |-> MaxSends]
    /\ answers = [s \in Side |-> MaxAnswers]
    /\ limits = [s \in Side |-> IF s = "client" THEN ClientLimits ELSE ServerLimits]
    /\ behind = [s \in Side |-> FALSE]

Next ==
    \/ ClientReads
    \/ ServerReads
    \/ \E s \in Side : Send(s) \/ LimitReached(s) \/ Hangup(s)

Spec == Init /\ [][Next]_vars

(* The event loops keep polling their socket; applications and clocks owe   *)
(* nothing.                                                                 *)
FairSpec == Spec /\ WF_vars(ClientReads) /\ WF_vars(ServerReads)

-----------------------------------------------------------------------------
(* Every variable keeps its type, and each side the Kex states of its role. *)
TypeOK ==
    /\ session \in [Side -> Endpoint]
    /\ session["client"].kex # "KexDh" /\ session["server"].kex # "KexDhDone"
    /\ wire \in [Side -> Seq(Packet)]
    /\ sends \in [Side -> Nat]
    /\ answers \in [Side -> Nat]
    /\ limits \in [Side -> Nat]
    /\ behind \in [Side -> BOOLEAN]

(* A live session opens the next packet with the key it was sealed with:    *)
(* the two cipher switches never get out of step with the packets in        *)
(* flight, whatever crosses them (cipher::read after newkeys/encrypted).    *)
SealedForReader ==
    \A s \in Side :
        session[Peer(s)].status = "up" /\ wire[s] # <<>>
            => Head(wire[s]).sealed = session[Peer(s)].cipher

(* The transcript the server signs is the one the client has collected,     *)
(* also in a re-exchange both sides have started (server_key_check).        *)
HonestSignature == session["client"].status # "WrongServerSig"

(* Two encrypted sides have the same session id: the hash of the first      *)
(* exchange (compute_keys, encrypted).                                      *)
SessionIdsAgree ==
    (\A s \in Side : session[s].encrypted)
        => session["client"].session_id = session["server"].session_id

(* enc.exchange is never lost: an encrypted session that is not             *)
(* re-exchanging can take part in the next re-exchange (flush, KEXINIT).    *)
ExchangeKept ==
    \A s \in Side :
        session[s].status = "up" /\ session[s].encrypted /\ session[s].kex = "None"
            => session[s].parked

(* How a re-exchange can fail, and the only ways.  A client refuses the     *)
(* KEXINIT of an exchange its server has started at its own limit and that  *)
(* is still pending there (received_rekey).  Otherwise a packet stood       *)
(* between a KEXINIT and the exchange's next packet: one the server sent    *)
(* behind its KEXINIT of the same exchange (client_read_encrypted), or one  *)
(* the client sent behind its own (the assertion of KexDh::parse).  The     *)
(* session's flush writes such packets, although its comment says "and      *)
(* we've not started to rekey"; what applications send waits.               *)
FailuresExplained ==
    LET client == session["client"]  server == session["server"] IN
    /\ client.status = "Kex" => server.kex = "KexInit" /\ server.over
    /\ client.status = "Inconsistent" => behind["server"] /\ server.over
    /\ server.status \in {"up", "closed", "panic"}
    /\ server.status = "panic" => behind["client"]

(* A session id, once set, never changes (newkeys leaves session_id alone). *)
SessionIdFixed ==
    [][\A s \in Side : session[s].encrypted =>
            /\ session'[s].encrypted
            /\ session'[s].session_id = session[s].session_id]_vars

(* No exchange fails when only the client starts re-exchanges and nothing   *)
(* is answered behind a pending KEXINIT: the is_rekeying gate suffices for  *)
(* what applications send.                                                  *)
NoFailure == \A s \in Side : session[s].status = "up"

(* A started exchange ends, so the is_rekeying gate opens again. *)
GateReopens == \A s \in Side : session[s].kex # "None" ~> session[s].kex = "None"

=============================================================================
