---------------------------- MODULE Compression ----------------------------
(***************************************************************************)
(* Auth with the compression that begins when it ends (compression.rs,     *)
(* InitCompression).  Each side has a compressor for what flush writes and *)
(* a decompressor for what its event loop reads; each is switched on at a  *)
(* place of its own, and no packet says whether it was compressed.         *)
(*                                                                         *)
(* The module adds to each step of Auth what it does to the compressors.   *)
(* Packets of a key re-exchange are not in Auth, and so not here: they are *)
(* written without the compressor and read with the decompressor.          *)
(***************************************************************************)
EXTENDS Auth, Negotiation

CONSTANTS
    Preferences,   \* algorithms an application may prefer (Config::preferred)
    KexInits,      \* what clients of another kind may offer
    Keys           \* the kinds of key of the server

(* A KEXINIT has the same lists whoever has written it. *)
ASSUME CompressionAssumption ==
    \A init \in KexInits, preferred \in Preferences : DOMAIN init = DOMAIN KexInit(preferred)

VARIABLES
    names,    \* of each side: the algorithms it has chosen
    codec,    \* of each side: is compress, is decompress Zlib?
    zipped    \* for each packet of toServer and toClient: is it compressed?

codecVars == <<names, codec, zipped>>

allVars == <<vars, codecVars>>

(* flush compresses what the step has written with the compressor it finds. *)
Written(queue, next, old, on) ==
    old \o [i \in 1 .. Len(next) - Len(queue) |-> on]

(* server_read_encrypted: the decompressor is switched on with the state,   *)
(* the compressor by the next packet, before it is handled.                 *)
AcceptedNow_NextPacket(sv, next) == sv.state = "InitCompression"   \* mutant

AcceptedNow(sv, next) ==
    sv.state = "WaitingAuthRequest" /\ next.state = "InitCompression"

ServerCodec(sv, next) ==
    [compress   |-> IF sv.state = "InitCompression"
                    THEN Zlib(names.server.server_compression)
                    ELSE codec.server.compress,
     decompress |-> IF AcceptedNow(sv, next)
                    THEN Zlib(names.server.client_compression)
                    ELSE codec.server.decompress]

(* client_read_encrypted and, at the end of the same iteration, after the   *)
(* flush, run.                                                              *)
ClientCodec(cl, next) ==
    IF cl.state # "Authenticated" /\ next.state = "Authenticated"
    THEN [compress   |-> Zlib(names.client.client_compression),
          decompress |-> Zlib(names.client.server_compression)]
    ELSE codec.client

(* A packet is read as it was written; or, plain, it is no zlib stream; or, *)
(* compressed, it is a packet of an unknown type.                           *)
Readable(queue, bits, decompress) == queue # <<>> /\ Head(bits) = decompress

ServerReadsAsWritten ==
    /\ Readable(toServer, zipped.toServer, codec.server.decompress)
    /\ ServerStep
    /\ codec' = [codec EXCEPT !.server = ServerCodec(server, server')]
    /\ zipped' = [toServer |-> Tail(zipped.toServer),
                  toClient |-> Written(toClient, toClient', zipped.toClient,
                                       codec'.server.compress)]
    /\ UNCHANGED names

(* run_stream: decompress returns an error. *)
ServerBreaks ==
    /\ server.status = "up"
    /\ toServer # <<>> /\ ~Head(zipped.toServer) /\ codec.server.decompress
    /\ Answers([server EXCEPT !.status = "closed"], <<>>)
    /\ zipped' = [zipped EXCEPT !.toServer = Tail(@)]
    /\ UNCHANGED <<ClientSide, vouched, granted, names, codec>>

(* No state but those behind SUCCESS does anything with an unknown type. *)
ServerIgnoresZipped ==
    /\ server.status = "up" /\ ~PastAuth(server)
    /\ toServer # <<>> /\ Head(zipped.toServer) /\ ~codec.server.decompress
    /\ Answers(server, <<>>)
    /\ zipped' = [zipped EXCEPT !.toServer = Tail(@)]
    /\ UNCHANGED <<ClientSide, vouched, granted, names, codec>>

(* The client's steps: those that read, and those that do not.  It meets no *)
(* packet that it cannot read: that is a part of ReadAsWritten.             *)
ClientKeeps == toClient' = toClient

ClientReadsAsWritten ==
    /\ ClientStep \/ ExternalReads \/ ExternalResponds
    /\ ClientKeeps \/ Readable(toClient, zipped.toClient, codec.client.decompress)
    /\ zipped' = [toServer |-> Written(toServer, toServer', zipped.toServer,
                                       codec.client.compress),
                  toClient |-> IF ClientKeeps THEN zipped.toClient
                               ELSE Tail(zipped.toClient)]
    /\ codec' = [codec EXCEPT !.client = ClientCodec(client, client')]
    /\ UNCHANGED names

(* What the client writes without having read. *)
ClientWrites ==
    /\ ClientOpens \/ ExternalRequest
    /\ zipped' = [zipped EXCEPT
          !.toServer = Written(toServer, toServer', @, codec.client.compress)]
    /\ UNCHANGED <<names, codec>>

Calls == (AppAuthenticate \/ AppDropsCall) /\ UNCHANGED codecVars

Answered == AppAnswers /\ UNCHANGED codecVars

ZipInit ==
    /\ Init
    /\ \E server_preferred \in Preferences :
       \E client_init \in (IF client.kind = "thrussh"
                         THEN {KexInit(preferred) : preferred \in Preferences}
                         ELSE KexInits) :
          LET server_init == KexInit(server_preferred)
          IN  names = [client |-> ReadKex("client", client_init, server_init),
                       server |-> ReadKex("server", server_init, client_init)]
    /\ Common(names.client) /\ Common(names.server)
    /\ ServerHasKey(names.server, Keys)
    /\ codec = [client |-> [compress |-> FALSE, decompress |-> FALSE],
                server |-> [compress |-> FALSE, decompress |-> FALSE]]
    /\ zipped = [toServer |-> <<FALSE>>, toClient |-> <<>>]

ServerSteps == ServerReadsAsWritten \/ ServerBreaks \/ ServerIgnoresZipped

ZipNext == ServerSteps \/ ClientReadsAsWritten \/ ClientWrites \/ Calls \/ Answered

ZipSpec == ZipInit /\ [][ZipNext]_allVars

ZipFairSpec ==
    /\ ZipSpec
    /\ WF_allVars(ServerSteps) /\ WF_allVars(ClientReadsAsWritten)
    /\ WF_allVars(Answered)

-----------------------------------------------------------------------------
(* Whatever the two sides prefer, they have chosen the same algorithms,     *)
(* each for itself (Select, read_kex).                                      *)
NamesAgree == names.client = names.server

(* However calls, verdicts and dropped calls interleave, both directions    *)
(* change over at the same packet at both ends.  Only the server may read   *)
(* what it should not: a second request of an application that has given up *)
(* on the first, when that one was granted; and whatever a client sends     *)
(* whose USERAUTH_INFO_RESPONSE was granted (InitCompression at both ends). *)
ReadAsWritten ==
    /\ Up /\ toClient # <<>> => Head(zipped.toClient) = codec.client.decompress
    /\ server.status = "up" /\ toServer # <<>> =>
          \/ Head(zipped.toServer) = codec.server.decompress
          \/ app.abandoned /\ PastAuth(server)
          \/ granted.user # NoUser /\ server.state = "WaitingAuthRequest"

=============================================================================
