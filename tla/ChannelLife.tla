---------------------------- MODULE ChannelLife ----------------------------
(***************************************************************************)
(* The life of the channels of one authenticated connection: how they are  *)
(* opened from either side, numbered by each side for itself, confirmed or *)
(* refused, used, and closed.  The client is client/session.rs,            *)
(* client/encrypted.rs and the default Handler of client/mod.rs with the   *)
(* calls of its Handle and Channel; the server is server/session.rs and    *)
(* server/encrypted.rs with whatever its Handler calls.                    *)
(*                                                                         *)
(* Data has no size here (windows are the business of FlowControl): any    *)
(* data packet may be the one that makes its receiver adjust the window.   *)
(* The field `of' of packets and table entries is a history variable: the  *)
(* channel they were made for.                                             *)
(***************************************************************************)
EXTENDS Naturals, Sequences, FiniteSets

CONSTANTS
    Calls,         \* calls of channel_open_session, _x11 and _direct_tcpip
    Forwards,      \* calls of the server's channel_open_forwarded_tcpip
    Types,         \* "known": one of those three; "other": asked for by the
                   \* client of another library
    ClientCloses,  \* may the client close channels?  This library's cannot.
    ClientOps,     \* bound: uses of its channels by the client's application
    ServerOps,     \* bound: calls on the session by the server's Handler
    IdLimit        \* bound: the highest channel number, far below 2^32

ASSUME ChannelAssumption ==
    /\ Calls \cap Forwards = {}
    /\ Types \subseteq {"known", "other"}
    /\ ClientCloses \in BOOLEAN
    /\ ClientOps \in Nat /\ ServerOps \in Nat /\ IdLimit \in Nat \ {0}

VARIABLES
    client,   \* the client's Session: fate, last_channel_id, channels, senders
    server,   \* the server's Session: fate, last_channel_id, channels; history:
              \* the channels it has ever opened for the client
    app,      \* how far each channel is for the client's application
    heard,    \* what the receiver of each of its channels was given
    up,       \* packets from the client to the server
    down,     \* packets from the server to the client
    left,     \* uses and calls the two applications may still make
    log       \* history: what the server asked for, closed and refused, and how
              \* often the client wanted a reply

vars == <<client, server, app, heard, up, down, left, log>>

Channels == Calls \cup Forwards

Packet(type, num, ch) ==
    [type |-> type, num |-> num, from |-> 0, wants |-> FALSE, of |-> ch]

Entry(remote, confirmed, ch) ==
    [recipient_channel |-> remote, confirmed |-> confirmed,
     wants_reply |-> FALSE, of |-> ch]

(* new_channel and new_channel_id: the next number that is not in use.      *)
(* That last_channel_id wraps after 2^32 of them is left out.               *)
NewId_NotAdvanced(side) == side.last_channel_id   \* mutant

NewId_FirstFree(side) ==   \* mutant
    CHOOSE n \in 2..IdLimit : n \notin DOMAIN side.channels

NewId(side) ==
    CHOOSE n \in side.last_channel_id + 1 .. IdLimit :
        /\ n \notin DOMAIN side.channels
        /\ \A k \in side.last_channel_id + 1 .. n - 1 : k \in DOMAIN side.channels

NoEntries == [n \in {} |-> {}]

Insert(table, id, value) ==
    [n \in DOMAIN table \cup {id} |-> IF n = id THEN value ELSE table[n]]

Remove(table, id) == [n \in DOMAIN table \ {id} |-> table[n]]

Opened(side, id, entry) ==
    [side EXCEPT !.last_channel_id = id, !.channels = Insert(@, id, entry)]

Ends(side, why) == [side EXCEPT !.fate = why]

-----------------------------------------------------------------------------
(* The client's application.  A message waits in the mailbox until the loop *)
(* serves it; the application cannot tell, so a call and its service are    *)
(* one step.                                                                *)

(* Handle::channel_open_*, run, Session::channel_open_*: the channel is     *)
(* entered, unconfirmed, and the receiver's sender kept under its number.   *)
CallOpen(ch, type) ==
    /\ client.fate = "running"
    /\ app[ch].phase = "none"
    /\ client.last_channel_id < IdLimit
    /\ LET id == NewId(client) IN
         /\ client' = [Opened(client, id, Entry(0, FALSE, ch))
                          EXCEPT !.senders = Insert(@, id, ch)]
         /\ up' = Append(up, Packet(IF type = "known" THEN "OPEN" ELSE "OPEN_OTHER",
                                    id, ch))
    /\ app' = [app EXCEPT ![ch].phase = "waiting"]
    /\ UNCHANGED <<server, heard, down, left, log>>

Confirmations(ch) == {i \in DOMAIN heard[ch] : heard[ch][i].what = "Open"}

(* wait_channel_confirmation: the Channel takes its number from the message. *)
CallReturnsChannel(ch) ==
    /\ app[ch].phase = "waiting"
    /\ \E i \in Confirmations(ch) :
          app' = [app EXCEPT ![ch] = [phase |-> "open", id |-> heard[ch][i].id]]
    /\ UNCHANGED <<client, server, heard, up, down, left, log>>

(* The sender was dropped: recv() yields None and the call Error::Disconnect. *)
Dropped(ch) ==
    \/ client.fate # "running"
    \/ \A id \in DOMAIN client.senders : client.senders[id] # ch

CallFails(ch) ==
    /\ app[ch].phase = "waiting"
    /\ Confirmations(ch) = {} /\ Dropped(ch)
    /\ app' = [app EXCEPT ![ch].phase = "failed"]
    /\ UNCHANGED <<client, server, heard, up, down, left, log>>

(* Channel::data, eof and the requests, served by the session: nothing      *)
(* happens when the number is not in the table any more, and data on an     *)
(* unconfirmed channel fails an assertion.                                  *)
UseTypes == {"DATA", "EOF", "REQUEST"} \cup (IF ClientCloses THEN {"CLOSE"} ELSE {})

UsePackets(type, c) ==
    IF type = "REQUEST"
    THEN {[Packet(type, c.recipient_channel, c.of) EXCEPT !.wants = w] : w \in BOOLEAN}
    ELSE {Packet(type, c.recipient_channel, c.of)}

ClientUse(ch, type) ==
    /\ client.fate = "running"
    /\ app[ch].phase = "open"
    /\ app[ch].id \in DOMAIN client.channels
    /\ left.client > 0
    /\ left' = [left EXCEPT !.client = @ - 1]
    /\ LET c == client.channels[app[ch].id]
       IN  IF type = "DATA" /\ ~c.confirmed
           THEN client' = Ends(client, "panic") /\ UNCHANGED <<up, log>>
           ELSE \E p \in UsePackets(type, c) :
                  /\ up' = Append(up, p)
                  /\ log' = IF p.wants
                            THEN [log EXCEPT !.wanted[c.of] = @ + 1] ELSE log
                  /\ UNCHANGED client
    /\ UNCHANGED <<server, app, heard, down>>

-----------------------------------------------------------------------------
(* client_read_authenticated and the default Handler. *)

ClientReads(types) ==
    /\ client.fate = "running"
    /\ down # <<>> /\ Head(down).type \in types
    /\ down' = Tail(down)

(* channels.get(&id): what reaches the receiver of the channel, if any. *)
Tell(id, what) ==
    heard' = IF id \in DOMAIN client.senders
             THEN [heard EXCEPT ![client.senders[id]] =
                        Append(@, [what |-> what, id |-> id])]
             ELSE heard

(* CHANNEL_OPEN_CONFIRMATION of a channel that is not in the table is an    *)
(* error of the whole connection.                                           *)
ClientConfirmation ==
    /\ ClientReads({"CONFIRM"})
    /\ LET p == Head(down)
       IN  IF p.num \in DOMAIN client.channels
           THEN /\ client' = [client EXCEPT
                       !.channels[p.num].recipient_channel = p.from,
                       !.channels[p.num].confirmed = TRUE]
                /\ Tell(p.num, "Open")
           ELSE /\ client' = Ends(client, "Inconsistent")
                /\ UNCHANGED heard
    /\ UNCHANGED <<server, app, up, left, log>>

(* CHANNEL_CLOSE and CHANNEL_OPEN_FAILURE: the session forgets the channel, *)
(* the default handler drops the sender.                                    *)
Forget_KeepsSender(side, id) ==   \* mutant
    [side EXCEPT !.channels = Remove(@, id)]

Forget(side, id) ==
    [side EXCEPT !.channels = Remove(@, id), !.senders = Remove(@, id)]

ClientClosed ==
    /\ ClientReads({"CLOSE", "OPEN_FAILURE"})
    /\ client' = Forget(client, Head(down).num)
    /\ UNCHANGED <<server, app, heard, up, left, log>>

(* CHANNEL_EOF, CHANNEL_REQUEST (exit-status and its like), CHANNEL_SUCCESS *)
(* only tell the receiver.                                                  *)
ClientTold ==
    /\ ClientReads({"EOF", "REQUEST", "SUCCESS"})
    /\ Tell(Head(down).num, Head(down).type)
    /\ UNCHANGED <<client, server, app, up, left, log>>

(* adjust_window_size: the WINDOW_ADJUST goes to the number the entry holds. *)
Adjustments(side, num) ==
    {<<>>} \cup (IF num \in DOMAIN side.channels
                 THEN {<<Packet("WINDOW_ADJUST", side.channels[num].recipient_channel,
                                side.channels[num].of)>>}
                 ELSE {})

ClientData ==
    /\ ClientReads({"DATA"})
    /\ \E answer \in Adjustments(client, Head(down).num) : up' = up \o answer
    /\ Tell(Head(down).num, "DATA")
    /\ UNCHANGED <<client, server, app, left, log>>

(* CHANNEL_WINDOW_ADJUST of a channel that is not in the table is an error  *)
(* of the whole connection.                                                 *)
ClientWindowAdjust ==
    /\ ClientReads({"WINDOW_ADJUST"})
    /\ IF Head(down).num \in DOMAIN client.channels
       THEN Tell(Head(down).num, "WINDOW_ADJUST") /\ UNCHANGED client
       ELSE client' = Ends(client, "WrongChannel") /\ UNCHANGED heard
    /\ UNCHANGED <<server, app, up, left, log>>

(* CHANNEL_FAILURE has no branch of its own. *)
ClientIgnores ==
    /\ ClientReads({"FAILURE"})
    /\ UNCHANGED <<client, server, app, heard, up, left, log>>

(* CHANNEL_OPEN "forwarded-tcpip".  The default handler leaves it without   *)
(* any answer; the tunnel's creates the channel, confirmed from the start,  *)
(* and confirms it to the server.                                           *)
Confirmation(p, id) == [Packet("CONFIRM", p.num, p.of) EXCEPT !.from = id]

ForwardId_Remote(side, p) == p.num   \* mutant

ForwardId(side, p) == NewId(side)

ClientForwardIgnored ==
    /\ ClientReads({"OPEN"})
    /\ UNCHANGED <<client, server, app, heard, up, left, log>>

ClientForwardAccepted ==
    /\ ClientReads({"OPEN"})
    /\ client.last_channel_id < IdLimit
    /\ LET p  == Head(down)
           id == ForwardId(client, p)
       IN  /\ client' = [Opened(client, id, Entry(p.num, TRUE, p.of))
                            EXCEPT !.senders = Insert(@, id, p.of)]
           /\ up' = Append(up, Confirmation(p, id))
           /\ app' = [app EXCEPT ![p.of] = [phase |-> "open", id |-> id]]
    /\ UNCHANGED <<server, heard, left, log>>

(* The server has closed the connection; what was still under way may be    *)
(* lost with it.                                                            *)
ClientHangup ==
    /\ client.fate = "running" /\ server.fate # "running"
    /\ client' = Ends(client, "over")
    /\ UNCHANGED <<server, app, heard, up, down, left, log>>

-----------------------------------------------------------------------------
(* The server's session: server_read_authenticated, which ends in a         *)
(* callback of the Handler; the callback makes at most one call on the      *)
(* session.  s is the session the library hands to it and answer what the   *)
(* library has already written; all of it leaves when the callback returns. *)

Returns(s, packets) == server' = s /\ down' = down \o packets

(* An assertion fails: the task is gone, with what it had not written. *)
Panics == server' = Ends(server, "panic") /\ UNCHANGED down

(* Session::close sends CHANNEL_CLOSE and keeps the entry. *)
SessionClose(s, answer, id) ==
    /\ Returns(s, Append(answer, Packet("CLOSE", s.channels[id].recipient_channel,
                                        s.channels[id].of)))
    /\ log' = [log EXCEPT !.closed = @ \cup {s.channels[id].of}]

(* Session::channel_open_failure is given the server's number and sends it  *)
(* as the client's; the channel was confirmed before the handler was asked. *)
SessionRefuse(s, answer, id) ==
    /\ Returns(s, Append(answer, Packet("OPEN_FAILURE", id, s.channels[id].of)))
    /\ log' = [log EXCEPT !.refused = @ \cup {s.channels[id].of}]

SessionEof(s, answer, id) ==
    /\ Returns(s, Append(answer, Packet("EOF", s.channels[id].recipient_channel,
                                        s.channels[id].of)))
    /\ UNCHANGED log

(* data, extended_data, xon_xoff_request, exit_status_request and           *)
(* exit_signal_request assert that the channel is confirmed.                *)
SessionWrite(s, answer, id) ==
    /\ IF s.channels[id].confirmed
       THEN \E type \in {"DATA", "REQUEST"} :
              Returns(s, Append(answer, Packet(type, s.channels[id].recipient_channel,
                                               s.channels[id].of)))
       ELSE Panics
    /\ UNCHANGED log

(* channel_success and channel_failure: only if a reply is still wanted. *)
Replied_WantKept(s, id) == s   \* mutant

Replied(s, id) == [s EXCEPT !.channels[id].wants_reply = FALSE]

SessionReply(s, answer, id) ==
    /\ IF ~s.channels[id].confirmed THEN Panics
       ELSE IF ~s.channels[id].wants_reply THEN Returns(s, answer)
       ELSE \E type \in {"SUCCESS", "FAILURE"} :
              Returns(Replied(s, id),
                      Append(answer, Packet(type, s.channels[id].recipient_channel,
                                            s.channels[id].of)))
    /\ UNCHANGED log

(* Session::channel_open_forwarded_tcpip. *)
SessionForward(s, answer, f) ==
    /\ f \notin log.asked
    /\ s.last_channel_id < IdLimit
    /\ LET id == NewId(s)
       IN  Returns(Opened(s, id, Entry(0, FALSE, f)),
                   Append(answer, Packet("OPEN", id, f)))
    /\ log' = [log EXCEPT !.asked = @ \cup {f}]

HandlerCall(s, answer) ==
    /\ left.server > 0
    /\ left' = [left EXCEPT !.server = @ - 1]
    /\ \/ \E id \in DOMAIN s.channels :
             \/ SessionClose(s, answer, id)
             \/ SessionRefuse(s, answer, id)
             \/ SessionEof(s, answer, id)
             \/ SessionWrite(s, answer, id)
             \/ SessionReply(s, answer, id)
       \/ \E f \in Forwards : SessionForward(s, answer, f)

Handler(s, answer) ==
    \/ Returns(s, answer) /\ UNCHANGED <<left, log>>
    \/ HandlerCall(s, answer)

ServerReads(types) ==
    /\ server.fate = "running"
    /\ up # <<>> /\ Head(up).type \in types
    /\ up' = Tail(up)
    /\ UNCHANGED <<client, app, heard>>

(* server_handle_channel_open: a known type is confirmed and entered before *)
(* the handler hears of it.                                                 *)
ServerOpen ==
    /\ ServerReads({"OPEN"})
    /\ server.last_channel_id < IdLimit
    /\ LET p  == Head(up)
           id == NewId(server)
       IN  Handler([Opened(server, id, Entry(p.num, TRUE, p.of))
                       EXCEPT !.served = @ \cup {p.of}],
                   <<Confirmation(p, id)>>)

(* An unknown type uses up a number and is refused. *)
Refusal_Confirms(p, id) == Confirmation(p, id)   \* mutant

Refusal(p, id) == Packet("OPEN_FAILURE", p.num, p.of)

ServerOpenOther ==
    /\ ServerReads({"OPEN_OTHER"})
    /\ server.last_channel_id < IdLimit
    /\ LET id == NewId(server)
       IN  Returns([server EXCEPT !.last_channel_id = id], <<Refusal(Head(up), id)>>)
    /\ UNCHANGED <<left, log>>

ServerClose ==
    /\ ServerReads({"CLOSE"})
    /\ Handler([server EXCEPT !.channels = Remove(@, Head(up).num)], <<>>)

ServerEof == ServerReads({"EOF"}) /\ Handler(server, <<>>)

ServerData ==
    /\ ServerReads({"DATA"})
    /\ \E answer \in Adjustments(server, Head(up).num) : Handler(server, answer)

(* An unknown request type is answered CHANNEL_FAILURE without a number;    *)
(* the client ignores that packet, so it is left out with the type.         *)
Wants(s, p) ==
    IF p.num \in DOMAIN s.channels
    THEN [s EXCEPT !.channels[p.num].wants_reply = p.wants] ELSE s

ServerRequest ==
    /\ ServerReads({"REQUEST"})
    /\ Handler(Wants(server, Head(up)), <<>>)

ServerWindowAdjust ==
    /\ ServerReads({"WINDOW_ADJUST"})
    /\ IF Head(up).num \in DOMAIN server.channels
       THEN Handler(server, <<>>)
       ELSE /\ server' = Ends(server, "WrongChannel")
            /\ UNCHANGED <<down, left, log>>

(* CHANNEL_OPEN_CONFIRMATION is an "unknown message": a channel the server  *)
(* has opened is never confirmed.                                           *)
ServerIgnores ==
    /\ ServerReads({"CONFIRM"})
    /\ UNCHANGED <<server, down, left, log>>

(* A message of a Handle, which outlives the callback it was taken in. *)
ServerHandle ==
    /\ server.fate = "running"
    /\ left.server > 0
    /\ left' = [left EXCEPT !.server = @ - 1]
    /\ \E id \in DOMAIN server.channels :
          \/ SessionEof(server, <<>>, id)
          \/ SessionWrite(server, <<>>, id)
    /\ UNCHANGED <<client, app, heard, up>>

ServerHangup ==
    /\ server.fate = "running" /\ client.fate # "running"
    /\ server' = Ends(server, "over")
    /\ UNCHANGED <<client, app, heard, up, down, left, log>>

-----------------------------------------------------------------------------
Init ==
    /\ client = [fate |-> "running", last_channel_id |-> 1,
                 channels |-> NoEntries, senders |-> NoEntries]
    /\ server = [fate |-> "running", last_channel_id |-> 1, channels |-> NoEntries,
                 served |-> {}]
    /\ app = [ch \in Channels |-> [phase |-> "none", id |-> 0]]
    /\ heard = [ch \in Channels |-> <<>>]
    /\ up = <<>> /\ down = <<>>
    /\ left = [client |-> ClientOps, server |-> ServerOps]
    /\ log = [asked |-> {}, closed |-> {}, refused |-> {},
              wanted |-> [ch \in Channels |-> 0]]

ClientReceives ==
    \/ ClientConfirmation \/ ClientClosed \/ ClientTold \/ ClientData
    \/ ClientWindowAdjust \/ ClientIgnores
    \/ ClientForwardIgnored \/ ClientForwardAccepted \/ ClientHangup

ServerReceives ==
    \/ ServerOpen \/ ServerOpenOther \/ ServerClose \/ ServerEof \/ ServerData
    \/ ServerRequest \/ ServerWindowAdjust \/ ServerIgnores \/ ServerHangup

Returned(ch) == CallReturnsChannel(ch) \/ CallFails(ch)

Next ==
    \/ \E ch \in Calls : \/ \E type \in Types : CallOpen(ch, type)
                         \/ Returned(ch)
    \/ \E ch \in Channels, type \in UseTypes : ClientUse(ch, type)
    \/ ClientReceives
    \/ ServerReceives
    \/ ServerHandle

Spec == Init /\ [][Next]_vars

(* Both event loops keep running (callbacks return, the socket delivers),   *)
(* and the task that awaits a call is polled.                               *)
FairSpec ==
    /\ Spec
    /\ WF_vars(ClientReceives) /\ WF_vars(ServerReceives)
    /\ \A ch \in Calls : WF_vars(Returned(ch))

-----------------------------------------------------------------------------
Fates == {"running", "over", "panic", "WrongChannel", "Inconsistent"}

PacketSet ==
    [type : {"OPEN", "OPEN_OTHER", "CONFIRM", "OPEN_FAILURE", "CLOSE", "EOF", "DATA",
             "REQUEST", "SUCCESS", "FAILURE", "WINDOW_ADJUST"},
     num : 0..IdLimit, from : 0..IdLimit, wants : BOOLEAN, of : Channels]

EntrySet ==
    [recipient_channel : 0..IdLimit, confirmed : BOOLEAN,
     wants_reply : BOOLEAN, of : Channels]

Messages == {"Open", "EOF", "REQUEST", "SUCCESS", "DATA", "WINDOW_ADJUST"}

IsTable(f, S) == DOMAIN f \subseteq 2..IdLimit /\ \A id \in DOMAIN f : f[id] \in S

IsSession(side, fields) ==
    /\ DOMAIN side = fields
    /\ side.fate \in Fates
    /\ side.last_channel_id \in 1..IdLimit
    /\ IsTable(side.channels, EntrySet)

(* Every variable keeps its type: the two sessions, the application's view, *)
(* the packets and the counters.                                            *)
TypeOK ==
    /\ IsSession(client, {"fate", "last_channel_id", "channels", "senders"})
    /\ IsTable(client.senders, Channels)
    /\ IsSession(server, {"fate", "last_channel_id", "channels", "served"})
    /\ server.served \subseteq Calls
    /\ app \in [Channels -> [phase : {"none", "waiting", "open", "failed"},
                             id : 0..IdLimit]]
    /\ heard \in [Channels -> Seq([what : Messages, id : 0..IdLimit])]
    /\ up \in Seq(PacketSet) /\ down \in Seq(PacketSet)
    /\ left \in [client : Nat, server : Nat]
    /\ log \in [asked : SUBSET Forwards, closed : SUBSET Channels,
                refused : SUBSET Channels, wanted : [Channels -> Nat]]

(* The session's two tables never part: exactly the channels the protocol   *)
(* knows have a receiver to tell, and each its own (Session::channels and   *)
(* Encrypted::channels of the client, kept by different pieces of code).    *)
TablesAgree ==
    client.senders = [id \in DOMAIN client.channels |-> client.channels[id].of]

(* However the two sides' openings cross, a packet that finds a channel at  *)
(* its destination finds the one it was sent on; only a refusal of the      *)
(* server's handler may hit another (new_channel, new_channel_id, the       *)
(* numbers exchanged by CHANNEL_OPEN and its confirmation).                 *)
Finds(p, side) ==
    p.num \in DOMAIN side.channels => side.channels[p.num].of = p.of

OwnEnd ==
    /\ \A i \in DOMAIN up :
          up[i].type \notin {"OPEN", "OPEN_OTHER"} => Finds(up[i], server)
    /\ \A i \in DOMAIN down :
          \/ down[i].type = "OPEN"
          \/ down[i].type = "OPEN_FAILURE" /\ down[i].of \in log.refused
          \/ Finds(down[i], client)

(* A request is answered at most once, and only if it asked for an answer   *)
(* (wants_reply, channel_success).                                          *)
Successes(ch) ==
    Cardinality({i \in DOMAIN heard[ch] : heard[ch][i].what = "SUCCESS"})
        + Cardinality({i \in DOMAIN down : down[i].type = "SUCCESS" /\ down[i].of = ch})

SuccessWasWanted == \A ch \in Channels : Successes(ch) <= log.wanted[ch]

(* What can end a session from within, and nothing else: the application of *)
(* the client can not (its data() never meets the assertion); the client's  *)
(* table misses a number only after the server's handler closed or refused  *)
(* a channel, or when a forwarded channel, whose entry at the server has no *)
(* number of the client, is adjusted; the server panics only over a         *)
(* forwarded channel, and misses a number only after the client's CLOSE.    *)
FatesExplained ==
    /\ client.fate # "panic"
    /\ client.fate = "WrongChannel" => log.closed \cup log.refused \cup log.asked # {}
    /\ client.fate = "Inconsistent" => log.refused # {}
    /\ server.fate = "panic" => log.asked # {}
    /\ server.fate = "WrongChannel" => ClientCloses
    /\ server.fate # "Inconsistent"

(* What opening promises to the two sides (OpenCall): the opener learns     *)
(* that its channel is open only after the acceptor has entered it, and     *)
(* only what was asked for is entered (channel_open_*,                      *)
(* server_handle_channel_open, client_handle_channel_open).                 *)
Seen == [none |-> "idle", waiting |-> "asked", open |-> "open", failed |-> "over"]

Opener ==
    [ch \in Channels |->
        IF ch \in Calls THEN Seen[app[ch].phase]
        ELSE IF ch \in log.asked THEN "asked" ELSE "idle"]

Accepted ==
    server.served \cup {f \in Forwards : app[f].phase = "open"}

OC == INSTANCE OpenCall WITH Awaited <- Calls, opener <- Opener, accepted <- Accepted

ImplementsOpenCall == OC!Spec

(* Every channel_open_* returns: with a Channel, or with an error, also     *)
(* when the connection ends first (wait_channel_confirmation).              *)
OpenReturns ==
    \A ch \in Calls : app[ch].phase = "waiting" ~> app[ch].phase \in {"open", "failed"}

=============================================================================
