# A TLA+ model of thrussh

thrussh is an SSH-2 library in Rust: a client and a server over any tokio
stream, with user authentication, channels and key re-exchange. This directory
models the protocol core of the crate (`src/src/`), model-checks it with TLC and
proves part of it with TLAPS. Paths below are relative to `src/src/`.

    Rekey.tla             key exchange and re-exchange, both sides
    Auth.tla              user authentication: server, client and its Handle
    Compression.tla       Auth with the compression that begins when it ends
    Negotiation.tla       the choice of algorithms (operators only)
    ChannelLife.tla       opening, using and closing the channels of a connection
    OpenCall.tla          what opening a channel promises (abstract)
    FlowControl.tla       one direction of one channel, application to handler
    Tunnel.tla            FlowControl with a RemoteTunnel as its application
    ByteStream.tla        what a direction of a channel promises (abstract)
    PacketRead.tla        reading: identification, packets, the event loop's select!
    RekeyProofs.tla, RekeyWireProofs.tla, AuthProofs.tla, AuthCallProofs.tla,
    CompressionProofs.tla, ChannelLifeProofs.tla, PacketReadProofs.tla,
    FlowControlProofs.tla theorems, proved for every value of the constants
    MC*.tla, *.cfg        the instances TLC checks
    PROJECT.json          components, runs, map to the source, findings, hazards

## 1. The system

### Components, their state and operations

| component | source | state | operations |
|---|---|---|---|
| event loops | `client/mod.rs` `run`/`reply`/`flush`, `server/mod.rs` `run_stream`/`reply`, `*/session.rs` | `SSHBuffer`s, the mailbox `Receiver<Msg>`, the cipher pair, the ids | one `select!` iteration: read a packet **or** take a message (only if `!is_rekeying()`), then `flush`, then write all |
| key exchange | `session.rs` `Kex*`, `client/kex.rs`, `server/kex.rs`, `kex.rs` | `common.kex`, `enc.rekey`, `enc.exchange`, `cipher`, `session_id`, byte count and `last_rekey` | `client_parse`, `server_parse`, `KexDh::parse`, `server_key_check`, `received_rekey`, `initiate_rekey`, `encrypted`, `newkeys` |
| authentication | `client/encrypted.rs`, `server/encrypted.rs`, `auth.rs` | `EncryptedState`, `AuthRequest` (methods, `current`), `auth_user`, `auth_method` | service request, the password, publickey and keyboard-interactive requests, INFO_RESPONSE, SUCCESS/FAILURE/PK_OK/BANNER, the calls of `Handle` |
| flow control | `session.rs` `data`, `flush_pending`, `adjust_window_size`; `client/mod.rs` `Channel` | the application's `window_size`; `recipient_window_size`, `pending_data`; `sender_window_size`, `target_window_size` | `data`, `extended_data`, `eof`, `wait`, WINDOW_ADJUST, DATA, EOF |
| channel life cycle | `client/*`, `server/*` | `enc.channels`, `confirmed`, `last_channel_id`, the senders per channel | open, confirm, fail, request, close |
| compression | `compression.rs` | `Compress`/`Decompress` of each direction | switched on at InitCompression |
| negotiation | `negotiation.rs` | none | choose algorithms from two KEXINITs |
| identification | `ssh_read.rs` | `ReadSshIdBuffer` | read the version line over a buffered stream |
| packet layer | `cipher/*`, `sshbuffer.rs` | sequence numbers, partial packet | `read`, `write` |
| tunnel | `client/tunnel.rs` | three loops, two queues between them, a window | copy a stream to and from a channel |
| proxy command, tables, examples | `client/proxy.rs`, `msg.rs`, `key.rs`, `pty.rs` | - | - |

### How they interact

Each session is one task. The application talks to it over a bounded mailbox
(`Sender<Msg>`), the session answers over unbounded channels
(`UnboundedSender<Reply>`, one `OpenChannelMsg` sender per channel). Handlers
are callbacks the session awaits: while one runs the session reads nothing. The
two sessions exchange packets over two FIFO byte streams. `enc.write` collects
plaintext packets that `flush` seals with the current key; key-exchange packets
are sealed at once.

### What is hard, and what makes the components correct

* **Key re-exchange.** Either side may start one at any time by its own limits,
  both may at once, and packets under the old and the new key are in flight
  together. Correct: every packet is opened with the key that sealed it; both
  sides hash the same transcript; the session id is that of the first exchange;
  the exchange ends and the application's gate opens again.
* **Flow control.** Three windows (application, session, receiver), two queues
  and adjustments that overtake data. Correct: the windows and what is in flight
  add up, the stream arrives in order, once and whole, EOF last, and nobody
  waits for an adjustment that never comes.
* **Authentication.** A server state (`sent_pk_ok`, `auth_user`, `current`) that
  survives from one request to the next, a client that races its application
  with SERVICE_ACCEPT, and calls whose futures may be dropped before the answer.
  Correct: SUCCESS only for the user and the key the handler accepted last (the
  key is not compared, see below); a call returns, and returns the truth about
  its own user.
  Compression then begins at both ends at once, with no packet that says so.
* **Event loops.** `select!` drops a half-done read, an inactivity timer is
  restarted by unrelated work, a short packet is skipped without clearing the
  buffer, and the stream arrives in any portions. Correct: `reply` is given the
  packets that were sent, and the task ends when the peer has gone.
* **Channels.** Both sides open and number channels at once, the client keeps
  two tables of them, closing crosses data, adjustments and requests. Correct: a
  packet finds the channel it was sent on, an opening call returns, and no error
  of one channel ends the connection (it can: see below).
* **Tunnel.** Three tasks share one channel, each can end before the others, and
  a size of the window is as old as the queue it waited in. Correct: the TCP
  stream is copied whole, or there is a reason.

`PROJECT.json` lists each hazard at its line with the properties that cover it.

## 2. The models

### Rekey

One action is one iteration of a loop. `session[s]` is the session of a side:
`kex` is `common.kex` before the first NEWKEYS and `enc.rekey` after it,
`exchange` the transcript, `parked` says that `enc.exchange` is `Some`,
`cipher`/`session_id` are what they are in `CommonSession`, `newkeys` the keys
computed and not yet used, `over` that `flush` would find a limit exceeded.
`wire[s]` holds the packets `s` has written; `behind[s]` is history: has `s`
answered a packet behind the KEXINIT of its re-exchange under way? A key *is* the exchange hash it is
derived from, and the hash *is* the transcript it covers: two sides share a key
exactly when they agree on the transcript. Every random value is fresh.

| action | code |
|---|---|
| `ClientParse` | KEXINIT in `Kex::KexInit`: `client_parse`, sends ECDH_INIT |
| `ClientRekeyRequested` | KEXINIT in `client_read_encrypted` with no own one out |
| `ClientKeyCheck`, `ClientWrongPacket` | `KexDhDone::server_key_check` |
| `ClientNewKeys`, `ServerNewKeys` | NEWKEYS: `encrypted` the first time, `newkeys` later |
| `ServerParse`, `ServerRekeyRequested` | `server_parse` with and without an own KEXINIT out |
| `ServerDh`, `ServerDhAssertion` | `KexDh::parse` and its `assert!` |
| `ReadConn` | any other packet, with or without an answer of the session |
| `Send` | the mailbox, behind the `is_rekeying` gate |
| `LimitReached` | bytes or time pass the limit |
| `Hangup` | end of stream |

Every one of them ends in `flush` (`Flushed`, `FlushedPackets`), which may start
a re-exchange.

### FlowControl, Tunnel and ByteStream

One direction of one confirmed channel. `app` is the application's `Channel`
(or, for a server, its `Handle`), `chan` the sending session's channel record,
`peer` the receiving session's, `adjusted` the window sizes on their way to the
application, `adjusts` the packets that come back. A stream is the bytes
1..Total; a byte carries whether it left as extended data. `Flush` is
`flush_pending` as written, including the offset it puts back and the slice that
ignores the offset; `FlushOne` is what it does with one entry of the queue.
`Tunnel` adds two history variables: `queued`, some data has had to wait in
`pending_data`, and `cut`, of some message a part has left and the rest waited.

| action | code |
|---|---|
| `AppCall`, `AppSend`, `AppResume`, `AppFails` | a call of `Channel::data`: the two loops of `send_data`, and its error |
| `AppWait` | `Channel::wait` between two calls |
| `HandleData`, `AppEof` | the server's `Handle`, which has no window; `eof` |
| `SessionData`, `SessionEof`, `SessionDrops` | `Encrypted::data`, `extended_data`, `eof`, with the channel in the table or not |
| `SessionAdjust`, `SessionMisses` | WINDOW_ADJUST: the flush and the report, or `WrongChannel` |
| `ReceiverData`, `ReceiverEof` | the receiving session: the window, the grant, the handler |
| `ServerCloses`, `SessionClosed` | the server's `close` while the client is sending; CHANNEL_CLOSE at the client |

`Tunnel` replaces the application by the three loops of a `RemoteTunnel`:
`CopyToSsh`, `CopyFails` and `CopyResumes` are `send_to_ssh_loop` (its window is
`app.window_size`; `CopyFails` is the end of the session or an error of the TCP
read), `ReceiveAdjusted`, `ReceiveData`, `ReceiveEof` and
`ReceiveGone` are `receive_msg_loop`, `CopyToTcp` is `send_to_tcp_loop`.

`ByteStream` is what the direction promises: the bytes given are received once
and in order, and the end of the stream after them. FlowControl implements it
(`ImplementsByteStream`) under the map *given* = bytes taken from the source,
*closed* = EOF queued behind all of them, *received* = bytes the handler got,
*ended* = the handler was told of the EOF, as long as nothing has to be queued:
an EOF overtakes what waits in `pending_data`, whole messages too. ByteStream
states safety only; that everything arrives is `AllDelivered`.

### ChannelLife and OpenCall

All channels of one connection. `client` and `server` are the two sessions:
`channels` the table of `Encrypted`, `last_channel_id`, at the client also
`senders`, the table of `Session` (two tables kept by different code), and
`fate`, how the session's task ended. `up` and `down` are the packets on their
way, `app` how far each channel is for the client's application, `heard` what
its receiver was given, `left` the bounds, `log` history. Each side numbers its
own end (`NewId`); a packet names the receiver's. The history field `of` of
packets and entries says for which channel they were made, so that `OwnEnd` can
say that a packet finds the channel it was sent on.

| action | code |
|---|---|
| `CallOpen`, `CallReturnsChannel`, `CallFails` | `Handle::channel_open_*`, `wait_channel_confirmation` |
| `ClientUse` | `Channel::data`, `eof`, requests; CLOSE by a client of another library |
| `ClientConfirmation`, `ClientClosed`, `ClientTold`, `ClientData`, `ClientWindowAdjust`, `ClientIgnores` | `client_read_authenticated` and the default `Handler` |
| `ClientForwardIgnored`, `ClientForwardAccepted` | CHANNEL_OPEN "forwarded-tcpip": the default handler, the tunnel's |
| `ServerOpen`, `ServerOpenOther`, `ServerClose`, `ServerEof`, `ServerData`, `ServerRequest`, `ServerWindowAdjust`, `ServerIgnores` | `server_read_authenticated`, with at most one call of its handler on the session |
| `ServerHandle` | a message of a server's `Handle` |
| `ClientHangup`, `ServerHangup` | the other side has ended |

`OpenCall` knows no tables, numbers or packets: an opener asks, the acceptor
sets up its end, only then is the opener told "open", and a call that asked
comes back. `ImplementsOpenCall` is the refinement (map: `Opener`, `Accepted`).

### PacketRead

One side's reading, in units that stand for bytes: lines, then packets of
`Header` and `Body` units. `peer` is its stream and how much of it has arrived,
`source` the `SshRead` (taken from the socket, in the buffer of `read_ssh_id`,
held back for `cipher::read`), `reading` the read future, `buffer` the
`SSHBuffer`, `opened` the sequence number, `task` the loop. `torn` and `handled`
are history.

| action | code |
|---|---|
| `ReadId`, `IdFails` | `read_ssh_id` |
| `HeldGiven`, `SocketRead`, `LengthRead` | `SshRead::poll_read`, `cipher::read` |
| `Packet` | a packet was opened: `reply`, `continue` or `break` |
| `ClientReadError`, `ServerReadError` | `cipher::read` failed; a server looks at the length of its buffer only |
| `Message`, `Disconnect`, `Timeout` | the other branches of `select!`: they drop the read future |
| `Drain` | the loop behind the loop |
| `Arrive`, `PeerGone` | the network |

A read that was dropped, or the end of the stream, may leave the reader between
packets: the next length it decrypts is then arbitrary (`BodyLengths`).

### Auth

`server` and `client` are the two state machines, `app` the application behind
the `Handle`, `mailbox` and `replies` its two queues. `vouched` and `granted`
are history variables: the user and key of the handler's last verdict if that
was Accept, and the type, user and key of the request SUCCESS answered. A key is
a name; a signature is valid or not for the key its request names. The thrussh
client knows three methods; a second kind of peer, `external`, sends whatever requests it
likes one at a time and also knows keyboard-interactive, which the server
implements and the client does not. The handler's verdict is a free choice at
each question, an error included.

| action | code |
|---|---|
| `ServerPassword`, `ServerProbe`, `ServerSigned`, `ServerInteractive`, `ServerOtherMethod` | the branches of `server_read_auth_request` and `server_read_auth_request_pk`, each with the handler's verdict |
| `ServerInfoResponse` | `read_userauth_info_response` |
| `ServerAcceptService`, `ServerAuthenticated`, `ServerIgnores` | the other states of `server_read_encrypted` |
| `ClientServiceAccepted`, `ClientBanner`, `ClientRefused`, `ClientSuccess`, `ClientPkOk`, `ClientInconsistent` | `client_read_encrypted` before `Authenticated` |
| `ClientWaitsForSigned` | the loop inside `PK_OK` that waits for `Msg::Signed` |
| `ClientAuthenticate` | `Msg::Authenticate`: `write_auth_request_if_needed` |
| `AppAuthenticate`, `AppReply`, `AppSigns`, `AppSessionGone`, `AppDropsCall` | the futures of `Handle::authenticate_*`, dropped ones included |
| `ExternalRequest`, `ExternalReads`, `ExternalResponds` | another client, one request at a time |

### Compression and Negotiation

`Compression` adds to each step of `Auth` what it does to the compressors.
`names` are the algorithms each side has chosen, `codec` whether its compressor
and its decompressor are switched on, `zipped` says of every packet under way
whether it was compressed. The server switches on its decompressor when it
accepts and its compressor with the next packet it reads (`ServerCodec`), the
client both at SUCCESS, after the flush of that iteration (`ClientCodec`). A
packet is read as it was written, or it is no zlib stream (`ServerBreaks`), or
of an unknown type (`ServerIgnoresZipped`). `Negotiation` has `write_kex`,
`select` and `read_kex` as operators; each side applies them to the two KEXINITs
for itself.

## 3. The runs

| run | question | bounds |
|---|---|---|
| `rekey_race` | what stays right in every interleaving of two re-exchanging sides | 2 client and 1 server limit crossings, 1 message and 3 answers each |
| `rekey_quiet` | with only the client re-exchanging and nothing answered behind a KEXINIT, does every exchange succeed and end | 2 crossings, 2 messages, 2 answers each |
| `rekey_server_limit` | does a client accept its server's re-exchange (it does not) | 1 crossing |
| `flow_race` | do the windows add up, for clients, servers and tunnels, changing targets, short reads, `wait()` | 14 bytes in calls that end at 4 and 14, window 4, packets of 3, a queue of 3, targets 0, 2 and 6, plain and extended data; 1 answer, an EOF, an error of the TCP write and one of the TCP read for the tunnel |
| `flow_steady` | is a direction a `ByteStream` when the window is adjusted only once it is used up, also if the server closes; does everything arrive; do calls return | 14 bytes in calls that end at 5, 9 and 14, window 3 = packet 3 |
| `flow_resend` | is the stream in order with an adjustment while data is queued (it is not) | 12 bytes, window 4 |
| `auth_calls` | whom and which key did the handler judge when somebody gets in, what do calls return, and does each side read what the other wrote, in every order of calls, drops and verdicts | 2 users, 2 keys, 3 requests, 1 dropped call, with and without a banner, two sets of methods, three preferences on each side and three foreign KEXINITs |
| `auth_info_response` | does an accepted INFO_RESPONSE let the user in (it does not) | 1 user, 2 requests |
| `auth_late` | may `authenticate_*` come after SERVICE_ACCEPT (it may not) | 1 user, 1 call |
| `channels` | numbers, tables, replies and fates of channels opened from both sides; does opening implement `OpenCall`; do calls return | 2 calls, 1 forward, 1 use, 2 calls of the server's handler, numbers up to 6 |
| `channel_close` | does `WrongChannel` mean a channel that was never opened (it does not) | 1 call, 2 uses, 1 call of the handler |
| `packet_read` | is what is handled what was sent, and does the task end | lines of 4 kinds, 3 packets of 2 + 2 units in 3 orders, 7 units of buffer, 1 message |

*Why the bounds are enough.* Two client crossings and one of the server give
a re-exchange after a re-exchange, both sides starting at once, and a server
that starts again while the client is busy; three answers let a packet cross
each of them. Fourteen bytes over a window of four take several adjustments, a
cut message and a queue behind it; packets of three make a window end inside a
packet; targets 0, 2 and 6 keep, shrink and widen the target; with a queue of
three a reported size of 0 can reach a tunnel. In `flow_steady` the window
is 3, so `target / 2` is 1 and an adjustment is sent at 0 only; this is the case
in which nothing is queued when the size is reported. Two users are enough to
tell the user of a request from the user of the session, two keys to tell the
key that signs from the key that was judged; three requests make a
probe, a change of user or method and a signature. Two calls and a forward let
openings cross in both directions and a number be given out while another is
under way; two calls of the handler make it refuse or close a channel and still
use it. With two units in a header and in a body every read can be cut at, and
inside, either; the lines have the identification first, behind another line,
with and without CR, and behind a line feed that goes unnoticed; the buffer
holds the longest of them and the beginning of a packet. Every bound is a
constant of its module.

*Deadlock* is not checked: applications have finite budgets, a session may end,
and a closed connection is a legal last state.

### Fairness

* `Rekey`: each event loop keeps polling its socket (`WF` on its reads).
  Nothing is assumed of applications and clocks.
* `Tunnel`/`FlowControl`: the loops of both sessions and of a tunnel keep
  running, and the application goes on polling a call of `data()` it has made.
  The server's handler need not close the channel.
* `Auth`/`Compression`: both loops run, and an application that made a call
  polls it. It need not make any, and the handler may say anything. That a
  handler's future ends is part of a server action.
* `ChannelLife`: both loops run, and the task that awaits an opening is polled.
* `PacketRead`: the task is polled while its socket is ready. The peer need not
  send anything, nor close.

A task scheduler that polls every ready task justifies weak fairness; strong
fairness is used nowhere.

### What the runs show

Right in every interleaving:

* each packet is opened with the key that sealed it (`SealedForReader`), also
  when both KEXINITs cross; the transcript the server signs is the client's
  (`HonestSignature`); session ids agree and never change; `enc.exchange`
  survives (`ExchangeKept`);
* window bytes are conserved (`WindowConserved`), so a thrussh peer never meets
  the *Ignore extra data* branch (`NoExtraData`), even though the application's
  own count may be wrong; a channel that closes delivers a prefix of its stream
  and no EOF before its end (`ImplementsByteStream`);
* SUCCESS names the user of the last Accept whatever probes, signatures and
  changes of method came before (`GrantedByVerdict`), and what a thrussh client
  signs with is the key of that Accept (`KeyWasJudged`); a call returns
  (`CallReturns`), and unless an earlier one was dropped it tells the truth
  (`TrueIsOwnSuccess`, `FalseIsRefusal`); both sides choose the same algorithms
  (`NamesAgree`), and the change to compression happens at the same packet at
  both ends (`ReadAsWritten` and its two exceptions);
* a packet finds the channel it was sent on (`OwnEnd`), the client's two tables
  never part (`TablesAgree`), a request is answered at most once
  (`SuccessWasWanted`), every opening call returns (`OpenReturns`);
* nothing of the stream is lost between the identification and the packets or
  between two packets (`InStep`), and what `reply` is given is what was sent
  (`HandledInOrder`), unless `select!` drops a read that has begun.

What the code does not do:

1. A server that reaches its re-exchange limit ends the session: `received_rekey`
   fills in `algo`, and `client_parse` answers a filled-in `algo` by
   `Error::Kex` (`client/kex.rs:23`).
2. `flush` writes pending packets behind an own KEXINIT (`session.rs:292`),
   although the comment above says *and we've not started to rekey*. A server
   in `KexDh` that reads one fails its `assert!` (`server/kex.rs:80`); a client
   that reads one its server sent ends with `Inconsistent`. The `is_rekeying`
   gate stops only what the application sends, not what the session answers.
3. `flush_pending` stores the wrong offset for a message it cuts, and its slice
   ignores the offset: bytes are sent twice. The entry usually stays for ever;
   an offset that has returned to 0 sends the whole message again.
4. An accepted USERAUTH_INFO_RESPONSE is answered by SUCCESS but leaves the
   server in `WaitingAuthRequest`, where it ignores the connection layer.
5. A request written by `write_auth_request_if_needed` after SERVICE_ACCEPT
   leaves the client in `WaitingServiceRequest`; any answer is
   `Error::Inconsistent`.
6. A WINDOW_ADJUST the server writes behind its own CLOSE ends the client's
   session with `WrongChannel`, whose text speaks of an *unopened channel*.

7. A server compares a signed request with the `PK_OK` before it by the user
   alone (`server/encrypted.rs:307`); the key it has stored with it (359) is
   never read. The key that signs need not be the one the handler accepted,
   while the doc of `Handler::auth_publickey` (`server/mod.rs:173`) has unknown
   keys rejected by it.

1, 3, 4, 5 and 6 have a run each; 7 is the exception `GrantedByVerdict` makes
for the key. `FailuresExplained`, `InOrderUntilCut` and `SuccessIsMutual` say
that 1 and 2, 3, and 4 are the only ways to these ends: the first asks of each
failure of a re-exchange that a packet was written behind the KEXINIT of that
same exchange (`behind`), or that it is 1. Other ways out are named in the
properties themselves:

* `FatesExplained`: the server panics only over a forwarded channel, which is
  never confirmed, so that `data()` on it fails `assert!(confirmed)`; a client
  ends with `Inconsistent` only over a channel the server's handler has refused
  (`channel_open_failure` sends the server's number for it).
* `DataReturns`: `Channel::data` does not return when its window is used up on a
  channel that is gone; it goes on queueing empty messages (`client/mod.rs:670`).
* `CutsExplained`: a tunnel ends its copy early when a window size of 0 is
  reported, which it takes for the end of the TCP stream (`tunnel.rs:177`);
  gives up the other direction when an adjustment arrives after the TCP stream
  has ended (`:80`), or after a read of it has failed: such an error sends no
  EOF (`:149`), and so ends both directions of a channel that stays open; and
  panics when the server's EOF is what it finds while it waits for the window
  (`:181`).
* `ReadAsWritten`: under zlib, a second request after a dropped call that was
  granted ends the server.
* `HandledInOrder`, `InStep`: `select!` drops a read that has begun whenever a
  message comes first (`client/mod.rs:824`), and a server goes on after an error
  of `cipher::read` if its buffer is not empty.
* `PanicsExplained`: `put_slice` panics when one read takes the identification
  and more than a length field behind it (`ssh_read.rs:52`).

Seen while modelling, without a run: `rekey_read_limit`, `max_auth_attempts` and
`rejection_count` are never compared with anything; `auth_none` is never asked;
a verdict `UnsupportedMethod` on keyboard-interactive is `unreachable!()`; a
banner that reaches a client before its first call ends it with `Inconsistent`;
a signer that returns its buffer unchanged leaves its call without an answer;
the server never resets the counters of its limits; a line before the
identification takes with it whatever was read behind it; `run_stream` never
returns `Ok`, since its drain ends by an error only, and after
`connection_timeout` it still waits for the peer to close; a server that has
skipped an IGNORE or DEBUG as its last packet skips for ever at the end of the
stream; packets of a re-exchange are written without the compressor and read
with the decompressor; global requests are answered twice; CHANNEL_FAILURE is
ignored by the client; a tunnel underflows if the packet size is below 64; a
server with an RSA key only and default preferences fails with `UnknownKey`,
because the choice does not look at its keys.

## 4. What is proved

Eight modules hold proofs for every value of the constants, under the named
assumptions of the modules they are about. In each, an invariant is inductive,
lemmas say what each building block keeps, and one step per action applies them.

*Rekey* (assuming `BoundsAssumption`: the budgets are natural numbers).
`TypeCorrect` (`Spec => []TypeOK`): every variable keeps its type and each side
stays in the `Kex` states of its role. `SessionIdNeverChanges`
(`Spec => SessionIdFixed`). The invariant `TypeOK` is inductive once it is split
into what a read may disturb (`ReadsTyped`: the sessions and the wire) and the
budgets. One lemma says of each building block (`TakeExchange`,
`InitiateRekey`, `Flushed`, `Rekeyed`, ...) that it keeps a session `Proper` and
leaves `encrypted` and `session_id` alone; `ReadDoneTyped` carries that through
an iteration of the loop, flush included; one step per action applies it. That
`encrypted` is only called before the first exchange is what makes the session
id constant.

*The wire of Rekey* (`RekeyWireProofs`). `OpensEveryPacket`
(`SealedForReader`), `SignatureAccepted` (`HonestSignature`), `SameSessionId`
(`SessionIdsAgree`), `ExchangeNeverLost` (`ExchangeKept`), `FailuresHaveACause`
(`FailuresExplained`) and, for servers without limits and no crossing answers,
`QuietNeverFails` (`NoFailure`). None of these is inductive: what a reader meets
depends on what the writer wrote some states ago. The invariant `IInv`
(`WireInvariant`) says of each pair of `Kex` states, one of the client and one
of the server, what can be under way in each direction: a `Stream` of at most one
NEWKEYS, then messages with at most one KEXINIT among them, then the handshake
packets; all behind NEWKEYS under the next key, which the reader has already
computed (`UpKey`, `DownKey`). It also says that the KEXINIT under way is the one the
writer's exchange remembers, so that both transcripts agree when the reply is
signed (`Linked`), and why each session that has ended did (`Ends`). Most pairs
of states are impossible, and the proof is that every step leads from a possible
pair to a possible one: a side that waits for NEWKEYS writes nothing, and one that
answers behind its own KEXINIT is noted in `behind` until that exchange is over.
A stray packet before the handshake packets is possible only with `behind`, and
each failure is traced back to it or to the server's limit. `Ends` says in which
state a failure leaves its session, so that the exchange it failed in never
ends and `behind` is never reset.

*Auth* (assuming `AuthAssumption` and `MethodsAssumption`: no user has the empty
name, `NoKey` is no key, the clients are of the two kinds, the methods offered
are methods). `OnlyTheAccepted` (`Spec => []GrantedByVerdict`) and `TypeCorrect`.
It is about every client: the user is that of the last verdict, the key is,
unless the signature followed a `PK_OK` (item 7 of section 3).
`GrantedByVerdict` is not inductive: a server with an old `PK_OK` accepts a
signature without asking, and a second request after SUCCESS would change
`auth_user`. The invariant `IInv` adds two things. `PkVouched`: while
`current` is `PublicKey` on a live server, the handler's last verdict was Accept
for `auth_user` (of the key nothing of the kind holds). And that nothing is decided after SUCCESS: with a thrussh
client (`ThrusshInvariant`) because it never starts keyboard-interactive, so
that every SUCCESS takes the server out of `WaitingAuthRequest`; with an
external client (`ExternalInvariant`) because it has one request under way: its
life is a sequence of phases `NotStarted`, `Started`, `Idle`, `Requested`,
`Replied` (or `Stranded`, when the server has died), `Inside`. The proof first
shows that every authentication handler ends in one of three ways (`AuthTurn`:
`Dies`, `Replies`, `Enters`), then that each of the three keeps `IInv`, then
that the client's steps do. The external client's discipline is therefore an
assumption of the theorem and holds of every client
that waits for the answer to a request before it makes the next.

*The calls of Auth's Handle* (`AuthCallProofs`). `SuccessAgreed`
(`SuccessIsMutual`), `TrueIsOwn` (`TrueIsOwnSuccess`) and `FalseIsRefused`
(`FalseIsRefusal`). A reply carries nothing that says which request it answers,
so that the right call gets it only because there is never a second one under
way. `CallInvariant` follows the one call of an application that gives none up
through ten phases (`OneCall`: in the mailbox, waiting for the service, asked,
answered, asked to sign, signed, replied, ..., or left over by a session that
ended); each phase says that mailbox, both queues and the replies hold that
call's message and no other. Each action leads from a phase to a phase. That the
service is accepted before anything is asked (`Service`) and that a SUCCESS said
was a state change at the server, an accepted INFO_RESPONSE excepted (`Mutual`),
complete it; `SuccessAgreed` has the same exception.

`SignedByTheJudged` (`KeyWasJudged`) is about the key that the server does not
compare. Its invariant `KeyInvariant` follows the key of a thrussh client: while
the client may still sign, what it has sent last is the probe of that key, or
that probe has been handled (`ProbedLast`); a signature therefore lies right
behind the probe of its key (`SignedBehindProbe`), and when the server reads it,
a `PK_OK` that is outstanding is that of this probe (`PkFor`). A new probe of an
application that has given up its call overtakes neither.

*Compression* (`CompressionProofs`, assuming `CompressionAssumption`: a KEXINIT
has the same lists whoever wrote it). `SameAlgorithms` (`NamesAgree`): both
sides' selections are the same function of the same two lists, whose order does
not depend on who selects. `ChangesOverTogether` (`ReadAsWritten`): the
invariant `ZipInvariant` ties each of the four codecs to the state that switches
it on (`Codecs`) and each bit of a packet under way to its type (`Bits`:
only a client that is inside compresses, and the server never compresses before
SUCCESS); that nothing follows SUCCESS (`SuccessLast`) and that a client that
is inside was let in by the server (`Mutual`) make reader and writer agree.
The two exceptions of the property are the runs in which `Mutual` or `OneCall`
has its own. `StillAuthenticates`: under `Compression`'s next-state relation,
where a server can break down over a packet, everything proved of `Auth`'s
safety properties still holds, `KeyWasJudged` included; the lemmas about `Auth`'s
actions are used as they stand.

*ChannelLife* (assuming `ChannelAssumption`). `TypeCorrect`, `TablesNeverPart`
(`Spec => []TablesAgree`), `EveryPacketFindsItsChannel` (`Spec => []OwnEnd`) and
`OpeningImplements` (`Spec => OC!Spec`, the refinement). `OwnEnd` speaks of two
tables and the packets between them and is not inductive: a packet that finds no
channel now may find another later if its number is given out again. The
invariant `Core` says instead that a number is *owned*: it is at most
`last_channel_id`, and whatever entry has it is that channel's, so `NewId` can
not give it out again; every entry's `recipient_channel` and every packet's
number is owned, refusals by a handler excepted; a confirmation is under way, or
heard, only for a channel the server has entered. The last conjunct is the step
of the refinement: "open" at the opener after "entered" at the acceptor.

`EveryFateExplained` (`FatesExplained`) says how a session can end from within.
Its invariant `Story` is added to `Core` and has one part for each reason: the
application holds only confirmed channels (`Sure`), so `data()` never meets the
assertion; the server's unconfirmed entries are those its own handler asked for
(`Vouched`), which needs that an opening is under way once and before it is
served (`Once`); as long as the server's handler has closed, refused and
forwarded nothing, each number the server holds or has sent is in the client's
table (`Kept`), and no data overtakes the confirmation of its channel
(`Heralded`), so the client never adjusts the window of a channel whose number
at the server it does not know; and as long as the client's application closes
nothing, the server has every entry the client refers to (`Stayed`).
`Causes` turns these into what `FatesExplained` says of the fates.

`AnswersWereAskedFor` (`SuccessWasWanted`) counts. The invariant `Accounted`
adds, for each channel, the requests under way that want an answer, the server's
entries whose `wants_reply` is set, the answers under way and the answers heard,
and says that the sum is at most `log.wanted`. Every step moves at most one from
a summand to the next or loses some: a request that is read sets `wants_reply`
once, `channel_success` clears it as it writes, an answer that is read is heard.
That the sum is over the channel and not over its number needs `Core`. The lemmas
about `Count` (appending to a queue, reading its head) use cardinalities, so that
no induction over the queues is needed.

*PacketRead* (assuming `ReadAssumption`). `TypeCorrect`,
`IdentificationAlwaysFound`, `AlwaysInStep`, `HandledAsSent` and
`OnlyOversizedReadsPanic` prove all its safety invariants from one invariant
`IInv`: before the identification nothing has been opened and nothing that was
read has been discarded (`Identifying`); what `SshRead` holds back begins where
the packets begin (`HeldFirst`); a read future that was not torn began where
packet `opened + 1` begins and wants its true size, unless the stream is over
(`Steady`). The arithmetic of places in the stream is in lemmas of its own.

*FlowControl and Tunnel* (`FlowControlProofs`, assuming `FlowAssumption` and
`TunnelAssumption`; the theorems are about `TunnelSpec`, which has both users of
a channel). `TypeInvariant` (`TypeOK`), `WindowIsConserved` (`WindowConserved`),
`NothingIgnored` (`NoExtraData`) and, for a window that is not 0,
`EveryCutExplained` (`CutsExplained`; a tunnel over a window of 0 sends its EOF
at once). The sums, the concatenated packets and the flushed queue are folds
over sequences. The proofs reach them by prefix sums: that the running sum of a
queue exists and is unique, by the least index at which it would not, from which
follows what appending, taking the head and joining do to a sum; `FlushOne`
keeps window and bytes sent together constant, and `Flush` does so as its fold.
`WindowConserved` is not inductive, because a channel that is gone loses bytes;
`Balanced` says that the sum is at most the receiver's window always, and equal
to it while the channel lives, and from it `NoExtraData` follows: a packet is a
summand. `EveryCutExplained` needs where a window size comes from. As long as
nothing had to wait, no report is 0 (`Reported`, `Announced`: the session's
window covers what it has reported and what the server may send, `Granting`), so
that a read of no bytes is the end of the stream (`Sending`); and each end of a
loop is traced to the loop it waited for, or to the error of a read that ended
that one (`Ended`).

*The order of bytes* (the second half of `FlowControlProofs`). A byte is its
place in the stream, and the proofs are about where each message begins and
ends. `Chained(R, q, from, to)` says that a queue is cut into consecutive parts:
there are places `f[0] = from <= ... <= f[Len(q)] = to`, and element `i` is in
the relation `R` to `f[i-1]` and `f[i]`; what a packet, an entry of
`pending_data`, a message of the mailbox or a buffer of the tunnel carries is
such a relation. The lemmas say what appending, taking the head and joining do
to a chain. The invariant `Lined` says that the wire, `pending_data` and the
mailbox form one chain from what is delivered to what the application has given,
until a message is cut; once the channel is gone, the wire is still a beginning
of it (`InLine`). `InOrderUntilTheCut` (`InOrderUntilCut`) follows. For the end
of the stream `Closing` counts the EOF as a part of its own, from `Total` to
`Total + 1`: it is then behind every byte in whatever queue it is, and
`StreamUntilQueued` shows that a direction implements `ByteStream` step by step
as long as the session has nothing to queue. TCP errors are excluded, because a
tunnel then sends an EOF before the end, and a window of 0, for the reason given
above.

When does a session have nothing to queue? When the user's own count of the
window is right. `Claims` is all that a user may still send or has sent into a
queue: its count, the messages in the mailbox, the sizes reported to it and not
yet applied. `Covering` says that the claims never exceed the session's window,
and that an adjustment is under way only while that window is 0 (so that a
report, which *replaces* the count, never counts a queued message twice). This
is an invariant for a client as long as its server grants a window only when it
is used up, which is the action property `OnlyUsedUp`. Hence
`WindowUntilEarlyGrant` (`RemainingWindow`, and nothing is queued) and
`StreamUntilEarlyGrant` (`ImplementsByteStream`). The code grants earlier, at
half the target; `OnlyUsedUp` is the exact point at which `flow_resend` (finding
3) begins, so the hypothesis cannot be dropped. It is met without assuming
anything of a behaviour where half a window is less than two bytes:
`RemainingSmallWindow` and `SmallWindowStream` state the properties of
`flow_steady` for every stream, packet size and queue, with windows and targets
of up to 3. They say why that run passes, not that the code's own window
(200,000) is safe: with it, `flow_resend` is possible.

Each theorem named with a property states one that TLC also checks on a small
instance (`ImplementsOpenCall` is safety only, and proved as a whole).

Only model-checked: every liveness property (`GateReopens`, `AllDelivered`,
`DataReturns`, `CallReturns`, `OpenReturns`, `StreamEnds`), which rests on
fairness. Every safety property and every refinement of a passing run is stated
by a theorem; those of `flow_steady` under the hypotheses named above.

## 5. What is not modelled

* *Rekey*: guessed packets (`first_kex_packet_follows`), a change of the
  server's key between exchanges, negotiation failing in a re-exchange. Error
  paths of the cryptography are left out. A packet with a number of 4 or less
  is not read at all.
* *FlowControl*, *Tunnel*: 32-bit overflow of the windows (the models count in
  natural numbers), both directions of a channel at once, connecting to TCP, the
  `TunnelClient` handler that creates tunnels, and messages other than data, EOF
  and adjustments, on which a tunnel panics. `flow_race` has no CLOSE. An error
  of the reader given to `Channel::data` (`client/mod.rs:649`) makes that call
  return with a part of the stream sent, and nothing else: the models' readers
  never fail. The tunnel's read does.
* *ChannelLife*: windows (data has no size there), global requests,
  CHANNEL_FAILURE without a number, the parameters of requests. Numbers grow
  without end; in the code `last_channel_id` wraps after 2^32 openings
  (`session.rs:315`), from where on numbers long freed are given out again (those
  in the table are still skipped). A smaller modulus in the model would let them
  come back while their packets are under way, which takes 2^32 openings here.
* *Auth*: passwords and prompts, the rejection delay (the server does nothing
  during it), keys that cannot be decoded, a second SERVICE_REQUEST, an application that authenticates
  again after a call returned true.
* *Compression*: packets of a key re-exchange.
* *PacketRead*: time; what writing does; the contents of a packet. `Timeout` may
  come at any moment.
* *Cryptography, zlib, sockets, child processes*: external.
* *Proxy command* (starts a child process), the tables of message numbers, keys
  and terminal modes (constants and encodings), *examples*: no state to check.

## 6. Plan

Done: Rekey, FlowControl, Auth, ChannelLife, PacketRead, Compression,
Negotiation, Tunnel, in the order of what the connection depends on; proofs of
every safety property that a run checks, and of both refinements.

Next, theorems: what of the order of bytes survives when a message that waits is
not cut (its kind is lost, its place is not), for the refinement too; and the
server as the sender, whose application has no count of its own.

Then, models: a module of the windows' 32-bit arithmetic; a re-exchange under
compression; a sequence of key epochs per direction that `Rekey` implements.
