-------------------------------- MODULE Auth --------------------------------
(***************************************************************************)
(* User authentication on an encrypted connection: the server's state      *)
(* machine (server/encrypted.rs), the thrussh client's (client/mod.rs and  *)
(* client/encrypted.rs) with the calls of its Handle, and, as the other    *)
(* possible peer of the server, an external client that also knows the     *)
(* method keyboard-interactive, which the thrussh client does not.         *)
(*                                                                         *)
(* A server action is one packet handled, the handler's verdict included:  *)
(* the server reads nothing else before the verdict and the delay of a     *)
(* rejection are over.  A client action is one iteration of the client's   *)
(* event loop.  Passwords and prompts are left out: the handler decides.   *)
(* A key is a name, and a signature is valid or not for the key of its     *)
(* request.                                                                *)
(***************************************************************************)
EXTENDS Naturals, Sequences

CONSTANTS
    Users,        \* the user names a client may try
    PublicKeys,   \* the keys it may try them with
    Kinds,        \* which clients connect: subset of {"thrussh", "external"}
    MethodSets,   \* the values of the server's Config::methods
    Banners,      \* is Config::auth_banner set? A set of Booleans
    MaxRequests,  \* calls of the Handle, or requests of an external client
    MaxDrops      \* calls of the Handle the application may give up

NoUser == "nobody"   \* the empty auth_user

NoKey == "no key"    \* of a request without a public key

ASSUME AuthAssumption ==
    /\ NoUser \notin Users /\ NoKey \notin PublicKeys
    /\ Kinds \subseteq {"thrussh", "external"}
    /\ Banners \subseteq BOOLEAN
    /\ MaxRequests \in Nat /\ MaxDrops \in Nat

VARIABLES
    server,     \* EncryptedState, AuthRequest and auth_user of the server
    client,     \* the same of the client's session
    app,        \* the application behind the Handle
    mailbox,    \* Sender<Msg>: from the application to the session
    replies,    \* UnboundedSender<Reply>: from the session to the application
    toServer, toClient,
    vouched,    \* history: what the handler's last verdict was about, if it was Accept
    granted     \* history: what the request said that USERAUTH_SUCCESS answers

vars == <<server, client, app, mailbox, replies, toServer, toClient, vouched, granted>>

Name == Users \cup {NoUser}

Key == PublicKeys \cup {NoKey}

Vouched == [user : Name, key : Key]

NoVerdict == [user |-> NoUser, key |-> NoKey]

Granted == [type : {"none", "USERAUTH_REQUEST", "INFO_RESPONSE"}, user : Name, key : Key]

Method == {"password", "publickey", "keyboard-interactive"}

ASSUME MethodsAssumption == MethodSets \subseteq SUBSET Method

(* auth::Method of the client; "None" is an auth_method of None. *)
Credential == {"Password", "PublicKey", "FuturePublicKey"}

Verdict == {"Accept", "Reject", "Partial", "UnsupportedMethod", "Err"}

Server == [state : {"WaitingServiceRequest", "WaitingAuthRequest", "InitCompression",
                    "Authenticated"},
           banner : BOOLEAN, methods : SUBSET Method, auth_user : Name,
           current : {"None", "PublicKey", "KeyboardInteractive"},
           status : {"up", "closed", "panic"}]

Client == [kind : Kinds,
           state : {"WaitingServiceRequest", "WaitingAuthRequest", "Authenticated"},
           accepted : BOOLEAN, auth_user : Name, auth_method : Credential \cup {"None"},
           key : Key,   \* of auth_method, or of the signature awaited
           signing : BOOLEAN, waiting : BOOLEAN, opened : BOOLEAN,
           status : {"up", "closed", "Inconsistent", "NoAuthMethod"}]

App == [call : Credential \cup {"None"}, user : Name,
        result : {"none", "true", "false", "error"},
        left : Nat, drops : Nat, abandoned : BOOLEAN]

Request == [type : {"SERVICE_REQUEST", "USERAUTH_REQUEST", "INFO_RESPONSE", "CHANNEL_OPEN"},
            method : {"none", "password", "probe", "signed", "keyboard-interactive"},
            user : Name, key : Key, valid : BOOLEAN]

Answer == [type : {"SERVICE_ACCEPT", "BANNER", "FAILURE", "SUCCESS", "PK_OK", "INFO_REQUEST"},
           methods : SUBSET Method]

Msg == [type : {"Authenticate"}, method : Credential, user : Users, key : Key]
         \cup [type : {"Signed"}, signature : {"good", "bad", "unchanged"}]

Reply == {"AuthSuccess", "AuthFailure", "SignRequest"}

Plain(type) ==
    [type |-> type, method |-> "none", user |-> NoUser, key |-> NoKey, valid |-> FALSE]

AuthRequest(method, user, key, valid) ==
    [type |-> "USERAUTH_REQUEST", method |-> method, user |-> user, key |-> key,
     valid |-> valid]

Says(type) == [type |-> type, methods |-> {}]

PastAuth(sv) == sv.state \in {"InitCompression", "Authenticated"}

-----------------------------------------------------------------------------
(* The server. *)

(* reject_auth_request *)
Rejected(sv) == [sv EXCEPT !.current = "None"]

Failure(sv) == [type |-> "FAILURE", methods |-> sv.methods]

(* server_auth_request_success and the new state that goes with it. *)
Succeeded_StateKept(sv) == sv   \* mutant

Succeeded(sv) == [sv EXCEPT !.state = "InitCompression"]

ServerReads(type) ==
    /\ server.status = "up"
    /\ toServer # <<>>
    /\ Head(toServer).type = type

Answers(sv, out) ==
    /\ server' = sv
    /\ toClient' = toClient \o out
    /\ toServer' = Tail(toServer)

ClientSide == <<client, app, mailbox, replies>>

(* The handler was asked about user and key and said v.  Its error ends     *)
(* run_stream.                                                              *)
Asked(user, key, v) ==
    vouched' = IF v = "Accept" THEN [user |-> user, key |-> key] ELSE NoVerdict

HandlerFails(user, key) ==
    /\ Asked(user, key, "Err")
    /\ Answers([server EXCEPT !.status = "closed"], <<>>)
    /\ UNCHANGED granted

Grants(sv, request) ==
    /\ Answers(Succeeded(sv), <<Says("SUCCESS")>>)
    /\ granted' = [type |-> "USERAUTH_REQUEST", user |-> request.user, key |-> request.key]

Rejects(sv) ==
    /\ Answers(Rejected(sv), <<Failure(sv)>>)
    /\ UNCHANGED granted

ServerAcceptService ==
    /\ ServerReads("SERVICE_REQUEST")
    /\ server.state = "WaitingServiceRequest"
    /\ Answers([server EXCEPT !.state = "WaitingAuthRequest"],
               <<Says("SERVICE_ACCEPT")>> \o IF server.banner THEN <<Says("BANNER")>> ELSE <<>>)
    /\ UNCHANGED <<ClientSide, vouched, granted>>

ReadsAuthRequest(method) ==
    /\ ServerReads("USERAUTH_REQUEST")
    /\ server.state = "WaitingAuthRequest"
    /\ Head(toServer).method = method

(* Every verdict but Accept is a rejection. *)
ServerPassword ==
    /\ ReadsAuthRequest("password")
    /\ UNCHANGED ClientSide
    /\ LET user == Head(toServer).user
           key  == Head(toServer).key
       IN  \/ HandlerFails(user, key)
           \/ /\ Asked(user, key, "Accept")
              /\ Grants([server EXCEPT !.auth_user = user], Head(toServer))
           \/ /\ Asked(user, key, "Reject")
              /\ Rejects([server EXCEPT !.auth_user = NoUser, !.methods = @ \ {"password"}])

(* A public key without a signature. *)
ServerProbe ==
    /\ ReadsAuthRequest("probe")
    /\ UNCHANGED ClientSide
    /\ LET user == Head(toServer).user
           key  == Head(toServer).key
       IN  \/ HandlerFails(user, key)
           \/ /\ Asked(user, key, "Accept")
              /\ Answers([server EXCEPT !.auth_user = user, !.current = "PublicKey"],
                         <<Says("PK_OK")>>)
              /\ UNCHANGED granted
           \/ /\ Asked(user, key, "Reject")
              /\ Rejects([server EXCEPT !.auth_user = NoUser])

(* sent_pk_ok && user == auth_user.  The key PK_OK was sent for is in       *)
(* CurrentRequest::PublicKey, but nothing reads it there: the request may   *)
(* be signed with any key.                                                  *)
PkOkSent(sv, user) == sv.current = "PublicKey" /\ user = sv.auth_user

Verified(sv, request) ==
    IF request.valid THEN Grants(sv, request) ELSE Rejects(sv)

(* A signed request: the handler is asked only if auth_user is empty. *)
ServerSigned ==
    /\ ReadsAuthRequest("signed")
    /\ UNCHANGED ClientSide
    /\ LET request == Head(toServer)
           named   == [server EXCEPT !.auth_user = request.user]
       IN  \/ /\ PkOkSent(server, request.user)
              /\ Verified(server, request)
              /\ UNCHANGED vouched
           \/ /\ ~PkOkSent(server, request.user)
              /\ server.auth_user = NoUser
              /\ \/ HandlerFails(request.user, request.key)
                 \/ /\ Asked(request.user, request.key, "Accept")
                    /\ Verified(named, request)
                 \/ Asked(request.user, request.key, "Reject") /\ Rejects(named)
           \/ /\ ~PkOkSent(server, request.user)
              /\ server.auth_user # NoUser
              /\ Rejects(server)
              /\ UNCHANGED vouched

(* The request for keyboard-interactive replaces what was going on. *)
Interactive_PkOkKept(sv, user) == [sv EXCEPT !.auth_user = user]   \* mutant

Interactive(sv, user) ==
    [sv EXCEPT !.auth_user = user, !.current = "KeyboardInteractive"]

(* reply_userauth_info_response, but for Accept: UnsupportedMethod is        *)
(* unreachable!() there.                                                     *)
RepliesInfo(sv, v) ==
    \/ v = "Reject" /\ Rejects(sv)
    \/ v = "Partial" /\ Answers(sv, <<Says("INFO_REQUEST")>>) /\ UNCHANGED granted
    \/ /\ v = "UnsupportedMethod"
       /\ Answers([sv EXCEPT !.status = "panic"], <<>>)
       /\ UNCHANGED granted

ServerInteractive ==
    /\ ReadsAuthRequest("keyboard-interactive")
    /\ UNCHANGED ClientSide
    /\ LET user == Head(toServer).user
           key  == Head(toServer).key
           sv   == Interactive(server, user)
       IN  \/ HandlerFails(user, key)
           \/ Asked(user, key, "Accept") /\ Grants(sv, Head(toServer))
           \/ \E v \in Verdict \ {"Accept", "Err"} :
                 Asked(user, key, v) /\ RepliesInfo(sv, v)

(* "none" and every other method; auth_none is never asked. *)
ServerOtherMethod ==
    /\ ReadsAuthRequest("none")
    /\ Rejects(server)
    /\ UNCHANGED <<ClientSide, vouched>>

(* read_userauth_info_response.  Only server_read_auth_request leaves        *)
(* WaitingAuthRequest: here an Accept is answered by SUCCESS and no more.    *)
ServerInfoResponse ==
    /\ ServerReads("INFO_RESPONSE")
    /\ server.state = "WaitingAuthRequest"
    /\ UNCHANGED ClientSide
    /\ LET user == server.auth_user
       IN  \/ /\ server.current # "KeyboardInteractive"
              /\ Rejects(server)
              /\ UNCHANGED vouched
           \/ /\ server.current = "KeyboardInteractive"
              /\ \/ HandlerFails(user, NoKey)
                 \/ /\ Asked(user, NoKey, "Accept")
                    /\ Answers(server, <<Says("SUCCESS")>>)
                    /\ granted' = [type |-> "INFO_RESPONSE", user |-> user, key |-> NoKey]
                 \/ \E v \in Verdict \ {"Accept", "Err"} :
                       Asked(user, NoKey, v) /\ RepliesInfo(server, v)

(* The first packet after SUCCESS ends InitCompression; what it asks for is *)
(* the business of the connection layer.                                    *)
ServerAuthenticated ==
    /\ server.status = "up" /\ toServer # <<>>
    /\ PastAuth(server)
    /\ Answers([server EXCEPT !.state = "Authenticated"], <<>>)
    /\ UNCHANGED <<ClientSide, vouched, granted>>

(* A packet that does not fit the state is dropped. *)
Fits(sv, type) ==
    \/ sv.state = "WaitingServiceRequest" /\ type = "SERVICE_REQUEST"
    \/ sv.state = "WaitingAuthRequest" /\ type \in {"USERAUTH_REQUEST", "INFO_RESPONSE"}

ServerIgnores ==
    /\ server.status = "up" /\ toServer # <<>>
    /\ ~PastAuth(server) /\ ~Fits(server, Head(toServer).type)
    /\ Answers(server, <<>>)
    /\ UNCHANGED <<ClientSide, vouched, granted>>

ServerStep ==
    \/ ServerAcceptService \/ ServerPassword \/ ServerProbe \/ ServerSigned
    \/ ServerInteractive \/ ServerOtherMethod \/ ServerInfoResponse
    \/ ServerAuthenticated \/ ServerIgnores

-----------------------------------------------------------------------------
(* The thrussh client's session. *)

Up == client.status = "up"

ServerSide == <<server, vouched, granted>>

Takes(type) ==
    /\ Up /\ ~client.signing
    /\ toClient # <<>>
    /\ Head(toClient).type = type

Thrussh(type) == client.kind = "thrussh" /\ Takes(type)

(* The packet is handled; out goes to the server, reply to the Handle. *)
Handled(cl, out, reply) ==
    /\ client' = cl
    /\ toClient' = Tail(toClient)
    /\ toServer' = toServer \o out
    /\ replies' = replies \o reply

(* write_auth_request: both kinds of public key start with a probe. *)
WriteAuthRequest(user, method, key) ==
    AuthRequest(IF method = "Password" THEN "password" ELSE "probe", user, key, FALSE)

ClientServiceAccepted ==
    /\ Thrussh("SERVICE_ACCEPT")
    /\ client.state = "WaitingServiceRequest"
    /\ LET cl == [client EXCEPT !.accepted = TRUE]
       IN  IF cl.auth_method = "None"
           THEN Handled(cl, <<>>, <<>>)
           ELSE Handled([cl EXCEPT !.state = "WaitingAuthRequest"],
                        <<WriteAuthRequest(cl.auth_user, cl.auth_method, cl.key)>>, <<>>)
    /\ UNCHANGED <<ServerSide, app, mailbox>>

ClientBanner ==
    /\ Thrussh("BANNER")
    /\ client.state = "WaitingAuthRequest"
    /\ Handled(client, <<>>, <<>>)
    /\ UNCHANGED <<ServerSide, app, mailbox>>

(* The error every other packet meets in the first two states. *)
ClientInconsistent ==
    /\ client.kind = "thrussh"
    /\ \E type \in {"SERVICE_ACCEPT", "BANNER", "FAILURE", "SUCCESS", "PK_OK", "INFO_REQUEST"} :
          /\ Takes(type)
          /\ \/ client.state = "WaitingServiceRequest" /\ type # "SERVICE_ACCEPT"
             \/ client.state = "WaitingAuthRequest" /\ type \in {"SERVICE_ACCEPT", "INFO_REQUEST"}
    /\ Handled([client EXCEPT !.status = "Inconsistent"], <<>>, <<>>)
    /\ UNCHANGED <<ServerSide, app, mailbox>>

ClientFailure_Twice(reply) == <<reply, reply>>   \* mutant

(* The reply a FAILURE is reported with. *)
ClientFailure(reply) == <<reply>>

(* auth_method.take() *)
Taken_Kept(cl) == cl   \* mutant

Taken(cl) == [cl EXCEPT !.auth_method = "None"]

ClientRefused ==
    /\ Thrussh("FAILURE")
    /\ client.state = "WaitingAuthRequest"
    /\ LET cl == Taken(client)
       IN  Handled(IF Head(toClient).methods = {}
                   THEN [cl EXCEPT !.status = "NoAuthMethod"] ELSE cl,
                   <<>>, ClientFailure("AuthFailure"))
    /\ UNCHANGED <<ServerSide, app, mailbox>>

(* InitCompression is over at the end of the same iteration. *)
ClientSuccess ==
    /\ Thrussh("SUCCESS")
    /\ client.state = "WaitingAuthRequest"
    /\ Handled([client EXCEPT !.state = "Authenticated"], <<>>, <<"AuthSuccess">>)
    /\ UNCHANGED <<ServerSide, app, mailbox>>

(* The own key signs at once; for a key that lives in an agent the session  *)
(* asks the Handle and waits for Msg::Signed.                               *)
ClientPkOk ==
    /\ Thrussh("PK_OK")
    /\ client.state = "WaitingAuthRequest"
    /\ LET cl == Taken(client)
       IN  CASE client.auth_method = "PublicKey" ->
                  Handled(cl, <<AuthRequest("signed", cl.auth_user, cl.key, TRUE)>>, <<>>)
             [] client.auth_method = "FuturePublicKey" ->
                  Handled([cl EXCEPT !.signing = TRUE], <<>>, <<"SignRequest">>)
             [] OTHER -> Handled(cl, <<>>, <<>>)
    /\ UNCHANGED <<ServerSide, app, mailbox>>

(* The loop inside that wait: whatever is not Signed is dropped, and a      *)
(* buffer that came back unchanged is not sent.  There is at most one       *)
(* Signed per SignRequest, so none comes when nobody waits for it (run()    *)
(* would ignore it).                                                        *)
ClientWaitsForSigned ==
    /\ Up /\ client.signing /\ mailbox # <<>>
    /\ mailbox' = Tail(mailbox)
    /\ LET msg == Head(mailbox)
       IN  IF msg.type = "Signed"
           THEN /\ client' = [client EXCEPT !.signing = FALSE]
                /\ toServer' = toServer \o
                      IF msg.signature = "unchanged" THEN <<>>
                      ELSE <<AuthRequest("signed", client.auth_user, client.key,
                                         msg.signature = "good")>>
           ELSE UNCHANGED <<client, toServer>>
    /\ UNCHANGED <<ServerSide, app, replies, toClient>>

(* is_waiting of write_auth_request_if_needed. *)
IsWaiting_NotAccepted(cl) == cl.state = "WaitingAuthRequest"   \* mutant

IsWaiting(cl) ==
    cl.state = "WaitingAuthRequest" \/ (cl.state = "WaitingServiceRequest" /\ cl.accepted)

Stored_MethodOnly(cl, msg) == [cl EXCEPT !.auth_method = msg.method]   \* mutant

Stored_KeyKept(cl, msg) ==   \* mutant
    [cl EXCEPT !.auth_user = msg.user, !.auth_method = msg.method]

Stored(cl, msg) ==
    [cl EXCEPT !.auth_user = msg.user, !.auth_method = msg.method, !.key = msg.key]

ClientAuthenticate ==
    /\ Up /\ ~client.signing /\ mailbox # <<>>
    /\ Head(mailbox).type = "Authenticate"
    /\ mailbox' = Tail(mailbox)
    /\ LET msg == Head(mailbox)
       IN  /\ client' = Stored(client, msg)
           /\ toServer' = toServer \o
                 IF IsWaiting(client)
                 THEN <<WriteAuthRequest(msg.user, msg.method, msg.key)>> ELSE <<>>
    /\ UNCHANGED <<ServerSide, app, replies, toClient>>

(* The read meets the end of the stream. *)
ClientHangup ==
    /\ Up /\ ~client.signing
    /\ server.status # "up" /\ toClient = <<>>
    /\ client' = [client EXCEPT !.status = "closed"]
    /\ UNCHANGED <<ServerSide, app, mailbox, replies, toServer, toClient>>

ClientStep ==
    \/ ClientServiceAccepted \/ ClientBanner \/ ClientInconsistent \/ ClientRefused
    \/ ClientSuccess \/ ClientPkOk \/ ClientWaitsForSigned \/ ClientAuthenticate
    \/ ClientHangup

-----------------------------------------------------------------------------
(* The application and its Handle. *)

SessionSide == <<client, toServer, toClient>>

(* authenticate_password, _publickey, _future: Msg::Authenticate, then a    *)
(* loop over the replies.  A user who is in does not authenticate again.    *)
AppAuthenticate ==
    /\ client.kind = "thrussh" /\ Up
    /\ app.call = "None" /\ app.result # "true" /\ app.left > 0
    /\ \E user \in Users, method \in Credential, key \in Key :
          /\ key = NoKey <=> method = "Password"
          /\ app' = [app EXCEPT !.call = method, !.user = user, !.result = "none",
                                !.left = @ - 1]
          /\ mailbox' = Append(mailbox,
                [type |-> "Authenticate", method |-> method, user |-> user, key |-> key])
    /\ UNCHANGED <<ServerSide, SessionSide, replies>>

Returns(result) == app' = [app EXCEPT !.call = "None", !.result = result]

AppReply ==
    /\ app.call # "None" /\ replies # <<>>
    /\ replies' = Tail(replies)
    /\ \/ Head(replies) = "AuthSuccess" /\ Returns("true") /\ UNCHANGED mailbox
       \/ Head(replies) = "AuthFailure" /\ Returns("false") /\ UNCHANGED mailbox
       \/ /\ Head(replies) = "SignRequest" /\ app.call # "FuturePublicKey"
          /\ UNCHANGED <<app, mailbox>>
    /\ UNCHANGED <<ServerSide, SessionSide>>

(* Signer::auth_publickey_sign: a signature, the data as it was, or an      *)
(* error, which makes the call return.                                      *)
AppSigns ==
    /\ app.call = "FuturePublicKey" /\ replies # <<>>
    /\ Head(replies) = "SignRequest"
    /\ replies' = Tail(replies)
    /\ \/ \E signature \in {"good", "bad", "unchanged"} :
             /\ mailbox' = Append(mailbox, [type |-> "Signed", signature |-> signature])
             /\ app' = [app EXCEPT !.abandoned = @ \/ signature = "unchanged"]
       \/ /\ app' = [app EXCEPT !.call = "None", !.result = "error", !.abandoned = TRUE]
          /\ UNCHANGED mailbox
    /\ UNCHANGED <<ServerSide, SessionSide>>

(* The session is gone, its Sender<Reply> dropped: recv() yields None. *)
AppSessionGone ==
    /\ app.call # "None" /\ replies = <<>> /\ ~Up
    /\ Returns("false")
    /\ UNCHANGED <<ServerSide, SessionSide, mailbox, replies>>

(* The future of a call is dropped, say by a timeout of the application. *)
AppDropsCall ==
    /\ app.call # "None" /\ app.drops > 0
    /\ app' = [app EXCEPT !.call = "None", !.drops = @ - 1, !.abandoned = TRUE]
    /\ UNCHANGED <<ServerSide, SessionSide, mailbox, replies>>

(* An authenticated client opens a channel. *)
ClientOpens ==
    /\ Up /\ client.state = "Authenticated" /\ ~client.opened
    /\ client' = [client EXCEPT !.opened = TRUE]
    /\ toServer' = Append(toServer, Plain("CHANNEL_OPEN"))
    /\ UNCHANGED <<ServerSide, app, mailbox, replies, toClient>>

AppAnswers == AppReply \/ AppSigns \/ AppSessionGone

-----------------------------------------------------------------------------
(* An external client: one request at a time, as RFC 4252 has it, with      *)
(* whatever method and user it likes.                                       *)

External == client.kind = "external" /\ Up

Spends(n) == app.left >= n /\ app' = [app EXCEPT !.left = @ - n]

ExternalRequest ==
    /\ External /\ client.state = "WaitingAuthRequest" /\ ~client.waiting
    /\ Spends(1)
    /\ \E request \in Request :
          /\ request.type = "USERAUTH_REQUEST" /\ request.user # NoUser
          /\ request.key # NoKey <=> request.method \in {"probe", "signed"}
          /\ request.valid => request.method = "signed"
          /\ toServer' = Append(toServer, request)
    /\ client' = [client EXCEPT !.waiting = TRUE]
    /\ UNCHANGED <<ServerSide, mailbox, replies, toClient>>

ExternalReads ==
    /\ External /\ toClient # <<>>
    /\ client' = CASE Head(toClient).type = "SERVICE_ACCEPT" ->
                        [client EXCEPT !.state = "WaitingAuthRequest"]
                   [] Head(toClient).type = "SUCCESS" ->
                        [client EXCEPT !.state = "Authenticated", !.waiting = FALSE]
                   [] Head(toClient).type = "BANNER" -> client
                   [] OTHER -> [client EXCEPT !.waiting = FALSE]
    /\ toClient' = Tail(toClient)
    /\ UNCHANGED <<ServerSide, app, mailbox, replies, toServer>>

ExternalResponds ==
    /\ External /\ Takes("INFO_REQUEST")
    /\ Spends(1)
    /\ toClient' = Tail(toClient)
    /\ toServer' = Append(toServer, Plain("INFO_RESPONSE"))
    /\ UNCHANGED <<ServerSide, client, mailbox, replies>>

-----------------------------------------------------------------------------
(* The first key exchange is over and the client has asked for the service. *)
Init ==
    /\ \E banner \in Banners, methods \in MethodSets :
          server = [state |-> "WaitingServiceRequest", banner |-> banner,
                    methods |-> methods, auth_user |-> NoUser, current |-> "None",
                    status |-> "up"]
    /\ \E kind \in Kinds :
          client = [kind |-> kind, state |-> "WaitingServiceRequest", accepted |-> FALSE,
                    auth_user |-> NoUser, auth_method |-> "None", key |-> NoKey,
                    signing |-> FALSE,
                    waiting |-> FALSE, opened |-> FALSE, status |-> "up"]
    /\ app = [call |-> "None", user |-> NoUser, result |-> "none", left |-> MaxRequests,
              drops |-> MaxDrops, abandoned |-> FALSE]
    /\ mailbox = <<>> /\ replies = <<>>
    /\ toServer = <<Plain("SERVICE_REQUEST")>> /\ toClient = <<>>
    /\ vouched = NoVerdict
    /\ granted = [type |-> "none", user |-> NoUser, key |-> NoKey]

Next ==
    \/ ServerStep \/ ClientStep
    \/ AppAuthenticate \/ AppAnswers \/ AppDropsCall \/ ClientOpens
    \/ ExternalRequest \/ ExternalReads \/ ExternalResponds

Spec == Init /\ [][Next]_vars

(* The event loops run, and an application that made a call polls it and    *)
(* its signer; it need not make a call, and the handler may say anything.   *)
FairSpec ==
    Spec /\ WF_vars(ServerStep) /\ WF_vars(ClientStep) /\ WF_vars(AppAnswers)

-----------------------------------------------------------------------------
(* Every variable keeps its type; while a signature is awaited the method   *)
(* it is for has been taken.                                                *)
TypeOK ==
    /\ server \in Server /\ client \in Client /\ app \in App
    /\ client.signing => client.state = "WaitingAuthRequest" /\ client.auth_method = "None"
    /\ mailbox \in Seq(Msg) /\ replies \in Seq(Reply)
    /\ toServer \in Seq(Request) /\ toClient \in Seq(Answer)
    /\ vouched \in Vouched /\ granted \in Granted

(* SUCCESS is only sent for the user the handler's last verdict accepted,   *)
(* and that is the user of the session from then on, whatever probes,       *)
(* signatures, rejections and changes of method came before (sent_pk_ok,    *)
(* auth_user and current in server_read_auth_request_pk).  The key that     *)
(* signed is the key of that verdict, unless a PK_OK was outstanding: then  *)
(* the code compares the user alone, and the key need not be one the        *)
(* handler has accepted, which is not what Handler::auth_publickey says.    *)
GrantedByVerdict ==
    granted.user # NoUser =>
        /\ granted.user = vouched.user /\ granted.user = server.auth_user
        /\ granted.key = vouched.key \/ server.current = "PublicKey"

(* A thrussh client never makes use of that: whatever calls it makes, gives *)
(* up and makes again, the PK_OK that makes it sign belongs, on the server, *)
(* to the key it signs with, or the handler is asked about that key again   *)
(* (auth_method.take() in PK_OK, the replacement of auth_method by the next *)
(* Authenticate).                                                           *)
KeyWasJudged ==
    client.kind = "thrussh" /\ granted.user # NoUser => granted.key = vouched.key

(* A call that returns true authenticated its own user, unless the          *)
(* application had given up on an earlier one (authenticate_* take the next *)
(* reply, whichever call it belongs to).                                    *)
TrueIsOwnSuccess == app.result = "true" /\ ~app.abandoned => granted.user = app.user

(* A call that returns false left the user unauthenticated, unless the      *)
(* session or the connection broke down around it.                          *)
FalseIsRefusal ==
    app.result = "false" /\ ~app.abandoned /\ server.status = "up"
        /\ client.status \in {"up", "NoAuthMethod"} => granted.user = NoUser

(* A client that has read SUCCESS finds the server ready for the connection *)
(* layer, unless the SUCCESS answered a USERAUTH_INFO_RESPONSE.             *)
SuccessIsMutual ==
    client.state = "Authenticated" =>
        PastAuth(server) \/ granted.type = "INFO_RESPONSE"

(* Every call comes back, as long as the application neither dropped one    *)
(* nor left a SignRequest without a signature (the loop in PK_OK).          *)
CallReturns ==
    (app.call # "None" /\ ~app.abandoned) ~> (app.call = "None" \/ app.abandoned)

(* An accepted USERAUTH_INFO_RESPONSE moves the server on as every other    *)
(* accepted request does.                                                   *)
AcceptMovesOn == granted.user # NoUser => PastAuth(server)

(* The client asks when the server waits for its request, and so it         *)
(* understands the answer.                                                  *)
AnswerUnderstood == client.status # "Inconsistent"

=============================================================================
