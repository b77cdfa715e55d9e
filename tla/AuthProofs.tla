----------------------------- MODULE AuthProofs -----------------------------
(***************************************************************************)
(* Theorems about Auth, for all users, keys, kinds of client, sets of      *)
(* methods and numbers of calls: the type invariant, and that the server   *)
(* lets in nobody but the user its handler accepted last.                  *)
(***************************************************************************)
EXTENDS Auth, SequenceTheorems, TLAPS

-----------------------------------------------------------------------------
(* The inductive invariant. *)

Only(seq, types) == \A i \in 1..Len(seq) : seq[i].type \in types

(* While PK_OK is what the server said last, the handler's last verdict was *)
(* the one PK_OK passed on.                                                 *)
PkVouched ==
    server.status = "up" /\ server.current = "PublicKey" => vouched.user = server.auth_user

(* A thrussh client never starts keyboard-interactive, and so every SUCCESS *)
(* it gets has taken the server out of authentication.                      *)
ThrusshInvariant ==
    /\ server.current # "KeyboardInteractive"
    /\ \A i \in 1..Len(toServer) : toServer[i].method # "keyboard-interactive"
    /\ granted.user # NoUser => PastAuth(server)

(* The phases of an external client, which has one request under way.       *)
NotStarted ==
    /\ client.state = "WaitingServiceRequest" /\ ~client.waiting
    /\ server.state = "WaitingServiceRequest"
    /\ toClient = <<>> /\ Len(toServer) <= 1 /\ granted.user = NoUser

Started ==
    /\ client.state = "WaitingServiceRequest" /\ ~client.waiting
    /\ server.state = "WaitingAuthRequest"
    /\ toServer = <<>> /\ granted.user = NoUser
    /\ toClient # <<>> /\ toClient[1].type = "SERVICE_ACCEPT"
    /\ \A i \in 2..Len(toClient) : toClient[i].type = "BANNER"

Idle ==
    /\ client.state = "WaitingAuthRequest" /\ ~client.waiting
    /\ server.state = "WaitingAuthRequest"
    /\ toServer = <<>> /\ granted.user = NoUser
    /\ Only(toClient, {"BANNER"})

Requested ==
    /\ client.state = "WaitingAuthRequest" /\ client.waiting
    /\ server.state = "WaitingAuthRequest"
    /\ Len(toServer) = 1 /\ granted.user = NoUser
    /\ toServer[1].type \in {"USERAUTH_REQUEST", "INFO_RESPONSE"}
    /\ Only(toClient, {"BANNER"})

Replied ==
    /\ client.state = "WaitingAuthRequest" /\ client.waiting
    /\ toServer = <<>>
    /\ toClient # <<>>
    /\ \A i \in 1..(Len(toClient) - 1) : toClient[i].type = "BANNER"
    /\ \/ toClient[Len(toClient)].type = "SUCCESS"
       \/ /\ toClient[Len(toClient)].type \in {"FAILURE", "PK_OK", "INFO_REQUEST"}
          /\ server.state = "WaitingAuthRequest" /\ granted.user = NoUser

Stranded ==
    /\ client.state = "WaitingAuthRequest" /\ client.waiting
    /\ server.status # "up"
    /\ toServer = <<>> /\ granted.user = NoUser
    /\ Only(toClient, {"BANNER"})

Inside ==
    /\ client.state = "Authenticated" /\ ~client.waiting
    /\ toClient = <<>>
    /\ Only(toServer, {"CHANNEL_OPEN"})

ExternalInvariant ==
    /\ mailbox = <<>> /\ ~client.signing /\ app.call = "None"
    /\ NotStarted \/ Started \/ Idle \/ Requested \/ Replied \/ Stranded \/ Inside

IInv ==
    /\ TypeOK
    /\ GrantedByVerdict
    /\ PkVouched
    /\ client.kind = "thrussh" => ThrusshInvariant
    /\ client.kind = "external" => ExternalInvariant

-----------------------------------------------------------------------------
(* What the server does with one packet: it takes it, answers out, and      *)
(* nothing else moves.                                                      *)
Handles(out) ==
    /\ server.status = "up" /\ toServer # <<>>
    /\ server' \in Server /\ vouched' \in Vouched /\ granted' \in Granted
    /\ toServer' = Tail(toServer)
    /\ toClient' = toClient \o out
    /\ UNCHANGED ClientSide

(* The three ends of an authentication request. *)
Dies ==
    /\ Handles(<<>>)
    /\ server'.status # "up"
    /\ granted' = granted

Replies ==
    /\ \E a \in Answer : a.type \in {"FAILURE", "PK_OK", "INFO_REQUEST"} /\ Handles(<<a>>)
    /\ server'.state = "WaitingAuthRequest"
    /\ server'.current = "PublicKey" => vouched'.user = server'.auth_user
    /\ granted' = granted

Enters ==
    /\ Handles(<<Says("SUCCESS")>>)
    /\ granted'.user = vouched'.user /\ granted'.user = server'.auth_user
    /\ granted'.key = vouched'.key \/ server'.current = "PublicKey"
    /\ \/ PastAuth(server')
       \/ server'.current = "KeyboardInteractive" /\ granted'.type = "INFO_RESPONSE"
    /\ Head(toServer).type = "USERAUTH_REQUEST" => granted'.user = Head(toServer).user

AuthTurn ==
    /\ server.state = "WaitingAuthRequest"
    /\ Head(toServer).type \in {"USERAUTH_REQUEST", "INFO_RESPONSE"}
    /\ Dies \/ Replies \/ Enters
    /\ server'.current = "KeyboardInteractive" =>
          \/ server.current = "KeyboardInteractive"
          \/ Head(toServer).method = "keyboard-interactive"

LEMMA HeadRequest ==
    ASSUME TypeOK, toServer # <<>>
    PROVE  /\ Head(toServer) \in Request
           /\ Head(toServer).user \in Name /\ Head(toServer).key \in Key
<1>1. toServer \in Seq(Request)
  BY DEF TypeOK
<1>2. Head(toServer) \in Request
  BY <1>1, HeadTailProperties
<1> QED BY <1>2 DEF Request

LEMMA SaysTyped ==
    ASSUME NEW type \in {"SERVICE_ACCEPT", "BANNER", "FAILURE", "SUCCESS", "PK_OK",
                         "INFO_REQUEST"}
    PROVE  Says(type) \in Answer /\ Says(type).type = type
BY DEF Says, Answer

(* The pieces the handlers are built from. *)

LEMMA HandlerFailsTurn ==
    ASSUME TypeOK, server.status = "up", toServer # <<>>, NEW user \in Name,
           NEW key \in Key, HandlerFails(user, key), UNCHANGED ClientSide
    PROVE  Dies /\ server'.current = server.current
BY DEF HandlerFails, Asked, Answers, Dies, Handles, TypeOK, Server, Name, Key, Vouched,
   NoVerdict

LEMMA RejectsTurn ==
    ASSUME NEW sv \in Server, sv.state = "WaitingAuthRequest",
           server.status = "up", toServer # <<>>, granted \in Granted,
           vouched' \in Vouched, Rejects(sv), UNCHANGED ClientSide
    PROVE  Replies /\ server'.current = "None"
<1>1. Failure(sv) \in Answer /\ Failure(sv).type = "FAILURE"
  BY DEF Failure, Answer, Server
<1>2. /\ Rejected(sv) \in Server
      /\ Rejected(sv).state = "WaitingAuthRequest" /\ Rejected(sv).current = "None"
  BY DEF Rejected, Server
<1> QED BY <1>1, <1>2 DEF Rejects, Answers, Replies, Handles

LEMMA GrantsTurn ==
    ASSUME NEW sv \in Server, NEW request \in Request, sv.auth_user = request.user,
           server.status = "up", toServer # <<>>, request = Head(toServer),
           vouched' \in Vouched, vouched'.user = request.user,
           vouched'.key = request.key \/ sv.current = "PublicKey",
           Grants(sv, request), UNCHANGED ClientSide
    PROVE  Enters /\ server'.current = sv.current
<1>1. /\ Succeeded(sv) \in Server
      /\ PastAuth(Succeeded(sv)) /\ Succeeded(sv).auth_user = request.user
      /\ Succeeded(sv).current = sv.current
  BY DEF Succeeded, Server, PastAuth
<1>2. /\ granted' \in Granted
      /\ granted'.user = request.user /\ granted'.key = request.key
  BY DEF Grants, Granted, Request
<1> QED BY <1>1, <1>2 DEF Grants, Answers, Enters, Handles

(* Accept or not, a verdict leaves a user and a key behind. *)
LEMMA AskedTyped ==
    ASSUME NEW user \in Name, NEW key \in Key, NEW v, Asked(user, key, v)
    PROVE  /\ vouched' \in Vouched
           /\ v = "Accept" => vouched'.user = user /\ vouched'.key = key
BY DEF Asked, Name, Key, Vouched, NoVerdict

LEMMA NoKeyIsKey == NoKey \in Key
BY DEF Key

(* The handlers.  What they have in common: *)
LEMMA AuthRequestRead ==
    ASSUME TypeOK, NEW method, ReadsAuthRequest(method)
    PROVE  /\ server.status = "up" /\ toServer # <<>>
           /\ server.state = "WaitingAuthRequest"
           /\ Head(toServer).type = "USERAUTH_REQUEST" /\ Head(toServer).method = method
           /\ Head(toServer) \in Request
           /\ Head(toServer).user \in Name /\ Head(toServer).key \in Key
           /\ server \in Server /\ granted \in Granted /\ vouched \in Vouched
BY HeadRequest DEF ReadsAuthRequest, ServerReads, TypeOK

LEMMA PasswordTurn ==
    ASSUME TypeOK, ServerPassword
    PROVE  AuthTurn
<1> DEFINE user == Head(toServer).user
           key  == Head(toServer).key
           in   == [server EXCEPT !.auth_user = user]
           out  == [server EXCEPT !.auth_user = NoUser, !.methods = @ \ {"password"}]
<1>1. /\ server.status = "up" /\ toServer # <<>>
      /\ server.state = "WaitingAuthRequest"
      /\ Head(toServer).type = "USERAUTH_REQUEST"
      /\ Head(toServer) \in Request /\ key \in Key
      /\ user \in Name /\ server \in Server /\ granted \in Granted
  BY AuthRequestRead DEF ServerPassword
<1>2. /\ in \in Server /\ in.auth_user = user /\ in.current = server.current
      /\ out \in Server /\ out.state = server.state
  BY <1>1 DEF Server, Name
<1>3. UNCHANGED ClientSide
  BY DEF ServerPassword
<1>4. \/ HandlerFails(user, key)
      \/ Asked(user, key, "Accept") /\ Grants(in, Head(toServer))
      \/ Asked(user, key, "Reject") /\ Rejects(out)
  BY DEF ServerPassword
<1> HIDE DEF user, key, in, out
<1>5. CASE HandlerFails(user, key)
  BY <1>1, <1>3, <1>5, HandlerFailsTurn DEF AuthTurn
<1>6. CASE Asked(user, key, "Accept") /\ Grants(in, Head(toServer))
  BY <1>1, <1>2, <1>3, <1>6, AskedTyped, GrantsTurn DEF AuthTurn, user, key
<1>7. CASE Asked(user, key, "Reject") /\ Rejects(out)
  BY <1>1, <1>2, <1>3, <1>7, AskedTyped, RejectsTurn DEF AuthTurn
<1> QED BY <1>4, <1>5, <1>6, <1>7

LEMMA ProbeTurn ==
    ASSUME TypeOK, ServerProbe
    PROVE  AuthTurn
<1> DEFINE user == Head(toServer).user
           key  == Head(toServer).key
           in   == [server EXCEPT !.auth_user = user, !.current = "PublicKey"]
           out  == [server EXCEPT !.auth_user = NoUser]
<1>1. /\ server.status = "up" /\ toServer # <<>>
      /\ server.state = "WaitingAuthRequest"
      /\ Head(toServer).type = "USERAUTH_REQUEST"
      /\ user \in Name /\ key \in Key /\ server \in Server /\ granted \in Granted
  BY AuthRequestRead DEF ServerProbe
<1>2. /\ in \in Server /\ in.auth_user = user /\ in.current = "PublicKey"
      /\ in.state = server.state
      /\ out \in Server /\ out.state = server.state
  BY <1>1 DEF Server, Name
<1>3. UNCHANGED ClientSide
  BY DEF ServerProbe
<1>4. \/ HandlerFails(user, key)
      \/ Asked(user, key, "Accept") /\ Answers(in, <<Says("PK_OK")>>) /\ UNCHANGED granted
      \/ Asked(user, key, "Reject") /\ Rejects(out)
  BY DEF ServerProbe
<1> HIDE DEF user, key, in, out
<1>5. CASE HandlerFails(user, key)
  BY <1>1, <1>3, <1>5, HandlerFailsTurn DEF AuthTurn
<1>6. CASE Asked(user, key, "Accept") /\ Answers(in, <<Says("PK_OK")>>) /\ UNCHANGED granted
  <2>1. vouched'.user = user /\ vouched' \in Vouched
    BY <1>1, <1>6, AskedTyped
  <2>2. server' = in /\ Handles(<<Says("PK_OK")>>)
    BY <1>1, <1>2, <1>3, <1>6, <2>1 DEF Answers, Handles
  <2>3. Replies
    BY <1>1, <1>2, <1>6, <2>1, <2>2, SaysTyped DEF Replies
  <2> QED BY <1>1, <1>2, <2>2, <2>3 DEF AuthTurn
<1>7. CASE Asked(user, key, "Reject") /\ Rejects(out)
  BY <1>1, <1>2, <1>3, <1>7, AskedTyped, RejectsTurn DEF AuthTurn
<1> QED BY <1>4, <1>5, <1>6, <1>7

(* Here the verdict may be an old one: PkVouched says whose it was. *)
LEMMA SignedTurn ==
    ASSUME TypeOK, PkVouched, ServerSigned
    PROVE  AuthTurn
<1> DEFINE request == Head(toServer)
           user    == request.user
           key     == request.key
           named   == [server EXCEPT !.auth_user = user]
<1>1. /\ server.status = "up" /\ toServer # <<>>
      /\ server.state = "WaitingAuthRequest"
      /\ request.type = "USERAUTH_REQUEST"
      /\ request \in Request /\ user \in Name /\ key \in Key
      /\ server \in Server /\ granted \in Granted /\ vouched \in Vouched
  BY AuthRequestRead DEF ServerSigned
<1>2. /\ named \in Server /\ named.auth_user = user /\ named.current = server.current
      /\ named.state = server.state
  BY <1>1 DEF Server, Name
<1>3. UNCHANGED ClientSide
  BY DEF ServerSigned
<1>4. \/ /\ PkOkSent(server, user)
         /\ Verified(server, request)
         /\ UNCHANGED vouched
      \/ HandlerFails(user, key)
      \/ Asked(user, key, "Accept") /\ Verified(named, request)
      \/ Asked(user, key, "Reject") /\ Rejects(named)
      \/ Rejects(server) /\ UNCHANGED vouched
  BY DEF ServerSigned
<1>5. ASSUME NEW sv, Verified(sv, request)
      PROVE  Grants(sv, request) \/ Rejects(sv)
  BY <1>5 DEF Verified
<1> HIDE DEF request, user, key, named
<1>6. CASE PkOkSent(server, user) /\ Verified(server, request) /\ UNCHANGED vouched
  <2>1. /\ server.auth_user = user /\ server.current = "PublicKey"
        /\ vouched'.user = user /\ vouched' \in Vouched
    BY <1>1, <1>6 DEF PkOkSent, PkVouched
  <2> QED BY <1>1, <1>3, <1>5, <1>6, <2>1, GrantsTurn, RejectsTurn
      DEF AuthTurn, request, user, key
<1>7. CASE HandlerFails(user, key)
  BY <1>1, <1>3, <1>7, HandlerFailsTurn DEF AuthTurn, request
<1>8. CASE Asked(user, key, "Accept") /\ Verified(named, request)
  BY <1>1, <1>2, <1>3, <1>5, <1>8, AskedTyped, GrantsTurn, RejectsTurn
     DEF AuthTurn, request, user, key
<1>9. CASE Asked(user, key, "Reject") /\ Rejects(named)
  BY <1>1, <1>2, <1>3, <1>9, AskedTyped, RejectsTurn DEF AuthTurn, request
<1>10. CASE Rejects(server) /\ UNCHANGED vouched
  BY <1>1, <1>3, <1>10, RejectsTurn DEF AuthTurn, request
<1> QED BY <1>4, <1>6, <1>7, <1>8, <1>9, <1>10

(* A keyboard-interactive answer that is not Accept. *)
LEMMA RepliesInfoTurn ==
    ASSUME NEW sv \in Server, sv.state = "WaitingAuthRequest",
           sv.current = "KeyboardInteractive",
           server.status = "up", toServer # <<>>, granted \in Granted,
           vouched' \in Vouched, UNCHANGED ClientSide, NEW v, RepliesInfo(sv, v)
    PROVE  Dies \/ Replies
<1>1. CASE Rejects(sv)
  BY <1>1, RejectsTurn
<1>2. CASE Answers(sv, <<Says("INFO_REQUEST")>>) /\ UNCHANGED granted
  <2>1. Says("INFO_REQUEST") \in Answer /\ Says("INFO_REQUEST").type = "INFO_REQUEST"
    BY SaysTyped
  <2> QED BY <1>2, <2>1 DEF Answers, Replies, Handles
<1>3. CASE Answers([sv EXCEPT !.status = "panic"], <<>>) /\ UNCHANGED granted
  <2>1. [sv EXCEPT !.status = "panic"] \in Server
        /\ [sv EXCEPT !.status = "panic"].status # "up"
    BY DEF Server
  <2> QED BY <1>3, <2>1 DEF Answers, Dies, Handles
<1> QED BY <1>1, <1>2, <1>3 DEF RepliesInfo

LEMMA InteractiveTurn ==
    ASSUME TypeOK, ServerInteractive
    PROVE  AuthTurn
<1> DEFINE user == Head(toServer).user
           key  == Head(toServer).key
           sv   == Interactive(server, user)
<1>1. /\ server.status = "up" /\ toServer # <<>>
      /\ server.state = "WaitingAuthRequest"
      /\ Head(toServer).type = "USERAUTH_REQUEST"
      /\ Head(toServer).method = "keyboard-interactive"
      /\ Head(toServer) \in Request /\ key \in Key
      /\ user \in Name /\ server \in Server /\ granted \in Granted
  BY AuthRequestRead DEF ServerInteractive
<1>2. /\ sv \in Server /\ sv.auth_user = user /\ sv.state = server.state
      /\ sv.current = "KeyboardInteractive"
  BY <1>1 DEF Interactive, Server, Name
<1>3. UNCHANGED ClientSide
  BY DEF ServerInteractive
<1>4. \/ HandlerFails(user, key)
      \/ Asked(user, key, "Accept") /\ Grants(sv, Head(toServer))
      \/ \E v \in Verdict \ {"Accept", "Err"} : Asked(user, key, v) /\ RepliesInfo(sv, v)
  BY DEF ServerInteractive
<1> HIDE DEF user, key, sv
<1>5. CASE HandlerFails(user, key)
  BY <1>1, <1>3, <1>5, HandlerFailsTurn DEF AuthTurn
<1>6. CASE Asked(user, key, "Accept") /\ Grants(sv, Head(toServer))
  BY <1>1, <1>2, <1>3, <1>6, AskedTyped, GrantsTurn DEF AuthTurn, user, key
<1>7. CASE \E v \in Verdict \ {"Accept", "Err"} : Asked(user, key, v) /\ RepliesInfo(sv, v)
  BY <1>1, <1>2, <1>3, <1>7, AskedTyped, RepliesInfoTurn DEF AuthTurn
<1> QED BY <1>4, <1>5, <1>6, <1>7

LEMMA OtherMethodTurn ==
    ASSUME TypeOK, ServerOtherMethod
    PROVE  AuthTurn
<1>1. /\ server.status = "up" /\ toServer # <<>>
      /\ server.state = "WaitingAuthRequest"
      /\ Head(toServer).type = "USERAUTH_REQUEST"
      /\ server \in Server /\ granted \in Granted /\ vouched \in Vouched
  BY AuthRequestRead DEF ServerOtherMethod
<1>2. UNCHANGED ClientSide /\ vouched' \in Vouched /\ Rejects(server)
  BY <1>1 DEF ServerOtherMethod
<1> QED BY <1>1, <1>2, RejectsTurn DEF AuthTurn

LEMMA InfoResponseTurn ==
    ASSUME TypeOK, ServerInfoResponse
    PROVE  AuthTurn
<1> DEFINE user == server.auth_user
<1>1. /\ server.status = "up" /\ toServer # <<>>
      /\ server.state = "WaitingAuthRequest"
      /\ Head(toServer).type = "INFO_RESPONSE"
      /\ user \in Name /\ server \in Server /\ granted \in Granted /\ vouched \in Vouched
  BY DEF ServerInfoResponse, ServerReads, TypeOK, Server
<1>2. UNCHANGED ClientSide
  BY DEF ServerInfoResponse
<1>3. \/ Rejects(server) /\ UNCHANGED vouched
      \/ /\ server.current = "KeyboardInteractive"
         /\ \/ HandlerFails(user, NoKey)
            \/ /\ Asked(user, NoKey, "Accept")
               /\ Answers(server, <<Says("SUCCESS")>>)
               /\ granted' = [type |-> "INFO_RESPONSE", user |-> user, key |-> NoKey]
            \/ \E v \in Verdict \ {"Accept", "Err"} :
                  Asked(user, NoKey, v) /\ RepliesInfo(server, v)
  BY DEF ServerInfoResponse
<1>4. CASE Rejects(server) /\ UNCHANGED vouched
  BY <1>1, <1>2, <1>4, RejectsTurn DEF AuthTurn
<1>5. CASE HandlerFails(user, NoKey)
  BY <1>1, <1>2, <1>5, HandlerFailsTurn, NoKeyIsKey DEF AuthTurn
<1>6. CASE /\ server.current = "KeyboardInteractive"
           /\ Asked(user, NoKey, "Accept")
           /\ Answers(server, <<Says("SUCCESS")>>)
           /\ granted' = [type |-> "INFO_RESPONSE", user |-> user, key |-> NoKey]
  <2>1. vouched'.user = user /\ vouched'.key = NoKey /\ vouched' \in Vouched
    BY <1>1, <1>6, NoKeyIsKey, AskedTyped
  <2>2. server' = server /\ Handles(<<Says("SUCCESS")>>)
    BY <1>1, <1>2, <1>6, <2>1, NoKeyIsKey DEF Answers, Handles, Granted
  <2>3. Enters
    BY <1>1, <1>6, <2>1, <2>2 DEF Enters
  <2> QED BY <1>1, <1>6, <2>3 DEF AuthTurn
<1>7. CASE /\ server.current = "KeyboardInteractive"
           /\ \E v \in Verdict \ {"Accept", "Err"} :
                  Asked(user, NoKey, v) /\ RepliesInfo(server, v)
  BY <1>1, <1>2, <1>7, NoKeyIsKey, AskedTyped, RepliesInfoTurn DEF AuthTurn
<1> QED BY <1>3, <1>4, <1>5, <1>6, <1>7

LEMMA AuthTurns ==
    ASSUME TypeOK, PkVouched,
           \/ ServerPassword \/ ServerProbe \/ ServerSigned \/ ServerInteractive
           \/ ServerOtherMethod \/ ServerInfoResponse
    PROVE  AuthTurn
BY PasswordTurn, ProbeTurn, SignedTurn, InteractiveTurn, OtherMethodTurn, InfoResponseTurn

-----------------------------------------------------------------------------
(* Queues: what reading the head and adding an element leave.               *)

LEMMA Removed ==
    ASSUME NEW S, NEW seq \in Seq(S), seq # <<>>
    PROVE  /\ Len(seq) \in Nat /\ Len(seq) >= 1
           /\ Head(seq) \in S /\ Head(seq) = seq[1]
           /\ Tail(seq) \in Seq(S) /\ Len(Tail(seq)) = Len(seq) - 1
           /\ \A i \in 1..(Len(seq) - 1) : Tail(seq)[i] = seq[i + 1]
           /\ Len(seq) = 1 => Tail(seq) = <<>>
<1>1. Len(seq) \in Nat \ {0}
  BY EmptySeq
<1>2. /\ Head(seq) \in S /\ Tail(seq) \in Seq(S) /\ Len(Tail(seq)) = Len(seq) - 1
      /\ \A i \in 1..(Len(seq) - 1) : Tail(seq)[i] = seq[i + 1]
  BY HeadTailProperties
<1>3. Head(seq) = seq[1]
  OBVIOUS
<1>4. Len(Tail(seq)) = 0 => Tail(seq) = <<>>
  BY <1>2, EmptySeq
<1> QED BY <1>1, <1>2, <1>3, <1>4

LEMMA Added ==
    ASSUME NEW S, NEW seq \in Seq(S), NEW e \in S
    PROVE  /\ Len(seq) \in Nat
           /\ seq \o <<e>> \in Seq(S) /\ Append(seq, e) = seq \o <<e>>
           /\ seq \o <<e>> # <<>>
           /\ Len(seq \o <<e>>) = Len(seq) + 1
           /\ (seq \o <<e>>)[Len(seq) + 1] = e
           /\ \A i \in 1..Len(seq) : (seq \o <<e>>)[i] = seq[i]
<1>1. Append(seq, e) = seq \o <<e>>
  BY AppendIsConcat
<1> QED BY <1>1, AppendProperties, LenProperties

LEMMA Kept ==
    ASSUME NEW S, NEW seq \in Seq(S)
    PROVE  seq \o <<>> = seq
BY ConcatEmptySeq

-----------------------------------------------------------------------------
(* Steps of the server keep the invariant. *)

LEMMA OneKind ==
    ASSUME TypeOK
    PROVE  client.kind = "thrussh" \/ client.kind = "external"
BY AuthAssumption DEF TypeOK, Client

(* The rest of the state keeps its type when the server has handled a packet. *)
LEMMA HandlesTyped ==
    ASSUME TypeOK, NEW out \in Seq(Answer), Handles(out)
    PROVE  TypeOK'
<1>1. Tail(toServer) \in Seq(Request)
  <2>1. toServer \in Seq(Request) /\ toServer # <<>>
    BY DEF TypeOK, Handles
  <2> QED BY <2>1, Removed
<1>2. toClient \o out \in Seq(Answer)
  <2>1. toClient \in Seq(Answer)
    BY DEF TypeOK
  <2> QED BY <2>1, ConcatProperties
<1> QED BY <1>1, <1>2 DEF TypeOK, Handles, ClientSide

LEMMA AuthTurnTyped ==
    ASSUME TypeOK, AuthTurn
    PROVE  TypeOK' /\ \E out \in Seq(Answer) : Handles(out)
<1>1. CASE Dies
  BY <1>1, HandlesTyped, EmptySeq DEF Dies
<1>2. CASE Replies
  <2>1. PICK a \in Answer : Handles(<<a>>)
    BY <1>2 DEF Replies
  <2>2. <<a>> \in Seq(Answer)
    OBVIOUS
  <2> QED BY <2>1, <2>2, HandlesTyped
<1>3. CASE Enters
  <2>1. Says("SUCCESS") \in Answer
    BY SaysTyped
  <2>2. <<Says("SUCCESS")>> \in Seq(Answer)
    BY <2>1
  <2> QED BY <1>3, <2>2, HandlesTyped DEF Enters
<1> QED BY <1>1, <1>2, <1>3 DEF AuthTurn

(* A server that decides about a request has let nobody in before; an       *)
(* external client waits for this decision and for nothing else.            *)
LEMMA NobodyInside ==
    ASSUME IInv, AuthTurn
    PROVE  granted.user = NoUser /\ (client.kind = "external" => Requested)
<1>1. /\ server.state = "WaitingAuthRequest" /\ server.status = "up" /\ toServer # <<>>
      /\ Head(toServer).type \in {"USERAUTH_REQUEST", "INFO_RESPONSE"}
      /\ TypeOK /\ toServer \in Seq(Request)
  BY AuthTurnTyped DEF AuthTurn, Handles, IInv, TypeOK
<1>2. Head(toServer) = toServer[1] /\ Len(toServer) \in Nat /\ Len(toServer) >= 1
  BY <1>1, Removed
<1>3. CASE client.kind = "thrussh"
  BY <1>1, <1>3 DEF IInv, ThrusshInvariant, PastAuth
<1>4. CASE client.kind = "external"
  <2>1. NotStarted \/ Started \/ Idle \/ Requested \/ Replied \/ Stranded \/ Inside
    BY <1>4 DEF IInv, ExternalInvariant
  <2>2. ~Inside
    BY <1>1, <1>2 DEF Inside, Only
  <2>3. Requested
    BY <1>1, <2>1, <2>2 DEF NotStarted, Started, Idle, Replied, Stranded
  <2> QED BY <1>4, <2>3 DEF Requested
<1> QED BY <1>1, <1>3, <1>4, OneKind

LEMMA AuthTurnKeeps ==
    ASSUME IInv, AuthTurn
    PROVE  IInv'
<1>1. PICK out \in Seq(Answer) : Handles(out)
  BY AuthTurnTyped DEF IInv
<1>2. /\ toServer \in Seq(Request) /\ toClient \in Seq(Answer) /\ toServer # <<>>
      /\ server.status = "up" /\ server.state = "WaitingAuthRequest"
      /\ toServer' = Tail(toServer) /\ client' = client /\ mailbox' = mailbox
      /\ app' = app
  BY <1>1 DEF AuthTurn, Handles, IInv, TypeOK, ClientSide
<1>3. TypeOK' /\ granted.user = NoUser
  BY AuthTurnTyped, NobodyInside DEF IInv
<1>4. GrantedByVerdict'
  BY <1>3 DEF AuthTurn, Dies, Replies, Enters, GrantedByVerdict
<1>5. PkVouched'
  BY DEF AuthTurn, Dies, Replies, Enters, PkVouched
<1>6. CASE client.kind = "thrussh"
  <2>1. ThrusshInvariant
    BY <1>6 DEF IInv
  <2>2. /\ Head(toServer).method # "keyboard-interactive"
        /\ \A i \in 1..Len(Tail(toServer)) :
              Tail(toServer)[i].method # "keyboard-interactive"
    BY <1>2, <2>1, Removed DEF ThrusshInvariant
  <2>3. server'.current # "KeyboardInteractive"
    BY <2>1, <2>2 DEF AuthTurn, ThrusshInvariant
  <2>4. granted'.user # NoUser => PastAuth(server')
    BY <1>3, <2>3 DEF AuthTurn, Dies, Replies, Enters
  <2>5. granted'.user # NoUser => PastAuth(server)'
    BY <2>4 DEF PastAuth
  <2> QED BY <1>2, <1>3, <1>4, <1>5, <1>6, <2>2, <2>3, <2>5 DEF IInv, ThrusshInvariant
<1>7. CASE client.kind = "external"
  <2>1. Requested /\ mailbox = <<>> /\ ~client.signing /\ app.call = "None"
    BY <1>7, NobodyInside DEF IInv, ExternalInvariant
  <2>2. /\ toServer' = <<>> /\ mailbox' = <<>> /\ ~client'.signing /\ app'.call = "None"
        /\ client'.state = "WaitingAuthRequest" /\ client'.waiting
    BY <1>2, <2>1, Removed DEF Requested
  <2>3. \A i \in 1..Len(toClient) : toClient[i].type = "BANNER"
    BY <2>1 DEF Requested, Only
  <2>4. ASSUME Dies PROVE Stranded'
    <3>1. toClient' = toClient /\ server'.status # "up" /\ granted'.user = NoUser
      BY <1>2, <1>3, <2>4, Kept DEF Dies, Handles
    <3> QED BY <2>2, <2>3, <3>1 DEF Stranded, Only
  <2>5. ASSUME NEW a \in Answer, toClient' = toClient \o <<a>>,
               \/ a.type = "SUCCESS"
               \/ /\ a.type \in {"FAILURE", "PK_OK", "INFO_REQUEST"}
                  /\ server'.state = "WaitingAuthRequest" /\ granted'.user = NoUser
        PROVE  Replied'
    <3>1. /\ Len(toClient) \in Nat /\ toClient' # <<>>
          /\ Len(toClient') = Len(toClient) + 1 /\ toClient'[Len(toClient) + 1] = a
          /\ \A i \in 1..Len(toClient) : toClient'[i] = toClient[i]
      BY <1>2, <2>5, Added
    <3>2. /\ toClient'[Len(toClient')] = a
          /\ \A i \in 1..(Len(toClient') - 1) : toClient'[i].type = "BANNER"
      BY <2>3, <3>1
    <3> QED BY <2>2, <2>5, <3>1, <3>2 DEF Replied
  <2>6. ASSUME Replies PROVE Replied'
    <3>1. PICK a \in Answer : a.type \in {"FAILURE", "PK_OK", "INFO_REQUEST"} /\ Handles(<<a>>)
      BY <2>6 DEF Replies
    <3>2. /\ toClient' = toClient \o <<a>>
          /\ server'.state = "WaitingAuthRequest" /\ granted'.user = NoUser
      BY <1>3, <2>6, <3>1 DEF Replies, Handles
    <3> QED BY <2>5, <3>1, <3>2
  <2>7. ASSUME Enters PROVE Replied'
    <3>1. /\ Says("SUCCESS") \in Answer /\ Says("SUCCESS").type = "SUCCESS"
          /\ toClient' = toClient \o <<Says("SUCCESS")>>
      BY <2>7, SaysTyped DEF Enters, Handles
    <3> QED BY <2>5, <3>1
  <2>8. ExternalInvariant'
    BY <2>2, <2>4, <2>6, <2>7 DEF AuthTurn, ExternalInvariant
  <2> QED BY <1>2, <1>3, <1>4, <1>5, <1>7, <2>8 DEF IInv
<1> QED BY <1>6, <1>7, OneKind DEF IInv

(* A packet the server drops, or that belongs to the connection layer. *)
LEMMA DroppedKeeps ==
    ASSUME IInv, ServerAuthenticated \/ ServerIgnores
    PROVE  IInv'
<1>1. /\ server.status = "up" /\ toServer # <<>>
      /\ toServer \in Seq(Request) /\ toClient \in Seq(Answer) /\ server \in Server
      /\ toServer' = Tail(toServer) /\ toClient' = toClient \o <<>>
      /\ \/ server' = [server EXCEPT !.state = "Authenticated"] /\ PastAuth(server)
         \/ server' = server /\ ~PastAuth(server) /\ ~Fits(server, Head(toServer).type)
      /\ UNCHANGED <<ClientSide, vouched, granted>>
  BY DEF ServerAuthenticated, ServerIgnores, Answers, IInv, TypeOK
<1>2. /\ server' \in Server /\ server'.auth_user = server.auth_user
      /\ server'.current = server.current /\ server'.status = server.status
      /\ PastAuth(server) => PastAuth(server')
  BY <1>1 DEF Server, PastAuth
<1>3. /\ toClient' = toClient /\ Len(toServer) \in Nat /\ Len(toServer) >= 1
      /\ Head(toServer) = toServer[1]
      /\ Tail(toServer) \in Seq(Request) /\ Len(Tail(toServer)) = Len(toServer) - 1
      /\ \A i \in 1..(Len(toServer) - 1) : Tail(toServer)[i] = toServer[i + 1]
      /\ Len(toServer) = 1 => Tail(toServer) = <<>>
  BY <1>1, Removed, Kept
<1>4. TypeOK'
  BY <1>1, <1>2, <1>3 DEF IInv, TypeOK, ClientSide
<1>5. GrantedByVerdict' /\ PkVouched'
  BY <1>1, <1>2 DEF IInv, GrantedByVerdict, PkVouched
<1>6. CASE client.kind = "thrussh"
  <2>1. /\ server.current # "KeyboardInteractive"
        /\ \A i \in 1..Len(toServer) : toServer[i].method # "keyboard-interactive"
        /\ granted.user # NoUser => PastAuth(server)
    BY <1>6 DEF IInv, ThrusshInvariant
  <2>2. \A i \in 1..Len(toServer') : toServer'[i].method # "keyboard-interactive"
    BY <1>1, <1>3, <2>1
  <2>3. PastAuth(server') => PastAuth(server)'
    BY DEF PastAuth
  <2>4. ThrusshInvariant'
    BY <1>1, <1>2, <2>1, <2>2, <2>3 DEF ThrusshInvariant
  <2> QED BY <1>1, <1>4, <1>5, <1>6, <2>4 DEF IInv, ClientSide
<1>7. CASE client.kind = "external"
  <2>1. /\ mailbox = <<>> /\ ~client.signing /\ app.call = "None"
        /\ NotStarted \/ Started \/ Idle \/ Requested \/ Replied \/ Stranded \/ Inside
    BY <1>7 DEF IInv, ExternalInvariant
  <2>2. ~Requested
    BY <1>1, <1>3 DEF Requested, Fits, PastAuth
  <2>3. NotStarted \/ Inside
    BY <1>1, <2>1, <2>2 DEF Started, Idle, Replied, Stranded
  <2>4. NotStarted => NotStarted'
    BY <1>1, <1>3 DEF NotStarted, PastAuth, ClientSide
  <2>5. Inside => Inside'
    BY <1>1, <1>3 DEF Inside, Only, ClientSide
  <2>6. ExternalInvariant'
    BY <1>1, <2>1, <2>3, <2>4, <2>5 DEF ExternalInvariant, ClientSide
  <2> QED BY <1>1, <1>4, <1>5, <1>7, <2>6 DEF IInv, ClientSide
<1> QED BY <1>6, <1>7, OneKind DEF IInv

LEMMA AcceptServiceKeeps ==
    ASSUME IInv, ServerAcceptService
    PROVE  IInv'
<1> DEFINE out == <<Says("SERVICE_ACCEPT")>> \o
                     IF server.banner THEN <<Says("BANNER")>> ELSE <<>>
<1>1. /\ server.status = "up" /\ toServer # <<>> /\ Head(toServer).type = "SERVICE_REQUEST"
      /\ server.state = "WaitingServiceRequest"
      /\ toServer \in Seq(Request) /\ toClient \in Seq(Answer) /\ server \in Server
      /\ toServer' = Tail(toServer) /\ toClient' = toClient \o out
      /\ server' = [server EXCEPT !.state = "WaitingAuthRequest"]
      /\ UNCHANGED <<ClientSide, vouched, granted>>
      /\ vouched \in Vouched /\ granted \in Granted
  BY DEF ServerAcceptService, ServerReads, Answers, IInv, TypeOK
<1>2. /\ server' \in Server /\ server'.auth_user = server.auth_user
      /\ server'.current = server.current /\ server'.status = server.status
      /\ server'.state = "WaitingAuthRequest"
  BY <1>1 DEF Server
<1>3. /\ out \in Seq(Answer) /\ out # <<>> /\ out[1].type = "SERVICE_ACCEPT"
      /\ \A i \in 2..Len(out) : out[i].type = "BANNER"
  <2>1. /\ Says("SERVICE_ACCEPT") \in Answer /\ Says("SERVICE_ACCEPT").type = "SERVICE_ACCEPT"
        /\ Says("BANNER") \in Answer /\ Says("BANNER").type = "BANNER"
    BY SaysTyped
  <2>2. CASE server.banner
    <3>1. <<Says("SERVICE_ACCEPT")>> \in Seq(Answer) /\ Len(<<Says("SERVICE_ACCEPT")>>) = 1
      BY <2>1
    <3>2. out = <<Says("SERVICE_ACCEPT")>> \o <<Says("BANNER")>>
      BY <2>2
    <3>3. /\ out \in Seq(Answer) /\ out # <<>> /\ Len(out) = 2
          /\ out[2] = Says("BANNER") /\ out[1] = Says("SERVICE_ACCEPT")
      BY <2>1, <3>1, <3>2, Added
    <3> QED BY <2>1, <3>3
  <2>3. CASE ~server.banner
    <3>1. out = <<Says("SERVICE_ACCEPT")>>
      BY <2>1, <2>3
    <3> QED BY <2>1, <3>1
  <2> QED BY <2>2, <2>3
<1> HIDE DEF out
<1>4. TypeOK'
  BY <1>1, <1>2, <1>3, HandlesTyped DEF IInv, Handles
<1>5. /\ Len(toServer) \in Nat /\ Len(toServer) >= 1
      /\ Head(toServer) = toServer[1] /\ Len(Tail(toServer)) = Len(toServer) - 1
      /\ \A i \in 1..(Len(toServer) - 1) : Tail(toServer)[i] = toServer[i + 1]
      /\ Len(toServer) = 1 => Tail(toServer) = <<>>
  BY <1>1, Removed
<1>6. GrantedByVerdict' /\ PkVouched'
  BY <1>1, <1>2 DEF IInv, GrantedByVerdict, PkVouched
<1>7. CASE client.kind = "thrussh"
  <2>1. /\ server.current # "KeyboardInteractive"
        /\ \A i \in 1..Len(toServer) : toServer[i].method # "keyboard-interactive"
        /\ granted.user = NoUser
    BY <1>1, <1>7 DEF IInv, ThrusshInvariant, PastAuth
  <2>2. \A i \in 1..Len(toServer') : toServer'[i].method # "keyboard-interactive"
    BY <1>1, <1>5, <2>1
  <2>3. ThrusshInvariant'
    BY <1>1, <1>2, <2>1, <2>2 DEF ThrusshInvariant
  <2> QED BY <1>1, <1>4, <1>6, <1>7, <2>3 DEF IInv, ClientSide
<1>8. CASE client.kind = "external"
  <2>1. /\ mailbox = <<>> /\ ~client.signing /\ app.call = "None"
        /\ NotStarted \/ Started \/ Idle \/ Requested \/ Replied \/ Stranded \/ Inside
    BY <1>8 DEF IInv, ExternalInvariant
  <2>2. ~Inside
    BY <1>1, <1>5 DEF Inside, Only
  <2>3. NotStarted
    BY <1>1, <2>1, <2>2 DEF Started, Idle, Requested, Replied, Stranded
  <2>4. toClient' = out
    BY <1>1, <1>3, <2>3, ConcatEmptySeq DEF NotStarted
  <2>5. Started'
    BY <1>1, <1>2, <1>3, <1>5, <2>3, <2>4 DEF NotStarted, Started, ClientSide
  <2>6. ExternalInvariant'
    BY <1>1, <2>1, <2>5 DEF ExternalInvariant, ClientSide
  <2> QED BY <1>1, <1>4, <1>6, <1>8, <2>6 DEF IInv, ClientSide
<1> QED BY <1>7, <1>8, OneKind DEF IInv

LEMMA ServerStepKeeps ==
    ASSUME IInv, ServerStep
    PROVE  IInv'
<1>1. TypeOK /\ PkVouched
  BY DEF IInv
<1> QED BY <1>1, AuthTurns, AuthTurnKeeps, DroppedKeeps, AcceptServiceKeeps DEF ServerStep

-----------------------------------------------------------------------------
(* Steps of the thrussh client and of its application keep the invariant.   *)

(* What none of its requests does. *)
NoKeyboard(out) == \A i \in 1..Len(out) : out[i].method # "keyboard-interactive"

LEMMA ThrusshKeeps ==
    ASSUME IInv, client.kind = "thrussh",
           client' \in Client, client'.kind = "thrussh",
           client'.signing => client'.state = "WaitingAuthRequest"
                                /\ client'.auth_method = "None",
           NEW out \in Seq(Request), NoKeyboard(out), toServer' = toServer \o out,
           UNCHANGED ServerSide,
           toClient' \in Seq(Answer), mailbox' \in Seq(Msg), replies' \in Seq(Reply),
           app' \in App
    PROVE  IInv'
<1>1. toServer \in Seq(Request) /\ ThrusshInvariant
  BY DEF IInv, TypeOK
<1>2. /\ toServer' \in Seq(Request)
      /\ Len(toServer) \in Nat /\ Len(out) \in Nat
      /\ Len(toServer') = Len(toServer) + Len(out)
      /\ \A i \in 1..(Len(toServer) + Len(out)) :
            toServer'[i] = IF i <= Len(toServer) THEN toServer[i] ELSE out[i - Len(toServer)]
  BY <1>1, ConcatProperties, LenProperties
<1>3. \A i \in 1..Len(toServer) : toServer[i].method # "keyboard-interactive"
  BY <1>1 DEF ThrusshInvariant
<1>4. \A i \in 1..Len(toServer') : toServer'[i].method # "keyboard-interactive"
  <2> SUFFICES ASSUME NEW i \in 1..Len(toServer')
               PROVE  toServer'[i].method # "keyboard-interactive"
    OBVIOUS
  <2>1. CASE i <= Len(toServer)
    BY <1>2, <1>3, <2>1
  <2>2. CASE ~(i <= Len(toServer))
    <3>1. i - Len(toServer) \in 1..Len(out) /\ toServer'[i] = out[i - Len(toServer)]
      BY <1>2, <2>2
    <3> QED BY <3>1 DEF NoKeyboard
  <2> QED BY <2>1, <2>2
<1>5. ThrusshInvariant'
  BY <1>1, <1>4 DEF ThrusshInvariant, ServerSide, PastAuth
<1>6. TypeOK'
  BY <1>2 DEF IInv, TypeOK, ServerSide
<1>7. GrantedByVerdict' /\ PkVouched'
  BY DEF IInv, GrantedByVerdict, PkVouched, ServerSide
<1> QED BY <1>5, <1>6, <1>7 DEF IInv

(* The same when nothing is sent. *)
LEMMA ThrusshSilent ==
    ASSUME IInv, client.kind = "thrussh",
           client' \in Client, client'.kind = "thrussh",
           client'.signing => client'.state = "WaitingAuthRequest"
                                /\ client'.auth_method = "None",
           UNCHANGED <<ServerSide, toServer>>,
           toClient' \in Seq(Answer), mailbox' \in Seq(Msg), replies' \in Seq(Reply),
           app' \in App
    PROVE  IInv'
<1> DEFINE out == <<>>
<1>1. out \in Seq(Request) /\ NoKeyboard(out)
  BY EmptySeq DEF NoKeyboard
<1>2. toServer' = toServer \o out
  BY Kept DEF IInv, TypeOK
<1> HIDE DEF out
<1> QED BY <1>1, <1>2, ThrusshKeeps

(* And when one request is. *)
LEMMA ThrusshSends ==
    ASSUME IInv, client.kind = "thrussh",
           client' \in Client, client'.kind = "thrussh",
           client'.signing => client'.state = "WaitingAuthRequest"
                                /\ client'.auth_method = "None",
           NEW r \in Request, r.method # "keyboard-interactive",
           toServer' = toServer \o <<r>>, UNCHANGED ServerSide,
           toClient' \in Seq(Answer), mailbox' \in Seq(Msg), replies' \in Seq(Reply),
           app' \in App
    PROVE  IInv'
<1> DEFINE out == <<r>>
<1>1. out \in Seq(Request) /\ NoKeyboard(out)
  BY DEF NoKeyboard
<1> HIDE DEF out
<1>2. toServer' = toServer \o out
  BY DEF out
<1> QED BY <1>1, <1>2, ThrusshKeeps

LEMMA RequestTyped ==
    ASSUME NEW user \in Name, NEW key \in Key, NEW valid \in BOOLEAN,
           NEW method \in {"password", "probe", "signed"}
    PROVE  /\ AuthRequest(method, user, key, valid) \in Request
           /\ AuthRequest(method, user, key, valid).method # "keyboard-interactive"
BY DEF AuthRequest, Request

LEMMA WriteAuthRequestTyped ==
    ASSUME NEW user \in Name, NEW key \in Key, NEW method
    PROVE  /\ WriteAuthRequest(user, method, key) \in Request
           /\ WriteAuthRequest(user, method, key).method # "keyboard-interactive"
BY RequestTyped DEF WriteAuthRequest

LEMMA NextMsg ==
    ASSUME TypeOK, mailbox # <<>>
    PROVE  /\ Tail(mailbox) \in Seq(Msg) /\ Head(mailbox) \in Msg
           /\ Head(mailbox).type = "Authenticate" =>
                 /\ Head(mailbox).user \in Users /\ Head(mailbox).key \in Key
                 /\ Head(mailbox).method \in Credential
<1>1. mailbox \in Seq(Msg)
  BY DEF TypeOK
<1>2. Head(mailbox) \in Msg /\ Tail(mailbox) \in Seq(Msg)
  BY <1>1, Removed
<1> QED BY <1>2 DEF Msg

(* What a packet taken by a thrussh client's session leaves. *)
LEMMA ThrusshTakes ==
    ASSUME IInv, toClient # <<>>
    PROVE  /\ Tail(toClient) \in Seq(Answer) /\ client \in Client /\ app \in App
           /\ mailbox \in Seq(Msg) /\ replies \in Seq(Reply)
           /\ toServer \in Seq(Request)
           /\ replies \o <<>> = replies /\ toServer \o <<>> = toServer
           /\ \A r \in Reply : replies \o <<r>> \in Seq(Reply)
<1>1. /\ toClient \in Seq(Answer) /\ replies \in Seq(Reply) /\ toServer \in Seq(Request)
      /\ client \in Client /\ app \in App /\ mailbox \in Seq(Msg)
  BY DEF IInv, TypeOK
<1> QED BY <1>1, Removed, Added, Kept

LEMMA ServiceAcceptedKeeps ==
    ASSUME IInv, ClientServiceAccepted
    PROVE  IInv'
<1> DEFINE cl   == [client EXCEPT !.accepted = TRUE]
           sent == [cl EXCEPT !.state = "WaitingAuthRequest"]
           r    == WriteAuthRequest(cl.auth_user, cl.auth_method, cl.key)
<1>1. client.kind = "thrussh" /\ toClient # <<>> /\ ~client.signing
  BY DEF ClientServiceAccepted, Thrussh, Takes
<1>2. /\ cl \in Client /\ cl.kind = "thrussh" /\ ~cl.signing /\ cl.auth_user \in Name /\ cl.key \in Key
      /\ sent \in Client /\ sent.kind = "thrussh" /\ ~sent.signing
  BY <1>1, ThrusshTakes DEF Client
<1>3. UNCHANGED <<ServerSide, app, mailbox>>
  BY DEF ClientServiceAccepted
<1>4. Handled(cl, <<>>, <<>>) \/ Handled(sent, <<r>>, <<>>)
  BY DEF ClientServiceAccepted
<1>5. r \in Request /\ r.method # "keyboard-interactive"
  BY <1>2, WriteAuthRequestTyped
<1> HIDE DEF cl, sent, r
<1>6. CASE Handled(cl, <<>>, <<>>)
  BY <1>1, <1>2, <1>3, <1>6, ThrusshTakes, ThrusshSilent DEF Handled
<1>7. CASE Handled(sent, <<r>>, <<>>)
  BY <1>1, <1>2, <1>3, <1>5, <1>7, ThrusshTakes, ThrusshSends DEF Handled
<1> QED BY <1>4, <1>6, <1>7

(* The packets a client takes without writing one. *)
LEMMA QuietPacketsKeep ==
    ASSUME IInv, ClientBanner \/ ClientInconsistent \/ ClientRefused \/ ClientSuccess
    PROVE  IInv'
<1> DEFINE broken == [client EXCEPT !.status = "Inconsistent"]
           taken  == Taken(client)
           left   == [taken EXCEPT !.status = "NoAuthMethod"]
           inside == [client EXCEPT !.state = "Authenticated"]
           Stays(cl) == cl \in Client /\ cl.kind = "thrussh" /\ ~cl.signing
<1>1. client.kind = "thrussh" /\ toClient # <<>> /\ ~client.signing
  BY DEF ClientBanner, ClientInconsistent, ClientRefused, ClientSuccess, Thrussh, Takes
<1>2. UNCHANGED <<ServerSide, app, mailbox>>
  BY DEF ClientBanner, ClientInconsistent, ClientRefused, ClientSuccess
<1>3. Stays(client) /\ Stays(broken) /\ Stays(taken) /\ Stays(left) /\ Stays(inside)
  BY <1>1, ThrusshTakes DEF Client, Taken
<1>4. \/ Handled(client, <<>>, <<>>) \/ Handled(broken, <<>>, <<>>)
      \/ Handled(taken, <<>>, <<"AuthFailure">>) \/ Handled(left, <<>>, <<"AuthFailure">>)
      \/ Handled(inside, <<>>, <<"AuthSuccess">>)
  BY DEF ClientBanner, ClientInconsistent, ClientRefused, ClientSuccess, ClientFailure
<1> HIDE DEF broken, taken, left, inside
<1>5. ASSUME NEW cl, Stays(cl),
             NEW reply \in {<<>>, <<"AuthFailure">>, <<"AuthSuccess">>},
             Handled(cl, <<>>, reply)
      PROVE  IInv'
  <2>1. /\ client' = cl /\ toClient' = Tail(toClient)
        /\ toServer' = toServer \o <<>> /\ replies' = replies \o reply
    BY <1>5 DEF Handled
  <2>2. replies' \in Seq(Reply)
    BY <1>1, <1>5, <2>1, ThrusshTakes DEF Reply
  <2> QED BY <1>1, <1>2, <1>5, <2>1, <2>2, ThrusshTakes, ThrusshSilent
<1> HIDE DEF Stays
<1> QED BY <1>3, <1>4, <1>5

LEMMA PkOkKeeps ==
    ASSUME IInv, ClientPkOk
    PROVE  IInv'
<1> DEFINE cl     == Taken(client)
           asking == [cl EXCEPT !.signing = TRUE]
           r      == AuthRequest("signed", cl.auth_user, cl.key, TRUE)
<1>1. /\ client.kind = "thrussh" /\ toClient # <<>> /\ ~client.signing
      /\ client.state = "WaitingAuthRequest"
  BY DEF ClientPkOk, Thrussh, Takes
<1>2. /\ cl \in Client /\ cl.kind = "thrussh" /\ ~cl.signing /\ cl.auth_user \in Name /\ cl.key \in Key
      /\ asking \in Client /\ asking.kind = "thrussh"
      /\ asking.state = "WaitingAuthRequest" /\ asking.auth_method = "None"
  BY <1>1, ThrusshTakes DEF Client, Taken
<1>3. UNCHANGED <<ServerSide, app, mailbox>>
  BY DEF ClientPkOk
<1>4. \/ Handled(cl, <<r>>, <<>>)
      \/ Handled(asking, <<>>, <<"SignRequest">>)
      \/ Handled(cl, <<>>, <<>>)
  BY DEF ClientPkOk
<1>5. r \in Request /\ r.method # "keyboard-interactive"
  BY <1>2, RequestTyped
<1> HIDE DEF cl, asking, r
<1>6. CASE Handled(cl, <<r>>, <<>>)
  BY <1>1, <1>2, <1>3, <1>5, <1>6, ThrusshTakes, ThrusshSends DEF Handled
<1>7. CASE Handled(asking, <<>>, <<"SignRequest">>)
  <2>1. replies' \in Seq(Reply)
    BY <1>1, <1>7, ThrusshTakes DEF Handled, Reply
  <2> QED BY <1>1, <1>2, <1>3, <1>7, <2>1, ThrusshTakes, ThrusshSilent DEF Handled
<1>8. CASE Handled(cl, <<>>, <<>>)
  BY <1>1, <1>2, <1>3, <1>8, ThrusshTakes, ThrusshSilent DEF Handled
<1> QED BY <1>4, <1>6, <1>7, <1>8

LEMMA WaitsForSignedKeeps ==
    ASSUME IInv, ClientWaitsForSigned
    PROVE  IInv'
<1> DEFINE done == [client EXCEPT !.signing = FALSE]
           r    == AuthRequest("signed", client.auth_user, client.key,
                               Head(mailbox).signature = "good")
<1>1. /\ TypeOK /\ mailbox # <<>> /\ client \in Client
      /\ mailbox' = Tail(mailbox)
      /\ UNCHANGED <<ServerSide, app, replies, toClient>>
      /\ app \in App /\ replies \in Seq(Reply) /\ toClient \in Seq(Answer)
      /\ client.signing => client.state = "WaitingAuthRequest" /\ client.auth_method = "None"
  BY DEF ClientWaitsForSigned, IInv, TypeOK
<1>2. client.kind = "thrussh"
  BY <1>1, OneKind DEF IInv, ExternalInvariant
<1>3. /\ done \in Client /\ done.kind = "thrussh" /\ ~done.signing
      /\ client.auth_user \in Name /\ client.key \in Key
  BY <1>1, <1>2 DEF Client
<1>4. r \in Request /\ r.method # "keyboard-interactive"
  BY <1>3, RequestTyped
<1>5. mailbox' \in Seq(Msg)
  BY <1>1, NextMsg
<1>6. \/ client' = done /\ toServer' = toServer \o <<>>
      \/ client' = done /\ toServer' = toServer \o <<r>>
      \/ UNCHANGED <<client, toServer>>
  BY DEF ClientWaitsForSigned
<1>7. toServer \o <<>> = toServer
  BY <1>1, Kept DEF TypeOK
<1> HIDE DEF done, r
<1>8. CASE client' = done /\ toServer' = toServer \o <<>>
  BY <1>1, <1>2, <1>3, <1>5, <1>7, <1>8, ThrusshSilent
<1>9. CASE client' = done /\ toServer' = toServer \o <<r>>
  BY <1>1, <1>2, <1>3, <1>4, <1>5, <1>9, ThrusshSends
<1>10. CASE UNCHANGED <<client, toServer>>
  BY <1>1, <1>2, <1>5, <1>10, ThrusshSilent
<1> QED BY <1>6, <1>8, <1>9, <1>10

LEMMA AuthenticateKeeps ==
    ASSUME IInv, ClientAuthenticate
    PROVE  IInv'
<1> DEFINE msg == Head(mailbox)
           cl  == Stored(client, msg)
           r   == WriteAuthRequest(msg.user, msg.method, msg.key)
<1>1. /\ TypeOK /\ mailbox # <<>> /\ msg.type = "Authenticate" /\ ~client.signing
      /\ client \in Client /\ mailbox' = Tail(mailbox) /\ client' = cl
      /\ UNCHANGED <<ServerSide, app, replies, toClient>>
      /\ app \in App /\ replies \in Seq(Reply) /\ toClient \in Seq(Answer)
  BY DEF ClientAuthenticate, IInv, TypeOK
<1>2. client.kind = "thrussh"
  BY <1>1, OneKind DEF IInv, ExternalInvariant
<1>3. /\ mailbox' \in Seq(Msg) /\ msg.user \in Users /\ msg.method \in Credential
      /\ msg.key \in Key
  BY <1>1, NextMsg
<1>4. cl \in Client /\ cl.kind = "thrussh" /\ ~cl.signing
  BY <1>1, <1>2, <1>3 DEF Stored, Client, Name
<1>5. r \in Request /\ r.method # "keyboard-interactive"
  BY <1>3, WriteAuthRequestTyped DEF Name
<1>6. toServer' = toServer \o <<r>> \/ toServer' = toServer \o <<>>
  BY DEF ClientAuthenticate
<1>7. toServer \o <<>> = toServer
  BY <1>1, Kept DEF TypeOK
<1> HIDE DEF msg, cl, r
<1>8. CASE toServer' = toServer \o <<r>>
  BY <1>1, <1>2, <1>3, <1>4, <1>5, <1>8, ThrusshSends
<1>9. CASE toServer' = toServer \o <<>>
  BY <1>1, <1>2, <1>3, <1>4, <1>7, <1>9, ThrusshSilent
<1> QED BY <1>6, <1>8, <1>9

(* The end of the stream, for either kind of client. *)
LEMMA HangupKeeps ==
    ASSUME IInv, ClientHangup
    PROVE  IInv'
<1>1. /\ client \in Client /\ client' = [client EXCEPT !.status = "closed"]
      /\ UNCHANGED <<ServerSide, app, mailbox, replies, toServer, toClient>>
      /\ TypeOK
  BY DEF ClientHangup, IInv, TypeOK
<1>2. /\ client' \in Client /\ client'.kind = client.kind /\ client'.state = client.state
      /\ client'.waiting = client.waiting /\ client'.signing = client.signing
      /\ client'.auth_method = client.auth_method
  BY <1>1 DEF Client
<1>3. TypeOK' /\ GrantedByVerdict' /\ PkVouched'
  BY <1>1, <1>2 DEF IInv, TypeOK, GrantedByVerdict, PkVouched, ServerSide
<1>4. client.kind = "thrussh" => ThrusshInvariant'
  BY <1>1, <1>2 DEF IInv, ThrusshInvariant, PastAuth, ServerSide
<1>5. client.kind = "external" => ExternalInvariant'
  BY <1>1, <1>2 DEF IInv, ExternalInvariant, NotStarted, Started, Idle, Requested, Replied,
        Stranded, Inside, Only, ServerSide
<1> QED BY <1>2, <1>3, <1>4, <1>5 DEF IInv

LEMMA ClientStepKeeps ==
    ASSUME IInv, ClientStep
    PROVE  IInv'
BY ServiceAcceptedKeeps, QuietPacketsKeep, PkOkKeeps, WaitsForSignedKeeps, AuthenticateKeeps,
   HangupKeeps DEF ClientStep

(* The application: nothing it does reaches the server by itself. *)
LEMMA ApplicationKeeps ==
    ASSUME IInv, AppAuthenticate \/ AppAnswers \/ AppDropsCall
    PROVE  IInv'
<1>1. /\ client \in Client /\ app \in App /\ mailbox \in Seq(Msg)
      /\ replies \in Seq(Reply) /\ toClient \in Seq(Answer) /\ TypeOK
      /\ client.signing => client.state = "WaitingAuthRequest" /\ client.auth_method = "None"
  BY DEF IInv, TypeOK
<1>2. UNCHANGED <<ServerSide, SessionSide>>
  BY DEF AppAuthenticate, AppAnswers, AppReply, AppSigns, AppSessionGone, AppDropsCall
<1>3. client.kind = "thrussh"
  <2>1. client.kind = "thrussh" \/ app.call # "None"
    BY DEF AppAuthenticate, AppAnswers, AppReply, AppSigns, AppSessionGone, AppDropsCall
  <2> QED BY <1>1, <2>1, OneKind DEF IInv, ExternalInvariant
<1>4. /\ replies' \in Seq(Reply)
  <2>1. replies' = replies \/ (replies # <<>> /\ replies' = Tail(replies))
    BY DEF AppAuthenticate, AppAnswers, AppReply, AppSigns, AppSessionGone, AppDropsCall
  <2> QED BY <1>1, <2>1, Removed
<1>5. app' \in App
  <2>1. CASE AppAuthenticate
    <3>1. app.left \in Nat /\ app.left > 0
      BY <1>1, <2>1 DEF AppAuthenticate, App
    <3>2. app.left - 1 \in Nat
      BY <3>1
    <3> QED BY <1>1, <2>1, <3>2 DEF AppAuthenticate, App, Name
  <2>2. CASE AppReply \/ AppSessionGone
    BY <1>1, <2>2 DEF AppReply, AppSessionGone, Returns, App
  <2>3. CASE AppSigns
    BY <1>1, <2>3 DEF AppSigns, App
  <2>4. CASE AppDropsCall
    <3>1. app.drops \in Nat /\ app.drops > 0
      BY <1>1, <2>4 DEF AppDropsCall, App
    <3>2. app.drops - 1 \in Nat
      BY <3>1
    <3> QED BY <1>1, <2>4, <3>2 DEF AppDropsCall, App
  <2> QED BY <2>1, <2>2, <2>3, <2>4 DEF AppAnswers
<1>6. mailbox' \in Seq(Msg)
  <2>1. ASSUME NEW m \in Msg
        PROVE  Append(mailbox, m) \in Seq(Msg)
    BY <1>1, <2>1, AppendProperties
  <2>2. mailbox' = mailbox \/ \E m \in Msg : mailbox' = Append(mailbox, m)
    <3>1. CASE AppAuthenticate
      BY <3>1 DEF AppAuthenticate, Msg
    <3>2. CASE AppSigns
      BY <3>2 DEF AppSigns, Msg
    <3>3. CASE AppReply \/ AppSessionGone \/ AppDropsCall
      BY <3>3 DEF AppReply, AppSessionGone, AppDropsCall
    <3> QED BY <3>1, <3>2, <3>3 DEF AppAnswers
  <2> QED BY <1>1, <2>1, <2>2
<1> QED BY <1>1, <1>2, <1>3, <1>4, <1>5, <1>6, ThrusshSilent DEF SessionSide

LEMMA OpensKeeps ==
    ASSUME IInv, ClientOpens
    PROVE  IInv'
<1> DEFINE r == Plain("CHANNEL_OPEN")
<1>1. /\ TypeOK /\ client \in Client /\ client.state = "Authenticated"
      /\ client' = [client EXCEPT !.opened = TRUE]
      /\ toServer' = Append(toServer, r) /\ toServer \in Seq(Request)
      /\ UNCHANGED <<ServerSide, app, mailbox, replies, toClient>>
      /\ app \in App /\ mailbox \in Seq(Msg) /\ replies \in Seq(Reply)
      /\ toClient \in Seq(Answer)
      /\ client.signing => client.state = "WaitingAuthRequest" /\ client.auth_method = "None"
  BY DEF ClientOpens, IInv, TypeOK
<1>2. /\ client' \in Client /\ client'.kind = client.kind /\ client'.state = client.state
      /\ client'.waiting = client.waiting /\ client'.signing = client.signing
      /\ client'.auth_method = client.auth_method
  BY <1>1 DEF Client
<1>3. /\ r \in Request /\ r.type = "CHANNEL_OPEN" /\ r.method # "keyboard-interactive"
  BY DEF Plain, Request, Name, Key
<1> HIDE DEF r
<1>4. /\ toServer' \in Seq(Request) /\ toServer' = toServer \o <<r>>
      /\ Len(toServer') = Len(toServer) + 1 /\ Len(toServer) \in Nat
      /\ toServer'[Len(toServer) + 1] = r
      /\ \A i \in 1..Len(toServer) : toServer'[i] = toServer[i]
  BY <1>1, <1>3, Added
<1>5. CASE client.kind = "thrussh"
  BY <1>1, <1>2, <1>3, <1>4, <1>5, ThrusshSends
<1>6. CASE client.kind = "external"
  <2>1. TypeOK' /\ GrantedByVerdict' /\ PkVouched'
    BY <1>1, <1>2, <1>4 DEF IInv, TypeOK, GrantedByVerdict, PkVouched, ServerSide
  <2>2. Inside
    BY <1>1, <1>6 DEF IInv, ExternalInvariant, NotStarted, Started, Idle, Requested, Replied,
          Stranded
  <2>3. \A i \in 1..Len(toServer') : toServer'[i].type \in {"CHANNEL_OPEN"}
    BY <1>3, <1>4, <2>2 DEF Inside, Only
  <2>4. Inside'
    BY <1>1, <1>2, <2>2, <2>3 DEF Inside, Only
  <2>5. ExternalInvariant'
    BY <1>1, <1>2, <1>6, <2>4 DEF IInv, ExternalInvariant
  <2> QED BY <1>2, <1>6, <2>1, <2>5 DEF IInv
<1> QED BY <1>1, <1>5, <1>6, OneKind

-----------------------------------------------------------------------------
(* Steps of the external client. *)

(* It changes its own record and the two queues, and stays in its phases. *)
LEMMA ExternalKeeps ==
    ASSUME IInv, client.kind = "external",
           client' \in Client, client'.kind = "external", ~client'.signing,
           toServer' \in Seq(Request), toClient' \in Seq(Answer),
           app' \in App, app'.call = "None",
           UNCHANGED <<ServerSide, mailbox, replies>>,
           Idle' \/ Requested' \/ Replied' \/ Stranded' \/ Inside'
    PROVE  IInv'
<1>1. TypeOK' /\ GrantedByVerdict' /\ PkVouched'
  BY DEF IInv, TypeOK, GrantedByVerdict, PkVouched, ServerSide
<1>2. ExternalInvariant'
  BY DEF IInv, ExternalInvariant
<1> QED BY <1>1, <1>2 DEF IInv

LEMMA Spent ==
    ASSUME TypeOK, app.call = "None", Spends(1)
    PROVE  app' \in App /\ app'.call = "None"
<1>1. app \in App /\ app.left \in Nat /\ app.left >= 1 /\ app' = [app EXCEPT !.left = @ - 1]
  BY DEF TypeOK, App, Spends
<1>2. app.left - 1 \in Nat
  BY <1>1
<1> QED BY <1>1, <1>2 DEF App

(* What holds of an external client before any of its steps. *)
LEMMA ExternalNow ==
    ASSUME IInv, External
    PROVE  /\ TypeOK /\ client.kind = "external" /\ ~client.signing /\ app.call = "None"
           /\ NotStarted \/ Started \/ Idle \/ Requested \/ Replied \/ Stranded \/ Inside
           /\ client \in Client /\ app \in App
           /\ toServer \in Seq(Request) /\ toClient \in Seq(Answer)
BY DEF IInv, TypeOK, External, ExternalInvariant

LEMMA ExternalRequestKeeps ==
    ASSUME IInv, ExternalRequest
    PROVE  IInv'
<1>1. External /\ client.state = "WaitingAuthRequest" /\ ~client.waiting
  BY DEF ExternalRequest
<1>2. Idle
  BY <1>1, ExternalNow DEF NotStarted, Started, Requested, Replied, Stranded, Inside
<1>3. PICK r \in Request : r.type = "USERAUTH_REQUEST" /\ toServer' = Append(toServer, r)
  BY DEF ExternalRequest
<1>4. /\ toServer' \in Seq(Request) /\ Len(toServer') = 1 /\ toServer'[1] = r
  BY <1>1, <1>2, <1>3, ExternalNow, AppendProperties DEF Idle
<1>5. client' = [client EXCEPT !.waiting = TRUE]
  BY DEF ExternalRequest
<1>6. /\ client' \in Client /\ client'.kind = "external" /\ ~client'.signing
      /\ client'.waiting /\ client'.state = "WaitingAuthRequest"
  BY <1>1, <1>5, ExternalNow DEF Client
<1>7. UNCHANGED <<ServerSide, mailbox, replies, toClient>> /\ Spends(1)
  BY DEF ExternalRequest
<1>8. Requested'
  BY <1>2, <1>3, <1>4, <1>6, <1>7 DEF Idle, Requested, Only, ServerSide
<1> QED BY <1>1, <1>4, <1>6, <1>7, <1>8, ExternalNow, Spent, ExternalKeeps

LEMMA ExternalRespondsKeeps ==
    ASSUME IInv, ExternalResponds
    PROVE  IInv'
<1>1. External /\ toClient # <<>> /\ Head(toClient).type = "INFO_REQUEST"
  BY DEF ExternalResponds, Takes
<1>2. /\ toClient[1].type = "INFO_REQUEST" /\ Len(toClient) \in Nat /\ Len(toClient) >= 1
      /\ Tail(toClient) \in Seq(Answer)
      /\ Len(toClient) = 1 => Tail(toClient) = <<>>
  BY <1>1, ExternalNow, Removed
<1>3. Replied
  BY <1>1, <1>2, ExternalNow DEF NotStarted, Started, Idle, Requested, Stranded, Inside, Only
<1>4. Len(toClient) = 1
  <2>1. \A i \in 1..(Len(toClient) - 1) : toClient[i].type = "BANNER"
    BY <1>3 DEF Replied
  <2>2. Len(toClient) \in Nat /\ Len(toClient) >= 1
    BY <1>2
  <2>3. ASSUME Len(toClient) # 1
        PROVE  FALSE
    <3>1. \A n \in Nat : n >= 1 /\ n # 1 => 1 \in 1..(n - 1)
      OBVIOUS
    <3>2. 1 \in 1..(Len(toClient) - 1)
      BY <2>2, <2>3, <3>1, Zenon
    <3>3. toClient[1].type = "BANNER"
      BY <2>1, <3>2
    <3> QED BY <1>2, <3>3
  <2> QED BY <2>3
<1>5. /\ toClient' = Tail(toClient) /\ toServer' = Append(toServer, Plain("INFO_RESPONSE"))
      /\ UNCHANGED <<ServerSide, client, mailbox, replies>> /\ Spends(1)
  BY DEF ExternalResponds
<1>6. Plain("INFO_RESPONSE") \in Request /\ Plain("INFO_RESPONSE").type = "INFO_RESPONSE"
  BY DEF Plain, Request, Name, Key
<1>7. /\ toServer' \in Seq(Request) /\ Len(toServer') = 1
      /\ toServer'[1] = Plain("INFO_RESPONSE")
  BY <1>1, <1>3, <1>5, <1>6, ExternalNow, AppendProperties DEF Replied
<1>8. Requested'
  BY <1>2, <1>3, <1>4, <1>5, <1>6, <1>7 DEF Replied, Requested, Only, ServerSide
<1> QED BY <1>1, <1>2, <1>5, <1>7, <1>8, ExternalNow, Spent, ExternalKeeps

LEMMA ExternalReadsKeeps ==
    ASSUME IInv, ExternalReads
    PROVE  IInv'
<1> DEFINE type == Head(toClient).type
           started == [client EXCEPT !.state = "WaitingAuthRequest"]
           inside  == [client EXCEPT !.state = "Authenticated", !.waiting = FALSE]
           told    == [client EXCEPT !.waiting = FALSE]
<1>1. /\ External /\ toClient # <<>> /\ toClient' = Tail(toClient)
      /\ UNCHANGED <<ServerSide, app, mailbox, replies, toServer>>
      /\ client' = CASE type = "SERVICE_ACCEPT" -> started
                     [] type = "SUCCESS" -> inside
                     [] type = "BANNER" -> client
                     [] OTHER -> told
  BY DEF ExternalReads
<1>2. /\ Len(toClient) \in Nat /\ Len(toClient) >= 1 /\ type = toClient[1].type
      /\ toClient' \in Seq(Answer) /\ Len(toClient') = Len(toClient) - 1
      /\ \A i \in 1..(Len(toClient) - 1) : toClient'[i] = toClient[i + 1]
      /\ Len(toClient) = 1 => toClient' = <<>>
  BY <1>1, ExternalNow, Removed
<1>3. ASSUME NEW cl \in {started, inside, client, told}
      PROVE  cl \in Client /\ cl.kind = "external" /\ ~cl.signing
  BY <1>1, ExternalNow DEF Client
<1>4. /\ started.state = "WaitingAuthRequest" /\ started.waiting = client.waiting
      /\ inside.state = "Authenticated" /\ ~inside.waiting
      /\ told.state = client.state /\ ~told.waiting
  BY <1>1, ExternalNow DEF Client
<1>5. client' \in {started, inside, client, told}
  BY <1>1
<1> HIDE DEF type, started, inside, told
<1>6. client' \in Client /\ client'.kind = "external" /\ ~client'.signing
  BY <1>3, <1>5
<1>7. CASE Started
  <2>1. type = "SERVICE_ACCEPT" /\ client' = started
    BY <1>1, <1>2, <1>7 DEF Started
  <2>2. Only(toClient, {"BANNER"})'
    BY <1>2, <1>7 DEF Started, Only
  <2>3. Idle'
    BY <1>1, <1>4, <1>7, <2>1, <2>2 DEF Started, Idle, ServerSide
  <2> QED BY <1>1, <1>2, <1>6, <2>3, ExternalNow, ExternalKeeps
<1>8. CASE Idle \/ Requested \/ Stranded
  <2>1. \A i \in 1..Len(toClient) : toClient[i].type = "BANNER"
    BY <1>8 DEF Idle, Requested, Stranded, Only
  <2>2. type = "BANNER" /\ client' = client
    BY <1>1, <1>2, <2>1
  <2>3. Only(toClient, {"BANNER"})'
    BY <1>2, <2>1 DEF Only
  <2>4. Idle' \/ Requested' \/ Stranded'
    BY <1>1, <1>8, <2>2, <2>3 DEF Idle, Requested, Stranded, ServerSide
  <2> QED BY <1>1, <1>2, <1>6, <2>4, ExternalNow, ExternalKeeps
<1>9. CASE Replied /\ Len(toClient) = 1
  <2>1. /\ toClient' = <<>> /\ toServer' = <<>> /\ Len(toClient') = 0
        /\ type \in {"SUCCESS", "FAILURE", "PK_OK", "INFO_REQUEST"}
    BY <1>1, <1>2, <1>9 DEF Replied
  <2>2. CASE type = "SUCCESS"
    <3>1. client' = inside
      BY <1>1, <2>2
    <3>2. Inside'
      BY <1>4, <2>1, <3>1, EmptySeq DEF Inside, Only
    <3> QED BY <1>1, <1>2, <1>6, <3>2, ExternalNow, ExternalKeeps
  <2>3. CASE type # "SUCCESS"
    <3>1. client' = told
      BY <1>1, <2>1, <2>3
    <3>2. Idle'
      BY <1>1, <1>2, <1>4, <1>9, <2>1, <2>3, <3>1 DEF Replied, Idle, Only, ServerSide
    <3> QED BY <1>1, <1>2, <1>6, <3>2, ExternalNow, ExternalKeeps
  <2> QED BY <2>2, <2>3
<1>10. CASE Replied /\ Len(toClient) # 1
  <2>1. \A i \in 1..(Len(toClient) - 1) : toClient[i].type = "BANNER"
    BY <1>10 DEF Replied
  <2>2. type = "BANNER" /\ client' = client
    BY <1>1, <1>2, <1>10, <2>1
  <2>3. /\ toClient' # <<>> /\ toClient'[Len(toClient')] = toClient[Len(toClient)]
        /\ \A i \in 1..(Len(toClient') - 1) : toClient'[i].type = "BANNER"
    <3>1. Len(toClient') >= 1 /\ Len(toClient') + 1 = Len(toClient)
      BY <1>2, <1>10
    <3>2. toClient' # <<>>
      BY <3>1
    <3> QED BY <1>2, <2>1, <3>1, <3>2
  <2>4. Replied'
    BY <1>1, <1>10, <2>2, <2>3 DEF Replied, ServerSide
  <2> QED BY <1>1, <1>2, <1>6, <2>4, ExternalNow, ExternalKeeps
<1>11. ~NotStarted /\ ~Inside
  BY <1>1 DEF NotStarted, Inside
<1> QED BY <1>1, <1>7, <1>8, <1>9, <1>10, <1>11, ExternalNow

-----------------------------------------------------------------------------
(* The theorems. *)

LEMMA InitHolds == Init => IInv
<1> SUFFICES ASSUME Init PROVE IInv
  OBVIOUS
<1>1. /\ Plain("SERVICE_REQUEST") \in Request
      /\ Plain("SERVICE_REQUEST").method # "keyboard-interactive"
  BY DEF Plain, Request, Name, Key
<1>2. server \in Server /\ server.state = "WaitingServiceRequest" /\ server.current = "None"
  BY AuthAssumption, MethodsAssumption DEF Init, Server, Name
<1>3. /\ client \in Client /\ client.state = "WaitingServiceRequest"
      /\ ~client.signing /\ ~client.waiting
  BY DEF Init, Client, Name, Key
<1>4. app \in App /\ app.call = "None"
  BY AuthAssumption DEF Init, App, Name
<1>5. /\ toServer \in Seq(Request) /\ Len(toServer) = 1
      /\ \A i \in 1..Len(toServer) : toServer[i].method # "keyboard-interactive"
  BY <1>1 DEF Init
<1>6. /\ toClient = <<>> /\ mailbox = <<>> /\ replies = <<>>
      /\ granted = [type |-> "none", user |-> NoUser, key |-> NoKey]
      /\ vouched = NoVerdict
  BY DEF Init
<1>7. TypeOK
  BY <1>2, <1>3, <1>4, <1>5, <1>6, EmptySeq DEF TypeOK, Name, Key, Vouched, NoVerdict,
     Granted
<1>8. GrantedByVerdict /\ PkVouched
  BY <1>2, <1>6 DEF GrantedByVerdict, PkVouched
<1>9. ThrusshInvariant /\ ExternalInvariant
  BY <1>2, <1>3, <1>4, <1>5, <1>6 DEF ThrusshInvariant, ExternalInvariant, NotStarted
<1> QED BY <1>7, <1>8, <1>9 DEF IInv

LEMMA StepKeeps ==
    ASSUME IInv, [Next]_vars
    PROVE  IInv'
<1>1. CASE UNCHANGED vars
  BY <1>1 DEF vars, IInv, TypeOK, GrantedByVerdict, PkVouched, ThrusshInvariant, PastAuth,
     ExternalInvariant, NotStarted, Started, Idle, Requested, Replied, Stranded, Inside, Only
<1>2. CASE Next
  BY <1>2, ServerStepKeeps, ClientStepKeeps, ApplicationKeeps, OpensKeeps,
     ExternalRequestKeeps, ExternalReadsKeeps, ExternalRespondsKeeps DEF Next
<1> QED BY <1>1, <1>2

(* Whoever the users are and whatever the client is and asks, every         *)
(* variable of the authentication keeps its type, and a signature is only   *)
(* awaited for a method that has been taken (auth_method.take() in PK_OK).  *)
THEOREM TypeCorrect == Spec => []TypeOK
<1>1. IInv /\ [Next]_vars => IInv'
  BY StepKeeps
<1>2. IInv => TypeOK
  BY DEF IInv
<1> QED BY InitHolds, <1>1, <1>2, PTL DEF Spec

(* Whatever requests of whatever users, keys and methods come in any order, *)
(* and whatever the handler says, SUCCESS is sent only for the user of its  *)
(* last verdict, which was Accept, and that user is the session's from then *)
(* on (server_read_auth_request, server_read_auth_request_pk,               *)
(* read_userauth_info_response).  Of the key it says less: it is the key of *)
(* that verdict, or a PK_OK for the same user was outstanding, whose key    *)
(* server_read_auth_request_pk does not compare.  What holds of a thrussh   *)
(* client is AuthCallProofs!SignedByTheJudged.                              *)
THEOREM OnlyTheAccepted == Spec => []GrantedByVerdict
<1>1. IInv /\ [Next]_vars => IInv'
  BY StepKeeps
<1>2. IInv => GrantedByVerdict
  BY DEF IInv
<1> QED BY InitHolds, <1>1, <1>2, PTL DEF Spec

=============================================================================
