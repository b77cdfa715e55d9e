------------------------- MODULE CompressionProofs -------------------------
(***************************************************************************)
(* Theorems about Compression, for whatever the applications prefer and    *)
(* other clients offer: both sides choose the same algorithms, and both    *)
(* directions change over to compression at the same packet.  What Auth    *)
(* proves of its steps is used as it stands; of the new state the proof    *)
(* has to say what each bit stands for.                                    *)
(***************************************************************************)
EXTENDS Compression, AuthCallProofs

-----------------------------------------------------------------------------
(* The inductive invariant. *)

ClientZlib == Zlib(names.server.client_compression)

ServerZlib == Zlib(names.server.server_compression)

(* Every request names a user, and so does every session that may get in. *)
Named ==
    /\ client.auth_method # "None" \/ client.signing => client.auth_user # NoUser
    /\ server.current = "KeyboardInteractive" => server.auth_user # NoUser
    /\ PastAuth(server) \/ SuccessSaid => granted.user # NoUser
    /\ granted.user # NoUser => server.state # "WaitingServiceRequest"
    /\ \A i \in 1..Len(toServer) :
          toServer[i].type = "USERAUTH_REQUEST" => toServer[i].user # NoUser

(* Nothing follows SUCCESS. *)
SuccessLast ==
    /\ client.state = "Authenticated" => toClient = <<>>
    /\ \A i \in 1..(Len(toClient) - 1) : toClient[i].type # "SUCCESS"

(* Only a client that is inside opens channels. *)
OpensInside ==
    client.state # "Authenticated" =>
        \A i \in 1..Len(toServer) : toServer[i].type # "CHANNEL_OPEN"

(* When each codec has been switched on. *)
Codec == [compress : BOOLEAN, decompress : BOOLEAN]

Codecs ==
    /\ codec \in [client : Codec, server : Codec]
    /\ codec.server.compress <=> server.state = "Authenticated" /\ ServerZlib
    /\ codec.server.decompress <=> PastAuth(server) /\ ClientZlib
    /\ codec.client.compress <=> client.state = "Authenticated" /\ ClientZlib
    /\ codec.client.decompress <=> client.state = "Authenticated" /\ ServerZlib

(* Which packets are compressed: those of a client that is inside. *)
Bit == BOOLEAN

ServerBits ==
    /\ zipped.toServer \in Seq(Bit) /\ Len(zipped.toServer) = Len(toServer)
    /\ \A i \in 1..Len(toServer) :
          zipped.toServer[i] <=> toServer[i].type = "CHANNEL_OPEN" /\ ClientZlib

ClientBits ==
    /\ zipped.toClient \in Seq(Bit) /\ Len(zipped.toClient) = Len(toClient)
    /\ \A i \in 1..Len(toClient) : ~zipped.toClient[i]

Bits ==
    /\ zipped = [toServer |-> zipped.toServer, toClient |-> zipped.toClient]
    /\ ServerBits /\ ClientBits

AuthInvariant == IInv /\ CallInvariant /\ Named /\ SuccessLast /\ OpensInside

ZipInvariant == AuthInvariant /\ NamesAgree /\ Codecs /\ Bits

-----------------------------------------------------------------------------
(* What a verdict of the server leaves behind. *)

Silent(out) == \A i \in 1..Len(out) : out[i].type # "SUCCESS"

AuthMove ==
    /\ server'.state \in {"WaitingAuthRequest", "InitCompression"}
    /\ server'.current = "KeyboardInteractive" => server'.auth_user # NoUser
    /\ \/ granted'.user # NoUser
       \/ /\ granted' = granted /\ server'.state = "WaitingAuthRequest"
          /\ \E out \in Seq(Answer) : Silent(out) /\ toClient' = toClient \o out

LEMMA SilentOne ==
    ASSUME NEW a \in Answer, a.type # "SUCCESS"
    PROVE  <<a>> \in Seq(Answer) /\ Silent(<<a>>)
BY DEF Silent

LEMMA SilentNone == <<>> \in Seq(Answer) /\ Silent(<<>>)
BY EmptySeq DEF Silent

LEMMA HandlerFailsMove ==
    ASSUME server \in Server, server.state = "WaitingAuthRequest",
           server.current = "KeyboardInteractive" => server.auth_user # NoUser,
           NEW user, NEW key, HandlerFails(user, key)
    PROVE  AuthMove
<1>1. /\ server' = [server EXCEPT !.status = "closed"] /\ granted' = granted
      /\ toClient' = toClient \o <<>>
  BY DEF HandlerFails, Answers
<1>2. /\ server'.state = "WaitingAuthRequest" /\ server'.current = server.current
      /\ server'.auth_user = server.auth_user
  BY <1>1 DEF Server
<1> QED BY <1>1, <1>2, SilentNone DEF AuthMove

LEMMA RejectsMove ==
    ASSUME NEW sv \in Server, sv.state = "WaitingAuthRequest", Rejects(sv)
    PROVE  AuthMove
<1>1. /\ server' = Rejected(sv) /\ granted' = granted
      /\ toClient' = toClient \o <<Failure(sv)>>
  BY DEF Rejects, Answers
<1>2. server'.state = "WaitingAuthRequest" /\ server'.current = "None"
  BY <1>1 DEF Rejected, Server
<1>3. Failure(sv) \in Answer /\ Failure(sv).type # "SUCCESS"
  BY DEF Failure, Answer, Server
<1> QED BY <1>1, <1>2, <1>3, SilentOne DEF AuthMove

LEMMA GrantsMove ==
    ASSUME NEW sv \in Server, NEW request, request.user # NoUser,
           sv.auth_user = request.user, Grants(sv, request)
    PROVE  AuthMove
<1>1. server' = Succeeded(sv) /\ granted'.user = request.user
  BY DEF Grants, Answers
<1>2. server'.state = "InitCompression" /\ server'.auth_user = request.user
  BY <1>1 DEF Succeeded, Server
<1> QED BY <1>1, <1>2 DEF AuthMove

LEMMA RepliesInfoMove ==
    ASSUME NEW sv \in Server, sv.state = "WaitingAuthRequest", sv.auth_user # NoUser,
           NEW v, RepliesInfo(sv, v)
    PROVE  AuthMove
<1>1. CASE Rejects(sv)
  BY <1>1, RejectsMove
<1>2. CASE Answers(sv, <<Says("INFO_REQUEST")>>) /\ UNCHANGED granted
  <2>1. Says("INFO_REQUEST") \in Answer /\ Says("INFO_REQUEST").type # "SUCCESS"
    BY SaysTyped
  <2> QED BY <1>2, <2>1, SilentOne DEF Answers, AuthMove
<1>3. CASE Answers([sv EXCEPT !.status = "panic"], <<>>) /\ UNCHANGED granted
  <2>1. /\ [sv EXCEPT !.status = "panic"].state = "WaitingAuthRequest"
        /\ [sv EXCEPT !.status = "panic"].auth_user # NoUser
    BY DEF Server
  <2> QED BY <1>3, <2>1, SilentNone DEF Answers, AuthMove
<1> QED BY <1>1, <1>2, <1>3 DEF RepliesInfo

(* The user a request names is somebody. *)
LEMMA SomebodyAsks ==
    ASSUME IInv, Named, NEW method, ReadsAuthRequest(method)
    PROVE  /\ server.state = "WaitingAuthRequest" /\ server \in Server
           /\ Head(toServer).user # NoUser
           /\ server.current = "KeyboardInteractive" => server.auth_user # NoUser
<1>1. /\ toServer # <<>> /\ toServer \in Seq(Request) /\ server \in Server
      /\ server.state = "WaitingAuthRequest" /\ Head(toServer).type = "USERAUTH_REQUEST"
  BY Typed, AuthRequestRead
<1>2. Len(toServer) \in Nat /\ Len(toServer) >= 1 /\ Head(toServer) = toServer[1]
  BY <1>1, Removed
<1>3. 1 \in 1..Len(toServer)
  BY <1>2
<1>4. toServer[1].type = "USERAUTH_REQUEST" => toServer[1].user # NoUser
  BY <1>3 DEF Named
<1> QED BY <1>1, <1>2, <1>4 DEF Named

LEMMA PasswordMove ==
    ASSUME IInv, Named, ServerPassword
    PROVE  AuthMove
<1> DEFINE request == Head(toServer)
           user == request.user
           in   == [server EXCEPT !.auth_user = user]
           out  == [server EXCEPT !.auth_user = NoUser, !.methods = @ \ {"password"}]
<1>1. /\ server.state = "WaitingAuthRequest" /\ server \in Server /\ user # NoUser
      /\ user \in Name
      /\ server.current = "KeyboardInteractive" => server.auth_user # NoUser
  BY SomebodyAsks, AuthRequestRead, Typed DEF ServerPassword
<1>2. /\ in \in Server /\ in.auth_user = user
      /\ out \in Server /\ out.state = server.state
  BY <1>1 DEF Server, Name
<1>3. HandlerFails(user, request.key) \/ Grants(in, request) \/ Rejects(out)
  BY DEF ServerPassword
<1>4. request.user = user
  OBVIOUS
<1> HIDE DEF request, user, in, out
<1> QED BY <1>1, <1>2, <1>3, <1>4, HandlerFailsMove, GrantsMove, RejectsMove

LEMMA ProbeMove ==
    ASSUME IInv, Named, ServerProbe
    PROVE  AuthMove
<1> DEFINE user == Head(toServer).user
           in   == [server EXCEPT !.auth_user = user, !.current = "PublicKey"]
           out  == [server EXCEPT !.auth_user = NoUser]
<1>1. /\ server.state = "WaitingAuthRequest" /\ server \in Server /\ user # NoUser
      /\ user \in Name
      /\ server.current = "KeyboardInteractive" => server.auth_user # NoUser
  BY SomebodyAsks, AuthRequestRead, Typed DEF ServerProbe
<1>2. /\ in.current = "PublicKey" /\ in.state = server.state
      /\ out \in Server /\ out.state = server.state
  BY <1>1 DEF Server, Name
<1>3. \/ HandlerFails(user, Head(toServer).key)
      \/ Answers(in, <<Says("PK_OK")>>) /\ UNCHANGED granted
      \/ Rejects(out)
  BY DEF ServerProbe
<1> HIDE DEF user, in, out
<1>4. CASE Answers(in, <<Says("PK_OK")>>) /\ UNCHANGED granted
  <2>1. Says("PK_OK") \in Answer /\ Says("PK_OK").type # "SUCCESS"
    BY SaysTyped
  <2> QED BY <1>1, <1>2, <1>4, <2>1, SilentOne DEF Answers, AuthMove
<1> QED BY <1>1, <1>2, <1>3, <1>4, HandlerFailsMove, RejectsMove

LEMMA SignedMove ==
    ASSUME IInv, Named, ServerSigned
    PROVE  AuthMove
<1> DEFINE request == Head(toServer)
           user    == request.user
           named   == [server EXCEPT !.auth_user = user]
<1>1. /\ server.state = "WaitingAuthRequest" /\ server \in Server /\ user # NoUser
      /\ user \in Name
      /\ server.current = "KeyboardInteractive" => server.auth_user # NoUser
  BY SomebodyAsks, AuthRequestRead, Typed DEF ServerSigned
<1>2. named \in Server /\ named.auth_user = user /\ named.state = server.state
  BY <1>1 DEF Server, Name
<1>3. \/ PkOkSent(server, user) /\ Verified(server, request)
      \/ HandlerFails(user, request.key)
      \/ Verified(named, request) \/ Rejects(named) \/ Rejects(server)
  BY DEF ServerSigned
<1>4. /\ \A sv : Verified(sv, request) => Grants(sv, request) \/ Rejects(sv)
      /\ request.user = user
  BY DEF Verified
<1>5. PkOkSent(server, user) => server.auth_user = user
  BY DEF PkOkSent
<1> HIDE DEF request, user, named
<1> QED BY <1>1, <1>2, <1>3, <1>4, <1>5, HandlerFailsMove, GrantsMove, RejectsMove

LEMMA InteractiveMove ==
    ASSUME IInv, Named, ServerInteractive
    PROVE  AuthMove
<1> DEFINE request == Head(toServer)
           user == request.user
           sv   == Interactive(server, user)
<1>1. /\ server.state = "WaitingAuthRequest" /\ server \in Server /\ user # NoUser
      /\ user \in Name
      /\ server.current = "KeyboardInteractive" => server.auth_user # NoUser
  BY SomebodyAsks, AuthRequestRead, Typed DEF ServerInteractive
<1>2. sv \in Server /\ sv.auth_user = user /\ sv.state = server.state
  BY <1>1 DEF Interactive, Server, Name
<1>3. HandlerFails(user, request.key) \/ Grants(sv, request) \/ \E v : RepliesInfo(sv, v)
  BY DEF ServerInteractive
<1>4. request.user = user
  OBVIOUS
<1> HIDE DEF request, user, sv
<1> QED BY <1>1, <1>2, <1>3, <1>4, HandlerFailsMove, GrantsMove, RepliesInfoMove

LEMMA InfoResponseMove ==
    ASSUME IInv, Named, ServerInfoResponse
    PROVE  AuthMove
<1>1. /\ server.state = "WaitingAuthRequest" /\ server \in Server
      /\ server.current = "KeyboardInteractive" => server.auth_user # NoUser
  BY Typed DEF ServerInfoResponse, Named
<1>2. \/ Rejects(server)
      \/ /\ server.current = "KeyboardInteractive"
         /\ \/ HandlerFails(server.auth_user, NoKey)
            \/ /\ Answers(server, <<Says("SUCCESS")>>)
               /\ granted'.user = server.auth_user
            \/ \E v : RepliesInfo(server, v)
  BY DEF ServerInfoResponse
<1>3. CASE /\ server.current = "KeyboardInteractive"
           /\ Answers(server, <<Says("SUCCESS")>>)
           /\ granted'.user = server.auth_user
  BY <1>1, <1>3 DEF Answers, AuthMove
<1> QED BY <1>1, <1>2, <1>3, HandlerFailsMove, RejectsMove, RepliesInfoMove

LEMMA AuthMoves ==
    ASSUME IInv, Named,
           \/ ServerPassword \/ ServerProbe \/ ServerSigned \/ ServerInteractive
           \/ ServerOtherMethod \/ ServerInfoResponse
    PROVE  AuthMove /\ AuthTurn
<1>1. ASSUME ServerOtherMethod
      PROVE  AuthMove
  <2>1. Rejects(server) /\ server.state = "WaitingAuthRequest"
    BY <1>1 DEF ServerOtherMethod, ReadsAuthRequest
  <2> QED BY <2>1, Typed, RejectsMove
<1>2. TypeOK /\ PkVouched
  BY DEF IInv
<1> QED BY <1>1, <1>2, AuthTurns, PasswordMove, ProbeMove, SignedMove, InteractiveMove,
       InfoResponseMove

-----------------------------------------------------------------------------
(* What the server's steps do to the state and to the queues. *)

Quiet == {"SERVICE_ACCEPT", "BANNER", "FAILURE", "PK_OK", "INFO_REQUEST"}

(* A server that still answers requests has not said SUCCESS. *)
LEMMA NothingSaid ==
    ASSUME AuthInvariant, toServer # <<>>, ~PastAuth(server),
           Head(toServer).type # "CHANNEL_OPEN"
    PROVE  ~SuccessSaid
<1>1. IInv /\ Mutual /\ toServer \in Seq(Request)
  BY Typed DEF AuthInvariant, CallInvariant
<1>2. CASE client.kind = "thrussh"
  <2>1. server.current # "KeyboardInteractive"
    BY <1>1, <1>2 DEF IInv, ThrusshInvariant
  <2> QED BY <1>1, <2>1 DEF Mutual, Stayed
<1>3. CASE client.kind = "external"
  <2>1. NotStarted \/ Requested \/ Inside
    BY <1>1, <1>3 DEF IInv, ExternalInvariant, Started, Idle, Replied, Stranded
  <2>2. ~Inside
    BY <1>1, OnlyTail DEF Inside
  <2>3. client.state # "Authenticated"
    BY <2>1, <2>2 DEF NotStarted, Requested
  <2>4. Only(toClient, Quiet)
    BY <2>1, <2>2, <1>1, Typed DEF NotStarted, Requested, Only, Quiet
  <2> QED BY <2>3, <2>4 DEF SuccessSaid, Quiet
<1> QED BY <1>1, <1>2, <1>3, Typed

LEMMA TwoOf ==
    ASSUME NEW S, NEW a \in S, NEW b \in S
    PROVE  /\ <<a>> \o <<b>> \in Seq(S) /\ Len(<<a>> \o <<b>>) = 2
           /\ (<<a>> \o <<b>>)[1] = a
<1> DEFINE one == <<a>>
<1>1. one \in Seq(S) /\ Len(one) = 1 /\ one[1] = a
  OBVIOUS
<1> HIDE DEF one
<1>2. /\ one \o <<b>> \in Seq(S) /\ Len(one \o <<b>>) = Len(one) + 1
      /\ \A i \in 1..Len(one) : (one \o <<b>>)[i] = one[i]
  BY <1>1, Added
<1>3. 1 \in 1..Len(one)
  BY <1>1
<1> QED BY <1>1, <1>2, <1>3 DEF one

LEMMA ServerWrites ==
    ASSUME AuthInvariant, ServerStep
    PROVE  /\ toServer # <<>> /\ toServer' = Tail(toServer)
           /\ UNCHANGED ClientSide
           /\ \E out \in Seq(Answer) :
                 /\ toClient' = toClient \o out
                 /\ out # <<>> => ~PastAuth(server) /\ ~SuccessSaid
                 /\ \A i \in 1..(Len(out) - 1) : out[i].type # "SUCCESS"
<1>1. IInv /\ Named /\ toServer \in Seq(Request) /\ TypeOK /\ PkVouched
  BY Typed DEF AuthInvariant, IInv
<1>2. CASE ServerAuthenticated \/ ServerIgnores
  <2>1. toClient' = toClient \o <<>>
    BY <1>1, <1>2, Dropped, Typed, Kept
  <2>2. <<>> \in Seq(Answer) /\ \A i \in 1..(Len(<<>>) - 1) : <<>>[i].type # "SUCCESS"
    BY EmptySeq
  <2> QED BY <1>1, <1>2, <2>1, <2>2, Dropped
<1>3. CASE ServerAcceptService
  <2>1. /\ toServer # <<>> /\ toServer' = Tail(toServer)
        /\ Head(toServer).type = "SERVICE_REQUEST"
        /\ server.state = "WaitingServiceRequest" /\ UNCHANGED ClientSide
    BY <1>1, <1>3, ServiceAnswered
  <2>2. ~PastAuth(server) /\ ~SuccessSaid
    BY <2>1, NothingSaid DEF PastAuth
  <2>3. /\ Says("SERVICE_ACCEPT") \in Answer /\ Says("SERVICE_ACCEPT").type # "SUCCESS"
        /\ Says("BANNER") \in Answer
    BY SaysTyped
  <2> DEFINE one == <<Says("SERVICE_ACCEPT")>>
             two == <<Says("SERVICE_ACCEPT")>> \o <<Says("BANNER")>>
  <2>4. one \in Seq(Answer) /\ \A i \in 1..(Len(one) - 1) : one[i].type # "SUCCESS"
    BY <2>3
  <2>5. two \in Seq(Answer) /\ Len(two) = 2 /\ two[1] = Says("SERVICE_ACCEPT")
    BY <2>3, TwoOf
  <2>6. two \in Seq(Answer) /\ \A i \in 1..(Len(two) - 1) : two[i].type # "SUCCESS"
    BY <2>3, <2>5
  <2>7. toClient' = toClient \o one \/ toClient' = toClient \o two
    BY <1>1, <1>3, ServiceAnswered
  <2> HIDE DEF one, two
  <2> QED BY <2>1, <2>2, <2>4, <2>6, <2>7
<1>4. CASE \/ ServerPassword \/ ServerProbe \/ ServerSigned \/ ServerInteractive
           \/ ServerOtherMethod \/ ServerInfoResponse
  <2>1. AuthTurn
    BY <1>1, <1>4, AuthTurns
  <2>2. /\ toServer # <<>> /\ toServer' = Tail(toServer) /\ UNCHANGED ClientSide
        /\ toClient' = toClient \/ \E a \in Answer : toClient' = toClient \o <<a>>
    BY <1>1, <2>1, AuthTurnAnswers
  <2>3. ~PastAuth(server) /\ Head(toServer).type # "CHANNEL_OPEN"
    BY <2>1 DEF AuthTurn, PastAuth
  <2>4. ~SuccessSaid
    BY <2>2, <2>3, NothingSaid
  <2>5. CASE toClient' = toClient
    <3>1. toClient' = toClient \o <<>>
      BY <1>1, <2>5, Typed, Kept
    <3>2. <<>> \in Seq(Answer) /\ \A i \in 1..(Len(<<>>) - 1) : <<>>[i].type # "SUCCESS"
      BY EmptySeq
    <3> QED BY <2>2, <3>1, <3>2
  <2>6. ASSUME NEW a \in Answer, toClient' = toClient \o <<a>>
        PROVE  \E out \in Seq(Answer) :
                 /\ toClient' = toClient \o out
                 /\ out # <<>> => ~PastAuth(server) /\ ~SuccessSaid
                 /\ \A i \in 1..(Len(out) - 1) : out[i].type # "SUCCESS"
    <3>1. <<a>> \in Seq(Answer) /\ \A i \in 1..(Len(<<a>>) - 1) : <<a>>[i].type # "SUCCESS"
      OBVIOUS
    <3> QED BY <2>3, <2>4, <2>6, <3>1
  <2> QED BY <2>2, <2>5, <2>6
<1> QED BY <1>2, <1>3, <1>4 DEF ServerStep

(* Where the server's state goes. *)
LEMMA ServerPasses ==
    ASSUME AuthInvariant, ServerStep
    PROVE  /\ PastAuth(server) => server'.state = "Authenticated"
           /\ server.state = "WaitingServiceRequest" =>
                 server'.state \in {"WaitingServiceRequest", "WaitingAuthRequest"}
           /\ server.state = "WaitingAuthRequest" =>
                 server'.state \in {"WaitingAuthRequest", "InitCompression"}
<1>1. IInv /\ Named /\ server \in Server
  BY Typed DEF AuthInvariant
<1>2. CASE ServerAuthenticated \/ ServerIgnores \/ ServerAcceptService
  BY <1>1, <1>2 DEF ServerAuthenticated, ServerIgnores, ServerAcceptService, Answers, PastAuth,
     Server
<1>3. CASE \/ ServerPassword \/ ServerProbe \/ ServerSigned \/ ServerInteractive
           \/ ServerOtherMethod \/ ServerInfoResponse
  BY <1>1, <1>3, AuthMoves DEF AuthMove, AuthTurn, PastAuth
<1> QED BY <1>2, <1>3 DEF ServerStep

-----------------------------------------------------------------------------
(* Queues that grow by some packets. *)

LEMMA Grown ==
    ASSUME NEW S, NEW seq \in Seq(S), NEW out \in Seq(S)
    PROVE  /\ seq \o out \in Seq(S)
           /\ Len(seq) \in Nat /\ Len(out) \in Nat
           /\ Len(seq \o out) = Len(seq) + Len(out)
           /\ \A i \in 1..Len(seq) : (seq \o out)[i] = seq[i]
           /\ \A i \in 1..Len(out) : (seq \o out)[Len(seq) + i] = out[i]
           /\ \A i \in 1..Len(seq \o out) :
                 \/ i \in 1..Len(seq)
                 \/ \E j \in 1..Len(out) : i = Len(seq) + j
           /\ out = <<>> <=> Len(out) = 0
<1>1. /\ seq \o out \in Seq(S) /\ Len(seq \o out) = Len(seq) + Len(out)
      /\ \A i \in 1..(Len(seq) + Len(out)) :
            (seq \o out)[i] = IF i <= Len(seq) THEN seq[i] ELSE out[i - Len(seq)]
  BY ConcatProperties
<1>2. Len(seq) \in Nat /\ Len(out) \in Nat
  OBVIOUS
<1>3. out = <<>> <=> Len(out) = 0
  BY EmptySeq
<1>4. \A i \in 1..Len(seq) : (seq \o out)[i] = seq[i]
  BY <1>1, <1>2
<1>5. \A i \in 1..Len(out) : (seq \o out)[Len(seq) + i] = out[i]
  BY <1>1, <1>2
<1>6. ASSUME NEW i \in 1..Len(seq \o out), i \notin 1..Len(seq)
      PROVE  \E j \in 1..Len(out) : i = Len(seq) + j
  <2>1. i - Len(seq) \in 1..Len(out) /\ i = Len(seq) + (i - Len(seq))
    BY <1>1, <1>2, <1>6
  <2> QED BY <2>1
<1> QED BY <1>1, <1>2, <1>3, <1>4, <1>5, <1>6

LEMMA OnlyGrown ==
    ASSUME NEW S, NEW seq \in Seq(S), NEW out \in Seq(S), NEW T, Only(seq, T), Only(out, T)
    PROVE  Only(seq \o out, T)
<1> SUFFICES ASSUME NEW i \in 1..Len(seq \o out)
             PROVE  (seq \o out)[i].type \in T
  BY DEF Only
<1>1. CASE i \in 1..Len(seq)
  BY <1>1, Grown DEF Only
<1>2. ASSUME NEW j \in 1..Len(out), i = Len(seq) + j
      PROVE  (seq \o out)[i].type \in T
  <2>1. (seq \o out)[i] = out[j]
    BY <1>2, Grown
  <2> QED BY <2>1 DEF Only
<1> QED BY <1>1, <1>2, Grown

LEMMA SilentIsQuiet ==
    ASSUME NEW out \in Seq(Answer), Silent(out)
    PROVE  Only(out, Quiet)
<1> SUFFICES ASSUME NEW i \in 1..Len(out)
             PROVE  out[i].type \in Quiet
  BY DEF Only
<1>1. out[i] \in Answer /\ out[i].type # "SUCCESS"
  BY DEF Silent
<1> QED BY <1>1 DEF Answer, Quiet

LEMMA StillNothingSaid ==
    ASSUME toClient \in Seq(Answer), ~SuccessSaid, UNCHANGED client,
           NEW out \in Seq(Answer), Silent(out), toClient' = toClient \o out
    PROVE  ~SuccessSaid'
<1>1. client.state # "Authenticated" /\ Only(toClient, Quiet)
  BY DEF SuccessSaid, Quiet
<1>2. Only(toClient \o out, Quiet)
  BY <1>1, SilentIsQuiet, OnlyGrown
<1>3. Only(toClient, Quiet)'
  BY <1>2 DEF Only, Quiet
<1> QED BY <1>1, <1>3 DEF SuccessSaid, Quiet

-----------------------------------------------------------------------------
(* Users and SUCCESS: steps of the server. *)

LEMMA RequestsLeft ==
    ASSUME AuthInvariant, toServer # <<>>, toServer' = Tail(toServer)
    PROVE  \A i \in 1..Len(toServer') :
              /\ toServer'[i].type = "USERAUTH_REQUEST" => toServer'[i].user # NoUser
              /\ client.state # "Authenticated" => toServer'[i].type # "CHANNEL_OPEN"
<1>1. /\ Len(toServer) \in Nat /\ Len(toServer') = Len(toServer) - 1
      /\ \A i \in 1..(Len(toServer) - 1) : toServer'[i] = toServer[i + 1]
  BY Typed, Removed DEF AuthInvariant
<1>2. \A i \in 1..Len(toServer) :
         /\ toServer[i].type = "USERAUTH_REQUEST" => toServer[i].user # NoUser
         /\ client.state # "Authenticated" => toServer[i].type # "CHANNEL_OPEN"
  BY DEF AuthInvariant, Named, OpensInside
<1> SUFFICES ASSUME NEW i \in 1..(Len(toServer) - 1)
             PROVE  /\ toServer[i + 1].type = "USERAUTH_REQUEST" =>
                          toServer[i + 1].user # NoUser
                    /\ client.state # "Authenticated" => toServer[i + 1].type # "CHANNEL_OPEN"
  BY <1>1
<1>3. i + 1 \in 1..Len(toServer)
  BY <1>1
<1> QED BY <1>2, <1>3

(* The user, and whether SUCCESS was said, after a step of the server. *)
ServerNamed ==
    /\ server'.current = "KeyboardInteractive" => server'.auth_user # NoUser
    /\ PastAuth(server') \/ SuccessSaid' => granted'.user # NoUser
    /\ granted'.user # NoUser => server'.state # "WaitingServiceRequest"

LEMMA ServerNames ==
    ASSUME AuthInvariant, ServerStep
    PROVE  ServerNamed
<1>1. /\ IInv /\ Named /\ toClient \in Seq(Answer) /\ server \in Server
      /\ server.current = "KeyboardInteractive" => server.auth_user # NoUser
      /\ PastAuth(server) \/ SuccessSaid => granted.user # NoUser
      /\ granted.user # NoUser => server.state # "WaitingServiceRequest"
  BY Typed DEF AuthInvariant, Named
<1>2. UNCHANGED client
  BY ServerWrites DEF ClientSide
<1>3. CASE ServerAuthenticated \/ ServerIgnores
  <2>1. /\ server'.current = server.current /\ server'.auth_user = server.auth_user
        /\ PastAuth(server') <=> PastAuth(server)
        /\ server'.state = "WaitingServiceRequest" => server.state = "WaitingServiceRequest"
    BY <1>1, <1>3 DEF ServerAuthenticated, ServerIgnores, Answers, PastAuth, Server
  <2>2. toClient' = toClient /\ granted' = granted
    BY <1>1, <1>3, Dropped
  <2>3. SuccessSaid' <=> SuccessSaid
    BY <1>2, <2>2 DEF SuccessSaid, Only
  <2> QED BY <1>1, <2>1, <2>2, <2>3 DEF ServerNamed
<1>4. CASE ServerAcceptService
  <2>1. /\ server' = [server EXCEPT !.state = "WaitingAuthRequest"]
        /\ server.state = "WaitingServiceRequest" /\ granted' = granted
    BY <1>4 DEF ServerAcceptService, Answers
  <2>2. /\ server'.current = server.current /\ server'.auth_user = server.auth_user
        /\ server'.state = "WaitingAuthRequest"
    BY <1>1, <2>1 DEF Server
  <2>3. granted.user = NoUser /\ ~SuccessSaid
    BY <1>1, <2>1
  <2>4. PICK out \in Seq(Answer) : Silent(out) /\ toClient' = toClient \o out
    <3>1. \/ toClient' = toClient \o <<Says("SERVICE_ACCEPT")>>
          \/ toClient' = toClient \o (<<Says("SERVICE_ACCEPT")>> \o <<Says("BANNER")>>)
      BY <1>1, <1>4, ServiceAnswered
    <3>2. /\ Says("SERVICE_ACCEPT") \in Answer /\ Says("SERVICE_ACCEPT").type \in Quiet
          /\ Says("BANNER") \in Answer /\ Says("BANNER").type \in Quiet
      BY SaysTyped DEF Quiet
    <3>3. <<Says("SERVICE_ACCEPT")>> \in Seq(Answer) /\ <<Says("BANNER")>> \in Seq(Answer)
      BY <3>2
    <3>4. /\ Only(<<Says("SERVICE_ACCEPT")>>, Quiet) /\ Only(<<Says("BANNER")>>, Quiet)
      BY <3>2, OnlySingle
    <3>5. /\ <<Says("SERVICE_ACCEPT")>> \o <<Says("BANNER")>> \in Seq(Answer)
          /\ Only(<<Says("SERVICE_ACCEPT")>> \o <<Says("BANNER")>>, Quiet)
      BY <3>3, <3>4, OnlyGrown, Grown
    <3>6. \A out : Only(out, Quiet) => Silent(out)
      BY DEF Only, Quiet, Silent
    <3> QED BY <3>1, <3>3, <3>4, <3>5, <3>6
  <2>5. ~SuccessSaid'
    BY <1>1, <1>2, <2>3, <2>4, StillNothingSaid
  <2> QED BY <1>1, <2>1, <2>2, <2>3, <2>5 DEF ServerNamed, PastAuth
<1>5. CASE \/ ServerPassword \/ ServerProbe \/ ServerSigned \/ ServerInteractive
           \/ ServerOtherMethod \/ ServerInfoResponse
  <2>1. AuthMove /\ AuthTurn
    BY <1>1, <1>5, AuthMoves
  <2>2. CASE granted'.user # NoUser
    BY <2>1, <2>2 DEF AuthMove, ServerNamed
  <2>3. CASE granted'.user = NoUser
    <3>1. PICK out \in Seq(Answer) : Silent(out) /\ toClient' = toClient \o out
      BY <2>1, <2>3 DEF AuthMove
    <3>2. granted' = granted /\ server'.state = "WaitingAuthRequest"
      BY <2>1, <2>3 DEF AuthMove
    <3>3. ~SuccessSaid
      BY <1>1, <2>3, <3>2
    <3>4. ~SuccessSaid'
      BY <1>1, <1>2, <3>1, <3>3, StillNothingSaid
    <3> QED BY <2>1, <2>3, <3>2, <3>4 DEF AuthMove, ServerNamed, PastAuth
  <2> QED BY <2>2, <2>3
<1> QED BY <1>3, <1>4, <1>5 DEF ServerStep

LEMMA ServerKeeps ==
    ASSUME AuthInvariant, ServerStep
    PROVE  AuthInvariant'
<1>1. IInv /\ CallInvariant /\ toClient \in Seq(Answer)
  BY Typed DEF AuthInvariant
<1>2. IInv' /\ CallInvariant'
  BY <1>1, ServerStepKeeps, CallStepKeeps DEF Next
<1>3. /\ toServer # <<>> /\ toServer' = Tail(toServer) /\ UNCHANGED client
  BY ServerWrites DEF ClientSide
<1>4. PICK out \in Seq(Answer) :
         /\ toClient' = toClient \o out
         /\ out # <<>> => ~PastAuth(server) /\ ~SuccessSaid
         /\ \A i \in 1..(Len(out) - 1) : out[i].type # "SUCCESS"
  BY ServerWrites
<1>5. Named'
  <2>1. ServerNamed
    BY ServerNames
  <2>2. client.auth_method # "None" \/ client.signing => client.auth_user # NoUser
    BY DEF AuthInvariant, Named
  <2>3. PastAuth(server)' => PastAuth(server')
    BY DEF PastAuth
  <2> QED BY <1>3, <2>1, <2>2, <2>3, RequestsLeft DEF ServerNamed, Named
<1>6. OpensInside'
  BY <1>3, RequestsLeft DEF OpensInside
<1>7. SuccessLast'
  <2>1. client.state = "Authenticated" => toClient' = <<>>
    <3> SUFFICES ASSUME client.state = "Authenticated" PROVE toClient' = <<>>
      OBVIOUS
    <3>1. out = <<>> /\ toClient = <<>>
      BY <1>4 DEF SuccessSaid, AuthInvariant, SuccessLast
    <3> QED BY <1>1, <1>4, <3>1, Kept
  <2>2. ASSUME NEW i \in 1..(Len(toClient') - 1)
        PROVE  toClient'[i].type # "SUCCESS"
    <3>1. CASE out = <<>>
      <4>1. toClient' = toClient
        BY <1>1, <1>4, <3>1, Kept
      <4> QED BY <2>2, <4>1 DEF AuthInvariant, SuccessLast
    <3>2. CASE out # <<>>
      <4>1. Only(toClient, Quiet)
        BY <1>4, <3>2 DEF SuccessSaid, Quiet
      <4>2. /\ Len(toClient') \in Nat /\ Len(toClient') = Len(toClient) + Len(out)
            /\ Len(toClient) \in Nat /\ Len(out) \in Nat
            /\ \A k \in 1..Len(toClient) : toClient'[k] = toClient[k]
            /\ \A k \in 1..Len(out) : toClient'[Len(toClient) + k] = out[k]
        BY <1>1, <1>4, Grown
      <4>3. i \in 1..Len(toClient')
        BY <2>2, <4>2
      <4>4. CASE i \in 1..Len(toClient)
        BY <4>1, <4>2, <4>4 DEF Only, Quiet
      <4>5. ASSUME NEW j \in 1..Len(out), i = Len(toClient) + j
            PROVE  toClient'[i].type # "SUCCESS"
        <5>1. j \in 1..(Len(out) - 1)
          BY <2>2, <4>2, <4>5
        <5> QED BY <1>4, <4>2, <4>5, <5>1
      <4> QED BY <1>1, <1>4, <4>3, <4>4, <4>5, Grown
    <3> QED BY <3>1, <3>2
  <2> QED BY <1>3, <2>1, <2>2 DEF SuccessLast
<1> QED BY <1>2, <1>5, <1>6, <1>7 DEF AuthInvariant

-----------------------------------------------------------------------------
(* What a client that reads or is told something does. *)

Named1(r) ==
    /\ r.type # "CHANNEL_OPEN"
    /\ r.type = "USERAUTH_REQUEST" => r.user # NoUser

ClientWritten ==
    \E out \in Seq(Request) :
        /\ toServer' = toServer \o out
        /\ out # <<>> => client.state # "Authenticated"
        /\ \A i \in 1..Len(out) : Named1(out[i])

ClientRead ==
    \/ toClient' = toClient /\ (client'.state = "Authenticated" <=> client.state = "Authenticated")
    \/ /\ toClient # <<>> /\ toClient' = Tail(toClient)
       /\ client'.state = "Authenticated" =>
             client.state = "Authenticated" \/ Head(toClient).type = "SUCCESS"

ClientTurn ==
    /\ UNCHANGED <<server, granted>>
    /\ client'.auth_method # "None" \/ client'.signing => client'.auth_user # NoUser
    /\ ClientRead /\ ClientWritten

LEMMA WritesNothing ==
    ASSUME IInv, toServer' = toServer \/ toServer' = toServer \o <<>>
    PROVE  ClientWritten
<1>1. toServer' = toServer \o <<>> /\ <<>> \in Seq(Request)
  BY Typed, Kept, EmptySeq
<1>2. \A i \in 1..Len(<<>>) : Named1(<<>>[i])
  BY EmptySeq
<1> QED BY <1>1, <1>2 DEF ClientWritten

LEMMA WritesOne ==
    ASSUME NEW r \in Request, Named1(r), toServer' = toServer \o <<r>>,
           client.state # "Authenticated"
    PROVE  ClientWritten
<1>1. <<r>> \in Seq(Request) /\ \A i \in 1..Len(<<r>>) : Named1(<<r>>[i])
  OBVIOUS
<1> QED BY <1>1 DEF ClientWritten

LEMMA RequestNamed ==
    ASSUME NEW user \in Name, user # NoUser, NEW key \in Key, NEW valid \in BOOLEAN,
           NEW method \in {"password", "probe", "signed"}
    PROVE  AuthRequest(method, user, key, valid) \in Request
           /\ Named1(AuthRequest(method, user, key, valid))
BY DEF AuthRequest, Request, Named1

LEMMA WriteAuthRequestNamed ==
    ASSUME NEW user \in Name, user # NoUser, NEW method, NEW key \in Key
    PROVE  WriteAuthRequest(user, method, key) \in Request
           /\ Named1(WriteAuthRequest(user, method, key))
BY RequestNamed DEF WriteAuthRequest

LEMMA UserKnown ==
    ASSUME AuthInvariant
    PROVE  /\ client \in Client /\ client.auth_user \in Name /\ client.key \in Key
           /\ client.auth_method # "None" \/ client.signing => client.auth_user # NoUser
           /\ client.signing => client.state = "WaitingAuthRequest"
<1>1. client \in Client /\ (client.signing => client.state = "WaitingAuthRequest")
  BY Typed DEF AuthInvariant
<1> QED BY <1>1 DEF Client, AuthInvariant, Named

LEMMA ServiceAcceptedTurn ==
    ASSUME AuthInvariant, ClientServiceAccepted
    PROVE  ClientTurn
<1> DEFINE cl   == [client EXCEPT !.accepted = TRUE]
           sent == [cl EXCEPT !.state = "WaitingAuthRequest"]
           r    == WriteAuthRequest(cl.auth_user, cl.auth_method, cl.key)
<1>1. /\ toClient # <<>> /\ toClient' = Tail(toClient)
      /\ client.state = "WaitingServiceRequest"
      /\ UNCHANGED <<server, granted>>
      /\ \/ client.auth_method = "None" /\ client' = cl /\ toServer' = toServer \o <<>>
         \/ /\ client.auth_method # "None" /\ client' = sent
            /\ toServer' = toServer \o <<r>>
  <2>1. cl.auth_method = client.auth_method
    BY UserKnown DEF Client
  <2> QED BY <2>1 DEF ClientServiceAccepted, Thrussh, Takes, Handled, ServerSide
<1>2. /\ cl.state = client.state /\ cl.auth_method = client.auth_method
      /\ cl.auth_user = client.auth_user /\ cl.signing = client.signing
      /\ cl.key = client.key
      /\ sent.state = "WaitingAuthRequest" /\ sent.auth_method = client.auth_method
      /\ sent.auth_user = client.auth_user /\ sent.signing = client.signing
  BY UserKnown DEF Client
<1>3. client.auth_method # "None" => r \in Request /\ Named1(r)
  BY <1>2, UserKnown, WriteAuthRequestNamed
<1> HIDE DEF cl, sent, r
<1>4. ClientRead
  BY <1>1, <1>2 DEF ClientRead
<1>5. ClientWritten
  BY <1>1, <1>3, WritesNothing, WritesOne DEF AuthInvariant
<1>6. client'.auth_method # "None" \/ client'.signing => client'.auth_user # NoUser
  BY <1>1, <1>2, UserKnown
<1> QED BY <1>1, <1>4, <1>5, <1>6 DEF ClientTurn

(* Packets that are answered with nothing. *)
LEMMA QuietTurn ==
    ASSUME AuthInvariant,
           \/ ClientBanner \/ ClientInconsistent \/ ClientRefused \/ ClientSuccess
           \/ ClientHangup \/ ExternalReads
    PROVE  ClientTurn
<1>1. /\ UNCHANGED <<server, granted>>
      /\ toServer' = toServer \/ toServer' = toServer \o <<>>
  BY DEF ClientBanner, ClientInconsistent, ClientRefused, ClientSuccess, ClientHangup,
     ExternalReads, Handled, ServerSide
<1>2. client'.auth_method # "None" \/ client'.signing =>
         client.auth_method # "None" \/ client.signing
  BY UserKnown DEF ClientBanner, ClientInconsistent, ClientRefused, ClientSuccess, ClientHangup,
     ExternalReads, Handled, Taken, Client
<1>3. client'.auth_user = client.auth_user
  BY UserKnown DEF ClientBanner, ClientInconsistent, ClientRefused, ClientSuccess, ClientHangup,
     ExternalReads, Handled, Taken, Client
<1>4. ClientRead
  <2>1. CASE ClientHangup
    BY <2>1, UserKnown DEF ClientHangup, ClientRead, Client
  <2>2. CASE ClientBanner \/ ClientInconsistent \/ ClientRefused \/ ClientSuccess
    BY <2>2, UserKnown DEF ClientBanner, ClientInconsistent, ClientRefused, ClientSuccess,
       Thrussh, Takes, Handled, Taken, ClientRead, Client
  <2>3. CASE ExternalReads
    BY <2>3, UserKnown DEF ExternalReads, ClientRead, Client
  <2> QED BY <2>1, <2>2, <2>3
<1>5. ClientWritten
  BY <1>1, WritesNothing DEF AuthInvariant
<1> QED BY <1>1, <1>2, <1>3, <1>4, <1>5, UserKnown DEF ClientTurn

LEMMA PkOkTurn ==
    ASSUME AuthInvariant, ClientPkOk
    PROVE  ClientTurn
<1> DEFINE cl   == Taken(client)
           asks == [cl EXCEPT !.signing = TRUE]
           r    == AuthRequest("signed", cl.auth_user, cl.key, TRUE)
<1>1. /\ toClient # <<>> /\ toClient' = Tail(toClient)
      /\ client.state = "WaitingAuthRequest" /\ ~client.signing
      /\ UNCHANGED <<server, granted>>
      /\ \/ /\ client.auth_method = "PublicKey" /\ client' = cl
            /\ toServer' = toServer \o <<r>>
         \/ /\ client.auth_method = "FuturePublicKey" /\ client' = asks
            /\ toServer' = toServer \o <<>>
         \/ client' = cl /\ toServer' = toServer \o <<>>
  BY DEF ClientPkOk, Thrussh, Takes, Handled, ServerSide
<1>2. /\ cl.state = client.state /\ cl.auth_method = "None"
      /\ cl.auth_user = client.auth_user /\ cl.signing = client.signing
      /\ cl.key = client.key
      /\ asks.state = client.state /\ asks.auth_user = client.auth_user
  BY UserKnown DEF Client, Taken
<1>3. client.auth_method # "None" => r \in Request /\ Named1(r)
  BY <1>2, UserKnown, RequestNamed
<1> HIDE DEF cl, asks, r
<1>4. ClientRead
  BY <1>1, <1>2 DEF ClientRead
<1>5. ClientWritten
  BY <1>1, <1>3, WritesNothing, WritesOne DEF AuthInvariant
<1>6. client'.auth_method # "None" \/ client'.signing => client'.auth_user # NoUser
  BY <1>1, <1>2, UserKnown
<1> QED BY <1>1, <1>4, <1>5, <1>6 DEF ClientTurn

LEMMA SignedComesTurn ==
    ASSUME AuthInvariant, ClientWaitsForSigned
    PROVE  ClientTurn
<1> DEFINE done == [client EXCEPT !.signing = FALSE]
           r    == AuthRequest("signed", client.auth_user, client.key,
                                   Head(mailbox).signature = "good")
<1>1. /\ client.signing /\ toClient' = toClient /\ UNCHANGED <<server, granted>>
      /\ \/ client' = done /\ toServer' = toServer \o <<>>
         \/ client' = done /\ toServer' = toServer \o <<r>>
         \/ client' = client /\ toServer' = toServer
  BY DEF ClientWaitsForSigned, ServerSide
<1>2. /\ done.state = client.state /\ done.auth_user = client.auth_user
  BY UserKnown DEF Client
<1>3. r \in Request /\ Named1(r)
  <2>1. (Head(mailbox).signature = "good") \in BOOLEAN
    OBVIOUS
  <2> QED BY <1>1, <2>1, UserKnown, RequestNamed
<1> HIDE DEF done, r
<1>4. ClientRead /\ client.state # "Authenticated"
  BY <1>1, <1>2, UserKnown DEF ClientRead
<1>5. ClientWritten
  BY <1>1, <1>3, <1>4, WritesNothing, WritesOne DEF AuthInvariant
<1>6. client'.auth_user # NoUser
  BY <1>1, <1>2, UserKnown
<1> QED BY <1>1, <1>4, <1>5, <1>6 DEF ClientTurn

LEMMA AuthenticateTurn ==
    ASSUME AuthInvariant, ClientAuthenticate
    PROVE  ClientTurn
<1> DEFINE msg == Head(mailbox)
           r   == WriteAuthRequest(msg.user, msg.method, msg.key)
<1>1. /\ mailbox # <<>> /\ msg.type = "Authenticate"
      /\ client' = [client EXCEPT !.auth_user = msg.user, !.auth_method = msg.method,
                                  !.key = msg.key]
      /\ toClient' = toClient /\ UNCHANGED <<server, granted>>
      /\ \/ IsWaiting(client) /\ toServer' = toServer \o <<r>>
         \/ toServer' = toServer \o <<>>
  BY DEF ClientAuthenticate, Stored, ServerSide
<1>2. msg.user \in Users /\ msg.key \in Key
  BY <1>1, NextMsg DEF AuthInvariant, IInv
<1>3. msg.user \in Name /\ msg.user # NoUser
  BY <1>2, AuthAssumption DEF Name
<1>4. r \in Request /\ Named1(r)
  BY <1>2, <1>3, WriteAuthRequestNamed
<1> HIDE DEF msg, r
<1>5. client'.state = client.state /\ client'.auth_user = msg.user
  BY <1>1, UserKnown DEF Client
<1>6. IsWaiting(client) => client.state # "Authenticated"
  BY DEF IsWaiting
<1>7. ClientRead
  BY <1>1, <1>5 DEF ClientRead
<1>8. ClientWritten
  BY <1>1, <1>4, <1>6, WritesNothing, WritesOne DEF AuthInvariant
<1> QED BY <1>1, <1>3, <1>5, <1>7, <1>8 DEF ClientTurn

LEMMA RespondsTurn ==
    ASSUME AuthInvariant, ExternalResponds
    PROVE  ClientTurn
<1>1. /\ toClient # <<>> /\ toClient' = Tail(toClient) /\ client' = client
      /\ UNCHANGED <<server, granted>>
      /\ toServer' = Append(toServer, Plain("INFO_RESPONSE"))
  BY DEF ExternalResponds, Takes, ServerSide
<1>2. client.state # "Authenticated"
  BY <1>1 DEF AuthInvariant, SuccessLast
<1>3. Plain("INFO_RESPONSE") \in Request /\ Named1(Plain("INFO_RESPONSE"))
  BY NoKeyIsKey DEF Plain, Request, Name, Named1
<1>4. toServer' = toServer \o <<Plain("INFO_RESPONSE")>>
  BY <1>1, <1>3, Typed, Added DEF AuthInvariant
<1>5. ClientWritten
  BY <1>2, <1>3, <1>4, WritesOne
<1>6. ClientRead
  BY <1>1 DEF ClientRead
<1> QED BY <1>1, <1>5, <1>6, UserKnown DEF ClientTurn

LEMMA ClientTurns ==
    ASSUME AuthInvariant, ClientStep \/ ExternalReads \/ ExternalResponds
    PROVE  ClientTurn
BY ServiceAcceptedTurn, QuietTurn, PkOkTurn, SignedComesTurn, AuthenticateTurn, RespondsTurn
   DEF ClientStep

(* SUCCESS is read once, when it is the last packet there is. *)
LEMMA EntersOnce ==
    ASSUME AuthInvariant, ClientRead
    PROVE  /\ client.state = "Authenticated" => client'.state = "Authenticated"
           /\ SuccessLast'
           /\ SuccessSaid' => SuccessSaid
<1>1. /\ toClient \in Seq(Answer)
      /\ client.state = "Authenticated" => toClient = <<>>
      /\ \A i \in 1..(Len(toClient) - 1) : toClient[i].type # "SUCCESS"
  BY Typed DEF AuthInvariant, SuccessLast
<1>2. CASE toClient' = toClient /\ (client'.state = "Authenticated" <=> client.state = "Authenticated")
  BY <1>1, <1>2 DEF SuccessLast, SuccessSaid, Only
<1>3. CASE /\ toClient # <<>> /\ toClient' = Tail(toClient)
           /\ client'.state = "Authenticated" =>
                 client.state = "Authenticated" \/ Head(toClient).type = "SUCCESS"
  <2>1. client.state # "Authenticated"
    BY <1>1, <1>3
  <2>2. /\ Len(toClient) \in Nat /\ Len(toClient) >= 1 /\ Head(toClient) = toClient[1]
        /\ Len(toClient') = Len(toClient) - 1
        /\ \A i \in 1..(Len(toClient) - 1) : toClient'[i] = toClient[i + 1]
        /\ Len(toClient) = 1 => toClient' = <<>>
    BY <1>1, <1>3, Removed
  <2>3. client'.state = "Authenticated" => toClient' = <<>>
    <3> SUFFICES ASSUME client'.state = "Authenticated", Len(toClient) # 1
                 PROVE  FALSE
      BY <2>2
    <3>1. 1 \in 1..(Len(toClient) - 1)
      BY <2>2
    <3> QED BY <1>1, <1>3, <2>1, <2>2, <3>1
  <2>4. ASSUME NEW i \in 1..(Len(toClient') - 1)
        PROVE  toClient'[i].type # "SUCCESS"
    <3>1. i \in 1..(Len(toClient) - 1) /\ i + 1 \in 1..(Len(toClient) - 1)
      BY <2>2
    <3> QED BY <1>1, <2>2, <3>1
  <2>5. ASSUME ~SuccessSaid PROVE ~SuccessSaid'
    <3>1. Only(toClient, Quiet)
      BY <2>5 DEF SuccessSaid, Quiet
    <3>2. Head(toClient).type \in Quiet /\ Only(Tail(toClient), Quiet)
      BY <1>1, <1>3, <3>1, OnlyTail
    <3>3. client'.state # "Authenticated"
      BY <1>3, <2>1, <3>2 DEF Quiet
    <3> QED BY <1>3, <3>2, <3>3 DEF SuccessSaid, Only, Quiet
  <2> QED BY <2>1, <2>3, <2>4, <2>5 DEF SuccessLast
<1> QED BY <1>2, <1>3 DEF ClientRead

(* Named and OpensInside, of the packets that are on their way to the server. *)
LEMMA WrittenKeeps ==
    ASSUME AuthInvariant, ClientRead, NEW out \in Seq(Request),
           toServer' = toServer \o out,
           \A i \in 1..Len(out) :
              /\ out[i].type = "USERAUTH_REQUEST" => out[i].user # NoUser
              /\ out[i].type = "CHANNEL_OPEN" => client.state = "Authenticated"
    PROVE  /\ \A i \in 1..Len(toServer') :
                 toServer'[i].type = "USERAUTH_REQUEST" => toServer'[i].user # NoUser
           /\ OpensInside'
<1>1. toServer \in Seq(Request)
  BY Typed DEF AuthInvariant
<1>2. \A i \in 1..Len(toServer) :
         /\ toServer[i].type = "USERAUTH_REQUEST" => toServer[i].user # NoUser
         /\ toServer[i].type = "CHANNEL_OPEN" => client.state = "Authenticated"
  BY DEF AuthInvariant, Named, OpensInside
<1>3. ASSUME NEW i \in 1..Len(toServer')
      PROVE  /\ toServer'[i].type = "USERAUTH_REQUEST" => toServer'[i].user # NoUser
             /\ toServer'[i].type = "CHANNEL_OPEN" => client.state = "Authenticated"
  <2>1. CASE i \in 1..Len(toServer)
    <3>1. toServer'[i] = toServer[i]
      BY <1>1, <2>1, Grown
    <3> QED BY <1>2, <2>1, <3>1
  <2>2. ASSUME NEW j \in 1..Len(out), i = Len(toServer) + j
        PROVE  /\ toServer'[i].type = "USERAUTH_REQUEST" => toServer'[i].user # NoUser
               /\ toServer'[i].type = "CHANNEL_OPEN" => client.state = "Authenticated"
    <3>1. toServer'[i] = out[j]
      BY <1>1, <2>2, Grown
    <3> QED BY <3>1
  <2>3. i \in 1..Len(toServer) \/ \E j \in 1..Len(out) : i = Len(toServer) + j
    BY <1>1, Grown
  <2> QED BY <2>1, <2>2, <2>3
<1>4. client.state = "Authenticated" => client'.state = "Authenticated"
  BY EntersOnce
<1> QED BY <1>3, <1>4 DEF OpensInside

LEMMA NamedKeeps ==
    ASSUME AuthInvariant, UNCHANGED <<server, granted>>, SuccessSaid' => SuccessSaid,
           client'.auth_method # "None" \/ client'.signing => client'.auth_user # NoUser,
           \A i \in 1..Len(toServer') :
                 toServer'[i].type = "USERAUTH_REQUEST" => toServer'[i].user # NoUser
    PROVE  Named'
<1>1. PastAuth(server)' <=> PastAuth(server)
  BY DEF PastAuth
<1>2. /\ server.current = "KeyboardInteractive" => server.auth_user # NoUser
      /\ PastAuth(server) \/ SuccessSaid => granted.user # NoUser
      /\ granted.user # NoUser => server.state # "WaitingServiceRequest"
  BY DEF AuthInvariant, Named
<1> QED BY <1>1, <1>2 DEF Named

LEMMA ClientTurnKeeps ==
    ASSUME AuthInvariant, ClientStep \/ ExternalReads \/ ExternalResponds
    PROVE  AuthInvariant'
<1>1. IInv' /\ CallInvariant'
  BY ClientStepKeeps, ExternalReadsKeeps, ExternalRespondsKeeps, CallStepKeeps
     DEF Next, AuthInvariant
<1>2. ClientTurn
  BY ClientTurns
<1>3. PICK out \in Seq(Request) :
         toServer' = toServer \o out /\ \A i \in 1..Len(out) : Named1(out[i])
  BY <1>2 DEF ClientTurn, ClientWritten
<1>4. /\ \A i \in 1..Len(toServer') :
            toServer'[i].type = "USERAUTH_REQUEST" => toServer'[i].user # NoUser
      /\ OpensInside'
  BY <1>2, <1>3, WrittenKeeps DEF ClientTurn, Named1
<1>5. Named' /\ SuccessLast'
  BY <1>2, <1>4, EntersOnce, NamedKeeps DEF ClientTurn
<1> QED BY <1>1, <1>4, <1>5 DEF AuthInvariant

(* A client that writes on its own account. *)
LEMMA WritesKeeps ==
    ASSUME AuthInvariant, ClientOpens \/ ExternalRequest
    PROVE  /\ AuthInvariant'
           /\ toClient' = toClient /\ client'.state = client.state /\ UNCHANGED server
           /\ \E r \in Request :
                 /\ toServer' = toServer \o <<r>>
                 /\ r.type = "CHANNEL_OPEN" <=> client.state = "Authenticated"
<1>1. IInv' /\ CallInvariant'
  BY OpensKeeps, ExternalRequestKeeps, CallStepKeeps DEF Next, AuthInvariant
<1>2. /\ UNCHANGED <<server, granted>> /\ toClient' = toClient
      /\ client'.state = client.state /\ client'.auth_method = client.auth_method
      /\ client'.signing = client.signing /\ client'.auth_user = client.auth_user
  BY UserKnown DEF ClientOpens, ExternalRequest, ServerSide, Client
<1>3. PICK r \in Request :
         /\ toServer' = Append(toServer, r)
         /\ r.type = "CHANNEL_OPEN" <=> client.state = "Authenticated"
         /\ r.type = "USERAUTH_REQUEST" => r.user # NoUser
  <2>1. CASE ClientOpens
    <3>1. Plain("CHANNEL_OPEN") \in Request /\ Plain("CHANNEL_OPEN").type = "CHANNEL_OPEN"
      BY NoKeyIsKey DEF Plain, Request, Name
    <3> QED BY <2>1, <3>1 DEF ClientOpens
  <2>2. CASE ExternalRequest
    BY <2>2 DEF ExternalRequest
  <2> QED BY <2>1, <2>2
<1>4. toServer' = toServer \o <<r>> /\ <<r>> \in Seq(Request)
  BY <1>3, Typed, Added DEF AuthInvariant
<1>5. ClientRead
  BY <1>2 DEF ClientRead
<1>6. \A i \in 1..Len(<<r>>) :
          /\ <<r>>[i].type = "USERAUTH_REQUEST" => <<r>>[i].user # NoUser
          /\ <<r>>[i].type = "CHANNEL_OPEN" => client.state = "Authenticated"
  BY <1>3
<1>7. /\ \A i \in 1..Len(toServer') :
            toServer'[i].type = "USERAUTH_REQUEST" => toServer'[i].user # NoUser
      /\ OpensInside'
  BY <1>4, <1>5, <1>6, WrittenKeeps
<1>8. Named' /\ SuccessLast'
  BY <1>2, <1>5, <1>7, EntersOnce, NamedKeeps, UserKnown
<1> QED BY <1>1, <1>2, <1>3, <1>4, <1>7, <1>8 DEF AuthInvariant

LEMMA QueuesStayKeeps ==
    ASSUME AuthInvariant, AppAuthenticate \/ AppAnswers \/ AppDropsCall \/ UNCHANGED vars
    PROVE  AuthInvariant' /\ UNCHANGED <<server, client, toServer, toClient>>
<1>1. IInv' /\ CallInvariant'
  BY StepKeeps, CallStepKeeps DEF Next, AuthInvariant
<1>2. UNCHANGED <<server, granted, client, toServer, toClient>>
  BY DEF AppAuthenticate, AppAnswers, AppReply, AppSigns, AppSessionGone, AppDropsCall, vars,
     ServerSide, SessionSide
<1>3. Named' /\ SuccessLast' /\ OpensInside'
  BY <1>2 DEF AuthInvariant, Named, SuccessLast, OpensInside, PastAuth, SuccessSaid, Only
<1> QED BY <1>1, <1>2, <1>3 DEF AuthInvariant

-----------------------------------------------------------------------------
(* The compressors. *)

LEMMA ZlibOrNot == ClientZlib \in BOOLEAN /\ ServerZlib \in BOOLEAN
BY DEF ClientZlib, ServerZlib, Zlib

LEMMA ServerSwitches ==
    ASSUME AuthInvariant, Codecs, ServerStep,
           codec' = [codec EXCEPT !.server = ServerCodec(server, server')], UNCHANGED names
    PROVE  /\ Codecs'
           /\ ~PastAuth(server) => ~codec'.server.compress
           /\ codec'.server.compress \in Bit
<1> DEFINE c == IF server.state = "InitCompression" THEN ServerZlib ELSE codec.server.compress
           d == IF AcceptedNow(server, server') THEN ClientZlib ELSE codec.server.decompress
<1>1. /\ UNCHANGED client /\ (ClientZlib' <=> ClientZlib) /\ (ServerZlib' <=> ServerZlib)
  BY ServerWrites DEF ClientSide, ClientZlib, ServerZlib
<1>2. /\ PastAuth(server) => server'.state = "Authenticated"
      /\ server.state = "WaitingServiceRequest" =>
            server'.state \in {"WaitingServiceRequest", "WaitingAuthRequest"}
      /\ server.state = "WaitingAuthRequest" =>
            server'.state \in {"WaitingAuthRequest", "InitCompression"}
      /\ server.state \in {"WaitingServiceRequest", "WaitingAuthRequest", "InitCompression",
                           "Authenticated"}
  BY ServerPasses, Typed DEF AuthInvariant, Server
<1>3. c \in BOOLEAN /\ d \in BOOLEAN
  BY ZlibOrNot DEF Codecs, Codec
<1>4. c <=> server'.state = "Authenticated" /\ ServerZlib
  BY <1>2 DEF Codecs, PastAuth
<1>5. d <=> PastAuth(server') /\ ClientZlib
  BY <1>2 DEF Codecs, PastAuth, AcceptedNow
<1>6. ~PastAuth(server) => ~c
  BY DEF Codecs, PastAuth
<1>7. codec' = [codec EXCEPT !.server = [compress |-> c, decompress |-> d]]
  BY DEF ServerCodec, ClientZlib, ServerZlib
<1> HIDE DEF c, d
<1>8. /\ codec' \in [client : Codec, server : Codec]
      /\ codec'.server.compress = c /\ codec'.server.decompress = d
      /\ codec'.client = codec.client
  BY <1>3, <1>7 DEF Codecs, Codec
<1>9. PastAuth(server)' <=> PastAuth(server')
  BY DEF PastAuth
<1>10. codec'.client.compress <=> client'.state = "Authenticated" /\ ClientZlib'
  BY <1>1, <1>8 DEF Codecs
<1>11. codec'.client.decompress <=> client'.state = "Authenticated" /\ ServerZlib'
  BY <1>1, <1>8 DEF Codecs
<1> QED BY <1>1, <1>3, <1>4, <1>5, <1>6, <1>8, <1>9, <1>10, <1>11 DEF Codecs, Bit

LEMMA ClientSwitches ==
    ASSUME AuthInvariant, NamesAgree, Codecs, ClientRead, UNCHANGED server,
           codec' = [codec EXCEPT !.client = ClientCodec(client, client')], UNCHANGED names
    PROVE  Codecs'
<1> DEFINE on == client.state # "Authenticated" /\ client'.state = "Authenticated"
           c  == IF on THEN ClientZlib ELSE codec.client.compress
           d  == IF on THEN ServerZlib ELSE codec.client.decompress
<1>1. (ClientZlib' <=> ClientZlib) /\ (ServerZlib' <=> ServerZlib)
  BY DEF ClientZlib, ServerZlib
<1>2. client.state = "Authenticated" => client'.state = "Authenticated"
  BY EntersOnce
<1>3. c \in BOOLEAN /\ d \in BOOLEAN
  BY ZlibOrNot DEF Codecs, Codec
<1>4. c <=> client'.state = "Authenticated" /\ ClientZlib
  BY <1>2 DEF Codecs
<1>5. d <=> client'.state = "Authenticated" /\ ServerZlib
  BY <1>2 DEF Codecs
<1>6. codec' = [codec EXCEPT !.client = [compress |-> c, decompress |-> d]]
  <2>1. codec.client = [compress   |-> codec.client.compress,
                        decompress |-> codec.client.decompress]
    BY DEF Codecs, Codec
  <2>2. ClientCodec(client, client') = [compress |-> c, decompress |-> d]
    BY <2>1 DEF ClientCodec, ClientZlib, ServerZlib, NamesAgree
  <2> QED BY <2>2
<1> HIDE DEF c, d
<1>7. /\ codec' \in [client : Codec, server : Codec]
      /\ codec'.client.compress = c /\ codec'.client.decompress = d
      /\ codec'.server = codec.server
  BY <1>3, <1>6 DEF Codecs, Codec
<1>8. PastAuth(server)' <=> PastAuth(server)
  BY DEF PastAuth
<1>9. codec'.server.compress <=> server'.state = "Authenticated" /\ ServerZlib'
  BY <1>1, <1>7 DEF Codecs
<1>10. codec'.server.decompress <=> PastAuth(server)' /\ ClientZlib'
  BY <1>1, <1>7, <1>8 DEF Codecs
<1> QED BY <1>1, <1>3, <1>4, <1>5, <1>7, <1>9, <1>10 DEF Codecs

-----------------------------------------------------------------------------
(* The bits of the packets. *)

LEMMA BitsGrown ==
    ASSUME NEW old \in Seq(Bit), NEW new \in Seq(Bit)
    PROVE  /\ old \o new \in Seq(Bit) /\ Len(old \o new) = Len(old) + Len(new)
           /\ \A i \in 1..Len(old) : (old \o new)[i] = old[i]
           /\ \A i \in 1..Len(new) : (old \o new)[Len(old) + i] = new[i]
<1>1. old \o new \in Seq(Bit) /\ Len(old \o new) = Len(old) + Len(new)
  BY Grown
<1>2. \A i \in 1..Len(old) : (old \o new)[i] = old[i]
  BY Grown
<1>3. \A i \in 1..Len(new) : (old \o new)[Len(old) + i] = new[i]
  BY Grown
<1> QED BY <1>1, <1>2, <1>3

(* The old bits, and the new one for every new packet. *)
Marked(bits, queue, out, old, on) ==
    /\ bits \in Seq(Bit) /\ Len(bits) = Len(queue \o out)
    /\ \A i \in 1..Len(queue) : bits[i] = old[i]
    /\ \A i \in 1..Len(out) : bits[Len(queue) + i] = on

LEMMA WrittenBits ==
    ASSUME NEW queue, NEW out, Len(queue) \in Nat, Len(out) \in Nat,
           Len(queue \o out) = Len(queue) + Len(out),
           NEW old \in Seq(Bit), Len(old) = Len(queue), NEW on \in Bit
    PROVE  Marked(Written(queue, queue \o out, old, on), queue, out, old, on)
<1> DEFINE new == [i \in 1..Len(out) |-> on]
<1>1. Len(queue \o out) - Len(queue) = Len(out)
  OBVIOUS
<1>2. Written(queue, queue \o out, old, on) = old \o new
  BY <1>1 DEF Written
<1>3. new \in Seq(Bit) /\ Len(new) = Len(out) /\ \A i \in 1..Len(out) : new[i] = on
  OBVIOUS
<1> HIDE DEF new
<1>4. /\ old \o new \in Seq(Bit) /\ Len(old \o new) = Len(old) + Len(new)
      /\ \A i \in 1..Len(old) : (old \o new)[i] = old[i]
      /\ \A i \in 1..Len(new) : (old \o new)[Len(old) + i] = new[i]
  BY <1>3, BitsGrown
<1> QED BY <1>2, <1>3, <1>4 DEF Marked

LEMMA WrittenRequests ==
    ASSUME NEW queue \in Seq(Request), NEW out \in Seq(Request), NEW old \in Seq(Bit),
           Len(old) = Len(queue), NEW on \in Bit
    PROVE  Marked(Written(queue, queue \o out, old, on), queue, out, old, on)
<1>1. /\ Len(queue) \in Nat /\ Len(out) \in Nat
      /\ Len(queue \o out) = Len(queue) + Len(out)
  BY Grown
<1> QED BY <1>1, WrittenBits

LEMMA WrittenAnswers ==
    ASSUME NEW queue \in Seq(Answer), NEW out \in Seq(Answer), NEW old \in Seq(Bit),
           Len(old) = Len(queue), NEW on \in Bit
    PROVE  Marked(Written(queue, queue \o out, old, on), queue, out, old, on)
<1>1. /\ Len(queue) \in Nat /\ Len(out) \in Nat
      /\ Len(queue \o out) = Len(queue) + Len(out)
  BY Grown
<1> QED BY <1>1, WrittenBits

LEMMA ServerBitsLeft ==
    ASSUME AuthInvariant, ServerBits, toServer # <<>>, toServer' = Tail(toServer),
           zipped'.toServer = Tail(zipped.toServer), UNCHANGED names
    PROVE  ServerBits'
<1>1. /\ toServer \in Seq(Request) /\ zipped.toServer \in Seq(Bit)
      /\ Len(zipped.toServer) = Len(toServer)
      /\ ClientZlib' <=> ClientZlib
  BY Typed DEF AuthInvariant, ServerBits, ClientZlib
<1>2. /\ Len(toServer) \in Nat /\ Len(toServer') = Len(toServer) - 1
      /\ \A i \in 1..(Len(toServer) - 1) : toServer'[i] = toServer[i + 1]
  BY <1>1, Removed
<1>3. zipped.toServer # <<>>
  BY <1>1, EmptySeq
<1>4. /\ zipped'.toServer \in Seq(Bit) /\ Len(zipped'.toServer) = Len(toServer) - 1
      /\ \A i \in 1..(Len(toServer) - 1) : zipped'.toServer[i] = zipped.toServer[i + 1]
  BY <1>1, <1>3, Removed
<1>5. ASSUME NEW i \in 1..Len(toServer')
      PROVE  zipped'.toServer[i] <=> toServer'[i].type = "CHANNEL_OPEN" /\ ClientZlib
  <2>1. i \in 1..(Len(toServer) - 1) /\ i + 1 \in 1..Len(toServer)
    BY <1>2
  <2>2. zipped.toServer[i + 1] <=> toServer[i + 1].type = "CHANNEL_OPEN" /\ ClientZlib
    BY <2>1 DEF ServerBits
  <2> QED BY <1>2, <1>4, <2>1, <2>2
<1> QED BY <1>1, <1>2, <1>4, <1>5 DEF ServerBits

LEMMA ClientBitsLeft ==
    ASSUME AuthInvariant, ClientBits, toClient # <<>>, toClient' = Tail(toClient),
           zipped'.toClient = Tail(zipped.toClient)
    PROVE  ClientBits'
<1>1. /\ toClient \in Seq(Answer) /\ zipped.toClient \in Seq(Bit)
      /\ Len(zipped.toClient) = Len(toClient)
  BY Typed DEF AuthInvariant, ClientBits
<1>2. Len(toClient) \in Nat /\ Len(toClient') = Len(toClient) - 1
  BY <1>1, Removed
<1>3. zipped.toClient # <<>>
  BY <1>1, EmptySeq
<1>4. /\ zipped'.toClient \in Seq(Bit) /\ Len(zipped'.toClient) = Len(toClient) - 1
      /\ \A i \in 1..(Len(toClient) - 1) : zipped'.toClient[i] = zipped.toClient[i + 1]
  BY <1>1, <1>3, Removed
<1>5. ASSUME NEW i \in 1..Len(toClient')
      PROVE  ~zipped'.toClient[i]
  <2>1. i \in 1..(Len(toClient) - 1) /\ i + 1 \in 1..Len(toClient)
    BY <1>2
  <2> QED BY <1>4, <2>1 DEF ClientBits
<1> QED BY <1>2, <1>4, <1>5 DEF ClientBits

LEMMA ServerBitsGrow ==
    ASSUME AuthInvariant, ServerBits, NEW out \in Seq(Request), toServer' = toServer \o out,
           NEW on \in Bit, UNCHANGED names,
           zipped'.toServer = Written(toServer, toServer', zipped.toServer, on),
           \A i \in 1..Len(out) : on <=> out[i].type = "CHANNEL_OPEN" /\ ClientZlib
    PROVE  ServerBits'
<1>1. /\ toServer \in Seq(Request) /\ zipped.toServer \in Seq(Bit)
      /\ Len(zipped.toServer) = Len(toServer)
      /\ ClientZlib' <=> ClientZlib
  BY Typed DEF AuthInvariant, ServerBits, ClientZlib
<1> DEFINE old == zipped.toServer
           new == Written(toServer, toServer \o out, old, on)
<1>2. /\ zipped'.toServer \in Seq(Bit) /\ Len(zipped'.toServer) = Len(toServer')
      /\ \A i \in 1..Len(toServer) : zipped'.toServer[i] = zipped.toServer[i]
      /\ \A i \in 1..Len(out) : zipped'.toServer[Len(toServer) + i] = on
  <2>1. zipped'.toServer = new
    OBVIOUS
  <2>2. old \in Seq(Bit) /\ Len(old) = Len(toServer)
    BY <1>1
  <2>3. /\ new \in Seq(Bit) /\ Len(new) = Len(toServer \o out)
        /\ \A i \in 1..Len(toServer) : new[i] = old[i]
        /\ \A i \in 1..Len(out) : new[Len(toServer) + i] = on
    <3> HIDE DEF old
    <3>1. Marked(new, toServer, out, old, on)
      BY <1>1, <2>2, WrittenRequests
    <3> HIDE DEF new
    <3> QED BY <3>1 DEF Marked
  <2> QED BY <2>1, <2>3
<1>3. ASSUME NEW i \in 1..Len(toServer')
      PROVE  zipped'.toServer[i] <=> toServer'[i].type = "CHANNEL_OPEN" /\ ClientZlib
  <2>1. CASE i \in 1..Len(toServer)
    <3>1. toServer'[i] = toServer[i]
      BY <1>1, <2>1, Grown
    <3> QED BY <1>2, <2>1, <3>1 DEF ServerBits
  <2>2. ASSUME NEW j \in 1..Len(out), i = Len(toServer) + j
        PROVE  zipped'.toServer[i] <=> toServer'[i].type = "CHANNEL_OPEN" /\ ClientZlib
    <3>1. toServer'[i] = out[j]
      BY <1>1, <2>2, Grown
    <3> QED BY <1>2, <2>2, <3>1
  <2>3. i \in 1..Len(toServer) \/ \E j \in 1..Len(out) : i = Len(toServer) + j
    BY <1>1, Grown
  <2> QED BY <2>1, <2>2, <2>3
<1> QED BY <1>1, <1>2, <1>3 DEF ServerBits

Off(on) == on = FALSE

LEMMA ClientBitsGrow ==
    ASSUME AuthInvariant, ClientBits, NEW out \in Seq(Answer), toClient' = toClient \o out,
           NEW on \in Bit, out # <<>> => Off(on),
           zipped'.toClient = Written(toClient, toClient', zipped.toClient, on)
    PROVE  ClientBits'
<1>1. /\ toClient \in Seq(Answer) /\ zipped.toClient \in Seq(Bit)
      /\ Len(zipped.toClient) = Len(toClient)
  BY Typed DEF AuthInvariant, ClientBits
<1> DEFINE old == zipped.toClient
           new == Written(toClient, toClient \o out, old, on)
<1>2. /\ zipped'.toClient \in Seq(Bit) /\ Len(zipped'.toClient) = Len(toClient')
      /\ \A i \in 1..Len(toClient) : zipped'.toClient[i] = zipped.toClient[i]
      /\ \A i \in 1..Len(out) : zipped'.toClient[Len(toClient) + i] = on
  <2>1. zipped'.toClient = new
    OBVIOUS
  <2>2. old \in Seq(Bit) /\ Len(old) = Len(toClient)
    BY <1>1
  <2>3. /\ new \in Seq(Bit) /\ Len(new) = Len(toClient \o out)
        /\ \A i \in 1..Len(toClient) : new[i] = old[i]
        /\ \A i \in 1..Len(out) : new[Len(toClient) + i] = on
    <3> HIDE DEF old
    <3>1. Marked(new, toClient, out, old, on)
      BY <1>1, <2>2, WrittenAnswers
    <3> HIDE DEF new
    <3> QED BY <3>1 DEF Marked
  <2> QED BY <2>1, <2>3
<1>3. ASSUME NEW i \in 1..Len(toClient')
      PROVE  ~zipped'.toClient[i]
  <2>1. CASE i \in 1..Len(toClient)
    BY <1>2, <2>1 DEF ClientBits
  <2>2. ASSUME NEW j \in 1..Len(out), i = Len(toClient) + j
        PROVE  ~zipped'.toClient[i]
    <3>1. on = FALSE
      BY <2>2, EmptySeq DEF Off
    <3> QED BY <1>2, <2>2, <3>1
  <2>3. i \in 1..Len(toClient) \/ \E j \in 1..Len(out) : i = Len(toClient) + j
    BY <1>1, Grown
  <2> QED BY <2>1, <2>2, <2>3
<1> QED BY <1>2, <1>3 DEF ClientBits

-----------------------------------------------------------------------------
(* Packets that are not read as they were written. *)

(* A server that is past authentication reads a packet of another kind only *)
(* from an application that has given up a call.                            *)
LEMMA OutOfStep ==
    ASSUME AuthInvariant, PastAuth(server), toServer # <<>>,
           Head(toServer).type # "CHANNEL_OPEN"
    PROVE  client.kind = "thrussh" /\ app.abandoned /\ ServiceTaken
<1>1. /\ IInv /\ CallInvariant /\ toServer \in Seq(Request) /\ granted.user # NoUser
      /\ client.kind = "thrussh" \/ client.kind = "external"
  BY Typed DEF AuthInvariant, Named
<1>2. ASSUME client.kind = "external" PROVE FALSE
  <2>1. Inside
    BY <1>1, <1>2 DEF IInv, ExternalInvariant, NotStarted, Started, Idle, Requested, Replied,
       Stranded, PastAuth
  <2> QED BY <1>1, <2>1, OnlyTail DEF Inside
<1>3. ServiceTaken
  BY <1>1, <1>2 DEF CallInvariant, Service, ServiceWanted, ServiceGiven, PastAuth
<1>4. ASSUME ~app.abandoned PROVE FALSE
  <2>1. OneCall
    BY <1>1, <1>2, <1>4 DEF CallInvariant
  <2>2. Head(toServer).type \in {"USERAUTH_REQUEST", "CHANNEL_OPEN"}
    BY <1>1, <1>3, OnlyTail DEF ServiceTaken
  <2>3. ~NoRequest
    BY <1>1, <2>2, OnlyTail DEF NoRequest
  <2>4. Asking \/ Broken
    BY <2>1, <2>3, QueuesStay DEF OneCall, Resting, Posted, Waiting, HasAnswer, SignAsked,
       Signed, Replying, Unanswered, Calm
  <2> QED BY <1>1, <2>3, <2>4 DEF Asking, Working, Broken, FewRequests
<1> QED BY <1>1, <1>2, <1>3, <1>4

(* The error of decompress. *)
LEMMA BreaksKeeps ==
    ASSUME AuthInvariant, PastAuth(server), toServer # <<>>,
           Head(toServer).type # "CHANNEL_OPEN",
           server' = [server EXCEPT !.status = "closed"], toServer' = Tail(toServer),
           UNCHANGED <<toClient, ClientSide, vouched, granted>>
    PROVE  AuthInvariant'
<1>1. /\ client.kind = "thrussh" /\ app.abandoned /\ ServiceTaken
      /\ IInv /\ CallInvariant /\ TypeOK /\ server \in Server /\ toServer \in Seq(Request)
  BY OutOfStep, Typed DEF AuthInvariant
<1>2. UNCHANGED <<client, app, mailbox, replies, toClient, vouched, granted>>
  BY DEF ClientSide
<1>3. /\ server' \in Server /\ server'.state = server.state
      /\ server'.current = server.current /\ server'.auth_user = server.auth_user
      /\ server'.status # "up"
  BY <1>1 DEF Server
<1>4. PastAuth(server)' <=> PastAuth(server)
  BY <1>3 DEF PastAuth
<1>5. SuccessSaid' <=> SuccessSaid
  BY <1>2 DEF SuccessSaid, Only
<1>6. IInv'
  <2>1. /\ Tail(toServer) \in Seq(Request) /\ Len(toServer) \in Nat
        /\ Len(Tail(toServer)) = Len(toServer) - 1
        /\ \A i \in 1..(Len(toServer) - 1) : Tail(toServer)[i] = toServer[i + 1]
    BY <1>1, Removed
  <2>2. TypeOK'
    BY <1>1, <1>2, <1>3, <2>1 DEF TypeOK
  <2>3. GrantedByVerdict' /\ PkVouched'
    BY <1>1, <1>2, <1>3 DEF IInv, GrantedByVerdict, PkVouched
  <2>4. /\ server.current # "KeyboardInteractive"
        /\ \A i \in 1..Len(toServer) : toServer[i].method # "keyboard-interactive"
    BY <1>1 DEF IInv, ThrusshInvariant
  <2>5. ASSUME NEW i \in 1..Len(toServer')
        PROVE  toServer'[i].method # "keyboard-interactive"
    <3>1. i \in 1..(Len(toServer) - 1) /\ i + 1 \in 1..Len(toServer)
      BY <2>1
    <3> QED BY <2>1, <2>4, <3>1
  <2>6. ThrusshInvariant'
    BY <1>3, <1>4, <2>4, <2>5 DEF ThrusshInvariant
  <2> QED BY <1>1, <1>2, <2>2, <2>3, <2>6 DEF IInv
<1>7. CallInvariant'
  <2>1. Mutual'
    BY <1>4 DEF Mutual
  <2>2. ServiceTaken'
    BY <1>1, <1>2, ServerReadsOne DEF ServiceTaken, Only
  <2> QED BY <1>1, <1>2, <2>1, <2>2 DEF CallInvariant, Service
<1>8. Named'
  BY <1>2, <1>3, <1>4, <1>5, RequestsLeft DEF AuthInvariant, Named
<1>9. SuccessLast' /\ OpensInside'
  BY <1>2, RequestsLeft DEF AuthInvariant, SuccessLast, OpensInside
<1> QED BY <1>6, <1>7, <1>8, <1>9 DEF AuthInvariant

LEMMA HeadBit ==
    ASSUME AuthInvariant, ServerBits, toServer # <<>>
    PROVE  /\ Head(zipped.toServer) \in BOOLEAN
           /\ Head(zipped.toServer) <=> Head(toServer).type = "CHANNEL_OPEN" /\ ClientZlib
<1>1. /\ toServer \in Seq(Request) /\ zipped.toServer \in Seq(Bit)
      /\ Len(zipped.toServer) = Len(toServer)
  BY Typed DEF AuthInvariant, ServerBits
<1>2. Len(toServer) \in Nat /\ Len(toServer) >= 1 /\ Head(toServer) = toServer[1]
  BY <1>1, Removed
<1>3. zipped.toServer # <<>>
  BY <1>1, EmptySeq
<1>4. Head(zipped.toServer) \in Bit /\ Head(zipped.toServer) = zipped.toServer[1]
  BY <1>1, <1>3, Removed
<1>5. 1 \in 1..Len(toServer)
  BY <1>2
<1>6. zipped.toServer[1] <=> toServer[1].type = "CHANNEL_OPEN" /\ ClientZlib
  BY <1>5 DEF ServerBits
<1> QED BY <1>2, <1>4, <1>6 DEF Bit

LEMMA ClientHeadBit ==
    ASSUME AuthInvariant, ClientBits, toClient # <<>>
    PROVE  Head(zipped.toClient) = FALSE
<1>1. /\ toClient \in Seq(Answer) /\ zipped.toClient \in Seq(Bit)
      /\ Len(zipped.toClient) = Len(toClient)
  BY Typed DEF AuthInvariant, ClientBits
<1>2. Len(toClient) \in Nat /\ Len(toClient) >= 1
  BY <1>1, Removed
<1>3. zipped.toClient # <<>>
  BY <1>1, EmptySeq
<1>4. Head(zipped.toClient) \in Bit /\ Head(zipped.toClient) = zipped.toClient[1]
  BY <1>1, <1>3, Removed
<1>5. 1 \in 1..Len(toClient)
  BY <1>2
<1>6. ~zipped.toClient[1]
  BY <1>5 DEF ClientBits
<1> QED BY <1>4, <1>6 DEF Bit

-----------------------------------------------------------------------------
(* The invariant holds. *)

LEMMA ZipServerKeeps ==
    ASSUME ZipInvariant, ServerReadsAsWritten
    PROVE  ZipInvariant'
<1>1. /\ AuthInvariant /\ NamesAgree /\ Codecs /\ ServerBits /\ ClientBits /\ ServerStep
      /\ codec' = [codec EXCEPT !.server = ServerCodec(server, server')]
      /\ zipped' = [toServer |-> Tail(zipped.toServer),
                    toClient |-> Written(toClient, toClient', zipped.toClient,
                                         codec'.server.compress)]
      /\ UNCHANGED names
  BY DEF ZipInvariant, Bits, ServerReadsAsWritten
<1>2. AuthInvariant' /\ NamesAgree'
  BY <1>1, ServerKeeps DEF NamesAgree
<1>3. /\ Codecs'
      /\ ~PastAuth(server) => ~codec'.server.compress
  BY <1>1, ServerSwitches
<1>4. codec'.server.compress \in Bit
  BY <1>1, ServerSwitches
<1>5. toServer # <<>> /\ toServer' = Tail(toServer)
  BY <1>1, ServerWrites
<1>6. PICK out \in Seq(Answer) :
         toClient' = toClient \o out /\ (out # <<>> => ~PastAuth(server))
  BY <1>1, ServerWrites
<1> DEFINE on == codec'.server.compress
<1>7. out # <<>> => Off(on)
  BY <1>3, <1>4, <1>6 DEF Off, Bit
<1>8. /\ zipped' = [toServer |-> zipped'.toServer, toClient |-> zipped'.toClient]
      /\ zipped'.toServer = Tail(zipped.toServer)
      /\ zipped'.toClient = Written(toClient, toClient', zipped.toClient, on)
  BY <1>1
<1> HIDE DEF on
<1>9. ServerBits'
  BY <1>1, <1>5, <1>8, ServerBitsLeft
<1>10. on \in Bit
  BY <1>4 DEF on
<1>11. ClientBits'
  BY <1>1, <1>6, <1>7, <1>8, <1>10, ClientBitsGrow
<1> QED BY <1>2, <1>3, <1>8, <1>9, <1>11 DEF ZipInvariant, Bits

(* What is left of the server's packets when one of them is dropped. *)
LEMMA DroppedBits ==
    ASSUME ZipInvariant, toServer # <<>>, toServer' = Tail(toServer), toClient' = toClient,
           zipped' = [zipped EXCEPT !.toServer = Tail(@)],
           UNCHANGED <<client, names, codec>>, server'.state = server.state
    PROVE  NamesAgree' /\ Codecs' /\ Bits'
<1>1. AuthInvariant /\ NamesAgree /\ Codecs /\ ServerBits /\ ClientBits /\ Bits
  BY DEF ZipInvariant, Bits
<1>2. /\ zipped' = [toServer |-> zipped'.toServer, toClient |-> zipped'.toClient]
      /\ zipped'.toServer = Tail(zipped.toServer)
      /\ zipped'.toClient = zipped.toClient
  BY <1>1 DEF Bits
<1>3. ServerBits'
  BY <1>1, <1>2, ServerBitsLeft
<1>4. ClientBits'
  BY <1>1, <1>2 DEF ClientBits
<1>5. PastAuth(server)' <=> PastAuth(server)
  BY DEF PastAuth
<1>6. Codecs'
  BY <1>1, <1>5 DEF Codecs, ClientZlib, ServerZlib
<1> QED BY <1>1, <1>2, <1>3, <1>4, <1>6 DEF Bits, NamesAgree

LEMMA ZipBreaksKeeps ==
    ASSUME ZipInvariant, ServerBreaks
    PROVE  ZipInvariant'
<1>1. /\ AuthInvariant /\ Codecs /\ ServerBits /\ server \in Server
      /\ toServer # <<>> /\ ~Head(zipped.toServer) /\ codec.server.decompress
      /\ server' = [server EXCEPT !.status = "closed"] /\ toServer' = Tail(toServer)
      /\ toClient' = toClient \o <<>>
      /\ zipped' = [zipped EXCEPT !.toServer = Tail(@)]
      /\ UNCHANGED <<ClientSide, vouched, granted, names, codec>>
  BY Typed DEF ZipInvariant, AuthInvariant, Bits, ServerBreaks, Answers
<1>2. toClient' = toClient
  BY <1>1, Typed, Kept DEF AuthInvariant
<1>3. PastAuth(server) /\ ClientZlib
  BY <1>1 DEF Codecs
<1>4. Head(toServer).type # "CHANNEL_OPEN"
  BY <1>1, <1>3, HeadBit
<1>5. AuthInvariant'
  BY <1>1, <1>2, <1>3, <1>4, BreaksKeeps
<1>6. server'.state = server.state
  BY <1>1 DEF Server
<1>7. NamesAgree' /\ Codecs' /\ Bits'
  BY <1>1, <1>2, <1>6, DroppedBits DEF ClientSide
<1> QED BY <1>5, <1>7 DEF ZipInvariant

LEMMA ZipIgnoresKeeps ==
    ASSUME ZipInvariant, ServerIgnoresZipped
    PROVE  ZipInvariant'
<1>1. /\ AuthInvariant /\ ServerBits /\ server.status = "up" /\ ~PastAuth(server)
      /\ toServer # <<>> /\ Head(zipped.toServer) /\ Answers(server, <<>>)
      /\ zipped' = [zipped EXCEPT !.toServer = Tail(@)]
      /\ UNCHANGED <<ClientSide, vouched, granted, names, codec>>
  BY DEF ZipInvariant, Bits, ServerIgnoresZipped
<1>2. Head(toServer).type = "CHANNEL_OPEN"
  BY <1>1, HeadBit
<1>3. ServerIgnores
  BY <1>1, <1>2 DEF ServerIgnores, Fits
<1>4. AuthInvariant'
  BY <1>1, <1>3, ServerKeeps DEF ServerStep
<1>5. server' = server /\ toServer' = Tail(toServer) /\ toClient' = toClient
  BY <1>1, Typed, Kept DEF Answers, AuthInvariant
<1>6. NamesAgree' /\ Codecs' /\ Bits'
  BY <1>1, <1>5, DroppedBits DEF ClientSide
<1> QED BY <1>4, <1>6 DEF ZipInvariant

LEMMA ZipClientKeeps ==
    ASSUME ZipInvariant, ClientReadsAsWritten
    PROVE  ZipInvariant'
<1>1. /\ AuthInvariant /\ NamesAgree /\ Codecs /\ ServerBits /\ ClientBits
      /\ ClientStep \/ ExternalReads \/ ExternalResponds
      /\ codec' = [codec EXCEPT !.client = ClientCodec(client, client')]
      /\ zipped' = [toServer |-> Written(toServer, toServer', zipped.toServer,
                                         codec.client.compress),
                    toClient |-> IF ClientKeeps THEN zipped.toClient
                                 ELSE Tail(zipped.toClient)]
      /\ UNCHANGED names
  BY DEF ZipInvariant, Bits, ClientReadsAsWritten
<1>2. AuthInvariant' /\ NamesAgree'
  BY <1>1, ClientTurnKeeps DEF NamesAgree
<1>3. ClientRead /\ ClientWritten /\ UNCHANGED server
  BY <1>1, ClientTurns DEF ClientTurn
<1>4. Codecs'
  BY <1>1, <1>3, ClientSwitches
<1> DEFINE on == codec.client.compress
<1>5. /\ zipped' = [toServer |-> zipped'.toServer, toClient |-> zipped'.toClient]
      /\ zipped'.toServer = Written(toServer, toServer', zipped.toServer, on)
      /\ toClient' = toClient => zipped'.toClient = zipped.toClient
      /\ toClient' # toClient => zipped'.toClient = Tail(zipped.toClient)
  BY <1>1 DEF ClientKeeps
<1>6. on \in Bit /\ (client.state # "Authenticated" => Off(on))
  BY <1>1 DEF Codecs, Codec, Bit, Off
<1> HIDE DEF on
<1>7. ServerBits'
  <2>1. PICK out \in Seq(Request) :
           /\ toServer' = toServer \o out
           /\ out # <<>> => client.state # "Authenticated"
           /\ \A i \in 1..Len(out) : Named1(out[i])
    BY <1>3 DEF ClientWritten
  <2>2. ASSUME NEW i \in 1..Len(out)
        PROVE  on <=> out[i].type = "CHANNEL_OPEN" /\ ClientZlib
    <3>1. out # <<>>
      BY EmptySeq
    <3>2. Off(on) /\ out[i].type # "CHANNEL_OPEN"
      BY <1>6, <2>1, <3>1 DEF Named1
    <3> QED BY <3>2 DEF Off
  <2> QED BY <1>1, <1>5, <1>6, <2>1, <2>2, ServerBitsGrow
<1>8. ClientBits'
  <2>1. CASE toClient' = toClient
    BY <1>1, <1>5, <2>1 DEF ClientBits
  <2>2. CASE toClient' # toClient
    <3>1. toClient # <<>> /\ toClient' = Tail(toClient)
      BY <1>3, <2>2 DEF ClientRead
    <3> QED BY <1>1, <1>5, <2>2, <3>1, ClientBitsLeft
  <2> QED BY <2>1, <2>2
<1> QED BY <1>2, <1>4, <1>5, <1>7, <1>8 DEF ZipInvariant, Bits

LEMMA ZipWritesKeeps ==
    ASSUME ZipInvariant, ClientWrites
    PROVE  ZipInvariant'
<1>1. /\ AuthInvariant /\ NamesAgree /\ Codecs /\ ServerBits /\ ClientBits /\ Bits
      /\ ClientOpens \/ ExternalRequest
      /\ zipped' = [zipped EXCEPT
            !.toServer = Written(toServer, toServer', @, codec.client.compress)]
      /\ UNCHANGED <<names, codec>>
  BY DEF ZipInvariant, Bits, ClientWrites
<1>2. /\ AuthInvariant' /\ toClient' = toClient /\ client'.state = client.state
      /\ UNCHANGED server
  BY <1>1, WritesKeeps
<1>3. PICK r \in Request :
         /\ toServer' = toServer \o <<r>>
         /\ r.type = "CHANNEL_OPEN" <=> client.state = "Authenticated"
  BY <1>1, WritesKeeps
<1> DEFINE on == codec.client.compress
<1>4. /\ zipped' = [toServer |-> zipped'.toServer, toClient |-> zipped'.toClient]
      /\ zipped'.toServer = Written(toServer, toServer', zipped.toServer, on)
      /\ zipped'.toClient = zipped.toClient
  BY <1>1 DEF Bits
<1>5. on \in Bit /\ (on <=> r.type = "CHANNEL_OPEN" /\ ClientZlib)
  BY <1>1, <1>3 DEF Codecs, Codec, Bit
<1> HIDE DEF on
<1>6. ServerBits'
  <2> DEFINE out == <<r>>
  <2>1. out \in Seq(Request) /\ \A i \in 1..Len(out) : out[i] = r
    OBVIOUS
  <2>2. toServer' = toServer \o out
    BY <1>3
  <2> HIDE DEF out
  <2>3. \A i \in 1..Len(out) : on <=> out[i].type = "CHANNEL_OPEN" /\ ClientZlib
    BY <1>5, <2>1
  <2> QED BY <1>1, <1>4, <1>5, <2>1, <2>2, <2>3, ServerBitsGrow
<1>7. ClientBits'
  BY <1>1, <1>2, <1>4 DEF ClientBits
<1>8. PastAuth(server)' <=> PastAuth(server)
  BY <1>2 DEF PastAuth
<1>9. Codecs' /\ NamesAgree'
  BY <1>1, <1>2, <1>8 DEF Codecs, ClientZlib, ServerZlib, NamesAgree
<1> QED BY <1>2, <1>4, <1>6, <1>7, <1>9 DEF ZipInvariant, Bits

LEMMA ZipStaysKeeps ==
    ASSUME ZipInvariant, Calls \/ Answered \/ UNCHANGED allVars
    PROVE  ZipInvariant'
<1>1. /\ UNCHANGED <<names, codec, zipped>>
      /\ AppAuthenticate \/ AppAnswers \/ AppDropsCall \/ UNCHANGED vars
  BY DEF Calls, Answered, allVars, codecVars
<1>2. AuthInvariant /\ NamesAgree /\ Codecs /\ Bits
  BY DEF ZipInvariant
<1>3. AuthInvariant' /\ UNCHANGED <<server, client, toServer, toClient>>
  BY <1>1, <1>2, QueuesStayKeeps
<1>4. PastAuth(server)' <=> PastAuth(server)
  BY <1>3 DEF PastAuth
<1>5. NamesAgree' /\ Codecs'
  BY <1>1, <1>2, <1>3, <1>4 DEF NamesAgree, Codecs, ClientZlib, ServerZlib
<1>6. Bits'
  BY <1>1, <1>2, <1>3 DEF Bits, ServerBits, ClientBits, ClientZlib
<1> QED BY <1>3, <1>5, <1>6 DEF ZipInvariant

LEMMA ZipStepKeeps ==
    ASSUME ZipInvariant, [ZipNext]_allVars
    PROVE  ZipInvariant'
BY ZipServerKeeps, ZipBreaksKeeps, ZipIgnoresKeeps, ZipClientKeeps, ZipWritesKeeps,
   ZipStaysKeeps DEF ZipNext, ServerSteps

-----------------------------------------------------------------------------
(* The choice of algorithms, and the theorems. *)

(* Select and read_kex: the client's list decides on both sides. *)
LEMMA SameChoice ==
    ASSUME NEW own, NEW read, DOMAIN own = DOMAIN read
    PROVE  ReadKex("client", own, read) = ReadKex("server", read, own)
BY DEF ReadKex, ClientSelect, ServerSelect

LEMMA NamesInit ==
    ASSUME ZipInit
    PROVE  NamesAgree
<1>1. PICK server_preferred \in Preferences,
           client_init \in (IF client.kind = "thrussh"
                            THEN {KexInit(preferred) : preferred \in Preferences}
                            ELSE KexInits) :
         names = [client |-> ReadKex("client", client_init, KexInit(server_preferred)),
                  server |-> ReadKex("server", KexInit(server_preferred), client_init)]
  BY DEF ZipInit
<1>2. \A one, other : DOMAIN KexInit(one) = DOMAIN KexInit(other)
  BY DEF KexInit
<1> DEFINE server_init == KexInit(server_preferred)
<1>3. DOMAIN client_init = DOMAIN server_init
  BY <1>2, CompressionAssumption
<1>4. names = [client |-> ReadKex("client", client_init, server_init),
               server |-> ReadKex("server", server_init, client_init)]
  BY <1>1
<1> HIDE DEF server_init
<1> QED BY <1>3, <1>4, SameChoice DEF NamesAgree

LEMMA ZipInitHolds ==
    ASSUME ZipInit
    PROVE  ZipInvariant
<1>1. /\ Init
      /\ codec = [client |-> [compress |-> FALSE, decompress |-> FALSE],
                  server |-> [compress |-> FALSE, decompress |-> FALSE]]
      /\ zipped = [toServer |-> <<FALSE>>, toClient |-> <<>>]
  BY DEF ZipInit
<1>2. IInv /\ CallInvariant
  BY <1>1, InitHolds, CallInit
<1>3. /\ server.state = "WaitingServiceRequest" /\ server.current = "None"
      /\ client.state = "WaitingServiceRequest" /\ client.auth_method = "None"
      /\ client.signing = FALSE
      /\ toServer = <<Plain("SERVICE_REQUEST")>> /\ toClient = <<>> /\ granted.user = NoUser
  BY <1>1 DEF Init
<1>4. /\ Len(toServer) = 1 /\ toServer[1].type = "SERVICE_REQUEST"
      /\ Len(toClient) = 0
  BY <1>3 DEF Plain
<1>5. ~SuccessSaid /\ ~PastAuth(server)
  BY <1>3, <1>4 DEF SuccessSaid, Only, PastAuth
<1>6. Named
  BY <1>3, <1>4, <1>5 DEF Named
<1>7. SuccessLast /\ OpensInside
  BY <1>3, <1>4 DEF SuccessLast, OpensInside
<1>8. Codecs
  BY <1>1, <1>3, <1>5 DEF Codecs, Codec
<1>9. ServerBits
  <2>1. zipped.toServer = <<FALSE>>
    BY <1>1
  <2>2. zipped.toServer \in Seq(Bit) /\ Len(zipped.toServer) = 1
    BY <2>1 DEF Bit
  <2>3. zipped.toServer[1] = FALSE
    BY <2>1
  <2> QED BY <1>4, <2>2, <2>3 DEF ServerBits
<1>10. ClientBits
  BY <1>1, <1>4 DEF ClientBits
<1> QED BY <1>1, <1>2, <1>6, <1>7, <1>8, <1>9, <1>10, NamesInit
        DEF ZipInvariant, AuthInvariant, Bits

LEMMA ZipAlways == ZipSpec => []ZipInvariant
<1>1. ZipInvariant /\ [ZipNext]_allVars => ZipInvariant'
  BY ZipStepKeeps
<1> QED BY ZipInitHolds, <1>1, PTL DEF ZipSpec

(* Whatever the two sides prefer or offer, they choose the same algorithms, *)
(* each for itself (Select, read_kex).                                      *)
THEOREM SameAlgorithms == ZipSpec => []NamesAgree
<1>1. ZipInvariant => NamesAgree
  BY DEF ZipInvariant
<1> QED BY ZipAlways, <1>1, PTL

(* Whatever is negotiated, tried, granted, given up or sent after           *)
(* USERAUTH_SUCCESS, in both directions the compressor and the decompressor *)
(* are switched on at the same packet (InitCompression, init_compress,      *)
(* init_decompress); the server alone may meet a packet of the other kind,  *)
(* of an application that has given up a call, or of a client whose         *)
(* USERAUTH_INFO_RESPONSE was granted.                                      *)
THEOREM ChangesOverTogether == ZipSpec => []ReadAsWritten
<1>1. ZipInvariant => ReadAsWritten
  <2> SUFFICES ASSUME ZipInvariant PROVE ReadAsWritten
    OBVIOUS
  <2>1. /\ AuthInvariant /\ Codecs /\ ServerBits /\ ClientBits /\ server \in Server
        /\ granted.user # NoUser => server.state # "WaitingServiceRequest"
        /\ SuccessSaid => granted.user # NoUser
    BY Typed DEF ZipInvariant, AuthInvariant, Bits, Named
  <2>2. toClient # <<>> => Head(zipped.toClient) = codec.client.decompress
    <3> SUFFICES ASSUME toClient # <<>>
                 PROVE  Head(zipped.toClient) = codec.client.decompress
      OBVIOUS
    <3>1. client.state # "Authenticated"
      BY <2>1 DEF AuthInvariant, SuccessLast
    <3>2. codec.client.decompress = FALSE
      BY <2>1, <3>1 DEF Codecs, Codec
    <3> QED BY <2>1, <3>2, ClientHeadBit
  <2>3. ASSUME toServer # <<>>, Head(zipped.toServer) # codec.server.decompress
        PROVE  \/ app.abandoned /\ PastAuth(server)
               \/ granted.user # NoUser /\ server.state = "WaitingAuthRequest"
    <3>1. /\ Head(zipped.toServer) \in BOOLEAN /\ codec.server.decompress \in BOOLEAN
          /\ Head(zipped.toServer) <=> Head(toServer).type = "CHANNEL_OPEN" /\ ClientZlib
          /\ codec.server.decompress <=> PastAuth(server) /\ ClientZlib
      BY <2>1, <2>3, HeadBit DEF Codecs, Codec
    <3>2. Head(toServer).type = "CHANNEL_OPEN" <=> ~PastAuth(server)
      <4>1. \A a, b \in BOOLEAN : a # b => (a <=> ~b)
        OBVIOUS
      <4>2. Head(zipped.toServer) <=> ~codec.server.decompress
        BY <2>3, <3>1, <4>1
      <4> QED BY <3>1, <4>2
    <3>3. CASE PastAuth(server)
      BY <2>1, <2>3, <3>2, <3>3, OutOfStep
    <3>4. CASE ~PastAuth(server)
      <4>1. toServer \in Seq(Request)
        BY <2>1, Typed DEF AuthInvariant
      <4>2. 1 \in 1..Len(toServer) /\ Head(toServer) = toServer[1]
        BY <4>1, <2>3, Removed
      <4>3. client.state = "Authenticated"
        BY <2>1, <3>2, <3>4, <4>2 DEF AuthInvariant, OpensInside
      <4>4. granted.user # NoUser
        BY <2>1, <4>3 DEF SuccessSaid
      <4> QED BY <2>1, <3>4, <4>4 DEF PastAuth, Server
    <3> QED BY <3>3, <3>4
  <2> QED BY <2>2, <2>3 DEF ReadAsWritten
<1> QED BY ZipAlways, <1>1, PTL

(* The keys: every step is one of Auth's, but for the error of decompress,  *)
(* after which nothing is signed that anybody reads.                        *)
LEMMA ZipKeyKeeps ==
    ASSUME ZipInvariant, KeyInvariant, [ZipNext]_allVars
    PROVE  KeyInvariant'
<1>1. IInv /\ AuthInvariant /\ ServerBits
  BY DEF ZipInvariant, AuthInvariant, Bits
<1>2. CASE ServerBreaks
  <2>1. /\ toServer # <<>> /\ server \in Server /\ toServer' = Tail(toServer)
        /\ server' = [server EXCEPT !.status = "closed"]
        /\ UNCHANGED <<ClientSide, vouched, granted>>
    BY <1>1, <1>2, Typed DEF ServerBreaks, Answers
  <2>2. /\ server'.status = "closed" /\ server'.state = server.state
        /\ server'.current = server.current
    BY <2>1 DEF Server
  <2>3. CASE client.kind = "thrussh"
    <3>1. NothingYet' /\ JudgedKey' /\ \A key : PkFor(key)'
      BY <2>1, <2>2, <2>3 DEF KeyInvariant, NothingYet, JudgedKey, PkFor
    <3> QED BY <1>1, <2>1, <2>3, <3>1, PacketTaken DEF ClientSide
  <2>4. CASE client.kind # "thrussh"
    BY <2>1, <2>4 DEF KeyInvariant, ClientSide
  <2> QED BY <2>3, <2>4
<1>3. CASE ServerIgnoresZipped
  <2>1. Head(toServer).type = "CHANNEL_OPEN"
    BY <1>1, <1>3, HeadBit DEF ServerIgnoresZipped
  <2>2. ServerIgnores
    BY <1>3, <2>1 DEF ServerIgnoresZipped, ServerIgnores, Fits
  <2> QED BY <1>1, <2>2, KeyStepKeeps DEF Next, ServerStep
<1>4. CASE \/ ServerReadsAsWritten \/ ClientReadsAsWritten \/ ClientWrites
           \/ Calls \/ Answered
  <2>1. Next
    BY <1>4 DEF ServerReadsAsWritten, ClientReadsAsWritten, ClientWrites, Calls, Answered, Next
  <2> QED BY <1>1, <2>1, KeyStepKeeps
<1>5. CASE UNCHANGED allVars
  BY <1>1, <1>5, KeyStepKeeps DEF allVars
<1> QED BY <1>2, <1>3, <1>4, <1>5 DEF ZipNext, ServerSteps

LEMMA ZipKeyAlways == ZipSpec => [](ZipInvariant /\ KeyInvariant)
<1>1. ZipInit => ZipInvariant /\ KeyInvariant
  BY ZipInitHolds, KeyInit DEF ZipInit
<1>2. /\ ZipInvariant /\ KeyInvariant /\ [ZipNext]_allVars
      => ZipInvariant' /\ KeyInvariant'
  BY ZipStepKeeps, ZipKeyKeeps
<1> QED BY <1>1, <1>2, PTL DEF ZipSpec

(* With compression, and a server that breaks down over it, authentication  *)
(* keeps what Auth promises, with the exceptions each property names: the   *)
(* user, and for a thrussh client the key, are those of the last verdict    *)
(* (server_read_auth_request_pk), true and false are those of the call      *)
(* (authenticate_password), and SUCCESS is mutual.                          *)
THEOREM StillAuthenticates ==
    ZipSpec => [](TypeOK /\ GrantedByVerdict /\ KeyWasJudged /\ SuccessIsMutual
                    /\ TrueIsOwnSuccess /\ FalseIsRefusal)
<1>1. ASSUME ZipInvariant, KeyInvariant
      PROVE  TypeOK /\ GrantedByVerdict /\ KeyWasJudged /\ SuccessIsMutual
                /\ TrueIsOwnSuccess /\ FalseIsRefusal
  BY <1>1, CallSeen DEF ZipInvariant, AuthInvariant, IInv, KeyInvariant, JudgedKey, KeyWasJudged
<1> QED BY ZipKeyAlways, <1>1, PTL

=============================================================================
