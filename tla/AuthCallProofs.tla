--------------------------- MODULE AuthCallProofs ---------------------------
(***************************************************************************)
(* Theorems about the calls of Auth's Handle: what true and false say of   *)
(* the user they were about, when client and server agree on SUCCESS, and  *)
(* that what a thrussh client signs with is the key the handler judged.    *)
(* The first rest on a second invariant, which follows the one call of the *)
(* application through the mailbox, the client, the two queues, the server *)
(* and the replies; the last on a third, about keys alone.                 *)
(***************************************************************************)
EXTENDS AuthProofs

-----------------------------------------------------------------------------
(* The inductive invariant. *)

Said == {"FAILURE", "SUCCESS", "PK_OK", "INFO_REQUEST"}

(* SUCCESS has been sent, and perhaps read. *)
SuccessSaid ==
    \/ client.state = "Authenticated"
    \/ ~Only(toClient, {"SERVICE_ACCEPT", "BANNER", "FAILURE", "PK_OK", "INFO_REQUEST"})

(* The SUCCESS that left the server where it was. *)
Stayed == server.current = "KeyboardInteractive" /\ granted.type = "INFO_RESPONSE"

Mutual == SuccessSaid => PastAuth(server) \/ Stayed

(* How far a thrussh client is with the service. *)
ServiceWanted ==
    /\ ~client.accepted /\ client.state = "WaitingServiceRequest"
    /\ server.state = "WaitingServiceRequest"
    /\ Len(toServer) = 1 /\ toServer[1].type = "SERVICE_REQUEST"
    /\ toClient = <<>>

ServiceGiven ==
    /\ ~client.accepted /\ client.state = "WaitingServiceRequest"
    /\ toServer = <<>>
    /\ toClient # <<>> /\ Head(toClient).type = "SERVICE_ACCEPT"
    /\ Only(Tail(toClient), {"BANNER"})

ServiceTaken ==
    /\ client.accepted
    /\ Only(toServer, {"USERAUTH_REQUEST", "CHANNEL_OPEN"})
    /\ Only(toClient, {"BANNER"} \cup Said)
    /\ client.state # "Authenticated" => Only(toServer, {"USERAUTH_REQUEST"})

Service == ServiceWanted \/ ServiceGiven \/ ServiceTaken

(* Where the one call of the application is, as long as it gives up none.   *)
NoRequest == Only(toServer, {"SERVICE_REQUEST", "INFO_RESPONSE", "CHANNEL_OPEN"})
NoAnswer == Only(toClient, {"SERVICE_ACCEPT", "BANNER"})
Calm == NoRequest /\ NoAnswer

(* The answer a is the last packet of the queue, behind banners. *)
EndsWith(seq, a) ==
    /\ seq # <<>> /\ seq[Len(seq)] = a
    /\ \A i \in 1..(Len(seq) - 1) : seq[i].type = "BANNER"

Calling == app.call # "None" /\ app.result = "none"

Working == Calling /\ Up /\ granted.user = NoUser /\ client.state # "Authenticated"

Resting ==
    /\ app.call = "None"
    /\ Calm /\ mailbox = <<>> /\ replies = <<>>
    /\ Up => ~client.signing
    /\ client.accepted \/ client.auth_method = "None"
    /\ client.state = "Authenticated" => app.result = "true"
    /\ granted.user = IF app.result = "true" THEN app.user ELSE NoUser

Posted ==
    /\ Working /\ ~client.signing
    /\ Calm /\ replies = <<>>
    /\ client.accepted \/ client.auth_method = "None"
    /\ Len(mailbox) = 1
    /\ mailbox[1].type = "Authenticate" /\ mailbox[1].user = app.user

Waiting ==
    /\ Working /\ ~client.signing
    /\ Calm /\ mailbox = <<>> /\ replies = <<>>
    /\ ~client.accepted /\ client.auth_method # "None" /\ client.auth_user = app.user

Asking ==
    /\ Working /\ ~client.signing
    /\ mailbox = <<>> /\ replies = <<>>
    /\ client.accepted /\ client.auth_user = app.user
    /\ NoAnswer
    /\ Len(toServer) = 1
    /\ toServer[1].type = "USERAUTH_REQUEST" /\ toServer[1].user = app.user

HasAnswer ==
    /\ Calling /\ Up /\ client.state # "Authenticated" /\ ~client.signing
    /\ mailbox = <<>> /\ replies = <<>>
    /\ client.accepted /\ client.auth_user = app.user
    /\ toServer = <<>>
    /\ \E a \in Answer :
          /\ a.type \in Said /\ EndsWith(toClient, a)
          /\ granted.user = IF a.type = "SUCCESS" THEN app.user ELSE NoUser

SignAsked ==
    /\ Working /\ client.signing
    /\ Calm /\ mailbox = <<>> /\ replies = <<"SignRequest">>
    /\ client.auth_user = app.user

Signed ==
    /\ Working /\ client.signing
    /\ Calm /\ replies = <<>>
    /\ client.auth_user = app.user
    /\ Len(mailbox) = 1 /\ mailbox[1].type = "Signed"

Replying ==
    /\ Calling /\ ~client.signing
    /\ client.accepted
    /\ Calm /\ mailbox = <<>>
    /\ \/ replies = <<"AuthSuccess">> /\ granted.user = app.user
       \/ /\ replies = <<"AuthFailure">> /\ granted.user = NoUser
          /\ client.state # "Authenticated"

(* No answer will come any more, or none that the session understands. *)
Unanswered ==
    /\ Calling /\ granted.user = NoUser /\ client.state # "Authenticated"
    /\ client.accepted
    /\ Calm /\ mailbox = <<>> /\ replies = <<>>

(* No request is left, or one alone and nobody is in. *)
FewRequests == NoRequest \/ (Len(toServer) = 1 /\ granted.user = NoUser)

Broken ==
    /\ client.status \in {"closed", "Inconsistent"}
    /\ replies = <<>> /\ app.result # "true"
    /\ FewRequests

OneCall ==
    \/ Resting \/ Posted \/ Waiting \/ Asking \/ HasAnswer \/ SignAsked \/ Signed
    \/ Replying \/ Unanswered \/ Broken

CallInvariant ==
    /\ Mutual
    /\ client.kind = "thrussh" => Service
    /\ client.kind = "thrussh" /\ ~app.abandoned => OneCall
    /\ client.kind = "external" => app.result = "none"

-----------------------------------------------------------------------------
(* Queues by the types of their packets. *)

LEMMA OnlyTail ==
    ASSUME NEW S, NEW seq \in Seq(S), seq # <<>>, NEW T, Only(seq, T)
    PROVE  Head(seq).type \in T /\ Only(Tail(seq), T)
<1>1. /\ Len(seq) \in Nat /\ Len(seq) >= 1 /\ Head(seq) = seq[1]
      /\ Len(Tail(seq)) = Len(seq) - 1
      /\ \A i \in 1..(Len(seq) - 1) : Tail(seq)[i] = seq[i + 1]
  BY Removed
<1> QED BY <1>1 DEF Only

LEMMA OnlyAdded ==
    ASSUME NEW S, NEW seq \in Seq(S), NEW e \in S, NEW T, Only(seq, T), e.type \in T
    PROVE  Only(seq \o <<e>>, T)
<1>1. /\ Len(seq) \in Nat /\ Len(seq \o <<e>>) = Len(seq) + 1
      /\ (seq \o <<e>>)[Len(seq) + 1] = e
      /\ \A i \in 1..Len(seq) : (seq \o <<e>>)[i] = seq[i]
  BY Added
<1> QED BY <1>1 DEF Only

LEMMA OnlyEmpty ==
    ASSUME NEW T
    PROVE  Only(<<>>, T)
BY DEF Only

LEMMA OnlySingle ==
    ASSUME NEW T, NEW e, e.type \in T
    PROVE  Only(<<e>>, T)
BY DEF Only

LEMMA OnlyBoth ==
    ASSUME NEW seq, NEW T, NEW U, Only(seq, T), Only(seq, U), NEW V, T \cap U \subseteq V
    PROVE  Only(seq, V)
BY DEF Only

LEMMA OnlyNothing ==
    ASSUME NEW S, NEW seq \in Seq(S), NEW T, NEW U, Only(seq, T), Only(seq, U),
           T \cap U = {}
    PROVE  seq = <<>>
<1>1. Len(seq) \in Nat
  OBVIOUS
<1>2. Len(seq) = 0
  <2>1. ASSUME Len(seq) # 0 PROVE FALSE
    <3>1. 1 \in 1..Len(seq)
      BY <1>1, <2>1
    <3>2. seq[1].type \in T \cap U
      BY <3>1 DEF Only
    <3> QED BY <3>2
  <2> QED BY <2>1
<1> QED BY <1>2, EmptySeq

LEMMA EndsAdded ==
    ASSUME NEW S, NEW seq \in Seq(S), NEW a \in S, Only(seq, {"BANNER"})
    PROVE  EndsWith(seq \o <<a>>, a)
<1>1. /\ Len(seq) \in Nat /\ Len(seq \o <<a>>) = Len(seq) + 1
      /\ seq \o <<a>> # <<>>
      /\ (seq \o <<a>>)[Len(seq) + 1] = a
      /\ \A i \in 1..Len(seq) : (seq \o <<a>>)[i] = seq[i]
  BY Added
<1> QED BY <1>1 DEF Only, EndsWith

LEMMA EndsRead ==
    ASSUME NEW S, NEW seq \in Seq(S), NEW a, EndsWith(seq, a)
    PROVE  \/ Head(seq) = a /\ Tail(seq) = <<>>
           \/ Head(seq).type = "BANNER" /\ EndsWith(Tail(seq), a)
<1>1. seq # <<>> /\ seq[Len(seq)] = a
      /\ \A i \in 1..(Len(seq) - 1) : seq[i].type = "BANNER"
  BY DEF EndsWith
<1>2. /\ Len(seq) \in Nat /\ Len(seq) >= 1 /\ Head(seq) = seq[1]
      /\ Len(Tail(seq)) = Len(seq) - 1
      /\ Len(seq) = 1 => Tail(seq) = <<>>
      /\ \A i \in 1..(Len(seq) - 1) : Tail(seq)[i] = seq[i + 1]
  BY <1>1, Removed
<1>3. CASE Len(seq) = 1
  BY <1>1, <1>2, <1>3
<1>4. CASE Len(seq) # 1
  <2>1. PICK n \in Nat : n = Len(seq) /\ n >= 2
    <3>1. \A n \in Nat : n >= 1 /\ n # 1 => n >= 2
      OBVIOUS
    <3> QED BY <1>2, <1>4, <3>1
  <2>2. Tail(seq) # <<>> /\ Tail(seq)[Len(Tail(seq))] = a
    <3>1. Len(Tail(seq)) = n - 1 /\ Tail(seq)[n - 1] = seq[(n - 1) + 1]
      BY <1>2, <2>1
    <3>2. (n - 1) + 1 = n /\ n - 1 # 0
      BY <2>1
    <3>3. Tail(seq)[Len(Tail(seq))] = a
      BY <1>1, <2>1, <3>1, <3>2
    <3>4. Tail(seq) # <<>>
      BY <3>1, <3>2, LenProperties
    <3> QED BY <3>3, <3>4
  <2>3. \A i \in 1..(Len(Tail(seq)) - 1) : Tail(seq)[i].type = "BANNER"
    BY <1>1, <1>2, <2>1
  <2>4. Head(seq).type = "BANNER"
    BY <1>1, <1>2, <2>1
  <2> QED BY <2>2, <2>3, <2>4 DEF EndsWith
<1> QED BY <1>3, <1>4

-----------------------------------------------------------------------------
(* What the steps have in common. *)

LEMMA Typed ==
    ASSUME IInv
    PROVE  /\ TypeOK /\ server \in Server /\ client \in Client /\ app \in App
           /\ mailbox \in Seq(Msg) /\ replies \in Seq(Reply)
           /\ toServer \in Seq(Request) /\ toClient \in Seq(Answer)
           /\ client.signing => client.state = "WaitingAuthRequest"
           /\ client.kind = "thrussh" \/ client.kind = "external"
BY OneKind DEF IInv, TypeOK

(* What a packet for the client, and one for the server, leaves in its queue. *)
LEMMA ClientReads ==
    ASSUME IInv, toClient # <<>>, toClient' = Tail(toClient)
    PROVE  /\ NoAnswer => NoAnswer' /\ Head(toClient).type \in {"SERVICE_ACCEPT", "BANNER"}
           /\ \A T : Only(toClient, T) => Only(toClient, T)' /\ Head(toClient).type \in T
           /\ Head(toClient) \in Answer
<1>1. toClient \in Seq(Answer)
  BY Typed
<1>2. ASSUME NEW T, Only(toClient, T)
      PROVE  Only(toClient, T)' /\ Head(toClient).type \in T
  <2>1. Only(Tail(toClient), T) /\ Head(toClient).type \in T
    BY <1>1, <1>2, OnlyTail
  <2> QED BY <2>1 DEF Only
<1>3. NoAnswer => NoAnswer' /\ Head(toClient).type \in {"SERVICE_ACCEPT", "BANNER"}
  BY <1>2 DEF NoAnswer
<1> QED BY <1>1, <1>2, <1>3, Removed

LEMMA ServerReadsOne ==
    ASSUME IInv, toServer # <<>>, toServer' = Tail(toServer)
    PROVE  /\ NoRequest => NoRequest' /\ Head(toServer).type # "USERAUTH_REQUEST"
           /\ \A T : Only(toServer, T) => Only(toServer, T)' /\ Head(toServer).type \in T
           /\ Head(toServer) = toServer[1]
           /\ Len(toServer) = 1 => toServer' = <<>>
<1>1. toServer \in Seq(Request)
  BY Typed
<1>2. ASSUME NEW T, Only(toServer, T)
      PROVE  Only(toServer, T)' /\ Head(toServer).type \in T
  <2>1. Only(Tail(toServer), T) /\ Head(toServer).type \in T
    BY <1>1, <1>2, OnlyTail
  <2> QED BY <2>1 DEF Only
<1>3. NoRequest => NoRequest' /\ Head(toServer).type # "USERAUTH_REQUEST"
  BY <1>2 DEF NoRequest
<1> QED BY <1>1, <1>2, <1>3, Removed

(* Queues that stay, or are empty. *)
LEMMA QueuesStay ==
    /\ UNCHANGED toServer => (NoRequest <=> NoRequest')
    /\ UNCHANGED toClient => (NoAnswer <=> NoAnswer')
    /\ toServer' = <<>> => NoRequest'
    /\ toClient' = <<>> => NoAnswer'
    /\ toServer = <<>> => NoRequest
    /\ toClient = <<>> => NoAnswer
BY DEF NoRequest, NoAnswer, Only

LEMMA AuthTurnAnswers ==
    ASSUME IInv, AuthTurn
    PROVE  /\ server.status = "up" /\ toServer # <<>> /\ toServer' = Tail(toServer)
           /\ UNCHANGED ClientSide
           /\ \/ toClient' = toClient /\ granted' = granted
              \/ \E a \in Answer :
                    /\ a.type \in Said /\ toClient' = toClient \o <<a>>
                    /\ a.type # "SUCCESS" => granted' = granted
                    /\ a.type = "SUCCESS" =>
                          /\ PastAuth(server)' \/ Stayed'
                          /\ Head(toServer).type = "USERAUTH_REQUEST" =>
                                granted'.user = Head(toServer).user
<1>1. PICK out \in Seq(Answer) : Handles(out)
  BY AuthTurnTyped, Typed
<1>2. /\ server.status = "up" /\ toServer # <<>> /\ toServer' = Tail(toServer)
      /\ UNCHANGED ClientSide
  BY <1>1 DEF Handles
<1>3. CASE Dies
  BY <1>2, <1>3, Typed, Kept DEF Dies, Handles
<1>4. CASE Replies
  <2>1. PICK a \in Answer : a.type \in {"FAILURE", "PK_OK", "INFO_REQUEST"} /\ Handles(<<a>>)
    BY <1>4 DEF Replies
  <2>2. a.type \in Said /\ a.type # "SUCCESS"
    BY <2>1 DEF Said
  <2>3. granted' = granted /\ toClient' = toClient \o <<a>>
    BY <1>4, <2>1 DEF Replies, Handles
  <2> QED BY <1>2, <2>2, <2>3
<1>5. CASE Enters
  <2>1. Says("SUCCESS") \in Answer /\ Says("SUCCESS").type = "SUCCESS"
    BY SaysTyped
  <2>2. toClient' = toClient \o <<Says("SUCCESS")>>
    BY <1>5 DEF Enters, Handles
  <2>3. PastAuth(server') => PastAuth(server)'
    BY DEF PastAuth
  <2>4. /\ PastAuth(server)' \/ Stayed'
        /\ Head(toServer).type = "USERAUTH_REQUEST" => granted'.user = Head(toServer).user
    BY <1>5, <2>3 DEF Enters, Stayed
  <2> QED BY <1>2, <2>1, <2>2, <2>4 DEF Said
<1> QED BY <1>3, <1>4, <1>5 DEF AuthTurn

(* A packet dropped, or for the connection layer. *)
LEMMA Dropped ==
    ASSUME IInv, ServerAuthenticated \/ ServerIgnores
    PROVE  /\ toServer # <<>> /\ toServer' = Tail(toServer) /\ toClient' = toClient
           /\ UNCHANGED <<ClientSide, vouched, granted>>
           /\ server'.current = server.current
           /\ PastAuth(server) => PastAuth(server)'
           /\ ~(server.state = "WaitingServiceRequest"
                  /\ Head(toServer).type = "SERVICE_REQUEST")
<1>1. /\ toServer # <<>> /\ toServer' = Tail(toServer) /\ toClient' = toClient \o <<>>
      /\ UNCHANGED <<ClientSide, vouched, granted>>
      /\ \/ server' = [server EXCEPT !.state = "Authenticated"] /\ PastAuth(server)
         \/ server' = server /\ ~PastAuth(server) /\ ~Fits(server, Head(toServer).type)
  BY DEF ServerAuthenticated, ServerIgnores, Answers
<1>2. toClient' = toClient
  BY <1>1, Typed, Kept
<1>3. server'.current = server.current /\ (PastAuth(server) => PastAuth(server)')
  BY <1>1, Typed DEF PastAuth, Server
<1>4. ~(server.state = "WaitingServiceRequest" /\ Head(toServer).type = "SERVICE_REQUEST")
  BY <1>1 DEF PastAuth, Fits
<1> QED BY <1>1, <1>2, <1>3, <1>4

LEMMA ServiceAnswered ==
    ASSUME IInv, ServerAcceptService
    PROVE  /\ toServer # <<>> /\ toServer' = Tail(toServer)
           /\ Head(toServer).type = "SERVICE_REQUEST"
           /\ server.state = "WaitingServiceRequest"
           /\ server'.current = server.current
           /\ UNCHANGED <<ClientSide, vouched, granted>>
           /\ \/ toClient' = toClient \o <<Says("SERVICE_ACCEPT")>>
              \/ toClient' = toClient \o (<<Says("SERVICE_ACCEPT")>> \o <<Says("BANNER")>>)
<1>1. /\ toServer # <<>> /\ toServer' = Tail(toServer)
      /\ Head(toServer).type = "SERVICE_REQUEST"
      /\ server.state = "WaitingServiceRequest"
      /\ server' = [server EXCEPT !.state = "WaitingAuthRequest"]
      /\ UNCHANGED <<ClientSide, vouched, granted>>
      /\ toClient' = toClient \o (<<Says("SERVICE_ACCEPT")>> \o
                                    IF server.banner THEN <<Says("BANNER")>> ELSE <<>>)
  BY DEF ServerAcceptService, ServerReads, Answers
<1>2. server'.current = server.current
  BY <1>1, Typed DEF Server
<1>3. <<Says("SERVICE_ACCEPT")>> \o <<>> = <<Says("SERVICE_ACCEPT")>>
  <2>1. Says("SERVICE_ACCEPT") \in Answer
    BY SaysTyped
  <2>2. <<Says("SERVICE_ACCEPT")>> \in Seq(Answer)
    BY <2>1
  <2> QED BY <2>2, Kept
<1> QED BY <1>1, <1>2, <1>3

-----------------------------------------------------------------------------
(* Client and server agree on SUCCESS. *)

LEMMA ServerMutual ==
    ASSUME IInv, Mutual, ServerStep
    PROVE  Mutual'
<1> DEFINE quiet == {"SERVICE_ACCEPT", "BANNER", "FAILURE", "PK_OK", "INFO_REQUEST"}
<1>1. CASE AuthTurn
  <2>1. ~SuccessSaid
    <3>1. server.state = "WaitingAuthRequest"
      BY <1>1 DEF AuthTurn
    <3>2. CASE client.kind = "thrussh"
      BY <3>1, <3>2 DEF IInv, ThrusshInvariant, Mutual, Stayed, PastAuth
    <3>3. CASE client.kind = "external"
      <4>1. client.state = "WaitingAuthRequest" /\ Only(toClient, {"BANNER"})
        BY <1>1, <3>3, NobodyInside DEF Requested
      <4>2. Only(toClient, quiet)
        BY <4>1, OnlyBoth
      <4> QED BY <4>1, <4>2 DEF SuccessSaid
    <3> QED BY <3>2, <3>3, Typed
  <2>2. client'.state # "Authenticated" /\ Only(toClient, quiet)
    BY <1>1, <2>1, AuthTurnAnswers DEF SuccessSaid, ClientSide
  <2>3. CASE toClient' = toClient
    <3>1. ~SuccessSaid'
      BY <2>2, <2>3 DEF SuccessSaid, Only
    <3> QED BY <3>1 DEF Mutual
  <2>4. CASE \E a \in Answer :
                /\ a.type \in Said /\ toClient' = toClient \o <<a>>
                /\ a.type = "SUCCESS" =>
                      PastAuth(server)' \/ Stayed'
    <3>1. PICK a \in Answer : /\ a.type \in Said /\ toClient' = toClient \o <<a>>
                              /\ a.type = "SUCCESS" =>
                                    PastAuth(server)' \/ Stayed'
      BY <2>4
    <3>2. CASE a.type = "SUCCESS"
      BY <3>1, <3>2 DEF Mutual
    <3>3. CASE a.type # "SUCCESS"
      <4>1. Only(toClient', quiet)
        BY <2>2, <3>1, <3>3, Typed, OnlyAdded DEF Said
      <4>2. ~SuccessSaid'
        BY <2>2, <4>1 DEF SuccessSaid, Only
      <4> QED BY <4>2 DEF Mutual
    <3> QED BY <3>2, <3>3
  <2> QED BY <1>1, <2>3, <2>4, AuthTurnAnswers
<1>2. CASE ServerAuthenticated \/ ServerIgnores
  <2>1. SuccessSaid' <=> SuccessSaid
    BY <1>2, Dropped DEF SuccessSaid, Only, ClientSide
  <2> QED BY <1>2, <2>1, Dropped DEF Mutual, Stayed
<1>3. CASE ServerAcceptService
  <2>1. CASE Stayed
    BY <1>3, <2>1, ServiceAnswered DEF Mutual, Stayed
  <2>2. CASE ~Stayed
    <3>1. ~SuccessSaid
      BY <1>3, <2>2, ServiceAnswered DEF Mutual, Stayed, PastAuth
    <3>2. Only(toClient, quiet) /\ client'.state # "Authenticated"
      BY <1>3, <3>1, ServiceAnswered DEF SuccessSaid, ClientSide
    <3>3. /\ Says("SERVICE_ACCEPT") \in Answer /\ Says("SERVICE_ACCEPT").type \in quiet
          /\ Says("BANNER") \in Answer /\ Says("BANNER").type \in quiet
      BY SaysTyped
    <3>4. /\ toClient \o <<Says("SERVICE_ACCEPT")>> \in Seq(Answer)
          /\ Only(toClient \o <<Says("SERVICE_ACCEPT")>>, quiet)
      BY <3>2, <3>3, Typed, Added, OnlyAdded
    <3>5. Only((toClient \o <<Says("SERVICE_ACCEPT")>>) \o <<Says("BANNER")>>, quiet)
      BY <3>3, <3>4, OnlyAdded
    <3>6. toClient \o (<<Says("SERVICE_ACCEPT")>> \o <<Says("BANNER")>>)
            = (toClient \o <<Says("SERVICE_ACCEPT")>>) \o <<Says("BANNER")>>
      <4>1. <<Says("SERVICE_ACCEPT")>> \in Seq(Answer) /\ <<Says("BANNER")>> \in Seq(Answer)
        BY <3>3
      <4> QED BY <4>1, Typed, ConcatAssociative
    <3>7. Only(toClient', quiet)
      BY <1>3, <3>4, <3>5, <3>6, ServiceAnswered
    <3>8. ~SuccessSaid'
      BY <3>2, <3>7 DEF SuccessSaid, Only
    <3> QED BY <3>8 DEF Mutual
  <2> QED BY <2>1, <2>2
<1>4. TypeOK /\ PkVouched
  BY DEF IInv
<1> QED BY <1>1, <1>2, <1>3, <1>4, AuthTurns DEF ServerStep

(* The client is inside when it has read SUCCESS, and not before. *)
LEMMA ClientMutual ==
    ASSUME IInv, Mutual, UNCHANGED <<server, granted>>,
           toClient' = toClient \/ (toClient # <<>> /\ toClient' = Tail(toClient)),
           client'.state = "Authenticated" =>
              \/ client.state = "Authenticated"
              \/ toClient # <<>> /\ Head(toClient).type = "SUCCESS"
    PROVE  Mutual'
<1> DEFINE quiet == {"SERVICE_ACCEPT", "BANNER", "FAILURE", "PK_OK", "INFO_REQUEST"}
<1>1. ASSUME ~SuccessSaid PROVE ~SuccessSaid'
  <2>1. client.state # "Authenticated" /\ Only(toClient, quiet)
    BY <1>1 DEF SuccessSaid
  <2>2. toClient # <<>> => Head(toClient).type \in quiet
    BY <2>1, Typed, OnlyTail
  <2>3. client'.state # "Authenticated"
    BY <2>1, <2>2
  <2>4. Only(toClient, quiet)'
    <3>1. CASE toClient' = toClient
      BY <2>1, <3>1 DEF Only
    <3>2. CASE toClient # <<>> /\ toClient' = Tail(toClient)
      BY <2>1, <3>2, ClientReads
    <3> QED BY <3>1, <3>2
  <2> QED BY <2>3, <2>4 DEF SuccessSaid
<1>2. PastAuth(server) => PastAuth(server)'
  BY DEF PastAuth
<1> QED BY <1>1, <1>2 DEF Mutual, Stayed

LEMMA OthersMutual ==
    ASSUME IInv, Mutual,
           \/ ClientStep \/ AppAuthenticate \/ AppAnswers \/ AppDropsCall \/ ClientOpens
           \/ ExternalRequest \/ ExternalReads \/ ExternalResponds
    PROVE  Mutual'
<1>1. client \in Client
  BY Typed
<1>2. CASE ClientServiceAccepted \/ ClientBanner \/ ClientInconsistent \/ ClientRefused
             \/ ClientPkOk
  <2>1. /\ UNCHANGED <<server, granted>> /\ toClient # <<>> /\ toClient' = Tail(toClient)
    BY <1>2 DEF ClientServiceAccepted, ClientBanner, ClientInconsistent, ClientRefused,
       ClientPkOk, Thrussh, Takes, Handled, ServerSide
  <2>2. client'.state = "Authenticated" => client.state = "Authenticated"
    BY <1>1, <1>2 DEF ClientServiceAccepted, ClientBanner, ClientInconsistent, ClientRefused,
       ClientPkOk, Handled, Taken, Client
  <2> QED BY <2>1, <2>2, ClientMutual
<1>3. CASE ClientSuccess \/ ExternalReads
  <2>1. /\ UNCHANGED <<server, granted>> /\ toClient # <<>> /\ toClient' = Tail(toClient)
    BY <1>3 DEF ClientSuccess, ExternalReads, Thrussh, Takes, Handled, ServerSide
  <2>2. client'.state = "Authenticated" =>
           client.state = "Authenticated" \/ Head(toClient).type = "SUCCESS"
    BY <1>1, <1>3 DEF ClientSuccess, ExternalReads, Thrussh, Takes, Handled, Client
  <2> QED BY <2>1, <2>2, ClientMutual
<1>4. CASE ClientWaitsForSigned \/ ClientAuthenticate \/ ClientHangup \/ ClientOpens
             \/ ExternalRequest \/ ExternalResponds
  <2>1. UNCHANGED <<server, granted>>
    BY <1>4 DEF ClientWaitsForSigned, ClientAuthenticate, ClientHangup, ClientOpens,
       ExternalRequest, ExternalResponds, ServerSide
  <2>2. toClient' = toClient \/ (toClient # <<>> /\ toClient' = Tail(toClient))
    BY <1>4 DEF ClientWaitsForSigned, ClientAuthenticate, ClientHangup, ClientOpens,
       ExternalRequest, ExternalResponds, Takes
  <2>3. client'.state = "Authenticated" => client.state = "Authenticated"
    BY <1>1, <1>4 DEF ClientWaitsForSigned, ClientAuthenticate, ClientHangup, ClientOpens,
       ExternalRequest, ExternalResponds, Stored, Client
  <2> QED BY <2>1, <2>2, <2>3, ClientMutual
<1>5. CASE AppAuthenticate \/ AppAnswers \/ AppDropsCall
  <2>1. UNCHANGED <<server, granted, client, toClient>>
    BY <1>5 DEF AppAuthenticate, AppAnswers, AppReply, AppSigns, AppSessionGone, AppDropsCall,
       ServerSide, SessionSide
  <2> QED BY <2>1, ClientMutual
<1> QED BY <1>2, <1>3, <1>4, <1>5 DEF ClientStep

-----------------------------------------------------------------------------
(* The service request and its answer. *)

(* A step that leaves the queues and how far the client is. *)
LEMMA ServiceStays ==
    ASSUME Service, UNCHANGED <<server, toServer, toClient>>,
           client'.accepted = client.accepted, client'.state = client.state
    PROVE  Service'
BY DEF Service, ServiceWanted, ServiceGiven, ServiceTaken, Only

(* A client that has been accepted reads a packet, and may ask. *)
LEMMA TakenStays ==
    ASSUME IInv, ServiceTaken, client'.accepted,
           client'.state # "Authenticated" => client.state # "Authenticated",
           toClient' = toClient \/ (toClient # <<>> /\ toClient' = Tail(toClient)),
           \/ toServer' = toServer
           \/ \E r \in Request : /\ r.type = "USERAUTH_REQUEST"
                                 /\ toServer' = toServer \o <<r>>
    PROVE  ServiceTaken'
<1> DEFINE requests == {"USERAUTH_REQUEST", "CHANNEL_OPEN"}
           answers == {"BANNER"} \cup Said
<1>1. Only(toClient, answers)'
  <2>1. Only(toClient, answers)
    BY DEF ServiceTaken
  <2>2. CASE toClient' = toClient
    BY <2>1, <2>2 DEF Only
  <2>3. CASE toClient # <<>> /\ toClient' = Tail(toClient)
    BY <2>1, <2>3, ClientReads
  <2> QED BY <2>2, <2>3
<1>2. ASSUME NEW T, "USERAUTH_REQUEST" \in T, Only(toServer, T)
      PROVE  Only(toServer, T)'
  <2>1. CASE toServer' = toServer
    BY <1>2, <2>1 DEF Only
  <2>2. CASE \E r \in Request : r.type = "USERAUTH_REQUEST" /\ toServer' = toServer \o <<r>>
    <3>1. Only(toServer', T)
      BY <1>2, <2>2, Typed, OnlyAdded
    <3> QED BY <3>1 DEF Only
  <2> QED BY <2>1, <2>2
<1>3. Only(toServer, requests)'
  BY <1>2 DEF ServiceTaken
<1>4. client'.state # "Authenticated" => Only(toServer, {"USERAUTH_REQUEST"})'
  BY <1>2 DEF ServiceTaken
<1> QED BY <1>1, <1>3, <1>4 DEF ServiceTaken, Only

(* A thrussh client past WaitingServiceRequest has been accepted, and so    *)
(* has one that reads anything but SERVICE_ACCEPT.                          *)
LEMMA IsTaken ==
    ASSUME Service,
           \/ client.state # "WaitingServiceRequest"
           \/ client.accepted
           \/ toClient # <<>> /\ Head(toClient).type # "SERVICE_ACCEPT"
    PROVE  ServiceTaken
BY DEF Service, ServiceWanted, ServiceGiven

LEMMA ServerService ==
    ASSUME IInv, Service, ServerStep
    PROVE  Service'
<1>1. CASE AuthTurn
  <2>1. ServiceTaken
    BY <1>1, AuthTurnAnswers DEF AuthTurn, Service, ServiceWanted, ServiceGiven
  <2>2. client' = client /\ toServer # <<>> /\ toServer' = Tail(toServer)
    BY <1>1, AuthTurnAnswers DEF ClientSide
  <2>3. /\ Only(toServer, {"USERAUTH_REQUEST", "CHANNEL_OPEN"})'
        /\ client'.state # "Authenticated" => Only(toServer, {"USERAUTH_REQUEST"})'
    BY <2>1, <2>2, ServerReadsOne DEF ServiceTaken
  <2>4. Only(toClient, {"BANNER"} \cup Said)
    BY <2>1 DEF ServiceTaken
  <2>5. Only(toClient', {"BANNER"} \cup Said)
    <3>1. CASE toClient' = toClient
      BY <2>4, <3>1
    <3>2. CASE \E a \in Answer : a.type \in Said /\ toClient' = toClient \o <<a>>
      BY <2>4, <3>2, Typed, OnlyAdded
    <3> QED BY <1>1, <3>1, <3>2, AuthTurnAnswers
  <2>6. ServiceTaken'
    BY <2>1, <2>2, <2>3, <2>5 DEF ServiceTaken, Only
  <2> QED BY <2>6 DEF Service
<1>2. CASE ServerAuthenticated \/ ServerIgnores
  <2>1. /\ toServer # <<>> /\ toServer' = Tail(toServer) /\ toClient' = toClient
        /\ client' = client
    BY <1>2, Dropped DEF ClientSide
  <2>2. ServiceTaken
    <3>1. ~ServiceWanted
      BY <1>2, <2>1, Dropped, ServerReadsOne DEF ServiceWanted
    <3> QED BY <2>1, <3>1 DEF Service, ServiceGiven
  <2>3. /\ Only(toServer, {"USERAUTH_REQUEST", "CHANNEL_OPEN"})'
        /\ client'.state # "Authenticated" => Only(toServer, {"USERAUTH_REQUEST"})'
    BY <2>1, <2>2, ServerReadsOne DEF ServiceTaken
  <2>4. ServiceTaken'
    BY <2>1, <2>2, <2>3 DEF ServiceTaken, Only
  <2> QED BY <2>4 DEF Service
<1>3. CASE ServerAcceptService
  <2>1. ServiceWanted
    <3>1. toServer # <<>> /\ Head(toServer).type = "SERVICE_REQUEST" /\ toServer' = Tail(toServer)
      BY <1>3, ServiceAnswered
    <3>2. ~ServiceTaken
      BY <3>1, ServerReadsOne DEF ServiceTaken
    <3> QED BY <3>1, <3>2 DEF Service, ServiceGiven
  <2>2. toServer' = <<>> /\ client' = client
    BY <1>3, <2>1, ServiceAnswered, ServerReadsOne DEF ServiceWanted, ClientSide
  <2>3. /\ Says("SERVICE_ACCEPT") \in Answer /\ Says("SERVICE_ACCEPT").type = "SERVICE_ACCEPT"
        /\ Says("BANNER") \in Answer /\ Says("BANNER").type = "BANNER"
    BY SaysTyped
  <2> DEFINE first == <<Says("SERVICE_ACCEPT")>>
             both  == first \o <<Says("BANNER")>>
  <2>4. /\ first \in Seq(Answer) /\ first # <<>> /\ Head(first).type = "SERVICE_ACCEPT"
        /\ Tail(first) = <<>>
    BY <2>3
  <2>5. /\ both \in Seq(Answer) /\ both # <<>> /\ Len(both) = 2 /\ both[1] = Says("SERVICE_ACCEPT")
        /\ both[2] = Says("BANNER")
    <3>1. Len(first) = 1 /\ first[1] = Says("SERVICE_ACCEPT")
      OBVIOUS
    <3> HIDE DEF first
    <3> QED BY <2>3, <2>4, <3>1, Added
  <2> HIDE DEF first, both
  <2>6. /\ Head(both).type = "SERVICE_ACCEPT" /\ Only(Tail(both), {"BANNER"})
    <3>1. /\ Head(both) = both[1] /\ Len(Tail(both)) = Len(both) - 1
          /\ \A i \in 1..(Len(both) - 1) : Tail(both)[i] = both[i + 1]
      BY <2>5, Removed
    <3>2. 2 - 1 = 1 /\ 1 + 1 = 2 /\ 1 \in 1..1
      OBVIOUS
    <3>3. Len(Tail(both)) = 1 /\ Tail(both)[1] = both[2]
      BY <2>5, <3>1, <3>2
    <3>4. Tail(both)[1].type = "BANNER"
      BY <2>3, <2>5, <3>3
    <3>5. \A i \in 1..1 : i = 1
      OBVIOUS
    <3>6. \A i \in 1..Len(Tail(both)) : Tail(both)[i].type \in {"BANNER"}
      BY <3>3, <3>4, <3>5, Zenon
    <3>7. Head(both).type = "SERVICE_ACCEPT"
      BY <2>3, <2>5, <3>1
    <3> QED BY <3>6, <3>7 DEF Only
  <2>7. Only(Tail(first), {"BANNER"})
    BY <2>4, OnlyEmpty
  <2>8. toClient' = first \/ toClient' = both
    <3>1. toClient' = <<>> \o first \/ toClient' = <<>> \o both
      BY <1>3, <2>1, ServiceAnswered DEF ServiceWanted, first, both
    <3> QED BY <2>4, <2>5, <3>1, ConcatEmptySeq
  <2>9. /\ toClient' # <<>> /\ Head(toClient').type = "SERVICE_ACCEPT"
        /\ Only(Tail(toClient'), {"BANNER"})
    BY <2>4, <2>5, <2>6, <2>7, <2>8
  <2>10. ServiceGiven'
    BY <2>1, <2>2, <2>9 DEF ServiceGiven, ServiceWanted, Only
  <2> QED BY <2>10 DEF Service
<1>4. TypeOK /\ PkVouched
  BY DEF IInv
<1> QED BY <1>1, <1>2, <1>3, <1>4, AuthTurns DEF ServerStep

LEMMA OthersService ==
    ASSUME IInv, client.kind = "thrussh", Service,
           \/ ClientStep \/ AppAuthenticate \/ AppAnswers \/ AppDropsCall \/ ClientOpens
    PROVE  Service'
<1>1. client \in Client /\ (client.signing => client.state = "WaitingAuthRequest")
  BY Typed
<1>2. ASSUME NEW user \in Name, NEW key \in Key, NEW valid \in BOOLEAN,
             NEW method \in {"password", "probe", "signed"}
      PROVE  /\ AuthRequest(method, user, key, valid) \in Request
             /\ AuthRequest(method, user, key, valid).type = "USERAUTH_REQUEST"
  BY DEF AuthRequest, Request
<1>3. ASSUME NEW user \in Name, NEW key \in Key, NEW method
      PROVE  /\ WriteAuthRequest(user, method, key) \in Request
             /\ WriteAuthRequest(user, method, key).type = "USERAUTH_REQUEST"
  BY <1>2 DEF WriteAuthRequest
<1>4. toServer \o <<>> = toServer
  BY Typed, Kept
<1>5. CASE ClientServiceAccepted
  <2> DEFINE r == WriteAuthRequest(client.auth_user, client.auth_method, client.key)
  <2>1. /\ toClient # <<>> /\ Head(toClient).type = "SERVICE_ACCEPT"
        /\ toClient' = Tail(toClient) /\ client'.accepted
    BY <1>1, <1>5 DEF ClientServiceAccepted, Thrussh, Takes, Handled, Client
  <2>2. ServiceGiven
    BY <2>1, ClientReads DEF Service, ServiceWanted, ServiceTaken, Said
  <2>3. toServer' = <<>> \/ toServer' = toServer \o <<r>>
    <3>1. /\ [client EXCEPT !.accepted = TRUE].auth_user = client.auth_user
          /\ [client EXCEPT !.accepted = TRUE].auth_method = client.auth_method
          /\ [client EXCEPT !.accepted = TRUE].key = client.key
      BY <1>1 DEF Client
    <3> QED BY <1>4, <1>5, <2>2, <3>1 DEF ClientServiceAccepted, Handled, ServiceGiven
  <2>4. r \in Request /\ r.type = "USERAUTH_REQUEST"
    BY <1>1, <1>3 DEF Client
  <2> HIDE DEF r
  <2>5. ASSUME NEW T, "USERAUTH_REQUEST" \in T
        PROVE  Only(toServer', T)
    <3>1. Only(toServer, T) /\ Only(<<>>, T)
      BY <2>2, OnlyEmpty DEF ServiceGiven
    <3> QED BY <2>3, <2>4, <2>5, <3>1, Typed, OnlyAdded
  <2>6. /\ Only(toServer', {"USERAUTH_REQUEST", "CHANNEL_OPEN"})
        /\ Only(toServer', {"USERAUTH_REQUEST"})
    BY <2>5
  <2>7. Only(toClient', {"BANNER"} \cup Said)
    <3>1. Only(toClient', {"BANNER"})
      BY <2>1, <2>2 DEF ServiceGiven
    <3> QED BY <3>1, OnlyBoth
  <2>8. ServiceTaken'
    BY <2>1, <2>6, <2>7 DEF ServiceTaken, Only
  <2> QED BY <2>8 DEF Service
<1>6. CASE ClientBanner \/ ClientInconsistent \/ ClientRefused \/ ClientSuccess
  <2>1. /\ toClient # <<>> /\ toClient' = Tail(toClient) /\ toServer' = toServer
    BY <1>4, <1>6 DEF ClientBanner, ClientInconsistent, ClientRefused, ClientSuccess, Thrussh,
       Takes, Handled
  <2>2. ServiceTaken
    <3>1. \/ client.state # "WaitingServiceRequest"
          \/ Head(toClient).type # "SERVICE_ACCEPT"
      BY <1>6 DEF ClientBanner, ClientInconsistent, ClientRefused, ClientSuccess, Takes
    <3> QED BY <2>1, <3>1, IsTaken
  <2>3. client.accepted
    BY <2>2 DEF ServiceTaken
  <2>4. client'.accepted /\ (client'.state # "Authenticated" => client.state # "Authenticated")
    BY <1>1, <1>6, <2>3 DEF ClientBanner, ClientInconsistent, ClientRefused, ClientSuccess,
       Handled, Taken, Client
  <2> QED BY <2>1, <2>2, <2>4, TakenStays DEF Service
<1>7. CASE ClientPkOk
  <2>1. /\ toClient # <<>> /\ toClient' = Tail(toClient) /\ client.state = "WaitingAuthRequest"
    BY <1>7 DEF ClientPkOk, Thrussh, Takes, Handled
  <2>2. ServiceTaken
    BY <2>1, IsTaken
  <2>3. client.accepted
    BY <2>2 DEF ServiceTaken
  <2>4. client'.accepted
    BY <1>1, <1>7, <2>3 DEF ClientPkOk, Handled, Taken, Client
  <2>5. Taken(client).auth_user \in Name /\ Taken(client).key \in Key
    BY <1>1 DEF Taken, Client
  <2>6. \/ toServer' = toServer
        \/ toServer' = toServer \o <<AuthRequest("signed", Taken(client).auth_user,
                                                Taken(client).key, TRUE)>>
    BY <1>4, <1>7 DEF ClientPkOk, Handled
  <2> QED BY <1>2, <2>1, <2>2, <2>4, <2>5, <2>6, TakenStays DEF Service
<1>8. CASE ClientWaitsForSigned
  <2> DEFINE valid == Head(mailbox).signature = "good"
             r     == AuthRequest("signed", client.auth_user, client.key, valid)
  <2>1. toClient' = toClient /\ client.state = "WaitingAuthRequest"
    BY <1>1, <1>8 DEF ClientWaitsForSigned
  <2>2. ServiceTaken
    BY <2>1, IsTaken
  <2>3. client.accepted
    BY <2>2 DEF ServiceTaken
  <2>4. client'.accepted
    BY <1>1, <1>8, <2>3 DEF ClientWaitsForSigned, Client
  <2>5. client.auth_user \in Name /\ client.key \in Key /\ valid \in BOOLEAN
    BY <1>1 DEF Client
  <2>6. toServer' = toServer \/ toServer' = toServer \o <<r>>
    BY <1>4, <1>8 DEF ClientWaitsForSigned
  <2> HIDE DEF valid
  <2> QED BY <1>2, <2>1, <2>2, <2>4, <2>5, <2>6, TakenStays DEF Service
<1>9. CASE ClientAuthenticate
  <2> DEFINE r == WriteAuthRequest(Head(mailbox).user, Head(mailbox).method,
                                 Head(mailbox).key)
  <2>1. UNCHANGED <<server, toClient>> /\ mailbox # <<>> /\ Head(mailbox).type = "Authenticate"
    BY <1>9 DEF ClientAuthenticate, ServerSide
  <2>2. client'.accepted = client.accepted /\ client'.state = client.state
    BY <1>1, <1>9 DEF ClientAuthenticate, Stored, Client
  <2>3. CASE IsWaiting(client)
    <3>1. ServiceTaken
      BY <2>3, IsTaken DEF IsWaiting
    <3>2. client.accepted
      BY <3>1 DEF ServiceTaken
    <3>3. toServer' = toServer \o <<r>>
      BY <1>9, <2>3 DEF ClientAuthenticate
    <3>4. r \in Request /\ r.type = "USERAUTH_REQUEST"
      BY <1>3, <2>1, Typed, NextMsg DEF Name
    <3> HIDE DEF r
    <3> QED BY <2>1, <2>2, <3>1, <3>2, <3>3, <3>4, TakenStays DEF Service
  <2>4. CASE ~IsWaiting(client)
    <3>1. toServer' = toServer
      BY <1>4, <1>9, <2>4 DEF ClientAuthenticate
    <3> QED BY <2>1, <2>2, <3>1, ServiceStays
  <2> QED BY <2>3, <2>4
<1>10. CASE ClientHangup \/ AppAuthenticate \/ AppAnswers \/ AppDropsCall
  <2>1. UNCHANGED <<server, toServer, toClient>>
    BY <1>10 DEF ClientHangup, AppAuthenticate, AppAnswers, AppReply, AppSigns, AppSessionGone,
       AppDropsCall, ServerSide, SessionSide
  <2>2. client'.accepted = client.accepted /\ client'.state = client.state
    <3>1. client' = client \/ client' = [client EXCEPT !.status = "closed"]
      BY <1>10 DEF ClientHangup, AppAuthenticate, AppAnswers, AppReply, AppSigns,
         AppSessionGone, AppDropsCall, SessionSide
    <3> QED BY <1>1, <3>1 DEF Client
  <2> QED BY <2>1, <2>2, ServiceStays
<1>11. CASE ClientOpens
  <2> DEFINE r == Plain("CHANNEL_OPEN")
  <2>1. /\ client.state = "Authenticated" /\ toClient' = toClient
        /\ toServer' = Append(toServer, r) /\ client' = [client EXCEPT !.opened = TRUE]
    BY <1>11 DEF ClientOpens
  <2>2. r \in Request /\ r.type = "CHANNEL_OPEN"
    BY DEF Plain, Request, Name, Key
  <2> HIDE DEF r
  <2>3. ServiceTaken
    BY <2>1, IsTaken
  <2>4. Only(toServer, {"USERAUTH_REQUEST", "CHANNEL_OPEN"}) /\ client.accepted
        /\ Only(toClient, {"BANNER"} \cup Said)
    BY <2>3 DEF ServiceTaken
  <2>5. client'.accepted /\ client'.state = "Authenticated"
    BY <1>1, <2>1, <2>4 DEF Client
  <2>6. Only(toServer', {"USERAUTH_REQUEST", "CHANNEL_OPEN"})
    <3>1. toServer' = toServer \o <<r>>
      BY <2>1, <2>2, Typed, Added
    <3> QED BY <2>2, <2>4, <3>1, Typed, OnlyAdded
  <2>7. ServiceTaken'
    BY <2>1, <2>4, <2>5, <2>6 DEF ServiceTaken, Only
  <2> QED BY <2>7 DEF Service
<1> QED BY <1>5, <1>6, <1>7, <1>8, <1>9, <1>10, <1>11 DEF ClientStep

-----------------------------------------------------------------------------
(* The one call: steps of the server. *)

(* No phase looks at the server's record. *)
LEMMA AuthTurnCall ==
    ASSUME IInv, client.kind = "thrussh", Service, OneCall, AuthTurn
    PROVE  OneCall'
<1>1. /\ toServer # <<>> /\ toServer' = Tail(toServer)
      /\ UNCHANGED <<client, app, mailbox, replies>>
      /\ server.state = "WaitingAuthRequest"
  BY AuthTurnAnswers DEF ClientSide, AuthTurn
<1>2. Head(toServer).type = "USERAUTH_REQUEST" /\ ServiceTaken
  <2>1. ServiceTaken
    BY <1>1 DEF Service, ServiceWanted, ServiceGiven
  <2>2. Head(toServer).type \in {"USERAUTH_REQUEST", "CHANNEL_OPEN"}
    BY <1>1, <2>1, ServerReadsOne DEF ServiceTaken
  <2> QED BY <2>1, <2>2 DEF AuthTurn
<1>3. ~NoRequest
  BY <1>1, <1>2, ServerReadsOne
<1>4. Asking \/ Broken
  BY <1>1, <1>3 DEF OneCall, Resting, Posted, Waiting, HasAnswer, SignAsked, Signed, Replying,
     Unanswered, Calm
<1>5. CASE Broken
  <2>1. toServer' = <<>>
    BY <1>1, <1>3, <1>5, ServerReadsOne DEF Broken, FewRequests
  <2>2. FewRequests'
    BY <2>1, QueuesStay DEF FewRequests
  <2> QED BY <1>1, <1>5, <2>2 DEF Broken, OneCall
<1>6. CASE Asking
  <2>1. /\ Calling /\ Up /\ granted.user = NoUser /\ client.state # "Authenticated"
        /\ ~client.signing /\ mailbox = <<>> /\ replies = <<>>
        /\ client.accepted /\ client.auth_user = app.user
        /\ NoAnswer /\ Len(toServer) = 1 /\ toServer[1].user = app.user
    BY <1>6 DEF Asking, Working
  <2>2. /\ toServer' = <<>> /\ Head(toServer).user = app.user
        /\ Calling' /\ Up' /\ client'.state # "Authenticated"
        /\ ~client'.signing /\ mailbox' = <<>> /\ replies' = <<>>
        /\ client'.accepted /\ client'.auth_user = app'.user
    BY <1>1, <2>1, ServerReadsOne DEF Calling, Up
  <2>3. CASE toClient' = toClient /\ granted' = granted
    <3>1. Calm'
      BY <2>1, <2>2, <2>3, QueuesStay DEF Calm
    <3>2. Unanswered'
      BY <2>1, <2>2, <2>3, <3>1 DEF Unanswered
    <3> QED BY <3>2 DEF OneCall
  <2>4. ASSUME NEW a \in Answer, a.type \in Said, toClient' = toClient \o <<a>>,
               a.type # "SUCCESS" => granted' = granted,
               a.type = "SUCCESS" => granted'.user = Head(toServer).user
        PROVE  OneCall'
    <3>1. Only(toClient, {"BANNER"})
      BY <1>2, <2>1, OnlyBoth DEF ServiceTaken, NoAnswer, Said
    <3>2. EndsWith(toClient', a)
      BY <2>4, <3>1, Typed, EndsAdded
    <3>3. granted'.user = IF a.type = "SUCCESS" THEN app'.user ELSE NoUser
      BY <1>1, <2>1, <2>2, <2>4
    <3>4. EndsWith(toClient, a)'
      BY <3>2 DEF EndsWith
    <3>5. HasAnswer'
      BY <2>2, <2>4, <3>3, <3>4 DEF HasAnswer
    <3> QED BY <3>5 DEF OneCall
  <2> QED BY <1>2, <2>3, <2>4, AuthTurnAnswers
<1> QED BY <1>4, <1>5, <1>6

(* A step that disturbs the two queues only, and not a phase but Asking and *)
(* HasAnswer.                                                               *)
LEMMA QueuesOnly ==
    ASSUME OneCall, ~Asking, ~HasAnswer, Calm => Calm', FewRequests => FewRequests',
           UNCHANGED <<client, app, mailbox, replies, granted>>
    PROVE  OneCall'
<1>1. Resting => Resting'
  BY DEF Resting, Up
<1>2. Posted \/ Waiting \/ SignAsked \/ Signed => Posted' \/ Waiting' \/ SignAsked' \/ Signed'
  BY DEF Posted, Waiting, SignAsked, Signed, Working, Calling, Up
<1>3. Replying => Replying'
  BY DEF Replying, Calling
<1>4. Unanswered => Unanswered'
  BY DEF Unanswered, Calling
<1>5. Broken => Broken'
  BY DEF Broken
<1> QED BY <1>1, <1>2, <1>3, <1>4, <1>5 DEF OneCall

LEMMA ServerCall ==
    ASSUME IInv, client.kind = "thrussh", Service, OneCall, ServerStep
    PROVE  OneCall'
<1>1. CASE ServerAuthenticated \/ ServerIgnores
  <2>1. /\ toServer # <<>> /\ toServer' = Tail(toServer) /\ toClient' = toClient
        /\ UNCHANGED <<client, app, mailbox, replies, granted>>
    BY <1>1, Dropped DEF ClientSide
  <2>2. ~HasAnswer
    BY <2>1 DEF HasAnswer
  <2>3. /\ (NoRequest => NoRequest') /\ (NoAnswer <=> NoAnswer')
        /\ FewRequests => FewRequests'
    BY <2>1, ServerReadsOne, QueuesStay DEF FewRequests
  <2>4. CASE Asking
    <3>1. toServer' = <<>> /\ NoAnswer
      BY <2>1, <2>4, ServerReadsOne DEF Asking
    <3>2. Calm'
      BY <2>3, <3>1, QueuesStay DEF Calm
    <3>3. Unanswered'
      BY <2>1, <2>4, <3>2 DEF Asking, Working, Unanswered, Calling
    <3> QED BY <3>3 DEF OneCall
  <2>5. CASE ~Asking
    <3>1. Calm => Calm'
      BY <2>3 DEF Calm
    <3> QED BY <2>1, <2>2, <2>3, <2>5, <3>1, QueuesOnly
  <2> QED BY <2>4, <2>5
<1>2. CASE ServerAcceptService
  <2>1. /\ toServer # <<>> /\ toServer' = Tail(toServer)
        /\ Head(toServer).type = "SERVICE_REQUEST"
        /\ UNCHANGED <<client, app, mailbox, replies, granted>>
    BY <1>2, ServiceAnswered DEF ClientSide
  <2>2. ~HasAnswer
    BY <2>1 DEF HasAnswer
  <2>3. ~Asking
    BY <2>1, ServerReadsOne DEF Asking
  <2>4. NoAnswer => NoAnswer'
    <3> SUFFICES ASSUME NoAnswer PROVE NoAnswer'
      OBVIOUS
    <3> DEFINE T == {"SERVICE_ACCEPT", "BANNER"}
    <3>1. /\ Says("SERVICE_ACCEPT") \in Answer /\ Says("SERVICE_ACCEPT").type \in T
          /\ Says("BANNER") \in Answer /\ Says("BANNER").type \in T
      BY SaysTyped
    <3>2. /\ toClient \o <<Says("SERVICE_ACCEPT")>> \in Seq(Answer)
          /\ Only(toClient \o <<Says("SERVICE_ACCEPT")>>, T)
      BY <3>1, Typed, Added, OnlyAdded DEF NoAnswer
    <3>3. Only((toClient \o <<Says("SERVICE_ACCEPT")>>) \o <<Says("BANNER")>>, T)
      BY <3>1, <3>2, OnlyAdded
    <3>4. toClient \o (<<Says("SERVICE_ACCEPT")>> \o <<Says("BANNER")>>)
            = (toClient \o <<Says("SERVICE_ACCEPT")>>) \o <<Says("BANNER")>>
      <4>1. <<Says("SERVICE_ACCEPT")>> \in Seq(Answer) /\ <<Says("BANNER")>> \in Seq(Answer)
        BY <3>1
      <4> QED BY <4>1, Typed, ConcatAssociative
    <3>5. Only(toClient', T)
      BY <1>2, <3>2, <3>3, <3>4, ServiceAnswered
    <3> QED BY <3>5 DEF NoAnswer, Only
  <2>5. Calm => Calm'
    BY <2>1, <2>4, ServerReadsOne DEF Calm
  <2>6. FewRequests => FewRequests'
    BY <2>1, ServerReadsOne, QueuesStay DEF FewRequests
  <2> QED BY <2>1, <2>2, <2>3, <2>5, <2>6, QueuesOnly
<1>3. TypeOK /\ PkVouched
  BY DEF IInv
<1> QED BY <1>1, <1>2, <1>3, AuthTurns, AuthTurnCall DEF ServerStep

-----------------------------------------------------------------------------
(* The one call: steps of the client. *)

LEMMA AddedToEmpty ==
    ASSUME NEW e
    PROVE  /\ <<>> \o <<e>> = <<e>> /\ Append(<<>>, e) = <<e>>
           /\ Len(<<e>>) = 1 /\ <<e>>[1] = e /\ Head(<<e>>) = e /\ Tail(<<e>>) = <<>>
<1>1. <<e>> \in Seq({e}) /\ <<>> \in Seq({e})
  OBVIOUS
<1>2. <<>> \o <<e>> = <<e>>
  BY <1>1, ConcatEmptySeq
<1>3. Append(<<>>, e) = <<>> \o <<e>>
  BY <1>1, AppendIsConcat
<1> QED BY <1>2, <1>3

LEMMA ServiceAcceptedCall ==
    ASSUME IInv, Service, OneCall, ClientServiceAccepted
    PROVE  OneCall'
<1> DEFINE cl   == [client EXCEPT !.accepted = TRUE]
           sent == [cl EXCEPT !.state = "WaitingAuthRequest"]
           r    == WriteAuthRequest(cl.auth_user, cl.auth_method, cl.key)
<1>1. /\ toClient # <<>> /\ Head(toClient).type = "SERVICE_ACCEPT"
      /\ toClient' = Tail(toClient) /\ Up /\ ~client.signing
      /\ client.state = "WaitingServiceRequest" /\ client \in Client
      /\ UNCHANGED <<app, mailbox, granted>> /\ replies' = replies \o <<>>
      /\ IF client.auth_method = "None"
         THEN client' = cl /\ toServer' = toServer \o <<>>
         ELSE client' = sent /\ toServer' = toServer \o <<r>>
  <2>1. cl.auth_method = client.auth_method
    BY Typed DEF Client
  <2> QED BY <2>1, Typed DEF ClientServiceAccepted, Thrussh, Takes, Handled, ServerSide
<1>2. /\ ~client.accepted /\ toServer = <<>>
  BY <1>1, ClientReads DEF Service, ServiceWanted, ServiceGiven, ServiceTaken, Said
<1>3. replies' = replies
  BY <1>1, Typed, Kept
<1>4. /\ cl.accepted /\ cl.state = client.state /\ cl.signing = client.signing
      /\ cl.status = client.status
      /\ sent.accepted /\ sent.state = "WaitingAuthRequest" /\ sent.signing = client.signing
      /\ sent.status = client.status /\ sent.auth_user = client.auth_user
      /\ r.type = "USERAUTH_REQUEST" /\ r.user = client.auth_user
  BY <1>1 DEF Client, WriteAuthRequest, AuthRequest
<1> HIDE DEF cl, sent, r
<1>5. NoRequest /\ (NoAnswer => NoAnswer')
  BY <1>1, <1>2, ClientReads, QueuesStay
<1>6. Resting \/ Posted \/ Waiting
  BY <1>1, <1>2 DEF OneCall, Asking, HasAnswer, SignAsked, Signed, Replying, Unanswered, Broken,
     Up, Working
<1>7. CASE client.auth_method = "None"
  <2>1. client' = cl /\ toServer' = <<>>
    BY <1>1, <1>2, <1>7, Typed, Kept
  <2>2. Calm => Calm'
    BY <1>5, <2>1, QueuesStay DEF Calm
  <2>3. ~Waiting
    BY <1>7 DEF Waiting
  <2>4. CASE Resting
    <3>1. Resting'
      BY <1>1, <1>3, <1>4, <2>1, <2>2, <2>4 DEF Resting, Up
    <3> QED BY <3>1 DEF OneCall
  <2>5. CASE Posted
    <3>1. Posted'
      BY <1>1, <1>3, <1>4, <2>1, <2>2, <2>5 DEF Posted, Working, Calling, Up
    <3> QED BY <3>1 DEF OneCall
  <2> QED BY <1>6, <2>3, <2>4, <2>5
<1>8. CASE client.auth_method # "None"
  <2>1. Waiting
    BY <1>2, <1>6, <1>8 DEF Resting, Posted
  <2>2. /\ toServer' = <<r>> /\ Len(toServer') = 1 /\ toServer'[1] = r
    BY <1>1, <1>2, <1>8, AddedToEmpty
  <2>3. NoAnswer'
    BY <1>5, <2>1 DEF Waiting, Calm
  <2>4. client' = sent
    BY <1>1, <1>8
  <2>5. Working' /\ ~client'.signing /\ client'.accepted /\ client'.auth_user = app'.user
    BY <1>1, <1>4, <2>1, <2>4 DEF Waiting, Working, Calling, Up
  <2>6. Asking'
    BY <1>1, <1>3, <1>4, <2>1, <2>2, <2>3, <2>5 DEF Asking, Waiting
  <2> QED BY <2>6 DEF OneCall
<1> QED BY <1>7, <1>8

(* A packet that is not an answer, or that the session does not understand. *)
LEMMA BannerCall ==
    ASSUME IInv, OneCall, ClientBanner
    PROVE  OneCall'
<1>1. /\ toClient # <<>> /\ Head(toClient).type = "BANNER"
      /\ toClient' = Tail(toClient) /\ toServer' = toServer /\ replies' = replies
      /\ UNCHANGED <<client, app, mailbox, granted>>
  BY Typed, Kept DEF ClientBanner, Thrussh, Takes, Handled, ServerSide
<1>2. (NoAnswer => NoAnswer') /\ (NoRequest <=> NoRequest')
  BY <1>1, ClientReads, QueuesStay
<1>3. CASE Asking
  <2>1. Asking'
    BY <1>1, <1>2, <1>3 DEF Asking, Working, Calling, Up
  <2> QED BY <2>1 DEF OneCall
<1>4. CASE HasAnswer
  <2>1. PICK a \in Answer :
           /\ a.type \in Said /\ EndsWith(toClient, a)
           /\ granted.user = IF a.type = "SUCCESS" THEN app.user ELSE NoUser
    BY <1>4 DEF HasAnswer
  <2>2. EndsWith(Tail(toClient), a)
    BY <1>1, <2>1, Typed, EndsRead DEF Said
  <2>3. EndsWith(toClient, a)'
    BY <1>1, <2>2 DEF EndsWith
  <2>4. HasAnswer'
    BY <1>1, <1>4, <2>1, <2>3 DEF HasAnswer, Calling, Up
  <2> QED BY <2>4 DEF OneCall
<1>5. CASE ~Asking /\ ~HasAnswer
  <2>1. Calm => Calm'
    BY <1>2 DEF Calm
  <2>2. FewRequests => FewRequests'
    BY <1>1, <1>2 DEF FewRequests
  <2> QED BY <1>1, <1>5, <2>1, <2>2, QueuesOnly
<1> QED BY <1>3, <1>4, <1>5

(* The session ends; a call it has not answered yet is lost. *)
LEMMA EndsCall ==
    ASSUME IInv, OneCall, Up, ~client.signing,
           NEW status \in {"closed", "Inconsistent"},
           client' = [client EXCEPT !.status = status],
           toClient' = toClient \/ (toClient # <<>> /\ toClient' = Tail(toClient)),
           UNCHANGED <<app, mailbox, replies, granted, toServer>>
    PROVE  OneCall'
<1>1. /\ client'.status = status /\ client'.signing = client.signing
      /\ client'.state = client.state /\ client'.accepted = client.accepted
      /\ client'.auth_method = client.auth_method /\ client'.auth_user = client.auth_user
  BY Typed DEF Client
<1>2. Calm => Calm'
  BY ClientReads, QueuesStay DEF Calm
<1>3. Resting => Resting'
  BY <1>1, <1>2 DEF Resting, Up
<1>4. Posted \/ Waiting \/ Asking \/ HasAnswer => Broken'
  <2>1. Posted \/ Waiting \/ Asking \/ HasAnswer => FewRequests
    BY QueuesStay DEF Posted, Waiting, Asking, HasAnswer, Working, Calm, FewRequests
  <2>2. FewRequests => FewRequests'
    BY QueuesStay DEF FewRequests
  <2> QED BY <1>1, <2>1, <2>2 DEF Posted, Waiting, Asking, HasAnswer, Working, Calling, Broken
<1>5. ~SignAsked /\ ~Signed
  BY DEF SignAsked, Signed
<1>6. Replying => Replying'
  BY <1>1, <1>2 DEF Replying, Calling
<1>7. Unanswered => Unanswered'
  BY <1>1, <1>2 DEF Unanswered, Calling
<1>8. ~Broken
  BY DEF Broken, Up
<1> QED BY <1>3, <1>4, <1>5, <1>6, <1>7, <1>8 DEF OneCall

LEMMA InconsistentCall ==
    ASSUME IInv, OneCall, ClientInconsistent \/ ClientHangup
    PROVE  OneCall'
<1>1. CASE ClientInconsistent
  <2>1. /\ Up /\ ~client.signing /\ client' = [client EXCEPT !.status = "Inconsistent"]
        /\ toClient # <<>> /\ toClient' = Tail(toClient)
        /\ toServer' = toServer /\ replies' = replies
        /\ UNCHANGED <<app, mailbox, granted>>
    BY <1>1, Typed, Kept DEF ClientInconsistent, Takes, Handled, ServerSide
  <2> QED BY <2>1, EndsCall
<1>2. CASE ClientHangup
  <2>1. /\ Up /\ ~client.signing /\ client' = [client EXCEPT !.status = "closed"]
        /\ UNCHANGED <<app, mailbox, replies, granted, toServer, toClient>>
    BY <1>2 DEF ClientHangup, ServerSide
  <2> QED BY <2>1, EndsCall
<1> QED BY <1>1, <1>2

(* The answer itself: only HasAnswer has one. *)
LEMMA AnswerRead ==
    ASSUME IInv, OneCall, Up, toClient # <<>>, Head(toClient).type \in Said
    PROVE  /\ Calling /\ client.state # "Authenticated" /\ ~client.signing
           /\ mailbox = <<>> /\ replies = <<>>
           /\ client.accepted /\ client.auth_user = app.user
           /\ toServer = <<>> /\ Tail(toClient) = <<>>
           /\ granted.user = IF Head(toClient).type = "SUCCESS" THEN app.user ELSE NoUser
<1>1. ~NoAnswer
  <2>1. toClient \in Seq(Answer)
    BY Typed
  <2>2. ASSUME NoAnswer PROVE FALSE
    <3>1. Only(toClient, {"SERVICE_ACCEPT", "BANNER"})
      BY <2>2 DEF NoAnswer
    <3> QED BY <2>1, <3>1, OnlyTail DEF Said
  <2> QED BY <2>2
<1>2. HasAnswer
  BY <1>1 DEF OneCall, Resting, Posted, Waiting, Asking, SignAsked, Signed, Replying, Unanswered,
     Broken, Calm, Up
<1>3. PICK a \in Answer :
         /\ a.type \in Said /\ EndsWith(toClient, a)
         /\ granted.user = IF a.type = "SUCCESS" THEN app.user ELSE NoUser
  BY <1>2 DEF HasAnswer
<1>4. Head(toClient) = a /\ Tail(toClient) = <<>>
  BY <1>3, Typed, EndsRead DEF Said
<1> QED BY <1>2, <1>3, <1>4 DEF HasAnswer

LEMMA RefusedCall ==
    ASSUME IInv, OneCall, ClientRefused \/ ClientSuccess
    PROVE  OneCall'
<1> DEFINE taken == Taken(client)
           left  == [taken EXCEPT !.status = "NoAuthMethod"]
           inside == [client EXCEPT !.state = "Authenticated"]
<1>1. /\ Up /\ ~client.signing /\ toClient # <<>> /\ toClient' = Tail(toClient)
      /\ toServer' = toServer /\ UNCHANGED <<app, mailbox, granted>>
  BY Typed, Kept DEF ClientRefused, ClientSuccess, Thrussh, Takes, Handled, ServerSide
<1>2. \/ /\ Head(toClient).type = "FAILURE" /\ client' \in {taken, left}
         /\ replies' = replies \o <<"AuthFailure">>
      \/ /\ Head(toClient).type = "SUCCESS" /\ client' = inside
         /\ replies' = replies \o <<"AuthSuccess">>
  BY DEF ClientRefused, ClientSuccess, Thrussh, Takes, Handled, ClientFailure
<1>3. Head(toClient).type \in Said
  BY <1>2 DEF Said
<1>4. /\ Calling /\ client.state # "Authenticated"
      /\ mailbox = <<>> /\ replies = <<>> /\ client.accepted
      /\ toServer = <<>> /\ Tail(toClient) = <<>>
      /\ granted.user = IF Head(toClient).type = "SUCCESS" THEN app.user ELSE NoUser
  BY <1>1, <1>3, AnswerRead
<1>5. /\ taken.accepted = client.accepted /\ taken.signing = client.signing
      /\ taken.state = client.state
      /\ left.accepted = client.accepted /\ left.signing = client.signing
      /\ left.state = client.state
      /\ inside.accepted = client.accepted /\ inside.signing = client.signing
  BY Typed DEF Taken, Client
<1> HIDE DEF taken, left, inside
<1>6. Calling' /\ Calm' /\ ~client'.signing /\ client'.accepted /\ mailbox' = <<>>
  <2>1. Calm'
    BY <1>1, <1>4, QueuesStay DEF Calm
  <2>2. Calling'
    BY <1>1, <1>4 DEF Calling
  <2> QED BY <1>1, <1>2, <1>4, <1>5, <2>1, <2>2
<1>7. \/ replies' = <<"AuthSuccess">> /\ granted'.user = app'.user
      \/ replies' = <<"AuthFailure">> /\ granted'.user = NoUser /\ client'.state # "Authenticated"
  <2>1. CASE Head(toClient).type = "FAILURE"
    BY <1>1, <1>2, <1>4, <1>5, <2>1, AddedToEmpty
  <2>2. CASE Head(toClient).type = "SUCCESS"
    BY <1>1, <1>2, <1>4, <1>5, <2>2, AddedToEmpty
  <2> QED BY <1>2, <2>1, <2>2
<1>8. Replying'
  BY <1>6, <1>7 DEF Replying
<1> QED BY <1>8 DEF OneCall

LEMMA PkOkCall ==
    ASSUME IInv, OneCall, ClientPkOk
    PROVE  OneCall'
<1> DEFINE cl     == Taken(client)
           asking == [cl EXCEPT !.signing = TRUE]
           r      == AuthRequest("signed", cl.auth_user, cl.key, TRUE)
<1>1. /\ Up /\ ~client.signing /\ toClient # <<>> /\ toClient' = Tail(toClient)
      /\ Head(toClient).type = "PK_OK" /\ UNCHANGED <<app, mailbox, granted>>
  BY DEF ClientPkOk, Thrussh, Takes, Handled, ServerSide
<1>2. \/ client' = cl /\ toServer' = toServer \o <<r>> /\ replies' = replies
      \/ client' = asking /\ toServer' = toServer /\ replies' = replies \o <<"SignRequest">>
      \/ client' = cl /\ toServer' = toServer /\ replies' = replies
  BY Typed, Kept DEF ClientPkOk, Handled
<1>3. Head(toClient).type \in Said
  BY <1>1 DEF Said
<1>4. /\ Calling /\ client.state # "Authenticated"
      /\ mailbox = <<>> /\ replies = <<>> /\ client.accepted /\ client.auth_user = app.user
      /\ toServer = <<>> /\ Tail(toClient) = <<>> /\ granted.user = NoUser
  BY <1>1, <1>3, AnswerRead
<1>5. /\ cl.accepted = client.accepted /\ cl.signing = client.signing
      /\ cl.state = client.state /\ cl.auth_user = client.auth_user /\ cl.status = client.status
      /\ asking.signing /\ asking.state = client.state /\ asking.auth_user = client.auth_user
      /\ asking.status = client.status /\ asking.accepted = client.accepted
      /\ r.type = "USERAUTH_REQUEST" /\ r.user = client.auth_user
  BY Typed DEF Taken, Client, AuthRequest
<1> HIDE DEF cl, asking, r
<1>6. /\ Working' /\ client'.accepted /\ client'.auth_user = app'.user /\ mailbox' = <<>>
      /\ NoAnswer'
  <2>1. NoAnswer'
    BY <1>1, <1>4, QueuesStay
  <2>2. Working'
    BY <1>1, <1>2, <1>4, <1>5 DEF Working, Calling, Up
  <2> QED BY <1>1, <1>2, <1>4, <1>5, <2>1, <2>2
<1>7. CASE client' = cl /\ toServer' = toServer \o <<r>> /\ replies' = replies
  <2>1. toServer' = <<r>> /\ Len(toServer') = 1 /\ toServer'[1] = r
    BY <1>4, <1>7, AddedToEmpty
  <2>2. Asking'
    BY <1>1, <1>4, <1>5, <1>6, <1>7, <2>1 DEF Asking
  <2> QED BY <2>2 DEF OneCall
<1>8. CASE client' = asking /\ toServer' = toServer /\ replies' = replies \o <<"SignRequest">>
  <2>1. replies' = <<"SignRequest">>
    BY <1>4, <1>8, AddedToEmpty
  <2>2. Calm'
    BY <1>4, <1>6, <1>8, QueuesStay DEF Calm
  <2>3. SignAsked'
    BY <1>5, <1>6, <1>8, <2>1, <2>2 DEF SignAsked
  <2> QED BY <2>3 DEF OneCall
<1>9. CASE client' = cl /\ toServer' = toServer /\ replies' = replies
  <2>1. Calm'
    BY <1>4, <1>6, <1>9, QueuesStay DEF Calm
  <2>2. Unanswered'
    BY <1>4, <1>6, <1>9, <2>1 DEF Unanswered, Working
  <2> QED BY <2>2 DEF OneCall
<1> QED BY <1>2, <1>7, <1>8, <1>9

(* Nothing is on its way to the server while the client has yet to ask. *)
LEMMA NothingSent ==
    ASSUME IInv, ServiceTaken, NoRequest, client.state # "Authenticated"
    PROVE  toServer = <<>>
<1>1. /\ Only(toServer, {"USERAUTH_REQUEST"})
      /\ Only(toServer, {"SERVICE_REQUEST", "INFO_RESPONSE", "CHANNEL_OPEN"})
  BY DEF ServiceTaken, NoRequest
<1> QED BY <1>1, Typed, OnlyNothing

LEMMA WaitsForSignedCall ==
    ASSUME IInv, Service, OneCall, ClientWaitsForSigned
    PROVE  OneCall'
<1> DEFINE done == [client EXCEPT !.signing = FALSE]
           r    == AuthRequest("signed", client.auth_user, client.key,
                               Head(mailbox).signature = "good")
<1>1. /\ Up /\ client.signing /\ mailbox # <<>> /\ mailbox' = Tail(mailbox)
      /\ UNCHANGED <<app, granted, replies, toClient>>
  BY DEF ClientWaitsForSigned, ServerSide
<1>2. Signed
  BY <1>1 DEF OneCall, Resting, Posted, Waiting, Asking, HasAnswer, SignAsked, Replying,
     Unanswered, Broken, Up
<1>3. mailbox' = <<>> /\ Head(mailbox).type = "Signed"
  BY <1>1, <1>2, Typed, Removed DEF Signed
<1>4. client' = done /\ (toServer' = toServer \/ toServer' = toServer \o <<r>>)
  BY <1>3, Typed, Kept DEF ClientWaitsForSigned
<1>5. ServiceTaken /\ client.accepted
  <2>1. client.state = "WaitingAuthRequest"
    BY <1>1, Typed
  <2> QED BY <2>1, IsTaken DEF ServiceTaken
<1>6. Working /\ Calm /\ replies = <<>> /\ client.auth_user = app.user
  BY <1>2 DEF Signed
<1>7. toServer = <<>>
  BY <1>5, <1>6, NothingSent DEF Working, Calm
<1>8. /\ done.accepted = client.accepted /\ ~done.signing
      /\ done.state = client.state /\ done.auth_user = client.auth_user
      /\ done.status = client.status
      /\ r.type = "USERAUTH_REQUEST" /\ r.user = client.auth_user
  BY Typed DEF Client, AuthRequest
<1> HIDE DEF done, r
<1>9. Working' /\ client'.accepted /\ client'.auth_user = app'.user /\ NoAnswer'
  <2>1. NoAnswer'
    BY <1>1, <1>6, QueuesStay DEF Calm
  <2>2. Working'
    BY <1>1, <1>4, <1>6, <1>8 DEF Working, Calling, Up
  <2> QED BY <1>1, <1>4, <1>5, <1>6, <1>8, <2>1, <2>2
<1>10. CASE toServer' = toServer
  <2>1. Calm'
    BY <1>7, <1>9, <1>10, QueuesStay DEF Calm
  <2>2. Unanswered'
    BY <1>1, <1>3, <1>6, <1>9, <2>1 DEF Unanswered, Working
  <2> QED BY <2>2 DEF OneCall
<1>11. CASE toServer' = toServer \o <<r>>
  <2>1. toServer' = <<r>> /\ Len(toServer') = 1 /\ toServer'[1] = r
    BY <1>7, <1>11, AddedToEmpty
  <2>2. Asking'
    BY <1>1, <1>3, <1>4, <1>6, <1>8, <1>9, <2>1 DEF Asking
  <2> QED BY <2>2 DEF OneCall
<1> QED BY <1>4, <1>10, <1>11

LEMMA AuthenticateCall ==
    ASSUME IInv, Service, OneCall, ClientAuthenticate
    PROVE  OneCall'
<1> DEFINE msg == Head(mailbox)
           cl  == Stored(client, msg)
           r   == WriteAuthRequest(msg.user, msg.method, msg.key)
<1>1. /\ Up /\ ~client.signing /\ mailbox # <<>> /\ mailbox' = Tail(mailbox)
      /\ msg.type = "Authenticate" /\ client' = cl
      /\ UNCHANGED <<app, granted, replies, toClient>>
  BY DEF ClientAuthenticate, ServerSide
<1>2. Posted
  BY <1>1 DEF OneCall, Resting, Waiting, Asking, HasAnswer, SignAsked, Signed, Replying,
     Unanswered, Broken, Up
<1>3. mailbox' = <<>> /\ msg.user = app.user
  BY <1>1, <1>2, Typed, Removed DEF Posted
<1>4. msg.method # "None"
  BY <1>1, Typed, NextMsg DEF Credential
<1>5. Working /\ Calm /\ replies = <<>>
  BY <1>2 DEF Posted
<1>6. /\ cl.accepted = client.accepted /\ cl.signing = client.signing
      /\ cl.state = client.state /\ cl.auth_user = msg.user /\ cl.status = client.status
      /\ cl.auth_method = msg.method
      /\ r.type = "USERAUTH_REQUEST" /\ r.user = msg.user
  BY Typed DEF Stored, Client, WriteAuthRequest, AuthRequest
<1>7. \/ IsWaiting(client) /\ toServer' = toServer \o <<r>>
      \/ ~IsWaiting(client) /\ toServer' = toServer
  BY Typed, Kept DEF ClientAuthenticate
<1> HIDE DEF msg, cl, r
<1>8. Working' /\ client'.auth_user = app'.user /\ NoAnswer'
  <2>1. NoAnswer'
    BY <1>1, <1>5, QueuesStay DEF Calm
  <2>2. Working'
    BY <1>1, <1>5, <1>6 DEF Working, Calling, Up
  <2> QED BY <1>1, <1>3, <1>6, <2>1, <2>2
<1>9. CASE IsWaiting(client) /\ toServer' = toServer \o <<r>>
  <2>1. ServiceTaken /\ client.accepted
    BY <1>9, IsTaken DEF IsWaiting, ServiceTaken
  <2>2. toServer = <<>>
    BY <1>5, <2>1, NothingSent DEF Working, Calm
  <2>3. toServer' = <<r>> /\ Len(toServer') = 1 /\ toServer'[1] = r
    BY <1>9, <2>2, AddedToEmpty
  <2>4. Asking'
    BY <1>1, <1>3, <1>5, <1>6, <1>8, <2>1, <2>3 DEF Asking
  <2> QED BY <2>4 DEF OneCall
<1>10. CASE ~IsWaiting(client) /\ toServer' = toServer
  <2>1. client.state = "WaitingServiceRequest" /\ ~client.accepted
    <3>1. client.state \in {"WaitingServiceRequest", "WaitingAuthRequest", "Authenticated"}
      BY Typed DEF Client
    <3>2. client.state = "WaitingServiceRequest"
      BY <1>5, <1>10, <3>1 DEF IsWaiting, Working
    <3> QED BY <1>10, <3>2 DEF IsWaiting
  <2>2. Calm'
    BY <1>5, <1>8, <1>10, QueuesStay DEF Calm
  <2>3. Waiting'
    BY <1>1, <1>3, <1>4, <1>5, <1>6, <1>8, <2>1, <2>2 DEF Waiting
  <2> QED BY <2>3 DEF OneCall
<1> QED BY <1>7, <1>9, <1>10

LEMMA ClientCall ==
    ASSUME IInv, Service, OneCall, ClientStep
    PROVE  OneCall'
BY ServiceAcceptedCall, BannerCall, InconsistentCall, RefusedCall, PkOkCall, WaitsForSignedCall,
   AuthenticateCall DEF ClientStep

LEMMA OpensCall ==
    ASSUME IInv, OneCall, ClientOpens
    PROVE  OneCall'
<1> DEFINE r == Plain("CHANNEL_OPEN")
           others == {"SERVICE_REQUEST", "INFO_RESPONSE", "CHANNEL_OPEN"}
<1>1. /\ Up /\ client.state = "Authenticated" /\ client' = [client EXCEPT !.opened = TRUE]
      /\ toServer' = Append(toServer, r)
      /\ UNCHANGED <<granted, app, mailbox, replies, toClient>>
  BY DEF ClientOpens, ServerSide
<1>2. /\ client'.state = client.state /\ client'.accepted = client.accepted
      /\ client'.signing = client.signing /\ client'.auth_method = client.auth_method
      /\ client'.status = client.status
  BY <1>1, Typed DEF Client
<1>3. r \in Request /\ r.type \in others
  BY DEF Plain, Request, Name, Key
<1> HIDE DEF r
<1>4. Calm => Calm'
  <2>1. ASSUME NoRequest PROVE NoRequest'
    <3>1. toServer \in Seq(Request) /\ Only(toServer, others)
      BY <2>1, Typed DEF NoRequest
    <3> HIDE DEF others
    <3>2. toServer' = toServer \o <<r>>
      BY <1>1, <1>3, <3>1, Added
    <3>3. Only(toServer', others)
      BY <1>3, <3>1, <3>2, OnlyAdded
    <3> QED BY <3>3 DEF NoRequest, Only, others
  <2> QED BY <1>1, <2>1, QueuesStay DEF Calm
<1>5. Resting \/ Replying
  BY <1>1 DEF OneCall, Posted, Waiting, Asking, HasAnswer, SignAsked, Signed, Unanswered, Broken,
     Working, Up
<1>6. Resting => Resting'
  BY <1>1, <1>2, <1>4 DEF Resting, Up
<1>7. Replying => Replying'
  BY <1>1, <1>2, <1>4 DEF Replying, Calling
<1> QED BY <1>5, <1>6, <1>7 DEF OneCall

-----------------------------------------------------------------------------
(* The one call: steps of the application. *)

(* What the application's steps leave alone. *)
LEMMA SessionStays ==
    ASSUME Calm, UNCHANGED <<ServerSide, SessionSide>>
    PROVE  Calm' /\ (Up <=> Up') /\ granted' = granted /\ client' = client
BY QueuesStay DEF Calm, Up, ServerSide, SessionSide

LEMMA AuthenticateAsked ==
    ASSUME IInv, OneCall, AppAuthenticate
    PROVE  OneCall'
<1>1. /\ Up /\ app.call = "None" /\ app.result # "true"
      /\ UNCHANGED <<ServerSide, SessionSide, replies>>
  BY DEF AppAuthenticate
<1>2. PICK user \in Users, method \in Credential, key \in Key :
         /\ app' = [app EXCEPT !.call = method, !.user = user, !.result = "none",
                               !.left = @ - 1]
         /\ mailbox' = Append(mailbox,
               [type |-> "Authenticate", method |-> method, user |-> user, key |-> key])
  BY DEF AppAuthenticate
<1>3. Resting
  BY <1>1 DEF OneCall, Posted, Waiting, Asking, HasAnswer, SignAsked, Signed, Replying, Unanswered,
     Broken, Working, Calling, Up
<1>4. /\ Calm /\ mailbox = <<>> /\ replies = <<>> /\ ~client.signing
      /\ client.accepted \/ client.auth_method = "None"
      /\ client.state # "Authenticated" /\ granted.user = NoUser
  BY <1>1, <1>3 DEF Resting
<1>5. app'.call = method /\ app'.user = user /\ app'.result = "none" /\ method # "None"
  BY <1>2, Typed DEF App, Credential
<1>6. /\ Len(mailbox') = 1
      /\ mailbox'[1] =
           [type |-> "Authenticate", method |-> method, user |-> user, key |-> key]
  BY <1>2, <1>4, AddedToEmpty
<1>7. Working'
  BY <1>1, <1>4, <1>5, SessionStays DEF Working, Calling
<1>8. Posted'
  BY <1>1, <1>4, <1>5, <1>6, <1>7, SessionStays DEF Posted
<1> QED BY <1>8 DEF OneCall

(* Where a reply is found. *)
LEMMA ReplyFound ==
    ASSUME OneCall, replies # <<>>
    PROVE  SignAsked \/ Replying
BY DEF OneCall, Resting, Posted, Waiting, Asking, HasAnswer, Signed, Unanswered, Broken

LEMMA ReplyCall ==
    ASSUME IInv, Service, OneCall, AppReply
    PROVE  OneCall'
<1>1. /\ replies # <<>> /\ replies' = Tail(replies)
      /\ UNCHANGED <<ServerSide, SessionSide, mailbox>>
      /\ \/ Head(replies) = "AuthSuccess" /\ Returns("true")
         \/ Head(replies) = "AuthFailure" /\ Returns("false")
         \/ Head(replies) = "SignRequest" /\ UNCHANGED app
  BY DEF AppReply
<1>2. CASE Replying
  <2>1. /\ Calling /\ ~client.signing /\ client.accepted /\ Calm /\ mailbox = <<>>
        /\ \/ replies = <<"AuthSuccess">> /\ granted.user = app.user
           \/ /\ replies = <<"AuthFailure">> /\ granted.user = NoUser
              /\ client.state # "Authenticated"
    BY <1>2 DEF Replying
  <2>2. replies' = <<>>
    BY <1>1, <2>1, AddedToEmpty
  <2>3. \/ Returns("true") /\ granted.user = app.user
        \/ Returns("false") /\ granted.user = NoUser /\ client.state # "Authenticated"
    <3>1. CASE replies = <<"AuthSuccess">> /\ granted.user = app.user
      <4>1. Head(replies) = "AuthSuccess"
        BY <3>1, AddedToEmpty
      <4> QED BY <1>1, <3>1, <4>1
    <3>2. CASE replies = <<"AuthFailure">> /\ granted.user = NoUser /\ client.state # "Authenticated"
      <4>1. Head(replies) = "AuthFailure"
        BY <3>2, AddedToEmpty
      <4> QED BY <1>1, <3>2, <4>1
    <3> QED BY <2>1, <3>1, <3>2
  <2>4. /\ app'.call = "None" /\ app'.user = app.user
        /\ \/ app'.result = "true" /\ granted.user = app.user
           \/ app'.result = "false" /\ granted.user = NoUser /\ client.state # "Authenticated"
    BY <2>3, Typed DEF Returns, App
  <2>5. Resting'
    BY <1>1, <2>1, <2>2, <2>4, SessionStays DEF Resting
  <2> QED BY <2>5 DEF OneCall
<1>3. CASE SignAsked
  <2>1. /\ Working /\ client.signing /\ Calm /\ mailbox = <<>>
        /\ replies = <<"SignRequest">>
    BY <1>3 DEF SignAsked
  <2>2. replies' = <<>> /\ Head(replies) = "SignRequest"
    BY <1>1, <2>1, AddedToEmpty
  <2>3. app' = app
    BY <1>1, <2>2
  <2>4. client.accepted
    BY <2>1, Typed, IsTaken DEF ServiceTaken
  <2>5. Unanswered'
    BY <1>1, <2>1, <2>2, <2>3, <2>4, SessionStays DEF Unanswered, Working, Calling
  <2> QED BY <2>5 DEF OneCall
<1> QED BY <1>1, <1>2, <1>3, ReplyFound

LEMMA SignsCall ==
    ASSUME IInv, OneCall, AppSigns, ~app'.abandoned
    PROVE  OneCall'
<1>1. /\ replies # <<>> /\ replies' = Tail(replies) /\ Head(replies) = "SignRequest"
      /\ UNCHANGED <<ServerSide, SessionSide>>
  BY DEF AppSigns
<1>2. ~(app' = [app EXCEPT !.call = "None", !.result = "error", !.abandoned = TRUE])
  BY Typed DEF App
<1>3. PICK signature \in {"good", "bad", "unchanged"} :
         /\ mailbox' = Append(mailbox, [type |-> "Signed", signature |-> signature])
         /\ app' = [app EXCEPT !.abandoned = @ \/ signature = "unchanged"]
  BY <1>2 DEF AppSigns
<1>4. SignAsked
  <2>1. ~Replying
    BY <1>1, AddedToEmpty DEF Replying
  <2> QED BY <1>1, <2>1, ReplyFound
<1>5. /\ Working /\ client.signing /\ Calm /\ mailbox = <<>>
      /\ replies = <<"SignRequest">> /\ client.auth_user = app.user
  BY <1>4 DEF SignAsked
<1>6. app'.call = app.call /\ app'.result = app.result /\ app'.user = app.user
  BY <1>3, Typed DEF App
<1>7. /\ replies' = <<>> /\ Len(mailbox') = 1
      /\ mailbox'[1] = [type |-> "Signed", signature |-> signature]
  BY <1>1, <1>3, <1>5, AddedToEmpty
<1>8. mailbox'[1].type = "Signed"
  BY <1>7
<1>9. Signed'
  BY <1>1, <1>5, <1>6, <1>7, <1>8, SessionStays DEF Signed, Working, Calling
<1> QED BY <1>9 DEF OneCall

LEMMA SessionGoneCall ==
    ASSUME IInv, OneCall, AppSessionGone
    PROVE  OneCall'
<1>1. /\ app.call # "None" /\ replies = <<>> /\ ~Up
      /\ Returns("false") /\ UNCHANGED <<ServerSide, SessionSide, mailbox, replies>>
  BY DEF AppSessionGone
<1>2. app'.call = "None" /\ app'.result = "false"
  BY <1>1, Typed DEF Returns, App
<1>3. Unanswered \/ Broken
  BY <1>1, AddedToEmpty DEF OneCall, Resting, Posted, Waiting, Asking, HasAnswer, SignAsked,
     Signed, Replying, Working
<1>4. CASE Unanswered
  <2>1. /\ granted.user = NoUser /\ client.state # "Authenticated" /\ client.accepted
        /\ Calm /\ mailbox = <<>>
    BY <1>4 DEF Unanswered
  <2>2. Resting'
    BY <1>1, <1>2, <2>1, SessionStays DEF Resting
  <2> QED BY <2>2 DEF OneCall
<1>5. CASE Broken
  <2>1. FewRequests => FewRequests'
    BY <1>1, QueuesStay DEF FewRequests, SessionSide, ServerSide
  <2>2. Broken'
    BY <1>1, <1>2, <1>5, <2>1 DEF Broken, SessionSide
  <2> QED BY <2>2 DEF OneCall
<1> QED BY <1>3, <1>4, <1>5

-----------------------------------------------------------------------------
(* The second invariant holds. *)

LEMMA CallInit ==
    ASSUME Init
    PROVE  CallInvariant
<1>1. /\ toClient = <<>> /\ toServer = <<Plain("SERVICE_REQUEST")>>
      /\ mailbox = <<>> /\ replies = <<>> /\ granted.user = NoUser
      /\ app.call = "None" /\ app.result = "none"
      /\ client.state = "WaitingServiceRequest" /\ ~client.accepted /\ ~client.signing
      /\ client.auth_method = "None" /\ server.state = "WaitingServiceRequest"
  BY DEF Init
<1>2. Plain("SERVICE_REQUEST").type = "SERVICE_REQUEST"
  BY DEF Plain
<1>3. NoRequest /\ NoAnswer
  BY <1>1, <1>2, OnlySingle, OnlyEmpty DEF NoRequest, NoAnswer
<1>4. ServiceWanted
  BY <1>1, <1>2, AddedToEmpty DEF ServiceWanted
<1>5. Resting
  BY <1>1, <1>3 DEF Resting, Calm
<1>6. Mutual
  BY <1>1, OnlyEmpty DEF Mutual, SuccessSaid
<1> QED BY <1>1, <1>4, <1>5, <1>6 DEF CallInvariant, Service, OneCall

(* A connection keeps its kind of client, a call that was given up stays    *)
(* given up, and an external client's Handle is never called.               *)
LEMMA KindKept ==
    ASSUME IInv, Next
    PROVE  /\ client'.kind = client.kind
           /\ app.abandoned => app'.abandoned
           /\ client.kind = "external" => app'.result = app.result
<1>1. client \in Client /\ app \in App
  BY Typed
<1>2. CASE ServerStep
  <2>1. UNCHANGED <<client, app>>
    BY <1>2 DEF ServerStep, ServerAcceptService, ServerPassword, ServerProbe, ServerSigned,
       ServerInteractive, ServerOtherMethod, ServerInfoResponse, ServerAuthenticated,
       ServerIgnores, ClientSide
  <2> QED BY <2>1
<1>3. CASE ClientStep
  <2>1. app' = app
    BY <1>3 DEF ClientStep, ClientServiceAccepted, ClientBanner, ClientInconsistent,
       ClientRefused, ClientSuccess, ClientPkOk, ClientWaitsForSigned, ClientAuthenticate,
       ClientHangup
  <2>2. client'.kind = client.kind
    BY <1>1, <1>3 DEF ClientStep, ClientServiceAccepted, ClientBanner, ClientInconsistent,
       ClientRefused, ClientSuccess, ClientPkOk, ClientWaitsForSigned, ClientAuthenticate,
       ClientHangup, Handled, Taken, Stored, Client
  <2> QED BY <2>1, <2>2
<1>4. CASE AppAuthenticate \/ AppAnswers \/ AppDropsCall
  <2>1. client' = client
    BY <1>4 DEF AppAuthenticate, AppAnswers, AppReply, AppSigns, AppSessionGone, AppDropsCall,
       SessionSide
  <2>2. app.abandoned => app'.abandoned
    BY <1>1, <1>4 DEF AppAuthenticate, AppAnswers, AppReply, AppSigns, AppSessionGone,
       AppDropsCall, Returns, App
  <2>3. client.kind # "external"
    <3>1. client.kind = "external" => app.call = "None"
      BY DEF IInv, ExternalInvariant
    <3> QED BY <1>4, <3>1 DEF AppAuthenticate, AppAnswers, AppReply, AppSigns, AppSessionGone,
           AppDropsCall
  <2> QED BY <2>1, <2>2, <2>3
<1>5. CASE ClientOpens \/ ExternalReads
  <2>1. app' = app
    BY <1>5 DEF ClientOpens, ExternalReads
  <2>2. client'.kind = client.kind
    BY <1>1, <1>5 DEF ClientOpens, ExternalReads, Client
  <2> QED BY <2>1, <2>2
<1>6. CASE ExternalRequest \/ ExternalResponds
  <2>1. client'.kind = client.kind
    BY <1>1, <1>6 DEF ExternalRequest, ExternalResponds, Client
  <2>2. app'.abandoned = app.abandoned /\ app'.result = app.result
    BY <1>1, <1>6 DEF ExternalRequest, ExternalResponds, Spends, App
  <2> QED BY <2>1, <2>2
<1> QED BY <1>2, <1>3, <1>4, <1>5, <1>6 DEF Next

LEMMA CallStepKeeps ==
    ASSUME IInv, CallInvariant, [Next]_vars
    PROVE  CallInvariant'
<1>1. CASE UNCHANGED vars
  BY <1>1 DEF vars, CallInvariant, Mutual, Stayed, SuccessSaid, PastAuth, Only, Service, ServiceWanted,
     ServiceGiven, ServiceTaken, OneCall, NoRequest, NoAnswer, Calm, EndsWith, Calling, Working,
     Up, Resting, Posted, Waiting, Asking, HasAnswer, SignAsked, Signed, Replying, Unanswered,
     Broken, FewRequests
<1>2. CASE Next
  <2>1. /\ Mutual /\ (client.kind = "thrussh" => Service)
        /\ client.kind = "thrussh" /\ ~app.abandoned => OneCall
        /\ client.kind = "external" => app.result = "none"
    BY DEF CallInvariant
  <2>2. /\ client'.kind = client.kind
        /\ app.abandoned => app'.abandoned
        /\ client.kind = "external" => app'.result = app.result
    BY <1>2, KindKept
  <2>3. Mutual'
    BY <1>2, <2>1, ServerMutual, OthersMutual DEF Next
  <2>4. ASSUME client.kind = "thrussh"
        PROVE  \/ ServerStep \/ ClientStep
               \/ AppAuthenticate \/ AppAnswers \/ AppDropsCall \/ ClientOpens
    BY <1>2, <2>4 DEF Next, ExternalRequest, ExternalReads, ExternalResponds, External
  <2>5. client.kind = "thrussh" => Service'
    BY <2>1, <2>4, ServerService, OthersService
  <2>6. ASSUME client.kind = "thrussh", ~app'.abandoned
        PROVE  OneCall'
    <3>1. Service /\ OneCall
      BY <2>1, <2>2, <2>6
    <3>2. ~AppDropsCall
      BY <2>6, Typed DEF AppDropsCall, App
    <3> QED BY <2>4, <2>6, <3>1, <3>2, ServerCall, ClientCall, OpensCall, AuthenticateAsked,
           ReplyCall, SignsCall, SessionGoneCall DEF AppAnswers
  <2> QED BY <2>1, <2>2, <2>3, <2>5, <2>6 DEF CallInvariant
<1> QED BY <1>1, <1>2

LEMMA CallAlways == Spec => [](IInv /\ CallInvariant)
<1>1. Init => IInv /\ CallInvariant
  BY InitHolds, CallInit
<1>2. IInv /\ CallInvariant /\ [Next]_vars => IInv' /\ CallInvariant'
  BY StepKeeps, CallStepKeeps
<1> QED BY <1>1, <1>2, PTL DEF Spec

(* What the two invariants say of a call that has returned. *)
LEMMA CallSeen ==
    ASSUME IInv, CallInvariant
    PROVE  SuccessIsMutual /\ TrueIsOwnSuccess /\ FalseIsRefusal
<1>1. SuccessIsMutual
  BY DEF CallInvariant, Mutual, Stayed, SuccessSaid, SuccessIsMutual
<1>2. ASSUME ~app.abandoned, app.result = "true"
      PROVE  granted.user = app.user
  <2>1. OneCall
    BY <1>2, Typed DEF CallInvariant
  <2>2. Resting
    BY <1>2, <2>1 DEF OneCall, Posted, Waiting, Asking, HasAnswer, SignAsked, Signed, Replying,
       Unanswered, Broken, Working, Calling
  <2> QED BY <1>2, <2>2 DEF Resting
<1>3. ASSUME ~app.abandoned, app.result = "false", client.status \in {"up", "NoAuthMethod"}
      PROVE  granted.user = NoUser
  <2>1. OneCall
    BY <1>3, Typed DEF CallInvariant
  <2>2. Resting
    BY <1>3, <2>1 DEF OneCall, Posted, Waiting, Asking, HasAnswer, SignAsked, Signed, Replying,
       Unanswered, Broken, Working, Calling
  <2> QED BY <1>3, <2>2 DEF Resting
<1> QED BY <1>1, <1>2, <1>3 DEF TrueIsOwnSuccess, FalseIsRefusal

(* A client that has read SUCCESS is past authentication at the server too, *)
(* whatever was asked and answered before, with the exception the code      *)
(* makes for an accepted USERAUTH_INFO_RESPONSE (read_userauth_info_response *)
(* leaves the state as it was).                                             *)
THEOREM SuccessAgreed == Spec => []SuccessIsMutual
<1>1. IInv /\ CallInvariant => SuccessIsMutual
  BY CallSeen
<1> QED BY <1>1, CallAlways, PTL

(* As long as the application waited for every call's answer, a call that   *)
(* returned true was answered by the SUCCESS of its own user, however often *)
(* it called before with other users and methods (the loops over the        *)
(* replies in authenticate_password, _publickey and _future).               *)
THEOREM TrueIsOwn == Spec => []TrueIsOwnSuccess
<1>1. IInv /\ CallInvariant => TrueIsOwnSuccess
  BY CallSeen
<1> QED BY <1>1, CallAlways, PTL

(* And one that returned false left nobody authenticated, as long as        *)
(* neither the session nor the server broke down meanwhile: no SUCCESS is   *)
(* on its way that a later call would mistake for its own.                  *)
THEOREM FalseIsRefused == Spec => []FalseIsRefusal
<1>1. IInv /\ CallInvariant => FalseIsRefusal
  BY CallSeen
<1> QED BY <1>1, CallAlways, PTL

-----------------------------------------------------------------------------
(* The key of a signature, by a third invariant: what a thrussh client      *)
(* signs lies right behind the probe of the same key, and when that probe   *)
(* has been handled a PK_OK that is outstanding is the PK_OK of that key.   *)
PkFor(key) ==
    server.status = "up" /\ ~PastAuth(server) /\ server.current = "PublicKey" =>
        vouched.key = key

Probe(request, key) ==
    request.type = "USERAUTH_REQUEST" /\ request.method = "probe" /\ request.key = key

NothingYet == server.state = "WaitingServiceRequest" => server.current = "None"

SignedBehindProbe ==
    \A i \in 1..Len(toServer) : toServer[i].method = "signed" =>
        \/ i = 1 /\ PkFor(toServer[i].key)
        \/ i > 1 /\ Probe(toServer[i - 1], toServer[i].key)

MaySign ==
    /\ client.state = "WaitingAuthRequest"
    /\ client.signing \/ client.auth_method \in {"PublicKey", "FuturePublicKey"}

ProbedLast ==
    MaySign =>
        \/ toServer = <<>> /\ PkFor(client.key)
        \/ toServer # <<>> /\ Probe(toServer[Len(toServer)], client.key)

JudgedKey == granted.user # NoUser => granted.key = vouched.key

KeyInvariant ==
    client.kind = "thrussh" => NothingYet /\ SignedBehindProbe /\ ProbedLast /\ JudgedKey

LEMMA ServerJudges ==
    ASSUME IInv, client.kind = "thrussh", NothingYet, SignedBehindProbe, JudgedKey, ServerStep
    PROVE  /\ toServer # <<>> /\ toServer' = Tail(toServer) /\ UNCHANGED ClientSide
           /\ NothingYet' /\ JudgedKey'
           /\ \A key : Probe(Head(toServer), key) => PkFor(key)'
<1> DEFINE request == Head(toServer)
<1>1. /\ server \in Server /\ vouched \in Vouched /\ granted \in Granted
      /\ toServer \in Seq(Request) /\ NoUser \notin Users
  BY Typed, AuthAssumption DEF TypeOK
<1>2. /\ toServer # <<>> /\ toServer' = Tail(toServer) /\ UNCHANGED ClientSide
  BY DEF ServerStep, ServerAcceptService, ServerPassword, ServerProbe, ServerSigned,
     ServerInteractive, ServerOtherMethod, ServerInfoResponse, ServerAuthenticated,
     ServerIgnores, ReadsAuthRequest, ServerReads, Answers, HandlerFails, Grants, Rejects,
     Verified, RepliesInfo
<1>3. request = toServer[1] /\ 1 \in 1..Len(toServer)
  BY <1>1, <1>2, Removed
<1>4. granted.user # NoUser => PastAuth(server)
  BY DEF IInv, ThrusshInvariant
<1>5. server.state = "WaitingAuthRequest" => granted.user = NoUser
  BY <1>4 DEF PastAuth
<1>6. request.method # "keyboard-interactive" /\ server.current # "KeyboardInteractive"
  BY <1>3 DEF IInv, ThrusshInvariant
<1>7. CASE ServerAcceptService
  <2>1. /\ server' = [server EXCEPT !.state = "WaitingAuthRequest"]
        /\ UNCHANGED <<vouched, granted>> /\ server.current = "None"
    BY <1>7 DEF ServerAcceptService, Answers, NothingYet
  <2>2. server'.current = "None"
    BY <1>1, <2>1 DEF Server
  <2> QED BY <1>2, <2>1, <2>2 DEF NothingYet, JudgedKey, PkFor
<1>8. CASE ServerPassword
  <2>1. request.method = "password" /\ server.state = "WaitingAuthRequest"
    BY <1>8 DEF ServerPassword, ReadsAuthRequest
  <2>2. server'.state # "WaitingServiceRequest"
    BY <1>1, <1>8, <2>1 DEF ServerPassword, HandlerFails, Grants, Rejects, Rejected, Answers,
       Succeeded, Server
  <2>3. JudgedKey'
    BY <1>1, <1>5, <1>8, <2>1 DEF ServerPassword, HandlerFails, Asked, Grants, Rejects, JudgedKey
  <2> QED BY <1>2, <2>1, <2>2, <2>3 DEF NothingYet, Probe
<1>9. CASE ServerProbe
  <2>1. server.state = "WaitingAuthRequest"
    BY <1>9 DEF ServerProbe, ReadsAuthRequest
  <2>2. granted' = granted
    BY <1>9 DEF ServerProbe, HandlerFails, Rejects
  <2>3. /\ server'.state # "WaitingServiceRequest"
        /\ \/ server'.status = "closed"
           \/ vouched'.key = request.key
           \/ server'.current = "None"
    <3>1. \/ server' = [server EXCEPT !.status = "closed"]
          \/ /\ vouched' = [user |-> request.user, key |-> request.key]
             /\ server' = [server EXCEPT !.auth_user = request.user, !.current = "PublicKey"]
          \/ server' = Rejected([server EXCEPT !.auth_user = NoUser])
      BY <1>9 DEF ServerProbe, HandlerFails, Asked, Rejects, Answers
    <3>2. CASE server' = [server EXCEPT !.status = "closed"]
      BY <1>1, <2>1, <3>2 DEF Server
    <3>3. CASE /\ vouched' = [user |-> request.user, key |-> request.key]
               /\ server' = [server EXCEPT !.auth_user = request.user,
                                           !.current = "PublicKey"]
      <4>1. vouched'.key = request.key
        BY <3>3
      <4> QED BY <1>1, <2>1, <3>3, <4>1 DEF Server
    <3>4. CASE server' = Rejected([server EXCEPT !.auth_user = NoUser])
      BY <1>1, <2>1, <3>4 DEF Server, Rejected
    <3> QED BY <3>1, <3>2, <3>3, <3>4
  <2> QED BY <1>2, <1>5, <2>1, <2>2, <2>3 DEF NothingYet, JudgedKey, Probe, PkFor
<1>10. CASE ServerSigned
  <2>1. request.method = "signed" /\ server.state = "WaitingAuthRequest" /\ server.status = "up"
    BY <1>10 DEF ServerSigned, ReadsAuthRequest, ServerReads
  <2>2. server'.state # "WaitingServiceRequest"
    BY <1>1, <1>10, <2>1 DEF ServerSigned, Verified, HandlerFails, Grants, Rejects, Rejected,
       Answers, Succeeded, Server
  <2>3. PkOkSent(server, request.user) => vouched.key = request.key
    BY <1>3, <2>1 DEF SignedBehindProbe, PkFor, PkOkSent, PastAuth
  <2>4. JudgedKey'
    BY <1>1, <1>5, <1>10, <2>1, <2>3 DEF ServerSigned, Verified, HandlerFails, Asked, Grants,
       Rejects, JudgedKey
  <2> QED BY <1>2, <2>1, <2>2, <2>4 DEF NothingYet, Probe
<1>11. CASE ServerOtherMethod
  <2>1. request.method = "none" /\ server.state = "WaitingAuthRequest"
        /\ UNCHANGED <<vouched, granted>>
    BY <1>11 DEF ServerOtherMethod, ReadsAuthRequest, Rejects
  <2>2. server'.state # "WaitingServiceRequest"
    BY <1>1, <1>11, <2>1 DEF ServerOtherMethod, Rejects, Rejected, Answers, Server
  <2> QED BY <1>2, <2>1, <2>2 DEF NothingYet, JudgedKey, Probe
<1>12. CASE ServerInfoResponse
  <2>1. request.type = "INFO_RESPONSE" /\ server.state = "WaitingAuthRequest"
        /\ UNCHANGED <<vouched, granted>>
    BY <1>6, <1>12 DEF ServerInfoResponse, ServerReads, Rejects
  <2>2. server'.state # "WaitingServiceRequest"
    BY <1>1, <1>6, <1>12, <2>1 DEF ServerInfoResponse, Rejects, Rejected, Answers, Server
  <2> QED BY <1>2, <2>1, <2>2 DEF NothingYet, JudgedKey, Probe
<1>13. CASE ServerAuthenticated
  <2>1. server' = [server EXCEPT !.state = "Authenticated"] /\ UNCHANGED <<vouched, granted>>
    BY <1>13 DEF ServerAuthenticated, Answers
  <2>2. server'.state = "Authenticated"
    BY <1>1, <2>1 DEF Server
  <2> QED BY <1>2, <2>1, <2>2 DEF NothingYet, JudgedKey, PkFor, PastAuth
<1>14. CASE ServerIgnores
  <2>1. /\ server' = server /\ UNCHANGED <<vouched, granted>>
        /\ ~PastAuth(server) /\ ~Fits(server, request.type)
    BY <1>14 DEF ServerIgnores, Answers
  <2>2. request.type = "USERAUTH_REQUEST" => server.state = "WaitingServiceRequest"
    BY <1>1, <2>1 DEF PastAuth, Fits, Server
  <2> QED BY <1>2, <2>1, <2>2 DEF NothingYet, JudgedKey, Probe, PkFor
<1>15. ~ServerInteractive
  BY <1>6 DEF ServerInteractive, ReadsAuthRequest
<1> QED BY <1>7, <1>8, <1>9, <1>10, <1>11, <1>12, <1>13, <1>14, <1>15 DEF ServerStep

(* A packet handled moves the others up.                                    *)
LEMMA PacketTaken ==
    ASSUME IInv, client.kind = "thrussh", KeyInvariant,
           toServer # <<>>, toServer' = Tail(toServer), client' = client,
           NothingYet', JudgedKey',
           \A key : Probe(Head(toServer), key) => PkFor(key)'
    PROVE  KeyInvariant'
<1>1. NothingYet /\ SignedBehindProbe /\ ProbedLast /\ JudgedKey
  BY DEF KeyInvariant
<1>2. /\ toServer # <<>> /\ toServer' = Tail(toServer) /\ client' = client
      /\ NothingYet' /\ JudgedKey'
      /\ \A key : Probe(Head(toServer), key) => PkFor(key)'
  OBVIOUS
<1>3. /\ Len(toServer) \in Nat /\ Len(toServer) >= 1 /\ Head(toServer) = toServer[1]
      /\ Len(toServer') = Len(toServer) - 1
      /\ \A i \in 1..(Len(toServer) - 1) : toServer'[i] = toServer[i + 1]
      /\ Len(toServer) = 1 => toServer' = <<>>
  BY <1>2, Typed, Removed
<1>4. SignedBehindProbe'
  <2> SUFFICES ASSUME NEW i \in 1..Len(toServer'), toServer'[i].method = "signed"
               PROVE  \/ i = 1 /\ PkFor(toServer[i].key)'
                      \/ i > 1 /\ Probe(toServer'[i - 1], toServer'[i].key)
    BY DEF SignedBehindProbe, Probe, PkFor
  <2>1. /\ i + 1 \in 1..Len(toServer) /\ i + 1 > 1 /\ (i + 1) - 1 = i
        /\ toServer'[i] = toServer[i + 1]
    BY <1>3
  <2>2. Probe(toServer[i], toServer[i + 1].key)
    BY <1>1, <2>1 DEF SignedBehindProbe
  <2>3. CASE i = 1
    BY <1>2, <1>3, <2>1, <2>2, <2>3
  <2>4. CASE i # 1
    <3>1. i > 1 /\ i - 1 \in 1..(Len(toServer) - 1) /\ (i - 1) + 1 = i
      BY <1>3, <2>4
    <3>2. toServer'[i - 1] = toServer[i]
      BY <1>3, <3>1
    <3> QED BY <2>1, <2>2, <3>1, <3>2
  <2> QED BY <2>3, <2>4
<1>5. ProbedLast'
  <2> SUFFICES ASSUME MaySign
               PROVE  \/ toServer' = <<>> /\ PkFor(client.key)'
                      \/ toServer' # <<>> /\ Probe(toServer'[Len(toServer')], client.key)
    BY <1>2 DEF ProbedLast, MaySign, PkFor, Probe
  <2>1. Probe(toServer[Len(toServer)], client.key)
    BY <1>1, <1>2 DEF ProbedLast
  <2>2. CASE Len(toServer) = 1
    BY <1>2, <1>3, <2>1, <2>2
  <2>3. CASE Len(toServer) # 1
    <3>1. /\ Len(toServer) - 1 \in 1..(Len(toServer) - 1)
          /\ (Len(toServer) - 1) + 1 = Len(toServer)
      BY <1>3, <2>3
    <3>2. toServer'[Len(toServer')] = toServer[Len(toServer)]
      BY <1>3, <3>1
    <3>3. Len(toServer') # 0
      BY <1>3, <3>1
    <3>4. toServer' # <<>>
      BY <3>3
    <3> QED BY <2>1, <3>2, <3>4
  <2> QED BY <2>2, <2>3
<1> QED BY <1>2, <1>4, <1>5 DEF KeyInvariant

LEMMA ServerKey ==
    ASSUME IInv, client.kind = "thrussh", KeyInvariant, ServerStep
    PROVE  KeyInvariant'
BY ServerJudges, PacketTaken DEF KeyInvariant, ClientSide

(* What the client adds to the queue.                                       *)
LEMMA SignedAdded ==
    ASSUME IInv, SignedBehindProbe, NEW request \in Request,
           UNCHANGED <<server, vouched>>,
           toServer' = toServer \o <<request>>,
           request.method = "signed" =>
               \/ toServer = <<>> /\ PkFor(request.key)
               \/ toServer # <<>> /\ Probe(toServer[Len(toServer)], request.key)
    PROVE  /\ SignedBehindProbe'
           /\ toServer' # <<>> /\ toServer'[Len(toServer')] = request
<1>1. /\ Len(toServer) \in Nat /\ Len(toServer') = Len(toServer) + 1
      /\ toServer' # <<>> /\ toServer'[Len(toServer) + 1] = request
      /\ \A i \in 1..Len(toServer) : toServer'[i] = toServer[i]
  BY Typed, Added
<1>2. SignedBehindProbe'
  <2> SUFFICES ASSUME NEW i \in 1..Len(toServer'), toServer'[i].method = "signed"
               PROVE  \/ i = 1 /\ PkFor(toServer'[i].key)
                      \/ i > 1 /\ Probe(toServer'[i - 1], toServer'[i].key)
    BY DEF SignedBehindProbe, Probe, PkFor, PastAuth
  <2>1. CASE i \in 1..Len(toServer)
    <3>1. toServer'[i] = toServer[i] /\ (i > 1 => toServer'[i - 1] = toServer[i - 1])
      BY <1>1, <2>1
    <3> QED BY <2>1, <3>1 DEF SignedBehindProbe
  <2>2. CASE i \notin 1..Len(toServer)
    <3>1. i = Len(toServer) + 1 /\ toServer'[i] = request
      BY <1>1, <2>2
    <3>2. CASE toServer = <<>>
      BY <3>1, <3>2
    <3>3. CASE toServer # <<>>
      <4>1. Len(toServer) # 0
        BY <3>3, Typed, EmptySeq
      <4>2. Len(toServer) \in 1..Len(toServer) /\ i > 1 /\ i - 1 = Len(toServer)
        BY <1>1, <3>1, <4>1
      <4> QED BY <1>1, <3>1, <3>3, <4>2
    <3> QED BY <3>2, <3>3
  <2> QED BY <2>1, <2>2
<1> QED BY <1>1, <1>2

(* Steps of the client and of the application: no queue moves, a probe goes *)
(* out, or the signature that answers PK_OK.                                *)
LEMMA QuietKey ==
    ASSUME KeyInvariant, UNCHANGED <<server, vouched, granted, toServer>>,
           client'.kind = client.kind, client.kind = "thrussh",
           MaySign' => MaySign /\ client'.key = client.key
    PROVE  KeyInvariant'
<1>1. NothingYet /\ SignedBehindProbe /\ ProbedLast /\ JudgedKey
  BY DEF KeyInvariant
<1>2. NothingYet' /\ SignedBehindProbe' /\ JudgedKey'
  BY <1>1 DEF NothingYet, SignedBehindProbe, JudgedKey, PkFor, PastAuth, Probe
<1>3. ProbedLast'
  BY <1>1 DEF ProbedLast, PkFor, PastAuth, Probe
<1> QED BY <1>2, <1>3 DEF KeyInvariant

LEMMA AddsKey ==
    ASSUME IInv, KeyInvariant, NEW request \in Request,
           UNCHANGED <<server, vouched, granted>>, toServer' = toServer \o <<request>>,
           client'.kind = client.kind, client.kind = "thrussh",
           request.method = "signed" => MaySign /\ request.key = client.key,
           MaySign' => Probe(request, client'.key)
    PROVE  KeyInvariant'
<1>1. NothingYet /\ SignedBehindProbe /\ ProbedLast /\ JudgedKey
  BY DEF KeyInvariant
<1>2. SignedBehindProbe' /\ toServer' # <<>> /\ toServer'[Len(toServer')] = request
  <2>1. request.method = "signed" =>
            \/ toServer = <<>> /\ PkFor(request.key)
            \/ toServer # <<>> /\ Probe(toServer[Len(toServer)], request.key)
    BY <1>1 DEF ProbedLast
  <2> QED BY <1>1, <2>1, SignedAdded
<1>3. NothingYet' /\ JudgedKey'
  BY <1>1 DEF NothingYet, JudgedKey
<1>4. ProbedLast'
  BY <1>2 DEF ProbedLast, Probe
<1> QED BY <1>2, <1>3, <1>4 DEF KeyInvariant

LEMMA ClientKey ==
    ASSUME IInv, client.kind = "thrussh", KeyInvariant,
           \/ ClientStep \/ AppAuthenticate \/ AppAnswers \/ AppDropsCall \/ ClientOpens
    PROVE  KeyInvariant'
<1>1. client \in Client /\ (client.signing => client.state = "WaitingAuthRequest")
  BY Typed
<1>2. UNCHANGED <<server, vouched, granted>>
  BY DEF ClientStep, ClientServiceAccepted, ClientBanner, ClientInconsistent, ClientRefused,
     ClientSuccess, ClientPkOk, ClientWaitsForSigned, ClientAuthenticate, ClientHangup,
     AppAuthenticate, AppAnswers, AppReply, AppSigns, AppSessionGone, AppDropsCall, ClientOpens,
     ServerSide
<1>3. toServer \o <<>> = toServer
  BY Typed, Kept
<1>4. CASE ClientServiceAccepted
  <2> DEFINE cl == [client EXCEPT !.accepted = TRUE]
             r  == WriteAuthRequest(cl.auth_user, cl.auth_method, cl.key)
  <2>1. cl \in Client /\ cl.state = client.state /\ cl.kind = client.kind
        /\ cl.signing = client.signing
    BY <1>1 DEF Client
  <2>2. client.state = "WaitingServiceRequest" /\ ~client.signing
    BY <1>4 DEF ClientServiceAccepted, Thrussh, Takes
  <2>3. CASE cl.auth_method = "None"
    <3>1. client' = cl /\ toServer' = toServer
      BY <1>3, <1>4, <2>3 DEF ClientServiceAccepted, Handled
    <3>2. client'.kind = client.kind /\ ~MaySign'
      BY <2>1, <2>2, <3>1 DEF MaySign
    <3> QED BY <1>2, <3>1, <3>2, QuietKey
  <2>4. CASE cl.auth_method # "None"
    <3>1. client' = [cl EXCEPT !.state = "WaitingAuthRequest"] /\ toServer' = toServer \o <<r>>
      BY <1>4, <2>4 DEF ClientServiceAccepted, Handled
    <3>2. /\ client'.kind = client.kind /\ client'.key = cl.key /\ ~client'.signing
          /\ client'.auth_method = cl.auth_method
      BY <2>1, <2>2, <3>1 DEF Client
    <3>3. r \in Request /\ r.method # "signed"
          /\ (MaySign' => Probe(r, client'.key))
      <4>1. r \in Request
        BY <2>1 DEF WriteAuthRequest, AuthRequest, Request, Client
      <4> QED BY <3>2, <4>1 DEF MaySign, Probe, WriteAuthRequest, AuthRequest
    <3> HIDE DEF r
    <3> QED BY <1>2, <3>1, <3>2, <3>3, AddsKey
  <2> QED BY <2>3, <2>4
<1>5. CASE ClientBanner \/ ClientInconsistent \/ ClientRefused \/ ClientSuccess
  <2>1. toServer' = toServer
    BY <1>3, <1>5 DEF ClientBanner, ClientInconsistent, ClientRefused, ClientSuccess, Handled
  <2>2. /\ client'.kind = client.kind /\ client'.key = client.key
        /\ MaySign' => MaySign
    BY <1>1, <1>5 DEF ClientBanner, ClientInconsistent, ClientRefused, ClientSuccess, Handled,
       Taken, MaySign, Client
  <2> QED BY <1>2, <2>1, <2>2, QuietKey
<1>6. CASE ClientPkOk
  <2> DEFINE cl == Taken(client)
             r  == AuthRequest("signed", cl.auth_user, cl.key, TRUE)
  <2>1. /\ client.state = "WaitingAuthRequest" /\ ~client.signing
        /\ \/ /\ client.auth_method = "PublicKey"
              /\ client' = cl /\ toServer' = toServer \o <<r>>
           \/ /\ client.auth_method = "FuturePublicKey"
              /\ client' = [cl EXCEPT !.signing = TRUE] /\ toServer' = toServer
           \/ client' = cl /\ toServer' = toServer
    BY <1>3, <1>6 DEF ClientPkOk, Thrussh, Takes, Handled
  <2>2. /\ cl \in Client /\ cl.kind = client.kind /\ cl.key = client.key
        /\ cl.auth_method = "None" /\ cl.signing = client.signing
    BY <1>1 DEF Taken, Client
  <2>3. r \in Request /\ r.method = "signed" /\ r.key = client.key
    BY <2>2 DEF AuthRequest, Request, Client
  <2> HIDE DEF r, cl
  <2>4. CASE client.auth_method = "PublicKey" /\ client' = cl /\ toServer' = toServer \o <<r>>
    <3>1. MaySign /\ ~MaySign'
      BY <2>1, <2>2, <2>4 DEF MaySign
    <3> QED BY <1>2, <2>2, <2>3, <2>4, <3>1, AddsKey
  <2>5. CASE /\ client.auth_method = "FuturePublicKey"
             /\ client' = [cl EXCEPT !.signing = TRUE] /\ toServer' = toServer
    <3>1. MaySign /\ client'.kind = client.kind /\ client'.key = client.key
      BY <2>1, <2>2, <2>5 DEF MaySign, Client
    <3> QED BY <1>2, <2>5, <3>1, QuietKey
  <2>6. CASE client' = cl /\ toServer' = toServer
    <3>1. ~MaySign'
      BY <2>1, <2>2, <2>6 DEF MaySign
    <3> QED BY <1>2, <2>2, <2>6, <3>1, QuietKey
  <2> QED BY <2>1, <2>4, <2>5, <2>6
<1>7. CASE ClientWaitsForSigned
  <2> DEFINE valid == Head(mailbox).signature = "good"
             r     == AuthRequest("signed", client.auth_user, client.key, valid)
  <2>1. client.signing /\ client.state = "WaitingAuthRequest"
        /\ client.auth_method = "None"
    BY <1>7, Typed DEF ClientWaitsForSigned, TypeOK
  <2>2. \/ client' = client /\ toServer' = toServer
        \/ /\ client' = [client EXCEPT !.signing = FALSE]
           /\ toServer' = toServer \/ toServer' = toServer \o <<r>>
    BY <1>3, <1>7 DEF ClientWaitsForSigned
  <2>3. r \in Request /\ r.method = "signed" /\ r.key = client.key
    <3>1. valid \in BOOLEAN
      OBVIOUS
    <3> HIDE DEF valid
    <3> QED BY <1>1, <3>1 DEF AuthRequest, Request, Client
  <2> HIDE DEF r
  <2>4. CASE client' = client /\ toServer' = toServer
    <3>1. MaySign' => MaySign
      BY <2>4 DEF MaySign
    <3> QED BY <1>2, <2>4, <3>1, QuietKey
  <2>5. CASE /\ client' = [client EXCEPT !.signing = FALSE]
             /\ toServer' = toServer \/ toServer' = toServer \o <<r>>
    <3>1. MaySign /\ ~MaySign' /\ client'.kind = client.kind
      BY <1>1, <2>1, <2>5 DEF MaySign, Client
    <3>2. CASE toServer' = toServer
      BY <1>2, <3>1, <3>2, QuietKey
    <3>3. CASE toServer' = toServer \o <<r>>
      BY <1>2, <2>3, <3>1, <3>3, AddsKey
    <3> QED BY <2>5, <3>2, <3>3
  <2> QED BY <2>2, <2>4, <2>5
<1>8. CASE ClientAuthenticate
  <2> DEFINE msg == Head(mailbox)
             r   == WriteAuthRequest(msg.user, msg.method, msg.key)
  <2>1. /\ mailbox # <<>> /\ msg.type = "Authenticate" /\ ~client.signing
        /\ client' = Stored(client, msg)
        /\ IsWaiting(client) => toServer' = toServer \o <<r>>
        /\ ~IsWaiting(client) => toServer' = toServer
    BY <1>3, <1>8 DEF ClientAuthenticate
  <2>2. msg.user \in Name /\ msg.method \in Credential /\ msg.key \in Key
    BY <2>1, Typed, NextMsg DEF Name
  <2>3. /\ client'.kind = client.kind /\ client'.state = client.state
        /\ client'.signing = client.signing /\ client'.key = msg.key
        /\ client'.auth_method = msg.method
    BY <1>1, <2>1 DEF Stored, Client
  <2>4. /\ r \in Request /\ r.method # "signed"
        /\ MaySign' => Probe(r, client'.key)
    <3>1. r \in Request
      BY <2>2 DEF WriteAuthRequest, AuthRequest, Request
    <3> QED BY <2>1, <2>3, <3>1 DEF MaySign, Probe, WriteAuthRequest, AuthRequest
  <2> HIDE DEF r
  <2>5. CASE IsWaiting(client)
    BY <1>2, <2>1, <2>3, <2>4, <2>5, AddsKey
  <2>6. CASE ~IsWaiting(client)
    <3>1. ~MaySign'
      BY <2>3, <2>6 DEF MaySign, IsWaiting
    <3> QED BY <1>2, <2>1, <2>3, <2>6, <3>1, QuietKey
  <2> QED BY <2>5, <2>6
<1>9. CASE ClientHangup
  <2>1. toServer' = toServer /\ client' = [client EXCEPT !.status = "closed"]
    BY <1>9 DEF ClientHangup
  <2>2. client'.kind = client.kind /\ client'.key = client.key /\ (MaySign' => MaySign)
    BY <1>1, <2>1 DEF MaySign, Client
  <2> QED BY <1>2, <2>1, <2>2, QuietKey
<1>10. CASE AppAuthenticate \/ AppAnswers \/ AppDropsCall
  <2>1. toServer' = toServer /\ client' = client
    BY <1>10 DEF AppAuthenticate, AppAnswers, AppReply, AppSigns, AppSessionGone, AppDropsCall,
       SessionSide
  <2>2. MaySign' => MaySign
    BY <2>1 DEF MaySign
  <2> QED BY <1>2, <2>1, <2>2, QuietKey
<1>11. CASE ClientOpens
  <2> DEFINE r == Plain("CHANNEL_OPEN")
  <2>1. /\ client.state = "Authenticated" /\ client' = [client EXCEPT !.opened = TRUE]
        /\ toServer' = Append(toServer, r)
    BY <1>11 DEF ClientOpens
  <2>2. r \in Request /\ r.method # "signed"
    BY NoKeyIsKey DEF Plain, Request, Name
  <2> HIDE DEF r
  <2>3. toServer' = toServer \o <<r>>
    BY <2>1, <2>2, Typed, Added
  <2>4. client'.kind = client.kind /\ ~MaySign'
    BY <1>1, <2>1 DEF MaySign, Client
  <2> QED BY <1>2, <2>2, <2>3, <2>4, AddsKey
<1> QED BY <1>4, <1>5, <1>6, <1>7, <1>8, <1>9, <1>10, <1>11 DEF ClientStep

LEMMA KeyInit == Init => KeyInvariant
<1> SUFFICES ASSUME Init PROVE KeyInvariant
  OBVIOUS
<1>1. /\ server.current = "None" /\ client.state = "WaitingServiceRequest"
      /\ toServer = <<Plain("SERVICE_REQUEST")>> /\ granted.user = NoUser
  BY DEF Init
<1>2. SignedBehindProbe
  BY <1>1 DEF SignedBehindProbe, Plain
<1> QED BY <1>1, <1>2 DEF KeyInvariant, NothingYet, ProbedLast, MaySign, JudgedKey

LEMMA KeyStepKeeps ==
    ASSUME IInv, KeyInvariant, [Next]_vars
    PROVE  KeyInvariant'
<1>1. CASE UNCHANGED vars
  BY <1>1 DEF vars, KeyInvariant, NothingYet, SignedBehindProbe, ProbedLast, MaySign, JudgedKey,
     PkFor, PastAuth, Probe
<1>2. CASE Next
  <2>1. client'.kind = client.kind
    BY <1>2, KindKept
  <2>2. CASE client.kind = "thrussh"
    <3>1. \/ ServerStep \/ ClientStep
          \/ AppAuthenticate \/ AppAnswers \/ AppDropsCall \/ ClientOpens
      BY <1>2, <2>2 DEF Next, ExternalRequest, ExternalReads, ExternalResponds, External
    <3> QED BY <2>2, <3>1, ServerKey, ClientKey
  <2>3. CASE client.kind # "thrussh"
    BY <2>1, <2>3 DEF KeyInvariant
  <2> QED BY <2>2, <2>3
<1> QED BY <1>1, <1>2

(* A thrussh client is let in with the key that signed, and that is the key *)
(* the handler accepted, whatever calls it makes and gives up: the server   *)
(* does not compare the two (sent_pk_ok in server_read_auth_request_pk), the *)
(* client never lets a PK_OK that is outstanding meet another key.          *)
THEOREM SignedByTheJudged == Spec => []KeyWasJudged
<1>1. Init => IInv /\ KeyInvariant
  BY InitHolds, KeyInit
<1>2. IInv /\ KeyInvariant /\ [Next]_vars => IInv' /\ KeyInvariant'
  BY StepKeeps, KeyStepKeeps
<1>3. KeyInvariant => KeyWasJudged
  BY DEF KeyInvariant, JudgedKey, KeyWasJudged
<1> QED BY <1>1, <1>2, <1>3, PTL DEF Spec

=============================================================================
