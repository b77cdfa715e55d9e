------------------------- MODULE ChannelLifeProofs -------------------------
(***************************************************************************)
(* Theorems about ChannelLife, for all sets of calls and forwards and all  *)
(* bounds.  Core says that the numbers the two sides have exchanged never  *)
(* lead to another channel, and that nobody is told that a channel is open *)
(* before the other side has entered it.  Story adds what both sides keep  *)
(* as long as it is needed, which explains how a session can end.          *)
(* Accounted keeps the books of requests and answers together: no answer   *)
(* without a request that wanted it.                                       *)
(***************************************************************************)
EXTENDS ChannelLife, FiniteSetTheorems, FunctionTheorems, TLAPS

-----------------------------------------------------------------------------
(* The inductive invariant. *)

(* The number was given to channel ch, and is not some other channel's now. *)
Owned(side, num, ch) ==
    /\ num <= side.last_channel_id
    /\ num \in DOMAIN side.channels => side.channels[num].of = ch

Numbered(side) == DOMAIN side.channels \subseteq 2..side.last_channel_id

Entries(side, other) ==
    \A id \in DOMAIN side.channels :
        Owned(other, side.channels[id].recipient_channel, side.channels[id].of)

Asking == {"OPEN", "OPEN_OTHER"}

UpGood(p, c, s, a) ==
    /\ p.type \in Asking =>
          Owned(c, p.num, p.of) /\ p.of \in Calls /\ a[p.of].phase # "none"
    /\ p.type \notin Asking => Owned(s, p.num, p.of)

DownGood(p, c, s, l) ==
    /\ p.type = "OPEN" => Owned(s, p.num, p.of) /\ p.of \in l.asked
    /\ p.type = "CONFIRM" => Owned(s, p.from, p.of) /\ p.of \in s.served
    /\ p.type # "OPEN" /\ ~(p.type = "OPEN_FAILURE" /\ p.of \in l.refused)
          => Owned(c, p.num, p.of)

(* "Open" reaches a receiver only after the other side has entered it. *)
HeardGood(h, s) ==
    \A ch \in Calls : \A i \in DOMAIN h[ch] : h[ch][i].what = "Open" => ch \in s.served

Core ==
    /\ TypeOK
    /\ Numbered(client) /\ Numbered(server)
    /\ TablesAgree
    /\ Entries(client, server) /\ Entries(server, client)
    /\ \A i \in DOMAIN up : UpGood(up[i], client, server, app)
    /\ \A i \in DOMAIN down : DownGood(down[i], client, server, log)
    /\ HeardGood(heard, server)
    /\ \A ch \in Calls : app[ch].phase = "open" => ch \in server.served


-----------------------------------------------------------------------------
(* Numbers and tables. *)

(* new_channel returns a number above the last one that is not in use. *)
LEMMA NewIdIsNew ==
    ASSUME NEW side, side.last_channel_id \in Nat, side.last_channel_id < IdLimit,
           Numbered(side)
    PROVE  /\ NewId(side) \in side.last_channel_id + 1 .. IdLimit
           /\ NewId(side) \notin DOMAIN side.channels
<1> DEFINE first == side.last_channel_id + 1
<1>1. first \in first .. IdLimit
  BY ChannelAssumption
<1>2. /\ first \notin DOMAIN side.channels
      /\ \A k \in first .. first - 1 : k \in DOMAIN side.channels
  BY ChannelAssumption DEF Numbered
<1>3. \E n \in side.last_channel_id + 1 .. IdLimit :
          /\ n \notin DOMAIN side.channels
          /\ \A k \in side.last_channel_id + 1 .. n - 1 : k \in DOMAIN side.channels
  BY <1>1, <1>2
<1> QED
  BY <1>3 DEF NewId

(* What every step does to a side: its numbers only advance and an entry    *)
(* keeps its channel.                                                       *)
Extends(side, new) ==
    /\ side.last_channel_id <= new.last_channel_id
    /\ \A n \in DOMAIN new.channels :
          \/ /\ n \in DOMAIN side.channels
             /\ new.channels[n].of = side.channels[n].of
          \/ n > side.last_channel_id

LEMMA OwnedKept ==
    ASSUME NEW side, NEW new, NEW num \in Nat, NEW ch,
           side.last_channel_id \in Nat, new.last_channel_id \in Nat,
           DOMAIN new.channels \subseteq Nat,
           Extends(side, new), Owned(side, num, ch)
    PROVE  Owned(new, num, ch)
BY DEF Extends, Owned

(* The client's and the server's session, typed and numbered. *)
ClientOK(c) ==
    /\ IsSession(c, {"fate", "last_channel_id", "channels", "senders"})
    /\ IsTable(c.senders, Channels)
    /\ Numbered(c)
    /\ c.senders = [id \in DOMAIN c.channels |-> c.channels[id].of]

ServerOK(s) ==
    /\ IsSession(s, {"fate", "last_channel_id", "channels", "served"})
    /\ s.served \subseteq Calls
    /\ Numbered(s)

LEMMA EndsKeeps ==
    ASSUME NEW why \in Fates
    PROVE  /\ \A c : ClientOK(c) => ClientOK(Ends(c, why)) /\ Extends(c, Ends(c, why))
           /\ \A s : ServerOK(s) =>
                /\ ServerOK(Ends(s, why)) /\ Extends(s, Ends(s, why))
                /\ Ends(s, why).channels = s.channels /\ Ends(s, why).served = s.served
BY DEF ClientOK, ServerOK, IsSession, IsTable, Numbered, Ends, Extends

(* new_channel. *)
LEMMA OpenedServer ==
    ASSUME NEW s, ServerOK(s), s.last_channel_id < IdLimit,
           NEW entry \in EntrySet
    PROVE  LET id == NewId(s)
               new == Opened(s, id, entry)
           IN  /\ ServerOK(new) /\ Extends(s, new)
               /\ id \in 2..IdLimit /\ id > s.last_channel_id /\ id \notin DOMAIN s.channels
               /\ new.last_channel_id = id
               /\ new.channels[id] = entry
               /\ DOMAIN new.channels = DOMAIN s.channels \cup {id}
               /\ \A n \in DOMAIN s.channels : new.channels[n] = s.channels[n]
               /\ new.served = s.served /\ new.fate = s.fate
<1> DEFINE id == NewId(s)
           new == Opened(s, id, entry)
<1>1. s.last_channel_id \in 1..IdLimit /\ Numbered(s)
  BY DEF ServerOK, IsSession
<1>2. id \in s.last_channel_id + 1 .. IdLimit /\ id \notin DOMAIN s.channels
  BY <1>1, NewIdIsNew, ChannelAssumption
<1>3. /\ DOMAIN new = DOMAIN s
      /\ new.last_channel_id = id
      /\ new.channels = Insert(s.channels, id, entry)
      /\ new.served = s.served /\ new.fate = s.fate
  BY DEF Opened, ServerOK, IsSession
<1> HIDE DEF id, new
<1>4. id \in 2..IdLimit /\ id > s.last_channel_id
  BY <1>1, <1>2, ChannelAssumption
<1>5. /\ new.channels[id] = entry
      /\ DOMAIN new.channels = DOMAIN s.channels \cup {id}
      /\ \A n \in DOMAIN s.channels : new.channels[n] = s.channels[n]
  BY <1>2, <1>3 DEF Insert
<1>6. ServerOK(new)
  BY <1>1, <1>3, <1>4, <1>5, ChannelAssumption DEF ServerOK, IsSession, IsTable, Numbered
<1>7. Extends(s, new)
  BY <1>1, <1>3, <1>4, <1>5 DEF Extends
<1> QED
  BY <1>2, <1>3, <1>4, <1>5, <1>6, <1>7 DEF id, new

LEMMA OpenedClient ==
    ASSUME NEW c, ClientOK(c), c.last_channel_id < IdLimit,
           NEW entry \in EntrySet
    PROVE  LET id == NewId(c)
               new == [Opened(c, id, entry) EXCEPT !.senders = Insert(@, id, entry.of)]
           IN  /\ ClientOK(new) /\ Extends(c, new)
               /\ id \in 2..IdLimit /\ id > c.last_channel_id /\ id \notin DOMAIN c.channels
               /\ new.last_channel_id = id
               /\ new.channels[id] = entry
               /\ DOMAIN new.channels = DOMAIN c.channels \cup {id}
               /\ \A n \in DOMAIN c.channels : new.channels[n] = c.channels[n]
               /\ new.fate = c.fate
<1> DEFINE id == NewId(c)
           new == [Opened(c, id, entry) EXCEPT !.senders = Insert(@, id, entry.of)]
<1>1. c.last_channel_id \in 1..IdLimit /\ Numbered(c)
  BY DEF ClientOK, IsSession
<1>2. id \in c.last_channel_id + 1 .. IdLimit /\ id \notin DOMAIN c.channels
  BY <1>1, NewIdIsNew, ChannelAssumption
<1>3. /\ DOMAIN new = DOMAIN c
      /\ new.last_channel_id = id
      /\ new.channels = Insert(c.channels, id, entry)
      /\ new.senders = Insert(c.senders, id, entry.of)
      /\ new.fate = c.fate
  BY DEF Opened, ClientOK, IsSession
<1> HIDE DEF id, new
<1>4. id \in 2..IdLimit /\ id > c.last_channel_id
  BY <1>1, <1>2, ChannelAssumption
<1>5. /\ new.channels[id] = entry
      /\ DOMAIN new.channels = DOMAIN c.channels \cup {id}
      /\ \A n \in DOMAIN c.channels : new.channels[n] = c.channels[n]
  BY <1>2, <1>3 DEF Insert
<1>6. IsSession(new, {"fate", "last_channel_id", "channels", "senders"}) /\ Numbered(new)
  BY <1>1, <1>3, <1>4, <1>5, ChannelAssumption DEF ClientOK, IsSession, IsTable, Numbered
<1>7. new.senders = [n \in DOMAIN new.channels |-> new.channels[n].of]
  <2>1. c.senders = [n \in DOMAIN c.channels |-> c.channels[n].of]
    BY DEF ClientOK
  <2>2. new.senders = [n \in DOMAIN c.channels \cup {id} |->
                          IF n = id THEN entry.of ELSE c.senders[n]]
    BY <1>3, <2>1 DEF Insert
  <2> QED
    BY <2>1, <2>2, <1>5, <1>2
<1>8. IsTable(new.senders, Channels)
  BY <1>6, <1>7 DEF IsSession, IsTable, EntrySet
<1>9. Extends(c, new)
  BY <1>1, <1>3, <1>4, <1>5 DEF Extends
<1> QED
  BY <1>2, <1>3, <1>4, <1>5, <1>6, <1>7, <1>8, <1>9 DEF id, new, ClientOK

(* CHANNEL_CLOSE at either side. *)
LEMMA RemovedServer ==
    ASSUME NEW s, ServerOK(s), NEW id
    PROVE  LET new == [s EXCEPT !.channels = Remove(@, id)]
           IN  /\ ServerOK(new) /\ Extends(s, new)
               /\ new.served = s.served /\ new.fate = s.fate
               /\ new.last_channel_id = s.last_channel_id
               /\ DOMAIN new.channels = DOMAIN s.channels \ {id}
               /\ \A n \in DOMAIN new.channels : new.channels[n] = s.channels[n]
BY DEF ServerOK, IsSession, IsTable, Numbered, Extends, Remove

LEMMA ForgottenClient ==
    ASSUME NEW c, ClientOK(c), NEW id
    PROVE  LET new == Forget(c, id)
           IN  /\ ClientOK(new) /\ Extends(c, new)
               /\ new.fate = c.fate
               /\ new.last_channel_id = c.last_channel_id
               /\ DOMAIN new.channels = DOMAIN c.channels \ {id}
               /\ \A n \in DOMAIN new.channels : new.channels[n] = c.channels[n]
<1> DEFINE new == Forget(c, id)
<1>1. /\ DOMAIN new = DOMAIN c
      /\ new.last_channel_id = c.last_channel_id
      /\ new.channels = Remove(c.channels, id)
      /\ new.senders = Remove(c.senders, id)
      /\ new.fate = c.fate
  BY DEF Forget, ClientOK, IsSession
<1> HIDE DEF new
<1>2. /\ DOMAIN new.channels = DOMAIN c.channels \ {id}
      /\ \A n \in DOMAIN new.channels : new.channels[n] = c.channels[n]
  BY <1>1 DEF Remove
<1>3. IsSession(new, {"fate", "last_channel_id", "channels", "senders"}) /\ Numbered(new)
  BY <1>1, <1>2 DEF ClientOK, IsSession, IsTable, Numbered
<1>4. new.senders = [n \in DOMAIN new.channels |-> new.channels[n].of]
  <2>1. c.senders = [n \in DOMAIN c.channels |-> c.channels[n].of]
    BY DEF ClientOK
  <2>2. new.senders = [n \in DOMAIN c.channels \ {id} |-> c.senders[n]]
    BY <1>1, <2>1 DEF Remove
  <2> QED
    BY <2>1, <2>2, <1>2
<1>5. IsTable(new.senders, Channels)
  BY <1>3, <1>4 DEF IsSession, IsTable, EntrySet
<1>6. Extends(c, new)
  BY <1>1, <1>2 DEF Extends, ClientOK, IsSession
<1> QED
  BY <1>1, <1>2, <1>3, <1>4, <1>5, <1>6 DEF new, ClientOK

-----------------------------------------------------------------------------
(* Queues. *)

LEMMA TailElements ==
    ASSUME NEW S, NEW q \in Seq(S), q # <<>>
    PROVE  /\ Head(q) = q[1] /\ q[1] \in S /\ 1 \in DOMAIN q
           /\ Tail(q) \in Seq(S) /\ Len(Tail(q)) = Len(q) - 1
           /\ \A i \in DOMAIN Tail(q) : i + 1 \in DOMAIN q /\ Tail(q)[i] = q[i + 1]
OBVIOUS

LEMMA AppendElements ==
    ASSUME NEW S, NEW q \in Seq(S), NEW e \in S
    PROVE  /\ Append(q, e) \in Seq(S) /\ Len(Append(q, e)) = Len(q) + 1
           /\ \A i \in DOMAIN Append(q, e) :
                 \/ i \in DOMAIN q /\ Append(q, e)[i] = q[i]
                 \/ i = Len(q) + 1 /\ Append(q, e)[i] = e
OBVIOUS

LEMMA ConcatElements ==
    ASSUME NEW S, NEW q \in Seq(S), NEW r \in Seq(S), NEW t, t = q \o r
    PROVE  /\ t \in Seq(S) /\ Len(t) = Len(q) + Len(r)
           /\ \A i \in DOMAIN t :
                 \/ i \in DOMAIN q /\ t[i] = q[i]
                 \/ /\ i - Len(q) \in DOMAIN r /\ i > Len(q)
                    /\ t[i] = r[i - Len(q)]
OBVIOUS

Among(e, q) == \E j \in DOMAIN q : e = q[j]

LEMMA Consumed ==
    ASSUME NEW S, NEW q \in Seq(S), NEW r, r = q \/ (q # <<>> /\ r = Tail(q))
    PROVE  r \in Seq(S) /\ \A i \in DOMAIN r : \E j \in DOMAIN q : r[i] = q[j]
<1>1. CASE r = q
  <2>1. \A i \in DOMAIN r : r[i] = q[i] /\ i \in DOMAIN q
    BY <1>1
  <2> QED
    BY <1>1, <2>1
<1>2. CASE q # <<>> /\ r = Tail(q)
  <2>1. r \in Seq(S) /\ \A i \in DOMAIN r : i + 1 \in DOMAIN q /\ r[i] = q[i + 1]
    BY <1>2, TailElements
  <2> QED
    BY <2>1
<1> QED
  BY <1>1, <1>2

LEMMA Sent ==
    ASSUME NEW S, NEW q \in Seq(S), NEW r \in Seq(S), NEW t, t = q \o r
    PROVE  t \in Seq(S) /\ \A i \in DOMAIN t : Among(t[i], q) \/ Among(t[i], r)
<1>1. t \in Seq(S)
  BY ConcatElements
<1>2. ASSUME NEW i \in DOMAIN t
      PROVE  Among(t[i], q) \/ Among(t[i], r)
  <2>1. \/ i \in DOMAIN q /\ t[i] = q[i]
        \/ i - Len(q) \in DOMAIN r /\ t[i] = r[i - Len(q)]
    BY <1>2, ConcatElements
  <2> QED
    BY <2>1, Zenon DEF Among
<1> QED
  BY <1>1, <1>2

-----------------------------------------------------------------------------
(* Core is inductive. *)

LogSet ==
    [asked : SUBSET Forwards, closed : SUBSET Channels,
     refused : SUBSET Channels, wanted : [Channels -> Nat]]

AppSet == [phase : {"none", "waiting", "open", "failed"}, id : 0..IdLimit]

HeardSet == [what : Messages, id : 0..IdLimit]

LEMMA TypeOKParts ==
    TypeOK /\ Numbered(client) /\ Numbered(server) /\ TablesAgree
        <=> /\ ClientOK(client) /\ ServerOK(server)
            /\ app \in [Channels -> AppSet]
            /\ heard \in [Channels -> Seq(HeardSet)]
            /\ up \in Seq(PacketSet) /\ down \in Seq(PacketSet)
            /\ left \in [client : Nat, server : Nat]
            /\ log \in LogSet
BY DEF TypeOK, ClientOK, ServerOK, TablesAgree, LogSet, AppSet, HeardSet

LEMMA InitCore == Init => Core
<1> SUFFICES ASSUME Init PROVE Core
  OBVIOUS
<1>1. /\ DOMAIN client = {"fate", "last_channel_id", "channels", "senders"}
      /\ client.fate = "running" /\ client.last_channel_id = 1
      /\ client.channels = NoEntries /\ client.senders = NoEntries
      /\ DOMAIN server = {"fate", "last_channel_id", "channels", "served"}
      /\ server.fate = "running" /\ server.last_channel_id = 1
      /\ server.channels = NoEntries /\ server.served = {}
  BY DEF Init
<1>2. DOMAIN NoEntries = {}
  BY DEF NoEntries
<1>3. 1 \in 1..IdLimit
  BY ChannelAssumption
<1>4. ClientOK(client) /\ ServerOK(server)
  BY <1>1, <1>2, <1>3 DEF ClientOK, ServerOK, IsSession, IsTable, Numbered, Fates, NoEntries
<1>5. /\ app \in [Channels -> AppSet]
      /\ heard \in [Channels -> Seq(HeardSet)]
      /\ up \in Seq(PacketSet) /\ down \in Seq(PacketSet)
  BY ChannelAssumption DEF Init, AppSet
<1>6. left \in [client : Nat, server : Nat] /\ log \in LogSet
  BY ChannelAssumption DEF Init, LogSet
<1>7. TypeOK /\ Numbered(client) /\ Numbered(server) /\ TablesAgree
  BY <1>4, <1>5, <1>6, TypeOKParts
<1>8. Entries(client, server) /\ Entries(server, client)
  BY <1>1, <1>2 DEF Entries
<1>9. \A ch \in Channels : heard[ch] = <<>> /\ app[ch].phase = "none"
  BY DEF Init
<1>10. DOMAIN up = {} /\ DOMAIN down = {}
  BY DEF Init
<1> QED
  <2>1. HeardGood(heard, server)
    BY <1>9 DEF HeardGood, Channels
  <2>2. \A ch \in Calls : app[ch].phase # "open"
    BY <1>9 DEF Channels
  <2>3. /\ \A i \in DOMAIN up : UpGood(up[i], client, server, app)
        /\ \A i \in DOMAIN down : DownGood(down[i], client, server, log)
    BY <1>10
  <2> QED
    BY <1>7, <1>8, <2>1, <2>2, <2>3 DEF Core

(* What a packet on its way needs stays true while both sides only extend   *)
(* their tables.                                                            *)
LEMMA UpGoodKept ==
    ASSUME NEW c, NEW s, NEW d, NEW t, ClientOK(c), ServerOK(s), ClientOK(d), ServerOK(t),
           Extends(c, d), Extends(s, t), NEW a, NEW b,
           \A ch \in Channels : a[ch].phase # "none" => b[ch].phase # "none",
           NEW p \in PacketSet, UpGood(p, c, s, a)
    PROVE  UpGood(p, d, t, b)
<1>1. /\ c.last_channel_id \in Nat /\ d.last_channel_id \in Nat
      /\ s.last_channel_id \in Nat /\ t.last_channel_id \in Nat
      /\ DOMAIN d.channels \subseteq Nat /\ DOMAIN t.channels \subseteq Nat
  BY ChannelAssumption DEF ClientOK, ServerOK, IsSession, IsTable
<1>2. p.num \in Nat /\ p.of \in Channels
  BY ChannelAssumption DEF PacketSet
<1>3. Owned(c, p.num, p.of) => Owned(d, p.num, p.of)
  BY <1>1, <1>2, OwnedKept
<1>4. Owned(s, p.num, p.of) => Owned(t, p.num, p.of)
  BY <1>1, <1>2, OwnedKept
<1> QED
  BY <1>2, <1>3, <1>4 DEF UpGood

LEMMA DownGoodKept ==
    ASSUME NEW c, NEW s, NEW d, NEW t, ClientOK(c), ServerOK(s), ClientOK(d), ServerOK(t),
           Extends(c, d), Extends(s, t), s.served \subseteq t.served, NEW k, NEW l,
           k.asked \subseteq l.asked, k.refused \subseteq l.refused,
           NEW p \in PacketSet, DownGood(p, c, s, k)
    PROVE  DownGood(p, d, t, l)
<1>1. /\ c.last_channel_id \in Nat /\ d.last_channel_id \in Nat
      /\ s.last_channel_id \in Nat /\ t.last_channel_id \in Nat
      /\ DOMAIN d.channels \subseteq Nat /\ DOMAIN t.channels \subseteq Nat
  BY ChannelAssumption DEF ClientOK, ServerOK, IsSession, IsTable
<1>2. p.num \in Nat /\ p.from \in Nat
  BY ChannelAssumption DEF PacketSet
<1>3. Owned(c, p.num, p.of) => Owned(d, p.num, p.of)
  BY <1>1, <1>2, OwnedKept
<1>4. Owned(s, p.num, p.of) => Owned(t, p.num, p.of)
  BY <1>1, <1>2, OwnedKept
<1>5. Owned(s, p.from, p.of) => Owned(t, p.from, p.of)
  BY <1>1, <1>2, OwnedKept
<1> QED
  BY <1>3, <1>4, <1>5 DEF DownGood

LEMMA EntriesKept ==
    ASSUME NEW side, NEW other, NEW new,
           IsTable(side.channels, EntrySet),
           other.last_channel_id \in Nat,
           new.last_channel_id \in Nat, DOMAIN new.channels \subseteq Nat,
           Entries(side, other), Extends(other, new)
    PROVE  Entries(side, new)
<1>1. \A id \in DOMAIN side.channels : side.channels[id].recipient_channel \in Nat
  BY ChannelAssumption DEF IsTable, EntrySet
<1> QED
  BY <1>1, OwnedKept DEF Entries

LEMMA ExtendsItself ==
    ASSUME NEW c PROVE (ClientOK(c) \/ ServerOK(c)) => Extends(c, c)
BY DEF Extends, ClientOK, ServerOK, IsSession

(* A step of the client: what it writes and what it tells must be good. *)
LEMMA ClientActs ==
    ASSUME Core, ClientOK(client'), Extends(client, client'), Entries(client', server),
           app' \in [Channels -> AppSet], heard' \in [Channels -> Seq(HeardSet)],
           \A ch \in Channels : app[ch].phase # "none" => app'[ch].phase # "none",
           \A ch \in Calls : app'[ch].phase = "open" => ch \in server.served,
           HeardGood(heard', server),
           up' \in Seq(PacketSet),
           \A i \in DOMAIN up' : \/ i \in DOMAIN up /\ up'[i] = up[i]
                                 \/ UpGood(up'[i], client', server, app'),
           down' = down \/ (down # <<>> /\ down' = Tail(down)),
           log' \in LogSet, log'.asked = log.asked, log'.refused = log.refused,
           left' \in [client : Nat, server : Nat],
           UNCHANGED server
    PROVE  Core'
<1>1. /\ ClientOK(client) /\ ServerOK(server)
      /\ down \in Seq(PacketSet) /\ up \in Seq(PacketSet)
  BY TypeOKParts DEF Core
<1>2. /\ down' \in Seq(PacketSet)
      /\ \A i \in DOMAIN down' : \E j \in DOMAIN down : down'[i] = down[j]
  BY <1>1, Consumed
<1>3. ServerOK(server')
  BY <1>1
<1>4. (TypeOK /\ Numbered(client) /\ Numbered(server) /\ TablesAgree)'
  <2>1. /\ ClientOK(client)' /\ ServerOK(server)' /\ (down \in Seq(PacketSet))'
        /\ (app \in [Channels -> AppSet])' /\ (heard \in [Channels -> Seq(HeardSet)])'
        /\ (up \in Seq(PacketSet))' /\ (left \in [client : Nat, server : Nat])'
        /\ (log \in LogSet)'
    BY <1>2, <1>3
  <2> QED
    BY <2>1, TypeOKParts, PTL
<1>5. Extends(server, server')
  BY <1>1, ExtendsItself
<1>6. \A i \in DOMAIN up' : UpGood(up'[i], client', server', app')
  <2> SUFFICES ASSUME NEW i \in DOMAIN up', i \in DOMAIN up, up'[i] = up[i]
               PROVE  UpGood(up'[i], client', server', app')
    OBVIOUS
  <2>1. up[i] \in PacketSet /\ UpGood(up[i], client, server, app)
    BY <1>1 DEF Core
  <2> QED
    BY <2>1, <1>1, <1>3, <1>5, UpGoodKept
<1>7. \A i \in DOMAIN down' : DownGood(down'[i], client', server', log')
  <2> SUFFICES ASSUME NEW i \in DOMAIN down', NEW j \in DOMAIN down, down'[i] = down[j]
               PROVE  DownGood(down'[i], client', server', log')
    BY <1>2
  <2>1. down[j] \in PacketSet /\ DownGood(down[j], client, server, log)
    BY <1>1 DEF Core
  <2> QED
    BY <2>1, <1>1, <1>3, <1>5, DownGoodKept
<1>8. Entries(server', client')
  <2>1. /\ client.last_channel_id \in Nat /\ client'.last_channel_id \in Nat
        /\ DOMAIN client'.channels \subseteq Nat /\ IsTable(server.channels, EntrySet)
    BY <1>1, ChannelAssumption DEF ClientOK, ServerOK, IsSession, IsTable
  <2>2. Entries(server, client)
    BY DEF Core
  <2> QED
    BY <2>1, <2>2, EntriesKept
<1> QED
  BY <1>4, <1>6, <1>7, <1>8 DEF Core

(* A step of the server: what it writes must be good. *)
LEMMA ServerActs ==
    ASSUME Core, NEW s, ServerOK(s), Extends(server, s), server.served \subseteq s.served,
           Entries(s, client), server' = s,
           NEW packets \in Seq(PacketSet), down' = down \o packets,
           log' \in LogSet, log.asked \subseteq log'.asked, log.refused \subseteq log'.refused,
           \A i \in DOMAIN packets : DownGood(packets[i], client, s, log'),
           up' = up \/ (up # <<>> /\ up' = Tail(up)),
           left' \in [client : Nat, server : Nat],
           UNCHANGED <<client, app, heard>>
    PROVE  Core'
<1>1. /\ ClientOK(client) /\ ServerOK(server)
      /\ down \in Seq(PacketSet) /\ up \in Seq(PacketSet)
      /\ app \in [Channels -> AppSet] /\ heard \in [Channels -> Seq(HeardSet)]
  BY TypeOKParts DEF Core
<1>2. /\ up' \in Seq(PacketSet)
      /\ \A i \in DOMAIN up' : \E j \in DOMAIN up : up'[i] = up[j]
  BY <1>1, Consumed
<1>3. /\ down' \in Seq(PacketSet)
      /\ \A i \in DOMAIN down' : Among(down'[i], down) \/ Among(down'[i], packets)
  BY <1>1, Sent
<1>4. (TypeOK /\ Numbered(client) /\ Numbered(server) /\ TablesAgree)'
  <2>1. /\ ClientOK(client)' /\ ServerOK(server)' /\ (down \in Seq(PacketSet))'
        /\ (app \in [Channels -> AppSet])' /\ (heard \in [Channels -> Seq(HeardSet)])'
        /\ (up \in Seq(PacketSet))' /\ (left \in [client : Nat, server : Nat])'
        /\ (log \in LogSet)'
    BY <1>1, <1>2, <1>3
  <2> QED
    BY <2>1, TypeOKParts, PTL
<1>5. Extends(client, client')
  BY <1>1, ExtendsItself
<1>6. \A i \in DOMAIN up' : UpGood(up'[i], client', server', app')
  <2> SUFFICES ASSUME NEW i \in DOMAIN up', NEW j \in DOMAIN up, up'[i] = up[j]
               PROVE  UpGood(up'[i], client', server', app')
    BY <1>2
  <2>1. up[j] \in PacketSet /\ UpGood(up[j], client, server, app)
    BY <1>1 DEF Core
  <2> QED
    BY <2>1, <1>1, <1>5, UpGoodKept
<1>7. \A i \in DOMAIN down' : DownGood(down'[i], client', server', log')
  <2>1. ASSUME NEW i \in DOMAIN down', NEW j \in DOMAIN down, down'[i] = down[j]
        PROVE  DownGood(down'[i], client', server', log')
    <3>1. down[j] \in PacketSet /\ DownGood(down[j], client, server, log)
      BY <1>1 DEF Core
    <3> QED
      BY <2>1, <3>1, <1>1, <1>5, DownGoodKept
  <2> QED
    BY <1>3, <2>1 DEF Among
<1>8. Entries(client', server')
  <2>1. /\ server.last_channel_id \in Nat /\ server'.last_channel_id \in Nat
        /\ DOMAIN server'.channels \subseteq Nat /\ IsTable(client.channels, EntrySet)
    BY <1>1, ChannelAssumption DEF ClientOK, ServerOK, IsSession, IsTable
  <2>2. Entries(client, server)
    BY DEF Core
  <2> QED
    BY <2>1, <2>2, EntriesKept
<1>9. Entries(server', client')
  OBVIOUS
<1>10. /\ HeardGood(heard', server')
       /\ \A ch \in Calls : app'[ch].phase = "open" => ch \in server'.served
  BY DEF Core, HeardGood
<1> QED
  BY <1>4, <1>6, <1>7, <1>8, <1>9, <1>10 DEF Core

-----------------------------------------------------------------------------
(* What a callback of the Handler, with the one call it may make, comes to. *)

SameTable(t, s) ==
    /\ t.fate = s.fate /\ t.last_channel_id = s.last_channel_id /\ t.served = s.served
    /\ DOMAIN t.channels = DOMAIN s.channels
    /\ \A n \in DOMAIN s.channels :
          /\ t.channels[n].recipient_channel = s.channels[n].recipient_channel
          /\ t.channels[n].confirmed = s.channels[n].confirmed
          /\ t.channels[n].of = s.channels[n].of

LogGrows ==
    /\ log' \in LogSet
    /\ log.asked \subseteq log'.asked /\ log.refused \subseteq log'.refused
    /\ log.closed \subseteq log'.closed
    /\ log'.wanted = log.wanted

Stops(s) ==
    /\ \E id \in DOMAIN s.channels : ~s.channels[id].confirmed
    /\ Panics /\ UNCHANGED log

Plain(s, answer) == Returns(s, answer) /\ UNCHANGED log

Writes(s, answer, id, p) ==
    /\ ServerOK(server') /\ SameTable(server', s)
    /\ down' = down \o Append(answer, p)
    /\ p \in PacketSet /\ p.type \in {"CLOSE", "EOF", "DATA", "REQUEST", "SUCCESS", "FAILURE"}
    /\ p.num = s.channels[id].recipient_channel /\ p.of = s.channels[id].of
    /\ log'.asked = log.asked /\ log'.refused = log.refused
    /\ p.type = "CLOSE" => p.of \in log'.closed
    /\ \/ server' = s /\ p.type # "SUCCESS"
       \/ server' = Replied(s, id) /\ s.channels[id].wants_reply

LEMMA SameTableItself == ASSUME NEW s PROVE SameTable(s, s)
BY DEF SameTable

LEMMA RepliedServer ==
    ASSUME NEW s, ServerOK(s), NEW id \in DOMAIN s.channels
    PROVE  ServerOK(Replied(s, id)) /\ SameTable(Replied(s, id), s)
<1> DEFINE t == Replied(s, id)
<1>1. /\ DOMAIN t = DOMAIN s /\ t.fate = s.fate /\ t.served = s.served
      /\ t.last_channel_id = s.last_channel_id
      /\ DOMAIN t.channels = DOMAIN s.channels
      /\ t.channels[id] = [s.channels[id] EXCEPT !.wants_reply = FALSE]
      /\ \A n \in DOMAIN s.channels : n # id => t.channels[n] = s.channels[n]
  BY DEF Replied, ServerOK, IsSession
<1> HIDE DEF t
<1>2. s.channels[id] \in EntrySet
  BY DEF ServerOK, IsSession, IsTable
<1>3. /\ t.channels[id] \in EntrySet
      /\ t.channels[id].recipient_channel = s.channels[id].recipient_channel
      /\ t.channels[id].confirmed = s.channels[id].confirmed
      /\ t.channels[id].of = s.channels[id].of
  BY <1>1, <1>2 DEF EntrySet
<1>4. SameTable(t, s)
  BY <1>1, <1>3 DEF SameTable
<1>5. ServerOK(t)
  BY <1>1, <1>3 DEF ServerOK, IsSession, IsTable, Numbered
<1> QED
  BY <1>4, <1>5 DEF t

LEMMA SessionWrites ==
    ASSUME NEW s, ServerOK(s), NEW id \in DOMAIN s.channels,
           NEW type \in {"CLOSE", "EOF", "DATA", "REQUEST", "SUCCESS", "FAILURE"}
    PROVE  LET p == Packet(type, s.channels[id].recipient_channel, s.channels[id].of)
           IN  /\ p \in PacketSet /\ p.type = type
               /\ p.num = s.channels[id].recipient_channel /\ p.of = s.channels[id].of
<1>1. s.channels[id].recipient_channel \in 0..IdLimit /\ s.channels[id].of \in Channels
  BY DEF ServerOK, IsSession, IsTable, EntrySet
<1> QED
  BY <1>1, ChannelAssumption DEF Packet, PacketSet

LEMMA CallCases ==
    ASSUME NEW s, ServerOK(s), NEW answer, log \in LogSet, NEW id \in DOMAIN s.channels,
           \/ SessionClose(s, answer, id) \/ SessionEof(s, answer, id)
           \/ SessionWrite(s, answer, id) \/ SessionReply(s, answer, id)
    PROVE  LogGrows /\ (\/ Stops(s) \/ Plain(s, answer)
                        \/ \E p : Writes(s, answer, id, p))
<1> DEFINE P(type) == Packet(type, s.channels[id].recipient_channel, s.channels[id].of)
<1>1. \A type \in {"CLOSE", "EOF", "DATA", "REQUEST", "SUCCESS", "FAILURE"} :
         /\ P(type) \in PacketSet /\ P(type).type = type
         /\ P(type).num = s.channels[id].recipient_channel /\ P(type).of = s.channels[id].of
  BY SessionWrites
<1>2. SameTable(s, s)
  BY SameTableItself
<1>3. UNCHANGED log => LogGrows
  BY DEF LogGrows
<1>4. CASE SessionClose(s, answer, id)
  <2> DEFINE c == s.channels[id].of
  <2>1. /\ Returns(s, Append(answer, P("CLOSE")))
        /\ log' = [log EXCEPT !.closed = @ \cup {c}]
    BY <1>4 DEF SessionClose
  <2>2. c \in Channels
    BY DEF ServerOK, IsSession, IsTable, EntrySet
  <2> HIDE DEF P, c
  <2>3. /\ log' \in LogSet /\ log'.asked = log.asked /\ log'.refused = log.refused
        /\ log'.closed = log.closed \cup {c} /\ log'.wanted = log.wanted
    BY <2>1, <2>2 DEF LogSet
  <2>4. Writes(s, answer, id, P("CLOSE"))
    BY <1>1, <1>2, <2>1, <2>3 DEF Writes, Returns, c
  <2>5. LogGrows
    BY <2>3 DEF LogGrows
  <2> QED
    BY <2>4, <2>5
<1>5. CASE SessionEof(s, answer, id)
  <2>1. Returns(s, Append(answer, P("EOF"))) /\ UNCHANGED log
    BY <1>5 DEF SessionEof
  <2> HIDE DEF P
  <2>2. Writes(s, answer, id, P("EOF"))
    BY <1>1, <1>2, <2>1 DEF Writes, Returns
  <2> QED
    BY <1>3, <2>1, <2>2
<1>6. CASE SessionWrite(s, answer, id)
  <2>1. UNCHANGED log
    BY <1>6 DEF SessionWrite
  <2>2. CASE s.channels[id].confirmed
    <3>1. PICK type \in {"DATA", "REQUEST"} : Returns(s, Append(answer, P(type)))
      BY <1>6, <2>2 DEF SessionWrite
    <3> HIDE DEF P
    <3>2. Writes(s, answer, id, P(type))
      BY <1>1, <1>2, <2>1, <3>1 DEF Writes, Returns
    <3> QED
      BY <1>3, <2>1, <3>2
  <2>3. CASE ~s.channels[id].confirmed
    <3>1. Stops(s)
      BY <1>6, <2>1, <2>3 DEF SessionWrite, Stops
    <3> QED
      BY <1>3, <2>1, <3>1
  <2> QED
    BY <2>2, <2>3
<1>7. CASE SessionReply(s, answer, id)
  <2>1. UNCHANGED log
    BY <1>7 DEF SessionReply
  <2>2. CASE ~s.channels[id].confirmed
    <3>1. Stops(s)
      BY <1>7, <2>1, <2>2 DEF SessionReply, Stops
    <3> QED
      BY <1>3, <2>1, <3>1
  <2>3. CASE s.channels[id].confirmed /\ ~s.channels[id].wants_reply
    <3>1. Plain(s, answer)
      BY <1>7, <2>1, <2>3 DEF SessionReply, Plain
    <3> QED
      BY <1>3, <2>1, <3>1
  <2>4. CASE s.channels[id].confirmed /\ s.channels[id].wants_reply
    <3>1. PICK type \in {"SUCCESS", "FAILURE"} : Returns(Replied(s, id), Append(answer, P(type)))
      BY <1>7, <2>4 DEF SessionReply
    <3>2. ServerOK(Replied(s, id)) /\ SameTable(Replied(s, id), s)
      BY RepliedServer
    <3> HIDE DEF P
    <3>3. Writes(s, answer, id, P(type))
      BY <1>1, <2>1, <2>4, <3>1, <3>2 DEF Writes, Returns
    <3> QED
      BY <1>3, <2>1, <3>3
  <2> QED
    BY <2>2, <2>3, <2>4
<1> QED
  BY <1>4, <1>5, <1>6, <1>7

LEMMA HandlerCases ==
    ASSUME NEW s, ServerOK(s), NEW answer, log \in LogSet,
           left \in [client : Nat, server : Nat], Handler(s, answer)
    PROVE  /\ left' \in [client : Nat, server : Nat]
           /\ \/ LogGrows /\ Stops(s)
              \/ LogGrows /\ Plain(s, answer)
              \/ LogGrows /\ \E id \in DOMAIN s.channels, p \in PacketSet :
                                Writes(s, answer, id, p)
              \/ \E id \in DOMAIN s.channels : SessionRefuse(s, answer, id)
              \/ \E f \in Forwards : SessionForward(s, answer, f)
<1>1. CASE Returns(s, answer) /\ UNCHANGED <<left, log>>
  BY <1>1 DEF Plain, LogGrows
<1>2. CASE HandlerCall(s, answer)
  <2>1. left' \in [client : Nat, server : Nat]
    BY <1>2 DEF HandlerCall
  <2>2. ASSUME NEW id \in DOMAIN s.channels,
               \/ SessionClose(s, answer, id) \/ SessionEof(s, answer, id)
               \/ SessionWrite(s, answer, id) \/ SessionReply(s, answer, id)
        PROVE  LogGrows /\ (\/ Stops(s) \/ Plain(s, answer)
                            \/ \E i \in DOMAIN s.channels, p \in PacketSet :
                                  Writes(s, answer, i, p))
    <3>1. LogGrows /\ (\/ Stops(s) \/ Plain(s, answer) \/ \E p : Writes(s, answer, id, p))
      BY <2>2, CallCases
    <3>2. \A p : Writes(s, answer, id, p) => p \in PacketSet
      BY DEF Writes
    <3> QED
      BY <3>1, <3>2
  <2>3. \/ \E id \in DOMAIN s.channels :
               \/ SessionClose(s, answer, id) \/ SessionEof(s, answer, id)
               \/ SessionWrite(s, answer, id) \/ SessionReply(s, answer, id)
               \/ SessionRefuse(s, answer, id)
        \/ \E f \in Forwards : SessionForward(s, answer, f)
    BY <1>2, Zenon DEF HandlerCall
  <2> QED
    BY <2>1, <2>2, <2>3
<1> QED
  BY <1>1, <1>2 DEF Handler

LEMMA RefuseIs ==
    ASSUME NEW s, ServerOK(s), NEW answer, log \in LogSet, NEW id \in DOMAIN s.channels,
           SessionRefuse(s, answer, id)
    PROVE  LET p == Packet("OPEN_FAILURE", id, s.channels[id].of)
           IN  /\ server' = s /\ down' = down \o Append(answer, p)
               /\ p \in PacketSet /\ p.type = "OPEN_FAILURE" /\ p.of = s.channels[id].of
               /\ LogGrows /\ log'.asked = log.asked /\ log'.closed = log.closed
               /\ p.of \in log'.refused
<1> DEFINE c == s.channels[id].of
           p == Packet("OPEN_FAILURE", id, c)
<1>1. id \in 0..IdLimit /\ c \in Channels
  BY ChannelAssumption DEF ServerOK, IsSession, IsTable, EntrySet
<1>2. /\ Returns(s, Append(answer, p))
      /\ log' = [log EXCEPT !.refused = @ \cup {c}]
  BY DEF SessionRefuse
<1> HIDE DEF c
<1>3. p \in PacketSet /\ p.type = "OPEN_FAILURE" /\ p.of = c
  BY <1>1, ChannelAssumption DEF Packet, PacketSet
<1> HIDE DEF p
<1>4. /\ log' \in LogSet /\ log'.asked = log.asked /\ log'.closed = log.closed
      /\ log'.refused = log.refused \cup {c} /\ log'.wanted = log.wanted
  BY <1>1, <1>2 DEF LogSet
<1> QED
  BY <1>2, <1>3, <1>4 DEF LogGrows, Returns, c, p

Forwarded(s, answer, f, id, p) ==
    /\ ServerOK(server') /\ Extends(s, server') /\ server'.served = s.served
    /\ server'.fate = s.fate
    /\ id > s.last_channel_id /\ id \notin DOMAIN s.channels
    /\ server'.last_channel_id = id
    /\ DOMAIN server'.channels = DOMAIN s.channels \cup {id}
    /\ \A n \in DOMAIN s.channels : server'.channels[n] = s.channels[n]
    /\ server'.channels[id].recipient_channel = 0
    /\ ~server'.channels[id].confirmed
    /\ ~server'.channels[id].wants_reply
    /\ server'.channels[id].of = f
    /\ down' = down \o Append(answer, p)
    /\ p.type = "OPEN" /\ p.num = id /\ p.of = f
    /\ f \notin log.asked
    /\ LogGrows /\ log'.asked = log.asked \cup {f}
    /\ log'.refused = log.refused /\ log'.closed = log.closed

LEMMA ForwardIs ==
    ASSUME NEW s, ServerOK(s), NEW answer, log \in LogSet, NEW f \in Forwards,
           SessionForward(s, answer, f)
    PROVE  \E id \in 2..IdLimit, p \in PacketSet : Forwarded(s, answer, f, id, p)
<1> DEFINE id == NewId(s)
           e == Entry(0, FALSE, f)
           new == Opened(s, id, e)
           p == Packet("OPEN", id, f)
<1>1. f \in Channels /\ 0 \in 0..IdLimit
  BY ChannelAssumption DEF Channels
<1>2. /\ e \in EntrySet /\ e.recipient_channel = 0 /\ e.of = f
      /\ e.confirmed = FALSE /\ e.wants_reply = FALSE
  BY <1>1 DEF Entry, EntrySet
<1>3. /\ f \notin log.asked /\ s.last_channel_id < IdLimit
      /\ Returns(new, Append(answer, p))
      /\ log' = [log EXCEPT !.asked = @ \cup {f}]
  BY DEF SessionForward
<1> HIDE DEF e
<1>4. /\ ServerOK(new) /\ Extends(s, new)
      /\ id \in 2..IdLimit /\ id > s.last_channel_id /\ id \notin DOMAIN s.channels
      /\ new.last_channel_id = id
      /\ new.channels[id] = e
      /\ DOMAIN new.channels = DOMAIN s.channels \cup {id}
      /\ \A n \in DOMAIN s.channels : new.channels[n] = s.channels[n]
      /\ new.served = s.served /\ new.fate = s.fate
  BY <1>2, <1>3, OpenedServer
<1> HIDE DEF id, new
<1>5. p \in PacketSet /\ p.type = "OPEN" /\ p.num = id /\ p.of = f
  <2>1. id \in 0..IdLimit
    BY <1>4, ChannelAssumption
  <2> QED
    BY <1>1, <2>1, ChannelAssumption DEF Packet, PacketSet
<1> HIDE DEF p
<1>6. /\ log' \in LogSet /\ log'.asked = log.asked \cup {f}
      /\ log'.refused = log.refused /\ log'.closed = log.closed
      /\ log'.wanted = log.wanted
  BY <1>3 DEF LogSet
<1>7. LogGrows
  BY <1>6 DEF LogGrows
<1> QED
  <2>1. Forwarded(s, answer, f, id, p)
    BY <1>2, <1>3, <1>4, <1>5, <1>6, <1>7 DEF Returns, Forwarded
  <2> QED
    BY <1>4, <1>5, <2>1

-----------------------------------------------------------------------------
(* Core, step by step: the server. *)

LEMMA CoreParts ==
    Core => /\ ClientOK(client) /\ ServerOK(server)
            /\ app \in [Channels -> AppSet]
            /\ heard \in [Channels -> Seq(HeardSet)]
            /\ up \in Seq(PacketSet) /\ down \in Seq(PacketSet)
            /\ left \in [client : Nat, server : Nat]
            /\ log \in LogSet
            /\ \A i \in DOMAIN up : up[i] \in PacketSet
            /\ \A i \in DOMAIN down : down[i] \in PacketSet
BY TypeOKParts DEF Core

(* The session and the packets that wait while a callback runs. *)
Interim(s, answer) ==
    /\ ServerOK(s) /\ Extends(server, s) /\ server.served \subseteq s.served
    /\ Entries(s, client)
    /\ answer \in Seq(PacketSet)
    /\ \A i \in DOMAIN answer : DownGood(answer[i], client, s, log)

LEMMA InterimLog ==
    ASSUME NEW s, NEW answer, Interim(s, answer), LogGrows
    PROVE  \A i \in DOMAIN answer : DownGood(answer[i], client, s, log')
BY DEF Interim, DownGood, LogGrows

LEMMA AppendGood ==
    ASSUME NEW s, NEW answer \in Seq(PacketSet), NEW p \in PacketSet, NEW l,
           \A i \in DOMAIN answer : DownGood(answer[i], client, s, l),
           DownGood(p, client, s, l)
    PROVE  /\ Append(answer, p) \in Seq(PacketSet)
           /\ \A i \in DOMAIN Append(answer, p) :
                 DownGood(Append(answer, p)[i], client, s, l)
BY AppendElements

LEMMA SameTableOwns ==
    ASSUME NEW t, NEW s, SameTable(t, s), NEW num, NEW ch
    PROVE  Owned(t, num, ch) <=> Owned(s, num, ch)
BY DEF SameTable, Owned

LEMMA HandlerCore ==
    ASSUME Core, NEW s, NEW answer, Interim(s, answer), Handler(s, answer),
           up' = up \/ (up # <<>> /\ up' = Tail(up)),
           UNCHANGED <<client, app, heard>>
    PROVE  Core'
<1>1. log \in LogSet /\ left \in [client : Nat, server : Nat]
  BY CoreParts
<1>2. /\ ServerOK(s) /\ Extends(server, s) /\ server.served \subseteq s.served
      /\ Entries(s, client) /\ answer \in Seq(PacketSet)
  BY DEF Interim
<1>3. left' \in [client : Nat, server : Nat]
  BY <1>1, <1>2, HandlerCases
<1>4. ASSUME LogGrows, Stops(s) PROVE Core'
  <2> DEFINE t == Ends(server, "panic")
  <2>1. server' = t /\ down' = down
    BY <1>4 DEF Stops, Panics
  <2>2. ServerOK(server)
    BY CoreParts
  <2>3. /\ ServerOK(t) /\ Extends(server, t) /\ t.channels = server.channels
        /\ t.served = server.served
    BY <2>2, EndsKeeps DEF Fates
  <2>4. Entries(t, client)
    BY <2>3 DEF Core, Entries
  <2> DEFINE q == <<>>
  <2>5. /\ down' = down \o q /\ q \in Seq(PacketSet)
        /\ \A i \in DOMAIN q : DownGood(q[i], client, t, log')
    BY <2>1, CoreParts
  <2> HIDE DEF t, q
  <2> QED
    BY <1>3, <1>4, <2>1, <2>3, <2>4, <2>5, ServerActs DEF LogGrows
<1>5. ASSUME LogGrows, Plain(s, answer) PROVE Core'
  <2>1. server' = s /\ down' = down \o answer
    BY <1>5 DEF Plain, Returns
  <2>2. \A i \in DOMAIN answer : DownGood(answer[i], client, s, log')
    BY <1>5, InterimLog
  <2> QED
    BY <1>2, <1>3, <1>5, <2>1, <2>2, ServerActs DEF LogGrows
<1>6. ASSUME LogGrows, NEW id \in DOMAIN s.channels, NEW p \in PacketSet,
             Writes(s, answer, id, p)
      PROVE  Core'
  <2>1. /\ ServerOK(server') /\ SameTable(server', s) /\ down' = down \o Append(answer, p)
        /\ p.type \notin {"OPEN", "CONFIRM", "OPEN_FAILURE"}
        /\ p.num = s.channels[id].recipient_channel /\ p.of = s.channels[id].of
    BY <1>6 DEF Writes
  <2>2. \A i \in DOMAIN answer : DownGood(answer[i], client, server', log')
    BY <1>6, <2>1, InterimLog, SameTableOwns DEF DownGood, SameTable
  <2>3. DownGood(p, client, server', log')
    BY <1>2, <2>1 DEF DownGood, Entries
  <2>4. /\ Append(answer, p) \in Seq(PacketSet)
        /\ \A i \in DOMAIN Append(answer, p) :
              DownGood(Append(answer, p)[i], client, server', log')
    BY <1>2, <2>2, <2>3, AppendGood
  <2>5. Extends(server, server') /\ server.served \subseteq server'.served
    BY <1>2, <2>1 DEF Extends, SameTable
  <2>6. Entries(server', client)
    BY <1>2, <2>1 DEF Entries, SameTable
  <2> DEFINE q == Append(answer, p)
  <2> HIDE DEF q
  <2>7. /\ q \in Seq(PacketSet) /\ down' = down \o q
        /\ \A i \in DOMAIN q : DownGood(q[i], client, server', log')
    BY <2>1, <2>4 DEF q
  <2> QED
    BY <1>3, <1>6, <2>1, <2>5, <2>6, <2>7, ServerActs DEF LogGrows
<1>7. ASSUME NEW id \in DOMAIN s.channels, SessionRefuse(s, answer, id)
      PROVE  Core'
  <2> DEFINE p == Packet("OPEN_FAILURE", id, s.channels[id].of)
  <2>1. /\ server' = s /\ down' = down \o Append(answer, p)
        /\ p \in PacketSet /\ p.type = "OPEN_FAILURE"
        /\ LogGrows /\ p.of \in log'.refused
    BY <1>1, <1>2, <1>7, RefuseIs
  <2> HIDE DEF p
  <2>2. \A i \in DOMAIN answer : DownGood(answer[i], client, s, log')
    BY <2>1, InterimLog
  <2>3. DownGood(p, client, s, log')
    BY <2>1 DEF DownGood
  <2> DEFINE q == Append(answer, p)
  <2>4. q \in Seq(PacketSet) /\ \A i \in DOMAIN q : DownGood(q[i], client, s, log')
    BY <1>2, <2>1, <2>2, <2>3, AppendGood
  <2>5. down' = down \o q
    BY <2>1
  <2> HIDE DEF q
  <2> QED
    BY <1>2, <1>3, <2>1, <2>4, <2>5, ServerActs DEF LogGrows
<1>8. ASSUME NEW f \in Forwards, SessionForward(s, answer, f)
      PROVE  Core'
  <2>0. PICK id \in 2..IdLimit, p \in PacketSet : Forwarded(s, answer, f, id, p)
    BY <1>1, <1>2, <1>8, ForwardIs
  <2>1. /\ ServerOK(server') /\ Extends(s, server') /\ server'.served = s.served
        /\ id > s.last_channel_id /\ id \notin DOMAIN s.channels
        /\ server'.last_channel_id = id
        /\ DOMAIN server'.channels = DOMAIN s.channels \cup {id}
        /\ \A n \in DOMAIN s.channels : server'.channels[n] = s.channels[n]
        /\ server'.channels[id].recipient_channel = 0
        /\ server'.channels[id].of = f
        /\ down' = down \o Append(answer, p)
        /\ p.type = "OPEN" /\ p.num = id /\ p.of = f
        /\ LogGrows /\ log'.asked = log.asked \cup {f}
    BY <2>0 DEF Forwarded
  <2>2. ClientOK(client) /\ ServerOK(server)
    BY CoreParts
  <2>3. Extends(server, server')
    BY <1>2, <2>1, <2>2, ChannelAssumption DEF Extends, ServerOK, IsSession, IsTable
  <2>4. Entries(server', client)
    <3>1. Owned(client, 0, f)
      BY <2>2, ChannelAssumption DEF Owned, ClientOK, IsSession, IsTable
    <3> QED
      BY <1>2, <2>1, <3>1 DEF Entries
  <2>5. \A i \in DOMAIN answer : DownGood(answer[i], client, server', log')
    <3>1. \A i \in DOMAIN answer :
             answer[i] \in PacketSet /\ DownGood(answer[i], client, s, log')
      BY <1>2, <2>1, InterimLog
    <3>2. Extends(client, client)
      BY <2>2, ExtendsItself
    <3> QED
      BY <1>2, <2>1, <2>2, <3>1, <3>2, DownGoodKept
  <2>6. DownGood(p, client, server', log')
    BY <2>1, ChannelAssumption DEF DownGood, Owned
  <2>7. /\ Append(answer, p) \in Seq(PacketSet)
        /\ \A i \in DOMAIN Append(answer, p) :
              DownGood(Append(answer, p)[i], client, server', log')
    BY <1>2, <2>5, <2>6, AppendGood
  <2> DEFINE q == Append(answer, p)
  <2> HIDE DEF q
  <2>8. /\ q \in Seq(PacketSet) /\ down' = down \o q
        /\ \A i \in DOMAIN q : DownGood(q[i], client, server', log')
    BY <2>1, <2>7 DEF q
  <2> QED
    BY <1>2, <1>3, <2>1, <2>3, <2>4, <2>8, ServerActs DEF LogGrows
<1> QED
  BY <1>1, <1>2, <1>4, <1>5, <1>6, <1>7, <1>8, HandlerCases

(* adjust_window_size writes nothing or one packet on the entry's number. *)
LEMMA AdjustmentIs ==
    ASSUME NEW side, IsTable(side.channels, EntrySet), NEW num,
           NEW answer \in Adjustments(side, num)
    PROVE  /\ answer \in Seq(PacketSet)
           /\ \A i \in DOMAIN answer :
                 /\ answer[i].type = "WINDOW_ADJUST"
                 /\ num \in DOMAIN side.channels
                 /\ answer[i].num = side.channels[num].recipient_channel
                 /\ answer[i].of = side.channels[num].of
<1> DEFINE p == Packet("WINDOW_ADJUST", side.channels[num].recipient_channel,
                       side.channels[num].of)
<1>1. answer = <<>> \/ (num \in DOMAIN side.channels /\ answer = <<p>>)
  BY DEF Adjustments
<1>2. CASE answer = <<>>
  BY <1>2
<1>3. CASE num \in DOMAIN side.channels /\ answer = <<p>>
  <2>1. /\ side.channels[num].recipient_channel \in 0..IdLimit
        /\ side.channels[num].of \in Channels
    BY <1>3 DEF IsTable, EntrySet
  <2>2. /\ p \in PacketSet /\ p.type = "WINDOW_ADJUST"
        /\ p.num = side.channels[num].recipient_channel /\ p.of = side.channels[num].of
    BY <2>1, ChannelAssumption DEF Packet, PacketSet
  <2> HIDE DEF p
  <2> QED
    BY <1>3, <2>2
<1> QED
  BY <1>1, <1>2, <1>3

LEMMA Untouched ==
    ASSUME Core PROVE Interim(server, <<>>)
<1>1. ServerOK(server) /\ Extends(server, server)
  BY CoreParts, ExtendsItself
<1> QED
  BY <1>1 DEF Core, Interim

LEMMA HeadIs ==
    /\ Core /\ up # <<>> =>
         /\ Head(up) = up[1] /\ 1 \in DOMAIN up
         /\ Head(up) \in PacketSet /\ UpGood(Head(up), client, server, app)
    /\ Core /\ down # <<>> =>
         /\ Head(down) = down[1] /\ 1 \in DOMAIN down
         /\ Head(down) \in PacketSet /\ DownGood(Head(down), client, server, log)
<1>1. ASSUME Core, up # <<>>
      PROVE  /\ Head(up) = up[1] /\ 1 \in DOMAIN up
             /\ Head(up) \in PacketSet /\ UpGood(Head(up), client, server, app)
  <2>1. Head(up) = up[1] /\ 1 \in DOMAIN up
    BY <1>1, CoreParts
  <2> QED
    BY <1>1, <2>1, CoreParts DEF Core
<1>2. ASSUME Core, down # <<>>
      PROVE  /\ Head(down) = down[1] /\ 1 \in DOMAIN down
             /\ Head(down) \in PacketSet /\ DownGood(Head(down), client, server, log)
  <2>1. Head(down) = down[1] /\ 1 \in DOMAIN down
    BY <1>2, CoreParts
  <2> QED
    BY <1>2, <2>1, CoreParts DEF Core
<1> QED
  BY <1>1, <1>2

(* CHANNEL_OPEN of a known type. *)
Accepting(s, answer, id, p, q) ==
    /\ Interim(s, answer) /\ Handler(s, answer)
    /\ s.fate = server.fate /\ s.served = server.served \cup {p.of}
    /\ id > server.last_channel_id /\ id \notin DOMAIN server.channels
    /\ s.last_channel_id = id
    /\ DOMAIN s.channels = DOMAIN server.channels \cup {id}
    /\ \A n \in DOMAIN server.channels : s.channels[n] = server.channels[n]
    /\ s.channels[id].recipient_channel = p.num
    /\ s.channels[id].confirmed /\ ~s.channels[id].wants_reply
    /\ s.channels[id].of = p.of
    /\ answer = <<q>>
    /\ q.type = "CONFIRM" /\ q.num = p.num /\ q.of = p.of /\ q.from = id

LEMMA ServerOpenIs ==
    ASSUME Core, ServerOpen
    PROVE  /\ Head(up).of \in Calls /\ app[Head(up).of].phase # "none"
           /\ Owned(client, Head(up).num, Head(up).of)
           /\ \E s, answer : \E id \in 2..IdLimit, q \in PacketSet :
                 Accepting(s, answer, id, Head(up), q)
<1> DEFINE p == Head(up)
           id == NewId(server)
           e == Entry(p.num, TRUE, p.of)
           t == Opened(server, id, e)
           s == [t EXCEPT !.served = @ \cup {p.of}]
           q == Confirmation(p, id)
<1>1. up # <<>> /\ p.type = "OPEN" /\ server.last_channel_id < IdLimit /\ Handler(s, <<q>>)
  BY DEF ServerOpen, ServerReads
<1>2. p \in PacketSet /\ UpGood(p, client, server, app)
  BY <1>1, HeadIs
<1>3. p.of \in Calls /\ app[p.of].phase # "none" /\ Owned(client, p.num, p.of)
  BY <1>1, <1>2 DEF UpGood, Asking
<1>4. p.num \in 0..IdLimit /\ p.of \in Channels
  BY <1>2 DEF PacketSet
<1>5. ClientOK(client) /\ ServerOK(server)
  BY CoreParts
<1> HIDE DEF p
<1>6. /\ e \in EntrySet /\ e.recipient_channel = p.num /\ e.of = p.of
      /\ e.confirmed /\ ~e.wants_reply
  BY <1>4 DEF Entry, EntrySet
<1> HIDE DEF e
<1>7. /\ ServerOK(t) /\ Extends(server, t)
      /\ id \in 2..IdLimit /\ id > server.last_channel_id /\ id \notin DOMAIN server.channels
      /\ t.last_channel_id = id
      /\ t.channels[id] = e
      /\ DOMAIN t.channels = DOMAIN server.channels \cup {id}
      /\ \A n \in DOMAIN server.channels : t.channels[n] = server.channels[n]
      /\ t.served = server.served /\ t.fate = server.fate
  BY <1>1, <1>5, <1>6, OpenedServer
<1> HIDE DEF id, t
<1>8. /\ s.last_channel_id = t.last_channel_id /\ s.channels = t.channels /\ s.fate = t.fate
      /\ s.served = server.served \cup {p.of}
      /\ DOMAIN s = DOMAIN t
  BY <1>7 DEF ServerOK, IsSession
<1> HIDE DEF s
<1>9. ServerOK(s) /\ Extends(server, s)
  BY <1>3, <1>7, <1>8 DEF ServerOK, IsSession, Numbered, Extends
<1>10. q \in PacketSet /\ q.type = "CONFIRM" /\ q.num = p.num /\ q.of = p.of /\ q.from = id
  <2>1. id \in 0..IdLimit /\ 0 \in 0..IdLimit
    BY <1>7, ChannelAssumption
  <2> QED
    BY <1>4, <2>1 DEF Confirmation, Packet, PacketSet
<1> HIDE DEF q
<1>11. Entries(s, client)
  BY <1>3, <1>6, <1>7, <1>8 DEF Core, Entries
<1>12. DownGood(q, client, s, log)
  BY <1>3, <1>6, <1>7, <1>8, <1>10, ChannelAssumption DEF DownGood, Owned
<1>13. Interim(s, <<q>>)
  BY <1>8, <1>9, <1>10, <1>11, <1>12 DEF Interim
<1>14. Accepting(s, <<q>>, id, p, q)
  BY <1>1, <1>6, <1>7, <1>8, <1>10, <1>13 DEF Accepting
<1>15. \E ss, answer : \E i \in 2..IdLimit, qq \in PacketSet : Accepting(ss, answer, i, p, qq)
  BY <1>7, <1>10, <1>14
<1> QED
  BY <1>3, <1>15 DEF p

LEMMA ServerOpenCore == Core /\ ServerOpen => Core'
<1> SUFFICES ASSUME Core, ServerOpen PROVE Core'
  OBVIOUS
<1>1. PICK s, answer : \E id \in 2..IdLimit, q \in PacketSet :
          Accepting(s, answer, id, Head(up), q)
  BY ServerOpenIs
<1>2. Interim(s, answer) /\ Handler(s, answer)
  BY <1>1 DEF Accepting
<1> QED
  BY <1>2, HandlerCore DEF ServerOpen, ServerReads

(* The number is used up, nothing is entered. *)
LEMMA ServerOpenOtherIs ==
    ASSUME Core, ServerOpenOther
    PROVE  \E q \in PacketSet :
              /\ ServerOK(server') /\ Extends(server, server')
              /\ server'.channels = server.channels /\ server'.served = server.served
              /\ server'.fate = server.fate
              /\ q.type = "OPEN_FAILURE" /\ q.num = Head(up).num /\ q.of = Head(up).of
              /\ down' = down \o <<q>>
<1> DEFINE id == NewId(server)
           s == [server EXCEPT !.last_channel_id = id]
           q == Refusal(Head(up), id)
<1>1. up # <<>> /\ server.last_channel_id < IdLimit /\ server' = s /\ down' = down \o <<q>>
  BY DEF ServerOpenOther, ServerReads, Returns
<1>2. ServerOK(server) /\ server.last_channel_id \in 1..IdLimit /\ Numbered(server)
  BY CoreParts DEF ServerOK, IsSession
<1>3. id \in server.last_channel_id + 1 .. IdLimit
  BY <1>1, <1>2, NewIdIsNew, ChannelAssumption
<1> HIDE DEF id
<1>4. /\ s.last_channel_id = id /\ s.channels = server.channels /\ s.fate = server.fate
      /\ s.served = server.served /\ DOMAIN s = DOMAIN server
  BY <1>2 DEF ServerOK, IsSession
<1> HIDE DEF s
<1>5. ServerOK(s) /\ Extends(server, s)
  BY <1>2, <1>3, <1>4, ChannelAssumption DEF ServerOK, IsSession, IsTable, Numbered, Extends
<1>6. Head(up) \in PacketSet
  BY <1>1, HeadIs
<1>7. /\ q \in PacketSet /\ q.type = "OPEN_FAILURE"
      /\ q.num = Head(up).num /\ q.of = Head(up).of
  BY <1>6, ChannelAssumption DEF Refusal, Packet, PacketSet
<1> HIDE DEF q
<1> QED
  BY <1>1, <1>4, <1>5, <1>7

LEMMA ServerOpenOtherCore == Core /\ ServerOpenOther => Core'
<1> SUFFICES ASSUME Core, ServerOpenOther PROVE Core'
  OBVIOUS
<1>1. PICK q \in PacketSet :
              /\ ServerOK(server') /\ Extends(server, server')
              /\ server'.channels = server.channels /\ server'.served = server.served
              /\ server'.fate = server.fate
              /\ q.type = "OPEN_FAILURE" /\ q.num = Head(up).num /\ q.of = Head(up).of
              /\ down' = down \o <<q>>
  BY ServerOpenOtherIs
<1>2. up # <<>> /\ Head(up).type = "OPEN_OTHER" /\ up' = Tail(up)
      /\ UNCHANGED <<client, app, heard, left, log>>
  BY DEF ServerOpenOther, ServerReads
<1>3. Owned(client, Head(up).num, Head(up).of)
  BY <1>2, HeadIs DEF UpGood, Asking
<1>4. DownGood(q, client, server', log')
  BY <1>1, <1>3 DEF DownGood
<1>5. Entries(server', client)
  BY <1>1 DEF Core, Entries
<1> DEFINE packets == <<q>>
<1>6. /\ packets \in Seq(PacketSet) /\ down' = down \o packets
      /\ \A i \in DOMAIN packets : DownGood(packets[i], client, server', log')
  BY <1>1, <1>4
<1>7. /\ log' \in LogSet /\ log.asked \subseteq log'.asked /\ log.refused \subseteq log'.refused
      /\ left' \in [client : Nat, server : Nat]
  BY <1>2, CoreParts
<1> HIDE DEF packets
<1> QED
  BY <1>1, <1>2, <1>5, <1>6, <1>7, ServerActs

(* The other messages of the client. *)
LEMMA ServerWantsIs ==
    ASSUME NEW s, ServerOK(s), NEW p \in PacketSet
    PROVE  ServerOK(Wants(s, p)) /\ SameTable(Wants(s, p), s)
<1>1. CASE p.num \in DOMAIN s.channels
  <2> DEFINE t == Wants(s, p)
             id == p.num
  <2>1. /\ DOMAIN t = DOMAIN s /\ t.fate = s.fate /\ t.served = s.served
        /\ t.last_channel_id = s.last_channel_id
        /\ DOMAIN t.channels = DOMAIN s.channels
        /\ t.channels[id] = [s.channels[id] EXCEPT !.wants_reply = p.wants]
        /\ \A n \in DOMAIN s.channels : n # id => t.channels[n] = s.channels[n]
    BY <1>1 DEF Wants, ServerOK, IsSession
  <2> HIDE DEF t
  <2>2. s.channels[id] \in EntrySet /\ p.wants \in BOOLEAN
    BY <1>1 DEF ServerOK, IsSession, IsTable, PacketSet
  <2>3. /\ t.channels[id] \in EntrySet
        /\ t.channels[id].recipient_channel = s.channels[id].recipient_channel
        /\ t.channels[id].confirmed = s.channels[id].confirmed
        /\ t.channels[id].of = s.channels[id].of
    BY <2>1, <2>2 DEF EntrySet
  <2>4. SameTable(t, s)
    BY <2>1, <2>3 DEF SameTable
  <2>5. ServerOK(t)
    BY <2>1, <2>3 DEF ServerOK, IsSession, IsTable, Numbered
  <2> QED
    BY <2>4, <2>5 DEF t
<1>2. CASE p.num \notin DOMAIN s.channels
  BY <1>2, SameTableItself DEF Wants
<1> QED
  BY <1>1, <1>2

(* What the library has done when the callback for a message is entered. *)
Between(s, answer) ==
    /\ Interim(s, answer) /\ Handler(s, answer)
    /\ \/ SameTable(s, server) /\ answer = <<>>
       \/ /\ s = server
          /\ \A i \in DOMAIN answer :
                /\ answer[i].type = "WINDOW_ADJUST"
                /\ \E n \in DOMAIN server.channels :
                      /\ answer[i].num = server.channels[n].recipient_channel
                      /\ answer[i].of = server.channels[n].of

LEMMA ServerCloseInterim ==
    ASSUME Core, NEW id
    PROVE  Interim([server EXCEPT !.channels = Remove(@, id)], <<>>)
<1> DEFINE s == [server EXCEPT !.channels = Remove(@, id)]
<1>1. /\ ServerOK(s) /\ Extends(server, s) /\ s.served = server.served
      /\ DOMAIN s.channels = DOMAIN server.channels \ {id}
      /\ \A n \in DOMAIN s.channels : s.channels[n] = server.channels[n]
  BY CoreParts, RemovedServer
<1> HIDE DEF s
<1>2. Entries(s, client)
  BY <1>1 DEF Core, Entries
<1>3. Interim(s, <<>>)
  BY <1>1, <1>2 DEF Interim
<1> QED
  BY <1>3 DEF s

LEMMA ServerMessageIs ==
    ASSUME Core,
           \/ ServerEof \/ ServerData \/ ServerRequest
           \/ ServerWindowAdjust /\ Head(up).num \in DOMAIN server.channels
    PROVE  \E s, answer : Between(s, answer)
<1>1. Interim(server, <<>>) /\ SameTable(server, server) /\ ServerOK(server)
  BY Untouched, SameTableItself, CoreParts
<1>2. CASE ServerEof \/ (ServerWindowAdjust /\ Head(up).num \in DOMAIN server.channels)
  <2>1. Handler(server, <<>>)
    BY <1>2 DEF ServerEof, ServerWindowAdjust
  <2>2. Between(server, <<>>)
    BY <1>1, <2>1 DEF Between
  <2> QED
    BY <2>2
<1>3. CASE ServerData
  <2>1. PICK answer \in Adjustments(server, Head(up).num) : Handler(server, answer)
    BY <1>3 DEF ServerData
  <2>2. IsTable(server.channels, EntrySet)
    BY <1>1 DEF ServerOK, IsSession
  <2>3. /\ answer \in Seq(PacketSet)
        /\ \A i \in DOMAIN answer :
                 /\ answer[i].type = "WINDOW_ADJUST"
                 /\ Head(up).num \in DOMAIN server.channels
                 /\ answer[i].num = server.channels[Head(up).num].recipient_channel
                 /\ answer[i].of = server.channels[Head(up).num].of
    BY <2>2, AdjustmentIs
  <2>4. \A i \in DOMAIN answer : DownGood(answer[i], client, server, log)
    BY <2>3 DEF Core, Entries, DownGood
  <2>5. Interim(server, answer)
    BY <1>1, <2>3, <2>4 DEF Interim
  <2>6. Between(server, answer)
    BY <2>1, <2>3, <2>5 DEF Between
  <2> QED
    BY <2>6
<1>4. CASE ServerRequest
  <2> DEFINE s == Wants(server, Head(up))
  <2>1. Handler(s, <<>>) /\ up # <<>>
    BY <1>4 DEF ServerRequest, ServerReads
  <2>2. ServerOK(s) /\ SameTable(s, server)
    BY <1>1, <2>1, HeadIs, ServerWantsIs
  <2> HIDE DEF s
  <2>3. Extends(server, s) /\ Entries(s, client) /\ server.served \subseteq s.served
    BY <1>1, <2>2 DEF SameTable, Extends, Core, Entries, Interim
  <2>4. Interim(s, <<>>)
    BY <2>2, <2>3 DEF Interim
  <2>5. Between(s, <<>>)
    BY <2>1, <2>2, <2>4 DEF Between
  <2> QED
    BY <2>5
<1> QED
  BY <1>2, <1>3, <1>4

LEMMA ServerReceivesCore ==
    ASSUME Core, ServerClose \/ ServerEof \/ ServerData \/ ServerRequest
                 \/ ServerWindowAdjust \/ ServerIgnores
    PROVE  Core'
<1>1. /\ up # <<>> /\ up' = Tail(up)
      /\ UNCHANGED <<client, app, heard>>
  BY DEF ServerClose, ServerEof, ServerData, ServerRequest, ServerWindowAdjust,
         ServerIgnores, ServerReads
<1>2. CASE ServerClose
  BY <1>1, <1>2, ServerCloseInterim, HandlerCore DEF ServerClose
<1>3. CASE \/ ServerEof \/ ServerData \/ ServerRequest
           \/ ServerWindowAdjust /\ Head(up).num \in DOMAIN server.channels
  <2>1. PICK s, answer : Between(s, answer)
    BY <1>3, ServerMessageIs
  <2> QED
    BY <1>1, <2>1, HandlerCore DEF Between
<1> DEFINE q == <<>>
<1>4. down' = down => down' = down \o q /\ q \in Seq(PacketSet) /\ DOMAIN q = {}
  BY CoreParts
<1> HIDE DEF q
<1>5. CASE ServerWindowAdjust /\ Head(up).num \notin DOMAIN server.channels
  <2>1. server' = Ends(server, "WrongChannel") /\ UNCHANGED <<down, left, log>>
    BY <1>5 DEF ServerWindowAdjust
  <2>2. /\ ServerOK(server') /\ Extends(server, server')
        /\ server'.channels = server.channels /\ server'.served = server.served
    BY <2>1, CoreParts, EndsKeeps DEF Fates
  <2>3. Entries(server', client)
    BY <2>2 DEF Core, Entries
  <2>4. log' \in LogSet /\ left' \in [client : Nat, server : Nat]
    BY <2>1, CoreParts
  <2> QED
    BY <1>1, <1>4, <2>1, <2>2, <2>3, <2>4, ServerActs
<1>6. CASE ServerIgnores
  <2>1. UNCHANGED <<server, down, left, log>>
    BY <1>6 DEF ServerIgnores
  <2>2. ServerOK(server) /\ Extends(server, server) /\ Entries(server, client)
    BY CoreParts, ExtendsItself DEF Core
  <2>3. log' \in LogSet /\ left' \in [client : Nat, server : Nat]
    BY <2>1, CoreParts
  <2> QED
    BY <1>1, <1>4, <2>1, <2>2, <2>3, ServerActs
<1> QED
  BY <1>2, <1>3, <1>5, <1>6

LEMMA ServerAloneCore ==
    ASSUME Core, ServerHandle \/ ServerHangup PROVE Core'
<1>1. UNCHANGED <<client, app, heard, up>>
  BY DEF ServerHandle, ServerHangup
<1>2. CASE ServerHandle
  <2>1. PICK id \in DOMAIN server.channels :
            SessionEof(server, <<>>, id) \/ SessionWrite(server, <<>>, id)
    BY <1>2 DEF ServerHandle
  <2>2. HandlerCall(server, <<>>)
    BY <1>2, <2>1 DEF ServerHandle, HandlerCall
  <2> QED
    BY <1>1, <2>2, Untouched, HandlerCore DEF Handler
<1>3. CASE ServerHangup
  <2>1. server' = Ends(server, "over") /\ UNCHANGED <<down, left, log>>
    BY <1>3 DEF ServerHangup
  <2> DEFINE q == <<>>
  <2>2. down' = down \o q /\ q \in Seq(PacketSet) /\ DOMAIN q = {}
    BY <2>1, CoreParts
  <2> HIDE DEF q
  <2>3. /\ ServerOK(server') /\ Extends(server, server')
        /\ server'.channels = server.channels /\ server'.served = server.served
    BY <2>1, CoreParts, EndsKeeps DEF Fates
  <2>4. Entries(server', client)
    BY <2>3 DEF Core, Entries
  <2>5. log' \in LogSet /\ left' \in [client : Nat, server : Nat]
    BY <2>1, CoreParts
  <2> QED
    BY <1>1, <2>1, <2>2, <2>3, <2>4, <2>5, ServerActs
<1> QED
  BY <1>2, <1>3

-----------------------------------------------------------------------------
(* Core, step by step: the client. *)

(* What reaches the receiver of a channel: one message, or nothing. *)
LEMMA TellIs ==
    ASSUME Core, NEW num \in 0..IdLimit,
           NEW what \in Messages,
           Tell(num, what)
    PROVE  /\ heard' \in [Channels -> Seq(HeardSet)]
           /\ \A ch \in Channels : \A i \in DOMAIN heard'[ch] :
                 \/ i \in DOMAIN heard[ch] /\ heard'[ch][i] = heard[ch][i]
                 \/ /\ num \in DOMAIN client.channels /\ ch = client.channels[num].of
                    /\ heard'[ch][i].what = what /\ heard'[ch][i].id = num
<1>1. /\ ClientOK(client) /\ heard \in [Channels -> Seq(HeardSet)]
      /\ client.senders = [id \in DOMAIN client.channels |-> client.channels[id].of]
  BY CoreParts DEF Core, TablesAgree
<1>2. CASE num \in DOMAIN client.channels
  <2> DEFINE c == client.channels[num].of
             e == [what |-> what, id |-> num]
  <2>1. c \in Channels
    BY <1>1, <1>2 DEF ClientOK, IsSession, IsTable, EntrySet
  <2>2. heard' = [heard EXCEPT ![c] = Append(@, e)]
    BY <1>1, <1>2 DEF Tell
  <2>3. e \in HeardSet /\ e.what = what /\ e.id = num
    BY DEF HeardSet
  <2> HIDE DEF c, e
  <2>4. heard[c] \in Seq(HeardSet)
    BY <1>1, <2>1
  <2>5. /\ Append(heard[c], e) \in Seq(HeardSet)
        /\ \A i \in DOMAIN Append(heard[c], e) :
              \/ i \in DOMAIN heard[c] /\ Append(heard[c], e)[i] = heard[c][i]
              \/ Append(heard[c], e)[i] = e
    BY <2>3, <2>4, AppendElements
  <2> DEFINE q == Append(heard[c], e)
  <2> HIDE DEF q
  <2>6. /\ heard'[c] = q /\ q \in Seq(HeardSet)
        /\ \A ch \in Channels : ch # c => heard'[ch] = heard[ch]
        /\ heard' \in [Channels -> Seq(HeardSet)]
    BY <1>1, <2>1, <2>2, <2>5 DEF q
  <2>7. \A i \in DOMAIN q : (i \in DOMAIN heard[c] /\ q[i] = heard[c][i]) \/ q[i] = e
    BY <2>5 DEF q
  <2> QED
    BY <1>2, <2>3, <2>6, <2>7 DEF c
<1>3. CASE num \notin DOMAIN client.channels
  BY <1>1, <1>3 DEF Tell
<1> QED
  BY <1>2, <1>3

LEMMA ToldGood ==
    ASSUME Core, NEW num \in 0..IdLimit,
           NEW what \in Messages,
           Tell(num, what),
           what = "Open" /\ num \in DOMAIN client.channels
               => client.channels[num].of \in server.served
    PROVE  heard' \in [Channels -> Seq(HeardSet)] /\ HeardGood(heard', server)
<1>1. /\ heard' \in [Channels -> Seq(HeardSet)]
      /\ \A ch \in Channels : \A i \in DOMAIN heard'[ch] :
            \/ i \in DOMAIN heard[ch] /\ heard'[ch][i] = heard[ch][i]
            \/ /\ num \in DOMAIN client.channels /\ ch = client.channels[num].of
               /\ heard'[ch][i].what = what /\ heard'[ch][i].id = num
  BY TellIs
<1>2. HeardGood(heard, server) /\ Calls \subseteq Channels
  BY DEF Core, Channels
<1> QED
  BY <1>1, <1>2 DEF HeardGood

(* What a step of the client that leaves its application alone must show. *)
LEMMA ClientQuiet ==
    ASSUME Core, ClientOK(client'), Extends(client, client'), Entries(client', server),
           heard' \in [Channels -> Seq(HeardSet)], HeardGood(heard', server),
           up' \in Seq(PacketSet),
           \A i \in DOMAIN up' : \/ i \in DOMAIN up /\ up'[i] = up[i]
                                 \/ UpGood(up'[i], client', server, app),
           down' = down \/ (down # <<>> /\ down' = Tail(down)),
           UNCHANGED <<server, app, left, log>>
    PROVE  Core'
<1>1. /\ app' \in [Channels -> AppSet] /\ log' \in LogSet
      /\ left' \in [client : Nat, server : Nat]
  BY CoreParts
<1>2. \A ch \in Calls : app'[ch].phase = "open" => ch \in server.served
  BY DEF Core
<1> QED
  BY <1>1, <1>2, ClientActs

LEMMA Silent ==
    Core => /\ heard \in [Channels -> Seq(HeardSet)] /\ HeardGood(heard, server)
            /\ ClientOK(client) /\ Extends(client, client) /\ Entries(client, server)
            /\ up \in Seq(PacketSet)
BY CoreParts, ExtendsItself DEF Core

LEMMA CallOpenIs ==
    ASSUME Core, NEW ch \in Calls, NEW type \in Types, CallOpen(ch, type)
    PROVE  \E id \in 2..IdLimit, p \in PacketSet :
              /\ ClientOK(client') /\ Extends(client, client')
              /\ client'.fate = client.fate
              /\ id > client.last_channel_id /\ id \notin DOMAIN client.channels
              /\ client'.last_channel_id = id
              /\ DOMAIN client'.channels = DOMAIN client.channels \cup {id}
              /\ \A n \in DOMAIN client.channels : client'.channels[n] = client.channels[n]
              /\ client'.channels[id].recipient_channel = 0
              /\ ~client'.channels[id].confirmed
              /\ client'.channels[id].of = ch
              /\ p.type \in Asking /\ p.num = id /\ p.of = ch
              /\ up' = Append(up, p)
<1> DEFINE id == NewId(client)
           e == Entry(0, FALSE, ch)
           t == Opened(client, id, e)
           new == [t EXCEPT !.senders = Insert(@, id, e.of)]
           p == Packet(IF type = "known" THEN "OPEN" ELSE "OPEN_OTHER", id, ch)
<1>1. ch \in Channels /\ 0 \in 0..IdLimit
  BY ChannelAssumption DEF Channels
<1>2. /\ e \in EntrySet /\ e.recipient_channel = 0 /\ e.confirmed = FALSE /\ e.of = ch
  BY <1>1 DEF Entry, EntrySet
<1>3. /\ client.last_channel_id < IdLimit /\ up' = Append(up, p)
      /\ client' = [t EXCEPT !.senders = Insert(@, id, ch)]
  BY DEF CallOpen
<1> HIDE DEF e
<1>4. ClientOK(client)
  BY CoreParts
<1>5. /\ ClientOK(new) /\ Extends(client, new)
      /\ id \in 2..IdLimit /\ id > client.last_channel_id /\ id \notin DOMAIN client.channels
      /\ new.last_channel_id = id
      /\ new.channels[id] = e
      /\ DOMAIN new.channels = DOMAIN client.channels \cup {id}
      /\ \A n \in DOMAIN client.channels : new.channels[n] = client.channels[n]
      /\ new.fate = client.fate
  BY <1>2, <1>3, <1>4, OpenedClient
<1>6. client' = new
  BY <1>2, <1>3
<1> HIDE DEF id, t, new
<1>7. p \in PacketSet /\ p.type \in Asking /\ p.num = id /\ p.of = ch
  BY <1>1, <1>5, ChannelAssumption DEF Packet, PacketSet, Asking
<1> HIDE DEF p
<1> QED
  BY <1>2, <1>3, <1>5, <1>6, <1>7

LEMMA CallOpenCore ==
    ASSUME Core, NEW ch \in Calls, NEW type \in Types, CallOpen(ch, type) PROVE Core'
<1>1. PICK id \in 2..IdLimit, p \in PacketSet :
              /\ ClientOK(client') /\ Extends(client, client')
              /\ client'.fate = client.fate
              /\ id > client.last_channel_id /\ id \notin DOMAIN client.channels
              /\ client'.last_channel_id = id
              /\ DOMAIN client'.channels = DOMAIN client.channels \cup {id}
              /\ \A n \in DOMAIN client.channels : client'.channels[n] = client.channels[n]
              /\ client'.channels[id].recipient_channel = 0
              /\ ~client'.channels[id].confirmed
              /\ client'.channels[id].of = ch
              /\ p.type \in Asking /\ p.num = id /\ p.of = ch
              /\ up' = Append(up, p)
  BY CallOpenIs
<1>2. /\ app[ch].phase = "none" /\ app' = [app EXCEPT ![ch].phase = "waiting"]
      /\ UNCHANGED <<server, heard, down, left, log>>
  BY DEF CallOpen
<1>3. /\ app \in [Channels -> AppSet] /\ up \in Seq(PacketSet) /\ ServerOK(server)
      /\ left \in [client : Nat, server : Nat] /\ log \in LogSet
      /\ heard \in [Channels -> Seq(HeardSet)]
  BY CoreParts
<1>4. ch \in Channels
  BY DEF Channels
<1>5. /\ app' \in [Channels -> AppSet] /\ app'[ch].phase = "waiting"
      /\ \A c \in Channels : c # ch => app'[c] = app[c]
  BY <1>2, <1>3, <1>4 DEF AppSet
<1>6. Entries(client', server)
  <2>1. Owned(server, 0, ch)
    BY <1>3, ChannelAssumption DEF Owned, ServerOK, IsSession, IsTable
  <2> QED
    BY <1>1, <2>1 DEF Core, Entries
<1>7. UpGood(p, client', server, app')
  BY <1>1, <1>5, ChannelAssumption DEF UpGood, Owned
<1> DEFINE q == Append(up, p)
<1>8. /\ q \in Seq(PacketSet)
      /\ \A i \in DOMAIN q : (i \in DOMAIN up /\ q[i] = up[i]) \/ q[i] = p
  BY <1>1, <1>3, AppendElements
<1>9. up' = q
  BY <1>1
<1> HIDE DEF q
<1>10. /\ \A c \in Channels : app[c].phase # "none" => app'[c].phase # "none"
       /\ \A c \in Calls : app'[c].phase = "open" => c \in server.served
  BY <1>5 DEF Core, Channels
<1>11. HeardGood(heard', server)
  BY <1>2 DEF Core
<1> QED
  BY <1>1, <1>2, <1>3, <1>5, <1>6, <1>7, <1>8, <1>9, <1>10, <1>11, ClientActs

LEMMA CallReturnsCore ==
    ASSUME Core, NEW ch \in Calls, Returned(ch) PROVE Core'
<1>1. UNCHANGED <<client, server, heard, up, down, left, log>>
  BY DEF Returned, CallReturnsChannel, CallFails
<1>2. /\ app \in [Channels -> AppSet] /\ up \in Seq(PacketSet)
      /\ left \in [client : Nat, server : Nat] /\ log \in LogSet
      /\ heard \in [Channels -> Seq(HeardSet)] /\ ch \in Channels
  BY CoreParts DEF Channels
<1>3. /\ app' \in [Channels -> AppSet]
      /\ \A c \in Channels : app[c].phase # "none" => app'[c].phase # "none"
      /\ \A c \in Calls : app'[c].phase = "open" => c \in server.served
  <2>1. CASE CallReturnsChannel(ch)
    <3>1. PICK i \in Confirmations(ch) :
              app' = [app EXCEPT ![ch] = [phase |-> "open", id |-> heard[ch][i].id]]
      BY <2>1 DEF CallReturnsChannel
    <3>2. i \in DOMAIN heard[ch] /\ heard[ch][i].what = "Open"
      BY DEF Confirmations
    <3>3. ch \in server.served
      BY <3>2 DEF Core, HeardGood
    <3>4. heard[ch] \in Seq(HeardSet)
      BY <1>2
    <3>5. heard[ch][i].id \in 0..IdLimit
      <4>1. heard[ch][i] \in HeardSet
        BY <3>2, <3>4
      <4> QED
        BY <4>1 DEF HeardSet
    <3>6. app' \in [Channels -> AppSet] /\ app'[ch].phase = "open"
          /\ \A c \in Channels : c # ch => app'[c] = app[c]
      BY <1>2, <3>1, <3>5 DEF AppSet
    <3> QED
      BY <3>3, <3>6 DEF Core, Channels
  <2>2. CASE CallFails(ch)
    <3>1. app' \in [Channels -> AppSet] /\ app'[ch].phase = "failed"
          /\ \A c \in Channels : c # ch => app'[c] = app[c]
      BY <1>2, <2>2 DEF AppSet, CallFails
    <3> QED
      BY <3>1 DEF Core, Channels
  <2> QED
    BY <2>1, <2>2 DEF Returned
<1>4. ClientOK(client') /\ Extends(client, client') /\ Entries(client', server)
      /\ HeardGood(heard', server)
  BY <1>1, Silent
<1> QED
  BY <1>1, <1>2, <1>3, <1>4, ClientActs

(* The application's use of a channel: one packet on the entry's number. *)
UsesEntry(id, p) ==
    /\ p.type \in UseTypes
    /\ p.num = client.channels[id].recipient_channel /\ p.of = client.channels[id].of
    /\ up' = Append(up, p)
    /\ client' = client
    /\ log'.asked = log.asked /\ log'.refused = log.refused /\ log'.closed = log.closed
    /\ log' \in LogSet

LEMMA ClientUseIs ==
    ASSUME Core, NEW ch \in Channels, NEW type \in UseTypes, ClientUse(ch, type)
    PROVE  /\ app[ch].phase = "open" /\ app[ch].id \in DOMAIN client.channels
           /\ left' \in [client : Nat, server : Nat]
           /\ \/ /\ ~client.channels[app[ch].id].confirmed
                 /\ client' = Ends(client, "panic") /\ UNCHANGED <<up, log>>
              \/ \E p \in PacketSet : UsesEntry(app[ch].id, p)
<1> DEFINE id == app[ch].id
           c == client.channels[id]
           P == Packet(type, c.recipient_channel, c.of)
<1>1. /\ app[ch].phase = "open" /\ id \in DOMAIN client.channels
      /\ left.client > 0 /\ left' = [left EXCEPT !.client = @ - 1]
      /\ IF type = "DATA" /\ ~c.confirmed
         THEN client' = Ends(client, "panic") /\ UNCHANGED <<up, log>>
         ELSE \E p \in UsePackets(type, c) :
                  /\ up' = Append(up, p)
                  /\ log' = IF p.wants
                            THEN [log EXCEPT !.wanted[c.of] = @ + 1] ELSE log
                  /\ UNCHANGED client
  BY DEF ClientUse
<1>2. ClientOK(client) /\ left \in [client : Nat, server : Nat] /\ log \in LogSet
  BY CoreParts
<1>3. left' \in [client : Nat, server : Nat]
  BY <1>1, <1>2
<1>4. CASE type = "DATA" /\ ~c.confirmed
  BY <1>1, <1>3, <1>4
<1>5. CASE ~(type = "DATA" /\ ~c.confirmed)
  <2>1. PICK p \in UsePackets(type, c) :
                  /\ up' = Append(up, p)
                  /\ log' = IF p.wants
                            THEN [log EXCEPT !.wanted[c.of] = @ + 1] ELSE log
                  /\ client' = client
    BY <1>1, <1>5
  <2>2. c.recipient_channel \in 0..IdLimit /\ c.of \in Channels
    BY <1>1, <1>2 DEF ClientOK, IsSession, IsTable, EntrySet
  <2>3. type \in {"DATA", "EOF", "REQUEST", "CLOSE"}
    BY DEF UseTypes
  <2>4. p = P \/ \E w \in BOOLEAN : p = [P EXCEPT !.wants = w]
    BY DEF UsePackets
  <2> HIDE DEF c
  <2>5. /\ p \in PacketSet /\ p.type = type /\ p.num = c.recipient_channel /\ p.of = c.of
    <3>1. P \in PacketSet /\ P.type = type /\ P.num = c.recipient_channel /\ P.of = c.of
      BY <2>2, <2>3, ChannelAssumption DEF Packet, PacketSet
    <3> HIDE DEF P
    <3>2. \A w \in BOOLEAN : LET r == [P EXCEPT !.wants = w]
             IN  /\ r \in PacketSet /\ r.type = P.type /\ r.num = P.num /\ r.of = P.of
      BY <3>1 DEF PacketSet
    <3> QED
      BY <2>4, <3>1, <3>2
  <2>6. /\ log' \in LogSet /\ log'.asked = log.asked /\ log'.refused = log.refused
        /\ log'.closed = log.closed
    <3>1. CASE p.wants
      <4>1. log' = [log EXCEPT !.wanted[c.of] = @ + 1]
        BY <2>1, <3>1
      <4>2. log.wanted[c.of] + 1 \in Nat
        BY <1>2, <2>2 DEF LogSet
      <4> QED
        BY <1>2, <2>2, <4>1, <4>2 DEF LogSet
    <3>2. CASE ~p.wants
      BY <1>2, <2>1, <3>2
    <3> QED
      BY <3>1, <3>2
  <2>7. UsesEntry(id, p)
    BY <2>1, <2>5, <2>6 DEF UsesEntry, c
  <2> QED
    BY <1>1, <1>3, <2>5, <2>7
<1> QED
  BY <1>4, <1>5

LEMMA ClientUseCore ==
    ASSUME Core, NEW ch \in Channels, NEW type \in UseTypes, ClientUse(ch, type)
    PROVE  Core'
<1>1. /\ app[ch].phase = "open" /\ app[ch].id \in DOMAIN client.channels
      /\ left' \in [client : Nat, server : Nat]
      /\ \/ /\ ~client.channels[app[ch].id].confirmed
            /\ client' = Ends(client, "panic") /\ UNCHANGED <<up, log>>
         \/ \E p \in PacketSet : UsesEntry(app[ch].id, p)
  BY ClientUseIs
<1>2. UNCHANGED <<server, app, heard, down>>
  BY DEF ClientUse
<1>3. /\ app \in [Channels -> AppSet] /\ log \in LogSet
      /\ heard' \in [Channels -> Seq(HeardSet)] /\ HeardGood(heard', server)
      /\ ClientOK(client) /\ Extends(client, client) /\ Entries(client, server)
      /\ up \in Seq(PacketSet)
  BY <1>2, CoreParts, Silent
<1>4. /\ app' \in [Channels -> AppSet]
      /\ \A c \in Calls : app'[c].phase = "open" => c \in server.served
  BY <1>2, <1>3 DEF Core
<1>5. CASE client' = Ends(client, "panic") /\ UNCHANGED <<up, log>>
  <2>1. /\ ClientOK(client') /\ Extends(client, client')
    BY <1>3, <1>5, EndsKeeps DEF Fates
  <2>2. Entries(client', server)
    <3>1. client'.channels = client.channels
      BY <1>3, <1>5 DEF Ends, ClientOK, IsSession
    <3> QED
      BY <1>3, <3>1 DEF Entries
  <2> QED
    BY <1>1, <1>2, <1>3, <1>4, <1>5, <2>1, <2>2, ClientActs
<1>6. ASSUME NEW p \in PacketSet, UsesEntry(app[ch].id, p) PROVE Core'
  <2>1. /\ p.type \in UseTypes /\ up' = Append(up, p) /\ client' = client
        /\ p.num = client.channels[app[ch].id].recipient_channel
        /\ p.of = client.channels[app[ch].id].of
        /\ log'.asked = log.asked /\ log'.refused = log.refused /\ log' \in LogSet
    BY <1>6 DEF UsesEntry
  <2>2. UpGood(p, client', server, app')
    BY <1>1, <1>3, <2>1 DEF UpGood, Entries, Asking, UseTypes
  <2> DEFINE q == Append(up, p)
  <2>3. /\ q \in Seq(PacketSet)
        /\ \A i \in DOMAIN q : (i \in DOMAIN up /\ q[i] = up[i]) \/ q[i] = p
    BY <1>3, AppendElements
  <2>4. up' = q
    BY <2>1
  <2> HIDE DEF q
  <2> QED
    BY <1>1, <1>2, <1>3, <1>4, <2>1, <2>2, <2>3, <2>4, ClientActs
<1> QED
  BY <1>1, <1>5, <1>6

(* CHANNEL_OPEN_CONFIRMATION. *)
ConfirmedAs(p) ==
    /\ ClientOK(client') /\ Extends(client, client')
    /\ client'.fate = client.fate /\ client'.last_channel_id = client.last_channel_id
    /\ DOMAIN client'.channels = DOMAIN client.channels
    /\ \A n \in DOMAIN client.channels : client'.channels[n].of = client.channels[n].of
    /\ \A n \in DOMAIN client.channels :
          n # p.num => client'.channels[n] = client.channels[n]
    /\ client'.channels[p.num].recipient_channel = p.from
    /\ client'.channels[p.num].confirmed

LEMMA ClientConfirmationIs ==
    ASSUME Core, ClientConfirmation, Head(down).num \in DOMAIN client.channels
    PROVE  ConfirmedAs(Head(down)) /\ Tell(Head(down).num, "Open")
<1> DEFINE p == Head(down)
           c == client.channels[p.num]
<1>1. /\ down # <<>>
      /\ client' = [client EXCEPT !.channels[p.num].recipient_channel = p.from,
                                  !.channels[p.num].confirmed = TRUE]
      /\ Tell(p.num, "Open")
  BY DEF ClientConfirmation, ClientReads
<1>2. p \in PacketSet /\ ClientOK(client)
  BY <1>1, HeadIs, CoreParts
<1> HIDE DEF p
<1>3. p.from \in 0..IdLimit /\ c \in EntrySet /\ p.num \in DOMAIN client.channels
  BY <1>2 DEF PacketSet, ClientOK, IsSession, IsTable, p
<1>4. /\ DOMAIN client' = DOMAIN client /\ client'.fate = client.fate
      /\ client'.last_channel_id = client.last_channel_id
      /\ client'.senders = client.senders
      /\ DOMAIN client'.channels = DOMAIN client.channels
      /\ client'.channels[p.num]
            = [c EXCEPT !.recipient_channel = p.from, !.confirmed = TRUE]
      /\ \A n \in DOMAIN client.channels :
            n # p.num => client'.channels[n] = client.channels[n]
  BY <1>1, <1>2, <1>3 DEF ClientOK, IsSession
<1>5. /\ client'.channels[p.num] \in EntrySet
      /\ client'.channels[p.num].recipient_channel = p.from
      /\ client'.channels[p.num].confirmed
      /\ client'.channels[p.num].of = c.of
  BY <1>3, <1>4 DEF EntrySet
<1>6. \A n \in DOMAIN client.channels : client'.channels[n].of = client.channels[n].of
  BY <1>4, <1>5
<1>7. client'.senders = [n \in DOMAIN client'.channels |-> client'.channels[n].of]
  BY <1>2, <1>4, <1>6 DEF ClientOK
<1>8. ClientOK(client')
  BY <1>2, <1>4, <1>5, <1>7 DEF ClientOK, IsSession, IsTable, Numbered
<1>9. Extends(client, client')
  BY <1>2, <1>4, <1>6 DEF Extends, ClientOK, IsSession
<1> QED
  BY <1>1, <1>4, <1>5, <1>6, <1>8, <1>9 DEF ConfirmedAs, p

(* An error of the client's session, or the end of the connection. *)
LEMMA ClientEnds ==
    ASSUME Core, NEW why \in Fates, client' = Ends(client, why)
    PROVE  /\ ClientOK(client') /\ Extends(client, client') /\ Entries(client', server)
           /\ client'.channels = client.channels /\ client'.fate = why
           /\ client'.last_channel_id = client.last_channel_id
<1>1. /\ ClientOK(client') /\ Extends(client, client')
  BY CoreParts, EndsKeeps
<1>2. /\ client'.channels = client.channels /\ client'.fate = why
      /\ client'.last_channel_id = client.last_channel_id
  BY CoreParts DEF Ends, ClientOK, IsSession
<1> QED
  BY <1>1, <1>2 DEF Core, Entries

LEMMA ClientConfirmationCore == Core /\ ClientConfirmation => Core'
<1> SUFFICES ASSUME Core, ClientConfirmation PROVE Core'
  OBVIOUS
<1> DEFINE p == Head(down)
<1>1. /\ p.type = "CONFIRM" /\ down # <<>> /\ down' = Tail(down)
      /\ UNCHANGED <<server, app, up, left, log>>
  BY DEF ClientConfirmation, ClientReads
<1>2. p \in PacketSet /\ DownGood(p, client, server, log)
  BY <1>1, HeadIs
<1>3. /\ Owned(client, p.num, p.of) /\ Owned(server, p.from, p.of)
      /\ p.of \in server.served /\ p.num \in 0..IdLimit
  BY <1>1, <1>2 DEF DownGood, PacketSet
<1>4. CASE p.num \in DOMAIN client.channels
  <2>1. ConfirmedAs(p) /\ Tell(p.num, "Open")
    BY <1>4, ClientConfirmationIs
  <2>2. client.channels[p.num].of \in server.served
    BY <1>3, <1>4 DEF Owned
  <2>3. heard' \in [Channels -> Seq(HeardSet)] /\ HeardGood(heard', server)
    BY <1>3, <2>1, <2>2, ToldGood DEF Messages
  <2> HIDE DEF p
  <2>4. Entries(client', server)
    BY <1>3, <1>4, <2>1 DEF ConfirmedAs, Core, Entries, Owned
  <2> QED
    BY <1>1, <2>1, <2>3, <2>4, Silent, ClientQuiet DEF ConfirmedAs
<1>5. CASE p.num \notin DOMAIN client.channels
  <2>1. client' = Ends(client, "Inconsistent") /\ UNCHANGED heard
    BY <1>5 DEF ClientConfirmation
  <2>2. ClientOK(client') /\ Extends(client, client') /\ Entries(client', server)
    BY <2>1, ClientEnds DEF Fates
  <2> QED
    BY <1>1, <2>1, <2>2, Silent, ClientQuiet
<1> QED
  BY <1>4, <1>5

LEMMA ClientClosedCore == Core /\ ClientClosed => Core'
<1> SUFFICES ASSUME Core, ClientClosed PROVE Core'
  OBVIOUS
<1>1. /\ down # <<>> /\ down' = Tail(down)
      /\ client' = Forget(client, Head(down).num)
      /\ UNCHANGED <<server, app, heard, up, left, log>>
  BY DEF ClientClosed, ClientReads
<1>2. /\ ClientOK(client') /\ Extends(client, client')
      /\ DOMAIN client'.channels = DOMAIN client.channels \ {Head(down).num}
      /\ \A n \in DOMAIN client'.channels : client'.channels[n] = client.channels[n]
  BY <1>1, CoreParts, ForgottenClient
<1>3. Entries(client', server)
  BY <1>2 DEF Core, Entries
<1> QED
  BY <1>1, <1>2, <1>3, Silent, ClientQuiet

LEMMA ClientListensCore ==
    ASSUME Core, ClientTold \/ ClientData \/ ClientWindowAdjust \/ ClientIgnores
                 \/ ClientForwardIgnored
    PROVE  Core'
<1> DEFINE p == Head(down)
<1>1. /\ down # <<>> /\ down' = Tail(down)
      /\ UNCHANGED <<server, app, left, log>>
  BY DEF ClientTold, ClientData, ClientWindowAdjust, ClientIgnores, ClientForwardIgnored,
         ClientReads
<1>2. p \in PacketSet /\ p.num \in 0..IdLimit
  BY <1>1, HeadIs DEF PacketSet
<1>3. CASE ClientTold
  <2>1. p.type \in {"EOF", "REQUEST", "SUCCESS"} /\ Tell(p.num, p.type)
        /\ UNCHANGED <<client, up>>
    BY <1>3 DEF ClientTold, ClientReads
  <2>2. p.type \in Messages /\ p.type # "Open"
    BY <2>1 DEF Messages
  <2>3. heard' \in [Channels -> Seq(HeardSet)] /\ HeardGood(heard', server)
    BY <1>2, <2>1, <2>2, ToldGood
  <2> QED
    BY <1>1, <2>1, <2>3, Silent, ClientQuiet
<1>4. CASE ClientData
  <2>1. PICK answer \in Adjustments(client, p.num) : up' = up \o answer
    BY <1>4 DEF ClientData
  <2>2. Tell(p.num, "DATA") /\ UNCHANGED client
    BY <1>4 DEF ClientData
  <2>3. heard' \in [Channels -> Seq(HeardSet)] /\ HeardGood(heard', server)
    BY <1>2, <2>2, ToldGood DEF Messages
  <2>4. IsTable(client.channels, EntrySet)
    BY CoreParts DEF ClientOK, IsSession
  <2>5. /\ answer \in Seq(PacketSet)
        /\ \A i \in DOMAIN answer :
                 /\ answer[i].type = "WINDOW_ADJUST"
                 /\ p.num \in DOMAIN client.channels
                 /\ answer[i].num = client.channels[p.num].recipient_channel
                 /\ answer[i].of = client.channels[p.num].of
    BY <2>4, AdjustmentIs
  <2>6. \A i \in DOMAIN answer : UpGood(answer[i], client, server, app)
    BY <2>5 DEF Core, Entries, UpGood, Asking
  <2>7. /\ up' \in Seq(PacketSet)
        /\ \A i \in DOMAIN up' : \/ i \in DOMAIN up /\ up'[i] = up[i]
                                 \/ /\ i - Len(up) \in DOMAIN answer
                                    /\ up'[i] = answer[i - Len(up)]
    BY <2>1, <2>5, Silent, ConcatElements
  <2>8. \A i \in DOMAIN up' : \/ i \in DOMAIN up /\ up'[i] = up[i]
                              \/ UpGood(up'[i], client', server, app)
    BY <2>2, <2>6, <2>7
  <2> QED
    BY <1>1, <2>2, <2>3, <2>7, <2>8, Silent, ClientQuiet
<1>5. CASE ClientWindowAdjust
  <2>1. UNCHANGED up
    BY <1>5 DEF ClientWindowAdjust
  <2>2. CASE p.num \in DOMAIN client.channels
    <3>1. Tell(p.num, "WINDOW_ADJUST") /\ UNCHANGED client
      BY <1>5, <2>2 DEF ClientWindowAdjust
    <3>2. heard' \in [Channels -> Seq(HeardSet)] /\ HeardGood(heard', server)
      BY <1>2, <3>1, ToldGood DEF Messages
    <3> QED
      BY <1>1, <2>1, <3>1, <3>2, Silent, ClientQuiet
  <2>3. CASE p.num \notin DOMAIN client.channels
    <3>1. client' = Ends(client, "WrongChannel") /\ UNCHANGED heard
      BY <1>5, <2>3 DEF ClientWindowAdjust
    <3>2. ClientOK(client') /\ Extends(client, client') /\ Entries(client', server)
      BY <3>1, ClientEnds DEF Fates
    <3> QED
      BY <1>1, <2>1, <3>1, <3>2, Silent, ClientQuiet
  <2> QED
    BY <2>2, <2>3
<1>6. CASE ClientIgnores \/ ClientForwardIgnored
  <2>1. UNCHANGED <<client, heard, up>>
    BY <1>6 DEF ClientIgnores, ClientForwardIgnored
  <2> QED
    BY <1>1, <2>1, Silent, ClientQuiet
<1> QED
  BY <1>3, <1>4, <1>5, <1>6

LEMMA ClientHangupCore == Core /\ ClientHangup => Core'
<1> SUFFICES ASSUME Core, ClientHangup PROVE Core'
  OBVIOUS
<1>1. client' = Ends(client, "over") /\ UNCHANGED <<server, app, heard, up, down, left, log>>
  BY DEF ClientHangup
<1>2. ClientOK(client') /\ Extends(client, client') /\ Entries(client', server)
  BY <1>1, ClientEnds DEF Fates
<1> QED
  BY <1>1, <1>2, Silent, ClientQuiet

(* CHANNEL_OPEN of the server, accepted. *)
AcceptedAs(id, p, q) ==
    /\ ClientOK(client') /\ Extends(client, client')
    /\ client'.fate = client.fate
    /\ id > client.last_channel_id /\ id \notin DOMAIN client.channels
    /\ client'.last_channel_id = id
    /\ DOMAIN client'.channels = DOMAIN client.channels \cup {id}
    /\ \A n \in DOMAIN client.channels : client'.channels[n] = client.channels[n]
    /\ client'.channels[id].recipient_channel = p.num
    /\ client'.channels[id].confirmed
    /\ client'.channels[id].of = p.of
    /\ q.type = "CONFIRM" /\ q.num = p.num /\ q.of = p.of
    /\ up' = Append(up, q)
    /\ app' = [app EXCEPT ![p.of] = [phase |-> "open", id |-> id]]

LEMMA ClientForwardAcceptedIs ==
    ASSUME Core, ClientForwardAccepted
    PROVE  /\ Head(down).of \in Forwards /\ Head(down).of \in log.asked
           /\ Owned(server, Head(down).num, Head(down).of)
           /\ \E id \in 2..IdLimit, q \in PacketSet : AcceptedAs(id, Head(down), q)
<1> DEFINE p == Head(down)
           id == NewId(client)
           e == Entry(p.num, TRUE, p.of)
           t == Opened(client, id, e)
           new == [t EXCEPT !.senders = Insert(@, id, e.of)]
           q == Confirmation(p, id)
<1>1. /\ down # <<>> /\ p.type = "OPEN" /\ client.last_channel_id < IdLimit
      /\ client' = [t EXCEPT !.senders = Insert(@, id, p.of)]
      /\ up' = Append(up, q)
      /\ app' = [app EXCEPT ![p.of] = [phase |-> "open", id |-> id]]
  BY DEF ClientForwardAccepted, ClientReads, ForwardId
<1>2. p \in PacketSet /\ DownGood(p, client, server, log) /\ log \in LogSet
  BY <1>1, HeadIs, CoreParts
<1>3. p.of \in log.asked /\ p.of \in Forwards /\ Owned(server, p.num, p.of)
  BY <1>1, <1>2 DEF DownGood, LogSet
<1>4. p.num \in 0..IdLimit /\ p.of \in Channels
  BY <1>2 DEF PacketSet
<1>5. ClientOK(client)
  BY CoreParts
<1> HIDE DEF p
<1>6. e \in EntrySet /\ e.recipient_channel = p.num /\ e.confirmed /\ e.of = p.of
  BY <1>4 DEF Entry, EntrySet
<1> HIDE DEF e
<1>7. /\ ClientOK(new) /\ Extends(client, new)
      /\ id \in 2..IdLimit /\ id > client.last_channel_id /\ id \notin DOMAIN client.channels
      /\ new.last_channel_id = id
      /\ new.channels[id] = e
      /\ DOMAIN new.channels = DOMAIN client.channels \cup {id}
      /\ \A n \in DOMAIN client.channels : new.channels[n] = client.channels[n]
      /\ new.fate = client.fate
  BY <1>1, <1>5, <1>6, OpenedClient
<1>8. client' = new
  BY <1>1, <1>6
<1> HIDE DEF id, t, new
<1>9. q \in PacketSet /\ q.type = "CONFIRM" /\ q.num = p.num /\ q.of = p.of
  <2>1. id \in 0..IdLimit /\ 0 \in 0..IdLimit
    BY <1>7, ChannelAssumption
  <2> QED
    BY <1>4, <2>1 DEF Confirmation, Packet, PacketSet
<1> HIDE DEF q
<1>10. AcceptedAs(id, p, q)
  BY <1>1, <1>6, <1>7, <1>8, <1>9 DEF AcceptedAs
<1>11. \E i \in 2..IdLimit, r \in PacketSet : AcceptedAs(i, p, r)
  BY <1>7, <1>9, <1>10
<1> QED
  BY <1>3, <1>11 DEF p

LEMMA ClientForwardAcceptedCore == Core /\ ClientForwardAccepted => Core'
<1> SUFFICES ASSUME Core, ClientForwardAccepted PROVE Core'
  OBVIOUS
<1> DEFINE p == Head(down)
<1>1. p.of \in Forwards /\ p.of \in log.asked /\ Owned(server, p.num, p.of)
  BY ClientForwardAcceptedIs
<1>2. PICK id \in 2..IdLimit, q \in PacketSet : AcceptedAs(id, p, q)
  BY ClientForwardAcceptedIs
<1>3. /\ down # <<>> /\ down' = Tail(down)
      /\ UNCHANGED <<server, heard, left, log>>
  BY DEF ClientForwardAccepted, ClientReads
<1> HIDE DEF p
<1>4. /\ app \in [Channels -> AppSet] /\ up \in Seq(PacketSet) /\ log \in LogSet
      /\ left \in [client : Nat, server : Nat]
      /\ heard' \in [Channels -> Seq(HeardSet)] /\ HeardGood(heard', server)
  BY <1>3, CoreParts, Silent
<1>5. p.of \in Channels /\ p.of \notin Calls /\ id \in 0..IdLimit
  BY <1>1, ChannelAssumption DEF Channels
<1>6. /\ app' \in [Channels -> AppSet] /\ app'[p.of].phase = "open"
      /\ \A c \in Channels : c # p.of => app'[c] = app[c]
  BY <1>2, <1>4, <1>5 DEF AcceptedAs, AppSet
<1>7. /\ \A c \in Channels : app[c].phase # "none" => app'[c].phase # "none"
      /\ \A c \in Calls : app'[c].phase = "open" => c \in server.served
  BY <1>5, <1>6 DEF Core, Channels
<1>8. Entries(client', server)
  BY <1>1, <1>2 DEF AcceptedAs, Core, Entries
<1>9. UpGood(q, client', server, app')
  BY <1>1, <1>2 DEF AcceptedAs, UpGood, Asking
<1> DEFINE r == Append(up, q)
<1>10. /\ r \in Seq(PacketSet)
       /\ \A i \in DOMAIN r : (i \in DOMAIN up /\ r[i] = up[i]) \/ r[i] = q
  BY <1>4, AppendElements
<1>11. up' = r
  BY <1>2 DEF AcceptedAs
<1> HIDE DEF r
<1>12. ClientOK(client') /\ Extends(client, client')
  BY <1>2 DEF AcceptedAs
<1> QED
  BY <1>3, <1>4, <1>6, <1>7, <1>8, <1>9, <1>10, <1>11, <1>12, ClientActs

-----------------------------------------------------------------------------
(* The steps by name, for every proof that goes through them. *)

LEMMA StepCases ==
    ASSUME [Next]_vars
    PROVE  \/ \E ch \in Calls, type \in Types : CallOpen(ch, type)
           \/ \E ch \in Calls : Returned(ch)
           \/ \E ch \in Channels, type \in UseTypes : ClientUse(ch, type)
           \/ ClientConfirmation \/ ClientClosed
           \/ ClientTold \/ ClientData \/ ClientWindowAdjust \/ ClientIgnores
           \/ ClientForwardIgnored \/ ClientForwardAccepted \/ ClientHangup
           \/ ServerOpen \/ ServerOpenOther
           \/ ServerClose \/ ServerEof \/ ServerData \/ ServerRequest
           \/ ServerWindowAdjust \/ ServerIgnores
           \/ ServerHandle \/ ServerHangup
           \/ UNCHANGED vars
BY DEF Next, ClientReceives, ServerReceives

LEMMA StutterCore == Core /\ UNCHANGED vars => Core'
<1> SUFFICES ASSUME Core, UNCHANGED vars PROVE Core'
  OBVIOUS
<1>1. UNCHANGED <<client, server, app, heard, up, down, left, log>>
  BY DEF vars
<1>2. /\ app' \in [Channels -> AppSet] /\ log' \in LogSet /\ up' \in Seq(PacketSet)
      /\ left' \in [client : Nat, server : Nat] /\ heard' \in [Channels -> Seq(HeardSet)]
  BY <1>1, CoreParts
<1>3. \A i \in DOMAIN up' : i \in DOMAIN up /\ up'[i] = up[i]
  BY <1>1
<1> QED
  BY <1>1, <1>2, <1>3, Silent, ClientQuiet

LEMMA StepCore == Core /\ [Next]_vars => Core'
<1> SUFFICES ASSUME Core, [Next]_vars PROVE Core'
  OBVIOUS
<1> QED
  BY StepCases, CallOpenCore, CallReturnsCore, ClientUseCore, ClientConfirmationCore,
     ClientClosedCore, ClientListensCore, ClientForwardAcceptedCore, ClientHangupCore,
     ServerOpenCore, ServerOpenOtherCore, ServerReceivesCore, ServerAloneCore, StutterCore

LEMMA Invariance == Spec => []Core
<1>1. Init => Core
  BY InitCore
<1>2. Core /\ [Next]_vars => Core'
  BY StepCore
<1> QED
  BY <1>1, <1>2, PTL DEF Spec

-----------------------------------------------------------------------------
(* Every variable keeps its type (TypeOK of ChannelLife). *)
THEOREM TypeCorrect == Spec => []TypeOK
<1>1. Core => TypeOK
  BY DEF Core
<1> QED
  BY <1>1, Invariance, PTL

(* The two tables of the client's session never part (Session::channels and *)
(* Encrypted::channels).                                                    *)
THEOREM TablesNeverPart == Spec => []TablesAgree
<1>1. Core => TablesAgree
  BY DEF Core
<1> QED
  BY <1>1, Invariance, PTL

(* However openings cross, packets reach the channel they were sent on      *)
(* (new_channel, new_channel_id and the numbers that are exchanged).        *)
THEOREM EveryPacketFindsItsChannel == Spec => []OwnEnd
<1>1. ASSUME Core PROVE OwnEnd
  <2>1. \A i \in DOMAIN up :
           up[i].type \notin {"OPEN", "OPEN_OTHER"} => Finds(up[i], server)
    BY <1>1 DEF Core, UpGood, Asking, Owned, Finds
  <2>2. \A i \in DOMAIN down :
          \/ down[i].type = "OPEN"
          \/ down[i].type = "OPEN_FAILURE" /\ down[i].of \in log.refused
          \/ Finds(down[i], client)
    BY <1>1 DEF Core, DownGood, Owned, Finds
  <2> QED
    BY <2>1, <2>2 DEF OwnEnd
<1> QED
  BY <1>1, Invariance, PTL

-----------------------------------------------------------------------------
(* The refinement of OpenCall. *)

LEMMA HandlerOutcome ==
    ASSUME Core, NEW s, NEW answer, ServerOK(s), Handler(s, answer)
    PROVE  \/ server'.served = server.served /\ log'.asked = log.asked
           \/ /\ server'.served = s.served
              /\ \/ log'.asked = log.asked
                 \/ \E f \in Forwards : f \notin log.asked /\ log'.asked = log.asked \cup {f}
<1>1. /\ log \in LogSet /\ left \in [client : Nat, server : Nat] /\ ServerOK(server)
  BY CoreParts
<1>2. ASSUME Stops(s) PROVE server'.served = server.served /\ log'.asked = log.asked
  <2>1. server' = Ends(server, "panic") /\ log' = log
    BY <1>2 DEF Stops, Panics
  <2> QED
    BY <1>1, <2>1, EndsKeeps DEF Fates
<1>3. ASSUME Plain(s, answer) PROVE server'.served = s.served /\ log'.asked = log.asked
  BY <1>3 DEF Plain, Returns
<1>4. ASSUME NEW id \in DOMAIN s.channels, NEW p \in PacketSet, Writes(s, answer, id, p)
      PROVE  server'.served = s.served /\ log'.asked = log.asked
  BY <1>4 DEF Writes, SameTable
<1>5. ASSUME NEW id \in DOMAIN s.channels, SessionRefuse(s, answer, id)
      PROVE  server'.served = s.served /\ log'.asked = log.asked
  BY <1>1, <1>5, RefuseIs
<1>6. ASSUME NEW f \in Forwards, SessionForward(s, answer, f)
      PROVE  /\ server'.served = s.served
             /\ f \notin log.asked /\ log'.asked = log.asked \cup {f}
  <2>1. PICK id \in 2..IdLimit, p \in PacketSet : Forwarded(s, answer, f, id, p)
    BY <1>1, <1>6, ForwardIs
  <2> QED
    BY <2>1 DEF Forwarded
<1> QED
  BY <1>1, <1>2, <1>3, <1>4, <1>5, <1>6, HandlerCases

LEMMA OpenerUnchanged ==
    ASSUME UNCHANGED app, log'.asked = log.asked
    PROVE  UNCHANGED Opener
BY DEF Opener

LEMMA AcceptedUnchanged ==
    ASSUME UNCHANGED app, server'.served = server.served
    PROVE  UNCHANGED Accepted
BY DEF Accepted

LEMMA OpenerAsks ==
    ASSUME UNCHANGED app, NEW f \in Forwards, f \notin log.asked,
           log'.asked = log.asked \cup {f}
    PROVE  Opener[f] = "idle" /\ Opener' = [Opener EXCEPT ![f] = "asked"]
<1>1. f \in Channels /\ f \notin Calls
  BY ChannelAssumption DEF Channels
<1> QED
  BY <1>1 DEF Opener

LEMMA SeenIs ==
    /\ Seen["none"] = "idle" /\ Seen["waiting"] = "asked"
    /\ Seen["open"] = "open" /\ Seen["failed"] = "over"
BY DEF Seen

(* All that concerns opening in a step of the server but ServerOpen. *)
LEMMA ServerAsks ==
    ASSUME UNCHANGED app, server'.served = server.served,
           \/ log'.asked = log.asked
           \/ \E f \in Forwards : f \notin log.asked /\ log'.asked = log.asked \cup {f}
    PROVE  [OC!Next]_(OC!vars)
<1>1. UNCHANGED Accepted
  BY AcceptedUnchanged
<1>2. CASE log'.asked = log.asked
  BY <1>1, <1>2, OpenerUnchanged DEF OC!vars
<1>3. CASE \E f \in Forwards : f \notin log.asked /\ log'.asked = log.asked \cup {f}
  <2>1. PICK f \in Forwards : f \notin log.asked /\ log'.asked = log.asked \cup {f}
    BY <1>3
  <2>2. Opener[f] = "idle" /\ Opener' = [Opener EXCEPT ![f] = "asked"]
    BY <2>1, OpenerAsks
  <2>3. OC!Ask(f)
    BY <1>1, <2>2 DEF OC!Ask
  <2> QED
    BY <2>3 DEF OC!Next, Channels
<1> QED
  BY <1>2, <1>3

LEMMA ServerOpenMaps ==
    ASSUME Core, ServerOpen PROVE [OC!Next]_(OC!vars)
<1> DEFINE c == Head(up).of
<1>1. c \in Calls /\ app[c].phase # "none" /\ UNCHANGED app
  BY ServerOpenIs DEF ServerOpen, ServerReads
<1>2. PICK s, answer : \E id \in 2..IdLimit, q \in PacketSet :
          Accepting(s, answer, id, Head(up), q)
  BY ServerOpenIs
<1>3. ServerOK(s) /\ Handler(s, answer) /\ s.served = server.served \cup {c}
  BY <1>2 DEF Accepting, Interim
<1> HIDE DEF c
<1>4. CASE server'.served = server.served /\ log'.asked = log.asked
  BY <1>1, <1>4, ServerAsks
<1>5. ASSUME server'.served = server.served \cup {c},
             \/ log'.asked = log.asked
             \/ \E f \in Forwards : f \notin log.asked /\ log'.asked = log.asked \cup {f}
      PROVE  OC!Next
  <2>1. c \in Channels /\ app \in [Channels -> AppSet]
    BY <1>1, CoreParts DEF Channels
  <2>2. Opener[c] # "idle"
    BY <1>1, <2>1, SeenIs DEF Opener, AppSet
  <2>3. Accepted' = Accepted \cup {c}
    <3>1. \A x : x \in Accepted' <=> x \in Accepted \/ x = c
      BY <1>1, <1>5, <2>1 DEF Accepted
    <3> QED
      BY <3>1
  <2>4. \/ UNCHANGED Opener
        \/ \E other \in Channels :
              Opener[other] = "idle" /\ Opener' = [Opener EXCEPT ![other] = "asked"]
    BY <1>1, <1>5, OpenerUnchanged, OpenerAsks DEF Channels
  <2>5. OC!Accept(c)
    BY <2>2, <2>3, <2>4 DEF OC!Accept
  <2> QED
    BY <2>1, <2>5 DEF OC!Next
<1> QED
  BY <1>3, <1>4, <1>5, HandlerOutcome

LEMMA CallMaps ==
    ASSUME Core, NEW ch \in Calls,
           \/ \E type \in Types : CallOpen(ch, type)
           \/ Returned(ch)
    PROVE  OC!Next
<1>1. ch \in Channels /\ app \in [Channels -> AppSet]
  BY CoreParts DEF Channels
<1>2. CASE \E type \in Types : CallOpen(ch, type)
  <2>1. /\ app[ch].phase = "none" /\ app' = [app EXCEPT ![ch].phase = "waiting"]
        /\ UNCHANGED <<server, log>>
    BY <1>2 DEF CallOpen
  <2>2. /\ app'[ch].phase = "waiting" /\ \A c \in Channels : c # ch => app'[c] = app[c]
    BY <1>1, <2>1 DEF AppSet
  <2>3. Opener[ch] = "idle" /\ Opener' = [Opener EXCEPT ![ch] = "asked"]
    BY <1>1, <2>1, <2>2, SeenIs DEF Opener
  <2>4. UNCHANGED Accepted
    BY <2>1, <2>2 DEF Accepted
  <2>5. OC!Ask(ch)
    BY <2>3, <2>4 DEF OC!Ask
  <2> QED
    BY <1>1, <2>5 DEF OC!Next
<1>3. ASSUME NEW phase \in {"open", "failed"}, app[ch].phase = "waiting",
             app'[ch].phase = phase, \A c \in Channels : c # ch => app'[c] = app[c],
             UNCHANGED <<server, log>>, phase = "open" => ch \in server.served
      PROVE  OC!Next
  <2> DEFINE how == Seen[phase]
  <2>1. how \in {"open", "over"} /\ (how = "open" => phase = "open")
    BY <1>3, SeenIs
  <2>2. Opener[ch] = "asked" /\ Opener' = [Opener EXCEPT ![ch] = how]
    BY <1>1, <1>3, SeenIs DEF Opener
  <2>3. UNCHANGED Accepted
    <3>1. \A f \in Forwards : app'[f] = app[f]
      BY <1>3, ChannelAssumption DEF Channels
    <3>2. \A x : x \in Accepted' <=> x \in Accepted
      BY <1>3, <3>1 DEF Accepted
    <3> QED
      BY <3>2
  <2>4. how = "open" => ch \in Accepted
    BY <1>1, <1>3, <2>1 DEF Accepted
  <2> HIDE DEF how
  <2>5. OC!Answer(ch)
    BY <2>1, <2>2, <2>3, <2>4 DEF OC!Answer
  <2> QED
    BY <1>1, <2>5 DEF OC!Next
<1>4. CASE CallReturnsChannel(ch)
  <2>1. PICK i \in Confirmations(ch) :
            app' = [app EXCEPT ![ch] = [phase |-> "open", id |-> heard[ch][i].id]]
    BY <1>4 DEF CallReturnsChannel
  <2>2. i \in DOMAIN heard[ch] /\ heard[ch][i].what = "Open"
    BY DEF Confirmations
  <2>3. ch \in server.served
    BY <2>2 DEF Core, HeardGood
  <2>4. app'[ch].phase = "open" /\ \A c \in Channels : c # ch => app'[c] = app[c]
    BY <1>1, <2>1
  <2> QED
    BY <1>3, <1>4, <2>3, <2>4 DEF CallReturnsChannel
<1>5. CASE CallFails(ch)
  <2>1. app'[ch].phase = "failed" /\ \A c \in Channels : c # ch => app'[c] = app[c]
    BY <1>1, <1>5 DEF CallFails, AppSet
  <2> QED
    BY <1>3, <1>5, <2>1 DEF CallFails
<1> QED
  BY <1>2, <1>4, <1>5 DEF Returned

LEMMA ForwardAcceptedMaps ==
    ASSUME Core, ClientForwardAccepted PROVE OC!Next
<1> DEFINE f == Head(down).of
<1>1. f \in Forwards /\ f \in log.asked
  BY ClientForwardAcceptedIs
<1>2. PICK id \in 2..IdLimit, q \in PacketSet : AcceptedAs(id, Head(down), q)
  BY ClientForwardAcceptedIs
<1>3. /\ app' = [app EXCEPT ![f] = [phase |-> "open", id |-> id]]
      /\ UNCHANGED <<server, log>>
  BY <1>2 DEF AcceptedAs, ClientForwardAccepted
<1> HIDE DEF f
<1>4. f \in Channels /\ f \notin Calls /\ app \in [Channels -> AppSet]
  BY <1>1, CoreParts, ChannelAssumption DEF Channels
<1>5. app'[f].phase = "open" /\ \A c \in Channels : c # f => app'[c] = app[c]
  BY <1>3, <1>4
<1>6. Opener[f] # "idle" /\ UNCHANGED Opener
  BY <1>1, <1>3, <1>4, <1>5 DEF Opener
<1>7. Accepted' = Accepted \cup {f}
  <2>1. \A x : x \in Accepted' <=> x \in Accepted \/ x = f
    BY <1>1, <1>3, <1>4, <1>5 DEF Accepted
  <2> QED
    BY <2>1
<1>8. OC!Accept(f)
  BY <1>6, <1>7 DEF OC!Accept
<1> QED
  BY <1>4, <1>8 DEF OC!Next

(* A message of the client or of a Handle, or the end of the connection. *)
LEMMA ServerOtherMaps ==
    ASSUME Core, \/ ServerOpenOther \/ ServerClose \/ ServerEof \/ ServerData
                 \/ ServerRequest \/ ServerWindowAdjust \/ ServerIgnores
                 \/ ServerHandle \/ ServerHangup
    PROVE  [OC!Next]_(OC!vars)
<1>1. UNCHANGED app
  BY DEF ServerOpenOther, ServerClose, ServerEof, ServerData, ServerRequest,
         ServerWindowAdjust, ServerIgnores, ServerHandle, ServerHangup, ServerReads
<1>2. ASSUME NEW s, NEW answer, ServerOK(s), Handler(s, answer), s.served = server.served
      PROVE  [OC!Next]_(OC!vars)
  BY <1>1, <1>2, HandlerOutcome, ServerAsks
<1>3. ServerOK(server)
  BY CoreParts
<1>4. CASE ServerOpenOther
  <2>1. server'.served = server.served /\ UNCHANGED log
    BY <1>4, ServerOpenOtherIs DEF ServerOpenOther
  <2> QED
    BY <1>1, <2>1, ServerAsks
<1>5. CASE ServerClose
  <2> DEFINE s == [server EXCEPT !.channels = Remove(@, Head(up).num)]
  <2>1. ServerOK(s) /\ s.served = server.served
    BY <1>3, RemovedServer
  <2>2. Handler(s, <<>>)
    BY <1>5 DEF ServerClose
  <2> HIDE DEF s
  <2> QED
    BY <1>2, <2>1, <2>2
<1>6. CASE \/ ServerEof \/ ServerData \/ ServerRequest
           \/ ServerWindowAdjust /\ Head(up).num \in DOMAIN server.channels
  <2>1. PICK s, answer : Between(s, answer)
    BY <1>6, ServerMessageIs
  <2>2. ServerOK(s) /\ Handler(s, answer) /\ s.served = server.served
    BY <2>1 DEF Between, Interim, SameTable
  <2> QED
    BY <1>2, <2>2
<1>7. CASE \/ ServerWindowAdjust /\ Head(up).num \notin DOMAIN server.channels
           \/ ServerIgnores \/ ServerHangup
  <2>1. /\ UNCHANGED log
        /\ \/ UNCHANGED server
           \/ \E why \in {"WrongChannel", "over"} : server' = Ends(server, why)
    BY <1>7 DEF ServerWindowAdjust, ServerIgnores, ServerHangup
  <2>2. server'.served = server.served
    BY <1>3, <2>1, EndsKeeps DEF Fates
  <2> QED
    BY <1>1, <2>1, <2>2, ServerAsks
<1>8. CASE ServerHandle
  <2>1. PICK id \in DOMAIN server.channels :
            SessionEof(server, <<>>, id) \/ SessionWrite(server, <<>>, id)
    BY <1>8 DEF ServerHandle
  <2>2. Handler(server, <<>>)
    BY <1>8, <2>1 DEF ServerHandle, HandlerCall, Handler
  <2> QED
    BY <1>2, <1>3, <2>2
<1> QED
  BY <1>4, <1>5, <1>6, <1>7, <1>8

LEMMA StepMaps == Core /\ [Next]_vars => [OC!Next]_(OC!vars)
<1> SUFFICES ASSUME Core, [Next]_vars PROVE [OC!Next]_(OC!vars)
  OBVIOUS
<1>1. ASSUME \/ \E ch \in Channels, type \in UseTypes : ClientUse(ch, type)
             \/ ClientConfirmation \/ ClientClosed
             \/ ClientTold \/ ClientData \/ ClientWindowAdjust \/ ClientIgnores
             \/ ClientForwardIgnored \/ ClientHangup \/ UNCHANGED vars
      PROVE  [OC!Next]_(OC!vars)
  <2>1. UNCHANGED <<app, server>>
    BY <1>1 DEF ClientUse, ClientConfirmation, ClientClosed, ClientTold, ClientData,
          ClientWindowAdjust, ClientIgnores, ClientForwardIgnored, ClientHangup, vars
  <2>2. log'.asked = log.asked
    <3>1. ASSUME NEW ch \in Channels, NEW type \in UseTypes, ClientUse(ch, type)
          PROVE  log'.asked = log.asked
      BY <3>1, ClientUseIs DEF UsesEntry
    <3>2. ASSUME \/ ClientConfirmation \/ ClientClosed
                 \/ ClientTold \/ ClientData \/ ClientWindowAdjust \/ ClientIgnores
                 \/ ClientForwardIgnored \/ ClientHangup \/ UNCHANGED vars
          PROVE  log'.asked = log.asked
      BY <3>2 DEF ClientConfirmation, ClientClosed, ClientTold, ClientData,
            ClientWindowAdjust, ClientIgnores, ClientForwardIgnored, ClientHangup, vars
    <3> QED
      BY <1>1, <3>1, <3>2
  <2> QED
    BY <2>1, <2>2, ServerAsks
<1> QED
  BY <1>1, StepCases, CallMaps, ForwardAcceptedMaps, ServerOpenMaps, ServerOtherMaps

(* A caller is told that its channel is open only after the other side has  *)
(* entered it, whatever else is under way (channel_open_*,                  *)
(* server_handle_channel_open, client_handle_channel_open).                 *)
THEOREM OpeningImplements == Spec => ImplementsOpenCall
<1>1. Init => OC!Init
  <2> SUFFICES ASSUME Init PROVE OC!Init
    OBVIOUS
  <2>1. /\ \A ch \in Channels : app[ch].phase = "none"
        /\ log.asked = {} /\ server.served = {}
    BY DEF Init
  <2>2. Opener = [ch \in Channels |-> "idle"]
    BY <2>1, SeenIs DEF Opener
  <2>3. Accepted = {}
    BY <2>1 DEF Accepted, Channels
  <2> QED
    BY <2>2, <2>3 DEF OC!Init
<1>2. Core /\ [Next]_vars => [OC!Next]_(OC!vars)
  BY StepMaps
<1> QED
  BY <1>1, <1>2, Invariance, PTL DEF Spec, OC!Spec, ImplementsOpenCall

-----------------------------------------------------------------------------
(* Why a session ends: what the client's application was told.              *)

(* The number was given out, and the channel under it, if it is still       *)
(* there, is confirmed.                                                     *)
Confirmed(c, id) ==
    /\ id <= c.last_channel_id
    /\ id \in DOMAIN c.channels => c.channels[id].confirmed

(* The application never holds a channel that is not confirmed. *)
Sure(c, a, h) ==
    /\ c.fate # "panic"
    /\ \A ch \in Channels :
          /\ a[ch].phase = "open" => Confirmed(c, a[ch].id)
          /\ \A i \in DOMAIN h[ch] : h[ch][i].what = "Open" => Confirmed(c, h[ch][i].id)

(* At the server only what it has asked for itself is unconfirmed. *)
Vouched(s, l) ==
    /\ \A id \in DOMAIN s.channels :
          \/ s.channels[id].of \in l.asked
          \/ s.channels[id].of \in s.served /\ s.channels[id].confirmed
    /\ s.fate = "panic" => l.asked # {}
    /\ s.fate # "Inconsistent"

LEMMA SureInit == Init => Sure(client, app, heard) /\ Vouched(server, log)
<1> SUFFICES ASSUME Init PROVE Sure(client, app, heard) /\ Vouched(server, log)
  OBVIOUS
<1>1. /\ client.fate = "running" /\ server.fate = "running"
      /\ server.channels = NoEntries /\ DOMAIN NoEntries = {}
      /\ \A ch \in Channels : app[ch].phase = "none" /\ heard[ch] = <<>>
  BY DEF Init, NoEntries
<1> QED
  BY <1>1 DEF Sure, Vouched

(* The steps of the client. *)
ConfirmsMore(c, d) == \A id \in 0..IdLimit : Confirmed(c, id) => Confirmed(d, id)

LEMMA SureKept ==
    ASSUME Core, Sure(client, app, heard), ConfirmsMore(client, client'),
           client'.fate # "panic",
           \A ch \in Channels : \/ app'[ch] = app[ch]
                                \/ app'[ch].phase # "open"
                                \/ Confirmed(client', app'[ch].id),
           \A ch \in Channels : \A i \in DOMAIN heard'[ch] :
                 \/ i \in DOMAIN heard[ch] /\ heard'[ch][i] = heard[ch][i]
                 \/ heard'[ch][i].what # "Open"
                 \/ Confirmed(client', heard'[ch][i].id)
    PROVE  Sure(client', app', heard')
<1>1. \A ch \in Channels : app[ch].id \in 0..IdLimit
  BY CoreParts DEF AppSet
<1>2. \A ch \in Channels : \A i \in DOMAIN heard[ch] : heard[ch][i].id \in 0..IdLimit
  <2> SUFFICES ASSUME NEW ch \in Channels, NEW i \in DOMAIN heard[ch]
               PROVE  heard[ch][i].id \in 0..IdLimit
    OBVIOUS
  <2>1. heard[ch] \in Seq(HeardSet)
    BY CoreParts
  <2>2. heard[ch][i] \in HeardSet
    BY <2>1
  <2> QED
    BY <2>2 DEF HeardSet
<1>3. ASSUME NEW ch \in Channels, app'[ch].phase = "open"
      PROVE  Confirmed(client', app'[ch].id)
  BY <1>1, <1>3 DEF Sure, ConfirmsMore
<1>4. ASSUME NEW ch \in Channels, NEW i \in DOMAIN heard'[ch], heard'[ch][i].what = "Open"
      PROVE  Confirmed(client', heard'[ch][i].id)
  BY <1>2, <1>4 DEF Sure, ConfirmsMore
<1> QED
  BY <1>3, <1>4 DEF Sure

LEMMA ConfirmsItself == ASSUME NEW c, NEW d, d.channels = c.channels,
                               d.last_channel_id = c.last_channel_id
                        PROVE  ConfirmsMore(c, d)
BY DEF ConfirmsMore, Confirmed

(* A channel is entered under a new number. *)
LEMMA ConfirmsNew ==
    ASSUME NEW c, NEW d, NEW id, c.last_channel_id \in Nat, id > c.last_channel_id,
           id \in Nat, d.last_channel_id = id, DOMAIN d.channels = DOMAIN c.channels \cup {id},
           \A n \in DOMAIN c.channels : d.channels[n] = c.channels[n]
    PROVE  ConfirmsMore(c, d)
BY DEF ConfirmsMore, Confirmed

LEMMA TellSure ==
    ASSUME Core, Sure(client, app, heard), ConfirmsMore(client, client'),
           client'.fate # "panic", UNCHANGED app,
           NEW num \in 0..IdLimit, NEW what \in Messages, Tell(num, what),
           what = "Open" /\ num \in DOMAIN client.channels => Confirmed(client', num)
    PROVE  Sure(client', app', heard')
<1>1. \A ch \in Channels : \A i \in DOMAIN heard'[ch] :
                 \/ i \in DOMAIN heard[ch] /\ heard'[ch][i] = heard[ch][i]
                 \/ /\ num \in DOMAIN client.channels /\ ch = client.channels[num].of
                    /\ heard'[ch][i].what = what /\ heard'[ch][i].id = num
  BY TellIs
<1> QED
  BY <1>1, SureKept

LEMMA SureQuiet ==
    ASSUME Core, Sure(client, app, heard), ConfirmsMore(client, client'),
           client'.fate # "panic", UNCHANGED <<app, heard>>
    PROVE  Sure(client', app', heard')
BY SureKept

LEMMA ClientSure ==
    ASSUME Core, Sure(client, app, heard),
           \/ \E ch \in Calls, type \in Types : CallOpen(ch, type)
           \/ \E ch \in Calls : Returned(ch)
           \/ \E ch \in Channels, type \in UseTypes : ClientUse(ch, type)
           \/ ClientConfirmation \/ ClientClosed
           \/ ClientTold \/ ClientData \/ ClientWindowAdjust \/ ClientIgnores
           \/ ClientForwardIgnored \/ ClientForwardAccepted \/ ClientHangup
    PROVE  Sure(client', app', heard')
<1>1. /\ ClientOK(client) /\ client.last_channel_id \in Nat /\ client.fate # "panic"
      /\ DOMAIN client.channels \subseteq 2..client.last_channel_id
  BY CoreParts, ChannelAssumption DEF ClientOK, IsSession, Sure, Numbered
<1>2. ConfirmsMore(client, client)
  BY ConfirmsItself
<1>3. ASSUME NEW ch \in Calls, NEW type \in Types, CallOpen(ch, type)
      PROVE  Sure(client', app', heard')
  <2>1. PICK id \in 2..IdLimit :
              /\ client'.fate = client.fate
              /\ id > client.last_channel_id
              /\ client'.last_channel_id = id
              /\ DOMAIN client'.channels = DOMAIN client.channels \cup {id}
              /\ \A n \in DOMAIN client.channels : client'.channels[n] = client.channels[n]
    BY <1>3, CallOpenIs
  <2>2. ConfirmsMore(client, client')
    BY <1>1, <2>1, ConfirmsNew, ChannelAssumption
  <2>3. /\ app' = [app EXCEPT ![ch].phase = "waiting"] /\ UNCHANGED heard
    BY <1>3 DEF CallOpen
  <2>4. app \in [Channels -> AppSet]
    BY CoreParts
  <2>5. \A c \in Channels : app'[c] = app[c] \/ app'[c].phase # "open"
    BY <2>3, <2>4 DEF AppSet
  <2> QED
    BY <1>1, <2>1, <2>2, <2>3, <2>5, SureKept
<1>4. ASSUME NEW ch \in Calls, Returned(ch) PROVE Sure(client', app', heard')
  <2>1. UNCHANGED <<client, heard>> /\ app \in [Channels -> AppSet] /\ ch \in Channels
    BY <1>4, CoreParts DEF Returned, CallReturnsChannel, CallFails, Channels
  <2>2. \A c \in Channels : \/ app'[c] = app[c] \/ app'[c].phase # "open"
                            \/ Confirmed(client', app'[c].id)
    <3>1. CASE CallReturnsChannel(ch)
      <4>1. PICK i \in Confirmations(ch) :
                app' = [app EXCEPT ![ch] = [phase |-> "open", id |-> heard[ch][i].id]]
        BY <3>1 DEF CallReturnsChannel
      <4>2. Confirmed(client', heard[ch][i].id)
        BY <2>1 DEF Confirmations, Sure
      <4> QED
        BY <2>1, <4>1, <4>2
    <3>2. CASE CallFails(ch)
      BY <2>1, <3>2 DEF CallFails, AppSet
    <3> QED
      BY <1>4, <3>1, <3>2 DEF Returned
  <2> QED
    BY <1>1, <1>2, <2>1, <2>2, SureKept
<1>5. ASSUME NEW ch \in Channels, NEW type \in UseTypes, ClientUse(ch, type)
      PROVE  Sure(client', app', heard')
  <2>1. /\ app[ch].phase = "open" /\ app[ch].id \in DOMAIN client.channels
        /\ \/ /\ ~client.channels[app[ch].id].confirmed
              /\ client' = Ends(client, "panic") /\ UNCHANGED <<up, log>>
           \/ \E p \in PacketSet : UsesEntry(app[ch].id, p)
    BY <1>5, ClientUseIs
  <2>2. client.channels[app[ch].id].confirmed
    BY <2>1 DEF Sure, Confirmed
  <2>3. client' = client
    BY <2>1, <2>2 DEF UsesEntry
  <2>4. UNCHANGED <<app, heard>>
    BY <1>5 DEF ClientUse
  <2> QED
    BY <1>1, <1>2, <2>3, <2>4, SureQuiet
<1>6. ASSUME ClientReads({"CONFIRM", "CLOSE", "OPEN_FAILURE", "EOF", "REQUEST", "SUCCESS",
                          "DATA", "WINDOW_ADJUST", "FAILURE", "OPEN"})
      PROVE  Head(down).num \in 0..IdLimit
  BY <1>6, HeadIs DEF ClientReads, PacketSet
<1>7. \A why \in Fates : client' = Ends(client, why) /\ why # "panic" =>
          ConfirmsMore(client, client') /\ client'.fate # "panic"
  BY ClientEnds, ConfirmsItself
<1>8. CASE ClientConfirmation
  <2>1. Head(down).num \in 0..IdLimit /\ UNCHANGED app
    BY <1>6, <1>8 DEF ClientConfirmation, ClientReads
  <2>2. CASE Head(down).num \in DOMAIN client.channels
    <3>1. ConfirmedAs(Head(down)) /\ Tell(Head(down).num, "Open")
      BY <1>8, <2>2, ClientConfirmationIs
    <3>2. ConfirmsMore(client, client') /\ client'.fate # "panic"
      BY <1>1, <3>1 DEF ConfirmedAs, ConfirmsMore, Confirmed
    <3>3. Confirmed(client', Head(down).num)
      BY <1>1, <2>2, <3>1 DEF ConfirmedAs, Confirmed
    <3> QED
      BY <2>1, <3>1, <3>2, <3>3, TellSure DEF Messages
  <2>3. CASE Head(down).num \notin DOMAIN client.channels
    <3>1. client' = Ends(client, "Inconsistent") /\ UNCHANGED heard
      BY <1>8, <2>3 DEF ClientConfirmation
    <3> QED
      BY <1>7, <2>1, <3>1, SureQuiet DEF Fates
  <2> QED
    BY <2>2, <2>3
<1>9. CASE ClientClosed
  <2>1. client' = Forget(client, Head(down).num) /\ UNCHANGED <<app, heard>>
    BY <1>9 DEF ClientClosed
  <2>2. /\ client'.fate = client.fate /\ client'.last_channel_id = client.last_channel_id
        /\ DOMAIN client'.channels = DOMAIN client.channels \ {Head(down).num}
        /\ \A n \in DOMAIN client'.channels : client'.channels[n] = client.channels[n]
    BY <1>1, <2>1, ForgottenClient
  <2>3. ConfirmsMore(client, client')
    BY <2>2 DEF ConfirmsMore, Confirmed
  <2> QED
    BY <1>1, <2>1, <2>2, <2>3, SureQuiet
<1>10. CASE ClientTold
  <2>1. /\ Head(down).num \in 0..IdLimit /\ UNCHANGED <<client, app>>
        /\ Tell(Head(down).num, Head(down).type)
        /\ Head(down).type \in Messages \ {"Open"}
    BY <1>6, <1>10 DEF ClientTold, ClientReads, Messages
  <2> QED
    BY <1>1, <1>2, <2>1, TellSure
<1>11. CASE ClientData
  <2>1. /\ Head(down).num \in 0..IdLimit /\ UNCHANGED <<client, app>>
        /\ Tell(Head(down).num, "DATA")
    BY <1>6, <1>11 DEF ClientData, ClientReads
  <2> QED
    BY <1>1, <1>2, <2>1, TellSure DEF Messages
<1>12. CASE ClientWindowAdjust
  <2>1. Head(down).num \in 0..IdLimit /\ UNCHANGED app
    BY <1>6, <1>12 DEF ClientWindowAdjust, ClientReads
  <2>2. CASE Tell(Head(down).num, "WINDOW_ADJUST") /\ UNCHANGED client
    BY <1>1, <1>2, <2>1, <2>2, TellSure DEF Messages
  <2>3. CASE client' = Ends(client, "WrongChannel") /\ UNCHANGED heard
    BY <1>7, <2>1, <2>3, SureQuiet DEF Fates
  <2> QED
    BY <1>12, <2>2, <2>3 DEF ClientWindowAdjust
<1>13. CASE ClientIgnores \/ ClientForwardIgnored
  <2>1. UNCHANGED <<client, app, heard>>
    BY <1>13 DEF ClientIgnores, ClientForwardIgnored
  <2> QED
    BY <1>1, <1>2, <2>1, SureQuiet
<1>14. CASE ClientForwardAccepted
  <2>1. PICK id \in 2..IdLimit, q \in PacketSet : AcceptedAs(id, Head(down), q)
    BY <1>14, ClientForwardAcceptedIs
  <2>2. UNCHANGED heard /\ app \in [Channels -> AppSet]
    BY <1>14, CoreParts DEF ClientForwardAccepted
  <2>3. ConfirmsMore(client, client')
    BY <1>1, <2>1, ConfirmsNew, ChannelAssumption DEF AcceptedAs
  <2>4. Confirmed(client', id)
    BY <2>1, ChannelAssumption DEF AcceptedAs, Confirmed
  <2>5. \A ch \in Channels : app'[ch] = app[ch] \/ Confirmed(client', app'[ch].id)
    BY <2>1, <2>2, <2>4 DEF AcceptedAs
  <2> QED
    BY <1>1, <2>1, <2>2, <2>3, <2>5, SureKept DEF AcceptedAs
<1>15. CASE ClientHangup
  <2>1. client' = Ends(client, "over") /\ UNCHANGED <<app, heard>>
    BY <1>15 DEF ClientHangup
  <2> QED
    BY <1>7, <2>1, SureQuiet DEF Fates
<1> QED
  BY <1>3, <1>4, <1>5, <1>8, <1>9, <1>10, <1>11, <1>12, <1>13, <1>14, <1>15

-----------------------------------------------------------------------------
(* The server's steps in two halves: what the library has done when the     *)
(* callback is entered (Arrives), and what the callback adds (Outcome).     *)

Stays(s, answer) ==
    /\ SameTable(s, server)
    /\ up' = up \/ (up # <<>> /\ up' = Tail(up))
    /\ \A i \in DOMAIN answer :
          /\ answer[i].type = "WINDOW_ADJUST"
          /\ \E n \in DOMAIN server.channels :
                /\ answer[i].num = server.channels[n].recipient_channel
                /\ answer[i].of = server.channels[n].of

ClosedBy(s, p) ==
    /\ p.type = "CLOSE"
    /\ s.served = server.served /\ s.fate = server.fate
    /\ DOMAIN s.channels = DOMAIN server.channels \ {p.num}
    /\ \A n \in DOMAIN s.channels : s.channels[n] = server.channels[n]

Read == up # <<>> /\ up' = Tail(up)

Arrives(s, answer) ==
    /\ Interim(s, answer)
    /\ \/ Stays(s, answer)
       \/ Read /\ ClosedBy(s, Head(up)) /\ answer = <<>>
       \/ /\ Read /\ Head(up).type = "OPEN"
          /\ \E id \in 2..IdLimit, q \in PacketSet : Accepting(s, answer, id, Head(up), q)

Called ==
    \/ ServerOpen \/ ServerClose \/ ServerEof \/ ServerData \/ ServerRequest
    \/ ServerWindowAdjust /\ Head(up).num \in DOMAIN server.channels
    \/ ServerHandle

LEMMA CalledIs ==
    ASSUME Core, Called
    PROVE  /\ UNCHANGED <<client, app, heard>>
           /\ \E s, answer : Arrives(s, answer) /\ Handler(s, answer)
<1>1. UNCHANGED <<client, app, heard>>
  BY DEF Called, ServerOpen, ServerClose, ServerEof, ServerData, ServerRequest,
         ServerWindowAdjust, ServerHandle, ServerReads
<1>2. CASE ServerOpen
  <2>1. Read /\ Head(up).type = "OPEN"
    BY <1>2 DEF ServerOpen, ServerReads, Read
  <2>2. PICK s, answer : \E id \in 2..IdLimit, q \in PacketSet :
            Accepting(s, answer, id, Head(up), q)
    BY <1>2, ServerOpenIs
  <2>3. Interim(s, answer) /\ Handler(s, answer)
    BY <2>2 DEF Accepting
  <2>4. Arrives(s, answer)
    BY <2>1, <2>2, <2>3 DEF Arrives
  <2> QED
    BY <1>1, <2>3, <2>4
<1>3. CASE ServerClose
  <2> DEFINE s == [server EXCEPT !.channels = Remove(@, Head(up).num)]
  <2>1. Read /\ Head(up).type = "CLOSE" /\ Handler(s, <<>>)
    BY <1>3 DEF ServerClose, ServerReads, Read
  <2>2. Interim(s, <<>>)
    BY ServerCloseInterim
  <2>3. /\ s.served = server.served /\ s.fate = server.fate
        /\ DOMAIN s.channels = DOMAIN server.channels \ {Head(up).num}
        /\ \A n \in DOMAIN s.channels : s.channels[n] = server.channels[n]
    BY CoreParts DEF ServerOK, IsSession, Remove
  <2> HIDE DEF s
  <2>4. Arrives(s, <<>>)
    BY <2>1, <2>2, <2>3 DEF Arrives, ClosedBy
  <2> QED
    BY <1>1, <2>1, <2>4
<1>4. CASE \/ ServerEof \/ ServerData \/ ServerRequest
           \/ ServerWindowAdjust /\ Head(up).num \in DOMAIN server.channels
  <2>1. up' = up \/ (up # <<>> /\ up' = Tail(up))
    BY <1>4 DEF ServerEof, ServerData, ServerRequest, ServerWindowAdjust, ServerReads
  <2>2. PICK s, answer : Between(s, answer)
    BY <1>4, ServerMessageIs
  <2>3. Stays(s, answer)
    <3>1. CASE SameTable(s, server) /\ answer = <<>>
      BY <2>1, <3>1 DEF Stays
    <3>2. CASE ~(SameTable(s, server) /\ answer = <<>>)
      BY <2>1, <2>2, <3>2, SameTableItself DEF Between, Stays
    <3> QED
      BY <3>1, <3>2
  <2>4. Arrives(s, answer) /\ Handler(s, answer)
    BY <2>2, <2>3 DEF Between, Arrives
  <2> QED
    BY <1>1, <2>4
<1>5. CASE ServerHandle
  <2>1. PICK id \in DOMAIN server.channels :
            SessionEof(server, <<>>, id) \/ SessionWrite(server, <<>>, id)
    BY <1>5 DEF ServerHandle
  <2>2. HandlerCall(server, <<>>) /\ up' = up
    BY <1>5, <2>1 DEF ServerHandle, HandlerCall
  <2>3. Stays(server, <<>>)
    BY <2>2, SameTableItself DEF Stays
  <2>4. Arrives(server, <<>>)
    BY <2>3, Untouched DEF Arrives
  <2> QED
    BY <1>1, <2>2, <2>4 DEF Handler
<1> QED
  BY <1>2, <1>3, <1>4, <1>5 DEF Called

LEMMA ConcatAppend ==
    ASSUME NEW S, NEW q \in Seq(S), NEW r \in Seq(S), NEW e \in S
    PROVE  q \o Append(r, e) = Append(q \o r, e)
OBVIOUS

(* d is what is on its way when the callback is entered. *)
Outcome(s, d) ==
    \/ Stops(s) /\ LogGrows
    \/ server' = s /\ down' = d /\ UNCHANGED log /\ LogGrows
    \/ LogGrows /\ \E id \in DOMAIN s.channels, p \in PacketSet :
          /\ SameTable(server', s) /\ down' = Append(d, p)
          /\ p.type \in {"CLOSE", "EOF", "DATA", "REQUEST", "SUCCESS", "FAILURE"}
          /\ p.num = s.channels[id].recipient_channel /\ p.of = s.channels[id].of
          /\ p.type = "CLOSE" => p.of \in log'.closed
    \/ LogGrows /\ \E id \in DOMAIN s.channels, p \in PacketSet :
          /\ server' = s /\ down' = Append(d, p)
          /\ p.type = "OPEN_FAILURE" /\ p.of = s.channels[id].of
          /\ p.of \in log'.refused
    \/ LogGrows /\ \E f \in Forwards, id \in 2..IdLimit, p \in PacketSet :
          /\ server'.served = s.served /\ server'.fate = s.fate
          /\ id > s.last_channel_id /\ id \notin DOMAIN s.channels
          /\ DOMAIN server'.channels = DOMAIN s.channels \cup {id}
          /\ \A n \in DOMAIN s.channels : server'.channels[n] = s.channels[n]
          /\ server'.channels[id].recipient_channel = 0
          /\ server'.channels[id].of = f
          /\ down' = Append(d, p)
          /\ p.type = "OPEN" /\ p.num = id /\ p.of = f
          /\ log'.asked = log.asked \cup {f}

LEMMA OutcomeIs ==
    ASSUME Core, NEW s, NEW answer, Interim(s, answer), Handler(s, answer)
    PROVE  Outcome(s, down \o answer)
<1>1. /\ log \in LogSet /\ left \in [client : Nat, server : Nat]
      /\ ServerOK(s) /\ down \in Seq(PacketSet) /\ answer \in Seq(PacketSet)
  BY CoreParts DEF Interim
<1>2. \A p \in PacketSet : down \o Append(answer, p) = Append(down \o answer, p)
  BY <1>1, ConcatAppend
<1>3. \/ LogGrows /\ Stops(s)
      \/ LogGrows /\ Plain(s, answer)
      \/ LogGrows /\ \E id \in DOMAIN s.channels, p \in PacketSet : Writes(s, answer, id, p)
      \/ \E id \in DOMAIN s.channels : SessionRefuse(s, answer, id)
      \/ \E f \in Forwards : SessionForward(s, answer, f)
  BY <1>1, HandlerCases
<1>4. CASE LogGrows /\ Stops(s)
  BY <1>4 DEF Outcome
<1>5. CASE LogGrows /\ Plain(s, answer)
  BY <1>5 DEF Outcome, Plain, Returns
<1>6. ASSUME LogGrows, NEW id \in DOMAIN s.channels, NEW p \in PacketSet,
             Writes(s, answer, id, p)
      PROVE  Outcome(s, down \o answer)
  BY <1>2, <1>6 DEF Outcome, Writes
<1>7. ASSUME NEW id \in DOMAIN s.channels, SessionRefuse(s, answer, id)
      PROVE  Outcome(s, down \o answer)
  <2>1. PICK p \in PacketSet :
               /\ server' = s /\ down' = down \o Append(answer, p)
               /\ p.type = "OPEN_FAILURE" /\ p.of = s.channels[id].of
               /\ LogGrows /\ p.of \in log'.refused
    <3> DEFINE q == Packet("OPEN_FAILURE", id, s.channels[id].of)
    <3>1. /\ server' = s /\ down' = down \o Append(answer, q)
          /\ q \in PacketSet /\ q.type = "OPEN_FAILURE" /\ q.of = s.channels[id].of
          /\ LogGrows /\ q.of \in log'.refused
      BY <1>1, <1>7, RefuseIs
    <3> HIDE DEF q
    <3> QED
      BY <3>1
  <2> QED
    BY <1>2, <2>1 DEF Outcome
<1>8. ASSUME NEW f \in Forwards, SessionForward(s, answer, f)
      PROVE  Outcome(s, down \o answer)
  <2>1. PICK id \in 2..IdLimit, p \in PacketSet : Forwarded(s, answer, f, id, p)
    BY <1>1, <1>8, ForwardIs
  <2> QED
    BY <1>2, <2>1 DEF Outcome, Forwarded
<1> QED
  BY <1>3, <1>4, <1>5, <1>6, <1>7, <1>8

(* Vouched, at the server. *)
LEMMA ArrivesVouched ==
    ASSUME Core, Vouched(server, log), NEW s, NEW answer, Arrives(s, answer)
    PROVE  Vouched(s, log)
<1>1. CASE Stays(s, answer)
  BY <1>1 DEF Stays, SameTable, Vouched
<1>2. CASE ClosedBy(s, Head(up))
  BY <1>2 DEF ClosedBy, Vouched
<1>3. ASSUME NEW id \in 2..IdLimit, NEW q \in PacketSet,
             Accepting(s, answer, id, Head(up), q)
      PROVE  Vouched(s, log)
  BY <1>3 DEF Accepting, Vouched
<1> QED
  BY <1>1, <1>2, <1>3 DEF Arrives

LEMMA OutcomeVouched ==
    ASSUME Core, Vouched(server, log), NEW s, NEW d, Vouched(s, log), Outcome(s, d)
    PROVE  Vouched(server', log')
<1>1. CASE Stops(s) /\ LogGrows
  <2>1. log.asked # {}
    BY <1>1 DEF Stops, Vouched
  <2>2. /\ server'.fate = "panic" /\ server'.channels = server.channels
        /\ server'.served = server.served
    BY <1>1, CoreParts DEF Stops, Panics, Ends, ServerOK, IsSession
  <2> QED
    BY <1>1, <2>1, <2>2 DEF Vouched, LogGrows
<1>2. CASE server' = s /\ LogGrows
  BY <1>2 DEF Vouched, LogGrows
<1>3. CASE SameTable(server', s) /\ LogGrows
  BY <1>3 DEF Vouched, LogGrows, SameTable
<1>4. ASSUME LogGrows, NEW f \in Forwards, NEW id \in 2..IdLimit,
             server'.served = s.served, server'.fate = s.fate,
             DOMAIN server'.channels = DOMAIN s.channels \cup {id},
             \A n \in DOMAIN s.channels : server'.channels[n] = s.channels[n],
             server'.channels[id].of = f, log'.asked = log.asked \cup {f}
      PROVE  Vouched(server', log')
  BY <1>4 DEF Vouched, LogGrows
<1> QED
  BY <1>1, <1>2, <1>3, <1>4 DEF Outcome

(* The steps of the server without a callback. *)
LEMMA AloneVouched ==
    ASSUME Core, Vouched(server, log),
           \/ ServerOpenOther \/ ServerIgnores \/ ServerHangup
           \/ ServerWindowAdjust /\ Head(up).num \notin DOMAIN server.channels
    PROVE  Vouched(server', log')
<1>1. CASE ServerOpenOther
  <2>1. /\ server'.channels = server.channels /\ server'.served = server.served
        /\ server'.fate = server.fate
    BY <1>1, ServerOpenOtherIs
  <2>2. UNCHANGED log
    BY <1>1 DEF ServerOpenOther
  <2> QED
    BY <2>1, <2>2 DEF Vouched
<1>2. CASE ServerIgnores
  BY <1>2 DEF ServerIgnores
<1>3. ASSUME NEW why \in {"over", "WrongChannel"}, server' = Ends(server, why), UNCHANGED log
      PROVE  Vouched(server', log')
  <2>1. /\ server'.fate = why /\ server'.channels = server.channels
        /\ server'.served = server.served
    BY <1>3, CoreParts DEF Ends, ServerOK, IsSession
  <2> QED
    BY <1>3, <2>1 DEF Vouched
<1>4. CASE ServerHangup
  BY <1>3, <1>4 DEF ServerHangup
<1>5. CASE ServerWindowAdjust /\ Head(up).num \notin DOMAIN server.channels
  BY <1>3, <1>5 DEF ServerWindowAdjust
<1> QED
  BY <1>1, <1>2, <1>4, <1>5

-----------------------------------------------------------------------------
(* A channel is asked for once, and answered after it was asked for.        *)

(* What a packet of the server says of its channel. *)
Fine(p, s, a, u, l) ==
    /\ p.of \in Calls => a[p.of].phase # "none"
    /\ p.of \in s.served \cup Forwards \/ p.type = "OPEN_FAILURE"
    /\ p.type = "OPEN_FAILURE" => p.of \in l.refused \/ p.of \notin s.served
    /\ p.type = "CLOSE" => l.closed # {}
    /\ p.of \in Forwards => l.asked # {}
    /\ \A i \in DOMAIN u : u[i].type \in Asking => u[i].of # p.of

AskedOnce(u) ==
    \A i, j \in DOMAIN u :
       u[i].type \in Asking /\ u[j].type \in Asking /\ u[i].of = u[j].of => i = j

AskedFirst(s, u) ==
    \A i \in DOMAIN u : u[i].type \in Asking => u[i].of \in Calls /\ u[i].of \notin s.served

Once(s, a, u, d, l) ==
    /\ \A ch \in s.served : a[ch].phase # "none"
    /\ AskedOnce(u) /\ AskedFirst(s, u)
    /\ \A j \in DOMAIN d : Fine(d[j], s, a, u, l)

LEMMA OnceInit == Init => Once(server, app, up, down, log)
BY DEF Init, Once, AskedOnce, AskedFirst

LEMMA LessAsked ==
    ASSUME NEW u \in Seq(PacketSet), NEW v, v = u \/ (u # <<>> /\ v = Tail(u)), NEW s
    PROVE  /\ AskedOnce(u) => AskedOnce(v)
           /\ AskedFirst(s, u) => AskedFirst(s, v)
           /\ \A p, a, l : Fine(p, s, a, u, l) => Fine(p, s, a, v, l)
<1>1. CASE v = u
  BY <1>1
<1>2. CASE u # <<>> /\ v = Tail(u)
  <2>1. \A i \in DOMAIN v : i + 1 \in DOMAIN u /\ v[i] = u[i + 1] /\ i \in Nat
    BY <1>2, TailElements
  <2>2. AskedOnce(u) => AskedOnce(v)
    <3> SUFFICES ASSUME AskedOnce(u), NEW i \in DOMAIN v, NEW j \in DOMAIN v,
                        v[i].type \in Asking, v[j].type \in Asking, v[i].of = v[j].of
                 PROVE  i = j
      BY DEF AskedOnce
    <3>1. i + 1 = j + 1
      BY <2>1 DEF AskedOnce
    <3> QED
      BY <2>1, <3>1
  <2>3. AskedFirst(s, u) => AskedFirst(s, v)
    BY <2>1 DEF AskedFirst
  <2>4. \A p, a, l : Fine(p, s, a, u, l) => Fine(p, s, a, v, l)
    BY <2>1 DEF Fine
  <2> QED
    BY <2>2, <2>3, <2>4
<1> QED
  BY <1>1, <1>2

LEMMA FineKept ==
    ASSUME NEW p, NEW s, NEW a, NEW u, NEW l, Fine(p, s, a, u, l), NEW t, NEW b, NEW k,
           t.served = s.served, \A ch \in Calls : a[ch].phase # "none" => b[ch].phase # "none",
           l.asked \subseteq k.asked, l.closed \subseteq k.closed, l.refused \subseteq k.refused
    PROVE  Fine(p, t, b, u, k)
BY DEF Fine

(* What is sent about an entry of the server's table. *)
LEMMA EntryFine ==
    ASSUME NEW s, ServerOK(s), NEW l, l \in LogSet, Vouched(s, l), NEW a, NEW u,
           \A ch \in s.served : a[ch].phase # "none", AskedFirst(s, u),
           NEW id \in DOMAIN s.channels, NEW p, p.of = s.channels[id].of,
           p.type = "OPEN_FAILURE" => p.of \in l.refused,
           p.type = "CLOSE" => l.closed # {}
    PROVE  Fine(p, s, a, u, l)
<1>1. l.asked \subseteq Forwards /\ s.served \subseteq Calls /\ Calls \cap Forwards = {}
  BY ChannelAssumption DEF LogSet, ServerOK
<1>2. p.of \in l.asked \/ p.of \in s.served
  BY DEF Vouched
<1> QED
  BY <1>1, <1>2 DEF Fine, AskedFirst

LEMMA OnceArrives ==
    ASSUME Core, Vouched(server, log), Once(server, app, up, down, log),
           NEW s, NEW answer, Arrives(s, answer)
    PROVE  Once(s, app, up', down \o answer, log)
<1>1. /\ up \in Seq(PacketSet) /\ down \in Seq(PacketSet) /\ answer \in Seq(PacketSet)
      /\ ServerOK(s) /\ log \in LogSet /\ ServerOK(server)
  BY CoreParts DEF Arrives, Interim
<1>2. \A j \in DOMAIN (down \o answer) :
          Among((down \o answer)[j], down) \/ Among((down \o answer)[j], answer)
  BY <1>1, Sent
<1>3. CASE Stays(s, answer)
  <2>1. up' = up \/ (up # <<>> /\ up' = Tail(up))
    BY <1>3 DEF Stays
  <2>2. s.served = server.served
    BY <1>3 DEF Stays, SameTable
  <2>3. AskedOnce(up') /\ AskedFirst(s, up')
    BY <1>1, <2>1, <2>2, LessAsked DEF Once, AskedFirst
  <2>4. \A j \in DOMAIN down : Fine(down[j], s, app, up', log)
    <3>1. \A j \in DOMAIN down : Fine(down[j], server, app, up', log)
      BY <1>1, <2>1, LessAsked DEF Once
    <3> QED
      BY <2>2, <3>1, FineKept
  <2>5. \A i \in DOMAIN answer : Fine(answer[i], s, app, up', log)
    <3> SUFFICES ASSUME NEW i \in DOMAIN answer PROVE Fine(answer[i], s, app, up', log)
      OBVIOUS
    <3>1. PICK n \in DOMAIN server.channels : answer[i].of = server.channels[n].of
      BY <1>3 DEF Stays
    <3>2. answer[i].type = "WINDOW_ADJUST"
      BY <1>3 DEF Stays
    <3>3. AskedFirst(server, up') /\ \A ch \in server.served : app[ch].phase # "none"
      BY <2>2, <2>3 DEF Once, AskedFirst
    <3>4. Fine(answer[i], server, app, up', log)
      BY <1>1, <3>1, <3>2, <3>3, EntryFine
    <3> QED
      BY <2>2, <3>4, FineKept
  <2> QED
    BY <1>2, <2>2, <2>3, <2>4, <2>5 DEF Once, Among
<1>4. CASE Read /\ ClosedBy(s, Head(up)) /\ answer = <<>>
  <2>1. up' = up \/ (up # <<>> /\ up' = Tail(up))
    BY <1>4 DEF Read
  <2>2. s.served = server.served /\ DOMAIN answer = {}
    BY <1>4 DEF ClosedBy
  <2>3. AskedOnce(up') /\ AskedFirst(s, up')
    BY <1>1, <2>1, <2>2, LessAsked DEF Once, AskedFirst
  <2>4. \A j \in DOMAIN down : Fine(down[j], s, app, up', log)
    <3>1. \A j \in DOMAIN down : Fine(down[j], server, app, up', log)
      BY <1>1, <2>1, LessAsked DEF Once
    <3> QED
      BY <2>2, <3>1, FineKept
  <2> QED
    BY <1>2, <2>2, <2>3, <2>4 DEF Once, Among
<1>5. ASSUME Read, Head(up).type = "OPEN", NEW id \in 2..IdLimit, NEW q \in PacketSet,
             Accepting(s, answer, id, Head(up), q)
      PROVE  Once(s, app, up', down \o answer, log)
  <2> DEFINE p == Head(up)
  <2>1. up' = up \/ (up # <<>> /\ up' = Tail(up))
    BY <1>5 DEF Read
  <2>2. /\ p = up[1] /\ 1 \in DOMAIN up /\ p.type \in Asking
        /\ \A i \in DOMAIN up' : i + 1 \in DOMAIN up /\ up'[i] = up[i + 1] /\ i + 1 # 1
    BY <1>1, <1>5, TailElements DEF Read, Asking
  <2>3. p.of \in Calls /\ app[p.of].phase # "none"
    BY <2>2, <1>1, <1>5, HeadIs DEF UpGood, Read
  <2>4. /\ s.served = server.served \cup {p.of} /\ answer = <<q>>
        /\ q.type = "CONFIRM" /\ q.of = p.of
    BY <1>5 DEF Accepting
  <2> HIDE DEF p
  <2>5. AskedOnce(up') /\ AskedFirst(server, up')
    BY <1>1, <2>1, LessAsked DEF Once
  <2>6. \A i \in DOMAIN up' : up'[i].type \in Asking => up'[i].of # p.of
    BY <2>2 DEF Once, AskedOnce
  <2>7. AskedFirst(s, up')
    BY <2>4, <2>5, <2>6 DEF AskedFirst
  <2>8. \A j \in DOMAIN down : Fine(down[j], s, app, up', log)
    <3>1. \A j \in DOMAIN down :
             Fine(down[j], server, app, up', log) /\ down[j].of # p.of
      <4>1. \A j \in DOMAIN down : Fine(down[j], server, app, up, log)
        BY DEF Once
      <4>2. \A j \in DOMAIN down : Fine(down[j], server, app, up', log)
        BY <1>1, <2>1, <4>1, LessAsked
      <4> QED
        BY <2>2, <4>1, <4>2 DEF Fine
    <3> QED
      BY <2>4, <3>1 DEF Fine
  <2>9. Fine(q, s, app, up', log)
    BY <2>3, <2>4, <2>6, ChannelAssumption DEF Fine
  <2>10. \A i \in DOMAIN answer : answer[i] = q
    BY <2>4
  <2> QED
    BY <1>2, <2>3, <2>4, <2>5, <2>7, <2>8, <2>9, <2>10 DEF Once, Among
<1> QED
  BY <1>3, <1>4, <1>5 DEF Arrives

(* One more packet of the server. *)
LEMMA OnceSends ==
    ASSUME NEW s, NEW a, NEW u, NEW d \in Seq(PacketSet), NEW l, Once(s, a, u, d, l),
           NEW t, NEW k, t.served = s.served, l.asked \subseteq k.asked,
           l.closed \subseteq k.closed, l.refused \subseteq k.refused,
           NEW p \in PacketSet, Fine(p, t, a, u, k)
    PROVE  Once(t, a, u, Append(d, p), k)
<1>1. \A j \in DOMAIN d : Fine(d[j], t, a, u, k)
  BY FineKept DEF Once
<1>2. \A j \in DOMAIN Append(d, p) :
          (j \in DOMAIN d /\ Append(d, p)[j] = d[j]) \/ Append(d, p)[j] = p
  BY AppendElements
<1> QED
  BY <1>1, <1>2 DEF Once, AskedFirst

LEMMA OnceOutcome ==
    ASSUME Core, Once(server, app, up', down, log), NEW s, ServerOK(s), Vouched(s, log),
           NEW d \in Seq(PacketSet), Once(s, app, up', d, log), Outcome(s, d)
    PROVE  Once(server', app, up', down', log')
<1>0. log \in LogSet
  BY CoreParts
<1>1. CASE Stops(s) /\ LogGrows
  <2>1. server'.served = server.served /\ down' = down /\ log' = log
    BY <1>1, CoreParts DEF Stops, Panics, Ends, ServerOK, IsSession
  <2> QED
    BY <2>1 DEF Once, AskedFirst, Fine
<1>2. CASE server' = s /\ down' = d /\ UNCHANGED log
  BY <1>2
<1> DEFINE Fits(p) == p \in PacketSet /\ Fine(p, server', app, up', log')
<1>3. ASSUME LogGrows, server'.served = s.served, NEW p, Fits(p), down' = Append(d, p)
      PROVE  Once(server', app, up', down', log')
  BY <1>3, OnceSends DEF LogGrows
<1>4. ASSUME LogGrows, NEW id \in DOMAIN s.channels, NEW p \in PacketSet,
             server'.served = s.served, p.of = s.channels[id].of,
             p.type = "OPEN_FAILURE" => p.of \in log'.refused,
             p.type = "CLOSE" => p.of \in log'.closed
      PROVE  Fits(p)
  <2>1. Vouched(s, log') /\ log' \in LogSet
    BY <1>4 DEF Vouched, LogGrows
  <2>2. p.type = "CLOSE" => log'.closed # {}
    BY <1>4
  <2>3. (\A ch \in s.served : app[ch].phase # "none") /\ AskedFirst(s, up')
    BY DEF Once
  <2>4. Fine(p, s, app, up', log')
    BY <1>4, <2>1, <2>2, <2>3, EntryFine
  <2> QED
    BY <1>4, <2>4 DEF Fine
<1>5. ASSUME LogGrows, NEW f \in Forwards, NEW p \in PacketSet,
             server'.served = s.served, p.type = "OPEN", p.of = f,
             log'.asked = log.asked \cup {f}
      PROVE  Fits(p)
  BY <1>5, ChannelAssumption DEF Fine, Once, AskedFirst
<1> HIDE DEF Fits
<1>6. ASSUME LogGrows, NEW id \in DOMAIN s.channels, NEW p \in PacketSet,
             SameTable(server', s), down' = Append(d, p),
             p.type \in {"CLOSE", "EOF", "DATA", "REQUEST", "SUCCESS", "FAILURE"},
             p.of = s.channels[id].of, p.type = "CLOSE" => p.of \in log'.closed
      PROVE  Once(server', app, up', down', log')
  <2>1. server'.served = s.served
    BY <1>6 DEF SameTable
  <2> QED
    BY <1>3, <1>4, <1>6, <2>1
<1>7. ASSUME LogGrows, NEW id \in DOMAIN s.channels, NEW p \in PacketSet,
             server' = s, down' = Append(d, p), p.type = "OPEN_FAILURE",
             p.of = s.channels[id].of, p.of \in log'.refused
      PROVE  Once(server', app, up', down', log')
  BY <1>3, <1>4, <1>7
<1>8. ASSUME LogGrows, NEW f \in Forwards, NEW p \in PacketSet,
             server'.served = s.served, down' = Append(d, p), p.type = "OPEN", p.of = f,
             log'.asked = log.asked \cup {f}
      PROVE  Once(server', app, up', down', log')
  BY <1>3, <1>5, <1>8
<1> QED
  BY <1>1, <1>2, <1>6, <1>7, <1>8 DEF Outcome

(* A step of the server with a callback: what all parts of the story need.  *)
LEMMA ConcatTyped ==
    ASSUME Core, NEW s, NEW answer, Interim(s, answer)
    PROVE  down \o answer \in Seq(PacketSet) /\ ServerOK(s)
BY CoreParts DEF Interim

LEMMA OnceCalled ==
    ASSUME Core, Vouched(server, log), Once(server, app, up, down, log),
           NEW s, NEW answer, Arrives(s, answer), Handler(s, answer), UNCHANGED app
    PROVE  Vouched(server', log') /\ Once(server', app', up', down', log')
<1>1. Interim(s, answer)
  BY DEF Arrives
<1>2. /\ Outcome(s, down \o answer) /\ Vouched(s, log)
      /\ Once(s, app, up', down \o answer, log)
      /\ down \o answer \in Seq(PacketSet) /\ ServerOK(s)
  BY <1>1, OutcomeIs, ArrivesVouched, OnceArrives, ConcatTyped
<1> DEFINE d == down \o answer
<1> HIDE DEF d
<1>3. /\ Outcome(s, d) /\ Once(s, app, up', d, log) /\ d \in Seq(PacketSet)
  BY <1>2 DEF d
<1>4. Once(server, app, up', down, log)
  <2>1. up' = up \/ (up # <<>> /\ up' = Tail(up))
    BY DEF Arrives, Stays, Read
  <2>2. up \in Seq(PacketSet)
    BY CoreParts
  <2> QED
    BY <2>1, <2>2, LessAsked DEF Once
<1>5. Vouched(server', log')
  BY <1>2, <1>3, OutcomeVouched
<1>6. Once(server', app, up', down', log')
  BY <1>2, <1>3, <1>4, OnceOutcome
<1> QED
  BY <1>5, <1>6

LEMMA OnceAlone ==
    ASSUME Core, Once(server, app, up, down, log),
           \/ ServerOpenOther \/ ServerIgnores \/ ServerHangup
           \/ ServerWindowAdjust /\ Head(up).num \notin DOMAIN server.channels
    PROVE  Once(server', app', up', down', log')
<1>1. up \in Seq(PacketSet) /\ down \in Seq(PacketSet)
  BY CoreParts
<1>2. CASE ServerOpenOther
  <2>1. PICK q \in PacketSet :
              /\ server'.served = server.served
              /\ q.type = "OPEN_FAILURE" /\ q.of = Head(up).of
              /\ down' = down \o <<q>>
    BY <1>2, ServerOpenOtherIs
  <2>2. /\ up # <<>> /\ up' = Tail(up) /\ Head(up).type \in Asking /\ UNCHANGED <<app, log>>
    BY <1>2 DEF ServerOpenOther, ServerReads, Asking
  <2>3. /\ Head(up) = up[1] /\ 1 \in DOMAIN up
        /\ \A i \in DOMAIN up' : i + 1 \in DOMAIN up /\ up'[i] = up[i + 1] /\ i + 1 # 1
    BY <1>1, <2>2, TailElements
  <2>4. Once(server, app, up', down, log)
    BY <1>1, <2>2, LessAsked DEF Once
  <2>5. \A i \in DOMAIN up' : up'[i].type \in Asking => up'[i].of # q.of
    BY <2>1, <2>2, <2>3 DEF Once, AskedOnce
  <2>6. q.of \in Calls /\ q.of \notin server.served
    BY <2>1, <2>2, <2>3 DEF Once, AskedFirst
  <2>7. app[q.of].phase # "none"
    BY <2>1, <2>2, HeadIs DEF UpGood
  <2>8. Fine(q, server', app, up', log)
    BY <2>1, <2>5, <2>6, <2>7, ChannelAssumption DEF Fine
  <2>9. down' = Append(down, q)
    BY <1>1, <2>1
  <2> QED
    BY <1>1, <2>1, <2>2, <2>4, <2>8, <2>9, OnceSends
<1>3. CASE \/ ServerIgnores \/ ServerHangup
           \/ ServerWindowAdjust /\ Head(up).num \notin DOMAIN server.channels
  <2>1. /\ up' = up \/ (up # <<>> /\ up' = Tail(up))
        /\ UNCHANGED <<app, down, log>>
    BY <1>3 DEF ServerIgnores, ServerHangup, ServerWindowAdjust, ServerReads
  <2>2. server'.served = server.served
    BY <1>3, CoreParts DEF ServerIgnores, ServerHangup, ServerWindowAdjust, Ends, ServerOK,
       IsSession
  <2>3. Once(server, app, up', down, log)
    BY <1>1, <2>1, LessAsked DEF Once
  <2> QED
    BY <2>1, <2>2, <2>3 DEF Once, AskedFirst, Fine
<1> QED
  BY <1>2, <1>3

(* The steps of the client. *)
LEMMA OnceClient ==
    ASSUME Core, Once(server, app, up, down, log), server' = server,
           \A ch \in Channels : app[ch].phase # "none" => app'[ch].phase # "none",
           \A i \in DOMAIN up' : \/ i \in DOMAIN up /\ up'[i] = up[i]
                                 \/ up'[i].type \notin Asking,
           down' = down \/ (down # <<>> /\ down' = Tail(down)),
           log.asked \subseteq log'.asked, log.closed \subseteq log'.closed,
           log.refused \subseteq log'.refused
    PROVE  Once(server', app', up', down', log')
<1>1. down \in Seq(PacketSet) /\ server.served \subseteq Calls
  BY CoreParts DEF ServerOK
<1>2. \A j \in DOMAIN down' : \E i \in DOMAIN down : down'[j] = down[i]
  BY <1>1, Consumed
<1>3. AskedOnce(up') /\ AskedFirst(server', up')
  BY DEF Once, AskedOnce, AskedFirst
<1>4. ASSUME NEW i \in DOMAIN down PROVE Fine(down[i], server', app', up', log')
  <2>1. Fine(down[i], server, app, up, log)
    BY DEF Once
  <2>2. \A ch \in Calls : app[ch].phase # "none" => app'[ch].phase # "none"
    BY DEF Channels
  <2>3. Fine(down[i], server', app', up, log')
    BY <2>1, <2>2, FineKept
  <2> QED
    BY <2>3 DEF Fine
<1>5. \A ch \in server'.served : app'[ch].phase # "none"
  BY <1>1 DEF Once, Channels
<1> QED
  BY <1>2, <1>3, <1>4, <1>5 DEF Once

LEMMA OnceAsked ==
    ASSUME Core, Once(server, app, up, down, log), NEW ch \in Calls, NEW type \in Types,
           CallOpen(ch, type)
    PROVE  Once(server', app', up', down', log')
<1>1. PICK p \in PacketSet : p.type \in Asking /\ p.of = ch /\ up' = Append(up, p)
  BY CallOpenIs
<1>2. /\ app[ch].phase = "none" /\ app' = [app EXCEPT ![ch].phase = "waiting"]
      /\ UNCHANGED <<server, heard, down, left, log>>
  BY DEF CallOpen
<1>3. /\ app \in [Channels -> AppSet] /\ up \in Seq(PacketSet)
      /\ server.served \subseteq Calls /\ ch \in Channels
  BY CoreParts DEF ServerOK, Channels
<1>4. \A c \in Channels : app[c].phase # "none" => app'[c].phase # "none"
  BY <1>2, <1>3 DEF AppSet
<1>5. ch \notin server.served /\ \A j \in DOMAIN down : down[j].of # ch
  BY <1>2 DEF Once, Fine
<1>6. \A i \in DOMAIN up : up[i].type \in Asking => up[i].of # ch
  BY <1>2 DEF Core, UpGood
<1> DEFINE u == Append(up, p)
<1>7. \A i \in DOMAIN u : (i \in DOMAIN up /\ u[i] = up[i]) \/ (u[i] = p /\ i = Len(up) + 1)
  BY <1>3, AppendElements
<1> HIDE DEF u
<1>8. AskedOnce(u)
  BY <1>1, <1>6, <1>7 DEF Once, AskedOnce
<1>9. AskedFirst(server, u)
  BY <1>1, <1>5, <1>7 DEF Once, AskedFirst
<1>10. \A j \in DOMAIN down : Fine(down[j], server, app', u, log)
  <2> SUFFICES ASSUME NEW j \in DOMAIN down PROVE Fine(down[j], server, app', u, log)
    OBVIOUS
  <2>1. Fine(down[j], server, app, up, log)
    BY DEF Once
  <2>2. \A c \in Calls : app[c].phase # "none" => app'[c].phase # "none"
    BY <1>4 DEF Channels
  <2>3. Fine(down[j], server, app', up, log)
    BY <2>1, <2>2, FineKept
  <2> QED
    BY <1>1, <1>5, <1>7, <2>3 DEF Fine
<1>11. \A c \in server.served : app'[c].phase # "none"
  BY <1>3, <1>4 DEF Once, Channels
<1>12. Once(server, app', u, down, log)
  BY <1>8, <1>9, <1>10, <1>11 DEF Once
<1> QED
  BY <1>1, <1>2, <1>12 DEF u

(* What the client's other steps write and take. *)
LEMMA ClientWritesIs ==
    ASSUME Core,
           \/ \E ch \in Calls : Returned(ch)
           \/ \E ch \in Channels, type \in UseTypes : ClientUse(ch, type)
           \/ ClientConfirmation \/ ClientClosed
           \/ ClientTold \/ ClientData \/ ClientWindowAdjust \/ ClientIgnores
           \/ ClientForwardIgnored \/ ClientForwardAccepted \/ ClientHangup
    PROVE  /\ server' = server
           /\ \A ch \in Channels : app[ch].phase # "none" => app'[ch].phase # "none"
           /\ \A i \in DOMAIN up' :
                 \/ i \in DOMAIN up /\ up'[i] = up[i]
                 \/ up'[i].type \notin Asking
           /\ down' = down \/ (down # <<>> /\ down' = Tail(down))
           /\ log'.asked = log.asked /\ log'.closed = log.closed /\ log'.refused = log.refused
<1>1. up \in Seq(PacketSet) /\ app \in [Channels -> AppSet]
  BY CoreParts
<1>2. \A i \in DOMAIN up : i \in DOMAIN up /\ up[i] = up[i]
  OBVIOUS
<1>3. ASSUME NEW ch \in Calls, Returned(ch)
      PROVE  \A c \in Channels : app[c].phase # "none" => app'[c].phase # "none"
  <2>1. CASE CallReturnsChannel(ch)
    <3>1. \E i : app' = [app EXCEPT ![ch] = [phase |-> "open", id |-> heard[ch][i].id]]
      BY <2>1 DEF CallReturnsChannel
    <3> QED
      BY <1>1, <3>1
  <2>2. CASE CallFails(ch)
    BY <1>1, <2>2 DEF CallFails, AppSet
  <2> QED
    BY <1>3, <2>1, <2>2 DEF Returned
<1>4. CASE \E ch \in Calls : Returned(ch)
  <2>1. UNCHANGED <<client, server, heard, up, down, left, log>>
    BY <1>4 DEF Returned, CallReturnsChannel, CallFails
  <2> QED
    BY <1>2, <1>3, <1>4, <2>1
<1>5. ASSUME NEW p \in PacketSet, up' = Append(up, p), p.type \notin Asking
      PROVE  \A i \in DOMAIN up' : (i \in DOMAIN up /\ up'[i] = up[i]) \/ up'[i].type \notin Asking
  <2> DEFINE u == Append(up, p)
  <2>1. \A i \in DOMAIN u : (i \in DOMAIN up /\ u[i] = up[i]) \/ u[i] = p
    BY <1>1, AppendElements
  <2> HIDE DEF u
  <2>2. up' = u
    BY <1>5 DEF u
  <2> QED
    BY <1>5, <2>1, <2>2
<1>6. ASSUME NEW ch \in Channels, NEW type \in UseTypes, ClientUse(ch, type)
      PROVE  /\ \A i \in DOMAIN up' :
                 (i \in DOMAIN up /\ up'[i] = up[i]) \/ up'[i].type \notin Asking
             /\ log'.asked = log.asked /\ log'.closed = log.closed
             /\ log'.refused = log.refused
             /\ UNCHANGED <<server, app, heard, down>>
  <2>1. UNCHANGED <<server, app, heard, down>>
    BY <1>6 DEF ClientUse
  <2>2. \/ UNCHANGED <<up, log>>
        \/ \E p \in PacketSet : UsesEntry(app[ch].id, p)
    BY <1>6, ClientUseIs
  <2>3. ASSUME NEW p \in PacketSet, UsesEntry(app[ch].id, p)
        PROVE  /\ up' = Append(up, p) /\ p.type \notin Asking
               /\ log'.asked = log.asked /\ log'.closed = log.closed
               /\ log'.refused = log.refused
    BY <2>3 DEF UsesEntry, UseTypes, Asking
  <2> QED
    BY <1>2, <1>5, <2>1, <2>2, <2>3
<1>7. CASE \E ch \in Channels, type \in UseTypes : ClientUse(ch, type)
  BY <1>6, <1>7
<1>8. CASE \/ ClientConfirmation \/ ClientClosed \/ ClientTold \/ ClientWindowAdjust
           \/ ClientIgnores \/ ClientForwardIgnored \/ ClientHangup
  <2>1. /\ UNCHANGED <<server, app, up, left, log>>
        /\ down' = down \/ (down # <<>> /\ down' = Tail(down))
    BY <1>8 DEF ClientConfirmation, ClientClosed, ClientTold, ClientWindowAdjust,
       ClientIgnores, ClientForwardIgnored, ClientHangup, ClientReads
  <2> QED
    BY <1>2, <2>1
<1>9. CASE ClientData
  <2>1. /\ UNCHANGED <<server, app, left, log>> /\ down # <<>> /\ down' = Tail(down)
    BY <1>9 DEF ClientData, ClientReads
  <2>2. PICK answer \in Adjustments(client, Head(down).num) : up' = up \o answer
    BY <1>9 DEF ClientData
  <2>3. IsTable(client.channels, EntrySet)
    BY CoreParts DEF ClientOK, IsSession
  <2>4. answer \in Seq(PacketSet) /\ \A i \in DOMAIN answer : answer[i].type = "WINDOW_ADJUST"
    BY <2>3, AdjustmentIs
  <2>5. \A i \in DOMAIN up' : \/ i \in DOMAIN up /\ up'[i] = up[i]
                              \/ i - Len(up) \in DOMAIN answer /\ up'[i] = answer[i - Len(up)]
    BY <1>1, <2>2, <2>4, ConcatElements
  <2>6. \A i \in DOMAIN up' : (i \in DOMAIN up /\ up'[i] = up[i]) \/ up'[i].type \notin Asking
    BY <2>4, <2>5 DEF Asking
  <2> QED
    BY <2>1, <2>6
<1>10. CASE ClientForwardAccepted
  <2>1. PICK id \in 2..IdLimit, q \in PacketSet : AcceptedAs(id, Head(down), q)
    BY <1>10, ClientForwardAcceptedIs
  <2>2. /\ down # <<>> /\ down' = Tail(down) /\ UNCHANGED <<server, heard, left, log>>
    BY <1>10 DEF ClientForwardAccepted, ClientReads
  <2>3. /\ up' = Append(up, q) /\ q.type \notin Asking
        /\ app' = [app EXCEPT ![Head(down).of] = [phase |-> "open", id |-> id]]
    BY <2>1 DEF AcceptedAs, Asking
  <2>4. \A ch \in Channels : app[ch].phase # "none" => app'[ch].phase # "none"
    BY <1>1, <2>3
  <2> QED
    BY <1>5, <2>2, <2>3, <2>4
<1> QED
  BY <1>4, <1>7, <1>8, <1>9, <1>10

(* The first part of the story is inductive. *)
Story1 ==
    /\ Sure(client, app, heard) /\ Vouched(server, log)
    /\ Once(server, app, up, down, log)

ClientMoves ==
    \/ \E ch \in Calls : Returned(ch)
    \/ \E ch \in Channels, type \in UseTypes : ClientUse(ch, type)
    \/ ClientConfirmation \/ ClientClosed
    \/ ClientTold \/ ClientData \/ ClientWindowAdjust \/ ClientIgnores
    \/ ClientForwardIgnored \/ ClientForwardAccepted \/ ClientHangup

ServerAlone ==
    \/ ServerOpenOther \/ ServerIgnores \/ ServerHangup
    \/ ServerWindowAdjust /\ Head(up).num \notin DOMAIN server.channels

LEMMA StepKinds ==
    ASSUME [Next]_vars
    PROVE  \/ \E ch \in Calls, type \in Types : CallOpen(ch, type)
           \/ ClientMoves \/ Called \/ ServerAlone \/ UNCHANGED vars
BY StepCases DEF ClientMoves, Called, ServerAlone

LEMMA Story1Step == Core /\ Story1 /\ [Next]_vars => Story1'
<1> SUFFICES ASSUME Core, Sure(client, app, heard), Vouched(server, log),
                    Once(server, app, up, down, log), [Next]_vars
             PROVE  /\ Sure(client', app', heard') /\ Vouched(server', log')
                    /\ Once(server', app', up', down', log')
  BY DEF Story1, Sure, Vouched, Once, AskedOnce, AskedFirst, Fine, Confirmed
<1>1. ASSUME NEW ch \in Calls, NEW type \in Types, CallOpen(ch, type)
      PROVE  /\ Sure(client', app', heard') /\ Vouched(server', log')
             /\ Once(server', app', up', down', log')
  <2>1. Sure(client', app', heard') /\ Once(server', app', up', down', log')
    BY <1>1, ClientSure, OnceAsked
  <2>2. UNCHANGED <<server, log>>
    BY <1>1 DEF CallOpen
  <2> QED
    BY <2>1, <2>2
<1>2. CASE ClientMoves
  <2>1. Sure(client', app', heard')
    BY <1>2, ClientSure DEF ClientMoves
  <2>2. /\ server' = server
        /\ \A ch \in Channels : app[ch].phase # "none" => app'[ch].phase # "none"
        /\ \A i \in DOMAIN up' :
                 \/ i \in DOMAIN up /\ up'[i] = up[i]
                 \/ up'[i].type \notin Asking
        /\ down' = down \/ (down # <<>> /\ down' = Tail(down))
        /\ log'.asked = log.asked /\ log'.closed = log.closed /\ log'.refused = log.refused
    BY <1>2, ClientWritesIs DEF ClientMoves
  <2>3. Once(server', app', up', down', log')
    BY <2>2, OnceClient
  <2>4. Vouched(server', log')
    BY <2>2 DEF Vouched
  <2> QED
    BY <2>1, <2>3, <2>4
<1>3. CASE Called
  <2>1. /\ UNCHANGED <<client, app, heard>>
        /\ \E s, answer : Arrives(s, answer) /\ Handler(s, answer)
    BY <1>3, CalledIs
  <2> QED
    BY <2>1, OnceCalled
<1>4. CASE ServerAlone
  <2>1. UNCHANGED <<client, app, heard>>
    BY <1>4 DEF ServerAlone, ServerOpenOther, ServerIgnores, ServerHangup, ServerWindowAdjust,
       ServerReads
  <2>2. Vouched(server', log') /\ Once(server', app', up', down', log')
    BY <1>4, AloneVouched, OnceAlone DEF ServerAlone
  <2> QED
    BY <2>1, <2>2
<1>5. CASE UNCHANGED vars
  BY <1>5 DEF vars
<1> QED
  BY <1>1, <1>2, <1>3, <1>4, <1>5, StepKinds

-----------------------------------------------------------------------------
(* What the client's table misses, and why.                                 *)

Known(c, num) == num \in DOMAIN c.channels

Happened(l) == l.closed \cup l.refused \cup l.asked # {}

Waiting(c, u) == \A i \in DOMAIN u : u[i].type = "OPEN" => Known(c, u[i].num)

(* A confirmation is the first packet about its channel. *)
First(d, j) == \A i \in 1..(j - 1) : d[i].of # d[j].of

ConfirmsKnown(c, d) ==
    \A j \in DOMAIN d : d[j].type = "CONFIRM" => Known(c, d[j].num) /\ First(d, j)

EntriesKnown(c, s) == \A id \in DOMAIN s.channels : Known(c, s.channels[id].recipient_channel)

ReachesKnown(c, d) == \A j \in DOMAIN d : d[j].type # "OPEN_FAILURE" => Known(c, d[j].num)

Kept(c, s, u, d, l) ==
    /\ l.refused = {} => Waiting(c, u) /\ ConfirmsKnown(c, d)
    /\ ~Happened(l) => EntriesKnown(c, s) /\ ReachesKnown(c, d)

Causes(c, l) ==
    /\ c.fate = "Inconsistent" => l.refused # {}
    /\ c.fate = "WrongChannel" => Happened(l)

LEMMA KeptInit == Init => Kept(client, server, up, down, log) /\ Causes(client, log)
<1> SUFFICES ASSUME Init PROVE Kept(client, server, up, down, log) /\ Causes(client, log)
  OBVIOUS
<1>1. /\ client.fate = "running" /\ server.channels = NoEntries /\ DOMAIN NoEntries = {}
      /\ DOMAIN up = {} /\ DOMAIN down = {}
  BY DEF Init, NoEntries
<1> QED
  BY <1>1 DEF Kept, Causes, Waiting, ConfirmsKnown, EntriesKnown, ReachesKnown

LEMMA FewerWaiting ==
    ASSUME NEW u \in Seq(PacketSet), NEW v, v = u \/ (u # <<>> /\ v = Tail(u)), NEW c,
           Waiting(c, u)
    PROVE  Waiting(c, v)
<1>1. \A i \in DOMAIN v : \E j \in DOMAIN u : v[i] = u[j]
  BY Consumed
<1> QED
  BY <1>1 DEF Waiting

LEMMA FewerReached ==
    ASSUME NEW d \in Seq(PacketSet), NEW e, e = d \/ (d # <<>> /\ e = Tail(d)), NEW c
    PROVE  /\ ConfirmsKnown(c, d) => ConfirmsKnown(c, e)
           /\ ReachesKnown(c, d) => ReachesKnown(c, e)
<1>1. CASE e = d
  BY <1>1
<1>2. CASE d # <<>> /\ e = Tail(d)
  <2>1. /\ Len(d) \in Nat /\ DOMAIN d = 1..Len(d) /\ DOMAIN e = 1..(Len(d) - 1)
        /\ \A i \in DOMAIN e : i + 1 \in DOMAIN d /\ e[i] = d[i + 1]
    BY <1>2, TailElements
  <2>2. \A j \in DOMAIN e : First(d, j + 1) => First(e, j)
    BY <2>1 DEF First
  <2> QED
    BY <2>1, <2>2 DEF ConfirmsKnown, ReachesKnown
<1> QED
  BY <1>1, <1>2

LEMMA KeptTail ==
    ASSUME NEW c, NEW s, NEW l, NEW u \in Seq(PacketSet), NEW d \in Seq(PacketSet),
           NEW v, v = u \/ (u # <<>> /\ v = Tail(u)),
           NEW e, e = d \/ (d # <<>> /\ e = Tail(d)), Kept(c, s, u, d, l)
    PROVE  Kept(c, s, v, e, l)
BY FewerWaiting, FewerReached DEF Kept

(* The server sends one more packet. *)
LEMMA KeptSends ==
    ASSUME NEW c, NEW s, NEW u, NEW d \in Seq(PacketSet), NEW l, Kept(c, s, u, d, l),
           NEW t, NEW k, l.asked \subseteq k.asked, l.closed \subseteq k.closed,
           l.refused \subseteq k.refused, NEW p \in PacketSet,
           p.type # "CONFIRM" \/ k.refused # {},
           ~Happened(k) => /\ EntriesKnown(c, s) => EntriesKnown(c, t)
                           /\ p.type = "OPEN_FAILURE" \/ Known(c, p.num)
    PROVE  Kept(c, t, u, Append(d, p), k)
<1> DEFINE e == Append(d, p)
<1>1. /\ DOMAIN d = 1..Len(d) /\ Len(d) \in Nat
      /\ \A j \in DOMAIN e : \/ j \in DOMAIN d /\ e[j] = d[j]
                             \/ j = Len(d) + 1 /\ e[j] = p
      /\ \A j \in DOMAIN d : e[j] = d[j]
  BY AppendElements
<1> HIDE DEF e
<1>2. \A j \in DOMAIN d : First(d, j) => First(e, j)
  BY <1>1 DEF First
<1>3. k.refused = {} => Waiting(c, u) /\ ConfirmsKnown(c, e)
  BY <1>1, <1>2 DEF Kept, ConfirmsKnown
<1>4. ~Happened(k) => ~Happened(l)
  BY DEF Happened
<1>5. ~Happened(k) => EntriesKnown(c, t) /\ ReachesKnown(c, e)
  BY <1>1, <1>4 DEF Kept, ReachesKnown
<1> QED
  BY <1>3, <1>5 DEF Kept, e

LEMMA KeptArrives ==
    ASSUME Core, Story1, Kept(client, server, up, down, log),
           NEW s, NEW answer, Arrives(s, answer)
    PROVE  Kept(client, s, up', down \o answer, log)
<1>1. /\ up \in Seq(PacketSet) /\ down \in Seq(PacketSet) /\ answer \in Seq(PacketSet)
      /\ Len(down) \in Nat /\ DOMAIN down = 1..Len(down)
  BY CoreParts DEF Arrives, Interim
<1>2. up' = up \/ (up # <<>> /\ up' = Tail(up))
  BY DEF Arrives, Stays, Read
<1> DEFINE d == down \o answer
<1>3. /\ \A j \in DOMAIN d : \/ j \in DOMAIN down /\ d[j] = down[j]
                             \/ j - Len(down) \in DOMAIN answer /\ d[j] = answer[j - Len(down)]
      /\ \A j \in DOMAIN down : d[j] = down[j]
  BY <1>1, ConcatElements
<1> HIDE DEF d
<1>4. log.refused = {} => Waiting(client, up')
  BY <1>1, <1>2, FewerWaiting DEF Kept
<1>5. \A j \in DOMAIN down : First(down, j) => First(d, j)
  BY <1>1, <1>3 DEF First
<1>6. CASE Stays(s, answer)
  <2>1. log.refused = {} => ConfirmsKnown(client, d)
    BY <1>3, <1>5, <1>6 DEF Kept, ConfirmsKnown, Stays
  <2>2. ~Happened(log) => EntriesKnown(client, s)
    BY <1>6 DEF Kept, EntriesKnown, Stays, SameTable
  <2>3. ~Happened(log) => ReachesKnown(client, d)
    <3> SUFFICES ASSUME ~Happened(log), NEW j \in DOMAIN d, d[j].type # "OPEN_FAILURE"
                 PROVE  Known(client, d[j].num)
      BY DEF ReachesKnown
    <3>1. CASE j \in DOMAIN down /\ d[j] = down[j]
      BY <3>1 DEF Kept, ReachesKnown
    <3>2. CASE j - Len(down) \in DOMAIN answer /\ d[j] = answer[j - Len(down)]
      BY <1>6, <3>2 DEF Kept, EntriesKnown, Stays
    <3> QED
      BY <1>3, <3>1, <3>2
  <2> QED
    BY <1>4, <2>1, <2>2, <2>3 DEF Kept, d
<1>7. CASE ClosedBy(s, Head(up)) /\ answer = <<>>
  <2>1. DOMAIN answer = {}
    BY <1>7
  <2>2. log.refused = {} => ConfirmsKnown(client, d)
    BY <1>3, <1>5, <2>1 DEF Kept, ConfirmsKnown
  <2>3. ~Happened(log) => EntriesKnown(client, s)
    BY <1>7 DEF Kept, EntriesKnown, ClosedBy
  <2>4. ~Happened(log) => ReachesKnown(client, d)
    BY <1>3, <2>1 DEF Kept, ReachesKnown
  <2> QED
    BY <1>4, <2>2, <2>3, <2>4 DEF Kept, d
<1>8. ASSUME Read, Head(up).type = "OPEN", NEW id \in 2..IdLimit, NEW q \in PacketSet,
             Accepting(s, answer, id, Head(up), q)
      PROVE  Kept(client, s, up', down \o answer, log)
  <2> DEFINE p == Head(up)
  <2>1. p = up[1] /\ 1 \in DOMAIN up /\ p.type = "OPEN"
    BY <1>1, <1>8, TailElements DEF Read
  <2>2. /\ DOMAIN s.channels = DOMAIN server.channels \cup {id}
        /\ \A n \in DOMAIN server.channels : s.channels[n] = server.channels[n]
        /\ s.channels[id].recipient_channel = p.num
        /\ answer = <<q>> /\ q.type = "CONFIRM" /\ q.num = p.num /\ q.of = p.of
    BY <1>8 DEF Accepting
  <2> HIDE DEF p
  <2>3. log.refused = {} => Known(client, p.num)
    BY <2>1 DEF Kept, Waiting
  <2>4. \A j \in DOMAIN down : down[j].of # p.of
    BY <2>1 DEF Story1, Once, Fine, Asking
  <2>5. \A j \in DOMAIN d : \/ j \in DOMAIN down /\ d[j] = down[j]
                            \/ j = Len(down) + 1 /\ d[j] = q
    <3>1. d = Append(down, q)
      BY <1>1, <2>2 DEF d
    <3> QED
      BY <1>1, <3>1, AppendElements
  <2>6. \A j \in DOMAIN d : j = Len(down) + 1 /\ d[j] = q => First(d, j)
    BY <1>1, <1>3, <2>2, <2>4 DEF First
  <2>7. log.refused = {} => ConfirmsKnown(client, d)
    BY <1>5, <2>2, <2>3, <2>5, <2>6 DEF Kept, ConfirmsKnown
  <2>8. ~Happened(log) => log.refused = {}
    BY DEF Happened
  <2>9. ~Happened(log) => EntriesKnown(client, s)
    BY <2>2, <2>3, <2>8 DEF Kept, EntriesKnown
  <2>10. ~Happened(log) => ReachesKnown(client, d)
    BY <2>2, <2>3, <2>5, <2>8 DEF Kept, ReachesKnown
  <2> QED
    BY <1>4, <2>7, <2>9, <2>10 DEF Kept, d
<1> QED
  BY <1>6, <1>7, <1>8 DEF Arrives

LEMMA KeptOutcome ==
    ASSUME Core, Kept(client, server, up', down, log), NEW s,
           NEW d \in Seq(PacketSet), Kept(client, s, up', d, log), Outcome(s, d)
    PROVE  Kept(client, server', up', down', log')
<1>1. CASE Stops(s) /\ LogGrows
  <2>1. server'.channels = server.channels /\ down' = down /\ log' = log
    BY <1>1, CoreParts DEF Stops, Panics, Ends, ServerOK, IsSession
  <2> QED
    BY <2>1 DEF Kept, EntriesKnown
<1>2. CASE server' = s /\ down' = d /\ UNCHANGED log
  BY <1>2
<1>3. ASSUME LogGrows, NEW id \in DOMAIN s.channels, NEW p \in PacketSet,
             SameTable(server', s), down' = Append(d, p),
             p.type \in {"CLOSE", "EOF", "DATA", "REQUEST", "SUCCESS", "FAILURE"},
             p.num = s.channels[id].recipient_channel
      PROVE  Kept(client, server', up', down', log')
  <2>1. EntriesKnown(client, s) => EntriesKnown(client, server') /\ Known(client, p.num)
    BY <1>3 DEF EntriesKnown, SameTable
  <2>2. ~Happened(log') => EntriesKnown(client, s)
    BY <1>3 DEF Kept, LogGrows, Happened
  <2>3. p.type # "CONFIRM"
    BY <1>3
  <2> QED
    BY <1>3, <2>1, <2>2, <2>3, KeptSends DEF LogGrows
<1>4. ASSUME LogGrows, NEW p \in PacketSet, down' = Append(d, p), p.type # "CONFIRM",
             Happened(log')
      PROVE  Kept(client, server', up', down', log')
  BY <1>4, KeptSends DEF LogGrows
<1> QED
  BY <1>1, <1>2, <1>3, <1>4 DEF Outcome, Happened

LEMMA KeptCalled ==
    ASSUME Core, Story1, Kept(client, server, up, down, log),
           NEW s, NEW answer, Arrives(s, answer), Handler(s, answer)
    PROVE  Kept(client, server', up', down', log')
<1>1. Interim(s, answer)
  BY DEF Arrives
<1>2. /\ Outcome(s, down \o answer)
      /\ Kept(client, s, up', down \o answer, log)
      /\ down \o answer \in Seq(PacketSet)
  BY <1>1, OutcomeIs, KeptArrives, ConcatTyped
<1> DEFINE d == down \o answer
<1> HIDE DEF d
<1>3. /\ Outcome(s, d) /\ Kept(client, s, up', d, log) /\ d \in Seq(PacketSet)
  BY <1>2 DEF d
<1>4. Kept(client, server, up', down, log)
  <2>1. up' = up \/ (up # <<>> /\ up' = Tail(up))
    BY DEF Arrives, Stays, Read
  <2> QED
    BY <2>1, CoreParts, KeptTail
<1> QED
  BY <1>3, <1>4, KeptOutcome

LEMMA KeptAlone ==
    ASSUME Core, Kept(client, server, up, down, log), ServerAlone
    PROVE  Kept(client, server', up', down', log')
<1>1. up \in Seq(PacketSet) /\ down \in Seq(PacketSet)
  BY CoreParts
<1>2. CASE ServerOpenOther
  <2>1. PICK q \in PacketSet :
              /\ server'.channels = server.channels
              /\ q.type = "OPEN_FAILURE" /\ down' = down \o <<q>>
    BY <1>2, ServerOpenOtherIs
  <2>2. up # <<>> /\ up' = Tail(up) /\ UNCHANGED log
    BY <1>2 DEF ServerOpenOther, ServerReads
  <2>3. Kept(client, server, up', down, log)
    BY <1>1, <2>2, KeptTail
  <2>4. EntriesKnown(client, server) => EntriesKnown(client, server')
    BY <2>1 DEF EntriesKnown
  <2>5. down' = Append(down, q)
    BY <1>1, <2>1
  <2> QED
    BY <1>1, <2>1, <2>2, <2>3, <2>4, <2>5, KeptSends
<1>3. CASE \/ ServerIgnores \/ ServerHangup
           \/ ServerWindowAdjust /\ Head(up).num \notin DOMAIN server.channels
  <2>1. /\ up' = up \/ (up # <<>> /\ up' = Tail(up))
        /\ UNCHANGED <<down, log>>
    BY <1>3 DEF ServerIgnores, ServerHangup, ServerWindowAdjust, ServerReads
  <2>2. server'.channels = server.channels
    BY <1>3, CoreParts DEF ServerIgnores, ServerHangup, ServerWindowAdjust, Ends, ServerOK,
       IsSession
  <2>3. Kept(client, server, up', down, log)
    BY <1>1, <2>1, KeptTail
  <2> QED
    BY <2>1, <2>2, <2>3 DEF Kept, EntriesKnown
<1> QED
  BY <1>2, <1>3 DEF ServerAlone

(* The client's table keeps what it has. *)
LEMMA KeptClient ==
    ASSUME Core, Kept(client, server, up, down, log),
           DOMAIN client.channels \subseteq DOMAIN client'.channels,
           \A i \in DOMAIN up' : \/ i \in DOMAIN up /\ up'[i] = up[i]
                                 \/ up'[i].type \notin Asking
                                 \/ Known(client', up'[i].num),
           down' = down \/ (down # <<>> /\ down' = Tail(down)),
           server' = server, log'.asked = log.asked, log'.closed = log.closed,
           log'.refused = log.refused
    PROVE  Kept(client', server', up', down', log')
<1>1. up \in Seq(PacketSet) /\ down \in Seq(PacketSet)
  BY CoreParts
<1>2. Kept(client, server, up, down', log)
  BY <1>1, KeptTail
<1>3. Waiting(client, up) => Waiting(client', up')
  BY DEF Waiting, Known, Asking
<1>4. ConfirmsKnown(client, down') => ConfirmsKnown(client', down')
  BY DEF ConfirmsKnown, Known
<1>5. /\ EntriesKnown(client, server) => EntriesKnown(client', server')
      /\ ReachesKnown(client, down') => ReachesKnown(client', down')
  BY DEF EntriesKnown, ReachesKnown, Known
<1>6. Happened(log') <=> Happened(log)
  BY DEF Happened
<1> QED
  BY <1>2, <1>3, <1>4, <1>5, <1>6 DEF Kept

(* CHANNEL_CLOSE and CHANNEL_OPEN_FAILURE: nobody needs the entry any more, *)
(* unless the server's handler has closed or refused a channel.             *)
LEMMA KeptClosed ==
    ASSUME Core, Story1, Kept(client, server, up, down, log), ClientClosed
    PROVE  Kept(client', server', up', down', log')
<1> DEFINE p == Head(down)
<1>1. /\ down # <<>> /\ down' = Tail(down) /\ p.type \in {"CLOSE", "OPEN_FAILURE"}
      /\ client' = Forget(client, p.num)
      /\ UNCHANGED <<server, app, heard, up, left, log>>
  BY DEF ClientClosed, ClientReads
<1>2. /\ up \in Seq(PacketSet) /\ down \in Seq(PacketSet) /\ Len(down) \in Nat
      /\ ClientOK(client) /\ DOMAIN down = 1..Len(down)
  BY CoreParts
<1>3. /\ p = down[1] /\ 1 \in DOMAIN down
      /\ \A i \in DOMAIN down' : i + 1 \in DOMAIN down /\ down'[i] = down[i + 1] /\ 1 < i + 1
                                 /\ 1 \in 1..(i + 1) - 1
  BY <1>1, <1>2, TailElements
<1>4. DownGood(p, client, server, log) /\ Fine(p, server, app, up, log)
  BY <1>1, <1>3, HeadIs DEF Story1, Once
<1> HIDE DEF p
<1>5. DOMAIN client'.channels = DOMAIN client.channels \ {p.num}
  BY <1>1, <1>2, ForgottenClient
<1>6. Kept(client, server, up, down', log)
  BY <1>1, <1>2, KeptTail
<1>7. ASSUME log.refused = {}
      PROVE  /\ Owned(client, p.num, p.of)
             /\ Waiting(client', up') /\ ConfirmsKnown(client', down')
  <2>1. Owned(client, p.num, p.of)
    BY <1>1, <1>4, <1>7 DEF DownGood
  <2>2. ASSUME NEW i \in DOMAIN up, up[i].type = "OPEN" PROVE Known(client', up[i].num)
    <3>1. Known(client, up[i].num)
      BY <1>7, <2>2 DEF Kept, Waiting
    <3>2. Owned(client, up[i].num, up[i].of) /\ up[i].of # p.of
      BY <1>4, <2>2 DEF Core, UpGood, Fine, Asking
    <3>3. up[i].num # p.num
      BY <2>1, <3>1, <3>2 DEF Owned, Known
    <3> QED
      BY <1>5, <3>1, <3>3 DEF Known
  <2>3. ASSUME NEW j \in DOMAIN down', down'[j].type = "CONFIRM"
        PROVE  Known(client', down'[j].num)
    <3>1. /\ j + 1 \in DOMAIN down /\ down'[j] = down[j + 1] /\ 1 \in 1..(j + 1) - 1
      BY <1>3
    <3>2. Known(client, down[j + 1].num) /\ First(down, j + 1)
      BY <1>7, <2>3, <3>1 DEF Kept, ConfirmsKnown
    <3>3. Owned(client, down[j + 1].num, down[j + 1].of)
      BY <2>3, <3>1 DEF Core, DownGood
    <3>4. down[j + 1].of # p.of
      BY <1>3, <3>1, <3>2 DEF First
    <3>5. down[j + 1].num # p.num
      BY <2>1, <3>2, <3>3, <3>4 DEF Owned, Known
    <3> QED
      BY <1>5, <3>1, <3>2, <3>5 DEF Known
  <2>4. ConfirmsKnown(client', down')
    BY <1>6, <1>7, <2>3 DEF Kept, ConfirmsKnown
  <2> QED
    BY <1>1, <2>1, <2>2, <2>4 DEF Waiting
<1>8. ASSUME ~Happened(log)
      PROVE  EntriesKnown(client', server) /\ ReachesKnown(client', down')
  <2>1. log.refused = {} /\ log.closed = {} /\ log.asked = {}
    BY <1>8 DEF Happened
  <2>2. Owned(client, p.num, p.of) /\ p.of \notin server.served
    BY <1>1, <1>4, <1>7, <2>1 DEF Fine
  <2>3. ASSUME NEW id \in DOMAIN server.channels
        PROVE  Known(client', server.channels[id].recipient_channel)
    <3> DEFINE num == server.channels[id].recipient_channel
    <3>1. Known(client, num)
      BY <1>8 DEF Kept, EntriesKnown
    <3>2. Owned(client, num, server.channels[id].of)
      BY DEF Core, Entries
    <3>3. server.channels[id].of \in server.served
      BY <2>1 DEF Story1, Vouched
    <3>4. num # p.num
      BY <2>2, <3>1, <3>2, <3>3 DEF Owned, Known
    <3> QED
      BY <1>5, <3>1, <3>4 DEF Known
  <2>4. ASSUME NEW j \in DOMAIN down', down'[j].type # "OPEN_FAILURE"
        PROVE  Known(client', down'[j].num)
    <3>1. j + 1 \in DOMAIN down /\ down'[j] = down[j + 1]
      BY <1>3
    <3>2. Known(client, down[j + 1].num)
      BY <1>8, <2>4, <3>1 DEF Kept, ReachesKnown
    <3>3. Fine(down[j + 1], server, app, up, log) /\ DownGood(down[j + 1], client, server, log)
      BY <3>1 DEF Story1, Once, Core
    <3>4. down[j + 1].of \in server.served /\ Owned(client, down[j + 1].num, down[j + 1].of)
      BY <2>1, <2>4, <3>1, <3>3 DEF Fine, DownGood
    <3>5. down[j + 1].num # p.num
      BY <2>2, <3>2, <3>4 DEF Owned, Known
    <3> QED
      BY <1>5, <3>1, <3>2, <3>5 DEF Known
  <2> QED
    BY <2>3, <2>4 DEF EntriesKnown, ReachesKnown
<1>9. log' = log /\ server' = server
  BY <1>1
<1> QED
  BY <1>7, <1>8, <1>9 DEF Kept

(* The client's other steps: the table only grows, and what ends the        *)
(* session.                                                                 *)
LEMMA ClientTableGrows ==
    ASSUME Core, ClientMoves, ~ClientClosed
    PROVE  /\ DOMAIN client.channels \subseteq DOMAIN client'.channels
           /\ \/ client'.fate = client.fate
              \/ client'.fate \in {"over", "panic"}
              \/ /\ client'.fate = "Inconsistent" /\ down # <<>>
                 /\ Head(down).type = "CONFIRM" /\ ~Known(client, Head(down).num)
              \/ /\ client'.fate = "WrongChannel" /\ down # <<>>
                 /\ Head(down).type = "WINDOW_ADJUST" /\ ~Known(client, Head(down).num)
<1>1. \A why \in Fates : client' = Ends(client, why)
          => client'.channels = client.channels /\ client'.fate = why
  BY ClientEnds
<1>2. CASE \/ \E ch \in Calls : Returned(ch)
           \/ ClientTold \/ ClientData \/ ClientIgnores \/ ClientForwardIgnored
  BY <1>2 DEF Returned, CallReturnsChannel, CallFails, ClientTold, ClientData, ClientIgnores,
     ClientForwardIgnored
<1>3. ASSUME NEW ch \in Channels, NEW type \in UseTypes, ClientUse(ch, type)
      PROVE  client'.channels = client.channels
             /\ (client'.fate = client.fate \/ client'.fate = "panic")
  <2>1. client' = Ends(client, "panic") \/ client' = client
    BY <1>3, ClientUseIs DEF UsesEntry
  <2> QED
    BY <1>1, <2>1 DEF Fates
<1>4. CASE ClientConfirmation
  <2>1. down # <<>> /\ Head(down).type = "CONFIRM"
    BY <1>4 DEF ClientConfirmation, ClientReads
  <2>2. CASE Head(down).num \in DOMAIN client.channels
    BY <1>4, <2>2, ClientConfirmationIs DEF ConfirmedAs
  <2>3. CASE Head(down).num \notin DOMAIN client.channels
    <3>1. client' = Ends(client, "Inconsistent")
      BY <1>4, <2>3 DEF ClientConfirmation
    <3> QED
      BY <1>1, <2>1, <2>3, <3>1 DEF Fates, Known
  <2> QED
    BY <2>2, <2>3
<1>5. CASE ClientWindowAdjust
  <2>1. down # <<>> /\ Head(down).type = "WINDOW_ADJUST"
    BY <1>5 DEF ClientWindowAdjust, ClientReads
  <2>2. CASE Head(down).num \in DOMAIN client.channels
    BY <1>5, <2>2 DEF ClientWindowAdjust
  <2>3. CASE Head(down).num \notin DOMAIN client.channels
    <3>1. client' = Ends(client, "WrongChannel")
      BY <1>5, <2>3 DEF ClientWindowAdjust
    <3> QED
      BY <1>1, <2>1, <2>3, <3>1 DEF Fates, Known
  <2> QED
    BY <2>2, <2>3
<1>6. CASE ClientForwardAccepted
  <2>1. PICK id \in 2..IdLimit, q \in PacketSet : AcceptedAs(id, Head(down), q)
    BY <1>6, ClientForwardAcceptedIs
  <2> QED
    BY <2>1 DEF AcceptedAs
<1>7. CASE ClientHangup
  BY <1>1, <1>7 DEF ClientHangup, Fates
<1> QED
  BY <1>2, <1>3, <1>4, <1>5, <1>6, <1>7 DEF ClientMoves

LEMMA KeptMoves ==
    ASSUME Core, Story1, Kept(client, server, up, down, log), Causes(client, log), ClientMoves
    PROVE  Kept(client', server', up', down', log') /\ Causes(client', log')
<1>1. CASE ClientClosed
  <2>1. client'.fate = client.fate /\ UNCHANGED log
    BY <1>1, CoreParts, ForgottenClient DEF ClientClosed
  <2> QED
    BY <1>1, <2>1, KeptClosed DEF Causes
<1>2. CASE ~ClientClosed
  <2>1. /\ server' = server
        /\ \A i \in DOMAIN up' :
                 \/ i \in DOMAIN up /\ up'[i] = up[i]
                 \/ up'[i].type \notin Asking
        /\ down' = down \/ (down # <<>> /\ down' = Tail(down))
        /\ log'.asked = log.asked /\ log'.closed = log.closed /\ log'.refused = log.refused
    BY ClientWritesIs DEF ClientMoves
  <2>2. /\ DOMAIN client.channels \subseteq DOMAIN client'.channels
        /\ \/ client'.fate = client.fate
           \/ client'.fate \in {"over", "panic"}
           \/ /\ client'.fate = "Inconsistent" /\ down # <<>>
              /\ Head(down).type = "CONFIRM" /\ ~Known(client, Head(down).num)
           \/ /\ client'.fate = "WrongChannel" /\ down # <<>>
              /\ Head(down).type = "WINDOW_ADJUST" /\ ~Known(client, Head(down).num)
    BY <1>2, ClientTableGrows
  <2>3. Kept(client', server', up', down', log')
    BY <2>1, <2>2, KeptClient
  <2>4. down # <<>> => Head(down) = down[1] /\ 1 \in DOMAIN down
    BY HeadIs
  <2>5. down # <<>> /\ Head(down).type = "CONFIRM" /\ ~Known(client, Head(down).num)
            => log.refused # {}
    BY <2>4 DEF Kept, ConfirmsKnown
  <2>6. down # <<>> /\ Head(down).type = "WINDOW_ADJUST" /\ ~Known(client, Head(down).num)
            => Happened(log)
    BY <2>4 DEF Kept, ReachesKnown
  <2>7. Causes(client', log')
    BY <2>1, <2>2, <2>5, <2>6 DEF Causes, Happened
  <2> QED
    BY <2>3, <2>7
<1> QED
  BY <1>1, <1>2

LEMMA KeptAsked ==
    ASSUME Core, Kept(client, server, up, down, log), Causes(client, log),
           NEW ch \in Calls, NEW type \in Types, CallOpen(ch, type)
    PROVE  Kept(client', server', up', down', log') /\ Causes(client', log')
<1>1. PICK id \in 2..IdLimit, p \in PacketSet :
              /\ client'.fate = client.fate
              /\ DOMAIN client'.channels = DOMAIN client.channels \cup {id}
              /\ p.num = id /\ up' = Append(up, p)
  BY CallOpenIs
<1>2. UNCHANGED <<server, down, log>> /\ up \in Seq(PacketSet)
  BY CoreParts DEF CallOpen
<1> DEFINE u == Append(up, p)
<1>3. \A i \in DOMAIN u : (i \in DOMAIN up /\ u[i] = up[i]) \/ u[i] = p
  BY <1>2, AppendElements
<1> HIDE DEF u
<1>4. up' = u
  BY <1>1 DEF u
<1>5. Known(client', p.num)
  BY <1>1 DEF Known
<1>6. Kept(client', server', up', down', log')
  BY <1>1, <1>2, <1>3, <1>4, <1>5, KeptClient
<1> QED
  BY <1>1, <1>2, <1>6 DEF Causes

Story2 == Story1 /\ Kept(client, server, up, down, log) /\ Causes(client, log)

LEMMA Story2Step == Core /\ Story2 /\ [Next]_vars => Story2'
<1> SUFFICES ASSUME Core, Story1, Kept(client, server, up, down, log), Causes(client, log),
                    [Next]_vars
             PROVE  Story2'
  BY DEF Story2
<1>1. Story1'
  BY Story1Step
<1>2. Kept(client', server', up', down', log') /\ Causes(client', log')
  <2>1. ASSUME NEW ch \in Calls, NEW type \in Types, CallOpen(ch, type)
        PROVE  Kept(client', server', up', down', log') /\ Causes(client', log')
    BY <2>1, KeptAsked
  <2>2. CASE ClientMoves
    BY <2>2, KeptMoves
  <2>3. ASSUME client' = client, LogGrows PROVE Causes(client', log')
    BY <2>3 DEF Causes, Happened, LogGrows
  <2>4. CASE Called
    <3>1. UNCHANGED client
      BY <2>4, CalledIs
    <3>2. PICK s, answer : Arrives(s, answer) /\ Handler(s, answer)
      BY <2>4, CalledIs
    <3>3. LogGrows
      BY <3>2, OutcomeIs DEF Arrives, Outcome
    <3>4. Kept(client, server', up', down', log')
      BY <3>2, KeptCalled
    <3> QED
      BY <2>3, <3>1, <3>3, <3>4
  <2>5. CASE ServerAlone
    <3>1. UNCHANGED <<client, log>>
      BY <2>5 DEF ServerAlone, ServerOpenOther, ServerIgnores, ServerHangup,
         ServerWindowAdjust, ServerReads
    <3>2. Kept(client, server', up', down', log')
      BY <2>5, KeptAlone
    <3> QED
      BY <3>1, <3>2
  <2>6. CASE UNCHANGED vars
    BY <2>6 DEF vars
  <2> QED
    BY <2>1, <2>2, <2>4, <2>5, <2>6, StepKinds
<1> QED
  BY <1>1, <1>2 DEF Story2, Kept, Causes, Waiting, ConfirmsKnown, EntriesKnown, ReachesKnown,
     Happened, Known, First

-----------------------------------------------------------------------------
(* What the server's table misses, and why.                                 *)

Unconfirmed(c, num) == Known(c, num) /\ ~c.channels[num].confirmed

Confirming(d, num, n) == \E j \in 1..n : d[j].type = "CONFIRM" /\ d[j].num = num

(* Nothing about a channel overtakes its confirmation. *)
DataHeralded(c, d) ==
    \A i \in DOMAIN d :
       d[i].type = "DATA" /\ Unconfirmed(c, d[i].num) => Confirming(d, d[i].num, i - 1)

EntriesHeralded(c, s, d) ==
    \A id \in DOMAIN s.channels :
       Unconfirmed(c, s.channels[id].recipient_channel)
           => Confirming(d, s.channels[id].recipient_channel, Len(d))

Heralded(c, s, d) == DataHeralded(c, d) /\ EntriesHeralded(c, s, d)

LEMMA HeraldedInit == Init => Heralded(client, server, down)
<1> SUFFICES ASSUME Init PROVE Heralded(client, server, down)
  OBVIOUS
<1>1. server.channels = NoEntries /\ DOMAIN NoEntries = {} /\ DOMAIN down = {}
  BY DEF Init, NoEntries
<1> QED
  BY <1>1 DEF Heralded, DataHeralded, EntriesHeralded

LEMMA ConfirmingGrows ==
    ASSUME NEW d \in Seq(PacketSet), NEW e \in Seq(PacketSet),
           \A j \in DOMAIN d : e[j] = d[j], NEW num, NEW n \in Nat, NEW m \in Nat,
           n <= Len(d), n <= m, Confirming(d, num, n)
    PROVE  Confirming(e, num, m)
<1>1. PICK j \in 1..n : d[j].type = "CONFIRM" /\ d[j].num = num
  BY DEF Confirming
<1>2. j \in 1..m /\ e[j] = d[j]
  <2>1. j \in 1..Len(d) /\ j \in 1..m
    OBVIOUS
  <2>2. DOMAIN d = 1..Len(d)
    OBVIOUS
  <2> QED
    BY <2>1, <2>2
<1> QED
  BY <1>1, <1>2 DEF Confirming

(* The server sends one more packet. *)
LEMMA HeraldedSends ==
    ASSUME NEW c, NEW s, NEW d \in Seq(PacketSet), Heralded(c, s, d), NEW t,
           NEW p \in PacketSet,
           p.type = "DATA" /\ Unconfirmed(c, p.num) => Confirming(d, p.num, Len(d)),
           \A id \in DOMAIN t.channels :
              \/ /\ id \in DOMAIN s.channels
                 /\ t.channels[id].recipient_channel = s.channels[id].recipient_channel
              \/ ~Unconfirmed(c, t.channels[id].recipient_channel)
              \/ p.type = "CONFIRM" /\ p.num = t.channels[id].recipient_channel
    PROVE  Heralded(c, t, Append(d, p))
<1> DEFINE e == Append(d, p)
<1>1. /\ DOMAIN d = 1..Len(d) /\ Len(d) \in Nat /\ e \in Seq(PacketSet)
      /\ Len(e) = Len(d) + 1 /\ DOMAIN e = 1..(Len(d) + 1)
      /\ \A j \in DOMAIN e : \/ j \in DOMAIN d /\ e[j] = d[j]
                             \/ j = Len(d) + 1 /\ e[j] = p
      /\ \A j \in DOMAIN d : e[j] = d[j]
      /\ e[Len(d) + 1] = p
  BY AppendElements
<1> HIDE DEF e
<1>2. \A num, n, m : n \in Nat /\ m \in Nat /\ n <= Len(d) /\ n <= m /\ Confirming(d, num, n)
          => Confirming(e, num, m)
  BY <1>1, ConfirmingGrows
<1>3. DataHeralded(c, e)
  <2> SUFFICES ASSUME NEW i \in DOMAIN e, e[i].type = "DATA", Unconfirmed(c, e[i].num)
               PROVE  Confirming(e, e[i].num, i - 1)
    BY DEF DataHeralded
  <2>1. CASE i \in DOMAIN d /\ e[i] = d[i]
    <3>1. Confirming(d, e[i].num, i - 1)
      BY <2>1 DEF Heralded, DataHeralded
    <3>2. i - 1 \in Nat /\ i - 1 <= Len(d) /\ i - 1 <= i - 1
      BY <1>1, <2>1
    <3> QED
      BY <1>2, <3>1, <3>2
  <2>2. CASE i = Len(d) + 1 /\ e[i] = p
    <3>1. Confirming(d, e[i].num, Len(d)) /\ i - 1 = Len(d) /\ Len(d) <= Len(d)
      BY <1>1, <2>2
    <3> QED
      BY <1>1, <1>2, <3>1
  <2> QED
    BY <1>1, <2>1, <2>2
<1>4. EntriesHeralded(c, t, e)
  <2> SUFFICES ASSUME NEW id \in DOMAIN t.channels,
                      Unconfirmed(c, t.channels[id].recipient_channel)
               PROVE  Confirming(e, t.channels[id].recipient_channel, Len(e))
    BY DEF EntriesHeralded
  <2> DEFINE num == t.channels[id].recipient_channel
  <2>1. CASE id \in DOMAIN s.channels /\ num = s.channels[id].recipient_channel
    <3>1. Confirming(d, num, Len(d))
      BY <2>1 DEF Heralded, EntriesHeralded
    <3>2. Len(d) <= Len(d) /\ Len(d) <= Len(e) /\ Len(e) \in Nat
      BY <1>1
    <3> HIDE DEF num
    <3>3. Confirming(e, num, Len(e))
      BY <1>1, <1>2, <3>1, <3>2
    <3> QED
      BY <3>3 DEF num
  <2>2. CASE p.type = "CONFIRM" /\ p.num = num
    <3>1. Len(d) + 1 \in 1..Len(e)
      BY <1>1
    <3> QED
      BY <1>1, <2>2, <3>1 DEF Confirming
  <2> QED
    BY <2>1, <2>2
<1> QED
  BY <1>3, <1>4 DEF Heralded, e

LEMMA HeraldedArrives ==
    ASSUME Core, Heralded(client, server, down), NEW s, NEW answer, Arrives(s, answer)
    PROVE  Heralded(client, s, down \o answer)
<1>1. /\ down \in Seq(PacketSet) /\ answer \in Seq(PacketSet)
      /\ Len(down) \in Nat /\ DOMAIN down = 1..Len(down)
  BY CoreParts DEF Arrives, Interim
<1>2. CASE Stays(s, answer)
  <2> DEFINE d == down \o answer
  <2>1. /\ \A j \in DOMAIN d : \/ j \in DOMAIN down /\ d[j] = down[j]
                               \/ /\ j - Len(down) \in DOMAIN answer
                                  /\ d[j] = answer[j - Len(down)]
        /\ \A j \in DOMAIN down : d[j] = down[j]
        /\ d \in Seq(PacketSet) /\ Len(d) \in Nat /\ Len(down) <= Len(d)
    BY <1>1, ConcatElements
  <2> HIDE DEF d
  <2>2. \A num, n, m : n \in Nat /\ m \in Nat /\ n <= Len(down) /\ n <= m
                       /\ Confirming(down, num, n) => Confirming(d, num, m)
    BY <1>1, <2>1, ConfirmingGrows
  <2>3. DataHeralded(client, d)
    <3> SUFFICES ASSUME NEW i \in DOMAIN d, d[i].type = "DATA", Unconfirmed(client, d[i].num)
                 PROVE  Confirming(d, d[i].num, i - 1)
      BY DEF DataHeralded
    <3>1. i \in DOMAIN down /\ d[i] = down[i]
      BY <1>2, <2>1 DEF Stays
    <3>2. Confirming(down, d[i].num, i - 1)
      BY <3>1 DEF Heralded, DataHeralded
    <3>3. i - 1 \in Nat /\ i - 1 <= Len(down) /\ i - 1 <= i - 1
      BY <1>1, <3>1
    <3> QED
      BY <2>2, <3>2, <3>3
  <2>4. EntriesHeralded(client, s, d)
    <3> SUFFICES ASSUME NEW id \in DOMAIN s.channels,
                        Unconfirmed(client, s.channels[id].recipient_channel)
                 PROVE  Confirming(d, s.channels[id].recipient_channel, Len(d))
      BY DEF EntriesHeralded
    <3>1. /\ id \in DOMAIN server.channels
          /\ s.channels[id].recipient_channel = server.channels[id].recipient_channel
      BY <1>2 DEF Stays, SameTable
    <3>2. Confirming(down, s.channels[id].recipient_channel, Len(down))
      BY <3>1 DEF Heralded, EntriesHeralded
    <3> QED
      BY <1>1, <2>1, <2>2, <3>2
  <2> QED
    BY <2>3, <2>4 DEF Heralded, d
<1>3. CASE ClosedBy(s, Head(up)) /\ answer = <<>>
  <2>1. down \o answer = down
    BY <1>1, <1>3
  <2> QED
    BY <1>3, <2>1 DEF Heralded, EntriesHeralded, ClosedBy
<1>4. ASSUME NEW id \in 2..IdLimit, NEW q \in PacketSet,
             Accepting(s, answer, id, Head(up), q)
      PROVE  Heralded(client, s, down \o answer)
  <2>1. /\ DOMAIN s.channels = DOMAIN server.channels \cup {id}
        /\ \A n \in DOMAIN server.channels : s.channels[n] = server.channels[n]
        /\ s.channels[id].recipient_channel = Head(up).num
        /\ answer = <<q>> /\ q.type = "CONFIRM" /\ q.num = Head(up).num
    BY <1>4 DEF Accepting
  <2>2. down \o answer = Append(down, q)
    BY <1>1, <2>1
  <2>3. \A n \in DOMAIN s.channels :
           \/ /\ n \in DOMAIN server.channels
              /\ s.channels[n].recipient_channel = server.channels[n].recipient_channel
           \/ q.type = "CONFIRM" /\ q.num = s.channels[n].recipient_channel
    BY <2>1
  <2>4. q.type # "DATA"
    BY <2>1
  <2>5. Heralded(client, s, Append(down, q))
    BY <1>1, <2>3, <2>4, HeraldedSends
  <2> QED
    BY <2>2, <2>5
<1> QED
  BY <1>2, <1>3, <1>4 DEF Arrives

LEMMA HeraldedOutcome ==
    ASSUME Core, Heralded(client, server, down), NEW s,
           NEW d \in Seq(PacketSet), Heralded(client, s, d), Outcome(s, d)
    PROVE  Heralded(client, server', down')
<1>1. CASE Stops(s)
  <2>1. server'.channels = server.channels /\ down' = down
    BY <1>1, CoreParts DEF Stops, Panics, Ends, ServerOK, IsSession
  <2> QED
    BY <2>1 DEF Heralded, EntriesHeralded
<1>2. CASE server' = s /\ down' = d
  BY <1>2
<1>3. ASSUME NEW id \in DOMAIN s.channels, NEW p \in PacketSet,
             SameTable(server', s), down' = Append(d, p),
             p.num = s.channels[id].recipient_channel
      PROVE  Heralded(client, server', down')
  <2>1. Unconfirmed(client, p.num) => Confirming(d, p.num, Len(d))
    BY <1>3 DEF Heralded, EntriesHeralded
  <2>2. \A n \in DOMAIN server'.channels :
           /\ n \in DOMAIN s.channels
           /\ server'.channels[n].recipient_channel = s.channels[n].recipient_channel
    BY <1>3 DEF SameTable
  <2> QED
    BY <1>3, <2>1, <2>2, HeraldedSends
<1>4. ASSUME NEW p \in PacketSet, server' = s, down' = Append(d, p), p.type = "OPEN_FAILURE"
      PROVE  Heralded(client, server', down')
  BY <1>4, HeraldedSends
<1>5. ASSUME NEW id \in 2..IdLimit, NEW p \in PacketSet,
             DOMAIN server'.channels = DOMAIN s.channels \cup {id},
             \A n \in DOMAIN s.channels : server'.channels[n] = s.channels[n],
             server'.channels[id].recipient_channel = 0,
             down' = Append(d, p), p.type = "OPEN"
      PROVE  Heralded(client, server', down')
  <2>1. ~Unconfirmed(client, 0)
    BY CoreParts DEF ClientOK, IsSession, IsTable, Unconfirmed, Known
  <2>2. \A n \in DOMAIN server'.channels :
           \/ /\ n \in DOMAIN s.channels
              /\ server'.channels[n].recipient_channel = s.channels[n].recipient_channel
           \/ ~Unconfirmed(client, server'.channels[n].recipient_channel)
    BY <1>5, <2>1
  <2> QED
    BY <1>5, <2>2, HeraldedSends
<1> QED
  BY <1>1, <1>2, <1>3, <1>4, <1>5 DEF Outcome

LEMMA HeraldedAlone ==
    ASSUME Core, Heralded(client, server, down), ServerAlone
    PROVE  Heralded(client, server', down')
<1>1. down \in Seq(PacketSet)
  BY CoreParts
<1>2. CASE ServerOpenOther
  <2>1. PICK q \in PacketSet :
              /\ server'.channels = server.channels
              /\ q.type = "OPEN_FAILURE" /\ down' = down \o <<q>>
    BY <1>2, ServerOpenOtherIs
  <2>2. down' = Append(down, q)
    BY <1>1, <2>1
  <2> QED
    BY <1>1, <2>1, <2>2, HeraldedSends
<1>3. CASE \/ ServerIgnores \/ ServerHangup
           \/ ServerWindowAdjust /\ Head(up).num \notin DOMAIN server.channels
  <2>1. server'.channels = server.channels /\ down' = down
    BY <1>3, CoreParts DEF ServerIgnores, ServerHangup, ServerWindowAdjust, Ends, ServerOK,
       IsSession
  <2> QED
    BY <2>1 DEF Heralded, EntriesHeralded
<1> QED
  BY <1>2, <1>3 DEF ServerAlone

(* A step of the client: a confirmation is only taken off by confirming. *)
LEMMA HeraldedClient ==
    ASSUME Core, Heralded(client, server, down), server' = server,
           \A num : num <= client.last_channel_id /\ Unconfirmed(client', num)
                        => Unconfirmed(client, num),
           \/ down' = down
           \/ /\ down # <<>> /\ down' = Tail(down)
              /\ Head(down).type = "CONFIRM" => ~Unconfirmed(client', Head(down).num)
    PROVE  Heralded(client', server', down')
<1>1. down \in Seq(PacketSet) /\ Len(down) \in Nat /\ DOMAIN down = 1..Len(down)
  BY CoreParts
<1>2. /\ \A i \in DOMAIN down : down[i].type = "DATA" => down[i].num <= client.last_channel_id
      /\ \A id \in DOMAIN server.channels :
            server.channels[id].recipient_channel <= client.last_channel_id
  BY DEF Core, DownGood, Entries, Owned
<1>3. DataHeralded(client', down) /\ EntriesHeralded(client', server, down)
  BY <1>2 DEF Heralded, DataHeralded, EntriesHeralded
<1>4. CASE down' = down
  BY <1>3, <1>4 DEF Heralded
<1>5. CASE /\ down # <<>> /\ down' = Tail(down)
           /\ Head(down).type = "CONFIRM" => ~Unconfirmed(client', Head(down).num)
  <2>1. /\ Head(down) = down[1] /\ Len(down') = Len(down) - 1 /\ Len(down') \in Nat
        /\ \A i \in DOMAIN down' : i + 1 \in DOMAIN down /\ down'[i] = down[i + 1]
        /\ DOMAIN down' = 1..(Len(down) - 1)
    <3> DEFINE r == Tail(down)
    <3>1. /\ Head(down) = down[1] /\ r \in Seq(PacketSet) /\ Len(r) = Len(down) - 1
          /\ \A i \in DOMAIN r : i + 1 \in DOMAIN down /\ r[i] = down[i + 1]
      BY <1>1, <1>5, TailElements
    <3> HIDE DEF r
    <3>2. Len(r) \in Nat /\ DOMAIN r = 1..Len(r)
      BY <3>1
    <3> QED
      BY <1>5, <3>1, <3>2 DEF r
  <2>2. ASSUME NEW num, NEW n \in Nat, n <= Len(down'), Unconfirmed(client', num),
               Confirming(down, num, n + 1)
        PROVE  Confirming(down', num, n)
    <3>1. PICK j \in 1..(n + 1) : down[j].type = "CONFIRM" /\ down[j].num = num
      BY <2>2 DEF Confirming
    <3>2. j # 1
      BY <1>5, <2>1, <2>2, <3>1
    <3>3. j - 1 \in 1..n /\ j - 1 \in DOMAIN down' /\ (j - 1) + 1 = j
      BY <2>1, <2>2, <3>1, <3>2
    <3>4. down'[j - 1] = down[j]
      BY <2>1, <3>3
    <3> QED
      BY <3>1, <3>3, <3>4 DEF Confirming
  <2>3. DataHeralded(client', down')
    <3> SUFFICES ASSUME NEW i \in DOMAIN down', down'[i].type = "DATA",
                        Unconfirmed(client', down'[i].num)
                 PROVE  Confirming(down', down'[i].num, i - 1)
      BY DEF DataHeralded
    <3>1. i + 1 \in DOMAIN down /\ down'[i] = down[i + 1]
      BY <2>1
    <3>2. Confirming(down, down'[i].num, (i + 1) - 1)
      BY <1>3, <3>1 DEF DataHeralded
    <3>3. i - 1 \in Nat /\ i - 1 <= Len(down') /\ (i + 1) - 1 = (i - 1) + 1
      BY <1>1, <2>1
    <3>4. Confirming(down, down'[i].num, (i - 1) + 1)
      BY <3>2, <3>3
    <3> QED
      BY <2>2, <3>3, <3>4
  <2>4. EntriesHeralded(client', server, down')
    <3> SUFFICES ASSUME NEW id \in DOMAIN server.channels,
                        Unconfirmed(client', server.channels[id].recipient_channel)
                 PROVE  Confirming(down', server.channels[id].recipient_channel, Len(down'))
      BY DEF EntriesHeralded
    <3>1. Confirming(down, server.channels[id].recipient_channel, Len(down))
      BY <1>3 DEF EntriesHeralded
    <3>2. Len(down) = Len(down') + 1 /\ Len(down') <= Len(down')
      BY <1>1, <2>1
    <3>3. Confirming(down, server.channels[id].recipient_channel, Len(down') + 1)
      BY <3>1, <3>2
    <3> QED
      BY <2>1, <2>2, <3>2, <3>3
  <2> QED
    BY <2>3, <2>4 DEF Heralded
<1> QED
  BY <1>4, <1>5

(* While the client closes nothing, the server keeps every number that is   *)
(* still in use.                                                            *)
UpStayed(s, u) ==
    \A i \in DOMAIN u : /\ u[i].type # "CLOSE"
                        /\ u[i].type = "WINDOW_ADJUST" => Known(s, u[i].num)

EndsStayed(c, s) ==
    \A id \in DOMAIN c.channels :
       c.channels[id].confirmed => Known(s, c.channels[id].recipient_channel)

Stayed1(s, p) == /\ p.type = "CONFIRM" => Known(s, p.from)
                 /\ p.type = "OPEN" => Known(s, p.num)

DownStayed(s, d) == \A i \in DOMAIN d : Stayed1(s, d[i])

Stayed(c, s, u, d) ==
    /\ s.fate # "WrongChannel"
    /\ UpStayed(s, u) /\ EndsStayed(c, s) /\ DownStayed(s, d)

LEMMA StayedInit == Init => Stayed(client, server, up, down)
<1> SUFFICES ASSUME Init PROVE Stayed(client, server, up, down)
  OBVIOUS
<1>1. /\ client.channels = NoEntries /\ DOMAIN NoEntries = {} /\ DOMAIN down = {}
      /\ DOMAIN up = {} /\ server.fate = "running"
  BY DEF Init, NoEntries
<1> QED
  BY <1>1 DEF Stayed, UpStayed, EndsStayed, DownStayed

LEMMA StayedServer ==
    ASSUME NEW c, NEW s, NEW t, NEW u \in Seq(PacketSet), NEW d \in Seq(PacketSet),
           Stayed(c, s, u, d), DOMAIN s.channels \subseteq DOMAIN t.channels,
           t.fate # "WrongChannel", NEW v, v = u \/ (u # <<>> /\ v = Tail(u)),
           NEW q \in Seq(PacketSet), \A i \in DOMAIN q : Stayed1(t, q[i])
    PROVE  Stayed(c, t, v, d \o q)
<1>1. \A i \in DOMAIN v : \E j \in DOMAIN u : v[i] = u[j]
  BY Consumed
<1>2. UpStayed(t, v)
  BY <1>1 DEF Stayed, UpStayed, Known
<1>3. EndsStayed(c, t)
  BY DEF Stayed, EndsStayed, Known
<1>4. \A i \in DOMAIN (d \o q) : Among((d \o q)[i], d) \/ Among((d \o q)[i], q)
  BY Sent
<1>5. \A i \in DOMAIN d : Stayed1(t, d[i])
  BY DEF Stayed, DownStayed, Stayed1, Known
<1>6. DownStayed(t, d \o q)
  BY <1>4, <1>5 DEF DownStayed, Among
<1> QED
  BY <1>2, <1>3, <1>6 DEF Stayed

LEMMA StayedSends ==
    ASSUME NEW c, NEW s, NEW u, NEW d \in Seq(PacketSet),
           Stayed(c, s, u, d), NEW t, DOMAIN s.channels \subseteq DOMAIN t.channels,
           t.fate # "WrongChannel", NEW p \in PacketSet, Stayed1(t, p)
    PROVE  Stayed(c, t, u, Append(d, p))
<1>1. \A j \in DOMAIN Append(d, p) :
          (j \in DOMAIN d /\ Append(d, p)[j] = d[j]) \/ Append(d, p)[j] = p
  BY AppendElements
<1>2. UpStayed(t, u) /\ EndsStayed(c, t)
  BY DEF Stayed, UpStayed, EndsStayed, Known
<1>3. \A i \in DOMAIN d : Stayed1(t, d[i])
  BY DEF Stayed, DownStayed, Stayed1, Known
<1> QED
  BY <1>1, <1>2, <1>3 DEF Stayed, DownStayed

LEMMA StayedCalled ==
    ASSUME Core, Stayed(client, server, up, down),
           NEW s, NEW answer, Arrives(s, answer), Handler(s, answer), client' = client
    PROVE  Stayed(client', server', up', down')
<1>1. /\ up \in Seq(PacketSet) /\ down \in Seq(PacketSet) /\ answer \in Seq(PacketSet)
      /\ Interim(s, answer)
  BY CoreParts DEF Arrives, Interim
<1>2. up' = up \/ (up # <<>> /\ up' = Tail(up))
  BY DEF Arrives, Stays, Read
<1>3. Stayed(client, s, up', down \o answer)
  <2>1. CASE Stays(s, answer)
    <3>1. \A i \in DOMAIN answer : Stayed1(s, answer[i])
      BY <2>1 DEF Stays, Stayed1
    <3>2. DOMAIN server.channels \subseteq DOMAIN s.channels /\ s.fate # "WrongChannel"
      BY <2>1 DEF Stays, SameTable, Stayed
    <3> QED
      BY <1>1, <1>2, <3>1, <3>2, StayedServer
  <2>2. CASE Read /\ ClosedBy(s, Head(up))
    <3>1. Head(up) = up[1] /\ 1 \in DOMAIN up
      BY <1>1, <2>2, TailElements DEF Read
    <3>2. Head(up).type # "CLOSE"
      BY <3>1 DEF Stayed, UpStayed
    <3> QED
      BY <2>2, <3>2 DEF ClosedBy
  <2>3. ASSUME NEW id \in 2..IdLimit, NEW q \in PacketSet,
               Accepting(s, answer, id, Head(up), q)
        PROVE  Stayed(client, s, up', down \o answer)
    <3>1. /\ DOMAIN s.channels = DOMAIN server.channels \cup {id} /\ s.fate = server.fate
          /\ answer = <<q>> /\ q.type = "CONFIRM" /\ q.from = id
      BY <2>3 DEF Accepting
    <3>2. Stayed1(s, q)
      BY <3>1 DEF Stayed1, Known
    <3>3. \A i \in DOMAIN answer : Stayed1(s, answer[i])
      BY <3>1, <3>2
    <3>4. DOMAIN server.channels \subseteq DOMAIN s.channels /\ s.fate # "WrongChannel"
      BY <3>1 DEF Stayed
    <3> QED
      BY <1>1, <1>2, <3>3, <3>4, StayedServer
  <2> QED
    BY <2>1, <2>2, <2>3 DEF Arrives
<1> DEFINE d == down \o answer
<1>4. d \in Seq(PacketSet) /\ Outcome(s, d) /\ Stayed(client, s, up', d)
  BY <1>1, <1>3, ConcatTyped, OutcomeIs
<1> HIDE DEF d
<1>5. CASE Stops(s)
  <2>1. /\ server'.channels = server.channels /\ server'.fate = "panic" /\ down' = down
    BY <1>5, CoreParts DEF Stops, Panics, Ends, ServerOK, IsSession
  <2> DEFINE q == <<>>
  <2>2. down' = down \o q /\ q \in Seq(PacketSet) /\ DOMAIN q = {}
    BY <1>1, <2>1
  <2> HIDE DEF q
  <2>3. \A i \in DOMAIN q : Stayed1(server', q[i])
    BY <2>2
  <2> QED
    BY <1>1, <1>2, <2>1, <2>2, <2>3, StayedServer
<1>6. CASE server' = s /\ down' = d
  BY <1>4, <1>6
<1>7. ASSUME NEW p \in PacketSet, SameTable(server', s), down' = Append(d, p),
             p.type \in {"CLOSE", "EOF", "DATA", "REQUEST", "SUCCESS", "FAILURE",
                         "OPEN_FAILURE"}
      PROVE  Stayed(client', server', up', down')
  <2>1. DOMAIN s.channels \subseteq DOMAIN server'.channels /\ server'.fate # "WrongChannel"
    BY <1>4, <1>7 DEF SameTable, Stayed
  <2>2. Stayed1(server', p)
    BY <1>7 DEF Stayed1
  <2> QED
    BY <1>4, <1>7, <2>1, <2>2, StayedSends
<1>8. ASSUME NEW id \in 2..IdLimit, NEW p \in PacketSet, server'.fate = s.fate,
             DOMAIN server'.channels = DOMAIN s.channels \cup {id},
             down' = Append(d, p), p.type = "OPEN", p.num = id
      PROVE  Stayed(client', server', up', down')
  <2>1. DOMAIN s.channels \subseteq DOMAIN server'.channels /\ server'.fate # "WrongChannel"
    BY <1>4, <1>8 DEF Stayed
  <2>2. Stayed1(server', p)
    BY <1>8 DEF Stayed1, Known
  <2> QED
    BY <1>4, <1>8, <2>1, <2>2, StayedSends
<1> QED
  BY <1>4, <1>5, <1>6, <1>7, <1>8, SameTableItself DEF Outcome

LEMMA StayedAlone ==
    ASSUME Core, Stayed(client, server, up, down), ServerAlone, client' = client
    PROVE  Stayed(client', server', up', down')
<1>1. up \in Seq(PacketSet) /\ down \in Seq(PacketSet)
  BY CoreParts
<1>2. CASE ServerOpenOther
  <2>1. PICK q \in PacketSet :
              /\ server'.channels = server.channels /\ server'.fate = server.fate
              /\ q.type = "OPEN_FAILURE" /\ down' = down \o <<q>>
    BY <1>2, ServerOpenOtherIs
  <2>2. up # <<>> /\ up' = Tail(up)
    BY <1>2 DEF ServerOpenOther, ServerReads
  <2> DEFINE r == <<q>>
  <2>3. /\ r \in Seq(PacketSet) /\ down' = down \o r
        /\ DOMAIN r = {1} /\ r[1] = q
    BY <2>1
  <2> HIDE DEF r
  <2>4. \A i \in DOMAIN r : Stayed1(server', r[i])
    BY <2>1, <2>3 DEF Stayed1
  <2>5. server'.fate # "WrongChannel"
    BY <2>1 DEF Stayed
  <2> QED
    BY <1>1, <2>1, <2>2, <2>3, <2>4, <2>5, StayedServer
<1>3. CASE ServerWindowAdjust /\ Head(up).num \notin DOMAIN server.channels
  <2>1. up # <<>> /\ Head(up).type = "WINDOW_ADJUST"
    BY <1>3 DEF ServerWindowAdjust, ServerReads
  <2>2. Head(up) = up[1] /\ 1 \in DOMAIN up
    BY <2>1, HeadIs
  <2>3. Known(server, Head(up).num)
    BY <2>1, <2>2 DEF Stayed, UpStayed
  <2> QED
    BY <1>3, <2>3 DEF Known
<1>4. CASE ServerIgnores \/ ServerHangup
  <2>1. /\ up' = up \/ (up # <<>> /\ up' = Tail(up))
        /\ down' = down
    BY <1>4 DEF ServerIgnores, ServerHangup, ServerReads
  <2>2. /\ server'.channels = server.channels
        /\ server'.fate = server.fate \/ server'.fate = "over"
    BY <1>4, CoreParts DEF ServerIgnores, ServerHangup, Ends, ServerOK, IsSession
  <2> DEFINE q == <<>>
  <2>3. down' = down \o q /\ q \in Seq(PacketSet) /\ DOMAIN q = {}
    BY <1>1, <2>1
  <2> HIDE DEF q
  <2>4. server'.fate # "WrongChannel" /\ \A i \in DOMAIN q : Stayed1(server', q[i])
    BY <2>2, <2>3 DEF Stayed
  <2>5. up' = up \/ (up # <<>> /\ up' = Tail(up))
    BY <1>4 DEF ServerIgnores, ServerHangup, ServerReads
  <2> QED
    BY <1>1, <2>2, <2>3, <2>4, <2>5, StayedServer
<1> QED
  BY <1>2, <1>3, <1>4 DEF ServerAlone

(* A step of the client: it writes only on numbers the server keeps. *)
LEMMA StayedClient ==
    ASSUME Core, Stayed(client, server, up, down), server' = server,
           EndsStayed(client', server),
           \A i \in DOMAIN up' :
              \/ i \in DOMAIN up /\ up'[i] = up[i]
              \/ /\ up'[i].type # "CLOSE"
                 /\ up'[i].type = "WINDOW_ADJUST" => Known(server, up'[i].num),
           down' = down \/ (down # <<>> /\ down' = Tail(down))
    PROVE  Stayed(client', server', up', down')
<1>1. \A i \in DOMAIN down' : \E j \in DOMAIN down : down'[i] = down[j]
  BY CoreParts, Consumed
<1>2. UpStayed(server, up') /\ DownStayed(server, down')
  BY <1>1 DEF Stayed, UpStayed, DownStayed
<1> QED
  BY <1>2 DEF Stayed

LEMMA HeraldedCalled ==
    ASSUME Core, Heralded(client, server, down), NEW s, NEW answer, Arrives(s, answer),
           Handler(s, answer)
    PROVE  Heralded(client, server', down')
<1>1. /\ Outcome(s, down \o answer) /\ Heralded(client, s, down \o answer)
      /\ down \o answer \in Seq(PacketSet)
  <2>1. Interim(s, answer)
    BY DEF Arrives
  <2> QED
    BY <2>1, OutcomeIs, HeraldedArrives, ConcatTyped
<1> DEFINE d == down \o answer
<1> HIDE DEF d
<1>2. Outcome(s, d) /\ Heralded(client, s, d) /\ d \in Seq(PacketSet)
  BY <1>1 DEF d
<1> QED
  BY <1>2, HeraldedOutcome

(* What a step of the client does to its table, *)
Retold(c, d) ==
    /\ \A num : num <= c.last_channel_id /\ Unconfirmed(client', num) => Unconfirmed(c, num)
    /\ \A id \in DOMAIN client'.channels : client'.channels[id].confirmed =>
          \/ /\ id \in DOMAIN c.channels /\ c.channels[id].confirmed
             /\ client'.channels[id].recipient_channel = c.channels[id].recipient_channel
          \/ /\ d # <<>> /\ Head(d).type = "CONFIRM"
             /\ client'.channels[id].recipient_channel = Head(d).from
          \/ /\ d # <<>> /\ Head(d).type = "OPEN"
             /\ client'.channels[id].recipient_channel = Head(d).num

Hears(d) ==
    \/ down' = d
    \/ /\ d # <<>> /\ down' = Tail(d)
       /\ Head(d).type = "CONFIRM" => ~Unconfirmed(client', Head(d).num)

LEMMA RetoldSame ==
    ASSUME client'.channels = client.channels PROVE Retold(client, down)
BY DEF Retold, Unconfirmed, Known

LEMMA ClientRetells ==
    ASSUME Core,
           ClientMoves \/ \E ch \in Calls, type \in Types : CallOpen(ch, type)
    PROVE  Retold(client, down) /\ Hears(down) /\ server' = server
<1>1. /\ ClientOK(client) /\ DOMAIN client.channels \subseteq 2..client.last_channel_id
      /\ client.last_channel_id \in Nat
  BY CoreParts, ChannelAssumption DEF ClientOK, IsSession, Numbered
<1>2. \A why \in Fates : client' = Ends(client, why) => client'.channels = client.channels
  BY ClientEnds
<1>3. ASSUME NEW ch \in Calls, NEW type \in Types, CallOpen(ch, type)
      PROVE  Retold(client, down) /\ Hears(down) /\ server' = server
  <2>1. PICK id \in 2..IdLimit :
              /\ id > client.last_channel_id
              /\ DOMAIN client'.channels = DOMAIN client.channels \cup {id}
              /\ \A n \in DOMAIN client.channels : client'.channels[n] = client.channels[n]
              /\ ~client'.channels[id].confirmed
    BY <1>3, CallOpenIs
  <2>2. Retold(client, down)
    BY <1>1, <2>1 DEF Retold, Unconfirmed, Known
  <2> QED
    BY <1>3, <2>2 DEF Hears, CallOpen
<1>4. CASE \E ch \in Calls : Returned(ch)
  BY <1>4, RetoldSame DEF Returned, CallReturnsChannel, CallFails, Hears
<1>5. ASSUME NEW ch \in Channels, NEW type \in UseTypes, ClientUse(ch, type)
      PROVE  Retold(client, down) /\ Hears(down) /\ server' = server
  <2>1. client' = Ends(client, "panic") \/ client' = client
    BY <1>5, ClientUseIs DEF UsesEntry
  <2>2. client'.channels = client.channels
    BY <1>2, <2>1 DEF Fates
  <2> QED
    BY <1>5, <2>2, RetoldSame DEF ClientUse, Hears
<1>6. CASE ClientConfirmation
  <2>1. /\ down # <<>> /\ down' = Tail(down) /\ Head(down).type = "CONFIRM"
        /\ server' = server
    BY <1>6 DEF ClientConfirmation, ClientReads
  <2>2. CASE Head(down).num \in DOMAIN client.channels
    <3>1. ConfirmedAs(Head(down))
      BY <1>6, <2>2, ClientConfirmationIs
    <3>2. Retold(client, down)
      BY <2>1, <2>2, <3>1 DEF ConfirmedAs, Retold, Unconfirmed, Known
    <3>3. ~Unconfirmed(client', Head(down).num)
      BY <3>1 DEF ConfirmedAs, Unconfirmed
    <3> QED
      BY <2>1, <3>2, <3>3 DEF Hears
  <2>3. CASE Head(down).num \notin DOMAIN client.channels
    <3>1. client' = Ends(client, "Inconsistent")
      BY <1>6, <2>3 DEF ClientConfirmation
    <3>2. client'.channels = client.channels
      BY <1>2, <3>1 DEF Fates
    <3>3. ~Unconfirmed(client', Head(down).num)
      BY <2>3, <3>2 DEF Unconfirmed, Known
    <3> QED
      BY <2>1, <3>2, <3>3, RetoldSame DEF Hears
  <2> QED
    BY <2>2, <2>3
<1>7. CASE ClientClosed
  <2>1. /\ down # <<>> /\ down' = Tail(down) /\ Head(down).type # "CONFIRM"
        /\ server' = server /\ client' = Forget(client, Head(down).num)
    BY <1>7 DEF ClientClosed, ClientReads
  <2>2. /\ DOMAIN client'.channels \subseteq DOMAIN client.channels
        /\ \A n \in DOMAIN client'.channels : client'.channels[n] = client.channels[n]
    BY <1>1, <2>1, ForgottenClient
  <2>3. Retold(client, down)
    BY <2>2 DEF Retold, Unconfirmed, Known
  <2> QED
    BY <2>1, <2>3 DEF Hears
<1>8. CASE ClientTold \/ ClientData \/ ClientIgnores \/ ClientForwardIgnored
  <2>1. /\ down # <<>> /\ down' = Tail(down) /\ Head(down).type # "CONFIRM"
        /\ server' = server /\ client' = client
    BY <1>8 DEF ClientTold, ClientData, ClientIgnores, ClientForwardIgnored, ClientReads
  <2> QED
    BY <2>1, RetoldSame DEF Hears
<1>9. CASE ClientWindowAdjust
  <2>1. /\ down # <<>> /\ down' = Tail(down) /\ Head(down).type # "CONFIRM"
        /\ server' = server
        /\ client' = client \/ client' = Ends(client, "WrongChannel")
    BY <1>9 DEF ClientWindowAdjust, ClientReads
  <2>2. client'.channels = client.channels
    BY <1>2, <2>1 DEF Fates
  <2> QED
    BY <2>1, <2>2, RetoldSame DEF Hears
<1>10. CASE ClientForwardAccepted
  <2>1. PICK id \in 2..IdLimit, q \in PacketSet : AcceptedAs(id, Head(down), q)
    BY <1>10, ClientForwardAcceptedIs
  <2>2. /\ down # <<>> /\ down' = Tail(down) /\ Head(down).type = "OPEN"
        /\ server' = server
    BY <1>10 DEF ClientForwardAccepted, ClientReads
  <2>3. /\ id > client.last_channel_id
        /\ DOMAIN client'.channels = DOMAIN client.channels \cup {id}
        /\ \A n \in DOMAIN client.channels : client'.channels[n] = client.channels[n]
        /\ client'.channels[id].recipient_channel = Head(down).num
        /\ client'.channels[id].confirmed
    BY <2>1 DEF AcceptedAs
  <2>4. Retold(client, down)
    BY <1>1, <2>2, <2>3 DEF Retold, Unconfirmed, Known
  <2> QED
    BY <2>2, <2>4 DEF Hears
<1>11. CASE ClientHangup
  <2>1. client' = Ends(client, "over") /\ UNCHANGED <<server, down>>
    BY <1>11 DEF ClientHangup
  <2>2. client'.channels = client.channels
    BY <1>2, <2>1 DEF Fates
  <2> QED
    BY <2>1, <2>2, RetoldSame DEF Hears
<1> QED
  BY <1>3, <1>4, <1>5, <1>6, <1>7, <1>8, <1>9, <1>10, <1>11 DEF ClientMoves

(* and what it writes. *)
Answers(p) ==
    /\ p.type = "WINDOW_ADJUST" /\ down # <<>> /\ Head(down).type = "DATA"
    /\ Known(client, Head(down).num)
    /\ p.num = client.channels[Head(down).num].recipient_channel

LEMMA ClientWrites ==
    ASSUME Core,
           ClientMoves \/ \E ch \in Calls, type \in Types : CallOpen(ch, type)
    PROVE  \A i \in DOMAIN up' :
              \/ i \in DOMAIN up /\ up'[i] = up[i]
              \/ up'[i].type \in {"OPEN", "OPEN_OTHER", "CONFIRM"} \cup UseTypes
              \/ Answers(up'[i])
<1> DEFINE Kinds == {"OPEN", "OPEN_OTHER", "CONFIRM"} \cup UseTypes
           Said == \A i \in DOMAIN up' : \/ i \in DOMAIN up /\ up'[i] = up[i]
                                         \/ up'[i].type \in Kinds
                                         \/ Answers(up'[i])
<1>1. up \in Seq(PacketSet)
  BY CoreParts
<1>2. up' = up => Said
  OBVIOUS
<1>3. ASSUME NEW p \in PacketSet, p.type \in Kinds, up' = Append(up, p) PROVE Said
  <2> DEFINE u == Append(up, p)
  <2>1. \A i \in DOMAIN u : (i \in DOMAIN up /\ u[i] = up[i]) \/ u[i] = p
    BY <1>1, AppendElements
  <2> HIDE DEF u
  <2>2. up' = u
    BY <1>3 DEF u
  <2> QED
    BY <1>3, <2>1, <2>2
<1>4. ASSUME NEW ch \in Calls, NEW type \in Types, CallOpen(ch, type) PROVE Said
  <2>1. PICK p \in PacketSet : p.type \in Asking /\ up' = Append(up, p)
    BY <1>4, CallOpenIs
  <2> QED
    BY <1>3, <2>1 DEF Asking
<1>5. ASSUME NEW ch \in Channels, NEW type \in UseTypes, ClientUse(ch, type) PROVE Said
  <2>1. up' = up \/ \E p \in PacketSet : UsesEntry(app[ch].id, p)
    BY <1>5, ClientUseIs
  <2>2. ASSUME NEW p \in PacketSet, UsesEntry(app[ch].id, p) PROVE Said
    <3>1. p.type \in Kinds /\ up' = Append(up, p)
      BY <2>2 DEF UsesEntry
    <3> QED
      BY <1>3, <3>1
  <2> QED
    BY <1>2, <2>1, <2>2
<1>6. CASE ClientData
  <2>1. down # <<>> /\ Head(down).type = "DATA"
    BY <1>6 DEF ClientData, ClientReads
  <2>2. PICK answer \in Adjustments(client, Head(down).num) : up' = up \o answer
    BY <1>6 DEF ClientData
  <2>3. IsTable(client.channels, EntrySet)
    BY CoreParts DEF ClientOK, IsSession
  <2>4. answer \in Seq(PacketSet) /\ \A i \in DOMAIN answer : Answers(answer[i])
    BY <2>1, <2>3, AdjustmentIs DEF Answers, Known
  <2>5. \A i \in DOMAIN up' : \/ i \in DOMAIN up /\ up'[i] = up[i]
                              \/ i - Len(up) \in DOMAIN answer /\ up'[i] = answer[i - Len(up)]
    BY <1>1, <2>2, <2>4, ConcatElements
  <2> QED
    BY <2>4, <2>5
<1>7. CASE ClientForwardAccepted
  <2>1. PICK id \in 2..IdLimit, q \in PacketSet : AcceptedAs(id, Head(down), q)
    BY <1>7, ClientForwardAcceptedIs
  <2>2. q.type \in Kinds /\ up' = Append(up, q)
    BY <2>1 DEF AcceptedAs
  <2> QED
    BY <1>3, <2>2
<1>8. CASE \/ \E ch \in Calls : Returned(ch)
           \/ ClientConfirmation \/ ClientClosed \/ ClientTold \/ ClientWindowAdjust
           \/ ClientIgnores \/ ClientForwardIgnored \/ ClientHangup
  <2>1. up' = up
    BY <1>8 DEF Returned, CallReturnsChannel, CallFails, ClientConfirmation, ClientClosed,
       ClientTold, ClientWindowAdjust, ClientIgnores, ClientForwardIgnored, ClientHangup
  <2> QED
    BY <1>2, <2>1
<1> QED
  BY <1>4, <1>5, <1>6, <1>7, <1>8 DEF ClientMoves

LEMMA HeraldedMoves ==
    ASSUME Core, Heralded(client, server, down),
           ClientMoves \/ \E ch \in Calls, type \in Types : CallOpen(ch, type)
    PROVE  Heralded(client', server', down')
<1>1. Retold(client, down) /\ Hears(down) /\ server' = server
  BY ClientRetells
<1> QED
  BY <1>1, HeraldedClient DEF Retold, Hears

(* Data reaches the client only on a channel it has confirmed, so that what *)
(* it answers goes to a number of the server.                               *)
LEMMA StayedMoves ==
    ASSUME Core, Heralded(client, server, down), Stayed(client, server, up, down),
           ~ClientCloses,
           ClientMoves \/ \E ch \in Calls, type \in Types : CallOpen(ch, type)
    PROVE  Stayed(client', server', up', down')
<1>1. Retold(client, down) /\ Hears(down) /\ server' = server
  BY ClientRetells
<1>2. down # <<>> => Head(down) = down[1] /\ 1 \in DOMAIN down
  BY HeadIs
<1>3. down # <<>> => Stayed1(server, Head(down))
  BY <1>2 DEF Stayed, DownStayed
<1>4. EndsStayed(client', server)
  <2> SUFFICES ASSUME NEW id \in DOMAIN client'.channels, client'.channels[id].confirmed
               PROVE  Known(server, client'.channels[id].recipient_channel)
    BY DEF EndsStayed
  <2>1. CASE /\ id \in DOMAIN client.channels /\ client.channels[id].confirmed
             /\ client'.channels[id].recipient_channel
                   = client.channels[id].recipient_channel
    BY <2>1 DEF Stayed, EndsStayed
  <2>2. CASE /\ down # <<>> /\ Head(down).type = "CONFIRM"
             /\ client'.channels[id].recipient_channel = Head(down).from
    BY <1>3, <2>2 DEF Stayed1
  <2>3. CASE /\ down # <<>> /\ Head(down).type = "OPEN"
             /\ client'.channels[id].recipient_channel = Head(down).num
    BY <1>3, <2>3 DEF Stayed1
  <2> QED
    BY <1>1, <2>1, <2>2, <2>3 DEF Retold
<1>5. UseTypes = {"DATA", "EOF", "REQUEST"}
  BY DEF UseTypes
<1>6. ASSUME NEW p, Answers(p) PROVE p.type = "WINDOW_ADJUST" /\ Known(server, p.num)
  <2> DEFINE num == Head(down).num
  <2>1. /\ p.type = "WINDOW_ADJUST" /\ Head(down).type = "DATA" /\ Known(client, num)
        /\ p.num = client.channels[num].recipient_channel
        /\ num = down[1].num /\ down[1].type = "DATA" /\ 1 \in DOMAIN down
    BY <1>2, <1>6 DEF Answers
  <2> HIDE DEF num
  <2>2. Unconfirmed(client, num) => Confirming(down, num, 1 - 1)
    BY <2>1 DEF Heralded, DataHeralded
  <2>3. ~Confirming(down, num, 1 - 1)
    BY DEF Confirming
  <2>4. client.channels[num].confirmed
    BY <2>1, <2>2, <2>3 DEF Unconfirmed
  <2> QED
    BY <2>1, <2>4 DEF Stayed, EndsStayed, Known
<1>7. \A i \in DOMAIN up' :
         \/ i \in DOMAIN up /\ up'[i] = up[i]
         \/ up'[i].type \in {"OPEN", "OPEN_OTHER", "CONFIRM"} \cup UseTypes
         \/ Answers(up'[i])
  BY ClientWrites
<1>8. \A i \in DOMAIN up' :
         \/ i \in DOMAIN up /\ up'[i] = up[i]
         \/ /\ up'[i].type # "CLOSE"
            /\ up'[i].type = "WINDOW_ADJUST" => Known(server, up'[i].num)
  BY <1>5, <1>6, <1>7
<1>9. down' = down \/ (down # <<>> /\ down' = Tail(down))
  BY <1>1 DEF Hears
<1> QED
  BY <1>1, <1>4, <1>8, <1>9, StayedClient

Story ==
    /\ Story2
    /\ Heralded(client, server, down)
    /\ ~ClientCloses => Stayed(client, server, up, down)

LEMMA StoryStep == Core /\ Story /\ [Next]_vars => Story'
<1> SUFFICES ASSUME Core, Story2, Heralded(client, server, down),
                    ~ClientCloses => Stayed(client, server, up, down), [Next]_vars
             PROVE  Story'
  BY DEF Story
<1>1. Story2'
  BY Story2Step
<1>2. /\ Heralded(client', server', down')
      /\ ~ClientCloses => Stayed(client', server', up', down')
  <2>1. CASE ClientMoves \/ \E ch \in Calls, type \in Types : CallOpen(ch, type)
    BY <2>1, HeraldedMoves, StayedMoves
  <2>2. CASE Called
    <3>1. UNCHANGED client
      BY <2>2, CalledIs
    <3>2. PICK s, answer : Arrives(s, answer) /\ Handler(s, answer)
      BY <2>2, CalledIs
    <3>3. Heralded(client, server', down')
      BY <3>2, HeraldedCalled
    <3>4. ~ClientCloses => Stayed(client', server', up', down')
      BY <3>1, <3>2, StayedCalled
    <3> QED
      BY <3>1, <3>3, <3>4
  <2>3. CASE ServerAlone
    <3>1. client' = client
      BY <2>3 DEF ServerAlone, ServerOpenOther, ServerIgnores, ServerHangup,
         ServerWindowAdjust, ServerReads
    <3>2. Heralded(client, server', down')
      BY <2>3, HeraldedAlone
    <3>3. ~ClientCloses => Stayed(client', server', up', down')
      BY <2>3, <3>1, StayedAlone
    <3> QED
      BY <3>1, <3>2, <3>3
  <2>4. CASE UNCHANGED vars
    BY <2>4 DEF vars
  <2> QED
    BY <2>1, <2>2, <2>3, <2>4, StepKinds
<1>3. /\ Heralded(client, server, down)' /\ (~ClientCloses => Stayed(client, server, up, down)')
  BY <1>2 DEF Heralded, DataHeralded, EntriesHeralded, Confirming, Unconfirmed, Known,
     Stayed, UpStayed, EndsStayed, DownStayed, Stayed1
<1> QED
  BY <1>1, <1>3 DEF Story

LEMMA StoryInit == Init => Story
<1> SUFFICES ASSUME Init PROVE Story
  OBVIOUS
<1>1. Story1
  BY SureInit, OnceInit DEF Story1
<1> QED
  BY <1>1, KeptInit, HeraldedInit, StayedInit DEF Story, Story2

(* A session ends from within only for the reasons FatesExplained names,    *)
(* with any number of channels, uses and callbacks: the client's own        *)
(* application cannot end it (data() of session.rs meets its assertion for  *)
(* no Channel), its table misses a number only after the server's handler   *)
(* closed, refused or forwarded a channel, and the server's task panics     *)
(* only over a channel it opened itself (assert!(channel.confirmed)).       *)
THEOREM EveryFateExplained == Spec => []FatesExplained
<1>1. Init => Story
  BY StoryInit
<1>2. Core /\ Story /\ [Next]_vars => Story'
  BY StoryStep
<1>3. Story => FatesExplained
  <2> SUFFICES ASSUME Story PROVE FatesExplained
    OBVIOUS
  <2>1. /\ Sure(client, app, heard) /\ Vouched(server, log) /\ Causes(client, log)
        /\ ~ClientCloses => Stayed(client, server, up, down)
    BY DEF Story, Story2, Story1
  <2>2. client.fate # "panic"
    BY <2>1 DEF Sure
  <2>3. (server.fate = "panic" => log.asked # {}) /\ server.fate # "Inconsistent"
    BY <2>1 DEF Vouched
  <2>4. /\ client.fate = "WrongChannel" => log.closed \cup log.refused \cup log.asked # {}
        /\ client.fate = "Inconsistent" => log.refused # {}
    BY <2>1 DEF Causes, Happened
  <2>5. server.fate = "WrongChannel" => ClientCloses
    BY <2>1 DEF Stayed
  <2> QED
    BY <2>2, <2>3, <2>4, <2>5 DEF FatesExplained
<1> QED
  BY <1>1, <1>2, <1>3, Invariance, PTL DEF Spec

-----------------------------------------------------------------------------
(* Every answer was asked for: requests under way, requests the server still *)
(* owes an answer, answers under way and answers heard are counted together. *)

(* How many elements of a sequence are in M. *)
Count(q, M) == Cardinality({i \in DOMAIN q : q[i] \in M})

LEMMA CountType ==
    ASSUME NEW S, NEW q \in Seq(S), NEW M
    PROVE  IsFiniteSet({i \in DOMAIN q : q[i] \in M}) /\ Count(q, M) \in Nat
<1> DEFINE I == {i \in DOMAIN q : q[i] \in M}
<1>1. I \subseteq 1..Len(q) /\ Len(q) \in Int /\ 1 \in Int
  OBVIOUS
<1>2. IsFiniteSet(1..Len(q))
  BY <1>1, FS_Interval
<1>3. IsFiniteSet(I)
  BY <1>1, <1>2, FS_Subset
<1> QED
  BY <1>3, FS_CardinalityType DEF Count

LEMMA CountAppend ==
    ASSUME NEW S, NEW q \in Seq(S), NEW e \in S, NEW M
    PROVE  Count(Append(q, e), M) = Count(q, M) + IF e \in M THEN 1 ELSE 0
<1> DEFINE r == Append(q, e)
           I == {i \in DOMAIN q : q[i] \in M}
           J == {i \in DOMAIN r : r[i] \in M}
<1>1. /\ DOMAIN q = 1..Len(q) /\ DOMAIN r = 1..(Len(q) + 1) /\ Len(q) \in Nat
      /\ \A i \in DOMAIN q : r[i] = q[i]
      /\ r[Len(q) + 1] = e
  OBVIOUS
<1>2. IsFiniteSet(I) /\ Cardinality(I) \in Nat
  BY CountType DEF Count
<1> HIDE DEF r
<1>3. Len(q) + 1 \notin I
  BY <1>1
<1>4. CASE e \in M
  <2>1. J = I \cup {Len(q) + 1}
    BY <1>1, <1>4
  <2> HIDE DEF I, J
  <2>2. Cardinality(J) = Cardinality(I) + 1
    BY <1>2, <1>3, <2>1, FS_AddElement
  <2> QED
    BY <1>4, <2>2 DEF Count, r, I, J
<1>5. CASE e \notin M
  <2>1. J = I
    BY <1>1, <1>5
  <2> HIDE DEF I, J
  <2>2. Cardinality(J) = Cardinality(I) + IF e \in M THEN 1 ELSE 0
    BY <1>2, <1>5, <2>1
  <2> QED
    BY <2>2 DEF Count, r, I, J
<1> QED
  BY <1>4, <1>5

LEMMA CountTail ==
    ASSUME NEW S, NEW q \in Seq(S), q # <<>>, NEW M
    PROVE  Count(q, M) = Count(Tail(q), M) + IF Head(q) \in M THEN 1 ELSE 0
<1> DEFINE r == Tail(q)
           I == {i \in DOMAIN q : q[i] \in M}
           J == {i \in DOMAIN r : r[i] \in M}
           f == [j \in J |-> j + 1]
<1>1. /\ DOMAIN q = 1..Len(q) /\ Len(q) \in Nat /\ Len(q) > 0
      /\ DOMAIN r = 1..(Len(q) - 1) /\ r \in Seq(S)
      /\ \A i \in DOMAIN r : r[i] = q[i + 1]
      /\ Head(q) = q[1]
  OBVIOUS
<1> HIDE DEF r
<1>2. IsFiniteSet(I) /\ Cardinality(I) \in Nat /\ IsFiniteSet(J) /\ Cardinality(J) \in Nat
  BY <1>1, CountType DEF Count
<1>3. f \in Bijection(J, I \ {1})
  <2>1. f \in [J -> I \ {1}]
    BY <1>1
  <2>2. \A a, b \in J : f[a] = f[b] => a = b
    BY <1>1
  <2>3. \A i \in I \ {1} : \E j \in J : f[j] = i
    <3> SUFFICES ASSUME NEW i \in I \ {1} PROVE \E j \in J : f[j] = i
      OBVIOUS
    <3>1. i - 1 \in DOMAIN r /\ (i - 1) + 1 = i
      BY <1>1
    <3>2. i - 1 \in J
      BY <1>1, <3>1
    <3> QED
      BY <3>1, <3>2
  <2> QED
    BY <2>1, <2>2, <2>3, Fun_IsBij
<1>4. ExistsBijection(J, I \ {1})
  BY <1>3 DEF ExistsBijection
<1>5. Cardinality(I \ {1}) = Cardinality(J)
  <2> HIDE DEF I, J, f
  <2> QED
    BY <1>2, <1>4, FS_Bijection
<1>6. Cardinality(I \ {1}) = IF 1 \in I THEN Cardinality(I) - 1 ELSE Cardinality(I)
  <2> HIDE DEF I
  <2> QED
    BY <1>2, FS_RemoveElement
<1>7. 1 \in I <=> Head(q) \in M
  BY <1>1
<1>8. Cardinality(I) = Cardinality(J) + IF Head(q) \in M THEN 1 ELSE 0
  <2> HIDE DEF I, J, f
  <2> QED
    BY <1>2, <1>5, <1>6, <1>7
<1> QED
  BY <1>8 DEF Count, r

(* Requests that want an answer, answers under way, answers heard, and the  *)
(* entries of the server whose wants_reply is set.                          *)
Requests(ch) == {p \in PacketSet : p.type = "REQUEST" /\ p.wants /\ p.of = ch}

Replies(ch) == {p \in PacketSet : p.type = "SUCCESS" /\ p.of = ch}

Told == {m \in HeardSet : m.what = "SUCCESS"}

Owing(s, ch) ==
    {id \in DOMAIN s.channels : s.channels[id].of = ch /\ s.channels[id].wants_reply}

Owes(s, ch) == Cardinality(Owing(s, ch))

(* The inductive invariant: each request of a Channel that wanted an answer *)
(* (log.wanted) is under way, or owed, or answered, and no two of these.    *)
Accounted(h, d, s, u, l) ==
    \A ch \in Channels :
       Count(h[ch], Told) + Count(d, Replies(ch)) + Owes(s, ch) + Count(u, Requests(ch))
           <= l.wanted[ch]

LEMMA OwesType ==
    ASSUME NEW s, IsTable(s.channels, EntrySet), NEW ch
    PROVE  IsFiniteSet(Owing(s, ch)) /\ Owes(s, ch) \in Nat
<1>1. Owing(s, ch) \subseteq 2..IdLimit /\ 2 \in Int /\ IdLimit \in Int
  BY ChannelAssumption DEF Owing, IsTable
<1>2. IsFiniteSet(2..IdLimit)
  BY <1>1, FS_Interval
<1>3. IsFiniteSet(Owing(s, ch))
  BY <1>1, <1>2, FS_Subset
<1> QED
  BY <1>3, FS_CardinalityType DEF Owes

LEMMA OwesLess ==
    ASSUME NEW s, IsTable(s.channels, EntrySet), NEW t, NEW ch,
           Owing(t, ch) \subseteq Owing(s, ch)
    PROVE  Owes(t, ch) <= Owes(s, ch)
BY OwesType, FS_Subset DEF Owes

LEMMA OwesOneMore ==
    ASSUME NEW s, IsTable(s.channels, EntrySet), NEW t, NEW ch, NEW id,
           Owing(t, ch) \subseteq Owing(s, ch) \cup {id}
    PROVE  Owes(t, ch) <= Owes(s, ch) + 1
<1> DEFINE S == Owing(s, ch)
           T == Owing(t, ch)
<1>1. IsFiniteSet(S) /\ Cardinality(S) \in Nat
  BY OwesType DEF Owes
<1> HIDE DEF S, T
<1>2. T \subseteq S \cup {id}
  BY DEF S, T
<1>3. /\ IsFiniteSet(S \cup {id})
      /\ Cardinality(S \cup {id}) <= Cardinality(S) + 1 /\ Cardinality(S \cup {id}) \in Nat
  <2> DEFINE n == Cardinality(S \cup {id})
  <2>1. IsFiniteSet(S \cup {id})
    BY <1>1, FS_AddElement
  <2>2. n = IF id \in S THEN Cardinality(S) ELSE Cardinality(S) + 1
    BY <1>1, FS_AddElement
  <2> HIDE DEF n
  <2>3. n <= Cardinality(S) + 1 /\ n \in Nat
    BY <1>1, <2>2
  <2> QED
    BY <2>1, <2>3 DEF n
<1>4. Cardinality(T) <= Cardinality(S \cup {id}) /\ Cardinality(T) \in Nat
  BY <1>2, <1>3, FS_Subset, FS_CardinalityType
<1>5. Cardinality(T) <= Cardinality(S) + 1
  BY <1>1, <1>3, <1>4
<1> QED
  BY <1>5 DEF Owes, S, T

LEMMA OwesOneLess ==
    ASSUME NEW s, IsTable(s.channels, EntrySet), NEW t, NEW ch, NEW id \in Owing(s, ch),
           Owing(t, ch) \subseteq Owing(s, ch) \ {id}
    PROVE  Owes(t, ch) + 1 <= Owes(s, ch)
<1> DEFINE S == Owing(s, ch)
           T == Owing(t, ch)
<1>1. IsFiniteSet(S) /\ Cardinality(S) \in Nat
  BY OwesType DEF Owes
<1>2. id \in S
  OBVIOUS
<1> HIDE DEF S, T
<1>3. T \subseteq S \ {id}
  BY DEF S, T
<1>4. IsFiniteSet(S \ {id}) /\ Cardinality(S \ {id}) = Cardinality(S) - 1
  BY <1>1, <1>2, FS_RemoveElement
<1>5. Cardinality(T) <= Cardinality(S \ {id}) /\ Cardinality(T) \in Nat
  BY <1>3, <1>4, FS_Subset, FS_CardinalityType
<1>6. Cardinality(T) + 1 <= Cardinality(S)
  BY <1>1, <1>4, <1>5
<1> QED
  BY <1>6 DEF Owes, S, T

LEMMA AccountedInit == Init => Accounted(heard, down, server, up, log)
<1> SUFFICES ASSUME Init, NEW ch \in Channels
             PROVE  Count(heard[ch], Told) + Count(down, Replies(ch)) + Owes(server, ch)
                        + Count(up, Requests(ch)) <= log.wanted[ch]
  BY DEF Accounted
<1>1. \A M : Count(<<>>, M) = 0
  <2> SUFFICES ASSUME NEW M PROVE Count(<<>>, M) = 0
    OBVIOUS
  <2>1. {i \in DOMAIN <<>> : <<>>[i] \in M} = {}
    OBVIOUS
  <2> QED
    BY <2>1, FS_EmptySet DEF Count
<1>2. Owing(server, ch) = {}
  BY DEF Init, NoEntries, Owing
<1>3. Owes(server, ch) = 0
  BY <1>2, FS_EmptySet DEF Owes
<1>4. heard[ch] = <<>> /\ down = <<>> /\ up = <<>> /\ log.wanted[ch] = 0
  BY DEF Init
<1> QED
  BY <1>1, <1>3, <1>4

(* What the server has read by the time the callback is entered. *)
Balanced(s) ==
    \A ch \in Channels :
       Owes(s, ch) + Count(up', Requests(ch)) <= Owes(server, ch) + Count(up, Requests(ch))

LEMMA CountLess ==
    ASSUME NEW S, NEW q \in Seq(S), NEW r, r = q \/ (q # <<>> /\ r = Tail(q)), NEW M
    PROVE  Count(r, M) <= Count(q, M) /\ Count(r, M) \in Nat /\ Count(q, M) \in Nat
<1>1. r \in Seq(S)
  BY TailElements
<1>2. Count(r, M) \in Nat /\ Count(q, M) \in Nat
  BY <1>1, CountType
<1>3. CASE r = q
  BY <1>2, <1>3
<1>4. CASE q # <<>> /\ r = Tail(q)
  <2>1. Count(q, M) = Count(r, M) + IF Head(q) \in M THEN 1 ELSE 0
    BY <1>4, CountTail
  <2> QED
    BY <1>2, <2>1
<1> QED
  BY <1>3, <1>4

LEMMA BalancedQuiet ==
    ASSUME Core, NEW s, \A ch \in Channels : Owing(s, ch) \subseteq Owing(server, ch),
           up' = up \/ (up # <<>> /\ up' = Tail(up))
    PROVE  Balanced(s)
<1> SUFFICES ASSUME NEW ch \in Channels
             PROVE  Owes(s, ch) + Count(up', Requests(ch))
                        <= Owes(server, ch) + Count(up, Requests(ch))
  BY DEF Balanced
<1>1. IsTable(server.channels, EntrySet) /\ up \in Seq(PacketSet)
  BY CoreParts DEF ServerOK, IsSession
<1>2. Count(up', Requests(ch)) <= Count(up, Requests(ch))
      /\ Count(up', Requests(ch)) \in Nat /\ Count(up, Requests(ch)) \in Nat
  BY <1>1, CountLess
<1>3. Owing(s, ch) \subseteq Owing(server, ch) /\ IsFiniteSet(Owing(server, ch))
  BY <1>1, OwesType
<1>4. Owes(s, ch) \in Nat /\ Owes(server, ch) \in Nat /\ Owes(s, ch) <= Owes(server, ch)
  BY <1>3, FS_Subset, FS_CardinalityType DEF Owes
<1> QED
  BY <1>2, <1>4

(* channel_request: the wish is noted on the entry. *)
LEMMA BalancedRequest ==
    ASSUME Core, ServerRequest
    PROVE  Balanced(Wants(server, Head(up)))
<1> DEFINE p == Head(up)
           s == Wants(server, p)
           table == server.channels
<1>1. /\ up # <<>> /\ up' = Tail(up) /\ p.type = "REQUEST"
  BY DEF ServerRequest, ServerReads
<1>2. /\ p \in PacketSet /\ Owned(server, p.num, p.of) /\ p.wants \in BOOLEAN
      /\ p.of \in Channels
  BY <1>1, HeadIs DEF UpGood, Asking, PacketSet
<1>3. ServerOK(server) /\ up \in Seq(PacketSet)
  BY CoreParts
<1>4. CASE p.num \notin DOMAIN table
  <2>1. s = server
    BY <1>4 DEF Wants
  <2>2. \A ch \in Channels : Owing(s, ch) \subseteq Owing(server, ch)
    BY <2>1
  <2> HIDE DEF s
  <2>3. Balanced(s)
    BY <1>1, <2>2, BalancedQuiet
  <2> QED
    BY <2>3 DEF s
<1>5. CASE p.num \in DOMAIN table
  <2>1. /\ DOMAIN s.channels = DOMAIN table
        /\ s.channels[p.num].wants_reply = p.wants /\ s.channels[p.num].of = table[p.num].of
        /\ \A n \in DOMAIN table : n # p.num => s.channels[n] = table[n]
    <3>1. /\ DOMAIN s.channels = DOMAIN table
          /\ s.channels[p.num] = [table[p.num] EXCEPT !.wants_reply = p.wants]
          /\ \A n \in DOMAIN table : n # p.num => s.channels[n] = table[n]
      BY <1>3, <1>5 DEF Wants, ServerOK, IsSession
    <3>2. table[p.num] \in EntrySet
      BY <1>3, <1>5 DEF ServerOK, IsSession, IsTable
    <3> HIDE DEF s
    <3> QED
      BY <3>1, <3>2 DEF EntrySet
  <2>2. table[p.num].of = p.of
    BY <1>2, <1>5 DEF Owned
  <2> HIDE DEF s
  <2>3. CASE ~p.wants
    <3>1. \A ch \in Channels : Owing(s, ch) \subseteq Owing(server, ch)
      BY <2>1, <2>3 DEF Owing
    <3>2. Balanced(s)
      BY <1>1, <3>1, BalancedQuiet
    <3> QED
      BY <3>2 DEF s
  <2>4. CASE p.wants
    <3> SUFFICES ASSUME NEW ch \in Channels
                 PROVE  Owes(s, ch) + Count(up', Requests(ch))
                            <= Owes(server, ch) + Count(up, Requests(ch))
      BY DEF Balanced, s
    <3>1. IsTable(server.channels, EntrySet) /\ IsTable(s.channels, EntrySet)
      <4>1. IsTable(server.channels, EntrySet)
        BY <1>3 DEF ServerOK, IsSession
      <4>2. ServerOK(s)
        BY <1>2, <1>3, ServerWantsIs DEF s
      <4> QED
        BY <4>1, <4>2 DEF ServerOK, IsSession
    <3>2. Owes(s, ch) \in Nat /\ Owes(server, ch) \in Nat
      BY <3>1, OwesType
    <3>3. /\ Count(up, Requests(ch))
                = Count(up', Requests(ch)) + IF p \in Requests(ch) THEN 1 ELSE 0
          /\ Count(up', Requests(ch)) \in Nat
      BY <1>1, <1>3, CountTail, CountLess
    <3>4. CASE ch = p.of
      <4>1. p \in Requests(ch)
        BY <1>1, <1>2, <2>4, <3>4 DEF Requests
      <4>2. Owing(s, ch) \subseteq Owing(server, ch) \cup {p.num}
        BY <2>1 DEF Owing
      <4>3. Owes(s, ch) <= Owes(server, ch) + 1
        BY <3>1, <4>2, OwesOneMore
      <4> QED
        BY <3>2, <3>3, <4>1, <4>3
    <3>5. CASE ch # p.of
      <4>1. p \notin Requests(ch)
        BY <3>5 DEF Requests
      <4>2. Owing(s, ch) \subseteq Owing(server, ch)
        BY <2>1, <2>2, <3>5 DEF Owing
      <4>3. Owes(s, ch) <= Owes(server, ch)
        BY <3>1, <4>2, OwesLess
      <4> QED
        BY <3>2, <3>3, <4>1, <4>3
    <3> QED
      BY <3>4, <3>5
  <2> QED
    BY <1>2, <2>3, <2>4
<1> QED
  BY <1>4, <1>5

Mute(answer) ==
    answer = <<>> \/ \E q \in PacketSet : q.type # "SUCCESS" /\ answer = <<q>>

Bringing(s, answer) ==
    /\ ServerOK(s) /\ Handler(s, answer) /\ Balanced(s) /\ Mute(answer)
    /\ up' = up \/ (up # <<>> /\ up' = Tail(up))

LEMMA CalledBrings == ASSUME Core, Called PROVE \E s, answer : Bringing(s, answer)
<1>1. up' = up \/ (up # <<>> /\ up' = Tail(up))
  BY DEF Called, ServerOpen, ServerClose, ServerEof, ServerData, ServerRequest,
         ServerWindowAdjust, ServerHandle, ServerReads
<1>2. ServerOK(server) /\ IsTable(server.channels, EntrySet)
  BY CoreParts DEF ServerOK, IsSession
<1>3. ASSUME NEW s, NEW answer, ServerOK(s), Handler(s, answer), Mute(answer),
             \A ch \in Channels : Owing(s, ch) \subseteq Owing(server, ch)
      PROVE  Bringing(s, answer)
  BY <1>1, <1>3, BalancedQuiet DEF Bringing
<1>4. Mute(<<>>)
  BY DEF Mute
<1>5. CASE ServerOpen
  <2>1. PICK s, answer : \E id \in 2..IdLimit, q \in PacketSet :
            Accepting(s, answer, id, Head(up), q)
    BY <1>5, ServerOpenIs
  <2>2. PICK id \in 2..IdLimit, q \in PacketSet : Accepting(s, answer, id, Head(up), q)
    BY <2>1
  <2>3. /\ ServerOK(s) /\ Handler(s, answer)
        /\ DOMAIN s.channels = DOMAIN server.channels \cup {id}
        /\ \A n \in DOMAIN server.channels : s.channels[n] = server.channels[n]
        /\ ~s.channels[id].wants_reply
        /\ answer = <<q>> /\ q.type = "CONFIRM"
    BY <2>2 DEF Accepting, Interim
  <2>4. Mute(answer)
    BY <2>3 DEF Mute
  <2>5. \A ch \in Channels : Owing(s, ch) \subseteq Owing(server, ch)
    BY <2>3 DEF Owing
  <2> QED
    BY <1>3, <2>3, <2>4, <2>5
<1>6. CASE ServerClose
  <2> DEFINE s == [server EXCEPT !.channels = Remove(@, Head(up).num)]
  <2>1. Handler(s, <<>>)
    BY <1>6 DEF ServerClose
  <2>2. ServerOK(s)
    BY ServerCloseInterim DEF Interim
  <2>3. /\ DOMAIN s.channels \subseteq DOMAIN server.channels
        /\ \A n \in DOMAIN s.channels : s.channels[n] = server.channels[n]
    BY <1>2 DEF ServerOK, IsSession, Remove
  <2> HIDE DEF s
  <2>4. \A ch \in Channels : Owing(s, ch) \subseteq Owing(server, ch)
    BY <2>3 DEF Owing
  <2> QED
    BY <1>3, <1>4, <2>1, <2>2, <2>4
<1>7. CASE ServerRequest
  <2> DEFINE s == Wants(server, Head(up))
  <2>1. Handler(s, <<>>) /\ up # <<>>
    BY <1>7 DEF ServerRequest, ServerReads
  <2>2. ServerOK(s)
    BY <1>2, <2>1, HeadIs, ServerWantsIs
  <2>3. Balanced(s)
    BY <1>7, BalancedRequest
  <2> HIDE DEF s
  <2> QED
    BY <1>1, <1>4, <2>1, <2>2, <2>3 DEF Bringing
<1>8. CASE ServerData
  <2>1. PICK answer \in Adjustments(server, Head(up).num) : Handler(server, answer)
    BY <1>8 DEF ServerData
  <2>2. Mute(answer)
    <3> DEFINE q == Packet("WINDOW_ADJUST",
                           server.channels[Head(up).num].recipient_channel,
                           server.channels[Head(up).num].of)
    <3>1. answer = <<>> \/ answer = <<q>>
      BY <2>1 DEF Adjustments
    <3>2. answer \in Seq(PacketSet)
      BY <1>2, AdjustmentIs
    <3>3. q.type = "WINDOW_ADJUST"
      BY DEF Packet
    <3> HIDE DEF q
    <3>4. answer = <<q>> => q \in PacketSet
      <4> SUFFICES ASSUME answer = <<q>> PROVE q \in PacketSet
        OBVIOUS
      <4>1. answer[1] \in PacketSet /\ answer[1] = q
        BY <3>2
      <4> QED
        BY <4>1
    <3> QED
      BY <3>1, <3>3, <3>4 DEF Mute
  <2> QED
    BY <1>2, <1>3, <2>1, <2>2
<1>9. CASE ServerEof \/ (ServerWindowAdjust /\ Head(up).num \in DOMAIN server.channels)
  <2>1. Handler(server, <<>>)
    BY <1>9 DEF ServerEof, ServerWindowAdjust
  <2> QED
    BY <1>2, <1>3, <1>4, <2>1
<1>10. CASE ServerHandle
  <2>1. PICK id \in DOMAIN server.channels :
            SessionEof(server, <<>>, id) \/ SessionWrite(server, <<>>, id)
    BY <1>10 DEF ServerHandle
  <2>2. Handler(server, <<>>)
    BY <1>10, <2>1 DEF ServerHandle, HandlerCall, Handler
  <2> QED
    BY <1>2, <1>3, <1>4, <2>2
<1> QED
  BY <1>5, <1>6, <1>7, <1>8, <1>9, <1>10 DEF Called

(* What the callback adds: a success is only sent for a wish it clears. *)
Spoken(s, d) ==
    \/ server'.channels = server.channels /\ down' = down
    \/ /\ \A ch \in Channels : Owing(server', ch) \subseteq Owing(s, ch)
       /\ down' = d \/ \E p \in PacketSet : p.type # "SUCCESS" /\ down' = Append(d, p)
    \/ \E id \in DOMAIN s.channels, p \in PacketSet :
          /\ s.channels[id].wants_reply /\ p.of = s.channels[id].of
          /\ \A ch \in Channels : Owing(server', ch) \subseteq Owing(s, ch) \ {id}
          /\ down' = Append(d, p)

LEMMA HandlerSpeaks ==
    ASSUME Core, NEW s, NEW answer \in Seq(PacketSet), ServerOK(s), Handler(s, answer)
    PROVE  Spoken(s, down \o answer) /\ log'.wanted = log.wanted
<1>1. /\ log \in LogSet /\ left \in [client : Nat, server : Nat]
      /\ down \in Seq(PacketSet) /\ ServerOK(server)
  BY CoreParts
<1>2. \A p \in PacketSet : down \o Append(answer, p) = Append(down \o answer, p)
  BY <1>1, ConcatAppend
<1>3. \/ LogGrows /\ Stops(s)
      \/ LogGrows /\ Plain(s, answer)
      \/ LogGrows /\ \E id \in DOMAIN s.channels, p \in PacketSet : Writes(s, answer, id, p)
      \/ \E id \in DOMAIN s.channels : SessionRefuse(s, answer, id)
      \/ \E f \in Forwards : SessionForward(s, answer, f)
  BY <1>1, HandlerCases
<1> DEFINE d == down \o answer
<1>4. \A p \in PacketSet : down \o Append(answer, p) = Append(d, p)
  BY <1>2
<1> HIDE DEF d
<1>5. CASE LogGrows /\ Stops(s)
  BY <1>1, <1>5 DEF Stops, Panics, Ends, ServerOK, IsSession, Spoken, LogGrows
<1>6. CASE LogGrows /\ Plain(s, answer)
  BY <1>6 DEF Plain, Returns, Spoken, LogGrows, d
<1>7. ASSUME LogGrows, NEW id \in DOMAIN s.channels, NEW p \in PacketSet,
             Writes(s, answer, id, p)
      PROVE  Spoken(s, d)
  <2>1. down' = Append(d, p) /\ p.of = s.channels[id].of
    BY <1>4, <1>7 DEF Writes
  <2>2. CASE server' = s /\ p.type # "SUCCESS"
    BY <2>1, <2>2 DEF Spoken
  <2>3. CASE server' = Replied(s, id) /\ s.channels[id].wants_reply
    <3>1. /\ DOMAIN server'.channels = DOMAIN s.channels
          /\ ~server'.channels[id].wants_reply
          /\ \A n \in DOMAIN s.channels : n # id => server'.channels[n] = s.channels[n]
      <4>1. s.channels[id] \in EntrySet
        BY DEF ServerOK, IsSession, IsTable
      <4>2. /\ DOMAIN server'.channels = DOMAIN s.channels
            /\ server'.channels[id] = [s.channels[id] EXCEPT !.wants_reply = FALSE]
            /\ \A n \in DOMAIN s.channels : n # id => server'.channels[n] = s.channels[n]
        BY <2>3 DEF Replied, ServerOK, IsSession
      <4> QED
        BY <4>1, <4>2 DEF EntrySet
    <3>2. \A ch \in Channels : Owing(server', ch) \subseteq Owing(s, ch) \ {id}
      BY <3>1 DEF Owing
    <3> QED
      BY <2>1, <2>3, <3>2 DEF Spoken
  <2> QED
    BY <1>7, <2>2, <2>3 DEF Writes
<1>8. ASSUME NEW id \in DOMAIN s.channels, SessionRefuse(s, answer, id)
      PROVE  Spoken(s, d) /\ log'.wanted = log.wanted
  <2> DEFINE p == Packet("OPEN_FAILURE", id, s.channels[id].of)
  <2>1. /\ server' = s /\ down' = down \o Append(answer, p)
        /\ p \in PacketSet /\ p.type = "OPEN_FAILURE" /\ LogGrows
    BY <1>1, <1>8, RefuseIs
  <2> HIDE DEF p
  <2>2. down' = Append(d, p)
    BY <1>4, <2>1
  <2> QED
    BY <2>1, <2>2 DEF Spoken, LogGrows
<1>9. ASSUME NEW f \in Forwards, SessionForward(s, answer, f)
      PROVE  Spoken(s, d) /\ log'.wanted = log.wanted
  <2>1. PICK id \in 2..IdLimit, p \in PacketSet : Forwarded(s, answer, f, id, p)
    BY <1>1, <1>9, ForwardIs
  <2>2. /\ DOMAIN server'.channels = DOMAIN s.channels \cup {id}
        /\ \A n \in DOMAIN s.channels : server'.channels[n] = s.channels[n]
        /\ ~server'.channels[id].wants_reply
        /\ p.type # "SUCCESS" /\ log'.wanted = log.wanted
        /\ down' = down \o Append(answer, p)
    BY <2>1 DEF Forwarded, LogGrows
  <2>3. \A ch \in Channels : Owing(server', ch) \subseteq Owing(s, ch)
    BY <2>2 DEF Owing
  <2>4. down' = Append(d, p)
    BY <1>4, <2>2
  <2> QED
    BY <2>2, <2>3, <2>4 DEF Spoken
<1>10. LogGrows => log'.wanted = log.wanted
  BY DEF LogGrows
<1> QED
  BY <1>3, <1>5, <1>6, <1>7, <1>8, <1>9, <1>10 DEF d

LEMMA CountsUp ==
    ASSUME NEW d \in Seq(PacketSet), NEW p \in PacketSet, NEW ch
    PROVE  /\ Count(Append(d, p), Replies(ch)) \in Nat /\ Count(d, Replies(ch)) \in Nat
           /\ Count(Append(d, p), Replies(ch)) <= Count(d, Replies(ch)) + 1
           /\ p.type # "SUCCESS" \/ p.of # ch
                 => Count(Append(d, p), Replies(ch)) = Count(d, Replies(ch))
<1>1. Count(d, Replies(ch)) \in Nat
  BY CountType
<1>2. Count(Append(d, p), Replies(ch))
          = Count(d, Replies(ch)) + IF p \in Replies(ch) THEN 1 ELSE 0
  BY CountAppend
<1>3. p.type # "SUCCESS" \/ p.of # ch => p \notin Replies(ch)
  BY DEF Replies
<1> QED
  BY <1>1, <1>2, <1>3

LEMMA AccountedCalled ==
    ASSUME Core, Accounted(heard, down, server, up, log), Called
    PROVE  Accounted(heard, down', server', up', log')
<1>1. PICK s, answer : Bringing(s, answer)
  BY CalledBrings
<1>2. /\ ServerOK(s) /\ Handler(s, answer) /\ Balanced(s) /\ Mute(answer)
      /\ up' = up \/ (up # <<>> /\ up' = Tail(up))
      /\ answer \in Seq(PacketSet)
  <2>1. ASSUME NEW q \in PacketSet, answer = <<q>> PROVE answer \in Seq(PacketSet)
    BY <2>1
  <2>2. answer = <<>> => answer \in Seq(PacketSet)
    OBVIOUS
  <2>3. Mute(answer) => answer \in Seq(PacketSet)
    BY <2>1, <2>2, Zenon DEF Mute
  <2> QED
    BY <1>1, <2>3 DEF Bringing
<1>3. /\ down \in Seq(PacketSet) /\ up \in Seq(PacketSet) /\ log \in LogSet
      /\ heard \in [Channels -> Seq(HeardSet)]
      /\ IsTable(server.channels, EntrySet) /\ IsTable(s.channels, EntrySet)
  BY <1>2, CoreParts DEF ServerOK, IsSession
<1> DEFINE d == down \o answer
<1>4. Spoken(s, d) /\ log'.wanted = log.wanted
  BY <1>2, HandlerSpeaks
<1>5. d \in Seq(PacketSet)
  BY <1>2, <1>3, ConcatTyped
<1>6. \A ch \in Channels : Count(d, Replies(ch)) = Count(down, Replies(ch))
  <2>1. CASE answer = <<>>
    <3>1. d = down
      BY <1>3, <2>1
    <3> QED
      BY <3>1
  <2>2. ASSUME NEW q \in PacketSet, q.type # "SUCCESS", answer = <<q>>
        PROVE  \A ch \in Channels : Count(d, Replies(ch)) = Count(down, Replies(ch))
    <3>1. d = Append(down, q)
      BY <1>3, <2>2
    <3> HIDE DEF d
    <3> QED
      BY <1>3, <2>2, <3>1, CountsUp
  <2> QED
    BY <1>2, <2>1, <2>2 DEF Mute
<1> HIDE DEF d
<1> SUFFICES ASSUME NEW ch \in Channels
             PROVE  Count(heard[ch], Told) + Count(down', Replies(ch)) + Owes(server', ch)
                        + Count(up', Requests(ch)) <= log.wanted[ch]
  BY <1>4 DEF Accounted
<1> DEFINE H == Count(heard[ch], Told)
           D == Count(down, Replies(ch))
           O == Owes(server, ch)
           U == Count(up, Requests(ch))
           V == Count(up', Requests(ch))
           M == Owes(s, ch)
           W == log.wanted[ch]
<1>7. /\ H \in Nat /\ D \in Nat /\ O \in Nat /\ U \in Nat /\ V \in Nat /\ M \in Nat
      /\ V <= U
      /\ W \in Nat /\ H + D + O + U <= W /\ M + V <= O + U
  <2>1. H \in Nat /\ D \in Nat
    BY <1>3, CountType
  <2>2. O \in Nat /\ M \in Nat
    BY <1>3, OwesType
  <2>3. U \in Nat /\ V \in Nat /\ V <= U
    BY <1>2, <1>3, CountLess
  <2>4. W \in Nat
    BY <1>3 DEF LogSet
  <2>5. H + D + O + U <= W /\ M + V <= O + U
    BY <1>2 DEF Accounted, Balanced
  <2> QED
    BY <2>1, <2>2, <2>3, <2>4, <2>5
<1> DEFINE E == Count(down', Replies(ch))
           N == Owes(server', ch)
<1> SUFFICES H + E + N + V <= W
  OBVIOUS
<1>8. CASE server'.channels = server.channels /\ down' = down
  <2>1. N = O /\ E = D
    BY <1>8 DEF Owes, Owing
  <2> HIDE DEF H, D, O, U, V, M, W, E, N
  <2> QED
    BY <1>7, <2>1
<1>9. CASE /\ \A c \in Channels : Owing(server', c) \subseteq Owing(s, c)
           /\ down' = d \/ \E p \in PacketSet : p.type # "SUCCESS" /\ down' = Append(d, p)
  <2>1. N <= M /\ N \in Nat
    <3>1. IsFiniteSet(Owing(s, ch)) /\ Owing(server', ch) \subseteq Owing(s, ch)
      BY <1>3, <1>9, OwesType
    <3> QED
      BY <3>1, FS_Subset, FS_CardinalityType DEF Owes
  <2>2. E = D
    BY <1>5, <1>6, <1>9, CountsUp
  <2> HIDE DEF H, D, O, U, V, M, W, E, N
  <2> QED
    BY <1>7, <2>1, <2>2
<1>10. ASSUME NEW id \in DOMAIN s.channels, NEW p \in PacketSet,
              s.channels[id].wants_reply, p.of = s.channels[id].of,
              \A c \in Channels : Owing(server', c) \subseteq Owing(s, c) \ {id},
              down' = Append(d, p)
       PROVE  H + E + N + V <= W
  <2>1. N \in Nat
    <3>1. IsFiniteSet(Owing(s, ch)) /\ Owing(server', ch) \subseteq Owing(s, ch)
      BY <1>3, <1>10, OwesType
    <3> QED
      BY <3>1, FS_Subset, FS_CardinalityType DEF Owes
  <2>2. CASE p.of = ch
    <3>1. id \in Owing(s, ch)
      BY <1>10, <2>2 DEF Owing
    <3>2. N + 1 <= M
      BY <1>3, <1>10, <3>1, OwesOneLess
    <3>3. E <= D + 1 /\ E \in Nat
      BY <1>5, <1>6, <1>10, CountsUp
    <3> HIDE DEF H, D, O, U, V, M, W, E, N
    <3> QED
      BY <1>7, <2>1, <3>2, <3>3
  <2>3. CASE p.of # ch
    <3>1. N <= M
      BY <1>3, <1>10, OwesLess
    <3>2. E = D
      BY <1>5, <1>6, <1>10, <2>3, CountsUp
    <3> HIDE DEF H, D, O, U, V, M, W, E, N
    <3> QED
      BY <1>7, <2>1, <3>1, <3>2
  <2> QED
    BY <2>2, <2>3
<1> QED
  BY <1>4, <1>8, <1>9, <1>10 DEF Spoken

(* The other steps: what disappears from one count may appear in the next. *)
LEMMA AccountedMoves ==
    ASSUME Core, Core', Accounted(heard, down, server, up, log),
           server'.channels = server.channels,
           \A ch \in Channels : Count(heard'[ch], Told) + Count(down', Replies(ch))
                                    <= Count(heard[ch], Told) + Count(down, Replies(ch)),
           \A ch \in Channels : Count(up', Requests(ch)) + log.wanted[ch]
                                    <= Count(up, Requests(ch)) + log'.wanted[ch]
    PROVE  Accounted(heard', down', server', up', log')
<1>1. /\ down \in Seq(PacketSet) /\ up \in Seq(PacketSet) /\ log \in LogSet
      /\ heard \in [Channels -> Seq(HeardSet)]
      /\ IsTable(server.channels, EntrySet)
  BY CoreParts DEF ServerOK, IsSession
<1>2. /\ down' \in Seq(PacketSet) /\ up' \in Seq(PacketSet) /\ log' \in LogSet
      /\ heard' \in [Channels -> Seq(HeardSet)]
  <2>1. TypeOK'
    BY DEF Core
  <2> QED
    BY <2>1 DEF TypeOK, LogSet, HeardSet
<1> SUFFICES ASSUME NEW ch \in Channels
             PROVE  Count(heard'[ch], Told) + Count(down', Replies(ch)) + Owes(server', ch)
                        + Count(up', Requests(ch)) <= log'.wanted[ch]
  BY DEF Accounted
<1> DEFINE H1 == Count(heard[ch], Told)
           H2 == Count(heard'[ch], Told)
           D1 == Count(down, Replies(ch))
           D2 == Count(down', Replies(ch))
           U1 == Count(up, Requests(ch))
           U2 == Count(up', Requests(ch))
           O1 == Owes(server, ch)
           O2 == Owes(server', ch)
           W1 == log.wanted[ch]
           W2 == log'.wanted[ch]
<1>3. /\ H1 \in Nat /\ H2 \in Nat /\ D1 \in Nat /\ D2 \in Nat /\ U1 \in Nat /\ U2 \in Nat
  BY <1>1, <1>2, CountType
<1>4. O1 \in Nat /\ O2 = O1
  BY <1>1, OwesType DEF Owes, Owing
<1>5. W1 \in Nat /\ W2 \in Nat
  BY <1>1, <1>2 DEF LogSet
<1>6. H1 + D1 + O1 + U1 <= W1
  BY DEF Accounted
<1>7. H2 + D2 <= H1 + D1 /\ U2 + W1 <= U1 + W2
  OBVIOUS
<1> HIDE DEF H1, H2, D1, D2, U1, U2, O1, O2, W1, W2
<1>8. H2 + D2 + O2 + U2 <= W2
  BY <1>3, <1>4, <1>5, <1>6, <1>7
<1> QED
  BY <1>8 DEF H2, D2, O2, U2, W2

LEMMA AccountedAlone ==
    ASSUME Core, Core', Accounted(heard, down, server, up, log), ServerAlone
    PROVE  Accounted(heard', down', server', up', log')
<1>1. /\ down \in Seq(PacketSet) /\ up \in Seq(PacketSet) /\ log \in LogSet
      /\ heard \in [Channels -> Seq(HeardSet)]
  BY CoreParts
<1>2. up' = up \/ (up # <<>> /\ up' = Tail(up))
  BY DEF ServerAlone, ServerOpenOther, ServerIgnores, ServerHangup, ServerWindowAdjust,
     ServerReads
<1>3. heard' = heard /\ log' = log
  BY DEF ServerAlone, ServerOpenOther, ServerIgnores, ServerHangup, ServerWindowAdjust,
     ServerReads
<1>4. \A ch \in Channels : /\ Count(up', Requests(ch)) <= Count(up, Requests(ch))
                           /\ Count(up', Requests(ch)) \in Nat
                           /\ Count(up, Requests(ch)) \in Nat
                           /\ log.wanted[ch] \in Nat
  BY <1>1, <1>2, CountLess DEF LogSet
<1>5. \A ch \in Channels : Count(up', Requests(ch)) + log.wanted[ch]
                               <= Count(up, Requests(ch)) + log'.wanted[ch]
  BY <1>3, <1>4
<1>6. \A ch \in Channels : Count(heard[ch], Told) \in Nat /\ Count(down, Replies(ch)) \in Nat
  BY <1>1, CountType
<1>7. CASE ServerOpenOther
  <2>1. PICK q \in PacketSet :
              /\ server'.channels = server.channels
              /\ q.type = "OPEN_FAILURE" /\ down' = down \o <<q>>
    BY <1>7, ServerOpenOtherIs
  <2>2. down' = Append(down, q)
    BY <1>1, <2>1
  <2>3. \A ch \in Channels : Count(down', Replies(ch)) = Count(down, Replies(ch))
    BY <1>1, <2>1, <2>2, CountsUp
  <2> QED
    BY <1>3, <1>5, <1>6, <2>1, <2>3, AccountedMoves
<1>8. CASE \/ ServerIgnores \/ ServerHangup
           \/ ServerWindowAdjust /\ Head(up).num \notin DOMAIN server.channels
  <2>1. server'.channels = server.channels /\ down' = down
    BY <1>8, CoreParts DEF ServerIgnores, ServerHangup, ServerWindowAdjust, Ends, ServerOK,
       IsSession
  <2> QED
    BY <1>3, <1>5, <1>6, <2>1, AccountedMoves
<1> QED
  BY <1>7, <1>8 DEF ServerAlone

LEMMA TellCounts ==
    ASSUME Core, NEW num \in 0..IdLimit, NEW what \in Messages, Tell(num, what)
    PROVE  \A ch \in Channels :
              /\ Count(heard[ch], Told) \in Nat
              /\ \/ Count(heard'[ch], Told) = Count(heard[ch], Told)
                 \/ /\ Count(heard'[ch], Told) = Count(heard[ch], Told) + 1
                    /\ what = "SUCCESS" /\ num \in DOMAIN client.channels
                    /\ client.channels[num].of = ch
<1>1. /\ ClientOK(client) /\ heard \in [Channels -> Seq(HeardSet)]
      /\ client.senders = [id \in DOMAIN client.channels |-> client.channels[id].of]
  BY CoreParts DEF Core, TablesAgree
<1>2. \A ch \in Channels : Count(heard[ch], Told) \in Nat
  BY <1>1, CountType
<1>3. CASE num \in DOMAIN client.channels
  <2> DEFINE c == client.channels[num].of
             e == [what |-> what, id |-> num]
  <2>1. heard' = [heard EXCEPT ![c] = Append(@, e)]
    BY <1>1, <1>3 DEF Tell
  <2>2. e \in HeardSet /\ (e \in Told => what = "SUCCESS")
    BY DEF HeardSet, Told
  <2> HIDE DEF e
  <2>3. \A ch \in Channels : heard'[ch] = IF ch = c THEN Append(heard[ch], e) ELSE heard[ch]
    BY <1>1, <2>1
  <2>4. \A ch \in Channels :
            Count(Append(heard[ch], e), Told)
                = Count(heard[ch], Told) + IF e \in Told THEN 1 ELSE 0
    BY <1>1, <2>2, CountAppend
  <2> QED
    BY <1>2, <1>3, <2>2, <2>3, <2>4
<1>4. CASE num \notin DOMAIN client.channels
  BY <1>1, <1>2, <1>4 DEF Tell
<1> QED
  BY <1>3, <1>4

LEMMA RequestsUp ==
    ASSUME NEW u \in Seq(PacketSet), NEW p \in PacketSet, NEW ch
    PROVE  /\ Count(u, Requests(ch)) \in Nat
           /\ \/ Count(Append(u, p), Requests(ch)) = Count(u, Requests(ch))
              \/ /\ Count(Append(u, p), Requests(ch)) = Count(u, Requests(ch)) + 1
                 /\ p.wants /\ p.of = ch
<1>1. Count(u, Requests(ch)) \in Nat
  BY CountType
<1>2. Count(Append(u, p), Requests(ch))
          = Count(u, Requests(ch)) + IF p \in Requests(ch) THEN 1 ELSE 0
  BY CountAppend
<1> QED
  BY <1>1, <1>2 DEF Requests

LEMMA AccountedUse ==
    ASSUME Core, Core', Accounted(heard, down, server, up, log),
           NEW ch \in Channels, NEW type \in UseTypes, ClientUse(ch, type)
    PROVE  Accounted(heard', down', server', up', log')
<1> DEFINE c == client.channels[app[ch].id]
<1>1. /\ UNCHANGED <<server, heard, down>>
      /\ \/ UNCHANGED <<up, log>>
         \/ \E p \in UsePackets(type, c) :
               /\ up' = Append(up, p)
               /\ log' = IF p.wants THEN [log EXCEPT !.wanted[c.of] = @ + 1] ELSE log
  BY DEF ClientUse
<1>2. /\ down \in Seq(PacketSet) /\ up \in Seq(PacketSet) /\ log \in LogSet
      /\ heard \in [Channels -> Seq(HeardSet)] /\ ClientOK(client)
      /\ app[ch].id \in DOMAIN client.channels
  BY CoreParts DEF ClientUse
<1>3. \A k \in Channels : Count(heard[k], Told) \in Nat /\ Count(down, Replies(k)) \in Nat
                          /\ Count(up, Requests(k)) \in Nat /\ log.wanted[k] \in Nat
  BY <1>2, CountType DEF LogSet
<1>4. CASE UNCHANGED <<up, log>>
  BY <1>1, <1>3, <1>4, AccountedMoves
<1>5. ASSUME NEW p \in UsePackets(type, c), up' = Append(up, p),
             log' = IF p.wants THEN [log EXCEPT !.wanted[c.of] = @ + 1] ELSE log
      PROVE  Accounted(heard', down', server', up', log')
  <2>1. c.recipient_channel \in 0..IdLimit /\ c.of \in Channels
    BY <1>2 DEF ClientOK, IsSession, IsTable, EntrySet
  <2> HIDE DEF c
  <2>2. p \in PacketSet /\ p.of = c.of
    <3>1. /\ type \in {"DATA", "EOF", "REQUEST", "CLOSE"}
          /\ 0 \in 0..IdLimit
      BY ChannelAssumption DEF UseTypes
    <3>2. Packet(type, c.recipient_channel, c.of) \in PacketSet
          /\ Packet(type, c.recipient_channel, c.of).of = c.of
      BY <2>1, <3>1 DEF Packet, PacketSet
    <3>3. \A w \in BOOLEAN :
             LET q == [Packet(type, c.recipient_channel, c.of) EXCEPT !.wants = w]
             IN  q \in PacketSet /\ q.of = c.of
      BY <2>1, <3>1 DEF Packet, PacketSet
    <3> QED
      BY <3>2, <3>3 DEF UsePackets
  <2>3. \A k \in Channels :
           log'.wanted[k] = IF p.wants /\ k = c.of THEN log.wanted[k] + 1 ELSE log.wanted[k]
    BY <1>2, <1>5, <2>1 DEF LogSet
  <2>4. \A k \in Channels :
           \/ Count(up', Requests(k)) = Count(up, Requests(k))
           \/ /\ Count(up', Requests(k)) = Count(up, Requests(k)) + 1
              /\ p.wants /\ p.of = k
    BY <1>2, <1>5, <2>2, RequestsUp
  <2>5. \A k \in Channels : Count(up', Requests(k)) + log.wanted[k]
                                <= Count(up, Requests(k)) + log'.wanted[k]
    BY <1>3, <2>2, <2>3, <2>4
  <2>6. \A k \in Channels : Count(heard'[k], Told) + Count(down', Replies(k))
                                <= Count(heard[k], Told) + Count(down, Replies(k))
    BY <1>1, <1>3
  <2> QED
    BY <1>1, <2>5, <2>6, AccountedMoves
<1> QED
  BY <1>1, <1>4, <1>5

LEMMA AccountedClient ==
    ASSUME Core, Core', Accounted(heard, down, server, up, log),
           ClientMoves \/ \E ch \in Calls, type \in Types : CallOpen(ch, type)
    PROVE  Accounted(heard', down', server', up', log')
<1>1. /\ down \in Seq(PacketSet) /\ up \in Seq(PacketSet) /\ log \in LogSet
      /\ heard \in [Channels -> Seq(HeardSet)] /\ ClientOK(client)
  BY CoreParts
<1>2. \A k \in Channels : Count(heard[k], Told) \in Nat /\ Count(down, Replies(k)) \in Nat
                          /\ Count(up, Requests(k)) \in Nat /\ log.wanted[k] \in Nat
  BY <1>1, CountType DEF LogSet
<1> DEFINE Settled == \A k \in Channels : Count(heard'[k], Told) + Count(down', Replies(k))
                                <= Count(heard[k], Told) + Count(down, Replies(k))
           SameUp == \A k \in Channels : Count(up', Requests(k)) = Count(up, Requests(k))
<1>3. Settled /\ SameUp /\ server' = server /\ log' = log
          => Accounted(heard', down', server', up', log')
  BY <1>2, AccountedMoves
<1>4. up' = up => SameUp
  OBVIOUS
<1>5. ASSUME NEW p \in PacketSet, p.type # "REQUEST", up' = Append(up, p) PROVE SameUp
  <2>1. \A k \in Channels : p \notin Requests(k)
    BY <1>5 DEF Requests
  <2>2. \A k \in Channels : Count(Append(up, p), Requests(k))
             = Count(up, Requests(k)) + IF p \in Requests(k) THEN 1 ELSE 0
    BY <1>1, CountAppend
  <2> QED
    BY <1>2, <1>5, <2>1, <2>2
<1>6. down' = down \/ (down # <<>> /\ down' = Tail(down))
          => \A k \in Channels : /\ Count(down', Replies(k)) <= Count(down, Replies(k))
                                 /\ Count(down', Replies(k)) \in Nat
  BY <1>1, CountLess
<1>7. heard' = heard /\ (down' = down \/ (down # <<>> /\ down' = Tail(down))) => Settled
  BY <1>2, <1>6
<1>8. ASSUME NEW num \in 0..IdLimit, NEW what \in Messages \ {"SUCCESS"}, Tell(num, what),
             down # <<>>, down' = Tail(down)
      PROVE  Settled
  <2>1. \A k \in Channels : Count(heard'[k], Told) = Count(heard[k], Told)
    BY <1>8, TellCounts
  <2> QED
    BY <1>2, <1>6, <1>8, <2>1
<1>9. ASSUME down # <<>> PROVE Head(down).num \in 0..IdLimit
  BY <1>9, HeadIs DEF PacketSet
<1> HIDE DEF Settled, SameUp
<1>10. ASSUME NEW ch \in Calls, NEW type \in Types, CallOpen(ch, type)
       PROVE  Accounted(heard', down', server', up', log')
  <2>1. PICK p \in PacketSet : p.type \in Asking /\ up' = Append(up, p)
    BY <1>10, CallOpenIs
  <2>2. UNCHANGED <<server, heard, down, log>>
    BY <1>10 DEF CallOpen
  <2>3. SameUp
    BY <1>5, <2>1 DEF Asking
  <2> QED
    BY <1>3, <1>7, <2>2, <2>3
<1>11. CASE \E ch \in Calls : Returned(ch)
  <2>1. UNCHANGED <<server, heard, up, down, log>>
    BY <1>11 DEF Returned, CallReturnsChannel, CallFails
  <2> QED
    BY <1>3, <1>4, <1>7, <2>1
<1>12. CASE \E ch \in Channels, type \in UseTypes : ClientUse(ch, type)
  BY <1>12, AccountedUse
<1>13. CASE ClientConfirmation
  <2>1. /\ UNCHANGED <<server, up, log>> /\ down # <<>> /\ down' = Tail(down)
        /\ Tell(Head(down).num, "Open") \/ heard' = heard
    BY <1>13 DEF ClientConfirmation, ClientReads
  <2> QED
    BY <1>3, <1>4, <1>7, <1>8, <1>9, <2>1 DEF Messages
<1>14. CASE ClientClosed \/ ClientIgnores \/ ClientForwardIgnored
  <2>1. UNCHANGED <<server, heard, up, log>> /\ down # <<>> /\ down' = Tail(down)
    BY <1>14 DEF ClientClosed, ClientIgnores, ClientForwardIgnored, ClientReads
  <2> QED
    BY <1>3, <1>4, <1>7, <2>1
<1>15. CASE ClientTold
  <2> DEFINE p == Head(down)
  <2>1. /\ UNCHANGED <<server, up, log>> /\ down # <<>> /\ down' = Tail(down)
        /\ p.type \in {"EOF", "REQUEST", "SUCCESS"} /\ Tell(p.num, p.type)
    BY <1>15 DEF ClientTold, ClientReads
  <2>2. CASE p.type # "SUCCESS"
    BY <1>3, <1>4, <1>8, <1>9, <2>1, <2>2 DEF Messages
  <2>3. CASE p.type = "SUCCESS"
    <3>1. p \in PacketSet /\ Owned(client, p.num, p.of) /\ p.num \in 0..IdLimit
      BY <2>1, <2>3, HeadIs DEF DownGood, PacketSet
    <3>2. \A k \in Channels :
             \/ Count(heard'[k], Told) = Count(heard[k], Told)
             \/ /\ Count(heard'[k], Told) = Count(heard[k], Told) + 1
                /\ p.num \in DOMAIN client.channels
                /\ client.channels[p.num].of = k
      BY <2>1, <3>1, TellCounts DEF Messages
    <3>3. \A k \in Channels :
             Count(down, Replies(k))
                = Count(down', Replies(k)) + IF p \in Replies(k) THEN 1 ELSE 0
      BY <1>1, <2>1, CountTail
    <3>4. \A k \in Channels : Count(down', Replies(k)) \in Nat
      BY <1>6, <2>1
    <3>5. \A k \in Channels : k = p.of => p \in Replies(k)
      BY <2>3, <3>1 DEF Replies
    <3> HIDE DEF p
    <3>6. Settled
      <4> SUFFICES ASSUME NEW k \in Channels
                   PROVE  Count(heard'[k], Told) + Count(down', Replies(k))
                              <= Count(heard[k], Told) + Count(down, Replies(k))
        BY DEF Settled
      <4>1. CASE Count(heard'[k], Told) = Count(heard[k], Told)
        BY <1>2, <3>3, <3>4, <4>1
      <4>2. CASE /\ Count(heard'[k], Told) = Count(heard[k], Told) + 1
                 /\ p.num \in DOMAIN client.channels
                 /\ client.channels[p.num].of = k
        <5>1. k = p.of
          BY <3>1, <4>2 DEF Owned
        <5> QED
          BY <1>2, <3>3, <3>4, <3>5, <4>2, <5>1
      <4> QED
        BY <3>2, <4>1, <4>2
    <3> QED
      BY <1>3, <1>4, <2>1, <3>6
  <2> QED
    BY <2>2, <2>3
<1>16. CASE ClientData
  <2>1. /\ UNCHANGED <<server, log>> /\ down # <<>> /\ down' = Tail(down)
        /\ Tell(Head(down).num, "DATA")
    BY <1>16 DEF ClientData, ClientReads
  <2>2. Settled
    BY <1>8, <1>9, <2>1 DEF Messages
  <2>3. SameUp
    <3> DEFINE q == Packet("WINDOW_ADJUST", client.channels[Head(down).num].recipient_channel,
                           client.channels[Head(down).num].of)
    <3>1. PICK answer \in Adjustments(client, Head(down).num) : up' = up \o answer
      BY <1>16 DEF ClientData
    <3>2. answer = <<>> \/ answer = <<q>>
      BY <3>1 DEF Adjustments
    <3>3. answer \in Seq(PacketSet)
      BY <1>1, AdjustmentIs DEF ClientOK, IsSession
    <3>4. q.type = "WINDOW_ADJUST"
      BY DEF Packet
    <3> HIDE DEF q
    <3>5. CASE answer = <<>>
      <4>1. up' = up
        BY <1>1, <3>1, <3>5
      <4> QED
        BY <1>4, <4>1
    <3>6. CASE answer = <<q>>
      <4>1. answer[1] \in PacketSet /\ answer[1] = q
        BY <3>3, <3>6
      <4>2. up' = Append(up, q)
        BY <1>1, <3>1, <3>6
      <4> QED
        BY <1>5, <3>4, <4>1, <4>2
    <3> QED
      BY <3>2, <3>5, <3>6
  <2> QED
    BY <1>3, <2>1, <2>2, <2>3
<1>17. CASE ClientWindowAdjust
  <2>1. /\ UNCHANGED <<server, up, log>> /\ down # <<>> /\ down' = Tail(down)
        /\ Tell(Head(down).num, "WINDOW_ADJUST") \/ heard' = heard
    BY <1>17 DEF ClientWindowAdjust, ClientReads
  <2> QED
    BY <1>3, <1>4, <1>7, <1>8, <1>9, <2>1 DEF Messages
<1>18. CASE ClientForwardAccepted
  <2>1. PICK id \in 2..IdLimit, q \in PacketSet : AcceptedAs(id, Head(down), q)
    BY <1>18, ClientForwardAcceptedIs
  <2>2. UNCHANGED <<server, heard, log>> /\ down # <<>> /\ down' = Tail(down)
    BY <1>18 DEF ClientForwardAccepted, ClientReads
  <2>3. q.type # "REQUEST" /\ up' = Append(up, q)
    BY <2>1 DEF AcceptedAs
  <2>4. SameUp
    BY <1>5, <2>3
  <2> QED
    BY <1>3, <1>7, <2>2, <2>4
<1>19. CASE ClientHangup
  <2>1. UNCHANGED <<server, heard, up, down, log>>
    BY <1>19 DEF ClientHangup
  <2> QED
    BY <1>3, <1>4, <1>7, <2>1
<1> QED
  BY <1>10, <1>11, <1>12, <1>13, <1>14, <1>15, <1>16, <1>17, <1>18, <1>19 DEF ClientMoves

LEMMA AccountedStep ==
    Core /\ Accounted(heard, down, server, up, log) /\ [Next]_vars
        => Accounted(heard', down', server', up', log')
<1> SUFFICES ASSUME Core, Accounted(heard, down, server, up, log), [Next]_vars
             PROVE  Accounted(heard', down', server', up', log')
  OBVIOUS
<1>1. Core'
  BY StepCore
<1>2. CASE ClientMoves \/ \E ch \in Calls, type \in Types : CallOpen(ch, type)
  BY <1>1, <1>2, AccountedClient
<1>3. CASE Called
  <2>1. heard' = heard
    BY <1>3, CalledIs
  <2> QED
    BY <1>3, <2>1, AccountedCalled
<1>4. CASE ServerAlone
  BY <1>1, <1>4, AccountedAlone
<1>5. CASE UNCHANGED vars
  BY <1>5 DEF vars
<1> QED
  BY <1>2, <1>3, <1>4, <1>5, StepKinds

(* However many requests the client writes, in whatever order the server's  *)
(* handler answers them, and whatever it opens, closes or forwards between, *)
(* the answers under way and heard on a Channel never outnumber its         *)
(* requests that wanted one: channel_success of session.rs writes only      *)
(* while wants_reply is set, and clears it with the same call.              *)
THEOREM AnswersWereAskedFor == Spec => []SuccessWasWanted
<1> DEFINE Books == Accounted(heard, down, server, up, log)
<1>1. Init => Books
  BY AccountedInit
<1>2. Core /\ Books /\ [Next]_vars => Books'
  BY AccountedStep DEF Accounted, Owes, Owing, Count, Told, Replies, Requests
<1>3. Core /\ Books => SuccessWasWanted
  <2> SUFFICES ASSUME Core, Accounted(heard, down, server, up, log), NEW ch \in Channels
               PROVE  Successes(ch) <= log.wanted[ch]
    BY DEF SuccessWasWanted
  <2>1. /\ down \in Seq(PacketSet) /\ up \in Seq(PacketSet) /\ log \in LogSet
        /\ heard \in [Channels -> Seq(HeardSet)] /\ ServerOK(server)
    BY CoreParts
  <2>2. heard[ch] \in Seq(HeardSet) /\ log.wanted[ch] \in Nat
    BY <2>1 DEF LogSet
  <2>3. Successes(ch) = Count(heard[ch], Told) + Count(down, Replies(ch))
    <3>1. {i \in DOMAIN heard[ch] : heard[ch][i].what = "SUCCESS"}
             = {i \in DOMAIN heard[ch] : heard[ch][i] \in Told}
      <4>1. \A i \in DOMAIN heard[ch] : heard[ch][i] \in HeardSet
        BY <2>2
      <4> QED
        BY <4>1 DEF Told
    <3>2. {i \in DOMAIN down : down[i].type = "SUCCESS" /\ down[i].of = ch}
             = {i \in DOMAIN down : down[i] \in Replies(ch)}
      <4>1. \A i \in DOMAIN down : down[i] \in PacketSet
        BY <2>1
      <4> QED
        BY <4>1 DEF Replies
    <3> QED
      BY <3>1, <3>2 DEF Successes, Count
  <2>4. /\ Count(heard[ch], Told) \in Nat /\ Count(down, Replies(ch)) \in Nat
        /\ Count(up, Requests(ch)) \in Nat
    BY <2>1, <2>2, CountType
  <2>5. Owes(server, ch) \in Nat
    BY <2>1, OwesType DEF ServerOK, IsSession
  <2>6. Count(heard[ch], Told) + Count(down, Replies(ch)) + Owes(server, ch)
            + Count(up, Requests(ch)) <= log.wanted[ch]
    BY DEF Accounted
  <2> QED
    BY <2>2, <2>3, <2>4, <2>5, <2>6
<1> HIDE DEF Books
<1> QED
  BY <1>1, <1>2, <1>3, Invariance, PTL DEF Spec

=============================================================================
