---------------------------- MODULE ClientProofs ----------------------------
(***************************************************************************)
(* The client and the leaders it meets, for any number of leaders,         *)
(* messages and commands and for every size of the ring of timestamps.     *)
(***************************************************************************)
EXTENDS Client, FiniteSetTheorems, SequenceTheorems, TLAPS

Places   == [main : {"connect", "login", "answer", "run", "accept", "info", "dial",
                     "relogin", "reanswer", "exit"},
             input : {"input", "closing", "loop", "left", "done"},
             listen : {"check", "read", "done"}]
Flags    == [continue : BOOLEAN, over : BOOLEAN, closed : BOOLEAN, lost : BOOLEAN]
Sockets  == [peer : Leaders, open : BOOLEAN, out : Seq(Packets), in : Seq(Answers)]
Calls    == [backlog : Seq(0..MaxLeaders), from : 0..MaxLeaders]
Slots    == 0..(RingSize - 1)
Rings    == [at : Slots, ids : [Slots -> 0..MaxMessages]]
Sessions == {"none", "committing", "created", "open", "refused", "unanswered", "closed"}
Servers  == [leader : Leaders, up : BOOLEAN, known : BOOLEAN, session : Sessions,
             unread : SUBSET Messages, nextUnread : SUBSET Messages]

Typed ==
    /\ pc \in Places /\ flags \in Flags /\ logged \in BOOLEAN /\ sock \in Sockets
    /\ calls \in Calls /\ ring \in Rings /\ typed \in 0..MaxCommands
    /\ server \in Servers /\ shown \in Seq(Messages)

LEMMA Types == Typed <=> TypeOK
BY DEF TypeOK, Typed, Places, Flags, Sockets, Calls, Slots, Rings, Sessions, Servers

-----------------------------------------------------------------------------
(* The inductive invariant *)

Says == \E k \in DOMAIN sock.out : sock.out[k] = "CLOSE"

\* Only the first leader, and one that the client has dialled, knows of it; a
\* leader the client is not connected to has no session of it.
PeersOK ==
    /\ sock.peer <= server.leader
    /\ ~server.up => server.leader < MaxLeaders
    /\ sock.peer # server.leader => server.session = "none" /\ ~server.known

\* One leader at most has called since the client dialled the last one.
CallsOK ==
    /\ Len(calls.backlog) <= 1
    /\ sock.peer = server.leader => calls.backlog = <<>>
    /\ pc.main \in {"info", "dial"} => calls.backlog = <<>> /\ sock.peer # server.leader
    /\ pc.main = "accept" => ServerGone

\* Why the handlers end, and what the flags say when they have.
HandlersOK ==
    /\ pc.main # "run" => pc.input = "done" /\ pc.listen = "done"
    /\ pc.main \notin {"run", "exit"} => ~flags.over /\ ~flags.closed /\ ~flags.lost
    /\ flags.over => flags.closed \/ flags.lost
    /\ flags.lost => flags.over /\ ServerGone
    /\ pc.main \in {"login", "answer", "relogin", "reanswer"} => sock.open
    /\ pc.main = "run" => sock.open \/ flags.lost
    /\ pc.main = "run" /\ (pc.listen = "done" \/ pc.input = "left") =>
          flags.over \/ Interrupted
    /\ flags.closed => Interrupted \/ ServerGone \/ server.session = "closed"

\* The answers on their way are true; a client that runs was let in, and one whose
\* user thread has ended has asked to be let out, unless nobody is there to ask.
SessionOK ==
    /\ pc.main \in {"connect", "login", "relogin"} =>
          server.session = "none" /\ sock.out = <<>> /\ sock.in = <<>>
    /\ \A k \in DOMAIN sock.in :
          /\ sock.in[k].type = "SUCCESS" =>
                ServerGone \/ server.session \in {"open", "closed"}
          /\ sock.in[k].type = "CLOSE" => ServerGone \/ server.session = "closed"
          /\ sock.in[k].type = "MESSAGE" => sock.in[k].id \in Messages
    /\ pc.main \in {"connect", "login", "answer"} => ~logged
    /\ pc.main = "run" => ServerGone \/ server.session \in {"open", "closed"}
    /\ pc.main = "run" /\ pc.input = "done" =>
          ServerGone \/ server.session = "closed" \/ Says
    /\ pc.main = "exit" /\ logged =>
          ServerGone \/ server.session = "closed" \/ (server.session = "open" /\ Says)

\* The slot that was filled d messages ago.
Back(d) == IF d <= ring.at THEN ring.at - d ELSE ring.at - d + RingSize

\* The ring holds the last messages that were shown, as many as it has slots, and
\* none of them is shown again before it is overwritten.
RingOK ==
    /\ \A d \in Slots : d < Len(shown) => ring.ids[Back(d)] = shown[Len(shown) - d]
    /\ \A j, k \in DOMAIN shown : j < k /\ k - j <= RingSize => shown[j] # shown[k]

Core == Typed /\ PeersOK /\ CallsOK /\ HandlersOK /\ SessionOK

IInv == Core /\ RingOK

-----------------------------------------------------------------------------
(* The parts of the state *)

LEMMA SocketIs ==
    ASSUME NEW s \in Sockets
    PROVE  /\ s = [peer |-> s.peer, open |-> s.open, out |-> s.out, in |-> s.in]
           /\ s.peer \in Leaders /\ s.open \in BOOLEAN
           /\ s.out \in Seq(Packets) /\ s.in \in Seq(Answers)
BY DEF Sockets

LEMMA SocketOf ==
    ASSUME NEW p \in Leaders, NEW o \in BOOLEAN, NEW out \in Seq(Packets),
           NEW in \in Seq(Answers)
    PROVE  [peer |-> p, open |-> o, out |-> out, in |-> in] \in Sockets
BY DEF Sockets

\* What is sent goes behind what is on its way, or nowhere.
LEMMA SentIs ==
    ASSUME sock \in Sockets, NEW type \in Packets
    PROVE  /\ Sent(type) \in Sockets
           /\ Sent(type).peer = sock.peer /\ Sent(type).open = sock.open
           /\ Sent(type).in = sock.in
           /\ Sent(type).out = IF sock.open /\ ~ServerGone THEN Append(sock.out, type)
                               ELSE sock.out
<1> DEFINE out == Append(sock.out, type)
<1>0. out \in Seq(Packets)
  BY SocketIs
<1>1. Sent(type) = IF sock.open /\ ~ServerGone THEN [sock EXCEPT !.out = out] ELSE sock
  BY DEF Sent
<1>2. [sock EXCEPT !.out = out] =
         [peer |-> sock.peer, open |-> sock.open, out |-> out, in |-> sock.in]
  <2> HIDE DEF out
  <2> QED BY SocketIs
<1> HIDE DEF out
<1>3. CASE sock.open /\ ~ServerGone
  <2>1. Sent(type) \in Sockets
    BY <1>0, <1>1, <1>2, <1>3, SocketIs, SocketOf
  <2>2. Sent(type) = [peer |-> sock.peer, open |-> sock.open, out |-> out, in |-> sock.in]
    BY <1>1, <1>2, <1>3
  <2> QED BY <1>3, <2>1, <2>2 DEF out
<1>4. CASE ~(sock.open /\ ~ServerGone)
  <2>1. Sent(type) = sock
    BY <1>1, <1>4
  <2> QED BY <1>4, <2>1
<1> QED BY <1>3, <1>4

LEMMA RepliedIs ==
    ASSUME sock \in Sockets, NEW type \in {"SUCCESS", "ERROR", "CLOSE", "MESSAGE"},
           NEW id \in 0..MaxMessages
    PROVE  /\ Replied(type, id) \in Sockets
           /\ Replied(type, id).peer = sock.peer /\ Replied(type, id).open = sock.open
           /\ Replied(type, id).out = sock.out
           /\ Replied(type, id).in = IF sock.open /\ Running
                                     THEN Append(sock.in, [type |-> type, id |-> id])
                                     ELSE sock.in
           /\ \A k \in DOMAIN Replied(type, id).in :
                 \/ Replied(type, id).in[k].type = type /\ Replied(type, id).in[k].id = id
                 \/ k \in DOMAIN sock.in /\ Replied(type, id).in[k] = sock.in[k]
<1> DEFINE p  == [type |-> type, id |-> id]
           in == Append(sock.in, p)
<1>0. /\ in \in Seq(Answers)
      /\ \A k \in DOMAIN in : \/ in[k].type = type /\ in[k].id = id
                              \/ k \in DOMAIN sock.in /\ in[k] = sock.in[k]
  <2>1. p \in Answers /\ p.type = type /\ p.id = id
    BY DEF Answers
  <2> HIDE DEF p
  <2>2. sock.in \in Seq(Answers)
    BY SocketIs
  <2>3. \A k \in DOMAIN in : in[k] = p \/ (k \in DOMAIN sock.in /\ in[k] = sock.in[k])
    BY <2>1, <2>2
  <2> QED BY <2>1, <2>2, <2>3
<1>1. Replied(type, id) = IF sock.open /\ Running THEN [sock EXCEPT !.in = in] ELSE sock
  BY DEF Replied
<1>2. [sock EXCEPT !.in = in] =
         [peer |-> sock.peer, open |-> sock.open, out |-> sock.out, in |-> in]
  <2> HIDE DEF in
  <2> QED BY SocketIs
<1> HIDE DEF in
<1>3. CASE sock.open /\ Running
  <2>1. Replied(type, id) \in Sockets
    BY <1>0, <1>1, <1>2, <1>3, SocketIs, SocketOf
  <2>2. Replied(type, id) = [peer |-> sock.peer, open |-> sock.open, out |-> sock.out, in |-> in]
    BY <1>1, <1>2, <1>3
  <2> QED BY <1>0, <1>3, <2>1, <2>2 DEF in
<1>4. CASE ~(sock.open /\ Running)
  <2>1. Replied(type, id) = sock
    BY <1>1, <1>4
  <2> QED BY <1>4, <2>1
<1> QED BY <1>3, <1>4

LEMMA ServerIs ==
    ASSUME server \in Servers
    PROVE  /\ server = [leader |-> server.leader, up |-> server.up, known |-> server.known,
                        session |-> server.session, unread |-> server.unread,
                        nextUnread |-> server.nextUnread]
           /\ server.leader \in Leaders /\ server.up \in BOOLEAN /\ server.known \in BOOLEAN
           /\ server.session \in Sessions
           /\ server.unread \subseteq Messages /\ server.nextUnread \subseteq Messages
BY DEF Servers

LEMMA ServerOf ==
    ASSUME NEW l \in Leaders, NEW up \in BOOLEAN, NEW known \in BOOLEAN,
           NEW session \in Sessions, NEW unread \in SUBSET Messages,
           NEW next \in SUBSET Messages
    PROVE  [leader |-> l, up |-> up, known |-> known, session |-> session,
            unread |-> unread, nextUnread |-> next] \in Servers
BY DEF Servers

\* A step of the leader's session changes no other field.
LEMMA SessionIs ==
    ASSUME server \in Servers, NEW s \in Sessions, Session(s)
    PROVE  /\ server' \in Servers /\ server'.session = s /\ server'.leader = server.leader
           /\ server'.up = server.up /\ server'.known = server.known
           /\ server'.unread = server.unread /\ server'.nextUnread = server.nextUnread
<1>1. server' = [leader |-> server.leader, up |-> server.up, known |-> server.known,
                 session |-> s, unread |-> server.unread, nextUnread |-> server.nextUnread]
  BY ServerIs DEF Session
<1> QED BY <1>1, ServerIs, ServerOf

LEMMA FlagsAre ==
    ASSUME flags \in Flags
    PROVE  /\ flags = [continue |-> flags.continue, over |-> flags.over,
                       closed |-> flags.closed, lost |-> flags.lost]
           /\ flags.continue \in BOOLEAN /\ flags.over \in BOOLEAN
           /\ flags.closed \in BOOLEAN /\ flags.lost \in BOOLEAN
BY DEF Flags

LEMMA FlagsOf ==
    ASSUME NEW c \in BOOLEAN, NEW o \in BOOLEAN, NEW d \in BOOLEAN, NEW l \in BOOLEAN
    PROVE  [continue |-> c, over |-> o, closed |-> d, lost |-> l] \in Flags
BY DEF Flags

LEMMA PlacesAre ==
    ASSUME pc \in Places
    PROVE  /\ pc = [main |-> pc.main, input |-> pc.input, listen |-> pc.listen]
           /\ \A l, m : Main(l, m) =>
                 pc.main = l /\ pc' = [main |-> m, input |-> pc.input, listen |-> pc.listen]
           /\ \A l, m : Input(l, m) =>
                 pc.input = l /\ pc' = [main |-> pc.main, input |-> m, listen |-> pc.listen]
           /\ \A l, m : Listen(l, m) =>
                 pc.listen = l /\ pc' = [main |-> pc.main, input |-> pc.input, listen |-> m]
BY DEF Places, Main, Input, Listen

LEMMA ConnectedIs ==
    ASSUME NEW s \in Leaders
    PROVE  /\ Connected(s) \in Sockets /\ Connected(s).peer = s /\ Connected(s).open
           /\ Connected(s).out = <<>> /\ Connected(s).in = <<>>
BY DEF Connected, Sockets

\* What is read of a socket.
InRead  == [sock EXCEPT !.in = Tail(@)]
OutRead == [sock EXCEPT !.out = Tail(@)]

LEMMA TakenIn ==
    ASSUME sock \in Sockets, sock.in # <<>>, NEW s, s = InRead
    PROVE  /\ s \in Sockets /\ s.peer = sock.peer /\ s.open = sock.open /\ s.out = sock.out
           /\ s.in = Tail(sock.in)
           /\ \A k \in DOMAIN s.in : k + 1 \in DOMAIN sock.in /\ s.in[k] = sock.in[k + 1]
           /\ Head(sock.in) \in Answers /\ 1 \in DOMAIN sock.in /\ Head(sock.in) = sock.in[1]
<1> DEFINE in == Tail(sock.in)
<1>1. in \in Seq(Answers) /\ Head(sock.in) \in Answers /\ 1 \in DOMAIN sock.in
      /\ Head(sock.in) = sock.in[1]
      /\ \A k \in DOMAIN in : k + 1 \in DOMAIN sock.in /\ in[k] = sock.in[k + 1]
  BY SocketIs
<1>2. s = [sock EXCEPT !.in = in]
  BY DEF InRead
<1> HIDE DEF in
<1>0. /\ sock = [peer |-> sock.peer, open |-> sock.open, out |-> sock.out, in |-> sock.in]
      /\ sock.peer \in Leaders /\ sock.open \in BOOLEAN /\ sock.out \in Seq(Packets)
      /\ in \in Seq(Answers)
  BY <1>1, SocketIs
<1>3. s = [peer |-> sock.peer, open |-> sock.open, out |-> sock.out, in |-> in]
  BY <1>0, <1>2
<1>4. s \in Sockets
  BY <1>0, <1>3 DEF Sockets
<1> QED BY <1>1, <1>3, <1>4 DEF in

LEMMA TakenOut ==
    ASSUME sock \in Sockets, sock.out # <<>>, NEW s, s = OutRead
    PROVE  /\ s \in Sockets /\ s.peer = sock.peer /\ s.open = sock.open /\ s.in = sock.in
           /\ s.out = Tail(sock.out)
           /\ \A k \in DOMAIN sock.out : k # 1 =>
                 k - 1 \in DOMAIN s.out /\ s.out[k - 1] = sock.out[k]
           /\ Head(sock.out) = sock.out[1]
<1> DEFINE o == Tail(sock.out)
<1>1. o \in Seq(Packets) /\ Head(sock.out) = sock.out[1]
      /\ \A k \in DOMAIN sock.out : k # 1 => k - 1 \in DOMAIN o /\ o[k - 1] = sock.out[k]
  BY SocketIs
<1>2. s = [sock EXCEPT !.out = o]
  BY DEF OutRead
<1> HIDE DEF o
<1>0. /\ sock = [peer |-> sock.peer, open |-> sock.open, out |-> sock.out, in |-> sock.in]
      /\ sock.peer \in Leaders /\ sock.open \in BOOLEAN /\ sock.in \in Seq(Answers)
      /\ o \in Seq(Packets)
  BY <1>1, SocketIs
<1>3. s = [peer |-> sock.peer, open |-> sock.open, out |-> o, in |-> sock.in]
  BY <1>0, <1>2
<1>4. s \in Sockets
  BY <1>0, <1>3 DEF Sockets
<1> QED BY <1>1, <1>3, <1>4 DEF o


\* What it takes for a CLOSE that is on its way to stay there.
LEMMA SaysSent ==
    ASSUME sock \in Sockets, NEW type \in Packets, sock' = Sent(type)
    PROVE  /\ Says => Says'
           /\ type = "CLOSE" /\ sock.open /\ ~ServerGone => Says'
<1>1. sock.out \in Seq(Packets)
  BY SocketIs
<1>2. CASE sock.open /\ ~ServerGone
  <2>1. sock'.out = Append(sock.out, type)
    BY <1>2, SentIs
  <2>2. /\ \A k \in DOMAIN sock.out : k \in DOMAIN sock'.out /\ sock'.out[k] = sock.out[k]
        /\ Len(sock.out) + 1 \in DOMAIN sock'.out
        /\ sock'.out[Len(sock.out) + 1] = type
    BY <1>1, <2>1
  <2> QED BY <2>2 DEF Says
<1>3. CASE ~(sock.open /\ ~ServerGone)
  <2>1. sock'.out = sock.out
    BY <1>3, SentIs
  <2> QED BY <1>3, <2>1 DEF Says
<1> QED BY <1>2, <1>3

LEMMA SaysTaken ==
    ASSUME sock \in Sockets, sock.out # <<>>, sock' = OutRead, Head(sock.out) # "CLOSE"
    PROVE  Says => Says'
<1>1. \A k \in DOMAIN sock.out : k # 1 => /\ k - 1 \in DOMAIN sock'.out
                                          /\ sock'.out[k - 1] = sock.out[k]
  BY TakenOut
<1>2. \A k \in DOMAIN sock.out : sock.out[k] = "CLOSE" => k # 1
  BY TakenOut
<1> QED BY <1>1, <1>2 DEF Says

LEMMA LoginConnectKept ==
    ASSUME Core, LoginConnect
    PROVE  Core'
<1>0. /\ Core /\ pc \in Places /\ flags \in Flags /\ logged \in BOOLEAN /\ sock \in Sockets
      /\ calls \in Calls /\ ring \in Rings /\ typed \in 0..MaxCommands
      /\ server \in Servers /\ shown \in Seq(Messages)
  BY DEF Core, Typed
<1>a. LoginConnect
  OBVIOUS
<1>1. CASE Main("connect", "login") /\ ~Interrupted /\ ~ServerGone /\ sock' = Connected(sock.peer)
  <2>1. /\ pc.main = "connect"
        /\ pc' = [main |-> "login", input |-> pc.input, listen |-> pc.listen]
    BY <1>a, <1>1, <1>0, PlacesAre
  <2>2. /\ sock' \in Sockets
        /\ sock'.peer = sock.peer
        /\ sock'.open
        /\ sock'.out = <<>>
        /\ sock'.in = <<>>
    BY <1>a, <1>1, <2>1, <1>0, SocketIs, ConnectedIs
  <2>3. /\ flags' = flags
        /\ logged' = logged
        /\ calls' = calls
        /\ ring' = ring
        /\ typed' = typed
        /\ server' = server
        /\ shown' = shown
    BY <1>a, <1>1 DEF LoginConnect
  <2>4. Typed'
    BY <1>0, <2>1, <2>2, <2>3 DEF Core, Typed, Places
  <2>5. PeersOK'
    BY <1>1, <1>0, <2>1, <2>2, <2>3 DEF Core, PeersOK, Leaders, ServerGone, Interrupted
  <2>6. CallsOK'
    BY <1>1, <1>0, <2>1, <2>2, <2>3 DEF Core, CallsOK, HandlersOK, ServerGone, Interrupted
  <2>7. HandlersOK'
    BY <1>1, <1>0, <2>1, <2>2, <2>3 DEF Core, HandlersOK, ServerGone, Interrupted
  <2>8. SessionOK'
    BY <1>1, <1>0, <2>1, <2>2, <2>3 DEF Core, SessionOK, PeersOK, HandlersOK, CallsOK, ServerGone, Interrupted
  <2> QED BY <2>4, <2>5, <2>6, <2>7, <2>8 DEF Core
<1>2. CASE Main("connect", "exit") /\ (Interrupted \/ ServerGone) /\ UNCHANGED sock
  <2>1. /\ pc.main = "connect"
        /\ pc' = [main |-> "exit", input |-> pc.input, listen |-> pc.listen]
    BY <1>a, <1>2, <1>0, PlacesAre
  <2>2. sock' = sock
    BY <1>a, <1>2
  <2>3. /\ flags' = flags
        /\ logged' = logged
        /\ calls' = calls
        /\ ring' = ring
        /\ typed' = typed
        /\ server' = server
        /\ shown' = shown
    BY <1>a, <1>2 DEF LoginConnect
  <2>4. Says' <=> Says
    BY <2>1, <2>2, <2>3 DEF Says
  <2>5. Typed'
    BY <1>0, <2>1, <2>2, <2>3, <2>4 DEF Core, Typed, Places
  <2>6. PeersOK'
    BY <1>2, <1>0, <2>1, <2>2, <2>3, <2>4 DEF Core, PeersOK, Leaders, ServerGone, Interrupted
  <2>7. CallsOK'
    BY <1>2, <1>0, <2>1, <2>2, <2>3, <2>4 DEF Core, CallsOK, HandlersOK, ServerGone, Interrupted
  <2>8. HandlersOK'
    BY <1>2, <1>0, <2>1, <2>2, <2>3, <2>4 DEF Core, HandlersOK, ServerGone, Interrupted
  <2>9. SessionOK'
    BY <1>2, <1>0, <2>1, <2>2, <2>3, <2>4 DEF Core, SessionOK, PeersOK, HandlersOK, CallsOK, ServerGone, Interrupted
  <2> QED BY <2>5, <2>6, <2>7, <2>8, <2>9 DEF Core
<1> QED BY <1>a, <1>1, <1>2 DEF LoginConnect

LEMMA LoginSendKept ==
    ASSUME Core, LoginSend
    PROVE  Core'
<1>0. /\ Core /\ pc \in Places /\ flags \in Flags /\ logged \in BOOLEAN /\ sock \in Sockets
      /\ calls \in Calls /\ ring \in Rings /\ typed \in 0..MaxCommands
      /\ server \in Servers /\ shown \in Seq(Messages)
  BY DEF Core, Typed
<1>a. LoginSend
  OBVIOUS
<1>1. CASE Main("login", "answer") /\ ~Interrupted /\ sock' = Sent("LOGIN")
  <2>1. /\ pc.main = "login"
        /\ pc' = [main |-> "answer", input |-> pc.input, listen |-> pc.listen]
    BY <1>a, <1>1, <1>0, PlacesAre
  <2>2. /\ sock' \in Sockets
        /\ sock'.peer = sock.peer
        /\ sock'.open = sock.open
        /\ sock'.in = sock.in
        /\ sock'.out = IF sock.open /\ ~ServerGone THEN Append(sock.out, "LOGIN") ELSE sock.out
        /\ "LOGIN" \in Packets
    BY <1>a, <1>1, <1>0, SentIs DEF Packets
  <2>3. /\ flags' = flags
        /\ logged' = logged
        /\ calls' = calls
        /\ ring' = ring
        /\ typed' = typed
        /\ server' = server
        /\ shown' = shown
    BY <1>a, <1>1 DEF LoginSend
  <2>4. Says => Says'
    BY <1>a, <1>1, <2>1, <2>2, <2>3, SaysSent, <1>0 DEF LoginSend, Packets
  <2>5. Typed'
    BY <1>0, <2>1, <2>2, <2>3, <2>4 DEF Core, Typed, Places
  <2>6. PeersOK'
    BY <1>1, <1>0, <2>1, <2>2, <2>3, <2>4 DEF Core, PeersOK, Leaders, ServerGone, Interrupted
  <2>7. CallsOK'
    BY <1>1, <1>0, <2>1, <2>2, <2>3, <2>4 DEF Core, CallsOK, HandlersOK, ServerGone, Interrupted
  <2>8. HandlersOK'
    BY <1>1, <1>0, <2>1, <2>2, <2>3, <2>4 DEF Core, HandlersOK, ServerGone, Interrupted
  <2>9. SessionOK'
    BY <1>1, <1>0, <2>1, <2>2, <2>3, <2>4 DEF Core, SessionOK, PeersOK, HandlersOK, CallsOK, ServerGone, Interrupted
  <2> QED BY <2>5, <2>6, <2>7, <2>8, <2>9 DEF Core
<1>2. CASE Main("login", "exit") /\ (Interrupted \/ ServerGone) /\ UNCHANGED sock
  <2>1. /\ pc.main = "login"
        /\ pc' = [main |-> "exit", input |-> pc.input, listen |-> pc.listen]
    BY <1>a, <1>2, <1>0, PlacesAre
  <2>2. sock' = sock
    BY <1>a, <1>2
  <2>3. /\ flags' = flags
        /\ logged' = logged
        /\ calls' = calls
        /\ ring' = ring
        /\ typed' = typed
        /\ server' = server
        /\ shown' = shown
    BY <1>a, <1>2 DEF LoginSend
  <2>4. Says' <=> Says
    BY <2>1, <2>2, <2>3 DEF Says
  <2>5. Typed'
    BY <1>0, <2>1, <2>2, <2>3, <2>4 DEF Core, Typed, Places
  <2>6. PeersOK'
    BY <1>2, <1>0, <2>1, <2>2, <2>3, <2>4 DEF Core, PeersOK, Leaders, ServerGone, Interrupted
  <2>7. CallsOK'
    BY <1>2, <1>0, <2>1, <2>2, <2>3, <2>4 DEF Core, CallsOK, HandlersOK, ServerGone, Interrupted
  <2>8. HandlersOK'
    BY <1>2, <1>0, <2>1, <2>2, <2>3, <2>4 DEF Core, HandlersOK, ServerGone, Interrupted
  <2>9. SessionOK'
    BY <1>2, <1>0, <2>1, <2>2, <2>3, <2>4 DEF Core, SessionOK, PeersOK, HandlersOK, CallsOK, ServerGone, Interrupted
  <2> QED BY <2>5, <2>6, <2>7, <2>8, <2>9 DEF Core
<1> QED BY <1>a, <1>1, <1>2 DEF LoginSend

LEMMA LoginInterruptedKept ==
    ASSUME Core, LoginInterrupted
    PROVE  Core'
<1>0. /\ Core /\ pc \in Places /\ flags \in Flags /\ logged \in BOOLEAN /\ sock \in Sockets
      /\ calls \in Calls /\ ring \in Rings /\ typed \in 0..MaxCommands
      /\ server \in Servers /\ shown \in Seq(Messages)
  BY DEF Core, Typed
<1>a. LoginInterrupted
  OBVIOUS
<1>1. /\ pc.main = "answer"
      /\ pc' = [main |-> "exit", input |-> pc.input, listen |-> pc.listen]
  BY <1>a, <1>0, PlacesAre DEF LoginInterrupted
<1>2. /\ flags' = flags
      /\ logged' = logged
      /\ sock' = sock
      /\ calls' = calls
      /\ ring' = ring
      /\ typed' = typed
      /\ server' = server
      /\ shown' = shown
  BY <1>a DEF LoginInterrupted
<1>3. Says' <=> Says
  BY <1>1, <1>2 DEF Says
<1>4. Typed'
  BY <1>0, <1>1, <1>2, <1>3 DEF Core, Typed, Places
<1>5. PeersOK'
  BY <1>0, <1>1, <1>2, <1>3 DEF Core, PeersOK, Leaders, ServerGone, Interrupted
<1>6. CallsOK'
  BY <1>0, <1>1, <1>2, <1>3 DEF Core, CallsOK, HandlersOK, ServerGone, Interrupted
<1>7. HandlersOK'
  BY <1>0, <1>1, <1>2, <1>3 DEF Core, HandlersOK, ServerGone, Interrupted
<1>8. SessionOK'
  BY <1>0, <1>1, <1>2, <1>3 DEF Core, SessionOK, PeersOK, HandlersOK, CallsOK, ServerGone, Interrupted
<1> QED BY <1>4, <1>5, <1>6, <1>7, <1>8 DEF Core

LEMMA LoginTimeoutKept ==
    ASSUME Core, LoginTimeout
    PROVE  Core'
<1>0. /\ Core /\ pc \in Places /\ flags \in Flags /\ logged \in BOOLEAN /\ sock \in Sockets
      /\ calls \in Calls /\ ring \in Rings /\ typed \in 0..MaxCommands
      /\ server \in Servers /\ shown \in Seq(Messages)
  BY DEF Core, Typed
<1>a. LoginTimeout
  OBVIOUS
<1>1. /\ pc.main = "answer"
      /\ pc' = [main |-> "exit", input |-> pc.input, listen |-> pc.listen]
  BY <1>a, <1>0, PlacesAre DEF LoginTimeout
<1>2. /\ sock' \in Sockets
      /\ sock'.peer = sock.peer
      /\ sock'.open = sock.open
      /\ sock'.in = sock.in
      /\ sock'.out = IF sock.open /\ ~ServerGone THEN Append(sock.out, "CLOSE") ELSE sock.out
      /\ "CLOSE" \in Packets
  BY <1>a, <1>0, SentIs DEF Packets, LoginTimeout
<1>3. /\ flags' = flags
      /\ logged' = logged
      /\ calls' = calls
      /\ ring' = ring
      /\ typed' = typed
      /\ server' = server
      /\ shown' = shown
  BY <1>a DEF LoginTimeout
<1>4. /\ Says => Says'
      /\ sock.open /\ ~ServerGone => Says'
  BY <1>a, <1>1, <1>2, <1>3, SaysSent, <1>0 DEF LoginTimeout, Packets
<1>5. Typed'
  BY <1>0, <1>1, <1>2, <1>3, <1>4 DEF Core, Typed, Places
<1>6. PeersOK'
  BY <1>0, <1>1, <1>2, <1>3, <1>4 DEF Core, PeersOK, Leaders, ServerGone, Interrupted
<1>7. CallsOK'
  BY <1>0, <1>1, <1>2, <1>3, <1>4 DEF Core, CallsOK, HandlersOK, ServerGone, Interrupted
<1>8. HandlersOK'
  BY <1>0, <1>1, <1>2, <1>3, <1>4 DEF Core, HandlersOK, ServerGone, Interrupted
<1>9. SessionOK'
  BY <1>0, <1>1, <1>2, <1>3, <1>4 DEF Core, SessionOK, PeersOK, HandlersOK, CallsOK, ServerGone, Interrupted
<1> QED BY <1>5, <1>6, <1>7, <1>8, <1>9 DEF Core

LEMMA JoinKept ==
    ASSUME Core, Join
    PROVE  Core'
<1>0. /\ Core /\ pc \in Places /\ flags \in Flags /\ logged \in BOOLEAN /\ sock \in Sockets
      /\ calls \in Calls /\ ring \in Rings /\ typed \in 0..MaxCommands
      /\ server \in Servers /\ shown \in Seq(Messages)
  BY DEF Core, Typed
<1>a. Join
  OBVIOUS
<1>1. CASE ~flags.closed /\ flags.over /\ flags.lost
  <2>1. /\ pc.main = "run"
        /\ pc' = [main |-> "accept", input |-> pc.input, listen |-> pc.listen]
        /\ pc.input = "done"
        /\ pc.listen = "done"
    BY <1>a, <1>1, <1>0, PlacesAre DEF Join
  <2>2. flags' = [continue |-> flags.continue, over |-> FALSE, closed |-> flags.closed, lost |-> FALSE]
    BY <1>a, <1>1, <1>0, FlagsAre DEF Join
  <2>3. /\ flags' \in Flags
        /\ flags'.continue = flags.continue
        /\ flags'.over = FALSE
        /\ flags'.closed = flags.closed
        /\ flags'.lost = FALSE
        /\ ~flags.closed
        /\ flags.lost
    BY <1>a, <1>1, <2>1, <2>2, <1>0, FlagsAre DEF Flags
  <2>4. /\ logged' = logged
        /\ sock' = sock
        /\ calls' = calls
        /\ ring' = ring
        /\ typed' = typed
        /\ server' = server
        /\ shown' = shown
    BY <1>a, <1>1 DEF Join
  <2>5. Says' <=> Says
    BY <2>1, <2>2, <2>3, <2>4 DEF Says
  <2>6. Typed'
    BY <1>0, <2>1, <2>2, <2>3, <2>4, <2>5 DEF Core, Typed, Places
  <2>7. PeersOK'
    BY <1>1, <1>0, <2>1, <2>2, <2>3, <2>4, <2>5 DEF Core, PeersOK, Leaders, ServerGone, Interrupted
  <2>8. CallsOK'
    BY <1>1, <1>0, <2>1, <2>2, <2>3, <2>4, <2>5 DEF Core, CallsOK, HandlersOK, ServerGone, Interrupted
  <2>9. HandlersOK'
    BY <1>1, <1>0, <2>1, <2>2, <2>3, <2>4, <2>5 DEF Core, HandlersOK, ServerGone, Interrupted
  <2>10. SessionOK'
    BY <1>1, <1>0, <2>1, <2>2, <2>3, <2>4, <2>5 DEF Core, SessionOK, PeersOK, HandlersOK, CallsOK, ServerGone, Interrupted
  <2> QED BY <2>6, <2>7, <2>8, <2>9, <2>10 DEF Core
<1>2. CASE ~(~flags.closed /\ flags.over /\ flags.lost)
  <2>1. /\ pc.main = "run"
        /\ pc' = [main |-> "exit", input |-> pc.input, listen |-> pc.listen]
        /\ pc.input = "done"
        /\ pc.listen = "done"
        /\ flags' = flags
    BY <1>a, <1>2, <1>0, PlacesAre DEF Join
  <2>2. /\ logged' = logged
        /\ sock' = sock
        /\ calls' = calls
        /\ ring' = ring
        /\ typed' = typed
        /\ server' = server
        /\ shown' = shown
    BY <1>a, <1>2 DEF Join
  <2>3. Says' <=> Says
    BY <2>1, <2>2 DEF Says
  <2>4. Typed'
    BY <1>0, <2>1, <2>2, <2>3 DEF Core, Typed, Places
  <2>5. PeersOK'
    BY <1>2, <1>0, <2>1, <2>2, <2>3 DEF Core, PeersOK, Leaders, ServerGone, Interrupted
  <2>6. CallsOK'
    BY <1>2, <1>0, <2>1, <2>2, <2>3 DEF Core, CallsOK, HandlersOK, ServerGone, Interrupted
  <2>7. HandlersOK'
    BY <1>2, <1>0, <2>1, <2>2, <2>3 DEF Core, HandlersOK, ServerGone, Interrupted
  <2>8. SessionOK'
    BY <1>2, <1>0, <2>1, <2>2, <2>3 DEF Core, SessionOK, PeersOK, HandlersOK, CallsOK, ServerGone, Interrupted
  <2> QED BY <2>4, <2>5, <2>6, <2>7, <2>8 DEF Core
<1> QED BY <1>a, <1>1, <1>2 DEF Join

LEMMA ReconnectAcceptKept ==
    ASSUME Core, ReconnectAccept
    PROVE  Core'
<1>0. /\ Core /\ pc \in Places /\ flags \in Flags /\ logged \in BOOLEAN /\ sock \in Sockets
      /\ calls \in Calls /\ ring \in Rings /\ typed \in 0..MaxCommands
      /\ server \in Servers /\ shown \in Seq(Messages)
  BY DEF Core, Typed
<1>a. ReconnectAccept
  OBVIOUS
<1>1. /\ pc.main = "accept"
      /\ pc' = [main |-> "info", input |-> pc.input, listen |-> pc.listen]
  BY <1>a, <1>0, PlacesAre DEF ReconnectAccept
<1>2. /\ calls' = [backlog |-> Tail(calls.backlog), from |-> Head(calls.backlog)]
      /\ calls.backlog # <<>>
  BY <1>a DEF ReconnectAccept
<1>3. /\ calls.backlog \in Seq(0..MaxLeaders)
      /\ Len(calls.backlog) <= 1
  BY <1>a, <1>0 DEF Calls, Core, CallsOK
<1>4. Len(calls.backlog) \in Nat
  BY <1>3, LenProperties DEF Calls
<1>5. /\ Tail(calls.backlog) \in Seq(0..MaxLeaders)
      /\ Len(Tail(calls.backlog)) = Len(calls.backlog) - 1
      /\ Head(calls.backlog) \in 0..MaxLeaders
  BY <1>2, <1>3, HeadTailProperties DEF Calls
<1>6. Len(Tail(calls.backlog)) <= 0
  BY <1>3, <1>4, <1>5, SMT DEF CallsOK
<1>7. Tail(calls.backlog) = <<>>
  BY <1>5, <1>6, EmptySeq DEF Calls
<1>8. /\ calls' \in Calls
      /\ calls'.backlog = <<>>
  BY <1>1, <1>2, <1>3, <1>4, <1>5, <1>6, <1>7 DEF Calls
<1>9. /\ flags' = flags
      /\ logged' = logged
      /\ sock' = sock
      /\ ring' = ring
      /\ typed' = typed
      /\ server' = server
      /\ shown' = shown
  BY <1>a DEF ReconnectAccept
<1>10. Says' <=> Says
  BY <1>1, <1>2, <1>3, <1>4, <1>5, <1>6, <1>7, <1>8, <1>9 DEF Says
<1>11. Typed'
  BY <1>0, <1>1, <1>2, <1>3, <1>4, <1>5, <1>6, <1>7, <1>8, <1>9, <1>10 DEF Core, Typed, Places
<1>12. PeersOK'
  BY <1>0, <1>1, <1>2, <1>3, <1>4, <1>5, <1>6, <1>7, <1>8, <1>9, <1>10 DEF Core, PeersOK, Leaders, ServerGone, Interrupted
<1>13. CallsOK'
  BY <1>0, <1>1, <1>2, <1>3, <1>4, <1>5, <1>6, <1>7, <1>8, <1>9, <1>10 DEF Core, CallsOK, HandlersOK, ServerGone, Interrupted
<1>14. HandlersOK'
  BY <1>0, <1>1, <1>2, <1>3, <1>4, <1>5, <1>6, <1>7, <1>8, <1>9, <1>10 DEF Core, HandlersOK, ServerGone, Interrupted
<1>15. SessionOK'
  BY <1>0, <1>1, <1>2, <1>3, <1>4, <1>5, <1>6, <1>7, <1>8, <1>9, <1>10 DEF Core, SessionOK, PeersOK, HandlersOK, CallsOK, ServerGone, Interrupted
<1> QED BY <1>11, <1>12, <1>13, <1>14, <1>15 DEF Core

LEMMA ReconnectAloneKept ==
    ASSUME Core, ReconnectAlone
    PROVE  Core'
<1>0. /\ Core /\ pc \in Places /\ flags \in Flags /\ logged \in BOOLEAN /\ sock \in Sockets
      /\ calls \in Calls /\ ring \in Rings /\ typed \in 0..MaxCommands
      /\ server \in Servers /\ shown \in Seq(Messages)
  BY DEF Core, Typed
<1>a. ReconnectAlone
  OBVIOUS
<1>1. /\ pc.main = "accept"
      /\ pc' = [main |-> "exit", input |-> pc.input, listen |-> pc.listen]
  BY <1>a, <1>0, PlacesAre DEF ReconnectAlone
<1>2. logged' = FALSE
  BY <1>a DEF ReconnectAlone
<1>3. /\ flags' = flags
      /\ sock' = sock
      /\ calls' = calls
      /\ ring' = ring
      /\ typed' = typed
      /\ server' = server
      /\ shown' = shown
  BY <1>a DEF ReconnectAlone
<1>4. Says' <=> Says
  BY <1>1, <1>2, <1>3 DEF Says
<1>5. Typed'
  BY <1>0, <1>1, <1>2, <1>3, <1>4 DEF Core, Typed, Places
<1>6. PeersOK'
  BY <1>0, <1>1, <1>2, <1>3, <1>4 DEF Core, PeersOK, Leaders, ServerGone, Interrupted
<1>7. CallsOK'
  BY <1>0, <1>1, <1>2, <1>3, <1>4 DEF Core, CallsOK, HandlersOK, ServerGone, Interrupted
<1>8. HandlersOK'
  BY <1>0, <1>1, <1>2, <1>3, <1>4 DEF Core, HandlersOK, ServerGone, Interrupted
<1>9. SessionOK'
  BY <1>0, <1>1, <1>2, <1>3, <1>4 DEF Core, SessionOK, PeersOK, HandlersOK, CallsOK, ServerGone, Interrupted
<1> QED BY <1>5, <1>6, <1>7, <1>8, <1>9 DEF Core

LEMMA ReconnectInfoKept ==
    ASSUME Core, ReconnectInfo
    PROVE  Core'
<1>0. /\ Core /\ pc \in Places /\ flags \in Flags /\ logged \in BOOLEAN /\ sock \in Sockets
      /\ calls \in Calls /\ ring \in Rings /\ typed \in 0..MaxCommands
      /\ server \in Servers /\ shown \in Seq(Messages)
  BY DEF Core, Typed
<1>a. ReconnectInfo
  OBVIOUS
<1>1. CASE Main("info", "dial") /\ ~Interrupted /\ calls.from # 0 /\ UNCHANGED logged
  <2>1. /\ pc.main = "info"
        /\ pc' = [main |-> "dial", input |-> pc.input, listen |-> pc.listen]
    BY <1>a, <1>1, <1>0, PlacesAre
  <2>2. logged' = logged
    BY <1>a, <1>1
  <2>3. /\ flags' = flags
        /\ sock' = sock
        /\ calls' = calls
        /\ ring' = ring
        /\ typed' = typed
        /\ server' = server
        /\ shown' = shown
    BY <1>a, <1>1 DEF ReconnectInfo
  <2>4. Says' <=> Says
    BY <2>1, <2>2, <2>3 DEF Says
  <2>5. Typed'
    BY <1>0, <2>1, <2>2, <2>3, <2>4 DEF Core, Typed, Places
  <2>6. PeersOK'
    BY <1>1, <1>0, <2>1, <2>2, <2>3, <2>4 DEF Core, PeersOK, Leaders, ServerGone, Interrupted
  <2>7. CallsOK'
    BY <1>1, <1>0, <2>1, <2>2, <2>3, <2>4 DEF Core, CallsOK, HandlersOK, ServerGone, Interrupted
  <2>8. HandlersOK'
    BY <1>1, <1>0, <2>1, <2>2, <2>3, <2>4 DEF Core, HandlersOK, ServerGone, Interrupted
  <2>9. SessionOK'
    BY <1>1, <1>0, <2>1, <2>2, <2>3, <2>4 DEF Core, SessionOK, PeersOK, HandlersOK, CallsOK, ServerGone, Interrupted
  <2> QED BY <2>5, <2>6, <2>7, <2>8, <2>9 DEF Core
<1>2. CASE Main("info", "exit") /\ ~Interrupted /\ calls.from = 0 /\ UNCHANGED logged
  <2>1. /\ pc.main = "info"
        /\ pc' = [main |-> "exit", input |-> pc.input, listen |-> pc.listen]
    BY <1>a, <1>2, <1>0, PlacesAre
  <2>2. logged' = logged
    BY <1>a, <1>2
  <2>3. /\ flags' = flags
        /\ sock' = sock
        /\ calls' = calls
        /\ ring' = ring
        /\ typed' = typed
        /\ server' = server
        /\ shown' = shown
    BY <1>a, <1>2 DEF ReconnectInfo
  <2>4. Says' <=> Says
    BY <2>1, <2>2, <2>3 DEF Says
  <2>5. Typed'
    BY <1>0, <2>1, <2>2, <2>3, <2>4 DEF Core, Typed, Places
  <2>6. PeersOK'
    BY <1>2, <1>0, <2>1, <2>2, <2>3, <2>4 DEF Core, PeersOK, Leaders, ServerGone, Interrupted
  <2>7. CallsOK'
    BY <1>2, <1>0, <2>1, <2>2, <2>3, <2>4 DEF Core, CallsOK, HandlersOK, ServerGone, Interrupted
  <2>8. HandlersOK'
    BY <1>2, <1>0, <2>1, <2>2, <2>3, <2>4 DEF Core, HandlersOK, ServerGone, Interrupted
  <2>9. SessionOK'
    BY <1>2, <1>0, <2>1, <2>2, <2>3, <2>4 DEF Core, SessionOK, PeersOK, HandlersOK, CallsOK, ServerGone, Interrupted
  <2> QED BY <2>5, <2>6, <2>7, <2>8, <2>9 DEF Core
<1>3. CASE Main("info", "exit") /\ Interrupted /\ logged' = FALSE
  <2>1. /\ pc.main = "info"
        /\ pc' = [main |-> "exit", input |-> pc.input, listen |-> pc.listen]
    BY <1>a, <1>3, <1>0, PlacesAre
  <2>2. logged' = FALSE
    BY <1>a, <1>3
  <2>3. /\ flags' = flags
        /\ sock' = sock
        /\ calls' = calls
        /\ ring' = ring
        /\ typed' = typed
        /\ server' = server
        /\ shown' = shown
    BY <1>a, <1>3 DEF ReconnectInfo
  <2>4. Says' <=> Says
    BY <2>1, <2>2, <2>3 DEF Says
  <2>5. Typed'
    BY <1>0, <2>1, <2>2, <2>3, <2>4 DEF Core, Typed, Places
  <2>6. PeersOK'
    BY <1>3, <1>0, <2>1, <2>2, <2>3, <2>4 DEF Core, PeersOK, Leaders, ServerGone, Interrupted
  <2>7. CallsOK'
    BY <1>3, <1>0, <2>1, <2>2, <2>3, <2>4 DEF Core, CallsOK, HandlersOK, ServerGone, Interrupted
  <2>8. HandlersOK'
    BY <1>3, <1>0, <2>1, <2>2, <2>3, <2>4 DEF Core, HandlersOK, ServerGone, Interrupted
  <2>9. SessionOK'
    BY <1>3, <1>0, <2>1, <2>2, <2>3, <2>4 DEF Core, SessionOK, PeersOK, HandlersOK, CallsOK, ServerGone, Interrupted
  <2> QED BY <2>5, <2>6, <2>7, <2>8, <2>9 DEF Core
<1> QED BY <1>a, <1>1, <1>2, <1>3 DEF ReconnectInfo

LEMMA ReconnectDialKept ==
    ASSUME Core, ReconnectDial
    PROVE  Core'
<1>0. /\ Core /\ pc \in Places /\ flags \in Flags /\ logged \in BOOLEAN /\ sock \in Sockets
      /\ calls \in Calls /\ ring \in Rings /\ typed \in 0..MaxCommands
      /\ server \in Servers /\ shown \in Seq(Messages)
  BY DEF Core, Typed
<1>a. ReconnectDial
  OBVIOUS
<1>1. CASE Main("dial", "relogin") /\ server.up /\ calls.from = server.leader /\ sock' = Connected(calls.from)
  <2>1. /\ pc.main = "dial"
        /\ pc' = [main |-> "relogin", input |-> pc.input, listen |-> pc.listen]
    BY <1>a, <1>1, <1>0, PlacesAre
  <2>2. /\ server.leader \in Leaders
        /\ calls.from = server.leader
        /\ server.up
    BY <1>a, <1>1, <1>0, ServerIs
  <2>3. /\ sock' \in Sockets
        /\ sock'.peer = server.leader
        /\ sock'.open
        /\ sock'.out = <<>>
        /\ sock'.in = <<>>
    BY <1>a, <1>1, <2>1, <2>2, <1>0, SocketIs, ConnectedIs
  <2>4. /\ flags' = flags
        /\ logged' = logged
        /\ calls' = calls
        /\ ring' = ring
        /\ typed' = typed
        /\ server' = server
        /\ shown' = shown
    BY <1>a, <1>1 DEF ReconnectDial
  <2>5. Typed'
    BY <1>0, <2>1, <2>2, <2>3, <2>4 DEF Core, Typed, Places
  <2>6. PeersOK'
    BY <1>1, <1>0, <2>1, <2>2, <2>3, <2>4 DEF Core, PeersOK, Leaders, ServerGone, Interrupted
  <2>7. CallsOK'
    BY <1>1, <1>0, <2>1, <2>2, <2>3, <2>4 DEF Core, CallsOK, HandlersOK, ServerGone, Interrupted
  <2>8. HandlersOK'
    BY <1>1, <1>0, <2>1, <2>2, <2>3, <2>4 DEF Core, HandlersOK, ServerGone, Interrupted
  <2>9. SessionOK'
    BY <1>1, <1>0, <2>1, <2>2, <2>3, <2>4 DEF Core, SessionOK, PeersOK, HandlersOK, CallsOK, ServerGone, Interrupted
  <2> QED BY <2>5, <2>6, <2>7, <2>8, <2>9 DEF Core
<1>2. CASE Main("dial", "exit") /\ ~(server.up /\ calls.from = server.leader) /\ UNCHANGED sock
  <2>1. /\ pc.main = "dial"
        /\ pc' = [main |-> "exit", input |-> pc.input, listen |-> pc.listen]
    BY <1>a, <1>2, <1>0, PlacesAre
  <2>2. sock' = sock
    BY <1>a, <1>2
  <2>3. /\ flags' = flags
        /\ logged' = logged
        /\ calls' = calls
        /\ ring' = ring
        /\ typed' = typed
        /\ server' = server
        /\ shown' = shown
    BY <1>a, <1>2 DEF ReconnectDial
  <2>4. Says' <=> Says
    BY <2>1, <2>2, <2>3 DEF Says
  <2>5. Typed'
    BY <1>0, <2>1, <2>2, <2>3, <2>4 DEF Core, Typed, Places
  <2>6. PeersOK'
    BY <1>2, <1>0, <2>1, <2>2, <2>3, <2>4 DEF Core, PeersOK, Leaders, ServerGone, Interrupted
  <2>7. CallsOK'
    BY <1>2, <1>0, <2>1, <2>2, <2>3, <2>4 DEF Core, CallsOK, HandlersOK, ServerGone, Interrupted
  <2>8. HandlersOK'
    BY <1>2, <1>0, <2>1, <2>2, <2>3, <2>4 DEF Core, HandlersOK, ServerGone, Interrupted
  <2>9. SessionOK'
    BY <1>2, <1>0, <2>1, <2>2, <2>3, <2>4 DEF Core, SessionOK, PeersOK, HandlersOK, CallsOK, ServerGone, Interrupted
  <2> QED BY <2>5, <2>6, <2>7, <2>8, <2>9 DEF Core
<1> QED BY <1>a, <1>1, <1>2 DEF ReconnectDial

LEMMA ReconnectSendKept ==
    ASSUME Core, ReconnectSend
    PROVE  Core'
<1>0. /\ Core /\ pc \in Places /\ flags \in Flags /\ logged \in BOOLEAN /\ sock \in Sockets
      /\ calls \in Calls /\ ring \in Rings /\ typed \in 0..MaxCommands
      /\ server \in Servers /\ shown \in Seq(Messages)
  BY DEF Core, Typed
<1>a. ReconnectSend
  OBVIOUS
<1>1. CASE Main("relogin", "reanswer") /\ ~Interrupted /\ sock' = Sent("RECONNECT") /\ UNCHANGED logged
  <2>1. /\ pc.main = "relogin"
        /\ pc' = [main |-> "reanswer", input |-> pc.input, listen |-> pc.listen]
    BY <1>a, <1>1, <1>0, PlacesAre
  <2>2. /\ sock' \in Sockets
        /\ sock'.peer = sock.peer
        /\ sock'.open = sock.open
        /\ sock'.in = sock.in
        /\ sock'.out = IF sock.open /\ ~ServerGone THEN Append(sock.out, "RECONNECT") ELSE sock.out
        /\ "RECONNECT" \in Packets
    BY <1>a, <1>1, <1>0, SentIs DEF Packets
  <2>3. logged' = logged
    BY <1>a, <1>1
  <2>4. /\ flags' = flags
        /\ calls' = calls
        /\ ring' = ring
        /\ typed' = typed
        /\ server' = server
        /\ shown' = shown
    BY <1>a, <1>1 DEF ReconnectSend
  <2>5. Says => Says'
    BY <1>a, <1>1, <2>1, <2>2, <2>3, <2>4, SaysSent, <1>0 DEF ReconnectSend, Packets
  <2>6. Typed'
    BY <1>0, <2>1, <2>2, <2>3, <2>4, <2>5 DEF Core, Typed, Places
  <2>7. PeersOK'
    BY <1>1, <1>0, <2>1, <2>2, <2>3, <2>4, <2>5 DEF Core, PeersOK, Leaders, ServerGone, Interrupted
  <2>8. CallsOK'
    BY <1>1, <1>0, <2>1, <2>2, <2>3, <2>4, <2>5 DEF Core, CallsOK, HandlersOK, ServerGone, Interrupted
  <2>9. HandlersOK'
    BY <1>1, <1>0, <2>1, <2>2, <2>3, <2>4, <2>5 DEF Core, HandlersOK, ServerGone, Interrupted
  <2>10. SessionOK'
    BY <1>1, <1>0, <2>1, <2>2, <2>3, <2>4, <2>5 DEF Core, SessionOK, PeersOK, HandlersOK, CallsOK, ServerGone, Interrupted
  <2> QED BY <2>6, <2>7, <2>8, <2>9, <2>10 DEF Core
<1>2. CASE Main("relogin", "exit") /\ (Interrupted \/ ServerGone) /\ sock' = Sent("CLOSE") /\ logged' = FALSE
  <2>1. /\ pc.main = "relogin"
        /\ pc' = [main |-> "exit", input |-> pc.input, listen |-> pc.listen]
    BY <1>a, <1>2, <1>0, PlacesAre
  <2>2. /\ sock' \in Sockets
        /\ sock'.peer = sock.peer
        /\ sock'.open = sock.open
        /\ sock'.in = sock.in
        /\ sock'.out = IF sock.open /\ ~ServerGone THEN Append(sock.out, "CLOSE") ELSE sock.out
        /\ "CLOSE" \in Packets
    BY <1>a, <1>2, <1>0, SentIs DEF Packets
  <2>3. logged' = FALSE
    BY <1>a, <1>2
  <2>4. /\ flags' = flags
        /\ calls' = calls
        /\ ring' = ring
        /\ typed' = typed
        /\ server' = server
        /\ shown' = shown
    BY <1>a, <1>2 DEF ReconnectSend
  <2>5. /\ Says => Says'
        /\ sock.open /\ ~ServerGone => Says'
    BY <1>a, <1>2, <2>1, <2>2, <2>3, <2>4, SaysSent, <1>0 DEF ReconnectSend, Packets
  <2>6. Typed'
    BY <1>0, <2>1, <2>2, <2>3, <2>4, <2>5 DEF Core, Typed, Places
  <2>7. PeersOK'
    BY <1>2, <1>0, <2>1, <2>2, <2>3, <2>4, <2>5 DEF Core, PeersOK, Leaders, ServerGone, Interrupted
  <2>8. CallsOK'
    BY <1>2, <1>0, <2>1, <2>2, <2>3, <2>4, <2>5 DEF Core, CallsOK, HandlersOK, ServerGone, Interrupted
  <2>9. HandlersOK'
    BY <1>2, <1>0, <2>1, <2>2, <2>3, <2>4, <2>5 DEF Core, HandlersOK, ServerGone, Interrupted
  <2>10. SessionOK'
    BY <1>2, <1>0, <2>1, <2>2, <2>3, <2>4, <2>5 DEF Core, SessionOK, PeersOK, HandlersOK, CallsOK, ServerGone, Interrupted
  <2> QED BY <2>6, <2>7, <2>8, <2>9, <2>10 DEF Core
<1> QED BY <1>a, <1>1, <1>2 DEF ReconnectSend

LEMMA ReconnectGivesUpKept ==
    ASSUME Core, ReconnectGivesUp
    PROVE  Core'
<1>0. /\ Core /\ pc \in Places /\ flags \in Flags /\ logged \in BOOLEAN /\ sock \in Sockets
      /\ calls \in Calls /\ ring \in Rings /\ typed \in 0..MaxCommands
      /\ server \in Servers /\ shown \in Seq(Messages)
  BY DEF Core, Typed
<1>a. ReconnectGivesUp
  OBVIOUS
<1>1. /\ pc.main = "reanswer"
      /\ pc' = [main |-> "exit", input |-> pc.input, listen |-> pc.listen]
  BY <1>a, <1>0, PlacesAre DEF ReconnectGivesUp
<1>2. /\ sock' \in Sockets
      /\ sock'.peer = sock.peer
      /\ sock'.open = sock.open
      /\ sock'.in = sock.in
      /\ sock'.out = IF sock.open /\ ~ServerGone THEN Append(sock.out, "CLOSE") ELSE sock.out
      /\ "CLOSE" \in Packets
  BY <1>a, <1>0, SentIs DEF Packets, ReconnectGivesUp
<1>3. logged' = FALSE
  BY <1>a DEF ReconnectGivesUp
<1>4. /\ flags' = flags
      /\ calls' = calls
      /\ ring' = ring
      /\ typed' = typed
      /\ server' = server
      /\ shown' = shown
  BY <1>a DEF ReconnectGivesUp
<1>5. /\ Says => Says'
      /\ sock.open /\ ~ServerGone => Says'
  BY <1>a, <1>1, <1>2, <1>3, <1>4, SaysSent, <1>0 DEF ReconnectGivesUp, Packets
<1>6. Typed'
  BY <1>0, <1>1, <1>2, <1>3, <1>4, <1>5 DEF Core, Typed, Places
<1>7. PeersOK'
  BY <1>0, <1>1, <1>2, <1>3, <1>4, <1>5 DEF Core, PeersOK, Leaders, ServerGone, Interrupted
<1>8. CallsOK'
  BY <1>0, <1>1, <1>2, <1>3, <1>4, <1>5 DEF Core, CallsOK, HandlersOK, ServerGone, Interrupted
<1>9. HandlersOK'
  BY <1>0, <1>1, <1>2, <1>3, <1>4, <1>5 DEF Core, HandlersOK, ServerGone, Interrupted
<1>10. SessionOK'
  BY <1>0, <1>1, <1>2, <1>3, <1>4, <1>5 DEF Core, SessionOK, PeersOK, HandlersOK, CallsOK, ServerGone, Interrupted
<1> QED BY <1>6, <1>7, <1>8, <1>9, <1>10 DEF Core

LEMMA AnsweredKept ==
    ASSUME Core, NEW l \in {"answer", "reanswer"}, Answered(l)
    PROVE  Core'
<1>0. /\ Core /\ pc \in Places /\ flags \in Flags /\ logged \in BOOLEAN /\ sock \in Sockets
      /\ calls \in Calls /\ ring \in Rings /\ typed \in 0..MaxCommands
      /\ server \in Servers /\ shown \in Seq(Messages)
  BY DEF Core, Typed
<1>a. Answered(l)
  OBVIOUS
<1>1. CASE Head(sock.in).type = "SUCCESS"
  <2>1. /\ pc.main = l
        /\ logged' = TRUE
        /\ pc' = [main |-> "run", input |-> "input", listen |-> "check"]
    BY <1>a, <1>1 DEF Answered
  <2>2. /\ sock' = InRead
        /\ sock.in # <<>>
    BY <1>a, <1>1 DEF Answered, InRead
  <2>3. /\ sock' \in Sockets
        /\ sock'.peer = sock.peer
        /\ sock'.open = sock.open
        /\ sock'.out = sock.out
        /\ \A k \in DOMAIN sock'.in : k + 1 \in DOMAIN sock.in /\ sock'.in[k] = sock.in[k + 1]
        /\ 1 \in DOMAIN sock.in
        /\ Head(sock.in) = sock.in[1]
    BY <1>a, <1>1, <2>1, <2>2, <1>0, TakenIn
  <2>4. /\ flags' = flags
        /\ calls' = calls
        /\ ring' = ring
        /\ typed' = typed
        /\ server' = server
        /\ shown' = shown
    BY <1>a, <1>1 DEF Answered
  <2>5. Says' <=> Says
    BY <2>1, <2>2, <2>3, <2>4 DEF Says
  <2>6. Typed'
    BY <1>0, <2>1, <2>2, <2>3, <2>4, <2>5 DEF Core, Typed, Places
  <2>7. PeersOK'
    BY <1>1, <1>0, <2>1, <2>2, <2>3, <2>4, <2>5 DEF Core, PeersOK, Leaders, ServerGone, Interrupted
  <2>8. CallsOK'
    BY <1>1, <1>0, <2>1, <2>2, <2>3, <2>4, <2>5 DEF Core, CallsOK, HandlersOK, ServerGone, Interrupted
  <2>9. HandlersOK'
    BY <1>1, <1>0, <2>1, <2>2, <2>3, <2>4, <2>5 DEF Core, HandlersOK, ServerGone, Interrupted
  <2>10. SessionOK'
    BY <1>1, <1>0, <2>1, <2>2, <2>3, <2>4, <2>5 DEF Core, SessionOK, PeersOK, HandlersOK, CallsOK, ServerGone, Interrupted
  <2> QED BY <2>6, <2>7, <2>8, <2>9, <2>10 DEF Core
<1>2. CASE Head(sock.in).type # "SUCCESS"
  <2>1. /\ pc.main = l
        /\ logged' = FALSE
        /\ pc' = [main |-> "exit", input |-> pc.input, listen |-> pc.listen]
    BY <1>a, <1>2, <1>0, PlacesAre DEF Answered
  <2>2. /\ sock' = InRead
        /\ sock.in # <<>>
    BY <1>a, <1>2 DEF Answered, InRead
  <2>3. /\ sock' \in Sockets
        /\ sock'.peer = sock.peer
        /\ sock'.open = sock.open
        /\ sock'.out = sock.out
        /\ \A k \in DOMAIN sock'.in : k + 1 \in DOMAIN sock.in /\ sock'.in[k] = sock.in[k + 1]
        /\ 1 \in DOMAIN sock.in
        /\ Head(sock.in) = sock.in[1]
    BY <1>a, <1>2, <2>1, <2>2, <1>0, TakenIn
  <2>4. /\ flags' = flags
        /\ calls' = calls
        /\ ring' = ring
        /\ typed' = typed
        /\ server' = server
        /\ shown' = shown
    BY <1>a, <1>2 DEF Answered
  <2>5. Says' <=> Says
    BY <2>1, <2>2, <2>3, <2>4 DEF Says
  <2>6. Typed'
    BY <1>0, <2>1, <2>2, <2>3, <2>4, <2>5 DEF Core, Typed, Places
  <2>7. PeersOK'
    BY <1>2, <1>0, <2>1, <2>2, <2>3, <2>4, <2>5 DEF Core, PeersOK, Leaders, ServerGone, Interrupted
  <2>8. CallsOK'
    BY <1>2, <1>0, <2>1, <2>2, <2>3, <2>4, <2>5 DEF Core, CallsOK, HandlersOK, ServerGone, Interrupted
  <2>9. HandlersOK'
    BY <1>2, <1>0, <2>1, <2>2, <2>3, <2>4, <2>5 DEF Core, HandlersOK, ServerGone, Interrupted
  <2>10. SessionOK'
    BY <1>2, <1>0, <2>1, <2>2, <2>3, <2>4, <2>5 DEF Core, SessionOK, PeersOK, HandlersOK, CallsOK, ServerGone, Interrupted
  <2> QED BY <2>6, <2>7, <2>8, <2>9, <2>10 DEF Core
<1> QED BY <1>1, <1>2

LEMMA UserTypesKept ==
    ASSUME Core, UserTypes
    PROVE  Core'
<1>0. /\ Core /\ pc \in Places /\ flags \in Flags /\ logged \in BOOLEAN /\ sock \in Sockets
      /\ calls \in Calls /\ ring \in Rings /\ typed \in 0..MaxCommands
      /\ server \in Servers /\ shown \in Seq(Messages)
  BY DEF Core, Typed
<1>a. UserTypes
  OBVIOUS
<1>1. CASE UNCHANGED <<typed, sock>>
  <2>1. /\ pc.input = "input"
        /\ pc' = [main |-> pc.main, input |-> "loop", listen |-> pc.listen]
    BY <1>a, <1>1, <1>0, PlacesAre DEF UserTypes
  <2>2. /\ typed' = typed
        /\ sock' = sock
    BY <1>a, <1>1
  <2>3. /\ flags' = flags
        /\ logged' = logged
        /\ calls' = calls
        /\ ring' = ring
        /\ server' = server
        /\ shown' = shown
    BY <1>a, <1>1 DEF UserTypes
  <2>4. Says' <=> Says
    BY <2>1, <2>2, <2>3 DEF Says
  <2>5. Typed'
    BY <1>0, <2>1, <2>2, <2>3, <2>4 DEF Core, Typed, Places
  <2>6. PeersOK'
    BY <1>1, <1>0, <2>1, <2>2, <2>3, <2>4 DEF Core, PeersOK, Leaders, ServerGone, Interrupted
  <2>7. CallsOK'
    BY <1>1, <1>0, <2>1, <2>2, <2>3, <2>4 DEF Core, CallsOK, HandlersOK, ServerGone, Interrupted
  <2>8. HandlersOK'
    BY <1>1, <1>0, <2>1, <2>2, <2>3, <2>4 DEF Core, HandlersOK, ServerGone, Interrupted
  <2>9. SessionOK'
    BY <1>1, <1>0, <2>1, <2>2, <2>3, <2>4 DEF Core, SessionOK, PeersOK, HandlersOK, CallsOK, ServerGone, Interrupted
  <2> QED BY <2>5, <2>6, <2>7, <2>8, <2>9 DEF Core
<1>2. CASE typed < MaxCommands /\ typed' = typed + 1 /\ sock' = Sent("COMMAND")
  <2>1. /\ pc.input = "input"
        /\ pc' = [main |-> pc.main, input |-> "loop", listen |-> pc.listen]
    BY <1>a, <1>2, <1>0, PlacesAre DEF UserTypes
  <2>2. typed' \in 0..MaxCommands
    BY <1>a, <1>2, <1>0, ClientAssumption
  <2>3. /\ sock' \in Sockets
        /\ sock'.peer = sock.peer
        /\ sock'.open = sock.open
        /\ sock'.in = sock.in
        /\ sock'.out = IF sock.open /\ ~ServerGone THEN Append(sock.out, "COMMAND") ELSE sock.out
        /\ "COMMAND" \in Packets
    BY <1>a, <1>2, <1>0, SentIs DEF Packets
  <2>4. /\ flags' = flags
        /\ logged' = logged
        /\ calls' = calls
        /\ ring' = ring
        /\ server' = server
        /\ shown' = shown
    BY <1>a, <1>2 DEF UserTypes
  <2>5. Says => Says'
    BY <1>a, <1>2, <2>1, <2>2, <2>3, <2>4, SaysSent, <1>0 DEF UserTypes, Packets
  <2>6. Typed'
    BY <1>0, <2>1, <2>2, <2>3, <2>4, <2>5 DEF Core, Typed, Places
  <2>7. PeersOK'
    BY <1>2, <1>0, <2>1, <2>2, <2>3, <2>4, <2>5 DEF Core, PeersOK, Leaders, ServerGone, Interrupted
  <2>8. CallsOK'
    BY <1>2, <1>0, <2>1, <2>2, <2>3, <2>4, <2>5 DEF Core, CallsOK, HandlersOK, ServerGone, Interrupted
  <2>9. HandlersOK'
    BY <1>2, <1>0, <2>1, <2>2, <2>3, <2>4, <2>5 DEF Core, HandlersOK, ServerGone, Interrupted
  <2>10. SessionOK'
    BY <1>2, <1>0, <2>1, <2>2, <2>3, <2>4, <2>5 DEF Core, SessionOK, PeersOK, HandlersOK, CallsOK, ServerGone, Interrupted
  <2> QED BY <2>6, <2>7, <2>8, <2>9, <2>10 DEF Core
<1> QED BY <1>a, <1>1, <1>2 DEF UserTypes

LEMMA UserClosesKept ==
    ASSUME Core, UserCloses
    PROVE  Core'
<1>0. /\ Core /\ pc \in Places /\ flags \in Flags /\ logged \in BOOLEAN /\ sock \in Sockets
      /\ calls \in Calls /\ ring \in Rings /\ typed \in 0..MaxCommands
      /\ server \in Servers /\ shown \in Seq(Messages)
  BY DEF Core, Typed
<1>a. UserCloses
  OBVIOUS
<1>1. /\ pc.input = "input"
      /\ pc' = [main |-> pc.main, input |-> "closing", listen |-> pc.listen]
  BY <1>a, <1>0, PlacesAre DEF UserCloses
<1>2. /\ sock' \in Sockets
      /\ sock'.peer = sock.peer
      /\ sock'.open = sock.open
      /\ sock'.in = sock.in
      /\ sock'.out = IF sock.open /\ ~ServerGone THEN Append(sock.out, "CLOSE") ELSE sock.out
      /\ "CLOSE" \in Packets
  BY <1>a, <1>0, SentIs DEF Packets, UserCloses
<1>3. /\ flags' = flags
      /\ logged' = logged
      /\ calls' = calls
      /\ ring' = ring
      /\ typed' = typed
      /\ server' = server
      /\ shown' = shown
  BY <1>a DEF UserCloses
<1>4. /\ Says => Says'
      /\ sock.open /\ ~ServerGone => Says'
  BY <1>a, <1>1, <1>2, <1>3, SaysSent, <1>0 DEF UserCloses, Packets
<1>5. Typed'
  BY <1>0, <1>1, <1>2, <1>3, <1>4 DEF Core, Typed, Places
<1>6. PeersOK'
  BY <1>0, <1>1, <1>2, <1>3, <1>4 DEF Core, PeersOK, Leaders, ServerGone, Interrupted
<1>7. CallsOK'
  BY <1>0, <1>1, <1>2, <1>3, <1>4 DEF Core, CallsOK, HandlersOK, ServerGone, Interrupted
<1>8. HandlersOK'
  BY <1>0, <1>1, <1>2, <1>3, <1>4 DEF Core, HandlersOK, ServerGone, Interrupted
<1>9. SessionOK'
  BY <1>0, <1>1, <1>2, <1>3, <1>4 DEF Core, SessionOK, PeersOK, HandlersOK, CallsOK, ServerGone, Interrupted
<1> QED BY <1>5, <1>6, <1>7, <1>8, <1>9 DEF Core

LEMMA UserStopsKept ==
    ASSUME Core, UserStops
    PROVE  Core'
<1>0. /\ Core /\ pc \in Places /\ flags \in Flags /\ logged \in BOOLEAN /\ sock \in Sockets
      /\ calls \in Calls /\ ring \in Rings /\ typed \in 0..MaxCommands
      /\ server \in Servers /\ shown \in Seq(Messages)
  BY DEF Core, Typed
<1>a. UserStops
  OBVIOUS
<1>1. /\ pc.input = "closing"
      /\ pc' = [main |-> pc.main, input |-> "loop", listen |-> pc.listen]
  BY <1>a, <1>0, PlacesAre DEF UserStops
<1>2. \E failed \in BOOLEAN : flags' = [continue |-> FALSE, over |-> flags.over \/ failed, closed |-> flags.closed \/ failed, lost |-> flags.lost]
  BY <1>a, <1>0, FlagsAre DEF UserStops
<1>3. /\ flags' \in Flags
      /\ flags'.continue = FALSE
      /\ flags'.lost = flags.lost
      /\ flags.over => flags'.over
      /\ flags.closed => flags'.closed
      /\ flags'.over => flags'.closed \/ flags.over
  BY <1>1, <1>2, <1>0, FlagsAre DEF Flags
<1>4. /\ logged' = logged
      /\ sock' = sock
      /\ calls' = calls
      /\ ring' = ring
      /\ typed' = typed
      /\ server' = server
      /\ shown' = shown
  BY <1>a DEF UserStops
<1>5. Says' <=> Says
  BY <1>1, <1>2, <1>3, <1>4 DEF Says
<1>6. Typed'
  BY <1>0, <1>1, <1>2, <1>3, <1>4, <1>5 DEF Core, Typed, Places
<1>7. PeersOK'
  BY <1>0, <1>1, <1>2, <1>3, <1>4, <1>5 DEF Core, PeersOK, Leaders, ServerGone, Interrupted
<1>8. CallsOK'
  BY <1>0, <1>1, <1>2, <1>3, <1>4, <1>5 DEF Core, CallsOK, HandlersOK, ServerGone, Interrupted
<1>9. HandlersOK'
  BY <1>0, <1>1, <1>2, <1>3, <1>4, <1>5 DEF Core, HandlersOK, ServerGone, Interrupted
<1>10. SessionOK'
  BY <1>0, <1>1, <1>2, <1>3, <1>4, <1>5 DEF Core, SessionOK, PeersOK, HandlersOK, CallsOK, ServerGone, Interrupted
<1> QED BY <1>6, <1>7, <1>8, <1>9, <1>10 DEF Core

LEMMA UserLoopKept ==
    ASSUME Core, UserLoop
    PROVE  Core'
<1>0. /\ Core /\ pc \in Places /\ flags \in Flags /\ logged \in BOOLEAN /\ sock \in Sockets
      /\ calls \in Calls /\ ring \in Rings /\ typed \in 0..MaxCommands
      /\ server \in Servers /\ shown \in Seq(Messages)
  BY DEF Core, Typed
<1>a. UserLoop
  OBVIOUS
<1>1. CASE flags.over \/ Interrupted
  <2>1. /\ pc.input = "loop"
        /\ pc' = [main |-> pc.main, input |-> "left", listen |-> pc.listen]
    BY <1>a, <1>1, <1>0, PlacesAre DEF UserLoop
  <2>2. /\ flags' = flags
        /\ logged' = logged
        /\ sock' = sock
        /\ calls' = calls
        /\ ring' = ring
        /\ typed' = typed
        /\ server' = server
        /\ shown' = shown
    BY <1>a, <1>1 DEF UserLoop
  <2>3. Says' <=> Says
    BY <2>1, <2>2 DEF Says
  <2>4. Typed'
    BY <1>0, <2>1, <2>2, <2>3 DEF Core, Typed, Places
  <2>5. PeersOK'
    BY <1>1, <1>0, <2>1, <2>2, <2>3 DEF Core, PeersOK, Leaders, ServerGone, Interrupted
  <2>6. CallsOK'
    BY <1>1, <1>0, <2>1, <2>2, <2>3 DEF Core, CallsOK, HandlersOK, ServerGone, Interrupted
  <2>7. HandlersOK'
    BY <1>1, <1>0, <2>1, <2>2, <2>3 DEF Core, HandlersOK, ServerGone, Interrupted
  <2>8. SessionOK'
    BY <1>1, <1>0, <2>1, <2>2, <2>3 DEF Core, SessionOK, PeersOK, HandlersOK, CallsOK, ServerGone, Interrupted
  <2> QED BY <2>4, <2>5, <2>6, <2>7, <2>8 DEF Core
<1>2. CASE ~(flags.over \/ Interrupted)
  <2>1. /\ pc.input = "loop"
        /\ pc' = [main |-> pc.main, input |-> "input", listen |-> pc.listen]
    BY <1>a, <1>2, <1>0, PlacesAre DEF UserLoop
  <2>2. /\ flags' = flags
        /\ logged' = logged
        /\ sock' = sock
        /\ calls' = calls
        /\ ring' = ring
        /\ typed' = typed
        /\ server' = server
        /\ shown' = shown
    BY <1>a, <1>2 DEF UserLoop
  <2>3. Says' <=> Says
    BY <2>1, <2>2 DEF Says
  <2>4. Typed'
    BY <1>0, <2>1, <2>2, <2>3 DEF Core, Typed, Places
  <2>5. PeersOK'
    BY <1>2, <1>0, <2>1, <2>2, <2>3 DEF Core, PeersOK, Leaders, ServerGone, Interrupted
  <2>6. CallsOK'
    BY <1>2, <1>0, <2>1, <2>2, <2>3 DEF Core, CallsOK, HandlersOK, ServerGone, Interrupted
  <2>7. HandlersOK'
    BY <1>2, <1>0, <2>1, <2>2, <2>3 DEF Core, HandlersOK, ServerGone, Interrupted
  <2>8. SessionOK'
    BY <1>2, <1>0, <2>1, <2>2, <2>3 DEF Core, SessionOK, PeersOK, HandlersOK, CallsOK, ServerGone, Interrupted
  <2> QED BY <2>4, <2>5, <2>6, <2>7, <2>8 DEF Core
<1> QED BY <1>a, <1>1, <1>2 DEF UserLoop

LEMMA UserLeavesKept ==
    ASSUME Core, UserLeaves
    PROVE  Core'
<1>0. /\ Core /\ pc \in Places /\ flags \in Flags /\ logged \in BOOLEAN /\ sock \in Sockets
      /\ calls \in Calls /\ ring \in Rings /\ typed \in 0..MaxCommands
      /\ server \in Servers /\ shown \in Seq(Messages)
  BY DEF Core, Typed
<1>a. UserLeaves
  OBVIOUS
<1>1. CASE Interrupted
  <2>1. /\ pc.input = "left"
        /\ pc' = [main |-> pc.main, input |-> "done", listen |-> pc.listen]
        /\ sock' = Sent("CLOSE")
    BY <1>a, <1>1, <1>0, PlacesAre DEF UserLeaves
  <2>2. flags' = [continue |-> flags.continue, over |-> flags.over, closed |-> flags.closed \/ Interrupted, lost |-> flags.lost]
    BY <1>a, <1>1, <1>0, FlagsAre DEF UserLeaves, Interrupted
  <2>3. /\ flags' \in Flags
        /\ flags'.continue = flags.continue
        /\ flags'.over = flags.over
        /\ flags'.lost = flags.lost
        /\ flags'.closed <=> flags.closed \/ Interrupted
    BY <2>1, <2>2, <1>0, FlagsAre DEF Flags, Interrupted
  <2>4. /\ sock' \in Sockets
        /\ sock'.peer = sock.peer
        /\ sock'.open = sock.open
        /\ sock'.in = sock.in
        /\ sock'.out = IF sock.open /\ ~ServerGone THEN Append(sock.out, "CLOSE") ELSE sock.out
        /\ "CLOSE" \in Packets
    BY <2>1, <2>2, <2>3, <1>0, SentIs DEF Packets
  <2>5. /\ logged' = logged
        /\ calls' = calls
        /\ ring' = ring
        /\ typed' = typed
        /\ server' = server
        /\ shown' = shown
    BY <1>a, <1>1 DEF UserLeaves
  <2>6. /\ Says => Says'
        /\ sock.open /\ ~ServerGone => Says'
    BY <1>a, <1>1, <2>1, <2>2, <2>3, <2>4, <2>5, SaysSent, <1>0 DEF UserLeaves, Packets
  <2>7. Typed'
    BY <1>0, <2>1, <2>2, <2>3, <2>4, <2>5, <2>6 DEF Core, Typed, Places
  <2>8. PeersOK'
    BY <1>1, <1>0, <2>1, <2>2, <2>3, <2>4, <2>5, <2>6 DEF Core, PeersOK, Leaders, ServerGone, Interrupted
  <2>9. CallsOK'
    BY <1>1, <1>0, <2>1, <2>2, <2>3, <2>4, <2>5, <2>6 DEF Core, CallsOK, HandlersOK, ServerGone, Interrupted
  <2>10. HandlersOK'
    BY <1>1, <1>0, <2>1, <2>2, <2>3, <2>4, <2>5, <2>6 DEF Core, HandlersOK, ServerGone, Interrupted
  <2>11. SessionOK'
    BY <1>1, <1>0, <2>1, <2>2, <2>3, <2>4, <2>5, <2>6 DEF Core, SessionOK, PeersOK, HandlersOK, CallsOK, ServerGone, Interrupted
  <2> QED BY <2>7, <2>8, <2>9, <2>10, <2>11 DEF Core
<1>2. CASE ~Interrupted
  <2>1. /\ pc.input = "left"
        /\ pc' = [main |-> pc.main, input |-> "done", listen |-> pc.listen]
        /\ sock' = sock
    BY <1>a, <1>2, <1>0, PlacesAre DEF UserLeaves
  <2>2. flags' = [continue |-> flags.continue, over |-> flags.over, closed |-> flags.closed \/ Interrupted, lost |-> flags.lost]
    BY <1>a, <1>2, <1>0, FlagsAre DEF UserLeaves, Interrupted
  <2>3. /\ flags' \in Flags
        /\ flags'.continue = flags.continue
        /\ flags'.over = flags.over
        /\ flags'.lost = flags.lost
        /\ flags'.closed <=> flags.closed \/ Interrupted
    BY <2>1, <2>2, <1>0, FlagsAre DEF Flags, Interrupted
  <2>4. /\ logged' = logged
        /\ calls' = calls
        /\ ring' = ring
        /\ typed' = typed
        /\ server' = server
        /\ shown' = shown
    BY <1>a, <1>2 DEF UserLeaves
  <2>5. Says' <=> Says
    BY <2>1, <2>2, <2>3, <2>4 DEF Says
  <2>6. Typed'
    BY <1>0, <2>1, <2>2, <2>3, <2>4, <2>5 DEF Core, Typed, Places
  <2>7. PeersOK'
    BY <1>2, <1>0, <2>1, <2>2, <2>3, <2>4, <2>5 DEF Core, PeersOK, Leaders, ServerGone, Interrupted
  <2>8. CallsOK'
    BY <1>2, <1>0, <2>1, <2>2, <2>3, <2>4, <2>5 DEF Core, CallsOK, HandlersOK, ServerGone, Interrupted
  <2>9. HandlersOK'
    BY <1>2, <1>0, <2>1, <2>2, <2>3, <2>4, <2>5 DEF Core, HandlersOK, ServerGone, Interrupted
  <2>10. SessionOK'
    BY <1>2, <1>0, <2>1, <2>2, <2>3, <2>4, <2>5 DEF Core, SessionOK, PeersOK, HandlersOK, CallsOK, ServerGone, Interrupted
  <2> QED BY <2>6, <2>7, <2>8, <2>9, <2>10 DEF Core
<1> QED BY <1>a, <1>1, <1>2 DEF UserLeaves

LEMMA ServerLoopKept ==
    ASSUME Core, ServerLoop
    PROVE  Core'
<1>0. /\ Core /\ pc \in Places /\ flags \in Flags /\ logged \in BOOLEAN /\ sock \in Sockets
      /\ calls \in Calls /\ ring \in Rings /\ typed \in 0..MaxCommands
      /\ server \in Servers /\ shown \in Seq(Messages)
  BY DEF Core, Typed
<1>a. ServerLoop
  OBVIOUS
<1>1. CASE flags.over \/ Interrupted
  <2>1. /\ pc.listen = "check"
        /\ pc' = [main |-> pc.main, input |-> pc.input, listen |-> "done"]
    BY <1>a, <1>1, <1>0, PlacesAre DEF ServerLoop
  <2>2. /\ flags' = flags
        /\ logged' = logged
        /\ sock' = sock
        /\ calls' = calls
        /\ ring' = ring
        /\ typed' = typed
        /\ server' = server
        /\ shown' = shown
    BY <1>a, <1>1 DEF ServerLoop
  <2>3. Says' <=> Says
    BY <2>1, <2>2 DEF Says
  <2>4. Typed'
    BY <1>0, <2>1, <2>2, <2>3 DEF Core, Typed, Places
  <2>5. PeersOK'
    BY <1>1, <1>0, <2>1, <2>2, <2>3 DEF Core, PeersOK, Leaders, ServerGone, Interrupted
  <2>6. CallsOK'
    BY <1>1, <1>0, <2>1, <2>2, <2>3 DEF Core, CallsOK, HandlersOK, ServerGone, Interrupted
  <2>7. HandlersOK'
    BY <1>1, <1>0, <2>1, <2>2, <2>3 DEF Core, HandlersOK, ServerGone, Interrupted
  <2>8. SessionOK'
    BY <1>1, <1>0, <2>1, <2>2, <2>3 DEF Core, SessionOK, PeersOK, HandlersOK, CallsOK, ServerGone, Interrupted
  <2> QED BY <2>4, <2>5, <2>6, <2>7, <2>8 DEF Core
<1>2. CASE ~(flags.over \/ Interrupted)
  <2>1. /\ pc.listen = "check"
        /\ pc' = [main |-> pc.main, input |-> pc.input, listen |-> "read"]
    BY <1>a, <1>2, <1>0, PlacesAre DEF ServerLoop
  <2>2. /\ flags' = flags
        /\ logged' = logged
        /\ sock' = sock
        /\ calls' = calls
        /\ ring' = ring
        /\ typed' = typed
        /\ server' = server
        /\ shown' = shown
    BY <1>a, <1>2 DEF ServerLoop
  <2>3. Says' <=> Says
    BY <2>1, <2>2 DEF Says
  <2>4. Typed'
    BY <1>0, <2>1, <2>2, <2>3 DEF Core, Typed, Places
  <2>5. PeersOK'
    BY <1>2, <1>0, <2>1, <2>2, <2>3 DEF Core, PeersOK, Leaders, ServerGone, Interrupted
  <2>6. CallsOK'
    BY <1>2, <1>0, <2>1, <2>2, <2>3 DEF Core, CallsOK, HandlersOK, ServerGone, Interrupted
  <2>7. HandlersOK'
    BY <1>2, <1>0, <2>1, <2>2, <2>3 DEF Core, HandlersOK, ServerGone, Interrupted
  <2>8. SessionOK'
    BY <1>2, <1>0, <2>1, <2>2, <2>3 DEF Core, SessionOK, PeersOK, HandlersOK, CallsOK, ServerGone, Interrupted
  <2> QED BY <2>4, <2>5, <2>6, <2>7, <2>8 DEF Core
<1> QED BY <1>a, <1>1, <1>2 DEF ServerLoop

LEMMA ReadNothingKept ==
    ASSUME Core, ReadNothing
    PROVE  Core'
<1>0. /\ Core /\ pc \in Places /\ flags \in Flags /\ logged \in BOOLEAN /\ sock \in Sockets
      /\ calls \in Calls /\ ring \in Rings /\ typed \in 0..MaxCommands
      /\ server \in Servers /\ shown \in Seq(Messages)
  BY DEF Core, Typed
<1>a. ReadNothing
  OBVIOUS
<1>1. /\ pc.listen = "read"
      /\ pc' = [main |-> pc.main, input |-> pc.input, listen |-> "check"]
  BY <1>a, <1>0, PlacesAre DEF ReadNothing
<1>2. /\ flags' = flags
      /\ logged' = logged
      /\ sock' = sock
      /\ calls' = calls
      /\ ring' = ring
      /\ typed' = typed
      /\ server' = server
      /\ shown' = shown
  BY <1>a DEF ReadNothing
<1>3. Says' <=> Says
  BY <1>1, <1>2 DEF Says
<1>4. Typed'
  BY <1>0, <1>1, <1>2, <1>3 DEF Core, Typed, Places
<1>5. PeersOK'
  BY <1>0, <1>1, <1>2, <1>3 DEF Core, PeersOK, Leaders, ServerGone, Interrupted
<1>6. CallsOK'
  BY <1>0, <1>1, <1>2, <1>3 DEF Core, CallsOK, HandlersOK, ServerGone, Interrupted
<1>7. HandlersOK'
  BY <1>0, <1>1, <1>2, <1>3 DEF Core, HandlersOK, ServerGone, Interrupted
<1>8. SessionOK'
  BY <1>0, <1>1, <1>2, <1>3 DEF Core, SessionOK, PeersOK, HandlersOK, CallsOK, ServerGone, Interrupted
<1> QED BY <1>4, <1>5, <1>6, <1>7, <1>8 DEF Core

LEMMA ServerLostKept ==
    ASSUME Core, ServerLost
    PROVE  Core'
<1>0. /\ Core /\ pc \in Places /\ flags \in Flags /\ logged \in BOOLEAN /\ sock \in Sockets
      /\ calls \in Calls /\ ring \in Rings /\ typed \in 0..MaxCommands
      /\ server \in Servers /\ shown \in Seq(Messages)
  BY DEF Core, Typed
<1>a. ServerLost
  OBVIOUS
<1>1. /\ pc.listen = "read"
      /\ pc' = [main |-> pc.main, input |-> pc.input, listen |-> "done"]
      /\ ServerGone
  BY <1>a, <1>0, PlacesAre DEF ServerLost
<1>2. flags' = [continue |-> flags.continue, over |-> TRUE, closed |-> flags.closed, lost |-> TRUE]
  BY <1>a, <1>0, FlagsAre DEF ServerLost
<1>3. /\ flags' \in Flags
      /\ flags'.continue = flags.continue
      /\ flags'.over
      /\ flags'.lost
      /\ flags'.closed = flags.closed
  BY <1>1, <1>2, <1>0, FlagsAre DEF Flags
<1>4. sock' = [peer |-> sock.peer, open |-> FALSE, out |-> sock.out, in |-> sock.in]
  BY <1>a, <1>0, SocketIs DEF ServerLost
<1>5. /\ sock' \in Sockets
      /\ sock'.peer = sock.peer
      /\ sock'.out = sock.out
      /\ sock'.in = sock.in
  BY <1>1, <1>2, <1>3, <1>4, <1>0, SocketIs DEF Sockets
<1>6. /\ logged' = logged
      /\ calls' = calls
      /\ ring' = ring
      /\ typed' = typed
      /\ server' = server
      /\ shown' = shown
  BY <1>a DEF ServerLost
<1>7. Says' <=> Says
  BY <1>1, <1>2, <1>3, <1>4, <1>5, <1>6 DEF Says
<1>8. Typed'
  BY <1>0, <1>1, <1>2, <1>3, <1>4, <1>5, <1>6, <1>7 DEF Core, Typed, Places
<1>9. PeersOK'
  BY <1>0, <1>1, <1>2, <1>3, <1>4, <1>5, <1>6, <1>7 DEF Core, PeersOK, Leaders, ServerGone, Interrupted
<1>10. CallsOK'
  BY <1>0, <1>1, <1>2, <1>3, <1>4, <1>5, <1>6, <1>7 DEF Core, CallsOK, HandlersOK, ServerGone, Interrupted
<1>11. HandlersOK'
  BY <1>0, <1>1, <1>2, <1>3, <1>4, <1>5, <1>6, <1>7 DEF Core, HandlersOK, ServerGone, Interrupted
<1>12. SessionOK'
  BY <1>0, <1>1, <1>2, <1>3, <1>4, <1>5, <1>6, <1>7 DEF Core, SessionOK, PeersOK, HandlersOK, CallsOK, ServerGone, Interrupted
<1> QED BY <1>8, <1>9, <1>10, <1>11, <1>12 DEF Core

LEMMA InterruptKept ==
    ASSUME Core, Interrupt
    PROVE  Core'
<1>0. /\ Core /\ pc \in Places /\ flags \in Flags /\ logged \in BOOLEAN /\ sock \in Sockets
      /\ calls \in Calls /\ ring \in Rings /\ typed \in 0..MaxCommands
      /\ server \in Servers /\ shown \in Seq(Messages)
  BY DEF Core, Typed
<1>a. Interrupt
  OBVIOUS
<1>1. flags' = [continue |-> FALSE, over |-> flags.over, closed |-> flags.closed, lost |-> flags.lost]
  BY <1>a, <1>0, FlagsAre DEF Interrupt
<1>2. /\ flags' \in Flags
      /\ flags'.continue = FALSE
      /\ flags'.over = flags.over
      /\ flags'.lost = flags.lost
      /\ flags'.closed = flags.closed
  BY <1>1, <1>0, FlagsAre DEF Flags
<1>3. /\ pc' = pc
      /\ logged' = logged
      /\ sock' = sock
      /\ calls' = calls
      /\ ring' = ring
      /\ typed' = typed
      /\ server' = server
      /\ shown' = shown
  BY <1>a DEF Interrupt
<1>4. Says' <=> Says
  BY <1>1, <1>2, <1>3 DEF Says
<1>5. Typed'
  BY <1>0, <1>1, <1>2, <1>3, <1>4 DEF Core, Typed
<1>6. PeersOK'
  BY <1>0, <1>1, <1>2, <1>3, <1>4 DEF Core, PeersOK, Leaders, ServerGone, Interrupted
<1>7. CallsOK'
  BY <1>0, <1>1, <1>2, <1>3, <1>4 DEF Core, CallsOK, HandlersOK, ServerGone, Interrupted
<1>8. HandlersOK'
  BY <1>0, <1>1, <1>2, <1>3, <1>4 DEF Core, HandlersOK, ServerGone, Interrupted
<1>9. SessionOK'
  BY <1>0, <1>1, <1>2, <1>3, <1>4 DEF Core, SessionOK, PeersOK, HandlersOK, CallsOK, ServerGone, Interrupted
<1> QED BY <1>5, <1>6, <1>7, <1>8, <1>9 DEF Core

-----------------------------------------------------------------------------
(* The ring *)

LEMMA NextSlot ==
    ASSUME NEW at \in Slots
    PROVE  (at + 1) % RingSize = IF at + 1 = RingSize THEN 0 ELSE at + 1
BY ClientAssumption DEF Slots

LEMMA RememberIs ==
    ASSUME ring \in Rings, NEW id \in 0..MaxMessages
    PROVE  LET next == IF ring.at + 1 = RingSize THEN 0 ELSE ring.at + 1
           IN  /\ Remember(id) \in Rings /\ next \in Slots
               /\ Remember(id).at = next /\ Remember(id).ids[next] = id
               /\ \A k \in Slots : k # next => Remember(id).ids[k] = ring.ids[k]
<1> DEFINE next == (ring.at + 1) % RingSize
<1>1. ring.at \in Slots /\ ring.ids \in [Slots -> 0..MaxMessages]
  BY DEF Rings
<1>2. next = (IF ring.at + 1 = RingSize THEN 0 ELSE ring.at + 1)
  BY <1>1, NextSlot
<1>3. next \in Slots
  <2> HIDE DEF next
  <2> QED BY <1>1, <1>2, ClientAssumption DEF Slots
<1>4. Remember(id) = [at |-> next, ids |-> [ring.ids EXCEPT ![next] = id]]
  BY DEF Remember
<1> HIDE DEF next
<1>5. [ring.ids EXCEPT ![next] = id] \in [Slots -> 0..MaxMessages]
  BY <1>1, <1>3
<1>6. /\ Remember(id) \in Rings
      /\ Remember(id).at = next /\ Remember(id).ids[next] = id
      /\ \A k \in Slots : k # next => Remember(id).ids[k] = ring.ids[k]
  BY <1>1, <1>3, <1>4, <1>5 DEF Rings
<1> QED BY <1>2, <1>3, <1>6

-----------------------------------------------------------------------------
(* The leader *)

LEMMA TakeRequestKept ==
    ASSUME Core, TakeRequest
    PROVE  Core'
<1>0. /\ Core /\ pc \in Places /\ flags \in Flags /\ logged \in BOOLEAN /\ sock \in Sockets
      /\ calls \in Calls /\ ring \in Rings /\ typed \in 0..MaxCommands
      /\ server \in Servers /\ shown \in Seq(Messages)
  BY DEF Core, Typed
<1>a. TakeRequest
  OBVIOUS
<1>1. /\ sock' = OutRead
      /\ sock.out # <<>>
      /\ ~ServerGone
      /\ server.session = "none"
  BY <1>a DEF TakeRequest, OutRead, Serves
<1>2. \E s \in {"committing", "unanswered"} : Session(s)
  BY <1>a DEF TakeRequest
<1>3. /\ server' \in Servers
      /\ server'.session \in {"committing", "unanswered"}
      /\ server'.leader = server.leader
      /\ server'.up = server.up
      /\ server'.known = server.known
  BY <1>1, <1>2, <1>0, SessionIs DEF Sessions
<1>4. /\ sock' \in Sockets
      /\ sock'.peer = sock.peer
      /\ sock'.open = sock.open
      /\ sock'.in = sock.in
  BY <1>a, <1>1, <1>2, <1>3, <1>0, TakenOut DEF TakeRequest
<1>5. /\ pc' = pc
      /\ flags' = flags
      /\ logged' = logged
      /\ calls' = calls
      /\ ring' = ring
      /\ typed' = typed
      /\ shown' = shown
  BY <1>a DEF TakeRequest, ServerUnchanged
<1>6. Typed'
  BY <1>0, <1>1, <1>2, <1>3, <1>4, <1>5 DEF Core, Typed
<1>7. PeersOK'
  BY <1>0, <1>1, <1>2, <1>3, <1>4, <1>5 DEF Core, PeersOK, Leaders, ServerGone, Interrupted
<1>8. CallsOK'
  BY <1>0, <1>1, <1>2, <1>3, <1>4, <1>5 DEF Core, CallsOK, HandlersOK, ServerGone, Interrupted
<1>9. HandlersOK'
  BY <1>0, <1>1, <1>2, <1>3, <1>4, <1>5 DEF Core, HandlersOK, ServerGone, Interrupted
<1>10. SessionOK'
  BY <1>0, <1>1, <1>2, <1>3, <1>4, <1>5 DEF Core, SessionOK, PeersOK, HandlersOK, CallsOK, ServerGone, Interrupted
<1> QED BY <1>6, <1>7, <1>8, <1>9, <1>10 DEF Core

LEMMA TakeInKept ==
    ASSUME Core, TakeIn
    PROVE  Core'
<1>0. /\ Core /\ pc \in Places /\ flags \in Flags /\ logged \in BOOLEAN /\ sock \in Sockets
      /\ calls \in Calls /\ ring \in Rings /\ typed \in 0..MaxCommands
      /\ server \in Servers /\ shown \in Seq(Messages)
  BY DEF Core, Typed
<1>a. TakeIn
  OBVIOUS
<1>1. CASE Session("created") /\ UNCHANGED sock
  <2>1. server.session = "committing"
    BY <1>a, <1>1 DEF TakeIn, Serves
  <2>2. /\ server' \in Servers
        /\ server'.session = "created"
        /\ server'.leader = server.leader
        /\ server'.up = server.up
        /\ server'.known = server.known
    BY <1>a, <1>1, <2>1, <1>0, SessionIs DEF Sessions
  <2>3. sock' = sock
    BY <1>a, <1>1
  <2>4. /\ pc' = pc
        /\ flags' = flags
        /\ logged' = logged
        /\ calls' = calls
        /\ ring' = ring
        /\ typed' = typed
        /\ shown' = shown
    BY <1>a, <1>1 DEF TakeIn, ServerUnchanged
  <2>5. Says' <=> Says
    BY <2>1, <2>2, <2>3, <2>4 DEF Says
  <2>6. Typed'
    BY <1>0, <2>1, <2>2, <2>3, <2>4, <2>5 DEF Core, Typed
  <2>7. PeersOK'
    BY <1>1, <1>0, <2>1, <2>2, <2>3, <2>4, <2>5 DEF Core, PeersOK, Leaders, ServerGone, Interrupted
  <2>8. CallsOK'
    BY <1>1, <1>0, <2>1, <2>2, <2>3, <2>4, <2>5 DEF Core, CallsOK, HandlersOK, ServerGone, Interrupted
  <2>9. HandlersOK'
    BY <1>1, <1>0, <2>1, <2>2, <2>3, <2>4, <2>5 DEF Core, HandlersOK, ServerGone, Interrupted
  <2>10. SessionOK'
    BY <1>1, <1>0, <2>1, <2>2, <2>3, <2>4, <2>5 DEF Core, SessionOK, PeersOK, HandlersOK, CallsOK, ServerGone, Interrupted
  <2> QED BY <2>6, <2>7, <2>8, <2>9, <2>10 DEF Core
<1>2. CASE Session("unanswered") /\ UNCHANGED sock
  <2>1. server.session = "committing"
    BY <1>a, <1>2 DEF TakeIn, Serves
  <2>2. /\ server' \in Servers
        /\ server'.session = "unanswered"
        /\ server'.leader = server.leader
        /\ server'.up = server.up
        /\ server'.known = server.known
    BY <1>a, <1>2, <2>1, <1>0, SessionIs DEF Sessions
  <2>3. sock' = sock
    BY <1>a, <1>2
  <2>4. /\ pc' = pc
        /\ flags' = flags
        /\ logged' = logged
        /\ calls' = calls
        /\ ring' = ring
        /\ typed' = typed
        /\ shown' = shown
    BY <1>a, <1>2 DEF TakeIn, ServerUnchanged
  <2>5. Says' <=> Says
    BY <2>1, <2>2, <2>3, <2>4 DEF Says
  <2>6. Typed'
    BY <1>0, <2>1, <2>2, <2>3, <2>4, <2>5 DEF Core, Typed
  <2>7. PeersOK'
    BY <1>2, <1>0, <2>1, <2>2, <2>3, <2>4, <2>5 DEF Core, PeersOK, Leaders, ServerGone, Interrupted
  <2>8. CallsOK'
    BY <1>2, <1>0, <2>1, <2>2, <2>3, <2>4, <2>5 DEF Core, CallsOK, HandlersOK, ServerGone, Interrupted
  <2>9. HandlersOK'
    BY <1>2, <1>0, <2>1, <2>2, <2>3, <2>4, <2>5 DEF Core, HandlersOK, ServerGone, Interrupted
  <2>10. SessionOK'
    BY <1>2, <1>0, <2>1, <2>2, <2>3, <2>4, <2>5 DEF Core, SessionOK, PeersOK, HandlersOK, CallsOK, ServerGone, Interrupted
  <2> QED BY <2>6, <2>7, <2>8, <2>9, <2>10 DEF Core
<1>3. CASE Session("refused") /\ sock' = Replied("ERROR", 0)
  <2>1. server.session = "committing"
    BY <1>a, <1>3 DEF TakeIn, Serves
  <2>2. /\ server' \in Servers
        /\ server'.session = "refused"
        /\ server'.leader = server.leader
        /\ server'.up = server.up
        /\ server'.known = server.known
    BY <1>a, <1>3, <2>1, <1>0, SessionIs DEF Sessions
  <2>3. 0 \in 0..MaxMessages
    BY ClientAssumption
  <2>4. sock' = Replied("ERROR", 0)
    BY <1>a, <1>3
  <2>5. /\ sock' \in Sockets
        /\ sock'.peer = sock.peer
        /\ sock'.open = sock.open
        /\ sock'.out = sock.out
        /\ \A k \in DOMAIN sock'.in :
           \/ sock'.in[k].type = "ERROR" /\ sock'.in[k].id = 0
           \/ k \in DOMAIN sock.in /\ sock'.in[k] = sock.in[k]
    BY <2>1, <2>2, <2>3, <2>4, <1>0, RepliedIs
  <2>6. /\ pc' = pc
        /\ flags' = flags
        /\ logged' = logged
        /\ calls' = calls
        /\ ring' = ring
        /\ typed' = typed
        /\ shown' = shown
    BY <1>a, <1>3 DEF TakeIn, ServerUnchanged
  <2>7. Says' <=> Says
    BY <2>1, <2>2, <2>3, <2>4, <2>5, <2>6 DEF Says
  <2>8. Typed'
    BY <1>0, <2>1, <2>2, <2>3, <2>4, <2>5, <2>6, <2>7 DEF Core, Typed
  <2>9. PeersOK'
    BY <1>3, <1>0, <2>1, <2>2, <2>3, <2>4, <2>5, <2>6, <2>7 DEF Core, PeersOK, Leaders, ServerGone, Interrupted
  <2>10. CallsOK'
    BY <1>3, <1>0, <2>1, <2>2, <2>3, <2>4, <2>5, <2>6, <2>7 DEF Core, CallsOK, HandlersOK, ServerGone, Interrupted
  <2>11. HandlersOK'
    BY <1>3, <1>0, <2>1, <2>2, <2>3, <2>4, <2>5, <2>6, <2>7 DEF Core, HandlersOK, ServerGone, Interrupted
  <2>12. SessionOK'
    BY <1>3, <1>0, <2>1, <2>2, <2>3, <2>4, <2>5, <2>6, <2>7 DEF Core, SessionOK, PeersOK, HandlersOK, CallsOK, ServerGone, Interrupted
  <2> QED BY <2>8, <2>9, <2>10, <2>11, <2>12 DEF Core
<1> QED BY <1>a, <1>1, <1>2, <1>3 DEF TakeIn

LEMMA WelcomeKept ==
    ASSUME Core, Welcome
    PROVE  Core'
<1>0. /\ Core /\ pc \in Places /\ flags \in Flags /\ logged \in BOOLEAN /\ sock \in Sockets
      /\ calls \in Calls /\ ring \in Rings /\ typed \in 0..MaxCommands
      /\ server \in Servers /\ shown \in Seq(Messages)
  BY DEF Core, Typed
<1>a. Welcome
  OBVIOUS
<1>1. server.session = "created"
  BY <1>a DEF Welcome, Serves
<1>2. /\ server' \in Servers
      /\ server'.session = "open"
      /\ server'.leader = server.leader
      /\ server'.up = server.up
      /\ server'.known = server.known
  BY <1>a, <1>1, <1>0, SessionIs DEF Sessions, Welcome
<1>3. 0 \in 0..MaxMessages
  BY ClientAssumption
<1>4. sock' = Replied("SUCCESS", 0)
  BY <1>a DEF Welcome
<1>5. /\ sock' \in Sockets
      /\ sock'.peer = sock.peer
      /\ sock'.open = sock.open
      /\ sock'.out = sock.out
      /\ \A k \in DOMAIN sock'.in :
           \/ sock'.in[k].type = "SUCCESS" /\ sock'.in[k].id = 0
           \/ k \in DOMAIN sock.in /\ sock'.in[k] = sock.in[k]
  BY <1>1, <1>2, <1>3, <1>4, <1>0, RepliedIs
<1>6. /\ pc' = pc
      /\ flags' = flags
      /\ logged' = logged
      /\ calls' = calls
      /\ ring' = ring
      /\ typed' = typed
      /\ shown' = shown
  BY <1>a DEF Welcome, ServerUnchanged
<1>7. Says' <=> Says
  BY <1>1, <1>2, <1>3, <1>4, <1>5, <1>6 DEF Says
<1>8. Typed'
  BY <1>0, <1>1, <1>2, <1>3, <1>4, <1>5, <1>6, <1>7 DEF Core, Typed
<1>9. PeersOK'
  BY <1>0, <1>1, <1>2, <1>3, <1>4, <1>5, <1>6, <1>7 DEF Core, PeersOK, Leaders, ServerGone, Interrupted
<1>10. CallsOK'
  BY <1>0, <1>1, <1>2, <1>3, <1>4, <1>5, <1>6, <1>7 DEF Core, CallsOK, HandlersOK, ServerGone, Interrupted
<1>11. HandlersOK'
  BY <1>0, <1>1, <1>2, <1>3, <1>4, <1>5, <1>6, <1>7 DEF Core, HandlersOK, ServerGone, Interrupted
<1>12. SessionOK'
  BY <1>0, <1>1, <1>2, <1>3, <1>4, <1>5, <1>6, <1>7 DEF Core, SessionOK, PeersOK, HandlersOK, CallsOK, ServerGone, Interrupted
<1> QED BY <1>8, <1>9, <1>10, <1>11, <1>12 DEF Core

LEMMA UnreadIs ==
    ASSUME server \in Servers, NEW m, server' = [server EXCEPT !.unread = @ \ {m}]
    PROVE  /\ server' \in Servers /\ server'.session = server.session
           /\ server'.leader = server.leader /\ server'.up = server.up
           /\ server'.known = server.known
<1>1. server' = [leader |-> server.leader, up |-> server.up, known |-> server.known,
                 session |-> server.session, unread |-> server.unread \ {m},
                 nextUnread |-> server.nextUnread]
  BY ServerIs
<1> QED BY <1>1, ServerIs DEF Servers

LEMMA DeliverMessageKept ==
    ASSUME Core, DeliverMessage
    PROVE  Core'
<1>0. /\ Core /\ pc \in Places /\ flags \in Flags /\ logged \in BOOLEAN /\ sock \in Sockets
      /\ calls \in Calls /\ ring \in Rings /\ typed \in 0..MaxCommands
      /\ server \in Servers /\ shown \in Seq(Messages)
  BY DEF Core, Typed
<1>a. DeliverMessage
  OBVIOUS
<1>b. PICK m \in server.unread : /\ server' = [server EXCEPT !.unread = @ \ {m}]
                                /\ sock' = Replied("MESSAGE", m)
  BY <1>a DEF DeliverMessage
<1>1. /\ m \in Messages
      /\ m \in 0..MaxMessages
  BY <1>0, ServerIs, ClientAssumption DEF Messages
<1>2. /\ server' \in Servers
      /\ server'.session = server.session
      /\ server'.leader = server.leader
      /\ server'.up = server.up
      /\ server'.known = server.known
  BY <1>b, <1>0, UnreadIs
<1>3. /\ sock' \in Sockets
      /\ sock'.peer = sock.peer
      /\ sock'.open = sock.open
      /\ sock'.out = sock.out
      /\ \A k \in DOMAIN sock'.in :
           \/ sock'.in[k].type = "MESSAGE" /\ sock'.in[k].id = m
           \/ k \in DOMAIN sock.in /\ sock'.in[k] = sock.in[k]
  BY <1>b, <1>1, <1>0, RepliedIs
<1>4. server.session \in {"open", "created"}
  BY <1>a DEF DeliverMessage, Serves
<1>5. /\ pc' = pc
      /\ flags' = flags
      /\ logged' = logged
      /\ calls' = calls
      /\ ring' = ring
      /\ typed' = typed
      /\ shown' = shown
  BY <1>a DEF DeliverMessage, ServerUnchanged
<1>6. Says' <=> Says
  BY <1>1, <1>2, <1>3, <1>4, <1>5 DEF Says
<1>7. Typed'
  BY <1>0, <1>1, <1>2, <1>3, <1>4, <1>5, <1>6 DEF Core, Typed
<1>8. PeersOK'
  BY <1>0, <1>1, <1>2, <1>3, <1>4, <1>5, <1>6 DEF Core, PeersOK, Leaders, ServerGone, Interrupted
<1>9. CallsOK'
  BY <1>0, <1>1, <1>2, <1>3, <1>4, <1>5, <1>6 DEF Core, CallsOK, HandlersOK, ServerGone, Interrupted
<1>10. HandlersOK'
  BY <1>0, <1>1, <1>2, <1>3, <1>4, <1>5, <1>6 DEF Core, HandlersOK, ServerGone, Interrupted
<1>11. SessionOK'
  BY <1>0, <1>1, <1>2, <1>3, <1>4, <1>5, <1>6 DEF Core, SessionOK, PeersOK, HandlersOK, CallsOK, ServerGone, Interrupted
<1> QED BY <1>7, <1>8, <1>9, <1>10, <1>11 DEF Core

LEMMA TakeCommandKept ==
    ASSUME Core, TakeCommand
    PROVE  Core'
<1>0. /\ Core /\ pc \in Places /\ flags \in Flags /\ logged \in BOOLEAN /\ sock \in Sockets
      /\ calls \in Calls /\ ring \in Rings /\ typed \in 0..MaxCommands
      /\ server \in Servers /\ shown \in Seq(Messages)
  BY DEF Core, Typed
<1>a. TakeCommand
  OBVIOUS
<1>1. CASE Head(sock.out) # "CLOSE"
  <2>1. /\ sock' = OutRead
        /\ sock.out # <<>>
        /\ ~ServerGone
        /\ server.session = "open"
        /\ server' = server
        /\ Head(sock.out) # "CLOSE"
    BY <1>a, <1>1 DEF TakeCommand, OutRead, Serves
  <2>2. /\ sock' \in Sockets
        /\ sock'.peer = sock.peer
        /\ sock'.open = sock.open
        /\ sock'.in = sock.in
    BY <1>a, <1>1, <2>1, <1>0, TakenOut
  <2>3. Says => Says'
    BY <2>1, <2>2, <1>0, SaysTaken
  <2>4. /\ pc' = pc
        /\ flags' = flags
        /\ logged' = logged
        /\ calls' = calls
        /\ ring' = ring
        /\ typed' = typed
        /\ shown' = shown
    BY <1>a, <1>1 DEF TakeCommand, ServerUnchanged
  <2>5. Typed'
    BY <1>0, <2>1, <2>2, <2>3, <2>4 DEF Core, Typed
  <2>6. PeersOK'
    BY <1>1, <1>0, <2>1, <2>2, <2>3, <2>4 DEF Core, PeersOK, Leaders, ServerGone, Interrupted
  <2>7. CallsOK'
    BY <1>1, <1>0, <2>1, <2>2, <2>3, <2>4 DEF Core, CallsOK, HandlersOK, ServerGone, Interrupted
  <2>8. HandlersOK'
    BY <1>1, <1>0, <2>1, <2>2, <2>3, <2>4 DEF Core, HandlersOK, ServerGone, Interrupted
  <2>9. SessionOK'
    BY <1>1, <1>0, <2>1, <2>2, <2>3, <2>4 DEF Core, SessionOK, PeersOK, HandlersOK, CallsOK, ServerGone, Interrupted
  <2> QED BY <2>5, <2>6, <2>7, <2>8, <2>9 DEF Core
<1>2. CASE Head(sock.out) = "CLOSE"
  <2>1. /\ sock' = [OutRead EXCEPT !.in = Replied("CLOSE", 0).in]
        /\ sock.out # <<>>
        /\ ~ServerGone
        /\ server.session = "open"
        /\ Session("closed")
    BY <1>a, <1>2 DEF TakeCommand, OutRead, Serves
  <2>2. /\ server' \in Servers
        /\ server'.session = "closed"
        /\ server'.leader = server.leader
        /\ server'.up = server.up
        /\ server'.known = server.known
    BY <2>1, <1>0, SessionIs DEF Sessions
  <2>3. /\ OutRead \in Sockets
        /\ OutRead.peer = sock.peer
        /\ OutRead.open = sock.open
    BY <2>1, <1>0, TakenOut
  <2>4. 0 \in 0..MaxMessages
    BY ClientAssumption
  <2>5. /\ Replied("CLOSE", 0).in \in Seq(Answers)
        /\ \A k \in DOMAIN Replied("CLOSE", 0).in :
           \/ Replied("CLOSE", 0).in[k].type = "CLOSE" /\ Replied("CLOSE", 0).in[k].id = 0
           \/ k \in DOMAIN sock.in /\ Replied("CLOSE", 0).in[k] = sock.in[k]
    BY <2>4, <1>0, RepliedIs, SocketIs
  <2>6. /\ sock' \in Sockets
        /\ sock'.peer = sock.peer
        /\ sock'.open = sock.open
        /\ sock'.in = Replied("CLOSE", 0).in
    BY <2>1, <2>3, <2>5 DEF Sockets
  <2>7. /\ pc' = pc
        /\ flags' = flags
        /\ logged' = logged
        /\ calls' = calls
        /\ ring' = ring
        /\ typed' = typed
        /\ shown' = shown
    BY <1>a, <1>2 DEF TakeCommand, ServerUnchanged
  <2>8. Typed'
    BY <1>0, <2>1, <2>2, <2>3, <2>4, <2>5, <2>6, <2>7 DEF Core, Typed
  <2>9. PeersOK'
    BY <1>2, <1>0, <2>1, <2>2, <2>3, <2>4, <2>5, <2>6, <2>7 DEF Core, PeersOK, Leaders, ServerGone, Interrupted
  <2>10. CallsOK'
    BY <1>2, <1>0, <2>1, <2>2, <2>3, <2>4, <2>5, <2>6, <2>7 DEF Core, CallsOK, HandlersOK, ServerGone, Interrupted
  <2>11. HandlersOK'
    BY <1>2, <1>0, <2>1, <2>2, <2>3, <2>4, <2>5, <2>6, <2>7 DEF Core, HandlersOK, ServerGone, Interrupted
  <2>12. SessionOK'
    BY <1>2, <1>0, <2>1, <2>2, <2>3, <2>4, <2>5, <2>6, <2>7 DEF Core, SessionOK, PeersOK, HandlersOK, CallsOK, ServerGone, Interrupted
  <2> QED BY <2>8, <2>9, <2>10, <2>11, <2>12 DEF Core
<1> QED BY <1>a, <1>1, <1>2 DEF TakeCommand

LEMMA KnownValue ==
    ASSUME server' = [server EXCEPT !.known = server.session \in {"committing", "created", "open"}]
    PROVE  \E b \in BOOLEAN : /\ b => server.session # "none"
                             /\ server' = [server EXCEPT !.known = b]
<1> DEFINE b == server.session \in {"committing", "created", "open"}
<1>1. b \in BOOLEAN /\ (b => server.session # "none")
  OBVIOUS
<1>2. server' = [server EXCEPT !.known = b]
  OBVIOUS
<1> HIDE DEF b
<1> QED BY <1>1, <1>2

LEMMA KnownIs ==
    ASSUME server \in Servers, NEW b \in BOOLEAN, server' = [server EXCEPT !.known = b]
    PROVE  /\ server' \in Servers /\ server'.session = server.session
           /\ server'.leader = server.leader /\ server'.up = server.up
           /\ server'.known = b
<1>1. server' = [leader |-> server.leader, up |-> server.up, known |-> b,
                 session |-> server.session, unread |-> server.unread,
                 nextUnread |-> server.nextUnread]
  BY ServerIs
<1> QED BY <1>1, ServerIs DEF Servers

LEMMA ReplicateKept ==
    ASSUME Core, Replicate
    PROVE  Core'
<1>0. /\ Core /\ pc \in Places /\ flags \in Flags /\ logged \in BOOLEAN /\ sock \in Sockets
      /\ calls \in Calls /\ ring \in Rings /\ typed \in 0..MaxCommands
      /\ server \in Servers /\ shown \in Seq(Messages)
  BY DEF Core, Typed
<1>a. Replicate
  OBVIOUS
<1>1. CASE server' = [server EXCEPT !.known = server.session \in {"committing", "created", "open"}]
  <2>1. /\ server.up
        /\ sock' = sock
    BY <1>a, <1>1 DEF Replicate
  <2>2. \E b \in BOOLEAN : (b => server.session # "none") /\ server' = [server EXCEPT !.known = b]
    BY <1>a, <1>1, KnownValue
  <2>3. /\ server' \in Servers
        /\ server'.session = server.session
        /\ server'.leader = server.leader
        /\ server'.up = server.up
        /\ server'.known => server.session # "none"
    BY <2>1, <2>2, <1>0, KnownIs
  <2>4. /\ pc' = pc
        /\ flags' = flags
        /\ logged' = logged
        /\ calls' = calls
        /\ ring' = ring
        /\ typed' = typed
        /\ shown' = shown
    BY <1>a, <1>1 DEF Replicate, ServerUnchanged
  <2>5. Says' <=> Says
    BY <2>1, <2>2, <2>3, <2>4 DEF Says
  <2>6. Typed'
    BY <1>0, <2>1, <2>2, <2>3, <2>4, <2>5 DEF Core, Typed
  <2>7. PeersOK'
    BY <1>1, <1>0, <2>1, <2>2, <2>3, <2>4, <2>5 DEF Core, PeersOK, Leaders, ServerGone, Interrupted
  <2>8. CallsOK'
    BY <1>1, <1>0, <2>1, <2>2, <2>3, <2>4, <2>5 DEF Core, CallsOK, HandlersOK, ServerGone, Interrupted
  <2>9. HandlersOK'
    BY <1>1, <1>0, <2>1, <2>2, <2>3, <2>4, <2>5 DEF Core, HandlersOK, ServerGone, Interrupted
  <2>10. SessionOK'
    BY <1>1, <1>0, <2>1, <2>2, <2>3, <2>4, <2>5 DEF Core, SessionOK, PeersOK, HandlersOK, CallsOK, ServerGone, Interrupted
  <2> QED BY <2>6, <2>7, <2>8, <2>9, <2>10 DEF Core
<1>2. CASE server' = [server EXCEPT !.nextUnread = server.unread]
  <2>1. /\ server.up
        /\ sock' = sock
    BY <1>a, <1>2 DEF Replicate
  <2>2. server' = [leader |-> server.leader, up |-> server.up, known |-> server.known, session |-> server.session,
           unread |-> server.unread, nextUnread |-> server.unread]
    BY <1>a, <1>2, <1>0, ServerIs
  <2>3. /\ server' \in Servers
        /\ server'.session = server.session
        /\ server'.leader = server.leader
        /\ server'.up = server.up
        /\ server'.known = server.known
    BY <2>1, <2>2, <1>0, ServerIs DEF Servers
  <2>4. /\ pc' = pc
        /\ flags' = flags
        /\ logged' = logged
        /\ calls' = calls
        /\ ring' = ring
        /\ typed' = typed
        /\ shown' = shown
    BY <1>a, <1>2 DEF Replicate, ServerUnchanged
  <2>5. Says' <=> Says
    BY <2>1, <2>2, <2>3, <2>4 DEF Says
  <2>6. Typed'
    BY <1>0, <2>1, <2>2, <2>3, <2>4, <2>5 DEF Core, Typed
  <2>7. PeersOK'
    BY <1>2, <1>0, <2>1, <2>2, <2>3, <2>4, <2>5 DEF Core, PeersOK, Leaders, ServerGone, Interrupted
  <2>8. CallsOK'
    BY <1>2, <1>0, <2>1, <2>2, <2>3, <2>4, <2>5 DEF Core, CallsOK, HandlersOK, ServerGone, Interrupted
  <2>9. HandlersOK'
    BY <1>2, <1>0, <2>1, <2>2, <2>3, <2>4, <2>5 DEF Core, HandlersOK, ServerGone, Interrupted
  <2>10. SessionOK'
    BY <1>2, <1>0, <2>1, <2>2, <2>3, <2>4, <2>5 DEF Core, SessionOK, PeersOK, HandlersOK, CallsOK, ServerGone, Interrupted
  <2> QED BY <2>6, <2>7, <2>8, <2>9, <2>10 DEF Core
<1> QED BY <1>a, <1>1, <1>2 DEF Replicate

LEMMA CutOff ==
    ASSUME sock \in Sockets, Crash
    PROVE  /\ sock' \in Sockets /\ sock'.peer = sock.peer /\ sock'.open = sock.open
           /\ sock'.out \in {sock.out, <<>>} /\ sock'.in \in {sock.in, <<>>}
<1>1. \/ sock' = sock \/ sock' = [sock EXCEPT !.out = <<>>]
      \/ sock' = [sock EXCEPT !.out = <<>>, !.in = <<>>]
  BY DEF Crash
<1>2. /\ [sock EXCEPT !.out = <<>>] =
            [peer |-> sock.peer, open |-> sock.open, out |-> <<>>, in |-> sock.in]
      /\ [sock EXCEPT !.out = <<>>, !.in = <<>>] =
            [peer |-> sock.peer, open |-> sock.open, out |-> <<>>, in |-> <<>>]
  <2> DEFINE e == <<>>
             s == [sock EXCEPT !.out = e]
             t == [s EXCEPT !.in = e]
  <2>1. [sock EXCEPT !.out = <<>>] = s /\ [sock EXCEPT !.out = <<>>, !.in = <<>>] = t
    OBVIOUS
  <2> HIDE DEF e
  <2>2. s = [peer |-> sock.peer, open |-> sock.open, out |-> e, in |-> sock.in]
    BY SocketIs
  <2> HIDE DEF s
  <2>3. t = [peer |-> sock.peer, open |-> sock.open, out |-> e, in |-> e]
    BY <2>2
  <2> HIDE DEF t
  <2> QED BY <2>1, <2>2, <2>3 DEF e
<1>3. <<>> \in Seq(Packets) /\ <<>> \in Seq(Answers)
  OBVIOUS
<1>4. CASE sock' = sock
  BY <1>4
<1>5. CASE sock' = [peer |-> sock.peer, open |-> sock.open, out |-> <<>>, in |-> sock.in]
  BY <1>3, <1>5, SocketIs, SocketOf
<1>6. CASE sock' = [peer |-> sock.peer, open |-> sock.open, out |-> <<>>, in |-> <<>>]
  BY <1>3, <1>6, SocketIs, SocketOf
<1> QED BY <1>1, <1>2, <1>4, <1>5, <1>6

LEMMA CrashKept ==
    ASSUME Core, Crash
    PROVE  Core'
<1>0. /\ Core /\ pc \in Places /\ flags \in Flags /\ logged \in BOOLEAN /\ sock \in Sockets
      /\ calls \in Calls /\ ring \in Rings /\ typed \in 0..MaxCommands
      /\ server \in Servers /\ shown \in Seq(Messages)
  BY DEF Core, Typed
<1>a. Crash
  OBVIOUS
<1>1. /\ server.up
      /\ server.leader < MaxLeaders
      /\ server' = [server EXCEPT !.up = FALSE]
  BY <1>a DEF Crash
<1>2. server' = [leader |-> server.leader, up |-> FALSE, known |-> server.known, session |-> server.session,
           unread |-> server.unread, nextUnread |-> server.nextUnread]
  BY <1>1, <1>0, ServerIs DEF Crash
<1>3. /\ server' \in Servers
      /\ server'.session = server.session
      /\ server'.leader = server.leader
      /\ server'.up = FALSE
      /\ server'.known = server.known
  BY <1>2, <1>0, ServerIs DEF Servers
<1>4. /\ sock' \in Sockets
      /\ sock'.peer = sock.peer
      /\ sock'.open = sock.open
      /\ sock'.out \in {sock.out, <<>>}
      /\ sock'.in \in {sock.in, <<>>}
  BY <1>a, <1>0, CutOff DEF Crash
<1>5. \A k \in DOMAIN sock'.in : k \in DOMAIN sock.in /\ sock'.in[k] = sock.in[k]
  BY <1>4 DEF Crash
<1>6. /\ pc' = pc
      /\ flags' = flags
      /\ logged' = logged
      /\ calls' = calls
      /\ ring' = ring
      /\ typed' = typed
      /\ shown' = shown
  BY <1>a DEF Crash, ServerUnchanged
<1>7. Typed'
  BY <1>0, <1>1, <1>2, <1>3, <1>4, <1>5, <1>6 DEF Core, Typed
<1>8. PeersOK'
  BY <1>0, <1>1, <1>2, <1>3, <1>4, <1>5, <1>6 DEF Core, PeersOK, Leaders, ServerGone, Interrupted
<1>9. CallsOK'
  BY <1>0, <1>1, <1>2, <1>3, <1>4, <1>5, <1>6 DEF Core, CallsOK, HandlersOK, ServerGone, Interrupted
<1>10. HandlersOK'
  BY <1>0, <1>1, <1>2, <1>3, <1>4, <1>5, <1>6 DEF Core, HandlersOK, ServerGone, Interrupted
<1>11. SessionOK'
  BY <1>0, <1>1, <1>2, <1>3, <1>4, <1>5, <1>6 DEF Core, SessionOK, PeersOK, HandlersOK, CallsOK, ServerGone, Interrupted
<1> QED BY <1>7, <1>8, <1>9, <1>10, <1>11 DEF Core


LEMMA SuccessorIs ==
    ASSUME server \in Servers, server.leader + 1 \in Leaders, NEW alive \in BOOLEAN
    PROVE  /\ NextLeader(alive) \in Servers /\ NextLeader(alive).leader = server.leader + 1
           /\ NextLeader(alive).up = alive /\ NextLeader(alive).session = "none"
           /\ NextLeader(alive).known = FALSE
<1> DEFINE l  == server.leader + 1
           k  == FALSE
           s1 == [server EXCEPT !.leader = l]
           s2 == [s1 EXCEPT !.up = alive]
           s3 == [s2 EXCEPT !.session = "none"]
           s4 == [s3 EXCEPT !.known = k]
           s5 == [s4 EXCEPT !.unread = server.nextUnread]
<1>0. NextLeader(alive) = s5
  BY DEF NextLeader
<1>2. l \in Leaders
  OBVIOUS
<1>a. k \in BOOLEAN
  OBVIOUS
<1> HIDE DEF l, k
<1>3. s1 = [leader |-> l, up |-> server.up, known |-> server.known,
            session |-> server.session, unread |-> server.unread,
            nextUnread |-> server.nextUnread]
  BY ServerIs
<1> HIDE DEF s1
<1>4. s2 = [leader |-> l, up |-> alive, known |-> server.known,
            session |-> server.session, unread |-> server.unread,
            nextUnread |-> server.nextUnread]
  BY <1>3
<1> HIDE DEF s2
<1>5. s3 = [leader |-> l, up |-> alive, known |-> server.known,
            session |-> "none", unread |-> server.unread, nextUnread |-> server.nextUnread]
  BY <1>4
<1> HIDE DEF s3
<1>6. s4 = [leader |-> l, up |-> alive, known |-> k,
            session |-> "none", unread |-> server.unread, nextUnread |-> server.nextUnread]
  BY <1>5
<1> HIDE DEF s4
<1>7. s5 = [leader |-> l, up |-> alive, known |-> k, session |-> "none",
            unread |-> server.nextUnread, nextUnread |-> server.nextUnread]
  BY <1>6
<1> HIDE DEF s5
<1>8. s5 \in Servers
  BY <1>2, <1>a, <1>7, ServerIs, ServerOf DEF Sessions
<1> QED BY <1>0, <1>7, <1>8 DEF l, k

LEMMA Waits ==
    ASSUME server.leader + 1 \in Leaders, NEW alive,
           calls' = IF server.known /\ Running
                    THEN [calls EXCEPT !.backlog =
                            Append(@, IF alive THEN server.leader + 1 ELSE 0)]
                    ELSE calls
    PROVE  IF server.known /\ Running
           THEN \E c \in 0..MaxLeaders : calls' = [calls EXCEPT !.backlog = Append(@, c)]
           ELSE calls' = calls
<1> DEFINE c == IF alive THEN server.leader + 1 ELSE 0
<1>1. c \in 0..MaxLeaders
  BY ClientAssumption DEF Leaders
<1>2. server.known /\ Running => calls' = [calls EXCEPT !.backlog = Append(@, c)]
  OBVIOUS
<1> HIDE DEF c
<1> QED BY <1>1, <1>2

LEMMA OneCall ==
    ASSUME calls \in Calls, Core,
           server.known => calls.backlog = <<>>,
           IF server.known /\ Running
           THEN \E c \in 0..MaxLeaders : calls' = [calls EXCEPT !.backlog = Append(@, c)]
           ELSE calls' = calls
    PROVE  /\ calls' \in Calls /\ Len(calls'.backlog) <= 1
           /\ calls'.backlog # calls.backlog => server.known
<1>1. CASE server.known /\ Running
  <2>1. PICK c \in 0..MaxLeaders : calls' = [calls EXCEPT !.backlog = Append(@, c)]
    BY <1>1
  <2>2. calls' = [backlog |-> <<c>>, from |-> calls.from]
    BY <1>1, <2>1 DEF Calls
  <2>3. <<c>> \in Seq(0..MaxLeaders) /\ Len(<<c>>) = 1
    OBVIOUS
  <2> QED BY <1>1, <2>2, <2>3 DEF Calls
<1>2. CASE ~(server.known /\ Running)
  BY <1>2 DEF Core, CallsOK
<1> QED BY <1>1, <1>2

LEMMA TakeOverKept ==
    ASSUME Core, TakeOver
    PROVE  Core'
<1>0. /\ Core /\ pc \in Places /\ flags \in Flags /\ logged \in BOOLEAN /\ sock \in Sockets
      /\ calls \in Calls /\ ring \in Rings /\ typed \in 0..MaxCommands
      /\ server \in Servers /\ shown \in Seq(Messages)
  BY DEF Core, Typed
<1>a. TakeOver
  OBVIOUS
<1>b. PICK alive \in {TRUE, server.leader + 1 = MaxLeaders} :
          /\ server' = NextLeader(alive)
          /\ calls' = IF server.known /\ Running
                      THEN [calls EXCEPT !.backlog =
                              Append(@, IF alive THEN server.leader + 1 ELSE 0)]
                      ELSE calls
  BY <1>a DEF TakeOver
<1>c. ~server.up
  BY <1>a DEF TakeOver
<1>d. /\ server.leader \in Nat /\ server.leader + 1 \in Leaders
      /\ sock.peer \in Nat /\ sock.peer < server.leader + 1
  BY <1>0, <1>c, ServerIs, SocketIs, ClientAssumption DEF Core, PeersOK, Leaders
<1>1. /\ alive \in BOOLEAN
      /\ alive = FALSE => server.leader + 1 # MaxLeaders
  BY <1>b
<1>2. /\ server' \in Servers
      /\ server'.leader = server.leader + 1
      /\ server'.up = alive
      /\ server'.session = "none"
      /\ server'.known = FALSE
  BY <1>0, <1>1, <1>b, <1>d, SuccessorIs
<1>3. server'.up = FALSE => server'.leader < MaxLeaders
  BY <1>1, <1>2, <1>d, ClientAssumption DEF Leaders
<1>4. /\ sock'.peer # server'.leader
      /\ sock'.peer <= server'.leader
      /\ ServerGone'
  BY <1>a, <1>2, <1>d DEF TakeOver, ServerGone
<1>5. server.known => sock.peer = server.leader /\ calls.backlog = <<>>
  BY <1>0 DEF Core, PeersOK, CallsOK, Servers
<1>6. IF server.known /\ Running
         THEN \E c \in 0..MaxLeaders : calls' = [calls EXCEPT !.backlog = Append(@, c)]
         ELSE calls' = calls
  BY <1>b, <1>d, Waits
<1>7. /\ calls' \in Calls
      /\ Len(calls'.backlog) <= 1
      /\ calls'.backlog # calls.backlog => server.known
  BY <1>0, <1>5, <1>6, OneCall
<1>8. /\ pc' = pc
      /\ flags' = flags
      /\ logged' = logged
      /\ sock' = sock
      /\ ring' = ring
      /\ typed' = typed
      /\ shown' = shown
  BY <1>a DEF TakeOver
<1>9. Says' <=> Says
  BY <1>1, <1>2, <1>3, <1>4, <1>5, <1>6, <1>7, <1>8 DEF Says
<1>10. Typed'
  BY <1>0, <1>1, <1>2, <1>3, <1>4, <1>5, <1>6, <1>7, <1>8, <1>9 DEF Core, Typed
<1>11. PeersOK'
  BY <1>0, <1>1, <1>2, <1>3, <1>4, <1>5, <1>6, <1>7, <1>8, <1>9 DEF Core, PeersOK, Leaders, ServerGone, Interrupted
<1>12. CallsOK'
  BY <1>0, <1>1, <1>2, <1>3, <1>4, <1>5, <1>6, <1>7, <1>8, <1>9 DEF Core, CallsOK, HandlersOK, ServerGone, Interrupted
<1>13. HandlersOK'
  BY <1>0, <1>1, <1>2, <1>3, <1>4, <1>5, <1>6, <1>7, <1>8, <1>9 DEF Core, HandlersOK, ServerGone, Interrupted
<1>14. SessionOK'
  BY <1>0, <1>1, <1>2, <1>3, <1>4, <1>5, <1>6, <1>7, <1>8, <1>9 DEF Core, SessionOK, PeersOK, HandlersOK, CallsOK, ServerGone, Interrupted
<1> QED BY <1>10, <1>11, <1>12, <1>13, <1>14 DEF Core

LEMMA RingRead ==
    ASSUME Core, ReadPacket
    PROVE  \/ ring' = ring /\ shown' = shown /\ ring' \in Rings /\ shown' \in Seq(Messages)
           \/ \E id \in Messages :
                 /\ ~MessageExists(id) /\ ring' = Remember(id) /\ ring' \in Rings
                 /\ shown' = Append(shown, id) /\ shown' \in Seq(Messages)
<1>0. ring \in Rings /\ shown \in Seq(Messages) /\ sock \in Sockets /\ sock.in # <<>>
  BY DEF Core, Typed, ReadPacket
<1>1. 1 \in DOMAIN sock.in /\ Head(sock.in) = sock.in[1]
  BY <1>0, SocketIs
<1> DEFINE p   == Head(sock.in)
           new == ~Interrupted /\ p.type = "MESSAGE" /\ ~MessageExists(p.id)
<1>2. /\ ring' = IF new THEN Remember(p.id) ELSE ring
      /\ shown' = IF new THEN Append(shown, p.id) ELSE shown
  BY DEF ReadPacket
<1>3. CASE new
  <2>1. p.id \in Messages /\ p.id \in 0..MaxMessages
    BY <1>1, <1>3, ClientAssumption DEF Core, SessionOK, Messages
  <2>2. Remember(p.id) \in Rings
    BY <1>0, <2>1, RememberIs
  <2>3. Append(shown, p.id) \in Seq(Messages)
    BY <1>0, <2>1
  <2> QED BY <1>2, <1>3, <2>1, <2>2, <2>3
<1>4. CASE ~new
  BY <1>0, <1>2, <1>4
<1> QED BY <1>3, <1>4

LEMMA ReadPacketKept ==
    ASSUME Core, ReadPacket
    PROVE  Core'
<1>0. /\ Core /\ pc \in Places /\ flags \in Flags /\ logged \in BOOLEAN /\ sock \in Sockets
      /\ calls \in Calls /\ ring \in Rings /\ typed \in 0..MaxCommands
      /\ server \in Servers /\ shown \in Seq(Messages)
  BY DEF Core, Typed
<1>a. ReadPacket
  OBVIOUS
<1>1. CASE ~Interrupted /\ Head(sock.in).type = "CLOSE"
  <2>1. /\ pc.listen = "read"
        /\ pc' = [main |-> pc.main, input |-> pc.input, listen |-> "check"]
        /\ sock' = InRead
        /\ sock.in # <<>>
    BY <1>a, <1>1, <1>0, PlacesAre DEF ReadPacket, InRead
  <2>2. /\ sock' \in Sockets
        /\ sock'.peer = sock.peer
        /\ sock'.open = sock.open
        /\ sock'.out = sock.out
        /\ \A k \in DOMAIN sock'.in : k + 1 \in DOMAIN sock.in /\ sock'.in[k] = sock.in[k + 1]
        /\ 1 \in DOMAIN sock.in
        /\ Head(sock.in) = sock.in[1]
    BY <1>a, <1>1, <2>1, <1>0, TakenIn
  <2>3. /\ ring' = ring
        /\ shown' = shown
        /\ ServerGone \/ server.session = "closed"
    BY <1>a, <1>1, <1>0, <2>2 DEF ReadPacket, Core, SessionOK
  <2>4. flags' = [continue |-> flags.continue, over |-> TRUE, closed |-> TRUE, lost |-> flags.lost]
    BY <1>a, <1>1, <1>0, FlagsAre DEF ReadPacket
  <2>5. /\ flags' \in Flags
        /\ flags'.continue = flags.continue
        /\ flags'.over = TRUE
        /\ flags'.closed = TRUE
        /\ flags'.lost = flags.lost
    BY <2>4, <1>0, FlagsAre DEF Flags
  <2>6. /\ logged' = logged
        /\ calls' = calls
        /\ typed' = typed
        /\ server' = server
    BY <1>a, <1>1 DEF ReadPacket
  <2>7. Says' <=> Says
    BY <2>1, <2>2, <2>3, <2>4, <2>5, <2>6 DEF Says
  <2>8. Typed'
    BY <1>0, <2>1, <2>2, <2>3, <2>4, <2>5, <2>6, <2>7 DEF Core, Typed, Places
  <2>9. PeersOK'
    BY <1>1, <1>0, <2>1, <2>2, <2>3, <2>4, <2>5, <2>6, <2>7 DEF Core, PeersOK, Leaders, ServerGone, Interrupted
  <2>10. CallsOK'
    BY <1>1, <1>0, <2>1, <2>2, <2>3, <2>4, <2>5, <2>6, <2>7 DEF Core, CallsOK, HandlersOK, ServerGone, Interrupted
  <2>11. HandlersOK'
    BY <1>1, <1>0, <2>1, <2>2, <2>3, <2>4, <2>5, <2>6, <2>7 DEF Core, HandlersOK, ServerGone, Interrupted
  <2>12. SessionOK'
    BY <1>1, <1>0, <2>1, <2>2, <2>3, <2>4, <2>5, <2>6, <2>7 DEF Core, SessionOK, PeersOK, HandlersOK, CallsOK, ServerGone, Interrupted
  <2> QED BY <2>8, <2>9, <2>10, <2>11, <2>12 DEF Core
<1>2. CASE ~(~Interrupted /\ Head(sock.in).type = "CLOSE")
  <2>1. /\ pc.listen = "read"
        /\ pc' = [main |-> pc.main, input |-> pc.input, listen |-> "check"]
        /\ sock' = InRead
        /\ sock.in # <<>>
    BY <1>a, <1>2, <1>0, PlacesAre DEF ReadPacket, InRead
  <2>2. /\ sock' \in Sockets
        /\ sock'.peer = sock.peer
        /\ sock'.open = sock.open
        /\ sock'.out = sock.out
        /\ \A k \in DOMAIN sock'.in : k + 1 \in DOMAIN sock.in /\ sock'.in[k] = sock.in[k + 1]
        /\ 1 \in DOMAIN sock.in
        /\ Head(sock.in) = sock.in[1]
    BY <1>a, <1>2, <2>1, <1>0, TakenIn
  <2>3. /\ ring' \in Rings
        /\ shown' \in Seq(Messages)
    BY <1>a, <1>2, <2>1, <2>2, <1>0, RingRead
  <2>4. flags' = [continue |-> flags.continue, over |-> flags.over, closed |-> flags.closed, lost |-> flags.lost]
    BY <1>a, <1>2, <1>0, FlagsAre DEF ReadPacket
  <2>5. /\ flags' \in Flags
        /\ flags'.continue = flags.continue
        /\ flags'.over = flags.over
        /\ flags'.closed = flags.closed
        /\ flags'.lost = flags.lost
    BY <2>4, <1>0, FlagsAre DEF Flags
  <2>6. /\ logged' = logged
        /\ calls' = calls
        /\ typed' = typed
        /\ server' = server
    BY <1>a, <1>2 DEF ReadPacket
  <2>7. Says' <=> Says
    BY <2>1, <2>2, <2>3, <2>4, <2>5, <2>6 DEF Says
  <2>8. Typed'
    BY <1>0, <2>1, <2>2, <2>3, <2>4, <2>5, <2>6, <2>7 DEF Core, Typed, Places
  <2>9. PeersOK'
    BY <1>2, <1>0, <2>1, <2>2, <2>3, <2>4, <2>5, <2>6, <2>7 DEF Core, PeersOK, Leaders, ServerGone, Interrupted
  <2>10. CallsOK'
    BY <1>2, <1>0, <2>1, <2>2, <2>3, <2>4, <2>5, <2>6, <2>7 DEF Core, CallsOK, HandlersOK, ServerGone, Interrupted
  <2>11. HandlersOK'
    BY <1>2, <1>0, <2>1, <2>2, <2>3, <2>4, <2>5, <2>6, <2>7 DEF Core, HandlersOK, ServerGone, Interrupted
  <2>12. SessionOK'
    BY <1>2, <1>0, <2>1, <2>2, <2>3, <2>4, <2>5, <2>6, <2>7 DEF Core, SessionOK, PeersOK, HandlersOK, CallsOK, ServerGone, Interrupted
  <2> QED BY <2>8, <2>9, <2>10, <2>11, <2>12 DEF Core
<1> QED BY <1>a, <1>1, <1>2 DEF ReadPacket



LEMMA RingKept ==
    ASSUME Core, RingOK, ReadPacket
    PROVE  RingOK'
<1>0. ring \in Rings /\ shown \in Seq(Messages) /\ ring.at \in Slots
  BY DEF Core, Typed, Rings
<1>1. CASE ring' = ring /\ shown' = shown
  BY <1>1 DEF RingOK, Back
<1>2. ASSUME NEW id \in Messages, ~MessageExists(id), ring' = Remember(id),
             shown' = Append(shown, id)
      PROVE  RingOK'
  <2> DEFINE next == IF ring.at + 1 = RingSize THEN 0 ELSE ring.at + 1
             n    == Len(shown)
  <2>1. /\ next \in Slots /\ ring'.at = next /\ ring'.ids[next] = id
        /\ \A k \in Slots : k # next => ring'.ids[k] = ring.ids[k]
    BY <1>0, <1>2, RememberIs, ClientAssumption DEF Messages
  <2>2. /\ n \in Nat /\ Len(shown') = n + 1 /\ shown'[n + 1] = id
        /\ DOMAIN shown = 1..n /\ DOMAIN shown' = 1..(n + 1)
        /\ \A k \in 1..n : shown'[k] = shown[k]
    BY <1>0, <1>2
  <2> HIDE DEF n
  <2>3. \A d \in Slots : Back(d) \in Slots
    BY <1>0, ClientAssumption DEF Back, Slots
  <2>4. Back(0)' = next
    BY <2>1, ClientAssumption DEF Back, Slots
  <2>5. ASSUME NEW d \in Slots, d # 0
        PROVE  d - 1 \in Slots /\ Back(d)' = Back(d - 1) /\ Back(d - 1) # next
    BY <1>0, <2>1, <2>5, ClientAssumption DEF Back, Slots
  <2> HIDE DEF next
  <2>6. ASSUME NEW d \in Slots, d < n + 1
        PROVE  ring'.ids[Back(d)'] = shown'[n + 1 - d]
    <3>1. CASE d = 0
      BY <2>1, <2>2, <2>4, <3>1
    <3>2. CASE d # 0
      <4>1. d - 1 \in Slots /\ Back(d)' = Back(d - 1) /\ Back(d - 1) # next
        BY <2>5, <3>2
      <4>2. ring'.ids[Back(d - 1)] = ring.ids[Back(d - 1)]
        BY <2>1, <2>3, <4>1
      <4>3. d \in Int /\ d - 1 >= 0 /\ d - 1 < n
        BY <2>2, <2>6, <4>1 DEF Slots
      <4>4. ring.ids[Back(d - 1)] = shown[n - (d - 1)]
        BY <4>1, <4>3 DEF RingOK, n
      <4>5. n - (d - 1) \in 1..n /\ n - (d - 1) = n + 1 - d
        BY <2>2, <4>3
      <4> QED BY <2>2, <4>1, <4>2, <4>4, <4>5
    <3> QED BY <3>1, <3>2
  <2>7. \A k \in Slots : ring.ids[k] # id
    BY <1>0, <1>2 DEF MessageExists, Rings
  <2>8. ASSUME NEW j \in 1..(n + 1), NEW k \in 1..(n + 1), j < k, k - j <= RingSize
        PROVE  shown'[j] # shown'[k]
    <3>1. CASE k = n + 1
      <4>1. j \in 1..n /\ n - j \in Slots /\ n - j < n /\ n - (n - j) = j
        BY <2>2, <2>8, <3>1, ClientAssumption DEF Slots
      <4>2. ring.ids[Back(n - j)] = shown[j]
        BY <4>1 DEF RingOK, n
      <4>3. shown[j] # id
        BY <2>3, <2>7, <4>1, <4>2
      <4> QED BY <2>2, <3>1, <4>1, <4>3
    <3>2. CASE k # n + 1
      <4>1. j \in 1..n /\ k \in 1..n
        BY <2>2, <2>8, <3>2
      <4> QED BY <2>2, <2>8, <4>1 DEF RingOK
    <3> QED BY <3>1, <3>2
  <2>9. \A d \in Slots : d < Len(shown') =>
           ring'.ids[Back(d)'] = shown'[Len(shown') - d]
    <3> SUFFICES ASSUME NEW d \in Slots, d < Len(shown')
                 PROVE  ring'.ids[Back(d)'] = shown'[Len(shown') - d]
      OBVIOUS
    <3>1. Len(shown') = n + 1
      BY <2>2
    <3>2. d < n + 1
      BY <3>1
    <3>3. ring'.ids[Back(d)'] = shown'[n + 1 - d]
      BY <2>6, <3>2
    <3>4. Len(shown') - d = n + 1 - d
      BY <2>2, <3>1 DEF Slots
    <3> QED BY <3>3, <3>4
  <2>10. \A j, k \in DOMAIN shown' : j < k /\ k - j <= RingSize => shown'[j] # shown'[k]
    BY <2>2, <2>8
  <2> QED BY <2>9, <2>10 DEF RingOK
<1> QED BY <1>1, <1>2, RingRead

LEMMA RingStays ==
    ASSUME RingOK, UNCHANGED <<ring, shown>>
    PROVE  RingOK'
BY DEF RingOK, Back

-----------------------------------------------------------------------------
(* The steps together *)

LEMMA MainKept ==
    ASSUME Core, MainStep
    PROVE  Core' /\ UNCHANGED <<ring, shown>>
<1>1. UNCHANGED <<ring, shown>>
  BY DEF MainStep, LoginConnect, LoginSend, LoginAnswered, LoginInterrupted, LoginTimeout,
         Join, ReconnectAccept, ReconnectAlone, ReconnectInfo, ReconnectDial,
         ReconnectSend, ReconnectAnswered, ReconnectGivesUp, Answered
<1>2. Core'
  BY LoginConnectKept, LoginSendKept, AnsweredKept, LoginInterruptedKept, LoginTimeoutKept,
     JoinKept, ReconnectAcceptKept, ReconnectAloneKept, ReconnectInfoKept,
     ReconnectDialKept, ReconnectSendKept, ReconnectGivesUpKept
     DEF MainStep, LoginAnswered, ReconnectAnswered
<1> QED BY <1>1, <1>2

LEMMA UserKept ==
    ASSUME Core, UserStep
    PROVE  Core' /\ UNCHANGED <<ring, shown>>
<1>1. UNCHANGED <<ring, shown>>
  BY DEF UserStep, UserTypes, UserCloses, UserStops, UserLoop, UserLeaves
<1>2. Core'
  BY UserTypesKept, UserClosesKept, UserStopsKept, UserLoopKept, UserLeavesKept DEF UserStep
<1> QED BY <1>1, <1>2

LEMMA LeaderKept ==
    ASSUME Core, LeaderStep \/ Replicate \/ Crash \/ TakeOver
    PROVE  Core' /\ UNCHANGED <<ring, shown>>
<1>1. UNCHANGED <<ring, shown>>
  BY DEF LeaderStep, TakeRequest, TakeIn, Welcome, DeliverMessage, TakeCommand, Replicate,
         Crash, TakeOver, ServerUnchanged
<1>2. Core'
  BY TakeRequestKept, TakeInKept, WelcomeKept, DeliverMessageKept, TakeCommandKept,
     ReplicateKept, CrashKept, TakeOverKept DEF LeaderStep
<1> QED BY <1>1, <1>2

LEMMA ListenKept ==
    ASSUME IInv, ListenStep \/ Interrupt
    PROVE  IInv'
<1>1. CASE ServerLoop \/ ReadNothing \/ ServerLost \/ Interrupt
  <2>1. UNCHANGED <<ring, shown>>
    BY <1>1 DEF ServerLoop, ReadNothing, ServerLost, Interrupt
  <2> QED BY <1>1, <2>1, ServerLoopKept, ReadNothingKept, ServerLostKept, InterruptKept,
             RingStays DEF IInv
<1>2. CASE ReadPacket
  BY <1>2, ReadPacketKept, RingKept DEF IInv
<1> QED BY <1>1, <1>2 DEF ListenStep

LEMMA Stutter ==
    ASSUME IInv, UNCHANGED vars
    PROVE  IInv'
BY DEF vars, IInv, Core, Typed, PeersOK, CallsOK, HandlersOK, SessionOK, RingOK, Back, Says,
       ServerGone, Interrupted

LEMMA Start ==
    ASSUME Init
    PROVE  IInv
<1>1. Typed
  <2>1. 1 \in Leaders /\ 0 \in 0..MaxMessages /\ 0 \in 0..MaxLeaders /\ 0 \in Slots
        /\ 0 \in 0..MaxCommands /\ (1 <= MaxLeaders)
    BY ClientAssumption DEF Leaders, Slots
  <2>2. /\ [k \in Slots |-> 0] \in [Slots -> 0..MaxMessages]
        /\ ring = [at |-> 0, ids |-> [k \in Slots |-> 0]]
    BY <2>1 DEF Init, Slots
  <2>3. ring \in Rings
    BY <2>1, <2>2 DEF Rings
  <2>4. pc \in Places /\ flags \in Flags /\ logged \in BOOLEAN /\ typed \in 0..MaxCommands
    BY <2>1 DEF Init, Places, Flags
  <2>6. <<>> \in Seq(Packets) /\ <<>> \in Seq(Answers) /\ <<>> \in Seq(0..MaxLeaders)
        /\ <<>> \in Seq(Messages)
    OBVIOUS
  <2>7. sock \in Sockets
    BY <2>1, <2>6 DEF Init, Sockets
  <2>8. calls \in Calls /\ shown \in Seq(Messages)
    BY <2>1, <2>6 DEF Init, Calls
  <2>5. server \in Servers
    BY <2>1 DEF Init, Servers, Sessions
  <2> QED BY <2>3, <2>4, <2>5, <2>7, <2>8 DEF Typed
<1>2. PeersOK /\ CallsOK /\ HandlersOK /\ SessionOK
  BY ClientAssumption DEF Init, PeersOK, CallsOK, HandlersOK, SessionOK, ServerGone
<1>3. RingOK
  BY DEF Init, RingOK, Slots
<1> QED BY <1>1, <1>2, <1>3 DEF IInv, Core

LEMMA StepKept ==
    ASSUME IInv, [Next]_vars
    PROVE  IInv'
<1>1. CASE MainStep \/ UserStep \/ LeaderStep \/ Replicate \/ Crash \/ TakeOver
  <2>1. Core' /\ UNCHANGED <<ring, shown>>
    BY <1>1, MainKept, UserKept, LeaderKept DEF IInv
  <2> QED BY <2>1, RingStays DEF IInv
<1>2. CASE ListenStep \/ Interrupt
  BY <1>2, ListenKept
<1>3. CASE UNCHANGED vars
  BY <1>3, Stutter
<1> QED BY <1>1, <1>2, <1>3 DEF Next

-----------------------------------------------------------------------------
(* The theorems *)

\* main, the two handlers, the leader's thread and the leaders that follow it keep
\* the parts of the invariant together: what the socket, the listening port, the four
\* flags and the ring of messageExists say of one another never comes apart.
THEOREM ClientInvariant == Spec => []IInv
<1>1. Init => IInv
  BY Start
<1>2. IInv /\ [Next]_vars => IInv'
  BY StepKept
<1> QED BY <1>1, <1>2, PTL DEF Spec

\* Every variable keeps its type; nextIdx of messageExists, above all, stays within
\* the vector of timestamps.
THEOREM ClientTyped == Spec => []TypeOK
<1>1. IInv => TypeOK
  BY Types DEF IInv, Core
<1> QED BY <1>1, ClientInvariant, PTL

\* handleUserInput has sent a CLOSE before main ends, however the two handlers, main
\* and a signal interleave, unless the server was lost: no thread of the leader goes
\* on serving a client that has ended.
THEOREM ClientSaysClose == Spec => []SaysClose
<1>1. IInv => SaysClose
  BY DEF IInv, Core, Typed, Places, HandlersOK, SessionOK, SaysClose, Says, Running
<1> QED BY <1>1, ClientInvariant, PTL

\* messageExists keeps a message from being shown again until as many others as its
\* vector has slots have been shown since, whatever the leaders send again.
RepeatsAreFar ==
    \A j, k \in DOMAIN shown : j < k /\ shown[j] = shown[k] => k - j > RingSize

THEOREM RingRemembers == Spec => []RepeatsAreFar
<1>1. IInv => RepeatsAreFar
  <2> SUFFICES ASSUME IInv, NEW j \in DOMAIN shown, NEW k \in DOMAIN shown,
                      j < k, shown[j] = shown[k]
               PROVE  k - j > RingSize
    BY DEF RepeatsAreFar
  <2>1. shown \in Seq(Messages)
    BY DEF IInv, Core, Typed
  <2>2. j \in Nat /\ k \in Nat
    BY <2>1
  <2>3. ~(k - j <= RingSize)
    BY DEF IInv, RingOK
  <2> QED BY <2>2, <2>3, ClientAssumption
<1> QED BY <1>1, ClientInvariant, PTL

\* RingSize + 1 messages that follow each other are different, and there are not as
\* many messages: no more than RingSize are shown, and none twice.
LEMMA FewMessages ==
    ASSUME IInv, MaxMessages <= RingSize
    PROVE  ShownOnce
<1> DEFINE n == Len(shown)
           S == 1..(RingSize + 1)
           T == 1..MaxMessages
<1>0. /\ n \in Nat /\ DOMAIN shown = 1..n /\ \A k \in 1..n : shown[k] \in T
  <2>1. shown \in Seq(Messages)
    BY DEF IInv, Core, Typed
  <2>2. n \in Nat /\ DOMAIN shown = 1..n /\ \A k \in 1..n : shown[k] \in Messages
    <3> HIDE DEF S, T
    <3> QED BY <2>1
  <2>3. Messages = T
    BY DEF Messages
  <2> QED BY <2>2, <2>3, Zenon
<1>1. n <= RingSize
  <2> SUFFICES ASSUME n > RingSize PROVE FALSE
    BY <1>0, ClientAssumption
  <2> DEFINE f == [k \in S |-> shown[k]]
  <2>1. \A k \in S : k \in 1..n /\ k \in Int
    BY <1>0, ClientAssumption
  <2>2. f \in [S -> T]
    BY <1>0, <2>1
  <2>3. /\ IsFiniteSet(S) /\ IsFiniteSet(T)
        /\ Cardinality(S) = RingSize + 1 /\ Cardinality(T) = MaxMessages
    <3>1. 1 \in Int /\ RingSize + 1 \in Int /\ MaxMessages \in Int
          /\ ~(1 > RingSize + 1) /\ (1 > MaxMessages => MaxMessages = 0)
      BY ClientAssumption
    <3>0. \A b \in Int : IsFiniteSet(1..b) /\ Cardinality(1..b) = IF 1 > b THEN 0 ELSE b - 1 + 1
      BY FS_Interval
    <3>2. \A b \in Nat : IsFiniteSet(1..b) /\ Cardinality(1..b) = b
      BY <3>0
    <3>3. RingSize + 1 \in Nat /\ MaxMessages \in Nat
      BY ClientAssumption
    <3> QED BY <3>2, <3>3
  <2>4. Cardinality(T) < Cardinality(S)
    BY <2>3, ClientAssumption
  <2>5. PICK x, y \in S : x # y /\ f[x] = f[y]
    <3> HIDE DEF f, S, T
    <3> QED BY <2>2, <2>3, <2>4, FS_PigeonHole
  <2>6. shown[x] = shown[y] /\ x \in DOMAIN shown /\ y \in DOMAIN shown
    BY <1>0, <2>1, <2>5
  <2>7. x - y <= RingSize /\ y - x <= RingSize /\ (x < y \/ y < x)
    BY <2>5, ClientAssumption
  <2> QED BY <2>6, <2>7 DEF IInv, RingOK
<1>2. ASSUME NEW j \in DOMAIN shown, NEW k \in DOMAIN shown, shown[j] = shown[k], j # k
      PROVE  FALSE
  <2>1. j - k <= RingSize /\ k - j <= RingSize /\ (j < k \/ k < j)
    BY <1>0, <1>1, <1>2, ClientAssumption
  <2> QED BY <1>2, <2>1 DEF IInv, RingOK
<1> QED BY <1>2 DEF ShownOnce

\* As long as the user has no more messages than the vector of messageExists has
\* slots, none is shown twice, however many leaders send it again.
THEOREM ShownOnceInRing ==
    ASSUME MaxMessages <= RingSize
    PROVE  Spec => []ShownOnce
<1>1. IInv => ShownOnce
  BY FewMessages
<1> QED BY <1>1, ClientInvariant, PTL

-----------------------------------------------------------------------------
(* The client does not give up while a leader calls *)

LEMMA WhoEnds ==
    ASSUME Core, [Next]_vars, pc.main \in {"run", "accept", "info", "dial"},
           pc'.main = "exit"
    PROVE  Join \/ ReconnectAlone \/ ReconnectInfo \/ ReconnectDial
<1>0. pc \in Places
  BY DEF Core, Typed
<1>1. ~MainStep => pc'.main = pc.main
  <2>0. \A l, m : Input(l, m) \/ Listen(l, m) => pc'.main = pc.main
    BY <1>0 DEF Input, Listen, Places
  <2>1. UserStep \/ ListenStep => pc'.main = pc.main
    BY <2>0 DEF UserStep, UserTypes, UserCloses, UserStops, UserLoop, UserLeaves,
       ListenStep, ServerLoop, ReadNothing, ServerLost, ReadPacket
  <2>2. Interrupt \/ LeaderStep \/ Replicate \/ Crash \/ TakeOver \/ UNCHANGED vars
           => pc' = pc
    BY DEF Interrupt, LeaderStep, TakeRequest, TakeIn, Welcome, DeliverMessage, TakeCommand,
       Replicate, Crash, TakeOver, ServerUnchanged, vars
  <2> QED BY <2>1, <2>2 DEF Next
<1>2. MainStep
  BY <1>1
<1>3. /\ ~LoginConnect /\ ~LoginSend /\ ~LoginAnswered /\ ~LoginInterrupted /\ ~LoginTimeout
      /\ ~ReconnectSend /\ ~ReconnectAnswered /\ ~ReconnectGivesUp
  BY DEF LoginConnect, LoginSend, LoginAnswered, LoginInterrupted, LoginTimeout,
     ReconnectSend, ReconnectAnswered, ReconnectGivesUp, Answered, Main
<1>4. ~ReconnectAccept
  BY <1>0, PlacesAre DEF ReconnectAccept
<1> QED BY <1>2, <1>3, <1>4 DEF MainStep

\* reconnect takes the call of the one leader that waits before it looks at
\* anything else, and both handlers have ended with "lost" before main looks for
\* it: a client whose user wants to go on does not leave a leader behind that
\* lives and has called.
THEOREM ClientNotAbandoned == Spec => NotAbandoned
<1> DEFINE A == /\ pc.main \in {"run", "accept", "info", "dial"} /\ pc'.main = "exit"
                /\ ~Interrupted /\ ~flags.closed /\ server.up
                => \A k \in DOMAIN calls.backlog : calls.backlog[k] # server.leader
<1>1. IInv /\ [Next]_vars => A
  <2> SUFFICES ASSUME IInv, [Next]_vars, pc.main \in {"run", "accept", "info", "dial"},
                      pc'.main = "exit", ~Interrupted, ~flags.closed
               PROVE  calls.backlog = <<>>
    OBVIOUS
  <2>0. Core /\ pc \in Places /\ flags \in Flags
    BY DEF IInv, Core, Typed
  <2>1. ~Join
    <3>1. ~Join \/ (/\ pc.main = "run" /\ pc.input = "done" /\ pc.listen = "done"
                    /\ ~(flags.over /\ flags.lost))
      BY <2>0, PlacesAre DEF Join
    <3> QED BY <2>0, <3>1 DEF Core, HandlersOK, Flags
  <2>2. ReconnectAlone \/ ReconnectInfo \/ ReconnectDial
    BY <2>0, <2>1, WhoEnds
  <2>3. CASE ReconnectAlone
    BY <2>3 DEF ReconnectAlone
  <2>4. CASE ReconnectInfo \/ ReconnectDial
    BY <2>0, <2>4 DEF ReconnectInfo, ReconnectDial, Main, Core, CallsOK
  <2> QED BY <2>2, <2>3, <2>4
<1>2. IInv /\ [Next]_vars => [A]_vars
  BY <1>1
<1> QED BY <1>2, ClientInvariant, PTL DEF Spec, NotAbandoned

=============================================================================
