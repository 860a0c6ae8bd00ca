------------------------------- MODULE Client -------------------------------
(***************************************************************************)
(* The client program and the servers it meets.  main logs in, starts the  *)
(* threads handleUserInput and handleServerInput, waits for both and, if   *)
(* the server was lost, waits for the next leader to call on its listening *)
(* port, once after every loss.                                            *)
(*                                                                         *)
(* Servers lead one after the other, 1 first.  Of a leader there is what   *)
(* the client can tell: the thread that serves its socket (session), the   *)
(* messages for its user that are not marked as delivered (unread), and    *)
(* what the next leader has heard of both (known, nextUnread).             *)
(*                                                                         *)
(* Heartbeats are left out: while a leader lives the client hears from it, *)
(* and once nothing is left to read of a dead one it does not.             *)
(***************************************************************************)
EXTENDS Integers, Sequences, FiniteSets

CONSTANTS
    MaxLeaders,     \* bound: servers; the last one does not crash
    MaxMessages,    \* bound: messages 1..MaxMessages for the user
    MaxCommands,    \* bound: commands the user types before "close"
    RingSize,       \* vsize in messageExists
    OthersOnline    \* whether the user has another session, which may deliver

Leaders  == 1..MaxLeaders
Messages == 1..MaxMessages

ASSUME ClientAssumption ==
    /\ MaxLeaders \in Nat \ {0}
    /\ MaxMessages \in Nat /\ MaxCommands \in Nat
    /\ RingSize \in Nat \ {0}
    /\ OthersOnline \in BOOLEAN

VARIABLES
    pc,             \* where main, handleUserInput and handleServerInput are
    flags,          \* _continue, is_over, closed, server_lost
    logged,         \* logged
    sock,           \* _clientSFD: whose, whether open, packets to it and from it
    calls,          \* leaders that wait on the listening port, 0 for a dead one;
                    \* and the one reconnect has accepted
    ring,           \* timestamps and nextIdx of messageExists
    typed,          \* bound: commands typed
    server,         \* the leader
    shown           \* history: messages shown

vars == <<pc, flags, logged, sock, calls, ring, typed, server, shown>>

Running     == pc.main # "exit"
Interrupted == ~flags.continue

\* Nobody is at the other end.
ServerGone == ~server.up \/ sock.peer # server.leader

Init ==
    /\ pc = [main |-> "connect", input |-> "done", listen |-> "done"]
    /\ flags = [continue |-> TRUE, over |-> FALSE, closed |-> FALSE, lost |-> FALSE]
    /\ logged = FALSE
    /\ sock = [peer |-> 1, open |-> FALSE, out |-> <<>>, in |-> <<>>]
    /\ calls = [backlog |-> <<>>, from |-> 0]
    /\ ring = [at |-> 0, ids |-> [k \in 0..(RingSize - 1) |-> 0]]
    /\ typed = 0
    /\ server = [leader |-> 1, up |-> TRUE, session |-> "none", known |-> FALSE,
                 unread |-> Messages, nextUnread |-> Messages]
    /\ shown = <<>>

Main(l, m)   == pc.main = l /\ pc' = [pc EXCEPT !.main = m]
Input(l, m)  == pc.input = l /\ pc' = [pc EXCEPT !.input = m]
Listen(l, m) == pc.listen = l /\ pc' = [pc EXCEPT !.listen = m]

-----------------------------------------------------------------------------
(* ClientConnectionManager and CommandExecutor *)

\* A packet is lost on a closed socket, and in the kernel or with an error when
\* the server is gone.
Sent(type) ==
    IF sock.open /\ ~ServerGone THEN [sock EXCEPT !.out = Append(@, type)] ELSE sock

\* A connection to a server that runs; otherwise the program ends.
Connected(s) == [peer |-> s, open |-> TRUE, out |-> <<>>, in |-> <<>>]

-----------------------------------------------------------------------------
(* main: login *)

LoginConnect ==
    /\ \/ Main("connect", "login") /\ ~Interrupted /\ ~ServerGone
          /\ sock' = Connected(sock.peer)
       \/ Main("connect", "exit") /\ (Interrupted \/ ServerGone)
          /\ UNCHANGED sock
    /\ UNCHANGED <<flags, logged, calls, ring, typed, server, shown>>

\* A send that fails is tried again until the time is over.
LoginSend ==
    /\ \/ Main("login", "answer") /\ ~Interrupted /\ sock' = Sent("LOGIN")
       \/ Main("login", "exit") /\ (Interrupted \/ ServerGone) /\ UNCHANGED sock
    /\ UNCHANGED <<flags, logged, calls, ring, typed, server, shown>>

\* The packet that comes first is the answer; both handlers start.
Answered(l) ==
    /\ pc.main = l /\ ~Interrupted /\ sock.in # <<>>
    /\ logged' = (Head(sock.in).type = "SUCCESS")
    /\ pc' = IF logged'
             THEN [main |-> "run", input |-> "input", listen |-> "check"]
             ELSE [pc EXCEPT !.main = "exit"]
    /\ sock' = [sock EXCEPT !.in = Tail(@)]
    /\ UNCHANGED <<flags, calls, ring, typed, server, shown>>

LoginAnswered == Answered("answer")

LoginInterrupted ==
    /\ Main("answer", "exit") /\ Interrupted
    /\ UNCHANGED <<flags, logged, sock, calls, ring, typed, server, shown>>

\* Ten seconds without an answer: none will come.
NoAnswer == sock.in = <<>> /\ (ServerGone \/ server.session = "unanswered")

LoginTimeout ==
    /\ Main("answer", "exit") /\ NoAnswer
    /\ sock' = Sent("CLOSE")
    /\ UNCHANGED <<flags, logged, calls, ring, typed, server, shown>>

-----------------------------------------------------------------------------
(* main: between two connections *)

Join ==
    /\ pc.input = "done" /\ pc.listen = "done"
    /\ IF ~flags.closed /\ flags.over /\ flags.lost
       THEN /\ Main("run", "accept")
            /\ flags' = [flags EXCEPT !.over = FALSE, !.lost = FALSE]
       ELSE Main("run", "exit") /\ UNCHANGED flags
    /\ UNCHANGED <<logged, sock, calls, ring, typed, server, shown>>

\* accept is tried before _continue is looked at.
ReconnectAccept ==
    /\ Main("accept", "info")
    /\ calls.backlog # <<>>
    /\ calls' = [backlog |-> Tail(calls.backlog), from |-> Head(calls.backlog)]
    /\ UNCHANGED <<flags, logged, sock, ring, typed, server, shown>>

\* Nobody calls for ten seconds, or the user stops waiting.
ReconnectAlone ==
    /\ Main("accept", "exit")
    /\ calls.backlog = <<>>
    /\ logged' = FALSE
    /\ UNCHANGED <<flags, sock, calls, ring, typed, server, shown>>

\* A caller that died without a word is read as well: the packet holds what was
\* on the stack, which is no address, and openConnection ends the program.
ReconnectInfo ==
    /\ \/ Main("info", "dial") /\ ~Interrupted /\ calls.from # 0 /\ UNCHANGED logged
       \/ Main("info", "exit") /\ ~Interrupted /\ calls.from = 0 /\ UNCHANGED logged
       \/ Main("info", "exit") /\ Interrupted /\ logged' = FALSE
    /\ UNCHANGED <<flags, sock, calls, ring, typed, server, shown>>

ReconnectDial ==
    LET answers == server.up /\ calls.from = server.leader
    IN  /\ \/ Main("dial", "relogin") /\ answers /\ sock' = Connected(calls.from)
           \/ Main("dial", "exit") /\ ~answers /\ UNCHANGED sock
        /\ UNCHANGED <<flags, logged, calls, ring, typed, server, shown>>

ReconnectSend ==
    /\ \/ Main("relogin", "reanswer") /\ ~Interrupted
          /\ sock' = Sent("RECONNECT") /\ UNCHANGED logged
       \/ Main("relogin", "exit") /\ (Interrupted \/ ServerGone)
          /\ sock' = Sent("CLOSE") /\ logged' = FALSE
    /\ UNCHANGED <<flags, calls, ring, typed, server, shown>>

ReconnectAnswered == Answered("reanswer")

ReconnectGivesUp ==
    /\ Main("reanswer", "exit") /\ (Interrupted \/ NoAnswer)
    /\ logged' = FALSE
    /\ sock' = Sent("CLOSE")
    /\ UNCHANGED <<flags, calls, ring, typed, server, shown>>

MainStep ==
    \/ LoginConnect \/ LoginSend \/ LoginAnswered \/ LoginInterrupted \/ LoginTimeout
    \/ Join \/ ReconnectAccept \/ ReconnectAlone \/ ReconnectInfo \/ ReconnectDial
    \/ ReconnectSend \/ ReconnectAnswered \/ ReconnectGivesUp

-----------------------------------------------------------------------------
(* handleUserInput *)

UserTypes ==
    /\ Input("input", "loop")
    /\ \/ UNCHANGED <<typed, sock>>
       \/ typed < MaxCommands /\ typed' = typed + 1 /\ sock' = Sent("COMMAND")
    /\ UNCHANGED <<flags, logged, calls, ring, server, shown>>

\* _sendClose: the packet goes out, then _continue is lowered; when std::cin has
\* failed, two more flags are set.
UserCloses ==
    /\ Input("input", "closing")
    /\ sock' = Sent("CLOSE")
    /\ UNCHANGED <<flags, logged, calls, ring, typed, server, shown>>

UserStops ==
    /\ Input("closing", "loop")
    /\ \E failed \in BOOLEAN :
          flags' = [flags EXCEPT !.continue = FALSE, !.over = @ \/ failed,
                                 !.closed = @ \/ failed]
    /\ UNCHANGED <<logged, sock, calls, ring, typed, server, shown>>

UserLoop ==
    /\ Input("loop", IF flags.over \/ Interrupted THEN "left" ELSE "input")
    /\ UNCHANGED <<flags, logged, sock, calls, ring, typed, server, shown>>

UserLeavesSilently ==                     \* mutant: no CLOSE after the loop
    /\ Input("left", "done")
    /\ flags' = [flags EXCEPT !.closed = @ \/ Interrupted]
    /\ UNCHANGED <<logged, sock, calls, ring, typed, server, shown>>

\* After a "close" that was typed this is the second CLOSE.
UserLeaves ==
    /\ Input("left", "done")
    /\ flags' = [flags EXCEPT !.closed = @ \/ Interrupted]
    /\ sock' = IF Interrupted THEN Sent("CLOSE") ELSE sock
    /\ UNCHANGED <<logged, calls, ring, typed, server, shown>>

UserStep == UserTypes \/ UserCloses \/ UserStops \/ UserLoop \/ UserLeaves

-----------------------------------------------------------------------------
(* handleServerInput *)

ServerLoopForever ==                      \* mutant: _continue is not looked at
    /\ Listen("check", IF flags.over THEN "done" ELSE "read")
    /\ UNCHANGED <<flags, logged, sock, calls, ring, typed, server, shown>>

ServerLoop ==
    /\ Listen("check", IF flags.over \/ Interrupted THEN "done" ELSE "read")
    /\ UNCHANGED <<flags, logged, sock, calls, ring, typed, server, shown>>

ReadNothing ==
    /\ Listen("read", "check")
    /\ sock.in = <<>>
    /\ UNCHANGED <<flags, logged, sock, calls, ring, typed, server, shown>>

ServerLostKeepsInput ==                   \* mutant: is_over is not raised
    /\ Listen("read", "done")
    /\ sock.in = <<>> /\ ServerGone
    /\ flags' = [flags EXCEPT !.lost = TRUE]
    /\ sock' = [sock EXCEPT !.open = FALSE]
    /\ UNCHANGED <<logged, calls, ring, typed, server, shown>>

ServerLost ==
    /\ Listen("read", "done")
    /\ sock.in = <<>> /\ ServerGone
    /\ flags' = [flags EXCEPT !.over = TRUE, !.lost = TRUE]
    /\ sock' = [sock EXCEPT !.open = FALSE]
    /\ UNCHANGED <<logged, calls, ring, typed, server, shown>>

MessageExists(id) == \E k \in DOMAIN ring.ids : ring.ids[k] = id

RememberInPlace(id) == [ring EXCEPT !.ids[0] = id]    \* mutant: nextIdx stays

RememberUnwrapped(id) ==                              \* mutant: no % vsize
    [at |-> ring.at + 1, ids |-> [ring.ids EXCEPT ![ring.at + 1] = id]]

Remember(id) ==
    LET next == (ring.at + 1) % RingSize
    IN  [at |-> next, ids |-> [ring.ids EXCEPT ![next] = id]]

\* What arrives after _continue has been lowered is thrown away.
ReadPacket ==
    /\ Listen("read", "check")
    /\ sock.in # <<>>
    /\ sock' = [sock EXCEPT !.in = Tail(@)]
    /\ LET p     == Head(sock.in)
           new   == ~Interrupted /\ p.type = "MESSAGE" /\ ~MessageExists(p.id)
           close == ~Interrupted /\ p.type = "CLOSE"
       IN  /\ ring'  = IF new THEN Remember(p.id) ELSE ring
           /\ shown' = IF new THEN Append(shown, p.id) ELSE shown
           /\ flags' = [flags EXCEPT !.over = @ \/ close, !.closed = @ \/ close]
    /\ UNCHANGED <<logged, calls, typed, server>>

ListenStep == ServerLoop \/ ReadNothing \/ ServerLost \/ ReadPacket

\* SIGINT.
Interrupt ==
    /\ Running /\ ~Interrupted
    /\ flags' = [flags EXCEPT !.continue = FALSE]
    /\ UNCHANGED <<pc, logged, sock, calls, ring, typed, server, shown>>

-----------------------------------------------------------------------------
(* The leader: Server::newClient and _handleUser, seen from the socket *)

Serves(s) == ~ServerGone /\ server.session = s

Session(s) == server' = [server EXCEPT !.session = s]

\* id is the timestamp of a MESSAGE.
Replied(type, id) ==
    IF sock.open /\ Running
    THEN [sock EXCEPT !.in = Append(@, [type |-> type, id |-> id])] ELSE sock

ServerUnchanged == UNCHANGED <<pc, flags, logged, calls, ring, typed, shown>>

\* Only a LOGIN or a RECONNECT is taken first.
TakeRequest ==
    /\ Serves("none") /\ sock.out # <<>>
    /\ Session(IF Head(sock.out) \in {"LOGIN", "RECONNECT"}
               THEN "committing" ELSE "unanswered")
    /\ sock' = [sock EXCEPT !.out = Tail(@)]
    /\ ServerUnchanged

\* The command is committed or cancelled; the session is made or is one too many.
TakeIn ==
    /\ Serves("committing")
    /\ \/ Session("created") /\ UNCHANGED sock
       \/ Session("unanswered") /\ UNCHANGED sock
       \/ Session("refused") /\ sock' = Replied("ERROR", 0)
    /\ ServerUnchanged

Welcome ==
    /\ Serves("created")
    /\ Session("open")
    /\ sock' = Replied("SUCCESS", 0)
    /\ ServerUnchanged

\* To all sockets of the user, by whichever thread finds the message first.
DeliverMessage ==
    /\ Serves("open") \/ (OthersOnline /\ Serves("created"))
    /\ \E m \in server.unread :
          /\ \A k \in server.unread : m <= k
          /\ server' = [server EXCEPT !.unread = @ \ {m}]
          /\ sock' = Replied("MESSAGE", m)
    /\ ServerUnchanged

TakeCommand ==
    /\ Serves("open") /\ sock.out # <<>>
    /\ LET read == [sock EXCEPT !.out = Tail(@)]
       IN  IF Head(sock.out) # "CLOSE" THEN sock' = read /\ UNCHANGED server
           ELSE Session("closed") /\ sock' = [read EXCEPT !.in = Replied("CLOSE", 0).in]
    /\ ServerUnchanged

\* A backup carries out LOGIN, CLOSE or DELIVERED.
Replicate ==
    /\ server.up
    /\ \/ server' = [server EXCEPT !.known =
                        server.session \in {"committing", "created", "open"}]
       \/ server' = [server EXCEPT !.nextUnread = server.unread]
    /\ UNCHANGED sock /\ ServerUnchanged

\* What the client has not read yet may be lost with the leader.
Crash ==
    /\ server.up /\ server.leader < MaxLeaders
    /\ server' = [server EXCEPT !.up = FALSE]
    /\ IF ServerGone THEN UNCHANGED sock
       ELSE sock' \in {[sock EXCEPT !.out = <<>>],
                       [sock EXCEPT !.out = <<>>, !.in = <<>>]}
    /\ ServerUnchanged

NextLeaderKeepsSessions(alive) ==         \* mutant: other backups get no CLOSE
    [server EXCEPT !.leader = @ + 1, !.up = alive, !.session = "none",
                   !.unread = server.nextUnread]

\* A backup leads; the other backups are told to forget the session.
NextLeader(alive) ==
    [server EXCEPT !.leader = @ + 1, !.up = alive, !.session = "none",
                   !.known = FALSE, !.unread = server.nextUnread]

\* It calls the client, and may crash before it has said who it is.
TakeOver ==
    /\ ~server.up
    /\ \E alive \in {TRUE, server.leader + 1 = MaxLeaders} :
          /\ server' = NextLeader(alive)
          /\ calls' = IF server.known /\ Running
                      THEN [calls EXCEPT !.backlog =
                              Append(@, IF alive THEN server.leader + 1 ELSE 0)]
                      ELSE calls
    /\ UNCHANGED <<pc, flags, logged, sock, ring, typed, shown>>

LeaderStep == TakeRequest \/ TakeIn \/ Welcome \/ DeliverMessage \/ TakeCommand

Next ==
    \/ MainStep \/ UserStep \/ ListenStep \/ Interrupt
    \/ LeaderStep \/ Replicate \/ Crash \/ TakeOver

Spec == Init /\ [][Next]_vars

\* All threads of the client and the leader's run, a dead leader is succeeded,
\* and handleServerInput, which looks at the clock whenever it has read nothing,
\* finds one time that ten seconds are over (SF).
FairSpec ==
    /\ Spec
    /\ WF_vars(MainStep) /\ WF_vars(UserStep) /\ WF_vars(ListenStep)
    /\ WF_vars(LeaderStep) /\ WF_vars(TakeOver)
    /\ SF_vars(ServerLost)

-----------------------------------------------------------------------------

Packets == {"LOGIN", "RECONNECT", "COMMAND", "CLOSE"}
Answers == [type : {"SUCCESS", "ERROR", "CLOSE", "MESSAGE"}, id : 0..MaxMessages]

\* Type correctness.
TypeOK ==
    /\ pc \in [main : {"connect", "login", "answer", "run", "accept", "info", "dial",
                       "relogin", "reanswer", "exit"},
               input : {"input", "closing", "loop", "left", "done"},
               listen : {"check", "read", "done"}]
    /\ flags \in [continue : BOOLEAN, over : BOOLEAN, closed : BOOLEAN, lost : BOOLEAN]
    /\ logged \in BOOLEAN
    /\ sock \in [peer : Leaders, open : BOOLEAN, out : Seq(Packets), in : Seq(Answers)]
    /\ calls \in [backlog : Seq(0..MaxLeaders), from : 0..MaxLeaders]
    /\ ring \in [at : 0..(RingSize - 1), ids : [0..(RingSize - 1) -> 0..MaxMessages]]
    /\ typed \in 0..MaxCommands
    /\ server \in [leader : Leaders, up : BOOLEAN, known : BOOLEAN,
                   session : {"none", "committing", "created", "open", "refused",
                              "unanswered", "closed"},
                   unread : SUBSET Messages, nextUnread : SUBSET Messages]
    /\ shown \in Seq(Messages)

\* A client that was let in and ends, because its user said so or pressed
\* Control-C at any moment, has told the leader, unless that is lost: no session
\* is left that would count against the user for ever.
SaysClose ==
    ~Running /\ logged /\ ~flags.lost /\ ~ServerGone /\ server.session = "open"
        => \E k \in DOMAIN sock.out : sock.out[k] = "CLOSE"

\* A message is shown at most once, although a leader that did not see it marked
\* as delivered sends it again.
ShownOnce ==
    \A j, k \in DOMAIN shown : shown[j] = shown[k] => j = k

\* A client that has been served does not end by itself while a leader that lives
\* waits for it on the listening port: of several calls, none is out of date.
NotAbandoned ==
    [][/\ pc.main \in {"run", "accept", "info", "dial"} /\ pc'.main = "exit"
       /\ ~Interrupted /\ ~flags.closed /\ server.up
       => \A k \in DOMAIN calls.backlog : calls.backlog[k] # server.leader]_vars

\* A client that is to stop ends, wherever its threads are.
EndsWhenStopped == Interrupted ~> ~Running

\* When servers no longer crash the client has ended or is served by the leader
\* that lives; it does not stay with a dead one.
ServedOrEnds == <>[](~Running \/ (pc.main = "run" /\ ~ServerGone))

=============================================================================
