------------------------------ MODULE Sessions ------------------------------
(***************************************************************************)
(* SessionMonitor, SessionController and MessageManager of one server, and *)
(* what a backup's commit does with them.  st is a server's state:         *)
(*   st.db        the file of users                                        *)
(*   st.sessions  _sessions, with the count, the sockets and the user of   *)
(*                each SessionController; no session has a count of zero   *)
(*   st.boxes     users for whom _pendingMessages has a buffer             *)
(*   st.mail      what the buffers hold, in order (their ring, and what    *)
(*                concurrent senders do to it: ProducerConsumerBuffer)     *)
(*   st.down      a null pointer was dereferenced: the process is gone     *)
(* A session works under the name it was opened for.  The code takes the   *)
(* name in the line that was found, which is another one only where one    *)
(* name ends with another (Persistence).                                   *)
(***************************************************************************)
EXTENDS Persistence, FiniteSets

CONSTANTS
    MaxSessions,    \* the 2 in SessionController::newSession
    BoxSize         \* ProducerConsumerBuffer::_maxBufferSize

NoSession == [count |-> 0, socks |-> {}, user |-> NoUser]

NewServer == [db |-> <<>>, sessions |-> [n \in Names |-> NoSession],
              boxes |-> {}, mail |-> [n \in Names |-> <<>>], down |-> FALSE]

IsOpen(st, name) == st.sessions[name].count > 0

AcceptsOneMore(st, name) == st.sessions[name].count <= MaxSessions   \* mutant

\* A refused socket counts too: it will be closed at once.
Accepts(st, name) == st.sessions[name].count < MaxSessions

CreateSession(st, name, sock) ==
    LET loaded == LoadUser(st.db, name, TRUE)
        s      == st.sessions[name]
        user   == IF IsOpen(st, name) THEN s.user ELSE loaded.user
    IN  [st EXCEPT
            !.db = IF IsOpen(st, name) THEN @ ELSE loaded.db,
            !.sessions[name] = [count |-> s.count + 1,
                                socks |-> s.socks \cup {sock}, user |-> user]]

CloseForgetsSocket(st, name, sock) ==     \* mutant: the count is not lowered
    IF ~IsOpen(st, name) THEN [st EXCEPT !.down = TRUE]
    ELSE [st EXCEPT !.sessions[name].socks = @ \ {sock}]

\* _sessions[username]-> of a user who has no session is a null pointer.
CloseSession(st, name, sock) ==
    LET s == st.sessions[name]
    IN  IF ~IsOpen(st, name) THEN [st EXCEPT !.down = TRUE]
        ELSE [st EXCEPT !.sessions[name] =
                IF s.count = 1 THEN NoSession
                ELSE [s EXCEPT !.count = @ - 1, !.socks = @ \ {sock}]]

\* A new follower goes to the user of the open session and to the file, or, if
\* the user has none, to the file, unless it knows no such user.
Follow(st, followee, follower) ==
    LET user == IF IsOpen(st, followee) THEN st.sessions[followee].user
                ELSE LoadUser(st.db, followee, FALSE).user
        more == AddFollower(user, follower)
    IN  IF IsOpen(st, followee)
        THEN [st EXCEPT !.sessions[followee].user = more, !.db = SaveUser(@, more)]
        ELSE IF user.name = followee THEN [st EXCEPT !.db = SaveUser(@, more)]
        ELSE st

-----------------------------------------------------------------------------
(* MessageManager *)

Followers(st, creator) == st.sessions[creator].user.followers

EnsureBoxes(st, creator) == [st EXCEPT !.boxes = @ \cup Followers(st, creator)]

\* Followers are read again; one without a buffer is a null pointer, and a full
\* buffer drops the message.
Enqueue(st, creator, id) ==
    LET to == Followers(st, creator)
        m  == [id |-> id, delivered |-> FALSE]
    IN  IF ~(to \subseteq st.boxes) THEN [st EXCEPT !.down = TRUE]
        ELSE [st EXCEPT !.mail = [n \in Names |->
                IF n \in to /\ Len(st.mail[n]) < BoxSize THEN Append(st.mail[n], m)
                ELSE st.mail[n]]]

SendMessage(st, creator, id) == Enqueue(EnsureBoxes(st, creator), creator, id)

MarkDelivered(st, to, id) ==
    [st EXCEPT !.mail[to] = [k \in DOMAIN @ |->
        IF @[k].id = id THEN [@[k] EXCEPT !.delivered = TRUE] ELSE @[k]]]

\* getPacket with peek: what is delivered is dequeued from the front, and the
\* first message that is not is the packet.
GetPacket(st, to) ==
    LET q    == st.mail[to]
        left == {k \in DOMAIN q : ~q[k].delivered}
        rest == IF left = {} THEN <<>>
                ELSE SubSeq(q, CHOOSE k \in left : \A j \in left : k <= j, Len(q))
    IN  [st EXCEPT !.mail[to] = rest]

-----------------------------------------------------------------------------
(* Commands *)

CommandTypes == {"LOGIN", "CLOSE", "FOLLOW", "MESSAGE", "DELIVERED"}

\* user is the packet's extra, arg what its payload carries.
Command(type, user, arg) == [type |-> type, user |-> user, arg |-> arg]

\* ReplicaManager::commit, on a backup.
Commit(st, c) ==
    CASE c.type = "LOGIN"     -> CreateSession(st, c.user, c.arg)
      [] c.type = "CLOSE"     -> CloseSession(st, c.user, c.arg)
      [] c.type = "FOLLOW"    -> Follow(st, c.user, c.arg)
      [] c.type = "DELIVERED" -> MarkDelivered(st, c.user, c.arg)
      [] c.type = "MESSAGE"   -> IF IsOpen(st, c.user)
                                 THEN SendMessage(st, c.user, c.arg) ELSE st

\* _updateClients of a server that has become the leader, when it is over: every
\* client it knows has been told, and no session is left.
UpdateClients(st) == [st EXCEPT !.sessions = [n \in Names |-> NoSession]]

\* What its CLOSEs do to another backup that had the same sessions.  There is
\* one for every socket, sent to all peers and, with a new timestamp, to all of
\* them again while the send to one fails: a socket of stray has its CLOSE come
\* once too often, and the one that finds no session any more is the last.
ReceiveCloses(st, stray) == [UpdateClients(st) EXCEPT !.down = st.down \/ stray # {}]

=============================================================================
