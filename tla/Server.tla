------------------------------- MODULE Server -------------------------------
(***************************************************************************)
(* The threads that serve the clients of a leader (Server::newClient and   *)
(* _handleUser), the locks they take around SessionMonitor and             *)
(* SessionController, and a backup that carries out the commands they      *)
(* replicate.                                                              *)
(*                                                                         *)
(* Replication is what module CommitLog states: one log, which the backup  *)
(* carries out some way behind.  A command enters it once, between the     *)
(* call of waitCommit and its return; a call that is cancelled may have    *)
(* entered it all the same.  A backup that is to lead drops what it has    *)
(* not carried out.  The backup is one that was there from the start; a    *)
(* leader that has lost it is not followed any further.                    *)
(*                                                                         *)
(* A thread serves one socket, which it names.  Reading from the socket is *)
(* a choice: nothing, or a command of the user.                            *)
(***************************************************************************)
EXTENDS Sessions

CONSTANTS
    Threads,        \* connections of clients
    UserOf,         \* the name each of them logs in with
    Followees,      \* bound: names that others follow and that send messages
    MaxMessages,    \* bound: messages 1..MaxMessages
    MaxFollows,     \* bound: FOLLOW commands
    MaxLag,         \* bound: commands the backup is behind
    MaxCancels,     \* bound: calls of waitCommit that return false
    MaxTakeOvers    \* bound: leaders that crash

Free == "free"

ASSUME ServerAssumption ==
    /\ IsFiniteSet(Threads) /\ Free \notin Threads
    /\ UserOf \in [Threads -> Names] /\ Followees \subseteq Names
    /\ MaxSessions \in Nat \ {0} /\ BoxSize \in Nat
    /\ MaxMessages \in Nat /\ MaxFollows \in Nat /\ MaxCancels \in Nat
    /\ MaxTakeOvers \in Nat /\ MaxLag \in Nat \ {0}

VARIABLES
    lead,           \* the leader's state
    back,           \* the backup's state
    log,            \* committed, not yet carried out by the backup
    ahead,          \* history: the backup's state now, and after each entry of log
    thr,            \* every thread: where it is, its command, whether logged in
    mapSem,         \* holder of _mapSem, or Free
    sem,            \* holder of _sem of each user's session, or Free
    used,           \* bounds: messages, follows, cancelled calls, take-overs;
                    \* history: whether a take-over sent a CLOSE once too often
    shown,          \* history: <<user, message>> sent to the sockets of a user
    promised        \* history: <<user, message>> that a follower is to get

vars == <<lead, back, log, ahead, thr, mapSem, sem, used, shown, promised>>

\* A thread between two commands.
NoCommand == Command("NONE", NoName, 0)

\* Threads that have just begun, and that have ended.
Arrived(t) ==
    [pc |-> "wait", cmd |-> Command("LOGIN", UserOf[t], t), in |-> FALSE, asked |-> {}]
Gone == [pc |-> "end", cmd |-> NoCommand, in |-> FALSE, asked |-> {}]

\* A thread starts in newClient with the LOGIN of its client; clients come when
\* they like, so that it may be long before the command is in the log.
Init ==
    /\ lead = NewServer /\ back = NewServer
    /\ log = <<>>
    /\ ahead = <<NewServer>>
    /\ thr = [t \in Threads |-> Arrived(t)]
    /\ mapSem = Free
    /\ sem = [n \in Names |-> Free]
    /\ used = [messages |-> 0, follows |-> 0, cancels |-> 0, takeOvers |-> 0,
               stray |-> FALSE]
    /\ shown = {}
    /\ promised = {}

\* What the backup is once it has carried out the whole log.
Future == ahead[Len(ahead)]

\* Messages of a user that are in a server's buffer, and not delivered.
Unread(st, n) ==
    {st.mail[n][k].id : k \in {i \in DOMAIN st.mail[n] : ~st.mail[n][i].delivered}}

At(t, l) == thr[t].pc = l /\ ~lead.down
Move(t, l) == thr' = [thr EXCEPT ![t].pc = l]
Over(t, l) ==
    thr' = [thr EXCEPT ![t].pc = l, ![t].cmd = NoCommand, ![t].asked = {}]
Request(t, c) == thr' = [thr EXCEPT ![t].pc = "wait", ![t].cmd = c]

-----------------------------------------------------------------------------
(* waitCommit *)

EnterLog(t) ==
    /\ At(t, "wait")
    /\ Len(log) < MaxLag
    /\ log' = Append(log, thr[t].cmd)
    /\ ahead' = Append(ahead, Commit(Future, thr[t].cmd))
    /\ Move(t, "logged")
    /\ UNCHANGED <<lead, back, mapSem, sem, used, shown, promised>>

\* Where a thread goes on when its command is committed ...
AfterCommit(type) ==
    CASE type = "LOGIN"     -> "create"
      [] type = "CLOSE"     -> "close"
      [] type = "FOLLOW"    -> "follow"
      [] type = "MESSAGE"   -> "ensure"
      [] type = "DELIVERED" -> "mark"

AfterCancelLogin(type) ==                 \* mutants: a result that is not looked at
    CASE type = "LOGIN"     -> "create"
      [] type = "CLOSE"     -> "close"
      [] type = "FOLLOW"    -> "deliver"
      [] type = "MESSAGE"   -> "deliver"
      [] type = "DELIVERED" -> "ready"

AfterCancelMessage(type) ==
    CASE type = "LOGIN"     -> "lost"
      [] type = "CLOSE"     -> "close"
      [] type = "FOLLOW"    -> "deliver"
      [] type = "MESSAGE"   -> "ensure"
      [] type = "DELIVERED" -> "ready"

AfterCancelDelivered(type) ==
    CASE type = "LOGIN"     -> "lost"
      [] type = "CLOSE"     -> "close"
      [] type = "FOLLOW"    -> "deliver"
      [] type = "MESSAGE"   -> "deliver"
      [] type = "DELIVERED" -> "mark"

\* ... and when it is not: a login leaves its socket open and its client without
\* an answer; nobody looks at the result of a CLOSE.
AfterCancel(type) ==
    CASE type = "LOGIN"     -> "lost"
      [] type = "CLOSE"     -> "close"
      [] type = "FOLLOW"    -> "deliver"
      [] type = "MESSAGE"   -> "deliver"
      [] type = "DELIVERED" -> "ready"

ReturnTrue(t) ==
    /\ At(t, "logged")
    /\ Move(t, AfterCommit(thr[t].cmd.type))
    /\ UNCHANGED <<lead, back, log, ahead, mapSem, sem, used, shown, promised>>

ReturnFalse(t) ==
    /\ At(t, "wait") \/ At(t, "logged")
    /\ used.cancels < MaxCancels
    /\ used' = [used EXCEPT !.cancels = @ + 1]
    /\ LET next == AfterCancel(thr[t].cmd.type)
       IN  IF next \in {"deliver", "ready"} THEN Over(t, next) ELSE Move(t, next)
    /\ mapSem' = IF thr[t].cmd.type = "FOLLOW" THEN Free ELSE mapSem
    /\ sem' = IF thr[t].cmd.type = "DELIVERED"
              THEN [sem EXCEPT ![UserOf[t]] = Free] ELSE sem
    /\ UNCHANGED <<lead, back, log, ahead, shown, promised>>

-----------------------------------------------------------------------------
(* newClient *)

\* createSession and closeSession hold _mapSem while they wait for the session.
TakeMap(t) ==
    /\ mapSem = Free
    /\ \/ At(t, "create") /\ Move(t, "creating")
       \/ At(t, "close") /\ Move(t, "closing")
    /\ mapSem' = t
    /\ UNCHANGED <<lead, back, log, ahead, sem, used, shown, promised>>

Create(t) ==
    LET u == UserOf[t]
    IN  /\ At(t, "creating")
        /\ sem[u] = Free
        /\ lead' = CreateSession(lead, u, t)
        /\ mapSem' = Free
        /\ IF Accepts(lead, u)
           THEN thr' = [thr EXCEPT ![t] = [pc |-> "deliver", cmd |-> NoCommand,
                                           in |-> TRUE, asked |-> {}]]
           ELSE Request(t, Command("CLOSE", u, t))
        /\ UNCHANGED <<back, log, ahead, sem, used, shown, promised>>

CloseKeepsMap(t) ==                       \* mutant: the lock of the map is kept when
    LET u == UserOf[t]                    \* other sessions of the user are left
    IN  /\ At(t, "closing")
        /\ sem[u] = Free
        /\ lead' = CloseSession(lead, u, t)
        /\ mapSem' = IF IsOpen(lead', u) THEN mapSem ELSE Free
        /\ thr' = [thr EXCEPT ![t] = Gone]
        /\ UNCHANGED <<back, log, ahead, sem, used, shown, promised>>

Close(t) ==
    LET u == UserOf[t]
    IN  /\ At(t, "closing")
        /\ sem[u] = Free
        /\ lead' = CloseSession(lead, u, t)
        /\ mapSem' = Free
        /\ thr' = [thr EXCEPT ![t] = Gone]
        /\ UNCHANGED <<back, log, ahead, sem, used, shown, promised>>

-----------------------------------------------------------------------------
(* _handleUser *)

\* deliverMessages, up to waitCommit or to the end: the session stays locked.
Deliver(t) ==
    LET u  == UserOf[t]
        st == GetPacket(lead, u)
    IN  /\ At(t, "deliver")
        /\ sem[u] = Free
        /\ lead' = st
        /\ IF st.mail[u] = <<>>
           THEN Move(t, "ready") /\ UNCHANGED sem
           ELSE /\ sem' = [sem EXCEPT ![u] = t]
                /\ Request(t, Command("DELIVERED", u, Head(st.mail[u]).id))
        /\ UNCHANGED <<back, log, ahead, mapSem, used, shown, promised>>

MarkUnderMap(t) ==                        \* mutant: asks the monitor, with its lock
    LET u  == UserOf[t]
        id == thr[t].cmd.arg
        st == GetPacket(MarkDelivered(lead, u, id), u)
    IN  /\ At(t, "mark") /\ mapSem = Free
        /\ lead' = st
        /\ shown' = shown \cup {<<u, id>>}
        /\ sem' = [sem EXCEPT ![u] = Free]
        /\ Over(t, "ready")
        /\ UNCHANGED <<back, log, ahead, mapSem, used, promised>>

\* The DELIVERED command is committed: mark, send to all sockets, next packet.
Mark(t) ==
    LET u  == UserOf[t]
        id == thr[t].cmd.arg
        st == GetPacket(MarkDelivered(lead, u, id), u)
    IN  /\ At(t, "mark")
        /\ lead' = st
        /\ shown' = shown \cup {<<u, id>>}
        /\ IF st.mail[u] = <<>>
           THEN /\ sem' = [sem EXCEPT ![u] = Free]
                /\ Over(t, "ready")
           ELSE /\ Request(t, Command("DELIVERED", u, Head(st.mail[u]).id))
                /\ UNCHANGED sem
        /\ UNCHANGED <<back, log, ahead, mapSem, used, promised>>

ReceiveNothing(t) ==
    /\ At(t, "ready")
    /\ Move(t, "deliver")
    /\ UNCHANGED <<lead, back, log, ahead, mapSem, sem, used, shown, promised>>

ReceiveClose(t) ==
    /\ At(t, "ready")
    /\ Request(t, Command("CLOSE", UserOf[t], t))
    /\ UNCHANGED <<lead, back, log, ahead, mapSem, sem, used, shown, promised>>

ReceiveFollowUnlocked(t, followee) ==     \* mutant: getControl comes too late to see
    /\ At(t, "ready")
    /\ followee \in Followees \ {UserOf[t]}
    /\ used.follows < MaxFollows
    /\ used' = [used EXCEPT !.follows = @ + 1]
    /\ Request(t, Command("FOLLOW", followee, UserOf[t]))
    /\ UNCHANGED <<lead, back, log, ahead, mapSem, sem, shown, promised>>

\* The map is locked from before waitCommit until the follower is added.
ReceiveFollow(t, followee) ==
    /\ At(t, "ready")
    /\ followee \in Followees \ {UserOf[t]}
    /\ mapSem = Free
    /\ mapSem' = t
    /\ used.follows < MaxFollows
    /\ used' = [used EXCEPT !.follows = @ + 1]
    /\ Request(t, Command("FOLLOW", followee, UserOf[t]))
    /\ UNCHANGED <<lead, back, log, ahead, sem, shown, promised>>

AddFollowerOf(t) ==
    LET followee == thr[t].cmd.user
    IN  /\ At(t, "follow")
        /\ IsOpen(lead, followee) => sem[followee] = Free
        /\ lead' = Follow(lead, followee, UserOf[t])
        /\ mapSem' = Free
        /\ Over(t, "deliver")
        /\ UNCHANGED <<back, log, ahead, sem, used, shown, promised>>

ReceiveMessage(t) ==
    LET id == used.messages + 1
        u  == UserOf[t]
    IN  /\ At(t, "ready")
        /\ u \in Followees /\ id <= MaxMessages
        /\ used' = [used EXCEPT !.messages = id]
        /\ thr' = [thr EXCEPT ![t].pc = "wait", ![t].cmd = Command("MESSAGE", u, id),
                              ![t].asked = Followers(lead, u)]
        /\ UNCHANGED <<lead, back, log, ahead, mapSem, sem, shown, promised>>

\* sendMessage takes neither lock: a follower added between its two readings of
\* the followers has no buffer.
Ensure(t) ==
    /\ At(t, "ensure")
    /\ lead' = EnsureBoxes(lead, UserOf[t])
    /\ Move(t, "enqueue")
    /\ UNCHANGED <<back, log, ahead, mapSem, sem, used, shown, promised>>

SendToFollowers(t) ==
    /\ At(t, "enqueue")
    /\ lead' = Enqueue(lead, UserOf[t], thr[t].cmd.arg)
    /\ promised' = promised \cup {<<n, thr[t].cmd.arg>> : n \in thr[t].asked}
    /\ Over(t, "deliver")
    /\ UNCHANGED <<back, log, ahead, mapSem, sem, used, shown>>

-----------------------------------------------------------------------------
(* The backup, and the end of the leader *)

Apply ==
    /\ log # <<>>
    /\ ~back.down
    /\ back' = Commit(back, Head(log))
    /\ log' = Tail(log)
    /\ ahead' = Tail(ahead)
    /\ UNCHANGED <<lead, thr, mapSem, sem, used, shown, promised>>

Crash ==
    /\ used.takeOvers < MaxTakeOvers
    /\ ~lead.down
    /\ lead' = [lead EXCEPT !.down = TRUE]
    /\ UNCHANGED <<back, log, ahead, thr, mapSem, sem, used, shown, promised>>

\* Sockets in the sessions of a server.
Sockets(st) == UNION {st.sessions[n].socks : n \in Names}

\* The backup leads; another one, which carried out the same commands, gets a
\* CLOSE for every socket: one too many where a send to a third server failed and
\* the CLOSE went out again, or where the old leader had crashed before it sent
\* the LOGIN to this one too.  The clients it knows are told and log in again.
TakeOver ==
    /\ lead.down /\ ~back.down
    /\ used.takeOvers < MaxTakeOvers
    /\ \E stray \in SUBSET Sockets(back) :
         /\ used' = [used EXCEPT !.takeOvers = @ + 1, !.stray = @ \/ stray # {}]
         /\ back' = ReceiveCloses(back, stray)
    /\ lead' = UpdateClients(back)
    /\ log' = <<>>
    /\ ahead' = <<back'>>
    /\ thr' = [t \in Threads |->
          IF \/ t \in back.sessions[UserOf[t]].socks /\ thr[t].in
             \/ thr[t].cmd.type = "LOGIN" /\ thr[t].pc \in {"wait", "logged"}
          THEN Arrived(t) ELSE Gone]
    /\ mapSem' = Free
    /\ sem' = [n \in Names |-> Free]
    /\ shown' = {}
    /\ promised' = {p \in promised : p[2] \in Unread(back, p[1])}

\* Nobody is left to serve, or to replicate to.
Idle ==
    /\ lead.down \/ back.down \/ \A t \in Threads : thr[t].pc \in {"end", "lost"}
    /\ UNCHANGED vars

LockStep(t) == TakeMap(t) \/ Create(t) \/ Close(t) \/ Deliver(t) \/ AddFollowerOf(t)

FreeStep(t) ==
    \/ EnterLog(t) \/ ReturnTrue(t) \/ Mark(t)
    \/ Ensure(t) \/ SendToFollowers(t) \/ ReceiveNothing(t)

ClientStep(t) ==
    \/ ReceiveClose(t) \/ ReceiveMessage(t)
    \/ \E n \in Names : ReceiveFollow(t, n)

Next ==
    \/ \E t \in Threads :
          LockStep(t) \/ FreeStep(t) \/ ClientStep(t) \/ ReturnFalse(t)
    \/ Apply \/ Crash \/ TakeOver \/ Idle

Spec == Init /\ [][Next]_vars

-----------------------------------------------------------------------------

ServerStates ==
    [db : Seq([name : Names, followers : SUBSET Names]),
     sessions : [Names -> [count : Nat, socks : SUBSET Threads,
                           user : [name : Names \cup {NoName}, id : Nat,
                                   followers : SUBSET Names]]],
     boxes : SUBSET Names,
     mail : [Names -> Seq([id : 1..MaxMessages, delivered : BOOLEAN])],
     down : BOOLEAN]

Places == {"wait", "logged", "create", "creating", "close", "closing",
           "deliver", "mark", "ready", "follow", "ensure", "enqueue", "end", "lost"}

\* Threads whose socket is in the sessions of their user.
Attached(t) ==
    /\ thr[t].pc \notin {"create", "creating", "end", "lost"}
    /\ thr[t].pc \in {"wait", "logged"} => thr[t].cmd.type # "LOGIN"

HoldsMap(t) ==
    \/ thr[t].pc \in {"creating", "closing", "follow"}
    \/ thr[t].pc \in {"wait", "logged"} /\ thr[t].cmd.type = "FOLLOW"

HoldsSession(t) ==
    \/ thr[t].pc = "mark"
    \/ thr[t].pc \in {"wait", "logged"} /\ thr[t].cmd.type = "DELIVERED"

\* Type correctness; each lock is held by the thread that is in its section.
TypeOK ==
    /\ lead \in ServerStates /\ back \in ServerStates
    /\ log \in Seq([type : CommandTypes, user : Names, arg : Threads \cup Names \cup Nat])
    /\ \A t \in Threads : thr[t].pc \in Places /\ thr[t].cmd.type \in CommandTypes \cup {"NONE"}
    /\ \A t \in Threads : HoldsMap(t) <=> mapSem = t
    /\ \A t \in Threads, n \in Names : (HoldsSession(t) /\ UserOf[t] = n) <=> sem[n] = t

\* The sessions of a user count exactly the sockets whose threads still use
\* them, refused ones included, whatever logins, refusals and closes interleave:
\* a session is never deleted under a thread, nor left behind by the last one.
SessionAccounting ==
    ~lead.down => \A n \in Names :
        LET here == {t \in Threads : UserOf[t] = n /\ Attached(t)}
        IN  /\ lead.sessions[n].socks = here
            /\ lead.sessions[n].count = Cardinality(here)

\* No more than MaxSessions clients of a user are logged in at once.
AtMostMaxSessions ==
    \A n \in Names :
        Cardinality({t \in Threads : UserOf[t] = n /\ thr[t].in}) <= MaxSessions

MailIds(st, n) == {st.mail[n][k].id : k \in DOMAIN st.mail[n]}

\* Whatever the threads of a leader do, no command of theirs makes a backup that
\* was there from the start close a session it does not have, which would end its
\* process: a refused, cancelled or lost login leaves no CLOSE without its LOGIN.
\* Only the CLOSEs of a take-over, which may come once too often, do that.
BackupNeverFails == back.down => used.stray

\* A client that has been told of its login is in the sessions of the backup,
\* which will tell it who leads next, unless it is on its way out.
BackupKnowsClients ==
    ~lead.down => \A t \in Threads :
        thr[t].in /\ thr[t].pc \notin {"close", "closing"}
                  /\ ~(thr[t].pc \in {"wait", "logged"} /\ thr[t].cmd.type = "CLOSE")
        => t \in Future.sessions[UserOf[t]].socks

\* A follower that the leader has written to its file is, or will be, in the
\* backup's, whatever order FOLLOWs and first logins of the followed are in.
BackupForgetsNoFollower ==
    ~lead.down => \A n \in Names :
        LoadUser(lead.db, n, FALSE).user.followers
            \subseteq LoadUser(Future.db, n, FALSE).user.followers

\* A message that was accepted for those who followed its sender when it was
\* sent has been shown to them or waits for them, and the backup has it too.
MessageKept ==
    ~lead.down => \A p \in promised :
        /\ p \in shown \/ p[2] \in Unread(lead, p[1])
        /\ p[2] \in MailIds(Future, p[1])

\* What the leader has shown to a user the backup will not show again.
ShownIsMarked ==
    \A p \in shown : p[2] \notin Unread(Future, p[1])

\* Whose lock a thread waits for.
WaitsFor(t) ==
    CASE thr[t].pc \in {"create", "close"} -> {mapSem} \ {Free}
      [] thr[t].pc \in {"creating", "closing", "deliver"} -> {sem[UserOf[t]]} \ {Free}
      [] thr[t].pc = "follow" -> {sem[thr[t].cmd.user]} \ {Free}
      [] OTHER -> {}

CanGoOn(t) == At(t, "wait") \/ ENABLED (LockStep(t) \/ FreeStep(t))

\* FOLLOW holds the lock of the map, and deliverMessages that of a session, until
\* the command is committed; other threads wait for both.  No thread waits for
\* ever: who holds the lock can go on, or waits for one whose holder can.
NoDeadlock ==
    ~lead.down => \A t \in Threads : thr[t].pc \notin {"end", "lost"} =>
        \/ CanGoOn(t)
        \/ \E h \in WaitsFor(t) : CanGoOn(h) \/ \E g \in WaitsFor(h) : CanGoOn(g)

=============================================================================
