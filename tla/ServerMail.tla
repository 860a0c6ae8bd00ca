----------------------------- MODULE ServerMail -----------------------------
(***************************************************************************)
(* What a leader owes the users: what it has shown them the backup knows   *)
(* to be delivered, the followers it has written to its file the backup    *)
(* has too, and a message that it has accepted reaches those who followed  *)
(* its sender.  For any number of users, connections and messages.         *)
(***************************************************************************)
EXTENDS ServerProofs

-----------------------------------------------------------------------------
(* What the leader has shown *)

\* A thread on its way with a message, or with the mark of one.
Sends(t) ==
    thr[t].pc \in {"wait", "logged", "ensure", "enqueue"} /\ thr[t].cmd.type = "MESSAGE"
Marks(t) == thr[t].pc \in {"wait", "logged", "mark"} /\ thr[t].cmd.type = "DELIVERED"

UpTo(st, max) == \A n \in Names : \A id \in MailIds(st, n) : id <= max
Without(st, id) == \A n \in Names : id \notin MailIds(st, n)

\* Messages are numbered in the order in which they were received.
IdsOK ==
    /\ UpTo(lead, used.messages)
    /\ \A k \in 1..Len(ahead) : UpTo(ahead[k], used.messages)
    /\ shown \subseteq Names \X (1..used.messages)
    /\ \A t \in Threads : Sends(t) \/ Marks(t) => thr[t].cmd.arg <= used.messages

\* A message that is still on its way is in no buffer yet, and nobody marks it.
FreshOK ==
    \A t \in Threads : Sends(t) =>
        /\ Without(lead, thr[t].cmd.arg)
        /\ thr[t].pc = "wait" => Without(Future, thr[t].cmd.arg)
        /\ \A p \in shown : p[2] # thr[t].cmd.arg
        /\ \A q \in Threads :
              (Sends(q) /\ q # t) \/ Marks(q) => thr[q].cmd.arg # thr[t].cmd.arg

\* What is shown, or about to be, is marked on the backup by then.
MarkedOK ==
    /\ ShownIsMarked
    /\ \A t \in Threads : Marks(t) /\ thr[t].pc # "wait" =>
          thr[t].cmd.arg \notin Unread(Future, UserOf[t])

MarkInv == IdsOK /\ FreshOK /\ MarkedOK

\* A thread goes on with the message it had, or with none; or with the mark it
\* had, or asks for one of a message that waits.
KeepsOn(q) ==
    /\ Sends(q)' => /\ Sends(q) /\ thr'[q].cmd = thr[q].cmd
                    /\ thr'[q].pc = "wait" => thr[q].pc = "wait"
    /\ Marks(q)' =>
          \/ /\ Marks(q) /\ thr'[q].cmd = thr[q].cmd
             /\ thr[q].pc = "wait" => thr'[q].pc = "wait"
          \/ thr'[q].pc = "wait" /\ \E n \in Names : thr'[q].cmd.arg \in MailIds(lead, n)

\* Most steps leave the backup's future alone, show only what was marked, and add
\* to the leader's buffers only the message of a thread that is done with it.
Calm ==
    /\ \A q \in Threads : KeepsOn(q)
    /\ Future' = Future
    /\ \A k \in 1..Len(ahead') : \E j \in 1..Len(ahead) : ahead'[k] = ahead[j]
    /\ used'.messages = used.messages
    /\ \A p \in shown' :
          \/ p \in shown
          \/ \E t \in Threads : /\ Marks(t) /\ thr[t].pc # "wait"
                                /\ p = <<UserOf[t], thr[t].cmd.arg>>
    /\ \A n \in Names : \A id \in MailIds(lead', n) :
          \/ id \in MailIds(lead, n)
          \/ \E t \in Threads : Sends(t) /\ ~Sends(t)' /\ id = thr[t].cmd.arg

\* The number of the message that a thread is about.
LEMMA MessageNumber ==
    ASSUME IInv, NEW t \in Threads, Sends(t) \/ Marks(t)
    PROVE  /\ thr[t].cmd.arg \in 1..MaxMessages /\ WellFormed(thr[t].cmd)
           /\ thr[t].cmd.user = UserOf[t] /\ UserOf[t] \in Names
<1>1. ThreadOK(t) /\ UserOf[t] \in Names
  BY ThreadIs DEF IInv
<1>2. IssuedBy(thr[t].cmd, t)
  BY <1>1 DEF ThreadOK, Sends, Marks
<1> QED BY <1>1, <1>2 DEF IssuedBy, WellFormed, Sends, Marks

LEMMA CalmKeeps ==
    ASSUME IInv, MarkInv, Calm
    PROVE  MarkInv'
<1>0. IdsOK /\ FreshOK /\ MarkedOK /\ used.messages \in Nat
  BY ServerAssumption DEF MarkInv, IInv, UsedOK
<1>1. ASSUME NEW q \in Threads, Sends(q)'
      PROVE  /\ Sends(q) /\ thr'[q].cmd = thr[q].cmd
             /\ thr'[q].pc = "wait" => thr[q].pc = "wait"
  BY <1>1 DEF Calm, KeepsOn
<1>2. ASSUME NEW q \in Threads, Marks(q)'
      PROVE  \/ /\ Marks(q) /\ thr'[q].cmd = thr[q].cmd
                /\ thr[q].pc = "wait" => thr'[q].pc = "wait"
             \/ thr'[q].pc = "wait" /\ \E n \in Names : thr'[q].cmd.arg \in MailIds(lead, n)
  BY <1>2 DEF Calm, KeepsOn
<1>3. /\ Future' = Future /\ used'.messages = used.messages
      /\ \A k \in 1..Len(ahead') : \E j \in 1..Len(ahead) : ahead'[k] = ahead[j]
  BY DEF Calm
<1>4. ASSUME NEW p \in shown'
      PROVE  \/ p \in shown
             \/ \E t \in Threads : /\ Marks(t) /\ thr[t].pc # "wait"
                                   /\ p = <<UserOf[t], thr[t].cmd.arg>>
  BY <1>4 DEF Calm
<1>5. ASSUME NEW n \in Names, NEW id \in MailIds(lead', n)
      PROVE  \/ id \in MailIds(lead, n)
             \/ \E t \in Threads : Sends(t) /\ ~Sends(t)' /\ id = thr[t].cmd.arg
  BY <1>5 DEF Calm
<1>6. IdsOK'
  <2>1. UpTo(lead', used'.messages)
    BY <1>0, <1>3, <1>5 DEF IdsOK, UpTo
  <2>2. \A k \in 1..Len(ahead') : UpTo(ahead'[k], used'.messages)
    BY <1>0, <1>3 DEF IdsOK
  <2>3. shown' \subseteq Names \X (1..used'.messages)
    <3> SUFFICES ASSUME NEW p \in shown' PROVE p \in Names \X (1..used.messages)
      BY <1>3
    <3>1. CASE p \in shown
      BY <1>0, <3>1 DEF IdsOK
    <3>2. ASSUME NEW t \in Threads, Marks(t), p = <<UserOf[t], thr[t].cmd.arg>>
          PROVE  p \in Names \X (1..used.messages)
      <4>1. UserOf[t] \in Names /\ thr[t].cmd.arg \in 1..MaxMessages
            /\ thr[t].cmd.arg <= used.messages
        BY <1>0, <3>2, MessageNumber DEF IdsOK
      <4>2. thr[t].cmd.arg \in 1..used.messages
        BY <1>0, <4>1, ServerAssumption
      <4> QED BY <3>2, <4>1, <4>2
    <3> QED BY <1>4, <3>1, <3>2
  <2>4. ASSUME NEW q \in Threads, Sends(q)' \/ Marks(q)' PROVE thr'[q].cmd.arg <= used'.messages
    <3>1. CASE Sends(q)'
      BY <1>0, <1>1, <1>3, <3>1 DEF IdsOK
    <3>2. CASE Marks(q)'
      BY <1>0, <1>2, <1>3, <3>2 DEF IdsOK, UpTo
    <3> QED BY <2>4, <3>1, <3>2
  <2> QED BY <2>1, <2>2, <2>3, <2>4 DEF IdsOK
<1>7. FreshOK'
  <2> SUFFICES ASSUME NEW t \in Threads, Sends(t)'
               PROVE  /\ Without(lead', thr'[t].cmd.arg)
                      /\ thr'[t].pc = "wait" => Without(Future', thr'[t].cmd.arg)
                      /\ \A p \in shown' : p[2] # thr'[t].cmd.arg
                      /\ \A q \in Threads : (Sends(q)' /\ q # t) \/ Marks(q)' =>
                            thr'[q].cmd.arg # thr'[t].cmd.arg
    BY DEF FreshOK
  <2> DEFINE m == thr[t].cmd.arg
  <2>0. /\ Sends(t) /\ thr'[t].cmd.arg = m /\ (thr'[t].pc = "wait" => thr[t].pc = "wait")
    BY <1>1
  <2>1. /\ Without(lead, m) /\ (thr[t].pc = "wait" => Without(Future, m))
        /\ \A p \in shown : p[2] # m
        /\ \A q \in Threads : (Sends(q) /\ q # t) \/ Marks(q) => thr[q].cmd.arg # m
    BY <1>0, <2>0 DEF FreshOK
  <2> HIDE DEF m
  <2>2. Without(lead', m)
    <3> SUFFICES ASSUME NEW n \in Names, m \in MailIds(lead', n) PROVE FALSE
      BY DEF Without
    <3>1. m \notin MailIds(lead, n)
      BY <2>1 DEF Without
    <3>2. PICK q \in Threads : Sends(q) /\ ~Sends(q)' /\ m = thr[q].cmd.arg
      BY <1>5, <3>1
    <3>3. q # t
      BY <3>2
    <3> QED BY <2>1, <3>2, <3>3
  <2>3. \A p \in shown' : p[2] # m
    <3> SUFFICES ASSUME NEW p \in shown', p[2] = m PROVE FALSE
      OBVIOUS
    <3>1. p \notin shown
      BY <2>1
    <3>2. PICK q \in Threads : Marks(q) /\ p = <<UserOf[q], thr[q].cmd.arg>>
      BY <1>4, <3>1
    <3> QED BY <2>1, <3>2
  <2>4. ASSUME NEW q \in Threads, Sends(q)', q # t PROVE thr'[q].cmd.arg # m
    BY <1>1, <2>1, <2>4
  <2>5. ASSUME NEW q \in Threads, Marks(q)' PROVE thr'[q].cmd.arg # m
    BY <1>2, <2>1, <2>5 DEF Without
  <2> QED BY <1>3, <2>0, <2>1, <2>2, <2>3, <2>4, <2>5
<1>8. MarkedOK'
  <2>1. ASSUME NEW p \in shown' PROVE p[2] \notin Unread(Future, p[1])
    <3>1. CASE p \in shown
      BY <1>0, <3>1 DEF MarkedOK, ShownIsMarked
    <3>2. ASSUME NEW t \in Threads, Marks(t), thr[t].pc # "wait",
                 p = <<UserOf[t], thr[t].cmd.arg>>
          PROVE  p[2] \notin Unread(Future, p[1])
      BY <1>0, <3>2 DEF MarkedOK
    <3> QED BY <1>4, <3>1, <3>2
  <2>2. ASSUME NEW q \in Threads, Marks(q)', thr'[q].pc # "wait"
        PROVE  thr'[q].cmd.arg \notin Unread(Future, UserOf[q])
    BY <1>0, <1>2, <2>2 DEF MarkedOK
  <2>3. ShownIsMarked'
    <3>1. \A p \in shown' : p[2] \notin Unread(Future', p[1])
      BY <1>3, <2>1
    <3> QED BY <3>1 DEF ShownIsMarked, Unread
  <2>4. \A q \in Threads : Marks(q)' /\ thr'[q].pc # "wait" =>
           thr'[q].cmd.arg \notin Unread(Future', UserOf[q])
    BY <1>3, <2>2
  <2> QED BY <2>3, <2>4 DEF MarkedOK, Unread
<1> QED BY <1>6, <1>7, <1>8 DEF MarkInv

\* A step of t that leaves the log alone is calm if t keeps on, and if what it shows and
\* stores is its own.
LEMMA CalmStep ==
    ASSUME IInv, NEW t \in Threads, \A q \in Threads : q # t => thr'[q] = thr[q],
           KeepsOn(t), UNCHANGED <<log, ahead, back>>, used'.messages = used.messages,
           shown' = shown \/ /\ Marks(t) /\ thr[t].pc # "wait"
                             /\ shown' = shown \cup {<<UserOf[t], thr[t].cmd.arg>>},
           \A n \in Names : \A id \in MailIds(lead', n) :
              id \in MailIds(lead, n) \/ (Sends(t) /\ ~Sends(t)' /\ id = thr[t].cmd.arg)
    PROVE  Calm
<1>1. ASSUME NEW q \in Threads, q # t PROVE KeepsOn(q)
  BY <1>1 DEF KeepsOn, Sends, Marks
<1>2. Future' = Future /\ \A k \in 1..Len(ahead') : \E j \in 1..Len(ahead) : ahead'[k] = ahead[j]
  BY DEF Future
<1> QED BY <1>1, <1>2 DEF Calm

\* Buffers with no messages but those there were.
LEMMA LeadMailSame ==
    ASSUME lead'.mail = lead.mail
    PROVE  \A n \in Names : MailIds(lead', n) = MailIds(lead, n)
BY DEF MailIds

LEMMA CalmOther ==
    ASSUME IInv, NEW t \in Threads,
           \/ ReturnTrue(t) \/ ReturnFalse(t) \/ TakeMap(t) \/ ReceiveNothing(t)
           \/ ReceiveClose(t) \/ (\E n \in Names : ReceiveFollow(t, n))
    PROVE  Calm
<1>0. ThreadsOK /\ LeaderOK /\ UsedOK
  BY DEF IInv
<1>1. /\ UNCHANGED <<log, ahead, back, lead, shown>> /\ used'.messages = used.messages
  <2>1. \A x : [used EXCEPT !.cancels = x].messages = used.messages
        /\ [used EXCEPT !.follows = x].messages = used.messages
    BY <1>0 DEF UsedOK
  <2> QED
    BY <2>1 DEF ReturnTrue, ReturnFalse, TakeMap, ReceiveNothing, ReceiveClose, ReceiveFollow
<1>2. (\A q \in Threads : q # t => thr'[q] = thr[q]) /\ KeepsOn(t)
  <2> USE DEF KeepsOn, Sends, Marks
  <2>1. CASE ReturnTrue(t)
    <3>0. thr[t].pc = "logged"
      BY <2>1 DEF ReturnTrue, At
    <3>1. CASE thr[t].cmd.type = "LOGIN" /\ Goes(t, "create")
      BY <1>0, <3>0, <3>1, Afterwards
    <3>2. CASE thr[t].cmd.type = "CLOSE" /\ Goes(t, "close")
      BY <1>0, <3>0, <3>2, Afterwards
    <3>3. CASE thr[t].cmd.type = "FOLLOW" /\ Goes(t, "follow")
      BY <1>0, <3>0, <3>3, Afterwards
    <3>4. CASE thr[t].cmd.type = "MESSAGE" /\ Goes(t, "ensure")
      BY <1>0, <3>0, <3>4, Afterwards
    <3>5. CASE thr[t].cmd.type = "DELIVERED" /\ Goes(t, "mark")
      BY <1>0, <3>0, <3>5, Afterwards
    <3> QED BY <1>0, <2>1, <3>1, <3>2, <3>3, <3>4, <3>5, ReturnTrueStep
  <2>2. CASE ReturnFalse(t)
    <3>1. CASE Goes(t, "lost")
      BY <1>0, <3>1, Afterwards
    <3>2. CASE Goes(t, "close")
      BY <1>0, <3>2, Afterwards
    <3>3. CASE Ends(t, "deliver")
      BY <1>0, <3>3, Afterwards
    <3>4. CASE Ends(t, "ready")
      BY <1>0, <3>4, Afterwards
    <3> QED BY <1>0, <2>2, <3>1, <3>2, <3>3, <3>4, ReturnFalseStep
  <2>3. CASE TakeMap(t)
    <3>1. CASE Goes(t, "creating")
      BY <1>0, <3>1, Afterwards
    <3>2. CASE Goes(t, "closing")
      BY <1>0, <3>2, Afterwards
    <3> QED BY <1>0, <2>3, <3>1, <3>2, TakeMapStep
  <2>4. CASE ReceiveNothing(t)
    <3>1. Goes(t, "deliver")
      BY <1>0, <2>4, ReceiveNothingStep
    <3> QED BY <1>0, <3>1, Afterwards
  <2>5. CASE ReceiveClose(t)
    <3>1. Asks(t, "CLOSE", UserOf[t], t)
      BY <1>0, <2>5, ReceiveCloseStep
    <3> QED BY <1>0, <3>1, Afterwards
  <2>6. ASSUME NEW n \in Names, ReceiveFollow(t, n)
        PROVE  (\A q \in Threads : q # t => thr'[q] = thr[q]) /\ KeepsOn(t)
    <3>1. Asks(t, "FOLLOW", n, UserOf[t])
      BY <1>0, <2>6, ReceiveFollowStep
    <3> QED BY <1>0, <3>1, Afterwards
  <2> QED BY <2>1, <2>2, <2>3, <2>4, <2>5, <2>6
<1> QED BY <1>1, <1>2, CalmStep

LEMMA CalmCreate ==
    ASSUME IInv, NEW t \in Threads, Create(t)
    PROVE  Calm
<1>0. ThreadsOK /\ LeaderOK /\ Good(lead)
  BY DEF IInv, LeaderOK
<1>1. UNCHANGED <<log, ahead, back, used, shown>> /\ lead' = CreateSession(lead, UserOf[t], t)
      /\ ~Attached(t) /\ thr[t].pc = "creating"
  BY DEF Create, At, Attached
<1>2. t \notin lead.sessions[UserOf[t]].socks
  BY <1>0, <1>1 DEF LeaderOK
<1>3. lead'.mail = lead.mail
  BY <1>0, <1>1, <1>2, CreateSessionGood
<1>4. CASE Becomes(t, "deliver", NoCommand, TRUE, {})
  <2>1. thr'[t].pc = "deliver" /\ \A q \in Threads : q # t => thr'[q] = thr[q]
    BY <1>0, <1>4, AfterStep
  <2>2. KeepsOn(t)
    BY <2>1 DEF KeepsOn, Sends, Marks
  <2> QED BY <1>1, <1>3, <2>1, <2>2, CalmStep, LeadMailSame
<1>5. CASE Asks(t, "CLOSE", UserOf[t], t)
  <2>1. thr'[t].cmd.type = "CLOSE" /\ \A q \in Threads : q # t => thr'[q] = thr[q]
    BY <1>0, <1>5, Afterwards
  <2>2. KeepsOn(t)
    BY <2>1 DEF KeepsOn, Sends, Marks
  <2> QED BY <1>1, <1>3, <2>1, <2>2, CalmStep, LeadMailSame
<1> QED BY <1>0, <1>4, <1>5, CreateStep

LEMMA CalmClose ==
    ASSUME IInv, NEW t \in Threads, Close(t)
    PROVE  Calm
<1>0. ThreadsOK /\ LeaderOK /\ Good(lead)
  BY DEF IInv, LeaderOK
<1>1. UNCHANGED <<log, ahead, back, used, shown>> /\ lead' = CloseSession(lead, UserOf[t], t)
      /\ Attached(t)
  BY DEF Close, At, Attached
<1>2. t \in lead.sessions[UserOf[t]].socks
  BY <1>0, <1>1 DEF LeaderOK
<1>3. lead'.mail = lead.mail
  BY <1>0, <1>1, <1>2, CloseSessionGood
<1>4. thr'[t].pc = "end" /\ \A q \in Threads : q # t => thr'[q] = thr[q]
  BY <1>0, CloseStep, AfterStep
<1>5. KeepsOn(t)
  BY <1>4 DEF KeepsOn, Sends, Marks
<1> QED BY <1>1, <1>3, <1>4, <1>5, CalmStep, LeadMailSame

LEMMA CalmDeliver ==
    ASSUME IInv, NEW t \in Threads, Deliver(t)
    PROVE  Calm
<1>0. ThreadsOK /\ LeaderOK /\ Good(lead) /\ UserOf[t] \in Names
  BY ThreadIs DEF IInv, LeaderOK
<1>1. UNCHANGED <<log, ahead, back, used, shown>> /\ lead' = GetPacket(lead, UserOf[t])
  BY DEF Deliver
<1>2. \A n \in Names : MailIds(lead', n) \subseteq MailIds(lead, n)
  BY <1>0, <1>1, GetMail
<1>3. CASE Goes(t, "ready")
  <2>1. thr'[t].pc = "ready" /\ \A q \in Threads : q # t => thr'[q] = thr[q]
    BY <1>0, <1>3, Afterwards
  <2>2. KeepsOn(t)
    BY <2>1 DEF KeepsOn, Sends, Marks
  <2> QED BY <1>1, <1>2, <2>1, <2>2, CalmStep
<1>4. ASSUME NEW id \in 1..MaxMessages, id \in MailIds(lead, UserOf[t]),
             Asks(t, "DELIVERED", UserOf[t], id)
      PROVE  Calm
  <2>1. /\ thr'[t].pc = "wait" /\ thr'[t].cmd = Command("DELIVERED", UserOf[t], id)
        /\ \A q \in Threads : q # t => thr'[q] = thr[q]
    BY <1>0, <1>4, AfterStep DEF Asks
  <2>2. thr'[t].cmd.type = "DELIVERED" /\ thr'[t].cmd.arg = id
    BY <2>1 DEF Command
  <2>3. KeepsOn(t)
    BY <1>0, <1>4, <2>1, <2>2 DEF KeepsOn, Sends, Marks
  <2> QED BY <1>1, <1>2, <2>1, <2>3, CalmStep
<1> QED BY <1>0, <1>3, <1>4, DeliverStep

LEMMA CalmMark ==
    ASSUME IInv, NEW t \in Threads, Mark(t)
    PROVE  Calm
<1>0. ThreadsOK /\ LeaderOK /\ Good(lead) /\ UserOf[t] \in Names /\ ThreadOK(t)
  BY ThreadIs DEF IInv, LeaderOK
<1> DEFINE mid == MarkDelivered(lead, UserOf[t], thr[t].cmd.arg)
<1>1. /\ UNCHANGED <<log, ahead, back, used>> /\ lead' = GetPacket(mid, UserOf[t])
      /\ thr[t].pc = "mark" /\ shown' = shown \cup {<<UserOf[t], thr[t].cmd.arg>>}
  BY DEF Mark, At
<1>a. Marks(t)
  BY <1>0, <1>1 DEF ThreadOK, Marks
<1>2. \A n \in Names : MailIds(lead', n) \subseteq MailIds(lead, n)
  <2> SUFFICES ASSUME NEW n \in Names PROVE MailIds(lead', n) \subseteq MailIds(lead, n)
    OBVIOUS
  <2>1. Good(mid)
    BY <1>0, MarkDeliveredGood
  <2>2. MailIds(mid, n) = MailIds(lead, n)
    BY <1>0, MarkMail
  <2> HIDE DEF mid
  <2> QED BY <1>0, <1>1, <2>1, <2>2, GetMail
<1>3. CASE Ends(t, "ready")
  <2>1. thr'[t].pc = "ready" /\ \A q \in Threads : q # t => thr'[q] = thr[q]
    BY <1>0, <1>3, Afterwards
  <2>2. KeepsOn(t)
    BY <2>1 DEF KeepsOn, Sends, Marks
  <2> QED BY <1>1, <1>a, <1>2, <2>1, <2>2, CalmStep
<1>4. ASSUME NEW id \in 1..MaxMessages, id \in MailIds(lead, UserOf[t]),
             Asks(t, "DELIVERED", UserOf[t], id)
      PROVE  Calm
  <2>1. /\ thr'[t].pc = "wait" /\ thr'[t].cmd = Command("DELIVERED", UserOf[t], id)
        /\ \A q \in Threads : q # t => thr'[q] = thr[q]
    BY <1>0, <1>4, AfterStep DEF Asks
  <2>2. thr'[t].cmd.type = "DELIVERED" /\ thr'[t].cmd.arg = id
    BY <2>1 DEF Command
  <2>3. KeepsOn(t)
    BY <1>0, <1>4, <2>1, <2>2 DEF KeepsOn, Sends, Marks
  <2> QED BY <1>1, <1>a, <1>2, <2>1, <2>3, CalmStep
<1> QED BY <1>0, <1>3, <1>4, MarkStep

LEMMA CalmFollow ==
    ASSUME IInv, NEW t \in Threads, AddFollowerOf(t)
    PROVE  Calm
<1>0. ThreadsOK /\ Good(lead) /\ UserOf[t] \in Names /\ ThreadOK(t)
  BY ThreadIs DEF IInv, LeaderOK
<1>1. thr[t].cmd.user \in Names
  BY <1>0 DEF AddFollowerOf, At, ThreadOK, IssuedBy, WellFormed, AnyCommand
<1>2. UNCHANGED <<log, ahead, back, used, shown>>
      /\ lead' = Follow(lead, thr[t].cmd.user, UserOf[t])
  BY DEF AddFollowerOf
<1>3. lead'.mail = lead.mail
  BY <1>0, <1>1, <1>2, FollowGood
<1>4. thr'[t].pc = "deliver" /\ \A q \in Threads : q # t => thr'[q] = thr[q]
  BY <1>0, AddFollowerStep, Afterwards
<1>5. KeepsOn(t)
  BY <1>4 DEF KeepsOn, Sends, Marks
<1> QED BY <1>2, <1>3, <1>4, <1>5, CalmStep, LeadMailSame

LEMMA CalmSend ==
    ASSUME IInv, NEW t \in Threads, Ensure(t) \/ SendToFollowers(t)
    PROVE  Calm
<1>0. ThreadsOK /\ Good(lead) /\ UserOf[t] \in Names /\ ThreadOK(t)
  BY ThreadIs DEF IInv, LeaderOK
<1>1. Sends(t) /\ thr[t].cmd.arg \in 1..MaxMessages
  BY <1>0 DEF Ensure, SendToFollowers, At, ThreadOK, IssuedBy, WellFormed, Sends
<1>2. CASE Ensure(t)
  <2>1. UNCHANGED <<log, ahead, back, used, shown>> /\ lead' = EnsureBoxes(lead, UserOf[t])
        /\ thr[t].pc = "ensure"
    BY <1>2 DEF Ensure, At
  <2>2. lead'.mail = lead.mail
    BY <1>0, <2>1, EnsureBoxesGood
  <2>3. thr'[t].pc = "enqueue" /\ thr'[t].cmd = thr[t].cmd
        /\ \A q \in Threads : q # t => thr'[q] = thr[q]
    BY <1>0, <1>2, EnsureStep, Afterwards
  <2>4. KeepsOn(t)
    BY <1>1, <2>1, <2>3 DEF KeepsOn, Sends, Marks
  <2> QED BY <2>1, <2>2, <2>3, <2>4, CalmStep, LeadMailSame
<1>3. CASE SendToFollowers(t)
  <2>1. UNCHANGED <<log, ahead, back, used, shown>>
        /\ lead' = Enqueue(lead, UserOf[t], thr[t].cmd.arg)
    BY <1>3 DEF SendToFollowers
  <2>2. \A n \in Names : MailIds(lead', n) \subseteq MailIds(lead, n) \cup {thr[t].cmd.arg}
    BY <1>0, <1>1, <2>1, EnqueueMail DEF MailGrows
  <2>3. thr'[t].pc = "deliver" /\ \A q \in Threads : q # t => thr'[q] = thr[q]
    BY <1>0, <1>3, SendStep, Afterwards
  <2>4. KeepsOn(t) /\ ~Sends(t)'
    BY <2>3 DEF KeepsOn, Sends, Marks
  <2> QED BY <1>1, <2>1, <2>2, <2>3, <2>4, CalmStep
<1> QED BY <1>2, <1>3

LEMMA CalmApply ==
    ASSUME IInv, Apply
    PROVE  Calm
<1>1. BackupOK /\ ahead \in Seq(ServerStates) /\ Len(ahead) = Len(log) + 1
      /\ log \in Seq(AnyCommand) /\ log # <<>>
  BY DEF IInv, BackupOK, Apply
<1>2. Future' = Future /\ ahead' = Tail(ahead)
  BY <1>1, LogShrinks DEF Apply
<1>3. \A k \in 1..Len(ahead') : k + 1 \in 1..Len(ahead) /\ ahead'[k] = ahead[k + 1]
  <2>1. ahead # <<>> /\ Len(ahead) \in Nat
    BY <1>1
  <2> QED BY <1>1, <1>2, <2>1
<1>4. UNCHANGED <<thr, lead, used, shown>>
  BY DEF Apply
<1>5. \A q \in Threads : KeepsOn(q)
  BY <1>4 DEF KeepsOn, Sends, Marks
<1> QED BY <1>2, <1>3, <1>4, <1>5 DEF Calm

LEMMA CalmCrash ==
    ASSUME IInv, Crash \/ UNCHANGED vars
    PROVE  Calm
<1>1. UNCHANGED <<thr, ahead, used, shown>>
  BY DEF Crash, vars
<1>2. lead'.mail = lead.mail
  <2>1. lead = [db |-> lead.db, sessions |-> lead.sessions, boxes |-> lead.boxes,
                mail |-> lead.mail, down |-> lead.down]
    BY StateFields DEF IInv, LeaderOK, Good
  <2>2. lead' = [lead EXCEPT !.down = TRUE] \/ lead' = lead
    BY DEF Crash, vars
  <2> QED BY <2>1, <2>2
<1>3. \A q \in Threads : KeepsOn(q)
  BY <1>1 DEF KeepsOn, Sends, Marks
<1> QED BY <1>1, <1>2, <1>3, LeadMailSame DEF Calm, Future

\* A command that enters the log adds what the backup will be to its history.
LEMMA AheadGrows ==
    ASSUME IInv, NEW t \in Threads, EnterLog(t)
    PROVE  /\ Future' = Commit(Future, thr[t].cmd) /\ ahead' = Append(ahead, Future')
           /\ WellFormed(thr[t].cmd) /\ IssuedBy(thr[t].cmd, t)
           /\ Fits(Future, thr[t].cmd) /\ Good(Future)
           /\ \A k \in 1..Len(ahead') :
                 \/ k \in 1..Len(ahead) /\ ahead'[k] = ahead[k]
                 \/ ahead'[k] = Future'
<1> DEFINE c == thr[t].cmd
           f == Future'
<1>0. ThreadsOK /\ BackupOK /\ FutureOK
  BY DEF IInv
<1>1. WellFormed(c) /\ IssuedBy(c, t) /\ Fits(Future, c) /\ Good(Future)
  BY <1>0, CommandFits, FutureIs
<1>2. Future' = Commit(Future, c) /\ ahead' = Append(ahead, Future')
  BY <1>0, <1>1, LogGrows DEF EnterLog
<1>3. ahead \in Seq(ServerStates) /\ Len(ahead) \in Nat
  BY <1>0 DEF BackupOK
<1>4. Future' \in ServerStates
  BY <1>0, <1>1, <1>2, CommitGood DEF Good
<1>5. ahead' = Append(ahead, f) /\ f \in ServerStates
  BY <1>2, <1>4
<1> HIDE DEF f
<1>6. \A k \in 1..Len(ahead') :
         \/ k \in 1..Len(ahead) /\ ahead'[k] = ahead[k]
         \/ ahead'[k] = f
  BY <1>3, <1>5
<1> QED BY <1>1, <1>2, <1>6 DEF f

\* A command enters the log: a mark reaches the backup, and a message that nobody
\* has been shown.
LEMMA MarksEnter ==
    ASSUME IInv, MarkInv, NEW t \in Threads, EnterLog(t)
    PROVE  MarkInv'
<1>0. /\ ThreadsOK /\ BackupOK /\ FutureOK /\ IdsOK /\ FreshOK /\ MarkedOK
      /\ used.messages \in Nat
  BY ServerAssumption DEF IInv, MarkInv, UsedOK
<1> DEFINE c == thr[t].cmd
<1>1. /\ UNCHANGED <<lead, used, shown>> /\ thr[t].pc = "wait"
      /\ thr'[t].pc = "logged" /\ thr'[t].cmd = c
      /\ \A q \in Threads : q # t => thr'[q] = thr[q]
  BY <1>0, EnterLogStep, Afterwards DEF EnterLog, At
<1>2. WellFormed(c) /\ IssuedBy(c, t) /\ Fits(Future, c) /\ Good(Future)
  BY AheadGrows
<1>3. Future' = Commit(Future, c)
  BY AheadGrows
<1>4. \A q \in Threads : (Sends(q)' <=> Sends(q)) /\ (Marks(q)' <=> Marks(q))
                         /\ thr'[q].cmd = thr[q].cmd
  BY <1>1 DEF Sends, Marks
<1>5. /\ c.type = "MESSAGE" => Sends(t)
      /\ c.type = "DELIVERED" => Marks(t) /\ c.user = UserOf[t]
  BY <1>1, <1>2 DEF Sends, Marks, IssuedBy
<1>6. ASSUME NEW n \in Names
      PROVE  /\ \A id \in MailIds(Future', n) :
                   id \in MailIds(Future, n) \/ (c.type = "MESSAGE" /\ id = c.arg)
             /\ \A id \in Unread(Future', n) :
                   /\ id \in Unread(Future, n) \/ (c.type = "MESSAGE" /\ id = c.arg)
                   /\ ~(c.type = "DELIVERED" /\ n = c.user /\ id = c.arg)
  <2>1. c.type \in CommandTypes
    BY <1>2 DEF WellFormed, AnyCommand
  <2>2. /\ c.type \notin {"MESSAGE", "DELIVERED"} => Future'.mail[n] = Future.mail[n]
        /\ c.type = "DELIVERED" =>
              /\ MailIds(Future', n) = MailIds(Future, n)
              /\ Unread(Future', n) = IF n = c.user THEN Unread(Future, n) \ {c.arg}
                                      ELSE Unread(Future, n)
        /\ c.type = "MESSAGE" => MailGrows(Future, Future', n, c.arg)
    <3> HIDE DEF c
    <3> QED BY <1>2, <1>3, CommitMail
  <2>3. Future'.mail[n] = Future.mail[n] => SameMail(Future, Future', n)
    BY MailUnchanged
  <2> HIDE DEF c
  <2>4. CASE c.type \notin {"MESSAGE", "DELIVERED"}
    BY <2>2, <2>3, <2>4 DEF SameMail
  <2>5. CASE c.type = "DELIVERED"
    BY <2>2, <2>5
  <2>6. CASE c.type = "MESSAGE"
    BY <2>2, <2>6 DEF MailGrows
  <2> QED BY <2>4, <2>5, <2>6
<1>7. IdsOK'
  <2>1. UpTo(Future', used.messages)
    <3>1. \A n \in Names : \A id \in MailIds(Future, n) : id <= used.messages
      <4>1. Len(ahead) \in 1..Len(ahead)
        BY <1>0 DEF BackupOK
      <4> QED BY <1>0, <4>1 DEF IdsOK, UpTo, Future
    <3>2. c.type = "MESSAGE" => c.arg <= used.messages
      BY <1>0, <1>5 DEF IdsOK
    <3> HIDE DEF c
    <3> QED BY <1>6, <3>1, <3>2 DEF UpTo
  <2>2. \A k \in 1..Len(ahead') :
           \/ k \in 1..Len(ahead) /\ ahead'[k] = ahead[k]
           \/ ahead'[k] = Future'
    BY AheadGrows
  <2>3. \A k \in 1..Len(ahead') : UpTo(ahead'[k], used.messages)
    BY <1>0, <2>1, <2>2 DEF IdsOK
  <2> QED BY <1>0, <1>1, <1>4, <2>3 DEF IdsOK
<1>8. FreshOK'
  <2> SUFFICES ASSUME NEW s \in Threads, Sends(s)'
               PROVE  /\ Without(lead', thr'[s].cmd.arg)
                      /\ thr'[s].pc = "wait" => Without(Future', thr'[s].cmd.arg)
                      /\ \A p \in shown' : p[2] # thr'[s].cmd.arg
                      /\ \A q \in Threads : (Sends(q)' /\ q # s) \/ Marks(q)' =>
                            thr'[q].cmd.arg # thr'[s].cmd.arg
    BY DEF FreshOK
  <2>1. Sends(s) /\ thr'[s].cmd = thr[s].cmd
    BY <1>4
  <2>2. /\ Without(lead, thr[s].cmd.arg)
        /\ thr[s].pc = "wait" => Without(Future, thr[s].cmd.arg)
        /\ \A p \in shown : p[2] # thr[s].cmd.arg
        /\ \A q \in Threads : (Sends(q) /\ q # s) \/ Marks(q) => thr[q].cmd.arg # thr[s].cmd.arg
    BY <1>0, <2>1 DEF FreshOK
  <2>3. ASSUME thr'[s].pc = "wait" PROVE Without(Future', thr[s].cmd.arg)
    <3>1. s # t /\ thr[s].pc = "wait"
      BY <1>1, <2>3
    <3>2. c.type = "MESSAGE" => c.arg # thr[s].cmd.arg
      BY <1>5, <2>2, <3>1
    <3>3. \A n \in Names : thr[s].cmd.arg \notin MailIds(Future, n)
      BY <2>2, <3>1 DEF Without
    <3> HIDE DEF c
    <3>4. \A n \in Names : thr[s].cmd.arg \notin MailIds(Future', n)
      BY <1>6, <3>2, <3>3
    <3> QED BY <3>4 DEF Without
  <2> QED BY <1>1, <1>4, <2>1, <2>2, <2>3
<1>9. MarkedOK'
  <2>1. ASSUME NEW p \in shown PROVE p[2] \notin Unread(Future', p[1])
    <3>1. p[1] \in Names /\ p[2] \notin Unread(Future, p[1])
      BY <1>0, <2>1 DEF IdsOK, MarkedOK, ShownIsMarked
    <3>2. c.type = "MESSAGE" => c.arg # p[2]
      BY <1>0, <1>5 DEF FreshOK
    <3> HIDE DEF c
    <3> QED BY <1>6, <3>1, <3>2
  <2>2. ASSUME NEW q \in Threads, Marks(q), thr'[q].pc # "wait"
        PROVE  thr[q].cmd.arg \notin Unread(Future', UserOf[q])
    <3>0. UserOf[q] \in Names
      BY ServerAssumption
    <3>1. CASE q = t
      <4>1. c.type = "DELIVERED" /\ c.user = UserOf[t]
        BY <1>5, <2>2, <3>1 DEF Marks
      <4>2. c.arg \notin Unread(Future', UserOf[t])
        <5> HIDE DEF c
        <5> QED BY <1>6, <3>0, <3>1, <4>1
      <4> QED BY <3>1, <4>2
    <3>2. CASE q # t
      <4>1. thr[q].cmd.arg \notin Unread(Future, UserOf[q])
        BY <1>0, <1>1, <2>2, <3>2 DEF MarkedOK
      <4>2. c.type = "MESSAGE" => c.arg # thr[q].cmd.arg
        BY <1>0, <1>5, <2>2 DEF FreshOK
      <4> HIDE DEF c
      <4> QED BY <1>6, <3>0, <4>1, <4>2
    <3> QED BY <3>1, <3>2
  <2>3. \A p \in shown' : p[2] \notin Unread(Future', p[1])
    BY <1>1, <2>1
  <2>4. \A q \in Threads : Marks(q)' /\ thr'[q].pc # "wait" =>
           thr'[q].cmd.arg \notin Unread(Future', UserOf[q])
    BY <1>4, <2>2
  <2> QED BY <2>3, <2>4 DEF MarkedOK, ShownIsMarked, Unread
<1> QED BY <1>7, <1>8, <1>9 DEF MarkInv

\* A message gets a number that no other has had.
LEMMA MarksReceive ==
    ASSUME IInv, MarkInv, NEW t \in Threads, ReceiveMessage(t)
    PROVE  MarkInv'
<1>0. /\ ThreadsOK /\ LeaderOK /\ UsedOK /\ IdsOK /\ FreshOK /\ MarkedOK
      /\ used.messages \in Nat
  BY ServerAssumption DEF IInv, MarkInv, UsedOK
<1> DEFINE id == used.messages + 1
<1>1. /\ UNCHANGED <<lead, ahead, shown>> /\ used'.messages = id /\ thr[t].pc = "ready"
  BY <1>0 DEF ReceiveMessage, At, UsedOK
<1>2. /\ thr'[t].pc = "wait" /\ thr'[t].cmd = Command("MESSAGE", UserOf[t], id)
      /\ \A q \in Threads : q # t => thr'[q] = thr[q]
  BY <1>0, ReceiveMessageStep, AfterStep
<1>3. thr'[t].cmd.arg = id /\ thr'[t].cmd.type = "MESSAGE"
  BY <1>2 DEF Command
<1>4. /\ \A q \in Threads : (Sends(q)' <=> (Sends(q) \/ q = t)) /\ (Marks(q)' <=> Marks(q))
      /\ ~Marks(t) /\ ~Sends(t)
  BY <1>1, <1>2, <1>3 DEF Sends, Marks
<1>5. ASSUME NEW x, x <= used.messages, x \in Nat PROVE x <= id /\ x # id
  BY <1>0, <1>5
<1>6. ASSUME NEW n \in Names, NEW x \in MailIds(lead, n) PROVE x <= id /\ x # id
  <2>1. x \in Nat /\ x <= used.messages
    BY <1>0, MailTyped DEF IdsOK, UpTo, LeaderOK
  <2> QED BY <1>5, <2>1
<1>7. ASSUME NEW k \in 1..Len(ahead), NEW n \in Names, NEW x \in MailIds(ahead[k], n)
      PROVE  x <= id /\ x # id
  <2>1. x \in Nat /\ x <= used.messages
    BY <1>0, MailTyped DEF IdsOK, UpTo, IInv, BackupOK
  <2> QED BY <1>5, <2>1
<1>8. ASSUME NEW q \in Threads, Sends(q) \/ Marks(q)
      PROVE  thr[q].cmd.arg <= id /\ thr[q].cmd.arg # id
  <2>1. thr[q].cmd.arg \in Nat
    BY <1>8, MessageNumber
  <2>2. thr[q].cmd.arg <= used.messages
    BY <1>0, <1>8 DEF IdsOK
  <2> QED BY <1>5, <2>1, <2>2
<1>9. ASSUME NEW p \in shown PROVE p[2] # id /\ p \in Names \X (1..id)
  <2>1. p \in Names \X (1..used.messages)
    BY <1>0 DEF IdsOK
  <2> QED BY <1>0, <2>1
<1>a. Len(ahead) \in 1..Len(ahead)
  BY DEF IInv, BackupOK
<1>b. Without(lead, id) /\ Without(Future, id)
  BY <1>6, <1>7, <1>a DEF Without, Future
<1> HIDE DEF id
<1>c. Future' = Future
  BY <1>1 DEF Future
<1>10. IdsOK'
  <2>1. UpTo(lead', used'.messages) /\ \A k \in 1..Len(ahead') : UpTo(ahead'[k], used'.messages)
    BY <1>1, <1>6, <1>7 DEF UpTo
  <2>2. \A q \in Threads : Sends(q)' \/ Marks(q)' => thr'[q].cmd.arg <= used'.messages
    <3>1. id <= id
      BY <1>0 DEF id
    <3> QED BY <1>1, <1>2, <1>3, <1>4, <1>8, <3>1
  <2> QED BY <1>1, <1>9, <2>1, <2>2 DEF IdsOK
<1>11. FreshOK'
  <2>1. ASSUME NEW s \in Threads, Sends(s)', s # t
        PROVE  /\ Without(lead', thr'[s].cmd.arg)
               /\ thr'[s].pc = "wait" => Without(Future', thr'[s].cmd.arg)
               /\ \A p \in shown' : p[2] # thr'[s].cmd.arg
               /\ \A q \in Threads : (Sends(q)' /\ q # s) \/ Marks(q)' =>
                     thr'[q].cmd.arg # thr'[s].cmd.arg
    <3>1. Sends(s) /\ thr'[s] = thr[s]
      BY <1>2, <1>4, <2>1
    <3>2. \A q \in Threads : (Sends(q)' /\ q # s) \/ Marks(q)' => thr'[q].cmd.arg # thr[s].cmd.arg
      BY <1>0, <1>2, <1>3, <1>4, <1>8, <3>1 DEF FreshOK
    <3> QED BY <1>0, <1>1, <1>c, <3>1, <3>2 DEF FreshOK
  <2>2. /\ Without(lead', id) /\ Without(Future', id)
        /\ \A p \in shown' : p[2] # id
        /\ \A q \in Threads : (Sends(q)' /\ q # t) \/ Marks(q)' => thr'[q].cmd.arg # id
    BY <1>1, <1>2, <1>4, <1>8, <1>9, <1>b, <1>c
  <2> QED BY <1>3, <2>1, <2>2 DEF FreshOK
<1>12. MarkedOK'
  <2>1. \A p \in shown' : p[2] \notin Unread(Future', p[1])
    BY <1>0, <1>1, <1>c DEF MarkedOK, ShownIsMarked
  <2>2. \A q \in Threads : Marks(q)' /\ thr'[q].pc # "wait" =>
           thr'[q].cmd.arg \notin Unread(Future', UserOf[q])
    BY <1>0, <1>2, <1>4, <1>c DEF MarkedOK
  <2> QED BY <2>1, <2>2 DEF MarkedOK, ShownIsMarked, Unread
<1> QED BY <1>10, <1>11, <1>12 DEF MarkInv

\* Nobody is on his way with anything after a take-over, and nothing is shown yet.
LEMMA MarksTakeOver ==
    ASSUME IInv, MarkInv, TakeOver
    PROVE  MarkInv'
<1> DEFINE new == ahead'[1]
<1>0. BackupOK /\ IdsOK /\ used.messages \in Nat /\ UsedOK
  BY ServerAssumption DEF IInv, MarkInv, UsedOK
<1>1. shown' = {} /\ used'.messages = used.messages
  BY <1>0 DEF TakeOver, UsedOK
<1>2. /\ lead'.mail = back.mail /\ new.mail = back.mail
      /\ Good(back) /\ back = ahead[1] /\ 1 \in 1..Len(ahead) /\ Len(ahead') = 1
  BY <1>0, TwoServers
<1> HIDE DEF new
<1>3. UpTo(lead', used.messages) /\ UpTo(new, used.messages)
  <2>1. UpTo(back, used.messages)
    BY <1>0, <1>2 DEF IdsOK
  <2> QED BY <1>2, <2>1 DEF UpTo, MailIds
<1>4. \A q \in Threads : ~Sends(q)' /\ ~Marks(q)'
  <2>1. \A q \in Threads : thr'[q] = Arrived(q) \/ thr'[q] = Gone
    BY DEF TakeOver
  <2>2. ASSUME NEW q \in Threads
        PROVE  Arrived(q).cmd.type = "LOGIN" /\ Gone.cmd.type = "NONE"
    BY DEF Arrived, Gone, Command, NoCommand
  <2> QED BY <2>1, <2>2 DEF Sends, Marks
<1>5. Len(ahead') = 1 /\ ahead'[1] = new
  BY <1>2 DEF new
<1>6. IdsOK'
  BY <1>1, <1>3, <1>4, <1>5 DEF IdsOK
<1>7. FreshOK'
  BY <1>4 DEF FreshOK
<1>8. MarkedOK'
  BY <1>1, <1>4 DEF MarkedOK, ShownIsMarked
<1> QED BY <1>6, <1>7, <1>8 DEF MarkInv

LEMMA MarksBegin == Init => MarkInv
<1> SUFFICES ASSUME Init PROVE MarkInv
  OBVIOUS
<1>1. lead = NewServer /\ ahead = <<NewServer>> /\ shown = {} /\ used.messages = 0
  BY DEF Init
<1>2. \A n \in Names : MailIds(NewServer, n) = {}
  BY DEF MailIds, NewServer
<1>3. \A q \in Threads : ~Sends(q) /\ ~Marks(q)
  BY DEF Init, Arrived, Command, Sends, Marks
<1> HIDE DEF NewServer
<1>4. Len(ahead) = 1 /\ ahead[1] = NewServer
  BY <1>1
<1>5. IdsOK
  BY <1>1, <1>2, <1>3, <1>4 DEF IdsOK, UpTo
<1>6. FreshOK /\ MarkedOK
  BY <1>1, <1>3 DEF FreshOK, MarkedOK, ShownIsMarked
<1> QED BY <1>5, <1>6 DEF MarkInv

LEMMA MarksKept ==
    ASSUME IInv, MarkInv, [Next]_vars
    PROVE  MarkInv'
<1>1. ASSUME NEW t \in Threads, QuietStep(t) PROVE MarkInv'
  <2>1. CASE ReceiveMessage(t)
    BY <2>1, MarksReceive
  <2>2. CASE ~ReceiveMessage(t)
    BY <1>1, <2>2, CalmKeeps, CalmOther, CalmDeliver, CalmMark, CalmFollow, CalmSend
    DEF QuietStep
  <2> QED BY <2>1, <2>2
<1>2. ASSUME NEW t \in Threads, EnterLog(t) \/ Create(t) \/ Close(t) PROVE MarkInv'
  BY <1>2, MarksEnter, CalmKeeps, CalmCreate, CalmClose
<1>3. CASE Apply \/ Crash \/ UNCHANGED vars
  BY <1>3, CalmKeeps, CalmApply, CalmCrash
<1>4. CASE TakeOver
  BY <1>4, MarksTakeOver
<1> QED BY <1>1, <1>2, <1>3, <1>4, StepsAre

\* What has been sent to the sockets of a user is marked as delivered on the
\* backup once it has carried out the log: who leads next does not send it again.
THEOREM ShownStaysMarked == Spec => []ShownIsMarked
<1>1. IInv /\ MarkInv /\ [Next]_vars => MarkInv'
  BY MarksKept
<1>2. MarkInv => ShownIsMarked
  BY DEF MarkInv, MarkedOK
<1> QED BY <1>1, <1>2, MarksBegin, ServerInvariant, PTL DEF Spec

-----------------------------------------------------------------------------
(* The file, when no name ends in another *)

\* Otherwise a user may be read from, and saved over, the line of another.
NamesApart == \A p \in EndsWith : p[1] = p[2]

KnownIn(db, n) == \E i \in DOMAIN db : db[i].name = n
FollowersIn(db, n) ==
    {f \in Names : \E i \in DOMAIN db : db[i].name = n /\ f \in db[i].followers}
Unique(db) == \A i, j \in DOMAIN db : db[i].name = db[j].name => i = j

\* The line that a user is read from, and where it is saved.
LineIs(db, user) ==
    /\ user.id \in DOMAIN db
    /\ db[user.id] = [name |-> user.name, followers |-> user.followers]

LEMMA FileTyped ==
    ASSUME NEW db \in Seq(Lines)
    PROVE  /\ Len(db) \in Nat /\ DOMAIN db = 1..Len(db)
           /\ \A i \in DOMAIN db : db[i] \in Lines
           /\ \A i \in DOMAIN db : db[i].name \in Names /\ db[i].followers \subseteq Names
           /\ \A i \in DOMAIN db :
                 db[i] = [name |-> db[i].name, followers |-> db[i].followers]
<1>1. Len(db) \in Nat /\ DOMAIN db = 1..Len(db) /\ \A i \in DOMAIN db : db[i] \in Lines
  OBVIOUS
<1> QED BY <1>1 DEF Lines

LEMMA LineOfName ==
    ASSUME NamesApart, NEW db \in Seq(Lines), NEW n \in Names
    PROVE  /\ LineOf(db, n) <= Len(db) <=> KnownIn(db, n)
           /\ KnownIn(db, n) => LineOf(db, n) \in DOMAIN db /\ db[LineOf(db, n)].name = n
           /\ ~KnownIn(db, n) => LineOf(db, n) = Len(db) + 1
<1>1. \A i \in DOMAIN db : i \in Found(db, n) <=> db[i].name = n
  <2> SUFFICES ASSUME NEW i \in DOMAIN db PROVE i \in Found(db, n) <=> db[i].name = n
    OBVIOUS
  <2>1. db[i].name \in Names
    BY FileTyped
  <2>2. <<db[i].name, n>> \in EndsWith <=> db[i].name = n
    BY <2>1, NamesAssumption DEF NamesApart
  <2> QED BY <2>2 DEF Found
<1>2. Found(db, n) \subseteq DOMAIN db
  BY DEF Found
<1>3. Found(db, n) # {} <=> KnownIn(db, n)
  BY <1>1, <1>2 DEF KnownIn
<1> QED BY <1>1, <1>2, <1>3, LineOfDef

LEMMA OneLine ==
    ASSUME NEW db \in Seq(Lines), Unique(db), NEW i \in DOMAIN db
    PROVE  FollowersIn(db, db[i].name) = db[i].followers
<1>1. db[i].followers \subseteq Names
  BY FileTyped
<1> QED BY <1>1 DEF Unique, FollowersIn

LEMMA LoadUserFinds ==
    ASSUME NamesApart, NEW db \in Seq(Lines), Unique(db), NEW n \in Names, NEW create \in BOOLEAN
    PROVE  LET loaded == LoadUser(db, n, create)
           IN  /\ loaded.user.followers = FollowersIn(db, n)
               /\ loaded.user.name = n <=> (KnownIn(db, n) \/ create)
               /\ KnownIn(db, n) => loaded.db = db /\ LineIs(db, loaded.user)
               /\ ~KnownIn(db, n) /\ create =>
                     /\ loaded.db = Append(db, [name |-> n, followers |-> {}])
                     /\ loaded.user = [name |-> n, id |-> Len(db) + 1, followers |-> {}]
               /\ ~create => loaded.db = db
<1> DEFINE i == LineOf(db, n)
           new == [name |-> n, id |-> i, followers |-> {}]
           loaded == LoadUser(db, n, create)
<1>0. n # NoName /\ Len(db) \in Nat
  BY NamesAssumption
<1>1. CASE KnownIn(db, n)
  <2>1. i \in DOMAIN db /\ db[i].name = n /\ i <= Len(db)
    BY <1>1, LineOfName
  <2>2. loaded = [user |-> [name |-> db[i].name, id |-> i, followers |-> db[i].followers],
                  db   |-> db]
    BY <2>1 DEF LoadUser
  <2>3. FollowersIn(db, n) = db[i].followers
    BY <2>1, OneLine
  <2>4. db[i] = [name |-> db[i].name, followers |-> db[i].followers]
    BY <2>1, FileTyped
  <2> HIDE DEF i, loaded
  <2>5. /\ loaded.user.name = n /\ loaded.user.id = i /\ loaded.user.followers = db[i].followers
        /\ loaded.db = db
    BY <2>1, <2>2
  <2>6. LineIs(db, loaded.user)
    BY <2>1, <2>4, <2>5 DEF LineIs
  <2> QED BY <1>1, <2>3, <2>5, <2>6 DEF loaded
<1>2. CASE ~KnownIn(db, n)
  <2>1. i = Len(db) + 1
    BY <1>2, LineOfName
  <2>2. FollowersIn(db, n) = {}
    BY <1>2 DEF KnownIn, FollowersIn
  <2>3. loaded = IF create THEN [user |-> new, db |-> SaveUser(db, new)]
                 ELSE [user |-> NoUser, db |-> db]
    BY <1>0, <2>1 DEF LoadUser
  <2>4. SaveUser(db, new) = Append(db, [name |-> n, followers |-> {}])
    BY <1>0, <2>1 DEF SaveUser
  <2>5. new = [name |-> n, id |-> Len(db) + 1, followers |-> {}]
    BY <2>1
  <2> HIDE DEF i, new, loaded
  <2>6. CASE create
    <3>1. loaded.user = new /\ loaded.db = Append(db, [name |-> n, followers |-> {}])
      BY <2>3, <2>4, <2>6
    <3>2. new.name = n /\ new.followers = {}
      BY <2>5
    <3> QED BY <1>2, <2>2, <2>5, <2>6, <3>1, <3>2 DEF loaded
  <2>7. CASE ~create
    <3>1. loaded.user = NoUser /\ loaded.db = db
      BY <2>3, <2>7
    <3>2. NoUser.name = NoName /\ NoUser.followers = {}
      BY DEF NoUser
    <3> QED BY <1>0, <1>2, <2>2, <2>7, <3>1, <3>2 DEF loaded
  <2> QED BY <2>6, <2>7
<1> QED BY <1>1, <1>2

\* Saving a user that has its line changes its followers and nothing else.
LEMMA SaveUserKeeps ==
    ASSUME NEW db \in Seq(Lines), Unique(db), NEW user \in Users, NEW more \in Users,
           LineIs(db, user), more.name = user.name, more.id = user.id
    PROVE  LET new == SaveUser(db, more)
           IN  /\ Unique(new) /\ LineIs(new, more)
               /\ \A n : KnownIn(new, n) <=> KnownIn(db, n)
               /\ \A n : FollowersIn(new, n) =
                            IF n = user.name THEN more.followers ELSE FollowersIn(db, n)
               /\ \A u : LineIs(db, u) /\ u.name # user.name => LineIs(new, u)
<1> DEFINE new == SaveUser(db, more)
           line == [name |-> more.name, followers |-> more.followers]
<1>1. Len(db) \in Nat /\ DOMAIN db = 1..Len(db) /\ user.id \in 1..Len(db)
  BY DEF LineIs
<1>2. new = [db EXCEPT ![user.id] = line]
  <2>1. ~(more.id > Len(db)) /\ more.id = user.id
    BY <1>1
  <2>2. new = [db EXCEPT ![more.id] = line]
    BY <2>1 DEF SaveUser
  <2> QED BY <2>1, <2>2
<1>3. more.followers \subseteq Names /\ line.name = user.name /\ line.followers = more.followers
  BY DEF Users
<1>4. db[user.id].name = user.name
  BY DEF LineIs
<1> HIDE DEF line, new
<1>5. /\ DOMAIN new = DOMAIN db /\ user.id \in DOMAIN db /\ new[user.id] = line
      /\ \A i \in DOMAIN db : i # user.id => new[i] = db[i]
  BY <1>1, <1>2
<1>6. \A i \in DOMAIN db : new[i].name = db[i].name
  BY <1>3, <1>4, <1>5
<1>7. Unique(new) /\ \A n : KnownIn(new, n) <=> KnownIn(db, n)
  BY <1>5, <1>6 DEF Unique, KnownIn
<1>8. LineIs(new, more)
  BY <1>5 DEF LineIs, line
<1>9. ASSUME NEW n
      PROVE  FollowersIn(new, n) = IF n = user.name THEN more.followers ELSE FollowersIn(db, n)
  <2>1. \A i \in DOMAIN db : db[i].name = user.name => i = user.id
    BY <1>4, <1>5 DEF Unique
  <2>2. CASE n = user.name
    BY <1>3, <1>5, <1>6, <2>1, <2>2 DEF FollowersIn
  <2>3. CASE n # user.name
    <3>1. \A i \in DOMAIN db : db[i].name = n => new[i] = db[i]
      BY <1>4, <1>5, <2>3
    <3> QED BY <1>5, <1>6, <2>3, <3>1 DEF FollowersIn
  <2> QED BY <2>2, <2>3
<1>10. ASSUME NEW u, LineIs(db, u), u.name # user.name PROVE LineIs(new, u)
  <2>1. u.id \in DOMAIN db /\ db[u.id] = [name |-> u.name, followers |-> u.followers]
    BY <1>10 DEF LineIs
  <2>2. db[u.id].name = u.name
    BY <2>1
  <2>3. u.id # user.id
    BY <1>4, <1>10, <2>2
  <2> QED BY <1>5, <2>1, <2>3 DEF LineIs
<1> QED BY <1>7, <1>8, <1>9, <1>10 DEF new

\* A new line at the end.
LEMMA NewLineKeeps ==
    ASSUME NEW db \in Seq(Lines), Unique(db), NEW name \in Names, ~KnownIn(db, name)
    PROVE  LET new == Append(db, [name |-> name, followers |-> {}])
           IN  /\ Unique(new) /\ LineIs(new, [name |-> name, id |-> Len(db) + 1, followers |-> {}])
               /\ \A n : KnownIn(new, n) <=> (KnownIn(db, n) \/ n = name)
               /\ \A n : FollowersIn(new, n) = FollowersIn(db, n)
               /\ \A u : LineIs(db, u) => LineIs(new, u)
<1> DEFINE line == [name |-> name, followers |-> {}]
           new == Append(db, line)
           last == Len(db) + 1
           user == [name |-> name, id |-> last, followers |-> {}]
<1>1. Len(db) \in Nat /\ DOMAIN db = 1..Len(db)
  OBVIOUS
<1>2. line \in Lines /\ line.name = name /\ line.followers = {}
  BY DEF Lines
<1>3. user.id = last /\ user.name = name /\ user.followers = {}
  OBVIOUS
<1> HIDE DEF line, user
<1>4. DOMAIN new = 1..(Len(db) + 1) /\ new[Len(db) + 1] = line /\ \A i \in DOMAIN db : new[i] = db[i]
  BY <1>1, <1>2
<1> HIDE DEF new
<1>5. /\ last \in DOMAIN new /\ last \notin DOMAIN db /\ new[last] = line
      /\ \A i : i \in DOMAIN new <=> (i \in DOMAIN db \/ i = last)
  BY <1>1, <1>4
<1> HIDE DEF last
<1>6. \A i \in DOMAIN db : db[i].name # name
  BY DEF KnownIn
<1>7. Unique(new)
  BY <1>2, <1>4, <1>5, <1>6 DEF Unique
<1>8. LineIs(new, user)
  BY <1>3, <1>5 DEF LineIs, line
<1>9. \A n : KnownIn(new, n) <=> (KnownIn(db, n) \/ n = name)
  BY <1>2, <1>4, <1>5 DEF KnownIn
<1>10. \A n : FollowersIn(new, n) = FollowersIn(db, n)
  BY <1>2, <1>4, <1>5 DEF FollowersIn
<1>11. \A u : LineIs(db, u) => LineIs(new, u)
  BY <1>4, <1>5 DEF LineIs
<1> QED BY <1>7, <1>8, <1>9, <1>10, <1>11 DEF new, line, user, last

\* The user of an open session is what the file says of it.
Saved(st) ==
    /\ Unique(st.db)
    /\ \A n \in Names : st.sessions[n].count > 0 =>
          st.sessions[n].user.name = n /\ LineIs(st.db, st.sessions[n].user)

FileSame(old, st) ==
    /\ \A n : KnownIn(st.db, n) <=> KnownIn(old.db, n)
    /\ \A n : FollowersIn(st.db, n) = FollowersIn(old.db, n)

LEMMA SavedKnown ==
    ASSUME NEW st, Good(st), Saved(st), NEW n \in Names, st.sessions[n].count > 0
    PROVE  /\ KnownIn(st.db, n)
           /\ st.sessions[n].user.followers = FollowersIn(st.db, n)
<1> DEFINE user == st.sessions[n].user
           i == user.id
<1>1. user.name = n /\ i \in DOMAIN st.db /\ Unique(st.db)
      /\ st.db[i] = [name |-> user.name, followers |-> user.followers]
  BY DEF Saved, LineIs
<1>2. st.db \in Seq(Lines)
  BY StateFields DEF Good
<1> HIDE DEF i, user
<1>3. st.db[i].name = n /\ st.db[i].followers = user.followers
  BY <1>1
<1>4. FollowersIn(st.db, n) = user.followers
  BY <1>1, <1>2, <1>3, OneLine
<1> QED BY <1>1, <1>3, <1>4 DEF KnownIn, user

\* An open session has a socket, and one with a socket is open.
LEMMA OpenIs ==
    ASSUME NEW st, Good(st), NEW t \in Threads, t \in st.sessions[UserOf[t]].socks
    PROVE  st.sessions[UserOf[t]].count > 0 /\ IsOpen(st, UserOf[t])
<1>1. UserOf[t] \in Names
  BY ServerAssumption
<1>2. IsFiniteSet(st.sessions[UserOf[t]].socks)
  BY <1>1, SocksFinite
<1>3. st.sessions[UserOf[t]].count = Cardinality(st.sessions[UserOf[t]].socks)
  BY <1>1 DEF Good, SessionsOK
<1>4. Cardinality(st.sessions[UserOf[t]].socks) \in Nat
      /\ Cardinality(st.sessions[UserOf[t]].socks) # 0
  BY <1>2, FS_CardinalityType, FS_EmptySet
<1> QED BY <1>3, <1>4 DEF IsOpen

LEMMA SavedSame ==
    ASSUME NEW st, Saved(st), NEW new, new.db = st.db, new.sessions = st.sessions
    PROVE  Saved(new) /\ FileSame(st, new)
BY DEF Saved, FileSame

LEMMA CreateSessionSaved ==
    ASSUME NamesApart, NEW st, Good(st), Saved(st), NEW sock \in Threads
    PROVE  LET name == UserOf[sock]
               new  == CreateSession(st, name, sock)
           IN  /\ Saved(new)
               /\ \A n : KnownIn(new.db, n) <=> (KnownIn(st.db, n) \/ n = name)
               /\ \A n : FollowersIn(new.db, n) = FollowersIn(st.db, n)
<1> DEFINE name == UserOf[sock]
           new == CreateSession(st, name, sock)
           loaded == LoadUser(st.db, name, TRUE)
           s == st.sessions[name]
           user == IF IsOpen(st, name) THEN s.user ELSE loaded.user
           rec == [count |-> s.count + 1, socks |-> s.socks \cup {sock}, user |-> user]
           db == IF IsOpen(st, name) THEN st.db ELSE loaded.db
<1>1. /\ name \in Names /\ st.db \in Seq(Lines) /\ Unique(st.db)
      /\ st.sessions \in [Names -> Records]
      /\ st = [db |-> st.db, sessions |-> st.sessions, boxes |-> st.boxes,
               mail |-> st.mail, down |-> st.down]
  BY ServerAssumption, StateFields DEF Good, Saved
<1>2. /\ new.db = db
      /\ \A n \in Names : new.sessions[n] = IF n = name THEN rec ELSE st.sessions[n]
  <2>1. new = [st EXCEPT !.db = db, !.sessions[name] = rec]
    BY DEF CreateSession
  <2> HIDE DEF db, rec, new
  <2>2. new = [db |-> db, sessions |-> [st.sessions EXCEPT ![name] = rec],
               boxes |-> st.boxes, mail |-> st.mail, down |-> st.down]
    BY <1>1, <2>1
  <2> QED BY <1>1, <2>2
<1>3. rec.user = user
  OBVIOUS
<1>4. /\ Unique(db) /\ user.name = name /\ LineIs(db, user)
      /\ \A n : KnownIn(db, n) <=> (KnownIn(st.db, n) \/ n = name)
      /\ \A n : FollowersIn(db, n) = FollowersIn(st.db, n)
      /\ \A u : LineIs(st.db, u) => LineIs(db, u)
  <2>1. CASE IsOpen(st, name)
    <3>1. user = s.user /\ db = st.db /\ s.count > 0
      BY <2>1 DEF IsOpen
    <3>2. s.user.name = name /\ LineIs(st.db, s.user) /\ KnownIn(st.db, name)
      BY <1>1, <3>1, SavedKnown DEF Saved
    <3> HIDE DEF user, db
    <3> QED BY <1>1, <3>1, <3>2
  <2>2. CASE ~IsOpen(st, name)
    <3>1. user = loaded.user /\ db = loaded.db
      BY <2>2
    <3>2. /\ loaded.user.name = name
          /\ KnownIn(st.db, name) => loaded.db = st.db /\ LineIs(st.db, loaded.user)
          /\ ~KnownIn(st.db, name) =>
                /\ loaded.db = Append(st.db, [name |-> name, followers |-> {}])
                /\ loaded.user = [name |-> name, id |-> Len(st.db) + 1, followers |-> {}]
      <4> HIDE DEF name
      <4> QED BY <1>1, LoadUserFinds
    <3> HIDE DEF user, db, loaded, name
    <3>3. CASE KnownIn(st.db, name)
      BY <1>1, <3>1, <3>2, <3>3
    <3>4. CASE ~KnownIn(st.db, name)
      <4> DEFINE longer == Append(st.db, [name |-> name, followers |-> {}])
                 last == [name |-> name, id |-> Len(st.db) + 1, followers |-> {}]
      <4>1. db = longer /\ user = last /\ last.name = name
        BY <3>1, <3>2, <3>4
      <4>2. /\ Unique(longer) /\ LineIs(longer, last)
            /\ \A n : KnownIn(longer, n) <=> (KnownIn(st.db, n) \/ n = name)
            /\ \A n : FollowersIn(longer, n) = FollowersIn(st.db, n)
            /\ \A u : LineIs(st.db, u) => LineIs(longer, u)
        BY <1>1, <3>4, NewLineKeeps
      <4> HIDE DEF longer, last
      <4> QED BY <4>1, <4>2
    <3> QED BY <3>3, <3>4
  <2> QED BY <2>1, <2>2
<1> HIDE DEF rec, user, db, new
<1>5. Saved(new)
  <2> SUFFICES ASSUME NEW n \in Names, new.sessions[n].count > 0
               PROVE  new.sessions[n].user.name = n /\ LineIs(new.db, new.sessions[n].user)
    BY <1>2, <1>4 DEF Saved
  <2>1. CASE n = name
    BY <1>2, <1>3, <1>4, <2>1
  <2>2. CASE n # name
    <3>1. new.sessions[n] = st.sessions[n]
      BY <1>2, <2>2
    <3>2. st.sessions[n].user.name = n /\ LineIs(st.db, st.sessions[n].user)
      BY <3>1 DEF Saved
    <3> QED BY <1>2, <1>4, <3>1, <3>2
  <2> QED BY <2>1, <2>2
<1>6. /\ \A n : KnownIn(new.db, n) <=> (KnownIn(st.db, n) \/ n = name)
      /\ \A n : FollowersIn(new.db, n) = FollowersIn(st.db, n)
  BY <1>2, <1>4
<1> QED BY <1>5, <1>6 DEF new

LEMMA CloseSessionSaved ==
    ASSUME NEW st, Good(st), Saved(st), NEW sock \in Threads,
           sock \in st.sessions[UserOf[sock]].socks
    PROVE  LET new == CloseSession(st, UserOf[sock], sock)
           IN  Saved(new) /\ FileSame(st, new)
<1> DEFINE name == UserOf[sock]
           new == CloseSession(st, name, sock)
           s == st.sessions[name]
           rec == IF s.count = 1 THEN NoSession
                  ELSE [s EXCEPT !.count = @ - 1, !.socks = @ \ {sock}]
<1>1. /\ name \in Names /\ st.sessions \in [Names -> Records]
      /\ st = [db |-> st.db, sessions |-> st.sessions, boxes |-> st.boxes,
               mail |-> st.mail, down |-> st.down]
  BY ServerAssumption, StateFields DEF Good
<1>2. IsOpen(st, name)
  BY OpenIs
<1>3. new = [st EXCEPT !.sessions[name] = rec]
  BY <1>2 DEF CloseSession
<1>4. rec.count > 0 => rec.user = s.user
  <2>1. CASE s.count = 1
    BY <2>1 DEF NoSession
  <2>2. CASE s.count # 1
    <3>1. s \in Records
      BY <1>1
    <3>2. rec = [count |-> s.count - 1, socks |-> s.socks \ {sock}, user |-> s.user]
      BY <2>2, <3>1 DEF Records
    <3> HIDE DEF rec
    <3> QED BY <3>2
  <2> QED BY <2>1, <2>2
<1> HIDE DEF rec, new
<1>5. new.db = st.db /\ new.sessions = [st.sessions EXCEPT ![name] = rec]
  <2>1. new = [db |-> st.db, sessions |-> [st.sessions EXCEPT ![name] = rec],
               boxes |-> st.boxes, mail |-> st.mail, down |-> st.down]
    BY <1>1, <1>3
  <2> QED BY <2>1
<1>6. \A n \in Names : new.sessions[n] = IF n = name THEN rec ELSE st.sessions[n]
  <2> HIDE DEF name
  <2> QED BY <1>1, <1>5
<1>7. Saved(new)
  <2> SUFFICES ASSUME NEW n \in Names, new.sessions[n].count > 0
               PROVE  new.sessions[n].user.name = n /\ LineIs(st.db, new.sessions[n].user)
    BY <1>5 DEF Saved
  <2>1. new.sessions[n].user = st.sessions[n].user /\ st.sessions[n].count > 0
    BY <1>2, <1>4, <1>6 DEF IsOpen
  <2> QED BY <2>1 DEF Saved
<1>8. FileSame(st, new)
  BY <1>5 DEF FileSame
<1> QED BY <1>7, <1>8 DEF new

\* A follower of a user that the file knows is added to it.
LEMMA FollowSaved ==
    ASSUME NamesApart, NEW st, Good(st), Saved(st), NEW followee \in Names,
           NEW follower \in Names
    PROVE  LET new == Follow(st, followee, follower)
           IN  /\ Saved(new)
               /\ \A n : KnownIn(new.db, n) <=> KnownIn(st.db, n)
               /\ \A n : FollowersIn(new.db, n) =
                            IF n = followee /\ KnownIn(st.db, followee)
                            THEN FollowersIn(st.db, n) \cup {follower}
                            ELSE FollowersIn(st.db, n)
<1> DEFINE new == Follow(st, followee, follower)
           s == st.sessions[followee]
           user == IF IsOpen(st, followee) THEN s.user
                   ELSE LoadUser(st.db, followee, FALSE).user
           more == AddFollower(user, follower)
           db == SaveUser(st.db, more)
<1>1. /\ st.db \in Seq(Lines) /\ st.sessions \in [Names -> Records] /\ Unique(st.db)
      /\ st = [db |-> st.db, sessions |-> st.sessions, boxes |-> st.boxes,
               mail |-> st.mail, down |-> st.down]
  BY StateFields DEF Good, Saved
<1>2. /\ user \in Users
      /\ user.name = followee <=> KnownIn(st.db, followee)
      /\ KnownIn(st.db, followee) =>
            LineIs(st.db, user) /\ user.followers = FollowersIn(st.db, followee)
  <2>1. CASE IsOpen(st, followee)
    <3>1. user = s.user /\ s \in Records /\ s.count > 0
      BY <1>1, <2>1 DEF IsOpen
    <3>2. s.user.name = followee /\ LineIs(st.db, s.user) /\ KnownIn(st.db, followee)
          /\ s.user.followers = FollowersIn(st.db, followee)
      BY <3>1, SavedKnown DEF Saved
    <3>3. s.user \in Users
      BY <3>1 DEF Records
    <3> HIDE DEF user
    <3> QED BY <3>1, <3>2, <3>3
  <2>2. CASE ~IsOpen(st, followee)
    <3>1. user = LoadUser(st.db, followee, FALSE).user
      BY <2>2
    <3> HIDE DEF user
    <3> QED BY <1>1, <3>1, LoadUserFinds, LoadUserTyped
  <2> QED BY <2>1, <2>2
<1>3. IsOpen(st, followee) => KnownIn(st.db, followee)
  BY SavedKnown DEF IsOpen
<1>4. CASE KnownIn(st.db, followee)
  <2>1. user.name = followee /\ LineIs(st.db, user) /\ user.followers = FollowersIn(st.db, followee)
    BY <1>2, <1>4
  <2> HIDE DEF user
  <2>2. /\ more \in Users /\ more.name = user.name /\ more.id = user.id
        /\ more.followers = user.followers \cup {follower}
    BY <1>2, AddFollowerTyped
  <2> HIDE DEF more
  <2>3. /\ Unique(db) /\ LineIs(db, more)
        /\ \A n : KnownIn(db, n) <=> KnownIn(st.db, n)
        /\ \A n : FollowersIn(db, n) =
                     IF n = followee THEN FollowersIn(st.db, n) \cup {follower}
                     ELSE FollowersIn(st.db, n)
        /\ \A u : LineIs(st.db, u) /\ u.name # followee => LineIs(db, u)
    BY <1>1, <1>2, <2>1, <2>2, SaveUserKeeps
  <2> DEFINE rec == [s EXCEPT !.user = more]
             others == IF IsOpen(st, followee) THEN [st.sessions EXCEPT ![followee] = rec]
                       ELSE st.sessions
  <2> HIDE DEF db
  <2>4. new.db = db /\ new.sessions = others
    <3>1. CASE IsOpen(st, followee)
      <4>1. new = [st EXCEPT !.sessions[followee].user = more, !.db = db]
        BY <3>1 DEF Follow, user, more, db
      <4> HIDE DEF new
      <4>2. new = [db |-> db, sessions |-> [st.sessions EXCEPT ![followee] = rec],
                   boxes |-> st.boxes, mail |-> st.mail, down |-> st.down]
        BY <1>1, <4>1
      <4> QED BY <3>1, <4>2
    <3>2. CASE ~IsOpen(st, followee)
      <4>1. LoadUser(st.db, followee, FALSE).user.name = followee
        BY <2>1, <3>2 DEF user
      <4>2. new = [st EXCEPT !.db = db]
        BY <3>2, <4>1 DEF Follow, user, more, db
      <4> HIDE DEF new
      <4>3. new = [db |-> db, sessions |-> st.sessions, boxes |-> st.boxes,
                   mail |-> st.mail, down |-> st.down]
        BY <1>1, <4>2
      <4> QED BY <3>2, <4>3
    <3> QED BY <3>1, <3>2
  <2> HIDE DEF new
  <2>5. s \in Records
    BY <1>1
  <2>6. rec.user = more
    BY <2>5 DEF Records
  <2> HIDE DEF rec
  <2>7. Saved(new)
    <3> SUFFICES ASSUME NEW n \in Names, others[n].count > 0
                 PROVE  others[n].user.name = n /\ LineIs(db, others[n].user)
      BY <2>3, <2>4 DEF Saved
    <3>1. CASE n # followee
      <4>1. others[n] = st.sessions[n]
        BY <1>1, <3>1
      <4>2. st.sessions[n].user.name = n /\ LineIs(st.db, st.sessions[n].user)
        BY <4>1 DEF Saved
      <4> HIDE DEF others
      <4> QED BY <2>3, <3>1, <4>1, <4>2
    <3>2. CASE n = followee /\ IsOpen(st, followee)
      <4>1. others[n] = rec
        BY <1>1, <3>2
      <4> HIDE DEF others
      <4> QED BY <2>1, <2>2, <2>3, <2>6, <3>2, <4>1
    <3>3. CASE n = followee /\ ~IsOpen(st, followee)
      <4>1. others[n] = st.sessions[n]
        BY <3>3
      <4> HIDE DEF others
      <4> QED BY <3>3, <4>1 DEF IsOpen
    <3> QED BY <3>1, <3>2, <3>3
  <2> HIDE DEF others
  <2>8. /\ \A n : KnownIn(new.db, n) <=> KnownIn(st.db, n)
        /\ \A n : FollowersIn(new.db, n) = IF n = followee /\ KnownIn(st.db, followee)
                                           THEN FollowersIn(st.db, n) \cup {follower}
                                           ELSE FollowersIn(st.db, n)
    BY <1>4, <2>3, <2>4
  <2> QED BY <2>7, <2>8 DEF new
<1>5. CASE ~KnownIn(st.db, followee)
  <2>1. ~IsOpen(st, followee) /\ user.name # followee
    BY <1>2, <1>3, <1>5
  <2>2. new = st
    BY <2>1 DEF Follow, user
  <2> HIDE DEF new
  <2>3. /\ Saved(new)
        /\ \A n : KnownIn(new.db, n) <=> KnownIn(st.db, n)
        /\ \A n : FollowersIn(new.db, n) = IF n = followee /\ KnownIn(st.db, followee)
                                           THEN FollowersIn(st.db, n) \cup {follower}
                                           ELSE FollowersIn(st.db, n)
    BY <1>5, <2>2
  <2> QED BY <2>3 DEF new
<1> QED BY <1>4, <1>5

-----------------------------------------------------------------------------
(* The followers *)

\* A thread that holds the map for a new follower, its FOLLOW being in the log.
Adds(t) == thr[t].pc \in {"logged", "follow"} /\ thr[t].cmd.type = "FOLLOW"

SavedOK == Saved(lead) /\ \A k \in 1..Len(ahead) : Saved(ahead[k])

\* The backup will know the users and the followers that the leader knows, and
\* the follower that a thread is about to add to a user whom the leader knows.
FollowersOK ==
    /\ \A n \in Names : KnownIn(lead.db, n) => KnownIn(Future.db, n)
    /\ \A n \in Names : FollowersIn(lead.db, n) \subseteq FollowersIn(Future.db, n)
    /\ \A t \in Threads : Adds(t) /\ KnownIn(lead.db, thr[t].cmd.user) =>
          UserOf[t] \in FollowersIn(Future.db, thr[t].cmd.user)

FileInv == SavedOK /\ FollowersOK

\* A thread is not about to add anyone, nor to send anything, that it was not.
Stays(q) ==
    /\ Adds(q)' => Adds(q) /\ thr'[q].cmd = thr[q].cmd
    /\ Sends(q)' => /\ Sends(q) /\ thr'[q].cmd = thr[q].cmd /\ thr'[q].asked = thr[q].asked
                    /\ (thr'[q].pc = "wait") <=> (thr[q].pc = "wait")

LEMMA StayingSteps ==
    ASSUME IInv, NEW t \in Threads,
           \/ QuietStep(t) /\ ~ReceiveMessage(t)
           \/ Create(t) \/ Close(t)
    PROVE  (\A q \in Threads : q # t => thr'[q] = thr[q]) /\ (\A q \in Threads : Stays(q))
<1>0. ThreadsOK /\ LeaderOK /\ UsedOK
  BY DEF IInv
<1>1. ASSUME \A q \in Threads : q # t => thr'[q] = thr[q], Stays(t)
      PROVE  \A q \in Threads : Stays(q)
  BY <1>1 DEF Stays, Adds, Sends
<1>2. ASSUME NEW l, Goes(t, l)
      PROVE  /\ thr'[t].pc = l /\ thr'[t].cmd = thr[t].cmd /\ thr'[t].asked = thr[t].asked
             /\ \A q \in Threads : q # t => thr'[q] = thr[q]
  BY <1>0, <1>2, AfterStep DEF Goes
<1>3. ASSUME NEW l, l \in {"creating", "closing", "close", "create", "deliver", "ready", "lost",
                           "mark"},
             Goes(t, l) \/ Ends(t, l)
      PROVE  (\A q \in Threads : q # t => thr'[q] = thr[q]) /\ Stays(t)
  <2>1. thr'[t].pc = l /\ \A q \in Threads : q # t => thr'[q] = thr[q]
    BY <1>0, <1>3, Afterwards
  <2> QED BY <1>3, <2>1 DEF Stays, Adds, Sends
<1>4. ASSUME NEW type, NEW user, NEW arg, Asks(t, type, user, arg), type # "MESSAGE"
      PROVE  (\A q \in Threads : q # t => thr'[q] = thr[q]) /\ Stays(t)
  <2>1. /\ thr'[t].pc = "wait" /\ thr'[t].cmd.type = type
        /\ \A q \in Threads : q # t => thr'[q] = thr[q]
    BY <1>0, <1>4, Afterwards
  <2> QED BY <1>4, <2>1 DEF Stays, Adds, Sends
<1> SUFFICES (\A q \in Threads : q # t => thr'[q] = thr[q]) /\ Stays(t)
  BY <1>1
<1>5. CASE ReturnTrue(t)
  <2>0. thr[t].pc = "logged"
    BY <1>5 DEF ReturnTrue, At
  <2>1. CASE Goes(t, "create") \/ Goes(t, "close") \/ Goes(t, "mark")
    BY <1>3, <2>1
  <2>2. CASE thr[t].cmd.type = "FOLLOW" /\ Goes(t, "follow")
    BY <1>2, <2>0, <2>2 DEF Stays, Adds, Sends
  <2>3. CASE thr[t].cmd.type = "MESSAGE" /\ Goes(t, "ensure")
    BY <1>2, <2>0, <2>3 DEF Stays, Adds, Sends
  <2> QED BY <1>0, <1>5, <2>1, <2>2, <2>3, ReturnTrueStep
<1>6. CASE ReturnFalse(t)
  BY <1>0, <1>3, <1>6, ReturnFalseStep
<1>7. CASE TakeMap(t)
  BY <1>0, <1>3, <1>7, TakeMapStep
<1>8. CASE Deliver(t) \/ Mark(t)
  BY <1>0, <1>3, <1>4, <1>8, DeliverStep, MarkStep
<1>9. CASE ReceiveNothing(t) \/ ReceiveClose(t)
  BY <1>0, <1>3, <1>4, <1>9, ReceiveNothingStep, ReceiveCloseStep
<1>10. ASSUME NEW n \in Names, ReceiveFollow(t, n)
       PROVE  (\A q \in Threads : q # t => thr'[q] = thr[q]) /\ Stays(t)
  BY <1>0, <1>4, <1>10, ReceiveFollowStep
<1>11. CASE AddFollowerOf(t) \/ SendToFollowers(t)
  BY <1>0, <1>3, <1>11, AddFollowerStep, SendStep
<1>12. CASE Ensure(t)
  <2>1. Goes(t, "enqueue") /\ thr[t].pc = "ensure"
    BY <1>0, <1>12, EnsureStep DEF Ensure, At
  <2> QED BY <1>2, <2>1 DEF Stays, Adds, Sends
<1>13. CASE Create(t)
  <2>1. CASE Becomes(t, "deliver", NoCommand, TRUE, {})
    <3>1. thr'[t].pc = "deliver" /\ \A q \in Threads : q # t => thr'[q] = thr[q]
      BY <1>0, <2>1, AfterStep
    <3> QED BY <3>1 DEF Stays, Adds, Sends
  <2> QED BY <1>0, <1>4, <1>13, <2>1, CreateStep
<1>14. CASE Close(t)
  <2>1. thr'[t].pc = "end" /\ \A q \in Threads : q # t => thr'[q] = thr[q]
    BY <1>0, <1>14, CloseStep, AfterStep
  <2> QED BY <2>1 DEF Stays, Adds, Sends
<1> QED
  BY <1>5, <1>6, <1>7, <1>8, <1>9, <1>10, <1>11, <1>12, <1>13, <1>14 DEF QuietStep

\* What a command does to the file.
LEMMA CommitFile ==
    ASSUME NamesApart, NEW st, Good(st), Saved(st), NEW c, WellFormed(c), Fits(st, c)
    PROVE  LET new == Commit(st, c)
           IN  /\ Saved(new)
               /\ \A n : KnownIn(new.db, n) <=>
                            (KnownIn(st.db, n) \/ (c.type = "LOGIN" /\ n = c.user))
               /\ \A n : FollowersIn(new.db, n) =
                            IF c.type = "FOLLOW" /\ n = c.user /\ KnownIn(st.db, n)
                            THEN FollowersIn(st.db, n) \cup {c.arg} ELSE FollowersIn(st.db, n)
<1>1. c.type \in CommandTypes /\ c.user \in Names
  BY DEF WellFormed, AnyCommand
<1> DEFINE new == Commit(st, c)
<1>2. CASE c.type = "LOGIN"
  <2>1. new = CreateSession(st, UserOf[c.arg], c.arg) /\ c.user = UserOf[c.arg]
        /\ c.arg \in Threads
    BY <1>2 DEF Commit, WellFormed
  <2> HIDE DEF new
  <2>2. /\ Saved(new)
        /\ \A n : KnownIn(new.db, n) <=> (KnownIn(st.db, n) \/ n = c.user)
        /\ \A n : FollowersIn(new.db, n) = FollowersIn(st.db, n)
    BY <2>1, CreateSessionSaved
  <2> QED BY <1>2, <2>2 DEF new
<1>3. CASE c.type = "FOLLOW"
  <2>1. new = Follow(st, c.user, c.arg) /\ c.arg \in Names
    BY <1>3 DEF Commit, WellFormed
  <2> HIDE DEF new
  <2>2. /\ Saved(new)
        /\ \A n : KnownIn(new.db, n) <=> KnownIn(st.db, n)
        /\ \A n : FollowersIn(new.db, n) = IF n = c.user /\ KnownIn(st.db, c.user)
                                           THEN FollowersIn(st.db, n) \cup {c.arg}
                                           ELSE FollowersIn(st.db, n)
    BY <1>1, <2>1, FollowSaved
  <2> QED BY <1>3, <2>2 DEF new
<1>4. CASE c.type \notin {"LOGIN", "FOLLOW"}
  <2>1. Saved(new) /\ FileSame(st, new)
    <3>1. CASE c.type = "CLOSE"
      <4>1. new = CloseSession(st, UserOf[c.arg], c.arg) /\ c.user = UserOf[c.arg]
            /\ c.arg \in Threads
        BY <3>1 DEF Commit, WellFormed
      <4> QED BY <3>1, <4>1, CloseSessionSaved DEF Fits
    <3>2. CASE c.type = "DELIVERED"
      <4>1. new = MarkDelivered(st, c.user, c.arg)
        BY <3>2 DEF Commit
      <4> QED BY <1>1, <4>1, MarkDeliveredGood, SavedSame
    <3>3. CASE c.type = "MESSAGE"
      <4>1. new = (IF IsOpen(st, c.user) THEN SendMessage(st, c.user, c.arg) ELSE st)
            /\ c.arg \in 1..MaxMessages
        BY <3>3 DEF Commit, WellFormed
      <4>2. new.db = st.db /\ new.sessions = st.sessions
        BY <1>1, <4>1, SendMessageGood
      <4> QED BY <4>2, SavedSame
    <3> QED BY <1>1, <1>4, <3>1, <3>2, <3>3 DEF CommandTypes
  <2> HIDE DEF new
  <2> QED BY <1>4, <2>1 DEF FileSame, new
<1> QED BY <1>2, <1>3, <1>4

\* The leader's file changes only where a session is created or a follower added.
LEMMA LeaderFile ==
    ASSUME NamesApart, IInv, SavedOK, NEW t \in Threads,
           QuietStep(t) \/ Create(t) \/ Close(t)
    PROVE  /\ Saved(lead')
           /\ \A n : KnownIn(lead'.db, n) <=>
                        (KnownIn(lead.db, n) \/ (Create(t) /\ n = UserOf[t]))
           /\ \A n : FollowersIn(lead'.db, n) =
                        IF AddFollowerOf(t) /\ n = thr[t].cmd.user /\ KnownIn(lead.db, n)
                        THEN FollowersIn(lead.db, n) \cup {UserOf[t]}
                        ELSE FollowersIn(lead.db, n)
<1>0. /\ ThreadsOK /\ LeaderOK /\ Good(lead) /\ Saved(lead)
      /\ UserOf[t] \in Names /\ ThreadOK(t)
  BY ThreadIs DEF IInv, LeaderOK, SavedOK
<1>1. CASE Create(t)
  <2>1. lead' = CreateSession(lead, UserOf[t], t) /\ ~AddFollowerOf(t)
    BY <1>1 DEF Create, AddFollowerOf, At
  <2>2. /\ Saved(lead')
        /\ \A n : KnownIn(lead'.db, n) <=> (KnownIn(lead.db, n) \/ n = UserOf[t])
        /\ \A n : FollowersIn(lead'.db, n) = FollowersIn(lead.db, n)
    BY <1>0, <2>1, CreateSessionSaved
  <2> QED BY <1>1, <2>1, <2>2
<1>2. CASE AddFollowerOf(t)
  <2>1. lead' = Follow(lead, thr[t].cmd.user, UserOf[t]) /\ ~Create(t)
        /\ thr[t].cmd.user \in Names
    BY <1>0, <1>2 DEF AddFollowerOf, Create, At, ThreadOK, IssuedBy, WellFormed, AnyCommand
  <2> DEFINE followee == thr[t].cmd.user
  <2>2. /\ Saved(lead')
        /\ \A n : KnownIn(lead'.db, n) <=> KnownIn(lead.db, n)
        /\ \A n : FollowersIn(lead'.db, n) = IF n = followee /\ KnownIn(lead.db, followee)
                                             THEN FollowersIn(lead.db, n) \cup {UserOf[t]}
                                             ELSE FollowersIn(lead.db, n)
    <3>1. lead' = Follow(lead, followee, UserOf[t]) /\ followee \in Names
      BY <2>1
    <3> HIDE DEF followee
    <3> QED BY <1>0, <3>1, FollowSaved
  <2> QED BY <1>2, <2>1, <2>2
<1>3. CASE ~Create(t) /\ ~AddFollowerOf(t)
  <2>1. Saved(lead') /\ FileSame(lead, lead')
    <3>1. CASE Close(t)
      <4>1. lead' = CloseSession(lead, UserOf[t], t) /\ Attached(t)
        BY <3>1 DEF Close, At, Attached
      <4>2. t \in lead.sessions[UserOf[t]].socks
        BY <1>0, <4>1 DEF LeaderOK
      <4> QED BY <1>0, <4>1, <4>2, CloseSessionSaved
    <3>2. CASE Deliver(t)
      <4>1. lead' = GetPacket(lead, UserOf[t])
        BY <3>2 DEF Deliver
      <4>2. lead'.db = lead.db /\ lead'.sessions = lead.sessions
        BY <1>0, <4>1, GetPacketGood
      <4> QED BY <1>0, <4>2, SavedSame
    <3>3. CASE Mark(t)
      <4> DEFINE mid == MarkDelivered(lead, UserOf[t], thr[t].cmd.arg)
      <4>1. Good(mid) /\ mid.db = lead.db /\ mid.sessions = lead.sessions
        BY <1>0, MarkDeliveredGood
      <4>2. lead' = GetPacket(mid, UserOf[t])
        BY <3>3 DEF Mark
      <4> HIDE DEF mid
      <4>3. lead'.db = mid.db /\ lead'.sessions = mid.sessions
        BY <1>0, <4>1, <4>2, GetPacketGood
      <4> QED BY <1>0, <4>1, <4>3, SavedSame
    <3>4. CASE Ensure(t)
      <4>1. lead'.db = lead.db /\ lead'.sessions = lead.sessions
        BY <1>0, <3>4, EnsureBoxesGood DEF Ensure
      <4> QED BY <1>0, <4>1, SavedSame
    <3>5. CASE SendToFollowers(t)
      <4>1. thr[t].cmd.arg \in 1..MaxMessages
        BY <1>0, <3>5 DEF SendToFollowers, At, ThreadOK, IssuedBy, WellFormed
      <4>2. lead'.db = lead.db /\ lead'.sessions = lead.sessions
        BY <1>0, <3>5, <4>1, EnqueueGood DEF SendToFollowers
      <4> QED BY <1>0, <4>2, SavedSame
    <3>6. CASE lead' = lead
      BY <1>0, <3>6, SavedSame
    <3> QED
      BY <1>3, <3>1, <3>2, <3>3, <3>4, <3>5, <3>6
      DEF QuietStep, ReturnTrue, ReturnFalse, TakeMap, ReceiveNothing, ReceiveClose,
          ReceiveFollow, ReceiveMessage
  <2> QED BY <1>3, <2>1 DEF FileSame
<1> QED BY <1>1, <1>2, <1>3

LEMMA SavedKept ==
    ASSUME NamesApart, IInv, SavedOK, [Next]_vars
    PROVE  SavedOK'
<1>0. BackupOK /\ LeaderOK /\ Good(lead) /\ Saved(lead) /\ \A k \in 1..Len(ahead) : Saved(ahead[k])
  BY DEF IInv, LeaderOK, SavedOK
<1>1. ASSUME NEW t \in Threads, EnterLog(t) PROVE SavedOK'
  <2>1. Len(ahead) \in 1..Len(ahead)
    BY <1>0 DEF BackupOK
  <2>2. Saved(Future)
    BY <1>0, <2>1 DEF Future
  <2> DEFINE c == thr[t].cmd
  <2>3. WellFormed(c) /\ Fits(Future, c) /\ Good(Future) /\ Future' = Commit(Future, c)
    BY <1>1, AheadGrows
  <2>4. Saved(Future')
    <3> HIDE DEF c
    <3> QED BY <2>2, <2>3, CommitFile
  <2>5. \A k \in 1..Len(ahead') : Saved(ahead'[k])
    BY <1>0, <1>1, <2>4, AheadGrows
  <2> QED BY <1>0, <1>1, <2>5 DEF EnterLog, SavedOK
<1>2. ASSUME NEW t \in Threads, QuietStep(t) \/ Create(t) \/ Close(t) PROVE SavedOK'
  <2>1. ahead' = ahead
    BY <1>2 DEF QuietStep, ReturnTrue, ReturnFalse, TakeMap, Deliver, Mark, ReceiveNothing,
                ReceiveClose, ReceiveFollow, AddFollowerOf, ReceiveMessage, Ensure,
                SendToFollowers, Create, Close
  <2>2. Saved(lead')
    BY <1>2, LeaderFile
  <2> QED BY <1>0, <2>1, <2>2 DEF SavedOK
<1>3. CASE Apply
  <2>1. \A k \in 1..Len(ahead') : \E j \in 1..Len(ahead) : ahead'[k] = ahead[j]
    BY <1>3, CalmApply DEF Calm
  <2> QED BY <1>0, <1>3, <2>1 DEF Apply, SavedOK
<1>4. CASE TakeOver
  <2>1. Saved(back)
    BY <1>0, <1>4, TwoServers
  <2>2. Saved(lead') /\ Saved(ahead'[1]) /\ Len(ahead') = 1
    BY <1>0, <1>4, <2>1, TwoServers DEF Saved
  <2> QED BY <2>2 DEF SavedOK
<1>5. CASE Crash
  <2>1. lead'.db = lead.db /\ lead'.sessions = lead.sessions
    <3>1. lead = [db |-> lead.db, sessions |-> lead.sessions, boxes |-> lead.boxes,
                  mail |-> lead.mail, down |-> lead.down]
      BY <1>0, StateFields DEF Good
    <3>2. lead' = [lead EXCEPT !.down = TRUE]
      BY <1>5 DEF Crash
    <3> QED BY <3>1, <3>2
  <2>2. Saved(lead')
    BY <1>0, <2>1, SavedSame
  <2> QED BY <1>0, <1>5, <2>2 DEF Crash, SavedOK
<1>6. CASE UNCHANGED vars
  BY <1>0, <1>6 DEF vars, SavedOK
<1> QED BY <1>1, <1>2, <1>3, <1>4, <1>5, <1>6, StepsAre

LEMMA FutureSaved ==
    ASSUME IInv, SavedOK
    PROVE  Saved(Future) /\ Good(Future)
<1>1. Len(ahead) \in 1..Len(ahead) /\ BackupOK
  BY DEF IInv, BackupOK
<1> QED BY <1>1, FutureIs DEF SavedOK, Future

\* The future of the backup and its file only grow, in the order of the log.
LEMMA FollowersKept ==
    ASSUME NamesApart, IInv, FileInv, [Next]_vars
    PROVE  FollowersOK'
<1>0. /\ ThreadsOK /\ LocksOK /\ LeaderOK /\ BackupOK /\ FutureOK
      /\ SavedOK /\ FollowersOK /\ Good(lead) /\ Saved(lead) /\ Saved(Future) /\ Good(Future)
  BY FutureSaved DEF IInv, LeaderOK, FileInv, SavedOK
<1>1. ASSUME NEW t \in Threads, EnterLog(t) PROVE FollowersOK'
  <2> DEFINE c == thr[t].cmd
  <2>1. WellFormed(c) /\ IssuedBy(c, t) /\ Fits(Future, c) /\ Future' = Commit(Future, c)
    BY <1>1, AheadGrows
  <2>2. /\ lead' = lead /\ thr'[t].pc = "logged" /\ thr'[t].cmd = c
        /\ \A q \in Threads : q # t => thr'[q] = thr[q]
    BY <1>0, <1>1, EnterLogStep, Afterwards DEF EnterLog
  <2>3. /\ c.type = "FOLLOW" => c.arg = UserOf[t] /\ c.arg \in Names
        /\ c.user \in Names
    BY <2>1 DEF IssuedBy, WellFormed, AnyCommand
  <2> HIDE DEF c
  <2>4. /\ \A n : KnownIn(Future.db, n) => KnownIn(Future'.db, n)
        /\ \A n : FollowersIn(Future.db, n) \subseteq FollowersIn(Future'.db, n)
        /\ c.type = "FOLLOW" /\ KnownIn(Future.db, c.user) =>
              c.arg \in FollowersIn(Future'.db, c.user)
    <3> DEFINE new == Commit(Future, c)
    <3>1. /\ \A n : KnownIn(new.db, n) <=>
                    (KnownIn(Future.db, n) \/ (c.type = "LOGIN" /\ n = c.user))
          /\ \A n : FollowersIn(new.db, n) =
                    IF c.type = "FOLLOW" /\ n = c.user /\ KnownIn(Future.db, n)
                    THEN FollowersIn(Future.db, n) \cup {c.arg} ELSE FollowersIn(Future.db, n)
      BY <1>0, <2>1, CommitFile
    <3>2. Future' = new
      BY <2>1
    <3> HIDE DEF new
    <3> QED BY <3>1, <3>2
  <2>5. ASSUME NEW q \in Threads, Adds(q)', KnownIn(lead.db, thr'[q].cmd.user)
        PROVE  UserOf[q] \in FollowersIn(Future'.db, thr'[q].cmd.user)
    <3>1. CASE q = t
      BY <1>0, <2>2, <2>3, <2>4, <2>5, <3>1 DEF Adds, FollowersOK
    <3>2. CASE q # t
      BY <1>0, <2>2, <2>4, <2>5, <3>2 DEF Adds, FollowersOK
    <3> QED BY <3>1, <3>2
  <2>6. /\ \A n \in Names : KnownIn(lead'.db, n) => KnownIn(Future'.db, n)
        /\ \A n \in Names : FollowersIn(lead'.db, n) \subseteq FollowersIn(Future'.db, n)
    BY <1>0, <2>2, <2>4 DEF FollowersOK
  <2>7. \A q \in Threads : Adds(q)' /\ KnownIn(lead'.db, thr'[q].cmd.user) =>
           UserOf[q] \in FollowersIn(Future'.db, thr'[q].cmd.user)
    BY <2>2, <2>5
  <2> QED BY <2>6, <2>7 DEF FollowersOK
<1>2. ASSUME NEW t \in Threads, QuietStep(t) \/ Create(t) \/ Close(t) PROVE FollowersOK'
  <2>1. ahead' = ahead
    BY <1>2 DEF QuietStep, ReturnTrue, ReturnFalse, TakeMap, Deliver, Mark, ReceiveNothing,
                ReceiveClose, ReceiveFollow, AddFollowerOf, ReceiveMessage, Ensure,
                SendToFollowers, Create, Close
  <2>2. Future' = Future
    BY <2>1 DEF Future
  <2>3. /\ \A n : KnownIn(lead'.db, n) <=> (KnownIn(lead.db, n) \/ (Create(t) /\ n = UserOf[t]))
        /\ \A n : FollowersIn(lead'.db, n) =
                     IF AddFollowerOf(t) /\ n = thr[t].cmd.user /\ KnownIn(lead.db, n)
                     THEN FollowersIn(lead.db, n) \cup {UserOf[t]}
                     ELSE FollowersIn(lead.db, n)
    BY <1>0, <1>2, LeaderFile
  <2>4. ASSUME NEW q \in Threads, Adds(q)' PROVE Adds(q) /\ thr'[q].cmd = thr[q].cmd
    <3>1. CASE ReceiveMessage(t)
      <4>1. /\ thr'[t].pc = "wait" /\ \A p \in Threads : p # t => thr'[p] = thr[p]
        <5>1. UsedOK
          BY DEF IInv
        <5> QED BY <1>0, <3>1, <5>1, ReceiveMessageStep, AfterStep
      <4> QED BY <2>4, <4>1 DEF Adds
    <3>2. CASE ~ReceiveMessage(t)
      <4>1. Stays(q)
        BY <1>2, <3>2, StayingSteps
      <4> QED BY <2>4, <4>1 DEF Stays
    <3> QED BY <3>1, <3>2
  <2>5. Create(t) => KnownIn(Future.db, UserOf[t])
    <3> SUFFICES ASSUME Create(t) PROVE KnownIn(Future.db, UserOf[t])
      OBVIOUS
    <3>1. Known(t) /\ UserOf[t] \in Names
      BY ServerAssumption DEF Create, At, Known
    <3>2. t \in Future.sessions[UserOf[t]].socks
      BY <1>0, <3>1 DEF FutureOK
    <3>3. Future.sessions[UserOf[t]].count > 0
      BY <1>0, <3>2, OpenIs
    <3> QED BY <1>0, <3>1, <3>3, SavedKnown
  <2>6. ASSUME NEW q \in Threads, Adds(q), Create(t) PROVE FALSE
    <3>1. HoldsMap(q) /\ HoldsMap(t)
      BY <2>6 DEF Adds, Create, At, HoldsMap
    <3>2. q = t
      BY <1>0, <3>1 DEF LocksOK, MapLockOK
    <3> QED BY <2>6, <3>2 DEF Adds, Create, At
  <2>7. AddFollowerOf(t) => Adds(t)
    BY <1>0, ThreadIs DEF AddFollowerOf, At, Adds, ThreadOK
  <2>8. \A n \in Names : KnownIn(lead'.db, n) => KnownIn(Future.db, n)
    BY <1>0, <2>3, <2>5 DEF FollowersOK
  <2>9. ASSUME NEW n \in Names PROVE FollowersIn(lead'.db, n) \subseteq FollowersIn(Future.db, n)
    <3>1. FollowersIn(lead.db, n) \subseteq FollowersIn(Future.db, n)
      BY <1>0 DEF FollowersOK
    <3>2. AddFollowerOf(t) /\ n = thr[t].cmd.user /\ KnownIn(lead.db, n) =>
             UserOf[t] \in FollowersIn(Future.db, n)
      BY <1>0, <2>7 DEF FollowersOK
    <3> QED BY <2>3, <3>1, <3>2
  <2>10. ASSUME NEW q \in Threads, Adds(q)', KnownIn(lead'.db, thr'[q].cmd.user)
         PROVE  UserOf[q] \in FollowersIn(Future.db, thr'[q].cmd.user)
    <3>1. Adds(q) /\ thr'[q].cmd = thr[q].cmd
      BY <2>4, <2>10
    <3>2. KnownIn(lead.db, thr[q].cmd.user)
      BY <2>3, <2>6, <2>10, <3>1
    <3> QED BY <1>0, <3>1, <3>2 DEF FollowersOK
  <2>11. /\ \A n \in Names : KnownIn(lead'.db, n) => KnownIn(Future'.db, n)
         /\ \A n \in Names : FollowersIn(lead'.db, n) \subseteq FollowersIn(Future'.db, n)
    BY <2>2, <2>8, <2>9
  <2>12. \A q \in Threads : Adds(q)' /\ KnownIn(lead'.db, thr'[q].cmd.user) =>
           UserOf[q] \in FollowersIn(Future'.db, thr'[q].cmd.user)
    BY <2>2, <2>10
  <2> QED BY <2>11, <2>12 DEF FollowersOK
<1>3. CASE Apply \/ Crash \/ UNCHANGED vars
  <2>1. Future' = Future /\ UNCHANGED thr
    BY <1>0, <1>3, LogShrinks DEF Apply, Crash, vars, Future
  <2>2. lead'.db = lead.db
    <3>1. lead = [db |-> lead.db, sessions |-> lead.sessions, boxes |-> lead.boxes,
                  mail |-> lead.mail, down |-> lead.down]
      BY <1>0, StateFields DEF Good
    <3>2. lead' = [lead EXCEPT !.down = TRUE] \/ lead' = lead
      BY <1>3 DEF Apply, Crash, vars
    <3> QED BY <3>1, <3>2
  <2>3. /\ \A n \in Names : KnownIn(lead'.db, n) => KnownIn(Future'.db, n)
        /\ \A n \in Names : FollowersIn(lead'.db, n) \subseteq FollowersIn(Future'.db, n)
    BY <1>0, <2>1, <2>2 DEF FollowersOK
  <2>4. \A q \in Threads : Adds(q)' /\ KnownIn(lead'.db, thr'[q].cmd.user) =>
           UserOf[q] \in FollowersIn(Future'.db, thr'[q].cmd.user)
    BY <1>0, <2>1, <2>2 DEF FollowersOK, Adds
  <2> QED BY <2>3, <2>4 DEF FollowersOK
<1>4. CASE TakeOver
  <2>1. lead'.db = Future'.db
    BY <1>0, <1>4, TwoServers
  <2>2. \A q \in Threads : ~Adds(q)'
    <3>1. \A q \in Threads : thr'[q] = Arrived(q) \/ thr'[q] = Gone
      BY <1>4 DEF TakeOver
    <3>2. ASSUME NEW q \in Threads PROVE Arrived(q).pc = "wait" /\ Gone.pc = "end"
      BY DEF Arrived, Gone
    <3> QED BY <3>1, <3>2 DEF Adds
  <2>3. /\ \A n \in Names : KnownIn(lead'.db, n) => KnownIn(Future'.db, n)
        /\ \A n \in Names : FollowersIn(lead'.db, n) \subseteq FollowersIn(Future'.db, n)
    BY <2>1
  <2> QED BY <2>2, <2>3 DEF FollowersOK
<1> QED BY <1>1, <1>2, <1>3, <1>4, StepsAre

LEMMA FileBegins == Init => FileInv
<1> SUFFICES ASSUME Init PROVE FileInv
  OBVIOUS
<1>1. lead = NewServer /\ ahead = <<NewServer>>
  BY DEF Init
<1>2. NewServer.db = <<>> /\ \A n \in Names : NewServer.sessions[n].count = 0
  BY DEF NewServer, NoSession
<1>3. \A q \in Threads : ~Adds(q)
  BY DEF Init, Arrived, Adds
<1> HIDE DEF NewServer
<1>4. Len(ahead) = 1 /\ ahead[1] = NewServer /\ Future = NewServer
  BY <1>1 DEF Future
<1>5. Unique(NewServer.db)
  <2>1. DOMAIN NewServer.db = {}
    BY <1>2
  <2> QED BY <2>1 DEF Unique
<1>6. Saved(NewServer)
  <2>1. ~(0 > 0)
    OBVIOUS
  <2> QED BY <1>2, <1>5, <2>1 DEF Saved
<1>7. SavedOK
  BY <1>1, <1>4, <1>6 DEF SavedOK
<1>8. FollowersOK
  BY <1>1, <1>3, <1>4 DEF FollowersOK
<1> QED BY <1>7, <1>8 DEF FileInv

\* What the leader has written to its file about the followers of a user, the
\* backup will have written too, as long as no name ends in another.
THEOREM FollowersRemembered ==
    ASSUME NamesApart
    PROVE  Spec => []BackupForgetsNoFollower
<1>1. IInv /\ FileInv /\ [Next]_vars => FileInv'
  BY SavedKept, FollowersKept DEF FileInv
<1>2. IInv /\ FileInv => BackupForgetsNoFollower
  <2> SUFFICES ASSUME IInv, FileInv, NEW n \in Names
               PROVE  LoadUser(lead.db, n, FALSE).user.followers
                          \subseteq LoadUser(Future.db, n, FALSE).user.followers
    BY DEF BackupForgetsNoFollower
  <2>1. /\ lead.db \in Seq(Lines) /\ Unique(lead.db)
        /\ Future.db \in Seq(Lines) /\ Unique(Future.db)
    BY FutureSaved, StateFields DEF IInv, LeaderOK, Good, FileInv, SavedOK, Saved
  <2>2. /\ LoadUser(lead.db, n, FALSE).user.followers = FollowersIn(lead.db, n)
        /\ LoadUser(Future.db, n, FALSE).user.followers = FollowersIn(Future.db, n)
    BY <2>1, LoadUserFinds
  <2> QED BY <2>2 DEF FileInv, FollowersOK
<1> QED BY <1>1, <1>2, FileBegins, ServerInvariant, PTL DEF Spec

-----------------------------------------------------------------------------
(* The messages *)

\* No message waits twice in a buffer.
Distinct(st) ==
    \A n \in Names : \A j, k \in DOMAIN st.mail[n] :
        st.mail[n][j].id = st.mail[n][k].id => j = k

\* A buffer has room for a message that it does not hold, when it is as large as
\* there are messages.
LEMMA RoomLeft ==
    ASSUME MaxMessages <= BoxSize, NEW st, Good(st), Distinct(st), NEW n \in Names,
           NEW id \in 1..MaxMessages, id \notin MailIds(st, n)
    PROVE  Len(st.mail[n]) < BoxSize
<1> DEFINE q == st.mail[n]
           S == 1..Len(q)
           T == (1..MaxMessages) \ {id}
           f == [k \in S |-> q[k].id]
<1>1. Len(q) \in Nat /\ DOMAIN q = S /\ MaxMessages \in Nat /\ BoxSize \in Nat
  BY MailTyped, ServerAssumption
<1>2. f \in [S -> T]
  <2> SUFFICES ASSUME NEW k \in S PROVE q[k].id \in T
    OBVIOUS
  <2>1. q[k].id \in MailIds(st, n)
    BY <1>1, MailIs
  <2>2. MailIds(st, n) \subseteq 1..MaxMessages
    BY MailTyped
  <2> QED BY <2>1, <2>2
<1>3. \A j, k \in S : f[j] = f[k] => j = k
  BY <1>1 DEF Distinct
<1>4. IsFiniteSet(S) /\ Cardinality(S) = Len(q)
  <2> DEFINE len == Len(q)
  <2>1. len \in Nat
    BY <1>1
  <2> HIDE DEF len
  <2>2. IsFiniteSet(1..len) /\ Cardinality(1..len) = len
    BY <2>1, FS_Interval
  <2> QED BY <2>2 DEF len
<1>5. IsFiniteSet(T) /\ Cardinality(T) = MaxMessages - 1
  <2>1. IsFiniteSet(1..MaxMessages) /\ Cardinality(1..MaxMessages) = MaxMessages
    BY <1>1, FS_Interval
  <2> QED BY <2>1, FS_RemoveElement
<1> HIDE DEF f, S, T
<1>6. ~(Cardinality(T) < Cardinality(S))
  BY <1>2, <1>3, <1>4, <1>5, FS_PigeonHole
<1> QED BY <1>1, <1>4, <1>5, <1>6

LEMMA DistinctOne ==
    ASSUME NEW st, Distinct(st), NEW new, NEW to,
           \A n \in Names : n # to => new.mail[n] = st.mail[n],
           \A j, k \in DOMAIN new.mail[to] : new.mail[to][j].id = new.mail[to][k].id => j = k
    PROVE  Distinct(new)
BY DEF Distinct

LEMMA DistinctSame ==
    ASSUME NEW st, Distinct(st), NEW new, new.mail = st.mail
    PROVE  Distinct(new)
BY DEF Distinct

LEMMA MarkDistinct ==
    ASSUME NEW st, Good(st), Distinct(st), NEW to \in Names, NEW id
    PROVE  Distinct(MarkDelivered(st, to, id))
<1> DEFINE new == MarkDelivered(st, to, id)
<1>1. \A n \in Names : DOMAIN new.mail[n] = DOMAIN st.mail[n]
  BY MarkMail
<1>2. \A n \in Names : \A k \in DOMAIN st.mail[n] : new.mail[n][k].id = st.mail[n][k].id
  BY MarkMail
<1> HIDE DEF new
<1>3. Distinct(new)
  BY <1>1, <1>2 DEF Distinct
<1> QED BY <1>3 DEF new

LEMMA GetDistinct ==
    ASSUME NEW st, Good(st), Distinct(st), NEW to \in Names
    PROVE  Distinct(GetPacket(st, to))
<1> DEFINE new == GetPacket(st, to)
           q == st.mail[to]
           r == new.mail[to]
<1> HIDE DEF q, r
<1>1. /\ \A n \in Names : n # to => new.mail[n] = st.mail[n]
      /\ q \in Seq(Packets) /\ r \in Seq(Packets) /\ Dropped(q, r)
  BY GetPacketGood DEF q, r
<1> HIDE DEF new
<1>2. PICK d \in 0..Len(q) : Len(r) = Len(q) - d /\ \A k \in 1..Len(r) : r[k] = q[k + d]
  BY <1>1 DEF Dropped
<1>3. DOMAIN q = 1..Len(q) /\ DOMAIN r = 1..Len(r) /\ Len(q) \in Nat
  BY <1>1
<1>4. \A k \in DOMAIN r : k + d \in DOMAIN q /\ r[k] = q[k + d]
  BY <1>2, <1>3
<1>5. \A j, k \in DOMAIN q : q[j].id = q[k].id => j = k
  BY DEF Distinct, q
<1>6. ASSUME NEW j \in DOMAIN r, NEW k \in DOMAIN r, r[j].id = r[k].id PROVE j = k
  <2>1. j + d = k + d
    BY <1>4, <1>5, <1>6
  <2> QED BY <1>2, <1>3, <2>1
<1>7. Distinct(new)
  BY <1>1, <1>6, DistinctOne DEF r
<1> QED BY <1>7 DEF new

LEMMA EnqueueDistinct ==
    ASSUME NEW st, Good(st), Distinct(st), NEW creator \in Names, NEW id \in 1..MaxMessages,
           Without(st, id)
    PROVE  Distinct(Enqueue(st, creator, id))
<1> DEFINE new == Enqueue(st, creator, id)
<1>1. \A n \in Names : \/ new.mail[n] = st.mail[n]
                       \/ new.mail[n] = Append(st.mail[n], [id |-> id, delivered |-> FALSE])
  BY EnqueueMail
<1> HIDE DEF new
<1>2. ASSUME NEW n \in Names, new.mail[n] = Append(st.mail[n], [id |-> id, delivered |-> FALSE]),
             NEW j \in DOMAIN new.mail[n], NEW k \in DOMAIN new.mail[n],
             new.mail[n][j].id = new.mail[n][k].id
      PROVE  j = k
  <2> DEFINE q == st.mail[n]
             r == new.mail[n]
             m == [id |-> id, delivered |-> FALSE]
  <2>1. q \in Seq(Packets) /\ Len(q) \in Nat /\ DOMAIN q = 1..Len(q)
    BY MailTyped
  <2>2. m \in Packets /\ m.id = id
    BY DEF Packets
  <2>3. r = Append(q, m)
    BY <1>2
  <2>4. \A i \in DOMAIN q : q[i].id # id
    BY MailIs DEF Without
  <2>5. \A i, l \in DOMAIN q : q[i].id = q[l].id => i = l
    BY DEF Distinct
  <2>6. r[j].id = r[k].id /\ j \in DOMAIN r /\ k \in DOMAIN r
    BY <1>2
  <2> HIDE DEF q, r, m
  <2>7. \A i \in DOMAIN r : (i \in DOMAIN q /\ r[i] = q[i]) \/ (i = Len(q) + 1 /\ r[i] = m)
    BY <2>1, <2>2, <2>3
  <2> QED BY <2>2, <2>4, <2>5, <2>6, <2>7
<1>3. ASSUME NEW n \in Names, new.mail[n] = st.mail[n],
             NEW j \in DOMAIN new.mail[n], NEW k \in DOMAIN new.mail[n],
             new.mail[n][j].id = new.mail[n][k].id
      PROVE  j = k
  BY <1>3 DEF Distinct
<1>4. Distinct(new)
  BY <1>1, <1>2, <1>3 DEF Distinct
<1> QED BY <1>4 DEF new

\* A message that is new keeps the buffers of the backup distinct, and goes into
\* those of the followers that have room for it.
LEMMA CommitDistinct ==
    ASSUME NEW st, Good(st), Distinct(st), NEW c, WellFormed(c), Fits(st, c),
           c.type = "MESSAGE" => Without(st, c.arg)
    PROVE  Distinct(Commit(st, c))
<1>1. c.type \in CommandTypes /\ c.user \in Names
  BY DEF WellFormed, AnyCommand
<1> DEFINE new == Commit(st, c)
<1>2. CASE c.type \notin {"MESSAGE", "DELIVERED"}
  <2>1. \A n \in Names : new.mail[n] = st.mail[n]
    BY <1>2, CommitMail
  <2> HIDE DEF new
  <2>2. Distinct(new)
    BY <2>1 DEF Distinct
  <2> QED BY <2>2 DEF new
<1>3. CASE c.type = "DELIVERED"
  <2>1. new = MarkDelivered(st, c.user, c.arg)
    BY <1>3 DEF Commit
  <2> QED BY <1>1, <2>1, MarkDistinct
<1>4. CASE c.type = "MESSAGE"
  <2>1. new = (IF IsOpen(st, c.user) THEN SendMessage(st, c.user, c.arg) ELSE st)
        /\ c.arg \in 1..MaxMessages
    BY <1>4 DEF Commit, WellFormed
  <2> DEFINE mid == EnsureBoxes(st, c.user)
  <2>2. Good(mid) /\ mid.mail = st.mail
    BY <1>1, EnsureBoxesGood
  <2>3. SendMessage(st, c.user, c.arg) = Enqueue(mid, c.user, c.arg)
    BY DEF SendMessage
  <2> HIDE DEF mid, new
  <2>4. Distinct(mid) /\ Without(mid, c.arg)
    BY <1>4, <2>2, DistinctSame DEF Without, MailIds
  <2>5. Distinct(Enqueue(mid, c.user, c.arg))
    BY <1>1, <2>1, <2>2, <2>4, EnqueueDistinct
  <2>6. Distinct(new)
    BY <2>1, <2>3, <2>5
  <2> QED BY <2>6 DEF new
<1> QED BY <1>2, <1>3, <1>4

LEMMA CommitReaches ==
    ASSUME NEW st, Good(st), NEW c, WellFormed(c), c.type = "MESSAGE", IsOpen(st, c.user),
           NEW n \in Names, n \in Followers(st, c.user), Len(st.mail[n]) < BoxSize
    PROVE  c.arg \in MailIds(Commit(st, c), n)
<1> DEFINE mid == EnsureBoxes(st, c.user)
           to == c.user
           id == c.arg
<1>1. to \in Names /\ id \in 1..MaxMessages
  BY DEF WellFormed, AnyCommand
<1>2. Commit(st, c) = Enqueue(mid, to, id)
  BY DEF Commit, SendMessage
<1>3. /\ Good(mid) /\ mid.mail = st.mail /\ mid.sessions = st.sessions
      /\ Followers(mid, to) \subseteq mid.boxes
  BY <1>1, EnsureBoxesGood
<1> HIDE DEF mid, to, id
<1>4. n \in Followers(mid, to) /\ Len(mid.mail[n]) < BoxSize
  BY <1>3 DEF Followers, to
<1>5. id \in Unread(Enqueue(mid, to, id), n)
  BY <1>1, <1>3, <1>4, EnqueueMail
<1>6. id \in MailIds(Enqueue(mid, to, id), n)
  BY <1>5, MailIs
<1> QED BY <1>2, <1>6 DEF id

DistinctOK == Distinct(lead) /\ \A k \in 1..Len(ahead) : Distinct(ahead[k])

\* Those who followed a sender when it sent are still in its file, and once the
\* message is in the log the backup will have it for each of them.
AskedOK ==
    \A t \in Threads : Sends(t) =>
        /\ thr[t].asked \subseteq FollowersIn(lead.db, UserOf[t])
        /\ thr[t].pc # "wait" => \A n \in thr[t].asked : thr[t].cmd.arg \in MailIds(Future, n)

PromisedOK ==
    /\ promised \subseteq Names \X (1..MaxMessages)
    /\ ~lead.down => \A p \in promised : p \in shown \/ p[2] \in Unread(lead, p[1])
    /\ \A p \in promised : p[2] \in MailIds(Future, p[1])

KeepInv == DistinctOK /\ AskedOK /\ PromisedOK

\* What a thread does to the leader's buffers.
LEMMA LeaderMail ==
    ASSUME IInv, NEW t \in Threads, QuietStep(t) \/ Create(t) \/ Close(t)
    PROVE  \/ lead'.mail = lead.mail /\ shown' = shown /\ promised' = promised
           \/ Deliver(t) \/ Mark(t) \/ SendToFollowers(t)
<1>0. /\ ThreadsOK /\ LeaderOK /\ Good(lead) /\ UserOf[t] \in Names /\ ThreadOK(t)
  BY ThreadIs DEF IInv, LeaderOK
<1>1. CASE Create(t)
  <2>1. lead' = CreateSession(lead, UserOf[t], t) /\ ~Attached(t)
    BY <1>1 DEF Create, At, Attached
  <2>2. t \notin lead.sessions[UserOf[t]].socks
    BY <1>0, <2>1 DEF LeaderOK
  <2> QED BY <1>0, <1>1, <2>1, <2>2, CreateSessionGood DEF Create
<1>2. CASE Close(t)
  <2>1. lead' = CloseSession(lead, UserOf[t], t) /\ Attached(t)
    BY <1>2 DEF Close, At, Attached
  <2>2. t \in lead.sessions[UserOf[t]].socks
    BY <1>0, <2>1 DEF LeaderOK
  <2> QED BY <1>0, <1>2, <2>1, <2>2, CloseSessionGood DEF Close
<1>3. CASE AddFollowerOf(t)
  <2>1. thr[t].cmd.user \in Names
    BY <1>0, <1>3 DEF AddFollowerOf, At, ThreadOK, IssuedBy, WellFormed, AnyCommand
  <2> QED BY <1>0, <1>3, <2>1, FollowGood DEF AddFollowerOf
<1>4. CASE Ensure(t)
  BY <1>0, <1>4, EnsureBoxesGood DEF Ensure
<1>5. CASE ReturnTrue(t) \/ ReturnFalse(t) \/ TakeMap(t) \/ ReceiveNothing(t) \/ ReceiveClose(t)
           \/ (\E n \in Names : ReceiveFollow(t, n)) \/ ReceiveMessage(t)
  BY <1>5 DEF ReturnTrue, ReturnFalse, TakeMap, ReceiveNothing, ReceiveClose,
              ReceiveFollow, ReceiveMessage
<1> QED BY <1>1, <1>2, <1>3, <1>4, <1>5 DEF QuietStep

\* A thread that sends knows the number of its message and whose it is.
LEMMA Sending ==
    ASSUME IInv, FileInv, NEW t \in Threads, Attached(t)
    PROVE  /\ UserOf[t] \in Names /\ IsOpen(lead, UserOf[t])
           /\ Followers(lead, UserOf[t]) = FollowersIn(lead.db, UserOf[t])
<1>1. Good(lead) /\ Saved(lead) /\ UserOf[t] \in Names
      /\ t \in lead.sessions[UserOf[t]].socks
  BY ServerAssumption DEF IInv, LeaderOK, FileInv, SavedOK
<1>2. IsOpen(lead, UserOf[t]) /\ lead.sessions[UserOf[t]].count > 0
  BY <1>1, OpenIs
<1> QED BY <1>1, <1>2, SavedKnown DEF Followers

LEMMA DistinctKept ==
    ASSUME IInv, MarkInv, KeepInv, [Next]_vars
    PROVE  DistinctOK'
<1>0. /\ ThreadsOK /\ LeaderOK /\ BackupOK /\ Good(lead) /\ Distinct(lead)
      /\ \A k \in 1..Len(ahead) : Distinct(ahead[k])
  BY DEF IInv, LeaderOK, KeepInv, DistinctOK
<1>a. Len(ahead) \in 1..Len(ahead) /\ 1 \in 1..Len(ahead)
  BY <1>0 DEF BackupOK
<1>1. ASSUME NEW t \in Threads, EnterLog(t) PROVE DistinctOK'
  <2> DEFINE c == thr[t].cmd
  <2>1. WellFormed(c) /\ Fits(Future, c) /\ Good(Future) /\ Future' = Commit(Future, c)
    BY <1>1, AheadGrows
  <2>2. Distinct(Future)
    BY <1>0, <1>a DEF Future
  <2>3. c.type = "MESSAGE" => Without(Future, c.arg)
    BY <1>1 DEF EnterLog, At, Sends, MarkInv, FreshOK
  <2>4. Distinct(Future')
    <3> HIDE DEF c
    <3> QED BY <2>1, <2>2, <2>3, CommitDistinct
  <2>5. \A k \in 1..Len(ahead') : Distinct(ahead'[k])
    BY <1>0, <1>1, <2>4, AheadGrows
  <2> QED BY <1>0, <1>1, <2>5 DEF EnterLog, DistinctOK
<1>2. ASSUME NEW t \in Threads, QuietStep(t) \/ Create(t) \/ Close(t) PROVE DistinctOK'
  <2>0. UserOf[t] \in Names /\ ThreadOK(t)
    BY <1>0, ThreadIs
  <2>1. ahead' = ahead
    BY <1>2 DEF QuietStep, ReturnTrue, ReturnFalse, TakeMap, Deliver, Mark, ReceiveNothing,
                ReceiveClose, ReceiveFollow, AddFollowerOf, ReceiveMessage, Ensure,
                SendToFollowers, Create, Close
  <2>2. CASE lead'.mail = lead.mail
    BY <1>0, <2>2, DistinctSame, <2>1 DEF DistinctOK
  <2>3. CASE Deliver(t)
    <3>1. lead' = GetPacket(lead, UserOf[t])
      BY <2>3 DEF Deliver
    <3>2. Distinct(lead')
      BY <1>0, <2>0, <3>1, GetDistinct
    <3> QED BY <1>0, <2>1, <3>2 DEF DistinctOK
  <2>4. CASE Mark(t)
    <3> DEFINE mid == MarkDelivered(lead, UserOf[t], thr[t].cmd.arg)
    <3>1. Good(mid) /\ Distinct(mid)
      BY <1>0, <2>0, MarkDeliveredGood, MarkDistinct
    <3>2. lead' = GetPacket(mid, UserOf[t])
      BY <2>4 DEF Mark
    <3> HIDE DEF mid
    <3>3. Distinct(lead')
      BY <2>0, <3>1, <3>2, GetDistinct
    <3> QED BY <1>0, <2>1, <3>3 DEF DistinctOK
  <2>5. CASE SendToFollowers(t)
    <3>1. lead' = Enqueue(lead, UserOf[t], thr[t].cmd.arg) /\ Sends(t)
          /\ thr[t].cmd.arg \in 1..MaxMessages
      BY <2>0, <2>5 DEF SendToFollowers, At, ThreadOK, IssuedBy, WellFormed, Sends
    <3>2. Without(lead, thr[t].cmd.arg)
      BY <3>1 DEF MarkInv, FreshOK
    <3>3. Distinct(lead')
      BY <1>0, <2>0, <3>1, <3>2, EnqueueDistinct
    <3> QED BY <1>0, <2>1, <3>3 DEF DistinctOK
  <2> QED BY <1>2, <2>2, <2>3, <2>4, <2>5, LeaderMail
<1>3. CASE Apply
  <2>1. \A k \in 1..Len(ahead') : \E j \in 1..Len(ahead) : ahead'[k] = ahead[j]
    BY <1>3, CalmApply DEF Calm
  <2> QED BY <1>0, <1>3, <2>1 DEF Apply, DistinctOK
<1>4. CASE TakeOver
  <2>1. Good(back) /\ Distinct(back)
    BY <1>0, <1>a DEF BackupOK
  <2>2. lead'.mail = back.mail /\ ahead'[1].mail = back.mail /\ Len(ahead') = 1
    BY <1>0, <1>4, TwoServers
  <2>3. Distinct(lead') /\ Distinct(ahead'[1])
    BY <2>1, <2>2, DistinctSame
  <2> QED BY <2>2, <2>3 DEF DistinctOK
<1>5. CASE Crash
  <2>1. lead'.mail = lead.mail
    <3>1. lead = [db |-> lead.db, sessions |-> lead.sessions, boxes |-> lead.boxes,
                  mail |-> lead.mail, down |-> lead.down]
      BY <1>0, StateFields DEF Good
    <3>2. lead' = [lead EXCEPT !.down = TRUE]
      BY <1>5 DEF Crash
    <3> QED BY <3>1, <3>2
  <2>2. Distinct(lead')
    BY <1>0, <2>1, DistinctSame
  <2> QED BY <1>0, <1>5, <2>2 DEF Crash, DistinctOK
<1>6. CASE UNCHANGED vars
  BY <1>0, <1>6 DEF vars, DistinctOK
<1> QED BY <1>1, <1>2, <1>3, <1>4, <1>5, <1>6, StepsAre

\* What the log does to the buffers of the backup's future.
LEMMA LogKeepsMail ==
    ASSUME IInv, NEW t \in Threads, EnterLog(t), NEW n \in Names
    PROVE  MailIds(Future, n) \subseteq MailIds(Future', n)
<1> DEFINE c == thr[t].cmd
           new == Commit(Future, c)
<1>1. WellFormed(c) /\ Fits(Future, c) /\ Good(Future) /\ Future' = new
  BY AheadGrows
<1>2. c.type \in CommandTypes
  BY <1>1 DEF WellFormed, AnyCommand
<1>3. MailIds(Future, n) \subseteq MailIds(new, n)
  <2> HIDE DEF c
  <2>1. /\ c.type \notin {"MESSAGE", "DELIVERED"} => new.mail[n] = Future.mail[n]
        /\ c.type = "DELIVERED" => MailIds(new, n) = MailIds(Future, n)
        /\ c.type = "MESSAGE" => MailGrows(Future, new, n, c.arg)
    BY <1>1, CommitMail
  <2>2. new.mail[n] = Future.mail[n] => MailIds(new, n) = MailIds(Future, n)
    BY DEF MailIds
  <2> HIDE DEF new
  <2> QED BY <2>1, <2>2 DEF MailGrows
<1> HIDE DEF new
<1>4. \A st : st = new => MailIds(st, n) = MailIds(new, n)
  BY DEF MailIds
<1> QED BY <1>1, <1>3, <1>4

LEMMA FutureMailSame ==
    ASSUME NEW n, Future' = Future
    PROVE  MailIds(Future', n) = MailIds(Future, n)
BY DEF MailIds

\* A message that enters the log reaches all who were asked for.
LEMMA AskedKept ==
    ASSUME NamesApart, MaxMessages <= BoxSize, IInv, FileInv, MarkInv, KeepInv, [Next]_vars
    PROVE  AskedOK'
<1>0. /\ ThreadsOK /\ LeaderOK /\ BackupOK /\ FutureOK /\ UsedOK
      /\ Good(lead) /\ Good(Future) /\ Saved(Future) /\ AskedOK
  BY FutureSaved DEF IInv, LeaderOK, KeepInv, FileInv
<1>1. ASSUME NEW t \in Threads, EnterLog(t) PROVE AskedOK'
  <2> DEFINE c == thr[t].cmd
  <2>1. /\ lead' = lead /\ thr[t].pc = "wait"
        /\ thr'[t].pc = "logged" /\ thr'[t].cmd = c /\ thr'[t].asked = thr[t].asked
        /\ \A q \in Threads : q # t => thr'[q] = thr[q]
    BY <1>0, <1>1, EnterLogStep, AfterStep DEF EnterLog, At, Goes
  <2>2. ASSUME NEW q \in Threads, Sends(q)'
        PROVE  /\ Sends(q) /\ thr'[q].cmd = thr[q].cmd /\ thr'[q].asked = thr[q].asked
               /\ q # t => thr'[q] = thr[q]
    BY <2>1, <2>2 DEF Sends
  <2>3. ASSUME Sends(t), NEW n \in thr[t].asked PROVE c.arg \in MailIds(Future', n)
    <3>1. WellFormed(c) /\ c.type = "MESSAGE" /\ c.user = UserOf[t] /\ UserOf[t] \in Names
          /\ c.arg \in 1..MaxMessages
      BY <2>3, MessageNumber DEF Sends
    <3>2. Future' = Commit(Future, c)
      BY <1>1, AheadGrows
    <3>3. Known(t) /\ t \in Future.sessions[UserOf[t]].socks
      BY <1>0, <2>1, <3>1 DEF Known, FutureOK
    <3>4. IsOpen(Future, UserOf[t]) /\ Future.sessions[UserOf[t]].count > 0
      BY <1>0, <3>3, OpenIs
    <3>5. Followers(Future, UserOf[t]) = FollowersIn(Future.db, UserOf[t])
      BY <1>0, <3>1, <3>4, SavedKnown DEF Followers
    <3>6. n \in FollowersIn(lead.db, UserOf[t])
      BY <1>0, <2>3 DEF AskedOK
    <3>7. n \in Followers(Future, UserOf[t]) /\ n \in Names
      BY <3>1, <3>5, <3>6 DEF FileInv, FollowersOK, FollowersIn
    <3>8. c.arg \notin MailIds(Future, n)
      BY <2>1, <2>3, <3>7 DEF MarkInv, FreshOK, Without
    <3>9. Distinct(Future)
      <4>1. Len(ahead) \in 1..Len(ahead)
        BY <1>0 DEF BackupOK
      <4> QED BY <4>1 DEF KeepInv, DistinctOK, Future
    <3> HIDE DEF c
    <3>10. Len(Future.mail[n]) < BoxSize
      BY <1>0, <3>1, <3>7, <3>8, <3>9, RoomLeft
    <3>11. c.arg \in MailIds(Commit(Future, c), n)
      BY <1>0, <3>1, <3>4, <3>7, <3>10, CommitReaches
    <3> QED BY <3>2, <3>11 DEF MailIds
  <2>4. ASSUME NEW q \in Threads, Sends(q), q # t, thr[q].pc # "wait", NEW n \in thr[q].asked
        PROVE  thr[q].cmd.arg \in MailIds(Future', n)
    <3>1. thr[q].cmd.arg \in MailIds(Future, n)
      BY <1>0, <2>4 DEF AskedOK
    <3>2. n \in Names
      BY <1>0, ThreadIs
    <3> QED BY <1>1, <3>1, <3>2, LogKeepsMail
  <2>5. ASSUME NEW q \in Threads, Sends(q)'
        PROVE  /\ thr'[q].asked \subseteq FollowersIn(lead'.db, UserOf[q])
               /\ thr'[q].pc # "wait" =>
                     \A n \in thr'[q].asked : thr'[q].cmd.arg \in MailIds(Future', n)
    <3>1. thr'[q].asked \subseteq FollowersIn(lead'.db, UserOf[q])
      BY <1>0, <2>1, <2>2, <2>5 DEF AskedOK
    <3>2. CASE q = t
      BY <2>1, <2>2, <2>3, <2>5, <3>1, <3>2
    <3>3. CASE q # t
      BY <2>2, <2>4, <2>5, <3>1, <3>3
    <3> QED BY <3>2, <3>3
  <2> QED BY <2>5 DEF AskedOK
<1>2. ASSUME NEW t \in Threads, QuietStep(t) \/ Create(t) \/ Close(t) PROVE AskedOK'
  <2>1. ahead' = ahead
    BY <1>2 DEF QuietStep, ReturnTrue, ReturnFalse, TakeMap, Deliver, Mark, ReceiveNothing,
                ReceiveClose, ReceiveFollow, AddFollowerOf, ReceiveMessage, Ensure,
                SendToFollowers, Create, Close
  <2>2. Future' = Future
    BY <2>1 DEF Future
  <2>3. \A n : FollowersIn(lead.db, n) \subseteq FollowersIn(lead'.db, n)
    <3>1. \A n : FollowersIn(lead'.db, n) =
                    IF AddFollowerOf(t) /\ n = thr[t].cmd.user /\ KnownIn(lead.db, n)
                    THEN FollowersIn(lead.db, n) \cup {UserOf[t]}
                    ELSE FollowersIn(lead.db, n)
      BY <1>2, LeaderFile DEF FileInv
    <3> QED BY <3>1
  <2>4. ASSUME NEW q \in Threads, Sends(q), thr'[q].cmd = thr[q].cmd,
               thr'[q].asked = thr[q].asked, (thr'[q].pc = "wait") <=> (thr[q].pc = "wait")
        PROVE  /\ thr'[q].asked \subseteq FollowersIn(lead'.db, UserOf[q])
               /\ thr'[q].pc # "wait" =>
                     \A n \in thr'[q].asked : thr'[q].cmd.arg \in MailIds(Future', n)
    <3>1. thr[q].asked \subseteq FollowersIn(lead'.db, UserOf[q])
      BY <1>0, <2>3, <2>4 DEF AskedOK
    <3>2. ASSUME thr[q].pc # "wait", NEW n \in thr[q].asked
          PROVE  thr[q].cmd.arg \in MailIds(Future', n)
      BY <1>0, <2>2, <2>4, <3>2, FutureMailSame DEF AskedOK
    <3> QED BY <2>4, <3>1, <3>2
  <2>5. CASE ~ReceiveMessage(t)
    <3>1. \A q \in Threads : Stays(q)
      BY <1>2, <2>5, StayingSteps
    <3>2. ASSUME NEW q \in Threads, Sends(q)'
          PROVE  /\ Sends(q) /\ thr'[q].cmd = thr[q].cmd /\ thr'[q].asked = thr[q].asked
                 /\ (thr'[q].pc = "wait") <=> (thr[q].pc = "wait")
      BY <3>1, <3>2 DEF Stays
    <3> QED BY <2>4, <3>2 DEF AskedOK
  <2>6. CASE ReceiveMessage(t)
    <3>1. /\ thr'[t].pc = "wait" /\ thr'[t].asked = Followers(lead, UserOf[t])
          /\ \A q \in Threads : q # t => thr'[q] = thr[q]
      BY <1>0, <2>6, ReceiveMessageStep, AfterStep
    <3>2. Attached(t)
      BY <2>6 DEF ReceiveMessage, At, Attached
    <3>3. thr'[t].asked \subseteq FollowersIn(lead'.db, UserOf[t])
      BY <2>3, <3>1, <3>2, Sending
    <3>4. ASSUME NEW q \in Threads, Sends(q)', q # t
          PROVE  /\ Sends(q) /\ thr'[q].cmd = thr[q].cmd /\ thr'[q].asked = thr[q].asked
                 /\ (thr'[q].pc = "wait") <=> (thr[q].pc = "wait")
      BY <3>1, <3>4 DEF Sends
    <3> QED BY <2>4, <3>1, <3>3, <3>4 DEF AskedOK
  <2> QED BY <2>5, <2>6
<1>3. ASSUME lead'.db = lead.db, thr' = thr, Future' = Future PROVE AskedOK'
  <2>1. ASSUME NEW q \in Threads, Sends(q)'
        PROVE  /\ thr'[q].asked \subseteq FollowersIn(lead'.db, UserOf[q])
               /\ thr'[q].pc # "wait" =>
                     \A n \in thr'[q].asked : thr'[q].cmd.arg \in MailIds(Future', n)
    <3>1. Sends(q)
      BY <1>3, <2>1 DEF Sends
    <3>2. thr[q].asked \subseteq FollowersIn(lead.db, UserOf[q])
      BY <1>0, <3>1 DEF AskedOK
    <3>3. ASSUME thr[q].pc # "wait", NEW n \in thr[q].asked
          PROVE  thr[q].cmd.arg \in MailIds(Future', n)
      BY <1>0, <1>3, <3>1, <3>3, FutureMailSame DEF AskedOK
    <3>4. FollowersIn(lead'.db, UserOf[q]) = FollowersIn(lead.db, UserOf[q])
      BY <1>3 DEF FollowersIn
    <3> QED BY <1>3, <3>2, <3>3, <3>4
  <2> QED BY <2>1 DEF AskedOK
<1>4. CASE Apply
  BY <1>0, <1>3, <1>4, LogShrinks DEF Apply
<1>5. CASE Crash
  <2>1. lead'.db = lead.db
    <3>1. lead = [db |-> lead.db, sessions |-> lead.sessions, boxes |-> lead.boxes,
                  mail |-> lead.mail, down |-> lead.down]
      BY <1>0, StateFields DEF Good
    <3>2. lead' = [lead EXCEPT !.down = TRUE]
      BY <1>5 DEF Crash
    <3> QED BY <3>1, <3>2
  <2>2. Future' = Future
    BY <1>5 DEF Crash, Future
  <2> QED BY <1>3, <1>5, <2>1, <2>2 DEF Crash
<1>6. CASE TakeOver
  <2>1. \A q \in Threads : thr'[q] \in {Arrived(q), Gone}
    BY <1>6 DEF TakeOver
  <2>2. \A q \in Threads : ~(Sends(q)')
    BY <2>1 DEF Sends, Arrived, Gone, Command, NoCommand
  <2> QED BY <2>2 DEF AskedOK
<1>7. CASE UNCHANGED vars
  <2>1. Future' = Future
    BY <1>7 DEF vars, Future
  <2> QED BY <1>3, <1>7, <2>1 DEF vars
<1> QED BY <1>1, <1>2, <1>4, <1>5, <1>6, <1>7, StepsAre

\* Steps that take nothing from a buffer but what they show.
LEMMA PromisesStay ==
    ASSUME PromisedOK, promised' = promised,
           \A n \in Names : MailIds(Future, n) \subseteq MailIds(Future', n),
           ~lead'.down =>
              /\ ~lead.down /\ shown \subseteq shown'
              /\ \A n \in Names : \A id \in Unread(lead, n) :
                    id \in Unread(lead', n) \/ <<n, id>> \in shown'
    PROVE  PromisedOK'
<1>1. \A p \in promised : p[1] \in Names /\ p = <<p[1], p[2]>>
  BY DEF PromisedOK
<1>2. promised' \subseteq Names \X (1..MaxMessages)
  BY DEF PromisedOK
<1>3. ASSUME ~lead'.down, NEW p \in promised'
      PROVE  p \in shown' \/ p[2] \in Unread(lead', p[1])
  <2>1. p[1] \in Names /\ p = <<p[1], p[2]>> /\ (p \in shown \/ p[2] \in Unread(lead, p[1]))
    BY <1>1, <1>3 DEF PromisedOK
  <2>2. shown \subseteq shown'
    BY <1>3
  <2>3. CASE p[2] \in Unread(lead, p[1])
    <3>1. p[2] \in Unread(lead', p[1]) \/ <<p[1], p[2]>> \in shown'
      BY <1>3, <2>1, <2>3
    <3> QED BY <2>1, <3>1
  <2> QED BY <2>1, <2>2, <2>3
<1>4. ASSUME NEW p \in promised' PROVE p[2] \in MailIds(Future', p[1])
  <2>1. p[1] \in Names /\ p[2] \in MailIds(Future, p[1])
    BY <1>1, <1>4 DEF PromisedOK
  <2> QED BY <2>1
<1> QED BY <1>2, <1>3, <1>4 DEF PromisedOK

\* A message that is sent is put into the buffer of everyone who was asked for:
\* there is room, and who has no buffer ends the leader.
LEMMA PromisesMade ==
    ASSUME MaxMessages <= BoxSize, IInv, FileInv, MarkInv, KeepInv, NEW t \in Threads,
           SendToFollowers(t)
    PROVE  PromisedOK'
<1> DEFINE id == thr[t].cmd.arg
           u  == UserOf[t]
           asked == thr[t].asked
<1>0. /\ ThreadsOK /\ Good(lead) /\ Distinct(lead) /\ AskedOK /\ PromisedOK
      /\ ThreadOK(t) /\ u \in Names /\ asked \subseteq Names
  BY ThreadIs DEF IInv, LeaderOK, KeepInv, DistinctOK
<1>1. /\ thr[t].pc = "enqueue" /\ ~lead.down /\ lead' = Enqueue(lead, u, id)
      /\ promised' = promised \cup {<<n, id>> : n \in asked} /\ shown' = shown
      /\ ahead' = ahead
  BY DEF SendToFollowers, At
<1>2. Sends(t) /\ Attached(t)
  BY <1>0, <1>1 DEF ThreadOK, Sends, Attached
<1>3. id \in 1..MaxMessages
  BY <1>2, MessageNumber
<1>4. asked \subseteq Followers(lead, u)
  BY <1>0, <1>2, Sending DEF AskedOK
<1>5. \A n \in asked : id \in MailIds(Future, n)
  BY <1>0, <1>1, <1>2 DEF AskedOK
<1>6. Without(lead, id)
  BY <1>2 DEF MarkInv, FreshOK
<1>7. ~lead'.down => Followers(lead, u) \subseteq lead.boxes
  <2>1. lead = [db |-> lead.db, sessions |-> lead.sessions, boxes |-> lead.boxes,
                mail |-> lead.mail, down |-> lead.down]
    BY <1>0, StateFields DEF Good
  <2>2. [lead EXCEPT !.down = TRUE].down = TRUE
    BY <2>1
  <2> QED BY <1>1, <2>2 DEF Enqueue
<1>8. Future' = Future
  BY <1>1 DEF Future
<1> HIDE DEF id, u, asked
<1>9. \A n \in Names : MailGrows(lead, lead', n, id)
  <2> DEFINE new == Enqueue(lead, u, id)
  <2>1. \A n \in Names : MailGrows(lead, new, n, id)
    BY <1>0, <1>3, EnqueueMail
  <2> HIDE DEF new
  <2>2. lead' = new
    BY <1>1 DEF new
  <2> QED BY <2>1, <2>2
<1>10. ASSUME ~lead'.down, NEW n \in asked PROVE id \in Unread(lead', n)
  <2>1. n \in Names /\ id \notin MailIds(lead, n)
    BY <1>0, <1>6, <1>10 DEF Without
  <2>2. Len(lead.mail[n]) < BoxSize
    BY <1>0, <1>3, <2>1, RoomLeft
  <2>3. n \in Followers(lead, u) /\ Followers(lead, u) \subseteq lead.boxes
    BY <1>4, <1>7, <1>10
  <2> DEFINE new == Enqueue(lead, u, id)
  <2>4. id \in Unread(new, n)
    BY <1>0, <1>3, <2>1, <2>2, <2>3, EnqueueMail
  <2> HIDE DEF new
  <2>5. lead' = new
    BY <1>1 DEF new
  <2> QED BY <2>4, <2>5
<1>11. ASSUME NEW p \in promised'
       PROVE  /\ p \in Names \X (1..MaxMessages)
              /\ ~lead'.down => p \in shown' \/ p[2] \in Unread(lead', p[1])
              /\ p[2] \in MailIds(Future', p[1])
  <2>1. CASE p \in promised
    <3>1. p \in Names \X (1..MaxMessages) /\ p[1] \in Names
      BY <1>0, <2>1 DEF PromisedOK
    <3>2. p \in shown \/ p[2] \in Unread(lead, p[1])
      BY <1>0, <1>1, <2>1 DEF PromisedOK
    <3>3. Unread(lead, p[1]) \subseteq Unread(lead', p[1])
      BY <1>9, <3>1 DEF MailGrows
    <3>4. p[2] \in MailIds(Future, p[1])
      BY <1>0, <2>1 DEF PromisedOK
    <3>5. MailIds(Future', p[1]) = MailIds(Future, p[1])
      BY <1>8, FutureMailSame
    <3> QED BY <1>1, <3>1, <3>2, <3>3, <3>4, <3>5
  <2>2. CASE p \in {<<n, id>> : n \in asked}
    <3>1. PICK n \in asked : p = <<n, id>>
      BY <2>2
    <3>2. p[1] = n /\ p[2] = id /\ n \in Names
      BY <1>0, <3>1
    <3>3. MailIds(Future', n) = MailIds(Future, n)
      BY <1>8, FutureMailSame
    <3>4. p \in Names \X (1..MaxMessages)
      BY <1>3, <3>1, <3>2
    <3> QED BY <1>5, <1>10, <3>2, <3>3, <3>4
  <2> QED BY <1>1, <2>1, <2>2
<1>12. promised' \subseteq Names \X (1..MaxMessages)
  BY <1>11
<1> QED BY <1>11, <1>12 DEF PromisedOK

LEMMA PromisedKept ==
    ASSUME MaxMessages <= BoxSize, IInv, FileInv, MarkInv, KeepInv, [Next]_vars
    PROVE  PromisedOK'
<1>0. /\ ThreadsOK /\ BackupOK /\ Good(lead) /\ PromisedOK
  BY DEF IInv, LeaderOK, KeepInv
<1>1. ASSUME NEW t \in Threads, EnterLog(t) PROVE PromisedOK'
  <2>1. lead' = lead /\ shown' = shown /\ promised' = promised
    BY <1>1 DEF EnterLog
  <2>2. \A n \in Names : MailIds(Future, n) \subseteq MailIds(Future', n)
    BY <1>1, LogKeepsMail
  <2> QED BY <1>0, <2>1, <2>2, PromisesStay
<1>2. ASSUME NEW t \in Threads, QuietStep(t) \/ Create(t) \/ Close(t) PROVE PromisedOK'
  <2>0. UserOf[t] \in Names /\ ~lead.down
    <3>1. UserOf[t] \in Names
      BY <1>0, ThreadIs
    <3>2. ~lead.down
      BY <1>2 DEF QuietStep, ReturnTrue, ReturnFalse, TakeMap, Deliver, Mark, ReceiveNothing,
                  ReceiveClose, ReceiveFollow, AddFollowerOf, ReceiveMessage, Ensure,
                  SendToFollowers, Create, Close, At
    <3> QED BY <3>1, <3>2
  <2>1. ahead' = ahead
    BY <1>2 DEF QuietStep, ReturnTrue, ReturnFalse, TakeMap, Deliver, Mark, ReceiveNothing,
                ReceiveClose, ReceiveFollow, AddFollowerOf, ReceiveMessage, Ensure,
                SendToFollowers, Create, Close
  <2>2. \A n \in Names : MailIds(Future, n) \subseteq MailIds(Future', n)
    <3>1. Future' = Future
      BY <2>1 DEF Future
    <3> QED BY <3>1, FutureMailSame
  <2>3. CASE lead'.mail = lead.mail /\ shown' = shown /\ promised' = promised
    <3>1. ASSUME NEW n \in Names PROVE Unread(lead', n) = Unread(lead, n)
      BY <2>3 DEF Unread
    <3> QED BY <1>0, <2>0, <2>2, <2>3, <3>1, PromisesStay
  <2>4. CASE Deliver(t)
    <3> DEFINE new == GetPacket(lead, UserOf[t])
    <3>1. lead' = new /\ shown' = shown /\ promised' = promised
      BY <2>4 DEF Deliver
    <3>2. \A n \in Names : Unread(new, n) = Unread(lead, n)
      BY <1>0, <2>0, GetMail
    <3> HIDE DEF new
    <3>3. \A n \in Names : Unread(lead', n) = Unread(lead, n)
      BY <3>1, <3>2
    <3> QED BY <1>0, <2>0, <2>2, <3>1, <3>3, PromisesStay
  <2>5. CASE Mark(t)
    <3> DEFINE id  == thr[t].cmd.arg
               mid == MarkDelivered(lead, UserOf[t], id)
               new == GetPacket(mid, UserOf[t])
    <3>1. lead' = new /\ shown' = shown \cup {<<UserOf[t], id>>} /\ promised' = promised
      BY <2>5 DEF Mark
    <3> HIDE DEF id
    <3>2. Good(mid)
      BY <1>0, <2>0, MarkDeliveredGood
    <3>3. ASSUME NEW n \in Names
          PROVE  Unread(mid, n) = IF n = UserOf[t] THEN Unread(lead, n) \ {id}
                                  ELSE Unread(lead, n)
      <4> DEFINE u == UserOf[t]
      <4>1. u \in Names
        BY <2>0
      <4> HIDE DEF u
      <4>2. Unread(MarkDelivered(lead, u, id), n) = IF n = u THEN Unread(lead, n) \ {id}
                                                    ELSE Unread(lead, n)
        BY <1>0, <4>1, MarkMail
      <4> QED BY <4>2 DEF u
    <3> HIDE DEF mid
    <3>4. \A n \in Names : Unread(new, n) = Unread(mid, n)
      BY <2>0, <3>2, GetMail
    <3> HIDE DEF new
    <3>5. \A n \in Names : Unread(lead', n) = Unread(mid, n)
      BY <3>1, <3>4
    <3>6. \A n \in Names : \A i \in Unread(lead, n) :
             i \in Unread(lead', n) \/ <<n, i>> \in shown'
      BY <3>1, <3>3, <3>5
    <3> QED BY <1>0, <2>0, <2>2, <3>1, <3>6, PromisesStay
  <2>6. CASE SendToFollowers(t)
    BY <2>6, PromisesMade
  <2> QED BY <1>2, <2>3, <2>4, <2>5, <2>6, LeaderMail
<1>3. ASSUME promised' = promised, Future' = Future,
             ~lead'.down => lead' = lead /\ shown' = shown
      PROVE  PromisedOK'
  <2>1. \A n \in Names : MailIds(Future, n) \subseteq MailIds(Future', n)
    BY <1>3, FutureMailSame
  <2> QED BY <1>0, <1>3, <2>1, PromisesStay
<1>4. CASE Apply
  BY <1>0, <1>3, <1>4, LogShrinks DEF Apply
<1>5. CASE Crash
  <2>1. lead = [db |-> lead.db, sessions |-> lead.sessions, boxes |-> lead.boxes,
                mail |-> lead.mail, down |-> lead.down]
    BY <1>0, StateFields DEF Good
  <2>2. lead' = [lead EXCEPT !.down = TRUE] /\ promised' = promised
    BY <1>5 DEF Crash
  <2>3. lead'.down
    BY <2>1, <2>2
  <2>4. Future' = Future
    BY <1>5 DEF Crash, Future
  <2> QED BY <1>3, <2>2, <2>3, <2>4
<1>6. CASE TakeOver
  <2>1. promised' = {p \in promised : p[2] \in Unread(back, p[1])}
    BY <1>6 DEF TakeOver
  <2>3. lead'.mail = back.mail /\ Future'.mail = back.mail
    BY <1>0, <1>6, TwoServers
  <2>4. \A n : MailIds(Future', n) = MailIds(lead', n)
    BY <2>3 DEF MailIds
  <2>5. \A n : Unread(lead', n) = Unread(back, n)
    BY <2>3 DEF Unread
  <2>6. ASSUME NEW p \in promised'
        PROVE  /\ p[2] \in Unread(lead', p[1])
               /\ p[2] \in MailIds(Future', p[1])
    <3>1. p[2] \in Unread(lead', p[1])
      BY <2>1, <2>5, <2>6
    <3>2. p[2] \in MailIds(lead', p[1])
      BY <3>1, MailIs
    <3> QED BY <2>4, <3>1, <3>2
  <2>7. promised' \subseteq Names \X (1..MaxMessages)
    BY <1>0, <2>1 DEF PromisedOK
  <2> QED BY <2>6, <2>7 DEF PromisedOK
<1>7. CASE UNCHANGED vars
  <2>1. Future' = Future
    BY <1>7 DEF vars, Future
  <2> QED BY <1>3, <1>7, <2>1 DEF vars
<1> QED BY <1>1, <1>2, <1>4, <1>5, <1>6, <1>7, StepsAre

LEMMA KeepBegins == Init => KeepInv
<1> SUFFICES ASSUME Init PROVE KeepInv
  OBVIOUS
<1>1. lead = NewServer /\ ahead = <<NewServer>> /\ promised = {}
  BY DEF Init
<1>2. \A n \in Names : NewServer.mail[n] = <<>>
  BY DEF NewServer
<1>3. \A q \in Threads : ~Sends(q)
  BY DEF Init, Arrived, Command, Sends
<1> HIDE DEF NewServer
<1>4. Len(ahead) = 1 /\ ahead[1] = NewServer
  BY <1>1
<1>5. Distinct(NewServer)
  <2>1. ASSUME NEW n \in Names PROVE DOMAIN NewServer.mail[n] = {}
    <3>1. NewServer.mail[n] = <<>>
      BY <1>2
    <3> QED BY <3>1
  <2> QED BY <2>1 DEF Distinct
<1>6. DistinctOK
  BY <1>1, <1>4, <1>5 DEF DistinctOK
<1>7. AskedOK /\ PromisedOK
  BY <1>1, <1>3 DEF AskedOK, PromisedOK
<1> QED BY <1>6, <1>7 DEF KeepInv

\* What was accepted for the followers a sender had when it sent is shown to them
\* or waits for them, on the leader and on the backup, as long as no name ends
\* in another and there are no more messages than a buffer holds.
THEOREM MessagesKept ==
    ASSUME NamesApart, MaxMessages <= BoxSize
    PROVE  Spec => []MessageKept
<1>1. IInv /\ MarkInv /\ [Next]_vars => MarkInv'
  BY MarksKept
<1>2. IInv /\ FileInv /\ [Next]_vars => FileInv'
  BY SavedKept, FollowersKept DEF FileInv
<1>3. IInv /\ FileInv /\ MarkInv /\ KeepInv /\ [Next]_vars => KeepInv'
  BY DistinctKept, AskedKept, PromisedKept DEF KeepInv
<1>4. KeepInv => MessageKept
  BY DEF KeepInv, PromisedOK, MessageKept
<1> QED
  BY <1>1, <1>2, <1>3, <1>4, MarksBegin, FileBegins, KeepBegins, ServerInvariant, PTL DEF Spec

=============================================================================
