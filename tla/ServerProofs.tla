---------------------------- MODULE ServerProofs ----------------------------
(***************************************************************************)
(* The sessions of the leader and of its backup, and the locks around      *)
(* them, for any number of users, connections and messages.                *)
(***************************************************************************)
EXTENDS Server, FiniteSetTheorems, SequenceTheorems, WellFoundedInduction, TLAPS

Lines == [name : Names, followers : SUBSET Names]
Users == [name : Names \cup {NoName}, id : Nat, followers : SUBSET Names]
Records == [count : Nat, socks : SUBSET Threads, user : Users]
Packets == [id : 1..MaxMessages, delivered : BOOLEAN]

-----------------------------------------------------------------------------
(* The file of users *)

\* A set of natural numbers that is not empty has a least one: the sets of its
\* members up to each are finite, and one of them is contained in no other.
LEMMA LeastOf ==
    ASSUME NEW S \in SUBSET Nat, S # {}
    PROVE  \E i \in S : \A j \in S : i <= j
<1> DEFINE T == {0..i : i \in S}
<1>1. T \subseteq FiniteSubsetsOf(Nat) /\ T # {}
  <2>1. ASSUME NEW i \in S PROVE 0..i \in FiniteSubsetsOf(Nat)
    <3>1. IsFiniteSet(0..i)
      BY FS_Interval
    <3>2. 0..i \in SUBSET Nat
      BY SMT
    <3> QED BY <3>1, <3>2 DEF FiniteSubsetsOf
  <2>2. PICK i \in S : TRUE
    OBVIOUS
  <2> QED BY <2>1, <2>2
<1>2. IsWellFoundedOn(StrictSubsetOrdering(Nat), FiniteSubsetsOf(Nat))
  BY FS_StrictSubsetOrderingWellFounded
<1>3. PICK t \in T : \A u \in T : ~(<<u, t>> \in StrictSubsetOrdering(Nat))
  <2> HIDE DEF T
  <2> QED BY <1>1, <1>2, WFMin
<1>4. PICK i \in S : t = 0..i
  OBVIOUS
<1>5. ASSUME NEW j \in S, j < i PROVE FALSE
  <2>1. 0..j \in T
    OBVIOUS
  <2>2. 0..j \subseteq 0..i /\ i \in 0..i /\ i \notin 0..j
    BY <1>5, SMT
  <2>3. <<0..j, 0..i>> \in (SUBSET Nat) \X (SUBSET Nat)
    BY SMT
  <2> QED BY <2>1, <2>2, <2>3, <1>3, <1>4 DEF StrictSubsetOrdering
<1> QED BY <1>5

\* The line of a name is the first one found, or the one behind the last.
LEMMA LineOfDef ==
    ASSUME NEW db \in Seq(Lines), NEW name \in Names
    PROVE  /\ Found(db, name) \subseteq 1..Len(db)
           /\ LineOf(db, name) \in 1 .. Len(db) + 1
           /\ LineOf(db, name) <= Len(db) <=> LineOf(db, name) \in Found(db, name)
           /\ Found(db, name) = {} => LineOf(db, name) = Len(db) + 1
           /\ Found(db, name) # {} => LineOf(db, name) \in Found(db, name)
<1>1. Found(db, name) \subseteq 1..Len(db) /\ Len(db) \in Nat
  BY DEF Found
<1>2. CASE Found(db, name) = {}
  BY <1>1, <1>2 DEF LineOf
<1>3. CASE Found(db, name) # {}
  <2>1. \E i \in Found(db, name) : \A j \in Found(db, name) : i <= j
    BY <1>1, <1>3, LeastOf, Found(db, name) \in SUBSET Nat
  <2>2. LineOf(db, name) \in Found(db, name)
    BY <1>3, <2>1 DEF LineOf
  <2> QED BY <1>1, <1>3, <2>2
<1> QED BY <1>2, <1>3

LEMMA LoadUserTyped ==
    ASSUME NEW db \in Seq(Lines), NEW name \in Names, NEW create \in BOOLEAN
    PROVE  /\ LoadUser(db, name, create).user \in Users
           /\ LoadUser(db, name, create).db \in Seq(Lines)
           /\ create => /\ LoadUser(db, name, create).user.name \in Names
                        /\ LoadUser(db, name, create).user.id > 0
<1> DEFINE i == LineOf(db, name)
           new == [name |-> name, id |-> i, followers |-> {}]
<1>1. i \in 1 .. Len(db) + 1 /\ Len(db) \in Nat
  BY LineOfDef
<1>2. CASE i <= Len(db)
  <2>1. db[i] \in Lines
    BY <1>1, <1>2
  <2>2. LoadUser(db, name, create) =
            [user |-> [name |-> db[i].name, id |-> i, followers |-> db[i].followers],
             db   |-> db]
    BY <1>2 DEF LoadUser
  <2> HIDE DEF i
  <2> QED BY <1>1, <2>1, <2>2 DEF Lines, Users
<1>3. CASE ~(i <= Len(db))
  <2>1. SaveUser(db, new) \in Seq(Lines)
    <3>1. new.id > Len(db) /\ new.name = name /\ new.followers = {}
      <4> HIDE DEF i
      <4> QED BY <1>1, <1>3
    <3>2. SaveUser(db, new) = Append(db, [name |-> name, followers |-> {}])
      <4> HIDE DEF new
      <4> QED BY <3>1 DEF SaveUser
    <3>3. [name |-> name, followers |-> {}] \in Lines
      BY DEF Lines
    <3> HIDE DEF new
    <3> QED BY <3>2, <3>3
  <2>2. LoadUser(db, name, create) =
            IF create THEN [user |-> new, db |-> SaveUser(db, new)]
            ELSE [user |-> NoUser, db |-> db]
    BY <1>3 DEF LoadUser
  <2>3. new \in Users /\ NoUser \in Users
    BY <1>1 DEF Users, NoUser
  <2> HIDE DEF i
  <2> QED BY <1>1, <2>1, <2>2, <2>3
<1> QED BY <1>2, <1>3

LEMMA SaveUserTyped ==
    ASSUME NEW db \in Seq(Lines), NEW user \in Users, user.name \in Names
    PROVE  SaveUser(db, user) \in Seq(Lines)
<1> DEFINE line == [name |-> user.name, followers |-> user.followers]
<1>1. line \in Lines /\ user.id \in Nat
  BY DEF Lines, Users
<1>2. CASE user.id > Len(db)
  BY <1>1, <1>2 DEF SaveUser
<1>3. CASE ~(user.id > Len(db))
  <2>1. SaveUser(db, user) = [db EXCEPT ![user.id] = line]
    BY <1>3 DEF SaveUser
  <2>2. CASE user.id = 0
    <3>1. SaveUser(db, user) = db
      BY <2>1, <2>2
    <3> QED BY <3>1
  <2>3. CASE user.id \in 1..Len(db)
    <3> HIDE DEF line
    <3> QED BY <1>1, <2>1, <2>3, ExceptSeq
  <2> QED BY <1>1, <1>3, <2>2, <2>3, SMT
<1> QED BY <1>2, <1>3

LEMMA AddFollowerTyped ==
    ASSUME NEW user \in Users, NEW follower \in Names
    PROVE  /\ AddFollower(user, follower) \in Users
           /\ AddFollower(user, follower).name = user.name
           /\ AddFollower(user, follower).id = user.id
           /\ AddFollower(user, follower).followers = user.followers \cup {follower}
BY DEF AddFollower, Users

-----------------------------------------------------------------------------
(* The state of a server *)

\* The fields of a server's state one by one.
LEMMA StateFields ==
    ASSUME NEW st \in ServerStates
    PROVE  /\ st.db \in Seq(Lines) /\ st.sessions \in [Names -> Records]
           /\ st.boxes \subseteq Names /\ st.mail \in [Names -> Seq(Packets)]
           /\ st.down \in BOOLEAN
           /\ st = [db |-> st.db, sessions |-> st.sessions, boxes |-> st.boxes,
                    mail |-> st.mail, down |-> st.down]
BY DEF ServerStates, Lines, Records, Users, Packets

LEMMA StateOf ==
    ASSUME NEW db \in Seq(Lines), NEW sessions \in [Names -> Records],
           NEW boxes \in SUBSET Names, NEW mail \in [Names -> Seq(Packets)],
           NEW down \in BOOLEAN
    PROVE  [db |-> db, sessions |-> sessions, boxes |-> boxes, mail |-> mail,
            down |-> down] \in ServerStates
BY DEF ServerStates, Lines, Records, Users, Packets

\* A session belongs to sockets of its user, counts them, and knows its user.
SessionsOK(st) ==
    \A n \in Names :
        /\ st.sessions[n].socks \subseteq {t \in Threads : UserOf[t] = n}
        /\ st.sessions[n].count = Cardinality(st.sessions[n].socks)
        /\ st.sessions[n].count > 0 => /\ st.sessions[n].user.name \in Names
                                       /\ st.sessions[n].user.id > 0

Good(st) == st \in ServerStates /\ SessionsOK(st)

\* What a call has done to the sockets: those of one user are s, no other's
\* session has changed its sockets.
SocksBecome(old, st, name, s) ==
    \A n \in Names : st.sessions[n].socks = IF n = name THEN s ELSE old.sessions[n].socks

SocksStay(old, st) == \A n \in Names : st.sessions[n].socks = old.sessions[n].socks

LEMMA NewServerGood == Good(NewServer)
<1>1. NoUser \in Users /\ NoSession \in Records
  BY DEF NoUser, NoSession, Users, Records
<1>2. NewServer \in ServerStates
  <2>1. <<>> \in Seq(Lines)
    OBVIOUS
  <2>2. [n \in Names |-> NoSession] \in [Names -> Records]
    BY <1>1
  <2>3. [n \in Names |-> <<>>] \in [Names -> Seq(Packets)]
    OBVIOUS
  <2> QED BY <2>1, <2>2, <2>3, StateOf DEF NewServer
<1>3. SessionsOK(NewServer)
  BY FS_EmptySet DEF SessionsOK, NewServer, NoSession
<1> QED BY <1>2, <1>3 DEF Good

LEMMA SocksFinite ==
    ASSUME NEW st, Good(st), NEW n \in Names
    PROVE  IsFiniteSet(st.sessions[n].socks)
<1>1. st.sessions[n].socks \subseteq Threads
  BY DEF Good, SessionsOK
<1> QED BY <1>1, FS_Subset, ServerAssumption

LEMMA CreateSessionGood ==
    ASSUME NEW st, Good(st), NEW sock \in Threads,
           sock \notin st.sessions[UserOf[sock]].socks
    PROVE  LET name == UserOf[sock]
               new  == CreateSession(st, name, sock)
           IN  /\ Good(new)
               /\ SocksBecome(st, new, name, st.sessions[name].socks \cup {sock})
               /\ new.down = st.down /\ new.mail = st.mail /\ new.boxes = st.boxes
<1> DEFINE name == UserOf[sock]
           new == CreateSession(st, name, sock)
           loaded == LoadUser(st.db, name, TRUE)
           s == st.sessions[name]
           user == IF IsOpen(st, name) THEN s.user ELSE loaded.user
           rec == [count |-> s.count + 1, socks |-> s.socks \cup {sock}, user |-> user]
           db == IF IsOpen(st, name) THEN st.db ELSE loaded.db
<1>1. name \in Names /\ st \in ServerStates /\ SessionsOK(st)
  BY ServerAssumption DEF Good
<1>2. loaded.user \in Users /\ loaded.db \in Seq(Lines)
      /\ loaded.user.name \in Names /\ loaded.user.id > 0
  BY <1>1, LoadUserTyped, StateFields
<1>3. s \in Records
  BY <1>1, StateFields
<1>4. new = [db |-> db, sessions |-> [st.sessions EXCEPT ![name] = rec],
             boxes |-> st.boxes, mail |-> st.mail, down |-> st.down]
  <2>1. st = [db |-> st.db, sessions |-> st.sessions, boxes |-> st.boxes,
              mail |-> st.mail, down |-> st.down]
    BY <1>1, StateFields
  <2>2. new = [st EXCEPT !.db = db, !.sessions[name] = rec]
    BY DEF CreateSession
  <2> HIDE DEF db, rec, new
  <2> QED BY <2>1, <2>2
<1>5. user \in Users /\ user.name \in Names /\ user.id > 0 /\ db \in Seq(Lines)
  BY <1>1, <1>2, <1>3, StateFields DEF Records, IsOpen, SessionsOK
<1>6. rec \in Records
  <2> HIDE DEF user
  <2> QED BY <1>3, <1>5 DEF Records
<1>7. rec.count = Cardinality(rec.socks) /\ rec.socks \subseteq {t \in Threads : UserOf[t] = name}
  <2>1. IsFiniteSet(s.socks)
    BY <1>1, SocksFinite
  <2>2. Cardinality(s.socks \cup {sock}) = Cardinality(s.socks) + 1
    BY <2>1, FS_AddElement
  <2> QED BY <1>1, <2>2 DEF SessionsOK
<1> HIDE DEF db, rec
<1>8. new.sessions = [st.sessions EXCEPT ![name] = rec]
  BY <1>4
<1>9. new \in ServerStates
  <2>1. [st.sessions EXCEPT ![name] = rec] \in [Names -> Records]
    BY <1>1, <1>6, StateFields
  <2> HIDE DEF new
  <2> QED BY <1>1, <1>4, <1>5, <2>1, StateFields, StateOf
<1>10. SocksBecome(st, new, name, s.socks \cup {sock})
  <2>1. rec.socks = s.socks \cup {sock}
    BY DEF rec
  <2>2. st.sessions \in [Names -> Records]
    BY <1>1, StateFields
  <2> HIDE DEF new
  <2> QED BY <1>1, <1>8, <2>1, <2>2 DEF SocksBecome
<1>11. SessionsOK(new)
  <2>1. st.sessions \in [Names -> Records]
    BY <1>1, StateFields
  <2>2. rec.user = user
    BY DEF rec
  <2> HIDE DEF new, user
  <2> SUFFICES ASSUME NEW n \in Names
               PROVE  /\ new.sessions[n].socks \subseteq {t \in Threads : UserOf[t] = n}
                      /\ new.sessions[n].count = Cardinality(new.sessions[n].socks)
                      /\ new.sessions[n].count > 0 => /\ new.sessions[n].user.name \in Names
                                                      /\ new.sessions[n].user.id > 0
    BY DEF SessionsOK
  <2>3. CASE n = name
    <3>1. new.sessions[n] = rec
      BY <1>1, <1>8, <2>1, <2>3
    <3> HIDE DEF name
    <3> QED BY <1>5, <1>7, <2>2, <2>3, <3>1
  <2>4. CASE n # name
    <3>1. new.sessions[n] = st.sessions[n]
      BY <1>8, <2>1, <2>4
    <3> QED BY <1>1, <3>1 DEF SessionsOK
  <2> QED BY <2>3, <2>4
<1> QED
  BY <1>4, <1>9, <1>10, <1>11 DEF Good

\* A socket that is there can be taken out without harm.
LEMMA CloseSessionGood ==
    ASSUME NEW st, Good(st), NEW sock \in Threads,
           sock \in st.sessions[UserOf[sock]].socks
    PROVE  LET name == UserOf[sock]
               new  == CloseSession(st, name, sock)
           IN  /\ Good(new)
               /\ SocksBecome(st, new, name, st.sessions[name].socks \ {sock})
               /\ new.down = st.down /\ new.mail = st.mail /\ new.boxes = st.boxes
               /\ new.db = st.db
<1> DEFINE name == UserOf[sock]
           new == CloseSession(st, name, sock)
           s == st.sessions[name]
           rec == IF s.count = 1 THEN NoSession
                  ELSE [s EXCEPT !.count = @ - 1, !.socks = @ \ {sock}]
<1>1. name \in Names /\ st \in ServerStates /\ SessionsOK(st)
  BY ServerAssumption DEF Good
<1>2. s \in Records /\ st.sessions \in [Names -> Records]
  BY <1>1, StateFields
<1>3. /\ IsFiniteSet(s.socks)
      /\ s.count = Cardinality(s.socks)
      /\ Cardinality(s.socks \ {sock}) = s.count - 1
      /\ s.count \in Nat /\ s.count > 0
  <2>1. IsFiniteSet(s.socks) /\ s.count = Cardinality(s.socks)
    BY <1>1, SocksFinite DEF SessionsOK
  <2>2. s.count # 0
    BY <2>1, FS_EmptySet
  <2>3. Cardinality(s.socks \ {sock}) = s.count - 1
    BY <2>1, FS_RemoveElement
  <2>4. s.count \in Nat
    BY <1>2 DEF Records
  <2> QED BY <2>1, <2>2, <2>3, <2>4
<1>4. new = [st EXCEPT !.sessions[name] = rec]
  BY <1>3 DEF CloseSession, IsOpen
<1>5. new = [db |-> st.db, sessions |-> [st.sessions EXCEPT ![name] = rec],
             boxes |-> st.boxes, mail |-> st.mail, down |-> st.down]
  <2>1. st = [db |-> st.db, sessions |-> st.sessions, boxes |-> st.boxes,
              mail |-> st.mail, down |-> st.down]
    BY <1>1, StateFields
  <2> HIDE DEF rec, new
  <2> QED BY <1>4, <2>1
<1>6. /\ rec \in Records /\ rec.socks = s.socks \ {sock}
      /\ rec.count = Cardinality(rec.socks)
      /\ rec.count > 0 => rec.user = s.user
  <2>1. CASE s.count = 1
    <3>1. s.socks \ {sock} = {}
      <4>1. IsFiniteSet(s.socks \ {sock})
        BY <1>3, FS_RemoveElement
      <4> QED BY <1>3, <2>1, <4>1, FS_EmptySet
    <3>2. NoSession \in Records
      BY DEF NoSession, NoUser, Records, Users
    <3> QED BY <2>1, <3>1, <3>2, FS_EmptySet DEF NoSession
  <2>2. CASE s.count # 1
    <3>1. rec = [count |-> s.count - 1, socks |-> s.socks \ {sock}, user |-> s.user]
      BY <1>2, <2>2 DEF Records
    <3> HIDE DEF rec
    <3> QED BY <1>2, <1>3, <2>2, <3>1 DEF Records
  <2> QED BY <2>1, <2>2
<1> HIDE DEF rec
<1>61. rec \in Records
  BY <1>6
<1>62. rec.socks = s.socks \ {sock}
  BY <1>6
<1>7. new.sessions = [st.sessions EXCEPT ![name] = rec]
  BY <1>5
<1>8. new \in ServerStates
  <2>1. [st.sessions EXCEPT ![name] = rec] \in [Names -> Records]
    BY <1>2, <1>61
  <2> HIDE DEF new
  <2> QED BY <1>1, <1>5, <2>1, StateFields, StateOf
<1>9. SocksBecome(st, new, name, s.socks \ {sock})
  <2> HIDE DEF new
  <2> QED BY <1>1, <1>2, <1>62, <1>7 DEF SocksBecome
<1>10. SessionsOK(new)
  <2> HIDE DEF new
  <2> SUFFICES ASSUME NEW n \in Names
               PROVE  /\ new.sessions[n].socks \subseteq {t \in Threads : UserOf[t] = n}
                      /\ new.sessions[n].count = Cardinality(new.sessions[n].socks)
                      /\ new.sessions[n].count > 0 => /\ new.sessions[n].user.name \in Names
                                                      /\ new.sessions[n].user.id > 0
    BY DEF SessionsOK
  <2>3. CASE n = name
    <3>1. new.sessions[n] = rec
      BY <1>1, <1>2, <1>7, <2>3
    <3>2. s.socks \subseteq {t \in Threads : UserOf[t] = name}
          /\ s.user.name \in Names /\ s.user.id > 0
      BY <1>1, <1>3 DEF SessionsOK
    <3>3. /\ rec.socks \subseteq {t \in Threads : UserOf[t] = name}
          /\ rec.count = Cardinality(rec.socks)
          /\ rec.count > 0 => rec.user.name \in Names /\ rec.user.id > 0
      BY <1>6, <3>2
    <3> HIDE DEF name
    <3> QED BY <2>3, <3>1, <3>3
  <2>4. CASE n # name
    <3>1. new.sessions[n] = st.sessions[n]
      BY <1>2, <1>7, <2>4
    <3> QED BY <1>1, <3>1 DEF SessionsOK
  <2> QED BY <2>3, <2>4
<1> QED
  BY <1>5, <1>8, <1>9, <1>10 DEF Good

\* A change of the file, the buffers or the mail leaves the sessions good.
LEMMA OtherFieldsGood ==
    ASSUME NEW st, Good(st), NEW new \in ServerStates, new.sessions = st.sessions
    PROVE  Good(new) /\ SocksStay(st, new)
BY DEF Good, SessionsOK, SocksStay

LEMMA FollowGood ==
    ASSUME NEW st, Good(st), NEW followee \in Names, NEW follower \in Names
    PROVE  LET new == Follow(st, followee, follower)
           IN  /\ Good(new) /\ SocksStay(st, new)
               /\ new.down = st.down /\ new.mail = st.mail /\ new.boxes = st.boxes
<1> DEFINE new == Follow(st, followee, follower)
           s == st.sessions[followee]
           user == IF IsOpen(st, followee) THEN s.user
                   ELSE LoadUser(st.db, followee, FALSE).user
           more == AddFollower(user, follower)
           db == SaveUser(st.db, more)
<1>1. /\ st \in ServerStates /\ SessionsOK(st)
      /\ st.db \in Seq(Lines) /\ st.sessions \in [Names -> Records]
      /\ st = [db |-> st.db, sessions |-> st.sessions, boxes |-> st.boxes,
               mail |-> st.mail, down |-> st.down]
  BY StateFields DEF Good
<1>2. s \in Records
  BY <1>1
<1>3. user \in Users /\ (IsOpen(st, followee) => user.name \in Names)
  <2>1. LoadUser(st.db, followee, FALSE).user \in Users
    BY <1>1, LoadUserTyped
  <2>2. IsOpen(st, followee) => s.user.name \in Names
    BY <1>1 DEF SessionsOK, IsOpen
  <2> QED BY <1>2, <2>1, <2>2 DEF Records
<1> HIDE DEF user
<1>4. /\ more \in Users /\ more.name = user.name /\ more.id = user.id
      /\ user.name \in Names => db \in Seq(Lines)
  BY <1>1, <1>3, AddFollowerTyped, SaveUserTyped
<1>5. CASE IsOpen(st, followee)
  <2> DEFINE rec == [s EXCEPT !.user = more]
  <2>1. new = [st EXCEPT !.sessions[followee].user = more, !.db = db]
    BY <1>5 DEF Follow, user
  <2> HIDE DEF more, db, new
  <2>2. rec \in Records /\ rec.socks = s.socks /\ rec.count = s.count /\ rec.user = more
    BY <1>2, <1>4 DEF Records
  <2> HIDE DEF rec
  <2>3. new = [db |-> db, sessions |-> [st.sessions EXCEPT ![followee] = rec],
               boxes |-> st.boxes, mail |-> st.mail, down |-> st.down]
    BY <1>1, <2>1 DEF rec
  <2>4. new \in ServerStates
    <3>1. [st.sessions EXCEPT ![followee] = rec] \in [Names -> Records]
      BY <1>1, <2>2
    <3> QED BY <1>1, <1>3, <1>4, <1>5, <2>3, <3>1, StateFields, StateOf
  <2>5. \A n \in Names : new.sessions[n] = IF n = followee THEN rec ELSE st.sessions[n]
    BY <1>1, <2>3
  <2>6. more.name \in Names /\ more.id > 0
    BY <1>1, <1>3, <1>4, <1>5 DEF SessionsOK, IsOpen, user
  <2>7. SessionsOK(new)
    <3> SUFFICES ASSUME NEW n \in Names
                 PROVE  /\ new.sessions[n].socks \subseteq {t \in Threads : UserOf[t] = n}
                        /\ new.sessions[n].count = Cardinality(new.sessions[n].socks)
                        /\ new.sessions[n].count > 0 => /\ new.sessions[n].user.name \in Names
                                                        /\ new.sessions[n].user.id > 0
      BY DEF SessionsOK
    <3> QED BY <1>1, <2>2, <2>5, <2>6 DEF SessionsOK
  <2>8. SocksStay(st, new)
    BY <2>2, <2>5 DEF SocksStay
  <2>9. /\ Good(new) /\ SocksStay(st, new)
        /\ new.down = st.down /\ new.mail = st.mail /\ new.boxes = st.boxes
    BY <2>3, <2>4, <2>7, <2>8 DEF Good
  <2> QED BY <2>9 DEF new
<1>6. CASE ~IsOpen(st, followee)
  <2>1. CASE user.name = followee
    <3>1. new = [st EXCEPT !.db = db]
      BY <1>6, <2>1 DEF Follow, user
    <3> HIDE DEF db, new
    <3>2. new = [db |-> db, sessions |-> st.sessions,
                 boxes |-> st.boxes, mail |-> st.mail, down |-> st.down]
      BY <1>1, <3>1
    <3>3. new \in ServerStates
      BY <1>1, <1>4, <2>1, <3>2, StateFields, StateOf
    <3>4. new.sessions = st.sessions
      BY <3>2
    <3>5. Good(new) /\ SocksStay(st, new)
      BY <3>3, <3>4, OtherFieldsGood
    <3>6. new.down = st.down /\ new.mail = st.mail /\ new.boxes = st.boxes
      BY <3>2
    <3> QED BY <3>5, <3>6 DEF new
  <2>2. CASE user.name # followee
    <3>1. new = st
      BY <1>6, <2>2 DEF Follow, user
    <3> QED BY <3>1 DEF SocksStay
  <2> QED BY <2>1, <2>2
<1> QED BY <1>5, <1>6

LEMMA EnsureBoxesGood ==
    ASSUME NEW st, Good(st), NEW creator \in Names
    PROVE  LET new == EnsureBoxes(st, creator)
           IN  /\ Good(new) /\ SocksStay(st, new) /\ new.sessions = st.sessions
               /\ new.down = st.down /\ new.mail = st.mail /\ new.db = st.db
               /\ Followers(new, creator) \subseteq new.boxes
<1> DEFINE new == EnsureBoxes(st, creator)
           to == Followers(st, creator)
<1>1. /\ st.sessions \in [Names -> Records]
      /\ st = [db |-> st.db, sessions |-> st.sessions, boxes |-> st.boxes,
               mail |-> st.mail, down |-> st.down]
  BY StateFields DEF Good
<1>2. to \subseteq Names
  BY <1>1 DEF Followers, Records, Users
<1>3. new = [db |-> st.db, sessions |-> st.sessions, boxes |-> st.boxes \cup to,
             mail |-> st.mail, down |-> st.down]
  <2>1. new = [st EXCEPT !.boxes = st.boxes \cup to]
    BY DEF EnsureBoxes
  <2> HIDE DEF new, to
  <2> QED BY <1>1, <2>1
<1>4. new \in ServerStates
  <2> HIDE DEF new, to
  <2> QED BY <1>2, <1>3, StateFields, StateOf DEF Good
<1> QED BY <1>3, <1>4, OtherFieldsGood DEF Followers

\* A message is left in the buffer of every follower that has room for it; the
\* process ends only where a follower has no buffer.
LEMMA EnqueueGood ==
    ASSUME NEW st, Good(st), NEW creator \in Names, NEW id \in 1..MaxMessages
    PROVE  LET new == Enqueue(st, creator, id)
           IN  /\ Good(new) /\ SocksStay(st, new) /\ new.sessions = st.sessions
               /\ new.db = st.db
               /\ Followers(st, creator) \subseteq st.boxes => new.down = st.down
<1> DEFINE new == Enqueue(st, creator, id)
           to == Followers(st, creator)
           m == [id |-> id, delivered |-> FALSE]
           mail == [n \in Names |->
                      IF n \in to /\ Len(st.mail[n]) < BoxSize THEN Append(st.mail[n], m)
                      ELSE st.mail[n]]
<1>1. /\ st \in ServerStates /\ st.mail \in [Names -> Seq(Packets)]
      /\ st = [db |-> st.db, sessions |-> st.sessions, boxes |-> st.boxes,
               mail |-> st.mail, down |-> st.down]
  BY StateFields DEF Good
<1>2. m \in Packets
  BY DEF Packets
<1>3. mail \in [Names -> Seq(Packets)]
  <2> HIDE DEF m, to
  <2> QED BY <1>1, <1>2
<1>4. CASE ~(to \subseteq st.boxes)
  <2>1. new = [db |-> st.db, sessions |-> st.sessions, boxes |-> st.boxes,
               mail |-> st.mail, down |-> TRUE]
    BY <1>1, <1>4 DEF Enqueue
  <2>2. new \in ServerStates
    <3> HIDE DEF new
    <3> QED BY <1>1, <2>1, StateFields, StateOf
  <2>3. Good(new) /\ SocksStay(st, new) /\ new.sessions = st.sessions /\ new.db = st.db
    <3> HIDE DEF new
    <3>1. new.sessions = st.sessions /\ new.db = st.db
      BY <2>1
    <3> QED BY <2>2, <3>1, OtherFieldsGood
  <2> QED BY <1>4, <2>3
<1>5. CASE to \subseteq st.boxes
  <2>1. new = [st EXCEPT !.mail = mail]
    BY <1>5 DEF Enqueue
  <2>2. new = [db |-> st.db, sessions |-> st.sessions, boxes |-> st.boxes,
               mail |-> mail, down |-> st.down]
    <3> HIDE DEF new, mail
    <3> QED BY <1>1, <2>1
  <2>3. new \in ServerStates
    <3> HIDE DEF new, mail
    <3> QED BY <1>1, <1>3, <2>2, StateFields, StateOf
  <2>4. /\ Good(new) /\ SocksStay(st, new) /\ new.sessions = st.sessions
        /\ new.db = st.db /\ new.down = st.down
    <3> HIDE DEF new, mail
    <3>1. new.sessions = st.sessions /\ new.db = st.db /\ new.down = st.down
      BY <2>2
    <3> QED BY <2>3, <3>1, OtherFieldsGood
  <2> QED BY <2>4
<1> QED BY <1>4, <1>5

LEMMA SendMessageGood ==
    ASSUME NEW st, Good(st), NEW creator \in Names, NEW id \in 1..MaxMessages
    PROVE  LET new == SendMessage(st, creator, id)
           IN  /\ Good(new) /\ SocksStay(st, new) /\ new.sessions = st.sessions
               /\ new.db = st.db /\ new.down = st.down
<1> DEFINE mid == EnsureBoxes(st, creator)
<1>1. Good(mid) /\ Followers(mid, creator) \subseteq mid.boxes
      /\ mid.sessions = st.sessions /\ mid.down = st.down /\ mid.db = st.db
      /\ SocksStay(st, mid)
  BY EnsureBoxesGood
<1> HIDE DEF mid
<1>2. SendMessage(st, creator, id) = Enqueue(mid, creator, id)
  BY DEF SendMessage, mid
<1> QED BY <1>1, <1>2, EnqueueGood DEF SocksStay

\* Only the mail of one user changes.
LEMMA MailOfOne ==
    ASSUME NEW st, Good(st), NEW to \in Names, NEW q \in Seq(Packets)
    PROVE  LET new == [st EXCEPT !.mail[to] = q]
           IN  /\ Good(new) /\ SocksStay(st, new) /\ new.sessions = st.sessions
               /\ new.down = st.down /\ new.db = st.db /\ new.boxes = st.boxes
               /\ new.mail = [st.mail EXCEPT ![to] = q]
<1> DEFINE new == [st EXCEPT !.mail[to] = q]
           mail == [st.mail EXCEPT ![to] = q]
<1>1. /\ st \in ServerStates /\ st.mail \in [Names -> Seq(Packets)]
      /\ st = [db |-> st.db, sessions |-> st.sessions, boxes |-> st.boxes,
               mail |-> st.mail, down |-> st.down]
  BY StateFields DEF Good
<1>2. new = [db |-> st.db, sessions |-> st.sessions, boxes |-> st.boxes,
             mail |-> mail, down |-> st.down]
  <2>1. new = [st EXCEPT !.mail = mail]
    BY <1>1
  <2> HIDE DEF mail, new
  <2> QED BY <1>1, <2>1
<1> HIDE DEF new
<1>3. new \in ServerStates
  <2>1. mail \in [Names -> Seq(Packets)]
    BY <1>1
  <2> HIDE DEF mail
  <2> QED BY <1>1, <1>2, <2>1, StateFields, StateOf
<1>4. new.sessions = st.sessions /\ new.down = st.down /\ new.db = st.db
      /\ new.boxes = st.boxes /\ new.mail = mail
  BY <1>2
<1>5. Good(new) /\ SocksStay(st, new)
  BY <1>3, <1>4, OtherFieldsGood
<1> QED BY <1>4, <1>5 DEF new

LEMMA MarkDeliveredGood ==
    ASSUME NEW st, Good(st), NEW to \in Names, NEW id
    PROVE  LET new == MarkDelivered(st, to, id)
           IN  /\ Good(new) /\ SocksStay(st, new) /\ new.sessions = st.sessions
               /\ new.down = st.down /\ new.db = st.db /\ new.boxes = st.boxes
<1> DEFINE new == MarkDelivered(st, to, id)
           old == st.mail[to]
           q == [k \in DOMAIN old |->
                   IF old[k].id = id THEN [old[k] EXCEPT !.delivered = TRUE] ELSE old[k]]
<1>1. old \in Seq(Packets)
  BY StateFields DEF Good
<1>2. q \in Seq(Packets)
  <2> HIDE DEF old
  <2>0. DOMAIN old = 1..Len(old) /\ Len(old) \in Nat /\ \A k \in 1..Len(old) : old[k] \in Packets
    BY <1>1, LenProperties, ElementOfSeq
  <2>1. q \in [1..Len(old) -> Packets]
    BY <2>0 DEF Packets
  <2> HIDE DEF q
  <2> QED BY <2>0, <2>1, SeqDef
<1>3. new = [st EXCEPT !.mail[to] = q]
  BY DEF MarkDelivered
<1> HIDE DEF q, new
<1>4. /\ Good(new) /\ SocksStay(st, new) /\ new.sessions = st.sessions
      /\ new.down = st.down /\ new.db = st.db /\ new.boxes = st.boxes
  <2> HIDE DEF old
  <2> QED BY <1>2, <1>3, MailOfOne
<1> QED BY <1>4 DEF new

\* r is left of q when delivered messages are taken from the front.
Dropped(q, r) ==
    \E d \in 0..Len(q) :
        /\ Len(r) = Len(q) - d
        /\ \A k \in 1..d : q[k].delivered
        /\ \A k \in 1..Len(r) : r[k] = q[k + d]

\* Some of the last messages are left; what is dropped is delivered, and the
\* first that is left is not.
LEMMA GetPacketGood ==
    ASSUME NEW st, Good(st), NEW to \in Names
    PROVE  LET new == GetPacket(st, to)
               q   == st.mail[to]
               r   == new.mail[to]
           IN  /\ Good(new) /\ SocksStay(st, new) /\ new.sessions = st.sessions
               /\ new.down = st.down /\ new.db = st.db /\ new.boxes = st.boxes
               /\ \A n \in Names : n # to => new.mail[n] = st.mail[n]
               /\ q \in Seq(Packets) /\ r \in Seq(Packets)
               /\ Dropped(q, r)
               /\ r # <<>> => Head(r) \in Packets /\ Head(r) = r[1] /\ ~r[1].delivered
<1> DEFINE new == GetPacket(st, to)
           q == st.mail[to]
           left == {k \in DOMAIN q : ~q[k].delivered}
           first == CHOOSE k \in left : \A j \in left : k <= j
           rest == IF left = {} THEN <<>> ELSE SubSeq(q, first, Len(q))
<1>1. q \in Seq(Packets) /\ st.mail \in [Names -> Seq(Packets)]
  BY StateFields DEF Good
<1>2. left \subseteq 1..Len(q) /\ Len(q) \in Nat
  <2> HIDE DEF q
  <2> QED BY <1>1, LenProperties
<1>3. new = [st EXCEPT !.mail[to] = rest]
  BY DEF GetPacket
<1>4. /\ rest \in Seq(Packets)
      /\ Dropped(q, rest)
      /\ rest # <<>> => Head(rest) \in Packets /\ Head(rest) = rest[1] /\ ~rest[1].delivered
  <2>1. CASE left = {}
    <3>1. rest = <<>>
      BY <2>1
    <3>2. \A k \in 1..Len(q) : q[k].delivered
      <4> HIDE DEF q
      <4> QED BY <1>1, <2>1, LenProperties
    <3> HIDE DEF rest, q, left
    <3>3. Len(rest) = Len(q) - Len(q) /\ Len(q) \in 0..Len(q)
          /\ \A k \in 1..Len(rest) : rest[k] = q[k + Len(q)]
      BY <1>2, <3>1
    <3>4. Dropped(q, rest)
      BY <3>2, <3>3 DEF Dropped
    <3> QED BY <3>1, <3>4
  <2>2. CASE left # {}
    <3> HIDE DEF q
    <3>1. first \in left /\ \A j \in left : first <= j
      <4>1. left \in SUBSET Nat
        BY <1>2
      <4>2. \E k \in left : \A j \in left : k <= j
        <5> HIDE DEF left
        <5> QED BY <2>2, <4>1, LeastOf
      <4> HIDE DEF left
      <4> QED BY <4>2
    <3>2. first \in 1..Len(q) /\ ~q[first].delivered
      BY <1>2, <3>1
    <3>3. rest = SubSeq(q, first, Len(q))
      BY <2>2
    <3>4. \A k \in 1 .. first - 1 : q[k].delivered
      <4> SUFFICES ASSUME NEW k \in 1 .. first - 1, ~q[k].delivered PROVE FALSE
        OBVIOUS
      <4>1. k \in 1..Len(q) /\ ~(first <= k)
        <5> HIDE DEF first
        <5> QED BY <1>2, <3>2
      <4>2. k \in left
        BY <1>1, <4>1, LenProperties
      <4> QED BY <3>1, <4>1, <4>2
    <3> HIDE DEF first, rest, left
    <3>5. \A k \in first..Len(q) : q[k] \in Packets
      BY <1>1, <1>2, <3>2, ElementOfSeq
    <3>6. /\ rest \in Seq(Packets)
          /\ Len(rest) = Len(q) - first + 1
          /\ \A k \in 1 .. Len(q) - first + 1 : rest[k] = q[first + k - 1]
      BY <1>2, <3>2, <3>3, <3>5, SubSeqProperties
    <3>7. /\ Len(rest) = Len(q) - (first - 1) /\ first - 1 \in 0..Len(q)
          /\ \A k \in 1..Len(rest) : rest[k] = q[k + (first - 1)]
      BY <1>2, <3>2, <3>6
    <3>8. rest[1] = q[first] /\ Len(rest) >= 1
      BY <1>2, <3>2, <3>6
    <3>9. Head(rest) = rest[1] /\ rest[1] \in Packets
      BY <3>5, <3>6, <3>8, <3>2, <1>2
    <3>10. Dropped(q, rest)
      BY <3>4, <3>7 DEF Dropped
    <3>11. ~rest[1].delivered
      BY <3>2, <3>8
    <3>12. rest \in Seq(Packets)
      BY <3>6
    <3> QED BY <3>9, <3>10, <3>11, <3>12
  <2> QED BY <2>1, <2>2
<1> HIDE DEF rest, left, first, new
<1>5. /\ Good(new) /\ SocksStay(st, new) /\ new.sessions = st.sessions
      /\ new.down = st.down /\ new.db = st.db /\ new.boxes = st.boxes
      /\ new.mail = [st.mail EXCEPT ![to] = rest]
  <2>1. rest \in Seq(Packets)
    BY <1>4
  <2> HIDE DEF q
  <2> QED BY <1>3, <2>1, MailOfOne
<1>6. new.mail[to] = rest /\ \A n \in Names : n # to => new.mail[n] = st.mail[n]
  BY <1>1, <1>5
<1> QED BY <1>1, <1>4, <1>5, <1>6 DEF new

LEMMA UpdateClientsGood ==
    ASSUME NEW st, Good(st)
    PROVE  LET new == UpdateClients(st)
           IN  /\ Good(new) /\ new.down = st.down /\ new.db = st.db /\ new.mail = st.mail
               /\ \A n \in Names : new.sessions[n].socks = {} /\ new.sessions[n].count = 0
<1> DEFINE new == UpdateClients(st)
<1>0. NoSession.socks = {} /\ NoSession.count = 0
  BY DEF NoSession
<1>1. /\ st \in ServerStates
      /\ st = [db |-> st.db, sessions |-> st.sessions, boxes |-> st.boxes,
               mail |-> st.mail, down |-> st.down]
  BY StateFields DEF Good
<1>2. new = [db |-> st.db, sessions |-> [n \in Names |-> NoSession], boxes |-> st.boxes,
             mail |-> st.mail, down |-> st.down]
  BY <1>1 DEF UpdateClients
<1>3. NoSession \in Records
  BY DEF NoUser, NoSession, Users, Records
<1>4. new \in ServerStates
  <2> HIDE DEF new
  <2>1. [n \in Names |-> NoSession] \in [Names -> Records]
    BY <1>3
  <2> QED BY <1>1, <1>2, <2>1, StateFields, StateOf
<1>5. \A n \in Names : new.sessions[n] = NoSession
  <2> HIDE DEF new
  <2> QED BY <1>2
<1> HIDE DEF new
<1>6. \A n \in Names : new.sessions[n].socks = {} /\ new.sessions[n].count = 0
  BY <1>0, <1>5
<1>7. SessionsOK(new)
  <2>1. Cardinality({}) = 0
    BY FS_EmptySet
  <2>2. ~(0 > 0)
    OBVIOUS
  <2> QED BY <1>6, <2>1, <2>2, Zenon DEF SessionsOK
<1>8. new.down = st.down /\ new.db = st.db /\ new.mail = st.mail
  BY <1>2
<1> QED BY <1>4, <1>6, <1>7, <1>8 DEF Good, new

\* A server to which CLOSEs come that belong to no session is as the new leader
\* is, but that it fails.
LEMMA ReceiveClosesGood ==
    ASSUME NEW st, Good(st), NEW stray
    PROVE  LET new == ReceiveCloses(st, stray)
           IN  /\ Good(new) /\ new.db = st.db /\ new.mail = st.mail
               /\ new.down => st.down \/ stray # {}
               /\ \A n \in Names : new.sessions[n].socks = {} /\ new.sessions[n].count = 0
<1> DEFINE mid == UpdateClients(st)
           new == ReceiveCloses(st, stray)
           down == st.down \/ stray # {}
<1>1. /\ Good(mid) /\ mid.db = st.db /\ mid.mail = st.mail
      /\ \A n \in Names : mid.sessions[n].socks = {} /\ mid.sessions[n].count = 0
  BY UpdateClientsGood
<1>2. new = [mid EXCEPT !.down = down]
  BY DEF ReceiveCloses
<1>3. down \in BOOLEAN
  OBVIOUS
<1> HIDE DEF mid, new
<1>4. /\ mid = [db |-> mid.db, sessions |-> mid.sessions, boxes |-> mid.boxes,
                mail |-> mid.mail, down |-> mid.down]
      /\ mid.db \in Seq(Lines) /\ mid.sessions \in [Names -> Records]
      /\ mid.boxes \subseteq Names /\ mid.mail \in [Names -> Seq(Packets)]
  BY <1>1, StateFields DEF Good
<1>5. new = [db |-> mid.db, sessions |-> mid.sessions, boxes |-> mid.boxes,
             mail |-> mid.mail, down |-> down]
  <2> HIDE DEF down
  <2> QED BY <1>2, <1>4
<1>6. /\ new \in ServerStates /\ new.db = mid.db /\ new.sessions = mid.sessions
      /\ new.mail = mid.mail /\ new.down = down
  <2> HIDE DEF down
  <2> QED BY <1>3, <1>4, <1>5, StateOf
<1>7. Good(new)
  BY <1>1, <1>6 DEF Good, SessionsOK
<1> QED BY <1>1, <1>6, <1>7 DEF new

-----------------------------------------------------------------------------
(* Commands *)

AnyCommand == [type : CommandTypes, user : Names, arg : Threads \cup Names \cup Nat]

WellFormed(c) ==
    /\ c \in AnyCommand
    /\ c.type \in {"LOGIN", "CLOSE"} => c.arg \in Threads /\ c.user = UserOf[c.arg]
    /\ c.type = "FOLLOW" => c.arg \in Names
    /\ c.type \in {"MESSAGE", "DELIVERED"} => c.arg \in 1..MaxMessages

\* A login is of a socket that is not there, a close of one that is.
Fits(st, c) ==
    /\ c.type = "LOGIN" => c.arg \notin st.sessions[c.user].socks
    /\ c.type = "CLOSE" => c.arg \in st.sessions[c.user].socks

\* A command that fits keeps the sessions good and the process alive.
LEMMA CommitGood ==
    ASSUME NEW st, Good(st), NEW c, WellFormed(c), Fits(st, c)
    PROVE  /\ Good(Commit(st, c))
           /\ Commit(st, c).down = st.down
           /\ c.type = "LOGIN" =>
                 SocksBecome(st, Commit(st, c), c.user, st.sessions[c.user].socks \cup {c.arg})
           /\ c.type = "CLOSE" =>
                 SocksBecome(st, Commit(st, c), c.user, st.sessions[c.user].socks \ {c.arg})
           /\ c.type \notin {"LOGIN", "CLOSE"} => SocksStay(st, Commit(st, c))
<1>1. c.type \in CommandTypes /\ c.user \in Names
  BY DEF WellFormed, AnyCommand
<1>2. CASE c.type = "LOGIN"
  <2>1. Commit(st, c) = CreateSession(st, UserOf[c.arg], c.arg) /\ c.user = UserOf[c.arg]
        /\ c.arg \in Threads
    BY <1>2 DEF Commit, WellFormed
  <2> QED BY <1>2, <2>1, CreateSessionGood DEF Fits
<1>3. CASE c.type = "CLOSE"
  <2>1. Commit(st, c) = CloseSession(st, UserOf[c.arg], c.arg) /\ c.user = UserOf[c.arg]
        /\ c.arg \in Threads
    BY <1>3 DEF Commit, WellFormed
  <2> QED BY <1>3, <2>1, CloseSessionGood DEF Fits
<1>4. CASE c.type = "FOLLOW"
  <2>1. Commit(st, c) = Follow(st, c.user, c.arg) /\ c.arg \in Names
    BY <1>4 DEF Commit, WellFormed
  <2> QED BY <1>1, <1>4, <2>1, FollowGood
<1>5. CASE c.type = "DELIVERED"
  <2>1. Commit(st, c) = MarkDelivered(st, c.user, c.arg)
    BY <1>5 DEF Commit
  <2> QED BY <1>1, <1>5, <2>1, MarkDeliveredGood
<1>6. CASE c.type = "MESSAGE"
  <2>1. Commit(st, c) = (IF IsOpen(st, c.user) THEN SendMessage(st, c.user, c.arg) ELSE st)
        /\ c.arg \in 1..MaxMessages
    BY <1>6 DEF Commit, WellFormed
  <2> QED BY <1>1, <1>6, <2>1, SendMessageGood DEF SocksStay
<1> QED BY <1>1, <1>2, <1>3, <1>4, <1>5, <1>6 DEF CommandTypes

-----------------------------------------------------------------------------
(* What waits for the users *)

LEMMA MailIs ==
    ASSUME NEW st, NEW n
    PROVE  /\ \A id : id \in MailIds(st, n) <=> \E k \in DOMAIN st.mail[n] : st.mail[n][k].id = id
           /\ \A id : id \in Unread(st, n) <=>
                 \E k \in DOMAIN st.mail[n] : st.mail[n][k].id = id /\ ~st.mail[n][k].delivered
           /\ Unread(st, n) \subseteq MailIds(st, n)
<1>1. \A id : id \in MailIds(st, n) <=> \E k \in DOMAIN st.mail[n] : st.mail[n][k].id = id
  BY DEF MailIds
<1>2. \A id : id \in Unread(st, n) <=>
         \E k \in DOMAIN st.mail[n] : st.mail[n][k].id = id /\ ~st.mail[n][k].delivered
  BY DEF Unread
<1> QED BY <1>1, <1>2

LEMMA MailTyped ==
    ASSUME NEW st, Good(st), NEW n \in Names
    PROVE  /\ st.mail[n] \in Seq(Packets) /\ Len(st.mail[n]) \in Nat
           /\ DOMAIN st.mail[n] = 1..Len(st.mail[n])
           /\ \A k \in DOMAIN st.mail[n] : st.mail[n][k] \in Packets
           /\ MailIds(st, n) \subseteq 1..MaxMessages
<1>1. st.mail[n] \in Seq(Packets)
  BY StateFields DEF Good
<1> DEFINE q == st.mail[n]
<1>2. Len(q) \in Nat /\ DOMAIN q = 1..Len(q) /\ \A k \in DOMAIN q : q[k] \in Packets
  <2> HIDE DEF q
  <2>1. q \in Seq(Packets)
    BY <1>1 DEF q
  <2> QED BY <2>1
<1>3. \A k \in DOMAIN q : q[k].id \in 1..MaxMessages
  BY <1>2 DEF Packets
<1> QED BY <1>1, <1>2, <1>3, MailIs

\* The same messages wait, and the same of them are delivered.
SameMail(old, st, n) == MailIds(st, n) = MailIds(old, n) /\ Unread(st, n) = Unread(old, n)

LEMMA MailUnchanged ==
    ASSUME NEW old, NEW st, NEW n, st.mail[n] = old.mail[n]
    PROVE  SameMail(old, st, n)
BY DEF SameMail, MailIds, Unread

\* At most one message has been added.
MailGrows(old, st, n, id) ==
    /\ MailIds(old, n) \subseteq MailIds(st, n)
    /\ MailIds(st, n) \subseteq MailIds(old, n) \cup {id}
    /\ Unread(old, n) \subseteq Unread(st, n)
    /\ Unread(st, n) \subseteq Unread(old, n) \cup {id}

LEMMA MailAppended ==
    ASSUME NEW old, Good(old), NEW st, NEW n \in Names, NEW id \in 1..MaxMessages,
           st.mail[n] = Append(old.mail[n], [id |-> id, delivered |-> FALSE])
    PROVE  MailGrows(old, st, n, id) /\ id \in Unread(st, n)
<1> DEFINE q == old.mail[n]
           m == [id |-> id, delivered |-> FALSE]
           r == st.mail[n]
<1>1. q \in Seq(Packets) /\ Len(q) \in Nat /\ DOMAIN q = 1..Len(q)
  BY MailTyped
<1>2. m \in Packets
  BY DEF Packets
<1>3. m.id = id /\ ~m.delivered
  OBVIOUS
<1> HIDE DEF m
<1>4. r = Append(q, m)
  BY DEF m
<1> HIDE DEF q, r
<1>5. /\ DOMAIN r = 1..(Len(q) + 1) /\ r[Len(q) + 1] = m
      /\ \A k \in 1..Len(q) : r[k] = q[k]
  BY <1>1, <1>2, <1>4
<1>6. \A k \in DOMAIN q : k \in DOMAIN r /\ r[k] = q[k]
  BY <1>1, <1>5
<1>7. \A k \in DOMAIN r : (k \in DOMAIN q /\ r[k] = q[k]) \/ r[k] = m
  BY <1>1, <1>5
<1>8. Len(q) + 1 \in DOMAIN r
  BY <1>1, <1>5
<1>9. /\ \A i : i \in MailIds(old, n) <=> \E k \in DOMAIN q : q[k].id = i
      /\ \A i : i \in Unread(old, n) <=> \E k \in DOMAIN q : q[k].id = i /\ ~q[k].delivered
  BY MailIs DEF q
<1>10. /\ \A i : i \in MailIds(st, n) <=> \E k \in DOMAIN r : r[k].id = i
       /\ \A i : i \in Unread(st, n) <=> \E k \in DOMAIN r : r[k].id = i /\ ~r[k].delivered
  <2>1. MailIds(st, n) = {r[k].id : k \in DOMAIN r}
    BY DEF MailIds, r
  <2>2. Unread(st, n) = {r[k].id : k \in {j \in DOMAIN r : ~r[j].delivered}}
    BY DEF Unread, r
  <2> QED BY <2>1, <2>2
<1>11. id \in Unread(st, n)
  BY <1>3, <1>5, <1>8, <1>10
<1>12. MailIds(old, n) \subseteq MailIds(st, n) /\ Unread(old, n) \subseteq Unread(st, n)
  BY <1>6, <1>9, <1>10
<1>13. MailIds(st, n) \subseteq MailIds(old, n) \cup {id}
  BY <1>3, <1>7, <1>9, <1>10
<1>14. Unread(st, n) \subseteq Unread(old, n) \cup {id}
  BY <1>3, <1>7, <1>9, <1>10
<1> QED BY <1>11, <1>12, <1>13, <1>14 DEF MailGrows

LEMMA EnqueueMail ==
    ASSUME NEW st, Good(st), NEW creator \in Names, NEW id \in 1..MaxMessages, NEW n \in Names
    PROVE  LET new == Enqueue(st, creator, id)
           IN  /\ MailGrows(st, new, n, id)
               /\ Followers(st, creator) \subseteq st.boxes =>
                     /\ n \in Followers(st, creator) /\ Len(st.mail[n]) < BoxSize
                           => id \in Unread(new, n)
               /\ new.mail[n] = st.mail[n] \/
                  new.mail[n] = Append(st.mail[n], [id |-> id, delivered |-> FALSE])
<1> DEFINE new == Enqueue(st, creator, id)
           to == Followers(st, creator)
           m == [id |-> id, delivered |-> FALSE]
           mail == [i \in Names |->
                      IF i \in to /\ Len(st.mail[i]) < BoxSize THEN Append(st.mail[i], m)
                      ELSE st.mail[i]]
<1>1. st = [db |-> st.db, sessions |-> st.sessions, boxes |-> st.boxes,
            mail |-> st.mail, down |-> st.down]
  BY StateFields DEF Good
<1>2. CASE ~(to \subseteq st.boxes)
  <2>1. new = [st EXCEPT !.down = TRUE]
    BY <1>2 DEF Enqueue
  <2>2. new.mail = st.mail
    <3> HIDE DEF new
    <3> QED BY <1>1, <2>1
  <2>3. new.mail[n] = st.mail[n]
    <3> HIDE DEF new
    <3> QED BY <2>2
  <2>4. SameMail(st, new, n)
    <3> HIDE DEF new
    <3> QED BY <2>3, MailUnchanged
  <2>5. MailGrows(st, new, n, id)
    BY <2>4 DEF SameMail, MailGrows
  <2> HIDE DEF new
  <2>6. /\ MailGrows(st, new, n, id) /\ new.mail[n] = st.mail[n] /\ ~(to \subseteq st.boxes)
    BY <1>2, <2>3, <2>5
  <2> QED BY <2>6 DEF new
<1>3. CASE to \subseteq st.boxes
  <2>1. new = [st EXCEPT !.mail = mail]
    BY <1>3 DEF Enqueue
  <2>2. new.mail = mail
    <3> HIDE DEF new, mail
    <3> QED BY <1>1, <2>1
  <2>3. new.mail[n] = IF n \in to /\ Len(st.mail[n]) < BoxSize THEN Append(st.mail[n], m)
                      ELSE st.mail[n]
    <3> HIDE DEF new, m, to
    <3> QED BY <2>2
  <2> HIDE DEF new
  <2>4. CASE n \in to /\ Len(st.mail[n]) < BoxSize
    <3>1. new.mail[n] = Append(st.mail[n], m)
      BY <2>3, <2>4
    <3>2. MailGrows(st, new, n, id) /\ id \in Unread(new, n)
      BY <3>1, MailAppended
    <3> QED BY <3>1, <3>2 DEF new
  <2>5. CASE ~(n \in to /\ Len(st.mail[n]) < BoxSize)
    <3>1. new.mail[n] = st.mail[n]
      BY <2>3, <2>5
    <3>2. SameMail(st, new, n)
      BY <3>1, MailUnchanged
    <3>3. MailGrows(st, new, n, id)
      BY <3>2 DEF SameMail, MailGrows
    <3> HIDE DEF m
    <3> QED BY <2>5, <3>1, <3>3 DEF new
  <2> QED BY <2>4, <2>5
<1> QED BY <1>2, <1>3

\* The mark is all that a delivery changes.
LEMMA MarkMail ==
    ASSUME NEW st, Good(st), NEW to \in Names, NEW id, NEW n \in Names
    PROVE  LET new == MarkDelivered(st, to, id)
           IN  /\ MailIds(new, n) = MailIds(st, n)
               /\ Unread(new, n) = IF n = to THEN Unread(st, n) \ {id} ELSE Unread(st, n)
               /\ DOMAIN new.mail[n] = DOMAIN st.mail[n]
               /\ \A k \in DOMAIN st.mail[n] : new.mail[n][k].id = st.mail[n][k].id
<1> DEFINE new == MarkDelivered(st, to, id)
           old == st.mail[to]
           q == [k \in DOMAIN old |->
                   IF old[k].id = id THEN [old[k] EXCEPT !.delivered = TRUE] ELSE old[k]]
<1>1. new = [st EXCEPT !.mail[to] = q]
  BY DEF MarkDelivered
<1>2. /\ st = [db |-> st.db, sessions |-> st.sessions, boxes |-> st.boxes,
               mail |-> st.mail, down |-> st.down]
      /\ st.mail \in [Names -> Seq(Packets)]
  BY StateFields DEF Good
<1>3. new.mail = [st.mail EXCEPT ![to] = q]
  <2> HIDE DEF q, new
  <2> QED BY <1>1, <1>2
<1> HIDE DEF new
<1>4. CASE n # to
  <2>1. new.mail[n] = st.mail[n]
    <3> HIDE DEF q
    <3> QED BY <1>2, <1>3, <1>4
  <2>2. SameMail(st, new, n)
    BY <2>1, MailUnchanged
  <2>3. MailIds(new, n) = MailIds(st, n) /\ Unread(new, n) = Unread(st, n)
    BY <2>2 DEF SameMail
  <2>4. /\ DOMAIN new.mail[n] = DOMAIN st.mail[n]
        /\ \A k \in DOMAIN st.mail[n] : new.mail[n][k].id = st.mail[n][k].id
    BY <2>1
  <2> HIDE DEF q
  <2> QED BY <1>4, <2>3, <2>4 DEF new
<1>5. CASE n = to
  <2>1. new.mail[n] = q
    <3> HIDE DEF q
    <3> QED BY <1>2, <1>3, <1>5
  <2>2. \A k \in DOMAIN old : old[k] \in Packets
    BY MailTyped
  <2>3. DOMAIN q = DOMAIN old
    OBVIOUS
  <2>4. ASSUME NEW k \in DOMAIN old
        PROVE  /\ q[k].id = old[k].id
               /\ q[k].delivered = IF old[k].id = id THEN TRUE ELSE old[k].delivered
    <3>1. q[k] = IF old[k].id = id THEN [old[k] EXCEPT !.delivered = TRUE] ELSE old[k]
      OBVIOUS
    <3>2. old[k] = [id |-> old[k].id, delivered |-> old[k].delivered]
      BY <2>2 DEF Packets
    <3> HIDE DEF q, old
    <3> QED BY <3>1, <3>2
  <2> HIDE DEF q
  <2>7. /\ \A i : i \in MailIds(new, n) <=> \E k \in DOMAIN q : q[k].id = i
        /\ \A i : i \in Unread(new, n) <=> \E k \in DOMAIN q : q[k].id = i /\ ~q[k].delivered
    BY <2>1, MailIs
  <2>8. /\ \A i : i \in MailIds(st, n) <=> \E k \in DOMAIN old : old[k].id = i
        /\ \A i : i \in Unread(st, n) <=> \E k \in DOMAIN old : old[k].id = i /\ ~old[k].delivered
    BY <1>5, MailIs
  <2>9. DOMAIN new.mail[n] = DOMAIN st.mail[n]
        /\ \A k \in DOMAIN st.mail[n] : new.mail[n][k].id = st.mail[n][k].id
    BY <1>5, <2>1, <2>3, <2>4
  <2> HIDE DEF old
  <2>5. MailIds(new, n) = MailIds(st, n)
    <3>1. ASSUME NEW i PROVE (\E k \in DOMAIN q : q[k].id = i) <=> (\E k \in DOMAIN old : old[k].id = i)
      BY <2>3, <2>4
    <3>2. \A i : i \in MailIds(new, n) <=> i \in MailIds(st, n)
      BY <2>7, <2>8, <3>1
    <3> QED BY <3>2
  <2>6. Unread(new, n) = Unread(st, n) \ {id}
    <3>1. \A i : i \in Unread(new, n) <=>
             \E k \in DOMAIN old : old[k].id = i /\ ~old[k].delivered /\ old[k].id # id
      <4>1. ASSUME NEW k \in DOMAIN old
            PROVE  ~q[k].delivered <=> (~old[k].delivered /\ old[k].id # id)
        BY <2>2, <2>4
      <4>2. ASSUME NEW i
            PROVE  (\E k \in DOMAIN q : q[k].id = i /\ ~q[k].delivered) <=>
                   (\E k \in DOMAIN old : old[k].id = i /\ ~old[k].delivered /\ old[k].id # id)
        BY <2>3, <2>4, <4>1
      <4> QED BY <2>7, <4>2
    <3> QED BY <2>8, <3>1
  <2> QED BY <1>5, <2>5, <2>6, <2>9 DEF new
<1> QED BY <1>4, <1>5

\* Only delivered messages leave the front of a buffer.
LEMMA GetMail ==
    ASSUME NEW st, Good(st), NEW to \in Names, NEW n \in Names
    PROVE  LET new == GetPacket(st, to)
           IN  MailIds(new, n) \subseteq MailIds(st, n) /\ Unread(new, n) = Unread(st, n)
<1> DEFINE new == GetPacket(st, to)
           q == st.mail[to]
           r == new.mail[to]
<1> HIDE DEF q, r
<1>1. /\ \A i \in Names : i # to => new.mail[i] = st.mail[i]
      /\ q \in Seq(Packets) /\ r \in Seq(Packets) /\ Dropped(q, r)
  BY GetPacketGood DEF q, r
<1> HIDE DEF new
<1>2. CASE n # to
  <2>1. new.mail[n] = st.mail[n]
    BY <1>1, <1>2
  <2>2. SameMail(st, new, n)
    BY <2>1, MailUnchanged
  <2> QED BY <2>2 DEF SameMail, new
<1>3. CASE n = to
  <2>1. PICK d \in 0..Len(q) :
            /\ Len(r) = Len(q) - d
            /\ \A k \in 1..d : q[k].delivered
            /\ \A k \in 1..Len(r) : r[k] = q[k + d]
    BY <1>1 DEF Dropped
  <2>2. DOMAIN q = 1..Len(q) /\ DOMAIN r = 1..Len(r) /\ Len(q) \in Nat /\ Len(r) \in Nat
    BY <1>1
  <2>3. \A k \in DOMAIN r : k + d \in DOMAIN q /\ r[k] = q[k + d]
    BY <2>1, <2>2
  <2>4. ASSUME NEW k \in DOMAIN q, ~q[k].delivered PROVE k - d \in DOMAIN r /\ r[k - d] = q[k]
    <3>1. ~(k \in 1..d) /\ k \in 1..Len(q)
      BY <2>1, <2>2, <2>4
    <3>2. k - d \in 1..Len(r)
      BY <2>1, <2>2, <3>1
    <3>3. (k - d) + d = k
      BY <2>1, <2>2
    <3> QED BY <2>1, <2>2, <3>2, <3>3
  <2>5. MailIds(new, n) \subseteq MailIds(st, n)
    <3>1. \A i : i \in MailIds(new, n) <=> \E k \in DOMAIN r : r[k].id = i
      BY <1>3, MailIs DEF r
    <3>2. \A i : i \in MailIds(st, n) <=> \E k \in DOMAIN q : q[k].id = i
      BY <1>3, MailIs DEF q
    <3> QED BY <2>3, <3>1, <3>2
  <2>6. Unread(new, n) = Unread(st, n)
    <3>1. \A i : i \in Unread(new, n) <=> \E k \in DOMAIN r : r[k].id = i /\ ~r[k].delivered
      BY <1>3, MailIs DEF r
    <3>2. \A i : i \in Unread(st, n) <=> \E k \in DOMAIN q : q[k].id = i /\ ~q[k].delivered
      BY <1>3, MailIs DEF q
    <3>3. \A i : (\E k \in DOMAIN r : r[k].id = i /\ ~r[k].delivered) =>
                 (\E k \in DOMAIN q : q[k].id = i /\ ~q[k].delivered)
      BY <2>3
    <3>4. \A i : (\E k \in DOMAIN q : q[k].id = i /\ ~q[k].delivered) =>
                 (\E k \in DOMAIN r : r[k].id = i /\ ~r[k].delivered)
      BY <2>4
    <3> QED BY <3>1, <3>2, <3>3, <3>4
  <2> QED BY <2>5, <2>6 DEF new
<1> QED BY <1>2, <1>3

\* What the commit of a command does to the messages of a user.
LEMMA CommitMail ==
    ASSUME NEW st, Good(st), NEW c, WellFormed(c), Fits(st, c), NEW n \in Names
    PROVE  LET new == Commit(st, c)
           IN  /\ c.type \notin {"MESSAGE", "DELIVERED"} => new.mail[n] = st.mail[n]
               /\ c.type = "DELIVERED" =>
                     /\ MailIds(new, n) = MailIds(st, n)
                     /\ Unread(new, n) = IF n = c.user THEN Unread(st, n) \ {c.arg}
                                         ELSE Unread(st, n)
               /\ c.type = "MESSAGE" => MailGrows(st, new, n, c.arg)
<1>1. c.type \in CommandTypes /\ c.user \in Names
  BY DEF WellFormed, AnyCommand
<1>2. CASE c.type = "LOGIN"
  <2>1. Commit(st, c) = CreateSession(st, UserOf[c.arg], c.arg) /\ c.user = UserOf[c.arg]
        /\ c.arg \in Threads
    BY <1>2 DEF Commit, WellFormed
  <2> QED BY <1>2, <2>1, CreateSessionGood DEF Fits
<1>3. CASE c.type = "CLOSE"
  <2>1. Commit(st, c) = CloseSession(st, UserOf[c.arg], c.arg) /\ c.user = UserOf[c.arg]
        /\ c.arg \in Threads
    BY <1>3 DEF Commit, WellFormed
  <2> QED BY <1>3, <2>1, CloseSessionGood DEF Fits
<1>4. CASE c.type = "FOLLOW"
  <2>1. Commit(st, c) = Follow(st, c.user, c.arg) /\ c.arg \in Names
    BY <1>4 DEF Commit, WellFormed
  <2>2. Follow(st, c.user, c.arg).mail = st.mail
    BY <1>1, <2>1, FollowGood
  <2> QED BY <1>4, <2>1, <2>2
<1>5. CASE c.type = "DELIVERED"
  <2>1. Commit(st, c) = MarkDelivered(st, c.user, c.arg)
    BY <1>5 DEF Commit
  <2>2. /\ MailIds(Commit(st, c), n) = MailIds(st, n)
        /\ Unread(Commit(st, c), n) = IF n = c.user THEN Unread(st, n) \ {c.arg}
                                      ELSE Unread(st, n)
    <3> DEFINE to == c.user
               id == c.arg
    <3>1. to \in Names
      BY <1>1
    <3> HIDE DEF to, id
    <3>2. /\ MailIds(MarkDelivered(st, to, id), n) = MailIds(st, n)
          /\ Unread(MarkDelivered(st, to, id), n) = IF n = to THEN Unread(st, n) \ {id}
                                                    ELSE Unread(st, n)
      BY <3>1, MarkMail
    <3> QED BY <2>1, <3>2 DEF to, id
  <2> QED BY <1>5, <2>2
<1>6. CASE c.type = "MESSAGE"
  <2>1. Commit(st, c) = (IF IsOpen(st, c.user) THEN SendMessage(st, c.user, c.arg) ELSE st)
        /\ c.arg \in 1..MaxMessages
    BY <1>6 DEF Commit, WellFormed
  <2>2. CASE IsOpen(st, c.user)
    <3> DEFINE mid == EnsureBoxes(st, c.user)
    <3>1. Good(mid) /\ mid.mail = st.mail
      BY <1>1, EnsureBoxesGood
    <3>2. Commit(st, c) = Enqueue(mid, c.user, c.arg)
      BY <2>1, <2>2 DEF SendMessage
    <3> HIDE DEF mid
    <3>3. MailGrows(mid, Commit(st, c), n, c.arg)
      <4>1. MailGrows(mid, Enqueue(mid, c.user, c.arg), n, c.arg)
        BY <1>1, <2>1, <3>1, EnqueueMail
      <4> QED BY <3>2, <4>1
    <3>4. SameMail(st, mid, n)
      BY <3>1, MailUnchanged
    <3> QED BY <1>6, <3>3, <3>4 DEF MailGrows, SameMail
  <2>3. CASE ~IsOpen(st, c.user)
    BY <1>6, <2>1, <2>3 DEF MailGrows
  <2> QED BY <2>2, <2>3
<1> QED BY <1>1, <1>2, <1>3, <1>4, <1>5, <1>6 DEF CommandTypes

-----------------------------------------------------------------------------
(* The inductive invariant *)

\* The command of a thread is about the thread and its user.
IssuedBy(c, t) ==
    /\ WellFormed(c)
    /\ c.type \in {"LOGIN", "CLOSE"} => c.arg = t
    /\ c.type = "FOLLOW" => c.arg = UserOf[t]
    /\ c.type \in {"MESSAGE", "DELIVERED"} => c.user = UserOf[t]

ThreadRecords ==
    [pc : Places,
     cmd : [type : CommandTypes \cup {"NONE"}, user : Names \cup {NoName},
            arg : Threads \cup Names \cup Nat],
     in : BOOLEAN, asked : SUBSET Names]

\* Where a thread is goes with its command; only a thread that is attached has
\* told its client that it is logged in.
ThreadOK(t) ==
    /\ thr[t].pc \in {"wait", "logged"} => IssuedBy(thr[t].cmd, t)
    /\ thr[t].pc = "follow" => IssuedBy(thr[t].cmd, t) /\ thr[t].cmd.type = "FOLLOW"
    /\ thr[t].pc \in {"ensure", "enqueue"} =>
          IssuedBy(thr[t].cmd, t) /\ thr[t].cmd.type = "MESSAGE"
    /\ thr[t].pc = "mark" => IssuedBy(thr[t].cmd, t) /\ thr[t].cmd.type = "DELIVERED"
    /\ thr[t].in => Attached(t)

ThreadsOK == thr \in [Threads -> ThreadRecords] /\ \A t \in Threads : ThreadOK(t)

MapLockOK ==
    /\ mapSem \in Threads \cup {Free}
    /\ \A t \in Threads : HoldsMap(t) <=> mapSem = t

SessionLocksOK ==
    /\ sem \in [Names -> Threads \cup {Free}]
    /\ \A t \in Threads, n \in Names : (HoldsSession(t) /\ UserOf[t] = n) <=> sem[n] = t

LocksOK == MapLockOK /\ SessionLocksOK

\* The sockets of a user are those of its threads that are attached.
LeaderOK ==
    /\ Good(lead)
    /\ \A t \in Threads : t \in lead.sessions[UserOf[t]].socks <=> Attached(t)

\* The history of the backup: it carries out the log, entry after entry, and
\* none of them ends it; only a CLOSE without a session, in a take-over, does.
BackupOK ==
    /\ log \in Seq(AnyCommand) /\ \A k \in 1..Len(log) : WellFormed(log[k])
    /\ ahead \in Seq(ServerStates) /\ Len(ahead) = Len(log) + 1 /\ ahead[1] = back
    /\ \A k \in 1..Len(log) : ahead[k + 1] = Commit(ahead[k], log[k])
    /\ \A k \in 1..Len(ahead) : Good(ahead[k]) /\ (ahead[k].down => used.stray)

\* Threads whose LOGIN is in the log and whose CLOSE is not.
Known(t) ==
    \/ thr[t].pc \in {"create", "creating", "deliver", "ready", "mark", "follow",
                      "ensure", "enqueue"}
    \/ thr[t].pc = "logged" /\ thr[t].cmd.type # "CLOSE"
    \/ thr[t].pc = "wait" /\ thr[t].cmd.type # "LOGIN"

\* The backup has, or will have, their sockets, and not yet that of a thread
\* whose LOGIN is still to be committed.
FutureOK ==
    \A t \in Threads :
        /\ Known(t) => t \in Future.sessions[UserOf[t]].socks
        /\ thr[t].pc = "wait" /\ thr[t].cmd.type = "LOGIN" =>
              t \notin Future.sessions[UserOf[t]].socks

UsedOK ==
    used \in [messages : 0..MaxMessages, follows : 0..MaxFollows,
              cancels : 0..MaxCancels, takeOvers : 0..MaxTakeOvers, stray : BOOLEAN]

IInv ==
    /\ ThreadsOK /\ UsedOK /\ LocksOK /\ LeaderOK /\ BackupOK /\ FutureOK
    /\ AtMostMaxSessions

Words == [type : CommandTypes \cup {"NONE"}, user : Names \cup {NoName},
          arg : Threads \cup Names \cup Nat]

\* The commands that the threads issue.
LEMMA IssuedCommand ==
    ASSUME NEW t \in Threads, NEW type \in CommandTypes, NEW user \in Names,
           NEW arg \in Threads \cup Names \cup Nat,
           type \in {"LOGIN", "CLOSE"} => arg = t /\ user = UserOf[t],
           type = "FOLLOW" => arg = UserOf[t],
           type \in {"MESSAGE", "DELIVERED"} => user = UserOf[t] /\ arg \in 1..MaxMessages
    PROVE  /\ IssuedBy(Command(type, user, arg), t)
           /\ Command(type, user, arg).type = type
           /\ Command(type, user, arg).user = user
           /\ Command(type, user, arg).arg = arg
           /\ Command(type, user, arg) \in Words
<1> DEFINE c == Command(type, user, arg)
<1>1. c = [type |-> type, user |-> user, arg |-> arg]
  BY DEF Command
<1> HIDE DEF c
<1>2. c.type = type /\ c.user = user /\ c.arg = arg
  BY <1>1
<1>3. c \in AnyCommand
  BY <1>1 DEF AnyCommand
<1>4. c \in Words
  BY <1>1 DEF Words
<1>5. UserOf[t] \in Names
  BY ServerAssumption
<1>6. IssuedBy(c, t)
  BY <1>2, <1>3, <1>5 DEF IssuedBy, WellFormed
<1> QED BY <1>2, <1>4, <1>6 DEF c

LEMMA NoCommandIs == NoCommand \in Words /\ NoCommand.type = "NONE"
<1>1. NoCommand = [type |-> "NONE", user |-> NoName, arg |-> 0]
  BY DEF NoCommand, Command
<1> QED BY <1>1 DEF Words

LEMMA RecordIs ==
    ASSUME NEW r \in ThreadRecords
    PROVE  /\ r = [pc |-> r.pc, cmd |-> r.cmd, in |-> r.in, asked |-> r.asked]
           /\ r.pc \in Places /\ r.cmd \in Words /\ r.in \in BOOLEAN
           /\ r.asked \subseteq Names
BY DEF ThreadRecords, Words

LEMMA RecordOf ==
    ASSUME NEW l \in Places, NEW c \in Words, NEW in \in BOOLEAN, NEW asked \in SUBSET Names
    PROVE  [pc |-> l, cmd |-> c, in |-> in, asked |-> asked] \in ThreadRecords
BY DEF ThreadRecords, Words

-----------------------------------------------------------------------------
(* Initially *)

LEMMA Initially == Init => IInv
<1> SUFFICES ASSUME Init PROVE IInv
  OBVIOUS
<1> USE ServerAssumption, NamesAssumption
<1>1. \A t \in Threads : thr[t] = [pc |-> "wait", cmd |-> Command("LOGIN", UserOf[t], t),
                                   in |-> FALSE, asked |-> {}]
  BY DEF Init, Arrived
<1>2. \A t \in Threads : /\ thr[t].pc = "wait" /\ thr[t].in = FALSE
                         /\ thr[t].cmd.type = "LOGIN"
                         /\ IssuedBy(thr[t].cmd, t)
  <2> SUFFICES ASSUME NEW t \in Threads
               PROVE  /\ thr[t].pc = "wait" /\ thr[t].in = FALSE
                      /\ thr[t].cmd.type = "LOGIN" /\ IssuedBy(thr[t].cmd, t)
    OBVIOUS
  <2>1. thr[t] = [pc |-> "wait", cmd |-> Command("LOGIN", UserOf[t], t),
                  in |-> FALSE, asked |-> {}]
    BY <1>1
  <2>2. UserOf[t] \in Names /\ "LOGIN" \in CommandTypes
    BY DEF CommandTypes
  <2>3. /\ IssuedBy(Command("LOGIN", UserOf[t], t), t)
        /\ Command("LOGIN", UserOf[t], t).type = "LOGIN"
    BY <2>2, IssuedCommand
  <2> QED BY <2>1, <2>3
<1>3. ThreadsOK
  <2>1. ASSUME NEW t \in Threads PROVE thr[t] \in ThreadRecords
    <3>1. UserOf[t] \in Names
      OBVIOUS
    <3>2. thr[t] = [pc |-> "wait", cmd |-> [type |-> "LOGIN", user |-> UserOf[t], arg |-> t],
                    in |-> FALSE, asked |-> {}]
      BY <1>1 DEF Command
    <3> QED BY <3>1, <3>2 DEF ThreadRecords, Places, CommandTypes
  <2>2. thr \in [Threads -> ThreadRecords]
    BY <2>1 DEF Init
  <2> QED BY <1>2, <2>2 DEF ThreadsOK, ThreadOK
<1>4. LocksOK
  BY <1>2 DEF Init, LocksOK, MapLockOK, SessionLocksOK, HoldsMap, HoldsSession
<1>5. Good(NewServer) /\ \A n \in Names : NewServer.sessions[n].socks = {}
  BY NewServerGood DEF NewServer, NoSession
<1>6. LeaderOK
  BY <1>2, <1>5 DEF Init, LeaderOK, Attached
<1>7. BackupOK
  <2>1. ~NewServer.down /\ NewServer \in ServerStates
    BY NewServerGood DEF NewServer, Good
  <2>2. log = <<>> /\ ahead = <<NewServer>> /\ back = NewServer
    BY DEF Init
  <2> HIDE DEF NewServer
  <2>3. Len(ahead) = 1 /\ ahead[1] = NewServer /\ ahead \in Seq(ServerStates)
    BY <2>1, <2>2
  <2>4. log \in Seq(AnyCommand) /\ Len(log) = 0
    BY <2>2
  <2> QED BY <1>5, <2>1, <2>2, <2>3, <2>4 DEF BackupOK
<1>8. FutureOK
  <2>1. Future = NewServer
    BY DEF Init, Future
  <2> QED BY <1>2, <1>5, <2>1 DEF FutureOK, Known
<1>10. UsedOK
  BY DEF Init, UsedOK
<1>9. AtMostMaxSessions
  <2>1. \A n \in Names : {t \in Threads : UserOf[t] = n /\ thr[t].in} = {}
    BY <1>2
  <2>2. Cardinality({}) <= MaxSessions
    BY FS_EmptySet
  <2> QED BY <2>1, <2>2 DEF AtMostMaxSessions
<1> QED BY <1>3, <1>4, <1>6, <1>7, <1>8, <1>9, <1>10 DEF IInv

-----------------------------------------------------------------------------
(* The threads *)

\* A step of one thread changes its record and no other.
LEMMA OneThread ==
    ASSUME ThreadsOK, NEW t \in Threads, NEW r, thr' = [thr EXCEPT ![t] = r],
           r \in ThreadRecords, ThreadOK(t)'
    PROVE  ThreadsOK'
<1>1. thr' \in [Threads -> ThreadRecords]
  BY DEF ThreadsOK
<1>2. \A q \in Threads : q # t => thr'[q] = thr[q]
  BY DEF ThreadsOK
<1>3. \A q \in Threads : q # t => ThreadOK(q)'
  BY <1>2 DEF ThreadsOK, ThreadOK, Attached, IssuedBy, WellFormed
<1> QED BY <1>1, <1>3 DEF ThreadsOK

LEMMA UsedKept ==
    ASSUME IInv, [Next]_vars PROVE UsedOK'
<1> USE ServerAssumption
<1>0. UsedOK
  BY DEF IInv
<1>1. ASSUME NEW t \in Threads, ReturnFalse(t) PROVE UsedOK'
  BY <1>0, <1>1 DEF ReturnFalse, UsedOK
<1>2. ASSUME NEW t \in Threads, NEW n \in Names, ReceiveFollow(t, n) PROVE UsedOK'
  BY <1>0, <1>2 DEF ReceiveFollow, UsedOK
<1>3. ASSUME NEW t \in Threads, ReceiveMessage(t) PROVE UsedOK'
  BY <1>0, <1>3 DEF ReceiveMessage, UsedOK
<1>4. CASE TakeOver
  <2>1. PICK stray \in SUBSET Sockets(back) :
           used' = [used EXCEPT !.takeOvers = @ + 1, !.stray = @ \/ stray # {}]
    BY <1>4 DEF TakeOver
  <2> DEFINE s == used.stray \/ stray # {}
             n == used.takeOvers + 1
  <2>2. s \in BOOLEAN /\ n \in 0..MaxTakeOvers
    BY <1>0, <1>4 DEF TakeOver, UsedOK
  <2>3. used' = [used EXCEPT !.takeOvers = n, !.stray = s]
    BY <2>1
  <2> HIDE DEF s, n
  <2> QED BY <1>0, <2>2, <2>3 DEF UsedOK
<1>5. CASE UNCHANGED used
  BY <1>0, <1>5 DEF UsedOK
<1> QED
  BY <1>1, <1>2, <1>3, <1>4, <1>5
  DEF Next, LockStep, FreeStep, ClientStep, EnterLog, ReturnTrue, TakeMap, Create, Close,
      Deliver, Mark, ReceiveNothing, ReceiveClose, AddFollowerOf, Ensure, SendToFollowers,
      Apply, Crash, Idle, vars

\* The record of a thread after a step of it.
Becomes(t, l, c, in, asked) ==
    thr' = [thr EXCEPT ![t] = [pc |-> l, cmd |-> c, in |-> in, asked |-> asked]]

LEMMA HowItMoves ==
    ASSUME ThreadsOK, NEW t \in Threads
    PROVE  /\ \A l : Move(t, l) => Becomes(t, l, thr[t].cmd, thr[t].in, thr[t].asked)
           /\ \A l : Over(t, l) => Becomes(t, l, NoCommand, thr[t].in, {})
           /\ \A c : Request(t, c) => Becomes(t, "wait", c, thr[t].in, thr[t].asked)
<1>00. ThreadsOK
  OBVIOUS
<1>3. ASSUME NEW l, Move(t, l) PROVE Becomes(t, l, thr[t].cmd, thr[t].in, thr[t].asked)
  <2> DEFINE r1 == [thr[t] EXCEPT !.pc = l]
  <2>1. thr[t] \in ThreadRecords /\ thr \in [Threads -> ThreadRecords]
    BY <1>00 DEF ThreadsOK
  <2>2. thr' = [thr EXCEPT ![t] = r1]
    BY <2>1, <1>3 DEF Move
  <2>3. r1 = [pc |-> l, cmd |-> thr[t].cmd,
              in |-> thr[t].in, asked |-> thr[t].asked]
    BY <2>1, RecordIs
  <2> HIDE DEF r1
  <2> QED BY <2>2, <2>3 DEF Becomes
<1>4. ASSUME NEW l, Over(t, l) PROVE Becomes(t, l, NoCommand, thr[t].in, {})
  <2> DEFINE r1 == [thr[t] EXCEPT !.pc = l]
             r2 == [r1 EXCEPT !.cmd = NoCommand]
             r3 == [r2 EXCEPT !.asked = {}]
  <2>1. thr[t] \in ThreadRecords /\ thr \in [Threads -> ThreadRecords]
    BY <1>00 DEF ThreadsOK
  <2>2. thr' = [thr EXCEPT ![t] = r3]
    BY <2>1, <1>4 DEF Over
  <2>3. r1 = [pc |-> l, cmd |-> thr[t].cmd,
              in |-> thr[t].in, asked |-> thr[t].asked]
    BY <2>1, RecordIs
  <2> HIDE DEF r1
  <2>4. r2 = [pc |-> l, cmd |-> NoCommand,
              in |-> thr[t].in, asked |-> thr[t].asked]
    BY <2>3
  <2> HIDE DEF r2
  <2>5. r3 = [pc |-> l, cmd |-> NoCommand,
              in |-> thr[t].in, asked |-> {}]
    BY <2>4
  <2> HIDE DEF r3
  <2> QED BY <2>2, <2>5 DEF Becomes
<1>5. ASSUME NEW c, Request(t, c) PROVE Becomes(t, "wait", c, thr[t].in, thr[t].asked)
  <2> DEFINE r1 == [thr[t] EXCEPT !.pc = "wait"]
             r2 == [r1 EXCEPT !.cmd = c]
  <2>1. thr[t] \in ThreadRecords /\ thr \in [Threads -> ThreadRecords]
    BY <1>00 DEF ThreadsOK
  <2>2. thr' = [thr EXCEPT ![t] = r2]
    BY <2>1, <1>5 DEF Request
  <2>3. r1 = [pc |-> "wait", cmd |-> thr[t].cmd,
              in |-> thr[t].in, asked |-> thr[t].asked]
    BY <2>1, RecordIs
  <2> HIDE DEF r1
  <2>4. r2 = [pc |-> "wait", cmd |-> c,
              in |-> thr[t].in, asked |-> thr[t].asked]
    BY <2>3
  <2> HIDE DEF r2
  <2> QED BY <2>2, <2>4 DEF Becomes
<1> QED BY <1>3, <1>4, <1>5

\* What is known of a thread before its step.
LEMMA ThreadIs ==
    ASSUME ThreadsOK, NEW t \in Threads
    PROVE  /\ ThreadOK(t) /\ UserOf[t] \in Names
           /\ thr[t].pc \in Places /\ thr[t].cmd \in Words /\ thr[t].in \in BOOLEAN
           /\ thr[t].asked \subseteq Names
           /\ thr[t].pc \in {"wait", "logged"} =>
                 thr[t].cmd.type \in {"LOGIN", "CLOSE", "FOLLOW", "MESSAGE", "DELIVERED"}
<1>1. thr[t] \in ThreadRecords /\ ThreadOK(t)
  BY DEF ThreadsOK
<1>2. UserOf[t] \in Names
  BY ServerAssumption
<1>3. thr[t].pc \in {"wait", "logged"} =>
         thr[t].cmd.type \in {"LOGIN", "CLOSE", "FOLLOW", "MESSAGE", "DELIVERED"}
  BY <1>1 DEF ThreadOK, IssuedBy, WellFormed, AnyCommand, CommandTypes
<1> QED BY <1>1, <1>2, <1>3, RecordIs

\* And after it.
LEMMA AfterStep ==
    ASSUME ThreadsOK, NEW t \in Threads, NEW l, NEW c, NEW in, NEW asked,
           Becomes(t, l, c, in, asked)
    PROVE  /\ thr'[t].pc = l /\ thr'[t].cmd = c /\ thr'[t].in = in /\ thr'[t].asked = asked
           /\ \A q \in Threads : q # t => thr'[q] = thr[q]
BY DEF ThreadsOK, Becomes

-----------------------------------------------------------------------------
(* What each step makes of its thread *)

\* A command of its user that the thread t waits for next.
Asks(t, type, user, arg) ==
    /\ Becomes(t, "wait", Command(type, user, arg), thr[t].in, thr[t].asked)
    /\ IssuedBy(Command(type, user, arg), t) /\ Command(type, user, arg).type = type
    /\ Command(type, user, arg) \in Words

Goes(t, l) == Becomes(t, l, thr[t].cmd, thr[t].in, thr[t].asked)
Ends(t, l) == Becomes(t, l, NoCommand, thr[t].in, {})

LEMMA AsksCommand ==
    ASSUME ThreadsOK, NEW t \in Threads, NEW type \in CommandTypes, NEW user \in Names,
           NEW arg \in Threads \cup Names \cup Nat, Request(t, Command(type, user, arg)),
           type \in {"LOGIN", "CLOSE"} => arg = t /\ user = UserOf[t],
           type = "FOLLOW" => arg = UserOf[t],
           type \in {"MESSAGE", "DELIVERED"} => user = UserOf[t] /\ arg \in 1..MaxMessages
    PROVE  Asks(t, type, user, arg)
BY HowItMoves, IssuedCommand DEF Asks

\* What is delivered next is a message of the user.
LEMMA NextPacket ==
    ASSUME NEW st, Good(st), NEW n \in Names, GetPacket(st, n).mail[n] # <<>>
    PROVE  /\ Head(GetPacket(st, n).mail[n]).id \in 1..MaxMessages
           /\ Head(GetPacket(st, n).mail[n]).id \in MailIds(st, n)
<1> DEFINE new == GetPacket(st, n)
           r == new.mail[n]
<1>1. r \in Seq(Packets) /\ Head(r) \in Packets /\ Head(r) = r[1]
  BY GetPacketGood
<1>2. Head(r).id \in 1..MaxMessages
  BY <1>1 DEF Packets
<1>3. MailIds(new, n) \subseteq MailIds(st, n)
  BY GetMail
<1> HIDE DEF new
<1>4. 1 \in DOMAIN r
  <2> HIDE DEF r
  <2>1. r # <<>>
    BY DEF r, new
  <2> QED BY <1>1, <2>1
<1>5. Head(r).id \in MailIds(new, n)
  BY <1>1, <1>4, MailIs
<1> QED BY <1>2, <1>3, <1>5 DEF new

LEMMA EnterLogStep ==
    ASSUME ThreadsOK, NEW t \in Threads, EnterLog(t)
    PROVE  Goes(t, "logged")
BY HowItMoves DEF EnterLog, Goes

LEMMA ReturnTrueStep ==
    ASSUME ThreadsOK, NEW t \in Threads, ReturnTrue(t)
    PROVE  \/ thr[t].cmd.type = "LOGIN" /\ Goes(t, "create")
           \/ thr[t].cmd.type = "CLOSE" /\ Goes(t, "close")
           \/ thr[t].cmd.type = "FOLLOW" /\ Goes(t, "follow")
           \/ thr[t].cmd.type = "MESSAGE" /\ Goes(t, "ensure")
           \/ thr[t].cmd.type = "DELIVERED" /\ Goes(t, "mark")
<1>1. CASE thr[t].cmd.type = "LOGIN"
  <2>1. AfterCommit(thr[t].cmd.type) = "create"
    BY <1>1 DEF AfterCommit
  <2>2. Goes(t, "create")
    BY <2>1, HowItMoves DEF ReturnTrue, Goes
  <2> QED BY <1>1, <2>2
<1>2. CASE thr[t].cmd.type = "CLOSE"
  <2>1. AfterCommit(thr[t].cmd.type) = "close"
    BY <1>2 DEF AfterCommit
  <2>2. Goes(t, "close")
    BY <2>1, HowItMoves DEF ReturnTrue, Goes
  <2> QED BY <1>2, <2>2
<1>3. CASE thr[t].cmd.type = "FOLLOW"
  <2>1. AfterCommit(thr[t].cmd.type) = "follow"
    BY <1>3 DEF AfterCommit
  <2>2. Goes(t, "follow")
    BY <2>1, HowItMoves DEF ReturnTrue, Goes
  <2> QED BY <1>3, <2>2
<1>4. CASE thr[t].cmd.type = "MESSAGE"
  <2>1. AfterCommit(thr[t].cmd.type) = "ensure"
    BY <1>4 DEF AfterCommit
  <2>2. Goes(t, "ensure")
    BY <2>1, HowItMoves DEF ReturnTrue, Goes
  <2> QED BY <1>4, <2>2
<1>5. CASE thr[t].cmd.type = "DELIVERED"
  <2>1. AfterCommit(thr[t].cmd.type) = "mark"
    BY <1>5 DEF AfterCommit
  <2>2. Goes(t, "mark")
    BY <2>1, HowItMoves DEF ReturnTrue, Goes
  <2> QED BY <1>5, <2>2
<1> QED BY <1>1, <1>2, <1>3, <1>4, <1>5, ThreadIs DEF ReturnTrue, At

LEMMA ReturnFalseStep ==
    ASSUME ThreadsOK, NEW t \in Threads, ReturnFalse(t)
    PROVE  \/ thr[t].cmd.type = "LOGIN" /\ Goes(t, "lost")
           \/ thr[t].cmd.type = "CLOSE" /\ Goes(t, "close")
           \/ thr[t].cmd.type = "FOLLOW" /\ Ends(t, "deliver")
           \/ thr[t].cmd.type = "MESSAGE" /\ Ends(t, "deliver")
           \/ thr[t].cmd.type = "DELIVERED" /\ Ends(t, "ready")
<1>1. CASE thr[t].cmd.type = "LOGIN"
  <2>1. AfterCancel(thr[t].cmd.type) = "lost"
    BY <1>1 DEF AfterCancel
  <2>2. Goes(t, "lost")
    BY <2>1, HowItMoves DEF ReturnFalse, Goes
  <2> QED BY <1>1, <2>2
<1>2. CASE thr[t].cmd.type = "CLOSE"
  <2>1. AfterCancel(thr[t].cmd.type) = "close"
    BY <1>2 DEF AfterCancel
  <2>2. Goes(t, "close")
    BY <2>1, HowItMoves DEF ReturnFalse, Goes
  <2> QED BY <1>2, <2>2
<1>3. CASE thr[t].cmd.type = "FOLLOW"
  <2>1. AfterCancel(thr[t].cmd.type) = "deliver"
    BY <1>3 DEF AfterCancel
  <2>2. Ends(t, "deliver")
    BY <2>1, HowItMoves DEF ReturnFalse, Ends
  <2> QED BY <1>3, <2>2
<1>4. CASE thr[t].cmd.type = "MESSAGE"
  <2>1. AfterCancel(thr[t].cmd.type) = "deliver"
    BY <1>4 DEF AfterCancel
  <2>2. Ends(t, "deliver")
    BY <2>1, HowItMoves DEF ReturnFalse, Ends
  <2> QED BY <1>4, <2>2
<1>5. CASE thr[t].cmd.type = "DELIVERED"
  <2>1. AfterCancel(thr[t].cmd.type) = "ready"
    BY <1>5 DEF AfterCancel
  <2>2. Ends(t, "ready")
    BY <2>1, HowItMoves DEF ReturnFalse, Ends
  <2> QED BY <1>5, <2>2
<1> QED BY <1>1, <1>2, <1>3, <1>4, <1>5, ThreadIs DEF ReturnFalse, At

LEMMA TakeMapStep ==
    ASSUME ThreadsOK, NEW t \in Threads, TakeMap(t)
    PROVE  \/ thr[t].pc = "create" /\ Goes(t, "creating")
           \/ thr[t].pc = "close" /\ Goes(t, "closing")
BY HowItMoves DEF TakeMap, At, Goes

LEMMA CreateStep ==
    ASSUME ThreadsOK, NEW t \in Threads, Create(t)
    PROVE  IF Accepts(lead, UserOf[t]) THEN Becomes(t, "deliver", NoCommand, TRUE, {})
           ELSE Asks(t, "CLOSE", UserOf[t], t)
<1>1. CASE Accepts(lead, UserOf[t])
  BY <1>1 DEF Create, Becomes
<1>2. CASE ~Accepts(lead, UserOf[t])
  <2>1. Request(t, Command("CLOSE", UserOf[t], t))
    BY <1>2 DEF Create
  <2>2. Asks(t, "CLOSE", UserOf[t], t)
    BY <2>1, ThreadIs, AsksCommand DEF CommandTypes
  <2> QED BY <1>2, <2>2
<1> QED BY <1>1, <1>2

LEMMA CloseStep ==
    ASSUME ThreadsOK, NEW t \in Threads, Close(t)
    PROVE  Becomes(t, "end", NoCommand, FALSE, {})
BY DEF Close, Becomes, Gone

LEMMA DeliverStep ==
    ASSUME ThreadsOK, LeaderOK, NEW t \in Threads, Deliver(t)
    PROVE  \/ sem' = sem /\ Goes(t, "ready")
           \/ /\ sem' = [sem EXCEPT ![UserOf[t]] = t]
              /\ \E id \in 1..MaxMessages :
                    id \in MailIds(lead, UserOf[t]) /\ Asks(t, "DELIVERED", UserOf[t], id)
<1> DEFINE st == lead
           q == GetPacket(st, UserOf[t]).mail[UserOf[t]]
<1>1. Good(st) /\ UserOf[t] \in Names
  BY ThreadIs, MarkDeliveredGood DEF LeaderOK
<1>2. CASE q = <<>>
  BY <1>2, HowItMoves DEF Deliver, Goes
<1>3. CASE q # <<>>
  <2>1. Request(t, Command("DELIVERED", UserOf[t], Head(q).id)) /\ sem' = [sem EXCEPT ![UserOf[t]] = t]
    BY <1>3 DEF Deliver
  <2> HIDE DEF st
  <2>2. Head(q).id \in 1..MaxMessages /\ Head(q).id \in MailIds(st, UserOf[t])
    BY <1>1, <1>3, NextPacket
  <2> HIDE DEF q
  <2>3. Asks(t, "DELIVERED", UserOf[t], Head(q).id)
    BY <1>1, <2>1, <2>2, AsksCommand DEF CommandTypes
  <2> QED BY <2>1, <2>2, <2>3 DEF st
<1> QED BY <1>2, <1>3

LEMMA MarkStep ==
    ASSUME ThreadsOK, LeaderOK, NEW t \in Threads, Mark(t)
    PROVE  \/ sem' = [sem EXCEPT ![UserOf[t]] = Free] /\ Ends(t, "ready")
           \/ /\ sem' = sem
              /\ \E id \in 1..MaxMessages :
                    id \in MailIds(lead, UserOf[t]) /\ Asks(t, "DELIVERED", UserOf[t], id)
<1> DEFINE st == MarkDelivered(lead, UserOf[t], thr[t].cmd.arg)
           q == GetPacket(st, UserOf[t]).mail[UserOf[t]]
<1>1. Good(st) /\ UserOf[t] \in Names
  BY ThreadIs, MarkDeliveredGood DEF LeaderOK
<1>2. CASE q = <<>>
  BY <1>2, HowItMoves DEF Mark, Ends
<1>3. CASE q # <<>>
  <2>1. Request(t, Command("DELIVERED", UserOf[t], Head(q).id)) /\ sem' = sem
    BY <1>3 DEF Mark
  <2> HIDE DEF st
  <2>2. Head(q).id \in 1..MaxMessages /\ Head(q).id \in MailIds(st, UserOf[t])
    BY <1>1, <1>3, NextPacket
  <2>4. MailIds(st, UserOf[t]) = MailIds(lead, UserOf[t])
    BY <1>1, MarkMail DEF LeaderOK, st
  <2> HIDE DEF q
  <2>3. Asks(t, "DELIVERED", UserOf[t], Head(q).id)
    BY <1>1, <2>1, <2>2, AsksCommand DEF CommandTypes
  <2> QED BY <2>1, <2>2, <2>3, <2>4
<1> QED BY <1>2, <1>3

LEMMA ReceiveNothingStep ==
    ASSUME ThreadsOK, NEW t \in Threads, ReceiveNothing(t)
    PROVE  Goes(t, "deliver")
BY HowItMoves DEF ReceiveNothing, Goes

LEMMA ReceiveCloseStep ==
    ASSUME ThreadsOK, NEW t \in Threads, ReceiveClose(t)
    PROVE  Asks(t, "CLOSE", UserOf[t], t)
BY ThreadIs, AsksCommand DEF ReceiveClose, CommandTypes

LEMMA ReceiveFollowStep ==
    ASSUME ThreadsOK, NEW t \in Threads, NEW n \in Names, ReceiveFollow(t, n)
    PROVE  Asks(t, "FOLLOW", n, UserOf[t])
BY ThreadIs, AsksCommand DEF ReceiveFollow, CommandTypes

LEMMA AddFollowerStep ==
    ASSUME ThreadsOK, NEW t \in Threads, AddFollowerOf(t)
    PROVE  Ends(t, "deliver")
BY HowItMoves DEF AddFollowerOf, Ends

LEMMA ReceiveMessageStep ==
    ASSUME ThreadsOK, LeaderOK, UsedOK, NEW t \in Threads, ReceiveMessage(t)
    PROVE  /\ Becomes(t, "wait", Command("MESSAGE", UserOf[t], used.messages + 1),
                      thr[t].in, Followers(lead, UserOf[t]))
           /\ IssuedBy(Command("MESSAGE", UserOf[t], used.messages + 1), t)
           /\ Command("MESSAGE", UserOf[t], used.messages + 1).type = "MESSAGE"
           /\ Command("MESSAGE", UserOf[t], used.messages + 1) \in Words
           /\ Followers(lead, UserOf[t]) \subseteq Names
           /\ used.messages + 1 \in 1..MaxMessages
<1>1. used.messages + 1 \in 1..MaxMessages /\ used.messages + 1 \in Nat
  BY ServerAssumption DEF ReceiveMessage, UsedOK
<1>2. /\ IssuedBy(Command("MESSAGE", UserOf[t], used.messages + 1), t)
      /\ Command("MESSAGE", UserOf[t], used.messages + 1).type = "MESSAGE"
      /\ Command("MESSAGE", UserOf[t], used.messages + 1) \in Words
  BY <1>1, ThreadIs, IssuedCommand DEF CommandTypes
<1>3. Followers(lead, UserOf[t]) \subseteq Names
  BY ThreadIs, StateFields DEF LeaderOK, Good, Followers, Records, Users
<1>4. Becomes(t, "wait", Command("MESSAGE", UserOf[t], used.messages + 1),
              thr[t].in, Followers(lead, UserOf[t]))
  <3> DEFINE r1 == [thr[t] EXCEPT !.pc = "wait"]
             r2 == [r1 EXCEPT !.cmd = Command("MESSAGE", UserOf[t], used.messages + 1)]
             r3 == [r2 EXCEPT !.asked = Followers(lead, UserOf[t])]
  <3>1. thr[t] \in ThreadRecords /\ thr \in [Threads -> ThreadRecords]
    BY DEF ThreadsOK
  <3>2. thr' = [thr EXCEPT ![t] = r3]
    BY <3>1 DEF ReceiveMessage
  <3>3. r1 = [pc |-> "wait", cmd |-> thr[t].cmd,
              in |-> thr[t].in, asked |-> thr[t].asked]
    BY <3>1, RecordIs
  <3> HIDE DEF r1
  <3>4. r2 = [pc |-> "wait", cmd |-> Command("MESSAGE", UserOf[t], used.messages + 1),
              in |-> thr[t].in, asked |-> thr[t].asked]
    BY <3>3
  <3> HIDE DEF r2
  <3>5. r3 = [pc |-> "wait", cmd |-> Command("MESSAGE", UserOf[t], used.messages + 1),
              in |-> thr[t].in, asked |-> Followers(lead, UserOf[t])]
    BY <3>4
  <3> HIDE DEF r3
  <3> QED BY <3>2, <3>5 DEF Becomes
<1> QED BY <1>1, <1>2, <1>3, <1>4

LEMMA EnsureStep ==
    ASSUME ThreadsOK, NEW t \in Threads, Ensure(t)
    PROVE  Goes(t, "enqueue")
BY HowItMoves DEF Ensure, Goes

LEMMA SendStep ==
    ASSUME ThreadsOK, NEW t \in Threads, SendToFollowers(t)
    PROVE  Ends(t, "deliver")
BY HowItMoves DEF SendToFollowers, Ends

-----------------------------------------------------------------------------
(* The threads keep to their places *)

\* A thread that goes on with another command, or with none, keeps its record in
\* shape.
LEMMA NewRecord ==
    ASSUME ThreadsOK, NEW t \in Threads, NEW l \in Places, NEW c \in Words,
           NEW in \in BOOLEAN, NEW asked \in SUBSET Names,
           Becomes(t, l, c, in, asked),
           l \in {"wait", "logged", "follow", "ensure", "enqueue", "mark"} => IssuedBy(c, t),
           l = "follow" => c.type = "FOLLOW",
           l \in {"ensure", "enqueue"} => c.type = "MESSAGE",
           l = "mark" => c.type = "DELIVERED",
           \/ in = FALSE
           \/ /\ l \notin {"create", "creating", "end", "lost"}
              /\ l \in {"wait", "logged"} => c.type # "LOGIN"
    PROVE  ThreadsOK'
<1> DEFINE r == [pc |-> l, cmd |-> c, in |-> in, asked |-> asked]
<1>1. r \in ThreadRecords
  BY RecordOf
<1>2. r.pc = l /\ r.cmd = c /\ r.in = in
  OBVIOUS
<1>3. thr' = [thr EXCEPT ![t] = r]
  BY DEF Becomes
<1> HIDE DEF r
<1>4. thr'[t] = r
  BY <1>3 DEF ThreadsOK
<1>6. ThreadOK(t)'
  BY <1>2, <1>4 DEF ThreadOK, Attached, IssuedBy, WellFormed
<1> QED BY <1>1, <1>3, <1>6, OneThread

LEMMA GoesKept ==
    ASSUME ThreadsOK, NEW t \in Threads, NEW l \in Places, Goes(t, l),
           l \in {"wait", "logged", "follow", "ensure", "enqueue", "mark"} =>
                IssuedBy(thr[t].cmd, t),
           l = "follow" => thr[t].cmd.type = "FOLLOW",
           l \in {"ensure", "enqueue"} => thr[t].cmd.type = "MESSAGE",
           l = "mark" => thr[t].cmd.type = "DELIVERED",
           \/ thr[t].in = FALSE
           \/ /\ l \notin {"create", "creating", "end", "lost"}
              /\ l \in {"wait", "logged"} => thr[t].cmd.type # "LOGIN"
    PROVE  ThreadsOK'
<1>1. thr[t].cmd \in Words /\ thr[t].in \in BOOLEAN /\ thr[t].asked \in SUBSET Names
  BY ThreadIs
<1>2. Becomes(t, l, thr[t].cmd, thr[t].in, thr[t].asked)
  BY DEF Goes
<1> QED BY <1>1, <1>2, NewRecord

LEMMA EndsKept ==
    ASSUME ThreadsOK, NEW t \in Threads, NEW l \in {"deliver", "ready"}, Ends(t, l)
    PROVE  ThreadsOK'
<1>1. /\ NoCommand \in Words /\ thr[t].in \in BOOLEAN /\ {} \in SUBSET Names
      /\ l \in Places
  BY ThreadIs, NoCommandIs DEF Places
<1>2. Becomes(t, l, NoCommand, thr[t].in, {})
  BY DEF Ends
<1> QED BY <1>1, <1>2, NewRecord

LEMMA AsksKept ==
    ASSUME ThreadsOK, NEW t \in Threads, NEW type \in CommandTypes \ {"LOGIN"},
           NEW user, NEW arg, Asks(t, type, user, arg)
    PROVE  ThreadsOK'
<1> DEFINE c == Command(type, user, arg)
<1>1. thr[t].in \in BOOLEAN /\ thr[t].asked \in SUBSET Names /\ "wait" \in Places
  BY ThreadIs DEF Places
<1>2. Becomes(t, "wait", c, thr[t].in, thr[t].asked) /\ IssuedBy(c, t) /\ c.type = type
      /\ c \in Words
  BY DEF Asks
<1> HIDE DEF c
<1> QED BY <1>1, <1>2, NewRecord

\* Between commands nothing is asked of the record but that its thread is
\* attached, which only the steps of logins and closes can change.
LEMMA ThreadsKept ==
    ASSUME IInv, [Next]_vars PROVE ThreadsOK'
<1>0. ThreadsOK /\ LeaderOK /\ UsedOK
  BY DEF IInv
<1>00. ThreadsOK
  BY <1>0
<1>1. ASSUME NEW t \in Threads, EnterLog(t) PROVE ThreadsOK'
  <2>1. Goes(t, "logged")
    BY <1>00, <1>1, EnterLogStep
  <2> QED BY <1>00, <1>1, <2>1, ThreadIs, GoesKept DEF ThreadOK, Attached, EnterLog, At, Places
<1>2. ASSUME NEW t \in Threads, ReturnTrue(t) PROVE ThreadsOK'
  <2>1. CASE thr[t].cmd.type = "LOGIN" /\ Goes(t, "create")
    BY <1>00, <1>2, <2>1, ThreadIs, GoesKept DEF ThreadOK, Attached, ReturnTrue, At, Places
  <2>2. CASE thr[t].cmd.type = "CLOSE" /\ Goes(t, "close")
    BY <1>00, <1>2, <2>2, ThreadIs, GoesKept DEF ThreadOK, Attached, ReturnTrue, At, Places
  <2>3. CASE thr[t].cmd.type = "FOLLOW" /\ Goes(t, "follow")
    BY <1>00, <1>2, <2>3, ThreadIs, GoesKept DEF ThreadOK, Attached, ReturnTrue, At, Places
  <2>4. CASE thr[t].cmd.type = "MESSAGE" /\ Goes(t, "ensure")
    BY <1>00, <1>2, <2>4, ThreadIs, GoesKept DEF ThreadOK, Attached, ReturnTrue, At, Places
  <2>5. CASE thr[t].cmd.type = "DELIVERED" /\ Goes(t, "mark")
    BY <1>00, <1>2, <2>5, ThreadIs, GoesKept DEF ThreadOK, Attached, ReturnTrue, At, Places
  <2> QED BY <1>00, <1>2, <2>1, <2>2, <2>3, <2>4, <2>5, ReturnTrueStep
<1>3. ASSUME NEW t \in Threads, ReturnFalse(t) PROVE ThreadsOK'
  <2>1. CASE thr[t].cmd.type = "LOGIN" /\ Goes(t, "lost")
    BY <1>00, <1>3, <2>1, ThreadIs, GoesKept DEF ThreadOK, Attached, ReturnFalse, At, Places
  <2>2. CASE thr[t].cmd.type = "CLOSE" /\ Goes(t, "close")
    BY <1>00, <1>3, <2>2, ThreadIs, GoesKept DEF ThreadOK, Attached, ReturnFalse, At, Places
  <2>3. CASE thr[t].cmd.type = "FOLLOW" /\ Ends(t, "deliver")
    BY <1>00, <2>3, EndsKept
  <2>4. CASE thr[t].cmd.type = "MESSAGE" /\ Ends(t, "deliver")
    BY <1>00, <2>4, EndsKept
  <2>5. CASE thr[t].cmd.type = "DELIVERED" /\ Ends(t, "ready")
    BY <1>00, <2>5, EndsKept
  <2> QED BY <1>00, <1>3, <2>1, <2>2, <2>3, <2>4, <2>5, ReturnFalseStep
<1>4. ASSUME NEW t \in Threads, TakeMap(t) PROVE ThreadsOK'
  <2>1. CASE thr[t].pc = "create" /\ Goes(t, "creating")
    BY <1>00, <1>4, <2>1, ThreadIs, GoesKept DEF ThreadOK, Attached, TakeMap, At, Places
  <2>2. CASE thr[t].pc = "close" /\ Goes(t, "closing")
    BY <1>00, <1>4, <2>2, ThreadIs, GoesKept DEF ThreadOK, Attached, TakeMap, At, Places
  <2> QED BY <1>00, <1>4, <2>1, <2>2, TakeMapStep
<1>5. ASSUME NEW t \in Threads, Create(t) PROVE ThreadsOK'
  <2>1. CASE Becomes(t, "deliver", NoCommand, TRUE, {})
    <3>1. NoCommand \in Words /\ TRUE \in BOOLEAN /\ {} \in SUBSET Names /\ "deliver" \in Places
      BY NoCommandIs DEF Places
    <3> QED BY <1>00, <2>1, <3>1, NewRecord
  <2>2. CASE Asks(t, "CLOSE", UserOf[t], t)
    BY <1>00, <2>2, AsksKept DEF CommandTypes
  <2> QED BY <1>00, <1>5, <2>1, <2>2, CreateStep
<1>6. ASSUME NEW t \in Threads, Close(t) PROVE ThreadsOK'
  <2>1. NoCommand \in Words /\ FALSE \in BOOLEAN /\ {} \in SUBSET Names /\ "end" \in Places
    BY NoCommandIs DEF Places
  <2>2. Becomes(t, "end", NoCommand, FALSE, {})
    BY <1>00, <1>6, CloseStep
  <2> QED BY <1>00, <2>1, <2>2, NewRecord
<1>7. ASSUME NEW t \in Threads, Deliver(t) PROVE ThreadsOK'
  <2>1. CASE Goes(t, "ready")
    BY <1>00, <1>7, <2>1, ThreadIs, GoesKept DEF ThreadOK, Attached, Deliver, At, Places
  <2>2. CASE \E id \in 1..MaxMessages : Asks(t, "DELIVERED", UserOf[t], id)
    BY <1>00, <2>2, AsksKept DEF CommandTypes
  <2> QED BY <1>0, <1>7, <2>1, <2>2, DeliverStep
<1>8. ASSUME NEW t \in Threads, Mark(t) PROVE ThreadsOK'
  <2>1. CASE Ends(t, "ready")
    BY <1>00, <1>8, <2>1, ThreadIs, EndsKept DEF ThreadOK, Attached, Mark, At, Places
  <2>2. CASE \E id \in 1..MaxMessages : Asks(t, "DELIVERED", UserOf[t], id)
    BY <1>00, <2>2, AsksKept DEF CommandTypes
  <2> QED BY <1>0, <1>8, <2>1, <2>2, MarkStep
<1>9. ASSUME NEW t \in Threads, ReceiveNothing(t) PROVE ThreadsOK'
  <2>1. Goes(t, "deliver")
    BY <1>00, <1>9, ReceiveNothingStep
  <2> QED BY <1>00, <1>9, <2>1, ThreadIs, GoesKept DEF ThreadOK, Attached, ReceiveNothing, At, Places
<1>10. ASSUME NEW t \in Threads, ReceiveClose(t) PROVE ThreadsOK'
  BY <1>00, <1>10, ReceiveCloseStep, AsksKept DEF CommandTypes
<1>11. ASSUME NEW t \in Threads, NEW n \in Names, ReceiveFollow(t, n) PROVE ThreadsOK'
  BY <1>00, <1>11, ReceiveFollowStep, AsksKept DEF CommandTypes
<1>12. ASSUME NEW t \in Threads, AddFollowerOf(t) PROVE ThreadsOK'
  BY <1>00, <1>12, AddFollowerStep, EndsKept
<1>13. ASSUME NEW t \in Threads, ReceiveMessage(t) PROVE ThreadsOK'
  <2> DEFINE c == Command("MESSAGE", UserOf[t], used.messages + 1)
             to == Followers(lead, UserOf[t])
  <2>1. /\ Becomes(t, "wait", c, thr[t].in, to) /\ IssuedBy(c, t)
        /\ c.type = "MESSAGE" /\ c \in Words /\ to \in SUBSET Names
    BY <1>0, <1>13, ReceiveMessageStep
  <2>2. thr[t].in \in BOOLEAN /\ "wait" \in Places
    BY <1>00, ThreadIs DEF Places
  <2> HIDE DEF c, to
  <2> QED BY <1>00, <2>1, <2>2, NewRecord
<1>14. ASSUME NEW t \in Threads, Ensure(t) PROVE ThreadsOK'
  <2>1. Goes(t, "enqueue")
    BY <1>00, <1>14, EnsureStep
  <2> QED BY <1>00, <1>14, <2>1, ThreadIs, GoesKept DEF ThreadOK, Attached, Ensure, At, Places
<1>15. ASSUME NEW t \in Threads, SendToFollowers(t) PROVE ThreadsOK'
  BY <1>00, <1>15, SendStep, EndsKept
<1>16. CASE TakeOver
  <2> SUFFICES ASSUME NEW t \in Threads
               PROVE  thr'[t] \in ThreadRecords /\ ThreadOK(t)'
    BY <1>16 DEF TakeOver, ThreadsOK
  <2> DEFINE c == Command("LOGIN", UserOf[t], t)
  <2>1. IssuedBy(c, t) /\ c.type = "LOGIN" /\ c \in Words
    BY <1>00, ThreadIs, IssuedCommand DEF CommandTypes
  <2> HIDE DEF c
  <2>2. \/ thr'[t] = [pc |-> "wait", cmd |-> c, in |-> FALSE, asked |-> {}]
        \/ thr'[t] = [pc |-> "end", cmd |-> NoCommand, in |-> FALSE, asked |-> {}]
    BY <1>16 DEF TakeOver, Arrived, Gone, c
  <2>3. thr'[t] \in ThreadRecords
    BY <2>1, <2>2, RecordOf, NoCommandIs DEF Places
  <2>4. ThreadOK(t)'
    BY <2>1, <2>2 DEF ThreadOK, IssuedBy, WellFormed
  <2> QED BY <2>3, <2>4
<1>17. CASE UNCHANGED thr
  BY <1>00, <1>17 DEF ThreadsOK, ThreadOK, Attached, IssuedBy, WellFormed
<1> QED
  BY <1>1, <1>2, <1>3, <1>4, <1>5, <1>6, <1>7, <1>8, <1>9, <1>10, <1>11, <1>12, <1>13, <1>14, <1>15, <1>16, <1>17
  DEF Next, LockStep, FreeStep, ClientStep, Apply, Crash, Idle, vars

-----------------------------------------------------------------------------
(* The locks *)

\* A thread after its step, and all others.
LEMMA Afterwards ==
    ASSUME ThreadsOK, NEW t \in Threads
    PROVE  /\ \A l : Goes(t, l) =>
                 /\ thr'[t].pc = l /\ thr'[t].cmd = thr[t].cmd /\ thr'[t].in = thr[t].in
                 /\ \A q \in Threads : q # t => thr'[q] = thr[q]
           /\ \A l : Ends(t, l) =>
                 /\ thr'[t].pc = l /\ thr'[t].cmd.type = "NONE" /\ thr'[t].in = thr[t].in
                 /\ \A q \in Threads : q # t => thr'[q] = thr[q]
           /\ \A type, user, arg : Asks(t, type, user, arg) =>
                 /\ thr'[t].pc = "wait" /\ thr'[t].cmd.type = type /\ thr'[t].in = thr[t].in
                 /\ \A q \in Threads : q # t => thr'[q] = thr[q]
BY AfterStep, NoCommandIs DEF Goes, Ends, Asks

\* The lock of the map is kept, taken when it is free, or given back.
LEMMA MapLockStep ==
    ASSUME MapLockOK, NEW t \in Threads, \A q \in Threads : q # t => thr'[q] = thr[q],
           \/ mapSem' = mapSem /\ (HoldsMap(t)' <=> HoldsMap(t))
           \/ mapSem = Free /\ mapSem' = t /\ HoldsMap(t)'
           \/ HoldsMap(t) /\ mapSem' = Free /\ ~HoldsMap(t)'
    PROVE  MapLockOK'
<1>1. \A q \in Threads : q # t => (HoldsMap(q)' <=> HoldsMap(q))
  BY DEF HoldsMap
<1>2. Free \notin Threads
  BY ServerAssumption
<1> QED BY <1>1, <1>2 DEF MapLockOK

LEMMA SessionLockStep ==
    ASSUME SessionLocksOK, NEW t \in Threads, \A q \in Threads : q # t => thr'[q] = thr[q],
           \/ sem' = sem /\ (HoldsSession(t)' <=> HoldsSession(t))
           \/ /\ sem[UserOf[t]] = Free /\ sem' = [sem EXCEPT ![UserOf[t]] = t]
              /\ HoldsSession(t)'
           \/ /\ HoldsSession(t) /\ sem' = [sem EXCEPT ![UserOf[t]] = Free]
              /\ ~HoldsSession(t)'
    PROVE  SessionLocksOK'
<1>1. \A q \in Threads : q # t => (HoldsSession(q)' <=> HoldsSession(q))
  BY DEF HoldsSession
<1>2. Free \notin Threads /\ UserOf[t] \in Names
  BY ServerAssumption
<1> QED BY <1>1, <1>2 DEF SessionLocksOK

\* Whoever is in a section of a lock holds it, and nobody else does.
LEMMA LocksKept ==
    ASSUME IInv, [Next]_vars PROVE LocksOK'
<1>0. ThreadsOK /\ LeaderOK /\ UsedOK /\ MapLockOK /\ SessionLocksOK
  BY DEF IInv, LocksOK
<1>00. ThreadsOK
  BY <1>0
<1>1. ASSUME NEW t \in Threads, EnterLog(t) PROVE LocksOK'
  <2>0. Goes(t, "logged")
    BY <1>0, <1>1, EnterLogStep
  <2>1. thr'[t].pc = "logged" /\ thr'[t].cmd = thr[t].cmd
    BY <1>00, <2>0, Afterwards
  <2>2. \A q \in Threads : q # t => thr'[q] = thr[q]
    BY <1>00, <2>0, Afterwards
  <2>3. mapSem' = mapSem /\ (HoldsMap(t)' <=> HoldsMap(t))
    BY <1>00, <1>1, <2>0, <2>1 DEF EnterLog, At, HoldsMap
  <2>4. sem' = sem /\ (HoldsSession(t)' <=> HoldsSession(t))
    BY <1>00, <1>1, <2>0, <2>1 DEF EnterLog, At, HoldsSession
  <2> QED BY <1>0, <2>2, <2>3, <2>4, MapLockStep, SessionLockStep DEF LocksOK
<1>2. ASSUME NEW t \in Threads, ReturnTrue(t) PROVE LocksOK'
  <2>1. CASE thr[t].cmd.type = "LOGIN" /\ Goes(t, "create")
    <3>1. thr'[t].pc = "create" /\ thr'[t].cmd = thr[t].cmd
      BY <1>00, <2>1, Afterwards
    <3>2. \A q \in Threads : q # t => thr'[q] = thr[q]
      BY <1>00, <2>1, Afterwards
    <3>3. mapSem' = mapSem /\ (HoldsMap(t)' <=> HoldsMap(t))
      BY <1>00, <1>2, <2>1, <3>1 DEF ReturnTrue, At, HoldsMap
    <3>4. sem' = sem /\ (HoldsSession(t)' <=> HoldsSession(t))
      BY <1>00, <1>2, <2>1, <3>1 DEF ReturnTrue, At, HoldsSession
    <3> QED BY <1>0, <3>2, <3>3, <3>4, MapLockStep, SessionLockStep DEF LocksOK
  <2>2. CASE thr[t].cmd.type = "CLOSE" /\ Goes(t, "close")
    <3>1. thr'[t].pc = "close" /\ thr'[t].cmd = thr[t].cmd
      BY <1>00, <2>2, Afterwards
    <3>2. \A q \in Threads : q # t => thr'[q] = thr[q]
      BY <1>00, <2>2, Afterwards
    <3>3. mapSem' = mapSem /\ (HoldsMap(t)' <=> HoldsMap(t))
      BY <1>00, <1>2, <2>2, <3>1 DEF ReturnTrue, At, HoldsMap
    <3>4. sem' = sem /\ (HoldsSession(t)' <=> HoldsSession(t))
      BY <1>00, <1>2, <2>2, <3>1 DEF ReturnTrue, At, HoldsSession
    <3> QED BY <1>0, <3>2, <3>3, <3>4, MapLockStep, SessionLockStep DEF LocksOK
  <2>3. CASE thr[t].cmd.type = "FOLLOW" /\ Goes(t, "follow")
    <3>1. thr'[t].pc = "follow" /\ thr'[t].cmd = thr[t].cmd
      BY <1>00, <2>3, Afterwards
    <3>2. \A q \in Threads : q # t => thr'[q] = thr[q]
      BY <1>00, <2>3, Afterwards
    <3>3. mapSem' = mapSem /\ (HoldsMap(t)' <=> HoldsMap(t))
      BY <1>00, <1>2, <2>3, <3>1 DEF ReturnTrue, At, HoldsMap
    <3>4. sem' = sem /\ (HoldsSession(t)' <=> HoldsSession(t))
      BY <1>00, <1>2, <2>3, <3>1 DEF ReturnTrue, At, HoldsSession
    <3> QED BY <1>0, <3>2, <3>3, <3>4, MapLockStep, SessionLockStep DEF LocksOK
  <2>4. CASE thr[t].cmd.type = "MESSAGE" /\ Goes(t, "ensure")
    <3>1. thr'[t].pc = "ensure" /\ thr'[t].cmd = thr[t].cmd
      BY <1>00, <2>4, Afterwards
    <3>2. \A q \in Threads : q # t => thr'[q] = thr[q]
      BY <1>00, <2>4, Afterwards
    <3>3. mapSem' = mapSem /\ (HoldsMap(t)' <=> HoldsMap(t))
      BY <1>00, <1>2, <2>4, <3>1 DEF ReturnTrue, At, HoldsMap
    <3>4. sem' = sem /\ (HoldsSession(t)' <=> HoldsSession(t))
      BY <1>00, <1>2, <2>4, <3>1 DEF ReturnTrue, At, HoldsSession
    <3> QED BY <1>0, <3>2, <3>3, <3>4, MapLockStep, SessionLockStep DEF LocksOK
  <2>5. CASE thr[t].cmd.type = "DELIVERED" /\ Goes(t, "mark")
    <3>1. thr'[t].pc = "mark" /\ thr'[t].cmd = thr[t].cmd
      BY <1>00, <2>5, Afterwards
    <3>2. \A q \in Threads : q # t => thr'[q] = thr[q]
      BY <1>00, <2>5, Afterwards
    <3>3. mapSem' = mapSem /\ (HoldsMap(t)' <=> HoldsMap(t))
      BY <1>00, <1>2, <2>5, <3>1 DEF ReturnTrue, At, HoldsMap
    <3>4. sem' = sem /\ (HoldsSession(t)' <=> HoldsSession(t))
      BY <1>00, <1>2, <2>5, <3>1 DEF ReturnTrue, At, HoldsSession
    <3> QED BY <1>0, <3>2, <3>3, <3>4, MapLockStep, SessionLockStep DEF LocksOK
  <2> QED BY <1>0, <1>2, <2>1, <2>2, <2>3, <2>4, <2>5, ReturnTrueStep
<1>3. ASSUME NEW t \in Threads, ReturnFalse(t) PROVE LocksOK'
  <2>1. CASE thr[t].cmd.type = "LOGIN" /\ Goes(t, "lost")
    <3>1. thr'[t].pc = "lost" /\ thr'[t].cmd = thr[t].cmd
      BY <1>00, <2>1, Afterwards
    <3>2. \A q \in Threads : q # t => thr'[q] = thr[q]
      BY <1>00, <2>1, Afterwards
    <3>3. mapSem' = mapSem /\ (HoldsMap(t)' <=> HoldsMap(t))
      BY <1>00, <1>3, <2>1, <3>1 DEF ReturnFalse, At, HoldsMap
    <3>4. sem' = sem /\ (HoldsSession(t)' <=> HoldsSession(t))
      BY <1>00, <1>3, <2>1, <3>1 DEF ReturnFalse, At, HoldsSession
    <3> QED BY <1>0, <3>2, <3>3, <3>4, MapLockStep, SessionLockStep DEF LocksOK
  <2>2. CASE thr[t].cmd.type = "CLOSE" /\ Goes(t, "close")
    <3>1. thr'[t].pc = "close" /\ thr'[t].cmd = thr[t].cmd
      BY <1>00, <2>2, Afterwards
    <3>2. \A q \in Threads : q # t => thr'[q] = thr[q]
      BY <1>00, <2>2, Afterwards
    <3>3. mapSem' = mapSem /\ (HoldsMap(t)' <=> HoldsMap(t))
      BY <1>00, <1>3, <2>2, <3>1 DEF ReturnFalse, At, HoldsMap
    <3>4. sem' = sem /\ (HoldsSession(t)' <=> HoldsSession(t))
      BY <1>00, <1>3, <2>2, <3>1 DEF ReturnFalse, At, HoldsSession
    <3> QED BY <1>0, <3>2, <3>3, <3>4, MapLockStep, SessionLockStep DEF LocksOK
  <2>3. CASE thr[t].cmd.type = "FOLLOW" /\ Ends(t, "deliver")
    <3>1. thr'[t].pc = "deliver" /\ thr'[t].cmd.type = "NONE"
      BY <1>00, <2>3, Afterwards
    <3>2. \A q \in Threads : q # t => thr'[q] = thr[q]
      BY <1>00, <2>3, Afterwards
    <3>3. HoldsMap(t) /\ mapSem' = Free /\ ~HoldsMap(t)'
      BY <1>00, <1>3, <2>3, <3>1 DEF ReturnFalse, At, HoldsMap
    <3>4. sem' = sem /\ (HoldsSession(t)' <=> HoldsSession(t))
      BY <1>00, <1>3, <2>3, <3>1 DEF ReturnFalse, At, HoldsSession
    <3> QED BY <1>0, <3>2, <3>3, <3>4, MapLockStep, SessionLockStep DEF LocksOK
  <2>4. CASE thr[t].cmd.type = "MESSAGE" /\ Ends(t, "deliver")
    <3>1. thr'[t].pc = "deliver" /\ thr'[t].cmd.type = "NONE"
      BY <1>00, <2>4, Afterwards
    <3>2. \A q \in Threads : q # t => thr'[q] = thr[q]
      BY <1>00, <2>4, Afterwards
    <3>3. mapSem' = mapSem /\ (HoldsMap(t)' <=> HoldsMap(t))
      BY <1>00, <1>3, <2>4, <3>1 DEF ReturnFalse, At, HoldsMap
    <3>4. sem' = sem /\ (HoldsSession(t)' <=> HoldsSession(t))
      BY <1>00, <1>3, <2>4, <3>1 DEF ReturnFalse, At, HoldsSession
    <3> QED BY <1>0, <3>2, <3>3, <3>4, MapLockStep, SessionLockStep DEF LocksOK
  <2>5. CASE thr[t].cmd.type = "DELIVERED" /\ Ends(t, "ready")
    <3>1. thr'[t].pc = "ready" /\ thr'[t].cmd.type = "NONE"
      BY <1>00, <2>5, Afterwards
    <3>2. \A q \in Threads : q # t => thr'[q] = thr[q]
      BY <1>00, <2>5, Afterwards
    <3>3. mapSem' = mapSem /\ (HoldsMap(t)' <=> HoldsMap(t))
      BY <1>00, <1>3, <2>5, <3>1 DEF ReturnFalse, At, HoldsMap
    <3>4. HoldsSession(t) /\ sem' = [sem EXCEPT ![UserOf[t]] = Free] /\ ~HoldsSession(t)'
      BY <1>00, <1>3, <2>5, <3>1 DEF ReturnFalse, At, HoldsSession
    <3> QED BY <1>0, <3>2, <3>3, <3>4, MapLockStep, SessionLockStep DEF LocksOK
  <2> QED BY <1>0, <1>3, <2>1, <2>2, <2>3, <2>4, <2>5, ReturnFalseStep
<1>4. ASSUME NEW t \in Threads, TakeMap(t) PROVE LocksOK'
  <2>1. CASE thr[t].pc = "create" /\ Goes(t, "creating")
    <3>1. thr'[t].pc = "creating" /\ thr'[t].cmd = thr[t].cmd
      BY <1>00, <2>1, Afterwards
    <3>2. \A q \in Threads : q # t => thr'[q] = thr[q]
      BY <1>00, <2>1, Afterwards
    <3>3. mapSem = Free /\ mapSem' = t /\ HoldsMap(t)'
      BY <1>00, <1>4, <2>1, <3>1 DEF TakeMap, At, HoldsMap
    <3>4. sem' = sem /\ (HoldsSession(t)' <=> HoldsSession(t))
      BY <1>00, <1>4, <2>1, <3>1 DEF TakeMap, At, HoldsSession
    <3> QED BY <1>0, <3>2, <3>3, <3>4, MapLockStep, SessionLockStep DEF LocksOK
  <2>2. CASE thr[t].pc = "close" /\ Goes(t, "closing")
    <3>1. thr'[t].pc = "closing" /\ thr'[t].cmd = thr[t].cmd
      BY <1>00, <2>2, Afterwards
    <3>2. \A q \in Threads : q # t => thr'[q] = thr[q]
      BY <1>00, <2>2, Afterwards
    <3>3. mapSem = Free /\ mapSem' = t /\ HoldsMap(t)'
      BY <1>00, <1>4, <2>2, <3>1 DEF TakeMap, At, HoldsMap
    <3>4. sem' = sem /\ (HoldsSession(t)' <=> HoldsSession(t))
      BY <1>00, <1>4, <2>2, <3>1 DEF TakeMap, At, HoldsSession
    <3> QED BY <1>0, <3>2, <3>3, <3>4, MapLockStep, SessionLockStep DEF LocksOK
  <2> QED BY <1>0, <1>4, <2>1, <2>2, TakeMapStep
<1>5. ASSUME NEW t \in Threads, Create(t) PROVE LocksOK'
  <2>1. CASE Becomes(t, "deliver", NoCommand, TRUE, {})
    <3>1. thr'[t].pc = "deliver"
      BY <1>00, <2>1, AfterStep
    <3>2. \A q \in Threads : q # t => thr'[q] = thr[q]
      BY <1>00, <2>1, AfterStep
    <3>3. HoldsMap(t) /\ mapSem' = Free /\ ~HoldsMap(t)'
      BY <1>00, <1>5, <2>1, <3>1 DEF Create, At, HoldsMap
    <3>4. sem' = sem /\ (HoldsSession(t)' <=> HoldsSession(t))
      BY <1>00, <1>5, <2>1, <3>1 DEF Create, At, HoldsSession
    <3> QED BY <1>0, <3>2, <3>3, <3>4, MapLockStep, SessionLockStep DEF LocksOK
  <2>2. CASE Asks(t, "CLOSE", UserOf[t], t)
    <3>1. thr'[t].pc = "wait" /\ thr'[t].cmd.type = "CLOSE"
      BY <1>00, <2>2, Afterwards
    <3>2. \A q \in Threads : q # t => thr'[q] = thr[q]
      BY <1>00, <2>2, Afterwards
    <3>3. HoldsMap(t) /\ mapSem' = Free /\ ~HoldsMap(t)'
      BY <1>00, <1>5, <2>2, <3>1 DEF Create, At, HoldsMap
    <3>4. sem' = sem /\ (HoldsSession(t)' <=> HoldsSession(t))
      BY <1>00, <1>5, <2>2, <3>1 DEF Create, At, HoldsSession
    <3> QED BY <1>0, <3>2, <3>3, <3>4, MapLockStep, SessionLockStep DEF LocksOK
  <2> QED BY <1>0, <1>5, <2>1, <2>2, CreateStep
<1>6. ASSUME NEW t \in Threads, Close(t) PROVE LocksOK'
  <2>0. Becomes(t, "end", NoCommand, FALSE, {})
    BY <1>0, <1>6, CloseStep
  <2>1. thr'[t].pc = "end"
    BY <1>00, <2>0, AfterStep
  <2>2. \A q \in Threads : q # t => thr'[q] = thr[q]
    BY <1>00, <2>0, AfterStep
  <2>3. HoldsMap(t) /\ mapSem' = Free /\ ~HoldsMap(t)'
    BY <1>00, <1>6, <2>0, <2>1 DEF Close, At, HoldsMap
  <2>4. sem' = sem /\ (HoldsSession(t)' <=> HoldsSession(t))
    BY <1>00, <1>6, <2>0, <2>1 DEF Close, At, HoldsSession
  <2> QED BY <1>0, <2>2, <2>3, <2>4, MapLockStep, SessionLockStep DEF LocksOK
<1>7. ASSUME NEW t \in Threads, Deliver(t) PROVE LocksOK'
  <2>1. CASE sem' = sem /\ Goes(t, "ready")
    <3>1. thr'[t].pc = "ready" /\ thr'[t].cmd = thr[t].cmd
      BY <1>00, <2>1, Afterwards
    <3>2. \A q \in Threads : q # t => thr'[q] = thr[q]
      BY <1>00, <2>1, Afterwards
    <3>3. mapSem' = mapSem /\ (HoldsMap(t)' <=> HoldsMap(t))
      BY <1>00, <1>7, <2>1, <3>1 DEF Deliver, At, HoldsMap
    <3>4. sem' = sem /\ (HoldsSession(t)' <=> HoldsSession(t))
      BY <1>00, <1>7, <2>1, <3>1 DEF Deliver, At, HoldsSession
    <3> QED BY <1>0, <3>2, <3>3, <3>4, MapLockStep, SessionLockStep DEF LocksOK
  <2>2. CASE sem' = [sem EXCEPT ![UserOf[t]] = t]
              /\ \E id \in 1..MaxMessages : Asks(t, "DELIVERED", UserOf[t], id)
    <3>1. thr'[t].pc = "wait" /\ thr'[t].cmd.type = "DELIVERED"
      BY <1>00, <2>2, Afterwards
    <3>2. \A q \in Threads : q # t => thr'[q] = thr[q]
      BY <1>00, <2>2, Afterwards
    <3>3. mapSem' = mapSem /\ (HoldsMap(t)' <=> HoldsMap(t))
      BY <1>00, <1>7, <2>2, <3>1 DEF Deliver, At, HoldsMap
    <3>4. sem[UserOf[t]] = Free /\ sem' = [sem EXCEPT ![UserOf[t]] = t] /\ HoldsSession(t)'
      BY <1>00, <1>7, <2>2, <3>1 DEF Deliver, At, HoldsSession
    <3> QED BY <1>0, <3>2, <3>3, <3>4, MapLockStep, SessionLockStep DEF LocksOK
  <2> QED BY <1>0, <1>7, <2>1, <2>2, DeliverStep
<1>8. ASSUME NEW t \in Threads, Mark(t) PROVE LocksOK'
  <2>1. CASE sem' = [sem EXCEPT ![UserOf[t]] = Free] /\ Ends(t, "ready")
    <3>1. thr'[t].pc = "ready" /\ thr'[t].cmd.type = "NONE"
      BY <1>00, <2>1, Afterwards
    <3>2. \A q \in Threads : q # t => thr'[q] = thr[q]
      BY <1>00, <2>1, Afterwards
    <3>3. mapSem' = mapSem /\ (HoldsMap(t)' <=> HoldsMap(t))
      BY <1>00, <1>8, <2>1, <3>1 DEF Mark, At, HoldsMap
    <3>4. HoldsSession(t) /\ sem' = [sem EXCEPT ![UserOf[t]] = Free] /\ ~HoldsSession(t)'
      BY <1>00, <1>8, <2>1, <3>1 DEF Mark, At, HoldsSession
    <3> QED BY <1>0, <3>2, <3>3, <3>4, MapLockStep, SessionLockStep DEF LocksOK
  <2>2. CASE sem' = sem
              /\ \E id \in 1..MaxMessages : Asks(t, "DELIVERED", UserOf[t], id)
    <3>1. thr'[t].pc = "wait" /\ thr'[t].cmd.type = "DELIVERED"
      BY <1>00, <2>2, Afterwards
    <3>2. \A q \in Threads : q # t => thr'[q] = thr[q]
      BY <1>00, <2>2, Afterwards
    <3>3. mapSem' = mapSem /\ (HoldsMap(t)' <=> HoldsMap(t))
      BY <1>00, <1>8, <2>2, <3>1 DEF Mark, At, HoldsMap
    <3>4. sem' = sem /\ (HoldsSession(t)' <=> HoldsSession(t))
      BY <1>00, <1>8, <2>2, <3>1 DEF Mark, At, HoldsSession
    <3> QED BY <1>0, <3>2, <3>3, <3>4, MapLockStep, SessionLockStep DEF LocksOK
  <2> QED BY <1>0, <1>8, <2>1, <2>2, MarkStep
<1>9. ASSUME NEW t \in Threads, ReceiveNothing(t) PROVE LocksOK'
  <2>0. Goes(t, "deliver")
    BY <1>0, <1>9, ReceiveNothingStep
  <2>1. thr'[t].pc = "deliver" /\ thr'[t].cmd = thr[t].cmd
    BY <1>00, <2>0, Afterwards
  <2>2. \A q \in Threads : q # t => thr'[q] = thr[q]
    BY <1>00, <2>0, Afterwards
  <2>3. mapSem' = mapSem /\ (HoldsMap(t)' <=> HoldsMap(t))
    BY <1>00, <1>9, <2>0, <2>1 DEF ReceiveNothing, At, HoldsMap
  <2>4. sem' = sem /\ (HoldsSession(t)' <=> HoldsSession(t))
    BY <1>00, <1>9, <2>0, <2>1 DEF ReceiveNothing, At, HoldsSession
  <2> QED BY <1>0, <2>2, <2>3, <2>4, MapLockStep, SessionLockStep DEF LocksOK
<1>10. ASSUME NEW t \in Threads, ReceiveClose(t) PROVE LocksOK'
  <2>0. Asks(t, "CLOSE", UserOf[t], t)
    BY <1>0, <1>10, ReceiveCloseStep
  <2>1. thr'[t].pc = "wait" /\ thr'[t].cmd.type = "CLOSE"
    BY <1>00, <2>0, Afterwards
  <2>2. \A q \in Threads : q # t => thr'[q] = thr[q]
    BY <1>00, <2>0, Afterwards
  <2>3. mapSem' = mapSem /\ (HoldsMap(t)' <=> HoldsMap(t))
    BY <1>00, <1>10, <2>0, <2>1 DEF ReceiveClose, At, HoldsMap
  <2>4. sem' = sem /\ (HoldsSession(t)' <=> HoldsSession(t))
    BY <1>00, <1>10, <2>0, <2>1 DEF ReceiveClose, At, HoldsSession
  <2> QED BY <1>0, <2>2, <2>3, <2>4, MapLockStep, SessionLockStep DEF LocksOK
<1>11. ASSUME NEW t \in Threads, NEW n \in Names, ReceiveFollow(t, n) PROVE LocksOK'
  <2>0. Asks(t, "FOLLOW", n, UserOf[t])
    BY <1>0, <1>11, ReceiveFollowStep
  <2>1. thr'[t].pc = "wait" /\ thr'[t].cmd.type = "FOLLOW"
    BY <1>00, <2>0, Afterwards
  <2>2. \A q \in Threads : q # t => thr'[q] = thr[q]
    BY <1>00, <2>0, Afterwards
  <2>3. mapSem = Free /\ mapSem' = t /\ HoldsMap(t)'
    BY <1>00, <1>11, <2>0, <2>1 DEF ReceiveFollow, At, HoldsMap
  <2>4. sem' = sem /\ (HoldsSession(t)' <=> HoldsSession(t))
    BY <1>00, <1>11, <2>0, <2>1 DEF ReceiveFollow, At, HoldsSession
  <2> QED BY <1>0, <2>2, <2>3, <2>4, MapLockStep, SessionLockStep DEF LocksOK
<1>12. ASSUME NEW t \in Threads, AddFollowerOf(t) PROVE LocksOK'
  <2>0. Ends(t, "deliver")
    BY <1>0, <1>12, AddFollowerStep
  <2>1. thr'[t].pc = "deliver" /\ thr'[t].cmd.type = "NONE"
    BY <1>00, <2>0, Afterwards
  <2>2. \A q \in Threads : q # t => thr'[q] = thr[q]
    BY <1>00, <2>0, Afterwards
  <2>3. HoldsMap(t) /\ mapSem' = Free /\ ~HoldsMap(t)'
    BY <1>00, <1>12, <2>0, <2>1 DEF AddFollowerOf, At, HoldsMap
  <2>4. sem' = sem /\ (HoldsSession(t)' <=> HoldsSession(t))
    BY <1>00, <1>12, <2>0, <2>1 DEF AddFollowerOf, At, HoldsSession
  <2> QED BY <1>0, <2>2, <2>3, <2>4, MapLockStep, SessionLockStep DEF LocksOK
<1>13. ASSUME NEW t \in Threads, ReceiveMessage(t) PROVE LocksOK'
  <2>0. Becomes(t, "wait", Command("MESSAGE", UserOf[t], used.messages + 1),
                 thr[t].in, Followers(lead, UserOf[t]))
    BY <1>0, <1>13, ReceiveMessageStep
  <2>1. thr'[t].pc = "wait" /\ thr'[t].cmd.type = "MESSAGE"
    BY <1>0, <2>0, AfterStep, ReceiveMessageStep, <1>13
  <2>2. \A q \in Threads : q # t => thr'[q] = thr[q]
    BY <1>00, <2>0, AfterStep
  <2>3. mapSem' = mapSem /\ (HoldsMap(t)' <=> HoldsMap(t))
    BY <1>00, <1>13, <2>0, <2>1 DEF ReceiveMessage, At, HoldsMap
  <2>4. sem' = sem /\ (HoldsSession(t)' <=> HoldsSession(t))
    BY <1>00, <1>13, <2>0, <2>1 DEF ReceiveMessage, At, HoldsSession
  <2> QED BY <1>0, <2>2, <2>3, <2>4, MapLockStep, SessionLockStep DEF LocksOK
<1>14. ASSUME NEW t \in Threads, Ensure(t) PROVE LocksOK'
  <2>0. Goes(t, "enqueue")
    BY <1>0, <1>14, EnsureStep
  <2>1. thr'[t].pc = "enqueue" /\ thr'[t].cmd = thr[t].cmd
    BY <1>00, <2>0, Afterwards
  <2>2. \A q \in Threads : q # t => thr'[q] = thr[q]
    BY <1>00, <2>0, Afterwards
  <2>3. mapSem' = mapSem /\ (HoldsMap(t)' <=> HoldsMap(t))
    BY <1>00, <1>14, <2>0, <2>1 DEF Ensure, At, HoldsMap
  <2>4. sem' = sem /\ (HoldsSession(t)' <=> HoldsSession(t))
    BY <1>00, <1>14, <2>0, <2>1 DEF Ensure, At, HoldsSession
  <2> QED BY <1>0, <2>2, <2>3, <2>4, MapLockStep, SessionLockStep DEF LocksOK
<1>15. ASSUME NEW t \in Threads, SendToFollowers(t) PROVE LocksOK'
  <2>0. Ends(t, "deliver")
    BY <1>0, <1>15, SendStep
  <2>1. thr'[t].pc = "deliver" /\ thr'[t].cmd.type = "NONE"
    BY <1>00, <2>0, Afterwards
  <2>2. \A q \in Threads : q # t => thr'[q] = thr[q]
    BY <1>00, <2>0, Afterwards
  <2>3. mapSem' = mapSem /\ (HoldsMap(t)' <=> HoldsMap(t))
    BY <1>00, <1>15, <2>0, <2>1 DEF SendToFollowers, At, HoldsMap
  <2>4. sem' = sem /\ (HoldsSession(t)' <=> HoldsSession(t))
    BY <1>00, <1>15, <2>0, <2>1 DEF SendToFollowers, At, HoldsSession
  <2> QED BY <1>0, <2>2, <2>3, <2>4, MapLockStep, SessionLockStep DEF LocksOK
<1>16. CASE TakeOver
  <2>1. \A t \in Threads : /\ thr'[t].pc \in {"wait", "end"}
                           /\ thr'[t].cmd.type \in {"LOGIN", "NONE"}
    <3>1. \A t \in Threads : thr'[t] \in {Arrived(t), Gone}
      BY <1>16 DEF TakeOver
    <3>2. \A t \in Threads : /\ Arrived(t).pc = "wait" /\ Arrived(t).cmd.type = "LOGIN"
                             /\ Gone.pc = "end" /\ Gone.cmd.type = "NONE"
      BY NoCommandIs DEF Arrived, Gone, Command
    <3> QED BY <3>1, <3>2
  <2>2. mapSem' = Free /\ sem' = [n \in Names |-> Free] /\ Free \notin Threads
    BY <1>16, ServerAssumption DEF TakeOver
  <2> QED
    BY <2>1, <2>2 DEF LocksOK, MapLockOK, SessionLocksOK, HoldsMap, HoldsSession
<1>17. CASE UNCHANGED <<thr, mapSem, sem>>
  BY <1>0, <1>17 DEF LocksOK, MapLockOK, SessionLocksOK, HoldsMap, HoldsSession
<1> QED
  BY <1>1, <1>2, <1>3, <1>4, <1>5, <1>6, <1>7, <1>8, <1>9, <1>10, <1>11, <1>12, <1>13,
     <1>14, <1>15, <1>16, <1>17
  DEF Next, LockStep, FreeStep, ClientStep, Apply, Crash, Idle, vars

-----------------------------------------------------------------------------
(* The sessions of the leader *)

\* The steps of a thread but those of logins and closes leave it attached, or
\* not, as it was; its client is not told that it is logged in, and it is not new
\* that the backup is to know it.
Quiet(t) ==
    /\ Attached(t)' <=> Attached(t)
    /\ thr'[t].in = thr[t].in
    /\ Known(t)' => Known(t)
    /\ thr'[t].pc = "wait" /\ thr'[t].cmd.type = "LOGIN" =>
          thr[t].pc = "wait" /\ thr[t].cmd.type = "LOGIN"
    /\ \A q \in Threads : q # t => thr'[q] = thr[q]

QuietStep(t) ==
    \/ ReturnTrue(t) \/ ReturnFalse(t) \/ TakeMap(t) \/ Deliver(t) \/ Mark(t)
    \/ ReceiveNothing(t) \/ ReceiveClose(t) \/ (\E n \in Names : ReceiveFollow(t, n))
    \/ AddFollowerOf(t) \/ ReceiveMessage(t) \/ Ensure(t) \/ SendToFollowers(t)

LEMMA QuietSteps ==
    ASSUME ThreadsOK, LeaderOK, UsedOK, NEW t \in Threads, QuietStep(t)
    PROVE  Quiet(t)
<1> USE DEF Quiet, Attached, Known, At
<1>0. ThreadsOK
  OBVIOUS
<1>1. ASSUME ReturnTrue(t) PROVE Quiet(t)
  <2>1. CASE thr[t].cmd.type = "LOGIN" /\ Goes(t, "create")
    BY <1>0, <1>1, <2>1, Afterwards DEF ReturnTrue
  <2>2. CASE thr[t].cmd.type = "CLOSE" /\ Goes(t, "close")
    BY <1>0, <1>1, <2>2, Afterwards DEF ReturnTrue
  <2>3. CASE thr[t].cmd.type = "FOLLOW" /\ Goes(t, "follow")
    BY <1>0, <1>1, <2>3, Afterwards DEF ReturnTrue
  <2>4. CASE thr[t].cmd.type = "MESSAGE" /\ Goes(t, "ensure")
    BY <1>0, <1>1, <2>4, Afterwards DEF ReturnTrue
  <2>5. CASE thr[t].cmd.type = "DELIVERED" /\ Goes(t, "mark")
    BY <1>0, <1>1, <2>5, Afterwards DEF ReturnTrue
  <2> QED BY <1>0, <1>1, <2>1, <2>2, <2>3, <2>4, <2>5, ReturnTrueStep
<1>2. ASSUME ReturnFalse(t) PROVE Quiet(t)
  <2>1. CASE thr[t].cmd.type = "LOGIN" /\ Goes(t, "lost")
    BY <1>0, <1>2, <2>1, Afterwards DEF ReturnFalse
  <2>2. CASE thr[t].cmd.type = "CLOSE" /\ Goes(t, "close")
    BY <1>0, <1>2, <2>2, Afterwards DEF ReturnFalse
  <2>3. CASE thr[t].cmd.type = "FOLLOW" /\ Ends(t, "deliver")
    BY <1>0, <1>2, <2>3, Afterwards DEF ReturnFalse
  <2>4. CASE thr[t].cmd.type = "MESSAGE" /\ Ends(t, "deliver")
    BY <1>0, <1>2, <2>4, Afterwards DEF ReturnFalse
  <2>5. CASE thr[t].cmd.type = "DELIVERED" /\ Ends(t, "ready")
    BY <1>0, <1>2, <2>5, Afterwards DEF ReturnFalse
  <2> QED BY <1>0, <1>2, <2>1, <2>2, <2>3, <2>4, <2>5, ReturnFalseStep
<1>3. ASSUME TakeMap(t) PROVE Quiet(t)
  <2>1. CASE thr[t].pc = "create" /\ Goes(t, "creating")
    BY <1>0, <1>3, <2>1, Afterwards DEF TakeMap
  <2>2. CASE thr[t].pc = "close" /\ Goes(t, "closing")
    BY <1>0, <1>3, <2>2, Afterwards DEF TakeMap
  <2> QED BY <1>0, <1>3, <2>1, <2>2, TakeMapStep
<1>4. ASSUME Deliver(t) PROVE Quiet(t)
  <2>1. CASE Goes(t, "ready")
    BY <1>0, <1>4, <2>1, Afterwards DEF Deliver
  <2>2. CASE \E id \in 1..MaxMessages : Asks(t, "DELIVERED", UserOf[t], id)
    BY <1>0, <1>4, <2>2, Afterwards DEF Deliver
  <2> QED BY <1>0, <1>4, <2>1, <2>2, DeliverStep
<1>5. ASSUME Mark(t) PROVE Quiet(t)
  <2>1. CASE Ends(t, "ready")
    BY <1>0, <1>5, <2>1, Afterwards DEF Mark
  <2>2. CASE \E id \in 1..MaxMessages : Asks(t, "DELIVERED", UserOf[t], id)
    BY <1>0, <1>5, <2>2, Afterwards DEF Mark
  <2> QED BY <1>0, <1>5, <2>1, <2>2, MarkStep
<1>6. ASSUME ReceiveNothing(t) PROVE Quiet(t)
  <2>1. Goes(t, "deliver")
    BY <1>0, <1>6, ReceiveNothingStep
  <2> QED BY <1>0, <1>6, <2>1, Afterwards DEF ReceiveNothing
<1>7. ASSUME ReceiveClose(t) PROVE Quiet(t)
  <2>1. Asks(t, "CLOSE", UserOf[t], t)
    BY <1>0, <1>7, ReceiveCloseStep
  <2> QED BY <1>0, <1>7, <2>1, Afterwards DEF ReceiveClose
<1>8. ASSUME NEW n \in Names, ReceiveFollow(t, n) PROVE Quiet(t)
  <2>1. Asks(t, "FOLLOW", n, UserOf[t])
    BY <1>0, <1>8, ReceiveFollowStep
  <2> QED BY <1>0, <1>8, <2>1, Afterwards DEF ReceiveFollow
<1>9. ASSUME AddFollowerOf(t) PROVE Quiet(t)
  <2>1. Ends(t, "deliver")
    BY <1>0, <1>9, AddFollowerStep
  <2> QED BY <1>0, <1>9, <2>1, Afterwards DEF AddFollowerOf
<1>10. ASSUME ReceiveMessage(t) PROVE Quiet(t)
  <2> DEFINE c == Command("MESSAGE", UserOf[t], used.messages + 1)
  <2>1. Becomes(t, "wait", c, thr[t].in, Followers(lead, UserOf[t])) /\ c.type = "MESSAGE"
    BY <1>0, <1>10, ReceiveMessageStep
  <2> HIDE DEF c
  <2>2. /\ thr'[t].pc = "wait" /\ thr'[t].cmd.type = "MESSAGE" /\ thr'[t].in = thr[t].in
        /\ \A q \in Threads : q # t => thr'[q] = thr[q]
    BY <1>0, <2>1, AfterStep
  <2> QED BY <1>10, <2>2 DEF ReceiveMessage
<1>11. ASSUME Ensure(t) PROVE Quiet(t)
  <2>1. Goes(t, "enqueue")
    BY <1>0, <1>11, EnsureStep
  <2> QED BY <1>0, <1>11, <2>1, Afterwards DEF Ensure
<1>12. ASSUME SendToFollowers(t) PROVE Quiet(t)
  <2>1. Ends(t, "deliver")
    BY <1>0, <1>12, SendStep
  <2> QED BY <1>0, <1>12, <2>1, Afterwards DEF SendToFollowers
<1> QED BY <1>1, <1>2, <1>3, <1>4, <1>5, <1>6, <1>7, <1>8, <1>9, <1>10, <1>11, <1>12 DEF QuietStep

LEMMA EnterLogAttached ==
    ASSUME ThreadsOK, NEW t \in Threads, EnterLog(t)
    PROVE  /\ \A q \in Threads : Attached(q)' <=> Attached(q)
           /\ \A q \in Threads : thr'[q].in = thr[q].in
<1>1. /\ thr'[t].pc = "logged" /\ thr'[t].cmd = thr[t].cmd /\ thr'[t].in = thr[t].in
      /\ \A q \in Threads : q # t => thr'[q] = thr[q]
  BY EnterLogStep, Afterwards
<1>2. Attached(t)' <=> Attached(t)
  BY <1>1 DEF Attached, EnterLog, At
<1> QED BY <1>1, <1>2 DEF Attached

LEMMA LeaderSame ==
    ASSUME LeaderOK, \A q \in Threads : Attached(q)' <=> Attached(q),
           Good(lead'), SocksStay(lead, lead')
    PROVE  LeaderOK'
<1>1. \A q \in Threads : UserOf[q] \in Names
  BY ServerAssumption
<1> QED BY <1>1 DEF LeaderOK, SocksStay

\* What a quiet step does to the leader is no matter of the sockets.
LEMMA QuietLeader ==
    ASSUME ThreadsOK, LeaderOK, UsedOK, NEW t \in Threads, QuietStep(t)
    PROVE  Good(lead') /\ SocksStay(lead, lead')
<1>0. Good(lead) /\ UserOf[t] \in Names /\ ThreadOK(t)
  BY ThreadIs DEF LeaderOK
<1>1. CASE lead' = lead
  BY <1>0, <1>1 DEF SocksStay
<1>2. CASE Deliver(t)
  BY <1>0, <1>2, GetPacketGood DEF Deliver
<1>3. CASE Mark(t)
  <2> DEFINE mid == MarkDelivered(lead, UserOf[t], thr[t].cmd.arg)
  <2>1. Good(mid) /\ SocksStay(lead, mid)
    BY <1>0, MarkDeliveredGood
  <2>2. lead' = GetPacket(mid, UserOf[t])
    BY <1>3 DEF Mark
  <2> HIDE DEF mid
  <2>3. Good(lead') /\ SocksStay(mid, lead')
    BY <1>0, <2>1, <2>2, GetPacketGood
  <2> QED BY <2>1, <2>3 DEF SocksStay
<1>4. CASE AddFollowerOf(t)
  <2>1. thr[t].cmd.user \in Names
    BY <1>0, <1>4 DEF AddFollowerOf, At, ThreadOK, IssuedBy, WellFormed, AnyCommand
  <2> QED BY <1>0, <1>4, <2>1, FollowGood DEF AddFollowerOf
<1>5. CASE Ensure(t)
  BY <1>0, <1>5, EnsureBoxesGood DEF Ensure
<1>6. CASE SendToFollowers(t)
  <2>1. thr[t].cmd.arg \in 1..MaxMessages
    BY <1>0, <1>6 DEF SendToFollowers, At, ThreadOK, IssuedBy, WellFormed
  <2> QED BY <1>0, <1>6, <2>1, EnqueueGood DEF SendToFollowers
<1> QED
  BY <1>1, <1>2, <1>3, <1>4, <1>5, <1>6
  DEF QuietStep, ReturnTrue, ReturnFalse, TakeMap, ReceiveNothing, ReceiveClose,
      ReceiveFollow, ReceiveMessage

\* The steps of a thread, by what they do to the sessions.
LEMMA StepsAre ==
    ASSUME [Next]_vars
    PROVE  \/ \E t \in Threads : EnterLog(t) \/ Create(t) \/ Close(t) \/ QuietStep(t)
           \/ Apply \/ Crash \/ TakeOver \/ UNCHANGED vars
BY DEF Next, LockStep, FreeStep, ClientStep, QuietStep, Idle

\* A login adds the socket of its thread, which is not there yet; a close takes
\* out the one that is.
LEMMA LeaderKept ==
    ASSUME IInv, [Next]_vars PROVE LeaderOK'
<1>0. ThreadsOK /\ LeaderOK /\ UsedOK /\ BackupOK /\ Good(lead)
  BY DEF IInv, LeaderOK
<1>1. ASSUME NEW t \in Threads, EnterLog(t) PROVE LeaderOK'
  <2>1. lead' = lead
    BY <1>1 DEF EnterLog
  <2>2. \A q \in Threads : Attached(q)' <=> Attached(q)
    BY <1>0, <1>1, EnterLogAttached
  <2> QED BY <1>0, <2>1, <2>2, LeaderSame DEF SocksStay
<1>2. ASSUME NEW t \in Threads, QuietStep(t) PROVE LeaderOK'
  <2>1. \A q \in Threads : Attached(q)' <=> Attached(q)
    BY <1>0, <1>2, QuietSteps DEF Quiet, Attached
  <2>2. Good(lead') /\ SocksStay(lead, lead')
    BY <1>0, <1>2, QuietLeader
  <2> QED BY <1>0, <2>1, <2>2, LeaderSame
<1>3. ASSUME NEW t \in Threads, Create(t) PROVE LeaderOK'
  <2>1. lead' = CreateSession(lead, UserOf[t], t) /\ ~Attached(t)
    BY <1>3 DEF Create, At, Attached
  <2>2. t \notin lead.sessions[UserOf[t]].socks
    BY <1>0, <2>1 DEF LeaderOK
  <2>3. /\ Good(lead')
        /\ SocksBecome(lead, lead', UserOf[t], lead.sessions[UserOf[t]].socks \cup {t})
    BY <1>0, <2>1, <2>2, CreateSessionGood
  <2>4. CASE Becomes(t, "deliver", NoCommand, TRUE, {})
    <3>1. thr'[t].pc = "deliver" /\ \A q \in Threads : q # t => thr'[q] = thr[q]
      BY <1>0, <2>4, AfterStep
    <3>2. Attached(t)' /\ \A q \in Threads : q # t => (Attached(q)' <=> Attached(q))
      BY <3>1 DEF Attached
    <3> QED BY <1>0, <2>3, <3>2, ThreadIs DEF LeaderOK, SocksBecome
  <2>5. CASE Asks(t, "CLOSE", UserOf[t], t)
    <3>1. /\ thr'[t].pc = "wait" /\ thr'[t].cmd.type = "CLOSE"
          /\ \A q \in Threads : q # t => thr'[q] = thr[q]
      BY <1>0, <2>5, Afterwards
    <3>2. Attached(t)' /\ \A q \in Threads : q # t => (Attached(q)' <=> Attached(q))
      BY <3>1 DEF Attached
    <3> QED BY <1>0, <2>3, <3>2, ThreadIs DEF LeaderOK, SocksBecome
  <2> QED BY <1>0, <1>3, <2>4, <2>5, CreateStep
<1>4. ASSUME NEW t \in Threads, Close(t) PROVE LeaderOK'
  <2>1. lead' = CloseSession(lead, UserOf[t], t) /\ Attached(t)
    BY <1>4 DEF Close, At, Attached
  <2>2. t \in lead.sessions[UserOf[t]].socks
    BY <1>0, <2>1 DEF LeaderOK
  <2>3. /\ Good(lead')
        /\ SocksBecome(lead, lead', UserOf[t], lead.sessions[UserOf[t]].socks \ {t})
    BY <1>0, <2>1, <2>2, CloseSessionGood
  <2>4. thr'[t].pc = "end" /\ \A q \in Threads : q # t => thr'[q] = thr[q]
    BY <1>0, <1>4, CloseStep, AfterStep
  <2>5. ~Attached(t)' /\ \A q \in Threads : q # t => (Attached(q)' <=> Attached(q))
    BY <2>4 DEF Attached
  <2> QED BY <1>0, <2>3, <2>5, ThreadIs DEF LeaderOK, SocksBecome
<1>5. CASE Apply
  BY <1>0, <1>5 DEF Apply, LeaderOK, Attached
<1>6. CASE Crash
  <2>1. /\ lead = [db |-> lead.db, sessions |-> lead.sessions, boxes |-> lead.boxes,
                   mail |-> lead.mail, down |-> lead.down]
        /\ lead.db \in Seq(Lines) /\ lead.sessions \in [Names -> Records]
        /\ lead.boxes \subseteq Names /\ lead.mail \in [Names -> Seq(Packets)]
    BY <1>0, StateFields DEF Good
  <2>2. lead' = [db |-> lead.db, sessions |-> lead.sessions, boxes |-> lead.boxes,
                 mail |-> lead.mail, down |-> TRUE]
    BY <1>6, <2>1 DEF Crash
  <2>3. lead' \in ServerStates /\ lead'.sessions = lead.sessions
    BY <2>1, <2>2, StateOf
  <2>4. Good(lead') /\ SocksStay(lead, lead')
    BY <1>0, <2>3, OtherFieldsGood
  <2> QED BY <1>0, <1>6, <2>4, LeaderSame DEF Crash, Attached
<1>7. CASE TakeOver
  <2>1. Good(back) /\ lead' = UpdateClients(back)
    BY <1>0, <1>7 DEF TakeOver, BackupOK
  <2>2. Good(lead') /\ \A n \in Names : lead'.sessions[n].socks = {}
    BY <2>1, UpdateClientsGood
  <2>3. \A q \in Threads : \/ thr'[q].pc = "end"
                           \/ thr'[q].pc = "wait" /\ thr'[q].cmd.type = "LOGIN"
    <3>1. \A q \in Threads : thr'[q] = Arrived(q) \/ thr'[q] = Gone
      BY <1>7 DEF TakeOver
    <3>2. ASSUME NEW q \in Threads
          PROVE  Arrived(q).pc = "wait" /\ Arrived(q).cmd.type = "LOGIN" /\ Gone.pc = "end"
      BY DEF Arrived, Gone, Command
    <3> QED BY <3>1, <3>2
  <2>4. \A q \in Threads : ~Attached(q)' /\ UserOf[q] \in Names
    BY <2>3, ServerAssumption DEF Attached
  <2> QED BY <2>2, <2>4 DEF LeaderOK
<1>8. CASE UNCHANGED vars
  BY <1>0, <1>8 DEF vars, LeaderOK, Attached
<1> QED BY <1>1, <1>2, <1>3, <1>4, <1>5, <1>6, <1>7, <1>8, StepsAre

-----------------------------------------------------------------------------
(* The backup *)

LEMMA FutureIs ==
    ASSUME BackupOK
    PROVE  /\ Future = ahead[Len(log) + 1] /\ Good(Future) /\ (Future.down => used.stray)
           /\ Len(log) \in Nat
<1>1. Len(log) \in Nat /\ Len(ahead) = Len(log) + 1
  BY DEF BackupOK
<1>2. Len(ahead) \in 1..Len(ahead)
  BY <1>1
<1> QED BY <1>1, <1>2 DEF BackupOK, Future

\* The two servers after a take-over differ in that the backup may have failed.
LEMMA TwoServers ==
    ASSUME BackupOK, TakeOver
    PROVE  /\ Good(back) /\ back = ahead[1] /\ 1 \in 1..Len(ahead)
           /\ lead'.db = back.db /\ lead'.mail = back.mail
           /\ \A n \in Names : lead'.sessions[n].count = 0
           /\ Len(ahead') = 1 /\ Future' = ahead'[1]
           /\ ahead'[1].db = back.db /\ ahead'[1].mail = back.mail
           /\ \A n \in Names : ahead'[1].sessions[n].count = 0
<1>0. PICK stray \in SUBSET Sockets(back) : back' = ReceiveCloses(back, stray)
  BY DEF TakeOver
<1> DEFINE new == ReceiveCloses(back, stray)
<1>1. Good(back) /\ back = ahead[1] /\ 1 \in 1..Len(ahead)
  BY DEF BackupOK
<1>2. /\ new.db = back.db /\ new.mail = back.mail
      /\ \A n \in Names : new.sessions[n].count = 0
  BY <1>1, ReceiveClosesGood
<1> HIDE DEF new
<1>3. ahead' = <<new>>
  BY <1>0 DEF TakeOver, new
<1>4. /\ lead'.db = back.db /\ lead'.mail = back.mail
      /\ \A n \in Names : lead'.sessions[n].count = 0
  BY <1>1, UpdateClientsGood DEF TakeOver
<1> QED BY <1>1, <1>2, <1>3, <1>4 DEF Future

\* A command that fits what the backup will be can enter the log.
LEMMA LogGrows ==
    ASSUME BackupOK, NEW c, WellFormed(c), Fits(Future, c), back' = back,
           used' = used, log' = Append(log, c), ahead' = Append(ahead, Commit(Future, c))
    PROVE  BackupOK' /\ Future' = Commit(Future, c)
<1> DEFINE new == Commit(Future, c)
           n == Len(log)
<1>1. Good(new) /\ (new.down => used.stray) /\ new \in ServerStates
  BY FutureIs, CommitGood DEF Good
<1>2. n \in Nat /\ Len(ahead) = n + 1 /\ Future = ahead[n + 1]
  BY FutureIs DEF BackupOK
<1>3. log \in Seq(AnyCommand) /\ ahead \in Seq(ServerStates) /\ c \in AnyCommand
  BY DEF BackupOK, WellFormed
<1> HIDE DEF new
<1>4. /\ log' \in Seq(AnyCommand) /\ Len(log') = n + 1 /\ log'[n + 1] = c
      /\ \A k \in 1..n : log'[k] = log[k]
  BY <1>3
<1>5. /\ ahead' \in Seq(ServerStates) /\ Len(ahead') = n + 2 /\ ahead'[n + 2] = new
      /\ \A k \in 1..(n + 1) : ahead'[k] = ahead[k]
  <2>1. ahead' = Append(ahead, new)
    BY DEF new
  <2> QED BY <1>1, <1>2, <1>3, <2>1
<1> HIDE DEF n
<1>6. \A k \in 1..Len(log') : WellFormed(log'[k])
  <2>1. \A k \in 1..n : WellFormed(log[k])
    BY DEF BackupOK, n
  <2> QED BY <1>2, <1>4, <2>1
<1>7. ahead'[1] = back'
  BY <1>2, <1>5 DEF BackupOK
<1>8. \A k \in 1..Len(log') : ahead'[k + 1] = Commit(ahead'[k], log'[k])
  <2> SUFFICES ASSUME NEW k \in 1..(n + 1)
               PROVE  ahead'[k + 1] = Commit(ahead'[k], log'[k])
    BY <1>4
  <2>1. CASE k = n + 1
    <3>1. ahead'[k + 1] = new /\ ahead'[k] = Future /\ log'[k] = c
      BY <1>2, <1>4, <1>5, <2>1
    <3> QED BY <3>1 DEF new
  <2>2. CASE k # n + 1
    <3>1. k \in 1..n /\ k \in 1..(n + 1) /\ k + 1 \in 1..(n + 1)
      BY <1>2, <2>2
    <3>2. ahead[k + 1] = Commit(ahead[k], log[k])
      BY <3>1 DEF BackupOK, n
    <3> QED BY <1>4, <1>5, <3>1, <3>2
  <2> QED BY <2>1, <2>2
<1>9. \A k \in 1..Len(ahead') : Good(ahead'[k]) /\ (ahead'[k].down => used'.stray)
  <2>1. \A k \in 1..(n + 1) : Good(ahead[k]) /\ (ahead[k].down => used.stray)
    BY <1>2 DEF BackupOK
  <2> QED BY <1>1, <1>2, <1>5, <2>1
<1>10. Future' = new
  BY <1>5 DEF Future
<1>11. BackupOK'
  BY <1>2, <1>4, <1>5, <1>6, <1>7, <1>8, <1>9 DEF BackupOK
<1> QED BY <1>10, <1>11 DEF new

\* The backup carries out the first entry of the log.
LEMMA LogShrinks ==
    ASSUME BackupOK, Apply
    PROVE  BackupOK' /\ Future' = Future
<1> DEFINE n == Len(log)
<1>1. log \in Seq(AnyCommand) /\ ahead \in Seq(ServerStates) /\ log # <<>>
  BY DEF BackupOK, Apply
<1>2. n \in Nat /\ n >= 1 /\ Len(ahead) = n + 1 /\ Future = ahead[n + 1]
  BY <1>1, FutureIs DEF BackupOK
<1>3. /\ log' \in Seq(AnyCommand) /\ Len(log') = n - 1
      /\ \A k \in 1..(n - 1) : log'[k] = log[k + 1]
  BY <1>1 DEF Apply
<1>4. /\ ahead' \in Seq(ServerStates) /\ Len(ahead') = n
      /\ \A k \in 1..n : ahead'[k] = ahead[k + 1]
  <2>1. ahead' = Tail(ahead) /\ ahead # <<>>
    BY <1>1, <1>2 DEF Apply
  <2> QED BY <1>1, <1>2, <2>1
<1>5. back' = Commit(ahead[1], log[1])
  BY <1>1 DEF Apply, BackupOK
<1> HIDE DEF n
<1>6. \A k \in 1..Len(log') : WellFormed(log'[k])
  <2>1. \A k \in 1..n : WellFormed(log[k])
    BY DEF BackupOK, n
  <2> QED BY <1>2, <1>3, <2>1
<1>7. \A k \in 1..n : ahead[k + 1] = Commit(ahead[k], log[k])
  BY DEF BackupOK, n
<1>8. ahead'[1] = back'
  BY <1>2, <1>4, <1>5, <1>7
<1>9. \A k \in 1..Len(log') : ahead'[k + 1] = Commit(ahead'[k], log'[k])
  <2> SUFFICES ASSUME NEW k \in 1..(n - 1)
               PROVE  ahead'[k + 1] = Commit(ahead'[k], log'[k])
    BY <1>3
  <2>1. k \in 1..n /\ k + 1 \in 1..n
    BY <1>2
  <2>2. ahead[(k + 1) + 1] = Commit(ahead[k + 1], log[k + 1])
    BY <1>7, <2>1
  <2> QED BY <1>3, <1>4, <2>1, <2>2
<1>10. \A k \in 1..Len(ahead') : Good(ahead'[k]) /\ (ahead'[k].down => used'.stray)
  <2>1. \A k \in 1..(n + 1) : Good(ahead[k]) /\ (ahead[k].down => used.stray)
    BY <1>2 DEF BackupOK
  <2>2. used' = used
    BY DEF Apply
  <2> QED BY <1>2, <1>4, <2>1, <2>2
<1>11. Future' = Future
  BY <1>2, <1>4 DEF Future
<1> QED BY <1>2, <1>3, <1>4, <1>6, <1>8, <1>9, <1>10, <1>11 DEF BackupOK

\* What the next command of a thread fits.
LEMMA CommandFits ==
    ASSUME ThreadsOK, FutureOK, NEW t \in Threads, EnterLog(t)
    PROVE  WellFormed(thr[t].cmd) /\ IssuedBy(thr[t].cmd, t) /\ Fits(Future, thr[t].cmd)
<1>1. IssuedBy(thr[t].cmd, t) /\ thr[t].pc = "wait"
  BY ThreadIs DEF EnterLog, At, ThreadOK
<1>2. thr[t].cmd.type \in {"LOGIN", "CLOSE"} =>
         thr[t].cmd.arg = t /\ thr[t].cmd.user = UserOf[t]
  BY <1>1 DEF IssuedBy, WellFormed
<1> QED BY <1>1, <1>2 DEF Fits, FutureOK, Known, IssuedBy

\* The log is carried out without harm, whatever the order in which the threads
\* had their commands committed.
LEMMA BackupKept ==
    ASSUME IInv, [Next]_vars PROVE BackupOK'
<1>0. ThreadsOK /\ BackupOK /\ FutureOK /\ UsedOK
  BY DEF IInv
<1>1. ASSUME NEW t \in Threads, EnterLog(t) PROVE BackupOK'
  <2>1. WellFormed(thr[t].cmd) /\ Fits(Future, thr[t].cmd)
    BY <1>0, <1>1, CommandFits
  <2> QED BY <1>0, <1>1, <2>1, LogGrows DEF EnterLog
<1>2. CASE Apply
  BY <1>0, <1>2, LogShrinks
<1>3. CASE TakeOver
  <2>0. PICK stray \in SUBSET Sockets(back) :
           /\ used' = [used EXCEPT !.takeOvers = @ + 1, !.stray = @ \/ stray # {}]
           /\ back' = ReceiveCloses(back, stray)
    BY <1>3 DEF TakeOver
  <2> DEFINE new == ReceiveCloses(back, stray)
  <2>1. Good(back) /\ ~back.down
    BY <1>0, <1>3 DEF BackupOK, TakeOver
  <2>6. Good(new) /\ (new.down => stray # {}) /\ new \in ServerStates
    BY <2>1, ReceiveClosesGood DEF Good
  <2>2. Good(new) /\ (new.down => used'.stray) /\ new \in ServerStates
    <3>1. used'.stray = (used.stray \/ stray # {})
      BY <1>0, <2>0 DEF UsedOK
    <3> QED BY <2>6, <3>1
  <2>3. log' = <<>> /\ ahead' = <<new>> /\ back' = new
    BY <1>3, <2>0 DEF TakeOver
  <2> HIDE DEF new
  <2>4. log' \in Seq(AnyCommand) /\ Len(log') = 0
    BY <2>3
  <2>5. ahead' \in Seq(ServerStates) /\ Len(ahead') = 1 /\ ahead'[1] = new
    BY <2>2, <2>3
  <2> QED BY <2>2, <2>3, <2>4, <2>5 DEF BackupOK
<1>4. CASE UNCHANGED <<log, ahead, back>> /\ used'.stray = used.stray
  BY <1>0, <1>4 DEF BackupOK
<1>5. ASSUME NEW t \in Threads, QuietStep(t)
      PROVE  UNCHANGED <<log, ahead, back>> /\ used'.stray = used.stray
  BY <1>0, <1>5
  DEF UsedOK, QuietStep, ReturnTrue, ReturnFalse, TakeMap, Deliver, Mark, ReceiveNothing,
      ReceiveClose, ReceiveFollow, AddFollowerOf, ReceiveMessage, Ensure, SendToFollowers
<1> QED BY <1>1, <1>2, <1>3, <1>4, <1>5, StepsAre DEF Create, Close, Crash, vars

\* No LOGIN is in the log twice without the CLOSE between, and no CLOSE before
\* its LOGIN.
LEMMA FutureKept ==
    ASSUME IInv, [Next]_vars PROVE FutureOK'
<1>0. ThreadsOK /\ LeaderOK /\ UsedOK /\ BackupOK /\ FutureOK
  BY DEF IInv
<1>1. ASSUME NEW t \in Threads, EnterLog(t) PROVE FutureOK'
  <2> DEFINE c == thr[t].cmd
  <2>1. WellFormed(c) /\ IssuedBy(c, t) /\ Fits(Future, c) /\ c.user \in Names
    BY <1>0, <1>1, CommandFits DEF WellFormed, AnyCommand
  <2>2. Future' = Commit(Future, c) /\ Good(Future)
    BY <1>0, <1>1, <2>1, LogGrows, FutureIs DEF EnterLog
  <2>3. /\ c.type = "LOGIN" => SocksBecome(Future, Future', UserOf[t],
                                           Future.sessions[UserOf[t]].socks \cup {t})
        /\ c.type = "CLOSE" => SocksBecome(Future, Future', UserOf[t],
                                           Future.sessions[UserOf[t]].socks \ {t})
        /\ c.type \notin {"LOGIN", "CLOSE"} => SocksStay(Future, Future')
    <3>1. c.type \in {"LOGIN", "CLOSE"} => c.arg = t /\ c.user = UserOf[t]
      BY <2>1 DEF IssuedBy, WellFormed
    <3> HIDE DEF c
    <3> QED BY <2>1, <2>2, <3>1, CommitGood
  <2>4. /\ thr[t].pc = "wait" /\ thr'[t].pc = "logged" /\ thr'[t].cmd = c
        /\ \A q \in Threads : q # t => thr'[q] = thr[q]
    BY <1>0, <1>1, EnterLogStep, Afterwards DEF EnterLog, At
  <2>5. /\ Known(t)' => t \in Future'.sessions[UserOf[t]].socks
        /\ thr'[t].pc = "wait" /\ thr'[t].cmd.type = "LOGIN" =>
              t \notin Future'.sessions[UserOf[t]].socks
    <3>1. UserOf[t] \in Names
      BY <1>0, ThreadIs
    <3>2. CASE c.type = "LOGIN"
      BY <2>3, <2>4, <3>1, <3>2 DEF SocksBecome
    <3>3. CASE c.type = "CLOSE"
      BY <2>4, <3>3 DEF Known
    <3>4. CASE c.type \notin {"LOGIN", "CLOSE"}
      <4>1. t \in Future.sessions[UserOf[t]].socks
        BY <1>0, <2>4, <3>4 DEF FutureOK, Known
      <4> QED BY <2>3, <2>4, <3>1, <3>4, <4>1 DEF SocksStay
    <3> QED BY <3>2, <3>3, <3>4
  <2>6. ASSUME NEW q \in Threads, q # t
        PROVE  /\ Known(q)' => q \in Future'.sessions[UserOf[q]].socks
               /\ thr'[q].pc = "wait" /\ thr'[q].cmd.type = "LOGIN" =>
                     q \notin Future'.sessions[UserOf[q]].socks
    <3>1. UserOf[q] \in Names /\ thr'[q] = thr[q]
      BY <1>0, <2>4, <2>6, ThreadIs
    <3>2. q \in Future'.sessions[UserOf[q]].socks
             <=> q \in Future.sessions[UserOf[q]].socks
      BY <2>3, <2>6, <3>1 DEF SocksBecome, SocksStay
    <3>3. Known(q)' <=> Known(q)
      BY <3>1 DEF Known
    <3> QED BY <1>0, <3>1, <3>2, <3>3 DEF FutureOK
  <2> QED BY <2>5, <2>6 DEF FutureOK
<1>2. ASSUME NEW t \in Threads, QuietStep(t) PROVE FutureOK'
  <2>1. Quiet(t)
    BY <1>0, <1>2, QuietSteps
  <2>2. ahead' = ahead
    BY <1>2 DEF QuietStep, ReturnTrue, ReturnFalse, TakeMap, Deliver, Mark, ReceiveNothing,
                ReceiveClose, ReceiveFollow, AddFollowerOf, ReceiveMessage, Ensure,
                SendToFollowers
  <2>3. Future' = Future
    BY <2>2 DEF Future
  <2>4. \A q \in Threads : q # t => (Known(q)' <=> Known(q))
    BY <2>1 DEF Quiet, Known
  <2> QED BY <1>0, <2>1, <2>3, <2>4 DEF FutureOK, Quiet
<1>3. ASSUME NEW t \in Threads, Create(t) PROVE FutureOK'
  <2>1. Future' = Future /\ Known(t)
    BY <1>3 DEF Create, At, Known, Future
  <2>2. /\ \A q \in Threads : q # t => thr'[q] = thr[q]
        /\ thr'[t].pc # "wait" \/ thr'[t].cmd.type = "CLOSE"
    <3>1. CASE Becomes(t, "deliver", NoCommand, TRUE, {})
      <4>1. thr'[t].pc = "deliver" /\ \A q \in Threads : q # t => thr'[q] = thr[q]
        BY <1>0, <3>1, AfterStep
      <4> QED BY <4>1
    <3>2. CASE Asks(t, "CLOSE", UserOf[t], t)
      <4>1. thr'[t].cmd.type = "CLOSE" /\ \A q \in Threads : q # t => thr'[q] = thr[q]
        BY <1>0, <3>2, Afterwards
      <4> QED BY <4>1
    <3> QED BY <1>0, <1>3, <3>1, <3>2, CreateStep
  <2>3. \A q \in Threads : q # t => (Known(q)' <=> Known(q))
    BY <2>2 DEF Known
  <2> QED BY <1>0, <2>1, <2>2, <2>3 DEF FutureOK
<1>4. ASSUME NEW t \in Threads, Close(t) PROVE FutureOK'
  <2>1. Future' = Future
    BY <1>4 DEF Close, Future
  <2>2. thr'[t].pc = "end" /\ \A q \in Threads : q # t => thr'[q] = thr[q]
    BY <1>0, <1>4, CloseStep, AfterStep
  <2>3. ~Known(t)' /\ \A q \in Threads : q # t => (Known(q)' <=> Known(q))
    BY <2>2 DEF Known
  <2> QED BY <1>0, <2>1, <2>2, <2>3 DEF FutureOK
<1>5. CASE Apply
  <2>1. Future' = Future
    BY <1>0, <1>5, LogShrinks
  <2> QED BY <1>0, <1>5, <2>1 DEF Apply, FutureOK, Known
<1>6. CASE TakeOver
  <2>0. PICK stray \in SUBSET Sockets(back) : back' = ReceiveCloses(back, stray)
    BY <1>6 DEF TakeOver
  <2> DEFINE new == ReceiveCloses(back, stray)
  <2>1. \A n \in Names : new.sessions[n].socks = {}
    BY <1>0, ReceiveClosesGood DEF BackupOK
  <2> HIDE DEF new
  <2>2. Future' = new
    BY <1>6, <2>0 DEF TakeOver, Future, new
  <2>3. \A q \in Threads : \/ thr'[q].pc = "end"
                           \/ thr'[q].pc = "wait" /\ thr'[q].cmd.type = "LOGIN"
    <3>1. \A q \in Threads : thr'[q] = Arrived(q) \/ thr'[q] = Gone
      BY <1>6 DEF TakeOver
    <3>2. ASSUME NEW q \in Threads
          PROVE  Arrived(q).pc = "wait" /\ Arrived(q).cmd.type = "LOGIN" /\ Gone.pc = "end"
      BY DEF Arrived, Gone, Command
    <3> QED BY <3>1, <3>2
  <2>4. \A q \in Threads : ~Known(q)' /\ UserOf[q] \in Names
    BY <2>3, ServerAssumption DEF Known
  <2> QED BY <2>1, <2>2, <2>4 DEF FutureOK
<1>7. CASE UNCHANGED <<thr, ahead>>
  BY <1>0, <1>7 DEF FutureOK, Known, Future
<1> QED BY <1>1, <1>2, <1>3, <1>4, <1>5, <1>6, <1>7, StepsAre DEF Crash, vars

-----------------------------------------------------------------------------
(* The limit of sessions *)

LoggedIn(n) == {t \in Threads : UserOf[t] = n /\ thr[t].in}

LEMMA FewerLoggedIn ==
    ASSUME AtMostMaxSessions, \A t \in Threads : thr'[t].in => thr[t].in
    PROVE  AtMostMaxSessions'
<1> SUFFICES ASSUME NEW n \in Names PROVE Cardinality(LoggedIn(n)') <= MaxSessions
  BY DEF AtMostMaxSessions, LoggedIn
<1>1. LoggedIn(n)' \subseteq LoggedIn(n) /\ IsFiniteSet(LoggedIn(n))
  BY ServerAssumption, FS_Subset DEF LoggedIn
<1>2. /\ Cardinality(LoggedIn(n)') \in Nat /\ Cardinality(LoggedIn(n)) \in Nat
      /\ Cardinality(LoggedIn(n)') <= Cardinality(LoggedIn(n))
  BY <1>1, FS_Subset, FS_CardinalityType
<1>3. Cardinality(LoggedIn(n)) <= MaxSessions
  BY DEF AtMostMaxSessions, LoggedIn
<1> QED BY <1>2, <1>3, ServerAssumption

\* Who is logged in is among the sockets that the session counts: one that it
\* accepts finds fewer than MaxSessions there.
LEMMA LimitKept ==
    ASSUME IInv, [Next]_vars PROVE AtMostMaxSessions'
<1>0. /\ ThreadsOK /\ LeaderOK /\ UsedOK /\ AtMostMaxSessions
      /\ Good(lead)
  BY DEF IInv, LeaderOK
<1>1. ASSUME NEW t \in Threads, EnterLog(t) PROVE AtMostMaxSessions'
  BY <1>0, <1>1, EnterLogAttached, FewerLoggedIn
<1>2. ASSUME NEW t \in Threads, QuietStep(t) PROVE AtMostMaxSessions'
  <2>1. Quiet(t)
    BY <1>0, <1>2, QuietSteps
  <2>2. \A q \in Threads : thr'[q].in => thr[q].in
    BY <2>1 DEF Quiet
  <2> QED BY <1>0, <2>2, FewerLoggedIn
<1>3. ASSUME NEW t \in Threads, Create(t) PROVE AtMostMaxSessions'
  <2> DEFINE u == UserOf[t]
             here == lead.sessions[u].socks
  <2>0. u \in Names /\ ~Attached(t)
    BY <1>0, <1>3, ThreadIs DEF Create, At, Attached
  <2>1. CASE Accepts(lead, u)
    <3>1. Becomes(t, "deliver", NoCommand, TRUE, {})
      BY <1>0, <1>3, <2>1, CreateStep
    <3>2. \A q \in Threads : q # t => thr'[q] = thr[q]
      BY <1>0, <3>1, AfterStep
    <3> SUFFICES ASSUME NEW n \in Names PROVE Cardinality(LoggedIn(n)') <= MaxSessions
      BY DEF AtMostMaxSessions, LoggedIn
    <3>3. /\ LoggedIn(n)' \subseteq LoggedIn(n) \cup {t}
          /\ n # u => LoggedIn(n)' \subseteq LoggedIn(n)
      BY <3>2 DEF LoggedIn
    <3>4. CASE n # u
      <4>1. IsFiniteSet(LoggedIn(n))
        BY ServerAssumption, FS_Subset DEF LoggedIn
      <4>2. /\ Cardinality(LoggedIn(n)') \in Nat /\ Cardinality(LoggedIn(n)) \in Nat
            /\ Cardinality(LoggedIn(n)') <= Cardinality(LoggedIn(n))
        BY <3>3, <3>4, <4>1, FS_Subset, FS_CardinalityType
      <4>3. Cardinality(LoggedIn(n)) <= MaxSessions
        BY <1>0 DEF AtMostMaxSessions, LoggedIn
      <4> QED BY <4>2, <4>3, ServerAssumption
    <3>5. CASE n = u
      <4>1. LoggedIn(n) \subseteq here
        BY <1>0, <2>0, <3>5 DEF LoggedIn, LeaderOK, ThreadsOK, ThreadOK
      <4>2. t \notin here /\ IsFiniteSet(here)
        BY <1>0, <2>0, SocksFinite DEF LeaderOK
      <4>3. Cardinality(here) < MaxSessions /\ Cardinality(here) \in Nat
        BY <1>0, <2>0, <2>1, <4>2, FS_CardinalityType DEF Accepts, Good, SessionsOK
      <4> HIDE DEF here, u
      <4>4. LoggedIn(n)' \subseteq here \cup {t}
        BY <3>3, <4>1
      <4>5. IsFiniteSet(here \cup {t}) /\ Cardinality(here \cup {t}) = Cardinality(here) + 1
        BY <4>2, FS_AddElement
      <4>6. /\ Cardinality(LoggedIn(n)') \in Nat
            /\ Cardinality(LoggedIn(n)') <= Cardinality(here \cup {t})
        BY <4>4, <4>5, FS_Subset, FS_CardinalityType
      <4> QED BY <4>3, <4>5, <4>6, ServerAssumption
    <3> QED BY <3>4, <3>5
  <2>2. CASE ~Accepts(lead, u)
    <3>1. Asks(t, "CLOSE", UserOf[t], t)
      BY <1>0, <1>3, <2>2, CreateStep
    <3>2. thr'[t].in = thr[t].in /\ \A q \in Threads : q # t => thr'[q] = thr[q]
      BY <1>0, <3>1, Afterwards
    <3>3. \A q \in Threads : thr'[q].in => thr[q].in
      BY <3>2
    <3> QED BY <1>0, <3>3, FewerLoggedIn
  <2> QED BY <2>1, <2>2
<1>4. ASSUME NEW t \in Threads, Close(t) PROVE AtMostMaxSessions'
  <2>1. Becomes(t, "end", NoCommand, FALSE, {})
    BY <1>0, <1>4, CloseStep
  <2>2. thr'[t].in = FALSE /\ \A q \in Threads : q # t => thr'[q] = thr[q]
    BY <1>0, <2>1, AfterStep
  <2>3. \A q \in Threads : thr'[q].in => thr[q].in
    BY <2>2
  <2> QED BY <1>0, <2>3, FewerLoggedIn
<1>5. CASE TakeOver
  <2>1. \A q \in Threads : thr'[q] = Arrived(q) \/ thr'[q] = Gone
    BY <1>5 DEF TakeOver
  <2>2. ASSUME NEW q \in Threads PROVE Arrived(q).in = FALSE /\ Gone.in = FALSE
    BY DEF Arrived, Gone
  <2>3. \A q \in Threads : thr'[q].in => thr[q].in
    BY <2>1, <2>2
  <2> QED BY <1>0, <2>3, FewerLoggedIn
<1>6. CASE UNCHANGED thr
  BY <1>0, <1>6, FewerLoggedIn
<1> QED BY <1>1, <1>2, <1>3, <1>4, <1>5, <1>6, StepsAre DEF Apply, Crash, vars

-----------------------------------------------------------------------------
(* The theorems *)

\* The invariant behind the others: the locks are where the threads are, the
\* leader's sessions are those of the attached threads, every entry of the log can
\* be carried out, and the backup that has carried them out knows the clients.
THEOREM ServerInvariant == Spec => []IInv
<1>1. Init => IInv
  BY Initially
<1>2. IInv /\ [Next]_vars => IInv'
  BY ThreadsKept, UsedKept, LocksKept, LeaderKept, BackupKept, FutureKept, LimitKept
  DEF IInv
<1> QED BY <1>1, <1>2, PTL DEF Spec

LEMMA InvariantTyped == IInv => TypeOK
<1> SUFFICES ASSUME IInv PROVE TypeOK
  OBVIOUS
<1>1. ThreadsOK /\ MapLockOK /\ SessionLocksOK /\ LeaderOK /\ BackupOK
  BY DEF IInv, LocksOK
<1>2. lead \in ServerStates
  BY <1>1 DEF LeaderOK, Good
<1>3. back \in ServerStates
  BY <1>1 DEF BackupOK, Good
<1>4. log \in Seq([type : CommandTypes, user : Names, arg : Threads \cup Names \cup Nat])
  BY <1>1 DEF BackupOK, AnyCommand
<1>5. \A t \in Threads : thr[t].pc \in Places /\ thr[t].cmd.type \in CommandTypes \cup {"NONE"}
  BY <1>1, ThreadIs DEF Words
<1> QED BY <1>1, <1>2, <1>3, <1>4, <1>5 DEF TypeOK, MapLockOK, SessionLocksOK

\* Every variable has its type, and each lock is held by the thread that is in
\* its section, whatever threads wait, are refused or are cancelled.
THEOREM ServerTyped == Spec => []TypeOK
BY ServerInvariant, InvariantTyped, PTL

LEMMA InvariantAccounts == IInv => SessionAccounting
<1> SUFFICES ASSUME IInv, NEW n \in Names
             PROVE  LET here == {t \in Threads : UserOf[t] = n /\ Attached(t)}
                    IN  /\ lead.sessions[n].socks = here
                        /\ lead.sessions[n].count = Cardinality(here)
  BY DEF SessionAccounting
<1>1. /\ lead.sessions[n].socks \subseteq {t \in Threads : UserOf[t] = n}
      /\ lead.sessions[n].count = Cardinality(lead.sessions[n].socks)
      /\ \A t \in Threads : t \in lead.sessions[UserOf[t]].socks <=> Attached(t)
  BY DEF IInv, LeaderOK, Good, SessionsOK
<1>2. lead.sessions[n].socks = {t \in Threads : UserOf[t] = n /\ Attached(t)}
  BY <1>1
<1> QED BY <1>1, <1>2

\* newClient and SessionController: a session counts the sockets whose threads
\* still use it, however logins, refusals and closes of a user interleave.
THEOREM SessionsCounted == Spec => []SessionAccounting
BY ServerInvariant, InvariantAccounts, PTL

\* SessionController::newSession: at most MaxSessions clients of a user have
\* been told that they are logged in.
THEOREM SessionsLimited == Spec => []AtMostMaxSessions
<1>1. IInv => AtMostMaxSessions
  BY DEF IInv
<1> QED BY <1>1, ServerInvariant, PTL

LEMMA InvariantAlive == IInv => BackupNeverFails
<1> SUFFICES ASSUME IInv PROVE back.down => used.stray
  BY DEF BackupNeverFails
<1>1. Len(ahead) = Len(log) + 1 /\ Len(log) \in Nat /\ ahead[1] = back
  BY FutureIs DEF IInv, BackupOK
<1> QED BY <1>1 DEF IInv, BackupOK

\* ReplicaManager::commit on a backup that was there from the start: no order of
\* the commands that threads have committed makes it close a session it does not
\* have, or use a buffer it does not have.  What can is a CLOSE of
\* _updateClients, sent twice, or for a LOGIN that this backup missed.
THEOREM BackupLives == Spec => []BackupNeverFails
BY ServerInvariant, InvariantAlive, PTL

LEMMA InvariantKnows == IInv => BackupKnowsClients
<1> SUFFICES ASSUME IInv, NEW t \in Threads, thr[t].in,
                    thr[t].pc \notin {"close", "closing"},
                    ~(thr[t].pc \in {"wait", "logged"} /\ thr[t].cmd.type = "CLOSE")
             PROVE  t \in Future.sessions[UserOf[t]].socks
  BY DEF BackupKnowsClients
<1>1. Attached(t) /\ thr[t].pc \in Places
  BY ThreadIs DEF IInv, ThreadOK
<1>2. Known(t)
  BY <1>1 DEF Attached, Known, Places
<1> QED BY <1>2 DEF IInv, FutureOK

\* A client that has been told of its login is, once the log is carried out, in
\* the sessions of the backup, which will tell it who leads next.
THEOREM ClientsKnown == Spec => []BackupKnowsClients
BY ServerInvariant, InvariantKnows, PTL

-----------------------------------------------------------------------------
(* Who waits for whom *)

\* A thread that waits for no lock: it goes on when it is scheduled, when its
\* client says something, or when its command is committed or given up.
Runs(t) == thr[t].pc \notin {"end", "lost"} /\ WaitsFor(t) = {}

\* A thread waits for a holder that runs, or that itself waits for one that runs.
WaitsEnd ==
    \A t \in Threads : thr[t].pc \notin {"end", "lost"} =>
        \/ Runs(t)
        \/ \E h \in WaitsFor(t) \cap Threads :
              Runs(h) \/ \E g \in WaitsFor(h) \cap Threads : Runs(g)

LEMMA HoldersAre ==
    ASSUME IInv
    PROVE  /\ mapSem # Free => mapSem \in Threads /\ HoldsMap(mapSem)
           /\ \A n \in Names : sem[n] # Free => sem[n] \in Threads /\ HoldsSession(sem[n])
BY DEF IInv, LocksOK, MapLockOK, SessionLocksOK

\* Who holds a session waits for no lock.
LEMMA SessionHolderRuns ==
    ASSUME NEW t \in Threads, HoldsSession(t)
    PROVE  Runs(t)
<1>1. thr[t].pc \in {"mark", "wait", "logged"}
  BY DEF HoldsSession
<1>2. WaitsFor(t) = {}
  BY <1>1 DEF WaitsFor
<1> QED BY <1>1, <1>2 DEF Runs

\* Who holds the map waits for no lock but that of a session.
LEMMA MapHolderWaits ==
    ASSUME IInv, NEW t \in Threads, HoldsMap(t)
    PROVE  Runs(t) \/ \E g \in WaitsFor(t) \cap Threads : Runs(g)
<1>0. thr[t].pc \notin {"end", "lost"}
  BY DEF HoldsMap
<1>1. CASE thr[t].pc \in {"wait", "logged"}
  <2>1. WaitsFor(t) = {}
    BY <1>1 DEF WaitsFor
  <2> QED BY <1>0, <2>1 DEF Runs
<1>2. ASSUME NEW n \in Names, WaitsFor(t) = {sem[n]} \ {Free}
      PROVE  Runs(t) \/ \E g \in WaitsFor(t) \cap Threads : Runs(g)
  <2>1. CASE sem[n] = Free
    <3>1. WaitsFor(t) = {}
      BY <1>2, <2>1
    <3> QED BY <1>0, <3>1 DEF Runs
  <2>2. CASE sem[n] # Free
    <3>1. sem[n] \in WaitsFor(t) \cap Threads /\ Runs(sem[n])
      BY <1>2, <2>2, HoldersAre, SessionHolderRuns
    <3> QED BY <3>1
  <2> QED BY <2>1, <2>2
<1>3. CASE thr[t].pc \in {"creating", "closing"}
  <2>1. UserOf[t] \in Names /\ WaitsFor(t) = {sem[UserOf[t]]} \ {Free}
    BY <1>3, ThreadIs DEF WaitsFor, IInv
  <2> QED BY <1>2, <2>1
<1>4. CASE thr[t].pc = "follow"
  <2>1. thr[t].cmd.user \in Names
    BY <1>4, ThreadIs DEF IInv, ThreadOK, IssuedBy, WellFormed, AnyCommand
  <2>2. WaitsFor(t) = {sem[thr[t].cmd.user]} \ {Free}
    BY <1>4 DEF WaitsFor
  <2> QED BY <1>2, <2>1, <2>2
<1> QED BY <1>1, <1>3, <1>4 DEF HoldsMap

LEMMA InvariantWaits == IInv => WaitsEnd
<1> SUFFICES ASSUME IInv, NEW t \in Threads, thr[t].pc \notin {"end", "lost"}
             PROVE  \/ Runs(t)
                    \/ \E h \in WaitsFor(t) \cap Threads :
                          Runs(h) \/ \E g \in WaitsFor(h) \cap Threads : Runs(g)
  BY DEF WaitsEnd
<1>1. CASE HoldsMap(t)
  BY <1>1, MapHolderWaits
<1>2. CASE thr[t].pc \in {"create", "close"}
  <2>1. WaitsFor(t) = {mapSem} \ {Free}
    BY <1>2 DEF WaitsFor
  <2>2. CASE mapSem = Free
    <3>1. WaitsFor(t) = {}
      BY <2>1, <2>2
    <3> QED BY <3>1 DEF Runs
  <2>3. CASE mapSem # Free
    <3>1. mapSem \in WaitsFor(t) \cap Threads /\ HoldsMap(mapSem)
      BY <2>1, <2>3, HoldersAre
    <3> QED BY <3>1, MapHolderWaits
  <2> QED BY <2>2, <2>3
<1>3. CASE thr[t].pc = "deliver"
  <2>1. UserOf[t] \in Names /\ WaitsFor(t) = {sem[UserOf[t]]} \ {Free}
    BY <1>3, ThreadIs DEF WaitsFor, IInv
  <2>2. CASE sem[UserOf[t]] = Free
    <3>1. WaitsFor(t) = {}
      BY <2>1, <2>2
    <3> QED BY <3>1 DEF Runs
  <2>3. CASE sem[UserOf[t]] # Free
    <3>1. sem[UserOf[t]] \in WaitsFor(t) \cap Threads /\ Runs(sem[UserOf[t]])
      BY <2>1, <2>3, HoldersAre, SessionHolderRuns
    <3> QED BY <3>1
  <2> QED BY <2>2, <2>3
<1>4. CASE ~HoldsMap(t) /\ thr[t].pc \notin {"create", "close", "deliver"}
  <2>1. thr[t].pc \notin {"creating", "closing", "follow"}
    BY <1>4 DEF HoldsMap
  <2>2. WaitsFor(t) = {}
    BY <1>4, <2>1 DEF WaitsFor
  <2> QED BY <2>2 DEF Runs
<1> QED BY <1>1, <1>2, <1>3, <1>4

\* No threads wait for one another in a circle: who waits comes in two steps to a
\* thread that waits for none, for any number of users and connections.
THEOREM NoCycleOfWaits == Spec => []WaitsEnd
BY ServerInvariant, InvariantWaits, PTL

\* Threads that run can: what the step of thread t that no client has to ask for
\* makes of the state.
State(ld, th, map, session, sh, pr) ==
    <<ld, back, log, ahead, th, map, session, used, sh, pr>>

Onward(t) ==
    LET u      == UserOf[t]
        c      == thr[t].cmd
        To(l)  == [thr EXCEPT ![t].pc = l]
        End(l) == [thr EXCEPT ![t].pc = l, ![t].cmd = NoCommand, ![t].asked = {}]
        Ask(d) == [thr EXCEPT ![t].pc = "wait", ![t].cmd = d]
        got    == GetPacket(lead, u)
        marked == GetPacket(MarkDelivered(lead, u, c.arg), u)
        seen   == shown \cup {<<u, c.arg>>}
        owed   == promised \cup {<<n, c.arg>> : n \in thr[t].asked}
    IN  CASE thr[t].pc = "logged" ->
                State(lead, To(AfterCommit(c.type)), mapSem, sem, shown, promised)
          [] thr[t].pc = "create" -> State(lead, To("creating"), t, sem, shown, promised)
          [] thr[t].pc = "close" -> State(lead, To("closing"), t, sem, shown, promised)
          [] thr[t].pc = "creating" ->
                State(CreateSession(lead, u, t),
                      IF Accepts(lead, u)
                      THEN [thr EXCEPT ![t] = [pc |-> "deliver", cmd |-> NoCommand,
                                               in |-> TRUE, asked |-> {}]]
                      ELSE Ask(Command("CLOSE", u, t)),
                      Free, sem, shown, promised)
          [] thr[t].pc = "closing" ->
                State(CloseSession(lead, u, t), [thr EXCEPT ![t] = Gone], Free, sem,
                      shown, promised)
          [] thr[t].pc = "deliver" ->
                IF got.mail[u] = <<>>
                THEN State(got, To("ready"), mapSem, sem, shown, promised)
                ELSE State(got, Ask(Command("DELIVERED", u, Head(got.mail[u]).id)), mapSem,
                           [sem EXCEPT ![u] = t], shown, promised)
          [] thr[t].pc = "mark" ->
                IF marked.mail[u] = <<>>
                THEN State(marked, End("ready"), mapSem, [sem EXCEPT ![u] = Free], seen,
                           promised)
                ELSE State(marked, Ask(Command("DELIVERED", u, Head(marked.mail[u]).id)),
                           mapSem, sem, seen, promised)
          [] thr[t].pc = "ready" -> State(lead, To("deliver"), mapSem, sem, shown, promised)
          [] thr[t].pc = "follow" ->
                State(Follow(lead, c.user, u), End("deliver"), Free, sem, shown, promised)
          [] thr[t].pc = "ensure" ->
                State(EnsureBoxes(lead, u), To("enqueue"), mapSem, sem, shown, promised)
          [] thr[t].pc = "enqueue" ->
                State(Enqueue(lead, u, c.arg), End("deliver"), mapSem, sem, shown, owed)

LEMMA StateIs ==
    ASSUME NEW ld, NEW th, NEW map, NEW session, NEW sh, NEW pr,
           vars' = State(ld, th, map, session, sh, pr)
    PROVE  /\ lead' = ld /\ thr' = th /\ mapSem' = map /\ sem' = session
           /\ shown' = sh /\ promised' = pr /\ UNCHANGED <<back, log, ahead, used>>
BY DEF vars, State

\* While the leader lives, a thread that waits for no lock and for no commit has a
\* step of its own: no guard but that of a lock can hold it up.
THEOREM RunnersStep ==
    ASSUME IInv, ~lead.down, NEW t \in Threads, Runs(t), thr[t].pc # "wait",
           vars' = Onward(t)
    PROVE  LockStep(t) \/ FreeStep(t)
<1>1. /\ thr[t].pc \in Places \ {"wait", "end", "lost"} /\ WaitsFor(t) = {}
  BY ThreadIs DEF IInv, Runs
<1> DEFINE u == UserOf[t]
           c == thr[t].cmd
           got    == GetPacket(lead, u)
           marked == GetPacket(MarkDelivered(lead, u, c.arg), u)
<1>2. CASE thr[t].pc = "logged"
  <2>1. vars' = State(lead, [thr EXCEPT ![t].pc = AfterCommit(c.type)], mapSem, sem, shown,
                      promised)
    BY <1>2 DEF Onward
  <2>2. ReturnTrue(t)
    BY <1>2, <2>1, StateIs DEF ReturnTrue, At, Move
  <2> QED BY <2>2 DEF FreeStep
<1>3. CASE thr[t].pc \in {"create", "close"}
  <2>1. mapSem = Free
    BY <1>1, <1>3 DEF WaitsFor
  <2>2. CASE thr[t].pc = "create"
    <3>1. vars' = State(lead, [thr EXCEPT ![t].pc = "creating"], t, sem, shown, promised)
      BY <2>2 DEF Onward
    <3> QED BY <2>1, <2>2, <3>1, StateIs DEF LockStep, TakeMap, At, Move
  <2>3. CASE thr[t].pc = "close"
    <3>1. vars' = State(lead, [thr EXCEPT ![t].pc = "closing"], t, sem, shown, promised)
      BY <2>3 DEF Onward
    <3> QED BY <2>1, <2>3, <3>1, StateIs DEF LockStep, TakeMap, At, Move
  <2> QED BY <1>3, <2>2, <2>3
<1>4. CASE thr[t].pc = "creating"
  <2>1. sem[u] = Free
    BY <1>1, <1>4 DEF WaitsFor
  <2>2. At(t, "creating")
    BY <1>4 DEF At
  <2>3. CASE Accepts(lead, u)
    <3> DEFINE inside == [thr EXCEPT ![t] = [pc |-> "deliver", cmd |-> NoCommand,
                                             in |-> TRUE, asked |-> {}]]
    <3>1. vars' = State(CreateSession(lead, u, t), inside, Free, sem, shown, promised)
      BY <1>4, <2>3 DEF Onward
    <3>2. /\ lead' = CreateSession(lead, u, t) /\ thr' = inside /\ mapSem' = Free
          /\ UNCHANGED <<back, log, ahead, sem, used, shown, promised>>
      BY <3>1, StateIs
    <3>3. Create(t)
      BY <2>1, <2>2, <2>3, <3>2 DEF Create
    <3> QED BY <3>3 DEF LockStep
  <2>4. CASE ~Accepts(lead, u)
    <3> DEFINE d == Command("CLOSE", u, t)
    <3>1. vars' = State(CreateSession(lead, u, t),
                        [thr EXCEPT ![t].pc = "wait", ![t].cmd = d], Free, sem, shown,
                        promised)
      BY <1>4, <2>4 DEF Onward
    <3>2. /\ lead' = CreateSession(lead, u, t) /\ Request(t, d) /\ mapSem' = Free
          /\ UNCHANGED <<back, log, ahead, sem, used, shown, promised>>
      BY <3>1, StateIs DEF Request
    <3>3. Create(t)
      BY <2>1, <2>2, <2>4, <3>2 DEF Create
    <3> QED BY <3>3 DEF LockStep
  <2> QED BY <2>3, <2>4
<1>5. CASE thr[t].pc = "closing"
  <2>1. sem[u] = Free
    BY <1>1, <1>5 DEF WaitsFor
  <2>2. vars' = State(CloseSession(lead, u, t), [thr EXCEPT ![t] = Gone], Free, sem,
                      shown, promised)
    BY <1>5 DEF Onward
  <2>3. Close(t)
    BY <1>5, <2>1, <2>2, StateIs DEF Close, At
  <2> QED BY <2>3 DEF LockStep
<1>6. CASE thr[t].pc = "deliver"
  <2>1. sem[u] = Free
    BY <1>1, <1>6 DEF WaitsFor
  <2>2. At(t, "deliver")
    BY <1>6 DEF At
  <2>3. CASE got.mail[u] = <<>>
    <3>1. vars' = State(got, [thr EXCEPT ![t].pc = "ready"], mapSem, sem, shown, promised)
      BY <1>6, <2>3 DEF Onward
    <3>2. /\ lead' = got /\ Move(t, "ready")
          /\ UNCHANGED <<back, log, ahead, mapSem, sem, used, shown, promised>>
      BY <3>1, StateIs DEF Move
    <3>3. Deliver(t)
      BY <2>1, <2>2, <2>3, <3>2 DEF Deliver
    <3> QED BY <3>3 DEF LockStep
  <2>4. CASE got.mail[u] # <<>>
    <3> DEFINE d == Command("DELIVERED", u, Head(got.mail[u]).id)
    <3>1. vars' = State(got, [thr EXCEPT ![t].pc = "wait", ![t].cmd = d], mapSem,
                        [sem EXCEPT ![u] = t], shown, promised)
      BY <1>6, <2>4 DEF Onward
    <3>2. /\ lead' = got /\ Request(t, d) /\ sem' = [sem EXCEPT ![u] = t]
          /\ UNCHANGED <<back, log, ahead, mapSem, used, shown, promised>>
      BY <3>1, StateIs DEF Request
    <3>3. Deliver(t)
      BY <2>1, <2>2, <2>4, <3>2 DEF Deliver
    <3> QED BY <3>3 DEF LockStep
  <2> QED BY <2>3, <2>4
<1>7. CASE thr[t].pc = "mark"
  <2>1. At(t, "mark")
    BY <1>7 DEF At
  <2>2. CASE marked.mail[u] = <<>>
    <3>1. vars' = State(marked, [thr EXCEPT ![t].pc = "ready", ![t].cmd = NoCommand,
                                            ![t].asked = {}],
                        mapSem, [sem EXCEPT ![u] = Free], shown \cup {<<u, c.arg>>}, promised)
      BY <1>7, <2>2 DEF Onward
    <3>2. /\ lead' = marked /\ Over(t, "ready") /\ sem' = [sem EXCEPT ![u] = Free]
          /\ shown' = shown \cup {<<u, c.arg>>}
          /\ UNCHANGED <<back, log, ahead, mapSem, used, promised>>
      BY <3>1, StateIs DEF Over
    <3>3. Mark(t)
      BY <2>1, <2>2, <3>2 DEF Mark
    <3> QED BY <3>3 DEF FreeStep
  <2>3. CASE marked.mail[u] # <<>>
    <3> DEFINE d == Command("DELIVERED", u, Head(marked.mail[u]).id)
    <3>1. vars' = State(marked, [thr EXCEPT ![t].pc = "wait", ![t].cmd = d], mapSem, sem,
                        shown \cup {<<u, c.arg>>}, promised)
      BY <1>7, <2>3 DEF Onward
    <3> HIDE DEF d
    <3>2. /\ lead' = marked /\ Request(t, d) /\ sem' = sem
          /\ shown' = shown \cup {<<u, c.arg>>}
          /\ UNCHANGED <<back, log, ahead, mapSem, used, promised>>
      BY <3>1, StateIs DEF Request
    <3> USE DEF d
    <3>3. Mark(t)
      BY <2>1, <2>3, <3>2 DEF Mark
    <3> QED BY <3>3 DEF FreeStep
  <2> QED BY <2>2, <2>3
<1>8. CASE thr[t].pc = "ready"
  <2>1. vars' = State(lead, [thr EXCEPT ![t].pc = "deliver"], mapSem, sem, shown, promised)
    BY <1>8 DEF Onward
  <2>2. ReceiveNothing(t)
    BY <1>8, <2>1, StateIs DEF ReceiveNothing, At, Move
  <2> QED BY <2>2 DEF FreeStep
<1>9. CASE thr[t].pc = "follow"
  <2>1. sem[c.user] = Free
    BY <1>1, <1>9 DEF WaitsFor
  <2>2. vars' = State(Follow(lead, c.user, u),
                      [thr EXCEPT ![t].pc = "deliver", ![t].cmd = NoCommand, ![t].asked = {}],
                      Free, sem, shown, promised)
    BY <1>9 DEF Onward
  <2>3. AddFollowerOf(t)
    BY <1>9, <2>1, <2>2, StateIs DEF AddFollowerOf, At, Over
  <2> QED BY <2>3 DEF LockStep
<1>10. CASE thr[t].pc = "ensure"
  <2>1. vars' = State(EnsureBoxes(lead, u), [thr EXCEPT ![t].pc = "enqueue"], mapSem, sem,
                      shown, promised)
    BY <1>10 DEF Onward
  <2>2. Ensure(t)
    BY <1>10, <2>1, StateIs DEF Ensure, At, Move
  <2> QED BY <2>2 DEF FreeStep
<1>11. CASE thr[t].pc = "enqueue"
  <2>1. vars' = State(Enqueue(lead, u, c.arg),
                      [thr EXCEPT ![t].pc = "deliver", ![t].cmd = NoCommand, ![t].asked = {}],
                      mapSem, sem, shown,
                      promised \cup {<<n, c.arg>> : n \in thr[t].asked})
    BY <1>11 DEF Onward
  <2>2. SendToFollowers(t)
    BY <1>11, <2>1, StateIs DEF SendToFollowers, At, Over
  <2> QED BY <2>2 DEF FreeStep
<1> QED
  BY <1>1, <1>2, <1>3, <1>4, <1>5, <1>6, <1>7, <1>8, <1>9, <1>10, <1>11 DEF Places

=============================================================================
