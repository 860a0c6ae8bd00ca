--------------------------- MODULE MCReplication ----------------------------
(***************************************************************************)
(* Replication for TLC.  User threads are interchangeable in the runs that *)
(* check safety only; the backups are not: the leader serves them in the   *)
(* order of their ids.                                                     *)
(***************************************************************************)
EXTENDS ReplicationLog, TLC

UserSymmetry == Permutations(Users)

\* The leader crashes, or backup 2 fails or a command grows old, but the
\* first excludes the others.
OneFails ==
    \/ 0 \in alive
    \/ /\ 2 \in alive /\ conn[2] = "open" /\ bconn[2] = "open"
       /\ \A s \in Servers : ~messages[s][1].old /\ messages[s][1].fails = 0

\* Only the first command grows old.
OneAges == \A s \in Servers : ~messages[s][2].old

\* Every user thread has one command.
OneCommandEach == \A u \in Users : user[u].id = 0 \/ user'[u].id = user[u].id

\* How old an entry is matters in checkTimeouts only, and nothing makes it
\* younger but a new copy.  So it need not grow old before its server is about
\* to look: at the end of the leader's "send" phase, and with no step of others
\* in between.
AgesWhenRead ==
    /\ \A i \in Ids : messages'[0][i].old =>
          messages[0][i].old \/ (lpc = "send" /\ ToSend = {} /\ cursor = N + 1)
    /\ \A s \in Servers :
          (\E i \in Ids : messages[s][i].old /\ messages[s][i].state # "CANCELED")
              => messages'[s] # messages[s]

\* For a single epoch: from the end of the sends to the marks of dead peers, but
\* for the packets it reads, the leader goes by what only it and its user threads
\* write, and these may as well act before or after.  So the others need not
\* come in between.
LeaderGoesOn ==
    /\ Leader \in alive
    /\ lpc = "manage" \/ (lpc = "send" /\ cursor = N + 1)
    => <<lpc', cursor'>> # <<lpc, cursor>> \/ messages'[Leader] # messages[Leader]

=============================================================================
