---------------------------- MODULE Persistence -----------------------------
(***************************************************************************)
(* PersistenceManager, User and PersistentUser: the file with a line       *)
(* "name,follower;follower;" per user.  A user in memory carries the       *)
(* number of its line; saving it rewrites the file with that line changed. *)
(* Each operation holds the manager's semaphore from end to end.           *)
(***************************************************************************)
EXTENDS Naturals, Sequences

CONSTANTS
    Names,          \* user names
    NoName,         \* the empty name
    EndsWith        \* pairs <<a, b>> of names: the letters of a end with those of b

ASSUME NamesAssumption ==
    /\ NoName \notin Names
    /\ EndsWith \subseteq Names \X Names
    /\ \A n \in Names : <<n, n>> \in EndsWith

NoUser == [name |-> NoName, id |-> 0, followers |-> {}]

\* Lines in which find("name,") succeeds: the comma only says where it ends.
Found(db, name) == {i \in DOMAIN db : <<db[i].name, name>> \in EndsWith}

LineOf(db, name) ==
    IF Found(db, name) = {} THEN Len(db) + 1
    ELSE CHOOSE i \in Found(db, name) : \A j \in Found(db, name) : i <= j

SaveUser(db, user) ==
    LET line == [name |-> user.name, followers |-> user.followers]
    IN  IF user.id > Len(db) THEN Append(db, line) ELSE [db EXCEPT ![user.id] = line]

\* The user of the first line found, under the name that is in that line; a user
\* that is not found is written to the end of the file, or is nobody.
LoadUser(db, name, create) ==
    LET i   == LineOf(db, name)
        new == [name |-> name, id |-> i, followers |-> {}]
    IN  IF i <= Len(db)
        THEN [user |-> [name |-> db[i].name, id |-> i, followers |-> db[i].followers],
              db   |-> db]
        ELSE IF create THEN [user |-> new, db |-> SaveUser(db, new)]
        ELSE [user |-> NoUser, db |-> db]

AddFollower(user, follower) == [user EXCEPT !.followers = @ \cup {follower}]

=============================================================================
