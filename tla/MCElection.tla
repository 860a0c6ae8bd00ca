----------------------------- MODULE MCElection -----------------------------
(***************************************************************************)
(* Election for TLC, and two of its reachable states to begin with where   *)
(* the runs from Init have too many states: all servers connected and none *)
(* in an election, and all servers behind leader 0.                        *)
(***************************************************************************)
EXTENDS Election

ConnectedInit ==
    /\ em = [s \in Servers |->
               [leaderID |-> 0, isLeader |-> FALSE, state |-> "REPLICA",
                leaderIsAlive |-> FALSE, action |-> "None", epoch |-> 0]]
    /\ pc = [s \in Servers |-> "loop"]
    /\ cursor = [s \in Servers |-> End]
    /\ doing = [s \in Servers |-> "None"]
    /\ status = [s \in Servers |-> "running"]
    /\ conn = [l \in Links |-> "open"]
    /\ chan = [l \in Links |-> <<>>]

LedInit ==
    /\ em = [s \in Servers |->
               [leaderID |-> 0, isLeader |-> s = 0,
                state |-> IF s = 0 THEN "LEADER" ELSE "REPLICA",
                leaderIsAlive |-> TRUE, action |-> "None", epoch |-> 1]]
    /\ pc = [s \in Servers |-> "loop"]
    /\ cursor = [s \in Servers |-> FirstPeer(s)]
    /\ doing = [s \in Servers |-> "None"]
    /\ status = [s \in Servers |-> "running"]
    /\ conn = [l \in Links |-> "open"]
    /\ chan = [l \in Links |-> <<>>]

ConnectedSpec == ConnectedInit /\ [][Next]_vars /\ Fairness
LedSpec       == LedInit /\ [][Next]_vars /\ Fairness

\* To be violated by Spec: that these states are reached.
NotConnected == ~ConnectedInit
NotLed       == ~LedInit

=============================================================================
