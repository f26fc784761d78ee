-------------------------- MODULE MCDrbdGeneration --------------------------
(***************************************************************************)
(* Three nodes with one block, or two while the third is off: what may     *)
(* happen in a behaviour is a scenario.  Its fields are                    *)
(*    synced       in sync at the beginning, or with new meta data         *)
(*    up, joined   the nodes that run and the pairs that are connected     *)
(*    net          the split brain policies                                *)
(*    writes, inflight, next  writes of each node, at once, the next one   *)
(*    links, losses           connections that may be lost, how often      *)
(*    promotes, demotes, connects  commands of the administrator           *)
(*    crashes, dead           nodes that crash, that do not come back      *)
(*    discards                data may be discarded on purpose             *)
(* and, as bounds on the schedules, told, eager, rush, window and order    *)
(* (see DrbdGeneration).                                                   *)
(***************************************************************************)
EXTENDS DrbdGeneration

ThreeNodes == 1..3
Weights == [p \in 1..3 |-> 0]
NoSplit == [zero |-> "disconnect", one |-> "disconnect", two |-> "disconnect",
            rr |-> "disconnect", asbp |-> FALSE, proto |-> "C"]
Writes(i, j) == 1 :> i @@ 2 :> j @@ 3 :> 0
\* all in sync and connected, and nothing happens
Calm ==
  [synced |-> TRUE, up |-> 1..3, joined |-> {{1, 2}, {1, 3}, {2, 3}}, net |-> NoSplit,
   writes |-> Writes(0, 0), next |-> 1, inflight |-> 1, links |-> {{1, 2}, {1, 3}, {2, 3}},
   losses |-> 0, told |-> FALSE, eager |-> FALSE, rush |-> FALSE, window |-> FALSE,
   order |-> "control", promotes |-> {}, demotes |-> {}, crashes |-> {}, dead |-> {},
   connects |-> {}, discards |-> FALSE]
\* node 3 is off
Two == [Calm EXCEPT !.up = 1..2, !.joined = {{1, 2}}, !.dead = {3}]
First == {<<1, FALSE>>}
Both == {<<1, FALSE>>, <<2, FALSE>>}
\* 1 is Primary and loses 2 for a while, both remain connected with 3
Detour == [Calm EXCEPT !.writes = Writes(1, 0), !.losses = 1, !.links = {{1, 2}}, !.promotes = First]
\* the Primary dies, 2 takes over: what of the last write 2 and 3 have differs
Failover == [Calm EXCEPT !.writes = Writes(1, 1), !.crashes = {1}, !.dead = {1}, !.promotes = Both]
\* the Primary, or the Secondary, crashes and comes back
PrimaryCrash == [Two EXCEPT !.writes = Writes(1, 0), !.crashes = {1}, !.promotes = First]
SecondaryCrash == [PrimaryCrash EXCEPT !.crashes = {2}]
\* new disks, one of which is declared to be good
Created2 == [Two EXCEPT !.synced = FALSE, !.promotes = {<<1, TRUE>>}, !.writes = Writes(1, 0)]
\* the connection is lost, the Primary goes on, and may step down
Interrupted == [Two EXCEPT !.writes = Writes(1, 0), !.losses = 1, !.told = TRUE, !.promotes = First]
Demoted == [Interrupted EXCEPT !.demotes = {1}]
Twice == [Interrupted EXCEPT !.losses = 2]
\* the peers take their time to answer the ping of conn_disconnect
Slowly == [Interrupted EXCEPT !.window = TRUE, !.told = FALSE]
\* packets, peer acks and cleanups in any order
Hurried == [Interrupted EXCEPT !.eager = TRUE, !.told = FALSE, !.order = "data"]
\* both nodes were Primary while they were disconnected
Split == [Two EXCEPT !.joined = {}, !.writes = Writes(1, 1), !.promotes = Both,
                     !.connects = {<<1, 2, FALSE>>, <<2, 1, FALSE>>}]
Discarded == [Split EXCEPT !.connects = @ \cup {<<1, 2, TRUE>>}, !.demotes = {1}, !.discards = TRUE]
Policy(zero, one, demotes) ==
  [Split EXCEPT !.net.zero = zero, !.net.one = one, !.demotes = demotes, !.discards = TRUE]

All == {Detour, Failover, PrimaryCrash, SecondaryCrash, Created2, Demoted, Slowly, Hurried, Discarded,
        Policy("discard-zero-changes", "discard-secondary", {2})}
=============================================================================
