----------------------------- MODULE MCControl -----------------------------
(* Two hosts, three leases, and a command for each case of the flags. *)
EXTENDS Control, TLC

CONSTANTS Tv, Box, a1, a2, a3

Rooms == {Tv, Box}
Leases == {a1, a2, a3}
Spoken == (Tv :> {"Cast", "AirPlay"}) @@ (Box :> {"AirPlay", "Dlna"})

(* a1 is asked for, the others are alike. *)
LeaseSymmetry == Permutations({a2, a3})

Plain == [ip |-> None, name |-> None, protocol |-> None]
Given == {Plain,
          [Plain EXCEPT !.ip = a1],
          [Plain EXCEPT !.name = {Box}],
          [Plain EXCEPT !.name = {Tv}, !.protocol = "AirPlay"],
          [Plain EXCEPT !.name = {Box}, !.protocol = "Dlna"],
          [Plain EXCEPT !.ip = a1, !.protocol = "AirPlay"],
          [Plain EXCEPT !.ip = a1, !.protocol = "Dlna"]}
Toggles == {[op |-> "toggle", flags |-> f] : f \in Given}
Others == {[op |-> o, flags |-> Plain] :
             o \in {"play", "pause", "resume", "stop", "status", "volume",
                    "seek to", "seek by"}}
GivenCommands == Toggles \cup Others
=============================================================================
