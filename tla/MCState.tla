------------------------------ MODULE MCState ------------------------------
(* Rooms and API calls for StateSync. *)
EXTENDS StateSync, TLC

N(h, g1, g2) == (0 :> h) @@ (1 :> g1) @@ (2 :> g2)
Calls(guests, begins, chunks) ==
    [guests |-> guests, begins |-> begins, chunks |-> chunks, probes |-> 0, gens |-> {},
     probeFirst |-> FALSE, drops |-> 0, aborts |-> 0, damage |-> 0, losses |-> 0]
Hash(op, crc) == [op |-> op, hash |-> TRUE, crc |-> crc]
Coord(op) == [op |-> op, hash |-> FALSE, crc |-> 0]
MCGens == {Hash("SAVE", 1), Hash("SAVE", 2), Hash("LOAD", 1), Coord("SAVE"), Coord("LOAD")}

TwoGuests == [Calls({1, 2}, N(1, 0, 0), 1) EXCEPT !.losses = 1]
TwoChunks == [Calls({1}, N(1, 0, 0), 2) EXCEPT !.losses = 1]
Uploads == [Calls({1, 2}, N(0, 1, 1), 1) EXCEPT !.aborts = 1]
Again == [Calls({1}, N(2, 0, 0), 1) EXCEPT !.losses = 1]
BothWays == [Calls({1}, N(1, 1, 0), 1) EXCEPT !.damage = 1, !.aborts = 1]
Dropping == [Calls({1, 2}, N(1, 0, 0), 1) EXCEPT !.drops = 1]
Probing ==
    [Calls({1}, N(1, 0, 0), 1) EXCEPT !.probeFirst = TRUE, !.probes = 1, !.aborts = 1,
                                      !.losses = 1, !.gens = MCGens]
ProbingTwo ==
    [Calls({1, 2}, N(1, 0, 0), 1) EXCEPT !.probeFirst = TRUE, !.probes = 1,
                                         !.gens = {Hash("SAVE", 1)}]
TwoProbes ==
    [Calls({1}, N(0, 0, 0), 1) EXCEPT !.probes = 2, !.gens = {Hash("SAVE", 1), Hash("SAVE", 2)}]

MCScenarios == {TwoGuests, TwoChunks, Uploads, Again, BothWays, Dropping, Probing, ProbingTwo}
Reprobed == {TwoProbes}
=============================================================================
