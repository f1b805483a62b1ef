----------------------------- MODULE MCRollback -----------------------------
(* Two drivers, scenario by scenario. *)
EXTENDS RbDriver

MCSeats == {0, 1}

\* A match in which nobody presses anything and the link keeps every datagram.
Quiet == [press |-> (0 :> {}) @@ (1 :> {}), delay |-> 0, predict |-> 2,
          cool |-> 1, lock |-> 1, extends |-> 0, runway |-> 0, snaps |-> 9, depth |-> 9,
          timeouts |-> 0, losses |-> 0, lossy |-> {}, stops |-> 0, chain |-> FALSE,
          hold |-> 0, last |-> 2, live |-> FALSE]
One       == [Quiet EXCEPT !.press[1] = {1}]

Corrected == [One EXCEPT !.last = 3, !.live = TRUE]
Both      == [One EXCEPT !.press[0] = {1}, !.timeouts = 1]
Behind    == [Quiet EXCEPT !.press[1] = {2}, !.delay = 1, !.predict = 1, !.last = 3,
                           !.timeouts = 1]
Lossy     == [One EXCEPT !.losses = 1, !.lossy = {"BEGIN", "POST", "SEAL", "COMMIT"},
                         !.live = TRUE]
Stopped   == [One EXCEPT !.stops = 2, !.live = TRUE]
StopTimes == [One EXCEPT !.stops = 1, !.timeouts = 1]
Extended  == [Quiet EXCEPT !.press[1] = {1, 3}, !.extends = 1, !.runway = 1, !.last = 3]
Chained   == [One EXCEPT !.chain = TRUE]
AskedFor  == [Quiet EXCEPT !.chain = TRUE, !.losses = 1, !.lossy = {"FC"}]
Shallow   == [One EXCEPT !.snaps = 2, !.depth = 2, !.last = 3]
Held      == [One EXCEPT !.hold = 2]

MCScenarios == {Corrected, Both, Behind, Lossy, Stopped, StopTimes, Extended, Chained,
                AskedFor, Shallow, Held}
=============================================================================
