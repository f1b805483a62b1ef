----------------------------- MODULE SharedLog -----------------------------
(***************************************************************************)
(* What lockstep promises its host, without a network: there is one log of *)
(* frames per epoch, and every seat is shown a prefix of it, in order,     *)
(* each frame once, and never again from an epoch it has left behind.  The *)
(* first seat that is shown a frame decides it for all.                    *)
(***************************************************************************)
EXTENDS Naturals

CONSTANTS Seats, Epoch, Tick, Frame, None

VARIABLES
    log,    \* log[e][t]: the frame, None until some seat was shown it
    shown   \* shown[i][e][t]: what seat i was shown

Init ==
    /\ log = [e \in Epoch |-> [t \in Tick |-> None]]
    /\ shown = [i \in Seats |-> [e \in Epoch |-> [t \in Tick |-> None]]]

Show(i, e, t, f) ==
    /\ shown[i][e][t] = None
    /\ \A u \in Tick : u < t => shown[i][e][u] # None
    /\ \A d \in Epoch : d > e => \A u \in Tick : shown[i][d][u] = None
    /\ f # None /\ log[e][t] \in {None, f}
    /\ log' = [log EXCEPT ![e][t] = f]
    /\ shown' = [shown EXCEPT ![i][e][t] = f]

Next == \E i \in Seats, e \in Epoch, t \in Tick, f \in Frame : Show(i, e, t, f)

Spec == Init /\ [][Next]_<<log, shown>>
=============================================================================
