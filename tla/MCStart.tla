------------------------------ MODULE MCStart ------------------------------
(***************************************************************************)
(* How a session starts over a link that loses datagrams: the bootstrap    *)
(* and the startup profiles, two seats each.  part says which of the two a *)
(* behaviour is about; the other stays in its initial state.               *)
(***************************************************************************)
EXTENDS Profiles, Bootstrap

VARIABLE part

startVars == <<part, vars, bootVars>>

TwoSeats == 0 .. 1
FullRoster == [i \in Seats |-> Seats]

(* The guest's build has another input delay than the host's. *)
HostDiffers == [i \in Occupied |-> IF i = 0 THEN 4 ELSE 2]
SameWire == [i \in Occupied |-> 2]

StartInit == part \in {"profiles", "boot"} /\ Init /\ BootInit

StartNext ==
    /\ UNCHANGED part
    /\ \/ part = "profiles" /\ Next /\ UNCHANGED bootVars
       \/ part = "boot" /\ BootNext /\ UNCHANGED vars

(* Each component's own fairness, while it is the one that runs. *)
StartFair ==
    /\ \A i \in Seats :
          /\ WF_vars(part = "profiles" /\ Open(i)) /\ WF_vars(part = "profiles" /\ Run(i))
          /\ WF_vars(part = "profiles" /\ profiles_drive(i))
          /\ \A j \in Seats \ {i} :
                /\ SF_vars(part = "profiles" /\ ReceiveOffer(i, j))
                /\ SF_vars(part = "profiles" /\ ReceiveAck(i, j))
                /\ SF_vars(part = "profiles" /\ ReceiveAckOfMine(i, j))
    /\ \A i \in Occupied : WF_bootVars(part = "boot" /\ maybe_bootstrap(i))
    /\ \A i \in Occupied \ {0} :
          /\ SF_bootVars(part = "boot" /\ Arrives("READY", i, 0))
          /\ SF_bootVars(part = "boot" /\ Arrives("START", 0, i))

StartSpec == StartInit /\ [][StartNext]_startVars /\ StartFair
=============================================================================
