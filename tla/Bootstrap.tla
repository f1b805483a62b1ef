----------------------------- MODULE Bootstrap -----------------------------
(***************************************************************************)
(* How a session gets from an open socket to its first frames: HELLO moves *)
(* a seat to READY and hands it the host's input delay, READY is the       *)
(* barrier the host (seat 0) counts, START puts every seat in RUNNING, and *)
(* a START that was lost is sent again when a READY still arrives.         *)
(*                                                                         *)
(* Source: src/session/rnet_session.c: maybe_bootstrap, seed_delay_prefix  *)
(* and the HELLO, READY and START cases of handle_decoded; try_admit and   *)
(* advance as far as the rows of the first frames go.                      *)
(*                                                                         *)
(* Abstractions: peers share one slot_count; an input row is its wire tick *)
(* (values are the subject of Lockstep); a 100 ms pace is "at some later   *)
(* time", and one step of maybe_bootstrap sends everything that is due (a  *)
(* packet that was not due is one the link loses).  Observers are left     *)
(* out.  A datagram stays in boot_net until BootLose takes it.             *)
(***************************************************************************)
EXTENDS Integers, FiniteSets

CONSTANTS
    Occupied,    \* the occupied seats; seat 0 is the sim authority
    Config,      \* Config[i]: cfg.input_delay of seat i's build
    Version,     \* Version[i]: RNET_WIRE_VERSION of seat i's build
    MaxTick,     \* bound: no seat advances past this tick
    BootLossy    \* whether BootLose may take datagrams off the link

MinDelay == 2
MaxDelay == 20

ASSUME OccupiedAssumption == Occupied \subseteq Nat /\ 0 \in Occupied
ASSUME ConfigAssumption == Config \in [Occupied -> Nat]
ASSUME MaxTickAssumption == MaxTick \in Nat

VARIABLES
    boot_phase,  \* boot_phase[i]: the session's phase
    delay,       \* delay[i]: the input delay seat i runs with
    peer_ready,  \* peer_ready[i]: the seats whose READY seat i has seen
    start_sent,  \* whether the authority has sent START
    sim_tick,    \* sim_tick[i]
    rows,        \* rows[i]: wire ticks present in seat i's local ring
    boot_net

bootVars == <<boot_phase, delay, peer_ready, start_sent, sim_tick, rows, boot_net>>

BootInit ==
    /\ boot_phase = [i \in Occupied |-> "IDLE"]
    /\ delay = Config
    /\ peer_ready = [i \in Occupied |-> {}]
    /\ start_sent = FALSE
    /\ sim_tick = [i \in Occupied |-> 0]
    /\ rows = [i \in Occupied |-> {}]
    /\ boot_net = {}

Hello(i) ==
    {[op |-> "HELLO", from |-> i, to |-> t, delay |-> delay[i], version |-> Version[i]]
        : t \in Occupied \ {i}}
Ready(i) == {[op |-> "READY", from |-> i, to |-> t] : t \in Occupied \ {i}}
Start == {[op |-> "START", from |-> 0, to |-> t] : t \in Occupied \ {0}}

(* Mutant: the last row of the prefix left out. *)
seed_short(r, d) == r \cup 0 .. (d - 2)

seed_delay_prefix(r, d) == r \cup 0 .. (d - 1)

(* start_lan, start_lan_hub, or ICE completing: the seat begins to link. *)
start_lan(i) ==
    /\ boot_phase[i] = "IDLE"
    /\ boot_phase' = [boot_phase EXCEPT ![i] = "LINKING"]
    /\ UNCHANGED <<delay, peer_ready, start_sent, sim_tick, rows, boot_net>>

(* Mutant: START once the authority itself is ready. *)
ready_alone(i) == i \in Occupied

AllReady(i) == peer_ready[i] \cup {i} = Occupied

maybe_bootstrap(i) ==
    /\ boot_phase[i] \in {"LINKING", "READY"}
    /\ peer_ready' = [peer_ready EXCEPT ![i] = @ \cup {i}]
    /\ LET announced ==
               Ready(i) \cup (IF boot_phase[i] = "LINKING" THEN Hello(i) ELSE {})
       IN  IF AllReady(i) /\ i = 0 /\ ~start_sent
           THEN /\ boot_net' = boot_net \cup announced \cup Start
                /\ start_sent' = TRUE
                /\ sim_tick' = [sim_tick EXCEPT ![i] = 0]
                /\ boot_phase' = [boot_phase EXCEPT ![i] = "RUNNING"]
                /\ rows' = [rows EXCEPT ![i] = seed_delay_prefix(@, delay[i])]
           ELSE /\ boot_net' = boot_net \cup announced
                /\ UNCHANGED <<boot_phase, start_sent, sim_tick, rows>>
    /\ UNCHANGED delay

Adopts(i, m) ==
    /\ i # 0 /\ m.from = 0
    /\ m.delay \in MinDelay .. MaxDelay /\ m.delay # delay[i]
    /\ boot_phase[i] # "RUNNING" \/ sim_tick[i] = 0

(* Mutant: any HELLO of the right version puts the seat in READY. *)
hello_to_ready(i, m) ==
    /\ boot_phase' = [boot_phase EXCEPT ![i] = IF m.version = Version[i] THEN "READY" ELSE @]
    /\ UNCHANGED <<delay, rows, peer_ready, start_sent, sim_tick, boot_net>>

OnHello(i, m) ==
    /\ IF m.version # Version[i] THEN UNCHANGED <<boot_phase, delay, rows>>
       ELSE /\ boot_phase' = [boot_phase EXCEPT ![i] = IF @ = "LINKING" THEN "READY" ELSE @]
            /\ IF Adopts(i, m)
               THEN /\ delay' = [delay EXCEPT ![i] = m.delay]
                    /\ rows' = IF boot_phase[i] = "RUNNING" THEN rows
                               ELSE [rows EXCEPT ![i] = seed_delay_prefix(@, m.delay)]
               ELSE UNCHANGED <<delay, rows>>
    /\ UNCHANGED <<peer_ready, start_sent, sim_tick, boot_net>>

(* Mutant: a READY after the start is only counted. *)
ready_not_answered(i, m) ==
    /\ peer_ready' = [peer_ready EXCEPT ![i] = @ \cup {m.from}]
    /\ UNCHANGED <<boot_phase, delay, start_sent, sim_tick, rows, boot_net>>

OnReady(i, m) ==
    /\ peer_ready' = [peer_ready EXCEPT ![i] = @ \cup {m.from}]
    /\ boot_net' = boot_net \cup (IF i = 0 /\ start_sent /\ boot_phase[i] = "RUNNING"
                                  THEN Start ELSE {})
    /\ UNCHANGED <<boot_phase, delay, start_sent, sim_tick, rows>>

OnStart(i, m) ==
    /\ IF boot_phase[i] = "RUNNING" THEN UNCHANGED <<sim_tick, boot_phase, rows>>
       ELSE /\ sim_tick' = [sim_tick EXCEPT ![i] = 0]
            /\ boot_phase' = [boot_phase EXCEPT ![i] = "RUNNING"]
            /\ rows' = [rows EXCEPT ![i] = seed_delay_prefix(@, delay[i])]
    /\ UNCHANGED <<delay, peer_ready, start_sent, boot_net>>

handle_decoded(i, m) ==
    /\ m.to = i /\ boot_phase[i] # "IDLE"
    /\ \/ m.op = "HELLO" /\ OnHello(i, m)
       \/ m.op = "READY" /\ OnReady(i, m)
       \/ m.op = "START" /\ OnStart(i, m)

(* try_admit, up to the rows: the input sampled at T is stored at T + D. *)
Sample(i) ==
    /\ boot_phase[i] = "RUNNING"
    /\ sim_tick[i] + delay[i] \notin rows[i]
    /\ rows' = [rows EXCEPT ![i] = @ \cup {sim_tick[i] + delay[i]}]
    /\ UNCHANGED <<boot_phase, delay, peer_ready, start_sent, sim_tick, boot_net>>

(* A frame is admitted and played: the rows of wire tick T are there, the  *)
(* seat's own and every remote one (which only a running seat sends).      *)
advance(i) ==
    /\ boot_phase[i] = "RUNNING" /\ sim_tick[i] < MaxTick
    /\ sim_tick[i] + delay[i] \in rows[i]
    /\ \A j \in Occupied : boot_phase[j] = "RUNNING" /\ sim_tick[i] \in rows[j]
    /\ sim_tick' = [sim_tick EXCEPT ![i] = @ + 1]
    /\ UNCHANGED <<boot_phase, delay, peer_ready, start_sent, rows, boot_net>>

BootLose(m) ==
    /\ BootLossy /\ boot_net' = boot_net \ {m}
    /\ UNCHANGED <<boot_phase, delay, peer_ready, start_sent, sim_tick, rows>>

BootNext ==
    \/ \E i \in Occupied : start_lan(i) \/ maybe_bootstrap(i) \/ Sample(i) \/ advance(i)
    \/ \E m \in boot_net : handle_decoded(m.to, m) \/ BootLose(m)

BootSpec == BootInit /\ [][BootNext]_bootVars

(* The host keeps pumping every seat, and a link that carries a READY or a *)
(* START again and again carries one in the end.  HELLO needs no fairness. *)
Arrives(o, j, i) == \E m \in boot_net : m.op = o /\ m.from = j /\ handle_decoded(i, m)

BootFair ==
    /\ \A i \in Occupied : WF_bootVars(maybe_bootstrap(i))
    /\ \A i \in Occupied \ {0} :
          SF_bootVars(Arrives("READY", i, 0)) /\ SF_bootVars(Arrives("START", 0, i))

BootFairSpec == BootSpec /\ BootFair

-----------------------------------------------------------------------------
Phases == {"IDLE", "LINKING", "READY", "RUNNING"}

Packet ==
    [op : {"HELLO"}, from : Occupied, to : Occupied, delay : Nat,
     version : {Version[i] : i \in Occupied}]
    \cup [op : {"READY"}, from : Occupied, to : Occupied]
    \cup [op : {"START"}, from : {0}, to : Occupied]

(* The types, and what ties them: the authority has sent START exactly     *)
(* when it runs, and the READYs a seat counts come from occupied seats.    *)
BootTypeOK ==
    /\ boot_phase \in [Occupied -> Phases]
    /\ delay \in [Occupied -> Nat]
    /\ peer_ready \in [Occupied -> SUBSET Occupied]
    /\ start_sent = (boot_phase[0] = "RUNNING")
    /\ sim_tick \in [Occupied -> 0 .. MaxTick]
    /\ rows \in [Occupied -> SUBSET Nat]
    /\ boot_net \subseteq Packet

(* The READY barrier: no seat runs before every occupied seat has opened   *)
(* its transport, whatever START, READY or HELLO was lost or came late.    *)
NobodyRunsAlone ==
    \A i, j \in Occupied : boot_phase[i] = "RUNNING" => boot_phase[j] # "IDLE"

(* A running seat holds every row from its tick to the last one it made:   *)
(* the prefix START seeds and the rows sampled D ahead leave no hole (a    *)
(* hole is never filled by try_admit and stops the seat for good), with    *)
(* one exception that the code has.  A guest whose HELLO comes after START *)
(* and before its first frame takes the host's longer delay without        *)
(* seeding its rows (791-796): it misses rows from its own delay up to the *)
(* last of the host's prefix, none before and none after.                  *)
PrefixHeld ==
    \A i \in Occupied : boot_phase[i] = "RUNNING" =>
        \A w \in rows[i] : \A t \in sim_tick[i] .. w :
            \/ t \in rows[i]
            \/ /\ i # 0 /\ t \in Config[i] .. (delay[i] - 1)
               /\ delay[i] - 1 \notin rows[i]

(* A lost START is not the end of the room: once every seat is linking,    *)
(* every seat runs in the end, though the authority says START on its own  *)
(* account only once.                                                      *)
EveryoneRuns ==
    (\A i \in Occupied : boot_phase[i] # "IDLE")
        ~> (\A i \in Occupied : boot_phase[i] = "RUNNING")
=============================================================================
