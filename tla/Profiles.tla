------------------------------ MODULE Profiles ------------------------------
(***************************************************************************)
(* The startup-profile barrier of a session: every occupied seat copies an *)
(* offer (its qualified execution profiles) to every other seat, chooses   *)
(* the highest profile common to all offers, and acknowledges the choice   *)
(* until each seat has an ACK from every seat.  A seat that opted in runs  *)
(* no frame before that.                                                   *)
(*                                                                         *)
(* Source: src/session/rnet_session.c, the functions profiles_...          *)
(* The packets travel as RB_SYNC datagrams over a link that loses,         *)
(* duplicates and reorders them: a datagram stays in net until Lose takes  *)
(* it, and may be received any number of times before.                     *)
(*                                                                         *)
(* Abstractions: masks are sets of seats; the 32-bit FNV-1a transcript is  *)
(* the tuple it hashes (no collisions); cpu_features, backends and         *)
(* architecture are one opaque value, Hardware, that only the transcript   *)
(* looks at; the 100 ms retransmission pace is "at some later time".       *)
(***************************************************************************)
EXTENDS Integers, FiniteSets

CONSTANTS
    Seats,          \* 0 .. slot_count - 1
    Roster,         \* Roster[i]: the occupied seats in seat i's own config
    MaxProfile,     \* highest profile bit (31 in the code)
    Hardware,       \* values of (cpu_features, backends, architecture)
    Qualifications, \* qualification namespaces a build may name
    Lossy           \* whether Lose may take datagrams off the link

Profile == 0 .. MaxProfile
Caps == [profiles : SUBSET Profile, hw : Hardware]
NoCaps == [profiles |-> {}, hw |-> "none"]
NoQualification == "none"

ASSUME SeatsAssumption == Seats # {}
ASSUME RosterAssumption == Roster \in [Seats -> SUBSET Seats]
ASSUME MaxProfileAssumption == MaxProfile \in Nat
ASSUME NoneAssumption == "none" \notin Qualifications

VARIABLES
    phase,     \* "IDLE", "LINKING" (transport open) or "RUNNING"
    prof,      \* prof[i]: the struct `profiles` of seat i's session
    admitted,  \* whether try_admit has ever let seat i run a frame
    net        \* datagrams on the link, one element per destination

vars == <<phase, prof, admitted, net>>

(***************************************************************************)
(* What the transcript fingerprint covers: qualification, occupied seats,  *)
(* each occupied seat's offer and the selected profile.                    *)
(***************************************************************************)
Transcript(q, occ, caps, sel) ==
    [qualification |-> q, occupied |-> occ,
     caps |-> [j \in occ |-> caps[j]], selected |-> sel]

NoTranscript == Transcript(NoQualification, {}, [j \in Seats |-> NoCaps], 0)

Highest(S) == CHOOSE b \in S : \A c \in S : c <= b

Blank ==
    [active |-> FALSE, refused |-> FALSE, dirty |-> FALSE,
     qualification |-> NoQualification, occupied |-> {},
     caps |-> [j \in Seats |-> NoCaps], offers |-> {},
     selected |-> 0, transcript |-> NoTranscript,
     acks |-> {}, acknowledged_by |-> {}]

Init ==
    /\ phase = [i \in Seats |-> "IDLE"]
    /\ prof = [i \in Seats |-> Blank]
    /\ admitted = [i \in Seats |-> FALSE]
    /\ net = {}

Common(p) == {b \in Profile : \A j \in p.occupied : b \in p.caps[j].profiles}

Refuse(p) == [p EXCEPT !.refused = TRUE]

Choose(i, p) ==
    LET sel == Highest(Common(p))
    IN  [p EXCEPT !.selected = sel,
                  !.transcript = Transcript(p.qualification, p.occupied, p.caps, sel),
                  !.acks = {i}, !.acknowledged_by = {i}, !.dirty = TRUE]

(* Once, when the last offer is in: fix the choice and acknowledge it. *)
profiles_choose(i, p) ==
    IF p.offers # p.occupied \/ p.acks # {} THEN p
    ELSE IF 0 \notin Common(p) THEN Refuse(p)
    ELSE Choose(i, p)

WithOffer(p, m) == [p EXCEPT !.caps[m.from] = m.caps, !.offers = p.offers \cup {m.from}]

OnOffer(i, p, m) ==
    IF \/ 0 \notin m.caps.profiles
       \/ m.from \in p.offers /\ m.caps # p.caps[m.from]
    THEN Refuse(p)
    ELSE profiles_choose(i, WithOffer(p, m))

Acknowledge(p, m, heard) ==
    [p EXCEPT !.dirty = p.dirty \/ m.from \notin p.acks,
              !.acks = p.acks \cup {m.from},
              !.acknowledged_by = IF heard THEN p.acknowledged_by \cup {m.from}
                                           ELSE p.acknowledged_by]

(* Mutants: the ACK's decision not compared; any ACK taken as a receipt. *)
ack_unchecked(i, p, m) == Acknowledge(p, m, i \in m.mask)
ack_is_receipt(i, p, m) ==
    IF m.selected # p.selected \/ m.transcript # p.transcript
    THEN Refuse(p) ELSE Acknowledge(p, m, TRUE)

OnAck(i, p, m) ==
    IF \/ m.selected # p.selected \/ m.transcript # p.transcript
       \/ m.from \notin m.mask \/ ~(m.mask \subseteq p.occupied)
    THEN Refuse(p)
    ELSE Acknowledge(p, m, i \in m.mask)

(* Mutant: packets of seats outside the roster taken. *)
receive_any_seat(i, p, m) ==
    IF ~p.active \/ p.refused \/ m.from = i \/ m.qualification # p.qualification THEN p
    ELSE IF m.op = "OFFER" THEN OnOffer(i, p, m)
    ELSE IF p.offers = p.occupied THEN OnAck(i, p, m) ELSE p

profiles_receive(i, p, m) ==
    IF ~p.active \/ p.refused \/ m.from = i \/ m.from \notin p.occupied THEN p
    ELSE IF m.qualification # p.qualification THEN Refuse(p)
    ELSE IF m.op = "OFFER" THEN OnOffer(i, p, m)
    ELSE IF p.offers = p.occupied THEN OnAck(i, p, m)
    ELSE p

profiles_status(p) ==
    IF ~p.active \/ p.refused THEN -1
    ELSE IF p.acks # p.occupied THEN 0 ELSE 1

Offer(i, p, t) ==
    [op |-> "OFFER", from |-> i, to |-> t,
     qualification |-> p.qualification, caps |-> p.caps[i]]

Ack(i, p, t) ==
    [op |-> "ACK", from |-> i, to |-> t, qualification |-> p.qualification,
     selected |-> p.selected, transcript |-> p.transcript, mask |-> p.acks]
-----------------------------------------------------------------------------
(* The host opts in, once, before the transport is opened. *)
profiles_begin(i, q, c) ==
    /\ phase[i] = "IDLE" /\ ~prof[i].active
    /\ 0 \in c.profiles /\ i \in Roster[i]
    /\ prof' = [prof EXCEPT ![i] =
           profiles_choose(i, [Blank EXCEPT !.active = TRUE, !.qualification = q,
                                            !.occupied = Roster[i], !.caps[i] = c,
                                            !.offers = {i}, !.dirty = TRUE])]
    /\ UNCHANGED <<phase, admitted, net>>

(* Transport opened, then START sent or received (module Lockstep). *)
Open(i) ==
    /\ phase[i] = "IDLE"
    /\ phase' = [phase EXCEPT ![i] = "LINKING"]
    /\ UNCHANGED <<prof, admitted, net>>

Run(i) ==
    /\ phase[i] = "LINKING"
    /\ phase' = [phase EXCEPT ![i] = "RUNNING"]
    /\ UNCHANGED <<prof, admitted, net>>

(* Mutant: a seat stops at its own completion. *)
drive_until_local_status(p) == ~p.refused /\ p.active /\ (p.dirty \/ p.acks # p.occupied)

Driving(p) == ~p.refused /\ p.active /\ (p.dirty \/ p.acknowledged_by # p.occupied)

(* Part of every pump: (re)send the offer and, once chosen, the ACK. *)
profiles_drive(i) ==
    /\ phase[i] = "RUNNING" /\ Driving(prof[i])
    /\ net' = net \cup {Offer(i, prof[i], t) : t \in Seats \ {i}}
                  \cup (IF prof[i].acks = {} THEN {}
                        ELSE {Ack(i, prof[i], t) : t \in Seats \ {i}})
    /\ prof' = [prof EXCEPT ![i].dirty = FALSE]
    /\ UNCHANGED <<phase, admitted>>

Receive(i, m) ==
    /\ phase[i] # "IDLE" /\ m \in net /\ m.to = i
    /\ prof' = [prof EXCEPT ![i] = profiles_receive(i, prof[i], m)]
    /\ UNCHANGED <<phase, admitted, net>>

(* Mutant: only a refused barrier stops admission. *)
admit_while_pending(i) ==
    /\ phase[i] = "RUNNING"
    /\ prof[i].active => profiles_status(prof[i]) # -1
    /\ admitted' = [admitted EXCEPT ![i] = TRUE]
    /\ UNCHANGED <<phase, prof, net>>

(* The barrier of rnet_session_try_admit; its other conditions are the     *)
(* subject of module Lockstep and only delay it.                           *)
try_admit(i) ==
    /\ phase[i] = "RUNNING"
    /\ prof[i].active => profiles_status(prof[i]) = 1
    /\ admitted' = [admitted EXCEPT ![i] = TRUE]
    /\ UNCHANGED <<phase, prof, net>>

Lose(m) ==
    /\ Lossy /\ m \in net
    /\ net' = net \ {m}
    /\ UNCHANGED <<phase, prof, admitted>>

Next ==
    \/ \E i \in Seats :
          \/ \E q \in Qualifications, c \in Caps : profiles_begin(i, q, c)
          \/ Open(i)
          \/ Run(i)
          \/ profiles_drive(i)
          \/ \E m \in net : Receive(i, m)
          \/ try_admit(i)
    \/ \E m \in net : Lose(m)

Spec == Init /\ [][Next]_vars
-----------------------------------------------------------------------------
Chosen(i) == prof[i].acks # {}
Agreed(i) == profiles_status(prof[i]) = 1

(* Seats i and j hold the same decision. *)
SameChoice(i, j) ==
    /\ Chosen(j)
    /\ prof[j].selected = prof[i].selected
    /\ prof[j].transcript = prof[i].transcript

Transcripts ==
    UNION {[qualification : Qualifications \cup {NoQualification}, occupied : {occ},
            caps : [occ -> Caps \cup {NoCaps}], selected : Profile] : occ \in SUBSET Seats}

ProfileState ==
    [active : BOOLEAN, refused : BOOLEAN, dirty : BOOLEAN,
     qualification : Qualifications \cup {NoQualification}, occupied : SUBSET Seats,
     caps : [Seats -> Caps \cup {NoCaps}], offers : SUBSET Seats,
     selected : Profile, transcript : Transcripts,
     acks : SUBSET Seats, acknowledged_by : SUBSET Seats]

(* Type invariant of the barrier's state.  The masks of a seat stay inside *)
(* its own roster, whoever else is on the link.                            *)
TypeOK ==
    /\ phase \in [Seats -> {"IDLE", "LINKING", "RUNNING"}]
    /\ admitted \in [Seats -> BOOLEAN]
    /\ prof \in [Seats -> ProfileState]
    /\ \A i \in Seats : prof[i].offers \cup prof[i].acks \cup prof[i].acknowledged_by
                           \subseteq prof[i].occupied

(* Status 1 means agreement: when profiles_status reports 1 at a seat,     *)
(* every seat of its roster has opted in with the same qualification and   *)
(* roster, has chosen the same profile from the same transcript, and       *)
(* offered that profile itself; no higher profile was offered by all.      *)
Agreement ==
    \A i \in Seats : Agreed(i) =>
        /\ \A j \in Roster[i] :
              /\ SameChoice(i, j)
              /\ prof[j].qualification = prof[i].qualification
              /\ Roster[j] = Roster[i]
              /\ prof[i].selected \in prof[j].caps[j].profiles
        /\ \A b \in Profile : b > prof[i].selected =>
              \E j \in Roster[i] : b \notin prof[j].caps[j].profiles

(* "No frame may run before 1": a seat that opted in and was admitted by   *)
(* try_admit shares its profile decision with every seat of its roster.    *)
NoFrameBeforeBarrier ==
    \A i \in Seats : admitted[i] /\ prof[i].active =>
        \A j \in Roster[i] : SameChoice(i, j)

(* A seat stops retransmitting (profiles_drive's early return) only once   *)
(* every seat of its roster holds this seat's ACK: none of them still      *)
(* needs it to reach status 1.                                             *)
QuietOnlyWhenHeard ==
    \A i \in Seats : prof[i].acknowledged_by = prof[i].occupied =>
        \A j \in prof[i].occupied : i \in prof[j].acks

(* "Selection never changes": once a seat has chosen, its profile and      *)
(* transcript stay, and once it reports status 1 no later datagram, late   *)
(* or repeated, makes it pending or refused again.                         *)
SelectionNeverChanges ==
    [][\A i \in Seats :
          /\ Chosen(i) => /\ prof'[i].selected = prof[i].selected
                          /\ prof'[i].transcript = prof[i].transcript
          /\ Agreed(i) => Agreed(i)']_vars

(* Every seat of the room opted in with one namespace and one roster. *)
RoomBegan ==
    /\ \A i \in Seats : prof[i].active /\ Roster[i] = Seats
    /\ \A i, j \in Seats : prof[i].qualification = prof[j].qualification

(* A kind of packet that is sent again and again gets through: the fair    *)
(* lossy link that retransmission is written for.  A packet sent a finite  *)
(* number of times may be lost for good.                                   *)
From(i, j, op) == {m \in net : m.to = i /\ m.from = j /\ m.op = op}

ReceiveOffer(i, j) == \E m \in From(i, j, "OFFER") : Receive(i, m)
ReceiveAck(i, j) == \E m \in From(i, j, "ACK") : Receive(i, m)
ReceiveAckOfMine(i, j) == \E m \in From(i, j, "ACK") : i \in m.mask /\ Receive(i, m)

(* Hosts open the transport and pump for as long as the session lives. *)
Fairness ==
    /\ \A i \in Seats : WF_vars(Open(i)) /\ WF_vars(Run(i)) /\ WF_vars(profiles_drive(i))
    /\ \A i \in Seats : \A j \in Seats \ {i} :
          /\ SF_vars(ReceiveOffer(i, j))
          /\ SF_vars(ReceiveAck(i, j))
          /\ SF_vars(ReceiveAckOfMine(i, j))

FairSpec == Spec /\ Fairness

(* A room whose seats all opted in alike reaches status 1 at every seat,   *)
(* however many datagrams are lost: no seat goes quiet while another       *)
(* still waits for its ACK.                                                *)
RoomAgrees == RoomBegan ~> \A i \in Seats : Agreed(i)
=============================================================================
