------------------------------ MODULE HostIce ------------------------------
(***************************************************************************)
(* The ICE links a host and its guests prove in the waiting room,          *)
(* src/nat/rnet_host_ice.c: one answerer agent per seated guest at the     *)
(* host, one offerer agent at each guest, negotiation ids, signals held    *)
(* for an agent that is not there yet, path reports and the retry.         *)
(*                                                                         *)
(* hi.at[k] is the host's HiPeer for guest k (slot 0: unused), hi.end[k]   *)
(* the guest's own.  An agent is an id; remote is the agent whose          *)
(* description it was given.  An SDP stands for a description with its     *)
(* candidates.  The lobby connection delivers in order; rows are the seats *)
(* as each client's roster has them (external: server and libjuice).       *)
(***************************************************************************)
EXTENDS Integers, SequencesExt, FiniteSetsExt

CONSTANTS
    IceGuests,                   \* the guests
    GenMax,                      \* 255, the last negotiation id
    IcePlans                     \* bounds: [linked, joins, moves, leaves, fails], where
                                 \* fails are the guests whose agent fails once

VARIABLE hi

NoAgentYet == 0
NoPeerYet == [slot |-> 0, ag |-> NoAgentYet, gen |-> 0, remote |-> 0, st |-> "new"]
NoEnd == [ag |-> NoAgentYet, gen |-> 0, remote |-> 0, st |-> "new", late |-> FALSE,
          wait |-> FALSE, said |-> ""]

\* Nobody is in the room yet, or every guest is seated and linked.
IceInit ==
    \E plan \in IcePlans :
        LET seat == IF plan.linked THEN 1 ELSE 0
        IN  hi = [at |-> [k \in IceGuests |-> IF ~plan.linked THEN NoPeerYet
                            ELSE [slot |-> 1, ag |-> 2, gen |-> 1, remote |-> 1, st |-> "completed"]],
                  end |-> [k \in IceGuests |-> IF ~plan.linked THEN NoEnd
                            ELSE [NoEnd EXCEPT !.ag = 1, !.gen = 1, !.remote = 2,
                                               !.st = "completed", !.said = "direct"]],
                  hold |-> [k \in IceGuests |-> <<>>],
                  seat |-> [k \in IceGuests |-> seat], hostRow |-> [k \in IceGuests |-> seat],
                  ownRow |-> [k \in IceGuests |-> seat],
                  toHost |-> [k \in IceGuests |-> <<>>], toGuest |-> [k \in IceGuests |-> <<>>],
                  left |-> plan, failed |-> {}]

\* An id no agent and no signal under way has.
SdpAgents(q) == {q[i].ag : i \in {j \in DOMAIN q : q[j].op = "sdp"}}
InUse(s, k) ==
    {s.at[k].ag, s.at[k].remote, s.end[k].ag, s.end[k].remote}
    \cup SdpAgents(s.toHost[k]) \cup SdpAgents(s.toGuest[k]) \cup {e.ag : e \in ToSet(s.hold[k])}
NewAgent(s, k) == Min((1 .. Cardinality(InUse(s, k)) + 1) \ InUse(s, k))

next_gen(g) == IF g + 1 > GenMax THEN 1 ELSE g + 1

Sdp(gen, ag) == [op |-> "sdp", gen |-> gen, ag |-> ag]
Roster(seat) == [op |-> "roster", seat |-> seat]

(* The host.                                                               *)
peer_build_agent(s, k) ==
    [s EXCEPT !.at[k].ag = NewAgent(s, k), !.at[k].remote = 0, !.at[k].st = "new"]

\* apply: a new negotiation id is answered by a fresh agent, a repeat is not
\* looked at.  The agent gathers and answers as it is given the offer.
apply(s, k, m) ==
    LET t == IF s.at[k].gen = 0 THEN s ELSE peer_build_agent(s, k)
    IN  IF m.gen = s.at[k].gen THEN s
        ELSE [t EXCEPT !.at[k].gen = m.gen, !.at[k].remote = m.ag,
                       !.toGuest[k] = Append(@, Sdp(m.gen, t.at[k].ag))]

\* push_signal: the seat is the one the roster has for the sender now.
rnet_host_ice_push_signal(s, k, m) ==
    IF s.hostRow[k] = 0 THEN s
    ELSE IF s.at[k].slot = s.hostRow[k] THEN apply(s, k, m)
    ELSE [s EXCEPT !.hold[k] = Append(@, [slot |-> s.hostRow[k], gen |-> m.gen, ag |-> m.ag])]

\* Mutant: what was held is only dropped.
replay_drop(s, k) == [s EXCEPT !.hold[k] = <<>>]

\* replay_hold: what came for this seat is applied, the rest is dropped.
replay_hold(s, k) ==
    FoldLeft(LAMBDA t, e : IF e.slot = t.at[k].slot THEN apply(t, k, e) ELSE t,
             [s EXCEPT !.hold[k] = <<>>], s.hold[k])

\* Reconcile one guest with the view; signals of nobody's expire.
HostUpdate(k) ==
    LET row == hi.hostRow[k]
        add == peer_build_agent([hi EXCEPT !.at[k] = [NoPeerYet EXCEPT !.slot = row]], k)
    IN  /\ hi' = IF row = 0 THEN [hi EXCEPT !.at[k] = NoPeerYet]
                 ELSE IF hi.at[k].slot = 0 THEN replay_hold(add, k)
                 ELSE IF hi.at[k].slot # row
                 THEN replay_hold([hi EXCEPT !.at[k].slot = row], k) ELSE hi
        /\ hi' # hi
HoldExpires(k) ==
    /\ hi.hostRow[k] = 0 /\ hi.at[k] = NoPeerYet /\ hi.hold[k] # <<>>
    /\ hi' = [hi EXCEPT !.hold[k] = <<>>]

HostReads(k) ==
    /\ hi.toHost[k] # <<>>
    /\ LET m == Head(hi.toHost[k])
           s == [hi EXCEPT !.toHost[k] = Tail(@)]
       IN  hi' = IF m.op = "roster" THEN [s EXCEPT !.hostRow[k] = m.seat]
                 ELSE rnet_host_ice_push_signal(s, k, m)

(* The guest.                                                              *)
\* peer_build_agent(controlling): the offer leaves inside start_gathering, with the
\* id the peer has then.
Offer(s, k) ==
    LET ag == NewAgent(s, k)
    IN  [s EXCEPT !.end[k].ag = ag, !.end[k].remote = 0, !.end[k].st = "new",
                  !.end[k].late = FALSE, !.end[k].wait = FALSE, !.end[k].said = "",
                  !.toHost[k] = Append(@, Sdp(s.end[k].gen, ag))]

\* guest_report: direct; or fail, and later a new agent, then a new id.
guest_report(s, k) ==
    LET e == s.end[k]
        retry == Offer(s, k)
    IN  IF e.st = "completed" THEN [s EXCEPT !.end[k].said = "direct"]
        ELSE IF e.st # "failed" /\ ~e.late THEN s
        ELSE IF ~e.wait THEN [s EXCEPT !.end[k].said = "fail", !.end[k].wait = TRUE]
        ELSE [retry EXCEPT !.end[k].gen = next_gen(e.gen)]

GuestUpdate(k) ==
    LET here == hi.ownRow[k] # 0
        none == hi.end[k].ag = NoAgentYet
    IN  /\ hi' = IF ~here THEN [hi EXCEPT !.end[k] = NoEnd]
                 ELSE IF none THEN Offer([hi EXCEPT !.end[k].gen = next_gen(0)], k)
                 ELSE guest_report(hi, k)
        /\ hi' # hi

\* An answer of another negotiation is stale; a linked agent is frozen; a second
\* description restarts an agent that is not.
Answer(s, k, m) ==
    LET e == s.end[k]
    IN  IF e.ag = NoAgentYet \/ m.gen # e.gen \/ e.st = "completed" THEN s
        ELSE [s EXCEPT !.end[k].remote = m.ag,
                       !.end[k].ag = IF e.remote = 0 THEN @ ELSE NewAgent(s, k)]
GuestReads(k) ==
    /\ hi.toGuest[k] # <<>>
    /\ LET m == Head(hi.toGuest[k])
           s == [hi EXCEPT !.toGuest[k] = Tail(@)]
       IN  hi' = IF m.op = "roster" THEN [s EXCEPT !.ownRow[k] = m.seat] ELSE Answer(s, k, m)

(* The room.                                                               *)
Seat(k, seat, kind) ==
    /\ hi.left[kind] > 0
    /\ hi' = [hi EXCEPT !.left[kind] = @ - 1, !.seat[k] = seat,
                        !.toHost[k] = Append(@, Roster(seat)),
                        !.toGuest[k] = IF seat = 0 THEN <<>> ELSE Append(@, Roster(seat)),
                        !.ownRow[k] = IF seat = 0 THEN 0 ELSE @]
IceJoin(k) == hi.seat[k] = 0 /\ Seat(k, 1, "joins")
IceMove(k) == hi.seat[k] # 0 /\ Seat(k, 3 - hi.seat[k], "moves")
IceLeave(k) == hi.seat[k] # 0 /\ Seat(k, 0, "leaves")

(* The agents.                                                             *)
Paired(k) ==
    /\ hi.at[k].ag # NoAgentYet /\ hi.at[k].remote = hi.end[k].ag
    /\ hi.end[k].ag # NoAgentYet /\ hi.end[k].remote = hi.at[k].ag
IceConnect(k) ==
    /\ Paired(k) /\ hi.at[k].st = "new" /\ hi.end[k].st = "new"
    /\ hi' = [hi EXCEPT !.at[k].st = "completed", !.end[k].st = "completed"]
IceFail(k) ==
    /\ k \in hi.left.fails /\ hi.end[k].ag # NoAgentYet
    /\ hi' = [hi EXCEPT !.left.fails = @ \ {k}, !.failed = @ \cup {k}, !.end[k].st = "failed"]
\* HI_CONNECT_TIMEOUT_MS runs out when nothing is under way any more; a link whose
\* far end is gone fails.
TimesOut(k) ==
    /\ hi.end[k].ag # NoAgentYet /\ ~Paired(k)
    /\ hi.toHost[k] = <<>> /\ hi.toGuest[k] = <<>> /\ hi.hold[k] = <<>>
    /\ hi' = [hi EXCEPT !.end[k].late = hi.end[k].st = "new",
                        !.end[k].st = IF @ = "completed" THEN "failed" ELSE @]
    /\ hi' # hi

IceWire(k) == HostReads(k) \/ GuestReads(k)
IcePump(k) == HostUpdate(k) \/ GuestUpdate(k)
IceNext ==
    \E k \in IceGuests :
        \/ IceWire(k) \/ IcePump(k) \/ HoldExpires(k)
        \/ IceJoin(k) \/ IceMove(k) \/ IceLeave(k)
        \/ IceConnect(k) \/ IceFail(k) \/ TimesOut(k)
----------------------------------------------------------------------------
LinkUp(k) == Paired(k) /\ hi.at[k].st = "completed" /\ hi.end[k].st = "completed"

\* A guest that stays seated reaches the host in the end, unless its agent fails: its
\* offer may find no agent and is held for the next update, a seat move of a linked
\* guest leaves the link alone, and no other guest's failure reaches it.
LinkedUnlessFailed ==
    \A k \in IceGuests : <>[](hi.seat[k] # 0 /\ k \notin hi.failed => LinkUp(k))

\* The same for a guest whose agent failed: it "retries with a fresh negotiation after
\* 20 s" and "cannot be poisoned by its own earlier exchange" (host_ice.h).
LinkedInTheEnd == \A k \in IceGuests : <>[](hi.seat[k] # 0 => LinkUp(k))
============================================================================
