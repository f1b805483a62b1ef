----------------------------- MODULE LanDirect -----------------------------
(***************************************************************************)
(* The UDP waiting room of a LAN or direct-IP match (rnet_lan_direct.c):   *)
(* one seat, claimed by JOIN_REQ, given up by LEAVE, traded by SWAPREQ,    *)
(* the host's START, and the room closed and opened again for a rematch.   *)
(*                                                                         *)
(* Every datagram may be lost, late, reordered or seen twice: lan.net only *)
(* grows, and nothing has to be read.  A join binds the address of the     *)
(* guest's last handle again (a fixed port) or a fresh one (the system's   *)
(* choice): bind[i] is the address, and what was sent to an earlier handle *)
(* there may reach the new one.  room is the host's RNetLanLobby (joiner   *)
(* stands for the name in the seat, the match settings are one number),    *)
(* known the handle's guest address, g[i] a guest's handle with its copy   *)
(* of the room.                                                            *)
(*                                                                         *)
(* Ghosts: handles are numbered, no is a handle's number and at the number *)
(* of the newest handle when a datagram was sent.  loose says of a handle  *)
(* that the host has let it go, or that a datagram of an earlier handle at *)
(* its address was taken for one of its own.                               *)
(***************************************************************************)
EXTENDS Integers, FiniteSets

CONSTANTS LanGuests,    \* the guests
          LanPlans      \* bounds: set of [who, joins, calls, n]: who joins, how
                        \* often in all, and which calls the host's launcher
                        \* makes, how many in all

VARIABLE lan

NoAddr == 0

\* A guest's handle: none, joining, seated or started.
NoHandle == [st |-> "none", no |-> 0, slot |-> 0, caps |-> 0, sid |-> 0,
             asked |-> FALSE, loose |-> FALSE]

LanInit ==
  \E plan \in LanPlans :
  lan = [left  |-> plan, open |-> TRUE,
         room  |-> [joiner |-> NoAddr, started |-> FALSE, slot |-> 0, caps |-> 0, sid |-> 0],
         known |-> NoAddr, swap |-> FALSE, joins |-> 0,
         bind  |-> [i \in LanGuests |-> NoAddr],
         g     |-> [i \in LanGuests |-> NoHandle], net |-> {}]

HostReads == {"JOIN_REQ", "LEAVE", "SWAPREQ"}

ToHost(s, a, op) == [s EXCEPT !.net = @ \cup {[op |-> op, from |-> a]}]

SayStartBare(s, a, op) ==
  IF ~\E i \in LanGuests : s.bind[i] = a THEN s
  ELSE [s EXCEPT !.net = @ \cup {[op |-> op, to |-> a, at |-> s.joins,
     slot |-> IF op \in {"JOIN_OK", "ROOM"} THEN s.room.slot ELSE 0,
     caps |-> IF op \in {"JOIN_OK", "CAPS"} THEN s.room.caps ELSE 0,
     sid  |-> IF op = "START" THEN s.room.sid ELSE 0]}]

\* One datagram to a guest (nobody reads at an address no guest binds again):
\* JOIN_OK and ROOM carry the seats, JOIN_OK, CAPS and START the settings, START
\* the session id.
Say(s, a, op) ==
  IF ~\E i \in LanGuests : s.bind[i] = a THEN s
  ELSE [s EXCEPT !.net = @ \cup {[op |-> op, to |-> a, at |-> s.joins,
     slot |-> IF op \in {"JOIN_OK", "ROOM"} THEN s.room.slot ELSE 0,
     caps |-> IF op \in {"JOIN_OK", "CAPS", "START"} THEN s.room.caps ELSE 0,
     sid  |-> IF op = "START" THEN s.room.sid ELSE 0]}]

\* notify_*: to the guest the handle knows, if any.
ToGuest(s, op) == IF s.known = NoAddr THEN s ELSE Say(s, s.known, op)

\* The handle at this address holds no seat any more, whether it knows or not.
LetGo(s, a) ==
  [s EXCEPT !.g = [i \in LanGuests |->
                     IF s.bind[i] = a THEN [@[i] EXCEPT !.loose = TRUE] ELSE @[i]]]

-----------------------------------------------------------------------------
(* The host's pump, one datagram.                                          *)

\* The seated guest asking again lost our JOIN_OK: answer it again.
OnJoinReq(s, a) ==
  IF s.room.joiner # NoAddr /\ s.known = a /\ ~s.room.started
    THEN Say(s, a, "JOIN_OK")
  ELSE IF s.room.started \/ s.room.joiner # NoAddr THEN Say(s, a, "JOIN_NAK")
  ELSE Say([s EXCEPT !.room.joiner = a, !.known = a], a, "JOIN_OK")

OnLeaveAnyone(s, a) ==
  [LetGo(s, a) EXCEPT !.room.joiner = NoAddr, !.room.started = FALSE, !.known = NoAddr]

\* Only the seated guest can give its seat up.  Its address is all that says so:
\* a LEAVE of an earlier handle empties the seat of the present one.
OnLeave(s, a) ==
  IF s.known = a /\ s.room.joiner # NoAddr
    THEN [LetGo(s, a) EXCEPT !.room.joiner = NoAddr, !.room.started = FALSE,
                             !.known = NoAddr]
  ELSE s

OnSwapReq(s, a) == IF s.known = a THEN [s EXCEPT !.swap = TRUE] ELSE s

rnet_lan_direct_host_pump ==
  /\ lan.open
  /\ \E m \in lan.net :
       \/ m.op = "JOIN_REQ" /\ lan' = OnJoinReq(lan, m.from)
       \/ m.op = "LEAVE" /\ lan' = OnLeave(lan, m.from)
       \/ m.op = "SWAPREQ" /\ lan' = OnSwapReq(lan, m.from)

-----------------------------------------------------------------------------
(* The host's launcher: settings, kick, seat swap, start, close, re-open.  *)

LanMay(op) == op \in lan.left.calls /\ lan.left.n > 0
Called == [lan EXCEPT !.left.n = @ - 1]

notify_caps ==
  /\ lan.open /\ ~lan.room.started /\ LanMay("caps")
  /\ lan' = ToGuest([Called EXCEPT !.room.caps = @ + 1], "CAPS")

\* The launcher empties the seat; the handle forgets the address.
notify_kick ==
  /\ lan.known # NoAddr /\ ~lan.room.started /\ LanMay("kick")
  /\ lan' = [LetGo(ToGuest(Called, "KICK"), lan.known) EXCEPT
               !.known = NoAddr, !.room.joiner = NoAddr]

\* take_swap_request, the answer, and the seat table after a trade.
AnswerSwap ==
  /\ lan.open /\ lan.swap /\ ~lan.room.started /\ LanMay("swap")
  /\ \E accept \in BOOLEAN :
       LET s == [Called EXCEPT !.swap = FALSE,
                               !.room.slot = IF accept THEN 1 - @ ELSE @]
           t == ToGuest(s, "SWAPRES")
       IN lan' = IF accept THEN ToGuest(t, "ROOM") ELSE t

\* The launcher allocates a session id for each match.
notify_start ==
  /\ lan.open /\ ~lan.room.started /\ lan.room.joiner # NoAddr /\ LanMay("start")
  /\ lan' = ToGuest([Called EXCEPT !.room.started = TRUE, !.room.sid = @ + 1], "START")

\* The room is closed, with a CLOSE to the guest (notify_close) or, once it has
\* started and the match takes the port, with nothing said.
rnet_lan_direct_host_close(notify) ==
  /\ lan.open /\ (notify \/ lan.room.started) /\ LanMay("close")
  /\ lan' = [LetGo(IF notify THEN ToGuest(Called, "CLOSE") ELSE Called, lan.known) EXCEPT
               !.open = FALSE, !.known = NoAddr, !.swap = FALSE]

\* A rematch: the launcher opens the room again with the seat freed.
rnet_lan_direct_host_open ==
  /\ ~lan.open
  /\ lan' = [lan EXCEPT !.open = TRUE, !.room.started = FALSE, !.room.joiner = NoAddr]

-----------------------------------------------------------------------------
(* A guest.                                                                *)

\* At the address of its last handle, or at a fresh one.
rnet_lan_direct_guest_join_begin(i) ==
  /\ i \in lan.left.who /\ lan.joins < lan.left.joins
  /\ lan.g[i].st \in {"none", "started"}
  /\ \E a \in {lan.bind[i], lan.joins + 1} \ {NoAddr} :
       lan' = [lan EXCEPT
         !.joins = @ + 1, !.bind[i] = a,
         !.g[i] = [NoHandle EXCEPT !.st = "joining", !.no = lan.joins + 1],
         !.net = {m \in @ : m.op \in HostReads \/ m.to # lan.bind[i] \/ a = lan.bind[i]}
                   \cup {[op |-> "JOIN_REQ", from |-> a]}]

\* What handle i reads: anything sent to its address.
Reads(i, m) == m.op \notin HostReads /\ m.to = lan.bind[i]
Took(i, m, h) == [h EXCEPT !.loose = @ \/ m.at < lan.g[i].no]

\* While joining only the answer is read; nothing sent again changes net.
rnet_lan_direct_guest_join_poll(i) ==
  /\ lan.g[i].st = "joining"
  /\ \E m \in lan.net :
       /\ Reads(i, m)
       /\ \/ /\ m.op = "JOIN_OK"
             /\ lan' = [lan EXCEPT !.g[i] = Took(i, m, [@ EXCEPT
                          !.st = "seated", !.slot = m.slot, !.caps = m.caps])]
          \/ m.op = "JOIN_NAK" /\ lan' = [lan EXCEPT !.g[i] = NoHandle]

\* The blocking join's deadline, or a caller that closes its handle: nothing is
\* said.
rnet_lan_direct_guest_close(i) ==
  /\ lan.g[i].st \in {"joining", "seated"}
  /\ lan' = [lan EXCEPT !.g[i] = NoHandle]

\* ROOM carries the seats, CAPS and START the settings; START asks no more.
rnet_lan_direct_guest_pump(i) ==
  /\ lan.g[i].st = "seated"
  /\ \E m \in lan.net :
       /\ Reads(i, m)
       /\ \/ m.op = "ROOM" /\ lan' = [lan EXCEPT !.g[i] = Took(i, m, [@ EXCEPT !.slot = m.slot])]
          \/ /\ m.op = "SWAPRES"
             /\ lan' = [lan EXCEPT !.g[i] = Took(i, m, [@ EXCEPT !.asked = FALSE])]
          \/ m.op = "CAPS" /\ lan' = [lan EXCEPT !.g[i] = Took(i, m, [@ EXCEPT !.caps = m.caps])]
          \/ /\ m.op = "START"
             /\ lan' = [lan EXCEPT !.g[i] = Took(i, m, [@ EXCEPT
                          !.st = "started", !.caps = m.caps, !.sid = m.sid])]
          \/ m.op \in {"KICK", "CLOSE"} /\ lan' = [lan EXCEPT !.g[i] = NoHandle]

rnet_lan_direct_guest_send_swap_request(i) ==
  /\ lan.g[i].st = "seated" /\ ~lan.g[i].asked /\ LanMay("swap")
  /\ lan' = ToHost([lan EXCEPT !.g[i].asked = TRUE], lan.bind[i], "SWAPREQ")

rnet_lan_direct_guest_leave(i) ==
  /\ lan.g[i].st = "seated"
  /\ lan' = ToHost([lan EXCEPT !.g[i] = NoHandle], lan.bind[i], "LEAVE")

LanNext ==
  \/ rnet_lan_direct_host_pump \/ notify_caps \/ notify_kick \/ AnswerSwap
  \/ notify_start \/ rnet_lan_direct_host_open
  \/ \E notify \in BOOLEAN : rnet_lan_direct_host_close(notify)
  \/ \E i \in LanGuests :
       \/ rnet_lan_direct_guest_join_begin(i) \/ rnet_lan_direct_guest_join_poll(i)
       \/ rnet_lan_direct_guest_close(i) \/ rnet_lan_direct_guest_pump(i)
       \/ rnet_lan_direct_guest_send_swap_request(i) \/ rnet_lan_direct_guest_leave(i)

-----------------------------------------------------------------------------
\* Whoever believes it is seated holds the seat, unless the host kicked it or closed
\* the room, or a datagram of an earlier handle at its address was taken for one of
\* its own: no other guest's LEAVE, JOIN_REQ or late datagram empties or takes the
\* seat, and so at most one such guest exists (host_pump's source checks).
SeatKept ==
  \A i \in LanGuests :
    lan.g[i].st \in {"seated", "started"} /\ ~lan.g[i].loose =>
      lan.open /\ lan.known = lan.bind[i] /\ lan.room.joiner = lan.known

\* A guest that starts the host's match does so with the settings the host started
\* it with, whatever CAPS were lost or late ("START repeats these authoritative
\* values"): the session id tells a match from an earlier one whose START came late.
\* And it is the host's match, unless the handle is one that SeatKept excepts.
StartedWithHostCaps ==
  \A i \in LanGuests : lan.g[i].st = "started" =>
    /\ lan.room.started /\ lan.g[i].sid = lan.room.sid => lan.g[i].caps = lan.room.caps
    /\ ~lan.g[i].loose => lan.room.started /\ lan.g[i].sid = lan.room.sid
=============================================================================
