-------------------------- MODULE LanDirectProofs --------------------------
(***************************************************************************)
(* The LAN waiting room for any number of guests, joins, changes of the    *)
(* settings, seat swaps and rematches, over a network that loses, repeats  *)
(* and reorders datagrams, whether or not a join binds an old address:     *)
(* who holds the seat, and what a guest starts with.                       *)
(***************************************************************************)
EXTENDS LanDirect, TLAPS

LanSpec == LanInit /\ [][LanNext]_lan

(* The fields of the state, of the room and of a handle, whatever they     *)
(* hold.                                                                   *)
IsLan(s) ==
  s = [left |-> s.left, open |-> s.open, room |-> s.room, known |-> s.known,
       swap |-> s.swap, joins |-> s.joins, bind |-> s.bind, g |-> s.g, net |-> s.net]
IsRoom(r) ==
  r = [joiner |-> r.joiner, started |-> r.started, slot |-> r.slot, caps |-> r.caps,
       sid |-> r.sid]
IsHandle(h) ==
  h = [st |-> h.st, no |-> h.no, slot |-> h.slot, caps |-> h.caps, sid |-> h.sid,
       asked |-> h.asked, loose |-> h.loose]

LanShape(s) ==
  /\ IsLan(s) /\ IsRoom(s.room)
  /\ s.g = [i \in LanGuests |-> s.g[i]] /\ \A i \in LanGuests : IsHandle(s.g[i])
  /\ s.bind = [i \in LanGuests |-> s.bind[i]]

(* One guest at an address, and the host's handle, while there is one,     *)
(* knows the guest whose name is in the seat.                              *)
Addresses(s) ==
  /\ s.joins \in Nat /\ s.known \in 0 .. s.joins /\ s.room.sid \in Nat
  /\ IF s.open THEN s.room.joiner = s.known ELSE s.known = NoAddr
  /\ \A i \in LanGuests :
       /\ s.bind[i] \in 0 .. s.joins /\ s.g[i].no \in 0 .. s.joins
       /\ s.g[i].st \in {"none", "joining", "seated", "started"}
       /\ s.g[i].st # "none" => s.bind[i] # NoAddr
  /\ \A i, j \in LanGuests : s.bind[i] = s.bind[j] /\ s.bind[i] # NoAddr => i = j

(* A match the host has started, on the terms it started with if it is the *)
(* present one.                                                            *)
Terms(s, sid, caps) ==
  sid \in 0 .. s.room.sid /\ (s.room.started /\ sid = s.room.sid => caps = s.room.caps)

(* What is under way: a JOIN_OK or START sent to a handle that was not let *)
(* go is from the host that has it in the seat, and a START is the match   *)
(* it is in.                                                               *)
Meant(s, m, i) ==
  /\ m.to = s.bind[i] /\ s.g[i].st \in {"joining", "seated"}
  /\ s.g[i].no <= m.at /\ ~s.g[i].loose
Datagram(s, m) ==
  /\ IF m.op \in HostReads THEN m.from \in 1 .. s.joins
     ELSE m.to \in 1 .. s.joins /\ m.at \in 0 .. s.joins
  /\ m.op = "START" => Terms(s, m.sid, m.caps)
  /\ m.op \in {"JOIN_OK", "START"} => \A i \in LanGuests : Meant(s, m, i) =>
       /\ s.known = s.bind[i]
       /\ m.op = "START" => s.room.started /\ m.sid = s.room.sid

(* A guest that was not let go holds the seat it believes it has, and is   *)
(* in the host's match once it has started.                                *)
Seating(s, i) ==
  /\ s.g[i].st = "started" => Terms(s, s.g[i].sid, s.g[i].caps)
  /\ s.g[i].st \in {"seated", "started"} /\ ~s.g[i].loose =>
       /\ s.known = s.bind[i]
       /\ s.g[i].st = "started" => s.room.started /\ s.g[i].sid = s.room.sid

LanOK(s) ==
  /\ LanShape(s) /\ Addresses(s)
  /\ \A m \in s.net : Datagram(s, m)
  /\ \A i \in LanGuests : Seating(s, i)
LanInv == LanOK(lan)

-----------------------------------------------------------------------------
(* The room, the handles and the addresses are what they were. *)
Beside(s, r) ==
  /\ IsLan(r) /\ r.open = s.open /\ r.room = s.room /\ r.known = s.known
  /\ r.joins = s.joins /\ r.bind = s.bind /\ r.g = s.g

(* Only what is under way has changed. *)
LEMMA BesideOK ==
  ASSUME NEW s, LanOK(s), NEW r, Beside(s, r), \A m \in r.net : m \in s.net \/ Datagram(s, m)
  PROVE  LanOK(r)
<1>1. LanShape(r)
  BY Zenon DEF LanOK, LanShape, Beside
<1>2. Addresses(r)
  BY DEF LanOK, Addresses, Beside
<1>3. \A i \in LanGuests : Seating(r, i)
  BY DEF LanOK, Seating, Terms, Beside
<1>4. \A m \in r.net : Datagram(s, m)
  BY Zenon DEF LanOK
<1>5. \A m \in r.net : Datagram(r, m)
  BY <1>4, Zenon DEF Datagram, Meant, Terms, Beside
<1>6. QED
  BY <1>1, <1>2, <1>3, <1>5, Zenon DEF LanOK

(* A datagram to a guest: a JOIN_OK or a START goes to the guest in the    *)
(* seat, a START once the match is started.                                *)
LEMMA Said ==
  ASSUME NEW s, LanOK(s), NEW a \in 1 .. s.joins, NEW op, op \notin HostReads,
         op \in {"JOIN_OK", "START"} => s.known = a,
         op = "START" => s.room.started
  PROVE  LanOK(Say(s, a, op)) /\ Beside(s, Say(s, a, op))
<1>1. CASE ~\E i \in LanGuests : s.bind[i] = a
  <2>1. Say(s, a, op) = s
    BY <1>1 DEF Say
  <2>2. QED
    BY <2>1 DEF Beside, LanOK, LanShape
<1>2. CASE \E i \in LanGuests : s.bind[i] = a
  <2> DEFINE m == [op |-> op, to |-> a, at |-> s.joins,
                   slot |-> IF op \in {"JOIN_OK", "ROOM"} THEN s.room.slot ELSE 0,
                   caps |-> IF op \in {"JOIN_OK", "CAPS", "START"} THEN s.room.caps ELSE 0,
                   sid  |-> IF op = "START" THEN s.room.sid ELSE 0]
  <2>1. PICK r : r = [s EXCEPT !.net = @ \cup {m}]
    BY Zenon
  <2>2. Say(s, a, op) = r
    BY <1>2, <2>1 DEF Say
  <2>3. m.op = op /\ m.to = a /\ m.at = s.joins
        /\ (op = "START" => m.caps = s.room.caps /\ m.sid = s.room.sid)
    OBVIOUS
  <2> HIDE DEF m
  <2>4. Beside(s, r) /\ r.net = s.net \cup {m}
    BY <2>1 DEF LanOK, LanShape, IsLan, Beside
  <2>5. s.joins \in Nat /\ s.room.sid \in Nat
    BY DEF LanOK, Addresses
  <2>6. op = "START" => Terms(s, m.sid, m.caps)
    BY <2>3, <2>5 DEF Terms
  <2>7. Datagram(s, m)
    BY <2>3, <2>5, <2>6 DEF Datagram, HostReads, Meant
  <2>8. QED
    BY <2>2, <2>4, <2>7, BesideOK
<1>3. QED
  BY <1>1, <1>2

(* The same through the handle, which may know no guest. *)
LEMMA ToldGuest ==
  ASSUME NEW s, LanOK(s), NEW op, op \notin HostReads, op = "START" => s.room.started
  PROVE  LanOK(ToGuest(s, op)) /\ Beside(s, ToGuest(s, op))
<1>1. CASE s.known = NoAddr
  BY <1>1 DEF ToGuest, Beside, LanOK, LanShape
<1>2. CASE s.known # NoAddr
  <2>1. s.known \in 1 .. s.joins
    BY <1>2 DEF LanOK, Addresses, NoAddr
  <2>2. QED
    BY <1>2, <2>1, Said DEF ToGuest
<1>3. QED
  BY <1>1, <1>2

(* A datagram to the host. *)
LEMMA ToldHost ==
  ASSUME NEW s, LanOK(s), NEW a \in 1 .. s.joins, NEW op \in HostReads
  PROVE  LanOK(ToHost(s, a, op))
<1> DEFINE m == [op |-> op, from |-> a]
<1>1. PICK r : r = [s EXCEPT !.net = @ \cup {m}]
  BY Zenon
<1>2. ToHost(s, a, op) = r
  BY <1>1 DEF ToHost
<1>3. m.op = op /\ m.from = a
  OBVIOUS
<1> HIDE DEF m
<1>4. Beside(s, r) /\ r.net = s.net \cup {m}
  BY <1>1 DEF LanOK, LanShape, IsLan, Beside
<1>5. Datagram(s, m)
  BY <1>3 DEF Datagram, HostReads
<1>6. QED
  BY <1>2, <1>4, <1>5, BesideOK

(* The seat is empty: the handle that was at its address is let go, and    *)
(* nobody else had it.                                                     *)
LEMMA EmptiedOK ==
  ASSUME NEW s, LanOK(s),
         NEW r, IsLan(r), IsRoom(r.room), r.known = NoAddr,
         r.open => r.room.joiner = NoAddr,
         r.joins = s.joins, r.bind = s.bind, r.net = s.net,
         r.room.sid = s.room.sid, r.room.caps = s.room.caps,
         r.room.started => s.room.started,
         r.g = [i \in LanGuests |->
                  IF s.bind[i] = s.known THEN [s.g[i] EXCEPT !.loose = TRUE] ELSE s.g[i]]
  PROVE  LanOK(r)
<1>1. ASSUME NEW i \in LanGuests
      PROVE  /\ IsHandle(r.g[i]) /\ r.g[i].st = s.g[i].st /\ r.g[i].no = s.g[i].no
             /\ r.g[i].sid = s.g[i].sid /\ r.g[i].caps = s.g[i].caps
             /\ ~r.g[i].loose => s.bind[i] # s.known /\ ~s.g[i].loose
  <2>1. PICK x : x = s.g[i]
    BY Zenon
  <2>2. IsHandle(x)
    BY <2>1 DEF LanOK, LanShape
  <2>3. CASE s.bind[i] = s.known
    <3>1. r.g[i] = [x EXCEPT !.loose = TRUE]
      BY <2>1, <2>3
    <3>2. PICK y : y = [x EXCEPT !.loose = TRUE]
      BY Zenon
    <3>3. IsHandle(y) /\ y.st = x.st /\ y.no = x.no /\ y.sid = x.sid /\ y.caps = x.caps
          /\ y.loose
      BY <2>2, <3>2, Zenon DEF IsHandle
    <3>4. QED
      BY <2>1, <3>1, <3>2, <3>3
  <2>4. CASE s.bind[i] # s.known
    BY <2>1, <2>2, <2>4
  <2>5. QED
    BY <2>3, <2>4
<1>2. r.g = [i \in LanGuests |-> r.g[i]]
  BY Zenon
<1>3. LanShape(r)
  BY <1>1, <1>2, Zenon DEF LanOK, LanShape
<1>4. Addresses(r)
  BY <1>1 DEF LanOK, Addresses, NoAddr
<1>5. ASSUME NEW sid, NEW caps, Terms(s, sid, caps) PROVE Terms(r, sid, caps)
  BY <1>5, Zenon DEF Terms
<1>6. ASSUME NEW i \in LanGuests PROVE Seating(r, i)
  <2>1. Seating(s, i)
    BY DEF LanOK
  <2>2. QED
    BY <1>1, <1>5, <2>1, Zenon DEF Seating
<1>7. ASSUME NEW m \in r.net PROVE Datagram(r, m)
  <2>1. Datagram(s, m)
    BY DEF LanOK
  <2>2. m.op = "START" => Terms(r, m.sid, m.caps)
    BY <1>5, <2>1, Zenon DEF Datagram
  <2>3. ASSUME NEW i \in LanGuests, m.op \in {"JOIN_OK", "START"} PROVE ~Meant(r, m, i)
    <3>1. SUFFICES ASSUME Meant(r, m, i) PROVE FALSE
      OBVIOUS
    <3>2. Meant(s, m, i) /\ s.bind[i] # s.known
      BY <1>1, <3>1, Zenon DEF Meant
    <3>3. QED
      BY <2>1, <2>3, <3>2, Zenon DEF Datagram
  <2>4. QED
    BY <2>1, <2>2, <2>3, Zenon DEF Datagram
<1>8. QED
  BY <1>3, <1>4, <1>6, <1>7, Zenon DEF LanOK

(* What LetGo leaves. *)
Freed(s, r, a) ==
  /\ IsLan(r) /\ r.left = s.left /\ r.open = s.open /\ r.room = s.room
  /\ r.known = s.known /\ r.joins = s.joins /\ r.bind = s.bind /\ r.net = s.net
  /\ r.g = [i \in LanGuests |->
              IF s.bind[i] = a THEN [s.g[i] EXCEPT !.loose = TRUE] ELSE s.g[i]]

LEMMA LetGoIs ==
  ASSUME NEW s, LanOK(s), NEW a
  PROVE  Freed(s, LetGo(s, a), a)
<1>1. PICK f : f = [i \in LanGuests |->
                      IF s.bind[i] = a THEN [s.g[i] EXCEPT !.loose = TRUE] ELSE s.g[i]]
  BY Zenon
<1>2. PICK r : r = [s EXCEPT !.g = f]
  BY Zenon
<1>3. LetGo(s, a) = r
  BY <1>1, <1>2, Zenon DEF LetGo
<1>4. /\ IsLan(r) /\ r.left = s.left /\ r.open = s.open /\ r.room = s.room
      /\ r.known = s.known /\ r.joins = s.joins /\ r.bind = s.bind /\ r.net = s.net /\ r.g = f
  BY <1>2, Zenon DEF LanOK, LanShape, IsLan
<1>5. QED
  BY <1>1, <1>3, <1>4, Zenon DEF Freed

(* The seat emptied, after LetGo. *)
LEMMA FreedOK ==
  ASSUME NEW s, LanOK(s), NEW q, Freed(s, q, s.known),
         NEW r, IsLan(r), IsRoom(r.room), r.known = NoAddr,
         r.open => r.room.joiner = NoAddr,
         r.joins = q.joins, r.bind = q.bind, r.net = q.net, r.g = q.g,
         r.room.sid = s.room.sid, r.room.caps = s.room.caps,
         r.room.started => s.room.started
  PROVE  LanOK(r)
<1>1. /\ r.joins = s.joins /\ r.bind = s.bind /\ r.net = s.net
      /\ r.g = [i \in LanGuests |->
                  IF s.bind[i] = s.known THEN [s.g[i] EXCEPT !.loose = TRUE] ELSE s.g[i]]
  BY Zenon DEF Freed
<1>2. QED
  BY <1>1, EmptiedOK

-----------------------------------------------------------------------------
(* The host's pump. *)
LEMMA JoinReqOK ==
  ASSUME NEW s, LanOK(s), s.open, NEW a \in 1 .. s.joins
  PROVE  LanOK(OnJoinReq(s, a))
<1>1. CASE s.room.joiner # NoAddr /\ s.known = a /\ ~s.room.started
  <2>1. LanOK(Say(s, a, "JOIN_OK"))
    BY <1>1, Said DEF HostReads
  <2>2. QED
    BY <1>1, <2>1 DEF OnJoinReq
<1>2. CASE ~(s.room.joiner # NoAddr /\ s.known = a /\ ~s.room.started)
           /\ (s.room.started \/ s.room.joiner # NoAddr)
  <2>1. LanOK(Say(s, a, "JOIN_NAK"))
    BY Said DEF HostReads
  <2>2. QED
    BY <1>2, <2>1 DEF OnJoinReq
<1>3. CASE ~s.room.started /\ s.room.joiner = NoAddr
  <2>1. PICK r : r = [s EXCEPT !.room.joiner = a, !.known = a]
    BY Zenon
  <2>2. OnJoinReq(s, a) = Say(r, a, "JOIN_OK")
    BY <1>3, <2>1 DEF OnJoinReq
  <2>3. IsLan(r) /\ r.room = [s.room EXCEPT !.joiner = a] /\ r.known = a /\ r.joins = s.joins
        /\ r.open = s.open /\ r.bind = s.bind /\ r.g = s.g /\ r.net = s.net
    BY <2>1, Zenon DEF LanOK, LanShape, IsLan
  <2>4. IsRoom(r.room) /\ r.room.joiner = a /\ r.room.started = s.room.started
        /\ r.room.caps = s.room.caps /\ r.room.sid = s.room.sid
    BY <2>3 DEF LanOK, LanShape, IsRoom
  <2>5. s.known = NoAddr
    BY <1>3 DEF LanOK, Addresses
  <2>6. LanShape(r) /\ Addresses(r)
    BY <2>3, <2>4 DEF LanOK, LanShape, Addresses
  <2>7. ASSUME NEW i \in LanGuests, s.g[i].st # "none" PROVE s.known # s.bind[i]
    BY <2>5, <2>7 DEF LanOK, Addresses
  <2>8. ASSUME NEW i \in LanGuests PROVE Seating(r, i)
    <3>1. Seating(s, i)
      BY DEF LanOK
    <3>2. QED
      BY <2>3, <2>4, <2>7, <3>1 DEF Seating, Terms
  <2>9. ASSUME NEW m \in r.net PROVE Datagram(r, m)
    <3>1. Datagram(s, m)
      BY <2>3 DEF LanOK
    <3>2. m.op \in {"JOIN_OK", "START"} => \A i \in LanGuests : ~Meant(s, m, i)
      BY <2>7, <3>1 DEF Datagram, Meant
    <3>3. QED
      BY <2>3, <2>4, <3>1, <3>2 DEF Datagram, Meant, Terms
  <2>10. LanOK(r)
    BY <2>6, <2>8, <2>9 DEF LanOK
  <2>11. QED
    BY <2>2, <2>3, <2>10, Said DEF HostReads
<1>4. QED
  BY <1>1, <1>2, <1>3

(* A LEAVE empties the seat of whoever is at its address. *)
LEMMA LeaveOK ==
  ASSUME NEW s, LanOK(s), NEW a \in 1 .. s.joins
  PROVE  LanOK(OnLeave(s, a))
<1>1. CASE ~(s.known = a /\ s.room.joiner # NoAddr)
  BY <1>1 DEF OnLeave
<1>2. CASE s.known = a /\ s.room.joiner # NoAddr
  <2>1. PICK q : q = LetGo(s, a)
    BY Zenon
  <2>2. Freed(s, q, s.known) /\ IsLan(q) /\ q.room = s.room
    BY <1>2, <2>1, LetGoIs DEF Freed
  <2>3. PICK r : r = [q EXCEPT !.room.joiner = NoAddr, !.room.started = FALSE, !.known = NoAddr]
    BY Zenon
  <2>4. OnLeave(s, a) = r
    BY <1>2, <2>1, <2>3 DEF OnLeave
  <2>5. IsLan(r) /\ r.room = [q.room EXCEPT !.joiner = NoAddr, !.started = FALSE]
        /\ r.known = NoAddr /\ r.joins = q.joins /\ r.bind = q.bind /\ r.g = q.g /\ r.net = q.net
    BY <2>2, <2>3, Zenon DEF IsLan
  <2>6. IsRoom(s.room)
    BY DEF LanOK, LanShape
  <2>7. IsRoom(r.room) /\ r.room.joiner = NoAddr /\ ~r.room.started
        /\ r.room.sid = s.room.sid /\ r.room.caps = s.room.caps
    <3>1. PICK x, y : x = s.room /\ y = [x EXCEPT !.joiner = NoAddr, !.started = FALSE]
      BY Zenon
    <3>2. IsRoom(y) /\ y.joiner = NoAddr /\ ~y.started /\ y.sid = x.sid /\ y.caps = x.caps
      BY <2>6, <3>1, Zenon DEF IsRoom
    <3>3. QED
      BY <2>2, <2>5, <3>1, <3>2
  <2>8. LanOK(r)
    BY <2>2, <2>5, <2>7, FreedOK
  <2>9. QED
    BY <2>4, <2>8
<1>3. QED
  BY <1>1, <1>2

(* Whatever datagram the host reads, the invariant holds after it. *)
LEMMA HostPumpOK ==
  ASSUME LanOK(lan), rnet_lan_direct_host_pump
  PROVE  LanOK(lan')
<1>1. PICK m \in lan.net :
        \/ m.op = "JOIN_REQ" /\ lan' = OnJoinReq(lan, m.from)
        \/ m.op = "LEAVE" /\ lan' = OnLeave(lan, m.from)
        \/ m.op = "SWAPREQ" /\ lan' = OnSwapReq(lan, m.from)
  BY DEF rnet_lan_direct_host_pump
<1>2. m.from \in 1 .. lan.joins /\ lan.open
  BY <1>1 DEF LanOK, Datagram, HostReads, rnet_lan_direct_host_pump
<1>3. CASE m.op = "JOIN_REQ" /\ lan' = OnJoinReq(lan, m.from)
  BY <1>2, <1>3, JoinReqOK
<1>4. CASE m.op = "LEAVE" /\ lan' = OnLeave(lan, m.from)
  BY <1>2, <1>4, LeaveOK
<1>5. CASE m.op = "SWAPREQ" /\ lan' = OnSwapReq(lan, m.from)
  <2>1. lan' = lan \/ lan' = [lan EXCEPT !.swap = TRUE]
    BY <1>5 DEF OnSwapReq
  <2>2. Beside(lan, lan') /\ lan'.net = lan.net
    BY <2>1 DEF LanOK, LanShape, IsLan, Beside
  <2>3. QED
    BY <2>2, BesideOK
<1>6. QED
  BY <1>1, <1>3, <1>4, <1>5

-----------------------------------------------------------------------------
(* The launcher. *)

(* A call counted: nothing the invariant speaks of has changed. *)
LEMMA CalledOK ==
  ASSUME LanOK(lan)
  PROVE  LanOK(Called) /\ Beside(lan, Called) /\ Called.net = lan.net
<1>1. PICK l : l = [lan.left EXCEPT !.n = @ - 1]
  BY Zenon
<1>2. Called = [lan EXCEPT !.left = l]
  BY <1>1 DEF Called
<1>3. Beside(lan, Called) /\ Called.net = lan.net
  BY <1>2, Zenon DEF LanOK, LanShape, IsLan, Beside
<1>4. QED
  BY <1>3, BesideOK

LEMMA CapsOK ==
  ASSUME LanOK(lan), notify_caps
  PROVE  LanOK(lan')
<1>1. PICK p : p = Called
  BY Zenon
<1>2. LanOK(p) /\ p.room = lan.room
  BY <1>1, CalledOK DEF Beside
<1>3. PICK c : c = p.room.caps + 1
  BY Zenon
<1>4. PICK q : q = [p EXCEPT !.room.caps = c]
  BY Zenon
<1>5. ~p.room.started /\ lan' = ToGuest(q, "CAPS")
  BY <1>1, <1>2, <1>3, <1>4 DEF notify_caps
<1>6. IsLan(q) /\ q.room = [p.room EXCEPT !.caps = c] /\ q.known = p.known
      /\ q.open = p.open /\ q.joins = p.joins /\ q.bind = p.bind /\ q.g = p.g /\ q.net = p.net
  BY <1>2, <1>4, Zenon DEF LanOK, LanShape, IsLan
<1>7. IsRoom(q.room) /\ q.room.joiner = p.room.joiner /\ q.room.started = p.room.started
      /\ q.room.sid = p.room.sid
  BY <1>2, <1>6 DEF LanOK, LanShape, IsRoom
<1>8. LanShape(q) /\ Addresses(q)
  BY <1>2, <1>6, <1>7 DEF LanOK, LanShape, Addresses
<1>9. \A i \in LanGuests : Seating(q, i)
  BY <1>2, <1>5, <1>6, <1>7 DEF LanOK, Seating, Terms
<1>10. \A m \in q.net : Datagram(q, m)
  BY <1>2, <1>5, <1>6, <1>7 DEF LanOK, Datagram, Meant, Terms
<1>11. LanOK(q)
  BY <1>8, <1>9, <1>10 DEF LanOK
<1>12. QED
  BY <1>5, <1>11, ToldGuest DEF HostReads

(* A kick empties the seat and lets its guest go. *)
LEMMA KickOK ==
  ASSUME LanOK(lan), notify_kick
  PROVE  LanOK(lan')
<1>1. PICK p : p = ToGuest(Called, "KICK")
  BY Zenon
<1>2. LanOK(p) /\ Beside(Called, p) /\ p.known = lan.known
  BY <1>1, CalledOK, ToldGuest DEF HostReads, Beside
<1>3. PICK q : q = LetGo(p, lan.known)
  BY Zenon
<1>4. Freed(p, q, p.known) /\ IsLan(q) /\ q.room = p.room
  BY <1>2, <1>3, LetGoIs DEF Freed
<1>5. lan' = [q EXCEPT !.known = NoAddr, !.room.joiner = NoAddr]
  BY <1>1, <1>3 DEF notify_kick
<1>6. IsLan(lan') /\ lan'.room = [q.room EXCEPT !.joiner = NoAddr] /\ lan'.known = NoAddr
      /\ lan'.joins = q.joins /\ lan'.bind = q.bind /\ lan'.g = q.g /\ lan'.net = q.net
  BY <1>4, <1>5, Zenon DEF IsLan
<1>7. IsRoom(p.room)
  BY <1>2 DEF LanOK, LanShape
<1>8. IsRoom(lan'.room) /\ lan'.room.joiner = NoAddr /\ lan'.room.started = p.room.started
      /\ lan'.room.caps = p.room.caps /\ lan'.room.sid = p.room.sid
  <2>1. PICK x, y : x = p.room /\ y = [x EXCEPT !.joiner = NoAddr]
    BY Zenon
  <2>2. IsRoom(y) /\ y.joiner = NoAddr /\ y.started = x.started /\ y.sid = x.sid
        /\ y.caps = x.caps
    BY <1>7, <2>1, Zenon DEF IsRoom
  <2>3. QED
    BY <1>4, <1>6, <2>1, <2>2
<1>9. QED
  BY <1>2, <1>4, <1>6, <1>8, FreedOK

(* A seat swap, accepted or not, leaves the seat with its guest. *)
LEMMA SwapOK ==
  ASSUME LanOK(lan), AnswerSwap
  PROVE  LanOK(lan')
<1>1. PICK p : p = Called
  BY Zenon
<1>2. LanOK(p)
  BY <1>1, CalledOK
<1>3. PICK accept, q, t :
        /\ q = [p EXCEPT !.swap = FALSE, !.room.slot = IF accept THEN 1 - @ ELSE @]
        /\ t = ToGuest(q, "SWAPRES")
        /\ lan' = IF accept THEN ToGuest(t, "ROOM") ELSE t
  BY <1>1, Zenon DEF AnswerSwap
<1>4. PICK n : n = IF accept THEN 1 - p.room.slot ELSE p.room.slot
  BY Zenon
<1>5. q = [p EXCEPT !.swap = FALSE, !.room.slot = n]
  BY <1>3, <1>4
<1>6. IsLan(q) /\ q.room = [p.room EXCEPT !.slot = n] /\ q.known = p.known /\ q.open = p.open
      /\ q.joins = p.joins /\ q.bind = p.bind /\ q.g = p.g /\ q.net = p.net
  BY <1>2, <1>5, Zenon DEF LanOK, LanShape, IsLan
<1>7. IsRoom(q.room) /\ q.room.joiner = p.room.joiner /\ q.room.started = p.room.started
      /\ q.room.caps = p.room.caps /\ q.room.sid = p.room.sid
  BY <1>2, <1>6 DEF LanOK, LanShape, IsRoom
<1>8. LanOK(q)
  BY <1>2, <1>6, <1>7 DEF LanOK, LanShape, Addresses, Seating, Datagram, Meant, Terms
<1>9. LanOK(t)
  BY <1>3, <1>8, ToldGuest DEF HostReads
<1>10. LanOK(ToGuest(t, "ROOM"))
  BY <1>9, ToldGuest DEF HostReads
<1>11. QED
  BY <1>3, <1>9, <1>10, Zenon

(* A match is started on the present settings; nobody is in an earlier one *)
(* unless it was let go.                                                   *)
LEMMA StartOK ==
  ASSUME LanOK(lan), notify_start
  PROVE  LanOK(lan')
<1>1. PICK p : p = Called
  BY Zenon
<1>2. LanOK(p) /\ p.room = lan.room
  BY <1>1, CalledOK DEF Beside
<1>3. PICK c : c = p.room.sid + 1
  BY Zenon
<1>4. PICK q : q = [p EXCEPT !.room.started = TRUE, !.room.sid = c]
  BY Zenon
<1>5. ~p.room.started /\ lan' = ToGuest(q, "START")
  BY <1>1, <1>2, <1>3, <1>4 DEF notify_start
<1>6. IsLan(q) /\ q.room = [p.room EXCEPT !.started = TRUE, !.sid = c] /\ q.known = p.known
      /\ q.open = p.open /\ q.joins = p.joins /\ q.bind = p.bind /\ q.g = p.g /\ q.net = p.net
  BY <1>2, <1>4, Zenon DEF LanOK, LanShape, IsLan
<1>7. IsRoom(q.room) /\ q.room.joiner = p.room.joiner /\ q.room.started
      /\ q.room.caps = p.room.caps /\ q.room.sid = c
  BY <1>2, <1>6 DEF LanOK, LanShape, IsRoom
<1>8. p.room.sid \in Nat /\ c \in Nat /\ c > p.room.sid
  BY <1>2, <1>3 DEF LanOK, Addresses
<1>9. LanShape(q) /\ Addresses(q)
  BY <1>2, <1>6, <1>7, <1>8 DEF LanOK, LanShape, Addresses
<1>10. ASSUME NEW sid, NEW caps, Terms(p, sid, caps) PROVE Terms(q, sid, caps)
  BY <1>7, <1>8, <1>10 DEF Terms
<1>11. ASSUME NEW i \in LanGuests PROVE Seating(q, i)
  <2>1. Seating(p, i)
    BY <1>2 DEF LanOK
  <2>2. QED
    BY <1>5, <1>6, <1>7, <1>10, <2>1, Zenon DEF Seating
<1>12. ASSUME NEW m \in q.net PROVE Datagram(q, m)
  <2>1. Datagram(p, m)
    BY <1>2, <1>6 DEF LanOK
  <2>2. QED
    BY <1>5, <1>6, <1>7, <1>10, <2>1, Zenon DEF Datagram, Meant
<1>13. LanOK(q)
  BY <1>9, <1>11, <1>12 DEF LanOK
<1>14. QED
  BY <1>5, <1>7, <1>13, ToldGuest DEF HostReads

(* The room closed: its guest, told or not, is let go. *)
LEMMA HostCloseOK ==
  ASSUME LanOK(lan), NEW notify \in BOOLEAN, rnet_lan_direct_host_close(notify)
  PROVE  LanOK(lan')
<1>1. PICK p : p = IF notify THEN ToGuest(Called, "CLOSE") ELSE Called
  BY Zenon
<1>2. LanOK(p) /\ p.known = lan.known
  <2>1. LanOK(Called) /\ Called.known = lan.known
    BY CalledOK DEF Beside
  <2>2. LanOK(ToGuest(Called, "CLOSE")) /\ ToGuest(Called, "CLOSE").known = lan.known
    BY <2>1, ToldGuest DEF HostReads, Beside
  <2>3. QED
    BY <1>1, <2>1, <2>2, Zenon
<1>3. PICK q : q = LetGo(p, lan.known)
  BY Zenon
<1>4. Freed(p, q, p.known) /\ IsLan(q) /\ q.room = p.room
  BY <1>2, <1>3, LetGoIs DEF Freed
<1>5. lan' = [q EXCEPT !.open = FALSE, !.known = NoAddr, !.swap = FALSE]
  BY <1>1, <1>3 DEF rnet_lan_direct_host_close
<1>6. IsLan(lan') /\ lan'.room = q.room /\ lan'.known = NoAddr /\ ~lan'.open
      /\ lan'.joins = q.joins /\ lan'.bind = q.bind /\ lan'.g = q.g /\ lan'.net = q.net
  BY <1>4, <1>5, Zenon DEF IsLan
<1>7. IsRoom(p.room)
  BY <1>2 DEF LanOK, LanShape
<1>8. QED
  BY <1>2, <1>4, <1>6, <1>7, FreedOK

(* Opened again, the room has an empty seat, as the handle knows no guest. *)
LEMMA HostOpenOK ==
  ASSUME LanOK(lan), rnet_lan_direct_host_open
  PROVE  LanOK(lan')
<1>1. PICK r : r = [lan EXCEPT !.open = TRUE, !.room.started = FALSE, !.room.joiner = NoAddr]
  BY Zenon
<1>2. lan' = r /\ lan.known = NoAddr
  BY <1>1 DEF rnet_lan_direct_host_open, LanOK, Addresses
<1>3. IsLan(r) /\ r.open /\ r.room = [lan.room EXCEPT !.started = FALSE, !.joiner = NoAddr]
      /\ r.known = lan.known /\ r.joins = lan.joins /\ r.bind = lan.bind /\ r.g = lan.g
      /\ r.net = lan.net
  BY <1>1, Zenon DEF LanOK, LanShape, IsLan
<1>4. IsRoom(r.room) /\ ~r.room.started /\ r.room.joiner = NoAddr
      /\ r.room.sid = lan.room.sid /\ r.room.caps = lan.room.caps
  BY <1>3 DEF LanOK, LanShape, IsRoom
<1>5. LanShape(r) /\ Addresses(r)
  BY <1>2, <1>3, <1>4 DEF LanOK, LanShape, Addresses
<1>6. ASSUME NEW i \in LanGuests, lan.g[i].st # "none" PROVE lan.known # lan.bind[i]
  BY <1>2, <1>6 DEF LanOK, Addresses
<1>7. ASSUME NEW sid, NEW caps, Terms(lan, sid, caps) PROVE Terms(r, sid, caps)
  BY <1>4, <1>7 DEF Terms
<1>8. ASSUME NEW i \in LanGuests PROVE Seating(r, i)
  <2>1. Seating(lan, i)
    BY DEF LanOK
  <2>2. QED
    BY <1>3, <1>6, <1>7, <2>1 DEF Seating
<1>9. ASSUME NEW m \in r.net PROVE Datagram(r, m)
  <2>1. Datagram(lan, m)
    BY <1>3 DEF LanOK
  <2>2. m.op \in {"JOIN_OK", "START"} => \A i \in LanGuests : ~Meant(lan, m, i)
    BY <1>6, <2>1 DEF Datagram, Meant
  <2>3. QED
    BY <1>3, <1>7, <2>1, <2>2 DEF Datagram, Meant
<1>10. QED
  BY <1>2, <1>5, <1>8, <1>9 DEF LanOK

-----------------------------------------------------------------------------
(* A guest. *)

(* What a handle may become: closed; or seated or started, on what the     *)
(* host has said.                                                          *)
Fits(s, i, h) ==
  /\ IsHandle(h) /\ h.no \in 0 .. s.joins
  /\ \/ h.st = "none"
     \/ /\ h.st \in {"seated", "started"} /\ s.g[i].st \in {"joining", "seated"}
        /\ h.no = s.g[i].no /\ (~h.loose => ~s.g[i].loose)
        /\ ~h.loose => s.known = s.bind[i]
        /\ h.st = "started" => /\ Terms(s, h.sid, h.caps)
                               /\ ~h.loose => s.room.started /\ h.sid = s.room.sid

LEMMA HandleOK ==
  ASSUME NEW s, LanOK(s), NEW i \in LanGuests, NEW h, Fits(s, i, h)
  PROVE  LanOK([s EXCEPT !.g[i] = h]) /\ [s EXCEPT !.g[i] = h].joins = s.joins
<1>1. PICK f : f = [s.g EXCEPT ![i] = h]
  BY Zenon
<1>2. PICK r : r = [s EXCEPT !.g = f]
  BY Zenon
<1>3. [s EXCEPT !.g[i] = h] = r
  BY <1>1, <1>2
<1>4. IsLan(r) /\ r.open = s.open /\ r.room = s.room /\ r.known = s.known /\ r.joins = s.joins
      /\ r.bind = s.bind /\ r.net = s.net /\ r.g = f
  BY <1>2, Zenon DEF LanOK, LanShape, IsLan
<1>5. /\ r.g = [j \in LanGuests |-> r.g[j]] /\ r.g[i] = h
      /\ \A j \in LanGuests : j # i => r.g[j] = s.g[j]
  BY <1>1, <1>4 DEF LanOK, LanShape
<1>6. LanShape(r)
  BY <1>4, <1>5, Zenon DEF LanOK, LanShape, Fits
<1>7. Addresses(r)
  BY <1>4, <1>5 DEF LanOK, Addresses, Fits
<1>8. ASSUME NEW j \in LanGuests PROVE Seating(r, j)
  <2>1. CASE j # i
    <3>1. Seating(s, j)
      BY DEF LanOK
    <3>2. QED
      BY <1>4, <1>5, <2>1, <3>1 DEF Seating, Terms
  <2>2. CASE j = i
    BY <1>4, <1>5, <2>2 DEF Seating, Terms, Fits
  <2>3. QED
    BY <2>1, <2>2
<1>9. ASSUME NEW m \in r.net PROVE Datagram(r, m)
  <2>1. Datagram(s, m)
    BY <1>4 DEF LanOK
  <2>2. ASSUME NEW j \in LanGuests, Meant(r, m, j) PROVE Meant(s, m, j)
    <3>1. CASE j # i
      BY <1>4, <1>5, <2>2, <3>1, Zenon DEF Meant
    <3>2. CASE j = i
      BY <1>4, <1>5, <2>2, <3>2 DEF Meant, Fits
    <3>3. QED
      BY <3>1, <3>2
  <2>3. QED
    BY <1>4, <2>1, <2>2, Zenon DEF Datagram, Terms
<1>10. QED
  BY <1>3, <1>4, <1>6, <1>7, <1>8, <1>9 DEF LanOK

(* A handle closed. *)
LEMMA NoHandleOK ==
  ASSUME NEW s, LanOK(s), NEW i \in LanGuests
  PROVE  LanOK([s EXCEPT !.g[i] = NoHandle]) /\ [s EXCEPT !.g[i] = NoHandle].joins = s.joins
<1>1. IsHandle(NoHandle) /\ NoHandle.st = "none" /\ NoHandle.no = 0
  BY DEF IsHandle, NoHandle
<1>2. s.joins \in Nat
  BY DEF LanOK, Addresses
<1>3. Fits(s, i, NoHandle)
  BY <1>1, <1>2 DEF Fits
<1>4. QED
  BY <1>3, HandleOK

(* What a handle is that has taken a datagram. *)
LEMMA TookIs ==
  ASSUME NEW i, NEW m, NEW x, IsHandle(x)
  PROVE  LET h == Took(i, m, x)
         IN  /\ IsHandle(h) /\ h.st = x.st /\ h.no = x.no /\ h.sid = x.sid /\ h.caps = x.caps
             /\ (~h.loose => ~x.loose /\ ~(m.at < lan.g[i].no))
<1>1. PICK h : h = Took(i, m, x)
  BY Zenon
<1>2. PICK b : b = (x.loose \/ m.at < lan.g[i].no)
  BY Zenon
<1>3. h = [x EXCEPT !.loose = b]
  BY <1>1, <1>2 DEF Took
<1>4. IsHandle(h) /\ h.st = x.st /\ h.no = x.no /\ h.sid = x.sid /\ h.caps = x.caps /\ h.loose = b
  BY <1>3, Zenon DEF IsHandle
<1>5. QED
  BY <1>1, <1>2, <1>4, Zenon

(* A new handle has been sent nothing yet. *)
LEMMA JoinBeginOK ==
  ASSUME LanOK(lan), NEW i \in LanGuests, rnet_lan_direct_guest_join_begin(i)
  PROVE  LanOK(lan')
<1>1. PICK n : n = lan.joins + 1
  BY Zenon
<1>2. PICK h : h = [NoHandle EXCEPT !.st = "joining", !.no = n]
  BY Zenon
<1>3. PICK a \in {lan.bind[i], n} \ {NoAddr} :
        lan' = [lan EXCEPT !.joins = @ + 1, !.bind[i] = a, !.g[i] = h,
                  !.net = {m \in @ : m.op \in HostReads \/ m.to # lan.bind[i] \/ a = lan.bind[i]}
                            \cup {[op |-> "JOIN_REQ", from |-> a]}]
  BY <1>1, <1>2 DEF rnet_lan_direct_guest_join_begin
<1>4. PICK f, b, w :
        /\ f = [lan.g EXCEPT ![i] = h] /\ b = [lan.bind EXCEPT ![i] = a]
        /\ w = {m \in lan.net : m.op \in HostReads \/ m.to # lan.bind[i] \/ a = lan.bind[i]}
  BY Zenon
<1>5. PICK r : r = [lan EXCEPT !.joins = n, !.bind = b, !.g = f, !.net = w]
  BY Zenon
<1>6. lan' = ToHost(r, a, "JOIN_REQ")
  <2>1. IsLan(lan)
    BY DEF LanOK, LanShape
  <2>2. ToHost(r, a, "JOIN_REQ") =
          [r EXCEPT !.net = @ \cup {[op |-> "JOIN_REQ", from |-> a]}]
    BY DEF ToHost
  <2>3. QED
    BY <1>1, <1>3, <1>4, <1>5, <2>1, <2>2 DEF IsLan
<1>7. IsLan(r) /\ r.open = lan.open /\ r.room = lan.room /\ r.known = lan.known /\ r.joins = n
      /\ r.bind = b /\ r.g = f /\ r.net = w
  BY <1>5, Zenon DEF LanOK, LanShape, IsLan
<1>8. IsHandle(h) /\ h.st = "joining" /\ h.no = n
  BY <1>2, Zenon DEF NoHandle, IsHandle
<1>9. /\ r.g = [j \in LanGuests |-> r.g[j]] /\ r.g[i] = h
      /\ \A j \in LanGuests : j # i => r.g[j] = lan.g[j]
  BY <1>4, <1>7 DEF LanOK, LanShape
<1>10. /\ r.bind = [j \in LanGuests |-> r.bind[j]] /\ r.bind[i] = a
       /\ \A j \in LanGuests : j # i => r.bind[j] = lan.bind[j]
  BY <1>4, <1>7 DEF LanOK, LanShape
<1>11. lan.joins \in Nat /\ n \in Nat /\ n > lan.joins /\ a \in 1 .. n
       /\ (a # lan.bind[i] => a > lan.joins)
  BY <1>1, <1>3 DEF LanOK, Addresses, NoAddr
<1>12. LanShape(r)
  BY <1>7, <1>8, <1>9, <1>10, Zenon DEF LanOK, LanShape
<1>13. Addresses(r)
  BY <1>7, <1>8, <1>9, <1>10, <1>11 DEF LanOK, Addresses, NoAddr
<1>14. ASSUME NEW j \in LanGuests PROVE Seating(r, j)
  <2>1. CASE j # i
    <3>1. Seating(lan, j)
      BY DEF LanOK
    <3>2. QED
      BY <1>7, <1>9, <1>10, <2>1, <3>1 DEF Seating, Terms
  <2>2. CASE j = i
    BY <1>8, <1>9, <2>2 DEF Seating
  <2>3. QED
    BY <2>1, <2>2
<1>15. ASSUME NEW m \in r.net PROVE Datagram(r, m)
  <2>1. Datagram(lan, m)
    BY <1>4, <1>7 DEF LanOK
  <2>2. ASSUME NEW j \in LanGuests, Meant(r, m, j), m.op \in {"JOIN_OK", "START"}
        PROVE  Meant(lan, m, j) /\ j # i
    <3>1. m.at \in 0 .. lan.joins
      BY <2>1, <2>2 DEF Datagram, HostReads
    <3>2. j # i
      BY <1>8, <1>9, <1>11, <2>2, <3>1 DEF Meant
    <3>3. QED
      BY <1>9, <1>10, <2>2, <3>2, Zenon DEF Meant
  <2>3. IF m.op \in HostReads THEN m.from \in 1 .. r.joins
        ELSE m.to \in 1 .. r.joins /\ m.at \in 0 .. r.joins
    BY <1>7, <1>11, <2>1 DEF Datagram
  <2>4. m.op = "START" => Terms(r, m.sid, m.caps)
    BY <1>7, <2>1 DEF Datagram, Terms
  <2>5. ASSUME NEW j \in LanGuests, Meant(r, m, j), m.op \in {"JOIN_OK", "START"}
        PROVE  r.known = r.bind[j] /\ (m.op = "START" => r.room.started /\ m.sid = r.room.sid)
    BY <1>7, <1>10, <2>1, <2>2, <2>5 DEF Datagram
  <2>6. QED
    BY <2>3, <2>4, <2>5, Zenon DEF Datagram
<1>16. LanOK(r)
  BY <1>12, <1>13, <1>14, <1>15 DEF LanOK
<1>17. QED
  BY <1>6, <1>7, <1>11, <1>16, ToldHost DEF HostReads

(* A seated or started handle that took a datagram of its own. *)
LEMMA TookOK ==
  ASSUME LanOK(lan), NEW i \in LanGuests, lan.g[i].st \in {"joining", "seated"},
         NEW m \in lan.net, Reads(i, m),
         NEW x, IsHandle(x), x.no = lan.g[i].no, x.loose = lan.g[i].loose,
         \/ x.st = "seated" /\ (lan.g[i].st = "seated" \/ m.op = "JOIN_OK")
         \/ x.st = "started" /\ m.op = "START" /\ x.sid = m.sid /\ x.caps = m.caps
  PROVE  LanOK([lan EXCEPT !.g[i] = Took(i, m, x)])
<1>1. PICK h : h = Took(i, m, x)
  BY Zenon
<1>2. /\ IsHandle(h) /\ h.st = x.st /\ h.no = x.no /\ h.sid = x.sid /\ h.caps = x.caps
      /\ (~h.loose => ~x.loose /\ ~(m.at < lan.g[i].no))
  BY <1>1, TookIs
<1>3. Datagram(lan, m) /\ Seating(lan, i)
  BY DEF LanOK
<1>4. lan.g[i].no \in 0 .. lan.joins /\ m.at \in 0 .. lan.joins /\ lan.joins \in Nat
  BY <1>3 DEF LanOK, Addresses, Datagram, Reads
<1>5. ~h.loose => Meant(lan, m, i)
  BY <1>2, <1>4 DEF Meant, Reads
<1>6. ~h.loose => lan.known = lan.bind[i]
  BY <1>2, <1>3, <1>5 DEF Datagram, Seating
<1>7. h.st = "started" => /\ Terms(lan, h.sid, h.caps)
                          /\ ~h.loose => lan.room.started /\ h.sid = lan.room.sid
  BY <1>2, <1>3, <1>5 DEF Datagram
<1>8. Fits(lan, i, h)
  BY <1>2, <1>4, <1>6, <1>7 DEF Fits
<1>9. QED
  BY <1>1, <1>8, HandleOK

LEMMA JoinPollOK ==
  ASSUME LanOK(lan), NEW i \in LanGuests, rnet_lan_direct_guest_join_poll(i)
  PROVE  LanOK(lan')
<1>1. PICK m \in lan.net :
        /\ Reads(i, m)
        /\ \/ /\ m.op = "JOIN_OK"
              /\ lan' = [lan EXCEPT !.g[i] = Took(i, m, [@ EXCEPT
                           !.st = "seated", !.slot = m.slot, !.caps = m.caps])]
           \/ m.op = "JOIN_NAK" /\ lan' = [lan EXCEPT !.g[i] = NoHandle]
  BY DEF rnet_lan_direct_guest_join_poll
<1>2. CASE m.op = "JOIN_NAK" /\ lan' = [lan EXCEPT !.g[i] = NoHandle]
  BY <1>2, NoHandleOK
<1>3. CASE m.op # "JOIN_NAK"
  <2>1. PICK y, x : y = lan.g[i]
                    /\ x = [y EXCEPT !.st = "seated", !.slot = m.slot, !.caps = m.caps]
    BY Zenon
  <2>2. IsHandle(y) /\ y.st = "joining"
    BY <2>1 DEF LanOK, LanShape, rnet_lan_direct_guest_join_poll
  <2>3. IsHandle(x) /\ x.st = "seated" /\ x.no = y.no /\ x.loose = y.loose
    BY <2>1, <2>2, Zenon DEF IsHandle
  <2>4. lan' = [lan EXCEPT !.g[i] = Took(i, m, x)] /\ m.op = "JOIN_OK"
    BY <1>1, <1>3, <2>1 DEF LanOK, LanShape, IsLan
  <2>5. QED
    BY <1>1, <2>1, <2>2, <2>3, <2>4, TookOK
<1>4. QED
  BY <1>1, <1>2, <1>3

(* A seated guest's datagrams. *)
LEMMA GuestPumpOK ==
  ASSUME LanOK(lan), NEW i \in LanGuests, rnet_lan_direct_guest_pump(i)
  PROVE  LanOK(lan')
<1>1. PICK m \in lan.net :
       /\ Reads(i, m)
       /\ \/ m.op = "ROOM" /\ lan' = [lan EXCEPT !.g[i] = Took(i, m, [@ EXCEPT !.slot = m.slot])]
          \/ /\ m.op = "SWAPRES"
             /\ lan' = [lan EXCEPT !.g[i] = Took(i, m, [@ EXCEPT !.asked = FALSE])]
          \/ m.op = "CAPS" /\ lan' = [lan EXCEPT !.g[i] = Took(i, m, [@ EXCEPT !.caps = m.caps])]
          \/ /\ m.op = "START"
             /\ lan' = [lan EXCEPT !.g[i] = Took(i, m, [@ EXCEPT
                          !.st = "started", !.caps = m.caps, !.sid = m.sid])]
          \/ m.op \in {"KICK", "CLOSE"} /\ lan' = [lan EXCEPT !.g[i] = NoHandle]
  BY DEF rnet_lan_direct_guest_pump
<1>2. IsHandle(lan.g[i]) /\ lan.g[i].st = "seated"
  BY DEF LanOK, LanShape, rnet_lan_direct_guest_pump
<1>3. CASE m.op = "ROOM"
  <2>1. PICK y, x : y = lan.g[i] /\ x = [y EXCEPT !.slot = m.slot]
    BY Zenon
  <2>2. IsHandle(y) /\ y.st = "seated"
    BY <1>2, <2>1
  <2>3. IsHandle(x) /\ x.st = "seated" /\ x.no = y.no /\ x.loose = y.loose
    BY <2>1, <2>2, Zenon DEF IsHandle
  <2>4. lan' = [lan EXCEPT !.g[i] = Took(i, m, x)]
    BY <1>1, <1>3, <2>1 DEF LanOK, LanShape, IsLan
  <2>5. QED
    BY <1>1, <1>3, <2>1, <2>2, <2>3, <2>4, TookOK
<1>4. CASE m.op = "SWAPRES"
  <2>1. PICK y, x : y = lan.g[i] /\ x = [y EXCEPT !.asked = FALSE]
    BY Zenon
  <2>2. IsHandle(y) /\ y.st = "seated"
    BY <1>2, <2>1
  <2>3. IsHandle(x) /\ x.st = "seated" /\ x.no = y.no /\ x.loose = y.loose
    BY <2>1, <2>2, Zenon DEF IsHandle
  <2>4. lan' = [lan EXCEPT !.g[i] = Took(i, m, x)]
    BY <1>1, <1>4, <2>1 DEF LanOK, LanShape, IsLan
  <2>5. QED
    BY <1>1, <1>4, <2>1, <2>2, <2>3, <2>4, TookOK
<1>5. CASE m.op = "CAPS"
  <2>1. PICK y, x : y = lan.g[i] /\ x = [y EXCEPT !.caps = m.caps]
    BY Zenon
  <2>2. IsHandle(y) /\ y.st = "seated"
    BY <1>2, <2>1
  <2>3. IsHandle(x) /\ x.st = "seated" /\ x.no = y.no /\ x.loose = y.loose
    BY <2>1, <2>2, Zenon DEF IsHandle
  <2>4. lan' = [lan EXCEPT !.g[i] = Took(i, m, x)]
    BY <1>1, <1>5, <2>1 DEF LanOK, LanShape, IsLan
  <2>5. QED
    BY <1>1, <1>5, <2>1, <2>2, <2>3, <2>4, TookOK
<1>6. CASE m.op = "START"
  <2>1. PICK y, x : y = lan.g[i] /\ x = [y EXCEPT !.st = "started", !.caps = m.caps, !.sid = m.sid]
    BY Zenon
  <2>2. IsHandle(y) /\ y.st = "seated"
    BY <1>2, <2>1
  <2>3. IsHandle(x) /\ x.st = "started" /\ x.no = y.no /\ x.loose = y.loose
        /\ x.sid = m.sid /\ x.caps = m.caps
    BY <2>1, <2>2, Zenon DEF IsHandle
  <2>4. lan' = [lan EXCEPT !.g[i] = Took(i, m, x)]
    BY <1>1, <1>6, <2>1 DEF LanOK, LanShape, IsLan
  <2>5. QED
    BY <1>1, <1>6, <2>1, <2>2, <2>3, <2>4, TookOK
<1>7. CASE m.op \in {"KICK", "CLOSE"}
  BY <1>1, <1>7, NoHandleOK
<1>8. QED
  BY <1>1, <1>3, <1>4, <1>5, <1>6, <1>7

(* A swap request changes nothing but the copy of the asking guest. *)
LEMMA SwapRequestOK ==
  ASSUME LanOK(lan), NEW i \in LanGuests, rnet_lan_direct_guest_send_swap_request(i)
  PROVE  LanOK(lan')
<1>1. PICK y, h : y = lan.g[i] /\ h = [y EXCEPT !.asked = TRUE]
  BY Zenon
<1>2. PICK r : r = [lan EXCEPT !.g[i] = h]
  BY Zenon
<1>3. y.st = "seated" /\ lan' = ToHost(r, lan.bind[i], "SWAPREQ")
  BY <1>1, <1>2 DEF rnet_lan_direct_guest_send_swap_request
<1>4. IsHandle(y) /\ Seating(lan, i) /\ y.no \in 0 .. lan.joins
  BY <1>1 DEF LanOK, LanShape, Addresses
<1>5. IsHandle(h) /\ h.st = "seated" /\ h.no = y.no /\ h.loose = y.loose
  BY <1>1, <1>3, <1>4, Zenon DEF IsHandle
<1>6. Fits(lan, i, h)
  BY <1>1, <1>3, <1>4, <1>5 DEF Fits, Seating
<1>7. LanOK(r) /\ r.joins = lan.joins
  BY <1>2, <1>6, HandleOK
<1>8. lan.bind[i] \in 1 .. lan.joins
  BY <1>1, <1>3 DEF LanOK, Addresses, NoAddr
<1>9. QED
  BY <1>3, <1>7, <1>8, ToldHost DEF HostReads

(* A guest closes its handle as it sends its LEAVE. *)
LEMMA GuestLeaveOK ==
  ASSUME LanOK(lan), NEW i \in LanGuests, rnet_lan_direct_guest_leave(i)
  PROVE  LanOK(lan')
<1>1. PICK r : r = [lan EXCEPT !.g[i] = NoHandle]
  BY Zenon
<1>2. lan.g[i].st = "seated" /\ lan' = ToHost(r, lan.bind[i], "LEAVE")
  BY <1>1 DEF rnet_lan_direct_guest_leave
<1>3. LanOK(r) /\ r.joins = lan.joins
  BY <1>1, NoHandleOK
<1>4. lan.bind[i] \in 1 .. lan.joins
  BY <1>2 DEF LanOK, Addresses, NoAddr
<1>5. QED
  BY <1>2, <1>3, <1>4, ToldHost DEF HostReads

-----------------------------------------------------------------------------
(* The invariant holds in an empty room. *)
LEMMA LanInitOK == LanInit => LanInv
<1> SUFFICES ASSUME LanInit PROVE LanOK(lan)
  BY DEF LanInv
<1>1. /\ IsLan(lan) /\ lan.open /\ lan.known = NoAddr /\ lan.joins = 0 /\ lan.net = {}
      /\ lan.room = [joiner |-> NoAddr, started |-> FALSE, slot |-> 0, caps |-> 0, sid |-> 0]
      /\ lan.bind = [i \in LanGuests |-> NoAddr] /\ lan.g = [i \in LanGuests |-> NoHandle]
  BY DEF LanInit, IsLan
<1>2. IsHandle(NoHandle) /\ NoHandle.st = "none" /\ NoHandle.no = 0
  BY DEF IsHandle, NoHandle
<1>3. IsRoom(lan.room) /\ lan.room.joiner = NoAddr /\ lan.room.sid = 0
  BY <1>1 DEF IsRoom
<1>4. \A i \in LanGuests : lan.g[i] = NoHandle /\ lan.bind[i] = NoAddr
  BY <1>1
<1>5. LanShape(lan)
  BY <1>1, <1>2, <1>3, <1>4 DEF LanShape
<1>6. Addresses(lan)
  BY <1>1, <1>2, <1>3, <1>4 DEF Addresses, NoAddr
<1>7. QED
  BY <1>1, <1>2, <1>4, <1>5, <1>6 DEF LanOK, Seating

(* Every step keeps the invariant. *)
LEMMA LanStepOK == LanInv /\ [LanNext]_lan => LanInv'
<1> SUFFICES ASSUME LanOK(lan), [LanNext]_lan PROVE LanOK(lan')
  BY DEF LanInv
<1>1. CASE rnet_lan_direct_host_pump
  BY <1>1, HostPumpOK
<1>2. CASE notify_caps
  BY <1>2, CapsOK
<1>3. CASE notify_kick
  BY <1>3, KickOK
<1>4. CASE AnswerSwap
  BY <1>4, SwapOK
<1>5. CASE notify_start
  BY <1>5, StartOK
<1>6. CASE rnet_lan_direct_host_open
  BY <1>6, HostOpenOK
<1>7. ASSUME NEW notify \in BOOLEAN, rnet_lan_direct_host_close(notify) PROVE LanOK(lan')
  BY <1>7, HostCloseOK
<1>8. ASSUME NEW i \in LanGuests,
             \/ rnet_lan_direct_guest_join_begin(i) \/ rnet_lan_direct_guest_join_poll(i)
             \/ rnet_lan_direct_guest_close(i) \/ rnet_lan_direct_guest_pump(i)
             \/ rnet_lan_direct_guest_send_swap_request(i) \/ rnet_lan_direct_guest_leave(i)
      PROVE  LanOK(lan')
  <2>1. CASE rnet_lan_direct_guest_close(i)
    BY <2>1, NoHandleOK DEF rnet_lan_direct_guest_close
  <2>2. QED
    BY <1>8, <2>1, JoinBeginOK, JoinPollOK, GuestPumpOK, SwapRequestOK, GuestLeaveOK
<1>9. CASE UNCHANGED lan
  BY <1>9
<1>10. QED
  BY <1>1, <1>2, <1>3, <1>4, <1>5, <1>6, <1>7, <1>8, <1>9 DEF LanNext

(* No datagram of another guest, however late or often it arrives, and no  *)
(* re-opening of the room takes the seat from a guest that believes it     *)
(* holds it, at a fresh address or a reused one.  The exceptions are a     *)
(* kick, a closed room, and a datagram of an earlier handle at the same    *)
(* address (rnet_lan_direct_host_pump tells guests apart by address only). *)
THEOREM SeatIsKept == LanSpec => []SeatKept
<1>1. LanInv => SeatKept
  <2> SUFFICES ASSUME LanOK(lan), NEW i \in LanGuests,
                      lan.g[i].st \in {"seated", "started"}, ~lan.g[i].loose
               PROVE  lan.open /\ lan.known = lan.bind[i] /\ lan.room.joiner = lan.known
    BY DEF LanInv, SeatKept
  <2>1. lan.known = lan.bind[i]
    BY DEF LanOK, Seating
  <2>2. QED
    BY <2>1 DEF LanOK, Addresses
<1>2. QED
  BY <1>1, LanInitOK, LanStepOK, PTL DEF LanSpec

(* Whichever CAPS were lost and whichever START came late, a guest in the  *)
(* host's match has the settings the host started it with; and unless the  *)
(* host let it go, a guest that started is in that match                   *)
(* (rnet_lan_direct_host_notify_start, guest_pump's START).                *)
THEOREM StartsOnHostTerms == LanSpec => []StartedWithHostCaps
<1>1. LanInv => StartedWithHostCaps
  BY DEF LanInv, LanOK, Seating, Terms, StartedWithHostCaps
<1>2. QED
  BY <1>1, LanInitOK, LanStepOK, PTL DEF LanSpec
=============================================================================
