------------------------------- MODULE Lobby -------------------------------
(***************************************************************************)
(* The lobby client (rnet_lobby_client.c) of every player, and the lobby   *)
(* server they talk to.  The server is another program: it is modelled     *)
(* from what the client sends it and from the answers the client handles.  *)
(* A connection is one WebSocket, so frames keep their order in each       *)
(* direction and the two directions race.                                  *)
(*                                                                         *)
(* lob.at[c] is what rnet_lobby_disconnect zeroes (g_lc), lob.own[c] the   *)
(* globals that outlive a connection (g_launch_blocked, the installed mod, *)
(* g_am).  up and down are the frames on their way, room and tick what the *)
(* server holds.  A row of the roster carries the seat's role, its ready   *)
(* flag and whether its owner offered the mod of the host's plan.          *)
(***************************************************************************)
EXTENDS Integers, Sequences, FiniteSets

CONSTANTS Clients,      \* the players' clients
          PendCap,      \* frames held before the handshake (8 in the code)
          LobbyPlans    \* set of [seated, has, calls, n]: whether the room is
                        \* already formed, who has the mod, which users may
                        \* make which calls, and how many calls in all

VARIABLE lob

Nobody == 0

\* A zeroed g_lc, and a zeroed automatch queue state.
Zeroed == [conn |-> "none", pend |-> <<>>, in |-> FALSE, host |-> FALSE,
           boss |-> Nobody, ready |-> FALSE, spect |-> FALSE, rows |-> {},
           launch |-> FALSE, bundle |-> {}]

QueueReset == [state |-> "idle", ticket |-> Nobody, flying |-> FALSE]

NoRoom == [host |-> Nobody, players |-> {}, gallery |-> {}, ready |-> {},
           offers |-> {}]

\* parse_slots_array: the roster, and our own flags out of our own row.
Mine(c, rows) == {r \in rows : r.id = c}

Parsed(a, c, rows) ==
  [a EXCEPT !.rows = rows,
            !.ready = \E r \in Mine(c, rows) : r.ready,
            !.spect = \E r \in Mine(c, rows) : r.spect]

Seated(r) == r.players \cup r.gallery

Rows(r) == {[id |-> c, spect |-> c \in r.gallery, ready |-> c \in r.ready,
             has |-> c \in r.offers] : c \in Seated(r)}

\* Nobody connected yet, or client 1's room with everyone in it and settled.
LobbyInit ==
  \E plan \in LobbyPlans :
    LET formed == IF plan.seated
                    THEN [NoRoom EXCEPT !.host = 1, !.players = Clients,
                                        !.ready = Clients, !.offers = plan.has]
                    ELSE NoRoom
    IN lob = [at   |-> [c \in Clients |->
                         IF plan.seated
                           THEN Parsed([Zeroed EXCEPT !.conn = "up", !.in = TRUE,
                                          !.host = (c = 1), !.boss = 1], c, Rows(formed))
                           ELSE Zeroed],
              own  |-> [c \in Clients |->
                         [blocked |-> FALSE, has |-> c \in plan.has,
                          am |-> QueueReset, amRoom |-> FALSE]],
              up   |-> [c \in Clients |-> <<>>],
              down |-> [c \in Clients |-> <<>>],
              room |-> formed, tick |-> [c \in Clients |-> "none"],
              offer |-> 0, left |-> [calls |-> plan.calls, n |-> plan.n]]

-----------------------------------------------------------------------------
(* Frames out: straight to the socket after the handshake, else one of the *)
(* PendCap slots, else dropped.                                            *)

Send(s, c, m) ==
  IF s.at[c].conn = "up" THEN [s EXCEPT !.up[c] = Append(@, m)]
  ELSE IF Len(s.at[c].pend) < PendCap
         THEN [s EXCEPT !.at[c].pend = Append(@, m)] ELSE s

\* Every set_ready carries the installed set; a blocked peer's says false.
SendSetReady(s, c, ready) ==
  Send(s, c, [op |-> "set_ready", ready |-> ready /\ ~s.own[c].blocked,
              has |-> s.own[c].has])

Connected(c) == lob.at[c].conn # "none"

\* A user's call: it spends one of the plan's calls.
May(c, op) == <<c, op>> \in lob.left.calls /\ lob.left.n > 0
Spent(s) == [s EXCEPT !.left.n = @ - 1]

rnet_lobby_connect(c) ==
  /\ May(c, "connect") /\ ~Connected(c)
  /\ lob' = Spent([lob EXCEPT !.at[c] = [Zeroed EXCEPT !.conn = "opening"]])

\* The pump reads the 101: what waited goes out first, in order.
Handshake(c) ==
  /\ lob.at[c].conn = "opening"
  /\ lob' = [lob EXCEPT !.up[c] = lob.at[c].pend, !.at[c].pend = <<>>,
                        !.at[c].conn = "up"]

rnet_lobby_create(c) ==
  /\ May(c, "create") /\ Connected(c)
  /\ lob' = Spent(Send(lob, c, [op |-> "create", has |-> lob.own[c].has]))

rnet_lobby_join(c) ==
  /\ May(c, "join") /\ Connected(c)
  /\ lob' = Spent(Send(lob, c, [op |-> "join", has |-> lob.own[c].has]))

\* Leaving does not wait for the answer.
rnet_lobby_leave(c) ==
  /\ May(c, "leave")
  /\ lob' = Spent([Send(lob, c, [op |-> "leave"]) EXCEPT
       !.own[c].amRoom = FALSE,
       !.at[c].in = FALSE, !.at[c].host = FALSE, !.at[c].boss = Nobody,
       !.at[c].rows = {},
       !.at[c].ready = FALSE, !.at[c].launch = FALSE, !.at[c].bundle = {}])

Hosting(c) == Connected(c) /\ lob.at[c].in /\ lob.at[c].host

rnet_lobby_kick(c) ==
  /\ May(c, "kick") /\ Hosting(c)
  /\ \E d \in Clients \ {c} : lob' = Spent(Send(lob, c, [op |-> "kick", who |-> d]))

rnet_lobby_move(c) ==
  /\ May(c, "move") /\ Hosting(c)
  /\ \E d \in Clients : lob' = Spent(Send(lob, c, [op |-> "move", who |-> d]))

rnet_lobby_set_match_caps(c) ==
  /\ May(c, "caps") /\ Hosting(c)
  /\ lob' = Spent(Send(lob, c, [op |-> "set_match_caps"]))

rnet_lobby_set_ready(c) ==
  /\ May(c, "ready") /\ Connected(c) /\ lob.at[c].in
  /\ \E r \in BOOLEAN : lob' = Spent(SendSetReady(lob, c, r))

\* The launcher found, or lost, a bootable game image.
rnet_lobby_set_launch_blocked(c) ==
  /\ May(c, "block")
  /\ LET s == Spent([lob EXCEPT !.own[c].blocked = ~@]) IN
     lob' = IF Connected(c) /\ lob.at[c].in /\ ~lob.at[c].spect
              THEN SendSetReady(s, c, ~s.own[c].blocked) ELSE s

\* A transfer of the mod finished: installed, then re-announced.
InstallMod(c) ==
  /\ May(c, "install") /\ lob.at[c].in /\ ~lob.at[c].host /\ ~lob.own[c].has
  /\ lob' = Spent(SendSetReady([lob EXCEPT !.own[c].has = TRUE], c, lob.at[c].ready))

\* The start gate: mods for everyone seated, ready for every player, and a
\* game of our own to boot.
Members(c) == {r \in lob.at[c].rows : r.id # c}
BlockedByMods(c) == \E r \in Members(c) : ~r.has
BlockedByUnready(c) == \E r \in Members(c) : ~r.spect /\ ~r.ready

rnet_lobby_request_start(c) ==
  /\ May(c, "start") /\ Hosting(c)
  /\ ~BlockedByMods(c) /\ ~lob.own[c].blocked /\ ~BlockedByUnready(c)
  /\ lob' = Spent(Send(lob, c, [op |-> "start"]))

\* The engine fills the launch, takes the agents and clears the flag.
TakeLaunch(c) ==
  /\ lob.at[c].launch
  /\ lob' = [lob EXCEPT !.at[c].launch = FALSE, !.at[c].bundle = {}]

-----------------------------------------------------------------------------
(* Automatch, the client's calls.                                          *)

rnet_lobby_automatch_queue(c) ==
  /\ May(c, "queue") /\ Connected(c)
  /\ lob.own[c].am.state \notin {"queued", "found"}
  /\ lob' = Spent([Send(lob, c, [op |-> "queue"]) EXCEPT !.own[c].am.flying = TRUE])

rnet_lobby_automatch_cancel(c) ==
  /\ May(c, "cancel") /\ Connected(c)
  /\ lob' = Spent(Send(lob, c, [op |-> "cancel"]))

rnet_lobby_automatch_accept(c) ==
  /\ Connected(c) /\ lob.own[c].am.state = "found"
  /\ \E yes \in BOOLEAN :
       LET s == Send(lob, c, [op |-> "accept", ticket |-> lob.own[c].am.ticket,
                              accept |-> yes])
       IN lob' = IF yes
                   THEN [s EXCEPT !.own[c].am.state = "accepted"]
                   ELSE [s EXCEPT !.own[c].am = QueueReset]

-----------------------------------------------------------------------------
(* The server (external).                                                  *)

Tell(s, who, m) ==
  [s EXCEPT !.down = [c \in Clients |-> IF c \in who THEN Append(@[c], m) ELSE @[c]]]

RoomFrame(op, r) == [op |-> op, host |-> r.host, rows |-> Rows(r)]

Update(s) ==
  Tell(s, Seated(s.room), RoomFrame("lobby_update", s.room))

\* A seat is given up; a room without its host closes.
Vacate(s, c) ==
  LET rest == [s.room EXCEPT !.players = @ \ {c}, !.gallery = @ \ {c},
                             !.ready = @ \ {c}, !.offers = @ \ {c}]
  IN IF c \notin Seated(s.room) THEN s
     ELSE IF c = s.room.host \/ Seated(rest) = {}
       THEN Tell([s EXCEPT !.room = NoRoom], Seated(rest), [op |-> "lobby_closed"])
     ELSE Update([s EXCEPT !.room = rest])

Unready(s) == [s EXCEPT !.room.ready = {}]

\* An error frame; claim: its code is one of automatch's own.
Refused(s, c, claim) == Tell(s, {c}, [op |-> "error", claim |-> claim])

ServeCreate(s, c, m) ==
  IF Seated(s.room) # {} THEN Refused(s, c, c \in Seated(s.room))
  ELSE LET r == [NoRoom EXCEPT !.host = c, !.players = {c},
                               !.offers = IF m.has THEN {c} ELSE {}]
       IN Tell([s EXCEPT !.room = r], {c}, RoomFrame("created", r))

ServeJoin(s, c, m) ==
  LET r == [s.room EXCEPT !.players = @ \cup {c},
                          !.offers = IF m.has THEN @ \cup {c} ELSE @]
      t == [s EXCEPT !.room = r]
  IN IF s.room.host = Nobody \/ c \in Seated(s.room)
       THEN Refused(s, c, FALSE)
     ELSE Tell(Tell(t, {c}, RoomFrame("joined", r)),
               Seated(s.room), RoomFrame("lobby_update", r))

ServeReady(s, c, m) ==
  IF c \notin Seated(s.room) THEN s
  ELSE Update([s EXCEPT
         !.room.ready  = IF m.ready /\ c \in s.room.players
                           THEN @ \cup {c} ELSE @ \ {c},
         !.room.offers = IF m.has THEN @ \cup {c} ELSE @ \ {c}])

ServeMove(s, d) ==
  IF d \notin Seated(s.room) THEN s
  ELSE Update(Unready(IF d \in s.room.players
         THEN [s EXCEPT !.room.players = @ \ {d}, !.room.gallery = @ \cup {d}]
         ELSE [s EXCEPT !.room.gallery = @ \ {d}, !.room.players = @ \cup {d}]))

ServeStart(s, c, hub) ==
  IF Cardinality(s.room.players) < 2 THEN Refused(s, c, FALSE)
  ELSE Update(Tell(Unready(s), Seated(s.room),
         [op |-> "launch", hub |-> hub, rows |-> Rows(Unready(s).room)]))

\* Two waiting tickets are paired with a fresh offer; two acceptances make
\* the server's own room; a refusal ends one ticket and requeues the other.
Others(s, c, was) == {d \in Clients \ {c} : s.tick[d] \in was}

ServeQueue(s, c) ==
  IF s.tick[c] # "none" \/ c \in Seated(s.room) THEN Refused(s, c, TRUE)
  ELSE Tell([s EXCEPT !.tick[c] = "queued"], {c}, [op |-> "automatch_queued"])

EndTicket(s, c) ==
  LET back == IF s.tick[c] \in {"offered", "accepted"}
                THEN Others(s, c, {"offered", "accepted"}) ELSE {}
      t == [s EXCEPT !.tick = [d \in Clients |->
              IF d = c THEN "none" ELSE IF d \in back THEN "queued" ELSE @[d]]]
  IN Tell(t, back, [op |-> "automatch_requeue"])

ServeAccept(s, c, m) ==
  LET t == [s EXCEPT !.tick[c] = "accepted"]
      both == Clients
      r == [NoRoom EXCEPT !.players = both]
  IN IF s.tick[c] # "offered" \/ m.ticket # s.offer THEN s
     ELSE IF ~m.accept
       THEN Tell(EndTicket(s, c), {c}, [op |-> "automatch_accept_ok", accept |-> FALSE])
     ELSE IF Others(s, c, {"accepted"}) = {}
       THEN Tell(t, {c}, [op |-> "automatch_accept_ok", accept |-> TRUE])
     ELSE Tell(Tell([t EXCEPT !.tick = [d \in Clients |-> "none"], !.room = r],
                    {c}, [op |-> "automatch_accept_ok", accept |-> TRUE]),
               both, RoomFrame("joined", r))

Pair ==
  /\ \A c \in Clients : lob.tick[c] = "queued"
  /\ lob.room = NoRoom
  /\ lob' = Tell([lob EXCEPT !.tick = [c \in Clients |-> "offered"],
                             !.offer = @ + 1],
                 Clients, [op |-> "automatch_found", ticket |-> lob.offer + 1])

\* The offer lapses for a player who did not answer.
Lapse(c) ==
  /\ lob.tick[c] = "offered"
  /\ lob' = Tell(EndTicket(lob, c), {c}, [op |-> "automatch_cancelled"])

Serve(c) ==
  /\ lob.up[c] # <<>>
  /\ LET m == Head(lob.up[c])
         s == [lob EXCEPT !.up[c] = Tail(@)]
         hosts == s.room.host = c
     IN \/ m.op = "create" /\ lob' = ServeCreate(s, c, m)
        \/ m.op = "join" /\ lob' = ServeJoin(s, c, m)
        \/ m.op = "leave" /\ lob' = Tell(Vacate(s, c), {c}, [op |-> "left"])
        \/ m.op = "set_ready" /\ lob' = ServeReady(s, c, m)
        \/ /\ m.op = "kick" /\ hosts /\ m.who \in Seated(s.room)
           /\ lob' = Tell(Vacate(Unready(s), m.who), {m.who}, [op |-> "kicked"])
        \/ m.op = "move" /\ hosts /\ lob' = ServeMove(s, m.who)
        \/ m.op = "set_match_caps" /\ hosts /\ lob' = Update(Unready(s))
        \/ m.op = "start" /\ hosts /\ \E hub \in BOOLEAN : lob' = ServeStart(s, c, hub)
        \/ /\ m.op \in {"kick", "move", "set_match_caps", "start"}
           /\ ~hosts \/ (m.op = "kick" /\ m.who \notin Seated(s.room))
           /\ lob' = Refused(s, c, FALSE)
        \/ m.op = "queue" /\ lob' = ServeQueue(s, c)
        \/ m.op = "cancel" /\ lob' = Tell(EndTicket(s, c), {c}, [op |-> "automatch_cancelled"])
        \/ m.op = "accept" /\ lob' = ServeAccept(s, c, m)

-----------------------------------------------------------------------------
(* The client's handler of the next frame (handle_server_json).            *)

Hears(c, op) == lob.down[c] # <<>> /\ Head(lob.down[c]).op = op
Read(c) == [lob EXCEPT !.down[c] = Tail(@)]

\* Seated by the server: the last room's launch and agents go.
Entered(c, host) ==
  LET m == Head(lob.down[c])
  IN Parsed([lob.at[c] EXCEPT !.in = TRUE, !.host = host, !.boss = m.host,
                              !.launch = FALSE, !.bundle = {}], c, m.rows)

OnCreated(c) ==
  /\ Hears(c, "created")
  /\ lob' = SendSetReady([Read(c) EXCEPT !.at[c] = Entered(c, TRUE)], c, TRUE)

\* A ticket that reached a room is spent.
OnJoined(c) ==
  /\ Hears(c, "joined")
  /\ lob' = SendSetReady(
       [Read(c) EXCEPT !.at[c] = Entered(c, FALSE),
          !.own[c].amRoom = lob.own[c].am.state \in {"accepted", "found"},
          !.own[c].am = QueueReset], c, TRUE)

\* Kick, move, caps and start clear ready: arm it again, but never from the
\* gallery and never while there is nothing to boot.
RearmsAnyone(a, own) == a.in /\ ~a.ready

Rearms(a, own) == a.in /\ ~a.ready /\ ~a.spect /\ ~own.blocked

OnLobbyUpdateNoRearm(c) ==
  /\ Hears(c, "lobby_update")
  /\ LET m == Head(lob.down[c]) IN
     lob' = [Read(c) EXCEPT !.at[c] = Parsed([@ EXCEPT !.boss = m.host], c, m.rows)]

OnLobbyUpdate(c) ==
  /\ Hears(c, "lobby_update")
  /\ LET m == Head(lob.down[c])
         a == Parsed([lob.at[c] EXCEPT !.boss = m.host], c, m.rows)
         s == [Read(c) EXCEPT !.at[c] = a]
     IN lob' = IF Rearms(a, lob.own[c]) THEN SendSetReady(s, c, TRUE) ELSE s

\* ice_launch_capture: the host needs an agent for every guest on its
\* roster, a guest the one to the host.
Needed(a, c) ==
  IF a.host THEN {r.id : r \in {x \in a.rows : ~x.spect}} \ {c} ELSE {a.boss}

\* Over the hub a launch is refused unless all of those agents are connected;
\* they go to the bundle.  Out of the room there are no agents.  Any other
\* launch is refused (missing_endpoints) without a host endpoint in it, or
\* without an address of our own to bind.
OnLaunch(c) ==
  /\ Hears(c, "launch")
  /\ LET m == Head(lob.down[c])
         a == Parsed([lob.at[c] EXCEPT !.bundle = {}], c, m.rows)
         need == Needed(a, c)
     IN \E linked \in SUBSET (IF m.hub /\ a.in THEN Clients \ {c} ELSE {}),
           endpoints \in BOOLEAN :
          LET ok == IF m.hub THEN need # {} /\ need \subseteq linked ELSE endpoints
          IN lob' = [Read(c) EXCEPT !.at[c] =
               [a EXCEPT !.launch = ok, !.bundle = IF m.hub /\ ok THEN need ELSE {}]]

\* A bundle nobody took is dropped after 60 s.
BundleExpires(c) ==
  /\ lob.at[c].bundle # {}
  /\ lob' = [lob EXCEPT !.at[c].bundle = {}]

OnRoomOverFlagsOnly(c) ==
  /\ \E op \in {"lobby_closed", "left", "kicked"} : Hears(c, op)
  /\ lob' = [Read(c) EXCEPT !.at[c].in = FALSE, !.at[c].host = FALSE,
                            !.own[c].am = QueueReset, !.own[c].amRoom = FALSE]

OnRoomOver(c) ==
  /\ \E op \in {"lobby_closed", "left", "kicked"} : Hears(c, op)
  /\ lob' = [Read(c) EXCEPT !.at[c] = [Zeroed EXCEPT !.conn = lob.at[c].conn],
                            !.own[c].am = QueueReset, !.own[c].amRoom = FALSE]

OnError(c) ==
  /\ Hears(c, "error")
  /\ lob' = IF /\ Head(lob.down[c]).claim
               /\ \/ lob.own[c].am.flying
                  \/ lob.own[c].am.state \in {"queued", "found", "accepted"}
              THEN [Read(c) EXCEPT !.own[c].am.flying = FALSE,
                                   !.own[c].am.state = "failed"]
              ELSE Read(c)

OnQueued(c) ==
  /\ Hears(c, "automatch_queued")
  /\ lob' = [Read(c) EXCEPT !.own[c].am.state = "queued", !.own[c].am.flying = FALSE]

OnFound(c) ==
  /\ Hears(c, "automatch_found")
  /\ lob' = [Read(c) EXCEPT !.own[c].am.state = "found",
                            !.own[c].am.ticket = Head(lob.down[c]).ticket]

\* The echo says which answer it acknowledges.
OnAcceptOk(c) ==
  /\ Hears(c, "automatch_accept_ok")
  /\ lob' = IF Head(lob.down[c]).accept
              THEN [Read(c) EXCEPT !.own[c].am.state = "accepted"]
              ELSE [Read(c) EXCEPT !.own[c].am = QueueReset]

OnRequeue(c) ==
  /\ Hears(c, "automatch_requeue")
  /\ lob' = [Read(c) EXCEPT !.own[c].am.state = "queued"]

OnCancelled(c) ==
  /\ Hears(c, "automatch_cancelled")
  /\ lob' = [Read(c) EXCEPT !.own[c].am = QueueReset]

\* The socket breaks, or the outbound backlog overflows: the client zeroes
\* its connection, the server forgets the player.
Drop(c) ==
  /\ May(c, "drop") /\ Connected(c)
  /\ LET s == Spent([lob EXCEPT !.at[c] = Zeroed]) IN
     lob' = [EndTicket(Vacate(s, c), c) EXCEPT !.up[c] = <<>>, !.down[c] = <<>>]

LobbyUser(c) ==
  \/ rnet_lobby_connect(c) \/ rnet_lobby_create(c) \/ rnet_lobby_join(c)
  \/ rnet_lobby_leave(c) \/ rnet_lobby_kick(c) \/ rnet_lobby_move(c)
  \/ rnet_lobby_set_match_caps(c) \/ rnet_lobby_set_ready(c)
  \/ rnet_lobby_set_launch_blocked(c) \/ InstallMod(c)
  \/ rnet_lobby_request_start(c) \/ TakeLaunch(c) \/ BundleExpires(c)
  \/ rnet_lobby_automatch_queue(c) \/ rnet_lobby_automatch_cancel(c)
  \/ rnet_lobby_automatch_accept(c) \/ Lapse(c) \/ Drop(c)

LobbyWire(c) ==
  \/ Handshake(c) \/ Serve(c)
  \/ OnCreated(c) \/ OnJoined(c) \/ OnLobbyUpdate(c) \/ OnLaunch(c)
  \/ OnRoomOver(c) \/ OnError(c) \/ OnQueued(c) \/ OnFound(c)
  \/ OnAcceptOk(c) \/ OnRequeue(c) \/ OnCancelled(c)

LobbyNext == Pair \/ \E c \in Clients : LobbyUser(c) \/ LobbyWire(c)

\* Frames on an open connection are eventually read, by both ends.
LobbyFair == \A c \in Clients : WF_lob(LobbyWire(c))

-----------------------------------------------------------------------------
Quiet(c) == lob.at[c].conn = "up" /\ lob.up[c] = <<>> /\ lob.down[c] = <<>>

\* Once nothing is on its way to or from a client, it believes what the
\* server holds: seated or not, hosting or not, player or spectator, the
\* whole roster with every offer; no launch waits for a player who left.
ViewsAgree ==
  \A c \in Clients : Quiet(c) =>
    LET a == lob.at[c] IN
    /\ a.in = (c \in Seated(lob.room))
    /\ a.in => /\ a.host = (lob.room.host = c)
               /\ a.boss = lob.room.host
               /\ a.spect = (c \in lob.room.gallery)
               /\ a.rows = Rows(lob.room)
               /\ lob.own[c].has = (c \in lob.room.offers)
    /\ ~a.in => a.rows = {} /\ ~a.launch /\ a.bundle = {}

\* Ready is armed again after everything that clears it: a seated player
\* who has a game to boot is ready once its frames have settled.
ReadyAgain ==
  \A c \in lob.room.players :
    Quiet(c) /\ ~lob.own[c].blocked => c \in lob.room.ready

\* Ready and roster updates do not chase each other for ever: the frames of
\* a client stop once the users do (the storm behind which a launch was
\* never read).
FramesSettle == []<>(\A c \in Clients : lob.up[c] = <<>> /\ lob.down[c] = <<>>)
=============================================================================
