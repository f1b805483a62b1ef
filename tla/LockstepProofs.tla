--------------------------- MODULE LockstepProofs ---------------------------
(***************************************************************************)
(* Theorems about Lockstep, for any number of seats, any inputs, delays    *)
(* and bounds, and the refinement of SharedLog: what the operators return, *)
(* that every action keeps the types, the inductive invariant with its     *)
(* preservation by every action, and what follows from it.                 *)
(***************************************************************************)
EXTENDS Lockstep, TLAPS

(* First-order steps are left to Zenon; those with arithmetic cite SMT. *)
USE Zenon

-----------------------------------------------------------------------------
(* Arithmetic of the ring: two ticks that share a slot are equal or at     *)
(* least History apart.                                                    *)
LEMMA SlotDistance ==
    ASSUME NEW w \in Nat, NEW x \in Nat, SameSlot(w, x), w < x
    PROVE  x - w >= History
PROOF
  <1>1. History \in Nat /\ History > 0
    BY SMT, DelayAssumption, RingAssumption
  <1> DEFINE q == w \div History  p == x \div History
  <1>2. /\ q \in Nat /\ p \in Nat
        /\ w = (History * q) + (w % History) /\ x = (History * p) + (x % History)
    BY SMT, <1>1
  <1>3. x - w = History * (p - q)
    BY SMT, <1>1, <1>2 DEF SameSlot
  <1>4. p - q >= 1
    BY SMT, <1>1, <1>2, <1>3
  <1> HIDE DEF q, p
  <1> QED
    BY SMT, <1>1, <1>2, <1>3, <1>4

-----------------------------------------------------------------------------
(* Types. *)
LEMMA Constants ==
    /\ MaxTick \in Nat /\ MaxDelay \in Nat /\ MaxDelay >= 1 /\ Delay \in 1 .. MaxDelay
    /\ MinDelay \in 1 .. MaxDelay /\ History \in Nat /\ 2 * (MaxDelay + 1) <= History
    /\ Redundancy \in Nat /\ Slop \in Nat /\ TrailFloor \in Nat /\ Margin \in Nat
    /\ MaxEpoch \in Nat /\ Neutral \in Inputs /\ NoRow \notin Inputs
    /\ Wire \subseteq Nat /\ Epoch \subseteq Nat /\ Inputs \subseteq Row /\ NoRow \in Row
    /\ NoFrame \in Frame /\ NoRows \in [Wire -> Row] /\ Seeded \in [Wire -> Row]
    /\ 0 \in Epoch
PROOF
  <1>1. /\ MaxTick \in Nat /\ MaxDelay \in Nat /\ MaxDelay >= 1 /\ Delay \in 1 .. MaxDelay
        /\ MinDelay \in 1 .. MaxDelay /\ MaxEpoch \in Nat
    BY SMT, DelayAssumption, BoundsAssumption
  <1>2. /\ History \in Nat /\ 2 * (MaxDelay + 1) <= History
        /\ Redundancy \in Nat /\ Slop \in Nat /\ TrailFloor \in Nat /\ Margin \in Nat
    BY RingAssumption
  <1>3. Neutral \in Inputs /\ NoRow \notin Inputs /\ Inputs \subseteq Row /\ NoRow \in Row
    BY RowsAssumption DEF Row
  <1>4. Wire \subseteq Nat /\ Epoch \subseteq Nat /\ 0 \in Epoch
    BY SMT, <1>1 DEF Wire, Epoch
  <1>5. NoFrame \in Frame /\ NoRows \in [Wire -> Row] /\ Seeded \in [Wire -> Row]
    BY <1>3 DEF NoFrame, Frame, NoRows, Seeded
  <1> QED
    BY SMT, <1>1, <1>2, <1>3, <1>4, <1>5

(* The numbers among them. *)
LEMMA Numbers ==
    /\ Wire \subseteq Nat /\ Epoch \subseteq Nat /\ MaxTick \in Nat
    /\ MaxDelay \in Nat /\ History \in Nat /\ 2 * (MaxDelay + 1) <= History
PROOF
  BY Constants

(* Replacing one entry of a table seat -> epoch -> tick keeps its type and *)
(* the other entries.                                                      *)
LEMMA Except3 ==
    ASSUME NEW S, NEW f \in [Seats -> [Epoch -> [Wire -> S]]],
           NEW i \in Seats, NEW e \in Epoch, NEW w \in Wire, NEW v \in S,
           NEW g, g = [f EXCEPT ![i][e][w] = v]
    PROVE  /\ g \in [Seats -> [Epoch -> [Wire -> S]]]
           /\ \A k \in Seats : \A d \in Epoch : \A x \in Wire :
                 g[k][d][x] = IF k = i /\ d = e /\ x = w THEN v ELSE f[k][d][x]
PROOF
  <1>1. g = [f EXCEPT ![i] = [f[i] EXCEPT ![e] = [f[i][e] EXCEPT ![w] = v]]]
    OBVIOUS
  <1>2. [f[i][e] EXCEPT ![w] = v] \in [Wire -> S]
    OBVIOUS
  <1>3. [f[i] EXCEPT ![e] = [f[i][e] EXCEPT ![w] = v]] \in [Epoch -> [Wire -> S]]
    BY <1>2
  <1>4. g \in [Seats -> [Epoch -> [Wire -> S]]]
    BY <1>1, <1>3
  <1>5. ASSUME NEW k \in Seats, NEW d \in Epoch, NEW x \in Wire
        PROVE  g[k][d][x] = IF k = i /\ d = e /\ x = w THEN v ELSE f[k][d][x]
    BY SMT, <1>1, <1>2, <1>3
  <1> QED
    BY <1>4, <1>5

(* A ring with a row put in it is a ring; only the row's slot changes. *)
LEMMA PutType ==
    ASSUME NEW S, NEW f \in [Wire -> S], NEW w \in Wire, NEW v \in S, NEW none \in S
    PROVE  /\ Put(f, w, v, none) \in [Wire -> S]
           /\ \A x \in Wire : Put(f, w, v, none)[x] =
                 IF x = w THEN v ELSE IF SameSlot(x, w) THEN none ELSE f[x]
PROOF
  BY DEF Put

(* The tip sim_tick + delay is a tick of the model. *)
LEMMA TipType ==
    ASSUME TypeOK, NEW i \in Seats
    PROVE  /\ Tip(i) \in Wire /\ Tip(i) = sim_tick[i] + delay[i]
           /\ sim_tick[i] \in Wire /\ sim_tick[i] \in Nat /\ delay[i] \in 0 .. MaxDelay
           /\ epoch[i] \in Epoch
PROOF
  BY SMT, Constants DEF TypeOK, Tip, Wire

(* The clock, the delay and the tip of a seat are numbers. *)
LEMMA Clock ==
    ASSUME TypeOK, NEW i \in Seats
    PROVE  /\ epoch[i] \in Epoch /\ epoch[i] \in Nat
           /\ sim_tick[i] \in Wire /\ sim_tick[i] \in Nat
           /\ delay[i] \in Nat /\ delay[i] <= MaxDelay
           /\ Tip(i) \in Wire /\ Tip(i) \in Nat /\ Tip(i) = sim_tick[i] + delay[i]
PROOF
  <1>1. epoch[i] \in Epoch /\ Tip(i) \in Wire /\ sim_tick[i] \in Wire
    BY TipType
  <1>2. epoch[i] \in Nat /\ Tip(i) \in Nat
    BY <1>1, Numbers
  <1>3. delay[i] \in Nat /\ delay[i] <= MaxDelay
    BY SMT, TipType, Numbers
  <1> QED
    BY <1>1, <1>2, <1>3, TipType

(* The rows of seat i once the tip has been sampled. *)
Rows(i, v) == [ring[i] EXCEPT ![i] = WithSample(i, v)]

(* Sampling the tip keeps the rings of a seat rings, and those of the      *)
(* other seats as they were.                                               *)
LEMMA RowsType ==
    ASSUME TypeOK, NEW i \in Seats, NEW v \in Inputs
    PROVE  /\ WithSample(i, v) \in [Wire -> Row]
           /\ Rows(i, v) \in [Seats -> [Wire -> Row]]
           /\ Rows(i, v)[i] = WithSample(i, v)
           /\ \A j \in Seats \ {i} : Rows(i, v)[j] = ring[i][j]
PROOF
  <1>1. ring[i] \in [Seats -> [Wire -> Row]] /\ ring[i][i] \in [Wire -> Row]
    BY SMT DEF TypeOK
  <1>2. Put(ring[i][i], Tip(i), v, NoRow) \in [Wire -> Row]
    BY <1>1, Constants DEF Put
  <1>3. WithSample(i, v) \in [Wire -> Row]
    BY <1>1, <1>2 DEF WithSample
  <1> QED
    BY <1>1, <1>3 DEF Rows

(* What try_admit resolves lies in the confirm window and is a frame. *)
LEMMA PublishedType ==
    ASSUME TypeOK, NEW i \in Seats, NEW r \in [Seats -> [Wire -> Row]]
    PROVE  /\ Prepared(i, r) \subseteq Wire
           /\ Published(i, r) \in [Wire -> Frame]
           /\ ConfirmWindow(i) \subseteq Wire
PROOF
  <1>1. ConfirmWindow(i) \subseteq Wire
    <2>1. Trail(i) \in Nat
      BY SMT, Constants, TipType DEF Trail, Clamp, Min2, Max2
    <2> QED
      BY SMT, <2>1, Constants, TipType DEF ConfirmWindow, Max2, Wire
  <1>2. Prepared(i, r) \subseteq Wire
    BY <1>1 DEF Prepared
  <1>3. \A w \in Wire : Resolved(r, w) \in Frame
    BY DEF Resolved, Frame
  <1>4. hash[i] \in [Wire -> Frame]
    BY DEF TypeOK
  <1> QED
    BY <1>1, <1>2, <1>3, <1>4, Constants DEF Published

(* send_input_bundle sends INPUT packets of the seat's own rows in its own *)
(* epoch.                                                                  *)
LEMMA BundleType ==
    ASSUME TypeOK, NEW i \in Seats, NEW r \in [Wire -> Row]
    PROVE  /\ send_input_bundle(i, r, delay[i], epoch[i]) \subseteq Packet
           /\ \A m \in send_input_bundle(i, r, delay[i], epoch[i]) :
                 /\ m.op = "INPUT" /\ m.from = i /\ m.epoch = epoch[i]
                 /\ m.wire \in Wire /\ m.row = r[m.wire] /\ m.row # NoRow
PROOF
  <1>1. SUFFICES ASSUME NEW m \in send_input_bundle(i, r, delay[i], epoch[i])
                 PROVE  /\ m \in Packet
                        /\ m.op = "INPUT" /\ m.from = i /\ m.epoch = epoch[i]
                        /\ m.wire \in Wire /\ m.row = r[m.wire] /\ m.row # NoRow
    OBVIOUS
  <1>2. Red(delay[i]) \in Nat /\ Red(delay[i]) >= 1
    BY SMT, Constants, TipType DEF Red, Max2
  <1>3. PICK w \in Max2(Tip(i) + 1 - Red(delay[i]), 0) .. Tip(i) :
            r[w] # NoRow /\ m = [op |-> "INPUT", from |-> i, epoch |-> epoch[i], wire |-> w, row |-> r[w]]
    BY <1>1, TipType DEF send_input_bundle
  <1>4. w \in Wire
    BY SMT, <1>2, <1>3, TipType, Constants DEF Max2, Wire
  <1>5. r[w] \in Inputs
    BY <1>3, <1>4 DEF Row
  <1> QED
    BY <1>3, <1>4, <1>5, TipType DEF Packet

(* The INPUT_CONFIRMs sent carry published frames of the seat's epoch. *)
LEMMA ConfirmsType ==
    ASSUME TypeOK, NEW i \in Seats, NEW r \in [Seats -> [Wire -> Row]], NEW h \in [Wire -> Frame]
    PROVE  /\ Confirms(i, r, h) \subseteq Packet
           /\ \A m \in Confirms(i, r, h) :
                 /\ m.op = "CONFIRM" /\ m.from = i /\ m.epoch = epoch[i]
                 /\ m.wire \in Wire /\ m.frame = h[m.wire] /\ m.frame # NoFrame
PROOF
  <1>1. SUFFICES ASSUME NEW m \in Confirms(i, r, h)
                 PROVE  /\ m \in Packet
                        /\ m.op = "CONFIRM" /\ m.from = i /\ m.epoch = epoch[i]
                        /\ m.wire \in Wire /\ m.frame = h[m.wire] /\ m.frame # NoFrame
    OBVIOUS
  <1>2. PICK w \in ConfirmWindow(i) :
            h[w] # NoFrame /\ m = [op |-> "CONFIRM", from |-> i, epoch |-> epoch[i], wire |-> w, frame |-> h[w]]
    BY <1>1 DEF Confirms
  <1>3. w \in Wire
    BY <1>2, PublishedType
  <1> QED
    BY <1>2, <1>3, TipType DEF Packet

(* The effect of one try_admit. *)
Clash(i, r) == \E w \in Prepared(i, r) : Conflict(i, w, Published(i, r)[w])

Admits(i, r) ==
    /\ Complete(r, sim_tick[i]) /\ ~Clash(i, r)
    /\ wire_confirmations_agree(i, sim_tick[i], Published(i, r)[sim_tick[i]])

(* try_admit, with its local definitions named. *)
LEMMA AdmitEffect ==
    ASSUME NEW i \in Seats, NEW v \in Inputs, try_admit(i, v)
    PROVE  /\ ring' = [ring EXCEPT ![i] = Rows(i, v)]
           /\ sampled' = IF ring[i][i][Tip(i)] # NoRow THEN sampled
                         ELSE [sampled EXCEPT ![i][epoch[i]][Tip(i)] = v]
           /\ hash' = [hash EXCEPT ![i] = Published(i, Rows(i, v))]
           /\ desync' = [desync EXCEPT ![i] = Clash(i, Rows(i, v))]
           /\ admitted' = [admitted EXCEPT ![i] = admitted[i] \/ Admits(i, Rows(i, v))]
           /\ played' = IF Admits(i, Rows(i, v))
                        THEN WithPlayed(i, sim_tick[i], Published(i, Rows(i, v))[sim_tick[i]])
                        ELSE played
           /\ net' = net \cup Confirms(i, Rows(i, v), Published(i, Rows(i, v))) \cup
                     (IF suppress[i] THEN {}
                      ELSE send_input_bundle(i, WithSample(i, v), delay[i], epoch[i]))
           /\ UNCHANGED <<epoch, sim_tick, delay, pending, heard, suppress>>
PROOF
  BY DEF try_admit, Rows, Clash, Admits

(* try_admit keeps the types. *)
LEMMA AdmitType ==
    ASSUME TypeOK, NEW i \in Seats, NEW v \in Inputs, try_admit(i, v)
    PROVE  TypeOK'
PROOF
  <1>1. PICK r \in [Seats -> [Wire -> Row]] : r = Rows(i, v)
    BY RowsType
  <1>2. PICK h \in [Wire -> Frame] : h = Published(i, r)
    BY PublishedType
  <1> DEFINE t == sim_tick[i]
  <1>3. /\ ring' = [ring EXCEPT ![i] = r]
        /\ hash' = [hash EXCEPT ![i] = h]
        /\ desync' = [desync EXCEPT ![i] = Clash(i, r)]
        /\ admitted' = [admitted EXCEPT ![i] = admitted[i] \/ Admits(i, r)]
        /\ played' = IF Admits(i, r) THEN WithPlayed(i, t, h[t]) ELSE played
    BY <1>1, <1>2, AdmitEffect
  <1>4. ring' \in [Seats -> [Seats -> [Wire -> Row]]]
    <2>1. ring \in [Seats -> [Seats -> [Wire -> Row]]]
      BY DEF TypeOK
    <2> QED
      BY <1>3, <2>1
  <1>5. sampled' \in [Seats -> [Epoch -> [Wire -> Row]]]
    <2>1. PICK f \in [Seats -> [Epoch -> [Wire -> Row]]] : f = sampled
      BY DEF TypeOK
    <2>2. PICK e \in Epoch, w \in Wire : e = epoch[i] /\ w = Tip(i)
      BY TipType
    <2>3. PICK g : g = [f EXCEPT ![i][e][w] = v]
      OBVIOUS
    <2>4. sampled' = f \/ sampled' = g
      BY SMT, <2>1, <2>2, <2>3, AdmitEffect
    <2>5. v \in Row
      BY Constants
    <2>6. g \in [Seats -> [Epoch -> [Wire -> Row]]]
      BY SMT, <2>3, <2>5, Except3
    <2> QED
      BY <2>4, <2>6
  <1>6. hash' \in [Seats -> [Wire -> Frame]]
    <2>1. hash \in [Seats -> [Wire -> Frame]]
      BY DEF TypeOK
    <2> QED
      BY <1>3, <2>1
  <1>7. desync' \in [Seats -> BOOLEAN] /\ admitted' \in [Seats -> BOOLEAN]
    <2>1. desync \in [Seats -> BOOLEAN] /\ admitted \in [Seats -> BOOLEAN]
      BY DEF TypeOK
    <2>2. Clash(i, r) \in BOOLEAN /\ Admits(i, r) \in BOOLEAN
      BY DEF Clash, Admits
    <2>3. PICK b \in BOOLEAN, c \in BOOLEAN : b = Clash(i, r) /\ c = Admits(i, r)
      BY <2>2
    <2> QED
      BY <1>3, <2>1, <2>3
  <1>8. played' \in [Seats -> [Epoch -> [Wire -> Frame]]]
    <2>1. PICK f \in [Seats -> [Epoch -> [Wire -> Frame]]] : f = played
      BY DEF TypeOK
    <2>2. PICK e \in Epoch, w \in Wire : e = epoch[i] /\ w = t
      BY TipType
    <2>3. PICK g : g = [f EXCEPT ![i][e][w] = h[w]]
      OBVIOUS
    <2>4. played' = f \/ played' = g
      BY <1>3, <2>1, <2>2, <2>3 DEF WithPlayed
    <2>5. h[w] \in Frame
      OBVIOUS
    <2>6. g \in [Seats -> [Epoch -> [Wire -> Frame]]]
      BY SMT, <2>3, <2>5, Except3
    <2> QED
      BY <2>4, <2>6
  <1>9. (net \subseteq Packet)'
    <2>1. Confirms(i, r, h) \subseteq Packet
      BY ConfirmsType
    <2>2. send_input_bundle(i, WithSample(i, v), delay[i], epoch[i]) \subseteq Packet
      <3>1. PICK q \in [Wire -> Row] : q = WithSample(i, v)
        BY RowsType
      <3> QED
        BY <3>1, BundleType
    <2>3. net' \subseteq net \cup Confirms(i, r, h) \cup
                    send_input_bundle(i, WithSample(i, v), delay[i], epoch[i])
      <3>1. net' = net \cup Confirms(i, Rows(i, v), Published(i, Rows(i, v))) \cup
                   (IF suppress[i] THEN {}
                    ELSE send_input_bundle(i, WithSample(i, v), delay[i], epoch[i]))
        BY AdmitEffect
      <3> QED
        BY <1>1, <1>2, <3>1
    <2>4. net \subseteq Packet /\ Packet' = Packet
      BY DEF TypeOK, Packet
    <2> QED
      BY <2>1, <2>2, <2>3, <2>4
  <1> QED
    BY <1>4, <1>5, <1>6, <1>7, <1>8, <1>9, AdmitEffect DEF TypeOK

(* A pending delay is sent as a well-formed DELAY_SYNC. *)
LEMMA DelaySyncType ==
    ASSUME NEW i \in Seats, NEW p \in [value : 0 .. MaxDelay, effective : Nat]
    PROVE  DelaySync(i, p) \subseteq Packet
PROOF
  BY SMT DEF DelaySync, Packet

(* advance keeps the types, the delay it applies included. *)
LEMMA AdvanceType ==
    ASSUME TypeOK, NEW i \in Seats, advance(i)
    PROVE  TypeOK'
PROOF
  <1>1. sim_tick' \in [Seats -> 0 .. MaxTick]
    <2>1. sim_tick \in [Seats -> 0 .. MaxTick]
      BY DEF TypeOK
    <2>2. sim_tick[i] < MaxTick /\ sim_tick' = [sim_tick EXCEPT ![i] = sim_tick[i] + 1]
      BY DEF advance
    <2> QED
      BY SMT, <2>1, <2>2, Constants
  <1>2. admitted' \in [Seats -> BOOLEAN]
    <2>1. admitted \in [Seats -> BOOLEAN] /\ admitted' = [admitted EXCEPT ![i] = FALSE]
      BY DEF TypeOK, advance
    <2> QED
      BY <2>1
  <1>3. /\ delay' \in [Seats -> 0 .. MaxDelay]
        /\ pending' \in [Seats -> [value : 0 .. MaxDelay, effective : Nat]]
    <2>1. /\ delay \in [Seats -> 0 .. MaxDelay]
          /\ pending \in [Seats -> [value : 0 .. MaxDelay, effective : Nat]]
      BY DEF TypeOK
    <2>2. \/ delay' = delay /\ pending' = pending
          \/ /\ delay' = [delay EXCEPT ![i] = pending[i].value]
             /\ pending' = [pending EXCEPT ![i] = NoDelay]
      BY DEF advance
    <2>3. pending[i].value \in 0 .. MaxDelay
      BY <2>1
    <2>4. NoDelay \in [value : 0 .. MaxDelay, effective : Nat]
      BY SMT, Constants DEF NoDelay
    <2> QED
      BY <2>1, <2>2, <2>3, <2>4
  <1> QED
    BY <1>1, <1>2, <1>3 DEF TypeOK, advance, Packet

(* pump keeps the types. *)
LEMMA PumpType ==
    ASSUME TypeOK, NEW i \in Seats, pump(i)
    PROVE  TypeOK'
PROOF
  <1>1. send_input_bundle(i, ring[i][i], delay[i], epoch[i]) \subseteq Packet
    <2>1. PICK r \in [Wire -> Row] : r = ring[i][i]
      BY SMT DEF TypeOK
    <2> QED
      BY <2>1, BundleType
  <1>2. DelaySync(i, pending[i]) \subseteq Packet
    <2>1. PICK p \in [value : 0 .. MaxDelay, effective : Nat] : p = pending[i]
      BY DEF TypeOK
    <2> QED
      BY <2>1, DelaySyncType
  <1>3. net' \subseteq Packet
    BY <1>1, <1>2 DEF pump, TypeOK
  <1> QED
    BY <1>3 DEF pump, sessions, TypeOK, Packet

(* A delay in use, and one asked for, is at least one frame. *)
DelaysSane ==
    \A i \in Seats :
        /\ delay[i] >= 1
        /\ pending[i] # NoDelay => pending[i].value >= 1 /\ pending[i].effective >= 1

(* request_delay_change keeps the types: it asks for a delay of one frame  *)
(* to MaxDelay and announces it.                                           *)
LEMMA RequestType ==
    ASSUME TypeOK, DelaysSane, NEW i \in Seats, NEW d \in NewDelays, request_delay_change(i, d)
    PROVE  /\ TypeOK'
           /\ pending'[i].value >= 1 /\ pending'[i].effective >= 1
           /\ \A j \in Seats \ {i} : pending'[j] = pending[j]
           /\ net' = net \cup DelaySync(i, pending'[i])
PROOF
  <1> DEFINE clamped == Clamp(d, MinDelay, MaxDelay)
             asked == [value |-> clamped, effective |-> sim_tick[i] + 2 * delay[i] + Margin]
  <1>1. d \in Nat
    BY DelayAssumption
  <1>2. clamped \in 1 .. MaxDelay
    BY SMT, <1>1, Constants DEF Clamp, Min2, Max2
  <1>3. sim_tick[i] + 2 * delay[i] + Margin \in Nat
    BY SMT, TipType, Constants
  <1>4. asked \in [value : 0 .. MaxDelay, effective : Nat]
    BY SMT, <1>2, <1>3
  <1> HIDE DEF clamped
  <1>5. /\ \/ pending' = [pending EXCEPT ![i] = asked]
           \/ pending' = pending /\ pending[i].effective > sim_tick[i]
        /\ net' = net \cup DelaySync(i, pending'[i])
    BY DEF request_delay_change, clamped
  <1>6. /\ pending' \in [Seats -> [value : 0 .. MaxDelay, effective : Nat]]
        /\ \A j \in Seats \ {i} : pending'[j] = pending[j]
        /\ pending' = pending \/ pending'[i] = asked
    <2>1. pending \in [Seats -> [value : 0 .. MaxDelay, effective : Nat]]
      BY DEF TypeOK
    <2> QED
      BY <1>4, <1>5, <2>1
  <1>7. net' \subseteq Packet
    <2>1. PICK p \in [value : 0 .. MaxDelay, effective : Nat] : p = pending'[i]
      BY <1>6
    <2> QED
      BY <1>5, <2>1, DelaySyncType DEF TypeOK
  <1>8. TypeOK'
    BY <1>6, <1>7 DEF TypeOK, request_delay_change, Packet
  <1>9. pending'[i].value >= 1 /\ pending'[i].effective >= 1
    <2>1. CASE pending'[i] = asked
      <3>1. pending'[i].value = clamped
        BY SMT, <2>1
      <3>2. pending'[i].effective = sim_tick[i] + 2 * delay[i] + Margin
        BY SMT, <2>1
      <3>3. delay[i] >= 1
        BY DEF DelaysSane
      <3> QED
        BY SMT, <1>2, <3>1, <3>2, <3>3, TipType, Constants
    <2>2. CASE pending' = pending /\ pending[i].effective > sim_tick[i]
      <3>1. pending[i] # NoDelay
        BY SMT, <2>2, TipType DEF NoDelay
      <3> QED
        BY <2>2, <3>1 DEF DelaysSane
    <2>3. pending'[i] = asked \/ (pending' = pending /\ pending[i].effective > sim_tick[i])
      <3>1. pending \in [Seats -> [value : 0 .. MaxDelay, effective : Nat]]
        BY DEF TypeOK
      <3> QED
        BY <1>5, <3>1
    <2> QED
      BY <2>1, <2>2, <2>3
  <1> QED
    BY <1>5, <1>6, <1>8, <1>9

(* handle_decoded keeps the types. *)
LEMMA HandleType ==
    ASSUME TypeOK, NEW i \in Seats, NEW m \in net, handle_decoded(i, m)
    PROVE  TypeOK'
PROOF
  <1>1. m \in Packet
    BY DEF TypeOK
  <1>2. CASE OnInput(i, m)
    <2>1. m.from \in Seats /\ m.wire \in Wire /\ m.row \in Row
      BY <1>1, <1>2, Constants DEF Packet, OnInput
    <2>2. ring \in [Seats -> [Seats -> [Wire -> Row]]]
      BY DEF TypeOK
    <2>3. PICK q \in [Wire -> Row] : q = Put(ring[i][m.from], m.wire, m.row, NoRow)
      <3>1. PICK f \in [Wire -> Row] : f = ring[i][m.from]
        BY <2>1, <2>2
      <3>2. Put(f, m.wire, m.row, NoRow) \in [Wire -> Row]
        BY <2>1, Constants, PutType
      <3> QED
        BY <3>1, <3>2
    <2>4. ring' = [ring EXCEPT ![i][m.from] = q]
      BY <1>2, <2>3 DEF OnInput
    <2>5. ring' \in [Seats -> [Seats -> [Wire -> Row]]]
      BY <2>1, <2>2, <2>3, <2>4
    <2> QED
      BY <1>2, <2>5 DEF OnInput, handle_decoded, TypeOK, Packet
  <1>3. CASE OnConfirm(i, m)
    <2>1. m.from \in Seats /\ m.wire \in Wire /\ m.frame \in Frame
      BY <1>1, <1>3 DEF Packet, OnConfirm
    <2>2. heard \in [Seats -> [Seats -> [Wire -> Frame]]]
      BY DEF TypeOK
    <2>3. PICK q \in [Wire -> Frame] : q = Put(heard[i][m.from], m.wire, m.frame, NoFrame)
      <3>1. PICK f \in [Wire -> Frame] : f = heard[i][m.from]
        BY <2>1, <2>2
      <3>2. Put(f, m.wire, m.frame, NoFrame) \in [Wire -> Frame]
        BY <2>1, Constants, PutType
      <3> QED
        BY <3>1, <3>2
    <2>4. heard' = [heard EXCEPT ![i][m.from] = q]
      BY <1>3, <2>3 DEF OnConfirm
    <2>5. heard' \in [Seats -> [Seats -> [Wire -> Frame]]]
      BY <2>1, <2>2, <2>3, <2>4
    <2>6. desync' \in [Seats -> BOOLEAN]
      <3>1. desync \in [Seats -> BOOLEAN]
        BY DEF TypeOK
      <3>2. PICK b \in BOOLEAN : b = (desync[i] \/ hash[i][m.wire] \notin {NoFrame, m.frame})
        OBVIOUS
      <3>3. desync' = [desync EXCEPT ![i] = b]
        BY <1>3, <3>2 DEF OnConfirm
      <3> QED
        BY <3>1, <3>3
    <2> QED
      BY <1>3, <2>5, <2>6 DEF OnConfirm, handle_decoded, TypeOK, Packet
  <1>4. CASE OnDelaySync(i, m)
    <2>1. m.value \in 0 .. MaxDelay /\ m.effective \in Nat
      BY <1>1, <1>4 DEF Packet, OnDelaySync
    <2>2. /\ delay \in [Seats -> 0 .. MaxDelay]
          /\ pending \in [Seats -> [value : 0 .. MaxDelay, effective : Nat]]
      BY DEF TypeOK
    <2>3. PICK p \in [value : 0 .. MaxDelay, effective : Nat] :
              p = [value |-> m.value, effective |-> m.effective]
      BY <2>1
    <2>4. NoDelay \in [value : 0 .. MaxDelay, effective : Nat]
      BY SMT, Constants DEF NoDelay
    <2>5. \/ /\ delay' = [delay EXCEPT ![i] = m.value]
             /\ pending' = [pending EXCEPT ![i] = NoDelay]
          \/ delay' = delay /\ pending' = [pending EXCEPT ![i] = p]
      BY <1>4, <2>3 DEF OnDelaySync
    <2>6. /\ delay' \in [Seats -> 0 .. MaxDelay]
          /\ pending' \in [Seats -> [value : 0 .. MaxDelay, effective : Nat]]
      BY <2>1, <2>2, <2>4, <2>5
    <2> QED
      BY <1>4, <2>6 DEF OnDelaySync, handle_decoded, TypeOK, Packet
  <1> QED
    BY <1>2, <1>3, <1>4 DEF handle_decoded

(* hard_resync keeps the types. *)
LEMMA ResyncType ==
    ASSUME TypeOK, NEW i \in Seats, hard_resync(i)
    PROVE  TypeOK'
PROOF
  <1> USE DEF hard_resync
  <1>1. epoch' \in [Seats -> Epoch]
    <2>1. epoch \in [Seats -> Epoch]
      BY DEF TypeOK
    <2> QED
      BY SMT, <2>1, Constants DEF Epoch
  <1>2. sim_tick' \in [Seats -> 0 .. MaxTick]
    <2>1. sim_tick \in [Seats -> 0 .. MaxTick]
      BY DEF TypeOK
    <2> QED
      BY SMT, <2>1, Constants
  <1>3. pending' \in [Seats -> [value : 0 .. MaxDelay, effective : Nat]]
    <2>1. pending \in [Seats -> [value : 0 .. MaxDelay, effective : Nat]]
      BY DEF TypeOK
    <2>2. NoDelay \in [value : 0 .. MaxDelay, effective : Nat]
      BY SMT, Constants DEF NoDelay
    <2> QED
      BY <2>1, <2>2
  <1>4. ring' \in [Seats -> [Seats -> [Wire -> Row]]]
    <2>1. ring \in [Seats -> [Seats -> [Wire -> Row]]]
      BY DEF TypeOK
    <2>2. [j \in Seats |-> NoRows] \in [Seats -> [Wire -> Row]]
      BY Constants
    <2> QED
      BY <2>1, <2>2
  <1>5. hash' \in [Seats -> [Wire -> Frame]]
    <2>1. hash \in [Seats -> [Wire -> Frame]]
      BY DEF TypeOK
    <2>2. [w \in Wire |-> NoFrame] \in [Wire -> Frame]
      BY Constants
    <2> QED
      BY <2>1, <2>2
  <1>6. heard' \in [Seats -> [Seats -> [Wire -> Frame]]]
    <2>1. heard \in [Seats -> [Seats -> [Wire -> Frame]]]
      BY DEF TypeOK
    <2>2. [j \in Seats |-> [w \in Wire |-> NoFrame]] \in [Seats -> [Wire -> Frame]]
      BY Constants
    <2> QED
      BY <2>1, <2>2
  <1>7. /\ desync' \in [Seats -> BOOLEAN] /\ suppress' \in [Seats -> BOOLEAN]
        /\ admitted' \in [Seats -> BOOLEAN]
    <2>1. /\ desync \in [Seats -> BOOLEAN] /\ suppress \in [Seats -> BOOLEAN]
          /\ admitted \in [Seats -> BOOLEAN]
      BY DEF TypeOK
    <2> QED
      BY <2>1
  <1> QED
    BY <1>1, <1>2, <1>3, <1>4, <1>5, <1>6, <1>7 DEF TypeOK, Packet

(* prime_delay_inputs keeps the types. *)
LEMMA PrimeType ==
    ASSUME TypeOK, NEW i \in Seats, NEW v \in Inputs, prime_delay_inputs(i, v)
    PROVE  TypeOK'
PROOF
  <1>1. PICK q \in [Wire -> Row] : q = Primed(ring[i][i], i, v)
    <2>1. ring[i][i] \in [Wire -> Row]
      BY SMT DEF TypeOK
    <2> QED
      BY <2>1, Constants DEF Primed
  <1>2. PICK g \in [Wire -> Row] : g = Primed(sampled[i][epoch[i]], i, v)
    <2>1. sampled[i][epoch[i]] \in [Wire -> Row]
      BY SMT, TipType DEF TypeOK
    <2> QED
      BY <2>1, Constants DEF Primed
  <1>3. ring' \in [Seats -> [Seats -> [Wire -> Row]]]
    <2>1. ring \in [Seats -> [Seats -> [Wire -> Row]]] /\ ring' = [ring EXCEPT ![i][i] = q]
      BY <1>1 DEF TypeOK, prime_delay_inputs
    <2> QED
      BY <2>1
  <1>4. sampled' \in [Seats -> [Epoch -> [Wire -> Row]]]
    <2>1. /\ sampled \in [Seats -> [Epoch -> [Wire -> Row]]]
          /\ sampled' = [sampled EXCEPT ![i][epoch[i]] = g]
      BY <1>2 DEF TypeOK, prime_delay_inputs
    <2> QED
      BY <2>1, TipType
  <1>5. suppress' \in [Seats -> BOOLEAN]
    <2>1. suppress \in [Seats -> BOOLEAN] /\ suppress' = [suppress EXCEPT ![i] = FALSE]
      BY DEF TypeOK, prime_delay_inputs
    <2> QED
      BY <2>1
  <1>6. net' \subseteq Packet
    <2>1. net' = net \cup send_input_bundle(i, q, delay[i], epoch[i]) /\ net \subseteq Packet
      BY <1>1 DEF TypeOK, prime_delay_inputs
    <2> QED
      BY <2>1, BundleType
  <1> QED
    BY <1>3, <1>4, <1>5, <1>6 DEF TypeOK, prime_delay_inputs, Packet


-----------------------------------------------------------------------------
(* The inductive invariant.  sampled is the truth: every copy of a row,    *)
(* and every frame made of rows, agrees with it.                           *)

(* Every seat has made its row of tick w of epoch e. *)
Whole(e, w) == \A k \in Seats : sampled[k][e][w] # NoRow

(* Seat j, if in epoch e, has played w or has it resolved. *)
Holds(j, e, w) == epoch[j] = e => w < sim_tick[j] \/ hash[j][w] = Truth(e, w)

(* A frame of tick w of epoch e that is what the seats made. *)
Vouched(f, e, w) == f = Truth(e, w) /\ Whole(e, w)

(* Rows in the rings are the rows their seats made in the ring's epoch. *)
RowOK(i, j, w) == ring[i][j][w] # NoRow => ring[i][j][w] = sampled[j][epoch[i]][w]
RowsHonest == \A i, j \in Seats : \A w \in Wire : RowOK(i, j, w)

(* A seat makes no rows of later epochs and none beyond its reach, and     *)
(* keeps the rows it still has to play.                                    *)
KeptOK(i, e, w) ==
    sampled[i][e][w] # NoRow =>
        /\ e <= epoch[i]
        /\ e = epoch[i] => /\ w <= sim_tick[i] + MaxDelay
                           /\ sim_tick[i] <= w => ring[i][i][w] # NoRow
RowsKept == \A i \in Seats : \A e \in Epoch : \A w \in Wire : KeptOK(i, e, w)

(* Frames that were resolved, confirmed or played are vouched for, and     *)
(* what a seat has confirmed it still holds.                               *)
HashOK(i, w) == hash[i][w] # NoFrame => Vouched(hash[i][w], epoch[i], w)
HashHonest == \A i \in Seats : \A w \in Wire : HashOK(i, w)

HeardOK(i, j, w) ==
    heard[i][j][w] # NoFrame => Vouched(heard[i][j][w], epoch[i], w) /\ Holds(j, epoch[i], w)
HeardHonest == \A i, j \in Seats : \A w \in Wire : HeardOK(i, j, w)

MessageOK(m) ==
    /\ m.op = "INPUT" => m.row = sampled[m.from][m.epoch][m.wire]
    /\ m.op = "CONFIRM" => /\ m.frame # NoFrame /\ Vouched(m.frame, m.epoch, m.wire)
                           /\ Holds(m.from, m.epoch, m.wire)
    /\ m.op = "DELAY" => m.value >= 1 /\ m.effective >= 1
NetHonest == \A m \in net : MessageOK(m)

PlayedOK(i, e, t) ==
    played[i][e][t] # NoFrame =>
        Vouched(played[i][e][t], e, t) /\ \A j \in Seats : Holds(j, e, t)
PlayedHonest == \A i \in Seats : \A e \in Epoch : \A t \in Wire : PlayedOK(i, e, t)

(* The frames of the current epoch played so far are those before          *)
(* sim_tick, and the admitted one.                                         *)
OrderOK(i, t) ==
    played[i][epoch[i]][t] # NoFrame <=> t < sim_tick[i] \/ (t = sim_tick[i] /\ admitted[i])
PlayedInOrder == \A i \in Seats : \A t \in Wire : OrderOK(i, t)

PlayedInEpoch ==
    \A i \in Seats : \A e \in Epoch : \A t \in Wire :
        played[i][e][t] # NoFrame => e <= epoch[i]

(* Between hard_resync and prime_delay_inputs a seat has made at most the  *)
(* row at the tip, so priming replaces no row.                             *)
SuppressedAtZero ==
    \A i \in Seats : suppress[i] =>
        /\ sim_tick[i] = 0
        /\ \A w \in Wire : sampled[i][epoch[i]][w] # NoRow => w = delay[i]

IInv ==
    /\ TypeOK /\ RowsHonest /\ RowsKept /\ HashHonest /\ HeardHonest /\ NetHonest
    /\ PlayedHonest /\ PlayedInOrder /\ PlayedInEpoch /\ NoFalseDesync
    /\ DelaysSane /\ SuppressedAtZero

-----------------------------------------------------------------------------
(* What every step does to the truth and to what a seat holds of it: rows  *)
(* are made once, an epoch only gives way to the next, and within an epoch *)
(* the clock goes forward and the hashes still to be played stay.          *)
Grows ==
    /\ \A k \in Seats : \A e \in Epoch : \A w \in Wire :
          sampled[k][e][w] # NoRow => sampled'[k][e][w] = sampled[k][e][w]
    /\ \A k \in Seats :
          \/ epoch'[k] = epoch[k] + 1
          \/ /\ epoch'[k] = epoch[k] /\ sim_tick[k] <= sim_tick'[k]
             /\ \A w \in Wire : sim_tick'[k] <= w /\ hash[k][w] # NoFrame
                                   => hash'[k][w] = hash[k][w]

(* Then a whole frame stays what it is, and stays held by whoever held it. *)
LEMMA Persist ==
    ASSUME TypeOK, TypeOK', RowsKept, Grows, NEW e \in Epoch, NEW w \in Wire, Whole(e, w)
    PROVE  /\ Whole(e, w)' /\ Truth(e, w)' = Truth(e, w)
           /\ \A j \in Seats : Truth(e, w) # NoFrame /\ (Holds(j, e, w) => Holds(j, e, w)')
PROOF
  <1>1. \A k \in Seats : sampled[k][e][w] # NoRow /\ sampled'[k][e][w] = sampled[k][e][w]
    BY DEF Whole, Grows
  <1>2. Whole(e, w)' /\ Truth(e, w)' = Truth(e, w)
    BY <1>1 DEF Whole, Truth
  <1>3. ASSUME NEW j \in Seats
        PROVE  Truth(e, w) # NoFrame
    <2>1. Truth(e, w)[j] # NoFrame[j]
      BY <1>1 DEF Truth, NoFrame
    <2> QED
      BY <2>1
  <1>4. ASSUME NEW j \in Seats, Holds(j, e, w), epoch'[j] = e
        PROVE  w < sim_tick'[j] \/ hash'[j][w] = Truth(e, w)
    <2>1. KeptOK(j, e, w)
      BY DEF RowsKept
    <2>2. e <= epoch[j]
      BY <1>1, <2>1 DEF KeptOK
    <2>3. epoch[j] \in Nat /\ sim_tick[j] \in Nat /\ sim_tick'[j] \in Nat /\ w \in Nat
      <3>1. epoch \in [Seats -> Epoch] /\ sim_tick \in [Seats -> 0 .. MaxTick]
        BY DEF TypeOK
      <3>2. sim_tick' \in [Seats -> 0 .. MaxTick]
        BY DEF TypeOK
      <3>3. epoch[j] \in Nat /\ w \in Nat
        BY <3>1, Numbers
      <3>4. sim_tick[j] \in Nat /\ sim_tick'[j] \in Nat
        BY SMT, <3>1, <3>2, Numbers
      <3> QED
        BY <3>3, <3>4
    <2>4. /\ epoch'[j] = epoch[j] /\ sim_tick[j] <= sim_tick'[j]
          /\ sim_tick'[j] <= w /\ hash[j][w] # NoFrame => hash'[j][w] = hash[j][w]
      BY SMT, <1>4, <2>2, <2>3 DEF Grows
    <2>5. w < sim_tick[j] \/ hash[j][w] = Truth(e, w)
      BY <1>4, <2>4 DEF Holds
    <2> QED
      BY SMT, <1>3, <2>3, <2>4, <2>5
  <1> QED
    BY <1>2, <1>3, <1>4 DEF Holds

(* A step that leaves the truth, the clocks and the hashes alone. *)
LEMMA Still ==
    ASSUME TypeOK, UNCHANGED <<epoch, sim_tick, hash, sampled>>
    PROVE  Grows
PROOF
  <1>1. \A k \in Seats : sim_tick[k] \in Nat
    BY Clock
  <1>2. \A k \in Seats : sim_tick[k] <= sim_tick[k]
    BY SMT, <1>1
  <1> QED
    BY <1>2 DEF Grows

(* So an entry that a step leaves alone, or empties, stays honest. *)
LEMMA Kept ==
    ASSUME IInv, TypeOK', Grows
    PROVE  /\ \A i, j \in Seats : \A w \in Wire :
                 /\ epoch'[i] = epoch[i] /\ ring'[i][j][w] \in {ring[i][j][w], NoRow}
                       => RowOK(i, j, w)'
                 /\ epoch'[i] = epoch[i] /\ heard'[i][j][w] \in {heard[i][j][w], NoFrame}
                       => HeardOK(i, j, w)'
           /\ \A i \in Seats : \A w \in Wire :
                 epoch'[i] = epoch[i] /\ hash'[i][w] \in {hash[i][w], NoFrame} => HashOK(i, w)'
           /\ \A i \in Seats : \A e \in Epoch : \A t \in Wire :
                 played'[i][e][t] = played[i][e][t] => PlayedOK(i, e, t)'
           /\ \A m \in net : MessageOK(m)'
PROOF
  <1>1. TypeOK /\ RowsKept
    BY DEF IInv
  <1>2. \A k \in Seats : epoch[k] \in Epoch
    BY DEF IInv, TypeOK
  <1>3. ASSUME NEW i \in Seats, NEW j \in Seats, NEW w \in Wire, epoch'[i] = epoch[i],
               ring'[i][j][w] \in {ring[i][j][w], NoRow}
        PROVE  RowOK(i, j, w)'
    <2>1. RowOK(i, j, w)
      BY DEF IInv, RowsHonest
    <2> QED
      BY SMT, <1>2, <1>3, <2>1 DEF RowOK, Grows
  <1>4. ASSUME NEW i \in Seats, NEW j \in Seats, NEW w \in Wire, epoch'[i] = epoch[i],
               heard'[i][j][w] \in {heard[i][j][w], NoFrame}
        PROVE  HeardOK(i, j, w)'
    <2>1. PICK e \in Epoch : e = epoch[i]
      BY <1>2
    <2>2. heard'[i][j][w] # NoFrame => heard[i][j][w] = Truth(e, w) /\ Whole(e, w) /\ Holds(j, e, w)
      BY <1>4, <2>1 DEF IInv, HeardHonest, HeardOK, Vouched
    <2> QED
      BY <1>1, <1>4, <2>1, <2>2, Persist DEF HeardOK, Vouched
  <1>5. ASSUME NEW i \in Seats, NEW w \in Wire, epoch'[i] = epoch[i],
               hash'[i][w] \in {hash[i][w], NoFrame}
        PROVE  HashOK(i, w)'
    <2>1. PICK e \in Epoch : e = epoch[i]
      BY <1>2
    <2>2. hash'[i][w] # NoFrame => hash[i][w] = Truth(e, w) /\ Whole(e, w)
      BY <1>5, <2>1 DEF IInv, HashHonest, HashOK, Vouched
    <2> QED
      BY <1>1, <1>5, <2>1, <2>2, Persist DEF HashOK, Vouched
  <1>6. ASSUME NEW i \in Seats, NEW e \in Epoch, NEW t \in Wire, played'[i][e][t] = played[i][e][t]
        PROVE  PlayedOK(i, e, t)'
    <2>1. played'[i][e][t] # NoFrame =>
             played[i][e][t] = Truth(e, t) /\ Whole(e, t) /\ \A j \in Seats : Holds(j, e, t)
      BY <1>6 DEF IInv, PlayedHonest, PlayedOK, Vouched
    <2> QED
      BY <1>1, <1>6, <2>1, Persist DEF PlayedOK, Vouched
  <1>7. ASSUME NEW m \in net
        PROVE  MessageOK(m)'
    <2>1. MessageOK(m) /\ m \in Packet
      BY DEF IInv, NetHonest, TypeOK
    <2>2. CASE m.op = "INPUT"
      <3>1. m.from \in Seats /\ m.epoch \in Epoch /\ m.wire \in Wire /\ m.row # NoRow
        BY <2>1, <2>2, Constants DEF Packet
      <3> QED
        BY <2>1, <2>2, <3>1 DEF MessageOK, Grows
    <2>3. CASE m.op = "CONFIRM"
      <3>1. m.from \in Seats /\ m.epoch \in Epoch /\ m.wire \in Wire
        BY <2>1, <2>3 DEF Packet
      <3>2. /\ m.frame # NoFrame /\ m.frame = Truth(m.epoch, m.wire)
            /\ Whole(m.epoch, m.wire) /\ Holds(m.from, m.epoch, m.wire)
        BY <2>1, <2>3 DEF MessageOK, Vouched
      <3> QED
        BY <1>1, <2>3, <3>1, <3>2, Persist DEF MessageOK, Vouched
    <2> QED
      BY <2>1, <2>2, <2>3 DEF MessageOK
  <1> QED
    BY <1>3, <1>4, <1>5, <1>6, <1>7
-----------------------------------------------------------------------------
(* Each action preserves the invariant. *)

(* Steps that touch neither the sessions nor the truth, only the network. *)
LEMMA SendInv ==
    ASSUME IInv, TypeOK', UNCHANGED <<epoch, sim_tick, delay, ring, hash, heard, desync, suppress,
                                      admitted, sampled, played>>,
           DelaysSane', \A m \in net' \ net : MessageOK(m)'
    PROVE  IInv' /\ Grows
PROOF
  <1>1. Grows
    BY SMT DEF Grows, IInv, TypeOK
  <1>2. /\ RowsHonest' /\ HashHonest' /\ HeardHonest' /\ PlayedHonest' /\ NetHonest'
    BY <1>1, Kept DEF RowsHonest, HashHonest, HeardHonest, PlayedHonest, NetHonest
  <1>3. RowsKept'
    BY DEF IInv, RowsKept, KeptOK
  <1>4. PlayedInOrder' /\ PlayedInEpoch'
    BY DEF IInv, PlayedInOrder, OrderOK, PlayedInEpoch
  <1>5. NoFalseDesync' /\ SuppressedAtZero'
    BY DEF IInv, NoFalseDesync, SuppressedAtZero
  <1> QED
    BY <1>1, <1>2, <1>3, <1>4, <1>5 DEF IInv

(* pump only repeats rows and a pending delay. *)
LEMMA PumpInv ==
    ASSUME IInv, NEW i \in Seats, pump(i)
    PROVE  IInv' /\ Grows
PROOF
  <1>1. TypeOK /\ TypeOK'
    BY PumpType DEF IInv
  <1>2. PICK q \in [Wire -> Row] : q = ring[i][i]
    BY SMT, <1>1 DEF TypeOK
  <1>3. ASSUME NEW m \in send_input_bundle(i, q, delay[i], epoch[i])
        PROVE  MessageOK(m)'
    <2>1. /\ m.op = "INPUT" /\ m.from = i /\ m.epoch = epoch[i]
          /\ m.wire \in Wire /\ m.row = q[m.wire] /\ m.row # NoRow
      BY SMT, <1>1, BundleType
    <2>2. RowOK(i, i, m.wire)
      BY <2>1 DEF IInv, RowsHonest
    <2>3. m.row = sampled[i][epoch[i]][m.wire]
      BY <1>2, <2>1, <2>2 DEF RowOK
    <2> QED
      BY <2>1, <2>3 DEF MessageOK, pump
  <1>4. ASSUME NEW m \in DelaySync(i, pending[i]), pending[i] # NoDelay
        PROVE  MessageOK(m)'
    <2>1. pending[i].value >= 1 /\ pending[i].effective >= 1
      BY <1>4 DEF IInv, DelaysSane
    <2>2. m.op = "DELAY" /\ m.value = pending[i].value /\ m.effective = pending[i].effective
      BY SMT, <1>4 DEF DelaySync
    <2> QED
      BY <2>1, <2>2 DEF MessageOK
  <1>5. \A m \in net' \ net : MessageOK(m)'
    BY <1>2, <1>3, <1>4 DEF pump
  <1>6. DelaysSane'
    BY DEF pump, sessions, IInv, DelaysSane
  <1> QED
    BY <1>1, <1>5, <1>6, SendInv DEF pump, sessions

(* request_delay_change announces a delay of at least one frame. *)
LEMMA RequestInv ==
    ASSUME IInv, NEW i \in Seats, NEW d \in NewDelays, request_delay_change(i, d)
    PROVE  IInv' /\ Grows
PROOF
  <1>1. /\ TypeOK'
        /\ pending'[i].value >= 1 /\ pending'[i].effective >= 1
        /\ \A j \in Seats \ {i} : pending'[j] = pending[j]
        /\ net' = net \cup DelaySync(i, pending'[i])
    BY RequestType DEF IInv
  <1>2. DelaysSane'
    BY <1>1 DEF IInv, DelaysSane, request_delay_change
  <1>3. ASSUME NEW m \in DelaySync(i, pending'[i])
        PROVE  MessageOK(m)'
    <2>1. m.op = "DELAY" /\ m.value = pending'[i].value /\ m.effective = pending'[i].effective
      BY SMT, <1>3 DEF DelaySync
    <2> QED
      BY <1>1, <2>1 DEF MessageOK
  <1> QED
    BY <1>1, <1>2, <1>3, SendInv DEF request_delay_change

(* Loss takes packets away and nothing else. *)
LEMMA LoseInv ==
    ASSUME IInv, NEW i \in Seats, Lose(i)
    PROVE  IInv' /\ Grows
PROOF
  <1>1. TypeOK'
    BY DEF Lose, sessions, IInv, TypeOK, Packet
  <1>2. DelaysSane'
    BY DEF Lose, sessions, IInv, DelaysSane
  <1> QED
    BY <1>1, <1>2, SendInv DEF Lose, sessions

(* A stuttering step changes nothing. *)
LEMMA StutterInv ==
    ASSUME IInv, UNCHANGED vars
    PROVE  IInv' /\ Grows
PROOF
  <1>1. TypeOK'
    BY DEF vars, sessions, IInv, TypeOK, Packet
  <1>2. DelaysSane'
    BY DEF vars, sessions, IInv, DelaysSane
  <1> QED
    BY <1>1, <1>2, SendInv DEF vars, sessions

(* A stored INPUT row is the row its seat made; the seat's own ring is not *)
(* touched.                                                                *)
LEMMA InputInv ==
    ASSUME IInv, NEW i \in Seats, NEW m \in net, handle_decoded(i, m), OnInput(i, m)
    PROVE  IInv' /\ Grows
PROOF
  <1>1. TypeOK /\ TypeOK' /\ m \in Packet
    BY HandleType DEF IInv, TypeOK
  <1>2. m.from \in Seats \ {i} /\ m.wire \in Wire /\ m.row \in Row /\ m.epoch = epoch[i]
    BY <1>1, Constants DEF Packet, OnInput, handle_decoded
  <1>3. Grows
    BY <1>1, Still DEF OnInput, handle_decoded
  <1>4. /\ HashHonest' /\ HeardHonest' /\ PlayedHonest' /\ NetHonest'
    BY <1>3, <1>1, Kept DEF HashHonest, HeardHonest, PlayedHonest, NetHonest, OnInput, handle_decoded
  <1>5. ring \in [Seats -> [Seats -> [Wire -> Row]]]
    BY <1>1 DEF TypeOK
  <1>6. ring' = [ring EXCEPT ![i][m.from] = Put(ring[i][m.from], m.wire, m.row, NoRow)]
    BY DEF OnInput
  <1>7. \A k, j \in Seats : k # i \/ j # m.from => ring'[k][j] = ring[k][j]
    BY <1>2, <1>5, <1>6
  <1>8. RowsHonest'
    <2>1. SUFFICES ASSUME NEW k \in Seats, NEW j \in Seats, NEW w \in Wire
                   PROVE  RowOK(k, j, w)'
      BY DEF RowsHonest
    <2>2. epoch' = epoch
      BY DEF OnInput
    <2>3. CASE k # i \/ j # m.from
      BY <1>1, <1>3, <1>7, <2>2, <2>3, Kept
    <2>4. CASE k = i /\ j = m.from
      <3>1. ring'[i][j][w] = IF w = m.wire THEN m.row
                             ELSE IF SameSlot(w, m.wire) THEN NoRow ELSE ring[i][j][w]
        BY <1>2, <1>5, <1>6, <2>4 DEF Put
      <3>2. CASE w = m.wire
        <4>1. m.row = sampled[m.from][m.epoch][m.wire]
          BY DEF IInv, NetHonest, MessageOK, OnInput
        <4> QED
          BY <1>2, <2>4, <3>1, <3>2, <4>1 DEF RowOK, OnInput, handle_decoded
      <3>3. CASE w # m.wire
        BY <1>1, <1>3, <2>2, <2>4, <3>1, <3>3, Kept
      <3> QED
        BY <3>2, <3>3
    <2> QED
      BY <2>3, <2>4
  <1>9. RowsKept'
    <2>1. \A k \in Seats : ring'[k][k] = ring[k][k]
      BY <1>2, <1>7
    <2> QED
      BY SMT, <2>1 DEF IInv, RowsKept, KeptOK, OnInput, handle_decoded
  <1>10. PlayedInOrder' /\ PlayedInEpoch'
    BY DEF IInv, PlayedInOrder, OrderOK, PlayedInEpoch, OnInput, handle_decoded
  <1>11. NoFalseDesync' /\ SuppressedAtZero' /\ DelaysSane'
    BY DEF IInv, NoFalseDesync, SuppressedAtZero, DelaysSane, OnInput, handle_decoded
  <1> QED
    BY <1>3, <1>1, <1>4, <1>8, <1>9, <1>10, <1>11 DEF IInv

(* A confirm heard is vouched for, so it contradicts no published hash. *)
LEMMA ConfirmInv ==
    ASSUME IInv, NEW i \in Seats, NEW m \in net, handle_decoded(i, m), OnConfirm(i, m)
    PROVE  IInv' /\ Grows
PROOF
  <1>1. UNCHANGED <<epoch, sim_tick, delay, pending, ring, hash, suppress, admitted, net, sampled, played>>
    BY DEF OnConfirm, handle_decoded
  <1>2. TypeOK /\ TypeOK' /\ m \in Packet
    BY HandleType DEF IInv, TypeOK
  <1>3. /\ m.from \in Seats \ {i} /\ m.wire \in Wire /\ m.frame \in Frame /\ m.epoch = epoch[i]
        /\ epoch' = epoch
    BY <1>1, <1>2 DEF Packet, OnConfirm, handle_decoded
  <1>4. Grows
    BY <1>1, <1>2, Still
  <1>5. /\ RowsHonest' /\ HashHonest' /\ PlayedHonest' /\ NetHonest'
    BY <1>1, <1>4, <1>2, Kept DEF RowsHonest, HashHonest, PlayedHonest, NetHonest
  <1>6. heard \in [Seats -> [Seats -> [Wire -> Frame]]]
    BY <1>2 DEF TypeOK
  <1>7. PICK j0 \in Seats, w0 \in Wire, v0 \in Frame : j0 = m.from /\ w0 = m.wire /\ v0 = m.frame
    BY <1>3
  <1>8. PICK f \in [Wire -> Frame] : f = heard[i][j0]
    BY <1>6
  <1>9. PICK q : q = Put(f, w0, v0, NoFrame)
    OBVIOUS
  <1>10. NoFrame \in Frame
    BY Constants
  <1>11. q \in [Wire -> Frame] /\ \A w \in Wire : q[w] =
             IF w = w0 THEN v0 ELSE IF SameSlot(w, w0) THEN NoFrame ELSE f[w]
    BY <1>9, <1>10 DEF Put
  <1>12. heard' = [heard EXCEPT ![i][j0] = q]
    <2>1. heard' = [heard EXCEPT ![i][m.from] = Put(heard[i][m.from], m.wire, m.frame, NoFrame)]
      BY DEF OnConfirm
    <2> QED
      BY <1>7, <1>8, <1>9, <2>1
  <1>13. MessageOK(m) /\ MessageOK(m)'
    BY <1>2, <1>4, Kept DEF IInv, NetHonest
  <1>14. HeardHonest'
    <2>1. SUFFICES ASSUME NEW k \in Seats, NEW j \in Seats, NEW w \in Wire
                   PROVE  HeardOK(k, j, w)'
      BY DEF HeardHonest
    <2>2. CASE k # i \/ j # m.from
      <3>1. heard'[k][j] = heard[k][j]
        BY <1>6, <1>12, <1>7, <1>11, <2>2
      <3> QED
        BY <1>2, <1>3, <1>4, <3>1, Kept
    <2>3. CASE k = i /\ j = m.from
      <3>1. heard'[i][j][w] = IF w = m.wire THEN m.frame
                              ELSE IF SameSlot(w, m.wire) THEN NoFrame ELSE heard[i][j][w]
        BY <1>6, <1>12, <1>7, <1>8, <1>11, <2>3
      <3>2. CASE w = m.wire
        <4>1. (Vouched(m.frame, m.epoch, m.wire) /\ Holds(m.from, m.epoch, m.wire))'
          BY <1>13 DEF MessageOK, OnConfirm
        <4> QED
          BY <1>3, <2>3, <3>1, <3>2, <4>1 DEF HeardOK
      <3>3. CASE w # m.wire
        BY <1>2, <1>3, <1>4, <2>3, <3>1, <3>3, Kept
      <3> QED
        BY <3>2, <3>3
    <2> QED
      BY <2>2, <2>3
  <1>15. NoFalseDesync'
    <2>1. m.frame = Truth(epoch[i], m.wire)
      BY <1>3, <1>13 DEF MessageOK, Vouched, OnConfirm
    <2>2. hash[i][m.wire] \in {NoFrame, m.frame}
      BY <1>3, <2>1 DEF IInv, HashHonest, HashOK, Vouched
    <2>3. desync' = [desync EXCEPT ![i] = desync[i]]
      <3>1. (desync[i] \/ hash[i][m.wire] \notin {NoFrame, m.frame}) = desync[i]
        BY <2>2, <1>2 DEF TypeOK
      <3> QED
        BY <3>1 DEF OnConfirm
    <2> QED
      BY <1>2, <2>3 DEF IInv, NoFalseDesync, TypeOK
  <1>16. RowsKept' /\ PlayedInOrder' /\ PlayedInEpoch'
    BY SMT, <1>1 DEF IInv, RowsKept, KeptOK, PlayedInOrder, OrderOK, PlayedInEpoch
  <1>17. SuppressedAtZero' /\ DelaysSane'
    BY <1>1 DEF IInv, SuppressedAtZero, DelaysSane
  <1> QED
    BY <1>4, <1>2, <1>5, <1>14, <1>15, <1>16, <1>17 DEF IInv

(* DELAY_SYNC changes the delay, never while the seat waits to be primed. *)
LEMMA DelaySyncInv ==
    ASSUME IInv, NEW i \in Seats, NEW m \in net, handle_decoded(i, m), OnDelaySync(i, m)
    PROVE  IInv' /\ Grows
PROOF
  <1>1. UNCHANGED <<epoch, sim_tick, ring, hash, heard, desync, suppress, admitted, net, sampled, played>>
    BY DEF OnDelaySync, handle_decoded
  <1>2. TypeOK /\ TypeOK' /\ m \in Packet
    BY HandleType DEF IInv, TypeOK
  <1>3. m.value \in 0 .. MaxDelay /\ m.effective \in Nat /\ m.value >= 1 /\ m.effective >= 1
    BY <1>2 DEF Packet, OnDelaySync, IInv, NetHonest, MessageOK
  <1>4. Grows
    BY <1>1, <1>2, Still
  <1>5. /\ RowsHonest' /\ HashHonest' /\ HeardHonest' /\ PlayedHonest' /\ NetHonest'
    BY <1>1, <1>2, <1>4, Kept DEF RowsHonest, HashHonest, HeardHonest, PlayedHonest, NetHonest
  <1>6. RowsKept' /\ PlayedInOrder' /\ PlayedInEpoch' /\ NoFalseDesync'
    <2>1. RowsKept'
      BY <1>1 DEF IInv, RowsKept, KeptOK
    <2>2. PlayedInOrder'
      BY <1>1 DEF IInv, PlayedInOrder, OrderOK
    <2>3. PlayedInEpoch' /\ NoFalseDesync'
      BY <1>1 DEF IInv, PlayedInEpoch, NoFalseDesync
    <2> QED
      BY <2>1, <2>2, <2>3
  <1>7. /\ delay \in [Seats -> 0 .. MaxDelay]
        /\ pending \in [Seats -> [value : 0 .. MaxDelay, effective : Nat]]
    BY <1>2 DEF TypeOK
  <1>8. CASE m.effective <= sim_tick[i]
    <2>1. delay' = [delay EXCEPT ![i] = m.value] /\ pending' = [pending EXCEPT ![i] = NoDelay]
      BY <1>8 DEF OnDelaySync
    <2>2. DelaysSane'
      BY <1>3, <1>7, <2>1 DEF IInv, DelaysSane
    <2>3. SuppressedAtZero'
      <3>1. ~suppress[i]
        BY SMT, <1>3, <1>8 DEF IInv, SuppressedAtZero
      <3> QED
        BY <1>1, <1>7, <2>1, <3>1 DEF IInv, SuppressedAtZero
    <2> QED
      BY <1>2, <1>4, <1>5, <1>6, <2>2, <2>3 DEF IInv
  <1>9. CASE ~(m.effective <= sim_tick[i])
    <2>1. PICK p : p = [value |-> m.value, effective |-> m.effective]
      OBVIOUS
    <2>2. delay' = delay /\ pending' = [pending EXCEPT ![i] = p]
      BY <1>9, <2>1 DEF OnDelaySync
    <2>3. p.value >= 1 /\ p.effective >= 1
      BY <1>3, <2>1
    <2>4. DelaysSane'
      BY <1>7, <2>2, <2>3 DEF IInv, DelaysSane
    <2>5. SuppressedAtZero'
      BY <1>1, <2>2 DEF IInv, SuppressedAtZero
    <2> QED
      BY <1>2, <1>4, <1>5, <1>6, <2>4, <2>5 DEF IInv
  <1> QED
    BY <1>8, <1>9

(* advance moves the clock past the admitted frame, which has been played. *)
LEMMA AdvanceInv ==
    ASSUME IInv, NEW i \in Seats, advance(i)
    PROVE  IInv' /\ Grows
PROOF
  <1>1. UNCHANGED <<epoch, ring, hash, heard, desync, suppress, net, sampled, played>>
    BY DEF advance
  <1>2. TypeOK /\ TypeOK'
    BY AdvanceType DEF IInv
  <1>3. /\ sim_tick \in [Seats -> 0 .. MaxTick] /\ admitted \in [Seats -> BOOLEAN]
        /\ delay \in [Seats -> 0 .. MaxDelay]
        /\ pending \in [Seats -> [value : 0 .. MaxDelay, effective : Nat]]
    BY <1>2 DEF TypeOK
  <1>4. /\ admitted[i]
        /\ sim_tick' = [sim_tick EXCEPT ![i] = sim_tick[i] + 1]
        /\ admitted' = [admitted EXCEPT ![i] = FALSE]
        /\ \/ delay' = delay /\ pending' = pending
           \/ /\ pending[i] # NoDelay
              /\ delay' = [delay EXCEPT ![i] = pending[i].value]
              /\ pending' = [pending EXCEPT ![i] = NoDelay]
    BY DEF advance
  <1>5. \A k \in Seats : /\ sim_tick[k] \in Nat /\ sim_tick'[k] \in Nat
                         /\ sim_tick'[k] = IF k = i THEN sim_tick[k] + 1 ELSE sim_tick[k]
    BY SMT, <1>3, <1>4, Constants
  <1>6. Grows
    <2>1. \A k \in Seats : sim_tick[k] <= sim_tick'[k]
      BY SMT, <1>5
    <2> QED
      BY <1>1, <2>1 DEF Grows
  <1>7. /\ RowsHonest' /\ HashHonest' /\ HeardHonest' /\ PlayedHonest' /\ NetHonest'
    BY <1>1, <1>2, <1>6, Kept DEF RowsHonest, HashHonest, HeardHonest, PlayedHonest, NetHonest
  <1>8. RowsKept'
    BY SMT, <1>1, <1>5, Constants DEF IInv, RowsKept, KeptOK
  <1>9. PlayedInOrder'
    <2>1. SUFFICES ASSUME NEW k \in Seats, NEW t \in Wire
                   PROVE  OrderOK(k, t)'
      BY DEF PlayedInOrder
    <2>2. OrderOK(k, t) /\ t \in Nat
      BY Constants DEF IInv, PlayedInOrder
    <2>3. CASE k = i
      <3>1. admitted'[k] = FALSE
        BY <1>3, <1>4, <2>3
      <3> QED
        BY SMT, <1>1, <1>4, <1>5, <2>2, <2>3, <3>1 DEF OrderOK
    <2>4. CASE k # i
      <3>1. admitted'[k] = admitted[k]
        BY <1>3, <1>4, <2>4
      <3> QED
        BY <1>1, <1>5, <2>2, <2>4, <3>1 DEF OrderOK
    <2> QED
      BY <2>3, <2>4
  <1>10. PlayedInEpoch' /\ NoFalseDesync'
    BY <1>1 DEF IInv, PlayedInEpoch, NoFalseDesync
  <1>11. DelaysSane'
    BY <1>3, <1>4 DEF IInv, DelaysSane
  <1>12. ~suppress[i]
    <2>1. SUFFICES ASSUME suppress[i] PROVE FALSE
      OBVIOUS
    <2>2. PICK e \in Epoch, t \in Wire : e = epoch[i] /\ t = sim_tick[i]
      BY <1>2, TipType
    <2>3. played[i][e][t] # NoFrame
      BY <1>4, <2>2 DEF IInv, PlayedInOrder, OrderOK
    <2>4. sampled[i][e][t] # NoRow
      BY <2>3 DEF IInv, PlayedHonest, PlayedOK, Vouched, Whole
    <2>5. t = 0 /\ t = delay[i] /\ delay[i] >= 1
      BY <2>1, <2>2, <2>4 DEF IInv, SuppressedAtZero, DelaysSane
    <2> QED
      BY SMT, <2>5
  <1>13. SuppressedAtZero'
    <2>1. \A k \in Seats \ {i} : delay'[k] = delay[k] /\ sim_tick'[k] = sim_tick[k]
      BY <1>3, <1>4
    <2> QED
      BY <1>1, <1>12, <2>1 DEF IInv, SuppressedAtZero
  <1> QED
    BY <1>6, <1>2, <1>7, <1>8, <1>9, <1>10, <1>11, <1>13 DEF IInv

(* hard_resync starts an epoch of which the seat has made and played       *)
(* nothing.                                                                *)
LEMMA ResyncInv ==
    ASSUME IInv, NEW i \in Seats, hard_resync(i)
    PROVE  IInv' /\ Grows
PROOF
  <1>1. UNCHANGED <<delay, net, sampled, played>>
    BY DEF hard_resync
  <1>2. TypeOK /\ TypeOK'
    BY ResyncType DEF IInv
  <1>3. \A k \in Seats : epoch[k] \in Nat /\ sim_tick[k] \in Nat
    BY <1>2, TipType, Constants
  <1>4. \A k \in Seats \ {i} :
          /\ epoch'[k] = epoch[k] /\ sim_tick'[k] = sim_tick[k] /\ pending'[k] = pending[k]
          /\ ring'[k] = ring[k] /\ hash'[k] = hash[k] /\ heard'[k] = heard[k]
          /\ desync'[k] = desync[k] /\ suppress'[k] = suppress[k] /\ admitted'[k] = admitted[k]
    <2>1. \A k \in Seats \ {i} : epoch'[k] = epoch[k] /\ sim_tick'[k] = sim_tick[k]
      <3>1. epoch \in [Seats -> Epoch] /\ sim_tick \in [Seats -> 0 .. MaxTick]
        BY <1>2 DEF TypeOK
      <3> QED
        BY <3>1 DEF hard_resync
    <2>2. \A k \in Seats \ {i} : pending'[k] = pending[k]
      <3>1. pending \in [Seats -> [value : 0 .. MaxDelay, effective : Nat]]
        BY <1>2 DEF TypeOK
      <3> QED
        BY <3>1 DEF hard_resync
    <2>3. \A k \in Seats \ {i} : ring'[k] = ring[k]
      <3>1. ring \in [Seats -> [Seats -> [Wire -> Row]]]
        BY <1>2 DEF TypeOK
      <3> QED
        BY <3>1 DEF hard_resync
    <2>4. \A k \in Seats \ {i} : hash'[k] = hash[k]
      <3>1. hash \in [Seats -> [Wire -> Frame]]
        BY <1>2 DEF TypeOK
      <3> QED
        BY <3>1 DEF hard_resync
    <2>5. \A k \in Seats \ {i} : heard'[k] = heard[k]
      <3>1. heard \in [Seats -> [Seats -> [Wire -> Frame]]]
        BY <1>2 DEF TypeOK
      <3> QED
        BY <3>1 DEF hard_resync
    <2>6. \A k \in Seats \ {i} :
            desync'[k] = desync[k] /\ suppress'[k] = suppress[k] /\ admitted'[k] = admitted[k]
      <3>1. /\ desync \in [Seats -> BOOLEAN] /\ suppress \in [Seats -> BOOLEAN]
            /\ admitted \in [Seats -> BOOLEAN]
        BY <1>2 DEF TypeOK
      <3> QED
        BY <3>1 DEF hard_resync
    <2> QED
      BY <2>1, <2>2, <2>3, <2>4, <2>5, <2>6
  <1>5. /\ epoch'[i] = epoch[i] + 1 /\ sim_tick'[i] = 0 /\ pending'[i] = NoDelay
        /\ \A j \in Seats : \A w \in Wire : ring'[i][j][w] = NoRow /\ heard'[i][j][w] = NoFrame
        /\ \A w \in Wire : hash'[i][w] = NoFrame
        /\ desync'[i] = FALSE /\ admitted'[i] = FALSE
    <2>1. epoch'[i] = epoch[i] + 1 /\ sim_tick'[i] = 0
      <3>1. epoch \in [Seats -> Epoch] /\ sim_tick \in [Seats -> 0 .. MaxTick]
        BY <1>2 DEF TypeOK
      <3> QED
        BY <3>1 DEF hard_resync
    <2>2. pending'[i] = NoDelay
      <3>1. pending \in [Seats -> [value : 0 .. MaxDelay, effective : Nat]]
        BY <1>2 DEF TypeOK
      <3> QED
        BY <3>1 DEF hard_resync
    <2>3. \A j \in Seats : \A w \in Wire : ring'[i][j][w] = NoRow
      <3>1. ring \in [Seats -> [Seats -> [Wire -> Row]]]
        BY <1>2 DEF TypeOK
      <3>2. ring'[i] = [j \in Seats |-> NoRows]
        BY <3>1 DEF hard_resync
      <3> QED
        BY SMT, <3>2 DEF NoRows
    <2>4. \A w \in Wire : hash'[i][w] = NoFrame
      <3>1. hash \in [Seats -> [Wire -> Frame]]
        BY <1>2 DEF TypeOK
      <3>2. hash'[i] = [w \in Wire |-> NoFrame]
        BY <3>1 DEF hard_resync
      <3> QED
        BY <3>2
    <2>5. \A j \in Seats : \A w \in Wire : heard'[i][j][w] = NoFrame
      <3>1. heard \in [Seats -> [Seats -> [Wire -> Frame]]]
        BY <1>2 DEF TypeOK
      <3>2. heard'[i] = [j \in Seats |-> [w \in Wire |-> NoFrame]]
        BY <3>1 DEF hard_resync
      <3> QED
        BY SMT, <3>2
    <2>6. desync'[i] = FALSE /\ admitted'[i] = FALSE
      <3>1. desync \in [Seats -> BOOLEAN] /\ admitted \in [Seats -> BOOLEAN]
        BY <1>2 DEF TypeOK
      <3> QED
        BY <3>1 DEF hard_resync
    <2> QED
      BY <2>1, <2>2, <2>3, <2>4, <2>5, <2>6
  <1>6. Grows
    <2>1. \A k \in Seats \ {i} : sim_tick[k] <= sim_tick'[k]
      BY SMT, <1>3, <1>4
    <2>2. ASSUME NEW k \in Seats
          PROVE  \/ epoch'[k] = epoch[k] + 1
                 \/ /\ epoch'[k] = epoch[k] /\ sim_tick[k] <= sim_tick'[k]
                    /\ hash'[k] = hash[k]
      BY <1>4, <1>5, <2>1
    <2> QED
      BY <1>1, <2>2 DEF Grows
  <1>7. PlayedHonest' /\ NetHonest'
    BY <1>1, <1>2, <1>6, Kept DEF PlayedHonest, NetHonest
  <1>8. RowsHonest'
    <2>1. ASSUME NEW k \in Seats, NEW j \in Seats, NEW w \in Wire
          PROVE  RowOK(k, j, w)'
      <3>1. CASE k = i
        BY <1>5, <3>1 DEF RowOK
      <3>2. CASE k # i
        BY <1>2, <1>4, <1>6, <3>2, Kept
      <3> QED
        BY <3>1, <3>2
    <2> QED
      BY <2>1 DEF RowsHonest
  <1>9. HashHonest'
    <2>1. ASSUME NEW k \in Seats, NEW w \in Wire
          PROVE  HashOK(k, w)'
      <3>1. CASE k = i
        BY <1>5, <3>1 DEF HashOK
      <3>2. CASE k # i
        BY <1>2, <1>4, <1>6, <3>2, Kept
      <3> QED
        BY <3>1, <3>2
    <2> QED
      BY <2>1 DEF HashHonest
  <1>10. HeardHonest'
    <2>1. ASSUME NEW k \in Seats, NEW j \in Seats, NEW w \in Wire
          PROVE  HeardOK(k, j, w)'
      <3>1. CASE k = i
        BY <1>5, <3>1 DEF HeardOK
      <3>2. CASE k # i
        BY <1>2, <1>4, <1>6, <3>2, Kept
      <3> QED
        BY <3>1, <3>2
    <2> QED
      BY <2>1 DEF HeardHonest
  <1>11. \A e \in Epoch : \A w \in Wire : e = epoch'[i] =>
            sampled[i][e][w] = NoRow /\ played[i][e][w] = NoFrame
    <2>1. SUFFICES ASSUME NEW e \in Epoch, NEW w \in Wire, e = epoch[i] + 1
                   PROVE  sampled[i][e][w] = NoRow /\ played[i][e][w] = NoFrame
      BY <1>5
    <2>2. ~(e <= epoch[i])
      BY SMT, <1>3, <2>1
    <2> QED
      BY <2>2 DEF IInv, RowsKept, KeptOK, PlayedInEpoch
  <1>12. RowsKept'
    <2>1. ASSUME NEW k \in Seats, NEW e \in Epoch, NEW w \in Wire
          PROVE  KeptOK(k, e, w)'
      <3>1. KeptOK(k, e, w) /\ e \in Nat
        BY Constants DEF IInv, RowsKept
      <3>2. CASE k = i
        <4>1. ASSUME sampled[i][e][w] # NoRow
              PROVE  e <= epoch'[i] /\ e # epoch'[i]
          <5>1. e <= epoch[i]
            BY <3>1, <3>2, <4>1 DEF KeptOK
          <5>2. epoch[i] \in Nat /\ epoch'[i] = epoch[i] + 1
            BY <1>3, <1>5
          <5> QED
            BY SMT, <3>1, <5>1, <5>2
        <4> QED
          BY <1>1, <3>2, <4>1 DEF KeptOK
      <3>3. CASE k # i
        BY <1>1, <1>4, <3>1, <3>3 DEF KeptOK
      <3> QED
        BY <3>2, <3>3
    <2> QED
      BY <2>1 DEF RowsKept
  <1>13. epoch'[i] \in Epoch
    BY <1>2 DEF TypeOK
  <1>14. PlayedInOrder'
    <2>1. ASSUME NEW k \in Seats, NEW t \in Wire
          PROVE  OrderOK(k, t)'
      <3>1. OrderOK(k, t) /\ t \in Nat
        BY Constants DEF IInv, PlayedInOrder
      <3>2. CASE k = i
        <4>1. played[i][epoch'[i]][t] = NoFrame
          BY <1>11, <1>13
        <4>2. ~(t < sim_tick'[i]) /\ ~admitted'[i]
          BY SMT, <1>5, <3>1
        <4> QED
          BY <1>1, <3>2, <4>1, <4>2 DEF OrderOK
      <3>3. CASE k # i
        BY <1>1, <1>4, <3>1, <3>3 DEF OrderOK
      <3> QED
        BY <3>2, <3>3
    <2> QED
      BY <2>1 DEF PlayedInOrder
  <1>15. PlayedInEpoch'
    <2>1. ASSUME NEW k \in Seats, NEW e \in Epoch, NEW t \in Wire, played[k][e][t] # NoFrame
          PROVE  e <= epoch'[k]
      <3>1. e <= epoch[k] /\ e \in Nat
        BY <2>1, Constants DEF IInv, PlayedInEpoch
      <3> QED
        BY SMT, <1>3, <1>4, <1>5, <3>1
    <2> QED
      BY <1>1, <2>1 DEF PlayedInEpoch
  <1>16. NoFalseDesync'
    BY <1>4, <1>5 DEF IInv, NoFalseDesync
  <1>17. DelaysSane'
    BY <1>1, <1>4, <1>5 DEF IInv, DelaysSane
  <1>18. SuppressedAtZero'
    <2>1. ASSUME NEW k \in Seats, suppress'[k]
          PROVE  /\ sim_tick'[k] = 0
                 /\ \A w \in Wire : sampled'[k][epoch'[k]][w] # NoRow => w = delay'[k]
      <3>1. CASE k = i
        BY <1>1, <1>5, <1>11, <1>13, <3>1
      <3>2. CASE k # i
        BY SMT, <1>1, <1>4, <2>1, <3>2 DEF IInv, SuppressedAtZero
      <3> QED
        BY <3>1, <3>2
    <2> QED
      BY <2>1 DEF SuppressedAtZero
  <1> QED
    BY <1>6, <1>2, <1>7, <1>8, <1>9, <1>10, <1>12, <1>14, <1>15, <1>16, <1>17, <1>18 DEF IInv

(* prime_delay_inputs makes the rows before the tip, none of which was     *)
(* made before.                                                            *)
LEMMA PrimeInv ==
    ASSUME IInv, NEW i \in Seats, NEW v \in Inputs, prime_delay_inputs(i, v)
    PROVE  IInv' /\ Grows
PROOF
  <1>1. /\ suppress[i]
        /\ UNCHANGED <<epoch, sim_tick, delay, pending, hash, heard, desync, admitted, played>>
    BY DEF prime_delay_inputs
  <1>2. TypeOK /\ TypeOK'
    BY PrimeType DEF IInv
  <1>3. PICK e \in Epoch, n \in Nat : e = epoch[i] /\ n = delay[i] /\ n <= MaxDelay
    BY <1>2, Clock
  <1>4. sim_tick[i] = 0 /\ Tip(i) = n
    BY SMT, <1>1, <1>2, <1>3, Clock DEF IInv, SuppressedAtZero
  <1>5. \A w \in Wire : w < n => sampled[i][e][w] = NoRow
    BY SMT, <1>1, <1>3, Constants DEF IInv, SuppressedAtZero
  <1>6. /\ sampled \in [Seats -> [Epoch -> [Wire -> Row]]]
        /\ ring \in [Seats -> [Seats -> [Wire -> Row]]]
    BY <1>2 DEF TypeOK
  <1>7. ASSUME NEW f \in [Wire -> Row]
        PROVE  /\ Primed(f, i, v) \in [Wire -> Row]
               /\ \A w \in Wire : Primed(f, i, v)[w] = IF w < n THEN v ELSE f[w]
    <2>1. v \in Row
      BY Constants
    <2>2. ASSUME NEW w \in Wire
          PROVE  (sim_tick[i] <= w /\ w < Tip(i)) <=> w < n
      <3>1. w \in Nat
        BY Numbers
      <3> QED
        BY SMT, <1>4, <3>1
    <2> QED
      BY <2>1, <2>2 DEF Primed
  <1>8. sampled[i][e] \in [Wire -> Row] /\ ring[i][i] \in [Wire -> Row]
    BY <1>6
  <1>9. PICK g \in [Wire -> Row] :
            g = Primed(sampled[i][e], i, v)
            /\ \A w \in Wire : g[w] = IF w < n THEN v ELSE sampled[i][e][w]
    BY <1>7, <1>8
  <1>10. PICK q \in [Wire -> Row] :
            q = Primed(ring[i][i], i, v)
            /\ \A w \in Wire : q[w] = IF w < n THEN v ELSE ring[i][i][w]
    BY <1>7, <1>8
  <1>11. /\ sampled' = [sampled EXCEPT ![i][e] = g]
        /\ ring' = [ring EXCEPT ![i][i] = q]
        /\ suppress' = [suppress EXCEPT ![i] = FALSE]
        /\ net' = net \cup send_input_bundle(i, q, delay[i], epoch[i])
    BY <1>3, <1>9, <1>10 DEF prime_delay_inputs
  <1>12. /\ \A k \in Seats : \A d \in Epoch : \A w \in Wire :
              sampled'[k][d][w] = IF k = i /\ d = e /\ w < n THEN v ELSE sampled[k][d][w]
        /\ \A k, j \in Seats : \A w \in Wire :
              ring'[k][j][w] = IF k = i /\ j = i /\ w < n THEN v ELSE ring[k][j][w]
    BY <1>6, <1>9, <1>10, <1>11
  <1>13. Grows
    BY SMT, <1>1, <1>2, <1>5, <1>12 DEF Grows, TypeOK
  <1>14. HashHonest' /\ HeardHonest' /\ PlayedHonest'
    BY <1>1, <1>2, <1>13, Kept DEF HashHonest, HeardHonest, PlayedHonest
  <1>15. RowsHonest'
    <2>1. ASSUME NEW k \in Seats, NEW j \in Seats, NEW w \in Wire
          PROVE  RowOK(k, j, w)'
      <3>1. CASE k = i /\ j = i /\ w < n
        <4>1. ring'[i][i][w] = v /\ sampled'[i][e][w] = v
          BY <1>12, <3>1
        <4> QED
          BY <1>1, <1>3, <3>1, <4>1 DEF RowOK
      <3>2. CASE ~(k = i /\ j = i /\ w < n)
        BY <1>1, <1>2, <1>12, <1>13, <3>2, Kept
      <3> QED
        BY <3>1, <3>2
    <2> QED
      BY <2>1 DEF RowsHonest
  <1>16. NetHonest'
    <2>1. ASSUME NEW m \in send_input_bundle(i, q, delay[i], epoch[i])
          PROVE  MessageOK(m)'
      <3>1. /\ m.op = "INPUT" /\ m.from = i /\ m.epoch = epoch[i]
            /\ m.wire \in Wire /\ m.row = q[m.wire] /\ m.row # NoRow
        <4>1. \A x \in send_input_bundle(i, q, delay[i], epoch[i]) :
                 /\ x.op = "INPUT" /\ x.from = i /\ x.epoch = epoch[i]
                 /\ x.wire \in Wire /\ x.row = q[x.wire] /\ x.row # NoRow
          BY <1>2, BundleType
        <4> QED
          BY <4>1
      <3>2. RowOK(i, i, m.wire)' /\ ring'[i][i][m.wire] = m.row
        BY <1>6, <1>11, <1>15, <3>1 DEF RowsHonest
      <3>3. m.row = sampled'[i][epoch[i]][m.wire]
        BY <1>1, <3>1, <3>2 DEF RowOK
      <3> QED
        BY <3>1, <3>3 DEF MessageOK
    <2> QED
      BY <1>2, <1>11, <1>13, <2>1, Kept DEF NetHonest
  <1>17. RowsKept'
    <2>1. ASSUME NEW k \in Seats, NEW d \in Epoch, NEW w \in Wire
          PROVE  KeptOK(k, d, w)'
      <3>1. KeptOK(k, d, w) /\ w \in Nat
        BY Constants DEF IInv, RowsKept
      <3>2. CASE k = i /\ d = e /\ w < n
        <4>1. ring'[i][i][w] = v /\ v # NoRow
          BY <1>12, <3>2, Constants
        <4> QED
          <5>1. e <= epoch'[i] /\ w <= sim_tick'[i] + MaxDelay
            BY SMT, <1>1, <1>2, <1>3, <1>4, <3>1, <3>2, Numbers, Clock
          <5> QED
            BY <3>2, <4>1, <5>1 DEF KeptOK
      <3>3. CASE ~(k = i /\ d = e /\ w < n)
        <4>1. sampled'[k][d][w] = sampled[k][d][w]
          BY <1>12, <3>3
        <4>2. ring'[k][k][w] # NoRow \/ ring'[k][k][w] = ring[k][k][w]
          BY <1>12, Constants
        <4> QED
          BY <1>1, <3>1, <4>1, <4>2 DEF KeptOK
      <3> QED
        BY <3>2, <3>3
    <2> QED
      BY <2>1 DEF RowsKept
  <1>18. PlayedInOrder' /\ PlayedInEpoch' /\ NoFalseDesync' /\ DelaysSane'
    BY <1>1 DEF IInv, PlayedInOrder, OrderOK, PlayedInEpoch, NoFalseDesync, DelaysSane
  <1>19. SuppressedAtZero'
    <2>1. /\ ~suppress'[i] /\ \A k \in Seats \ {i} : suppress'[k] = suppress[k]
      BY SMT, <1>2, <1>11 DEF TypeOK
    <2>2. \A k \in Seats \ {i} : epoch[k] \in Epoch
      BY <1>2, TipType
    <2>3. ASSUME NEW k \in Seats, suppress'[k]
          PROVE  /\ sim_tick'[k] = 0
                 /\ \A w \in Wire : sampled'[k][epoch'[k]][w] # NoRow => w = delay'[k]
      <3>1. k # i /\ suppress[k]
        BY <2>1, <2>3
      <3>2. \A w \in Wire : sampled'[k][epoch[k]][w] = sampled[k][epoch[k]][w]
        BY SMT, <1>12, <2>2, <3>1
      <3> QED
        BY <1>1, <3>1, <3>2 DEF IInv, SuppressedAtZero
    <2> QED
      BY <2>3 DEF SuppressedAtZero
  <1> QED
    BY <1>13, <1>2, <1>14, <1>15, <1>16, <1>17, <1>18, <1>19 DEF IInv

(* try_admit, the rings: the sampled row is new, and storing it evicts no  *)
(* row still to be played.                                                 *)
LEMMA AdmitRows ==
    ASSUME IInv, NEW i \in Seats, NEW v \in Inputs, try_admit(i, v)
    PROVE  /\ \A k \in Seats : \A d \in Epoch : \A w \in Wire :
                 /\ sampled[k][d][w] # NoRow => sampled'[k][d][w] = sampled[k][d][w]
                 /\ sampled'[k][d][w] # sampled[k][d][w] =>
                       k = i /\ d = epoch[i] /\ w = Tip(i) /\ ring'[i][i][w] = v
           /\ RowsHonest' /\ RowsKept'
PROOF
  <1>1. TypeOK /\ TypeOK'
    BY AdmitType DEF IInv
  <1>2. PICK e \in Epoch, t \in Wire, s \in Nat :
            e = epoch[i] /\ t = Tip(i) /\ s = sim_tick[i] /\ s <= t /\ t <= s + MaxDelay
    <2>1. /\ epoch[i] \in Epoch /\ Tip(i) \in Wire /\ sim_tick[i] \in Nat
          /\ sim_tick[i] <= Tip(i) /\ Tip(i) <= sim_tick[i] + MaxDelay
      BY SMT, <1>1, Clock, Numbers
    <2> QED
      BY <2>1
  <1>3. /\ sampled \in [Seats -> [Epoch -> [Wire -> Row]]]
        /\ ring \in [Seats -> [Seats -> [Wire -> Row]]]
    BY <1>1 DEF TypeOK
  <1>4. UNCHANGED <<epoch, sim_tick>>
    BY AdmitEffect
  <1>5. /\ \A k \in Seats \ {i} : ring'[k] = ring[k]
        /\ \A j \in Seats \ {i} : ring'[i][j] = ring[i][j]
        /\ ring'[i][i] = WithSample(i, v)
    <2>1. PICK r : r = Rows(i, v)
      OBVIOUS
    <2>2. ring' = [ring EXCEPT ![i] = r]
      BY <2>1, AdmitEffect
    <2>3. r[i] = WithSample(i, v) /\ \A j \in Seats \ {i} : r[j] = ring[i][j]
      BY <1>1, <2>1, RowsType
    <2> QED
      BY <1>3, <2>2, <2>3
  <1>6. CASE ring[i][i][t] # NoRow
    <2>1. sampled' = sampled /\ ring'[i][i] = ring[i][i]
      BY <1>2, <1>5, <1>6, AdmitEffect DEF WithSample
    <2>2. \A k, j \in Seats : ring'[k][j] = ring[k][j]
      BY <1>5, <2>1
    <2>3. RowsHonest' /\ RowsKept'
      <3>1. RowsHonest'
        BY SMT, <1>4, <2>1, <2>2 DEF IInv, RowsHonest, RowOK
      <3>2. RowsKept'
        BY SMT, <1>4, <2>1, <2>2 DEF IInv, RowsKept, KeptOK
      <3> QED
        BY <3>1, <3>2
    <2> QED
      BY <2>1, <2>3
  <1>7. CASE ring[i][i][t] = NoRow
    <2>1. PICK f \in [Seats -> [Epoch -> [Wire -> Row]]] : f = sampled
      BY <1>3
    <2>2. PICK g : g = [f EXCEPT ![i][e][t] = v]
      OBVIOUS
    <2>3. sampled' = g
      BY <1>2, <1>7, <2>1, <2>2, AdmitEffect
    <2>4. v \in Row /\ v # NoRow
      BY Constants
    <2>5. \A k \in Seats : \A d \in Epoch : \A w \in Wire :
             sampled'[k][d][w] = IF k = i /\ d = e /\ w = t THEN v ELSE sampled[k][d][w]
      BY SMT, <2>1, <2>2, <2>3, <2>4, Except3
    <2>6. \A w \in Wire : ring'[i][i][w] =
             IF w = t THEN v ELSE IF SameSlot(w, t) THEN NoRow ELSE ring[i][i][w]
      BY <1>2, <1>3, <1>5, <1>7 DEF WithSample, Put
    <2>7. sampled[i][e][t] = NoRow
      BY <1>2, <1>7 DEF IInv, RowsKept, KeptOK
    <2>8. RowsHonest'
      <3>1. ASSUME NEW k \in Seats, NEW j \in Seats, NEW w \in Wire
            PROVE  RowOK(k, j, w)'
        <4>1. RowOK(k, j, w) /\ epoch[k] \in Epoch
          BY <1>1, TipType DEF IInv, RowsHonest
        <4>2. CASE k = i /\ j = i /\ w = t
          BY <1>2, <1>4, <2>5, <2>6, <4>2 DEF RowOK
        <4>3. CASE ~(k = i /\ j = i /\ w = t)
          <5>1. ring'[k][j][w] \in {ring[k][j][w], NoRow}
            BY <1>5, <2>6, <4>3
          <5>2. ring[k][j][w] # NoRow => sampled'[j][epoch[k]][w] = ring[k][j][w]
            BY <2>5, <2>7, <4>1 DEF RowOK
          <5> QED
            BY <1>4, <5>1, <5>2 DEF RowOK
        <4> QED
          BY <4>2, <4>3
      <3> QED
        BY <3>1 DEF RowsHonest
    <2>9. RowsKept'
      <3>1. ASSUME NEW k \in Seats, NEW d \in Epoch, NEW w \in Wire
            PROVE  KeptOK(k, d, w)'
        <4>1. KeptOK(k, d, w) /\ w \in Nat /\ t \in Nat /\ d \in Nat
          BY Constants DEF IInv, RowsKept
        <4>2. CASE k = i /\ d = e /\ w = t
          <5>1. ring'[i][i][w] # NoRow
            BY <2>4, <2>6, <4>2
          <5>2. e <= epoch'[i] /\ w <= sim_tick'[i] + MaxDelay
            BY SMT, <1>2, <1>4, <4>1, <4>2
          <5> QED
            BY <4>2, <5>1, <5>2 DEF KeptOK
        <4>3. CASE k = i /\ d = e /\ w # t /\ s <= w /\ sampled[i][d][w] # NoRow
          <5>1. w <= s + MaxDelay /\ ring[i][i][w] # NoRow
            BY <1>2, <4>1, <4>3 DEF KeptOK
          <5>2. ~SameSlot(w, t)
            <6>1. CASE w < t
              <7>1. MaxDelay \in Nat /\ History \in Nat /\ 2 * (MaxDelay + 1) <= History
                BY Numbers
              <7>2. ~(t - w >= History)
                BY SMT, <1>2, <4>1, <4>3, <7>1
              <7> QED
                BY <4>1, <6>1, <7>2, SlotDistance
            <6>2. CASE t < w
              <7>1. SameSlot(w, t) => SameSlot(t, w)
                BY DEF SameSlot
              <7>2. MaxDelay \in Nat /\ History \in Nat /\ 2 * (MaxDelay + 1) <= History
                BY Numbers
              <7>3. ~(w - t >= History)
                BY SMT, <1>2, <4>1, <5>1, <7>2
              <7> QED
                BY <4>1, <6>2, <7>1, <7>3, SlotDistance
            <6> QED
              <7>1. w # t
                BY <4>3
              <7>2. w < t \/ t < w
                BY SMT, <4>1, <7>1
              <7> QED
                BY <6>1, <6>2, <7>2
          <5>3. ring'[i][i][w] # NoRow
            BY <2>6, <4>3, <5>1, <5>2
          <5> QED
            <6>1. e <= epoch'[i] /\ w <= sim_tick'[i] + MaxDelay
              BY SMT, <1>2, <1>4, <4>1, <4>3, <5>1
            <6> QED
              BY <4>3, <5>3, <6>1 DEF KeptOK
        <4>4. CASE k = i /\ d = e /\ w # t /\ ~(s <= w /\ sampled[i][d][w] # NoRow)
          BY <1>2, <1>4, <2>5, <4>1, <4>4 DEF KeptOK
        <4>5. CASE ~(k = i /\ d = e)
          <5>1. sampled'[k][d][w] = sampled[k][d][w]
            BY <2>5, <4>5
          <5>2. k # i => ring'[k][k] = ring[k][k]
            BY <1>5
          <5> QED
            BY <1>2, <1>4, <4>1, <4>5, <5>1, <5>2 DEF KeptOK
        <4> QED
          BY <4>2, <4>3, <4>4, <4>5
      <3> QED
        BY <3>1 DEF RowsKept
    <2> QED
      BY SMT, <1>2, <2>5, <2>6, <2>7, <2>8, <2>9
  <1> QED
    BY <1>2, <1>6, <1>7

(* try_admit, the frames: what it resolves is the truth, no hash still to  *)
(* be played is evicted, and no confirm heard contradicts it.              *)
LEMMA AdmitFrames ==
    ASSUME IInv, NEW i \in Seats, NEW v \in Inputs, try_admit(i, v),
           NEW r \in [Seats -> [Wire -> Row]], r = Rows(i, v),
           NEW h \in [Wire -> Frame], h = Published(i, r),
           NEW e \in Epoch, e = epoch[i], RowsHonest', TypeOK',
           \A k \in Seats : \A d \in Epoch : \A w \in Wire :
                 sampled[k][d][w] # NoRow => sampled'[k][d][w] = sampled[k][d][w]
    PROVE  /\ \A w \in Prepared(i, r) : h[w] = Truth(e, w)' /\ Whole(e, w)'
           /\ \A w \in Wire : w \notin Prepared(i, r) => h[w] \in {hash[i][w], NoFrame}
           /\ \A w \in Wire : sim_tick[i] <= w /\ hash[i][w] # NoFrame => h[w] = hash[i][w]
           /\ ~Clash(i, r)
PROOF
  <1>1. TypeOK
    BY DEF IInv
  <1>2. ring'[i] = r /\ epoch' = epoch
    <2>1. ring' = [ring EXCEPT ![i] = r] /\ epoch' = epoch
      BY AdmitEffect
    <2> QED
      BY <1>1, <2>1 DEF TypeOK
  <1>3. Prepared(i, r) \subseteq Wire /\ ConfirmWindow(i) \subseteq Wire
    BY <1>1, PublishedType
  <1>4. \A w \in Wire : h[w] = IF w \in Prepared(i, r) THEN Resolved(r, w)
                               ELSE IF \E x \in Prepared(i, r) : SameSlot(x, w) THEN NoFrame
                               ELSE hash[i][w]
    BY DEF Published
  <1>5. ASSUME NEW w \in Prepared(i, r)
        PROVE  h[w] = Truth(e, w)' /\ Whole(e, w)'
    <2>1. w \in Wire /\ \A j \in Seats : r[j][w] # NoRow
      BY <1>3 DEF Prepared, Complete
    <2>2. \A j \in Seats : r[j][w] = sampled'[j][e][w]
      <3>1. SUFFICES ASSUME NEW j \in Seats
                     PROVE  r[j][w] = sampled'[j][e][w]
        OBVIOUS
      <3>2. RowOK(i, j, w)'
        BY <2>1 DEF RowsHonest
      <3>3. ring'[i][j][w] = r[j][w] /\ r[j][w] # NoRow /\ epoch'[i] = e
        BY <1>2, <2>1
      <3> QED
        BY <3>2, <3>3 DEF RowOK
    <2>3. h[w] = [j \in Seats |-> r[j][w]]
      BY <1>4, <2>1 DEF Resolved
    <2> QED
      BY SMT, <2>1, <2>2, <2>3 DEF Truth, Whole
  <1>6. ASSUME NEW w \in Wire, Whole(e, w)
        PROVE  Truth(e, w)' = Truth(e, w)
    BY <1>6 DEF Whole, Truth
  <1>7. ASSUME NEW w \in Wire, sim_tick[i] <= w, hash[i][w] # NoFrame
        PROVE  h[w] = hash[i][w]
    <2>1. hash[i][w] = Truth(e, w) /\ Whole(e, w)
      BY <1>7 DEF IInv, HashHonest, HashOK, Vouched
    <2>2. CASE w \in Prepared(i, r)
      BY <1>5, <1>6, <2>1, <2>2
    <2>3. CASE w \notin Prepared(i, r)
      <3>1. ASSUME NEW x \in Prepared(i, r)
            PROVE  ~SameSlot(x, w)
        <4>1. w <= sim_tick[i] + MaxDelay
          BY <2>1 DEF Whole, IInv, RowsKept, KeptOK
        <4>2. PICK s \in Nat, n \in Nat : s = sim_tick[i] /\ n = delay[i] /\ n <= MaxDelay /\ Tip(i) = s + n
          BY <1>1, Clock, ZenonT(60)
        <4>3. PICK l \in Nat : l = Trail(i) /\ 2 * l <= History
          <5>1. History \div 2 \in Nat /\ 2 * (History \div 2) <= History
            BY SMT, Numbers
          <5>2. Redundancy \in Nat /\ Slop \in Nat /\ TrailFloor \in Nat
            BY Constants
          <5>3. Trail(i) \in Nat /\ Trail(i) <= History \div 2
            BY SMT, <4>2, <5>1, <5>2 DEF Trail, Clamp, Min2, Max2
          <5>4. 2 * Trail(i) <= History
            BY SMT, <5>1, <5>3, Numbers
          <5> QED
            BY <5>3, <5>4
        <4>4. x \in Nat /\ x <= s + n /\ s - l <= x
          <5>1. x \in Max2(s - l, 0) .. (s + n)
            BY <3>1, <4>2, <4>3 DEF Prepared, ConfirmWindow
          <5> QED
            BY SMT, <5>1 DEF Max2
        <4>5. w \in Nat /\ x # w
          <5>1. w \in Nat
            BY Numbers
          <5> QED
            BY <2>3, <5>1
        <4>6. s <= w /\ w <= s + MaxDelay
          BY <1>7, <4>1, <4>2
        <4>7. CASE x < w
          <5>1. MaxDelay \in Nat /\ History \in Nat /\ 2 * (MaxDelay + 1) <= History
            BY Numbers
          <5>2. ~(w - x >= History)
            BY SMT, <4>3, <4>4, <4>5, <4>6, <5>1
          <5> QED
            BY <4>4, <4>5, <4>7, <5>2, SlotDistance
        <4>8. CASE w < x
          <5>1. ~(x - w >= History)
            BY SMT, <4>2, <4>4, <4>5, <4>6, Numbers
          <5>2. SameSlot(x, w) => SameSlot(w, x)
            BY DEF SameSlot
          <5> QED
            BY <4>4, <4>5, <4>8, <5>1, <5>2, SlotDistance
        <4>9. x < w \/ w < x
          BY SMT, <4>4, <4>5
        <4> QED
          BY <4>7, <4>8, <4>9
      <3> QED
        BY <1>4, <2>3, <3>1
    <2> QED
      BY <2>2, <2>3
  <1>8. ~Clash(i, r)
    <2>1. SUFFICES ASSUME NEW w \in Prepared(i, r), NEW j \in Seats \ {i}
                   PROVE  heard[i][j][w] \in {NoFrame, h[w]}
      BY DEF Clash, Conflict
    <2>2. w \in Wire
      BY <1>3
    <2>3. heard[i][j][w] # NoFrame => heard[i][j][w] = Truth(e, w) /\ Whole(e, w)
      BY <2>2 DEF IInv, HeardHonest, HeardOK, Vouched
    <2> QED
      BY <1>5, <1>6, <2>2, <2>3
  <1> QED
    BY <1>4, <1>5, <1>7, <1>8

(* try_admit preserves the invariant: it plays a frame only when every     *)
(* other seat has confirmed it.                                            *)
LEMMA AdmitInv ==
    ASSUME IInv, NEW i \in Seats, NEW v \in Inputs, try_admit(i, v)
    PROVE  IInv' /\ Grows
PROOF
  <1>1. TypeOK /\ TypeOK'
    BY AdmitType DEF IInv
  <1>2. PICK r \in [Seats -> [Wire -> Row]] : r = Rows(i, v)
    BY <1>1, RowsType
  <1>3. PICK h \in [Wire -> Frame] : h = Published(i, r)
    BY <1>1, PublishedType
  <1>4. PICK e \in Epoch, t \in Wire : e = epoch[i] /\ t = sim_tick[i]
    BY <1>1, TipType
  <1>5. /\ ring' = [ring EXCEPT ![i] = r]
        /\ hash' = [hash EXCEPT ![i] = h]
        /\ desync' = [desync EXCEPT ![i] = Clash(i, r)]
        /\ admitted' = [admitted EXCEPT ![i] = admitted[i] \/ Admits(i, r)]
        /\ played' = IF Admits(i, r) THEN [played EXCEPT ![i][e][t] = h[t]] ELSE played
        /\ UNCHANGED <<epoch, sim_tick, delay, pending, heard, suppress>>
    BY <1>2, <1>3, <1>4, AdmitEffect, ZenonT(60) DEF WithPlayed
  <1>6. /\ RowsHonest' /\ RowsKept'
        /\ \A k \in Seats : \A d \in Epoch : \A w \in Wire :
              /\ sampled[k][d][w] # NoRow => sampled'[k][d][w] = sampled[k][d][w]
              /\ sampled'[k][d][w] # sampled[k][d][w] => k = i /\ d = e /\ w = Tip(i)
    <2>1. /\ \A k \in Seats : \A d \in Epoch : \A w \in Wire :
                /\ sampled[k][d][w] # NoRow => sampled'[k][d][w] = sampled[k][d][w]
                /\ sampled'[k][d][w] # sampled[k][d][w] =>
                      k = i /\ d = epoch[i] /\ w = Tip(i) /\ ring'[i][i][w] = v
          /\ RowsHonest' /\ RowsKept'
      BY AdmitRows
    <2> QED
      BY SMT, <1>4, <2>1
  <1>7. /\ \A w \in Prepared(i, r) : h[w] = Truth(e, w)' /\ Whole(e, w)'
        /\ \A w \in Wire : w \notin Prepared(i, r) => h[w] \in {hash[i][w], NoFrame}
        /\ \A w \in Wire : sim_tick[i] <= w /\ hash[i][w] # NoFrame => h[w] = hash[i][w]
        /\ ~Clash(i, r)
    <2>1. /\ RowsHonest' /\ TypeOK' /\ r = Rows(i, v) /\ h = Published(i, r) /\ e = epoch[i]
          /\ \A k \in Seats : \A d \in Epoch : \A w \in Wire :
                sampled[k][d][w] # NoRow => sampled'[k][d][w] = sampled[k][d][w]
      BY <1>1, <1>2, <1>3, <1>4, <1>6
    <2> QED
      BY ZenonT(60), <2>1, AdmitFrames
  <1>8. hash'[i] = h /\ \A k \in Seats \ {i} : hash'[k] = hash[k]
    BY SMT, <1>1, <1>5 DEF TypeOK
  <1>9. Grows
    <2>1. \A k \in Seats : sim_tick[k] <= sim_tick'[k]
      BY SMT, <1>1, <1>5, TipType
    <2> QED
      <3>1. \A k \in Seats : \A w \in Wire :
               sim_tick'[k] <= w /\ hash[k][w] # NoFrame => hash'[k][w] = hash[k][w]
        BY <1>5, <1>7, <1>8
      <3>2. \A k \in Seats : \A d \in Epoch : \A w \in Wire :
               sampled[k][d][w] # NoRow => sampled'[k][d][w] = sampled[k][d][w]
        BY <1>6
      <3> QED
        BY <1>5, <2>1, <3>1, <3>2 DEF Grows
  <1>10. HeardHonest'
    BY <1>1, <1>5, <1>9, Kept DEF HeardHonest
  <1>11. HashHonest'
    <2>1. ASSUME NEW k \in Seats, NEW w \in Wire
          PROVE  HashOK(k, w)'
      <3>1. CASE k = i /\ w \in Prepared(i, r)
        BY <1>4, <1>5, <1>7, <1>8, <3>1 DEF HashOK, Vouched
      <3>2. CASE ~(k = i /\ w \in Prepared(i, r))
        <4>1. hash'[k][w] \in {hash[k][w], NoFrame} /\ epoch'[k] = epoch[k]
          BY <1>5, <1>7, <1>8, <3>2
        <4> QED
          BY <1>1, <1>9, <4>1, Kept
      <3> QED
        BY <3>1, <3>2
    <2> QED
      BY <2>1 DEF HashHonest
  <1>12. \A w \in Wire : h[w] # NoFrame => /\ Vouched(h[w], e, w)' /\ Holds(i, e, w)'
    BY <1>4, <1>5, <1>8, <1>11, ZenonT(60) DEF HashHonest, HashOK, Vouched, Holds
  <1>13. NetHonest'
    <2>1. ASSUME NEW m \in Confirms(i, r, h)
          PROVE  MessageOK(m)'
      <3>1. /\ m.op = "CONFIRM" /\ m.from = i /\ m.epoch = e
            /\ m.wire \in Wire /\ m.frame = h[m.wire] /\ m.frame # NoFrame
        <4>1. \A x \in Confirms(i, r, h) :
                 /\ x.op = "CONFIRM" /\ x.from = i /\ x.epoch = epoch[i]
                 /\ x.wire \in Wire /\ x.frame = h[x.wire] /\ x.frame # NoFrame
          BY SMT, <1>1, ConfirmsType
        <4> QED
          BY <1>4, <4>1
      <3>2. Vouched(h[m.wire], e, m.wire)' /\ Holds(i, e, m.wire)'
        BY <1>12, <3>1
      <3> QED
        BY <3>1, <3>2 DEF MessageOK
    <2>2. PICK q \in [Wire -> Row] : q = WithSample(i, v) /\ q = ring'[i][i]
      <3>1. ring'[i] = r /\ r[i] = WithSample(i, v)
        BY ZenonT(60), <1>1, <1>2, <1>5, RowsType DEF TypeOK
      <3> QED
        BY <3>1
    <2>3. ASSUME NEW m \in send_input_bundle(i, q, delay[i], epoch[i])
          PROVE  MessageOK(m)'
      <3>1. /\ m.op = "INPUT" /\ m.from = i /\ m.epoch = epoch[i]
            /\ m.wire \in Wire /\ m.row = q[m.wire] /\ m.row # NoRow
        <4>1. \A x \in send_input_bundle(i, q, delay[i], epoch[i]) :
                 /\ x.op = "INPUT" /\ x.from = i /\ x.epoch = epoch[i]
                 /\ x.wire \in Wire /\ x.row = q[x.wire] /\ x.row # NoRow
          BY <1>1, BundleType
        <4> QED
          BY <4>1
      <3>2. RowOK(i, i, m.wire)'
        BY <1>6, <3>1 DEF RowsHonest
      <3>3. m.row = sampled'[i][epoch[i]][m.wire]
        BY <1>5, <2>2, <3>1, <3>2 DEF RowOK
      <3> QED
        BY <3>1, <3>3 DEF MessageOK
    <2>4. net' \subseteq net \cup Confirms(i, r, h) \cup send_input_bundle(i, q, delay[i], epoch[i])
      <3>1. net' = net \cup Confirms(i, Rows(i, v), Published(i, Rows(i, v))) \cup
                   (IF suppress[i] THEN {}
                    ELSE send_input_bundle(i, WithSample(i, v), delay[i], epoch[i]))
        BY AdmitEffect
      <3>2. net' = net \cup Confirms(i, r, h) \cup
                   (IF suppress[i] THEN {} ELSE send_input_bundle(i, q, delay[i], epoch[i]))
        BY <1>2, <1>3, <2>2, <3>1
      <3> QED
        BY <3>2
    <2> QED
      BY <1>1, <1>9, <2>1, <2>3, <2>4, Kept DEF NetHonest
  <1>14. /\ \A k \in Seats : \A d \in Epoch : \A w \in Wire :
               played'[k][d][w] = IF Admits(i, r) /\ k = i /\ d = e /\ w = t THEN h[t]
                                  ELSE played[k][d][w]
    <2>1. PICK f \in [Seats -> [Epoch -> [Wire -> Frame]]] : f = played
      BY <1>1 DEF TypeOK
    <2>2. PICK g : g = [f EXCEPT ![i][e][t] = h[t]]
      OBVIOUS
    <2>3. played' = IF Admits(i, r) THEN g ELSE f
      BY <1>5, <2>1, <2>2
    <2>4. h[t] \in Frame
      OBVIOUS
    <2>5. \A k \in Seats : \A d \in Epoch : \A w \in Wire :
             g[k][d][w] = IF k = i /\ d = e /\ w = t THEN h[t] ELSE f[k][d][w]
      BY SMT, <2>2, <2>4, Except3
    <2> QED
      BY SMT, <2>1, <2>3, <2>5
  <1>15. PlayedHonest'
    <2>1. ASSUME NEW k \in Seats, NEW d \in Epoch, NEW w \in Wire
          PROVE  PlayedOK(k, d, w)'
      <3>1. CASE Admits(i, r) /\ k = i /\ d = e /\ w = t
        <4>1. h[t] # NoFrame /\ \A j \in Seats \ {i} : heard[i][j][t] = h[t]
          BY <1>3, <1>4, <3>1 DEF Admits, wire_confirmations_agree
        <4>2. \A j \in Seats \ {i} : Holds(j, e, t)'
          BY <1>4, <1>5, <1>10, <4>1 DEF HeardHonest, HeardOK
        <4>3. \A j \in Seats : Holds(j, e, t)'
          BY <1>12, <4>1, <4>2
        <4> QED
          BY <1>12, <1>14, <3>1, <4>1, <4>3 DEF PlayedOK
      <3>2. CASE ~(Admits(i, r) /\ k = i /\ d = e /\ w = t)
        BY <1>1, <1>9, <1>14, <3>2, Kept
      <3> QED
        BY <3>1, <3>2
    <2> QED
      BY <2>1 DEF PlayedHonest
  <1>16. PlayedInOrder'
    <2>1. ASSUME NEW k \in Seats, NEW w \in Wire
          PROVE  OrderOK(k, w)'
      <3>1. OrderOK(k, w) /\ epoch[k] \in Epoch /\ w \in Nat /\ sim_tick[k] \in Nat
        BY <1>1, TipType, Constants DEF IInv, PlayedInOrder
      <3>2. CASE k = i
        <4>1. Admits(i, r) => h[t] # NoFrame
          BY <1>3, <1>4 DEF Admits, wire_confirmations_agree
        <4>2. PICK b \in BOOLEAN : b = (admitted[i] \/ Admits(i, r))
          OBVIOUS
        <4>3. admitted'[i] = b
          BY SMT, <1>1, <1>5, <4>2 DEF TypeOK
        <4>4. /\ epoch'[i] = e /\ sim_tick'[i] = t
              /\ played'[i][e][w] = IF Admits(i, r) /\ w = t THEN h[t] ELSE played[i][e][w]
          BY SMT, <1>4, <1>5, <1>14
        <4>5. played[i][e][w] # NoFrame <=> w < t \/ (w = t /\ admitted[i])
          BY <1>4, <3>1, <3>2 DEF OrderOK
        <4>6. CASE Admits(i, r)
          <5>1. played'[i][e][w] # NoFrame <=> w < t \/ w = t
            BY <4>1, <4>4, <4>5, <4>6
          <5> QED
            BY <3>2, <4>2, <4>3, <4>4, <4>6, <5>1 DEF OrderOK
        <4>7. CASE ~Admits(i, r)
          <5>1. played'[i][e][w] # NoFrame <=> w < t \/ (w = t /\ admitted[i])
            BY <4>4, <4>5, <4>7
          <5> QED
            BY <3>2, <4>2, <4>3, <4>4, <4>7, <5>1 DEF OrderOK
        <4> QED
          BY <4>6, <4>7
      <3>3. CASE k # i
        <4>1. admitted'[k] = admitted[k]
          BY SMT, <1>1, <1>5, <3>3 DEF TypeOK
        <4> QED
          BY SMT, <1>5, <1>14, <3>1, <3>3, <4>1 DEF OrderOK
      <3> QED
        BY <3>2, <3>3
    <2> QED
      BY <2>1 DEF PlayedInOrder
  <1>17. PlayedInEpoch'
    <2>1. ASSUME NEW k \in Seats, NEW d \in Epoch, NEW w \in Wire, played'[k][d][w] # NoFrame
          PROVE  d <= epoch'[k]
      <3>1. CASE k = i /\ d = e
        <4>1. e \in Nat
          BY Numbers
        <4> QED
          BY SMT, <1>4, <1>5, <3>1, <4>1
      <3>2. CASE ~(k = i /\ d = e)
        <4>1. played[k][d][w] # NoFrame
          BY <1>14, <2>1, <3>2
        <4> QED
          BY <1>5, <4>1 DEF IInv, PlayedInEpoch
      <3> QED
        BY <3>1, <3>2
    <2> QED
      BY <2>1 DEF PlayedInEpoch
  <1>18. NoFalseDesync'
    <2>1. desync' = [desync EXCEPT ![i] = FALSE]
      <3>1. Clash(i, r) = FALSE
        BY <1>7 DEF Clash
      <3> QED
        BY <1>5, <3>1
    <2> QED
      BY <1>1, <2>1, ZenonT(60) DEF IInv, NoFalseDesync, TypeOK
  <1>19. DelaysSane'
    BY <1>5 DEF IInv, DelaysSane
  <1>20. SuppressedAtZero'
    <2>1. ASSUME NEW k \in Seats, suppress'[k], NEW w \in Wire, sampled'[k][epoch'[k]][w] # NoRow
          PROVE  w = delay'[k]
      <3>1. sim_tick[k] = 0 /\ (sampled[k][epoch[k]][w] # NoRow => w = delay[k])
        BY <1>5, <2>1 DEF IInv, SuppressedAtZero
      <3>2. epoch[k] \in Epoch /\ Tip(k) = 0 + delay[k] /\ delay[k] \in Nat
        BY SMT, <1>1, <3>1, TipType, Constants
      <3> QED
        BY SMT, <1>5, <1>6, <2>1, <3>1, <3>2
    <2> QED
      BY <1>5, <2>1 DEF IInv, SuppressedAtZero
  <1> QED
    BY <1>9, <1>1, <1>6, <1>10, <1>11, <1>13, <1>15, <1>16, <1>17, <1>18, <1>19, <1>20 DEF IInv

-----------------------------------------------------------------------------
(* The seeded prefix satisfies the invariant. *)
LEMMA InitInv ==
    ASSUME Init
    PROVE  IInv
PROOF
  <1> USE DEF Init
  <1>1. TypeOK
    <2>1. Delay \in 0 .. MaxDelay /\ NoDelay \in [value : 0 .. MaxDelay, effective : Nat]
      BY SMT, Constants DEF NoDelay
    <2>2. ring \in [Seats -> [Seats -> [Wire -> Row]]]
      BY Constants
    <2>3. sampled \in [Seats -> [Epoch -> [Wire -> Row]]]
      BY Constants
    <2>4. /\ hash \in [Seats -> [Wire -> Frame]] /\ heard \in [Seats -> [Seats -> [Wire -> Frame]]]
          /\ played \in [Seats -> [Epoch -> [Wire -> Frame]]]
      BY Constants
    <2> QED
      BY SMT, <2>1, <2>2, <2>3, <2>4, Constants DEF TypeOK
  <1>2. RowsHonest
    BY Constants DEF RowsHonest, RowOK, NoRows
  <1>3. RowsKept
    <2>1. ASSUME NEW i \in Seats, NEW e \in Epoch, NEW w \in Wire, sampled[i][e][w] # NoRow
          PROVE  e = 0 /\ ring[i][i][w] # NoRow /\ w < Delay
      <3>1. e = 0
        BY <2>1 DEF NoRows
      <3>2. sampled[i][e][w] = Seeded[w] /\ ring[i][i][w] = Seeded[w]
        BY <3>1
      <3> QED
        BY <2>1, <3>1, <3>2 DEF Seeded
    <2> QED
      BY SMT, <2>1, Constants DEF RowsKept, KeptOK
  <1>4. HashHonest /\ HeardHonest /\ NetHonest /\ PlayedHonest /\ PlayedInEpoch
    BY Constants DEF HashHonest, HashOK, HeardHonest, HeardOK, NetHonest, PlayedHonest, PlayedOK, PlayedInEpoch
  <1>5. PlayedInOrder
    BY SMT, Constants DEF PlayedInOrder, OrderOK
  <1>6. NoFalseDesync /\ DelaysSane /\ SuppressedAtZero
    BY SMT, Constants DEF NoFalseDesync, DelaysSane, SuppressedAtZero
  <1> QED
    BY <1>1, <1>2, <1>3, <1>4, <1>5, <1>6 DEF IInv

(* Every step preserves the invariant and lets the truth only grow. *)
LEMMA NextInv ==
    ASSUME IInv, [Next]_vars
    PROVE  IInv' /\ Grows
PROOF
  <1>1. CASE UNCHANGED vars
    BY <1>1, StutterInv
  <1>2. ASSUME NEW i \in Seats, NEW v \in Inputs, try_admit(i, v) \/ prime_delay_inputs(i, v)
        PROVE  IInv' /\ Grows
    BY <1>2, AdmitInv, PrimeInv
  <1>3. ASSUME NEW i \in Seats, advance(i) \/ pump(i) \/ hard_resync(i) \/ Lose(i)
        PROVE  IInv' /\ Grows
    BY <1>3, AdvanceInv, PumpInv, ResyncInv, LoseInv
  <1>4. ASSUME NEW i \in Seats, NEW d \in NewDelays, request_delay_change(i, d)
        PROVE  IInv' /\ Grows
    BY <1>4, RequestInv
  <1>5. ASSUME NEW i \in Seats, NEW m \in net, handle_decoded(i, m)
        PROVE  IInv' /\ Grows
    <2>1. OnInput(i, m) \/ OnConfirm(i, m) \/ OnDelaySync(i, m)
      BY <1>5 DEF handle_decoded
    <2> QED
      BY <1>5, <2>1, InputInv, ConfirmInv, DelaySyncInv
  <1> QED
    BY <1>1, <1>2, <1>3, <1>4, <1>5 DEF Next

(* The invariant is inductive. *)
THEOREM Invariance == Spec => []IInv
PROOF
  <1>1. Init => IInv
    BY InitInv
  <1>2. IInv /\ [Next]_vars => IInv'
    BY NextInv
  <1> QED
    BY <1>1, <1>2, PTL DEF Spec

(* Every variable of the session keeps its type: in particular the input   *)
(* delay stays within 0 .. MaxDelay whatever request_delay_change and      *)
(* DELAY_SYNC do, and what is sent is a well-formed packet.                *)
THEOREM TypeCorrect == Spec => []TypeOK
PROOF
  <1>1. IInv => TypeOK
    BY DEF IInv
  <1> QED
    BY <1>1, Invariance, PTL

(* Every row of every frame handed to host.publish is the one its seat     *)
(* sampled for that tick of that epoch.                                    *)
THEOREM PlaysWhatWasSampledHolds == Spec => []PlaysWhatWasSampled
PROOF
  <1>1. ASSUME IInv PROVE PlaysWhatWasSampled
    <2>1. SUFFICES ASSUME NEW i \in Seats, NEW j \in Seats, NEW e \in Epoch, NEW t \in Wire,
                          played[i][e][t] # NoFrame
                   PROVE  played[i][e][t][j] = sampled[j][e][t]
      BY DEF PlaysWhatWasSampled
    <2>2. played[i][e][t] = Truth(e, t)
      BY <1>1, <2>1 DEF IInv, PlayedHonest, PlayedOK, Vouched
    <2> QED
      BY <2>2 DEF Truth
  <1> QED
    BY <1>1, Invariance, PTL

(* Lockstep: two seats never play different inputs for the same tick of    *)
(* the same epoch.                                                         *)
THEOREM AgreementHolds == Spec => []Agreement
PROOF
  <1>1. IInv => Agreement
    BY SMT DEF IInv, PlayedHonest, PlayedOK, Vouched, Agreement
  <1> QED
    BY <1>1, Invariance, PTL

(* A frame some seat has played is resolved by every seat of that epoch    *)
(* that has yet to play it: try_admit waits for every INPUT_CONFIRM.       *)
THEOREM NeverStrandedHolds == Spec => []NeverStranded
PROOF
  <1>1. ASSUME IInv PROVE NeverStranded
    <2>1. SUFFICES ASSUME NEW i \in Seats, NEW j \in Seats, NEW t \in Wire,
                          played[i][epoch[j]][t] # NoFrame, sim_tick[j] <= t
                   PROVE  hash[j][t] = played[i][epoch[j]][t]
      BY DEF NeverStranded
    <2>2. TypeOK
      BY <1>1 DEF IInv
    <2>3. PICK e \in Epoch : e = epoch[j]
      BY <2>2, TipType
    <2>4. played[i][e][t] = Truth(e, t) /\ Holds(j, e, t)
      BY <1>1, <2>1, <2>3 DEF IInv, PlayedHonest, PlayedOK, Vouched
    <2>5. ~(t < sim_tick[j])
      BY SMT, <2>1, <2>2, TipType, Constants
    <2> QED
      BY <2>3, <2>4, <2>5 DEF Holds
  <1> QED
    BY <1>1, Invariance, PTL

(* Seats that run this code never raise input_desync against each other.   *)
THEOREM NoFalseDesyncHolds == Spec => []NoFalseDesync
PROOF
  <1>1. IInv => NoFalseDesync
    BY DEF IInv
  <1> QED
    BY <1>1, Invariance, PTL

(* No seat leads another of its epoch by more than the largest delay and   *)
(* one frame.                                                              *)
THEOREM LeadBoundedHolds == Spec => []LeadBounded
PROOF
  <1>1. ASSUME IInv PROVE LeadBounded
    <2>1. SUFFICES ASSUME NEW i \in Seats, NEW j \in Seats, epoch[i] = epoch[j]
                   PROVE  sim_tick[i] <= sim_tick[j] + MaxDelay + 1
      BY DEF LeadBounded
    <2>2. TypeOK
      BY <1>1 DEF IInv
    <2>3. sim_tick[i] \in Nat /\ sim_tick[j] \in Nat /\ sim_tick[i] \in Wire /\ MaxDelay \in Nat
      BY <2>2, TipType, Constants
    <2>4. CASE sim_tick[i] = 0
      BY SMT, <2>3, <2>4
    <2>5. CASE sim_tick[i] # 0
      <3>1. PICK e \in Epoch, t \in Wire : e = epoch[i] /\ t = sim_tick[i] - 1
        <4>1. epoch[i] \in Epoch
          BY <2>2, TipType
        <4>2. sim_tick[i] - 1 \in Wire
          BY SMT, <2>3, <2>5, Constants DEF Wire
        <4> QED
          BY <4>1, <4>2
      <3>2. t < sim_tick[i]
        BY SMT, <2>3, <3>1
      <3>3. played[i][e][t] # NoFrame
        BY <1>1, <3>1, <3>2 DEF IInv, PlayedInOrder, OrderOK
      <3>4. sampled[j][e][t] # NoRow
        BY <1>1, <3>3 DEF IInv, PlayedHonest, PlayedOK, Vouched, Whole
      <3>5. t <= sim_tick[j] + MaxDelay
        BY <1>1, <2>1, <3>1, <3>4 DEF IInv, RowsKept, KeptOK
      <3> QED
        BY SMT, <2>3, <3>1, <3>5
    <2> QED
      BY <2>4, <2>5
  <1> QED
    BY <1>1, Invariance, PTL
-----------------------------------------------------------------------------
(* The refinement.  The log entry of a tick, and the step that adds one. *)
Entry(e, t) == IF \E i \in Seats : played[i][e][t] # NoFrame THEN Truth(e, t) ELSE NoFrame
Entries == [e \in Epoch |-> [t \in Wire |-> Entry(e, t)]]

(* No step changes what the log already says. *)
LEMMA EntryKept ==
    ASSUME IInv, IInv', Grows, NEW e \in Epoch, NEW t \in Wire,
           \A i \in Seats : played'[i][e][t] = played[i][e][t]
    PROVE  Entry(e, t)' = Entry(e, t)
PROOF
  <1>1. CASE \E i \in Seats : played[i][e][t] # NoFrame
    <2>1. Whole(e, t)
      BY <1>1 DEF IInv, PlayedHonest, PlayedOK, Vouched
    <2>2. Truth(e, t)' = Truth(e, t)
      BY <2>1, Persist DEF IInv
    <2> QED
      BY <1>1, <2>2 DEF Entry
  <1>2. CASE ~\E i \in Seats : played[i][e][t] # NoFrame
    BY <1>2 DEF Entry
  <1> QED
    BY <1>1, <1>2

(* A step that plays nothing leaves the log alone. *)
LEMMA SameLog ==
    ASSUME IInv, IInv', Grows, played' = played
    PROVE  UNCHANGED <<Entries, played>>
PROOF
  <1>1. \A e \in Epoch : \A t \in Wire : Entry(e, t)' = Entry(e, t)
    BY EntryKept
  <1> QED
    BY <1>1 DEF Entries

(* Admission of a frame is a Show step of the log. *)
LEMMA AdmitShows ==
    ASSUME IInv, IInv', Grows, NEW i \in Seats, NEW v \in Inputs, try_admit(i, v)
    PROVE  Log!Next \/ UNCHANGED <<Entries, played>>
PROOF
  <1>1. TypeOK /\ TypeOK'
    BY DEF IInv
  <1>2. PICK e \in Epoch, t \in Wire : e = epoch[i] /\ t = sim_tick[i]
    BY <1>1, TipType
  <1>3. PICK r : r = Rows(i, v)
    OBVIOUS
  <1>4. PICK f : f = Published(i, r)[t]
    OBVIOUS
  <1>5. played' = IF Admits(i, r) THEN [played EXCEPT ![i][e][t] = f] ELSE played
    BY <1>2, <1>3, <1>4, AdmitEffect DEF WithPlayed
  <1>6. CASE ~Admits(i, r)
    BY <1>5, <1>6, SameLog
  <1>7. CASE Admits(i, r)
    <2>1. f # NoFrame
      BY <1>2, <1>4, <1>7 DEF Admits, wire_confirmations_agree
    <2>2. f \in Frame
      BY <1>1, <1>3, <1>4, RowsType, PublishedType
    <2>3. PICK g \in [Seats -> [Epoch -> [Wire -> Frame]]] : g = played
      BY <1>1 DEF TypeOK
    <2>4. \A k \in Seats : \A d \in Epoch : \A w \in Wire :
             played'[k][d][w] = IF k = i /\ d = e /\ w = t THEN f ELSE played[k][d][w]
      BY SMT, <1>5, <1>7, <2>2, <2>3, Except3
    <2>5. PlayedOK(i, e, t)' /\ PlayedOK(i, e, t)
      BY DEF IInv, PlayedHonest
    <2>6. f = Truth(e, t)' /\ Whole(e, t)'
      BY <2>1, <2>4, <2>5 DEF PlayedOK, Vouched
    <2>7. Entry(e, t) \in {NoFrame, f}
      <3>1. CASE \E k \in Seats : played[k][e][t] # NoFrame
        <4>1. Whole(e, t)
          BY <3>1 DEF IInv, PlayedHonest, PlayedOK, Vouched
        <4>2. Truth(e, t)' = Truth(e, t)
          BY <1>1, <4>1, Persist DEF IInv
        <4> QED
          BY <2>6, <3>1, <4>2 DEF Entry
      <3>2. CASE ~\E k \in Seats : played[k][e][t] # NoFrame
        BY <3>2 DEF Entry
      <3> QED
        BY <3>1, <3>2
    <2>8. CASE played[i][e][t] # NoFrame
      <3>1. played[i][e][t] = f
        BY <2>6, <2>7, <2>8, <2>1 DEF IInv, PlayedHonest, PlayedOK, Vouched, Entry
      <3>2. \A k \in Seats : \A d \in Epoch : \A w \in Wire : played'[k][d][w] = played[k][d][w]
        BY SMT, <2>4, <3>1
      <3>3. played' = played
        <4>1. /\ played \in [Seats -> [Epoch -> [Wire -> Frame]]]
              /\ played' \in [Seats -> [Epoch -> [Wire -> Frame]]]
          BY <1>1 DEF TypeOK
        <4> QED
          BY SMT, <1>5, <1>7, <3>1, <4>1
      <3> QED
        BY <3>3, SameLog
    <2>9. CASE played[i][e][t] = NoFrame
      <3>1. \A u \in Wire : u < t => played[i][e][u] # NoFrame
        BY <1>2 DEF IInv, PlayedInOrder, OrderOK
      <3>2. \A d \in Epoch : d > e => \A u \in Wire : played[i][d][u] = NoFrame
        <4>1. \A d \in Epoch : d > e => ~(d <= epoch[i])
          <5>1. SUFFICES ASSUME NEW d \in Epoch, d > e PROVE ~(d <= e)
            BY <1>2
          <5>2. d \in Nat /\ e \in Nat
            BY Numbers
          <5> QED
            BY SMT, <5>1, <5>2
        <4> QED
          BY <4>1 DEF IInv, PlayedInEpoch
      <3>3. Entries' = [Entries EXCEPT ![e][t] = f]
        <4>1. \A d \in Epoch : \A w \in Wire :
                 Entry(d, w)' = IF d = e /\ w = t THEN f ELSE Entry(d, w)
          <5>1. Entry(e, t)' = f
            BY <2>1, <2>4, <2>6 DEF Entry
          <5>2. ASSUME NEW d \in Epoch, NEW w \in Wire, ~(d = e /\ w = t)
                PROVE  Entry(d, w)' = Entry(d, w)
            BY <2>4, <5>2, EntryKept
          <5> QED
            BY <5>1, <5>2
        <4>2. Entries' = [d \in Epoch |-> [w \in Wire |->
                            IF d = e /\ w = t THEN f ELSE Entry(d, w)]]
          BY <4>1 DEF Entries
        <4> QED
          BY <4>2, ZenonT(60) DEF Entries
      <3>4. Log!Show(i, e, t, f)
        <4>1. Entries[e][t] = Entry(e, t)
          BY DEF Entries
        <4> QED
          BY <1>5, <1>7, <2>1, <2>7, <2>9, <3>1, <3>2, <3>3, <4>1 DEF Log!Show, Entries, Entry
      <3> QED
        BY <2>2, <3>4 DEF Log!Next
    <2> QED
      BY <2>8, <2>9
  <1> QED
    BY <1>6, <1>7

(* The session implements the shared log: the frames handed to             *)
(* host.publish are those of one common log per epoch, in order, without   *)
(* gaps or repetition, and never of an epoch left behind.                  *)
THEOREM Refinement == Spec => ImplementsSharedLog
PROOF
  <1>1. Init => Log!Init
    BY SMT DEF Init, Log!Init
  <1>2. ASSUME IInv, IInv', [Next]_vars
        PROVE  Log!Next \/ UNCHANGED <<Entries, played>>
    <2>1. Grows
      BY <1>2, NextInv
    <2>2. CASE played' = played
      BY <1>2, <2>1, <2>2, SameLog
    <2>3. ASSUME NEW i \in Seats, NEW v \in Inputs, try_admit(i, v)
          PROVE  Log!Next \/ UNCHANGED <<Entries, played>>
      BY <1>2, <2>1, <2>3, AdmitShows
    <2>4. played' = played \/ \E i \in Seats : \E v \in Inputs : try_admit(i, v)
      BY <1>2 DEF Next, vars, prime_delay_inputs, advance, pump, hard_resync, Lose,
                  request_delay_change, handle_decoded
    <2> QED
      BY <2>2, <2>3, <2>4
  <1>3. IInv /\ IInv' /\ [Next]_vars => [Log!Next]_<<Entries, played>>
    BY <1>2
  <1> QED
    BY <1>1, <1>3, Invariance, PTL DEF Spec, ImplementsSharedLog, Log!Spec, Entries, Entry
=============================================================================
