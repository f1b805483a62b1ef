---------------------------- MODULE StartProofs -----------------------------
(***************************************************************************)
(* Proofs about the start of a session: the startup-profile barrier for    *)
(* every number of seats, every roster, every set of profiles and          *)
(* qualifications, and the bootstrap for every set of seats, every input   *)
(* delay, and a link that loses, repeats, delays and reorders whatever it  *)
(* likes.                                                                  *)
(***************************************************************************)
EXTENDS Profiles, Bootstrap, WellFoundedInduction, TLAPS

-----------------------------------------------------------------------------
(***************************************************************************)
(* The startup profiles.                                                   *)
(***************************************************************************)

(* A non-empty set of profile bits has a highest element, so the search of *)
(* profiles_choose from bit 31 downwards finds it.                         *)
LEMMA HighestExists ==
    ASSUME NEW S \in SUBSET Profile, S # {}
    PROVE  Highest(S) \in S /\ \A c \in S : c <= Highest(S)
<1> DEFINE T == {n \in Nat : MaxProfile - n \in S}
<1>1. T \subseteq Nat /\ T # {}
  <2>1. PICK b \in S : TRUE
    OBVIOUS
  <2>2. MaxProfile - b \in Nat /\ MaxProfile - (MaxProfile - b) = b
    BY MaxProfileAssumption DEF Profile
  <2>3. QED
    BY <2>1, <2>2
<1>2. PICK n \in T : \A k \in T : ~(<<k, n>> \in OpToRel(<, Nat))
  BY <1>1, NatLessThanWellFounded, WFMin, Zenon
<1>3. \A k \in T : ~(k < n)
  BY <1>2, Zenon DEF OpToRel
<1>4. \A c \in S : c <= MaxProfile - n
  <2> SUFFICES ASSUME NEW c \in S PROVE c <= MaxProfile - n
    OBVIOUS
  <2>1. MaxProfile - c \in T
    BY MaxProfileAssumption DEF Profile
  <2>2. QED
    BY <2>1, <1>3, MaxProfileAssumption DEF Profile
<1>5. \E b \in S : \A c \in S : c <= b
  BY <1>4
<1>6. QED
  BY <1>5, Zenon DEF Highest

-----------------------------------------------------------------------------
(* What a seat's struct may never lose: a later state r keeps the identity *)
(* of p, its offers with their contents, its ACKs and its choice.          *)
Grows(p, r) ==
    /\ r.active = p.active /\ r.qualification = p.qualification /\ r.occupied = p.occupied
    /\ p.offers \subseteq r.offers
    /\ \A j \in p.offers : r.caps[j] = p.caps[j]
    /\ p.acks \subseteq r.acks /\ p.acknowledged_by \subseteq r.acknowledged_by
    /\ p.acks # {} => r.selected = p.selected /\ r.transcript = p.transcript

Masks(p) ==
    /\ p.offers \cup p.acks \subseteq p.occupied
    /\ p.acknowledged_by \subseteq p.acks

(* The decision recorded in a seat that has chosen is the one its stored   *)
(* offers determine.                                                       *)
Decision(i, p) ==
    p.acks # {} =>
        /\ p.active /\ i \in p.acks /\ p.offers = p.occupied /\ 0 \in Common(p)
        /\ p.selected = Highest(Common(p))
        /\ p.transcript = Transcript(p.qualification, p.occupied, p.caps, p.selected)

(* A seat that has every offer has chosen, or refused. *)
Settled(p) == p.active /\ ~p.refused /\ p.offers = p.occupied => p.acks # {}

(* What a seat commits to is a transcript. *)
LEMMA TranscriptType ==
    ASSUME NEW p \in ProfileState, NEW sel \in Profile
    PROVE  Transcript(p.qualification, p.occupied, p.caps, sel) \in Transcripts
BY DEF ProfileState, Transcripts, Transcript

(* The highest common profile is common, and no common profile is higher. *)
LEMMA CommonHighest ==
    ASSUME NEW p, 0 \in Common(p)
    PROVE  /\ Highest(Common(p)) \in Common(p)
           /\ Highest(Common(p)) \in Profile
           /\ \A c \in Common(p) : c <= Highest(Common(p))
<1>1. Common(p) \in SUBSET Profile /\ Common(p) # {}
  BY DEF Common
<1>2. QED
  BY <1>1, HighestExists

SameFields(p, r) ==
    /\ r.active = p.active /\ r.qualification = p.qualification
    /\ r.occupied = p.occupied /\ r.caps = p.caps /\ r.offers = p.offers

(* Refusing changes only the refusal. *)
LEMMA RefuseFields ==
    ASSUME NEW p \in ProfileState
    PROVE  LET r == Refuse(p)
           IN  /\ r \in ProfileState /\ SameFields(p, r) /\ r.refused
               /\ r.selected = p.selected /\ r.transcript = p.transcript
               /\ r.acks = p.acks /\ r.acknowledged_by = p.acknowledged_by
BY Zenon DEF ProfileState, SameFields, Refuse

(* profiles_choose commits to the highest common profile and acknowledges  *)
(* it itself.                                                              *)
LEMMA ChooseFields ==
    ASSUME NEW i \in Seats, NEW p \in ProfileState, 0 \in Common(p)
    PROVE  LET r == Choose(i, p)
               sel == Highest(Common(p))
           IN  /\ r \in ProfileState
               /\ SameFields(p, r)
               /\ r.selected = sel
               /\ r.transcript = Transcript(p.qualification, p.occupied, p.caps, sel)
               /\ r.acks = {i} /\ r.acknowledged_by = {i}
<1> DEFINE sel == Highest(Common(p))
           tr == Transcript(p.qualification, p.occupied, p.caps, sel)
<1>1. sel \in Profile /\ tr \in Transcripts
  BY CommonHighest, TranscriptType
<1>2. Choose(i, p) = [p EXCEPT !.selected = sel, !.transcript = tr, !.acks = {i},
                                    !.acknowledged_by = {i}, !.dirty = TRUE]
  BY DEF Choose
<1> HIDE DEF sel, tr
<1> DEFINE r == [p EXCEPT !.selected = sel, !.transcript = tr, !.acks = {i},
                          !.acknowledged_by = {i}, !.dirty = TRUE]
<1>3. /\ r \in ProfileState
      /\ SameFields(p, r)
      /\ r.selected = sel /\ r.transcript = tr
      /\ r.acks = {i} /\ r.acknowledged_by = {i}
  BY <1>1, Zenon DEF ProfileState, SameFields
<1>4. QED
  BY <1>2, <1>3, Zenon DEF sel, tr

(* What profiles_choose makes of p. *)
ChooseOK(i, p, r) ==
    /\ r \in ProfileState /\ Masks(r) /\ Decision(i, r) /\ Settled(r) /\ Grows(p, r)
    /\ SameFields(p, r)
    /\ r.acks \in {p.acks, {i}}
    /\ \/ r.acknowledged_by = p.acknowledged_by
       \/ r.acknowledged_by = {i} /\ i \in r.acks

(* profiles_choose only adds to what the seat has decided. *)
LEMMA ChooseGrows ==
    ASSUME NEW i \in Seats, NEW p \in ProfileState, Masks(p), Decision(i, p),
           p.active, i \in p.occupied
    PROVE  ChooseOK(i, p, profiles_choose(i, p))
<1>1. CASE p.offers # p.occupied \/ p.acks # {}
  <2>1. profiles_choose(i, p) = p
    BY <1>1 DEF profiles_choose
  <2>2. QED
    BY <1>1, <2>1, Zenon DEF ChooseOK, Grows, SameFields, Settled
<1>2. CASE p.offers = p.occupied /\ p.acks = {} /\ 0 \notin Common(p)
  <2>1. profiles_choose(i, p) = Refuse(p)
    BY <1>2 DEF profiles_choose
  <2>2. ChooseOK(i, p, Refuse(p))
    BY <1>2, RefuseFields, Zenon DEF ChooseOK, SameFields, Grows, Masks, Decision, Settled
  <2>3. QED
    BY <2>1, <2>2
<1>3. CASE p.offers = p.occupied /\ p.acks = {} /\ 0 \in Common(p)
  <2>1. profiles_choose(i, p) = Choose(i, p)
    BY <1>3 DEF profiles_choose
  <2>2. PICK r : r = Choose(i, p)
    OBVIOUS
  <2>3. /\ r \in ProfileState
        /\ SameFields(p, r)
        /\ r.selected = Highest(Common(p))
        /\ r.transcript = Transcript(p.qualification, p.occupied, p.caps, Highest(Common(p)))
        /\ r.acks = {i} /\ r.acknowledged_by = {i}
    BY <1>3, <2>2, ChooseFields, Zenon
  <2>4. Common(r) = Common(p)
    BY <2>3 DEF Common, SameFields
  <2>5. ChooseOK(i, p, r)
    BY <1>3, <2>3, <2>4, Zenon DEF ChooseOK, SameFields, Grows, Masks, Decision, Settled
  <2>6. QED
    BY <2>1, <2>2, <2>5
<1>4. QED
  BY <1>1, <1>2, <1>3

(* What profiles_receive makes of p when datagram m arrives: new offers    *)
(* and ACKs come from m alone and repeat what m says.                      *)
ReceiveOK(i, p, m, r) ==
    /\ r \in ProfileState /\ Masks(r) /\ Decision(i, r) /\ Settled(r) /\ Grows(p, r)
    /\ \A j \in r.offers \ p.offers :
          /\ j = m.from /\ m.op = "OFFER" /\ m.qualification = p.qualification
          /\ r.caps[j] = m.caps
    /\ \A j \in r.acks \ p.acks :
          \/ j = i
          \/ /\ j = m.from /\ m.op = "ACK"
             /\ m.selected = r.selected /\ m.transcript = r.transcript
    /\ \A j \in r.acknowledged_by \ p.acknowledged_by :
          \/ j = i /\ i \in r.acks
          \/ j = m.from /\ m.op = "ACK" /\ i \in m.mask

Message(m) ==
    /\ m.from \in Seats /\ m.op \in {"OFFER", "ACK"}
    /\ m.op = "OFFER" => m.caps \in Caps \cup {NoCaps}

(* Ignoring or refusing a packet is a sound way to receive it. *)
LEMMA RefuseOK ==
    ASSUME NEW i, NEW m, NEW p \in ProfileState, Masks(p), Decision(i, p), Settled(p)
    PROVE  ReceiveOK(i, p, m, p) /\ ReceiveOK(i, p, m, Refuse(p))
<1>1. ReceiveOK(i, p, m, p)
  BY Zenon DEF ReceiveOK, Grows
<1>2. Common(Refuse(p)) = Common(p)
  BY RefuseFields, Zenon DEF Common, SameFields
<1>3. ReceiveOK(i, p, m, Refuse(p))
  BY <1>2, RefuseFields, Zenon DEF ReceiveOK, Grows, SameFields, Masks, Decision, Settled
<1>4. QED
  BY <1>1, <1>3

(* Receiving an OFFER adds its sender's offer, or refuses. *)
LEMMA OnOfferOK ==
    ASSUME NEW i \in Seats, NEW m, Message(m), m.op = "OFFER",
           NEW p \in ProfileState, Masks(p), Decision(i, p), Settled(p), p.active,
           i \in p.occupied, m.from \in p.occupied, m.qualification = p.qualification
    PROVE  ReceiveOK(i, p, m, OnOffer(i, p, m))
<1>1. CASE 0 \notin m.caps.profiles \/ (m.from \in p.offers /\ m.caps # p.caps[m.from])
  <2>1. OnOffer(i, p, m) = Refuse(p)
    BY <1>1 DEF OnOffer
  <2>2. QED
    BY <2>1, RefuseOK, Zenon
<1>2. CASE ~(0 \notin m.caps.profiles \/ (m.from \in p.offers /\ m.caps # p.caps[m.from]))
  <2>1. PICK q : q = WithOffer(p, m)
    OBVIOUS
  <2>2. OnOffer(i, p, m) = profiles_choose(i, q)
    BY <1>2, <2>1, Zenon DEF OnOffer
  <2>3. /\ q \in ProfileState
        /\ q.active = p.active /\ q.qualification = p.qualification
        /\ q.occupied = p.occupied /\ q.offers = p.offers \cup {m.from}
        /\ q.caps = [p.caps EXCEPT ![m.from] = m.caps]
        /\ q.selected = p.selected /\ q.transcript = p.transcript
        /\ q.acks = p.acks /\ q.acknowledged_by = p.acknowledged_by
    BY <2>1, Zenon DEF Message, ProfileState, WithOffer
  <2>4. p.caps \in [Seats -> Caps \cup {NoCaps}] /\ m.from \in Seats
    BY Zenon DEF ProfileState, Message
  <2>5. q.caps[m.from] = m.caps /\ \A j \in p.offers : q.caps[j] = p.caps[j]
    BY <1>2, <2>3, <2>4
  <2>6. Decision(i, q)
    <3>1. CASE p.acks = {}
      BY <2>3, <3>1, Zenon DEF Decision
    <3>2. CASE p.acks # {}
      <4>1. m.from \in p.offers /\ m.caps = p.caps[m.from]
        BY <1>2, <3>2, Zenon DEF Decision
      <4>2. q.caps = p.caps
        BY <2>3, <2>4, <4>1
      <4>3. QED
        BY ZenonT(120), <2>3, <4>1, <4>2 DEF Decision, Common
    <3>3. QED
      BY <3>1, <3>2, Zenon
  <2>7. Masks(q)
    BY <2>3 DEF Masks
  <2>8. PICK r : r = profiles_choose(i, q)
    OBVIOUS
  <2>9. ChooseOK(i, q, r)
    BY <2>3, <2>6, <2>7, <2>8, ChooseGrows, Zenon
  <2>10. ReceiveOK(i, p, m, r)
    BY <2>3, <2>5, <2>9 DEF ReceiveOK, ChooseOK, Grows, SameFields
  <2>11. QED
    BY <2>2, <2>8, <2>10, Zenon
<1>3. QED
  BY <1>1, <1>2, Zenon

(* Receiving an ACK adds the acknowledgements it carries, or refuses. *)
LEMMA OnAckOK ==
    ASSUME NEW i \in Seats, NEW m, Message(m), m.op = "ACK",
           NEW p \in ProfileState, Masks(p), Decision(i, p), Settled(p), p.active,
           p.offers = p.occupied, p.acks # {}, m.from \in p.occupied
    PROVE  ReceiveOK(i, p, m, OnAck(i, p, m))
<1> DEFINE bad == \/ m.selected # p.selected \/ m.transcript # p.transcript
                  \/ m.from \notin m.mask \/ ~(m.mask \subseteq p.occupied)
<1>1. CASE bad
  <2>1. OnAck(i, p, m) = Refuse(p)
    BY <1>1, Zenon DEF OnAck
  <2>2. QED
    BY <2>1, RefuseOK, Zenon
<1>2. CASE ~bad
  <2>1. OnAck(i, p, m) = Acknowledge(p, m, i \in m.mask)
    BY <1>2, Zenon DEF OnAck
  <2>2. PICK r : r = Acknowledge(p, m, i \in m.mask)
    OBVIOUS
  <2>3. /\ r \in ProfileState /\ SameFields(p, r)
        /\ r.selected = p.selected /\ r.transcript = p.transcript
        /\ r.acks = p.acks \cup {m.from}
        /\ r.acknowledged_by = IF i \in m.mask THEN p.acknowledged_by \cup {m.from}
                                               ELSE p.acknowledged_by
    <3>1. PICK d \in BOOLEAN : d = (p.dirty \/ m.from \notin p.acks)
      BY Zenon
    <3>2. PICK a \in SUBSET Seats : a = p.acks \cup {m.from}
      BY Zenon DEF ProfileState, Message
    <3>3. PICK b \in SUBSET Seats : b = IF i \in m.mask THEN p.acknowledged_by \cup {m.from}
                                                        ELSE p.acknowledged_by
      BY Zenon DEF ProfileState, Message
    <3>4. r = [p EXCEPT !.dirty = d, !.acks = a, !.acknowledged_by = b]
      BY <2>2, <3>1, <3>2, <3>3, Zenon DEF Acknowledge
    <3>5. /\ r \in ProfileState /\ SameFields(p, r)
          /\ r.selected = p.selected /\ r.transcript = p.transcript
          /\ r.acks = a /\ r.acknowledged_by = b
      BY <3>4, Zenon DEF ProfileState, SameFields
    <3>6. QED
      BY <3>2, <3>3, <3>5, Zenon
  <2>4. Common(r) = Common(p)
    BY <2>3, Zenon DEF Common, SameFields
  <2>5. ReceiveOK(i, p, m, r)
    BY <1>2, <2>3, <2>4 DEF ReceiveOK, Grows, SameFields, Masks, Decision, Settled
  <2>6. QED
    BY <2>1, <2>2, <2>5, Zenon
<1>3. QED
  BY <1>1, <1>2, Zenon

(* profiles_receive only adds to what the seat has decided. *)
LEMMA ReceiveGrows ==
    ASSUME NEW i \in Seats, NEW m, Message(m),
           NEW p \in ProfileState, Masks(p), Decision(i, p), Settled(p),
           p.active => i \in p.occupied
    PROVE  ReceiveOK(i, p, m, profiles_receive(i, p, m))
<1>1. CASE ~p.active \/ p.refused \/ m.from = i \/ m.from \notin p.occupied
  <2>1. profiles_receive(i, p, m) = p
    BY <1>1, Zenon DEF profiles_receive
  <2>2. QED
    BY <2>1, RefuseOK, Zenon
<1>2. CASE ~(~p.active \/ p.refused \/ m.from = i \/ m.from \notin p.occupied)
  <2>1. CASE m.qualification # p.qualification
    <3>1. profiles_receive(i, p, m) = Refuse(p)
      BY <1>2, <2>1, Zenon DEF profiles_receive
    <3>2. QED
      BY <3>1, RefuseOK, Zenon
  <2>2. CASE m.qualification = p.qualification /\ m.op = "OFFER"
    <3>1. profiles_receive(i, p, m) = OnOffer(i, p, m)
      BY <1>2, <2>2, Zenon DEF profiles_receive
    <3>2. QED
      BY <1>2, <2>2, <3>1, OnOfferOK, Zenon
  <2>3. CASE m.qualification = p.qualification /\ m.op = "ACK" /\ p.offers = p.occupied
    <3>1. profiles_receive(i, p, m) = OnAck(i, p, m)
      BY <1>2, <2>3, Zenon DEF profiles_receive
    <3>2. p.acks # {}
      BY <1>2, <2>3, Zenon DEF Settled
    <3>3. QED
      BY <1>2, <2>3, <3>1, <3>2, OnAckOK, Zenon
  <2>4. CASE m.qualification = p.qualification /\ m.op = "ACK" /\ p.offers # p.occupied
    <3>1. profiles_receive(i, p, m) = p
      BY <1>2, <2>4, Zenon DEF profiles_receive
    <3>2. QED
      BY <3>1, RefuseOK
  <2>5. QED
    BY <2>1, <2>2, <2>3, <2>4, Zenon DEF Message
<1>3. QED
  BY <1>1, <1>2, Zenon

-----------------------------------------------------------------------------
(* The inductive invariant.  A seat's own struct is consistent (SeatInv);  *)
(* everything it holds about another seat -- an offer, an ACK, a receipt,  *)
(* a datagram on the link -- is still true of that seat, because an active *)
(* seat only ever Grows; and the barrier of try_admit has been passed      *)
(* wherever a frame was run.                                               *)
SeatInv ==
    \A i \in Seats :
        /\ Masks(prof[i]) /\ Decision(i, prof[i]) /\ Settled(prof[i])
        /\ prof[i].active => /\ prof[i].occupied = Roster[i]
                             /\ i \in Roster[i] /\ i \in prof[i].offers
        /\ ~prof[i].active => prof[i] = Blank

OffersHonest ==
    \A i \in Seats : \A j \in prof[i].offers :
        /\ prof[j].active /\ prof[j].qualification = prof[i].qualification
        /\ prof[i].caps[j] = prof[j].caps[j]

AcksHonest == \A i \in Seats : \A j \in prof[i].acks : SameChoice(i, j)

ReceiptsHonest == \A i \in Seats : \A j \in prof[i].acknowledged_by : i \in prof[j].acks

NetHonest ==
    \A m \in net :
        /\ Message(m)
        /\ prof[m.from].active /\ m.qualification = prof[m.from].qualification
        /\ m.op = "OFFER" => m.caps = prof[m.from].caps[m.from]
        /\ m.op = "ACK" =>
              /\ prof[m.from].acks # {} /\ m.from \in m.mask /\ m.mask \subseteq prof[m.from].acks
              /\ m.selected = prof[m.from].selected
              /\ m.transcript = prof[m.from].transcript

Types ==
    /\ phase \in [Seats -> {"IDLE", "LINKING", "RUNNING"}]
    /\ admitted \in [Seats -> BOOLEAN]
    /\ prof \in [Seats -> ProfileState]

AdmittedAgreed ==
    \A i \in Seats : admitted[i] =>
        /\ phase[i] = "RUNNING"
        /\ prof[i].active => Agreed(i)

IInv == Types /\ SeatInv /\ OffersHonest /\ AcksHonest /\ ReceiptsHonest /\ NetHonest

(* Every active seat grows from one state to the next. *)
ActiveGrows == \A i \in Seats : prof[i].active => Grows(prof[i], prof'[i])

(* The state before profiles_begin. *)
LEMMA BlankType == Blank \in ProfileState /\ Masks(Blank) /\ Settled(Blank)
                   /\ \A i : Decision(i, Blank)
<1>0. 0 \in Profile
  BY MaxProfileAssumption, SMTT(30) DEF Profile
<1>1. NoTranscript \in Transcripts
  <2> DEFINE none == [{} -> Caps \cup {NoCaps}]
  <2>1. [j \in {} |-> [k \in Seats |-> NoCaps][j]] \in none
    BY Zenon
  <2>2. NoTranscript \in [qualification : Qualifications \cup {NoQualification}, occupied : {{}},
                          caps : none, selected : Profile]
    BY <1>0, <2>1, Zenon DEF NoTranscript, Transcript
  <2>3. QED
    BY <2>2, Zenon DEF Transcripts
<1>2. Blank \in ProfileState
  BY <1>1, MaxProfileAssumption DEF Blank, ProfileState, Profile
<1>3. QED
  BY <1>2, Zenon DEF Masks, Settled, Decision, Blank

(* The invariant holds before any seat has begun. *)
LEMMA InitInv == Init => IInv
<1> SUFFICES ASSUME Init PROVE IInv
  OBVIOUS
<1>1. Types
  BY BlankType, Zenon DEF Init, Types
<1>2. SeatInv
  <2>1. \A i \in Seats : prof[i] = Blank /\ ~prof[i].active
    BY Zenon DEF Init, Blank
  <2>2. QED
    BY <2>1, BlankType, Zenon DEF SeatInv
<1>3. OffersHonest /\ AcksHonest /\ ReceiptsHonest /\ NetHonest
  BY Zenon DEF Init, Blank, OffersHonest, AcksHonest, ReceiptsHonest, NetHonest
<1>4. QED
  BY <1>1, <1>2, <1>3 DEF IInv

(* What another seat or a datagram relies on survives a step in which the  *)
(* active seats grow.                                                      *)
LEMMA Persist ==
    ASSUME IInv, ActiveGrows, NEW j \in Seats, prof[j].active
    PROVE  /\ prof'[j].active /\ prof'[j].qualification = prof[j].qualification
           /\ prof'[j].caps[j] = prof[j].caps[j]
           /\ prof[j].acks \subseteq prof'[j].acks
           /\ prof[j].acks # {} => /\ prof'[j].acks # {}
                                   /\ prof'[j].selected = prof[j].selected
                                   /\ prof'[j].transcript = prof[j].transcript
<1>1. Grows(prof[j], prof'[j]) /\ j \in prof[j].offers
  BY Zenon DEF IInv, SeatInv, ActiveGrows
<1>2. QED
  BY <1>1, Zenon DEF Grows

(* Packets in flight stay honest while their senders' states only grow. *)
LEMMA NetPersists ==
    ASSUME IInv, ActiveGrows, net' \subseteq net
    PROVE  NetHonest'
<1> SUFFICES ASSUME NEW m \in net'
             PROVE  /\ Message(m)
                    /\ prof'[m.from].active /\ m.qualification = prof'[m.from].qualification
                    /\ m.op = "OFFER" => m.caps = prof'[m.from].caps[m.from]
                    /\ m.op = "ACK" =>
                         /\ prof'[m.from].acks # {} /\ m.from \in m.mask
                         /\ m.mask \subseteq prof'[m.from].acks
                         /\ m.selected = prof'[m.from].selected
                         /\ m.transcript = prof'[m.from].transcript
  BY Zenon DEF NetHonest, Message
<1>1. /\ Message(m) /\ m.from \in Seats
      /\ prof[m.from].active /\ m.qualification = prof[m.from].qualification
      /\ m.op = "OFFER" => m.caps = prof[m.from].caps[m.from]
      /\ m.op = "ACK" =>
            /\ prof[m.from].acks # {} /\ m.from \in m.mask /\ m.mask \subseteq prof[m.from].acks
            /\ m.selected = prof[m.from].selected
            /\ m.transcript = prof[m.from].transcript
  BY DEF IInv, NetHonest, Message
<1>2. QED
  BY <1>1, Persist, Zenon

(* Receiving a packet preserves the invariant. *)
LEMMA ReceiveInv ==
    ASSUME IInv, NEW i \in Seats, NEW m \in net, Receive(i, m)
    PROVE  IInv' /\ ActiveGrows
<1> DEFINE p == prof[i]
<1>0. PICK r : r = profiles_receive(i, prof[i], m)
  BY Zenon
<1>1. /\ p \in ProfileState /\ Masks(p) /\ Decision(i, p) /\ Settled(p)
      /\ p.active => i \in p.occupied /\ p.occupied = Roster[i] /\ i \in p.offers
  BY Zenon DEF IInv, Types, SeatInv
<1>2. /\ Message(m) /\ m.from \in Seats /\ prof[m.from].active
      /\ m.qualification = prof[m.from].qualification
      /\ m.op = "OFFER" => m.caps = prof[m.from].caps[m.from]
      /\ m.op = "ACK" =>
            /\ prof[m.from].acks # {} /\ m.mask \subseteq prof[m.from].acks
            /\ m.selected = prof[m.from].selected /\ m.transcript = prof[m.from].transcript
  BY Zenon DEF IInv, NetHonest, Message
<1>3. ReceiveOK(i, p, m, r)
  BY <1>0, <1>1, <1>2, ReceiveGrows, Zenon
<1>4. /\ prof' = [prof EXCEPT ![i] = r] /\ prof \in [Seats -> ProfileState]
      /\ prof'[i] = r /\ \A j \in Seats : j # i => prof'[j] = prof[j]
  BY <1>0, Zenon DEF Receive, IInv, Types
<1>5. Types'
  BY <1>3, <1>4, Zenon DEF Types, IInv, Receive, ReceiveOK
<1>6. ActiveGrows
  BY ZenonT(120), <1>3, <1>4 DEF ActiveGrows, ReceiveOK, Grows
<1>7. SeatInv'
  <2>1. ~p.active => r = p
    BY <1>0, Zenon DEF profiles_receive
  <2>2. r.active = p.active /\ r.occupied = p.occupied /\ p.offers \subseteq r.offers
        /\ Masks(r) /\ Decision(i, r) /\ Settled(r)
    BY <1>3 DEF ReceiveOK, Grows
  <2>3. QED
    BY <1>1, <1>4, <2>1, <2>2, Zenon DEF SeatInv, IInv
<1>8. OffersHonest'
  <2> SUFFICES ASSUME NEW k \in Seats, NEW j \in prof'[k].offers
               PROVE  /\ prof'[j].active /\ prof'[j].qualification = prof'[k].qualification
                      /\ prof'[k].caps[j] = prof'[j].caps[j]
    BY DEF OffersHonest
  <2>1. CASE j \in prof[k].offers
    <3>1. /\ j \in Seats /\ prof[j].active /\ prof[j].qualification = prof[k].qualification
          /\ prof[k].caps[j] = prof[j].caps[j]
      BY <2>1, Zenon DEF IInv, Types, ProfileState, OffersHonest
    <3>2. prof'[k].qualification = prof[k].qualification /\ prof'[k].caps[j] = prof[k].caps[j]
      BY <1>3, <1>4, <2>1 DEF ReceiveOK, Grows
    <3>3. QED
      BY <1>6, <3>1, <3>2, Persist, Zenon
  <2>2. CASE j \notin prof[k].offers
    <3>1. k = i /\ j = m.from /\ m.op = "OFFER" /\ m.qualification = p.qualification
          /\ r.caps[j] = m.caps /\ r.qualification = p.qualification
      BY <1>3, <1>4, <2>2, Zenon DEF ReceiveOK, Grows
    <3>2. QED
      BY <1>2, <1>4, <1>6, <3>1, Persist, ZenonT(30)
  <2>3. QED
    BY <2>1, <2>2, Zenon
<1>9. AcksHonest'
  <2> SUFFICES ASSUME NEW k \in Seats, NEW j \in prof'[k].acks
               PROVE  /\ prof'[j].acks # {} /\ prof'[j].selected = prof'[k].selected
                      /\ prof'[j].transcript = prof'[k].transcript
    BY DEF AcksHonest, SameChoice, Chosen
  <2>1. CASE j \in prof[k].acks
    <3>1. /\ j \in Seats /\ prof[j].acks # {} /\ prof[j].selected = prof[k].selected
          /\ prof[j].transcript = prof[k].transcript
      BY <2>1, Zenon DEF IInv, Types, ProfileState, AcksHonest, SameChoice, Chosen
    <3>2. prof[j].active
      BY <3>1, Zenon DEF IInv, SeatInv, Decision
    <3>3. prof'[k].selected = prof[k].selected /\ prof'[k].transcript = prof[k].transcript
      BY <1>3, <1>4, <2>1, Zenon DEF ReceiveOK, Grows
    <3>4. QED
      BY <1>6, <3>1, <3>2, <3>3, Persist, Zenon
  <2>2. CASE j \notin prof[k].acks
    <3>1. k = i /\ (j = i \/ (/\ j = m.from /\ m.op = "ACK"
                              /\ m.selected = r.selected /\ m.transcript = r.transcript))
      BY <1>3, <1>4, <2>2, Zenon DEF ReceiveOK
    <3>2. QED
      BY <1>2, <1>4, <1>6, <3>1, Persist
  <2>3. QED
    BY <2>1, <2>2, Zenon
<1>10. ReceiptsHonest'
  <2> SUFFICES ASSUME NEW k \in Seats, NEW j \in prof'[k].acknowledged_by
               PROVE  k \in prof'[j].acks
    BY Zenon DEF ReceiptsHonest
  <2>1. CASE j \in prof[k].acknowledged_by
    <3>1. j \in Seats /\ k \in prof[j].acks
      BY <2>1, Zenon DEF IInv, Types, ProfileState, ReceiptsHonest
    <3>2. prof[j].active
      BY <3>1, Zenon DEF IInv, SeatInv, Decision
    <3>3. QED
      BY <1>6, <3>1, <3>2, Persist, Zenon
  <2>2. CASE j \notin prof[k].acknowledged_by
    <3>1. k = i /\ ((j = i /\ i \in r.acks) \/ (j = m.from /\ m.op = "ACK" /\ i \in m.mask))
      BY <1>3, <1>4, <2>2, Zenon DEF ReceiveOK
    <3>2. QED
      BY <1>2, <1>4, <1>6, <3>1, Persist, Zenon
  <2>3. QED
    BY <2>1, <2>2, Zenon
<1>11. NetHonest'
  BY <1>6, NetPersists, Zenon DEF Receive
<1>12. QED
  BY <1>5, <1>6, <1>7, <1>8, <1>9, <1>10, <1>11, Zenon DEF IInv

(* profiles_drive sends honest packets. *)
LEMMA DriveInv ==
    ASSUME IInv, NEW i \in Seats, profiles_drive(i)
    PROVE  IInv' /\ ActiveGrows
<1>1. /\ prof[i] \in ProfileState /\ prof[i].active /\ i \in prof[i].offers
      /\ prof \in [Seats -> ProfileState]
  BY Zenon DEF IInv, Types, SeatInv, profiles_drive, Driving
<1>2. PICK r : r = [prof[i] EXCEPT !.dirty = FALSE]
  BY Zenon
<1>3. /\ r \in ProfileState /\ SameFields(prof[i], r) /\ r.refused = prof[i].refused
      /\ r.selected = prof[i].selected /\ r.transcript = prof[i].transcript
      /\ r.acks = prof[i].acks /\ r.acknowledged_by = prof[i].acknowledged_by
  BY <1>1, <1>2, Zenon DEF ProfileState, SameFields
<1>4. /\ prof' = [prof EXCEPT ![i] = r]
      /\ prof'[i] = r /\ \A j \in Seats : j # i => prof'[j] = prof[j]
  BY <1>1, <1>2, Zenon DEF profiles_drive
<1>5. /\ Common(r) = Common(prof[i])
      /\ \A j \in Seats : /\ prof'[j].active = prof[j].active
                          /\ prof'[j].refused = prof[j].refused
                          /\ prof'[j].qualification = prof[j].qualification
                          /\ prof'[j].occupied = prof[j].occupied
                          /\ prof'[j].caps = prof[j].caps /\ prof'[j].offers = prof[j].offers
                          /\ prof'[j].selected = prof[j].selected
                          /\ prof'[j].transcript = prof[j].transcript
                          /\ prof'[j].acks = prof[j].acks
                          /\ prof'[j].acknowledged_by = prof[j].acknowledged_by
  BY <1>3, <1>4, Zenon DEF SameFields, Common
<1>6. Types'
  BY <1>3, <1>4, Zenon DEF Types, IInv, profiles_drive
<1>7. ActiveGrows
  BY <1>5, Zenon DEF ActiveGrows, Grows
<1>8. SeatInv'
  <2>1. \A j \in Seats : /\ Masks(prof'[j]) /\ Settled(prof'[j])
                         /\ prof'[j].active => /\ prof'[j].occupied = Roster[j]
                                               /\ j \in Roster[j] /\ j \in prof'[j].offers
    BY <1>5 DEF IInv, SeatInv, Masks, Settled
  <2>2. \A j \in Seats : Decision(j, prof'[j])
    BY <1>4, <1>5 DEF IInv, SeatInv, Decision
  <2>3. \A j \in Seats : ~prof'[j].active => prof'[j] = Blank
    BY <1>1, <1>4, <1>5, Zenon DEF IInv, SeatInv
  <2>4. QED
    BY <2>1, <2>2, <2>3, Zenon DEF SeatInv
<1>9. OffersHonest' /\ ReceiptsHonest'
  <2>1. \A j \in Seats : prof[j].offers \subseteq Seats /\ prof[j].acknowledged_by \subseteq Seats
    BY Zenon DEF IInv, Types, ProfileState
  <2>2. QED
    BY <1>5, <2>1 DEF OffersHonest, ReceiptsHonest, IInv
<1>10. AcksHonest'
  <2>1. \A j \in Seats : prof[j].acks \subseteq Seats
    BY Zenon DEF IInv, Types, ProfileState
  <2>2. QED
    BY <1>5, <2>1 DEF AcksHonest, SameChoice, Chosen, IInv
<1>11. NetHonest'
  <2> SUFFICES ASSUME NEW m \in net'
               PROVE  /\ Message(m)
                      /\ prof[m.from].active /\ m.qualification = prof[m.from].qualification
                      /\ m.op = "OFFER" => m.caps = prof[m.from].caps[m.from]
                      /\ m.op = "ACK" =>
                           /\ prof[m.from].acks # {} /\ m.from \in m.mask
                           /\ m.mask \subseteq prof[m.from].acks
                           /\ m.selected = prof[m.from].selected
                           /\ m.transcript = prof[m.from].transcript
    BY <1>5 DEF NetHonest, Message
  <2>1. CASE m \in net
    BY <2>1, Zenon DEF IInv, NetHonest
  <2>2. CASE \E t \in Seats \ {i} : m = Offer(i, prof[i], t)
    <3>1. /\ m.op = "OFFER" /\ m.from = i /\ m.qualification = prof[i].qualification
          /\ m.caps = prof[i].caps[i]
      BY <2>2 DEF Offer
    <3>2. prof[i].caps[i] \in Caps \cup {NoCaps}
      BY <1>1, Zenon DEF ProfileState
    <3>3. QED
      BY <1>1, <3>1, <3>2, Zenon DEF Message
  <2>3. CASE prof[i].acks # {} /\ \E t \in Seats \ {i} : m = Ack(i, prof[i], t)
    <3>1. /\ m.op = "ACK" /\ m.from = i /\ m.qualification = prof[i].qualification
          /\ m.selected = prof[i].selected /\ m.transcript = prof[i].transcript
          /\ m.mask = prof[i].acks
      BY <2>3 DEF Ack
    <3>2. i \in prof[i].acks
      BY <2>3 DEF IInv, SeatInv, Decision
    <3>3. QED
      BY <1>1, <2>3, <3>1, <3>2, Zenon DEF Message
  <2>4. QED
    BY <2>1, <2>2, <2>3, Zenon DEF profiles_drive
<1>12. QED
  BY <1>6, <1>7, <1>8, <1>9, <1>10, <1>11, Zenon DEF IInv

(* profiles_begin starts from the blank state with the seat's own offer. *)
LEMMA BeginInv ==
    ASSUME IInv, NEW i \in Seats, NEW q \in Qualifications, NEW c \in Caps,
           profiles_begin(i, q, c)
    PROVE  IInv' /\ ActiveGrows
<1>1. /\ ~prof[i].active /\ prof[i] = Blank /\ prof \in [Seats -> ProfileState]
      /\ i \in Roster[i] /\ Roster[i] \subseteq Seats
  BY RosterAssumption, Zenon DEF IInv, Types, SeatInv, profiles_begin
<1>2. PICK b : b = [Blank EXCEPT !.active = TRUE, !.qualification = q,
                                 !.occupied = Roster[i], !.caps[i] = c,
                                 !.offers = {i}, !.dirty = TRUE]
  BY Zenon
<1>3. /\ b \in ProfileState
      /\ b.active /\ b.qualification = q /\ b.occupied = Roster[i] /\ b.offers = {i}
      /\ b.caps[i] = c /\ b.acks = {} /\ b.acknowledged_by = {}
  BY <1>1, <1>2, BlankType, ZenonT(60) DEF ProfileState, Blank
<1>4. PICK r : r = profiles_choose(i, b)
  BY Zenon
<1>5. ChooseOK(i, b, r)
  BY <1>1, <1>3, <1>4, ChooseGrows, Zenon DEF Masks, Decision
<1>6. /\ prof' = [prof EXCEPT ![i] = r]
      /\ prof'[i] = r /\ \A j \in Seats : j # i => prof'[j] = prof[j]
  BY <1>1, <1>2, <1>4, Zenon DEF profiles_begin
<1>7. /\ r \in ProfileState /\ Masks(r) /\ Decision(i, r) /\ Settled(r)
      /\ r.active /\ r.occupied = Roster[i] /\ r.offers = {i}
      /\ r.acks \in {{}, {i}} /\ r.acknowledged_by \subseteq r.acks
  BY <1>3, <1>5, Zenon DEF ChooseOK, SameFields, Masks
<1>8. Types'
  BY <1>6, <1>7 DEF Types, IInv, profiles_begin
<1>9. ActiveGrows
  BY <1>1, <1>6, Zenon DEF ActiveGrows, Grows
<1>10. SeatInv'
  BY <1>1, <1>6, <1>7, Zenon DEF SeatInv, IInv
<1>11. OffersHonest'
  <2>1. \A k \in Seats : k # i => \A j \in prof[k].offers : j # i /\ j \in Seats
    BY <1>1, Zenon DEF IInv, Types, ProfileState, OffersHonest
  <2>2. QED
    BY <1>6, <1>7, <2>1 DEF OffersHonest, IInv
<1>12. AcksHonest'
  <2>1. \A k \in Seats : k # i => \A j \in prof[k].acks : j # i /\ j \in Seats
    BY <1>1 DEF IInv, Types, ProfileState, AcksHonest, SameChoice, Chosen, Blank
  <2>2. QED
    BY <1>6, <1>7, <2>1 DEF AcksHonest, SameChoice, Chosen, IInv
<1>13. ReceiptsHonest'
  <2>1. \A k \in Seats : k # i => \A j \in prof[k].acknowledged_by : j # i /\ j \in Seats
    BY <1>1 DEF IInv, Types, ProfileState, ReceiptsHonest, Blank
  <2>2. QED
    BY <1>6, <1>7, <2>1 DEF ReceiptsHonest, IInv
<1>14. NetHonest'
  BY <1>9, NetPersists, Zenon DEF profiles_begin
<1>15. QED
  BY <1>8, <1>9, <1>10, <1>11, <1>12, <1>13, <1>14, Zenon DEF IInv

(* Steps that leave the negotiation alone preserve the invariant. *)
LEMMA UnchangedInv ==
    ASSUME IInv, UNCHANGED prof, net' \subseteq net,
           phase' \in [Seats -> {"IDLE", "LINKING", "RUNNING"}], admitted' \in [Seats -> BOOLEAN]
    PROVE  IInv' /\ ActiveGrows
<1>1. ActiveGrows
  BY DEF ActiveGrows, Grows
<1>2. NetHonest'
  BY <1>1, NetPersists, Zenon
<1>3. Types' /\ SeatInv'
  BY Zenon DEF IInv, Types, SeatInv
<1>4. OffersHonest'
  BY Zenon DEF IInv, OffersHonest
<1>5. AcksHonest'
  BY Zenon DEF IInv, AcksHonest, SameChoice, Chosen
<1>6. ReceiptsHonest'
  BY Zenon DEF IInv, ReceiptsHonest
<1>7. QED
  BY <1>1, <1>2, <1>3, <1>4, <1>5, <1>6, Zenon DEF IInv

(* One step of the barrier preserves the invariant and never makes an      *)
(* active seat forget an offer, an ACK or its choice.                      *)
LEMMA StepInv == IInv /\ [Next]_vars => IInv' /\ ActiveGrows
<1> SUFFICES ASSUME IInv, [Next]_vars PROVE IInv' /\ ActiveGrows
  OBVIOUS
<1> USE DEF Next
<1>1. ASSUME NEW i \in Seats, NEW q \in Qualifications, NEW c \in Caps, profiles_begin(i, q, c)
      PROVE  IInv' /\ ActiveGrows
  BY <1>1, BeginInv, Zenon
<1>2. ASSUME NEW i \in Seats, Open(i) \/ Run(i)
      PROVE  IInv' /\ ActiveGrows
  <2>1. phase' \in [Seats -> {"IDLE", "LINKING", "RUNNING"}]
    BY <1>2, Zenon DEF Open, Run, IInv, Types
  <2>2. QED
    BY <1>2, <2>1, UnchangedInv, Zenon DEF Open, Run, IInv, Types
<1>3. ASSUME NEW i \in Seats, profiles_drive(i)
      PROVE  IInv' /\ ActiveGrows
  BY <1>3, DriveInv
<1>4. ASSUME NEW i \in Seats, NEW m \in net, Receive(i, m)
      PROVE  IInv' /\ ActiveGrows
  BY <1>4, ReceiveInv, Zenon
<1>5. ASSUME NEW i \in Seats, try_admit(i)
      PROVE  IInv' /\ ActiveGrows
  <2>1. admitted' \in [Seats -> BOOLEAN]
    BY <1>5, Zenon DEF try_admit, IInv, Types
  <2>2. QED
    BY <1>5, <2>1, UnchangedInv, Zenon DEF try_admit, IInv, Types
<1>6. ASSUME NEW m \in net, Lose(m)
      PROVE  IInv' /\ ActiveGrows
  BY <1>6, UnchangedInv, Zenon DEF Lose, IInv, Types
<1>7. CASE UNCHANGED vars
  BY <1>7, UnchangedInv, Zenon DEF vars, IInv, Types
<1>8. QED
  BY <1>1, <1>2, <1>3, <1>4, <1>5, <1>6, <1>7, Zenon

-----------------------------------------------------------------------------
AgreedState(p) == p.active /\ ~p.refused /\ p.acks = p.occupied

(* profiles_status is 1 exactly when every occupied seat has acknowledged. *)
LEMMA StatusOne == \A p : profiles_status(p) = 1 <=> AgreedState(p)
BY DEF profiles_status, AgreedState

(* A transcript names the seats it was negotiated among. *)
LEMMA TranscriptOccupied ==
    \A i \in Seats : Decision(i, prof[i]) /\ prof[i].acks # {} =>
        prof[i].transcript.occupied = prof[i].occupied
<1>1. \A q, occ, caps, sel : Transcript(q, occ, caps, sel).occupied = occ
  BY Zenon DEF Transcript
<1>2. QED
  BY <1>1 DEF Decision

(* A seat at status 1 and a seat of its roster hold one decision, taken    *)
(* from the same offers.                                                   *)
LEMMA AgreedPeers ==
    ASSUME IInv, NEW i \in Seats, Agreed(i)
    PROVE  /\ prof[i].occupied = Roster[i] /\ Roster[i] \subseteq Seats /\ i \in prof[i].acks
           /\ prof[i].offers = prof[i].occupied /\ prof[i].acks = prof[i].occupied
           /\ \A j \in Roster[i] :
                 /\ SameChoice(i, j) /\ prof[j].active
                 /\ prof[j].qualification = prof[i].qualification
                 /\ prof[i].caps[j] = prof[j].caps[j]
                 /\ prof[j].occupied = prof[i].occupied /\ Roster[j] = Roster[i]
<1>1. AgreedState(prof[i])
  BY StatusOne, Zenon DEF Agreed
<1>2. prof[i].occupied = Roster[i] /\ Roster[i] \subseteq Seats /\ i \in Roster[i]
  BY <1>1, RosterAssumption, Zenon DEF IInv, SeatInv, AgreedState
<1>3. /\ prof[i].acks # {} /\ i \in prof[i].acks /\ prof[i].offers = prof[i].occupied
      /\ prof[i].transcript.occupied = prof[i].occupied
  <2>1. prof[i].acks # {} /\ Decision(i, prof[i])
    BY <1>1, <1>2, Zenon DEF IInv, SeatInv, AgreedState
  <2>2. QED
    BY <2>1, TranscriptOccupied, Zenon DEF Decision
<1>4. ASSUME NEW j \in Roster[i]
      PROVE  /\ SameChoice(i, j) /\ prof[j].active
             /\ prof[j].qualification = prof[i].qualification
             /\ prof[i].caps[j] = prof[j].caps[j]
             /\ prof[j].occupied = prof[i].occupied /\ Roster[j] = Roster[i]
  <2>1. SameChoice(i, j)
    BY <1>1, <1>2, Zenon DEF IInv, AcksHonest, AgreedState
  <2>2. /\ prof[j].active /\ prof[j].qualification = prof[i].qualification
        /\ prof[i].caps[j] = prof[j].caps[j]
    BY <1>2, <1>3, Zenon DEF IInv, OffersHonest
  <2>3. prof[j].transcript.occupied = prof[j].occupied
    BY <1>2, <2>1, TranscriptOccupied, Zenon DEF IInv, SeatInv, SameChoice, Chosen
  <2>4. prof[j].occupied = prof[i].occupied
    BY <1>3, <2>1, <2>3, Zenon DEF SameChoice
  <2>5. QED
    BY <1>2, <2>1, <2>2, <2>4, Zenon DEF IInv, SeatInv
<1>5. QED
  BY <1>1, <1>2, <1>3, <1>4, Zenon DEF AgreedState

(* The invariant implies agreement. *)
LEMMA AgreementInv == IInv => Agreement
<1> SUFFICES ASSUME IInv, NEW i \in Seats, Agreed(i)
             PROVE  /\ \A j \in Roster[i] :
                          /\ SameChoice(i, j)
                          /\ prof[j].qualification = prof[i].qualification
                          /\ Roster[j] = Roster[i]
                          /\ prof[i].selected \in prof[j].caps[j].profiles
                    /\ \A b \in Profile : b > prof[i].selected =>
                          \E j \in Roster[i] : b \notin prof[j].caps[j].profiles
  BY Zenon DEF Agreement
<1>1. /\ 0 \in Common(prof[i]) /\ prof[i].selected = Highest(Common(prof[i]))
      /\ prof[i].occupied = Roster[i]
  BY AgreedPeers, Zenon DEF IInv, SeatInv, Decision
<1>2. /\ prof[i].selected \in Common(prof[i]) /\ prof[i].selected \in Profile
      /\ \A b \in Common(prof[i]) : b <= prof[i].selected
  BY <1>1, CommonHighest, Zenon
<1>3. \A j \in Roster[i] : prof[i].selected \in prof[j].caps[j].profiles
  BY <1>1, <1>2, AgreedPeers, ZenonT(60) DEF Common
<1>4. ASSUME NEW b \in Profile, b > prof[i].selected
      PROVE  \E j \in Roster[i] : b \notin prof[j].caps[j].profiles
  <2>1. b \notin Common(prof[i])
    BY <1>2, <1>4, MaxProfileAssumption DEF Profile
  <2>2. QED
    BY <1>1, <2>1, AgreedPeers DEF Common
<1>5. QED
  BY <1>3, <1>4, AgreedPeers

(* A datagram can no longer move a seat that reached status 1: whatever    *)
(* its roster sends repeats the offer and the decision it already holds.   *)
LEMMA ReceiveKeepsAgreed ==
    ASSUME IInv, NEW i \in Seats, Agreed(i), NEW m \in net
    PROVE  AgreedState(profiles_receive(i, prof[i], m))
<1> DEFINE p == prof[i]
<1>1. AgreedState(p) /\ p \in ProfileState
  BY StatusOne, Zenon DEF Agreed, IInv, Types
<1>2. CASE m.from = i \/ m.from \notin p.occupied
  BY <1>1, <1>2, Zenon DEF profiles_receive
<1>3. CASE m.from # i /\ m.from \in p.occupied
  <2>1. /\ Message(m) /\ m.from \in Roster[i]
        /\ m.qualification = p.qualification
        /\ m.op = "OFFER" => m.caps = p.caps[m.from]
        /\ m.op = "ACK" =>
              /\ m.from \in m.mask /\ m.mask \subseteq p.occupied
              /\ m.selected = p.selected /\ m.transcript = p.transcript
    <3>1. m.from \in Roster[i] /\ m.from \in Seats
      BY <1>3, AgreedPeers, Zenon
    <3>2. prof[m.from].acks \subseteq prof[m.from].occupied
      BY <3>1, Zenon DEF IInv, SeatInv, Masks
    <3>3. QED
      BY <3>1, <3>2, AgreedPeers DEF IInv, NetHonest, SameChoice
  <2>2. CASE m.op = "OFFER"
    <3>1. profiles_receive(i, p, m) = OnOffer(i, p, m)
      BY <1>1, <1>3, <2>1, <2>2, Zenon DEF profiles_receive, AgreedState
    <3>2. 0 \in m.caps.profiles /\ p.acks # {} /\ m.from \in p.offers
      BY ZenonT(120), <1>3, <2>1, <2>2, AgreedPeers DEF IInv, SeatInv, Decision, Common
    <3>3. PICK w : w = WithOffer(p, m)
      BY Zenon
    <3>4. OnOffer(i, p, m) = profiles_choose(i, w)
      BY <2>1, <2>2, <3>2, <3>3, Zenon DEF OnOffer
    <3>5. /\ w.active = p.active /\ w.refused = p.refused
          /\ w.acks = p.acks /\ w.occupied = p.occupied
      BY <1>1, <3>3, Zenon DEF WithOffer, ProfileState
    <3>6. profiles_choose(i, w) = w
      BY <3>2, <3>5, Zenon DEF profiles_choose
    <3>7. QED
      BY <1>1, <3>1, <3>4, <3>5, <3>6, Zenon DEF AgreedState
  <2>3. CASE m.op = "ACK"
    <3>1. profiles_receive(i, p, m) = OnAck(i, p, m)
      BY <1>1, <1>3, <2>1, <2>3, AgreedPeers, Zenon DEF profiles_receive, AgreedState
    <3>2. PICK w : w = Acknowledge(p, m, i \in m.mask)
      BY Zenon
    <3>3. OnAck(i, p, m) = w
      BY <2>1, <2>3, <3>2, Zenon DEF OnAck
    <3>4. /\ w.active = p.active /\ w.refused = p.refused
          /\ w.acks = p.acks \cup {m.from} /\ w.occupied = p.occupied
      BY <1>1, <3>2, Zenon DEF Acknowledge, ProfileState
    <3>5. QED
      BY <1>1, <1>3, <3>1, <3>3, <3>4, Zenon DEF AgreedState
  <2>4. QED
    BY <2>1, <2>2, <2>3, Zenon DEF Message
<1>4. QED
  BY <1>2, <1>3, Zenon

(* A seat that has agreed stays agreed. *)
LEMMA AgreedStays ==
    ASSUME IInv, [Next]_vars, NEW i \in Seats, Agreed(i)
    PROVE  Agreed(i)'
<1>1. AgreedState(prof[i]) /\ prof \in [Seats -> ProfileState]
  BY StatusOne, Zenon DEF Agreed, IInv, Types
<1>2. SUFFICES AgreedState(prof'[i])
  BY StatusOne, Zenon DEF Agreed
<1>3. ASSUME NEW k \in Seats, NEW q \in Qualifications, NEW c \in Caps, profiles_begin(k, q, c)
      PROVE  AgreedState(prof'[i])
  <2>1. k # i
    BY <1>1, <1>3, Zenon DEF profiles_begin, AgreedState
  <2>2. prof'[i] = prof[i]
    BY <1>1, <1>3, <2>1, Zenon DEF profiles_begin
  <2>3. QED
    BY <1>1, <2>2
<1>4. ASSUME NEW k \in Seats, profiles_drive(k)
      PROVE  AgreedState(prof'[i])
  <2>1. /\ prof'[i].active = prof[i].active /\ prof'[i].refused = prof[i].refused
        /\ prof'[i].acks = prof[i].acks /\ prof'[i].occupied = prof[i].occupied
    BY <1>1, <1>4 DEF profiles_drive, ProfileState
  <2>2. QED
    BY <1>1, <2>1, Zenon DEF AgreedState
<1>5. ASSUME NEW k \in Seats, NEW m \in net, Receive(k, m)
      PROVE  AgreedState(prof'[i])
  <2>1. CASE k = i
    <3>1. prof'[i] = profiles_receive(i, prof[i], m)
      BY <1>1, <1>5, <2>1, Zenon DEF Receive
    <3>2. QED
      BY <3>1, ReceiveKeepsAgreed, Zenon
  <2>2. CASE k # i
    <3>1. prof'[i] = prof[i]
      BY <1>1, <1>5, <2>2, Zenon DEF Receive
    <3>2. QED
      BY <1>1, <3>1, Zenon
  <2>3. QED
    BY <2>1, <2>2, Zenon
<1>6. CASE UNCHANGED prof
  BY <1>1, <1>6, Zenon
<1>7. QED
  BY <1>3, <1>4, <1>5, <1>6, Zenon DEF Next, Open, Run, try_admit, Lose, vars

(* Admission: a frame was run only in phase RUNNING and, at a seat that    *)
(* opted in, only at status 1, which then stays.                           *)
LEMMA AdmittedStep ==
    ASSUME IInv, AdmittedAgreed, [Next]_vars
    PROVE  AdmittedAgreed'
<1> SUFFICES ASSUME NEW i \in Seats, admitted'[i]
             PROVE  /\ phase'[i] = "RUNNING"
                    /\ prof'[i].active => Agreed(i)'
  BY DEF AdmittedAgreed
<1>1. phase \in [Seats -> {"IDLE", "LINKING", "RUNNING"}] /\ admitted \in [Seats -> BOOLEAN]
      /\ prof \in [Seats -> ProfileState]
  BY Zenon DEF IInv, Types
<1>2. CASE admitted[i]
  <2>1. phase[i] = "RUNNING" /\ (prof[i].active => Agreed(i))
    BY <1>2, Zenon DEF AdmittedAgreed
  <2>2. phase'[i] = "RUNNING"
    BY <1>1, <2>1, Zenon DEF Next, vars, profiles_begin, Open, Run, profiles_drive, Receive, try_admit, Lose
  <2>3. CASE prof[i].active
    BY <2>1, <2>2, <2>3, AgreedStays, Zenon
  <2>4. CASE ~prof[i].active
    <3>1. ASSUME NEW k \in Seats, NEW q \in Qualifications, NEW c \in Caps, profiles_begin(k, q, c)
          PROVE  prof'[i].active = prof[i].active
      BY <1>1, <2>1, <2>4, <3>1, Zenon DEF profiles_begin
    <3>2. ASSUME NEW k \in Seats, profiles_drive(k)
          PROVE  prof'[i].active = prof[i].active
      BY <1>1, <2>4, <3>2 DEF profiles_drive, ProfileState
    <3>3. ASSUME NEW k \in Seats, NEW m \in net, Receive(k, m)
          PROVE  prof'[i].active = prof[i].active
      <4>1. PICK r : r = profiles_receive(k, prof[k], m)
        BY Zenon
      <4>2. k = i => r = prof[i]
        BY <2>4, <4>1, Zenon DEF profiles_receive
      <4>3. prof' = [prof EXCEPT ![k] = r]
        BY <3>3, <4>1, Zenon DEF Receive
      <4>4. prof'[i] = prof[i]
        BY <1>1, <4>2, <4>3, Zenon
      <4>5. QED
        BY <4>4, Zenon
    <3>4. ASSUME UNCHANGED prof PROVE prof'[i].active = prof[i].active
      BY <3>4, Zenon
    <3>5. prof'[i].active = prof[i].active
      BY <3>1, <3>2, <3>3, <3>4, Zenon DEF Next, Open, Run, try_admit, Lose, vars
    <3>6. QED
      BY <2>2, <2>4, <3>5, Zenon
  <2>5. QED
    BY <2>3, <2>4, Zenon
<1>3. CASE ~admitted[i]
  <2>1. PICK k \in Seats : try_admit(k)
    BY <1>3, Zenon DEF Next, vars, profiles_begin, Open, Run, profiles_drive, Receive, Lose
  <2>2. k = i
    BY <1>1, <1>3, <2>1, Zenon DEF try_admit
  <2>3. QED
    BY <2>1, <2>2, Zenon DEF try_admit, Agreed
<1>4. QED
  BY <1>2, <1>3, Zenon

-----------------------------------------------------------------------------

(* The invariant is inductive, and a session is admitted only once it has  *)
(* agreed.                                                                 *)
THEOREM Invariance == Spec => [](IInv /\ AdmittedAgreed)
<1>1. Init => IInv /\ AdmittedAgreed
  BY InitInv DEF Init, AdmittedAgreed
<1>2. (IInv /\ AdmittedAgreed) /\ [Next]_vars => (IInv /\ AdmittedAgreed)'
  BY StepInv, AdmittedStep, Zenon
<1>3. QED
  BY <1>1, <1>2, PTL DEF Spec

(* The masks of the `profiles` struct always have their types and stay     *)
(* inside the seat's own roster.                                           *)
THEOREM TypeCorrect == Spec => []TypeOK
<1>1. IInv => TypeOK
  <2> SUFFICES ASSUME IInv PROVE TypeOK
    BY Zenon
  <2>1. \A i \in Seats : prof[i].offers \cup prof[i].acks \cup prof[i].acknowledged_by
                             \subseteq prof[i].occupied
    BY Zenon DEF IInv, SeatInv, Masks
  <2>2. QED
    BY <2>1, Zenon DEF IInv, Types, TypeOK
<1>2. QED
  BY <1>1, Invariance, PTL

(* Whenever profiles_status reports 1 at a seat, every seat of its roster  *)
(* holds the same decision, for any number of seats and any lossy link.    *)
THEOREM AgreementHolds == Spec => []Agreement
BY AgreementInv, Invariance, PTL

(* No opted-in seat is admitted by try_admit before every seat of its      *)
(* roster has taken the decision it runs under.                            *)
THEOREM NoFrameBeforeBarrierHolds == Spec => []NoFrameBeforeBarrier
<1>1. IInv /\ AdmittedAgreed => NoFrameBeforeBarrier
  BY AgreedPeers, Zenon DEF AdmittedAgreed, NoFrameBeforeBarrier
<1>2. QED
  BY <1>1, Invariance, PTL

(* profiles_drive goes quiet only when every seat of the roster holds this *)
(* seat's ACK.                                                             *)
THEOREM QuietOnlyWhenHeardHolds == Spec => []QuietOnlyWhenHeard
<1>1. IInv => QuietOnlyWhenHeard
  BY Zenon DEF IInv, ReceiptsHonest, QuietOnlyWhenHeard
<1>2. QED
  BY <1>1, Invariance, PTL

(* A choice is final and status 1 is final, whatever arrives afterwards.   *)
THEOREM SelectionNeverChangesHolds == Spec => SelectionNeverChanges
<1> DEFINE Keeps == \A i \in Seats :
                        /\ Chosen(i) => /\ prof'[i].selected = prof[i].selected
                                        /\ prof'[i].transcript = prof[i].transcript
                        /\ Agreed(i) => Agreed(i)'
<1>1. IInv /\ [Next]_vars => Keeps
  <2> SUFFICES ASSUME IInv, [Next]_vars, NEW i \in Seats
               PROVE  /\ Chosen(i) => /\ prof'[i].selected = prof[i].selected
                                      /\ prof'[i].transcript = prof[i].transcript
                      /\ Agreed(i) => Agreed(i)'
    BY Zenon
  <2>1. Chosen(i) => prof[i].active
    BY Zenon DEF Chosen, IInv, SeatInv, Decision
  <2>2. ActiveGrows
    BY StepInv, Zenon
  <2>3. QED
    BY <2>1, <2>2, AgreedStays, Zenon DEF ActiveGrows, Grows, Chosen
<1>2. QED
  BY <1>1, Invariance, PTL DEF Spec, SelectionNeverChanges

-----------------------------------------------------------------------------
(***************************************************************************)
(* The bootstrap.                                                          *)
(***************************************************************************)

(* START goes to the guests only, so nothing but its own barrier makes the *)
(* authority run.                                                          *)
BootTypes ==
    /\ BootTypeOK
    /\ \A m \in boot_net : m.op = "START" => m.to # 0

(* A READY, sent, counted or on the link, is from a seat that has opened   *)
(* its transport; a START, or a seat that runs, is the proof that every    *)
(* seat has.                                                               *)
Opened(i) == boot_phase[i] # "IDLE"
AllOpened == \A i \in Occupied : Opened(i)

Barrier ==
    /\ \A i \in Occupied : \A j \in peer_ready[i] : Opened(j)
    /\ \A m \in boot_net : m.op = "READY" => Opened(m.from)
    /\ \A m \in boot_net : m.op = "START" => AllOpened
    /\ \A i \in Occupied : boot_phase[i] = "RUNNING" => AllOpened

(* The rows of a running seat: all of 0 .. m - 1, or those without the     *)
(* ticks from n to D - 1 that a HELLO after START made it jump.  A seat     *)
(* takes another delay once, the host's, and only a guest does.            *)
Shape(n, m, d) == {t \in Nat : t < m /\ (t < n \/ t >= d)}

Shaped(i, R, s, d) ==
    \E n, m \in Nat :
        /\ R = Shape(n, m, d)
        /\ s + d <= m
        /\ n = d \/ (i # 0 /\ Config[i] <= n /\ n <= d)

Segment ==
    /\ \A i \in Occupied : delay[i] \in {Config[i], Config[0]}
    /\ \A m \in boot_net : m.op = "HELLO" /\ m.from = 0 => m.delay = Config[0]
    /\ \A i \in Occupied : boot_phase[i] # "RUNNING" =>
          \/ rows[i] = {}
          \/ delay[i] = Config[0] /\ rows[i] = 0 .. (delay[i] - 1)
    /\ \A i \in Occupied : boot_phase[i] = "RUNNING" =>
          Shaped(i, rows[i], sim_tick[i], delay[i])

-----------------------------------------------------------------------------
(* What the three announcements are, as packets. *)
LEMMA Announcements ==
    ASSUME BootTypeOK, NEW i \in Occupied
    PROVE  /\ Hello(i) \subseteq Packet /\ Ready(i) \subseteq Packet /\ Start \subseteq Packet
           /\ \A m \in Hello(i) : m.op = "HELLO" /\ m.from = i /\ m.delay = delay[i]
           /\ \A m \in Ready(i) : m.op = "READY" /\ m.from = i
           /\ \A m \in Start : m.op = "START" /\ m.to # 0
<1>1. delay[i] \in Nat /\ Version[i] \in {Version[k] : k \in Occupied}
  BY Zenon DEF BootTypeOK
<1>2. Hello(i) \subseteq Packet /\ \A m \in Hello(i) : m.op = "HELLO" /\ m.from = i /\ m.delay = delay[i]
  BY <1>1 DEF Hello, Packet
<1>3. Ready(i) \subseteq Packet /\ \A m \in Ready(i) : m.op = "READY" /\ m.from = i
  BY DEF Ready, Packet
<1>4. Start \subseteq Packet /\ \A m \in Start : m.op = "START" /\ m.to # 0
  BY DEF Start, Packet
<1>5. QED
  BY <1>2, <1>3, <1>4, Zenon

(* A HELLO's delay is a delay, and its fields are where they should be. *)
LEMMA PacketFields ==
    ASSUME NEW m \in Packet
    PROVE  /\ m.from \in Occupied /\ m.to \in Occupied
           /\ m.op \in {"HELLO", "READY", "START"}
           /\ m.op = "HELLO" => m.delay \in Nat
BY OccupiedAssumption, Zenon DEF Packet

-----------------------------------------------------------------------------
(* What a step may add to the link: announcements, and START once sent. *)
LEMMA TypesStep ==
    ASSUME BootTypes, [BootNext]_bootVars
    PROVE  BootTypes'
<1> USE DEF BootTypes, Phases
<1>1. CASE UNCHANGED bootVars
  BY <1>1, Zenon DEF bootVars, BootTypeOK
<1>2. ASSUME NEW i \in Occupied, start_lan(i)
      PROVE  BootTypes'
  BY <1>2, OccupiedAssumption, Zenon DEF start_lan, BootTypeOK
<1>3. ASSUME NEW i \in Occupied, maybe_bootstrap(i)
      PROVE  BootTypes'
  <2>1. boot_net' \subseteq boot_net \cup Ready(i) \cup Hello(i) \cup Start
    BY <1>3, Zenon DEF maybe_bootstrap
  <2>2. boot_net' \subseteq Packet /\ \A m \in boot_net' : m.op = "START" => m.to # 0
    BY <2>1, Announcements, Zenon DEF BootTypeOK
  <2>3. /\ boot_phase' \in [Occupied -> Phases] /\ peer_ready' \in [Occupied -> SUBSET Occupied]
        /\ delay' \in [Occupied -> Nat]
    BY <1>3, Zenon DEF maybe_bootstrap, BootTypeOK
  <2>4. start_sent' = (boot_phase'[0] = "RUNNING")
    BY <1>3, OccupiedAssumption, Zenon DEF maybe_bootstrap, BootTypeOK
  <2>5. sim_tick' \in [Occupied -> 0 .. MaxTick]
    BY <1>3, MaxTickAssumption DEF maybe_bootstrap, BootTypeOK
  <2>6. rows' \in [Occupied -> SUBSET Nat]
    BY <1>3 DEF maybe_bootstrap, BootTypeOK, seed_delay_prefix
  <2>7. QED
    BY <2>2, <2>3, <2>4, <2>5, <2>6, Zenon DEF BootTypeOK
<1>4. ASSUME NEW i \in Occupied, Sample(i)
      PROVE  BootTypes'
  <2>1. sim_tick[i] + delay[i] \in Nat
    BY MaxTickAssumption DEF BootTypeOK
  <2>2. QED
    BY <1>4, <2>1, Zenon DEF Sample, BootTypeOK
<1>5. ASSUME NEW i \in Occupied, advance(i)
      PROVE  BootTypes'
  BY <1>5, MaxTickAssumption DEF advance, BootTypeOK
<1>6. ASSUME NEW m \in boot_net, handle_decoded(m.to, m)
      PROVE  BootTypes'
  <2> DEFINE i == m.to
  <2>0. m \in Packet /\ i \in Occupied /\ m.from \in Occupied
    BY PacketFields, Zenon DEF BootTypeOK
  <2>1. CASE m.op = "HELLO" /\ OnHello(i, m)
    <3>1. m.delay \in Nat
      BY <2>0, <2>1, PacketFields, Zenon
    <3>2. delay' \in [Occupied -> Nat] /\ rows' \in [Occupied -> SUBSET Nat]
      BY <2>0, <2>1, <3>1 DEF OnHello, BootTypeOK, seed_delay_prefix
    <3>3. boot_phase' \in [Occupied -> Phases] /\ start_sent' = (boot_phase'[0] = "RUNNING")
      BY <2>0, <2>1, OccupiedAssumption, Zenon DEF OnHello, BootTypeOK
    <3>4. QED
      BY <2>1, <3>2, <3>3, Zenon DEF OnHello, BootTypeOK
  <2>2. CASE m.op = "READY" /\ OnReady(i, m)
    <3>1. boot_net' \subseteq boot_net \cup Start
      BY <2>2, Zenon DEF OnReady
    <3>2. boot_net' \subseteq Packet /\ \A q \in boot_net' : q.op = "START" => q.to # 0
      BY <2>0, <3>1, Announcements, Zenon DEF BootTypeOK
    <3>3. QED
      BY <2>0, <2>2, <3>2, Zenon DEF OnReady, BootTypeOK
  <2>3. CASE m.op = "START" /\ OnStart(i, m)
    <3>1. i # 0
      BY <2>3, Zenon
    <3>2. boot_phase' \in [Occupied -> Phases] /\ boot_phase'[0] = boot_phase[0]
      BY <2>0, <2>3, <3>1, OccupiedAssumption, Zenon DEF OnStart, BootTypeOK
    <3>3. sim_tick' \in [Occupied -> 0 .. MaxTick] /\ rows' \in [Occupied -> SUBSET Nat]
      BY <2>0, <2>3, MaxTickAssumption DEF OnStart, BootTypeOK, seed_delay_prefix
    <3>4. QED
      BY <2>3, <3>2, <3>3, Zenon DEF OnStart, BootTypeOK
  <2>4. QED
    BY <1>6, <2>1, <2>2, <2>3, Zenon DEF handle_decoded
<1>7. ASSUME NEW m \in boot_net, BootLose(m)
      PROVE  BootTypes'
  BY <1>7, Zenon DEF BootLose, BootTypeOK
<1>8. QED
  BY <1>1, <1>2, <1>3, <1>4, <1>5, <1>6, <1>7, Zenon DEF BootNext

(* A transport that is open stays open. *)
LEMMA OpenedStays ==
    ASSUME BootTypes, BootNext, NEW i \in Occupied, Opened(i)
    PROVE  Opened(i)'
<1> USE DEF BootTypes, BootTypeOK, Opened
<1>1. ASSUME NEW m \in boot_net, handle_decoded(m.to, m)
      PROVE  Opened(i)'
  BY <1>1, Zenon DEF handle_decoded, OnHello, OnReady, OnStart
<1>2. QED
  BY <1>1, ZenonT(60) DEF BootNext, start_lan, maybe_bootstrap, Sample, advance, BootLose

(* Every step keeps the barrier: who runs has seen everyone open. *)
LEMMA BarrierStep ==
    ASSUME BootTypes, Barrier, [BootNext]_bootVars
    PROVE  Barrier'
<1>1. CASE UNCHANGED bootVars
  BY <1>1, Zenon DEF bootVars, Barrier, Opened, AllOpened
<1>2. SUFFICES ASSUME BootNext PROVE Barrier'
  BY <1>1, Zenon
<1>3. \A i \in Occupied : Opened(i) => Opened(i)'
  BY <1>2, OpenedStays, Zenon
<1>4. AllOpened => AllOpened'
  BY <1>3, Zenon DEF AllOpened
<1>5. ASSUME \A i \in Occupied : \A j \in peer_ready'[i] : j \in peer_ready[i] \/ Opened(j),
             \A m \in boot_net' : m \in boot_net \/ (m.op = "READY" /\ Opened(m.from))
                                  \/ m.op = "HELLO" \/ (m.op = "START" /\ AllOpened),
             \A i \in Occupied : boot_phase'[i] = "RUNNING" => boot_phase[i] = "RUNNING" \/ AllOpened
      PROVE  Barrier'
  <2>0. BootTypeOK'
    BY <1>2, TypesStep, Zenon DEF BootTypes
  <2>1. \A i \in Occupied : \A j \in peer_ready'[i] : Opened(j)'
    BY <1>3, <1>5, <2>0, Zenon DEF Barrier, BootTypeOK
  <2>2. \A m \in boot_net' : m.op = "READY" => Opened(m.from)'
    BY <1>3, <1>5, <2>0, PacketFields, Zenon DEF Barrier, BootTypeOK
  <2>3. \A m \in boot_net' : m.op = "START" => AllOpened'
    BY <1>4, <1>5, Zenon DEF Barrier
  <2>4. \A i \in Occupied : boot_phase'[i] = "RUNNING" => AllOpened'
    BY <1>4, <1>5, Zenon DEF Barrier
  <2>5. QED
    BY <2>1, <2>2, <2>3, <2>4, Zenon DEF Barrier
<1> USE DEF BootTypes, BootTypeOK
<1>6. ASSUME NEW i \in Occupied, start_lan(i)
      PROVE  Barrier'
  BY <1>5, <1>6, Zenon DEF start_lan
<1>7. ASSUME NEW i \in Occupied, maybe_bootstrap(i)
      PROVE  Barrier'
  <2>1. Opened(i)
    BY <1>7, Zenon DEF maybe_bootstrap, Opened
  <2>2. AllReady(i) => AllOpened
    BY <2>1, Zenon DEF AllReady, Barrier, AllOpened
  <2>3. \A k \in Occupied : \A j \in peer_ready'[k] : j \in peer_ready[k] \/ Opened(j)
    BY <1>7, <2>1, Zenon DEF maybe_bootstrap
  <2>4. boot_net' \subseteq boot_net \cup Ready(i) \cup Hello(i) \cup (IF AllReady(i) THEN Start ELSE {})
    BY <1>7, Zenon DEF maybe_bootstrap
  <2>5. \A m \in boot_net' : m \in boot_net \/ (m.op = "READY" /\ Opened(m.from))
                                  \/ m.op = "HELLO" \/ (m.op = "START" /\ AllOpened)
    BY <2>1, <2>2, <2>4, Announcements
  <2>6. \A k \in Occupied : boot_phase'[k] = "RUNNING" => boot_phase[k] = "RUNNING" \/ AllOpened
    BY <1>7, <2>2, Zenon DEF maybe_bootstrap
  <2>7. QED
    BY <1>5, <2>3, <2>5, <2>6, Zenon
<1>8. ASSUME NEW i \in Occupied, Sample(i) \/ advance(i)
      PROVE  Barrier'
  BY <1>5, <1>8, Zenon DEF Sample, advance
<1>9. ASSUME NEW m \in boot_net, handle_decoded(m.to, m)
      PROVE  Barrier'
  <2>0. m.to \in Occupied /\ m.from \in Occupied
    BY PacketFields, Zenon
  <2>1. CASE m.op = "HELLO" /\ OnHello(m.to, m)
    BY <1>5, <2>0, <2>1 DEF OnHello
  <2>2. CASE m.op = "READY" /\ OnReady(m.to, m)
    <3>1. Opened(m.from)
      BY <2>2, Zenon DEF Barrier
    <3>2. boot_net' = boot_net \/ (boot_phase[0] = "RUNNING" /\ boot_net' = boot_net \cup Start)
      BY <2>2, Zenon DEF OnReady
    <3>3. \A q \in boot_net' : q \in boot_net \/ (q.op = "START" /\ AllOpened)
      BY <2>0, <3>2, Announcements, OccupiedAssumption DEF Barrier
    <3>4. \A k \in Occupied : \A j \in peer_ready'[k] : j \in peer_ready[k] \/ Opened(j)
      BY <2>0, <2>2, <3>1, Zenon DEF OnReady
    <3>5. QED
      BY <1>5, <2>2, <3>3, <3>4, Zenon DEF OnReady
  <2>3. CASE m.op = "START" /\ OnStart(m.to, m)
    <3>1. AllOpened
      BY <2>3, Zenon DEF Barrier
    <3>2. QED
      BY <1>5, <2>3, <3>1, Zenon DEF OnStart
  <2>4. QED
    BY <1>9, <2>1, <2>2, <2>3, Zenon DEF handle_decoded
<1>10. ASSUME NEW m \in boot_net, BootLose(m)
       PROVE  Barrier'
  BY <1>5, <1>10, Zenon DEF BootLose
<1>11. QED
  BY <1>2, <1>6, <1>7, <1>8, <1>9, <1>10, Zenon DEF BootNext

-----------------------------------------------------------------------------
(* The prefix of delay d, with the same prefix there before or nothing. *)
LEMMA ShapeBegin ==
    ASSUME NEW i, NEW d \in Nat, NEW R, R = {} \/ R = 0 .. (d - 1)
    PROVE  Shaped(i, R \cup 0 .. (d - 1), 0, d)
<1>1. R \cup 0 .. (d - 1) = 0 .. (d - 1)
  BY Zenon
<1>2. 0 .. (d - 1) = Shape(d, d, d)
  BY SMTT(30) DEF Shape
<1>3. 0 + d <= d
  BY SMTT(30)
<1>4. QED
  BY <1>1, <1>2, <1>3, Zenon DEF Shaped

(* One row more at the tip. *)
LEMMA ShapeSample ==
    ASSUME NEW i, NEW s \in Nat, NEW d \in Nat, NEW R, Shaped(i, R, s, d), s + d \notin R
    PROVE  Shaped(i, R \cup {s + d}, s, d)
<1>1. PICK n \in Nat, m \in Nat :
          /\ R = Shape(n, m, d)
          /\ s + d <= m
          /\ n = d \/ (i # 0 /\ Config[i] <= n /\ n <= d)
  BY Zenon DEF Shaped
<1>2. m = s + d
  BY <1>1, SMTT(30) DEF Shape
<1>3. R \cup {s + d} = Shape(n, m + 1, d)
  <2>1. \A t : t \in Shape(n, m + 1, d) <=> t \in Shape(n, m, d) \/ t = s + d
    BY <1>2, SMTT(30) DEF Shape
  <2>2. QED
    BY <1>1, <2>1, Zenon
<1>4. m + 1 \in Nat /\ s + d <= m + 1
  BY <1>2, SMTT(30)
<1>5. QED
  BY <1>1, <1>3, <1>4, Zenon DEF Shaped

(* A frame is played once the row at the tip is there. *)
LEMMA ShapeAdvance ==
    ASSUME NEW i, NEW s \in Nat, NEW d \in Nat, NEW R, Shaped(i, R, s, d), s + d \in R
    PROVE  Shaped(i, R, s + 1, d)
<1>1. PICK n \in Nat, m \in Nat :
          /\ R = Shape(n, m, d)
          /\ s + d <= m
          /\ n = d \/ (i # 0 /\ Config[i] <= n /\ n <= d)
  BY Zenon DEF Shaped
<1>2. (s + 1) + d <= m
  BY <1>1, SMTT(30) DEF Shape
<1>3. QED
  BY <1>1, <1>2, Zenon DEF Shaped

(* A guest that runs with its own delay c, at tick 0, takes the delay d:   *)
(* a shorter one leaves its rows a segment, a longer one may open the hole.*)
LEMMA ShapeAdopt ==
    ASSUME NEW i, i # 0, NEW c \in Nat, Config[i] = c, NEW d \in Nat, NEW R,
           NEW s, s = 0, Shaped(i, R, s, c)
    PROVE  Shaped(i, R, s, d)
<1>1. PICK n \in Nat, m \in Nat :
          /\ R = Shape(n, m, c)
          /\ s + c <= m
          /\ n = c \/ (i # 0 /\ Config[i] <= n /\ n <= c)
  BY Zenon DEF Shaped
<1>2. n = c /\ c <= m
  BY <1>1, SMTT(30)
<1>3. CASE d <= m
  <2>1. R = Shape(d, m, d) /\ s + d <= m
    BY <1>1, <1>2, <1>3, SMTT(30) DEF Shape
  <2>2. QED
    BY <2>1, Zenon DEF Shaped
<1>4. CASE m < d
  <2>1. R = Shape(m, d, d)
    BY <1>1, <1>2, <1>4, SMTT(30) DEF Shape
  <2>2. s + d <= d /\ Config[i] <= m /\ m <= d
    BY <1>2, <1>4, SMTT(30)
  <2>3. QED
    BY <2>1, <2>2, Zenon DEF Shaped
<1>5. QED
  BY <1>3, <1>4, SMTT(30)

(* What a shape says of the rows from the tick on. *)
LEMMA ShapeHeld ==
    ASSUME NEW i, NEW s \in Nat, NEW d \in Nat, Config[i] \in Nat, NEW R,
           Shaped(i, R, s, d), NEW w \in R, NEW t \in s .. w, t \notin R
    PROVE  i # 0 /\ t \in Config[i] .. (d - 1) /\ d - 1 \notin R
<1>1. PICK n \in Nat, m \in Nat :
          /\ R = Shape(n, m, d)
          /\ s + d <= m
          /\ n = d \/ (i # 0 /\ Config[i] <= n /\ n <= d)
  BY Zenon DEF Shaped
<1>2. t \in Nat /\ t < m /\ n <= t /\ t < d
  BY <1>1, SMTT(30) DEF Shape
<1>3. i # 0 /\ Config[i] <= n
  BY <1>1, <1>2, SMTT(30)
<1>4. t \in Config[i] .. (d - 1) /\ d - 1 \notin R
  BY <1>1, <1>2, <1>3, SMTT(30) DEF Shape
<1>5. QED
  BY <1>3, <1>4, Zenon

(* The types the shapes need, and what a HELLO that is adopted says. *)
LEMMA SeatTypes ==
    ASSUME BootTypes, NEW i \in Occupied
    PROVE  /\ sim_tick[i] \in Nat /\ delay[i] \in Nat /\ Config[i] \in Nat /\ Config[0] \in Nat
<1>1. delay[i] \in Nat /\ Config[i] \in Nat /\ Config[0] \in Nat
  BY ConfigAssumption, OccupiedAssumption, Zenon DEF BootTypes, BootTypeOK
<1>2. sim_tick[i] \in 0 .. MaxTick
  BY Zenon DEF BootTypes, BootTypeOK
<1>3. QED
  BY <1>1, <1>2, MaxTickAssumption

LEMMA SegmentHello ==
    ASSUME BootTypes, Segment, NEW m \in boot_net, m.op = "HELLO", m.to \in Occupied,
           OnHello(m.to, m)
    PROVE  Segment'
<1> USE DEF Segment
<1>0. DEFINE i == m.to
<1>1. i \in Occupied /\ sim_tick' = sim_tick /\ boot_net' = boot_net
  BY Zenon DEF OnHello
<1>2. \A j \in Occupied : boot_phase'[j] = "RUNNING" <=> boot_phase[j] = "RUNNING"
  BY <1>1, Zenon DEF OnHello, BootTypes, BootTypeOK
<1>3. CASE UNCHANGED <<delay, rows>>
  BY <1>1, <1>2, <1>3, Zenon
<1>4. CASE ~UNCHANGED <<delay, rows>>
  <2>1. /\ Adopts(i, m) /\ delay' = [delay EXCEPT ![i] = m.delay]
        /\ rows' = IF boot_phase[i] = "RUNNING" THEN rows
                   ELSE [rows EXCEPT ![i] = seed_delay_prefix(@, m.delay)]
    BY <1>4, Zenon DEF OnHello
  <2>2. /\ i # 0 /\ m.delay = Config[0] /\ m.delay # delay[i]
        /\ boot_phase[i] = "RUNNING" => sim_tick[i] = 0
    BY <2>1, Zenon DEF Adopts
  <2>3. delay[i] = Config[i] /\ delay'[i] = Config[0]
    BY <1>1, <2>1, <2>2, Zenon DEF BootTypes, BootTypeOK
  <2>4. \A j \in Occupied \ {i} : delay'[j] = delay[j] /\ rows'[j] = rows[j]
    BY <1>1, <2>1, Zenon DEF BootTypes, BootTypeOK
  <2>5. \A j \in Occupied : delay'[j] \in {Config[j], Config[0]}
    BY <2>3, <2>4, Zenon
  <2>6. CASE boot_phase[i] = "RUNNING"
    <3>1. rows' = rows /\ Shaped(i, rows[i], sim_tick[i], Config[i])
      BY <1>1, <2>1, <2>3, <2>6, Zenon
    <3>2. Config[i] \in Nat /\ Config[0] \in Nat
      BY <1>1, SeatTypes, Zenon
    <3>3. Shaped(i, rows[i], sim_tick[i], Config[0])
      BY <2>2, <2>6, <3>1, <3>2, ShapeAdopt, Zenon
    <3>4. QED
      BY <1>1, <1>2, <2>3, <2>4, <2>5, <2>6, <3>1, <3>3, Zenon
  <2>7. CASE boot_phase[i] # "RUNNING"
    <3>1. rows[i] = {}
      BY <1>1, <2>2, <2>7, Zenon
    <3>2. rows'[i] = rows[i] \cup 0 .. (m.delay - 1)
      BY <1>1, <2>1, <2>7, Zenon DEF BootTypes, BootTypeOK, seed_delay_prefix
    <3>3. rows'[i] = 0 .. (delay'[i] - 1)
      BY <2>2, <2>3, <3>1, <3>2, Zenon
    <3>4. QED
      BY <1>1, <1>2, <2>3, <2>4, <2>5, <2>7, <3>3, Zenon
  <2>8. QED
    BY <2>6, <2>7, Zenon
<1>5. QED
  BY <1>3, <1>4, Zenon

(* A seat that starts to run: the rest of the state stays, or gains only   *)
(* packets that are no HELLO of another delay.                             *)
LEMMA SegmentRuns ==
    ASSUME BootTypes, Segment, NEW i \in Occupied, boot_phase[i] # "RUNNING",
           sim_tick' = [sim_tick EXCEPT ![i] = 0],
           boot_phase' = [boot_phase EXCEPT ![i] = "RUNNING"],
           rows' = [rows EXCEPT ![i] = seed_delay_prefix(@, delay[i])],
           delay' = delay,
           \A m \in boot_net' : m.op = "HELLO" /\ m.from = 0 => m.delay = Config[0]
    PROVE  Segment'
<1>1. /\ rows'[i] = rows[i] \cup 0 .. (delay[i] - 1) /\ sim_tick'[i] = 0
      /\ boot_phase'[i] = "RUNNING"
  BY Zenon DEF BootTypes, BootTypeOK, seed_delay_prefix
<1>2. \A j \in Occupied \ {i} : /\ rows'[j] = rows[j] /\ sim_tick'[j] = sim_tick[j]
                                /\ boot_phase'[j] = boot_phase[j]
  BY Zenon DEF BootTypes, BootTypeOK
<1>3. delay[i] \in Nat /\ (rows[i] = {} \/ rows[i] = 0 .. (delay[i] - 1))
  BY SeatTypes, Zenon DEF Segment
<1>4. Shaped(i, rows'[i], sim_tick'[i], delay[i])
  <2>1. sim_tick'[i] = 0
    BY <1>1, Zenon
  <2>2. Shaped(i, rows[i] \cup 0 .. (delay[i] - 1), 0, delay[i])
    BY <1>3, ShapeBegin, Zenon
  <2>3. QED
    BY <1>1, <2>1, <2>2, Zenon
<1>5. QED
  BY <1>1, <1>2, <1>4, Zenon DEF Segment

(* Each step leaves every seat's rows in their shape. *)
LEMMA SegmentStep ==
    ASSUME BootTypes, Segment, [BootNext]_bootVars
    PROVE  Segment'
<1>1. CASE UNCHANGED bootVars
  BY <1>1, Zenon DEF bootVars, Segment
<1>2. ASSUME NEW i \in Occupied, start_lan(i)
      PROVE  Segment'
  BY <1>2, Zenon DEF start_lan, BootTypes, BootTypeOK, Segment
<1>3. ASSUME NEW i \in Occupied, maybe_bootstrap(i)
      PROVE  Segment'
  <2>1. delay' = delay /\ boot_phase[i] # "RUNNING"
    BY <1>3, Zenon DEF maybe_bootstrap
  <2>2. boot_net' \subseteq boot_net \cup Ready(i) \cup Hello(i) \cup Start
    BY <1>3 DEF maybe_bootstrap
  <2>3. \A m \in boot_net' : m.op = "HELLO" /\ m.from = 0 => m.delay = Config[0]
    <3>1. /\ \A m \in Hello(i) : m.from = i /\ m.delay = delay[i]
          /\ \A m \in Ready(i) \cup Start : m.op # "HELLO"
      <4>1. BootTypeOK
        BY Zenon DEF BootTypes
      <4>2. QED
        BY <4>1, Announcements, SMTT(30)
    <3>2. QED
      BY <2>2, <3>1, Zenon DEF Segment
  <2>4. CASE UNCHANGED <<boot_phase, start_sent, sim_tick, rows>>
    BY <2>1, <2>3, <2>4, Zenon DEF Segment
  <2>5. CASE /\ sim_tick' = [sim_tick EXCEPT ![i] = 0]
             /\ boot_phase' = [boot_phase EXCEPT ![i] = "RUNNING"]
             /\ rows' = [rows EXCEPT ![i] = seed_delay_prefix(@, delay[i])]
    BY <2>1, <2>3, <2>5, SegmentRuns, Zenon
  <2>6. QED
    BY <1>3, <2>4, <2>5, Zenon DEF maybe_bootstrap
<1>4. ASSUME NEW i \in Occupied, Sample(i)
      PROVE  Segment'
  <2>1. /\ sim_tick[i] + delay[i] \notin rows[i] /\ boot_phase[i] = "RUNNING"
        /\ rows'[i] = rows[i] \cup {sim_tick[i] + delay[i]}
        /\ \A j \in Occupied \ {i} : rows'[j] = rows[j]
        /\ UNCHANGED <<boot_phase, delay, sim_tick, boot_net>>
    BY <1>4, Zenon DEF Sample, BootTypes, BootTypeOK
  <2>2. Shaped(i, rows'[i], sim_tick[i], delay[i])
    <3>1. /\ Shaped(i, rows[i], sim_tick[i], delay[i])
          /\ sim_tick[i] \in Nat /\ delay[i] \in Nat
      BY <2>1, SeatTypes, Zenon DEF Segment
    <3>2. Shaped(i, rows[i] \cup {sim_tick[i] + delay[i]}, sim_tick[i], delay[i])
      BY <2>1, <3>1, ShapeSample, SMTT(30)
    <3>3. QED
      BY <2>1, <3>2, Zenon
  <2>3. QED
    BY <2>1, <2>2, Zenon DEF Segment
<1>5. ASSUME NEW i \in Occupied, advance(i)
      PROVE  Segment'
  <2>1. /\ sim_tick[i] + delay[i] \in rows[i] /\ boot_phase[i] = "RUNNING"
        /\ sim_tick'[i] = sim_tick[i] + 1
        /\ \A j \in Occupied \ {i} : sim_tick'[j] = sim_tick[j]
        /\ UNCHANGED <<boot_phase, delay, rows, boot_net>>
    BY <1>5, Zenon DEF advance, BootTypes, BootTypeOK
  <2>2. Shaped(i, rows[i], sim_tick'[i], delay[i])
    <3>1. /\ Shaped(i, rows[i], sim_tick[i], delay[i])
          /\ sim_tick[i] \in Nat /\ delay[i] \in Nat
      BY <2>1, SeatTypes, Zenon DEF Segment
    <3>2. Shaped(i, rows[i], sim_tick[i] + 1, delay[i])
      BY <2>1, <3>1, ShapeAdvance, SMTT(30)
    <3>3. QED
      BY <2>1, <3>2, Zenon
  <2>3. QED
    BY <2>1, <2>2, Zenon DEF Segment
<1>6. ASSUME NEW m \in boot_net, handle_decoded(m.to, m)
      PROVE  Segment'
  <2>0. m.to \in Occupied /\ m.from \in Occupied
    BY PacketFields, Zenon DEF BootTypes, BootTypeOK
  <2>1. CASE m.op = "HELLO" /\ OnHello(m.to, m)
    BY <2>0, <2>1, SegmentHello, Zenon
  <2>2. CASE m.op = "READY" /\ OnReady(m.to, m)
    <3>1. boot_net' \subseteq boot_net \cup Start
      BY <2>2, Zenon DEF OnReady
    <3>2. \A q \in Start : q.op # "HELLO"
      <4>1. BootTypeOK
        BY Zenon DEF BootTypes
      <4>2. QED
        BY <2>0, <4>1, Announcements, SMTT(30)
    <3>3. QED
      BY <2>2, <3>1, <3>2, Zenon DEF OnReady, Segment
  <2>3. CASE m.op = "START" /\ OnStart(m.to, m)
    <3>1. CASE boot_phase[m.to] = "RUNNING"
      BY <2>3, <3>1, Zenon DEF OnStart, Segment
    <3>2. CASE boot_phase[m.to] # "RUNNING"
      <4>1. /\ sim_tick' = [sim_tick EXCEPT ![m.to] = 0]
            /\ boot_phase' = [boot_phase EXCEPT ![m.to] = "RUNNING"]
            /\ rows' = [rows EXCEPT ![m.to] = seed_delay_prefix(@, delay[m.to])]
            /\ delay' = delay /\ boot_net' = boot_net
        BY <2>3, <3>2, Zenon DEF OnStart
      <4>2. \A q \in boot_net' : q.op = "HELLO" /\ q.from = 0 => q.delay = Config[0]
        BY <4>1, Zenon DEF Segment
      <4>3. QED
        BY <2>0, <3>2, <4>1, <4>2, SegmentRuns, Zenon
    <3>3. QED
      BY <3>1, <3>2, Zenon
  <2>4. QED
    BY <1>6, <2>1, <2>2, <2>3, Zenon DEF handle_decoded
<1>7. ASSUME NEW m \in boot_net, BootLose(m)
      PROVE  Segment'
  BY <1>7, Zenon DEF BootLose, Segment
<1>8. QED
  BY <1>1, <1>2, <1>3, <1>4, <1>5, <1>6, <1>7, Zenon DEF BootNext

-----------------------------------------------------------------------------
(* In the initial state nobody has opened anything. *)
LEMMA BootInitTypes ==
    ASSUME BootInit PROVE BootTypes /\ \A i \in Occupied : boot_phase[i] = "IDLE"
<1> USE DEF BootInit
<1>1. boot_phase \in [Occupied -> Phases] /\ \A i \in Occupied : boot_phase[i] = "IDLE"
  BY Zenon DEF Phases
<1>2. delay \in [Occupied -> Nat] /\ peer_ready \in [Occupied -> SUBSET Occupied]
  BY ConfigAssumption, Zenon
<1>3. start_sent = (boot_phase[0] = "RUNNING")
  BY OccupiedAssumption, Zenon
<1>4. sim_tick \in [Occupied -> 0 .. MaxTick]
  BY MaxTickAssumption
<1>5. rows \in [Occupied -> SUBSET Nat] /\ boot_net \subseteq Packet
  BY Zenon
<1>6. \A m \in boot_net : m.op = "START" => m.to # 0
  BY Zenon
<1>7. QED
  BY <1>1, <1>2, <1>3, <1>4, <1>5, <1>6, Zenon DEF BootTypes, BootTypeOK

(* The types of the bootstrap, and the authority's own record of START:    *)
(* it runs exactly when it has sent one (maybe_bootstrap, handle_decoded). *)
THEOREM BootTypeCorrect == BootSpec => []BootTypeOK
<1>1. BootInit => BootTypes
  BY BootInitTypes, Zenon
<1>2. BootTypes /\ [BootNext]_bootVars => BootTypes'
  BY TypesStep, Zenon
<1>3. BootTypes => BootTypeOK
  BY Zenon DEF BootTypes
<1>4. QED
  BY <1>1, <1>2, <1>3, PTL DEF BootSpec

(* The READY barrier of maybe_bootstrap, for every set of seats: no seat   *)
(* runs before every seat has opened its transport, whatever the link does *)
(* with HELLO, READY and START, and whatever versions and delays meet.     *)
THEOREM BootBarrier == BootSpec => []NobodyRunsAlone
<1>1. BootInit => BootTypes /\ Barrier
  BY BootInitTypes, Zenon DEF BootInit, Barrier
<1>2. BootTypes /\ Barrier /\ [BootNext]_bootVars => BootTypes' /\ Barrier'
  BY TypesStep, BarrierStep, Zenon
<1>3. Barrier => NobodyRunsAlone
  BY Zenon DEF Barrier, AllOpened, Opened, NobodyRunsAlone
<1>4. QED
  BY <1>1, <1>2, <1>3, PTL DEF BootSpec

(* seed_delay_prefix and the rows sampled D ahead leave no hole, for any   *)
(* delays of the builds, but the one a HELLO after START opens at a guest  *)
(* with a shorter delay than the host's (handle_decoded, 791-796).         *)
THEOREM BootPrefix == BootSpec => []PrefixHeld
<1>1. BootInit => BootTypes /\ Segment
  <2> SUFFICES ASSUME BootInit PROVE BootTypes /\ Segment
    OBVIOUS
  <2>1. BootTypes /\ \A i \in Occupied : boot_phase[i] = "IDLE"
    BY BootInitTypes, Zenon
  <2>2. delay = Config /\ boot_net = {} /\ \A i \in Occupied : rows[i] = {}
    BY Zenon DEF BootInit
  <2>3. QED
    BY <2>1, <2>2, Zenon DEF Segment
<1>2. BootTypes /\ Segment /\ [BootNext]_bootVars => BootTypes' /\ Segment'
  BY TypesStep, SegmentStep, Zenon
<1>3. BootTypes /\ Segment => PrefixHeld
  <2> SUFFICES ASSUME BootTypes, Segment, NEW i \in Occupied, boot_phase[i] = "RUNNING",
                      NEW w \in rows[i], NEW t \in sim_tick[i] .. w, t \notin rows[i]
               PROVE  i # 0 /\ t \in Config[i] .. (delay[i] - 1) /\ delay[i] - 1 \notin rows[i]
    BY Zenon DEF PrefixHeld
  <2>1. Shaped(i, rows[i], sim_tick[i], delay[i])
    BY Zenon DEF Segment
  <2>2. QED
    <3>1. sim_tick[i] \in Nat /\ delay[i] \in Nat /\ Config[i] \in Nat
      BY SeatTypes, Zenon
    <3>2. QED
      BY <2>1, <3>1, ShapeHeld, Zenon
<1>4. QED
  BY <1>1, <1>2, <1>3, PTL DEF BootSpec
=============================================================================
