------------------------- MODULE NegotiationProofs -------------------------
(***************************************************************************)
(* Proofs about Negotiation, for any set of sessions: nobody sends         *)
(* application data into channels that are not open, no session is         *)
(* accepted twice, and neither a candidate nor an early Hello is lost.     *)
(*                                                                         *)
(* NegotiationInv is the inductive invariant. Its parts are proved apart,  *)
(* each from the parts it needs: Acceptance (what the wait loop may have   *)
(* in hand), HelloInHand, ReadinessIsTrue and AnswerFirst. PumpEffects and *)
(* StepKinds say once what the steps do to the inboxes.                    *)
(***************************************************************************)
EXTENDS Negotiation, SequenceFacts

Envelopes == [kind : Kinds, sid : Sids, re : Sids \cup {None}]

\* The session of every envelope the host has or had in hand has been dialled.
Dialled ==
    /\ \A i \in DOMAIN inbox[Host] : ctl[inbox[Host][i].sid] # "idle"
    /\ wait.sid # None => ctl[wait.sid] # "idle"
    /\ wait.cred # None => ctl[wait.cred] # "idle"
    /\ hostSid # None => ctl[hostSid] # "idle"

\* The host gets the credentials of a session once, and needs them to accept it.
CredentialsOnce ==
    /\ \A i, j \in DOMAIN inbox[Host] :
            inbox[Host][i].kind = "credentials" /\ inbox[Host][j].kind = "credentials"
                /\ inbox[Host][i].sid = inbox[Host][j].sid => i = j
    /\ \A i \in DOMAIN inbox[Host] : inbox[Host][i].kind = "credentials" =>
            /\ ctl[inbox[Host][i].sid] # "dialling"
            /\ wait.cred # inbox[Host][i].sid
            /\ \A k \in DOMAIN accepted : accepted[k] # inbox[Host][i].sid
    /\ wait.cred # None =>
            /\ ctl[wait.cred] # "dialling"
            /\ \A k \in DOMAIN accepted : accepted[k] # wait.cred
    /\ \A k \in DOMAIN accepted : ctl[accepted[k]] \notin {"idle", "dialling"}

\* The session the host is in is one it has accepted, ...
InAccepted == hostSid # None => \E k \in DOMAIN accepted : accepted[k] = hostSid

\* ... and so are those whose Hello it has got, which it keeps.
HelloInHand ==
    /\ \A s \in Sids : hello[s] = "delivered" => \E k \in DOMAIN accepted : accepted[k] = s
    /\ \A s \in Sids : hello[s] = "delivered" /\ hostSid = s => s \in frames \cup replied
    /\ \A s \in frames : hello[s] # "none"

\* Who knows the other side's channels to be open is right.
ReadinessIsTrue ==
    /\ pump[Host].open => <<Host, hostSid>> \in opened
    /\ \A s \in Sids :
        /\ pump[s].open => <<s, s>> \in opened
        /\ hello[s] # "none" => <<s, s>> \in opened
        /\ pump[s].ready => <<Host, s>> \in opened
        /\ \A i \in DOMAIN inbox[s] : inbox[s][i].kind = "ready" => <<Host, s>> \in opened

\* The offers the host reads are ones a controller has made.
OffersAreReal == \A i \in DOMAIN inbox[Host] : inbox[Host][i].kind = "offer" => inbox[Host][i].re # None

\* One inbox of a controller, and whether its answer comes first.
Ordered(box, desc) ==
    \A i \in DOMAIN box :
        /\ box[i].kind = "answer" => box[i].re # None
        /\ box[i].kind = "candidate" /\ desc = None =>
                \E j \in DOMAIN box : j < i /\ box[j].kind = "answer"
HasAnswer(box) == \E j \in DOMAIN box : box[j].kind = "answer"

\* The host's answer comes before its candidates.
AnswerFirst ==
    /\ OffersAreReal
    /\ \A s \in Sids : Ordered(inbox[s], pump[s].desc)
    /\ pump[Host].desc # None /\ hostSid \in live /\ pump[hostSid].desc = None =>
            HasAnswer(inbox[hostSid])

\* The inductive invariant.
NegotiationInv ==
    /\ TypeOK /\ Dialled /\ CredentialsOnce /\ InAccepted /\ EachSessionAcceptedOnce
    /\ HelloInHand /\ ReadinessIsTrue /\ NoEarlyData /\ AnswerFirst /\ NoCandidateDiscarded

\* The signaling queues of all peers.
Boxes == [Peers -> Seq(Envelopes)]

\* The inboxes and the names of the peers, from their types.
LEMMA TypeFacts ==
  ASSUME TypeOK
  PROVE  /\ inbox \in Boxes /\ Host \in Peers /\ Host \notin Sids /\ None \notin Sids
         /\ \A s \in Sids : s \in Peers /\ s # Host
  BY SidsAssumption DEF TypeOK, Boxes, Envelopes, Peers, Host

\* recv: the inbox of p without its first envelope.
LEMMA ReadOf ==
  ASSUME TypeOK, NEW p \in Peers, inbox[p] # <<>>
  PROVE  /\ Read(p) \in Boxes /\ Read(p)[p] = Tail(inbox[p])
         /\ \A q \in Peers : q # p => Read(p)[q] = inbox[q]
         /\ Head(inbox[p]) \in Envelopes /\ Head(inbox[p]) = inbox[p][1] /\ 1 \in DOMAIN inbox[p]
         /\ \A k \in DOMAIN Tail(inbox[p]) : k \in Nat /\ k + 1 \in DOMAIN inbox[p] /\ Tail(inbox[p])[k] = inbox[p][k + 1]
         /\ \A k \in DOMAIN inbox[p] : k = 1 \/ (k - 1 \in DOMAIN Tail(inbox[p]) /\ Tail(inbox[p])[k - 1] = inbox[p][k])
<1>1. inbox \in Boxes /\ inbox[p] \in Seq(Envelopes)
  BY TypeFacts DEF Boxes
<1>2. Tail(inbox[p]) \in Seq(Envelopes)
  BY <1>1, TailOf
<1>3. DOMAIN Tail(inbox[p]) \subseteq Nat
  BY <1>2, LenProperties
<1>4. /\ Head(inbox[p]) \in Envelopes /\ Head(inbox[p]) = inbox[p][1] /\ 1 \in DOMAIN inbox[p]
      /\ \A k \in DOMAIN Tail(inbox[p]) : k + 1 \in DOMAIN inbox[p] /\ Tail(inbox[p])[k] = inbox[p][k + 1]
      /\ \A k \in DOMAIN inbox[p] : k = 1 \/ (k - 1 \in DOMAIN Tail(inbox[p]) /\ Tail(inbox[p])[k - 1] = inbox[p][k])
  BY <1>1, TailOf
<1>5. /\ Read(p) \in Boxes /\ Read(p)[p] = Tail(inbox[p])
      /\ \A q \in Peers : q # p => Read(p)[q] = inbox[q]
  BY <1>1, <1>2 DEF Read, Boxes
<1> QED BY <1>3, <1>4, <1>5

\* One more envelope in one inbox.
Delivered(boxes, q, m) == [boxes EXCEPT ![q] = Append(boxes[q], m)]

\* The inbox an envelope is queued at has it last.
LEMMA DeliveredOf ==
  ASSUME NEW boxes \in Boxes, NEW q \in Peers, NEW m \in Envelopes
  PROVE  /\ Delivered(boxes, q, m) \in Boxes
         /\ Delivered(boxes, q, m)[q] = Append(boxes[q], m)
         /\ \A r \in Peers : r # q => Delivered(boxes, q, m)[r] = boxes[r]
         /\ \A k \in DOMAIN boxes[q] : k \in DOMAIN Append(boxes[q], m) /\ Append(boxes[q], m)[k] = boxes[q][k]
         /\ \A k \in DOMAIN Append(boxes[q], m) :
              \/ k \in DOMAIN boxes[q] /\ Append(boxes[q], m)[k] = boxes[q][k]
              \/ k = Len(boxes[q]) + 1 /\ Append(boxes[q], m)[k] = m
         /\ \A k \in DOMAIN boxes[q] : k < Len(boxes[q]) + 1
         /\ Len(boxes[q]) + 1 \in DOMAIN Append(boxes[q], m) /\ Append(boxes[q], m)[Len(boxes[q]) + 1] = m
<1>1. boxes[q] \in Seq(Envelopes)
  BY DEF Boxes
<1>2. Append(boxes[q], m) \in Seq(Envelopes)
  BY <1>1, AppendOf
<1>3. \A k \in DOMAIN boxes[q] : k < Len(boxes[q]) + 1
  BY <1>1, LenProperties
<1>4. /\ Delivered(boxes, q, m) \in Boxes
      /\ Delivered(boxes, q, m)[q] = Append(boxes[q], m)
      /\ \A r \in Peers : r # q => Delivered(boxes, q, m)[r] = boxes[r]
  BY <1>2 DEF Delivered, Boxes
<1>5. /\ \A k \in DOMAIN boxes[q] : k \in DOMAIN Append(boxes[q], m) /\ Append(boxes[q], m)[k] = boxes[q][k]
      /\ \A k \in DOMAIN Append(boxes[q], m) : k \in DOMAIN boxes[q] \/ k = Len(boxes[q]) + 1
      /\ Len(boxes[q]) + 1 \in DOMAIN Append(boxes[q], m) /\ Append(boxes[q], m)[Len(boxes[q]) + 1] = m
  BY <1>1, AppendOf
<1> QED BY <1>3, <1>4, <1>5

\* A peer in its pump sends one envelope: to the other side, while the session lives.
LEMMA SendOf ==
  ASSUME TypeOK, NEW boxes \in Boxes, NEW p \in Peers, InPump(p), NEW m \in Envelopes
  PROVE  /\ SidOf(p) \in Sids /\ Other(p) \in Peers /\ Other(p) # p
         /\ SidOf(p) \in live => Send(boxes, p, <<m>>) = Delivered(boxes, Other(p), m)
         /\ SidOf(p) \notin live => Send(boxes, p, <<m>>) = boxes
<1>1. SidOf(p) \in Sids /\ Other(p) \in Peers /\ Other(p) # p
  BY SidsAssumption DEF TypeOK, SidOf, Other, InPump, Peers, Host
<1>2. boxes[Other(p)] \o <<m>> = Append(boxes[Other(p)], m)
  <2>1. boxes[Other(p)] \in Seq(Envelopes)
    BY <1>1 DEF Boxes
  <2> QED BY <2>1, AppendIsConcat
<1> QED BY <1>1, <1>2 DEF Send, Delivered

\* The type of pump's locals.
Locals == [desc : Sids \cup {None}, pending : SUBSET Sids, gathered : BOOLEAN,
           connected : BOOLEAN, open : BOOLEAN, announced : BOOLEAN, ready : BOOLEAN]

\* An envelope and its fields.
LEMMA EnvelopeOf ==
  ASSUME NEW kind \in Kinds, NEW s \in Sids, NEW re \in Sids \cup {None}
  PROVE  /\ Msg(kind, s, re) \in Envelopes /\ Msg(kind, s, re).kind = kind
         /\ Msg(kind, s, re).sid = s /\ Msg(kind, s, re).re = re
  BY DEF Msg, Envelopes

\* The end of an iteration of pump says "ready" or nothing, and only with open channels.
LEMMA IterateOf ==
  ASSUME TypeOK, NEW p \in Peers, InPump(p), NEW boxes \in Boxes, NEW q \in Locals,
         Iterate(p, boxes, q)
  PROVE  /\ pump' \in [Peers -> Locals] /\ inbox' \in Boxes
         /\ \A r \in Peers : r # p => pump'[r] = pump[r]
         /\ pump'[p].desc = q.desc /\ pump'[p].open = q.open /\ pump'[p].ready = q.ready
         /\ \/ inbox' = boxes
            \/ /\ q.open /\ SidOf(p) \in live
               /\ inbox' = Delivered(boxes, Other(p), Msg("ready", SidOf(p), None))
<1> DEFINE n == [q EXCEPT !.announced = @ \/ Announces(q)]
<1>1. n \in Locals /\ n.desc = q.desc /\ n.open = q.open /\ n.ready = q.ready
  BY DEF Locals, Announces, Settled
<1>2. pump \in [Peers -> Locals] /\ pump' = [pump EXCEPT ![p] = n]
  BY DEF TypeOK, Locals, Iterate
<1>3. SidOf(p) \in Sids
  BY SendOf, EnvelopeOf, SidsAssumption DEF TypeOK, SidOf, InPump, Peers, Host
<1>4. Msg("ready", SidOf(p), None) \in Envelopes
  BY <1>3, EnvelopeOf DEF Kinds
<1>5. \/ inbox' = boxes
      \/ /\ q.open /\ SidOf(p) \in live
         /\ inbox' = Delivered(boxes, Other(p), Msg("ready", SidOf(p), None))
  <2>1. CASE Announces(q)
    BY <1>4, <2>1, SendOf DEF Iterate, Announces
  <2>2. CASE ~Announces(q)
    BY <2>2 DEF Iterate
  <2> QED BY <2>1, <2>2
<1>6. inbox' \in Boxes
  <2>1. Other(p) \in Peers
    BY <1>4, SendOf
  <2> QED BY <1>4, <1>5, <2>1, DeliveredOf
<1> HIDE DEF n
<1> QED BY <1>1, <1>2, <1>5, <1>6

\* Before the first call every variable has its type, ...
LEMMA InitTypeOK == Init => TypeOK
<1> SUFFICES ASSUME Init PROVE TypeOK
  OBVIOUS
<1>1. Idle \in Locals /\ Waiting \in [sid : Sids \cup {None}, cred : Sids \cup {None}]
  BY DEF Idle, Waiting, Locals
<1>2. inbox \in [Peers -> Seq([kind : Kinds, sid : Sids, re : Sids \cup {None}])]
  BY DEF Init
<1> QED BY <1>1, <1>2 DEF Init, TypeOK, Locals

\* ... and every step keeps it.
LEMMA NextTypeOK == TypeOK /\ [Next]_vars => TypeOK'
<1> SUFFICES ASSUME TypeOK, [Next]_vars PROVE TypeOK'
  OBVIOUS
<1>t. /\ inbox \in Boxes /\ Host \in Peers /\ Host \notin Sids /\ None \notin Sids
      /\ \A s \in Sids : s \in Peers /\ s # Host
      /\ pump \in [Peers -> Locals] /\ Idle \in Locals
      /\ Waiting \in [sid : Sids \cup {None}, cred : Sids \cup {None}]
      /\ InPump(Host) => hostSid \in Sids
  BY TypeFacts DEF TypeOK, Locals, Idle, Waiting, InPump
<1>b. ASSUME inbox' \in Boxes PROVE inbox' \in [Peers -> Seq([kind : Kinds, sid : Sids, re : Sids \cup {None}])]
  BY <1>b DEF Boxes, Envelopes
<1>p. ASSUME pump' \in [Peers -> Locals]
      PROVE  pump' \in [Peers -> [desc : Sids \cup {None}, pending : SUBSET Sids, gathered : BOOLEAN,
                           connected : BOOLEAN, open : BOOLEAN, announced : BOOLEAN, ready : BOOLEAN]]
  BY <1>p DEF Locals
<1>1. ASSUME NEW s \in Sids, Dial(s) \/ Credentials(s) \/ Offer(s) PROVE TypeOK'
  <2>1. \E m \in Envelopes : inbox' = Delivered(inbox, Host, m)
    <3>1. /\ Msg("request", s, None) \in Envelopes /\ Msg("credentials", s, None) \in Envelopes
          /\ Msg("offer", s, s) \in Envelopes
      BY EnvelopeOf DEF Kinds
    <3> QED BY <1>1, <3>1 DEF Dial, Credentials, Offer, Delivered
  <2>2. inbox' \in Boxes
    BY <1>t, <2>1, DeliveredOf
  <2>3. CASE Dial(s)
    BY <1>b, <2>2, <2>3 DEF Dial, TypeOK
  <2>4. CASE Credentials(s)
    BY <1>b, <2>2, <2>4 DEF Credentials, TypeOK
  <2>5. CASE Offer(s)
    BY <1>b, <2>2, <2>5 DEF Offer, TypeOK
  <2> QED BY <1>1, <2>3, <2>4, <2>5
<1>2. CASE StillWaiting \/ AcceptConnection
  <2> DEFINE m == Head(inbox[Host])
             w == WaitedFor(m).next
  <2>1. inbox[Host] # <<>> /\ m \in Envelopes /\ Read(Host) \in Boxes
    BY <1>t, <1>2, ReadOf DEF StillWaiting, AcceptConnection
  <2>2. w \in [sid : Sids \cup {None}, cred : Sids \cup {None}]
    BY <2>1 DEF WaitedFor, TypeOK, Envelopes
  <2>3. CASE StillWaiting
    BY <1>b, <2>1, <2>2, <2>3 DEF StillWaiting, TypeOK
  <2>4. CASE AcceptConnection
    <3>1. w.sid \in Sids
      BY <2>2, <2>4 DEF AcceptConnection, WaitedFor
    <3>2. Msg("response", w.sid, None) \in Envelopes
      BY <3>1, EnvelopeOf DEF Kinds
    <3>3. inbox' = Read(Host) \/ inbox' = Delivered(Read(Host), w.sid, Msg("response", w.sid, None))
      BY <2>4 DEF AcceptConnection, Delivered
    <3>4. inbox' \in Boxes
      BY <1>t, <2>1, <3>1, <3>2, <3>3, DeliveredOf
    <3>5. accepted' \in Seq(Sids) /\ hostSid' \in Sids
      BY <2>4, <3>1, AppendOf DEF AcceptConnection, TypeOK
    <3>6. pump' \in [Peers -> Locals]
      BY <1>t, <2>4 DEF AcceptConnection
    <3> QED BY <1>t, <1>b, <1>p, <2>4, <3>4, <3>5, <3>6 DEF AcceptConnection, TypeOK
  <2> QED BY <1>2, <2>3, <2>4
<1>3. CASE PumpOffer
  <2> DEFINE m == Head(inbox[Host])
  <2>1. m \in Envelopes /\ Read(Host) \in Boxes /\ InPump(Host)
    BY <1>t, <1>3, ReadOf DEF PumpOffer, Got, Pumping
  <2>2. Msg("answer", hostSid, m.re) \in Envelopes
    BY <1>t, <2>1, EnvelopeOf DEF Kinds, Envelopes
  <2>3. inbox' \in Boxes
    <3> DEFINE a == Msg("answer", hostSid, m.re)
    <3>1. inbox' = Send(Read(Host), Host, <<a>>)
      BY <1>3 DEF PumpOffer
    <3> HIDE DEF a
    <3>2. /\ Other(Host) \in Peers
          /\ inbox' = Read(Host) \/ inbox' = Delivered(Read(Host), Other(Host), a)
      BY <1>t, <2>1, <2>2, <3>1, SendOf DEF a
    <3> QED BY <2>1, <2>2, <3>2, DeliveredOf DEF a
  <2>4. pump' \in [Peers -> Locals]
    BY <1>t, <1>3, <2>1 DEF PumpOffer, Locals, Envelopes
  <2> QED BY <1>b, <1>p, <1>3, <2>3, <2>4 DEF PumpOffer, TypeOK
<1>4. ASSUME NEW s \in Sids, PumpAnswer(s) PROVE TypeOK'
  <2>1. Head(inbox[s]) \in Envelopes /\ inbox' \in Boxes
    BY <1>t, <1>4, ReadOf DEF PumpAnswer, Got
  <2>2. pump' \in [Peers -> Locals]
    BY <1>t, <1>4, <2>1 DEF PumpAnswer, Locals, Envelopes
  <2> QED BY <1>b, <1>p, <1>4, <2>1, <2>2 DEF PumpAnswer, TypeOK
<1>5. ASSUME NEW p \in Peers, PumpCandidate(p) PROVE TypeOK'
  <2>1. Head(inbox[p]) \in Envelopes /\ inbox' \in Boxes
    BY <1>t, <1>5, ReadOf DEF PumpCandidate, Got
  <2>2. pump' \in [Peers -> Locals]
    BY <1>t, <1>5, <2>1 DEF PumpCandidate, Locals, Envelopes
  <2>3. discarded' \subseteq Peers \X Sids
    BY <1>5, <2>1 DEF PumpCandidate, TypeOK, Envelopes
  <2> QED BY <1>b, <1>p, <1>5, <2>1, <2>2, <2>3 DEF PumpCandidate, TypeOK
<1>6. ASSUME NEW p \in Peers, PumpReady(p) \/ Connected(p) \/ AllOpen(p) PROVE TypeOK'
  <2>1. InPump(p) /\ pump[p] \in Locals /\ SidOf(p) \in Sids
    BY <1>t, <1>6 DEF PumpReady, Connected, AllOpen, Pumping, SidOf, Peers
  <2>2. PICK q \in Locals, boxes \in Boxes : Iterate(p, boxes, q)
    <3>1. CASE PumpReady(p)
      <4>1. Read(p) \in Boxes /\ [pump[p] EXCEPT !.ready = TRUE] \in Locals
        BY <2>1, <3>1, ReadOf DEF PumpReady, Got, Locals
      <4> QED BY <3>1, <4>1 DEF PumpReady
    <3>2. CASE Connected(p)
      <4>1. [pump[p] EXCEPT !.connected = TRUE] \in Locals
        BY <2>1 DEF Locals
      <4> QED BY <1>t, <3>2, <4>1 DEF Connected
    <3>3. CASE AllOpen(p)
      <4>1. [pump[p] EXCEPT !.open = TRUE] \in Locals
        BY <2>1 DEF Locals
      <4> QED BY <1>t, <3>3, <4>1 DEF AllOpen
    <3> QED BY <1>6, <3>1, <3>2, <3>3
  <2>3. pump' \in [Peers -> Locals] /\ inbox' \in Boxes
    BY <2>1, <2>2, IterateOf
  <2>4. opened' \subseteq Peers \X Sids
    BY <1>6, <2>1 DEF PumpReady, Connected, AllOpen, TypeOK
  <2> QED BY <1>b, <1>p, <1>6, <2>3, <2>4 DEF PumpReady, Connected, AllOpen, TypeOK
<1>7. ASSUME NEW p \in Peers, PumpIgnores(p) PROVE TypeOK'
  <2>1. inbox' \in Boxes
    BY <1>7, ReadOf DEF PumpIgnores
  <2> QED BY <1>b, <1>7, <2>1 DEF PumpIgnores, TypeOK
<1>8. ASSUME NEW p \in Peers, LocalCandidate(p) PROVE TypeOK'
  <2>1. InPump(p) /\ SidOf(p) \in Sids
    BY <1>t, <1>8 DEF LocalCandidate, Pumping, SidOf, Peers
  <2>2. Msg("candidate", SidOf(p), None) \in Envelopes
    BY <2>1, EnvelopeOf DEF Kinds
  <2>3. inbox' \in Boxes
    BY <1>t, <1>8, <2>1, <2>2, SendOf, DeliveredOf DEF LocalCandidate
  <2>4. pump' \in [Peers -> Locals]
    BY <1>t, <1>8 DEF LocalCandidate, Locals
  <2> QED BY <1>b, <1>p, <1>8, <2>3, <2>4 DEF LocalCandidate, TypeOK
<1>9. CASE HostSettles \/ HelloAck \/ \E s \in Sids : LinkUp(s) \/ ControllerSettles(s) \/ DeliverHello(s)
  <2>1. CASE HostSettles \/ HelloAck
    BY <1>t, <2>1 DEF HostSettles, HelloAck, TypeOK, InPump
  <2>2. ASSUME NEW s \in Sids, LinkUp(s) \/ DeliverHello(s) PROVE TypeOK'
    <3>1. CASE LinkUp(s)
      BY <1>t, <3>1 DEF LinkUp, TypeOK
    <3>2. CASE DeliverHello(s)
      BY <1>t, <3>2 DEF DeliverHello, TypeOK
    <3> QED BY <2>2, <3>1, <3>2
  <2>3. ASSUME NEW s \in Sids, ControllerSettles(s) PROVE TypeOK'
    BY <1>t, <2>3 DEF ControllerSettles, TypeOK
  <2> QED BY <1>9, <2>1, <2>2, <2>3
<1>10. CASE HostPeerGone \/ HostGivesUp
  <2>1. inbox' \in Boxes
    BY <1>t, <1>10, ReadOf DEF HostPeerGone, HostGivesUp, HostGoesBack, Got
  <2>2. pump' \in [Peers -> Locals]
    BY <1>t, <1>10 DEF HostPeerGone, HostGivesUp, HostGoesBack
  <2> QED BY <1>t, <1>b, <1>p, <1>10, <2>1, <2>2 DEF HostPeerGone, HostGivesUp, HostGoesBack, TypeOK
<1>11. ASSUME NEW s \in Sids, ControllerLeaves(s) PROVE TypeOK'
  <2>1. Msg("gone", s, None) \in Envelopes
    BY EnvelopeOf DEF Kinds
  <2>2. [inbox EXCEPT ![s] = <<>>] \in Boxes
    BY <1>t DEF Boxes
  <2>3. inbox' = Delivered([inbox EXCEPT ![s] = <<>>], Host, Msg("gone", s, None))
    BY <1>t, <1>11 DEF ControllerLeaves, Delivered, Boxes
  <2>4. inbox' \in Boxes
    BY <1>t, <2>1, <2>2, <2>3, DeliveredOf
  <2>5. pump' \in [Peers -> Locals]
    BY <1>t, <1>11 DEF ControllerLeaves
  <2> QED BY <1>b, <1>p, <1>11, <2>4, <2>5 DEF ControllerLeaves, TypeOK
<1>12. CASE UNCHANGED vars
  BY <1>12 DEF vars, TypeOK
<1> QED BY <1>1, <1>2, <1>3, <1>4, <1>5, <1>6, <1>7, <1>8, <1>9, <1>10, <1>11, <1>12 DEF Next, Pump

\* What an arm of pump does: it reads at most one envelope and sends at most one.
LEMMA PumpEffects ==
  ASSUME TypeOK, NEW p \in Peers, Pump(p)
  PROVE  /\ UNCHANGED <<live, hostPhase, hostSid, wait, ctl, link, hello, frames, accepted, replied>>
         /\ InPump(p) /\ SidOf(p) \in Sids /\ Other(p) \in Peers /\ Other(p) # p
         /\ \A r \in Peers : r # p => pump'[r] = pump[r]
         /\ pump'[p].desc = pump[p].desc
         /\ pump'[p].open => pump[p].open \/ <<p, SidOf(p)>> \in opened'
         /\ pump'[p].ready => pump[p].ready \/ (inbox[p] # <<>> /\ Head(inbox[p]).kind = "ready")
         /\ opened \subseteq opened'
         /\ \/ discarded' = discarded
            \/ p # Host /\ pump[p].desc = None /\ inbox[p] # <<>> /\ Head(inbox[p]).kind = "candidate"
         /\ \E boxes \in Boxes :
              /\ \/ boxes = inbox
                 \/ inbox[p] # <<>> /\ Head(inbox[p]).kind # "answer" /\ boxes = Read(p)
              /\ \/ inbox' = boxes
                 \/ \E m \in Envelopes :
                      /\ m.sid = SidOf(p) /\ m.kind \in {"ready", "candidate"}
                      /\ m.kind = "ready" => pump'[p].open
                      /\ m.kind = "candidate" /\ p = Host => pump[p].desc # None
                      /\ SidOf(p) \in live /\ inbox' = Delivered(boxes, Other(p), m)
<1>t. /\ inbox \in Boxes /\ pump \in [Peers -> Locals] /\ Host \in Peers
      /\ InPump(Host) => hostSid \in Sids
  BY TypeFacts DEF TypeOK, Locals, InPump
<1>1. InPump(p) /\ SidOf(p) \in Sids /\ pump[p] \in Locals
  BY <1>t DEF Pump, PumpCandidate, PumpReady, PumpIgnores, LocalCandidate, Connected, AllOpen, Pumping,
              SidOf, Peers
<1>2. Msg("ready", SidOf(p), None) \in Envelopes /\ Msg("candidate", SidOf(p), None) \in Envelopes
      /\ Msg("ready", SidOf(p), None).sid = SidOf(p) /\ Msg("candidate", SidOf(p), None).sid = SidOf(p)
      /\ Msg("ready", SidOf(p), None).kind = "ready" /\ Msg("candidate", SidOf(p), None).kind = "candidate"
  BY <1>1, EnvelopeOf DEF Kinds
<1>3. Other(p) \in Peers /\ Other(p) # p
  BY <1>t, <1>1, <1>2, SendOf
<1>4. CASE PumpCandidate(p)
  <2>1. inbox[p] # <<>> /\ Head(inbox[p]).kind = "candidate" /\ inbox' = Read(p) /\ Read(p) \in Boxes
    BY <1>4, ReadOf DEF PumpCandidate, Got
  <2>2. /\ UNCHANGED <<live, hostPhase, hostSid, wait, ctl, link, hello, frames, accepted, replied, opened>>
        /\ \/ discarded' = discarded
           \/ p # Host /\ pump[p].desc = None
    BY <1>4 DEF PumpCandidate
  <2>3. /\ \A r \in Peers : r # p => pump'[r] = pump[r]
        /\ pump'[p].desc = pump[p].desc /\ pump'[p].open = pump[p].open /\ pump'[p].ready = pump[p].ready
    BY <1>t, <1>4 DEF PumpCandidate, Locals
  <2> QED BY <1>1, <1>3, <2>1, <2>2, <2>3
<1>5. CASE PumpIgnores(p)
  <2>1. inbox[p] # <<>> /\ Head(inbox[p]).kind # "answer" /\ inbox' = Read(p) /\ Read(p) \in Boxes
    BY <1>5, ReadOf DEF PumpIgnores
  <2>2. UNCHANGED <<live, hostPhase, hostSid, wait, ctl, link, hello, frames, accepted, replied, opened,
                    pump, discarded>>
    BY <1>5 DEF PumpIgnores
  <2> QED BY <1>1, <1>3, <2>1, <2>2
<1>6. CASE LocalCandidate(p)
  <2>1. UNCHANGED <<live, hostPhase, hostSid, wait, ctl, link, hello, frames, accepted, replied, opened,
                    discarded>>
    BY <1>6 DEF LocalCandidate
  <2>2. /\ \A r \in Peers : r # p => pump'[r] = pump[r]
        /\ pump'[p].desc = pump[p].desc /\ pump'[p].open = pump[p].open /\ pump'[p].ready = pump[p].ready
    BY <1>t, <1>6 DEF LocalCandidate, Locals
  <2>3. \/ inbox' = inbox
        \/ SidOf(p) \in live /\ inbox' = Delivered(inbox, Other(p), Msg("candidate", SidOf(p), None))
    BY <1>t, <1>1, <1>2, <1>6, SendOf DEF LocalCandidate
  <2>4. p = Host => pump[p].desc # None
    BY <1>6 DEF LocalCandidate
  <2> QED BY <1>t, <1>1, <1>2, <1>3, <2>1, <2>2, <2>3, <2>4
\* The arms that end in Iterate.
<1>7. ASSUME NEW q \in Locals, NEW boxes \in Boxes, Iterate(p, boxes, q),
             q.desc = pump[p].desc,
             q.open => pump[p].open \/ <<p, SidOf(p)>> \in opened',
             q.ready => pump[p].ready \/ (inbox[p] # <<>> /\ Head(inbox[p]).kind = "ready"),
             opened \subseteq opened', discarded' = discarded,
             \/ boxes = inbox
             \/ inbox[p] # <<>> /\ Head(inbox[p]).kind # "answer" /\ boxes = Read(p),
             UNCHANGED <<live, hostPhase, hostSid, wait, ctl, link, hello, frames, accepted, replied>>
      PROVE  /\ UNCHANGED <<live, hostPhase, hostSid, wait, ctl, link, hello, frames, accepted, replied>>
             /\ \A r \in Peers : r # p => pump'[r] = pump[r]
             /\ pump'[p].desc = pump[p].desc
             /\ pump'[p].open => pump[p].open \/ <<p, SidOf(p)>> \in opened'
             /\ pump'[p].ready => pump[p].ready \/ (inbox[p] # <<>> /\ Head(inbox[p]).kind = "ready")
             /\ opened \subseteq opened' /\ discarded' = discarded
             /\ \/ boxes = inbox
                \/ inbox[p] # <<>> /\ Head(inbox[p]).kind # "answer" /\ boxes = Read(p)
             /\ \/ inbox' = boxes
                \/ \E m \in Envelopes :
                      /\ m.sid = SidOf(p) /\ m.kind \in {"ready", "candidate"}
                      /\ m.kind = "ready" => pump'[p].open
                      /\ m.kind = "candidate" /\ p = Host => pump[p].desc # None
                      /\ SidOf(p) \in live /\ inbox' = Delivered(boxes, Other(p), m)
  <2>1. /\ \A r \in Peers : r # p => pump'[r] = pump[r]
        /\ pump'[p].desc = q.desc /\ pump'[p].open = q.open /\ pump'[p].ready = q.ready
        /\ \/ inbox' = boxes
           \/ /\ q.open /\ SidOf(p) \in live
              /\ inbox' = Delivered(boxes, Other(p), Msg("ready", SidOf(p), None))
    BY <1>1, <1>7, IterateOf
  <2> QED BY <1>2, <1>7, <2>1
<1>8. CASE PumpReady(p)
  <2> DEFINE q == [pump[p] EXCEPT !.ready = TRUE]
  <2>1. /\ inbox[p] # <<>> /\ Head(inbox[p]).kind = "ready" /\ Read(p) \in Boxes
        /\ Iterate(p, Read(p), q)
        /\ UNCHANGED <<live, hostPhase, hostSid, wait, ctl, link, hello, frames, accepted, replied,
                       opened, discarded>>
    BY <1>8, ReadOf DEF PumpReady, Got
  <2>2. q \in Locals /\ q.desc = pump[p].desc /\ q.open = pump[p].open
    BY <1>1 DEF Locals
  <2> HIDE DEF q
  <2> QED BY <1>1, <1>3, <1>7, <2>1, <2>2
<1>9. CASE Connected(p)
  <2> DEFINE q == [pump[p] EXCEPT !.connected = TRUE]
  <2>1. /\ Iterate(p, inbox, q)
        /\ UNCHANGED <<live, hostPhase, hostSid, wait, ctl, link, hello, frames, accepted, replied,
                       opened, discarded>>
    BY <1>9 DEF Connected
  <2>2. q \in Locals /\ q.desc = pump[p].desc /\ q.open = pump[p].open /\ q.ready = pump[p].ready
    BY <1>1 DEF Locals
  <2> HIDE DEF q
  <2> QED BY <1>t, <1>1, <1>3, <1>7, <2>1, <2>2
<1>10. CASE AllOpen(p)
  <2> DEFINE q == [pump[p] EXCEPT !.open = TRUE]
  <2>1. /\ Iterate(p, inbox, q) /\ opened' = opened \cup {<<p, SidOf(p)>>}
        /\ UNCHANGED <<live, hostPhase, hostSid, wait, ctl, link, hello, frames, accepted, replied,
                       discarded>>
    BY <1>10 DEF AllOpen
  <2>2. q \in Locals /\ q.desc = pump[p].desc /\ q.ready = pump[p].ready
    BY <1>1 DEF Locals
  <2> HIDE DEF q
  <2> QED BY <1>t, <1>1, <1>3, <1>7, <2>1, <2>2
<1> QED BY <1>4, <1>5, <1>6, <1>8, <1>9, <1>10 DEF Pump

\* What the host has been told of sessions, and which it has accepted.
Acceptance == Dialled /\ CredentialsOnce /\ InAccepted /\ EachSessionAcceptedOnce

\* The wait loop accepts a session on the credentials of that session, which the
\* server sends once; having used them it cannot accept the session again.
LEMMA NextAcceptance == TypeOK /\ Acceptance /\ [Next]_vars => Acceptance'
<1> SUFFICES ASSUME TypeOK, Acceptance, [Next]_vars PROVE Acceptance'
  OBVIOUS
<1> DEFINE box == inbox[Host]
<1>t. /\ inbox \in Boxes /\ Host \in Peers /\ Host \notin Sids /\ None \notin Sids
      /\ \A s \in Sids : s \in Peers /\ s # Host
      /\ box \in Seq(Envelopes) /\ accepted \in Seq(Sids)
      /\ \A i \in DOMAIN box : box[i].sid \in Sids
      /\ \A k \in DOMAIN accepted : accepted[k] \in Sids
      /\ DOMAIN accepted = 1..Len(accepted) /\ Len(accepted) \in Nat
  <2>1. inbox \in Boxes /\ Host \in Peers /\ Host \notin Sids /\ None \notin Sids
        /\ \A s \in Sids : s \in Peers /\ s # Host
    BY TypeFacts
  <2>2. box \in Seq(Envelopes) /\ accepted \in Seq(Sids)
    BY <2>1 DEF Boxes, TypeOK
  <2>3. \A i \in DOMAIN box : box[i] \in Envelopes
    BY <2>2, ElementOfSeq, LenProperties
  <2> QED BY <2>1, <2>2, <2>3, ElementOfSeq, LenProperties DEF Envelopes
<1> HIDE DEF box
\* A step in which the wait loop takes no part, and no credentials are sent.
<1>1. ASSUME wait' = wait, accepted' = accepted, hostSid' \in {hostSid, None},
             \A s \in Sids : /\ ctl[s] # "idle" => ctl'[s] # "idle"
                             /\ ctl[s] \notin {"idle", "dialling"} => ctl'[s] \notin {"idle", "dialling"},
             \/ inbox'[Host] = box
             \/ box # <<>> /\ inbox'[Host] = Tail(box)
             \/ \E m \in Envelopes : /\ m.kind # "credentials" /\ ctl'[m.sid] # "idle"
                                     /\ inbox'[Host] = Append(box, m)
      PROVE  Acceptance'
  <2>1. \A s \in Sids : /\ ctl[s] # "idle" => ctl'[s] # "idle"
                        /\ ctl[s] \notin {"idle", "dialling"} => ctl'[s] \notin {"idle", "dialling"}
    BY <1>1
  <2>2. wait.sid \in Sids \cup {None} /\ wait.cred \in Sids \cup {None} /\ hostSid \in Sids \cup {None}
    BY DEF TypeOK
  <2>3. (InAccepted /\ EachSessionAcceptedOnce)'
    BY <1>1 DEF Acceptance, InAccepted, EachSessionAcceptedOnce
  \* Where the envelopes of the new inbox come from.
  <2>4. PICK at : \A i \in DOMAIN inbox'[Host] :
            \/ inbox'[Host][i].kind # "credentials" /\ inbox'[Host][i].sid \in Sids
                    /\ ctl'[inbox'[Host][i].sid] # "idle"
            \/ at[i] \in DOMAIN box /\ inbox'[Host][i] = box[at[i]]
                    /\ \A j \in DOMAIN inbox'[Host] : at[i] = at[j] => i = j
    <3>1. CASE inbox'[Host] = box
      <4> DEFINE f == [i \in DOMAIN box |-> i]
      <4>1. \A i \in DOMAIN box : f[i] = i
        OBVIOUS
      <4> HIDE DEF f
      <4> QED BY <3>1, <4>1
    <3>2. CASE box # <<>> /\ inbox'[Host] = Tail(box)
      <4> DEFINE f == [i \in DOMAIN Tail(box) |-> i + 1]
      <4>1. \A i \in DOMAIN Tail(box) : f[i] = i + 1 /\ i \in Nat /\ i + 1 \in DOMAIN box /\ Tail(box)[i] = box[i + 1]
        BY <1>t, <3>2, TailOf, LenProperties
      <4> HIDE DEF f
      <4> QED BY <3>2, <4>1
    <3>3. ASSUME NEW m \in Envelopes, m.kind # "credentials", ctl'[m.sid] # "idle", inbox'[Host] = Append(box, m)
          PROVE  \E f : \A i \in DOMAIN inbox'[Host] :
                    \/ inbox'[Host][i].kind # "credentials" /\ inbox'[Host][i].sid \in Sids
                            /\ ctl'[inbox'[Host][i].sid] # "idle"
                    \/ f[i] \in DOMAIN box /\ inbox'[Host][i] = box[f[i]]
                            /\ \A j \in DOMAIN inbox'[Host] : f[i] = f[j] => i = j
      <4> DEFINE f == [i \in DOMAIN Append(box, m) |-> i]
      <4>1. \A i \in DOMAIN Append(box, m) : f[i] = i /\
                (Append(box, m)[i] = m \/ (i \in DOMAIN box /\ Append(box, m)[i] = box[i]))
        BY <1>t, AppendOf
      <4>2. m.sid \in Sids
        BY DEF Envelopes
      <4> HIDE DEF f
      <4> QED BY <3>3, <4>1, <4>2
    <3> QED BY <1>1, <3>1, <3>2, <3>3
  <2>5. Dialled'
    BY <1>t, <1>1, <2>1, <2>2, <2>4 DEF Acceptance, Dialled, box
  <2>6. CredentialsOnce'
    <3>1. ASSUME NEW i \in DOMAIN inbox'[Host], inbox'[Host][i].kind = "credentials"
          PROVE  /\ at[i] \in DOMAIN box /\ inbox'[Host][i] = box[at[i]]
                 /\ \A j \in DOMAIN inbox'[Host] : at[i] = at[j] => i = j
      BY <2>4, <3>1
    <3>2. ASSUME NEW i \in DOMAIN inbox'[Host], NEW j \in DOMAIN inbox'[Host],
                 inbox'[Host][i].kind = "credentials", inbox'[Host][j].kind = "credentials",
                 inbox'[Host][i].sid = inbox'[Host][j].sid
          PROVE  i = j
      BY <3>1, <3>2 DEF Acceptance, CredentialsOnce, box
    <3>3. ASSUME NEW i \in DOMAIN inbox'[Host], inbox'[Host][i].kind = "credentials"
          PROVE  /\ ctl'[inbox'[Host][i].sid] # "dialling"
                 /\ wait'.cred # inbox'[Host][i].sid
                 /\ \A k \in DOMAIN accepted' : accepted'[k] # inbox'[Host][i].sid
      BY <1>t, <1>1, <2>1, <3>1, <3>3 DEF Acceptance, CredentialsOnce, Dialled, box
    <3>4. wait'.cred # None =>
            /\ ctl'[wait'.cred] # "dialling"
            /\ \A k \in DOMAIN accepted' : accepted'[k] # wait'.cred
      BY <1>1, <2>1, <2>2 DEF Acceptance, CredentialsOnce, Dialled
    <3>5. \A k \in DOMAIN accepted' : ctl'[accepted'[k]] \notin {"idle", "dialling"}
      BY <1>t, <1>1, <2>1 DEF Acceptance, CredentialsOnce
    <3> QED BY <3>2, <3>3, <3>4, <3>5 DEF CredentialsOnce
  <2> QED BY <2>3, <2>5, <2>6 DEF Acceptance
<1>2. ASSUME NEW s \in Sids, Dial(s) PROVE Acceptance'
  <2>1. Msg("request", s, None) \in Envelopes /\ Msg("request", s, None).kind = "request"
        /\ Msg("request", s, None).sid = s
    BY EnvelopeOf DEF Kinds
  <2>2. inbox'[Host] = Append(box, Msg("request", s, None))
    BY <1>t, <1>2 DEF Dial, Boxes, box
  <2>3. \A r \in Sids : ctl'[r] = IF r = s THEN "dialling" ELSE ctl[r]
    BY <1>2 DEF Dial, TypeOK
  <2>4. wait' = wait /\ accepted' = accepted /\ hostSid' = hostSid /\ ctl[s] = "idle"
    BY <1>2 DEF Dial
  <2> HIDE DEF box
  <2> QED BY <1>1, <2>1, <2>2, <2>3, <2>4
<1>3. ASSUME NEW s \in Sids, Credentials(s) PROVE Acceptance'
  <2> DEFINE m == Msg("credentials", s, None)
             new == inbox'[Host]
  <2>1. m \in Envelopes /\ m.kind = "credentials" /\ m.sid = s
    BY EnvelopeOf DEF Kinds
  <2>2. new = Append(box, m)
    BY <1>t, <1>3 DEF Credentials, Boxes, box
  <2>3. /\ \A r \in Sids : ctl'[r] = IF r = s THEN "building" ELSE ctl[r]
        /\ ctl[s] = "dialling" /\ wait' = wait /\ accepted' = accepted /\ hostSid' = hostSid
    BY <1>3 DEF Credentials, TypeOK
  <2>4. /\ \A k \in DOMAIN new : (k \in DOMAIN box /\ new[k] = box[k])
                                 \/ (k = Len(box) + 1 /\ new[k] = m)
        /\ \A k \in DOMAIN new : new[k].sid \in Sids
    BY <1>t, <2>1, <2>2, AppendOf
  <2>5. wait.sid \in Sids \cup {None} /\ wait.cred \in Sids \cup {None} /\ hostSid \in Sids \cup {None}
    BY DEF TypeOK
  <2> HIDE DEF m, new
  \* No envelope, no local of the loop and no acceptance names credentials of s yet.
  <2>6. /\ \A k \in DOMAIN box : box[k].kind = "credentials" => box[k].sid # s
        /\ wait.cred # s /\ \A k \in DOMAIN accepted : accepted[k] # s
    BY <1>t, <2>3 DEF Acceptance, CredentialsOnce, box
  <2>7. Dialled'
    BY <1>t, <2>1, <2>3, <2>4, <2>5 DEF Acceptance, Dialled, box, new
  <2>8. CredentialsOnce'
    <3>1. \A i, j \in DOMAIN new : new[i].kind = "credentials" /\ new[j].kind = "credentials"
                /\ new[i].sid = new[j].sid => i = j
      BY <2>1, <2>4, <2>6 DEF Acceptance, CredentialsOnce, box
    <3>2. \A i \in DOMAIN new : new[i].kind = "credentials" =>
            /\ ctl'[new[i].sid] # "dialling" /\ wait'.cred # new[i].sid
            /\ \A k \in DOMAIN accepted' : accepted'[k] # new[i].sid
      BY <1>t, <2>1, <2>3, <2>4, <2>6 DEF Acceptance, CredentialsOnce, box
    <3>3. wait'.cred # None =>
            /\ ctl'[wait'.cred] # "dialling"
            /\ \A k \in DOMAIN accepted' : accepted'[k] # wait'.cred
      BY <2>3, <2>5, <2>6 DEF Acceptance, CredentialsOnce
    <3>4. \A k \in DOMAIN accepted' : ctl'[accepted'[k]] \notin {"idle", "dialling"}
      BY <1>t, <2>3, <2>6 DEF Acceptance, CredentialsOnce
    <3> QED BY <3>1, <3>2, <3>3, <3>4 DEF CredentialsOnce, new
  <2>9. (InAccepted /\ EachSessionAcceptedOnce)'
    BY <2>3 DEF Acceptance, InAccepted, EachSessionAcceptedOnce
  <2> QED BY <2>7, <2>8, <2>9 DEF Acceptance
\* The wait loop reads an envelope: what it then has in hand, and what is left.
<1>4. ASSUME hostPhase = "waiting", box # <<>>, inbox'[Host] = Tail(box)
      PROVE  LET w == WaitedFor(Head(box)).next IN
             /\ w.sid \in Sids \cup {None} /\ w.cred \in Sids \cup {None}
             /\ w.sid # None => ctl[w.sid] # "idle"
             /\ w.cred # None => /\ ctl[w.cred] \notin {"idle", "dialling"}
                                 /\ \A k \in DOMAIN accepted : accepted[k] # w.cred
             /\ \A i \in DOMAIN inbox'[Host] :
                    /\ ctl[inbox'[Host][i].sid] # "idle" /\ inbox'[Host][i].sid \in Sids
                    /\ inbox'[Host][i].kind = "credentials" =>
                            /\ ctl[inbox'[Host][i].sid] # "dialling" /\ w.cred # inbox'[Host][i].sid
                            /\ \A k \in DOMAIN accepted : accepted[k] # inbox'[Host][i].sid
             /\ \A i, j \in DOMAIN inbox'[Host] :
                    inbox'[Host][i].kind = "credentials" /\ inbox'[Host][j].kind = "credentials"
                        /\ inbox'[Host][i].sid = inbox'[Host][j].sid => i = j
  <2> DEFINE w == WaitedFor(Head(box)).next
             new == inbox'[Host]
  <2>1. /\ Head(box) = box[1] /\ 1 \in DOMAIN box
        /\ \A k \in DOMAIN new : k \in Nat /\ k # 0 /\ k + 1 \in DOMAIN box /\ new[k] = box[k + 1]
    BY <1>t, <1>4, TailOf, LenProperties
  <2>2. wait.sid \in Sids \cup {None} /\ wait.cred \in Sids \cup {None}
    BY DEF TypeOK
  <2>3. /\ w.sid = IF box[1].kind = "request" THEN box[1].sid ELSE wait.sid
        /\ w.cred = IF box[1].kind = "credentials" THEN box[1].sid ELSE wait.cred
    BY <2>1 DEF WaitedFor
  <2> HIDE DEF w, new
  <2>4. /\ w.sid \in Sids \cup {None} /\ w.cred \in Sids \cup {None}
        /\ w.sid # None => ctl[w.sid] # "idle"
        /\ w.cred # None => /\ ctl[w.cred] \notin {"idle", "dialling"}
                            /\ \A k \in DOMAIN accepted : accepted[k] # w.cred
    BY <1>t, <2>1, <2>2, <2>3 DEF Acceptance, Dialled, CredentialsOnce, box
  <2>5. \A i \in DOMAIN new :
          /\ ctl[new[i].sid] # "idle" /\ new[i].sid \in Sids
          /\ new[i].kind = "credentials" =>
                /\ ctl[new[i].sid] # "dialling"
                /\ \A k \in DOMAIN accepted : accepted[k] # new[i].sid
    BY <1>t, <2>1 DEF Acceptance, Dialled, CredentialsOnce, box
  <2>6. ASSUME NEW i \in DOMAIN new, new[i].kind = "credentials" PROVE w.cred # new[i].sid
    <3>1. i + 1 \in DOMAIN box /\ new[i] = box[i + 1] /\ i + 1 # 1
      BY <2>1
    <3>2. CASE box[1].kind = "credentials"
      BY <2>1, <2>3, <2>6, <3>1, <3>2 DEF Acceptance, CredentialsOnce, box
    <3>3. CASE box[1].kind # "credentials"
      BY <2>3, <2>6, <3>1, <3>3 DEF Acceptance, CredentialsOnce, box
    <3> QED BY <3>2, <3>3
  <2>7. ASSUME NEW i \in DOMAIN new, NEW j \in DOMAIN new, new[i].kind = "credentials",
               new[j].kind = "credentials", new[i].sid = new[j].sid
        PROVE  i = j
    <3>1. i + 1 = j + 1
      BY <2>1, <2>7 DEF Acceptance, CredentialsOnce, box
    <3> QED BY <2>1, <3>1
  <2> QED BY <2>4, <2>5, <2>6, <2>7 DEF w, new
<1>5. CASE StillWaiting
  <2> DEFINE w == WaitedFor(Head(box)).next
  <2>1. /\ hostPhase = "waiting" /\ box # <<>> /\ inbox'[Host] = Tail(box) /\ wait' = w
        /\ ctl' = ctl /\ accepted' = accepted /\ hostSid' = hostSid
    BY <1>t, <1>5, ReadOf DEF StillWaiting, box
  <2> HIDE DEF w
  <2>2. Dialled'
    BY <1>4, <2>1 DEF Dialled, Acceptance, w
  <2>3. CredentialsOnce'
    BY <1>4, <2>1 DEF CredentialsOnce, Acceptance, w
  <2>4. (InAccepted /\ EachSessionAcceptedOnce)'
    BY <2>1 DEF Acceptance, InAccepted, EachSessionAcceptedOnce
  <2> QED BY <2>2, <2>3, <2>4 DEF Acceptance
<1>6. CASE AcceptConnection
  <2> DEFINE w == WaitedFor(Head(box)).next
             s == w.sid
  <2>1. /\ hostPhase = "waiting" /\ box # <<>> /\ s # None /\ w.cred = s
        /\ wait' = Waiting /\ ctl' = ctl /\ accepted' = Append(accepted, s) /\ hostSid' = s
    BY <1>6 DEF AcceptConnection, box, WaitedFor
  <2>2. inbox'[Host] = Tail(box)
    <3>1. Read(Host)[Host] = Tail(box) /\ Read(Host) \in Boxes
      BY <1>t, <2>1, ReadOf DEF box
    <3>2. s \in Sids
      BY <1>6, NextTypeOK, <2>1 DEF TypeOK
    <3> QED BY <1>t, <1>6, <3>1, <3>2 DEF AcceptConnection, box, Boxes
  <2> HIDE DEF w
  <2>3. s \in Sids /\ ctl[s] \notin {"idle", "dialling"} /\ \A k \in DOMAIN accepted : accepted[k] # s
    BY <1>4, <2>1, <2>2 DEF w
  <2>4. /\ \A k \in DOMAIN accepted' : (k \in DOMAIN accepted /\ accepted'[k] = accepted[k])
                                       \/ (k = Len(accepted) + 1 /\ accepted'[k] = s)
        /\ Len(accepted) + 1 \in DOMAIN accepted' /\ accepted'[Len(accepted) + 1] = s
        /\ DOMAIN accepted' = 1..Len(accepted')
    BY <1>t, <2>1, <2>3, AppendOf, LenProperties
  <2>5. Waiting.sid = None /\ Waiting.cred = None
    BY DEF Waiting
  <2>6. Dialled'
    BY <1>4, <2>1, <2>2, <2>3, <2>5 DEF Dialled, w
  <2>7. CredentialsOnce'
    <3>1. /\ \A i \in DOMAIN inbox'[Host] :
                    /\ inbox'[Host][i].sid \in Sids
                    /\ inbox'[Host][i].kind = "credentials" =>
                            /\ ctl[inbox'[Host][i].sid] # "dialling" /\ s # inbox'[Host][i].sid
                            /\ \A k \in DOMAIN accepted : accepted[k] # inbox'[Host][i].sid
          /\ \A i, j \in DOMAIN inbox'[Host] :
                    inbox'[Host][i].kind = "credentials" /\ inbox'[Host][j].kind = "credentials"
                        /\ inbox'[Host][i].sid = inbox'[Host][j].sid => i = j
      BY <1>4, <2>1, <2>2 DEF w
    <3>2. \A i \in DOMAIN inbox'[Host] : inbox'[Host][i].kind = "credentials" =>
            /\ ctl'[inbox'[Host][i].sid] # "dialling" /\ wait'.cred # inbox'[Host][i].sid
            /\ \A k \in DOMAIN accepted' : accepted'[k] # inbox'[Host][i].sid
      BY <1>t, <2>1, <2>4, <2>5, <3>1
    <3>3. \A k \in DOMAIN accepted' : ctl'[accepted'[k]] \notin {"idle", "dialling"}
      BY <1>t, <2>1, <2>3, <2>4 DEF Acceptance, CredentialsOnce
    <3> QED BY <2>1, <2>5, <3>1, <3>2, <3>3 DEF CredentialsOnce
  <2>8. InAccepted'
    BY <2>1, <2>4 DEF InAccepted
  <2>9. EachSessionAcceptedOnce'
    BY <1>t, <2>3, <2>4 DEF Acceptance, EachSessionAcceptedOnce
  <2> QED BY <2>6, <2>7, <2>8, <2>9 DEF Acceptance
<1>7. ASSUME NEW s \in Sids, Offer(s) \/ ControllerLeaves(s) PROVE Acceptance'
  <2>1. /\ Msg("offer", s, s) \in Envelopes /\ Msg("offer", s, s).kind = "offer" /\ Msg("offer", s, s).sid = s
        /\ Msg("gone", s, None) \in Envelopes /\ Msg("gone", s, None).kind = "gone" /\ Msg("gone", s, None).sid = s
    BY EnvelopeOf DEF Kinds
  <2>2. CASE Offer(s)
    <3>1. inbox'[Host] = Append(box, Msg("offer", s, s))
      BY <1>t, <2>2 DEF Offer, Boxes, box
    <3>2. /\ \A r \in Sids : ctl'[r] = IF r = s THEN "pumping" ELSE ctl[r]
          /\ wait' = wait /\ accepted' = accepted /\ hostSid' = hostSid
      BY <2>2 DEF Offer, TypeOK
    <3> QED BY <1>1, <2>1, <3>1, <3>2
  <2>3. CASE ControllerLeaves(s)
    <3>1. inbox'[Host] = Append(box, Msg("gone", s, None))
      BY <1>t, <2>3 DEF ControllerLeaves, Boxes, box
    <3>2. /\ \A r \in Sids : ctl'[r] = IF r = s THEN "over" ELSE ctl[r]
          /\ wait' = wait /\ accepted' = accepted /\ hostSid' = hostSid
      BY <2>3 DEF ControllerLeaves, TypeOK
    <3> QED BY <1>1, <2>1, <3>1, <3>2
  <2> QED BY <1>7, <2>2, <2>3
<1>8. CASE PumpOffer
  <2>1. InPump(Host) /\ hostSid \in Sids /\ inbox[Host] # <<>>
    BY <1>8 DEF PumpOffer, Pumping, InPump, Got, TypeOK
  <2>2. inbox' = [Read(Host) EXCEPT ![hostSid] = Read(Host)[hostSid] \o <<Msg("answer", hostSid, Head(inbox[Host]).re)>>]
        \/ inbox' = Read(Host)
    BY <1>8 DEF PumpOffer, Send, Other
  <2>3. inbox'[Host] = Tail(box)
    BY <1>t, <2>1, <2>2, ReadOf DEF box, Boxes
  <2> QED BY <1>1, <1>8, <2>1, <2>3 DEF PumpOffer, box
<1>9. ASSUME NEW p \in Peers, Pump(p) PROVE Acceptance'
  <2>1. PICK boxes \in Boxes :
              /\ \/ boxes = inbox
                 \/ inbox[p] # <<>> /\ Head(inbox[p]).kind # "answer" /\ boxes = Read(p)
              /\ \/ inbox' = boxes
                 \/ \E m \in Envelopes :
                      /\ m.sid = SidOf(p) /\ m.kind \in {"ready", "candidate"}
                      /\ m.kind = "ready" => pump'[p].open
                      /\ m.kind = "candidate" /\ p = Host => pump[p].desc # None
                      /\ SidOf(p) \in live /\ inbox' = Delivered(boxes, Other(p), m)
    BY <1>9, PumpEffects
  <2>2. /\ UNCHANGED <<wait, ctl, accepted, hostSid>> /\ InPump(p) /\ SidOf(p) \in Sids
        /\ Other(p) \in Peers /\ Other(p) # p
    BY <1>9, PumpEffects
  <2>3. boxes[Host] = box \/ (p = Host /\ box # <<>> /\ boxes[Host] = Tail(box))
    BY <1>t, <2>1, ReadOf DEF box
  <2>4. ASSUME p # Host PROVE Other(p) = Host /\ ctl[SidOf(p)] # "idle"
    BY <2>2, <2>4 DEF Other, SidOf, InPump
  <2>5. \/ inbox'[Host] = box
        \/ box # <<>> /\ inbox'[Host] = Tail(box)
        \/ \E m \in Envelopes : /\ m.kind # "credentials" /\ ctl'[m.sid] # "idle"
                                /\ inbox'[Host] = Append(box, m)
    <3>1. CASE inbox' = boxes
      BY <2>3, <3>1
    <3>2. ASSUME NEW m \in Envelopes, m.sid = SidOf(p), m.kind \in {"ready", "candidate"},
                 inbox' = Delivered(boxes, Other(p), m)
          PROVE  <2>5!2 \/ <2>5!1 \/ <2>5!3
      <4>1. CASE p = Host
        <5>1. inbox'[Host] = boxes[Host]
          BY <1>t, <2>2, <3>2, <4>1, DeliveredOf
        <5> QED BY <2>3, <5>1
      <4>2. CASE p # Host
        <5>1. boxes[Host] = box /\ inbox'[Host] = Append(boxes[Host], m)
          <6>1. Other(p) = Host /\ boxes[Host] = box
            BY <2>3, <2>4, <4>2
          <6>2. inbox' = Delivered(boxes, Host, m)
            BY <3>2, <6>1
          <6>3. Delivered(boxes, Host, m)[Host] = Append(boxes[Host], m)
            BY <1>t, <2>1, <3>2, DeliveredOf
          <6> QED BY <6>1, <6>2, <6>3
        <5> QED BY <2>2, <2>4, <3>2, <4>2, <5>1
      <4> QED BY <4>1, <4>2
    <3> QED BY <2>1, <3>1, <3>2
  <2> QED BY <1>1, <2>2, <2>5
<1>10. CASE HostSettles \/ HelloAck \/ UNCHANGED vars
             \/ \E s \in Sids : LinkUp(s) \/ DeliverHello(s)
  <2>1. UNCHANGED <<wait, accepted, hostSid, inbox, ctl>>
    BY <1>10 DEF HostSettles, HelloAck, vars, LinkUp, DeliverHello
  <2> QED BY <1>1, <2>1 DEF box
<1>13. ASSUME NEW s \in Sids, ControllerSettles(s) PROVE Acceptance'
  <2>1. /\ UNCHANGED <<wait, accepted, hostSid, inbox>>
        /\ \A r \in Sids : ctl'[r] = IF r = s THEN "serving" ELSE ctl[r]
        /\ ctl[s] = "pumping"
    BY <1>t, <1>13 DEF ControllerSettles, InPump, TypeOK
  <2> QED BY <1>1, <2>1 DEF box
<1>11. CASE HostPeerGone \/ HostGivesUp
  <2>1. /\ wait' = wait /\ accepted' = accepted /\ hostSid' = None /\ ctl' = ctl
        /\ inbox'[Host] = box \/ (box # <<>> /\ inbox'[Host] = Tail(box))
    BY <1>t, <1>11, ReadOf DEF HostPeerGone, HostGivesUp, HostGoesBack, Got, box
  <2> QED BY <1>1, <2>1
<1>12. ASSUME NEW s \in Sids, PumpAnswer(s) PROVE Acceptance'
  <2>1. inbox'[Host] = box
    BY <1>t, <1>12, ReadOf DEF PumpAnswer, Got, box
  <2> QED BY <1>1, <1>12, <2>1 DEF PumpAnswer
<1> QED BY <1>2, <1>3, <1>5, <1>6, <1>7, <1>8, <1>9, <1>10, <1>11, <1>12, <1>13 DEF Next

\* The steps in which no controller's inbox or pump has a part.
QuietStep ==
    /\ \A s \in Sids : inbox'[s] = inbox[s] /\ pump'[s] = pump[s]
    /\ \/ pump'[Host] = Idle /\ hostSid' = None
       \/ pump'[Host] = pump[Host] /\ hostSid' = hostSid
    /\ \A s \in live' : s \in live \/ ctl[s] = "idle"
    /\ opened' = opened /\ discarded' = discarded /\ accepted' = accepted
    /\ \A s \in Sids : \/ hello'[s] = hello[s]
                       \/ hello'[s] = "sent" /\ pump[s].open /\ pump[s].ready
                       \/ hello[s] = "sent" /\ hello'[s] = "delivered" /\ hostSid = s /\ hostSid' = s /\ s \in frames'
    /\ \A s \in frames' : s \in frames \/ hello'[s] = "delivered"
    /\ \A s \in frames : s \in frames' \/ s \in replied' \/ hostSid' = None
    /\ replied \subseteq replied' /\ \A s \in replied' : s \in replied \/ s \in frames

\* Every other step takes part in a controller's inbox or pump.
LEMMA StepKinds ==
  ASSUME TypeOK, [Next]_vars
  PROVE  \/ \E p \in Peers : Pump(p)
         \/ AcceptConnection \/ PumpOffer \/ \E s \in Sids : PumpAnswer(s) \/ ControllerLeaves(s)
         \/ QuietStep
<1>t. /\ inbox \in Boxes /\ Host \in Peers /\ Host \notin Sids /\ None \notin Sids
      /\ \A s \in Sids : s \in Peers /\ s # Host
  BY TypeFacts
<1>1. ASSUME NEW s \in Sids, Dial(s) PROVE QuietStep
  BY <1>t, <1>1 DEF Dial, QuietStep, Boxes
<1>2. ASSUME NEW s \in Sids, Credentials(s) \/ Offer(s) PROVE QuietStep
  BY <1>t, <1>2 DEF Credentials, Offer, QuietStep, Boxes
<1>3. CASE StillWaiting
  BY <1>t, <1>3, ReadOf DEF StillWaiting, QuietStep
<1>4. CASE HostSettles \/ HelloAck \/ UNCHANGED vars
  BY <1>t, <1>4 DEF HostSettles, HelloAck, vars, QuietStep
<1>5. CASE HostPeerGone \/ HostGivesUp
  <2>1. \A s \in Sids : inbox'[s] = inbox[s]
    BY <1>t, <1>5, ReadOf DEF HostPeerGone, HostGivesUp, HostGoesBack, Got
  <2>2. (\A s \in Sids : pump'[s] = pump[s]) /\ pump'[Host] = Idle
    BY <1>t, <1>5 DEF HostPeerGone, HostGivesUp, HostGoesBack, TypeOK
  <2> QED BY <1>t, <1>5, <2>1, <2>2 DEF HostPeerGone, HostGivesUp, HostGoesBack, QuietStep
<1>6. ASSUME NEW s \in Sids, LinkUp(s) PROVE QuietStep
  BY <1>t, <1>6 DEF LinkUp, QuietStep
<1>7. ASSUME NEW s \in Sids, ControllerSettles(s) PROVE QuietStep
  <2>1. \A r \in Sids : hello'[r] = IF r = s THEN "sent" ELSE hello[r]
    BY <1>7 DEF ControllerSettles, TypeOK
  <2>2. pump[s].open /\ pump[s].ready
    BY <1>7 DEF ControllerSettles, Settled
  <2> QED BY <1>t, <1>7, <2>1, <2>2 DEF ControllerSettles, QuietStep
<1>8. ASSUME NEW s \in Sids, DeliverHello(s) PROVE QuietStep
  <2>1. \A r \in Sids : hello'[r] = IF r = s THEN "delivered" ELSE hello[r]
    BY <1>8 DEF DeliverHello, TypeOK
  <2> QED BY <1>t, <1>8, <2>1 DEF DeliverHello, QuietStep
<1> QED BY <1>1, <1>2, <1>3, <1>4, <1>5, <1>6, <1>7, <1>8 DEF Next

\* A Hello the host has got stays in hand while it is in that session: the session
\* was accepted once, so no later acceptance finds its Hello delivered and gone.
LEMMA NextHelloInHand ==
  TypeOK /\ InAccepted /\ EachSessionAcceptedOnce' /\ HelloInHand /\ [Next]_vars => HelloInHand'
<1> SUFFICES ASSUME TypeOK, InAccepted, EachSessionAcceptedOnce', HelloInHand, [Next]_vars
             PROVE  HelloInHand'
  OBVIOUS
<1>t. accepted \in Seq(Sids) /\ None \notin Sids /\ frames \subseteq Sids /\ TypeOK'
  BY TypeFacts, NextTypeOK DEF TypeOK
<1>1. CASE QuietStep
  <2>1. \A s \in Sids : hello'[s] = "delivered" => \E k \in DOMAIN accepted' : accepted'[k] = s
    BY <1>t, <1>1 DEF QuietStep, HelloInHand, InAccepted
  <2>2. \A s \in Sids : hello'[s] = "delivered" /\ hostSid' = s => s \in frames' \cup replied'
    BY <1>t, <1>1 DEF QuietStep, HelloInHand
  <2>3. \A s \in frames' : hello'[s] # "none"
    BY <1>t, <1>1 DEF QuietStep, HelloInHand, TypeOK
  <2> QED BY <2>1, <2>2, <2>3 DEF HelloInHand
<1>2. CASE AcceptConnection
  <2> DEFINE n == Len(accepted) + 1
  <2>1. hello' = hello /\ frames' = frames /\ replied' = replied /\ accepted' = Append(accepted, hostSid')
    BY <1>2 DEF AcceptConnection
  <2>2. hostSid' \in Sids
    BY <1>2, <1>t DEF AcceptConnection, TypeOK
  <2>3. /\ \A k \in DOMAIN accepted : k \in 1..Len(accepted') /\ accepted'[k] = accepted[k] /\ k # n
        /\ n \in 1..Len(accepted') /\ accepted'[n] = hostSid'
        /\ DOMAIN accepted' = 1..Len(accepted')
    <3>1. accepted' \in Seq(Sids) /\ n \in DOMAIN accepted' /\ accepted'[n] = hostSid'
          /\ \A k \in DOMAIN accepted : k \in DOMAIN accepted' /\ accepted'[k] = accepted[k]
      BY <1>t, <2>1, <2>2, AppendOf
    <3>2. DOMAIN accepted' = 1..Len(accepted') /\ \A k \in DOMAIN accepted : k # n
      BY <1>t, <3>1, LenProperties
    <3> QED BY <3>1, <3>2
  <2>4. hello[hostSid'] # "delivered"
    BY <2>2, <2>3 DEF HelloInHand, EachSessionAcceptedOnce
  <2> HIDE DEF n
  <2> QED BY <2>1, <2>2, <2>3, <2>4 DEF HelloInHand
<1>3. CASE PumpOffer \/ \E s \in Sids : PumpAnswer(s) \/ ControllerLeaves(s)
  <2>1. UNCHANGED <<hello, frames, replied, accepted, hostSid>>
    BY <1>3 DEF PumpOffer, PumpAnswer, ControllerLeaves
  <2> QED BY <2>1 DEF HelloInHand
<1>4. ASSUME NEW p \in Peers, Pump(p) PROVE HelloInHand'
  <2>1. UNCHANGED <<hello, frames, replied, accepted, hostSid>>
    BY <1>4, PumpEffects
  <2> QED BY <2>1 DEF HelloInHand
<1> QED BY <1>1, <1>2, <1>3, <1>4, StepKinds

\* An arm of pump, seen from one inbox.
LEMMA PumpInbox ==
  ASSUME TypeOK, NEW p \in Peers, Pump(p), NEW r \in Peers
  PROVE  \/ inbox'[r] = inbox[r]
         \/ r = p /\ inbox[r] # <<>> /\ Head(inbox[r]).kind # "answer" /\ inbox'[r] = Tail(inbox[r])
         \/ \E m \in Envelopes :
              /\ r = Other(p) /\ m.kind \in {"ready", "candidate"}
              /\ m.kind = "ready" => pump'[p].open
              /\ m.kind = "candidate" /\ p = Host => pump[p].desc # None
              /\ SidOf(p) \in live /\ inbox'[r] = Append(inbox[r], m)
<1>1. PICK boxes \in Boxes :
              /\ \/ boxes = inbox
                 \/ inbox[p] # <<>> /\ Head(inbox[p]).kind # "answer" /\ boxes = Read(p)
              /\ \/ inbox' = boxes
                 \/ \E m \in Envelopes :
                      /\ m.sid = SidOf(p) /\ m.kind \in {"ready", "candidate"}
                      /\ m.kind = "ready" => pump'[p].open
                      /\ m.kind = "candidate" /\ p = Host => pump[p].desc # None
                      /\ SidOf(p) \in live /\ inbox' = Delivered(boxes, Other(p), m)
  BY PumpEffects
<1>2. Other(p) \in Peers /\ Other(p) # p
  BY PumpEffects
<1>3. /\ r # p => boxes[r] = inbox[r]
      /\ \/ boxes[p] = inbox[p]
         \/ inbox[p] # <<>> /\ Head(inbox[p]).kind # "answer" /\ boxes[p] = Tail(inbox[p])
  BY <1>1, ReadOf
<1>4. CASE inbox' = boxes
  BY <1>3, <1>4
<1>5. ASSUME NEW m \in Envelopes, m.kind \in {"ready", "candidate"}, m.kind = "ready" => pump'[p].open,
             m.kind = "candidate" /\ p = Host => pump[p].desc # None,
             SidOf(p) \in live, inbox' = Delivered(boxes, Other(p), m)
      PROVE  \/ inbox'[r] = inbox[r]
             \/ r = p /\ inbox[r] # <<>> /\ Head(inbox[r]).kind # "answer" /\ inbox'[r] = Tail(inbox[r])
             \/ r = Other(p) /\ inbox'[r] = Append(inbox[r], m)
  <2>1. /\ Delivered(boxes, Other(p), m)[Other(p)] = Append(boxes[Other(p)], m)
        /\ r # Other(p) => Delivered(boxes, Other(p), m)[r] = boxes[r]
    <3>1. boxes \in Boxes /\ m \in Envelopes
      BY <1>1, <1>5
    <3> HIDE <1>5
    <3> QED BY <1>2, <3>1, DeliveredOf
  <2>2. CASE r = Other(p)
    BY <1>2, <1>3, <1>5, <2>1, <2>2
  <2>3. CASE r # Other(p)
    BY <1>3, <1>5, <2>1, <2>3
  <2> QED BY <2>2, <2>3
<1> QED BY <1>1, <1>4, <1>5

\* Readiness reaches a controller only from a host in its own session, whose
\* channels are open; the host speaks second, to one whose Hello it has read.
LEMMA NextReadiness ==
  TypeOK /\ HelloInHand /\ ReadinessIsTrue /\ NoEarlyData /\ [Next]_vars => (ReadinessIsTrue /\ NoEarlyData)'
<1> SUFFICES ASSUME TypeOK, HelloInHand, ReadinessIsTrue, NoEarlyData, [Next]_vars
             PROVE  (ReadinessIsTrue /\ NoEarlyData)'
  OBVIOUS
<1>t. /\ inbox \in Boxes /\ Host \in Peers /\ Host \notin Sids /\ None \notin Sids /\ frames \subseteq Sids
      /\ \A s \in Sids : s \in Peers /\ s # Host
      /\ pump \in [Peers -> Locals] /\ Idle \in Locals /\ ~Idle.open /\ ~Idle.ready
  BY TypeFacts DEF TypeOK, Locals, Idle
\* Nothing is announced, and nobody speaks.
<1>1. ASSUME opened' = opened, hello' = hello, replied' = replied,
             pump'[Host].open => pump[Host].open /\ hostSid' = hostSid,
             \A s \in Sids : /\ pump'[s].open => pump[s].open
                             /\ pump'[s].ready => pump[s].ready
                             /\ \A i \in DOMAIN inbox'[s] : inbox'[s][i].kind = "ready" =>
                                    \E k \in DOMAIN inbox[s] : inbox[s][k].kind = "ready"
      PROVE  (ReadinessIsTrue /\ NoEarlyData)'
  BY <1>1 DEF ReadinessIsTrue, NoEarlyData
<1>2. CASE QuietStep
  <2>1. ReadinessIsTrue'
    BY <1>t, <1>2 DEF QuietStep, ReadinessIsTrue, TypeOK
  <2>2. NoEarlyData'
    <3>1. \A s \in Sids : hello'[s] # "none" => <<Host, s>> \in opened'
      BY <1>2 DEF QuietStep, ReadinessIsTrue, NoEarlyData
    <3>2. \A s \in Sids : s \in replied' => <<s, s>> \in opened'
      BY <1>2 DEF QuietStep, ReadinessIsTrue, NoEarlyData, HelloInHand
    <3> QED BY <3>1, <3>2 DEF NoEarlyData
  <2> QED BY <2>1, <2>2
<1>3. CASE AcceptConnection
  <2> DEFINE h == hostSid'
             m == Msg("response", h, None)
  <2>1. /\ opened' = opened /\ hello' = hello /\ replied' = replied
        /\ pump'[Host] = Idle /\ \A s \in Sids : pump'[s] = pump[s]
        /\ inbox[Host] # <<>>
        /\ inbox' = Read(Host) \/ inbox' = [Read(Host) EXCEPT ![h] = Append(Read(Host)[h], m)]
    BY <1>t, <1>3 DEF AcceptConnection
  <2>2. h \in Sids
    BY <1>3, NextTypeOK DEF AcceptConnection, TypeOK
  <2>3. m \in Envelopes /\ m.kind = "response"
    BY <2>2, EnvelopeOf DEF Kinds
  <2> HIDE DEF m, h
  <2>4. ASSUME NEW s \in Sids, NEW i \in DOMAIN inbox'[s], inbox'[s][i].kind = "ready"
        PROVE  \E k \in DOMAIN inbox[s] : inbox[s][k].kind = "ready"
    <3>1. Read(Host) \in Boxes /\ Read(Host)[s] = inbox[s] /\ inbox[s] \in Seq(Envelopes)
      BY <1>t, <2>1, ReadOf DEF Boxes
    <3>2. inbox'[s] = inbox[s] \/ inbox'[s] = Append(inbox[s], m)
      BY <1>t, <2>1, <2>2, <3>1 DEF Boxes
    <3>3. \A k \in DOMAIN Append(inbox[s], m) : k \in DOMAIN inbox[s] \/ Append(inbox[s], m)[k] = m
      BY <2>3, <3>1, AppendOf
    <3>4. \A k \in DOMAIN inbox[s] : Append(inbox[s], m)[k] = inbox[s][k]
      BY <2>3, <3>1, AppendOf
    <3> QED BY <2>3, <2>4, <3>2, <3>3, <3>4
  <2> QED BY <1>t, <1>1, <2>1, <2>4
<1>4. CASE PumpOffer
  <2> DEFINE m == Msg("answer", hostSid, Head(inbox[Host]).re)
  <2>1. /\ InPump(Host) /\ hostSid \in Sids /\ inbox[Host] # <<>>
        /\ opened' = opened /\ hello' = hello /\ replied' = replied /\ hostSid' = hostSid
    BY <1>4 DEF PumpOffer, Pumping, InPump, Got, TypeOK
  <2>2. /\ pump'[Host].open = pump[Host].open
        /\ \A s \in Sids : pump'[s] = pump[s]
    BY <1>t, <1>4 DEF PumpOffer, Locals
  <2>3. Head(inbox[Host]) \in Envelopes /\ m \in Envelopes /\ m.kind = "answer"
    BY <1>t, <2>1, ReadOf, EnvelopeOf DEF Kinds, Envelopes
  <2>4. inbox' = Read(Host) \/ inbox' = Delivered(Read(Host), hostSid, m)
    <3>1. Read(Host) \in Boxes
      BY <1>t, <2>1, ReadOf
    <3>2. inbox' = Send(Read(Host), Host, <<m>>) /\ Other(Host) = hostSid
      BY <1>4 DEF PumpOffer, Other
    <3> HIDE DEF m
    <3> QED BY <1>t, <2>1, <2>3, <3>1, <3>2, SendOf
  <2> HIDE DEF m
  <2>5. ASSUME NEW s \in Sids, NEW i \in DOMAIN inbox'[s], inbox'[s][i].kind = "ready"
        PROVE  \E k \in DOMAIN inbox[s] : inbox[s][k].kind = "ready"
    <3>1. Read(Host) \in Boxes /\ Read(Host)[s] = inbox[s] /\ inbox[s] \in Seq(Envelopes)
      BY <1>t, <2>1, ReadOf DEF Boxes
    <3>2. inbox'[s] = inbox[s] \/ inbox'[s] = Append(inbox[s], m)
      BY <1>t, <2>1, <2>3, <2>4, <3>1 DEF Boxes, Delivered
    <3>3. \A k \in DOMAIN Append(inbox[s], m) : k \in DOMAIN inbox[s] \/ Append(inbox[s], m)[k] = m
      BY <2>3, <3>1, AppendOf
    <3>4. \A k \in DOMAIN inbox[s] : Append(inbox[s], m)[k] = inbox[s][k]
      BY <2>3, <3>1, AppendOf
    <3> QED BY <2>3, <2>5, <3>2, <3>3, <3>4
  <2> QED BY <1>1, <2>1, <2>2, <2>5
<1>5. ASSUME NEW s \in Sids, PumpAnswer(s) PROVE (ReadinessIsTrue /\ NoEarlyData)'
  <2>1. /\ opened' = opened /\ hello' = hello /\ replied' = replied /\ hostSid' = hostSid
        /\ inbox[s] # <<>> /\ inbox' = Read(s)
    BY <1>5 DEF PumpAnswer, Got
  <2>2. \A r \in Peers : pump'[r].open = pump[r].open /\ pump'[r].ready = pump[r].ready
    BY <1>t, <1>5 DEF PumpAnswer, Locals
  <2>3. \A r \in Sids : \A i \in DOMAIN inbox'[r] : \E k \in DOMAIN inbox[r] : inbox'[r][i] = inbox[r][k]
    <3>1. \A i \in DOMAIN inbox'[s] : \E k \in DOMAIN inbox[s] : inbox'[s][i] = inbox[s][k]
      <4>1. /\ inbox'[s] = Tail(inbox[s])
            /\ \A k \in DOMAIN Tail(inbox[s]) : k + 1 \in DOMAIN inbox[s] /\ Tail(inbox[s])[k] = inbox[s][k + 1]
        BY <1>t, <2>1, ReadOf
      <4> QED BY <4>1
    <3>2. \A r \in Sids : r # s => inbox'[r] = inbox[r]
      BY <1>t, <2>1, ReadOf
    <3> QED BY <3>1, <3>2
  <2> QED BY <1>t, <1>1, <2>1, <2>2, <2>3
<1>6. ASSUME NEW s \in Sids, ControllerLeaves(s) PROVE (ReadinessIsTrue /\ NoEarlyData)'
  <2>1. /\ opened' = opened /\ hello' = hello /\ replied' = replied /\ hostSid' = hostSid
        /\ pump'[s] = Idle /\ \A r \in Peers : r # s => pump'[r] = pump[r]
    BY <1>t, <1>6 DEF ControllerLeaves
  <2>2. inbox'[s] = <<>> /\ \A r \in Sids : r # s => inbox'[r] = inbox[r]
    BY <1>t, <1>6 DEF ControllerLeaves, Boxes
  <2>3. DOMAIN <<>> = {}
    OBVIOUS
  <2> QED BY <1>t, <1>1, <2>1, <2>2, <2>3
<1>7. ASSUME NEW p \in Peers, Pump(p) PROVE (ReadinessIsTrue /\ NoEarlyData)'
  <2>1. /\ UNCHANGED <<hostSid, hello, replied>> /\ opened \subseteq opened'
        /\ InPump(p) /\ SidOf(p) \in Sids
        /\ \A r \in Peers : r # p => pump'[r] = pump[r]
        /\ pump'[p].open => pump[p].open \/ <<p, SidOf(p)>> \in opened'
        /\ pump'[p].ready => pump[p].ready \/ (inbox[p] # <<>> /\ Head(inbox[p]).kind = "ready")
    BY <1>7, PumpEffects
  <2>2. NoEarlyData'
    BY <2>1 DEF NoEarlyData
  <2>3. pump'[Host].open => <<Host, hostSid'>> \in opened'
    BY <1>t, <2>1 DEF ReadinessIsTrue, SidOf
  <2>4. ASSUME NEW s \in Sids PROVE pump'[s].open => <<s, s>> \in opened'
    BY <1>t, <2>1 DEF ReadinessIsTrue, SidOf
  <2>5. ASSUME NEW s \in Sids, inbox[s] # <<>>, Head(inbox[s]).kind = "ready" PROVE <<Host, s>> \in opened
    BY <1>t, <2>5, ReadOf DEF ReadinessIsTrue
  <2>6. ASSUME NEW s \in Sids PROVE pump'[s].ready => <<Host, s>> \in opened'
    BY <1>t, <2>1, <2>5 DEF ReadinessIsTrue
  <2>7. ASSUME NEW s \in Sids, NEW i \in DOMAIN inbox'[s], inbox'[s][i].kind = "ready"
        PROVE  <<Host, s>> \in opened'
    <3>1. inbox[s] \in Seq(Envelopes)
      BY <1>t DEF Boxes
    <3>2. CASE \E k \in DOMAIN inbox[s] : inbox'[s][i] = inbox[s][k]
      BY <2>1, <2>7, <3>2 DEF ReadinessIsTrue
    <3>3. CASE inbox[s] # <<>> /\ inbox'[s] = Tail(inbox[s])
      BY <3>1, <3>2, <3>3, TailOf
    <3>4. ASSUME NEW m \in Envelopes, s = Other(p), m.kind = "ready" => pump'[p].open,
                 inbox'[s] = Append(inbox[s], m)
          PROVE  <<Host, s>> \in opened'
      <4>1. (i \in DOMAIN inbox[s] /\ Append(inbox[s], m)[i] = inbox[s][i]) \/ Append(inbox[s], m)[i] = m
        BY <2>7, <3>1, <3>4, AppendOf
      <4>2. p = Host /\ hostSid = s
        BY <1>t, <3>4 DEF Other
      <4> QED BY <2>3, <2>1, <2>7, <3>2, <3>4, <4>1, <4>2
    <3> QED BY <1>t, <1>7, <2>7, <3>2, <3>3, <3>4, PumpInbox
  <2>8. ReadinessIsTrue'
    BY <2>1, <2>3, <2>4, <2>6, <2>7 DEF ReadinessIsTrue
  <2> QED BY <2>2, <2>8
<1> QED BY <1>2, <1>3, <1>4, <1>5, <1>6, <1>7, StepKinds

\* Offers come from controllers alone, with what they offer.
LEMMA NextOffers == TypeOK /\ OffersAreReal /\ [Next]_vars => OffersAreReal'
<1> SUFFICES ASSUME TypeOK, OffersAreReal, [Next]_vars PROVE OffersAreReal'
  OBVIOUS
<1> DEFINE box == inbox[Host]
<1>t. /\ inbox \in Boxes /\ box \in Seq(Envelopes) /\ Host \in Peers /\ None \notin Sids
      /\ \A s \in Sids : s \in Peers /\ s # Host
  BY TypeFacts DEF Boxes
<1> HIDE DEF box
<1>1. ASSUME inbox'[Host] = box PROVE OffersAreReal'
  BY <1>1 DEF OffersAreReal, box
<1>2. ASSUME box # <<>>, inbox'[Host] = Tail(box) PROVE OffersAreReal'
  BY <1>t, <1>2, TailOf DEF OffersAreReal, box
<1>3. ASSUME NEW m \in Envelopes, m.kind = "offer" => m.re # None, inbox'[Host] = Append(box, m)
      PROVE  OffersAreReal'
  BY <1>t, <1>3, AppendOf DEF OffersAreReal, box
<1>4. ASSUME NEW s \in Sids, Dial(s) \/ Credentials(s) \/ Offer(s) \/ ControllerLeaves(s) PROVE OffersAreReal'
  <2>1. /\ Msg("request", s, None) \in Envelopes /\ Msg("request", s, None).kind = "request"
        /\ Msg("credentials", s, None) \in Envelopes /\ Msg("credentials", s, None).kind = "credentials"
        /\ Msg("offer", s, s) \in Envelopes /\ Msg("offer", s, s).re # None
        /\ Msg("gone", s, None) \in Envelopes /\ Msg("gone", s, None).kind = "gone"
    BY <1>t, EnvelopeOf DEF Kinds
  <2>2. \/ inbox'[Host] = Append(box, Msg("request", s, None))
        \/ inbox'[Host] = Append(box, Msg("credentials", s, None))
        \/ inbox'[Host] = Append(box, Msg("offer", s, s))
        \/ inbox'[Host] = Append(box, Msg("gone", s, None))
    BY <1>t, <1>4 DEF Dial, Credentials, Offer, ControllerLeaves, box, Boxes
  <2> QED BY <1>3, <2>1, <2>2
<1>5. CASE StillWaiting \/ AcceptConnection \/ PumpOffer
  <2>1. box # <<>> /\ Read(Host) \in Boxes /\ Read(Host)[Host] = Tail(box)
    BY <1>t, <1>5, ReadOf DEF StillWaiting, AcceptConnection, PumpOffer, Got, box
  <2>2. \/ inbox' = Read(Host)
        \/ \E s \in Sids : \E x : inbox' = [Read(Host) EXCEPT ![s] = x]
    <3>1. CASE StillWaiting
      BY <3>1 DEF StillWaiting
    <3>2. CASE AcceptConnection
      <4>1. hostSid' \in Sids
        BY <3>2, NextTypeOK DEF AcceptConnection, TypeOK
      <4> QED BY <3>2, <4>1 DEF AcceptConnection
    <3>3. CASE PumpOffer
      <4>1. hostSid \in Sids
        BY <3>3 DEF PumpOffer, Pumping, InPump, TypeOK
      <4> QED BY <3>3, <4>1 DEF PumpOffer, Send, Other
    <3> QED BY <1>5, <3>1, <3>2, <3>3
  <2>3. inbox'[Host] = Tail(box)
    BY <1>t, <2>1, <2>2 DEF Boxes
  <2> QED BY <1>2, <2>1, <2>3
<1>6. CASE HostSettles \/ HelloAck \/ UNCHANGED vars
             \/ \E s \in Sids : LinkUp(s) \/ ControllerSettles(s) \/ DeliverHello(s)
  <2>1. inbox' = inbox
    BY <1>6 DEF HostSettles, HelloAck, vars, LinkUp, ControllerSettles, DeliverHello
  <2> QED BY <1>1, <2>1 DEF box
<1>7. CASE HostPeerGone \/ HostGivesUp
  <2>1. inbox'[Host] = box \/ (box # <<>> /\ inbox'[Host] = Tail(box))
    BY <1>t, <1>7, ReadOf DEF HostPeerGone, HostGivesUp, HostGoesBack, Got, box
  <2> QED BY <1>1, <1>2, <2>1
<1>8. ASSUME NEW s \in Sids, PumpAnswer(s) PROVE OffersAreReal'
  <2>1. inbox'[Host] = box
    BY <1>t, <1>8, ReadOf DEF PumpAnswer, Got, box
  <2> QED BY <1>1, <2>1
<1>9. ASSUME NEW p \in Peers, Pump(p) PROVE OffersAreReal'
  <2>1. \/ inbox'[Host] = box
        \/ box # <<>> /\ inbox'[Host] = Tail(box)
        \/ \E m \in Envelopes : m.kind \in {"ready", "candidate"} /\ inbox'[Host] = Append(box, m)
    BY <1>t, <1>9, PumpInbox DEF box
  <2> QED BY <1>1, <1>2, <1>3, <2>1
<1> QED BY <1>4, <1>5, <1>6, <1>7, <1>8, <1>9 DEF Next

\* Reading what is no answer keeps the order, ...
LEMMA OrderedTail ==
  ASSUME NEW box \in Seq(Envelopes), NEW desc, Ordered(box, desc), box # <<>>, Head(box).kind # "answer"
  PROVE  Ordered(Tail(box), desc) /\ (HasAnswer(box) => HasAnswer(Tail(box)))
<1>1. /\ \A k \in DOMAIN Tail(box) : k \in Nat /\ k + 1 \in DOMAIN box /\ Tail(box)[k] = box[k + 1]
      /\ \A k \in DOMAIN box : k \in Nat /\ (k = 1 \/ (k - 1 \in DOMAIN Tail(box) /\ Tail(box)[k - 1] = box[k]))
      /\ box[1].kind # "answer" /\ 1 \in DOMAIN box
  <2>1. Tail(box) \in Seq(Envelopes)
    BY TailOf
  <2>2. DOMAIN Tail(box) \subseteq Nat /\ DOMAIN box \subseteq Nat
    BY <2>1, LenProperties
  <2> QED BY <2>2, TailOf
<1>2. HasAnswer(box) => HasAnswer(Tail(box))
  BY <1>1 DEF HasAnswer
<1>3. ASSUME NEW i \in DOMAIN Tail(box)
      PROVE  /\ Tail(box)[i].kind = "answer" => Tail(box)[i].re # None
             /\ Tail(box)[i].kind = "candidate" /\ desc = None =>
                    \E j \in DOMAIN Tail(box) : j < i /\ Tail(box)[j].kind = "answer"
  <2>1. i \in Nat /\ i + 1 \in DOMAIN box /\ Tail(box)[i] = box[i + 1]
    BY <1>1
  <2>2. ASSUME box[i + 1].kind = "candidate", desc = None
        PROVE  \E j \in DOMAIN Tail(box) : j < i /\ Tail(box)[j].kind = "answer"
    <3>1. PICK j \in DOMAIN box : j < i + 1 /\ box[j].kind = "answer"
      BY <2>1, <2>2 DEF Ordered
    <3>2. j \in Nat /\ j - 1 \in DOMAIN Tail(box) /\ Tail(box)[j - 1] = box[j]
      BY <1>1, <3>1
    <3> QED BY <2>1, <3>1, <3>2
  <2> QED BY <2>1, <2>2 DEF Ordered
<1> QED BY <1>2, <1>3 DEF Ordered

\* ... and so does sending a candidate behind an answer.
LEMMA OrderedAppend ==
  ASSUME NEW box \in Seq(Envelopes), NEW desc, Ordered(box, desc), NEW m \in Envelopes,
         m.kind = "answer" => m.re # None,
         m.kind = "candidate" /\ desc = None => HasAnswer(box)
  PROVE  /\ Ordered(Append(box, m), desc)
         /\ HasAnswer(box) \/ m.kind = "answer" => HasAnswer(Append(box, m))
<1> DEFINE new == Append(box, m)
           n == Len(box) + 1
<1>1. /\ \A k \in DOMAIN box : k \in DOMAIN new /\ new[k] = box[k] /\ k < n
      /\ \A k \in DOMAIN new : k \in DOMAIN box \/ k = n
      /\ n \in DOMAIN new /\ new[n] = m
  BY AppendOf, LenProperties
<1> HIDE DEF new, n
<1>2. HasAnswer(box) \/ m.kind = "answer" => HasAnswer(new)
  BY <1>1 DEF HasAnswer
<1>3. ASSUME NEW i \in DOMAIN new
      PROVE  /\ new[i].kind = "answer" => new[i].re # None
             /\ new[i].kind = "candidate" /\ desc = None =>
                    \E j \in DOMAIN new : j < i /\ new[j].kind = "answer"
  <2>1. CASE i \in DOMAIN box
    BY <1>1, <2>1 DEF Ordered
  <2>2. CASE i = n
    BY <1>1, <2>2 DEF HasAnswer
  <2> QED BY <1>1, <2>1, <2>2
<1> QED BY <1>2, <1>3 DEF Ordered, new

\* The host trickles a candidate only after its answer, on the same queue, so the
\* controller has the description when it reads the candidate and drops none.
LEMMA NextAnswerFirst ==
  TypeOK /\ Dialled /\ AnswerFirst /\ NoCandidateDiscarded /\ [Next]_vars
      => (AnswerFirst /\ NoCandidateDiscarded)'
<1> SUFFICES ASSUME TypeOK, Dialled, AnswerFirst, NoCandidateDiscarded, [Next]_vars
             PROVE  (AnswerFirst /\ NoCandidateDiscarded)'
  OBVIOUS
<1>t. /\ inbox \in Boxes /\ Host \in Peers /\ Host \notin Sids /\ None \notin Sids /\ live \subseteq Sids
      /\ \A s \in Sids : s \in Peers /\ s # Host /\ inbox[s] \in Seq(Envelopes)
      /\ pump \in [Peers -> Locals] /\ Idle.desc = None /\ hostSid \in Sids \cup {None}
  BY TypeFacts DEF TypeOK, Locals, Idle, Boxes
<1>o. OffersAreReal'
  BY NextOffers DEF AnswerFirst
\* What remains to show, and that it is enough.
<1>1. ASSUME discarded' = discarded,
             \A s \in Sids : Ordered(inbox'[s], pump'[s].desc),
             pump'[Host].desc # None /\ hostSid' \in live' /\ pump'[hostSid'].desc = None =>
                    HasAnswer(inbox'[hostSid'])
      PROVE  (AnswerFirst /\ NoCandidateDiscarded)'
  BY <1>o, <1>1 DEF AnswerFirst, NoCandidateDiscarded, Ordered, HasAnswer
<1>2. CASE QuietStep
  <2>1. \A s \in Sids : inbox'[s] = inbox[s] /\ pump'[s] = pump[s]
    BY <1>2 DEF QuietStep
  <2>2. \A s \in Sids : Ordered(inbox'[s], pump'[s].desc)
    BY <2>1 DEF AnswerFirst
  <2>3. ASSUME pump'[Host].desc # None, hostSid' \in live', pump'[hostSid'].desc = None
        PROVE  HasAnswer(inbox'[hostSid'])
    <3>1. pump'[Host] = pump[Host] /\ hostSid' = hostSid
      BY <1>t, <1>2, <2>3 DEF QuietStep
    <3>2. hostSid \in Sids
      BY <1>t, <2>3, <3>1, NextTypeOK DEF TypeOK
    <3>3. hostSid \in live
      BY <1>2, <1>t, <2>3, <3>1, <3>2 DEF QuietStep, Dialled
    <3> QED BY <2>1, <2>3, <3>1, <3>2, <3>3 DEF AnswerFirst
  <2> QED BY <1>1, <1>2, <2>2, <2>3 DEF QuietStep
<1>3. CASE AcceptConnection
  <2> DEFINE h == hostSid'
             m == Msg("response", h, None)
  <2>1. /\ discarded' = discarded /\ pump'[Host] = Idle /\ \A s \in Sids : pump'[s] = pump[s]
        /\ inbox[Host] # <<>>
        /\ inbox' = Read(Host) \/ inbox' = [Read(Host) EXCEPT ![h] = Append(Read(Host)[h], m)]
    BY <1>t, <1>3 DEF AcceptConnection
  <2>2. h \in Sids
    BY <1>3, NextTypeOK DEF AcceptConnection, TypeOK
  <2>3. m \in Envelopes /\ m.kind = "response"
    BY <2>2, EnvelopeOf DEF Kinds
  <2> HIDE DEF m, h
  <2>4. ASSUME NEW s \in Sids PROVE Ordered(inbox'[s], pump'[s].desc)
    <3>1. Read(Host) \in Boxes /\ Read(Host)[s] = inbox[s]
      BY <1>t, <2>1, ReadOf
    <3>2. inbox'[s] = inbox[s] \/ inbox'[s] = Append(inbox[s], m)
      BY <1>t, <2>1, <2>2, <3>1 DEF Boxes
    <3>3. Ordered(inbox[s], pump[s].desc) /\ pump'[s] = pump[s]
      BY <2>1 DEF AnswerFirst
    <3>4. Ordered(Append(inbox[s], m), pump[s].desc)
      BY <1>t, <2>3, <3>3, OrderedAppend
    <3> QED BY <3>2, <3>3, <3>4
  <2> QED BY <1>t, <1>1, <2>1, <2>4
<1>4. CASE PumpOffer
  <2> DEFINE m == Msg("answer", hostSid, Head(inbox[Host]).re)
  <2>1. /\ InPump(Host) /\ hostSid \in Sids /\ inbox[Host] # <<>> /\ Head(inbox[Host]).kind = "offer"
        /\ discarded' = discarded /\ hostSid' = hostSid /\ live' = live
    BY <1>4 DEF PumpOffer, Pumping, InPump, Got, TypeOK
  <2>2. \A s \in Sids : pump'[s] = pump[s]
    BY <1>t, <1>4 DEF PumpOffer
  <2>3. Head(inbox[Host]) \in Envelopes /\ Head(inbox[Host]).re # None
    BY <1>t, <2>1, ReadOf DEF AnswerFirst, OffersAreReal
  <2>4. m \in Envelopes /\ m.kind = "answer" /\ m.re # None
    BY <2>1, <2>3, EnvelopeOf DEF Kinds, Envelopes
  <2>5. /\ hostSid \in live => inbox' = Delivered(Read(Host), hostSid, m)
        /\ hostSid \notin live => inbox' = Read(Host)
    <3>1. Read(Host) \in Boxes
      BY <1>t, <2>1, ReadOf
    <3>2. inbox' = Send(Read(Host), Host, <<m>>) /\ Other(Host) = hostSid /\ SidOf(Host) = hostSid
      BY <1>4 DEF PumpOffer, Other, SidOf
    <3> HIDE DEF m
    <3> QED BY <1>t, <2>1, <2>4, <3>1, <3>2, SendOf
  <2> HIDE DEF m
  <2>6. ASSUME NEW s \in Sids
        PROVE  /\ inbox'[s] = inbox[s] \/ inbox'[s] = Append(inbox[s], m)
               /\ s = hostSid /\ s \in live => inbox'[s] = Append(inbox[s], m)
    <3>1. Read(Host) \in Boxes /\ Read(Host)[s] = inbox[s]
      BY <1>t, <2>1, ReadOf
    <3> QED BY <1>t, <2>1, <2>4, <2>5, <3>1 DEF Boxes, Delivered
  <2>7. ASSUME NEW s \in Sids
        PROVE  Ordered(inbox'[s], pump'[s].desc) /\ HasAnswer(Append(inbox[s], m))
    <3>1. Ordered(inbox[s], pump[s].desc)
      BY DEF AnswerFirst
    <3>2. Ordered(Append(inbox[s], m), pump[s].desc) /\ HasAnswer(Append(inbox[s], m))
      BY <1>t, <2>4, <3>1, OrderedAppend
    <3> QED BY <2>2, <2>6, <3>1, <3>2
  <2> QED BY <1>1, <2>1, <2>6, <2>7
<1>5. ASSUME NEW s \in Sids, PumpAnswer(s) PROVE (AnswerFirst /\ NoCandidateDiscarded)'
  <2>1. /\ discarded' = discarded /\ hostSid' = hostSid /\ live' = live
        /\ inbox[s] # <<>> /\ inbox' = Read(s) /\ Head(inbox[s]).kind = "answer"
    BY <1>5 DEF PumpAnswer, Got
  <2>2. inbox'[s] = Tail(inbox[s]) /\ \A r \in Sids : r # s => inbox'[r] = inbox[r]
    BY <1>t, <2>1, ReadOf
  <2>3. Head(inbox[s]).re # None
    BY <1>t, <2>1, ReadOf DEF AnswerFirst, Ordered
  <2>4. pump'[s].desc # None /\ \A r \in Peers : r # s => pump'[r] = pump[r]
    BY <1>t, <1>5, <2>3 DEF PumpAnswer, Locals
  <2>5. Ordered(inbox'[s], pump'[s].desc)
    BY <1>t, <2>1, <2>2, <2>4, TailOf DEF AnswerFirst, Ordered
  <2>6. \A r \in Sids : Ordered(inbox'[r], pump'[r].desc)
    BY <1>t, <2>2, <2>4, <2>5 DEF AnswerFirst
  <2>7. ASSUME pump'[Host].desc # None, hostSid' \in live', pump'[hostSid'].desc = None
        PROVE  HasAnswer(inbox'[hostSid'])
    BY <1>t, <2>1, <2>2, <2>4, <2>7 DEF AnswerFirst
  <2> QED BY <1>1, <2>1, <2>6, <2>7
<1>6. ASSUME NEW s \in Sids, ControllerLeaves(s) PROVE (AnswerFirst /\ NoCandidateDiscarded)'
  <2>1. /\ discarded' = discarded /\ hostSid' = hostSid /\ live' = live \ {s}
        /\ \A r \in Peers : r # s => pump'[r] = pump[r]
    BY <1>t, <1>6 DEF ControllerLeaves
  <2>2. inbox'[s] = <<>> /\ \A r \in Sids : r # s => inbox'[r] = inbox[r]
    BY <1>t, <1>6 DEF ControllerLeaves, Boxes
  <2>3. \A r \in Sids : Ordered(inbox'[r], pump'[r].desc)
    BY <1>t, <2>1, <2>2 DEF AnswerFirst, Ordered
  <2> QED BY <1>t, <1>1, <2>1, <2>2, <2>3 DEF AnswerFirst
<1>7. ASSUME NEW p \in Peers, Pump(p) PROVE (AnswerFirst /\ NoCandidateDiscarded)'
  <2>1. /\ UNCHANGED <<hostSid, live>> /\ InPump(p) /\ SidOf(p) \in Sids
        /\ \A r \in Peers : pump'[r].desc = pump[r].desc
        /\ \/ discarded' = discarded
           \/ p # Host /\ pump[p].desc = None /\ inbox[p] # <<>> /\ Head(inbox[p]).kind = "candidate"
    BY <1>7, PumpEffects
  <2>2. discarded' = discarded
    <3> SUFFICES ASSUME p # Host, pump[p].desc = None, inbox[p] # <<>>, Head(inbox[p]).kind = "candidate"
                 PROVE  FALSE
      BY <2>1
    <3>1. p \in Sids /\ 1 \in DOMAIN inbox[p] /\ inbox[p][1].kind = "candidate"
      BY ReadOf DEF Peers
    <3>2. \E j \in DOMAIN inbox[p] : j < 1
      BY <3>1 DEF AnswerFirst, Ordered
    <3> QED BY <1>t, <3>1, <3>2, LenProperties
  <2>3. ASSUME NEW s \in Sids
        PROVE  Ordered(inbox'[s], pump[s].desc) /\ (HasAnswer(inbox[s]) => HasAnswer(inbox'[s]))
    <3>1. Ordered(inbox[s], pump[s].desc) /\ inbox[s] \in Seq(Envelopes)
      BY <1>t DEF AnswerFirst
    <3>2. CASE inbox'[s] = inbox[s]
      BY <3>1, <3>2
    <3>3. CASE inbox[s] # <<>> /\ Head(inbox[s]).kind # "answer" /\ inbox'[s] = Tail(inbox[s])
      BY <3>1, <3>3, OrderedTail
    <3>4. ASSUME NEW m \in Envelopes, s = Other(p), m.kind \in {"ready", "candidate"},
                 m.kind = "candidate" /\ p = Host => pump[p].desc # None,
                 SidOf(p) \in live, inbox'[s] = Append(inbox[s], m)
          PROVE  Ordered(inbox'[s], pump[s].desc) /\ (HasAnswer(inbox[s]) => HasAnswer(inbox'[s]))
      <4>1. p = Host /\ hostSid = s
        BY <1>t, <3>4 DEF Other
      <4>2. hostSid \in live
        BY <3>4, <4>1 DEF SidOf
      <4>3. m.kind = "candidate" /\ pump[s].desc = None => HasAnswer(inbox[s])
        BY <3>4, <4>1, <4>2 DEF AnswerFirst
      <4> QED BY <3>1, <3>4, <4>3, OrderedAppend
    <3> QED BY <1>t, <1>7, <3>2, <3>3, <3>4, PumpInbox
  <2>4. \A s \in Sids : Ordered(inbox'[s], pump'[s].desc)
    BY <1>t, <2>1, <2>3
  <2>5. ASSUME pump'[Host].desc # None, hostSid' \in live', pump'[hostSid'].desc = None
        PROVE  HasAnswer(inbox'[hostSid'])
    BY <1>t, <2>1, <2>3, <2>5 DEF AnswerFirst
  <2> QED BY <1>1, <2>2, <2>4, <2>5
<1> QED BY <1>2, <1>3, <1>4, <1>5, <1>6, <1>7, StepKinds

\* The invariant holds before anyone has dialled.
LEMMA InitNegotiation == Init => NegotiationInv
<1> SUFFICES ASSUME Init PROVE NegotiationInv
  OBVIOUS
<1>1. TypeOK /\ Host \in Peers /\ \A s \in Sids : s \in Peers
  BY InitTypeOK, TypeFacts
<1>2. /\ \A p \in Peers : inbox[p] = <<>> /\ pump[p] = Idle
      /\ wait = Waiting /\ hostSid = None /\ accepted = <<>> /\ frames = {} /\ replied = {}
      /\ discarded = {} /\ \A s \in Sids : hello[s] = "none"
  BY DEF Init
<1>3. DOMAIN <<>> = {} /\ Len(<<>>) = 0 /\ ~Idle.open /\ ~Idle.ready /\ Idle.desc = None
      /\ Waiting.sid = None /\ Waiting.cred = None
  BY DEF Idle, Waiting
<1>4. Dialled /\ CredentialsOnce /\ InAccepted /\ HelloInHand
  BY <1>1, <1>2, <1>3 DEF Dialled, CredentialsOnce, InAccepted, HelloInHand
<1>5. EachSessionAcceptedOnce
  BY <1>2, <1>3 DEF EachSessionAcceptedOnce
<1>6. ReadinessIsTrue /\ NoEarlyData
  BY <1>1, <1>2, <1>3 DEF ReadinessIsTrue, NoEarlyData
<1>7. AnswerFirst /\ NoCandidateDiscarded
  BY <1>1, <1>2, <1>3 DEF AnswerFirst, OffersAreReal, Ordered, NoCandidateDiscarded
<1> QED BY <1>1, <1>4, <1>5, <1>6, <1>7 DEF NegotiationInv

\* serve, connect_to_host and pump keep the inductive invariant.
THEOREM NegotiationInvariant == Spec => []NegotiationInv
<1>1. NegotiationInv /\ [Next]_vars => NegotiationInv'
  <2> SUFFICES ASSUME NegotiationInv, [Next]_vars PROVE NegotiationInv'
    OBVIOUS
  <2>1. TypeOK' /\ Acceptance'
    BY NextTypeOK, NextAcceptance DEF NegotiationInv, Acceptance
  <2>2. HelloInHand'
    BY <2>1, NextHelloInHand DEF NegotiationInv, Acceptance
  <2>3. (ReadinessIsTrue /\ NoEarlyData)'
    BY NextReadiness DEF NegotiationInv
  <2>4. (AnswerFirst /\ NoCandidateDiscarded)'
    BY NextAnswerFirst DEF NegotiationInv
  <2> QED BY <2>1, <2>2, <2>3, <2>4 DEF NegotiationInv, Acceptance
<1> QED BY <1>1, InitNegotiation, PTL DEF Spec

\* negotiate.rs: neither side's first application data reaches a peer whose channels
\* are not open, whatever readiness an earlier session has left in an inbox.
THEOREM NobodySpeaksEarly == Spec => []NoEarlyData
<1>1. NegotiationInv => NoEarlyData
  BY DEF NegotiationInv
<1> QED BY <1>1, NegotiationInvariant, PTL

\* serve.rs: whatever is left in its inbox, one_session never accepts a session it
\* has accepted before.
THEOREM SessionsAcceptedOnce == Spec => []EachSessionAcceptedOnce
<1>1. NegotiationInv => EachSessionAcceptedOnce
  BY DEF NegotiationInv
<1> QED BY <1>1, NegotiationInvariant, PTL

\* negotiate.rs: no candidate is applied before its description and lost, and a Hello
\* that arrives while the host still pumps is there for its handshake.
THEOREM CandidatesAndHelloArrive == Spec => []NothingIsLost
<1>1. NegotiationInv => NothingIsLost
  BY DEF NegotiationInv, NothingIsLost, EarlyHelloKept, HelloInHand
<1> QED BY <1>1, NegotiationInvariant, PTL
=============================================================================
