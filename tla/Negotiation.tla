----------------------------- MODULE Negotiation -----------------------------
(***************************************************************************)
(* Setting up sessions: the host's wait loop (rda-host/src/serve.rs), the  *)
(* negotiation of both sides (rda-session/src/negotiate.rs) and the first  *)
(* exchange of the handshake (auth.rs), over the signaling server's FIFO   *)
(* queues and the peer connection.                                         *)
(*                                                                         *)
(* Each controller dials once, on a connection of its own, and is named by *)
(* the id of the session that creates. A send is queued at its recipient   *)
(* at once: how late it is read stands for the latency of the path. The    *)
(* server drops what is sent in a session it has ended.                    *)
(***************************************************************************)
EXTENDS Naturals, Sequences

CONSTANTS
    Sids,    \* session ids, each with its controller
    None     \* Option::None

ASSUME SidsAssumption == Sids \subseteq Nat \ {0} /\ None \notin Nat

Host == 0
Peers == Sids \cup {Host}

VARIABLES
    inbox,      \* SignalConnection::inbox
    live,       \* sessions in the server's table
    hostPhase,  \* "waiting" in one_session, "pumping", or "serving"
    hostSid,    \* the session the host negotiates or serves
    wait,       \* the wait loop's session_id and the sid of its credentials
    ctl,        \* where each controller stands
    pump,       \* the locals of each peer's pump
    link,       \* external: sessions whose peer connection has come up
    hello,      \* Hello of each controller: "none", "sent", "delivered"
    frames,     \* Hellos the host holds for its handshake, early ones included
    opened,     \* history: <<peer, session>> whose channels have all opened
    accepted,   \* history: sessions the host has accepted, in order
    replied,    \* history: sessions in which the host has answered the Hello
    discarded   \* history: candidates applied before a remote description

vars == <<inbox, live, hostPhase, hostSid, wait, ctl, pump, link, hello, frames,
          opened, accepted, replied, discarded>>

\* Envelope: its payload, its session and, in an answer, the offer it answers.
Msg(kind, sid, re) == [kind |-> kind, sid |-> sid, re |-> re]
Kinds == {"request", "credentials", "response", "offer", "answer", "candidate", "ready", "gone"}

\* The locals of pump: the session whose description is set, the buffered
\* candidates, what has happened and what has been said.
Idle == [desc |-> None, pending |-> {}, gathered |-> FALSE, connected |-> FALSE,
         open |-> FALSE, announced |-> FALSE, ready |-> FALSE]
Waiting == [sid |-> None, cred |-> None]

\* The loop condition of pump, on its locals.
Settled(q) == q.connected /\ q.open /\ q.ready

SidOf(p) == IF p = Host THEN hostSid ELSE p
InPump(p) == IF p = Host THEN hostPhase = "pumping" ELSE ctl[p] = "pumping"
Pumping(p) == InPump(p) /\ ~Settled(pump[p])
Other(p) == IF p = Host THEN hostSid ELSE Host

\* The inboxes once p has read its first message and sent msgs in its session.
Read(p) == [inbox EXCEPT ![p] = Tail(@)]
Send(boxes, p, msgs) == IF SidOf(p) \in live
                        THEN [boxes EXCEPT ![Other(p)] = @ \o msgs] ELSE boxes
Got(p, kind) == inbox[p] # <<>> /\ Head(inbox[p]).kind = kind

-----------------------------------------------------------------------------
Init == /\ inbox = [p \in Peers |-> <<>>]
        /\ live = {}
        /\ hostPhase = "waiting" /\ hostSid = None /\ wait = Waiting
        /\ ctl = [s \in Sids |-> "idle"]
        /\ pump = [p \in Peers |-> Idle]
        /\ link = {}
        /\ hello = [s \in Sids |-> "none"]
        /\ frames = {} /\ opened = {} /\ accepted = <<>> /\ replied = {} /\ discarded = {}

\* connect_to_host dials: the server creates the session and tells the host,
\* then hands both their relay credentials. Two dials may interleave here.
Dial(s) ==
    /\ ctl[s] = "idle"
    /\ ctl' = [ctl EXCEPT ![s] = "dialling"]
    /\ live' = live \cup {s}
    /\ inbox' = [inbox EXCEPT ![Host] = Append(@, Msg("request", s, None))]
    /\ UNCHANGED <<hostPhase, hostSid, wait, pump, link, hello, frames, opened, accepted,
                   replied, discarded>>

Credentials(s) ==
    /\ ctl[s] = "dialling"
    /\ ctl' = [ctl EXCEPT ![s] = "building"]
    /\ inbox' = [inbox EXCEPT ![Host] = Append(@, Msg("credentials", s, None))]
    /\ UNCHANGED <<live, hostPhase, hostSid, wait, pump, link, hello, frames, opened, accepted,
                   replied, discarded>>

\* The credentials carry the session id, so the dialler goes on with them alone:
\* it builds the connection and sends its offer without the host's acceptance.
Offer(s) ==
    /\ ctl[s] = "building"
    /\ ctl' = [ctl EXCEPT ![s] = "pumping"]
    /\ inbox' = [inbox EXCEPT ![Host] = Append(@, Msg("offer", s, s))]
    /\ UNCHANGED <<live, hostPhase, hostSid, wait, pump, link, hello, frames, opened, accepted,
                   replied, discarded>>

\* Fault: the session id is that of the first envelope that has one, and any
\* credentials will do.
WaitedForAny(m) ==
    LET w == [sid |-> IF wait.sid = None THEN m.sid ELSE wait.sid,
              cred |-> IF m.kind = "credentials" THEN m.sid ELSE wait.cred]
    IN  [next |-> w, done |-> w.cred # None]
\* One envelope of the wait loop of one_session.
WaitedFor(m) ==
    LET w == [sid |-> IF m.kind = "request" THEN m.sid ELSE wait.sid,
              cred |-> IF m.kind = "credentials" THEN m.sid ELSE wait.cred]
    IN  [next |-> w, done |-> w.sid # None /\ w.cred = w.sid]

StillWaiting ==
    /\ hostPhase = "waiting" /\ inbox[Host] # <<>>
    /\ ~WaitedFor(Head(inbox[Host])).done
    /\ wait' = WaitedFor(Head(inbox[Host])).next
    /\ inbox' = Read(Host)
    /\ UNCHANGED <<live, hostPhase, hostSid, ctl, pump, link, hello, frames, opened, accepted,
                   replied, discarded>>

\* The wait loop ends and accept_connection answers.
AcceptConnection ==
    /\ hostPhase = "waiting" /\ inbox[Host] # <<>>
    /\ WaitedFor(Head(inbox[Host])).done
    /\ LET s == WaitedFor(Head(inbox[Host])).next.sid IN
       /\ hostSid' = s
       /\ accepted' = Append(accepted, s)
       /\ inbox' = IF s \in live THEN [Read(Host) EXCEPT ![s] = Append(@, Msg("response", s, None))]
                   ELSE Read(Host)
    /\ hostPhase' = "pumping" /\ wait' = Waiting
    /\ pump' = [pump EXCEPT ![Host] = Idle]
    /\ UNCHANGED <<live, ctl, link, hello, frames, opened, replied, discarded>>

\* Fault: the announcement goes by the connection, not by its channels.
AnnouncesConnected(q) == q.connected /\ ~q.announced /\ ~Settled(q)
\* The head of the loop: readiness is announced once, if the loop goes on.
Announces(q) == q.open /\ ~q.announced /\ ~Settled(q)

\* The end of an iteration and the head of the next.
Iterate(p, boxes, q) ==
    /\ pump' = [pump EXCEPT ![p] = [q EXCEPT !.announced = @ \/ Announces(q)]]
    /\ inbox' = IF Announces(q) THEN Send(boxes, p, <<Msg("ready", SidOf(p), None)>>) ELSE boxes

\* The messages pump acts on. None of its arms looks at the envelope's session.
\* Fault: the host's candidate overtakes its answer.
PumpOfferLate ==
    LET m == Head(inbox[Host]) IN
    /\ Pumping(Host) /\ Got(Host, "offer")
    /\ inbox' = Send(Read(Host), Host, <<Msg("candidate", hostSid, None), Msg("answer", hostSid, m.re)>>)
    /\ pump' = [pump EXCEPT ![Host].desc = m.re, ![Host].gathered = TRUE]
    /\ UNCHANGED <<live, hostPhase, hostSid, wait, ctl, link, hello, frames, opened, accepted,
                   replied, discarded>>
PumpOffer ==
    LET m == Head(inbox[Host]) IN
    /\ Pumping(Host) /\ Got(Host, "offer")
    /\ inbox' = Send(Read(Host), Host, <<Msg("answer", hostSid, m.re)>>)
    /\ pump' = [pump EXCEPT ![Host].desc = m.re, ![Host].pending = {}]
    /\ UNCHANGED <<live, hostPhase, hostSid, wait, ctl, link, hello, frames, opened, accepted,
                   replied, discarded>>

\* A second answer finds no offer outstanding: accept_answer fails the pump.
PumpAnswer(s) ==
    /\ Pumping(s) /\ Got(s, "answer") /\ pump[s].desc = None
    /\ inbox' = Read(s)
    /\ pump' = [pump EXCEPT ![s].desc = Head(inbox[s]).re]
    /\ UNCHANGED <<live, hostPhase, hostSid, wait, ctl, link, hello, frames, opened, accepted,
                   replied, discarded>>

\* The host buffers until it has a description; the controller counts as
\* described from the start, and what its peer connection refuses is dropped.
PumpCandidate(p) ==
    LET buffers == p = Host /\ pump[p].desc = None IN
    /\ Pumping(p) /\ Got(p, "candidate")
    /\ inbox' = Read(p)
    /\ pump' = IF buffers THEN [pump EXCEPT ![p].pending = @ \cup {Head(inbox[p]).sid}] ELSE pump
    /\ discarded' = IF ~buffers /\ pump[p].desc = None
                    THEN discarded \cup {<<p, Head(inbox[p]).sid>>} ELSE discarded
    /\ UNCHANGED <<live, hostPhase, hostSid, wait, ctl, link, hello, frames, opened, accepted,
                   replied>>

PumpReady(p) ==
    /\ Pumping(p) /\ Got(p, "ready")
    /\ Iterate(p, Read(p), [pump[p] EXCEPT !.ready = TRUE])
    /\ UNCHANGED <<live, hostPhase, hostSid, wait, ctl, link, hello, frames, opened, accepted,
                   replied, discarded>>

\* Everything else, a second caller's request included, is read and dropped.
PumpIgnores(p) ==
    /\ Pumping(p) /\ inbox[p] # <<>>
    /\ Head(inbox[p]).kind \in {"request", "credentials", "response"}
    /\ inbox' = Read(p)
    /\ UNCHANGED <<live, hostPhase, hostSid, wait, ctl, pump, link, hello, frames, opened,
                   accepted, replied, discarded>>

\* A local candidate is trickled, once there is a local description.
LocalCandidate(p) ==
    /\ Pumping(p) /\ ~pump[p].gathered
    /\ p = Host => pump[p].desc # None
    /\ pump' = [pump EXCEPT ![p].gathered = TRUE]
    /\ inbox' = Send(inbox, p, <<Msg("candidate", SidOf(p), None)>>)
    /\ UNCHANGED <<live, hostPhase, hostSid, wait, ctl, link, hello, frames, opened, accepted,
                   replied, discarded>>

\* External: ICE, DTLS and SCTP come up between two peers with each other's
\* descriptions; each side then learns of the state and of its channels.
LinkUp(s) ==
    /\ s \notin link
    /\ InPump(Host) /\ hostSid = s /\ InPump(s)
    /\ pump[Host].desc = s /\ pump[s].desc = s
    /\ link' = link \cup {s}
    /\ UNCHANGED <<inbox, live, hostPhase, hostSid, wait, ctl, pump, hello, frames, opened,
                   accepted, replied, discarded>>

Connected(p) ==
    /\ Pumping(p) /\ SidOf(p) \in link /\ ~pump[p].connected
    /\ Iterate(p, inbox, [pump[p] EXCEPT !.connected = TRUE])
    /\ UNCHANGED <<live, hostPhase, hostSid, wait, ctl, link, hello, frames, opened,
                   accepted, replied, discarded>>

\* ChannelOpen, or the 50 ms look, finds every channel open. A channel that was
\* written to before it was opened never opens.
AllOpen(p) ==
    /\ Pumping(p) /\ SidOf(p) \in link /\ ~pump[p].open
    /\ p = Host => hello[hostSid] # "delivered"
    /\ Iterate(p, inbox, [pump[p] EXCEPT !.open = TRUE])
    /\ opened' = opened \cup {<<p, SidOf(p)>>}
    /\ UNCHANGED <<live, hostPhase, hostSid, wait, ctl, link, hello, frames, accepted,
                   replied, discarded>>

\* pump returns Ok: the early frames are pushed back for the handshake.
HostSettles ==
    /\ InPump(Host) /\ Settled(pump[Host])
    /\ hostPhase' = "serving"
    /\ UNCHANGED <<inbox, live, hostSid, wait, ctl, pump, link, hello, frames, opened, accepted,
                   replied, discarded>>

\* The controller opens the handshake with the first application data.
ControllerSettles(s) ==
    /\ InPump(s) /\ Settled(pump[s])
    /\ ctl' = [ctl EXCEPT ![s] = "serving"]
    /\ hello' = [hello EXCEPT ![s] = "sent"]
    /\ UNCHANGED <<inbox, live, hostPhase, hostSid, wait, pump, link, frames, opened, accepted,
                   replied, discarded>>

\* The Hello arrives, while the host still pumps or in its handshake.
DeliverHello(s) ==
    /\ hello[s] = "sent"
    /\ hostSid = s
    /\ hello' = [hello EXCEPT ![s] = "delivered"]
    /\ frames' = frames \cup {s}
    /\ UNCHANGED <<inbox, live, hostPhase, hostSid, wait, ctl, pump, link, opened, accepted,
                   replied, discarded>>

\* authenticate_as_host takes the Hello and answers it.
HelloAck ==
    /\ hostPhase = "serving" /\ hostSid \in frames
    /\ frames' = frames \ {hostSid}
    /\ replied' = replied \cup {hostSid}
    /\ UNCHANGED <<inbox, live, hostPhase, hostSid, wait, ctl, pump, link, hello, opened,
                   accepted, discarded>>

\* pump fails (deadline, channels, ICE, a peer_gone from whichever session), or
\* the served session ends; serve starts over with a new PIN.
HostGoesBack(boxes) ==
    /\ hostPhase' = "waiting" /\ hostSid' = None
    /\ pump' = [pump EXCEPT ![Host] = Idle]
    /\ frames' = {}
    /\ inbox' = boxes
    /\ UNCHANGED <<live, wait, ctl, link, hello, opened, accepted, replied, discarded>>
HostPeerGone == Pumping(Host) /\ Got(Host, "gone") /\ HostGoesBack(Read(Host))
HostGivesUp == hostPhase # "waiting" /\ HostGoesBack(inbox)

\* The controller's process ends, whatever the reason; the server tears its
\* connection down and tells the host.
ControllerLeaves(s) ==
    /\ ctl[s] \in {"dialling", "building", "pumping", "serving"}
    /\ ctl' = [ctl EXCEPT ![s] = "over"]
    /\ pump' = [pump EXCEPT ![s] = Idle]
    /\ live' = live \ {s}
    /\ inbox' = [inbox EXCEPT ![s] = <<>>, ![Host] = Append(@, Msg("gone", s, None))]
    /\ UNCHANGED <<hostPhase, hostSid, wait, link, hello, frames, opened, accepted, replied,
                   discarded>>

Pump(p) == \/ PumpCandidate(p) \/ PumpReady(p) \/ PumpIgnores(p)
           \/ LocalCandidate(p) \/ Connected(p) \/ AllOpen(p)

Next ==
    \/ StillWaiting \/ AcceptConnection \/ PumpOffer \/ HostSettles \/ HelloAck
    \/ HostPeerGone \/ HostGivesUp
    \/ \E p \in Peers : Pump(p)
    \/ \E s \in Sids : \/ Dial(s) \/ Credentials(s) \/ Offer(s) \/ PumpAnswer(s) \/ LinkUp(s)
                       \/ ControllerSettles(s) \/ DeliverHello(s) \/ ControllerLeaves(s)

Spec == Init /\ [][Next]_vars
-----------------------------------------------------------------------------
TypeOK ==
    /\ inbox \in [Peers -> Seq([kind : Kinds, sid : Sids, re : Sids \cup {None}])]
    /\ live \subseteq Sids /\ link \subseteq Sids /\ frames \subseteq Sids /\ replied \subseteq Sids
    /\ hostPhase \in {"waiting", "pumping", "serving"}
    /\ hostSid \in Sids \cup {None} /\ (hostSid = None <=> hostPhase = "waiting")
    /\ wait \in [sid : Sids \cup {None}, cred : Sids \cup {None}]
    /\ ctl \in [Sids -> {"idle", "dialling", "building", "pumping", "serving", "over"}]
    /\ pump \in [Peers -> [desc : Sids \cup {None}, pending : SUBSET Sids, gathered : BOOLEAN,
                           connected : BOOLEAN, open : BOOLEAN, announced : BOOLEAN, ready : BOOLEAN]]
    /\ hello \in [Sids -> {"none", "sent", "delivered"}]
    /\ opened \subseteq Peers \X Sids /\ accepted \in Seq(Sids) /\ discarded \subseteq Peers \X Sids

\* Application data is sent only where the receiver's channels are open, or it
\* would destroy them: a controller says Hello when the host's have opened, the
\* host answers when the controller's have. This survives readiness announced in
\* an earlier session, which pump takes for its own: the host speaks second.
NoEarlyData ==
    \A s \in Sids :
       /\ hello[s] # "none" => <<Host, s>> \in opened
       /\ s \in replied => <<s, s>> \in opened

\* No candidate is lost for arriving before its description: what pump does not
\* buffer on the controller's side, the order of the host's sends makes up for.
NoCandidateDiscarded == discarded = {}

\* The host answers a session at most once and in a session of its own, whatever
\* an earlier one left in its inbox.
EachSessionAcceptedOnce ==
    \A i, j \in 1..Len(accepted) : accepted[i] = accepted[j] => i = j

\* A Hello that came while the host was still negotiating is there when its
\* handshake asks for it.
EarlyHelloKept ==
    \A s \in Sids : hello[s] = "delivered" /\ hostPhase = "serving" /\ hostSid = s
                    => s \in frames \cup replied

\* What a peer sends in time is not lost: neither a candidate nor the first frame.
NothingIsLost == TypeOK /\ NoCandidateDiscarded /\ EarlyHelloKept

\* rda-session/src/negotiate.rs: readiness is announced the moment it is true. So
\* a peer that has left pump has told the other one, who waits for it.
ReadinessIsAnnounced ==
    /\ hostPhase = "serving" => pump[Host].announced
    /\ \A s \in Sids : ctl[s] = "serving" => pump[s].announced
=============================================================================
