------------------------------ MODULE Transport ------------------------------
(***************************************************************************)
(* One direction of a peer connection (rda-transport/src/session.rs), from *)
(* Session::send of one peer to the three readers that take turns at the   *)
(* other: negotiation (rda-session/src/negotiate.rs), which reads the      *)
(* event queue directly and hands the frames it met back, the handshake    *)
(* (auth.rs), which drops the frames of other channels, and the stream     *)
(* loop. The channels are those of channels.rs that carry traffic; SCTP    *)
(* orders a stream only against itself, and every channel has a callback   *)
(* of its own, so the streams interleave freely in the event queue.        *)
(***************************************************************************)
EXTENDS Integers, Sequences, FiniteSets, SequencesExt, Listing

CONSTANTS
    MaxSent,         \* bound of the frames sent on a channel
    HandshakeFrames, \* control frames the handshake waits for
    MAX_RELAY_POPS,  \* the relays kept of a server's list
    ServerLists      \* lists of ICE servers: a sequence of "stun" and "turn"

ASSUME TransportAssumption ==
    /\ MaxSent \in Nat /\ HandshakeFrames \in 1..MaxSent /\ MAX_RELAY_POPS \in Nat
    /\ ServerLists \subseteq Seq({"stun", "turn"})

VARIABLES
    iceServers,  \* RTCConfiguration::ice_servers of the peer connection
    offered,     \* the list the signaling server sent
    sentOn,      \* frames sent so far on each channel
    stream,      \* SCTP in flight, per channel
    openChannels,      \* channels of the receiver that are open
    linkUp,      \* the peer connection is neither Closed nor Failed
    events,      \* Session::events
    early,       \* early_frames of the negotiation
    pending,     \* Session::pending
    reader,      \* who reads: "negotiation", "handshake", "stream" or "gone"
    got          \* history: the frames the handshake or the stream loop took, per channel

sctpVars == <<sentOn, stream, openChannels, linkUp>>
queueVars == <<events, early, pending>>
transportVars == <<iceServers, offered, sctpVars, queueVars, reader, got>>

\* The rows of CHANNELS: control and input-k have neither cap; video is unordered
\* and lossy, and stands for input-p, cursor and stats, which differ in the cap.
Reliable == {"control", "input-k"}
Channels == Reliable \cup {"video"}

FrameEvent(c, n) == [kind |-> "frame", channel |-> c, number |-> n]
OpenEvent(c) == [kind |-> "open", channel |-> c, number |-> 0]
ClosedEvent == [kind |-> "closed", channel |-> "control", number |-> 0]

\* ice::build_configuration: every server without a user name, and the first
\* relays of the others.
BuildConfiguration(servers) ==
    LET relaysTo(i) == Cardinality({j \in 1..i : servers[j] = "turn"})
        kept == Ascending({i \in DOMAIN servers :
                              servers[i] = "turn" => relaysTo(i) <= MAX_RELAY_POPS})
    IN  [i \in DOMAIN kept |-> servers[kept[i]]]

\* Session::new.
TransportInit ==
    /\ offered \in ServerLists
    /\ iceServers = BuildConfiguration(offered)
    /\ sentOn = [c \in Channels |-> 0]
    /\ stream = [c \in Channels |-> <<>>]
    /\ openChannels = {} /\ linkUp = TRUE
    /\ events = <<>> /\ early = <<>> /\ pending = <<>>
    /\ reader = "negotiation"
    /\ got = [c \in Channels |-> <<>>]

-----------------------------------------------------------------------------
\* on_open.
ChannelOpens(c) ==
    /\ c \notin openChannels /\ linkUp
    /\ openChannels' = openChannels \cup {c}
    /\ events' = Append(events, OpenEvent(c))
    /\ UNCHANGED <<iceServers, offered, sentOn, stream, linkUp, early, pending, reader, got>>

\* Session::send: the channel is the message type's. Input comes from a viewer
\* whose handshake is over, and then so is the host's.
SendFrame(c) ==
    /\ linkUp /\ openChannels = Channels /\ sentOn[c] < MaxSent
    /\ c = "input-k" => reader = "stream"
    /\ sentOn' = [sentOn EXCEPT ![c] = @ + 1]
    /\ stream' = [stream EXCEPT ![c] = Append(@, sentOn[c] + 1)]
    /\ UNCHANGED <<iceServers, offered, openChannels, linkUp, queueVars, reader, got>>

\* SCTP loses a frame of a channel that is not reliable.
LoseFrame(c, i) ==
    /\ c \notin Reliable
    /\ stream' = [stream EXCEPT ![c] = RemoveAt(@, i)]
    /\ UNCHANGED <<iceServers, offered, sentOn, openChannels, linkUp, queueVars, reader, got>>

\* The frames SCTP may deliver next on a channel.
Deliverable(c) == IF c \in Reliable THEN DOMAIN stream[c] \cap {1} ELSE DOMAIN stream[c]

\* on_message: the frame is decoded and queued for the owner.
OnMessage(c, i) ==
    /\ linkUp
    /\ stream' = [stream EXCEPT ![c] = RemoveAt(@, i)]
    /\ events' = Append(events, FrameEvent(c, stream[c][i]))
    /\ UNCHANGED <<iceServers, offered, sentOn, openChannels, linkUp, early, pending, reader, got>>

\* on_peer_connection_state_change, Closed or Failed.
ConnectionEnds ==
    /\ linkUp /\ linkUp' = FALSE
    /\ events' = Append(events, ClosedEvent)
    /\ UNCHANGED <<iceServers, offered, sentOn, stream, openChannels, early, pending, reader, got>>

-----------------------------------------------------------------------------
\* negotiate::pump reads the queue itself: a frame is kept, Closed ends it.
NegotiationReads ==
    /\ reader = "negotiation" /\ events # <<>>
    /\ LET e == Head(events) IN
       /\ events' = Tail(events)
       /\ early' = IF e.kind = "frame" THEN Append(early, e) ELSE early
       /\ reader' = IF e.kind = "closed" THEN "gone" ELSE reader
    /\ UNCHANGED <<iceServers, offered, sctpVars, pending, got>>

\* Faults: what was handed back is queued behind what arrived since; it is dropped.
PushBackLast == events' = events \o early /\ UNCHANGED pending
PushBackNothing == UNCHANGED <<events, pending>>
\* Session::push_back_frames.
PushBack == pending' = pending \o early /\ UNCHANGED events

\* pump returns once every channel is open, and the handshake begins.
NegotiationEnds ==
    /\ reader = "negotiation" /\ openChannels = Channels
    /\ reader' = "handshake"
    /\ early' = <<>>
    /\ PushBack
    /\ UNCHANGED <<iceServers, offered, sctpVars, got>>

\* Session::next_event: what was handed back comes first.
NextEvent == IF pending # <<>> THEN Head(pending) ELSE Head(events)
TakeEvent ==
    /\ pending # <<>> \/ events # <<>>
    /\ \/ pending # <<>> /\ pending' = Tail(pending) /\ UNCHANGED events
       \/ pending = <<>> /\ events' = Tail(events) /\ UNCHANGED pending

\* auth::next_frame: control frames are the handshake's, Closed ends it, any
\* other event is dropped.
HandshakeReads ==
    /\ reader = "handshake"
    /\ TakeEvent
    /\ LET e == NextEvent
           mine == e.kind = "frame" /\ e.channel = "control"
       IN  /\ got' = IF mine THEN [got EXCEPT !["control"] = Append(@, e.number)] ELSE got
           /\ reader' = IF e.kind = "closed" THEN "gone"
                        ELSE IF Len(got'["control"]) = HandshakeFrames THEN "stream"
                        ELSE reader
    /\ UNCHANGED <<iceServers, offered, sctpVars, early>>

\* The drain of the stream loop.
StreamReads ==
    /\ reader = "stream"
    /\ TakeEvent
    /\ LET e == NextEvent IN
       /\ got' = IF e.kind = "frame" THEN [got EXCEPT ![e.channel] = Append(@, e.number)] ELSE got
       /\ reader' = IF e.kind = "closed" THEN "gone" ELSE reader
    /\ UNCHANGED <<iceServers, offered, sctpVars, early>>

TransportNext ==
    \/ \E c \in Channels : \/ ChannelOpens(c) \/ SendFrame(c)
                           \/ \E i \in DOMAIN stream[c] : LoseFrame(c, i)
                           \/ \E i \in Deliverable(c) : OnMessage(c, i)
    \/ ConnectionEnds
    \/ NegotiationReads \/ NegotiationEnds \/ HandshakeReads \/ StreamReads

\* Every reader awaits the next event, and the stack delivers what is reliable.
TransportFairness ==
    /\ WF_transportVars(HandshakeReads) /\ WF_transportVars(StreamReads)
    /\ WF_transportVars(NegotiationReads) /\ WF_transportVars(NegotiationEnds)
    /\ \A c \in Reliable : WF_transportVars(\E i \in Deliverable(c) : OnMessage(c, i))

TransportSpec == TransportInit /\ [][TransportNext]_transportVars /\ TransportFairness

-----------------------------------------------------------------------------
TransportEvents ==
    {FrameEvent(c, n) : c \in Channels, n \in 1..MaxSent}
        \cup {OpenEvent(c) : c \in Channels} \cup {ClosedEvent}

\* The ranges of the streams, the queues and the readers.
TransportTypeOK ==
    /\ sentOn \in [Channels -> 0..MaxSent] /\ openChannels \subseteq Channels /\ linkUp \in BOOLEAN
    /\ \A c \in Channels : Range(stream[c]) \cup Range(got[c]) \subseteq 1..MaxSent
    /\ Range(events) \cup Range(early) \cup Range(pending) \subseteq TransportEvents
    /\ reader \in {"negotiation", "handshake", "stream", "gone"}

\* A reliable channel reaches its readers in order and without a gap, over the
\* hand-over from negotiation to handshake to stream loop (session.rs:272,
\* "keeps the event stream in order for whoever reads it next"), and although the
\* handshake drops what is not its own.
ReliableInOrder ==
    \A c \in Reliable : \A i \in DOMAIN got[c] : got[c][i] = i

\* At most MAX_RELAY_POPS relays of whatever the signaling server sent are used,
\* and every other server is (ice.rs:5, "Relay candidates are capped").
RelaysCapped ==
    LET places(kind, list) == {i \in DOMAIN list : list[i] = kind}
    IN  /\ Cardinality(places("turn", iceServers)) <= MAX_RELAY_POPS
        /\ Cardinality(places("stun", iceServers)) = Cardinality(places("stun", offered))

\* Whoever reads gets the frames of its channels in order.
TransportIsSound == TransportTypeOK /\ ReliableInOrder

\* Whatever was sent on a reliable channel is read, unless the connection ends.
ReliableArrives ==
    \A c \in Reliable : (sentOn[c] > Len(got[c])) ~> (sentOn[c] = Len(got[c]) \/ ~linkUp)
=============================================================================
