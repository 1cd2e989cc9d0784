---------------------------- MODULE SignalServer ----------------------------
(***************************************************************************)
(* The signaling server: the connection task of rda-signal-server/src/ws.rs *)
(* over the shared tables of registry.rs.                                  *)
(*                                                                         *)
(* Every connection is a task of a multi-threaded runtime and the tables   *)
(* lock one access at a time, so a handler that looks a table up and acts  *)
(* on what it found is two steps: a dial resolves its target and then      *)
(* creates the session; a teardown checks the connection id, removes the   *)
(* entry, and then ends the sessions. A connection reads its next frame    *)
(* when the handler of the last one has returned. The challenge, the acks  *)
(* and the heartbeats concern one connection and no table: left out.       *)
(***************************************************************************)
EXTENDS Naturals

CONSTANTS
    Devices,    \* device ids
    Dialable,   \* devices that register as Host or Both
    Conns,      \* connections, by conn_id
    DeviceOf,   \* the device whose identity key the connection's client holds
    Sids,       \* session ids, in the order they are drawn
    None        \* Option::None

ASSUME SignalServerAssumption ==
    /\ Dialable \subseteq Devices
    /\ DeviceOf \in [Conns -> Devices]
    /\ Sids \subseteq Nat
    /\ None \notin Conns \cup Devices \cup Sids
    /\ \A t \in [target : Devices, queue : Conns] : t # None

VARIABLES
    phase,     \* where each connection's task stands
    peers,     \* Registry::peers: the connection registered for a device
    live,      \* Registry::sessions: the ids in the table
    parties,   \* controller and host of every session ever created
    dialing,   \* a connect_request between resolve_target and create_session
    sent,      \* the envelopes the last step put on connections' queues
    replaced   \* history: connections told that another one replaced them

tables == <<peers, live, parties>>
vars == <<phase, tables, dialing, sent, replaced>>

Phases == {"new", "open", "registered", "closing", "removing", "sweeping", "gone"}
Envelopes == [to : Conns, from : Devices \cup {None}, sid : Sids \cup {None},
              msg : {"peer_gone", "connect_response", "connect_request",
                     "relay_credentials", "session", "error"}]
Unused == [controller |-> None, host |-> None]

\* Envelope, as routed to the queue of a connection.
Env(to, from, sid, msg) == [to |-> to, from |-> from, sid |-> sid, msg |-> msg]

\* Fault: whoever is not the controller counts as the host.
PeerOfAnyone(s, from) ==
    IF from = parties[s].controller THEN parties[s].host ELSE parties[s].controller
\* Session::peer_of.
PeerOf(s, from) == IF from = parties[s].controller THEN parties[s].host
                   ELSE IF from = parties[s].host THEN parties[s].controller
                   ELSE None

\* Fault: sessions are found by their controller only.
SessionsForController(d) == {s \in live : parties[s].controller = d}
\* Registry::sessions_for.
SessionsFor(d) == {s \in live : d \in {parties[s].controller, parties[s].host}}

\* Registry::send_to: an envelope reaches the connection registered for d.
SendTo(d, from, sid, msg) == IF d # None /\ peers[d] # None
                             THEN {Env(peers[d], from, sid, msg)} ELSE {}

-----------------------------------------------------------------------------
Init == /\ phase = [c \in Conns |-> "new"]
        /\ peers = [d \in Devices |-> None]
        /\ live = {}
        /\ parties = [s \in Sids |-> Unused]
        /\ dialing = [c \in Conns |-> None]
        /\ sent = {}
        /\ replaced = {}

\* ws::connection accepts a socket and issues its challenge.
Open(c) == /\ phase[c] = "new"
           /\ phase' = [phase EXCEPT ![c] = "open"]
           /\ sent' = {}
           /\ UNCHANGED <<tables, dialing, replaced>>

\* ws::register with a proof Challenge::verify accepts: the last writer wins,
\* and the connection it displaces is told.
Register(c) ==
    LET d == DeviceOf[c] IN
    /\ phase[c] = "open"
    /\ phase' = [phase EXCEPT ![c] = "registered"]
    /\ peers' = [peers EXCEPT ![d] = c]
    /\ sent' = SendTo(d, None, None, "peer_gone")
    /\ replaced' = replaced \cup ({peers[d]} \ {None})
    /\ UNCHANGED <<live, parties, dialing>>

\* ws::register with one it refuses: the nonce is spent and the socket closed.
\* A connection that never registered has nothing to tear down.
DropUnregistered(c) ==
    /\ phase[c] = "open"
    /\ phase' = [phase EXCEPT ![c] = "gone"]
    /\ sent' = {}
    /\ UNCHANGED <<tables, dialing, replaced>>

Ready(c) == phase[c] = "registered" /\ dialing[c] = None

\* ws::connect_request up to resolve_target: the dialler is told Offline, or the
\* handler holds the host's queue from now on.
Offline(c, target) ==
    /\ Ready(c)
    /\ target \notin Dialable \/ peers[target] = None
    /\ sent' = {Env(c, None, None, "connect_response")}
    /\ UNCHANGED <<phase, tables, dialing, replaced>>

Resolve(c, target) ==
    /\ Ready(c)
    /\ target \in Dialable /\ peers[target] # None
    /\ dialing' = [dialing EXCEPT ![c] = [target |-> target, queue |-> peers[target]]]
    /\ sent' = {}
    /\ UNCHANGED <<phase, tables, replaced>>

\* The rest of it: create_session, the request and the relay credentials.
CreateSession(c, s) ==
    /\ dialing[c] # None
    /\ parties[s] = Unused /\ \A r \in Sids : r < s => parties[r] # Unused
    /\ live' = live \cup {s}
    /\ parties' = [parties EXCEPT ![s] = [controller |-> DeviceOf[c], host |-> dialing[c].target]]
    /\ sent' = {Env(dialing[c].queue, DeviceOf[c], s, "connect_request"),
                Env(dialing[c].queue, None, s, "relay_credentials"),
                Env(c, None, s, "relay_credentials")}
    /\ dialing' = [dialing EXCEPT ![c] = None]
    /\ UNCHANGED <<phase, peers, replaced>>

\* Registry::forward_in_session, and the error the sender gets otherwise.
Routable(s, d) == s \in live /\ PeerOf(s, d) # None /\ peers[PeerOf(s, d)] # None

\* ws::forward: SDP, candidates, channels_ready, peer_gone.
Forward(c, s) ==
    /\ Ready(c)
    /\ Routable(s, DeviceOf[c])
    /\ sent' = SendTo(PeerOf(s, DeviceOf[c]), DeviceOf[c], s, "session")
    /\ UNCHANGED <<phase, tables, dialing, replaced>>

\* ws::connect_response: a refusal that was delivered ends the session.
ConnectResponse(c, s, accepted) ==
    /\ Ready(c)
    /\ Routable(s, DeviceOf[c])
    /\ sent' = SendTo(PeerOf(s, DeviceOf[c]), DeviceOf[c], s, "connect_response")
    /\ live' = IF accepted THEN live ELSE live \ {s}
    /\ UNCHANGED <<phase, peers, parties, dialing, replaced>>

RouteError(c, s) ==
    /\ Ready(c)
    /\ ~Routable(s, DeviceOf[c])
    /\ sent' = {Env(c, None, None, "error")}
    /\ UNCHANGED <<phase, tables, dialing, replaced>>

\* The socket ends: its client left, the network did, or the rate limit.
Close(c) ==
    /\ Ready(c)
    /\ phase' = [phase EXCEPT ![c] = "closing"]
    /\ sent' = {}
    /\ UNCHANGED <<tables, dialing, replaced>>

\* Fault: the test of the connection id is inverted.
ShouldRemoveInverted(c) == peers[DeviceOf[c]] # c
\* Registry::unregister, the test and then the removal, which is by device id.
ShouldRemove(c) == peers[DeviceOf[c]] = c

Unregister(c) ==
    /\ phase[c] = "closing"
    /\ phase' = [phase EXCEPT ![c] = IF ShouldRemove(c) THEN "removing" ELSE "gone"]
    /\ sent' = {}
    /\ UNCHANGED <<tables, dialing, replaced>>

RemovePeer(c) ==
    /\ phase[c] = "removing"
    /\ phase' = [phase EXCEPT ![c] = "sweeping"]
    /\ peers' = [peers EXCEPT ![DeviceOf[c]] = None]
    /\ sent' = {}
    /\ UNCHANGED <<live, parties, dialing, replaced>>

\* The rest of ws::teardown: tell every session's peer, end every session.
Sweep(c) ==
    LET d == DeviceOf[c] IN
    /\ phase[c] = "sweeping"
    /\ phase' = [phase EXCEPT ![c] = "gone"]
    /\ sent' = UNION {SendTo(PeerOf(s, d), d, s, "peer_gone") : s \in SessionsFor(d)}
    /\ live' = live \ SessionsFor(d)
    /\ UNCHANGED <<peers, parties, dialing, replaced>>

Teardown(c) == Unregister(c) \/ RemovePeer(c) \/ Sweep(c)

Next == \E c \in Conns :
    \/ Open(c) \/ Register(c) \/ DropUnregistered(c) \/ Close(c) \/ Teardown(c)
    \/ \E d \in Devices : Offline(c, d) \/ Resolve(c, d)
    \/ \E s \in Sids :
          \/ CreateSession(c, s) \/ Forward(c, s) \/ RouteError(c, s)
          \/ \E accepted \in BOOLEAN : ConnectResponse(c, s, accepted)

\* A teardown waits for nothing: it has no await between its steps.
Spec == Init /\ [][Next]_vars /\ \A c \in Conns : WF_vars(Teardown(c))
-----------------------------------------------------------------------------
TypeOK ==
    /\ phase \in [Conns -> Phases]
    /\ peers \in [Devices -> Conns \cup {None}]
    /\ live \subseteq Sids
    /\ parties \in [Sids -> [controller : Devices \cup {None}, host : Devices \cup {None}]]
    /\ dialing \in [Conns -> [target : Devices, queue : Conns] \cup {None}]
    /\ sent \subseteq Envelopes
    /\ replaced \subseteq Conns

\* What belongs to a session passes between its two participants only, whoever
\* has learned its id and whatever has been displaced or torn down meanwhile.
Participants(s) == {parties[s].controller, parties[s].host}
OnlyParticipants ==
    \A e \in sent : e.sid # None =>
       /\ DeviceOf[e.to] \in Participants(e.sid)
       /\ e.from \in Participants(e.sid) \cup {None}

\* Presence names a connection whose task still runs: none that has finished its
\* teardown stays dialable, in any order of reconnections and teardowns.
NoGhostPresence ==
    \A d \in Devices : peers[d] # None =>
       /\ DeviceOf[peers[d]] = d
       /\ phase[peers[d]] \in {"registered", "closing", "removing"}

\* A session is over once the connection of one of its participants has gone,
\* unless that device has already registered another one.
DepartureEndsSessions ==
    \A c \in Conns, s \in Sids :
       (phase[c] = "closing" /\ peers[DeviceOf[c]] = c /\ s \in live /\ DeviceOf[c] \in Participants(s))
       ~> (s \notin live \/ peers[DeviceOf[c]] \notin {c, None})

\* rda-signal-server/src/registry.rs, Registry::unregister: the guard keeps a slow
\* teardown of an old socket from deregistering the new one. So a registered
\* connection that nobody replaced is the one its device is reached by.
LiveRegistrationStays ==
    \A c \in Conns : phase[c] = "registered" /\ c \notin replaced => peers[DeviceOf[c]] = c
=============================================================================
