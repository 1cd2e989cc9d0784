---------------------------- MODULE Registration ----------------------------
(***************************************************************************)
(* One signaling connection from its socket to its teardown: connect of    *)
(* the client (rda-signal-client/src/lib.rs), and the task of the server   *)
(* (rda-signal-server/src/ws.rs) with its challenge (auth.rs) and its      *)
(* per-connection limiter (lib.rs).                                        *)
(*                                                                         *)
(* Envelopes are their kinds; the two sockets are FIFO. The client signs   *)
(* with the key it names, so that the nonce's age is what verify decides.  *)
(* SignalServer has the tables; here the other connections are what they   *)
(* put on this one's queue once it is in the registry.                     *)
(***************************************************************************)
EXTENDS Integers, Sequences

CONSTANTS
    RATE_LIMIT, RATE_WINDOW,  \* Config::rate_limit, rate_window_ms
    NONCE_TTL,
    MaxRequests,              \* bound: messages of a connected client
    MaxRouted,                \* bound: envelopes other connections send it
    RegTime                   \* bound: the last time of the clock

ASSUME RegistrationAssumption ==
    /\ RATE_LIMIT \in Nat /\ RATE_WINDOW \in Nat /\ NONCE_TTL \in Nat
    /\ MaxRequests \in Nat /\ MaxRouted \in Nat /\ RegTime \in Nat

VARIABLES
    regNow,      \* now_ms
    conn,        \* the server's task: "none", "open", "acking", "registered" or "left"
    challenge,   \* Challenge: when it was issued, whether it is spent
    limiter,     \* RateLimiter: window_start, count
    listed,      \* the registry holds this connection
    routed,      \* envelopes other connections have put on its queue
    toClient, toServer,
    client,      \* "off", in connect "connecting" or "registering", "connected", "failed", "left"
    asked,       \* messages the connected client has sent
    limited,     \* history: the limiter has ended the connection's loop
    arrivals     \* history: when each message the server has read came

regVars == <<regNow, conn, challenge, limiter, listed, routed, toClient, toServer, client,
             asked, limited, arrivals>>
serverVars == <<conn, challenge, limiter, listed, limited, arrivals>>
dialVars == <<client, asked>>

RegInit ==
    /\ regNow = 0 /\ conn = "none"
    /\ challenge = [issued |-> 0, spent |-> FALSE]
    /\ limiter = [start |-> 0, count |-> 0]
    /\ listed = FALSE /\ routed = 0
    /\ toClient = <<>> /\ toServer = <<>>
    /\ client = "off" /\ asked = 0
    /\ limited = FALSE /\ arrivals = <<>>

\* connect opens the socket: the server's task starts, and issues its challenge
\* before anything is accepted.
DialServer ==
    /\ client = "off"
    /\ client' = "connecting"
    /\ conn' = "open"
    /\ challenge' = [issued |-> regNow, spent |-> FALSE]
    /\ toClient' = <<"challenge">>
    /\ UNCHANGED <<regNow, limiter, listed, limited, arrivals, routed, toServer, asked>>

-----------------------------------------------------------------------------
(* The client.                                                             *)

\* connect returns an error: both halves of the socket are dropped.
Abandon == /\ client' = "failed"
           /\ toServer' = Append(toServer, "close")

\* connect reads the first envelope: a challenge, which it answers, or an error.
ReadChallenge ==
    /\ client = "connecting" /\ toClient # <<>>
    /\ toClient' = Tail(toClient)
    /\ \/ /\ Head(toClient) = "challenge"
          /\ client' = "registering"
          /\ toServer' = Append(toServer, "register")
       \/ Head(toClient) # "challenge" /\ Abandon
    /\ UNCHANGED <<regNow, serverVars, routed, asked>>

\* connect reads the second: the ack, or whatever else came, which ends it.
ReadAck ==
    /\ client = "registering" /\ toClient # <<>>
    /\ toClient' = Tail(toClient)
    /\ \/ Head(toClient) = "register_ack" /\ client' = "connected" /\ UNCHANGED toServer
       \/ Head(toClient) # "register_ack" /\ Abandon
    /\ UNCHANGED <<regNow, serverVars, routed, asked>>

\* The receive task of a connection forwards to the inbox.
ReceiveTask ==
    /\ client = "connected" /\ toClient # <<>>
    /\ toClient' = Tail(toClient)
    /\ UNCHANGED <<regNow, serverVars, routed, toServer, client, asked>>

\* SignalConnection::send, and the send task behind it.
SendTask ==
    /\ client = "connected" /\ asked < MaxRequests
    /\ asked' = asked + 1
    /\ \E kind \in {"heartbeat", "connect_request"} : toServer' = Append(toServer, kind)
    /\ UNCHANGED <<regNow, serverVars, routed, toClient, client>>

\* The SignalConnection is dropped: the send task closes the socket.
DropConnection ==
    /\ client = "connected"
    /\ client' = "left"
    /\ toServer' = Append(toServer, "close")
    /\ UNCHANGED <<regNow, serverVars, routed, toClient, asked>>
-----------------------------------------------------------------------------
(* The server.                                                             *)

\* Fault: the window is never restarted.
NeverRolled == [limiter EXCEPT !.count = @ + 1]
\* The window restarts once it is over, and counts what it refuses too.
Rolled == IF regNow - limiter.start > RATE_WINDOW
          THEN [start |-> regNow, count |-> 1] ELSE [limiter EXCEPT !.count = @ + 1]
\* RateLimiter::allow.
Allows == Rolled.count <= RATE_LIMIT

\* The loop is left: teardown, and the writer sends what is queued. The task then waits for
\* the writer, the writer for its last sender, and conn.tx, which is one, lives as long as
\* the task: sink.close is not reached, and the client sees no end of the socket.
Leaves(replies) ==
    /\ conn' = "left" /\ listed' = FALSE
    /\ toClient' = toClient \o replies

\* Challenge::verify, which spends a nonce it has looked at.
NonceUsable == ~challenge.spent /\ regNow - challenge.issued <= NONCE_TTL

\* Fault: the refusal is left to the end of the socket, and no error is sent.
RefusesSilently(ok) ==
    \/ ok /\ conn' = "acking" /\ listed' = TRUE /\ UNCHANGED toClient
    \/ ~ok /\ Leaves(<<>>)
\* register, up to the insertion into the registry; a refusal ends the loop.
RegisterPeer(ok) ==
    \/ ok /\ conn' = "acking" /\ listed' = TRUE /\ UNCHANGED toClient
    \/ ~ok /\ Leaves(<<"error">>)

\* What handle answers to a message that does not end the connection.
Reply(m) ==
    IF conn = "open" THEN "error"
    ELSE CASE m = "register" -> "error"
           [] m = "heartbeat" -> "heartbeat_ack"
           [] m = "connect_request" -> "connect_response"

\* One turn of the loop of ws::connection.
Turn ==
    LET m == Head(toServer) IN
    /\ conn \in {"open", "registered"} /\ toServer # <<>>
    /\ toServer' = Tail(toServer)
    /\ IF m = "close" THEN Leaves(<<>>) /\ UNCHANGED <<limiter, challenge, limited, arrivals>>
       ELSE /\ limiter' = Rolled
            /\ arrivals' = Append(arrivals, regNow)
            /\ limited' = ~Allows
            /\ \/ ~Allows /\ Leaves(<<"error">>) /\ UNCHANGED challenge
               \/ /\ Allows /\ conn = "open" /\ m = "register"
                  /\ RegisterPeer(NonceUsable)
                  /\ challenge' = [challenge EXCEPT !.spent = @ \/ NonceUsable]
               \/ /\ Allows /\ ~(conn = "open" /\ m = "register")
                  /\ toClient' = Append(toClient, Reply(m))
                  /\ UNCHANGED <<conn, listed, challenge>>
    /\ UNCHANGED <<regNow, routed, client, asked>>

\* The rest of register: the ack follows whatever the queue already holds.
Acknowledge ==
    /\ conn = "acking"
    /\ conn' = "registered"
    /\ toClient' = Append(toClient, "register_ack")
    /\ UNCHANGED <<regNow, challenge, limiter, listed, limited, arrivals, routed, toServer, dialVars>>

\* Another connection dials this device, or registers it anew and displaces this one.
Routes ==
    /\ listed /\ routed < MaxRouted
    /\ routed' = routed + 1
    /\ \/ toClient' = Append(toClient, "connect_request") /\ UNCHANGED listed
       \/ toClient' = Append(toClient, "peer_gone") /\ listed' = FALSE
    /\ UNCHANGED <<regNow, conn, challenge, limiter, limited, arrivals, toServer, dialVars>>

RegTick ==
    /\ regNow < RegTime
    /\ regNow' = regNow + 1
    /\ UNCHANGED <<serverVars, routed, toClient, toServer, dialVars>>

RegNext ==
    \/ DialServer \/ ReadChallenge \/ ReadAck \/ ReceiveTask \/ SendTask \/ DropConnection
    \/ Turn \/ Acknowledge \/ Routes \/ RegTick

\* The tasks are scheduled: what is queued on a socket is read in the end.
RegFairness ==
    /\ WF_regVars(ReadChallenge) /\ WF_regVars(ReadAck) /\ WF_regVars(ReceiveTask)
    /\ WF_regVars(Turn) /\ WF_regVars(Acknowledge)

RegSpec == RegInit /\ [][RegNext]_regVars /\ RegFairness
-----------------------------------------------------------------------------
\* connect has no timeout and no refusal closes its socket, and still it returns: the
\* server answers every registration, and an error follows whatever else it read last.
ConnectEnds == (client \in {"connecting", "registering"}) ~> (client \in {"connected", "failed", "left"})

\* What ws.rs says of a connection whose loop it leaves ("closing connection", line 123;
\* "Returns `false` to close the connection", line 151): it is closed, and its client does
\* not stay connected to a server that reads and answers nothing any more.
LeftIsClosed == (conn = "left") ~> (client # "connected")

\* A client that keeps to the limit in every stretch of a window is never cut off
\* by the limiter, wherever the restarting window happens to begin: one that was
\* cut off has sent more than RATE_LIMIT messages within RATE_WINDOW.
QuietClientStays ==
    limited => \E i, j \in DOMAIN arrivals :
        j = i + RATE_LIMIT /\ arrivals[j] - arrivals[i] <= RATE_WINDOW
=============================================================================
