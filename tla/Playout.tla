------------------------------ MODULE Playout ------------------------------
(***************************************************************************)
(* The way of a video frame from the host's encoder to the viewer's        *)
(* decoder: cut into fragments, sent on an unordered channel that gives up *)
(* on late fragments, put together again, and played when it is due.       *)
(*                                                                         *)
(* One step of the viewer is one turn of its loop (rda-client/session.rs): *)
(* at most one fragment is taken in, and then the jitter buffer is polled. *)
(***************************************************************************)
EXTENDS Reassembly, JitterBuffer

CONSTANTS
    PlayFrames,             \* bound: frames the host sends
    PlayTime,             \* bound: the last time of the clock
    PieceCounts,         \* how many fragments a frame may have
    UpperLayer           \* the frames, by number, that no other frame refers to

ASSUME PlayoutAssumption ==
    PlayFrames \in Nat /\ PlayTime \in Nat /\ PieceCounts \subseteq Nat \ {0}

VARIABLES
    playNow,             \* the clock, in milliseconds
    sent,                \* the frames the host sent, in order
    network,             \* the fragments on their way: one the channel gives up on
                         \* (max_packet_life_time) stays here for good
    received,            \* the fragments that arrived
    reassembler,
    jitter,
    played               \* the timestamps handed to the decoder, in order

playVars == <<playNow, sent, network, received, reassembler, jitter, played>>

PlayoutInit ==
    /\ playNow = 0
    /\ sent = <<>>
    /\ network = {}
    /\ received = {}
    /\ reassembler = EmptyReassembler
    /\ jitter = EmptyBuffer
    /\ played = <<>>

\* The host encodes a picture and sends its fragments: one frame per timestamp.
SendVideo ==
    /\ Len(sent) < PlayFrames
    /\ \A i \in DOMAIN sent : sent[i].pts < playNow
    /\ \E pieces \in PieceCounts :
         LET frame == [id |-> Len(sent) + 1, pts |-> playNow,
                       pieces |-> pieces, discardable |-> Len(sent) + 1 \in UpperLayer]
         IN  /\ sent' = Append(sent, frame)
             /\ network' = network \cup FragmentVideo(frame, pieces)
    /\ UNCHANGED <<playNow, received, reassembler, jitter, played>>

\* What the poll at the end of a turn does with the buffer.
PollAndPlay(buffer) ==
    LET result == Poll(buffer, playNow)
    IN  /\ jitter' = result.jb
        /\ played' = IF result.out = "play" THEN Append(played, result.jb.played) ELSE played

\* A turn of the viewer's loop in which a fragment arrives.
TurnWithFragment ==
    /\ \E f \in network :
         LET result == Accept(reassembler, f, playNow)
         IN  /\ network' = network \ {f}
             /\ received' = received \cup {f}
             /\ reassembler' = result.re
             /\ PollAndPlay(IF result.frame = Incomplete THEN jitter
                            ELSE Push(jitter, result.frame.pts, sent[f.id].discardable, playNow))
    /\ UNCHANGED <<playNow, sent>>

\* A turn whose wait for an event times out.
TurnWithout ==
    /\ PollAndPlay(jitter)
    /\ UNCHANGED <<playNow, sent, network, received, reassembler>>

PlayTick ==
    /\ playNow < PlayTime
    /\ playNow' = playNow + 1
    /\ UNCHANGED <<sent, network, received, reassembler, jitter, played>>

PlayoutNext == SendVideo \/ TurnWithFragment \/ TurnWithout \/ PlayTick

PlayoutSpec == PlayoutInit /\ [][PlayoutNext]_playVars

-----------------------------------------------------------------------------

\* The ranges of what is on its way, half assembled and queued; both stores keep
\* their limits.
PlayoutTypeOK ==
    /\ playNow \in 0..PlayTime
    /\ Len(sent) <= PlayFrames
    /\ network \cap received = {}
    /\ \A id \in DOMAIN reassembler :
         reassembler[id].filled \subseteq 0..(reassembler[id].count - 1)
    /\ Len(jitter.queue) <= MAX_QUEUED_FRAMES
    /\ Cardinality(DOMAIN reassembler) <= MAX_PARTIAL_FRAMES

Whole(id) == FragmentVideo(sent[id], sent[id].pieces) \subseteq received

\* A frame reaches the decoder, or the queue in front of it, only after every one of
\* its fragments arrived, whatever was lost, overtaken or expired in between.
OnlyWholeFramesPlay ==
    \A pts \in ToSet(played) \cup {q.pts : q \in ToSet(jitter.queue)} :
        \E id \in DOMAIN sent : sent[id].pts = pts /\ Whole(id)

\* The decoder is given frames in the order they were captured, each once: a frame
\* that arrives after a later one was shown never goes back on screen.
PlayedInOrder ==
    \A i, j \in DOMAIN played : i < j => played[i] < played[j]

\* Deadlines follow the order of the timestamps, so that catching up never skips a
\* frame for one whose turn is not later; what is queued is newer than what was played.
DeadlinesInOrder ==
    /\ \A i, j \in DOMAIN jitter.queue :
         i < j => /\ jitter.queue[i].pts < jitter.queue[j].pts
                  /\ jitter.queue[i].due <= jitter.queue[j].due
    /\ \A i \in DOMAIN jitter.queue :
         jitter.played = Never \/ jitter.queue[i].pts > jitter.played

\* However irregular the arrivals are, no frame is held back for longer than the
\* largest target: latency does not build up in the buffer.
PlayoutDelayBounded ==
    \A i \in DOMAIN jitter.queue : jitter.queue[i].due <= playNow + MAX_TARGET_MS

\* Frames play whole, in order and once, at deadlines that are in order and near,
\* within the limits of both stores.
PlayoutIsSound ==
    /\ PlayoutTypeOK /\ OnlyWholeFramesPlay /\ PlayedInOrder
    /\ DeadlinesInOrder /\ PlayoutDelayBounded
=============================================================================
