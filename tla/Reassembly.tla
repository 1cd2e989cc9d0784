----------------------------- MODULE Reassembly -----------------------------
(***************************************************************************)
(* The reassembler of video frames (rda-decode/src/reassembly.rs) and the  *)
(* fragmentation it undoes (Payload::fragment_video, rda-proto).           *)
(*                                                                         *)
(* A reassembler is a function from the ids of the frames it has pieces of *)
(* to [pts, count, filled, since]: the bytes of a fragment are its index.  *)
(***************************************************************************)
EXTENDS Naturals, FiniteSets, Functions, FiniteSetsExt

CONSTANTS
    FRAGMENT_TIMEOUT_MS,
    MAX_PARTIAL_FRAMES,
    Incomplete           \* no frame came out

ASSUME ReassemblyAssumption ==
    FRAGMENT_TIMEOUT_MS \in Nat /\ MAX_PARTIAL_FRAMES \in Nat \ {0}

\* Payload::fragment_video: what goes on the wire for a frame of that many pieces.
FragmentVideo(frame, pieces) ==
    {[id |-> frame.id, pts |-> frame.pts, index |-> i, count |-> pieces] : i \in 0..(pieces - 1)}

EmptyReassembler == [id \in {} |-> Incomplete]

IsComplete(p) == Cardinality(p.filled) = p.count

\* Reassembler::expire
Expire(re, now) == RestrictValues(re, LAMBDA p : now - p.since <= FRAGMENT_TIMEOUT_MS)

Without(re, id) == Restrict(re, DOMAIN re \ {id})

\* The partial frame that gives way when there is one too many: the first seen.
Oldest(re) == CHOOSE id \in DOMAIN re : \A other \in DOMAIN re : re[id].since <= re[other].since

\* The partial frame a fragment belongs to, opened if it is the first of them.
PartialOf(re, f, now) ==
    IF f.id \in DOMAIN re THEN re[f.id]
    ELSE [pts |-> f.pts, count |-> f.count, filled |-> {}, since |-> now]

\* Reassembler::accept: the reassembler it leaves and the frame it completes, if any.
Accept(old, f, now) ==
    LET re        == Expire(old, now)
        part      == PartialOf(re, f, now)
        withPart  == [id \in DOMAIN re \cup {f.id} |-> IF id = f.id THEN part ELSE re[id]]
        disagrees == part.count # f.count \/ part.pts # f.pts
        filled    == [part EXCEPT !.filled = @ \cup {f.index}]
        grown     == [withPart EXCEPT ![f.id] = filled]
        whole     == [id |-> f.id, pts |-> f.pts, pieces |-> filled.filled]
    IN  IF f.count = 1 /\ f.id \notin DOMAIN re
          THEN [re |-> re, frame |-> whole]
        ELSE IF disagrees \/ f.index \in part.filled
          THEN [re |-> withPart, frame |-> Incomplete]
        ELSE IF IsComplete(filled)
          THEN [re |-> Without(grown, f.id), frame |-> whole]
        ELSE IF Cardinality(DOMAIN grown) > MAX_PARTIAL_FRAMES
          THEN [re |-> Without(grown, Oldest(grown)), frame |-> Incomplete]
        ELSE [re |-> grown, frame |-> Incomplete]
=============================================================================
