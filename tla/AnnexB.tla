------------------------------- MODULE AnnexB -------------------------------
(***************************************************************************)
(* The bitstream between the two VideoToolbox backends. The encoder gets   *)
(* NAL units with length prefixes (AVCC) and its parameter sets apart; it  *)
(* sends start codes, with the sets before a keyframe (rda-encode/backend/ *)
(* videotoolbox.rs). The decoder finds the units again, keeps the sets for *)
(* the session and gives it the others with length prefixes (rda-decode/   *)
(* decoder.rs and backend/videotoolbox.rs).                                *)
(*                                                                         *)
(* Bytes are numbers and streams are sequences of them.                    *)
(***************************************************************************)
EXTENDS Integers, Sequences, SequencesExt, Listing

CONSTANTS
    Slices,              \* the access units the encoder produces: sequences of NAL units
    SetPairs,            \* the parameter sets it may have: <<sps, pps>>
    NotAvcc, NoAccess, NoSession, NoSet

NAL_SPS == 7
NAL_PPS == 8
START_CODE == <<0, 0, 0, 1>>

\* The low five bits of the first byte.
NalType(unit) == unit[1] % 32

IsParameterSet(unit) == NalType(unit) \in {NAL_SPS, NAL_PPS}

\* A NAL unit is not empty, does not end with a zero byte and has no start code in it: the
\* standard escapes it (external). Its length fits the prefix.
IsUnit(unit) ==
    /\ unit \in Seq(0..255) /\ Len(unit) > 0 /\ Len(unit) \div 65536 < 65536
    /\ unit[Len(unit)] # 0
    /\ \A i \in 1..(Len(unit) - 2) : ~(unit[i] = 0 /\ unit[i + 1] = 0 /\ unit[i + 2] = 1)

ASSUME StreamAssumption ==
    /\ \A slices \in Slices :
         /\ slices \in Seq(Seq(0..255))
         /\ \A i \in 1..Len(slices) : IsUnit(slices[i]) /\ ~IsParameterSet(slices[i])
    /\ \A pair \in SetPairs :
         /\ pair \in Seq(0..255) \X Seq(0..255) /\ IsUnit(pair[1]) /\ IsUnit(pair[2])
         /\ NalType(pair[1]) = NAL_SPS /\ NalType(pair[2]) = NAL_PPS
    /\ NotAvcc \notin Seq(Nat) /\ NoAccess \notin Seq(Nat)
    /\ NoSet \notin Seq(0..255) /\ NoSet \notin SetPairs

VARIABLES
    format,              \* the parameter sets of the encoder's format description
    newEncoder,          \* its next frame is a keyframe
    emitted,             \* [slices, sets] of the frame under way
    access,              \* EncodedFrame::data, on its way
    sets,                \* [sps, pps] of the decoder
    session,             \* the sets its session was built from
    given                \* [result, avcc, by]: what became of the frame sent last, the data
                         \* a session got of it, and the sets of that session

streamVars == <<format, newEncoder, emitted, access, sets, session, given>>

LengthPrefix(n) == <<n \div 16777216, (n \div 65536) % 256, (n \div 256) % 256, n % 256>>

NotGiven(why) == [result |-> why, avcc |-> <<>>, by |-> NoSession]

\* Units as VideoToolbox wants and delivers them.
Avcc(units) == FlattenSeq([i \in DOMAIN units |-> LengthPrefix(Len(units[i])) \o units[i]])

-----------------------------------------------------------------------------
(* The encoder                                                             *)

WithStartCodes(units) == FlattenSeq([i \in DOMAIN units |-> START_CODE \o units[i]])

\* avcc_to_annex_b: what is made of the input from offset o on, and, of the whole of it,
\* the input itself when it does not parse.
AnnexBFrom(avcc) ==
    LET end == Len(avcc)
        size(o) == ((avcc[o + 1] * 256 + avcc[o + 2]) * 256 + avcc[o + 3]) * 256 + avcc[o + 4]
        from[o \in 0..end] ==
            IF o = end THEN <<>>
            ELSE IF o + 4 > end THEN NotAvcc
            ELSE IF size(o) = 0 \/ o + 4 + size(o) > end THEN NotAvcc
            ELSE LET next == o + 4 + size(o)
                 IN  IF from[next] = NotAvcc THEN NotAvcc
                     ELSE START_CODE \o SubSeq(avcc, o + 5, next) \o from[next]
    IN  from
AvccToAnnexB(avcc) ==
    LET made == AnnexBFrom(avcc)[0] IN IF made = NotAvcc THEN avcc ELSE made

\* The pipeline replaces the encoder, with other parameter sets or the same.
NewFormat ==
    /\ format' \in SetPairs
    /\ newEncoder' = TRUE
    /\ UNCHANGED <<emitted, access, sets, session, given>>

\* output_callback: the sets, if they can be had, are prepended to a keyframe, and a
\* keyframe may be asked for at any time.
EncodeAccess ==
    /\ access = NoAccess
    /\ \E slices \in Slices, forced, extracted \in BOOLEAN :
         LET key == newEncoder \/ forced
             data == AvccToAnnexB(Avcc(slices))
         IN  /\ access' = IF key /\ extracted THEN WithStartCodes(format) \o data ELSE data
             /\ emitted' = [slices |-> slices, sets |-> IF key /\ extracted THEN format ELSE NoSet]
    /\ newEncoder' = FALSE
    /\ given' = NotGiven("pending")
    /\ UNCHANGED <<format, sets, session>>

LoseAccess ==
    /\ access # NoAccess
    /\ access' = NoAccess
    /\ UNCHANGED <<format, newEncoder, emitted, sets, session, given>>

-----------------------------------------------------------------------------
(* The decoder                                                             *)

\* Whether a start code is at position i, and how long it is.
CodeAt(data, i) ==
    IF data[i] = 0 /\ data[i + 1] = 0 /\ data[i + 2] = 1 THEN 3
    ELSE IF i + 3 <= Len(data) /\ SubSeq(data, i, i + 3) = START_CODE THEN 4
    ELSE 0

\* split_annex_b: the scan from left to right that collects the start codes, from
\* position i on, and what is between them, if there is anything.
CodesFrom(data) ==
    LET starts[i \in 1..(Len(data) + 4)] ==
            IF i + 2 > Len(data) THEN <<>>
            ELSE IF CodeAt(data, i) = 0 THEN starts[i + 1]
            ELSE <<<<i, CodeAt(data, i)>>>> \o starts[i + CodeAt(data, i)]
    IN  starts

\* The elements of a sequence at some positions, in its order.
Kept(s, at) == LET list == Ascending(at) IN [k \in 1..Cardinality(at) |-> s[list[k]]]

Between(data, codes) ==
    [n \in 1..Len(codes) |->
        SubSeq(data, codes[n][1] + codes[n][2],
               IF n = Len(codes) THEN Len(data) ELSE codes[n + 1][1] - 1)]

SplitAnnexB(data) ==
    LET units == Between(data, CodesFrom(data)[1])
    IN  Kept(units, {n \in DOMAIN units : units[n] # <<>>})

\* annex_b_to_avcc: without the parameter sets.
AnnexBToAvcc(data) ==
    LET units == SplitAnnexB(data)
    IN  Avcc(Kept(units, {n \in DOMAIN units : ~IsParameterSet(units[n])}))

HasParameterSets(data) ==
    LET units == SplitAnnexB(data)
    IN  {NAL_SPS, NAL_PPS} \subseteq {NalType(units[n]) : n \in DOMAIN units}

\* absorb_parameter_sets: the last one of each kind.
Absorbed(data) ==
    LET units == SplitAnnexB(data)
        of(type, old) == LET found == {n \in DOMAIN units : NalType(units[n]) = type}
                         IN  IF found = {} THEN old ELSE units[CHOOSE n \in found : \A m \in found : m <= n]
    IN  [sps |-> of(NAL_SPS, sets.sps), pps |-> of(NAL_PPS, sets.pps)]

Forgotten == [sps |-> NoSet, pps |-> NoSet]

\* make_sample_buffer and decode_frame: the sample carries the format of the session.
Give(data) ==
    given' = [result |-> "Ok", avcc |-> AnnexBToAvcc(data), by |-> session']

\* VideoToolboxDecoder::decode. Sets that differ drop the session, and a session is built
\* from what is known. When that fails, the sets stay for the next frame to try
\* (MalformedBitstream, recoverable) or the viewer resets the decoder (Unavailable).
DecodeAccess ==
    /\ access # NoAccess
    /\ access' = NoAccess
    /\ LET now == Absorbed(access)
           kept == IF now # sets THEN NoSession ELSE session
       IN  IF kept # NoSession
             THEN sets' = now /\ session' = kept /\ Give(access)
           ELSE IF (~HasParameterSets(access) /\ now.sps = NoSet) \/ NoSet \in {now.sps, now.pps}
             THEN sets' = now /\ session' = NoSession /\ given' = NotGiven("AwaitingParameterSets")
           ELSE \/ sets' = now /\ session' = <<now.sps, now.pps>> /\ Give(access)
                \/ sets' = now /\ session' = NoSession /\ given' = NotGiven("MalformedBitstream")
                \/ sets' = Forgotten /\ session' = NoSession /\ given' = NotGiven("Unavailable")
    /\ UNCHANGED <<format, newEncoder, emitted>>

\* VideoToolboxDecoder::reset, after an error of the session.
ResetDecoder ==
    /\ session # NoSession
    /\ sets' = Forgotten /\ session' = NoSession
    /\ UNCHANGED <<format, newEncoder, emitted, access, given>>

StreamInit ==
    /\ format \in SetPairs /\ newEncoder = TRUE
    /\ emitted = [slices |-> <<>>, sets |-> NoSet] /\ access = NoAccess
    /\ sets = Forgotten /\ session = NoSession /\ given = NotGiven("pending")

StreamNext == NewFormat \/ EncodeAccess \/ LoseAccess \/ DecodeAccess \/ ResetDecoder

StreamSpec == StreamInit /\ [][StreamNext]_streamVars

-----------------------------------------------------------------------------

\* A frame that reaches the session reaches it as the encoder made it: the slices, all of
\* them, in order and byte for byte, without the parameter sets (annex_b_to_avcc after
\* avcc_to_annex_b). A frame that carried parameter sets is decoded by a session built
\* from these, whatever came before it, was lost, or was reset, and is not told to wait
\* for them.
SlicesArrive ==
    /\ given.result = "Ok" => given.avcc = Avcc(emitted.slices)
    /\ emitted.sets # NoSet =>
         /\ given.result # "AwaitingParameterSets"
         /\ given.result = "Ok" => given.by = emitted.sets
=============================================================================
