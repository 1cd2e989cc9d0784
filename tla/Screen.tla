------------------------------- MODULE Screen -------------------------------
(***************************************************************************)
(* The picture on its way from the host's screen to the viewer's: the      *)
(* pixels are converted and copied, the encoder's bitstream is repacked    *)
(* for the wire and for the decoder, and the viewer's window scales the    *)
(* picture and maps its pointer back. The codec between pixels and         *)
(* bitstream is not modelled, so the three parts share no state, and the   *)
(* whole is their conjunction.                                             *)
(***************************************************************************)
EXTENDS Planar, AnnexB, Picture

ScreenSpec == PlanarSpec /\ StreamSpec /\ PictureSpec

\* What the viewer sees is the host's screen: the colours and the places of the pixels
\* survive the conversion and the copies (bgra_to_planar, copy_planes, from_decoded), the
\* decoder gets the slices the encoder made, with the parameter sets it had
\* (avcc_to_annex_b, split_annex_b, absorb_parameter_sets), scaling crops nothing, and the
\* pointer goes to what is under it (scale_bgra, map_to_remote, denormalise).
ScreenIsShown == PlanesAreTrue /\ SlicesArrive /\ PictureIsTrue
=============================================================================
