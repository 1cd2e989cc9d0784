----------------------------- MODULE MCInputPath -----------------------------
(* The viewer reports one ordinary key, 1, and one modifier, 4; the policy    *)
(* may block the chord.                                                       *)
EXTENDS InputPath

MCBlocked == {<<{4} \cap Mods, 1>>}
MCGestures == {{}, {"move"}, {"click", "scroll"}}
=============================================================================
