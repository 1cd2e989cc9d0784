----------------------------- MODULE MCInjector -----------------------------
(* Small instances of Injector. Key 1 is an ordinary key, key 2 one without  *)
(* a code on this platform, key 3 a usage the table does not know, and keys  *)
(* 4 and 5 are modifiers; the policy blocks modifier 4 with key 1.           *)
EXTENDS Injector

MCBlocked == {<<{4} \cap Mods, 1>>}
=============================================================================
