--------------------------- MODULE MCSignalServer ---------------------------
(* A host that reconnects (connections 1 and 2), its controller and a third *)
(* device that belongs to no session of theirs.                             *)
EXTENDS SignalServer

CONSTANTS aHost, aController, aStranger

MCDeviceOf == [c \in Conns |-> IF c <= 2 THEN aHost ELSE IF c = 3 THEN aController ELSE aStranger]
=============================================================================
