------------------------------- MODULE KeyFile -------------------------------
(***************************************************************************)
(* The identity file of an agent (rda-crypto/keystore.rs) and the          *)
(* processes that use it: `rda-host serve`, and `rda-host id`, which goes  *)
(* through the same load_or_create.  A process may crash, or meet an error *)
(* of the file system, between any two calls.                              *)
(*                                                                         *)
(* The file is its mode and two lines: the magic and the key.  The lines   *)
(* have the same length whoever writes them, so that two processes that    *)
(* write at once write to the same places.                                 *)
(***************************************************************************)
EXTENDS Naturals

CONSTANTS
    Processes,
    MaxKeys,             \* bound: identities that are generated
    NoKey

ASSUME KeyFileAssumption == MaxKeys \in Nat /\ NoKey \notin Nat

VARIABLES
    there,               \* the file exists
    private,             \* its mode is 0600 or narrower
    magic, stored,       \* its lines
    at,                  \* where each process is
    identity,            \* the identity each process has
    lastError,           \* the error each process last ended with
    generated,           \* how many identities were generated
    announced,           \* history: the identities processes have run with
    raced                \* history: two processes found no file at the same time

fileVars == <<there, private, magic, stored>>
keyVars == <<there, private, magic, stored, at, identity, lastError, generated, announced, raced>>

KeyInit ==
    /\ there = FALSE /\ private = TRUE /\ magic = FALSE /\ stored = NoKey
    /\ at = [p \in Processes |-> "off"]
    /\ identity = [p \in Processes |-> NoKey]
    /\ lastError = [p \in Processes |-> "none"]
    /\ generated = 0 /\ announced = {} /\ raced = FALSE

Storing(p) == at[p] \in {"create", "magic", "key"}

Runs(p, key) ==
    /\ at' = [at EXCEPT ![p] = "running"]
    /\ identity' = [identity EXCEPT ![p] = key]
    /\ announced' = announced \cup {key}

Ends(p, error) ==
    /\ at' = [at EXCEPT ![p] = "off"]
    /\ identity' = [identity EXCEPT ![p] = NoKey]
    /\ lastError' = [lastError EXCEPT ![p] = error]

\* Mutant: a file that cannot be used is taken for one that is not there.
Usable == there /\ private /\ magic /\ stored # NoKey

\* load() finds a file: only an absent one is None.
Found == there

\* load_or_create, when load gives an identity.
LoadStored(p) ==
    /\ at[p] = "off" /\ Found
    /\ private /\ magic /\ stored # NoKey
    /\ Runs(p, stored)
    /\ UNCHANGED <<there, private, magic, stored, lastError, generated, raced>>

\* load fails: wider permissions, or a file that is not (yet) complete.
LoadFails(p) ==
    /\ at[p] = "off" /\ Found
    /\ \/ ~private /\ Ends(p, "Permissions")
       \/ private /\ ~(magic /\ stored # NoKey) /\ Ends(p, "BadFormat")
    /\ UNCHANGED <<there, private, magic, stored, generated, announced, raced>>

\* load gives None, and an identity is generated.
Generate(p) ==
    /\ at[p] = "off" /\ ~Found
    /\ generated < MaxKeys
    /\ generated' = generated + 1
    /\ identity' = [identity EXCEPT ![p] = generated']
    /\ at' = [at EXCEPT ![p] = "create"]
    /\ raced' = (raced \/ \E q \in Processes \ {p} : Storing(q))
    /\ UNCHANGED <<there, private, magic, stored, lastError, announced>>

\* create_private: the mode holds for a file that is created by the call.
CreatePrivate(p) ==
    /\ at[p] = "create"
    /\ at' = [at EXCEPT ![p] = "magic"]
    /\ there' = TRUE
    /\ private' = (there => private)
    /\ magic' = FALSE /\ stored' = NoKey
    /\ UNCHANGED <<identity, lastError, generated, announced, raced>>

WriteMagic(p) ==
    /\ at[p] = "magic"
    /\ at' = [at EXCEPT ![p] = "key"]
    /\ magic' = TRUE
    /\ UNCHANGED <<there, private, stored, identity, lastError, generated, announced, raced>>

\* The line with the key; the comment after it and the flush change nothing.
WriteKey(p) ==
    /\ at[p] = "key"
    /\ stored' = identity[p]
    /\ Runs(p, identity[p])
    /\ UNCHANGED <<there, private, magic, lastError, generated, raced>>

\* An error of the file system on the way ends the process.
StoreFails(p) ==
    /\ Storing(p)
    /\ Ends(p, "Io")
    /\ UNCHANGED <<there, private, magic, stored, generated, announced, raced>>

\* A process that runs stops; one that stores crashes.
Stop(p) ==
    /\ at[p] # "off"
    /\ at' = [at EXCEPT ![p] = "off"]
    /\ identity' = [identity EXCEPT ![p] = NoKey]
    /\ UNCHANGED <<there, private, magic, stored, lastError, generated, announced, raced>>

\* Somebody changes the mode of the file: a restored backup, or the chmod 600 that the
\* error asks for.
ChangeMode ==
    /\ there
    /\ private' = ~private
    /\ UNCHANGED <<there, magic, stored, at, identity, lastError, generated, announced, raced>>

KeyNext ==
    \/ \E p \in Processes :
         \/ LoadStored(p) \/ LoadFails(p) \/ Generate(p)
         \/ CreatePrivate(p) \/ WriteMagic(p) \/ WriteKey(p) \/ StoreFails(p) \/ Stop(p)
    \/ ChangeMode

KeySpec == KeyInit /\ [][KeyNext]_keyVars

-----------------------------------------------------------------------------

\* The ranges of the file and of what the processes know.
KeyTypeOK ==
    /\ there \in BOOLEAN /\ private \in BOOLEAN /\ magic \in BOOLEAN
    /\ stored \in Nat \cup {NoKey}
    /\ at \in [Processes -> {"off", "create", "magic", "key", "running"}]
    /\ identity \in [Processes -> Nat \cup {NoKey}]
    /\ lastError \in [Processes -> {"none", "Permissions", "BadFormat", "Io"}]
    /\ generated \in Nat /\ announced \in SUBSET Nat /\ raced \in BOOLEAN

\* The address of a machine survives restarts: all the processes that ever ran on this
\* file had the identity it holds, however the first runs crashed or failed and whatever
\* became of its mode. The exception is two first runs at the same time.
AddressSurvives ==
    raced \/ \A k \in announced : there /\ magic /\ k = stored
=============================================================================
