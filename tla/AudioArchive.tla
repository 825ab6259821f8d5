---------------------------- MODULE AudioArchive ----------------------------
(***************************************************************************)
(* What the chunk assembler promises of the audio it is given, without     *)
(* windows, numbers, keys or stores (chunk-assembler.ts:1-29): a frame is  *)
(* held in memory until it is stored, reported lost with an error, or gone *)
(* with the process.  It leaves the memory once, together with the frames  *)
(* next to it, and what is stored stays stored.                            *)
(*                                                                         *)
(* The frames are numbered in the order in which they were accepted.       *)
(***************************************************************************)
EXTENDS Integers

VARIABLES
    accepted, \* how many frames were accepted
    held,     \* the frames in memory: buffered, or on their way to a store
    stored,   \* the frames of chunks with metadata
    reported  \* the frames of chunks named in an error

vars == <<accepted, held, stored, reported>>

Init ==
    /\ accepted = 0
    /\ held = {}
    /\ stored = {}
    /\ reported = {}

\* A frame is taken in.
Accept ==
    /\ accepted' = accepted + 1
    /\ held' = held \cup {accepted}
    /\ UNCHANGED <<stored, reported>>

\* A run of consecutive frames gets its metadata.
Store(stretch) ==
    /\ held' = held \ stretch
    /\ stored' = stored \cup stretch
    /\ UNCHANGED <<accepted, reported>>

\* An error names the chunk; its metadata may have been written all the same.
Report(stretch) ==
    /\ held' = held \ stretch
    /\ stored' \in {stored, stored \cup stretch}
    /\ reported' = reported \cup stretch
    /\ UNCHANGED accepted

\* The process stops: what it held is lost without an error.
Stop ==
    /\ held' = {}
    /\ UNCHANGED <<accepted, stored, reported>>

Next ==
    \/ Accept
    \/ \E first, last \in held :
          /\ first <= last /\ first..last \subseteq held
          /\ Store(first..last) \/ Report(first..last)
    \/ Stop

Spec == Init /\ [][Next]_vars
=============================================================================
