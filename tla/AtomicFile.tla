----------------------------- MODULE AtomicFile -----------------------------
(***************************************************************************)
(* What saving a marker promises to the rest of the system: the file has   *)
(* one whole version at any time, a save replaces it in one step or not at *)
(* all, and a power loss brings back one of the versions that are not yet  *)
(* superseded for good, never a piece of one.                              *)
(***************************************************************************)
EXTENDS Naturals

CONSTANT Version    \* versions of the file; 0 stands for no file

VARIABLES value,    \* what a reader sees
          kept      \* what a power loss may bring back

fileVars == <<value, kept>>

Init == value = 0 /\ kept = {0}

Replace == \E v \in Version : value' = v /\ kept' = kept \cup {v}

Settle == kept' = {value} /\ UNCHANGED value

PowerLoss == value' \in kept /\ kept' = {value'}

Next == Replace \/ Settle \/ PowerLoss

Spec == Init /\ [][Next]_fileVars
=============================================================================
