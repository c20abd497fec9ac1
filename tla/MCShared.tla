------------------------------ MODULE MCShared ------------------------------
(***************************************************************************)
(* The three leaf parts that many tasks share, checked in one run: the     *)
(* HTTP client, the pacing bucket and the durable file.  They have no      *)
(* state in common and nothing passes between them, so a behaviour moves   *)
(* one of them and leaves the others in their initial state.               *)
(***************************************************************************)
EXTENDS PoliteClient, TokenBucket, DurableFile

VARIABLE part   \* the one that moves

sharedVars == <<vars, bucketVars, fileVars, part>>

MCInit == Init /\ BucketInit /\ FileInit /\ part \in {"client", "bucket", "file"}

ClientMoves == part = "client" /\ Next /\ UNCHANGED <<bucketVars, fileVars, part>>
BucketMoves == part = "bucket" /\ BucketNext /\ UNCHANGED <<vars, fileVars, part>>
FileMoves   == part = "file" /\ FileNext /\ UNCHANGED <<vars, bucketVars, part>>

\* The fairness is the client's, the only one of the three with a liveness property.
\* It asks the client to move, so that of the other two it admits the finite beginnings
\* only: enough for their properties, which are safety.
MCSpec == /\ MCInit
          /\ [][ClientMoves \/ BucketMoves \/ FileMoves]_sharedVars
          /\ ClientFairness
=============================================================================
