---------------------------- MODULE MCDiscogsRun ----------------------------
(* TLC instance of DiscogsRun: two files, the published byte-image and a    *)
(* wrong one.                                                               *)
EXTENDS DiscogsRun, TLC

CONSTANTS f1, f2, good, bad

MCFile == {f1, f2}
MCContent == {good, bad}
MCSize == (good :> 2) @@ (bad :> 1)
=============================================================================
