----------------------------- MODULE MCListing ------------------------------
(* TLC instance of Listing: three months in three years, of which the      *)
(* listing reads two.  The oldest month is on the site from the start: a   *)
(* state that Init reaches by publishing its files, and one in which the   *)
(* newer months have an older complete one to fall back on.                *)
EXTENDS Listing

CONSTANTS artists, labels

\* Two of the four data types: a set is complete with these files and CHECKSUM.
MCDataTypes == {artists, labels}

\* Versions 11, 21 and 31 stand for months of the years 1, 2 and 3.
MCYearOf(v) == v \div 10

FirstMonth == {n \in Names : n.version = 11}

MCInit ==
  /\ published = FirstMonth /\ done = {}
  /\ pc = "idle" /\ caller = "version" /\ dirs = {} /\ ids = {} /\ cached = {}
  /\ version = NoVersion /\ checksums = {} /\ files = {} /\ compared = {}
  /\ newest = NoVersion /\ readAll = TRUE /\ summed = {}

MCSpec == MCInit /\ [][Next]_vars /\ Fairness
=============================================================================
