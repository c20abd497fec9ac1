--------------------------- MODULE Listing_proofs ---------------------------
(***************************************************************************)
(* A run takes one version, the newest complete one it could see, with all *)
(* of its files and the sums published for them: for every set of versions *)
(* and of data types, and whatever the site publishes while the run reads  *)
(* it.                                                                     *)
(***************************************************************************)
EXTENDS Listing, FunctionTheorems, FiniteSetTheorems, TLAPS

-----------------------------------------------------------------------------
(* The newest of some versions.                                            *)

\* A finite set of naturals has a largest member: a smallest set without one would
\* still have none when one of its members is taken away.
LEMMA LargestExists ==
  ASSUME NEW A \in SUBSET Nat, IsFiniteSet(A), A # {}
  PROVE  \E v \in A : \A w \in A : w <= v
<1> DEFINE Bad == {S \in SUBSET A : S # {} /\ ~ \E v \in S : \A w \in S : w <= v}
<1> SUFFICES ASSUME Bad # {} PROVE FALSE
  <2>1. A \in SUBSET A
    OBVIOUS
  <2>2. QED
    BY <2>1
<1>1. \A S \in SUBSET A : IsFiniteSet(S)
  BY FS_Subset
<1>2. IsWellFoundedOn(StrictSubsetOrdering(A), FiniteSubsetsOf(A))
  BY FS_StrictSubsetOrderingWellFounded
<1>3. Bad \subseteq FiniteSubsetsOf(A)
  BY <1>1 DEF FiniteSubsetsOf
<1>4. PICK S \in Bad : \A T \in Bad : <<T, S>> \notin StrictSubsetOrdering(A)
  BY <1>2, <1>3, WFMin
<1>5. PICK v \in S : TRUE
  OBVIOUS
<1> DEFINE T == S \ {v}
<1>6. T \subseteq A /\ T \subseteq S /\ T # S
  OBVIOUS
<1>7. T # {} => \E u \in T : \A w \in T : w <= u
  <2>1. <<T, S>> \in StrictSubsetOrdering(A)
    BY <1>6 DEF StrictSubsetOrdering
  <2>2. T \notin Bad
    BY <1>4, <2>1
  <2>3. QED
    BY <1>6, <2>2
<1>8. CASE T = {}
  <2>1. \A w \in S : w = v /\ w \in Nat
    BY <1>8
  <2>2. QED
    BY <1>5, <2>1
<1>9. CASE T # {}
  <2>1. PICK u \in T : \A w \in T : w <= u
    BY <1>7, <1>9
  <2>2. v \in Nat /\ u \in Nat /\ \A w \in S : w \in Nat /\ (w = v \/ w \in T)
    OBVIOUS
  <2>3. CASE u <= v
    <3>1. \A w \in S : w <= v
      BY <2>1, <2>2, <2>3
    <3>2. QED
      BY <3>1
  <2>4. CASE v <= u
    <3>1. \A w \in S : w <= u
      BY <2>1, <2>2, <2>4
    <3>2. QED
      BY <3>1
  <2>5. QED
    BY <2>2, <2>3, <2>4
<1>10. QED
  BY <1>8, <1>9

LEMMA NewestOf ==
  ASSUME NEW A \in SUBSET Versions
  PROVE  /\ A = {} => Newest(A) = NoVersion
         /\ A # {} => Newest(A) \in A /\ \A w \in A : w <= Newest(A)
<1>1. A \in SUBSET Nat /\ IsFiniteSet(A)
  BY VersionsAreDates, FS_Subset
<1>2. A # {} => \E v \in A : \A w \in A : w <= v
  BY <1>1, LargestExists
<1>3. QED
  BY <1>2 DEF Newest

\* A set of files is complete when it is all there.
LEMMA CompleteSet ==
  ASSUME NEW names \in SUBSET Names, NEW v \in Versions
  PROVE  /\ IsComplete(v, names) <=> [version : {v}, kind : Kinds] \subseteq names
         /\ IsComplete(v, names) => DataFiles(FilesOf(v, names)) = [version : {v}, kind : DataTypes]
<1> DEFINE all  == [version : {v}, kind : Kinds]
           data == [version : {v}, kind : DataTypes]
           name(k) == [version |-> v, kind |-> k]
<1>1. IsFiniteSet(Kinds) /\ IsFiniteSet(DataTypes) /\ DataTypes \subseteq Kinds
  BY KindsDiffer, FS_AddElement DEF Kinds
<1>2. ASSUME NEW K, IsFiniteSet(K)
      PROVE  /\ IsFiniteSet([version : {v}, kind : K])
             /\ Cardinality([version : {v}, kind : K]) = Cardinality(K)
  <2> DEFINE f == [k \in K |-> name(k)]
  <2>1. f \in [K -> [version : {v}, kind : K]]
    OBVIOUS
  <2>2. \A a, b \in K : f[a] = f[b] => a = b
    OBVIOUS
  <2>3. \A n \in [version : {v}, kind : K] : \E k \in K : f[k] = n
    OBVIOUS
  <2>4. f \in Bijection(K, [version : {v}, kind : K])
    BY <2>1, <2>2, <2>3, Fun_IsBij
  <2>5. QED
    BY <1>2, <2>4, FS_Bijection DEF ExistsBijection
<1>3. FilesOf(v, names) \subseteq all
  BY DEF FilesOf, Names
<1>4. DataFiles(FilesOf(v, names)) \subseteq data
  BY DEF FilesOf, DataFiles, Names
<1>5. ASSUME IsComplete(v, names) PROVE FilesOf(v, names) = all /\ DataFiles(FilesOf(v, names)) = data
  <2>1. /\ IsFiniteSet(all) /\ Cardinality(FilesOf(v, names)) = Cardinality(all)
        /\ IsFiniteSet(data) /\ Cardinality(DataFiles(FilesOf(v, names))) = Cardinality(data)
    BY <1>1, <1>2, <1>5 DEF IsComplete
  <2> HIDE DEF all, data
  <2>2. all = FilesOf(v, names)
    BY <1>3, <2>1, FS_Subset
  <2>3. data = DataFiles(FilesOf(v, names))
    BY <1>4, <2>1, FS_Subset
  <2>4. QED
    BY <2>2, <2>3
<1>6. ASSUME all \subseteq names PROVE IsComplete(v, names)
  <2>1. FilesOf(v, names) = all
    BY <1>3, <1>6 DEF FilesOf
  <2>2. DataFiles(all) = data
    BY <1>1 DEF DataFiles
  <2>3. QED
    BY <1>1, <1>2, <2>1, <2>2 DEF IsComplete
<1>7. QED
  BY <1>5, <1>6 DEF FilesOf

\* What Latest returns is the data files of the newest version that is complete.
LEMMA LatestIs ==
  ASSUME NEW names \in SUBSET Names, Latest(names) # {}
  PROVE  LET v == VersionOf(Latest(names))
         IN  /\ v \in Versions /\ Latest(names) = [version : {v}, kind : DataTypes]
             /\ \A w \in Versions : [version : {w}, kind : Kinds] \subseteq names => w <= v
<1> DEFINE complete == CompleteIn(names)
           u == Newest(complete)
<1>1. complete \in SUBSET Versions
  BY DEF CompleteIn
<1>2. complete # {}
  <2> SUFFICES ASSUME complete = {} PROVE FALSE
    OBVIOUS
  <2>1. u = 0 /\ 0 \notin Versions
    BY <1>1, NewestOf, VersionsAreDates DEF NoVersion
  <2>2. FilesOf(0, names) = {}
    BY <2>1 DEF FilesOf, Names
  <2>3. QED
    BY <2>1, <2>2 DEF Latest, DataFiles
<1>3. u \in Versions /\ IsComplete(u, names) /\ \A w \in complete : w <= u
  BY <1>1, <1>2, NewestOf DEF CompleteIn
<1> HIDE DEF u, complete
<1>4. Latest(names) = [version : {u}, kind : DataTypes]
  BY <1>3, CompleteSet DEF Latest, u, complete
<1>5. VersionOf(Latest(names)) = u
  <2>1. {n.version : n \in Latest(names)} = {u}
    BY <1>4
  <2>2. Newest({u}) = u
    BY <1>3, NewestOf
  <2>3. QED
    BY <2>1, <2>2 DEF VersionOf
<1>6. \A w \in Versions : [version : {w}, kind : Kinds] \subseteq names => w \in complete
  BY CompleteSet DEF CompleteIn, complete
<1>7. QED
  BY <1>3, <1>4, <1>5, <1>6

-----------------------------------------------------------------------------
(* The run.                                                                *)

All(v) == [version : {v}, kind : Kinds]

\* Where the run stands and what it knows: the version it has chosen stays the one
\* its list gives, as the list is kept for the second call.
RunInv ==
  /\ published \subseteq Names /\ ids \subseteq published
  /\ pc \in {"idle", "list", "years", "choose", "fetch", "process"}
  /\ pc \in {"idle", "years"} => caller = "version"
  /\ \/ /\ caller = "version" /\ version = NoVersion /\ pc \notin {"fetch", "process"}
        /\ pc = "list" => cached = {}
     \/ /\ caller = "download" /\ cached # {}
        /\ Latest(ids) # {} /\ version = VersionOf(Latest(ids))
  /\ pc \in {"idle", "years"} => cached = {}
  /\ pc = "choose" => cached # {}
  /\ pc \in {"fetch", "process"} => checksums = [version : {version}, kind : summed]
  /\ pc \notin {"fetch", "process"} => summed = {}
  /\ pc = "process" => files = Latest(ids) /\ compared = files \cap checksums

\* The newest set that was complete when the index was read is on a page still to be
\* read, or it is in the list; unless a page was not read.
NewestInv ==
  /\ newest # NoVersion => newest \in Versions /\ All(newest) \subseteq published
  /\ pc = "idle" \/ (pc = "list" /\ caller = "version") => newest = NoVersion
  /\ newest # NoVersion /\ readAll =>
       (pc = "years" /\ YearOf(newest) \in dirs) \/ All(newest) \subseteq ids

ListingInv == RunInv /\ NewestInv

LEMMA ListingInit == Init => ListingInv
BY DEF Init, ListingInv, RunInv, NewestInv

LEMMA RunEnds ==
  ASSUME RunInv, EndRun, UNCHANGED published
  PROVE  ListingInv'
BY DEF EndRun, ListingInv, RunInv, NewestInv

LEMMA PublishKeeps ==
  ASSUME ListingInv, NEW n \in Names, Publish(n)
  PROVE  ListingInv'
<1>1. /\ published' = published \cup {n}
      /\ UNCHANGED <<pc, caller, dirs, ids, cached, version, checksums, files, compared>>
      /\ UNCHANGED <<newest, readAll, summed>>
  BY DEF Publish, run, history
<1>2. RunInv'
  BY <1>1 DEF ListingInv, RunInv
<1>3. NewestInv'
  BY <1>1 DEF ListingInv, NewestInv
<1>4. QED
  BY <1>2, <1>3 DEF ListingInv

LEMMA IndexKeeps ==
  ASSUME ListingInv, FetchIndex
  PROVE  ListingInv'
<1>1. /\ pc = "list" /\ caller = "version" /\ version = NoVersion /\ cached = {}
      /\ published \subseteq Names
  BY DEF ListingInv, RunInv, FetchIndex
<1>2. /\ dirs' = YearsToRead /\ ids' = {} /\ pc' = "years"
      /\ newest' = Newest(CompleteIn(InYears(published, YearsToRead)))
      /\ UNCHANGED <<published, caller, cached, version, checksums, files, compared, readAll, summed>>
  BY <1>1 DEF FetchIndex
<1>3. RunInv'
  BY <1>1, <1>2 DEF ListingInv, RunInv
<1> DEFINE offered == InYears(published, YearsToRead)
<1>4. ASSUME newest' # NoVersion
      PROVE  /\ newest' \in Versions /\ All(newest') \subseteq published
             /\ YearOf(newest') \in YearsToRead
  <2>1. offered \in SUBSET Names /\ CompleteIn(offered) \in SUBSET Versions
    BY <1>1 DEF InYears, CompleteIn
  <2>2. newest' \in CompleteIn(offered)
    BY <1>2, <1>4, <2>1, NewestOf
  <2> PICK v : v = newest'
    OBVIOUS
  <2>3. v \in Versions /\ [version : {v}, kind : Kinds] \subseteq offered
    BY <2>1, <2>2, CompleteSet DEF CompleteIn
  <2>4. [version |-> v, kind |-> CHECKSUM] \in offered
    BY <2>3 DEF Kinds
  <2>5. QED
    BY <2>3, <2>4 DEF InYears, All
<1>5. NewestInv'
  BY <1>1, <1>2, <1>4 DEF NewestInv
<1>6. QED
  BY <1>3, <1>5 DEF ListingInv

LEMMA YearKeeps ==
  ASSUME ListingInv, NEW y, ReadYear(y)
  PROVE  ListingInv'
<1>1. /\ pc = "years" /\ y \in dirs /\ dirs' = dirs \ {y}
      /\ ids' = ids \cup InYears(published, {y})
      /\ UNCHANGED <<published, pc, caller, cached, version, checksums, files, compared>>
      /\ UNCHANGED <<newest, readAll, summed>>
  BY DEF ReadYear, history
<1>2. RunInv'
  BY <1>1 DEF ListingInv, RunInv, InYears
<1>3. ASSUME newest # NoVersion, readAll, ~ (YearOf(newest) \in dirs')
      PROVE  All(newest) \subseteq ids'
  <2>1. CASE YearOf(newest) = y
    <3>1. \A n \in All(newest) : n \in published /\ n.version = newest
      BY <1>3 DEF ListingInv, NewestInv, All
    <3>2. QED
      BY <1>1, <2>1, <3>1 DEF InYears
  <2>2. CASE YearOf(newest) # y
    BY <1>1, <1>3, <2>2 DEF ListingInv, NewestInv
  <2>3. QED
    BY <2>1, <2>2
<1>4. NewestInv'
  BY <1>1, <1>3 DEF ListingInv, NewestInv
<1>5. QED
  BY <1>2, <1>4 DEF ListingInv

\* The steps after the list, and those that only move the run on.
LEMMA RestKeeps ==
  ASSUME ListingInv,
         \/ Begin \/ UseCache \/ YearFails \/ Listed \/ ChooseVersion
         \/ FetchChecksums \/ GoUnverified \/ FetchFiles
  PROVE  ListingInv'
<1>1. CASE Begin \/ UseCache
  <2>1. UNCHANGED <<published, caller, dirs, ids, cached, version, checksums, files, compared>>
        /\ UNCHANGED <<newest, readAll, summed>>
    BY <1>1 DEF Begin, UseCache, history
  <2>2. (pc = "idle" /\ pc' = "list") \/ (pc = "list" /\ pc' = "choose" /\ cached # {})
    BY <1>1 DEF Begin, UseCache
  <2>3. RunInv'
    BY <2>1, <2>2 DEF ListingInv, RunInv
  <2>4. NewestInv'
    BY <2>1, <2>2 DEF ListingInv, RunInv, NewestInv
  <2>5. QED
    BY <2>3, <2>4 DEF ListingInv
<1>2. CASE YearFails
  <2>1. /\ pc = "years" /\ readAll' = FALSE
        /\ UNCHANGED <<published, pc, caller, ids, cached, version, checksums, files, compared>>
        /\ UNCHANGED <<newest, summed>>
    BY <1>2 DEF YearFails
  <2>2. RunInv' /\ NewestInv'
    BY <2>1 DEF ListingInv, RunInv, NewestInv
  <2>3. QED
    BY <2>2 DEF ListingInv
<1>3. CASE Listed
  <2>1. /\ pc = "years" /\ dirs = {} /\ cached' # {} /\ pc' = "choose"
        /\ UNCHANGED <<published, caller, dirs, ids, version, checksums, files, compared>>
        /\ UNCHANGED <<newest, readAll, summed>>
    BY <1>3 DEF Listed, history
  <2>2. RunInv'
    BY <2>1 DEF ListingInv, RunInv
  <2>3. NewestInv'
    BY <2>1 DEF ListingInv, NewestInv
  <2>4. QED
    BY <2>2, <2>3 DEF ListingInv
<1>4. CASE ChooseVersion
  <2>1. /\ pc = "choose" /\ caller = "version" /\ Latest(ids) # {} /\ caller' = "download"
        /\ version' = VersionOf(Latest(ids)) /\ pc' = "list"
        /\ UNCHANGED <<published, dirs, ids, cached, checksums, files, compared>>
        /\ UNCHANGED <<newest, readAll, summed>>
    BY <1>4 DEF ChooseVersion, history
  <2>2. cached # {}
    BY <2>1 DEF ListingInv, RunInv
  <2>3. RunInv'
    BY <2>1, <2>2 DEF ListingInv, RunInv
  <2>4. NewestInv'
    BY <2>1 DEF ListingInv, NewestInv
  <2>5. QED
    BY <2>3, <2>4 DEF ListingInv
<1>5. CASE FetchChecksums \/ GoUnverified
  <2>1. /\ pc = "choose" /\ caller = "download" /\ pc' = "fetch"
        /\ UNCHANGED <<published, caller, dirs, ids, cached, version, files, compared>>
        /\ UNCHANGED <<newest, readAll>>
    BY <1>5 DEF FetchChecksums, GoUnverified, history
  <2>2. version = VersionOf(Latest(ids)) /\ summed = {}
    BY <2>1 DEF ListingInv, RunInv
  <2>3. checksums' = [version : {version}, kind : summed']
    <3>1. CASE GoUnverified
      <4>1. checksums' = {} /\ summed' = {}
        BY <2>2, <3>1 DEF GoUnverified, history
      <4>2. [version : {version}, kind : {}] = {}
        OBVIOUS
      <4>3. QED
        BY <4>1, <4>2
    <3>2. CASE FetchChecksums
      <4>1. \A entry \in ChecksumEntry(ids, Latest(ids)) : entry.version = version
        BY <2>2 DEF ChecksumEntry, FilesOf
      <4>2. QED
        BY <3>2, <4>1 DEF FetchChecksums
    <3>3. QED
      BY <1>5, <3>1, <3>2
  <2>4. RunInv'
    BY <2>1, <2>3 DEF ListingInv, RunInv
  <2>5. NewestInv'
    BY <2>1 DEF ListingInv, NewestInv
  <2>6. QED
    BY <2>4, <2>5 DEF ListingInv
<1>6. CASE FetchFiles
  <2>1. /\ pc = "fetch" /\ pc' = "process" /\ files' = Latest(ids)
        /\ compared' = Latest(ids) \cap checksums
        /\ UNCHANGED <<published, caller, dirs, ids, cached, version, checksums>>
        /\ UNCHANGED <<newest, readAll, summed>>
    BY <1>6 DEF FetchFiles, history
  <2>2. RunInv' /\ NewestInv'
    BY <2>1 DEF ListingInv, RunInv, NewestInv
  <2>3. QED
    BY <2>2 DEF ListingInv
<1>7. QED
  BY <1>1, <1>2, <1>3, <1>4, <1>5, <1>6

LEMMA ListingStep == ListingInv /\ [Next]_vars => ListingInv'
<1> SUFFICES ASSUME ListingInv, [Next]_vars PROVE ListingInv'
  OBVIOUS
<1>1. CASE IndexFails \/ NothingRead \/ NoCompleteSet \/ AlreadyProcessed \/ Process \/ RunFails
  <2>1. EndRun /\ UNCHANGED published
    BY <1>1 DEF IndexFails, NothingRead, NoCompleteSet, AlreadyProcessed, Process, RunFails
  <2>2. QED
    BY <2>1, RunEnds DEF ListingInv
<1>2. CASE UNCHANGED vars
  <2>1. /\ UNCHANGED <<published, pc, caller, dirs, ids, cached, version, checksums, files, compared>>
        /\ UNCHANGED <<newest, readAll, summed>>
    BY <1>2 DEF vars, run, history
  <2>2. RunInv' /\ NewestInv'
    BY <2>1 DEF ListingInv, RunInv, NewestInv
  <2>3. QED
    BY <2>2 DEF ListingInv
<1>3. QED
  BY <1>1, <1>2, PublishKeeps, IndexKeeps, YearKeeps, RestKeeps DEF Next

LEMMA ListingHolds == Spec => []ListingInv
<1>1. QED
  BY ListingInit, ListingStep, PTL DEF Spec

-----------------------------------------------------------------------------
(* What it means for the run.                                              *)

\* The files are all the data files of the version the marker is for, and no other's,
\* though the list is asked for twice while the site changes (downloader.rs:395-413).
THEOREM MarkerMatchesFiles == Spec => []MarkerIsForTheFiles
<1>1. ListingInv => MarkerIsForTheFiles
  BY LatestIs DEF ListingInv, RunInv, MarkerIsForTheFiles
<1>2. QED
  BY <1>1, ListingHolds, PTL

\* The sums a run has read are those of the version it fetches: the files compared with
\* one are those the list names, and a file it lacks is fetched without
\* (downloader.rs:155-158, 467-517).
THEOREM SumsMatchFiles == Spec => []SumsCoverTheFiles
<1>1. ListingInv => SumsCoverTheFiles
  <2> SUFFICES ASSUME ListingInv, pc = "process"
               PROVE  compared = {n \in files : n.kind \in summed}
    BY DEF SumsCoverTheFiles
  <2>1. /\ files = Latest(ids) /\ compared = files \cap [version : {version}, kind : summed]
        /\ ids \in SUBSET Names /\ Latest(ids) # {} /\ version = VersionOf(Latest(ids))
    BY DEF ListingInv, RunInv
  <2>2. files = [version : {version}, kind : DataTypes]
    BY <2>1, LatestIs
  <2>3. QED
    BY ONLY <2>1, <2>2
<1>2. QED
  BY <1>1, ListingHolds, PTL

\* A run that has read its year pages takes nothing older than the newest version that
\* was complete when it read the index (downloader.rs:415-465).
THEOREM NewestTaken == Spec => []NewestCompleteTaken
<1>1. ListingInv => NewestCompleteTaken
  <2> SUFFICES ASSUME ListingInv, version # NoVersion, readAll PROVE version >= newest
    BY DEF NewestCompleteTaken
  <2>1. /\ ids \in SUBSET Names /\ Latest(ids) # {} /\ version = VersionOf(Latest(ids)) /\ pc # "years"
    BY DEF ListingInv, RunInv
  <2>2. version \in Versions /\ version \in Nat
    BY <2>1, LatestIs, VersionsAreDates
  <2>3. CASE newest = NoVersion
    BY <2>2, <2>3 DEF NoVersion
  <2>4. CASE newest # NoVersion
    <3>1. newest \in Versions /\ newest \in Nat /\ [version : {newest}, kind : Kinds] \subseteq ids
      BY <2>1, <2>4, VersionsAreDates DEF ListingInv, NewestInv, All
    <3>2. newest <= version
      BY <2>1, <3>1, LatestIs
    <3>3. QED
      BY <2>2, <3>1, <3>2
  <2>5. QED
    BY <2>3, <2>4
<1>2. QED
  BY <1>1, ListingHolds, PTL
=============================================================================
