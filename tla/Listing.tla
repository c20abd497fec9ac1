------------------------------ MODULE Listing ------------------------------
(***************************************************************************)
(* Which dump a run processes (downloader.rs 94-135 and 280-517, and the   *)
(* calls process_discogs_data makes of them).                              *)
(*                                                                         *)
(* Discogs publishes a version (a month) file by file while runs read the  *)
(* site: an index page with the year directories, then the pages of the    *)
(* two newest years, either of which may fail on its own.  A run asks for  *)
(* the list twice, once to choose the version its marker is for, once in   *)
(* the download phase to choose the files; each page is a snapshot.        *)
(*                                                                         *)
(* A file is named by its version and its kind, so a set of file names     *)
(* stands for the vector of links on a page, each link once.  What becomes *)
(* of the files is DiscogsRun's; here they are fetched and processed in    *)
(* one step each, which may fail.                                          *)
(***************************************************************************)
EXTENDS Naturals, FiniteSets

CONSTANTS Versions,   \* numbers that order as the dates YYYYMMDD do
          DataTypes,  \* artists, labels, masters, releases
          CHECKSUM,   \* the kind of the file that holds the published sums
          YearOf(_)   \* the year directory a version is listed in

ASSUME VersionsAreDates == Versions \subseteq Nat \ {0} /\ IsFiniteSet(Versions)
ASSUME KindsDiffer == IsFiniteSet(DataTypes) /\ CHECKSUM \notin DataTypes
ASSUME YearsFollowDates ==
  \A v, w \in Versions : YearOf(v) \in Nat /\ (v <= w => YearOf(v) <= YearOf(w))

Kinds == DataTypes \cup {CHECKSUM}
Names == [version : Versions, kind : Kinds]
NoVersion == 0
YearDirs == 2         \* years.iter().take(2)

VARIABLES published,  \* the files the site offers
          pc,         \* where the run stands
          caller,     \* which of its two calls of list_s3_files is under way
          dirs,       \* year directories still to read, newest first
          ids,        \* the files of the pages read so far
          cached,     \* cached_files, a set of names in a set, or {} for None
          version,    \* the version the marker in use is for
          checksums,  \* published_checksums: the names it has a sum for
          files,      \* what the download phase fetched
          compared,   \* those whose bytes were compared with a published sum
          done,       \* versions whose marker says processing completed
          newest,     \* history: newest complete set when the index was read
          readAll,    \* history: every year page of this run was read
          summed      \* history: the kinds the CHECKSUM file read in this run has a sum for

run == <<pc, caller, dirs, ids, cached, version, checksums, files, compared>>
history == <<newest, readAll, summed>>
vars == <<published, run, done, history>>

Init ==
  /\ published = {} /\ done = {}
  /\ pc = "idle" /\ caller = "version" /\ dirs = {} /\ ids = {} /\ cached = {}
  /\ version = NoVersion /\ checksums = {} /\ files = {} /\ compared = {}
  /\ newest = NoVersion /\ readAll = TRUE /\ summed = {}

-----------------------------------------------------------------------------
(* get_latest_monthly_files and find_checksum_entry.                       *)

FilesOf(v, names) == {n \in names : n.version = v}
DataFiles(names) == {n \in names : n.kind \in DataTypes}

\* As many files as kinds, as many data files as data types.
IsComplete(v, names) ==
  /\ Cardinality(FilesOf(v, names)) = Cardinality(Kinds)
  /\ Cardinality(DataFiles(FilesOf(v, names))) = Cardinality(DataTypes)

Newest(vs) == IF vs = {} THEN NoVersion ELSE CHOOSE v \in vs : \A w \in vs : w <= v
CompleteIn(names) == {v \in Versions : IsComplete(v, names)}

\* Mutant: versions are tried from the oldest.
LatestAscending(names) ==
  LET complete == CompleteIn(names)
      v == IF complete = {} THEN NoVersion ELSE CHOOSE u \in complete : \A w \in complete : u <= w
  IN DataFiles(FilesOf(v, names))

\* Mutant: an incomplete version is not skipped, it ends the search.
LatestHasty(names) ==
  LET v == Newest({n.version : n \in names})
  IN IF IsComplete(v, names) THEN DataFiles(FilesOf(v, names)) ELSE {}

\* The data files of the newest complete version.
Latest(names) == DataFiles(FilesOf(Newest(CompleteIn(names)), names))

VersionOf(names) == Newest({n.version : n \in names})

\* Mutant: the first CHECKSUM entry of the list, whatever its version.
ChecksumEntryOfAny(names, data) == {n \in names : n.kind = CHECKSUM /\ \A m \in names : m.version >= n.version}

ChecksumEntry(names, data) == {n \in FilesOf(VersionOf(data), names) : n.kind = CHECKSUM}

-----------------------------------------------------------------------------
(* The site.                                                               *)

\* Files appear in any order; a month may stay incomplete when the next
\* begins, and is then left so.
Publish(n) ==
  /\ n \notin published
  /\ \A m \in published : m.version <= n.version
  /\ published' = published \cup {n}
  /\ UNCHANGED <<run, done, history>>

-----------------------------------------------------------------------------
(* One run.                                                                *)

\* A run that fails or has nothing to do; the next has a new Downloader.
EndRun ==
  /\ pc' = "idle" /\ caller' = "version" /\ dirs' = {} /\ ids' = {} /\ cached' = {}
  /\ version' = NoVersion /\ checksums' = {} /\ files' = {} /\ compared' = {}
  /\ newest' = NoVersion /\ readAll' = TRUE /\ summed' = {}

Begin ==
  /\ pc = "idle"
  /\ pc' = "list"
  /\ UNCHANGED <<published, caller, dirs, ids, cached, version, checksums, files, compared, done, history>>

UseCache ==
  /\ pc = "list" /\ cached # {}
  /\ pc' = "choose"
  /\ UNCHANGED <<published, caller, dirs, ids, cached, version, checksums, files, compared, done, history>>

YearsListed == {YearOf(n.version) : n \in published}
\* The newest ones: those with fewer than YearDirs newer.
YearsToRead == {y \in YearsListed : Cardinality({z \in YearsListed : z > y}) < YearDirs}

InYears(names, ys) == {n \in names : YearOf(n.version) \in ys}

FetchIndex ==
  /\ pc = "list" /\ cached = {} /\ YearsListed # {}
  /\ dirs' = YearsToRead
  /\ ids' = {}
  /\ pc' = "years"
  /\ newest' = IF caller = "version"
                 THEN Newest(CompleteIn(InYears(published, YearsToRead)))
                 ELSE newest
  /\ UNCHANGED <<published, caller, cached, version, checksums, files, compared, done, readAll, summed>>

\* The request fails, or the page has no year directory.
IndexFails ==
  /\ pc = "list" /\ cached = {}
  /\ EndRun
  /\ UNCHANGED <<published, done>>

\* The years are read from the newest on.
ReadYear(y) ==
  /\ pc = "years" /\ y \in dirs /\ y = Newest(dirs)
  /\ ids' = ids \cup InYears(published, {y})
  /\ dirs' = dirs \ {y}
  /\ UNCHANGED <<published, pc, caller, cached, version, checksums, files, compared, done, history>>

\* The request, its status or its body: the year is left out.
YearFails ==
  /\ pc = "years" /\ dirs # {}
  /\ dirs' = dirs \ {Newest(dirs)}
  /\ readAll' = FALSE
  /\ UNCHANGED <<published, pc, caller, ids, cached, version, checksums, files, compared, done, newest, summed>>

\* Mutant: the list is not kept, so that the second call reads the site again.
ListedUncached ==
  /\ pc = "years" /\ dirs = {} /\ ids # {}
  /\ pc' = "choose"
  /\ UNCHANGED <<published, caller, dirs, ids, cached, version, checksums, files, compared, done, history>>

Listed ==
  /\ pc = "years" /\ dirs = {} /\ ids # {}
  /\ cached' = {ids}
  /\ pc' = "choose"
  /\ UNCHANGED <<published, caller, dirs, ids, version, checksums, files, compared, done, history>>

NothingRead ==
  /\ pc = "years" /\ dirs = {} /\ ids = {}
  /\ EndRun
  /\ UNCHANGED <<published, done>>

\* Both callers end their run when no set is complete.
NoCompleteSet ==
  /\ pc = "choose" /\ Latest(ids) = {}
  /\ EndRun
  /\ UNCHANGED <<published, done>>

\* The marker of the version is loaded, or made anew under force_reprocess.
ChooseVersion ==
  /\ pc = "choose" /\ caller = "version" /\ Latest(ids) # {}
  /\ version' = VersionOf(Latest(ids))
  /\ caller' = "download"
  /\ pc' = "list"
  /\ UNCHANGED <<published, dirs, ids, cached, checksums, files, compared, done, history>>

\* should_process says Skip.
AlreadyProcessed ==
  /\ pc = "choose" /\ caller = "version" /\ Latest(ids) # {} /\ VersionOf(Latest(ids)) \in done
  /\ EndRun
  /\ UNCHANGED <<published, done>>

\* find_checksum_entry and fetch_checksums; without either the phase goes on
\* unverified.  Lines that do not parse are skipped: the list may lack any file.
FetchChecksums ==
  /\ pc = "choose" /\ caller = "download" /\ Latest(ids) # {}
  /\ summed' \in SUBSET DataTypes
  /\ \E entry \in ChecksumEntry(ids, Latest(ids)) :
       checksums' = [version : {entry.version}, kind : summed']
  /\ pc' = "fetch"
  /\ UNCHANGED <<published, caller, dirs, ids, cached, version, files, compared, done, newest, readAll>>

GoUnverified ==
  /\ pc = "choose" /\ caller = "download" /\ Latest(ids) # {}
  /\ checksums' = {}
  /\ pc' = "fetch"
  /\ UNCHANGED <<published, caller, dirs, ids, cached, version, files, compared, done, history>>

FetchFiles ==
  /\ pc = "fetch"
  /\ files' = Latest(ids)
  /\ compared' = Latest(ids) \cap checksums
  /\ pc' = "process"
  /\ UNCHANGED <<published, caller, dirs, ids, cached, version, checksums, done, history>>

Process ==
  /\ pc = "process"
  /\ done' = done \cup {version}
  /\ EndRun
  /\ UNCHANGED published

\* The download or the processing fails; the next run tries again.
RunFails ==
  /\ pc \in {"fetch", "process"}
  /\ EndRun
  /\ UNCHANGED <<published, done>>

Next ==
  \/ \E n \in Names : Publish(n)
  \/ Begin \/ UseCache \/ FetchIndex \/ IndexFails
  \/ \E y \in {YearOf(v) : v \in Versions} : ReadYear(y)
  \/ YearFails \/ Listed \/ NothingRead \/ NoCompleteSet
  \/ ChooseVersion \/ AlreadyProcessed
  \/ FetchChecksums \/ GoUnverified
  \/ FetchFiles \/ Process \/ RunFails

Spec == Init /\ [][Next]_vars

\* The service keeps starting runs and a run keeps going; a request that is
\* made again and again succeeds at some time, and so do the download and
\* the processing of a version.
Fairness ==
  /\ WF_vars(Begin \/ UseCache \/ Listed \/ NothingRead \/ NoCompleteSet \/ YearFails)
  /\ WF_vars(ChooseVersion \/ AlreadyProcessed)
  /\ WF_vars(FetchChecksums \/ GoUnverified)
  /\ SF_vars(FetchIndex)
  /\ \A y \in {YearOf(v) : v \in Versions} : SF_vars(ReadYear(y))
  /\ \A v \in Versions : SF_vars(version = v /\ FetchFiles) /\ SF_vars(version = v /\ Process)

-----------------------------------------------------------------------------
(* Properties.                                                             *)

\* What is fetched and processed is the version the marker is for, all of its
\* data files and no other's, though the list is asked for twice and the site
\* changes in between (cached_files).
MarkerIsForTheFiles ==
  pc = "process" => files = [version : {version}, kind : DataTypes]

\* A run whose year pages were all read takes no older set than the newest
\* one that was complete when it read the index.
NewestCompleteTaken ==
  version # NoVersion /\ readAll => version >= newest

\* The files compared with a published sum are those the CHECKSUM file that was
\* read has a sum for, no more and no fewer: it is the one of the version that is
\* fetched, though list and site hold others.
SumsCoverTheFiles ==
  pc = "process" => compared = {n \in files : n.kind \in summed}

\* Once the site rests, the newest complete set of the two newest years is
\* processed: no incomplete month, failed page or older version in the way
\* keeps it from being found.
NewestIsProcessed ==
  <>[](LET offered == CompleteIn(InYears(published, YearsToRead))
       IN offered # {} => Newest(offered) \in done)
=============================================================================
