----------------------------- MODULE SeedScript -----------------------------
(***************************************************************************)
(* scripts/seed.sh against the shared database.  The script runs when an   *)
(* instance starts (start.sh), in the migrate service of docker-compose    *)
(* (init-db.sh) and at the end of the seed pipeline, so several may run at *)
(* once, each with the db/seed.sql of its own disk.                        *)
(*                                                                         *)
(* A file is a number: generate_seed.py draws new UUIDs on every run, so a *)
(* regenerated file is never an old one.  The catalog tables hold the rows *)
(* of a set of files; loading a file twice hits the primary key.  The      *)
(* statements of the script are transactions of PostgreSQL that lock the   *)
(* tables one by one, TRUNCATE in the order of its list and seed.sql in    *)
(* the order of its INSERTs; PostgreSQL breaks a deadlock by aborting one  *)
(* of its members.                                                         *)
(***************************************************************************)
EXTENDS Integers, Sequences, FiniteSets

CONSTANTS Runners,     \* places where seed.sh runs, each with its disk
          MaxFile,     \* bound on the regenerations of db/seed.sql
          Broken,      \* files in which some statement fails
          Exclusive,   \* whether scripts are kept from running at once
          Ephemeral,   \* whether a restart brings back the image's file
          Misreads,    \* whether the query for the checksum may fail
          MaxCrashes,  \* bound on the crashes
          MaxReviews,  \* bound on the reviews written meanwhile
          NoFile,      \* there is no db/seed.sql
          NoSum        \* stored_sha is empty

Files == 0..MaxFile
Image == 0              \* the file in the container image

ASSUME SeedAssumption ==
    /\ MaxFile \in Nat /\ MaxCrashes \in Nat /\ MaxReviews \in Nat
    /\ Broken \subseteq Files
    /\ {Exclusive, Ephemeral, Misreads} \subseteq BOOLEAN
    /\ NoFile \notin Files /\ NoSum \notin Files

VARIABLES catalog,   \* the files whose rows the catalog tables hold
          stored,    \* the rows of _seed_checksum
          reviews,   \* number of reviews
          disk,      \* db/seed.sql of each runner
          newest,    \* the last file generated
          pc,        \* the statement each script is at
          sha,       \* current_sha: the file whose checksum it has taken
          input,     \* the file that its psql -f reads
          held,      \* what its open transaction has locked
          snap,      \* the rows its DELETE has seen
          crashes

vars == <<catalog, stored, reviews, disk, newest, pc, sha, input, held, snap, crashes>>

-----------------------------------------------------------------------------
(* The schema and the statements. *)
SeedTables == {"instructors", "section_activities", "sections", "courses"}
Tables     == SeedTables \cup {"reviews"}

(* Foreign keys after the last migration, <<from, to>>. *)
SectionKeys    == {<<"sections", "courses">>}
ActivityKeys   == {<<"section_activities", "sections">>}
InstructorKeys == {<<"instructors", "sections">>}

(* Mutant of ReviewKeys: reviews gets a foreign key to its course. *)
ReviewKeysToCourses == {<<"reviews", "courses">>}

(* A review names its course by its code, which is no key of courses. *)
ReviewKeys == {}

References == SectionKeys \cup ActivityKeys \cup InstructorKeys \cup ReviewKeys

(* Mutant of TruncateList: courses is forgotten. *)
TruncateListNoCourses == <<"instructors", "section_activities", "sections">>

TruncateList == <<"instructors", "section_activities", "sections", "courses">>

(* The INSERTs of seed.sql; the first also claims its primary keys. *)
InsertList == <<"courses", "courses_pkey", "sections", "section_activities", "instructors">>

InList(s) == {s[i] : i \in DOMAIN s}

(* What TRUNCATE ... CASCADE empties: the least set of tables that holds   *)
(* the listed ones and every table with a reference into it.               *)
Emptied ==
    LET Closed(S) == /\ InList(TruncateList) \subseteq S
                     /\ \A e \in References : e[2] \in S => e[1] \in S
    IN  CHOOSE S \in SUBSET Tables : Closed(S) /\ \A T \in SUBSET S : Closed(T) => T = S

(* Mutant of After: the checksum is recorded before the tables are filled. *)
AfterRecordsFirst(stage) ==
    CASE stage = "check"    -> "record"
      [] stage = "record"   -> "truncate"
      [] stage = "truncate" -> "load"
      [] stage = "load"     -> "idle"
(* Mutant of After: the tables are emptied once more after the load. *)
AfterTruncatesLast(stage) ==
    CASE stage = "check"    -> "load"
      [] stage = "load"     -> "truncate"
      [] stage = "truncate" -> "record"
      [] stage = "record"   -> "idle"
(* Mutant of After: the load is tried again from the TRUNCATE on, whether   *)
(* or not it failed.                                                       *)
AfterRetries(stage) ==
    IF stage \in {"check", "load"} THEN "truncate" ELSE "load"

(* The order of the statements in the script. *)
After(stage) ==
    CASE stage = "check"    -> "truncate"
      [] stage = "truncate" -> "load"
      [] stage = "load"     -> "record"
      [] stage = "record"   -> "idle"

Init == /\ catalog = {}
        /\ stored = {}
        /\ reviews = 0
        /\ disk \in [Runners -> {Image, NoFile}]
        /\ newest = Image
        /\ pc = [r \in Runners |-> "idle"]
        /\ sha = [r \in Runners |-> NoSum]
        /\ input = [r \in Runners |-> NoFile]
        /\ held = [r \in Runners |-> {}]
        /\ snap = [r \in Runners |-> {}]
        /\ crashes = 0

-----------------------------------------------------------------------------
(* The world around the script. *)

(* The API stores a review. *)
PostReview == /\ reviews < MaxReviews
              /\ reviews' = reviews + 1
              /\ UNCHANGED <<catalog, stored, disk, newest, pc, sha, input, held, snap, crashes>>

(* The pipeline, or a developer, writes a new seed.sql, also while a script *)
(* is on its way with the old one. *)
Regenerate(r) ==
    /\ newest < MaxFile
    /\ newest' = newest + 1
    /\ disk' = [disk EXCEPT ![r] = newest + 1]
    /\ UNCHANGED <<catalog, stored, reviews, pc, sha, input, held, snap, crashes>>

(* The script goes to a stage: psql -f opens the file as it is then; the   *)
(* locals of a script that ends are gone.                                  *)
GoTo(r, stage) ==
    /\ pc' = [pc EXCEPT ![r] = stage]
    /\ input' = CASE stage = "load" -> [input EXCEPT ![r] = disk[r]]
                  [] stage = "idle" -> [input EXCEPT ![r] = NoFile]
                  [] OTHER -> input

KeepSum(r, stage) == sha' = IF stage = "idle" THEN [sha EXCEPT ![r] = NoSum] ELSE sha

(* The script is killed or loses its connection: the open transaction is   *)
(* rolled back.  The disk of a container may be that of its image again.   *)
Crash(r) ==
    /\ crashes < MaxCrashes
    /\ pc[r] # "idle"
    /\ crashes' = crashes + 1
    /\ GoTo(r, "idle") /\ KeepSum(r, "idle")
    /\ held' = [held EXCEPT ![r] = {}]
    /\ snap' = [snap EXCEPT ![r] = {}]
    /\ disk' \in {disk} \cup (IF Ephemeral THEN {[disk EXCEPT ![r] = Image]} ELSE {})
    /\ UNCHANGED <<catalog, stored, reviews, newest>>

-----------------------------------------------------------------------------
(* seed.sh up to its first statement. *)

(* SELECT checksum ... LIMIT 1: any row, or nothing; "|| true" turns an    *)
(* error into nothing.                                                     *)
StoredSha == (IF stored = {} THEN {NoSum} ELSE stored)
                \cup (IF Misreads THEN {NoSum} ELSE {})

(* No db/seed.sql: a warning and exit 0. *)
MayStart(r) ==
    /\ pc[r] = "idle"
    /\ disk[r] # NoFile
    /\ Exclusive => \A s \in Runners : pc[s] = "idle"

(* "seed.sql unchanged (checksum match)": exit 0, and nothing has changed. *)
MaySkip(r) == MayStart(r) /\ disk[r] \in StoredSha

(* "seed.sql changed or first run."  The checksum taken here is recorded   *)
(* in the end. *)
Proceed(r) ==
    /\ MayStart(r)
    /\ StoredSha # {disk[r]}
    /\ GoTo(r, After("check"))
    /\ sha' = [sha EXCEPT ![r] = disk[r]]
    /\ UNCHANGED <<catalog, stored, reviews, disk, newest, held, snap, crashes>>

-----------------------------------------------------------------------------
(* The transactions. *)
LockList(r) == IF pc[r] = "truncate" THEN TruncateList ELSE InsertList

Locking(r)   == pc[r] \in {"truncate", "load"} /\ Cardinality(held[r]) < Len(LockList(r))
AllLocked(r) == pc[r] \in {"truncate", "load"} /\ Cardinality(held[r]) = Len(LockList(r))

Wanted(r) == LockList(r)[Cardinality(held[r]) + 1]

(* TRUNCATE's ACCESS EXCLUSIVE excludes everybody; INSERTs share a table   *)
(* and exclude each other on the same keys only.                           *)
Blockers(r) ==
    IF ~Locking(r) THEN {}
    ELSE {s \in Runners \ {r} :
            /\ Wanted(r) \in held[s]
            /\ \/ "truncate" \in {pc[r], pc[s]}
               \/ Wanted(r) = "courses_pkey" /\ input[r] = input[s]}

(* The keys of its file are in the table already. *)
DuplicateKey(r) == pc[r] = "load" /\ Wanted(r) = "courses_pkey" /\ input[r] \in catalog

Lock(r) ==
    /\ Locking(r) /\ Blockers(r) = {} /\ ~DuplicateKey(r)
    /\ held' = [held EXCEPT ![r] = @ \cup {Wanted(r)}]
    /\ UNCHANGED <<catalog, stored, reviews, disk, newest, pc, sha, input, snap, crashes>>

(* The transaction is over and the script at its next statement. *)
EndOfTransaction(r, next) ==
    /\ held' = [held EXCEPT ![r] = {}]
    /\ GoTo(r, next) /\ KeepSum(r, next)
    /\ UNCHANGED <<stored, disk, newest, snap, crashes>>

Truncate(r) ==
    /\ pc[r] = "truncate" /\ AllLocked(r)
    /\ catalog' = IF "courses" \in Emptied THEN {} ELSE catalog
    /\ reviews' = IF "reviews" \in Emptied THEN 0 ELSE reviews
    /\ EndOfTransaction(r, After("truncate"))

LoadSeed(r) ==
    /\ pc[r] = "load" /\ AllLocked(r) /\ input[r] \notin Broken
    /\ catalog' = catalog \cup {input[r]}
    /\ EndOfTransaction(r, After("load"))
    /\ UNCHANGED reviews

(* A statement between BEGIN and COMMIT fails: the rest is ignored, COMMIT *)
(* rolls back, and psql -f without ON_ERROR_STOP exits 0 all the same.     *)
FailedLoad(r) ==
    /\ EndOfTransaction(r, After("load"))
    /\ UNCHANGED <<catalog, reviews>>

LoadFails(r) ==
    /\ pc[r] = "load"
    /\ \/ Locking(r) /\ Blockers(r) = {} /\ DuplicateKey(r)
       \/ input[r] \in Broken /\ held[r] # {}
    /\ FailedLoad(r)

(* Runners that wait for each other, directly or around a third. *)
Deadlocked(r) ==
    \E s \in Blockers(r) : \/ r \in Blockers(s)
                           \/ \E t \in Blockers(s) : r \in Blockers(t)

(* psql -c exits 1 and "set -e" ends the script. *)
AbortTruncate(r) ==
    /\ pc[r] = "truncate" /\ Deadlocked(r)
    /\ EndOfTransaction(r, "idle")
    /\ UNCHANGED <<catalog, reviews>>

AbortLoad(r) == pc[r] = "load" /\ Deadlocked(r) /\ FailedLoad(r)

(* DELETE and INSERT of the checksum are one transaction of two statements: *)
(* the DELETE removes the rows it sees, not one inserted since.            *)
DeleteSum(r) ==
    /\ pc[r] = "record"
    /\ snap' = [snap EXCEPT ![r] = stored]
    /\ GoTo(r, "recording")
    /\ UNCHANGED <<catalog, stored, reviews, disk, newest, sha, held, crashes>>

(* ... COMMIT; echo "Database seeded successfully!" *)
Recording(r, sums) ==
    /\ pc[r] = "recording"
    /\ stored' = (stored \ snap[r]) \cup sums
    /\ snap' = [snap EXCEPT ![r] = {}]
    /\ GoTo(r, After("record")) /\ KeepSum(r, After("record"))
    /\ UNCHANGED <<catalog, reviews, disk, newest, held, crashes>>

(* Mutants of InsertSum: the checksum that was read is written back; the   *)
(* checksum is that of the file as it is now.                              *)
InsertSumAsRead(r)   == Recording(r, StoredSha)
InsertSumComputed(r) == Recording(r, {disk[r]})

InsertSum(r) == Recording(r, {sha[r]})

Step(r) == \/ Lock(r) \/ Truncate(r) \/ LoadSeed(r) \/ LoadFails(r)
           \/ AbortTruncate(r) \/ AbortLoad(r)
           \/ DeleteSum(r) \/ InsertSum(r)

Next == \/ PostReview
        \/ \E r \in Runners : Regenerate(r) \/ Crash(r) \/ Proceed(r) \/ Step(r)

Spec == Init /\ [][Next]_vars

(* Each script goes on; a lock that is released again and again is granted *)
(* at last, because PostgreSQL queues those who wait for it.               *)
ScriptFairness == \A r \in Runners : WF_vars(Step(r)) /\ SF_vars(Lock(r))

(* The script is run again: a container whose start.sh fails is restarted, *)
(* and one that has come up is deployed again some day.                    *)
RunFairness == \A r \in Runners : WF_vars(Proceed(r))

FairSpec == Spec /\ ScriptFairness /\ RunFairness

-----------------------------------------------------------------------------
Stages == {"idle", "truncate", "load", "record", "recording"}

(* Every variable has its type. *)
TypeOK ==
    /\ catalog \subseteq Files
    /\ stored \subseteq Files
    /\ reviews \in 0..MaxReviews
    /\ disk \in [Runners -> Files \cup {NoFile}]
    /\ newest \in Files
    /\ pc \in [Runners -> Stages]
    /\ sha \in [Runners -> Files \cup {NoSum}]
    /\ input \in [Runners -> Files \cup {NoFile}]
    /\ held \in [Runners -> SUBSET (SeedTables \cup {"courses_pkey"})]
    /\ snap \in [Runners -> SUBSET Files]
    /\ crashes \in 0..MaxCrashes

(* "TRUNCATE then INSERT so we never duplicate": the catalog tables never  *)
(* hold the rows of two files (whose courses are the same under other      *)
(* UUIDs).                                                                 *)
NeverDuplicated == \A f, g \in catalog : f = g

(* "Database seeded successfully!" is printed over the rows of the file    *)
(* that the script has loaded and of no other.                             *)
SeededMeansLoaded ==
    [][\A r \in Runners : InsertSum(r) => catalog = {input[r]}]_vars

(* "Store seed.sql checksum so we only truncate+re-seed when seed file     *)
(* changes": a script that may skip finds the catalog that it would load,  *)
(* also when the file changed between the checksum and the load of another *)
(* run.                                                                    *)
SkipIsSafe == \A r \in Runners : MaySkip(r) => catalog = {disk[r]}

(* "reviews table is never touched": no script removes a review, CASCADE   *)
(* or not.                                                                 *)
ReviewsKept == [][reviews' >= reviews]_vars

(* A script that has started ends, whatever locks the others hold.         *)
EveryScriptEnds == \A r \in Runners : pc[r] # "idle" ~> pc[r] = "idle"

(* Scripts that are run again after crashes leave the catalog of their     *)
(* seed.sql in the database in the end.                                    *)
EventuallySeeded == \A r \in Runners : <>[](disk[r] # NoFile => catalog = {disk[r]})
=============================================================================
