----------------------------- MODULE SeedPipeline -----------------------------
(***************************************************************************)
(* POST /api/v1/admin/seed/pipeline: internal/handlers/seed_pipeline_      *)
(* handler.go runs scripts/run_seed_pipeline.py, which runs one child      *)
(* after the other: fetch_page_sources.py, scrape.py, generate_seed.py and *)
(* seed.sh.                                                                *)
(*                                                                         *)
(* The timetable of a faculty is a number that grows with every change at  *)
(* the university; its page, its JSON file, its part of db/seed.sql and    *)
(* its rows in the database are the number that they were made from, 0 if  *)
(* there is nothing.  What a child does with one file is one step here;    *)
(* PageFetch, TimetableImport and SeedScript look inside.                  *)
(***************************************************************************)
EXTENDS Integers, FiniteSets

CONSTANTS Faculties,
          Folders,    \* the faculties whose scrapers share a folder, per term
          MaxRuns,    \* bound on the accepted requests
          MaxVersion, \* bound on the changes of a timetable
          MaxRestarts \* bound on the restarts of the container

ASSUME PipelineAssumption ==
    /\ Folders \subseteq SUBSET Faculties
    /\ MaxRuns \in Nat /\ MaxVersion \in Nat \ {0} /\ MaxRestarts \in Nat

Runs == 1..MaxRuns
Broken == -1   \* a JSON file that is cut off

VARIABLES site,    \* the timetables
          page, json, seed, db, \* what the server has of them
          mutex,   \* whether the handler's mutex is held
          serving, \* runs in runLocked
          alive,   \* runs whose python is alive
          stage,   \* the child process of each run, "none" and "over" for none
          result,  \* exit code of python: "" , "ok", "failed"
          todo,    \* faculties that the child has to look at
          got,     \* the page that the child has downloaded and not written
          failed,  \* faculties that the child counts as failed
          kept,    \* faculties whose page the guard has kept
          silent,  \* faculties without a new JSON file and without an error
          begun,   \* history: the timetables when the run began
          restarts

files == <<page, json, seed, db>>
process == <<serving, alive, stage, result>>
work == <<todo, got, failed, kept, silent>>
vars == <<site, files, mutex, process, work, begun, restarts>>

Versions == [Faculties -> 0..MaxVersion]
Nothing == [f \in Faculties |-> 0]
Stages == {"fetch", "import", "scrape", "generate", "seed"}

Init == /\ site = [f \in Faculties |-> 1]
        /\ page = Nothing /\ json = Nothing /\ seed = Nothing /\ db = Nothing
        /\ mutex = FALSE
        /\ serving = {} /\ alive = {}
        /\ stage = [r \in Runs |-> "none"]
        /\ result = [r \in Runs |-> ""]
        /\ todo = [r \in Runs |-> {}]
        /\ got = [r \in Runs |-> Nothing]
        /\ failed = [r \in Runs |-> {}]
        /\ kept = [r \in Runs |-> {}]
        /\ silent = [r \in Runs |-> {}]
        /\ begun = [r \in Runs |-> Nothing]
        /\ restarts = 0

Change(f) == /\ site[f] < MaxVersion
             /\ site' = [site EXCEPT ![f] = @ + 1]
             /\ UNCHANGED <<files, mutex, process, work, begun, restarts>>

-----------------------------------------------------------------------------
(* The handler *)

(* TryLock: the answer is 202, or 409 and nothing happens. *)
Post(r) == /\ ~mutex
           /\ stage[r] = "none" /\ r \notin serving
           /\ \A q \in Runs : q < r => stage[q] # "none"
           /\ mutex' = TRUE
           /\ serving' = serving \cup {r}
           /\ begun' = [begun EXCEPT ![r] = site]
           /\ UNCHANGED <<site, files, alive, stage, result, work, restarts>>

(* There is no interpreter. *)
NoPython(r) == /\ r \in serving /\ stage[r] = "none"
               /\ serving' = serving \ {r}
               /\ stage' = [stage EXCEPT ![r] = "over"]
               /\ mutex' = FALSE
               /\ UNCHANGED <<site, files, alive, result, work, begun, restarts>>

Python(r) == /\ r \in serving /\ stage[r] = "none"
             /\ alive' = alive \cup {r}
             /\ stage' = [stage EXCEPT ![r] = "fetch"]
             /\ todo' = [todo EXCEPT ![r] = Faculties]
             /\ UNCHANGED <<site, files, mutex, serving, result, got, failed, kept, silent,
                            begun, restarts>>

(* seedPipelineTimeout kills python, not the child that it waits for.      *)
Timeout(r) == /\ r \in serving /\ r \in alive
              /\ alive' = alive \ {r}
              /\ UNCHANGED <<site, files, mutex, serving, stage, result, work, begun, restarts>>

(* What the processes of runs knew is gone with them. *)
Forget(gone) ==
    /\ todo' = [r \in Runs |-> IF r \in gone THEN {} ELSE todo[r]]
    /\ got' = [r \in Runs |-> IF r \in gone THEN Nothing ELSE got[r]]
    /\ failed' = [r \in Runs |-> IF r \in gone THEN {} ELSE failed[r]]
    /\ kept' = [r \in Runs |-> IF r \in gone THEN {} ELSE kept[r]]
    /\ silent' = [r \in Runs |-> IF r \in gone THEN {} ELSE silent[r]]
    /\ begun' = [r \in Runs |-> IF r \in gone THEN Nothing ELSE begun[r]]

(* Mutant of Return: python is gone, but not the child. *)
ReturnEarly(r) == /\ r \in serving /\ r \notin alive /\ stage[r] # "none"
                  /\ serving' = serving \ {r}
                  /\ mutex' = FALSE
                  /\ UNCHANGED <<site, files, alive, stage, result, work, begun, restarts>>

(* Mutant of Return: no defer, and the path of a killed python forgets the *)
(* unlock.                                                                 *)
ReturnLocked(r) == /\ r \in serving /\ stage[r] = "over"
                   /\ serving' = serving \ {r}
                   /\ mutex' = (result[r] = "")
                   /\ Forget({r})
                   /\ UNCHANGED <<site, files, alive, stage, result, restarts>>

(* cmd.Run returns when the output is closed, which a child that is left   *)
(* behind keeps open; then the deferred Unlock.                            *)
Return(r) == /\ r \in serving /\ stage[r] = "over"
             /\ serving' = serving \ {r}
             /\ mutex' = FALSE
             /\ Forget({r})
             /\ UNCHANGED <<site, files, alive, stage, result, restarts>>

(* All processes end.  The files are those of the disk or of the image. *)
Restart == /\ restarts < MaxRestarts
           /\ restarts' = restarts + 1
           /\ mutex' = FALSE
           /\ serving' = {} /\ alive' = {}
           /\ stage' = [r \in Runs |-> IF stage[r] = "none" /\ r \notin serving
                                       THEN "none" ELSE "over"]
           /\ \/ UNCHANGED <<page, json, seed>>
              \/ page' = Nothing /\ json' = Nothing /\ seed' = Nothing
           /\ Forget(Runs)
           /\ UNCHANGED <<site, db, result>>

-----------------------------------------------------------------------------
(* run_seed_pipeline.py *)

After(s) == CASE s = "fetch" -> "import" [] s = "import" -> "scrape"
              [] s = "scrape" -> "generate" [] s = "generate" -> "seed"
              [] s = "seed" -> "over"

(* Mutant of Exit: the exit code of a child is not looked at.              *)
ExitUnchecked(r, ok) ==
    IF r \notin alive
    THEN stage' = [stage EXCEPT ![r] = "over"] /\ UNCHANGED <<alive, result, todo>>
    ELSE /\ stage' = [stage EXCEPT ![r] = After(stage[r])]
         /\ todo' = [todo EXCEPT ![r] = Faculties]
         /\ IF stage[r] = "seed"
            THEN alive' = alive \ {r} /\ result' = [result EXCEPT ![r] = "ok"]
            ELSE UNCHANGED <<alive, result>>

(* The child of run r exits: python, if it is alive, starts the next one,  *)
(* or ends after the last one or with the exception of check=True.         *)
Exit(r, ok) ==
    CASE r \notin alive ->
           stage' = [stage EXCEPT ![r] = "over"] /\ UNCHANGED <<alive, result, todo>>
      [] r \in alive /\ ok ->
           /\ stage' = [stage EXCEPT ![r] = After(stage[r])]
           /\ todo' = [todo EXCEPT ![r] = Faculties]
           /\ IF stage[r] = "seed"
              THEN alive' = alive \ {r} /\ result' = [result EXCEPT ![r] = "ok"]
              ELSE UNCHANGED <<alive, result>>
      [] OTHER ->
           /\ stage' = [stage EXCEPT ![r] = "over"]
           /\ alive' = alive \ {r}
           /\ result' = [result EXCEPT ![r] = "failed"]
           /\ UNCHANGED todo

outside == <<site, mutex, serving, begun, restarts>>
Doing(r, s, f) == stage[r] = s /\ f \in todo[r]
Done(r, f) == todo' = [todo EXCEPT ![r] = @ \ {f}]

(* fetch_page_sources.py, page by page: the answer is made before it is    *)
(* written.                                                                *)
Download(r, f) == /\ Doing(r, "fetch", f)
                  /\ \A g \in todo[r] : got[r][g] = 0
                  /\ got' = [got EXCEPT ![r][f] = site[f]]
                  /\ UNCHANGED <<outside, files, alive, stage, result, todo, failed, kept, silent>>

SavePage(r, f) == /\ Doing(r, "fetch", f) /\ got[r][f] # 0
                  /\ page' = [page EXCEPT ![f] = got[r][f]]
                  /\ Done(r, f)
                  /\ UNCHANGED <<outside, json, seed, db, alive, stage, result, got, failed, kept,
                                 silent>>

(* The guard keeps a page only if there is one. *)
KeepPage(r, f) == /\ Doing(r, "fetch", f) /\ got[r][f] # 0
                  /\ page[f] # 0
                  /\ kept' = [kept EXCEPT ![r] = @ \cup {f}]
                  /\ Done(r, f)
                  /\ UNCHANGED <<outside, files, alive, stage, result, got, failed, silent>>

FetchFails(r, f) == /\ Doing(r, "fetch", f)
                    /\ \A g \in todo[r] : got[r][g] = 0
                    /\ failed' = [failed EXCEPT ![r] = @ \cup {f}]
                    /\ Done(r, f)
                    /\ UNCHANGED <<outside, files, alive, stage, result, got, kept, silent>>

(* Exit code 1 for errors, 3 for kept pages if that is asked for, else 0.  *)
FetchExit(r) == /\ stage[r] = "fetch" /\ todo[r] = {}
                /\ \E strict \in BOOLEAN :
                      Exit(r, failed[r] = {} /\ ~(strict /\ kept[r] # {}))
                /\ UNCHANGED <<outside, files, got, failed, kept, silent>>

(* scrape.py imports the scrapers first: one that cannot be imported is    *)
(* left out, and only a folder without any other is an error.              *)
LoadScrapers(r) ==
    /\ stage[r] = "import"
    /\ \E bad \in SUBSET Faculties :
          /\ silent' = [silent EXCEPT ![r] = @ \cup bad]
          /\ IF \E folder \in Folders : folder \subseteq bad
             THEN Exit(r, FALSE)
             ELSE /\ stage' = [stage EXCEPT ![r] = After("import")]
                  /\ todo' = [todo EXCEPT ![r] = Faculties \ bad]
                  /\ UNCHANGED <<alive, result>>
    /\ UNCHANGED <<outside, files, got, failed, kept>>

(* The main of a faculty's scraper, then a look at its file.               *)
Scrape(r, f) == /\ Doing(r, "scrape", f) /\ page[f] # 0
                /\ json' = [json EXCEPT ![f] = page[f]]
                /\ Done(r, f)
                /\ UNCHANGED <<outside, page, seed, db, alive, stage, result, got, failed, kept,
                               silent>>

(* Mutant of ScraperGivesUp: the file is emptied before the page is read. *)
ScraperGivesUpEmpty(r, f) ==
    /\ Doing(r, "scrape", f)
    /\ json' = [json EXCEPT ![f] = 0]
    /\ silent' = [silent EXCEPT ![r] = @ \cup {f}]
    /\ Done(r, f)
    /\ UNCHANGED <<outside, page, seed, db, alive, stage, result, got, failed, kept>>

(* main prints its exception and returns; run_scraper fails only if it     *)
(* cannot load the file that is there.                                     *)
ScraperGivesUp(r, f) ==
    /\ Doing(r, "scrape", f)
    /\ IF json[f] = Broken
       THEN failed' = [failed EXCEPT ![r] = @ \cup {f}] /\ UNCHANGED silent
       ELSE silent' = [silent EXCEPT ![r] = @ \cup {f}] /\ UNCHANGED failed
    /\ Done(r, f)
    /\ UNCHANGED <<outside, files, alive, stage, result, got, kept>>

(* The exception comes while the file is written. *)
ScraperBreaks(r, f) == /\ Doing(r, "scrape", f) /\ page[f] # 0
                       /\ json' = [json EXCEPT ![f] = Broken]
                       /\ failed' = [failed EXCEPT ![r] = @ \cup {f}]
                       /\ Done(r, f)
                       /\ UNCHANGED <<outside, page, seed, db, alive, stage, result, got, kept,
                                      silent>>

(* A scraper that gave up has not "failed": its main has returned.         *)
ScrapeExit(r) == /\ stage[r] = "scrape" /\ todo[r] = {}
                 /\ Exit(r, failed[r] = {})
                 /\ UNCHANGED <<outside, files, got, failed, kept, silent>>

(* generate_seed.py does not catch the exception of a broken file.         *)
Generate(r) == /\ stage[r] = "generate"
               /\ IF \E f \in Faculties : json[f] = Broken
                  THEN Exit(r, FALSE) /\ UNCHANGED seed
                  ELSE Exit(r, TRUE) /\ seed' = json
               /\ UNCHANGED <<outside, page, json, db, got, failed, kept, silent>>

(* seed.sh: psql -f exits 0 whether it has loaded the file or one of its   *)
(* statements has failed over the emptied tables; every other command ends *)
(* the script when it fails, before TRUNCATE, after it or after the load.  *)
Seed(r) == /\ stage[r] = "seed"
           /\ \/ db' \in {seed, Nothing} /\ Exit(r, TRUE)
              \/ db' \in {db, Nothing, seed} /\ Exit(r, FALSE)
           /\ UNCHANGED <<outside, page, json, seed, got, failed, kept, silent>>

Child(r) == \/ \E f \in Faculties :
                  \/ Download(r, f) \/ SavePage(r, f) \/ KeepPage(r, f) \/ FetchFails(r, f)
                  \/ Scrape(r, f) \/ ScraperGivesUp(r, f) \/ ScraperBreaks(r, f)
            \/ FetchExit(r) \/ LoadScrapers(r) \/ ScrapeExit(r) \/ Generate(r) \/ Seed(r)

RunLocked(r) == NoPython(r) \/ Python(r) \/ Return(r)

Next == \/ Restart
        \/ \E f \in Faculties : Change(f)
        \/ \E r \in Runs : Post(r) \/ RunLocked(r) \/ Timeout(r) \/ Child(r)

Spec == Init /\ [][Next]_vars

(* Go schedules its goroutines, and a child always comes to its end: its   *)
(* requests have timeouts.                                                 *)
Fairness == \A r \in Runs : WF_vars(RunLocked(r)) /\ WF_vars(Child(r))

FairSpec == Spec /\ Fairness

-----------------------------------------------------------------------------
(* Every variable has its type. *)
TypeOK ==
    /\ site \in Versions /\ page \in Versions /\ seed \in Versions /\ db \in Versions
    /\ json \in [Faculties -> 0..MaxVersion \cup {Broken}]
    /\ mutex \in BOOLEAN
    /\ serving \subseteq Runs /\ alive \subseteq Runs
    /\ stage \in [Runs -> Stages \cup {"none", "over"}]
    /\ result \in [Runs -> {"", "ok", "failed"}]
    /\ todo \in [Runs -> SUBSET Faculties] /\ failed \in [Runs -> SUBSET Faculties]
    /\ kept \in [Runs -> SUBSET Faculties] /\ silent \in [Runs -> SUBSET Faculties]
    /\ got \in [Runs -> Versions] /\ begun \in [Runs -> Versions]
    /\ restarts \in 0..MaxRestarts

(* "seed pipeline already running": the files have one writer at a time,   *)
(* also after a timeout, when the child goes on without python.            *)
OneChild == \A q, r \in Runs : stage[q] \in Stages /\ stage[r] \in Stages => q = r

(* Exit code 0 of the pipeline leaves one of two databases: that of a load *)
(* which has failed silently, or one in which the rows of a faculty are as *)
(* new as the request, unless the guard has kept its page or its scraper   *)
(* was left out or gave up, which the exit code does not tell.             *)
FinishedIsCurrent ==
    [][\A r \in Runs : result[r] = "" /\ result'[r] = "ok" =>
          \/ db' = Nothing
          \/ \A f \in Faculties \ (kept[r] \cup silent[r]) : db'[f] >= begun[r][f]]_vars

(* The rows of a faculty never go back to an older timetable, whatever is  *)
(* kept, fails or is cut short, while the disk keeps its files.            *)
NeverBackwards ==
    [][restarts = 0 => \A f \in Faculties : db'[f] >= db[f] \/ db' = Nothing]_vars

(* The mutex is released: after a timeout too, the next request is served. *)
MutexReleased == mutex ~> ~mutex
=============================================================================
