# TLA+ models of core-api

This directory keeps specifications of the course catalog API beside its code: TLA+
modules translated from the source, TLC configurations that check them on small
instances, and proofs that TLAPS checks for every value of the constants.
`PROJECT.json` lists the runs, the source lines of every definition, the hazards and the
theorems.

    tlc -config RateLimiter.cfg RateLimiter                 # any run of PROJECT.json
    tlapm RateLimiterProofs.tla                            # any *Proofs module

## The system

A Go server (gin) reads a PostgreSQL catalog that is replaced as a whole by a script, and
stores reviews. Python scripts make the catalog from timetable pages.

    timetable pages -> fetch_page_sources.py -> scrape.py -> generate_seed.py -> db/seed.sql
    db/seed.sql -> seed.sh -> PostgreSQL <- pgx pool <- repositories <- handlers
    client -> rate limiter -> response cache -> handler

| Component | State | Operations | What is hard | What makes it correct | Module |
|---|---|---|---|---|---|
| Rate limiter, `internal/middleware/rate_limiter.go` | a map of visitors under a mutex | `Limit()`, `cleanupVisitors` | cleanup between a client's requests, window edges | quota per window, no unjustified 429, no leak | `FixedWindow`, `RateLimiter` |
| Response cache, `internal/middleware/response_cache.go` | a map of entries under a RWMutex; copies of the clients | `CatalogHTTPCache` | four critical sections per request, entries that expire in between, late fills, eviction | bounded staleness, also of what a 304 tells a client to keep; bounded size | `ResponseCache` |
| Seeding, `scripts/seed.sh` | the catalog tables, `_seed_checksum`, `db/seed.sql` on each disk | check, TRUNCATE, load, record | crashes between statements, several scripts, lock order | never doubled, success means loaded, a skip is safe, reviews stay | `SeedScript` |
| Queries with sections, `internal/repository/section*.go`, `course_handler.go` | the connection pool, open rows | `getCoursesByCode`, `GetByCourseID`, `GetBySectionID` | a connection held while another is asked for; reseeds between queries | connections come back, nobody waits for ever, complete answers | `CatalogQueries` |
| Course list, `course_repository.go` | none | page, count, search, random | count and page are two queries; code range | a total with its page | the two queries: `CatalogQueries`; filters planned |
| Reviews, `review_repository.go` | the reviews table | create, list, statistics | list and statistics are two queries, and reviews are posted in between | the statistics cover the list; scripts keep reviews | `CatalogQueries`, `SeedScript` |
| Seed pipeline, `seed_pipeline_handler.go`, `run_seed_pipeline.py` | a mutex, files on disk, child processes | `Post`, `runLocked`, the four stages | the timeout kills the parent only; stages that fail silently; restarts | one pipeline at a time, no stale seed applied, the mutex comes back | `SeedPipeline` |
| Page fetcher, `fetch_page_sources.py` | saved pages, counters of a run | fetch, keep or replace | what the guard's tolerance adds up to over runs; files that cannot be read; the exit code | a timetable is not emptied, and stays under the guard | `PageFetch` |
| Timetable scraper, `scrapers/helpers` | the course and the rows under way | header, section row, end | rows of nested schedules, cells in other places | activities are where the page has them | `TimetableParser`, `TimetableImport` |
| Seed generator, `generate_seed.py` | lists per file and over all files | collect, two passes over sections, merge, write | indices per file, letters that carry over, repeated entries | keys satisfied, every row once, in its section | `SeedGenerator` |
| Description scraper, `descriptions/scrape_courses.py` | a queue, browsers, a lock, one JSON file | attempts at subjects, append a course | threads that rewrite one file; retries; failures under the lock | no course lost or doubled, no browser left open | `DescriptionScraper` |
| Start-up, `start.sh`, `migrate.sh`, `render.yaml` | the container's disk | migrate, seed, serve | restarts, ephemeral disks | as in `SeedScript` | partly, in `SeedScript` |
| Instructors, models, configuration, unrouted handlers, review backup | none | one query each | | | not modelled |

The limiter and the cache meet the database only through the handlers. The seeding script
never tells the server that it has replaced the catalog: the cache finds out when its
entries expire, and a handler when its ids find nothing.

## Modules

**`FixedWindow`** is what the limiter promises: each client has a quota that is open,
counts its requests and is forgotten when the window has passed (`Open`, `Grant`, `Deny`,
`Pass`).

**`RateLimiter`** is the code. `Arrive` takes the mutex and finds or creates the visitor;
`Reject` and `Admit` decide under the same mutex (the clock may have moved since);
`CleanupVisitors` is an iteration of the goroutine, which the ticker wakes. `Tick` is the
clock and fills the ticker's channel of capacity one. `admitted` is a history variable.
`getVisitor` is left out, because nothing calls it. `Quota` maps the map of visitors to
`FixedWindow`: a visitor whose window is over is the same as no visitor.

**`ResponseCache`** follows a GET through `CatalogHTTPCache`: `Lookup` under the read lock,
`CheckExpired`, `Purge` under the write lock (it deletes whatever the key holds by then),
`Serve304` / `ServeEntry` / `ExpiredAfterCheck`, or the handler: `HandlerReads` or
`HandlerFails`, `Stamp` (the time of `lastMod`) and `Insert` (removal of the expired,
eviction, store). A body is the version of the catalog it was made from; `Reseed` makes a
new one. An ETag is its body, since it is a hash of it; Last-Modified is a time rounded
down to `Second`. `copy` is what each client keeps and sends validators from; `Validators` says which headers
it sends (`inm` for If-None-Match, `ims` for If-Modified-Since, `any` for `If-None-Match: *`, which answers 304
whatever the client holds), and `IsNotModified` has all three branches and the fall-through from the first to the
last. After a 304 a client files the body it had under the headers of the reply. No client of a run sends
`*`: it asks for no renewal of anything, so nothing is promised to it of the body.

**`SeedScript`** runs `seed.sh` on several `Runners`, each with the `db/seed.sql` of its
own disk. A file is a number; its rows carry UUIDs of their own, so that loading two
files doubles the catalog and loading one twice hits the primary key. The transactions
lock their tables one by one: TRUNCATE in the order of its list, the load in the order of
its INSERTs, which is the reverse; PostgreSQL aborts a member of a deadlock. `psql -c`
fails on an abort and ends the script (`set -e`); `psql -f` does not. `sha` is `current_sha`, taken at the start
of the script and recorded at its end, and `input` the file as `psql -f` finds it; `Regenerate` may write another
one between, before and after these. (A file that is rewritten while `psql` reads it is not modelled.)
`Emptied` derives what CASCADE reaches from the foreign keys of the migrations (`SectionKeys`, `ActivityKeys`,
`InstructorKeys`; `ReviewKeys` is empty). Four constants switch the world:
`Exclusive` (scripts never overlap), `Ephemeral` (a restart brings the image's file back),
`Misreads` (`|| true` after the checksum query) and `Broken` (files with a failing
statement). A statement whose client has died is taken as either committed before the
crash or rolled back; that the server commits it after the next script has begun is
not modelled.

**`CatalogQueries`** has a process per request: `getCoursesByCode` or the sections handler,
down to `GetByCourseID` (whose rows stay open) and `GetBySectionID`; the paginated list, which counts
(`ReadCount`) and then reads (`ReadPage`) with one connection at a time; the list of the reviews of a
course with its statistics (`ReadReviews`, `ReadStats`); or the post of one (`InsertReview`). Of the reviews
only the number is kept. A list may lack rows (`LIMIT`, and rows lost on the way: `GetByCourseCode` does not ask
`rows.Err()`), and an insert may be committed although its request fails. Connections have
identities; `Acquire` waits for one, the `Close` operators return it, and `Fail` is any error or a
cancelled request with all its deferred `rows.Close()`. `era` numbers the catalogs, `tables`
says which tables are filled: TRUNCATE empties all, the load (`BEGIN` ... `COMMIT`) fills
all. Every section is taken to have activities, and the page that is asked for to exist.

**`PageFetch`** is a run of the fetcher. `Start` reads the command line, then each stem has
one iteration of the loop: `FetchError`, `KeepPrior` or `Overwrite`, or `CutOff` when the
process ends inside `write_bytes`; `Finish` makes the exit code. A page is what the guard reads of
it: its number of `<tr>`, whether it has the text of a stub, how often it speaks of cancellations.
`ShouldPreserve` has the thresholds of the code. The ratio is a product of floats
(`100 * 0.55` is more than 55), so that a tie goes either way. `Compares` is when there is a page to compare
with at all: a file that is there but cannot be read (`except OSError: return True`) is overwritten by whatever
was downloaded. A term that `--term` names twice is fetched twice (`todo` counts). `owed` is a history variable:
the rows that the losses the guard tolerates would have left of a page, as a fraction, since the page was last
replaced without a comparison, by a larger one, or on account of cancellations.

**`TimetableParser`** reads a page row by row as the scrapers' helpers do. A row is a header or a
sequence of cells, and a cell is what the regular expressions find in it. `HeaderRow`, `SectionRow` and
`OtherRow` are the branches of the loop; `TypeIndex`, `SummaryIndex`, `LetterOf`, `IdOf` and
`NamesOf` are the searches in a row, and `SavePage` the end of the document; `SaveFails` is a write
that leaves a file which is no JSON. Rows of nested
tables are rows too, as for `find_all('tr')`; `table` tells which rows are in the first table. The
scrapers of the faculties differ only in their file names: `Unreadable` stands for their early return and for an
exception of the parser, both of which leave the JSON file of an earlier run where it is. `fresh` is a history
variable, the files that a scraper has written.

**`SeedGenerator`** is `generate_seed.py` from the command line to the rows of each table:
`Arguments`, `ListTerm` and `EndPaths` find the files; `OpenFile`, `Collect` and `EndCollect` the courses of one;
`NewLetter` and `NoNewLetter` are the first pass over the rows of an entry and `Activity` is the second;
`Merge` appends the lists of the file with its indices moved by `Offset`; `Write` makes the
statements, a sequence for each table, so that a row inserted twice counts twice. `SkipFile` and `LoadFails` are the
files without courses and those that are no JSON. A uuid is the number of uuids before it. `from` is a history field, the place in the JSON.

**`TimetableImport`** runs the parser and then the generator over the files it has
made or found (`Parser == INSTANCE TimetableParser`, sharing `json`): in the first state every JSON file is one
of `OldFiles`, of an earlier run or of the repository, and nothing clears them. `AsOnThePage` states in terms of the page alone what
the two make together.

**`DescriptionScraper`** has the main thread (`Run`, `Submit`, `Complete`, `NoSubjects`), the
worker threads (`TakeSubject` ... `EndSubject`, with `AttemptFails` for the retries) and
`append_course_to_json` in its five steps: `Acquire`, `Read`, `Truncate`, `Dump`, or `AppendFails` and `DumpFails`
in between. `Kill` ends the process anywhere, and its browsers with it (what becomes of a chromedriver whose
python is killed is outside of the code). `FindLinks` finds any number of the first links of a subject, none
included: `find_elements` neither waits for the result page nor looks for a challenge, and fewer links are no error.
`saved`, `lost`, `dropped` and `overlooked` are history variables for what became of each link.

**`SeedPipeline`** is the endpoint and the python it starts. The timetable of a faculty is a
number that grows; the page, the JSON, the seed and the database hold the number they were made from.
`Post` takes the mutex (or the answer is 409); `Timeout` kills python and leaves the child;
`Return` waits for the output to be closed, which the child keeps open. `Exit` is what python does
with a child's exit code. The children are sketched from `PageFetch`, `TimetableImport` and
`SeedScript`: pages may be kept, scrapers may give up without an error (`ScraperGivesUp`), a JSON file may be
cut off (`ScraperBreaks`), and `Seed` may fail before or after TRUNCATE, or end well over empty tables.
`LoadScrapers` imports the scrapers of each term's folder: one that cannot be imported is left out, and only a
folder without any is an error. `Restart` ends
all processes, with or without the files of the disk.

The `MC` modules add what only TLC needs: symmetry and the `Validators` of clients
(`MCResponseCache`), symmetry of the scripts (`MCSeedScript`, for runs without liveness), the sample pages
(`MCPageFetch`, `MCTimetableImport`) and the menu of subjects (`MCDescriptionScraper`).

## Runs

| Run | Bounds | What it shows |
|---|---|---|
| `limiter` | 2 clients, limit 1, window 1, clock 6 | `BurstBound`: at most two quotas in any window's length; `RejectionJustified`; the refinement of `FixedWindow`; `IdleVisitorsForgotten`: an unused visitor leaves the map by the second cleanup after its window. The clock covers three cleanups and several windows. |
| `cache` | 2 clients, of which one validates by date; 3 keys, 2 places, lifetime 2, a second of 2 ticks, one reseed, clock 4 | `BoundedStaleness`; `BodiesAreRecent`: what a client is told to keep, 304 after 304, is no older than a lifetime and a second; `CapacityBound` and `EvictsOldestOnly`, with two insertions in flight and two generations of entries. A fill may be overtaken by a reseed and by another fill within a tick; fills that take ticks (`MaxLatency`) are left to the theorems and to `cache_dates`. |
| `seed_single` | 1 runner, 3 files (0 to 2), replaced at any moment, 3 crashes | `SkipIsSafe` and `EventuallySeeded`: on one lasting disk the checksum protocol is right, whatever crashes; `NeverDuplicated` and `SeededMeansLoaded`. |
| `seed_concurrent` | 3 runners, 2 files | `ReviewsKept`, `EveryScriptEnds`: with cycles of two and three scripts, all end. |
| `queries` | 2 requests of 5 kinds, 3 connections, 2 offerings of a section, 1 reseed, 1 review | `NoConnectionLost`, `NeverWedged`, `PartialOnlyIfReplaced`, `EveryRequestAnswered`, and `ListedAreCounted`: the statistics of a response are of all reviews of its list, also when one is posted between the two queries. |
| `fetch` | 1 stem, three runs from any file, a term named up to twice; 0, 69, 70, 77 and 140 rows around the threshold of 70 and its tie (55 % of 140), a stub, two pages of cancellations | `StillGuarded`: after all runs a timetable that could afford their losses is still one that the guard protects; `ExitTruthful`; `NeverEmptied`. Stems share nothing but the counters, and a stem that is fetched twice in a run can count in both of them. |
| `import` | 2 pages, one of up to 4 rows out of 8 kinds and one of up to 2; 3 letters, 2 ids, 2 terms; each JSON file is without courses before, or of an earlier page | `RightCourse`, `RightSection`, `EveryRowOnce`, `ForeignKeys` of the generator on what the parser makes, and `AsOnThePage` of both. Two files for the offsets, two headers on a page for what carries over, 2 rows of 4 in a nested table. |
| `descriptions` | 2 threads, 2 subjects with 3 courses, 2 attempts, 2 runs | `NoLostUpdate`, `OncePerRun`, `BrowsersClosed`, `Accounted`, `RunEnds`. The second run appends to what the first left, a broken file included. |
| `pipeline` | 2 faculties, 2 requests, 1 change of each timetable, 1 restart | `OneChild`, `FinishedIsCurrent`, `NeverBackwards`, `MutexReleased`. The two faculties share a folder of scrapers. Two requests are enough for a second to come while the first one's orphan lives. |
| `queries_wedge`, `seed_silent_failure`, `cache_dates` | 2 requests on 2 connections; 1 runner and a broken file; 1 key and a client that sends tag and date | Violations, see below. |

Deadlock is checked in the runs of the server, which has no last state. The scripts do end
(`SeedScript`, `PageFetch`, `TimetableImport`, `DescriptionScraper`), or have no request left to
accept (`SeedPipeline`), and those runs turn the check off; that they end, and do not hang, is what
`EveryScriptEnds`, `RunEnds` and `MutexReleased` say.
All clocks, versions, crashes and reviews are bounded by a constant (`Max...`); the proofs hold
for every value of these bounds.

### What the code does not keep

* `queries_wedge`: as many concurrent section requests as connections wait for each other;
  without timeouts only a client that gives up frees them.
* `seed_silent_failure`: without `ON_ERROR_STOP` a failed load is recorded as done, and no
  later run repairs it.
* `cache_dates`: "serves consistent HTTP caching headers/validators" (`response_cache.go:151-152`) fails a client
  that sends both headers, as browsers do. Its tag does not match, the code falls through to its date, which lies in
  the second of the refill, and the 304 files the old body under the new tag. From then on the tag matches too, so
  the bound of `BodiesAreRecent` does not hold of such a client: the old body lasts as long as its new tag does.

No run is kept for the following, but a constant of a `.cfg` shows each:

* `Exclusive = FALSE` with two runners and `NeverDuplicated`: "TRUNCATE then INSERT so we never
  duplicate" (`seed.sh`) holds of one script at a time only. Both load under one set of locks after the other.
* `Ephemeral = TRUE` with a crash and `SkipIsSafe`: TRUNCATE keeps the old checksum. A script that is
  interrupted after it and restarted with the old file of its image skips over empty tables.
  `Misreads = TRUE` with a crash breaks it too.
* `Validators <- BothHeaders` in `ResponseCache.cfg` and `BodiesAreRecent`: the last sentence above.

The code and its documentation disagree in these places, which properties state as the code has them:

* "fetch exits 3 when any file was skipped by the guard" (`run_seed_pipeline.py:12`, and the help of
  `--fail-on-guard-skip`, `fetch_page_sources.py:375-376`): it exits 1 if any page failed as well
  (`fetch_page_sources.py:423-424`), and nothing but a log line then tells of the pages that were kept. `ExitTruthful`
  says what each code does tell.
* "Every course always has at least one section record" and "all activity types are stored consistently in
  section_activities" (the docstring of `process_sections`, `generate_seed.py:131-132`): the rows of an entry that has no letter
  anywhere make neither a section nor an activity (`generate_seed.py:155`, `190-192`). `EveryRowOnce` promises the
  rows of entries with a letter only.
* "Exit with error code if any scraper failed" (`scrape.py`): the `main` of a scraper prints its exception and
  returns, so that an old JSON file counts as its result, and a scraper that cannot be imported is left out.
  `FinishedIsCurrent` excepts both, and so the promise is empty for them: no property here finds an old faculty behind a pipeline
  that reports success. It also excepts a load that fails silently (`seed_silent_failure`).

What properties had to step around, each a behaviour of the code that the models reproduce:

* `PartialOnlyIfReplaced` is the strongest that holds of the answers: a reseed between two queries
  of one request does turn into a 200 with empty sections.
* `NeverEmptied` and `StillGuarded` except a saved page that cannot be read: the guard lets any page replace it,
  one without rows included, although nobody asked for that (`fetch_page_sources.py:193-196`).
* `StillGuarded` is about a series of runs, and what it leaves of a timetable gets smaller with each: the guard
  compares with the last page only, so that a site that loses 45 % again and again is followed down to 70 rows, and
  from there to one.
* `AsOnThePage` is about the pages that were scraped now. A scraper that gives up leaves the JSON of an earlier page,
  and the seed has that page's rows.
* `Accounted` excepts the links that a result page did not show: the subject is done without them, and
  without a message.
* `RightSection` is about one entry: a course that has two entries in the JSON (the export has such
  courses) gets two sections with the same letter.
* `AsOnThePage` takes the letter and the type from where the parser finds them: a room with
  "STUDIO" in its name makes an activity of type STDO of its own.
* Courses without an id under one department and term become one course of the seed, and a term
  that is named twice passes the test for partial seeds.

### Fairness

* Limiter: the clock goes on and the cleanup goroutine, once woken, runs: the mutex is
  always released because `Limit()` does not block under it.
* `SeedScript`: a script goes on (weak), and a lock that becomes free again and again is
  granted (strong), because PostgreSQL queues those who wait. `RunFairness` is the restart
  of a failed container and later deployments.
* `CatalogQueries`: a query ends (weak), and one who waits for a connection gets one if
  connections become free again and again (strong): the pool wakes waiters in turn. No
  fairness is given to `Fail`: neither the server nor the pool has a timeout.
* `DescriptionScraper`: each thread goes on and the main thread sees the last one end (weak).
  Requests to a browser have timeouts, so that no step of a thread lasts for ever. Weak fairness suffices for the
  lock too: its holder always reaches `Release`, and there are finitely many courses.
* `SeedPipeline`: the goroutine of the handler and the children go on (weak): the requests of the
  children have timeouts. Nothing is assumed of `Timeout`, `Restart`, new requests or new timetables.

## Proofs

Each `*Proofs` module proves `Spec => []IInv` with one lemma per action, and each property
from `IInv`.

* **`RateLimiterProofs`** (assuming `LimiterAssumption`). `IInv` ties the history to the map: the
  admissions of a client fall into windows, at most `Limit` in each, and windows that follow one
  another are more than `Window` apart. `BurstBound` is not inductive by itself; it follows
  because a stretch of `Window` meets at most two of these windows.
  `LimiterRefinesQuota` maps each step to a step of `FixedWindow` or to a stutter; cleanup is a
  stutter, since it removes only visitors whose window has passed.
* **`ResponseCacheProofs`** (assuming `CacheAssumption`). `IInv` says when a body was read on each
  leg of its way (handler, entry, entry in hand, reply) and by when its entry expires;
  staleness adds up to a lifetime and a fill. `CapacityIsBounded` needs the cardinality of what
  remains after eviction. `OldestIsEvicted` needs that an
  insertion cleans up as of the time its handler took before it had the lock, which is not after now; so what it
  drops as expired costs nothing that is still live, and one victim makes room (`OneVictim`), because
  the store was within its bound. `BodiesStayRecent` assumes `OneHeader`: each client validates by the tag alone or by the
  date alone. A date the client takes over from a 304 never gets past the second of its body's own fill, however often it is
  confirmed, which bounds how old a body can get; by the tag it is the body itself. `cache_dates` shows why the assumption is needed.
* **`CatalogQueriesProofs`** (assuming `QueriesAssumption`). `IInv` says which connections a
  request has at each stage and that no two have the same. `EnoughConnections` assumes
  fewer requests than connections: if all are lent, two are with one request, which is then
  reading activities and not waiting. `PartialMeansReplaced` needs that an id is never of a
  catalog yet to be loaded, and `StatisticsCoverTheList` that no review goes away (`ListInv`).

* **`SeedScriptProofs`** (assuming `SeedAssumption`). `CascadeStops` shows that TRUNCATE ... CASCADE
  closes on the tables the script names, so `ReviewsAreKept` needs no condition on who runs. The
  others assume `Serial`: scripts run in one place only, as the migrate service of docker-compose,
  or something keeps them apart, as the pipeline's mutex inside one process. At most one script is
  then past its start, and it loads into tables that its own TRUNCATE emptied (`EmptiedInv`).
  `SuccessIsTrue` needs `Broken = {}` as well (no statement of a file fails); the run
  `seed_silent_failure` shows that it cannot be dropped.
  `SkipsAreSafe` is about one place whose disk lasts (`OneDisk`). `OneSumInv`: the table has one checksum
  at most, of no file newer than the last one generated, and the script that replaces it has seen it.
  `MatchInv`: a checksum that matches the disk is that of the rows in the database, and no script is on its way
  with it, so that one which dies after TRUNCATE is not skipped the next time. `TakenInv`: a file that still has
  the checksum which a script took is the one it loads, so that replacing it in between costs a further load and no
  wrong skip. TLC finds a counterexample as soon as one hypothesis is dropped:
  a second runner (even an exclusive one), `Ephemeral`, `Misreads`, or a broken file.

* **`PageFetchProofs`** (assuming `FetchAssumption`: any ratio from 1 to 100, any size, any number of runs).
  `StillGuarded` is itself inductive over the steps of all runs, once the page and `owed` are typed: an accepted page either
  begins a new count or has at least the ratio of the page before (`ShouldPreserve` is false), which is what `owed` is multiplied by.
  `CountsInv`: what is asked is still to do, failed, kept or written, each stem possibly several of these.
  `FilesInv`: a file that is not in `written` is as it was `before`, which `OthersAreUntouched` says.
  `TimetablesAreNeverEmptied` is the first test of `ShouldPreserve`, for every step that has a page to compare with.
* **`SeedPipelineProofs`** (assuming `PipelineAssumption`). `LockInv`: while a run is served
  the mutex is held, one run is served at most, and a child lives only while its run is, orphan or not;
  this gives `OneWriter`.
  `OrderInv`: page, JSON, seed and rows are in this order of age, as long as the disk keeps its files.
  `CurrentInv` and `FreshInv`: a faculty that the child has dealt with, and that was neither kept nor
  given up, is at least as new as the timetables at the beginning. A scraper that was not imported counts as given up (`silent`). `SuccessIsCurrent` needs `OneWriter`,
  since a second child could undo what the first one did.
* **`DescriptionScraperProofs`** (assuming `ScraperAssumption`). `LockInv`: whoever is between `Acquire`
  and `Release` holds the lock, so that what it has read is still what the file holds when it writes.
  `FileInv` ties the file to `saved`. `SavedInv`: what this run has
  saved is of a link before the one in hand, of a subject that no attempt will begin again, which makes
  `SavedOncePerRun` inductive across attempts. `WorkInv`: a link that is neither in the queue nor ahead of a
  thread is saved, lost, passed over or was never shown (`overlooked`). `BrowserInv` and `JobsInv` are the bookkeeping of threads.
* **`TimetableImportProofs`** is first about the generator alone (assuming `GeneratorAssumption`, for any
  JSON files: the parser is not assumed). `PlaceInv`, `KeyInv` and `FitInv` follow the index of a course from the
  list of its file to the list of all; `UuidInv` numbers all uuids below the counter, which makes them distinct.
  `SectionsLeadToTheirCourse` and `KeysAreSatisfied` need them. `ActivitiesAreInTheirSection` needs `LetterInv` (the
  map of letters is what the rows so far have) and `CurrentInv` (the current section is that of the nearest letter).
  `RowsAreKept` rests on `OnceInv`: `Owed` are the places (file, entry, row) that the seed owes an activity, and
  the activities so far are of those that were passed, one of each (`OneEach`), through every append and every merge.

  Then the pages (assuming `ImportAssumption`: the scrapers are given a list of files, a page is a sequence of rows).
  While the scrapers run, `ImportInv` keeps the invariants of the generator, which is at its start, and `PageInv`: the
  course in hand is the one under the last header read, its sections are the rows with a type up to here, in their
  order (`SectionsUpTo`), and its id is that of the first summary (`IdUpTo`). A header or the end of the page closes it, and
  what is closed is as the whole page has it (`IsOn`). A page that cannot be read leaves its file as
  it was, and outside of `fresh`: of such a file only what holds of any JSON is proved. `LetterOnPage` and `IdOnPage` then turn the sections of the JSON into rows of the page:
  `SeedFollowsThePages` is a statement about the page and the seed in which the JSON no longer occurs.
  `ImportIsCorrect` carries the theorems about any JSON files over to `ImportSpec`.
  `HasLeast` takes least elements from the well-founded order of the naturals (`WFMin`), which replaces an induction
  over the rows wherever an operator takes the first or the last row of a kind.

Only model-checked are the liveness properties: `IdleVisitorsForgotten`, `EventuallySeeded`, `EveryScriptEnds`,
`EveryRequestAnswered`, `RunEnds` and `MutexReleased`. They need fairness and ENABLED. Every invariant and every
action property of the runs is a theorem.

## Not modelled

* Instructors, models, configuration: a query and a reply, or records, without state. Handlers
  of labs, tutorials and section activities have no route. `getVisitor` and
  `scrape_courses.py` 187 to 302 have no caller.
* Authentication and the body of the pipeline's request, and arguments that the fetcher refuses:
  they end the request or the run before anything changes.
* Notes, times, rooms, languages, names and descriptions of courses: text that is copied.
* The database server that commits a statement of a dead client late; pgx and psql beyond how they are used.
* The review backup: a scheduled export run by the hosting service.
* Of reviews, who wrote them: that an address has one review of a course is the UNIQUE constraint of the table,
  and the code has no check of its own. `GetAllReviews` is one query.
* The filters of the course list: see the plan.

## Plan

1. `CatalogServing`: `ResponseCache` over `CatalogQueries` and a reseed in two transactions.
   How long an empty or partial answer is served.
2. `CourseFilter`: the conditions on faculty and code range, over several codes: do the pages partition
   the offerings, does a code range hold what its name says. From the code, to be settled there: the total counts distinct codes
   while a page holds offerings of codes (code and term); a comment has "1000s -> 1000-1999" where the query
   has `< 1999`; a range that is not recognised takes a place among the arguments without an argument, so that the
   query of the page fails after the one of the count has not.
3. `Deployment`: migrate, seed, serve and the health check of `render.yaml` over restarts.
4. Proofs: that a run of the pipeline leaves what `PageFetch`, `TimetableImport` and `SeedScript` promise one by
   one, once `SeedPipeline` is stated over them instead of over a sketch of each.
