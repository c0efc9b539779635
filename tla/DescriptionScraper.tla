-------------------------- MODULE DescriptionScraper --------------------------
(***************************************************************************)
(* scraping/scrapers/descriptions/scrape_courses.py: the descriptions of   *)
(* the course catalog, subject by subject.                                 *)
(*                                                                         *)
(* Worker threads take the subjects in order, each with a browser of its   *)
(* own, and append every course to one JSON file under a lock: the file is *)
(* read, truncated and written anew.  A course is its subject, the number  *)
(* of its link and the run of the program.  Delays are left out; quitting  *)
(* a browser is taken to succeed, and one that outlives a killed program   *)
(* is nobody's.                                                            *)
(***************************************************************************)
EXTENDS Integers, Sequences, FiniteSets

CONSTANTS Workers,    \* max_workers threads
          Subjects,   \* the values of the drop-down menu, in order
          Links,      \* the number of course links the catalog has of each subject
          RetryCount, \* attempts at a subject
          Nobody,     \* no thread
          MaxRuns     \* bound on the runs of the program

SubjectSet == {Subjects[i] : i \in DOMAIN Subjects}

ASSUME ScraperAssumption ==
    /\ Nobody \notin Workers
    /\ Subjects \in Seq(SubjectSet)
    /\ \A i, j \in DOMAIN Subjects : Subjects[i] = Subjects[j] => i = j
    /\ Links \in [SubjectSet -> Nat]
    /\ RetryCount \in Nat \ {0} /\ MaxRuns \in Nat

VARIABLES phase,   \* of the main thread
          menu,    \* the main thread has a browser
          queue,   \* subjects that no thread has taken
          job,     \* the subject of each thread
          pc,      \* where each thread is
          attempt, \* attempt at the subject
          found,   \* the number of links the result page has shown
          link,    \* number of the link in hand
          browser, \* threads whose browser is open
          lock,    \* the thread that holds file_lock
          data,    \* what each thread has read of the file
          file,    \* [state, courses]: courses_data.json
          runs,    \* runs begun
          saved,   \* history: courses written and not lost to a failed write since
          lost,    \* history: courses of the run that a failed write has lost
          dropped, \* history: courses of the run that were passed over
          overlooked \* history: courses of the run that the result page did not show

history == <<saved, lost, dropped, overlooked>>
threads == <<job, pc, attempt, found, link, browser>>
vars == <<phase, menu, queue, threads, lock, data, file, runs, history>>

Course(s, i) == [subject |-> s, link |-> i, run |-> runs]
CourseSet == [subject : SubjectSet, link : Nat, run : Nat]

(* "cut" is no JSON, "garbled" no UTF-8 either. *)
FileSet == [state : {"missing", "json", "cut", "garbled"}, courses : Seq(CourseSet)]
Json(courses) == [state |-> "json", courses |-> courses]
Broken(state) == [state |-> state, courses |-> <<>>]

Idle == /\ job' = [w \in Workers |-> Nobody]
        /\ pc' = [w \in Workers |-> "idle"]
        /\ attempt' = [w \in Workers |-> 0]
        /\ found' = [w \in Workers |-> 0]
        /\ link' = [w \in Workers |-> 0]
        /\ browser' = {}
        /\ lock' = Nobody
        /\ data' = [w \in Workers |-> <<>>]

Init == /\ phase = "off" /\ menu = FALSE
        /\ queue = <<>>
        /\ job = [w \in Workers |-> Nobody]
        /\ pc = [w \in Workers |-> "idle"]
        /\ attempt = [w \in Workers |-> 0]
        /\ found = [w \in Workers |-> 0]
        /\ link = [w \in Workers |-> 0]
        /\ browser = {}
        /\ lock = Nobody
        /\ data = [w \in Workers |-> <<>>]
        /\ file = Broken("missing")
        /\ runs = 0
        /\ saved = {} /\ lost = {} /\ dropped = {} /\ overlooked = {}

-----------------------------------------------------------------------------
(* The main thread *)

Run == /\ phase = "off" /\ runs < MaxRuns
       /\ phase' = "menu" /\ menu' = TRUE
       /\ runs' = runs + 1
       /\ dropped' = {} /\ lost' = {} /\ overlooked' = {}
       /\ UNCHANGED <<queue, threads, lock, data, file, saved>>

(* No browser, no link to the menu, or no subject in it. *)
NoSubjects == /\ phase = "menu"
              /\ phase' = "off" /\ menu' = FALSE
              /\ UNCHANGED <<queue, threads, lock, data, file, runs, history>>

Submit == /\ phase = "menu"
          /\ phase' = "running" /\ menu' = FALSE
          /\ queue' = Subjects
          /\ UNCHANGED <<threads, lock, data, file, runs, history>>

Complete == /\ phase = "running" /\ queue = <<>>
            /\ \A w \in Workers : pc[w] = "idle"
            /\ phase' = "off"
            /\ UNCHANGED <<menu, queue, threads, lock, data, file, runs, history>>

(* The end of the process.  A write that is under way leaves a part of the *)
(* file.                                                                   *)
Kill == /\ phase # "off"
        /\ phase' = "off" /\ menu' = FALSE
        /\ queue' = <<>>
        /\ Idle
        /\ IF \E w \in Workers : pc[w] = "dump"
           THEN saved' = {} /\ \E state \in {"cut", "garbled"} : file' = Broken(state)
           ELSE UNCHANGED <<saved, file>>
        /\ dropped' = {} /\ lost' = {} /\ overlooked' = {}
        /\ UNCHANGED runs

-----------------------------------------------------------------------------
(* scrape_subject *)

At(w, place) == phase = "running" /\ pc[w] = place
Go(w, place) == pc' = [pc EXCEPT ![w] = place]
main == <<phase, menu, runs>>

TakeSubject(w) ==
    /\ At(w, "idle") /\ queue # <<>>
    /\ job' = [job EXCEPT ![w] = Head(queue)]
    /\ queue' = Tail(queue)
    /\ attempt' = [attempt EXCEPT ![w] = 1]
    /\ Go(w, "open")
    /\ UNCHANGED <<main, found, link, browser, lock, data, file, history>>

OpenBrowser(w) ==
    /\ At(w, "open")
    /\ browser' = browser \cup {w}
    /\ Go(w, "search")
    /\ UNCHANGED <<main, queue, job, attempt, found, link, lock, data, file, history>>

AllLinks(s) == {Course(s, i) : i \in 1..Links[s]}

(* find_elements does not wait: the result page shows the links that have  *)
(* come so far, none if it is a challenge page, and no error tells.        *)
FindLinks(w) ==
    /\ At(w, "search")
    /\ \E n \in 0..Links[job[w]] :
          /\ found' = [found EXCEPT ![w] = n]
          /\ overlooked' = overlooked \cup {Course(job[w], i) : i \in (n + 1)..Links[job[w]]}
    /\ link' = [link EXCEPT ![w] = 1]
    /\ Go(w, "links")
    /\ UNCHANGED <<main, queue, job, attempt, browser, lock, data, file, saved, lost, dropped>>

MoreAttempts(w) == attempt[w] < RetryCount

(* Mutant of AttemptFails: the browser is closed after the last one only.  *)
AttemptFailsOpen(w) ==
    /\ At(w, "open") \/ At(w, "search")
    /\ UNCHANGED browser
    /\ IF MoreAttempts(w)
       THEN /\ attempt' = [attempt EXCEPT ![w] = @ + 1]
            /\ Go(w, "open")
            /\ UNCHANGED <<job, dropped>>
       ELSE /\ dropped' = dropped \cup AllLinks(job[w])
            /\ job' = [job EXCEPT ![w] = Nobody]
            /\ Go(w, "idle")
            /\ UNCHANGED attempt
    /\ UNCHANGED <<main, queue, found, link, lock, data, file, saved, lost, overlooked>>

(* An exception before the links are known: close the browser, if it was   *)
(* opened, and begin again.                                                *)
AttemptFails(w) ==
    /\ At(w, "open") \/ At(w, "search")
    /\ browser' = browser \ {w}
    /\ IF MoreAttempts(w)
       THEN /\ attempt' = [attempt EXCEPT ![w] = @ + 1]
            /\ Go(w, "open")
            /\ UNCHANGED <<job, dropped>>
       ELSE /\ dropped' = dropped \cup AllLinks(job[w])
            /\ job' = [job EXCEPT ![w] = Nobody]
            /\ Go(w, "idle")
            /\ UNCHANGED attempt
    /\ UNCHANGED <<main, queue, found, link, lock, data, file, saved, lost, overlooked>>

AtLink(w) == At(w, "links") /\ link[w] <= found[w]
NextLink(w) == link' = [link EXCEPT ![w] = @ + 1] /\ Go(w, "links")
ThisCourse(w) == Course(job[w], link[w])

(* Mutant of SkipLink: an error at a link is an error of the attempt.      *)
SkipLinkRetry(w) ==
    /\ AtLink(w)
    /\ dropped' = dropped \cup {ThisCourse(w)}
    /\ browser' = browser \ {w}
    /\ attempt' = [attempt EXCEPT ![w] = @ + 1]
    /\ Go(w, IF attempt[w] < RetryCount THEN "open" ELSE "idle")
    /\ UNCHANGED <<main, queue, job, found, link, lock, data, file, saved, lost, overlooked>>

(* Mutant of SkipLink: a challenge page ends the subject.                  *)
SkipLinkBreak(w) ==
    /\ AtLink(w)
    /\ dropped' = dropped \cup {ThisCourse(w)}
    /\ link' = [link EXCEPT ![w] = found[w] + 1]
    /\ UNCHANGED <<main, queue, job, pc, attempt, found, browser, lock, data, file, saved, lost,
                   overlooked>>

(* A challenge page, a page without a heading, or any error at the link.   *)
SkipLink(w) ==
    /\ AtLink(w)
    /\ dropped' = dropped \cup {ThisCourse(w)}
    /\ NextLink(w)
    /\ UNCHANGED <<main, queue, job, attempt, found, browser, lock, data, file, saved, lost,
                   overlooked>>

ScrapeLink(w) ==
    /\ AtLink(w)
    /\ Go(w, "append")
    /\ UNCHANGED <<main, queue, job, attempt, found, link, browser, lock, data, file, history>>

EndSubject(w) ==
    /\ At(w, "links") /\ ~AtLink(w)
    /\ browser' = browser \ {w}
    /\ job' = [job EXCEPT ![w] = Nobody]
    /\ Go(w, "idle")
    /\ UNCHANGED <<main, queue, attempt, found, link, lock, data, file, history>>

-----------------------------------------------------------------------------
(* append_course_to_json *)

(* Mutant of Acquire: no lock. *)
AcquireNothing(w) ==
    /\ At(w, "append")
    /\ Go(w, "read")
    /\ UNCHANGED <<main, queue, job, attempt, found, link, browser, lock, data, file, history>>

Acquire(w) ==
    /\ At(w, "append") /\ lock = Nobody
    /\ lock' = w
    /\ Go(w, "read")
    /\ UNCHANGED <<main, queue, job, attempt, found, link, browser, data, file, history>>

(* A file that is missing or no JSON is an empty list. *)
Read(w) ==
    /\ At(w, "read") /\ file.state # "garbled"
    /\ data' = [data EXCEPT ![w] = file.courses]
    /\ Go(w, "open file")
    /\ UNCHANGED <<main, queue, job, attempt, found, link, browser, lock, file, history>>

(* Mutant of Release: the lock is kept. *)
ReleaseNothing(w) == UNCHANGED lock

(* The end of the with statement, and of the work on the link. *)
Release(w) == lock' = Nobody

(* An exception other than FileNotFoundError and JSONDecodeError, or a     *)
(* file that cannot be opened: the course is not saved.                    *)
AppendFails(w) ==
    /\ \/ At(w, "read") /\ file.state = "garbled"
       \/ At(w, "open file")
    /\ Release(w)
    /\ dropped' = dropped \cup {ThisCourse(w)}
    /\ NextLink(w)
    /\ UNCHANGED <<main, queue, job, attempt, found, browser, data, file, saved, lost, overlooked>>

(* open(..., 'w') truncates the file. *)
Truncate(w) ==
    /\ At(w, "open file")
    /\ file' = Broken("cut")
    /\ Go(w, "dump")
    /\ UNCHANGED <<main, queue, job, attempt, found, link, browser, lock, data, history>>

Dump(w) ==
    /\ At(w, "dump")
    /\ file' = Json(Append(data[w], ThisCourse(w)))
    /\ saved' = saved \cup {ThisCourse(w)}
    /\ Release(w)
    /\ NextLink(w)
    /\ UNCHANGED <<main, queue, job, attempt, found, browser, data, lost, dropped, overlooked>>

(* The disk is full, for example: a part of the list stays in the file. *)
DumpFails(w) ==
    /\ At(w, "dump")
    /\ \E state \in {"cut", "garbled"} : file' = Broken(state)
    /\ Release(w)
    /\ dropped' = dropped \cup {ThisCourse(w)}
    /\ saved' = {} /\ lost' = lost \cup {c \in saved : c.run = runs}
    /\ NextLink(w)
    /\ UNCHANGED <<main, queue, job, attempt, found, browser, data, overlooked>>

Subject(w) == \/ TakeSubject(w) \/ OpenBrowser(w) \/ FindLinks(w) \/ AttemptFails(w)
              \/ SkipLink(w) \/ ScrapeLink(w) \/ EndSubject(w)
AppendCourse(w) == \/ Acquire(w) \/ Read(w) \/ Truncate(w) \/ Dump(w)
                   \/ AppendFails(w) \/ DumpFails(w)
Thread(w) == Subject(w) \/ AppendCourse(w)

Next == Run \/ NoSubjects \/ Submit \/ Complete \/ Kill \/ \E w \in Workers : Thread(w)

Spec == Init /\ [][Next]_vars

(* Every request has a timeout and every thread is scheduled. *)
Fairness == WF_vars(Complete) /\ \A w \in Workers : WF_vars(Thread(w))

FairSpec == Spec /\ Fairness

-----------------------------------------------------------------------------
Places == {"idle", "open", "search", "links", "append", "read", "open file", "dump"}

(* Every variable has its type. *)
TypeOK ==
    /\ phase \in {"off", "menu", "running"} /\ menu \in BOOLEAN
    /\ queue \in Seq(SubjectSet)
    /\ job \in [Workers -> SubjectSet \cup {Nobody}]
    /\ pc \in [Workers -> Places]
    /\ attempt \in [Workers -> 0..RetryCount]
    /\ found \in [Workers -> Nat] /\ link \in [Workers -> Nat]
    /\ browser \subseteq Workers
    /\ lock \in Workers \cup {Nobody}
    /\ data \in [Workers -> Seq(CourseSet)]
    /\ file \in FileSet
    /\ runs \in 0..MaxRuns
    /\ saved \subseteq CourseSet /\ lost \subseteq CourseSet
    /\ dropped \subseteq CourseSet /\ overlooked \subseteq CourseSet

(* "Append a single course to the JSON file (thread-safe)": whatever the   *)
(* threads do, the file has every course that was saved, by this run or by *)
(* the ones before, unless a write failed or was cut off since.            *)
NoLostUpdate ==
    file.state = "json" => {file.courses[i] : i \in DOMAIN file.courses} = saved

(* An attempt is repeated only before its subject has a course: no link is *)
(* saved twice by one run.                                                 *)
OncePerRun == \A i, j \in DOMAIN file.courses : file.courses[i] = file.courses[j] => i = j

(* "finally": a thread that waits for a subject, or for a browser, has     *)
(* none open, whatever the attempt before came to.                         *)
BrowsersClosed == /\ \A w \in browser : pc[w] \notin {"idle", "open"}
                  /\ menu => phase = "menu"
                  /\ phase # "running" => browser = {}

OfThisRun == {file.courses[i] : i \in {j \in DOMAIN file.courses : file.courses[j].run = runs}}
Catalog == UNION {AllLinks(s) : s \in SubjectSet}

(* When a run is complete, the file has of it exactly the links of the     *)
(* catalog but those that no result page showed, those that were passed    *)
(* over with a message and those that a failed write has lost: a subject   *)
(* that is tried again, or another thread, costs none.                     *)
Accounted ==
    phase = "running" /\ queue = <<>> /\ (\A w \in Workers : pc[w] = "idle") =>
       OfThisRun = Catalog \ (overlooked \cup dropped \cup lost)

(* A run ends. *)
RunEnds == phase = "running" ~> phase = "off"
=============================================================================
