----------------------- MODULE DescriptionScraperProofs -----------------------
(***************************************************************************)
(* What holds of the description scraper for any number of threads,        *)
(* subjects, links, attempts and runs, wherever its steps fail.            *)
(***************************************************************************)
EXTENDS DescriptionScraper, TLAPS

Elements(s) == {s[i] : i \in DOMAIN s}
Distinct(s) == \A i, j \in DOMAIN s : s[i] = s[j] => i = j
Critical == {"read", "open file", "dump"}
Inside == {"links", "append"} \cup Critical

(* Nothing goes on before the subjects are submitted. *)
PhaseInv == /\ phase # "running" => /\ queue = <<>> /\ browser = {}
                                    /\ \A w \in Workers : pc[w] = "idle"
            /\ menu => phase = "menu"

(* A subject is in the queue, with one thread, or done. *)
JobsInv == /\ Distinct(queue)
           /\ \A w \in Workers : pc[w] # "idle" =>
                 /\ job[w] \in SubjectSet
                 /\ job[w] \notin Elements(queue)
                 /\ \A v \in Workers \ {w} : pc[v] # "idle" => job[v] # job[w]

BrowserInv == \A w \in browser : pc[w] \notin {"idle", "open"}

LockInv == \A w \in Workers : pc[w] \in Critical => lock = w

(* What a thread has read is what was saved, as long as it holds the lock. *)
FileInv ==
    /\ file.state # "json" => file.courses = <<>>
    /\ Distinct(file.courses)
    /\ (\A w \in Workers : pc[w] # "dump") => Elements(file.courses) = saved
    /\ \A w \in Workers :
          /\ pc[w] = "open file" => data[w] = file.courses
          /\ pc[w] = "dump" => /\ Elements(data[w]) = saved /\ Distinct(data[w])
                               /\ file.state = "cut"

(* What this run is done with, saved or not, is behind every thread. *)
Marked == saved \cup lost \cup dropped
Passed(w, c) == pc[w] # "idle" /\ job[w] = c.subject => pc[w] \in Inside /\ c.link < link[w]
SavedInv ==
    \A c \in Marked :
       /\ c.run <= runs
       /\ phase = "menu" => c.run < runs
       /\ c.run = runs => c.subject \notin Elements(queue) /\ \A w \in Workers : Passed(w, c)

(* A thread goes through the links that it has found. *)
LinkInv ==
    \A w \in Workers :
       /\ pc[w] \in Inside => 1 <= link[w] /\ found[w] <= Links[job[w]]
       /\ pc[w] \in Inside \ {"links"} => link[w] <= found[w]

(* What the result page did not show is beyond what was found on it. *)
Beyond(w, c) == pc[w] # "idle" /\ job[w] = c.subject => pc[w] \in Inside /\ found[w] < c.link
BeyondInv ==
    /\ phase = "menu" => overlooked = {}
    /\ \A c \in overlooked :
          c.subject \notin Elements(queue) /\ \A w \in Workers : Beyond(w, c)

(* A saved course is one of the catalog and has not been given up. *)
ApartInv ==
    /\ saved \cap (lost \cup dropped \cup overlooked) = {}
    /\ \A c \in saved : c.run = runs => c \in AllLinks(c.subject)

(* Every link that is done is saved, lost, passed over or overlooked. *)
Known == saved \cup lost \cup dropped \cup overlooked
Ahead(w, s, i) == /\ pc[w] # "idle" /\ job[w] = s
                  /\ pc[w] \in Inside => link[w] <= i /\ i <= found[w]
Settled(s, i) == s \in Elements(queue) \/ Course(s, i) \in Known
WorkInv ==
    phase = "running" =>
       \A s \in SubjectSet : \A i \in 1..Links[s] :
          Settled(s, i) \/ \E w \in Workers : Ahead(w, s, i)

IInv == /\ TypeOK /\ PhaseInv /\ JobsInv /\ BrowserInv /\ LockInv
        /\ FileInv /\ SavedInv /\ LinkInv /\ BeyondInv /\ ApartInv /\ WorkInv

-----------------------------------------------------------------------------
(* Sequences *)

LEMMA EmptySequence == Elements(<<>>) = {} /\ Distinct(<<>>)
  BY DEF Elements, Distinct

LEMMA AppendOne ==
    ASSUME NEW S, NEW s \in Seq(S), NEW x \in S
    PROVE  /\ Append(s, x) \in Seq(S)
           /\ Elements(Append(s, x)) = Elements(s) \cup {x}
           /\ Distinct(s) /\ x \notin Elements(s) => Distinct(Append(s, x))
<1>1. /\ Append(s, x) \in Seq(S) /\ DOMAIN s = 1..Len(s) /\ Len(s) \in Nat
      /\ DOMAIN Append(s, x) = 1..(Len(s) + 1)
  OBVIOUS
<1>2. Append(s, x)[Len(s) + 1] = x /\ \A i \in 1..Len(s) : Append(s, x)[i] = s[i]
  OBVIOUS
<1>3. 1..(Len(s) + 1) = 1..Len(s) \cup {Len(s) + 1}
  BY <1>1
<1>4. Elements(Append(s, x)) = Elements(s) \cup {x}
  BY <1>1, <1>2, <1>3 DEF Elements
<1>5. Distinct(s) /\ x \notin Elements(s) => Distinct(Append(s, x))
  BY <1>1, <1>2, <1>3 DEF Distinct, Elements
<1> QED BY <1>1, <1>4, <1>5

LEMMA TakeOne ==
    ASSUME NEW S, NEW s \in Seq(S), s # <<>>
    PROVE  /\ Head(s) \in S /\ Tail(s) \in Seq(S)
           /\ Elements(s) = {Head(s)} \cup Elements(Tail(s))
           /\ Distinct(s) => Distinct(Tail(s)) /\ Head(s) \notin Elements(Tail(s))
<1>1. /\ Head(s) \in S /\ Tail(s) \in Seq(S) /\ Len(s) \in Nat \ {0}
      /\ DOMAIN s = 1..Len(s) /\ DOMAIN Tail(s) = 1..(Len(s) - 1)
      /\ Head(s) = s[1]
  OBVIOUS
<1>2. \A i \in 1..(Len(s) - 1) : Tail(s)[i] = s[i + 1]
  OBVIOUS
<1>3. \A i \in 1..Len(s) : i = 1 \/ (i - 1 \in 1..(Len(s) - 1) /\ s[i] = Tail(s)[i - 1])
  BY <1>1, <1>2
<1>4. \A i \in 1..(Len(s) - 1) : i + 1 \in 1..Len(s) /\ i + 1 # 1
  BY <1>1
<1>5. Elements(s) = {Head(s)} \cup Elements(Tail(s))
  <2>1. Elements(s) \subseteq {Head(s)} \cup Elements(Tail(s))
    <3> SUFFICES ASSUME NEW i \in 1..Len(s) PROVE s[i] \in {Head(s)} \cup Elements(Tail(s))
      BY <1>1 DEF Elements
    <3>1. CASE i = 1
      BY <1>1, <3>1
    <3>2. CASE i # 1
      BY <1>1, <1>3, <3>2 DEF Elements
    <3> QED BY <3>1, <3>2
  <2>2. Head(s) \in Elements(s)
    BY <1>1 DEF Elements
  <2>3. Elements(Tail(s)) \subseteq Elements(s)
    BY <1>1, <1>2, <1>4 DEF Elements
  <2> QED BY <2>1, <2>2, <2>3
<1>6. ASSUME Distinct(s) PROVE Distinct(Tail(s)) /\ Head(s) \notin Elements(Tail(s))
  <2>1. \A i, j \in 1..(Len(s) - 1) : s[i + 1] = s[j + 1] => i = j
    BY <1>1, <1>4, <1>6 DEF Distinct
  <2>2. Distinct(Tail(s))
    BY <1>1, <1>2, <2>1 DEF Distinct
  <2>3. \A i \in 1..(Len(s) - 1) : s[i + 1] # s[1]
    BY <1>1, <1>4, <1>6 DEF Distinct
  <2> QED BY <1>1, <1>2, <2>2, <2>3 DEF Elements
<1> QED BY <1>1, <1>5, <1>6

-----------------------------------------------------------------------------
(* Courses *)

LEMMA ACourse ==
    ASSUME TypeOK, NEW s \in SubjectSet, NEW i \in Nat
    PROVE  /\ Course(s, i) \in CourseSet
           /\ Course(s, i).subject = s /\ Course(s, i).link = i /\ Course(s, i).run = runs
<1>1. runs \in Nat
  BY ScraperAssumption DEF TypeOK
<1> QED BY <1>1 DEF Course, CourseSet

LEMMA SubjectsInOrder ==
    Subjects \in Seq(SubjectSet) /\ Distinct(Subjects) /\ Elements(Subjects) = SubjectSet
  BY ScraperAssumption DEF Distinct, Elements, SubjectSet

LEMMA SomeFiles ==
    /\ Broken("missing") \in FileSet /\ Broken("cut") \in FileSet /\ Broken("garbled") \in FileSet
    /\ \A s \in Seq(CourseSet) : Json(s) \in FileSet
  BY DEF Broken, Json, FileSet

LEMMA TheFile ==
    TypeOK => file.courses \in Seq(CourseSet)
  BY DEF TypeOK, FileSet

LEMMA SavedNumbers ==
    ASSUME TypeOK
    PROVE  /\ runs \in Nat
           /\ \A c \in Marked \cup overlooked :
                 c.link \in Nat /\ c.run \in Nat /\ c.subject \in SubjectSet
<1>1. Marked \cup overlooked \subseteq CourseSet
  BY DEF TypeOK, Marked
<1> QED BY <1>1, ScraperAssumption DEF TypeOK, CourseSet

(* The course in hand. *)
LEMMA InHand ==
    ASSUME TypeOK, JobsInv, NEW w \in Workers, pc[w] # "idle"
    PROVE  /\ job[w] \in SubjectSet /\ link[w] \in Nat
           /\ ThisCourse(w) \in CourseSet /\ AllLinks(job[w]) \subseteq CourseSet
           /\ ThisCourse(w).subject = job[w] /\ ThisCourse(w).link = link[w]
           /\ ThisCourse(w).run = runs
<1>1. job[w] \in SubjectSet /\ link[w] \in Nat
  BY DEF JobsInv, TypeOK
<1>2. \A i \in 1..Links[job[w]] : i \in Nat
  BY <1>1, ScraperAssumption
<1>3. AllLinks(job[w]) \subseteq CourseSet
  BY <1>1, <1>2, ACourse DEF AllLinks
<1> QED BY <1>1, <1>3, ACourse DEF ThisCourse

(* The file is in the hands of one thread. *)
LEMMA Alone ==
    ASSUME LockInv, NEW w \in Workers, pc[w] \in Critical
    PROVE  \A v \in Workers \ {w} : pc[v] \notin Critical
  BY DEF LockInv

(* A step of a thread leaves every link settled, or ahead of a thread.     *)
LEMMA WorkStep ==
    ASSUME WorkInv, NEW w \in Workers, UNCHANGED <<phase, runs>>,
           \A s \in SubjectSet : \A i \in 1..Links[s] :
              Course(s, i) \in Known => Course(s, i) \in Known',
           \A v \in Workers \ {w} : /\ pc'[v] = pc[v] /\ job'[v] = job[v]
                                   /\ link'[v] = link[v] /\ found'[v] = found[v],
           \A s \in SubjectSet : \A i \in 1..Links[s] :
              s \in Elements(queue) \/ Ahead(w, s, i) => Settled(s, i)' \/ Ahead(w, s, i)'
    PROVE  WorkInv'
<1> SUFFICES ASSUME phase = "running", NEW s \in SubjectSet, NEW i \in 1..Links[s]
             PROVE  Settled(s, i)' \/ \E v \in Workers : Ahead(v, s, i)'
  BY DEF WorkInv
<1>1. CASE s \in Elements(queue) \/ Ahead(w, s, i)
  BY <1>1
<1>2. CASE Course(s, i) \in Known
  BY <1>2 DEF Settled, Course
<1>3. ASSUME NEW v \in Workers \ {w}, Ahead(v, s, i) PROVE Ahead(v, s, i)'
  BY <1>3 DEF Ahead
<1> QED BY <1>1, <1>2, <1>3 DEF WorkInv, Settled

(* What this run is done with stays behind every thread.                   *)
LEMMA SavedStep ==
    ASSUME SavedInv, NEW w \in Workers, UNCHANGED <<phase, queue, runs>>, Marked' \subseteq Marked,
           \A v \in Workers \ {w} : pc'[v] = pc[v] /\ job'[v] = job[v] /\ link'[v] = link[v],
           \A c \in Marked : Passed(w, c) => Passed(w, c)'
    PROVE  SavedInv'
<1>1. \A c \in Marked, v \in Workers : Passed(v, c) => Passed(v, c)'
  BY DEF Passed
<1> QED BY <1>1 DEF SavedInv

(* A thread is done with the course in hand and goes on to the next link.  *)
LEMMA MarkStep ==
    ASSUME TypeOK, JobsInv, SavedInv, NEW w \in Workers, phase = "running",
           UNCHANGED <<phase, queue, runs, job>>,
           pc[w] \in Inside, pc'[w] \in Inside, link'[w] = link[w] + 1,
           \A v \in Workers \ {w} : pc'[v] = pc[v] /\ link'[v] = link[v],
           Marked' \subseteq Marked \cup {ThisCourse(w)}
    PROVE  SavedInv'
<1>0. pc[w] # "idle" /\ link[w] \in Nat
  BY DEF TypeOK, Inside, Critical
<1> SUFFICES ASSUME NEW c \in Marked'
             PROVE  /\ c.run <= runs
                    /\ c.run = runs => /\ c.subject \notin Elements(queue)
                                       /\ \A v \in Workers : Passed(v, c)'
  BY DEF SavedInv
<1>1. CASE c = ThisCourse(w)
  <2>1. c.run = runs /\ c.subject = job[w] /\ c.link = link[w] /\ c.link < link[w] + 1
    BY <1>0, <1>1, InHand
  <2>2. /\ job[w] \notin Elements(queue)
        /\ \A v \in Workers \ {w} : pc[v] # "idle" => job[v] # job[w]
    BY <1>0 DEF JobsInv
  <2> QED BY <1>0, <2>1, <2>2, SavedNumbers DEF Passed
<1>2. CASE c \in Marked
  <2>1. c.link \in Nat
    BY <1>2, SavedNumbers
  <2>2. c.link < link[w] => c.link < link'[w]
    BY <1>0, <2>1
  <2>3. \A v \in Workers : Passed(v, c) => Passed(v, c)'
    BY <1>0, <2>2 DEF Passed
  <2> QED BY <1>2, <2>3 DEF SavedInv
<1> QED BY <1>1, <1>2

(* A thread that has links counts them from one. *)
LEMMA LinkInHand ==
    ASSUME IInv, NEW w \in Workers, pc[w] \in Inside
    PROVE  /\ link[w] \in Nat /\ found[w] \in Nat
           /\ 1 <= link[w] /\ 1 <= link[w] + 1
<1>1. link[w] \in Nat /\ found[w] \in Nat
  BY DEF IInv, TypeOK
<1>2. 1 <= link[w]
  BY DEF IInv, LinkInv
<1> QED BY <1>1, <1>2

(* The course in hand has not been done with. *)
LEMMA InHandIsNew ==
    ASSUME IInv, NEW w \in Workers, pc[w] \in Inside \ {"links"} \/ (pc[w] = "links" /\ link[w] <= found[w])
    PROVE  /\ ThisCourse(w) \notin Marked \cup overlooked
           /\ ThisCourse(w) \in AllLinks(job[w])
<1> USE DEF IInv
<1>0. pc[w] # "idle" /\ pc[w] \in Inside
  BY DEF Inside, Critical
<1>1. /\ link[w] \in Nat /\ found[w] \in Nat /\ Links[job[w]] \in Nat /\ 1 <= link[w]
      /\ link[w] <= found[w] /\ found[w] <= Links[job[w]]
  BY <1>0, InHand, ScraperAssumption DEF TypeOK, LinkInv
<1>2. /\ ThisCourse(w).subject = job[w] /\ ThisCourse(w).link = link[w]
      /\ ThisCourse(w).run = runs
  BY <1>0, InHand
<1>3. ThisCourse(w) \notin Marked
  BY <1>0, <1>1, <1>2 DEF SavedInv, Passed
<1>4. ThisCourse(w) \notin overlooked
  BY <1>0, <1>1, <1>2 DEF BeyondInv, Beyond
<1>5. link[w] \in 1..Links[job[w]]
  BY <1>1
<1> QED BY <1>3, <1>4, <1>5 DEF AllLinks, ThisCourse

(* What the result page did not show stays beyond every thread.            *)
LEMMA BeyondStep ==
    ASSUME BeyondInv, NEW w \in Workers, UNCHANGED <<phase, queue, overlooked>>,
           \A v \in Workers \ {w} : pc'[v] = pc[v] /\ job'[v] = job[v] /\ found'[v] = found[v],
           \A c \in overlooked : Beyond(w, c) => Beyond(w, c)'
    PROVE  BeyondInv'
<1>1. \A c \in overlooked, v \in Workers : Beyond(v, c) => Beyond(v, c)'
  BY DEF Beyond
<1> QED BY <1>1 DEF BeyondInv

LEMMA InitInv == Init => IInv
<1> SUFFICES ASSUME Init PROVE IInv
  OBVIOUS
<1>1. TypeOK
  <2>1. 0 \in 0..RetryCount /\ 0 \in 0..MaxRuns
    BY ScraperAssumption
  <2>2. <<>> \in Seq(SubjectSet) /\ <<>> \in Seq(CourseSet)
    OBVIOUS
  <2> QED BY <2>1, <2>2, SomeFiles DEF Init, TypeOK, Places
<1>2. PhaseInv /\ BrowserInv /\ LockInv
  BY DEF Init, PhaseInv, BrowserInv, LockInv, Critical
<1>3. JobsInv
  BY EmptySequence DEF Init, JobsInv
<1>4. FileInv
  BY EmptySequence DEF Init, FileInv, Broken
<1>5. SavedInv /\ WorkInv
  BY DEF Init, SavedInv, WorkInv, Marked
<1>6. LinkInv /\ BeyondInv /\ ApartInv
  BY DEF Init, LinkInv, BeyondInv, ApartInv, Inside, Critical
<1> QED BY <1>1, <1>2, <1>3, <1>4, <1>5, <1>6 DEF IInv

-----------------------------------------------------------------------------
(* The main thread *)

LEMMA RunInv ==
    ASSUME IInv, Run
    PROVE  IInv'
<1> USE DEF IInv
<1>0. /\ phase = "off" /\ phase' = "menu" /\ menu' = TRUE
      /\ runs \in Nat /\ runs < MaxRuns /\ runs' = runs + 1
      /\ dropped' = {} /\ lost' = {} /\ overlooked' = {}
      /\ UNCHANGED <<found, queue, job, pc, attempt, link, browser, lock, data, file, saved>>
  BY ScraperAssumption DEF Run, threads, TypeOK
<1>1. TypeOK'
  BY <1>0, ScraperAssumption DEF TypeOK
<1>2. PhaseInv'
  BY <1>0 DEF PhaseInv
<1>3. JobsInv'
  BY <1>0 DEF JobsInv
<1>4. BrowserInv'
  BY <1>0 DEF BrowserInv
<1>5. LockInv'
  BY <1>0 DEF LockInv, Critical
<1>6. FileInv'
  BY <1>0 DEF FileInv, LockInv, Critical
<1>7. SavedInv'
  <2>1. \A c \in Marked : c.run \in Nat
    BY SavedNumbers
  <2> QED BY <1>0, <2>1 DEF SavedInv, Marked
<1>8. WorkInv'
  BY <1>0 DEF WorkInv, Settled, Ahead, Course, Known
<1>9. LinkInv'
  BY <1>0 DEF TypeOK, LinkInv, Inside, Critical
<1>10. BeyondInv'
  BY <1>0 DEF BeyondInv, Beyond, Inside, Critical
<1>11. ApartInv'
  <2>1. \A c \in saved : c.run <= runs /\ c.run \in Nat
    BY SavedNumbers DEF SavedInv, Marked
  <2>2. \A c \in saved : c.run # runs'
    BY <1>0, <2>1
  <2> QED BY <1>0, <2>2 DEF ApartInv
<1> QED BY <1>1, <1>2, <1>3, <1>4, <1>5, <1>6, <1>7, <1>8, <1>9, <1>10, <1>11

LEMMA NoSubjectsInv ==
    ASSUME IInv, NoSubjects
    PROVE  IInv'
<1> USE DEF IInv
<1>0. /\ phase = "menu" /\ phase' = "off" /\ menu' = FALSE
      /\ UNCHANGED <<found, overlooked, queue, job, pc, attempt, link, browser, lock, data,
                     file, runs, saved, lost, dropped>>
  BY DEF NoSubjects, threads, history
<1>1. TypeOK'
  BY <1>0 DEF TypeOK
<1>2. PhaseInv'
  BY <1>0 DEF PhaseInv
<1>3. JobsInv'
  BY <1>0 DEF JobsInv
<1>4. BrowserInv'
  BY <1>0 DEF BrowserInv
<1>5. LockInv'
  BY <1>0 DEF LockInv, Critical
<1>6. FileInv'
  BY <1>0 DEF FileInv, LockInv, Critical
<1>7. SavedInv'
  BY <1>0 DEF SavedInv, Marked, Passed, Inside, Critical
<1>8. WorkInv'
  BY <1>0 DEF WorkInv, Settled, Ahead, Course, Known
<1>9. LinkInv'
  BY <1>0 DEF TypeOK, LinkInv, Inside, Critical
<1>10. BeyondInv'
  BY <1>0 DEF BeyondInv, Beyond, Inside, Critical
<1>11. ApartInv'
  BY <1>0 DEF ApartInv, AllLinks, Course
<1> QED BY <1>1, <1>2, <1>3, <1>4, <1>5, <1>6, <1>7, <1>8, <1>9, <1>10, <1>11

LEMMA SubmitInv ==
    ASSUME IInv, Submit
    PROVE  IInv'
<1> USE DEF IInv
<1>0. /\ phase = "menu" /\ phase' = "running" /\ menu' = FALSE
      /\ queue' = Subjects
      /\ UNCHANGED <<found, overlooked, job, pc, attempt, link, browser, lock, data, file,
                     runs, saved, lost, dropped>>
  BY DEF Submit, threads, history
<1>1. TypeOK'
  BY <1>0, SubjectsInOrder DEF TypeOK
<1>2. PhaseInv'
  BY <1>0 DEF PhaseInv
<1>3. JobsInv'
  BY <1>0, SubjectsInOrder DEF JobsInv, PhaseInv
<1>4. BrowserInv'
  BY <1>0 DEF BrowserInv
<1>5. LockInv'
  BY <1>0 DEF LockInv, Critical
<1>6. FileInv'
  BY <1>0 DEF FileInv, LockInv, Critical
<1>7. SavedInv'
  BY <1>0, SavedNumbers DEF SavedInv, Marked
<1>8. WorkInv'
  BY <1>0, SubjectsInOrder DEF WorkInv, Settled
<1>9. LinkInv'
  BY <1>0 DEF TypeOK, LinkInv, Inside, Critical
<1>10. BeyondInv'
  BY <1>0 DEF BeyondInv, Beyond, Inside, Critical
<1>11. ApartInv'
  BY <1>0 DEF ApartInv, AllLinks, Course
<1> QED BY <1>1, <1>2, <1>3, <1>4, <1>5, <1>6, <1>7, <1>8, <1>9, <1>10, <1>11

LEMMA CompleteInv ==
    ASSUME IInv, Complete
    PROVE  IInv'
<1> USE DEF IInv
<1>0. /\ phase = "running" /\ phase' = "off" /\ browser = {}
      /\ queue = <<>> /\ \A v \in Workers : pc[v] = "idle"
      /\ UNCHANGED <<found, overlooked, menu, queue, job, pc, attempt, link, browser, lock,
                     data, file, runs, saved, lost, dropped>>
  BY DEF Complete, threads, history, TypeOK, BrowserInv
<1>1. TypeOK'
  BY <1>0 DEF TypeOK
<1>2. PhaseInv'
  BY <1>0 DEF PhaseInv
<1>3. JobsInv'
  BY <1>0 DEF JobsInv
<1>4. BrowserInv'
  BY <1>0 DEF BrowserInv
<1>5. LockInv'
  BY <1>0 DEF LockInv, Critical
<1>6. FileInv'
  BY <1>0 DEF FileInv, LockInv, Critical
<1>7. SavedInv'
  BY <1>0 DEF SavedInv, Marked, Passed, Inside, Critical
<1>8. WorkInv'
  BY <1>0 DEF WorkInv, Settled, Ahead, Course, Known
<1>9. LinkInv'
  BY <1>0 DEF TypeOK, LinkInv, Inside, Critical
<1>10. BeyondInv'
  BY <1>0 DEF BeyondInv, Beyond, Inside, Critical
<1>11. ApartInv'
  BY <1>0 DEF ApartInv, AllLinks, Course
<1> QED BY <1>1, <1>2, <1>3, <1>4, <1>5, <1>6, <1>7, <1>8, <1>9, <1>10, <1>11

LEMMA KillInv ==
    ASSUME IInv, Kill
    PROVE  IInv'
<1> USE DEF IInv
<1>0. /\ phase' = "off" /\ menu' = FALSE /\ queue' = <<>>
      /\ \A v \in Workers : pc'[v] = "idle"
      /\ browser' = {} /\ lock' = Nobody /\ dropped' = {} /\ lost' = {} /\ overlooked' = {}
      /\ \/ saved' = {} /\ file' \in {Broken("cut"), Broken("garbled")}
         \/ saved' = saved /\ file' = file /\ \A v \in Workers : pc[v] # "dump"
      /\ UNCHANGED <<runs>>
  BY DEF Kill, threads, history, Idle
<1>1. TypeOK'
  <2>1. data' \in [Workers -> Seq(CourseSet)]
    <3>1. <<>> \in Seq(CourseSet)
      OBVIOUS
    <3> QED BY <3>1 DEF Kill, Idle
  <2>2. attempt' \in [Workers -> 0..RetryCount] /\ link' \in [Workers -> Nat] /\ found' \in [Workers -> Nat]
    BY ScraperAssumption DEF Kill, Idle
  <2>3. job' \in [Workers -> SubjectSet \cup {Nobody}] /\ pc' \in [Workers -> Places]
    BY DEF Kill, Idle, Places
  <2>4. file' \in FileSet /\ saved' \subseteq CourseSet
    BY <1>0, SomeFiles DEF TypeOK
  <2>5. queue' \in Seq(SubjectSet)
    BY <1>0
  <2> QED BY <1>0, <2>1, <2>2, <2>3, <2>4, <2>5 DEF TypeOK
<1>2. PhaseInv'
  BY <1>0 DEF PhaseInv
<1>3. JobsInv'
  BY <1>0, EmptySequence DEF JobsInv
<1>4. BrowserInv'
  BY <1>0 DEF BrowserInv
<1>5. LockInv'
  BY <1>0 DEF LockInv, Critical
<1>6. FileInv'
  <2>1. CASE saved' = {} /\ file' \in {Broken("cut"), Broken("garbled")}
    <3>1. file'.courses = <<>>
      BY <2>1 DEF Broken
    <3> QED BY <1>0, <2>1, <3>1, EmptySequence DEF FileInv
  <2>2. CASE saved' = saved /\ file' = file /\ \A v \in Workers : pc[v] # "dump"
    BY <1>0, <2>2 DEF FileInv
  <2> QED BY <1>0, <2>1, <2>2
<1>7. SavedInv'
  BY <1>0, EmptySequence DEF SavedInv, Marked, Passed
<1>8. WorkInv'
  BY <1>0 DEF WorkInv, Settled, Ahead, Course, Known
<1>9. LinkInv'
  BY <1>0 DEF TypeOK, LinkInv, Inside, Critical
<1>10. BeyondInv'
  BY <1>0 DEF BeyondInv, Beyond, Inside, Critical
<1>11. ApartInv'
  BY <1>0 DEF ApartInv, AllLinks, Course
<1> QED BY <1>1, <1>2, <1>3, <1>4, <1>5, <1>6, <1>7, <1>8, <1>9, <1>10, <1>11

-----------------------------------------------------------------------------
(* The threads *)

LEMMA TakeSubjectInv ==
    ASSUME IInv, NEW w \in Workers, TakeSubject(w)
    PROVE  IInv'
<1> USE DEF IInv
<1>0. /\ phase = "running" /\ pc[w] = "idle"
      /\ queue # <<>> /\ queue' = Tail(queue)
      /\ \A v \in Workers : job'[v] = IF v = w THEN Head(queue) ELSE job[v]
      /\ \A v \in Workers : pc'[v] = IF v = w THEN "open" ELSE pc[v]
      /\ UNCHANGED <<found, overlooked, phase, menu, link, browser, lock, data, file, runs,
                     saved, lost, dropped>>
  BY DEF TypeOK, TakeSubject, At, Go, main, history
<1>1. TypeOK'
  <2>1. queue' \in Seq(SubjectSet) /\ Head(queue) \in SubjectSet
    BY <1>0, TakeOne DEF TypeOK
  <2>2. job' \in [Workers -> SubjectSet \cup {Nobody}] /\ attempt' \in [Workers -> 0..RetryCount]
    BY <2>1, ScraperAssumption DEF TypeOK, TakeSubject
  <2>3. pc' \in [Workers -> Places]
    BY DEF TypeOK, Places, Go, TakeSubject
  <2> QED BY <1>0, <2>1, <2>2, <2>3 DEF TypeOK
<1>2. PhaseInv'
  BY <1>0 DEF TypeOK, PhaseInv
<1>3. JobsInv'
  <2>1. Distinct(queue') /\ Head(queue) \in SubjectSet /\ Head(queue) \notin Elements(queue')
    BY <1>0, TakeOne DEF TypeOK, JobsInv
  <2>2. Elements(queue) = {Head(queue)} \cup Elements(queue')
    BY <1>0, TakeOne DEF TypeOK
  <2> QED BY <1>0, <2>1, <2>2 DEF JobsInv
<1>4. BrowserInv'
  BY <1>0 DEF TypeOK, BrowserInv
<1>5. LockInv'
  BY <1>0 DEF TypeOK, LockInv, Critical
<1>6. FileInv'
  BY <1>0 DEF TypeOK, FileInv, LockInv, Critical
<1>7. SavedInv'
  <2>1. Elements(queue) = {Head(queue)} \cup Elements(queue')
    BY <1>0, TakeOne DEF TypeOK
  <2> QED BY <1>0, <2>1 DEF SavedInv, Marked, Passed
<1>8. WorkInv'
  <2>1. \A s \in SubjectSet : \A i \in 1..Links[s] :
           Course(s, i) \in Known => Course(s, i) \in Known'
    BY <1>0 DEF Known, Course
  <2>4. ASSUME NEW s \in SubjectSet, NEW i \in 1..Links[s], s \in Elements(queue) \/ Ahead(w, s, i)
        PROVE  Settled(s, i)' \/ Ahead(w, s, i)'
    <3>1. i \in Nat /\ 1 <= i /\ i <= Links[s]
      BY ScraperAssumption
    <3> QED BY <2>4, <3>1, <1>0, TakeOne DEF TypeOK, Settled, Ahead, Inside, Critical
  <2>5. \A v \in Workers \ {w} : /\ pc'[v] = pc[v] /\ job'[v] = job[v]
                                 /\ link'[v] = link[v] /\ found'[v] = found[v]
    BY <1>0
  <2> QED BY <1>0, <2>1, <2>4, <2>5, WorkStep
<1>9. LinkInv'
  BY <1>0 DEF TypeOK, LinkInv, Inside, Critical
<1>10. BeyondInv'
  <2>1. Elements(queue) = {Head(queue)} \cup Elements(queue')
    BY <1>0, TakeOne DEF TypeOK
  <2> QED BY <1>0, <2>1 DEF BeyondInv, Beyond
<1>11. ApartInv'
  BY <1>0 DEF ApartInv, AllLinks, Course
<1> QED BY <1>1, <1>2, <1>3, <1>4, <1>5, <1>6, <1>7, <1>8, <1>9, <1>10, <1>11

LEMMA OpenBrowserInv ==
    ASSUME IInv, NEW w \in Workers, OpenBrowser(w)
    PROVE  IInv'
<1> USE DEF IInv
<1>0. /\ phase = "running" /\ pc[w] = "open"
      /\ browser' = browser \cup {w}
      /\ \A v \in Workers : pc'[v] = IF v = w THEN "search" ELSE pc[v]
      /\ UNCHANGED <<found, overlooked, phase, menu, queue, job, attempt, link, lock, data,
                     file, runs, saved, lost, dropped>>
  BY DEF TypeOK, OpenBrowser, At, Go, main, history
<1>1. TypeOK'
  <2>1. pc' \in [Workers -> Places]
    BY DEF TypeOK, Places, Go, OpenBrowser
  <2> QED BY <1>0, <2>1 DEF TypeOK
<1>2. PhaseInv'
  BY <1>0 DEF TypeOK, PhaseInv
<1>3. JobsInv'
  BY <1>0 DEF TypeOK, JobsInv
<1>4. BrowserInv'
  BY <1>0 DEF TypeOK, BrowserInv
<1>5. LockInv'
  BY <1>0 DEF TypeOK, LockInv, Critical
<1>6. FileInv'
  BY <1>0 DEF TypeOK, FileInv, LockInv, Critical
<1>7. SavedInv'
  <2>1. Marked' \subseteq Marked
    BY <1>0 DEF Marked
  <2>2. \A v \in Workers \ {w} : pc'[v] = pc[v] /\ job'[v] = job[v] /\ link'[v] = link[v]
    BY <1>0
  <2>3. ASSUME NEW c \in Marked, Passed(w, c) PROVE Passed(w, c)'
    BY <1>0, <2>3 DEF Passed, Inside, Critical
  <2> QED BY <1>0, <2>1, <2>2, <2>3, SavedStep
<1>8. WorkInv'
  <2>1. \A s \in SubjectSet : \A i \in 1..Links[s] :
           Course(s, i) \in Known => Course(s, i) \in Known'
    BY <1>0 DEF Known, Course
  <2>4. ASSUME NEW s \in SubjectSet, NEW i \in 1..Links[s], s \in Elements(queue) \/ Ahead(w, s, i)
        PROVE  Settled(s, i)' \/ Ahead(w, s, i)'
    <3>1. i \in Nat /\ 1 <= i /\ i <= Links[s]
      BY ScraperAssumption
    <3> QED BY <2>4, <3>1, <1>0 DEF Settled, Ahead, Inside, Critical
  <2>5. \A v \in Workers \ {w} : /\ pc'[v] = pc[v] /\ job'[v] = job[v]
                                 /\ link'[v] = link[v] /\ found'[v] = found[v]
    BY <1>0
  <2> QED BY <1>0, <2>1, <2>4, <2>5, WorkStep
<1>9. LinkInv'
  BY <1>0 DEF TypeOK, LinkInv, Inside, Critical
<1>10. BeyondInv'
  <2>1. \A c \in overlooked : Beyond(w, c) => Beyond(w, c)'
    BY <1>0 DEF Beyond, Inside, Critical
  <2> QED BY <1>0, <2>1, BeyondStep
<1>11. ApartInv'
  BY <1>0 DEF ApartInv, AllLinks, Course
<1> QED BY <1>1, <1>2, <1>3, <1>4, <1>5, <1>6, <1>7, <1>8, <1>9, <1>10, <1>11

LEMMA FindLinksInv ==
    ASSUME IInv, NEW w \in Workers, FindLinks(w)
    PROVE  IInv'
<1> USE DEF IInv
<1>0. /\ phase = "running" /\ pc[w] = "search"
      /\ \A v \in Workers : link'[v] = IF v = w THEN 1 ELSE link[v]
      /\ \A v \in Workers : pc'[v] = IF v = w THEN "links" ELSE pc[v]
      /\ UNCHANGED <<phase, menu, queue, job, attempt, browser, lock, data, file, runs,
                     saved, lost, dropped>>
  BY DEF TypeOK, FindLinks, At, Go, main, history
<1>a. PICK n \in 0..Links[job[w]] :
         /\ found' = [found EXCEPT ![w] = n]
         /\ overlooked' = overlooked \cup {Course(job[w], i) : i \in (n + 1)..Links[job[w]]}
  BY DEF FindLinks
<1>b. /\ job[w] \in SubjectSet /\ Links[job[w]] \in Nat /\ n \in Nat /\ n <= Links[job[w]]
      /\ \A v \in Workers : found'[v] = IF v = w THEN n ELSE found[v]
      /\ \A i \in (n + 1)..Links[job[w]] : i \in Nat /\ n < i /\ i \in 1..Links[job[w]]
  BY <1>0, <1>a, InHand, ScraperAssumption DEF TypeOK
<1>c. \A i \in (n + 1)..Links[job[w]] : /\ Course(job[w], i) \in CourseSet
                                       /\ Course(job[w], i).subject = job[w]
                                       /\ Course(job[w], i).link = i
                                       /\ Course(job[w], i).run = runs
  BY <1>b, ACourse
<1>1. TypeOK'
  <2>1. link' \in [Workers -> Nat]
    BY DEF TypeOK, FindLinks
  <2>2. pc' \in [Workers -> Places]
    BY DEF TypeOK, Places, Go, FindLinks
  <2>3. found' \in [Workers -> Nat]
    BY <1>a, <1>b DEF TypeOK
  <2>4. overlooked' \subseteq CourseSet
    BY <1>a, <1>c DEF TypeOK
  <2> QED BY <1>0, <2>1, <2>2, <2>3, <2>4 DEF TypeOK
<1>2. PhaseInv'
  BY <1>0 DEF TypeOK, PhaseInv
<1>3. JobsInv'
  BY <1>0 DEF TypeOK, JobsInv
<1>4. BrowserInv'
  BY <1>0 DEF TypeOK, BrowserInv
<1>5. LockInv'
  BY <1>0 DEF TypeOK, LockInv, Critical
<1>6. FileInv'
  BY <1>0 DEF TypeOK, FileInv, LockInv, Critical
<1>7. SavedInv'
  <2>1. Marked' \subseteq Marked
    BY <1>0 DEF Marked
  <2>2. \A v \in Workers \ {w} : pc'[v] = pc[v] /\ job'[v] = job[v] /\ link'[v] = link[v]
    BY <1>0
  <2>3. ASSUME NEW c \in Marked, Passed(w, c) PROVE Passed(w, c)'
    BY <1>0, <2>3 DEF Passed, Inside, Critical
  <2> QED BY <1>0, <2>1, <2>2, <2>3, SavedStep
<1>8. WorkInv'
  <2>1. \A s \in SubjectSet : \A i \in 1..Links[s] :
           Course(s, i) \in Known => Course(s, i) \in Known'
    BY <1>0, <1>a DEF Known, Course
  <2>2. ASSUME NEW s \in SubjectSet, NEW i \in 1..Links[s], s \in Elements(queue) \/ Ahead(w, s, i)
        PROVE  Settled(s, i)' \/ Ahead(w, s, i)'
    <3>1. i \in Nat /\ 1 <= i /\ i <= Links[s]
      BY ScraperAssumption
    <3>2. CASE s \in Elements(queue)
      BY <1>0, <3>2 DEF Settled
    <3>3. CASE Ahead(w, s, i) /\ i <= n
      BY <1>0, <1>b, <3>1, <3>3 DEF Ahead
    <3>4. CASE Ahead(w, s, i) /\ ~(i <= n)
      <4>1. s = job[w] /\ i \in (n + 1)..Links[job[w]]
        BY <1>b, <3>1, <3>4 DEF Ahead
      <4>2. Course(s, i) \in overlooked'
        BY <1>a, <4>1
      <4> QED BY <1>0, <4>2 DEF Settled, Known, Course
    <3> QED BY <2>2, <3>2, <3>3, <3>4
  <2>3. \A v \in Workers \ {w} : /\ pc'[v] = pc[v] /\ job'[v] = job[v]
                                 /\ link'[v] = link[v] /\ found'[v] = found[v]
    BY <1>0, <1>b
  <2> QED BY <1>0, <2>1, <2>2, <2>3, WorkStep
<1>9. LinkInv'
  <2>1. ASSUME NEW v \in Workers \ {w}
        PROVE  /\ pc'[v] \in Inside => 1 <= link'[v] /\ found'[v] <= Links[job'[v]]
               /\ pc'[v] \in Inside \ {"links"} => link'[v] <= found'[v]
    BY <1>0, <1>b, <2>1 DEF LinkInv
  <2>2. pc'[w] = "links" /\ link'[w] = 1 /\ found'[w] = n /\ job'[w] = job[w]
    BY <1>0, <1>b
  <2> QED BY <1>b, <2>1, <2>2 DEF LinkInv
<1>10. BeyondInv'
  <2> SUFFICES ASSUME NEW c \in overlooked', NEW v \in Workers
               PROVE  c.subject \notin Elements(queue) /\ Beyond(v, c)'
    BY <1>0 DEF BeyondInv
  <2>1. CASE c \in overlooked
    <3>1. c.subject # job[w] /\ c.subject \notin Elements(queue) /\ Beyond(v, c)
      BY <1>0, <2>1 DEF BeyondInv, Beyond, Inside, Critical
    <3> QED BY <1>0, <1>b, <3>1 DEF Beyond
  <2>2. CASE c \notin overlooked
    <3>1. PICK i \in (n + 1)..Links[job[w]] : c = Course(job[w], i)
      BY <1>a, <2>2
    <3>2. c.subject = job[w] /\ c.link = i /\ n < i
      BY <1>b, <1>c, <3>1
    <3>3. /\ job[w] \notin Elements(queue)
          /\ v # w /\ pc[v] # "idle" => job[v] # job[w]
      BY <1>0 DEF JobsInv
    <3> QED BY <1>0, <1>b, <3>2, <3>3 DEF Beyond, Inside
  <2> QED BY <2>1, <2>2
<1>11. ApartInv'
  <2>1. \A c \in saved : c.run = runs => c.subject # job[w]
    BY <1>0 DEF SavedInv, Marked, Passed, Inside, Critical
  <2>2. \A c \in overlooked' : c \in overlooked \/ (c.run = runs /\ c.subject = job[w])
    BY <1>a, <1>c
  <2>3. saved \cap overlooked' = {}
    BY <2>1, <2>2 DEF ApartInv
  <2> QED BY <1>0, <2>3 DEF ApartInv, AllLinks, Course
<1> QED BY <1>1, <1>2, <1>3, <1>4, <1>5, <1>6, <1>7, <1>8, <1>9, <1>10, <1>11

LEMMA AttemptFailsInv ==
    ASSUME IInv, NEW w \in Workers, AttemptFails(w)
    PROVE  IInv'
<1> USE DEF IInv
<1>0. /\ phase = "running" /\ pc[w] # "idle" /\ pc[w] \in {"open", "search"}
      /\ browser' = browser \ {w}
      /\ \/ /\ UNCHANGED <<job, dropped>>
            /\ \A v \in Workers : pc'[v] = IF v = w THEN "open" ELSE pc[v]
         \/ /\ dropped' = dropped \cup AllLinks(job[w])
            /\ \A v \in Workers : job'[v] = IF v = w THEN Nobody ELSE job[v]
            /\ \A v \in Workers : pc'[v] = IF v = w THEN "idle" ELSE pc[v]
      /\ UNCHANGED <<found, overlooked, phase, menu, queue, link, lock, data, file, runs,
                     saved, lost>>
  BY DEF TypeOK, AttemptFails, At, Go, main, history
<1>b. \A c \in AllLinks(job[w]) : c.subject = job[w] /\ c.run = runs
  <2>1. job[w] \in SubjectSet /\ \A i \in 1..Links[job[w]] : i \in Nat
    BY <1>0, InHand, ScraperAssumption
  <2> QED BY <2>1, ACourse DEF AllLinks
<1>1. TypeOK'
  <2>1. dropped' \subseteq CourseSet
    BY <1>0, InHand DEF TypeOK
  <2>2. job' \in [Workers -> SubjectSet \cup {Nobody}]
    BY DEF TypeOK, AttemptFails
  <2>3. attempt' \in [Workers -> 0..RetryCount]
    <3>1. \/ attempt' = attempt
          \/ attempt[w] < RetryCount /\ attempt' = [attempt EXCEPT ![w] = attempt[w] + 1]
      BY DEF AttemptFails, MoreAttempts
    <3>2. attempt \in [Workers -> 0..RetryCount] /\ RetryCount \in Nat
      BY ScraperAssumption DEF TypeOK
    <3> QED BY <3>1, <3>2
  <2>4. pc' \in [Workers -> Places]
    BY DEF TypeOK, Places, Go, AttemptFails
  <2> QED BY <1>0, <2>1, <2>2, <2>3, <2>4 DEF TypeOK
<1>2. PhaseInv'
  BY <1>0 DEF TypeOK, PhaseInv
<1>3. JobsInv'
  BY <1>0 DEF TypeOK, JobsInv
<1>4. BrowserInv'
  BY <1>0 DEF TypeOK, BrowserInv
<1>5. LockInv'
  BY <1>0 DEF TypeOK, LockInv, Critical
<1>6. FileInv'
  BY <1>0 DEF TypeOK, FileInv, LockInv, Critical
<1>7. SavedInv'
  <2>1. CASE UNCHANGED <<job, dropped>>
    <3>1. Marked' \subseteq Marked
      BY <1>0, <2>1 DEF Marked
    <3>2. \A v \in Workers \ {w} : pc'[v] = pc[v] /\ job'[v] = job[v] /\ link'[v] = link[v]
      BY <1>0, <2>1
    <3>3. ASSUME NEW c \in Marked, Passed(w, c) PROVE Passed(w, c)'
      BY <1>0, <2>1, <3>3 DEF Passed, Inside, Critical
    <3> QED BY <1>0, <3>1, <3>2, <3>3, SavedStep
  <2>2. CASE /\ dropped' = dropped \cup AllLinks(job[w])
             /\ \A v \in Workers : job'[v] = IF v = w THEN Nobody ELSE job[v]
             /\ \A v \in Workers : pc'[v] = IF v = w THEN "idle" ELSE pc[v]
    <3> SUFFICES ASSUME NEW c \in Marked'
                 PROVE  /\ c.run <= runs
                        /\ c.run = runs => /\ c.subject \notin Elements(queue)
                                           /\ \A v \in Workers : Passed(v, c)'
      BY <1>0 DEF SavedInv
    <3>1. CASE c \in Marked
      <4>1. \A v \in Workers : Passed(v, c) => Passed(v, c)'
        BY <1>0, <2>2 DEF Passed
      <4> QED BY <3>1, <4>1 DEF SavedInv
    <3>2. CASE c \in AllLinks(job[w])
      <4>1. c.subject = job[w] /\ c.run = runs /\ runs \in Nat
        BY <3>2, <1>b, SavedNumbers
      <4>2. /\ job[w] \notin Elements(queue)
            /\ \A v \in Workers \ {w} : pc[v] # "idle" => job[v] # job[w]
        BY <1>0 DEF JobsInv
      <4> QED BY <1>0, <2>2, <4>1, <4>2 DEF Passed
    <3> QED BY <1>0, <2>2, <3>1, <3>2 DEF Marked
  <2> QED BY <1>0, <2>1, <2>2
<1>8. WorkInv'
  <2>1. \A s \in SubjectSet : \A i \in 1..Links[s] :
           Course(s, i) \in Known => Course(s, i) \in Known'
    BY <1>0 DEF Known, Course
  <2>4. ASSUME NEW s \in SubjectSet, NEW i \in 1..Links[s], s \in Elements(queue) \/ Ahead(w, s, i)
        PROVE  Settled(s, i)' \/ Ahead(w, s, i)'
    <3>1. i \in Nat /\ 1 <= i /\ i <= Links[s]
      BY ScraperAssumption
    <3> QED BY <2>4, <3>1, <1>0 DEF Settled, Ahead, Inside, Critical, Known, AllLinks, Course
  <2>5. \A v \in Workers \ {w} : /\ pc'[v] = pc[v] /\ job'[v] = job[v]
                                 /\ link'[v] = link[v] /\ found'[v] = found[v]
    BY <1>0
  <2> QED BY <1>0, <2>1, <2>4, <2>5, WorkStep
<1>9. LinkInv'
  BY <1>0 DEF TypeOK, LinkInv, Inside, Critical
<1>10. BeyondInv'
  <2>1. \A c \in overlooked : Beyond(w, c) => Beyond(w, c)'
    BY <1>0 DEF Beyond, Inside, Critical
  <2> QED BY <1>0, <2>1, BeyondStep
<1>11. ApartInv'
  <2>1. \A c \in saved : c.run = runs => c.subject # job[w]
    BY <1>0 DEF SavedInv, Marked, Passed, Inside, Critical
  <2>2. saved \cap AllLinks(job[w]) = {}
    BY <1>b, <2>1
  <2>3. saved \cap dropped' = {}
    BY <1>0, <2>2 DEF ApartInv
  <2> QED BY <1>0, <2>3 DEF ApartInv, AllLinks, Course
<1> QED BY <1>1, <1>2, <1>3, <1>4, <1>5, <1>6, <1>7, <1>8, <1>9, <1>10, <1>11

LEMMA SkipLinkInv ==
    ASSUME IInv, NEW w \in Workers, SkipLink(w)
    PROVE  IInv'
<1> USE DEF IInv
<1>0. /\ phase = "running" /\ pc[w] = "links"
      /\ link[w] <= found[w]
      /\ dropped' = dropped \cup {ThisCourse(w)}
      /\ \A v \in Workers : link'[v] = IF v = w THEN link[w] + 1 ELSE link[v]
      /\ \A v \in Workers : pc'[v] = IF v = w THEN "links" ELSE pc[v]
      /\ UNCHANGED <<found, overlooked, phase, menu, queue, job, attempt, browser, lock,
                     data, file, runs, saved, lost>>
  BY DEF TypeOK, SkipLink, At, Go, main, history, AtLink, NextLink
<1>1. TypeOK'
  <2>1. link' \in [Workers -> Nat]
    BY DEF TypeOK, SkipLink, NextLink
  <2>2. dropped' \subseteq CourseSet
    BY <1>0, InHand DEF TypeOK
  <2>3. pc' \in [Workers -> Places]
    BY DEF TypeOK, Places, Go, SkipLink, NextLink
  <2> QED BY <1>0, <2>1, <2>2, <2>3 DEF TypeOK
<1>2. PhaseInv'
  BY <1>0 DEF TypeOK, PhaseInv
<1>3. JobsInv'
  BY <1>0 DEF TypeOK, JobsInv
<1>4. BrowserInv'
  BY <1>0 DEF TypeOK, BrowserInv
<1>5. LockInv'
  BY <1>0 DEF TypeOK, LockInv, Critical
<1>6. FileInv'
  BY <1>0 DEF TypeOK, FileInv, LockInv, Critical
<1>7. SavedInv'
  <2>1. Marked' \subseteq Marked \cup {ThisCourse(w)}
    BY <1>0 DEF Marked
  <2> QED BY <1>0, <2>1, MarkStep DEF Inside, Critical
<1>8. WorkInv'
  <2>1. \A s \in SubjectSet : \A i \in 1..Links[s] :
           Course(s, i) \in Known => Course(s, i) \in Known'
    BY <1>0 DEF Known, Course
  <2>2. ThisCourse(w) \in Known' /\ ThisCourse(w) = Course(job[w], link[w])
    BY <1>0 DEF Known, ThisCourse
  <2>3. \A i \in Nat : link[w] <= i => i = link[w] \/ link[w] + 1 <= i
    <3>1. link[w] \in Nat
      BY <1>0, InHand
    <3> QED BY <3>1
  <2>4. ASSUME NEW s \in SubjectSet, NEW i \in 1..Links[s], s \in Elements(queue) \/ Ahead(w, s, i)
        PROVE  Settled(s, i)' \/ Ahead(w, s, i)'
    <3>1. i \in Nat /\ 1 <= i /\ i <= Links[s]
      BY ScraperAssumption
    <3> QED BY <2>4, <3>1, <1>0, <2>2, <2>3 DEF Settled, Ahead, Inside, Critical, Course
  <2>5. \A v \in Workers \ {w} : /\ pc'[v] = pc[v] /\ job'[v] = job[v]
                                 /\ link'[v] = link[v] /\ found'[v] = found[v]
    BY <1>0
  <2> QED BY <1>0, <2>1, <2>4, <2>5, WorkStep
<1>9. LinkInv'
  <2>1. pc[w] \in Inside
    BY <1>0 DEF Inside, Critical
  <2>2. 1 <= link[w] + 1
    BY <2>1, LinkInHand
  <2> QED BY <1>0, <2>2 DEF LinkInv, Inside, Critical
<1>10. BeyondInv'
  <2>1. \A c \in overlooked : Beyond(w, c) => Beyond(w, c)'
    BY <1>0 DEF Beyond, Inside, Critical
  <2> QED BY <1>0, <2>1, BeyondStep
<1>11. ApartInv'
  <2>1. ThisCourse(w) \notin Marked \cup overlooked /\ ThisCourse(w) \in AllLinks(job[w])
    BY <1>0, InHandIsNew DEF Inside, Critical
  <2> QED BY <1>0, <2>1, InHand DEF ApartInv, Marked, AllLinks, Course
<1> QED BY <1>1, <1>2, <1>3, <1>4, <1>5, <1>6, <1>7, <1>8, <1>9, <1>10, <1>11

LEMMA ScrapeLinkInv ==
    ASSUME IInv, NEW w \in Workers, ScrapeLink(w)
    PROVE  IInv'
<1> USE DEF IInv
<1>0. /\ phase = "running" /\ pc[w] = "links" /\ link[w] <= found[w]
      /\ \A v \in Workers : pc'[v] = IF v = w THEN "append" ELSE pc[v]
      /\ UNCHANGED <<found, overlooked, phase, menu, queue, job, attempt, link, browser,
                     lock, data, file, runs, saved, lost, dropped>>
  BY DEF TypeOK, ScrapeLink, At, Go, main, history, AtLink
<1>1. TypeOK'
  <2>1. pc' \in [Workers -> Places]
    BY DEF TypeOK, Places, Go, ScrapeLink
  <2> QED BY <1>0, <2>1 DEF TypeOK
<1>2. PhaseInv'
  BY <1>0 DEF TypeOK, PhaseInv
<1>3. JobsInv'
  BY <1>0 DEF TypeOK, JobsInv
<1>4. BrowserInv'
  BY <1>0 DEF TypeOK, BrowserInv
<1>5. LockInv'
  BY <1>0 DEF TypeOK, LockInv, Critical
<1>6. FileInv'
  BY <1>0 DEF TypeOK, FileInv, LockInv, Critical
<1>7. SavedInv'
  <2>1. Marked' \subseteq Marked
    BY <1>0 DEF Marked
  <2>2. \A v \in Workers \ {w} : pc'[v] = pc[v] /\ job'[v] = job[v] /\ link'[v] = link[v]
    BY <1>0
  <2>3. ASSUME NEW c \in Marked, Passed(w, c) PROVE Passed(w, c)'
    BY <1>0, <2>3 DEF Passed, Inside, Critical
  <2> QED BY <1>0, <2>1, <2>2, <2>3, SavedStep
<1>8. WorkInv'
  <2>1. \A s \in SubjectSet : \A i \in 1..Links[s] :
           Course(s, i) \in Known => Course(s, i) \in Known'
    BY <1>0 DEF Known, Course
  <2>4. ASSUME NEW s \in SubjectSet, NEW i \in 1..Links[s], s \in Elements(queue) \/ Ahead(w, s, i)
        PROVE  Settled(s, i)' \/ Ahead(w, s, i)'
    <3>1. i \in Nat /\ 1 <= i /\ i <= Links[s]
      BY ScraperAssumption
    <3> QED BY <2>4, <3>1, <1>0 DEF Settled, Ahead, Inside, Critical
  <2>5. \A v \in Workers \ {w} : /\ pc'[v] = pc[v] /\ job'[v] = job[v]
                                 /\ link'[v] = link[v] /\ found'[v] = found[v]
    BY <1>0
  <2> QED BY <1>0, <2>1, <2>4, <2>5, WorkStep
<1>9. LinkInv'
  BY <1>0 DEF TypeOK, LinkInv, Inside, Critical
<1>10. BeyondInv'
  <2>1. \A c \in overlooked : Beyond(w, c) => Beyond(w, c)'
    BY <1>0 DEF Beyond, Inside, Critical
  <2> QED BY <1>0, <2>1, BeyondStep
<1>11. ApartInv'
  BY <1>0 DEF ApartInv, AllLinks, Course
<1> QED BY <1>1, <1>2, <1>3, <1>4, <1>5, <1>6, <1>7, <1>8, <1>9, <1>10, <1>11

LEMMA EndSubjectInv ==
    ASSUME IInv, NEW w \in Workers, EndSubject(w)
    PROVE  IInv'
<1> USE DEF IInv
<1>0. /\ phase = "running" /\ pc[w] = "links"
      /\ ~(link[w] <= found[w])
      /\ browser' = browser \ {w}
      /\ \A v \in Workers : job'[v] = IF v = w THEN Nobody ELSE job[v]
      /\ \A v \in Workers : pc'[v] = IF v = w THEN "idle" ELSE pc[v]
      /\ UNCHANGED <<found, overlooked, phase, menu, queue, attempt, link, lock, data,
                     file, runs, saved, lost, dropped>>
  BY DEF TypeOK, EndSubject, At, Go, main, history, AtLink
<1>1. TypeOK'
  <2>1. job' \in [Workers -> SubjectSet \cup {Nobody}]
    BY DEF TypeOK, EndSubject
  <2>2. pc' \in [Workers -> Places]
    BY DEF TypeOK, Places, Go, EndSubject
  <2> QED BY <1>0, <2>1, <2>2 DEF TypeOK
<1>2. PhaseInv'
  BY <1>0 DEF TypeOK, PhaseInv
<1>3. JobsInv'
  BY <1>0 DEF TypeOK, JobsInv
<1>4. BrowserInv'
  BY <1>0 DEF TypeOK, BrowserInv
<1>5. LockInv'
  BY <1>0 DEF TypeOK, LockInv, Critical
<1>6. FileInv'
  BY <1>0 DEF TypeOK, FileInv, LockInv, Critical
<1>7. SavedInv'
  <2>1. Marked' \subseteq Marked
    BY <1>0 DEF Marked
  <2>2. \A v \in Workers \ {w} : pc'[v] = pc[v] /\ job'[v] = job[v] /\ link'[v] = link[v]
    BY <1>0
  <2>3. ASSUME NEW c \in Marked, Passed(w, c) PROVE Passed(w, c)'
    BY <1>0, <2>3 DEF Passed, Inside, Critical
  <2> QED BY <1>0, <2>1, <2>2, <2>3, SavedStep
<1>8. WorkInv'
  <2>1. \A s \in SubjectSet : \A i \in 1..Links[s] :
           Course(s, i) \in Known => Course(s, i) \in Known'
    BY <1>0 DEF Known, Course
  <2>4. ASSUME NEW s \in SubjectSet, NEW i \in 1..Links[s], s \in Elements(queue) \/ Ahead(w, s, i)
        PROVE  Settled(s, i)' \/ Ahead(w, s, i)'
    <3>1. i \in Nat /\ 1 <= i /\ i <= Links[s]
      BY ScraperAssumption
    <3>2. ~Ahead(w, s, i)
      <4>1. pc[w] \in Inside
        BY <1>0 DEF Inside, Critical
      <4> QED BY <1>0, <3>1, <4>1, LinkInHand DEF Ahead
    <3> QED BY <2>4, <3>2, <1>0 DEF Settled
  <2>5. \A v \in Workers \ {w} : /\ pc'[v] = pc[v] /\ job'[v] = job[v]
                                 /\ link'[v] = link[v] /\ found'[v] = found[v]
    BY <1>0
  <2> QED BY <1>0, <2>1, <2>4, <2>5, WorkStep
<1>9. LinkInv'
  BY <1>0 DEF TypeOK, LinkInv, Inside, Critical
<1>10. BeyondInv'
  <2>1. \A c \in overlooked : Beyond(w, c) => Beyond(w, c)'
    BY <1>0 DEF Beyond, Inside, Critical
  <2> QED BY <1>0, <2>1, BeyondStep
<1>11. ApartInv'
  BY <1>0 DEF ApartInv, AllLinks, Course
<1> QED BY <1>1, <1>2, <1>3, <1>4, <1>5, <1>6, <1>7, <1>8, <1>9, <1>10, <1>11

LEMMA AcquireInv ==
    ASSUME IInv, NEW w \in Workers, Acquire(w)
    PROVE  IInv'
<1> USE DEF IInv
<1>0. /\ phase = "running" /\ pc[w] = "append"
      /\ lock = Nobody /\ lock' = w
      /\ \A v \in Workers : pc'[v] = IF v = w THEN "read" ELSE pc[v]
      /\ UNCHANGED <<found, overlooked, phase, menu, queue, job, attempt, link, browser,
                     data, file, runs, saved, lost, dropped>>
  BY DEF TypeOK, Acquire, At, Go, main, history
<1>1. TypeOK'
  <2>1. pc' \in [Workers -> Places]
    BY DEF TypeOK, Places, Go, Acquire
  <2> QED BY <1>0, <2>1 DEF TypeOK
<1>2. PhaseInv'
  BY <1>0 DEF TypeOK, PhaseInv
<1>3. JobsInv'
  BY <1>0 DEF TypeOK, JobsInv
<1>4. BrowserInv'
  BY <1>0 DEF TypeOK, BrowserInv
<1>5. LockInv'
  <2>1. \A v \in Workers : pc[v] \notin Critical
    <3>1. Nobody \notin Workers
      BY ScraperAssumption
    <3> QED BY <1>0, <3>1 DEF LockInv
  <2> QED BY <1>0, <2>1 DEF LockInv
<1>6. FileInv'
  BY <1>0 DEF TypeOK, FileInv, LockInv, Critical
<1>7. SavedInv'
  <2>1. Marked' \subseteq Marked
    BY <1>0 DEF Marked
  <2>2. \A v \in Workers \ {w} : pc'[v] = pc[v] /\ job'[v] = job[v] /\ link'[v] = link[v]
    BY <1>0
  <2>3. ASSUME NEW c \in Marked, Passed(w, c) PROVE Passed(w, c)'
    BY <1>0, <2>3 DEF Passed, Inside, Critical
  <2> QED BY <1>0, <2>1, <2>2, <2>3, SavedStep
<1>8. WorkInv'
  <2>1. \A s \in SubjectSet : \A i \in 1..Links[s] :
           Course(s, i) \in Known => Course(s, i) \in Known'
    BY <1>0 DEF Known, Course
  <2>4. ASSUME NEW s \in SubjectSet, NEW i \in 1..Links[s], s \in Elements(queue) \/ Ahead(w, s, i)
        PROVE  Settled(s, i)' \/ Ahead(w, s, i)'
    <3>1. i \in Nat /\ 1 <= i /\ i <= Links[s]
      BY ScraperAssumption
    <3> QED BY <2>4, <3>1, <1>0 DEF Settled, Ahead, Inside, Critical
  <2>5. \A v \in Workers \ {w} : /\ pc'[v] = pc[v] /\ job'[v] = job[v]
                                 /\ link'[v] = link[v] /\ found'[v] = found[v]
    BY <1>0
  <2> QED BY <1>0, <2>1, <2>4, <2>5, WorkStep
<1>9. LinkInv'
  BY <1>0 DEF TypeOK, LinkInv, Inside, Critical
<1>10. BeyondInv'
  <2>1. \A c \in overlooked : Beyond(w, c) => Beyond(w, c)'
    BY <1>0 DEF Beyond, Inside, Critical
  <2> QED BY <1>0, <2>1, BeyondStep
<1>11. ApartInv'
  BY <1>0 DEF ApartInv, AllLinks, Course
<1> QED BY <1>1, <1>2, <1>3, <1>4, <1>5, <1>6, <1>7, <1>8, <1>9, <1>10, <1>11

LEMMA ReadInv ==
    ASSUME IInv, NEW w \in Workers, Read(w)
    PROVE  IInv'
<1> USE DEF IInv
<1>0. /\ phase = "running" /\ pc[w] = "read"
      /\ \A v \in Workers : data'[v] = IF v = w THEN file.courses ELSE data[v]
      /\ \A v \in Workers : pc'[v] = IF v = w THEN "open file" ELSE pc[v]
      /\ UNCHANGED <<found, overlooked, phase, menu, queue, job, attempt, link, browser,
                     lock, file, runs, saved, lost, dropped>>
  BY DEF TypeOK, Read, At, Go, main, history
<1>1. TypeOK'
  <2>1. data' \in [Workers -> Seq(CourseSet)]
    BY TheFile DEF TypeOK, Read
  <2>2. pc' \in [Workers -> Places]
    BY DEF TypeOK, Places, Go, Read
  <2> QED BY <1>0, <2>1, <2>2 DEF TypeOK
<1>2. PhaseInv'
  BY <1>0 DEF TypeOK, PhaseInv
<1>3. JobsInv'
  BY <1>0 DEF TypeOK, JobsInv
<1>4. BrowserInv'
  BY <1>0 DEF TypeOK, BrowserInv
<1>5. LockInv'
  BY <1>0 DEF TypeOK, LockInv, Critical
<1>6. FileInv'
  BY <1>0 DEF TypeOK, FileInv, LockInv, Critical
<1>7. SavedInv'
  <2>1. Marked' \subseteq Marked
    BY <1>0 DEF Marked
  <2>2. \A v \in Workers \ {w} : pc'[v] = pc[v] /\ job'[v] = job[v] /\ link'[v] = link[v]
    BY <1>0
  <2>3. ASSUME NEW c \in Marked, Passed(w, c) PROVE Passed(w, c)'
    BY <1>0, <2>3 DEF Passed, Inside, Critical
  <2> QED BY <1>0, <2>1, <2>2, <2>3, SavedStep
<1>8. WorkInv'
  <2>1. \A s \in SubjectSet : \A i \in 1..Links[s] :
           Course(s, i) \in Known => Course(s, i) \in Known'
    BY <1>0 DEF Known, Course
  <2>4. ASSUME NEW s \in SubjectSet, NEW i \in 1..Links[s], s \in Elements(queue) \/ Ahead(w, s, i)
        PROVE  Settled(s, i)' \/ Ahead(w, s, i)'
    <3>1. i \in Nat /\ 1 <= i /\ i <= Links[s]
      BY ScraperAssumption
    <3> QED BY <2>4, <3>1, <1>0 DEF Settled, Ahead, Inside, Critical
  <2>5. \A v \in Workers \ {w} : /\ pc'[v] = pc[v] /\ job'[v] = job[v]
                                 /\ link'[v] = link[v] /\ found'[v] = found[v]
    BY <1>0
  <2> QED BY <1>0, <2>1, <2>4, <2>5, WorkStep
<1>9. LinkInv'
  BY <1>0 DEF TypeOK, LinkInv, Inside, Critical
<1>10. BeyondInv'
  <2>1. \A c \in overlooked : Beyond(w, c) => Beyond(w, c)'
    BY <1>0 DEF Beyond, Inside, Critical
  <2> QED BY <1>0, <2>1, BeyondStep
<1>11. ApartInv'
  BY <1>0 DEF ApartInv, AllLinks, Course
<1> QED BY <1>1, <1>2, <1>3, <1>4, <1>5, <1>6, <1>7, <1>8, <1>9, <1>10, <1>11

LEMMA AppendFailsInv ==
    ASSUME IInv, NEW w \in Workers, AppendFails(w)
    PROVE  IInv'
<1> USE DEF IInv
<1>0. /\ phase = "running" /\ pc[w] # "idle" /\ pc[w] \in {"read", "open file"}
      /\ lock' = Nobody
      /\ dropped' = dropped \cup {ThisCourse(w)}
      /\ \A v \in Workers : link'[v] = IF v = w THEN link[w] + 1 ELSE link[v]
      /\ \A v \in Workers : pc'[v] = IF v = w THEN "links" ELSE pc[v]
      /\ UNCHANGED <<found, overlooked, phase, menu, queue, job, attempt, browser, data,
                     file, runs, saved, lost>>
  BY DEF TypeOK, AppendFails, At, Go, main, history, Release, NextLink
<1>1. TypeOK'
  <2>1. link' \in [Workers -> Nat]
    <3>1. link' = [link EXCEPT ![w] = @ + 1]
      BY DEF AppendFails, NextLink
    <3> QED BY <3>1 DEF TypeOK
  <2>2. dropped' \subseteq CourseSet
    BY <1>0, InHand DEF TypeOK
  <2>3. pc' \in [Workers -> Places]
    BY DEF TypeOK, Places, Go, AppendFails, NextLink
  <2> QED BY <1>0, <2>1, <2>2, <2>3 DEF TypeOK
<1>2. PhaseInv'
  BY <1>0 DEF TypeOK, PhaseInv
<1>3. JobsInv'
  BY <1>0 DEF TypeOK, JobsInv
<1>4. BrowserInv'
  BY <1>0 DEF TypeOK, BrowserInv
<1>5. LockInv'
  BY <1>0 DEF TypeOK, LockInv, Critical
<1>6. FileInv'
  BY <1>0 DEF TypeOK, FileInv, LockInv, Critical
<1>7. SavedInv'
  <2>1. Marked' \subseteq Marked \cup {ThisCourse(w)}
    BY <1>0 DEF Marked
  <2> QED BY <1>0, <2>1, MarkStep DEF Inside, Critical
<1>8. WorkInv'
  <2>1. \A s \in SubjectSet : \A i \in 1..Links[s] :
           Course(s, i) \in Known => Course(s, i) \in Known'
    BY <1>0 DEF Known, Course
  <2>2. ThisCourse(w) \in Known' /\ ThisCourse(w) = Course(job[w], link[w])
    BY <1>0 DEF Known, ThisCourse
  <2>3. \A i \in Nat : link[w] <= i => i = link[w] \/ link[w] + 1 <= i
    <3>1. link[w] \in Nat
      BY <1>0, InHand
    <3> QED BY <3>1
  <2>4. ASSUME NEW s \in SubjectSet, NEW i \in 1..Links[s], s \in Elements(queue) \/ Ahead(w, s, i)
        PROVE  Settled(s, i)' \/ Ahead(w, s, i)'
    <3>1. i \in Nat /\ 1 <= i /\ i <= Links[s]
      BY ScraperAssumption
    <3> QED BY <2>4, <3>1, <1>0, <2>2, <2>3 DEF Settled, Ahead, Inside, Critical, Course
  <2>5. \A v \in Workers \ {w} : /\ pc'[v] = pc[v] /\ job'[v] = job[v]
                                 /\ link'[v] = link[v] /\ found'[v] = found[v]
    BY <1>0
  <2> QED BY <1>0, <2>1, <2>4, <2>5, WorkStep
<1>9. LinkInv'
  <2>1. pc[w] \in Inside
    BY <1>0 DEF Inside, Critical
  <2>2. 1 <= link[w] + 1
    BY <2>1, LinkInHand
  <2> QED BY <1>0, <2>2 DEF LinkInv, Inside, Critical
<1>10. BeyondInv'
  <2>1. \A c \in overlooked : Beyond(w, c) => Beyond(w, c)'
    BY <1>0 DEF Beyond, Inside, Critical
  <2> QED BY <1>0, <2>1, BeyondStep
<1>11. ApartInv'
  <2>1. ThisCourse(w) \notin Marked \cup overlooked /\ ThisCourse(w) \in AllLinks(job[w])
    BY <1>0, InHandIsNew DEF Inside, Critical
  <2> QED BY <1>0, <2>1, InHand DEF ApartInv, Marked, AllLinks, Course
<1> QED BY <1>1, <1>2, <1>3, <1>4, <1>5, <1>6, <1>7, <1>8, <1>9, <1>10, <1>11

LEMMA TruncateInv ==
    ASSUME IInv, NEW w \in Workers, Truncate(w)
    PROVE  IInv'
<1> USE DEF IInv
<1>0. /\ phase = "running" /\ pc[w] = "open file"
      /\ file' = Broken("cut")
      /\ \A v \in Workers : pc'[v] = IF v = w THEN "dump" ELSE pc[v]
      /\ UNCHANGED <<found, overlooked, phase, menu, queue, job, attempt, link, browser,
                     lock, data, runs, saved, lost, dropped>>
  BY DEF TypeOK, Truncate, At, Go, main, history
<1>1. TypeOK'
  <2>1. file' \in FileSet
    BY <1>0, SomeFiles
  <2>2. pc' \in [Workers -> Places]
    BY DEF TypeOK, Places, Go, Truncate
  <2> QED BY <1>0, <2>1, <2>2 DEF TypeOK
<1>2. PhaseInv'
  BY <1>0 DEF TypeOK, PhaseInv
<1>3. JobsInv'
  BY <1>0 DEF TypeOK, JobsInv
<1>4. BrowserInv'
  BY <1>0 DEF TypeOK, BrowserInv
<1>5. LockInv'
  BY <1>0 DEF TypeOK, LockInv, Critical
<1>6. FileInv'
  <2>1. \A v \in Workers \ {w} : pc[v] \notin Critical
    BY <1>0, Alone DEF Critical
  <2>2. data[w] = file.courses /\ Elements(file.courses) = saved /\ Distinct(file.courses)
    BY <1>0, <2>1 DEF FileInv, Critical
  <2>3. file'.state = "cut" /\ file'.courses = <<>>
    BY <1>0 DEF Broken
  <2> QED BY <1>0, <2>1, <2>2, <2>3, EmptySequence DEF FileInv, Critical
<1>7. SavedInv'
  <2>1. Marked' \subseteq Marked
    BY <1>0 DEF Marked
  <2>2. \A v \in Workers \ {w} : pc'[v] = pc[v] /\ job'[v] = job[v] /\ link'[v] = link[v]
    BY <1>0
  <2>3. ASSUME NEW c \in Marked, Passed(w, c) PROVE Passed(w, c)'
    BY <1>0, <2>3 DEF Passed, Inside, Critical
  <2> QED BY <1>0, <2>1, <2>2, <2>3, SavedStep
<1>8. WorkInv'
  <2>1. \A s \in SubjectSet : \A i \in 1..Links[s] :
           Course(s, i) \in Known => Course(s, i) \in Known'
    BY <1>0 DEF Known, Course
  <2>4. ASSUME NEW s \in SubjectSet, NEW i \in 1..Links[s], s \in Elements(queue) \/ Ahead(w, s, i)
        PROVE  Settled(s, i)' \/ Ahead(w, s, i)'
    <3>1. i \in Nat /\ 1 <= i /\ i <= Links[s]
      BY ScraperAssumption
    <3> QED BY <2>4, <3>1, <1>0 DEF Settled, Ahead, Inside, Critical
  <2>5. \A v \in Workers \ {w} : /\ pc'[v] = pc[v] /\ job'[v] = job[v]
                                 /\ link'[v] = link[v] /\ found'[v] = found[v]
    BY <1>0
  <2> QED BY <1>0, <2>1, <2>4, <2>5, WorkStep
<1>9. LinkInv'
  BY <1>0 DEF TypeOK, LinkInv, Inside, Critical
<1>10. BeyondInv'
  <2>1. \A c \in overlooked : Beyond(w, c) => Beyond(w, c)'
    BY <1>0 DEF Beyond, Inside, Critical
  <2> QED BY <1>0, <2>1, BeyondStep
<1>11. ApartInv'
  BY <1>0 DEF ApartInv, AllLinks, Course
<1> QED BY <1>1, <1>2, <1>3, <1>4, <1>5, <1>6, <1>7, <1>8, <1>9, <1>10, <1>11

LEMMA DumpInv ==
    ASSUME IInv, NEW w \in Workers, Dump(w)
    PROVE  IInv'
<1> USE DEF IInv
<1>0. /\ phase = "running" /\ pc[w] = "dump"
      /\ lock' = Nobody
      /\ file' = Json(Append(data[w], ThisCourse(w)))
      /\ saved' = saved \cup {ThisCourse(w)}
      /\ \A v \in Workers : link'[v] = IF v = w THEN link[w] + 1 ELSE link[v]
      /\ \A v \in Workers : pc'[v] = IF v = w THEN "links" ELSE pc[v]
      /\ UNCHANGED <<found, overlooked, phase, menu, queue, job, attempt, browser, data,
                     runs, lost, dropped>>
  BY DEF TypeOK, Dump, At, Go, main, history, Release, NextLink
<1>1. TypeOK'
  <2>1. link' \in [Workers -> Nat]
    BY DEF TypeOK, Dump, NextLink
  <2>2. Append(data[w], ThisCourse(w)) \in Seq(CourseSet)
    BY <1>0, InHand, AppendOne DEF TypeOK
  <2>3. file' \in FileSet
    BY <1>0, <2>2, SomeFiles
  <2>4. saved' \subseteq CourseSet
    BY <1>0, InHand DEF TypeOK
  <2>5. pc' \in [Workers -> Places]
    BY DEF TypeOK, Places, Go, Dump, NextLink
  <2> QED BY <1>0, <2>1, <2>2, <2>3, <2>4, <2>5 DEF TypeOK
<1>2. PhaseInv'
  BY <1>0 DEF TypeOK, PhaseInv
<1>3. JobsInv'
  BY <1>0 DEF TypeOK, JobsInv
<1>4. BrowserInv'
  BY <1>0 DEF TypeOK, BrowserInv
<1>5. LockInv'
  BY <1>0 DEF TypeOK, LockInv, Critical
<1>6. FileInv'
  <2>1. \A v \in Workers \ {w} : pc[v] \notin Critical
    BY <1>0, Alone DEF Critical
  <2>2. Elements(data[w]) = saved /\ Distinct(data[w])
    BY <1>0 DEF FileInv
  <2>3. ThisCourse(w) \notin saved
    BY <1>0, InHandIsNew DEF Marked, Inside, Critical
  <2>4. file'.state = "json" /\ file'.courses = Append(data[w], ThisCourse(w))
    BY <1>0 DEF Json
  <2>5. Elements(file'.courses) = saved' /\ Distinct(file'.courses)
    BY <1>0, <2>2, <2>3, <2>4, InHand, AppendOne DEF TypeOK
  <2> QED BY <1>0, <2>1, <2>4, <2>5 DEF FileInv, Critical
<1>7. SavedInv'
  <2>1. Marked' \subseteq Marked \cup {ThisCourse(w)}
    BY <1>0 DEF Marked
  <2> QED BY <1>0, <2>1, MarkStep DEF Inside, Critical
<1>8. WorkInv'
  <2>1. \A s \in SubjectSet : \A i \in 1..Links[s] :
           Course(s, i) \in Known => Course(s, i) \in Known'
    BY <1>0 DEF Known, Course
  <2>2. ThisCourse(w) \in Known' /\ ThisCourse(w) = Course(job[w], link[w])
    BY <1>0 DEF Known, ThisCourse
  <2>3. \A i \in Nat : link[w] <= i => i = link[w] \/ link[w] + 1 <= i
    <3>1. link[w] \in Nat
      BY <1>0, InHand
    <3> QED BY <3>1
  <2>4. ASSUME NEW s \in SubjectSet, NEW i \in 1..Links[s], s \in Elements(queue) \/ Ahead(w, s, i)
        PROVE  Settled(s, i)' \/ Ahead(w, s, i)'
    <3>1. i \in Nat /\ 1 <= i /\ i <= Links[s]
      BY ScraperAssumption
    <3> QED BY <2>4, <3>1, <1>0, <2>2, <2>3 DEF Settled, Ahead, Inside, Critical, Course
  <2>5. \A v \in Workers \ {w} : /\ pc'[v] = pc[v] /\ job'[v] = job[v]
                                 /\ link'[v] = link[v] /\ found'[v] = found[v]
    BY <1>0
  <2> QED BY <1>0, <2>1, <2>4, <2>5, WorkStep
<1>9. LinkInv'
  <2>1. pc[w] \in Inside
    BY <1>0 DEF Inside, Critical
  <2>2. 1 <= link[w] + 1
    BY <2>1, LinkInHand
  <2> QED BY <1>0, <2>2 DEF LinkInv, Inside, Critical
<1>10. BeyondInv'
  <2>1. \A c \in overlooked : Beyond(w, c) => Beyond(w, c)'
    BY <1>0 DEF Beyond, Inside, Critical
  <2> QED BY <1>0, <2>1, BeyondStep
<1>11. ApartInv'
  <2>1. ThisCourse(w) \notin Marked \cup overlooked /\ ThisCourse(w) \in AllLinks(job[w])
    BY <1>0, InHandIsNew DEF Inside, Critical
  <2> QED BY <1>0, <2>1, InHand DEF ApartInv, Marked, AllLinks, Course
<1> QED BY <1>1, <1>2, <1>3, <1>4, <1>5, <1>6, <1>7, <1>8, <1>9, <1>10, <1>11

LEMMA DumpFailsInv ==
    ASSUME IInv, NEW w \in Workers, DumpFails(w)
    PROVE  IInv'
<1> USE DEF IInv
<1>0. /\ phase = "running" /\ pc[w] = "dump"
      /\ lock' = Nobody
      /\ file' \in {Broken("cut"), Broken("garbled")}
      /\ dropped' = dropped \cup {ThisCourse(w)}
      /\ saved' = {} /\ lost' = lost \cup {c \in saved : c.run = runs}
      /\ \A v \in Workers : link'[v] = IF v = w THEN link[w] + 1 ELSE link[v]
      /\ \A v \in Workers : pc'[v] = IF v = w THEN "links" ELSE pc[v]
      /\ UNCHANGED <<found, overlooked, phase, menu, queue, job, attempt, browser, data,
                     runs>>
  BY DEF TypeOK, DumpFails, At, Go, main, history, Release, NextLink
<1>1. TypeOK'
  <2>1. link' \in [Workers -> Nat]
    BY DEF TypeOK, DumpFails, NextLink
  <2>2. dropped' \subseteq CourseSet
    BY <1>0, InHand DEF TypeOK
  <2>3. file' \in FileSet
    BY <1>0, SomeFiles
  <2>4. saved' \subseteq CourseSet /\ lost' \subseteq CourseSet
    BY <1>0 DEF TypeOK
  <2>5. pc' \in [Workers -> Places]
    BY DEF TypeOK, Places, Go, DumpFails, NextLink
  <2> QED BY <1>0, <2>1, <2>2, <2>3, <2>4, <2>5 DEF TypeOK
<1>2. PhaseInv'
  BY <1>0 DEF TypeOK, PhaseInv
<1>3. JobsInv'
  BY <1>0 DEF TypeOK, JobsInv
<1>4. BrowserInv'
  BY <1>0 DEF TypeOK, BrowserInv
<1>5. LockInv'
  BY <1>0 DEF TypeOK, LockInv, Critical
<1>6. FileInv'
  <2>1. \A v \in Workers \ {w} : pc[v] \notin Critical
    BY <1>0, Alone DEF Critical
  <2>2. file'.state # "json" /\ file'.courses = <<>>
    BY <1>0 DEF Broken
  <2> QED BY <1>0, <2>1, <2>2, EmptySequence DEF FileInv, Critical
<1>7. SavedInv'
  <2>1. Marked' \subseteq Marked \cup {ThisCourse(w)}
    BY <1>0 DEF Marked
  <2> QED BY <1>0, <2>1, MarkStep DEF Inside, Critical
<1>8. WorkInv'
  <2>1. \A s \in SubjectSet : \A i \in 1..Links[s] :
           Course(s, i) \in Known => Course(s, i) \in Known'
    BY <1>0 DEF Known, Course
  <2>2. ThisCourse(w) \in Known' /\ ThisCourse(w) = Course(job[w], link[w])
    BY <1>0 DEF Known, ThisCourse
  <2>3. \A i \in Nat : link[w] <= i => i = link[w] \/ link[w] + 1 <= i
    <3>1. link[w] \in Nat
      BY <1>0, InHand
    <3> QED BY <3>1
  <2>4. ASSUME NEW s \in SubjectSet, NEW i \in 1..Links[s], s \in Elements(queue) \/ Ahead(w, s, i)
        PROVE  Settled(s, i)' \/ Ahead(w, s, i)'
    <3>1. i \in Nat /\ 1 <= i /\ i <= Links[s]
      BY ScraperAssumption
    <3> QED BY <2>4, <3>1, <1>0, <2>2, <2>3 DEF Settled, Ahead, Inside, Critical, Course
  <2>5. \A v \in Workers \ {w} : /\ pc'[v] = pc[v] /\ job'[v] = job[v]
                                 /\ link'[v] = link[v] /\ found'[v] = found[v]
    BY <1>0
  <2> QED BY <1>0, <2>1, <2>4, <2>5, WorkStep
<1>9. LinkInv'
  <2>1. pc[w] \in Inside
    BY <1>0 DEF Inside, Critical
  <2>2. 1 <= link[w] + 1
    BY <2>1, LinkInHand
  <2> QED BY <1>0, <2>2 DEF LinkInv, Inside, Critical
<1>10. BeyondInv'
  <2>1. \A c \in overlooked : Beyond(w, c) => Beyond(w, c)'
    BY <1>0 DEF Beyond, Inside, Critical
  <2> QED BY <1>0, <2>1, BeyondStep
<1>11. ApartInv'
  <2>1. ThisCourse(w) \notin Marked \cup overlooked /\ ThisCourse(w) \in AllLinks(job[w])
    BY <1>0, InHandIsNew DEF Inside, Critical
  <2> QED BY <1>0, <2>1, InHand DEF ApartInv, Marked, AllLinks, Course
<1> QED BY <1>1, <1>2, <1>3, <1>4, <1>5, <1>6, <1>7, <1>8, <1>9, <1>10, <1>11

-----------------------------------------------------------------------------
LEMMA NextInv == IInv /\ [Next]_vars => IInv'
<1> SUFFICES ASSUME IInv, [Next]_vars PROVE IInv'
  OBVIOUS
<1>1. CASE Run \/ NoSubjects \/ Submit \/ Complete \/ Kill
  BY <1>1, RunInv, NoSubjectsInv, SubmitInv, CompleteInv, KillInv
<1>2. ASSUME NEW w \in Workers, Subject(w) PROVE IInv'
  BY <1>2, TakeSubjectInv, OpenBrowserInv, FindLinksInv, AttemptFailsInv, SkipLinkInv,
     ScrapeLinkInv, EndSubjectInv DEF Subject
<1>3. ASSUME NEW w \in Workers, AppendCourse(w) PROVE IInv'
  BY <1>3, AcquireInv, ReadInv, TruncateInv, DumpInv, AppendFailsInv, DumpFailsInv
     DEF AppendCourse
<1>4. CASE UNCHANGED vars
  <2>1. UNCHANGED <<phase, menu, queue, job, pc, attempt, found, link, browser, lock, data,
                    file, runs, saved, lost, dropped, overlooked>>
    BY <1>4 DEF vars, threads, history
  <2>2. TypeOK' /\ PhaseInv' /\ JobsInv' /\ BrowserInv' /\ LockInv'
    BY <2>1 DEF IInv, TypeOK, PhaseInv, JobsInv, BrowserInv, LockInv
  <2>3. FileInv' /\ SavedInv'
    BY <2>1 DEF IInv, FileInv, SavedInv, Marked, Passed
  <2>4. WorkInv'
    BY <2>1 DEF IInv, WorkInv, Settled, Ahead, Known, Course
  <2>5. LinkInv' /\ BeyondInv' /\ ApartInv'
    BY <2>1 DEF IInv, LinkInv, BeyondInv, Beyond, ApartInv, AllLinks, Course
  <2> QED BY <2>2, <2>3, <2>4, <2>5 DEF IInv
<1> QED BY <1>1, <1>2, <1>3, <1>4 DEF Next, Thread

LEMMA Invariance == Spec => []IInv
<1> QED BY InitInv, NextInv, PTL DEF Spec

(* TypeOK: every variable has its type. *)
THEOREM TypeCorrect == Spec => []TypeOK
<1>1. IInv => TypeOK
  BY DEF IInv
<1> QED BY <1>1, Invariance, PTL

(* NoLostUpdate: with any number of threads, the file has every course     *)
(* that was saved and not lost to a failed write since.                    *)
THEOREM NoUpdateIsLost == Spec => []NoLostUpdate
<1>1. IInv => NoLostUpdate
  <2> SUFFICES ASSUME IInv, file.state = "json" PROVE Elements(file.courses) = saved
    BY DEF NoLostUpdate, Elements
  <2>1. \A w \in Workers : pc[w] # "dump"
    BY DEF IInv, FileInv
  <2> QED BY <2>1 DEF IInv, FileInv
<1> QED BY <1>1, Invariance, PTL

(* OncePerRun: however often a subject is tried again, no link is saved    *)
(* twice by one run.                                                       *)
THEOREM SavedOncePerRun == Spec => []OncePerRun
<1>1. IInv => OncePerRun
  BY DEF IInv, FileInv, Distinct, OncePerRun
<1> QED BY <1>1, Invariance, PTL

(* BrowsersClosed: whatever fails, a thread that has no subject, or begins *)
(* an attempt, has no browser open, and none is open after the run.        *)
THEOREM BrowsersAreClosed == Spec => []BrowsersClosed
<1>1. IInv => BrowsersClosed
  BY DEF IInv, BrowserInv, PhaseInv, BrowsersClosed
<1> QED BY <1>1, Invariance, PTL

(* Accounted: after a run that is complete the file has of it every link   *)
(* of the catalog that some result page showed, that was not passed over,  *)
(* and that no failed write has lost; and it has no other course of it.    *)
THEOREM LinksAreAccounted == Spec => []Accounted
<1>1. IInv => Accounted
  <2> SUFFICES ASSUME IInv, phase = "running", queue = <<>>, \A w \in Workers : pc[w] = "idle"
               PROVE  OfThisRun = Catalog \ (overlooked \cup dropped \cup lost)
    BY DEF Accounted
  <2>1. Elements(file.courses) = saved
    BY DEF IInv, FileInv
  <2>2. OfThisRun = {c \in saved : c.run = runs}
    BY <2>1 DEF OfThisRun, Elements
  <2>3. ASSUME NEW c \in saved, c.run = runs
        PROVE  c \in Catalog \ (overlooked \cup dropped \cup lost)
    <3>1. c.subject \in SubjectSet
      BY SavedNumbers DEF IInv, Marked
    <3>2. c \in AllLinks(c.subject)
      BY <2>3 DEF IInv, ApartInv
    <3> QED BY <3>1, <3>2 DEF IInv, ApartInv, Catalog
  <2>4. ASSUME NEW c \in Catalog, c \notin overlooked \cup dropped \cup lost
        PROVE  c \in saved /\ c.run = runs
    <3>1. PICK s \in SubjectSet : c \in AllLinks(s)
      BY DEF Catalog
    <3>2. PICK i \in 1..Links[s] : c = Course(s, i)
      BY <3>1 DEF AllLinks
    <3>3. Settled(s, i) \/ \E w \in Workers : Ahead(w, s, i)
      BY DEF IInv, WorkInv
    <3>4. c \in Known
      BY <3>2, <3>3, EmptySequence DEF Settled, Ahead
    <3> QED BY <2>4, <3>2, <3>4 DEF Known, Course
  <2> QED BY <2>2, <2>3, <2>4
<1> QED BY <1>1, Invariance, PTL
=============================================================================
