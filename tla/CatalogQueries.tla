--------------------------- MODULE CatalogQueries ---------------------------
(***************************************************************************)
(* The handlers that need more than one query: GET /courses/:course_code,  *)
(* GET /sections/:course_id, GET /courses/paginated and GET                *)
(* /courses/:course_code/reviews, and the POST of a review.  Every query   *)
(* is on a connection of the shared pool and has a snapshot of its own:    *)
(*                                                                         *)
(*   getCoursesByCode       one query for the offerings of the code, then  *)
(*     GetByCourseID        one query per offering, and, while its rows    *)
(*       GetBySectionID     are open, one query per section;               *)
(*   GetPaginatedCourses    one query for the total, one for the page;     *)
(*   GetReviews             one query for the list, one for the statistics.*)
(*                                                                         *)
(* Meanwhile seed.sh replaces the catalog (module SeedScript): TRUNCATE is *)
(* one transaction and the load another.  All rows get new UUIDs, so a     *)
(* query by an id of an earlier catalog finds nothing.  The reviews are    *)
(* those of one course, and a script leaves them alone.                    *)
(***************************************************************************)
EXTENDS Integers, FiniteSets

CONSTANTS Requests,   \* goroutines that serve a request, reused after it
          Conns,      \* connections of the pool (MaxConns of pgxpool)
          NoConn,     \* no connection
          Offerings,  \* terms in which the course is offered
          Sections,   \* sections of an offering
          MaxReviews, \* bound on the reviews of the course
          MaxEra      \* bound on the catalogs that replace one another

ASSUME QueriesAssumption ==
    /\ IsFiniteSet(Requests) /\ IsFiniteSet(Conns)
    /\ NoConn \notin Conns
    /\ Offerings \in Nat \ {0} /\ Sections \in Nat \ {0}
    /\ MaxReviews \in Nat \ {0}
    /\ MaxEra \in Nat

VARIABLES era,     \* the number of the catalog in the database
          tables,  \* the tables that hold their rows
          reviews, \* the reviews of the course in the database
          free,    \* idle connections of the pool
          pc,      \* what each request does
          job,     \* its local variables
          outer,   \* the connection of its open rows, in GetByCourseID
          inner,   \* the connection of its query in GetBySectionID
          reply    \* the last response

catalog == <<era, tables>>
vars == <<catalog, reviews, free, pc, job, outer, inner, reply>>

Tables == {"courses", "sections", "section_activities"}

Job == [ver : 0..MaxEra,              \* the catalog its ids or total come from
        courses : 0..Offerings,       \* offerings still to hydrate, or totalCount
        sections : 0..Sections,       \* rows not yet read
        listed : 0..MaxReviews,       \* reviews in the list
        holes : BOOLEAN]              \* a query by id has found nothing

NewJob(ver, courses) ==
    [ver |-> ver, courses |-> courses, sections |-> 0, listed |-> 0, holes |-> FALSE]

Init == /\ era = 0
        /\ tables = Tables
        /\ reviews = 0
        /\ free = Conns
        /\ pc = [r \in Requests |-> "idle"]
        /\ job = [r \in Requests |-> NewJob(0, 0)]
        /\ outer = [r \in Requests |-> NoConn]
        /\ inner = [r \in Requests |-> NoConn]
        /\ reply = [status |-> "none"]

-----------------------------------------------------------------------------
(* seed.sh. *)
Truncate == /\ era < MaxEra
            /\ era' = era + 1
            /\ tables' = {}
            /\ UNCHANGED <<reviews, free, pc, job, outer, inner, reply>>

(* Mutant of Load: seed.sql without BEGIN and COMMIT. *)
LoadInPieces == \E t \in Tables \ tables :
                   /\ tables' = tables \cup {t}
                   /\ UNCHANGED <<era, reviews, free, pc, job, outer, inner, reply>>

Load == /\ tables # Tables
        /\ tables' = Tables
        /\ UNCHANGED <<era, reviews, free, pc, job, outer, inner, reply>>

-----------------------------------------------------------------------------
(* The requests.  A client has its ids from any catalog there has been. *)
Known == {v \in 0..era : v < era \/ "courses" \in tables}

GetSectionsByCourseID(r) ==
    /\ pc[r] = "idle"
    /\ pc' = [pc EXCEPT ![r] = "wantSections"]
    /\ \E v \in Known : job' = [job EXCEPT ![r] = NewJob(v, 1)]
    /\ UNCHANGED <<catalog, reviews, free, outer, inner, reply>>

(* A request begins with a query for which it has no id. *)
Ask(r, stage) ==
    /\ pc[r] = "idle"
    /\ pc' = [pc EXCEPT ![r] = stage]
    /\ job' = [job EXCEPT ![r] = NewJob(0, 0)]
    /\ UNCHANGED <<catalog, reviews, free, outer, inner, reply>>

GetCoursesByCode(r) == Ask(r, "wantCourses")
GetPaginatedCourses(r) == Ask(r, "wantCount")
GetReviews(r) == Ask(r, "wantReviews")
CreateReview(r) == Ask(r, "wantInsert")

(* db.Query waits for a connection.  The rows of a section's activities    *)
(* are asked for while those of the sections are open.                     *)
AfterAcquire(stage) == CASE stage = "wantCourses"    -> "readCourses"
                         [] stage = "wantSections"   -> "readSections"
                         [] stage = "wantActivities" -> "readActivities"
                         [] stage = "wantCount"      -> "readCount"
                         [] stage = "wantPage"       -> "readPage"
                         [] stage = "wantReviews"    -> "readReviews"
                         [] stage = "wantStats"      -> "readStats"
                         [] stage = "wantInsert"     -> "insert"

Waiting == {"wantCourses", "wantSections", "wantActivities", "wantCount", "wantPage",
            "wantReviews", "wantStats", "wantInsert"}

Acquire(r) ==
    /\ pc[r] \in Waiting
    /\ \E c \in free :
          /\ free' = free \ {c}
          /\ IF pc[r] = "wantActivities"
             THEN inner' = [inner EXCEPT ![r] = c] /\ UNCHANGED outer
             ELSE outer' = [outer EXCEPT ![r] = c] /\ UNCHANGED inner
    /\ pc' = [pc EXCEPT ![r] = AfterAcquire(@)]
    /\ UNCHANGED <<catalog, reviews, job, reply>>

(* The response, and the catalog at that time. *)
Answer(r, status, holes) ==
    /\ reply' = [status |-> status, ver |-> job[r].ver, holes |-> holes, era |-> era]
    /\ pc' = [pc EXCEPT ![r] = "idle"]

CloseOuter(r) == free' = free \cup {outer[r]} /\ outer' = [outer EXCEPT ![r] = NoConn]
CloseInner(r) == free' = free \cup {inner[r]} /\ inner' = [inner EXCEPT ![r] = NoConn]

(* GetByCode: the offerings, or 404. *)
ReadCourses(r) ==
    /\ pc[r] = "readCourses"
    /\ CloseOuter(r)
    /\ IF "courses" \in tables
       THEN /\ job' = [job EXCEPT ![r] = NewJob(era, Offerings)]
            /\ pc' = [pc EXCEPT ![r] = "wantSections"]
            /\ UNCHANGED reply
       ELSE Answer(r, "not_found", FALSE) /\ UNCHANGED job
    /\ UNCHANGED <<catalog, reviews, inner>>

(* The rows with an id of this request are in the table. *)
Found(r, table) == job[r].ver = era /\ table \in tables

(* GetByCourseID: the rows stay open. *)
ReadSections(r) ==
    /\ pc[r] = "readSections"
    /\ job' = [job EXCEPT ![r].sections = IF Found(r, "sections") THEN Sections ELSE 0,
                          ![r].holes = @ \/ ~Found(r, "sections")]
    /\ pc' = [pc EXCEPT ![r] = "nextRow"]
    /\ UNCHANGED <<catalog, reviews, free, outer, inner, reply>>

(* rows.Next() is true: the activities of this section are next. *)
NextRow(r) ==
    /\ pc[r] = "nextRow" /\ job[r].sections > 0
    /\ job' = [job EXCEPT ![r].sections = @ - 1]
    /\ pc' = [pc EXCEPT ![r] = "wantActivities"]
    /\ UNCHANGED <<catalog, reviews, free, outer, inner, reply>>

(* GetBySectionID. *)
ReadActivities(r) ==
    /\ pc[r] = "readActivities"
    /\ job' = [job EXCEPT ![r].holes = @ \/ ~Found(r, "section_activities")]
    /\ pc' = [pc EXCEPT ![r] = "nextRow"]
    /\ CloseInner(r)
    /\ UNCHANGED <<catalog, reviews, outer, reply>>

(* Mutant of LastRow: the rows are closed when the handler returns. *)
LastRowDeferred(r) ==
    /\ pc[r] = "nextRow" /\ job[r].sections = 0
    /\ job' = [job EXCEPT ![r].courses = @ - 1]
    /\ IF job[r].courses > 1
       THEN /\ pc' = [pc EXCEPT ![r] = "wantSections"]
            /\ UNCHANGED <<free, outer, reply>>
       ELSE CloseOuter(r) /\ Answer(r, "ok", job[r].holes)
    /\ UNCHANGED <<catalog, reviews, inner>>

(* rows.Next() is false: the next offering, or 200. *)
LastRow(r) ==
    /\ pc[r] = "nextRow" /\ job[r].sections = 0
    /\ CloseOuter(r)
    /\ job' = [job EXCEPT ![r].courses = @ - 1]
    /\ IF job[r].courses > 1
       THEN pc' = [pc EXCEPT ![r] = "wantSections"] /\ UNCHANGED reply
       ELSE Answer(r, "ok", job[r].holes)
    /\ UNCHANGED <<catalog, reviews, inner>>

(* GetCoursesCount: the total counts codes, and the model has one. *)
ReadCount(r) ==
    /\ pc[r] = "readCount"
    /\ CloseOuter(r)
    /\ job' = [job EXCEPT ![r] = NewJob(era, IF "courses" \in tables THEN 1 ELSE 0)]
    /\ pc' = [pc EXCEPT ![r] = "wantPage"]
    /\ UNCHANGED <<catalog, reviews, inner, reply>>

(* GetPaginatedCourses of the repository: the page exists if the total is  *)
(* right; 200 with both.                                                   *)
ReadPage(r) ==
    /\ pc[r] = "readPage"
    /\ CloseOuter(r)
    /\ Answer(r, "ok", job[r].courses > 0 /\ "courses" \notin tables)
    /\ UNCHANGED <<catalog, reviews, job, inner>>

(* GetByCourseCode: the newest or oldest up to a limit; rows that are lost *)
(* on the way are not noticed, since rows.Err() is not asked.              *)
ReadReviews(r) ==
    /\ pc[r] = "readReviews"
    /\ CloseOuter(r)
    /\ \E n \in 0..reviews : job' = [job EXCEPT ![r].listed = n]
    /\ pc' = [pc EXCEPT ![r] = "wantStats"]
    /\ UNCHANGED <<catalog, reviews, inner, reply>>

(* Mutant of ReadStats: the statistics are read before the list. *)
ReadStatsFirst(r) ==
    /\ pc[r] = "readStats"
    /\ CloseOuter(r)
    /\ reply' = [status |-> "reviews", listed |-> reviews, total |-> job[r].listed]
    /\ pc' = [pc EXCEPT ![r] = "idle"]
    /\ UNCHANGED <<catalog, reviews, job, inner>>

(* GetCourseStats, and 200 with both. *)
ReadStats(r) ==
    /\ pc[r] = "readStats"
    /\ CloseOuter(r)
    /\ reply' = [status |-> "reviews", listed |-> job[r].listed, total |-> reviews]
    /\ pc' = [pc EXCEPT ![r] = "idle"]
    /\ UNCHANGED <<catalog, reviews, job, inner>>

(* Create: 201, or 500 if the id does not come back, or 409 for an address *)
(* that has written one.  Only the UNIQUE constraint of the table tells.   *)
InsertReview(r) ==
    /\ pc[r] = "insert"
    /\ CloseOuter(r)
    /\ \/ /\ reviews < MaxReviews
          /\ reviews' = reviews + 1
          /\ reply' \in [status : {"created", "failed"}]
       \/ /\ reviews > 0
          /\ reply' = [status |-> "conflict"]
          /\ UNCHANGED reviews
    /\ pc' = [pc EXCEPT ![r] = "idle"]
    /\ UNCHANGED <<catalog, job, inner>>

(* Mutant of Fail: no deferred rows.Close() in GetByCourseID. *)
FailKeepsRows(r) ==
    /\ pc[r] # "idle"
    /\ free' = free \cup ({inner[r]} \ {NoConn})
    /\ inner' = [inner EXCEPT ![r] = NoConn]
    /\ outer' = [outer EXCEPT ![r] = NoConn]
    /\ Answer(r, "error", FALSE)
    /\ UNCHANGED <<catalog, reviews, job>>

(* A query or a row fails, or the client goes away and its context is      *)
(* cancelled, also while waiting for a connection: the deferred            *)
(* rows.Close() of every open query, and 500.                              *)
Fail(r) ==
    /\ pc[r] # "idle"
    /\ free' = free \cup ({outer[r], inner[r]} \ {NoConn})
    /\ inner' = [inner EXCEPT ![r] = NoConn]
    /\ outer' = [outer EXCEPT ![r] = NoConn]
    /\ Answer(r, "error", FALSE)
    /\ UNCHANGED <<catalog, reviews, job>>

Query(r) == \/ ReadCourses(r) \/ ReadSections(r) \/ ReadActivities(r)
            \/ NextRow(r) \/ LastRow(r) \/ ReadCount(r) \/ ReadPage(r)
            \/ ReadReviews(r) \/ ReadStats(r) \/ InsertReview(r)

Next == \/ Truncate \/ Load
        \/ \E r \in Requests : \/ GetCoursesByCode(r) \/ GetSectionsByCourseID(r)
                               \/ GetPaginatedCourses(r) \/ GetReviews(r)
                               \/ CreateReview(r)
                               \/ Acquire(r) \/ Query(r) \/ Fail(r)

Spec == Init /\ [][Next]_vars

(* Queries end, and the pool wakes those who wait in turn.  No client has  *)
(* to go away: neither the server nor the pool has a timeout.              *)
Fairness == \A r \in Requests : WF_vars(Query(r)) /\ SF_vars(Acquire(r))

FairSpec == Spec /\ Fairness

-----------------------------------------------------------------------------
Stages == Waiting \cup {"idle", "readCourses", "readSections", "nextRow", "readActivities",
                        "readCount", "readPage", "readReviews", "readStats", "insert"}

Reply == [status : {"none", "created", "failed", "conflict"}]
           \cup [status : {"reviews"}, listed : 0..MaxReviews, total : 0..MaxReviews]
           \cup [status : {"ok", "not_found", "error"}, ver : 0..MaxEra,
                 holes : BOOLEAN, era : 0..MaxEra]

(* Every variable has its type. *)
TypeOK ==
    /\ era \in 0..MaxEra
    /\ tables \subseteq Tables
    /\ reviews \in 0..MaxReviews
    /\ free \subseteq Conns
    /\ pc \in [Requests -> Stages]
    /\ job \in [Requests -> Job]
    /\ outer \in [Requests -> Conns \cup {NoConn}]
    /\ inner \in [Requests -> Conns \cup {NoConn}]
    /\ reply \in Reply

(* Conn c is lent to request r. *)
Holds(r, c) == c \in {outer[r], inner[r]}

(* Whatever fails and wherever, a connection that is not in the pool is at *)
(* work for a request (the deferred rows.Close()).                         *)
NoConnectionLost == \A c \in Conns : c \in free \/ \E r \in Requests : Holds(r, c)

(* While the pool is empty some request is at work and will give a         *)
(* connection back: never do all holders of a connection wait for another. *)
NeverWedged == free = {} => \E r \in Requests : outer[r] # NoConn /\ pc[r] \notin Waiting

(* "returns all term-offerings for a course code, each hydrated with       *)
(* sections + activities": a 200 lacks some, or the courses that it has    *)
(* counted, only if the catalog that its ids or its total come from has    *)
(* been truncated before it is sent.                                       *)
PartialOnlyIfReplaced ==
    reply.status = "ok" /\ reply.holes => reply.ver < reply.era

(* The list of reviews and their statistics are two queries, and reviews   *)
(* are posted in between: the statistics of a response are of all reviews  *)
(* that are in its list.                                                   *)
ListedAreCounted == reply.status = "reviews" => reply.listed <= reply.total

(* Every request is answered: no timeout would end one that is not. *)
EveryRequestAnswered == \A r \in Requests : pc[r] # "idle" ~> pc[r] = "idle"
=============================================================================
