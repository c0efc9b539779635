------------------------ MODULE CatalogQueriesProofs ------------------------
(***************************************************************************)
(* The safety properties of CatalogQueries for every number of requests,   *)
(* connections, offerings, sections, reviews and reseeds.  The inductive   *)
(* invariant says which connections a request holds at each of its stages, *)
(* that no two requests hold the same one, what a request knows of the     *)
(* catalog it follows, and that the reviews it has listed are still there. *)
(***************************************************************************)
EXTENDS CatalogQueries, FiniteSetTheorems, TLAPS

(* The stages at which a request has a connection for its own query, or    *)
(* GetByCourseID for its rows.                                             *)
Lending == {"readCourses", "readSections", "nextRow", "wantActivities", "readActivities",
            "readCount", "readPage", "readReviews", "readStats", "insert"}

(* The stages at which a request follows the ids, or the total, of a       *)
(* catalog.                                                                *)
Hydrating == {"wantSections", "readSections", "nextRow", "wantActivities", "readActivities"}
Paging == {"wantPage", "readPage"}
Following == Hydrating \cup Paging

(* The stages at which GetReviews has its list. *)
Counting == {"wantStats", "readStats"}

StageInv ==
    \A r \in Requests : /\ outer[r] # NoConn <=> pc[r] \in Lending
                        /\ inner[r] # NoConn <=> pc[r] = "readActivities"

(* A connection is idle or lent to one request, for one query. *)
LendingInv ==
    /\ \A r \in Requests : outer[r] \notin free /\ inner[r] \notin free
    /\ \A r \in Requests : outer[r] # NoConn => outer[r] # inner[r]
    /\ \A r, s \in Requests : r # s => \A c \in Conns : ~(Holds(r, c) /\ Holds(s, c))
    /\ NoConnectionLost

PoolInv == StageInv /\ LendingInv

(* Catalogs are loaded as a whole. *)
WholeInv == tables \in {{}, Tables}

JobInv ==
    \A r \in Requests : pc[r] \in Following =>
        /\ pc[r] \in Hydrating => job[r].courses > 0
        /\ job[r].ver <= era
        /\ job[r].courses > 0 /\ job[r].ver = era => tables = Tables
        /\ job[r].holes => job[r].ver < era

(* No review goes away. *)
ListInv == \A r \in Requests : pc[r] \in Counting => job[r].listed <= reviews

Answers == PartialOnlyIfReplaced /\ ListedAreCounted

IInv == TypeOK /\ PoolInv /\ WholeInv /\ JobInv /\ ListInv /\ Answers

-----------------------------------------------------------------------------
LEMMA InitInv == Init => IInv
<1> SUFFICES ASSUME Init PROVE IInv
  OBVIOUS
<1>1. TypeOK
  BY QueriesAssumption DEF Init, TypeOK, Job, NewJob, Stages, Waiting, Reply
<1>2. PoolInv
  BY QueriesAssumption DEF Init, PoolInv, StageInv, LendingInv, Lending, NoConnectionLost, Holds
<1>3. WholeInv /\ JobInv /\ ListInv /\ Answers
  BY DEF Init, WholeInv, JobInv, Following, Hydrating, Paging, ListInv, Counting, Answers,
         PartialOnlyIfReplaced, ListedAreCounted
<1> QED BY <1>1, <1>2, <1>3 DEF IInv

LEMMA ReplyTyped ==
    ASSUME NEW status \in {"ok", "not_found", "error"},
           NEW ver \in 0..MaxEra, NEW holes \in BOOLEAN, NEW e \in 0..MaxEra
    PROVE  [status |-> status, ver |-> ver, holes |-> holes, era |-> e] \in Reply
BY DEF Reply

(* A step of one request keeps what the others hold. *)
LEMMA OneRequest ==
    ASSUME TypeOK, NEW r \in Requests, NEW stage \in Stages, NEW j \in Job,
           pc' = [pc EXCEPT ![r] = stage], job' = [job EXCEPT ![r] = j]
    PROVE  /\ pc' \in [Requests -> Stages] /\ job' \in [Requests -> Job]
           /\ pc'[r] = stage /\ job'[r] = j
           /\ \A s \in Requests : s # r => pc'[s] = pc[s] /\ job'[s] = job[s]
BY DEF TypeOK

(* Enough for a step that takes and returns no connection: the stages      *)
(* before and after lend the same ones.                                    *)
LEMMA SameConnections ==
    ASSUME IInv, NEW r \in Requests, NEW stage \in Stages,
           pc' = [pc EXCEPT ![r] = stage],
           UNCHANGED <<free, outer, inner>>,
           stage \in Lending <=> pc[r] \in Lending,
           stage = "readActivities" <=> pc[r] = "readActivities"
    PROVE  PoolInv'
<1>1. pc'[r] = stage /\ \A s \in Requests : s # r => pc'[s] = pc[s]
  BY DEF IInv, TypeOK
<1>2. StageInv'
  BY <1>1 DEF IInv, PoolInv, StageInv
<1>3. LendingInv'
  BY DEF IInv, PoolInv, LendingInv, NoConnectionLost, Holds
<1> QED BY <1>2, <1>3 DEF PoolInv

(* Enough for a step of request r to keep what is known of the catalogs. *)
LEMMA SameCatalog ==
    ASSUME IInv, NEW r \in Requests, NEW stage \in Stages, NEW j \in Job,
           pc' = [pc EXCEPT ![r] = stage], job' = [job EXCEPT ![r] = j],
           UNCHANGED <<catalog, reviews>>,
           stage \in Counting => j.listed <= reviews,
           stage \in Following => /\ stage \in Hydrating => j.courses > 0
                                  /\ j.ver <= era
                                  /\ j.courses > 0 /\ j.ver = era => tables = Tables
                                  /\ j.holes => j.ver < era
    PROVE  WholeInv' /\ JobInv' /\ ListInv'
<1>1. /\ pc'[r] = stage /\ job'[r] = j
      /\ \A s \in Requests : s # r => pc'[s] = pc[s] /\ job'[s] = job[s]
  BY OneRequest DEF IInv
<1>2. WholeInv'
  BY DEF IInv, WholeInv, catalog
<1>3. JobInv'
  BY <1>1 DEF IInv, JobInv, catalog
<1>4. ListInv'
  BY <1>1 DEF IInv, ListInv
<1> QED BY <1>2, <1>3, <1>4

-----------------------------------------------------------------------------
LEMMA TruncateInv == ASSUME IInv, Truncate PROVE IInv'
<1>1. TypeOK'
  BY QueriesAssumption DEF IInv, TypeOK, Truncate
<1>2. PoolInv'
  BY DEF IInv, PoolInv, StageInv, LendingInv, NoConnectionLost, Holds, Truncate
<1>3. WholeInv'
  BY DEF Truncate, WholeInv
<1>4. \A r \in Requests : job[r].ver \in Nat
  BY QueriesAssumption DEF IInv, TypeOK, Job
<1>5. era \in Nat /\ era' = era + 1
  BY DEF IInv, TypeOK, Truncate
<1>6. JobInv'
  BY <1>4, <1>5 DEF IInv, JobInv, Truncate
<1>7. ListInv' /\ Answers'
  BY DEF IInv, ListInv, Answers, PartialOnlyIfReplaced, ListedAreCounted, Truncate
<1> QED BY <1>1, <1>2, <1>3, <1>6, <1>7 DEF IInv

LEMMA LoadInv == ASSUME IInv, Load PROVE IInv'
<1>1. TypeOK'
  BY DEF IInv, TypeOK, Load
<1>2. PoolInv'
  BY DEF IInv, PoolInv, StageInv, LendingInv, NoConnectionLost, Holds, Load
<1>3. WholeInv' /\ JobInv' /\ ListInv' /\ Answers'
  BY DEF IInv, WholeInv, JobInv, ListInv, Answers, PartialOnlyIfReplaced, ListedAreCounted, Load
<1> QED BY <1>1, <1>2, <1>3 DEF IInv

LEMMA AskInv ==
    ASSUME IInv, NEW r \in Requests,
           \/ GetSectionsByCourseID(r)
           \/ \E s \in {"wantCourses", "wantCount", "wantReviews", "wantInsert"} : Ask(r, s)
    PROVE  IInv'
<1>1. PICK stage \in {"wantCourses", "wantSections", "wantCount", "wantReviews", "wantInsert"},
           j \in Job :
         /\ pc' = [pc EXCEPT ![r] = stage] /\ job' = [job EXCEPT ![r] = j]
         /\ stage \in Following => j.ver \in Known /\ ~j.holes /\ j.courses > 0
  <2>1. CASE GetSectionsByCourseID(r)
    <3>1. PICK v \in Known : job' = [job EXCEPT ![r] = NewJob(v, 1)]
      BY <2>1 DEF GetSectionsByCourseID
    <3>2. v \in 0..MaxEra
      BY QueriesAssumption DEF Known, IInv, TypeOK
    <3>3. NewJob(v, 1) \in Job
      BY <3>2, QueriesAssumption DEF NewJob, Job
    <3>4. NewJob(v, 1).ver \in Known /\ ~NewJob(v, 1).holes
          /\ NewJob(v, 1).courses > 0
      BY <3>1 DEF NewJob
    <3> QED BY <2>1, <3>1, <3>3, <3>4 DEF GetSectionsByCourseID
  <2>2. ASSUME NEW s \in {"wantCourses", "wantCount", "wantReviews", "wantInsert"}, Ask(r, s)
        PROVE  \E stage \in {"wantCourses", "wantSections", "wantCount", "wantReviews",
                              "wantInsert"}, j \in Job :
                  /\ pc' = [pc EXCEPT ![r] = stage] /\ job' = [job EXCEPT ![r] = j]
                  /\ stage \in Following => j.ver \in Known /\ ~j.holes /\ j.courses > 0
    <3>1. NewJob(0, 0) \in Job
      BY QueriesAssumption DEF NewJob, Job
    <3> QED BY <2>2, <3>1 DEF Ask, Following, Hydrating, Paging
  <2> QED BY <2>1, <2>2
<1>2. pc[r] = "idle" /\ UNCHANGED <<catalog, reviews, free, outer, inner, reply>>
  BY DEF Ask, GetSectionsByCourseID
<1>3. stage \in Stages
  BY DEF Stages, Waiting
<1>4. TypeOK'
  BY <1>1, <1>2, <1>3, OneRequest DEF IInv, TypeOK, catalog
<1>5. PoolInv'
  BY <1>1, <1>2, <1>3, SameConnections DEF Lending
<1>6. \A v \in Known : v <= era /\ (v = era => tables = Tables)
  BY DEF Known, IInv, TypeOK, WholeInv
<1>7. WholeInv' /\ JobInv' /\ ListInv'
  BY <1>1, <1>2, <1>3, <1>6, SameCatalog DEF Counting
<1>8. Answers'
  BY <1>2 DEF IInv, Answers, PartialOnlyIfReplaced, ListedAreCounted
<1> QED BY <1>4, <1>5, <1>7, <1>8 DEF IInv

-----------------------------------------------------------------------------
(* Connections that are returned. *)
LEMMA CloseOuterLending ==
    ASSUME IInv, NEW r \in Requests, outer[r] # NoConn, CloseOuter(r), UNCHANGED inner
    PROVE  /\ LendingInv' /\ free' \subseteq Conns
           /\ outer' \in [Requests -> Conns \cup {NoConn}] /\ outer'[r] = NoConn
           /\ \A s \in Requests : s # r => outer'[s] = outer[s]
<1>1. /\ outer' \in [Requests -> Conns \cup {NoConn}] /\ outer'[r] = NoConn
      /\ \A s \in Requests : s # r => outer'[s] = outer[s]
      /\ outer[r] \in Conns /\ inner \in [Requests -> Conns \cup {NoConn}]
      /\ free \subseteq Conns
  BY DEF IInv, TypeOK, CloseOuter
<1>2. free' = free \cup {outer[r]}
  BY DEF CloseOuter
<1>3. \A s \in Requests : outer'[s] \notin free' /\ inner'[s] \notin free'
  BY <1>1, <1>2, QueriesAssumption DEF IInv, PoolInv, LendingInv, Holds
<1>4. NoConnectionLost'
  BY <1>1, <1>2 DEF IInv, PoolInv, LendingInv, NoConnectionLost, Holds
<1>5. /\ \A s \in Requests : outer'[s] # NoConn => outer'[s] # inner'[s]
      /\ \A s, q \in Requests : s # q => \A c \in Conns : ~(Holds(s, c)' /\ Holds(q, c)')
  BY <1>1, QueriesAssumption DEF IInv, PoolInv, LendingInv, Holds
<1> QED BY <1>1, <1>2, <1>3, <1>4, <1>5 DEF LendingInv

LEMMA CloseInnerLending ==
    ASSUME IInv, NEW r \in Requests, inner[r] # NoConn, CloseInner(r), UNCHANGED outer
    PROVE  /\ LendingInv' /\ free' \subseteq Conns
           /\ inner' \in [Requests -> Conns \cup {NoConn}] /\ inner'[r] = NoConn
           /\ \A s \in Requests : s # r => inner'[s] = inner[s]
<1>1. /\ inner' \in [Requests -> Conns \cup {NoConn}] /\ inner'[r] = NoConn
      /\ \A s \in Requests : s # r => inner'[s] = inner[s]
      /\ inner[r] \in Conns /\ outer \in [Requests -> Conns \cup {NoConn}]
      /\ free \subseteq Conns
  BY DEF IInv, TypeOK, CloseInner
<1>2. free' = free \cup {inner[r]}
  BY DEF CloseInner
<1>3. \A s \in Requests : outer'[s] \notin free' /\ inner'[s] \notin free'
  BY <1>1, <1>2, QueriesAssumption DEF IInv, PoolInv, LendingInv, Holds
<1>4. NoConnectionLost'
  BY <1>1, <1>2 DEF IInv, PoolInv, LendingInv, NoConnectionLost, Holds
<1>5. /\ \A s \in Requests : outer'[s] # NoConn => outer'[s] # inner'[s]
      /\ \A s, q \in Requests : s # q => \A c \in Conns : ~(Holds(s, c)' /\ Holds(q, c)')
  BY <1>1, QueriesAssumption DEF IInv, PoolInv, LendingInv, Holds
<1> QED BY <1>1, <1>2, <1>3, <1>4, <1>5 DEF LendingInv

LEMMA AcquireInv == ASSUME IInv, NEW r \in Requests, Acquire(r) PROVE IInv'
<1>1. PICK c \in free :
         /\ free' = free \ {c}
         /\ IF pc[r] = "wantActivities"
            THEN inner' = [inner EXCEPT ![r] = c] /\ UNCHANGED outer
            ELSE outer' = [outer EXCEPT ![r] = c] /\ UNCHANGED inner
  BY DEF Acquire
<1> DEFINE stage == AfterAcquire(pc[r])
<1>2. /\ pc[r] \in Waiting /\ pc' = [pc EXCEPT ![r] = stage]
      /\ UNCHANGED <<catalog, reviews, job, reply>>
  BY DEF Acquire, IInv, TypeOK
<1>3. /\ stage \in Stages /\ stage \in Lending /\ stage # "wantActivities"
      /\ stage = "readActivities" <=> pc[r] = "wantActivities"
      /\ stage \in Following <=> pc[r] \in Following
      /\ stage \in Hydrating <=> pc[r] \in Hydrating
      /\ stage \in Counting <=> pc[r] \in Counting
  BY <1>2 DEF AfterAcquire, Waiting, Stages, Lending, Following, Hydrating, Paging, Counting
<1>4. /\ job[r] \in Job /\ job' = [job EXCEPT ![r] = job[r]]
      /\ pc'[r] = stage /\ \A s \in Requests : s # r => pc'[s] = pc[s]
      /\ c \in Conns /\ c # NoConn
  BY <1>1, <1>2, QueriesAssumption DEF IInv, TypeOK
<1> HIDE DEF stage
<1>5. TypeOK'
  BY <1>1, <1>2, <1>3 DEF IInv, TypeOK, catalog
<1>6. /\ outer[r] # NoConn <=> pc[r] = "wantActivities"
      /\ inner[r] = NoConn
  BY <1>2 DEF IInv, PoolInv, StageInv, Lending, Waiting
<1>7. /\ outer'[r] = (IF pc[r] = "wantActivities" THEN outer[r] ELSE c)
      /\ inner'[r] = (IF pc[r] = "wantActivities" THEN c ELSE NoConn)
      /\ \A s \in Requests : s # r => outer'[s] = outer[s] /\ inner'[s] = inner[s]
  BY <1>1, <1>6 DEF IInv, TypeOK
<1>8. StageInv'
  BY <1>3, <1>4, <1>6, <1>7 DEF IInv, PoolInv, StageInv
<1>9. LendingInv'
  <2>1. \A s \in Requests : outer'[s] \notin free' /\ inner'[s] \notin free'
    BY <1>1, <1>7, QueriesAssumption DEF IInv, TypeOK, PoolInv, LendingInv
  <2>2. \A s \in Requests : outer'[s] # NoConn => outer'[s] # inner'[s]
    BY <1>4, <1>6, <1>7 DEF IInv, PoolInv, LendingInv
  <2>3. \A s \in Requests, d \in Conns :
           Holds(s, d)' => (Holds(s, d) /\ d # c) \/ (s = r /\ d = c)
    BY <1>4, <1>6, <1>7, QueriesAssumption DEF Holds, IInv, PoolInv, LendingInv
  <2>4. \A s, q \in Requests : s # q => \A d \in Conns : ~(Holds(s, d)' /\ Holds(q, d)')
    BY <2>3 DEF IInv, PoolInv, LendingInv
  <2>5. NoConnectionLost'
    BY <1>1, <1>4, <1>6, <1>7, QueriesAssumption
    DEF IInv, PoolInv, LendingInv, NoConnectionLost, Holds
  <2> QED BY <2>1, <2>2, <2>4, <2>5 DEF LendingInv
<1>10. WholeInv' /\ JobInv' /\ ListInv'
  <2>1. stage \in Following => /\ stage \in Hydrating => job[r].courses > 0
                               /\ job[r].ver <= era
                               /\ job[r].courses > 0 /\ job[r].ver = era => tables = Tables
                               /\ job[r].holes => job[r].ver < era
    BY <1>3 DEF IInv, JobInv
  <2>2. stage \in Counting => job[r].listed <= reviews
    BY <1>3 DEF IInv, ListInv
  <2> QED BY <1>2, <1>3, <1>4, <2>1, <2>2, SameCatalog
<1>11. Answers'
  BY <1>2 DEF IInv, Answers, PartialOnlyIfReplaced, ListedAreCounted
<1> QED BY <1>5, <1>8, <1>9, <1>10, <1>11 DEF IInv, PoolInv

-----------------------------------------------------------------------------
LEMMA ReadCoursesInv == ASSUME IInv, NEW r \in Requests, ReadCourses(r) PROVE IInv'
<1>1. pc[r] = "readCourses" /\ outer[r] # NoConn /\ inner[r] = NoConn
  BY DEF ReadCourses, IInv, PoolInv, StageInv, Lending
<1>2. /\ LendingInv' /\ free' \subseteq Conns
      /\ outer' \in [Requests -> Conns \cup {NoConn}] /\ outer'[r] = NoConn
      /\ \A s \in Requests : s # r => outer'[s] = outer[s]
  BY <1>1, CloseOuterLending DEF ReadCourses
<1>3. PICK stage \in {"wantSections", "idle"}, j \in Job :
         /\ pc' = [pc EXCEPT ![r] = stage] /\ job' = [job EXCEPT ![r] = j]
         /\ stage \in Following => /\ "courses" \in tables /\ j.ver = era
                                /\ ~j.holes /\ j.courses > 0
  <2>1. NewJob(era, Offerings) \in Job
    BY QueriesAssumption DEF NewJob, Job, IInv, TypeOK
  <2>2. job[r] \in Job /\ job = [job EXCEPT ![r] = job[r]]
    BY DEF IInv, TypeOK
  <2>3. /\ NewJob(era, Offerings).ver = era /\ ~NewJob(era, Offerings).holes
        /\ NewJob(era, Offerings).courses > 0
    BY QueriesAssumption DEF NewJob
  <2>4. CASE "courses" \in tables
    BY <2>1, <2>3, <2>4 DEF ReadCourses
  <2>5. CASE "courses" \notin tables
    BY <2>2, <2>5 DEF ReadCourses, Answer, Following, Hydrating, Paging
  <2> QED BY <2>4, <2>5
<1>4. stage \in Stages
  BY DEF Stages, Waiting
<1>5. reply' = reply \/ (reply'.status = "not_found" /\ ~reply'.holes)
  BY DEF ReadCourses, Answer
<1>6. TypeOK'
  <2>1. UNCHANGED <<catalog, reviews, inner>>
    BY DEF ReadCourses
  <2>2. job[r].ver \in 0..MaxEra /\ era \in 0..MaxEra
    BY DEF IInv, TypeOK, Job
  <2>3. reply' = reply
          \/ reply' = [status |-> "not_found", ver |-> job[r].ver,
                       holes |-> FALSE, era |-> era]
    BY DEF ReadCourses, Answer
  <2>4. reply' \in Reply
    <3>1. reply \in Reply
      BY DEF IInv, TypeOK
    <3> QED BY <2>2, <2>3, <3>1, ReplyTyped
  <2> QED BY <1>2, <1>3, <1>4, <2>1, <2>4, OneRequest DEF IInv, TypeOK, catalog
<1>7. StageInv'
  <2>1. /\ pc'[r] = stage /\ \A s \in Requests : s # r => pc'[s] = pc[s]
        /\ UNCHANGED inner
    BY <1>3 DEF IInv, TypeOK, ReadCourses
  <2> QED BY <1>1, <1>2, <2>1 DEF IInv, PoolInv, StageInv, Lending
<1>8. WholeInv' /\ JobInv' /\ ListInv'
  <2>1. stage \in Following => /\ j.courses > 0
                               /\ j.ver <= era
                               /\ j.ver = era => tables = Tables
                               /\ j.holes => j.ver < era
    BY <1>3 DEF IInv, TypeOK, WholeInv
  <2> QED BY <1>3, <1>4, <2>1, SameCatalog DEF ReadCourses, Counting
<1>9. Answers'
  BY <1>5 DEF IInv, Answers, PartialOnlyIfReplaced, ListedAreCounted
<1> QED BY <1>2, <1>6, <1>7, <1>8, <1>9 DEF IInv, PoolInv

(* The rows that a query by an id does not find have been replaced. *)
LEMMA NotFoundReplaced ==
    ASSUME IInv, NEW r \in Requests, pc[r] \in Hydrating,
           NEW table \in Tables, ~Found(r, table)
    PROVE  job[r].ver < era
<1>1. job[r].ver \in Nat /\ era \in Nat
  BY QueriesAssumption DEF IInv, TypeOK, Job
<1> QED BY <1>1 DEF IInv, JobInv, Found, Following

LEMMA ReadSectionsInv == ASSUME IInv, NEW r \in Requests, ReadSections(r) PROVE IInv'
<1> DEFINE n == IF Found(r, "sections") THEN Sections ELSE 0
           h == job[r].holes \/ ~Found(r, "sections")
           j == [job[r] EXCEPT !.sections = n, !.holes = h]
<1>1. pc[r] = "readSections" /\ UNCHANGED <<catalog, reviews, free, outer, inner, reply>>
  BY DEF ReadSections
<1>2. job[r] \in Job /\ n \in 0..Sections /\ h \in BOOLEAN
  BY QueriesAssumption DEF IInv, TypeOK, Job, Found
<1>3. /\ j \in Job /\ j.ver = job[r].ver /\ j.holes = h /\ j.courses = job[r].courses
      /\ job' = [job EXCEPT ![r] = j] /\ pc' = [pc EXCEPT ![r] = "nextRow"]
  BY <1>2 DEF Job, ReadSections, IInv, TypeOK
<1>4. h => job[r].ver < era
  BY <1>1, NotFoundReplaced DEF Following, Hydrating, Tables, IInv, JobInv
<1> HIDE DEF j, h, n
<1>5. "nextRow" \in Stages
  BY DEF Stages
<1>6. TypeOK'
  BY <1>1, <1>3, <1>5, OneRequest DEF IInv, TypeOK, catalog
<1>7. PoolInv'
  BY <1>1, <1>3, <1>5, SameConnections DEF Lending
<1>8. WholeInv' /\ JobInv' /\ ListInv'
  <2>1. job[r].courses > 0 /\ job[r].ver <= era /\ (job[r].ver = era => tables = Tables)
    BY <1>1 DEF IInv, JobInv, Following, Hydrating
  <2> QED BY <1>1, <1>3, <1>4, <1>5, <2>1, SameCatalog DEF Counting
<1>9. Answers'
  BY <1>1 DEF IInv, Answers, PartialOnlyIfReplaced, ListedAreCounted
<1> QED BY <1>6, <1>7, <1>8, <1>9 DEF IInv

LEMMA NextRowInv == ASSUME IInv, NEW r \in Requests, NextRow(r) PROVE IInv'
<1> DEFINE j == [job[r] EXCEPT !.sections = job[r].sections - 1]
<1>1. /\ pc[r] = "nextRow" /\ job[r].sections > 0
      /\ UNCHANGED <<catalog, reviews, free, outer, inner, reply>>
  BY DEF NextRow
<1>2. /\ job[r] \in Job /\ job[r].sections \in 0..Sections
      /\ job[r].sections - 1 \in 0..Sections
  BY <1>1, QueriesAssumption DEF IInv, TypeOK, Job
<1>3. /\ j \in Job /\ j.ver = job[r].ver /\ j.holes = job[r].holes /\ j.courses = job[r].courses
      /\ job' = [job EXCEPT ![r] = j] /\ pc' = [pc EXCEPT ![r] = "wantActivities"]
  BY <1>2 DEF Job, NextRow, IInv, TypeOK
<1> HIDE DEF j
<1>4. "wantActivities" \in Stages
  BY DEF Stages, Waiting
<1>5. TypeOK'
  BY <1>1, <1>3, <1>4, OneRequest DEF IInv, TypeOK, catalog
<1>6. PoolInv'
  BY <1>1, <1>3, <1>4, SameConnections DEF Lending
<1>7. WholeInv' /\ JobInv' /\ ListInv'
  <2>1. /\ job[r].courses > 0
        /\ job[r].ver <= era
        /\ job[r].ver = era => tables = Tables
        /\ job[r].holes => job[r].ver < era
    BY <1>1 DEF IInv, JobInv, Following, Hydrating
  <2> QED BY <1>1, <1>3, <1>4, <2>1, SameCatalog DEF Counting
<1>8. Answers'
  BY <1>1 DEF IInv, Answers, PartialOnlyIfReplaced, ListedAreCounted
<1> QED BY <1>5, <1>6, <1>7, <1>8 DEF IInv

LEMMA ReadActivitiesInv == ASSUME IInv, NEW r \in Requests, ReadActivities(r) PROVE IInv'
<1> DEFINE h == job[r].holes \/ ~Found(r, "section_activities")
           j == [job[r] EXCEPT !.holes = h]
<1>1. pc[r] = "readActivities" /\ UNCHANGED <<catalog, reviews, outer, reply>>
  BY DEF ReadActivities
<1>2. job[r] \in Job /\ h \in BOOLEAN
  BY DEF IInv, TypeOK, Job, Found
<1>3. /\ j \in Job /\ j.ver = job[r].ver /\ j.holes = h /\ j.courses = job[r].courses
      /\ job' = [job EXCEPT ![r] = j] /\ pc' = [pc EXCEPT ![r] = "nextRow"]
  BY <1>2 DEF Job, ReadActivities, IInv, TypeOK
<1>4. h => job[r].ver < era
  BY <1>1, NotFoundReplaced DEF Following, Hydrating, Tables, IInv, JobInv
<1> HIDE DEF j, h
<1>5. "nextRow" \in Stages
  BY DEF Stages
<1>6. outer[r] # NoConn /\ inner[r] # NoConn
  BY <1>1 DEF IInv, PoolInv, StageInv, Lending
<1>7. /\ LendingInv' /\ free' \subseteq Conns
      /\ inner' \in [Requests -> Conns \cup {NoConn}] /\ inner'[r] = NoConn
      /\ \A s \in Requests : s # r => inner'[s] = inner[s]
  BY <1>6, CloseInnerLending DEF ReadActivities
<1>8. TypeOK'
  BY <1>1, <1>3, <1>5, <1>7, OneRequest DEF IInv, TypeOK, catalog
<1>9. StageInv'
  <2>1. pc'[r] = "nextRow" /\ \A s \in Requests : s # r => pc'[s] = pc[s]
    BY <1>3 DEF IInv, TypeOK
  <2> QED BY <1>1, <1>6, <1>7, <2>1 DEF IInv, PoolInv, StageInv, Lending
<1>10. WholeInv' /\ JobInv' /\ ListInv'
  <2>1. job[r].courses > 0 /\ job[r].ver <= era /\ (job[r].ver = era => tables = Tables)
    BY <1>1 DEF IInv, JobInv, Following, Hydrating
  <2> QED BY <1>1, <1>3, <1>4, <1>5, <2>1, SameCatalog DEF Counting
<1>11. Answers'
  BY <1>1 DEF IInv, Answers, PartialOnlyIfReplaced, ListedAreCounted
<1> QED BY <1>7, <1>8, <1>9, <1>10, <1>11 DEF IInv, PoolInv

LEMMA LastRowInv == ASSUME IInv, NEW r \in Requests, LastRow(r) PROVE IInv'
<1> DEFINE j == [job[r] EXCEPT !.courses = job[r].courses - 1]
           stage == IF job[r].courses > 1 THEN "wantSections" ELSE "idle"
<1>1. pc[r] = "nextRow" /\ UNCHANGED <<catalog, reviews, inner>>
  BY DEF LastRow
<1>1a. /\ job[r].courses > 0
       /\ job[r].ver <= era
       /\ job[r].ver = era => tables = Tables
       /\ job[r].holes => job[r].ver < era
  BY <1>1 DEF IInv, JobInv, Following, Hydrating
<1>2. /\ job[r] \in Job /\ job[r].courses - 1 \in 0..Offerings
      /\ job[r].ver \in 0..MaxEra
      /\ job[r].holes \in BOOLEAN /\ era \in 0..MaxEra
  BY <1>1a, QueriesAssumption DEF IInv, TypeOK, Job
<1>3. /\ j \in Job /\ j.ver = job[r].ver /\ j.holes = job[r].holes
      /\ j.courses = job[r].courses - 1
      /\ job' = [job EXCEPT ![r] = j]
  BY <1>2 DEF Job, LastRow, IInv, TypeOK
<1>4. /\ stage \in Stages /\ stage \notin Lending /\ stage # "readActivities"
      /\ stage \notin Counting
      /\ pc' = [pc EXCEPT ![r] = stage]
  BY DEF LastRow, Answer, Stages, Waiting, Lending, Counting
<1>5. reply' = reply
        \/ reply' = [status |-> "ok", ver |-> job[r].ver,
                     holes |-> job[r].holes, era |-> era]
  BY DEF LastRow, Answer
<1>5a. stage \in Following => j.courses > 0
  BY <1>2, <1>3, QueriesAssumption DEF Following, Hydrating, Paging, Job
<1> HIDE DEF j, stage
<1>6. outer[r] # NoConn /\ inner[r] = NoConn
  BY <1>1 DEF IInv, PoolInv, StageInv, Lending
<1>7. /\ LendingInv' /\ free' \subseteq Conns
      /\ outer' \in [Requests -> Conns \cup {NoConn}] /\ outer'[r] = NoConn
      /\ \A s \in Requests : s # r => outer'[s] = outer[s]
  BY <1>6, CloseOuterLending DEF LastRow
<1>8. reply' \in Reply
  <2>1. reply \in Reply
    BY DEF IInv, TypeOK
  <2> QED BY <1>2, <1>5, <2>1, ReplyTyped
<1>9. TypeOK'
  BY <1>1, <1>3, <1>4, <1>7, <1>8, OneRequest DEF IInv, TypeOK, catalog
<1>10. StageInv'
  <2>1. pc'[r] = stage /\ \A s \in Requests : s # r => pc'[s] = pc[s]
    BY <1>4 DEF IInv, TypeOK
  <2> QED BY <1>1, <1>4, <1>6, <1>7, <2>1 DEF IInv, PoolInv, StageInv
<1>12. WholeInv' /\ JobInv' /\ ListInv'
  BY <1>1, <1>3, <1>4, <1>1a, <1>5a, SameCatalog
<1>13. Answers'
  BY <1>5, <1>1a DEF IInv, Answers, PartialOnlyIfReplaced, ListedAreCounted
<1> QED BY <1>7, <1>9, <1>10, <1>12, <1>13 DEF IInv, PoolInv

LEMMA ReadCountInv == ASSUME IInv, NEW r \in Requests, ReadCount(r) PROVE IInv'
<1> DEFINE j == NewJob(era, IF "courses" \in tables THEN 1 ELSE 0)
<1>1. /\ pc[r] = "readCount" /\ UNCHANGED <<catalog, reviews, inner, reply>>
      /\ pc' = [pc EXCEPT ![r] = "wantPage"] /\ job' = [job EXCEPT ![r] = j]
  BY DEF ReadCount
<1>2. /\ j \in Job /\ j.ver = era /\ ~j.holes
      /\ j.courses > 0 => "courses" \in tables
  BY QueriesAssumption DEF NewJob, Job, IInv, TypeOK
<1> HIDE DEF j
<1>3. outer[r] # NoConn /\ inner[r] = NoConn
  BY <1>1 DEF IInv, PoolInv, StageInv, Lending
<1>4. /\ LendingInv' /\ free' \subseteq Conns
      /\ outer' \in [Requests -> Conns \cup {NoConn}] /\ outer'[r] = NoConn
      /\ \A s \in Requests : s # r => outer'[s] = outer[s]
  BY <1>1, <1>3, CloseOuterLending DEF ReadCount
<1>5. "wantPage" \in Stages /\ "wantPage" \notin Lending /\ "wantPage" \notin Hydrating
  BY DEF Stages, Waiting, Lending, Hydrating
<1>6. TypeOK'
  BY <1>1, <1>2, <1>4, <1>5, OneRequest DEF IInv, TypeOK, catalog
<1>7. StageInv'
  <2>1. pc'[r] = "wantPage" /\ \A s \in Requests : s # r => pc'[s] = pc[s]
    BY <1>1 DEF IInv, TypeOK
  <2> QED BY <1>1, <1>3, <1>4, <1>5, <2>1 DEF IInv, PoolInv, StageInv
<1>8. WholeInv' /\ JobInv' /\ ListInv'
  <2>1. j.ver <= era /\ (j.courses > 0 => tables = Tables)
    BY <1>2 DEF IInv, TypeOK, WholeInv
  <2> QED BY <1>1, <1>2, <1>5, <2>1, SameCatalog DEF Counting
<1>9. Answers'
  BY <1>1 DEF IInv, Answers, PartialOnlyIfReplaced, ListedAreCounted
<1> QED BY <1>4, <1>6, <1>7, <1>8, <1>9 DEF IInv, PoolInv

LEMMA ReadPageInv == ASSUME IInv, NEW r \in Requests, ReadPage(r) PROVE IInv'
<1> DEFINE h == job[r].courses > 0 /\ "courses" \notin tables
<1>1. /\ pc[r] = "readPage" /\ UNCHANGED <<catalog, reviews, job, inner>>
      /\ pc' = [pc EXCEPT ![r] = "idle"]
      /\ reply' = [status |-> "ok", ver |-> job[r].ver,
                   holes |-> h, era |-> era]
  BY DEF ReadPage, Answer
<1>2. /\ job[r] \in Job /\ job' = [job EXCEPT ![r] = job[r]]
      /\ job[r].ver \in 0..MaxEra /\ era \in 0..MaxEra
      /\ h \in BOOLEAN
  BY <1>1 DEF IInv, TypeOK, Job
<1>3. h => job[r].ver < era
  <2>1. job[r].ver <= era /\ (job[r].courses > 0 /\ job[r].ver = era => tables = Tables)
    BY <1>1 DEF IInv, JobInv, Following, Paging
  <2>2. h => job[r].ver # era
    BY <2>1 DEF Tables
  <2> HIDE DEF h
  <2> QED BY <1>2, <2>1, <2>2
<1> HIDE DEF h
<1>4. outer[r] # NoConn /\ inner[r] = NoConn
  BY <1>1 DEF IInv, PoolInv, StageInv, Lending
<1>5. /\ LendingInv' /\ free' \subseteq Conns
      /\ outer' \in [Requests -> Conns \cup {NoConn}] /\ outer'[r] = NoConn
      /\ \A s \in Requests : s # r => outer'[s] = outer[s]
  BY <1>1, <1>4, CloseOuterLending DEF ReadPage
<1>6. "idle" \in Stages /\ "idle" \notin Lending /\ "idle" \notin Following
  BY DEF Stages, Lending, Following, Hydrating, Paging
<1>7. reply' \in Reply
  BY <1>1, <1>2, ReplyTyped
<1>8. TypeOK'
  BY <1>1, <1>2, <1>5, <1>6, <1>7, OneRequest DEF IInv, TypeOK, catalog
<1>9. StageInv'
  <2>1. pc'[r] = "idle" /\ \A s \in Requests : s # r => pc'[s] = pc[s]
    BY <1>1 DEF IInv, TypeOK
  <2> QED BY <1>1, <1>4, <1>5, <1>6, <2>1 DEF IInv, PoolInv, StageInv
<1>10. WholeInv' /\ JobInv' /\ ListInv'
  BY <1>1, <1>2, <1>6, SameCatalog DEF Counting
<1>11. Answers'
  <2>1. /\ reply'.status = "ok" /\ reply'.holes = h
        /\ reply'.ver = job[r].ver /\ reply'.era = era
    BY <1>1
  <2> QED BY <1>1, <1>3, <2>1 DEF Answers, PartialOnlyIfReplaced, ListedAreCounted
<1> QED BY <1>5, <1>8, <1>9, <1>10, <1>11 DEF IInv, PoolInv

LEMMA ReadReviewsInv == ASSUME IInv, NEW r \in Requests, ReadReviews(r) PROVE IInv'
<1>1. /\ pc[r] = "readReviews" /\ UNCHANGED <<catalog, reviews, inner, reply>>
      /\ pc' = [pc EXCEPT ![r] = "wantStats"]
  BY DEF ReadReviews
<1>2. PICK j \in Job : job' = [job EXCEPT ![r] = j] /\ j.listed <= reviews
  <2>1. PICK n \in 0..reviews : job' = [job EXCEPT ![r].listed = n]
    BY DEF ReadReviews
  <2>2. job[r] \in Job /\ n \in 0..MaxReviews /\ n <= reviews
    BY QueriesAssumption DEF IInv, TypeOK
  <2>3. [job[r] EXCEPT !.listed = n] \in Job /\ [job[r] EXCEPT !.listed = n].listed = n
    BY <2>2 DEF Job
  <2>4. job' = [job EXCEPT ![r] = [job[r] EXCEPT !.listed = n]]
    BY <2>1 DEF IInv, TypeOK
  <2> QED BY <2>2, <2>3, <2>4
<1>3. outer[r] # NoConn /\ inner[r] = NoConn
  BY <1>1 DEF IInv, PoolInv, StageInv, Lending
<1>4. /\ LendingInv' /\ free' \subseteq Conns
      /\ outer' \in [Requests -> Conns \cup {NoConn}] /\ outer'[r] = NoConn
      /\ \A s \in Requests : s # r => outer'[s] = outer[s]
  BY <1>1, <1>3, CloseOuterLending DEF ReadReviews
<1>5. "wantStats" \in Stages /\ "wantStats" \notin Lending /\ "wantStats" \notin Following
  BY DEF Stages, Waiting, Lending, Following, Hydrating, Paging
<1>6. TypeOK'
  BY <1>1, <1>2, <1>4, <1>5, OneRequest DEF IInv, TypeOK, catalog
<1>7. StageInv'
  <2>1. pc'[r] = "wantStats" /\ \A s \in Requests : s # r => pc'[s] = pc[s]
    BY <1>1 DEF IInv, TypeOK
  <2> QED BY <1>1, <1>3, <1>4, <1>5, <2>1 DEF IInv, PoolInv, StageInv
<1>8. WholeInv' /\ JobInv' /\ ListInv'
  BY <1>1, <1>2, <1>5, SameCatalog
<1>9. Answers'
  BY <1>1 DEF IInv, Answers, PartialOnlyIfReplaced, ListedAreCounted
<1> QED BY <1>4, <1>6, <1>7, <1>8, <1>9 DEF IInv, PoolInv

LEMMA ReadStatsInv == ASSUME IInv, NEW r \in Requests, ReadStats(r) PROVE IInv'
<1>1. /\ pc[r] = "readStats" /\ UNCHANGED <<catalog, reviews, job, inner>>
      /\ pc' = [pc EXCEPT ![r] = "idle"]
      /\ reply' = [status |-> "reviews", listed |-> job[r].listed, total |-> reviews]
  BY DEF ReadStats
<1>2. /\ job[r] \in Job /\ job' = [job EXCEPT ![r] = job[r]]
      /\ job[r].listed \in 0..MaxReviews /\ reviews \in 0..MaxReviews
  BY <1>1 DEF IInv, TypeOK, Job
<1>3. outer[r] # NoConn /\ inner[r] = NoConn
  BY <1>1 DEF IInv, PoolInv, StageInv, Lending
<1>4. /\ LendingInv' /\ free' \subseteq Conns
      /\ outer' \in [Requests -> Conns \cup {NoConn}] /\ outer'[r] = NoConn
      /\ \A s \in Requests : s # r => outer'[s] = outer[s]
  BY <1>1, <1>3, CloseOuterLending DEF ReadStats
<1>5. /\ "idle" \in Stages /\ "idle" \notin Lending
      /\ "idle" \notin Following /\ "idle" \notin Counting
  BY DEF Stages, Lending, Following, Hydrating, Paging, Counting
<1>6. reply' \in Reply
  BY <1>1, <1>2 DEF Reply
<1>7. TypeOK'
  BY <1>1, <1>2, <1>4, <1>5, <1>6, OneRequest DEF IInv, TypeOK, catalog
<1>8. StageInv'
  <2>1. pc'[r] = "idle" /\ \A s \in Requests : s # r => pc'[s] = pc[s]
    BY <1>1 DEF IInv, TypeOK
  <2> QED BY <1>1, <1>3, <1>4, <1>5, <2>1 DEF IInv, PoolInv, StageInv
<1>9. WholeInv' /\ JobInv' /\ ListInv'
  BY <1>1, <1>2, <1>5, SameCatalog
<1>10. Answers'
  <2>1. job[r].listed <= reviews
    BY <1>1 DEF IInv, ListInv, Counting
  <2> QED BY <1>1, <2>1 DEF Answers, PartialOnlyIfReplaced, ListedAreCounted
<1> QED BY <1>4, <1>7, <1>8, <1>9, <1>10 DEF IInv, PoolInv

LEMMA InsertReviewInv == ASSUME IInv, NEW r \in Requests, InsertReview(r) PROVE IInv'
<1>1. /\ pc[r] = "insert" /\ UNCHANGED <<catalog, job, inner>>
      /\ pc' = [pc EXCEPT ![r] = "idle"]
      /\ reply' \in [status : {"created", "failed", "conflict"}]
  BY DEF InsertReview
<1>2. reviews' \in 0..MaxReviews /\ reviews \in 0..MaxReviews /\ reviews <= reviews'
  BY QueriesAssumption DEF InsertReview, IInv, TypeOK
<1>3. outer[r] # NoConn /\ inner[r] = NoConn
  BY <1>1 DEF IInv, PoolInv, StageInv, Lending
<1>4. /\ LendingInv' /\ free' \subseteq Conns
      /\ outer' \in [Requests -> Conns \cup {NoConn}] /\ outer'[r] = NoConn
      /\ \A s \in Requests : s # r => outer'[s] = outer[s]
  BY <1>1, <1>3, CloseOuterLending DEF InsertReview
<1>5. /\ "idle" \in Stages /\ "idle" \notin Lending
      /\ "idle" \notin Following /\ "idle" \notin Counting
  BY DEF Stages, Lending, Following, Hydrating, Paging, Counting
<1>6. /\ pc' \in [Requests -> Stages] /\ pc'[r] = "idle"
      /\ \A s \in Requests : s # r => pc'[s] = pc[s]
  BY <1>1, <1>5 DEF IInv, TypeOK
<1>7. TypeOK'
  BY <1>1, <1>2, <1>4, <1>6 DEF IInv, TypeOK, Reply, catalog
<1>8. StageInv'
  BY <1>1, <1>3, <1>4, <1>5, <1>6 DEF IInv, PoolInv, StageInv
<1>9. WholeInv' /\ JobInv'
  BY <1>1, <1>5, <1>6 DEF IInv, WholeInv, JobInv, catalog
<1>10. ListInv'
  <2>1. \A s \in Requests : job[s].listed \in Int
    BY DEF IInv, TypeOK, Job
  <2> QED BY <1>1, <1>2, <1>5, <1>6, <2>1 DEF IInv, ListInv
<1>11. Answers'
  BY <1>1 DEF Answers, PartialOnlyIfReplaced, ListedAreCounted
<1> QED BY <1>4, <1>7, <1>8, <1>9, <1>10, <1>11 DEF IInv, PoolInv

LEMMA FailInv == ASSUME IInv, NEW r \in Requests, Fail(r) PROVE IInv'
<1>1. /\ free' = free \cup ({outer[r], inner[r]} \ {NoConn})
      /\ inner' = [inner EXCEPT ![r] = NoConn] /\ outer' = [outer EXCEPT ![r] = NoConn]
      /\ pc' = [pc EXCEPT ![r] = "idle"] /\ UNCHANGED <<catalog, reviews, job>>
      /\ reply' = [status |-> "error", ver |-> job[r].ver,
                   holes |-> FALSE, era |-> era]
  BY DEF Fail, Answer
<1>2. /\ job[r].ver \in 0..MaxEra
      /\ era \in 0..MaxEra /\ job[r] \in Job /\ job' = [job EXCEPT ![r] = job[r]]
  BY <1>1 DEF IInv, TypeOK, Job
<1>3. reply' \in Reply
  BY <1>1, <1>2, ReplyTyped
<1>4. /\ outer' \in [Requests -> Conns \cup {NoConn}] /\ outer'[r] = NoConn
      /\ inner' \in [Requests -> Conns \cup {NoConn}] /\ inner'[r] = NoConn
      /\ \A s \in Requests : s # r => outer'[s] = outer[s] /\ inner'[s] = inner[s]
      /\ outer[r] \in Conns \cup {NoConn} /\ inner[r] \in Conns \cup {NoConn}
      /\ pc'[r] = "idle" /\ \A s \in Requests : s # r => pc'[s] = pc[s]
      /\ free \subseteq Conns
  BY <1>1 DEF IInv, TypeOK
<1>5. "idle" \in Stages /\ "idle" \notin Following /\ "idle" \notin Lending
  BY DEF Stages, Following, Hydrating, Paging, Lending
<1>6. TypeOK'
  <2>1. free' \subseteq Conns
    BY <1>1, <1>4
  <2> QED BY <1>1, <1>2, <1>3, <1>4, <1>5, <2>1, OneRequest DEF IInv, TypeOK, catalog
<1>7. StageInv'
  BY <1>4, <1>5 DEF IInv, PoolInv, StageInv
<1>8. LendingInv'
  <2>1. \A s \in Requests : outer'[s] \notin free' /\ inner'[s] \notin free'
    BY <1>1, <1>4, QueriesAssumption DEF IInv, PoolInv, LendingInv, Holds
  <2>2. \A s \in Requests : outer'[s] # NoConn => outer'[s] # inner'[s]
    BY <1>4 DEF IInv, PoolInv, LendingInv
  <2>3. \A s, q \in Requests : s # q => \A c \in Conns : ~(Holds(s, c)' /\ Holds(q, c)')
    BY <1>4, QueriesAssumption DEF IInv, PoolInv, LendingInv, Holds
  <2>4. NoConnectionLost'
    BY <1>1, <1>4, QueriesAssumption DEF IInv, PoolInv, LendingInv, NoConnectionLost, Holds
  <2> QED BY <2>1, <2>2, <2>3, <2>4 DEF LendingInv
<1>9. WholeInv' /\ JobInv' /\ ListInv'
  BY <1>1, <1>2, <1>5, SameCatalog DEF Counting
<1>10. Answers'
  BY <1>1 DEF Answers, PartialOnlyIfReplaced, ListedAreCounted
<1> QED BY <1>6, <1>7, <1>8, <1>9, <1>10 DEF IInv, PoolInv

LEMMA StutterInv == ASSUME IInv, UNCHANGED vars PROVE IInv'
BY DEF IInv, TypeOK, PoolInv, StageInv, LendingInv, NoConnectionLost, Holds, WholeInv,
       JobInv, ListInv, Answers, PartialOnlyIfReplaced, ListedAreCounted, vars, catalog

-----------------------------------------------------------------------------
(* The inductive invariant holds in every reachable state. *)
THEOREM Invariance == Spec => []IInv
<1>1. Init => IInv
  BY InitInv
<1>2. IInv /\ [Next]_vars => IInv'
  <2> SUFFICES ASSUME IInv, [Next]_vars PROVE IInv'
    OBVIOUS
  <2>1. CASE Truncate \/ Load
    BY <2>1, TruncateInv, LoadInv
  <2>2. ASSUME NEW r \in Requests,
               \/ GetCoursesByCode(r) \/ GetSectionsByCourseID(r) \/ GetPaginatedCourses(r)
               \/ GetReviews(r) \/ CreateReview(r)
               \/ Acquire(r) \/ Fail(r)
        PROVE  IInv'
    BY <2>2, AskInv, AcquireInv, FailInv
    DEF GetCoursesByCode, GetPaginatedCourses, GetReviews, CreateReview
  <2>3. ASSUME NEW r \in Requests, Query(r) PROVE IInv'
    BY <2>3, ReadCoursesInv, ReadSectionsInv, ReadActivitiesInv, NextRowInv, LastRowInv,
       ReadCountInv, ReadPageInv, ReadReviewsInv, ReadStatsInv, InsertReviewInv
    DEF Query
  <2>4. CASE UNCHANGED vars
    BY <2>4, StutterInv
  <2> QED BY <2>1, <2>2, <2>3, <2>4 DEF Next
<1> QED BY <1>1, <1>2, PTL DEF Spec

(* Every reachable state of the queries is well typed. *)
THEOREM TypeCorrect == Spec => []TypeOK
<1>1. IInv => TypeOK
  BY DEF IInv
<1> QED BY <1>1, Invariance, PTL

(* However many requests there are and wherever they fail, no connection   *)
(* leaves the pool for good.                                               *)
THEOREM ConnectionsReturn == Spec => []NoConnectionLost
<1>1. IInv => NoConnectionLost
  BY DEF IInv, PoolInv, LendingInv
<1> QED BY <1>1, Invariance, PTL

(* A response has holes only if seed.sh emptied the tables under it. *)
THEOREM PartialMeansReplaced == Spec => []PartialOnlyIfReplaced
<1>1. IInv => PartialOnlyIfReplaced
  BY DEF IInv, Answers
<1> QED BY <1>1, Invariance, PTL

(* The statistics of a response count every review of its list, whatever   *)
(* is posted between the two queries.                                      *)
THEOREM StatisticsCoverTheList == Spec => []ListedAreCounted
<1>1. IInv => ListedAreCounted
  BY DEF IInv, Answers
<1> QED BY <1>1, Invariance, PTL

(* With all connections lent and fewer requests than connections, some     *)
(* request holds two, and it holds two only while it reads activities.     *)
LEMMA SomebodyWorks ==
    ASSUME IInv, Cardinality(Requests) < Cardinality(Conns)
    PROVE  NeverWedged
<1> SUFFICES ASSUME free = {}
             PROVE  \E r \in Requests : outer[r] # NoConn /\ pc[r] \notin Waiting
  BY DEF NeverWedged
<1> DEFINE holder == [c \in Conns |-> CHOOSE r \in Requests : Holds(r, c)]
<1>1. \A c \in Conns : holder[c] \in Requests /\ Holds(holder[c], c)
  BY DEF IInv, PoolInv, LendingInv, NoConnectionLost
<1>2. holder \in [Conns -> Requests]
  BY <1>1
<1> HIDE DEF holder
<1>3. PICK c, d \in Conns : c # d /\ holder[c] = holder[d]
  BY <1>2, FS_PigeonHole, QueriesAssumption
<1>4. inner[holder[c]] # NoConn /\ outer[holder[c]] # NoConn
  BY <1>1, <1>3, QueriesAssumption DEF Holds
<1>5. pc[holder[c]] = "readActivities"
  BY <1>1, <1>4 DEF IInv, PoolInv, StageInv
<1> QED BY <1>1, <1>4, <1>5 DEF Waiting

(* Fewer requests at a time than the pool has connections never wait for   *)
(* one another; as many can (the run `queries_wedge').                     *)
THEOREM EnoughConnections ==
    ASSUME Cardinality(Requests) < Cardinality(Conns)
    PROVE  Spec => []NeverWedged
<1>1. IInv => NeverWedged
  BY SomebodyWorks
<1> QED BY <1>1, Invariance, PTL
=============================================================================
