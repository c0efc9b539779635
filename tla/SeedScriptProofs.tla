-------------------------- MODULE SeedScriptProofs --------------------------
(***************************************************************************)
(* What holds of seed.sh for any number of places it runs in, files,       *)
(* crashes and reviews: types, and that no script touches the reviews,     *)
(* without conditions; that scripts which never overlap do not double the  *)
(* catalog, and that they tell the truth if no statement of their file     *)
(* fails; and that on one lasting disk a checksum that matches is that of  *)
(* the rows in the database.                                               *)
(***************************************************************************)
EXTENDS SeedScript, FiniteSetTheorems, TLAPS

Locks == SeedTables \cup {"courses_pkey"}

(* A script that has started has its file and the checksum of it, and one  *)
(* that has loaded it what it loaded; it has locks only in transactions.   *)
RunningInv ==
    \A r \in Runners : /\ pc[r] # "idle" => disk[r] # NoFile /\ sha[r] # NoSum
                       /\ pc[r] \in {"load", "record", "recording"} => input[r] # NoFile
                       /\ pc[r] \notin {"truncate", "load"} => held[r] = {}

IInv == TypeOK /\ RunningInv

-----------------------------------------------------------------------------
(* The lists of tables. *)
LEMMA ListFacts ==
    /\ InList(TruncateList) = SeedTables
    /\ Len(TruncateList) = 4 /\ Len(InsertList) = 5
    /\ \A i \in 1..4 : TruncateList[i] \in Locks
    /\ \A i \in 1..5 : InsertList[i] \in Locks
<1>1. DOMAIN TruncateList = 1..4 /\ Len(TruncateList) = 4
  BY DEF TruncateList
<1>2. Len(InsertList) = 5
  BY DEF InsertList
<1>3. \A i \in 1..4 : TruncateList[i] \in SeedTables
  BY DEF TruncateList, SeedTables
<1>4. \A i \in 1..5 : InsertList[i] \in Locks
  BY DEF InsertList, SeedTables, Locks
<1>5. \A t \in SeedTables : \E i \in 1..4 : t = TruncateList[i]
  <2>1. /\ TruncateList[1] = "instructors" /\ TruncateList[2] = "section_activities"
        /\ TruncateList[3] = "sections" /\ TruncateList[4] = "courses"
    BY DEF TruncateList
  <2>2. 1 \in 1..4 /\ 2 \in 1..4 /\ 3 \in 1..4 /\ 4 \in 1..4
    OBVIOUS
  <2> QED BY <2>1, <2>2 DEF SeedTables
<1>6. InList(TruncateList) = SeedTables
  BY <1>1, <1>3, <1>5 DEF InList
<1> QED BY <1>1, <1>2, <1>3, <1>4, <1>6 DEF Locks

(* CASCADE reaches the listed tables and no other: everything with a       *)
(* reference into one of them is itself on the list.                       *)
LEMMA CascadeStops == Emptied = SeedTables
<1> DEFINE Closed(S) == /\ InList(TruncateList) \subseteq S
                        /\ \A e \in References : e[2] \in S => e[1] \in S
           Least(S) == Closed(S) /\ \A T \in SUBSET S : Closed(T) => T = S
<1>1. \A e \in References : e[1] \in SeedTables
  BY DEF References, SectionKeys, ActivityKeys, InstructorKeys, ReviewKeys, SeedTables
<1>2. Closed(SeedTables)
  BY <1>1, ListFacts
<1>3. \A T : Closed(T) => SeedTables \subseteq T
  BY ListFacts
<1> HIDE DEF Closed
<1>4. Least(SeedTables)
  BY <1>2, <1>3
<1>5. \A S : Least(S) => S = SeedTables
  BY <1>2, <1>3
<1>6. SeedTables \in SUBSET Tables
  BY DEF Tables
<1>7. Emptied = CHOOSE S \in SUBSET Tables : Least(S)
  BY DEF Emptied, Closed
<1> HIDE DEF Least
<1> QED BY <1>4, <1>5, <1>6, <1>7

LEMMA HeldFinite ==
    ASSUME TypeOK, NEW r \in Runners
    PROVE  Cardinality(held[r]) \in Nat
<1>1. IsFiniteSet(Locks)
  <2>1. IsFiniteSet({"instructors"})
    BY FS_Singleton
  <2>2. IsFiniteSet({"instructors"} \cup {"section_activities"})
    BY <2>1, FS_AddElement
  <2>3. IsFiniteSet(({"instructors"} \cup {"section_activities"}) \cup {"sections"})
    BY <2>2, FS_AddElement
  <2>4. SeedTables = (({"instructors"} \cup {"section_activities"}) \cup {"sections"})
                       \cup {"courses"}
    BY DEF SeedTables
  <2>5. IsFiniteSet(SeedTables)
    BY <2>3, <2>4, FS_AddElement
  <2> QED BY <2>5, FS_AddElement DEF Locks
<1>2. held[r] \subseteq Locks
  BY DEF TypeOK, Locks
<1> QED BY <1>1, <1>2, FS_Subset, FS_CardinalityType

(* Whom a script waits for is one of the tables' locks. *)
LEMMA WantedTyped ==
    ASSUME TypeOK, NEW r \in Runners, Locking(r)
    PROVE  Wanted(r) \in Locks
<1>1. Cardinality(held[r]) \in Nat
  BY HeldFinite
<1>2. CASE pc[r] = "truncate"
  <2>1. Wanted(r) = TruncateList[Cardinality(held[r]) + 1] /\ Cardinality(held[r]) < 4
    BY <1>2, ListFacts DEF Locking, Wanted, LockList
  <2>2. Cardinality(held[r]) + 1 \in 1..4
    BY <1>1, <2>1
  <2> QED BY <2>1, <2>2, ListFacts
<1>3. CASE pc[r] = "load"
  <2>1. Wanted(r) = InsertList[Cardinality(held[r]) + 1] /\ Cardinality(held[r]) < 5
    BY <1>3, ListFacts DEF Locking, Wanted, LockList
  <2>2. Cardinality(held[r]) + 1 \in 1..5
    BY <1>1, <2>1
  <2> QED BY <2>1, <2>2, ListFacts
<1> QED BY <1>2, <1>3 DEF Locking

-----------------------------------------------------------------------------
LEMMA InitInv == Init => IInv
<1> SUFFICES ASSUME Init PROVE IInv
  OBVIOUS
<1>1. Image \in Files
  BY SeedAssumption DEF Image, Files
<1>2. TypeOK
  BY <1>1, SeedAssumption DEF Init, TypeOK, Stages
<1>3. RunningInv
  BY DEF Init, RunningInv
<1> QED BY <1>2, <1>3 DEF IInv

(* Enough for a step of a script that keeps the files. *)
LEMMA ScriptStep ==
    ASSUME IInv, NEW r \in Runners, NEW stage \in Stages, NEW locks \in SUBSET Locks,
           pc' = [pc EXCEPT ![r] = stage], held' = [held EXCEPT ![r] = locks],
           NEW sum \in Files \cup {NoSum}, sha' = [sha EXCEPT ![r] = sum],
           NEW file \in Files \cup {NoFile}, input' = [input EXCEPT ![r] = file],
           stage \notin {"truncate", "load"} => locks = {},
           stage # "idle" => disk[r] # NoFile /\ sum # NoSum,
           stage \in {"load", "record", "recording"} => file # NoFile,
           catalog' \subseteq Files, stored' \subseteq Files, reviews' \in 0..MaxReviews,
           snap' \in [Runners -> SUBSET Files],
           UNCHANGED <<disk, newest, crashes>>
    PROVE  IInv'
<1>1. /\ pc' \in [Runners -> Stages] /\ pc'[r] = stage
      /\ \A s \in Runners : s # r => pc'[s] = pc[s]
      /\ held' \in [Runners -> SUBSET Locks] /\ held'[r] = locks
      /\ \A s \in Runners : s # r => held'[s] = held[s]
  BY DEF IInv, TypeOK, Locks
<1>4. /\ sha' \in [Runners -> Files \cup {NoSum}] /\ sha'[r] = sum
      /\ input' \in [Runners -> Files \cup {NoFile}] /\ input'[r] = file
      /\ \A s \in Runners : s # r => sha'[s] = sha[s] /\ input'[s] = input[s]
  BY DEF IInv, TypeOK
<1>2. TypeOK'
  BY <1>1, <1>4 DEF IInv, TypeOK, Locks
<1>3. RunningInv'
  BY <1>1, <1>4 DEF IInv, RunningInv
<1> QED BY <1>2, <1>3 DEF IInv

(* What a script that goes to a stage holds of its locals. *)
LEMMA GoToLocals ==
    ASSUME IInv, NEW r \in Runners, NEW stage \in Stages,
           GoTo(r, stage), KeepSum(r, stage),
           stage # "idle" => pc[r] # "idle",
           stage \in {"record", "recording"} => pc[r] \in {"load", "record", "recording"}
    PROVE  /\ pc' = [pc EXCEPT ![r] = stage]
           /\ \E sum \in Files \cup {NoSum}, file \in Files \cup {NoFile} :
                /\ sha' = [sha EXCEPT ![r] = sum] /\ input' = [input EXCEPT ![r] = file]
                /\ stage # "idle" => sum # NoSum
                /\ stage \in {"load", "record", "recording"} => file # NoFile
<1>0. /\ sha \in [Runners -> Files \cup {NoSum}] /\ input \in [Runners -> Files \cup {NoFile}]
      /\ disk[r] \in Files \cup {NoFile}
  BY DEF IInv, TypeOK
<1>1. PICK sum \in Files \cup {NoSum} :
         sha' = [sha EXCEPT ![r] = sum] /\ (stage # "idle" => sum = sha[r])
  <2>1. CASE stage = "idle"
    BY <2>1 DEF KeepSum
  <2>2. CASE stage # "idle"
    <3>1. sha' = [sha EXCEPT ![r] = sha[r]]
      BY <1>0, <2>2 DEF KeepSum
    <3> QED BY <1>0, <3>1
  <2> QED BY <2>1, <2>2
<1>2. PICK file \in Files \cup {NoFile} :
         /\ input' = [input EXCEPT ![r] = file]
         /\ stage = "load" => file = disk[r]
         /\ stage \in {"record", "recording"} => file = input[r]
  <2>1. CASE stage = "load"
    BY <1>0, <2>1 DEF GoTo
  <2>2. CASE stage = "idle"
    BY <1>0, <2>2 DEF GoTo
  <2>3. CASE stage \notin {"load", "idle"}
    <3>1. input' = [input EXCEPT ![r] = input[r]]
      BY <1>0, <2>3 DEF GoTo
    <3> QED BY <1>0, <2>3, <3>1
  <2> QED BY <2>1, <2>2, <2>3
<1>3. stage # "idle" => sum # NoSum
  BY <1>1 DEF IInv, RunningInv
<1>4. stage \in {"load", "record", "recording"} => file # NoFile
  BY <1>2 DEF IInv, RunningInv
<1>5. pc' = [pc EXCEPT ![r] = stage]
  BY DEF GoTo
<1> QED BY <1>1, <1>2, <1>3, <1>4, <1>5

LEMMA WorldInv ==
    ASSUME IInv, PostReview \/ (\E r \in Runners : Regenerate(r) \/ Crash(r))
    PROVE  IInv'
<1>1. CASE PostReview
  BY <1>1, SeedAssumption DEF PostReview, IInv, TypeOK, RunningInv
<1>2. ASSUME NEW r \in Runners, Regenerate(r) PROVE IInv'
  <2>1. newest' \in Files /\ newest' = newest + 1
    BY <1>2, SeedAssumption DEF Regenerate, IInv, TypeOK, Files
  <2>2. /\ disk' \in [Runners -> Files \cup {NoFile}]
        /\ \A s \in Runners : s # r => disk'[s] = disk[s]
    BY <1>2, <2>1 DEF Regenerate, IInv, TypeOK
  <2>3. TypeOK'
    BY <1>2, <2>1, <2>2 DEF Regenerate, IInv, TypeOK
  <2>5. newest' # NoFile /\ disk'[r] = newest'
    BY <1>2, <2>1, SeedAssumption DEF Regenerate, IInv, TypeOK
  <2>4. RunningInv'
    BY <1>2, <2>2, <2>5 DEF Regenerate, IInv, RunningInv
  <2> QED BY <2>3, <2>4 DEF IInv
<1>3. ASSUME NEW r \in Runners, Crash(r) PROVE IInv'
  <2>1. Image \in Files
    BY SeedAssumption DEF Image, Files
  <2>2. /\ disk' \in [Runners -> Files \cup {NoFile}]
        /\ \A s \in Runners : s # r => disk'[s] = disk[s]
    BY <1>3, <2>1 DEF Crash, IInv, TypeOK
  <2>3. crashes' \in 0..MaxCrashes
    BY <1>3, SeedAssumption DEF Crash, IInv, TypeOK
  <2>6. /\ pc' = [pc EXCEPT ![r] = "idle"]
        /\ sha' = [sha EXCEPT ![r] = NoSum] /\ input' = [input EXCEPT ![r] = NoFile]
    BY <1>3 DEF Crash, GoTo, KeepSum
  <2>4. TypeOK'
    BY <1>3, <2>2, <2>3, <2>6 DEF Crash, IInv, TypeOK, Stages
  <2>5. RunningInv'
    BY <1>3, <2>2, <2>6 DEF Crash, IInv, TypeOK, RunningInv
  <2> QED BY <2>4, <2>5 DEF IInv
<1> QED BY <1>1, <1>2, <1>3

LEMMA ProceedInv == ASSUME IInv, NEW r \in Runners, Proceed(r) PROVE IInv'
<1>1. pc[r] = "idle" /\ disk[r] # NoFile
  BY DEF Proceed, MayStart
<1>2. pc' = [pc EXCEPT ![r] = "truncate"] /\ held' = [held EXCEPT ![r] = {}]
  BY <1>1 DEF Proceed, GoTo, After, IInv, TypeOK, RunningInv
<1>3. disk[r] \in Files /\ disk[r] # NoSum /\ input[r] \in Files \cup {NoFile}
  BY <1>1, SeedAssumption DEF IInv, TypeOK
<1>4. sha' = [sha EXCEPT ![r] = disk[r]] /\ input' = [input EXCEPT ![r] = input[r]]
  BY DEF Proceed, GoTo, After, IInv, TypeOK
<1>5. /\ catalog' \subseteq Files /\ stored' \subseteq Files /\ reviews' \in 0..MaxReviews
      /\ snap' \in [Runners -> SUBSET Files] /\ UNCHANGED <<disk, newest, crashes>>
  BY DEF Proceed, IInv, TypeOK
<1>6. "truncate" \in Stages /\ {} \in SUBSET Locks
  BY DEF Stages
<1> QED BY <1>1, <1>2, <1>3, <1>4, <1>5, <1>6, ScriptStep

LEMMA StepInv == ASSUME IInv, NEW r \in Runners, Step(r) PROVE IInv'
<1>0. /\ catalog \subseteq Files /\ stored \subseteq Files /\ reviews \in 0..MaxReviews
      /\ snap \in [Runners -> SUBSET Files] /\ held[r] \subseteq Locks /\ 0 \in 0..MaxReviews
      /\ {"idle", "truncate", "load", "record", "recording"} \subseteq Stages
  BY SeedAssumption DEF IInv, TypeOK, Locks, Stages
<1>1. /\ pc[r] # "idle" => disk[r] \in Files /\ disk[r] # NoFile /\ sha[r] \in Files
      /\ pc[r] \in {"load", "record", "recording"} => input[r] \in Files
  BY DEF IInv, TypeOK, RunningInv
<1>2. CASE Lock(r)
  <2>1. pc[r] \in {"truncate", "load"} /\ Wanted(r) \in Locks
    BY <1>2, WantedTyped DEF Lock, Locking, IInv
  <2>2. pc' = [pc EXCEPT ![r] = pc[r]] /\ held' = [held EXCEPT ![r] = held[r] \cup {Wanted(r)}]
    BY <1>2 DEF Lock, IInv, TypeOK
  <2>5. /\ sha' = [sha EXCEPT ![r] = sha[r]] /\ sha[r] \in Files \cup {NoSum} /\ sha[r] # NoSum
        /\ input' = [input EXCEPT ![r] = input[r]] /\ input[r] \in Files \cup {NoFile}
        /\ pc[r] = "load" => input[r] # NoFile
    BY <1>2, <2>1 DEF Lock, IInv, TypeOK, RunningInv
  <2>3. held[r] \cup {Wanted(r)} \in SUBSET Locks /\ pc[r] \in Stages
    BY <1>0, <2>1
  <2>4. UNCHANGED <<catalog, stored, reviews, disk, newest, snap, crashes>>
    BY <1>2 DEF Lock
  <2>6. /\ catalog' \subseteq Files /\ stored' \subseteq Files /\ reviews' \in 0..MaxReviews
        /\ snap' \in [Runners -> SUBSET Files] /\ UNCHANGED <<disk, newest, crashes>>
        /\ disk[r] # NoFile /\ pc[r] \notin {"record", "recording"}
    BY <1>0, <2>1, <2>4 DEF IInv, RunningInv
  <2> QED BY <2>1, <2>2, <2>3, <2>5, <2>6, ScriptStep
<1>3. CASE Truncate(r) \/ LoadSeed(r) \/ LoadFails(r) \/ AbortTruncate(r) \/ AbortLoad(r)
  <2>1. PICK stage \in {"load", "record", "idle"} :
           EndOfTransaction(r, stage) /\ (stage = "record" => pc[r] = "load")
    BY <1>3 DEF Truncate, LoadSeed, LoadFails, AbortTruncate, AbortLoad, FailedLoad, After
  <2>2. pc[r] # "idle" /\ catalog' \subseteq Files /\ reviews' \in 0..MaxReviews
    BY <1>0, <1>1, <1>3
    DEF Truncate, LoadSeed, LoadFails, AbortTruncate, AbortLoad, FailedLoad
  <2>3. PICK sum \in Files \cup {NoSum}, file \in Files \cup {NoFile} :
             /\ sha' = [sha EXCEPT ![r] = sum] /\ input' = [input EXCEPT ![r] = file]
             /\ stage # "idle" => sum # NoSum
             /\ stage \in {"load", "record", "recording"} => file # NoFile
    <3>1. GoTo(r, stage) /\ KeepSum(r, stage) /\ stage \in Stages
      BY <1>0, <2>1 DEF EndOfTransaction
    <3>2. stage \in {"record", "recording"} => pc[r] \in {"load", "record", "recording"}
      BY <2>1
    <3> QED BY <2>2, <3>1, <3>2, GoToLocals
  <2>4. /\ pc' = [pc EXCEPT ![r] = stage] /\ held' = [held EXCEPT ![r] = {}]
        /\ UNCHANGED <<stored, disk, newest, snap, crashes>>
    BY <2>1 DEF EndOfTransaction, GoTo
  <2>5. /\ stored' \subseteq Files /\ snap' \in [Runners -> SUBSET Files]
        /\ stage \in Stages /\ {} \in SUBSET Locks /\ disk[r] # NoFile
    BY <1>0, <2>1, <2>2, <2>4 DEF IInv, RunningInv
  <2> QED BY <2>2, <2>3, <2>4, <2>5, ScriptStep
<1>4. CASE DeleteSum(r)
  <2>1. held' = [held EXCEPT ![r] = {}] /\ snap' \in [Runners -> SUBSET Files]
    BY <1>0, <1>4 DEF DeleteSum, IInv, TypeOK, RunningInv
  <2>2. /\ pc' = [pc EXCEPT ![r] = "recording"]
        /\ sha' = [sha EXCEPT ![r] = sha[r]] /\ sha[r] \in Files \cup {NoSum} /\ sha[r] # NoSum
        /\ input' = [input EXCEPT ![r] = input[r]] /\ input[r] \in Files \cup {NoFile}
        /\ input[r] # NoFile
    BY <1>4 DEF DeleteSum, GoTo, IInv, TypeOK, RunningInv
  <2>3. /\ catalog' \subseteq Files /\ stored' \subseteq Files /\ reviews' \in 0..MaxReviews
        /\ UNCHANGED <<disk, newest, crashes>> /\ disk[r] # NoFile
    BY <1>0, <1>4 DEF DeleteSum, IInv, RunningInv
  <2>4. "recording" \in Stages /\ {} \in SUBSET Locks
    BY <1>0
  <2> QED BY <2>1, <2>2, <2>3, <2>4, ScriptStep
<1>5. CASE InsertSum(r)
  <2>1. held' = [held EXCEPT ![r] = {}] /\ snap' \in [Runners -> SUBSET Files]
    BY <1>0, <1>5 DEF InsertSum, Recording, IInv, TypeOK, RunningInv
  <2>2. /\ pc' = [pc EXCEPT ![r] = "idle"] /\ stored' \subseteq Files
        /\ sha' = [sha EXCEPT ![r] = NoSum] /\ input' = [input EXCEPT ![r] = NoFile]
    BY <1>0, <1>1, <1>5 DEF InsertSum, Recording, GoTo, KeepSum, After, IInv, TypeOK
  <2>3. /\ catalog' \subseteq Files /\ reviews' \in 0..MaxReviews
        /\ UNCHANGED <<disk, newest, crashes>>
    BY <1>0, <1>5 DEF InsertSum, Recording
  <2>4. /\ "idle" \in Stages /\ {} \in SUBSET Locks
        /\ NoSum \in Files \cup {NoSum} /\ NoFile \in Files \cup {NoFile}
    BY <1>0
  <2> QED BY <2>1, <2>2, <2>3, <2>4, ScriptStep
<1> QED BY <1>2, <1>3, <1>4, <1>5 DEF Step

LEMMA NextInv == IInv /\ [Next]_vars => IInv'
<1> SUFFICES ASSUME IInv, [Next]_vars PROVE IInv'
  OBVIOUS
<1>1. CASE UNCHANGED vars
  BY <1>1 DEF vars, IInv, TypeOK, RunningInv
<1> QED BY <1>1, WorldInv, ProceedInv, StepInv DEF Next

(* The inductive invariant holds in every reachable state. *)
THEOREM Invariance == Spec => []IInv
BY InitInv, NextInv, PTL DEF Spec

(* Every reachable state of the scripts is well typed. *)
THEOREM TypeCorrect == Spec => []TypeOK
<1>1. IInv => TypeOK
  BY DEF IInv
<1> QED BY <1>1, Invariance, PTL

-----------------------------------------------------------------------------
(* No step of any script, and nothing else, removes a review: CASCADE      *)
(* stops before them.                                                      *)
THEOREM ReviewsAreKept == Spec => ReviewsKept
<1>1. IInv /\ [Next]_vars => [reviews' >= reviews]_vars
  <2> SUFFICES ASSUME IInv, Next PROVE reviews' >= reviews
    OBVIOUS
  <2>1. reviews \in Nat
    BY SeedAssumption DEF IInv, TypeOK
  <2>2. "reviews" \notin Emptied
    BY CascadeStops DEF SeedTables
  <2>3. ASSUME NEW r \in Runners, Truncate(r) PROVE reviews' = reviews
    BY <2>2, <2>3 DEF Truncate
  <2>4. CASE PostReview
    BY <2>1, <2>4 DEF PostReview
  <2>5. ASSUME NEW r \in Runners,
               \/ Regenerate(r) \/ Crash(r) \/ Proceed(r) \/ Lock(r) \/ LoadSeed(r) \/ LoadFails(r)
               \/ AbortTruncate(r) \/ AbortLoad(r) \/ DeleteSum(r) \/ InsertSum(r)
        PROVE  reviews' = reviews
    BY <2>5 DEF Regenerate, Crash, Proceed, Lock, LoadSeed, LoadFails, AbortTruncate,
                AbortLoad, FailedLoad, DeleteSum, InsertSum, Recording
  <2> QED BY <2>1, <2>3, <2>4, <2>5 DEF Next, Step
<1> QED BY <1>1, Invariance, PTL DEF Spec, ReviewsKept

-----------------------------------------------------------------------------
(* Scripts that never overlap: something keeps them apart, or there is     *)
(* only one place where they run.                                          *)
Serial == Exclusive \/ \A r, s \in Runners : r = s

AloneInv == \A r, s \in Runners : pc[r] # "idle" /\ pc[s] # "idle" => r = s

EmptiedInv == \A r \in Runners : pc[r] = "load" => catalog = {}

ExclusiveInv == AloneInv /\ EmptiedInv /\ NeverDuplicated

(* ... and files without a failing statement. *)
LoadedInv == \A r \in Runners : pc[r] \in {"record", "recording"} => catalog = {input[r]}

LEMMA AloneStep ==
    ASSUME TypeOK, AloneInv, NEW r \in Runners, NEW stage,
           pc' = [pc EXCEPT ![r] = stage],
           pc[r] # "idle" \/ \A s \in Runners : pc[s] = "idle"
    PROVE  /\ AloneInv' /\ pc'[r] = stage
           /\ \A s \in Runners : s # r => pc'[s] = "idle"
<1>1. pc'[r] = stage /\ \A s \in Runners : s # r => pc'[s] = pc[s]
  BY DEF TypeOK
<1>2. \A s \in Runners : s # r => pc[s] = "idle"
  BY DEF AloneInv
<1> QED BY <1>1, <1>2 DEF AloneInv

(* The steps of a script, by what they do to the catalog. *)
LEMMA Effects ==
    ASSUME TypeOK, NEW r \in Runners, Step(r) \/ Proceed(r) \/ Crash(r)
    PROVE  \E stage :
             /\ pc' = [pc EXCEPT ![r] = stage]
             /\ \/ catalog' = {} /\ stage = "load"
                \/ /\ pc[r] = "load" /\ stage = "record" /\ UNCHANGED input
                   /\ \/ catalog' = catalog \cup {input[r]}
                      \/ UNCHANGED catalog /\ (LoadFails(r) \/ AbortLoad(r))
                \/ UNCHANGED catalog /\ stage = "truncate"
                \/ UNCHANGED <<catalog, input>> /\ stage = pc[r]
                \/ UNCHANGED <<catalog, input>> /\ pc[r] = "record" /\ stage = "recording"
                \/ UNCHANGED catalog /\ stage = "idle"
<1>1. CASE Truncate(r)
  <2>1. "courses" \in Emptied
    BY CascadeStops DEF SeedTables
  <2> QED BY <1>1, <2>1 DEF Truncate, EndOfTransaction, GoTo, After
<1>2. CASE LoadSeed(r)
  BY <1>2 DEF LoadSeed, EndOfTransaction, GoTo, After
<1>3. CASE LoadFails(r) \/ AbortLoad(r)
  BY <1>3 DEF LoadFails, AbortLoad, FailedLoad, EndOfTransaction, GoTo, After
<1>4. CASE Lock(r)
  BY <1>4 DEF Lock, TypeOK
<1>5. CASE AbortTruncate(r) \/ Crash(r)
  BY <1>5 DEF AbortTruncate, EndOfTransaction, GoTo, Crash
<1>6. CASE DeleteSum(r)
  BY <1>6 DEF DeleteSum, GoTo
<1>7. CASE InsertSum(r) \/ Proceed(r)
  BY <1>7 DEF InsertSum, Recording, Proceed, GoTo, After
<1> QED BY <1>1, <1>2, <1>3, <1>4, <1>5, <1>6, <1>7 DEF Step

LEMMA ExclusiveNext ==
    ASSUME Serial, IInv, ExclusiveInv, Next
    PROVE  ExclusiveInv'
<1>1. CASE PostReview
  BY <1>1 DEF PostReview, ExclusiveInv, AloneInv, EmptiedInv, NeverDuplicated
<1>2. ASSUME NEW r \in Runners, Regenerate(r) PROVE ExclusiveInv'
  BY <1>2 DEF Regenerate, ExclusiveInv, AloneInv, EmptiedInv, NeverDuplicated
<1>3. ASSUME NEW r \in Runners, Step(r) \/ Proceed(r) \/ Crash(r) PROVE ExclusiveInv'
  <2>1. PICK stage :
             /\ pc' = [pc EXCEPT ![r] = stage]
             /\ \/ catalog' = {} /\ stage = "load"
                \/ /\ pc[r] = "load" /\ stage = "record"
                   /\ catalog' = catalog \cup {input[r]} \/ UNCHANGED catalog
                \/ UNCHANGED catalog /\ stage \in {pc[r], "truncate", "recording", "idle"}
    BY <1>3, Effects DEF IInv
  <2>2. pc[r] # "idle" \/ \A s \in Runners : pc[s] = "idle"
    BY <1>3, SeedAssumption
    DEF Serial, Step, Proceed, MayStart, Crash, Lock, Locking, Truncate, LoadSeed, LoadFails,
        AbortTruncate, AbortLoad, DeleteSum, InsertSum, Recording
  <2>3. /\ AloneInv' /\ pc'[r] = stage
        /\ \A s \in Runners : s # r => pc'[s] = "idle"
    BY <2>1, <2>2, AloneStep DEF IInv, ExclusiveInv
  <2>4. EmptiedInv'
    BY <2>1, <2>3 DEF ExclusiveInv, EmptiedInv
  <2>5. NeverDuplicated'
    BY <2>1 DEF ExclusiveInv, EmptiedInv, NeverDuplicated
  <2> QED BY <2>3, <2>4, <2>5 DEF ExclusiveInv
<1> QED BY <1>1, <1>2, <1>3 DEF Next

LEMMA ExclusiveInvariance == ASSUME Serial PROVE Spec => []ExclusiveInv
<1>1. Init => ExclusiveInv
  BY DEF Init, ExclusiveInv, AloneInv, EmptiedInv, NeverDuplicated
<1>2. IInv /\ ExclusiveInv /\ [Next]_vars => ExclusiveInv'
  <2> SUFFICES ASSUME IInv, ExclusiveInv, UNCHANGED vars PROVE ExclusiveInv'
    BY ExclusiveNext
  <2> QED BY DEF vars, ExclusiveInv, AloneInv, EmptiedInv, NeverDuplicated
<1> QED BY <1>1, <1>2, Invariance, PTL DEF Spec

(* "TRUNCATE then INSERT so we never duplicate", for scripts that do not   *)
(* overlap, whatever crashes and fails and whatever checksum they read.    *)
THEOREM AloneNeverDuplicates ==
    ASSUME Serial
    PROVE  Spec => []NeverDuplicated
<1>1. ExclusiveInv => NeverDuplicated
  BY DEF ExclusiveInv
<1> QED BY <1>1, ExclusiveInvariance, PTL

(* A load that finds the tables empty and nobody else does not fail. *)
LEMMA NoFailureAlone ==
    ASSUME Serial, Broken = {}, IInv, ExclusiveInv, NEW r \in Runners
    PROVE  ~LoadFails(r) /\ ~AbortLoad(r)
<1>1. pc[r] = "load" => ~DuplicateKey(r)
  BY DEF ExclusiveInv, EmptiedInv, DuplicateKey
<1>2. pc[r] = "load" => Blockers(r) = {}
  <2>1. pc[r] = "load" => \A s \in Runners : s # r => held[s] = {}
    BY DEF ExclusiveInv, AloneInv, IInv, RunningInv
  <2> QED BY <2>1 DEF Blockers
<1> QED BY <1>1, <1>2 DEF LoadFails, AbortLoad, Deadlocked

LEMMA LoadedNext ==
    ASSUME Serial, Broken = {}, IInv, ExclusiveInv, LoadedInv, [Next]_vars
    PROVE  LoadedInv'
<1>1. CASE PostReview \/ UNCHANGED vars
  BY <1>1 DEF PostReview, vars, LoadedInv
<1>2. ASSUME NEW r \in Runners, Regenerate(r) PROVE LoadedInv'
  BY <1>2 DEF Regenerate, LoadedInv
<1>3. ASSUME NEW r \in Runners, Step(r) \/ Proceed(r) \/ Crash(r) PROVE LoadedInv'
  <2>1. PICK stage :
           /\ pc' = [pc EXCEPT ![r] = stage]
           /\ \/ stage \in {"load", "truncate", "idle"}
              \/ /\ pc[r] = "load" /\ stage = "record" /\ UNCHANGED input
                 /\ catalog' = catalog \cup {input[r]}
              \/ UNCHANGED <<catalog, input>> /\ stage = pc[r]
              \/ UNCHANGED <<catalog, input>> /\ pc[r] = "record" /\ stage = "recording"
    BY <1>3, Effects, NoFailureAlone DEF IInv
  <2>2. pc[r] # "idle" \/ \A s \in Runners : pc[s] = "idle"
    BY <1>3, SeedAssumption
    DEF Serial, Step, Proceed, MayStart, Crash, Lock, Locking, Truncate, LoadSeed, LoadFails,
        AbortTruncate, AbortLoad, DeleteSum, InsertSum, Recording
  <2>3. pc'[r] = stage /\ \A s \in Runners : s # r => pc'[s] = "idle"
    BY <2>1, <2>2, AloneStep DEF IInv, ExclusiveInv
  <2> QED BY <2>1, <2>3 DEF LoadedInv, ExclusiveInv, EmptiedInv
<1> QED BY <1>1, <1>2, <1>3 DEF Next

LEMMA LoadedInvariance == ASSUME Serial, Broken = {} PROVE Spec => []LoadedInv
<1>1. Init => LoadedInv
  BY DEF Init, LoadedInv
<1>2. IInv /\ ExclusiveInv /\ LoadedInv /\ [Next]_vars => LoadedInv'
  BY LoadedNext
<1> QED BY <1>1, <1>2, Invariance, ExclusiveInvariance, PTL DEF Spec

(* "Database seeded successfully!" is true of scripts that do not overlap  *)
(* and whose statements do not fail; seed_silent_failure shows that the    *)
(* last condition is needed.                                               *)
THEOREM SuccessIsTrue ==
    ASSUME Serial, Broken = {}
    PROVE  Spec => SeededMeansLoaded
<1>1. LoadedInv /\ [Next]_vars =>
        [\A r \in Runners : InsertSum(r) => catalog = {input[r]}]_vars
  BY DEF LoadedInv, InsertSum, Recording
<1> QED BY <1>1, LoadedInvariance, PTL DEF Spec, SeededMeansLoaded

-----------------------------------------------------------------------------
(* One place with a disk that lasts. *)
OneDisk == (\A r, s \in Runners : r = s) /\ ~Ephemeral /\ ~Misreads

(* The table has one checksum at most, of a file that was generated before *)
(* the next one; the script that replaces it has seen it.                  *)
OneSumInv ==
    /\ \A f, g \in stored : f = g
    /\ \A f \in stored : f <= newest
    /\ \A r \in Runners : disk[r] # NoFile => disk[r] <= newest
    /\ \A r \in Runners : pc[r] = "recording" => snap[r] = stored

(* A file that is still the one whose checksum the script has taken has    *)
(* not changed since, and is the one that it has loaded.                   *)
TakenInv ==
    \A r \in Runners :
        /\ pc[r] # "idle" => sha[r] <= newest
        /\ pc[r] \in {"record", "recording"} /\ disk[r] = sha[r] => input[r] = sha[r]
        /\ pc[r] = "load" /\ disk[r] = sha[r] => input[r] = sha[r]

(* While a script is on its way the recorded checksum is not its own, so   *)
(* that one which dies is not skipped the next time.                       *)
MatchInv == \A r \in Runners : disk[r] \in stored => pc[r] = "idle" /\ catalog = {disk[r]}

LEMMA TakenNext ==
    ASSUME OneDisk, IInv, OneSumInv, TakenInv, Next
    PROVE  TakenInv'
<1>0. /\ \A r, s \in Runners : r = s
      /\ newest \in Nat
      /\ \A r \in Runners : disk[r] \in Files \/ disk[r] = NoFile
      /\ \A r \in Runners : pc[r] # "idle" => sha[r] \in Nat
  BY SeedAssumption DEF OneDisk, IInv, TypeOK, RunningInv, Files
<1>1. CASE PostReview
  BY <1>1 DEF PostReview, TakenInv
<1>2. ASSUME NEW r \in Runners, Regenerate(r) PROVE TakenInv'
  <2>1. disk'[r] = newest + 1 /\ newest' = newest + 1 /\ UNCHANGED <<pc, sha, input>>
    BY <1>2 DEF Regenerate, IInv, TypeOK
  <2>2. pc[r] # "idle" => sha[r] <= newest + 1 /\ disk'[r] # sha[r]
    BY <1>0, <2>1 DEF TakenInv
  <2> QED BY <1>0, <2>1, <2>2 DEF TakenInv
<1>3. ASSUME NEW r \in Runners, Proceed(r) PROVE TakenInv'
  <2>1. /\ pc'[r] = "truncate" /\ sha'[r] = disk[r] /\ newest' = newest
        /\ disk[r] # NoFile
    BY <1>3 DEF Proceed, MayStart, GoTo, After, IInv, TypeOK
  <2> QED BY <1>0, <2>1 DEF TakenInv, OneSumInv
<1>4. ASSUME NEW r \in Runners, Crash(r) PROVE TakenInv'
  <2>1. pc'[r] = "idle"
    BY <1>4 DEF Crash, GoTo, IInv, TypeOK
  <2> QED BY <1>0, <2>1 DEF TakenInv
<1>5. ASSUME NEW r \in Runners, Step(r) PROVE TakenInv'
  <2>0. UNCHANGED <<disk, newest>>
    BY <1>5 DEF Step, Lock, Truncate, LoadSeed, LoadFails, AbortTruncate, AbortLoad,
                FailedLoad, EndOfTransaction, DeleteSum, InsertSum, Recording
  <2>1. CASE Lock(r)
    BY <2>0, <2>1 DEF Lock, TakenInv
  <2>2. CASE Truncate(r)
    <3>1. /\ pc[r] = "truncate" /\ pc'[r] = "load" /\ input'[r] = disk[r] /\ sha' = sha
      BY <2>2 DEF Truncate, EndOfTransaction, GoTo, KeepSum, After, IInv, TypeOK
    <3> QED BY <1>0, <2>0, <3>1 DEF TakenInv
  <2>3. CASE LoadSeed(r) \/ LoadFails(r) \/ AbortLoad(r)
    <3>1. /\ pc[r] = "load" /\ pc'[r] = "record" /\ UNCHANGED <<input, sha>>
      BY <2>3 DEF LoadSeed, LoadFails, AbortLoad, FailedLoad, EndOfTransaction, GoTo,
                  KeepSum, After, IInv, TypeOK
    <3> QED BY <1>0, <2>0, <3>1 DEF TakenInv
  <2>4. CASE AbortTruncate(r) \/ InsertSum(r)
    <3>1. pc'[r] = "idle"
      BY <2>4 DEF AbortTruncate, InsertSum, Recording, EndOfTransaction, GoTo, After, IInv,
                  TypeOK
    <3> QED BY <1>0, <3>1 DEF TakenInv
  <2>5. CASE DeleteSum(r)
    <3>1. /\ pc[r] = "record" /\ pc'[r] = "recording" /\ UNCHANGED <<input, sha>>
      BY <2>5 DEF DeleteSum, GoTo, IInv, TypeOK
    <3> QED BY <1>0, <2>0, <3>1 DEF TakenInv
  <2> QED BY <1>5, <2>1, <2>2, <2>3, <2>4, <2>5 DEF Step
<1> QED BY <1>1, <1>2, <1>3, <1>4, <1>5 DEF Next

LEMMA MatchNext ==
    ASSUME OneDisk, IInv, LoadedInv, OneSumInv, TakenInv, MatchInv, Next
    PROVE  OneSumInv' /\ MatchInv'
<1>0. /\ \A r, s \in Runners : r = s
      /\ newest \in Nat /\ stored \subseteq Nat
      /\ \A r \in Runners : disk[r] \in Files \/ disk[r] = NoFile
  BY SeedAssumption DEF OneDisk, IInv, TypeOK, Files
<1>1. CASE PostReview
  BY <1>1 DEF PostReview, OneSumInv, MatchInv
<1>2. ASSUME NEW r \in Runners, Regenerate(r) PROVE OneSumInv' /\ MatchInv'
  <2>1. disk'[r] = newest + 1 /\ newest' = newest + 1
    BY <1>2 DEF Regenerate, IInv, TypeOK
  <2>2. \A f \in stored : f <= newest /\ f # newest + 1 /\ f <= newest + 1
    BY <1>0 DEF OneSumInv
  <2>3. disk'[r] \notin stored'
    BY <1>2, <2>1, <2>2 DEF Regenerate
  <2>4. OneSumInv'
    BY <1>0, <1>2, <2>1, <2>2 DEF Regenerate, OneSumInv
  <2> QED BY <1>0, <2>3, <2>4 DEF MatchInv
<1>3. ASSUME NEW r \in Runners, Proceed(r) PROVE OneSumInv' /\ MatchInv'
  <2>1. disk[r] \notin stored
    BY <1>3 DEF Proceed, StoredSha, OneDisk, OneSumInv
  <2>2. pc'[r] = "truncate" /\ UNCHANGED <<stored, disk, newest, snap>>
    BY <1>3 DEF Proceed, GoTo, After, IInv, TypeOK
  <2> QED BY <1>0, <2>1, <2>2 DEF OneSumInv, MatchInv
<1>4. ASSUME NEW r \in Runners, Crash(r) PROVE OneSumInv' /\ MatchInv'
  <2>1. /\ disk[r] \notin stored /\ pc'[r] = "idle"
        /\ UNCHANGED <<stored, disk, newest>>
    BY <1>4 DEF Crash, GoTo, MatchInv, OneDisk, IInv, TypeOK
  <2> QED BY <1>0, <2>1 DEF OneSumInv, MatchInv
<1>5. ASSUME NEW r \in Runners,
             \/ Lock(r) \/ Truncate(r) \/ LoadSeed(r) \/ LoadFails(r)
             \/ AbortTruncate(r) \/ AbortLoad(r)
      PROVE  OneSumInv' /\ MatchInv'
  <2>1. pc[r] # "idle" /\ disk[r] \notin stored /\ UNCHANGED <<stored, disk, newest, snap>>
    BY <1>5 DEF Lock, Locking, Truncate, LoadSeed, LoadFails, AbortTruncate, AbortLoad,
                FailedLoad, EndOfTransaction, MatchInv
  <2>2. pc'[r] \in {pc[r], "load", "record", "idle"} /\ pc[r] # "recording"
    BY <1>5 DEF Lock, Locking, Truncate, LoadSeed, LoadFails, AbortTruncate, AbortLoad,
                FailedLoad, EndOfTransaction, GoTo, After, IInv, TypeOK
  <2> QED BY <1>0, <2>1, <2>2 DEF OneSumInv, MatchInv
<1>6. ASSUME NEW r \in Runners, DeleteSum(r) PROVE OneSumInv' /\ MatchInv'
  <2>1. /\ disk[r] \notin stored /\ snap'[r] = stored
        /\ UNCHANGED <<stored, disk, newest>>
    BY <1>6 DEF DeleteSum, MatchInv, IInv, TypeOK
  <2> QED BY <1>0, <2>1 DEF OneSumInv, MatchInv
<1>7. ASSUME NEW r \in Runners, InsertSum(r) PROVE OneSumInv' /\ MatchInv'
  <2>1. /\ stored' = {sha[r]} /\ sha[r] <= newest /\ pc[r] = "recording"
        /\ catalog' = {input[r]} /\ pc'[r] = "idle"
        /\ UNCHANGED <<disk, newest>>
    BY <1>7 DEF InsertSum, Recording, GoTo, After, OneSumInv, TakenInv, LoadedInv, IInv, TypeOK
  <2>2. disk[r] = sha[r] => input[r] = sha[r]
    BY <2>1 DEF TakenInv
  <2> QED BY <1>0, <2>1, <2>2 DEF OneSumInv, MatchInv
<1> QED BY <1>1, <1>2, <1>3, <1>4, <1>5, <1>6, <1>7 DEF Next, Step

(* "Store seed.sql checksum so we only truncate+re-seed when seed file     *)
(* changes", for a script with one disk that lasts: whatever crashes and   *)
(* wherever, one that may skip finds the rows of its own file and no       *)
(* other.  A second disk, a disk that goes back to that of the image, a    *)
(* query that fails silently and a statement that does are each enough to  *)
(* make it skip over an empty or a foreign catalog.                        *)
THEOREM SkipsAreSafe ==
    ASSUME OneDisk, Broken = {}
    PROVE  Spec => []SkipIsSafe
<1>0. Serial
  BY DEF Serial, OneDisk
<1>1. Init => OneSumInv /\ TakenInv /\ MatchInv
  <2>1. 0 <= 0
    OBVIOUS
  <2> QED BY <2>1 DEF Init, OneSumInv, TakenInv, MatchInv, Image
<1>2. IInv /\ LoadedInv /\ OneSumInv /\ TakenInv /\ MatchInv /\ [Next]_vars
        => OneSumInv' /\ TakenInv' /\ MatchInv'
  <2> SUFFICES ASSUME IInv, LoadedInv, OneSumInv, TakenInv, MatchInv, UNCHANGED vars
               PROVE  OneSumInv' /\ TakenInv' /\ MatchInv'
    BY MatchNext, TakenNext
  <2> QED BY DEF vars, OneSumInv, TakenInv, MatchInv
<1>3. IInv /\ MatchInv => SkipIsSafe
  BY SeedAssumption DEF IInv, TypeOK, MatchInv, SkipIsSafe, MaySkip, MayStart, StoredSha
<1> QED BY <1>0, <1>1, <1>2, <1>3, Invariance, LoadedInvariance, PTL DEF Spec
=============================================================================
