-------------------------- MODULE SeedPipelineProofs --------------------------
(***************************************************************************)
(* What holds of the seed pipeline for any number of faculties, requests,  *)
(* changes of the timetables and restarts.                                 *)
(***************************************************************************)
EXTENDS SeedPipeline, TLAPS

(* The mutex covers the child of a run, which may outlive its python.      *)
LockInv == /\ serving # {} => mutex
           /\ \A q, r \in serving : q = r
           /\ \A r \in Runs : stage[r] \in Stages => r \in serving
           /\ alive \subseteq serving
           /\ \A r \in alive : stage[r] \in Stages

(* While the disk keeps its files, none is newer than its source.          *)
OrderAt(f) ==
    /\ db[f] <= seed[f] /\ seed[f] <= page[f] /\ page[f] <= site[f]
    /\ json[f] <= page[f]
    /\ json[f] # Broken => seed[f] <= json[f]
    /\ \A r \in Runs : stage[r] = "fetch" /\ f \in todo[r] /\ got[r][f] # 0 =>
                          page[f] <= got[r][f] /\ got[r][f] <= site[f]
OrderInv == restarts = 0 => \A f \in Faculties : OrderAt(f)

(* What the child of a run is done with is as new as the timetable was     *)
(* when the run began.                                                     *)
CurrentAt(r, f) ==
    LET ahead(x) == x >= begun[r][f]
        excused == f \in kept[r] \/ f \in silent[r]
        pending == f \in todo[r] \/ f \in failed[r]
    IN /\ ahead(site[f])
       /\ got[r][f] # 0 => ahead(got[r][f])
       /\ r \in alive /\ ~excused =>
             /\ stage[r] = "fetch" => pending \/ ahead(page[f])
             /\ stage[r] = "import" => ahead(page[f])
             /\ stage[r] = "scrape" => ahead(page[f]) /\ (pending \/ ahead(json[f]))
             /\ stage[r] = "generate" => ahead(json[f])
             /\ stage[r] = "seed" => ahead(seed[f])
CurrentInv == \A r \in serving, f \in Faculties : CurrentAt(r, f)

(* A run that has not begun has nothing. *)
FreshInv == \A r \in Runs : stage[r] = "none" => got[r] = Nothing /\ r \notin alive

IInv == TypeOK /\ LockInv /\ OrderInv /\ CurrentInv /\ FreshInv

-----------------------------------------------------------------------------
LEMMA Numbers ==
    ASSUME TypeOK, NEW f \in Faculties
    PROVE  /\ site[f] \in Int /\ page[f] \in Int /\ seed[f] \in Int /\ db[f] \in Int
           /\ db[f] >= 0 /\ seed[f] >= 0 /\ page[f] >= 0 /\ site[f] >= 0
           /\ json[f] \in Int /\ json[f] >= Broken
           /\ \A r \in Runs : got[r][f] \in Int /\ begun[r][f] \in Int
           /\ \A r \in Runs : got[r][f] >= 0 /\ begun[r][f] >= 0
<1>1. /\ site[f] \in 0..MaxVersion /\ page[f] \in 0..MaxVersion
      /\ seed[f] \in 0..MaxVersion /\ db[f] \in 0..MaxVersion
      /\ json[f] \in 0..MaxVersion \cup {Broken}
  BY DEF TypeOK, Versions
<1>2. \A r \in Runs : got[r] \in Versions /\ begun[r] \in Versions
  BY DEF TypeOK
<1>3. \A r \in Runs : got[r][f] \in 0..MaxVersion /\ begun[r][f] \in 0..MaxVersion
  BY <1>2 DEF Versions
<1> QED BY <1>1, <1>3 DEF Broken

LEMMA NothingIsNothing ==
    ASSUME NEW f \in Faculties PROVE Nothing[f] = 0
  BY DEF Nothing

LEMMA NothingIsAVersion == Nothing \in Versions
  BY PipelineAssumption DEF Nothing, Versions

LEMMA ExitType ==
    ASSUME TypeOK, NEW r \in Runs, NEW ok \in BOOLEAN, stage[r] \in Stages, Exit(r, ok)
    PROVE  /\ alive' \subseteq alive
           /\ stage' \in [Runs -> Stages \cup {"none", "over"}]
           /\ result' \in [Runs -> {"", "ok", "failed"}]
           /\ todo' \in [Runs -> SUBSET Faculties]
<1>1. After(stage[r]) \in Stages \cup {"over"}
  BY DEF After, Stages
<1>2. CASE r \notin alive
  BY <1>2 DEF TypeOK, Exit
<1>3. CASE r \in alive /\ ok
  BY <1>1, <1>3 DEF TypeOK, Exit
<1>4. CASE r \in alive /\ ~ok
  BY <1>4 DEF TypeOK, Exit
<1> QED BY <1>2, <1>3, <1>4

(* A child goes on to the next one only if it is waited for and has ended  *)
(* well.                                                                   *)
LEMMA ExitStage ==
    ASSUME TypeOK, NEW r \in Runs, NEW ok \in BOOLEAN, stage[r] \in Stages, Exit(r, ok)
    PROVE  /\ \A q \in Runs \ {r} : /\ stage'[q] = stage[q] /\ todo'[q] = todo[q]
                                    /\ result'[q] = result[q]
           /\ alive' \cup {r} = alive \cup {r}
           /\ r \in alive' => /\ ok /\ r \in alive /\ stage[r] # "seed"
                              /\ stage'[r] = After(stage[r]) /\ todo'[r] = Faculties
           /\ r \notin alive' => stage'[r] = "over"
           /\ result'[r] = "ok" => \/ result[r] = "ok"
                                   \/ stage[r] = "seed" /\ ok /\ r \in alive
<1>1. CASE r \notin alive
  <2>1. stage' = [stage EXCEPT ![r] = "over"] /\ alive' = alive /\ result' = result /\ todo' = todo
    BY <1>1 DEF Exit
  <2>2. stage'[r] = "over" /\ \A q \in Runs \ {r} : stage'[q] = stage[q]
    BY <2>1 DEF TypeOK
  <2> QED BY <1>1, <2>1, <2>2
<1>2. CASE r \in alive /\ ok
  BY <1>2 DEF TypeOK, Exit, After, Stages
<1>3. CASE r \in alive /\ ~ok
  BY <1>3 DEF TypeOK, Exit
<1> QED BY <1>1, <1>2, <1>3

LEMMA ExitLock ==
    ASSUME TypeOK, LockInv, NEW r \in Runs, NEW ok \in BOOLEAN, stage[r] \in Stages, Exit(r, ok),
           UNCHANGED <<mutex, serving>>
    PROVE  LockInv'
<1>1. After(stage[r]) \in Stages \cup {"over"}
  BY DEF After, Stages
<1>2. stage[r] # "seed" => After(stage[r]) \in Stages
  BY DEF After, Stages
<1>3. \A q \in Runs : stage'[q] \in Stages => stage[q] \in Stages
  BY ExitStage
<1>4. alive' \subseteq alive
  BY ExitType
<1>5. \A q \in alive' : stage'[q] \in Stages
  <2>1. SUFFICES ASSUME NEW q \in alive' PROVE stage'[q] \in Stages
    OBVIOUS
  <2>2. q \in alive /\ q \in Runs
    BY <1>4 DEF TypeOK
  <2>3. CASE q = r
    BY <1>2, <2>3, ExitStage
  <2>4. CASE q # r
    <3>1. stage'[q] = stage[q]
      BY <2>2, <2>4, ExitStage
    <3> QED BY <2>2, <3>1 DEF LockInv
  <2> QED BY <2>3, <2>4
<1> QED BY <1>3, <1>4, <1>5 DEF LockInv

LEMMA ExitFresh ==
    ASSUME TypeOK, FreshInv, NEW r \in Runs, NEW ok \in BOOLEAN, stage[r] \in Stages, Exit(r, ok),
           UNCHANGED got
    PROVE  FreshInv'
<1>1. After(stage[r]) # "none"
  BY DEF After, Stages
<1>2. stage'[r] # "none"
  BY <1>1, ExitStage
<1>3. \A q \in Runs \ {r} : stage'[q] = stage[q]
  BY ExitStage
<1>4. alive' \subseteq alive
  BY ExitType
<1> QED BY <1>2, <1>3, <1>4 DEF FreshInv

LEMMA InitInv == Init => IInv
<1> SUFFICES ASSUME Init PROVE IInv
  OBVIOUS
<1>1. TypeOK
  <2>1. site \in Versions
    <3>1. 1 \in 0..MaxVersion
      BY PipelineAssumption
    <3> QED BY <3>1 DEF Init, Versions
  <2>2. json \in [Faculties -> 0..MaxVersion \cup {Broken}]
    BY NothingIsAVersion DEF Init, Versions
  <2>3. page \in Versions /\ seed \in Versions /\ db \in Versions
    BY NothingIsAVersion DEF Init
  <2>4. got \in [Runs -> Versions] /\ begun \in [Runs -> Versions]
    BY NothingIsAVersion DEF Init
  <2>5. restarts \in 0..MaxRestarts
    <3>1. restarts = 0
      BY DEF Init
    <3> QED BY <3>1, PipelineAssumption
  <2> QED BY <2>1, <2>2, <2>3, <2>4, <2>5 DEF Init, TypeOK
<1>2. LockInv
  BY DEF Init, LockInv, Stages
<1>3. OrderInv
  <2> SUFFICES ASSUME NEW f \in Faculties PROVE OrderAt(f)
    BY DEF OrderInv
  <2>1. site[f] = 1 /\ page[f] = 0 /\ json[f] = 0 /\ seed[f] = 0 /\ db[f] = 0
    BY NothingIsNothing DEF Init
  <2>2. \A r \in Runs : stage[r] = "none"
    BY DEF Init
  <2> QED BY <2>1, <2>2 DEF OrderAt
<1>4. CurrentInv /\ FreshInv
  BY DEF Init, CurrentInv, FreshInv
<1> QED BY <1>1, <1>2, <1>3, <1>4 DEF IInv


LEMMA RestartInv ==
    ASSUME IInv, Restart
    PROVE  IInv'
<1> USE DEF IInv
<1>2. TypeOK'
  <2>1. /\ page' \in Versions /\ seed' \in Versions
        /\ json' \in [Faculties -> 0..MaxVersion \cup {Broken}]
    BY NothingIsAVersion DEF TypeOK, Restart, Versions
  <2>2. restarts' \in 0..MaxRestarts
    <3>1. restarts \in 0..MaxRestarts /\ restarts < MaxRestarts /\ restarts' = restarts + 1
      BY DEF TypeOK, Restart
    <3> QED BY <3>1, PipelineAssumption
  <2>3. got' \in [Runs -> Versions] /\ begun' \in [Runs -> Versions]
    BY NothingIsAVersion DEF Restart, Forget
  <2>4. /\ todo' \in [Runs -> SUBSET Faculties] /\ failed' \in [Runs -> SUBSET Faculties]
        /\ kept' \in [Runs -> SUBSET Faculties] /\ silent' \in [Runs -> SUBSET Faculties]
    BY DEF TypeOK, Restart, Forget
  <2> QED BY <2>1, <2>2, <2>3, <2>4 DEF TypeOK, Restart, Stages
<1>3. LockInv'
  BY DEF LockInv, Stages, Restart
<1>4. OrderInv'
  <2>1. restarts' # 0
    <3>1. restarts \in 0..MaxRestarts /\ restarts < MaxRestarts /\ restarts' = restarts + 1
      BY DEF TypeOK, Restart
    <3> QED BY <3>1, PipelineAssumption
  <2> QED BY <2>1 DEF OrderInv
<1>5. CurrentInv'
  <2> SUFFICES ASSUME NEW r \in serving', NEW f \in Faculties PROVE CurrentAt(r, f)'
    BY DEF CurrentInv
  <2>1. r \in Runs /\ r \in serving /\ CurrentAt(r, f)
    BY DEF CurrentInv, Restart
  <2> QED BY DEF CurrentAt, Restart
<1>6. FreshInv'
  BY DEF FreshInv, Restart, Forget
<1> QED BY <1>2, <1>3, <1>4, <1>5, <1>6

LEMMA ChangeInv ==
    ASSUME IInv, NEW h \in Faculties, Change(h)
    PROVE  IInv'
<1> USE DEF IInv
<1>2. TypeOK'
  <2>1. site[h] + 1 \in 0..MaxVersion
    BY Numbers, PipelineAssumption DEF Change
  <2>2. site' \in Versions
    BY <2>1 DEF TypeOK, Change, Versions
  <2> QED BY <2>2 DEF TypeOK, Change, files, process, work
<1>3. LockInv'
  BY DEF LockInv, Change, process
<1>4. OrderInv'
  <2> SUFFICES ASSUME restarts' = 0, NEW f \in Faculties PROVE OrderAt(f)'
    BY DEF OrderInv
  <2>1. OrderAt(f)
    BY DEF OrderInv, Change
  <2>2. site'[f] = site[f] \/ site'[f] = site[f] + 1
    BY DEF TypeOK, Change, Versions
  <2> QED BY <2>1, Numbers DEF OrderAt, Change, files, process, work
<1>5. CurrentInv'
  <2> SUFFICES ASSUME NEW r \in serving', NEW f \in Faculties PROVE CurrentAt(r, f)'
    BY DEF CurrentInv
  <2>1. r \in Runs /\ r \in serving /\ CurrentAt(r, f)
    BY DEF CurrentInv, TypeOK, Change, files, process, work
  <2>2. site'[f] = site[f] \/ site'[f] = site[f] + 1
    BY DEF TypeOK, Change, Versions
  <2> QED BY <2>1, Numbers DEF CurrentAt, Change, files, process, work
<1>6. FreshInv'
  BY DEF FreshInv, Change, process, work
<1> QED BY <1>2, <1>3, <1>4, <1>5, <1>6

LEMMA PostInv ==
    ASSUME IInv, NEW p \in Runs, Post(p)
    PROVE  IInv'
<1> USE DEF IInv
<1>2. TypeOK'
  BY PipelineAssumption DEF TypeOK, Versions, Stages, Post, files, process, work
<1>3. LockInv'
  BY DEF LockInv, Post
<1>4. OrderInv'
  <2> SUFFICES ASSUME restarts' = 0, NEW f \in Faculties PROVE OrderAt(f)'
    BY DEF OrderInv
  <2>1. OrderAt(f)
    BY DEF OrderInv, Post
  <2> QED BY <2>1 DEF OrderAt, Broken, Post, files, work
<1>5. CurrentInv'
  <2> SUFFICES ASSUME NEW r \in serving', NEW f \in Faculties PROVE CurrentAt(r, f)'
    BY DEF CurrentInv
  <2>1. /\ r \in Runs /\ (r # p => r \in serving /\ CurrentAt(r, f))
        /\ r = p => got[r][f] = 0 /\ r \notin alive
    BY NothingIsNothing DEF Post, CurrentInv, FreshInv, TypeOK
  <2>2. CASE r = p
    <3>1. begun'[r][f] = site[f]
      BY <2>1, <2>2 DEF Post, TypeOK
    <3>2. site' = site /\ got' = got /\ alive' = alive
      BY DEF Post, work
    <3>3. begun'[r][f] <= site[f]
      BY <3>1, Numbers
    <3> QED BY <2>1, <2>2, <3>2, <3>3 DEF CurrentAt
  <2>3. CASE r # p
    <3>1. begun'[r] = begun[r]
      BY <2>3 DEF Post
    <3> QED BY <2>1, <2>3 DEF CurrentAt, Post, files, work
  <2> QED BY <2>2, <2>3
<1>6. FreshInv'
  BY DEF FreshInv, Post, work
<1> QED BY <1>2, <1>3, <1>4, <1>5, <1>6

LEMMA NoPythonInv ==
    ASSUME IInv, NEW p \in Runs, NoPython(p)
    PROVE  IInv'
<1> USE DEF IInv
<1>2. TypeOK'
  BY PipelineAssumption DEF TypeOK, Versions, Stages, NoPython, files, process, work
<1>3. LockInv'
  BY DEF LockInv, Stages, NoPython
<1>4. OrderInv'
  <2> SUFFICES ASSUME restarts' = 0, NEW f \in Faculties PROVE OrderAt(f)'
    BY DEF OrderInv
  <2>1. OrderAt(f)
    BY DEF OrderInv, NoPython
  <2> QED BY <2>1 DEF OrderAt, Broken, NoPython, files, work
<1>5. CurrentInv'
  <2> SUFFICES ASSUME NEW r \in serving', NEW f \in Faculties PROVE CurrentAt(r, f)'
    BY DEF CurrentInv
  <2>1. r \in Runs /\ r \in serving /\ CurrentAt(r, f)
    BY DEF CurrentInv, TypeOK, NoPython, files, process, work
  <2> QED BY <2>1 DEF CurrentAt, NoPython, files, work
<1>6. FreshInv'
  BY DEF FreshInv, NoPython, work
<1> QED BY <1>2, <1>3, <1>4, <1>5, <1>6

LEMMA PythonInv ==
    ASSUME IInv, NEW p \in Runs, Python(p)
    PROVE  IInv'
<1> USE DEF IInv
<1>2. TypeOK'
  BY PipelineAssumption DEF TypeOK, Versions, Stages, Python, files, process, work
<1>3. LockInv'
  <2>1. \A r \in Runs \ {p} : stage'[r] = stage[r]
    BY DEF TypeOK, Python
  <2>2. stage'[p] \in Stages
    BY DEF TypeOK, Python, Stages
  <2> QED BY <2>2 DEF LockInv, Python
<1>4. OrderInv'
  <2> SUFFICES ASSUME restarts' = 0, NEW f \in Faculties PROVE OrderAt(f)'
    BY DEF OrderInv
  <2>1. OrderAt(f)
    BY DEF OrderInv, Python
  <2> QED BY <2>1, NothingIsNothing DEF OrderAt, Broken, FreshInv, Python, files
<1>5. CurrentInv'
  <2> SUFFICES ASSUME NEW r \in serving', NEW f \in Faculties PROVE CurrentAt(r, f)'
    BY DEF CurrentInv
  <2>1. r \in Runs /\ r \in serving /\ CurrentAt(r, f)
    BY DEF CurrentInv, TypeOK, Python, files, process, work
  <2> QED BY <2>1, Numbers DEF CurrentAt, TypeOK, LockInv, Python, files, process, work
<1>6. FreshInv'
  BY DEF FreshInv, TypeOK, Python, files, process, work
<1> QED BY <1>2, <1>3, <1>4, <1>5, <1>6

LEMMA TimeoutInv ==
    ASSUME IInv, NEW p \in Runs, Timeout(p)
    PROVE  IInv'
<1> USE DEF IInv
<1>2. TypeOK'
  BY PipelineAssumption DEF TypeOK, Versions, Stages, Timeout, files, process, work
<1>3. LockInv'
  BY DEF LockInv, Timeout
<1>4. OrderInv'
  <2> SUFFICES ASSUME restarts' = 0, NEW f \in Faculties PROVE OrderAt(f)'
    BY DEF OrderInv
  <2>1. OrderAt(f)
    BY DEF OrderInv, Timeout
  <2> QED BY <2>1 DEF OrderAt, Broken, Timeout, files, work
<1>5. CurrentInv'
  <2> SUFFICES ASSUME NEW r \in serving', NEW f \in Faculties PROVE CurrentAt(r, f)'
    BY DEF CurrentInv
  <2>1. r \in Runs /\ r \in serving /\ CurrentAt(r, f)
    BY DEF CurrentInv, TypeOK, Timeout, files, process, work
  <2> QED BY <2>1 DEF CurrentAt, Timeout, files, work
<1>6. FreshInv'
  BY DEF FreshInv, Timeout, work
<1> QED BY <1>2, <1>3, <1>4, <1>5, <1>6

LEMMA ReturnInv ==
    ASSUME IInv, NEW p \in Runs, Return(p)
    PROVE  IInv'
<1> USE DEF IInv
<1>2. TypeOK'
  BY NothingIsAVersion, PipelineAssumption DEF TypeOK, Versions, Stages, Return, files,
     process, work, Forget
<1>3. LockInv'
  <2>1. p \notin alive /\ stage[p] \notin Stages
    BY DEF LockInv, Return, Stages
  <2>2. serving' = {}
    BY DEF LockInv, Return
  <2> QED BY <2>1 DEF LockInv, Return
<1>4. OrderInv'
  <2> SUFFICES ASSUME restarts' = 0, NEW f \in Faculties PROVE OrderAt(f)'
    BY DEF OrderInv
  <2>1. OrderAt(f)
    BY DEF OrderInv, Return
  <2> QED BY <2>1 DEF OrderAt, Broken, Return, files, Forget
<1>5. CurrentInv'
  <2> SUFFICES ASSUME NEW r \in serving', NEW f \in Faculties PROVE CurrentAt(r, f)'
    BY DEF CurrentInv
  <2>1. r \in Runs /\ r \in serving /\ CurrentAt(r, f)
    BY DEF CurrentInv, TypeOK, Return, files, process, work, Forget
  <2> QED BY <2>1 DEF CurrentAt, Return, files, Forget
<1>6. FreshInv'
  BY DEF FreshInv, Return, Forget
<1> QED BY <1>2, <1>3, <1>4, <1>5, <1>6

LEMMA FetchExitInv ==
    ASSUME IInv, NEW p \in Runs, FetchExit(p)
    PROVE  IInv'
<1> USE DEF IInv
<1>0. stage[p] \in Stages /\ stage[p] = "fetch"
  BY DEF FetchExit, Stages
<1>1. PICK ok \in BOOLEAN : /\ Exit(p, ok)
                            /\ \E strict \in BOOLEAN : ok = (failed[p] = {} /\ ~(strict /\ kept[p] # {}))
  BY DEF FetchExit
<1>2. TypeOK'
  BY <1>0, <1>1, ExitType, NothingIsAVersion DEF TypeOK, FetchExit, outside, files
<1>3. LockInv'
  BY <1>0, ExitLock DEF FetchExit, outside
<1>4. OrderInv'
  <2> SUFFICES ASSUME restarts' = 0, NEW f \in Faculties PROVE OrderAt(f)'
    BY DEF OrderInv
  <2>1. OrderAt(f)
    BY DEF OrderInv, FetchExit, outside
  <2>2. \A q \in Runs : stage'[q] = "fetch" => q # p /\ stage[q] = "fetch" /\ todo'[q] = todo[q]
    BY <1>0, <1>1, ExitStage DEF After
  <2> QED BY <2>1, <2>2 DEF OrderAt, FetchExit, outside, files
<1>5. CurrentInv'
  <2> SUFFICES ASSUME NEW r \in serving', NEW f \in Faculties PROVE CurrentAt(r, f)'
    BY DEF CurrentInv
  <2>1. r \in Runs /\ r \in serving /\ CurrentAt(r, f)
    BY DEF CurrentInv, TypeOK, FetchExit, outside, files
  <2>2. r = p
    BY <1>0, <2>1 DEF LockInv
  <2>3. CASE r \in alive'
    <3>1. /\ stage'[r] = "import" /\ r \in alive
          /\ todo[r] = {} /\ failed[r] = {} /\ todo'[r] = Faculties
      BY <1>0, <2>2, <2>3, ExitStage DEF FetchExit, After
    <3> QED BY <1>0, <2>1, <2>2, <3>1 DEF CurrentAt, FetchExit, outside, files
  <2>4. CASE r \notin alive'
    BY <2>1, <2>4 DEF CurrentAt, FetchExit, outside, files
  <2> QED BY <2>3, <2>4
<1>6. FreshInv'
  BY <1>0, <1>1, ExitFresh DEF FetchExit
<1> QED BY <1>2, <1>3, <1>4, <1>5, <1>6

LEMMA ScrapeExitInv ==
    ASSUME IInv, NEW p \in Runs, ScrapeExit(p)
    PROVE  IInv'
<1> USE DEF IInv
<1>0. stage[p] \in Stages /\ stage[p] = "scrape"
  BY DEF ScrapeExit, Stages
<1>1. PICK ok \in BOOLEAN : /\ Exit(p, ok)
                            /\ ok = (failed[p] = {})
  BY DEF ScrapeExit
<1>2. TypeOK'
  BY <1>0, <1>1, ExitType, NothingIsAVersion DEF TypeOK, ScrapeExit, outside, files
<1>3. LockInv'
  BY <1>0, <1>1, ExitLock DEF ScrapeExit, outside
<1>4. OrderInv'
  <2> SUFFICES ASSUME restarts' = 0, NEW f \in Faculties PROVE OrderAt(f)'
    BY DEF OrderInv
  <2>1. OrderAt(f)
    BY DEF OrderInv, ScrapeExit, outside, files
  <2>2. \A q \in Runs : stage'[q] = "fetch" => q # p /\ stage[q] = "fetch" /\ todo'[q] = todo[q]
    BY <1>0, <1>1, ExitStage DEF After
  <2> QED BY <1>1, <2>1, <2>2, Numbers, NothingIsNothing DEF OrderAt, Broken, ScrapeExit,
        outside, files
<1>5. CurrentInv'
  <2> SUFFICES ASSUME NEW r \in serving', NEW f \in Faculties PROVE CurrentAt(r, f)'
    BY DEF CurrentInv
  <2>1. r \in Runs /\ r \in serving /\ CurrentAt(r, f)
    BY DEF CurrentInv, TypeOK, ScrapeExit, outside, files
  <2>2. r = p
    BY <1>0, <2>1 DEF LockInv
  <2>3. CASE r \in alive'
    <3>1. stage'[r] = "generate" /\ r \in alive /\ todo[r] = {} /\ failed[r] = {}
      BY <1>0, <1>1, <2>2, <2>3, ExitStage DEF ScrapeExit, After
    <3> QED BY <1>0, <2>1, <2>2, <3>1 DEF CurrentAt, ScrapeExit, outside, files
  <2>4. CASE r \notin alive'
    BY <2>1, <2>4 DEF CurrentAt, ScrapeExit, outside, files
  <2> QED BY <2>3, <2>4
<1>6. FreshInv'
  BY <1>0, <1>1, ExitFresh DEF ScrapeExit
<1> QED BY <1>2, <1>3, <1>4, <1>5, <1>6

LEMMA GenerateInv ==
    ASSUME IInv, NEW p \in Runs, Generate(p)
    PROVE  IInv'
<1> USE DEF IInv
<1>0. stage[p] \in Stages /\ stage[p] = "generate"
  BY DEF Generate, Stages
<1>1. PICK ok \in BOOLEAN : /\ Exit(p, ok)
                            /\ /\ ok => seed' = json /\ \A f \in Faculties : json[f] # Broken
                               /\ ~ok => UNCHANGED seed
  BY DEF Generate
<1>2. TypeOK'
  BY <1>0, <1>1, ExitType, NothingIsAVersion DEF TypeOK, Versions, Generate, outside, files, Broken
<1>3. LockInv'
  BY <1>0, <1>1, ExitLock DEF Generate, outside
<1>4. OrderInv'
  <2> SUFFICES ASSUME restarts' = 0, NEW f \in Faculties PROVE OrderAt(f)'
    BY DEF OrderInv
  <2>1. OrderAt(f)
    BY DEF OrderInv, Generate, outside, files, Broken
  <2>2. \A q \in Runs : stage'[q] = "fetch" => q # p /\ stage[q] = "fetch" /\ todo'[q] = todo[q]
    BY <1>0, <1>1, ExitStage DEF After
  <2> QED BY <1>1, <2>1, <2>2, Numbers, NothingIsNothing DEF OrderAt, Broken, Generate, outside,
        files
<1>5. CurrentInv'
  <2> SUFFICES ASSUME NEW r \in serving', NEW f \in Faculties PROVE CurrentAt(r, f)'
    BY DEF CurrentInv
  <2>1. r \in Runs /\ r \in serving /\ CurrentAt(r, f)
    BY DEF CurrentInv, TypeOK, Generate, outside, files, Broken
  <2>2. r = p
    BY <1>0, <2>1 DEF LockInv
  <2>3. CASE r \in alive'
    <3>1. stage'[r] = "seed" /\ r \in alive /\ seed' = json
      BY <1>0, <1>1, <2>2, <2>3, ExitStage DEF After
    <3> QED BY <1>0, <2>1, <2>2, <3>1 DEF CurrentAt, Generate, outside
  <2>4. CASE r \notin alive'
    BY <2>1, <2>4 DEF CurrentAt, Generate, outside
  <2> QED BY <2>3, <2>4
<1>6. FreshInv'
  BY <1>0, <1>1, ExitFresh DEF Generate
<1> QED BY <1>2, <1>3, <1>4, <1>5, <1>6

LEMMA SeedInv ==
    ASSUME IInv, NEW p \in Runs, Seed(p)
    PROVE  IInv'
<1> USE DEF IInv
<1>0. stage[p] \in Stages /\ stage[p] = "seed"
  BY DEF Seed, Stages
<1>1. PICK ok \in BOOLEAN : /\ Exit(p, ok)
                            /\ /\ ok => db' \in {seed, Nothing}
                               /\ ~ok => db' \in {db, Nothing, seed}
  BY DEF Seed
<1>2. TypeOK'
  BY <1>0, <1>1, ExitType, NothingIsAVersion DEF TypeOK, Seed, outside, files
<1>3. LockInv'
  BY <1>0, <1>1, ExitLock DEF Seed, outside
<1>4. OrderInv'
  <2> SUFFICES ASSUME restarts' = 0, NEW f \in Faculties PROVE OrderAt(f)'
    BY DEF OrderInv
  <2>1. OrderAt(f)
    BY DEF OrderInv, Seed, outside, files
  <2>2. \A q \in Runs : stage'[q] = "fetch" => q # p /\ stage[q] = "fetch" /\ todo'[q] = todo[q]
    BY <1>0, <1>1, ExitStage DEF After
  <2> QED BY <1>1, <2>1, <2>2, Numbers, NothingIsNothing DEF OrderAt, Broken, Seed, outside, files
<1>5. CurrentInv'
  <2> SUFFICES ASSUME NEW r \in serving', NEW f \in Faculties PROVE CurrentAt(r, f)'
    BY DEF CurrentInv
  <2>1. r \in Runs /\ r \in serving /\ CurrentAt(r, f)
    BY DEF CurrentInv, TypeOK, Seed, outside, files
  <2> QED BY <1>0, <1>1, ExitStage, <2>1, Numbers DEF CurrentAt, TypeOK, After, LockInv, Seed,
        outside, files
<1>6. FreshInv'
  BY <1>0, <1>1, ExitFresh DEF Seed
<1> QED BY <1>2, <1>3, <1>4, <1>5, <1>6

LEMMA DownloadInv ==
    ASSUME IInv, NEW p \in Runs, NEW h \in Faculties, Download(p, h)
    PROVE  IInv'
<1> USE DEF IInv
<1>1. \A r \in Runs, f \in Faculties :
         got'[r][f] = IF r = p /\ f = h THEN site[f] ELSE got[r][f]
  BY DEF TypeOK, Versions, Download
<1>2. TypeOK'
  BY PipelineAssumption DEF TypeOK, Versions, Stages, Download, outside, files, Doing, Done
<1>3. LockInv'
  BY DEF LockInv, TypeOK, Stages, Download, outside, files, Doing, Done
<1>4. OrderInv'
  <2> SUFFICES ASSUME restarts' = 0, NEW f \in Faculties PROVE OrderAt(f)'
    BY DEF OrderInv
  <2>1. OrderAt(f)
    BY DEF OrderInv, Download, outside, files, Doing, Done
  <2> QED BY <1>1, <2>1, Numbers DEF OrderAt, Download, outside, files
<1>5. CurrentInv'
  <2> SUFFICES ASSUME NEW r \in serving', NEW f \in Faculties PROVE CurrentAt(r, f)'
    BY DEF CurrentInv
  <2>1. r \in Runs /\ r \in serving /\ CurrentAt(r, f)
    BY DEF CurrentInv, TypeOK, Download, outside, files, Doing, Done
  <2>2. got'[r][f] = site[f] \/ got'[r][f] = got[r][f]
    BY <1>1, <2>1
  <2> QED BY <2>1, <2>2 DEF CurrentAt, Download, outside, files
<1>6. FreshInv'
  BY DEF FreshInv, TypeOK, LockInv, Stages, Download, outside, files, Doing, Done
<1> QED BY <1>2, <1>3, <1>4, <1>5, <1>6

LEMMA SavePageInv ==
    ASSUME IInv, NEW p \in Runs, NEW h \in Faculties, SavePage(p, h)
    PROVE  IInv'
<1> USE DEF IInv
<1>1. /\ stage[p] = "fetch" /\ stage' = stage /\ h \in todo[p] /\ got[p][h] # 0
      /\ \A f \in Faculties : page'[f] = IF f = h THEN got[p][h] ELSE page[f]
      /\ \A r \in Runs : todo'[r] = IF r = p THEN todo[p] \ {h} ELSE todo[r]
      /\ \A r \in Runs : stage[r] = "fetch" => r = p
  BY DEF TypeOK, Versions, LockInv, Stages, SavePage, Doing, Done
<1>2. TypeOK'
  BY PipelineAssumption DEF TypeOK, Versions, Stages, SavePage, outside, files, Doing, Done
<1>3. LockInv'
  BY DEF LockInv, TypeOK, Stages, SavePage, outside, files, Doing, Done
<1>4. OrderInv'
  <2> SUFFICES ASSUME restarts' = 0, NEW f \in Faculties PROVE OrderAt(f)'
    BY DEF OrderInv
  <2>1. OrderAt(f)
    BY DEF OrderInv, SavePage, outside, files, Doing, Done
  <2>2. page[f] <= page'[f] /\ page'[f] <= site[f]
    BY <1>1, <2>1, Numbers DEF OrderAt
  <2>3. CASE f = h
    BY <1>1, <2>1, <2>2, <2>3, Numbers DEF OrderAt, SavePage, outside
  <2>4. CASE f # h
    BY <1>1, <2>1, <2>4 DEF OrderAt, SavePage, outside
  <2> QED BY <2>3, <2>4
<1>5. CurrentInv'
  <2> SUFFICES ASSUME NEW r \in serving', NEW f \in Faculties PROVE CurrentAt(r, f)'
    BY DEF CurrentInv
  <2>1. r \in Runs /\ r \in serving /\ CurrentAt(r, f)
    BY DEF CurrentInv, TypeOK, SavePage, outside, files, Doing, Done
  <2>2. r = p
    BY <1>1, <2>1 DEF LockInv, Stages
  <2>3. CASE f = h
    BY <1>1, <2>1, <2>2, <2>3 DEF CurrentAt, SavePage, outside
  <2>4. CASE f # h
    BY <1>1, <2>1, <2>2, <2>4 DEF CurrentAt, SavePage, outside
  <2> QED BY <2>3, <2>4
<1>6. FreshInv'
  BY DEF FreshInv, TypeOK, SavePage, outside, files, Doing, Done
<1> QED BY <1>2, <1>3, <1>4, <1>5, <1>6

LEMMA KeepPageInv ==
    ASSUME IInv, NEW p \in Runs, NEW h \in Faculties, KeepPage(p, h)
    PROVE  IInv'
<1> USE DEF IInv
<1>2. TypeOK'
  BY DEF TypeOK, KeepPage, outside, files, Doing, Done
<1>3. LockInv'
  BY DEF LockInv, TypeOK, Stages, KeepPage, outside, files, Doing, Done
<1>4. OrderInv'
  <2> SUFFICES ASSUME restarts' = 0, NEW f \in Faculties PROVE OrderAt(f)'
    BY DEF OrderInv
  <2>1. OrderAt(f)
    BY DEF OrderInv, KeepPage, outside, files, Doing, Done
  <2> QED BY <2>1, Numbers DEF OrderAt, Broken, TypeOK, KeepPage, outside, files, Doing, Done
<1>5. CurrentInv'
  <2> SUFFICES ASSUME NEW r \in serving', NEW f \in Faculties PROVE CurrentAt(r, f)'
    BY DEF CurrentInv
  <2>1. r \in Runs /\ r \in serving /\ CurrentAt(r, f)
    BY DEF CurrentInv, TypeOK, KeepPage, outside, files, Doing, Done
  <2> QED BY <2>1, Numbers DEF CurrentAt, TypeOK, LockInv, KeepPage, outside, files, Doing, Done
<1>6. FreshInv'
  BY DEF FreshInv, TypeOK, KeepPage, outside, files, Doing, Done
<1> QED BY <1>2, <1>3, <1>4, <1>5, <1>6

LEMMA FetchFailsInv ==
    ASSUME IInv, NEW p \in Runs, NEW h \in Faculties, FetchFails(p, h)
    PROVE  IInv'
<1> USE DEF IInv
<1>2. TypeOK'
  BY PipelineAssumption DEF TypeOK, Versions, Stages, FetchFails, outside, files, Doing, Done
<1>3. LockInv'
  BY DEF LockInv, TypeOK, Stages, FetchFails, outside, files, Doing, Done
<1>4. OrderInv'
  <2> SUFFICES ASSUME restarts' = 0, NEW f \in Faculties PROVE OrderAt(f)'
    BY DEF OrderInv
  <2>1. OrderAt(f)
    BY DEF OrderInv, FetchFails, outside, files, Doing, Done
  <2> QED BY <2>1, Numbers DEF OrderAt, Broken, TypeOK, FetchFails, outside, files, Doing, Done
<1>5. CurrentInv'
  <2> SUFFICES ASSUME NEW r \in serving', NEW f \in Faculties PROVE CurrentAt(r, f)'
    BY DEF CurrentInv
  <2>1. r \in Runs /\ r \in serving /\ CurrentAt(r, f)
    BY DEF CurrentInv, TypeOK, FetchFails, outside, files, Doing, Done
  <2> QED BY <2>1, Numbers DEF CurrentAt, TypeOK, LockInv, FetchFails, outside, files, Doing, Done
<1>6. FreshInv'
  BY DEF FreshInv, TypeOK, FetchFails, outside, files, Doing, Done
<1> QED BY <1>2, <1>3, <1>4, <1>5, <1>6

LEMMA ScrapeInv ==
    ASSUME IInv, NEW p \in Runs, NEW h \in Faculties, Scrape(p, h)
    PROVE  IInv'
<1> USE DEF IInv
<1>2. TypeOK'
  BY PipelineAssumption DEF TypeOK, Versions, Stages, Scrape, outside, files, Doing, Done
<1>3. LockInv'
  BY DEF LockInv, TypeOK, Stages, Scrape, outside, files, Doing, Done
<1>4. OrderInv'
  <2> SUFFICES ASSUME restarts' = 0, NEW f \in Faculties PROVE OrderAt(f)'
    BY DEF OrderInv
  <2>1. OrderAt(f)
    BY DEF OrderInv, Scrape, outside, files, Doing, Done
  <2>2. json'[f] = IF f = h THEN page[f] ELSE json[f]
    BY DEF TypeOK, Scrape
  <2>3. \A r \in Runs : f \in todo'[r] => f \in todo[r]
    BY DEF TypeOK, Scrape, Done
  <2> QED BY <2>1, <2>2, <2>3, Numbers DEF OrderAt, Scrape, outside
<1>5. CurrentInv'
  <2> SUFFICES ASSUME NEW r \in serving', NEW f \in Faculties PROVE CurrentAt(r, f)'
    BY DEF CurrentInv
  <2>1. r \in Runs /\ r \in serving /\ CurrentAt(r, f)
    BY DEF CurrentInv, TypeOK, Scrape, outside, files, Doing, Done
  <2> QED BY <2>1, Numbers DEF CurrentAt, TypeOK, LockInv, Scrape, outside, files, Doing, Done
<1>6. FreshInv'
  BY DEF FreshInv, TypeOK, Scrape, outside, files, Doing, Done
<1> QED BY <1>2, <1>3, <1>4, <1>5, <1>6

LEMMA LoadScrapersInv ==
    ASSUME IInv, NEW p \in Runs, LoadScrapers(p)
    PROVE  IInv'
<1> USE DEF IInv
<1>0. stage[p] \in Stages /\ stage[p] = "import"
  BY DEF LoadScrapers, Stages
<1>1. PICK bad \in SUBSET Faculties :
         /\ silent' = [silent EXCEPT ![p] = @ \cup bad]
         /\ \/ Exit(p, FALSE)
            \/ /\ stage' = [stage EXCEPT ![p] = "scrape"]
               /\ todo' = [todo EXCEPT ![p] = Faculties \ bad]
               /\ UNCHANGED <<alive, result>>
  BY DEF LoadScrapers, After
<1>2. UNCHANGED <<site, page, json, seed, db, mutex, serving, begun, restarts, got, failed, kept>>
  BY DEF LoadScrapers, outside, files
<1>3. silent' \in [Runs -> SUBSET Faculties]
  BY <1>1 DEF TypeOK
<1>4. CASE Exit(p, FALSE)
  <2>1. TypeOK'
    BY <1>0, <1>2, <1>3, <1>4, ExitType DEF TypeOK
  <2>2. LockInv'
    BY <1>0, <1>2, <1>4, ExitLock
  <2>3. \A q \in Runs : stage'[q] = "fetch" => q # p /\ stage[q] = "fetch" /\ todo'[q] = todo[q]
    BY <1>0, <1>4, ExitStage DEF After
  <2>4. OrderInv'
    BY <1>2, <2>3 DEF OrderInv, OrderAt
  <2>5. CurrentInv'
    <3> SUFFICES ASSUME NEW r \in serving', NEW f \in Faculties PROVE CurrentAt(r, f)'
      BY DEF CurrentInv
    <3>1. r \in Runs /\ r \in serving /\ CurrentAt(r, f)
      BY <1>2 DEF CurrentInv, TypeOK
    <3>2. r = p
      BY <1>0, <3>1 DEF LockInv
    <3>3. r \notin alive'
      BY <1>0, <1>4, <3>2, ExitStage
    <3> QED BY <1>2, <3>1, <3>3 DEF CurrentAt
  <2>6. FreshInv'
    BY <1>0, <1>2, <1>4, ExitFresh
  <2> QED BY <2>1, <2>2, <2>4, <2>5, <2>6
<1>5. CASE /\ stage' = [stage EXCEPT ![p] = "scrape"]
           /\ todo' = [todo EXCEPT ![p] = Faculties \ bad]
           /\ UNCHANGED <<alive, result>>
  <2>1. TypeOK'
    BY <1>2, <1>3, <1>5 DEF TypeOK, Stages
  <2>2. LockInv'
    BY <1>0, <1>2, <1>5 DEF LockInv, TypeOK, Stages
  <2>3. \A q \in Runs : stage'[q] = "fetch" => stage[q] = "fetch" /\ todo'[q] = todo[q]
    BY <1>0, <1>5 DEF TypeOK
  <2>4. OrderInv'
    BY <1>2, <2>3 DEF OrderInv, OrderAt
  <2>5. CurrentInv'
    <3> SUFFICES ASSUME NEW r \in serving', NEW f \in Faculties PROVE CurrentAt(r, f)'
      BY DEF CurrentInv
    <3>1. r \in Runs /\ r \in serving /\ CurrentAt(r, f)
      BY <1>2 DEF CurrentInv, TypeOK
    <3>2. r = p
      BY <1>0, <3>1 DEF LockInv
    <3>3. stage'[r] = "scrape" /\ todo'[r] = Faculties \ bad /\ silent'[r] = silent[r] \cup bad
      BY <1>1, <1>5, <3>1, <3>2 DEF TypeOK
    <3>4. f \in todo'[r] \/ f \in silent'[r]
      BY <3>3
    <3>5. f \in silent[r] => f \in silent'[r]
      BY <3>3
    <3> QED BY <1>0, <1>2, <1>5, <3>1, <3>2, <3>3, <3>4, <3>5 DEF CurrentAt
  <2>6. FreshInv'
    BY <1>0, <1>2, <1>5 DEF FreshInv, TypeOK
  <2> QED BY <2>1, <2>2, <2>4, <2>5, <2>6
<1> QED BY <1>1, <1>4, <1>5

LEMMA ScraperGivesUpInv ==
    ASSUME IInv, NEW p \in Runs, NEW h \in Faculties, ScraperGivesUp(p, h)
    PROVE  IInv'
<1> USE DEF IInv
<1>2. TypeOK'
  <2>1. failed' \in [Runs -> SUBSET Faculties] /\ silent' \in [Runs -> SUBSET Faculties]
    <3>1. failed \in [Runs -> SUBSET Faculties] /\ silent \in [Runs -> SUBSET Faculties]
      BY DEF TypeOK
    <3>2. \/ failed' = [failed EXCEPT ![p] = @ \cup {h}] /\ silent' = silent
          \/ silent' = [silent EXCEPT ![p] = @ \cup {h}] /\ failed' = failed
      BY DEF ScraperGivesUp
    <3> QED BY <3>1, <3>2
  <2>2. todo' \in [Runs -> SUBSET Faculties]
    BY DEF TypeOK, ScraperGivesUp, Done
  <2> QED BY <2>1, <2>2 DEF TypeOK, ScraperGivesUp, outside, files
<1>3. LockInv'
  BY DEF LockInv, TypeOK, Stages, ScraperGivesUp, outside, files, Doing, Done, Broken
<1>4. OrderInv'
  <2> SUFFICES ASSUME restarts' = 0, NEW f \in Faculties PROVE OrderAt(f)'
    BY DEF OrderInv
  <2>1. OrderAt(f)
    BY DEF OrderInv, ScraperGivesUp, outside, files, Doing, Done, Broken
  <2> QED BY <2>1, Numbers DEF OrderAt, Broken, TypeOK, ScraperGivesUp, outside, files, Doing, Done
<1>5. CurrentInv'
  <2> SUFFICES ASSUME NEW r \in serving', NEW f \in Faculties PROVE CurrentAt(r, f)'
    BY DEF CurrentInv
  <2>1. r \in Runs /\ r \in serving /\ CurrentAt(r, f)
    BY DEF CurrentInv, TypeOK, ScraperGivesUp, outside, files, Doing, Done, Broken
  <2>2. \/ failed' = [failed EXCEPT ![p] = @ \cup {h}] /\ silent' = silent
        \/ silent' = [silent EXCEPT ![p] = @ \cup {h}] /\ failed' = failed
    BY DEF ScraperGivesUp
  <2>3. stage[p] = "scrape" /\ todo' = [todo EXCEPT ![p] = @ \ {h}]
    BY DEF ScraperGivesUp, Doing, Done
  <2>4. r = p
    BY <2>1, <2>3 DEF LockInv, Stages
  <2>5. f = h => f \in failed'[r] \/ f \in silent'[r]
    <3>1. failed \in [Runs -> SUBSET Faculties] /\ silent \in [Runs -> SUBSET Faculties]
      BY DEF TypeOK
    <3> QED BY <2>2, <2>4, <3>1
  <2>6. f \in failed[r] => f \in failed'[r]
    BY <2>1, <2>2 DEF TypeOK
  <2>7. f \in silent[r] => f \in silent'[r]
    BY <2>1, <2>2 DEF TypeOK
  <2>8. f # h /\ f \in todo[r] => f \in todo'[r]
    BY <2>1, <2>3 DEF TypeOK
  <2> QED BY <2>1, <2>3, <2>4, <2>5, <2>6, <2>7, <2>8 DEF CurrentAt, ScraperGivesUp, outside, files
<1>6. FreshInv'
  BY DEF FreshInv, TypeOK, ScraperGivesUp, outside, files, Doing, Done, Broken
<1> QED BY <1>2, <1>3, <1>4, <1>5, <1>6

LEMMA ScraperBreaksInv ==
    ASSUME IInv, NEW p \in Runs, NEW h \in Faculties, ScraperBreaks(p, h)
    PROVE  IInv'
<1> USE DEF IInv
<1>2. TypeOK'
  <2>1. json' \in [Faculties -> 0..MaxVersion \cup {Broken}]
    BY DEF TypeOK, ScraperBreaks
  <2> QED BY <2>1 DEF TypeOK, ScraperBreaks, outside, Done
<1>3. LockInv'
  BY DEF LockInv, TypeOK, Stages, ScraperBreaks, outside, files, Doing, Done, Broken
<1>4. OrderInv'
  <2> SUFFICES ASSUME restarts' = 0, NEW f \in Faculties PROVE OrderAt(f)'
    BY DEF OrderInv
  <2>1. OrderAt(f)
    BY DEF OrderInv, ScraperBreaks, outside, files, Doing, Done, Broken
  <2>2. json'[f] = IF f = h THEN Broken ELSE json[f]
    BY DEF TypeOK, ScraperBreaks
  <2>3. \A r \in Runs : f \in todo'[r] => f \in todo[r]
    BY DEF TypeOK, ScraperBreaks, Done
  <2>4. Broken <= page[f]
    BY Numbers DEF Broken
  <2>5. UNCHANGED <<site, page, seed, db, stage, got>>
    BY DEF ScraperBreaks, outside
  <2> QED BY <2>1, <2>2, <2>3, <2>4, <2>5 DEF OrderAt
<1>5. CurrentInv'
  <2> SUFFICES ASSUME NEW r \in serving', NEW f \in Faculties PROVE CurrentAt(r, f)'
    BY DEF CurrentInv
  <2>1. r \in Runs /\ r \in serving /\ CurrentAt(r, f)
    BY DEF CurrentInv, TypeOK, ScraperBreaks, outside, files, Doing, Done, Broken
  <2> QED BY <2>1, Numbers DEF CurrentAt, TypeOK, LockInv, ScraperBreaks, outside, files, Doing,
        Done, Broken
<1>6. FreshInv'
  BY DEF FreshInv, TypeOK, ScraperBreaks, outside, files, Doing, Done, Broken
<1> QED BY <1>2, <1>3, <1>4, <1>5, <1>6

-----------------------------------------------------------------------------
LEMMA NextInv == IInv /\ [Next]_vars => IInv'
<1> SUFFICES ASSUME IInv, [Next]_vars PROVE IInv'
  OBVIOUS
<1>1. CASE Next
  <2>1. ASSUME NEW p \in Runs, Child(p) PROVE IInv'
    BY <2>1, DownloadInv, SavePageInv, KeepPageInv, FetchFailsInv, ScrapeInv, LoadScrapersInv,
       ScraperGivesUpInv, ScraperBreaksInv, FetchExitInv, ScrapeExitInv, GenerateInv, SeedInv
       DEF Child
  <2>2. ASSUME NEW p \in Runs, RunLocked(p) PROVE IInv'
    BY <2>2, NoPythonInv, PythonInv, ReturnInv DEF RunLocked
  <2> QED BY <1>1, <2>1, <2>2, RestartInv, ChangeInv, PostInv, TimeoutInv DEF Next
<1>2. CASE UNCHANGED vars
  BY <1>2 DEF vars, files, process, work, IInv, TypeOK, LockInv, OrderInv, OrderAt, CurrentInv,
              CurrentAt, FreshInv
<1> QED BY <1>1, <1>2

LEMMA Invariance == Spec => []IInv
<1> QED BY InitInv, NextInv, PTL DEF Spec

(* TypeOK: every variable has its type. *)
THEOREM TypeCorrect == Spec => []TypeOK
<1>1. IInv => TypeOK
  BY DEF IInv
<1> QED BY <1>1, Invariance, PTL

(* OneChild: the page files, the JSON files, db/seed.sql and the database  *)
(* are written by the child of one request at a time, whether its python   *)
(* lives or the timeout has killed it.                                     *)
THEOREM OneWriter == Spec => []OneChild
<1>1. IInv => OneChild
  BY DEF IInv, LockInv, OneChild
<1> QED BY <1>1, Invariance, PTL

(* FinishedIsCurrent: after an exit code 0 of the pipeline, unless the load *)
(* has failed silently over the emptied tables, the database has the       *)
(* timetables of the time of the request, or newer ones, of every faculty  *)
(* but those whose page the guard kept and those whose scraper was left    *)
(* out or gave up.                                                         *)
THEOREM SuccessIsCurrent == Spec => FinishedIsCurrent
<1> DEFINE A == \A r \in Runs : result[r] = "" /\ result'[r] = "ok" =>
                   \/ db' = Nothing
                   \/ \A f \in Faculties \ (kept[r] \cup silent[r]) : db'[f] >= begun[r][f]
<1>1. IInv /\ [Next]_vars => A
  <2> SUFFICES ASSUME IInv, [Next]_vars, NEW r \in Runs, result[r] = "", result'[r] = "ok",
                      db' # Nothing, NEW f \in Faculties \ (kept[r] \cup silent[r])
               PROVE  db'[f] >= begun[r][f]
    OBVIOUS
  <2> USE DEF IInv
  <2>1. ~UNCHANGED result
    OBVIOUS
  <2>2. PICK p \in Runs : \/ FetchExit(p) \/ LoadScrapers(p) \/ ScrapeExit(p)
                         \/ Generate(p) \/ Seed(p)
    <3>1. Next
      BY <2>1 DEF vars, process
    <3>2. ~Restart /\ ~\E h \in Faculties : Change(h)
      BY <2>1 DEF Restart, Change, process
    <3>3. PICK p \in Runs : Post(p) \/ RunLocked(p) \/ Timeout(p) \/ Child(p)
      BY <3>1, <3>2 DEF Next
    <3>4. ~Post(p) /\ ~RunLocked(p) /\ ~Timeout(p)
      BY <2>1 DEF Post, RunLocked, NoPython, Python, Return, Timeout
    <3>5. ASSUME NEW h \in Faculties
          PROVE  /\ ~Download(p, h) /\ ~SavePage(p, h) /\ ~KeepPage(p, h) /\ ~FetchFails(p, h)
                 /\ ~Scrape(p, h) /\ ~ScraperGivesUp(p, h) /\ ~ScraperBreaks(p, h)
      BY <2>1 DEF Download, SavePage, KeepPage, FetchFails, Scrape, ScraperGivesUp, ScraperBreaks
    <3> QED BY <3>3, <3>4, <3>5 DEF Child
  <2>3. stage[p] \in Stages
    BY <2>2 DEF FetchExit, LoadScrapers, ScrapeExit, Generate, Seed, Stages
  <2>4. PICK ok \in BOOLEAN : Exit(p, ok) /\ (Seed(p) /\ ok => db' \in {seed, Nothing})
    BY <2>1, <2>2 DEF FetchExit, LoadScrapers, ScrapeExit, Generate, Seed
  <2>5. r = p /\ stage[p] = "seed" /\ ok /\ p \in alive
    BY <2>3, <2>4, ExitStage
  <2>6. db' = seed
    BY <2>2, <2>4, <2>5 DEF FetchExit, LoadScrapers, ScrapeExit, Generate
  <2>7. CurrentAt(r, f)
    BY <2>3, <2>5 DEF LockInv, CurrentInv
  <2> QED BY <2>5, <2>6, <2>7 DEF CurrentAt
<1>2. IInv /\ [Next]_vars => [A]_vars
  BY <1>1
<1> QED BY <1>2, Invariance, PTL DEF Spec, FinishedIsCurrent

(* NeverBackwards: while the disk keeps its files, no run, whatever fails  *)
(* in it, replaces rows of a faculty by those of an older timetable.       *)
THEOREM RowsGoForward == Spec => NeverBackwards
<1> DEFINE A == restarts = 0 => \A f \in Faculties : db'[f] >= db[f] \/ db' = Nothing
<1>1. IInv /\ [Next]_vars => A
  <2> SUFFICES ASSUME IInv, [Next]_vars, restarts = 0, NEW f \in Faculties
               PROVE  db'[f] >= db[f] \/ db' = Nothing
    OBVIOUS
  <2>1. CASE UNCHANGED db
    BY <2>1, Numbers DEF IInv
  <2>2. CASE \E p \in Runs : Seed(p)
    <3>1. db' \in {seed, db, Nothing}
      BY <2>2 DEF Seed
    <3> QED BY <3>1, Numbers DEF IInv, OrderInv, OrderAt
  <2>3. UNCHANGED db \/ \E p \in Runs : Seed(p)
    <3>1. UNCHANGED vars => UNCHANGED db
      BY DEF vars, files
    <3>2. Restart \/ (\E h \in Faculties : Change(h)) => UNCHANGED db
      BY DEF Restart, Change, files
    <3>3. \A p \in Runs : Post(p) \/ RunLocked(p) \/ Timeout(p) => UNCHANGED db
      BY DEF Post, RunLocked, NoPython, Python, Return, Timeout, files
    <3>4. \A p \in Runs, h \in Faculties :
             \/ Download(p, h) \/ SavePage(p, h) \/ KeepPage(p, h) \/ FetchFails(p, h)
             \/ Scrape(p, h) \/ ScraperGivesUp(p, h) \/ ScraperBreaks(p, h)
             => UNCHANGED db
      BY DEF Download, SavePage, KeepPage, FetchFails, Scrape, ScraperGivesUp, ScraperBreaks,
             files
    <3>5. \A p \in Runs : FetchExit(p) \/ LoadScrapers(p) \/ ScrapeExit(p) \/ Generate(p)
                         => UNCHANGED db
      BY DEF FetchExit, LoadScrapers, ScrapeExit, Generate, files
    <3>6. \A p \in Runs : Child(p) => UNCHANGED db \/ Seed(p)
      BY <3>4, <3>5 DEF Child
    <3> QED BY <3>1, <3>2, <3>3, <3>6 DEF Next
  <2> QED BY <2>1, <2>2, <2>3
<1>2. IInv /\ [Next]_vars => [A]_vars
  BY <1>1
<1> QED BY <1>2, Invariance, PTL DEF Spec, NeverBackwards
=============================================================================
