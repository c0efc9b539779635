--------------------------- MODULE PageFetchProofs ---------------------------
(***************************************************************************)
(* What holds of fetch_page_sources.py for any pages, answers of the site, *)
(* ratio and size to protect, and any number of runs.                      *)
(***************************************************************************)
EXTENDS PageFetch, TLAPS

(* A stem that the run has not replaced has the file of the beginning. *)
FilesInv == exit # Killed => \A f \in Stems \ written : disk[f] = before[f]

(* What was asked for is to do, or counted in one way. *)
CountsInv ==
    /\ exit = Running => opts.asked = {f \in Stems : todo[f] > 0} \cup failed \cup kept \cup written
    /\ ExitTruthful

IInv == TypeOK /\ FilesInv /\ CountsInv /\ StillGuarded

-----------------------------------------------------------------------------
(* The guard *)

LEMMA PagesHaveRows ==
    ASSUME NEW page \in Downloads \cup {NoPage}, page # NoPage
    PROVE  page \in Page /\ page.rows \in Nat /\ page.stub \in BOOLEAN /\ page.cancelled \in Nat
<1>1. page \in Page
  BY FetchAssumption
<1> QED BY <1>1 DEF Page

(* A page without rows is not let through against one that has some. *)
LEMMA EmptyIsPreserved ==
    ASSUME NEW old \in Page, NEW new \in Page, NEW tie \in BOOLEAN,
           old.rows > 0, ~ShouldPreserve(old, new, tie)
    PROVE  new.rows > 0
<1>1. new.rows # 0
  BY DEF ShouldPreserve
<1> QED BY <1>1 DEF Page

LEMMA ProductsGrow == ASSUME NEW a \in Nat, NEW b \in Nat, NEW c \in Nat, a <= b
                      PROVE  a * c <= b * c
  OBVIOUS

LEMMA ProductsGrowBack == ASSUME NEW a \in Nat, NEW b \in Nat, NEW c \in Nat \ {0}, a * c <= b * c
                          PROVE  a <= b
<1> SUFFICES ASSUME b + 1 <= a PROVE FALSE
  OBVIOUS
<1>1. (b + 1) * c <= a * c
  BY ProductsGrow
<1> QED BY <1>1

(* A page that owes no more than the protected size is protected. *)
LEMMA OwedIsProtected ==
    ASSUME NEW rows \in Nat, NEW least \in Nat, NEW scale \in Nat \ {0},
           rows * scale >= least, least >= MinPrior * scale
    PROVE  rows >= MinPrior
<1>1. MinPrior \in Nat
  BY FetchAssumption
<1>2. MinPrior * scale <= rows * scale
  <2>1. rows * scale \in Nat /\ MinPrior * scale \in Nat
    BY <1>1
  <2> QED BY <2>1
<1> QED BY <1>1, <1>2, ProductsGrowBack

(* A page that the guard lets through against a protected one has Ratio of *)
(* its rows.                                                               *)
LEMMA RatioIsKept ==
    ASSUME NEW old \in Page, NEW new \in Page, NEW tie \in BOOLEAN,
           old.rows > 0, old.rows >= MinPrior, ~BypassForCancellations(old, new),
           ~ShouldPreserve(old, new, tie)
    PROVE  new.rows * 100 >= old.rows * Ratio
<1>1. ~BelowRatio(old, new, tie)
  BY DEF ShouldPreserve
<1>2. old.rows \in Nat /\ new.rows \in Nat /\ Ratio \in 1..100
  BY FetchAssumption DEF Page
<1>3. old.rows * Ratio \in Int /\ new.rows * 100 \in Int
  BY <1>2
<1> QED BY <1>1, <1>3 DEF BelowRatio

(* What is left of a promise after one more loss is what is left of the    *)
(* page.                                                                   *)
LEMMA LossesAddUp ==
    ASSUME NEW old \in Nat, NEW new \in Nat, NEW least \in Nat, NEW scale \in Nat \ {0},
           old * scale >= least, new * 100 >= old * Ratio
    PROVE  new * (scale * 100) >= least * Ratio
<1>1. Ratio \in Nat /\ scale \in Nat
  BY FetchAssumption
<1>2. old * Ratio \in Nat /\ new * 100 \in Nat /\ old * scale \in Nat
  BY <1>1
<1>3. (old * Ratio) * scale <= (new * 100) * scale
  BY <1>1, <1>2, ProductsGrow
<1>4. least * Ratio <= (old * scale) * Ratio
  BY <1>1, <1>2, ProductsGrow
<1>5. (new * 100) * scale = new * (scale * 100) /\ (old * Ratio) * scale = (old * scale) * Ratio
  BY <1>1
<1>6. /\ (old * Ratio) * scale \in Nat /\ new * (scale * 100) \in Nat
      /\ least * Ratio \in Nat
  BY <1>1
<1> QED BY <1>3, <1>4, <1>5, <1>6

Promise(page, o) == page # NoPage /\ o.least >= MinPrior * o.scale =>
                       page.rows * o.scale >= o.least /\ page.rows >= MinPrior

LEMMA AnewPromises ==
    ASSUME NEW page \in Downloads \cup {NoPage}
    PROVE  Anew(page) \in [least : Nat, scale : Nat \ {0}] /\ Promise(page, Anew(page))
<1>1. CASE page = NoPage
  BY <1>1 DEF Anew, Promise
<1>2. CASE page # NoPage
  <2>1. page.rows \in Nat /\ MinPrior \in Nat
    BY <1>2, PagesHaveRows, FetchAssumption
  <2>2. Anew(page) = [least |-> page.rows, scale |-> 1]
    BY <1>2 DEF Anew
  <2> QED BY <2>1, <2>2 DEF Promise
<1> QED BY <1>1, <1>2

(* A page that is let through is worth what it owes. *)
LEMMA OwesPromises ==
    ASSUME TypeOK, NEW f \in Stems, NEW new \in Downloads, NEW readable \in BOOLEAN,
           NEW tie \in BOOLEAN, ~KeepsPrior(f, new, readable, tie),
           Promise(disk[f], owed[f])
    PROVE  /\ Owes(f, new, readable) \in [least : Nat, scale : Nat \ {0}]
           /\ Promise(new, Owes(f, new, readable))
<1> DEFINE old == disk[f]
           o == owed[f]
<1>1. o \in [least : Nat, scale : Nat \ {0}] /\ old \in Downloads \cup {NoPage}
  BY DEF TypeOK
<1>2. /\ o.least \in Nat /\ o.scale \in Nat \ {0} /\ MinPrior \in Nat /\ Ratio \in Nat
      /\ Ratio <= 100 /\ new \in Page /\ new.rows \in Nat /\ new # NoPage
  BY <1>1, FetchAssumption DEF Page
<1>3. CASE \/ ~Compares(f, readable)
           \/ BypassForCancellations(old, new)
           \/ new.rows > old.rows
  <2>1. Owes(f, new, readable) = Anew(new)
    BY <1>3 DEF Owes
  <2> QED BY <2>1, AnewPromises
<1>4. ASSUME Compares(f, readable), ~BypassForCancellations(old, new), ~(new.rows > old.rows)
      PROVE  /\ Owes(f, new, readable) \in [least : Nat, scale : Nat \ {0}]
             /\ Promise(new, Owes(f, new, readable))
  <2>1. old # NoPage /\ old \in Page /\ old.rows \in Nat
    BY <1>1, <1>4, PagesHaveRows DEF Compares
  <2>2. ~ShouldPreserve(old, new, tie)
    BY <1>4 DEF KeepsPrior
  <2>3. CASE new.rows = old.rows
    <3>1. Owes(f, new, readable) = o
      BY <1>4, <2>3 DEF Owes
    <3> QED BY <1>1, <2>1, <2>3, <3>1 DEF Promise
  <2>4. CASE new.rows < old.rows /\ o.least < MinPrior * o.scale
    <3>1. Owes(f, new, readable) = o
      BY <1>4, <2>4 DEF Owes
    <3>2. MinPrior * o.scale \in Nat
      BY <1>2
    <3> QED BY <1>1, <1>2, <2>4, <3>1, <3>2 DEF Promise
  <2>5. CASE new.rows < old.rows /\ ~(o.least < MinPrior * o.scale)
    <3>1. Owes(f, new, readable) = [least |-> o.least * Ratio, scale |-> o.scale * 100]
      BY <1>2, <1>4, <2>1, <2>5 DEF Owes
    <3>2. o.least * Ratio \in Nat /\ o.scale * 100 \in Nat \ {0} /\ MinPrior * o.scale \in Nat
      BY <1>2
    <3>3. o.least >= MinPrior * o.scale
      BY <1>2, <2>5, <3>2
    <3>4. old.rows * o.scale >= o.least /\ old.rows >= MinPrior
      BY <2>1, <3>3 DEF Promise
    <3>5. new.rows * 100 >= old.rows * Ratio
      <4>1. old.rows > 0
        BY <1>2, <2>1, <2>5
      <4> QED BY <1>2, <1>4, <2>1, <2>2, <3>4, <4>1, RatioIsKept
    <3>6. new.rows * (o.scale * 100) >= o.least * Ratio
      BY <1>2, <2>1, <3>4, <3>5, LossesAddUp
    <3>7. o.least * Ratio >= MinPrior * (o.scale * 100) => new.rows >= MinPrior
      BY <1>2, <3>2, <3>6, OwedIsProtected
    <3> QED BY <3>1, <3>2, <3>6, <3>7 DEF Promise
  <2> QED BY <1>2, <1>4, <2>1, <2>3, <2>4, <2>5
<1> QED BY <1>3, <1>4

-----------------------------------------------------------------------------
LEMMA InitInv == Init => IInv
<1> SUFFICES ASSUME Init PROVE IInv
  OBVIOUS
<1>1. \A f \in Stems : /\ Anew(disk[f]) \in [least : Nat, scale : Nat \ {0}]
                       /\ Promise(disk[f], Anew(disk[f]))
  BY AnewPromises DEF Init
<1>2. TypeOK
  BY <1>1, FetchAssumption DEF Init, TypeOK
<1>3. FilesInv
  BY DEF Init, FilesInv
<1>4. CountsInv
  BY DEF Init, CountsInv, ExitTruthful, Running
<1>5. StillGuarded
  BY <1>1 DEF Init, StillGuarded, Promise
<1> QED BY <1>2, <1>3, <1>4, <1>5 DEF IInv

LEMMA StartInv == IInv /\ Start => IInv'
<1> SUFFICES ASSUME IInv, Start PROVE IInv'
  OBVIOUS
<1>1. PICK times \in [Stems -> 0..MaxTimes], override \in BOOLEAN, strict \in BOOLEAN :
         /\ opts' = [asked |-> {f \in Stems : times[f] > 0},
                     override |-> override, strict |-> strict]
         /\ todo' = times
  BY DEF Start
<1>2. TypeOK'
  BY <1>1, FetchAssumption DEF IInv, TypeOK, Start
<1>3. FilesInv'
  BY DEF Start, FilesInv
<1>4. CountsInv'
  <2>1. opts'.asked = {f \in Stems : todo'[f] > 0}
    BY <1>1
  <2> QED BY <2>1 DEF Start, CountsInv, ExitTruthful, Running, Killed
<1>5. StillGuarded'
  BY DEF IInv, StillGuarded, Start
<1> QED BY <1>2, <1>3, <1>4, <1>5 DEF IInv

(* An iteration of the loop takes one turn of one stem. *)
LEMMA HandleTurns ==
    ASSUME TypeOK, NEW f \in Stems, Handle(f)
    PROVE  /\ todo' \in [Stems -> 0..MaxTimes]
           /\ {g \in Stems : todo[g] > 0} \subseteq {g \in Stems : todo'[g] > 0} \cup {f}
           /\ {g \in Stems : todo'[g] > 0} \subseteq {g \in Stems : todo[g] > 0}
<1>1. todo[f] - 1 \in 0..MaxTimes /\ todo[f] \in Nat
  BY FetchAssumption DEF TypeOK, Handle
<1>2. todo' = [todo EXCEPT ![f] = todo[f] - 1] /\ todo[f] > 0
  BY DEF Handle
<1> QED BY <1>1, <1>2 DEF TypeOK

(* What a run asked for stays accounted for when a stem is counted. *)
LEMMA AskedStays ==
    ASSUME IInv, NEW f \in Stems, Handle(f), exit' = Running, opts' = opts,
           failed' \cup kept' \cup written' = failed \cup kept \cup written \cup {f}
    PROVE  CountsInv'
<1>1. opts.asked = {g \in Stems : todo[g] > 0} \cup failed \cup kept \cup written
  BY DEF IInv, CountsInv, Handle
<1>2. f \in opts.asked
  BY <1>1 DEF Handle
<1>3. opts'.asked = {g \in Stems : todo'[g] > 0} \cup failed' \cup kept' \cup written'
  BY <1>1, <1>2, HandleTurns DEF IInv
<1> QED BY <1>3 DEF CountsInv, ExitTruthful, Running, Killed

LEMMA FetchErrorInv ==
    ASSUME IInv, NEW f \in Stems, FetchError(f)
    PROVE  IInv'
<1>1. TypeOK'
  BY HandleTurns DEF IInv, TypeOK, FetchError, progress, history
<1>2. FilesInv'
  BY DEF IInv, FilesInv, FetchError, progress, history
<1>3. CountsInv'
  BY AskedStays DEF FetchError, Handle, progress, history
<1>4. StillGuarded'
  BY DEF IInv, StillGuarded, FetchError, history
<1> QED BY <1>1, <1>2, <1>3, <1>4 DEF IInv

LEMMA KeepPriorInv ==
    ASSUME IInv, NEW f \in Stems, NEW new \in Downloads, NEW readable \in BOOLEAN,
           KeepPrior(f, new, readable)
    PROVE  IInv'
<1>1. TypeOK'
  BY HandleTurns DEF IInv, TypeOK, KeepPrior, NoteRead, progress
<1>2. FilesInv'
  BY DEF IInv, FilesInv, KeepPrior, progress
<1>3. CountsInv'
  BY AskedStays DEF KeepPrior, Handle, progress
<1>4. StillGuarded'
  BY DEF IInv, StillGuarded, KeepPrior
<1> QED BY <1>1, <1>2, <1>3, <1>4 DEF IInv

(* A file that is replaced owes what the new page is worth, the others     *)
(* what they owed.                                                         *)
LEMMA WrittenIsGuarded ==
    ASSUME IInv, NEW f \in Stems, NEW page \in Downloads, NEW o,
           disk' = [disk EXCEPT ![f] = page], owed' = [owed EXCEPT ![f] = o],
           Promise(page, o)
    PROVE  StillGuarded'
<1>1. disk'[f] = page /\ owed'[f] = o
  BY DEF IInv, TypeOK
<1>2. \A g \in Stems \ {f} : disk'[g] = disk[g] /\ owed'[g] = owed[g]
  BY DEF IInv, TypeOK
<1> QED BY <1>1, <1>2 DEF IInv, StillGuarded, Promise

LEMMA OverwriteInv ==
    ASSUME IInv, NEW f \in Stems, NEW new \in Downloads, NEW readable \in BOOLEAN,
           Overwrite(f, new, readable)
    PROVE  IInv'
<1>1. PICK tie \in BOOLEAN : ~KeepsPrior(f, new, readable, tie)
  BY DEF Overwrite
<1>2. /\ Owes(f, new, readable) \in [least : Nat, scale : Nat \ {0}]
      /\ Promise(new, Owes(f, new, readable))
  <2>1. TypeOK /\ Promise(disk[f], owed[f])
    BY DEF IInv, StillGuarded, Promise
  <2> QED BY <1>1, <2>1, OwesPromises
<1>3. TypeOK'
  <2>1. disk' \in [Stems -> Downloads \cup {NoPage}]
    BY DEF IInv, TypeOK, Overwrite
  <2>2. owed' \in [Stems -> [least : Nat, scale : Nat \ {0}]]
    BY <1>2 DEF IInv, TypeOK, Overwrite
  <2> QED BY <2>1, <2>2, HandleTurns DEF IInv, TypeOK, Overwrite, NoteRead, progress
<1>4. FilesInv'
  BY DEF IInv, TypeOK, FilesInv, Overwrite, Handle, progress, Running, Killed
<1>5. CountsInv'
  BY AskedStays DEF Overwrite, Handle, progress
<1>6. StillGuarded'
  BY <1>2, WrittenIsGuarded DEF Overwrite
<1> QED BY <1>3, <1>4, <1>5, <1>6 DEF IInv

LEMMA CutOffInv ==
    ASSUME IInv, NEW f \in Stems, NEW new \in Downloads, NEW part \in Downloads,
           NEW readable \in BOOLEAN, CutOff(f, new, part, readable)
    PROVE  IInv'
<1>1. TypeOK'
  <2>1. disk' \in [Stems -> Downloads \cup {NoPage}]
    BY DEF IInv, TypeOK, CutOff
  <2>2. owed' \in [Stems -> [least : Nat, scale : Nat \ {0}]]
    BY AnewPromises DEF IInv, TypeOK, CutOff
  <2> QED BY <2>1, <2>2, HandleTurns DEF IInv, TypeOK, CutOff, NoteRead, progress
<1>2. FilesInv'
  BY DEF FilesInv, CutOff
<1>3. CountsInv'
  BY DEF CountsInv, ExitTruthful, Running, Killed, CutOff
<1>4. StillGuarded'
  BY AnewPromises, WrittenIsGuarded DEF CutOff
<1> QED BY <1>1, <1>2, <1>3, <1>4 DEF IInv

LEMMA AbortInv == IInv /\ Abort => IInv'
<1> SUFFICES ASSUME IInv, Abort PROVE IInv'
  OBVIOUS
<1>1. TypeOK'
  BY DEF IInv, TypeOK, Abort, progress, history
<1>2. FilesInv'
  BY DEF FilesInv, Abort
<1>3. CountsInv'
  BY DEF CountsInv, ExitTruthful, Running, Killed, Abort
<1>4. StillGuarded'
  BY DEF IInv, StillGuarded, Abort, history
<1> QED BY <1>1, <1>2, <1>3, <1>4 DEF IInv

LEMMA FinishInv == IInv /\ Finish => IInv'
<1> SUFFICES ASSUME IInv, Finish PROVE IInv'
  OBVIOUS
<1>1. exit' \in {0, 1, 3}
  BY DEF Finish, ExitCode
<1>2. TypeOK'
  BY <1>1 DEF IInv, TypeOK, Finish, progress, history
<1>3. FilesInv'
  BY DEF IInv, FilesInv, Finish, Running, Killed, progress, history
<1>4. CountsInv'
  <2>1. /\ opts.asked = failed \cup kept \cup written
        /\ opts' = opts /\ kept' = kept /\ failed' = failed /\ written' = written
    BY DEF IInv, CountsInv, TypeOK, Finish, progress, history
  <2>2. exit' = 1 <=> failed # {}
    BY DEF Finish, ExitCode
  <2>3. exit' = 3 <=> failed = {} /\ kept # {} /\ opts.strict
    BY DEF Finish, ExitCode
  <2> QED BY <1>1, <2>1, <2>2, <2>3 DEF CountsInv, ExitTruthful, Running, Killed
<1>5. StillGuarded'
  BY DEF IInv, StillGuarded, Finish, history
<1> QED BY <1>2, <1>3, <1>4, <1>5 DEF IInv

LEMMA StepInv == IInv /\ [Next]_vars => IInv'
<1> SUFFICES ASSUME IInv, [Next]_vars PROVE IInv'
  OBVIOUS
<1>1. CASE Start
  BY <1>1, StartInv
<1>2. CASE Abort
  BY <1>2, AbortInv
<1>3. CASE Finish
  BY <1>3, FinishInv
<1>4. ASSUME NEW f \in Stems, FetchStem(f) PROVE IInv'
  BY <1>4, FetchErrorInv, KeepPriorInv, OverwriteInv, CutOffInv DEF FetchStem
<1>5. CASE UNCHANGED vars
  BY <1>5 DEF IInv, TypeOK, FilesInv, CountsInv, ExitTruthful, StillGuarded, vars, history
<1> QED BY <1>1, <1>2, <1>3, <1>4, <1>5 DEF Next

THEOREM Invariance == Spec => []IInv
<1> QED BY InitInv, StepInv, PTL DEF Spec

-----------------------------------------------------------------------------
(* Every variable of the fetcher keeps its type (main and                  *)
(* _fetch_files_for_term).                                                 *)
THEOREM TypeCorrect == Spec => []TypeOK
<1>1. IInv => TypeOK
  BY DEF IInv
<1> QED BY <1>1, Invariance, PTL

(* Whatever the site answers, in any number of runs, a timetable has the   *)
(* rows that the losses the guard tolerates have left of it, as long as    *)
(* they are as many as the guard protects.                                 *)
THEOREM TimetablesStayGuarded == Spec => []StillGuarded
<1>1. IInv => StillGuarded
  BY DEF IInv
<1> QED BY <1>1, Invariance, PTL

(* The exit code tells whether a page failed or was kept. *)
THEOREM ExitCodeIsTrue == Spec => []ExitTruthful
<1>1. IInv => ExitTruthful
  BY DEF IInv, CountsInv
<1> QED BY <1>1, Invariance, PTL

(* A file that the run does not report as written is as it was. *)
THEOREM OthersAreUntouched == Spec => []OnlyWrittenChange
<1>1. IInv => OnlyWrittenChange
  BY DEF IInv, FilesInv, OnlyWrittenChange
<1> QED BY <1>1, Invariance, PTL

(* No run that may not overwrite, whose writes are not cut off and that can *)
(* read the file turns a page with rows into one without.                  *)
THEOREM TimetablesAreNeverEmptied == Spec => NeverEmptied
<1>1. IInv /\ [Next]_vars =>
         [\A f \in Stems : HasRows(disk[f]) =>
             HasRows(disk'[f]) \/ exit' = Killed \/ opts.override \/ f \in unread']_vars
  <2> SUFFICES ASSUME IInv, Next, NEW f \in Stems, HasRows(disk[f]), exit' # Killed,
                      ~opts.override, f \notin unread'
               PROVE  HasRows(disk'[f])
    OBVIOUS
  <2>1. CASE disk' = disk
    BY <2>1
  <2>2. ASSUME NEW g \in Stems, NEW new \in Downloads, NEW readable \in BOOLEAN,
               Overwrite(g, new, readable)
        PROVE  HasRows(disk'[f])
    <3>1. CASE g # f
      BY <2>2, <3>1 DEF Overwrite, IInv, TypeOK, HasRows
    <3>2. CASE g = f
      <4>1. disk'[f] = new
        BY <2>2, <3>2 DEF Overwrite, IInv, TypeOK
      <4>2. disk[f] # NoPage /\ disk[f].rows > 0 /\ disk[f] \in Downloads \cup {NoPage}
        BY DEF HasRows, IInv, TypeOK
      <4>3. readable
        BY <2>2, <3>2, <4>2 DEF Overwrite, NoteRead
      <4>4. PICK tie \in BOOLEAN : ~ShouldPreserve(disk[f], new, tie)
        BY <2>2, <3>2, <4>2, <4>3 DEF Overwrite, KeepsPrior, Compares
      <4>5. disk[f] \in Page /\ new \in Page /\ new # NoPage
        BY <4>2, FetchAssumption
      <4>6. new.rows > 0
        BY <4>2, <4>4, <4>5, EmptyIsPreserved
      <4> QED BY <4>1, <4>5, <4>6 DEF HasRows
    <3> QED BY <3>1, <3>2
  <2>3. ASSUME NEW g \in Stems, FetchStem(g) PROVE HasRows(disk'[f])
    <3>1. CASE FetchError(g)
      BY <2>1, <3>1 DEF FetchError
    <3>2. ASSUME NEW new \in Downloads, NEW readable \in BOOLEAN, KeepPrior(g, new, readable)
          PROVE  HasRows(disk'[f])
      BY <2>1, <3>2 DEF KeepPrior
    <3>3. ASSUME NEW new \in Downloads, NEW part \in Downloads, NEW readable \in BOOLEAN,
                 CutOff(g, new, part, readable)
          PROVE  FALSE
      BY <3>3 DEF CutOff
    <3> QED BY <2>2, <2>3, <3>1, <3>2, <3>3 DEF FetchStem
  <2>4. CASE Start \/ Abort \/ Finish
    BY <2>1, <2>4 DEF Start, Abort, Finish
  <2> QED BY <2>3, <2>4 DEF Next
<1> QED BY <1>1, Invariance, PTL DEF Spec, NeverEmptied
=============================================================================
