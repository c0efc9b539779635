------------------------------ MODULE PageFetch ------------------------------
(***************************************************************************)
(* scripts/fetch_page_sources.py: download the timetable page of every     *)
(* faculty and keep it in scraping/page_source, unless the page on disk    *)
(* looks better (the "page_source guard").                                 *)
(*                                                                         *)
(* A page is what the guard reads of it: its number of <tr>, whether it    *)
(* has the text of a stub, and how often it speaks of cancellations.  A    *)
(* login page that is not recognised as one (the check reads the bytes     *)
(* before they are converted from UTF-16) is a page without rows.  The     *)
(* order of the stems and the pause between requests are left out.         *)
(***************************************************************************)
EXTENDS Integers, FiniteSets

CONSTANTS Stems,     \* the pages of the catalog map: term/stem
          Downloads, \* what the site may answer with
          NoPage,    \* no file
          Ratio,     \* PAGE_SOURCE_REGRESSION_RATIO, in percent
          MinPrior,  \* PAGE_SOURCE_REGRESSION_MIN_PRIOR
          MaxTimes,  \* bound on the times --term names a term
          MaxRuns    \* bound on the runs of the script

Running == -1   \* no exit code yet
Killed == -2    \* ended without one of main()

Page == [rows : Nat, stub : BOOLEAN, cancelled : Nat]

ASSUME FetchAssumption ==
    /\ Downloads \subseteq Page
    /\ NoPage \notin Page
    /\ Ratio \in 1..100 /\ MinPrior \in Nat
    /\ MaxTimes \in Nat /\ MaxRuns \in Nat

VARIABLES disk,    \* the file of each stem
          opts,    \* command line and environment of the run
          todo,    \* how often each stem is still to be fetched
          failed,  \* stems counted in errors
          kept,    \* stems counted in guard_skips
          exit,    \* exit code of the last run
          runs,    \* runs begun
          before,  \* history: the files when the run began
          written, \* history: stems whose file the run has replaced
          unread,  \* history: stems whose file was there, but could not be read
          owed     \* history: [least, scale], the rows that the losses the guard
                   \* tolerates have left of each file: least / scale

history == <<written, unread, owed>>
vars == <<disk, opts, todo, failed, kept, exit, runs, before, history>>
progress == <<opts, runs, before>>

(* A file whose rows owe nothing to the guard. *)
Anew(page) == [least |-> IF page = NoPage THEN 0 ELSE page.rows, scale |-> 1]

Init == /\ disk \in [Stems -> Downloads \cup {NoPage}]
        /\ opts = [asked |-> {}, override |-> FALSE, strict |-> FALSE]
        /\ todo = [f \in Stems |-> 0]
        /\ failed = {} /\ kept = {} /\ written = {} /\ unread = {}
        /\ exit = 0
        /\ runs = 0
        /\ before = disk
        /\ owed = [f \in Stems |-> Anew(disk[f])]

Larger(a, b) == IF a > b THEN a ELSE b

-----------------------------------------------------------------------------
(* "If the new HTML has enough cancellation language on a non-tiny page,   *)
(* accept the update."                                                     *)
BypassForCancellations(old, new) ==
    /\ new.rows >= 12 /\ new.cancelled >= 8
    /\ \/ new.cancelled >= Larger(16, old.rows \div 35)
       \/ new.rows * 100 >= old.rows * 30 /\ new.cancelled >= 14

(* new_tr < old_tr * min_ratio, a product of floats: 100 * 0.55 is a       *)
(* little more than 55.  A tie goes either way.                            *)
BelowRatio(old, new, tie) == \/ new.rows * 100 < old.rows * Ratio
                             \/ tie /\ new.rows * 100 = old.rows * Ratio

(* Mutant of ShouldPreserve: the size of the wrong page decides whether    *)
(* the ratio applies.                                                      *)
ShouldPreserveBySmallNew(old, new, tie) ==
    /\ old.rows > 0
    /\ \/ new.rows = 0
       \/ /\ ~BypassForCancellations(old, new)
          /\ \/ old.rows >= 30 /\ new.stub /\ new.rows < Larger(15, old.rows \div 4)
             \/ new.rows >= MinPrior /\ BelowRatio(old, new, tie)

(* Mutant of ShouldPreserve: no test for an empty page.                    *)
ShouldPreserveUnlessEmpty(old, new, tie) ==
    /\ old.rows > 0
    /\ ~BypassForCancellations(old, new)
    /\ \/ old.rows >= 30 /\ new.stub /\ new.rows < Larger(15, old.rows \div 4)
       \/ old.rows >= MinPrior /\ BelowRatio(old, new, tie)

ShouldPreserve(old, new, tie) ==
    /\ old.rows > 0
    /\ \/ new.rows = 0
       \/ /\ ~BypassForCancellations(old, new)
          /\ \/ old.rows >= 30 /\ new.stub /\ new.rows < Larger(15, old.rows \div 4)
             \/ old.rows >= MinPrior /\ BelowRatio(old, new, tie)

(* _maybe_keep_prior_page_source has a page to compare with: a file that   *)
(* cannot be read is overwritten, whatever was in it.                      *)
Compares(f, readable) == ~opts.override /\ disk[f] # NoPage /\ readable

KeepsPrior(f, new, readable, tie) ==
    Compares(f, readable) /\ ShouldPreserve(disk[f], new, tie)

NoteRead(f, readable) ==
    unread' = IF readable \/ disk[f] = NoPage THEN unread \ {f} ELSE unread \cup {f}

(* A page that is smaller than the one it was compared with has lost 1 -   *)
(* Ratio at most, as long as there was enough of it.                       *)
Owes(f, new, readable) ==
    IF \/ ~Compares(f, readable)
       \/ BypassForCancellations(disk[f], new)
       \/ new.rows > disk[f].rows
    THEN Anew(new)
    ELSE IF new.rows = disk[f].rows \/ owed[f].least < MinPrior * owed[f].scale
         THEN owed[f]
         ELSE [least |-> owed[f].least * Ratio, scale |-> owed[f].scale * 100]

-----------------------------------------------------------------------------
(* main(): arguments and environment.  A term is fetched as often as       *)
(* --term names it; a dry run fetches no stem.                             *)
Start == /\ exit # Running /\ runs < MaxRuns
         /\ \E times \in [Stems -> 0..MaxTimes], override, strict \in BOOLEAN :
               /\ opts' = [asked |-> {f \in Stems : times[f] > 0},
                           override |-> override, strict |-> strict]
               /\ todo' = times
         /\ failed' = {} /\ kept' = {} /\ written' = {} /\ unread' = {}
         /\ exit' = Running
         /\ runs' = runs + 1
         /\ before' = disk
         /\ UNCHANGED <<disk, owed>>

(* An iteration of the loop over the stems, for f. *)
Handle(f) == exit = Running /\ todo[f] > 0 /\ todo' = [todo EXCEPT ![f] = @ - 1]

(* An HTTP error, no connection, a timeout, or a login page. *)
FetchError(f) == /\ Handle(f)
                 /\ failed' = failed \cup {f}
                 /\ UNCHANGED <<disk, kept, exit, progress, history>>

KeepPrior(f, new, readable) ==
    /\ Handle(f)
    /\ \E tie \in BOOLEAN : KeepsPrior(f, new, readable, tie)
    /\ kept' = kept \cup {f}
    /\ NoteRead(f, readable)
    /\ UNCHANGED <<disk, failed, exit, written, owed, progress>>

Overwrite(f, new, readable) ==
    /\ Handle(f)
    /\ \E tie \in BOOLEAN : ~KeepsPrior(f, new, readable, tie)
    /\ disk' = [disk EXCEPT ![f] = new]
    /\ written' = written \cup {f}
    /\ NoteRead(f, readable)
    /\ owed' = [owed EXCEPT ![f] = Owes(f, new, readable)]
    /\ UNCHANGED <<failed, kept, exit, progress>>

(* write_bytes truncates the file first: an error or the end of the        *)
(* process leaves a part of the page.                                      *)
CutOff(f, new, part, readable) ==
    /\ Handle(f)
    /\ \E tie \in BOOLEAN : ~KeepsPrior(f, new, readable, tie)
    /\ part.rows <= new.rows
    /\ disk' = [disk EXCEPT ![f] = part]
    /\ exit' = Killed
    /\ NoteRead(f, readable)
    /\ owed' = [owed EXCEPT ![f] = Anew(part)]
    /\ UNCHANGED <<failed, kept, written, progress>>

(* The process ends elsewhere: killed, or by an exception that no handler  *)
(* takes, such as bytes that are not UTF-16 after all.                     *)
Abort == /\ exit = Running
         /\ exit' = Killed
         /\ UNCHANGED <<disk, todo, failed, kept, progress, history>>

(* Mutant of ExitCode: pages that were kept make up for errors.            *)
ExitCodeForgives(errors, skips) == CASE errors # {} /\ skips = {} -> 1
                                     [] skips # {} /\ opts.strict -> 3
                                     [] OTHER -> 0

ExitCode(errors, skips) == CASE errors # {} -> 1
                             [] errors = {} /\ skips # {} /\ opts.strict -> 3
                             [] OTHER -> 0

Finish == /\ exit = Running /\ \A f \in Stems : todo[f] = 0
          /\ exit' = ExitCode(failed, kept)
          /\ UNCHANGED <<disk, todo, failed, kept, progress, history>>

FetchStem(f) == \/ FetchError(f)
                \/ \E new \in Downloads, readable \in BOOLEAN :
                      \/ KeepPrior(f, new, readable)
                      \/ Overwrite(f, new, readable)
                      \/ \E part \in Downloads : CutOff(f, new, part, readable)

Next == Start \/ Abort \/ Finish \/ \E f \in Stems : FetchStem(f)

Spec == Init /\ [][Next]_vars

-----------------------------------------------------------------------------
(* Every variable has its type. *)
TypeOK == /\ disk \in [Stems -> Downloads \cup {NoPage}]
          /\ before \in [Stems -> Downloads \cup {NoPage}]
          /\ opts \in [asked : SUBSET Stems, override : BOOLEAN, strict : BOOLEAN]
          /\ todo \in [Stems -> 0..MaxTimes] /\ failed \subseteq Stems
          /\ kept \subseteq Stems /\ written \subseteq Stems /\ unread \subseteq Stems
          /\ owed \in [Stems -> [least : Nat, scale : Nat \ {0}]]
          /\ exit \in {Running, Killed, 0, 1, 3}
          /\ runs \in 0..MaxRuns

HasRows(page) == page # NoPage /\ page.rows > 0

(* "Keeping prior file [...] not overwriting with degraded fetch": no step *)
(* turns a page with rows into one without, or removes it, except a write  *)
(* that is cut off, a run that is told to overwrite, and a file that could *)
(* not be read.                                                            *)
NeverEmptied ==
    [][\A f \in Stems : HasRows(disk[f]) =>
          HasRows(disk'[f]) \/ exit' = Killed \/ opts.override \/ f \in unread']_vars

(* Every run compares with what the run before has left, so that losses    *)
(* add up.  Still a timetable that is large enough to lose 1 - Ratio that  *)
(* often has, after any downloads and runs, as many rows as these losses   *)
(* leave, and thus is one the guard protects.                              *)
StillGuarded ==
    \A f \in Stems :
       disk[f] # NoPage /\ owed[f].least >= MinPrior * owed[f].scale =>
          disk[f].rows * owed[f].scale >= owed[f].least /\ disk[f].rows >= MinPrior

(* What an exit code tells.  0: every page asked for is new, or was kept   *)
(* by a run that need not tell.  3: none failed and some were kept.  1:    *)
(* some failed, and nothing is said of those that were kept, although      *)
(* "fetch exits 3 when any file was skipped by the guard".  A run that has *)
(* to tell of kept pages does not exit 0 over one.                         *)
ExitTruthful ==
    /\ exit = 1 <=> exit \notin {Running, Killed} /\ failed # {}
    /\ exit \in {0, 3} => opts.asked = written \cup kept
    /\ exit = 3 => opts.strict /\ kept # {}
    /\ exit = 0 => ~(opts.strict /\ kept # {})

(* Only the pages that the log calls written are other than before.        *)
OnlyWrittenChange ==
    exit # Killed => \A f \in Stems \ written : disk[f] = before[f]
=============================================================================
