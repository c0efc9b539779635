--------------------------- MODULE TimetableImport ---------------------------
(***************************************************************************)
(* From the timetable pages to db/seed.sql: the scrapers of scrape.py, one *)
(* after the other, then generate_seed.py.                                 *)
(***************************************************************************)
EXTENDS SeedGenerator

CONSTANTS Pages, Documents,
          OldFiles \* what the JSON files of an earlier run may be

VARIABLES document, unparsed, at, course, parsed, fresh

Parser == INSTANCE TimetableParser

ASSUME ImportAssumption ==
    /\ Pages \in Seq(Files) /\ "" \notin Files
    /\ Documents \subseteq [Files -> Parser!Document]
    /\ OldFiles \subseteq Export

scraping == <<document, unparsed, at, course, parsed, fresh>>
importVars == <<vars, scraping>>

(* The files of an earlier run, or of the repository, are still there. *)
ImportInit == /\ Parser!ParserInit
              /\ json \in [Files -> OldFiles]
              /\ GeneratorInit

Scrape == /\ Parser!ParserNext
          /\ UNCHANGED <<stage, terms, queue, file, entry, row, letters, current, ofFile, merged,
                         uuids, sql>>

Generate == Parser!ParserDone /\ GeneratorNext /\ UNCHANGED scraping

ImportNext == Scrape \/ Generate

ImportSpec == ImportInit /\ [][ImportNext]_importVars

-----------------------------------------------------------------------------
(* What a page says of one of its rows, read backwards and forwards from   *)
(* the row.                                                                *)

Rows(p) == document[p].rows
Above(p, r) == {h \in 1..r : Parser!IsHeader(Rows(p)[h])}
HeaderOf(p, r) == CHOOSE h \in Above(p, r) : \A g \in Above(p, r) : g <= h
Group(p, h) == {r \in h + 1..Len(Rows(p)) : Above(p, r) # {} /\ HeaderOf(p, r) = h}

Typed(p, r) == Parser!TypeIndex(Rows(p)[r].cells) # 0
Letter(p, r) == IF Typed(p, r) THEN Parser!LetterOf(Rows(p)[r].cells) ELSE ""

(* The row of the group that gives r its letter. *)
Gives(p, r, s) ==
    LET lettered == {x \in Group(p, HeaderOf(p, r)) : Letter(p, x) # ""}
        above == {x \in lettered : x <= r}
    IN  /\ s \in lettered
        /\ IF above # {} THEN s \in above /\ \A x \in above : x <= s
           ELSE \A x \in lettered : s <= x

(* The row of the group that gives the course its id. *)
GivesId(p, h, s) ==
    LET summaries == {x \in Group(p, h) : Parser!SummaryIndex(Rows(p)[x].cells) # 0}
    IN  s \in summaries /\ \A x \in summaries : s <= x

(* Every activity of the seed that comes from a file the scrapers have     *)
(* written is where its page puts it: in the section of the letter nearest *)
(* above it, below the header, or nearest after if there is none, of the   *)
(* course with the department and the term of the header and the id in the *)
(* first summary below it.  A scraper that gives up leaves the file of an  *)
(* earlier run, whose activities are where that file puts them.            *)
AsOnThePage ==
    stage = "written" =>
       \A a \in DOMAIN activities :
          queue[activities[a].from[1]] \in fresh =>
             LET from == activities[a].from
                 p == queue[from[1]]
                 r == EntryAt(from[1], from[2]).sections[from[3]].row
                 h == HeaderOf(p, r)
             IN  \E s \in DOMAIN SectionRows, c \in DOMAIN CourseRows, x, y \in Group(p, h) :
                    /\ SectionRows[s].uuid = activities[a].section
                    /\ CourseRows[c].uuid = SectionRows[s].course
                    /\ Gives(p, r, x) /\ SectionRows[s].letter = Letter(p, x)
                    /\ GivesId(p, h, y)
                    /\ CourseRows[c].key =
                          [department |-> Rows(p)[h].header.department,
                           term |-> Rows(p)[h].header.term,
                           id |-> Rows(p)[y].cells[Parser!SummaryIndex(Rows(p)[y].cells)].id]
=============================================================================
