--------------------------- MODULE TimetableParser ---------------------------
(***************************************************************************)
(* scraping/scrapers/helpers: the parser that makes the courses of a       *)
(* faculty's JSON file from its timetable page.                            *)
(*                                                                         *)
(* A page is the sequence of its <tr> in document order, the ones of the   *)
(* schedules that are nested in a row included; the first "table" of them  *)
(* are in the first table.  A cell is what the parser recognises in its    *)
(* text: a type of activity, a course id with its credits and letter, the  *)
(* names in it, and the names and notes of the <td> nested in it.  Titles, *)
(* languages, times and notes do not decide anything and are left out.     *)
(***************************************************************************)
EXTENDS Integers, Sequences, FiniteSetsExt

CONSTANTS Pages,     \* the files of page_source in the order of their scrapers
          Documents, \* what may be in them: functions from the files to Document
          Departments, Terms, Types, Letters, Ids, Names

VARIABLES document,  \* the content of each page
          unparsed,  \* pages whose scraper has not run, in order
          at,        \* the page under way and how many rows are read
          course,    \* the course under way, or NoCourse
          parsed,    \* the finished courses of the page
          json,      \* the JSON file of each page
          fresh      \* history: the JSON files that a scraper has written

NoHeader == [department |-> "", term |-> ""]
Header == [department : Departments, term : Terms]
Cell == [type : Types \cup {""}, id : Ids \cup {""}, letter : Letters \cup {""},
         names : SUBSET Names, nested : SUBSET Names, nestedNotes : BOOLEAN]
Row == [header : Header \cup {NoHeader}, cells : Seq(Cell)]
Document == [rows : Seq(Row), table : Nat]

NoCourse == [none |-> TRUE]
Nowhere == [page |-> "", row |-> 0]
NotAnExport == [courses |-> <<>>, form |-> "other"]
NotJson == [courses |-> <<>>, form |-> "cut"]

ParserInit == /\ document \in Documents
              /\ unparsed = Pages
              /\ at = Nowhere
              /\ course = NoCourse
              /\ parsed = <<>>
              /\ fresh = {}

-----------------------------------------------------------------------------
(* One row of the page *)

IsHeader(row) == row.header # NoHeader

(* parse_course_header: the id is not in the header. *)
ParseHeader(row) == [department |-> row.header.department, id |-> "",
                     term |-> row.header.term, sections |-> <<>>]

(* find_section_type_index: the first cell with the letters of a type      *)
(* anywhere in it, a room or a note too; 0 if there is none.               *)
TypeIndex(cells) == LET typed == {i \in DOMAIN cells : cells[i].type # ""}
                    IN  IF typed = {} THEN 0 ELSE Min(typed)

(* fill_course_summary_and_loi: the summary nearest before the type.       *)
SummaryIndex(cells) ==
    LET summaries == {i \in 1..(TypeIndex(cells) - 1) : cells[i].id # ""}
    IN  IF summaries = {} THEN 0 ELSE Max(summaries)

(* Mutant of LetterOf: a row without a letter takes the letter before.     *)
LetterCarried(cells) ==
    IF SummaryIndex(cells) # 0 /\ cells[SummaryIndex(cells)].letter # ""
    THEN cells[SummaryIndex(cells)].letter
    ELSE IF course.sections = <<>> THEN ""
         ELSE course.sections[1].letter

LetterOf(cells) == IF SummaryIndex(cells) = 0 THEN ""
                   ELSE cells[SummaryIndex(cells)].letter

(* Mutant of IdOf: the last row decides. *)
IdOfLast(cells) == IF SummaryIndex(cells) = 0 THEN course.id
                   ELSE cells[SummaryIndex(cells)].id

IdOf(cells) == IF course.id # "" \/ SummaryIndex(cells) = 0 THEN course.id
               ELSE cells[SummaryIndex(cells)].id

(* build_details: the names are in the schedule cell (old pages) or in the *)
(* one after it (new pages).                                               *)
NamesOf(cells) ==
    LET schedule == TypeIndex(cells) + 3
        old == IF schedule \in DOMAIN cells THEN cells[schedule].nested ELSE {}
        oldNotes == schedule \in DOMAIN cells /\ cells[schedule].nestedNotes
    IN  IF old # {} \/ oldNotes \/ schedule + 1 \notin DOMAIN cells THEN old
        ELSE cells[schedule + 1].names

(* parse_section_row; "row" is the place of the row in the page, which     *)
(* stands for its catalog number and its times.                            *)
ParseSection(row, place) ==
    [type |-> row.cells[TypeIndex(row.cells)].type, letter |-> LetterOf(row.cells),
     names |-> NamesOf(row.cells), row |-> place]

-----------------------------------------------------------------------------
(* main() of the scraper of a page *)

Parsing == at # Nowhere
Rows == document[at.page].rows
place == at.row + 1

(* The page cannot be read or parsed: the scraper returns, and a JSON file *)
(* of an earlier run stays.                                                *)
Unreadable == /\ ~Parsing /\ unparsed # <<>>
              /\ unparsed' = Tail(unparsed)
              /\ UNCHANGED <<document, at, course, parsed, json, fresh>>

ReadPage == /\ ~Parsing /\ unparsed # <<>>
            /\ unparsed' = Tail(unparsed)
            /\ at' = [page |-> Head(unparsed), row |-> 0]
            /\ parsed' = <<>>
            /\ course' = NoCourse
            /\ UNCHANGED <<document, json, fresh>>

Finished == IF course = NoCourse THEN parsed ELSE Append(parsed, course)

Step(row) == /\ Parsing /\ at.row < Len(Rows)
             /\ row = Rows[place]
             /\ at' = [at EXCEPT !.row = place]
             /\ UNCHANGED <<document, unparsed, json, fresh>>

(* A header ends the course before it; outside of the first table it does  *)
(* not begin another.                                                      *)
HeaderRow(row) ==
    /\ IsHeader(row)
    /\ parsed' = Finished
    /\ course' = IF place <= document[at.page].table THEN ParseHeader(row) ELSE NoCourse

(* A row that is no section, or that belongs to no course. *)
OtherRow(row) ==
    /\ ~IsHeader(row)
    /\ course = NoCourse \/ TypeIndex(row.cells) = 0
    /\ UNCHANGED <<parsed, course>>

SectionRow(row) ==
    /\ ~IsHeader(row)
    /\ course # NoCourse /\ TypeIndex(row.cells) # 0
    /\ course' = [course EXCEPT !.id = IdOf(row.cells),
                                !.sections = Append(@, ParseSection(row, place))]
    /\ UNCHANGED parsed

(* The end of the document. *)
EndPage == /\ Parsing /\ at.row = Len(Rows)
           /\ at' = Nowhere
           /\ course' = NoCourse
           /\ parsed' = <<>>
           /\ UNCHANGED <<document, unparsed>>

SavePage == /\ EndPage
            /\ json' = [json EXCEPT ![at.page] = [courses |-> Finished, form |-> "export"]]
            /\ fresh' = fresh \cup {at.page}

(* write_text fails, after it has truncated the file. *)
SaveFails == /\ EndPage
             /\ json' = [json EXCEPT ![at.page] = NotJson]
             /\ UNCHANGED fresh

ParseRow == \E row \in {Rows[i] : i \in DOMAIN Rows} :
               Step(row) /\ (HeaderRow(row) \/ OtherRow(row) \/ SectionRow(row))

ParserNext == \/ Unreadable \/ ReadPage
              \/ Parsing /\ (ParseRow \/ SavePage \/ SaveFails)

ParserDone == unparsed = <<>> /\ ~Parsing
=============================================================================
