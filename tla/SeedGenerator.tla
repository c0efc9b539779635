---------------------------- MODULE SeedGenerator ----------------------------
(***************************************************************************)
(* scripts/generate_seed.py: db/seed.sql from the JSON files of the terms. *)
(*                                                                         *)
(* A JSON file has a sequence of courses, each with the sections that the  *)
(* scraper found under one header of the timetable, in their order; most   *)
(* have no letter and belong to the section before.  A section of the JSON *)
(* is called a row here, since a section of the database has several.      *)
(* Names of courses, credits, descriptions, faculties, catalog numbers and *)
(* times are copied and left out.  An instructor is a name in an activity: *)
(* instructors_list grows with section_activities_list, in the same step.  *)
(***************************************************************************)
EXTENDS Integers, Sequences

CONSTANTS Dirs,    \* the term directories of scraping/data
          Listing, \* their JSON files but the excluded ones, in order
          Files,   \* all JSON files
          Requests, \* the command lines: term directories, --allow-partial-seed
          Departments, Terms, Types, Letters, Ids, Names

CourseSection == [type : Types, letter : Letters \cup {""}, names : SUBSET Names, row : Nat]
CourseEntry == [department : Departments, id : Ids \cup {""}, term : Terms,
                sections : Seq(CourseSection)]

(* A JSON file: "other" has no courses, "cut" is no JSON. *)
Export == [courses : Seq(CourseEntry), form : {"export", "other", "cut"}]
Request == [terms : Seq(STRING), partial : BOOLEAN]

ASSUME GeneratorAssumption ==
    /\ Listing \in [Dirs -> Seq(Files)]
    /\ \A request \in Requests : request \in Request /\ request.terms # <<>>
    /\ "" \notin Letters /\ "" \notin Ids

VARIABLES json,     \* the content of each file
          stage,    \* what the script does
          terms,    \* term directories that are still to list
          queue,    \* json_files
          file,     \* index of the file in hand
          entry,    \* index of the course entry in hand
          row,      \* index of the row in hand
          list,     \* courses_list of the file
          letters,  \* section_uuid_map of the entry, in order of insertion
          current,  \* current_section_uuid
          drafts,   \* sections_list of the file
          acts,     \* section_activities_list of the file
          courses,  \* all_courses_list
          sections, \* all_sections_list
          activities, \* all_section_activities_list
          uuids,    \* uuids given out
          sql       \* db/seed.sql, or NoSeed

ofFile == <<list, drafts, acts>>
merged == <<courses, sections, activities>>
fixed == <<json, terms, queue>>
vars == <<fixed, stage, file, entry, row, letters, current, ofFile, merged, uuids, sql>>

NoUuid == 0
NoSeed == [none |-> TRUE]

GeneratorInit == /\ stage = "arguments" /\ terms = <<>>
                 /\ queue = <<>> /\ file = 1 /\ entry = 1 /\ row = 1
                 /\ list = <<>> /\ letters = <<>> /\ current = NoUuid
                 /\ drafts = <<>> /\ acts = <<>>
                 /\ courses = <<>> /\ sections = <<>> /\ activities = <<>>
                 /\ uuids = 0
                 /\ sql = NoSeed

-----------------------------------------------------------------------------
(* The command line *)

untouched == <<json, file, entry, row, letters, current, ofFile, merged, uuids, sql>>

(* "Refusing to generate seed from a single term dir". *)
Arguments(request) ==
    /\ stage = "arguments"
    /\ IF Len(request.terms) = 1 /\ ~request.partial
       THEN stage' = "refused" /\ UNCHANGED terms
       ELSE stage' = "paths" /\ terms' = request.terms
    /\ UNCHANGED <<untouched, queue>>

(* _collect_json_paths: the files of one term. *)
ListTerm == /\ stage = "paths" /\ terms # <<>>
            /\ IF Head(terms) \in Dirs
               THEN /\ queue' = queue \o Listing[Head(terms)]
                    /\ terms' = Tail(terms)
                    /\ UNCHANGED stage
               ELSE stage' = "refused" /\ UNCHANGED <<queue, terms>>
            /\ UNCHANGED untouched

EndPaths == /\ stage = "paths" /\ terms = <<>>
            /\ stage' = IF queue = <<>> THEN "refused" ELSE "file"
            /\ UNCHANGED <<untouched, queue, terms>>

-----------------------------------------------------------------------------
(* One file *)

Data == json[queue[file]]
Entry == Data.courses[entry]
Key(course) == [department |-> course.department, id |-> course.id, term |-> course.term]

SkipFile == /\ stage = "file" /\ file <= Len(queue)
            /\ Data.form = "other"
            /\ file' = file + 1
            /\ UNCHANGED <<fixed, stage, entry, row, letters, current, ofFile, merged, uuids, sql>>

(* json.load fails, and no handler takes it: there is no seed. *)
LoadFails == /\ stage = "file" /\ file <= Len(queue)
             /\ Data.form = "cut"
             /\ stage' = "failed"
             /\ UNCHANGED <<fixed, file, entry, row, letters, current, ofFile, merged, uuids, sql>>

OpenFile == /\ stage = "file" /\ file <= Len(queue)
            /\ Data.form = "export"
            /\ stage' = "collect"
            /\ entry' = 1
            /\ list' = <<>> /\ drafts' = <<>> /\ acts' = <<>>
            /\ UNCHANGED <<fixed, file, row, letters, current, merged, uuids, sql>>

Known(key) == \E i \in DOMAIN list : list[i].key = key

(* course_code_to_index; the code in it is the department and the id. *)
IndexOf(key) == CHOOSE i \in DOMAIN list : list[i].key = key

(* collect_courses_and_instructors, for one entry: "unique by code + term  *)
(* combination".                                                           *)
Collected == IF Known(Key(Entry)) THEN list
             ELSE Append(list, [uuid |-> uuids + 1, key |-> Key(Entry)])

Collect == /\ stage = "collect" /\ entry <= Len(Data.courses)
           /\ list' = Collected
           /\ uuids' = uuids + 1
           /\ entry' = entry + 1
           /\ UNCHANGED <<fixed, stage, file, row, letters, current, drafts, acts, merged, sql>>

EndCollect == /\ stage = "collect" /\ entry > Len(Data.courses)
              /\ stage' = "letters"
              /\ entry' = 1 /\ row' = 1
              /\ letters' = <<>>
              /\ UNCHANGED <<fixed, file, current, ofFile, merged, uuids, sql>>

-----------------------------------------------------------------------------
(* process_sections, for one entry *)

InEntry == entry <= Len(Data.courses) /\ row <= Len(Entry.sections)
Row == Entry.sections[row]

HasLetter(letter) == \E i \in DOMAIN letters : letters[i].letter = letter

(* Mutant of NewLetter: a row without a letter gives a section too. *)
NewLetterAny == /\ stage = "letters" /\ InEntry
                /\ ~HasLetter(Row.letter)
                /\ letters' = Append(letters, [letter |-> Row.letter, uuid |-> uuids + 1])
                /\ drafts' = Append(drafts, [uuid |-> uuids + 1, course |-> IndexOf(Key(Entry)),
                                             letter |-> Row.letter, from |-> <<file, entry>>])
                /\ uuids' = uuids + 1
                /\ row' = row + 1
                /\ UNCHANGED <<fixed, stage, file, entry, current, list, acts, merged, sql>>

(* "First pass": a section for every letter that is new. *)
NewLetter == /\ stage = "letters" /\ InEntry
             /\ Row.letter # "" /\ ~HasLetter(Row.letter)
             /\ letters' = Append(letters, [letter |-> Row.letter, uuid |-> uuids + 1])
             /\ drafts' = Append(drafts, [uuid |-> uuids + 1, course |-> IndexOf(Key(Entry)),
                                      letter |-> Row.letter, from |-> <<file, entry>>])
             /\ uuids' = uuids + 1
             /\ row' = row + 1
             /\ UNCHANGED <<fixed, stage, file, entry, current, list, acts, merged, sql>>

NoNewLetter == /\ stage = "letters" /\ InEntry
               /\ Row.letter = "" \/ HasLetter(Row.letter)
               /\ row' = row + 1
               /\ UNCHANGED <<fixed, stage, file, entry, letters, current, ofFile, merged, uuids, sql>>

SecondPass == /\ stage = "letters" /\ entry <= Len(Data.courses) /\ ~InEntry
              /\ stage' = "activities"
              /\ row' = 1
              /\ current' = NoUuid
              /\ UNCHANGED <<fixed, file, entry, letters, ofFile, merged, uuids, sql>>

UuidOf(letter) == letters[CHOOSE i \in DOMAIN letters : letters[i].letter = letter].uuid

(* Mutant of SectionOf: the first section takes the rows without a letter. *)
SectionOfFirst == IF Row.letter # "" THEN UuidOf(Row.letter)
                  ELSE IF letters # <<>> THEN letters[1].uuid ELSE NoUuid

(* The section of a row: its own, "or the most recent", "or first if none  *)
(* yet".                                                                   *)
SectionOf == CASE Row.letter # "" -> UuidOf(Row.letter)
               [] Row.letter = "" /\ current # NoUuid -> current
               [] Row.letter = "" /\ current = NoUuid ->
                    IF letters # <<>> THEN letters[1].uuid ELSE NoUuid

Activity == /\ stage = "activities" /\ InEntry
            /\ current' = SectionOf
            /\ IF SectionOf = NoUuid THEN UNCHANGED acts
               ELSE acts' = Append(acts, [section |-> SectionOf, type |-> Row.type,
                                          names |-> Row.names, from |-> <<file, entry, row>>])
            /\ row' = row + 1
            /\ UNCHANGED <<fixed, stage, file, entry, letters, list, drafts, merged, uuids, sql>>

NextEntry == /\ stage = "activities" /\ ~InEntry
             /\ stage' = "letters"
             /\ entry' = entry + 1 /\ row' = 1
             /\ letters' = <<>>
             /\ UNCHANGED <<fixed, file, current, ofFile, merged, uuids, sql>>

-----------------------------------------------------------------------------
(* All files *)

(* Mutant of Offset: the indices count from one in every file. *)
NoOffset == 0

Offset == Len(courses)

(* The sections of the file, with the indices of all_courses_list. *)
Moved == [i \in DOMAIN drafts |-> [drafts[i] EXCEPT !.course = @ + Offset]]

(* Mutant of Merge: the activities are added twice. *)
MergeAgain == /\ stage = "letters" /\ entry > Len(Data.courses)
              /\ courses' = courses \o list
              /\ sections' = sections \o Moved
              /\ activities' = activities \o acts \o acts
              /\ stage' = "file"
              /\ file' = file + 1
              /\ UNCHANGED <<fixed, entry, row, letters, current, ofFile, uuids, sql>>

(* Mutant of Merge: the sections are added twice. *)
MergeSectionsAgain == /\ stage = "letters" /\ entry > Len(Data.courses)
                      /\ courses' = courses \o list
                      /\ sections' = sections \o Moved \o Moved
                      /\ activities' = activities \o acts
                      /\ stage' = "file"
                      /\ file' = file + 1
                      /\ UNCHANGED <<fixed, entry, row, letters, current, ofFile, uuids, sql>>

Merge == /\ stage = "letters" /\ entry > Len(Data.courses)
         /\ courses' = courses \o list
         /\ sections' = sections \o Moved
         /\ activities' = activities \o acts
         /\ stage' = "file"
         /\ file' = file + 1
         /\ UNCHANGED <<fixed, entry, row, letters, current, ofFile, uuids, sql>>

(* generate_course_sql, generate_section_sql, generate_section_activity_sql *)
(* and generate_instructor_sql                                              *)
CourseRows == [i \in DOMAIN courses |-> [uuid |-> courses[i].uuid, key |-> courses[i].key]]
SectionRows == [i \in DOMAIN sections |-> [uuid |-> sections[i].uuid,
                                            course |-> courses[sections[i].course].uuid,
                                            letter |-> sections[i].letter]]
ActivityRows == [i \in DOMAIN activities |-> [section |-> activities[i].section,
                                              type |-> activities[i].type]]
InstructorRows == [i \in DOMAIN activities |-> [section |-> activities[i].section,
                                                names |-> activities[i].names]]

Write == /\ stage = "file" /\ file > Len(queue)
         /\ sql' = [courses |-> CourseRows, sections |-> SectionRows,
                    activities |-> ActivityRows, instructors |-> InstructorRows]
         /\ stage' = "written"
         /\ UNCHANGED <<fixed, file, entry, row, letters, current, ofFile, merged, uuids>>

GeneratorNext == \/ \E request \in Requests : Arguments(request)
                 \/ ListTerm \/ EndPaths \/ SkipFile \/ LoadFails \/ OpenFile
                 \/ Collect \/ EndCollect \/ NewLetter \/ NoNewLetter \/ SecondPass
                 \/ Activity \/ NextEntry \/ Merge \/ Write

Init == json \in [Files -> Export] /\ GeneratorInit
Next == GeneratorNext
Spec == Init /\ [][Next]_vars

-----------------------------------------------------------------------------
EntryAt(f, e) == json[queue[f]].courses[e]

CourseKey == [department : Departments, id : Ids \cup {""}, term : Terms]
Place == Nat \X Nat
SectionOk == [uuid : Nat, course : Nat, letter : Letters, from : Place]
ActivityOk == [section : Nat, type : Types, names : SUBSET Names, from : Nat \X Nat \X Nat]

(* Every variable has its type. *)
TypeOK ==
    /\ json \in [Files -> Export]
    /\ stage \in {"arguments", "paths", "refused", "file", "collect", "letters", "activities",
                 "written", "failed"}
    /\ queue \in Seq(Files) /\ terms \in Seq(STRING)
    /\ file \in Nat /\ entry \in Nat /\ row \in Nat
    /\ current \in Nat /\ uuids \in Nat
    /\ letters \in Seq([letter : Letters, uuid : Nat])
    /\ list \in Seq([uuid : Nat, key : CourseKey])
    /\ courses \in Seq([uuid : Nat, key : CourseKey])
    /\ drafts \in Seq(SectionOk) /\ sections \in Seq(SectionOk)
    /\ acts \in Seq(ActivityOk) /\ activities \in Seq(ActivityOk)

(* The indices of sections count from the start of their file until they   *)
(* are merged: afterwards too, each leads to the course of the entry that  *)
(* the section comes from.                                                 *)
RightCourse ==
    \A i \in DOMAIN sections :
       LET s == sections[i]
       IN  /\ s.course \in DOMAIN courses
           /\ courses[s.course].key = Key(EntryAt(s.from[1], s.from[2]))

(* The letter that row r of an entry belongs to, if any row of it has one. *)
Lettered(entries, r) == {i \in 1..r : entries[i].letter # ""}
LetterFor(entries, r) ==
    IF Lettered(entries, r) # {}
    THEN entries[CHOOSE i \in Lettered(entries, r) : \A j \in Lettered(entries, r) : j <= i].letter
    ELSE entries[CHOOSE i \in Lettered(entries, Len(entries)) :
                    \A j \in Lettered(entries, Len(entries)) : i <= j].letter

BelongsTo(act, s) ==
    /\ act.section = s.uuid
    /\ s.from = <<act.from[1], act.from[2]>>
    /\ s.letter = LetterFor(EntryAt(act.from[1], act.from[2]).sections, act.from[3])

(* "associate with the most recent section": every activity is in the      *)
(* section with the letter nearest above its row in the same entry, or the *)
(* first letter of the entry if its row comes before all letters.          *)
RightSection ==
    /\ \A a \in DOMAIN acts : \E s \in DOMAIN drafts : BelongsTo(acts[a], drafts[s])
    /\ \A a \in DOMAIN activities : \E s \in DOMAIN sections : BelongsTo(activities[a], sections[s])

(* "ALL activity types go into section_activities": every row of an entry  *)
(* that has a letter is an activity of the seed, no row is two, and there  *)
(* are no others.  Of an entry without a letter nothing is asked here; the *)
(* code makes no section for it, though "every course always has at least  *)
(* one section record", and no activity of its rows.                       *)
EveryRowOnce ==
    stage = "written" =>
       /\ \A a, b \in DOMAIN activities : activities[a].from = activities[b].from => a = b
       /\ \A a \in DOMAIN activities :
             LET f == activities[a].from[1]
                 e == activities[a].from[2]
             IN  /\ f \in DOMAIN queue /\ json[queue[f]].form = "export"
                 /\ e \in DOMAIN json[queue[f]].courses
                 /\ activities[a].from[3] \in DOMAIN EntryAt(f, e).sections
       /\ \A f \in DOMAIN queue : \A e \in DOMAIN json[queue[f]].courses :
             LET rows == EntryAt(f, e).sections
             IN  json[queue[f]].form = "export" /\ Lettered(rows, Len(rows)) # {} =>
                    \A r \in DOMAIN rows :
                       \E a \in DOMAIN activities : activities[a].from = <<f, e, r>>

(* The statements of the seed satisfy the keys of the tables: a section    *)
(* has a course, an activity has a section, and no two inserted rows have  *)
(* the same uuid.                                                          *)
OnceEach(rows) == \A i, j \in DOMAIN rows : rows[i].uuid = rows[j].uuid => i = j

ForeignKeys ==
    sql # NoSeed =>
       /\ \A s \in DOMAIN sql.sections : \E c \in DOMAIN sql.courses :
             sql.courses[c].uuid = sql.sections[s].course
       /\ \A a \in DOMAIN sql.activities : \E s \in DOMAIN sql.sections :
             /\ sql.sections[s].uuid = sql.activities[a].section
             /\ sql.sections[s].uuid = sql.instructors[a].section
       /\ OnceEach(sql.sections) /\ OnceEach(sql.courses)
=============================================================================
