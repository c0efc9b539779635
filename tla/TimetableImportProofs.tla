------------------------ MODULE TimetableImportProofs ------------------------
(***************************************************************************)
(* What holds of db/seed.sql for any JSON files, in any number of terms,   *)
(* and, when the scrapers make the files, for any timetable pages.         *)
(*                                                                         *)
(* The first parts are about the generator alone and any files: the        *)
(* columns, the rows and the keys of the tables.  The last ones add the    *)
(* pages, and what the parser has of them after every row.                 *)
(***************************************************************************)
EXTENDS TimetableImport, WellFoundedInduction, TLAPS

InFile == stage \in {"collect", "letters", "activities"}

(* Nothing is collected before the files are listed. *)
PlaceInv ==
    /\ file >= 1 /\ entry >= 1 /\ row >= 1
    /\ stage \in {"arguments", "paths", "refused"} =>
          /\ list = <<>> /\ drafts = <<>> /\ acts = <<>>
          /\ courses = <<>> /\ sections = <<>> /\ activities = <<>>
    /\ InFile => file \in DOMAIN queue
    /\ stage = "activities" => entry \in DOMAIN Data.courses
    /\ sql # NoSeed => stage = "written"

(* Every entry that was looked at has its course in the list. *)
KeyInv ==
    InFile => \A e \in DOMAIN Data.courses :
                 stage # "collect" \/ e < entry => Known(Key(Data.courses[e]))

(* Before and after the indices are moved, a section leads to its course.  *)
Fits(s, of) == /\ s.course \in DOMAIN of
               /\ of[s.course].key = Key(EntryAt(s.from[1], s.from[2]))
FitInv == /\ \A i \in DOMAIN drafts : Fits(drafts[i], list)
          /\ \A i \in DOMAIN sections : Fits(sections[i], courses)

(* A uuid is given out once. *)
Given(s) == \A i \in DOMAIN s : s[i].uuid \in 1..uuids
Unique(s) == \A i, j \in DOMAIN s : s[i].uuid = s[j].uuid => i = j
Apart(s, t) == \A i \in DOMAIN s, j \in DOMAIN t : s[i].uuid # t[j].uuid
UuidInv ==
    /\ Given(list) /\ Given(courses) /\ Given(drafts) /\ Given(sections)
    /\ Unique(list) /\ Unique(courses) /\ Unique(drafts) /\ Unique(sections)
    /\ InFile => Apart(list, courses) /\ Apart(drafts, sections)

(* The letters of an entry are those of its rows, the first one first.     *)
Drafted(l) == \E d \in DOMAIN drafts : /\ drafts[d].uuid = l.uuid /\ drafts[d].letter = l.letter
                                       /\ drafts[d].from = <<file, entry>>
NoneAbove(rows, r) == \A q \in DOMAIN rows : q < r => rows[q].letter = ""
LetterInv ==
    stage \in {"letters", "activities"} =>
       /\ \A i \in DOMAIN letters : Drafted(letters[i])
       /\ entry \in DOMAIN Data.courses =>
             /\ \A r \in DOMAIN Entry.sections :
                   /\ stage = "activities" \/ r < row
                   /\ Entry.sections[r].letter # ""
                   => HasLetter(Entry.sections[r].letter)
             /\ letters # <<>> =>
                   \E r \in DOMAIN Entry.sections :
                      /\ Entry.sections[r].letter = letters[1].letter
                      /\ Entry.sections[r].letter # ""
                      /\ NoneAbove(Entry.sections, r)
       /\ entry \notin DOMAIN Data.courses => letters = <<>>

(* The current section has the letter nearest above, or the first one.     *)
Nearest(rows, m, r) == /\ m \in DOMAIN rows /\ m < r /\ rows[m].letter # ""
                       /\ \A q \in DOMAIN rows : m < q /\ q < r => rows[q].letter = ""
Current(letter) == \E i \in DOMAIN letters : letters[i].uuid = current /\ letters[i].letter = letter
CurrentInv ==
    stage = "activities" =>
       \/ \E m \in DOMAIN Entry.sections :
             Nearest(Entry.sections, m, row) /\ Current(Entry.sections[m].letter)
       \/ /\ NoneAbove(Entry.sections, row)
          /\ current = NoUuid \/ (letters # <<>> /\ current = letters[1].uuid)

ActsRight == \A a \in DOMAIN acts : \E s \in DOMAIN drafts : BelongsTo(acts[a], drafts[s])
ActivitiesRight ==
    \A a \in DOMAIN activities : \E s \in DOMAIN sections : BelongsTo(activities[a], sections[s])

IInv == /\ TypeOK /\ PlaceInv /\ KeyInv /\ FitInv /\ UuidInv /\ LetterInv /\ CurrentInv
        /\ RightSection /\ ForeignKeys

-----------------------------------------------------------------------------
(* Sequences *)

LEMMA AppendAt ==
    ASSUME NEW S, NEW s \in Seq(S), NEW x \in S
    PROVE  /\ Append(s, x) \in Seq(S)
           /\ \A i \in DOMAIN s : i \in DOMAIN Append(s, x) /\ Append(s, x)[i] = s[i]
           /\ \A i \in DOMAIN Append(s, x) :
                 i \in DOMAIN s \/ (i = Len(s) + 1 /\ Append(s, x)[i] = x)
           /\ Len(s) + 1 \in DOMAIN Append(s, x) /\ Append(s, x)[Len(s) + 1] = x
           /\ Len(s) + 1 \notin DOMAIN s
  OBVIOUS

LEMMA ConcatAt ==
    ASSUME NEW S, NEW s \in Seq(S), NEW t \in Seq(S)
    PROVE  /\ s \o t \in Seq(S)
           /\ \A i \in DOMAIN s : i \in DOMAIN (s \o t) /\ (s \o t)[i] = s[i]
           /\ \A j \in DOMAIN t : /\ Len(s) + j \in DOMAIN (s \o t) /\ (s \o t)[Len(s) + j] = t[j]
                                  /\ Len(s) + j \notin DOMAIN s
           /\ \A i \in DOMAIN (s \o t) :
                 i \in DOMAIN s \/ \E j \in DOMAIN t : i = Len(s) + j
<1>1. s \o t \in Seq(S)
  OBVIOUS
<1>2. \A i \in DOMAIN s : i \in DOMAIN (s \o t) /\ (s \o t)[i] = s[i]
  OBVIOUS
<1>3. \A j \in DOMAIN t : /\ Len(s) + j \in DOMAIN (s \o t) /\ (s \o t)[Len(s) + j] = t[j]
                          /\ Len(s) + j \notin DOMAIN s
  OBVIOUS
<1>4. ASSUME NEW i \in DOMAIN (s \o t), i \notin DOMAIN s
      PROVE  \E j \in DOMAIN t : i = Len(s) + j
  <2>1. i - Len(s) \in DOMAIN t /\ i = Len(s) + (i - Len(s))
    BY <1>4
  <2> QED BY <2>1
<1> QED BY <1>1, <1>2, <1>3, <1>4

LEMMA ConcatSeq == ASSUME NEW S, NEW s \in Seq(S), NEW t \in Seq(S) PROVE s \o t \in Seq(S)
  OBVIOUS

LEMMA ConcatUuids ==
    ASSUME NEW S, NEW s \in Seq(S), NEW t \in Seq(S)
    PROVE  /\ Given(s) /\ Given(t) => Given(s \o t)
           /\ Unique(s) /\ Unique(t) /\ Apart(t, s) => Unique(s \o t)
<1>1. /\ \A i \in DOMAIN s : (s \o t)[i] = s[i]
      /\ \A j \in DOMAIN t : (s \o t)[Len(s) + j] = t[j]
      /\ \A i \in DOMAIN (s \o t) : i \in DOMAIN s \/ \E j \in DOMAIN t : i = Len(s) + j
  BY ConcatAt
<1>2. ASSUME Given(s), Given(t) PROVE Given(s \o t)
  BY <1>1, <1>2, Zenon DEF Given
<1>3. ASSUME Unique(s), Unique(t), Apart(t, s),
             NEW i \in DOMAIN (s \o t), NEW j \in DOMAIN (s \o t),
             (s \o t)[i].uuid = (s \o t)[j].uuid
      PROVE  i = j
  <2>1. CASE i \in DOMAIN s /\ j \in DOMAIN s
    BY <1>1, <1>3, <2>1, Zenon DEF Unique
  <2>2. CASE i \in DOMAIN s /\ j \notin DOMAIN s
    <3>1. PICK k \in DOMAIN t : j = Len(s) + k
      BY <1>1, <2>2
    <3>2. t[k].uuid = s[i].uuid
      BY <1>1, <1>3, <2>2, <3>1
    <3> QED BY <1>3, <2>2, <3>2 DEF Apart
  <2>3. CASE i \notin DOMAIN s /\ j \in DOMAIN s
    BY <1>1, <1>3, <2>3, Zenon DEF Apart
  <2>4. CASE i \notin DOMAIN s /\ j \notin DOMAIN s
    <3>1. PICK k \in DOMAIN t : i = Len(s) + k
      BY <1>1, <2>4
    <3>2. PICK l \in DOMAIN t : j = Len(s) + l
      BY <1>1, <2>4
    <3>3. t[k].uuid = t[l].uuid
      BY <1>1, <1>3, <3>1, <3>2
    <3> QED BY <1>3, <3>1, <3>2, <3>3 DEF Unique
  <2> QED BY <2>1, <2>2, <2>3, <2>4
<1> QED BY <1>2, <1>3 DEF Unique

LEMMA Below ==
    ASSUME NEW S, NEW s \in Seq(S), NEW k \in Nat
    PROVE  \A i \in DOMAIN s : i < k + 1 <=> i < k \/ i = k
  OBVIOUS

LEMMA InDomain ==
    ASSUME NEW S, NEW s \in Seq(S), NEW i \in Nat
    PROVE  i \in DOMAIN s <=> i >= 1 /\ i <= Len(s)
  OBVIOUS

LEMMA SeqDomain ==
    ASSUME NEW S, NEW s \in Seq(S)
    PROVE  /\ DOMAIN s = 1..Len(s) /\ Len(s) \in Nat
           /\ \A i \in DOMAIN s : i \in Nat /\ i >= 1 /\ i <= Len(s) /\ s[i] \in S
  OBVIOUS

LEMMA NotEmpty ==
    ASSUME NEW S, NEW s \in Seq(S), s # <<>>
    PROVE  1 \in DOMAIN s
  OBVIOUS

LEMMA UpTo ==
    ASSUME NEW n \in Nat, NEW r \in 1..n
    PROVE  /\ r \in Nat /\ r \in 1..r
           /\ \A q \in 1..r : q \in 1..n /\ (q < r \/ q = r) /\ ~(r < q)
           /\ \A m \in 1..n : m < r => m \in 1..r
  OBVIOUS

LEMMA Greatest ==
    ASSUME NEW r \in Nat, NEW L \in SUBSET (1..r), NEW m \in L, \A i \in L : ~(m < i)
    PROVE  m = CHOOSE i \in L : \A j \in L : j <= i
<1>1. \A i \in L : i <= m
  OBVIOUS
<1>2. \A i \in L : m <= i => i = m
  BY <1>1
<1> QED BY <1>1, <1>2

LEMMA Least ==
    ASSUME NEW r \in Nat, NEW L \in SUBSET (1..r), NEW m \in L, \A i \in L : ~(i < m)
    PROVE  m = CHOOSE i \in L : \A j \in L : i <= j
<1>1. \A i \in L : m <= i
  OBVIOUS
<1>2. \A i \in L : i <= m => i = m
  BY <1>1
<1> QED BY <1>1, <1>2

(* The JSON files *)

LEMMA FileType ==
    ASSUME TypeOK, NEW f \in DOMAIN queue
    PROVE  json[queue[f]].courses \in Seq(CourseEntry)
<1>1. queue[f] \in Files
  BY DEF TypeOK
<1> QED BY <1>1 DEF TypeOK, Export

LEMMA EntryType ==
    ASSUME TypeOK, NEW f \in DOMAIN queue, NEW e \in DOMAIN json[queue[f]].courses
    PROVE  EntryAt(f, e).sections \in Seq(CourseSection) /\ Key(EntryAt(f, e)) \in CourseKey
<1>1. EntryAt(f, e) \in CourseEntry
  BY FileType DEF EntryAt
<1> QED BY <1>1 DEF CourseEntry, Key, CourseKey

LEMMA Here ==
    ASSUME TypeOK, PlaceInv, InFile
    PROVE  /\ Data.courses \in Seq(CourseEntry)
           /\ entry <= Len(Data.courses) <=> entry \in DOMAIN Data.courses
           /\ entry \in DOMAIN Data.courses =>
                 /\ Entry = EntryAt(file, entry)
                 /\ Entry.sections \in Seq(CourseSection) /\ Key(Entry) \in CourseKey
                 /\ row <= Len(Entry.sections) <=> row \in DOMAIN Entry.sections
           /\ InEntry <=> entry \in DOMAIN Data.courses /\ row \in DOMAIN Entry.sections
<1>1. file \in DOMAIN queue /\ entry >= 1 /\ row >= 1 /\ entry \in Nat /\ row \in Nat
  BY DEF PlaceInv, TypeOK
<1>2. Data.courses \in Seq(CourseEntry)
  BY <1>1, FileType DEF Data
<1>3. entry <= Len(Data.courses) <=> entry \in DOMAIN Data.courses
  BY <1>1, <1>2, InDomain
<1>4. ASSUME entry \in DOMAIN Data.courses
      PROVE  /\ Entry = EntryAt(file, entry)
             /\ Entry.sections \in Seq(CourseSection) /\ Key(Entry) \in CourseKey
  BY <1>1, <1>4, EntryType DEF Data, Entry, EntryAt
<1>5. entry \in DOMAIN Data.courses =>
         (row <= Len(Entry.sections) <=> row \in DOMAIN Entry.sections)
  BY <1>1, <1>4, InDomain
<1> QED BY <1>2, <1>3, <1>4, <1>5 DEF InEntry

LEMMA RowType ==
    ASSUME TypeOK, PlaceInv, InFile, InEntry
    PROVE  Row.type \in Types /\ Row.letter \in Letters \cup {""} /\ Row.names \in SUBSET Names
<1>1. Row \in CourseSection
  BY Here DEF Row
<1> QED BY <1>1 DEF CourseSection

LEMMA ByCode ==
    ASSUME NEW key, Known(key)
    PROVE  IndexOf(key) \in DOMAIN list /\ list[IndexOf(key)].key = key
  BY DEF Known, IndexOf

LEMMA ByLetter ==
    ASSUME NEW letter, HasLetter(letter)
    PROVE  \E i \in DOMAIN letters : letters[i].letter = letter /\ letters[i].uuid = UuidOf(letter)
  BY DEF HasLetter, UuidOf

(* The letter of a row *)

LEMMA LetterAbove ==
    ASSUME NEW rows, NEW n \in Nat, DOMAIN rows = 1..n, NEW r \in 1..n, NEW m \in 1..n,
           (Nearest(rows, m, r) /\ rows[r].letter = "") \/ (m = r /\ rows[r].letter # "")
    PROVE  LetterFor(rows, r) = rows[m].letter
<1>1. /\ r \in Nat /\ r \in 1..r /\ \A q \in 1..r : q \in 1..n /\ (q < r \/ q = r) /\ ~(r < q)
      /\ m < r => m \in 1..r
  BY UpTo, Zenon
<1>2. m \in 1..r /\ rows[m].letter # ""
  BY <1>1, Zenon DEF Nearest
<1>3. \A q \in 1..r : m < q => rows[q].letter = ""
  BY <1>1, Zenon DEF Nearest
<1>4. m \in Lettered(rows, r) /\ Lettered(rows, r) \in SUBSET (1..r)
  BY <1>2 DEF Lettered
<1>5. \A i \in Lettered(rows, r) : ~(m < i)
  BY <1>3, Zenon DEF Lettered
<1>8. m = CHOOSE i \in Lettered(rows, r) : \A j \in Lettered(rows, r) : j <= i
  BY <1>1, <1>4, <1>5, Greatest
<1> QED BY <1>4, <1>8, Zenon DEF LetterFor

LEMMA LetterBelow ==
    ASSUME NEW rows, NEW n \in Nat, DOMAIN rows = 1..n, n = Len(rows),
           NEW r \in 1..n, NEW m \in 1..n,
           NoneAbove(rows, r), rows[r].letter = "", NoneAbove(rows, m), rows[m].letter # ""
    PROVE  LetterFor(rows, r) = rows[m].letter
<1>1. \A q \in 1..r : q \in 1..n /\ (q < r \/ q = r)
  BY UpTo
<1>2. Lettered(rows, r) = {}
  BY <1>1, Zenon DEF Lettered, NoneAbove
<1>3. m \in Lettered(rows, n) /\ Lettered(rows, n) \in SUBSET (1..n)
  BY DEF Lettered
<1>4. \A i \in Lettered(rows, n) : ~(i < m)
  BY Zenon DEF Lettered, NoneAbove
<1>5. m = CHOOSE i \in Lettered(rows, n) : \A j \in Lettered(rows, n) : i <= j
  BY <1>3, <1>4, Least
<1> QED BY <1>2, <1>5, Zenon DEF LetterFor

LEMMA LetterInSection ==
    ASSUME NEW rows \in Seq(CourseSection), NEW r \in DOMAIN rows, NEW m \in DOMAIN rows,
           \/ Nearest(rows, m, r) /\ rows[r].letter = ""
           \/ m = r /\ rows[r].letter # ""
           \/ /\ NoneAbove(rows, r) /\ rows[r].letter = ""
              /\ NoneAbove(rows, m) /\ rows[m].letter # ""
    PROVE  LetterFor(rows, r) = rows[m].letter
<1>1. Len(rows) \in Nat /\ DOMAIN rows = 1..Len(rows)
  BY SeqDomain, Zenon
<1> DEFINE n == Len(rows)
<1>2. n \in Nat /\ DOMAIN rows = 1..n /\ n = Len(rows) /\ r \in 1..n /\ m \in 1..n
  BY <1>1, Zenon
<1> HIDE DEF n
<1>3. CASE (Nearest(rows, m, r) /\ rows[r].letter = "") \/ (m = r /\ rows[r].letter # "")
  BY <1>2, <1>3, LetterAbove, Zenon
<1>4. CASE /\ NoneAbove(rows, r) /\ rows[r].letter = ""
           /\ NoneAbove(rows, m) /\ rows[m].letter # ""
  BY <1>2, <1>4, LetterBelow, Zenon
<1> QED BY <1>3, <1>4, Zenon

LEMMA OneMore ==
    ASSUME NEW rows \in Seq(CourseSection), NEW r \in DOMAIN rows
    PROVE  /\ rows[r].letter # "" => Nearest(rows, r, r + 1)
           /\ rows[r].letter = "" =>
                 /\ \A m \in DOMAIN rows : Nearest(rows, m, r) => Nearest(rows, m, r + 1)
                 /\ NoneAbove(rows, r) => NoneAbove(rows, r + 1)
<1>1. /\ r < r + 1
      /\ \A q \in DOMAIN rows : /\ q < r => q < r + 1
                                /\ ~(r < q /\ q < r + 1)
                                /\ q < r + 1 => q < r \/ q = r
  OBVIOUS
<1>2. rows[r].letter # "" => Nearest(rows, r, r + 1)
  BY <1>1, Zenon DEF Nearest
<1>3. ASSUME rows[r].letter = "", NEW m \in DOMAIN rows, Nearest(rows, m, r)
      PROVE  Nearest(rows, m, r + 1)
  BY <1>1, <1>3, Zenon DEF Nearest
<1>4. rows[r].letter = "" /\ NoneAbove(rows, r) => NoneAbove(rows, r + 1)
  BY <1>1, Zenon DEF NoneAbove
<1> QED BY <1>2, <1>3, <1>4

(* The sections of the file when their indices are moved *)

LEMMA MovedSections ==
    ASSUME drafts \in Seq(SectionOk), Len(courses) \in Nat
    PROVE  /\ Moved \in Seq(SectionOk) /\ DOMAIN Moved = DOMAIN drafts
           /\ \A j \in DOMAIN drafts :
                 /\ Moved[j].uuid = drafts[j].uuid /\ Moved[j].letter = drafts[j].letter
                 /\ Moved[j].from = drafts[j].from
                 /\ Moved[j].course = drafts[j].course + Len(courses)
<1>2. /\ DOMAIN drafts = 1..Len(drafts) /\ Len(drafts) \in Nat
      /\ \A j \in DOMAIN drafts : drafts[j] \in SectionOk
  OBVIOUS
<1>3. DOMAIN Moved = DOMAIN drafts
  BY DEF Moved
<1>4. ASSUME NEW j \in DOMAIN drafts
      PROVE  /\ Moved[j] \in SectionOk
             /\ Moved[j].uuid = drafts[j].uuid /\ Moved[j].letter = drafts[j].letter
             /\ Moved[j].from = drafts[j].from
             /\ Moved[j].course = drafts[j].course + Len(courses)
  <2> DEFINE c == drafts[j].course + Len(courses)
  <2>1. drafts[j] \in SectionOk /\ c \in Nat
    BY <1>2 DEF SectionOk
  <2>2. Moved[j] = [drafts[j] EXCEPT !.course = c]
    BY DEF Moved, Offset
  <2> HIDE DEF c
  <2>3. /\ Moved[j] \in SectionOk
        /\ Moved[j].uuid = drafts[j].uuid /\ Moved[j].letter = drafts[j].letter
        /\ Moved[j].from = drafts[j].from /\ Moved[j].course = c
    BY <2>1, <2>2 DEF SectionOk
  <2> QED BY <2>3 DEF c
<1>5. Moved \in Seq(SectionOk)
  <2> DEFINE M == Moved n == Len(drafts)
  <2>1. /\ n \in Nat /\ M = [j \in 1..n |-> [drafts[j] EXCEPT !.course = @ + Offset]]
        /\ \A j \in 1..n : M[j] \in SectionOk
    BY <1>2, <1>4 DEF Moved
  <2>2. M \in [1..n -> SectionOk]
    <3> HIDE DEF n
    <3> QED BY <2>1
  <2> QED BY <2>1, <2>2
<1> QED BY <1>3, <1>4, <1>5

(* A step that leaves the sections and activities alone. *)
LEMMA SameSections ==
    ASSUME RightSection, UNCHANGED <<json, queue, drafts, sections, acts, activities>>
    PROVE  RightSection'
  BY DEF RightSection, BelongsTo, EntryAt

LEMMA SameActs ==
    ASSUME RightSection, UNCHANGED <<json, queue, drafts, acts>>
    PROVE  ActsRight'
  BY DEF RightSection, ActsRight, BelongsTo, EntryAt

LEMMA SameActivities ==
    ASSUME RightSection, UNCHANGED <<json, queue, sections, activities>>
    PROVE  ActivitiesRight'
  BY DEF RightSection, ActivitiesRight, BelongsTo, EntryAt

(* An entry is opened: there are no letters yet. *)
LEMMA FreshLetters ==
    ASSUME TypeOK, InFile, PlaceInv, UNCHANGED <<json, queue, file>>, stage' = "letters",
           letters' = <<>>, row' = 1
    PROVE  LetterInv'
<1>1. \A e \in DOMAIN Data.courses : \A r \in DOMAIN EntryAt(file, e).sections : ~(r < 1)
  <2>1. file \in DOMAIN queue
    BY DEF PlaceInv
  <2>2. ASSUME NEW e \in DOMAIN Data.courses
        PROVE  EntryAt(file, e).sections \in Seq(CourseSection)
    BY <2>1, <2>2, EntryType DEF Data
  <2>3. ASSUME NEW e \in DOMAIN Data.courses, NEW r \in DOMAIN EntryAt(file, e).sections
        PROVE  ~(r < 1)
    <3>1. r \in Nat /\ r >= 1
      BY <2>2, SeqDomain
    <3> QED BY <3>1
  <2> QED BY <2>3
<1>2. Data' = Data /\ Entry' = EntryAt(file, entry')
  BY DEF Data, Entry, EntryAt
<1>3. entry' \in DOMAIN Data'.courses => \A r \in DOMAIN Entry'.sections : ~(r < row')
  BY <1>1, <1>2
<1>4. (stage = "activities")' = FALSE /\ (DOMAIN letters)' = {} /\ (letters # <<>>)' = FALSE
  OBVIOUS
<1> QED BY <1>3, <1>4, Zenon DEF LetterInv

-----------------------------------------------------------------------------
(* Init and Next keep the invariant *)

LEMMA InitInv == Init => IInv
<1> SUFFICES ASSUME Init PROVE IInv
  OBVIOUS
<1> USE DEF Init, GeneratorInit
<1>1. TypeOK
  BY DEF TypeOK, NoUuid
<1>2. PlaceInv /\ KeyInv /\ FitInv /\ LetterInv /\ CurrentInv
  BY DEF PlaceInv, KeyInv, FitInv, LetterInv, CurrentInv, InFile
<1>3. UuidInv
  BY DEF UuidInv, Given, Unique, Apart, InFile
<1>4. RightSection /\ ForeignKeys
  BY DEF RightSection, ForeignKeys
<1> QED BY <1>1, <1>2, <1>3, <1>4 DEF IInv

LEMMA ArgumentsInv ==
    ASSUME IInv, NEW request \in Requests, Arguments(request)
    PROVE  IInv'
<1> USE DEF IInv
<1>0. /\ stage = "arguments" /\ stage' \in {"refused", "paths"}
      /\ terms' \in {terms, request.terms}
      /\ UNCHANGED <<json, queue, file, entry, row, list, letters, current, drafts,
                     acts, courses, sections, activities, uuids, sql>>
  BY DEF Arguments, untouched, fixed, ofFile, merged
<1>1. TypeOK'
  BY <1>0, GeneratorAssumption DEF TypeOK, Request
<1>2. PlaceInv'
  BY <1>0 DEF PlaceInv, InFile, Data
<1>3. KeyInv'
  BY <1>0 DEF KeyInv, InFile, Known, Data
<1>4. FitInv'
  BY <1>0 DEF FitInv, Fits, EntryAt
<1>5. UuidInv'
  BY <1>0 DEF UuidInv, Given, Unique, Apart, InFile
<1>6. LetterInv'
  BY <1>0 DEF LetterInv, Drafted, HasLetter, Data, Entry
<1>7. CurrentInv'
  BY <1>0 DEF CurrentInv, Current, Data, Entry
<1>8. RightSection'
  BY <1>0, SameSections
<1>9. ForeignKeys'
  BY <1>0 DEF ForeignKeys
<1> QED BY <1>1, <1>2, <1>3, <1>4, <1>5, <1>6, <1>7, <1>8, <1>9

LEMMA ListTermInv ==
    ASSUME IInv, ListTerm
    PROVE  IInv'
<1> USE DEF IInv
<1>0. /\ stage = "paths" /\ stage' \in {"refused", "paths"} /\ terms # <<>>
      /\ terms' \in {terms, Tail(terms)}
      /\ queue' = queue \/ (Head(terms) \in Dirs /\ queue' = queue \o Listing[Head(terms)])
      /\ UNCHANGED <<json, file, entry, row, list, letters, current, drafts, acts,
                     courses, sections, activities, uuids, sql>>
  BY DEF ListTerm, untouched, fixed, ofFile, merged
<1>1. TypeOK'
  <2>1. Head(terms) \in Dirs => Listing[Head(terms)] \in Seq(Files)
    BY GeneratorAssumption
  <2>2. queue' \in Seq(Files)
    <3>1. queue \in Seq(Files)
      BY DEF TypeOK
    <3>2. Head(terms) \in Dirs => queue \o Listing[Head(terms)] \in Seq(Files)
      BY <2>1, <3>1, ConcatSeq
    <3> QED BY <1>0, <3>1, <3>2
  <2>3. terms' \in Seq(STRING)
    <3>1. terms \in Seq(STRING) /\ terms # <<>>
      BY <1>0 DEF TypeOK
    <3>2. Tail(terms) \in Seq(STRING)
      BY <3>1
    <3> QED BY <1>0, <3>1, <3>2
  <2> QED BY <1>0, <2>2, <2>3 DEF TypeOK
<1>2. PlaceInv'
  BY <1>0 DEF PlaceInv, InFile
<1>3. KeyInv'
  BY <1>0 DEF KeyInv, InFile, Known, Data
<1>4. FitInv'
  BY <1>0 DEF PlaceInv, FitInv
<1>5. UuidInv'
  BY <1>0 DEF UuidInv, Given, Unique, Apart, InFile
<1>6. LetterInv'
  BY <1>0 DEF LetterInv, Drafted, HasLetter, Data, Entry
<1>7. CurrentInv'
  BY <1>0 DEF CurrentInv, Current, Data, Entry
<1>8. RightSection'
  BY <1>0 DEF PlaceInv, RightSection
<1>9. ForeignKeys'
  BY <1>0 DEF ForeignKeys
<1> QED BY <1>1, <1>2, <1>3, <1>4, <1>5, <1>6, <1>7, <1>8, <1>9

LEMMA EndPathsInv ==
    ASSUME IInv, EndPaths
    PROVE  IInv'
<1> USE DEF IInv
<1>0. /\ stage = "paths" /\ stage' \in {"refused", "file"}
      /\ UNCHANGED <<json, terms, queue, file, entry, row, list, letters, current,
                     drafts, acts, courses, sections, activities, uuids, sql>>
  BY DEF EndPaths, untouched, fixed, ofFile, merged
<1>1. TypeOK'
  BY <1>0 DEF TypeOK
<1>2. PlaceInv'
  BY <1>0 DEF PlaceInv, InFile, Data
<1>3. KeyInv'
  BY <1>0 DEF KeyInv, InFile, Known, Data
<1>4. FitInv'
  BY <1>0 DEF FitInv, Fits, EntryAt
<1>5. UuidInv'
  BY <1>0 DEF UuidInv, Given, Unique, Apart, InFile
<1>6. LetterInv'
  BY <1>0 DEF LetterInv, Drafted, HasLetter, Data, Entry
<1>7. CurrentInv'
  BY <1>0 DEF CurrentInv, Current, Data, Entry
<1>8. RightSection'
  BY <1>0, SameSections
<1>9. ForeignKeys'
  BY <1>0 DEF ForeignKeys
<1> QED BY <1>1, <1>2, <1>3, <1>4, <1>5, <1>6, <1>7, <1>8, <1>9

LEMMA SkipFileInv ==
    ASSUME IInv, SkipFile
    PROVE  IInv'
<1> USE DEF IInv
<1>0. /\ stage = "file"
      /\ file' = file + 1 /\ file \in Nat
      /\ UNCHANGED <<json, stage, terms, queue, entry, row, list, letters, current,
                     drafts, acts, courses, sections, activities, uuids, sql>>
  BY  DEF SkipFile, TypeOK, fixed, ofFile, merged
<1>1. TypeOK'
  BY <1>0 DEF TypeOK
<1>2. PlaceInv'
  BY <1>0 DEF PlaceInv, InFile, Data
<1>3. KeyInv'
  BY <1>0 DEF KeyInv, InFile, Known, Data
<1>4. FitInv'
  BY <1>0 DEF FitInv, Fits, EntryAt
<1>5. UuidInv'
  BY <1>0 DEF UuidInv, Given, Unique, Apart, InFile
<1>6. LetterInv'
  BY <1>0 DEF LetterInv, Drafted, HasLetter, Data, Entry
<1>7. CurrentInv'
  BY <1>0 DEF CurrentInv, Current, Data, Entry
<1>8. RightSection'
  BY <1>0, SameSections
<1>9. ForeignKeys'
  BY <1>0 DEF ForeignKeys
<1> QED BY <1>1, <1>2, <1>3, <1>4, <1>5, <1>6, <1>7, <1>8, <1>9

LEMMA LoadFailsInv ==
    ASSUME IInv, LoadFails
    PROVE  IInv'
<1> USE DEF IInv
<1>0. /\ stage = "file" /\ stage' = "failed"
      /\ UNCHANGED <<json, terms, file, queue, entry, row, list, letters, current,
                     drafts, acts, courses, sections, activities, uuids, sql>>
  BY  DEF LoadFails, TypeOK, fixed, ofFile, merged
<1>1. TypeOK'
  BY <1>0 DEF TypeOK
<1>2. PlaceInv'
  BY <1>0 DEF PlaceInv, InFile, Data
<1>3. KeyInv'
  BY <1>0 DEF KeyInv, InFile, Known, Data
<1>4. FitInv'
  BY <1>0 DEF FitInv, Fits, EntryAt
<1>5. UuidInv'
  BY <1>0 DEF UuidInv, Given, Unique, Apart, InFile
<1>6. LetterInv'
  BY <1>0 DEF LetterInv, Drafted, HasLetter, Data, Entry
<1>7. CurrentInv'
  BY <1>0 DEF CurrentInv, Current, Data, Entry
<1>8. RightSection'
  BY <1>0, SameSections
<1>9. ForeignKeys'
  BY <1>0 DEF ForeignKeys
<1> QED BY <1>1, <1>2, <1>3, <1>4, <1>5, <1>6, <1>7, <1>8, <1>9

LEMMA OpenFileInv ==
    ASSUME IInv, OpenFile
    PROVE  IInv'
<1> USE DEF IInv
<1>0. /\ stage = "file" /\ stage' = "collect"
      /\ file \in DOMAIN queue
      /\ entry' = 1 /\ list' = <<>> /\ drafts' = <<>> /\ acts' = <<>>
      /\ UNCHANGED <<json, terms, queue, file, row, letters, current, courses, sections,
                     activities, uuids, sql>>
  BY InDomain DEF OpenFile, TypeOK, PlaceInv, fixed, ofFile, merged
<1>1. TypeOK'
  BY <1>0 DEF TypeOK
<1>2. PlaceInv'
  BY <1>0 DEF PlaceInv
<1>3. KeyInv'
  <2>1. \A e \in DOMAIN Data.courses : e \in Nat /\ e >= 1
    BY <1>0, FileType, SeqDomain DEF Data
  <2>2. \A e \in DOMAIN Data.courses : ~(e < 1)
    BY <2>1
  <2> QED BY <1>0, <2>2 DEF KeyInv, Data
<1>4. FitInv'
  BY <1>0 DEF FitInv, Fits, EntryAt
<1>5. UuidInv'
  BY <1>0 DEF UuidInv, Given, Unique, Apart, InFile
<1>6. LetterInv'
  BY <1>0 DEF LetterInv, Drafted, HasLetter, Data, Entry
<1>7. CurrentInv'
  BY <1>0 DEF CurrentInv, Current, Data, Entry
<1>8. RightSection'
  <2>1. ActsRight'
    BY <1>0 DEF ActsRight
  <2>2. ActivitiesRight'
    BY <1>0, SameActivities
  <2> QED BY <2>1, <2>2 DEF RightSection, ActsRight, ActivitiesRight
<1>9. ForeignKeys'
  BY <1>0 DEF ForeignKeys
<1> QED BY <1>1, <1>2, <1>3, <1>4, <1>5, <1>6, <1>7, <1>8, <1>9

LEMMA CollectInv ==
    ASSUME IInv, Collect
    PROVE  IInv'
<1> USE DEF IInv
<1>0. /\ stage = "collect" /\ InFile /\ entry \in DOMAIN Data.courses
      /\ uuids' = uuids + 1 /\ entry' = entry + 1 /\ uuids \in Nat /\ entry \in Nat
      /\ \/ Known(Key(Entry)) /\ list' = list
         \/ list' = Append(list, [uuid |-> uuids + 1, key |-> Key(Entry)])
      /\ UNCHANGED <<json, stage, terms, queue, file, row, letters, current, drafts,
                     acts, courses, sections, activities, sql>>
  BY Here DEF Collect, Collected, InFile, TypeOK, fixed, ofFile, merged
<1>1. TypeOK'
  <2>1. [uuid |-> uuids + 1, key |-> Key(Entry)] \in [uuid : Nat, key : CourseKey]
    BY <1>0, Here
  <2>2. list \in Seq([uuid : Nat, key : CourseKey])
    BY DEF TypeOK
  <2>3. Append(list, [uuid |-> uuids + 1, key |-> Key(Entry)])
           \in Seq([uuid : Nat, key : CourseKey])
    BY <2>1, <2>2, AppendAt
  <2>4. uuids' \in Nat /\ entry' \in Nat
    BY <1>0
  <2>5. list' \in Seq([uuid : Nat, key : CourseKey])
    BY <1>0, <2>2, <2>3
  <2> QED BY <1>0, <2>4, <2>5 DEF TypeOK
<1>10. /\ \A i \in DOMAIN list : i \in DOMAIN list' /\ list'[i] = list[i]
       /\ \A i \in DOMAIN list' : \/ i \in DOMAIN list
                                  \/ i = Len(list) + 1 /\ list'[i].uuid = uuids + 1
       /\ \E i \in DOMAIN list' : list'[i].key = Key(Entry)
  <2>1. [uuid |-> uuids + 1, key |-> Key(Entry)] \in [uuid : Nat, key : CourseKey]
    BY <1>0, Here
  <2>2. list \in Seq([uuid : Nat, key : CourseKey])
    BY DEF TypeOK
  <2>3. CASE Known(Key(Entry)) /\ list' = list
    BY <2>3 DEF Known
  <2>4. CASE list' = Append(list, [uuid |-> uuids + 1, key |-> Key(Entry)])
    BY <2>1, <2>2, <2>4, AppendAt
  <2> QED BY <1>0, <2>3, <2>4
<1>2. PlaceInv'
  BY <1>0 DEF PlaceInv, InFile, Data
<1>3. KeyInv'
  <2>1. \A e \in DOMAIN Data.courses : e < entry + 1 => e < entry \/ e = entry
    BY <1>0, Here, SeqDomain
  <2>2. \A e \in DOMAIN Data.courses : e < entry => Known(Key(Data.courses[e]))
    BY <1>0 DEF KeyInv
  <2>3. \A e \in DOMAIN Data.courses :
           e < entry => \E i \in DOMAIN list' : list'[i].key = Key(Data.courses[e])
    BY <1>10, <2>2 DEF Known
  <2>4. \E i \in DOMAIN list' : list'[i].key = Key(Data.courses[entry])
    BY <1>10 DEF Entry
  <2>5. \A e \in DOMAIN Data.courses :
           e < entry' => \E i \in DOMAIN list' : list'[i].key = Key(Data.courses[e])
    BY <1>0, <2>1, <2>3, <2>4
  <2>6. Data' = Data /\ stage' = "collect"
    BY <1>0 DEF Data
  <2> QED BY <2>5, <2>6 DEF KeyInv, Known
<1>4. FitInv'
  BY <1>0, <1>10 DEF FitInv, Fits, EntryAt
<1>5. UuidInv'
  <2>1. Given(list)' /\ Given(courses)' /\ Given(drafts)' /\ Given(sections)'
    BY <1>0, <1>10 DEF UuidInv, Given
  <2>2. Unique(list)'
    BY <1>0, <1>10 DEF UuidInv, Given, Unique
  <2>3. Apart(list, courses)'
    BY <1>0, <1>10 DEF UuidInv, Given, Apart
  <2> QED BY <1>0, <2>1, <2>2, <2>3 DEF UuidInv, Unique, Apart
<1>6. LetterInv'
  BY <1>0 DEF LetterInv, Drafted, HasLetter, Data, Entry
<1>7. CurrentInv'
  BY <1>0 DEF CurrentInv, Current, Data, Entry
<1>8. RightSection'
  BY <1>0, SameSections
<1>9. ForeignKeys'
  BY <1>0 DEF ForeignKeys
<1> QED BY <1>1, <1>2, <1>3, <1>4, <1>5, <1>6, <1>7, <1>8, <1>9

LEMMA EndCollectInv ==
    ASSUME IInv, EndCollect
    PROVE  IInv'
<1> USE DEF IInv
<1>0. /\ stage = "collect" /\ stage' = "letters" /\ InFile /\ InFile'
      /\ entry \in Nat /\ entry \notin DOMAIN Data.courses
      /\ entry' = 1 /\ row' = 1 /\ letters' = <<>>
      /\ UNCHANGED <<json, terms, queue, file, list, current, drafts, acts, courses,
                     sections, activities, uuids, sql>>
  BY Here DEF EndCollect, InFile, TypeOK, fixed, ofFile, merged
<1>1. TypeOK'
  BY <1>0 DEF TypeOK
<1>2. PlaceInv'
  BY <1>0 DEF PlaceInv, InFile, Data
<1>3. KeyInv'
  <2>1. \A e \in DOMAIN Data.courses : e < entry
    BY <1>0, Here, SeqDomain
  <2> QED BY <1>0, <2>1 DEF KeyInv, Known, Data
<1>4. FitInv'
  BY <1>0 DEF FitInv, Fits, EntryAt
<1>5. UuidInv'
  BY <1>0 DEF UuidInv, Given, Unique, Apart, InFile
<1>6. LetterInv'
  BY <1>0, FreshLetters
<1>7. CurrentInv'
  BY <1>0 DEF CurrentInv, Current, Data, Entry
<1>8. RightSection'
  BY <1>0, SameSections
<1>9. ForeignKeys'
  BY <1>0 DEF ForeignKeys
<1> QED BY <1>1, <1>2, <1>3, <1>4, <1>5, <1>6, <1>7, <1>8, <1>9

LEMMA NewLetterInv ==
    ASSUME IInv, NewLetter
    PROVE  IInv'
<1> USE DEF IInv
<1>0. /\ stage = "letters" /\ InFile
      /\ row' = row + 1 /\ uuids' = uuids + 1 /\ row \in Nat /\ uuids \in Nat
      /\ letters' = Append(letters, [letter |-> Row.letter, uuid |-> uuids + 1])
      /\ drafts' = Append(drafts, [uuid |-> uuids + 1, course |-> IndexOf(Key(Entry)),
                                     letter |-> Row.letter, from |-> <<file, entry>>])
      /\ UNCHANGED <<json, stage, terms, queue, file, entry, list, current, acts,
                     courses, sections, activities, sql>>
  BY DEF NewLetter, InFile, TypeOK, fixed, ofFile, merged
<1>a. /\ entry \in DOMAIN Data.courses /\ row \in DOMAIN Entry.sections
      /\ Row = Entry.sections[row]
      /\ Row.letter \in Letters /\ Row.letter # "" /\ ~HasLetter(Row.letter)
  BY <1>0, Here, RowType DEF NewLetter, Row
<1>b. /\ Data' = Data /\ Entry' = Entry
      /\ \A r \in DOMAIN Entry.sections : r < row + 1 <=> r < row \/ r = row
  <2>1. row \in Nat /\ Entry.sections \in Seq(CourseSection)
    BY <1>0, <1>a, Here
  <2>2. \A r \in DOMAIN Entry.sections : r < row + 1 <=> r < row \/ r = row
    BY <2>1, Below
  <2> QED BY <1>0, <2>2 DEF Data, Entry
<1>c. Known(Key(Entry)) /\ Key(Entry) = Key(EntryAt(file, entry))
  BY <1>0, <1>a, Here DEF KeyInv, Entry
<1>d. /\ IndexOf(Key(Entry)) \in DOMAIN list
      /\ list[IndexOf(Key(Entry))].key = Key(EntryAt(file, entry))
  BY <1>c, ByCode
<1> DEFINE letter == [letter |-> Row.letter, uuid |-> uuids + 1]
           draft == [uuid |-> uuids + 1, course |-> IndexOf(Key(Entry)), letter |-> Row.letter,
                     from |-> <<file, entry>>]
<1>e. /\ letters \in Seq([letter : Letters, uuid : Nat]) /\ drafts \in Seq(SectionOk)
      /\ IndexOf(Key(Entry)) \in Nat /\ <<file, entry>> \in Place
  <2>1. list \in Seq([uuid : Nat, key : CourseKey])
    BY DEF TypeOK
  <2>2. IndexOf(Key(Entry)) \in Nat
    BY <1>d, <2>1, SeqDomain
  <2> QED BY <2>2 DEF TypeOK, Place
<1>f. /\ letter \in [letter : Letters, uuid : Nat]
      /\ letter.letter = Row.letter /\ letter.uuid = uuids + 1
      /\ draft \in SectionOk
      /\ draft.uuid = uuids + 1 /\ draft.course = IndexOf(Key(Entry))
      /\ draft.letter = Row.letter /\ draft.from = <<file, entry>>
  <2> DEFINE id == uuids + 1  place == <<file, entry>>  name == Row.letter
             index == IndexOf(Key(Entry))
  <2>1. id \in Nat
    BY <1>0
  <2>2. place \in Place /\ name \in Letters /\ index \in Nat
    BY <1>a, <1>e, Zenon
  <2> HIDE DEF id, place, name, index
  <2>3. /\ [letter |-> name, uuid |-> id] \in [letter : Letters, uuid : Nat]
        /\ [uuid |-> id, course |-> index, letter |-> name, from |-> place] \in SectionOk
    BY <2>1, <2>2 DEF SectionOk
  <2>4. letter \in [letter : Letters, uuid : Nat] /\ draft \in SectionOk
    BY <2>3 DEF id, place, name, index
  <2> QED BY <2>4
<1>g. /\ letters' = Append(letters, letter) /\ drafts' = Append(drafts, draft)
  BY <1>0
<1> HIDE DEF letter, draft
<1>h. /\ letters' \in Seq([letter : Letters, uuid : Nat])
      /\ \A i \in DOMAIN letters : i \in DOMAIN letters' /\ letters'[i] = letters[i]
      /\ \A i \in DOMAIN letters' :
            i \in DOMAIN letters \/ (i = Len(letters) + 1 /\ letters'[i] = letter)
      /\ Len(letters) + 1 \in DOMAIN letters' /\ letters'[Len(letters) + 1] = letter
  BY <1>e, <1>f, <1>g, AppendAt
<1>i. /\ drafts' \in Seq(SectionOk)
      /\ \A i \in DOMAIN drafts : i \in DOMAIN drafts' /\ drafts'[i] = drafts[i]
      /\ \A i \in DOMAIN drafts' :
            i \in DOMAIN drafts \/ (i = Len(drafts) + 1 /\ drafts'[i] = draft)
      /\ Len(drafts) + 1 \in DOMAIN drafts' /\ drafts'[Len(drafts) + 1] = draft
  BY <1>e, <1>f, <1>g, AppendAt
<1>1. TypeOK'
  <2>1. uuids' \in Nat /\ row' \in Nat
    BY <1>0
  <2> QED BY <1>0, <1>h, <1>i, <2>1 DEF TypeOK
<1>2. PlaceInv'
  BY <1>0 DEF PlaceInv, InFile, Data
<1>3. KeyInv'
  BY <1>0 DEF KeyInv, InFile, Known, Data
<1>4. FitInv'
  <2>1. ASSUME NEW i \in DOMAIN drafts' PROVE Fits(drafts[i], list)'
    <3>1. CASE i \in DOMAIN drafts
      BY <1>0, <1>i, <3>1 DEF FitInv, Fits, EntryAt
    <3>2. CASE i \notin DOMAIN drafts
      <4>1. drafts'[i].course = IndexOf(Key(Entry)) /\ drafts'[i].from = <<file, entry>>
        BY <1>f, <1>i, <2>1, <3>2
      <4>2. drafts'[i].from[1] = file /\ drafts'[i].from[2] = entry
        BY <4>1
      <4> QED BY <1>0, <1>d, <4>1, <4>2 DEF Fits, EntryAt
    <3> QED BY <3>1, <3>2
  <2>2. \A i \in DOMAIN sections : Fits(sections[i], courses)'
    BY <1>0 DEF FitInv, Fits, EntryAt
  <2> QED BY <1>0, <2>1, <2>2 DEF FitInv
<1>5. UuidInv'
  <2>1. Given(list)' /\ Given(courses)' /\ Given(drafts)' /\ Given(sections)'
    BY <1>0, <1>f, <1>i DEF UuidInv, Given
  <2>2. Unique(drafts)'
    BY <1>0, <1>f, <1>i DEF UuidInv, Given, Unique
  <2>3. Apart(drafts, sections)'
    BY <1>0, <1>f, <1>i DEF UuidInv, Given, Apart
  <2> QED BY <1>0, <2>1, <2>2, <2>3 DEF UuidInv, Unique, Apart
<1>6. LetterInv'
  <2>1. \A l : Drafted(l) => Drafted(l)'
    BY <1>0, <1>i DEF Drafted
  <2>2. \A i \in DOMAIN letters' : Drafted(letters[i])'
    <3> SUFFICES ASSUME NEW i \in DOMAIN letters' PROVE Drafted(letters[i])'
      OBVIOUS
    <3>1. CASE i \in DOMAIN letters
      BY <1>0, <1>h, <2>1, <3>1 DEF LetterInv
    <3>2. CASE i \notin DOMAIN letters
      BY <1>0, <1>f, <1>h, <1>i, <3>2 DEF Drafted
    <3> QED BY <3>1, <3>2
  <2>3. \A name : HasLetter(name) => HasLetter(name)'
    BY <1>h DEF HasLetter
  <2>4. \E i \in DOMAIN letters' : letters'[i].letter = Row.letter
    BY <1>f, <1>h
  <2>5. ASSUME NEW r \in DOMAIN Entry.sections, r < row', Entry.sections[r].letter # ""
        PROVE  \E i \in DOMAIN letters' : letters'[i].letter = Entry.sections[r].letter
    <3>1. r < row \/ r = row
      BY <1>0, <1>b, <2>5
    <3>2. CASE r < row
      <4>1. HasLetter(Entry.sections[r].letter)
        BY <1>0, <1>a, <2>5, <3>2 DEF LetterInv
      <4> QED BY <1>h, <4>1 DEF HasLetter
    <3>3. CASE r = row
      BY <1>a, <2>4, <3>3
    <3> QED BY <3>1, <3>2, <3>3
  <2>6. \E r \in DOMAIN Entry.sections :
           /\ Entry.sections[r].letter = letters'[1].letter
           /\ Entry.sections[r].letter # ""
           /\ NoneAbove(Entry.sections, r)
    <3>1. CASE letters = <<>>
      <4>1. letters'[1].letter = Row.letter
        BY <1>e, <1>f, <1>g, <3>1
      <4>2. \A name : ~HasLetter(name)
        BY <3>1 DEF HasLetter
      <4>3. NoneAbove(Entry.sections, row)
        BY <1>0, <1>a, <4>2, Zenon DEF LetterInv, NoneAbove
      <4> QED BY <1>a, <4>1, <4>3
    <3>2. CASE letters # <<>>
      <4>1. letters'[1] = letters[1]
        BY <1>e, <1>h, <3>2, NotEmpty
      <4> QED BY <1>0, <1>a, <3>2, <4>1 DEF LetterInv
    <3> QED BY <3>1, <3>2
  <2>7. stage' = "letters" /\ entry' = entry
    BY <1>0
  <2>8. \A r \in DOMAIN Entry'.sections :
           r < row' /\ Entry'.sections[r].letter # "" => HasLetter(Entry.sections[r].letter)'
    BY <1>b, <2>5 DEF HasLetter
  <2> QED BY <1>a, <1>b, <2>2, <2>6, <2>7, <2>8 DEF LetterInv
<1>7. CurrentInv'
  BY <1>0 DEF CurrentInv, Current, Data, Entry
<1>8. RightSection'
  <2>1. \A a \in DOMAIN acts : \E s \in DOMAIN drafts' : BelongsTo(acts[a], drafts'[s])
    BY <1>i DEF RightSection
  <2>2. ActsRight'
    BY <1>0, <2>1 DEF ActsRight, BelongsTo, EntryAt
  <2>3. ActivitiesRight'
    BY <1>0, SameActivities
  <2> QED BY <2>2, <2>3 DEF RightSection, ActsRight, ActivitiesRight
<1>9. ForeignKeys'
  BY <1>0 DEF ForeignKeys
<1> QED BY <1>1, <1>2, <1>3, <1>4, <1>5, <1>6, <1>7, <1>8, <1>9

LEMMA NoNewLetterInv ==
    ASSUME IInv, NoNewLetter
    PROVE  IInv'
<1> USE DEF IInv
<1>0. /\ stage = "letters" /\ InFile
      /\ row' = row + 1 /\ row \in Nat
      /\ UNCHANGED <<json, stage, terms, queue, file, entry, list, letters, current,
                     drafts, acts, courses, sections, activities, uuids, sql>>
  BY DEF NoNewLetter, InFile, TypeOK, fixed, ofFile, merged
<1>a. /\ entry \in DOMAIN Data.courses /\ row \in DOMAIN Entry.sections
      /\ Row = Entry.sections[row] /\ (Row.letter = "" \/ HasLetter(Row.letter))
  BY <1>0, Here DEF NoNewLetter, Row
<1>b. /\ Data' = Data /\ Entry' = Entry
      /\ \A r \in DOMAIN Entry.sections : r < row + 1 <=> r < row \/ r = row
  <2>1. row \in Nat /\ Entry.sections \in Seq(CourseSection)
    BY <1>0, <1>a, Here
  <2>2. \A r \in DOMAIN Entry.sections : r < row + 1 <=> r < row \/ r = row
    BY <2>1, Below
  <2> QED BY <1>0, <2>2 DEF Data, Entry
<1>1. TypeOK'
  BY <1>0 DEF TypeOK
<1>2. PlaceInv'
  BY <1>0 DEF PlaceInv, InFile, Data
<1>3. KeyInv'
  BY <1>0 DEF KeyInv, InFile, Known, Data
<1>4. FitInv'
  BY <1>0 DEF FitInv, Fits, EntryAt
<1>5. UuidInv'
  BY <1>0 DEF UuidInv, Given, Unique, Apart, InFile
<1>6. LetterInv'
  BY <1>0, <1>a, <1>b DEF LetterInv, Drafted, HasLetter
<1>7. CurrentInv'
  BY <1>0 DEF CurrentInv, Current, Data, Entry
<1>8. RightSection'
  BY <1>0, SameSections
<1>9. ForeignKeys'
  BY <1>0 DEF ForeignKeys
<1> QED BY <1>1, <1>2, <1>3, <1>4, <1>5, <1>6, <1>7, <1>8, <1>9

LEMMA SecondPassInv ==
    ASSUME IInv, SecondPass
    PROVE  IInv'
<1> USE DEF IInv
<1>0. /\ stage = "letters" /\ stage' = "activities" /\ InFile /\ InFile'
      /\ row' = 1 /\ current' = NoUuid
      /\ UNCHANGED <<json, terms, queue, file, entry, list, letters, drafts, acts,
                     courses, sections, activities, uuids, sql>>
  BY DEF SecondPass, InFile, TypeOK, fixed, ofFile, merged
<1>a. /\ entry \in DOMAIN Data.courses /\ Data' = Data /\ Entry' = Entry
      /\ \A r \in DOMAIN Entry.sections : r < row /\ ~(r < 1)
  <2>1. entry \in DOMAIN Data.courses /\ row \in Nat /\ row \notin DOMAIN Entry.sections
    BY <1>0, Here DEF SecondPass, TypeOK
  <2> QED BY <1>0, <2>1, Here, SeqDomain DEF Data, Entry
<1>1. TypeOK'
  BY <1>0 DEF TypeOK, NoUuid
<1>2. PlaceInv'
  BY <1>0, <1>a DEF PlaceInv
<1>3. KeyInv'
  BY <1>0 DEF KeyInv, InFile, Known, Data
<1>4. FitInv'
  BY <1>0 DEF FitInv, Fits, EntryAt
<1>5. UuidInv'
  BY <1>0 DEF UuidInv, Given, Unique, Apart, InFile
<1>6. LetterInv'
  BY <1>0, <1>a DEF LetterInv, Drafted, HasLetter
<1>7. CurrentInv'
  BY <1>0, <1>a DEF CurrentInv, NoneAbove
<1>8. RightSection'
  BY <1>0, SameSections
<1>9. ForeignKeys'
  BY <1>0 DEF ForeignKeys
<1> QED BY <1>1, <1>2, <1>3, <1>4, <1>5, <1>6, <1>7, <1>8, <1>9

LEMMA ActivityInv ==
    ASSUME IInv, Activity
    PROVE  IInv'
<1> USE DEF IInv
<1> DEFINE rows == Entry.sections
           act == [section |-> SectionOf, type |-> Row.type, names |-> Row.names,
                   from |-> <<file, entry, row>>]
           In(name) == \E i \in DOMAIN letters :
                          letters[i].uuid = SectionOf /\ letters[i].letter = name
<1>0. /\ stage = "activities" /\ InFile
      /\ row' = row + 1 /\ row \in Nat /\ current' = SectionOf
      /\ \/ SectionOf = NoUuid /\ acts' = acts
         \/ SectionOf # NoUuid /\ acts' = Append(acts, act)
      /\ UNCHANGED <<json, stage, terms, queue, file, entry, list, letters, drafts,
                     courses, sections, activities, uuids, sql>>
  BY DEF Activity, InFile, TypeOK, fixed, ofFile, merged
<1>a. /\ entry \in DOMAIN Data.courses /\ row \in DOMAIN rows /\ rows \in Seq(CourseSection)
      /\ Row = rows[row] /\ Entry = EntryAt(file, entry)
      /\ Row.type \in Types /\ Row.names \in SUBSET Names
  BY <1>0, Here, RowType DEF Activity, Row
<1>b. /\ Data' = Data /\ Entry' = Entry
      /\ DOMAIN rows = 1..Len(rows) /\ Len(rows) \in Nat
  BY <1>0, <1>a, SeqDomain DEF Data, Entry
<1>c. /\ letters \in Seq([letter : Letters, uuid : Nat])
      /\ \A i \in DOMAIN letters : letters[i].uuid \in Nat /\ letters[i].uuid # NoUuid
  <2>1. \A d \in DOMAIN drafts : drafts[d].uuid \in 1..uuids
    BY DEF UuidInv, Given
  <2>2. \A i \in DOMAIN letters : letters[i].uuid \in 1..uuids
    BY <1>0, <2>1 DEF LetterInv, Drafted
  <2> QED BY <2>2 DEF TypeOK, NoUuid
<1>d. /\ Row.letter # "" => SectionOf = UuidOf(Row.letter)
      /\ Row.letter = "" /\ current # NoUuid => SectionOf = current
      /\ Row.letter = "" /\ current = NoUuid /\ letters # <<>> => SectionOf = letters[1].uuid
      /\ Row.letter = "" /\ current = NoUuid /\ letters = <<>> => SectionOf = NoUuid
  BY DEF SectionOf
(* The section of the row is that of its letter, and the next row follows on. *)
<1>e. ASSUME Row.letter # ""
      PROVE  In(LetterFor(rows, row)) /\ Nearest(rows, row, row + 1) /\ In(rows[row].letter)
  <2>1. HasLetter(Row.letter)
    BY <1>0, <1>a, <1>e DEF LetterInv
  <2>2. In(Row.letter)
    BY <1>d, <1>e, <2>1, ByLetter
  <2>3. LetterFor(rows, row) = rows[row].letter
    BY <1>a, <1>e, LetterInSection
  <2> QED BY <1>a, <1>e, <2>2, <2>3, OneMore
<1>f. ASSUME Row.letter = "", NEW m \in DOMAIN rows, Nearest(rows, m, row), Current(rows[m].letter)
      PROVE  In(LetterFor(rows, row)) /\ Nearest(rows, m, row + 1) /\ In(rows[m].letter)
  <2>1. In(rows[m].letter)
    BY <1>c, <1>d, <1>f DEF Current
  <2>2. LetterFor(rows, row) = rows[m].letter
    BY <1>a, <1>f, LetterInSection
  <2> QED BY <1>a, <1>f, <2>1, <2>2, OneMore
<1>g. ASSUME Row.letter = "", NoneAbove(rows, row),
             current = NoUuid \/ (letters # <<>> /\ current = letters[1].uuid)
      PROVE  /\ NoneAbove(rows, row + 1)
             /\ \/ letters = <<>> /\ SectionOf = NoUuid
                \/ letters # <<>> /\ SectionOf = letters[1].uuid /\ In(LetterFor(rows, row))
  <2>1. NoneAbove(rows, row + 1)
    BY <1>a, <1>g, OneMore
  <2>2. CASE letters = <<>>
    BY <1>d, <1>g, <2>1, <2>2
  <2>3. CASE letters # <<>>
    <3>1. SectionOf = letters[1].uuid /\ 1 \in DOMAIN letters
      BY <1>c, <1>d, <1>g, <2>3, NotEmpty
    <3>2. PICK m \in DOMAIN rows : /\ rows[m].letter = letters[1].letter
                                   /\ rows[m].letter # "" /\ NoneAbove(rows, m)
      BY <1>0, <1>a, <2>3 DEF LetterInv
    <3>3. LetterFor(rows, row) = rows[m].letter
      BY <1>a, <1>g, <3>2, LetterInSection
    <3> QED BY <2>1, <2>3, <3>1, <3>2, <3>3
  <2> QED BY <2>2, <2>3
<1>h. \/ \E m \in DOMAIN rows : Nearest(rows, m, row) /\ Current(rows[m].letter)
      \/ NoneAbove(rows, row) /\ (current = NoUuid \/ (letters # <<>> /\ current = letters[1].uuid))
  BY <1>0 DEF CurrentInv
<1>i. SectionOf # NoUuid => In(LetterFor(rows, row))
  BY <1>e, <1>f, <1>g, <1>h
<1>j. \/ \E m \in DOMAIN rows : Nearest(rows, m, row + 1) /\ In(rows[m].letter)
      \/ /\ NoneAbove(rows, row + 1)
         /\ SectionOf = NoUuid \/ (letters # <<>> /\ SectionOf = letters[1].uuid)
  BY <1>a, <1>e, <1>f, <1>g, <1>h
<1>k. SectionOf \in Nat /\ act \in ActivityOk /\ acts \in Seq(ActivityOk)
  <2>1. SectionOf \in Nat
    BY <1>c, <1>i DEF NoUuid
  <2>2. <<file, entry, row>> \in Nat \X Nat \X Nat
    BY DEF TypeOK
  <2> QED BY <1>a, <2>1, <2>2 DEF ActivityOk, TypeOK
<1>l. /\ act.section = SectionOf /\ act.from[1] = file /\ act.from[2] = entry /\ act.from[3] = row
  OBVIOUS
<1> HIDE DEF act
<1>1. TypeOK'
  <2>1. acts' \in Seq(ActivityOk)
    BY <1>0, <1>k, AppendAt
  <2> QED BY <1>0, <1>k, <2>1 DEF TypeOK
<1>2. PlaceInv'
  BY <1>0 DEF PlaceInv, InFile, Data
<1>3. KeyInv'
  BY <1>0 DEF KeyInv, InFile, Known, Data
<1>4. FitInv'
  BY <1>0 DEF FitInv, Fits, EntryAt
<1>5. UuidInv'
  BY <1>0 DEF UuidInv, Given, Unique, Apart, InFile
<1>6. LetterInv'
  BY <1>0 DEF LetterInv, Drafted, HasLetter, Data, Entry
<1>7. CurrentInv'
  BY <1>0, <1>b, <1>j DEF CurrentInv, Current
<1>8. RightSection'
  <2>1. SectionOf # NoUuid => \E d \in DOMAIN drafts : BelongsTo(act, drafts[d])
    <3> SUFFICES ASSUME SectionOf # NoUuid PROVE \E d \in DOMAIN drafts : BelongsTo(act, drafts[d])
      OBVIOUS
    <3>1. PICK i \in DOMAIN letters : /\ letters[i].uuid = SectionOf
                                      /\ letters[i].letter = LetterFor(rows, row)
      BY <1>i
    <3>2. PICK d \in DOMAIN drafts : /\ drafts[d].uuid = letters[i].uuid
                                     /\ drafts[d].letter = letters[i].letter
                                     /\ drafts[d].from = <<file, entry>>
      BY <1>0, <3>1 DEF LetterInv, Drafted
    <3>3. BelongsTo(act, drafts[d])
      BY <1>a, <1>l, <3>1, <3>2 DEF BelongsTo
    <3> QED BY <3>3
  <2>2. \A a \in DOMAIN acts : \E d \in DOMAIN drafts : BelongsTo(acts[a], drafts[d])
    BY DEF RightSection
  <2>3. \A a \in DOMAIN acts' : \E d \in DOMAIN drafts : BelongsTo(acts'[a], drafts[d])
    <3>1. CASE SectionOf = NoUuid
      BY <1>0, <2>2, <3>1
    <3>2. CASE SectionOf # NoUuid
      <4>1. \A a \in DOMAIN acts' : \/ a \in DOMAIN acts /\ acts'[a] = acts[a]
                                   \/ acts'[a] = act
        BY <1>0, <1>k, <3>2, AppendAt
      <4> QED BY <2>1, <2>2, <3>2, <4>1
    <3> QED BY <3>1, <3>2
  <2>4. ActsRight'
    BY <1>0, <2>3 DEF ActsRight, BelongsTo, EntryAt
  <2>5. ActivitiesRight'
    BY <1>0, SameActivities
  <2> QED BY <2>4, <2>5 DEF RightSection, ActsRight, ActivitiesRight
<1>9. ForeignKeys'
  BY <1>0 DEF ForeignKeys
<1> QED BY <1>1, <1>2, <1>3, <1>4, <1>5, <1>6, <1>7, <1>8, <1>9

LEMMA NextEntryInv ==
    ASSUME IInv, NextEntry
    PROVE  IInv'
<1> USE DEF IInv
<1>0. /\ stage = "activities" /\ stage' = "letters" /\ InFile /\ InFile'
      /\ entry' = entry + 1 /\ row' = 1 /\ letters' = <<>> /\ entry \in Nat
      /\ UNCHANGED <<json, terms, queue, file, list, current, drafts, acts, courses,
                     sections, activities, uuids, sql>>
  BY DEF NextEntry, InFile, TypeOK, fixed, ofFile, merged
<1>1. TypeOK'
  BY <1>0 DEF TypeOK
<1>2. PlaceInv'
  BY <1>0 DEF PlaceInv, InFile, Data
<1>3. KeyInv'
  BY <1>0 DEF KeyInv, InFile, Known, Data
<1>4. FitInv'
  BY <1>0 DEF FitInv, Fits, EntryAt
<1>5. UuidInv'
  BY <1>0 DEF UuidInv, Given, Unique, Apart, InFile
<1>6. LetterInv'
  BY <1>0, FreshLetters
<1>7. CurrentInv'
  BY <1>0 DEF CurrentInv, Current, Data, Entry
<1>8. RightSection'
  BY <1>0, SameSections
<1>9. ForeignKeys'
  BY <1>0 DEF ForeignKeys
<1> QED BY <1>1, <1>2, <1>3, <1>4, <1>5, <1>6, <1>7, <1>8, <1>9

LEMMA MergeInv ==
    ASSUME IInv, Merge
    PROVE  IInv'
<1> USE DEF IInv
<1>0. /\ stage = "letters" /\ stage' = "file" /\ InFile /\ ~InFile'
      /\ courses' = courses \o list /\ sections' = sections \o Moved
      /\ activities' = activities \o acts
      /\ file' = file + 1 /\ file \in Nat
      /\ UNCHANGED <<json, terms, queue, entry, row, list, letters, current, drafts,
                     acts, uuids, sql>>
  BY DEF Merge, InFile, TypeOK, fixed, ofFile, merged
<1> DEFINE CourseOk == [uuid : Nat, key : CourseKey]
<1>a. /\ courses \in Seq(CourseOk) /\ list \in Seq(CourseOk)
      /\ drafts \in Seq(SectionOk) /\ sections \in Seq(SectionOk)
      /\ activities \in Seq(ActivityOk) /\ acts \in Seq(ActivityOk)
      /\ Len(courses) \in Nat
  BY DEF TypeOK
<1> HIDE DEF CourseOk
<1>b. /\ Moved \in Seq(SectionOk) /\ DOMAIN Moved = DOMAIN drafts
      /\ \A j \in DOMAIN drafts :
            /\ Moved[j].uuid = drafts[j].uuid /\ Moved[j].letter = drafts[j].letter
            /\ Moved[j].from = drafts[j].from
            /\ Moved[j].course = drafts[j].course + Len(courses)
  BY <1>a, MovedSections
<1>c. /\ courses' \in Seq(CourseOk)
      /\ \A i \in DOMAIN courses : i \in DOMAIN courses' /\ courses'[i] = courses[i]
      /\ \A j \in DOMAIN list : /\ Len(courses) + j \in DOMAIN courses'
                                /\ courses'[Len(courses) + j] = list[j]
  <2> DEFINE joined == courses \o list
  <2>1. /\ joined \in Seq(CourseOk)
        /\ \A i \in DOMAIN courses : i \in DOMAIN joined /\ joined[i] = courses[i]
        /\ \A j \in DOMAIN list : /\ Len(courses) + j \in DOMAIN joined
                                   /\ joined[Len(courses) + j] = list[j]
    BY <1>a, ConcatAt, Zenon
  <2> QED BY <1>0, <2>1, Zenon
<1>d. /\ sections' \in Seq(SectionOk)
      /\ \A i \in DOMAIN sections : i \in DOMAIN sections' /\ sections'[i] = sections[i]
      /\ \A j \in DOMAIN drafts : /\ Len(sections) + j \in DOMAIN sections'
                                  /\ sections'[Len(sections) + j] = Moved[j]
      /\ \A i \in DOMAIN sections' :
            i \in DOMAIN sections \/ \E j \in DOMAIN drafts : i = Len(sections) + j
  <2>0. sections \in Seq(SectionOk) /\ Moved \in Seq(SectionOk)
    BY <1>a, <1>b
  <2> DEFINE joined == sections \o Moved
  <2>1. /\ joined \in Seq(SectionOk)
        /\ \A i \in DOMAIN sections : i \in DOMAIN joined /\ joined[i] = sections[i]
        /\ \A j \in DOMAIN Moved : /\ Len(sections) + j \in DOMAIN joined
                                    /\ joined[Len(sections) + j] = Moved[j]
        /\ \A i \in DOMAIN joined :
              i \in DOMAIN sections \/ \E j \in DOMAIN Moved : i = Len(sections) + j
    BY <2>0, ConcatAt, Zenon
  <2> QED BY <1>0, <1>b, <2>1, Zenon
<1>e. /\ activities' \in Seq(ActivityOk)
      /\ \A i \in DOMAIN activities : activities'[i] = activities[i]
      /\ \A j \in DOMAIN acts : activities'[Len(activities) + j] = acts[j]
      /\ \A i \in DOMAIN activities' :
            i \in DOMAIN activities \/ \E j \in DOMAIN acts : i = Len(activities) + j
  <2> DEFINE joined == activities \o acts
  <2>1. /\ joined \in Seq(ActivityOk)
        /\ \A i \in DOMAIN activities : joined[i] = activities[i]
        /\ \A j \in DOMAIN acts : joined[Len(activities) + j] = acts[j]
        /\ \A i \in DOMAIN joined :
              i \in DOMAIN activities \/ \E j \in DOMAIN acts : i = Len(activities) + j
    BY <1>a, ConcatAt, Zenon
  <2> QED BY <1>0, <2>1, Zenon
<1>1. TypeOK'
  <2>1. file' \in Nat
    BY <1>0
  <2> QED BY <1>0, <1>c, <1>d, <1>e, <2>1 DEF TypeOK, CourseOk
<1>2. PlaceInv'
  BY <1>0 DEF PlaceInv, InFile, Data
<1>3. KeyInv'
  BY <1>0 DEF KeyInv
<1>4. FitInv'
  <2>1. ASSUME NEW i \in DOMAIN sections PROVE Fits(sections'[i], courses')
    BY <1>c, <1>d, <2>1 DEF FitInv, Fits
  <2>2. ASSUME NEW j \in DOMAIN drafts PROVE Fits(sections'[Len(sections) + j], courses')
    <3>1. /\ drafts[j].course \in DOMAIN list
          /\ list[drafts[j].course].key = Key(EntryAt(drafts[j].from[1], drafts[j].from[2]))
      BY <2>2 DEF FitInv, Fits
    <3>2. Moved[j].course = Len(courses) + drafts[j].course
      <4>1. drafts[j].course \in Nat
        BY <1>a, <3>1, SeqDomain
      <4> QED BY <1>a, <1>b, <2>2, <4>1
    <3>3. sections'[Len(sections) + j] = Moved[j] /\ Moved[j].from = drafts[j].from
      BY <1>b, <1>d, <2>2
    <3> QED BY <1>c, <3>1, <3>2, <3>3 DEF Fits
  <2>3. \A i \in DOMAIN sections' : Fits(sections'[i], courses')
    BY <1>d, <2>1, <2>2
  <2>4. \A i \in DOMAIN drafts : Fits(drafts[i], list)
    BY DEF FitInv
  <2> QED BY <1>0, <2>3, <2>4 DEF FitInv, Fits, EntryAt
<1>5. UuidInv'
  <2>1. Given(Moved) /\ Unique(Moved) /\ Apart(Moved, sections) /\ Apart(list, courses)
    BY <1>0, <1>b DEF UuidInv, Given, Unique, Apart
  <2>2. Given(courses \o list) /\ Unique(courses \o list)
    BY <1>a, <2>1, ConcatUuids DEF UuidInv
  <2>3. Given(sections \o Moved) /\ Unique(sections \o Moved)
    BY <1>a, <1>b, <2>1, ConcatUuids DEF UuidInv
  <2>4. Given(courses)' /\ Given(sections)' /\ Unique(courses)' /\ Unique(sections)'
    BY <1>0, <2>2, <2>3 DEF Given, Unique
  <2>5. Given(list)' /\ Given(drafts)' /\ Unique(list)' /\ Unique(drafts)'
    BY <1>0 DEF UuidInv, Given, Unique
  <2> QED BY <1>0, <2>4, <2>5 DEF UuidInv
<1>6. LetterInv'
  BY <1>0 DEF LetterInv, Drafted, HasLetter, Data, Entry
<1>7. CurrentInv'
  BY <1>0 DEF CurrentInv, Current, Data, Entry
<1>8. RightSection'
  <2>1. ASSUME NEW a \in DOMAIN activities
        PROVE  \E s \in DOMAIN sections' : BelongsTo(activities'[a], sections'[s])
    <3>1. PICK s \in DOMAIN sections : BelongsTo(activities[a], sections[s])
      BY <2>1 DEF RightSection
    <3> QED BY <1>d, <1>e, <2>1, <3>1
  <2>2. ASSUME NEW a \in DOMAIN acts
        PROVE  \E s \in DOMAIN sections' :
                  BelongsTo(activities'[Len(activities) + a], sections'[s])
    <3>1. PICK d \in DOMAIN drafts : BelongsTo(acts[a], drafts[d])
      BY <2>2 DEF RightSection
    <3>2. BelongsTo(acts[a], Moved[d])
      BY <1>b, <3>1 DEF BelongsTo
    <3> QED BY <1>d, <1>e, <2>2, <3>1, <3>2
  <2>3. \A a \in DOMAIN activities' :
           \E s \in DOMAIN sections' : BelongsTo(activities'[a], sections'[s])
    BY <1>e, <2>1, <2>2
  <2>4. ActivitiesRight'
    BY <1>0, <2>3 DEF ActivitiesRight, BelongsTo, EntryAt
  <2>5. ActsRight'
    BY <1>0, SameActs
  <2> QED BY <2>4, <2>5 DEF RightSection, ActsRight, ActivitiesRight
<1>9. ForeignKeys'
  BY <1>0 DEF ForeignKeys
<1> QED BY <1>1, <1>2, <1>3, <1>4, <1>5, <1>6, <1>7, <1>8, <1>9

LEMMA WriteInv ==
    ASSUME IInv, Write
    PROVE  IInv'
<1> USE DEF IInv
<1>0. /\ stage = "file" /\ stage' = "written"
      /\ sql' = [courses |-> CourseRows, sections |-> SectionRows,
                 activities |-> ActivityRows, instructors |-> InstructorRows]
      /\ UNCHANGED <<json, terms, queue, file, entry, row, list, letters, current,
                     drafts, acts, courses, sections, activities, uuids>>
  BY DEF Write, fixed, ofFile, merged
<1>1. TypeOK'
  BY <1>0 DEF TypeOK
<1>2. PlaceInv'
  BY <1>0 DEF PlaceInv, InFile, Data
<1>3. KeyInv'
  BY <1>0 DEF KeyInv, InFile, Known, Data
<1>4. FitInv'
  BY <1>0 DEF FitInv, Fits, EntryAt
<1>5. UuidInv'
  BY <1>0 DEF UuidInv, Given, Unique, Apart, InFile
<1>6. LetterInv'
  BY <1>0 DEF LetterInv, Drafted, HasLetter, Data, Entry
<1>7. CurrentInv'
  BY <1>0 DEF CurrentInv, Current, Data, Entry
<1>8. RightSection'
  BY <1>0, SameSections
<1>9. ForeignKeys'
  <2>0. /\ DOMAIN SectionRows = DOMAIN sections /\ DOMAIN CourseRows = DOMAIN courses
        /\ \A i \in DOMAIN sections :
              /\ SectionRows[i].uuid = sections[i].uuid
              /\ SectionRows[i].course = courses[sections[i].course].uuid
        /\ \A i \in DOMAIN courses : CourseRows[i].uuid = courses[i].uuid
    BY DEF SectionRows, CourseRows
  <2>1. \A s \in DOMAIN SectionRows : \E c \in DOMAIN CourseRows :
           CourseRows[c].uuid = SectionRows[s].course
    <3> SUFFICES ASSUME NEW i \in DOMAIN sections
                 PROVE  \E c \in DOMAIN CourseRows : CourseRows[c].uuid = SectionRows[i].course
      BY <2>0
    <3>1. sections[i].course \in DOMAIN courses
      BY DEF FitInv, Fits
    <3> QED BY <2>0, <3>1
  <2>2. ASSUME NEW a \in DOMAIN ActivityRows
        PROVE  \E s \in DOMAIN SectionRows : /\ SectionRows[s].uuid = ActivityRows[a].section
                                             /\ SectionRows[s].uuid = InstructorRows[a].section
    <3>1. a \in DOMAIN activities
      BY DEF ActivityRows
    <3>2. PICK i \in DOMAIN sections : activities[a].section = sections[i].uuid
      BY <3>1 DEF RightSection, BelongsTo
    <3> QED BY <2>0, <3>1, <3>2 DEF ActivityRows, InstructorRows
  <2>3. OnceEach(SectionRows)
    BY <2>0 DEF UuidInv, Unique, OnceEach
  <2>4. OnceEach(CourseRows)
    BY <2>0 DEF UuidInv, Unique, OnceEach
  <2>5. /\ sql'.sections = SectionRows /\ sql'.courses = CourseRows
        /\ sql'.activities = ActivityRows /\ sql'.instructors = InstructorRows
    BY <1>0
  <2> QED BY <2>1, <2>2, <2>3, <2>4, <2>5 DEF ForeignKeys
<1> QED BY <1>1, <1>2, <1>3, <1>4, <1>5, <1>6, <1>7, <1>8, <1>9

LEMMA StutterInv == ASSUME IInv, UNCHANGED vars PROVE IInv'
<1> USE DEF IInv, vars, fixed, ofFile, merged
<1>1. TypeOK' /\ PlaceInv'
  BY DEF TypeOK, PlaceInv, InFile, Data
<1>2. KeyInv' /\ FitInv'
  BY DEF KeyInv, InFile, Known, Data, FitInv, Fits, EntryAt
<1>3. UuidInv'
  BY DEF UuidInv, Given, Unique, Apart, InFile
<1>4. LetterInv'
  BY DEF LetterInv, Drafted, HasLetter, Data, Entry
<1>5. CurrentInv'
  BY DEF CurrentInv, Current, Data, Entry
<1>6. RightSection'
  BY SameSections
<1>7. ForeignKeys'
  BY DEF ForeignKeys
<1> QED BY <1>1, <1>2, <1>3, <1>4, <1>5, <1>6, <1>7

LEMMA NextInv == ASSUME IInv, [Next]_vars PROVE IInv'
<1>1. CASE \E request \in Requests : Arguments(request)
  BY <1>1, ArgumentsInv
<1>2. CASE ListTerm \/ EndPaths \/ SkipFile \/ LoadFails \/ OpenFile
  BY <1>2, ListTermInv, EndPathsInv, SkipFileInv, LoadFailsInv, OpenFileInv
<1>3. CASE Collect \/ EndCollect \/ NewLetter \/ NoNewLetter \/ SecondPass
  BY <1>3, CollectInv, EndCollectInv, NewLetterInv, NoNewLetterInv, SecondPassInv
<1>4. CASE Activity \/ NextEntry \/ Merge \/ Write
  BY <1>4, ActivityInv, NextEntryInv, MergeInv, WriteInv
<1>5. CASE UNCHANGED vars
  BY <1>5, StutterInv
<1> QED BY <1>1, <1>2, <1>3, <1>4, <1>5 DEF Next, GeneratorNext

(* All of the parts hold together at every step of the script. *)
THEOREM Invariance == Spec => []IInv
<1>1. IInv /\ [Next]_vars => IInv'
  BY NextInv
<1> QED BY <1>1, InitInv, PTL DEF Spec

(* Every variable keeps its type. *)
THEOREM TypeCorrect == Spec => []TypeOK
<1>1. IInv => TypeOK
  BY DEF IInv
<1> QED BY <1>1, Invariance, PTL

(* The index of a section leads to the course of the entry that the section *)
(* comes from, whatever files were merged before and after its own.         *)
THEOREM SectionsLeadToTheirCourse == Spec => []RightCourse
<1>1. IInv => RightCourse
  BY DEF IInv, RightCourse, FitInv, Fits
<1> QED BY <1>1, Invariance, PTL

(* Every activity is in the section of the letter nearest above its row, or *)
(* of the first letter of its entry.                                        *)
THEOREM ActivitiesAreInTheirSection == Spec => []RightSection
<1>1. IInv => RightSection
  BY DEF IInv
<1> QED BY <1>1, Invariance, PTL

(* The statements of the seed satisfy the keys of the tables. *)
THEOREM KeysAreSatisfied == Spec => []ForeignKeys
<1>1. IInv => ForeignKeys
  BY DEF IInv
<1> QED BY <1>1, Invariance, PTL

-----------------------------------------------------------------------------
(* Every row is one activity *)

(* The rows that the seed owes an activity: w is a file of the queue, an   *)
(* entry and a row.                                                        *)
HasLetters(f, e) ==
    \E r \in DOMAIN EntryAt(f, e).sections : EntryAt(f, e).sections[r].letter # ""
Owed == {w \in Nat \X Nat \X Nat :
           /\ w[1] \in DOMAIN queue /\ json[queue[w[1]]].form = "export"
           /\ w[2] \in DOMAIN json[queue[w[1]]].courses
           /\ w[3] \in DOMAIN EntryAt(w[1], w[2]).sections
           /\ HasLetters(w[1], w[2])}

(* The rows of the files before, and the rows of this one that are done.   *)
Before == {w \in Owed : w[1] < file}
DoneHere == {w \in Owed :
               /\ w[1] = file /\ stage # "collect"
               /\ w[2] < entry \/ (w[2] = entry /\ stage = "activities" /\ w[3] < row)}

(* The activities of s come from the rows of W, one from each. *)
OneEach(s, W) == /\ \A a \in DOMAIN s : s[a].from \in W
                 /\ \A w \in W : \E a \in DOMAIN s : s[a].from = w
                 /\ \A a, b \in DOMAIN s : s[a].from = s[b].from => a = b

(* No row is in the lists before its turn, or in them twice.                *)
OnceInv == /\ stage \in {"arguments", "paths", "refused"} => file = 1
           /\ stage = "written" => file > Len(queue)
           /\ InFile => Data.form = "export"
           /\ OneEach(activities, Before)
           /\ InFile => OneEach(acts, DoneHere)

LEMMA OneEachAppended ==
    ASSUME NEW S, NEW s \in Seq(S), NEW x \in S, NEW W, OneEach(s, W), x.from \notin W
    PROVE  OneEach(Append(s, x), W \cup {x.from})
<1>1. /\ \A i \in DOMAIN s : i \in DOMAIN Append(s, x) /\ Append(s, x)[i] = s[i]
      /\ \A i \in DOMAIN Append(s, x) :
            i \in DOMAIN s \/ (i = Len(s) + 1 /\ Append(s, x)[i] = x)
      /\ Len(s) + 1 \in DOMAIN Append(s, x) /\ Append(s, x)[Len(s) + 1] = x
  BY AppendAt
<1> QED BY <1>1 DEF OneEach

LEMMA OneEachJoined ==
    ASSUME NEW S, NEW s \in Seq(S), NEW t \in Seq(S), NEW W, NEW V,
           OneEach(s, W), OneEach(t, V), W \cap V = {}
    PROVE  OneEach(s \o t, W \cup V)
<1> DEFINE st == s \o t
<1>1. /\ \A i \in DOMAIN s : i \in DOMAIN st /\ st[i] = s[i]
      /\ \A j \in DOMAIN t : Len(s) + j \in DOMAIN st /\ st[Len(s) + j] = t[j]
      /\ \A i \in DOMAIN st : i \in DOMAIN s \/ \E j \in DOMAIN t : i = Len(s) + j
  BY ConcatAt, Zenon
<1> HIDE DEF st
<1>2. \A a \in DOMAIN st : st[a].from \in W \cup V
  BY <1>1 DEF OneEach
<1>3. \A w \in W \cup V : \E a \in DOMAIN st : st[a].from = w
  BY <1>1 DEF OneEach
<1>4. ASSUME NEW a \in DOMAIN st, NEW b \in DOMAIN st, st[a].from = st[b].from PROVE a = b
  <2>1. CASE a \in DOMAIN s /\ b \in DOMAIN s
    BY <1>1, <1>4, <2>1 DEF OneEach
  <2>2. CASE a \notin DOMAIN s /\ b \notin DOMAIN s
    BY <1>1, <1>4, <2>2 DEF OneEach
  <2>3. CASE ~(a \in DOMAIN s <=> b \in DOMAIN s)
    BY <1>1, <1>4, <2>3 DEF OneEach
  <2> QED BY <2>1, <2>2, <2>3
<1>5. OneEach(st, W \cup V)
  BY <1>2, <1>3, <1>4 DEF OneEach
<1> QED BY <1>5 DEF st

LEMMA SameOwed ==
    ASSUME UNCHANGED <<json, queue>>
    PROVE  Owed' = Owed
  BY DEF Owed, HasLetters, EntryAt

(* What is owed has its place in the files. *)
LEMMA OwedPlace ==
    ASSUME TypeOK, NEW w \in Owed
    PROVE  /\ w[1] \in Nat /\ w[2] \in Nat /\ w[3] \in Nat
           /\ w[1] >= 1 /\ w[1] <= Len(queue) /\ w[2] >= 1 /\ w[3] >= 1
           /\ w = <<w[1], w[2], w[3]>>
           /\ w[2] <= Len(json[queue[w[1]]].courses)
           /\ w[3] <= Len(EntryAt(w[1], w[2]).sections)
<1>1. /\ w[1] \in DOMAIN queue /\ w[2] \in DOMAIN json[queue[w[1]]].courses
      /\ w[3] \in DOMAIN EntryAt(w[1], w[2]).sections
      /\ w \in Nat \X Nat \X Nat
  BY DEF Owed
<1>2. queue \in Seq(Files) /\ json[queue[w[1]]].courses \in Seq(CourseEntry)
      /\ EntryAt(w[1], w[2]).sections \in Seq(CourseSection)
  BY <1>1, FileType, EntryType DEF TypeOK
<1>3. w[1] >= 1 /\ w[1] <= Len(queue)
  BY <1>1, <1>2, SeqDomain
<1>4. w[2] >= 1 /\ w[2] <= Len(json[queue[w[1]]].courses)
  BY <1>1, <1>2, SeqDomain
<1>5. w[3] >= 1 /\ w[3] <= Len(EntryAt(w[1], w[2]).sections)
  BY <1>1, <1>2, SeqDomain
<1> QED BY <1>1, <1>3, <1>4, <1>5

LEMMA SectionWhenLettered ==
    ASSUME IInv, Activity
    PROVE  SectionOf # NoUuid <=> HasLetters(file, entry)
<1>0. stage = "activities" /\ InFile /\ InEntry
  BY DEF Activity, InFile
<1>1. /\ entry \in DOMAIN Data.courses /\ row \in DOMAIN Entry.sections
      /\ Row = Entry.sections[row] /\ Entry = EntryAt(file, entry)
  BY <1>0, Here DEF Row, IInv
<1>2. \A i \in DOMAIN letters : letters[i].uuid # NoUuid
  <2>1. \A d \in DOMAIN drafts : drafts[d].uuid \in 1..uuids
    BY DEF UuidInv, Given, IInv
  <2>2. \A i \in DOMAIN letters : letters[i].uuid \in 1..uuids
    BY <1>0, <2>1 DEF LetterInv, Drafted, IInv
  <2> QED BY <2>2 DEF NoUuid
<1>3. letters \in Seq([letter : Letters, uuid : Nat])
  BY DEF IInv, TypeOK
<1>4. CASE Row.letter # ""
  <2>1. HasLetter(Row.letter)
    BY <1>0, <1>1, <1>4 DEF LetterInv, IInv
  <2>2. SectionOf = UuidOf(Row.letter)
    BY <1>4 DEF SectionOf
  <2>3. SectionOf # NoUuid
    BY <1>2, <2>1, <2>2, ByLetter
  <2> QED BY <1>1, <1>4, <2>3 DEF HasLetters
<1>5. CASE Row.letter = "" /\ HasLetters(file, entry)
  <2>0. \E i \in DOMAIN letters : TRUE
    BY <1>0, <1>1, <1>5 DEF LetterInv, HasLetters, HasLetter, IInv
  <2>1. letters # <<>>
    BY <2>0
  <2>2. letters[1].uuid # NoUuid
    BY <1>2, <1>3, <2>1, NotEmpty
  <2> QED BY <1>5, <2>1, <2>2 DEF SectionOf
<1>6. CASE Row.letter = "" /\ ~HasLetters(file, entry)
  <2>1. letters = <<>>
    BY <1>0, <1>1, <1>6 DEF LetterInv, HasLetters, IInv
  <2>2. current = NoUuid
    BY <1>0, <1>1, <1>6, <2>1 DEF CurrentInv, Nearest, HasLetters, IInv
  <2> QED BY <1>6, <2>1, <2>2 DEF SectionOf
<1> QED BY <1>4, <1>5, <1>6

LEMMA OnceNext == ASSUME IInv, OnceInv, [Next]_vars PROVE OnceInv'
<1> USE DEF IInv
<1>t. /\ file \in Nat /\ entry \in Nat /\ row \in Nat /\ queue \in Seq(Files)
      /\ acts \in Seq(ActivityOk) /\ activities \in Seq(ActivityOk)
  BY DEF TypeOK
(* Before the first file nothing is owed, whatever is queued. *)
<1>1. CASE (\E request \in Requests : Arguments(request)) \/ ListTerm \/ EndPaths
  <2>0. /\ stage \in {"arguments", "paths"} /\ stage' \in {"refused", "paths", "file"}
        /\ file' = file /\ file = 1 /\ activities' = activities /\ activities = <<>>
    BY <1>1 DEF Arguments, ListTerm, EndPaths, untouched, merged, OnceInv, PlaceInv
  <2>1. TypeOK'
    BY <1>1, NextInv DEF Next, GeneratorNext
  <2>2. \A w \in Owed' : ~(w[1] < 1)
    <3>1. \A w \in Owed' : w[1] \in DOMAIN queue' /\ queue' \in Seq(Files)
      BY <2>1 DEF Owed, TypeOK
    <3> QED BY <3>1, SeqDomain
  <2>3. Before' = {}
    BY <2>0, <2>2 DEF Before
  <2> QED BY <2>0, <2>3 DEF OnceInv, OneEach, InFile
<1>2. CASE SkipFile
  <2>0. /\ stage = "file" /\ stage' = "file" /\ file' = file + 1 /\ Data.form = "other"
        /\ UNCHANGED <<json, queue, activities>>
    BY <1>2 DEF SkipFile, fixed, merged
  <2>1. Owed' = Owed
    BY <2>0, SameOwed
  <2>2. \A w \in Owed : w[1] # file
    BY <2>0 DEF Owed, Data
  <2>3. \A w \in Owed : w[1] < file + 1 <=> w[1] < file
    BY <1>t, <2>2, OwedPlace
  <2>4. Before' = Before
    BY <2>0, <2>1, <2>3 DEF Before
  <2> QED BY <2>0, <2>4 DEF OnceInv, OneEach, InFile
<1>3. CASE OpenFile
  <2>0. /\ stage' = "collect" /\ file' = file /\ Data.form = "export" /\ acts' = <<>>
        /\ UNCHANGED <<json, queue, activities>>
    BY <1>3 DEF OpenFile, fixed, merged
  <2>1. Owed' = Owed
    BY <2>0, SameOwed
  <2>2. Before' = Before /\ DoneHere' = {} /\ Data' = Data
    BY <2>0, <2>1 DEF Before, DoneHere, Data
  <2> QED BY <2>0, <2>2 DEF OnceInv, OneEach
(* Steps in a file after which the rows that are done are the same. *)
<1>4. ASSUME InFile, InFile', UNCHANGED <<json, queue, file, acts, activities>>,
             DoneHere' = DoneHere
      PROVE  OnceInv'
  <2>1. Owed' = Owed
    BY <1>4, SameOwed
  <2>2. Before' = Before /\ Data' = Data
    BY <1>4, <2>1 DEF Before, Data
  <2> QED BY <1>4, <2>2 DEF OnceInv, OneEach, InFile
<1>5. CASE Collect
  <2>1. stage = "collect" /\ stage' = "collect" /\ UNCHANGED <<json, queue, file, acts, activities>>
    BY <1>5 DEF Collect, fixed, merged
  <2>2. DoneHere' = {} /\ DoneHere = {}
    BY <2>1 DEF DoneHere
  <2> QED BY <1>4, <2>1, <2>2 DEF InFile
<1>6. CASE EndCollect
  <2>1. /\ stage = "collect" /\ stage' = "letters" /\ entry' = 1
        /\ UNCHANGED <<json, queue, file, acts, activities>>
    BY <1>6 DEF EndCollect, fixed, merged, ofFile
  <2>2. Owed' = Owed
    BY <2>1, SameOwed
  <2>3. \A w \in Owed : ~(w[2] < 1)
    BY OwedPlace
  <2>4. DoneHere' = {} /\ DoneHere = {}
    BY <2>1, <2>2, <2>3 DEF DoneHere
  <2> QED BY <1>4, <2>1, <2>4 DEF InFile
<1>7. CASE NewLetter \/ NoNewLetter
  <2>1. /\ stage = "letters" /\ stage' = "letters" /\ entry' = entry
        /\ UNCHANGED <<json, queue, file, acts, activities>>
    BY <1>7 DEF NewLetter, NoNewLetter, fixed, merged, ofFile
  <2>2. DoneHere' = DoneHere
    BY <2>1, SameOwed DEF DoneHere
  <2> QED BY <1>4, <2>1, <2>2 DEF InFile
<1>8. CASE SecondPass
  <2>1. /\ stage = "letters" /\ stage' = "activities" /\ entry' = entry /\ row' = 1
        /\ UNCHANGED <<json, queue, file, acts, activities>>
    BY <1>8 DEF SecondPass, fixed, merged, ofFile
  <2>2. \A w \in Owed : ~(w[3] < 1)
    BY OwedPlace
  <2>3. Owed' = Owed
    BY <2>1, SameOwed
  <2>4. DoneHere' = DoneHere
    BY <2>1, <2>2, <2>3 DEF DoneHere
  <2> QED BY <1>4, <2>1, <2>4 DEF InFile
<1>9. CASE NextEntry
  <2>1. /\ stage = "activities" /\ stage' = "letters" /\ entry' = entry + 1 /\ ~InEntry
        /\ UNCHANGED <<json, queue, file, acts, activities>>
    BY <1>9 DEF NextEntry, fixed, merged, ofFile
  <2>2. ASSUME NEW w \in Owed, w[1] = file, w[2] = entry PROVE w[3] < row
    <3>1. entry \in DOMAIN Data.courses /\ EntryAt(w[1], w[2]) = Entry
          /\ ~(row <= Len(Entry.sections)) /\ Entry.sections \in Seq(CourseSection)
      BY <2>1, <2>2, Here DEF Owed, Data, PlaceInv, InFile
    <3> QED BY <1>t, <3>1, OwedPlace
  <2>3. Owed' = Owed
    BY <2>1, SameOwed
  <2>4. ASSUME NEW w \in Owed PROVE w \in DoneHere' <=> w \in DoneHere
    <3>1. w \in DoneHere <=> /\ w[1] = file
                             /\ w[2] < entry \/ (w[2] = entry /\ w[3] < row)
      BY <2>1 DEF DoneHere
    <3>2. w \in DoneHere' <=> w[1] = file /\ w[2] < entry + 1
      BY <2>1, <2>3 DEF DoneHere
    <3>3. w[1] = file /\ w[2] = entry => w[3] < row
      BY <2>2
    <3>4. w[2] < entry + 1 <=> w[2] < entry \/ w[2] = entry
      BY <1>t, OwedPlace
    <3> QED BY <3>1, <3>2, <3>3, <3>4, Zenon
  <2>5. DoneHere' = DoneHere
    BY <2>3, <2>4 DEF DoneHere
  <2> QED BY <1>4, <2>1, <2>5 DEF InFile
<1>10. CASE Activity
  <2> DEFINE w0 == <<file, entry, row>>
             act == [section |-> SectionOf, type |-> Row.type, names |-> Row.names,
                     from |-> w0]
  <2>1. /\ stage = "activities" /\ stage' = "activities" /\ entry' = entry /\ row' = row + 1
        /\ InEntry /\ InFile
        /\ acts' = IF SectionOf = NoUuid THEN acts ELSE Append(acts, act)
        /\ UNCHANGED <<json, queue, file, activities>>
    BY <1>10 DEF Activity, fixed, merged, InFile
  <2>2. w0 \in Nat \X Nat \X Nat /\ w0[1] = file /\ w0[2] = entry /\ w0[3] = row
    BY <1>t
  <2>3. w0 \in Owed <=> SectionOf # NoUuid
    <3>1. /\ file \in DOMAIN queue /\ Data.form = "export" /\ entry \in DOMAIN Data.courses
          /\ row \in DOMAIN EntryAt(file, entry).sections
      BY <2>1, Here DEF OnceInv, PlaceInv
    <3> HIDE DEF w0
    <3> QED BY <1>10, <2>2, <3>1, SectionWhenLettered DEF Owed, Data
  <2>4. ASSUME NEW w \in Owed PROVE w[3] < row + 1 <=> w[3] < row \/ w[3] = row
    BY <1>t, OwedPlace
  <2>5. \A w \in Owed : w[1] = file /\ w[2] = entry /\ w[3] = row <=> w = w0
    BY <2>2, OwedPlace
  <2>6. w0 \notin DoneHere
    BY <1>t, <2>2 DEF DoneHere
  <2> HIDE DEF w0
  <2>7. Owed' = Owed
    BY <2>1, SameOwed
  <2>8. DoneHere' = DoneHere \cup (Owed \cap {w0})
    <3>1. ASSUME NEW w \in Owed PROVE w \in DoneHere' <=> w \in DoneHere \/ w = w0
      <4>1. w \in DoneHere <=> /\ w[1] = file
                               /\ w[2] < entry \/ (w[2] = entry /\ w[3] < row)
        BY <2>1 DEF DoneHere
      <4>2. w \in DoneHere' <=> /\ w[1] = file
                                /\ w[2] < entry \/ (w[2] = entry /\ w[3] < row + 1)
        BY <2>1, <2>7 DEF DoneHere
      <4>3. w[3] < row + 1 <=> w[3] < row \/ w[3] = row
        BY <2>4
      <4>4. w[1] = file /\ w[2] = entry /\ w[3] = row <=> w = w0
        BY <2>5
      <4> QED BY <4>1, <4>2, <4>3, <4>4, Zenon
    <3> QED BY <2>7, <3>1 DEF DoneHere
  <2>9. OneEach(acts', DoneHere')
    <3>1. CASE SectionOf = NoUuid
      BY <2>1, <2>3, <2>8, <3>1 DEF OnceInv
    <3>2. CASE SectionOf # NoUuid
      <4>1. act \in ActivityOk
        <5>1. IInv'
          BY <1>10, NextInv DEF Next, GeneratorNext
        <5>2. Append(acts, act) \in Seq(ActivityOk)
          BY <2>1, <3>2, <5>1 DEF TypeOK
        <5>3. Append(acts, act)[Len(acts) + 1] = act /\ Len(acts) + 1 \in DOMAIN Append(acts, act)
          BY <1>t
        <5> QED BY <5>2, <5>3, SeqDomain
      <4>2. act.from = w0
        OBVIOUS
      <4> HIDE DEF act
      <4>3. OneEach(Append(acts, act), DoneHere \cup {w0})
        BY <1>t, <2>1, <2>6, <4>1, <4>2, OneEachAppended DEF OnceInv
      <4>4. acts' = Append(acts, act) /\ DoneHere' = DoneHere \cup {w0}
        BY <2>1, <2>3, <2>8, <3>2
      <4> QED BY <4>3, <4>4
    <3> QED BY <3>1, <3>2
  <2>10. Before' = Before /\ Data' = Data
    BY <2>1, <2>7 DEF Before, Data
  <2> QED BY <2>1, <2>9, <2>10 DEF OnceInv, OneEach, InFile
<1>11. CASE Merge
  <2>1. /\ stage = "letters" /\ stage' = "file" /\ InFile /\ entry > Len(Data.courses)
        /\ activities' = activities \o acts /\ file' = file + 1
        /\ UNCHANGED <<json, queue>>
    BY <1>11 DEF Merge, fixed, InFile
  <2>2. Owed' = Owed
    BY <2>1, SameOwed
  <2>3. \A w \in Owed : w[1] = file => w[2] < entry
    <3>1. Data.courses \in Seq(CourseEntry)
      BY <2>1, Here
    <3> QED BY <1>t, <2>1, <3>1, OwedPlace DEF Data
  <2>4. \A w \in Owed : w[1] < file + 1 <=> w[1] < file \/ w[1] = file
    BY <1>t, OwedPlace
  <2>5. \A w \in Owed : ~(w[1] < file /\ w[1] = file)
    BY <1>t, OwedPlace
  <2>6. Before' = Before \cup DoneHere /\ Before \cap DoneHere = {}
    BY <2>1, <2>2, <2>3, <2>4, <2>5 DEF Before, DoneHere
  <2>7. OneEach(activities \o acts, Before \cup DoneHere)
    BY <1>t, <2>1, <2>6, OneEachJoined DEF OnceInv
  <2>8. OneEach(activities, Before)'
    BY <2>1, <2>6, <2>7 DEF OneEach
  <2> QED BY <2>1, <2>8 DEF OnceInv, InFile
<1>12. CASE Write
  <2>1. /\ stage' = "written" /\ file > Len(queue) /\ UNCHANGED <<json, queue, file, activities>>
    BY <1>12 DEF Write, fixed, merged
  <2>2. Before' = Before
    BY <2>1, SameOwed DEF Before
  <2> QED BY <2>1, <2>2 DEF OnceInv, OneEach, InFile
<1>13. CASE UNCHANGED vars
  <2>1. Before' = Before /\ DoneHere' = DoneHere /\ Data' = Data /\ InFile' = InFile
    BY <1>13, SameOwed DEF Before, DoneHere, vars, fixed, Data, InFile
  <2> QED BY <1>13, <2>1 DEF OnceInv, OneEach, vars, fixed, ofFile, merged
<1>14. CASE LoadFails
  <2>1. stage' = "failed" /\ UNCHANGED <<json, queue, file, activities>>
    BY <1>14 DEF LoadFails, fixed, merged
  <2>2. Before' = Before
    BY <2>1, SameOwed DEF Before
  <2> QED BY <2>1, <2>2 DEF OnceInv, OneEach, InFile
<1> QED BY <1>1, <1>2, <1>3, <1>5, <1>6, <1>7, <1>8, <1>9, <1>10, <1>11, <1>12, <1>13, <1>14
        DEF Next, GeneratorNext

LEMMA OnceWritten == ASSUME IInv, OnceInv PROVE EveryRowOnce
<1> SUFFICES ASSUME stage = "written" PROVE EveryRowOnce
  BY DEF EveryRowOnce
<1>1. OneEach(activities, Before)
  BY DEF OnceInv
<1>2. \A a, b \in DOMAIN activities : activities[a].from = activities[b].from => a = b
  BY <1>1 DEF OneEach
<1>3. ASSUME NEW a \in DOMAIN activities
      PROVE  LET f == activities[a].from[1]
                 e == activities[a].from[2]
             IN  /\ f \in DOMAIN queue /\ json[queue[f]].form = "export"
                 /\ e \in DOMAIN json[queue[f]].courses
                 /\ activities[a].from[3] \in DOMAIN EntryAt(f, e).sections
  <2>1. activities[a].from \in Owed
    BY <1>1 DEF OneEach, Before
  <2> QED BY <2>1 DEF Owed
<1>4. ASSUME NEW f \in DOMAIN queue, NEW e \in DOMAIN json[queue[f]].courses,
             json[queue[f]].form = "export",
             Lettered(EntryAt(f, e).sections, Len(EntryAt(f, e).sections)) # {},
             NEW r \in DOMAIN EntryAt(f, e).sections
      PROVE  \E a \in DOMAIN activities : activities[a].from = <<f, e, r>>
  <2>1. /\ queue \in Seq(Files) /\ json[queue[f]].courses \in Seq(CourseEntry)
        /\ EntryAt(f, e).sections \in Seq(CourseSection)
    BY FileType, EntryType DEF TypeOK, IInv
  <2>2. f \in Nat /\ f <= Len(queue)
    BY <2>1, SeqDomain
  <2>3. e \in Nat
    BY <2>1, SeqDomain
  <2>4. r \in Nat /\ DOMAIN EntryAt(f, e).sections = 1..Len(EntryAt(f, e).sections)
    BY <2>1, SeqDomain
  <2>5. HasLetters(f, e)
    BY <1>4, <2>4 DEF HasLetters, Lettered
  <2>6. f < file
    <3>1. file \in Nat /\ Len(queue) \in Nat /\ file > Len(queue)
      BY DEF OnceInv, TypeOK, IInv
    <3> QED BY <2>2, <3>1
  <2>7. <<f, e, r>> \in Before
    BY <1>4, <2>2, <2>3, <2>4, <2>5, <2>6 DEF Before, Owed
  <2> QED BY <1>1, <2>7 DEF OneEach
<1> QED BY <1>2, <1>3, <1>4, Zenon DEF EveryRowOnce

LEMMA OnceInit == Init => OnceInv
<1> SUFFICES ASSUME Init PROVE OnceInv
  OBVIOUS
<1>1. Before = {}
  BY DEF Init, GeneratorInit, Before, Owed
<1> QED BY <1>1 DEF Init, GeneratorInit, OnceInv, OneEach, InFile

(* No row of an entry with a letter is lost, and none of any file is        *)
(* doubled in the activities of the seed.                                   *)
THEOREM RowsAreKept == Spec => []EveryRowOnce
<1>1. IInv /\ OnceInv /\ [Next]_vars => OnceInv'
  BY OnceNext
<1>2. IInv /\ OnceInv => EveryRowOnce
  BY OnceWritten
<1> QED BY <1>1, <1>2, OnceInit, Invariance, PTL DEF Spec

-----------------------------------------------------------------------------
(* The pages *)

(* h is the header that row r of page p is under. *)
Heads(p, h) == h \in DOMAIN Rows(p) /\ Parser!IsHeader(Rows(p)[h])
Under(p, h, r) == /\ Heads(p, h) /\ r \in DOMAIN Rows(p) /\ h < r
                  /\ \A g \in DOMAIN Rows(p) : h < g /\ g <= r => ~Heads(p, g)
Summary(p, r) == Parser!SummaryIndex(Rows(p)[r].cells)
IdAt(p, r) == Rows(p)[r].cells[Summary(p, r)].id

(* The sections of a course, and its id, when the rows up to n are read.   *)
SectionsUpTo(s, p, h, n) ==
    /\ \A i \in DOMAIN s : /\ Under(p, h, s[i].row) /\ s[i].row <= n /\ Typed(p, s[i].row)
                           /\ s[i].letter = Letter(p, s[i].row)
    /\ \A r \in DOMAIN Rows(p) : Under(p, h, r) /\ r <= n /\ Typed(p, r) =>
                                    \E i \in DOMAIN s : s[i].row = r
    /\ \A i, j \in DOMAIN s : i < j => s[i].row < s[j].row
IdUpTo(id, p, h, n) ==
    IF id = ""
    THEN \A r \in DOMAIN Rows(p) : Under(p, h, r) /\ r <= n => Summary(p, r) = 0
    ELSE \E y \in DOMAIN Rows(p) :
            /\ Under(p, h, y) /\ y <= n /\ Summary(p, y) # 0 /\ IdAt(p, y) = id
            /\ \A r \in DOMAIN Rows(p) : Under(p, h, r) /\ Summary(p, r) # 0 => y <= r

(* c is the course under header h of page p, as far as row n.              *)
IsCourse(c, p, h, n) ==
    /\ Heads(p, h)
    /\ c.department = Rows(p)[h].header.department /\ c.term = Rows(p)[h].header.term
    /\ SectionsUpTo(c.sections, p, h, n) /\ IdUpTo(c.id, p, h, n)

(* c is a course of page p, with all the rows under its header.            *)
IsOn(c, p) == \E h \in DOMAIN Rows(p) : IsCourse(c, p, h, Len(Rows(p)))

(* The types that the scrapers keep.                                       *)
ParserTypeOK ==
    /\ document \in [Files -> Parser!Document]
    /\ json \in [Files -> Export]
    /\ unparsed \in Seq(Files)
    /\ at \in [page : Files, row : Nat] \cup {Parser!Nowhere}
    /\ course \in CourseEntry \cup {Parser!NoCourse}
    /\ parsed \in Seq(CourseEntry)
    /\ fresh \subseteq Files

(* The open course is the one under the last header that was read, as far  *)
(* as the parser has got; courses that are complete, in hand or in a JSON  *)
(* file that was written, are as their page has them.                      *)
PageInv ==
    /\ ~Parser!Parsing => course = Parser!NoCourse /\ parsed = <<>>
    /\ Parser!Parsing =>
          /\ at.row <= Len(Rows(at.page))
          /\ course # Parser!NoCourse =>
                \E h \in DOMAIN Rows(at.page) :
                   /\ IsCourse(course, at.page, h, at.row) /\ h <= at.row
                   /\ \A g \in DOMAIN Rows(at.page) : h < g /\ g <= at.row => ~Heads(at.page, g)
          /\ \A i \in DOMAIN parsed : IsOn(parsed[i], at.page)
    /\ \A f \in fresh : \A e \in DOMAIN json[f].courses : IsOn(json[f].courses[e], f)

(* The generator begins when the scrapers have ended.                      *)
ImportInv == /\ ParserTypeOK /\ PageInv /\ IInv /\ OnceInv
             /\ Parser!ParserDone \/ stage = "arguments"

-----------------------------------------------------------------------------
(* Least and greatest indices *)

LEMMA HasLeast ==
    ASSUME NEW T, T \subseteq Nat, T # {}
    PROVE  \E m \in T : \A i \in T : m <= i
<1> DEFINE R == OpToRel(<, Nat)
<1>1. IsWellFoundedOn(R, Nat)
  BY NatLessThanWellFounded, Zenon
<1>2. \A x, y \in Nat : <<y, x>> \in R <=> y < x
  BY DEF OpToRel
<1> HIDE DEF R
<1>3. PICK x \in T : \A y \in T : ~(<<y, x>> \in R)
  BY <1>1, WFMin, Zenon
<1>4. \A y \in T : ~(y < x)
  BY <1>2, <1>3
<1>5. \A y \in T : x <= y
  BY <1>4
<1> QED BY <1>5

LEMMA HasGreatest ==
    ASSUME NEW n \in Nat, NEW T, T \subseteq 0..n, T # {}
    PROVE  \E m \in T : \A i \in T : i <= m
<1> DEFINE U == {n - i : i \in T}
<1>0. \A i \in T : n - i \in Nat
  OBVIOUS
<1>1. U \subseteq Nat /\ U # {}
  BY <1>0
<1>2. PICK u \in U : \A v \in U : u <= v
  BY <1>1, HasLeast
<1>3. PICK m \in T : u = n - m
  OBVIOUS
<1>4. \A i \in T : n - m <= n - i
  BY <1>2, <1>3
<1>5. \A i \in T : i <= m
  BY <1>4
<1> QED BY <1>5

LEMMA MinIsLeast ==
    ASSUME NEW T, T \subseteq Nat, T # {}
    PROVE  Parser!Min(T) \in T /\ \A i \in T : Parser!Min(T) <= i
<1>1. \E m \in T : \A i \in T : m <= i
  BY HasLeast
<1> QED BY <1>1 DEF Parser!Min

LEMMA MaxIsGreatest ==
    ASSUME NEW n \in Nat, NEW T, T \subseteq 0..n, T # {}
    PROVE  Parser!Max(T) \in T /\ \A i \in T : i <= Parser!Max(T)
<1>1. PICK m \in T : \A i \in T : i <= m
  BY HasGreatest
<1>2. \A i \in T : m >= i
  BY <1>1
<1>3. Parser!Max(T) \in T /\ \A i \in T : Parser!Max(T) >= i
  BY <1>2, Zenon DEF Parser!Max
<1> QED BY <1>3

-----------------------------------------------------------------------------
(* The cells of a row *)

LEMMA TypeIndexIs ==
    ASSUME NEW cells \in Seq(Parser!Cell)
    PROVE  /\ Parser!TypeIndex(cells) \in Nat
           /\ Parser!TypeIndex(cells) # 0 =>
                 /\ Parser!TypeIndex(cells) \in DOMAIN cells
                 /\ cells[Parser!TypeIndex(cells)].type # ""
<1> DEFINE T == {i \in DOMAIN cells : cells[i].type # ""}
<1>0. \A i \in DOMAIN cells : i \in Nat /\ i >= 1
  BY SeqDomain
<1>1. T \subseteq Nat
  BY <1>0
<1>2. Parser!TypeIndex(cells) = IF T = {} THEN 0 ELSE Parser!Min(T)
  BY DEF Parser!TypeIndex
<1>3. T # {} => Parser!Min(T) \in T
  BY <1>1, MinIsLeast
<1> DEFINE k == Parser!TypeIndex(cells)
<1>4. k = 0 \/ k \in T
  BY <1>2, <1>3
<1> HIDE DEF k
<1>5. k # 0 => k \in DOMAIN cells /\ cells[k].type # ""
  BY <1>4, Zenon
<1>6. k \in Nat
  <2>1. 0 \in Nat
    OBVIOUS
  <2> QED BY <1>0, <1>5, <2>1, Zenon
<1> QED BY <1>5, <1>6 DEF k

LEMMA SummaryIndexIs ==
    ASSUME NEW cells \in Seq(Parser!Cell)
    PROVE  /\ Parser!SummaryIndex(cells) \in Nat
           /\ Parser!SummaryIndex(cells) # 0 =>
                 /\ Parser!TypeIndex(cells) # 0
                 /\ Parser!SummaryIndex(cells) \in DOMAIN cells
                 /\ cells[Parser!SummaryIndex(cells)].id # ""
<1> DEFINE n == Parser!TypeIndex(cells)
           T == {i \in 1..(n - 1) : cells[i].id # ""}
<1>0. n \in Nat /\ (n # 0 => n >= 1 /\ n <= Len(cells)) /\ Len(cells) \in Nat
      /\ DOMAIN cells = 1..Len(cells)
  BY TypeIndexIs, SeqDomain
<1> HIDE DEF n
<1>1. \A i \in 1..(n - 1) : n # 0 /\ i \in DOMAIN cells /\ i \in Nat /\ i # 0 /\ i \in 0..n
  BY <1>0
<1>2. T \subseteq 0..n
  BY <1>1
<1>3. Parser!SummaryIndex(cells) = IF T = {} THEN 0 ELSE Parser!Max(T)
  BY DEF Parser!SummaryIndex, n
<1>4. T # {} => Parser!Max(T) \in T
  BY <1>0, <1>2, MaxIsGreatest
<1>5. Parser!SummaryIndex(cells) = 0 \/ Parser!SummaryIndex(cells) \in T
  BY <1>3, <1>4
<1> DEFINE k == Parser!SummaryIndex(cells)
<1>6. k = 0 \/ k \in T
  BY <1>5
<1> HIDE DEF k
<1>7. k # 0 => n # 0 /\ k \in DOMAIN cells /\ k \in Nat /\ cells[k].id # ""
  BY <1>1, <1>6, Zenon
<1>8. k \in Nat
  <2>1. 0 \in Nat
    OBVIOUS
  <2> QED BY <1>7, <2>1, Zenon
<1> QED BY <1>7, <1>8 DEF n, k

LEMMA SectionType ==
    ASSUME NEW r, r.cells \in Seq(Parser!Cell), Parser!TypeIndex(r.cells) # 0, NEW n \in Nat
    PROVE  /\ Parser!ParseSection(r, n) \in CourseSection
           /\ Parser!ParseSection(r, n).row = n
           /\ Parser!ParseSection(r, n).letter = Parser!LetterOf(r.cells)
<1> DEFINE cells == r.cells  type == cells[Parser!TypeIndex(cells)].type
           letter == Parser!LetterOf(cells)  names == Parser!NamesOf(cells)
<1>1. \A i \in DOMAIN cells : cells[i] \in Parser!Cell
  OBVIOUS
<1>2. \A i \in DOMAIN cells : /\ cells[i].type \in Types \cup {""}
                              /\ cells[i].letter \in Letters \cup {""}
                              /\ cells[i].names \in SUBSET Names
                              /\ cells[i].nested \in SUBSET Names
  BY <1>1 DEF Parser!Cell
<1>3. type \in Types
  BY <1>2, TypeIndexIs
<1>4. letter \in Letters \cup {""}
  BY <1>2, SummaryIndexIs DEF Parser!LetterOf
<1>5. names \in SUBSET Names
  BY <1>2 DEF Parser!NamesOf
<1> HIDE DEF type, letter, names
<1>6. [type |-> type, letter |-> letter, names |-> names, row |-> n] \in CourseSection
  BY <1>3, <1>4, <1>5 DEF CourseSection
<1>7. Parser!ParseSection(r, n) = [type |-> type, letter |-> letter, names |-> names, row |-> n]
  BY DEF Parser!ParseSection, type, letter, names
<1> QED BY <1>6, <1>7 DEF letter

-----------------------------------------------------------------------------
(* The rows of a page *)

LEMMA PageType ==
    ASSUME document \in [Files -> Parser!Document], NEW p \in Files
    PROVE  /\ Rows(p) \in Seq(Parser!Row) /\ Len(Rows(p)) \in Nat
           /\ DOMAIN Rows(p) = 1..Len(Rows(p))
           /\ \A r \in DOMAIN Rows(p) :
                 /\ Rows(p)[r].cells \in Seq(Parser!Cell)
                 /\ Heads(p, r) => Rows(p)[r].header \in Parser!Header
<1>1. Rows(p) \in Seq(Parser!Row)
  <2>1. document[p] \in Parser!Document
    OBVIOUS
  <2> QED BY <2>1 DEF Rows, Parser!Document
<1>2. Len(Rows(p)) \in Nat /\ DOMAIN Rows(p) = 1..Len(Rows(p))
      /\ \A r \in DOMAIN Rows(p) : Rows(p)[r] \in Parser!Row
  BY <1>1, SeqDomain
<1>3. \A r \in DOMAIN Rows(p) :
         /\ Rows(p)[r].cells \in Seq(Parser!Cell)
         /\ Heads(p, r) => Rows(p)[r].header \in Parser!Header
  BY <1>2 DEF Parser!Row, Heads, Parser!IsHeader
<1> QED BY <1>1, <1>2, <1>3

LEMMA UnderIsGroup ==
    ASSUME document \in [Files -> Parser!Document], NEW p \in Files, NEW h \in DOMAIN Rows(p),
           NEW r \in DOMAIN Rows(p)
    PROVE  /\ Under(p, h, r) => r \in Group(p, h) /\ HeaderOf(p, r) = h
           /\ r \in Group(p, h) => Under(p, h, r)
<1> DEFINE n == Len(Rows(p))
           A == Above(p, r)
<1>0. n \in Nat /\ DOMAIN Rows(p) = 1..n /\ h \in 1..n /\ r \in 1..n
  BY PageType
<1> HIDE DEF n
<1>1. \A g : g \in A <=> g \in 1..r /\ Heads(p, g)
  <2>1. \A g \in 1..r : g \in 1..n
    BY <1>0
  <2> QED BY <1>0, <2>1 DEF Above, Heads
<1>2. A \in SUBSET (1..r) /\ r \in Nat /\ A \subseteq 0..r
  BY <1>0, <1>1
<1>3. HeaderOf(p, r) = CHOOSE g \in A : \A i \in A : i <= g
  BY DEF HeaderOf
<1>4. r \in Group(p, h) <=> h < r /\ A # {} /\ HeaderOf(p, r) = h
  BY <1>0 DEF Group, n
<1> HIDE DEF A
<1>5. ASSUME Under(p, h, r) PROVE A # {} /\ HeaderOf(p, r) = h /\ h < r
  <2>1. h \in A /\ h < r
    BY <1>0, <1>1, <1>5 DEF Under
  <2>2. \A g \in A : ~(h < g)
    BY <1>0, <1>1, <1>5 DEF Under
  <2>3. h = CHOOSE g \in A : \A i \in A : i <= g
    BY <1>2, <2>1, <2>2, Greatest
  <2> QED BY <1>3, <2>1, <2>3
<1>6. ASSUME A # {}, HeaderOf(p, r) = h, h < r PROVE Under(p, h, r)
  <2>1. \E g \in A : \A i \in A : i <= g
    BY <1>2, <1>6, HasGreatest
  <2>2. h \in A /\ \A i \in A : i <= h
    BY <1>3, <1>6, <2>1, Zenon
  <2>3. \A g \in DOMAIN Rows(p) : h < g /\ g <= r => g \notin A /\ g \in 1..r
    BY <1>0, <2>2
  <2> QED BY <1>1, <1>6, <2>2, <2>3 DEF Under
<1> QED BY <1>4, <1>5, <1>6

LEMMA GroupRows ==
    ASSUME document \in [Files -> Parser!Document], NEW p \in Files, NEW h \in DOMAIN Rows(p)
    PROVE  /\ Group(p, h) \subseteq DOMAIN Rows(p)
           /\ \A r \in DOMAIN Rows(p) : r <= Len(Rows(p))
<1> DEFINE n == Len(Rows(p))
<1>1. n \in Nat /\ DOMAIN Rows(p) = 1..n /\ h \in 1..n
  BY PageType
<1> HIDE DEF n
<1>2. \A r \in h + 1..n : r \in 1..n
  BY <1>1
<1>3. \A r \in Group(p, h) : r \in h + 1..n
  BY Zenon DEF Group, n
<1>4. Group(p, h) \subseteq DOMAIN Rows(p) /\ \A r \in DOMAIN Rows(p) : r <= n
  BY <1>1, <1>2, <1>3
<1> QED BY <1>4 DEF n

(* The next row of a page: a header, or a row under the last header. *)
LEMMA NextRow ==
    ASSUME document \in [Files -> Parser!Document], NEW p \in Files, NEW h \in DOMAIN Rows(p),
           NEW n \in Nat, n + 1 \in DOMAIN Rows(p), Heads(p, h), h <= n,
           \A g \in DOMAIN Rows(p) : h < g /\ g <= n => ~Heads(p, g)
    PROVE  /\ Heads(p, n + 1) => \A r : Under(p, h, r) => r <= n
           /\ ~Heads(p, n + 1) =>
                 /\ Under(p, h, n + 1)
                 /\ \A g \in DOMAIN Rows(p) : h < g /\ g <= n + 1 => ~Heads(p, g)
<1>0. DOMAIN Rows(p) = 1..Len(Rows(p)) /\ Len(Rows(p)) \in Nat /\ h \in Nat
  BY PageType
<1>1. ASSUME Heads(p, n + 1), NEW r, Under(p, h, r) PROVE r <= n
  <2>1. r \in Nat /\ ~(h < n + 1 /\ n + 1 <= r)
    BY <1>0, <1>1 DEF Under
  <2> QED BY <1>0, <2>1
<1>2. ASSUME ~Heads(p, n + 1)
      PROVE  \A g \in DOMAIN Rows(p) : h < g /\ g <= n + 1 => ~Heads(p, g)
  <2>1. \A g \in DOMAIN Rows(p) : g <= n + 1 => g <= n \/ g = n + 1
    BY <1>0
  <2> QED BY <1>2, <2>1
<1>3. h < n + 1
  BY <1>0
<1> QED BY <1>1, <1>2, <1>3 DEF Under

(* The last row of a course is read. *)
LEMMA CourseEnds ==
    ASSUME document \in [Files -> Parser!Document], NEW p \in Files, NEW h \in DOMAIN Rows(p),
           NEW n \in Nat, \A r : Under(p, h, r) => r <= n, n <= Len(Rows(p)),
           NEW c, IsCourse(c, p, h, n)
    PROVE  IsOn(c, p)
<1> DEFINE m == Len(Rows(p))
<1>1. DOMAIN Rows(p) = 1..m /\ m \in Nat
  BY PageType
<1>2. \A r : Under(p, h, r) => r <= n /\ r <= m
  BY <1>1 DEF Under
<1> HIDE DEF m
<1>3. SectionsUpTo(c.sections, p, h, m) /\ IdUpTo(c.id, p, h, m)
  BY <1>2 DEF IsCourse, SectionsUpTo, IdUpTo
<1> QED BY <1>3 DEF IsCourse, IsOn, m

(* A row under the header that is no section. *)
LEMMA CourseGoesOn ==
    ASSUME document \in [Files -> Parser!Document], NEW p \in Files, NEW h \in DOMAIN Rows(p),
           NEW n \in Nat, n + 1 \in DOMAIN Rows(p), ~Typed(p, n + 1),
           NEW c, IsCourse(c, p, h, n)
    PROVE  IsCourse(c, p, h, n + 1)
<1>0. /\ \A r \in DOMAIN Rows(p) : r \in Nat
      /\ Rows(p)[n + 1].cells \in Seq(Parser!Cell)
  BY PageType
<1>1. \A r \in DOMAIN Rows(p) : /\ r <= n + 1 => r <= n \/ r = n + 1
                                /\ r <= n => r <= n + 1
  BY <1>0
<1>2. Summary(p, n + 1) = 0
  BY <1>0, SummaryIndexIs DEF Typed, Summary
<1>3. SectionsUpTo(c.sections, p, h, n + 1)
  BY <1>1 DEF IsCourse, SectionsUpTo, Under
<1>4. IdUpTo(c.id, p, h, n + 1)
  BY <1>1, <1>2 DEF IsCourse, IdUpTo
<1> QED BY <1>3, <1>4 DEF IsCourse

(* A section is found. *)
LEMMA SectionsGrow ==
    ASSUME document \in [Files -> Parser!Document], NEW p \in Files, NEW h \in DOMAIN Rows(p),
           NEW n \in Nat, n + 1 \in DOMAIN Rows(p), Under(p, h, n + 1), Typed(p, n + 1),
           NEW s \in Seq(CourseSection), SectionsUpTo(s, p, h, n),
           NEW x \in CourseSection, x.row = n + 1, x.letter = Letter(p, n + 1)
    PROVE  SectionsUpTo(Append(s, x), p, h, n + 1)
<1> DEFINE t == Append(s, x)
<1>0. /\ \A r \in DOMAIN Rows(p) : r \in Nat
      /\ \A i \in DOMAIN s : s[i].row \in Nat
  <2>1. \A i \in DOMAIN s : s[i] \in CourseSection
    BY SeqDomain
  <2>2. \A i \in DOMAIN s : s[i].row \in Nat
    BY <2>1 DEF CourseSection
  <2>3. \A r \in DOMAIN Rows(p) : r \in Nat
    BY PageType
  <2> QED BY <2>2, <2>3
<1>1. /\ \A i \in DOMAIN s : i \in DOMAIN t /\ t[i] = s[i]
      /\ \A i \in DOMAIN t : i \in DOMAIN s \/ (i = Len(s) + 1 /\ t[i] = x)
      /\ Len(s) + 1 \in DOMAIN t /\ t[Len(s) + 1] = x
  BY AppendAt
<1>2. \A i, j \in DOMAIN t : i < j => i \in DOMAIN s
  <2>1. Len(s) \in Nat /\ DOMAIN s = 1..Len(s)
    BY SeqDomain
  <2>2. \A j \in DOMAIN t : j <= Len(s) + 1
    BY <1>1, <2>1
  <2> QED BY <1>1, <2>1, <2>2
<1> HIDE DEF t
<1>3. \A r \in DOMAIN Rows(p) : /\ r <= n + 1 => r <= n \/ r = n + 1
                                /\ r <= n => r <= n + 1
  BY <1>0
<1>4. \A i \in DOMAIN s : s[i].row <= n /\ s[i].row <= n + 1 /\ s[i].row < n + 1
  <2>1. \A i \in DOMAIN s : s[i].row <= n
    BY DEF SectionsUpTo
  <2> QED BY <1>0, <2>1
<1>5. \A i \in DOMAIN t : /\ Under(p, h, t[i].row) /\ t[i].row <= n + 1 /\ Typed(p, t[i].row)
                          /\ t[i].letter = Letter(p, t[i].row)
  BY <1>1, <1>4 DEF SectionsUpTo
<1>6. \A r \in DOMAIN Rows(p) : Under(p, h, r) /\ r <= n + 1 /\ Typed(p, r) =>
                                   \E i \in DOMAIN t : t[i].row = r
  BY <1>1, <1>3 DEF SectionsUpTo
<1>7. \A i, j \in DOMAIN t : i < j => t[i].row < t[j].row
  BY <1>1, <1>2, <1>4 DEF SectionsUpTo
<1>8. SectionsUpTo(t, p, h, n + 1)
  BY <1>5, <1>6, <1>7 DEF SectionsUpTo
<1> QED BY <1>8 DEF t

LEMMA IdIsKept ==
    ASSUME document \in [Files -> Parser!Document], NEW p \in Files, NEW h \in DOMAIN Rows(p),
           NEW n \in Nat, n + 1 \in DOMAIN Rows(p), Under(p, h, n + 1),
           IdUpTo(course.id, p, h, n)
    PROVE  IdUpTo(Parser!IdOf(Rows(p)[n + 1].cells), p, h, n + 1)
<1> DEFINE cells == Rows(p)[n + 1].cells  id == Parser!IdOf(cells)
<1>0. /\ \A r \in DOMAIN Rows(p) : r \in Nat
      /\ cells \in Seq(Parser!Cell)
  BY PageType
<1>1. \A r \in DOMAIN Rows(p) : /\ r <= n + 1 => r <= n \/ r = n + 1
                                /\ r <= n => r <= n + 1
                                /\ ~(r <= n) => n + 1 <= r
  BY <1>0
<1>2. CASE course.id # ""
  <2>1. id = course.id
    BY <1>2 DEF Parser!IdOf
  <2> QED BY <1>1, <1>2, <2>1 DEF IdUpTo
<1>3. CASE course.id = "" /\ Summary(p, n + 1) = 0
  <2>1. id = ""
    BY <1>3 DEF Parser!IdOf, Summary
  <2> QED BY <1>1, <1>3, <2>1 DEF IdUpTo
<1>4. CASE course.id = "" /\ Summary(p, n + 1) # 0
  <2>1. id = IdAt(p, n + 1) /\ id # ""
    BY <1>0, <1>4, SummaryIndexIs DEF Parser!IdOf, Summary, IdAt
  <2>2. \A r \in DOMAIN Rows(p) : Under(p, h, r) /\ Summary(p, r) # 0 => n + 1 <= r
    BY <1>1, <1>4 DEF IdUpTo
  <2>3. n + 1 <= n + 1
    OBVIOUS
  <2> HIDE DEF id
  <2>4. IdUpTo(id, p, h, n + 1)
    BY <1>4, <2>1, <2>2, <2>3 DEF IdUpTo
  <2> QED BY <2>4 DEF id
<1> QED BY <1>2, <1>3, <1>4

-----------------------------------------------------------------------------
(* The scrapers keep the invariant *)

LEMMA SamePage ==
    ASSUME UNCHANGED document
    PROVE  /\ \A p : Rows(p)' = Rows(p)
           /\ \A p, h : Heads(p, h)' <=> Heads(p, h)
           /\ \A c, p, h, n : IsCourse(c, p, h, n)' <=> IsCourse(c, p, h, n)
           /\ \A c, p : IsOn(c, p)' <=> IsOn(c, p)
<1> USE DEF Rows, Heads, Under, Summary, IdAt, Typed, Letter, SectionsUpTo, IdUpTo, IsCourse
<1>1. \A p : Rows(p)' = Rows(p)
  OBVIOUS
<1>2. \A p, h : Heads(p, h)' <=> Heads(p, h)
  OBVIOUS
<1>3. \A c, p, h, n : IsCourse(c, p, h, n)' <=> IsCourse(c, p, h, n)
  OBVIOUS
<1>4. \A c, p : IsOn(c, p)' <=> IsOn(c, p)
  BY DEF IsOn
<1> QED BY <1>1, <1>2, <1>3, <1>4

(* A row of the page is read, and the courses are as they should be. *)
LEMMA RowRead ==
    ASSUME PageInv, UNCHANGED <<document, json, fresh>>, NEW p, NEW n,
           at'.page = p, at'.row = n, Parser!Parsing', n <= Len(Rows(p)),
           course' # Parser!NoCourse =>
              \E h \in DOMAIN Rows(p) :
                 /\ IsCourse(course', p, h, n) /\ h <= n
                 /\ \A g \in DOMAIN Rows(p) : h < g /\ g <= n => ~Heads(p, g),
           \A i \in DOMAIN parsed' : IsOn(parsed'[i], p)
    PROVE  PageInv'
<1>1. at'.row <= Len(Rows(at'.page))
  OBVIOUS
<1>2. course' # Parser!NoCourse =>
        \E h \in DOMAIN Rows(at'.page) :
           /\ IsCourse(course', at'.page, h, at'.row) /\ h <= at'.row
           /\ \A g \in DOMAIN Rows(at'.page) : h < g /\ g <= at'.row => ~Heads(at'.page, g)
  OBVIOUS
<1>3. \A i \in DOMAIN parsed' : IsOn(parsed'[i], at'.page)
  OBVIOUS
<1>4. \A f \in fresh' : \A e \in DOMAIN json'[f].courses : IsOn(json'[f].courses[e], f)
  BY DEF PageInv
<1> QED BY <1>1, <1>2, <1>3, <1>4, SamePage DEF PageInv

LEMMA ParseRowInv ==
    ASSUME ParserTypeOK, PageInv, Parser!Parsing, Parser!ParseRow
    PROVE  ParserTypeOK' /\ PageInv'
<1> DEFINE p == at.page  n == at.row  line == Rows(p)[n + 1]
<1>1. /\ p \in Files /\ n \in Nat /\ at = [page |-> p, row |-> n]
      /\ document \in [Files -> Parser!Document] /\ parsed \in Seq(CourseEntry)
      /\ course \in CourseEntry \cup {Parser!NoCourse}
  BY DEF ParserTypeOK, Parser!Parsing
<1>2. /\ n < Len(Rows(p)) /\ at' = [page |-> p, row |-> n + 1]
      /\ UNCHANGED <<document, unparsed, json, fresh>>
      /\ Parser!HeaderRow(line) \/ Parser!OtherRow(line) \/ Parser!SectionRow(line)
  BY <1>1 DEF Parser!ParseRow, Parser!Step, Parser!Rows, Parser!place, Rows
<1>3. /\ n + 1 \in DOMAIN Rows(p) /\ n + 1 <= Len(Rows(p)) /\ n + 1 \in Nat
      /\ line.cells \in Seq(Parser!Cell)
      /\ Heads(p, n + 1) => line.header \in Parser!Header
      /\ Heads(p, n + 1) <=> Parser!IsHeader(line)
      /\ Typed(p, n + 1) <=> Parser!TypeIndex(line.cells) # 0
      /\ \A r \in DOMAIN Rows(p) : r \in Nat
  <2>1. n + 1 \in DOMAIN Rows(p) /\ n + 1 <= Len(Rows(p)) /\ n + 1 \in Nat
        /\ \A r \in DOMAIN Rows(p) : r \in Nat
    BY <1>1, <1>2, PageType
  <2> QED BY <1>1, <2>1, PageType DEF Heads, Typed
<1>4. at'.page = p /\ at'.row = n + 1 /\ at' \in [page : Files, row : Nat] /\ Parser!Parsing'
  <2>1. at'.page = p /\ at'.row = n + 1 /\ at' \in [page : Files, row : Nat]
    BY <1>1, <1>2, <1>3
  <2>2. at' # Parser!Nowhere
    <3>1. Parser!Nowhere.page = "" /\ p # ""
      BY <1>1, ImportAssumption DEF Parser!Nowhere
    <3> QED BY <2>1, <3>1
  <2> QED BY <2>1, <2>2 DEF Parser!Parsing
<1> HIDE DEF line
<1>5. course # Parser!NoCourse =>
         /\ course \in CourseEntry
         /\ \E h \in DOMAIN Rows(p) :
               /\ IsCourse(course, p, h, n) /\ h <= n
               /\ \A g \in DOMAIN Rows(p) : h < g /\ g <= n => ~Heads(p, g)
  BY <1>1 DEF PageInv
<1>6. \A i \in DOMAIN parsed : IsOn(parsed[i], p)
  BY DEF PageInv
<1> HIDE DEF p, n
<1>7. SUFFICES
         /\ course' \in CourseEntry \cup {Parser!NoCourse} /\ parsed' \in Seq(CourseEntry)
         /\ course' # Parser!NoCourse =>
              \E h \in DOMAIN Rows(p) :
                 /\ IsCourse(course', p, h, n + 1) /\ h <= n + 1
                 /\ \A g \in DOMAIN Rows(p) : h < g /\ g <= n + 1 => ~Heads(p, g)
         /\ \A i \in DOMAIN parsed' : IsOn(parsed'[i], p)
  <2>1. ParserTypeOK'
    BY <1>2, <1>4, <1>7 DEF ParserTypeOK
  <2>2. PageInv'
    BY <1>2, <1>3, <1>4, <1>7, RowRead
  <2> QED BY <2>1, <2>2
<1>8. CASE Parser!HeaderRow(line)
  <2>0. /\ Heads(p, n + 1) /\ parsed' = Parser!Finished
        /\ course' \in {Parser!ParseHeader(line), Parser!NoCourse}
    BY <1>3, <1>8 DEF Parser!HeaderRow
  <2>1. ASSUME course = Parser!NoCourse
        PROVE  parsed' \in Seq(CourseEntry) /\ \A i \in DOMAIN parsed' : IsOn(parsed'[i], p)
    <3>1. parsed' = parsed
      BY <2>0, <2>1 DEF Parser!Finished
    <3> QED BY <1>1, <1>6, <3>1
  <2>2. ASSUME course # Parser!NoCourse
        PROVE  parsed' \in Seq(CourseEntry) /\ \A i \in DOMAIN parsed' : IsOn(parsed'[i], p)
    <3>1. PICK h \in DOMAIN Rows(p) :
                   /\ IsCourse(course, p, h, n) /\ h <= n
                   /\ \A g \in DOMAIN Rows(p) : h < g /\ g <= n => ~Heads(p, g)
      BY <1>5, <2>2
    <3>2. \A r : Under(p, h, r) => r <= n
      BY <1>1, <1>3, <2>0, <3>1, NextRow DEF IsCourse
    <3>3. IsOn(course, p)
      <4>1. n <= Len(Rows(p))
        BY <1>1, <1>2, PageType
      <4> QED BY <1>1, <3>1, <3>2, <4>1, CourseEnds
    <3>4. parsed' = Append(parsed, course) /\ course \in CourseEntry
      BY <1>5, <2>0, <2>2 DEF Parser!Finished
    <3>5. Append(parsed, course) \in Seq(CourseEntry)
          /\ \A i \in DOMAIN Append(parsed, course) :
                \/ i \in DOMAIN parsed /\ Append(parsed, course)[i] = parsed[i]
                \/ Append(parsed, course)[i] = course
      BY <1>1, <3>4, AppendAt
    <3> QED BY <1>6, <3>3, <3>4, <3>5
  <2>3. CASE course' = Parser!NoCourse
    BY <2>1, <2>2, <2>3
  <2>4. CASE course' = Parser!ParseHeader(line)
    <3>1. /\ course'.department = line.header.department /\ course'.term = line.header.term
          /\ course'.sections = <<>> /\ course'.id = ""
      BY <2>4 DEF Parser!ParseHeader
    <3>2. course' \in CourseEntry
      <4>1. line.header \in [department : Departments, term : Terms]
        BY <1>3, <2>0 DEF Parser!Header
      <4>2. line.header.department \in Departments /\ line.header.term \in Terms
        BY <4>1
      <4>3. <<>> \in Seq(CourseSection)
        OBVIOUS
      <4>4. course' = [department |-> line.header.department, id |-> "",
                       term |-> line.header.term, sections |-> <<>>]
        BY <2>4 DEF Parser!ParseHeader
      <4> QED BY <4>2, <4>3, <4>4 DEF CourseEntry
    <3>3. \A r : ~(Under(p, n + 1, r) /\ r <= n + 1)
      <4>1. \A r \in DOMAIN Rows(p) : ~(n + 1 < r /\ r <= n + 1)
        BY <1>3
      <4> QED BY <4>1 DEF Under
    <3>4. SectionsUpTo(<<>>, p, n + 1, n + 1) /\ IdUpTo("", p, n + 1, n + 1)
      BY <3>3 DEF SectionsUpTo, IdUpTo
    <3>5. IsCourse(course', p, n + 1, n + 1)
      BY <2>0, <3>1, <3>4 DEF IsCourse, line
    <3>6. n + 1 <= n + 1 /\ \A g \in DOMAIN Rows(p) : ~(n + 1 < g /\ g <= n + 1)
      BY <1>3
    <3>7. \E h \in DOMAIN Rows(p) :
             /\ IsCourse(course', p, h, n + 1) /\ h <= n + 1
             /\ \A g \in DOMAIN Rows(p) : h < g /\ g <= n + 1 => ~Heads(p, g)
      BY <1>3, <3>5, <3>6
    <3> QED BY <2>1, <2>2, <3>2, <3>7
  <2> QED BY <2>0, <2>3, <2>4
<1>9. CASE Parser!OtherRow(line)
  <2>0. /\ ~Heads(p, n + 1) /\ parsed' = parsed /\ course' = course
        /\ course = Parser!NoCourse \/ ~Typed(p, n + 1)
    BY <1>3, <1>9 DEF Parser!OtherRow
  <2>1. CASE course = Parser!NoCourse
    BY <1>1, <1>6, <2>0, <2>1
  <2>2. CASE course # Parser!NoCourse
    <3>1. PICK h \in DOMAIN Rows(p) :
                   /\ IsCourse(course, p, h, n) /\ h <= n
                   /\ \A g \in DOMAIN Rows(p) : h < g /\ g <= n => ~Heads(p, g)
      BY <1>5, <2>2
    <3>2. \A g \in DOMAIN Rows(p) : h < g /\ g <= n + 1 => ~Heads(p, g)
      BY <1>1, <1>3, <2>0, <3>1, NextRow DEF IsCourse
    <3>3. IsCourse(course, p, h, n + 1)
      BY <1>1, <1>3, <2>0, <2>2, <3>1, CourseGoesOn
    <3>4. h <= n + 1
      BY <1>1, <1>3, <3>1
    <3> QED BY <1>1, <1>6, <2>0, <3>2, <3>3, <3>4
  <2> QED BY <2>1, <2>2
<1>10. CASE Parser!SectionRow(line)
  <2> DEFINE x == Parser!ParseSection(line, n + 1)  id == Parser!IdOf(line.cells)
             s == course.sections
  <2>0. /\ ~Heads(p, n + 1) /\ parsed' = parsed /\ course # Parser!NoCourse
        /\ Typed(p, n + 1) /\ course \in CourseEntry
        /\ course' = [course EXCEPT !.id = id, !.sections = Append(s, x)]
    BY <1>3, <1>5, <1>10 DEF Parser!SectionRow, Parser!place, n
  <2>1. PICK h \in DOMAIN Rows(p) :
                 /\ IsCourse(course, p, h, n) /\ h <= n
                 /\ \A g \in DOMAIN Rows(p) : h < g /\ g <= n => ~Heads(p, g)
    BY <1>5, <2>0
  <2>2. /\ Under(p, h, n + 1)
        /\ \A g \in DOMAIN Rows(p) : h < g /\ g <= n + 1 => ~Heads(p, g)
    BY <1>1, <1>3, <2>0, <2>1, NextRow DEF IsCourse
  <2>3. x \in CourseSection /\ x.row = n + 1 /\ x.letter = Parser!LetterOf(line.cells)
    BY <1>3, <2>0, SectionType
  <2>4. x.letter = Letter(p, n + 1)
    BY <2>0, <2>3 DEF Letter, line
  <2>5. s \in Seq(CourseSection) /\ Append(s, x) \in Seq(CourseSection)
    <3>1. s \in Seq(CourseSection)
      BY <2>0 DEF CourseEntry
    <3> HIDE DEF x, s
    <3> QED BY <2>3, <3>1, AppendAt
  <2>6. SectionsUpTo(Append(s, x), p, h, n + 1)
    BY <1>1, <1>3, <2>0, <2>1, <2>2, <2>3, <2>4, <2>5, SectionsGrow DEF IsCourse
  <2>7. IdUpTo(id, p, h, n + 1)
    BY <1>1, <1>3, <2>1, <2>2, IdIsKept DEF IsCourse, line
  <2>8. id \in Ids \cup {""}
    <3>1. \A i \in DOMAIN line.cells : line.cells[i].id \in Ids \cup {""}
      <4>1. \A i \in DOMAIN line.cells : line.cells[i] \in Parser!Cell
        BY <1>3, SeqDomain
      <4> QED BY <4>1 DEF Parser!Cell
    <3>2. course.id \in Ids \cup {""}
      BY <2>0 DEF CourseEntry
    <3> QED BY <1>3, <3>1, <3>2, SummaryIndexIs DEF Parser!IdOf
  <2> DEFINE t == Append(s, x)
  <2> HIDE DEF x, id, t
  <2>9. /\ course'.id = id /\ course'.sections = t /\ course' \in CourseEntry
        /\ course'.department = course.department /\ course'.term = course.term
    BY <2>0, <2>5, <2>8 DEF CourseEntry, t
  <2>10. IsCourse(course', p, h, n + 1)
    BY <2>1, <2>6, <2>7, <2>9 DEF IsCourse, t
  <2>11. h <= n + 1
    BY <1>1, <1>3, <2>1
  <2> QED BY <1>1, <1>6, <2>0, <2>2, <2>9, <2>10, <2>11
<1> QED BY <1>2, <1>8, <1>9, <1>10

LEMMA SavePageInv ==
    ASSUME ParserTypeOK, PageInv, Parser!SavePage
    PROVE  ParserTypeOK' /\ PageInv'
<1> DEFINE p == at.page  n == at.row  export == [courses |-> Parser!Finished, form |-> "export"]
<1>1. /\ p \in Files /\ n \in Nat /\ n = Len(Rows(p))
      /\ document \in [Files -> Parser!Document] /\ parsed \in Seq(CourseEntry)
      /\ course \in CourseEntry \cup {Parser!NoCourse}
      /\ json \in [Files -> Export]
  BY DEF ParserTypeOK, Parser!SavePage, Parser!EndPage, Parser!Parsing, Parser!Rows, Rows
<1>2. /\ json' = [json EXCEPT ![p] = export]
      /\ at' = Parser!Nowhere /\ course' = Parser!NoCourse /\ parsed' = <<>>
      /\ fresh' = fresh \cup {p}
      /\ UNCHANGED <<document, unparsed>> /\ ~Parser!Parsing'
  BY DEF Parser!SavePage, Parser!EndPage, Parser!Parsing
<1>3. \A i \in DOMAIN parsed : IsOn(parsed[i], p)
  BY DEF PageInv, Parser!SavePage, Parser!EndPage
<1>4. course # Parser!NoCourse => course \in CourseEntry /\ IsOn(course, p)
  <2> SUFFICES ASSUME course # Parser!NoCourse PROVE IsOn(course, p)
    BY <1>1
  <2>1. PICK h \in DOMAIN Rows(p) : IsCourse(course, p, h, n)
    BY DEF PageInv, Parser!SavePage, Parser!EndPage
  <2>2. \A r : Under(p, h, r) => r <= n
    BY <1>1, PageType DEF Under
  <2>3. n <= Len(Rows(p))
    BY <1>1
  <2> QED BY <1>1, <2>1, <2>2, <2>3, CourseEnds
<1>5. /\ Parser!Finished \in Seq(CourseEntry)
      /\ \A i \in DOMAIN Parser!Finished : IsOn(Parser!Finished[i], p)
  <2>1. CASE course = Parser!NoCourse
    BY <1>1, <1>3, <2>1 DEF Parser!Finished
  <2>2. CASE course # Parser!NoCourse
    <3>1. Parser!Finished = Append(parsed, course)
      BY <2>2 DEF Parser!Finished
    <3>2. Append(parsed, course) \in Seq(CourseEntry)
          /\ \A i \in DOMAIN Append(parsed, course) :
                \/ i \in DOMAIN parsed /\ Append(parsed, course)[i] = parsed[i]
                \/ Append(parsed, course)[i] = course
      BY <1>1, <1>4, <2>2, AppendAt
    <3> QED BY <1>3, <1>4, <2>2, <3>1, <3>2
  <2> QED BY <2>1, <2>2
<1>6. export \in Export /\ export.courses = Parser!Finished
  BY <1>5 DEF Export
<1> HIDE DEF export, p, n
<1>7. ParserTypeOK'
  BY <1>1, <1>2, <1>6 DEF ParserTypeOK
<1>8. \A f \in fresh' : \A e \in DOMAIN json'[f].courses : IsOn(json'[f].courses[e], f)
  <2>1. \A f \in fresh' : f # p => f \in fresh /\ json'[f] = json[f]
    BY <1>1, <1>2 DEF ParserTypeOK
  <2>2. json'[p].courses = Parser!Finished
    BY <1>1, <1>2, <1>6
  <2> QED BY <1>5, <2>1, <2>2 DEF PageInv
<1>9. PageInv'
  BY <1>2, <1>8, SamePage DEF PageInv
<1> QED BY <1>7, <1>9

LEMMA SaveFailsInv ==
    ASSUME ParserTypeOK, PageInv, Parser!SaveFails
    PROVE  ParserTypeOK' /\ PageInv'
<1>1. /\ json' = [json EXCEPT ![at.page] = Parser!NotJson]
      /\ at' = Parser!Nowhere /\ course' = Parser!NoCourse /\ parsed' = <<>>
      /\ UNCHANGED <<document, unparsed, fresh>> /\ ~Parser!Parsing'
  BY DEF Parser!SaveFails, Parser!EndPage, Parser!Parsing
<1>2. Parser!NotJson \in Export /\ Parser!NotJson.courses = <<>>
  BY DEF Parser!NotJson, Export
<1>3. ParserTypeOK'
  <2>1. json' \in [Files -> Export]
    BY <1>1, <1>2 DEF ParserTypeOK
  <2> QED BY <1>1, <2>1 DEF ParserTypeOK
<1>4. \A f \in fresh' : \A e \in DOMAIN json'[f].courses : IsOn(json'[f].courses[e], f)
  <2>1. \A f \in Files : json'[f] = json[f] \/ json'[f].courses = <<>>
    BY <1>1, <1>2 DEF ParserTypeOK
  <2> QED BY <1>1, <2>1, SamePage DEF PageInv, ParserTypeOK
<1>5. PageInv'
  BY <1>1, <1>4, SamePage DEF PageInv
<1> QED BY <1>3, <1>5

LEMMA NextPageInv ==
    ASSUME ParserTypeOK, PageInv, Parser!Unreadable \/ Parser!ReadPage
    PROVE  ParserTypeOK' /\ PageInv'
<1>1. /\ unparsed \in Seq(Files) /\ unparsed # <<>> /\ unparsed' = Tail(unparsed)
      /\ UNCHANGED <<document, json, fresh>> /\ ~Parser!Parsing
  BY DEF ParserTypeOK, Parser!Unreadable, Parser!ReadPage
<1>2. unparsed' \in Seq(Files) /\ Head(unparsed) \in Files
  BY <1>1
<1>3. CASE Parser!Unreadable
  <2>1. UNCHANGED <<at, course, parsed>>
    BY <1>3 DEF Parser!Unreadable
  <2>2. ParserTypeOK'
    BY <1>1, <1>2, <2>1 DEF ParserTypeOK
  <2>3. PageInv'
    BY <1>1, <2>1, SamePage DEF PageInv, Parser!Parsing
  <2> QED BY <2>2, <2>3
<1>4. CASE Parser!ReadPage
  <2>1. /\ at' = [page |-> Head(unparsed), row |-> 0]
        /\ course' = Parser!NoCourse /\ parsed' = <<>>
    BY <1>4 DEF Parser!ReadPage
  <2>2. ParserTypeOK'
    BY <1>1, <1>2, <2>1 DEF ParserTypeOK
  <2>3. at'.row = 0 /\ at'.page = Head(unparsed)
    BY <2>1
  <2>4. 0 <= Len(Rows(Head(unparsed)))
    BY <1>2, PageType DEF ParserTypeOK
  <2>5. PageInv'
    BY <1>1, <2>1, <2>3, <2>4, SamePage DEF PageInv
  <2> QED BY <2>2, <2>5
<1> QED BY <1>3, <1>4

(* Before the generator lists its files, nothing depends on their content. *)
LEMMA ScrapeInv == ASSUME ImportInv, Scrape PROVE ImportInv'
<1>1. stage = "arguments" /\ stage' = stage
  BY DEF ImportInv, Scrape, Parser!ParserDone, Parser!ParserNext, Parser!Unreadable,
         Parser!ReadPage
<1>2. ParserTypeOK' /\ PageInv'
  BY ParseRowInv, SavePageInv, SaveFailsInv, NextPageInv DEF ImportInv, Scrape, Parser!ParserNext
<1>3. /\ UNCHANGED <<terms, queue, file, entry, row, list, letters, current, drafts, acts,
                     courses, sections, activities, uuids, sql>>
      /\ json' \in [Files -> Export]
  BY <1>2 DEF Scrape, ofFile, merged, ParserTypeOK
<1> USE DEF ImportInv, IInv
<1>4. TypeOK' /\ PlaceInv'
  BY <1>1, <1>3 DEF TypeOK, PlaceInv, InFile, Data
<1>5. KeyInv' /\ FitInv' /\ LetterInv' /\ CurrentInv'
  BY <1>1, <1>3 DEF KeyInv, InFile, FitInv, PlaceInv, LetterInv, CurrentInv
<1>6. UuidInv'
  BY <1>1, <1>3 DEF UuidInv, Given, Unique, Apart, InFile
<1>7. RightSection' /\ ForeignKeys'
  BY <1>1, <1>3 DEF PlaceInv, RightSection, ForeignKeys
<1>8. OnceInv'
  <2>1. file' = 1 /\ activities' = <<>>
    BY <1>1, <1>3 DEF OnceInv, PlaceInv
  <2>2. \A w \in Owed' : w[1] \in DOMAIN queue /\ queue \in Seq(Files)
    BY <1>3 DEF Owed, TypeOK
  <2>3. \A w \in Owed' : ~(w[1] < 1)
    BY <2>2, SeqDomain
  <2>4. Before' = {}
    BY <2>1, <2>3 DEF Before
  <2> QED BY <1>1, <2>1, <2>4 DEF OnceInv, OneEach, InFile
<1> QED BY <1>1, <1>2, <1>4, <1>5, <1>6, <1>7, <1>8

LEMMA GenerateInv == ASSUME ImportInv, Generate PROVE ImportInv'
<1>1. [Next]_vars /\ UNCHANGED scraping /\ Parser!ParserDone
  BY DEF Generate, Next
<1>2. IInv' /\ OnceInv'
  BY <1>1, NextInv, OnceNext DEF ImportInv
<1>3. json' = json
  BY DEF Generate, GeneratorNext, Arguments, ListTerm, EndPaths, SkipFile, LoadFails, OpenFile,
         Collect, EndCollect, NewLetter, NoNewLetter, SecondPass, Activity, NextEntry, Merge, Write,
         untouched, fixed
<1>4. ParserTypeOK'
  BY <1>1, <1>3 DEF ImportInv, ParserTypeOK, scraping
<1>5. PageInv'
  BY <1>1, <1>3, SamePage DEF ImportInv, PageInv, scraping, Parser!Parsing
<1>6. Parser!ParserDone'
  BY <1>1 DEF Parser!ParserDone, Parser!Parsing, scraping
<1> QED BY <1>2, <1>4, <1>5, <1>6 DEF ImportInv

LEMMA ImportNextInv == ASSUME ImportInv, [ImportNext]_importVars PROVE ImportInv'
<1>1. CASE UNCHANGED importVars
  <2>1. UNCHANGED vars /\ UNCHANGED scraping /\ UNCHANGED json
    BY <1>1 DEF importVars, vars, fixed
  <2>2. IInv' /\ OnceInv'
    BY <2>1, NextInv, OnceNext DEF ImportInv
  <2>3. ParserTypeOK'
    BY <2>1 DEF ImportInv, ParserTypeOK, scraping
  <2>4. PageInv'
    BY <2>1, SamePage DEF ImportInv, PageInv, scraping, Parser!Parsing
  <2>5. Parser!ParserDone' = Parser!ParserDone /\ stage' = stage
    BY <2>1 DEF Parser!ParserDone, Parser!Parsing, scraping, vars
  <2> QED BY <2>2, <2>3, <2>4, <2>5 DEF ImportInv
<1> QED BY <1>1, ScrapeInv, GenerateInv DEF ImportNext

LEMMA ImportInitInv == ImportInit => ImportInv
<1> SUFFICES ASSUME ImportInit PROVE ImportInv
  OBVIOUS
<1>1. json \in [Files -> Export]
  BY ImportAssumption DEF ImportInit
<1>2. Init
  BY <1>1 DEF ImportInit, Init
<1>3. IInv /\ OnceInv
  BY <1>2, InitInv, OnceInit
<1>4. ParserTypeOK
  <2>1. document \in [Files -> Parser!Document] /\ unparsed \in Seq(Files)
    BY ImportAssumption DEF ImportInit, Parser!ParserInit
  <2> QED BY <1>1, <2>1 DEF ImportInit, Parser!ParserInit, ParserTypeOK
<1>5. PageInv
  BY DEF ImportInit, Parser!ParserInit, PageInv, Parser!Parsing
<1>6. stage = "arguments"
  BY DEF ImportInit, GeneratorInit
<1> QED BY <1>3, <1>4, <1>5, <1>6 DEF ImportInv

(* The scrapers and the generator keep all of it together. *)
THEOREM ImportInvariance == ImportSpec => []ImportInv
<1>1. ImportInv /\ [ImportNext]_importVars => ImportInv'
  BY ImportNextInv
<1> QED BY <1>1, ImportInitInv, PTL DEF ImportSpec

-----------------------------------------------------------------------------
(* The seed and the page *)

(* The row that gives a section of a course its letter. *)
LEMMA LetterOnPage ==
    ASSUME document \in [Files -> Parser!Document], NEW p \in Files, NEW h \in DOMAIN Rows(p),
           NEW s \in Seq(CourseSection), SectionsUpTo(s, p, h, Len(Rows(p))),
           NEW k \in DOMAIN s, Lettered(s, Len(s)) # {}
    PROVE  \E x \in Group(p, h) : Gives(p, s[k].row, x) /\ LetterFor(s, k) = Letter(p, x)
<1> DEFINE n == Len(s)  r == s[k].row
           L == {x \in Group(p, h) : Letter(p, x) # ""}
           U == {x \in L : x <= r}
<1>1. /\ n \in Nat /\ DOMAIN s = 1..n /\ k \in 1..n
      /\ \A i \in DOMAIN s : s[i] \in CourseSection
  BY SeqDomain
<1>2. \A i \in DOMAIN s : s[i].row \in Nat
  BY <1>1 DEF CourseSection
<1> HIDE DEF n
<1>3. \A i, j \in DOMAIN s : i <= j <=> s[i].row <= s[j].row
  <2> SUFFICES ASSUME NEW i \in DOMAIN s, NEW j \in DOMAIN s
               PROVE  i <= j <=> s[i].row <= s[j].row
    OBVIOUS
  <2>1. /\ i < j => s[i].row < s[j].row
        /\ j < i => s[j].row < s[i].row
        /\ i = j => s[i].row = s[j].row
    BY DEF SectionsUpTo
  <2>2. i \in Nat /\ j \in Nat /\ s[i].row \in Nat /\ s[j].row \in Nat
    BY <1>1, <1>2
  <2> QED BY <2>1, <2>2
(* The rows with a letter are those of the sections with a letter. *)
<1>4. ASSUME NEW i \in DOMAIN s, s[i].letter # "" PROVE s[i].row \in L
  BY <1>4, UnderIsGroup DEF SectionsUpTo, Under
<1>5. ASSUME NEW x \in L
      PROVE  \E i \in DOMAIN s : s[i].row = x /\ s[i].letter # "" /\ s[i].letter = Letter(p, x)
  <2>1. x \in DOMAIN Rows(p) /\ x <= Len(Rows(p))
    BY GroupRows
  <2>2. Under(p, h, x) /\ Typed(p, x)
    BY <2>1, UnderIsGroup DEF Letter
  <2>3. PICK i \in DOMAIN s : s[i].row = x
    BY <2>1, <2>2 DEF SectionsUpTo
  <2> QED BY <2>3 DEF SectionsUpTo
<1>6. HeaderOf(p, r) = h
  BY UnderIsGroup DEF SectionsUpTo, Under
<1>7. /\ \A i : i \in Lettered(s, k) <=> i \in DOMAIN s /\ i <= k /\ s[i].letter # ""
      /\ \A i : i \in Lettered(s, n) <=> i \in DOMAIN s /\ s[i].letter # ""
      /\ \A i \in DOMAIN s : i \in Nat /\ (i <= k => i \in 0..k)
      /\ k \in Nat
  <2>1. \A i : i \in 1..k <=> i \in 1..n /\ i <= k
    BY <1>1
  <2>2. /\ \A i \in DOMAIN s : i \in Nat /\ (i <= k => i \in 0..k)
        /\ k \in Nat
    BY <1>1
  <2> QED BY <1>1, <2>1, <2>2, Zenon DEF Lettered
<1>8. CASE Lettered(s, k) # {}
  <2>1. Lettered(s, k) \subseteq 0..k /\ k \in Nat /\ \A i \in Lettered(s, k) : i \in DOMAIN s
    BY <1>7
  <2>2. \E m \in Lettered(s, k) : \A i \in Lettered(s, k) : i <= m
    BY <1>8, <2>1, HasGreatest
  <2> DEFINE m == CHOOSE i \in Lettered(s, k) : \A j \in Lettered(s, k) : j <= i
  <2>3. m \in Lettered(s, k) /\ \A i \in Lettered(s, k) : i <= m
    BY <2>2
  <2>4. LetterFor(s, k) = s[m].letter
    BY <1>8 DEF LetterFor
  <2> HIDE DEF m
  <2>5. m \in DOMAIN s /\ s[m].letter # "" /\ m <= k
    BY <1>7, <2>3
  <2>6. s[m].row \in U
    BY <1>3, <1>4, <2>5
  <2>7. ASSUME NEW x \in U PROVE x <= s[m].row
    <3>1. PICK i \in DOMAIN s : s[i].row = x /\ s[i].letter # ""
      BY <1>5
    <3>2. i <= k
      BY <1>3, <3>1
    <3>3. i \in Lettered(s, k)
      BY <1>7, <3>1, <3>2
    <3> QED BY <1>3, <2>3, <2>5, <3>1, <3>3
  <2>8. Gives(p, r, s[m].row)
    BY <1>6, <2>6, <2>7 DEF Gives
  <2>9. s[m].letter = Letter(p, s[m].row)
    BY <2>5 DEF SectionsUpTo
  <2> QED BY <2>4, <2>6, <2>8, <2>9
<1>9. CASE Lettered(s, k) = {}
  <2>1. Lettered(s, n) \subseteq Nat /\ \A i \in Lettered(s, n) : i \in DOMAIN s
    BY <1>7
  <2>2. \E m \in Lettered(s, n) : \A i \in Lettered(s, n) : m <= i
    BY <2>1, HasLeast DEF n
  <2> DEFINE m == CHOOSE i \in Lettered(s, n) : \A j \in Lettered(s, n) : i <= j
  <2>3. m \in Lettered(s, n) /\ \A i \in Lettered(s, n) : m <= i
    BY <2>2
  <2>4. LetterFor(s, k) = s[m].letter
    BY <1>9 DEF LetterFor, n
  <2> HIDE DEF m
  <2>5. m \in DOMAIN s /\ s[m].letter # ""
    BY <1>7, <2>3
  <2>6. U = {}
    <3> SUFFICES ASSUME NEW x \in U PROVE FALSE
      OBVIOUS
    <3>1. PICK i \in DOMAIN s : s[i].row = x /\ s[i].letter # ""
      BY <1>5
    <3>2. i <= k
      BY <1>3, <3>1
    <3> QED BY <1>7, <1>9, <3>1, <3>2
  <2>7. s[m].row \in L
    BY <1>4, <2>5
  <2>8. ASSUME NEW x \in L PROVE s[m].row <= x
    <3>1. PICK i \in DOMAIN s : s[i].row = x /\ s[i].letter # ""
      BY <1>5
    <3>2. i \in Lettered(s, n)
      BY <1>7, <3>1
    <3> QED BY <1>3, <2>3, <2>5, <3>1, <3>2
  <2>9. Gives(p, r, s[m].row)
    BY <1>6, <2>6, <2>7, <2>8 DEF Gives
  <2>10. s[m].letter = Letter(p, s[m].row)
    BY <2>5 DEF SectionsUpTo
  <2> QED BY <2>4, <2>7, <2>9, <2>10
<1> QED BY <1>8, <1>9

(* The row that gives the course its id. *)
LEMMA IdOnPage ==
    ASSUME document \in [Files -> Parser!Document], NEW p \in Files, NEW h \in DOMAIN Rows(p),
           NEW id, IdUpTo(id, p, h, Len(Rows(p))),
           NEW x \in Group(p, h), Letter(p, x) # ""
    PROVE  \E y \in Group(p, h) : GivesId(p, h, y) /\ id = IdAt(p, y)
<1>1. /\ \A r \in DOMAIN Rows(p) : r <= Len(Rows(p))
      /\ x \in DOMAIN Rows(p) /\ Group(p, h) \subseteq DOMAIN Rows(p)
  BY GroupRows
<1>2. Under(p, h, x) /\ Summary(p, x) # 0
  BY <1>1, UnderIsGroup DEF Letter, Parser!LetterOf, Summary
<1>3. id # ""
  BY <1>1, <1>2 DEF IdUpTo
<1>4. PICK y \in DOMAIN Rows(p) :
            /\ Under(p, h, y) /\ Summary(p, y) # 0 /\ IdAt(p, y) = id
            /\ \A r \in DOMAIN Rows(p) : Under(p, h, r) /\ Summary(p, r) # 0 => y <= r
  BY <1>3 DEF IdUpTo
<1>5. y \in Group(p, h)
  BY <1>4, UnderIsGroup
<1>6. \A r \in Group(p, h) : Summary(p, r) # 0 => y <= r
  BY <1>1, <1>4, UnderIsGroup
<1>7. GivesId(p, h, y)
  BY <1>4, <1>5, <1>6 DEF GivesId, Summary
<1> QED BY <1>4, <1>5, <1>7

LEMMA SeedIsAsOnThePage == ASSUME ImportInv PROVE AsOnThePage
<1> SUFFICES ASSUME stage = "written", NEW a \in DOMAIN activities,
                    queue[activities[a].from[1]] \in fresh
             PROVE  LET from == activities[a].from
                        p == queue[from[1]]
                        r == EntryAt(from[1], from[2]).sections[from[3]].row
                        h == HeaderOf(p, r)
                    IN  \E s \in DOMAIN SectionRows, c \in DOMAIN CourseRows,
                           x, y \in Group(p, h) :
                           /\ SectionRows[s].uuid = activities[a].section
                           /\ CourseRows[c].uuid = SectionRows[s].course
                           /\ Gives(p, r, x) /\ SectionRows[s].letter = Letter(p, x)
                           /\ GivesId(p, h, y)
                           /\ CourseRows[c].key =
                                 [department |-> Rows(p)[h].header.department,
                                  term |-> Rows(p)[h].header.term, id |-> IdAt(p, y)]
  BY DEF AsOnThePage, IdAt, Summary
<1> USE DEF ImportInv, IInv
<1> DEFINE from == activities[a].from
           f == from[1]  e == from[2]  k == from[3]
           p == queue[f]  c0 == EntryAt(f, e)  s0 == c0.sections  r == s0[k].row
<1>1. from \in Owed
  BY DEF OnceInv, OneEach, Before
<1>2. /\ f \in DOMAIN queue /\ e \in DOMAIN json[p].courses /\ k \in DOMAIN s0
      /\ HasLetters(f, e) /\ c0 = json[p].courses[e] /\ p \in Files
      /\ s0 \in Seq(CourseSection)
  <2>1. f \in DOMAIN queue /\ e \in DOMAIN json[p].courses /\ k \in DOMAIN s0 /\ HasLetters(f, e)
    BY <1>1 DEF Owed
  <2>2. p \in Files
    BY <2>1, SeqDomain DEF TypeOK
  <2>3. s0 \in Seq(CourseSection)
    BY <2>1, EntryType
  <2> QED BY <2>1, <2>2, <2>3 DEF EntryAt
<1>3. Lettered(s0, Len(s0)) # {}
  <2>1. DOMAIN s0 = 1..Len(s0)
    BY <1>2, SeqDomain
  <2> QED BY <1>2, <2>1 DEF HasLetters, Lettered
<1>4. PICK d \in DOMAIN sections : /\ activities[a].section = sections[d].uuid
                                   /\ sections[d].from = <<f, e>>
                                   /\ sections[d].letter = LetterFor(s0, k)
  BY DEF RightSection, BelongsTo
<1> DEFINE i == sections[d].course
<1>5. i \in DOMAIN courses /\ courses[i].key = Key(c0)
  BY <1>4 DEF FitInv, Fits
<1>6. /\ d \in DOMAIN SectionRows /\ i \in DOMAIN CourseRows
      /\ SectionRows[d].uuid = sections[d].uuid /\ SectionRows[d].course = courses[i].uuid
      /\ SectionRows[d].letter = sections[d].letter
      /\ CourseRows[i].uuid = courses[i].uuid /\ CourseRows[i].key = courses[i].key
  BY <1>5 DEF SectionRows, CourseRows
<1>7. document \in [Files -> Parser!Document] /\ IsOn(c0, p)
  BY <1>2 DEF ParserTypeOK, PageInv
<1> HIDE DEF s0, c0, p, f, e, k, from
<1>8. PICK h \in DOMAIN Rows(p) : IsCourse(c0, p, h, Len(Rows(p)))
  BY <1>7 DEF IsOn
<1>9. /\ SectionsUpTo(s0, p, h, Len(Rows(p))) /\ IdUpTo(c0.id, p, h, Len(Rows(p)))
      /\ c0.department = Rows(p)[h].header.department /\ c0.term = Rows(p)[h].header.term
  BY <1>8 DEF IsCourse, s0
<1>10. PICK x \in Group(p, h) : Gives(p, r, x) /\ LetterFor(s0, k) = Letter(p, x)
  BY <1>2, <1>3, <1>7, <1>9, LetterOnPage
<1>11. Letter(p, x) # ""
  BY <1>10 DEF Gives
<1>12. PICK y \in Group(p, h) : GivesId(p, h, y) /\ c0.id = IdAt(p, y)
  BY <1>2, <1>7, <1>9, <1>11, IdOnPage
<1>13. HeaderOf(p, r) = h
  <2>1. Under(p, h, r)
    BY <1>2, <1>9 DEF SectionsUpTo
  <2> QED BY <1>2, <1>7, <2>1, UnderIsGroup DEF Under
<1>14. /\ SectionRows[d].uuid = activities[a].section
       /\ CourseRows[i].uuid = SectionRows[d].course /\ SectionRows[d].letter = Letter(p, x)
       /\ CourseRows[i].key = [department |-> Rows(p)[h].header.department,
                               term |-> Rows(p)[h].header.term, id |-> IdAt(p, y)]
  BY <1>4, <1>5, <1>6, <1>9, <1>10, <1>12 DEF Key
<1> HIDE DEF i, r
<1>15. \E ss \in DOMAIN SectionRows, cc \in DOMAIN CourseRows,
          xx, yy \in Group(p, HeaderOf(p, r)) :
          /\ SectionRows[ss].uuid = activities[a].section
          /\ CourseRows[cc].uuid = SectionRows[ss].course
          /\ Gives(p, r, xx) /\ SectionRows[ss].letter = Letter(p, xx)
          /\ GivesId(p, HeaderOf(p, r), yy)
          /\ CourseRows[cc].key = [department |-> Rows(p)[HeaderOf(p, r)].header.department,
                                   term |-> Rows(p)[HeaderOf(p, r)].header.term,
                                   id |-> IdAt(p, yy)]
  BY <1>6, <1>10, <1>12, <1>13, <1>14
<1> QED BY <1>15 DEF from, f, e, k, p, c0, s0, r

(* Every activity of the seed from a file that the scrapers have written is *)
(* where its page puts it, whatever the pages and the files of earlier runs *)
(* are: in the section of the letter nearest to its row, of the course of   *)
(* its header.                                                              *)
THEOREM SeedFollowsThePages == ImportSpec => []AsOnThePage
<1>1. ImportInv => AsOnThePage
  BY SeedIsAsOnThePage
<1> QED BY <1>1, ImportInvariance, PTL

(* What was shown of the generator for any JSON files holds of the files    *)
(* that the scrapers leave, while they write them and after.                *)
THEOREM ImportIsCorrect ==
    ImportSpec => [](TypeOK /\ RightCourse /\ RightSection /\ EveryRowOnce /\ ForeignKeys)
<1>1. ImportInv => TypeOK /\ RightCourse /\ RightSection /\ ForeignKeys
  BY DEF ImportInv, IInv, RightCourse, FitInv, Fits
<1>2. ImportInv => EveryRowOnce
  BY OnceWritten DEF ImportInv
<1> QED BY <1>1, <1>2, ImportInvariance, PTL

==============================================================================
