-------------------------- MODULE MCTimetableImport --------------------------
EXTENDS TimetableImport, TLC

Blank == [type |-> "", id |-> "", letter |-> "", names |-> {}, nested |-> {},
          nestedNotes |-> FALSE]
Summary(letter) == [Blank EXCEPT !.id = "1000", !.letter = letter]
Typ(type) == [Blank EXCEPT !.type = type]

HeaderRow(term) == [header |-> [department |-> "CORE", term |-> term], cells |-> <<>>]
NoHeading == [department |-> "", term |-> ""]
CellRow(cells) == [header |-> NoHeading, cells |-> cells]

Lecture(letter) == CellRow(<<Summary(letter), Typ("LECT"), Blank, Blank, Blank,
                             [Blank EXCEPT !.names = {"Ann"}]>>)
Tutorial == CellRow(<<Blank, Typ("TUTR"), Blank, Blank, [Blank EXCEPT !.nested = {"Bob"}]>>)

(* The rows of a page: a course, a lecture that has a letter, a tutorial   *)
(* that has none, with the instructor in its place in new and old pages,   *)
(* the row of a schedule with a room in a "STUDIO", a row that has no type *)
(* and one with another id.                                                *)
SampleRows ==
    {HeaderRow("F"), HeaderRow("W"), Lecture("A"), Lecture("B"), Tutorial,
     CellRow(<<Blank, Blank, Blank, Blank, Typ("STDO")>>),
     CellRow(<<[Summary("C") EXCEPT !.id = "2000"], Blank>>),
     CellRow(<<[Summary("C") EXCEPT !.id = "2000"], Typ("LECT")>>)}

Page(rows, n) == [rows |-> rows, table |-> n]
From(header, rests) == {<<header>> \o rest : rest \in rests}

(* The first page has all sequences of rows, and the second one enough to  *)
(* tell its courses and sections from those of the first.                  *)
SampleDocuments ==
    {("p1" :> Page(first, n)) @@ ("p2" :> Page(second, 3)) :
        first \in From(HeaderRow("F"), UNION {[1..k -> SampleRows] : k \in 0..3}), n \in {2, 4},
        second \in From(HeaderRow("F"), {<<>>, <<Lecture("A")>>, <<Tutorial>>})}

(* A file without courses (like no file, it gives no rows), and the file   *)
(* that an earlier page was saved in.                                      *)
SampleOldFiles ==
    {[courses |-> <<>>, form |-> "other"],
     [courses |-> <<[department |-> "CORE", id |-> "2000", term |-> "F",
                     sections |-> <<[type |-> "LECT", letter |-> "C", names |-> {}, row |-> 2],
                                    [type |-> "TUTR", letter |-> "", names |-> {}, row |-> 3]>>]>>,
      form |-> "export"]}

TwoPages == <<"p1", "p2">>
SampleListing == ("fall" :> <<"p1">>) @@ ("summer" :> <<"p2">>) @@ ("empty" :> <<>>)
SampleRequests == {[terms |-> dirs, partial |-> partial] :
                     dirs \in {<<"fall", "summer">>, <<"fall">>, <<"fall", "winter">>,
                                <<"empty", "empty">>},
                     partial \in BOOLEAN}
=============================================================================
