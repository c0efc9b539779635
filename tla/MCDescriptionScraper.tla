------------------------- MODULE MCDescriptionScraper -------------------------
EXTENDS DescriptionScraper

TwoSubjects == <<"ACTG", "EECS">>
SampleLinks == [s \in {"ACTG", "EECS"} |-> IF s = "ACTG" THEN 2 ELSE 1]
=============================================================================
