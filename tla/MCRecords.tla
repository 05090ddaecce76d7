----------------------------- MODULE MCRecords -----------------------------
EXTENDS VarnishLines, FiniteSets

Replace(s, i, t) == [s EXCEPT ![i] = t]

AllTags == DOMAIN Formats \cup {"none"}

\* The first line of every format, cut at every field or with more fields behind
\* it; every field of those replaced by every other; all lines of up to two fields.
Printing(f) == [i \in DOMAIN f |-> CHOOSE t \in Printed(f[i]) : TRUE]

Whole(tag) == IF tag = "none" THEN {<< >>} ELSE {Printing(f) : f \in Formats[tag]}

Resized(tag) ==
  UNION {{SubSeq(f, 1, n) : n \in 0..Len(f)} \cup {f \o <<t>> : t \in Tokens}
           \cup {f \o <<"word", "word">>} : f \in Whole(tag)}

Varied(tag) == Resized(tag) \cup
  UNION {{Replace(f, i, t) : i \in DOMAIN f, t \in Tokens} : f \in Resized(tag)}

Short == UNION {[1..n -> Tokens] : n \in 0..2}

MCLines == UNION {[tag : {tag}, fields : Varied(tag) \cup Short] : tag \in AllTags}
=============================================================================
