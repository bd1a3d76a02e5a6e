--------------------------- MODULE MCOrphanFiles ----------------------------
(* OrphanFiles with a save path nested in another, three torrents that      *)
(* compete for two files, and two instances.                                *)
EXTENDS OrphanFiles

CONSTANTS fa, fb, top, sub, t1, t2, t3

MCUnder ==
    [x \in {fa, fb, top, sub} |-> IF x \in {fb, sub} THEN {top, sub} ELSE {top}]
MCSavePath == [t \in {t1, t2, t3} |-> IF t = t2 THEN sub ELSE top]
MCTFiles == [t \in {t1, t2, t3} |-> IF t = t1 THEN {fa} ELSE {fb}]
=============================================================================
