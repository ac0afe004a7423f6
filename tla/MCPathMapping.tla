---------------------------- MODULE MCPathMapping ----------------------------
(* An instance of PathMapping small enough for TLC. *)
EXTENDS PathMapping

MCMark(k) == <<"-t", "-t-1">>[k]
MCRetryMark(k) == <<"-1", "-2", "-3">>[k]

\* Every name of two characters, the three-character names of a letter, a
\* colon and dots, and long ones.
Short == UNION {[1..n -> Chars] : n \in 1..2} \cup [1..3 -> {"x", "dot", "colon"}]
Long == {[i \in 1..n |-> c] : n \in {4, 5, 6}, c \in {"x", "wide"}}
Names == (Short \cup Long) \ {<<"dot">>, <<"dot", "dot">>}

\* The root of the drive, a folder, and a root that only StartUpload refuses.
Roots == {<<>>, <<<<"x">>>>, <<<<"x", "dot", "dot">>>>}

Dirs == {<<>>, <<<<"x">>>>, <<<<"colon", "x">>>>, <<<<"x", "colon">>>>, <<<<"back">>>>,
         <<<<"ctl">>>>, <<<<"x">>, <<"x", "bad">>>>, <<<<"x", "dot", "dot">>>>,
         <<<<"x", "x", "x">>, <<"x", "x", "x">>>>}

MCRequests == [root : Roots, dir : Dirs, name : Names, policy : Policies]
\* Objects that the candidates of "x" meet.
MCOthers == {<<"x", "-t">>, <<"x", "-t-1">>}
=============================================================================
