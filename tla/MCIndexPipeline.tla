--------------------------- MODULE MCIndexPipeline ---------------------------
(* Small instances of IndexPipeline for TLC. *)
EXTENDS IndexPipeline, TLC

CONSTANTS f1, f2, v1, v2

\* Two files.  Ids are file and line: f1:3 survives a change of its file, the
\* others are in the first version only.
MCChunks == {"f1:3", "f1:9", "f2:5"}
MCFileOf == [c \in MCChunks |-> IF c = "f2:5" THEN f2 ELSE f1]
MCIn == [c \in MCChunks |-> IF c = "f1:3" THEN {v1, v2} ELSE {v1}]

\* The first file alone.
OneChunks == {"f1:3", "f1:9"}
OneFileOf == [c \in OneChunks |-> f1]
OneIn == [c \in OneChunks |-> IF c = "f1:3" THEN {v1, v2} ELSE {v1}]

Symmetry == Permutations(Sources)
=============================================================================
