----------------------------- MODULE MCDocuments -----------------------------
(* Instances of Documents for TLC. *)
EXTENDS Documents, TLC

CONSTANTS d1, d2, u, i, e1, e2, x

TwoLegacy == {d1, d2}
OneSeeded == {d2}
OneUpload == {u}
OneImport == {i}
\* An upload of one document, and an archive of two.
One == [r \in {u} |-> {x}]
Both == [r \in {u, i} |-> IF r = u THEN {x} ELSE {e1, e2}]
=============================================================================
