------------------------ MODULE MCPlaintextMigration ------------------------
(* PlaintextMigration for TLC: two texts, of which each file sees enough.   *)
EXTENDS PlaintextMigration

CONSTANTS t1, t2

Plain(t) == [text |-> t, blanks |-> FALSE]
Spaced(t) == [text |-> t, blanks |-> TRUE]

MCDrafts ==
  [f \in Files |-> IF f \in Dotenv THEN {Plain(t1), Spaced(t1), Plain(t2)}
                                   ELSE {Spaced(t1), Spaced(t2)}]
=============================================================================
