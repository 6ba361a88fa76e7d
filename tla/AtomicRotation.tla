--------------------------- MODULE AtomicRotation ---------------------------
(***************************************************************************)
(* What the age-key scheme promises about main: there is one recipient of  *)
(* record, every encrypted file is readable by it and by nobody else, and  *)
(* a rotation moves all of them in one step.                               *)
(***************************************************************************)
CONSTANTS Keys, Files, InitKey

VARIABLES
  record,   \* the recipient of record, as a singleton
  readers   \* Files -> the recipients of the file, {} when there is no such file

vars == <<record, readers>>

Existing == {f \in Files : readers[f] # {}}

Uniform(k, fs) == [f \in Files |-> IF f \in fs THEN {k} ELSE {}]

Init ==
  /\ record = {InitKey}
  /\ \E fs \in SUBSET Files : readers = Uniform(InitKey, fs)

\* Main moves to one recipient as a whole; files may be added, none is lost.
Publish(k, fs) ==
  /\ Existing \subseteq fs
  /\ record' = {k}
  /\ readers' = Uniform(k, fs)

Next == \E k \in Keys, fs \in SUBSET Files : Publish(k, fs)

Spec == Init /\ [][Next]_vars
=============================================================================
