---------------------------- MODULE IngestUsers ----------------------------
(***************************************************************************)
(* scripts/add-ingest-user.mts: one encrypted file holds the htpasswd line *)
(* of every sender of an ingest path.  The script decrypts it, replaces    *)
(* the line of one user, writes the whole of it back, and prints the new   *)
(* password once, into a pipe that installs it on the sender:              *)
(*     add-ingest-user.mts prometheus-remote-write u | ssh host install    *)
(* An older file with a single line is carried over by the first run.      *)
(*                                                                         *)
(* A password is a number, in the order of their making; a line is the     *)
(* number of the password it is the hash of, 0 when there is no line that  *)
(* bcryptLines() keeps.  Each checkout has one run at a time.  Ciphertext  *)
(* does not merge, so two branches that ran the script conflict; the       *)
(* operator then takes the side of main and runs the script again.         *)
(***************************************************************************)
EXTENDS Naturals

CONSTANTS
  Users,       \* the senders
  Checkouts,   \* working trees, each on a branch of its own
  MaxPassword, \* bound: passwords ever made
  NoUser

ASSUME IngestAssumption == MaxPassword \in Nat \ {0} /\ NoUser \notin Users

VARIABLES
  main,     \* the two files on main
  base,     \* [Checkouts -> what the branch started from]
  work,     \* [Checkouts -> what is on disk]
  run,      \* [Checkouts -> the run there, at "none" when there is none]
  holds,    \* [Users -> the password the sender has, 0 for an empty file]
  last,     \* the last password made
  owed      \* users the operator knows the script has to be run for again

vars == <<main, base, work, run, holds, last, owed>>

Lines == [Users -> 0..MaxPassword]
NoLines == [u \in Users |-> 0]

\* The users file and the legacy file, which is gone when it has no line.
Tree == [users : Lines, legacy : Lines]

Run == [at : {"none", "encrypted", "replaced", "removed"},
        user : Users \cup {NoUser}, lines : Lines, migrating : BOOLEAN]
NoRun == [at |-> "none", user |-> NoUser, lines |-> NoLines, migrating |-> FALSE]
At(c) == run[c].at
Moves(c, at) == run' = [run EXCEPT ![c].at = at]
Ends(c) == run' = [run EXCEPT ![c] = NoRun]

\* What a run reads for a user: a line of the legacy file counts only when the
\* users file has none.
Line(tree, u) == IF tree.users[u] # 0 THEN tree.users[u] ELSE tree.legacy[u]

----------------------------------------------------------------------------
(* The script *)

\* (Mutant of Start: what htpasswd prints is not checked.)
StartUnchecked(c, u) ==
  /\ At(c) = "none" /\ last < MaxPassword
  /\ last' = last + 1
  /\ \E printed \in {0, last + 1} :
       run' = [run EXCEPT ![c] =
         [at |-> "encrypted", user |-> u, migrating |-> work[c].legacy # NoLines,
          lines |-> [v \in Users |-> IF v = u THEN printed ELSE Line(work[c], v)]]]
  /\ UNCHANGED <<main, base, work, holds, owed>>

\* (Mutant of Start: a line of the legacy file replaces the one there is.)
StartLegacyFirst(c, u) ==
  /\ At(c) = "none" /\ last < MaxPassword
  /\ last' = last + 1
  /\ run' = [run EXCEPT ![c] =
       [at |-> "encrypted", user |-> u, migrating |-> work[c].legacy # NoLines,
        lines |-> [v \in Users |-> IF v = u THEN last + 1
                                   ELSE IF work[c].legacy[v] # 0 THEN work[c].legacy[v]
                                   ELSE work[c].users[v]]]]
  /\ UNCHANGED <<main, base, work, holds, owed>>

\* Decrypts what is on disk, makes a password, and encrypts all the lines, all
\* of it in memory.
Start(c, u) ==
  /\ At(c) = "none" /\ last < MaxPassword
  /\ last' = last + 1
  /\ run' = [run EXCEPT ![c] =
       [at |-> "encrypted", user |-> u, migrating |-> work[c].legacy # NoLines,
        lines |-> [v \in Users |-> IF v = u THEN last + 1 ELSE Line(work[c], v)]]]
  /\ UNCHANGED <<main, base, work, holds, owed>>

\* The staging file is renamed over the target.
Replace(c) ==
  /\ At(c) = "encrypted"
  /\ work' = [work EXCEPT ![c].users = run[c].lines]
  /\ Moves(c, "replaced")
  /\ UNCHANGED <<main, base, holds, last, owed>>

RemoveLegacy(c) ==
  /\ At(c) = "replaced"
  /\ work' = [work EXCEPT ![c].legacy = IF run[c].migrating THEN NoLines ELSE @]
  /\ Moves(c, "removed")
  /\ UNCHANGED <<main, base, holds, last, owed>>

\* The password goes down the pipe and is installed: the sender uses it from now
\* on, before main or the cluster know of it.
Deliver(c) ==
  /\ At(c) = "removed"
  /\ holds' = [holds EXCEPT ![run[c].user] = run[c].lines[run[c].user]]
  /\ owed' = owed \ {run[c].user}
  /\ Ends(c)
  /\ UNCHANGED <<main, base, work, last>>

\* The other end of the pipe fails: the password is lost with it.
DeliverFails(c) ==
  /\ At(c) = "removed"
  /\ owed' = owed \cup {run[c].user}
  /\ Ends(c)
  /\ UNCHANGED <<main, base, work, holds, last>>

\* (Mutant of Fail: the failure is not noticed.)
FailUnseen(c) ==
  /\ At(c) # "none"
  /\ holds' = [holds EXCEPT ![run[c].user] = 0]
  /\ Ends(c)
  /\ UNCHANGED <<main, base, work, last, owed>>

\* The script fails or is killed before it prints anything.  What is on disk stays
\* as it is, and the other end of the pipe, when it gets through, installs what it
\* was given: nothing.
Fail(c) ==
  /\ At(c) # "none"
  /\ \E got \in {holds[run[c].user], 0} : holds' = [holds EXCEPT ![run[c].user] = got]
  /\ owed' = owed \cup {run[c].user}
  /\ Ends(c)
  /\ UNCHANGED <<main, base, work, last>>

----------------------------------------------------------------------------
(* git *)

\* Both files, committed on the branch, pushed and merged.  Both sides may have
\* deleted the legacy file; only one may have changed the ciphertext.
Merge(c) ==
  /\ At(c) = "none" /\ work[c] # base[c]
  /\ work[c].users # base[c].users => main.users = base[c].users
  /\ main' = [users |-> IF work[c].users # base[c].users THEN work[c].users ELSE main.users,
              legacy |-> IF work[c].legacy # base[c].legacy THEN work[c].legacy
                                                            ELSE main.legacy]
  /\ base' = [base EXCEPT ![c] = main']
  /\ work' = [work EXCEPT ![c] = main']
  /\ UNCHANGED <<run, holds, last, owed>>

\* Starts over from main.  After a conflict that drops what the branch changed,
\* and the passwords it handed out are good for nothing.
Restart(c) ==
  /\ At(c) = "none" /\ (base[c] # main \/ work[c] # base[c])
  /\ owed' = owed \cup {u \in Users : work[c].users[u] # base[c].users[u]}
  /\ base' = [base EXCEPT ![c] = main]
  /\ work' = [work EXCEPT ![c] = main]
  /\ UNCHANGED <<main, run, holds, last>>

----------------------------------------------------------------------------

\* Before the first run that carries the legacy line over, or long after it.
Init ==
  /\ \E lines \in [Users -> {0, 1}] :
       \/ main = [users |-> lines, legacy |-> NoLines]
       \/ main = [users |-> NoLines, legacy |-> lines]
  /\ base = [c \in Checkouts |-> main]
  /\ work = [c \in Checkouts |-> main]
  /\ run = [c \in Checkouts |-> NoRun]
  /\ holds = [u \in Users |-> Line(main, u)]
  /\ last = 1
  /\ owed = {}

Next ==
  \E c \in Checkouts :
    \/ \E u \in Users : Start(c, u)
    \/ Replace(c)
    \/ RemoveLegacy(c)
    \/ Deliver(c)
    \/ DeliverFails(c)
    \/ Fail(c)
    \/ Merge(c)
    \/ Restart(c)

Spec == Init /\ [][Next]_vars

----------------------------------------------------------------------------
(* Properties *)

TypeOK ==
  /\ main \in Tree
  /\ base \in [Checkouts -> Tree]
  /\ work \in [Checkouts -> Tree]
  /\ run \in [Checkouts -> Run]
  /\ \A c \in Checkouts : At(c) # "none" =>
       run[c].user \in Users /\ run[c].lines[run[c].user] # 0
  /\ last \in 0..MaxPassword
  /\ holds \in [Users -> 0..MaxPassword]
  /\ owed \subseteq Users

\* "Other users' passwords are unchanged": whatever runs, crashes and merges in
\* between, no step on main takes a user's line away or puts an older one in its
\* place, and the legacy file goes only when its lines have a new home.
LinesKept == [][\A u \in Users : Line(main', u) >= Line(main, u)]_main

\* When nothing is under way and nothing is owed, every sender has the password
\* whose hash is on main.  Two checkouts that rotate the same user, and a branch
\* that is dropped after its password was handed out, are what could break it.
SendersMatch ==
  (\A c \in Checkouts : At(c) = "none" /\ work[c] = base[c]) /\ owed = {}
    => \A u \in Users : holds[u] = Line(main, u)
=============================================================================
