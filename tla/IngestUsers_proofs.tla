------------------------- MODULE IngestUsers_proofs -------------------------
EXTENDS IngestUsers, TLAPS

(***************************************************************************)
(* Type correctness                                                        *)
(***************************************************************************)

\* A line that is read is the number of a password.
LEMMA LineType ==
  ASSUME NEW t \in Tree, NEW u \in Users
  PROVE  /\ Line(t, u) \in 0..MaxPassword
         /\ t.users[u] \in 0..MaxPassword /\ t.legacy[u] \in 0..MaxPassword
BY DEF Line, Tree, Lines

LEMMA LineNat ==
  ASSUME NEW t \in Tree, NEW u \in Users
  PROVE  Line(t, u) \in Nat /\ t.users[u] \in Nat /\ t.legacy[u] \in Nat
BY LineType, IngestAssumption DEF IngestAssumption

LEMMA EmptyIsLines == NoLines \in Lines
BY IngestAssumption DEF IngestAssumption, NoLines, Lines

LEMMA NoRunType == NoRun \in Run /\ NoRun.at = "none"
BY EmptyIsLines DEF NoRun, Run

\* Types at the start.
LEMMA InitType == Init => TypeOK
<1> SUFFICES ASSUME Init PROVE TypeOK
  OBVIOUS
<1>1. PICK lines \in [Users -> {0, 1}] :
        \/ main = [users |-> lines, legacy |-> NoLines]
        \/ main = [users |-> NoLines, legacy |-> lines]
  BY DEF Init
<1>2. lines \in Lines
  BY IngestAssumption DEF IngestAssumption, Lines
<1>3. main \in Tree
  BY <1>1, <1>2, EmptyIsLines DEF Tree
<1>4. holds \in [Users -> 0..MaxPassword]
  BY <1>3, LineType DEF Init
<1>5. QED
  BY <1>3, <1>4, NoRunType, IngestAssumption DEF IngestAssumption, Init, TypeOK, At

\* The lines a run puts together.
LEMMA StartType ==
  ASSUME TypeOK, NEW c \in Checkouts, NEW u \in Users, Start(c, u)
  PROVE  /\ run[c].at = "none"
         /\ last \in Nat /\ last' = last + 1 /\ last' \in 0..MaxPassword
         /\ run' \in [Checkouts -> Run]
         /\ run'[c].at = "encrypted" /\ run'[c].user = u
         /\ run'[c].lines = [v \in Users |-> IF v = u THEN last + 1 ELSE Line(work[c], v)]
         /\ run'[c].lines \in Lines
         /\ \A d \in Checkouts \ {c} : run'[d] = run[d]
<1>1. last \in Nat /\ last' = last + 1 /\ last' \in 0..MaxPassword /\ run[c].at = "none"
  BY IngestAssumption DEF IngestAssumption, TypeOK, Start, At
<1> DEFINE lines == [v \in Users |-> IF v = u THEN last + 1 ELSE Line(work[c], v)]
<1>2. lines \in Lines
  <2>1. work[c] \in Tree
    BY DEF TypeOK
  <2>2. \A v \in Users : Line(work[c], v) \in 0..MaxPassword
    BY <2>1, LineType
  <2>3. last + 1 \in 0..MaxPassword
    BY <1>1
  <2>4. QED
    BY <2>2, <2>3 DEF Lines
<1> DEFINE new == [at |-> "encrypted", user |-> u, migrating |-> work[c].legacy # NoLines,
                   lines |-> lines]
<1>3. run' = [run EXCEPT ![c] = new]
  BY DEF Start
<1>4. new \in Run
  BY <1>2 DEF Run
<1>5. QED
  BY <1>1, <1>2, <1>3, <1>4 DEF TypeOK

\* A run that moves on keeps what it holds.
LEMMA MovesType ==
  ASSUME TypeOK, NEW c \in Checkouts, NEW at \in {"replaced", "removed"}, Moves(c, at)
  PROVE  /\ run' \in [Checkouts -> Run]
         /\ run'[c].at = at
         /\ run'[c].user = run[c].user /\ run'[c].lines = run[c].lines
         /\ run'[c].migrating = run[c].migrating
         /\ \A d \in Checkouts \ {c} : run'[d] = run[d]
<1>1. run[c] \in Run /\ run \in [Checkouts -> Run]
  BY DEF TypeOK
<1>2. run' = [run EXCEPT ![c] = [run[c] EXCEPT !.at = at]]
  BY DEF Moves
<1>3. [run[c] EXCEPT !.at = at] \in Run
  BY <1>1 DEF Run
<1>4. QED
  BY <1>1, <1>2, <1>3 DEF Run

LEMMA EndsType ==
  ASSUME TypeOK, NEW c \in Checkouts, Ends(c)
  PROVE  /\ run' \in [Checkouts -> Run]
         /\ run'[c].at = "none"
         /\ \A d \in Checkouts \ {c} : run'[d] = run[d]
BY NoRunType DEF TypeOK, Ends

\* The conjunct of TypeOK that is about runs under way.
LineWritten(c) == At(c) # "none" => run[c].user \in Users /\ run[c].lines[run[c].user] # 0

LEMMA LineWrittenStep ==
  ASSUME TypeOK, Next
  PROVE  \A c \in Checkouts : LineWritten(c)'
<1>1. PICK c \in Checkouts :
        \/ \E u \in Users : Start(c, u)
        \/ Replace(c) \/ RemoveLegacy(c) \/ Deliver(c) \/ DeliverFails(c) \/ Fail(c)
        \/ Merge(c) \/ Restart(c)
  BY DEF Next
<1>2. \A d \in Checkouts : LineWritten(d)
  BY DEF TypeOK, LineWritten
<1>3. ASSUME NEW u \in Users, Start(c, u) PROVE \A d \in Checkouts : LineWritten(d)'
  <2>1. LineWritten(c)'
    <3>1. /\ run'[c].user = u /\ last \in Nat
          /\ run'[c].lines = [v \in Users |-> IF v = u THEN last + 1 ELSE Line(work[c], v)]
      BY <1>3, StartType
    <3>2. run'[c].lines[u] = last + 1
      BY <3>1
    <3>3. run'[c].lines[u] # 0
      BY <3>1, <3>2
    <3>4. QED
      BY <3>1, <3>3 DEF LineWritten, At
  <2>2. \A d \in Checkouts \ {c} : run'[d] = run[d]
    BY <1>3, StartType
  <2>3. QED
    BY <1>2, <2>1, <2>2 DEF LineWritten, At
<1>4. CASE Replace(c) \/ RemoveLegacy(c)
  <2>1. At(c) # "none" /\ (Moves(c, "replaced") \/ Moves(c, "removed"))
    BY <1>4 DEF Replace, RemoveLegacy
  <2>2. QED
    BY <1>2, <2>1, MovesType DEF LineWritten, At
<1>5. CASE Deliver(c) \/ DeliverFails(c) \/ Fail(c)
  <2>1. Ends(c)
    BY <1>5 DEF Deliver, DeliverFails, Fail
  <2>2. QED
    BY <1>2, <2>1, EndsType DEF LineWritten, At
<1>6. CASE Merge(c) \/ Restart(c)
  BY <1>2, <1>6 DEF Merge, Restart, LineWritten, At
<1>7. QED
  BY <1>1, <1>3, <1>4, <1>5, <1>6

\* Every file a run writes, and every password a sender gets, is one there was.
LEMMA TypeStep == TypeOK /\ [Next]_vars => TypeOK'
<1> SUFFICES ASSUME TypeOK, [Next]_vars PROVE TypeOK'
  OBVIOUS
<1>1. CASE UNCHANGED vars
  BY <1>1 DEF vars, TypeOK, At
<1>2. CASE Next
  <2>1. \A c \in Checkouts : LineWritten(c)'
    BY <1>2, LineWrittenStep
  <2>2. SUFFICES /\ main' \in Tree /\ base' \in [Checkouts -> Tree] /\ work' \in [Checkouts -> Tree]
                 /\ run' \in [Checkouts -> Run] /\ last' \in 0..MaxPassword
                 /\ holds' \in [Users -> 0..MaxPassword] /\ owed' \subseteq Users
    BY <2>1 DEF TypeOK, LineWritten, At
  <2>3. PICK c \in Checkouts :
          \/ \E u \in Users : Start(c, u)
          \/ Replace(c) \/ RemoveLegacy(c) \/ Deliver(c) \/ DeliverFails(c) \/ Fail(c)
          \/ Merge(c) \/ Restart(c)
    BY <1>2 DEF Next
  <2>4. run[c] \in Run /\ run[c].lines \in Lines /\ work[c] \in Tree /\ base[c] \in Tree
    BY DEF TypeOK, Run
  <2>5. At(c) # "none" => run[c].user \in Users
    BY DEF TypeOK
  <2>6. ASSUME NEW u \in Users, Start(c, u)
        PROVE  /\ run' \in [Checkouts -> Run] /\ last' \in 0..MaxPassword
               /\ UNCHANGED <<main, base, work, holds, owed>>
    BY <2>6, StartType DEF Start
  <2>7. CASE Replace(c)
    <3>1. [work[c] EXCEPT !.users = run[c].lines] \in Tree
      BY <2>4 DEF Tree
    <3>2. work' = [work EXCEPT ![c] = [work[c] EXCEPT !.users = run[c].lines]]
      BY <2>7 DEF Replace
    <3>3. QED
      BY <3>1, <3>2, <2>7, MovesType DEF Replace, TypeOK
  <2>8. CASE RemoveLegacy(c)
    <3>1. [work[c] EXCEPT !.legacy = IF run[c].migrating THEN NoLines ELSE @] \in Tree
      BY <2>4, EmptyIsLines DEF Tree
    <3>2. work' = [work EXCEPT ![c] = [work[c] EXCEPT !.legacy = IF run[c].migrating
                                                                 THEN NoLines ELSE @]]
      BY <2>8 DEF RemoveLegacy
    <3>3. QED
      BY <3>1, <3>2, <2>8, MovesType DEF RemoveLegacy, TypeOK
  <2>9. CASE Deliver(c) \/ DeliverFails(c) \/ Fail(c)
    <3>1. run[c].user \in Users /\ Ends(c) /\ UNCHANGED <<main, base, work, last>>
      BY <2>5, <2>9 DEF Deliver, DeliverFails, Fail
    <3>2. run[c].lines[run[c].user] \in 0..MaxPassword
      BY <2>4, <3>1 DEF Lines
    <3>3. holds' \in [Users -> 0..MaxPassword] /\ owed' \subseteq Users
      <4> USE <3>1, <3>2, IngestAssumption DEF IngestAssumption, TypeOK
      <4>1. CASE Deliver(c)
        BY <4>1 DEF Deliver
      <4>2. CASE DeliverFails(c)
        BY <4>2 DEF DeliverFails
      <4>3. CASE Fail(c)
        BY <4>3 DEF Fail
      <4>4. QED
        BY <2>9, <4>1, <4>2, <4>3
    <3>4. QED
      BY <3>1, <3>3, EndsType DEF TypeOK
  <2>10. CASE Merge(c)
    <3>1. main' \in Tree
      BY <2>4, <2>10 DEF Merge, TypeOK, Tree
    <3>2. QED
      BY <3>1, <2>10 DEF Merge, TypeOK
  <2>11. CASE Restart(c)
    BY <2>11 DEF Restart, TypeOK
  <2>12. QED
    BY <2>3, <2>6, <2>7, <2>8, <2>9, <2>10, <2>11 DEF TypeOK
<1>3. QED
  BY <1>1, <1>2

\* A run under way always has a line for its user, and whatever is read, carried
\* over or installed is the number of a password.
THEOREM TypeCorrect == Spec => []TypeOK
<1>1. QED
  BY InitType, TypeStep, PTL DEF Spec

(***************************************************************************)
(* Descent: what a branch and main have in common                          *)
(***************************************************************************)

\* t may have come out of s by runs of the script: no line is older, the legacy
\* file is the same or gone, and t is s unless some line of it is newer.
Descends(t, s) ==
  /\ \A u \in Users : t.users[u] >= s.users[u] /\ Line(t, u) >= Line(s, u)
  /\ t.legacy \in {s.legacy, NoLines}
  /\ t.users = s.users => t = s

LEMMA DescendsReflexive ==
  ASSUME NEW t \in Tree
  PROVE  Descends(t, t)
<1>1. \A u \in Users : t.users[u] \in Nat /\ Line(t, u) \in Nat
  BY LineNat
<1>2. QED
  BY <1>1 DEF Descends

\* Files that are each no older than the other are the same.
LEMMA SameLines ==
  ASSUME NEW l \in Lines, NEW k \in Lines, \A u \in Users : l[u] >= k[u] /\ k[u] >= l[u]
  PROVE  l = k
<1>1. ASSUME NEW u \in Users PROVE l[u] = k[u]
  <2>1. l[u] \in Nat /\ k[u] \in Nat /\ l[u] >= k[u] /\ k[u] >= l[u]
    BY IngestAssumption DEF IngestAssumption, Lines
  <2>2. QED
    BY <2>1
<1>2. QED
  BY <1>1 DEF Lines

LEMMA DescendsTransitive ==
  ASSUME NEW t \in Tree, NEW s \in Tree, NEW r \in Tree, Descends(t, s), Descends(s, r)
  PROVE  Descends(t, r)
<1>2. ASSUME NEW u \in Users PROVE t.users[u] >= r.users[u] /\ Line(t, u) >= Line(r, u)
  <2>1. /\ t.users[u] \in Nat /\ s.users[u] \in Nat /\ r.users[u] \in Nat
        /\ Line(t, u) \in Nat /\ Line(s, u) \in Nat /\ Line(r, u) \in Nat
    BY LineNat
  <2>2. /\ t.users[u] >= s.users[u] /\ Line(t, u) >= Line(s, u)
        /\ s.users[u] >= r.users[u] /\ Line(s, u) >= Line(r, u)
    BY DEF Descends
  <2>3. QED
    BY <2>1, <2>2
<1>3. t.legacy \in {r.legacy, NoLines}
  BY DEF Descends
<1>4. ASSUME t.users = r.users PROVE t = r
  <2>1. s.users = r.users
    <3>1. s.users \in Lines /\ r.users \in Lines
      BY DEF Tree
    <3>2. \A u \in Users : s.users[u] >= r.users[u] /\ r.users[u] >= s.users[u]
      BY <1>4 DEF Descends
    <3>3. QED
      BY <3>1, <3>2, SameLines
  <2>2. QED
    BY <1>4, <2>1 DEF Descends
<1>5. QED
  BY <1>2, <1>3, <1>4 DEF Descends

LEMMA DescendsAntisymmetric ==
  ASSUME NEW t \in Tree, NEW s \in Tree, Descends(t, s), Descends(s, t)
  PROVE  t = s
<1>1. t.users \in Lines /\ s.users \in Lines
  BY DEF Tree
<1>2. t.users = s.users
  BY <1>1, SameLines DEF Descends
<1>3. QED
  BY <1>2 DEF Descends

\* What a run writes descends from where the branch started, whether or not the
\* legacy file is gone by then.
LEMMA WrittenDescends ==
  ASSUME NEW t \in Tree, NEW s \in Tree, NEW user \in Users,
         \A u \in Users : t.users[u] >= Line(s, u),
         t.users[user] > Line(s, user),
         t.legacy \in {s.legacy, NoLines}
  PROVE  Descends(t, s)
<1>1. ASSUME NEW u \in Users
      PROVE  /\ t.users[u] \in Nat /\ s.users[u] \in Nat /\ Line(s, u) \in Nat
             /\ t.users[u] >= s.users[u] /\ Line(t, u) >= Line(s, u) /\ Line(s, u) >= s.users[u]
  <2>1. /\ t.users[u] \in Nat /\ s.users[u] \in Nat /\ t.legacy[u] \in Nat
        /\ s.legacy[u] \in Nat /\ Line(s, u) \in Nat /\ Line(t, u) \in Nat
    BY LineNat
  <2>2. Line(s, u) >= s.users[u] /\ Line(t, u) >= t.users[u]
    BY <2>1 DEF Line
  <2>3. t.users[u] >= Line(s, u)
    OBVIOUS
  <2>4. QED
    BY <2>1, <2>2, <2>3
<1>5. t.users # s.users
  <2>1. t.users[user] \in Nat /\ s.users[user] \in Nat /\ Line(s, user) \in Nat
        /\ Line(s, user) >= s.users[user]
    BY <1>1
  <2>2. t.users[user] > s.users[user]
    BY <2>1
  <2>3. QED
    BY <2>1, <2>2
<1>6. QED
  BY <1>1, <1>5 DEF Descends

(***************************************************************************)
(* The invariant                                                           *)
(***************************************************************************)

\* A file in use holds no password that has not been made.
Made(t, n) == \A u \in Users : t.users[u] <= n /\ t.legacy[u] <= n

\* What a run holds: no line is older than where the branch started, the user's
\* is newer; before the rename they are the lines of the tree, after it they are
\* in it, and a line it does not have is not in the legacy file either.
Writing(c) ==
  At(c) # "none" =>
    /\ \A u \in Users : /\ run[c].lines[u] >= Line(base[c], u)
                        /\ run[c].lines[u] = 0 => work[c].legacy[u] = 0
    /\ run[c].lines[run[c].user] > Line(base[c], run[c].user)
    /\ \A u \in Users : run[c].lines[u] <= last
    /\ At(c) = "encrypted" =>
         \A u \in Users \ {run[c].user} : run[c].lines[u] = Line(work[c], u)
    /\ At(c) # "encrypted" => work[c].users = run[c].lines

Lineage(c) ==
  /\ Descends(work[c], base[c]) /\ Descends(main, base[c])
  /\ Made(work[c], last) /\ Made(base[c], last)
  /\ Writing(c)

IngestInv == TypeOK /\ Made(main, last) /\ \A c \in Checkouts : Lineage(c)

LEMMA MadeLines ==
  ASSUME NEW t \in Tree, NEW n \in Nat, Made(t, n), NEW u \in Users
  PROVE  Line(t, u) <= n
BY DEF Made, Line

LEMMA MadeStays ==
  ASSUME NEW t \in Tree, NEW n \in Nat, NEW k \in Nat, k >= n, Made(t, n)
  PROVE  Made(t, k)
<1> SUFFICES ASSUME NEW u \in Users PROVE t.users[u] <= k /\ t.legacy[u] <= k
  BY DEF Made
<1>1. t.users[u] \in Nat /\ t.legacy[u] \in Nat
  BY LineNat
<1>2. t.users[u] <= n /\ t.legacy[u] <= n
  BY DEF Made
<1>3. QED
  BY <1>1, <1>2

\* A run that does not move keeps what it holds when more passwords are made.
LEMMA WritingStays ==
  ASSUME TypeOK, NEW d \in Checkouts, Writing(d), last' \in Nat, last' >= last,
         run'[d] = run[d], base'[d] = base[d], work'[d] = work[d]
  PROVE  Writing(d)'
<1> SUFFICES ASSUME At(d)' # "none" PROVE Writing(d)'
  BY DEF Writing
<1>1. At(d) # "none"
  BY DEF At
<1>2. \A u \in Users : run[d].lines[u] <= last'
  <2> SUFFICES ASSUME NEW u \in Users PROVE run[d].lines[u] <= last'
    OBVIOUS
  <2>1. run[d].lines \in Lines /\ last \in Nat
    BY IngestAssumption DEF IngestAssumption, TypeOK, Run
  <2>2. run[d].lines[u] \in Nat
    BY <2>1, IngestAssumption DEF IngestAssumption, Lines
  <2>3. run[d].lines[u] <= last
    BY <1>1 DEF Writing
  <2>4. QED
    BY <2>1, <2>2, <2>3
<1>3. QED
  BY <1>1, <1>2 DEF Writing, At

\* What another checkout does leaves a branch what it was, as long as main still
\* descends from where it started.
LEMMA LineageElsewhere ==
  ASSUME TypeOK, NEW d \in Checkouts, Lineage(d), last' \in Nat, last' >= last,
         run'[d] = run[d], base'[d] = base[d], work'[d] = work[d],
         Descends(main', base[d])
  PROVE  Lineage(d)'
<1>1. work[d] \in Tree /\ base[d] \in Tree /\ last \in Nat
  BY IngestAssumption DEF IngestAssumption, TypeOK
<1>2. Made(work[d], last') /\ Made(base[d], last')
  BY <1>1, MadeStays DEF Lineage
<1>3. Writing(d)'
  BY WritingStays DEF Lineage
<1>4. Descends(work'[d], base'[d]) /\ Descends(main', base'[d])
  BY DEF Lineage
<1>5. QED
  BY <1>2, <1>3, <1>4 DEF Lineage

LEMMA StartWriting ==
  ASSUME IngestInv, NEW c \in Checkouts, NEW user \in Users, Start(c, user)
  PROVE  Writing(c)'
<1>1. /\ last \in Nat /\ last' = last + 1 /\ base' = base /\ work' = work
      /\ run'[c].at = "encrypted" /\ run'[c].user = user
      /\ run'[c].lines = [v \in Users |-> IF v = user THEN last + 1 ELSE Line(work[c], v)]
  BY StartType DEF Start, IngestInv
<1>2. work[c] \in Tree /\ base[c] \in Tree /\ Made(work[c], last) /\ Made(base[c], last)
      /\ Descends(work[c], base[c])
  BY DEF IngestInv, TypeOK, Lineage
<1>3. ASSUME NEW u \in Users
      PROVE  /\ run'[c].lines[u] >= Line(base[c], u)
             /\ run'[c].lines[u] = 0 => work[c].legacy[u] = 0
             /\ run'[c].lines[u] <= last'
             /\ u = user => run'[c].lines[u] > Line(base[c], u)
             /\ u # user => run'[c].lines[u] = Line(work[c], u)
  <2>1. /\ Line(work[c], u) \in Nat /\ Line(base[c], u) \in Nat
        /\ work[c].users[u] \in Nat /\ work[c].legacy[u] \in Nat
    BY <1>2, LineNat
  <2>2. Line(work[c], u) <= last /\ Line(base[c], u) <= last
    BY <1>1, <1>2, MadeLines
  <2>3. Line(work[c], u) >= Line(base[c], u)
    BY <1>2 DEF Descends
  <2>4. run'[c].lines[u] = IF u = user THEN last + 1 ELSE Line(work[c], u)
    BY <1>1
  <2>5. Line(work[c], u) = 0 => work[c].legacy[u] = 0
    BY <2>1 DEF Line
  <2>6. QED
    BY <1>1, <2>1, <2>2, <2>3, <2>4, <2>5
<1>4. QED
  BY <1>1, <1>3 DEF Writing, At

\* The two steps that change a tree on disk.
LEMMA WriteLineage ==
  ASSUME IngestInv, NEW c \in Checkouts, Replace(c) \/ RemoveLegacy(c)
  PROVE  Lineage(c)'
<1>1. /\ TypeOK /\ At(c) # "none" /\ base' = base /\ main' = main /\ last' = last
      /\ last \in Nat /\ work \in [Checkouts -> Tree] /\ run[c].lines \in Lines
      /\ run[c].user \in Users /\ work[c] \in Tree /\ base[c] \in Tree /\ run[c] \in Run
  BY IngestAssumption DEF IngestAssumption, IngestInv, Replace, RemoveLegacy, TypeOK, Run
<1>2. Lineage(c)
  BY DEF IngestInv
<1>3. /\ run'[c].at \in {"replaced", "removed"}
      /\ run'[c].user = run[c].user /\ run'[c].lines = run[c].lines
  <2>1. Moves(c, "replaced") \/ Moves(c, "removed")
    BY DEF Replace, RemoveLegacy
  <2>2. QED
    BY <1>1, <2>1, MovesType
<1> DEFINE tree == work'[c]
<1>4. /\ tree.users = run[c].lines
      /\ tree.legacy = work[c].legacy \/ tree.legacy = NoLines
  <2>1. CASE Replace(c)
    <3>1. tree = [work[c] EXCEPT !.users = run[c].lines]
      BY <1>1, <2>1 DEF Replace
    <3>2. QED
      BY <1>1, <3>1 DEF Tree
  <2>2. CASE RemoveLegacy(c)
    <3>1. tree = [work[c] EXCEPT !.legacy = IF run[c].migrating THEN NoLines ELSE @]
      BY <1>1, <2>2 DEF RemoveLegacy
    <3>2. work[c].users = run[c].lines
      BY <1>2, <2>2 DEF RemoveLegacy, Lineage, Writing
    <3>3. QED
      BY <1>1, <3>1, <3>2 DEF Tree
  <2>3. QED
    BY <2>1, <2>2
<1>5. tree \in Tree
  BY <1>1, TypeStep DEF TypeOK, Next
<1>6. Descends(tree, base[c])
  <2>1. tree.legacy \in {base[c].legacy, NoLines}
    BY <1>2, <1>4 DEF Lineage, Descends
  <2>2. \A u \in Users : tree.users[u] >= Line(base[c], u)
    BY <1>1, <1>2, <1>4 DEF Lineage, Writing
  <2>3. tree.users[run[c].user] > Line(base[c], run[c].user)
    BY <1>1, <1>2, <1>4 DEF Lineage, Writing
  <2>4. QED
    BY <1>1, <1>5, <2>1, <2>2, <2>3, WrittenDescends
<1>7. Made(tree, last)
  <2>1. ASSUME NEW u \in Users PROVE tree.users[u] <= last /\ tree.legacy[u] <= last
    <3>1. tree.users[u] <= last
      BY <1>1, <1>2, <1>4 DEF Lineage, Writing
    <3>2. work[c].legacy[u] <= last
      BY <1>2 DEF Lineage, Made
    <3>3. NoLines[u] <= last
      BY <1>1 DEF NoLines
    <3>4. QED
      BY <1>4, <3>1, <3>2, <3>3
  <2>2. QED
    BY <2>1 DEF Made
<1>8. Writing(c)'
  <2>1. \A u \in Users : run[c].lines[u] = 0 => tree.legacy[u] = 0
    BY <1>1, <1>2, <1>4 DEF Lineage, Writing, NoLines
  <2>2. QED
    BY <1>1, <1>2, <1>3, <1>4, <2>1 DEF Lineage, Writing, At
<1>9. QED
  BY <1>1, <1>2, <1>6, <1>7, <1>8 DEF Lineage

\* A branch that merges is one that main has not moved past, and main is then what
\* the branch was.
LEMMA MergeMoves ==
  ASSUME IngestInv, NEW c \in Checkouts, Merge(c)
  PROVE  main = base[c] /\ main' = work[c] /\ work[c] # base[c]
<1>1. /\ main \in Tree /\ base[c] \in Tree /\ work[c] \in Tree
      /\ Descends(main, base[c]) /\ Descends(work[c], base[c])
  BY DEF IngestInv, TypeOK, Lineage
<1>2. work[c] # base[c] /\ work[c].users # base[c].users
  BY <1>1 DEF Merge, Descends
<1>3. main = base[c]
  BY <1>1, <1>2 DEF Merge, Descends
<1>4. main' = [users |-> work[c].users, legacy |-> work[c].legacy]
  BY <1>2, <1>3 DEF Merge
<1>5. QED
  BY <1>1, <1>2, <1>3, <1>4 DEF Tree

LEMMA InvInit == Init => IngestInv
<1> SUFFICES ASSUME Init PROVE IngestInv
  OBVIOUS
<1>1. TypeOK
  BY InitType
<1>2. PICK lines \in [Users -> {0, 1}] :
        \/ main = [users |-> lines, legacy |-> NoLines]
        \/ main = [users |-> NoLines, legacy |-> lines]
  BY DEF Init
<1>3. last = 1
  BY DEF Init
<1>4. Made(main, last)
  <2>1. \A u \in Users : lines[u] <= 1 /\ NoLines[u] <= 1
    BY DEF NoLines
  <2>2. main.users \in {lines, NoLines} /\ main.legacy \in {lines, NoLines}
    BY <1>2
  <2>3. ASSUME NEW u \in Users PROVE main.users[u] <= 1 /\ main.legacy[u] <= 1
    BY <2>1, <2>2
  <2>4. QED
    BY <1>3, <2>3 DEF Made
<1>5. ASSUME NEW c \in Checkouts PROVE Lineage(c)
  <2>1. base[c] = main /\ work[c] = main /\ main \in Tree
    BY <1>1 DEF Init, TypeOK
  <2>2. At(c) = "none"
    BY NoRunType DEF Init, At
  <2>3. QED
    BY <1>4, <2>1, <2>2, DescendsReflexive DEF Lineage, Writing
<1>6. QED
  BY <1>1, <1>4, <1>5 DEF IngestInv

LEMMA InvStep == IngestInv /\ [Next]_vars => IngestInv'
<1> SUFFICES ASSUME IngestInv, [Next]_vars PROVE IngestInv'
  OBVIOUS
<1>1. TypeOK /\ TypeOK'
  BY TypeStep DEF IngestInv
<1>2. last \in Nat /\ last' \in Nat /\ main \in Tree /\ main' \in Tree
  BY <1>1, IngestAssumption DEF IngestAssumption, TypeOK
<1>3. CASE UNCHANGED vars
  BY <1>3 DEF vars, IngestInv, TypeOK, Lineage, Writing, At
<1>4. CASE Next
  <2>1. PICK c \in Checkouts :
          \/ \E u \in Users : Start(c, u)
          \/ Replace(c) \/ RemoveLegacy(c) \/ Deliver(c) \/ DeliverFails(c) \/ Fail(c)
          \/ Merge(c) \/ Restart(c)
    BY <1>4 DEF Next
  <2>2. last' >= last
    BY <1>2, <2>1 DEF Start, Replace, RemoveLegacy, Deliver, DeliverFails, Fail, Merge, Restart
  <2>3. /\ work[c] \in Tree /\ base[c] \in Tree /\ Lineage(c) /\ Made(main, last)
        /\ work'[c] \in Tree /\ base'[c] \in Tree
    BY <1>1 DEF TypeOK, IngestInv
  <2>4. \A d \in Checkouts \ {c} : run'[d] = run[d] /\ base'[d] = base[d] /\ work'[d] = work[d]
    <3> USE <1>1 DEF TypeOK
    <3>1. ASSUME NEW u \in Users, Start(c, u)
          PROVE \A d \in Checkouts \ {c} : run'[d] = run[d] /\ base'[d] = base[d] /\ work'[d] = work[d]
      BY <3>1 DEF Start
    <3>2. CASE Replace(c) \/ RemoveLegacy(c)
      BY <3>2 DEF Replace, RemoveLegacy, Moves
    <3>3. CASE Deliver(c) \/ DeliverFails(c) \/ Fail(c)
      BY <3>3 DEF Deliver, DeliverFails, Fail, Ends
    <3>4. CASE Merge(c) \/ Restart(c)
      BY <3>4 DEF Merge, Restart
    <3>5. QED
      BY <2>1, <3>1, <3>2, <3>3, <3>4
  <2>5. Descends(main', main)
    <3>1. CASE Merge(c)
      BY <2>3, <3>1, MergeMoves DEF Lineage
    <3>2. CASE ~Merge(c)
      <4>1. main' = main
        BY <2>1, <3>2 DEF Start, Replace, RemoveLegacy, Deliver, DeliverFails, Fail, Restart
      <4>2. QED
        BY <1>2, <4>1, DescendsReflexive
    <3>3. QED
      BY <3>1, <3>2
  <2>6. ASSUME NEW d \in Checkouts \ {c} PROVE Lineage(d)'
    <3>1. Lineage(d) /\ base[d] \in Tree
      BY <1>1 DEF IngestInv, TypeOK
    <3>2. Descends(main', base[d])
      BY <1>2, <2>5, <3>1, DescendsTransitive DEF Lineage
    <3>3. QED
      BY <1>1, <1>2, <2>2, <2>4, <3>1, <3>2, LineageElsewhere
  <2>7. Made(main', last')
    <3>1. CASE Merge(c)
      BY <1>2, <2>2, <2>3, <3>1, MergeMoves, MadeStays DEF Lineage
    <3>2. CASE ~Merge(c)
      <4>1. main' = main
        BY <2>1, <3>2 DEF Start, Replace, RemoveLegacy, Deliver, DeliverFails, Fail, Restart
      <4>2. QED
        BY <1>2, <2>2, <2>3, <4>1, MadeStays
    <3>3. QED
      BY <3>1, <3>2
  <2>8. Lineage(c)'
    <3>1. ASSUME NEW u \in Users, Start(c, u) PROVE Lineage(c)'
      <4>1. Writing(c)' /\ base' = base /\ work' = work /\ main' = main
        BY <3>1, StartWriting DEF Start
      <4>2. Made(work[c], last') /\ Made(base[c], last')
        BY <1>2, <2>2, <2>3, MadeStays DEF Lineage
      <4>3. QED
        BY <2>3, <4>1, <4>2 DEF Lineage
    <3>2. CASE Replace(c) \/ RemoveLegacy(c)
      BY <3>2, WriteLineage
    <3>3. CASE Deliver(c) \/ DeliverFails(c) \/ Fail(c)
      <4>1. Ends(c) /\ UNCHANGED <<main, base, work, last>>
        BY <3>3 DEF Deliver, DeliverFails, Fail
      <4>2. Writing(c)'
        BY <1>1, <4>1, EndsType DEF Writing, At
      <4>3. QED
        BY <2>3, <4>1, <4>2 DEF Lineage
    <3>4. CASE Merge(c) \/ Restart(c)
      <4>1. base'[c] = main' /\ work'[c] = main'
        BY <1>1, <3>4 DEF Merge, Restart, TypeOK
      <4>2. Writing(c)'
        BY <3>4 DEF Merge, Restart, Writing, At
      <4>3. Descends(main', main')
        BY <1>2, DescendsReflexive
      <4>4. QED
        BY <2>7, <4>1, <4>2, <4>3 DEF Lineage
    <3>5. QED
      BY <2>1, <3>1, <3>2, <3>3, <3>4
  <2>9. QED
    BY <1>1, <2>6, <2>7, <2>8 DEF IngestInv
<1>5. QED
  BY <1>3, <1>4

\* No run, failure or merge takes a sender's line from main or puts an older one
\* there, for any number of senders and checkouts.
THEOREM LinesAreKept == Spec => LinesKept
<1>1. IngestInv /\ [Next]_vars => [\A u \in Users : Line(main', u) >= Line(main, u)]_main
  <2> SUFFICES ASSUME IngestInv, [Next]_vars, main' # main, NEW u \in Users
               PROVE  Line(main', u) >= Line(main, u)
    OBVIOUS
  <2>1. PICK c \in Checkouts : Merge(c)
    BY DEF vars, Next, Start, Replace, RemoveLegacy, Deliver, DeliverFails, Fail, Restart
  <2>2. QED
    BY <2>1, MergeMoves DEF IngestInv, Lineage, Descends
<1>2. QED
  BY <1>1, InvInit, InvStep, PTL DEF Spec, LinesKept

(***************************************************************************)
(* What the senders hold                                                   *)
(***************************************************************************)

\* A branch that would give the user another password.
Changes(c, u) == Line(work[c], u) # Line(base[c], u)

\* Where a sender stands: a run is owed, or under way, or the sender has what main
\* has and no branch that can still merge would change it, or it has what a branch
\* brings.
Standing(u) ==
  \/ u \in owed
  \/ \E c \in Checkouts : At(c) # "none" /\ run[c].user = u
  \/ holds[u] = Line(main, u) /\ \A c \in Checkouts : Changes(c, u) => base[c] # main
  \/ \E c \in Checkouts : Changes(c, u) /\ holds[u] = Line(work[c], u)

SendersInv == IngestInv /\ \A u \in Users : Standing(u)

\* What a branch changes for a user is in the users file.
LEMMA ChangesFile ==
  ASSUME IngestInv, NEW c \in Checkouts, NEW u \in Users, Changes(c, u)
  PROVE  work[c].users[u] # base[c].users[u]
<1>1. /\ Line(work[c], u) \in Nat /\ Line(base[c], u) \in Nat
      /\ work[c].users[u] \in Nat /\ base[c].users[u] \in Nat
      /\ work[c].legacy[u] \in Nat /\ base[c].legacy[u] \in Nat
  BY LineNat DEF IngestInv, TypeOK
<1>2. /\ Line(work[c], u) >= Line(base[c], u)
      /\ work[c].legacy \in {base[c].legacy, NoLines}
  BY DEF IngestInv, Lineage, Descends
<1>3. work[c].legacy[u] = base[c].legacy[u] \/ work[c].legacy[u] = 0
  BY <1>2 DEF NoLines
<1>4. QED
  BY <1>1, <1>2, <1>3 DEF Changes, Line

\* Writing the files gives nobody but the user of the run another password.
LEMMA WriteCarries ==
  ASSUME IngestInv, NEW c \in Checkouts, Replace(c) \/ RemoveLegacy(c),
         NEW u \in Users, u # run[c].user
  PROVE  Line(work'[c], u) = Line(work[c], u)
<1>1. /\ TypeOK /\ At(c) # "none" /\ run[c].lines \in Lines /\ work[c] \in Tree
      /\ work \in [Checkouts -> Tree] /\ Writing(c)
  BY DEF IngestInv, Replace, RemoveLegacy, TypeOK, Run, Lineage
<1>2. work[c].legacy[u] \in Nat /\ work[c].users[u] \in Nat /\ run[c].lines[u] \in Nat
  BY <1>1, LineNat, IngestAssumption DEF IngestAssumption, Lines
<1>3. CASE Replace(c)
  <2>1. work'[c] = [work[c] EXCEPT !.users = run[c].lines]
    BY <1>1, <1>3 DEF Replace
  <2>2. work'[c].users = run[c].lines /\ work'[c].legacy = work[c].legacy
    BY <1>1, <2>1 DEF Tree
  <2>3. run[c].lines[u] = Line(work[c], u)
    BY <1>1, <1>3 DEF Replace, Writing
  <2>4. QED
    BY <1>2, <2>2, <2>3 DEF Line
<1>4. CASE RemoveLegacy(c)
  <2>1. work'[c] = [work[c] EXCEPT !.legacy = IF run[c].migrating THEN NoLines ELSE @]
    BY <1>1, <1>4 DEF RemoveLegacy
  <2>2. /\ work'[c].users = work[c].users
        /\ work'[c].legacy = work[c].legacy \/ work'[c].legacy = NoLines
    BY <1>1, <2>1 DEF Tree
  <2>3. work[c].users[u] = 0 => work[c].legacy[u] = 0
    BY <1>1, <1>4 DEF RemoveLegacy, Writing
  <2>4. NoLines[u] = 0
    BY DEF NoLines
  <2>5. QED
    BY <1>2, <2>2, <2>3, <2>4 DEF Line
<1>5. QED
  BY <1>3, <1>4

\* A step that leaves main, the senders and the branches' passwords for u alone
\* leaves u where it stands, unless its run was the one that ended.
LEMMA StandingStays ==
  ASSUME NEW u \in Users, Standing(u), main' = main, base' = base,
         holds'[u] = holds[u], u \in owed => u \in owed',
         \A c \in Checkouts : Line(work'[c], u) = Line(work[c], u),
         \A c \in Checkouts : At(c) # "none" /\ run[c].user = u
           => At(c)' # "none" /\ run'[c].user = u
  PROVE  Standing(u)'
BY DEF Standing, Changes

\* Main takes a branch in: who has the branch's password has that of main from now
\* on, and no branch that was cut earlier can merge any more.
LEMMA MergeStanding ==
  ASSUME IngestInv, NEW c \in Checkouts, Merge(c), NEW u \in Users, Standing(u)
  PROVE  Standing(u)'
<1>1. main = base[c] /\ main' = work[c] /\ work[c] # base[c] /\ TypeOK
  BY MergeMoves DEF IngestInv
<1>2. /\ base' = [base EXCEPT ![c] = main'] /\ work' = [work EXCEPT ![c] = main']
      /\ UNCHANGED <<run, holds, owed>> /\ At(c) = "none"
  BY DEF Merge
<1>3. /\ base'[c] = main' /\ work'[c] = main'
      /\ \A d \in Checkouts \ {c} : base'[d] = base[d] /\ work'[d] = work[d]
  BY <1>1, <1>2 DEF TypeOK
<1>4. ~Changes(c, u)'
  BY <1>3 DEF Changes
<1>5. ASSUME NEW d \in Checkouts \ {c} PROVE base[d] # main'
  <2> SUFFICES ASSUME base[d] = main' PROVE FALSE
    OBVIOUS
  <2>1. Descends(base[c], work[c]) /\ Descends(work[c], base[c])
    BY <1>1 DEF IngestInv, Lineage
  <2>2. work[c] \in Tree /\ base[c] \in Tree
    BY <1>1 DEF TypeOK
  <2>3. QED
    BY <1>1, <2>1, <2>2, DescendsAntisymmetric
<1>6. \A d \in Checkouts : Changes(d, u)' => base'[d] # main'
  BY <1>3, <1>4, <1>5
<1>7. CASE u \in owed
  BY <1>2, <1>7 DEF Standing
<1>8. CASE \E d \in Checkouts : At(d) # "none" /\ run[d].user = u
  BY <1>2, <1>8 DEF Standing, At
<1>9. CASE holds[u] = Line(main, u) /\ \A d \in Checkouts : Changes(d, u) => base[d] # main
  <2>1. ~Changes(c, u)
    BY <1>1, <1>9
  <2>2. holds'[u] = Line(main', u)
    BY <1>1, <1>2, <1>9, <2>1 DEF Changes
  <2>3. QED
    BY <1>6, <2>2 DEF Standing
<1>10. CASE \E d \in Checkouts : Changes(d, u) /\ holds[u] = Line(work[d], u)
  <2>1. PICK d \in Checkouts : Changes(d, u) /\ holds[u] = Line(work[d], u)
    BY <1>10
  <2>2. CASE d = c
    <3>1. holds'[u] = Line(main', u)
      BY <1>1, <1>2, <2>1, <2>2
    <3>2. QED
      BY <1>6, <3>1 DEF Standing
  <2>3. CASE d # c
    <3>1. Changes(d, u)' /\ holds'[u] = Line(work'[d], u)
      BY <1>2, <1>3, <2>1, <2>3 DEF Changes
    <3>2. QED
      BY <3>1 DEF Standing
  <2>4. QED
    BY <2>2, <2>3
<1>11. QED
  BY <1>7, <1>8, <1>9, <1>10 DEF Standing

LEMMA RestartStanding ==
  ASSUME IngestInv, NEW c \in Checkouts, Restart(c), NEW u \in Users, Standing(u)
  PROVE  Standing(u)'
<1>1. /\ base' = [base EXCEPT ![c] = main] /\ work' = [work EXCEPT ![c] = main]
      /\ UNCHANGED <<main, run, holds>> /\ owed \subseteq owed' /\ TypeOK
  BY DEF Restart, IngestInv
<1>2. /\ base'[c] = main /\ work'[c] = main
      /\ \A d \in Checkouts \ {c} : base'[d] = base[d] /\ work'[d] = work[d]
  BY <1>1 DEF TypeOK
<1>3. ~Changes(c, u)'
  BY <1>2 DEF Changes
<1>4. \A d \in Checkouts \ {c} : Changes(d, u)' <=> Changes(d, u)
  BY <1>2 DEF Changes
<1>5. Changes(c, u) => u \in owed'
  BY ChangesFile DEF Restart
<1>6. CASE u \in owed \/ Changes(c, u)
  BY <1>1, <1>5, <1>6 DEF Standing
<1>7. CASE \E d \in Checkouts : At(d) # "none" /\ run[d].user = u
  BY <1>1, <1>7 DEF Standing, At
<1>8. CASE holds[u] = Line(main, u) /\ \A d \in Checkouts : Changes(d, u) => base[d] # main
  <2>1. holds'[u] = Line(main', u)
    BY <1>1, <1>8
  <2>2. \A d \in Checkouts : Changes(d, u)' => base'[d] # main'
    BY <1>1, <1>2, <1>3, <1>4, <1>8
  <2>3. QED
    BY <2>1, <2>2 DEF Standing
<1>9. CASE \E d \in Checkouts \ {c} : Changes(d, u) /\ holds[u] = Line(work[d], u)
  <2>1. PICK d \in Checkouts \ {c} : Changes(d, u) /\ holds[u] = Line(work[d], u)
    BY <1>9
  <2>2. Changes(d, u)' /\ holds'[u] = Line(work'[d], u)
    BY <1>1, <1>2, <1>4, <2>1
  <2>3. QED
    BY <2>2 DEF Standing
<1>10. QED
  BY <1>6, <1>7, <1>8, <1>9 DEF Standing

LEMMA EndStanding ==
  ASSUME IngestInv, NEW c \in Checkouts, Deliver(c) \/ DeliverFails(c) \/ Fail(c),
         NEW u \in Users, Standing(u)
  PROVE  Standing(u)'
<1>1. /\ At(c) # "none" /\ UNCHANGED <<main, base, work, last>> /\ Ends(c) /\ TypeOK
      /\ run[c].user \in Users /\ run[c].lines \in Lines /\ run[c] \in Run
  BY DEF IngestInv, TypeOK, Deliver, DeliverFails, Fail, Run
<1>2. \A d \in Checkouts \ {c} : run'[d] = run[d]
  BY <1>1, EndsType
<1>3. CASE u # run[c].user
  <2>1. holds'[u] = holds[u] /\ (u \in owed => u \in owed')
    BY <1>1, <1>3 DEF Deliver, DeliverFails, Fail, TypeOK
  <2>2. \A d \in Checkouts : At(d) # "none" /\ run[d].user = u
          => At(d)' # "none" /\ run'[d].user = u
    BY <1>2, <1>3 DEF At
  <2>3. QED
    BY <1>1, <2>1, <2>2, StandingStays
<1>4. CASE u = run[c].user /\ Deliver(c)
  <2>1. work[c].users = run[c].lines /\ run[c].lines[u] > Line(base[c], u)
    BY <1>4 DEF Deliver, IngestInv, Lineage, Writing, At
  <2>2. run[c].lines[u] \in Nat /\ run[c].lines[u] # 0 /\ Line(base[c], u) \in Nat
    BY <1>1, <1>4, LineNat, IngestAssumption DEF IngestAssumption, TypeOK, Lines
  <2>3. Line(work[c], u) = run[c].lines[u]
    BY <2>1, <2>2 DEF Line
  <2>4. holds'[u] = run[c].lines[u]
    BY <1>1, <1>4 DEF Deliver, TypeOK
  <2>5. Changes(c, u)'
    BY <1>1, <2>1, <2>2, <2>3 DEF Changes
  <2>6. QED
    BY <1>1, <2>3, <2>4, <2>5 DEF Standing
<1>5. CASE u = run[c].user /\ ~Deliver(c)
  BY <1>5 DEF DeliverFails, Fail, Standing
<1>6. QED
  BY <1>3, <1>4, <1>5

LEMMA SendersInit == Init => SendersInv
<1> SUFFICES ASSUME Init PROVE SendersInv
  OBVIOUS
<1>1. \A u \in Users : holds[u] = Line(main, u)
  BY DEF Init
<1>2. \A c \in Checkouts, u \in Users : ~Changes(c, u)
  BY DEF Init, Changes
<1>3. QED
  BY <1>1, <1>2, InvInit DEF SendersInv, Standing

LEMMA SendersStep == SendersInv /\ [Next]_vars => SendersInv'
<1> SUFFICES ASSUME SendersInv, [Next]_vars PROVE SendersInv'
  OBVIOUS
<1>1. IngestInv /\ IngestInv'
  BY InvStep DEF SendersInv
<1> SUFFICES ASSUME NEW u \in Users PROVE Standing(u)'
  BY <1>1 DEF SendersInv
<1>2. Standing(u)
  BY DEF SendersInv
<1>3. CASE UNCHANGED vars
  BY <1>2, <1>3 DEF vars, Standing, Changes, At
<1>4. CASE Next
  <2>1. PICK c \in Checkouts :
          \/ \E v \in Users : Start(c, v)
          \/ Replace(c) \/ RemoveLegacy(c) \/ Deliver(c) \/ DeliverFails(c) \/ Fail(c)
          \/ Merge(c) \/ Restart(c)
    BY <1>4 DEF Next
  <2>2. ASSUME NEW v \in Users, Start(c, v) PROVE Standing(u)'
    <3>1. /\ At(c) = "none" /\ UNCHANGED <<main, base, work, holds, owed>>
          /\ \A d \in Checkouts \ {c} : run'[d] = run[d]
      BY <1>1, <2>2, StartType DEF Start, IngestInv
    <3>2. \A d \in Checkouts : At(d) # "none" /\ run[d].user = u
            => At(d)' # "none" /\ run'[d].user = u
      BY <3>1 DEF At
    <3>3. QED
      BY <1>2, <3>1, <3>2, StandingStays
  <2>3. CASE Replace(c) \/ RemoveLegacy(c)
    <3>1. /\ At(c) # "none" /\ UNCHANGED <<main, base, holds, owed>>
          /\ \A d \in Checkouts \ {c} : work'[d] = work[d]
      BY <1>1, <2>3 DEF Replace, RemoveLegacy, IngestInv, TypeOK
    <3>2. Moves(c, "replaced") \/ Moves(c, "removed")
      BY <2>3 DEF Replace, RemoveLegacy
    <3>3. /\ At(c)' # "none" /\ run'[c].user = run[c].user
          /\ \A d \in Checkouts \ {c} : run'[d] = run[d]
      BY <1>1, <3>2, MovesType DEF IngestInv, At
    <3>4. CASE u = run[c].user
      BY <3>3, <3>4 DEF Standing
    <3>5. CASE u # run[c].user
      <4>1. \A d \in Checkouts : Line(work'[d], u) = Line(work[d], u)
        BY <1>1, <2>3, <3>1, <3>5, WriteCarries
      <4>2. \A d \in Checkouts : At(d) # "none" /\ run[d].user = u
              => At(d)' # "none" /\ run'[d].user = u
        BY <3>3, <3>5 DEF At
      <4>3. QED
        BY <1>2, <3>1, <4>1, <4>2, StandingStays
    <3>6. QED
      BY <3>4, <3>5
  <2>4. CASE Deliver(c) \/ DeliverFails(c) \/ Fail(c)
    BY <1>1, <1>2, <2>4, EndStanding
  <2>5. CASE Merge(c)
    BY <1>1, <1>2, <2>5, MergeStanding
  <2>6. CASE Restart(c)
    BY <1>1, <1>2, <2>6, RestartStanding
  <2>7. QED
    BY <2>1, <2>2, <2>3, <2>4, <2>5, <2>6
<1>5. QED
  BY <1>3, <1>4

\* When nothing is under way or owed, every sender has the password whose hash is
\* on main, for any number of senders and checkouts.
THEOREM SendersHoldMain == Spec => []SendersMatch
<1>1. SendersInv => SendersMatch
  <2> SUFFICES ASSUME SendersInv, NEW u \in Users, owed = {},
                      \A c \in Checkouts : At(c) = "none" /\ work[c] = base[c]
               PROVE  holds[u] = Line(main, u)
    BY DEF SendersMatch
  <2>1. \A c \in Checkouts : ~Changes(c, u)
    BY DEF Changes
  <2>2. QED
    BY <2>1 DEF SendersInv, Standing
<1>2. QED
  BY <1>1, SendersInit, SendersStep, PTL DEF Spec
=============================================================================
