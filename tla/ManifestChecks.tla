--------------------------- MODULE ManifestChecks ---------------------------
(***************************************************************************)
(* The two checks of rendered manifests and the way a change takes to the  *)
(* cluster.  scripts/check-persistent-mounts.mts runs in the commit hook,  *)
(* on the working tree; scripts/check-volume-refs.mts runs in the validate *)
(* workflow, on the merge of a pull request with main.  Neither sees what  *)
(* the other does, and main moving on makes neither run again on a branch. *)
(* (The workflow also runs on main, when a merge is done: it stops nothing *)
(* any more.)                                                              *)
(*                                                                         *)
(* A tree is the part of the rendered manifests that decides: for one      *)
(* workload of a known database image, what is mounted at each path, where *)
(* PGDATA or --dir sends the data, and which ConfigMaps and Secrets its    *)
(* volumes name and the build emits.  Each of the four fields is in a file *)
(* of its own, so git merges two branches field by field.                  *)
(***************************************************************************)
EXTENDS Naturals

CONSTANTS
  Paths,      \* directories of the container
  Volume,     \* the entry of KNOWN_TABLE: the image's VOLUME and default
  AtOrAbove,  \* [Paths -> SUBSET Paths]: a path and the ones it lies under
  Default,    \* no redirect
  Objects,    \* ConfigMaps and Secrets
  OutOfBand,  \* ... made by something else than the build
  Branches,
  Initial,    \* trees main may start with
  Care,       \* the precautions that are kept
  MaxEdits    \* bound: fields edited

ASSUME PathAssumption ==
  /\ Volume \in Paths /\ Default \notin Paths
  /\ AtOrAbove \in [Paths -> SUBSET Paths]
  /\ \A p \in Paths : p \in AtOrAbove[p]
  /\ OutOfBand \subseteq Objects
  /\ Care \subseteq {"redirects", "staged", "current"}
  /\ MaxEdits \in Nat

VARIABLES
  main,
  base,      \* [Branches -> where the branch left main]
  head,      \* [Branches -> its last commit]
  work,      \* [Branches -> the working tree]
  behind,    \* branches that main has moved past since they left it
  passed,    \* [Branches -> the checks that accepted the head as it is]
  deployed,  \* the tree Flux applied last
  loose,     \* the container acknowledged data that will go with it
  edits

vars == <<main, base, head, work, behind, passed, deployed, loose, edits>>

Fields == {"mounts", "redirect", "refs", "emits"}

\* claim: a volumeClaimTemplate, persistentVolumeClaim or hostPath; scratch: any other.
Mounts == [Paths -> {"none", "claim", "scratch"}]
Tree == [mounts : Mounts, redirect : Paths \cup {Default},
         refs : SUBSET Objects, emits : SUBSET Objects]

----------------------------------------------------------------------------
(* The checks *)

\* resolveExpectedPath()
DataPath(t) == IF t.redirect = Default THEN Volume ELSE t.redirect

Claims(t) == {p \in Paths : t.mounts[p] = "claim"}

\* (Mutant of PersistentMounts: an ancestor's mount is good enough for the VOLUME.)
PersistentMountsAncestor(t) ==
  Claims(t) = {} \/ Claims(t) \cap AtOrAbove[DataPath(t)] # {}

\* findViolations() of check-persistent-mounts.mts finds nothing.
PersistentMounts(t) ==
  \/ Claims(t) = {}
  \/ DataPath(t) = Volume /\ Volume \in Claims(t)
  \/ DataPath(t) # Volume /\ Claims(t) \cap AtOrAbove[DataPath(t)] # {}

\* findViolations() of check-volume-refs.mts finds nothing.
VolumeRefs(t) == t.refs \subseteq t.emits \cup OutOfBand

\* What the runtime does: the deepest mount decides, and the image's VOLUME is an
\* anonymous mount unless the pod mounts exactly that path.
Persistent(t) ==
  \E p \in Claims(t) \cap AtOrAbove[DataPath(t)] :
    \A q \in AtOrAbove[DataPath(t)] \ AtOrAbove[p] : q # Volume /\ t.mounts[q] # "scratch"

\* A redirect leaves the image's VOLUME, and nothing but claims is mounted at or
\* above the path it names.
Clear(t) ==
  \/ DataPath(t) = Volume
  \/ /\ Volume \notin AtOrAbove[DataPath(t)]
     /\ \A p \in AtOrAbove[DataPath(t)] : t.mounts[p] # "scratch"

\* Main starts with trees that both checks accept.
ASSUME InitialAssumption ==
  \A t \in Initial : t \in Tree /\ PersistentMounts(t) /\ Clear(t) /\ VolumeRefs(t)

----------------------------------------------------------------------------
(* A change *)

Changed(b) == {f \in Fields : head[b][f] # base[b][f]}
Conflict(b) == \E f \in Changed(b) : main[f] # base[b][f] /\ main[f] # head[b][f]

\* What the branch changed, on top of main.
Merged(b) == [f \in Fields |-> IF f \in Changed(b) THEN head[b][f] ELSE main[f]]

Edit(b, t) ==
  /\ edits < MaxEdits /\ t # work[b]
  /\ edits' = edits + 1
  /\ work' = [work EXCEPT ![b] = t]
  /\ UNCHANGED <<main, base, head, behind, passed, deployed, loose>>

\* With git add of single files the index may have any part of what was edited.
Staged(b) ==
  IF "staged" \in Care THEN {work[b]}
  ELSE {t \in Tree : \A f \in Fields : t[f] \in {head[b][f], work[b][f]}}

\* The hook builds the working tree, whatever part of it is committed.  A branch
\* that was brought up to date is committed once more, without a change.
Commit(b) ==
  /\ work[b] # head[b] \/ "hook" \notin passed[b]
  /\ PersistentMounts(work[b])
  /\ "redirects" \in Care => Clear(work[b])
  /\ \E t \in Staged(b) : head' = [head EXCEPT ![b] = t]
  /\ passed' = [passed EXCEPT ![b] = {"hook"}]
  /\ UNCHANGED <<main, base, work, behind, deployed, loose, edits>>

\* (Mutant of Validate: a failed check does not fail the job.)
ValidateAnyway(b) ==
  /\ head[b] # base[b] /\ ~Conflict(b)
  /\ passed' = [passed EXCEPT ![b] = @ \cup {"ci"}]
  /\ UNCHANGED <<main, base, head, work, behind, deployed, loose, edits>>

\* validate, on the merge of the pull request with main as it is at that time.
Validate(b) ==
  /\ head[b] # base[b] /\ ~Conflict(b)
  /\ VolumeRefs(Merged(b))
  /\ passed' = [passed EXCEPT ![b] = @ \cup {"ci"}]
  /\ UNCHANGED <<main, base, head, work, behind, deployed, loose, edits>>

\* (Mutant of Continue: what a check once accepted stays accepted.)
ContinuePassed(b, from, t) ==
  /\ base' = [base EXCEPT ![b] = from]
  /\ head' = [head EXCEPT ![b] = t]
  /\ work' = [work EXCEPT ![b] = t]
  /\ UNCHANGED passed

\* The branch goes on from t, as a branch of main; no check has seen it.
Continue(b, from, t) ==
  /\ base' = [base EXCEPT ![b] = from]
  /\ head' = [head EXCEPT ![b] = t]
  /\ work' = [work EXCEPT ![b] = t]
  /\ passed' = [passed EXCEPT ![b] = {}]

\* A rebase, or main merged into the branch, which does not run the commit hook;
\* or the branch is given up.
Update(b) ==
  /\ b \in behind
  /\ behind' = behind \ {b}
  /\ \/ work[b] = head[b] /\ ~Conflict(b) /\ Continue(b, main, Merged(b))
     \/ Continue(b, main, main)
  /\ UNCHANGED <<main, deployed, loose, edits>>

\* A pull request is merged when the workflow has passed on it.
Merge(b) ==
  /\ head[b] # base[b] /\ ~Conflict(b) /\ "ci" \in passed[b]
  /\ "current" \in Care => b \notin behind /\ "hook" \in passed[b]
  /\ main' = Merged(b)
  /\ behind' = Branches \ {b}
  /\ Continue(b, Merged(b), Merged(b))
  /\ UNCHANGED <<deployed, loose, edits>>

----------------------------------------------------------------------------
(* The cluster *)

\* The kubelet waits for what the volumes name.
Runs == deployed.refs \subseteq deployed.emits \cup OutOfBand

\* Flux applies main and the pod is replaced.
Deploy ==
  /\ deployed # main
  /\ deployed' = main /\ loose' = FALSE
  /\ UNCHANGED <<main, base, head, work, behind, passed, edits>>

\* The database acknowledges something.
Write ==
  /\ Runs /\ ~Persistent(deployed) /\ ~loose
  /\ loose' = TRUE
  /\ UNCHANGED <<main, base, head, work, behind, passed, deployed, edits>>

\* A container that is restarted, or a pod that moves, gets new anonymous volumes.
Restart ==
  /\ loose
  /\ loose' = FALSE
  /\ UNCHANGED <<main, base, head, work, behind, passed, deployed, edits>>

----------------------------------------------------------------------------

Init ==
  /\ main \in Initial
  /\ base = [b \in Branches |-> main]
  /\ head = base /\ work = base
  /\ behind = {}
  /\ passed = [b \in Branches |-> {}]
  /\ deployed = main
  /\ loose = FALSE
  /\ edits = 0

\* One path, one redirect or one object at a time.
Change(b) ==
  \/ \E p \in Paths, kind \in {"none", "claim", "scratch"} :
       Edit(b, [work[b] EXCEPT !.mounts[p] = kind])
  \/ \E p \in Paths \cup {Default} : Edit(b, [work[b] EXCEPT !.redirect = p])
  \/ \E refs \in SUBSET Objects : Edit(b, [work[b] EXCEPT !.refs = refs])
  \/ \E emits \in SUBSET Objects : Edit(b, [work[b] EXCEPT !.emits = emits])

Next ==
  \/ \E b \in Branches : Change(b) \/ Commit(b) \/ Validate(b) \/ Update(b) \/ Merge(b)
  \/ Deploy
  \/ Write
  \/ Restart

Spec == Init /\ [][Next]_vars

----------------------------------------------------------------------------
(* Properties *)

TypeOK ==
  /\ main \in Tree /\ deployed \in Tree
  /\ base \in [Branches -> Tree] /\ head \in [Branches -> Tree] /\ work \in [Branches -> Tree]
  /\ behind \subseteq Branches
  /\ passed \in [Branches -> SUBSET {"hook", "ci"}]
  /\ loose \in BOOLEAN
  /\ edits \in 0..MaxEdits
  /\ "staged" \in Care => \A b \in Branches : "hook" \in passed[b] => PersistentMounts(head[b])

\* "Every container restart then wipes the database": no restart and no rollout
\* takes what a database acknowledged while the workload has a claim for its data.
\* Two branches, each of which the hook accepts, may merge to a tree it never saw.
RowsSurvive == [][Claims(deployed) # {} /\ loose => loose']_vars

\* A workload that is deployed finds every ConfigMap and Secret its volumes name:
\* a pod that Flux applied can start, whatever merged before and after the
\* workflow looked.
PodStarts == Runs
=============================================================================
