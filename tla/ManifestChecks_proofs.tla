------------------------ MODULE ManifestChecks_proofs ------------------------
(***************************************************************************)
(* What the commit hook and the validate workflow promise together, for    *)
(* any number of branches, paths and objects: each result under the        *)
(* precautions it needs.                                                   *)
(***************************************************************************)
EXTENDS ManifestChecks, TLAPS

USE PathAssumption

----------------------------------------------------------------------------
(* Trees *)

\* Two trees with the same fields are the same tree.
LEMMA SameFields ==
  ASSUME NEW s \in Tree, NEW t \in Tree, \A f \in Fields : s[f] = t[f]
  PROVE  s = t
<1>1. s.mounts = t.mounts /\ s.redirect = t.redirect /\ s.refs = t.refs /\ s.emits = t.emits
  BY DEF Fields
<1> QED BY <1>1 DEF Tree

\* git's merge of fields, each of one side or the other, is a tree.
LEMMA FieldwiseTree ==
  ASSUME NEW s \in Tree, NEW t \in Tree, NEW r,
         r = [f \in Fields |-> r[f]], \A f \in Fields : r[f] = s[f] \/ r[f] = t[f]
  PROVE  r \in Tree
<1>1. r.mounts \in Mounts
  BY DEF Fields, Tree
<1>2. r.redirect \in Paths \cup {Default}
  BY DEF Fields, Tree
<1>3. r.refs \in SUBSET Objects /\ r.emits \in SUBSET Objects
  BY DEF Fields, Tree
<1>4. r = [mounts |-> r.mounts, redirect |-> r.redirect, refs |-> r.refs, emits |-> r.emits]
  BY DEF Fields
<1> QED BY <1>1, <1>2, <1>3, <1>4 DEF Tree

\* One edit of a tree gives a tree.
LEMMA EditedTree ==
  ASSUME NEW t \in Tree
  PROVE  /\ \A p \in Paths, kind \in {"none", "claim", "scratch"} :
              [t EXCEPT !.mounts[p] = kind] \in Tree
         /\ \A p \in Paths \cup {Default} : [t EXCEPT !.redirect = p] \in Tree
         /\ \A refs \in SUBSET Objects : [t EXCEPT !.refs = refs] \in Tree
         /\ \A emits \in SUBSET Objects : [t EXCEPT !.emits = emits] \in Tree
  BY DEF Tree, Mounts

\* What check-persistent-mounts.mts accepts of a tree whose redirects stay clear
\* is persistent, when the workload has a claim at all.
LEMMA AcceptedIsPersistent ==
  ASSUME NEW t \in Tree, PersistentMounts(t), Clear(t), Claims(t) # {}
  PROVE  Persistent(t)
<1>1. CASE DataPath(t) = Volume
  BY <1>1 DEF PersistentMounts, Persistent
<1>2. CASE DataPath(t) # Volume
  <2>1. PICK p \in Claims(t) : p \in AtOrAbove[DataPath(t)]
    BY <1>2 DEF PersistentMounts
  <2>2. \A q \in AtOrAbove[DataPath(t)] : q # Volume /\ t.mounts[q] # "scratch"
    BY <1>2 DEF Clear
  <2> QED BY <2>1, <2>2 DEF Persistent
<1> QED BY <1>1, <1>2

----------------------------------------------------------------------------
(* Types *)

\* TypeOK without its last conjunct.
Typed ==
  /\ main \in Tree /\ deployed \in Tree
  /\ base \in [Branches -> Tree] /\ head \in [Branches -> Tree] /\ work \in [Branches -> Tree]
  /\ behind \subseteq Branches
  /\ passed \in [Branches -> SUBSET {"hook", "ci"}]
  /\ loose \in BOOLEAN
  /\ edits \in 0..MaxEdits

\* When the whole working tree is committed, what the hook accepted is the head.
HookSaw == "staged" \in Care =>
  \A b \in Branches : "hook" \in passed[b] => PersistentMounts(head[b])

\* The merge of a branch with main is a tree.
LEMMA MergedTree ==
  ASSUME Typed, NEW b \in Branches
  PROVE  Merged(b) \in Tree
<1>1. head[b] \in Tree /\ main \in Tree
  BY DEF Typed
<1>2. Merged(b) = [f \in Fields |-> Merged(b)[f]]
  BY DEF Merged
<1>3. \A f \in Fields : Merged(b)[f] = head[b][f] \/ Merged(b)[f] = main[f]
  BY DEF Merged
<1> QED BY <1>1, <1>2, <1>3, FieldwiseTree

\* What the index may have of an edited tree is a tree.
LEMMA StagedTree ==
  ASSUME Typed, NEW b \in Branches, NEW t \in Staged(b)
  PROVE  t \in Tree
  BY DEF Staged, Typed

\* Every edit is one field of the working tree.
LEMMA ChangeIsEdit ==
  ASSUME Typed, NEW b \in Branches, Change(b)
  PROVE  \E t \in Tree : Edit(b, t)
  BY EditedTree DEF Change, Typed

\* The branch goes on from trees.
LEMMA ContinueTyped ==
  ASSUME Typed, NEW b \in Branches, NEW from \in Tree, NEW t \in Tree, Continue(b, from, t)
  PROVE  /\ base' \in [Branches -> Tree] /\ head' \in [Branches -> Tree]
         /\ work' \in [Branches -> Tree] /\ passed' \in [Branches -> SUBSET {"hook", "ci"}]
  BY DEF Typed, Continue

\* Before the first edit.
LEMMA InitTyped == Init => Typed /\ HookSaw
<1> SUFFICES ASSUME Init PROVE Typed /\ HookSaw
  OBVIOUS
<1>1. main \in Tree
  BY InitialAssumption DEF Init
<1>2. /\ base = [b \in Branches |-> main] /\ head = base /\ work = base
      /\ behind = {} /\ deployed = main /\ edits \in 0..MaxEdits
  BY DEF Init
<1>3. loose \in BOOLEAN
  BY DEF Init
<1>4. passed = [b \in Branches |-> {}]
  BY DEF Init
<1> QED BY <1>1, <1>2, <1>3, <1>4 DEF Typed, HookSaw

\* One step keeps the types.
LEMMA NextTyped ==
  ASSUME Typed, [Next]_vars
  PROVE  Typed'
<1>1. ASSUME NEW b \in Branches, Change(b)
      PROVE  Typed'
  <2>1. PICK t \in Tree : Edit(b, t)
    BY <1>1, ChangeIsEdit
  <2>2. work' \in [Branches -> Tree] /\ edits' \in 0..MaxEdits
    BY <2>1 DEF Edit, Typed
  <2> QED BY <2>1, <2>2 DEF Edit, Typed
<1>2. ASSUME NEW b \in Branches, Commit(b)
      PROVE  Typed'
  <2>1. PICK t \in Staged(b) : head' = [head EXCEPT ![b] = t]
    BY <1>2 DEF Commit
  <2>2. t \in Tree
    BY StagedTree
  <2> QED BY <1>2, <2>1, <2>2 DEF Commit, Typed
<1>3. ASSUME NEW b \in Branches, Validate(b)
      PROVE  Typed'
  BY <1>3 DEF Validate, Typed
<1>4. ASSUME NEW b \in Branches, Update(b)
      PROVE  Typed'
  <2>1. \E t \in Tree : Continue(b, main, t)
    BY <1>4, MergedTree DEF Update, Typed
  <2>2. UNCHANGED <<main, deployed, loose, edits>> /\ behind' \subseteq Branches
    BY <1>4 DEF Update, Typed
  <2>3. main \in Tree
    BY DEF Typed
  <2> QED BY <2>1, <2>2, <2>3, ContinueTyped DEF Typed
<1>5. ASSUME NEW b \in Branches, Merge(b)
      PROVE  Typed'
  <2>1. Merged(b) \in Tree
    BY MergedTree
  <2>2. Continue(b, Merged(b), Merged(b))
    BY <1>5 DEF Merge
  <2>3. main' \in Tree /\ behind' \subseteq Branches /\ UNCHANGED <<deployed, loose, edits>>
    BY <1>5, <2>1 DEF Merge
  <2> QED BY <2>1, <2>2, <2>3, ContinueTyped DEF Typed
<1>6. CASE Deploy \/ Write \/ Restart
  BY <1>6 DEF Deploy, Write, Restart, Typed
<1>7. CASE UNCHANGED vars
  BY <1>7 DEF vars, Typed
<1> QED BY <1>1, <1>2, <1>3, <1>4, <1>5, <1>6, <1>7 DEF Next

\* A branch that goes on has nothing that was checked.
LEMMA ContinueHook ==
  ASSUME Typed, HookSaw, NEW b \in Branches, NEW from, NEW t, Continue(b, from, t)
  PROVE  HookSaw'
<1>1. \A c \in Branches : c # b => passed'[c] = passed[c] /\ head'[c] = head[c]
  BY DEF Typed, Continue
<1>2. passed'[b] = {}
  BY DEF Typed, Continue
<1> QED BY <1>1, <1>2 DEF HookSaw

\* One step keeps what the hook saw.
LEMMA NextHookSaw ==
  ASSUME Typed, HookSaw, [Next]_vars
  PROVE  HookSaw'
<1>1. ASSUME NEW b \in Branches, Commit(b)
      PROVE  HookSaw'
  <2>1. "staged" \in Care => head' = [head EXCEPT ![b] = work[b]]
    BY <1>1 DEF Commit, Staged
  <2>2. PersistentMounts(work[b]) /\ passed' = [passed EXCEPT ![b] = {"hook"}]
    BY <1>1 DEF Commit
  <2> QED BY <2>1, <2>2 DEF HookSaw, Typed
<1>2. ASSUME NEW b \in Branches, Validate(b)
      PROVE  HookSaw'
  BY <1>2 DEF Validate, HookSaw, Typed
<1>3. ASSUME NEW b \in Branches, Update(b) \/ Merge(b)
      PROVE  HookSaw'
  BY <1>3, ContinueHook DEF Update, Merge
<1>4. CASE UNCHANGED <<head, passed>>
  BY <1>4 DEF HookSaw
<1>5. ASSUME NEW b \in Branches, Change(b)
      PROVE  UNCHANGED <<head, passed>>
  BY <1>5 DEF Change, Edit
<1>6. Deploy \/ Write \/ Restart \/ UNCHANGED vars => UNCHANGED <<head, passed>>
  BY DEF Deploy, Write, Restart, vars
<1> QED BY <1>1, <1>2, <1>3, <1>4, <1>5, <1>6 DEF Next

\* Branches, main and what runs are trees; with the whole working tree staged,
\* a head the hook passed is one it would accept.
THEOREM TypeCorrect == Spec => []TypeOK
<1>1. Typed /\ HookSaw /\ [Next]_vars => (Typed /\ HookSaw)'
  BY NextTyped, NextHookSaw
<1>2. Typed /\ HookSaw => TypeOK
  BY DEF Typed, HookSaw, TypeOK
<1> QED BY InitTyped, <1>1, <1>2, PTL DEF Spec

----------------------------------------------------------------------------
(* Main *)

\* A branch that main has not moved past left it where it is.
AtMain == \A b \in Branches \ behind : base[b] = main

\* Such a branch merges to its own head: there the two checks saw what is merged.
LEMMA MergedIsHead ==
  ASSUME Typed, AtMain, NEW b \in Branches \ behind
  PROVE  Merged(b) = head[b]
<1>1. base[b] = main /\ head[b] \in Tree /\ main \in Tree
  BY DEF AtMain, Typed
<1>2. Merged(b) \in Tree
  BY MergedTree
<1>3. ASSUME NEW f \in Fields
      PROVE  Merged(b)[f] = head[b][f]
  BY <1>1 DEF Merged, Changed
<1> QED BY <1>1, <1>2, <1>3, SameFields

\* What the workflow accepted of a branch that is not behind.
WorkflowSaw == \A b \in Branches \ behind : "ci" \in passed[b] => VolumeRefs(head[b])

\* What the hook accepted, with redirects that stay clear.
HookSawClear == {"staged", "redirects"} \subseteq Care =>
  \A b \in Branches : "hook" \in passed[b] => Clear(head[b])

\* What main and the cluster have been given, under the precautions it takes.
Sound(t) ==
  /\ "current" \in Care => VolumeRefs(t)
  /\ {"current", "staged"} \subseteq Care => PersistentMounts(t)
  /\ {"current", "staged", "redirects"} \subseteq Care => Clear(t)

\* Rows are loose only when no claim holds them.
LooseUnclaimed == loose => ~Persistent(deployed)

\* None of PodStarts and RowsSurvive is inductive without what the checks saw of
\* the branches that are still to be merged.
ChecksInv ==
  /\ Typed /\ HookSaw
  /\ AtMain /\ WorkflowSaw /\ HookSawClear
  /\ Sound(main) /\ Sound(deployed)
  /\ LooseUnclaimed

\* Before the first edit.
LEMMA InitChecks == Init => ChecksInv
<1> SUFFICES ASSUME Init PROVE ChecksInv
  OBVIOUS
<1>1. Sound(main)
  BY InitialAssumption DEF Init, Sound
<1>2. AtMain /\ WorkflowSaw /\ HookSawClear /\ LooseUnclaimed /\ deployed = main
  BY DEF Init, AtMain, WorkflowSaw, HookSawClear, LooseUnclaimed
<1> QED BY <1>1, <1>2, InitTyped DEF ChecksInv

\* A branch that goes on from main, or from what is to be main.
LEMMA ContinueBranches ==
  ASSUME ChecksInv, NEW b \in Branches, NEW t, Continue(b, main', t),
         b \notin behind', \A c \in Branches \ behind' : c # b => c \notin behind,
         main' # main => \A c \in Branches \ behind' : c = b
  PROVE  AtMain' /\ WorkflowSaw' /\ HookSawClear'
<1>1. \A c \in Branches : c # b => /\ passed'[c] = passed[c] /\ head'[c] = head[c]
                                   /\ base'[c] = base[c]
  BY DEF ChecksInv, Typed, Continue
<1>2. passed'[b] = {} /\ base'[b] = main'
  BY DEF ChecksInv, Typed, Continue
<1>3. AtMain'
  BY <1>1, <1>2 DEF ChecksInv, AtMain
<1>4. WorkflowSaw' /\ HookSawClear'
  BY <1>1, <1>2 DEF ChecksInv, WorkflowSaw, HookSawClear
<1> QED BY <1>3, <1>4

\* Edits, checks, merges and the cluster preserve the invariant.
LEMMA NextChecks ==
  ASSUME ChecksInv, [Next]_vars
  PROVE  ChecksInv'
<1>0. Typed /\ Typed' /\ HookSaw /\ HookSaw'
  BY NextTyped, NextHookSaw DEF ChecksInv
<1>1. ASSUME NEW b \in Branches, Change(b)
      PROVE  ChecksInv'
  <2>1. UNCHANGED <<main, base, head, behind, passed, deployed, loose>>
    BY <1>1 DEF Change, Edit
  <2> QED BY <1>0, <2>1 DEF ChecksInv, AtMain, WorkflowSaw, HookSawClear, Sound, LooseUnclaimed
<1>2. ASSUME NEW b \in Branches, Commit(b)
      PROVE  ChecksInv'
  <2>1. UNCHANGED <<main, base, behind, deployed, loose>>
    BY <1>2 DEF Commit
  <2>2. \A c \in Branches : c # b => passed'[c] = passed[c] /\ head'[c] = head[c]
    BY <1>0, <1>2 DEF Commit, Typed
  <2>3. passed'[b] = {"hook"}
    BY <1>0, <1>2 DEF Commit, Typed
  <2>4. "staged" \in Care => head'[b] = work[b]
    BY <1>0, <1>2 DEF Commit, Staged, Typed
  <2>5. "redirects" \in Care => Clear(work[b])
    BY <1>2 DEF Commit
  <2>6. WorkflowSaw'
    BY <2>1, <2>2, <2>3 DEF ChecksInv, WorkflowSaw
  <2>7. HookSawClear'
    BY <2>2, <2>4, <2>5 DEF ChecksInv, HookSawClear
  <2> QED BY <1>0, <2>1, <2>6, <2>7 DEF ChecksInv, AtMain, Sound, LooseUnclaimed
<1>3. ASSUME NEW b \in Branches, Validate(b)
      PROVE  ChecksInv'
  <2>1. UNCHANGED <<main, base, head, behind, deployed, loose>>
    BY <1>3 DEF Validate
  <2>2. \A c \in Branches : c # b => passed'[c] = passed[c]
    BY <1>0, <1>3 DEF Validate, Typed
  <2>3. passed'[b] = passed[b] \cup {"ci"} /\ VolumeRefs(Merged(b))
    BY <1>0, <1>3 DEF Validate, Typed
  <2>4. b \notin behind => VolumeRefs(head[b])
    BY <2>3, MergedIsHead DEF ChecksInv
  <2>5. WorkflowSaw'
    BY <2>1, <2>2, <2>3, <2>4 DEF ChecksInv, WorkflowSaw
  <2>6. HookSawClear'
    BY <2>1, <2>2, <2>3 DEF ChecksInv, HookSawClear
  <2> QED BY <1>0, <2>1, <2>5, <2>6 DEF ChecksInv, AtMain, Sound, LooseUnclaimed
<1>4. ASSUME NEW b \in Branches, Update(b)
      PROVE  ChecksInv'
  <2>1. PICK t : Continue(b, main, t)
    BY <1>4 DEF Update
  <2>2. behind' = behind \ {b} /\ UNCHANGED <<main, deployed, loose>>
    BY <1>4 DEF Update
  <2>3. AtMain' /\ WorkflowSaw' /\ HookSawClear'
    BY <2>1, <2>2, ContinueBranches
  <2> QED BY <1>0, <2>2, <2>3 DEF ChecksInv, Sound, LooseUnclaimed
<1>5. ASSUME NEW b \in Branches, Merge(b)
      PROVE  ChecksInv'
  <2>1. /\ main' = Merged(b) /\ behind' = Branches \ {b}
        /\ Continue(b, main', main') /\ UNCHANGED <<deployed, loose>>
    BY <1>5 DEF Merge
  <2>2. AtMain' /\ WorkflowSaw' /\ HookSawClear'
    BY <2>1, ContinueBranches
  <2>3. "current" \in Care => main' = head[b] /\ {"hook", "ci"} \subseteq passed[b] /\ b \notin behind
    BY <1>5, <2>1, MergedIsHead DEF Merge, ChecksInv
  <2>4. Sound(main')
    BY <2>3 DEF ChecksInv, WorkflowSaw, HookSaw, HookSawClear, Sound
  <2> QED BY <1>0, <2>1, <2>2, <2>4 DEF ChecksInv, LooseUnclaimed, Sound
<1>6. CASE Deploy
  BY <1>0, <1>6 DEF Deploy, ChecksInv, AtMain, WorkflowSaw, HookSawClear, LooseUnclaimed, Sound
<1>7. CASE Write \/ Restart
  BY <1>0, <1>7 DEF Write, Restart, ChecksInv, AtMain, WorkflowSaw, HookSawClear, LooseUnclaimed, Sound
<1>8. CASE UNCHANGED vars
  BY <1>0, <1>8 DEF vars, ChecksInv, AtMain, WorkflowSaw, HookSawClear, LooseUnclaimed, Sound
<1> QED BY <1>1, <1>2, <1>3, <1>4, <1>5, <1>6, <1>7, <1>8 DEF Next

\* The invariant holds in every state, whatever precautions are left out.
LEMMA ChecksHold == Spec => []ChecksInv
<1>1. ChecksInv /\ [Next]_vars => ChecksInv'
  BY NextChecks
<1> QED BY InitChecks, <1>1, PTL DEF Spec

\* When only branches that are up to date are merged, what Flux applies can
\* start: every ConfigMap and Secret its volumes name is there.
THEOREM PodsAlwaysStart == ASSUME "current" \in Care PROVE Spec => []PodStarts
<1>1. ChecksInv => PodStarts
  BY DEF ChecksInv, Sound, VolumeRefs, PodStarts, Runs
<1> QED BY <1>1, ChecksHold, PTL

\* When the whole working tree is staged as well, main is at every moment a tree
\* that both checks would accept, before the workflow looks at main (the commit
\* hook, and with it the mount check, never does).
THEOREM MainPassesBoth ==
  ASSUME {"current", "staged"} \subseteq Care
  PROVE  Spec => [](PersistentMounts(main) /\ VolumeRefs(main))
<1>1. ChecksInv => PersistentMounts(main) /\ VolumeRefs(main)
  BY DEF ChecksInv, Sound
<1> QED BY <1>1, ChecksHold, PTL

\* When redirects stay clear of the image's VOLUME too, and nothing but a claim is
\* mounted at or above a redirected path, no restart and no rollout
\* takes what a database acknowledged while its workload has a claim.
THEOREM NoRowIsLost ==
  ASSUME {"current", "staged", "redirects"} \subseteq Care
  PROVE  Spec => RowsSurvive
<1>1. ChecksInv => ~(Claims(deployed) # {} /\ loose)
  BY AcceptedIsPersistent DEF ChecksInv, Typed, Sound, LooseUnclaimed
<1>2. ChecksInv /\ [Next]_vars => [Claims(deployed) # {} /\ loose => loose']_vars
  BY <1>1
<1> QED BY <1>2, ChecksHold, PTL DEF Spec, RowsSurvive
=============================================================================
