----------------------- MODULE AgeKeyRotation_proofs -----------------------
(***************************************************************************)
(* What holds of the repository whatever anybody does (SecretsRepo, the    *)
(* first three sections), and of a rotation end to end when the operator   *)
(* keeps to the steps each result names.                                   *)
(***************************************************************************)
EXTENDS AgeKeyRotation, TLAPS

(***************************************************************************)
(* Type correctness                                                        *)
(***************************************************************************)

\* Types at the start.
LEMMA InitType == RepoInit => TypeOK
BY RepoAssumption DEF RepoInit, TypeOK, Trees, Paths

\* rotate-age-key keeps the types.
LEMMA RotationType ==
  ASSUME TypeOK, NEW c \in Checkouts, Rotation(c)
  PROVE  TypeOK'
<1>1. ASSUME NEW k \in Keys, StartRotate(c, k) PROVE TypeOK'
  BY <1>1 DEF TypeOK, StartRotate, Active, Present, gitVars
<1>2. ASSUME NEW f \in Files, SkipFile(c, f) PROVE TypeOK'
  BY <1>2 DEF TypeOK, SkipFile, gitVars
<1>3. ASSUME NEW f \in Files, RotateFile(c, f) PROVE TypeOK'
  <2>1. rot[c] \in Keys
    BY <1>3 DEF TypeOK, RotateFile
  <2>2. work' \in [Checkouts -> Trees]
    BY <1>3, <2>1 DEF TypeOK, RotateFile, Trees, Paths
  <2>3. QED
    BY <1>3, <2>2 DEF TypeOK, RotateFile, Paths
<1>4. CASE AbortRotate(c)
  BY <1>4 DEF TypeOK, AbortRotate, gitVars
<1>5. CASE FinishRotate(c)
  BY <1>5, RepoAssumption DEF TypeOK, FinishRotate, Trees, Paths
<1>6. QED
  BY <1>1, <1>2, <1>3, <1>4, <1>5 DEF Rotation

\* edit, new and encrypt-env-files.sh keep the types.
LEMMA EditingType ==
  ASSUME TypeOK, NEW c \in Checkouts, Editing(c)
  PROVE  TypeOK'
<1>1. PICK f \in Files : OpenEdit(c, f) \/ OpenNew(c, f) \/ OpenEncrypt(c, f)
                           \/ SaveSession(c, f) \/ DropSession(c, f)
  BY DEF Editing
<1>2. work[c][f] \subseteq Keys /\ work[c][Config] \subseteq Keys /\ session[c][f] \subseteq Keys
  BY DEF TypeOK, Trees, Paths
<1>3. CASE OpenEdit(c, f)
  BY <1>2, <1>3 DEF TypeOK, OpenEdit, gitVars, rotVars
<1>4. CASE OpenNew(c, f)
  BY <1>2, <1>4 DEF TypeOK, OpenNew, gitVars, rotVars
<1>5. CASE OpenEncrypt(c, f)
  BY <1>2, <1>5 DEF TypeOK, OpenEncrypt, gitVars, rotVars
<1>6. CASE SaveSession(c, f)
  BY <1>2, <1>6 DEF TypeOK, SaveSession, rotVars, Trees, Paths
<1>7. CASE DropSession(c, f)
  BY <1>2, <1>7 DEF TypeOK, DropSession, gitVars, rotVars
<1>8. QED
  BY <1>1, <1>3, <1>4, <1>5, <1>6, <1>7

\* The git commands of one checkout keep the types.
LEMMA LocalGitType ==
  ASSUME TypeOK, NEW c \in Checkouts, LocalGit(c)
  PROVE  TypeOK'
<1>1. CASE NewBranch(c)
  BY <1>1 DEF TypeOK, NewBranch, rotVars
<1>2. CASE Rollback(c)
  <2>1. work' \in [Checkouts -> Trees]
    BY <1>2 DEF TypeOK, Rollback, Trees
  <2>2. QED
    BY <1>2, <2>1 DEF TypeOK, Rollback, rotVars
<1>3. CASE Commit(c)
  BY <1>3 DEF TypeOK, Commit, rotVars
<1>4. CASE Pull(c)
  <2>1. head' \in [Checkouts -> Trees] /\ work' \in [Checkouts -> Trees]
    BY <1>4 DEF TypeOK, Pull, Trees
  <2>2. QED
    BY <1>4, <2>1 DEF TypeOK, Pull, rotVars
<1>5. CASE SwitchToMain(c)
  BY <1>5 DEF TypeOK, SwitchToMain, rotVars
<1>6. QED
  BY <1>1, <1>2, <1>3, <1>4, <1>5 DEF LocalGit

\* A merge keeps the types.
LEMMA MergeType ==
  ASSUME TypeOK, NEW c \in Checkouts, Merge(c)
  PROVE  TypeOK'
<1>1. main' \in Trees
  BY DEF TypeOK, Merge, Trees
<1>2. QED
  BY <1>1 DEF TypeOK, Merge, rotVars

\* Changes of the 1Password item keep the types.
LEMMA VaultType ==
  ASSUME TypeOK, NEW k \in Keys, UploadKey(k) \/ RetireKey(k) \/ RenameBack(k)
  PROVE  TypeOK'
BY DEF TypeOK, UploadKey, RetireKey, RenameBack, gitVars, rotVars

\* Every step keeps the types.
LEMMA NextType == TypeOK /\ [RepoNext]_repoVars => TypeOK'
<1> SUFFICES ASSUME TypeOK, [RepoNext]_repoVars PROVE TypeOK'
  OBVIOUS
<1>1. CASE RepoNext
  BY <1>1, VaultType, RotationType, EditingType, LocalGitType, MergeType DEF RepoNext
<1>2. CASE UNCHANGED repoVars
  BY <1>2 DEF TypeOK, repoVars
<1>3. QED
  BY <1>1, <1>2

\* Every variable keeps its type, whatever the keys, files and checkouts.
THEOREM TypeCorrect == RepoSpec => []TypeOK
BY InitType, NextType, PTL DEF RepoSpec

----------------------------------------------------------------------------
(***************************************************************************)
(* The key of every recipient is in 1Password.  CiphertextKeyStored is not *)
(* inductive by itself: a running rotation is about to write rot[c], which *)
(* only the gate it passed when it started says is stored.                 *)
(***************************************************************************)

RotatesToStored == \A c \in Checkouts : rot[c] # NoKey => rot[c] \in Stored

StoredInv == TypeOK /\ CiphertextKeyStored /\ RotatesToStored

\* The recipients of the first commit are stored.
LEMMA InitStored == RepoInit => StoredInv
<1> SUFFICES ASSUME RepoInit PROVE StoredInv
  OBVIOUS
<1>1. TypeOK
  BY InitType
<1>2. InitKey \in Stored
  BY RepoAssumption DEF RepoInit, Stored
<1>3. CiphertextKeyStored
  BY <1>2 DEF RepoInit, CiphertextKeyStored, Paths
<1>4. RotatesToStored
  BY DEF RepoInit, RotatesToStored
<1>5. QED
  BY <1>1, <1>3, <1>4 DEF StoredInv

\* 1Password never loses a key: adding, retiring and renaming keep all stored.
LEMMA VaultStored ==
  ASSUME StoredInv, NEW k \in Keys, UploadKey(k) \/ RetireKey(k) \/ RenameBack(k)
  PROVE  CiphertextKeyStored' /\ RotatesToStored'
<1>1. Stored \subseteq Stored'
  BY DEF StoredInv, TypeOK, Stored, UploadKey, RetireKey, RenameBack
<1>2. UNCHANGED <<main, head, work, session, rot>>
  BY DEF UploadKey, RetireKey, RenameBack, gitVars, rotVars
<1>3. CiphertextKeyStored'
  BY <1>1, <1>2 DEF StoredInv, CiphertextKeyStored
<1>4. RotatesToStored'
  BY <1>1, <1>2 DEF StoredInv, RotatesToStored
<1>5. QED
  BY <1>3, <1>4

\* rotate-age-key writes stored recipients only, behind its gate.
LEMMA RotationStored ==
  ASSUME StoredInv, NEW c \in Checkouts, Rotation(c)
  PROVE  CiphertextKeyStored' /\ RotatesToStored'
<1>1. ASSUME NEW k \in Keys, StartRotate(c, k)
      PROVE  CiphertextKeyStored' /\ RotatesToStored'
  <2>1. k \in Stored
    BY <1>1 DEF StartRotate, Active, Stored
  <2>2. UNCHANGED <<vault, main, head, work, session>>
    BY <1>1 DEF StartRotate, gitVars
  <2>3. Stored' = Stored
    BY <2>2 DEF Stored
  <2>4. CiphertextKeyStored'
    BY <2>2, <2>3 DEF StoredInv, CiphertextKeyStored
  <2>5. RotatesToStored'
    BY <1>1, <2>1, <2>3 DEF StartRotate, StoredInv, TypeOK, RotatesToStored
  <2>6. QED
    BY <2>4, <2>5
<1>2. ASSUME NEW f \in Files, SkipFile(c, f)
      PROVE  CiphertextKeyStored' /\ RotatesToStored'
  BY <1>2 DEF SkipFile, gitVars, StoredInv, CiphertextKeyStored, RotatesToStored, Stored
<1>3. ASSUME NEW f \in Files, RotateFile(c, f)
      PROVE  CiphertextKeyStored' /\ RotatesToStored'
  <2>1. rot[c] \in Stored
    BY <1>3 DEF RotateFile, StoredInv, RotatesToStored
  <2>2. UNCHANGED <<vault, main, head, session, rot>>
    BY <1>3 DEF RotateFile
  <2>3. Stored' = Stored
    BY <2>2 DEF Stored
  <2>4. work[c][f] \subseteq Stored
    BY DEF StoredInv, CiphertextKeyStored, Paths
  <2>5. ASSUME NEW d \in Checkouts, NEW p \in Paths PROVE work'[d][p] \subseteq Stored
    <3>1. CASE d = c /\ p = f
      BY <1>3, <2>1, <2>4, <3>1 DEF RotateFile, StoredInv, TypeOK, Trees, Paths
    <3>2. CASE ~(d = c /\ p = f)
      <4>1. work'[d][p] = work[d][p]
        BY <1>3, <3>2 DEF RotateFile, StoredInv, TypeOK, Trees, Paths
      <4>2. QED
        BY <4>1 DEF StoredInv, CiphertextKeyStored
    <3>3. QED
      BY <3>1, <3>2
  <2>6. QED
    BY <2>2, <2>3, <2>5 DEF StoredInv, CiphertextKeyStored, RotatesToStored
<1>4. CASE AbortRotate(c)
  <2>1. Stored' = Stored
    BY <1>4 DEF AbortRotate, Stored
  <2>2. CiphertextKeyStored'
    BY <1>4, <2>1 DEF AbortRotate, gitVars, StoredInv, CiphertextKeyStored
  <2>3. RotatesToStored'
    BY <1>4, <2>1 DEF AbortRotate, StoredInv, TypeOK, RotatesToStored
  <2>4. QED
    BY <2>2, <2>3
<1>5. CASE FinishRotate(c)
  <2>1. rot[c] \in Stored
    BY <1>5 DEF FinishRotate, StoredInv, RotatesToStored
  <2>2. Stored' = Stored
    BY <1>5 DEF FinishRotate, Stored
  <2>3. ASSUME NEW d \in Checkouts, NEW p \in Paths PROVE work'[d][p] \subseteq Stored
    <3>1. CASE d = c /\ p = Config
      BY <1>5, <2>1, <3>1 DEF FinishRotate, StoredInv, TypeOK, Trees, Paths
    <3>2. CASE ~(d = c /\ p = Config)
      <4>1. work'[d][p] = work[d][p]
        BY <1>5, <3>2 DEF FinishRotate, StoredInv, TypeOK, Trees, Paths
      <4>2. QED
        BY <4>1 DEF StoredInv, CiphertextKeyStored
    <3>3. QED
      BY <3>1, <3>2
  <2>4. CiphertextKeyStored'
    BY <1>5, <2>2, <2>3 DEF FinishRotate, StoredInv, CiphertextKeyStored
  <2>5. RotatesToStored'
    BY <1>5, <2>2 DEF FinishRotate, StoredInv, TypeOK, RotatesToStored
  <2>6. QED
    BY <2>4, <2>5
<1>6. QED
  BY <1>1, <1>2, <1>3, <1>4, <1>5 DEF Rotation

\* The editing commands write recipients they have read.
LEMMA EditingStored ==
  ASSUME StoredInv, NEW c \in Checkouts, Editing(c)
  PROVE  CiphertextKeyStored' /\ RotatesToStored'
<1>1. PICK f \in Files : OpenEdit(c, f) \/ OpenNew(c, f) \/ OpenEncrypt(c, f)
                           \/ SaveSession(c, f) \/ DropSession(c, f)
  BY DEF Editing
<1>2. UNCHANGED <<vault, main, head, rot>>
  BY <1>1 DEF OpenEdit, OpenNew, OpenEncrypt, SaveSession, DropSession, gitVars, rotVars
<1>3. Stored' = Stored
  BY <1>2 DEF Stored
<1>4. work[c][f] \subseteq Stored /\ work[c][Config] \subseteq Stored /\ session[c][f] \subseteq Stored
  BY DEF StoredInv, CiphertextKeyStored, Paths
<1>5. ASSUME NEW d \in Checkouts, NEW p \in Paths PROVE work'[d][p] \subseteq Stored
  <2>1. CASE SaveSession(c, f) /\ d = c /\ p = f
    BY <1>4, <2>1 DEF SaveSession, StoredInv, TypeOK, Trees, Paths
  <2>2. CASE ~(SaveSession(c, f) /\ d = c /\ p = f)
    <3>1. work'[d][p] = work[d][p]
      BY <1>1, <2>2 DEF OpenEdit, OpenNew, OpenEncrypt, SaveSession, DropSession,
                        StoredInv, TypeOK, Trees, Paths
    <3>2. QED
      BY <3>1 DEF StoredInv, CiphertextKeyStored
  <2>3. QED
    BY <2>1, <2>2
<1>6. ASSUME NEW d \in Checkouts, NEW g \in Files PROVE session'[d][g] \subseteq Stored
  <2>1. CASE d = c /\ g = f
    BY <1>1, <1>4, <2>1 DEF OpenEdit, OpenNew, OpenEncrypt, SaveSession, DropSession,
                            StoredInv, TypeOK
  <2>2. CASE ~(d = c /\ g = f)
    <3>1. session'[d][g] = session[d][g]
      BY <1>1, <2>2 DEF OpenEdit, OpenNew, OpenEncrypt, SaveSession, DropSession,
                        StoredInv, TypeOK
    <3>2. QED
      BY <3>1 DEF StoredInv, CiphertextKeyStored
  <2>3. QED
    BY <2>1, <2>2
<1>7. QED
  BY <1>2, <1>3, <1>5, <1>6 DEF StoredInv, CiphertextKeyStored, RotatesToStored

\* The git commands of one checkout move ciphertext that exists already.
LEMMA GitStored ==
  ASSUME StoredInv, NEW c \in Checkouts, LocalGit(c) \/ Merge(c)
  PROVE  CiphertextKeyStored' /\ RotatesToStored'
<1>1. UNCHANGED <<vault, session, rot>>
  BY DEF LocalGit, NewBranch, Rollback, Commit, Pull, SwitchToMain, Merge, rotVars
<1>2. Stored' = Stored
  BY <1>1 DEF Stored
<1>3. ASSUME NEW p \in Paths PROVE main'[p] \subseteq Stored
  BY DEF LocalGit, NewBranch, Rollback, Commit, Pull, SwitchToMain, Merge,
         StoredInv, CiphertextKeyStored
<1>4. ASSUME NEW d \in Checkouts, NEW p \in Paths
      PROVE  head'[d][p] \subseteq Stored /\ work'[d][p] \subseteq Stored
  <2>1. /\ main[p] \subseteq Stored
        /\ head[d][p] \subseteq Stored
        /\ work[d][p] \subseteq Stored
    BY DEF StoredInv, CiphertextKeyStored
  <2>2. CASE NewBranch(c) \/ Merge(c)
    BY <2>1, <2>2 DEF NewBranch, Merge
  <2>3. CASE Rollback(c)
    BY <2>1, <2>3 DEF Rollback, StoredInv, TypeOK
  <2>4. CASE Commit(c)
    BY <2>1, <2>4 DEF Commit, StoredInv, TypeOK
  <2>5. CASE Pull(c)
    BY <2>1, <2>5 DEF Pull, StoredInv, TypeOK
  <2>6. CASE SwitchToMain(c)
    BY <2>1, <2>6 DEF SwitchToMain, StoredInv, TypeOK
  <2>7. QED
    BY <2>2, <2>3, <2>4, <2>5, <2>6 DEF LocalGit
<1>5. QED
  BY <1>1, <1>2, <1>3, <1>4 DEF StoredInv, CiphertextKeyStored, RotatesToStored

\* Every step keeps ciphertext on stored keys.
LEMMA NextStored == StoredInv /\ [RepoNext]_repoVars => StoredInv'
<1> SUFFICES ASSUME StoredInv, [RepoNext]_repoVars PROVE StoredInv'
  OBVIOUS
<1>1. TypeOK'
  BY NextType DEF StoredInv
<1>2. CASE RepoNext
  BY <1>1, <1>2, VaultStored, RotationStored, EditingStored, GitStored DEF RepoNext, StoredInv
<1>3. CASE UNCHANGED repoVars
  BY <1>1, <1>3 DEF repoVars, StoredInv, CiphertextKeyStored, RotatesToStored, Stored
<1>4. QED
  BY <1>2, <1>3

\* The gate of rotate-age-key does what it is for: through any interleaving of
\* rotations, their failures, edits, merges and renames in 1Password, every
\* recipient a ciphertext names has its private key in 1Password.
THEOREM KeyStored == RepoSpec => []CiphertextKeyStored
<1>1. StoredInv => CiphertextKeyStored
  BY DEF StoredInv
<1>2. QED
  BY <1>1, InitStored, NextStored, PTL DEF RepoSpec

----------------------------------------------------------------------------
(***************************************************************************)
(* rotate-age-key declares the new recipient last.  In a checkout nobody   *)
(* edits in, the files a run has left behind it stay where it put them.    *)
(***************************************************************************)

VisitedAreRotated ==
  \A c \in Checkouts \ Editors :
    /\ \A f \in Files : session[c][f] = {}
    /\ rot[c] # NoKey =>
         \A f \in Files \ rotTodo[c] : work[c][f] = {} \/ work[c][f] = {rot[c]}

\* No run is under way at the start.
LEMMA InitVisited == RepoInit => VisitedAreRotated
BY DEF RepoInit, VisitedAreRotated

\* Every step keeps the files a run has visited on its new recipient, in a
\* checkout nobody edits in.
LEMMA NextVisited ==
  ASSUME TypeOK, VisitedAreRotated, [RepoNext]_repoVars
  PROVE  VisitedAreRotated'
<1> SUFFICES ASSUME NEW c \in Checkouts \ Editors
             PROVE  /\ \A f \in Files : session'[c][f] = {}
                    /\ rot'[c] # NoKey =>
                         \A f \in Files \ rotTodo'[c] : work'[c][f] = {} \/ work'[c][f] = {rot'[c]}
  BY DEF VisitedAreRotated
<1>1. /\ \A f \in Files : session[c][f] = {}
      /\ rot[c] # NoKey =>
           \A f \in Files \ rotTodo[c] : work[c][f] = {} \/ work[c][f] = {rot[c]}
  BY DEF VisitedAreRotated
<1>2. CASE UNCHANGED repoVars \/ \E k \in Keys : UploadKey(k) \/ RetireKey(k) \/ RenameBack(k)
  BY <1>1, <1>2 DEF repoVars, UploadKey, RetireKey, RenameBack, gitVars, rotVars
<1>3. ASSUME NEW d \in Checkouts, Rotation(d)
      PROVE  /\ \A f \in Files : session'[c][f] = {}
             /\ rot'[c] # NoKey =>
                  \A f \in Files \ rotTodo'[c] : work'[c][f] = {} \/ work'[c][f] = {rot'[c]}
  <2>1. session' = session
    BY <1>3 DEF Rotation, StartRotate, SkipFile, RotateFile, AbortRotate, FinishRotate, gitVars
  <2>2. ASSUME NEW k \in Keys, StartRotate(d, k), rot'[c] # NoKey, NEW f \in Files \ rotTodo'[c]
        PROVE  work'[c][f] = {} \/ work'[c][f] = {rot'[c]}
    <3>1. CASE c = d
      BY <2>2, <3>1 DEF StartRotate, TypeOK, Present
    <3>2. CASE c # d
      BY <1>1, <2>2, <3>2 DEF StartRotate, TypeOK
    <3>3. QED
      BY <3>1, <3>2
  <2>3. ASSUME NEW g \in Files, SkipFile(d, g) \/ RotateFile(d, g),
               rot'[c] # NoKey, NEW f \in Files \ rotTodo'[c]
        PROVE  work'[c][f] = {} \/ work'[c][f] = {rot'[c]}
    <3>1. rot' = rot
      BY <2>3 DEF SkipFile, RotateFile
    <3>2. CASE c = d /\ f = g
      BY <2>3, <3>1, <3>2 DEF SkipFile, RotateFile, TypeOK, Trees, Paths
    <3>3. CASE ~(c = d /\ f = g)
      <4>1. f \notin rotTodo[c]
        BY <2>3, <3>3 DEF SkipFile, RotateFile, TypeOK
      <4>2. work'[c][f] = work[c][f]
        BY <2>3, <3>3 DEF SkipFile, RotateFile, TypeOK, Trees, Paths
      <4>3. QED
        BY <1>1, <2>3, <3>1, <4>1, <4>2
    <3>4. QED
      BY <3>2, <3>3
  <2>4. ASSUME AbortRotate(d), rot'[c] # NoKey, NEW f \in Files \ rotTodo'[c]
        PROVE  work'[c][f] = {} \/ work'[c][f] = {rot'[c]}
    BY <1>1, <2>4 DEF AbortRotate, TypeOK
  <2>5. ASSUME FinishRotate(d), rot'[c] # NoKey, NEW f \in Files \ rotTodo'[c]
        PROVE  work'[c][f] = {} \/ work'[c][f] = {rot'[c]}
    BY <1>1, <2>5 DEF FinishRotate, TypeOK
  <2>6. QED
    BY <1>1, <1>3, <2>1, <2>2, <2>3, <2>4, <2>5 DEF Rotation
<1>4. ASSUME NEW d \in Checkouts, Editing(d)
      PROVE  /\ \A f \in Files : session'[c][f] = {}
             /\ rot'[c] # NoKey =>
                  \A f \in Files \ rotTodo'[c] : work'[c][f] = {} \/ work'[c][f] = {rot'[c]}
  <2>1. PICK g \in Files : OpenEdit(d, g) \/ OpenNew(d, g) \/ OpenEncrypt(d, g)
                             \/ SaveSession(d, g) \/ DropSession(d, g)
    BY <1>4 DEF Editing
  <2>2. d # c
    BY <1>1, <2>1 DEF OpenEdit, OpenNew, OpenEncrypt, SaveSession, DropSession
  <2>3. session'[c] = session[c] /\ work'[c] = work[c] /\ UNCHANGED rotVars
    BY <2>1, <2>2 DEF OpenEdit, OpenNew, OpenEncrypt, SaveSession, DropSession, TypeOK, rotVars
  <2>4. QED
    BY <1>1, <2>3 DEF rotVars
<1>5. ASSUME NEW d \in Checkouts, LocalGit(d) \/ Merge(d)
      PROVE  /\ \A f \in Files : session'[c][f] = {}
             /\ rot'[c] # NoKey =>
                  \A f \in Files \ rotTodo'[c] : work'[c][f] = {} \/ work'[c][f] = {rot'[c]}
  <2>1. UNCHANGED <<session, rotVars>>
    BY <1>5 DEF LocalGit, NewBranch, Rollback, Commit, Pull, SwitchToMain, Merge
  <2>2. rot[c] # NoKey => work'[c] = work[c]
    BY <1>5 DEF LocalGit, NewBranch, Rollback, Commit, Pull, SwitchToMain, Merge, TypeOK
  <2>3. QED
    BY <1>1, <2>1, <2>2 DEF rotVars
<1>6. QED
  BY <1>2, <1>3, <1>4, <1>5 DEF RepoNext

\* Only the last step of a run changes .sops.yaml while it runs.
LEMMA DeclaredStep ==
  ASSUME TypeOK, VisitedAreRotated, RepoNext,
         NEW c \in Checkouts \ Editors, rot[c] # NoKey, work'[c][Config] # work[c][Config],
         NEW f \in Present(work[c])
  PROVE  work[c][f] = {rot[c]}
<1>1. FinishRotate(c)
  <2>1. ASSUME NEW d \in Checkouts, Rotation(d) PROVE FinishRotate(c)
    <3>1. ASSUME NEW g \in Files, RotateFile(d, g) PROVE FALSE
      BY <3>1, RepoAssumption DEF RotateFile, TypeOK, Trees, Paths
    <3>2. ASSUME FinishRotate(d), d # c PROVE FALSE
      BY <3>2 DEF FinishRotate, TypeOK
    <3>3. QED
      BY <2>1, <3>1, <3>2 DEF Rotation, StartRotate, SkipFile, AbortRotate
  <2>2. ASSUME NEW d \in Checkouts, Editing(d) PROVE FALSE
    <3>1. ASSUME NEW g \in Files, SaveSession(d, g) PROVE FALSE
      BY <3>1, RepoAssumption DEF SaveSession, TypeOK, Trees, Paths
    <3>2. QED
      BY <2>2, <3>1 DEF Editing, OpenEdit, OpenNew, OpenEncrypt, DropSession
  <2>3. ASSUME NEW d \in Checkouts, LocalGit(d) \/ Merge(d) PROVE FALSE
    <3>1. work'[c] = work[c]
      BY <2>3 DEF LocalGit, NewBranch, Rollback, Commit, Pull, SwitchToMain, Merge, TypeOK
    <3>2. QED
      BY <3>1
  <2>4. ASSUME NEW k \in Keys, UploadKey(k) \/ RetireKey(k) \/ RenameBack(k) PROVE FALSE
    BY <2>4 DEF UploadKey, RetireKey, RenameBack
  <2>5. QED
    BY <2>1, <2>2, <2>3, <2>4 DEF RepoNext
<1>2. QED
  BY <1>1 DEF FinishRotate, VisitedAreRotated, Present

\* A run that completes has every file of the checkout on the new recipient
\* before .sops.yaml names it; one that stops leaves the old declaration.
THEOREM RotationDeclaresLast == RepoSpec => DeclaredAfterRotated
<1>1. TypeOK /\ VisitedAreRotated /\ [RepoNext]_repoVars => VisitedAreRotated'
  BY NextVisited
<1>2. TypeOK /\ VisitedAreRotated /\ [RepoNext]_repoVars =>
        [\A c \in Checkouts \ Editors :
           rot[c] # NoKey /\ work'[c][Config] # work[c][Config]
             => \A f \in Present(work[c]) : work[c][f] = {rot[c]}]_repoVars
  BY DeclaredStep
<1>3. QED
  BY <1>1, <1>2, InitVisited, TypeCorrect, PTL DEF RepoSpec, DeclaredAfterRotated

----------------------------------------------------------------------------
(***************************************************************************)
(* The system is the repository and more.                                  *)
(***************************************************************************)

\* A step of the system is a step of the repository or leaves it alone.
LEMMA SystemStep ==
  ASSUME [Next]_vars
  PROVE  [RepoNext]_repoVars
BY DEF Next, vars, Repository, Operator, Flux, MarkRetired, MergePR, ApplyAll, ApplySecret,
       Narrow, FluxFetch, FluxReconcile, RepoNext

\* The system implements the repository: KeyStored and RotationDeclaresLast hold
\* of every rotation, whatever the operator skips.
THEOREM RepositoryInside == Spec => RepoSpec
<1>1. Init => RepoInit
  BY DEF Init
<1>2. [Next]_vars => [RepoNext]_repoVars
  BY SystemStep
<1> QED BY <1>1, <1>2, PTL DEF Spec, RepoSpec

----------------------------------------------------------------------------
(***************************************************************************)
(* The bookkeeping of git: what is not reported as changed is the same on  *)
(* both sides, and what is changed exists.                                 *)
(***************************************************************************)

GitConsistent ==
  \A c \in Checkouts :
    /\ \A p \in Paths \ mod[c] : work[c][p] = head[c][p]
    /\ \A p \in Paths \ (ahead[c] \cup behind[c]) : head[c][p] = main[p]
    /\ \A p \in mod[c] : work[c][p] # {}
    /\ \A p \in ahead[c] : head[c][p] # {}

\* The git bookkeeping is consistent at the start.
LEMMA InitGit == RepoInit => GitConsistent
BY DEF RepoInit, GitConsistent

\* Every step keeps the git bookkeeping consistent.
LEMMA NextGit ==
  ASSUME TypeOK, GitConsistent, [RepoNext]_repoVars
  PROVE  GitConsistent'
<1> SUFFICES ASSUME NEW c \in Checkouts
             PROVE  /\ \A p \in Paths \ mod'[c] : work'[c][p] = head'[c][p]
                    /\ \A p \in Paths \ (ahead'[c] \cup behind'[c]) : head'[c][p] = main'[p]
                    /\ \A p \in mod'[c] : work'[c][p] # {}
                    /\ \A p \in ahead'[c] : head'[c][p] # {}
  BY DEF GitConsistent
<1> DEFINE Good == /\ \A p \in Paths \ mod'[c] : work'[c][p] = head'[c][p]
                   /\ \A p \in Paths \ (ahead'[c] \cup behind'[c]) : head'[c][p] = main'[p]
                   /\ \A p \in mod'[c] : work'[c][p] # {}
                   /\ \A p \in ahead'[c] : head'[c][p] # {}
<1>1. /\ \A p \in Paths \ mod[c] : work[c][p] = head[c][p]
      /\ \A p \in Paths \ (ahead[c] \cup behind[c]) : head[c][p] = main[p]
      /\ \A p \in mod[c] : work[c][p] # {}
      /\ \A p \in ahead[c] : head[c][p] # {}
  BY DEF GitConsistent
<1>2. CASE UNCHANGED <<gitVars, work>>
  BY <1>1, <1>2 DEF gitVars
<1>3. ASSUME NEW d \in Checkouts, NEW p \in Paths, NEW r,
             r # {}, work' = [work EXCEPT ![d][p] = r], mod' = [mod EXCEPT ![d] = @ \cup {p}],
             UNCHANGED <<main, head, ahead, behind>>
      PROVE  Good
  <2>1. CASE c = d
    <3>1. mod'[c] = mod[c] \cup {p}
      BY <1>3, <2>1 DEF TypeOK
    <3>2. work'[c][p] = r
      BY <1>3, <2>1 DEF TypeOK, Trees
    <3>3. ASSUME NEW q \in Paths, q # p PROVE work'[c][q] = work[c][q]
      BY <1>3, <3>3 DEF TypeOK, Trees
    <3>4. mod[c] \subseteq Paths
      BY DEF TypeOK
    <3>5. QED
      BY <1>1, <1>3, <3>1, <3>2, <3>3, <3>4
  <2>2. CASE c # d
    <3>1. mod'[c] = mod[c] /\ work'[c] = work[c]
      BY <1>3, <2>2 DEF TypeOK
    <3>2. QED
      BY <1>1, <1>3, <3>1
  <2>3. QED
    BY <2>1, <2>2
<1>4. ASSUME NEW d \in Checkouts, Rotation(d) PROVE Good
  <2>1. ASSUME NEW f \in Files, RotateFile(d, f) PROVE Good
    <3>1. (work[d][f] \cup {rot[d]}) \ (work[d][f] \ {rot[d]}) # {}
      OBVIOUS
    <3>2. QED
      BY <1>3, <2>1, <3>1 DEF RotateFile, Paths
  <2>2. ASSUME FinishRotate(d) PROVE Good
    BY <1>3, <2>2 DEF FinishRotate, Paths
  <2>3. QED
    BY <1>2, <1>4, <2>1, <2>2 DEF Rotation, StartRotate, SkipFile, AbortRotate, gitVars
<1>5. ASSUME NEW d \in Checkouts, Editing(d) PROVE Good
  <2>1. ASSUME NEW f \in Files, SaveSession(d, f) PROVE Good
    BY <1>3, <2>1 DEF SaveSession, Paths
  <2>2. QED
    BY <1>2, <1>5, <2>1 DEF Editing, OpenEdit, OpenNew, OpenEncrypt, DropSession, gitVars
<1>6. ASSUME NEW d \in Checkouts, LocalGit(d) PROVE Good
  <2>1. CASE c # d
    <3>1. main' = main
      BY <1>6 DEF LocalGit, NewBranch, Rollback, Commit, Pull, SwitchToMain
    <3>2. /\ mod'[c] = mod[c] /\ work'[c] = work[c] /\ head'[c] = head[c]
          /\ ahead'[c] = ahead[c] /\ behind'[c] = behind[c]
      BY <1>6, <2>1 DEF LocalGit, NewBranch, Rollback, Commit, Pull, SwitchToMain, TypeOK
    <3>3. QED
      BY <1>1, <3>1, <3>2
  <2>2. CASE c = d /\ NewBranch(d)
    BY <1>1, <2>2 DEF NewBranch
  <2>3. CASE c = d /\ Rollback(d)
    <3> DEFINE tracked == {p \in Paths : head[c][p] # {}}
    <3>1. mod'[c] = mod[c] \ tracked
      BY <2>3 DEF Rollback, TypeOK
    <3>2. \A p \in Paths : work'[c][p] = IF p \in tracked THEN head[c][p] ELSE work[c][p]
      BY <2>3 DEF Rollback, TypeOK
    <3>3. UNCHANGED <<main, head, ahead, behind>>
      BY <2>3 DEF Rollback
    <3>4. mod[c] \subseteq Paths
      BY DEF TypeOK
    <3>5. QED
      BY <1>1, <3>1, <3>2, <3>3, <3>4
  <2>4. CASE c = d /\ Commit(d)
    <3>1. mod'[c] = {} /\ head'[c] = work[c] /\ ahead'[c] = ahead[c] \cup mod[c]
      BY <2>4 DEF Commit, TypeOK
    <3>2. UNCHANGED <<main, work, behind>>
      BY <2>4 DEF Commit
    <3>3. mod[c] \subseteq Paths /\ ahead[c] \subseteq Paths
      BY DEF TypeOK
    <3>4. QED
      BY <1>1, <3>1, <3>2, <3>3
  <2>5. CASE c = d /\ Pull(d)
    <3>1. \A p \in Paths : /\ head'[c][p] = IF p \in ahead[c] THEN head[c][p] ELSE main[p]
                           /\ work'[c][p] = IF p \in ahead[c] THEN head[c][p] ELSE main[p]
      BY <2>5 DEF Pull, TypeOK
    <3>2. behind'[c] = {} /\ mod'[c] = {} /\ ahead'[c] = ahead[c] /\ main' = main
      BY <2>5 DEF Pull, TypeOK
    <3>3. ahead[c] \subseteq Paths
      BY DEF TypeOK
    <3>4. QED
      BY <1>1, <3>1, <3>2, <3>3
  <2>6. CASE c = d /\ SwitchToMain(d)
    BY <2>6 DEF SwitchToMain, TypeOK
  <2>7. QED
    BY <1>6, <2>1, <2>2, <2>3, <2>4, <2>5, <2>6 DEF LocalGit
<1>7. ASSUME NEW d \in Checkouts, Merge(d) PROVE Good
  <2>1. UNCHANGED <<head, work, mod>>
    BY <1>7 DEF Merge
  <2>2. \A p \in Paths : main'[p] = IF p \in ahead[d] THEN head[d][p] ELSE main[p]
    BY <1>7 DEF Merge
  <2>3. CASE c = d
    <3>1. ahead'[c] = {} /\ behind'[c] = behind[c]
      BY <1>7, <2>3 DEF Merge, TypeOK
    <3>2. QED
      BY <1>1, <2>1, <2>2, <2>3, <3>1
  <2>4. CASE c # d
    <3>1. ahead'[c] = ahead[c] /\ behind'[c] = behind[c] \cup ahead[d]
      BY <1>7, <2>4 DEF Merge, TypeOK
    <3>2. QED
      BY <1>1, <2>1, <2>2, <3>1
  <2>5. QED
    BY <2>3, <2>4
<1>8. ASSUME NEW k \in Keys, UploadKey(k) \/ RetireKey(k) \/ RenameBack(k) PROVE Good
  BY <1>2, <1>8 DEF UploadKey, RetireKey, RenameBack
<1>9. QED
  BY <1>2, <1>4, <1>5, <1>6, <1>7, <1>8 DEF RepoNext, repoVars, gitVars

----------------------------------------------------------------------------
(***************************************************************************)
(* The invariant of a careful rotation, in three layers, each with the     *)
(* steps of the procedure it needs.  Main is entirely on one recipient;    *)
(* the cluster holds it, and nothing that the scripts no longer load,      *)
(* which is what makes applying every active key always safe; the artifact *)
(* Flux holds is on one recipient too, and the cluster holds that.         *)
(***************************************************************************)

Reviewed == {"list", "rebase"} \subseteq Procedure
Guarded == Reviewed /\ {"both", "pull", "rename"} \subseteq Procedure
Waited == Guarded /\ "revision" \in Procedure

MainUniform == Reviewed => ListGreen(main)
MainHeld == Guarded => main[Config] \subseteq cluster /\ cluster \subseteq Active
FetchedHeld == Waited => ListGreen(fetched) /\ fetched[Config] \subseteq cluster /\ ready

CarefulInv == GitConsistent /\ MainUniform /\ MainHeld /\ FetchedHeld

\* A tree that passes `list` is readable with any set of keys that holds the
\* recipient of record.
LEMMA ReadableWhenGreen ==
  ASSUME NEW t, ListGreen(t), NEW ids, t[Config] \subseteq ids
  PROVE  \A f \in Present(t) : Decrypts(ids, t[f])
BY DEF ListGreen, HasRecord, Decrypts

\* The careful invariant holds at the start.
LEMMA InitCareful == Init => CarefulInv
<1> SUFFICES ASSUME Init PROVE CarefulInv
  OBVIOUS
<1>1. ListGreen(main) /\ main[Config] = {InitKey}
  BY RepoAssumption DEF Init, RepoInit, ListGreen, HasRecord, Present, Paths
<1>2. Active = {InitKey}
  BY RepoAssumption DEF Init, RepoInit, Active
<1>3. QED
  BY <1>1, <1>2, InitGit DEF Init, CarefulInv, MainUniform, MainHeld, FetchedHeld

\* What is merged after a rebase and a green `list` is the whole branch tree.
LEMMA MergeCareful ==
  ASSUME Reviewed, TypeOK, GitConsistent, NEW c \in Checkouts, MergePR(c)
  PROVE  /\ ListGreen(main') /\ main'[Config] = head[c][Config]
         /\ \A f \in Present(main) : f \in Present(main')
<1>1. behind[c] = {} /\ ListGreen(head[c])
  BY DEF MergePR, Follows, Reviewed
<1>2. \A p \in Paths : main'[p] = head[c][p]
  BY <1>1 DEF MergePR, Merge, GitConsistent
<1>3. \A p \in Paths : main'[p] # {} \/ main[p] = {}
  BY <1>1, <1>2 DEF GitConsistent
<1>4. QED
  BY <1>1, <1>2, <1>3 DEF ListGreen, HasRecord, Present, Paths

\* A step that leaves main, the artifact, and what is in the cluster, and takes
\* no key from those the scripts load that the cluster has, keeps all layers.
LEMMA VaultCareful ==
  ASSUME CarefulInv, GitConsistent', UNCHANGED <<main, cluster, fetched, ready>>,
         Guarded /\ cluster \subseteq Active => cluster \subseteq Active'
  PROVE  CarefulInv'
<1>1. MainUniform' /\ FetchedHeld'
  BY DEF CarefulInv, MainUniform, FetchedHeld, ListGreen, HasRecord, Present
<1>2. MainHeld'
  BY DEF CarefulInv, MainHeld
<1>3. QED
  BY <1>1, <1>2 DEF CarefulInv

\* Every step of the system keeps the careful invariant, each layer with the
\* steps of the procedure it names.
LEMMA NextCareful ==
  ASSUME ClusterTypeOK, CarefulInv, [Next]_vars
  PROVE  CarefulInv'
<1>1. GitConsistent'
  BY SystemStep, NextGit DEF ClusterTypeOK, CarefulInv
<1>2. CASE Repository
  <2>1. UNCHANGED <<main, cluster, fetched, ready>>
    BY <1>2 DEF Repository, clusterVars, UploadKey, RenameBack, gitVars,
                Rotation, StartRotate, SkipFile, RotateFile, AbortRotate, FinishRotate,
                Editing, OpenEdit, OpenNew, OpenEncrypt, SaveSession, DropSession,
                LocalGit, NewBranch, Rollback, Commit, Pull, SwitchToMain
  <2>2. Active \subseteq Active'
    <3>1. UNCHANGED vault \/ \E k \in Keys : UploadKey(k) \/ RenameBack(k)
      BY <1>2 DEF Repository, gitVars,
                  Rotation, StartRotate, SkipFile, RotateFile, AbortRotate, FinishRotate,
                  Editing, OpenEdit, OpenNew, OpenEncrypt, SaveSession, DropSession,
                  LocalGit, NewBranch, Rollback, Commit, Pull, SwitchToMain
    <3>2. QED
      BY <3>1 DEF UploadKey, RenameBack, Active, ClusterTypeOK, TypeOK
  <2>3. QED
    BY <1>1, <2>1, <2>2, VaultCareful
<1>3. ASSUME NEW k \in Keys, MarkRetired(k) PROVE CarefulInv'
  <2>1. UNCHANGED <<main, cluster, fetched, ready>>
    BY <1>3 DEF MarkRetired, RetireKey, clusterVars, gitVars
  <2>2. Guarded => k \notin cluster
    BY <1>3 DEF MarkRetired, Follows, Guarded
  <2>3. Guarded /\ cluster \subseteq Active => cluster \subseteq Active'
    BY <1>3, <2>2 DEF MarkRetired, RetireKey, Active, ClusterTypeOK, TypeOK
  <2>4. QED
    BY <1>1, <2>1, <2>3, VaultCareful
<1>4. ASSUME NEW c \in Checkouts, MergePR(c) PROVE CarefulInv'
  <2>1. UNCHANGED <<vault, cluster, fetched, ready>>
    BY <1>4 DEF MergePR, Merge, clusterVars
  <2>2. Reviewed => ListGreen(main') /\ main'[Config] = head[c][Config]
    BY <1>4, MergeCareful DEF ClusterTypeOK, CarefulInv
  <2>3. MainUniform'
    BY <2>2 DEF MainUniform, ListGreen, HasRecord, Present
  <2>4. Guarded => head[c][Config] \subseteq cluster
    BY <1>4 DEF MergePR, Follows, Guarded
  <2>5. MainHeld'
    BY <2>1, <2>2, <2>4 DEF CarefulInv, MainHeld, Guarded, Active
  <2>6. FetchedHeld'
    BY <2>1 DEF CarefulInv, FetchedHeld, ListGreen, HasRecord, Present
  <2>7. QED
    BY <1>1, <2>3, <2>5, <2>6 DEF CarefulInv
<1>5. ASSUME NEW c \in Checkouts, ApplyAll(c) PROVE CarefulInv'
  <2>1. cluster' = Active /\ UNCHANGED <<vault, main, fetched, ready>>
    BY <1>5 DEF ApplyAll, ApplySecret, repoVars
  <2>2. MainUniform'
    BY <2>1 DEF CarefulInv, MainUniform, ListGreen, HasRecord, Present
  <2>3. MainHeld'
    BY <2>1 DEF CarefulInv, MainHeld, Active
  <2>4. FetchedHeld'
    BY <2>1 DEF CarefulInv, MainHeld, FetchedHeld, Waited, ListGreen, HasRecord, Present
  <2>5. QED
    BY <1>1, <2>2, <2>3, <2>4 DEF CarefulInv
<1>6. ASSUME NEW c \in Checkouts, NEW k \in Keys, Narrow(c, k) PROVE CarefulInv'
  <2>1. cluster' = {k} /\ UNCHANGED <<vault, main, fetched, ready>>
    BY <1>6 DEF Narrow, ApplySecret, repoVars
  <2>2. HasRecord(work[c]) /\ work[c][Config] \subseteq {k}
    BY <1>6 DEF Narrow, ApplySecret
  <2>3. Guarded => work[c][Config] = main[Config]
    <3>1. Guarded => mod[c] = {} /\ ahead[c] = {} /\ behind[c] = {}
      BY <1>6 DEF Narrow, Follows, Guarded
    <3>2. QED
      BY <3>1 DEF CarefulInv, GitConsistent, Paths
  <2>4. Guarded => main[Config] = {k} /\ k \in Active
    BY <2>2, <2>3 DEF HasRecord, CarefulInv, MainHeld
  <2>5. Waited => fetched = main
    BY <1>6 DEF Narrow, Follows, Waited
  <2>6. MainUniform'
    BY <2>1 DEF CarefulInv, MainUniform, ListGreen, HasRecord, Present
  <2>7. MainHeld'
    BY <2>1, <2>4 DEF MainHeld, Active
  <2>8. FetchedHeld'
    BY <2>1, <2>4, <2>5 DEF CarefulInv, FetchedHeld, Waited, ListGreen, HasRecord, Present
  <2>9. QED
    BY <1>1, <2>6, <2>7, <2>8 DEF CarefulInv
<1>7. CASE FluxFetch
  <2>1. fetched' = main /\ UNCHANGED <<vault, main, cluster, ready>>
    BY <1>7 DEF FluxFetch, repoVars
  <2>2. MainUniform' /\ MainHeld'
    BY <2>1 DEF CarefulInv, MainUniform, MainHeld, ListGreen, HasRecord, Present, Active
  <2>3. FetchedHeld'
    BY <2>1 DEF CarefulInv, MainUniform, MainHeld, FetchedHeld, Waited, Guarded,
                ListGreen, HasRecord, Present
  <2>4. QED
    BY <1>1, <2>2, <2>3 DEF CarefulInv
<1>8. CASE FluxReconcile
  <2>1. Waited => Decryptable(fetched)
    BY ReadableWhenGreen DEF CarefulInv, FetchedHeld, Decryptable
  <2>2. UNCHANGED <<vault, main, cluster, fetched>> /\ (Waited => ready')
    BY <1>8, <2>1 DEF FluxReconcile, repoVars
  <2>3. MainUniform' /\ MainHeld'
    BY <2>2 DEF CarefulInv, MainUniform, MainHeld, ListGreen, HasRecord, Present, Active
  <2>4. FetchedHeld'
    BY <2>2 DEF CarefulInv, FetchedHeld, ListGreen, HasRecord, Present
  <2>5. QED
    BY <1>1, <2>3, <2>4 DEF CarefulInv
<1>9. CASE UNCHANGED vars
  <2>1. UNCHANGED <<vault, main, cluster, fetched, ready>>
    BY <1>9 DEF vars, repoVars, clusterVars
  <2>2. QED
    BY <1>1, <2>1, VaultCareful DEF Active
<1>10. QED
  BY <1>2, <1>3, <1>4, <1>5, <1>6, <1>7, <1>8, <1>9 DEF Next, Operator, Flux

\* Every step keeps the types of what is in the cluster.
LEMMA ClusterType ==
  ASSUME ClusterTypeOK, [Next]_vars
  PROVE  ClusterTypeOK'
<1>1. TypeOK'
  BY SystemStep, NextType DEF ClusterTypeOK
<1>2. CASE Repository \/ UNCHANGED vars
  BY <1>1, <1>2 DEF Repository, clusterVars, vars, ClusterTypeOK
<1>3. CASE Operator
  BY <1>1, <1>3 DEF Operator, MarkRetired, MergePR, ApplyAll, Narrow, ApplySecret, clusterVars,
                    Active, ClusterTypeOK
<1>4. CASE Flux
  <2>1. main \in Trees
    BY DEF ClusterTypeOK, TypeOK
  <2>2. QED
    BY <1>1, <1>4, <2>1 DEF Flux, FluxFetch, FluxReconcile, ClusterTypeOK
<1>5. QED
  BY <1>2, <1>3, <1>4 DEF Next

\* Every variable of the system keeps its type, whatever the operator skips.
THEOREM ClusterTypeCorrect == Spec => []ClusterTypeOK
<1>1. Init => ClusterTypeOK
  BY InitType, RepoAssumption DEF Init, ClusterTypeOK, TypeOK
<1>2. ClusterTypeOK /\ [Next]_vars => ClusterTypeOK'
  BY ClusterType
<1>3. QED
  BY <1>1, <1>2, PTL DEF Spec

\* The careful invariant always holds, layer by layer: whatever is not in
\* Procedure is left out by the operator.
THEOREM Careful == Spec => []CarefulInv
<1>1. ClusterTypeOK /\ CarefulInv /\ [Next]_vars => CarefulInv'
  BY NextCareful
<1>2. QED
  BY <1>1, InitCareful, ClusterTypeCorrect, PTL DEF Spec

\* Flux never meets a file the sops-age Secret cannot decrypt, if branches are
\* rebased and `list` is green before a merge, the new key is in the cluster by
\* then, the Secret is narrowed from an up-to-date checkout and only when Flux has
\* applied the revision main is at, and a key is marked retired last.
THEOREM NoOutage == ASSUME Waited PROVE Spec => []NeverStalled
<1>1. CarefulInv => NeverStalled
  BY DEF CarefulInv, FetchedHeld, NeverStalled
<1>2. QED
  BY <1>1, Careful, PTL

\* What the scripts load reads all of main; what Flux has applied does not matter.
THEOREM ToolsReadMain == ASSUME Guarded PROVE Spec => []ToolsCanRead
<1>1. CarefulInv => ListGreen(main) /\ main[Config] \subseteq Active
  BY DEF CarefulInv, MainUniform, MainHeld, Guarded
<1>2. CarefulInv => ToolsCanRead
  BY <1>1, ReadableWhenGreen DEF ToolsCanRead
<1>3. QED
  BY <1>2, Careful, PTL

\* A key that was marked -retired- reads nothing on main, under the same steps.
THEOREM RetirementIsSafe == ASSUME Guarded PROVE Spec => []RetiredReadsNothing
<1>1. CarefulInv => RetiredReadsNothing
  <2> SUFFICES ASSUME CarefulInv, NEW k \in Keys, vault[k] = "retired",
                      NEW f \in Files, k \in main[f]
               PROVE  FALSE
    BY DEF RetiredReadsNothing
  <2>1. ListGreen(main) /\ main[Config] \subseteq Active
    BY DEF CarefulInv, MainUniform, MainHeld, Guarded
  <2>2. QED
    BY <2>1 DEF ListGreen, HasRecord, Present, Active
<1>2. QED
  BY <1>1, Careful, PTL

\* When branches are rebased and `list` is green before each merge, main
\* implements the atomic rotation.
THEOREM MainImplementsAtomicRotation ==
  ASSUME Reviewed PROVE Spec => MainIsAtomic
<1>1. Init => Promise!Init
  <2> SUFFICES ASSUME Init PROVE Promise!Init
    OBVIOUS
  <2>1. PICK present \in SUBSET Files :
          main = [p \in Paths |-> IF p \in present \cup {Config} THEN {InitKey} ELSE {}]
    BY DEF Init, RepoInit
  <2>2. main[Config] = {InitKey} /\ [f \in Files |-> main[f]] = Promise!Uniform(InitKey, present)
    BY <2>1, RepoAssumption DEF Paths, Promise!Uniform
  <2>3. QED
    BY <2>2 DEF Promise!Init
<1>2. ClusterTypeOK /\ CarefulInv /\ [Next]_vars => [Promise!Next]_(Promise!vars)
  <2> SUFFICES ASSUME ClusterTypeOK, CarefulInv, [Next]_vars
               PROVE  [Promise!Next]_(Promise!vars)
    OBVIOUS
  <2>1. CASE main' = main
    BY <2>1 DEF Promise!vars
  <2>2. CASE main' # main
    <3>1. PICK c \in Checkouts : MergePR(c)
      <4>1. ~Repository
        BY <2>2 DEF Repository, UploadKey, RenameBack, gitVars,
                    Rotation, StartRotate, SkipFile, RotateFile, AbortRotate, FinishRotate,
                    Editing, OpenEdit, OpenNew, OpenEncrypt, SaveSession, DropSession,
                    LocalGit, NewBranch, Rollback, Commit, Pull, SwitchToMain
      <4>2. ~Flux /\ ~UNCHANGED vars
        BY <2>2 DEF Flux, FluxFetch, FluxReconcile, vars, repoVars
      <4>3. ASSUME NEW k \in Keys, MarkRetired(k) PROVE FALSE
        BY <2>2, <4>3 DEF MarkRetired, RetireKey, gitVars
      <4>4. ASSUME NEW c \in Checkouts, ApplyAll(c) PROVE FALSE
        BY <2>2, <4>4 DEF ApplyAll, ApplySecret, repoVars
      <4>5. ASSUME NEW c \in Checkouts, NEW k \in Keys, Narrow(c, k) PROVE FALSE
        BY <2>2, <4>5 DEF Narrow, ApplySecret, repoVars
      <4>6. Operator
        BY <4>1, <4>2 DEF Next
      <4>7. QED
        BY <4>3, <4>4, <4>5, <4>6 DEF Operator
    <3>2. /\ ListGreen(main')
          /\ \A f \in Present(main) : f \in Present(main')
      BY <3>1, MergeCareful DEF ClusterTypeOK, CarefulInv
    <3>3. PICK k \in Keys : main'[Config] = {k}
      BY <3>2 DEF ListGreen, HasRecord
    <3>4. [f \in Files |-> main'[f]] = Promise!Uniform(k, Present(main'))
      BY <3>2, <3>3 DEF ListGreen, Present, Promise!Uniform
    <3>5. Promise!Publish(k, Present(main'))
      BY <3>2, <3>3, <3>4 DEF Promise!Publish, Promise!Existing, Present
    <3>6. Present(main') \in SUBSET Files
      BY DEF Present
    <3>7. Promise!Next
      BY <3>5, <3>6 DEF Promise!Next, Promise!Publish
    <3>8. QED
      BY <3>7
  <2>3. QED
    BY <2>1, <2>2
<1>3. QED
  BY <1>1, <1>2, Careful, ClusterTypeCorrect, PTL DEF Spec, MainIsAtomic, Promise!Spec
=============================================================================
