---------------------------- MODULE SecretsRepo ----------------------------
(***************************************************************************)
(* The repository side of the age-key scheme: the age keys attached to the *)
(* 1Password item, the working trees in which scripts/onepassword-         *)
(* secrets.mts and scripts/encrypt-env-files.sh write ciphertext, and the  *)
(* branches that carry it to main.                                         *)
(*                                                                         *)
(* Of a ciphertext only what recipientsOf() reads is kept: the set of age  *)
(* recipients that can decrypt it.  A path that does not exist has the     *)
(* empty set.  .sops.yaml is one more path, Config, whose set is the       *)
(* recipient on its age: line.  An age key and its recipient are the same  *)
(* model value.                                                            *)
(***************************************************************************)
CONSTANTS
  Keys,       \* age key pairs
  Files,      \* paths of *.encrypted files
  Config,     \* the path of .sops.yaml
  Checkouts,  \* clones and worktrees of the repository
  Rotators,   \* the checkouts rotate-age-key is run in
  Editors,    \* the checkouts edit, new and encrypt-env-files.sh are run in
  InitKey,    \* the recipient of record at the start
  NoKey       \* "no rotation is running"

ASSUME RepoAssumption ==
  /\ InitKey \in Keys
  /\ NoKey \notin Keys
  /\ Config \notin Files
  /\ Rotators \subseteq Checkouts
  /\ Editors \subseteq Checkouts

Paths == Files \cup {Config}
Trees == [Paths -> SUBSET Keys]

VARIABLES
  vault,      \* 1Password: Keys -> "none", "active" or "retired" (-retired- in the name)
  main,       \* the tree on origin/main
  head,       \* head[c]: the commit checkout c is on
  work,       \* work[c]: the files on disk in checkout c
  mod,        \* mod[c]: the paths `git status` reports
  ahead,      \* ahead[c]: the paths the branch of c changed and main has not
  behind,     \* behind[c]: the paths main changed since c last took main in
  onMain,     \* onMain[c]: c has the branch main checked out
  rot,        \* rot[c]: --new-recipient of the running rotate-age-key, or NoKey
  rotKeys,    \* rotKeys[c]: the identities that run cached (cachedAgeKeys)
  rotTodo,    \* rotTodo[c]: the files that run has still to visit
  session     \* session[c][f]: recipients an open editor or encrypt will write, {} if none

gitVars == <<main, head, mod, ahead, behind, onMain>>
rotVars == <<rot, rotKeys, rotTodo>>
repoVars == <<vault, main, head, work, mod, ahead, behind, onMain,
              rot, rotKeys, rotTodo, session>>

----------------------------------------------------------------------------
(* What the script reads *)

\* ageKeys(): the attachments whose name does not contain -retired-.
Active == {k \in Keys : vault[k] = "active"}

\* The keys 1Password holds at all.
Stored == {k \in Keys : vault[k] # "none"}

\* discover(): the paths of a tree that have ciphertext.
Present(t) == {f \in Files : t[f] # {}}

\* decryptBytes() and every other sops child: one identity has to fit.
Decrypts(ids, recipients) == recipients \cap ids # {}

\* configuredRecipient(): exactly one age: line, or the command fails.
HasRecord(t) == \E k \in Keys : t[Config] = {k}

\* (Mutant of ListGreen: a gate that would only look at .sops.yaml.)
ListGreenDeclared(t) == HasRecord(t)

\* `list` exits 0: every file names the recipient of record and nobody else.
ListGreen(t) ==
  /\ HasRecord(t)
  /\ \A f \in Present(t) : t[f] = t[Config]

----------------------------------------------------------------------------
(* 1Password, by hand in its UI *)

\* Rotation step 2: a second *.agekey attachment.
UploadKey(k) ==
  /\ vault[k] = "none"
  /\ vault' = [vault EXCEPT ![k] = "active"]
  /\ UNCHANGED <<work, session, gitVars, rotVars>>

\* Rotation step 8 renames the old attachment; renaming it back is its rollback.
RetireKey(k) ==
  /\ vault[k] = "active"
  /\ vault' = [vault EXCEPT ![k] = "retired"]
  /\ UNCHANGED <<work, session, gitVars, rotVars>>

RenameBack(k) ==
  /\ vault[k] = "retired"
  /\ vault' = [vault EXCEPT ![k] = "active"]
  /\ UNCHANGED <<work, session, gitVars, rotVars>>

----------------------------------------------------------------------------
(* rotate-age-key *)

\* (Mutant of StartRotate: without assertKeyIsStored.)
StartRotateUngated(c, new) ==
  /\ c \in Rotators /\ rot[c] = NoKey
  /\ HasRecord(work[c]) /\ work[c][Config] # {new}
  /\ mod[c] = {}
  /\ ~onMain[c]
  /\ rot' = [rot EXCEPT ![c] = new]
  /\ rotKeys' = [rotKeys EXCEPT ![c] = Active]
  /\ rotTodo' = [rotTodo EXCEPT ![c] = Present(work[c])]
  /\ UNCHANGED <<vault, work, session, gitVars>>

\* Every guard of commandRotateAgeKey up to the discovery of its targets; a
\* run that fails one of them exits and has changed nothing.
StartRotate(c, new) ==
  /\ c \in Rotators /\ rot[c] = NoKey
  /\ HasRecord(work[c]) /\ work[c][Config] # {new}
  /\ mod[c] = {}
  /\ ~onMain[c]
  /\ new \in Active
  /\ rot' = [rot EXCEPT ![c] = new]
  /\ rotKeys' = [rotKeys EXCEPT ![c] = Active]
  /\ rotTodo' = [rotTodo EXCEPT ![c] = Present(work[c])]
  /\ UNCHANGED <<vault, work, session, gitVars>>

\* One iteration that finds the file on the new recipient alone.
SkipFile(c, f) ==
  /\ rot[c] # NoKey /\ f \in rotTodo[c]
  /\ work[c][f] \ {rot[c]} = {}
  /\ rotTodo' = [rotTodo EXCEPT ![c] = @ \ {f}]
  /\ UNCHANGED <<vault, work, session, gitVars, rot, rotKeys>>

\* One `sops rotate -i --add-age new --rm-age removing`.  sops decrypts with
\* the identities the run cached when it started.
RotateFile(c, f) ==
  LET removing == work[c][f] \ {rot[c]} IN
  /\ rot[c] # NoKey /\ f \in rotTodo[c]
  /\ removing # {}
  /\ Decrypts(rotKeys[c], work[c][f])
  /\ work' = [work EXCEPT ![c][f] = (@ \cup {rot[c]}) \ removing]
  /\ mod' = [mod EXCEPT ![c] = @ \cup {f}]
  /\ rotTodo' = [rotTodo EXCEPT ![c] = @ \ {f}]
  /\ UNCHANGED <<vault, session, main, head, ahead, behind, onMain, rot, rotKeys>>

\* sops fails on a file, or the run is interrupted between two steps.
AbortRotate(c) ==
  /\ rot[c] # NoKey
  /\ rot' = [rot EXCEPT ![c] = NoKey]
  /\ rotKeys' = [rotKeys EXCEPT ![c] = {}]
  /\ rotTodo' = [rotTodo EXCEPT ![c] = {}]
  /\ UNCHANGED <<vault, work, session, gitVars>>

\* (Mutant of FinishRotate: .sops.yaml is rewritten before the last file.)
FinishRotateEarly(c) ==
  /\ rot[c] # NoKey
  /\ work' = [work EXCEPT ![c][Config] = {rot[c]}]
  /\ mod' = [mod EXCEPT ![c] = @ \cup {Config}]
  /\ rot' = [rot EXCEPT ![c] = NoKey]
  /\ rotKeys' = [rotKeys EXCEPT ![c] = {}]
  /\ rotTodo' = [rotTodo EXCEPT ![c] = {}]
  /\ UNCHANGED <<vault, session, main, head, ahead, behind, onMain>>

\* After the last file the age: line of .sops.yaml is rewritten.
FinishRotate(c) ==
  /\ rot[c] # NoKey
  /\ rotTodo[c] = {}
  /\ work' = [work EXCEPT ![c][Config] = {rot[c]}]
  /\ mod' = [mod EXCEPT ![c] = @ \cup {Config}]
  /\ rot' = [rot EXCEPT ![c] = NoKey]
  /\ rotKeys' = [rotKeys EXCEPT ![c] = {}]
  /\ UNCHANGED <<vault, session, main, head, ahead, behind, onMain, rotTodo>>

----------------------------------------------------------------------------
(* edit, new and encrypt-env-files.sh: the recipients are read when the    *)
(* command starts and written when it ends, with an editor open in between *)

\* edit: sops reads the file, metadata included, before it starts the editor.
OpenEdit(c, f) ==
  /\ c \in Editors /\ session[c][f] = {}
  /\ f \in Present(work[c])
  /\ Decrypts(Active, work[c][f])
  /\ session' = [session EXCEPT ![c][f] = work[c][f]]
  /\ UNCHANGED <<vault, work, gitVars, rotVars>>

\* new: refuses an existing file, then reads .sops.yaml.
OpenNew(c, f) ==
  /\ c \in Editors /\ session[c][f] = {}
  /\ f \notin Present(work[c])
  /\ HasRecord(work[c])
  /\ session' = [session EXCEPT ![c][f] = work[c][Config]]
  /\ UNCHANGED <<vault, work, gitVars, rotVars>>

\* encrypt-env-files.sh: sources _sops_config.include.sh; the target may exist.
OpenEncrypt(c, f) ==
  /\ c \in Editors /\ session[c][f] = {}
  /\ HasRecord(work[c])
  /\ session' = [session EXCEPT ![c][f] = work[c][Config]]
  /\ UNCHANGED <<vault, work, gitVars, rotVars>>

\* The command ends well: its ciphertext replaces the target.
SaveSession(c, f) ==
  /\ session[c][f] # {}
  /\ work' = [work EXCEPT ![c][f] = session[c][f]]
  /\ mod' = [mod EXCEPT ![c] = @ \cup {f}]
  /\ session' = [session EXCEPT ![c][f] = {}]
  /\ UNCHANGED <<vault, main, head, ahead, behind, onMain, rotVars>>

\* The editor exits without a change or with an error: nothing is written.
DropSession(c, f) ==
  /\ session[c][f] # {}
  /\ session' = [session EXCEPT ![c][f] = {}]
  /\ UNCHANGED <<vault, work, gitVars, rotVars>>

----------------------------------------------------------------------------
(* git, run by the operator between two commands *)

NewBranch(c) ==
  /\ onMain[c] /\ rot[c] = NoKey
  /\ onMain' = [onMain EXCEPT ![c] = FALSE]
  /\ UNCHANGED <<vault, work, session, main, head, mod, ahead, behind, rotVars>>

\* `git checkout -- .`, the rollback rotate-age-key prints.  It restores the
\* tracked paths; a file that was never committed stays.
Rollback(c) ==
  LET tracked == {p \in Paths : head[c][p] # {}} IN
  /\ rot[c] = NoKey
  /\ mod[c] \cap tracked # {}
  /\ work' = [work EXCEPT ![c] = [p \in Paths |-> IF p \in tracked THEN head[c][p] ELSE @[p]]]
  /\ mod' = [mod EXCEPT ![c] = @ \ tracked]
  /\ UNCHANGED <<vault, session, main, head, ahead, behind, onMain, rotVars>>

Commit(c) ==
  /\ ~onMain[c] /\ rot[c] = NoKey
  /\ mod[c] # {}
  /\ head' = [head EXCEPT ![c] = work[c]]
  /\ ahead' = [ahead EXCEPT ![c] = @ \cup mod[c]]
  /\ mod' = [mod EXCEPT ![c] = {}]
  /\ UNCHANGED <<vault, work, session, main, behind, onMain, rotVars>>

\* A pull request is merged.  Ciphertext never merges line by line, so a path
\* both sides changed is a conflict and the merge does not happen.
Merge(c) ==
  /\ ~onMain[c]
  /\ ahead[c] # {}
  /\ ahead[c] \cap behind[c] = {}
  /\ main' = [p \in Paths |-> IF p \in ahead[c] THEN head[c][p] ELSE main[p]]
  /\ behind' = [d \in Checkouts |-> IF d = c THEN behind[c] ELSE behind[d] \cup ahead[c]]
  /\ ahead' = [ahead EXCEPT ![c] = {}]
  /\ UNCHANGED <<vault, work, session, head, mod, onMain, rotVars>>

\* The branch takes main in (rebase, or pull when it is main itself).
Pull(c) ==
  LET merged == [p \in Paths |-> IF p \in ahead[c] THEN head[c][p] ELSE main[p]] IN
  /\ rot[c] = NoKey
  /\ mod[c] = {}
  /\ behind[c] # {}
  /\ ahead[c] \cap behind[c] = {}
  /\ head' = [head EXCEPT ![c] = merged]
  /\ work' = [work EXCEPT ![c] = merged]
  /\ behind' = [behind EXCEPT ![c] = {}]
  /\ UNCHANGED <<vault, session, main, mod, ahead, onMain, rotVars>>

\* Back to an up-to-date main; a branch that was not merged is given up.
SwitchToMain(c) ==
  /\ ~onMain[c] /\ rot[c] = NoKey
  /\ mod[c] = {}
  /\ head' = [head EXCEPT ![c] = main]
  /\ work' = [work EXCEPT ![c] = main]
  /\ ahead' = [ahead EXCEPT ![c] = {}]
  /\ behind' = [behind EXCEPT ![c] = {}]
  /\ onMain' = [onMain EXCEPT ![c] = TRUE]
  /\ UNCHANGED <<vault, session, main, mod, rotVars>>

----------------------------------------------------------------------------

\* Every repository in which all present files are on the recipient of record.
RepoInit ==
  /\ vault = [k \in Keys |-> IF k = InitKey THEN "active" ELSE "none"]
  /\ \E present \in SUBSET Files :
       main = [p \in Paths |-> IF p \in present \cup {Config} THEN {InitKey} ELSE {}]
  /\ head = [c \in Checkouts |-> main]
  /\ work = [c \in Checkouts |-> main]
  /\ mod = [c \in Checkouts |-> {}]
  /\ ahead = [c \in Checkouts |-> {}]
  /\ behind = [c \in Checkouts |-> {}]
  /\ onMain = [c \in Checkouts |-> TRUE]
  /\ rot = [c \in Checkouts |-> NoKey]
  /\ rotKeys = [c \in Checkouts |-> {}]
  /\ rotTodo = [c \in Checkouts |-> {}]
  /\ session = [c \in Checkouts |-> [f \in Files |-> {}]]

Rotation(c) ==
  \/ \E k \in Keys : StartRotate(c, k)
  \/ \E f \in Files : SkipFile(c, f) \/ RotateFile(c, f)
  \/ AbortRotate(c)
  \/ FinishRotate(c)

Editing(c) ==
  \E f \in Files :
    \/ OpenEdit(c, f)
    \/ OpenNew(c, f)
    \/ OpenEncrypt(c, f)
    \/ SaveSession(c, f)
    \/ DropSession(c, f)

LocalGit(c) ==
  \/ NewBranch(c)
  \/ Rollback(c)
  \/ Commit(c)
  \/ Pull(c)
  \/ SwitchToMain(c)

RepoNext ==
  \/ \E k \in Keys : UploadKey(k) \/ RetireKey(k) \/ RenameBack(k)
  \/ \E c \in Checkouts : Rotation(c) \/ Editing(c) \/ LocalGit(c) \/ Merge(c)

RepoSpec == RepoInit /\ [][RepoNext]_repoVars

----------------------------------------------------------------------------
(* Properties *)

TypeOK ==
  /\ vault \in [Keys -> {"none", "active", "retired"}]
  /\ main \in Trees
  /\ head \in [Checkouts -> Trees]
  /\ work \in [Checkouts -> Trees]
  /\ mod \in [Checkouts -> SUBSET Paths]
  /\ ahead \in [Checkouts -> SUBSET Paths]
  /\ behind \in [Checkouts -> SUBSET Paths]
  /\ onMain \in [Checkouts -> BOOLEAN]
  /\ rot \in [Checkouts -> Keys \cup {NoKey}]
  /\ rotKeys \in [Checkouts -> SUBSET Keys]
  /\ rotTodo \in [Checkouts -> SUBSET Files]
  /\ session \in [Checkouts -> [Files -> SUBSET Keys]]

\* No ciphertext, committed, on disk or about to be written, names a recipient
\* whose private key 1Password does not hold: what assertKeyIsStored() is for
\* ("the gate that keeps ciphertext from ever being moved to a key that exists
\* in only one place"), across interrupted runs, stale branches and open editors.
CiphertextKeyStored ==
  /\ \A p \in Paths : main[p] \subseteq Stored
  /\ \A c \in Checkouts, p \in Paths : head[c][p] \cup work[c][p] \subseteq Stored
  /\ \A c \in Checkouts, f \in Files : session[c][f] \subseteq Stored

\* rotate-age-key declares the new recipient in .sops.yaml only when every file
\* of the checkout is on it, and on it alone: a run that stops early leaves the
\* old declaration.  (For a checkout nobody edits in: a file saved from an editor
\* that was opened before its rotation is back on the old recipient.)
DeclaredAfterRotated ==
  [][\A c \in Checkouts \ Editors :
       rot[c] # NoKey /\ work'[c][Config] # work[c][Config]
         => \A f \in Present(work[c]) : work[c][f] = {rot[c]}]_repoVars
============================================================================
