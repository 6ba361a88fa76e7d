------------------------- MODULE PlaintextMigration -------------------------
(***************************************************************************)
(* push, pull and migrate --verify of scripts/onepassword-secrets.mts: how *)
(* the plaintext of the secrets moves between a checkout, 1Password and    *)
(* the ciphertext in git, until git alone holds it.                        *)
(*                                                                         *)
(* A content is what its hashes tell apart: its text and whether it has    *)
(* blank lines.  A ciphertext is the content it decrypts to.  Files are    *)
(* the secrets of one group; its 1Password item exists, and `op item edit` *)
(* replaces an attachment in place (docs/specs/onepassword-secret-backup/  *)
(* summary.md:49).                                                         *)
(***************************************************************************)
CONSTANTS
  Files,
  Dotenv,     \* the files sops encrypts as dotenv
  Texts,
  Drafts,     \* Drafts[f]: the contents people write into f
  Checkouts,
  Care,       \* what the operator sees to
  None

Precautions == {
  "alone",    \* one command at a time
  "commit",   \* verify is run on a tree that is what git holds
  "whole",    \* verify is run without --only
  "freeze"}   \* no secret is changed from a verify on, until one is not clean

Contents == [text : Texts, blanks : BOOLEAN]

ASSUME MigrationAssumption ==
  /\ Dotenv \subseteq Files
  /\ Drafts \in [Files -> SUBSET Contents]
  /\ Care \subseteq Precautions
  /\ None \notin Contents

VARIABLES
  local,      \* local[m][f]: the plaintext on disk
  tree,       \* tree[m][f]: the *.encrypted file on disk
  git,        \* git[f]: the *.encrypted file on main
  vault,      \* vault[f]: the attachment
  pc,         \* pc[m]: what the command run in m does next
  opt,        \* opt[m]: --delete-after-push, or --force
  todo,       \* todo[m]: the files its loop has still to visit
  plain,      \* plain[m]: the files discover() found plaintext of
  hash,       \* hash[m][f]: localHash
  send,       \* send[m]: the files classified "new" or "changed"
  cur,        \* cur[m]: the file it is about to unlink or to write
  staged,     \* staged[m]: what pull has read for that file
  bad,        \* bad[m]: rows that are MISMATCH or 1PASSWORD ONLY
  late,       \* late[m]: history; the file was saved since push last hashed it
  report      \* report[m]: how the last migrate --verify exited

command == <<opt, plain, hash, send, cur, staged, bad, late>>
stores == <<local, tree, git, vault>>
vars == <<local, tree, git, vault, pc, opt, todo, plain, hash, send, cur,
          staged, bad, late, report>>

With(step) == step \in Care

\* A dotenv ciphertext gives the blank lines up.
RoundTrip(f, c) == IF f \in Dotenv THEN [c EXCEPT !.blanks = FALSE] ELSE c

\* The two hashes of the files agree, the second with blank lines stripped.
SameText(c, d) == c # None /\ d # None /\ c.text = d.text

MayStart(m) ==
  /\ pc[m] = "idle"
  /\ With("alone") => \A n \in Checkouts : pc[n] = "idle"

Frozen ==
  /\ With("freeze")
  /\ \E m \in Checkouts : pc[m] = "verify" \/ report[m] = "clean"

\* The command is over, and so is what it had in memory.
Exit(m) ==
  /\ pc' = [pc EXCEPT ![m] = "idle"]
  /\ opt' = [opt EXCEPT ![m] = FALSE]
  /\ todo' = [todo EXCEPT ![m] = {}]
  /\ plain' = [plain EXCEPT ![m] = {}]
  /\ hash' = [hash EXCEPT ![m] = [f \in Files |-> None]]
  /\ send' = [send EXCEPT ![m] = {}]
  /\ cur' = [cur EXCEPT ![m] = None]
  /\ staged' = [staged EXCEPT ![m] = None]
  /\ bad' = [bad EXCEPT ![m] = {}]
  /\ late' = [late EXCEPT ![m] = FALSE]

----------------------------------------------------------------------------
(* push *)

\* discover(): every file with a ciphertext or a plaintext.
StartPush(m, delete) ==
  /\ MayStart(m) /\ ~Frozen
  /\ pc' = [pc EXCEPT ![m] = "classify"]
  /\ opt' = [opt EXCEPT ![m] = delete]
  /\ plain' = [plain EXCEPT ![m] = {f \in Files : local[m][f] # None}]
  /\ todo' = [todo EXCEPT ![m] = {f \in Files : local[m][f] # None \/ tree[m][f] # None}]
  /\ send' = [send EXCEPT ![m] = {}]
  /\ UNCHANGED <<stores, hash, cur, staged, bad, late, report>>

\* The plaintext that classify() hashes.
Source(m, f) == IF f \in plain[m] THEN local[m][f] ELSE tree[m][f]

\* (Mutant of Unchanged: the raw hashes only, as before the blank-line fix.)
UnchangedRaw(m, f) == vault[f] = Source(m, f)

\* Blank lines are ignored only for what came out of a dotenv ciphertext.
Unchanged(m, f) ==
  \/ vault[f] = Source(m, f)
  \/ f \notin plain[m] /\ f \in Dotenv /\ SameText(vault[f], Source(m, f))

Classify(m, f) ==
  /\ pc[m] = "classify" /\ f \in todo[m]
  /\ Source(m, f) # None
  /\ hash' = [hash EXCEPT ![m][f] = Source(m, f)]
  /\ send' = [send EXCEPT ![m] = IF Unchanged(m, f) THEN @ ELSE @ \cup {f}]
  /\ todo' = [todo EXCEPT ![m] = @ \ {f}]
  /\ UNCHANGED <<stores, pc, opt, plain, cur, staged, bad, late, report>>

EndClassify(m) ==
  /\ pc[m] = "classify" /\ todo[m] = {}
  /\ pc' = [pc EXCEPT ![m] = "upload"]
  /\ UNCHANGED <<stores, todo, command, report>>

\* attachFile(): op reads the plaintext anew, or the temporary decrypted copy.
Upload(m, f) ==
  LET source == IF f \in plain[m] THEN local[m][f] ELSE hash[m][f] IN
  /\ pc[m] = "upload" /\ f \in send[m]
  /\ source # None
  /\ vault' = [vault EXCEPT ![f] = source]
  /\ send' = [send EXCEPT ![m] = @ \ {f}]
  /\ UNCHANGED <<local, tree, git, pc, opt, todo, plain, hash, cur, staged, bad, late, report>>

EndUpload(m) ==
  /\ pc[m] = "upload" /\ send[m] = {}
  /\ \/ opt[m]
        /\ pc' = [pc EXCEPT ![m] = "delete"]
        /\ todo' = [todo EXCEPT ![m] = plain[m]]
        /\ UNCHANGED command
     \/ ~opt[m] /\ Exit(m)
  /\ UNCHANGED <<stores, report>>

\* (Mutant of ReadBack: the blank-line tolerance decides a delete.)
ReadBackNormalized(m, f) ==
  /\ pc[m] = "delete" /\ f \in todo[m]
  /\ vault[f] # None
  /\ todo' = [todo EXCEPT ![m] = @ \ {f}]
  /\ \/ /\ SameText(vault[f], hash[m][f])
        /\ cur' = [cur EXCEPT ![m] = f]
        /\ pc' = [pc EXCEPT ![m] = "rehash"]
     \/ ~SameText(vault[f], hash[m][f]) /\ UNCHANGED <<cur, pc>>
  /\ UNCHANGED <<stores, opt, plain, hash, send, staged, bad, late, report>>

\* The attachment is read back; a raw hash that differs keeps the plaintext.
ReadBack(m, f) ==
  /\ pc[m] = "delete" /\ f \in todo[m]
  /\ vault[f] # None
  /\ todo' = [todo EXCEPT ![m] = @ \ {f}]
  /\ \/ /\ vault[f] = hash[m][f]
        /\ cur' = [cur EXCEPT ![m] = f]
        /\ pc' = [pc EXCEPT ![m] = "rehash"]
     \/ vault[f] # hash[m][f] /\ UNCHANGED <<cur, pc>>
  /\ UNCHANGED <<stores, opt, plain, hash, send, staged, bad, late, report>>

\* (Mutant of Rehash: the hash from classify() is trusted.)
RehashSkipped(m) ==
  /\ pc[m] = "rehash"
  /\ pc' = [pc EXCEPT ![m] = "unlink"]
  /\ late' = [late EXCEPT ![m] = FALSE]
  /\ UNCHANGED <<stores, todo, opt, plain, hash, send, cur, staged, bad, report>>

\* The plaintext is hashed once more; one that changed is kept.
Rehash(m) ==
  /\ pc[m] = "rehash"
  /\ local[m][cur[m]] # None
  /\ pc' = [pc EXCEPT ![m] = IF local[m][cur[m]] = hash[m][cur[m]] THEN "unlink" ELSE "delete"]
  /\ late' = [late EXCEPT ![m] = FALSE]
  /\ UNCHANGED <<stores, todo, opt, plain, hash, send, cur, staged, bad, report>>

\* unlinkSync, whatever the path holds by now.
DeleteLocal(m) ==
  /\ pc[m] = "unlink"
  /\ local[m][cur[m]] # None
  /\ local' = [local EXCEPT ![m][cur[m]] = None]
  /\ pc' = [pc EXCEPT ![m] = "delete"]
  /\ late' = [late EXCEPT ![m] = FALSE]
  /\ UNCHANGED <<tree, git, vault, todo, opt, plain, hash, send, cur, staged, bad, report>>

EndDelete(m) ==
  /\ pc[m] = "delete" /\ todo[m] = {}
  /\ Exit(m)
  /\ UNCHANGED <<stores, report>>

----------------------------------------------------------------------------
(* pull *)

StartPull(m, force) ==
  /\ MayStart(m)
  /\ pc' = [pc EXCEPT ![m] = "pull"]
  /\ opt' = [opt EXCEPT ![m] = force]
  /\ todo' = [todo EXCEPT ![m] = {f \in Files : vault[f] # None}]
  /\ UNCHANGED <<stores, plain, hash, send, cur, staged, bad, late, report>>

\* (Mutant of PullRead: the exit status of `op read` is not looked at.)
PullReadUnchecked(m, f) ==
  /\ pc[m] = "pull" /\ f \in todo[m]
  /\ todo' = [todo EXCEPT ![m] = @ \ {f}]
  /\ \/ local[m][f] # None /\ ~opt[m] /\ UNCHANGED <<pc, cur, staged>>
     \/ /\ local[m][f] = None \/ opt[m]
        /\ staged' = [staged EXCEPT ![m] = vault[f]]
        /\ cur' = [cur EXCEPT ![m] = f]
        /\ pc' = [pc EXCEPT ![m] = "copy"]
  /\ UNCHANGED <<stores, opt, plain, hash, send, bad, late, report>>

\* One attachment: skipped if the file exists, else read into the staging file.
PullRead(m, f) ==
  /\ pc[m] = "pull" /\ f \in todo[m]
  /\ todo' = [todo EXCEPT ![m] = @ \ {f}]
  /\ \/ local[m][f] # None /\ ~opt[m] /\ UNCHANGED <<pc, cur, staged>>
     \/ /\ local[m][f] = None \/ opt[m]
        /\ vault[f] # None
        /\ staged' = [staged EXCEPT ![m] = vault[f]]
        /\ cur' = [cur EXCEPT ![m] = f]
        /\ pc' = [pc EXCEPT ![m] = "copy"]
  /\ UNCHANGED <<stores, opt, plain, hash, send, bad, late, report>>

PullCopy(m) ==
  /\ pc[m] = "copy"
  /\ local' = [local EXCEPT ![m][cur[m]] = staged[m]]
  /\ pc' = [pc EXCEPT ![m] = "pull"]
  /\ UNCHANGED <<tree, git, vault, todo, command, report>>

EndPull(m) ==
  /\ pc[m] = "pull" /\ todo[m] = {}
  /\ Exit(m)
  /\ UNCHANGED <<stores, report>>

----------------------------------------------------------------------------
(* migrate --verify *)

StartVerify(m, only) ==
  /\ MayStart(m)
  /\ With("whole") => only = Files
  /\ With("commit") => tree[m] = git
  /\ pc' = [pc EXCEPT ![m] = "verify"]
  /\ todo' = [todo EXCEPT ![m] = {f \in only : vault[f] # None}]
  /\ bad' = [bad EXCEPT ![m] = {}]
  /\ report' = [report EXCEPT ![m] = "none"]
  /\ UNCHANGED <<stores, opt, plain, hash, send, cur, staged, late>>

\* (Mutant of Reproducible: a ciphertext is enough, whatever it decrypts to.)
ReproducibleIfThere(f, attached, decrypted) == decrypted # None

\* "match" or "match (blank lines only)".
Reproducible(f, attached, decrypted) ==
  \/ attached = decrypted
  \/ f \in Dotenv /\ SameText(attached, decrypted)

VerifyRow(m, f) ==
  /\ pc[m] = "verify" /\ f \in todo[m]
  /\ vault[f] # None
  /\ todo' = [todo EXCEPT ![m] = @ \ {f}]
  /\ bad' = [bad EXCEPT ![m] = IF Reproducible(f, vault[f], tree[m][f]) THEN @ ELSE @ \cup {f}]
  /\ UNCHANGED <<stores, pc, opt, plain, hash, send, cur, staged, late, report>>

EndVerify(m) ==
  /\ pc[m] = "verify" /\ todo[m] = {}
  /\ report' = [report EXCEPT ![m] = IF bad[m] = {} THEN "clean" ELSE "dirty"]
  /\ Exit(m)
  /\ UNCHANGED stores

----------------------------------------------------------------------------

\* op, sops or the file system fails, or Ctrl-C: main()'s finally and the exit.
Abort(m) ==
  /\ pc[m] # "idle"
  /\ Exit(m)
  /\ UNCHANGED <<stores, report>>

\* An editor, or rm, on the plaintext.
EditPlaintext(m, f, c) ==
  /\ local' = [local EXCEPT ![m][f] = c]
  /\ late' = [late EXCEPT ![m] = @ \/ (pc[m] = "unlink" /\ f = cur[m])]
  /\ UNCHANGED <<tree, git, vault, pc, todo, opt, plain, hash, send, cur, staged, bad, report>>

\* edit, new or encrypt-env-files.sh.
EditCiphertext(m, f, c) ==
  /\ ~Frozen
  /\ tree' = [tree EXCEPT ![m][f] = RoundTrip(f, c)]
  /\ UNCHANGED <<local, git, vault, pc, todo, command, report>>

\* The checkout's ciphertext is committed and merged, or taken from main.
Publish(m) ==
  /\ ~Frozen
  /\ git' = tree[m]
  /\ UNCHANGED <<local, tree, vault, pc, todo, command, report>>

TakeMain(m) ==
  /\ ~Frozen
  /\ tree' = [tree EXCEPT ![m] = git]
  /\ UNCHANGED <<local, git, vault, pc, todo, command, report>>

\* By hand in the 1Password UI, once a report is clean.
DeleteAttachment(f) ==
  /\ \E m \in Checkouts : report[m] = "clean"
  /\ vault[f] # None
  /\ vault' = [vault EXCEPT ![f] = None]
  /\ UNCHANGED <<local, tree, git, pc, todo, command, report>>

Init ==
  /\ local = [m \in Checkouts |-> [f \in Files |-> None]]
  /\ tree = [m \in Checkouts |-> [f \in Files |-> None]]
  /\ git = [f \in Files |-> None]
  /\ vault = [f \in Files |-> None]
  /\ pc = [m \in Checkouts |-> "idle"]
  /\ opt = [m \in Checkouts |-> FALSE]
  /\ todo = [m \in Checkouts |-> {}]
  /\ plain = [m \in Checkouts |-> {}]
  /\ hash = [m \in Checkouts |-> [f \in Files |-> None]]
  /\ send = [m \in Checkouts |-> {}]
  /\ cur = [m \in Checkouts |-> None]
  /\ staged = [m \in Checkouts |-> None]
  /\ bad = [m \in Checkouts |-> {}]
  /\ late = [m \in Checkouts |-> FALSE]
  /\ report = [m \in Checkouts |-> "none"]

Push(m) ==
  \/ \E delete \in BOOLEAN : StartPush(m, delete)
  \/ \E f \in Files : Classify(m, f) \/ Upload(m, f) \/ ReadBack(m, f)
  \/ EndClassify(m) \/ EndUpload(m) \/ Rehash(m) \/ DeleteLocal(m) \/ EndDelete(m)

Pull(m) ==
  \/ \E force \in BOOLEAN : StartPull(m, force)
  \/ \E f \in Files : PullRead(m, f)
  \/ PullCopy(m) \/ EndPull(m)

Verify(m) ==
  \/ \E only \in SUBSET Files : StartVerify(m, only)
  \/ \E f \in Files : VerifyRow(m, f)
  \/ EndVerify(m)

Operator(m) ==
  \/ \E f \in Files : \E c \in Drafts[f] \cup {None} : EditPlaintext(m, f, c)
  \/ \E f \in Files : \E c \in Drafts[f] : EditCiphertext(m, f, c)
  \/ Publish(m) \/ TakeMain(m)

Next ==
  \/ \E m \in Checkouts : Push(m) \/ Pull(m) \/ Verify(m) \/ Abort(m) \/ Operator(m)
  \/ \E f \in Files : DeleteAttachment(f)

Spec == Init /\ [][Next]_vars

----------------------------------------------------------------------------
(* Properties *)

TypeOK ==
  /\ local \in [Checkouts -> [Files -> Contents \cup {None}]]
  /\ tree \in [Checkouts -> [Files -> Contents \cup {None}]]
  /\ git \in [Files -> Contents \cup {None}]
  /\ vault \in [Files -> Contents \cup {None}]
  /\ pc \in [Checkouts -> {"idle", "classify", "upload", "delete", "rehash", "unlink",
                           "pull", "copy", "verify"}]
  /\ opt \in [Checkouts -> BOOLEAN]
  /\ todo \in [Checkouts -> SUBSET Files]
  /\ plain \in [Checkouts -> SUBSET Files]
  /\ hash \in [Checkouts -> [Files -> Contents \cup {None}]]
  /\ send \in [Checkouts -> SUBSET Files]
  /\ cur \in [Checkouts -> Files \cup {None}]
  /\ staged \in [Checkouts -> Contents \cup {None}]
  /\ bad \in [Checkouts -> SUBSET Files]
  /\ late \in [Checkouts -> BOOLEAN]
  /\ report \in [Checkouts -> {"none", "clean", "dirty"}]
  /\ \A m \in Checkouts :
       /\ pc[m] \in {"rehash", "unlink", "copy"} => cur[m] \in Files
       /\ pc[m] = "copy" => staged[m] # None

\* "Only on proof the upload survived": when push unlinks a plaintext, the
\* attachment has the same bytes, blank lines included, whatever the operator
\* saved into the file until push hashed it for the last time.  What is saved
\* between that hash and the unlink, two calls in a row, is lost.
DeletedIsHeld ==
  [][\A m \in Checkouts :
       pc[m] = "unlink" /\ pc'[m] = "delete" /\ ~late[m]
         => vault[cur[m]] = local[m][cur[m]]]_vars

\* "Each push overwrote the pristine stored original with the normalized
\* reconstruction" is over: a dotenv attachment is replaced by one with the same
\* text only from a plaintext on disk that differs in its blank lines.
PristineKept ==
  [][\A f \in Dotenv :
       SameText(vault[f], vault'[f]) /\ vault'[f] # vault[f]
         => \E m \in Checkouts : local[m][f] = vault'[f]]_vars

\* "Clean: every attachment other than the age key is reproducible from git":
\* from a migrate --verify that exits 0 on, until the next one, the text of
\* every attachment is on main.
CleanIsTrue ==
  \A m \in Checkouts : report[m] = "clean" =>
    \A f \in Files : vault[f] # None => SameText(vault[f], git[f])
=============================================================================
