-------------------------- MODULE RegistryPasswords --------------------------
(***************************************************************************)
(* The passwords of the zot registry: create-zot-htpasswd.sh makes them,   *)
(* encrypts the bcrypt hashes for Flux and the passwords for git, and runs *)
(* sync-actions-secrets.mts, which sets them as GitHub Actions secrets.    *)
(*                                                                         *)
(* Both accounts rotate together, so a pair of passwords is a number, in   *)
(* the order they are made; 0 is no password at all.                       *)
(***************************************************************************)
EXTENDS Naturals, FiniteSets

CONSTANTS
  Checkouts,    \* working trees of the repository
  Uses,         \* actions-secrets.json: tuples <<secret, repository, app>>
  LastPair,     \* bound: pairs that are made
  Care,         \* the precautions the operator takes, a subset of Precautions
  NoName        \* no secret is being set

(***************************************************************************)
(* both     both encrypted files are committed ("committing only the       *)
(*          hashes leaves the old passwords in git")                       *)
(* settled  they are committed after a run that ended with exit 0          *)
(* fresh    the scripts run in a checkout that is up to date with main     *)
(* newest   passwords are reused if none newer than them are committed     *)
(* alone    the scripts run while no other checkout has anything to commit *)
(***************************************************************************)
Precautions == {"both", "settled", "fresh", "newest", "alone"}

Names == {u[1] : u \in Uses}
Repos == {u[2] : u \in Uses}
Files == {"passwords", "hashes"}   \* the two .encrypted files
Pairs == 0 .. LastPair

ASSUME RegistryAssumption ==
  /\ IsFiniteSet(Uses) /\ Uses # {}
  /\ LastPair \in Nat \ {0}
  /\ Care \subseteq Precautions
  /\ NoName \notin Names

VARIABLES
  made,       \* the newest pair
  plain,      \* .env.secret.zot-passwords of each checkout, which git ignores
  tree,       \* the two encrypted files of each checkout
  base,       \* what the checkout last pulled or pushed of them
  main,       \* the two files on main
  zot,        \* the hashes the registry checks logins against
  github,     \* the value of each Actions secret
  pc,         \* per checkout, what runs: "idle", "hashes", "passwords" or "sync"
  creating,   \* whether the sync runs inside create-zot-htpasswd.sh
  stale,      \* the encrypted files this run is to write
  picked,     \* the uses this run is to set
  todo,       \* those it has not set yet
  name,       \* the secret whose uses it sets, and its value
  value,
  failures,   \* whether a push has failed
  ended       \* whether the last run of create-zot-htpasswd.sh ended with exit 0

git == <<base, main>>
run == <<creating, stale, picked, todo, name, value, failures>>
vars == <<made, plain, tree, git, zot, github, pc, run, ended>>

Takes(p) == p \in Care
Dirty(c) == tree[c] # base[c]

MayRun(c) ==
  /\ pc[c] = "idle"
  /\ Takes("fresh") => base[c] = main
  /\ Takes("alone") => \A d \in Checkouts \ {c} : pc[d] = "idle" /\ ~Dirty(d)

----------------------------------------------------------------------------
(* create-zot-htpasswd.sh *)

Begin(c, files) ==
  /\ pc' = [pc EXCEPT ![c] = "hashes"]
  /\ creating' = [creating EXCEPT ![c] = TRUE]
  /\ stale' = [stale EXCEPT ![c] = files]
  /\ ended' = [ended EXCEPT ![c] = FALSE]
  /\ UNCHANGED <<tree, git, zot, github, picked, todo, name, value, failures>>

\* (Mutant of StartRotate: the plaintext is listed among the files to encrypt.)
StartRotateAllFiles(c) ==
  /\ MayRun(c)
  /\ made < LastPair
  /\ made' = made + 1
  /\ plain' = [plain EXCEPT ![c] = made + 1]
  /\ Begin(c, Files \cup {"plaintext"})

\* "rotate": new passwords replace the plaintext before anything else.
StartRotate(c) ==
  /\ MayRun(c)
  /\ made < LastPair
  /\ made' = made + 1
  /\ plain' = [plain EXCEPT ![c] = made + 1]
  /\ Begin(c, Files)

\* (Mutant of OutOfDate: the hashes stand for both files.)
OutOfDateHashes(c) == IF tree[c]["hashes"] = plain[c] THEN {} ELSE Files

\* The files whose committed ciphertext does not decrypt to the passwords.
OutOfDate(c) == {f \in Files : tree[c][f] # plain[c]}

\* "reuse": a file that already holds the passwords is not rewritten.
StartReuse(c) ==
  /\ MayRun(c)
  /\ plain[c] # 0
  /\ Takes("newest") => \A f \in Files : main[f] <= plain[c]
  /\ UNCHANGED <<made, plain>>
  /\ Begin(c, OutOfDate(c))

Done(c) ==
  /\ pc' = [pc EXCEPT ![c] = "idle"]
  /\ creating' = [creating EXCEPT ![c] = FALSE]
  /\ stale' = [stale EXCEPT ![c] = {}]
  /\ picked' = [picked EXCEPT ![c] = {}]
  /\ todo' = [todo EXCEPT ![c] = {}]
  /\ name' = [name EXCEPT ![c] = NoName]
  /\ value' = [value EXCEPT ![c] = 0]
  /\ failures' = [failures EXCEPT ![c] = FALSE]

\* sops writes through a redirection: when it fails the file is already empty.
WriteHashes(c) ==
  /\ pc[c] = "hashes"
  /\ IF "hashes" \in stale[c]
       THEN tree' = [tree EXCEPT ![c]["hashes"] = plain[c]]
       ELSE UNCHANGED tree
  /\ pc' = [pc EXCEPT ![c] = "passwords"]
  /\ UNCHANGED <<made, plain, git, zot, github, run, ended>>

HashesFail(c) ==
  /\ pc[c] = "hashes"
  /\ "hashes" \in stale[c]
  /\ tree' = [tree EXCEPT ![c]["hashes"] = 0]
  /\ Done(c)
  /\ UNCHANGED <<made, plain, git, zot, github, ended>>

\* encrypt-env-files.sh moves a finished ciphertext into place; the sync of every
\* use follows.
WritePasswords(c) ==
  /\ pc[c] = "passwords"
  /\ IF "passwords" \in stale[c]
       THEN tree' = [tree EXCEPT ![c]["passwords"] = plain[c]]
       ELSE UNCHANGED tree
  /\ pc' = [pc EXCEPT ![c] = "sync"]
  /\ picked' = [picked EXCEPT ![c] = Uses]
  /\ todo' = [todo EXCEPT ![c] = Uses]
  /\ UNCHANGED <<made, plain, git, zot, github, creating, stale, name, value, failures, ended>>

----------------------------------------------------------------------------
(* sync-actions-secrets.mts *)

\* --secret and --repo select uses.
Selections ==
  {{u \in Uses : u[1] \in ns /\ u[2] \in rs} :
     ns \in {Names} \cup {{n} : n \in Names},
     rs \in {Repos} \cup {{r} : r \in Repos}} \ {{}}

\* Run by hand.
StartSync(c, uses) ==
  /\ MayRun(c)
  /\ pc' = [pc EXCEPT ![c] = "sync"]
  /\ picked' = [picked EXCEPT ![c] = uses]
  /\ todo' = [todo EXCEPT ![c] = uses]
  /\ UNCHANGED <<made, plain, tree, git, zot, github, creating, stale, name, value, failures, ended>>

Pending(c, n) == {u \in todo[c] : u[1] = n}

\* (Mutant of Current: what git has is read instead of what has just been written.)
CurrentInGit(c) == base[c]["passwords"]

\* `onepassword-secrets.mts show` of the file in this checkout.
Current(c) == tree[c]["passwords"]

\* readValue(), once per secret.
ReadValue(c, n) ==
  /\ pc[c] = "sync" /\ name[c] = NoName
  /\ Pending(c, n) # {}
  /\ Current(c) # 0
  /\ name' = [name EXCEPT ![c] = n]
  /\ value' = [value EXCEPT ![c] = Current(c)]
  /\ UNCHANGED <<made, plain, tree, git, zot, github, pc, creating, stale, picked, todo, failures, ended>>

\* The loop goes on to the next use, and after the last one to the next secret.
Advance(c, u) ==
  /\ todo' = [todo EXCEPT ![c] = @ \ {u}]
  /\ IF Pending(c, name[c]) = {u}
       THEN name' = [name EXCEPT ![c] = NoName] /\ value' = [value EXCEPT ![c] = 0]
       ELSE UNCHANGED <<name, value>>
  /\ UNCHANGED <<made, plain, tree, git, zot, pc, creating, stale, picked, ended>>

\* gh secret set.
SetSecret(c, u) ==
  /\ pc[c] = "sync" /\ name[c] = u[1] /\ u \in todo[c]
  /\ github' = [github EXCEPT ![u] = value[c]]
  /\ UNCHANGED failures
  /\ Advance(c, u)

\* (Mutant of SetFails: the failure is printed and not counted.)
SetFailsUncounted(c, u) ==
  /\ pc[c] = "sync" /\ name[c] = u[1] /\ u \in todo[c]
  /\ UNCHANGED <<github, failures>>
  /\ Advance(c, u)

\* gh fails; the secret may have been set all the same.
SetFails(c, u) ==
  /\ pc[c] = "sync" /\ name[c] = u[1] /\ u \in todo[c]
  /\ github' \in {github, [github EXCEPT ![u] = value[c]]}
  /\ failures' = [failures EXCEPT ![c] = TRUE]
  /\ Advance(c, u)

Exits0(c) == pc[c] = "sync" /\ todo[c] = {} /\ ~failures[c]

\* Exit 0 of the sync, and of create-zot-htpasswd.sh if that has started it.
Succeed(c) ==
  /\ Exits0(c)
  /\ ended' = [ended EXCEPT ![c] = @ \/ creating[c]]
  /\ Done(c)
  /\ UNCHANGED <<made, plain, tree, git, zot, github>>

\* Exit 1: pushes have failed, a value cannot be read, or the run is interrupted.
Fail(c) ==
  /\ pc[c] # "idle"
  /\ Done(c)
  /\ UNCHANGED <<made, plain, tree, git, zot, github, ended>>

----------------------------------------------------------------------------
(* git and Flux *)

Changed(c) == {f \in Files : tree[c][f] # base[c][f]}

\* What a pull leaves in the checkout: it refuses a file changed on both sides.
Pulled(c) == [f \in Files |-> IF f \in Changed(c) THEN tree[c][f] ELSE main[f]]
Pullable(c) == \A f \in Changed(c) : main[f] = base[c][f]

\* git add, commit and push of some of the two files.
Publish(c, files) ==
  /\ pc[c] = "idle" /\ Pullable(c)
  /\ files # {}
  /\ Takes("both") => files = Changed(c)
  /\ Takes("settled") => ended[c]
  /\ main' = [f \in Files |-> IF f \in files THEN tree[c][f] ELSE main[f]]
  /\ base' = [base EXCEPT ![c] = main']
  /\ tree' = [tree EXCEPT ![c] = Pulled(c)]
  /\ UNCHANGED <<made, plain, zot, github, pc, run, ended>>

Pull(c) ==
  /\ pc[c] = "idle" /\ Pullable(c)
  /\ base[c] # main
  /\ base' = [base EXCEPT ![c] = main]
  /\ tree' = [tree EXCEPT ![c] = Pulled(c)]
  /\ UNCHANGED <<made, plain, main, zot, github, pc, run, ended>>

\* git checkout of what was written.
Discard(c) ==
  /\ pc[c] = "idle" /\ Dirty(c)
  /\ tree' = [tree EXCEPT ![c] = base[c]]
  /\ UNCHANGED <<made, plain, git, zot, github, pc, run, ended>>

\* The Secret zot-htpasswd keeps its name, and the registry reads it anew.
FluxApply ==
  /\ zot # main["hashes"]
  /\ zot' = main["hashes"]
  /\ UNCHANGED <<made, plain, tree, git, github, pc, run, ended>>

----------------------------------------------------------------------------

\* One pair is deployed; its plaintext is left in some checkouts.
Init ==
  /\ made = 1
  /\ plain \in [Checkouts -> {0, 1}]
  /\ main = [f \in Files |-> 1]
  /\ tree = [c \in Checkouts |-> main]
  /\ base = [c \in Checkouts |-> main]
  /\ zot = 1
  /\ github = [u \in Uses |-> 1]
  /\ pc = [c \in Checkouts |-> "idle"]
  /\ creating = [c \in Checkouts |-> FALSE]
  /\ stale = [c \in Checkouts |-> {}]
  /\ picked = [c \in Checkouts |-> {}]
  /\ todo = [c \in Checkouts |-> {}]
  /\ name = [c \in Checkouts |-> NoName]
  /\ value = [c \in Checkouts |-> 0]
  /\ failures = [c \in Checkouts |-> FALSE]
  /\ ended = [c \in Checkouts |-> FALSE]

Create(c) ==
  \/ StartRotate(c)
  \/ StartReuse(c)
  \/ WriteHashes(c)
  \/ HashesFail(c)
  \/ WritePasswords(c)

Sync(c) ==
  \/ \E uses \in Selections : StartSync(c, uses)
  \/ \E n \in Names : ReadValue(c, n)
  \/ \E u \in Uses : SetSecret(c, u) \/ SetFails(c, u)
  \/ Succeed(c)

Git(c) ==
  \/ \E files \in SUBSET Changed(c) : Publish(c, files)
  \/ Pull(c)
  \/ Discard(c)

Next == FluxApply \/ \E c \in Checkouts : Create(c) \/ Sync(c) \/ Fail(c) \/ Git(c)

Spec == Init /\ [][Next]_vars

----------------------------------------------------------------------------
(* Properties *)

FilePairs == [Files -> Pairs]

TypeOK ==
  /\ made \in Pairs
  /\ plain \in [Checkouts -> Pairs]
  /\ tree \in [Checkouts -> FilePairs]
  /\ base \in [Checkouts -> FilePairs]
  /\ main \in FilePairs
  /\ zot \in Pairs
  /\ github \in [Uses -> Pairs]
  /\ pc \in [Checkouts -> {"idle", "hashes", "passwords", "sync"}]
  /\ creating \in [Checkouts -> BOOLEAN]
  /\ stale \in [Checkouts -> SUBSET Files]
  /\ picked \in [Checkouts -> SUBSET Uses]
  /\ todo \in [Checkouts -> SUBSET Uses]
  /\ name \in [Checkouts -> Names \cup {NoName}]
  /\ value \in [Checkouts -> Pairs]
  /\ failures \in [Checkouts -> BOOLEAN]
  /\ ended \in [Checkouts -> BOOLEAN]

\* "Exits 1 if any repo failed": a run that exits 0 leaves every secret it was to
\* set at the passwords of the encrypted file, and create-zot-htpasswd.sh both
\* encrypted files at those of the plaintext.
Exit0MeansInStep ==
  \A c \in Checkouts : Exits0(c) =>
    /\ \A u \in picked[c] : github[u] = tree[c]["passwords"]
    /\ creating[c] => \A f \in Files : tree[c][f] = plain[c]

\* "The two are always in sync" of what is committed: the hashes the registry is
\* given are those of the passwords the next sync pushes.
MainInStep == main["hashes"] = main["passwords"] /\ main["hashes"] # 0

\* No secret is left with passwords older than those the registry accepts,
\* whatever runs fail, are reused, narrowed or discarded.
NeverBehind == \A u \in Uses : github[u] >= zot
=============================================================================
