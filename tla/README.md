# A model of home-infra-k8s-flux

This directory holds TLA+ specifications of the parts of the repository that
have behaviour of their own, TLC configurations that check them on small
instances, and TLAPS proofs for instances of any size.

Most of the repository is declarative: Kubernetes manifests that Flux applies
to one cluster (`nas1`). Its own logic is in a few scripts and jobs, which all
do the same kind of work: they move a secret or a configuration between places
that do not share a transaction (1Password, working trees, git, GitHub, the
cluster, a mail server), one command at a time, and any command can fail or be
overtaken. What can go wrong is the order of steps, a value read before and used
after, and a run that stops half way. That is what the modules are about.

## 1. Inventory

| component | sources | state | operations | modelled |
|---|---|---|---|---|
| age key and its rotation | `scripts/onepassword-secrets.mts` (`rotate-age-key`, `list`) | attachments of the age-key item, `*.encrypted` files, `.sops.yaml`, identities cached by a run | gate on a stored key, one `sops rotate` per file, rewrite of `.sops.yaml`, failure between two files, printed rollback | `SecretsRepo` |
| edit, new, show | same (`commandEdit`, `commandNew`) | recipients held by an open editor | open, save, drop | `SecretsRepo` (`show` changes nothing) |
| encrypt-env-files.sh | `scripts/encrypt-env-files.sh`, `scripts/_sops_config.include.sh` | recipient read at start-up | encrypt to a temporary file, move into place | `SecretsRepo` |
| branches and main | as the scripts print and rely on them | head, branch, paths changed on either side | branch, commit, merge, pull, checkout | `SecretsRepo` |
| sops-age Secret | `scripts/create-sops-age-decryption-secret.sh` | identities in the cluster | compare with `.sops.yaml`, apply | `AgeKeyRotation` |
| Flux | `clusters/nas1/flux-system/gotk-sync.yaml`, `clusters/nas1/apps.yaml` | artifact, applied tree, Ready | fetch, decrypt and apply | `AgeKeyRotation` (one Kustomization) |
| push, pull, migrate --verify | `scripts/onepassword-secrets.mts` | plaintext on disk, attachments, ciphertext on disk and on main, a run's hashes and lists | classify, upload, read back, unlink; read, copy; compare; abort | `PlaintextMigration` |
| sieve-reconcile | `apps/production/email-stalwart/stalwart-config/sieve-reconcile.py`, its CronJob, `scripts/stalwart-apply` | scripts and the active script of each account, the run's position, its report, the summary's gauges | LISTSCRIPTS, GETSCRIPT, PUTSCRIPT, SETACTIVE, summary, failure, pod death | `SieveReconcile` |
| stalwart-tls-reload | `apps/production/email-stalwart/stalwart-tls-reload.yaml` | Secret, mounted files, certificate in use, recorded hash | hash, compare, delete pod, record | `TlsReload` |
| registry passwords | `apps/production/zot/scripts/create-zot-htpasswd.sh`, `scripts/sync-actions-secrets.mts` | plaintext, two encrypted files per checkout, main, registry, GitHub secrets | rotate, reuse, write two files, push to every use, commit, pull, discard | `RegistryPasswords` |
| GitHub webhooks | `scripts/update-flux-image-scanning-webhooks/manage-webhooks.ts`, the Receiver in `infrastructure/base/configs/image-scanning-webhook-receiver/` | hooks of each repository, the Receiver's token and path, what a run read and the rows of its summary | read Receiver, Secret and ImageRepositories; per repository list, keep, create or update, ping; summary | `WebhookSync` |
| ingest users | `scripts/add-ingest-user.mts` | one encrypted file of lines, a legacy file, the password each sender holds | decrypt, replace a line, encrypt, rename, remove the legacy file, print the password into a pipe | `IngestUsers` |
| manifest checks | `scripts/check-persistent-mounts.mts`, `scripts/check-volume-refs.mts`, `scripts/git-hook-commit.sh`, `.github/workflows/validate.yml` | the checks have none; a branch has what has been checked, and main moves | commit hook, validate, merge, rebase, deploy, restart | `ManifestChecks` (the two checks and where they run; not that each build succeeds) |
| single-secret scripts | `scripts/create-*.sh` | one ciphertext (two for `create-olya-hook-token.sh`) | encrypt, move | no; as to recipients they are sessions of `SecretsRepo` |
| database backups | `apps/base/db-backup/cronjob.yaml` | dump files by age and inode | dump, clean up | no |
| Flux dependency chain, image automation | `clusters/nas1/*.yaml`, `infrastructure/prod/configs/image-update-automation/` | Ready of each stage | reconcile when what it depends on is Ready | no; one stage is part of `AgeKeyRotation` and of `ManifestChecks` |
| flux-bootstrap.sh, flux-upgrade.sh | `scripts/` | none | one call of `flux` | no |
| Stalwart configuration | `stalwart-config/plan.ndjson`, apply jobs | in the server | `stalwart-cli apply`, whose code is not here | no |
| alert rules, application CronJobs, Home Assistant copy scripts, mail backfill, Crossplane and DNS, application manifests | `apps/`, `infrastructure/` | none of their own | one request, one rsync, or declarative | no |

How they interact. The rotation, the migration and the registry passwords share
the working trees and main: every script reads `.sops.yaml` of the checkout it
runs in, and every ciphertext reaches the cluster through a branch, a merge and
Flux. The two mail jobs share the server with its users and with cert-manager,
the kubelet and the StatefulSet controller. `create-zot-htpasswd.sh` calls
`encrypt-env-files.sh` and then `sync-actions-secrets.mts`, which calls
`onepassword-secrets.mts show`. `manage-webhooks.ts` reads the cluster and writes to
GitHub, whose hooks then reach the Receiver; the ingest script writes to a branch and,
through a pipe, to a sender, which only a merge and Flux bring together. The
manifest checks stand at two places on the one way every change takes.

What makes them correct:

- rotation: no ciphertext on a key that could be lost; no moment at which the
  cluster cannot read main; the retired key reads nothing afterwards;
- migration: a plaintext or an attachment is given up only when the next store
  holds its text (but for what is saved in the instant before the unlink);
- sieve: an account whose mail is not archived is put right or reported, and
  nothing its owner wrote is lost;
- TLS: the certificate the job takes for loaded is loaded, and a renewed one
  comes to be served;
- registry: exit 0 is true, and CI never holds passwords older than those the
  registry accepts;
- webhooks: a summary that shows a ping is true, and no run leaves two hooks for
  one URL where one page of the API shows all hooks;
- ingest users: main never loses a sender's line or takes it back, and a sender
  whose run nobody has to repeat holds the password that main has the hash of;
- manifest checks: what both let through keeps a database's rows over a restart
  and lets its pod start, whatever merged in between.

PROJECT.json lists the hazards line by line, with the property that covers each
or the reason why none does.

## 2. Plan

Built, in this order (each with its runs and proofs before the next):

1. `SecretsRepo`, `AgeKeyRotation`, `AtomicRotation`: the core, because every
   secret of the cluster depends on it.
2. `PlaintextMigration`: the only component that destroys data.
3. `SieveReconcile`, `TlsReload`: the two unattended jobs.
4. `RegistryPasswords`: the one script that writes to four places in a row.
5. `WebhookSync`: one pass over the repositories against the hooks GitHub holds.
6. `IngestUsers`: read-modify-write of one ciphertext from two branches.
7. `ManifestChecks`: two pure checks, and what their places on a change's way are
   worth.

Left:

- Every safety property of the passing runs is proved. What a second promise
  in the manner of `AtomicRotation` could say of another component.

Conventions: no module uses a RECURSIVE operator, so every one can be proved
about. Parameters are constants with named assumptions. A definition marked
"(Mutant of ...)" is a plausible bug used to show that a property can fail; no
specification uses it.

## 3. Modules

### SecretsRepo

A ciphertext is the set of age recipients that can decrypt it, which is all that
`recipientsOf()` and the gates look at; `.sops.yaml` is one more path, whose set
is the declared recipient. A key pair and its recipient are one model value.
`vault` says which keys are attached to the 1Password item and whether their
name has `-retired-`.

`StartRotate` takes all the gates of `commandRotateAgeKey` (one recipient of
record, clean tree, not on main, key stored in 1Password) and caches the
identities and the list of files. `SkipFile`/`RotateFile` is one iteration,
`FinishRotate` the rewrite of `.sops.yaml`, `AbortRotate` a failure or an
interrupt between any two of them. `OpenEdit`, `OpenNew`, `OpenEncrypt` read the
recipients; `SaveSession` writes them, any number of steps later, over whatever
is there then. That is how `sops edit` and `encrypt-env-files.sh` work.

git is kept as far as it decides which ciphertext gets where: a path changed on
both sides is a conflict (ciphertext does not merge line by line), disjoint
paths merge silently. `Rollback` is the `git checkout -- .` the script prints;
it leaves untracked files alone.

### AgeKeyRotation and AtomicRotation

`AgeKeyRotation` composes the repository with the `sops-age` Secret and Flux.
Its constant `Procedure` says which steps the operator keeps; `Steps` names
them. Some are printed by `rotate-age-key` or asked for in the header of the
Secret's script (`list`, `both`, `pull`, `green`, `rename`), two are not
(`rebase`: take main in before a merge; `revision`: look at the revision Flux
reports). `PrintedSteps` in `MCAgeKeyRotation` is the set without those two; with
it `MainIsAtomic` fails for want of "rebase" and `NeverStalled` for want of
"revision" (section 7).

`AtomicRotation` is the promise: main has one recipient, every file is readable
by it alone, and main moves from one to the next in a single step.
`MainIsAtomic` is that specification under the mapping `record <- main[Config]`,
`readers <- main` restricted to the files.

### PlaintextMigration

A content is what the two hashes of the script distinguish: its text and whether
it has blank lines. A ciphertext is the content it decrypts to; dotenv loses
blank lines. The loops of `push`, `pull` and `migrate --verify` are taken file
by file and command by command: `Classify` hashes, `Upload` reads the file anew
(so an edit in between is uploaded instead), `ReadBack` compares raw hashes,
`Rehash` hashes the plaintext once more, and `DeleteLocal` unlinks what the path
holds by then: the editor is another process and may save between those two calls.
`late` is a history variable, which no step reads; it remembers that this happened
(section 7). `PullRead`/`PullCopy` keep `existsSync` and `copyFileSync` apart.

`Care` is what the operator sees to: one command at a time, verify on a tree
that is what git holds, without `--only`, and no secret changed between a clean
report and the deletion it licenses. `Drafts` bounds what is written into each file;
the theorems are for any.

Left out: the rows of the age key itself, `--dry-run`, the creation of an item
(its hazard is listed), and the delete-and-re-add fallback of `attachFile()`,
which the repository's own measurement shows is never taken.

### SieveReconcile

One action per ManageSieve command. A script body is its managed block (none,
unterminated, drifted, current), the users' rules around it, and whether an
include of the archive rule stands outside it. `Decide` is the ladder of
`reconcile()`. A command that fails may have taken effect (`Fail`); a pod that
dies prints no summary (`Crash`). Two runs may overlap, because
`create job --from` does not obey `concurrencyPolicy`. `GitChanges` happens only
while no run is under way: a run that began with the old script and meets a block
the new one wrote is left out. `Legacy` stands for the
body older versions wrote; bodies that are equal in this abstraction but not
byte for byte are handled by letting `Decide` go both ways.

`alert` is the gauges of the last summary that was printed; the alert rules of
`apps/production/monitoring/prometheus/helmrelease.yaml` fire on them.

### TlsReload

Certificates are serial numbers. `GetSecret`, `GetState`, `DeletePod`, `Record`
are the four kubectl commands. Without `pipefail` a failed get of the Secret
yields the hash of no input; with `2>/dev/null || true` a failed get of the
ConfigMap looks like a first run. `Answers` names the gets that never fail. The pod, the mounted
files (refreshed by the kubelet at any time) and the certificate in use are
separate. `Renew` waits for the job's first run: a certificate lives 60 days
before it is renewed, the job runs daily.

### RegistryPasswords

Both accounts rotate together, so a pair of passwords is a number. Each checkout
has its plaintext (ignored by git) and two encrypted files; `github` is the value
of each use in `scripts/actions-secrets.json` (secret, repository, store).
`HashesFail` leaves an empty file, as the redirection in the script does;
`WritePasswords` is atomic, as `encrypt-env-files.sh` is. The sync reads each
secret once and then pushes to its uses, a failed push is counted and the loop
goes on. `Care` again names precautions (section 7 has what happens without).

### WebhookSync

The Receiver's path is a hash of its token, so both are versions, and a hook works
when it points at the current path and signs with the current token. A run reads
the path (`GetReceiver`), the token (`GetSecret`) and the images (`GetImages`) with
three kubectl calls, then visits one repository at a time: `List` is
`getExistingWebhook()` and the choice that follows, `CreateWebhook`,
`UpdateWebhook` and `PingWebhook` are the requests, `CreateOrUpdateFails` one that
is refused or whose answer is lost after it had its effect, `Fail` every exit 1.
`FirstPage` is the default page of the API. `Correct` looks at what GitHub shows:
that there is a secret, not which. Deployments, token changes, the notification
controller and repository owners go on in between; `touched` remembers which
repositories an owner changed since the run listed them, because of those no
summary can speak. Nobody is assumed to type another secret into a hook.

### IngestUsers

A password is a number in the order of their making, a line the number of the
password it is the hash of. `Start` is everything the script does in memory (decrypt,
`bcryptLines()`, the legacy line, `htpasswd`, encrypt), `Replace` the rename,
`RemoveLegacy` the removal of the old file, `Deliver` the password on the pipe.
`Fail` can come before each: the other end of the pipe then installs an empty file
or nothing. `Merge` and `Restart` are git: one side only may have changed the
ciphertext. `owed` is what an operator knows from exit codes and dropped branches:
the users to run the script for again.

### ManifestChecks

A tree is what the two checks look at for one workload: mounts by path, the
redirect of the data directory, what the volumes name and what the build emits, four
files of their own. `PersistentMounts` and `VolumeRefs` are `findViolations()` of
the two scripts, `Persistent` is what the container runtime does. The hook checks
the working tree (`Commit`), the workflow the merge with main of that moment
(`Validate`); the workflow's run on a push to main (`validate.yml:6-7`) comes when the
merge is done and stops nothing, so it is no step here; `Update` is a rebase or a merge of main, which no check looks at;
`Merge` asks for the workflow only. `behind` says whether main has moved since a
branch left it: it is kept by commit and not by content, since main may come back
to the same tree after a check has seen another. `Care` names three precautions:
"redirects" (none below the image's VOLUME, and nothing but claims mounted at or above
the path one names), "staged" (the commit is the working
tree), "current" (a branch merges only when it is up to date and the hook has run
on it since).

## 4. Runs

| run | instance | states | shows |
|---|---|---|---|
| `rotation_careful` | 2 keys, 1 file, 2 checkouts, editors in one, the other rotates; cluster and Flux; every step kept; fair | 150,488 | no ciphertext anywhere is on a key 1Password does not hold, Flux never stalls, tools read main, a retired key reads nothing, `.sops.yaml` moves last, main moves atomically, Flux catches up |
| `migration_mixed` | 2 files (one dotenv), 2 texts, every precaution | 3,522,730 | unlink only on a byte-exact copy unless the file is saved in the instant before, blank lines kept, a clean report is true |
| `migration_only` | without the precaution on `--only` | violation | a partial verify calls everything clean |
| `sieve_quiet` | 1 account, 2 names, 1 rule, the daily run (fair) and one by hand | 57,290 | rules survive, unmanaged scripts untouched, who archives goes on archiving, no silent gap, repaired or alerted |
| `sieve_race` | 1 run, 2 rules, owner saves during it | violation | the upload of a refresh drops the owner's rules |
| `tls` | 3 renewals, the get of the Secret may fail, fair | 4,002 | what is recorded is loaded; the current certificate comes to be served |
| `tls_get` | the get of the ConfigMap may fail, 2 renewals | violation | a certificate is recorded and never loaded |
| `registry` | 3 pairs, 2 checkouts, 3 uses of 2 secrets | 230,481 | exit 0 is true, main is consistent, CI is never behind |
| `webhooks` | 2 images, 2 repositories (1 visible), pages of 2 hooks, 4 hooks, 3 tokens | 2,796,838 | a row with a ping stands for a working hook; no URL has two hooks where a page shows all |
| `ingest` | 2 senders, 2 checkouts, 4 passwords | 196,484 | no sender's line is lost or taken back; senders hold what main says unless a run is owed |
| `manifests` | 4 paths, 1 object, 2 branches, 3 edits, every precaution | 2,313,063 | pods start, and rows survive restarts |
| `manifests_shadowed` | redirects below the VOLUME allowed | violation | a check that accepts a shadowed claim; a restart loses the database |

Why the bounds are enough. Two keys are one rotation and its way back (the old
key is a candidate again after `RenameBack`). Two checkouts are one that acts and
one that is stale; a third adds no new relation between two trees. One file
is enough in the run of the rotation because `.sops.yaml` is a second path that is
rewritten later, so there is a place to stop half way; the theorems are for any
number of files, checkouts and keys. In `migration_mixed` a content is one of
two texts, with or without blank lines. `MCDrafts` gives the dotenv file one text in
both forms and the other in one, and the other file both texts: an edit between two
commands is a change of text, of form only, or a removal, and verify meets attachments
that match, match but for blank lines, and do not match. (A second form of the second
text would only double the states: two forms of one text are there already.) Two sieve runs are an overlap; one account
per run suffices for the server's state because accounts share nothing, and the
theorems are for any number. Three renewals are one before, one during and one
after a run. Three pairs are one deployed and two rotations in a row; the uses
include one secret in two repositories and two secrets in one, so `--secret` and
`--repo` select different sets. Pages of two hooks
of four make two hooks on one page possible and one on a later page; three tokens are one stored, one read
and one after the run. Four passwords are the legacy one, one of each checkout and
one after a conflict. Three edits are what it takes to break a tree on two
branches that each look sound, or to shadow a claim and name an object. The bounds on
counters are `LastPair`, `LastSerial`, `MaxToken`, `MaxHooks`, `MaxPassword` and
`MaxEdits`; all are guards.

`ingest`, `manifests` and `manifests_shadowed` may stop, because the passwords or
edits of the bound are used up. No other run allows deadlock; there is always
something an operator or a schedule can do.

## 5. Fairness

- `AgeKeyRotation!FairSpec`: `FluxFetch` and `FluxReconcile`, because the
  GitRepository polls every minute and Kustomizations reconcile every ten. None
  for the operator. `FluxCatchesUp` therefore allows for a main that never rests.
- `SieveReconcile!FairSpec`: the CronJob's run (`Scheduled`) makes progress and a new
  one starts every day. A run somebody starts by hand may hang for ever, or never be
  started. `ArchivesOrAlerts` allows for runs that are killed
  for ever, since a killed run prints nothing; the staleness alert outside the
  model covers that.
- `TlsReload!FairSpec`: the job, the replacement of a deleted pod
  (StatefulSet, kubelet). `ServedIsCurrent` allows for runs that fail, or
  hash no input, for ever.
- The other modules have none: a person starts every command, and no property is a
  liveness property. In particular nothing obliges anybody to run
  `manage-webhooks.ts` after a change of the token.

## 6. Violations found

`migration_only`. `migrate --verify --only` prints "clean: every attachment ..."
and exits 0 (line 1484) after looking at one group, and that exit code is the
gate for deleting attachments.

`sieve_race`. GETSCRIPT and PUTSCRIPT are two commands and ManageSieve has no
conditional upload. In the trace the job reads a script with a drifted block and one
rule, the owner saves another rule, and the merged body that is uploaded has the
first rule only, against the docstring "every other byte of the script is
preserved". (`RefreshKeepsRules` asks for rules in the draft, so that it speaks of a
script that was read and merged; the fresh script of `install()` has none.)

`tls_get`. A failing `kubectl get configmap` is taken for a first run: the renewed
certificate is recorded without a restart and no later run restarts for it. (The
other get, of the Secret, may fail without that: the hash of no input is nobody's
certificate, and costs a restart at the next run.)

`manifests_shadowed`. For a redirected data directory
`check-persistent-mounts.mts:134-135` accepts any claim at or above it and does not
look whether the image's VOLUME lies between. Lines 86-87 of the same file say that
a mount at an ancestor does not suppress the anonymous volume. With a claim at
`/var/lib/postgresql` and `PGDATA` below `/var/lib/postgresql/data`, the check is
content and the database is gone with the container.

## 7. Seen while reading, without a run

- `push --delete-after-push` hashes the plaintext again (1709) and unlinks it (1713)
  with two calls. What an editor saves in between is deleted without having been
  uploaded. `DeletedIsHeld` excepts exactly that (`late`); of every earlier edit it
  says that it is not destroyed.
- `IngestUsers`: an operator acts on the exit code. The status of
  a pipe is that of its last command, so a failure of the script in front of it shows
  only in its messages; `owed` supposes that they are read.
- Narrowing `sops-age` after "confirm Flux is green" can look at the Ready of the
  revision before the merge, and takes the old key away while Flux has yet to
  reconcile old ciphertext, although `README.md:316` says that keeping both keys
  removes that window. Hence the precaution "revision" in `Steps`.
- A branch cut before a rotation that adds a file passes `list` on its own tree and
  merges without a conflict; main then holds a file on the old recipient. Hence
  "rebase".
- The commit hook builds the working tree whatever part of it is committed
  (`git-hook-commit.sh:57`), git does not run it for a merge or a rebase, and CI does
  not run `check-persistent-mounts.mts` at all. Hence "staged" and "current".
- `check-volume-refs.mts:112` takes a Secret for out of band by its name, in whatever
  namespace.
- The clean-up of `db-backup` sorts `find -ls` by its first column, the inode
  (`apps/base/db-backup/cronjob.yaml:47`), so the ten dumps it keeps need not be the
  ten most recent.
- `manage-webhooks.ts` finds a hook by its URL: after a change of the token the hook
  of the old path stays in the repository, and each delivery to it fails.
- `sops edit` (`onepassword-secrets.mts:980-983`) keeps the recipients it read;
  saving after a rotation of the same file reverts them. `CiphertextKeyStored`
  holds all the same; `list` shows the file.
- `pull` tests `existsSync` (1829), reads, then copies (1849): a file created in
  between is overwritten without `--force`
  (`docs/specs/onepassword-secret-backup/plan.md:201`: "Refuses to overwrite an
  existing file unless `--force`").
- `migrate --verify` decrypts the working tree (1392), which need not be what is
  committed; hence the precaution "commit".
- `install()` overwrites an inactive `archive-all` script unread when no script is
  active (`sieve-reconcile.py:264`), while the alert's text says that the job
  "logs the previous script body before every write"
  (`prometheus/helmrelease.yaml:1404`).
- `create-zot-htpasswd.sh` in its reuse mode takes the plaintext of this machine.
  If the passwords were rotated elsewhere since, it writes, and pushes, the older
  pair; hence "newest". It writes the hashes through a redirection (131), where
  `encrypt-env-files.sh:26-29` explains why it does not.
- Without "alone", a sync beside a checkout with uncommitted files pushes the
  pair of main over a newer one, and the later commit puts CI behind.
- `create-image-pull-secret-ghcr.sh:54` writes below `apps/production/shared/`,
  which does not exist; the secret lives in
  `infrastructure/prod/configs/ghcr-pull-secret/`.

## 8. Proofs

`tlapm` proves all obligations of eight modules. Every theorem holds for any
values of the constants that satisfy the named assumptions of the module, and
under the hypothesis in the third column, which says what the operator keeps.

| module | theorem | hypothesis | inductive invariant |
|---|---|---|---|
| `AgeKeyRotation_proofs`, the repository | `TypeCorrect`, `KeyStored`, `RotationDeclaresLast` | none | `StoredInv`: `CiphertextKeyStored`, and the recipient of a running rotation is stored; `VisitedAreRotated`: in a checkout nobody edits in, the files a run has left behind are on its new recipient |
| `AgeKeyRotation_proofs`, the system | `RepositoryInside`, `ClusterTypeCorrect` | none | |
| | `MainImplementsAtomicRotation` | "list", "rebase" | `CarefulInv` in layers: `GitConsistent` (none): paths git does not report as changed are equal on both sides; `MainUniform`: main is on one recipient |
| | `ToolsReadMain`, `RetirementIsSafe` | and "both", "pull", "rename" | `MainHeld`: the Secret holds that recipient and only keys the scripts still load |
| | `NoOutage` | and "revision" | `FetchedHeld`: the same of the tree Flux has fetched |
| `PlaintextMigration_proofs` | `TypeCorrect` | none | |
| | `PushKeepsPristine` | "alone" | `PushInv`: `SendDiffers`: what a push has still to send from a dotenv ciphertext has another text than the attachment it replaces; `SendWaits`: and was classified in this push |
| | `DeletesOnlyHeld` | "alone", "freeze" | `CareInv`: a push and a clean report exclude each other, the attachment read back before an unlink is still the same, and so is the plaintext unless it was saved since it was hashed again (`late`) |
| | `CleanReportIsTrue` | all four | in `CareInv`: rows already counted as reproducible are on main |
| `SieveReconcile_proofs` | `TypeCorrect` | none | |
| | `NoSilentGap`, `RulesSurviveRuns`, `UnmanagedStays`, `RunsKeepArchiving` | `Quiet` | `QuietInv`: accounts a run is through with and does not report archive; the script a run found is still active, or still none is; what it is about to upload is the refresh of what is stored now |
| `TlsReload_proofs` | `TypeCorrect` | none | |
| | `NoUnloadedRecord` | "configmap" in `Answers` | `ReloadInv`: served is not ahead of mounted nor mounted of the Secret; there is no renewal before the first record; what the script is about to record is loaded, or this is the first run |
| `RegistryPasswords_proofs` | `TypeCorrect` | none | `LocalInv` (not for `TypeCorrect`): the files a run does not write any more hold its passwords, and the sync holds the value it read from the tree |
| | `Exit0IsTrue` | "alone" | `SyncInv`: the uses a sync is through with are set, unless a push failed |
| | `MainStaysInStep` | "both", "settled" | `EvenInv`: the two files agree on main, where a checkout left it, and in a tree whose last run ended with exit 0 |
| | `CINeverBehind` | all five | `InStepInv`: one checkout at a time has something to commit and is not behind main; GitHub is ahead of main and the registry behind it |
| `ManifestChecks_proofs` | `TypeCorrect` | none | `HookSaw`: with "staged", a head the hook passed is one it would accept |
| | `PodsAlwaysStart` | "current" | `ChecksInv`: a branch that is not behind left main where main is; what it has passed holds of its head merged, which is its head (`MergedIsHead`) |
| | `MainPassesBoth` | and "staged" | `Sound`: both checks hold of main |
| | `NoRowIsLost` | and "redirects" | an accepted tree whose redirects stay clear of the VOLUME is persistent (`AcceptedIsPersistent`); rows outside a claim exist only where no claim is deployed |
| `WebhookSync_proofs` | `TypeCorrect`, `SummaryCanBeBelieved`, `NoSecondHook` | none | `HookSyncInv`: url of the run <= path <= token and url <= secret <= token once the Secret is read, and the same of every hook stored; a row with a ping has a hook that looks correct unless the owner touched it; what `List` found out still holds when the run acts; of two hooks for one URL the older has an id beyond `PageSize` (`PageInv`) |
| `IngestUsers_proofs` | `TypeCorrect`, `LinesAreKept`, `SendersHoldMain` | none | `IngestInv`: a branch's files, and main, descend line by line from where the branch left main, and a run's lines are no older than that; `Standing`: each sender has the password main has, or one a branch brings, or a run is owed or under way |

Why strengthening is needed. None of the safety properties is inductive by itself:
each says something of the end of a run, and whether it holds depends on what the run
read at the start and on what others could do since. The invariants say, step by
step, what remains true of a value that was read. Each theorem is
initialisation, one step per action, and a temporal conclusion (`PTL`).

Why the hypotheses differ. An invariant in layers has parts of the form
"precautions kept => part", so one induction shows how far each precaution
reaches. The hypotheses are as weak as they can be with these precautions: for
`AgeKeyRotation`, `PlaintextMigration`, `RegistryPasswords` and `ManifestChecks`,
TLC finds the property violated on the instances of section 4 as soon as one
precaution of its hypothesis is taken out of `Procedure` or `Care` (for
`PlaintextMigration`'s "alone", with a second checkout). "green" is in
no hypothesis: a Flux that has applied the revision main is at ("revision") is
ready.

`RepositoryInside` is a refinement without a mapping: the composed system's
variables contain the repository's, and each of its steps is one of `RepoNext` or
a stutter there. It carries `KeyStored` and `RotationDeclaresLast` over to the
system, in which `MergePR` and `MarkRetired` have further guards.

Most action lemmas rest on two facts per module: what another checkout (job,
command, branch) leaves alone, and what an action of this one establishes. The
operators that recur have lemmas of their own: `MergedIsHead`, `FieldwiseTree`,
`EditedTree` (trees field by field), `MergedIsBody` (a refreshed script).

Finite sets appear once: that the hooks older than the n-th are fewer than n comes
from the library (`FS_Interval`, `FS_Subset`), for the page of `listWebhooks`.

Model-checked only: the liveness properties `FluxCatchesUp`, `ArchivesOrAlerts`
and `ServedIsCurrent`, since fairness and ENABLED are beyond this prover. Every
other property of a passing run is a theorem. Nothing
is computed by recursion, so no induction over data is
needed anywhere.

## 9. Not modelled

Command-line parsing, prompts, messages, colours and tables; the interior of
sops, age, op, gh, kubectl and stalwart-cli, which appear as commands that
succeed, fail, or fail after having taken effect; file modes and temporary
directories; git history (no revert, no force push) and merge conflicts that are
resolved by hand; an entry of `sops-age` that was not written by the script; the
crash between truncation and write of `.sops.yaml`; and the components the
inventory marks with no.

Those are left out because the repository holds no steps of theirs: the Flux chain,
image automation, Crossplane and Stalwart are controllers and servers whose order,
retries and timeouts are in other code; the single-secret scripts, the CronJobs and
the Home Assistant copies are one command each; what the backups' clean-up keeps is
decided by the file system. Of the webhooks, the Receiver's own list of
ImageRepositories is left out (`validate-webhook-receiver.sh` compares two lists and
the hook ignores its verdict); of the manifest checks, that every build succeeds, and
the scripts that show a reader the difference between two builds.
