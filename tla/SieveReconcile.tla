--------------------------- MODULE SieveReconcile ---------------------------
(***************************************************************************)
(* apps/production/email-stalwart/stalwart-config/sieve-reconcile.py: the  *)
(* job that keeps the archive rule inside every account's active Sieve     *)
(* script, a script that the account's owner edits as well.                *)
(*                                                                         *)
(* One action per ManageSieve command of reconcile().  Two runs of the job *)
(* may overlap (concurrencyPolicy: Forbid holds for the CronJob's own jobs *)
(* only, not for `stalwart-apply sieve-reconcile`), and users may save     *)
(* between two commands unless Quiet says that they do not.                *)
(*                                                                         *)
(* A script body is kept as what reconcile() distinguishes: its managed    *)
(* block, the users' rules around it, and whether an include of the        *)
(* archive rule stands outside the block.                                  *)
(***************************************************************************)
CONSTANTS
  Accounts,
  Names,      \* script names
  Own,        \* SCRIPT_NAME, "archive-all"
  Rules,      \* rules users write
  Jobs,       \* runs of the job that may overlap
  Scheduled,  \* ... that the CronJob starts, not stalwart-apply
  Quiet,      \* users leave their scripts alone while a job runs
  NoName,     \* no script (is active)
  NoBody,     \* there is no script of this name
  NoAccount

ASSUME SieveAssumption ==
  /\ Own \in Names
  /\ NoName \notin Names
  /\ NoAccount \notin Accounts
  /\ Scheduled \subseteq Jobs
  /\ Quiet \in BOOLEAN

\* "open": a begin marker that no end marker follows; "drifted": a block whose
\* content is not what git says.
Blocks == {"none", "open", "drifted", "current"}

Bodies == [block : Blocks, rules : SUBSET Rules, include : BOOLEAN]

ASSUME NoBodyAssumption == NoBody \notin Bodies

VARIABLES
  scripts,    \* scripts[a][n]: the body stored under that name
  active,     \* active[a]: the active script
  alert,      \* the accounts the last run summary counts as unmanaged or failed
  pc,         \* pc[j]: the command job j sends next; "idle" when it does not run
  todo,       \* todo[j]: the accounts the run has still to visit
  acct,       \* acct[j]: the account it is connected to
  name,       \* name[j]: the script it has found active, or installs
  draft,      \* draft[j]: the body it is about to upload
  reported    \* reported[j]: accounts with outcome "skipped" or "ERROR"

server == <<scripts, active>>
local == <<acct, name, draft>>
vars == <<scripts, active, alert, pc, todo, acct, name, draft, reported>>

Running == {j \in Jobs : pc[j] # "idle"}

\* The script ingest runs includes the archive rule.
Archives(a) ==
  /\ active[a] # NoName
  /\ scripts[a][active[a]] # NoBody
  /\ \/ scripts[a][active[a]].block = "current"
     \/ scripts[a][active[a]].include

----------------------------------------------------------------------------
(* What reconcile() computes *)

\* (Mutant of Fresh: the include of the region is not the one git has.)
FreshDrifted == [block |-> "drifted", rules |-> {}, include |-> FALSE]

\* managed_region() and nothing else.
Fresh == [block |-> "current", rules |-> {}, include |-> FALSE]

\* split_managed() finds a span.
HasSpan(b) == b.block \in {"drifted", "current"}

\* (Mutant of Merged: the whole body is replaced, as before 2026-09-14.)
MergedClobber(b) == Fresh

\* merge_managed(): only the region is rewritten.
Merged(b) == [b EXCEPT !.block = "current"]

\* The unmarked body older versions of the job wrote: the include and nothing
\* else.  Another body of that kind, with a comment in it or from before git
\* changed, is the same record here; Decide() allows both outcomes for it.
Legacy(n, b) == n = Own /\ b = [block |-> "none", rules |-> {}, include |-> TRUE]

----------------------------------------------------------------------------
(* One run: main() *)

\* (Mutant of StartRun: an account without an address is not left out.)
StartRunUnfiltered(j) ==
  /\ pc[j] = "idle"
  /\ pc' = [pc EXCEPT ![j] = "next"]
  /\ todo' = [todo EXCEPT ![j] = Accounts \cup {NoAccount}]
  /\ UNCHANGED <<server, alert, local, reported>>

\* fetch_accounts(), without the accounts in SKIP.
StartRun(j) ==
  /\ pc[j] = "idle"
  /\ pc' = [pc EXCEPT ![j] = "next"]
  /\ todo' = [todo EXCEPT ![j] = Accounts]
  /\ UNCHANGED <<server, alert, local, reported>>

NextAccount(j, a) ==
  /\ pc[j] = "next" /\ a \in todo[j]
  /\ pc' = [pc EXCEPT ![j] = "list"]
  /\ todo' = [todo EXCEPT ![j] = @ \ {a}]
  /\ acct' = [acct EXCEPT ![j] = a]
  /\ UNCHANGED <<server, alert, name, draft, reported>>

\* The connection of the account is closed and its locals are gone.
Forget(j) ==
  /\ acct' = [acct EXCEPT ![j] = NoAccount]
  /\ name' = [name EXCEPT ![j] = NoName]
  /\ draft' = [draft EXCEPT ![j] = NoBody]

\* reconcile() is over for the account, with an outcome that is fine ...
Return(j) ==
  /\ pc' = [pc EXCEPT ![j] = "next"]
  /\ Forget(j)
  /\ UNCHANGED reported

\* ... or with "skipped" or "ERROR".
Report(j) ==
  /\ pc' = [pc EXCEPT ![j] = "next"]
  /\ reported' = [reported EXCEPT ![j] = @ \cup {acct[j]}]
  /\ Forget(j)

Stop(j) ==
  /\ pc' = [pc EXCEPT ![j] = "idle"]
  /\ todo' = [todo EXCEPT ![j] = {}]
  /\ reported' = [reported EXCEPT ![j] = {}]
  /\ Forget(j)

\* run_summary(): the gauges the alerts read.
Summary(j) ==
  /\ pc[j] = "next" /\ todo[j] = {}
  /\ alert' = reported[j]
  /\ Stop(j)
  /\ UNCHANGED server

\* LISTSCRIPTS, after the login.
ListScripts(j) ==
  /\ pc[j] = "list"
  /\ \/ /\ active[acct[j]] = NoName
        /\ name' = [name EXCEPT ![j] = Own]
        /\ draft' = [draft EXCEPT ![j] = Fresh]
        /\ pc' = [pc EXCEPT ![j] = "put"]
     \/ /\ active[acct[j]] # NoName
        /\ name' = [name EXCEPT ![j] = active[acct[j]]]
        /\ pc' = [pc EXCEPT ![j] = "get"]
        /\ UNCHANGED draft
  /\ UNCHANGED <<server, alert, todo, acct, reported>>

\* b is to be uploaded.
Upload(j, b) ==
  /\ draft' = [draft EXCEPT ![j] = b]
  /\ pc' = [pc EXCEPT ![j] = "put"]
  /\ UNCHANGED <<acct, name, reported>>

\* (Mutant of Decide: an unterminated block counts as present.)
DecideLax(j, b) ==
  \/ b.block = "drifted" /\ Upload(j, Merged(b))
  \/ b.block \in {"open", "current"} /\ Return(j)
  \/ Legacy(name[j], b) /\ Upload(j, Fresh)
  \/ b.block = "none" /\ b.include /\ Return(j)
  \/ b.block = "none" /\ ~b.include /\ Report(j)

\* (Mutant of Decide: a script without markers is drift, as before 2026-09-14.)
DecideClobber(j, b) ==
  \/ b.block = "open" /\ Report(j)
  \/ b.block = "drifted" /\ Upload(j, Merged(b))
  \/ b.block = "current" /\ Return(j)
  \/ b.block = "none" /\ Upload(j, Fresh)

\* What reconcile() does about the body b of the active script.
Decide(j, b) ==
  \/ b.block = "open" /\ Report(j)
  \/ b.block = "drifted" /\ Upload(j, Merged(b))
  \/ b.block = "current" /\ Return(j)
  \/ Legacy(name[j], b) /\ Upload(j, Fresh)
  \/ b.block = "none" /\ b.include /\ Return(j)
  \/ b.block = "none" /\ ~b.include /\ Report(j)

\* GETSCRIPT.
GetScript(j) ==
  LET b == scripts[acct[j]][name[j]] IN
  /\ pc[j] = "get"
  /\ b # NoBody
  /\ Decide(j, b)
  /\ UNCHANGED <<server, alert, todo>>

\* PUTSCRIPT: the server stores the body, active or not.
Store(j) == scripts' = [scripts EXCEPT ![acct[j]][name[j]] = draft[j]]

PutScript(j) ==
  /\ pc[j] = "put"
  /\ Store(j)
  /\ pc' = [pc EXCEPT ![j] = "activate"]
  /\ UNCHANGED <<active, alert, todo, local, reported>>

\* SETACTIVE: the server makes the script the one ingest runs.
Activate(j) == active' = [active EXCEPT ![acct[j]] = name[j]]

SetActive(j) ==
  /\ pc[j] = "activate"
  /\ scripts[acct[j]][name[j]] # NoBody
  /\ Activate(j)
  /\ Return(j)
  /\ UNCHANGED <<scripts, alert, todo>>

\* A command is refused or its connection breaks: outcome ERROR, next account.
\* A command whose answer is lost may have taken effect.
Fail(j) ==
  /\ pc[j] \in {"list", "get", "put", "activate"}
  /\ \/ pc[j] = "put" /\ Store(j) /\ UNCHANGED active
     \/ pc[j] = "activate" /\ Activate(j) /\ UNCHANGED scripts
     \/ UNCHANGED server
  /\ Report(j)
  /\ UNCHANGED <<alert, todo>>

\* The account list cannot be fetched, or the pod dies: no summary is printed.
Crash(j) ==
  /\ pc[j] # "idle"
  /\ Stop(j)
  /\ UNCHANGED <<server, alert>>

----------------------------------------------------------------------------
(* Everybody else *)

MayEdit == Quiet => Running = {}

\* The filter editor writes the active script, or a new one, and activates it.
UserSave(a, n, b) ==
  /\ MayEdit
  /\ active[a] \in {n, NoName}
  /\ scripts' = [scripts EXCEPT ![a][n] = b]
  /\ active' = [active EXCEPT ![a] = n]
  /\ UNCHANGED <<alert, pc, todo, local, reported>>

\* One of the two ways out the job suggests for a skipped account.
UserDeactivate(a) ==
  /\ MayEdit
  /\ active[a] # NoName
  /\ active' = [active EXCEPT ![a] = NoName]
  /\ UNCHANGED <<scripts, alert, pc, todo, local, reported>>

\* git changes what the block says; jobs mount the new script from then on.
GitChanges ==
  /\ Running = {}
  /\ scripts' = [a \in Accounts |-> [n \in Names |->
       IF scripts[a][n] # NoBody /\ scripts[a][n].block = "current"
         THEN [scripts[a][n] EXCEPT !.block = "drifted"] ELSE scripts[a][n]]]
  /\ UNCHANGED <<active, alert, pc, todo, local, reported>>

----------------------------------------------------------------------------

\* A mail server before the job's first run.
Init ==
  /\ scripts = [a \in Accounts |-> [n \in Names |-> NoBody]]
  /\ active = [a \in Accounts |-> NoName]
  /\ alert = {}
  /\ pc = [j \in Jobs |-> "idle"]
  /\ todo = [j \in Jobs |-> {}]
  /\ acct = [j \in Jobs |-> NoAccount]
  /\ name = [j \in Jobs |-> NoName]
  /\ draft = [j \in Jobs |-> NoBody]
  /\ reported = [j \in Jobs |-> {}]

Reconcile(j) == ListScripts(j) \/ GetScript(j) \/ PutScript(j) \/ SetActive(j)

Run(j) ==
  \/ StartRun(j)
  \/ \E a \in Accounts : NextAccount(j, a)
  \/ Reconcile(j)
  \/ Summary(j)

Fault == \E j \in Jobs : Fail(j) \/ Crash(j)

User ==
  \E a \in Accounts :
    \/ \E n \in Names, b \in Bodies : UserSave(a, n, b)
    \/ UserDeactivate(a)

Next ==
  \/ \E j \in Jobs : Run(j)
  \/ Fault
  \/ User
  \/ GitChanges

Spec == Init /\ [][Next]_vars

\* The schedule starts a run every day, and such a run does not stop by itself;
\* nobody has to start one by hand, and that one may hang.
FairSpec == Spec /\ \A j \in Scheduled : WF_vars(Run(j))

----------------------------------------------------------------------------
(* Properties *)

TypeOK ==
  /\ scripts \in [Accounts -> [Names -> Bodies \cup {NoBody}]]
  /\ active \in [Accounts -> Names \cup {NoName}]
  /\ alert \subseteq Accounts
  /\ pc \in [Jobs -> {"idle", "next", "list", "get", "put", "activate"}]
  /\ todo \in [Jobs -> SUBSET Accounts]
  /\ acct \in [Jobs -> Accounts \cup {NoAccount}]
  /\ name \in [Jobs -> Names \cup {NoName}]
  /\ draft \in [Jobs -> Bodies \cup {NoBody}]
  /\ reported \in [Jobs -> SUBSET Accounts]
  /\ \A j \in Jobs :
       /\ pc[j] \in {"list", "get", "put", "activate"} => acct[j] \in Accounts
       /\ pc[j] \in {"get", "put", "activate"} => name[j] \in Names

\* Job j uploads a body over an existing script, n of account a.
Overwrites(j, a, n) ==
  /\ pc[j] = "put" /\ pc'[j] # "put"
  /\ acct[j] = a /\ name[j] = n
  /\ scripts[a][n] # NoBody /\ scripts'[a][n] # scripts[a][n]

\* "Only that region is rewritten; every other byte of the script is
\* preserved": an upload over an active script that has the managed block keeps
\* the rules around it.
RulesSurvive ==
  [][\A j \in Jobs, a \in Accounts :
       (/\ active[a] # NoName
        /\ Overwrites(j, a, active[a])
        /\ HasSpan(scripts[a][active[a]]))
         => scripts'[a][active[a]].rules = scripts[a][active[a]].rules]_vars

\* The same of what the owner saves while the job is between its commands: the
\* merged body of a script that was read with rules in it takes no rule away from
\* the script it is uploaded over.
RefreshKeepsRules ==
  [][\A j \in Jobs, a \in Accounts :
       (/\ active[a] # NoName
        /\ Overwrites(j, a, active[a])
        /\ HasSpan(scripts[a][active[a]])
        /\ draft[j].rules # {})
         => scripts[a][active[a]].rules \subseteq scripts'[a][active[a]].rules]_vars

\* "An active script with no managed block is never overwritten", but for the
\* body the job itself used to write.
UnmanagedUntouched ==
  [][\A j \in Jobs, a \in Accounts :
       active[a] # NoName /\ Overwrites(j, a, active[a])
         => \/ HasSpan(scripts[a][active[a]])
            \/ Legacy(active[a], scripts[a][active[a]])]_vars

\* No run makes it worse: whatever runs overlap, fail or die, an account whose
\* script includes the archive rule goes on archiving in every step of theirs,
\* a migrated script and an installed one included (main(), reconcile()).
ArchivingGoesOn ==
  [][Running # {} => \A a \in Accounts : Archives(a) => Archives(a)']_vars

\* "Silent is the one thing it must not be": when a run is about to print its
\* summary, every account it does not report archives.
NothingSilent ==
  \A j \in Jobs : pc[j] = "next" =>
    \A a \in Accounts \ (todo[j] \cup reported[j]) : Archives(a)

\* A crash, and not the step of a run that has nothing to report.
Killed == \E j \in Jobs : Crash(j) /\ ~Summary(j)

\* An account is put right or alerted on again and again, whatever commands
\* fail, unless runs keep being killed.
ArchivesOrAlerts ==
  []<><<Killed>>_vars \/ \A a \in Accounts : []<>(Archives(a) \/ a \in alert)
=============================================================================
