---------------------------- MODULE WebhookSync ----------------------------
(***************************************************************************)
(* scripts/update-flux-image-scanning-webhooks/manage-webhooks.ts: one     *)
(* pass over the GitHub repositories that the cluster's ImageRepositories  *)
(* come from, to give each a webhook that makes Flux scan on a push.       *)
(*                                                                         *)
(* The Receiver's path is a hash of its token, so both are versions here:  *)
(* a hook works when it points at the path of the current token and signs  *)
(* with that token.  The run reads the path and the token with two calls,  *)
(* lists one page of hooks per repository, and acts on what it found some  *)
(* time later; GitHub shows it whether a hook has a secret, never which.   *)
(* Repository owners, the token and the notification controller go their   *)
(* own way in between.                                                     *)
(***************************************************************************)
EXTENDS Naturals, FiniteSets

CONSTANTS
  Images,      \* the ImageRepositories there may be
  Repos,       \* GitHub repositories
  Visible,     \* ... that exist and that GITHUB_TOKEN may administer
  NoRepo,
  Publisher,   \* [Images -> Repos]: whose workflow pushes the image
  Annotated,   \* activescott.com/source-repo, or NoRepo
  Derived,     \* the owner and name in a ghcr.io image, or NoRepo
  PageSize,    \* hooks in one page of listWebhooks
  MaxHooks,    \* bound: hooks ever made in one repository
  MaxToken     \* bound: tokens the Receiver ever has

ASSUME HookAssumption ==
  /\ PageSize \in Nat \ {0} /\ MaxHooks \in Nat /\ MaxToken \in Nat \ {0}
  /\ Visible \subseteq Repos
  /\ NoRepo \notin Repos

\* The annotation is there for the image whose path does not name its repository.
ASSUME SourceAssumption ==
  /\ Publisher \in [Images -> Repos]
  /\ Annotated \in [Images -> Repos \cup {NoRepo}]
  /\ Derived \in [Images -> Repos \cup {NoRepo}]
  /\ \A i \in Images :
       \/ Annotated[i] = Publisher[i]
       \/ Annotated[i] = NoRepo /\ Derived[i] \in {Publisher[i], NoRepo}

VARIABLES
  deployed,   \* ImageRepositories in the cluster
  token,      \* version of the token in the Secret of the Receiver
  path,       \* version in status.webhookPath, 0 while there is none
  hooks,      \* [Repos -> [Ids -> a hook or NoHook]]
  lastId,     \* [Repos -> Nat]: GitHub's ids increase
  touched,    \* repositories whose owner changed a hook since the run listed it
  pc,         \* where the run is
  url,        \* webhookUrl of the run
  secret,     \* webhookSecret of the run
  seen,       \* ImageRepositories the run was given
  todo,       \* repositories the run has still to visit
  cur,        \* the one it is at
  found,      \* id of the hook it found or made there, 0 for none
  result      \* [Repos -> the row of the summary]

cluster == <<deployed, token, path>>
github == <<hooks, lastId, touched>>
config == <<url, secret, seen>>
vars == <<cluster, github, config, pc, todo, cur, found, result>>

Ids == 1..MaxHooks
Versions == 0..MaxToken

\* form: content_type, both WEBHOOK_EVENTS and active; secret 0: none is set;
\* url 0: a hook that has nothing to do with Flux.
Hook == [url : Versions, secret : Versions, form : BOOLEAN]
NoHook == [none |-> TRUE]
Foreign == [url |-> 0, secret |-> 0, form |-> FALSE]

Exists(r, id) == hooks[r][id] # NoHook

\* listWebhooks without a page: the oldest hooks.
FirstPage(r) ==
  {id \in Ids : Exists(r, id) /\ Cardinality({j \in 1..(id - 1) : Exists(r, j)}) < PageSize}

\* A push of an image of r is delivered by some hook and passes the Receiver.
Delivers(r) ==
  \E id \in Ids : Exists(r, id) /\ hooks[r][id] = [url |-> token, secret |-> token, form |-> TRUE]
                  /\ path = token

----------------------------------------------------------------------------
(* Around the run *)

\* Flux applies a new ImageRepository; the commit hook only warns when the
\* Receiver does not list it.
Deploy(i) ==
  /\ i \notin deployed
  /\ deployed' = deployed \cup {i}
  /\ UNCHANGED <<token, path, github, config, pc, todo, cur, found, result>>

\* A new token, never one that was used before.
RotateToken ==
  /\ token < MaxToken
  /\ token' = token + 1
  /\ UNCHANGED <<deployed, path, github, config, pc, todo, cur, found, result>>

\* The notification controller computes the path of the token some time after.
ReconcileReceiver ==
  /\ path # token
  /\ path' = token
  /\ UNCHANGED <<deployed, token, github, config, pc, todo, cur, found, result>>

OwnerSets(r, id, hook) ==
  /\ hooks' = [hooks EXCEPT ![r][id] = hook]
  /\ touched' = touched \cup {r}
  /\ UNCHANGED <<cluster, config, pc, todo, cur, found, result>>

\* A hook for something else.
OwnerAdds(r) ==
  /\ lastId[r] < MaxHooks
  /\ OwnerSets(r, lastId[r] + 1, Foreign)
  /\ lastId' = [lastId EXCEPT ![r] = @ + 1]

OwnerDeletes(r, id) ==
  /\ Exists(r, id)
  /\ OwnerSets(r, id, NoHook)
  /\ UNCHANGED lastId

\* Unticks an event, deactivates the hook or takes its secret away; nobody types
\* another secret into it.
OwnerEdits(r, id) ==
  /\ Exists(r, id) /\ hooks[r][id] # Foreign
  /\ \/ OwnerSets(r, id, [hooks[r][id] EXCEPT !.form = FALSE])
     \/ OwnerSets(r, id, [hooks[r][id] EXCEPT !.secret = 0])
  /\ UNCHANGED lastId

----------------------------------------------------------------------------
(* The run *)

NoRow == [action |-> "none", ping |-> "none"]

\* A create or update that throws is a row like that of a correct hook, except
\* that nothing was pinged.
FailedRow == [action |-> "unchanged", ping |-> "none"]

\* (Mutant of After: the Secret is read before the Receiver.)
AfterSecretFirst(step) ==
  CASE step = "start" -> "secret"
    [] step = "secret" -> "receiver"
    [] step = "receiver" -> "imagerepository"
    [] step = "imagerepository" -> "loop"

\* The order of the kubectl calls: the Receiver, its Secret, the ImageRepositories.
After(step) ==
  CASE step = "start" -> "receiver"
    [] step = "receiver" -> "secret"
    [] step = "secret" -> "imagerepository"
    [] step = "imagerepository" -> "loop"

\* parseImageToGitHub() is the fallback; an image with neither is skipped.
SourceOf(i) == IF Annotated[i] # NoRepo THEN Annotated[i] ELSE Derived[i]

\* groupImageRepositoriesByGitHub()
Group(images) == {SourceOf(i) : i \in images} \ {NoRepo}

Idle == pc \in {"idle", "done", "failed"}

\* A token from the environment, from `show`, or typed in.
Start ==
  /\ Idle
  /\ pc' = After("start")
  /\ result' = [r \in Repos |-> NoRow]
  /\ url' = 0 /\ secret' = 0 /\ seen' = {}
  /\ todo' = {} /\ cur' = NoRepo /\ found' = 0
  /\ UNCHANGED <<cluster, github>>

\* (Mutant of GetReceiver: a Receiver without a path is not refused.)
GetReceiverAnyway ==
  /\ pc = "receiver"
  /\ pc' = After(pc)
  /\ url' = path
  /\ UNCHANGED <<cluster, github, secret, seen, todo, cur, found, result>>

GetReceiver ==
  /\ pc = "receiver" /\ path # 0
  /\ pc' = After(pc)
  /\ url' = path
  /\ UNCHANGED <<cluster, github, secret, seen, todo, cur, found, result>>

GetSecret ==
  /\ pc = "secret"
  /\ pc' = After(pc)
  /\ secret' = token
  /\ UNCHANGED <<cluster, github, url, seen, todo, cur, found, result>>

GetImages ==
  /\ pc = "imagerepository"
  /\ pc' = After(pc)
  /\ seen' = deployed
  /\ todo' = Group(deployed)
  /\ UNCHANGED <<cluster, github, url, secret, cur, found, result>>

\* No token, a kubectl call that fails, a Receiver without a path or Secret, a
\* listing that fails otherwise than with 404: exit 1, and no summary.
Fail ==
  /\ pc \in {"receiver", "secret", "imagerepository", "loop"}
  /\ pc = "loop" => todo # {}
  /\ pc' = "failed"
  /\ UNCHANGED <<cluster, github, config, todo, cur, found, result>>

\* (Mutant of Matching: a hook that needs an update does not count as found.)
MatchingCorrect(r) ==
  {id \in FirstPage(r) : hooks[r][id] = [url |-> url, secret |-> secret, form |-> TRUE]}

\* Hooks are told apart by their URL alone.
Matching(r) == {id \in FirstPage(r) : hooks[r][id].url = url}

\* isWebhookCorrect(): GitHub shows that there is a secret, not which.
Correct(hook) == hook.form /\ hook.secret # 0

\* getExistingWebhook(): the first match; a repository that is not visible
\* answers 404, which is taken for one that has no hook.
List(r) ==
  /\ pc = "loop" /\ r \in todo
  /\ cur' = r
  /\ IF r \in Visible /\ Matching(r) # {}
       THEN found' = CHOOSE id \in Matching(r) : \A other \in Matching(r) : id <= other
       ELSE found' = 0
  /\ pc' = IF found' # 0 /\ Correct(hooks[r][found']) THEN "keep"
           ELSE IF found' # 0 THEN "update" ELSE "create"
  /\ touched' = touched \ {r}
  /\ UNCHANGED <<cluster, hooks, lastId, config, todo, result>>

OurHook == [url |-> url, secret |-> secret, form |-> TRUE]

\* The row of the repository the run is at; on to the next one.
Report(row) ==
  /\ result' = [result EXCEPT ![cur] = row]
  /\ todo' = todo \ {cur}
  /\ cur' = NoRepo /\ found' = 0
  /\ pc' = "loop"
  /\ UNCHANGED <<cluster, touched, config>>

Stores(id) == hooks' = [hooks EXCEPT ![cur][id] = OurHook]

CreateWebhook ==
  /\ pc = "create" /\ cur \in Visible /\ lastId[cur] < MaxHooks
  /\ Stores(lastId[cur] + 1)
  /\ lastId' = [lastId EXCEPT ![cur] = @ + 1]
  /\ found' = lastId[cur] + 1
  /\ pc' = "ping created"
  /\ UNCHANGED <<cluster, touched, config, todo, cur, result>>

UpdateWebhook ==
  /\ pc = "update" /\ Exists(cur, found)
  /\ Stores(found)
  /\ pc' = "ping updated"
  /\ UNCHANGED <<cluster, lastId, touched, config, todo, cur, found, result>>

\* The request is refused (no access, the hook is gone), or its answer is lost
\* after GitHub has done what it asked.
CreateOrUpdateFails ==
  /\ pc \in {"create", "update"}
  /\ \/ UNCHANGED <<hooks, lastId>>
     \/ /\ pc = "create" /\ cur \in Visible /\ lastId[cur] < MaxHooks
        /\ Stores(lastId[cur] + 1)
        /\ lastId' = [lastId EXCEPT ![cur] = @ + 1]
     \/ pc = "update" /\ Exists(cur, found) /\ Stores(found) /\ UNCHANGED lastId
  /\ Report(FailedRow)

\* GitHub takes the ping of a hook that exists; whether anything accepts what it
\* delivers is not in the answer.
PingWebhook(ping) ==
  /\ pc \in {"keep", "ping created", "ping updated"}
  /\ ping = "success" => Exists(cur, found)
  /\ Report([ping |-> ping,
              action |-> CASE pc = "keep" -> "unchanged"
                           [] pc = "ping created" -> "created"
                           [] pc = "ping updated" -> "updated"])
  /\ UNCHANGED <<hooks, lastId>>

\* Every repository has its row: the summary is printed, exit 0.
Finish ==
  /\ pc = "loop" /\ todo = {}
  /\ pc' = "done"
  /\ UNCHANGED <<cluster, github, config, todo, cur, found, result>>

----------------------------------------------------------------------------

Init ==
  /\ deployed \in SUBSET Images
  /\ token = 1 /\ path = 0
  /\ hooks = [r \in Repos |-> [id \in Ids |-> NoHook]]
  /\ lastId = [r \in Repos |-> 0]
  /\ touched = {}
  /\ pc = "idle" /\ url = 0 /\ secret = 0 /\ seen = {}
  /\ todo = {} /\ cur = NoRepo /\ found = 0
  /\ result = [r \in Repos |-> NoRow]

Environment ==
  \/ \E i \in Images : Deploy(i)
  \/ RotateToken
  \/ ReconcileReceiver
  \/ \E r \in Visible :
       OwnerAdds(r) \/ \E id \in Ids : OwnerDeletes(r, id) \/ OwnerEdits(r, id)

Configure == Start \/ GetReceiver \/ GetSecret \/ GetImages \/ Fail

Visit ==
  \/ \E r \in Repos : List(r)
  \/ CreateWebhook
  \/ UpdateWebhook
  \/ CreateOrUpdateFails
  \/ \E ping \in {"success", "failed"} : PingWebhook(ping)
  \/ Finish

Next == Environment \/ Configure \/ Visit

Spec == Init /\ [][Next]_vars

----------------------------------------------------------------------------
(* Properties *)

TypeOK ==
  /\ deployed \subseteq Images /\ seen \subseteq Images
  /\ token \in 1..MaxToken /\ path \in Versions
  /\ hooks \in [Repos -> [Ids -> Hook \cup {NoHook}]]
  /\ lastId \in [Repos -> 0..MaxHooks]
  /\ touched \subseteq Repos /\ todo \subseteq Repos
  /\ cur \in Repos \cup {NoRepo}
  /\ found \in 0..MaxHooks
  /\ url \in Versions /\ secret \in Versions
  /\ pc \in {"idle", "failed", "receiver"} \/ url # 0
  /\ result \in [Repos -> [action : {"none", "created", "updated", "unchanged"},
                           ping : {"none", "success", "failed"}]]

\* The summary can be believed.  A run that exits 0 has a row for the repository
\* behind every image it was given, and a row that shows a ping, of either
\* outcome, stands for a hook that makes Flux scan, as long as the Receiver is
\* still (or again) where the run read it and the owner left the hooks alone.
\* It rests on reading the Receiver before its Secret: a token that changes in
\* between must not be stored under a URL that a later run takes for correct.
SummaryIsTrue ==
  pc = "done" /\ path = url /\ path = token =>
    \A i \in seen : SourceOf(i) # NoRepo /\ Publisher[i] \notin touched =>
      /\ result[Publisher[i]] # NoRow
      /\ result[Publisher[i]].ping # "none" => Delivers(Publisher[i])

\* Runs that are repeated, that fail half way or whose answers get lost find what
\* they left: in a repository that never had more hooks than listWebhooks shows on
\* one page, no URL has two hooks, whatever its owner edits or deletes.
OneHook ==
  \A r \in Repos, first \in Ids, second \in Ids :
    /\ lastId[r] <= PageSize
    /\ first # second
    /\ Exists(r, first) /\ Exists(r, second)
    /\ hooks[r][first] # Foreign
    => hooks[r][first].url # hooks[r][second].url
=============================================================================
