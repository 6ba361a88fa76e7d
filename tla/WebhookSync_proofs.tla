------------------------- MODULE WebhookSync_proofs -------------------------
EXTENDS WebhookSync, FiniteSetTheorems, WellFoundedInduction, TLAPS

(***************************************************************************)
(* What the run and the hooks are known to be at each step                 *)
(***************************************************************************)

Reading == {"receiver", "secret", "imagerepository"}
AtHook == {"keep", "ping created", "ping updated"}
Visiting == AtHook \cup {"create", "update"}

PcInv == pc \in {"idle", "loop", "done", "failed"} \cup Reading \cup Visiting

\* The path never overtakes the token; the secret of a run is at least as new as
\* its URL, for the Secret is read after the Receiver.
VersionInv ==
  /\ path <= token /\ url <= path /\ secret <= token
  /\ pc \in {"imagerepository", "loop", "done"} \cup Visiting => url <= secret

\* The secret of a hook is at least as new as its URL.
Sound(hook) ==
  hook = Foreign \/ /\ hook.url # 0
                    /\ hook.secret # 0 => hook.url <= hook.secret /\ hook.secret <= token

HookInv ==
  \A r \in Repos, id \in Ids : Exists(r, id) => id <= lastId[r] /\ Sound(hooks[r][id])

\* A later run would take this hook for correct.
Works(r, id) == Exists(r, id) /\ hooks[r][id].url = url /\ Correct(hooks[r][id])

\* A ping is on record for hooks that work, but for what the owner did since.
Pinged(r) ==
  result[r].ping # "none" /\ r \notin touched => \E id \in Ids : Works(r, id)

\* Every repository that was seen is to be visited or has a row.
Covered(i) ==
  SourceOf(i) # NoRepo => SourceOf(i) \in todo \/ result[SourceOf(i)] # NoRow

RowInv ==
  /\ pc \in Reading => result = [r \in Repos |-> NoRow]
  /\ \A r \in todo : result[r] = NoRow
  /\ pc = "done" => todo = {}
  /\ pc \in {"loop", "done"} \cup Visiting => \A i \in seen : Covered(i)
  /\ \A r \in Repos : Pinged(r)

\* What List found out stays true until the run acts on it.
VisitInv ==
  pc \in Visiting =>
    /\ cur \in todo
    /\ pc # "create" => found \in Ids /\ found <= lastId[cur]
    /\ pc = "create" /\ cur \in Visible =>
         \A id \in Ids : id <= PageSize /\ Exists(cur, id) => hooks[cur][id].url # url
    /\ pc = "update" /\ Exists(cur, found) => hooks[cur][found].url = url
    /\ pc \in AtHook /\ cur \notin touched => Works(cur, found)

\* Two hooks of one URL: the older one is not among the first of the repository.
\* OneHook is not inductive: of a longer list it says nothing, and owners delete.
PageInv ==
  \A r \in Repos, first \in Ids, second \in Ids :
    /\ first < second
    /\ Exists(r, first) /\ Exists(r, second)
    /\ hooks[r][first] # Foreign /\ hooks[r][first].url = hooks[r][second].url
    => first > PageSize

HookSyncInv ==
  /\ TypeOK /\ PcInv /\ VersionInv /\ HookInv /\ RowInv /\ VisitInv /\ PageInv

(***************************************************************************)
(* Data                                                                    *)
(***************************************************************************)

USE HookAssumption DEF HookAssumption

LEMMA HookIsNotNoHook == ASSUME NEW h \in Hook PROVE h # NoHook
<1>1. "url" \in DOMAIN h
  BY DEF Hook
<1>2. "url" \notin DOMAIN NoHook
  BY DEF NoHook
<1>3. QED
  BY <1>1, <1>2

LEMMA ForeignIsHook == Foreign \in Hook
BY DEF Foreign, Hook, Versions

\* SourceOf names the publisher, or nothing.
LEMMA SourceIsPublisher ==
  ASSUME NEW i \in Images
  PROVE  /\ SourceOf(i) \in Repos \cup {NoRepo}
         /\ SourceOf(i) # NoRepo => SourceOf(i) = Publisher[i]
BY SourceAssumption DEF SourceAssumption, SourceOf

\* Numbers that are compared.
LEMMA Numbers ==
  ASSUME TypeOK
  PROVE  /\ token \in Nat /\ path \in Nat /\ url \in Nat /\ secret \in Nat
         /\ \A r \in Repos : lastId[r] \in Nat /\ lastId[r] <= MaxHooks
         /\ Ids \subseteq Nat
BY DEF TypeOK, Versions, Ids

\* The hook at an id is a hook or none.
LEMMA HookType ==
  ASSUME TypeOK, NEW r \in Repos, NEW id \in Ids
  PROVE  /\ hooks[r][id] \in Hook \cup {NoHook}
         /\ Exists(r, id) => hooks[r][id] \in Hook
BY DEF TypeOK, Exists

\* The hooks of the first page are those with fewer than PageSize older ones.
LEMMA FirstIdsOnFirstPage ==
  ASSUME TypeOK, NEW r \in Repos, NEW id \in Ids, Exists(r, id), id <= PageSize
  PROVE  id \in FirstPage(r)
<1> DEFINE older == {j \in 1..(id - 1) : Exists(r, j)}
<1>1. id \in Nat /\ id >= 1
  BY DEF Ids
<1>2. IsFiniteSet(1..(id - 1)) /\ Cardinality(1..(id - 1)) = id - 1
  <2>1. 1 \in Int /\ id - 1 \in Int
    BY <1>1
  <2>2. Cardinality(1..(id - 1)) = IF 1 > id - 1 THEN 0 ELSE (id - 1) - 1 + 1
    BY <2>1, FS_Interval
  <2>3. IsFiniteSet(1..(id - 1))
    BY <2>1, FS_Interval
  <2>4. QED
    BY <1>1, <2>2, <2>3
<1>3. older \subseteq 1..(id - 1)
  OBVIOUS
<1>4. IsFiniteSet(older) /\ Cardinality(older) <= Cardinality(1..(id - 1))
  BY <1>2, <1>3, FS_Subset
<1>5. Cardinality(older) \in Nat
  BY <1>4, FS_CardinalityType
<1>6. Cardinality(older) < PageSize
  BY <1>1, <1>2, <1>4, <1>5
<1>7. QED
  BY <1>6 DEF FirstPage

\* getExistingWebhook returns one of the hooks that match.
LEMMA FirstMatch ==
  ASSUME NEW r \in Repos, Matching(r) # {}
  PROVE  (CHOOSE id \in Matching(r) : \A other \in Matching(r) : id <= other) \in Matching(r)
<1>1. Matching(r) \subseteq Nat
  BY DEF Matching, FirstPage, Ids
<1>2. PICK least \in Matching(r) :
        \A other \in Matching(r) : ~ (<<other, least>> \in OpToRel(<, Nat))
  BY <1>1, WFMin, NatLessThanWellFounded
<1>3. \A other \in Matching(r) : least <= other
  <2>1. SUFFICES ASSUME NEW other \in Matching(r) PROVE least <= other
    OBVIOUS
  <2>2. ~ (other < least)
    BY <1>1, <1>2 DEF OpToRel
  <2>3. QED
    BY <1>1, <2>2
<1>4. QED
  BY <1>3

(***************************************************************************)
(* The hooks                                                               *)
(***************************************************************************)

\* A hook that is sound stays sound under a newer token.
LEMMA SoundStays ==
  ASSUME TypeOK, TypeOK', token <= token', NEW h \in Hook, Sound(h)
  PROVE  Sound(h)'
<1>1. h.url \in Nat /\ h.secret \in Nat
  BY DEF Hook, Versions
<1>2. token \in Nat /\ token' \in Nat
  BY DEF TypeOK
<1>3. QED
  BY <1>1, <1>2 DEF Sound

LEMMA HooksStay ==
  ASSUME TypeOK, TypeOK', HookInv, PageInv, UNCHANGED <<hooks, lastId>>, token <= token'
  PROVE  HookInv' /\ PageInv'
<1>1. ASSUME NEW r \in Repos, NEW id \in Ids, Exists(r, id)'
      PROVE  id <= lastId'[r] /\ Sound(hooks[r][id])'
  <2>1. Exists(r, id) /\ hooks[r][id] \in Hook
    BY <1>1, HookType DEF Exists
  <2>2. id <= lastId[r] /\ Sound(hooks[r][id])
    BY <2>1 DEF HookInv
  <2>3. QED
    BY <2>1, <2>2, SoundStays DEF Sound
<1>2. HookInv'
  BY <1>1 DEF HookInv
<1>3. PageInv'
  BY DEF PageInv, Exists
<1>4. QED
  BY <1>2, <1>3

\* A hook is made: it gets the next id.
LEMMA NewHook ==
  ASSUME TypeOK, HookInv, PageInv, NEW r \in Repos, NEW h \in Hook,
         lastId[r] < MaxHooks, Sound(h), UNCHANGED token,
         hooks' = [hooks EXCEPT ![r][lastId[r] + 1] = h],
         lastId' = [lastId EXCEPT ![r] = @ + 1],
         \A j \in Ids : Exists(r, j) /\ hooks[r][j] # Foreign /\ hooks[r][j].url = h.url
                         => j > PageSize
  PROVE  HookInv' /\ PageInv'
<1> DEFINE new == lastId[r] + 1
<1>1. new \in Ids /\ new \in Nat /\ lastId[r] \in Nat
  BY Numbers DEF Ids
<1>2. /\ hooks'[r][new] = h
      /\ \A q \in Repos, j \in Ids : q # r \/ j # new => hooks'[q][j] = hooks[q][j]
  BY <1>1 DEF TypeOK
<1>3. /\ lastId'[r] = new
      /\ \A q \in Repos \ {r} : lastId'[q] = lastId[q]
  BY DEF TypeOK
<1>4. \A q \in Repos, j \in Ids :
        Exists(q, j) => j \in Nat /\ j <= lastId[q] /\ Sound(hooks[q][j])
  BY Numbers DEF HookInv
<1>5. ASSUME NEW q \in Repos, NEW j \in Ids, Exists(q, j)'
      PROVE  j <= lastId'[q] /\ Sound(hooks[q][j])'
  <2>1. CASE q = r /\ j = new
    BY <1>1, <1>2, <1>3, <2>1 DEF Sound
  <2>2. CASE q # r \/ j # new
    <3>1. Exists(q, j) /\ hooks'[q][j] = hooks[q][j]
      BY <1>2, <1>5, <2>2 DEF Exists
    <3>2. Sound(hooks[q][j])'
      BY <1>4, <3>1 DEF Sound
    <3>3. lastId[q] \in Nat /\ j \in Nat /\ j <= lastId[q]
      BY <1>4, <3>1, Numbers
    <3>4. CASE q = r
      BY <1>1, <1>3, <3>2, <3>3, <3>4
    <3>5. CASE q # r
      BY <1>3, <3>2, <3>3, <3>5
    <3>6. QED
      BY <3>4, <3>5
  <2>3. QED
    BY <2>1, <2>2
<1>6. HookInv'
  BY <1>5 DEF HookInv
<1>7. ASSUME NEW q \in Repos, NEW first \in Ids, NEW second \in Ids, first < second,
             Exists(q, first)', Exists(q, second)',
             hooks'[q][first] # Foreign, hooks'[q][first].url = hooks'[q][second].url
      PROVE  first > PageSize
  <2>1. first \in Nat /\ second \in Nat
    BY Numbers
  <2>2. CASE q = r /\ first = new
    <3>1. Exists(r, second) /\ second > lastId[r]
      BY <1>1, <1>2, <1>7, <2>1, <2>2 DEF Exists
    <3>2. QED
      BY <1>1, <1>4, <2>1, <3>1
  <2>3. CASE q = r /\ second = new
    <3>1. hooks'[q][first] = hooks[q][first] /\ Exists(r, first)
      BY <1>2, <1>7, <2>1, <2>3 DEF Exists
    <3>2. QED
      BY <1>2, <1>7, <2>3, <3>1
  <2>4. CASE q # r \/ (first # new /\ second # new)
    <3>1. hooks'[q][first] = hooks[q][first] /\ hooks'[q][second] = hooks[q][second]
      BY <1>2, <2>4
    <3>2. QED
      BY <1>7, <3>1 DEF PageInv, Exists
  <2>5. QED
    BY <2>2, <2>3, <2>4
<1>8. PageInv'
  BY <1>7 DEF PageInv
<1>9. QED
  BY <1>6, <1>8

\* A hook that is there is changed, and keeps its URL.
LEMMA ChangedHook ==
  ASSUME TypeOK, HookInv, PageInv, NEW r \in Repos, NEW id \in Ids, NEW h \in Hook,
         Exists(r, id), hooks[r][id] # Foreign, hooks[r][id].url = h.url,
         Sound(h), UNCHANGED <<token, lastId>>,
         hooks' = [hooks EXCEPT ![r][id] = h]
  PROVE  HookInv' /\ PageInv'
<1>1. /\ hooks'[r][id] = h
      /\ \A q \in Repos, j \in Ids : q # r \/ j # id => hooks'[q][j] = hooks[q][j]
  BY DEF TypeOK
<1>2. HookInv'
  BY <1>1 DEF HookInv, Exists, Sound
<1>3. \A q \in Repos, j \in Ids :
        Exists(q, j)' => Exists(q, j) /\ hooks'[q][j].url = hooks[q][j].url
  BY <1>1 DEF Exists
<1>4. \A q \in Repos, j \in Ids : hooks'[q][j] # Foreign => hooks[q][j] # Foreign
  BY <1>1
<1>5. PageInv'
  BY <1>3, <1>4 DEF PageInv
<1>6. QED
  BY <1>2, <1>5

\* A hook is deleted.
LEMMA DeletedHook ==
  ASSUME TypeOK, HookInv, PageInv, NEW r \in Repos, NEW id \in Ids,
         UNCHANGED <<token, lastId>>, hooks' = [hooks EXCEPT ![r][id] = NoHook]
  PROVE  HookInv' /\ PageInv'
<1>1. /\ hooks'[r][id] = NoHook
      /\ \A q \in Repos, j \in Ids : q # r \/ j # id => hooks'[q][j] = hooks[q][j]
  BY DEF TypeOK
<1>2. \A q \in Repos, j \in Ids : Exists(q, j)' => Exists(q, j) /\ hooks'[q][j] = hooks[q][j]
  BY <1>1 DEF Exists
<1>3. HookInv'
  BY <1>2 DEF HookInv, Sound
<1>4. PageInv'
  BY <1>2 DEF PageInv
<1>5. QED
  BY <1>3, <1>4

(***************************************************************************)
(* Type correctness                                                        *)
(***************************************************************************)

Rows == [action : {"none", "created", "updated", "unchanged"},
         ping : {"none", "success", "failed"}]

LEMMA OurHookType == TypeOK => OurHook \in Hook
BY DEF TypeOK, OurHook, Hook

\* A step of the owner keeps the types.
LEMMA OwnerSetsType ==
  ASSUME TypeOK, NEW r \in Repos, NEW id \in Ids, NEW h \in Hook \cup {NoHook},
         OwnerSets(r, id, h)
  PROVE  hooks' \in [Repos -> [Ids -> Hook \cup {NoHook}]] /\ touched' \subseteq Repos
BY DEF TypeOK, OwnerSets

LEMMA EditedType ==
  ASSUME TypeOK, NEW r \in Repos, NEW id \in Ids, Exists(r, id)
  PROVE  /\ [hooks[r][id] EXCEPT !.form = FALSE] \in Hook
         /\ [hooks[r][id] EXCEPT !.secret = 0] \in Hook
         /\ [hooks[r][id] EXCEPT !.form = FALSE].url = hooks[r][id].url
         /\ [hooks[r][id] EXCEPT !.secret = 0].url = hooks[r][id].url
         /\ [hooks[r][id] EXCEPT !.form = FALSE].secret = hooks[r][id].secret
         /\ [hooks[r][id] EXCEPT !.secret = 0].secret = 0
<1>1. hooks[r][id] \in Hook
  BY HookType
<1>2. 0 \in Versions
  BY DEF Versions
<1>3. QED
  BY <1>1, <1>2 DEF Hook

\* A request that GitHub has acted on keeps the types.
LEMMA StoresType ==
  ASSUME TypeOK, cur \in Repos, NEW id \in Ids, Stores(id)
  PROVE  hooks' \in [Repos -> [Ids -> Hook \cup {NoHook}]]
BY OurHookType DEF TypeOK, Stores

LEMMA NextIdType ==
  ASSUME TypeOK, NEW r \in Repos, lastId[r] < MaxHooks,
         lastId' = [lastId EXCEPT ![r] = @ + 1]
  PROVE  /\ lastId[r] + 1 \in Ids /\ lastId[r] + 1 \in 0..MaxHooks
         /\ lastId' \in [Repos -> 0..MaxHooks]
<1>1. lastId[r] \in Nat
  BY Numbers
<1>2. lastId[r] + 1 \in Ids /\ lastId[r] + 1 \in 0..MaxHooks
  BY <1>1 DEF Ids
<1>3. QED
  BY <1>2 DEF TypeOK

LEMMA ReportType ==
  ASSUME TypeOK, NEW row \in Rows, Report(row)
  PROVE  /\ result' \in [Repos -> Rows] /\ todo' \subseteq Repos
         /\ cur' = NoRepo /\ found' \in 0..MaxHooks /\ pc' = "loop"
         /\ UNCHANGED <<deployed, token, path, touched, url, secret, seen>>
<1>1. result' = [result EXCEPT ![cur] = row] /\ result \in [Repos -> Rows]
  BY DEF Report, TypeOK, Rows
<1>2. result' \in [Repos -> Rows]
  BY <1>1
<1>3. todo' \subseteq Repos /\ found' \in 0..MaxHooks
  BY DEF Report, TypeOK
<1>4. QED
  BY <1>2, <1>3 DEF Report, cluster, config

LEMMA InitType == Init => TypeOK /\ PcInv
<1> SUFFICES ASSUME Init PROVE TypeOK /\ PcInv
  OBVIOUS
<1>1. hooks \in [Repos -> [Ids -> Hook \cup {NoHook}]]
  BY DEF Init
<1>2. result \in [Repos -> Rows]
  BY DEF Init, NoRow, Rows
<1>3. token \in 1..MaxToken
  BY DEF Init
<1>4. QED
  BY <1>1, <1>2, <1>3 DEF Init, TypeOK, PcInv, Versions, Rows

LEMMA TypeStep ==
  ASSUME TypeOK, PcInv, VisitInv, Next
  PROVE  TypeOK' /\ PcInv'
<1> USE DEF vars, cluster, github, config
<1>1. ASSUME NEW i \in Images, Deploy(i) PROVE TypeOK' /\ PcInv'
  BY <1>1 DEF TypeOK, PcInv, Deploy
<1>2. ASSUME RotateToken PROVE TypeOK' /\ PcInv'
  <2>1. token' \in 1..MaxToken
    BY <1>2 DEF TypeOK, RotateToken
  <2>2. QED
    BY <1>2, <2>1 DEF TypeOK, PcInv, RotateToken
<1>3. ASSUME ReconcileReceiver PROVE TypeOK' /\ PcInv'
  <2>1. path' \in Versions
    BY <1>3 DEF TypeOK, ReconcileReceiver, Versions
  <2>2. QED
    BY <1>3, <2>1 DEF TypeOK, PcInv, ReconcileReceiver
<1>4. ASSUME NEW r \in Visible, OwnerAdds(r) PROVE TypeOK' /\ PcInv'
  <2>1. r \in Repos
    OBVIOUS
  <2>2. lastId[r] + 1 \in Ids /\ lastId' \in [Repos -> 0..MaxHooks]
    BY <1>4, <2>1, NextIdType DEF OwnerAdds
  <2>3. hooks' \in [Repos -> [Ids -> Hook \cup {NoHook}]] /\ touched' \subseteq Repos
    BY <1>4, <2>1, <2>2, ForeignIsHook, OwnerSetsType DEF OwnerAdds
  <2>4. QED
    BY <1>4, <2>2, <2>3 DEF TypeOK, PcInv, OwnerAdds, OwnerSets
<1>5. ASSUME NEW r \in Visible, NEW id \in Ids, OwnerDeletes(r, id) PROVE TypeOK' /\ PcInv'
  <2>1. hooks' \in [Repos -> [Ids -> Hook \cup {NoHook}]] /\ touched' \subseteq Repos
    BY <1>5, OwnerSetsType DEF OwnerDeletes
  <2>2. QED
    BY <1>5, <2>1 DEF TypeOK, PcInv, OwnerDeletes, OwnerSets
<1>6. ASSUME NEW r \in Visible, NEW id \in Ids, OwnerEdits(r, id) PROVE TypeOK' /\ PcInv'
  <2>1. PICK h \in Hook : OwnerSets(r, id, h) /\ UNCHANGED lastId
    BY <1>6, EditedType DEF OwnerEdits
  <2>2. hooks' \in [Repos -> [Ids -> Hook \cup {NoHook}]] /\ touched' \subseteq Repos
    BY <2>1, OwnerSetsType
  <2>3. QED
    BY <2>1, <2>2 DEF TypeOK, PcInv, OwnerSets
<1>7. ASSUME Start PROVE TypeOK' /\ PcInv'
  <2>1. result' \in [Repos -> Rows]
    BY <1>7 DEF Start, NoRow, Rows
  <2>2. QED
    BY <1>7, <2>1 DEF TypeOK, PcInv, Start, After, Reading, Rows, Versions
<1>8. ASSUME GetReceiver PROVE TypeOK' /\ PcInv'
  BY <1>8 DEF TypeOK, PcInv, GetReceiver, After, Reading
<1>9. ASSUME GetSecret PROVE TypeOK' /\ PcInv'
  <2>1. secret' \in Versions /\ url # 0
    BY <1>9 DEF TypeOK, GetSecret, Versions
  <2>2. QED
    BY <1>9, <2>1 DEF TypeOK, PcInv, GetSecret, After, Reading
<1>10. ASSUME GetImages PROVE TypeOK' /\ PcInv'
  <2>1. todo' \subseteq Repos
    BY <1>10, SourceIsPublisher DEF TypeOK, GetImages, Group
  <2>2. url # 0
    BY <1>10 DEF TypeOK, GetImages
  <2>3. QED
    BY <1>10, <2>1, <2>2 DEF TypeOK, PcInv, GetImages, After, Reading
<1>11. ASSUME Fail PROVE TypeOK' /\ PcInv'
  BY <1>11 DEF TypeOK, PcInv, Fail
<1>12. ASSUME NEW r \in Repos, List(r) PROVE TypeOK' /\ PcInv'
  <2>1. url # 0
    BY <1>12 DEF TypeOK, List
  <2>2. found' \in 0..MaxHooks
    <3>1. found' = 0 \/ found' \in Matching(r)
      BY <1>12, FirstMatch DEF List
    <3>2. QED
      BY <3>1 DEF Matching, FirstPage, Ids
  <2>3. pc' \in {"keep", "update", "create"}
    BY <1>12 DEF List
  <2>4. QED
    BY <1>12, <2>1, <2>2, <2>3 DEF TypeOK, PcInv, List, AtHook, Visiting
<1>13. ASSUME CreateWebhook PROVE TypeOK' /\ PcInv'
  <2>1. cur \in Repos /\ url # 0
    BY <1>13 DEF CreateWebhook, TypeOK
  <2>2. /\ lastId[cur] + 1 \in Ids /\ lastId[cur] + 1 \in 0..MaxHooks
        /\ lastId' \in [Repos -> 0..MaxHooks]
    BY <1>13, <2>1, NextIdType DEF CreateWebhook
  <2>3. hooks' \in [Repos -> [Ids -> Hook \cup {NoHook}]]
    BY <1>13, <2>1, <2>2, StoresType DEF CreateWebhook
  <2>4. QED
    BY <1>13, <2>1, <2>2, <2>3 DEF TypeOK, PcInv, CreateWebhook, AtHook, Visiting
<1>14. ASSUME UpdateWebhook PROVE TypeOK' /\ PcInv'
  <2>1. cur \in Repos /\ found \in Ids /\ url # 0
    BY <1>14 DEF UpdateWebhook, TypeOK, VisitInv, Visiting
  <2>2. hooks' \in [Repos -> [Ids -> Hook \cup {NoHook}]]
    BY <1>14, <2>1, StoresType DEF UpdateWebhook
  <2>3. QED
    BY <1>14, <2>1, <2>2 DEF TypeOK, PcInv, UpdateWebhook, AtHook, Visiting
<1>15. ASSUME CreateOrUpdateFails PROVE TypeOK' /\ PcInv'
  <2>1. cur \in Repos /\ url # 0 /\ (pc = "update" => found \in Ids)
    BY <1>15 DEF CreateOrUpdateFails, TypeOK, VisitInv, Visiting
  <2>2. /\ hooks' \in [Repos -> [Ids -> Hook \cup {NoHook}]]
        /\ lastId' \in [Repos -> 0..MaxHooks]
    <3>1. CASE UNCHANGED <<hooks, lastId>>
      BY <3>1 DEF TypeOK
    <3>2. CASE /\ lastId[cur] < MaxHooks /\ Stores(lastId[cur] + 1)
               /\ lastId' = [lastId EXCEPT ![cur] = @ + 1]
      BY <2>1, <3>2, NextIdType, StoresType
    <3>3. CASE pc = "update" /\ Stores(found) /\ UNCHANGED lastId
      <4>1. hooks' \in [Repos -> [Ids -> Hook \cup {NoHook}]]
        BY <2>1, <3>3, StoresType
      <4>2. QED
        BY <3>3, <4>1 DEF TypeOK
    <3>4. QED
      BY <1>15, <3>1, <3>2, <3>3 DEF CreateOrUpdateFails
  <2>3. Report(FailedRow) /\ FailedRow \in Rows
    BY <1>15 DEF CreateOrUpdateFails, FailedRow, Rows
  <2>4. QED
    BY <2>1, <2>2, <2>3, ReportType DEF TypeOK, PcInv, Rows
<1>16. ASSUME NEW ping \in {"success", "failed"}, PingWebhook(ping) PROVE TypeOK' /\ PcInv'
  <2>1. PICK action \in {"created", "updated", "unchanged"} :
          Report([ping |-> ping, action |-> action])
    BY <1>16 DEF PingWebhook
  <2>2. [ping |-> ping, action |-> action] \in Rows
    BY DEF Rows
  <2>3. url # 0 /\ UNCHANGED <<hooks, lastId>>
    BY <1>16 DEF PingWebhook, TypeOK
  <2>4. QED
    BY <2>1, <2>2, <2>3, ReportType DEF TypeOK, PcInv, Rows
<1>17. ASSUME Finish PROVE TypeOK' /\ PcInv'
  BY <1>17 DEF TypeOK, PcInv, Finish
<1>18. QED
  BY <1>1, <1>2, <1>3, <1>4, <1>5, <1>6, <1>7, <1>8, <1>9, <1>10, <1>11, <1>12, <1>13, <1>14,
     <1>15, <1>16, <1>17 DEF Next, Environment, Configure, Visit

(***************************************************************************)
(* What one step does                                                      *)
(***************************************************************************)

OwnerActs(r) == OwnerAdds(r) \/ \E id \in Ids : OwnerDeletes(r, id) \/ OwnerEdits(r, id)

\* The owner changes one repository, which counts as touched; the hooks that stay
\* keep their URL, and one that is new points nowhere.
LEMMA OwnerEffect ==
  ASSUME TypeOK, NEW r \in Visible, OwnerActs(r)
  PROVE  /\ UNCHANGED <<deployed, token, path, url, secret, seen, pc, todo, cur, found, result>>
         /\ touched' = touched \cup {r}
         /\ \A q \in Repos : lastId[q] <= lastId'[q]
         /\ \A q \in Repos \ {r} : hooks'[q] = hooks[q]
         /\ \A q \in Repos, j \in Ids : Exists(q, j)' =>
              \/ Exists(q, j) /\ hooks'[q][j].url = hooks[q][j].url
              \/ j > lastId[q] /\ hooks'[q][j].url = 0
<1> USE DEF cluster, config
<1>1. r \in Repos /\ \A q \in Repos : lastId[q] \in Nat
  BY Numbers
<1>2. CASE OwnerAdds(r)
  <2>1. /\ hooks' = [hooks EXCEPT ![r][lastId[r] + 1] = Foreign]
        /\ lastId' = [lastId EXCEPT ![r] = @ + 1]
        /\ lastId[r] + 1 \in Ids /\ lastId[r] + 1 > lastId[r]
    <3>1. /\ hooks' = [hooks EXCEPT ![r][lastId[r] + 1] = Foreign]
          /\ lastId[r] < MaxHooks /\ lastId' = [lastId EXCEPT ![r] = @ + 1]
      BY <1>2 DEF OwnerAdds, OwnerSets
    <3>2. lastId[r] + 1 \in Ids
      BY <1>1, <3>1, NextIdType
    <3>3. lastId[r] \in Nat
      BY <1>1
    <3>4. QED
      BY <3>1, <3>2, <3>3
  <2>2. \A q \in Repos : lastId[q] <= lastId'[q]
    <3>1. \A q \in Repos : lastId'[q] = lastId[q] \/ lastId'[q] = lastId[q] + 1
      BY <2>1 DEF TypeOK
    <3>2. QED
      BY <1>1, <3>1
  <2>3. /\ hooks'[r][lastId[r] + 1] = Foreign
        /\ \A q \in Repos, j \in Ids :
             q # r \/ j # lastId[r] + 1 => hooks'[q][j] = hooks[q][j]
        /\ \A q \in Repos \ {r} : hooks'[q] = hooks[q]
    BY <1>1, <2>1 DEF TypeOK
  <2>4. ASSUME NEW q \in Repos, NEW j \in Ids, Exists(q, j)'
        PROVE  \/ Exists(q, j) /\ hooks'[q][j].url = hooks[q][j].url
               \/ j > lastId[q] /\ hooks'[q][j].url = 0
    BY <2>1, <2>3, <2>4 DEF Exists, Foreign
  <2>5. QED
    BY <1>2, <2>2, <2>3, <2>4 DEF OwnerAdds, OwnerSets
<1>3. ASSUME NEW id \in Ids, OwnerDeletes(r, id) \/ OwnerEdits(r, id)
      PROVE  /\ UNCHANGED <<deployed, token, path, url, secret, seen, pc, todo, cur, found,
                            result>>
             /\ touched' = touched \cup {r} /\ UNCHANGED lastId
             /\ \A q \in Repos \ {r} : hooks'[q] = hooks[q]
             /\ \A q \in Repos, j \in Ids : Exists(q, j)' =>
                  Exists(q, j) /\ hooks'[q][j].url = hooks[q][j].url
  <2>1. PICK h \in Hook \cup {NoHook} :
          /\ OwnerSets(r, id, h) /\ UNCHANGED lastId
          /\ h # NoHook => Exists(r, id) /\ h.url = hooks[r][id].url
    BY <1>1, <1>3, EditedType DEF OwnerDeletes, OwnerEdits
  <2>2. hooks' = [hooks EXCEPT ![r][id] = h]
    BY <2>1 DEF OwnerSets
  <2>3. /\ hooks'[r][id] = h
        /\ \A q \in Repos, j \in Ids : q # r \/ j # id => hooks'[q][j] = hooks[q][j]
        /\ \A q \in Repos \ {r} : hooks'[q] = hooks[q]
    BY <1>1, <2>2 DEF TypeOK
  <2>4. \A q \in Repos, j \in Ids : Exists(q, j)' =>
          Exists(q, j) /\ hooks'[q][j].url = hooks[q][j].url
    BY <2>1, <2>3 DEF Exists
  <2>5. QED
    BY <2>1, <2>3, <2>4 DEF OwnerSets
<1>4. \A q \in Repos : lastId[q] <= lastId[q]
  BY <1>1
<1>5. CASE \E id \in Ids : OwnerDeletes(r, id) \/ OwnerEdits(r, id)
  BY <1>3, <1>4, <1>5
<1>6. QED
  BY <1>2, <1>5 DEF OwnerActs

\* What the run stores works.
LEMMA OurHookWorks ==
  ASSUME TypeOK, PcInv, VersionInv, pc \in {"create", "update"}
  PROVE  /\ OurHook \in Hook /\ OurHook # NoHook /\ Sound(OurHook)
         /\ OurHook.url = url /\ Correct(OurHook) /\ url # 0
<1>1. url # 0 /\ url <= secret /\ secret <= token
  BY DEF TypeOK, VersionInv, Visiting
<1>2. secret # 0
  BY <1>1, Numbers
<1>3. OurHook \in Hook /\ OurHook # NoHook
  BY OurHookType, HookIsNotNoHook
<1>4. QED
  BY <1>1, <1>2, <1>3 DEF OurHook, Sound, Correct

\* A request to GitHub that had its effect.
Effective(id) ==
  \/ /\ pc = "create" /\ cur \in Visible /\ lastId[cur] < MaxHooks
     /\ id = lastId[cur] + 1 /\ Stores(id)
     /\ lastId' = [lastId EXCEPT ![cur] = @ + 1]
  \/ pc = "update" /\ Exists(cur, found) /\ id = found /\ Stores(id) /\ UNCHANGED lastId

LEMMA EffectiveType ==
  ASSUME TypeOK, PcInv, VersionInv, VisitInv, NEW id, Effective(id)
  PROVE  /\ cur \in Repos /\ id \in Ids /\ id <= lastId'[cur]
         /\ hooks'[cur][id] = OurHook /\ OurHook # NoHook
         /\ \A q \in Repos, j \in Ids : q # cur \/ j # id => hooks'[q][j] = hooks[q][j]
<1>1. cur \in Repos /\ pc \in {"create", "update"}
  BY DEF Effective, VisitInv, TypeOK, Visiting
<1>2. id \in Ids /\ id <= lastId'[cur]
  <2>1. CASE pc = "create"
    <3>1. lastId[cur] \in Nat /\ lastId'[cur] = lastId[cur] + 1 /\ id = lastId[cur] + 1
      BY <1>1, <2>1, Numbers DEF Effective, TypeOK
    <3>2. QED
      BY <1>1, <2>1, <3>1, NextIdType DEF Effective
  <2>2. CASE pc = "update"
    BY <2>2 DEF Effective, VisitInv, Visiting
  <2>3. QED
    BY <1>1, <2>1, <2>2
<1>3. hooks' = [hooks EXCEPT ![cur][id] = OurHook]
  BY DEF Effective, Stores
<1>4. /\ hooks'[cur][id] = OurHook
      /\ \A q \in Repos, j \in Ids : q # cur \/ j # id => hooks'[q][j] = hooks[q][j]
  BY <1>1, <1>2, <1>3 DEF TypeOK
<1>5. OurHook # NoHook
  BY <1>1, OurHookWorks
<1>6. QED
  BY <1>1, <1>2, <1>4, <1>5

LEMMA EffectiveFrame ==
  ASSUME TypeOK, VisitInv, NEW id, Effective(id)
  PROVE  \A q \in Repos \ {cur} : hooks'[q] = hooks[q]
<1>1. hooks' = [hooks EXCEPT ![cur][id] = OurHook]
  BY DEF Effective, Stores
<1>2. QED
  BY <1>1 DEF TypeOK

LEMMA EffectiveKeepsHooks ==
  ASSUME TypeOK, PcInv, VersionInv, HookInv, VisitInv, PageInv, NEW id, Effective(id),
         UNCHANGED token
  PROVE  HookInv' /\ PageInv'
<1>1. cur \in Repos /\ id \in Ids /\ pc \in {"create", "update"} /\ cur \in todo
  BY EffectiveType DEF Effective, VisitInv, Visiting
<1>2. /\ OurHook \in Hook /\ Sound(OurHook) /\ OurHook.url = url /\ url # 0
  BY <1>1, OurHookWorks
<1>3. CASE pc = "create"
  <2>1. /\ hooks' = [hooks EXCEPT ![cur][lastId[cur] + 1] = OurHook]
        /\ lastId[cur] < MaxHooks /\ lastId' = [lastId EXCEPT ![cur] = @ + 1]
    BY <1>3 DEF Effective, Stores
  <2>2. ASSUME NEW j \in Ids, Exists(cur, j), hooks[cur][j].url = OurHook.url
        PROVE  j > PageSize
    <3>1. ~ (j <= PageSize)
      BY <1>2, <1>3, <2>2 DEF Effective, VisitInv, Visiting
    <3>2. j \in Nat
      BY Numbers
    <3>3. QED
      BY <3>1, <3>2
  <2>3. QED
    BY <1>1, <1>2, <2>1, <2>2, NewHook
<1>4. CASE pc = "update"
  <2>1. /\ hooks' = [hooks EXCEPT ![cur][found] = OurHook]
        /\ Exists(cur, found) /\ found \in Ids /\ UNCHANGED lastId
        /\ hooks[cur][found].url = OurHook.url
    BY <1>2, <1>4 DEF Effective, Stores, VisitInv, Visiting
  <2>2. hooks[cur][found] # Foreign
    BY <1>2, <2>1 DEF Foreign
  <2>3. QED
    BY <1>1, <1>2, <2>1, <2>2, ChangedHook
<1>5. QED
  BY <1>1, <1>3, <1>4

\* A failed request had its effect or none.
LEMMA FailsCases ==
  ASSUME TypeOK, VisitInv, CreateOrUpdateFails
  PROVE  /\ Report(FailedRow) /\ cur \in todo
         /\ UNCHANGED <<hooks, lastId>> \/ \E id : Effective(id)
BY DEF CreateOrUpdateFails, Effective, VisitInv, Visiting

(***************************************************************************)
(* Versions and hooks                                                      *)
(***************************************************************************)

LEMMA VersionStep ==
  ASSUME TypeOK, PcInv, VersionInv, VisitInv, Next
  PROVE  VersionInv' /\ token <= token'
<1> USE DEF cluster, config, github
<1> DEFINE Through == {"imagerepository", "loop", "done"} \cup Visiting
<1>n. token \in Nat /\ path \in Nat /\ url \in Nat /\ secret \in Nat
  BY Numbers
<1>1. ASSUME RotateToken PROVE VersionInv' /\ token <= token'
  <2>1. token' = token + 1 /\ UNCHANGED <<path, url, secret, pc>>
    BY <1>1 DEF RotateToken
  <2>2. QED
    BY <1>n, <2>1 DEF VersionInv
<1>2. ASSUME ReconcileReceiver PROVE VersionInv' /\ token <= token'
  <2>1. path' = token /\ UNCHANGED <<token, url, secret, pc>>
    BY <1>2 DEF ReconcileReceiver
  <2>2. QED
    BY <1>n, <2>1 DEF VersionInv
<1>3. ASSUME Start PROVE VersionInv' /\ token <= token'
  <2>1. url' = 0 /\ secret' = 0 /\ UNCHANGED <<token, path>>
    BY <1>3 DEF Start
  <2>2. QED
    BY <1>n, <2>1 DEF VersionInv
<1>4. ASSUME GetReceiver PROVE VersionInv' /\ token <= token'
  <2>1. url' = path /\ pc' = "secret" /\ UNCHANGED <<token, path, secret>>
    BY <1>4 DEF GetReceiver, After
  <2>2. QED
    <3>1. pc' \notin Through
      BY <2>1 DEF Visiting, AtHook
    <3>2. path <= path /\ path <= token /\ secret <= token /\ token <= token
      BY <1>n DEF VersionInv
    <3>3. QED
      BY <2>1, <3>1, <3>2 DEF VersionInv
<1>5. ASSUME GetSecret PROVE VersionInv' /\ token <= token'
  <2>1. secret' = token /\ UNCHANGED <<token, path, url>>
    BY <1>5 DEF GetSecret
  <2>2. QED
    BY <1>n, <2>1 DEF VersionInv
<1>6. ASSUME UNCHANGED <<token, path, url, secret>>, pc' \in Through => pc \in Through
      PROVE  VersionInv' /\ token <= token'
  BY <1>n, <1>6 DEF VersionInv
<1>7. ASSUME NEW r \in Visible, OwnerActs(r) PROVE VersionInv' /\ token <= token'
  BY <1>6, <1>7, OwnerEffect
<1>8. ASSUME NEW i \in Images, Deploy(i) PROVE VersionInv' /\ token <= token'
  BY <1>6, <1>8 DEF Deploy
<1>9. ASSUME GetImages PROVE VersionInv' /\ token <= token'
  BY <1>6, <1>9 DEF GetImages
<1>10. ASSUME Fail PROVE VersionInv' /\ token <= token'
  BY <1>6, <1>10 DEF Fail, Visiting, AtHook
<1>11. ASSUME NEW r \in Repos, List(r) PROVE VersionInv' /\ token <= token'
  BY <1>6, <1>11 DEF List
<1>12. ASSUME CreateWebhook \/ UpdateWebhook PROVE VersionInv' /\ token <= token'
  BY <1>6, <1>12 DEF CreateWebhook, UpdateWebhook, Visiting
<1>13. ASSUME CreateOrUpdateFails PROVE VersionInv' /\ token <= token'
  BY <1>6, <1>13 DEF CreateOrUpdateFails, Report, Visiting
<1>14. ASSUME NEW ping \in {"success", "failed"}, PingWebhook(ping)
       PROVE  VersionInv' /\ token <= token'
  BY <1>6, <1>14 DEF PingWebhook, Report, Visiting, AtHook
<1>15. ASSUME Finish PROVE VersionInv' /\ token <= token'
  BY <1>6, <1>15 DEF Finish
<1>16. QED
  BY <1>1, <1>2, <1>3, <1>4, <1>5, <1>7, <1>8, <1>9, <1>10, <1>11, <1>12, <1>13, <1>14, <1>15
     DEF Next, Environment, Configure, Visit, OwnerActs

LEMMA HookStep ==
  ASSUME TypeOK, TypeOK', PcInv, VersionInv, HookInv, VisitInv, PageInv, Next
  PROVE  HookInv' /\ PageInv'
<1> USE DEF cluster, config, github
<1>1. token <= token'
  BY VersionStep
<1>2. ASSUME NEW r \in Visible, OwnerAdds(r) PROVE HookInv' /\ PageInv'
  <2>1. /\ hooks' = [hooks EXCEPT ![r][lastId[r] + 1] = Foreign] /\ UNCHANGED token
        /\ lastId[r] < MaxHooks /\ lastId' = [lastId EXCEPT ![r] = @ + 1] /\ r \in Repos
    BY <1>2 DEF OwnerAdds, OwnerSets
  <2>2. \A j \in Ids : Exists(r, j) /\ hooks[r][j] # Foreign => hooks[r][j].url # 0
    BY <2>1 DEF HookInv, Sound
  <2>3. Foreign.url = 0 /\ Sound(Foreign)
    BY DEF Foreign, Sound
  <2>4. QED
    BY <2>1, <2>2, <2>3, ForeignIsHook, NewHook
<1>3. ASSUME NEW r \in Visible, NEW id \in Ids, OwnerDeletes(r, id) PROVE HookInv' /\ PageInv'
  BY <1>3, DeletedHook DEF OwnerDeletes, OwnerSets
<1>4. ASSUME NEW r \in Visible, NEW id \in Ids, OwnerEdits(r, id) PROVE HookInv' /\ PageInv'
  <2>1. /\ Exists(r, id) /\ hooks[r][id] # Foreign /\ r \in Repos
        /\ Sound(hooks[r][id])
    BY <1>4 DEF OwnerEdits, HookInv
  <2>2. PICK h \in Hook :
          /\ OwnerSets(r, id, h) /\ UNCHANGED lastId
          /\ hooks[r][id].url = h.url /\ h.secret \in {0, hooks[r][id].secret}
    BY <1>4, <2>1, EditedType DEF OwnerEdits
  <2>3. Sound(h)
    BY <2>1, <2>2 DEF Sound
  <2>4. hooks' = [hooks EXCEPT ![r][id] = h] /\ UNCHANGED token
    BY <2>2 DEF OwnerSets
  <2>5. QED
    BY <2>1, <2>2, <2>3, <2>4, ChangedHook
<1>5. ASSUME CreateWebhook \/ UpdateWebhook PROVE HookInv' /\ PageInv'
  <2>1. (\E id : Effective(id)) /\ UNCHANGED token
    BY <1>5 DEF CreateWebhook, UpdateWebhook, Effective
  <2>2. QED
    BY <2>1, EffectiveKeepsHooks
<1>6. ASSUME CreateOrUpdateFails PROVE HookInv' /\ PageInv'
  <2>1. UNCHANGED token
    BY <1>6 DEF CreateOrUpdateFails, Report
  <2>2. CASE \E id : Effective(id)
    BY <2>1, <2>2, EffectiveKeepsHooks
  <2>3. CASE UNCHANGED <<hooks, lastId>>
    BY <1>1, <2>3, HooksStay
  <2>4. QED
    BY <1>6, <2>2, <2>3, FailsCases
<1>7. ASSUME UNCHANGED <<hooks, lastId>> PROVE HookInv' /\ PageInv'
  BY <1>1, <1>7, HooksStay
<1>8. ASSUME NEW i \in Images, Deploy(i) PROVE HookInv' /\ PageInv'
  BY <1>7, <1>8 DEF Deploy
<1>9. ASSUME NEW r \in Repos, List(r) PROVE HookInv' /\ PageInv'
  BY <1>7, <1>9 DEF List
<1>10. ASSUME NEW ping \in {"success", "failed"}, PingWebhook(ping) PROVE HookInv' /\ PageInv'
  BY <1>7, <1>10 DEF PingWebhook
<1>11. ASSUME RotateToken \/ ReconcileReceiver \/ Configure \/ Finish
       PROVE  HookInv' /\ PageInv'
  BY <1>7, <1>11
     DEF RotateToken, ReconcileReceiver, Configure, Start, GetReceiver, GetSecret, GetImages,
         Fail, Finish
<1>12. QED
  BY <1>2, <1>3, <1>4, <1>5, <1>6, <1>8, <1>9, <1>10, <1>11 DEF Next, Environment, Visit

(***************************************************************************)
(* The visit                                                               *)
(***************************************************************************)

LEMMA VisitStep ==
  ASSUME TypeOK, PcInv, VersionInv, HookInv, VisitInv, Next
  PROVE  VisitInv'
<1> USE DEF cluster, config, github
<1>1. ASSUME pc' \notin Visiting PROVE VisitInv'
  BY <1>1 DEF VisitInv
<1>2. ASSUME UNCHANGED <<hooks, lastId, touched, url, pc, todo, cur, found>> PROVE VisitInv'
  BY <1>2 DEF VisitInv, Exists, Works, Correct
<1>3. ASSUME NEW r \in Visible, OwnerActs(r) PROVE VisitInv'
  <2>1. SUFFICES ASSUME pc \in Visiting PROVE VisitInv'
    BY <1>3, OwnerEffect DEF VisitInv
  <2>2. /\ UNCHANGED <<url, pc, todo, cur, found>> /\ touched' = touched \cup {r}
        /\ \A q \in Repos : lastId[q] <= lastId'[q]
        /\ \A q \in Repos \ {r} : hooks'[q] = hooks[q]
        /\ \A q \in Repos, j \in Ids : hooks'[q][j] # NoHook =>
             \/ hooks[q][j] # NoHook /\ hooks'[q][j].url = hooks[q][j].url
             \/ j > lastId[q] /\ hooks'[q][j].url = 0
    BY <1>3, OwnerEffect DEF Exists
  <2>3. /\ cur \in Repos /\ cur \in todo /\ url # 0
        /\ lastId[cur] \in Nat /\ lastId'[cur] \in Nat /\ found \in Nat
    <3>1. cur \in Repos /\ cur \in todo /\ url # 0
      BY <2>1 DEF VisitInv, TypeOK, Visiting, AtHook
    <3>2. lastId'[cur] \in Nat
      <4>1. TypeOK'
        BY TypeStep
      <4>2. lastId' \in [Repos -> 0..MaxHooks]
        BY <4>1 DEF TypeOK
      <4>3. QED
        BY <3>1, <4>2
    <3>3. QED
      BY <3>1, <3>2, Numbers DEF TypeOK
  <2>4. pc # "create" => found \in Ids /\ found <= lastId'[cur]
    <3>1. pc # "create" => found \in Ids /\ found <= lastId[cur]
      BY <2>1 DEF VisitInv
    <3>2. lastId[cur] <= lastId'[cur]
      BY <2>2, <2>3
    <3>3. QED
      BY <2>3, <3>1, <3>2
  <2>5. ASSUME pc = "create", cur \in Visible, NEW j \in Ids, j <= PageSize,
               hooks'[cur][j] # NoHook
        PROVE  hooks'[cur][j].url # url
    <3>1. hooks[cur][j] # NoHook => hooks[cur][j].url # url
      BY <2>1, <2>5 DEF VisitInv, Exists
    <3>2. QED
      BY <2>2, <2>3, <2>5, <3>1
  <2>6. ASSUME pc = "update", hooks'[cur][found] # NoHook PROVE hooks'[cur][found].url = url
    <3>1. found \in Ids /\ found <= lastId[cur] /\ ~ (found > lastId[cur])
      BY <2>1, <2>3, <2>6 DEF VisitInv
    <3>2. hooks[cur][found] # NoHook /\ hooks'[cur][found].url = hooks[cur][found].url
      BY <2>2, <2>3, <2>6, <3>1
    <3>3. QED
      BY <2>1, <2>6, <3>2 DEF VisitInv, Exists
  <2>7. ASSUME pc \in AtHook, cur \notin touched' PROVE Works(cur, found)'
    <3>1. hooks'[cur] = hooks[cur] /\ Works(cur, found)
      BY <2>1, <2>2, <2>3, <2>7 DEF VisitInv
    <3>2. QED
      BY <2>2, <3>1 DEF Works, Exists, Correct
  <2>8. QED
    BY <2>2, <2>3, <2>4, <2>5, <2>6, <2>7 DEF VisitInv, Exists
<1>4. ASSUME NEW r \in Repos, List(r) PROVE VisitInv'
  <2>1. /\ cur' = r /\ r \in todo
        /\ UNCHANGED <<hooks, lastId, url, secret, todo>>
        /\ pc' \in {"keep", "update", "create"}
        /\ pc' = "keep" => found' # 0 /\ Correct(hooks[r][found'])
        /\ pc' = "update" => found' # 0
        /\ pc' = "create" => found' = 0
    BY <1>4 DEF List
  <2>2. /\ found' # 0 => found' \in Matching(r)
        /\ found' = 0 => r \notin Visible \/ Matching(r) = {} \/ 0 \in Matching(r)
    BY <1>4, FirstMatch DEF List
  <2>3. 0 \notin Matching(r)
    BY DEF Matching, FirstPage, Ids
  <2>4. ASSUME found' # 0
        PROVE  /\ found' \in Ids /\ Exists(r, found') /\ hooks[r][found'].url = url
               /\ found' <= lastId[r]
    <3>1. found' \in Ids /\ Exists(r, found') /\ hooks[r][found'].url = url
      BY <2>2, <2>4 DEF Matching, FirstPage
    <3>2. found' <= lastId[r]
      BY <3>1 DEF HookInv
    <3>3. QED
      BY <3>1, <3>2
  <2>5. ASSUME found' = 0, r \in Visible, NEW j \in Ids, j <= PageSize, Exists(r, j)
        PROVE  hooks[r][j].url # url
    <3>1. j \in FirstPage(r)
      BY <2>5, FirstIdsOnFirstPage
    <3>2. QED
      BY <2>2, <2>3, <2>5, <3>1 DEF Matching
  <2>6. pc' = "keep" => Works(r, found')
    BY <2>1, <2>4 DEF Works
  <2>7. Works(r, found') => Works(cur, found)'
    BY <2>1 DEF Works, Exists, Correct
  <2>8. pc' \notin {"ping created", "ping updated"}
    BY <2>1
  <2>9. QED
    BY <2>1, <2>4, <2>5, <2>6, <2>7, <2>8 DEF VisitInv, Exists, AtHook
<1>5. ASSUME CreateWebhook \/ UpdateWebhook PROVE VisitInv'
  <2>1. PICK id : Effective(id) /\ found' = id
    BY <1>5 DEF CreateWebhook, UpdateWebhook, Effective
  <2>2. /\ pc' \in {"ping created", "ping updated"}
        /\ UNCHANGED <<url, todo, cur, touched>>
    BY <1>5 DEF CreateWebhook, UpdateWebhook
  <2>3. pc \in {"create", "update"} /\ cur \in todo
    BY <2>1 DEF Effective, VisitInv, Visiting
  <2>4. /\ id \in Ids /\ id <= lastId'[cur] /\ hooks'[cur][id] = OurHook
        /\ OurHook # NoHook /\ OurHook.url = url /\ Correct(OurHook)
    BY <2>1, <2>3, EffectiveType, OurHookWorks
  <2>5. Works(cur, found)'
    BY <2>1, <2>2, <2>4 DEF Works, Exists, Correct
  <2>6. QED
    BY <2>1, <2>2, <2>3, <2>4, <2>5 DEF VisitInv, AtHook
<1>6. ASSUME NEW i \in Images, Deploy(i) PROVE VisitInv'
  BY <1>2, <1>6 DEF Deploy
<1>7. ASSUME RotateToken \/ ReconcileReceiver PROVE VisitInv'
  BY <1>2, <1>7 DEF RotateToken, ReconcileReceiver
<1>8. ASSUME Configure \/ Finish PROVE VisitInv'
  <2>1. pc' \in Reading \cup {"loop", "done", "failed"}
    BY <1>8 DEF Configure, Start, GetReceiver, GetSecret, GetImages, Fail, Finish, After, Reading
  <2>2. QED
    BY <1>1, <2>1 DEF Reading, Visiting, AtHook
<1>9. ASSUME CreateOrUpdateFails \/ \E ping \in {"success", "failed"} : PingWebhook(ping)
      PROVE  VisitInv'
  <2>1. pc' = "loop"
    BY <1>9 DEF CreateOrUpdateFails, PingWebhook, Report
  <2>2. QED
    BY <1>1, <2>1 DEF Visiting, AtHook
<1>10. QED
  BY <1>3, <1>4, <1>5, <1>6, <1>7, <1>8, <1>9 DEF Next, Environment, Visit, OwnerActs

(***************************************************************************)
(* The rows of the summary                                                 *)
(***************************************************************************)

Covering == {"loop", "done"} \cup Visiting

\* A step that leaves the rows and the list of repositories alone.
LEMMA RowsStay ==
  ASSUME RowInv, UNCHANGED <<todo, seen, result>>,
         pc' \in Reading => pc \in Reading,
         pc' \in Covering => pc \in Covering,
         pc' = "done" => todo = {},
         \A r \in Repos : Pinged(r)'
  PROVE  RowInv'
BY DEF RowInv, Covered, Covering

LEMMA PingedStays ==
  ASSUME NEW r \in Repos, Pinged(r), UNCHANGED <<url, result>>,
         r \notin touched' => r \notin touched /\ hooks'[r] = hooks[r]
  PROVE  Pinged(r)'
BY DEF Pinged, Works, Exists, Correct

LEMMA NotPinged ==
  ASSUME NEW r \in Repos, result'[r] = NoRow
  PROVE  Pinged(r)'
BY DEF Pinged, NoRow

\* The row of the repository the run is at is written.
LEMMA RowReported ==
  ASSUME TypeOK, RowInv, NEW row \in Rows, Report(row), cur \in todo, row # NoRow,
         pc \in Covering,
         \A r \in Repos \ {cur} : hooks'[r] = hooks[r],
         row.ping # "none" => hooks' = hooks /\ (cur \notin touched => \E id \in Ids : Works(cur, id))
  PROVE  RowInv'
<1> USE DEF cluster, config
<1>1. /\ cur \in Repos /\ pc' = "loop" /\ todo' = todo \ {cur}
      /\ UNCHANGED <<seen, touched, url>>
      /\ result' = [result EXCEPT ![cur] = row] /\ DOMAIN result = Repos
  BY DEF Report, TypeOK
<1>2. result'[cur] = row /\ \A r \in Repos \ {cur} : result'[r] = result[r]
  BY <1>1
<1>3. \A r \in todo' : result'[r] = NoRow
  BY <1>1, <1>2 DEF RowInv, TypeOK
<1>4. ASSUME NEW i \in seen, SourceOf(i) # NoRepo
      PROVE  SourceOf(i) \in todo' \/ result'[SourceOf(i)] # NoRow
  <2>1. i \in Images /\ SourceOf(i) \in Repos
    BY <1>4, SourceIsPublisher DEF TypeOK
  <2>2. SourceOf(i) \in todo \/ result[SourceOf(i)] # NoRow
    BY <1>4 DEF RowInv, Covered, Covering
  <2>3. QED
    BY <1>1, <1>2, <2>1, <2>2
<1>5. ASSUME NEW r \in Repos PROVE Pinged(r)'
  <2>1. Pinged(r)
    BY DEF RowInv
  <2>2. CASE r # cur
    BY <1>1, <1>2, <2>1, <2>2 DEF Pinged, Works, Exists, Correct
  <2>3. CASE r = cur
    BY <1>1, <1>2, <2>3 DEF Pinged, Works, Exists, Correct
  <2>4. QED
    BY <2>2, <2>3
<1>6. QED
  BY <1>1, <1>3, <1>4, <1>5 DEF RowInv, Covered, Reading

LEMMA RowStep ==
  ASSUME TypeOK, PcInv, VersionInv, HookInv, RowInv, VisitInv, Next
  PROVE  RowInv'
<1> USE DEF cluster, config, github
<1>1. ASSUME NEW i \in Images, Deploy(i) PROVE RowInv'
  BY <1>1, PingedStays, RowsStay DEF Deploy, RowInv
<1>2. ASSUME RotateToken \/ ReconcileReceiver PROVE RowInv'
  <2>1. UNCHANGED <<hooks, touched, url, seen, pc, todo, result>>
    BY <1>2 DEF RotateToken, ReconcileReceiver
  <2>2. QED
    BY <2>1, PingedStays, RowsStay DEF RowInv
<1>3. ASSUME NEW r \in Visible, OwnerActs(r) PROVE RowInv'
  <2>1. /\ UNCHANGED <<url, seen, pc, todo, result>> /\ touched' = touched \cup {r}
        /\ \A q \in Repos \ {r} : hooks'[q] = hooks[q]
    BY <1>3, OwnerEffect
  <2>2. ASSUME NEW q \in Repos PROVE Pinged(q)'
    BY <2>1, PingedStays DEF RowInv
  <2>3. QED
    BY <2>1, <2>2, RowsStay DEF RowInv
<1>4. ASSUME Start PROVE RowInv'
  <2>1. /\ pc' = "receiver" /\ result' = [r \in Repos |-> NoRow] /\ todo' = {} /\ seen' = {}
    BY <1>4 DEF Start, After
  <2>2. \A r \in Repos : Pinged(r)'
    BY <2>1, NotPinged
  <2>3. QED
    BY <2>1, <2>2 DEF RowInv
<1>5. ASSUME GetReceiver \/ GetSecret PROVE RowInv'
  <2>1. /\ pc \in Reading /\ pc' \in Reading /\ UNCHANGED <<todo, seen, result>>
    BY <1>5 DEF GetReceiver, GetSecret, After, Reading
  <2>2. \A r \in Repos : Pinged(r)'
    BY <2>1, NotPinged DEF RowInv
  <2>3. pc' \notin Covering /\ pc' # "done"
    BY <2>1 DEF Reading, Covering, Visiting, AtHook
  <2>4. QED
    BY <2>1, <2>2, <2>3, RowsStay
<1>6. ASSUME GetImages PROVE RowInv'
  <2>1. /\ pc' = "loop" /\ seen' = deployed /\ todo' = Group(deployed)
        /\ result' = [r \in Repos |-> NoRow]
    BY <1>6 DEF GetImages, After, RowInv, Reading
  <2>2. \A r \in Repos : Pinged(r)'
    BY <2>1, NotPinged
  <2>3. todo' \subseteq Repos
    BY <2>1, SourceIsPublisher DEF Group, TypeOK
  <2>4. \A i \in seen' : SourceOf(i) # NoRepo => SourceOf(i) \in todo'
    BY <2>1 DEF Group
  <2>5. QED
    BY <2>1, <2>2, <2>3, <2>4 DEF RowInv, Covered, Reading
<1>7. ASSUME Fail PROVE RowInv'
  <2>1. pc' = "failed" /\ UNCHANGED <<hooks, touched, url, seen, todo, result>>
    BY <1>7 DEF Fail
  <2>2. pc' \notin Reading /\ pc' \notin Covering /\ pc' # "done"
    BY <2>1 DEF Reading, Covering, Visiting, AtHook
  <2>3. QED
    BY <2>1, <2>2, PingedStays, RowsStay DEF RowInv
<1>8. ASSUME NEW r \in Repos, List(r) PROVE RowInv'
  <2>1. /\ pc = "loop" /\ pc' \in {"keep", "update", "create"} /\ r \in todo
        /\ touched' = touched \ {r} /\ UNCHANGED <<hooks, url, seen, todo, result>>
    BY <1>8 DEF List
  <2>2. ASSUME NEW q \in Repos PROVE Pinged(q)'
    <3>1. CASE q = r
      BY <2>1, <3>1, NotPinged DEF RowInv
    <3>2. CASE q # r
      BY <2>1, <3>2, PingedStays DEF RowInv
    <3>3. QED
      BY <3>1, <3>2
  <2>3. pc' \notin Reading /\ pc' # "done" /\ pc \in Covering
    BY <2>1 DEF Reading, Covering
  <2>4. QED
    BY <2>1, <2>2, <2>3, RowsStay
<1>9. ASSUME CreateWebhook \/ UpdateWebhook PROVE RowInv'
  <2>1. PICK id : Effective(id)
    BY <1>9 DEF CreateWebhook, UpdateWebhook, Effective
  <2>2. /\ pc \in {"create", "update"} /\ pc' \in {"ping created", "ping updated"}
        /\ UNCHANGED <<touched, url, seen, todo, result>>
    BY <1>9 DEF CreateWebhook, UpdateWebhook
  <2>3. cur \in todo /\ \A q \in Repos \ {cur} : hooks'[q] = hooks[q]
    BY <2>1, <2>2, EffectiveFrame DEF VisitInv, Visiting
  <2>4. ASSUME NEW q \in Repos PROVE Pinged(q)'
    <3>1. CASE q = cur
      BY <2>2, <2>3, <3>1, NotPinged DEF RowInv
    <3>2. CASE q # cur
      BY <2>2, <2>3, <3>2, PingedStays DEF RowInv
    <3>3. QED
      BY <3>1, <3>2
  <2>5. pc' \notin Reading /\ pc' # "done" /\ pc \in Covering
    BY <2>2 DEF Reading, Covering, Visiting
  <2>6. QED
    BY <2>2, <2>4, <2>5, RowsStay
<1>10. ASSUME CreateOrUpdateFails PROVE RowInv'
  <2>1. /\ Report(FailedRow) /\ cur \in todo
        /\ UNCHANGED <<hooks, lastId>> \/ \E id : Effective(id)
    BY <1>10, FailsCases
  <2>2. pc \in Covering
    BY <1>10 DEF CreateOrUpdateFails, Covering, Visiting
  <2>3. \A q \in Repos \ {cur} : hooks'[q] = hooks[q]
    BY <2>1, EffectiveFrame
  <2>4. FailedRow \in Rows /\ FailedRow # NoRow /\ FailedRow.ping = "none"
    BY DEF FailedRow, NoRow, Rows
  <2>5. QED
    BY <2>1, <2>2, <2>3, <2>4, RowReported
<1>11. ASSUME NEW ping \in {"success", "failed"}, PingWebhook(ping) PROVE RowInv'
  <2>1. PICK action \in {"created", "updated", "unchanged"} :
          Report([ping |-> ping, action |-> action])
    BY <1>11 DEF PingWebhook
  <2>2. [ping |-> ping, action |-> action] \in Rows /\ [ping |-> ping, action |-> action] # NoRow
    BY DEF Rows, NoRow
  <2>3. pc \in AtHook /\ pc \in Covering /\ pc \in Visiting /\ pc # "create" /\ hooks' = hooks
    BY <1>11 DEF PingWebhook, AtHook, Visiting, Covering
  <2>4. cur \in todo /\ found \in Ids /\ (cur \notin touched => Works(cur, found))
    BY <2>3 DEF VisitInv
  <2>5. QED
    BY <2>1, <2>2, <2>3, <2>4, RowReported
<1>12. ASSUME Finish PROVE RowInv'
  <2>1. /\ pc = "loop" /\ pc' = "done" /\ todo = {}
        /\ UNCHANGED <<hooks, touched, url, seen, todo, result>>
    BY <1>12 DEF Finish
  <2>2. pc' \notin Reading /\ pc \in Covering
    BY <2>1 DEF Reading, Covering
  <2>3. QED
    BY <2>1, <2>2, PingedStays, RowsStay DEF RowInv
<1>13. QED
  BY <1>1, <1>2, <1>3, <1>4, <1>5, <1>6, <1>7, <1>8, <1>9, <1>10, <1>11, <1>12
     DEF Next, Environment, Configure, Visit, OwnerActs

(***************************************************************************)
(* The theorems                                                            *)
(***************************************************************************)

LEMMA InvInit == Init => HookSyncInv
<1> SUFFICES ASSUME Init PROVE HookSyncInv
  OBVIOUS
<1>1. TypeOK /\ PcInv
  BY InitType
<1>2. VersionInv
  BY DEF Init, VersionInv, Visiting, AtHook
<1>3. \A r \in Repos, id \in Ids : ~ Exists(r, id)
  BY DEF Init, Exists
<1>4. RowInv
  BY DEF Init, RowInv, Reading, Visiting, AtHook, Pinged, NoRow
<1>5. VisitInv
  BY DEF Init, VisitInv, Visiting, AtHook
<1>6. QED
  BY <1>1, <1>2, <1>3, <1>4, <1>5 DEF HookSyncInv, HookInv, PageInv

LEMMA InvStep == HookSyncInv /\ [Next]_vars => HookSyncInv'
<1> SUFFICES ASSUME HookSyncInv, [Next]_vars PROVE HookSyncInv'
  OBVIOUS
<1> USE DEF HookSyncInv
<1>1. CASE Next
  <2>1. TypeOK' /\ PcInv'
    BY <1>1, TypeStep
  <2>2. VersionInv' /\ VisitInv' /\ RowInv'
    BY <1>1, VersionStep, VisitStep, RowStep
  <2>3. HookInv' /\ PageInv'
    BY <1>1, <2>1, HookStep
  <2>4. QED
    BY <2>1, <2>2, <2>3
<1>2. CASE UNCHANGED vars
  <2>1. TypeOK' /\ PcInv' /\ VersionInv' /\ VisitInv'
    BY <1>2 DEF vars, cluster, github, config, TypeOK, PcInv, VersionInv, VisitInv, Exists,
                Works, Correct
  <2>2. HookInv' /\ RowInv' /\ PageInv'
    BY <1>2 DEF vars, cluster, github, config, HookInv, Sound, RowInv, Covered, Pinged, PageInv,
                Exists, Works, Correct
  <2>3. QED
    BY <2>1, <2>2
<1>3. QED
  BY <1>1, <1>2

\* A hook that works for the run works for Flux, when the Receiver is where the
\* run read it.
LEMMA InvImpliesSummary == HookSyncInv => SummaryIsTrue
<1> SUFFICES ASSUME HookSyncInv, pc = "done", path = url, path = token,
                    NEW i \in seen, SourceOf(i) # NoRepo, Publisher[i] \notin touched
             PROVE  /\ result[Publisher[i]] # NoRow
                    /\ result[Publisher[i]].ping # "none" => Delivers(Publisher[i])
  BY DEF SummaryIsTrue
<1> USE DEF HookSyncInv
<1> DEFINE r == Publisher[i]
<1>1. r \in Repos /\ SourceOf(i) = r
  BY SourceIsPublisher DEF TypeOK
<1>2. todo = {} /\ result[r] # NoRow
  BY <1>1 DEF RowInv, Covered
<1>3. ASSUME result[r].ping # "none" PROVE Delivers(r)
  <2>1. PICK id \in Ids : Works(r, id)
    BY <1>1, <1>3 DEF RowInv, Pinged
  <2>2. /\ hooks[r][id] \in Hook /\ Exists(r, id) /\ Sound(hooks[r][id])
        /\ hooks[r][id].url = token /\ hooks[r][id].form /\ hooks[r][id].secret # 0
    BY <1>1, <2>1, HookType DEF Works, Correct, HookInv
  <2>3. url # 0
    BY DEF TypeOK
  <2>4. hooks[r][id] # Foreign
    BY <2>2, <2>3 DEF Foreign
  <2>5. token <= hooks[r][id].secret /\ hooks[r][id].secret <= token
    BY <2>2, <2>4 DEF Sound
  <2>6. hooks[r][id].secret \in Nat /\ token \in Nat
    BY <2>2, Numbers DEF Hook, Versions
  <2>7. hooks[r][id].secret = token
    BY <2>5, <2>6
  <2>8. hooks[r][id] = [url |-> token, secret |-> token, form |-> TRUE]
    BY <2>2, <2>7 DEF Hook
  <2>9. QED
    BY <2>2, <2>8 DEF Delivers
<1>4. QED
  BY <1>2, <1>3

\* A run under way has read where the Receiver is, and the hooks, the summary and
\* what the run holds have their types.
THEOREM TypeCorrect == Spec => []TypeOK
<1>1. HookSyncInv => TypeOK
  BY DEF HookSyncInv
<1>2. QED
  BY InvInit, InvStep, <1>1, PTL DEF Spec

\* The summary of a run that exits 0 can be believed (manage-webhooks.ts:504-524),
\* for any number of images, repositories, hooks and tokens: it has a row for
\* every repository, and a row with a ping stands for a hook that Flux accepts,
\* unless the token has moved or the owner changed hooks since.
THEOREM SummaryCanBeBelieved == Spec => []SummaryIsTrue
BY InvInit, InvStep, InvImpliesSummary, PTL DEF Spec

\* With no more hooks than the page shows, every hook is among the first ones.
LEMMA InvImpliesOneHook == HookSyncInv => OneHook
<1> SUFFICES ASSUME HookSyncInv, NEW r \in Repos, NEW first \in Ids, NEW second \in Ids,
                    lastId[r] <= PageSize, first # second,
                    Exists(r, first), Exists(r, second), hooks[r][first] # Foreign,
                    hooks[r][first].url = hooks[r][second].url
             PROVE  FALSE
  BY DEF OneHook
<1>1. /\ first \in Nat /\ second \in Nat /\ lastId[r] \in Nat
      /\ first <= lastId[r] /\ second <= lastId[r]
  BY Numbers DEF HookSyncInv, HookInv
<1>2. hooks[r][second] # Foreign
  <2>1. hooks[r][first] \in Hook /\ hooks[r][first].url # 0
    BY HookType DEF HookSyncInv, HookInv, Sound
  <2>2. QED
    BY <2>1 DEF Foreign
<1>3. CASE first < second
  BY <1>1, <1>3 DEF HookSyncInv, PageInv
<1>4. CASE second < first
  BY <1>1, <1>2, <1>4 DEF HookSyncInv, PageInv
<1>5. QED
  BY <1>1, <1>3, <1>4

\* Runs that are repeated, that fail or whose answers get lost never leave two
\* hooks for one URL in a repository that never had more hooks than the page of
\* listWebhooks shows (manage-webhooks.ts:302).
THEOREM NoSecondHook == Spec => []OneHook
BY InvInit, InvStep, InvImpliesOneHook, PTL DEF Spec
=============================================================================
