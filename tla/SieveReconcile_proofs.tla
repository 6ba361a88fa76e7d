------------------------ MODULE SieveReconcile_proofs ------------------------
EXTENDS SieveReconcile, TLAPS

(***************************************************************************)
(* Type correctness                                                        *)
(***************************************************************************)

\* managed_region() alone is a body.
LEMMA FreshIsBody == Fresh \in Bodies
BY DEF Fresh, Bodies, Blocks

\* merge_managed() returns a body.
LEMMA MergedIsBody == ASSUME NEW b \in Bodies PROVE Merged(b) \in Bodies
BY DEF Merged, Bodies, Blocks

\* Types at the start.
LEMMA InitType == Init => TypeOK
BY DEF Init, TypeOK

\* Leaving an account keeps the types of the locals.
LEMMA ForgetType ==
  ASSUME TypeOK, NEW j \in Jobs, Forget(j)
  PROVE  /\ acct' \in [Jobs -> Accounts \cup {NoAccount}]
         /\ name' \in [Jobs -> Names \cup {NoName}]
         /\ draft' \in [Jobs -> Bodies \cup {NoBody}]
BY DEF TypeOK, Forget

\* Every step keeps the types.
LEMMA NextType == TypeOK /\ [Next]_vars => TypeOK'
<1> SUFFICES ASSUME TypeOK, [Next]_vars PROVE TypeOK'
  OBVIOUS
<1>1. ASSUME NEW j \in Jobs, StartRun(j) PROVE TypeOK'
  BY <1>1 DEF TypeOK, StartRun, server, local
<1>2. ASSUME NEW j \in Jobs, NEW a \in Accounts, NextAccount(j, a) PROVE TypeOK'
  BY <1>2 DEF TypeOK, NextAccount, server
<1>3. ASSUME NEW j \in Jobs, ListScripts(j) PROVE TypeOK'
  <2>1. acct[j] \in Accounts
    BY <1>3 DEF TypeOK, ListScripts
  <2>2. CASE active[acct[j]] = NoName
    <3>1. /\ name' = [name EXCEPT ![j] = Own]
          /\ draft' = [draft EXCEPT ![j] = Fresh]
          /\ pc' = [pc EXCEPT ![j] = "put"]
          /\ UNCHANGED <<scripts, active, alert, todo, acct, reported>>
      BY <1>3, <2>2 DEF ListScripts, server
    <3>2. QED
      BY <2>1, <3>1, FreshIsBody, SieveAssumption DEF TypeOK
  <2>3. CASE active[acct[j]] # NoName
    BY <1>3, <2>1, <2>3, SieveAssumption DEF TypeOK, ListScripts, server
  <2>4. QED
    BY <2>2, <2>3
<1>4. ASSUME NEW j \in Jobs, GetScript(j) PROVE TypeOK'
  <2> DEFINE b == scripts[acct[j]][name[j]]
  <2>1. /\ acct[j] \in Accounts /\ name[j] \in Names /\ b \in Bodies
        /\ UNCHANGED <<scripts, active, alert, todo>> /\ pc[j] = "get"
    BY <1>4 DEF TypeOK, GetScript, server
  <2>2. b.rules \subseteq Rules
    BY <2>1 DEF Bodies
  <2>3. CASE Report(j)
    BY <2>1, <2>3, ForgetType DEF TypeOK, Report, Forget
  <2>4. CASE Return(j)
    BY <2>1, <2>4, ForgetType DEF TypeOK, Return, Forget
  <2>5. CASE Upload(j, Merged(b))
    BY <2>1, <2>2, <2>5, MergedIsBody DEF TypeOK, Upload
  <2>6. CASE Upload(j, Fresh)
    BY <2>1, <2>6, FreshIsBody DEF TypeOK, Upload
  <2>7. QED
    BY <1>4, <2>3, <2>4, <2>5, <2>6 DEF GetScript, Decide
<1>5. ASSUME NEW j \in Jobs, PutScript(j) PROVE TypeOK'
  BY <1>5 DEF TypeOK, PutScript, Store, local
<1>6. ASSUME NEW j \in Jobs, SetActive(j) PROVE TypeOK'
  BY <1>6, ForgetType DEF TypeOK, SetActive, Activate, Return, Forget
<1>7. ASSUME NEW j \in Jobs, Summary(j) PROVE TypeOK'
  BY <1>7, ForgetType DEF TypeOK, Summary, Stop, Forget, server
<1>8. ASSUME NEW j \in Jobs, Fail(j) PROVE TypeOK'
  <2>1. scripts' \in [Accounts -> [Names -> Bodies \cup {NoBody}]]
    BY <1>8 DEF TypeOK, Fail, Store, server
  <2>2. acct[j] \in Accounts /\ active' \in [Accounts -> Names \cup {NoName}]
    BY <1>8 DEF TypeOK, Fail, Activate, server
  <2>3. QED
    BY <1>8, <2>1, <2>2, ForgetType DEF TypeOK, Fail, Report, Forget
<1>9. ASSUME NEW j \in Jobs, Crash(j) PROVE TypeOK'
  BY <1>9, ForgetType DEF TypeOK, Crash, Stop, Forget, server
<1>10. ASSUME NEW a \in Accounts, NEW n \in Names, NEW b \in Bodies, UserSave(a, n, b)
       PROVE TypeOK'
  BY <1>10 DEF TypeOK, UserSave, local
<1>11. ASSUME NEW a \in Accounts, UserDeactivate(a) PROVE TypeOK'
  BY <1>11 DEF TypeOK, UserDeactivate, local
<1>12. CASE GitChanges
  <2>1. \A b \in Bodies : [b EXCEPT !.block = "drifted"] \in Bodies
    BY DEF Bodies, Blocks
  <2>2. scripts' \in [Accounts -> [Names -> Bodies \cup {NoBody}]]
    BY <1>12, <2>1 DEF TypeOK, GitChanges
  <2>3. QED
    BY <1>12, <2>2 DEF TypeOK, GitChanges, local
<1>13. CASE UNCHANGED vars
  BY <1>13 DEF TypeOK, vars
<1>14. QED
  BY <1>1, <1>2, <1>3, <1>4, <1>5, <1>6, <1>7, <1>8, <1>9, <1>10, <1>11, <1>12, <1>13
  DEF Next, Run, Reconcile, Fault, User

\* Every variable keeps its type, with users at work during a run or not.
THEOREM TypeCorrect == Spec => []TypeOK
BY InitType, NextType, PTL DEF Spec

(***************************************************************************)
(* While users are quiet, what a run read is still true when it uploads,   *)
(* whatever other runs do: they upload the same body or nothing.           *)
(***************************************************************************)

\* j found the script n of account a active.
Found(j, a, n) == active[a] = n /\ scripts[a][n] # NoBody

\* j found no active script, and at most another run has installed one since.
Installs(j, a, n) ==
  /\ active[a] = NoName
  /\ n = Own
  /\ draft[j] = Fresh

\* The upload of j is the refresh or the migration of what is stored now.
Refreshes(j, a, n) ==
  /\ Found(j, a, n)
  /\ draft[j] \in Bodies /\ draft[j].block = "current"
  /\ \/ scripts[a][n] = draft[j]
     \/ scripts[a][n].block = "drifted" /\ draft[j] = Merged(scripts[a][n])
     \/ Legacy(n, scripts[a][n]) /\ draft[j] = Fresh

JobInv(j) ==
  /\ pc[j] \in {"idle", "next"} => acct[j] = NoAccount
  /\ pc[j] = "get" => Found(j, acct[j], name[j])
  /\ pc[j] = "put" => \/ Installs(j, acct[j], name[j])
                      \/ Refreshes(j, acct[j], name[j])
  /\ pc[j] = "activate" => /\ \/ Installs(j, acct[j], name[j])
                              \/ Refreshes(j, acct[j], name[j])
                           /\ scripts[acct[j]][name[j]] = draft[j]

\* An account a run is through with, and does not report, archives.
Visited(j) ==
  pc[j] # "idle" =>
    \A a \in Accounts \ (todo[j] \cup reported[j] \cup {acct[j]}) : Archives(a)

ActiveExists ==
  \A a \in Accounts : active[a] # NoName => scripts[a][active[a]] # NoBody

QuietInv ==
  /\ TypeOK
  /\ ActiveExists
  /\ \A j \in Jobs : JobInv(j) /\ Visited(j)

\* What job j does to the server in one step.
ServerStep(j) ==
  \/ UNCHANGED server
  \/ pc[j] = "put" /\ Store(j) /\ UNCHANGED active
  \/ /\ pc[j] = "activate" /\ UNCHANGED scripts
     /\ active' = [active EXCEPT ![acct[j]] = name[j]]

\* An upload changes the one script, and never makes it worse.
LEMMA Uploaded ==
  ASSUME QuietInv, NEW j \in Jobs, pc[j] = "put", Store(j), UNCHANGED active,
         NEW a \in Accounts, NEW n \in Names
  PROVE  \/ scripts'[a][n] = scripts[a][n]
         \/ /\ a = acct[j] /\ n = name[j] /\ scripts'[a][n] = draft[j]
            /\ draft[j] \in Bodies /\ draft[j].block = "current"
            /\ active[a] \in {n, NoName}
            /\ active[a] = NoName => n = Own /\ draft[j] = Fresh
<1>1. acct[j] \in Accounts /\ name[j] \in Names /\ JobInv(j)
  BY DEF QuietInv, TypeOK
<1>2. Installs(j, acct[j], name[j]) \/ Refreshes(j, acct[j], name[j])
  BY <1>1 DEF JobInv
<1>3. draft[j] \in Bodies /\ draft[j].block = "current"
  BY <1>2, FreshIsBody DEF Installs, Refreshes, Fresh
<1>4. /\ active[acct[j]] \in {name[j], NoName}
      /\ active[acct[j]] = NoName => name[j] = Own /\ draft[j] = Fresh
  BY <1>1, <1>2, SieveAssumption DEF Installs, Refreshes, Found
<1>5. \/ scripts'[a][n] = scripts[a][n]
      \/ a = acct[j] /\ n = name[j] /\ scripts'[a][n] = draft[j]
  BY <1>1 DEF Store, QuietInv, TypeOK
<1>6. QED
  BY <1>3, <1>4, <1>5

\* No step of a run takes the archive rule out of the script ingest runs.
LEMMA ArchivesStable ==
  ASSUME QuietInv, NEW j \in Jobs, ServerStep(j), NEW a \in Accounts, Archives(a)
  PROVE  Archives(a)'
<1>1. active[a] \in Names /\ active[a] # NoName
  BY SieveAssumption DEF Archives, QuietInv, TypeOK
<1>2. CASE UNCHANGED server
  BY <1>2 DEF Archives, server
<1>3. CASE pc[j] = "put" /\ Store(j) /\ UNCHANGED active
  <2>1. \/ scripts'[a][active[a]] = scripts[a][active[a]]
        \/ scripts'[a][active[a]] \in Bodies /\ scripts'[a][active[a]].block = "current"
    BY <1>1, <1>3, Uploaded
  <2>2. QED
    BY <1>1, <1>3, <2>1, NoBodyAssumption DEF Archives
<1>4. CASE /\ pc[j] = "activate" /\ UNCHANGED scripts
           /\ active' = [active EXCEPT ![acct[j]] = name[j]]
  <2>1. acct[j] \in Accounts /\ name[j] \in Names /\ JobInv(j)
    BY <1>4 DEF QuietInv, TypeOK
  <2>2. acct[j] = a => active[a] = name[j]
    BY <1>1, <1>4, <2>1 DEF JobInv, Installs, Refreshes, Found
  <2>3. active'[a] = active[a]
    BY <1>4, <2>1, <2>2 DEF QuietInv, TypeOK
  <2>4. QED
    BY <1>4, <2>3 DEF Archives
<1>5. QED
  BY <1>2, <1>3, <1>4 DEF ServerStep

\* Two refreshes of the same script upload the same body.
LEMMA SameUpload ==
  ASSUME NEW j \in Jobs, NEW k \in Jobs, NEW a \in Accounts, NEW n \in Names,
         Refreshes(j, a, n), Refreshes(k, a, n)
  PROVE  draft[j] = draft[k] \/ (scripts[a][n] = draft[j] /\ scripts[a][n] = draft[k])
BY DEF Refreshes, Legacy

\* What another job has read or prepared stays true.
LEMMA OthersStable ==
  ASSUME QuietInv, NEW j \in Jobs, ServerStep(j), NEW k \in Jobs,
         pc'[k] = pc[k], acct'[k] = acct[k], name'[k] = name[k], draft'[k] = draft[k]
  PROVE  JobInv(k)'
<1> DEFINE a == acct[k]  n == name[k]
<1>1. CASE pc[k] \notin {"get", "put", "activate"}
  BY <1>1 DEF JobInv, QuietInv
<1>2. CASE pc[k] \in {"get", "put", "activate"}
  <2>1. a \in Accounts /\ n \in Names /\ n # NoName /\ JobInv(k) /\ JobInv(j)
    BY <1>2, SieveAssumption DEF QuietInv, TypeOK
  <2>2. ASSUME Found(k, a, n) PROVE Found(k, a, n)'
    <3>1. active'[a] = active[a]
      <4>1. ASSUME pc[j] = "activate", acct[j] = a PROVE active[a] = name[j]
        BY <2>1, <2>2, <4>1 DEF JobInv, Installs, Refreshes, Found
      <4>2. pc[j] = "activate" => acct[j] \in Accounts
        BY DEF QuietInv, TypeOK
      <4>3. QED
        BY <2>1, <4>1, <4>2 DEF ServerStep, server, QuietInv, TypeOK
    <3>2. scripts'[a][n] # NoBody
      <4>1. CASE pc[j] = "put" /\ Store(j) /\ UNCHANGED active
        BY <2>1, <2>2, <4>1, Uploaded, NoBodyAssumption DEF Found
      <4>2. QED
        BY <2>2, <4>1 DEF ServerStep, server, Found
    <3>3. QED
      BY <2>2, <3>1, <3>2 DEF Found
  <2>3. ASSUME Installs(k, a, n) PROVE (Installs(k, a, n) \/ Refreshes(k, a, n))'
    <3>1. CASE active'[a] = NoName
      BY <2>3, <3>1 DEF Installs
    <3>2. CASE active'[a] # NoName
      <4>1. /\ pc[j] = "activate" /\ UNCHANGED scripts
            /\ active' = [active EXCEPT ![acct[j]] = name[j]]
        BY <2>3, <3>2 DEF ServerStep, server, Installs
      <4>2. acct[j] = a /\ active'[a] = name[j]
        BY <2>1, <2>3, <3>2, <4>1 DEF Installs, QuietInv, TypeOK
      <4>3. Installs(j, a, name[j]) /\ scripts[a][name[j]] = draft[j]
        BY <2>1, <2>3, <4>1, <4>2, SieveAssumption DEF JobInv, Installs, Refreshes, Found, QuietInv, TypeOK
      <4>4. n = Own /\ draft[k] = Fresh /\ active'[a] = Own /\ scripts'[a][n] = Fresh
        BY <2>3, <4>1, <4>2, <4>3 DEF Installs
      <4>5. Fresh # NoBody /\ Fresh.block = "current"
        BY FreshIsBody, NoBodyAssumption DEF Fresh
      <4>6. Refreshes(k, a, n)'
        BY <4>4, <4>5, FreshIsBody DEF Refreshes, Found
      <4>7. QED
        BY <4>6
    <3>3. QED
      BY <3>1, <3>2
  <2>4. ASSUME Refreshes(k, a, n) PROVE Refreshes(k, a, n)'
    <3>1. Found(k, a, n)'
      BY <2>2, <2>4 DEF Refreshes
    <3>2. CASE pc[j] = "put" /\ Store(j) /\ UNCHANGED active
      <4>1. CASE scripts'[a][n] = scripts[a][n]
        BY <2>4, <3>1, <4>1 DEF Refreshes
      <4>2. CASE scripts'[a][n] # scripts[a][n]
        <5>1. a = acct[j] /\ n = name[j] /\ scripts'[a][n] = draft[j]
          BY <2>1, <3>2, <4>2, Uploaded
        <5>2. Refreshes(j, a, n)
          BY <2>1, <2>4, <3>2, <5>1 DEF JobInv, Installs, Refreshes, Found
        <5>3. draft[j] = draft[k]
          BY <2>1, <2>4, <5>2, SameUpload
        <5>4. QED
          BY <2>4, <3>1, <5>1, <5>3 DEF Refreshes
      <4>3. QED
        BY <4>1, <4>2
    <3>3. CASE UNCHANGED scripts
      BY <2>4, <3>1, <3>3 DEF Refreshes
    <3>4. QED
      BY <3>2, <3>3 DEF ServerStep, server
  <2>5. ASSUME pc[k] = "activate" PROVE scripts'[a][n] = draft[k]
    <3>1. scripts[a][n] = draft[k] /\ (Installs(k, a, n) \/ Refreshes(k, a, n))
      BY <2>1, <2>5 DEF JobInv
    <3>2. CASE pc[j] = "put" /\ Store(j) /\ UNCHANGED active
      <4>1. CASE scripts'[a][n] = scripts[a][n]
        BY <3>1, <4>1
      <4>2. CASE scripts'[a][n] # scripts[a][n]
        <5>1. a = acct[j] /\ n = name[j] /\ scripts'[a][n] = draft[j]
              /\ (active[a] = NoName => draft[j] = Fresh)
          BY <2>1, <3>2, <4>2, Uploaded
        <5>2. CASE Installs(k, a, n)
          BY <5>1, <5>2 DEF Installs
        <5>3. CASE Refreshes(k, a, n)
          <6>1. Refreshes(j, a, n)
            BY <2>1, <3>2, <5>1, <5>3 DEF JobInv, Installs, Refreshes, Found
          <6>2. QED
            BY <2>1, <5>1, <5>3, <6>1, SameUpload
        <5>4. QED
          BY <3>1, <5>2, <5>3
      <4>3. QED
        BY <4>1, <4>2
    <3>3. QED
      BY <3>1, <3>2 DEF ServerStep, server
  <2>6. QED
    BY <1>2, <2>1, <2>2, <2>3, <2>4, <2>5 DEF JobInv
<1>3. QED
  BY <1>1, <1>2

\* No step of a run makes a missing script active.
LEMMA ActiveExistsStable ==
  ASSUME QuietInv, NEW j \in Jobs, ServerStep(j)
  PROVE  ActiveExists'
<1> SUFFICES ASSUME NEW a \in Accounts, active'[a] # NoName
             PROVE  scripts'[a][active'[a]] # NoBody
  BY DEF ActiveExists
<1>1. CASE UNCHANGED server
  BY <1>1 DEF QuietInv, ActiveExists, server
<1>2. CASE pc[j] = "put" /\ Store(j) /\ UNCHANGED active
  BY <1>2, Uploaded, NoBodyAssumption, SieveAssumption DEF QuietInv, ActiveExists, TypeOK
<1>3. CASE /\ pc[j] = "activate" /\ UNCHANGED scripts
           /\ active' = [active EXCEPT ![acct[j]] = name[j]]
  <2>1. scripts[acct[j]][name[j]] # NoBody
    BY <1>3, FreshIsBody, NoBodyAssumption DEF QuietInv, JobInv, Installs, Refreshes
  <2>2. QED
    BY <1>3, <2>1 DEF QuietInv, ActiveExists, TypeOK
<1>4. QED
  BY <1>1, <1>2, <1>3 DEF ServerStep

\* A step of job j keeps the invariant if j itself does.
LEMMA JobStep ==
  ASSUME QuietInv, TypeOK', NEW j \in Jobs, ServerStep(j), JobInv(j)', Visited(j)',
         \A k \in Jobs \ {j} :
           /\ pc'[k] = pc[k] /\ acct'[k] = acct[k] /\ name'[k] = name[k]
           /\ draft'[k] = draft[k] /\ todo'[k] = todo[k] /\ reported'[k] = reported[k]
  PROVE  QuietInv'
<1>1. ASSUME NEW k \in Jobs \ {j} PROVE JobInv(k)'
  BY OthersStable
<1>2. ASSUME NEW k \in Jobs \ {j} PROVE Visited(k)'
  <2> SUFFICES ASSUME pc'[k] # "idle",
                      NEW a \in Accounts \ (todo'[k] \cup reported'[k] \cup {acct'[k]})
               PROVE  Archives(a)'
    BY DEF Visited
  <2>1. Archives(a)
    BY DEF QuietInv, Visited
  <2>2. QED
    BY <2>1, ArchivesStable
<1>3. QED
  BY <1>1, <1>2, ActiveExistsStable DEF QuietInv

\* Reading a body that is to be refreshed or migrated.
LEMMA UploadStep ==
  ASSUME QuietInv, TypeOK', NEW j \in Jobs, pc[j] = "get",
         UNCHANGED <<scripts, active, todo>>,
         NEW a \in Accounts, NEW n \in Names, a = acct[j], n = name[j],
         NEW d \in Bodies, d.block = "current", Upload(j, d),
         \/ scripts[a][n].block = "drifted" /\ d = Merged(scripts[a][n])
         \/ Legacy(n, scripts[a][n]) /\ d = Fresh
  PROVE  QuietInv'
<1>1. /\ draft'[j] = d /\ pc'[j] = "put" /\ acct'[j] = a /\ name'[j] = n
      /\ UNCHANGED <<acct, name, reported>> /\ Found(j, a, n) /\ ServerStep(j)
  BY DEF Upload, QuietInv, TypeOK, JobInv, ServerStep, server
<1>2. Refreshes(j, a, n)'
  BY <1>1 DEF Refreshes, Found
<1>3. JobInv(j)'
  BY <1>1, <1>2 DEF JobInv
<1>4. Visited(j)'
  BY <1>1 DEF QuietInv, Visited, Archives
<1>5. QED
  BY <1>1, <1>3, <1>4, JobStep DEF Upload, QuietInv, TypeOK

\* The invariant holds before the first run.
LEMMA InitQuiet == Init => QuietInv
BY InitType DEF Init, QuietInv, ActiveExists, JobInv, Visited

\* While users are quiet every step keeps the invariant.
LEMMA NextQuiet == Quiet /\ QuietInv /\ [Next]_vars => QuietInv'
<1> SUFFICES ASSUME Quiet, QuietInv, [Next]_vars PROVE QuietInv'
  OBVIOUS
<1> USE DEF QuietInv
<1>0. TypeOK'
  BY NextType
<1>1. ASSUME NEW j \in Jobs, StartRun(j) PROVE QuietInv'
  <2>1. JobInv(j)' /\ Visited(j)' /\ ServerStep(j)
    BY <1>1 DEF StartRun, server, local, JobInv, Visited, ServerStep, TypeOK
  <2>2. QED
    BY <1>0, <1>1, <2>1, JobStep DEF StartRun, local, TypeOK
<1>2. ASSUME NEW j \in Jobs, NEW a \in Accounts, NextAccount(j, a) PROVE QuietInv'
  <2>1. JobInv(j)' /\ ServerStep(j)
    BY <1>2 DEF NextAccount, server, JobInv, ServerStep, TypeOK
  <2>2. Visited(j)'
    BY <1>2, SieveAssumption DEF NextAccount, server, JobInv, Visited, TypeOK, Archives
  <2>3. QED
    BY <1>0, <1>2, <2>1, <2>2, JobStep DEF NextAccount, TypeOK
<1>3. ASSUME NEW j \in Jobs, ListScripts(j) PROVE QuietInv'
  <2>1. acct[j] \in Accounts
    BY <1>3 DEF ListScripts, TypeOK
  <2>2. Visited(j)' /\ ServerStep(j)
    BY <1>3 DEF ListScripts, server, Visited, ServerStep, TypeOK, Archives
  <2>3. CASE active[acct[j]] = NoName
    <3>1. JobInv(j)'
      BY <1>3, <2>1, <2>3 DEF ListScripts, server, JobInv, TypeOK, Installs
    <3>2. QED
      BY <1>0, <1>3, <2>2, <2>3, <3>1, JobStep DEF ListScripts, TypeOK
  <2>4. CASE active[acct[j]] # NoName
    <3>1. JobInv(j)'
      BY <1>3, <2>1, <2>4 DEF ListScripts, server, JobInv, TypeOK, Found, ActiveExists
    <3>2. QED
      BY <1>0, <1>3, <2>2, <2>4, <3>1, JobStep DEF ListScripts, TypeOK
  <2>5. QED
    BY <2>3, <2>4
<1>4. ASSUME NEW j \in Jobs, GetScript(j) PROVE QuietInv'
  <2> DEFINE a == acct[j]  n == name[j]  b == scripts[a][n]
  <2>1. /\ a \in Accounts /\ n \in Names /\ b \in Bodies /\ pc[j] = "get"
        /\ Found(j, a, n) /\ UNCHANGED <<scripts, active, todo>> /\ ServerStep(j)
    BY <1>4 DEF GetScript, TypeOK, server, JobInv, ServerStep
  <2>2. CASE Report(j)
    <3>1. JobInv(j)' /\ Visited(j)'
      BY <2>1, <2>2 DEF Report, Forget, JobInv, Visited, TypeOK, Archives
    <3>2. QED
      BY <1>0, <2>1, <2>2, <3>1, JobStep DEF Report, Forget, TypeOK
  <2>3. CASE Return(j) /\ (b.block = "current" \/ b.include)
    <3>1. Archives(a)
      BY <2>1, <2>3, SieveAssumption DEF Archives, Found
    <3>2. JobInv(j)' /\ Visited(j)'
      BY <2>1, <2>3, <3>1 DEF Return, Forget, JobInv, Visited, TypeOK, Archives
    <3>3. QED
      BY <1>0, <2>1, <2>3, <3>2, JobStep DEF Return, Forget, TypeOK
  <2>5. Merged(b).block = "current" /\ Fresh.block = "current"
    BY <2>1 DEF Merged, Fresh, Bodies
  <2>6. \/ Report(j)
        \/ Return(j) /\ (b.block = "current" \/ b.include)
        \/ b.block = "drifted" /\ Upload(j, Merged(b))
        \/ Legacy(n, b) /\ Upload(j, Fresh)
    BY <1>4 DEF GetScript, Decide
  <2>7. CASE b.block = "drifted" /\ Upload(j, Merged(b))
    <3>1. Merged(b) \in Bodies
      BY <2>1, MergedIsBody
    <3>2. QED
      BY <1>0, <2>1, <2>5, <2>7, <3>1, UploadStep
  <2>8. CASE Legacy(n, b) /\ Upload(j, Fresh)
    BY <1>0, <2>1, <2>5, <2>8, FreshIsBody, UploadStep
  <2>9. QED
    BY <2>2, <2>3, <2>6, <2>7, <2>8
<1>5. ASSUME NEW j \in Jobs, PutScript(j) PROVE QuietInv'
  <2> DEFINE a == acct[j]  n == name[j]
  <2>1. /\ a \in Accounts /\ n \in Names /\ pc[j] = "put" /\ Store(j) /\ ServerStep(j)
        /\ pc'[j] = "activate" /\ UNCHANGED <<active, todo, acct, name, draft, reported>>
    BY <1>5 DEF PutScript, ServerStep, local, TypeOK
  <2>2. scripts'[a][n] = draft[j] /\ (Installs(j, a, n) \/ Refreshes(j, a, n))
    BY <2>1 DEF Store, JobInv, TypeOK
  <2>3. (Installs(j, a, n) \/ Refreshes(j, a, n))'
    BY <2>1, <2>2, NoBodyAssumption DEF Installs, Refreshes, Found
  <2>4. JobInv(j)'
    BY <2>1, <2>2, <2>3 DEF JobInv
  <2>5. Visited(j)'
    <3> SUFFICES ASSUME NEW c \in Accounts \ (todo[j] \cup reported[j] \cup {acct[j]})
                 PROVE  Archives(c)'
      BY <2>1 DEF Visited
    <3>1. QED
      BY <2>1, ArchivesStable DEF Visited
  <2>6. QED
    BY <1>0, <1>5, <2>1, <2>4, <2>5, JobStep DEF PutScript, local, TypeOK
<1>6. ASSUME NEW j \in Jobs, SetActive(j) PROVE QuietInv'
  <2>1. PICK a \in Accounts, n \in Names : a = acct[j] /\ n = name[j]
    BY <1>6 DEF SetActive, TypeOK
  <2>2. /\ pc[j] = "activate" /\ ServerStep(j)
        /\ UNCHANGED <<scripts, todo, reported>> /\ active'[a] = n
        /\ pc'[j] = "next" /\ acct'[j] = NoAccount
    BY <1>6, <2>1 DEF SetActive, Activate, ServerStep, Return, Forget, TypeOK
  <2>3. scripts[a][n] = draft[j] /\ draft[j] \in Bodies /\ draft[j].block = "current"
    BY <2>1, <2>2, FreshIsBody DEF JobInv, Installs, Refreshes, Fresh
  <2>4. Archives(a)'
    BY <2>1, <2>2, <2>3, NoBodyAssumption, SieveAssumption DEF Archives
  <2>5. Visited(j)'
    BY <2>1, <2>2, <2>4, ArchivesStable DEF Visited
  <2>6. JobInv(j)'
    BY <2>2 DEF JobInv
  <2>7. QED
    BY <1>0, <1>6, <2>2, <2>5, <2>6, JobStep DEF SetActive, Return, Forget, TypeOK
<1>7. ASSUME NEW j \in Jobs, Summary(j) \/ Crash(j) PROVE QuietInv'
  <2>1. UNCHANGED server /\ Stop(j) /\ ServerStep(j) /\ pc'[j] = "idle"
    BY <1>7 DEF Summary, Crash, Stop, ServerStep, TypeOK
  <2>2. QED
    BY <1>0, <2>1, JobStep DEF Stop, Forget, TypeOK, JobInv, Visited
<1>8. ASSUME NEW j \in Jobs, Fail(j) PROVE QuietInv'
  <2>1. /\ acct[j] \in Accounts /\ ServerStep(j) /\ Report(j) /\ UNCHANGED todo
        /\ pc[j] # "idle" /\ pc'[j] = "next" /\ acct'[j] = NoAccount
        /\ reported'[j] = reported[j] \cup {acct[j]}
    BY <1>8 DEF Fail, Activate, ServerStep, Report, Forget, server, TypeOK
  <2>2. Visited(j)'
    BY <2>1, ArchivesStable DEF Visited
  <2>3. JobInv(j)'
    BY <2>1 DEF JobInv
  <2>4. QED
    BY <1>0, <2>1, <2>2, <2>3, JobStep DEF Report, Forget, TypeOK
<1>9. ASSUME Running = {}, UNCHANGED <<pc, acct>>, ActiveExists' PROVE QuietInv'
  <2>1. \A j \in Jobs : pc'[j] = "idle" /\ pc[j] = "idle"
    BY <1>9 DEF Running
  <2>2. QED
    BY <1>0, <1>9, <2>1 DEF JobInv, Visited
<1>10. ASSUME NEW a \in Accounts, NEW n \in Names, NEW b \in Bodies, UserSave(a, n, b)
       PROVE QuietInv'
  <2>1. ActiveExists'
    BY <1>10, NoBodyAssumption DEF UserSave, ActiveExists, TypeOK
  <2>2. QED
    BY <1>9, <1>10, <2>1 DEF UserSave, MayEdit, local
<1>11. ASSUME NEW a \in Accounts, UserDeactivate(a) PROVE QuietInv'
  <2>1. ActiveExists'
    BY <1>11 DEF UserDeactivate, ActiveExists, TypeOK
  <2>2. QED
    BY <1>9, <1>11, <2>1 DEF UserDeactivate, MayEdit, local
<1>12. CASE GitChanges
  <2>1. \A b \in Bodies : [b EXCEPT !.block = "drifted"] # NoBody
    <3>1. \A b \in Bodies : [b EXCEPT !.block = "drifted"] \in Bodies
      BY DEF Bodies, Blocks
    <3>2. QED
      BY <3>1, NoBodyAssumption
  <2>2. ActiveExists'
    BY <1>12, <2>1, SieveAssumption DEF GitChanges, ActiveExists, TypeOK
  <2>3. QED
    BY <1>9, <1>12, <2>2 DEF GitChanges, local
<1>13. CASE UNCHANGED vars
  BY <1>0, <1>13 DEF vars, ActiveExists, JobInv, Visited, Found, Installs, Refreshes, Archives
<1>14. QED
  BY <1>1, <1>2, <1>3, <1>4, <1>5, <1>6, <1>7, <1>8, <1>10, <1>11, <1>12, <1>13
  DEF Next, Run, Reconcile, Fault, User

\* While users are quiet what runs have read stays true, for any number of them.
LEMMA QuietHolds == ASSUME Quiet PROVE Spec => []QuietInv
BY InitQuiet, NextQuiet, PTL DEF Spec

\* While users are quiet no run ends in silence: an account it does not report
\* archives, with any number of runs, failures and crashes beside it.
THEOREM NoSilentGap == ASSUME Quiet PROVE Spec => []NothingSilent
<1>1. QuietInv => NothingSilent
  BY SieveAssumption DEF QuietInv, NothingSilent, JobInv, Visited
<1>2. QED
  BY <1>1, QuietHolds, PTL

\* An upload over an active script is the refresh of its block, or the
\* migration of the body the job used to write.
LEMMA OverwriteStep ==
  ASSUME QuietInv, [Next]_vars, NEW j \in Jobs, NEW a \in Accounts,
         active[a] # NoName, Overwrites(j, a, active[a])
  PROVE  LET s == scripts[a][active[a]]
             t == scripts'[a][active[a]]
         IN  \/ s.block = "drifted" /\ t = Merged(s)
             \/ Legacy(active[a], s) /\ t = Fresh
<1> DEFINE n == active[a]
<1>1. JobInv(j) /\ n \in Names /\ pc[j] = "put" /\ pc'[j] # "put"
      /\ acct[j] = a /\ name[j] = n /\ scripts'[a][n] # scripts[a][n]
  BY DEF Overwrites, QuietInv, TypeOK
<1>2. scripts'[a][n] = draft[j]
  <2>1. ASSUME NEW k \in Jobs, Run(k) \/ Fail(k) \/ Crash(k) PROVE scripts'[a][n] = draft[j]
    <3>1. CASE PutScript(k) \/ Fail(k)
      <4>1. k = j
        BY <1>1, <3>1 DEF PutScript, Fail, Report, QuietInv, TypeOK
      <4>2. QED
        BY <1>1, <3>1, <4>1 DEF PutScript, Fail, Store, server, QuietInv, TypeOK
    <3>2. CASE ~PutScript(k) /\ ~Fail(k)
      <4>1. UNCHANGED scripts
        BY <2>1, <3>2 DEF Run, Reconcile, StartRun, NextAccount, ListScripts, GetScript,
                         SetActive, Summary, Crash, server
      <4>2. QED
        BY <1>1, <4>1
    <3>3. QED
      BY <3>1, <3>2
  <2>2. CASE UNCHANGED pc
    BY <1>1, <2>2
  <2>3. QED
    BY <2>1, <2>2 DEF Next, Fault, User, UserSave, UserDeactivate, GitChanges, vars
<1>3. QED
  BY <1>1, <1>2 DEF JobInv, Installs, Refreshes

\* While users are quiet an upload over a script with the managed block keeps
\* the rules around it, also when two runs refresh the script at once.
THEOREM RulesSurviveRuns == ASSUME Quiet PROVE Spec => RulesSurvive
<1>1. QuietInv /\ [Next]_vars =>
        [\A j \in Jobs, a \in Accounts :
           (/\ active[a] # NoName
            /\ Overwrites(j, a, active[a])
            /\ HasSpan(scripts[a][active[a]]))
             => scripts'[a][active[a]].rules = scripts[a][active[a]].rules]_vars
  <2> SUFFICES ASSUME QuietInv, [Next]_vars, NEW j \in Jobs, NEW a \in Accounts,
                      active[a] # NoName, Overwrites(j, a, active[a]),
                      HasSpan(scripts[a][active[a]])
               PROVE  scripts'[a][active[a]].rules = scripts[a][active[a]].rules
    OBVIOUS
  <2> DEFINE s == scripts[a][active[a]]  t == scripts'[a][active[a]]
  <2>1. s.block = "drifted" /\ t = Merged(s)
    BY OverwriteStep DEF HasSpan, Legacy
  <2>2. s \in Bodies
    BY DEF QuietInv, TypeOK, Overwrites
  <2>3. QED
    BY <2>1, <2>2 DEF Merged, Bodies
<1>2. QED
  BY <1>1, QuietHolds, PTL DEF Spec, RulesSurvive

\* While users are quiet no upload replaces an active script that has no
\* managed block, but for the body the job used to write.
THEOREM UnmanagedStays == ASSUME Quiet PROVE Spec => UnmanagedUntouched
<1>1. QuietInv /\ [Next]_vars =>
        [\A j \in Jobs, a \in Accounts :
           active[a] # NoName /\ Overwrites(j, a, active[a])
             => \/ HasSpan(scripts[a][active[a]])
                \/ Legacy(active[a], scripts[a][active[a]])]_vars
  BY OverwriteStep DEF HasSpan
<1>2. QED
  BY <1>1, QuietHolds, PTL DEF Spec, UnmanagedUntouched

\* What a run does to the server in any step of its own.
LEMMA RunServerStep ==
  ASSUME TypeOK, NEW j \in Jobs, Run(j) \/ Fail(j) \/ Crash(j)
  PROVE  ServerStep(j)
<1>1. CASE PutScript(j)
  BY <1>1 DEF PutScript, ServerStep
<1>2. CASE SetActive(j)
  BY <1>2 DEF SetActive, Activate, ServerStep
<1>3. CASE Fail(j)
  BY <1>3 DEF Fail, Activate, ServerStep
<1>4. CASE ~PutScript(j) /\ ~SetActive(j) /\ ~Fail(j)
  BY <1>4 DEF Run, Reconcile, StartRun, NextAccount, ListScripts, GetScript, Summary, Crash,
              ServerStep, server
<1>5. QED
  BY <1>1, <1>2, <1>3, <1>4

\* While users are quiet, an account that archives goes on archiving through every
\* step of the runs: the upload before an activation, the migration of the old
\* body, a command that fails after it took effect.
THEOREM RunsKeepArchiving == ASSUME Quiet PROVE Spec => ArchivingGoesOn
<1>1. QuietInv /\ [Next]_vars =>
        [Running # {} => \A a \in Accounts : Archives(a) => Archives(a)']_vars
  <2> SUFFICES ASSUME QuietInv, Next, Running # {}, NEW a \in Accounts, Archives(a)
               PROVE  Archives(a)'
    OBVIOUS
  <2>1. PICK j \in Jobs : Run(j) \/ Fail(j) \/ Crash(j)
    BY DEF Next, Fault, User, UserSave, UserDeactivate, MayEdit, GitChanges
  <2>2. ServerStep(j)
    BY <2>1, RunServerStep DEF QuietInv
  <2>3. QED
    BY <2>2, ArchivesStable
<1>2. QED
  BY <1>1, QuietHolds, PTL DEF Spec, ArchivingGoesOn
==============================================================================
