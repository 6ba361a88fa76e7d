---------------------- MODULE RegistryPasswords_proofs ----------------------
EXTENDS RegistryPasswords, TLAPS

(***************************************************************************)
(* Type correctness                                                        *)
(***************************************************************************)

\* --secret and --repo select among the uses.
LEMMA SelectionsAreUses == ASSUME NEW uses \in Selections PROVE uses \subseteq Uses
BY DEF Selections

\* Types at the start.
LEMMA InitType == Init => TypeOK
<1> SUFFICES ASSUME Init PROVE TypeOK
  OBVIOUS
<1>1. 0 \in Pairs /\ 1 \in Pairs
  BY RegistryAssumption DEF RegistryAssumption, Pairs
<1>2. main \in FilePairs
  BY <1>1 DEF Init, FilePairs
<1>3. QED
  BY <1>1, <1>2 DEF Init, TypeOK

\* A file of one checkout is written.
LEMMA WriteType ==
  ASSUME TypeOK, NEW c \in Checkouts, NEW f \in Files, NEW p \in Pairs,
         tree' = [tree EXCEPT ![c][f] = p]
  PROVE  tree' \in [Checkouts -> FilePairs]
<1>1. [tree[c] EXCEPT ![f] = p] \in FilePairs
  BY DEF TypeOK, FilePairs
<1>2. QED
  BY <1>1 DEF TypeOK

\* The end of a run leaves its variables well typed.
LEMMA DoneType ==
  ASSUME TypeOK, NEW c \in Checkouts, Done(c)
  PROVE  /\ pc' \in [Checkouts -> {"idle", "hashes", "passwords", "sync"}]
         /\ creating' \in [Checkouts -> BOOLEAN]
         /\ stale' \in [Checkouts -> SUBSET Files]
         /\ picked' \in [Checkouts -> SUBSET Uses]
         /\ todo' \in [Checkouts -> SUBSET Uses]
         /\ name' \in [Checkouts -> Names \cup {NoName}]
         /\ value' \in [Checkouts -> Pairs]
         /\ failures' \in [Checkouts -> BOOLEAN]
<1>1. 0 \in Pairs
  BY RegistryAssumption DEF RegistryAssumption, Pairs
<1>2. QED
  BY <1>1 DEF TypeOK, Done

\* So does its start.
LEMMA BeginType ==
  ASSUME TypeOK, NEW c \in Checkouts, NEW files \in SUBSET Files, Begin(c, files),
         made' \in Pairs, plain' \in [Checkouts -> Pairs]
  PROVE  TypeOK'
BY DEF TypeOK, Begin, git

\* Every step keeps the types.
LEMMA NextType == TypeOK /\ [Next]_vars => TypeOK'
<1> SUFFICES ASSUME TypeOK, [Next]_vars PROVE TypeOK'
  OBVIOUS
<1>0. 0 \in Pairs
  BY RegistryAssumption DEF RegistryAssumption, Pairs
<1>1. ASSUME NEW c \in Checkouts, Create(c) PROVE TypeOK'
  <2>1. CASE StartRotate(c)
    <3>1. made' \in Pairs /\ plain' \in [Checkouts -> Pairs]
      BY <2>1, RegistryAssumption DEF RegistryAssumption, StartRotate, TypeOK, Pairs
    <3>2. QED
      BY <2>1, <3>1, BeginType DEF StartRotate
  <2>2. CASE StartReuse(c)
    BY <2>2, BeginType DEF StartReuse, TypeOK, OutOfDate
  <2>3. CASE WriteHashes(c)
    <3>1. plain[c] \in Pairs /\ "hashes" \in Files
      BY DEF TypeOK, Files
    <3>2. tree' \in [Checkouts -> FilePairs]
      BY <2>3, <3>1, WriteType DEF WriteHashes, TypeOK
    <3>3. QED
      BY <2>3, <3>2 DEF WriteHashes, TypeOK, git, run
  <2>4. CASE HashesFail(c)
    <3>1. tree' \in [Checkouts -> FilePairs]
      BY <1>0, <2>4, WriteType DEF HashesFail, Files
    <3>2. QED
      BY <2>4, <3>1, DoneType DEF HashesFail, TypeOK, git
  <2>5. CASE WritePasswords(c)
    <3>1. plain[c] \in Pairs /\ "passwords" \in Files
      BY DEF TypeOK, Files
    <3>2. tree' \in [Checkouts -> FilePairs]
      BY <2>5, <3>1, WriteType DEF WritePasswords, TypeOK
    <3>3. QED
      BY <2>5, <3>2 DEF WritePasswords, TypeOK, git
  <2>6. QED
    BY <1>1, <2>1, <2>2, <2>3, <2>4, <2>5 DEF Create
<1>2. ASSUME NEW c \in Checkouts, Sync(c) PROVE TypeOK'
  <2>1. ASSUME NEW uses \in Selections, StartSync(c, uses) PROVE TypeOK'
    BY <2>1, SelectionsAreUses DEF StartSync, TypeOK, git
  <2>2. ASSUME NEW n \in Names, ReadValue(c, n) PROVE TypeOK'
    BY <2>2 DEF ReadValue, Current, TypeOK, FilePairs, Files, git
  <2>3. ASSUME NEW u \in Uses, SetSecret(c, u) \/ SetFails(c, u) PROVE TypeOK'
    <3>1. github' \in [Uses -> Pairs]
      BY <2>3 DEF SetSecret, SetFails, TypeOK
    <3>2. failures' \in [Checkouts -> BOOLEAN]
      BY <2>3 DEF SetSecret, SetFails, TypeOK
    <3>3. Advance(c, u)
      BY <2>3 DEF SetSecret, SetFails
    <3>4. QED
      BY <1>0, <3>1, <3>2, <3>3 DEF Advance, TypeOK, git
  <2>4. CASE Succeed(c)
    <3>1. ended' \in [Checkouts -> BOOLEAN]
      BY <2>4 DEF Succeed, TypeOK
    <3>2. QED
      BY <2>4, <3>1, DoneType DEF Succeed, TypeOK, git
  <2>5. QED
    BY <1>2, <2>1, <2>2, <2>3, <2>4 DEF Sync
<1>3. ASSUME NEW c \in Checkouts, Fail(c) PROVE TypeOK'
  BY <1>3, DoneType DEF Fail, TypeOK, git
<1>4. ASSUME NEW c \in Checkouts, Git(c) PROVE TypeOK'
  <2>0. Pulled(c) \in FilePairs
    BY DEF Pulled, TypeOK, FilePairs
  <2>1. ASSUME NEW files \in SUBSET Changed(c), Publish(c, files) PROVE TypeOK'
    <3>1. main' \in FilePairs
      BY <2>1 DEF Publish, TypeOK, FilePairs
    <3>2. QED
      BY <2>0, <2>1, <3>1 DEF Publish, TypeOK, run
  <2>2. CASE Pull(c)
    BY <2>0, <2>2 DEF Pull, TypeOK, run
  <2>3. CASE Discard(c)
    BY <2>3 DEF Discard, TypeOK, git, run
  <2>4. QED
    BY <1>4, <2>1, <2>2, <2>3 DEF Git
<1>5. CASE FluxApply
  BY <1>5 DEF FluxApply, TypeOK, FilePairs, Files, git, run
<1>6. CASE UNCHANGED vars
  BY <1>6 DEF vars, git, run, TypeOK
<1>7. QED
  BY <1>1, <1>2, <1>3, <1>4, <1>5, <1>6 DEF Next

\* The two scripts handle passwords, files and uses that exist, whatever fails.
THEOREM TypeCorrect == Spec => []TypeOK
BY InitType, NextType, PTL DEF Spec

(***************************************************************************)
(* One checkout, whatever the others do                                    *)
(***************************************************************************)

\* Every step of a checkout but a pull.
Work(c) == Create(c) \/ Sync(c) \/ Fail(c) \/ Discard(c) \/ \E files \in SUBSET Changed(c) : Publish(c, files)

\* A step of one checkout leaves the variables of the others alone.
LEMMA OthersStay ==
  ASSUME TypeOK, NEW c \in Checkouts, NEW d \in Checkouts, d # c, Work(c) \/ Pull(c)
  PROVE  UNCHANGED <<plain[d], tree[d], base[d], pc[d], creating[d], stale[d], picked[d],
                     todo[d], name[d], value[d], failures[d], ended[d]>>
<1> USE DEF TypeOK, git, run
<1>1. CASE StartRotate(c) \/ StartReuse(c)
  BY <1>1 DEF StartRotate, StartReuse, Begin
<1>2. CASE WriteHashes(c) \/ WritePasswords(c)
  BY <1>2 DEF WriteHashes, WritePasswords
<1>3. CASE HashesFail(c) \/ Succeed(c) \/ Fail(c)
  BY <1>3 DEF HashesFail, Succeed, Fail, Done
<1>4. ASSUME NEW uses \in Selections, StartSync(c, uses)
      PROVE  UNCHANGED <<plain[d], tree[d], base[d], pc[d], creating[d], stale[d], picked[d],
                         todo[d], name[d], value[d], failures[d], ended[d]>>
  BY <1>4 DEF StartSync
<1>5. ASSUME NEW n \in Names, ReadValue(c, n)
      PROVE  UNCHANGED <<plain[d], tree[d], base[d], pc[d], creating[d], stale[d], picked[d],
                         todo[d], name[d], value[d], failures[d], ended[d]>>
  BY <1>5 DEF ReadValue
<1>6. ASSUME NEW u \in Uses, SetSecret(c, u) \/ SetFails(c, u)
      PROVE  UNCHANGED <<plain[d], tree[d], base[d], pc[d], creating[d], stale[d], picked[d],
                         todo[d], name[d], value[d], failures[d], ended[d]>>
  BY <1>6 DEF SetSecret, SetFails, Advance
<1>7. ASSUME NEW files \in SUBSET Changed(c), Publish(c, files)
      PROVE  UNCHANGED <<plain[d], tree[d], base[d], pc[d], creating[d], stale[d], picked[d],
                         todo[d], name[d], value[d], failures[d], ended[d]>>
  BY <1>7 DEF Publish
<1>8. CASE Pull(c) \/ Discard(c)
  BY <1>8 DEF Pull, Discard
<1>9. QED
  BY <1>1, <1>2, <1>3, <1>4, <1>5, <1>6, <1>7, <1>8 DEF Work, Create, Sync

\* The files a run of create-zot-htpasswd.sh has yet to write.
Unwritten(c) ==
  {f \in stale[c] : pc[c] = "hashes" \/ (pc[c] = "passwords" /\ f = "passwords")}

\* The files it does not write any more hold the passwords.
WritingAt(c) ==
  /\ pc[c] \in {"hashes", "passwords"} => creating[c]
  /\ creating[c] => /\ pc[c] # "idle" /\ ~ended[c] /\ plain[c] # 0
                    /\ \A f \in Files \ Unwritten(c) : tree[c][f] = plain[c]

\* What a sync holds, and that it sets every use when it runs inside.
HoldingAt(c) ==
  /\ pc[c] # "sync" => name[c] = NoName /\ ~failures[c]
  /\ name[c] # NoName => value[c] = tree[c]["passwords"]
  /\ creating[c] /\ pc[c] = "sync" => picked[c] = Uses

\* None of this needs a precaution: nothing else writes to a checkout that runs.
LocalAt(c) == WritingAt(c) /\ HoldingAt(c)
LocalInv == \A c \in Checkouts : LocalAt(c)

\* create-zot-htpasswd.sh starts, writes, or fails to.
LEMMA CreateLocal ==
  ASSUME TypeOK, NEW c \in Checkouts, LocalAt(c), Create(c)
  PROVE  LocalAt(c)'
<1> USE DEF LocalAt
<1>1. ASSUME NEW files, Begin(c, files), pc[c] = "idle", plain'[c] # 0,
             \A f \in Files \ files : tree[c][f] = plain'[c]
      PROVE  LocalAt(c)'
  <2>1. /\ UNCHANGED <<tree, name, value, failures>>
        /\ pc[c]' = "hashes" /\ creating[c]' /\ ~ended[c]' /\ stale[c]' = files
    BY <1>1 DEF Begin, TypeOK
  <2>2. WritingAt(c)'
    BY <1>1, <2>1 DEF WritingAt, Unwritten
  <2>3. HoldingAt(c)'
    BY <1>1, <2>1 DEF HoldingAt
  <2>4. QED
    BY <2>2, <2>3
<1>2. CASE StartRotate(c)
  <2>1. plain'[c] = made + 1 /\ made \in Nat
    BY <1>2, RegistryAssumption DEF RegistryAssumption, StartRotate, TypeOK, Pairs
  <2>2. plain'[c] # 0
    BY <2>1
  <2>3. Begin(c, Files) /\ pc[c] = "idle"
    BY <1>2 DEF StartRotate, MayRun
  <2>4. QED
    BY <1>1, <2>2, <2>3
<1>3. CASE StartReuse(c)
  BY <1>1, <1>3 DEF StartReuse, MayRun, OutOfDate
<1>4. CASE WriteHashes(c) \/ WritePasswords(c)
  <2>1. /\ creating[c] /\ ~ended[c] /\ plain[c] # 0
        /\ \A f \in Files \ Unwritten(c) : tree[c][f] = plain[c]
    BY <1>4 DEF WriteHashes, WritePasswords, WritingAt
  <2>2. UNCHANGED <<plain, creating, stale, name, value, failures, ended>>
    BY <1>4 DEF WriteHashes, WritePasswords, run
  <2>3. name[c] = NoName /\ ~failures[c]
    BY <1>4 DEF WriteHashes, WritePasswords, HoldingAt
  <2>4. \A f \in Files \ Unwritten(c)' : tree[c]'[f] = plain[c]
    <3>1. CASE WriteHashes(c)
      <4>1. pc[c] = "hashes" /\ pc[c]' = "passwords" /\ stale[c]' = stale[c]
        BY <3>1, <2>2 DEF WriteHashes, TypeOK
      <4>2. "hashes" \notin stale[c] => tree[c]["hashes"] = plain[c]
        BY <2>1, <4>1 DEF Unwritten, Files
      <4>3. tree[c]'["hashes"] = plain[c] /\ tree[c]'["passwords"] = tree[c]["passwords"]
        BY <3>1, <4>2 DEF WriteHashes, TypeOK, FilePairs, Files
      <4>4. QED
        BY <2>1, <4>1, <4>3 DEF Unwritten, Files
    <3>2. CASE WritePasswords(c)
      <4>1. pc[c] = "passwords" /\ stale[c]' = stale[c]
        BY <3>2, <2>2 DEF WritePasswords, TypeOK
      <4>2. "passwords" \notin stale[c] => tree[c]["passwords"] = plain[c]
        BY <2>1, <4>1 DEF Unwritten, Files
      <4>3. tree[c]'["passwords"] = plain[c] /\ tree[c]'["hashes"] = tree[c]["hashes"]
        BY <3>2, <4>2 DEF WritePasswords, TypeOK, FilePairs, Files
      <4>4. tree[c]["hashes"] = plain[c]
        BY <2>1, <4>1 DEF Unwritten, Files
      <4>5. QED
        BY <4>3, <4>4 DEF Files
    <3>3. QED
      BY <1>4, <3>1, <3>2
  <2>5. pc[c]' \in {"passwords", "sync"} /\ (pc[c]' = "sync" => picked[c]' = Uses)
    BY <1>4 DEF WriteHashes, WritePasswords, TypeOK
  <2>6. WritingAt(c)'
    BY <2>1, <2>2, <2>4, <2>5 DEF WritingAt
  <2>7. HoldingAt(c)'
    BY <2>2, <2>3, <2>5 DEF HoldingAt
  <2>8. QED
    BY <2>6, <2>7
<1>5. CASE HashesFail(c)
  BY <1>5 DEF HashesFail, Done, WritingAt, HoldingAt, TypeOK
<1>6. QED
  BY <1>2, <1>3, <1>4, <1>5 DEF Create

\* The sync, the end of a run, and git.
LEMMA WorkLocal ==
  ASSUME TypeOK, NEW c \in Checkouts, LocalAt(c), Work(c) \/ Pull(c)
  PROVE  LocalAt(c)'
<1> USE DEF LocalAt
<1>1. ASSUME NEW uses \in Selections, StartSync(c, uses) PROVE LocalAt(c)'
  <2>1. /\ pc[c] = "idle" /\ pc[c]' = "sync" /\ picked[c]' = uses
        /\ UNCHANGED <<plain, tree, creating, stale, name, value, failures, ended>>
    BY <1>1 DEF StartSync, MayRun, TypeOK
  <2>2. ~creating[c] /\ name[c] = NoName
    BY <2>1 DEF WritingAt, HoldingAt
  <2>3. QED
    BY <2>1, <2>2 DEF WritingAt, HoldingAt
<1>2. ASSUME NEW n \in Names, ReadValue(c, n) PROVE LocalAt(c)'
  <2>1. /\ pc[c] = "sync" /\ value[c]' = tree[c]["passwords"]
        /\ UNCHANGED <<plain, tree, pc, creating, stale, picked, failures, ended>>
    BY <1>2 DEF ReadValue, Current, TypeOK
  <2>2. QED
    BY <2>1 DEF WritingAt, Unwritten, HoldingAt
<1>3. ASSUME NEW u \in Uses, SetSecret(c, u) \/ SetFails(c, u) PROVE LocalAt(c)'
  <2>1. pc[c] = "sync" /\ UNCHANGED <<plain, tree, pc, creating, stale, picked, ended>>
    BY <1>3 DEF SetSecret, SetFails, Advance
  <2>2. name[c]' = NoName \/ (name[c]' = name[c] /\ value[c]' = value[c])
    BY <1>3 DEF SetSecret, SetFails, Advance, TypeOK
  <2>3. QED
    BY <2>1, <2>2 DEF WritingAt, Unwritten, HoldingAt
<1>4. CASE Succeed(c) \/ Fail(c)
  <2>1. Done(c) /\ UNCHANGED <<plain, tree>>
    BY <1>4 DEF Succeed, Fail
  <2>2. pc[c]' = "idle" /\ ~creating[c]' /\ name[c]' = NoName /\ ~failures[c]'
    BY <2>1 DEF Done, TypeOK
  <2>3. QED
    BY <2>2 DEF WritingAt, HoldingAt
<1>5. ASSUME pc[c] = "idle", UNCHANGED <<pc, run, ended, plain>> PROVE LocalAt(c)'
  BY <1>5 DEF run, WritingAt, HoldingAt
<1>6. ASSUME NEW files \in SUBSET Changed(c), Publish(c, files) PROVE LocalAt(c)'
  BY <1>5, <1>6 DEF Publish
<1>7. CASE Discard(c) \/ Pull(c)
  BY <1>5, <1>7 DEF Discard, Pull
<1>8. QED
  BY <1>1, <1>2, <1>3, <1>4, <1>6, <1>7, CreateLocal DEF Work, Sync

\* Every step keeps what holds of one checkout.
LEMMA NextLocal == TypeOK /\ LocalInv /\ [Next]_vars => LocalInv'
<1> SUFFICES ASSUME TypeOK, LocalInv, [Next]_vars, NEW d \in Checkouts PROVE LocalAt(d)'
  BY DEF LocalInv
<1>1. LocalAt(d)
  BY DEF LocalInv
<1>2. ASSUME UNCHANGED <<plain[d], tree[d], base[d], pc[d], creating[d], stale[d], picked[d],
                         todo[d], name[d], value[d], failures[d], ended[d]>>
      PROVE  LocalAt(d)'
  BY <1>1, <1>2 DEF LocalAt, WritingAt, Unwritten, HoldingAt
<1>3. ASSUME NEW c \in Checkouts, Work(c) \/ Pull(c) PROVE LocalAt(d)'
  BY <1>1, <1>2, <1>3, WorkLocal, OthersStay
<1>4. CASE FluxApply \/ UNCHANGED vars
  BY <1>2, <1>4 DEF FluxApply, vars, git, run
<1>5. QED
  BY <1>3, <1>4 DEF Next, Git, Work

\* Nothing runs at the start.
LEMMA InitLocal == Init => LocalInv
BY DEF Init, LocalInv, LocalAt, WritingAt, HoldingAt

\* A run writes the files it was started for, from one pair of passwords, and
\* its sync sends what it has written: without a precaution.
LEMMA Local == Spec => []LocalInv
BY InitLocal, NextLocal, TypeCorrect, PTL DEF Spec

(***************************************************************************)
(* One script at a time                                                    *)
(***************************************************************************)

RunsAlone == \A c, d \in Checkouts : pc[c] # "idle" /\ pc[d] # "idle" => c = d

\* What the sync has set as long as nothing has failed.
SyncedAt(c) ==
  pc[c] = "sync" /\ ~failures[c] =>
    \A u \in picked[c] \ todo[c] : github[u] = tree[c]["passwords"]

SyncInv == RunsAlone /\ \A c \in Checkouts : SyncedAt(c)

\* The checkout that takes the step.
LEMMA WorkSynced ==
  ASSUME TypeOK, LocalInv, NEW c \in Checkouts, SyncedAt(c), Work(c) \/ Pull(c)
  PROVE  SyncedAt(c)'
<1>1. ASSUME NEW u \in Uses, SetSecret(c, u) \/ SetFails(c, u) PROVE SyncedAt(c)'
  <2> SUFFICES ASSUME ~failures[c]', NEW v \in picked[c]' \ todo[c]'
               PROVE  github'[v] = tree[c]'["passwords"]
    BY DEF SyncedAt
  <2>1. /\ pc[c] = "sync" /\ name[c] = u[1] /\ UNCHANGED <<tree, picked>>
        /\ todo[c]' = todo[c] \ {u}
    BY <1>1 DEF SetSecret, SetFails, Advance, TypeOK
  <2>2. value[c] = tree[c]["passwords"]
    <3>1. name[c] # NoName
      BY <2>1, RegistryAssumption DEF RegistryAssumption, Names
    <3>2. QED
      BY <3>1 DEF LocalInv, LocalAt, HoldingAt
  <2>3. github' = [github EXCEPT ![u] = value[c]] /\ ~failures[c]
    BY <1>1 DEF SetSecret, SetFails, TypeOK
  <2>4. v \in Uses /\ (v # u => v \in picked[c] \ todo[c])
    BY <2>1 DEF TypeOK
  <2>5. v # u => github[v] = tree[c]["passwords"]
    BY <2>1, <2>3, <2>4 DEF SyncedAt
  <2>6. QED
    BY <2>1, <2>2, <2>3, <2>4, <2>5 DEF TypeOK
<1>2. ASSUME NEW n \in Names, ReadValue(c, n) PROVE SyncedAt(c)'
  BY <1>2 DEF ReadValue, SyncedAt
<1>3. ASSUME NEW uses \in Selections, StartSync(c, uses) PROVE SyncedAt(c)'
  BY <1>3 DEF StartSync, SyncedAt, TypeOK
<1>4. CASE WritePasswords(c)
  BY <1>4 DEF WritePasswords, SyncedAt, TypeOK
<1>5. CASE pc[c]' # "sync"
  BY <1>5 DEF SyncedAt
<1>6. CASE StartRotate(c) \/ StartReuse(c) \/ WriteHashes(c) \/ HashesFail(c) \/ Succeed(c) \/ Fail(c)
  <2>1. pc[c]' # "sync"
    BY <1>6 DEF StartRotate, StartReuse, Begin, WriteHashes, HashesFail, Succeed, Fail, Done, TypeOK
  <2>2. QED
    BY <1>5, <2>1
<1>7. ASSUME NEW files \in SUBSET Changed(c), Publish(c, files) PROVE SyncedAt(c)'
  BY <1>5, <1>7 DEF Publish
<1>8. CASE Discard(c) \/ Pull(c)
  BY <1>5, <1>8 DEF Discard, Pull
<1>9. QED
  BY <1>1, <1>2, <1>3, <1>4, <1>6, <1>7, <1>8 DEF Work, Create, Sync

\* A step of one checkout starts a run only when the others are idle, and sets
\* secrets only while it runs.
LEMMA WorkAlone ==
  ASSUME "alone" \in Care, TypeOK, RunsAlone, NEW c \in Checkouts, Work(c) \/ Pull(c)
  PROVE  \/ \A d \in Checkouts \ {c} : pc[d] = "idle"
         \/ pc[c] = "idle" /\ pc[c]' = "idle" /\ UNCHANGED github
<1>1. pc[c] # "idle" => \A d \in Checkouts \ {c} : pc[d] = "idle"
  BY DEF RunsAlone
<1>2. MayRun(c) => \A d \in Checkouts \ {c} : pc[d] = "idle"
  BY DEF MayRun, Takes
<1>3. ASSUME NEW uses \in Selections, StartSync(c, uses) PROVE MayRun(c)
  BY <1>3 DEF StartSync
<1>4. StartRotate(c) \/ StartReuse(c) => MayRun(c)
  BY DEF StartRotate, StartReuse
<1>5. WriteHashes(c) \/ HashesFail(c) \/ WritePasswords(c) \/ Succeed(c) \/ Fail(c) => pc[c] # "idle"
  BY DEF WriteHashes, HashesFail, WritePasswords, Succeed, Exits0, Fail
<1>6. ASSUME NEW n \in Names, ReadValue(c, n) PROVE pc[c] # "idle"
  BY <1>6 DEF ReadValue
<1>7. ASSUME NEW u \in Uses, SetSecret(c, u) \/ SetFails(c, u) PROVE pc[c] # "idle"
  BY <1>7 DEF SetSecret, SetFails
<1>8. ASSUME NEW files \in SUBSET Changed(c), Publish(c, files)
      PROVE  pc[c] = "idle" /\ pc[c]' = "idle" /\ UNCHANGED github
  BY <1>8 DEF Publish
<1>9. Discard(c) \/ Pull(c) => pc[c] = "idle" /\ pc[c]' = "idle" /\ UNCHANGED github
  BY DEF Discard, Pull
<1>10. QED
  BY <1>1, <1>2, <1>3, <1>4, <1>5, <1>6, <1>7, <1>8, <1>9 DEF Work, Create, Sync

\* Every step keeps what the running sync has set.
LEMMA NextSync ==
  ASSUME "alone" \in Care
  PROVE  TypeOK /\ LocalInv /\ SyncInv /\ [Next]_vars => SyncInv'
<1> SUFFICES ASSUME TypeOK, LocalInv, SyncInv, [Next]_vars PROVE SyncInv'
  OBVIOUS
<1>1. ASSUME NEW c \in Checkouts, Work(c) \/ Pull(c) PROVE SyncInv'
  <2>1. \A d \in Checkouts \ {c} : pc[d]' = pc[d]
    BY <1>1, OthersStay
  <2>2. RunsAlone'
    BY <1>1, <2>1, WorkAlone DEF SyncInv, RunsAlone
  <2>3. ASSUME NEW d \in Checkouts, d # c PROVE SyncedAt(d)'
    <3>1. UNCHANGED <<plain[d], tree[d], base[d], pc[d], creating[d], stale[d], picked[d],
                      todo[d], name[d], value[d], failures[d], ended[d]>>
      BY <1>1, <2>3, OthersStay
    <3>2. pc[d] = "idle" \/ UNCHANGED github
      BY <1>1, <2>3, WorkAlone DEF SyncInv
    <3>3. QED
      BY <3>1, <3>2 DEF SyncInv, SyncedAt
  <2>4. SyncedAt(c)'
    BY <1>1, WorkSynced DEF SyncInv
  <2>5. QED
    BY <2>2, <2>3, <2>4 DEF SyncInv
<1>2. CASE FluxApply \/ UNCHANGED vars
  BY <1>2 DEF FluxApply, vars, git, run, SyncInv, RunsAlone, SyncedAt
<1>3. QED
  BY <1>1, <1>2 DEF Next, Git, Work

\* It holds when nothing runs.
LEMMA InitSync == Init => SyncInv
BY DEF Init, SyncInv, RunsAlone, SyncedAt

\* One script at a time keeps what the sync has set.
LEMMA Synced == ASSUME "alone" \in Care PROVE Spec => []SyncInv
BY InitSync, NextSync, Local, TypeCorrect, PTL DEF Spec

\* When the scripts run one at a time, exit 0 means that what was to be set is set
\* and what was to be written is written, whatever was committed in between.
THEOREM Exit0IsTrue == ASSUME "alone" \in Care PROVE Spec => []Exit0MeansInStep
<1>1. TypeOK /\ LocalInv /\ SyncInv => Exit0MeansInStep
  BY DEF TypeOK, LocalInv, LocalAt, WritingAt, Unwritten, SyncInv, SyncedAt, Exit0MeansInStep, Exits0
<1>2. QED
  BY <1>1, Synced, Local, TypeCorrect, PTL

(***************************************************************************)
(* Both files, after an exit 0                                             *)
(***************************************************************************)

\* The two files hold the same passwords.
Even(t) == t["hashes"] = t["passwords"] /\ t["hashes"] # 0

\* What is committed, and what a run with exit 0 has left to commit, is in step.
EvenInv ==
  /\ Even(main)
  /\ \A c \in Checkouts : Even(base[c]) /\ (ended[c] => Even(tree[c]))

\* Two even trees that agree on a file are the same.
LEMMA EvenTrees ==
  ASSUME NEW s \in FilePairs, NEW t \in FilePairs, Even(s), Even(t), NEW f \in Files, s[f] = t[f]
  PROVE  s = t
BY DEF Even, FilePairs, Files

\* All that differs is committed: main becomes what the run has left.
LEMMA PublishEven ==
  ASSUME {"both", "settled"} \subseteq Care, TypeOK, EvenInv,
         NEW c \in Checkouts, NEW files \in SUBSET Changed(c), Publish(c, files)
  PROVE  main' = tree[c] /\ base'[c] = tree[c] /\ tree'[c] = tree[c] /\ Even(tree[c])
<1>1. files = Changed(c) /\ files # {} /\ ended[c]
  BY DEF Publish, Takes
<1>2. Even(tree[c]) /\ Even(base[c]) /\ tree[c] \in FilePairs /\ base[c] \in FilePairs
  BY <1>1 DEF EvenInv, TypeOK
<1>3. Changed(c) = Files
  <2>1. PICK f \in Changed(c) : TRUE
    BY <1>1
  <2>2. ASSUME NEW g \in Files, tree[c][g] = base[c][g] PROVE FALSE
    BY <1>2, <2>1, <2>2, EvenTrees DEF Changed
  <2>3. QED
    BY <2>2 DEF Changed
<1>4. main' = [f \in Files |-> tree[c][f]] /\ tree'[c] = [f \in Files |-> tree[c][f]]
  BY <1>1, <1>3 DEF Publish, Pulled, TypeOK
<1>5. base'[c] = main'
  BY DEF Publish, TypeOK
<1>6. QED
  BY <1>2, <1>4, <1>5 DEF FilePairs

\* A pull takes all of main or nothing.
LEMMA PullEven ==
  ASSUME TypeOK, EvenInv, NEW c \in Checkouts, Pull(c)
  PROVE  base'[c] = main /\ tree'[c] = main
<1>1. Even(main) /\ Even(base[c]) /\ main \in FilePairs /\ base[c] \in FilePairs
  BY DEF EvenInv, TypeOK
<1>2. base[c] # main /\ \A f \in Changed(c) : main[f] = base[c][f]
  BY DEF Pull, Pullable
<1>3. Changed(c) = {}
  BY <1>1, <1>2, EvenTrees DEF Changed
<1>4. tree'[c] = [f \in Files |-> main[f]] /\ base'[c] = main
  BY <1>3 DEF Pull, Pulled, TypeOK
<1>5. QED
  BY <1>1, <1>4 DEF FilePairs

\* A run that ends with exit 0 leaves the two files in step.
LEMMA SucceedEven ==
  ASSUME TypeOK, LocalInv, NEW c \in Checkouts, Succeed(c), creating[c]
  PROVE  Even(tree[c])
<1>1. pc[c] = "sync" /\ plain[c] # 0 /\ \A f \in Files \ Unwritten(c) : tree[c][f] = plain[c]
  BY DEF Succeed, Exits0, LocalInv, LocalAt, WritingAt
<1>2. QED
  BY <1>1 DEF Unwritten, Files, Even

\* A script changes the files of its checkout only while exit 0 is still to come.
LEMMA ScriptEven ==
  ASSUME TypeOK, LocalInv, EvenInv, NEW c \in Checkouts, Create(c) \/ Sync(c) \/ Fail(c)
  PROVE  UNCHANGED <<main, base[c]>> /\ (ended'[c] => Even(tree'[c]))
<1>1. CASE StartRotate(c) \/ StartReuse(c)
  BY <1>1 DEF StartRotate, StartReuse, Begin, TypeOK, git
<1>2. CASE WriteHashes(c) \/ HashesFail(c) \/ WritePasswords(c)
  <2>1. ~ended[c] /\ UNCHANGED <<main, base, ended>>
    BY <1>2 DEF WriteHashes, HashesFail, WritePasswords, LocalInv, LocalAt, WritingAt, git
  <2>2. QED
    BY <2>1
<1>3. CASE Succeed(c)
  <2>1. UNCHANGED <<main, base, tree>> /\ (ended'[c] => ended[c] \/ creating[c])
    BY <1>3 DEF Succeed, TypeOK, git
  <2>2. QED
    BY <1>3, <2>1, SucceedEven DEF EvenInv
<1>4. ASSUME UNCHANGED <<main, base, tree, ended>>
      PROVE  UNCHANGED <<main, base[c]>> /\ (ended'[c] => Even(tree'[c]))
  BY <1>4 DEF EvenInv
<1>5. ASSUME NEW uses \in Selections, StartSync(c, uses) PROVE UNCHANGED <<main, base, tree, ended>>
  BY <1>5 DEF StartSync, git
<1>6. ASSUME NEW n \in Names, ReadValue(c, n) PROVE UNCHANGED <<main, base, tree, ended>>
  BY <1>6 DEF ReadValue, git
<1>7. ASSUME NEW u \in Uses, SetSecret(c, u) \/ SetFails(c, u) PROVE UNCHANGED <<main, base, tree, ended>>
  BY <1>7 DEF SetSecret, SetFails, Advance, git
<1>8. CASE Fail(c)
  BY <1>4, <1>8 DEF Fail, git
<1>9. QED
  BY <1>1, <1>2, <1>3, <1>4, <1>5, <1>6, <1>7, <1>8 DEF Create, Sync

\* Every step keeps what is committed in step.
LEMMA NextEven ==
  ASSUME {"both", "settled"} \subseteq Care
  PROVE  TypeOK /\ LocalInv /\ EvenInv /\ [Next]_vars => EvenInv'
<1> SUFFICES ASSUME TypeOK, LocalInv, EvenInv, [Next]_vars PROVE EvenInv'
  OBVIOUS
<1>1. ASSUME NEW c \in Checkouts, Work(c) \/ Pull(c) PROVE EvenInv'
  <2>1. ASSUME Even(main'), Even(base'[c]), ended'[c] => Even(tree'[c]) PROVE EvenInv'
    <3>1. \A d \in Checkouts \ {c} : UNCHANGED <<tree[d], base[d], ended[d]>>
      BY <1>1, OthersStay
    <3>2. QED
      BY <2>1, <3>1 DEF EvenInv, Even
  <2>2. CASE Create(c) \/ Sync(c) \/ Fail(c)
    BY <2>1, <2>2, ScriptEven DEF EvenInv
  <2>3. CASE Discard(c)
    <3>1. tree'[c] = base[c] /\ UNCHANGED <<main, base>>
      BY <2>3 DEF Discard, TypeOK, git
    <3>2. QED
      BY <2>1, <3>1 DEF EvenInv
  <2>4. ASSUME NEW files \in SUBSET Changed(c), Publish(c, files) PROVE EvenInv'
    BY <2>1, <2>4, PublishEven
  <2>5. CASE Pull(c)
    <3>1. main' = main
      BY <2>5 DEF Pull
    <3>2. QED
      BY <2>1, <2>5, <3>1, PullEven DEF EvenInv
  <2>6. QED
    BY <1>1, <2>2, <2>3, <2>4, <2>5 DEF Work
<1>2. CASE FluxApply \/ UNCHANGED vars
  BY <1>2 DEF FluxApply, vars, git, run, EvenInv, Even
<1>3. QED
  BY <1>1, <1>2 DEF Next, Git, Work

\* It holds when one pair is deployed.
LEMMA InitEven == Init => EvenInv
BY DEF Init, EvenInv, Even, Files

\* When both files are committed, after a run that ended with exit 0, the hashes on
\* main are those of the passwords on main, whatever runs beside.
THEOREM MainStaysInStep == ASSUME {"both", "settled"} \subseteq Care PROVE Spec => []MainInStep
<1>1. EvenInv => MainInStep
  BY DEF EvenInv, Even, MainInStep
<1>2. QED
  BY <1>1, InitEven, NextEven, Local, TypeCorrect, PTL DEF Spec

(***************************************************************************)
(* Every precaution                                                        *)
(***************************************************************************)

Careful == Care = Precautions

\* A script runs in the checkout, or has left something to commit.
Active(c) == pc[c] # "idle" \/ Dirty(c)

\* One checkout at a time is active.
Solo == \A c, d \in Checkouts : c # d => ~(Active(c) /\ Active(d))

\* That one is up to date with main, or ahead of it.
BasedAt(c) == Active(c) => base[c] = main /\ main["passwords"] <= tree[c]["passwords"]

\* No file holds passwords that have not been made.
BoundedAt(c) ==
  /\ plain[c] <= made
  /\ \A f \in Files : tree[c][f] <= made /\ base[c][f] <= made

\* A run of create-zot-htpasswd.sh is for passwords not older than those on main.
AheadAt(c) == creating[c] => \A f \in Files : main[f] <= plain[c]

\* What a run that ended with exit 0 has left to commit is in step.
SettledAt(c) ==
  ended[c] /\ Dirty(c) =>
    /\ tree[c]["hashes"] = tree[c]["passwords"]
    /\ tree[c]["hashes"] # 0
    /\ \A u \in Uses : github[u] = tree[c]["passwords"]

CheckoutInv(c) ==
  LocalAt(c) /\ SyncedAt(c) /\ BasedAt(c) /\ BoundedAt(c) /\ AheadAt(c) /\ SettledAt(c)

\* GitHub is ahead of main, and the registry behind it.
MainInv ==
  /\ MainInStep
  /\ \A f \in Files : main[f] <= made
  /\ \A u \in Uses : main["passwords"] <= github[u]
  /\ zot <= main["hashes"]

InStepInv == Solo /\ MainInv /\ \A c \in Checkouts : CheckoutInv(c)

(***************************************************************************)
(* The checkouts that do not take the step                                 *)
(***************************************************************************)

\* The script is at work in this checkout, or may start to.
LEMMA WorkIsAlone ==
  ASSUME NEW c \in Checkouts, Work(c), TypeOK
  PROVE  Active(c) \/ MayRun(c)
<1>1. ASSUME NEW files \in SUBSET Changed(c), Publish(c, files) PROVE Active(c)
  BY <1>1 DEF Publish, Active, Changed, Dirty
<1>2. ASSUME NEW uses \in Selections, StartSync(c, uses) PROVE MayRun(c)
  BY <1>2 DEF StartSync
<1>3. ASSUME NEW n \in Names, ReadValue(c, n) PROVE Active(c)
  BY <1>3 DEF ReadValue, Active
<1>4. ASSUME NEW u \in Uses, SetSecret(c, u) \/ SetFails(c, u) PROVE Active(c)
  BY <1>4 DEF SetSecret, SetFails, Active
<1>5. CASE Create(c)
  BY <1>5 DEF Create, StartRotate, StartReuse, WriteHashes, HashesFail, WritePasswords, Active
<1>6. CASE Succeed(c) \/ Fail(c) \/ Discard(c)
  BY <1>6 DEF Succeed, Exits0, Fail, Discard, Active
<1>7. QED
  BY <1>1, <1>2, <1>3, <1>4, <1>5, <1>6 DEF Work, Sync

\* So the others rest.
LEMMA OthersRest ==
  ASSUME Careful, TypeOK, InStepInv, NEW c \in Checkouts, NEW d \in Checkouts, d # c, Work(c)
  PROVE  ~Active(d)
<1>1. CASE Active(c)
  BY <1>1 DEF InStepInv, Solo
<1>2. CASE MayRun(c)
  BY <1>2 DEF MayRun, Takes, Careful, Precautions, Active
<1>3. QED
  BY <1>1, <1>2, WorkIsAlone

\* A checkout at rest is in order whatever main and GitHub hold.
LEMMA RestInv ==
  ASSUME NEW d \in Checkouts, CheckoutInv(d), ~Active(d), made \in Nat, made' \in Nat, made <= made',
         TypeOK, LocalAt(d)',
         UNCHANGED <<plain[d], tree[d], base[d], pc[d], creating[d], stale[d], picked[d],
                     todo[d], name[d], value[d], failures[d], ended[d]>>
  PROVE  CheckoutInv(d)' /\ ~Active(d)'
<1>1. ~Active(d)' /\ ~Dirty(d)' /\ pc[d]' = "idle"
  BY DEF Active, Dirty
<1>2. BasedAt(d)' /\ SettledAt(d)'
  BY <1>1 DEF BasedAt, SettledAt
<1>3. plain[d] \in Nat /\ \A f \in Files : tree[d][f] \in Nat /\ base[d][f] \in Nat
  BY DEF TypeOK, FilePairs, Pairs
<1>4. BoundedAt(d)'
  BY <1>3 DEF CheckoutInv, BoundedAt
<1>5. AheadAt(d)' /\ SyncedAt(d)'
  BY <1>1 DEF AheadAt, SyncedAt, LocalAt, WritingAt
<1>6. QED
  BY <1>1, <1>2, <1>4, <1>5 DEF CheckoutInv

(***************************************************************************)
(* The checkout that takes the step                                        *)
(***************************************************************************)

\* Numbers of passwords are naturals.
LEMMA Numbers ==
  ASSUME TypeOK
  PROVE  /\ made \in Nat /\ zot \in Nat
         /\ \A c \in Checkouts : plain[c] \in Nat /\ value[c] \in Nat
         /\ \A c \in Checkouts, f \in Files : tree[c][f] \in Nat /\ base[c][f] \in Nat
         /\ \A f \in Files : main[f] \in Nat
         /\ \A u \in Uses : github[u] \in Nat
BY DEF TypeOK, FilePairs, Pairs

\* A checkout in which a script may start is one that main is the base of.
LEMMA StartBased ==
  ASSUME Careful, TypeOK, InStepInv, NEW c \in Checkouts, MayRun(c)
  PROVE  base[c] = main /\ main["passwords"] <= tree[c]["passwords"]
<1>1. base[c] = main
  BY DEF MayRun, Takes, Careful, Precautions
<1>2. CASE Active(c)
  BY <1>1, <1>2 DEF InStepInv, CheckoutInv, BasedAt
<1>3. CASE ~Active(c)
  <2>1. tree[c] = main
    BY <1>1, <1>3 DEF Active, Dirty
  <2>2. main["passwords"] \in Nat
    BY Numbers DEF Files
  <2>3. QED
    BY <1>1, <2>1, <2>2
<1>4. QED
  BY <1>2, <1>3

\* create-zot-htpasswd.sh starts.
LEMMA BeginStep ==
  ASSUME Careful, TypeOK, InStepInv, NEW c \in Checkouts, LocalAt(c)', SyncedAt(c)', StartRotate(c) \/ StartReuse(c)
  PROVE  CheckoutInv(c)' /\ MainInv' /\ made <= made'
<1>1. PICK files \in SUBSET Files :
        /\ Begin(c, files)
        /\ \/ StartRotate(c) /\ files = Files
           \/ StartReuse(c) /\ files = OutOfDate(c)
  BY DEF StartRotate, StartReuse, OutOfDate
<1>2. MayRun(c)
  BY DEF StartRotate, StartReuse
<1>3. /\ made' \in Nat /\ made <= made' /\ plain'[c] \in Nat /\ plain'[c] <= made' /\ plain'[c] # 0
      /\ \A f \in Files : main[f] <= plain'[c]
      /\ \A f \in Files \ files : tree[c][f] = plain'[c]
  <2>1. CASE StartRotate(c) /\ files = Files
    <3>1. made' = made + 1 /\ plain'[c] = made + 1
      BY <2>1 DEF StartRotate, TypeOK
    <3>2. \A f \in Files : main[f] <= made /\ main[f] \in Nat
      BY Numbers DEF InStepInv, MainInv
    <3>3. made \in Nat
      BY Numbers
    <3>4. \A f \in Files : main[f] <= plain'[c]
      BY <3>1, <3>2, <3>3
    <3>5. QED
      BY <2>1, <3>1, <3>3, <3>4
  <2>2. CASE StartReuse(c) /\ files = OutOfDate(c)
    <3>1. made' = made /\ plain' = plain /\ plain[c] # 0
      BY <2>2 DEF StartReuse
    <3>2. \A f \in Files : main[f] <= plain[c]
      BY <2>2 DEF StartReuse, Takes, Careful, Precautions
    <3>3. plain[c] <= made
      BY DEF InStepInv, CheckoutInv, BoundedAt
    <3>4. \A f \in Files \ files : tree[c][f] = plain[c]
      BY <2>2 DEF OutOfDate
    <3>5. QED
      BY <3>1, <3>2, <3>3, <3>4, Numbers
  <2>3. QED
    BY <1>1, <2>1, <2>2
<1>4. /\ UNCHANGED <<tree, base, main, zot, github, name, value, failures>>
      /\ pc[c]' = "hashes" /\ creating[c]' /\ ~ended[c]' /\ stale[c]' = files
  BY <1>1 DEF Begin, TypeOK, git
<1>5. BasedAt(c)'
  BY <1>2, <1>4, StartBased DEF BasedAt
<1>6. BoundedAt(c)'
  BY <1>3, <1>4, Numbers DEF InStepInv, CheckoutInv, BoundedAt
<1>7. AheadAt(c)'
  BY <1>3, <1>4 DEF AheadAt
<1>8. SettledAt(c)'
  BY <1>4 DEF SettledAt
<1>9. MainInv'
  BY <1>3, <1>4, Numbers DEF InStepInv, MainInv, MainInStep
<1>10. QED
  BY <1>3, <1>5, <1>6, <1>7, <1>8, <1>9 DEF CheckoutInv

\* It writes one of the two files, or leaves it as it is.
LEMMA WriteStep ==
  ASSUME TypeOK, InStepInv, NEW c \in Checkouts, LocalAt(c)', SyncedAt(c)', WriteHashes(c) \/ WritePasswords(c)
  PROVE  CheckoutInv(c)' /\ MainInv' /\ UNCHANGED made
<1> USE DEF InStepInv, CheckoutInv
<1>1. /\ creating[c] /\ ~ended[c] /\ plain[c] # 0 /\ \A f \in Files : main[f] <= plain[c]
      /\ \A f \in Files \ Unwritten(c) : tree[c][f] = plain[c]
  BY DEF WriteHashes, WritePasswords, LocalAt, WritingAt, AheadAt
<1>2. /\ UNCHANGED <<made, plain, base, main, zot, github, creating, stale, name, value, failures, ended>>
      /\ name[c] = NoName /\ ~failures[c]
  BY DEF WriteHashes, WritePasswords, git, run, LocalAt, HoldingAt
<1>3. \A f \in Files : tree[c]'[f] \in {tree[c][f], plain[c]}
  <2>1. CASE WriteHashes(c)
    BY <2>1 DEF WriteHashes, TypeOK, FilePairs, Files
  <2>2. CASE WritePasswords(c)
    BY <2>2 DEF WritePasswords, TypeOK, FilePairs, Files
  <2>3. QED
    BY <2>1, <2>2
<1>5. /\ pc[c] # "idle" /\ pc[c]' # "idle" /\ pc[c]' # "hashes"
      /\ pc[c]' = "sync" => picked[c]' = Uses /\ todo[c]' = Uses
  BY DEF WriteHashes, WritePasswords, TypeOK
<1>6. BasedAt(c)'
  <2>1. base[c] = main /\ main["passwords"] <= tree[c]["passwords"]
    BY <1>5 DEF BasedAt, Active
  <2>2. "passwords" \in Files
    BY DEF Files
  <2>3. main["passwords"] <= tree[c]'["passwords"]
    BY <1>1, <1>3, <2>1, <2>2
  <2>4. QED
    BY <1>2, <2>1, <2>3 DEF BasedAt
<1>7. BoundedAt(c)'
  BY <1>2, <1>3, Numbers DEF BoundedAt
<1>8. AheadAt(c)' /\ SettledAt(c)'
  BY <1>1, <1>2 DEF AheadAt, SettledAt
<1>10. MainInv'
  BY <1>2 DEF MainInv, MainInStep
<1>11. QED
  BY <1>2, <1>6, <1>7, <1>8, <1>10

\* sops fails on the hashes and leaves an empty file.
LEMMA HashesFailStep ==
  ASSUME TypeOK, InStepInv, NEW c \in Checkouts, LocalAt(c)', SyncedAt(c)', HashesFail(c)
  PROVE  CheckoutInv(c)' /\ MainInv' /\ UNCHANGED made
<1> USE DEF InStepInv, CheckoutInv
<1>1. /\ UNCHANGED <<made, plain, base, main, zot, github, ended>>
      /\ pc[c]' = "idle" /\ ~creating[c]' /\ name[c]' = NoName /\ ~failures[c]'
  BY DEF HashesFail, Done, TypeOK, git
<1>2. pc[c] = "hashes" /\ creating[c] /\ ~ended[c]
  BY DEF HashesFail, LocalAt, WritingAt
<1>3. /\ tree[c]'["passwords"] = tree[c]["passwords"]
      /\ \A f \in Files : tree[c]'[f] \in {tree[c][f], 0}
  BY DEF HashesFail, TypeOK, FilePairs, Files
<1>4. BasedAt(c)'
  BY <1>1, <1>2, <1>3 DEF BasedAt, Active
<1>5. BoundedAt(c)'
  BY <1>1, <1>3, Numbers DEF BoundedAt
<1>6. AheadAt(c)' /\ SettledAt(c)'
  BY <1>1, <1>2 DEF AheadAt, SettledAt
<1>7. MainInv'
  BY <1>1 DEF MainInv, MainInStep
<1>8. QED
  BY <1>1, <1>4, <1>5, <1>6, <1>7

\* A sync starts by hand, or reads the value of a secret.
LEMMA ReadStep ==
  ASSUME Careful, TypeOK, InStepInv, NEW c \in Checkouts, LocalAt(c)', SyncedAt(c)',
         \/ \E uses \in Selections : StartSync(c, uses)
         \/ \E n \in Names : ReadValue(c, n)
  PROVE  CheckoutInv(c)' /\ MainInv' /\ UNCHANGED made
<1> USE DEF InStepInv, CheckoutInv
<1>1. UNCHANGED <<made, plain, tree, base, main, zot, github, creating, stale, failures, ended>>
  BY DEF StartSync, ReadValue, git
<1>2. MainInv' /\ BoundedAt(c)' /\ SettledAt(c)'
  BY <1>1 DEF MainInv, MainInStep, BoundedAt, SettledAt, Dirty
<1>3. ASSUME NEW uses \in Selections, StartSync(c, uses) PROVE CheckoutInv(c)'
  <2>1. /\ pc[c] = "idle" /\ pc[c]' = "sync" /\ picked[c]' = uses /\ todo[c]' = uses
        /\ UNCHANGED <<name, value>> /\ MayRun(c)
    BY <1>3 DEF StartSync, MayRun, TypeOK
  <2>2. BasedAt(c)'
    BY <1>1, <2>1, StartBased DEF BasedAt
  <2>3. AheadAt(c)'
    BY <1>1 DEF AheadAt
  <2>4. QED
    BY <1>2, <2>2, <2>3
<1>4. ASSUME NEW n \in Names, ReadValue(c, n) PROVE CheckoutInv(c)'
  <2>1. /\ pc[c] = "sync" /\ UNCHANGED <<pc, picked, todo>>
        /\ value[c]' = tree[c]["passwords"]
    BY <1>4 DEF ReadValue, Current, TypeOK
  <2>2. BasedAt(c)' /\ AheadAt(c)'
    BY <1>1, <2>1 DEF BasedAt, Active, Dirty, AheadAt
  <2>3. QED
    BY <1>2, <2>2
<1>5. QED
  BY <1>1, <1>2, <1>3, <1>4

\* A secret is set, or setting it fails.
LEMMA SetStep ==
  ASSUME TypeOK, InStepInv, NEW c \in Checkouts, LocalAt(c)', SyncedAt(c)', NEW u \in Uses, SetSecret(c, u) \/ SetFails(c, u)
  PROVE  CheckoutInv(c)' /\ MainInv' /\ UNCHANGED made
<1> USE DEF InStepInv, CheckoutInv
<1>1. /\ UNCHANGED <<made, plain, tree, base, main, zot, pc, creating, stale, picked, ended>>
      /\ pc[c] = "sync" /\ name[c] = u[1] /\ todo[c]' = todo[c] \ {u}
  BY DEF SetSecret, SetFails, Advance, TypeOK, git
<1>2. value[c] = tree[c]["passwords"]
  <2>1. name[c] # NoName
    BY <1>1, RegistryAssumption DEF RegistryAssumption, Names
  <2>2. QED
    BY <2>1 DEF LocalAt, HoldingAt
<1>4. \/ github' = [github EXCEPT ![u] = value[c]] /\ failures' = failures
      \/ github' \in {github, [github EXCEPT ![u] = value[c]]} /\ failures[c]'
  BY DEF SetSecret, SetFails, TypeOK
<1>5. \A v \in Uses : github'[v] \in {github[v], tree[c]["passwords"]}
  BY <1>2, <1>4 DEF TypeOK
<1>6. BasedAt(c)' /\ BoundedAt(c)' /\ AheadAt(c)'
  BY <1>1 DEF BasedAt, Active, Dirty, BoundedAt, AheadAt
<1>7. SettledAt(c)'
  BY <1>1, <1>5 DEF SettledAt, Dirty
<1>9. MainInv'
  <2>1. main["passwords"] <= tree[c]["passwords"]
    BY <1>1 DEF BasedAt, Active
  <2>2. \A v \in Uses : main["passwords"] <= github'[v]
    BY <1>5, <2>1 DEF MainInv
  <2>3. QED
    BY <1>1, <2>2 DEF MainInv, MainInStep
<1>10. QED
  BY <1>1, <1>6, <1>7, <1>9

\* A run ends.
LEMMA EndStep ==
  ASSUME TypeOK, InStepInv, NEW c \in Checkouts, LocalAt(c)', SyncedAt(c)', Succeed(c) \/ Fail(c)
  PROVE  CheckoutInv(c)' /\ MainInv' /\ UNCHANGED made
<1> USE DEF InStepInv, CheckoutInv
<1>1. /\ UNCHANGED <<made, plain, tree, base, main, zot, github>> /\ Done(c)
      /\ pc[c] # "idle"
  BY DEF Succeed, Fail, git, Exits0
<1>2. pc[c]' = "idle" /\ ~creating[c]' /\ name[c]' = NoName /\ ~failures[c]'
  BY <1>1 DEF Done, TypeOK
<1>3. MainInv' /\ BoundedAt(c)' /\ BasedAt(c)'
  BY <1>1 DEF MainInv, MainInStep, BoundedAt, BasedAt, Active, Dirty
<1>4. AheadAt(c)'
  BY <1>2 DEF AheadAt
<1>5. SettledAt(c)'
  <2>1. CASE ended[c]' = ended[c]
    BY <1>1, <2>1 DEF SettledAt, Dirty
  <2>2. CASE Succeed(c) /\ creating[c]
    <3>1. pc[c] = "sync" /\ todo[c] = {} /\ ~failures[c] /\ picked[c] = Uses
      BY <2>2 DEF Succeed, Exits0, LocalAt, HoldingAt
    <3>2. \A u \in Uses : github[u] = tree[c]["passwords"]
      BY <3>1 DEF SyncedAt
    <3>3. plain[c] # 0 /\ \A f \in Files : tree[c][f] = plain[c]
      BY <2>2, <3>1 DEF LocalAt, WritingAt, Unwritten
    <3>4. QED
      BY <1>1, <3>2, <3>3 DEF SettledAt, Files
  <2>3. QED
    BY <2>1, <2>2 DEF Succeed, Fail, TypeOK
<1>6. QED
  BY <1>1, <1>3, <1>4, <1>5

\* What was written is given up.
LEMMA DiscardStep ==
  ASSUME TypeOK, InStepInv, NEW c \in Checkouts, LocalAt(c)', SyncedAt(c)', Discard(c)
  PROVE  CheckoutInv(c)' /\ MainInv' /\ UNCHANGED made
<1> USE DEF InStepInv, CheckoutInv
<1>1. /\ UNCHANGED <<made, plain, base, main, zot, github, pc, creating, stale, picked, todo, name,
                     value, failures, ended>>
      /\ pc[c] = "idle" /\ tree'[c] = base[c]
  BY DEF Discard, git, run, TypeOK
<1>2. ~creating[c]
  BY <1>1 DEF LocalAt, WritingAt
<1>3. BasedAt(c)' /\ SettledAt(c)'
  BY <1>1 DEF BasedAt, SettledAt, Active, Dirty
<1>4. BoundedAt(c)'
  BY <1>1 DEF BoundedAt
<1>5. AheadAt(c)'
  BY <1>1, <1>2 DEF AheadAt
<1>6. MainInv'
  BY <1>1 DEF MainInv, MainInStep
<1>7. QED
  BY <1>1, <1>3, <1>4, <1>5, <1>6

\* What is in step is committed as a whole.
LEMMA PublishStep ==
  ASSUME Careful, TypeOK, InStepInv, NEW c \in Checkouts, LocalAt(c)', SyncedAt(c)', NEW files \in SUBSET Changed(c),
         Publish(c, files)
  PROVE  CheckoutInv(c)' /\ MainInv' /\ UNCHANGED made
<1> USE DEF InStepInv, CheckoutInv
<1>1. /\ files = Changed(c) /\ files # {} /\ ended[c] /\ pc[c] = "idle"
      /\ main' = [f \in Files |-> IF f \in files THEN tree[c][f] ELSE main[f]]
      /\ tree'[c] = Pulled(c) /\ base'[c] = main'
      /\ UNCHANGED <<made, plain, zot, github, pc, creating, stale, picked, todo, name, value,
                     failures, ended>>
  BY DEF Publish, Takes, Careful, Precautions, TypeOK, run
<1>2. Dirty(c)
  BY <1>1 DEF Changed, Dirty
<1>3. base[c] = main
  BY <1>2 DEF BasedAt, Active
<1>4. \A f \in Files : main'[f] = tree[c][f]
  BY <1>1, <1>3 DEF Changed
<1>5. /\ tree[c]["hashes"] = tree[c]["passwords"] /\ tree[c]["hashes"] # 0
      /\ \A u \in Uses : github[u] = tree[c]["passwords"]
  BY <1>1, <1>2 DEF SettledAt
<1>6. tree'[c] = main'
  BY <1>1 DEF Pulled
<1>7. /\ pc'[c] = "idle" /\ ~Dirty(c)' /\ ~Active(c)'
  BY <1>1, <1>6 DEF Dirty, Active
<1>8. BasedAt(c)' /\ SettledAt(c)'
  BY <1>7 DEF BasedAt, SettledAt
<1>9. BoundedAt(c)'
  BY <1>1, <1>4, <1>6 DEF BoundedAt
<1>10. AheadAt(c)'
  <2>1. ~creating[c]
    BY <1>1 DEF LocalAt, WritingAt
  <2>2. QED
    BY <1>1, <2>1 DEF AheadAt
<1>11. MainInv'
  <2>1. "hashes" \in Files /\ "passwords" \in Files
    BY DEF Files
  <2>2. MainInStep'
    BY <1>4, <1>5, <2>1 DEF MainInStep
  <2>3. \A u \in Uses : main'["passwords"] <= github'[u]
    BY <1>1, <1>4, <1>5, <2>1, Numbers
  <2>4. \A f \in Files : main'[f] <= made'
    BY <1>1, <1>4 DEF BoundedAt
  <2>5. zot' <= main'["hashes"]
    <3>1. zot <= main["hashes"] /\ main["hashes"] = main["passwords"]
      BY DEF MainInv, MainInStep
    <3>2. main["passwords"] <= tree[c]["passwords"]
      BY <1>2 DEF BasedAt, Active
    <3>3. main'["hashes"] = tree[c]["passwords"]
      BY <1>4, <1>5, <2>1
    <3>4. QED
      BY <1>1, <2>1, <3>1, <3>2, <3>3, Numbers
  <2>6. QED
    BY <2>2, <2>3, <2>4, <2>5 DEF MainInv
<1>12. QED
  BY <1>1, <1>8, <1>9, <1>10, <1>11

\* A checkout that is behind main has nothing to commit, and takes all of main.
LEMMA PullStep ==
  ASSUME TypeOK, InStepInv, NEW c \in Checkouts, LocalInv', SyncInv', Pull(c)
  PROVE  InStepInv'
<1> USE DEF InStepInv, CheckoutInv
<1>1. /\ base[c] # main /\ pc[c] = "idle" /\ tree'[c] = Pulled(c) /\ base'[c] = main
      /\ UNCHANGED <<made, plain, main, zot, github, pc, creating, stale, picked, todo, name, value,
                     failures, ended>>
  BY DEF Pull, TypeOK, run
<1>2. ~Active(c)
  BY <1>1 DEF BasedAt
<1>3. tree'[c] = main
  BY <1>2 DEF Pull, Pulled, Changed, Active, Dirty, TypeOK, FilePairs
<1>4. ~Active(c)' /\ ~Dirty(c)'
  BY <1>1, <1>3 DEF Active, Dirty
<1>5. CheckoutInv(c)'
  <2>1. BasedAt(c)' /\ SettledAt(c)'
    BY <1>4 DEF BasedAt, SettledAt
  <2>2. BoundedAt(c)'
    BY <1>1, <1>3 DEF BoundedAt, MainInv
  <2>3. ~creating[c]
    BY <1>1 DEF LocalAt, WritingAt
  <2>4. AheadAt(c)'
    BY <1>1, <2>3 DEF AheadAt
  <2>5. QED
    BY <2>1, <2>2, <2>4 DEF LocalInv, SyncInv
<1>6. ASSUME NEW d \in Checkouts, d # c PROVE CheckoutInv(d)' /\ (Active(d)' => Active(d))
  <2>1. UNCHANGED <<plain[d], tree[d], base[d], pc[d], creating[d], stale[d], picked[d],
                    todo[d], name[d], value[d], failures[d], ended[d]>>
    BY <1>6, OthersStay
  <2>2. (Active(d)' => Active(d)) /\ BasedAt(d)' /\ BoundedAt(d)' /\ SettledAt(d)'
    BY <1>1, <2>1 DEF BasedAt, BoundedAt, SettledAt, Active, Dirty
  <2>3. AheadAt(d)'
    BY <1>1, <2>1 DEF AheadAt
  <2>4. QED
    BY <2>2, <2>3 DEF LocalInv, SyncInv
<1>7. Solo'
  BY <1>4, <1>6 DEF Solo
<1>8. MainInv'
  BY <1>1 DEF MainInv, MainInStep
<1>9. QED
  BY <1>5, <1>6, <1>7, <1>8

\* Flux applies the hashes on main.
LEMMA FluxStep == ASSUME TypeOK, InStepInv, LocalInv', SyncInv', FluxApply PROVE InStepInv'
<1>1. /\ zot' = main["hashes"]
      /\ UNCHANGED <<made, plain, tree, base, main, github, pc, creating, stale, picked, todo, name,
                     value, failures, ended>>
  BY DEF FluxApply, git, run
<1>2. main["hashes"] \in Nat
  BY Numbers DEF Files
<1>3. MainInv'
  BY <1>1, <1>2 DEF InStepInv, MainInv, MainInStep
<1>4. Solo'
  BY <1>1 DEF InStepInv, Solo, Active, Dirty
<1>5. ASSUME NEW c \in Checkouts PROVE CheckoutInv(c)'
  BY <1>1 DEF InStepInv, CheckoutInv, LocalInv, SyncInv, BasedAt, BoundedAt, AheadAt,
              SettledAt, Active, Dirty
<1>6. QED
  BY <1>3, <1>4, <1>5 DEF InStepInv

(***************************************************************************)
(* The theorems                                                            *)
(***************************************************************************)

\* The checkout that takes a step keeps its part of the invariant, and main's.
LEMMA WorkStep ==
  ASSUME Careful, TypeOK, InStepInv, NEW c \in Checkouts, LocalAt(c)', SyncedAt(c)', Work(c)
  PROVE  CheckoutInv(c)' /\ MainInv' /\ (made <= made' \/ UNCHANGED made)
<1>1. CASE Create(c)
  BY <1>1, BeginStep, WriteStep, HashesFailStep DEF Create
<1>2. ASSUME NEW u \in Uses, SetSecret(c, u) \/ SetFails(c, u)
      PROVE  CheckoutInv(c)' /\ MainInv' /\ UNCHANGED made
  BY <1>2, SetStep
<1>3. CASE Sync(c)
  BY <1>2, <1>3, ReadStep, EndStep DEF Sync
<1>4. CASE Fail(c)
  BY <1>4, EndStep
<1>5. CASE Discard(c)
  BY <1>5, DiscardStep
<1>6. ASSUME NEW files \in SUBSET Changed(c), Publish(c, files)
      PROVE  CheckoutInv(c)' /\ MainInv' /\ UNCHANGED made
  BY <1>6, PublishStep
<1>7. QED
  BY <1>1, <1>3, <1>4, <1>5, <1>6 DEF Work

\* Every step keeps the invariant.
LEMMA InStepStep ==
  ASSUME Careful
  PROVE  TypeOK /\ TypeOK' /\ LocalInv' /\ SyncInv' /\ InStepInv /\ [Next]_vars => InStepInv'
<1> SUFFICES ASSUME TypeOK, TypeOK', LocalInv', SyncInv', InStepInv, [Next]_vars PROVE InStepInv'
  OBVIOUS
<1>1. ASSUME NEW c \in Checkouts, Work(c) PROVE InStepInv'
  <2>1. CheckoutInv(c)' /\ MainInv' /\ made \in Nat /\ made' \in Nat /\ made <= made'
    BY <1>1, WorkStep, Numbers DEF TypeOK, Pairs, LocalInv, SyncInv
  <2>2. ASSUME NEW d \in Checkouts, d # c PROVE CheckoutInv(d)' /\ ~Active(d)'
    <3>1. UNCHANGED <<plain[d], tree[d], base[d], pc[d], creating[d], stale[d], picked[d],
                      todo[d], name[d], value[d], failures[d], ended[d]>>
      BY <1>1, <2>2, OthersStay
    <3>2. ~Active(d) /\ CheckoutInv(d)
      BY <1>1, <2>2, OthersRest DEF InStepInv
    <3>3. QED
      BY <2>1, <3>1, <3>2, RestInv DEF LocalInv
  <2>3. Solo'
    BY <2>2 DEF Solo
  <2>4. QED
    BY <2>1, <2>2, <2>3 DEF InStepInv
<1>2. ASSUME NEW c \in Checkouts, Pull(c) PROVE InStepInv'
  BY <1>2, PullStep
<1>3. CASE FluxApply
  BY <1>3, FluxStep
<1>4. CASE UNCHANGED vars
  <2>1. UNCHANGED <<made, plain, tree, base, main, zot, github, pc, creating, stale, picked, todo,
                    name, value, failures, ended>>
    BY <1>4 DEF vars, git, run
  <2>2. MainInv' /\ Solo'
    BY <2>1 DEF InStepInv, MainInv, MainInStep, Solo, Active, Dirty
  <2>3. ASSUME NEW c \in Checkouts PROVE CheckoutInv(c)'
    BY <2>1 DEF InStepInv, CheckoutInv, LocalInv, SyncInv, BasedAt, BoundedAt, AheadAt,
                SettledAt, Active, Dirty
  <2>4. QED
    BY <2>2, <2>3 DEF InStepInv
<1>5. QED
  BY <1>1, <1>2, <1>3, <1>4 DEF Next, Git, Work

\* It holds when one pair is deployed.
LEMMA InitInStep == Init => InStepInv
<1> SUFFICES ASSUME Init PROVE InStepInv
  OBVIOUS
<1>1. MainInv
  BY DEF Init, MainInv, MainInStep, Files
<1>2. ASSUME NEW c \in Checkouts
      PROVE  /\ ~Active(c) /\ ~Dirty(c) /\ ~creating[c] /\ plain[c] \in {0, 1} /\ tree[c] = main /\ base[c] = main
  BY DEF Init, Active, Dirty
<1>3. Solo
  BY <1>2 DEF Solo
<1>4. ASSUME NEW c \in Checkouts PROVE CheckoutInv(c)
  BY <1>2, InitLocal, InitSync DEF Init, CheckoutInv, LocalInv, SyncInv, BasedAt, BoundedAt, AheadAt,
                                   SettledAt
<1>5. QED
  BY <1>1, <1>3, <1>4 DEF InStepInv

\* The invariant of a careful operator.
THEOREM InStep == ASSUME Careful PROVE Spec => []InStepInv
<1>1. "alone" \in Care
  BY DEF Careful, Precautions
<1>2. QED
  BY <1>1, InitInStep, InStepStep, Local, Synced, TypeCorrect, PTL DEF Spec

\* With every precaution taken, no secret of a repository falls behind the registry.
THEOREM CINeverBehind == ASSUME Careful PROVE Spec => []NeverBehind
<1>1. TypeOK /\ InStepInv => NeverBehind
  <2> SUFFICES ASSUME TypeOK, InStepInv, NEW u \in Uses PROVE github[u] >= zot
    BY DEF NeverBehind
  <2>1. zot <= main["hashes"] /\ main["hashes"] = main["passwords"] /\ main["passwords"] <= github[u]
    BY DEF InStepInv, MainInv, MainInStep
  <2>2. zot \in Nat /\ main["hashes"] \in Nat /\ github[u] \in Nat
    BY Numbers DEF Files
  <2>3. QED
    BY <2>1, <2>2
<1>2. QED
  BY <1>1, InStep, TypeCorrect, PTL
=============================================================================
