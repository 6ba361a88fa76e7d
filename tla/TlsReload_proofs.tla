-------------------------- MODULE TlsReload_proofs --------------------------
EXTENDS TlsReload, TLAPS

(***************************************************************************)
(* Type correctness                                                        *)
(***************************************************************************)

\* Types at the start.
LEMMA InitType == Init => TypeOK
<1> SUFFICES ASSUME Init PROVE TypeOK
  OBVIOUS
<1>1. 0 \in Serials
  BY ReloadAssumption DEF ReloadAssumption, Serials
<1>2. doomed \in BOOLEAN /\ pod \in {"none", "starting", "up"}
  BY DEF Init
<1>3. QED
  BY <1>1, <1>2 DEF Init, TypeOK, Hashes

\* The hashes of the script stay hashes, the numbers numbers of certificates.
THEOREM TypeCorrect == Spec => []TypeOK
<1>1. Init => TypeOK
  BY InitType
<1>2. TypeOK /\ [Next]_vars => TypeOK'
  <2> SUFFICES ASSUME TypeOK, [Next]_vars PROVE TypeOK'
    OBVIOUS
  <2> USE ReloadAssumption DEF ReloadAssumption, TypeOK, Serials, Hashes, server, script
  <2>1. CASE StartJob
    BY <2>1 DEF StartJob
  <2>2. CASE GetSecret
    BY <2>2 DEF GetSecret
  <2>3. CASE GetState
    BY <2>3 DEF GetState, Compare, Exit
  <2>4. CASE DeletePod
    BY <2>4 DEF DeletePod
  <2>5. CASE Record
    BY <2>5 DEF Record, Exit
  <2>6. CASE Fail
    BY <2>6 DEF Fail, Exit
  <2>7. CASE Cluster
    BY <2>7 DEF Cluster, PodStops, PodStarts, ServerStarts
  <2>8. CASE Renew
    BY <2>8 DEF Renew
  <2>9. CASE Refresh \/ ServerCrashes
    BY <2>9 DEF Refresh, ServerCrashes
  <2>10. CASE UNCHANGED vars
    BY <2>10 DEF vars
  <2>11. QED
    BY <2>1, <2>2, <2>3, <2>4, <2>5, <2>6, <2>7, <2>8, <2>9, <2>10 DEF Next, Job
<1>3. QED
  BY <1>1, <1>2, PTL DEF Spec

(***************************************************************************)
(* What is recorded is loaded                                              *)
(***************************************************************************)

\* Certificates reach the server by way of the mounted files.
Downstream == served <= mount /\ mount <= secret

\* Before the first record there has been no renewal.
FirstRun == recorded = NoHash => secret = 0

\* What the script holds when it may still write: a hash, and if that is the hash of
\* a certificate, either the server loads it, or this is the first run.
Holding ==
  /\ pc \in {"state", "delete", "record"} =>
       current # NoHash /\ (current \in Serials => current <= secret)
  /\ pc = "record" /\ current \in Serials =>
       \/ Loaded(current)
       \/ last = NoHash /\ recorded = NoHash

\* A certificate that is recorded is one of the past, and loaded.
Recorded == recorded \in Serials => recorded <= secret /\ Loaded(recorded)

ReloadInv == TypeOK /\ Downstream /\ FirstRun /\ Holding /\ Recorded

\* Anything has loaded the first certificate.
LEMMA FirstLoaded == TypeOK => Loaded(0)
BY DEF TypeOK, Loaded, Serials

\* No step of the cluster takes back what has been loaded.
LEMMA LoadedStays ==
  ASSUME TypeOK, Downstream, NEW s \in Serials, s <= secret, Loaded(s),
         Cluster \/ Refresh \/ ServerCrashes \/ Renew \/ UNCHANGED <<server, doomed>>
  PROVE  Loaded(s)'
<1> USE DEF TypeOK, Downstream, Serials, Loaded, server
<1>1. CASE Cluster
  BY <1>1, ReloadAssumption DEF ReloadAssumption, Cluster, PodStops, PodStarts, ServerStarts
<1>2. CASE Refresh \/ ServerCrashes
  BY <1>2, ReloadAssumption DEF ReloadAssumption, Refresh, ServerCrashes
<1>3. CASE Renew
  BY <1>3 DEF Renew
<1>4. CASE UNCHANGED <<server, doomed>>
  BY <1>4
<1>5. QED
  BY <1>1, <1>2, <1>3, <1>4

\* A deleted pod will read the files again, whatever certificate is asked for.
LEMMA DeletedLoads ==
  ASSUME NEW s, doomed' = (pod # "none"), UNCHANGED server
  PROVE  Loaded(s)'
BY DEF Loaded, server

\* The steps of the script keep the invariant while the get of the ConfigMap
\* answers, also when that of the Secret does not: no certificate has the hash of
\* no input.
LEMMA ScriptStep ==
  ASSUME "configmap" \in Answers, ReloadInv, Job \/ Fail
  PROVE  (Downstream /\ FirstRun /\ Holding /\ Recorded)'
<1> USE ReloadAssumption DEF ReloadAssumption, ReloadInv
<1>1. UNCHANGED <<secret, server>>
  BY DEF Job, Fail, StartJob, GetSecret, GetState, DeletePod, Record
<1>2. Downstream'
  BY <1>1 DEF Downstream, server
<1>3. secret \in Nat
  BY DEF TypeOK, Serials
<1>4. CASE StartJob \/ GetSecret
  <2>1. UNCHANGED <<server, doomed, recorded, secret>>
    BY <1>4 DEF StartJob, GetSecret
  <2>2. pc' = "secret" \/ (pc' = "state" /\ current' \in {secret, EmptyHash})
    BY <1>4 DEF StartJob, GetSecret
  <2>3. QED
    BY <1>2, <1>3, <2>1, <2>2 DEF FirstRun, Holding, Recorded, Loaded, server, TypeOK, Serials
<1>5. CASE GetState
  <2>1. UNCHANGED <<server, doomed, recorded, secret>>
    BY <1>5 DEF GetState
  <2>2. \/ pc' = "idle"
        \/ pc' = "delete" /\ current' = current
        \/ pc' = "record" /\ current' = current /\ recorded = NoHash /\ last' = NoHash
    BY <1>5 DEF GetState, Compare, Exit
  <2>3. current # NoHash /\ (current \in Serials => current <= secret)
    BY <1>5 DEF GetState, Holding
  <2>4. QED
    BY <1>2, <2>1, <2>2, <2>3 DEF FirstRun, Holding, Recorded, Loaded, server
<1>6. CASE DeletePod
  <2>1. /\ doomed' = (pod # "none") /\ pc' = "record"
        /\ UNCHANGED <<server, secret, recorded, current>>
    BY <1>6 DEF DeletePod
  <2>2. current # NoHash /\ (current \in Serials => current <= secret)
    BY <1>6 DEF DeletePod, Holding
  <2>3. Loaded(current)' /\ Loaded(recorded)'
    BY <2>1, DeletedLoads DEF Loaded, server
  <2>4. QED
    BY <1>2, <2>1, <2>2, <2>3 DEF FirstRun, Holding, Recorded
<1>7. ASSUME pc = "record", recorded' = current, pc' = "idle", UNCHANGED doomed
      PROVE  (FirstRun /\ Holding /\ Recorded)'
  <2>1. current # NoHash /\ (current \in Serials => current <= secret)
    BY <1>7 DEF Holding
  <2>2. current \in Serials => Loaded(current)
    <3>1. CASE recorded = NoHash
      BY <2>1, <3>1, FirstLoaded DEF FirstRun, Serials
    <3>2. CASE recorded # NoHash
      BY <1>7, <3>2 DEF Holding
    <3>3. QED
      BY <3>1, <3>2
  <2>3. QED
    BY <1>1, <1>7, <2>1, <2>2 DEF FirstRun, Holding, Recorded, Loaded, server
<1>8. CASE Record
  BY <1>2, <1>7, <1>8 DEF Record, Exit
<1>9. CASE Fail
  <2>1. CASE pc = "delete" /\ doomed' = (pod # "none") /\ UNCHANGED recorded
    <3>1. Loaded(recorded)'
      BY <1>1, <2>1, DeletedLoads DEF Loaded, server
    <3>2. QED
      BY <1>1, <1>2, <1>9, <2>1, <3>1 DEF Fail, Exit, FirstRun, Holding, Recorded
  <2>2. CASE pc = "record" /\ recorded' = current /\ UNCHANGED doomed
    BY <1>2, <1>7, <1>9, <2>2 DEF Fail, Exit
  <2>3. CASE UNCHANGED <<doomed, recorded>>
    BY <1>1, <1>2, <1>9, <2>3 DEF Fail, Exit, FirstRun, Holding, Recorded, Loaded, server
  <2>4. QED
    BY <1>9, <2>1, <2>2, <2>3 DEF Fail
<1>10. QED
  BY <1>4, <1>5, <1>6, <1>8, <1>9 DEF Job

\* So do the steps around it.
LEMMA ClusterStep ==
  ASSUME ReloadInv, Cluster \/ Refresh \/ ServerCrashes \/ Renew
  PROVE  (Downstream /\ FirstRun /\ Holding /\ Recorded)'
<1> USE ReloadAssumption DEF ReloadAssumption, ReloadInv
<1>1. UNCHANGED <<recorded, script>> /\ secret <= secret'
  BY DEF Cluster, PodStops, PodStarts, ServerStarts, Refresh, ServerCrashes, Renew, TypeOK, Serials
<1>2. secret' \in Nat /\ secret \in Nat
  BY DEF TypeOK, Serials, Cluster, PodStops, PodStarts, ServerStarts, Refresh, ServerCrashes, Renew
<1>3. Downstream'
  BY DEF Downstream, TypeOK, Serials, server, Cluster, PodStops, PodStarts, ServerStarts, Refresh,
         ServerCrashes, Renew
<1>4. FirstRun'
  BY DEF FirstRun, Cluster, PodStops, PodStarts, ServerStarts, Refresh, ServerCrashes, Renew
<1>5. \A s \in Serials : s <= secret /\ Loaded(s) => Loaded(s)'
  BY LoadedStays
<1>6. Holding'
  <2>1. UNCHANGED <<pc, current, last, recorded>>
    BY <1>1 DEF script
  <2>2. Holding
    OBVIOUS
  <2>3. pc \in {"state", "delete", "record"} =>
          current # NoHash /\ (current \in Serials => current <= secret')
    BY <1>1, <1>2, <2>2 DEF Holding, Serials
  <2>4. pc = "record" /\ current \in Serials
          => Loaded(current)' \/ (last = NoHash /\ recorded = NoHash)
    <3>1. SUFFICES ASSUME pc = "record", current \in Serials, Loaded(current)
                   PROVE  Loaded(current)'
      BY <2>2 DEF Holding
    <3>2. current \in Serials /\ current <= secret
      BY <2>2, <3>1 DEF Holding
    <3>3. QED
      BY <1>5, <2>1, <3>1, <3>2 DEF Loaded
  <2>5. QED
    BY <2>1, <2>3, <2>4 DEF Holding
<1>7. Recorded'
  <2>1. recorded \in Serials => recorded <= secret' /\ Loaded(recorded)'
    <3>1. SUFFICES ASSUME recorded \in Serials PROVE recorded <= secret' /\ Loaded(recorded)'
      OBVIOUS
    <3>2. recorded <= secret /\ Loaded(recorded)
      BY <3>1 DEF Recorded
    <3>3. QED
      BY <1>1, <1>2, <1>5, <3>1, <3>2 DEF Loaded, Serials
  <2>2. QED
    BY <1>1, <2>1 DEF Recorded
<1>8. QED
  BY <1>3, <1>4, <1>6, <1>7

\* "The running server already loaded this certificate" of what is in the
\* ConfigMap, as long as its get answers; that of the Secret may fail.
THEOREM NoUnloadedRecord ==
  ASSUME "configmap" \in Answers
  PROVE  Spec => []RecordedIsLoaded
<1>1. Init => ReloadInv
  <2>1. SUFFICES ASSUME Init PROVE ReloadInv
    OBVIOUS
  <2>2. TypeOK
    BY <2>1, InitType
  <2>3. QED
    BY <2>1, <2>2, ReloadAssumption DEF ReloadAssumption, Init, ReloadInv, Downstream, FirstRun, Holding, Recorded, Serials
<1>2. TypeOK' /\ ReloadInv /\ [Next]_vars => ReloadInv'
  <2> SUFFICES ASSUME TypeOK', ReloadInv, [Next]_vars PROVE ReloadInv'
    OBVIOUS
  <2>1. CASE Job \/ Fail
    BY <2>1, ScriptStep DEF ReloadInv
  <2>2. CASE Cluster \/ Refresh \/ ServerCrashes \/ Renew
    BY <2>2, ClusterStep DEF ReloadInv
  <2>3. CASE UNCHANGED vars
    BY <2>3 DEF vars, ReloadInv, TypeOK, Downstream, FirstRun, Holding, Recorded, Loaded
  <2>4. QED
    BY <2>1, <2>2, <2>3 DEF Next
<1>3. ReloadInv => RecordedIsLoaded
  BY DEF ReloadInv, Recorded, RecordedIsLoaded
<1>4. QED
  BY <1>1, <1>2, <1>3, TypeCorrect, PTL DEF Spec
=============================================================================
