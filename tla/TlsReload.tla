------------------------------ MODULE TlsReload ------------------------------
(***************************************************************************)
(* apps/production/email-stalwart/stalwart-tls-reload.yaml: the daily job  *)
(* that restarts Stalwart when cert-manager has renewed its certificate,   *)
(* because the server reads the mounted files when it starts and never     *)
(* again.  Certificates are numbered in the order they are issued.         *)
(*                                                                         *)
(* One action per kubectl command of the script.  concurrencyPolicy:       *)
(* Forbid, and a pod retried by its Job starts from the top: one script    *)
(* runs at a time.                                                         *)
(***************************************************************************)
EXTENDS Naturals

CONSTANTS
  LastSerial,   \* bound: renewals that are looked at
  Answers,      \* "secret", "configmap": the `kubectl get` that never fail
  NoHash,       \* the empty string: there is no ConfigMap
  EmptyHash     \* the hash of no input

Serials == 0 .. LastSerial

ASSUME ReloadAssumption ==
  /\ LastSerial \in Nat
  /\ Answers \subseteq {"secret", "configmap"}
  /\ NoHash \notin Nat
  /\ EmptyHash \notin Nat
  /\ EmptyHash # NoHash

VARIABLES
  secret,     \* the certificate in the Secret stalwart-tls
  mount,      \* the one in the files the kubelet has mounted
  served,     \* the one the server read when it started
  pod,        \* "none", "starting" or "up"
  doomed,     \* the pod has been deleted and has not stopped yet
  recorded,   \* certHash of the ConfigMap stalwart-tls-reload-state
  pc,         \* what the script does next; "idle" when it does not run
  current,
  last        \* the script's variables

server == <<mount, served, pod>>
script == <<pc, current, last>>
vars == <<secret, mount, served, pod, doomed, recorded, pc, current, last>>

----------------------------------------------------------------------------
(* The script *)

StartJob ==
  /\ pc = "idle"
  /\ pc' = "secret"
  /\ UNCHANGED <<secret, server, doomed, recorded, current, last>>

\* (Mutant of GetSecret: another field of the Secret is hashed.)
GetSecretWrongField ==
  /\ pc = "secret"
  /\ current' = LastSerial + 1 + secret
  /\ pc' = "state"
  /\ UNCHANGED <<secret, server, doomed, recorded, last>>

\* `set -eu` without pipefail: when the get fails, sha256sum hashes no input.
GetSecret ==
  /\ pc = "secret"
  /\ current' \in {secret} \cup (IF "secret" \in Answers THEN {} ELSE {EmptyHash})
  /\ pc' = "state"
  /\ UNCHANGED <<secret, server, doomed, recorded, last>>

Exit ==
  /\ pc' = "idle"
  /\ current' = NoHash
  /\ last' = NoHash

\* (Mutant of Compare: an unknown hash is left alone and so is a known one.)
CompareNever(hash) ==
  \/ hash = current /\ Exit
  \/ hash # current /\ pc' = "record" /\ last' = hash /\ UNCHANGED current

\* "unchanged", "adopting without restarting" or "restarting".
Compare(hash) ==
  \/ hash = current /\ Exit
  \/ /\ hash # current
     /\ pc' = IF hash = NoHash THEN "record" ELSE "delete"
     /\ last' = hash
     /\ UNCHANGED current

\* `2>/dev/null || true`: a get that fails looks like a ConfigMap that is not there.
GetState ==
  /\ pc = "state"
  /\ \E hash \in {recorded} \cup (IF "configmap" \in Answers THEN {} ELSE {NoHash}) : Compare(hash)
  /\ UNCHANGED <<secret, server, doomed, recorded>>

\* --wait=false: the pod goes on serving until it has stopped.
DeletePod ==
  /\ pc = "delete"
  /\ doomed' = (pod # "none")
  /\ pc' = "record"
  /\ UNCHANGED <<secret, server, recorded, current, last>>

\* (Mutant of Record: the Secret is hashed once more.)
RecordNewest ==
  /\ pc = "record"
  /\ recorded' = secret
  /\ Exit
  /\ UNCHANGED <<secret, server, doomed>>

Record ==
  /\ pc = "record"
  /\ recorded' = current
  /\ Exit
  /\ UNCHANGED <<secret, server, doomed>>

\* A command that writes is refused, or the job's pod dies: a delete or an
\* apply whose answer is lost may have taken effect.
Fail ==
  /\ pc # "idle"
  /\ \/ pc = "delete" /\ doomed' = (pod # "none") /\ UNCHANGED recorded
     \/ pc = "record" /\ recorded' = current /\ UNCHANGED doomed
     \/ UNCHANGED <<doomed, recorded>>
  /\ Exit
  /\ UNCHANGED <<secret, server>>

Job == StartJob \/ GetSecret \/ GetState \/ DeletePod \/ Record

----------------------------------------------------------------------------
(* cert-manager, the kubelet and the server *)

\* A certificate is renewed some 60 days after it was issued, and the job runs
\* every day: its first run is over by then.
Renew ==
  /\ recorded # NoHash
  /\ secret < LastSerial
  /\ secret' = secret + 1
  /\ UNCHANGED <<server, doomed, recorded, script>>

\* The kubelet refreshes the mounted files.
Refresh ==
  /\ pod # "none"
  /\ mount' = secret
  /\ UNCHANGED <<secret, served, pod, doomed, recorded, script>>

\* The pod has stopped, because it was deleted or evicted.
PodStops ==
  /\ doomed \/ pod = "up"
  /\ pod' = "none"
  /\ doomed' = FALSE
  /\ UNCHANGED <<secret, mount, served, recorded, script>>

PodStarts ==
  /\ pod = "none"
  /\ pod' = "starting"
  /\ mount' = secret
  /\ UNCHANGED <<secret, served, doomed, recorded, script>>

ServerStarts ==
  /\ pod = "starting"
  /\ pod' = "up"
  /\ served' = mount
  /\ UNCHANGED <<secret, mount, doomed, recorded, script>>

\* The container stops and is started again in the same pod.
ServerCrashes ==
  /\ pod = "up"
  /\ pod' = "starting"
  /\ UNCHANGED <<secret, mount, served, doomed, recorded, script>>

Cluster == PodStops \/ PodStarts \/ ServerStarts

----------------------------------------------------------------------------

\* The first certificate is in place when the server is deployed with the job.
Init ==
  /\ secret = 0 /\ mount = 0 /\ served = 0
  /\ pod = "up"
  /\ doomed = FALSE
  /\ recorded = NoHash
  /\ pc = "idle"
  /\ current = NoHash
  /\ last = NoHash

Next == Job \/ Fail \/ Cluster \/ Renew \/ Refresh \/ ServerCrashes

Spec == Init /\ [][Next]_vars

\* The schedule runs the job every day; the StatefulSet controller and the
\* kubelet replace a pod that is deleted and start its server.
FairSpec ==
  /\ Spec
  /\ WF_vars(Job)
  /\ WF_vars(doomed /\ PodStops)
  /\ WF_vars(PodStarts)
  /\ WF_vars(ServerStarts)

----------------------------------------------------------------------------
(* Properties *)

Hashes == Serials \cup {EmptyHash, NoHash}

TypeOK ==
  /\ secret \in Serials /\ mount \in Serials /\ served \in Serials
  /\ pod \in {"none", "starting", "up"}
  /\ doomed \in BOOLEAN
  /\ recorded \in Hashes
  /\ pc \in {"idle", "secret", "state", "delete", "record"}
  /\ current \in Hashes
  /\ last \in Hashes

\* The server that runs from now on has read certificate s or a later one.
Loaded(s) ==
  \/ pod = "none" \/ doomed
  \/ mount >= s /\ (pod = "up" => served >= s)

\* The job never restarts a server for a hash it has recorded, so a recorded
\* hash has to be one the server has loaded or is about to: "the running server
\* already loaded this certificate".
RecordedIsLoaded == recorded \in Serials => Loaded(recorded)

\* A step in which the script fails, or hashes no input, and not one in which it
\* has nothing to do.
Failed ==
  \/ Fail /\ ~Job
  \/ GetSecret /\ current' = EmptyHash

\* "This only has to notice": the certificate on the wire is again and again the
\* one cert-manager has issued, unless runs keep failing.
ServedIsCurrent ==
  []<><<Failed>>_vars \/ []<>(pod = "up" /\ served = secret)
=============================================================================
