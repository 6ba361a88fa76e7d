--------------------------- MODULE AgeKeyRotation ---------------------------
(***************************************************************************)
(* A rotation of the age key end to end: the repository (SecretsRepo), the *)
(* sops-age Secret that scripts/create-sops-age-decryption-secret.sh       *)
(* applies, and Flux, which fetches main and decrypts it with that Secret. *)
(*                                                                         *)
(* The programs enforce some of the order of a rotation; the rest is what  *)
(* rotate-age-key prints for the operator to do and what the scripts'      *)
(* headers ask for.  Procedure names the steps the operator keeps to, so   *)
(* that a run can say which of them a property needs.                      *)
(***************************************************************************)
EXTENDS SecretsRepo

CONSTANT Procedure

Steps == {
  "list",       \* merge only a branch on which `list` exits 0
  "rebase",     \* merge only a branch that has taken main in
  "both",       \* put the new key into the cluster before merging a rotation to it
  "pull",       \* narrow the Secret from an up-to-date checkout
  "green",      \* narrow only while Flux reports Ready
  "revision",   \* ... and reports it for the revision main is at
  "rename"}     \* mark a key -retired- only when cluster and .sops.yaml have left it

ASSUME ProcedureAssumption == Procedure \subseteq Steps

VARIABLES
  cluster,    \* the identities in flux-system/sops-age
  fetched,    \* the tree of the GitRepository artifact
  applied,    \* the tree the Kustomizations applied last
  ready       \* the Kustomizations report Ready

clusterVars == <<cluster, fetched, applied, ready>>
vars == <<repoVars, clusterVars>>

Follows(step) == step \in Procedure

----------------------------------------------------------------------------
(* create-sops-age-decryption-secret.sh *)

\* (Mutant of ApplySecret: without the comparison with age_key_public.)
ApplySecretUnchecked(c, keys) ==
  /\ keys # {} /\ keys \subseteq Stored
  /\ HasRecord(work[c])
  /\ cluster' = keys
  /\ UNCHANGED <<repoVars, fetched, applied, ready>>

\* (Mutant of ApplySecret: an empty attachment becomes an entry of the Secret.)
ApplySecretEmpty(c, keys) ==
  /\ keys # {} /\ keys \subseteq Stored
  /\ HasRecord(work[c])
  /\ work[c][Config] \subseteq keys
  /\ cluster' = keys \cup {NoKey}
  /\ UNCHANGED <<repoVars, fetched, applied, ready>>

\* The script refuses unless one of the keys it was given is the recipient in
\* the .sops.yaml of the checkout it runs in; kubectl apply then replaces the data.
ApplySecret(c, keys) ==
  /\ keys # {} /\ keys \subseteq Stored
  /\ HasRecord(work[c])
  /\ work[c][Config] \subseteq keys
  /\ cluster' = keys
  /\ UNCHANGED <<repoVars, fetched, applied, ready>>

\* With no argument: every attachment that is not retired.
ApplyAll(c) == ApplySecret(c, Active)

\* With the new key named, after the merge: the last step of a rotation.
Narrow(c, k) ==
  /\ Follows("pull") => mod[c] = {} /\ ahead[c] = {} /\ behind[c] = {}
  /\ Follows("green") => ready
  /\ Follows("revision") => fetched = main /\ applied = main
  /\ ApplySecret(c, {k})

----------------------------------------------------------------------------
(* Flux: clusters/nas1 *)

FluxFetch ==
  /\ fetched # main
  /\ fetched' = main
  /\ UNCHANGED <<repoVars, cluster, applied, ready>>

Decryptable(t) == \A f \in Present(t) : Decrypts(cluster, t[f])

\* A file that no identity decrypts fails the build: nothing new is applied and
\* what is in the cluster stays.
FluxReconcile ==
  /\ IF Decryptable(fetched)
       THEN applied' = fetched /\ ready' = TRUE
       ELSE ready' = FALSE /\ UNCHANGED applied
  /\ UNCHANGED <<repoVars, cluster, fetched>>

----------------------------------------------------------------------------
(* The operator's steps that the procedure constrains *)

MergePR(c) ==
  /\ Follows("list") => ListGreen(head[c])
  /\ Follows("rebase") => behind[c] = {}
  /\ Follows("both") => head[c][Config] \subseteq cluster
  /\ Merge(c)
  /\ UNCHANGED clusterVars

MarkRetired(k) ==
  /\ Follows("rename") => k \notin cluster /\ main[Config] # {k}
  /\ RetireKey(k)
  /\ UNCHANGED clusterVars

----------------------------------------------------------------------------

Init ==
  /\ RepoInit
  /\ cluster = {InitKey}
  /\ fetched = main
  /\ applied = main
  /\ ready = TRUE

Repository ==
  /\ \/ \E k \in Keys : UploadKey(k) \/ RenameBack(k)
     \/ \E c \in Checkouts : Rotation(c) \/ Editing(c) \/ LocalGit(c)
  /\ UNCHANGED clusterVars

Operator ==
  \/ \E k \in Keys : MarkRetired(k)
  \/ \E c \in Checkouts : MergePR(c) \/ ApplyAll(c) \/ \E k \in Keys : Narrow(c, k)

Flux == FluxFetch \/ FluxReconcile

Next == Repository \/ Operator \/ Flux

Spec == Init /\ [][Next]_vars

\* Flux polls on its own: the GitRepository every minute, the Kustomizations
\* every ten.  Nothing obliges the operator to do anything.
FairSpec == Spec /\ WF_vars(FluxFetch) /\ WF_vars(FluxReconcile)

----------------------------------------------------------------------------
(* Properties *)

ClusterTypeOK ==
  /\ TypeOK
  /\ cluster \in SUBSET Keys
  /\ fetched \in Trees
  /\ applied \in Trees
  /\ ready \in BOOLEAN

\* "That is what removes the outage window between merging re-encrypted files
\* and swapping the key": no reconcile of a rotation, of its rollback or of a
\* branch beside it ever finds a file the Secret cannot decrypt.
NeverStalled == ready

\* The identities the script loads read every file on main: a key is marked
\* -retired-, "never loaded again", only when nothing on main needs it.
ToolsCanRead == \A f \in Present(main) : Decrypts(Active, main[f])

\* After the last step the key that was rotated away reads nothing on main.
RetiredReadsNothing ==
  \A k \in Keys : vault[k] = "retired" => \A f \in Files : k \notin main[f]

\* Main moves from one recipient to the next as a whole.
Promise == INSTANCE AtomicRotation WITH record <- main[Config],
                                        readers <- [f \in Files |-> main[f]]
MainIsAtomic == Promise!Spec

\* Flux comes to apply what is on main, unless main keeps moving.
FluxCatchesUp == []<>(applied = main) \/ []<><<main' # main>>_main
=============================================================================
