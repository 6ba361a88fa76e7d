---------------------- MODULE PlaintextMigration_proofs ----------------------
(***************************************************************************)
(* What push and migrate --verify promise, for any number of files, texts  *)
(* and checkouts, under the precautions each of the results needs.         *)
(***************************************************************************)
EXTENDS PlaintextMigration, TLAPS

USE MigrationAssumption

\* Before the first command everything has its type.
LEMMA InitType == Init => TypeOK
  BY DEF Init, TypeOK

\* A ciphertext decrypts to a content.
LEMMA RoundTripType ==
  ASSUME NEW f \in Files, NEW c \in Contents
  PROVE  RoundTrip(f, c) \in Contents
  BY DEF RoundTrip, Contents

\* The end of a command keeps the types.
LEMMA ExitType ==
  ASSUME TypeOK, NEW m \in Checkouts, Exit(m), UNCHANGED stores,
         report' \in [Checkouts -> {"none", "clean", "dirty"}]
  PROVE  TypeOK'
  BY DEF Exit, TypeOK, stores

\* Every step of push keeps the types.
LEMMA PushType ==
  ASSUME TypeOK, NEW m \in Checkouts, Push(m)
  PROVE  TypeOK'
<1> USE DEF TypeOK, stores, command
<1>1. ASSUME NEW delete \in BOOLEAN, StartPush(m, delete)
      PROVE  TypeOK'
  BY <1>1 DEF StartPush
<1>2. ASSUME NEW f \in Files, Classify(m, f)
      PROVE  TypeOK'
  BY <1>2 DEF Classify, Source
<1>3. ASSUME NEW f \in Files, Upload(m, f)
      PROVE  TypeOK'
  BY <1>3 DEF Upload
<1>4. ASSUME NEW f \in Files, ReadBack(m, f)
      PROVE  TypeOK'
  <2>1. CASE vault[f] = hash[m][f]
    <3>1. /\ pc' = [pc EXCEPT ![m] = "rehash"]
          /\ cur' = [cur EXCEPT ![m] = f]
          /\ todo' = [todo EXCEPT ![m] = @ \ {f}]
          /\ UNCHANGED <<local, tree, git, vault, opt, plain, hash, send, staged, bad, late, report>>
      BY <1>4, <2>1 DEF ReadBack
    <3>2. \A n \in Checkouts : /\ pc'[n] \in {"rehash", "unlink", "copy"} => cur'[n] \in Files
                             /\ pc'[n] = "copy" => staged'[n] # None
      BY <3>1
    <3>3. pc' \in [Checkouts -> {"idle", "classify", "upload", "delete", "rehash", "unlink",
                                "pull", "copy", "verify"}]
      BY <3>1
    <3>4. cur' \in [Checkouts -> Files \cup {None}] /\ todo' \in [Checkouts -> SUBSET Files]
      BY <3>1
    <3> QED BY <3>1, <3>2, <3>3, <3>4
  <2>2. CASE vault[f] # hash[m][f]
    BY <1>4, <2>2 DEF ReadBack
  <2> QED BY <2>1, <2>2
<1>5. CASE EndClassify(m)
  BY <1>5 DEF EndClassify
<1>6. CASE EndUpload(m)
  <2>1. CASE Exit(m)
    BY <1>6, <2>1, ExitType DEF EndUpload
  <2>2. CASE ~Exit(m)
    <3>1. /\ pc' = [pc EXCEPT ![m] = "delete"]
          /\ todo' = [todo EXCEPT ![m] = plain[m]]
          /\ UNCHANGED <<local, tree, git, vault, opt, plain, hash, send, cur, staged, bad, late, report>>
      BY <1>6, <2>2 DEF EndUpload, Exit
    <3>2. \A n \in Checkouts : /\ pc'[n] \in {"rehash", "unlink", "copy"} => cur'[n] \in Files
                             /\ pc'[n] = "copy" => staged'[n] # None
      BY <3>1
    <3>3. pc' \in [Checkouts -> {"idle", "classify", "upload", "delete", "rehash", "unlink",
                                "pull", "copy", "verify"}]
      BY <3>1
    <3> QED BY <3>1, <3>2, <3>3
  <2> QED BY <1>6, <2>1, <2>2 DEF EndUpload
<1>7. CASE Rehash(m)
  BY <1>7 DEF Rehash
<1>8. CASE DeleteLocal(m)
  BY <1>8 DEF DeleteLocal
<1>9. CASE EndDelete(m)
  BY <1>9, ExitType DEF EndDelete
<1> QED BY <1>1, <1>2, <1>3, <1>4, <1>5, <1>6, <1>7, <1>8, <1>9 DEF Push

\* Every step of pull keeps the types: what is copied was read.
LEMMA PullType ==
  ASSUME TypeOK, NEW m \in Checkouts, Pull(m)
  PROVE  TypeOK'
<1> USE DEF TypeOK, stores, command
<1>1. ASSUME NEW force \in BOOLEAN, StartPull(m, force)
      PROVE  TypeOK'
  BY <1>1 DEF StartPull
<1>2. ASSUME NEW f \in Files, PullRead(m, f)
      PROVE  TypeOK'
  <2>1. CASE UNCHANGED <<pc, cur, staged>>
    BY <1>2, <2>1 DEF PullRead
  <2>2. CASE ~UNCHANGED <<pc, cur, staged>>
    <3>1. /\ pc' = [pc EXCEPT ![m] = "copy"]
          /\ cur' = [cur EXCEPT ![m] = f]
          /\ vault[f] # None
          /\ staged' = [staged EXCEPT ![m] = vault[f]]
          /\ todo' = [todo EXCEPT ![m] = @ \ {f}]
          /\ UNCHANGED <<local, tree, git, vault, opt, plain, hash, send, bad, late, report>>
      BY <1>2, <2>2 DEF PullRead
    <3>2. \A n \in Checkouts : /\ pc'[n] \in {"rehash", "unlink", "copy"} => cur'[n] \in Files
                             /\ pc'[n] = "copy" => staged'[n] # None
      BY <3>1
    <3>3. pc' \in [Checkouts -> {"idle", "classify", "upload", "delete", "rehash", "unlink",
                                "pull", "copy", "verify"}]
      BY <3>1
    <3> QED BY <3>1, <3>2, <3>3
  <2> QED BY <1>2, <2>1, <2>2 DEF PullRead
<1>3. CASE PullCopy(m)
  BY <1>3 DEF PullCopy
<1>4. CASE EndPull(m)
  BY <1>4, ExitType DEF EndPull
<1> QED BY <1>1, <1>2, <1>3, <1>4 DEF Pull

\* Every step of migrate --verify keeps the types.
LEMMA VerifyType ==
  ASSUME TypeOK, NEW m \in Checkouts, Verify(m)
  PROVE  TypeOK'
<1> USE DEF TypeOK, stores
<1>1. ASSUME NEW only \in SUBSET Files, StartVerify(m, only)
      PROVE  TypeOK'
  BY <1>1 DEF StartVerify
<1>2. ASSUME NEW f \in Files, VerifyRow(m, f)
      PROVE  TypeOK'
  BY <1>2 DEF VerifyRow
<1>3. CASE EndVerify(m)
  BY <1>3, ExitType DEF EndVerify
<1> QED BY <1>1, <1>2, <1>3 DEF Verify

\* Whatever people do beside the commands keeps the types.
LEMMA OperatorType ==
  ASSUME TypeOK, NEW m \in Checkouts, Operator(m)
  PROVE  TypeOK'
<1> USE DEF TypeOK, command
<1>1. ASSUME NEW f \in Files, NEW c \in Drafts[f] \cup {None}, EditPlaintext(m, f, c)
      PROVE  TypeOK'
  BY <1>1 DEF EditPlaintext
<1>2. ASSUME NEW f \in Files, NEW c \in Drafts[f], EditCiphertext(m, f, c)
      PROVE  TypeOK'
  BY <1>2, RoundTripType DEF EditCiphertext
<1>3. CASE Publish(m)
  BY <1>3 DEF Publish
<1>4. CASE TakeMain(m)
  BY <1>4 DEF TakeMain
<1> QED BY <1>1, <1>2, <1>3, <1>4 DEF Operator

\* One step of anything keeps the types.
LEMMA NextType == TypeOK /\ [Next]_vars => TypeOK'
<1> SUFFICES ASSUME TypeOK, [Next]_vars PROVE TypeOK'
  OBVIOUS
<1>1. ASSUME NEW m \in Checkouts, Abort(m)
      PROVE  TypeOK'
  BY <1>1, ExitType DEF Abort, TypeOK
<1>2. ASSUME NEW f \in Files, DeleteAttachment(f)
      PROVE  TypeOK'
  BY <1>2 DEF DeleteAttachment, TypeOK, command
<1>3. CASE UNCHANGED vars
  BY <1>3 DEF vars, stores, command, TypeOK
<1> QED BY <1>1, <1>2, <1>3, PushType, PullType, VerifyType, OperatorType DEF Next

\* What discover(), classify() and the loops of the three commands handle has
\* its type in every state; pull never copies what it has not read.
THEOREM TypeCorrect == Spec => []TypeOK
  BY InitType, NextType, PTL DEF Spec

----------------------------------------------------------------------------
(* What a push destroys, and what a clean report says *)

\* One command at a time.
Solo == \A m, n \in Checkouts : pc[m] # "idle" /\ pc[n] # "idle" => m = n

Pushing(m) == pc[m] \in {"classify", "upload", "delete", "rehash", "unlink"}

\* A push and a clean report exclude each other.
Excluded == \A m, n \in Checkouts : Pushing(m) => report[n] # "clean"

\* The attachment that was read back is still the same at the unlink, and so is
\* the plaintext if nobody saved it since push hashed it again.
UnlinkProved ==
  \A m \in Checkouts :
    /\ pc[m] \in {"rehash", "unlink"} => vault[cur[m]] = hash[m][cur[m]]
    /\ pc[m] = "unlink" /\ ~late[m] => local[m][cur[m]] = hash[m][cur[m]]

\* What a running verify has counted as reproducible is on main.
RowsRight ==
  \A m \in Checkouts : pc[m] = "verify" =>
    /\ tree[m] = git
    /\ \A f \in Files \ (todo[m] \cup bad[m]) : vault[f] # None => SameText(vault[f], git[f])

\* The two precautions that are enough for what a push destroys.
Careful == {"alone", "freeze"} \subseteq Care

\* What verify says is worth something only on the whole of a tree that is what
\* git holds.
ReportInv == Care = Precautions => RowsRight /\ CleanIsTrue

\* CleanIsTrue and DeletedIsHeld are not inductive without the other parts.
CareInv == TypeOK /\ Solo /\ Excluded /\ UnlinkProved /\ ReportInv

\* Before the first command.
LEMMA InitCare == Init => CareInv
  BY InitType DEF Init, CareInv, ReportInv, Solo, Pushing, Excluded, UnlinkProved, RowsRight, CleanIsTrue

\* A command starts only when none runs.
LEMMA StartsAlone ==
  ASSUME Careful, NEW m \in Checkouts, MayStart(m)
  PROVE  \A n \in Checkouts : pc[n] = "idle"
  BY DEF MayStart, With, Careful

\* Nothing that Frozen guards happens beside a verify or a clean report.
LEMMA FrozenGuards ==
  ASSUME Careful, ~Frozen, NEW m \in Checkouts
  PROVE  pc[m] # "verify" /\ report[m] # "clean"
  BY DEF Frozen, With, Careful

\* The end of a command without a new report.
LEMMA ExitCare ==
  ASSUME CareInv, TypeOK', NEW m \in Checkouts, Exit(m), UNCHANGED <<stores, report>>
  PROVE  CareInv'
<1> USE DEF CareInv, Exit, stores
<1>1. \A n \in Checkouts : pc'[n] # "idle" => n # m /\ pc'[n] = pc[n]
  BY DEF TypeOK
<1>2. \A n \in Checkouts : n # m => cur'[n] = cur[n] /\ hash'[n] = hash[n]
                                     /\ todo'[n] = todo[n] /\ bad'[n] = bad[n]
  BY DEF TypeOK
<1>3. Solo'
  BY <1>1 DEF Solo
<1>4. Excluded'
  BY <1>1 DEF Excluded, Pushing
<1>5. UnlinkProved'
  BY <1>1, <1>2 DEF UnlinkProved
<1>6. RowsRight => RowsRight'
  BY <1>1, <1>2 DEF RowsRight, SameText
<1>7. CleanIsTrue => CleanIsTrue'
  BY DEF CleanIsTrue, SameText
<1> QED BY <1>3, <1>4, <1>5, <1>6, <1>7 DEF ReportInv

\* While a command of m runs, a step of it that stays between push's states and
\* does not touch git, the trees or the reports.
LEMMA PushStepCare ==
  ASSUME CareInv, TypeOK', NEW m \in Checkouts, Pushing(m), Pushing(m)',
         \A n \in Checkouts : n # m => pc'[n] = pc[n],
         UNCHANGED <<tree, git, report>>,
         pc'[m] \in {"rehash", "unlink"} => vault'[cur'[m]] = hash'[m][cur'[m]],
         pc'[m] = "unlink" /\ ~late'[m] => local'[m][cur'[m]] = hash'[m][cur'[m]]
  PROVE  CareInv'
<1> USE DEF CareInv
<1>1. \A n \in Checkouts : n # m => pc[n] = "idle" /\ pc'[n] = "idle"
  BY DEF Solo, Pushing
<1>2. Solo'
  BY <1>1 DEF Solo
<1>3. Excluded'
  BY <1>1 DEF Excluded, Pushing
<1>4. UnlinkProved'
  BY <1>1 DEF UnlinkProved
<1>5. RowsRight'
  BY <1>1 DEF RowsRight, Pushing
<1>6. CleanIsTrue'
  BY DEF CleanIsTrue, Excluded
<1> QED BY <1>2, <1>3, <1>4, <1>5, <1>6 DEF ReportInv
\* Push preserves the invariant.
LEMMA PushCare ==
  ASSUME Careful, CareInv, TypeOK', NEW m \in Checkouts, Push(m)
  PROVE  CareInv'
<1> USE DEF CareInv, TypeOK, stores, command
<1>1. ASSUME NEW delete \in BOOLEAN, StartPush(m, delete)
      PROVE  CareInv'
  <2>1. \A n \in Checkouts : pc[n] = "idle" /\ report[n] # "clean"
    BY <1>1, StartsAlone, FrozenGuards DEF StartPush
  <2>2. \A n \in Checkouts : n # m => pc'[n] = "idle"
    BY <1>1, <2>1 DEF StartPush
  <2>3. pc'[m] = "classify" /\ report' = report
    BY <1>1 DEF StartPush
  <2>4. \A n \in Checkouts : pc'[n] \in {"idle", "classify"}
    BY <2>2, <2>3
  <2>6. Solo'
    BY <2>2 DEF Solo
  <2>7. UnlinkProved' /\ RowsRight'
    BY <2>4 DEF UnlinkProved, RowsRight
  <2>5. Excluded' /\ CleanIsTrue'
    BY <2>1, <2>3 DEF Excluded, CleanIsTrue
  <2> QED BY <2>5, <2>6, <2>7 DEF ReportInv
<1>2. ASSUME NEW f \in Files, Classify(m, f)
      PROVE  CareInv'
  BY <1>2, PushStepCare DEF Classify, Pushing
<1>3. ASSUME NEW f \in Files, Upload(m, f)
      PROVE  CareInv'
  BY <1>3, PushStepCare DEF Upload, Pushing
<1>4. ASSUME NEW f \in Files, ReadBack(m, f)
      PROVE  CareInv'
  <2>1. CASE vault[f] = hash[m][f]
    <3>1. pc[m] = "delete" /\ pc'[m] = "rehash" /\ cur'[m] = f
      BY <1>4, <2>1 DEF ReadBack
    <3>2. /\ \A n \in Checkouts : n # m => pc'[n] = pc[n]
          /\ UNCHANGED <<tree, git, vault, hash, report>>
      BY <1>4, <2>1 DEF ReadBack
    <3> QED BY <2>1, <3>1, <3>2, PushStepCare DEF Pushing
  <2>2. CASE vault[f] # hash[m][f]
    BY <1>4, <2>2, PushStepCare DEF ReadBack, Pushing
  <2> QED BY <2>1, <2>2
<1>5. CASE EndClassify(m)
  BY <1>5, PushStepCare DEF EndClassify, Pushing
<1>6. CASE EndUpload(m)
  <2>1. CASE Exit(m)
    BY <1>6, <2>1, ExitCare DEF EndUpload
  <2>2. CASE ~Exit(m)
    BY <1>6, <2>2, PushStepCare DEF EndUpload, Pushing
  <2> QED BY <2>1, <2>2
<1>7. CASE Rehash(m)
  BY <1>7, PushStepCare DEF Rehash, Pushing, UnlinkProved
<1>8. CASE DeleteLocal(m)
  BY <1>8, PushStepCare DEF DeleteLocal, Pushing
<1>9. CASE EndDelete(m)
  BY <1>9, ExitCare DEF EndDelete
<1> QED BY <1>1, <1>2, <1>3, <1>4, <1>5, <1>6, <1>7, <1>8, <1>9 DEF Push

\* A step that touches neither the stores but for plaintexts, nor reports, and
\* leaves m in the same command or takes it from "idle" to pull.
LEMMA PullStepCare ==
  ASSUME CareInv, TypeOK', NEW m \in Checkouts,
         pc'[m] \in {"pull", "copy"},
         \A n \in Checkouts : n # m => pc[n] = "idle" /\ pc'[n] = pc[n],
         UNCHANGED <<tree, git, vault, report>>
  PROVE  CareInv'
<1> USE DEF CareInv
<1>1. Solo' /\ Excluded' /\ UnlinkProved' /\ RowsRight'
  BY DEF Solo, Excluded, Pushing, UnlinkProved, RowsRight
<1>2. CleanIsTrue => CleanIsTrue'
  BY DEF CleanIsTrue
<1> QED BY <1>1, <1>2 DEF ReportInv

\* Pull preserves the invariant.
LEMMA PullCare ==
  ASSUME Careful, CareInv, TypeOK', NEW m \in Checkouts, Pull(m)
  PROVE  CareInv'
<1> USE DEF stores, command
<1>0. TypeOK /\ Solo
  BY DEF CareInv
<1>1. ASSUME NEW force \in BOOLEAN, StartPull(m, force)
      PROVE  CareInv'
  <2>1. \A n \in Checkouts : pc[n] = "idle"
    BY <1>1, StartsAlone DEF StartPull
  <2> QED BY <1>0, <1>1, <2>1, PullStepCare DEF StartPull, TypeOK
<1>2. ASSUME NEW f \in Files, PullRead(m, f)
      PROVE  CareInv'
  <2>1. pc[m] = "pull" /\ pc'[m] \in {"pull", "copy"}
    BY <1>0, <1>2 DEF PullRead, TypeOK
  <2>2. \A n \in Checkouts : n # m => pc[n] = "idle" /\ pc'[n] = pc[n]
    BY <1>0, <1>2, <2>1 DEF PullRead, TypeOK, Solo
  <2> QED BY <1>2, <2>1, <2>2, PullStepCare DEF PullRead
<1>3. CASE PullCopy(m)
  BY <1>0, <1>3, PullStepCare DEF PullCopy, TypeOK, Solo
<1>4. CASE EndPull(m)
  BY <1>4, ExitCare DEF EndPull
<1> QED BY <1>1, <1>2, <1>3, <1>4 DEF Pull

\* migrate --verify preserves the invariant, and its report is true.
LEMMA VerifyCare ==
  ASSUME Careful, CareInv, TypeOK', NEW m \in Checkouts, Verify(m)
  PROVE  CareInv'
<1> USE DEF CareInv, stores
<1>1. ASSUME NEW only \in SUBSET Files, StartVerify(m, only)
      PROVE  CareInv'
  <2>1. \A n \in Checkouts : pc[n] = "idle"
    BY <1>1, StartsAlone DEF StartVerify
  <2>2. Care = Precautions => only = Files /\ tree[m] = git
    BY <1>1 DEF StartVerify, With, Precautions
  <2>3. pc'[m] = "verify" /\ \A n \in Checkouts : n # m => pc'[n] = "idle"
    BY <1>1, <2>1 DEF StartVerify, TypeOK
  <2>4. Care = Precautions => \A f \in Files \ todo'[m] : vault[f] = None
    BY <1>1, <2>2 DEF StartVerify, TypeOK
  <2>5. \A n \in Checkouts : report'[n] = "clean" => report[n] = "clean"
    BY <1>1 DEF StartVerify, TypeOK
  <2>6. UNCHANGED <<tree, git, vault>>
    BY <1>1 DEF StartVerify
  <2>7. Solo' /\ Excluded' /\ UnlinkProved'
    BY <2>3 DEF Solo, Excluded, Pushing, UnlinkProved
  <2>8. Care = Precautions => RowsRight'
    BY <2>2, <2>3, <2>4, <2>6 DEF RowsRight
  <2>9. CleanIsTrue => CleanIsTrue'
    BY <2>5, <2>6 DEF CleanIsTrue
  <2> QED BY <2>7, <2>8, <2>9 DEF ReportInv
<1>2. ASSUME NEW f \in Files, VerifyRow(m, f)
      PROVE  CareInv'
  <2>1. pc[m] = "verify" /\ todo'[m] = todo[m] \ {f}
    BY <1>2 DEF VerifyRow, TypeOK
  <2>2. UNCHANGED <<local, tree, git, vault, pc, cur, hash, late, report>>
    BY <1>2 DEF VerifyRow
  <2>3. bad'[m] = IF Reproducible(f, vault[f], tree[m][f]) THEN bad[m] ELSE bad[m] \cup {f}
    BY <1>2 DEF VerifyRow, TypeOK
  <2>4. Reproducible(f, vault[f], git[f]) /\ vault[f] # None => SameText(vault[f], git[f])
    BY DEF Reproducible, SameText
  <2>5. Solo' /\ Excluded' /\ UnlinkProved' /\ (CleanIsTrue => CleanIsTrue')
    BY <2>2 DEF Solo, Excluded, Pushing, UnlinkProved, CleanIsTrue
  <2>6. \A n \in Checkouts : pc[n] = "verify" => n = m
    BY <2>1 DEF Solo
  <2>7. RowsRight => RowsRight'
    BY <2>1, <2>2, <2>3, <2>4, <2>6 DEF RowsRight
  <2> QED BY <2>5, <2>7 DEF ReportInv
<1>3. CASE EndVerify(m)
  <2>1. pc[m] = "verify" /\ todo[m] = {}
    BY <1>3 DEF EndVerify
  <2>2. \A n \in Checkouts : pc'[n] = "idle"
    BY <1>3, <2>1 DEF EndVerify, Exit, TypeOK, Solo
  <2>3. UNCHANGED <<tree, git, vault>>
    BY <1>3 DEF EndVerify
  <2>4. \A n \in Checkouts : report'[n] = "clean" => report[n] = "clean" \/ (n = m /\ bad[m] = {})
    BY <1>3 DEF EndVerify, TypeOK
  <2>5. RowsRight /\ bad[m] = {} => \A f \in Files : vault[f] # None => SameText(vault[f], git[f])
    BY <2>1 DEF RowsRight
  <2>6. RowsRight /\ CleanIsTrue => CleanIsTrue'
    BY <2>3, <2>4, <2>5 DEF CleanIsTrue
  <2>7. Solo' /\ Excluded' /\ UnlinkProved' /\ RowsRight'
    BY <2>2 DEF Solo, Excluded, Pushing, UnlinkProved, RowsRight
  <2> QED BY <2>6, <2>7 DEF ReportInv
<1> QED BY <1>1, <1>2, <1>3 DEF Verify
\* What people do to files and branches preserves the invariant.
LEMMA OperatorCare ==
  ASSUME Careful, CareInv, TypeOK', NEW m \in Checkouts, Operator(m)
  PROVE  CareInv'
<1> USE DEF CareInv, command
<1>1. ASSUME NEW f \in Files, NEW c \in Drafts[f] \cup {None}, EditPlaintext(m, f, c)
      PROVE  CareInv'
  <2>1. UNCHANGED <<tree, git, vault, pc, todo, cur, hash, bad, report>>
    BY <1>1 DEF EditPlaintext
  <2>2. /\ local' = [local EXCEPT ![m][f] = c]
        /\ late' = [late EXCEPT ![m] = @ \/ (pc[m] = "unlink" /\ f = cur[m])]
    BY <1>1 DEF EditPlaintext
  <2>3. ASSUME NEW n \in Checkouts, pc[n] = "unlink", ~late'[n]
        PROVE  local'[n][cur[n]] = local[n][cur[n]] /\ ~late[n]
    <3>1. CASE n = m
      <4>1. ~late[m] /\ f # cur[m]
        BY <2>2, <2>3, <3>1 DEF TypeOK
      <4> QED BY <2>2, <3>1, <4>1 DEF TypeOK
    <3>2. CASE n # m
      BY <2>2, <2>3, <3>2 DEF TypeOK
    <3> QED BY <3>1, <3>2
  <2>4. UnlinkProved'
    BY <2>1, <2>3 DEF UnlinkProved
  <2>5. Solo' /\ Excluded' /\ (RowsRight => RowsRight') /\ (CleanIsTrue => CleanIsTrue')
    BY <2>1 DEF Solo, Excluded, Pushing, RowsRight, CleanIsTrue
  <2> QED BY <2>4, <2>5 DEF ReportInv
<1>2. ASSUME ~Frozen, UNCHANGED <<local, vault, pc, todo, command, report>>
      PROVE  CareInv'
  <2>1. \A n \in Checkouts : pc'[n] # "verify" /\ report'[n] # "clean"
    BY <1>2, FrozenGuards
  <2>2. Solo' /\ Excluded' /\ UnlinkProved'
    BY <1>2 DEF Solo, Excluded, Pushing, UnlinkProved
  <2>3. RowsRight' /\ CleanIsTrue'
    BY <2>1 DEF RowsRight, CleanIsTrue
  <2> QED BY <2>2, <2>3 DEF ReportInv
<1>3. ASSUME NEW f \in Files, NEW c \in Drafts[f], EditCiphertext(m, f, c)
      PROVE  CareInv'
  BY <1>2, <1>3 DEF EditCiphertext
<1>4. CASE Publish(m)
  <2>1. ~Frozen /\ UNCHANGED <<local, tree, vault, pc, todo, command, report>>
    BY <1>4 DEF Publish
  <2> QED BY <1>2, <2>1
<1>5. CASE TakeMain(m)
  <2>1. ~Frozen /\ UNCHANGED <<local, git, vault, pc, todo, command, report>>
    BY <1>5 DEF TakeMain
  <2> QED BY <1>2, <2>1
<1> QED BY <1>1, <1>3, <1>4, <1>5 DEF Operator

\* One step of anything preserves the invariant.
LEMMA NextCare ==
  ASSUME Careful, CareInv, [Next]_vars
  PROVE  CareInv'
<1>1. TypeOK'
  BY NextType DEF CareInv
<1>2. ASSUME NEW m \in Checkouts, Abort(m)
      PROVE  CareInv'
  BY <1>1, <1>2, ExitCare DEF Abort
<1>3. ASSUME NEW f \in Files, DeleteAttachment(f)
      PROVE  CareInv'
  <2>1. \A n \in Checkouts : ~Pushing(n)
    BY <1>3 DEF DeleteAttachment, CareInv, Excluded
  <2>2. UNCHANGED <<tree, git, pc, todo, hash, cur, bad, late, report>>
    BY <1>3 DEF DeleteAttachment, command
  <2>3. \A g \in Files : vault'[g] # None => vault'[g] = vault[g]
    BY <1>3 DEF DeleteAttachment, CareInv, TypeOK
  <2>4. Solo' /\ Excluded' /\ UnlinkProved'
    BY <2>1, <2>2 DEF CareInv, Solo, Excluded, Pushing, UnlinkProved
  <2>5. (RowsRight => RowsRight') /\ (CleanIsTrue => CleanIsTrue')
    BY <2>2, <2>3 DEF RowsRight, CleanIsTrue
  <2> QED BY <1>1, <2>4, <2>5 DEF CareInv, ReportInv
<1>4. CASE UNCHANGED vars
  BY <1>1, <1>4 DEF vars, stores, command, CareInv, Solo, Excluded, Pushing,
                    UnlinkProved, ReportInv, RowsRight, CleanIsTrue
<1> QED BY <1>1, <1>2, <1>3, <1>4, PushCare, PullCare, VerifyCare, OperatorCare DEF Next

\* With these precautions the invariant holds in every state.
LEMMA CareHolds == ASSUME Careful PROVE Spec => []CareInv
<1>1. CareInv /\ [Next]_vars => CareInv'
  BY NextCare
<1> QED BY InitCare, <1>1, PTL DEF Spec

\* When migrate --verify has exited 0, the text of every attachment is on main,
\* until the next verify: attachments may be deleted on the strength of it.
THEOREM CleanReportIsTrue == ASSUME Care = Precautions PROVE Spec => []CleanIsTrue
<1>1. CareInv => CleanIsTrue
  BY DEF CareInv, ReportInv
<1>2. Careful
  BY DEF Careful, Precautions
<1> QED BY <1>1, <1>2, CareHolds, PTL

\* What push is about to unlink, nobody having saved it since, the attachment has.
LEMMA UnlinkHeld ==
  ASSUME CareInv, NEW m \in Checkouts, pc[m] = "unlink", ~late[m]
  PROVE  vault[cur[m]] = local[m][cur[m]]
  BY DEF CareInv, UnlinkProved

\* When commands run one at a time and none changes a secret while a report is
\* clean, --delete-after-push unlinks only what the attachment holds byte for
\* byte, however the file was edited until push hashed it for the last time.
THEOREM DeletesOnlyHeld == ASSUME Careful PROVE Spec => DeletedIsHeld
<1>1. CareInv /\ [Next]_vars
        => [\A m \in Checkouts :
             (pc[m] = "unlink" /\ pc'[m] = "delete" /\ ~late[m])
               => vault[cur[m]] = local[m][cur[m]]]_vars
  BY UnlinkHeld
<1> QED BY <1>1, CareHolds, PTL DEF Spec, DeletedIsHeld

----------------------------------------------------------------------------
(* What a push replaces *)

\* What a push holds for upload has been classified, in this push.
SendWaits ==
  \A m \in Checkouts :
    /\ send[m] # {} => pc[m] \in {"classify", "upload"}
    /\ pc[m] = "classify" => send[m] \cap todo[m] = {}

\* What a push is about to send from a dotenv ciphertext has another text than
\* the attachment it replaces.
SendDiffers ==
  \A m \in Checkouts, f \in Dotenv :
    f \in send[m] \ plain[m] => ~SameText(vault[f], hash[m][f])

\* PristineKept speaks of one step; this is what the steps before it leave.
PushInv == TypeOK /\ Solo /\ SendWaits /\ SendDiffers

\* Before the first command nothing waits.
LEMMA InitPush == Init => PushInv
  BY InitType DEF Init, PushInv, Solo, SendWaits, SendDiffers

\* Whatever a step of m does, the others stay idle when m ran or runs alone.
LEMMA SoloStep ==
  ASSUME TypeOK, Solo, NEW m \in Checkouts, pc[m] # "idle",
         \A n \in Checkouts : n # m => pc'[n] = pc[n]
  PROVE  Solo' /\ \A n \in Checkouts : n # m => pc[n] = "idle" /\ pc'[n] = "idle"
  BY DEF Solo

\* The end of a command drops what it held.
LEMMA ExitPush ==
  ASSUME PushInv, TypeOK', NEW m \in Checkouts, Exit(m), UNCHANGED vault
  PROVE  PushInv'
<1> USE DEF PushInv, Exit
<1>1. \A n \in Checkouts : n # m => /\ pc'[n] = pc[n] /\ todo'[n] = todo[n]
                                     /\ plain'[n] = plain[n] /\ hash'[n] = hash[n] /\ send'[n] = send[n]
  BY DEF TypeOK
<1>2. pc'[m] = "idle" /\ send'[m] = {}
  BY DEF TypeOK
<1>3. Solo'
  BY <1>1, <1>2 DEF Solo
<1>4. SendWaits'
  BY <1>1, <1>2 DEF SendWaits
<1>5. SendDiffers'
  BY <1>1, <1>2 DEF SendDiffers, SameText
<1> QED BY <1>3, <1>4, <1>5

\* A step that leaves what the pushes hold, and changes attachments only by
\* deleting them.
LEMMA OtherPush ==
  ASSUME PushInv, TypeOK', UNCHANGED <<plain, hash, send>>,
         \A f \in Files : vault'[f] = vault[f] \/ vault'[f] = None,
         \A n \in Checkouts :
           \/ pc'[n] = pc[n] /\ todo'[n] = todo[n]
           \/ send[n] = {} /\ pc'[n] # "classify",
         Solo'
  PROVE  PushInv'
<1> USE DEF PushInv
<1>1. SendWaits'
  BY DEF SendWaits
<1>2. SendDiffers'
  BY DEF SendDiffers, SameText
<1> QED BY <1>1, <1>2

\* Push preserves the invariant.
LEMMA PushPush ==
  ASSUME "alone" \in Care, PushInv, TypeOK', NEW m \in Checkouts, Push(m)
  PROVE  PushInv'
<1> USE DEF stores, command
<1>0. TypeOK /\ Solo /\ SendWaits /\ SendDiffers
  BY DEF PushInv
<1>1. ASSUME NEW delete \in BOOLEAN, StartPush(m, delete)
      PROVE  PushInv'
  <2>1. \A n \in Checkouts : pc[n] = "idle"
    BY <1>1 DEF StartPush, MayStart, With
  <2>2. /\ \A n \in Checkouts : pc'[n] = IF n = m THEN "classify" ELSE "idle"
        /\ \A n \in Checkouts : send'[n] = IF n = m THEN {} ELSE send[n]
    BY <1>0, <1>1, <2>1 DEF StartPush, TypeOK
  <2>3. \A n \in Checkouts : send'[n] = {}
    BY <1>0, <2>1, <2>2 DEF SendWaits
  <2> QED BY <2>2, <2>3 DEF PushInv, Solo, SendWaits, SendDiffers
<1>2. ASSUME NEW f \in Files, Classify(m, f)
      PROVE  PushInv'
  <2>1. pc[m] = "classify" /\ f \in todo[m] /\ UNCHANGED <<vault, pc, plain>>
    BY <1>2 DEF Classify
  <2>2. Solo'
    BY <1>0, <2>1 DEF Solo
  <2>3. \A n \in Checkouts : n # m => send'[n] = send[n] /\ todo'[n] = todo[n] /\ hash'[n] = hash[n]
    BY <1>0, <1>2 DEF Classify, TypeOK
  <2>4. /\ send'[m] = IF Unchanged(m, f) THEN send[m] ELSE send[m] \cup {f}
        /\ todo'[m] = todo[m] \ {f}
        /\ hash'[m] = [hash[m] EXCEPT ![f] = Source(m, f)]
    BY <1>0, <1>2 DEF Classify, TypeOK
  <2>5. SendWaits'
    BY <1>0, <2>1, <2>3, <2>4 DEF SendWaits
  <2>6. ASSUME NEW g \in Dotenv, g \in send'[m] \ plain'[m]
        PROVE  ~SameText(vault'[g], hash'[m][g])
    <3>0. hash[m] \in [Files -> Contents \cup {None}] /\ g \in Files
      BY <1>0 DEF TypeOK
    <3>1. CASE g = f
      <4>1. f \notin send[m]
        BY <1>0, <2>1 DEF SendWaits
      <4>2. ~Unchanged(m, f)
        BY <2>4, <2>6, <3>1, <4>1
      <4>3. ~SameText(vault[f], Source(m, f))
        BY <2>1, <2>6, <3>1, <4>2 DEF Unchanged
      <4> QED BY <2>1, <2>4, <3>0, <3>1, <4>3
    <3>2. CASE g # f
      <4>1. hash'[m][g] = hash[m][g] /\ g \in send[m]
        BY <2>4, <2>6, <3>0, <3>2
      <4> QED BY <1>0, <2>1, <2>6, <4>1 DEF SendDiffers
    <3> QED BY <3>1, <3>2
  <2>7. SendDiffers'
    BY <1>0, <2>1, <2>3, <2>6 DEF SendDiffers
  <2> QED BY <2>2, <2>5, <2>7 DEF PushInv
<1>3. ASSUME NEW f \in Files, Upload(m, f)
      PROVE  PushInv'
  <2>1. pc[m] = "upload" /\ UNCHANGED <<pc, todo, plain, hash>>
    BY <1>3 DEF Upload
  <2>2. /\ send'[m] = send[m] \ {f}
        /\ \A n \in Checkouts : n # m => send'[n] = send[n]
        /\ \A g \in Files : g # f => vault'[g] = vault[g]
    BY <1>0, <1>3 DEF Upload, TypeOK
  <2>3. Solo' /\ \A n \in Checkouts : n # m => send[n] = {}
    BY <1>0, <2>1 DEF Solo, SendWaits
  <2>4. SendWaits'
    BY <1>0, <2>1, <2>2, <2>3 DEF SendWaits
  <2>5. SendDiffers'
    BY <1>0, <2>1, <2>2, <2>3 DEF SendDiffers
  <2> QED BY <2>3, <2>4, <2>5 DEF PushInv
<1>4. ASSUME NEW f \in Files, ReadBack(m, f)
      PROVE  PushInv'
  <2>1. pc[m] = "delete" /\ pc'[m] \in {"delete", "rehash"} /\ UNCHANGED <<vault, plain, hash, send>>
    BY <1>0, <1>4 DEF ReadBack, TypeOK
  <2>2. \A n \in Checkouts : n # m => pc'[n] = pc[n] /\ todo'[n] = todo[n]
    BY <1>0, <1>4 DEF ReadBack, TypeOK
  <2>3. send[m] = {} /\ Solo'
    BY <1>0, <2>1, <2>2, SoloStep DEF SendWaits
  <2> QED BY <2>1, <2>2, <2>3, OtherPush
<1>5. CASE EndClassify(m)
  <2>1. /\ pc[m] = "classify" /\ pc'[m] = "upload"
        /\ \A n \in Checkouts : n # m => pc'[n] = pc[n]
        /\ UNCHANGED <<vault, todo, plain, hash, send>>
    BY <1>0, <1>5 DEF EndClassify, TypeOK
  <2>2. Solo'
    BY <1>0, <2>1, SoloStep
  <2>3. SendWaits'
    BY <1>0, <2>1 DEF SendWaits
  <2>4. SendDiffers'
    BY <1>0, <2>1 DEF SendDiffers
  <2> QED BY <2>2, <2>3, <2>4 DEF PushInv
<1>6. CASE EndUpload(m)
  <2>1. CASE Exit(m)
    BY <1>6, <2>1, ExitPush DEF EndUpload
  <2>2. CASE ~Exit(m)
    <3>1. /\ pc[m] = "upload" /\ pc'[m] = "delete" /\ send[m] = {}
          /\ \A n \in Checkouts : n # m => pc'[n] = pc[n] /\ todo'[n] = todo[n]
          /\ UNCHANGED <<vault, plain, hash, send>>
      BY <1>0, <1>6, <2>2 DEF EndUpload, TypeOK
    <3>2. Solo'
      BY <1>0, <3>1, SoloStep
    <3> QED BY <3>1, <3>2, OtherPush
  <2> QED BY <2>1, <2>2
<1>7. CASE Rehash(m) \/ DeleteLocal(m)
  <2>1. /\ pc[m] \in {"rehash", "unlink"} /\ pc'[m] \in {"unlink", "delete"}
        /\ \A n \in Checkouts : n # m => pc'[n] = pc[n]
        /\ UNCHANGED <<vault, todo, plain, hash, send>>
    BY <1>0, <1>7 DEF Rehash, DeleteLocal, TypeOK
  <2>2. send[m] = {} /\ Solo'
    BY <1>0, <2>1, SoloStep DEF SendWaits
  <2> QED BY <2>1, <2>2, OtherPush
<1>8. CASE EndDelete(m)
  BY <1>8, ExitPush DEF EndDelete
<1> QED BY <1>1, <1>2, <1>3, <1>4, <1>5, <1>6, <1>7, <1>8 DEF Push

\* A step of pull or verify between its first and its last.
LEMMA RunPush ==
  ASSUME PushInv, TypeOK', NEW m \in Checkouts,
         pc[m] \in {"pull", "copy", "verify"}, pc'[m] \in {"pull", "copy", "verify"},
         \A n \in Checkouts : n # m => pc'[n] = pc[n] /\ todo'[n] = todo[n],
         UNCHANGED <<vault, plain, hash, send>>
  PROVE  PushInv'
<1>1. send[m] = {} /\ Solo'
  BY SoloStep DEF PushInv, SendWaits
<1> QED BY <1>1, OtherPush

\* The start of pull or verify.
LEMMA StartOther ==
  ASSUME "alone" \in Care, PushInv, TypeOK', NEW m \in Checkouts,
         MayStart(m), pc'[m] \in {"pull", "verify"},
         \A n \in Checkouts : n # m => pc'[n] = pc[n] /\ todo'[n] = todo[n],
         UNCHANGED <<vault, plain, hash, send>>
  PROVE  PushInv'
<1>1. \A n \in Checkouts : pc[n] = "idle" /\ send[n] = {}
  BY DEF MayStart, With, PushInv, SendWaits
<1>2. Solo'
  BY <1>1 DEF Solo
<1> QED BY <1>1, <1>2, OtherPush

\* One step of anything preserves the invariant.
LEMMA NextPush ==
  ASSUME "alone" \in Care, PushInv, [Next]_vars
  PROVE  PushInv'
<1>0. TypeOK /\ TypeOK' /\ Solo
  BY NextType DEF PushInv
<1>1. ASSUME NEW m \in Checkouts, Pull(m)
      PROVE  PushInv'
  <2>1. ASSUME NEW force \in BOOLEAN, StartPull(m, force)
        PROVE  PushInv'
    BY <1>0, <2>1, StartOther DEF StartPull, TypeOK, stores
  <2>2. ASSUME NEW f \in Files, PullRead(m, f)
        PROVE  PushInv'
    <3>1. pc[m] = "pull" /\ pc'[m] \in {"pull", "copy"} /\ UNCHANGED <<vault, plain, hash, send>>
      BY <1>0, <2>2 DEF PullRead, TypeOK, stores
    <3>2. \A n \in Checkouts : n # m => pc'[n] = pc[n] /\ todo'[n] = todo[n]
      BY <1>0, <2>2 DEF PullRead, TypeOK
    <3> QED BY <1>0, <3>1, <3>2, RunPush
  <2>3. CASE PullCopy(m)
    BY <1>0, <2>3, RunPush DEF PullCopy, TypeOK, command
  <2>4. CASE EndPull(m)
    BY <1>0, <2>4, ExitPush DEF EndPull, stores
  <2> QED BY <1>1, <2>1, <2>2, <2>3, <2>4 DEF Pull
<1>2. ASSUME NEW m \in Checkouts, Verify(m)
      PROVE  PushInv'
  <2>1. ASSUME NEW only \in SUBSET Files, StartVerify(m, only)
        PROVE  PushInv'
    BY <1>0, <2>1, StartOther DEF StartVerify, TypeOK, stores
  <2>2. ASSUME NEW f \in Files, VerifyRow(m, f)
        PROVE  PushInv'
    BY <1>0, <2>2, RunPush DEF VerifyRow, TypeOK, stores
  <2>3. CASE EndVerify(m)
    BY <1>0, <2>3, ExitPush DEF EndVerify, stores
  <2> QED BY <1>2, <2>1, <2>2, <2>3 DEF Verify
<1>3. ASSUME NEW m \in Checkouts, Operator(m)
      PROVE  PushInv'
  <2>1. UNCHANGED <<vault, pc, todo, plain, hash, send>>
    BY <1>3 DEF Operator, EditPlaintext, EditCiphertext, Publish, TakeMain, command
  <2>2. Solo'
    BY <1>0, <2>1 DEF Solo
  <2> QED BY <1>0, <2>1, <2>2, OtherPush
<1>4. ASSUME NEW m \in Checkouts, Abort(m)
      PROVE  PushInv'
  BY <1>0, <1>4, ExitPush DEF Abort, stores
<1>5. ASSUME NEW f \in Files, DeleteAttachment(f)
      PROVE  PushInv'
  <2>1. UNCHANGED <<pc, todo, plain, hash, send>>
    BY <1>5 DEF DeleteAttachment, command
  <2>2. \A g \in Files : vault'[g] = vault[g] \/ vault'[g] = None
    BY <1>0, <1>5 DEF DeleteAttachment, TypeOK
  <2>3. Solo'
    BY <1>0, <2>1 DEF Solo
  <2> QED BY <1>0, <2>1, <2>2, <2>3, OtherPush
<1>6. CASE UNCHANGED vars
  BY <1>6 DEF vars, stores, PushInv, TypeOK, Solo, SendWaits, SendDiffers
<1> QED BY <1>0, <1>1, <1>2, <1>3, <1>4, <1>5, <1>6, PushPush DEF Next

\* Only an upload puts another content into an attachment.
LEMMA VaultStep ==
  ASSUME TypeOK, Next, NEW f \in Files, vault'[f] # vault[f]
  PROVE  vault'[f] = None \/ \E m \in Checkouts : Upload(m, f)
<1>1. ASSUME NEW m \in Checkouts, NEW g \in Files, Upload(m, g)
      PROVE  Upload(m, f)
  <2>1. g = f
    BY <1>1 DEF Upload, TypeOK
  <2> QED BY <1>1, <2>1
<1>2. ASSUME NEW m \in Checkouts, Push(m)
      PROVE  \E g \in Files : Upload(m, g)
  BY <1>2 DEF Push, StartPush, Classify, EndClassify, EndUpload, ReadBack, Rehash, DeleteLocal,
              EndDelete, stores
<1>3. ASSUME NEW m \in Checkouts, Pull(m) \/ Verify(m) \/ Abort(m) \/ Operator(m)
      PROVE  vault' = vault
  BY <1>3 DEF Pull, StartPull, PullRead, PullCopy, EndPull, Verify, StartVerify, VerifyRow,
              EndVerify, Abort, Operator, EditPlaintext, EditCiphertext, Publish, TakeMain, stores
<1>4. ASSUME NEW g \in Files, DeleteAttachment(g)
      PROVE  vault'[f] = None
  BY <1>4 DEF DeleteAttachment, TypeOK
<1> QED BY <1>1, <1>2, <1>3, <1>4 DEF Next

\* What an upload replaces by the same text comes from a plaintext on disk.
LEMMA UploadKeeps ==
  ASSUME PushInv, NEW m \in Checkouts, NEW f \in Dotenv, Upload(m, f),
         SameText(vault[f], vault'[f])
  PROVE  local[m][f] = vault'[f]
<1>1. vault'[f] = IF f \in plain[m] THEN local[m][f] ELSE hash[m][f]
  BY DEF Upload, PushInv, TypeOK
<1>2. f \in send[m]
  BY DEF Upload
<1>3. f \in plain[m]
  BY <1>1, <1>2 DEF PushInv, SendDiffers
<1> QED BY <1>1, <1>3

\* When commands run one at a time, no push replaces a dotenv attachment by the
\* same text with its blank lines lost: what takes its place is on the disk.
THEOREM PushKeepsPristine == ASSUME "alone" \in Care PROVE Spec => PristineKept
<1>1. PushInv /\ [Next]_vars => PushInv'
  BY NextPush
<1>2. PushInv /\ [Next]_vars
        => [\A f \in Dotenv :
             (SameText(vault[f], vault'[f]) /\ vault'[f] # vault[f])
               => \E m \in Checkouts : local[m][f] = vault'[f]]_vars
  <2> SUFFICES ASSUME PushInv, Next, NEW f \in Dotenv,
                      SameText(vault[f], vault'[f]), vault'[f] # vault[f]
               PROVE  \E m \in Checkouts : local[m][f] = vault'[f]
    BY DEF vars
  <2>1. f \in Files /\ vault'[f] # None
    BY DEF SameText
  <2>2. PICK m \in Checkouts : Upload(m, f)
    BY <2>1, VaultStep DEF PushInv
  <2> QED BY <2>2, UploadKeeps
<1> QED BY InitPush, <1>1, <1>2, PTL DEF Spec, PristineKept
=============================================================================
