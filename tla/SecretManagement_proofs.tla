----------------------- MODULE SecretManagement_proofs -----------------------
(* Theorems about SecretManagement and the section of the console that drives *)
(* it, for every set of keys and records, and however often keys are          *)
(* deployed and rotated.                                                      *)
EXTENDS SecretConsole, TLAPS

\* A record that is not spoiled is under the key it names.
Honest(r) == rows[r].sealed = {rows[r].label}
RowsHonest == \A r \in Records : r \notin spoiled => Honest(r)

\* A ready review of the running deployment keeps its word until the next one.
ReviewHolds ==
    retirement # None =>
        /\ retirement.at <= deploys
        /\ (retirement.ready /\ retirement.at = deploys) =>
              \A r \in Records : r \notin spoiled => rows[r].label = active

\* The key of a record that is not spoiled has not been dropped.
KeysKept ==
    ~careless => \A r \in Records : r \notin spoiled => rows[r].label \in {active} \cup legacy

ReadableInv == SecretTypeOK /\ RowsHonest /\ ReviewHolds /\ KeysKept

\* An approved request was approved itself, for its own key.
ApprovalIsItsOwn ==
    (IsPending(request) /\ request.approved) => granted = <<request.asked, request.target>>

\* A review remembers the time of the request it was made of.
ReviewIsDated == reviewed # None => reviewed[2] = studied

HistoryInv == SecretTypeOK /\ ApprovalIsItsOwn /\ ReviewIsDated

-----------------------------------------------------------------------------
(* Types. *)

\* A rotation's request is one, dated after the last.
LEMMA RotatedRequest ==
  ASSUME SecretTypeOK, NEW status \in {"PENDING", "BLOCKED", "COMPLETED"},
         NEW verified \in {"NONE", "PASSED", "FAILED"}
  PROVE  Rotated(status, verified) \in Request
<1>1. request # None => request.asked \in Nat
  BY DEF SecretTypeOK, Request
<1>2. (IF request = None THEN 1 ELSE request.asked + 1) \in Nat
  BY <1>1
<1> QED
  BY <1>2 DEF SecretTypeOK, Rotated, Request

LEMMA ExecuteTypes ==
  ASSUME SecretTypeOK, ExecuteReencryption
  PROVE  SecretTypeOK'
<1>0. Renewed \in Stored
  BY DEF SecretTypeOK, Renewed, Stored
<1>1. rows' \in [Records -> Stored] /\ spoiled' \subseteq Records
  BY <1>0 DEF SecretTypeOK, ExecuteReencryption
<1>2. request' \in Request
  <2>1. request' = Rotated("COMPLETED", "PASSED") \/ request' = Rotated("COMPLETED", "FAILED")
    BY DEF ExecuteReencryption
  <2> QED
    BY <2>1, RotatedRequest
<1>3. healthy' \in BOOLEAN /\ faults' \in Nat
  <2>1. CASE UNCHANGED <<healthy, faults>>
    BY <2>1 DEF SecretTypeOK
  <2>2. CASE healthy' = FALSE /\ faults' = faults + 1
    <3>1. faults' \in Nat
      BY <2>2 DEF SecretTypeOK
    <3>2. healthy' \in BOOLEAN
      BY <2>2
    <3> QED
      BY <3>1, <3>2
  <2> QED
    BY <2>1, <2>2 DEF ExecuteReencryption
<1> QED
  BY <1>1, <1>2, <1>3 DEF SecretTypeOK, ExecuteReencryption

\* The mark of a request in trouble is a mark of a review.
LEMMA FingerprintType ==
  ASSUME NEW q \in Request \cup {None}, RecoveryReviewRequired(q)
  PROVE  RequestFingerprint(q) \in Review
BY DEF RecoveryReviewRequired, RequestFingerprint, Request, Review

\* Every step keeps the types.
LEMMA TypeStep ==
  ASSUME SecretTypeOK, [SecretNext]_secretVars
  PROVE  SecretTypeOK'
<1> USE SecretAssumption DEF SecretTypeOK
<1>1. CASE UNCHANGED secretVars
  BY <1>1 DEF secretVars
<1>2. ASSUME NEW override \in BOOLEAN, ReencryptAllStoredSecrets(override) PROVE SecretTypeOK'
  BY <1>2, ExecuteTypes, RotatedRequest DEF ReencryptAllStoredSecrets
<1>3. CASE ApproveQueuedReencryption
  <2>1. request \in Request
    BY <1>3 DEF ApproveQueuedReencryption, ApprovalAccepted, ApprovalReady, IsPending
  <2> QED
    BY <1>3, <2>1 DEF ApproveQueuedReencryption, Request
<1>4. CASE RecordRecoveryReview
  <2>1. RequestFingerprint(request) \in Review
    BY <1>4, FingerprintType DEF RecordRecoveryReview
  <2>2. request.asked \in Nat
    BY <1>4 DEF RecordRecoveryReview, RecoveryReviewRequired, Request
  <2> QED
    BY <1>4, <2>1, <2>2 DEF RecordRecoveryReview
<1>5. CASE RecordRetirementReview
  <2>1. RetirementReady \in BOOLEAN
    BY DEF RetirementReady
  <2> QED
    BY <1>5, <2>1 DEF RecordRetirementReview, Retirement
<1>6. CASE VerifyReencryptionPassword
  BY <1>6 DEF VerifyReencryptionPassword
<1>7. CASE CooldownEnds \/ BlockDrifted
  <2>1. request \in Request
    BY <1>7 DEF CooldownEnds, BlockDrifted, IsPending
  <2>2. [request EXCEPT !.due = TRUE] \in Request
    BY <2>1 DEF Request
  <2>3. [request EXCEPT !.status = "BLOCKED", !.approved = FALSE, !.verified = "NONE"]
          \in Request
    BY <2>1 DEF Request
  <2>4. request' \in Request
    BY <1>7, <2>2, <2>3 DEF CooldownEnds, BlockDrifted
  <2> QED
    BY <1>7, <2>4 DEF CooldownEnds, BlockDrifted
<1>8. CASE ExecuteDueReencryption
  BY <1>8, ExecuteTypes DEF ExecuteDueReencryption
<1>9. CASE FailedRun
  BY <1>9 DEF FailedRun
<1>10. CASE ReauthenticationExpires \/ ProviderDown \/ ProviderUp
  <2>1. CASE ReauthenticationExpires
    BY <2>1 DEF ReauthenticationExpires
  <2>2. CASE ProviderDown
    <3>1. healthy' = FALSE /\ faults' = faults + 1
      BY <2>2 DEF ProviderDown
    <3>2. healthy' \in BOOLEAN
      BY <3>1
    <3>3. faults' \in Nat
      BY <3>1
    <3> QED
      BY <2>2, <3>2, <3>3 DEF ProviderDown
  <2>3. CASE ProviderUp
    BY <2>3 DEF ProviderUp
  <2> QED
    BY <1>10, <2>1, <2>2, <2>3
<1>11. ASSUME NEW r \in Records,
              SaveSecret(r) \/ SaveBeside(r) \/ TouchBegin(r) \/ TouchCommit(r)
       PROVE  SecretTypeOK'
  <2>1. Renewed \in Stored
    BY DEF Renewed, Stored
  <2>2. CASE SaveSecret(r)
    BY <2>1, <2>2 DEF SaveSecret
  <2>3. CASE SaveBeside(r)
    <3>1. PICK sent \in {{}, {active}} :
             rows' = [rows EXCEPT ![r] = [label |-> active, sealed |-> rows[r].sealed \cup sent]]
      BY <2>3 DEF SaveBeside
    <3>2. [label |-> active, sealed |-> rows[r].sealed \cup sent] \in Stored
      BY <3>1 DEF Stored
    <3>3. spoiled' \subseteq Records
      BY <2>3 DEF SaveBeside
    <3> QED
      BY <2>3, <3>1, <3>2, <3>3 DEF SaveBeside
  <2>4. CASE TouchBegin(r)
    BY <2>4 DEF TouchBegin
  <2>5. CASE TouchCommit(r)
    <3>1. held[r] \in Stored
      BY <2>5 DEF TouchCommit
    <3> QED
      BY <2>5, <3>1 DEF TouchCommit
  <2> QED
    BY <1>11, <2>2, <2>3, <2>4, <2>5
<1>12. ASSUME NEW key \in Keys, NEW others \in SUBSET (Keys \ {key}), Deploy(key, others)
       PROVE  SecretTypeOK'
  <2>1. careless' \in BOOLEAN
    BY <1>12 DEF Deploy
  <2> QED
    BY <1>12, <2>1 DEF Deploy
<1> QED
  BY <1>1, <1>2, <1>3, <1>4, <1>5, <1>6, <1>7, <1>8, <1>9, <1>10, <1>11, <1>12
     DEF SecretNext, AdminStep, SchedulerStep, WorldStep, SlowStep

-----------------------------------------------------------------------------
(* Every secret can be decrypted. *)

\* A rotation puts every record that does not name the active key under it.
LEMMA ExecuteReadable ==
  ASSUME ReadableInv, ExecuteReencryption
  PROVE  RowsHonest' /\ ReviewHolds' /\ KeysKept'
<1>1. /\ \A r \in Records : rows'[r] = IF rows[r].label = active THEN rows[r] ELSE Renewed
      /\ spoiled' = {r \in spoiled : rows[r].label = active}
      /\ UNCHANGED <<held, active, legacy, retirement, deploys, careless>>
  BY DEF ExecuteReencryption
<1>2. \A r \in Records : rows'[r].label = active
  BY <1>1 DEF Renewed
<1>3. ASSUME NEW r \in Records, r \notin spoiled' PROVE rows'[r].sealed = {rows'[r].label}
  <2>1. CASE rows[r].label = active
    <3>1. r \notin spoiled
      BY <1>1, <1>3, <2>1
    <3> QED
      BY <1>1, <2>1, <3>1 DEF ReadableInv, RowsHonest, Honest
  <2>2. CASE rows[r].label # active
    BY <1>1, <2>2 DEF Renewed
  <2> QED
    BY <2>1, <2>2
<1>4. RowsHonest'
  BY <1>3 DEF RowsHonest, Honest
<1>5. ReviewHolds'
  BY <1>1, <1>2 DEF ReadableInv, ReviewHolds
<1>6. KeysKept'
  BY <1>1, <1>2 DEF KeysKept
<1> QED
  BY <1>4, <1>5, <1>6

\* No step takes away a key that a record which is not spoiled still needs.
LEMMA ReadableStep ==
  ASSUME ReadableInv, [SecretNext]_secretVars
  PROVE  RowsHonest' /\ ReviewHolds' /\ KeysKept'
<1> DEFINE Good == RowsHonest' /\ ReviewHolds' /\ KeysKept'
<1>a. ASSUME UNCHANGED <<rows, spoiled, active, legacy, retirement, deploys, careless>>
      PROVE  Good
  BY <1>a DEF ReadableInv, RowsHonest, Honest, ReviewHolds, KeysKept
\* A step that changes one record, and marks it unless it is as it should be.
<1>b. ASSUME NEW r \in Records, NEW row,
             \A s \in Records : rows'[s] = IF s = r THEN row ELSE rows[s],
             \A s \in Records \ {r} : s \in spoiled' <=> s \in spoiled,
             r \in spoiled' \/ row = Renewed \/ (row = rows[r] /\ r \notin spoiled),
             UNCHANGED <<active, legacy, retirement, deploys, careless>>
      PROVE  Good
  <2>1. ASSUME NEW s \in Records, s \notin spoiled'
        PROVE  rows'[s] = Renewed \/ (s \notin spoiled /\ rows'[s] = rows[s])
    BY <1>b, <2>1
  <2>2. RowsHonest'
    BY <1>b, <2>1 DEF ReadableInv, RowsHonest, Honest, Renewed
  <2>3. ReviewHolds'
    BY <1>b, <2>1 DEF ReadableInv, ReviewHolds, Renewed
  <2>4. KeysKept'
    BY <1>b, <2>1 DEF ReadableInv, KeysKept, Renewed
  <2> QED
    BY <2>2, <2>3, <2>4
<1>1. CASE UNCHANGED secretVars
  BY <1>1, <1>a DEF secretVars
<1>2. ASSUME NEW override \in BOOLEAN, ReencryptAllStoredSecrets(override) PROVE Good
  <2>1. CASE ~override /\ CooldownOn
    BY <1>2, <2>1, <1>a DEF ReencryptAllStoredSecrets
  <2>2. CASE ~(~override /\ CooldownOn)
    BY <1>2, <2>2, ExecuteReadable DEF ReencryptAllStoredSecrets
  <2> QED
    BY <2>1, <2>2
<1>3. CASE ExecuteDueReencryption
  BY <1>3, ExecuteReadable DEF ExecuteDueReencryption
<1>4. CASE \/ ApproveQueuedReencryption \/ RecordRecoveryReview
           \/ VerifyReencryptionPassword \/ CooldownEnds \/ BlockDrifted
           \/ FailedRun \/ ReauthenticationExpires \/ ProviderDown \/ ProviderUp
           \/ \E r \in Records : TouchBegin(r)
  BY <1>4, <1>a DEF ApproveQueuedReencryption, RecordRecoveryReview,
     VerifyReencryptionPassword, CooldownEnds, BlockDrifted,
     FailedRun, ReauthenticationExpires, ProviderDown, ProviderUp, TouchBegin
<1>5. CASE RecordRetirementReview
  <2>1. UNCHANGED <<rows, spoiled, active, legacy, deploys, careless>>
    BY <1>5 DEF RecordRetirementReview
  <2>2. retirement'.at = deploys
    BY <1>5 DEF RecordRetirementReview
  <2>3. retirement'.ready => \A r \in Records : rows[r].label = active
    BY <1>5 DEF RecordRetirementReview, RetirementReady
  <2>4. ReviewHolds'
    BY <2>1, <2>2, <2>3 DEF ReviewHolds, ReadableInv, SecretTypeOK
  <2> QED
    BY <2>1, <2>4 DEF ReadableInv, RowsHonest, Honest, KeysKept
<1>6. ASSUME NEW r \in Records, SaveSecret(r) PROVE Good
  <2>1. /\ \A s \in Records : rows'[s] = IF s = r THEN Renewed ELSE rows[s]
        /\ spoiled' = spoiled \ {r}
        /\ UNCHANGED <<active, legacy, retirement, deploys, careless>>
    BY <1>6 DEF SaveSecret, ReadableInv, SecretTypeOK
  <2> QED
    BY <2>1, <1>b
<1>7. ASSUME NEW r \in Records, SaveBeside(r) PROVE Good
  <2>1. PICK row : rows' = [rows EXCEPT ![r] = row]
    BY <1>7 DEF SaveBeside
  <2>2. \A s \in Records : rows'[s] = IF s = r THEN row ELSE rows[s]
    BY <2>1 DEF ReadableInv, SecretTypeOK
  <2>3. /\ spoiled' = IF row = Renewed THEN spoiled \ {r} ELSE spoiled \cup {r}
        /\ UNCHANGED <<active, legacy, retirement, deploys, careless>>
    BY <1>7, <2>2 DEF SaveBeside
  <2> QED
    BY <2>2, <2>3, <1>b
<1>8. ASSUME NEW r \in Records, TouchCommit(r) PROVE Good
  <2>1. /\ \A s \in Records : rows'[s] = IF s = r THEN held[r] ELSE rows[s]
        /\ spoiled' = IF held[r] = rows[r] THEN spoiled ELSE spoiled \cup {r}
        /\ UNCHANGED <<active, legacy, retirement, deploys, careless>>
    BY <1>8 DEF TouchCommit, ReadableInv, SecretTypeOK
  <2> QED
    BY <2>1, <1>b
<1>9. ASSUME NEW key \in Keys, NEW others \in SUBSET (Keys \ {key}), Deploy(key, others)
      PROVE  Good
  <2>1. /\ deploys' = deploys + 1 /\ active' = key /\ legacy' = others
        /\ UNCHANGED <<rows, spoiled, retirement>>
    BY <1>9 DEF Deploy
  <2>2. RowsHonest'
    BY <2>1 DEF ReadableInv, RowsHonest, Honest
  <2>3. ReviewHolds'
    BY <2>1 DEF ReadableInv, ReviewHolds, SecretTypeOK, Retirement
  <2>4. ASSUME ~careless', NEW r \in Records, r \notin spoiled
        PROVE  rows[r].label \in {key} \cup others
    <3>1. /\ ~careless
          /\ active \in {key} \cup others
          /\ (legacy \subseteq {key} \cup others) \/ RetirementAllowed
      BY <1>9, <2>4 DEF Deploy
    <3>2. rows[r].label \in {active} \cup legacy
      BY <3>1, <2>4 DEF ReadableInv, KeysKept
    <3>3. CASE RetirementAllowed
      BY <3>1, <3>3, <2>4 DEF RetirementAllowed, ReadableInv, ReviewHolds
    <3> QED
      BY <3>1, <3>2, <3>3
  <2>5. KeysKept'
    BY <2>1, <2>4 DEF KeysKept
  <2> QED
    BY <2>2, <2>3, <2>5
<1> QED
  BY <1>1, <1>2, <1>3, <1>4, <1>5, <1>6, <1>7, <1>8, <1>9
     DEF SecretNext, AdminStep, SchedulerStep, WorldStep, SlowStep

-----------------------------------------------------------------------------
(* Approvals and reviews are for one request. *)

\* A rotation starts a request that is not approved, and leaves the history alone.
LEMMA ExecuteHistory ==
  ASSUME HistoryInv, ExecuteReencryption
  PROVE  ApprovalIsItsOwn' /\ ReviewIsDated'
<1>1. request'.status = "COMPLETED"
  BY DEF ExecuteReencryption, Rotated
<1>2. UNCHANGED <<reviewed, studied>>
  BY DEF ExecuteReencryption
<1> QED
  BY <1>1, <1>2 DEF HistoryInv, ApprovalIsItsOwn, ReviewIsDated, IsPending

\* A step keeps an approval with its request and a review with its date.
LEMMA HistoryStep ==
  ASSUME HistoryInv, [SecretNext]_secretVars
  PROVE  ApprovalIsItsOwn' /\ ReviewIsDated'
<1> DEFINE Good == ApprovalIsItsOwn' /\ ReviewIsDated'
<1>a. ASSUME UNCHANGED <<request, granted, reviewed, studied>> PROVE Good
  BY <1>a DEF HistoryInv, ApprovalIsItsOwn, ReviewIsDated, IsPending
<1>1. CASE UNCHANGED secretVars
  BY <1>1, <1>a DEF secretVars
<1>2. ASSUME NEW override \in BOOLEAN, ReencryptAllStoredSecrets(override) PROVE Good
  <2>1. CASE ~override /\ CooldownOn
    <3>1. /\ ~request'.approved
          /\ UNCHANGED <<granted, reviewed, studied>>
      BY <1>2, <2>1 DEF ReencryptAllStoredSecrets, Rotated
    <3> QED
      BY <3>1 DEF HistoryInv, ApprovalIsItsOwn, ReviewIsDated
  <2>2. CASE ~(~override /\ CooldownOn)
    BY <1>2, <2>2, ExecuteHistory DEF ReencryptAllStoredSecrets
  <2> QED
    BY <2>1, <2>2
<1>3. CASE ExecuteDueReencryption
  BY <1>3, ExecuteHistory DEF ExecuteDueReencryption
<1>4. CASE ApproveQueuedReencryption
  <2>1. request \in Request /\ request.target = active
    BY <1>4 DEF ApproveQueuedReencryption, ApprovalAccepted, ApprovalReady, IsPending,
       Drifted, HistoryInv, SecretTypeOK
  <2>2. request'.asked = request.asked /\ request'.target = request.target
    BY <1>4, <2>1 DEF ApproveQueuedReencryption, Request
  <2>3. granted' = <<request'.asked, request'.target>>
    BY <1>4, <2>1, <2>2 DEF ApproveQueuedReencryption
  <2>4. UNCHANGED <<reviewed, studied>>
    BY <1>4 DEF ApproveQueuedReencryption
  <2> QED
    BY <2>3, <2>4 DEF HistoryInv, ApprovalIsItsOwn, ReviewIsDated
<1>5. CASE CooldownEnds \/ BlockDrifted
  <2>1. request \in Request
    BY <1>5 DEF CooldownEnds, BlockDrifted, IsPending, HistoryInv, SecretTypeOK
  <2>2. /\ request'.asked = request.asked /\ request'.target = request.target
        /\ request'.approved => request.approved
    BY <1>5, <2>1 DEF CooldownEnds, BlockDrifted, Request
  <2>3. IsPending(request) /\ UNCHANGED <<granted, reviewed, studied>>
    BY <1>5 DEF CooldownEnds, BlockDrifted
  <2> QED
    BY <2>2, <2>3 DEF HistoryInv, ApprovalIsItsOwn, ReviewIsDated
<1>6. CASE RecordRecoveryReview
  <2>1. reviewed'[2] = request.asked /\ studied' = request.asked
    BY <1>6 DEF RecordRecoveryReview, RequestFingerprint
  <2>2. UNCHANGED <<request, granted>>
    BY <1>6 DEF RecordRecoveryReview
  <2> QED
    BY <2>1, <2>2 DEF HistoryInv, ApprovalIsItsOwn, ReviewIsDated, IsPending
<1>7. CASE \/ RecordRetirementReview \/ VerifyReencryptionPassword \/ FailedRun
           \/ ReauthenticationExpires \/ ProviderDown \/ ProviderUp
           \/ \E r \in Records : SaveSecret(r) \/ SaveBeside(r) \/ TouchBegin(r) \/ TouchCommit(r)
           \/ \E key \in Keys : \E others \in SUBSET (Keys \ {key}) : Deploy(key, others)
  BY <1>7, <1>a DEF RecordRetirementReview, VerifyReencryptionPassword, FailedRun,
     ReauthenticationExpires, ProviderDown, ProviderUp, SaveSecret, SaveBeside, TouchBegin, TouchCommit,
     Deploy
<1> QED
  BY <1>1, <1>2, <1>3, <1>4, <1>5, <1>6, <1>7
     DEF SecretNext, AdminStep, SchedulerStep, WorldStep, SlowStep

\* A pending request is completed only by the scheduler, which looks at its
\* approval and its target.
LEMMA CompletionIsApproved ==
  ASSUME HistoryInv, SecretNext, IsPending(request), request' # request,
         request'.status = "COMPLETED"
  PROVE  granted = <<request.asked, active>>
<1>1. request \in Request
  BY DEF HistoryInv, SecretTypeOK, IsPending
<1>2. CASE ExecuteDueReencryption
  BY <1>2 DEF ExecuteDueReencryption, Runnable, Drifted, HistoryInv, ApprovalIsItsOwn
<1>3. ASSUME NEW override \in BOOLEAN, ReencryptAllStoredSecrets(override) PROVE FALSE
  BY <1>3 DEF ReencryptAllStoredSecrets, ReencryptionAccepted
<1>4. ASSUME ApproveQueuedReencryption \/ CooldownEnds \/ BlockDrifted PROVE FALSE
  <2>1. request'.status \in {"PENDING", "BLOCKED"}
    BY <1>1, <1>4 DEF ApproveQueuedReencryption, CooldownEnds, BlockDrifted, IsPending, Request
  <2> QED
    BY <2>1
<1>5. ASSUME \/ RecordRecoveryReview \/ RecordRetirementReview \/ VerifyReencryptionPassword
             \/ FailedRun \/ ReauthenticationExpires \/ ProviderDown \/ ProviderUp
             \/ \E r \in Records : SaveSecret(r) \/ SaveBeside(r) \/ TouchBegin(r) \/ TouchCommit(r)
             \/ \E key \in Keys : \E others \in SUBSET (Keys \ {key}) : Deploy(key, others)
      PROVE  FALSE
  BY <1>5 DEF RecordRecoveryReview, RecordRetirementReview, VerifyReencryptionPassword,
     FailedRun, ReauthenticationExpires, ProviderDown, ProviderUp, SaveSecret, SaveBeside, TouchBegin,
     TouchCommit, Deploy
<1> QED
  BY <1>2, <1>3, <1>4, <1>5 DEF SecretNext, AdminStep, SchedulerStep, WorldStep, SlowStep

\* Only an administrator's request follows one in trouble, and it looks for a
\* review of that one.
LEMMA SuccessorIsReviewed ==
  ASSUME HistoryInv, SecretNext, RecoveryReviewRequired(request),
         request'.asked # request.asked
  PROVE  studied = request.asked
<1>1. request \in Request /\ ~IsPending(request)
  BY DEF HistoryInv, SecretTypeOK, RecoveryReviewRequired, IsPending
<1>2. ASSUME NEW override \in BOOLEAN, ReencryptAllStoredSecrets(override)
      PROVE  studied = request.asked
  <2>1. reviewed = RequestFingerprint(request)
    BY <1>2 DEF ReencryptAllStoredSecrets, ReencryptionAccepted, RequirementsMet,
       RecoveryReviewRecorded
  <2>2. reviewed \in Review
    BY <1>1, <2>1, FingerprintType
  <2>3. reviewed # None
    BY <2>2, SecretAssumption DEF HistoryInv, SecretTypeOK
  <2>4. reviewed[2] = request.asked
    BY <2>1 DEF RequestFingerprint
  <2> QED
    BY <2>3, <2>4 DEF HistoryInv, ReviewIsDated
<1>3. ASSUME ApproveQueuedReencryption \/ CooldownEnds \/ BlockDrifted \/ ExecuteDueReencryption
      PROVE  FALSE
  BY <1>1, <1>3 DEF ApproveQueuedReencryption, ApprovalAccepted, ApprovalReady, CooldownEnds,
     BlockDrifted, ExecuteDueReencryption, Runnable
<1>4. ASSUME \/ RecordRecoveryReview \/ RecordRetirementReview \/ VerifyReencryptionPassword
             \/ FailedRun \/ ReauthenticationExpires \/ ProviderDown \/ ProviderUp
             \/ \E r \in Records : SaveSecret(r) \/ SaveBeside(r) \/ TouchBegin(r) \/ TouchCommit(r)
             \/ \E key \in Keys : \E others \in SUBSET (Keys \ {key}) : Deploy(key, others)
      PROVE  FALSE
  BY <1>4 DEF RecordRecoveryReview, RecordRetirementReview, VerifyReencryptionPassword,
     FailedRun, ReauthenticationExpires, ProviderDown, ProviderUp, SaveSecret, SaveBeside, TouchBegin,
     TouchCommit, Deploy
<1> QED
  BY <1>2, <1>3, <1>4 DEF SecretNext, AdminStep, SchedulerStep, WorldStep, SlowStep

-----------------------------------------------------------------------------
(* The server alone. *)

\* A first deployment that can read its records has not been asked for anything.
LEMMA FirstDeployment ==
  ASSUME SecretInit
  PROVE  ReadableInv /\ HistoryInv
<1> USE SecretAssumption DEF SecretInit
<1>0. PICK names \in [Records -> {active} \cup legacy] :
        rows = [r \in Records |-> [label |-> names[r], sealed |-> {names[r]}]]
  OBVIOUS
<1>a. \A r \in Records : [label |-> names[r], sealed |-> {names[r]}] \in Stored
  BY DEF Stored
<1>b. rows \in [Records -> Stored]
  BY <1>0, <1>a
<1>1. SecretTypeOK
  BY <1>b DEF SecretTypeOK
<1>2. /\ \A r \in Records : rows[r].sealed = {rows[r].label}
      /\ \A r \in Records : rows[r].label \in {active} \cup legacy
  BY DEF SecretInit
<1>3. RowsHonest /\ ReviewHolds /\ KeysKept
  BY <1>2 DEF RowsHonest, Honest, ReviewHolds, KeysKept
<1>4. ApprovalIsItsOwn /\ ReviewIsDated
  BY DEF ApprovalIsItsOwn, ReviewIsDated, IsPending
<1> QED
  BY <1>1, <1>3, <1>4 DEF ReadableInv, HistoryInv

\* The rows, the request, the reviews and the keys keep their shapes.
THEOREM TypeCorrect == SecretSpec => []SecretTypeOK
<1>1. SecretInit => SecretTypeOK
  BY FirstDeployment DEF ReadableInv
<1>2. SecretTypeOK /\ [SecretNext]_secretVars => SecretTypeOK'
  BY TypeStep
<1> QED
  BY <1>1, <1>2, PTL DEF SecretSpec

\* As long as a key is dropped only after a ready retirement review of the
\* running deployment (SecretManagementService's retirement requirements),
\* every stored secret can be decrypted, but in the records that some save
\* named after a key it did not encrypt them with or a transaction wrote back
\* over a newer row, and nothing has encrypted anew since.
THEOREM SecretsAlwaysReadable == SecretSpec => []SecretsStayReadable
<1>1. SecretInit => ReadableInv
  BY FirstDeployment
<1>2. ReadableInv /\ [SecretNext]_secretVars => ReadableInv'
  BY TypeStep, ReadableStep DEF ReadableInv
<1>3. ReadableInv => SecretsStayReadable
  BY DEF ReadableInv, RowsHonest, Honest, KeysKept, SecretsStayReadable, Readable, Unavailable
<1> QED
  BY <1>1, <1>2, <1>3, PTL DEF SecretSpec

\* The types, the approvals and the reviews hold together, whatever overlaps.
LEMMA HistoryAlwaysHolds == SecretSpec => []HistoryInv
<1>1. SecretInit => HistoryInv
  BY FirstDeployment
<1>2. HistoryInv /\ [SecretNext]_secretVars => HistoryInv'
  BY TypeStep, HistoryStep DEF HistoryInv
<1> QED
  BY <1>1, <1>2, PTL DEF SecretSpec

\* A queued rotation is run only for an approval of this very request, under
\* the key that was active when it was given (executeDueReencryption).
THEOREM RunsAlwaysApproved == SecretSpec => RunsAreAsApproved
<1>1. HistoryInv /\ [SecretNext]_secretVars =>
        [(/\ IsPending(request)
          /\ request' # request
          /\ request'.status = "COMPLETED") =>
             granted = <<request.asked, active>>]_secretVars
  BY CompletionIsApproved
<1> QED
  BY <1>1, HistoryAlwaysHolds, PTL DEF SecretSpec, RunsAreAsApproved

\* Another rotation follows one in trouble only after a review of that one
\* (the recovery requirements, and the fingerprint a review is recorded under).
THEOREM TroubleAlwaysReviewed == SecretSpec => TroubleIsReviewed
<1>1. HistoryInv /\ [SecretNext]_secretVars =>
        [(/\ RecoveryReviewRequired(request)
          /\ request'.asked # request.asked) =>
             studied = request.asked]_secretVars
  BY SuccessorIsReviewed
<1> QED
  BY <1>1, HistoryAlwaysHolds, PTL DEF SecretSpec, TroubleIsReviewed

-----------------------------------------------------------------------------
(* The console before the server. *)

\* A step of the section is one of the server's, or none: what the page shows
\* and offers, however old, asks for nothing the server does not know.
LEMMA ConsoleStep ==
  ASSUME [ConsoleNext]_consoleVars
  PROVE  [SecretNext]_secretVars
<1>1. CASE UNCHANGED consoleVars
  BY <1>1 DEF consoleVars
<1>2. CASE DialogStep
  BY <1>2 DEF DialogStep, OpenReencryption, HandleOpenRecoveryGuide, HandleOpenMigrationGuide,
     OpenRetirement, Opens, CloseDialog, Acknowledge, HandleContinueReencryption,
     HandleRetryReencryption, LeadOn
<1>3. CASE LoadStep
  BY <1>3 DEF LoadStep, LoadSecretManagementStatus, ShowLoad, LoseLoad
<1>4. CASE HandleReencryptStoredSecrets
  <2>1. Overrides \subseteq BOOLEAN
    BY DEF Overrides
  <2>2. AdminStep
    BY <1>4, <2>1 DEF HandleReencryptStoredSecrets, AdminStep
  <2> QED
    BY <2>2 DEF SecretNext
<1>5. CASE \/ HandleApproveReencryption \/ HandleVerify \/ HandleRecordRecoveryReview
           \/ HandleRecordRetirementReview
  BY <1>5 DEF HandleApproveReencryption, HandleVerify, HandleRecordRecoveryReview,
     HandleRecordRetirementReview, AdminStep, SecretNext
<1>6. CASE HandleVerifyRetirementCompletion
  BY <1>6 DEF HandleVerifyRetirementCompletion
<1>7. CASE SchedulerStep \/ WorldStep \/ AdminStep \/ SlowStep
  BY <1>7 DEF SecretNext
<1> QED
  BY <1>1, <1>2, <1>3, <1>4, <1>5, <1>6, <1>7 DEF ConsoleNext, CallStep

\* With the console, the server does what it does alone.
THEOREM ConsoleImplementsServer == ConsoleSpec => SecretSpec
<1>1. ConsoleInit => SecretInit
  BY DEF ConsoleInit
<1>2. [ConsoleNext]_consoleVars => [SecretNext]_secretVars
  BY ConsoleStep
<1> QED
  BY <1>1, <1>2, PTL DEF ConsoleSpec, SecretSpec

=============================================================================
