------------------------- MODULE SecretManagement -------------------------
(***************************************************************************)
(* The keys that protect stored secrets, and their rotation.  A deployment *)
(* has one active key and some legacy keys; every record names one key,    *)
(* under which all its ciphertexts are read.  A rotation is one transaction *)
(* that rewrites every record named after another key under the active     *)
(* one: at once, or queued for a cooldown, approved by an administrator    *)
(* and run by the scheduler.  A legacy key may go when a review of the     *)
(* live state says that no record names it.  A save that names the record  *)
(* after the active key without sending all its secrets again leaves some  *)
(* of them under another key than the one it names.                        *)
(*                                                                         *)
(* A key stands for a provider with its mode and key version.  Secure      *)
(* storage is configured in every deployment.  A run that fails throws, so *)
(* that its transaction stores nothing, the mark of its failure included:  *)
(* FailedRun leaves the request as it was.                                 *)
(***************************************************************************)
EXTENDS Naturals

CONSTANTS
    Keys,            \* keys a deployment may use
    Records,         \* records with a secret
    None,            \* no request, no review
    OverrideAllowed, \* whether an administrator may skip the cooldown
    CooldownOn,      \* whether a cooldown is configured
    ReauthRequired,  \* whether a sensitive action needs a fresh sign-in
    MaxAsked,        \* bound: rotations started
    MaxDeploys,      \* bound: deployments after the first
    MaxFaults        \* bound: outages of the provider and failed runs

Request == [status: {"PENDING", "BLOCKED", "COMPLETED"}, target: Keys, due: BOOLEAN,
            approved: BOOLEAN, verified: {"NONE", "PASSED", "FAILED"}, asked: Nat]
Retirement == [target: Keys, ready: BOOLEAN, at: Nat]
\* The key a record names, and the keys its ciphertexts are really under.
Stored == [label: Keys, sealed: SUBSET Keys]
\* The request a recovery review was made of: its state, time and verification.
Review == {"BLOCKED", "COMPLETED"} \X Nat \X BOOLEAN

ASSUME SecretAssumption ==
    /\ None \notin Keys /\ None \notin Stored /\ None \notin Request /\ None \notin Retirement
    /\ None \notin Review
    /\ \A b \in {OverrideAllowed, CooldownOn, ReauthRequired} : b \in BOOLEAN
    /\ MaxAsked \in Nat /\ MaxDeploys \in Nat /\ MaxFaults \in Nat

VARIABLES
    rows,       \* the records
    held,       \* a record as a slow transaction read it
    active,     \* the active key of the deployment
    legacy,     \* its legacy keys
    healthy,    \* whether the provider can write
    request,    \* system_secret_reencryption_request, one row
    reviewed,   \* the request the latest recovery review is about
    retirement, \* the latest retirement review
    fresh,      \* whether the administrator signed in again lately
    deploys,    \* deployments after the first
    faults,     \* outages and failed runs so far
    granted,    \* the last approval: the request and the key it was given for
    studied,    \* the time of the request the latest recovery review was made of
    careless,   \* whether a key was dropped without a review that allows it
    spoiled     \* records some save left under another key than they name, or a
                \* slow transaction wrote back over a newer row

secretVars == <<rows, held, active, legacy, healthy, request, reviewed, retirement,
                fresh, deploys, faults, granted, studied, careless, spoiled>>

SecretInit ==
    /\ active \in Keys
    /\ legacy \in SUBSET (Keys \ {active})
    /\ \E names \in [Records -> {active} \cup legacy] :
           rows = [r \in Records |-> [label |-> names[r], sealed |-> {names[r]}]]
    /\ held = [r \in Records |-> None]
    /\ healthy = TRUE
    /\ request = None
    /\ reviewed = None
    /\ retirement = None
    /\ fresh = FALSE
    /\ deploys = 0
    /\ faults = 0
    /\ granted = None
    /\ studied = 0
    /\ careless = FALSE
    /\ spoiled = {}

---------------------------------------------------------------------------
(* The requirements, read from the live state. *)

\* What the server counts: records that name a key it does not have.
Unavailable == {r \in Records : rows[r].label \notin {active} \cup legacy}

\* What is true: the key a record names is there and opens all its secrets.
Readable(r) == r \notin Unavailable /\ rows[r].sealed = {rows[r].label}

IsPending(q) == q # None /\ q.status = "PENDING"

\* A request in trouble needs a recovery review before another one.
RecoveryReviewRequired(q) ==
    q # None /\ (q.status = "BLOCKED" \/ (q.status = "COMPLETED" /\ q.verified # "PASSED"))

\* Fault: the mark of a request is its state without its time.
RequestFingerprintWithoutTime(q) == <<q.status, 0, q.verified = "PASSED">>

\* What a review is recorded for: the state of the request and its times.
RequestFingerprint(q) == <<q.status, q.asked, q.verified = "PASSED">>

RecoveryReviewRecorded ==
    RecoveryReviewRequired(request) => reviewed = RequestFingerprint(request)

\* The blocking requirements of a rotation; only a request made by an
\* administrator's session can be asked for a fresh sign-in.
RequirementsMet(reauthenticate) ==
    /\ healthy
    /\ Unavailable = {}
    /\ RecoveryReviewRecorded
    /\ (reauthenticate /\ ReauthRequired) => fresh

\* Fault: records on other keys that can still be read are no obstacle.
RetirementReadyWhenReadable ==
    /\ healthy
    /\ ~IsPending(request)
    /\ Unavailable = {}
    /\ RecoveryReviewRecorded
    /\ request # None => request.verified # "FAILED"

\* The requirements for dropping the legacy keys.
RetirementReady ==
    /\ healthy
    /\ ~IsPending(request)
    /\ Unavailable = {}
    /\ \A r \in Records : rows[r].label = active
    /\ RecoveryReviewRecorded
    /\ request # None => request.verified # "FAILED"

Drifted == request.target # active

\* The queued request may be approved.
ApprovalReady(q) == IsPending(q) /\ ~q.approved /\ q.due

---------------------------------------------------------------------------
(* Rotation. *)

Rotated(status, verified) ==
    [status |-> status, target |-> active, due |-> status # "PENDING",
     approved |-> FALSE, verified |-> verified,
     asked |-> IF request = None THEN 1 ELSE request.asked + 1]

Renewed == [label |-> active, sealed |-> {active}]

\* Every record that does not name the active key is rewritten, follow-up
\* actions are taken and the outcome is verified; the provider may stop
\* answering in time for the last of it.  A record that names the active key
\* is passed over whatever its secrets are under, and one whose secrets the
\* key it names does not open fails the run, which then changes nothing.
ExecuteReencryption ==
    /\ \A r \in Records : rows[r].label # active => rows[r].sealed = {rows[r].label}
    /\ rows' = [r \in Records |-> IF rows[r].label = active THEN rows[r] ELSE Renewed]
    /\ spoiled' = {r \in spoiled : rows[r].label = active}
    /\ \/ /\ request' = Rotated("COMPLETED", "PASSED")
          /\ UNCHANGED <<healthy, faults>>
       \/ /\ faults < MaxFaults
          /\ faults' = faults + 1
          /\ healthy' = FALSE
          /\ request' = Rotated("COMPLETED", "FAILED")
    /\ UNCHANGED <<held, active, legacy, reviewed, retirement, fresh, deploys, granted, studied, careless>>

ReencryptionAccepted(override) ==
    /\ ~IsPending(request)
    /\ RequirementsMet(TRUE)
    /\ override => OverrideAllowed

\* A request of an administrator: queued for the cooldown, or run at once.
ReencryptAllStoredSecrets(override) ==
    /\ ReencryptionAccepted(override)
    /\ request # None => request.asked < MaxAsked
    /\ \/ /\ ~override /\ CooldownOn
          /\ request' = Rotated("PENDING", "NONE")
          /\ UNCHANGED <<rows, held, active, legacy, healthy, reviewed, retirement,
                         fresh, deploys, faults, granted, studied, careless, spoiled>>
       \/ (override \/ ~CooldownOn) /\ ExecuteReencryption

CooldownEnds ==
    /\ IsPending(request) /\ ~request.due
    /\ request' = [request EXCEPT !.due = TRUE]
    /\ UNCHANGED <<rows, held, active, legacy, healthy, reviewed, retirement, fresh,
                   deploys, faults, granted, studied, careless, spoiled>>

ApprovalAccepted == ApprovalReady(request) /\ ~Drifted /\ RequirementsMet(TRUE)

ApproveQueuedReencryption ==
    /\ ApprovalAccepted
    /\ request' = [request EXCEPT !.approved = TRUE]
    /\ granted' = <<request.asked, active>>
    /\ UNCHANGED <<rows, held, active, legacy, healthy, reviewed, retirement, fresh,
                   deploys, faults, studied, careless, spoiled>>

\* The scheduler finds that the target of a due request is not active any
\* more.
BlockDrifted ==
    /\ IsPending(request) /\ request.due /\ Drifted
    /\ request' = [request EXCEPT !.status = "BLOCKED", !.approved = FALSE, !.verified = "NONE"]
    /\ UNCHANGED <<rows, held, active, legacy, healthy, reviewed, retirement, fresh,
                   deploys, faults, granted, studied, careless, spoiled>>

\* Fault: the scheduler does not look whether the target has drifted.
RunnableWherever ==
    /\ IsPending(request) /\ request.due /\ request.approved
    /\ RequirementsMet(FALSE)

\* What the scheduler runs: a due, approved request for the key that is
\* still active.
Runnable ==
    /\ IsPending(request) /\ request.due /\ ~Drifted /\ request.approved
    /\ RequirementsMet(FALSE)

ExecuteDueReencryption == Runnable /\ ExecuteReencryption

FailedRun ==
    /\ \/ Runnable
       \/ ReencryptionAccepted(TRUE)
       \/ ReencryptionAccepted(FALSE) /\ ~CooldownOn
    /\ faults < MaxFaults
    /\ faults' = faults + 1
    /\ UNCHANGED <<rows, held, active, legacy, healthy, request, reviewed, retirement,
                   fresh, deploys, granted, studied, careless, spoiled>>

---------------------------------------------------------------------------
(* Reviews and the administrator's session. *)

RecordRecoveryReview ==
    /\ RecoveryReviewRequired(request)
    /\ reviewed' = RequestFingerprint(request)
    /\ studied' = request.asked
    /\ UNCHANGED <<rows, held, active, legacy, healthy, request, retirement, fresh,
                   deploys, faults, granted, careless, spoiled>>

\* Recorded whatever the state; the record says whether it was ready.
RecordRetirementReview ==
    /\ retirement' = [target |-> active, ready |-> RetirementReady, at |-> deploys]
    /\ UNCHANGED <<rows, held, active, legacy, healthy, request, reviewed, fresh,
                   deploys, faults, granted, studied, careless, spoiled>>

VerifyReencryptionPassword ==
    /\ fresh' = TRUE
    /\ UNCHANGED <<rows, held, active, legacy, healthy, request, reviewed, retirement,
                   deploys, faults, granted, studied, careless, spoiled>>

ReauthenticationExpires ==
    /\ fresh
    /\ fresh' = FALSE
    /\ UNCHANGED <<rows, held, active, legacy, healthy, request, reviewed, retirement,
                   deploys, faults, granted, studied, careless, spoiled>>

---------------------------------------------------------------------------
(* Other writers, the provider and the operator. *)

\* A setting is saved with all its secrets, or with the ones it does not
\* send decrypted and encrypted anew.
SaveSecret(r) ==
    /\ healthy
    /\ rows' = [rows EXCEPT ![r] = Renewed]
    /\ spoiled' = spoiled \ {r}
    /\ UNCHANGED <<held, active, legacy, healthy, request, reviewed, retirement, fresh,
                   deploys, faults, granted, studied, careless>>

\* A setting is saved with some of its secrets or none (the mode of the
\* deployment, an account's advanced options): the record names the active
\* key, and what was not sent stays as it was.  A service that reads its
\* secrets before it commits fails here, and nothing is stored.
SaveBeside(r) ==
    /\ healthy
    /\ \E sent \in {{}, {active}} :
           rows' = [rows EXCEPT ![r] = [label |-> active, sealed |-> rows[r].sealed \cup sent]]
    /\ spoiled' = IF rows'[r] = Renewed THEN spoiled \ {r} ELSE spoiled \cup {r}
    /\ UNCHANGED <<held, active, legacy, healthy, request, reviewed, retirement, fresh,
                   deploys, faults, granted, studied, careless>>

\* A transaction reads a record, waits for a mail server, changes something
\* else of it and writes the whole row back.
TouchBegin(r) ==
    /\ held[r] = None
    /\ held' = [held EXCEPT ![r] = rows[r]]
    /\ UNCHANGED <<rows, active, legacy, healthy, request, reviewed, retirement, fresh,
                   deploys, faults, granted, studied, careless, spoiled>>

TouchCommit(r) ==
    /\ held[r] # None
    /\ rows' = [rows EXCEPT ![r] = held[r]]
    /\ spoiled' = IF held[r] = rows[r] THEN spoiled ELSE spoiled \cup {r}
    /\ held' = [held EXCEPT ![r] = None]
    /\ UNCHANGED <<active, legacy, healthy, request, reviewed, retirement, fresh,
                   deploys, faults, granted, studied, careless>>

ProviderDown ==
    /\ healthy /\ faults < MaxFaults
    /\ healthy' = FALSE
    /\ faults' = faults + 1
    /\ UNCHANGED <<rows, held, active, legacy, request, reviewed, retirement, fresh,
                   deploys, granted, studied, careless, spoiled>>

ProviderUp ==
    /\ ~healthy
    /\ healthy' = TRUE
    /\ UNCHANGED <<rows, held, active, legacy, request, reviewed, retirement, fresh,
                   deploys, faults, granted, studied, careless, spoiled>>

\* A review made in this deployment, for its active key, found it ready.
RetirementAllowed == retirement # None /\ retirement.ready /\ retirement.at = deploys

\* The server is started with other keys.  Nothing in it refuses a
\* deployment that drops a key: an operator who drops one that no review
\* lets go, or the active key, is careless.
Deploy(key, others) ==
    /\ deploys < MaxDeploys
    /\ deploys' = deploys + 1
    /\ active' = key
    /\ legacy' = others
    /\ careless' = (\/ careless
                    \/ active \notin {key} \cup others
                    \/ ~(legacy \subseteq {key} \cup others) /\ ~RetirementAllowed)
    /\ held' = [r \in Records |-> None]
    /\ UNCHANGED <<rows, healthy, request, reviewed, retirement, fresh, faults, granted,
                   studied, spoiled>>

---------------------------------------------------------------------------
(* What the administrator's calls do, what the scheduler does, what        *)
(* happens beside them, and what takes longer than a visit to a page.      *)

AdminStep ==
    \/ \E override \in BOOLEAN : ReencryptAllStoredSecrets(override)
    \/ ApproveQueuedReencryption
    \/ RecordRecoveryReview
    \/ RecordRetirementReview
    \/ VerifyReencryptionPassword

SchedulerStep == CooldownEnds \/ BlockDrifted \/ ExecuteDueReencryption

WorldStep ==
    \/ FailedRun
    \/ ReauthenticationExpires
    \/ \E r \in Records : SaveSecret(r) \/ SaveBeside(r)
    \/ ProviderDown
    \/ ProviderUp

SlowStep ==
    \/ \E r \in Records : TouchBegin(r) \/ TouchCommit(r)
    \/ \E key \in Keys : \E others \in SUBSET (Keys \ {key}) : Deploy(key, others)

SecretNext == AdminStep \/ SchedulerStep \/ WorldStep \/ SlowStep

SecretSpec == SecretInit /\ [][SecretNext]_secretVars

---------------------------------------------------------------------------
(* Properties. *)

SecretTypeOK ==
    /\ rows \in [Records -> Stored]
    /\ held \in [Records -> Stored \cup {None}]
    /\ active \in Keys
    /\ legacy \subseteq Keys \ {active}
    /\ healthy \in BOOLEAN
    /\ request \in Request \cup {None}
    /\ reviewed \in Review \cup {None}
    /\ retirement \in Retirement \cup {None}
    /\ fresh \in BOOLEAN
    /\ deploys \in Nat /\ faults \in Nat
    /\ granted \in (Nat \X Keys) \cup {None}
    /\ studied \in Nat
    /\ careless \in BOOLEAN
    /\ spoiled \subseteq Records

\* As long as the operator drops a key only when a retirement review of the
\* running deployment was ready, every stored secret can be decrypted: no
\* order of saves, rotations, failures and deployments loses one, but for
\* the records that a save named after a key it did not encrypt them with,
\* or that a transaction wrote back as they were before another's save, and
\* that nothing has encrypted anew since.
SecretsStayReadable == ~careless => \A r \in Records : Readable(r) \/ r \in spoiled

\* The scheduler rewrites the secrets only for an approval that was given
\* to this very request, and under the key that was active when it was
\* given, whatever was deployed in between.
RunsAreAsApproved ==
    [][(/\ IsPending(request)
        /\ request' # request
        /\ request'.status = "COMPLETED") =>
           granted = <<request.asked, active>>]_secretVars

\* A rotation that was blocked, or could not be verified, is followed by
\* another only after a recovery review of it: one for an earlier request
\* that ended the same way does not do.
TroubleIsReviewed ==
    [][(/\ RecoveryReviewRequired(request)
        /\ request'.asked # request.asked) =>
           studied = request.asked]_secretVars

=============================================================================
