--------------------------- MODULE SecretConsole ---------------------------
(***************************************************************************)
(* The console's secret management section, beside the server's state.     *)
(* The page shows the status it loaded last: a timer loads it, most calls  *)
(* answer with it, and an answer replaces what is shown however old it is. *)
(* The buttons follow what is shown.                                       *)
(*                                                                         *)
(* The timer's load takes its time, so that its answer may be older than   *)
(* what the page shows; an administrator's call is one step.               *)
(***************************************************************************)
EXTENDS SecretManagement

VARIABLES
    shown,    \* the status the page shows
    dialog,   \* the dialog that is open, and how far the administrator is with it
    load      \* the timer's load of the status, once the server has answered it

pageVars == <<shown, dialog, load>>
consoleVars == <<secretVars, pageVars>>

\* Without the page, the administrator's calls come from elsewhere.
PageOpen == shown # None

\* The status the server computes, as far as the page's buttons read it.
View == [status |-> IF request = None THEN None ELSE request.status,
         trouble |-> RecoveryReviewRequired(request),
         approvalReady |-> ApprovalReady(request),
         requirementsMet |-> RequirementsMet(TRUE), fresh |-> fresh,
         retirementReviewed |-> retirement # None]

ConsoleInit ==
    /\ SecretInit
    /\ shown \in {None, View}
    /\ dialog = "closed"
    /\ load = None

---------------------------------------------------------------------------
(* What the page offers, from the status it shows. *)

\* The session has to sign in again first.
Unverified == ReauthRequired /\ ~shown.fresh

\* The section's own approve button.
CanApproveDirectly ==
    /\ PageOpen /\ shown.approvalReady
    /\ ~Unverified

RecoveryGuideAvailable == PageOpen /\ shown.trouble

\* The request that was submitted: its result in this dialog, or else the
\* last one the server has stored, whatever became of it.
RequestSubmitted == dialog = "submitted" \/ shown.status # None

Overrides == IF OverrideAllowed THEN BOOLEAN ELSE {FALSE}

InReencryption == dialog \in {"open", "acknowledged", "submitted"}
InRecoveryGuide == dialog \in {"recovery", "readyRecovery"}
InRetirement == dialog = "retirement"

\* What the migration guide said when it was opened.
CanContinueToReencryption == dialog = "readyMigration"

\* The dialog's approve button, which leaves a session that is not fresh to
\* the server.
CanApproveInDialog == InReencryption /\ shown.approvalReady

ConfirmDisabled ==
    \/ dialog # "acknowledged"
    \/ ~shown.requirementsMet
    \/ shown.status = "PENDING"
    \/ RequestSubmitted
    \/ Unverified

---------------------------------------------------------------------------
(* The dialogs, one at a time.  The checklist of the re-encryption dialog  *)
(* is ticked anew each time.  A guide keeps what the server answered when  *)
(* it was opened, whatever is reviewed or repaired since, and leads on to  *)
(* the same dialog if it was ready then.                                   *)

Opens(kind) ==
    /\ PageOpen /\ dialog = "closed"
    /\ dialog' = kind
    /\ UNCHANGED <<secretVars, shown, load>>

OpenReencryption == Opens("open")

\* Offered for a request in trouble; the server answers only for one.
HandleOpenRecoveryGuide ==
    /\ RecoveryGuideAvailable
    /\ \/ Opens("recovery")
       \/ RecoveryReviewRequired(request) /\ RequirementsMet(TRUE) /\ Opens("readyRecovery")

\* The guide leads on only for the mode that is active already.
HandleOpenMigrationGuide ==
    \/ Opens("migration")
    \/ RequirementsMet(TRUE) /\ Opens("readyMigration")

OpenRetirement == Opens("retirement")

CloseDialog ==
    /\ dialog # "closed"
    /\ dialog' = "closed"
    /\ UNCHANGED <<secretVars, shown, load>>

LeadOn ==
    /\ dialog' = "open"
    /\ UNCHANGED <<secretVars, shown, load>>

HandleContinueReencryption == CanContinueToReencryption /\ LeadOn

\* Offered beside the review, which it does not wait for.
HandleRetryReencryption == dialog = "readyRecovery" /\ LeadOn

Acknowledge ==
    /\ dialog = "open"
    /\ dialog' = "acknowledged"
    /\ UNCHANGED <<secretVars, shown, load>>

---------------------------------------------------------------------------
(* The administrator's calls: the server does its part, and answers with   *)
(* the status after it or the answer is lost.  A call that the server      *)
(* refuses changes nothing, there or here.                                 *)

ShowAnswer ==
    /\ shown' \in {View', shown}
    /\ UNCHANGED <<dialog, load>>

\* The submission's own answer has its result, and the status is loaded
\* after it, which may fail.  The option to skip the cooldown is one of the
\* dialog's.
HandleReencryptStoredSecrets ==
    /\ ~ConfirmDisabled
    /\ \E override \in Overrides : ReencryptAllStoredSecrets(override)
    /\ \/ shown' \in {View', shown} /\ dialog' = "submitted"
       \/ UNCHANGED <<shown, dialog>>
    /\ UNCHANGED load

HandleApproveReencryption ==
    /\ CanApproveDirectly \/ CanApproveInDialog
    /\ ApproveQueuedReencryption
    /\ ShowAnswer

\* In the dialog, with the password or with a passkey.
HandleVerify ==
    InReencryption /\ Unverified /\ VerifyReencryptionPassword /\ ShowAnswer

HandleRecordRecoveryReview ==
    InRecoveryGuide /\ RecordRecoveryReview /\ ShowAnswer

HandleRecordRetirementReview ==
    InRetirement /\ RecordRetirementReview /\ ShowAnswer

\* The verdict is stored beside the review, where nothing reads it back but
\* the page.
HandleVerifyRetirementCompletion ==
    /\ InRetirement /\ shown.retirementReviewed
    /\ UNCHANGED secretVars
    /\ ShowAnswer

---------------------------------------------------------------------------
(* The timer's load: answered by the server, and shown when the answer     *)
(* arrives, or lost.                                                       *)

LoadSecretManagementStatus ==
    /\ PageOpen /\ load = None
    /\ load' = View
    /\ UNCHANGED <<secretVars, shown, dialog>>

ShowLoad ==
    /\ load # None
    /\ shown' = load
    /\ load' = None
    /\ UNCHANGED <<secretVars, dialog>>

LoseLoad ==
    /\ load # None
    /\ load' = None
    /\ UNCHANGED <<secretVars, shown, dialog>>

---------------------------------------------------------------------------
DialogStep ==
    \/ OpenReencryption \/ HandleOpenRecoveryGuide \/ HandleOpenMigrationGuide
    \/ OpenRetirement \/ CloseDialog \/ Acknowledge
    \/ HandleContinueReencryption \/ HandleRetryReencryption

CallStep ==
    \/ HandleReencryptStoredSecrets \/ HandleApproveReencryption \/ HandleVerify
    \/ HandleRecordRecoveryReview \/ HandleRecordRetirementReview
    \/ HandleVerifyRetirementCompletion

LoadStep == LoadSecretManagementStatus \/ ShowLoad \/ LoseLoad

ConsoleNext ==
    \/ DialogStep
    \/ CallStep
    \/ LoadStep
    \/ /\ SchedulerStep \/ WorldStep \/ (~PageOpen /\ (AdminStep \/ SlowStep))
       /\ UNCHANGED pageVars

ConsoleSpec == ConsoleInit /\ [][ConsoleNext]_consoleVars
=============================================================================
