---------------------------- MODULE Registration ----------------------------
(***************************************************************************)
(* Asking for an account: the dialog of the sign-in page, the CAPTCHA it   *)
(* solves or has solved, and the server's check of it.                     *)
(*                                                                         *)
(* A challenge of the server's own kind (ALTCHA) is signed, expires, and   *)
(* is remembered as used; the solution of a challenge is named like the    *)
(* challenge.  A widget of another provider gives a token of its own.  The *)
(* page is one, and so is the address it calls from.                       *)
(***************************************************************************)
EXTENDS Integers, FiniteSets, Sequences, SequencesExt

CONSTANTS
    NoName,
    Challenges,     \* bound: the challenges that are told apart
    FailureLimit,   \* the failed calls that block the address
    MaxFetches,     \* bound: challenge requests under way at once
    MaxMishaps      \* bound: losses, expiries, resets, closings, new settings

\* What the constants may be.
ASSUME RegistrationAssumption ==
    /\ NoName \notin Challenges
    /\ {FailureLimit, MaxFetches, MaxMishaps} \subseteq Nat /\ FailureLimit > 0

Providers == {"ALTCHA", "TURNSTILE"}
WidgetToken == "widget"

VARIABLES
    captcha,        \* the provider in effect at the server, or "off"
    used, expired,  \* usedCaptchaPayloads, and the challenges past their time
    checked,        \* how often each challenge's solution was let through
    failures, blocked,  \* the state of the address
    dialog,         \* registerOpen
    entry,          \* the name of the form, which is free or taken, and its token
    challenge,      \* registerChallenge, as it is shown
    loading,        \* registerChallengeLoading
    fetches,        \* the requests for a challenge, with their answers
    solves, busy,   \* the solutions under way, the one the dialog waits for
    request,        \* the registration under way, with its answer
    waiting,        \* registerCoolingDown
    script,         \* the provider's script
    mishaps

captchaVars == <<captcha, used, expired, checked, failures, blocked>>
entryVars == <<dialog, entry, challenge, loading, fetches, solves, busy, request, waiting, script>>
registrationVars == <<captchaVars, entryVars, mishaps>>

EmptyForm == [name |-> NoName, token |-> NoName]
Disabled == [provider |-> "off", challenge |-> NoName]
Asked == [provider |-> "asked", challenge |-> NoName]
Fetch(cause) == [cause |-> cause, answer |-> Asked]

InHand == {challenge.challenge, entry.token, request.token} \cup solves
              \cup {fetches[i].answer.challenge : i \in DOMAIN fetches}
NoRequest == [stage |-> "none", name |-> NoName, token |-> NoName]
Replied(stage) == [NoRequest EXCEPT !.stage = stage]

RegistrationInit ==
    /\ captcha \in Providers
    /\ used = {} /\ expired = {} /\ checked = [c \in Challenges |-> 0]
    /\ failures = 0 /\ blocked = FALSE
    /\ dialog = FALSE /\ entry = EmptyForm /\ challenge = Disabled
    /\ loading = FALSE /\ fetches = <<>>
    /\ solves = {} /\ busy = NoName /\ request = NoRequest /\ waiting = FALSE
    /\ script = "none" /\ mishaps = 0

Mishap == mishaps < MaxMishaps /\ mishaps' = mishaps + 1

---------------------------------------------------------------------------
(* The challenge. *)

\* loadRegistrationChallenge begins.
AskChallenge(cause) ==
    /\ loading' = TRUE
    /\ fetches' = Append(fetches, Fetch(cause))

OpenRegisterDialog(name) ==
    /\ ~dialog /\ Len(fetches) < MaxFetches
    /\ dialog' = TRUE
    /\ entry' = [entry EXCEPT !.name = name]
    /\ AskChallenge("dialog")
    /\ UNCHANGED <<captchaVars, challenge, solves, busy, request, waiting, script, mishaps>>

\* What is under way goes on; the field that waits for a solution is gone.
CloseRegisterDialog ==
    /\ dialog /\ Mishap
    /\ dialog' = FALSE /\ challenge' = Disabled /\ entry' = EmptyForm /\ busy' = NoName
    /\ UNCHANGED <<captchaVars, loading, fetches, solves, request, waiting, script>>

\* currentChallenge: a new one, with a name that nothing has any longer.
IssueChallenge(i) ==
    /\ fetches[i].answer = Asked
    /\ \/ /\ captcha # "ALTCHA"
          /\ fetches' = [fetches EXCEPT ![i].answer = [Disabled EXCEPT !.provider = captcha]]
          /\ UNCHANGED <<used, expired, checked>>
       \/ /\ captcha = "ALTCHA"
          /\ Challenges \ InHand # {}
          /\ LET c == CHOOSE other \in Challenges : other \notin InHand IN
                 /\ fetches' = [fetches EXCEPT ![i].answer = [provider |-> captcha, challenge |-> c]]
                 /\ used' = used \ {c} /\ expired' = expired \ {c}
                 /\ checked' = [checked EXCEPT ![c] = 0]
    /\ UNCHANGED <<captcha, failures, blocked, dialog, entry, challenge, loading, solves,
                   busy, request, waiting, script, mishaps>>

\* Whether a challenge that arrives replaces the one that is shown.
Replaces(cause) == TRUE

\* The request of a failed registration keeps that one pending until now.
EndOfLoad(i) ==
    /\ fetches' = RemoveAt(fetches, i)
    /\ loading' = FALSE
    /\ IF fetches[i].cause = "register"
       THEN request' = NoRequest /\ waiting' = TRUE
       ELSE UNCHANGED <<request, waiting>>

ChallengeArrives(i) ==
    /\ fetches[i].answer # Asked
    /\ EndOfLoad(i)
    /\ challenge' = IF Replaces(fetches[i].cause) THEN fetches[i].answer ELSE challenge
    /\ entry' = [entry EXCEPT !.token = NoName]
    /\ UNCHANGED <<captchaVars, dialog, solves, busy, script, mishaps>>

ChallengeIsLost(i) ==
    /\ Mishap
    /\ EndOfLoad(i)
    /\ UNCHANGED <<captchaVars, dialog, entry, challenge, solves, busy, script>>

---------------------------------------------------------------------------
(* Solving it. *)

FieldIsShown(provider) == dialog /\ ~loading /\ challenge.provider = provider

\* handleAltchaSolve; the button waits for its own solution only.
Solve ==
    /\ FieldIsShown("ALTCHA") /\ busy = NoName
    /\ busy' = challenge.challenge
    /\ solves' = solves \cup {challenge.challenge}
    /\ UNCHANGED <<captchaVars, dialog, entry, challenge, loading, fetches, request, waiting, script,
                   mishaps>>

\* solveAltchaChallenge finds a counter; the form takes the solution, whatever
\* the dialog shows by then.
Solved(c) ==
    /\ c \in solves
    /\ solves' = solves \ {c}
    /\ busy' = IF busy = c THEN NoName ELSE busy
    /\ entry' = [entry EXCEPT !.token = c]
    /\ UNCHANGED <<captchaVars, dialog, challenge, loading, fetches, request, waiting, script, mishaps>>

SolvingFails(c) ==
    /\ c \in solves /\ Mishap
    /\ solves' = solves \ {c}
    /\ busy' = IF busy = c THEN NoName ELSE busy
    /\ entry' = [entry EXCEPT !.token = NoName]
    /\ UNCHANGED <<captchaVars, dialog, challenge, loading, fetches, request, waiting, script>>

ResetSolution ==
    /\ FieldIsShown("ALTCHA") /\ entry.token # NoName /\ Mishap
    /\ entry' = [entry EXCEPT !.token = NoName]
    /\ UNCHANGED <<captchaVars, dialog, challenge, loading, fetches, solves, busy, request, waiting,
                   script>>

\* loadScriptOnce: a script that failed to load is waited for, for ever.
LoadScript(outcome) ==
    /\ FieldIsShown("TURNSTILE") /\ script = "none"
    /\ script' = outcome
    /\ IF outcome = "failed" THEN Mishap ELSE UNCHANGED mishaps
    /\ entry' = IF outcome = "failed" THEN [entry EXCEPT !.token = NoName] ELSE entry
    /\ UNCHANGED <<captchaVars, dialog, challenge, loading, fetches, solves, busy, request, waiting>>

WidgetSolved ==
    /\ FieldIsShown("TURNSTILE") /\ script = "loaded" /\ entry.token = NoName
    /\ entry' = [entry EXCEPT !.token = WidgetToken]
    /\ UNCHANGED <<captchaVars, dialog, challenge, loading, fetches, solves, busy, request, waiting,
                   script, mishaps>>

WidgetExpires ==
    /\ FieldIsShown("TURNSTILE") /\ entry.token = WidgetToken /\ Mishap
    /\ entry' = [entry EXCEPT !.token = NoName]
    /\ UNCHANGED <<captchaVars, dialog, challenge, loading, fetches, solves, busy, request, waiting,
                   script>>

---------------------------------------------------------------------------
(* The registration. *)

TakeAnotherName ==
    /\ dialog /\ entry.name # "free"
    /\ entry' = [entry EXCEPT !.name = "free"]
    /\ UNCHANGED <<captchaVars, dialog, challenge, loading, fetches, solves, busy, request, waiting,
                   script, mishaps>>

\* When the dialog lets the user submit.
RegistrationReady ==
    /\ dialog /\ ~loading /\ ~waiting /\ request = NoRequest /\ entry.name # NoName
    /\ challenge.provider # "off" => entry.token # NoName

\* handleRegister begins.
Apply ==
    /\ RegistrationReady
    /\ request' = [stage |-> "sent", name |-> entry.name, token |-> entry.token]
    /\ UNCHANGED <<captchaVars, dialog, entry, challenge, loading, fetches, solves, busy, waiting,
                   script, mishaps>>

\* Fault: the solutions that were used are forgotten at the next check.
ForgetsAll(list, past) == {}

\* purgeUsedAltchaPayloads: what has expired cannot come again.
Purged(list, past) == list \ past

\* validateAndConsume.
Passes(token) ==
    CASE captcha = "off" -> TRUE
      [] captcha = "ALTCHA" -> token \in Challenges \ (Purged(used, expired) \cup expired)
      [] captcha = "TURNSTILE" -> token = WidgetToken
Consume(token) ==
    IF captcha = "ALTCHA" /\ token \in Challenges
    THEN /\ used' = Purged(used, expired) \cup (IF Passes(token) THEN {token} ELSE {})
         /\ checked' = [checked EXCEPT ![token] = @ + (IF Passes(token) THEN 1 ELSE 0)]
    ELSE UNCHANGED <<used, checked>>

\* A failed call counts; the last one blocks the address.
CountFailure ==
    /\ blocked' = (failures + 1 >= FailureLimit)
    /\ failures' = IF failures + 1 >= FailureLimit THEN 0 ELSE failures + 1

\* The solution is used up even if the name turns out to be taken.  The form that
\* still has a name that is given to it now has one that is taken.
Register ==
    /\ request.stage = "sent"
    /\ IF blocked
       THEN /\ request' = Replied("refused")
            /\ UNCHANGED <<used, checked, entry, failures, blocked>>
       ELSE /\ Consume(request.token)
            /\ IF Passes(request.token) /\ request.name = "free"
               THEN /\ request' = Replied("accepted")
                    /\ entry' = IF entry.name = "free" THEN [entry EXCEPT !.name = "taken"] ELSE entry
                    /\ failures' = 0 /\ blocked' = FALSE
               ELSE /\ request' = Replied("refused")
                    /\ CountFailure
                    /\ UNCHANGED entry
    /\ UNCHANGED <<captcha, expired, dialog, challenge, loading, fetches, solves, busy, waiting, script,
                   mishaps>>

\* The dialog of a registration that was accepted goes, even if it is another.
RegisterAccepted ==
    /\ request.stage = "accepted"
    /\ dialog' = FALSE /\ entry' = EmptyForm /\ challenge' = Disabled /\ busy' = NoName
    /\ request' = NoRequest /\ waiting' = TRUE
    /\ UNCHANGED <<captchaVars, loading, fetches, solves, script, mishaps>>

RegisterFails ==
    /\ request.stage # "loading"
    /\ request' = [NoRequest EXCEPT !.stage = "loading"]
    /\ AskChallenge("register")
    /\ UNCHANGED <<captchaVars, dialog, entry, challenge, solves, busy, waiting, script>>

RegisterRefused == request.stage = "refused" /\ RegisterFails /\ UNCHANGED mishaps
RegisterIsLost == request.stage \in {"sent", "accepted"} /\ Mishap /\ RegisterFails

CooldownEnds ==
    /\ waiting /\ waiting' = FALSE
    /\ UNCHANGED <<captchaVars, dialog, entry, challenge, loading, fetches, solves, busy, request, script,
                   mishaps>>

---------------------------------------------------------------------------
(* Time, and the administrators. *)

ChallengeExpires(c) ==
    /\ c \in InHand \ expired /\ c \in Challenges /\ Mishap
    /\ expired' = expired \cup {c}
    /\ UNCHANGED <<captcha, used, checked, failures, blocked, entryVars>>

BlockEnds ==
    /\ blocked /\ blocked' = FALSE
    /\ UNCHANGED <<captcha, used, expired, checked, failures, entryVars, mishaps>>

ChangeCaptcha(provider) ==
    /\ provider # captcha /\ Mishap
    /\ captcha' = provider
    /\ UNCHANGED <<used, expired, checked, failures, blocked, entryVars>>

RegistrationNext ==
    \/ \E name \in {"taken", NoName} : OpenRegisterDialog(name)
    \/ CloseRegisterDialog
    \/ \E i \in DOMAIN fetches : IssueChallenge(i) \/ ChallengeArrives(i) \/ ChallengeIsLost(i)
    \/ Solve \/ \E c \in Challenges : Solved(c) \/ SolvingFails(c) \/ ChallengeExpires(c)
    \/ ResetSolution
    \/ \E outcome \in {"loaded", "failed"} : LoadScript(outcome)
    \/ WidgetSolved \/ WidgetExpires
    \/ TakeAnotherName \/ Apply \/ Register
    \/ RegisterAccepted \/ RegisterRefused \/ RegisterIsLost
    \/ CooldownEnds \/ BlockEnds
    \/ \E provider \in Providers \cup {"off"} : ChangeCaptcha(provider)

RegistrationSpec == RegistrationInit /\ [][RegistrationNext]_registrationVars

---------------------------------------------------------------------------

\* However late solutions arrive and however often they are sent again, the
\* solution of a challenge lets one registration through at most
\* (RegistrationChallengeService.validateAltcha and the list of used challenges).
SolutionsCountOnce == \A c \in Challenges : checked[c] <= 1

=============================================================================
