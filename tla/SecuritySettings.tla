-------------------------- MODULE SecuritySettings --------------------------
(***************************************************************************)
(* The Authentication Security dialog of the admin console                 *)
(* (AuthSecuritySettingsDialog.jsx and its sections, App.jsx) together     *)
(* with the service that stores what it saves                              *)
(* (AuthSecuritySettingsService.java).                                     *)
(*                                                                         *)
(* There is one row of overrides for the installation.  Each administrator *)
(* has a view of it, the form of the dialog, and at most one save or reset *)
(* under way.  The dialog decides from the view and the form which         *)
(* providers may be chosen; the server decides from the row that would     *)
(* result, over the defaults of the environment, whether to keep it.       *)
(* Durations and thresholds are free of such relations and left out; a     *)
(* secret is present or absent.                                            *)
(***************************************************************************)
EXTENDS Integers, FiniteSets

CONSTANTS
    Admins,             \* administrators with the console open
    GeoProviders,       \* Geo-IP providers, TokenProvider among them
    TokenProvider,      \* the provider that needs a token: IPINFO_LITE
    KeyProvider,        \* a CAPTCHA that needs a site key and a secret
    FreeProvider,       \* the CAPTCHA that needs neither: ALTCHA
    EnvPrimary,         \* defaults of the environment: primary provider,
    EnvFallbacks,       \* fallback providers,
    EnvGeo,             \* whether Geo-IP is enabled,
    EnvChallenge,       \* and whether registration asks for a CAPTCHA
    Unset,              \* no override, nothing under way
    MaxEdits, MaxSaves    \* bounds on the model

\* What the constants may be.
ASSUME SecurityAssumption ==
    /\ {TokenProvider, EnvPrimary} \cup EnvFallbacks \subseteq GeoProviders
    /\ KeyProvider # FreeProvider /\ Unset \notin GeoProviders \cup {KeyProvider, FreeProvider}
    /\ {EnvGeo, EnvChallenge} \subseteq BOOLEAN
    /\ {MaxEdits, MaxSaves} \subseteq Nat

VARIABLES
    overrides,    \* the stored overrides
    settings,     \* authSecuritySettings of each administrator
    settingsForm, \* authSecuritySettingsForm
    open,         \* showAuthSecurityDialog
    submitted,    \* a save or reset under way
    txn,          \* a transaction of the server: the row it read, and entered then
    entered,      \* history: secrets an administrator has entered, but for those
                  \* that were reset since or overwritten by a transaction that
                  \* had read the row before
    edits, saves     \* budgets used

securityVars == <<overrides, settings, settingsForm, open, submitted, txn, entered,
                  edits, saves>>

Modes == {"DEFAULT", "ENABLED", "DISABLED"}
Captchas == {KeyProvider, FreeProvider}

\* The overrides.  In a form "secret" and "token" say that one was typed; in
\* the row that one is stored.
Overrides ==
    [challenge : Modes, provider : Captchas \cup {Unset},
     site : BOOLEAN, secret : BOOLEAN,
     geo : Modes, primary : GeoProviders \cup {Unset},
     fallbacks : SUBSET GeoProviders, token : BOOLEAN]

Secrets == {"secret", "token"}

NoOverrides ==
    [challenge |-> "DEFAULT", provider |-> Unset, site |-> FALSE, secret |-> FALSE,
     geo |-> "DEFAULT", primary |-> Unset, fallbacks |-> {}, token |-> FALSE]

SecurityTypeOK ==
    /\ overrides \in Overrides
    /\ settings \in [Admins -> Overrides]
    /\ settingsForm \in [Admins -> Overrides]
    /\ open \in [Admins -> BOOLEAN]
    /\ submitted \in [Admins -> [body : Overrides, reset : BOOLEAN,
                                 state : {"sent", "done", "refused"},
                                 result : Overrides] \cup {Unset}]
    /\ txn \in [Admins -> [row : Overrides, entered : SUBSET Secrets] \cup {Unset}]
    /\ entered \in SUBSET Secrets
    /\ edits \in 0..MaxEdits /\ saves \in 0..MaxSaves

SecurityInit ==
    /\ overrides = NoOverrides
    /\ settings = [a \in Admins |-> NoOverrides]
    /\ settingsForm = [a \in Admins |-> NoOverrides]
    /\ open = [a \in Admins |-> FALSE]
    /\ submitted = [a \in Admins |-> Unset]
    /\ txn = [a \in Admins |-> Unset] /\ entered = {}
    /\ edits = 0 /\ saves = 0

-----------------------------------------------------------------------------
(* What the dialog offers.                                                 *)

\* Secrets are never sent to the browser: the form starts without any.
FormFromSettings(r) == [r EXCEPT !.secret = FALSE, !.token = FALSE]

CaptchaIsSelectable(a, p) ==
    p = KeyProvider => /\ settings[a].secret \/ settingsForm[a].secret
                       /\ settings[a].site \/ settingsForm[a].site

ProviderIsSelectable(a, p) ==
    p = TokenProvider => settings[a].token \/ settingsForm[a].token

CurrentPrimary(a) ==
    IF settingsForm[a].primary = Unset THEN EnvPrimary ELSE settingsForm[a].primary

CanAddFallback(a, p) ==
    /\ p # CurrentPrimary(a)
    /\ p \notin settingsForm[a].fallbacks
    /\ ProviderIsSelectable(a, p)

EditForm(a, edited) ==
    /\ open[a] /\ edited # settingsForm[a]
    /\ edits < MaxEdits
    /\ settingsForm' = [settingsForm EXCEPT ![a] = edited]
    /\ edits' = edits + 1
    /\ UNCHANGED <<overrides, settings, open, submitted, txn, entered, saves>>

ChooseChallengeMode(a) ==
    \E mode \in Modes : EditForm(a, [settingsForm[a] EXCEPT !.challenge = mode])

ChooseCaptcha(a) ==
    \E p \in Captchas \cup {Unset} :
        /\ CaptchaIsSelectable(a, p)
        /\ EditForm(a, [settingsForm[a] EXCEPT !.provider = p])

TypeSiteKey(a) == EditForm(a, [settingsForm[a] EXCEPT !.site = ~@])

TypeSecret(a) == EditForm(a, [settingsForm[a] EXCEPT !.secret = ~@])

ChooseGeoMode(a) ==
    \E mode \in Modes : EditForm(a, [settingsForm[a] EXCEPT !.geo = mode])

\* Choosing a primary takes it out of the fallbacks of the form; the fallbacks
\* of the environment stay as they are.
ChoosePrimary(a) ==
    \E p \in GeoProviders \cup {Unset} :
        /\ ProviderIsSelectable(a, p)
        /\ EditForm(a, [settingsForm[a] EXCEPT !.primary = p, !.fallbacks = @ \ {p}])

AddFallback(a) ==
    \E p \in GeoProviders :
        /\ CanAddFallback(a, p)
        /\ EditForm(a, [settingsForm[a] EXCEPT !.fallbacks = @ \cup {p}])

RemoveFallback(a) ==
    \E p \in settingsForm[a].fallbacks : EditForm(a, [settingsForm[a] EXCEPT !.fallbacks = @ \ {p}])

TypeToken(a) == EditForm(a, [settingsForm[a] EXCEPT !.token = ~@])

OpenSecurityDialog(a) ==
    /\ ~open[a]
    /\ open' = [open EXCEPT ![a] = TRUE]
    /\ UNCHANGED <<overrides, settings, settingsForm, submitted, txn, entered, edits, saves>>

\* The form keeps its edits; the next time the dialog opens they are there.
CloseSecurityDialog(a) ==
    /\ open[a]
    /\ open' = [open EXCEPT ![a] = FALSE]
    /\ UNCHANGED <<overrides, settings, settingsForm, submitted, txn, entered, edits, saves>>

-----------------------------------------------------------------------------
(* Saves, resets and loads.                                                *)

Send(a, body, reset) ==
    /\ open[a] /\ submitted[a] = Unset
    /\ saves < MaxSaves
    /\ submitted' = [submitted EXCEPT ![a] = [body |-> body, reset |-> reset,
                                     state |-> "sent", result |-> NoOverrides]]
    /\ saves' = saves + 1
    /\ UNCHANGED <<overrides, settings, settingsForm, open, txn, entered, edits>>

SaveSettings(a) == Send(a, settingsForm[a], FALSE)

ResetSettings(a) == Send(a, NoOverrides, TRUE)

\* The transaction has read the row; another may commit before it does.
BeginUpdate(a) ==
    /\ submitted[a] # Unset /\ txn[a] = Unset
    /\ submitted[a].state = "sent"
    /\ txn' = [txn EXCEPT ![a] = [row |-> overrides, entered |-> entered]]
    /\ UNCHANGED <<overrides, settings, settingsForm, open, submitted, entered, edits,
                   saves>>

\* A secret that is not sent is kept, an empty one is cleared.

\* Fault: an empty field is taken for an empty secret.
AppliedAsSent(stored, typed, reset) == IF reset THEN FALSE ELSE typed

Applied(stored, typed, reset) == IF reset THEN FALSE ELSE typed \/ stored

Updated(read, body, reset) ==
    [body EXCEPT !.secret = Applied(read.secret, body.secret, reset),
                 !.token = Applied(read.token, body.token, reset)]

Effective(mode, default) == mode = "ENABLED" \/ (mode = "DEFAULT" /\ default)

EffectivePrimary(r) == IF r.primary = Unset THEN EnvPrimary ELSE r.primary

EffectiveFallbacks(r) == IF r.fallbacks = {} THEN EnvFallbacks ELSE r.fallbacks

ValidChallenge(r) ==
    Effective(r.challenge, EnvChallenge) /\ r.provider = KeyProvider
        => r.site /\ r.secret

ValidGeo(r) ==
    Effective(r.geo, EnvGeo) =>
        (TokenProvider \in {EffectivePrimary(r)} \cup EffectiveFallbacks(r) => r.token)

Accepts(read, body, reset) ==
    LET r == Updated(read, body, reset) IN
    /\ EffectivePrimary(r) \notin EffectiveFallbacks(r)
    /\ ValidChallenge(r)
    /\ ValidGeo(r)

\* The whole row is written, and the answer is the view of it.
CommitUpdate(a) ==
    /\ txn[a] # Unset
    /\ LET sent == submitted[a] IN
       IF Accepts(txn[a].row, sent.body, sent.reset)
       THEN /\ overrides' = Updated(txn[a].row, sent.body, sent.reset)
            /\ entered' = IF sent.reset THEN {}
                          ELSE {s \in Secrets : sent.body[s]}
                                   \cup (entered \cap txn[a].entered)
            /\ submitted' = [submitted EXCEPT ![a].state = "done", ![a].result = overrides']
       ELSE /\ submitted' = [submitted EXCEPT ![a].state = "refused"]
            /\ UNCHANGED <<overrides, entered>>
    /\ txn' = [txn EXCEPT ![a] = Unset]
    /\ UNCHANGED <<settings, settingsForm, open, edits, saves>>

SettingsSaved(a) ==
    /\ submitted[a] # Unset
    /\ submitted[a].state = "done"
    /\ settings' = [settings EXCEPT ![a] = submitted[a].result]
    /\ settingsForm' = [settingsForm EXCEPT ![a] =
                           IF submitted[a].reset THEN NoOverrides
                           ELSE FormFromSettings(submitted[a].result)]
    /\ open' = [open EXCEPT ![a] = @ /\ submitted[a].reset]
    /\ submitted' = [submitted EXCEPT ![a] = Unset]
    /\ UNCHANGED <<overrides, txn, entered, edits, saves>>

SaveRefused(a) ==
    /\ submitted[a] # Unset
    /\ submitted[a].state = "refused"
    /\ submitted' = [submitted EXCEPT ![a] = Unset]
    /\ UNCHANGED <<overrides, settings, settingsForm, open, txn, entered, edits, saves>>

\* loadAppData brings the view and the form up to date, edited or not; loads
\* that overlap are the subject of ConsoleSettings.
LoadSettings(a) ==
    /\ settings[a] # overrides \/ settingsForm[a] # FormFromSettings(overrides)
    /\ settings' = [settings EXCEPT ![a] = overrides]
    /\ settingsForm' = [settingsForm EXCEPT ![a] = FormFromSettings(overrides)]
    /\ UNCHANGED <<overrides, open, submitted, txn, entered, edits, saves>>

SecurityNext ==
    \E a \in Admins :
        \/ ChooseChallengeMode(a) \/ ChooseCaptcha(a) \/ TypeSiteKey(a) \/ TypeSecret(a)
        \/ ChooseGeoMode(a) \/ ChoosePrimary(a) \/ AddFallback(a) \/ RemoveFallback(a)
        \/ TypeToken(a) \/ OpenSecurityDialog(a) \/ CloseSecurityDialog(a)
        \/ SaveSettings(a) \/ ResetSettings(a) \/ BeginUpdate(a) \/ CommitUpdate(a)
        \/ SettingsSaved(a) \/ SaveRefused(a) \/ LoadSettings(a)

SecuritySpec == SecurityInit /\ [][SecurityNext]_securityVars

-----------------------------------------------------------------------------
(* Properties.                                                             *)

\* A secret that was entered stays until somebody resets the settings, however
\* old the form of a later save is: no form holds it, and a field left empty
\* does not clear it.  It is lost otherwise only to a save that had read the row
\* before it was entered and writes it afterwards
\* (AuthSecuritySettingsService.applySecret, App.authSecurityFormFromSettings).
EnteredSecretsStay == \A s \in entered : overrides[s]


=============================================================================
