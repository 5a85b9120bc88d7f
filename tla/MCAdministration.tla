--------------------------- MODULE MCAdministration ---------------------------
(* The user management on two accounts, each dialog of settings, a page's  *)
(* sign-ins and the registration, for TLC: a behaviour is about one of     *)
(* them, the part.                                                         *)
EXTENDS ConsoleUsers, ConsoleSettings, ConsoleSession, Registration

CONSTANTS u1, u2, s1, s2

VARIABLE part

all == <<vars, settingsVars, sessionVars, registrationVars, part>>

\* The other administrator turns against the first; in another browser of the
\* first single-user mode is switched on, or an OAuth form saves the other mode.
OthersTurn ==
    {j \in Job : /\ ~j.page
                 /\ \/ j.by = u2 /\ j.of = u1 /\ (j.op = "delete" \/ j.what \in {"demote", "suspend"})
                    \/ j.by = u1 /\ j.of = u1 /\ j.op = "oauth" /\ j.what = "multi"
                    \/ j.by = u1 /\ j.of = u1 /\ j.op = "mode" /\ j.what = "single"}

\* The second account is absent, or is active; or single-user mode has
\* suspended it.
Row1 == [here |-> TRUE, role |-> "ADMIN", active |-> TRUE, approved |-> TRUE,
         byMode |-> FALSE]
ByMode == [Row1 EXCEPT !.active = FALSE, !.byMode = TRUE]

UsersOpen(row) ==
    /\ accounts = [u \in Users |-> IF u = Root THEN Row1 ELSE row]
    /\ override = IF row = ByMode THEN "single" ELSE None
    /\ jobs = {} /\ reading = {}
    /\ knows = Multi /\ options = <<>>
    /\ list = IF Multi THEN accounts ELSE NoList
    /\ selected = None /\ config = NoConfig /\ confirm = None
    /\ calls = {} /\ loads = {} /\ details = {}
    /\ requests = 0 /\ others = 0 /\ faults = 0

MCInit ==
    /\ SettingsInit /\ SessionInit /\ RegistrationInit
    /\ \/ part = "users" /\ \E row \in {Absent, Row1, ByMode} : UsersOpen(row)
       \/ part \in {"settings", "session", "registration"} /\ UsersOpen(Absent)
    /\ part # "settings" => kind = "user"
    /\ logins = <<u1>>
    /\ part # "session" => live = {} /\ cookie = 0 /\ ~asking
    /\ part # "registration" => captcha = "ALTCHA"

OfUsers(A) ==
    part = "users" /\ A /\ UNCHANGED <<settingsVars, sessionVars, registrationVars, part>>
OfSettings(A) ==
    part = "settings" /\ A /\ UNCHANGED <<vars, sessionVars, registrationVars, part>>
OfSession(A) ==
    part = "session" /\ A /\ UNCHANGED <<vars, settingsVars, registrationVars, part>>
OfRegistration(A) ==
    part = "registration" /\ A /\ UNCHANGED <<vars, settingsVars, sessionVars, part>>

MCNext ==
    \/ OfUsers(ConsoleUsersNext) \/ OfSettings(SettingsNext)
    \/ OfSession(SessionNext) \/ OfRegistration(RegistrationNext)

\* Beside what an earlier session left nothing is lost, and the page of an
\* extension's sign-in captures no location.
UnsettledBound ==
    unsettled => errors = 0 /\ (asking => \A u \in Accounts : capture[u] = Idle)

MCSpec == MCInit /\ [][MCNext]_all

=============================================================================
