--------------------------- MODULE ConsoleSession ---------------------------
(***************************************************************************)
(* Who the web application acts as.  The server keeps the logins; the      *)
(* browser keeps one cookie for its one tab; the page keeps the user       *)
(* it believes is signed in.  The page learns of a change only from the    *)
(* answers to its own calls: every call carries the cookie of the moment   *)
(* it leaves, and an answer is applied whenever it comes.                  *)
(*                                                                         *)
(* Two things are started for one user and finish later: the approval of a *)
(* browser extension's sign-in, which has a page of its own, and the       *)
(* capture of the device's location, which tries again on a timer.         *)
(***************************************************************************)
EXTENDS Naturals, Sequences, FiniteSets

CONSTANTS
    Accounts,     \* accounts
    Nobody,       \* no account
    PasskeyUsers, \* accounts whose password alone does not sign them in
    MaxLogins,    \* bound: logins ever made
    MaxCalls,     \* bound: calls in flight at once
    MaxErrors,    \* bound: wrong passwords, lost answers and failed positions
    MaxVisits,    \* bound: acts of a signed-in user
    Retries       \* the number of AUTO_CAPTURE_RETRY_DELAYS_MS

\* What the constants may be.
ASSUME SessionAssumption ==
    /\ Nobody \notin Accounts
    /\ PasskeyUsers \subseteq Accounts
    /\ MaxLogins \in Nat \ {0} /\ MaxCalls \in Nat /\ MaxErrors \in Nat
    /\ MaxVisits \in Nat /\ Retries \in Nat

VARIABLES
    \* the server
    logins,      \* the owner of each login, in the order they were made
    live,        \* the logins that are neither revoked nor expired
    handoff,     \* the user who completed the extension's sign-in request
    located,     \* whose page recorded a position for each login
    \* the browser
    cookie,      \* the login its cookie names, 0 for none
    \* the page
    asking,      \* whether it was opened with extensionAuthRequest
    session,     \* session
    authLoading, \* authLoading
    loginStage,  \* loginStage
    pending,     \* the pending keys of the session's buttons
    cooling,     \* loginCoolingDown
    approved,    \* approvedExtensionAuthRequest, by its user
    bridge,      \* extensionAuthBridge
    capture,     \* the location capture of each user
    pageCalls,   \* the calls in flight and the prompts that are open
    \* history
    approvals,   \* the users who pressed Approve
    unsettled,   \* whether the last sign-in began beside what was left of another
    stray,       \* whose cookies handoffs then left with
    errors,
    visits

server == <<logins, live, handoff, located>>
signInVars == <<authLoading, loginStage, pending, cooling, unsettled>>
extension == <<asking, approved, approvals, bridge, stray>>
budget == <<errors, visits>>
sessionVars == <<server, cookie, session, signInVars, extension, capture, pageCalls, budget>>

Someone == Accounts \cup {Nobody}
Login == 0 .. MaxLogins
Owner(l) == IF l \in 1 .. Len(logins) THEN logins[l] ELSE Nobody

\* options and prompt: the challenge is asked for, then shown by the browser.
SignInKinds == {"login", "options", "prompt", "verify"}
PanelKinds == {"list", "revoke", "others", "credentials"}
CallKinds == {"me", "logout", "timer", "handoff", "position"} \cup SignInKinds \cup PanelKinds
\* what is the login that is named, or answered with; key the button that is
\* pending; heard says whether the page still waits for the answer.
Call == [kind : CallKinds, as : Login, user : Someone, key : {"", "login", "passkeyLogin"},
         what : Login, reply : {"none", "ok", "401", "400", "passkey", "lost"},
         heard : BOOLEAN]
Idle == [step |-> "idle", tries |-> 0]

SessionTypeOK ==
    /\ logins \in Seq(Accounts) /\ Len(logins) <= MaxLogins
    /\ live \subseteq 1 .. Len(logins)
    /\ handoff \in Someone
    /\ located \in [1 .. MaxLogins -> Someone]
    /\ cookie \in 0 .. Len(logins)
    /\ session \in Someone
    /\ loginStage \in {"username", "credentials"}
    /\ pending \subseteq {"login", "passkeyLogin", "logout"}
    /\ asking \in BOOLEAN /\ authLoading \in BOOLEAN
    /\ cooling \in BOOLEAN
    /\ approved \in Someone
    /\ bridge \in {"idle", "completing", "completed", "error"}
    /\ capture \in [Accounts -> [step : {"idle", "asking", "waiting", "sending", "done"},
                              tries : 0 .. Retries]]
    /\ pageCalls \subseteq Call
    /\ approvals \subseteq Accounts
    /\ unsettled \in BOOLEAN /\ stray \subseteq Someone
    /\ errors \in 0 .. MaxErrors
    /\ visits \in 0 .. MaxVisits

\* A call as it leaves, with the cookie l.
Sent(kind, l, u, key, what) ==
    [kind |-> kind, as |-> l, user |-> u, key |-> key, what |-> what,
     reply |-> "none", heard |-> TRUE]
MeCall(l) == Sent("me", l, Nobody, "", 0)

\* The page has just been opened, with or without a session that still holds.
SessionInit ==
    /\ \E u \in Accounts : logins = <<u>>
    /\ live \in SUBSET {1}
    /\ cookie \in {0, 1}
    /\ handoff = Nobody
    /\ located = [l \in 1 .. MaxLogins |-> Nobody]
    /\ asking \in BOOLEAN
    /\ session = Nobody
    /\ authLoading = TRUE
    /\ loginStage = "username"
    /\ pending = {}
    /\ cooling = FALSE
    /\ approved = Nobody
    /\ bridge = "idle"
    /\ capture = [u \in Accounts |-> Idle]
    /\ pageCalls = {MeCall(cookie)}
    /\ approvals = {}
    /\ unsettled = FALSE /\ stray = {}
    /\ errors = 0
    /\ visits = 0

-----------------------------------------------------------------------------
(***************************************************************************)
(* Calls.                                                                  *)
(***************************************************************************)

\* A call leaves with the cookie of now.
CallOf(kind, u, key, what) == Sent(kind, cookie, u, key, what)
Plain(kind) == CallOf(kind, Nobody, "", 0)

Room == Cardinality({c \in pageCalls : c.kind # "prompt"}) < MaxCalls
Ask(c) == Room /\ c \notin pageCalls /\ pageCalls' = pageCalls \cup {c}

Error == errors < MaxErrors /\ errors' = errors + 1 /\ UNCHANGED visits
Visit == visits < MaxVisits /\ visits' = visits + 1 /\ UNCHANGED errors

\* Something is under way beside the page's first load.
Unsettled ==
    ~authLoading /\ (pageCalls # {} \/ \E u \in Accounts : capture[u].step \notin {"idle", "done"})

\* A handoff leaves with the cookie l.
HandsOff(l) == stray' = IF unsettled THEN stray \cup {Owner(l)} ELSE stray

-----------------------------------------------------------------------------
(***************************************************************************)
(* The page learns, or forgets, its user.                                  *)
(***************************************************************************)

\* The cleanup of the handoff's effect: its answer no longer counts.
Ignored(c) == [c EXCEPT !.heard = FALSE]
Hushed(cs) == {IF c.kind = "handoff" THEN Ignored(c) ELSE c : c \in cs}

CompletesForAnyone(s) == asking /\ s # Nobody /\ approved # Nobody

\* The effect runs for the user who pressed Approve, and for no other.
CompletesFor(s) == asking /\ s # Nobody /\ approved = s

\* setSession(s) while the cookie is l, after the answer c, with the effects
\* that depend on the user: a handoff this user approved is completed, and
\* what the capture of this user's location remembers is reset.
Become(s, l, c) ==
    /\ session' = s
    /\ IF s = session
         THEN pageCalls' = pageCalls \ {c} /\ UNCHANGED <<bridge, capture, stray>>
         ELSE /\ pageCalls' = Hushed(pageCalls \ {c}) \cup
                   (IF CompletesFor(s) THEN {Sent("handoff", l, Nobody, "", 0)} ELSE {})
              /\ bridge' = IF CompletesFor(s) THEN "completing" ELSE bridge
              /\ IF CompletesFor(s) THEN HandsOff(l) ELSE UNCHANGED stray
              /\ capture' = [capture EXCEPT ![s] =
                               IF @.step \in {"waiting", "done"} THEN Idle ELSE @]

\* clearSessionState and onLogoutReset, with the calls cs left: what was
\* approved and a location being captured stay.
Forget(cs) ==
    /\ session' = Nobody
    /\ loginStage' = "username"
    /\ pageCalls' = Hushed(cs)
ClearSessionState(cs) == Forget(cs) /\ UNCHANGED <<extension, capture>>

\* apiErrorText of a 401: whichever session the call was made for.
Expire(c) ==
    /\ c.reply = "401"
    /\ ClearSessionState(pageCalls \ {c})

\* loadSession, when the event stream breaks and after other changes.
LoadSession ==
    /\ session # Nobody
    /\ Visit
    /\ Ask(MeCall(cookie))
    /\ UNCHANGED <<server, cookie, session, signInVars, extension, capture>>

MeAnswered(c) ==
    /\ c.kind = "me"
    /\ authLoading' = FALSE
    /\ \/ /\ c.reply = "ok"
          /\ Become(Owner(c.as), cookie, c)
          /\ UNCHANGED <<loginStage, asking, approved, approvals>>
       \/ Expire(c)
       \/ /\ c.reply = "lost"
          /\ pageCalls' = pageCalls \ {c}
          /\ UNCHANGED <<session, loginStage, extension, capture>>
    /\ UNCHANGED <<server, unsettled, cookie, pending, cooling, budget>>

\* The stream tells the page its own session was revoked.
SessionRevoked ==
    /\ session # Nobody
    /\ cookie \notin live
    /\ ClearSessionState(pageCalls)
    /\ UNCHANGED <<server, unsettled, cookie, authLoading, pending, cooling, budget>>

-----------------------------------------------------------------------------
(***************************************************************************)
(* Signing in and out.                                                     *)
(***************************************************************************)

SignInShownWhileLoading == session = Nobody

\* The page shows nothing until it knows whether somebody is signed in.
SignInShown == session = Nobody /\ ~authLoading

\* The first press of either button only shows the password.
ShowCredentials ==
    /\ SignInShown
    /\ loginStage = "username"
    /\ loginStage' = "credentials"
    /\ UNCHANGED <<server, unsettled, cookie, session, authLoading, pending, cooling,
                   extension, capture, pageCalls, budget>>

\* handleLogin, or handlePasskeyLogin with a password typed.
SubmitLogin(u) ==
    /\ SignInShown
    /\ loginStage = "credentials"
    /\ "login" \notin pending
    /\ ~cooling
    /\ unsettled' = Unsettled
    /\ Ask(CallOf("login", u, "login", 0))
    /\ pending' = pending \cup {"login"}
    /\ UNCHANGED <<server, cookie, session, authLoading, loginStage, cooling,
                   extension, capture, budget>>

\* handlePasskeyLogin without a password.
SubmitPasskey ==
    /\ SignInShown
    /\ loginStage = "credentials"
    /\ "passkeyLogin" \notin pending
    /\ ~cooling
    /\ unsettled' = Unsettled
    /\ Ask(CallOf("options", Nobody, "passkeyLogin", 0))
    /\ pending' = pending \cup {"passkeyLogin"}
    /\ UNCHANGED <<server, cookie, session, authLoading, loginStage, cooling,
                   extension, capture, budget>>

\* The form's finally: the button is free, and a password starts the cooldown.
Finally(c) ==
    /\ pending' = pending \ {c.key}
    /\ cooling' = (cooling \/ c.key = "login")

Challenge(c) ==
    /\ \/ c.kind = "login" /\ c.reply = "passkey"
       \/ c.kind = "options" /\ c.reply = "ok"
    /\ pageCalls' = (pageCalls \ {c}) \cup {CallOf("prompt", c.user, c.key, 0)}
    /\ UNCHANGED <<server, cookie, session, signInVars, extension, capture, budget>>

\* completePasskeyLogin: the browser shows its prompt; the user presents a
\* passkey or gives up.
AnswerPrompt(c) ==
    /\ c.kind = "prompt"
    /\ \/ \E u \in IF c.user = Nobody THEN Accounts ELSE {c.user} :
            pageCalls' = (pageCalls \ {c}) \cup {CallOf("verify", u, c.key, 0)}
          /\ UNCHANGED <<pending, cooling, budget>>
       \/ /\ Error
          /\ pageCalls' = pageCalls \ {c}
          /\ Finally(c)
    /\ UNCHANGED <<server, unsettled, cookie, session, authLoading, loginStage,
                   extension, capture>>

\* A login's answer brings the cookie and the user.
SignedIn(c) ==
    /\ c.kind \in {"login", "verify"}
    /\ c.reply = "ok"
    /\ cookie' = c.what
    /\ Become(Owner(c.what), c.what, c)
    /\ Finally(c)
    /\ UNCHANGED <<server, unsettled, authLoading, loginStage, asking, approved,
                   approvals, budget>>

SignInFailed(c) ==
    /\ c.kind \in SignInKinds
    /\ c.reply \in {"400", "lost"}
    /\ pageCalls' = pageCalls \ {c}
    /\ Finally(c)
    /\ UNCHANGED <<server, unsettled, cookie, session, authLoading, loginStage,
                   extension, capture, budget>>

CoolDown ==
    /\ cooling
    /\ cooling' = FALSE
    /\ UNCHANGED <<server, unsettled, cookie, session, authLoading, loginStage,
                   pending, extension, capture, pageCalls, budget>>

WorkspaceShown == session # Nobody /\ ~asking

HandleLogout ==
    /\ WorkspaceShown
    /\ "logout" \notin pending
    /\ Ask(Plain("logout"))
    /\ pending' = pending \cup {"logout"}
    /\ UNCHANGED <<server, unsettled, cookie, session, authLoading, loginStage,
                   cooling, extension, capture, budget>>

\* Whatever the answer says, the page forgets its user.
LoggedOut(c) ==
    /\ c.kind = "logout"
    /\ pending' = pending \ {"logout"}
    /\ \/ /\ c.reply # "lost"
          /\ ClearSessionState(pageCalls \ {c})
          /\ cookie' = IF c.reply = "ok" THEN 0 ELSE cookie
       \/ /\ c.reply = "lost"
          /\ pageCalls' = pageCalls \ {c}
          /\ UNCHANGED <<cookie, session, loginStage, extension, capture>>
    /\ UNCHANGED <<server, unsettled, authLoading, cooling, budget>>

-----------------------------------------------------------------------------
(***************************************************************************)
(* The logins of the user.                                                 *)
(***************************************************************************)

\* refreshRuntimeState, every refresh interval and at once for a new user; one
\* load of a session at a time.
RefreshActivity ==
    /\ session # Nobody
    /\ \A c \in pageCalls : c.kind = "timer" => c.as # cookie
    /\ Ask(Plain("timer"))
    /\ UNCHANGED <<server, cookie, session, signInVars, extension, capture, budget>>

\* openSecurityPanel and selectSecurityTab of the sessions.
OpenSessions ==
    /\ WorkspaceShown
    /\ Visit
    /\ Ask(Plain("list"))
    /\ UNCHANGED <<server, cookie, session, signInVars, extension, capture>>

\* A login of this user elsewhere, told by the stream: the list is read.
SignInEvent ==
    /\ session # Nobody
    /\ Owner(Len(logins)) = session
    /\ Len(logins) # cookie
    /\ Ask(Plain("list"))
    /\ UNCHANGED <<server, cookie, session, signInVars, extension, capture, budget>>

\* handleRevokeSession and handleRevokeOtherSessions; the panel offers no
\* button for the session itself.
RevokeSession ==
    /\ WorkspaceShown
    /\ Visit
    /\ \/ \E l \in live : l # cookie /\ Owner(l) = session
                          /\ Ask(CallOf("revoke", Nobody, "", l))
       \/ /\ \E l \in live : l # cookie /\ Owner(l) = session
          /\ Ask(Plain("others"))
    /\ UNCHANGED <<server, cookie, session, signInVars, extension, capture>>

\* Changing or removing the password, adding or removing a passkey.
ChangeCredentials ==
    /\ WorkspaceShown
    /\ Visit
    /\ Ask(Plain("credentials"))
    /\ UNCHANGED <<server, cookie, session, signInVars, extension, capture>>

\* loadSessionActivity: the list, and the notice of a new login, change nothing
\* else.
ActivityAnswered(c) ==
    /\ c.kind \in {"timer", "list"}
    /\ \/ /\ c.reply \in {"ok", "lost"}
          /\ pageCalls' = pageCalls \ {c}
          /\ UNCHANGED <<session, loginStage, extension, capture>>
       \/ Expire(c)
    /\ UNCHANGED <<server, unsettled, cookie, authLoading, pending, cooling, budget>>

\* After a revocation the list is read again, after a change of credentials
\* the session.
PanelAnswered(c) ==
    /\ c.kind \in {"revoke", "others", "credentials"}
    /\ \/ /\ c.reply = "ok"
          /\ pageCalls' = (pageCalls \ {c}) \cup
                {IF c.kind = "credentials" THEN MeCall(cookie) ELSE Plain("list")}
          /\ UNCHANGED <<session, loginStage, extension, capture>>
       \/ Expire(c)
       \/ /\ c.reply \in {"400", "lost"}
          /\ pageCalls' = pageCalls \ {c}
          /\ UNCHANGED <<session, loginStage, extension, capture>>
    /\ UNCHANGED <<server, unsettled, cookie, authLoading, pending, cooling, budget>>

-----------------------------------------------------------------------------
(***************************************************************************)
(* The page of an extension's sign-in.                                     *)
(***************************************************************************)

HandoffShown == session # Nobody /\ asking

Approve ==
    /\ HandoffShown
    /\ bridge = "idle"
    /\ approved' = session
    /\ approvals' = approvals \cup {session}
    /\ bridge' = "completing"
    /\ HandsOff(cookie)
    /\ Ask(Plain("handoff"))
    /\ UNCHANGED <<server, cookie, session, signInVars, asking, capture, budget>>

HandoffAnswered(c) ==
    /\ c.kind = "handoff"
    /\ \/ /\ c.reply # "401"
          /\ bridge' = IF ~c.heard THEN bridge
                       ELSE IF c.reply = "ok" THEN "completed" ELSE "error"
          /\ pageCalls' = pageCalls \ {c}
          /\ UNCHANGED <<session, loginStage, asking, approved, approvals, stray,
                         capture>>
       \/ Expire(c)
    /\ UNCHANGED <<server, unsettled, cookie, authLoading, pending, cooling, budget>>

\* Cancel opens the workspace, Retry the same page again.  The answers to the
\* old page's calls go nowhere.
Reopen ==
    /\ HandoffShown
    /\ Visit
    /\ \/ bridge = "idle" /\ asking' = FALSE
       \/ bridge = "error" /\ asking' = TRUE
    /\ session' = Nobody
    /\ authLoading' = TRUE
    /\ loginStage' = "username"
    /\ pending' = {}
    /\ cooling' = FALSE
    /\ approved' = Nobody
    /\ bridge' = "idle"
    /\ capture' = [u \in Accounts |-> Idle]
    /\ pageCalls' = {MeCall(cookie)}
    /\ unsettled' = FALSE
    /\ UNCHANGED <<server, cookie, approvals, stray>>

-----------------------------------------------------------------------------
(***************************************************************************)
(* The device's location.                                                  *)
(***************************************************************************)

Captures(u, step, tries) == capture' = [capture EXCEPT ![u] = [step |-> step, tries |-> tries]]

\* The automatic capture, or the user's own request, while the server has no
\* position for this login.
RequestLocation ==
    /\ session # Nobody
    /\ cookie # 0 => located[cookie] = Nobody
    /\ capture[session].step = "idle"
    /\ Visit
    /\ Captures(session, "asking", 0)
    /\ UNCHANGED <<server, cookie, session, signInVars, extension, pageCalls>>

\* captureLocation posts with whatever cookie the browser has by then.
PositionFound(u) ==
    /\ capture[u].step = "asking"
    /\ Ask(CallOf("position", u, "", 0))
    /\ Captures(u, "sending", capture[u].tries)
    /\ UNCHANGED <<server, cookie, session, signInVars, extension, budget>>

\* A position that is unavailable or late is asked for again after a while.
PositionFailed(u) ==
    /\ capture[u].step = "asking"
    /\ IF capture[u].tries < Retries
         THEN Captures(u, "waiting", capture[u].tries + 1)
         ELSE Captures(u, "done", 0)
    /\ UNCHANGED <<server, cookie, session, signInVars, extension, pageCalls, budget>>

TryAgain(u) ==
    /\ capture[u].step = "waiting"
    /\ Captures(u, "asking", capture[u].tries)
    /\ UNCHANGED <<server, cookie, session, signInVars, extension, pageCalls, budget>>

PositionAnswered(c) ==
    /\ c.kind = "position"
    /\ Captures(c.user, "done", 0)
    /\ IF c.reply = "401"
         THEN Forget(pageCalls \ {c}) /\ UNCHANGED extension
         ELSE pageCalls' = pageCalls \ {c} /\ UNCHANGED <<session, loginStage,
                                                          extension>>
    /\ UNCHANGED <<server, unsettled, cookie, authLoading, pending, cooling, budget>>

-----------------------------------------------------------------------------
(***************************************************************************)
(* The server.                                                             *)
(***************************************************************************)

WithReply(c, r, what) == [c EXCEPT !.reply = r, !.what = what]
Reply(c, r, what) == pageCalls' = (pageCalls \ {c}) \cup {WithReply(c, r, what)}

\* A login for the user, without the cookie: the answer brings it.
CreateSession(u) ==
    /\ Len(logins) < MaxLogins
    /\ logins' = Append(logins, u)
    /\ live' = live \cup {Len(logins) + 1}

\* /api/auth/login and the passkey ceremony need no session.
ServeSignIn(c) ==
    /\ c.kind \in {"login", "options", "verify"}
    /\ \/ /\ c.kind = "options"
          /\ Reply(c, "ok", 0)
          /\ UNCHANGED <<logins, live, errors>>
       \/ /\ c.kind = "login"
          /\ c.user \in PasskeyUsers
          /\ Reply(c, "passkey", 0)
          /\ UNCHANGED <<logins, live, errors>>
       \/ /\ c.kind = "verify" \/ c.user \notin PasskeyUsers
          /\ c.kind # "options"
          /\ CreateSession(c.user)
          /\ Reply(c, "ok", Len(logins) + 1)
          /\ UNCHANGED errors
       \/ /\ errors < MaxErrors
          /\ errors' = errors + 1
          /\ Reply(c, "400", 0)
          /\ UNCHANGED <<logins, live>>
    /\ UNCHANGED <<handoff, located>>

\* What a call does with a session that holds.
ServeRead(c) ==
    /\ c.kind \in {"me", "timer", "list", "credentials"}
    /\ Reply(c, "ok", 0)
    /\ UNCHANGED <<live, handoff, located>>

ServeRevoke(c) ==
    /\ c.kind \in {"logout", "revoke", "others"}
    /\ live' = CASE c.kind = "logout" -> live \ {c.as}
                 [] c.kind = "revoke" -> live \ {c.what}
                 [] OTHER -> {l \in live : l = c.as \/ Owner(l) # Owner(c.as)}
    /\ Reply(c, "ok", c.what)
    /\ UNCHANGED <<handoff, located>>

ServeHandoff(c) ==
    /\ c.kind = "handoff"
    /\ IF handoff \in {Nobody, Owner(c.as)}
         THEN handoff' = Owner(c.as) /\ Reply(c, "ok", 0)
         ELSE UNCHANGED handoff /\ Reply(c, "400", 0)
    /\ UNCHANGED <<live, located>>

ServePosition(c) ==
    /\ c.kind = "position"
    /\ located' = [located EXCEPT ![c.as] = c.user]
    /\ Reply(c, "ok", 0)
    /\ UNCHANGED <<live, handoff>>

\* The filter of every other path: a session that holds, or 401.
ServeSession(c) ==
    /\ c.kind \notin {"login", "options", "verify", "prompt"}
    /\ IF c.as \in live
         THEN ServeRead(c) \/ ServeRevoke(c) \/ ServeHandoff(c) \/ ServePosition(c)
         ELSE Reply(c, "401", 0) /\ UNCHANGED <<live, handoff, located>>
    /\ UNCHANGED <<logins, errors>>

ServeCall(c) ==
    /\ c.reply = "none"
    /\ ServeSignIn(c) \/ ServeSession(c)
    /\ UNCHANGED <<cookie, session, signInVars, extension, capture, visits>>

\* The answer, or the call, is lost.
Lose(c) ==
    /\ c.kind # "prompt"
    /\ c.reply # "lost"
    /\ Error
    /\ Reply(c, "lost", 0)
    /\ UNCHANGED <<server, cookie, session, signInVars, extension, capture>>

Heard(c) ==
    \/ MeAnswered(c) \/ Challenge(c) \/ SignedIn(c) \/ SignInFailed(c) \/ LoggedOut(c)
    \/ ActivityAnswered(c) \/ PanelAnswered(c) \/ HandoffAnswered(c) \/ PositionAnswered(c)

\* Another browser signs in; a session is revoked there, or it expires.
SignInElsewhere(u) ==
    /\ CreateSession(u)
    /\ UNCHANGED <<handoff, located, cookie, session, signInVars, extension, capture,
                   pageCalls, budget>>
EndSession(l) ==
    /\ l \in live
    /\ live' = live \ {l}
    /\ UNCHANGED <<logins, handoff, located, cookie, session, signInVars, extension,
                   capture, pageCalls, budget>>

-----------------------------------------------------------------------------
SessionPageNext ==
    \/ LoadSession \/ SessionRevoked \/ ShowCredentials \/ SubmitPasskey \/ CoolDown
    \/ HandleLogout \/ RefreshActivity \/ OpenSessions \/ SignInEvent \/ RevokeSession
    \/ ChangeCredentials \/ Approve \/ Reopen \/ RequestLocation
    \/ \E u \in Accounts : SubmitLogin(u) \/ PositionFound(u) \/ PositionFailed(u) \/ TryAgain(u)

SessionNext ==
    \/ SessionPageNext
    \/ \E c \in pageCalls : ServeCall(c) \/ Heard(c) \/ Lose(c) \/ AnswerPrompt(c)
    \/ \E u \in Accounts : SignInElsewhere(u)
    \/ \E l \in live : EndSession(l)

SessionSpec == SessionInit /\ [][SessionNext]_sessionVars

-----------------------------------------------------------------------------
\* The calls of the page are made as the user it shows (loadSession, the two
\* sign-ins, logout and every 401): after all of them, in any order, the
\* cookie belongs to the user on the screen; unless the last sign-in began
\* while something of an earlier session was still under way.
ActsAsItsUser == session # Nobody /\ cookie # 0 /\ ~unsettled => Owner(cookie) = session

\* "Approval belongs to this request and user" (App.jsx, the handoff's
\* effect): the extension is signed in as somebody who pressed Approve, or as
\* the owner of the cookie that a page left unsettled by an earlier session
\* completed it with.
HandoffBelongsToApprover == handoff # Nobody => handoff \in approvals \cup stray

=============================================================================
