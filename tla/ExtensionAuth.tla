--------------------------- MODULE ExtensionAuth ---------------------------
(***************************************************************************)
(* The sign-in of the browser extension: one encrypted bundle of tokens in *)
(* the extension's storage, which every context of the extension (the      *)
(* background worker, the popup, the options page) loads, rotates, writes  *)
(* back and clears, and the server's session row, whose access and refresh *)
(* tokens a refresh replaces.                                              *)
(*                                                                         *)
(* A flow is one asynchronous call in some context: its steps are what it  *)
(* does between two awaits, so the steps of all flows interleave.  A token *)
(* stands for the access and refresh tokens issued together.  Preferences  *)
(* share the stored record with the tokens; only the tokens are modelled,  *)
(* but every write of the whole record is.                                 *)
(***************************************************************************)
EXTENDS Naturals, FiniteSets

CONSTANTS
    Flows,        \* asynchronous calls of the extension's contexts
    Kinds,        \* the calls that are made, see AllKinds
    MaxSessions,  \* bound: sign-ins the server makes
    MaxTokens,    \* bound: tokens issued for one session
    MaxChecks     \* re-reads of the storage after a rejected refresh

AllKinds == {"badge", "menuPoll", "popup", "popupPoll", "identity", "test",
             "signIn", "signOut", "prefs"}

ASSUME FlowsAssumption == IsFiniteSet(Flows)
ASSUME KindsAssumption == Kinds \subseteq AllKinds
ASSUME BoundsAssumption ==
    /\ MaxSessions \in Nat \ {0}
    /\ MaxTokens \in Nat \ {0}
    /\ MaxChecks \in Nat \ {0}

VARIABLES
    stored,   \* the tokens in the extension's storage
    row,      \* the server's row of each session
    issued,   \* how many tokens each session has been given
    aged,     \* tokens whose access part is within a minute of expiring
    stray,    \* refresh requests whose caller has stopped waiting
    crossed,  \* the tokens before and after a rotation that authenticate undid
    flow      \* what each flow is doing

vars == <<stored, row, issued, aged, stray, crossed, flow>>

Sessions == 1 .. MaxSessions
Token    == [s : Sessions, n : 1 .. MaxTokens]
NoToken  == [s |-> 0, n |-> 0]
Unseen   == [s |-> 0, n |-> 1]
MaybeToken == Token \cup {NoToken}

Row == [state : {"none", "active", "ended"}, n : 0 .. MaxTokens]

\* Flows that look at refreshFailed before they give a sign-in up, flows that
\* start over with a recovered sign-in, and flows that save the user's
\* preferences after a good status.
Careful    == {"badge", "identity"}
Restarting == {"badge", "menuPoll"}
SavesUser  == {"badge", "popup", "identity", "test"}

Steps == {"idle", "load", "refresh", "save", "check", "drop", "use", "clear",
          "prefsGet", "prefsSet", "saveHeld", "login", "handoff"}
Calls == {"none", "sent", "locked", "rotated", "rejected", "authenticating",
          "pending", "approved"}

Flow == [pc : Steps, kind : AllKinds, held : MaybeToken, base : MaybeToken,
         got : MaybeToken, failed : BOOLEAN, again : BOOLEAN,
         tries : 0 .. MaxChecks, call : Calls, seen : Row,
         saw : MaybeToken \cup {Unseen}]

NoRow == [state |-> "none", n |-> 0]

At(k, step) ==
    [pc |-> step, kind |-> k, held |-> NoToken, base |-> NoToken,
     got |-> NoToken, failed |-> FALSE, again |-> FALSE, tries |-> 0,
     call |-> "none", seen |-> NoRow, saw |-> Unseen]

Idle == At("prefs", "idle")

TypeOK ==
    /\ stored \in MaybeToken
    /\ row \in [Sessions -> Row]
    /\ issued \in [Sessions -> 0 .. MaxTokens]
    /\ aged \subseteq Token
    /\ stray \subseteq Token
    /\ crossed \subseteq [s : Sessions, n : 0 .. MaxTokens]
    /\ flow \in [Flows -> Flow]

Init ==
    /\ stored = NoToken
    /\ row = [s \in Sessions |-> NoRow]
    /\ issued = [s \in Sessions |-> 0]
    /\ aged = {}
    /\ stray = {}
    /\ crossed = {}
    /\ flow = [f \in Flows |-> Idle]

-----------------------------------------------------------------------------
(***************************************************************************)
(* The server's row: authenticate and refresh find it by the token's hash. *)
(***************************************************************************)
Live(t) == /\ t \in Token
           /\ row[t.s] = [state |-> "active", n |-> t.n]

UnlockedRead(s) == FALSE
Locked(s) == \E f \in Flows : flow[f].call = "locked" /\ flow[f].held.s = s

Become(f, step) == flow' = [flow EXCEPT ![f] = step]
Ends(f) == Become(f, Idle)

\* A session that signs in: loginExtension, or the redeemed browser handoff.
NewSession(s) ==
    /\ row[s].state = "none"
    /\ row' = [row EXCEPT ![s] = [state |-> "active", n |-> 1]]
    /\ issued' = [issued EXCEPT ![s] = 1]

NextToken(s) == [s |-> s, n |-> issued[s] + 1]

\* rotateSessionTokens puts fresh hashes into the row: the old tokens match
\* no row any more.
Rotates(s) ==
    /\ row' = [row EXCEPT ![s].n = issued[s] + 1]
    /\ issued' = [issued EXCEPT ![s] = @ + 1]

-----------------------------------------------------------------------------
(***************************************************************************)
(* loadConfig.                                                             *)
(***************************************************************************)

\* A flow about to clear the sign-in because the server rejected t, having
\* seen the storage hold `saw` since then.
Clears(me, t, saw) == [At(me.kind, "clear") EXCEPT !.base = t, !.saw = saw]

\* What a loaded sign-in is used for: the first request, or the request after
\* recoverRotatedConfig has compared it with the one that was rejected.
Loaded(f, t, failed) ==
    LET me == flow[f]
        use == [At(me.kind, "use") EXCEPT !.held = t, !.failed = failed]
    IN  IF me.base = NoToken THEN use
        ELSE IF t = me.base THEN Clears(me, t, t)
        ELSE IF me.kind \in Restarting THEN At(me.kind, "load")
        ELSE IF me.kind = "popupPoll" THEN Idle
        ELSE [use EXCEPT !.again = TRUE, !.saw = t]

\* A load that finds no sign-in ends the call, or the recovery.
SignedOut(f) ==
    IF flow[f].base = NoToken THEN Idle ELSE Clears(flow[f], flow[f].base, NoToken)

LoadConfig(f) ==
    /\ flow[f].pc = "load"
    /\ \/ /\ stored = NoToken
          /\ Become(f, SignedOut(f))
       \/ /\ stored # NoToken
          /\ stored \notin aged
          /\ Become(f, Loaded(f, stored, FALSE))
       \/ /\ stored \in aged
          /\ Become(f, [flow[f] EXCEPT !.pc = "refresh", !.held = stored,
                                       !.call = "sent"])
    /\ UNCHANGED <<stored, row, issued, aged, stray, crossed>>

\* ExtensionSessionService.refresh: findByRefreshTokenHashForUpdate locks the
\* row it matches, and a request that meets a locked row waits for it.
FindForUpdate(f) ==
    LET t == flow[f].held
    IN  /\ flow[f].call = "sent"
        /\ IF Live(t)
           THEN /\ ~Locked(t.s)
                /\ issued[t.s] < MaxTokens
                /\ Become(f, [flow[f] EXCEPT !.call = "locked"])
           ELSE Become(f, [flow[f] EXCEPT !.call = "rejected"])
        /\ UNCHANGED <<stored, row, issued, aged, stray, crossed>>

\* The commit: the answer carries the new tokens.
RotateSessionTokens(f) ==
    LET s == flow[f].held.s
    IN  /\ flow[f].call = "locked"
        /\ Rotates(s)
        /\ Become(f, [flow[f] EXCEPT !.call = "rotated", !.got = NextToken(s)])
        /\ UNCHANGED <<stored, aged, stray, crossed>>

RefreshAnswered(f) ==
    /\ flow[f].call \in {"rotated", "rejected"}
    /\ Become(f, [flow[f] EXCEPT
                    !.pc   = IF flow[f].call = "rotated" THEN "save" ELSE "check",
                    !.held = IF flow[f].call = "rotated" THEN flow[f].got ELSE @,
                    !.got  = NoToken,
                    !.call = "none"])
    /\ UNCHANGED <<stored, row, issued, aged, stray, crossed>>

\* saveConfig of the rotated sign-in.
SaveRotated(f) ==
    /\ flow[f].pc = "save"
    /\ stored' = flow[f].held
    /\ Become(f, Loaded(f, flow[f].held, FALSE))
    /\ UNCHANGED <<row, issued, aged, stray, crossed>>

\* No answer in ten seconds, or an answer that is lost: the old sign-in is
\* kept and marked refreshFailed.  The request may still reach the server.
RefreshUnanswered(f) ==
    /\ \/ /\ flow[f].call = "sent"
          /\ stray' \in {stray, stray \cup {flow[f].held}}
       \/ /\ flow[f].call \in {"rotated", "rejected"}
          /\ stray' = stray
    /\ Become(f, Loaded(f, flow[f].held, TRUE))
    /\ UNCHANGED <<stored, row, issued, aged, crossed>>

\* The server works off a request nobody waits for.
RefreshStray(t) ==
    /\ t \in stray
    /\ stray' = stray \ {t}
    /\ IF Live(t) /\ issued[t.s] < MaxTokens
       THEN /\ ~Locked(t.s)
            /\ Rotates(t.s)
       ELSE UNCHANGED <<row, issued>>
    /\ UNCHANGED <<stored, aged, crossed, flow>>

\* waitForRotatedRefreshToken: looks for a sign-in another context has stored,
\* and storageSet of the record without its tokens when none turns up.
ChecksLeft(f) == flow[f].tries < MaxChecks

Checked(f) == [flow[f] EXCEPT !.tries = @ + 1, !.saw = stored]

\* Fault: a rejected refresh is not followed by a look at the storage.
DropAtOnce(f) ==
    /\ flow[f].pc = "check"
    /\ Become(f, [flow[f] EXCEPT !.pc = "drop", !.tries = 0])
    /\ UNCHANGED <<stored, row, issued, aged, stray, crossed>>

WaitForRotated(f) ==
    /\ flow[f].pc = "check"
    /\ IF stored \notin {NoToken, flow[f].held}
       THEN Become(f, Loaded(f, stored, FALSE))
       ELSE IF ChecksLeft(f) THEN Become(f, Checked(f))
       ELSE Become(f, [flow[f] EXCEPT !.pc = "drop", !.tries = 0, !.saw = stored])
    /\ UNCHANGED <<stored, row, issued, aged, stray, crossed>>

DropConfig(f) ==
    /\ flow[f].pc = "drop"
    /\ stored' = NoToken
    /\ Become(f, SignedOut(f))
    /\ UNCHANGED <<row, issued, aged, stray, crossed>>

-----------------------------------------------------------------------------
(***************************************************************************)
(* The request the sign-in was loaded for: fetchStatus or runPoll.         *)
(***************************************************************************)

\* authenticate finds the row of a token that has not run out ...
AuthenticateRead(f) ==
    LET t == flow[f].held
    IN  /\ flow[f].pc = "use"
        /\ flow[f].call = "none"
        /\ Live(t)
        /\ Become(f, [flow[f] EXCEPT !.call = "authenticating",
                                     !.seen = row[t.s]])
        /\ UNCHANGED <<stored, row, issued, aged, stray, crossed>>

\* ... and its transaction writes lastUsedAt, with every other column of the
\* row as it was read.  Then the request is answered.
AuthenticateCommit(f) ==
    LET s == flow[f].held.s
    IN  /\ flow[f].call = "authenticating"
        /\ ~Locked(s)
        /\ row' = [row EXCEPT ![s] = flow[f].seen]
        /\ crossed' = IF flow[f].seen = row[s] THEN crossed
                      ELSE crossed \cup {[s |-> s, n |-> flow[f].seen.n],
                                         [s |-> s, n |-> row[s].n]}
        /\ Become(f, IF flow[f].kind \notin SavesUser THEN Idle
                     ELSE IF flow[f].kind = "identity"
                     THEN [At("identity", "prefsGet") EXCEPT !.held = flow[f].held]
                     ELSE At("prefs", "prefsGet"))
        /\ UNCHANGED <<stored, issued, aged, stray>>

\* A 401.  The careful flows keep a sign-in whose refresh failed, the others
\* try recoverRotatedConfig once and then clear the sign-in.
Rejection(f) ==
    LET me == flow[f]
    IN  IF me.failed /\ me.kind \in Careful THEN Idle
        ELSE IF me.again THEN Clears(me, me.held, me.saw)
        ELSE [At(me.kind, "load") EXCEPT !.base = me.held]

RequestRejected(f) ==
    /\ flow[f].pc = "use"
    /\ flow[f].call = "none"
    /\ ~Live(flow[f].held) \/ flow[f].failed
    /\ Become(f, Rejection(f))
    /\ UNCHANGED <<stored, row, issued, aged, stray, crossed>>

\* Any other failure of the request ends the call.
RequestFails(f) ==
    /\ flow[f].pc = "use"
    /\ flow[f].call = "none"
    /\ Ends(f)
    /\ UNCHANGED <<stored, row, issued, aged, stray, crossed>>

\* saveUserPreferences and the preference writers: storageGet, then storageSet
\* of the whole record.  The options page then saves the sign-in it loaded
\* when the account's name or preferences have changed.
ReadRecord(f) ==
    /\ flow[f].pc = "prefsGet"
    /\ Become(f, [flow[f] EXCEPT !.pc = "prefsSet", !.got = stored])
    /\ UNCHANGED <<stored, row, issued, aged, stray, crossed>>

WriteRecord(f) ==
    /\ flow[f].pc = "prefsSet"
    /\ stored' = flow[f].got
    /\ \/ Ends(f)
       \/ /\ flow[f].kind = "identity"
          /\ Become(f, [flow[f] EXCEPT !.pc = "saveHeld"])
    /\ UNCHANGED <<row, issued, aged, stray, crossed>>

SaveConfig(f) ==
    /\ flow[f].pc = "saveHeld"
    /\ stored' = flow[f].held
    /\ Ends(f)
    /\ UNCHANGED <<row, issued, aged, stray, crossed>>

\* clearConfig writes the record without tokens, whatever it holds by then.
ClearConfig(f) ==
    /\ flow[f].pc = "clear"
    /\ stored' = NoToken
    /\ Ends(f)
    /\ UNCHANGED <<row, issued, aged, stray, crossed>>

-----------------------------------------------------------------------------
(***************************************************************************)
(* connect: a password sign-in, or the browser handoff a passkey needs.    *)
(***************************************************************************)
SignedIn(f, s) ==
    /\ NewSession(s)
    /\ Become(f, [flow[f] EXCEPT !.pc = "saveHeld", !.call = "none",
                                 !.held = [s |-> s, n |-> 1]])
    /\ UNCHANGED <<stored, aged, stray, crossed>>

LoginExtension(f) ==
    /\ flow[f].pc = "login"
    /\ \/ \E s \in Sessions : SignedIn(f, s)
       \/ /\ \/ Become(f, [flow[f] EXCEPT !.pc = "handoff", !.call = "pending"])
             \/ Ends(f)
          /\ UNCHANGED <<stored, row, issued, aged, stray, crossed>>

\* The user approves the request in the browser window.
CompleteHandoff(f) ==
    /\ flow[f].call = "pending"
    /\ Become(f, [flow[f] EXCEPT !.call = "approved"])
    /\ UNCHANGED <<stored, row, issued, aged, stray, crossed>>

\* redeemExtensionBrowserAuth: an approved request is redeemed once.
RedeemHandoff(f) ==
    /\ flow[f].call = "approved"
    /\ \E s \in Sessions : SignedIn(f, s)

\* The request expires, two minutes pass, or a redeem fails on the way.
HandoffFails(f) ==
    /\ flow[f].pc = "handoff"
    /\ Ends(f)
    /\ UNCHANGED <<stored, row, issued, aged, stray, crossed>>

-----------------------------------------------------------------------------
FirstStep(k) ==
    CASE k = "signIn" -> "login"
      [] k = "signOut" -> "clear"
      [] k = "prefs" -> "prefsGet"
      [] OTHER -> "load"

Begin(f, k) ==
    /\ flow[f].pc = "idle"
    /\ Become(f, At(k, FirstStep(k)))
    /\ UNCHANGED <<stored, row, issued, aged, stray, crossed>>

\* An access token lives for an hour and a call for seconds: the token a call
\* has loaded does not come within a minute of its end during the call.  The
\* last token the bound allows does not age.
TokenAges(t) ==
    /\ t.n <= issued[t.s]
    /\ t.n < MaxTokens
    /\ \A f \in Flows : flow[f].held # t /\ flow[f].got # t
    /\ aged' = aged \cup {t}
    /\ UNCHANGED <<stored, row, issued, stray, crossed, flow>>

\* The session is revoked on the server, or its refresh token runs out.
SessionEnds(s) ==
    /\ row[s].state = "active"
    /\ ~Locked(s)
    /\ row' = [row EXCEPT ![s].state = "ended"]
    /\ UNCHANGED <<stored, issued, aged, stray, crossed, flow>>

RefreshStep(f) ==
    \/ FindForUpdate(f) \/ RotateSessionTokens(f) \/ RefreshAnswered(f)
    \/ SaveRotated(f) \/ RefreshUnanswered(f) \/ WaitForRotated(f)
    \/ DropConfig(f)

FlowStep(f) ==
    \/ LoadConfig(f) \/ RefreshStep(f)
    \/ AuthenticateRead(f) \/ AuthenticateCommit(f) \/ RequestRejected(f)
    \/ RequestFails(f) \/ ReadRecord(f) \/ WriteRecord(f) \/ SaveConfig(f)
    \/ ClearConfig(f) \/ LoginExtension(f) \/ RedeemHandoff(f)
    \/ HandoffFails(f)

Next ==
    \/ \E f \in Flows : FlowStep(f) \/ CompleteHandoff(f)
    \/ \E f \in Flows, k \in Kinds : Begin(f, k)
    \/ \E t \in Token : TokenAges(t) \/ RefreshStray(t)
    \/ \E s \in Sessions : SessionEnds(s)

Spec == Init /\ [][Next]_vars

-----------------------------------------------------------------------------
(***************************************************************************)
(* Properties.                                                             *)
(***************************************************************************)

\* The tokens a refresh has brought, delivered or not yet, are those of the
\* session's row: no second refresh has replaced them before the flow that
\* asked has saved them (findByRefreshTokenHashForUpdate).  (A session may
\* have ended.)  Only a request that had read the row before the rotation and
\* writes it back after it undoes that.
Undelivered(f, t) == \/ flow[f].call = "rotated" /\ t = flow[f].got
                     \/ flow[f].pc = "save" /\ t = flow[f].held

AnswersAreCurrent ==
    \A f \in Flows, t \in Token :
        Undelivered(f, t) => row[t.s].n = t.n \/ t \in crossed

\* A load, a badge refresh or the options page's first look, about to erase
\* the sign-in in the storage because the server rejected one.
Erases(f) ==
    \/ flow[f].pc = "drop"
    \/ flow[f].pc = "clear" /\ flow[f].kind \in Careful

\* Such a call erases a sign-in the server would still take only if another
\* context has stored it since the call last looked: it has looked at the
\* storage after the rejection, and what it saw there was not this sign-in.
CarefulFlowsKeepLiveTokens ==
    \A f \in Flows :
        (Erases(f) /\ Live(stored) /\ stored \notin crossed) =>
            flow[f].saw \notin {Unseen, stored}

=============================================================================
