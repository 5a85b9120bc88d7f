--------------------------- MODULE ConsoleUsers ---------------------------
(***************************************************************************)
(* The user management of the administration workspace: the list of the    *)
(* accounts, the one that is unfolded with its configuration, the dialogs  *)
(* and confirmations, and the requests they send to UserAdministration.    *)
(*                                                                         *)
(* The page asks for the accounts only when it believes that there is a    *)
(* multi-user mode, and a load that asks for them in single-user mode      *)
(* fails as a whole.  Functions remember the render they were made in: the *)
(* loads that follow a request believe what the page believed when the     *)
(* request was sent.                                                       *)
(***************************************************************************)
EXTENDS UserAdministration, Sequences

CONSTANTS
    OtherJobs,      \* what may be asked for elsewhere
    MaxRequests,    \* bound: requests of the page
    MaxOthers,      \* bound: requests from elsewhere
    MaxLoads,       \* bound: loads under way
    MaxFaults       \* bound: requests and loads that are lost

ASSUME ConsoleUsersAssumption ==
    /\ {MaxRequests, MaxOthers, MaxLoads, MaxFaults} \subseteq Nat
    /\ OtherJobs \subseteq {j \in Job : ~j.page}

VARIABLES
    knows,      \* authOptions.multiUserEnabled
    options,    \* answers to loadAuthOptions under way, in order
    list,       \* users
    selected,   \* selectedUserId
    config,     \* selectedUserConfig: whose it is and the row it shows
    confirm,    \* the request a confirmation is asked for, or None
    calls,      \* the page's requests
    loads,      \* loads under way, each with what follows it
    details,    \* configurations under way
    requests, others, faults    \* budgets used

pageVars == <<list, selected, config, confirm>>
modeVars == <<knows, options>>
flights == <<calls, loads, details>>
spent == <<requests, others, faults>>
vars == <<userVars, modeVars, pageVars, flights, spent>>

\* The page is the first administrator's.
Me == Root

NoList == [u \in Users |-> Absent]
NoConfig == [of |-> None, row |-> Absent]
Nothing == [select |-> None, detail |-> None, close |-> FALSE, now |-> FALSE]
DetailOf(u) == [Nothing EXCEPT !.detail = u]
DetailNow(u) == [Nothing EXCEPT !.detail = u, !.now = TRUE]

ConsoleUsersInit ==
    /\ UserInit
    /\ knows = TRUE
    /\ options = <<[mode |-> Multi, after |-> None]>>
    /\ list = NoList /\ selected = None /\ config = NoConfig
    /\ confirm = None
    /\ calls = {} /\ loads = {} /\ details = {}
    /\ requests = 0 /\ others = 0 /\ faults = 0

---------------------------------------------------------------------------
(* Loads. *)

\* A load as it is answered: the accounts, nothing of them, or a refusal.
Answer(asks) ==
    IF ~asks THEN [ok |-> TRUE, rows |-> NoList]
    ELSE IF Multi /\ Admitted(Me) THEN [ok |-> TRUE, rows |-> accounts]
    ELSE [ok |-> FALSE, rows |-> NoList]

Load(asks, then) == [answer |-> Answer(asks), believes |-> asks, then |-> then]

Detail(u, close) ==
    [of |-> u, row |-> IF Multi /\ Admitted(Me) THEN accounts[u] ELSE Absent,
     close |-> close]

\* The timer, a section that is unfolded, or a page that has just opened.
Refresh ==
    /\ Cardinality(loads) + Cardinality(details) < MaxLoads
    /\ loads' = loads \cup {Load(knows, Nothing)}
    /\ UNCHANGED <<userVars, modeVars, pageVars, calls, details, spent>>

\* A refusal comes before anything is applied; what follows goes on.
Shown(a) ==
    IF ~a.ok THEN UNCHANGED <<list, config>>
    ELSE /\ list' = a.rows
         /\ config' = IF config.of # None /\ a.rows[config.of].here
                      THEN config ELSE NoConfig

\* An account that is gone is not selected any longer.
Kept(a) ==
    IF a.ok /\ selected # None /\ ~a.rows[selected].here THEN None ELSE selected

\* An effect of selecting another account loads everything and then the
\* account's configuration.
Select(u, more) ==
    /\ selected' = u
    /\ loads' = IF u # selected /\ u # None
                THEN more \cup {Load(knows, DetailNow(u))}
                ELSE more

\* Whatever becomes of a load, what was to follow it does; the configuration
\* is not asked for by a function that believes in single-user mode (an
\* effect's function is that of the latest render).
ApplyLoad(l) ==
    /\ l \in loads
    /\ UNCHANGED <<userVars, modeVars, calls, spent>>
    /\ Shown(l.answer)
    /\ LET u == IF l.then.select # None THEN l.then.select ELSE Kept(l.answer)
           asks == l.then.detail # None /\ IF l.then.now THEN knows ELSE l.believes
       IN /\ Select(u, loads \ {l})
          /\ details' = IF asks THEN details \cup {Detail(l.then.detail, l.then.close)}
                        ELSE details
          /\ confirm' = IF l.then.close /\ ~asks THEN None ELSE confirm

LoseLoad(l) ==
    /\ l \in loads /\ l.answer.ok
    /\ faults < MaxFaults
    /\ faults' = faults + 1
    /\ loads' = (loads \ {l}) \cup {[l EXCEPT !.answer.ok = FALSE]}
    /\ UNCHANGED <<userVars, modeVars, pageVars, calls, details, requests, others>>

\* A configuration arrives for whichever account is unfolded by then, and a
\* confirmation that waited for it is closed.
ApplyDetail(d) ==
    /\ d \in details
    /\ details' = details \ {d}
    /\ config' = IF d.row.here THEN [of |-> d.of, row |-> d.row] ELSE config
    /\ confirm' = IF d.close THEN None ELSE confirm
    /\ UNCHANGED <<userVars, modeVars, list, selected, calls, loads, spent>>

\* The page hears the mode; it takes multi-user mode for granted when it
\* cannot.  Hearing another mode starts the timer again, which loads at once,
\* and loads what is selected; a change of the mode is followed by a load of
\* its own, which believes what was believed when it was asked for.
HearMode ==
    /\ options # <<>>
    /\ options' = Tail(options)
    /\ LET m == Head(options)
       IN /\ knows' = m.mode
          /\ loads' = loads
                 \cup (IF m.mode = knows THEN {} ELSE {Load(m.mode, Nothing)})
                 \cup (IF m.mode = knows \/ selected = None THEN {}
                       ELSE {Load(m.mode, DetailNow(selected))})
                 \cup (IF m.after = None THEN {} ELSE {Load(m.after, Nothing)})
    /\ UNCHANGED <<userVars, pageVars, calls, details, spent>>

LoseMode ==
    /\ options # <<>>
    /\ faults < MaxFaults
    /\ faults' = faults + 1
    /\ options' = [options EXCEPT ![1].mode = TRUE]
    /\ UNCHANGED <<userVars, knows, pageVars, flights, requests, others>>

---------------------------------------------------------------------------
(* What the administrator does. *)

\* The list and its buttons, when no confirmation is before them.
AtList == confirm = None
OnList(u) == AtList /\ knows /\ list[u].here

ToggleExpanded(u) ==
    /\ OnList(u)
    /\ Cardinality(loads) + Cardinality(details) < MaxLoads
    /\ Select(IF selected = u THEN None ELSE u, loads)
    /\ config' = IF config.of = u /\ selected = u THEN NoConfig ELSE config
    /\ UNCHANGED <<userVars, modeVars, list, confirm, calls, details, spent>>

\* The row an unfolded account shows is its configuration's.
ShownRow(u) == IF selected = u /\ config.of = u THEN config.row ELSE list[u]

\* viewingSelfAdmin
SelfAdmin(u) == u = Me /\ ShownRow(u).role = "ADMIN"

\* What the buttons of an account's row offer to be confirmed.
Offered(u) ==
    {[op |-> "update", of |-> u,
      what |-> IF ShownRow(u).active THEN "suspend" ELSE "reactivate"],
     [op |-> "update", of |-> u, what |-> "force"]}
    \cup (IF selected = u /\ config.of = u
          THEN {[op |-> "passkeys", of |-> u, what |-> None]} ELSE {})
    \cup (IF SelfAdmin(u) THEN {} ELSE {[op |-> "delete", of |-> u, what |-> None]})

\* What they do at once.
Immediate(u) ==
    (IF ShownRow(u).approved THEN {} ELSE {"approve"})
    \cup (IF SelfAdmin(u) THEN {}
          ELSE IF ShownRow(u).role = "ADMIN" THEN {"demote"}
          ELSE IF selected = u THEN {"promote"} ELSE {})

AskConfirmation(c) ==
    /\ confirm' = c
    /\ UNCHANGED <<userVars, modeVars, list, selected, config, flights, spent>>

AskForAccount(u) ==
    /\ OnList(u)
    /\ \E c \in Offered(u) : AskConfirmation(c)

AskForMode ==
    /\ AtList
    /\ AskConfirmation([op |-> "mode", of |-> Me,
                        what |-> IF knows THEN "single" ELSE "multi"])

CancelConfirmation ==
    /\ confirm # None
    /\ AskConfirmation(None)

\* A button does not send twice while its own request is under way.
Key(c) == <<c.op, IF c.op = "create" THEN None ELSE c.of>>
Send(c, confirmed) ==
    /\ requests < MaxRequests
    /\ requests' = requests + 1
    /\ \A d \in calls : Key(d.job) # Key(c)
    /\ LET j == [by |-> Me, op |-> c.op, of |-> c.of, what |-> c.what, page |-> TRUE]
       IN IF Admitted(Me)
          THEN /\ Admit(j)
               /\ calls' = calls \cup {[job |-> j, phase |-> "sent", believed |-> knows,
                                        selected |-> selected, confirmed |-> confirmed]}
          ELSE UNCHANGED <<userVars, calls>>
    /\ UNCHANGED <<modeVars, pageVars, loads, details, others, faults>>

Confirm == confirm # None /\ Send(confirm, TRUE)

UpdateAtOnce(u) ==
    /\ OnList(u)
    /\ \E p \in Immediate(u) : Send([op |-> "update", of |-> u, what |-> p], FALSE)

\* The dialog of a new account: the name is not one of the list's.
SubmitUser(u, role) ==
    /\ AtList /\ knows
    /\ ~list[u].here
    /\ Send([op |-> "create", of |-> u, what |-> role], FALSE)

\* The dialog of a new password, which belongs to an account of the list.
SubmitPassword(u) ==
    /\ OnList(u)
    /\ Send([op |-> "password", of |-> u, what |-> None], FALSE)

---------------------------------------------------------------------------
(* The server's work, and its answers. *)

\* The page's own request is marked with how it went.
Outcome(j, phase) ==
    calls' = {IF c.job = j /\ j.page THEN [c EXCEPT !.phase = phase] ELSE c : c \in calls}

Unseen == UNCHANGED <<modeVars, pageVars, loads, details, spent>>

Serve(j) ==
    /\ ResetCredentials(j) \/ SaveOAuthApps(j)
    /\ Outcome(j, "served")
    /\ Unseen

Refuse(j) ==
    /\ Refused(j)
    /\ Outcome(j, "refused")
    /\ Unseen

Read(j) ==
    /\ ReadForCreate(j) \/ ReadForUpdate(j) \/ ReadForDelete(j) \/ ReadForSwitch(j)
    /\ UNCHANGED calls
    /\ Unseen

Write(r) ==
    /\ \/ Commit(r) /\ Outcome(r.job, "served")
       \/ RollBack(r) /\ Outcome(r.job, "refused")
    /\ Unseen

\* A visitor, an administrator in another browser, or this one's OAuth form.
Elsewhere ==
    /\ others < MaxOthers
    /\ others' = others + 1
    /\ \/ \E u \in Users : RegisterUser(u)
       \/ \E j \in OtherJobs : Admit(j)
    /\ UNCHANGED <<modeVars, pageVars, flights, requests, faults>>

\* Only an answer that says so ends an action as done.  The loads that follow
\* believe what the page believed when it was sent.
Answered(c) ==
    /\ c \in calls /\ c.phase = "served"
    /\ calls' = calls \ {c}
    /\ LET u == c.job.of
           next(then) == loads \cup {Load(c.believed, then)}
       IN CASE c.job.op = "create" ->
                 /\ loads' = next([Nothing EXCEPT !.select = u])
                 /\ UNCHANGED <<options, selected, config, confirm>>
            [] c.job.op = "update" ->
                 /\ loads' = next([DetailOf(u) EXCEPT !.select = u, !.close = c.confirmed])
                 /\ UNCHANGED <<options, selected, config, confirm>>
            [] c.job.op = "password" ->
                 /\ loads' = next([DetailOf(u) EXCEPT !.select = u])
                 /\ UNCHANGED <<options, selected, config, confirm>>
            [] c.job.op = "passkeys" ->
                 /\ confirm' = None
                 /\ loads' = next(DetailOf(u))
                 /\ UNCHANGED <<options, selected, config>>
            [] c.job.op = "delete" ->
                 /\ confirm' = None
                 /\ Select(IF c.selected = u THEN None ELSE selected, next(Nothing))
                 /\ config' = IF c.selected = u THEN NoConfig ELSE config
                 /\ UNCHANGED options
            [] c.job.op = "mode" ->
                 /\ confirm' = None
                 /\ Select(None, loads)
                 /\ config' = NoConfig
                 /\ options' = Append(options, [mode |-> Multi, after |-> c.believed])
    /\ UNCHANGED <<userVars, knows, list, details, spent>>

\* A refusal, a failed request or a lost answer is told and changes nothing.
Failed(c) ==
    /\ c \in calls
    /\ \/ c.phase = "refused" /\ UNCHANGED faults
       \/ /\ c.phase = "served"
          /\ faults < MaxFaults /\ faults' = faults + 1
    /\ calls' = calls \ {c}
    /\ UNCHANGED <<userVars, modeVars, pageVars, loads, details, requests, others>>

---------------------------------------------------------------------------

Server ==
    \/ \E j \in jobs : Serve(j) \/ Refuse(j) \/ Read(j)
    \/ \E r \in reading : Write(r)
Answers ==
    \/ HearMode
    \/ \E c \in calls : Answered(c) \/ Failed(c)
LoadsArrive == \E l \in loads : ApplyLoad(l)
DetailsArrive == \E d \in details : ApplyDetail(d)

ConsoleUsersNext ==
    \/ Refresh \/ Server \/ Answers \/ LoadsArrive \/ DetailsArrive \/ Elsewhere
    \/ \E l \in loads : LoseLoad(l)
    \/ LoseMode
    \/ \E u \in Users : ToggleExpanded(u) \/ AskForAccount(u) \/ UpdateAtOnce(u) \/ SubmitPassword(u)
    \/ AskForMode \/ CancelConfirmation \/ Confirm
    \/ \E u \in Users, role \in {"USER", "ADMIN"} : SubmitUser(u, role)

ConsoleUsersSpec == ConsoleUsersInit /\ [][ConsoleUsersNext]_vars
=============================================================================
