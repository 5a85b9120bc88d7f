------------------------ MODULE UserAdministration ------------------------
(***************************************************************************)
(* The accounts of a deployment as administrators change them: the users'  *)
(* resource, AppUserService behind it, and the switch between single-user  *)
(* and multi-user mode (ApplicationModeService).                           *)
(*                                                                         *)
(* A request is a job: the filter admits it by the rights its sender has   *)
(* at that moment, and the handler runs later, in a transaction that reads *)
(* the rows and counts the administrators before it writes: others commit  *)
(* in between, and whole rows are written.                                 *)
(***************************************************************************)
EXTENDS Naturals, FiniteSets

CONSTANTS
    None,
    Users,          \* the accounts there may be
    Root,           \* the account of the first start
    DefaultMulti    \* the mode the deployment is configured with

ASSUME UserAdministrationAssumption ==
    /\ Root \in Users /\ None \notin Users \cup {"multi", "single"}
    /\ IsFiniteSet(Users)
    /\ DefaultMulti \in BOOLEAN

VARIABLES
    accounts,   \* the row of each account
    override,   \* multiUserEnabledOverride, None when it is not set
    jobs,       \* requests that the filter has let in
    reading     \* transactions between their reads and their writes

userVars == <<accounts, override, jobs, reading>>

Row == [here : {TRUE}, role : {"USER", "ADMIN"}, active : BOOLEAN,
        approved : BOOLEAN, byMode : BOOLEAN]
Absent == [here |-> FALSE, used |-> FALSE]
Deleted == [here |-> FALSE, used |-> TRUE]

Patches == {"approve", "suspend", "reactivate", "promote", "demote", "force"}
Ops == {"create", "update", "delete", "password", "passkeys", "mode", "oauth"}

\* What a request carries: a patch, a role, a mode, or nothing.
Carries(op) ==
    CASE op = "create" -> {"USER", "ADMIN"}
      [] op = "update" -> Patches
      [] op = "mode"   -> {"multi", "single"}
      [] op = "oauth"  -> {"multi", "single", None}
      [] OTHER         -> {None}

\* A job: who sends it, for which account, from the page or elsewhere.
Job == UNION {[by : Users, op : {op}, of : Users, what : Carries(op),
               page : BOOLEAN] : op \in Ops}

---------------------------------------------------------------------------

Listed(u) == accounts[u].here
ApprovedAdmin(row) == row.here /\ row.role = "ADMIN" /\ row.active /\ row.approved
ApprovedAdmins == {u \in Users : ApprovedAdmin(accounts[u])}
OnlyAdmin == Cardinality(ApprovedAdmins) = 1

\* multiUserEnabled
Multi == IF override = None THEN DefaultMulti ELSE override = "multi"

\* The first start finds no account and makes an administrator.
UserInit ==
    /\ accounts = [u \in Users |->
           IF u = Root THEN [here |-> TRUE, role |-> "ADMIN", active |-> TRUE,
                             approved |-> TRUE, byMode |-> FALSE]
           ELSE Absent]
    /\ override = None
    /\ jobs = {} /\ reading = {}

\* AdminFilter: an active, approved administrator's session.
Admitted(u) == ApprovedAdmin(accounts[u])

Admit(j) ==
    /\ j \notin jobs
    /\ Admitted(j.by)
    /\ jobs' = jobs \cup {j}
    /\ UNCHANGED <<accounts, override, reading>>

Finish(j) == jobs' = jobs \ {j}

\* The transaction of a request reads the accounts and the mode.
Starts(j) ==
    /\ reading' = reading \cup {[job |-> j, seen |-> accounts, mode |-> override]}
    /\ Finish(j)
    /\ UNCHANGED <<accounts, override>>

---------------------------------------------------------------------------
(* Accounts. *)

\* A visitor registers: the account waits for an administrator.
RegisterUser(u) ==
    /\ Multi
    /\ accounts[u] = Absent
    /\ accounts' = [accounts EXCEPT ![u] =
           [here |-> TRUE, role |-> "USER", active |-> FALSE, approved |-> FALSE,
            byMode |-> FALSE]]
    /\ UNCHANGED <<override, jobs, reading>>

MayCreate(j) == Multi /\ accounts[j.of] = Absent
ReadForCreate(j) == j \in jobs /\ j.op = "create" /\ MayCreate(j) /\ Starts(j)

Created(role) ==
    [here |-> TRUE, role |-> role, active |-> TRUE, approved |-> TRUE, byMode |-> FALSE]

\* The row an update asks for; what it does not name stays.
Patched(row, what) ==
    [row EXCEPT !.role = IF what = "promote" THEN "ADMIN"
                         ELSE IF what = "demote" THEN "USER" ELSE @,
                !.active = IF what \in {"approve", "reactivate"} THEN TRUE
                           ELSE IF what = "suspend" THEN FALSE ELSE @,
                !.approved = IF what = "approve" THEN TRUE ELSE @]

\* Fault: only the administrator's own rights are looked at.
MayUpdateAnyOther(j) ==
    LET new == Patched(accounts[j.of], j.what)
    IN /\ Multi /\ Listed(j.of)
       /\ ~(j.by = j.of /\ accounts[j.of].role = "ADMIN" /\ new.role # "ADMIN")

\* No administrator gives up its own rights, and the last one keeps its.
MayUpdate(j) ==
    LET old == accounts[j.of]
        new == Patched(old, j.what)
    IN /\ Multi /\ Listed(j.of)
       /\ ~(j.by = j.of /\ old.role = "ADMIN" /\ new.role # "ADMIN")
       /\ old.role = "ADMIN" /\ OnlyAdmin => ApprovedAdmin(new)

MayDelete(j) ==
    /\ Multi /\ Listed(j.of)
    /\ j.by # j.of
    /\ ~(ApprovedAdmin(accounts[j.of]) /\ OnlyAdmin)

ReadForUpdate(j) == j \in jobs /\ j.op = "update" /\ MayUpdate(j) /\ Starts(j)
ReadForDelete(j) == j \in jobs /\ j.op = "delete" /\ MayDelete(j) /\ Starts(j)

\* A new password or no passkeys: the row as the other operations see it stays.
ResetCredentials(j) ==
    /\ j \in jobs /\ j.op \in {"password", "passkeys"}
    /\ Multi /\ (j.op = "password" => Listed(j.of))
    /\ Finish(j)
    /\ UNCHANGED <<accounts, override, reading>>

---------------------------------------------------------------------------
(* The mode. *)

\* Everyone but the acting administrator is suspended, and whoever was
\* active is marked.
OnlyActingAdmin(admin, rows) ==
    [u \in {v \in Users : rows[v].here} |->
        IF u = admin THEN [rows[u] EXCEPT !.active = TRUE, !.approved = TRUE, !.byMode = FALSE]
        ELSE [rows[u] EXCEPT !.active = FALSE, !.byMode = rows[u].active]]

\* Fault: the switch itself is all that is undone.
NobodyReactivated(rows) == [u \in {} |-> rows[u]]

\* Who was suspended by the mode is active again.
MarkedReactivated(rows) ==
    [u \in {v \in Users : rows[v].here /\ rows[v].byMode} |->
        [rows[u] EXCEPT !.active = TRUE, !.byMode = FALSE]]

\* The role is read again, what the filter saw is not.
MaySwitch(j) == j.what = "multi" \/ (Listed(j.by) /\ accounts[j.by].role = "ADMIN")
ReadForSwitch(j) == j \in jobs /\ j.op = "mode" /\ MaySwitch(j) /\ Starts(j)

---------------------------------------------------------------------------
(* Writes. *)

\* The rows a transaction writes, made of those it has read.
Rows(r) ==
    CASE r.job.op = "create" -> [u \in {r.job.of} |-> Created(r.job.what)]
      [] r.job.op = "update" -> [u \in {r.job.of} |-> Patched(r.seen[u], r.job.what)]
      [] r.job.op = "delete" -> [u \in {r.job.of} |-> Deleted]
      [] r.job.op = "mode"   -> IF r.job.what = "multi" THEN MarkedReactivated(r.seen)
                                ELSE OnlyActingAdmin(r.job.by, r.seen)

\* A new account has a name of its own; any other row is there to be written.
Writable(r) ==
    \A u \in DOMAIN Rows(r) :
        IF r.job.op = "create" THEN accounts[u] = Absent ELSE Listed(u)

Commit(r) ==
    /\ r \in reading /\ Writable(r)
    /\ accounts' = [u \in Users |-> IF u \in DOMAIN Rows(r) THEN Rows(r)[u] ELSE accounts[u]]
    /\ override' = IF r.job.op = "mode" THEN r.job.what ELSE override
    /\ reading' = reading \ {r}
    /\ UNCHANGED jobs

RollBack(r) ==
    /\ r \in reading /\ ~Writable(r)
    /\ reading' = reading \ {r}
    /\ UNCHANGED <<accounts, override, jobs>>

\* Saving the OAuth applications writes the mode its form was loaded with.
SaveOAuthApps(j) ==
    /\ j \in jobs /\ j.op = "oauth"
    /\ override' = j.what
    /\ Finish(j)
    /\ UNCHANGED <<accounts, reading>>

---------------------------------------------------------------------------

\* What a handler refuses changes nothing.
Refused(j) ==
    /\ j \in jobs
    /\ \/ j.op = "create" /\ ~MayCreate(j)
       \/ j.op = "update" /\ ~MayUpdate(j)
       \/ j.op = "delete" /\ ~MayDelete(j)
       \/ j.op \in {"password", "passkeys"} /\ ~(Multi /\ Listed(j.of))
       \/ j.op = "mode" /\ ~MaySwitch(j)
    /\ Finish(j)
    /\ UNCHANGED <<accounts, override, reading>>

UserNext ==
    \/ \E u \in Users : RegisterUser(u)
    \/ \E j \in Job : Admit(j)
    \/ \E j \in jobs :
           \/ ReadForCreate(j) \/ ReadForUpdate(j) \/ ReadForDelete(j) \/ ReadForSwitch(j)
           \/ ResetCredentials(j) \/ SaveOAuthApps(j) \/ Refused(j)
    \/ \E r \in reading : Commit(r) \/ RollBack(r)

UserSpec == UserInit /\ [][UserNext]_userVars

---------------------------------------------------------------------------
(* What holds. *)

\* Every account is a row or absent, and every job one of the requests above.
UserTypeOK ==
    /\ accounts \in [Users -> Row \cup {Absent, Deleted}]
    /\ override \in {"multi", "single", None}
    /\ jobs \subseteq Job
    /\ reading \subseteq [job : {j \in Job : j.op \in {"create", "update", "delete", "mode"}},
                         seen : [Users -> Row \cup {Absent, Deleted}],
                         mode : {"multi", "single", None}]

AdminsAmong(rows) == {u \in Users : ApprovedAdmin(rows[u])}

\* Of the administrators a transaction has counted, one is none any more; or it
\* has found none.
Miscounted(r) == AdminsAmong(r.seen) = {} \/ ~(AdminsAmong(r.seen) \subseteq ApprovedAdmins)

\* However administrators create, suspend, demote and delete one another, and
\* whichever of them switches the mode, the last one that can sign in is lost
\* only to a write whose count is not true any more when it is made (the counts
\* of AppUserService.updateUser and deleteUser, the role that
\* switchToSingleUserMode reads).
AtLeastOneAdmin ==
    [][ApprovedAdmins # {} /\ ApprovedAdmins' = {}
         => \E r \in reading : Commit(r) /\ Miscounted(r)]_userVars

\* The mode has changed since a transaction read it, or a row has that it is about.
Overtaken(r) ==
    \/ r.mode # override
    \/ \E u \in IF r.job.op = "mode" THEN Users ELSE {r.job.of} : r.seen[u] # accounts[u]

\* In single-user mode one account at most can sign in; in multi-user mode no
\* account is still suspended by the mode.
AccountsFit ==
    /\ ~Multi => \A u, v \in Users :
           Listed(u) /\ Listed(v) /\ accounts[u].active /\ accounts[v].active => u = v
    /\ Multi => \A u \in Users : Listed(u) => ~accounts[u].byMode

\* A switch of the mode makes the accounts fit it whatever they were
\* (switchToSingleUserMode, switchToMultiUserMode), and they fit it until a
\* form saves a mode that it was loaded with, or a transaction writes what
\* others have written since it read it.
ModeMatchesAccounts ==
    /\ [][\A r \in reading : Commit(r) /\ r.job.op = "mode" /\ ~Overtaken(r)
             => AccountsFit']_userVars
    /\ [][AccountsFit /\ ~AccountsFit'
             => \/ \E r \in reading : Commit(r) /\ Overtaken(r)
                \/ \E j \in jobs : SaveOAuthApps(j) /\ j.what # override]_userVars

=============================================================================
