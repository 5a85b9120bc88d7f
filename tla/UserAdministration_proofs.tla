---------------------- MODULE UserAdministration_proofs ----------------------
(* Theorems about UserAdministration and the page that drives it, for every   *)
(* set of accounts and whatever administrators ask for; about the dialogs of   *)
(* ConsoleSettings and the challenges of Registration; and about whom the     *)
(* page of ConsoleSession acts for.                                           *)
EXTENDS ConsoleUsers, ConsoleSettings, ConsoleSession, Registration, FiniteSetTheorems,
        TLAPS

\* What a transaction has made sure of in the rows and the mode it has read.
Checked(r) ==
    /\ r.job.op = "update" =>
           /\ r.seen[r.job.of].here
           /\ AdminsAmong(r.seen) = {r.job.of}
                => ApprovedAdmin(Patched(r.seen[r.job.of], r.job.what))
    /\ r.job.op = "delete" => AdminsAmong(r.seen) # {r.job.of}
    /\ r.job.op = "mode" /\ r.job.what # "multi" =>
           r.seen[r.job.by].here /\ r.seen[r.job.by].role = "ADMIN"
    /\ r.job.op # "mode" => IF r.mode = None THEN DefaultMulti ELSE r.mode = "multi"

ReadingsChecked == \A r \in reading : Checked(r)

UserInv == UserTypeOK /\ ReadingsChecked

-----------------------------------------------------------------------------
(* Requests and rows. *)

\* A request names accounts and carries what its operation takes.
LEMMA JobParts ==
  ASSUME NEW j \in Job
  PROVE  /\ j.by \in Users /\ j.of \in Users /\ j.op \in Ops
         /\ j.what \in Carries(j.op)
         /\ j.page \in BOOLEAN
<1>1. PICK op \in Ops : j \in [by : Users, op : {op}, of : Users, what : Carries(op),
                               page : BOOLEAN]
  BY DEF Job
<1> QED
  BY <1>1

\* A request is one that its parts make.
LEMMA JobMade ==
  ASSUME NEW by \in Users, NEW op \in Ops, NEW of \in Users, NEW what \in Carries(op),
         NEW page \in BOOLEAN
  PROVE  [by |-> by, op |-> op, of |-> of, what |-> what, page |-> page] \in Job
<1>1. [by |-> by, op |-> op, of |-> of, what |-> what, page |-> page]
        \in [by : Users, op : {op}, of : Users, what : Carries(op), page : BOOLEAN]
  OBVIOUS
<1> QED
  BY <1>1 DEF Job

\* An update makes a row of a row and leaves the mark of the mode as it is.
LEMMA PatchedRow ==
  ASSUME NEW row \in Row, NEW what
  PROVE  Patched(row, what) \in Row /\ Patched(row, what).byMode = row.byMode
BY DEF Patched, Row

\* An account that is there has a row, and one that is not has none.
LEMMA ListedRow ==
  ASSUME UserTypeOK, NEW u \in Users
  PROVE  /\ Listed(u) => accounts[u] \in Row
         /\ ~Listed(u) => accounts[u] \in {Absent, Deleted}
<1>1. accounts[u] \in Row \/ accounts[u] = Absent \/ accounts[u] = Deleted
  BY DEF UserTypeOK
<1>2. CASE accounts[u] \in Row
  <2>1. accounts[u].here = TRUE
    BY <1>2 DEF Row
  <2> QED
    BY <1>2, <2>1 DEF Listed
<1>3. CASE accounts[u] = Absent \/ accounts[u] = Deleted
  <2>1. accounts[u].here = FALSE
    BY <1>3 DEF Absent, Deleted
  <2> QED
    BY <1>3, <2>1 DEF Listed
<1> QED
  BY <1>1, <1>2, <1>3

\* What a transaction writes is a row, or that there is none any more.
LEMMA RowsTyped ==
  ASSUME UserInv, NEW r \in reading, NEW u \in DOMAIN Rows(r)
  PROVE  u \in Users /\ Rows(r)[u] \in Row \cup {Deleted}
<1> USE DEF UserInv, UserTypeOK
<1>1. /\ r.job \in Job /\ r.job.op \in {"create", "update", "delete", "mode"}
      /\ r.seen \in [Users -> Row \cup {Absent, Deleted}]
      /\ Checked(r)
  BY DEF ReadingsChecked
<1>2. r.job.of \in Users /\ r.job.what \in Carries(r.job.op)
  BY <1>1, JobParts
<1>3. ASSUME NEW v \in Users, r.seen[v].here PROVE r.seen[v] \in Row
  BY <1>1, <1>3 DEF Absent, Deleted
<1>4. CASE r.job.op = "create"
  <2>1. Rows(r) = [v \in {r.job.of} |-> Created(r.job.what)]
    BY <1>4 DEF Rows
  <2>2. Created(r.job.what) \in Row
    BY <1>2, <1>4 DEF Created, Row, Carries
  <2> QED
    BY <1>2, <2>1, <2>2
<1>5. CASE r.job.op = "update"
  <2>1. Rows(r) = [v \in {r.job.of} |-> Patched(r.seen[v], r.job.what)]
    BY <1>5 DEF Rows
  <2>2. r.seen[r.job.of] \in Row
    BY <1>1, <1>2, <1>3, <1>5 DEF Checked
  <2> QED
    BY <1>2, <2>1, <2>2, PatchedRow
<1>6. CASE r.job.op = "delete"
  <2>1. Rows(r) = [v \in {r.job.of} |-> Deleted]
    BY <1>6 DEF Rows
  <2> QED
    BY <1>2, <2>1
<1>7. CASE r.job.op = "mode" /\ r.job.what = "multi"
  <2>1. Rows(r) = [v \in {w \in Users : r.seen[w].here /\ r.seen[w].byMode} |->
                      [r.seen[v] EXCEPT !.active = TRUE, !.byMode = FALSE]]
    BY <1>7 DEF Rows, MarkedReactivated
  <2>2. u \in Users /\ r.seen[u] \in Row
    BY <2>1, <1>3
  <2>3. Rows(r)[u] = [r.seen[u] EXCEPT !.active = TRUE, !.byMode = FALSE]
    BY <2>1
  <2>4. [r.seen[u] EXCEPT !.active = TRUE, !.byMode = FALSE] \in Row
    BY <2>2 DEF Row
  <2> QED
    BY <2>2, <2>3, <2>4
<1>8. CASE r.job.op = "mode" /\ r.job.what # "multi"
  <2>1. Rows(r) = [v \in {w \in Users : r.seen[w].here} |->
                      IF v = r.job.by
                      THEN [r.seen[v] EXCEPT !.active = TRUE, !.approved = TRUE, !.byMode = FALSE]
                      ELSE [r.seen[v] EXCEPT !.active = FALSE, !.byMode = r.seen[v].active]]
    BY <1>8 DEF Rows, OnlyActingAdmin
  <2>2. u \in Users /\ r.seen[u] \in Row
    BY <2>1, <1>3
  <2>3. \/ Rows(r)[u] = [r.seen[u] EXCEPT !.active = TRUE, !.approved = TRUE, !.byMode = FALSE]
        \/ Rows(r)[u] = [r.seen[u] EXCEPT !.active = FALSE, !.byMode = r.seen[u].active]
    BY <2>1
  <2>4. /\ [r.seen[u] EXCEPT !.active = TRUE, !.approved = TRUE, !.byMode = FALSE] \in Row
        /\ [r.seen[u] EXCEPT !.active = FALSE, !.byMode = r.seen[u].active] \in Row
    BY <2>2 DEF Row
  <2> QED
    BY <2>2, <2>3, <2>4
<1> QED
  BY <1>1, <1>4, <1>5, <1>6, <1>7, <1>8

\* A commit writes its rows and leaves the others.
LEMMA CommitWrites ==
  ASSUME UserTypeOK, NEW r \in reading, Commit(r), NEW u \in Users
  PROVE  /\ u \in DOMAIN Rows(r) => accounts'[u] = Rows(r)[u]
         /\ u \notin DOMAIN Rows(r) => accounts'[u] = accounts[u]
BY DEF Commit

\* What a transaction reads is typed, and checked.
LEMMA StartsChecked ==
  ASSUME UserInv, NEW j \in jobs, j.op \in {"create", "update", "delete", "mode"}, Starts(j),
         Checked([job |-> j, seen |-> accounts, mode |-> override])
  PROVE  UserInv'
<1> DEFINE r == [job |-> j, seen |-> accounts, mode |-> override]
<1>1. r \in [job : {i \in Job : i.op \in {"create", "update", "delete", "mode"}},
             seen : [Users -> Row \cup {Absent, Deleted}],
             mode : {"multi", "single", None}]
  BY DEF UserInv, UserTypeOK
<1>2. UserTypeOK'
  BY <1>1 DEF UserInv, UserTypeOK, Starts, Finish
<1>3. ASSUME NEW s \in reading' PROVE Checked(s)
  <2>1. s \in reading \/ s = r
    BY DEF Starts
  <2> QED
    BY <2>1 DEF UserInv, ReadingsChecked
<1> QED
  BY <1>2, <1>3 DEF UserInv, ReadingsChecked, Checked

\* Every step of the server keeps the types and what transactions have checked.
LEMMA UserInvStep ==
  ASSUME UserInv, [UserNext]_userVars
  PROVE  UserInv'
<1>a. ASSUME UserTypeOK', reading' \subseteq reading PROVE UserInv'
  BY <1>a DEF UserInv, ReadingsChecked, Checked
<1>b. UserTypeOK
  BY DEF UserInv
<1> USE DEF UserTypeOK
<1>1. CASE UNCHANGED userVars
  BY <1>1, <1>a, <1>b DEF userVars
<1>2. ASSUME NEW u \in Users, RegisterUser(u) PROVE UserInv'
  BY <1>2, <1>a, <1>b DEF RegisterUser, Row
<1>3. ASSUME NEW j \in Job, Admit(j) PROVE UserInv'
  BY <1>3, <1>a, <1>b DEF Admit
<1>4. ASSUME NEW j \in jobs, ReadForCreate(j) PROVE UserInv'
  <2>1. Checked([job |-> j, seen |-> accounts, mode |-> override])
    BY <1>4 DEF Checked, ReadForCreate, MayCreate, Multi
  <2> QED
    BY <1>4, <2>1, StartsChecked DEF ReadForCreate
<1>5. ASSUME NEW j \in jobs, ReadForUpdate(j) PROVE UserInv'
  <2>1. j.of \in Users
    BY <1>b, JobParts
  <2>2. ASSUME AdminsAmong(accounts) = {j.of}
        PROVE  ApprovedAdmin(Patched(accounts[j.of], j.what))
    <3>1. ApprovedAdmins = {j.of}
      BY <2>2 DEF ApprovedAdmins, AdminsAmong
    <3>2. OnlyAdmin
      BY <3>1, FS_Singleton DEF OnlyAdmin
    <3>3. accounts[j.of].role = "ADMIN"
      BY <3>1 DEF ApprovedAdmins, ApprovedAdmin
    <3> QED
      BY <1>5, <3>2, <3>3 DEF ReadForUpdate, MayUpdate
  <2>3. Checked([job |-> j, seen |-> accounts, mode |-> override])
    BY <1>5, <2>2 DEF Checked, ReadForUpdate, MayUpdate, Multi, Listed
  <2> QED
    BY <1>5, <2>3, StartsChecked DEF ReadForUpdate
<1>6. ASSUME NEW j \in jobs, ReadForDelete(j) PROVE UserInv'
  <2>1. AdminsAmong(accounts) # {j.of}
    <3> SUFFICES ASSUME AdminsAmong(accounts) = {j.of} PROVE FALSE
      OBVIOUS
    <3>1. ApprovedAdmins = {j.of}
      BY DEF ApprovedAdmins, AdminsAmong
    <3>2. OnlyAdmin
      BY <3>1, FS_Singleton DEF OnlyAdmin
    <3>3. ApprovedAdmin(accounts[j.of])
      BY <3>1 DEF ApprovedAdmins
    <3> QED
      BY <1>6, <3>2, <3>3 DEF ReadForDelete, MayDelete
  <2>2. Checked([job |-> j, seen |-> accounts, mode |-> override])
    BY <1>6, <2>1 DEF Checked, ReadForDelete, MayDelete, Multi
  <2> QED
    BY <1>6, <2>2, StartsChecked DEF ReadForDelete
<1>7. ASSUME NEW j \in jobs, ReadForSwitch(j) PROVE UserInv'
  <2>1. Checked([job |-> j, seen |-> accounts, mode |-> override])
    BY <1>7 DEF Checked, ReadForSwitch, MaySwitch, Listed
  <2> QED
    BY <1>7, <2>1, StartsChecked DEF ReadForSwitch
<1>8. ASSUME NEW j \in jobs, ResetCredentials(j) \/ Refused(j) PROVE UserInv'
  BY <1>8, <1>a, <1>b DEF ResetCredentials, Refused, Finish
<1>9. ASSUME NEW j \in jobs, SaveOAuthApps(j) PROVE UserInv'
  <2>1. j.what \in {"multi", "single", None}
    BY <1>9, <1>b, JobParts DEF SaveOAuthApps, Carries
  <2> QED
    BY <1>9, <2>1, <1>a, <1>b DEF SaveOAuthApps, Finish
<1>10. ASSUME NEW r \in reading, Commit(r) PROVE UserInv'
  <2>1. accounts' \in [Users -> Row \cup {Absent, Deleted}]
    BY <1>10, <1>b, RowsTyped DEF Commit
  <2>2. r.job.op = "mode" => r.job.what \in {"multi", "single"}
    BY <1>b, JobParts DEF Carries
  <2> QED
    BY <1>10, <2>1, <2>2, <1>a, <1>b DEF Commit
<1>11. ASSUME NEW r \in reading, RollBack(r) PROVE UserInv'
  BY <1>11, <1>a, <1>b DEF RollBack
<1> QED
  BY <1>1, <1>2, <1>3, <1>4, <1>5, <1>6, <1>7, <1>8, <1>9, <1>10, <1>11 DEF UserNext

-----------------------------------------------------------------------------
(* An administrator remains. *)

\* A commit whose count is still true leaves an administrator.
LEMMA CountedCommit ==
  ASSUME UserInv, NEW r \in reading, Commit(r), ~Miscounted(r)
  PROVE  ApprovedAdmins' # {}
<1> USE DEF UserInv
<1>1. PICK a \in Users : ApprovedAdmin(r.seen[a])
  BY DEF Miscounted, AdminsAmong
<1>2. \A v \in Users : ApprovedAdmin(r.seen[v]) => ApprovedAdmin(accounts[v])
  BY DEF Miscounted, AdminsAmong, ApprovedAdmins
<1>3. /\ r.job \in Job /\ r.job.op \in {"create", "update", "delete", "mode"}
      /\ r.seen \in [Users -> Row \cup {Absent, Deleted}]
      /\ r.job.of \in Users /\ r.job.by \in Users
      /\ Checked(r)
  BY JobParts DEF UserTypeOK, ReadingsChecked
<1>a. ASSUME NEW v \in Users, ApprovedAdmin(accounts'[v]) PROVE ApprovedAdmins' # {}
  BY <1>a DEF ApprovedAdmins
<1>b. ASSUME NEW v \in Users, ApprovedAdmin(accounts[v]), v \notin DOMAIN Rows(r)
      PROVE  ApprovedAdmins' # {}
  <2>1. accounts'[v] = accounts[v]
    BY <1>b, CommitWrites
  <2> QED
    BY <1>b, <2>1, <1>a
<1>4. CASE r.job.op = "create"
  <2>1. DOMAIN Rows(r) = {r.job.of}
    BY <1>4 DEF Rows
  <2>2. accounts[r.job.of] = Absent
    BY <1>4, <2>1 DEF Commit, Writable
  <2>3. a # r.job.of
    BY <1>1, <1>2, <2>2 DEF ApprovedAdmin, Absent
  <2> QED
    BY <1>1, <1>2, <2>1, <2>3, <1>b
<1>5. CASE r.job.op \in {"update", "delete"}
  <2>1. DOMAIN Rows(r) = {r.job.of}
    BY <1>5 DEF Rows
  <2>2. CASE \E v \in Users : v # r.job.of /\ ApprovedAdmin(r.seen[v])
    BY <1>2, <2>1, <2>2, <1>b
  <2>3. CASE \A v \in Users : ApprovedAdmin(r.seen[v]) => v = r.job.of
    <3>1. AdminsAmong(r.seen) = {r.job.of}
      BY <1>1, <2>3 DEF AdminsAmong
    <3>2. r.job.op = "update" /\ ApprovedAdmin(Patched(r.seen[r.job.of], r.job.what))
      BY <1>3, <1>5, <3>1 DEF Checked
    <3>3. Rows(r)[r.job.of] = Patched(r.seen[r.job.of], r.job.what)
      BY <3>2 DEF Rows
    <3>4. accounts'[r.job.of] = Patched(r.seen[r.job.of], r.job.what)
      BY <1>3, <2>1, <3>3, CommitWrites
    <3> QED
      BY <1>3, <3>2, <3>4, <1>a
  <2> QED
    BY <2>2, <2>3
<1>6. CASE r.job.op = "mode" /\ r.job.what = "multi"
  <2>1. Rows(r) = [v \in {w \in Users : r.seen[w].here /\ r.seen[w].byMode} |->
                      [r.seen[v] EXCEPT !.active = TRUE, !.byMode = FALSE]]
    BY <1>6 DEF Rows, MarkedReactivated
  <2>2. CASE a \in DOMAIN Rows(r)
    <3>1. accounts'[a] = [r.seen[a] EXCEPT !.active = TRUE, !.byMode = FALSE]
      BY <2>1, <2>2, CommitWrites
    <3>2. r.seen[a] \in Row
      BY <1>1, <1>3 DEF ApprovedAdmin, Absent, Deleted
    <3>3. ApprovedAdmin(accounts'[a])
      BY <1>1, <3>1, <3>2 DEF ApprovedAdmin, Row
    <3> QED
      BY <3>3, <1>a
  <2> QED
    BY <1>1, <1>2, <2>2, <1>b
<1>7. CASE r.job.op = "mode" /\ r.job.what # "multi"
  <2> DEFINE b == r.job.by
  <2>1. r.seen[b].here /\ r.seen[b].role = "ADMIN"
    BY <1>3, <1>7 DEF Checked
  <2>2. r.seen[b] \in Row
    BY <1>3, <2>1 DEF Absent, Deleted
  <2>3. b \in DOMAIN Rows(r)
        /\ Rows(r)[b] = [r.seen[b] EXCEPT !.active = TRUE, !.approved = TRUE, !.byMode = FALSE]
    BY <1>3, <1>7, <2>1 DEF Rows, OnlyActingAdmin
  <2>4. accounts'[b] = [r.seen[b] EXCEPT !.active = TRUE, !.approved = TRUE, !.byMode = FALSE]
    BY <1>3, <2>3, CommitWrites
  <2>5. ApprovedAdmin(accounts'[b])
    BY <2>1, <2>2, <2>4 DEF ApprovedAdmin, Row
  <2> QED
    BY <1>3, <2>5, <1>a
<1> QED
  BY <1>3, <1>4, <1>5, <1>6, <1>7

\* Only a commit that has miscounted loses the last administrator.
LEMMA AdminStep ==
  ASSUME UserInv, [UserNext]_userVars, ApprovedAdmins # {}, ApprovedAdmins' = {}
  PROVE  \E r \in reading : Commit(r) /\ Miscounted(r)
<1>a. accounts' # accounts
  BY DEF ApprovedAdmins
<1>1. ASSUME NEW u \in Users, RegisterUser(u) PROVE FALSE
  <2>1. PICK a \in Users : ApprovedAdmin(accounts[a])
    BY DEF ApprovedAdmins
  <2>2. u # a
    BY <1>1, <2>1 DEF RegisterUser, ApprovedAdmin, Absent
  <2>3. accounts'[a] = accounts[a]
    BY <1>1, <2>2 DEF RegisterUser, UserInv, UserTypeOK
  <2> QED
    BY <2>1, <2>3 DEF ApprovedAdmins
<1>2. PICK r \in reading : Commit(r)
  BY <1>a, <1>1 DEF UserNext, userVars, Admit, ReadForCreate, ReadForUpdate, ReadForDelete,
                    ReadForSwitch, Starts, ResetCredentials, SaveOAuthApps, Refused, RollBack
<1> QED
  BY <1>2, CountedCommit

-----------------------------------------------------------------------------
(* The accounts fit the mode. *)

\* A switch that nothing has overtaken makes the accounts fit it.
LEMMA SwitchFits ==
  ASSUME UserInv, NEW r \in reading, Commit(r), r.job.op = "mode", ~Overtaken(r)
  PROVE  AccountsFit'
<1> USE DEF Listed
<1>0. UserTypeOK
  BY DEF UserInv
<1>1. /\ r.job \in Job /\ r.job.by \in Users /\ r.job.what \in {"multi", "single"}
      /\ r.seen \in [Users -> Row \cup {Absent, Deleted}]
  BY <1>0, JobParts DEF UserTypeOK, Carries
<1>2. None # r.job.what
  BY <1>1, UserAdministrationAssumption
<1>3. \A u \in Users : r.seen[u] = accounts[u]
  BY DEF Overtaken
<1>4. CASE r.job.what = "multi"
  <2>1. Rows(r) = [v \in {w \in Users : r.seen[w].here /\ r.seen[w].byMode} |->
                      [r.seen[v] EXCEPT !.active = TRUE, !.byMode = FALSE]]
    BY <1>4 DEF Rows, MarkedReactivated
  <2>2. ASSUME NEW u \in Users, accounts'[u].here PROVE ~accounts'[u].byMode
    <3>1. CASE u \in DOMAIN Rows(r)
      <4>0. r.seen[u].here /\ Rows(r)[u] = [r.seen[u] EXCEPT !.active = TRUE, !.byMode = FALSE]
        BY <2>1, <3>1
      <4>1. accounts'[u] = [r.seen[u] EXCEPT !.active = TRUE, !.byMode = FALSE]
        BY <1>0, <3>1, <4>0, CommitWrites
      <4>2. r.seen[u] \in Row
        BY <1>1, <4>0 DEF Absent, Deleted
      <4> QED
        BY <4>1, <4>2 DEF Row
    <3>2. CASE u \notin DOMAIN Rows(r)
      <4>1. accounts'[u] = accounts[u]
        BY <1>0, <3>2, CommitWrites
      <4> QED
        BY <1>3, <2>1, <2>2, <3>2, <4>1
    <3> QED
      BY <3>1, <3>2
  <2>3. Multi'
    BY <1>2, <1>4 DEF Commit, Multi
  <2> QED
    BY <2>2, <2>3 DEF AccountsFit
<1>5. CASE r.job.what = "single"
  <2>1. Rows(r) = [v \in {w \in Users : r.seen[w].here} |->
                      IF v = r.job.by
                      THEN [r.seen[v] EXCEPT !.active = TRUE, !.approved = TRUE, !.byMode = FALSE]
                      ELSE [r.seen[v] EXCEPT !.active = FALSE, !.byMode = r.seen[v].active]]
    BY <1>5 DEF Rows, OnlyActingAdmin
  <2>2. ASSUME NEW u \in Users, accounts'[u].here, accounts'[u].active PROVE u = r.job.by
    <3>1. CASE u \in DOMAIN Rows(r) /\ u # r.job.by
      <4>0. /\ r.seen[u].here
            /\ Rows(r)[u] = [r.seen[u] EXCEPT !.active = FALSE, !.byMode = r.seen[u].active]
        BY <2>1, <3>1
      <4>1. accounts'[u] = [r.seen[u] EXCEPT !.active = FALSE, !.byMode = r.seen[u].active]
        BY <1>0, <3>1, <4>0, CommitWrites
      <4>2. r.seen[u] \in Row
        BY <1>1, <4>0 DEF Absent, Deleted
      <4> QED
        BY <2>2, <4>1, <4>2 DEF Row
    <3>2. CASE u \notin DOMAIN Rows(r)
      <4>1. accounts'[u] = accounts[u]
        BY <1>0, <3>2, CommitWrites
      <4> QED
        BY <1>3, <2>1, <2>2, <3>2, <4>1
    <3> QED
      BY <3>1, <3>2
  <2>3. ~Multi'
    BY <1>2, <1>5 DEF Commit, Multi
  <2> QED
    BY <2>2, <2>3 DEF AccountsFit
<1> QED
  BY <1>1, <1>4, <1>5

\* Any other write that nothing has overtaken leaves them fitting.
LEMMA WriteFits ==
  ASSUME UserInv, AccountsFit, NEW r \in reading, Commit(r), r.job.op # "mode", ~Overtaken(r)
  PROVE  AccountsFit'
<1> USE DEF UserInv, Listed
<1>1. /\ r.job \in Job /\ r.job.op \in {"create", "update", "delete"} /\ r.job.of \in Users
      /\ Checked(r)
  BY JobParts DEF UserTypeOK, ReadingsChecked
<1>2. Multi /\ Multi'
  BY <1>1 DEF Checked, Overtaken, Multi, Commit
<1>3. DOMAIN Rows(r) = {r.job.of}
  BY <1>1 DEF Rows
<1>4. Rows(r)[r.job.of].here => ~Rows(r)[r.job.of].byMode
  <2>1. CASE r.job.op = "create"
    BY <2>1 DEF Rows, Created
  <2>2. CASE r.job.op = "update"
    <3>1. accounts[r.job.of].here
      BY <1>3, <2>2 DEF Commit, Writable
    <3>2. ~accounts[r.job.of].byMode /\ accounts[r.job.of] \in Row
      BY <1>1, <1>2, <3>1, ListedRow DEF AccountsFit
    <3>3. r.seen[r.job.of] = accounts[r.job.of]
      BY <2>2 DEF Overtaken
    <3>4. ~Patched(r.seen[r.job.of], r.job.what).byMode
      BY <3>2, <3>3, PatchedRow
    <3> QED
      BY <2>2, <3>4 DEF Rows
  <2>3. CASE r.job.op = "delete"
    BY <2>3 DEF Rows, Deleted
  <2> QED
    BY <1>1, <2>1, <2>2, <2>3
<1>5. ASSUME NEW u \in Users, accounts'[u].here PROVE ~accounts'[u].byMode
  <2>1. CASE u = r.job.of
    BY <1>3, <1>4, <1>5, <2>1, CommitWrites
  <2>2. CASE u # r.job.of
    BY <1>2, <1>3, <1>5, <2>2, CommitWrites DEF AccountsFit
  <2> QED
    BY <2>1, <2>2
<1> QED
  BY <1>2, <1>5 DEF AccountsFit

\* Accounts cease to fit only by a write that was overtaken, or by a form that
\* saves another mode.
LEMMA FitStep ==
  ASSUME UserInv, [UserNext]_userVars, AccountsFit, ~AccountsFit'
  PROVE  \/ \E r \in reading : Commit(r) /\ Overtaken(r)
         \/ \E j \in jobs : SaveOAuthApps(j) /\ j.what # override
<1>a. ~(UNCHANGED <<accounts, override>>)
  BY DEF AccountsFit, Multi, Listed
<1>1. ASSUME NEW u \in Users, RegisterUser(u) PROVE FALSE
  <2>1. Multi /\ Multi'
    BY <1>1 DEF RegisterUser, Multi
  <2>2. ASSUME NEW v \in Users, accounts'[v].here PROVE ~accounts'[v].byMode
    <3>1. CASE v = u
      BY <1>1, <3>1 DEF RegisterUser, UserInv, UserTypeOK
    <3>2. CASE v # u
      BY <1>1, <2>1, <2>2, <3>2 DEF RegisterUser, UserInv, UserTypeOK, AccountsFit, Listed
    <3> QED
      BY <3>1, <3>2
  <2> QED
    BY <2>1, <2>2 DEF AccountsFit, Listed
<1>2. ASSUME NEW r \in reading, Commit(r) PROVE Overtaken(r)
  BY <1>2, SwitchFits, WriteFits
<1>3. ASSUME NEW j \in jobs, SaveOAuthApps(j) PROVE j.what # override
  BY <1>3, <1>a DEF SaveOAuthApps
<1>4. (\E r \in reading : Commit(r)) \/ \E j \in jobs : SaveOAuthApps(j)
  BY <1>a, <1>1 DEF UserNext, userVars, Admit, ReadForCreate, ReadForUpdate, ReadForDelete,
                    ReadForSwitch, Starts, ResetCredentials, Refused, RollBack
<1> QED
  BY <1>2, <1>3, <1>4

-----------------------------------------------------------------------------
(* The server alone. *)

\* The first start: one administrator, and nobody asks.
LEMMA FirstStart ==
  ASSUME UserInit
  PROVE  UserInv
<1> USE UserAdministrationAssumption DEF UserInit
<1>1. UserTypeOK
  BY DEF UserTypeOK, Row
<1>2. ReadingsChecked
  BY DEF ReadingsChecked
<1> QED
  BY <1>1, <1>2 DEF UserInv

\* Every account is a row or absent, and every job a request the filter may
\* let in, however transactions overlap.
THEOREM TypeCorrect == UserSpec => []UserTypeOK
<1>1. UserInit => UserInv
  BY FirstStart
<1>2. UserInv /\ [UserNext]_userVars => UserInv'
  BY UserInvStep
<1>3. UserInv => UserTypeOK
  BY DEF UserInv
<1> QED
  BY <1>1, <1>2, <1>3, PTL DEF UserSpec

\* Whatever is asked for in which order, however transactions overlap and
\* whichever mode is switched to: the last administrator is lost only to a write
\* whose own count, made when it read, is not true any more when it commits
\* (updateUser, deleteUser, switchToSingleUserMode).
THEOREM AdminAlwaysRemains == UserSpec => AtLeastOneAdmin
<1>1. UserInit => UserInv
  BY FirstStart
<1>2. UserInv /\ [UserNext]_userVars => UserInv'
  BY UserInvStep
<1>3. UserInv /\ [UserNext]_userVars
      => [ApprovedAdmins # {} /\ ApprovedAdmins' = {}
             => \E r \in reading : Commit(r) /\ Miscounted(r)]_userVars
  BY AdminStep
<1> QED
  BY <1>1, <1>2, <1>3, PTL DEF UserSpec, AtLeastOneAdmin

\* A switch of the mode makes the accounts fit it, one that can sign in without
\* the other users, nobody left suspended once they are back; and they cease to
\* fit only by a write of rows or a mode that others have written since they were
\* read, or by an OAuth form that saves the mode it was loaded with.
THEOREM ModeAlwaysMatches == UserSpec => ModeMatchesAccounts
<1>1. UserInit => UserInv
  BY FirstStart
<1>2. UserInv /\ [UserNext]_userVars => UserInv'
  BY UserInvStep
<1>3. UserInv /\ [UserNext]_userVars
      => [\A r \in reading : Commit(r) /\ r.job.op = "mode" /\ ~Overtaken(r)
             => AccountsFit']_userVars
  BY SwitchFits
<1>4. UserInv /\ [UserNext]_userVars
      => [AccountsFit /\ ~AccountsFit'
             => \/ \E r \in reading : Commit(r) /\ Overtaken(r)
                \/ \E j \in jobs : SaveOAuthApps(j) /\ j.what # override]_userVars
  BY FitStep
<1> QED
  BY <1>1, <1>2, <1>3, <1>4, PTL DEF UserSpec, ModeMatchesAccounts

-----------------------------------------------------------------------------
(* The page before the server. *)

\* The page asks for everything but the OAuth form.
PageOps == Ops \ {"oauth"}
Asks(c) == c.op \in PageOps /\ c.of \in Users /\ c.what \in Carries(c.op)

\* A confirmation, and what was sent, is a request the page makes.
PageInv ==
    /\ confirm # None => Asks(confirm)
    /\ \A c \in calls : c.job.op \in PageOps

\* What the page sends is a request of its administrator, if anything.
LEMMA SendIsAdmitted ==
  ASSUME PageInv, NEW c, Asks(c), NEW confirmed, Send(c, confirmed)
  PROVE  PageInv' /\ [UserNext]_userVars
<1> DEFINE j == [by |-> Me, op |-> c.op, of |-> c.of, what |-> c.what, page |-> TRUE]
<1>1. j \in Job
  BY JobMade, UserAdministrationAssumption DEF Me, Asks, PageOps
<1>2. UNCHANGED confirm
  BY DEF Send, pageVars
<1>3. CASE Admitted(Me)
  <2> DEFINE call == [job |-> j, phase |-> "sent", believed |-> knows,
                      selected |-> selected, confirmed |-> confirmed]
  <2>1. Admit(j) /\ calls' = calls \cup {call}
    BY <1>3 DEF Send
  <2>2. call.job.op \in PageOps
    BY DEF Asks
  <2>3. PageInv'
    BY <1>2, <2>1, <2>2 DEF PageInv, Asks
  <2> QED
    BY <1>1, <2>1, <2>3 DEF UserNext
<1>4. CASE ~Admitted(Me)
  BY <1>2, <1>4 DEF Send, PageInv, Asks
<1> QED
  BY <1>3, <1>4

\* What a row offers, a request is made of.
LEMMA OfferedOK ==
  ASSUME NEW u \in Users, NEW c \in Offered(u)
  PROVE  Asks(c)
BY DEF Offered, Ops, Carries, Patches, Asks, PageOps

\* Marking a call with how it went does not change what it asked for.
LEMMA OutcomeOK ==
  ASSUME PageInv, NEW j, NEW phase, Outcome(j, phase)
  PROVE  \A c \in calls' : c.job.op \in PageOps
<1> SUFFICES ASSUME NEW c \in calls' PROVE c.job.op \in PageOps
  OBVIOUS
<1>1. PICK d \in calls : c = IF d.job = j /\ j.page THEN [d EXCEPT !.phase = phase] ELSE d
  BY DEF Outcome
<1>2. c.job = d.job
  BY <1>1
<1> QED
  BY <1>2 DEF PageInv

\* A step of the page is a step of the server, or none.
LEMMA PageStep ==
  ASSUME PageInv, [ConsoleUsersNext]_vars
  PROVE  PageInv' /\ [UserNext]_userVars
<1>a. ASSUME UNCHANGED userVars, UNCHANGED confirm \/ confirm' = None, calls' \subseteq calls
      PROVE  PageInv' /\ [UserNext]_userVars
  BY <1>a DEF PageInv, Asks
<1>b. ASSUME UserNext, UNCHANGED confirm, \A c \in calls' : c.job.op \in PageOps
      PROVE  PageInv' /\ [UserNext]_userVars
  BY <1>b DEF PageInv, Asks
<1> USE DEF pageVars, flights
<1>1. CASE UNCHANGED vars
  BY <1>1, <1>a DEF vars
<1>2. CASE Refresh
  BY <1>2, <1>a DEF Refresh
<1>3. ASSUME NEW j \in jobs, Serve(j) \/ Refuse(j) \/ Read(j)
      PROVE  PageInv' /\ [UserNext]_userVars
  <2>1. UserNext
    BY <1>3 DEF Serve, Refuse, Read, UserNext
  <2>2. \A c \in calls' : c.job.op \in PageOps
    BY <1>3, OutcomeOK DEF Serve, Refuse, Read, PageInv
  <2> QED
    BY <1>3, <2>1, <2>2, <1>b DEF Serve, Refuse, Read, Unseen
<1>4. ASSUME NEW r \in reading, Write(r) PROVE PageInv' /\ [UserNext]_userVars
  BY <1>4, <1>b, OutcomeOK DEF Write, UserNext, Unseen
<1>5. CASE HearMode
  BY <1>5, <1>a DEF HearMode
<1>6. ASSUME NEW c \in calls, Answered(c) PROVE PageInv' /\ [UserNext]_userVars
  <2>1. c.job.op \in {"create", "update", "password", "passkeys", "delete", "mode"}
    BY DEF PageInv, PageOps, Ops
  <2>2. UNCHANGED confirm \/ confirm' = None
    BY <1>6, <2>1 DEF Answered
  <2>3. UNCHANGED userVars /\ calls' \subseteq calls
    BY <1>6 DEF Answered
  <2> QED
    BY <2>2, <2>3, <1>a
<1>7. ASSUME NEW c \in calls, Failed(c) PROVE PageInv' /\ [UserNext]_userVars
  BY <1>7, <1>a DEF Failed
<1>8. ASSUME NEW l \in loads, ApplyLoad(l) PROVE PageInv' /\ [UserNext]_userVars
  BY <1>8, <1>a DEF ApplyLoad
<1>9. ASSUME NEW d \in details, ApplyDetail(d) PROVE PageInv' /\ [UserNext]_userVars
  BY <1>9, <1>a DEF ApplyDetail
<1>10. CASE Elsewhere
  <2>1. UserNext
    BY <1>10, ConsoleUsersAssumption DEF Elsewhere, UserNext
  <2> QED
    BY <1>10, <2>1, <1>b DEF Elsewhere, PageInv
<1>11. ASSUME NEW l \in loads, LoseLoad(l) PROVE PageInv' /\ [UserNext]_userVars
  BY <1>11, <1>a DEF LoseLoad
<1>12. CASE LoseMode
  BY <1>12, <1>a DEF LoseMode
<1>13. ASSUME NEW u \in Users, ToggleExpanded(u) PROVE PageInv' /\ [UserNext]_userVars
  BY <1>13, <1>a DEF ToggleExpanded
<1>14. ASSUME NEW u \in Users, AskForAccount(u) PROVE PageInv' /\ [UserNext]_userVars
  BY <1>14, OfferedOK DEF AskForAccount, AskConfirmation, PageInv, Asks
<1>15. ASSUME NEW u \in Users, UpdateAtOnce(u) PROVE PageInv' /\ [UserNext]_userVars
  <2>1. PICK p \in Immediate(u) : Send([op |-> "update", of |-> u, what |-> p], FALSE)
    BY <1>15 DEF UpdateAtOnce
  <2>2. Asks([op |-> "update", of |-> u, what |-> p])
    BY DEF Immediate, Carries, Patches, Asks, PageOps, Ops
  <2> QED
    BY <2>1, <2>2, SendIsAdmitted
<1>16. ASSUME NEW u \in Users, SubmitPassword(u) PROVE PageInv' /\ [UserNext]_userVars
  <2>1. Asks([op |-> "password", of |-> u, what |-> None])
    BY DEF Carries, Asks, PageOps, Ops
  <2> QED
    BY <1>16, <2>1, SendIsAdmitted DEF SubmitPassword
<1>17. CASE AskForMode
  <2>1. Asks([op |-> "mode", of |-> Me, what |-> IF knows THEN "single" ELSE "multi"])
    BY UserAdministrationAssumption DEF Carries, Asks, PageOps, Ops, Me
  <2> QED
    BY <1>17, <2>1 DEF AskForMode, AskConfirmation, PageInv, Asks
<1>18. CASE CancelConfirmation
  BY <1>18, <1>a DEF CancelConfirmation, AskConfirmation
<1>19. CASE Confirm
  BY <1>19, SendIsAdmitted DEF Confirm, PageInv
<1>20. ASSUME NEW u \in Users, NEW role \in {"USER", "ADMIN"}, SubmitUser(u, role)
       PROVE  PageInv' /\ [UserNext]_userVars
  <2>1. Asks([op |-> "create", of |-> u, what |-> role])
    BY DEF Carries, Asks, PageOps, Ops
  <2> QED
    BY <1>20, <2>1, SendIsAdmitted DEF SubmitUser
<1> QED
  BY <1>1, <1>2, <1>3, <1>4, <1>5, <1>6, <1>7, <1>8, <1>9, <1>10, <1>11, <1>12, <1>13,
     <1>14, <1>15, <1>16, <1>17, <1>18, <1>19, <1>20
     DEF ConsoleUsersNext, Server, Answers, LoadsArrive, DetailsArrive

\* Whatever the page shows, confirms, loads and loses, the server with it is
\* the server alone: what holds of UserSpec holds while this page and others
\* drive it.
THEOREM PageImplementsServer == ConsoleUsersSpec => UserSpec
<1>1. ConsoleUsersInit => UserInit /\ PageInv
  BY DEF ConsoleUsersInit, PageInv
<1>2. PageInv /\ [ConsoleUsersNext]_vars => PageInv' /\ [UserNext]_userVars
  BY PageStep
<1> QED
  BY <1>1, <1>2, PTL DEF ConsoleUsersSpec, UserSpec

-----------------------------------------------------------------------------
(* The settings' dialogs. *)

Form == [of : Sources \cup {NoSource}, value : Values]

Request == [how : {"save", "reset"}, of : Sources \cup {NoSource}, value : Values,
            form : Sources \cup {NoSource}, phase : {"sent", "stored"}, believes : BOOLEAN,
            over : BOOLEAN]

\* What the dialogs of settings and their requests are made of.
SettingsTypeOK ==
    /\ kind \in Kinds
    /\ stored \in [Owners -> Values]
    /\ form \in Form
    /\ dirty \in BOOLEAN /\ shown \in BOOLEAN /\ timer \in BOOLEAN
    /\ straddled \in BOOLEAN
    /\ target \in Sources \cup {NoSource}
    /\ reads \subseteq IF kind = "source" THEN [of : Sources, value : Values]
                       ELSE [value : Values, believes : BOOLEAN]
    /\ saves \subseteq Request

\* A source's dialog that was asked for over nothing, its one load and its one
\* request are about the source noted; a request outlives its dialog, and no
\* load is beside it.  The other forms have no source.
DialogIsItsSource ==
    IF kind = "source" THEN straddled \/
        /\ \A r \in reads : r.of = target
        /\ \A q, r \in reads : q = r
        /\ shown => reads = {} /\ target # NoSource /\ form.of = target
        /\ \A c \in saves : reads = {} /\ (shown => c.of = target)
    ELSE target = NoSource /\ form.of = NoSource

SettingsInv == SettingsTypeOK /\ DialogIsItsSource /\ EachSourceGetsItsOwn

\* An edit or a load gives a form another value, of the same source.
LEMMA FormKept ==
  ASSUME NEW f \in Form, NEW v \in Values
  PROVE  [f EXCEPT !.value = v] \in Form /\ [f EXCEPT !.value = v].of = f.of
<1>1. [f EXCEPT !.value = v] = [of |-> f.of, value |-> v] /\ f.of \in Sources \cup {NoSource}
  BY DEF Form
<1> QED
  BY <1>1 DEF Form

\* A load is of a value, and remembers whether the form is dirty.
LEMMA ReadMade ==
  ASSUME NEW v \in Values, NEW b \in BOOLEAN
  PROVE  [value |-> v, believes |-> b] \in [value : Values, believes : BOOLEAN]
BY Zenon

\* A request is made of its parts.
LEMMA RequestMade ==
  ASSUME NEW how \in {"save", "reset"}, NEW s \in Sources \cup {NoSource}, NEW v \in Values,
         NEW t \in Sources \cup {NoSource}, NEW b \in BOOLEAN, NEW o \in BOOLEAN
  PROVE  [how |-> how, of |-> s, value |-> v, form |-> t, phase |-> "sent",
          believes |-> b, over |-> o] \in Request
<1>1. ASSUME NEW S, NEW c \in S, NEW d \in S
      PROVE  [how |-> how, of |-> s, value |-> v, form |-> t, phase |-> "sent",
              believes |-> c, over |-> d]
                \in [how : {"save", "reset"}, of : Sources \cup {NoSource}, value : Values,
                    form : Sources \cup {NoSource}, phase : {"sent", "stored"}, believes : S,
                    over : S]
  OBVIOUS
<1> QED
  BY <1>1, Zenon DEF Request

\* One that is stored is for the same source, from the same form.
LEMMA RequestStored ==
  ASSUME NEW c \in Request
  PROVE  LET d == [c EXCEPT !.phase = "stored"]
         IN  d \in Request /\ d.of = c.of /\ d.form = c.form /\ d.over = c.over
BY DEF Request

\* No dialog is open at first.
LEMMA SettingsInitHolds == SettingsInit => SettingsInv
<1> SUFFICES ASSUME SettingsInit
             PROVE  SettingsInv
  OBVIOUS
<1>1. form \in Form /\ form.of = NoSource
  BY ConsoleSettingsAssumption DEF SettingsInit, Form
<1> QED
  BY <1>1, ConsoleSettingsAssumption
  DEF SettingsInit, SettingsInv, SettingsTypeOK, DialogIsItsSource, EachSourceGetsItsOwn, Owners

\* A load of the page that starts, comes or fails to come.
LEMMA LoadsKeepSettings ==
  ASSUME SettingsInv,
         \/ TimerLoads \/ LoadAgain \/ RestartTimer
         \/ \E r \in reads : ReadArrives(r) \/ ReadFails(r)
  PROVE  SettingsInv'
<1> USE DEF SettingsInv, SettingsTypeOK, DialogIsItsSource, EachSourceGetsItsOwn
<1>1. ASSUME NEW b \in BOOLEAN, StartRead(b)
      PROVE  SettingsInv'
  <2>1. stored[NoSource] \in Values
    BY <1>1 DEF StartRead, Owners
  <2>2. Snapshot(b) \in [value : Values, believes : BOOLEAN]
    BY <2>1, ReadMade DEF Snapshot
  <2> QED
    BY <1>1, <2>2 DEF StartRead, Owners
<1>2. CASE RestartTimer
  BY <1>2 DEF RestartTimer, Owners
<1>3. ASSUME NEW r \in reads, ReadArrives(r)
      PROVE  SettingsInv'
  <2>1. r.value \in Values
    BY <1>3 DEF ReadArrives
  <2>2. form' \in Form /\ form'.of = form.of /\ dirty' \in BOOLEAN
    BY <1>3, <2>1, FormKept DEF ReadArrives, Applied
  <2> QED
    BY <1>3, <2>2 DEF ReadArrives, Owners
<1>4. ASSUME NEW r \in reads, ReadFails(r)
      PROVE  SettingsInv'
  BY <1>4 DEF ReadFails, Owners
<1> QED
  BY <1>1, <1>2, <1>3, <1>4 DEF TimerLoads, LoadAgain

\* What the user does with the dialog, and what is changed elsewhere.
LEMMA DialogKeepsSettings ==
  ASSUME SettingsInv,
         \/ OpenSome \/ Close \/ \E v \in Values : EditSome(v)
         \/ \E s \in Sources \cup {NoSource}, v \in Values : ChangedElsewhere(s, v)
  PROVE  SettingsInv'
<1> USE DEF SettingsInv, SettingsTypeOK, DialogIsItsSource, EachSourceGetsItsOwn
<1>1. CASE OpenSome
  BY <1>1 DEF OpenSome, OpenUserPolling, OpenSystemPolling, OpenOAuthApps, OpenSecurity, Open,
              Owners
<1>2. CASE Close
  <2>1. form' \in Form /\ (kind # "source" => form' = form)
    BY <1>2, ConsoleSettingsAssumption DEF Close, Form
  <2>2. shown
    BY <1>2 DEF Close, Visible
  <2> QED
    BY <1>2, <2>1, <2>2 DEF Close, Owners
<1>3. ASSUME NEW v \in Values, EditSome(v)
      PROVE  SettingsInv'
  <2>1. \E k : Edit(k, v)
    BY <1>3 DEF EditSome, EditUserPolling, EditSystemPolling, EditOAuthApps, EditSecurity,
                EditSourcePolling
  <2>2. /\ form' = [form EXCEPT !.value = v] /\ dirty' = TRUE
        /\ UNCHANGED <<kind, stored, shown, target, reads, saves, timer, slips, straddled>>
    BY <2>1 DEF Edit
  <2>3. form' \in Form /\ form'.of = form.of
    BY <2>2, FormKept
  <2> QED
    BY <2>2, <2>3 DEF Owners
<1>4. ASSUME NEW s, NEW v \in Values, ChangedElsewhere(s, v)
      PROVE  SettingsInv'
  BY <1>4 DEF ChangedElsewhere, Task, Owners
<1> QED
  BY <1>1, <1>2, <1>3, <1>4

\* A request that is sent, stored, answered or lost.
LEMMA SavesKeepSettings ==
  ASSUME SettingsInv,
         \/ Save \/ Reset
         \/ \E c \in saves : Stored(c) \/ Confirmed(c) \/ SaveFails(c)
  PROVE  SettingsInv'
<1> USE DEF SettingsInv, SettingsTypeOK, DialogIsItsSource, EachSourceGetsItsOwn
<1>1. ASSUME NEW how \in {"save", "reset"}, NEW v \in Values, Submit(how, v)
      PROVE  SettingsInv'
  <2>1. (straddled \/ target = form.of) /\ form.of \in Sources \cup {NoSource}
    BY <1>1 DEF Submit, Visible, Form
  <2> DEFINE c == [how |-> how, of |-> target, value |-> v, form |-> form.of,
                   phase |-> "sent", believes |-> dirty, over |-> straddled]
  <2>2. c \in Request
    BY <2>1, RequestMade
  <2>3. saves' = {c}
    BY <1>1, <2>1 DEF Submit, Visible
  <2>4. c.of = target /\ (c.over \/ c.form = c.of)
    BY <2>1
  <2> HIDE DEF c
  <2> QED
    BY <1>1, <2>2, <2>3, <2>4 DEF Submit, Visible, Task, Owners
<1>2. ASSUME NEW c \in saves, Stored(c)
      PROVE  SettingsInv'
  <2>1. c \in Request /\ c.value \in Values
    BY DEF Request
  <2> DEFINE d == [c EXCEPT !.phase = "stored"]
  <2>2. d \in Request /\ d.of = c.of /\ d.form = c.form /\ d.over = c.over
    BY <2>1, RequestStored
  <2>3. saves' = {d}
    BY <1>2 DEF Stored
  <2> HIDE DEF d
  <2> QED
    BY <1>2, <2>1, <2>2, <2>3 DEF Stored, Owners
<1>3. ASSUME NEW c \in saves, Confirmed(c)
      PROVE  SettingsInv'
  <2>1. c.value \in Values /\ c.of \in Sources \cup {NoSource}
    BY DEF Request
  <2>2. CASE kind = "source"
    <3>1. form' \in Form /\ (c.how = "reset" => form'.of = c.of)
      BY <1>3, <2>1, <2>2, ConsoleSettingsAssumption DEF Confirmed, Form, Request
    <3> QED
      BY <1>3, <2>2, <3>1 DEF Confirmed, Cleared, Owners
  <2>3. CASE kind # "source"
    <3>1. form' \in Form /\ form'.of = form.of
      BY <1>3, <2>1, <2>3, FormKept DEF Confirmed
    <3>2. reads' \subseteq [value : Values, believes : BOOLEAN]
      BY <1>3, <2>3, ReadMade DEF Confirmed, Owners, Request
    <3> QED
      BY <1>3, <2>3, <3>1, <3>2 DEF Confirmed, Cleared, Owners
  <2> QED
    BY <2>2, <2>3
<1>4. ASSUME NEW c \in saves, SaveFails(c)
      PROVE  SettingsInv'
  BY <1>4 DEF SaveFails, Owners
<1>5. Save => Submit("save", form.value) /\ form.value \in Values
  BY DEF Save, Form
<1>6. Reset => Submit("reset", Default) /\ Default \in Values
  BY ConsoleSettingsAssumption DEF Reset
<1> QED
  BY <1>1, <1>2, <1>3, <1>4, <1>5, <1>6

\* A source that is noted over what another has left is noted as such.
LEMMA SourceKeepsSettings ==
  ASSUME SettingsInv,
         (\E s \in Sources : AskForSource(s)) \/ \E r \in reads : SourceArrives(r)
  PROVE  SettingsInv'
<1> USE DEF SettingsInv, SettingsTypeOK, DialogIsItsSource, EachSourceGetsItsOwn
<1>1. ASSUME NEW s \in Sources, AskForSource(s)
      PROVE  SettingsInv'
  <2> DEFINE r == [of |-> s, value |-> stored[s]]
  <2>1. r \in [of : Sources, value : Values] /\ r.of = s
    BY <1>1 DEF AskForSource, Owners
  <2>2. /\ kind = "source" /\ target' = s /\ reads' = reads \cup {r} /\ straddled' = Leftover
        /\ UNCHANGED <<kind, stored, form, dirty, saves, shown, timer>>
    BY <1>1 DEF AskForSource
  <2> HIDE DEF r
  <2>3. SettingsTypeOK'
    BY <2>1, <2>2 DEF Leftover, Owners
  <2>4. straddled' \/ (reads = {} /\ saves = {} /\ ~shown)
    BY <2>2 DEF Leftover
  <2> QED
    BY <2>1, <2>2, <2>3, <2>4
<1>2. ASSUME NEW r \in reads, SourceArrives(r)
      PROVE  SettingsInv'
  <2>1. r \in Form
    BY <1>2 DEF SourceArrives, Form
  <2>2. straddled \/ (r.of = target /\ reads' = {})
    BY <1>2 DEF SourceArrives
  <2> QED
    BY <1>2, <2>1, <2>2 DEF SourceArrives, Owners
<1> QED
  BY <1>1, <1>2

\* Every step of page and server keeps the dialogs' invariant.
LEMMA SettingsInvNext == SettingsInv /\ [SettingsNext]_settingsVars => SettingsInv'
<1> SUFFICES ASSUME SettingsInv, [SettingsNext]_settingsVars
             PROVE  SettingsInv'
  OBVIOUS
<1>1. CASE UNCHANGED settingsVars
  BY <1>1 DEF settingsVars, SettingsInv, SettingsTypeOK, DialogIsItsSource,
              EachSourceGetsItsOwn, Owners
<1> QED
  BY <1>1, LoadsKeepSettings, DialogKeepsSettings, SavesKeepSettings, SourceKeepsSettings
  DEF SettingsNext, ReadsArrive, SavesEnd

\* What is saved or reset for a source was loaded for that source, unless its
\* dialog was asked for while an earlier load or save was under way, or over one
\* that such a load had left open (openFetcherPollingDialog,
\* saveFetcherPollingSettings): whatever the loads, saves, losses and dialogs
\* before it were.
THEOREM EachSourceAlwaysGetsItsOwn == SettingsSpec => []EachSourceGetsItsOwn
<1>1. SettingsInv => EachSourceGetsItsOwn
  BY DEF SettingsInv
<1> QED
  BY SettingsInitHolds, SettingsInvNext, <1>1, PTL DEF SettingsSpec

-----------------------------------------------------------------------------
(* The challenges of a registration. *)

\* A solution was let through at most once, and one that was is used up or too old.
CountedOnce ==
    \A c \in Challenges : checked[c] \in {0, 1} /\ (checked[c] = 1 => c \in used \cup expired)

RegistrationInv == checked \in [Challenges -> Nat] /\ CountedOnce

\* Forgetting what is too old makes nothing new: a solution is used up or too old after
\* the check of it, and let through only if it was neither.
LEMMA ConsumeCounts ==
  ASSUME RegistrationInv, NEW token, Consume(token), UNCHANGED expired
  PROVE  RegistrationInv'
<1>1. CASE ~(captcha = "ALTCHA" /\ token \in Challenges)
  BY <1>1 DEF Consume, RegistrationInv, CountedOnce
<1>2. CASE captcha = "ALTCHA" /\ token \in Challenges
  <2>1. Passes(token) <=> token \notin used \cup expired
    BY <1>2 DEF Passes, Purged
  <2>2. used' \cup expired' = used \cup expired \cup {token}
    BY <1>2, <2>1 DEF Consume, Purged
  <2>3. checked' = [checked EXCEPT ![token] = @ + (IF Passes(token) THEN 1 ELSE 0)]
    BY <1>2 DEF Consume
  <2>4. checked' \in [Challenges -> Nat] /\ \A c \in Challenges \ {token} : checked'[c] = checked[c]
    BY <1>2, <2>3 DEF RegistrationInv
  <2>5. checked'[token] \in {0, 1}
    <3>1. CASE Passes(token)
      <4>1. checked[token] = 0
        BY <1>2, <2>1, <3>1 DEF RegistrationInv, CountedOnce
      <4> QED
        BY <1>2, <2>3, <3>1, <4>1 DEF RegistrationInv
    <3>2. CASE ~Passes(token)
      BY <1>2, <2>3, <3>2 DEF RegistrationInv, CountedOnce
    <3> QED
      BY <3>1, <3>2
  <2> QED
    BY <2>2, <2>4, <2>5 DEF RegistrationInv, CountedOnce
<1> QED
  BY <1>1, <1>2

\* A challenge that is issued is told apart from all before it.
LEMMA IssueCounts ==
  ASSUME RegistrationInv, NEW i, IssueChallenge(i)
  PROVE  RegistrationInv'
<1>1. CASE UNCHANGED <<used, expired, checked>>
  BY <1>1 DEF RegistrationInv, CountedOnce
<1>2. ASSUME NEW c, used' = used \ {c}, expired' = expired \ {c},
             checked' = [checked EXCEPT ![c] = 0]
      PROVE  RegistrationInv'
  <2>1. /\ checked' \in [Challenges -> Nat]
        /\ \A d \in Challenges : checked'[d] = IF d = c THEN 0 ELSE checked[d]
    BY <1>2 DEF RegistrationInv
  <2> QED
    BY <1>2, <2>1 DEF RegistrationInv, CountedOnce
<1>3. CASE captcha = "ALTCHA"
  <2>1. PICK c : /\ used' = used \ {c} /\ expired' = expired \ {c}
                 /\ checked' = [checked EXCEPT ![c] = 0]
    BY <1>3, Zenon DEF IssueChallenge
  <2> QED
    BY <1>2, <2>1
<1>4. CASE captcha # "ALTCHA"
  BY <1>1, <1>4, Zenon DEF IssueChallenge
<1> QED
  BY <1>3, <1>4

\* Every other step leaves the server's lists alone, or finds a challenge too old.
LEMMA RegistrationInvNext ==
  RegistrationInv /\ [RegistrationNext]_registrationVars => RegistrationInv'
<1> SUFFICES ASSUME RegistrationInv, [RegistrationNext]_registrationVars
             PROVE  RegistrationInv'
  OBVIOUS
<1>1. CASE UNCHANGED <<used, expired, checked>>
  BY <1>1 DEF RegistrationInv, CountedOnce
<1>2. ASSUME NEW i, IssueChallenge(i)
      PROVE  RegistrationInv'
  BY <1>2, IssueCounts
<1>3. CASE Register
  <2>1. CASE blocked
    BY <1>1, <1>3, <2>1 DEF Register
  <2>2. CASE ~blocked
    BY <1>3, <2>2, ConsumeCounts DEF Register
  <2> QED
    BY <2>1, <2>2
<1>4. ASSUME NEW c, ChallengeExpires(c)
      PROVE  RegistrationInv'
  BY <1>4 DEF ChallengeExpires, RegistrationInv, CountedOnce
<1>5. ASSUME NEW i, ChallengeArrives(i) \/ ChallengeIsLost(i)
      PROVE  UNCHANGED <<used, expired, checked>>
  BY <1>5 DEF ChallengeArrives, ChallengeIsLost, captchaVars
<1>6. ASSUME NEW c, Solved(c) \/ SolvingFails(c)
      PROVE  UNCHANGED <<used, expired, checked>>
  BY <1>6 DEF Solved, SolvingFails, captchaVars
<1>7. ASSUME NEW o, OpenRegisterDialog(o) \/ LoadScript(o) \/ ChangeCaptcha(o)
      PROVE  UNCHANGED <<used, expired, checked>>
  BY <1>7 DEF OpenRegisterDialog, LoadScript, ChangeCaptcha, captchaVars
<1>8. CASE CloseRegisterDialog \/ Solve \/ ResetSolution \/ WidgetSolved \/ WidgetExpires
  BY <1>1, <1>8 DEF CloseRegisterDialog, Solve, ResetSolution, WidgetSolved, WidgetExpires,
                    captchaVars
<1>9. CASE TakeAnotherName \/ Apply \/ RegisterAccepted \/ RegisterRefused \/ RegisterIsLost
  BY <1>1, <1>9 DEF TakeAnotherName, Apply, RegisterAccepted, RegisterRefused,
                    RegisterIsLost, RegisterFails, captchaVars
<1>10. CASE CooldownEnds \/ BlockEnds \/ UNCHANGED registrationVars
  BY <1>1, <1>10 DEF CooldownEnds, BlockEnds, registrationVars, captchaVars
<1>11. CASE \E i \in DOMAIN fetches : IssueChallenge(i) \/ ChallengeArrives(i) \/ ChallengeIsLost(i)
  BY <1>1, <1>2, <1>5, <1>11
<1>12. CASE \E c \in Challenges : Solved(c) \/ SolvingFails(c) \/ ChallengeExpires(c)
  BY <1>1, <1>4, <1>6, <1>12
<1>13. CASE \E o \in {"taken", NoName} : OpenRegisterDialog(o)
  BY <1>1, <1>7, <1>13
<1>14. CASE \E o \in {"loaded", "failed"} : LoadScript(o)
  BY <1>1, <1>7, <1>14
<1>15. CASE \E o \in Providers \cup {"off"} : ChangeCaptcha(o)
  BY <1>1, <1>7, <1>15
<1> QED
  BY <1>3, <1>8, <1>9, <1>10, <1>11, <1>12, <1>13, <1>14, <1>15 DEF RegistrationNext

\* However late solutions arrive and however often they are sent again, the solution
\* of a challenge lets one registration through at most
\* (RegistrationChallengeService.validateAltcha and the list of used challenges).
THEOREM SolutionsAlwaysCountOnce == RegistrationSpec => []SolutionsCountOnce
<1>1. RegistrationInit => RegistrationInv
  BY DEF RegistrationInit, RegistrationInv, CountedOnce
<1>2. RegistrationInv => SolutionsCountOnce
  BY DEF RegistrationInv, CountedOnce, SolutionsCountOnce
<1> QED
  BY RegistrationInvNext, <1>1, <1>2, PTL DEF RegistrationSpec

-----------------------------------------------------------------------------
(* The calls of ConsoleSession's page. *)

\* The values of a call's fields.
Keys == {"", "login", "passkeyLogin"}
Replies == {"none", "ok", "401", "400", "passkey", "lost"}

\* Of n logins, a call names logins that were made, and signs in an account.
Known(c, n) ==
    /\ c.as <= n /\ c.what <= n
    /\ c.kind \in {"login", "verify"} => c.user \in Accounts
CallsHold(cs, n) == cs \subseteq Call /\ \A c \in cs : Known(c, n)

\* The calls in flight name logins that were made.
SessionInv == SessionTypeOK /\ CallsHold(pageCalls, Len(logins))

\* What a call is made of.
LEMMA CallParts ==
  ASSUME NEW c \in Call
  PROVE  /\ c.kind \in CallKinds /\ c.as \in Login /\ c.user \in Someone /\ c.key \in Keys
         /\ c.what \in Login /\ c.reply \in Replies
BY DEF Call, Keys, Replies

\* A call leaves unanswered, with what it was made of.
LEMMA Sending ==
  ASSUME NEW k \in CallKinds, NEW l \in Login, NEW u \in Someone, NEW b \in Keys, NEW w \in Login
  PROVE  /\ Sent(k, l, u, b, w) \in Call
         /\ LET c == Sent(k, l, u, b, w)
            IN  c.kind = k /\ c.as = l /\ c.user = u /\ c.what = w /\ c.reply = "none"
<1>1. Sent(k, l, u, b, w) \in Call
  BY Zenon DEF Sent, Call, Keys
<1>2. LET c == Sent(k, l, u, b, w)
      IN  c.kind = k /\ c.as = l /\ c.user = u /\ c.what = w /\ c.reply = "none"
  BY DEF Sent
<1> QED
  BY <1>1, <1>2

\* An answer, and a page that no longer waits for one, change nothing else of a call.
LEMMA Replying ==
  ASSUME NEW c \in Call, NEW r \in Replies, NEW w \in Login
  PROVE  /\ WithReply(c, r, w) \in Call
         /\ WithReply(c, r, w).kind = c.kind /\ WithReply(c, r, w).as = c.as
         /\ WithReply(c, r, w).user = c.user
         /\ WithReply(c, r, w).reply = r /\ WithReply(c, r, w).what = w
<1>1. [c EXCEPT !.reply = r] \in Call
  BY Zenon DEF Call, Replies
<1>2. WithReply(c, r, w) = [[c EXCEPT !.reply = r] EXCEPT !.what = w]
  BY DEF WithReply, Call
<1>3. [[c EXCEPT !.reply = r] EXCEPT !.what = w] \in Call
  BY <1>1, Zenon DEF Call
<1>4. LET d == WithReply(c, r, w)
      IN  d.kind = c.kind /\ d.as = c.as /\ d.user = c.user /\ d.reply = r /\ d.what = w
  BY DEF WithReply, Call
<1> QED
  BY <1>2, <1>3, <1>4

\* An ignored call stays a call and keeps all but the page's ear.
LEMMA Ignoring ==
  ASSUME NEW c \in Call
  PROVE  /\ Ignored(c) \in Call
         /\ Ignored(c).kind = c.kind /\ Ignored(c).as = c.as /\ Ignored(c).user = c.user
         /\ Ignored(c).reply = c.reply /\ Ignored(c).what = c.what
<1>1. Ignored(c) \in Call
  BY Zenon DEF Ignored, Call
<1>2. LET d == Ignored(c)
      IN  d.kind = c.kind /\ d.as = c.as /\ d.user = c.user /\ d.reply = c.reply /\ d.what = c.what
  BY DEF Ignored, Call
<1> QED
  BY <1>1, <1>2

\* The bounds every proof below needs.
LEMMA SessionShape ==
  ASSUME SessionInv
  PROVE  /\ logins \in Seq(Accounts) /\ Len(logins) \in Nat /\ Len(logins) <= MaxLogins
         /\ cookie \in 0 .. Len(logins) /\ cookie \in Login /\ session \in Someone
         /\ MaxLogins \in Nat /\ 0 \in Login /\ Nobody \in Someone
         /\ live \subseteq 1 .. Len(logins)
BY SessionAssumption DEF SessionInv, SessionTypeOK, Login, Someone

\* Calls stay well made when some go, some no longer listen, and one is added.
LEMMA CallsStay ==
  ASSUME SessionInv, NEW cs \in SUBSET pageCalls, NEW n \in Nat, Len(logins) <= n
  PROVE  CallsHold(cs, n) /\ CallsHold(Hushed(cs), n)
<1>1. \A c \in cs : c \in Call /\ Known(c, n) /\ c.kind \in CallKinds
  BY SessionShape, CallParts DEF SessionInv, CallsHold, Known, Login
<1>2. \A c \in cs : Ignored(c) \in Call /\ Known(Ignored(c), n)
  BY <1>1, Ignoring DEF Known
<1> QED
  BY <1>1, <1>2 DEF CallsHold, Hushed

\* A call made of logins that exist names logins that exist.
LEMMA SentHolds ==
  ASSUME SessionInv, NEW l \in 0 .. Len(logins), NEW u \in Someone, NEW b \in Keys,
         NEW w \in 0 .. Len(logins),
         NEW k \in CallKinds, k \in {"login", "verify"} => u \in Accounts
  PROVE  CallsHold({Sent(k, l, u, b, w)}, Len(logins))
<1>1. l \in Login /\ w \in Login
  BY SessionShape DEF Login
<1> QED
  BY <1>1, Sending, SessionShape DEF CallsHold, Known

\* Calls that hold may travel together.
LEMMA CallsJoin ==
  ASSUME NEW n, NEW a, NEW b, CallsHold(a, n), CallsHold(b, n)
  PROVE  CallsHold(a \cup b, n)
BY DEF CallsHold

\* The page asks.
LEMMA AskHolds ==
  ASSUME SessionInv, NEW k \in CallKinds, NEW u \in Someone, NEW b \in Keys,
         NEW w \in 0 .. Len(logins), k \in {"login", "verify"} => u \in Accounts,
         Ask(CallOf(k, u, b, w))
  PROVE  CallsHold(pageCalls', Len(logins))
<1>1. CallsHold({CallOf(k, u, b, w)}, Len(logins))
  BY SentHolds, SessionShape DEF CallOf
<1>2. pageCalls' = pageCalls \cup {CallOf(k, u, b, w)}
  BY DEF Ask
<1> QED
  BY <1>1, <1>2, CallsJoin DEF SessionInv

\* A call is answered.
LEMMA ReplyHolds ==
  ASSUME SessionInv, NEW c \in pageCalls, NEW r \in Replies, NEW n \in Nat, Len(logins) <= n,
         NEW w \in 0 .. n, n <= MaxLogins, Reply(c, r, w)
  PROVE  CallsHold(pageCalls', n)
<1>1. c \in Call /\ w \in Login /\ c.as <= n
  BY SessionShape, CallParts DEF SessionInv, CallsHold, Known, Login
<1>2. c.kind \in {"login", "verify"} => c.user \in Accounts
  BY DEF SessionInv, CallsHold, Known
<1>3. CallsHold({WithReply(c, r, w)}, n)
  BY <1>1, <1>2, Replying DEF CallsHold, Known
<1>4. CallsHold(pageCalls \ {c}, n)
  BY CallsStay
<1> QED
  BY <1>3, <1>4, CallsJoin DEF Reply

-----------------------------------------------------------------------------
\* What the page asks for.
LEMMA PageAsks ==
  ASSUME SessionInv,
         \/ LoadSession \/ SubmitPasskey \/ HandleLogout \/ RefreshActivity \/ OpenSessions
         \/ SignInEvent \/ RevokeSession \/ ChangeCredentials \/ Approve
         \/ \E u \in Accounts : SubmitLogin(u) \/ PositionFound(u)
  PROVE  CallsHold(pageCalls', Len(logins)) /\ UNCHANGED <<logins, live, cookie>>
<1>1. /\ \A k \in CallKinds : Plain(k) = CallOf(k, Nobody, "", 0)
      /\ MeCall(cookie) = CallOf("me", Nobody, "", 0)
  BY DEF Plain, MeCall, CallOf
<1>2. 0 \in 0 .. Len(logins) /\ Nobody \in Someone /\ Accounts \subseteq Someone
      /\ {"", "login", "passkeyLogin"} = Keys
      /\ {"me", "options", "logout", "timer", "list", "others", "revoke", "credentials",
          "handoff", "position", "login"} \subseteq CallKinds
  BY SessionShape DEF CallKinds, SignInKinds, PanelKinds, Keys, Someone
<1>3. ASSUME NEW k \in CallKinds \ {"login", "verify"}, NEW b \in Keys, Ask(CallOf(k, Nobody, b, 0))
      PROVE  CallsHold(pageCalls', Len(logins))
  BY <1>2, <1>3, AskHolds
<1>4. ASSUME LoadSession \/ SubmitPasskey \/ HandleLogout \/ RefreshActivity \/ OpenSessions
             \/ SignInEvent \/ ChangeCredentials \/ Approve
      PROVE  CallsHold(pageCalls', Len(logins))
  BY <1>1, <1>2, <1>3, <1>4
  DEF LoadSession, SubmitPasskey, HandleLogout, RefreshActivity, OpenSessions, SignInEvent,
      ChangeCredentials, Approve
<1>5. ASSUME RevokeSession
      PROVE  CallsHold(pageCalls', Len(logins))
  <2>1. ASSUME NEW l \in live, Ask(CallOf("revoke", Nobody, "", l))
        PROVE  CallsHold(pageCalls', Len(logins))
    <3>1. l \in 0 .. Len(logins)
      BY SessionShape
    <3> QED
      BY <1>2, <2>1, <3>1, AskHolds
  <2>2. ASSUME Ask(Plain("others"))
        PROVE  CallsHold(pageCalls', Len(logins))
    BY <1>1, <1>2, <1>3, <2>2
  <2>3. (\E l \in live : Ask(CallOf("revoke", Nobody, "", l))) \/ Ask(Plain("others"))
    BY <1>5 DEF RevokeSession
  <2> QED
    BY <2>1, <2>2, <2>3
<1>6. ASSUME NEW u \in Accounts, SubmitLogin(u) \/ PositionFound(u)
      PROVE  CallsHold(pageCalls', Len(logins))
  <2>1. Ask(CallOf("login", u, "login", 0)) \/ Ask(CallOf("position", u, "", 0))
    BY <1>6 DEF SubmitLogin, PositionFound
  <2> QED
    BY <1>2, <2>1, AskHolds
<1>7. UNCHANGED <<logins, live, cookie>>
  BY DEF LoadSession, SubmitPasskey, HandleLogout, RefreshActivity, OpenSessions, SignInEvent,
         ChangeCredentials, Approve, RevokeSession, SubmitLogin, PositionFound, server
<1> QED
  BY <1>4, <1>5, <1>6, <1>7

\* What an answer leaves of the calls.
LEMMA AnswersHold ==
  ASSUME SessionInv, NEW c \in pageCalls, Heard(c) \/ AnswerPrompt(c)
  PROVE  CallsHold(pageCalls', Len(logins)) /\ UNCHANGED <<logins, live>>
<1>1. c \in Call /\ Known(c, Len(logins)) /\ pageCalls \ {c} \in SUBSET pageCalls
  BY DEF SessionInv, CallsHold
<1>2. /\ CallsHold(pageCalls \ {c}, Len(logins))
      /\ CallsHold(Hushed(pageCalls \ {c}), Len(logins))
  <2>1. Len(logins) \in Nat /\ Len(logins) <= Len(logins)
    BY SessionShape
  <2> QED
    BY <1>1, <2>1, CallsStay
<1>3. /\ 0 \in 0 .. Len(logins) /\ Nobody \in Someone /\ Accounts \subseteq Someone
      /\ c.user \in Someone /\ c.key \in Keys /\ "" \in Keys
      /\ c.what \in 0 .. Len(logins)
      /\ {"me", "list", "handoff", "prompt", "verify"} \subseteq CallKinds
  <2>1. 0 \in 0 .. Len(logins) /\ c.what \in 0 .. Len(logins)
    BY <1>1, CallParts, SessionShape DEF Known, Login
  <2>2. c.user \in Someone /\ c.key \in Keys
    BY <1>1, CallParts
  <2>3. "" \in Keys /\ {"me", "list", "handoff", "prompt", "verify"} \subseteq CallKinds
    BY DEF CallKinds, SignInKinds, PanelKinds, Keys
  <2> QED
    BY <2>1, <2>2, <2>3 DEF Someone
<1>4. ASSUME NEW l \in 0 .. Len(logins), NEW k \in CallKinds \ {"login", "verify"}
      PROVE  CallsHold({Sent(k, l, Nobody, "", 0)}, Len(logins))
  BY <1>3, <1>4, SentHolds
<1>5. /\ MeCall(cookie) = Sent("me", cookie, Nobody, "", 0)
      /\ Plain("list") = Sent("list", cookie, Nobody, "", 0)
  BY DEF MeCall, Plain, CallOf
<1>6. ASSUME pageCalls' = pageCalls \ {c} \/ Expire(c) \/ Forget(pageCalls \ {c})
      PROVE  CallsHold(pageCalls', Len(logins))
  BY <1>2, <1>6 DEF Expire, ClearSessionState, Forget
<1>7. ASSUME NEW s, NEW l \in 0 .. Len(logins), Become(s, l, c)
      PROVE  CallsHold(pageCalls', Len(logins))
  <2>1. CallsHold({Sent("handoff", l, Nobody, "", 0)}, Len(logins))
    BY <1>3, <1>4
  <2>2. CallsHold({}, Len(logins))
    BY DEF CallsHold
  <2>3. \/ pageCalls' = pageCalls \ {c}
        \/ pageCalls' = Hushed(pageCalls \ {c}) \cup {Sent("handoff", l, Nobody, "", 0)}
        \/ pageCalls' = Hushed(pageCalls \ {c}) \cup {}
    BY <1>7 DEF Become
  <2>4. CallsHold(Hushed(pageCalls \ {c}) \cup {Sent("handoff", l, Nobody, "", 0)}, Len(logins))
    BY <1>2, <2>1, CallsJoin
  <2>5. CallsHold(Hushed(pageCalls \ {c}) \cup {}, Len(logins))
    BY <1>2, <2>2, CallsJoin
  <2> QED
    BY <1>2, <2>3, <2>4, <2>5
<1>8. CASE MeAnswered(c) \/ SignedIn(c)
  <2>1. CallsHold(pageCalls', Len(logins))
    BY <1>3, <1>6, <1>7, <1>8, SessionShape DEF MeAnswered, SignedIn
  <2> QED
    BY <1>8, <2>1 DEF MeAnswered, SignedIn, server
<1>9. CASE SignInFailed(c) \/ LoggedOut(c) \/ ActivityAnswered(c) \/ HandoffAnswered(c)
           \/ PositionAnswered(c)
  <2>1. CallsHold(pageCalls', Len(logins))
    BY <1>6, <1>9
    DEF SignInFailed, LoggedOut, ActivityAnswered, HandoffAnswered, PositionAnswered,
        ClearSessionState, Expire
  <2> QED
    BY <1>9, <2>1
    DEF SignInFailed, LoggedOut, ActivityAnswered, HandoffAnswered, PositionAnswered, server
<1>10. CASE PanelAnswered(c)
  <2>1. /\ CallsHold({MeCall(cookie)}, Len(logins))
        /\ CallsHold({Plain("list")}, Len(logins))
    BY <1>3, <1>4, <1>5, SessionShape
  <2>2. CallsHold(pageCalls', Len(logins))
    BY <1>2, <1>6, <1>10, <2>1, CallsJoin DEF PanelAnswered
  <2> QED
    BY <1>10, <2>2 DEF PanelAnswered, server
<1>11. CASE Challenge(c)
  <2>1. CallsHold({CallOf("prompt", c.user, c.key, 0)}, Len(logins))
    BY <1>3, SentHolds, SessionShape DEF CallOf
  <2> QED
    BY <1>2, <1>11, <2>1, CallsJoin DEF Challenge, server
<1>12. CASE AnswerPrompt(c)
  <2>1. ASSUME NEW u \in Accounts
        PROVE  CallsHold({CallOf("verify", u, c.key, 0)}, Len(logins))
    BY <1>3, SentHolds, SessionShape DEF CallOf
  <2>2. c.user # Nobody => c.user \in Accounts
    BY <1>3 DEF Someone
  <2>3. \/ pageCalls' = pageCalls \ {c}
        \/ \E u \in Accounts :
               pageCalls' = (pageCalls \ {c}) \cup {CallOf("verify", u, c.key, 0)}
    BY <1>12, <2>2 DEF AnswerPrompt
  <2>4. ASSUME NEW u \in Accounts
        PROVE  CallsHold((pageCalls \ {c}) \cup {CallOf("verify", u, c.key, 0)}, Len(logins))
    BY <1>2, <2>1, CallsJoin
  <2>5. CallsHold(pageCalls', Len(logins))
    BY <1>2, <2>3, <2>4
  <2> QED
    BY <1>12, <2>5 DEF AnswerPrompt, server
<1> QED
  BY <1>8, <1>9, <1>10, <1>11, <1>12 DEF Heard

\* What the server leaves of them.
LEMMA ServiceHolds ==
  ASSUME SessionInv, NEW c \in pageCalls, ServeCall(c) \/ Lose(c)
  PROVE  /\ logins' \in Seq(Accounts) /\ Len(logins') <= MaxLogins /\ Len(logins) <= Len(logins')
         /\ live' \subseteq 1 .. Len(logins')
         /\ CallsHold(pageCalls', Len(logins'))
<1>1. c \in Call /\ Known(c, Len(logins)) /\ c.what \in 0 .. Len(logins) /\ Replies # {}
  BY CallParts, SessionShape DEF SessionInv, CallsHold, Known, Login, Replies
<1>2. ASSUME UNCHANGED logins, NEW r \in Replies, NEW w \in 0 .. Len(logins), Reply(c, r, w)
      PROVE  CallsHold(pageCalls', Len(logins'))
  BY <1>2, ReplyHolds, SessionShape
<1>3. 0 \in 0 .. Len(logins) /\ {"none", "ok", "401", "400", "passkey", "lost"} \subseteq Replies
  BY SessionShape DEF Replies
<1>4. CASE Lose(c)
  BY <1>2, <1>3, <1>4, SessionShape DEF Lose, server
<1>5. CASE ServeSignIn(c)
  <2>1. CASE CreateSession(c.user) /\ c.kind \in {"login", "verify"} /\ Reply(c, "ok", Len(logins) + 1)
    <3>1. c.user \in Accounts
      BY <1>1, <2>1 DEF Known
    <3>2. logins' \in Seq(Accounts) /\ Len(logins') = Len(logins) + 1
      BY <2>1, <3>1, SessionShape DEF CreateSession
    <3>3. CallsHold(pageCalls', Len(logins'))
      BY <1>3, <2>1, <3>2, ReplyHolds, SessionShape DEF CreateSession
    <3> QED
      BY <2>1, <3>2, <3>3, SessionShape DEF CreateSession
  <2>2. CASE UNCHANGED <<logins, live>> /\ \E r \in {"ok", "passkey", "400"} : Reply(c, r, 0)
    BY <1>2, <1>3, <2>2, SessionShape
  <2> QED
    BY <1>5, <2>1, <2>2 DEF ServeSignIn
<1>6. CASE ServeSession(c)
  <2>1. CASE c.as \in live /\ ServeRead(c)
    <3>2. CallsHold(pageCalls', Len(logins'))
      BY <1>2, <1>3, <1>6, <2>1, SessionShape DEF ServeRead, ServeSession
    <3> QED
      BY <1>6, <2>1, <3>2, SessionShape DEF ServeRead, ServeSession
  <2>2. CASE ServeRevoke(c)
    <3>1. CallsHold(pageCalls', Len(logins'))
      BY <1>1, <1>2, <1>3, <1>6, <2>2 DEF ServeRevoke, ServeSession
    <3>2. live' \subseteq live
      BY <2>2 DEF ServeRevoke
    <3> QED
      BY <1>6, <3>1, <3>2, SessionShape DEF ServeSession
  <2>3. CASE ServeHandoff(c) \/ ServePosition(c)
    <3>1. CallsHold(pageCalls', Len(logins'))
      BY <1>2, <1>3, <1>6, <2>3 DEF ServeHandoff, ServePosition, ServeSession
    <3> QED
      BY <1>6, <2>3, <3>1, SessionShape DEF ServeHandoff, ServePosition, ServeSession
  <2>4. CASE Reply(c, "401", 0) /\ UNCHANGED live
    BY <1>2, <1>3, <1>6, <2>4, SessionShape DEF ServeSession
  <2> QED
    BY <1>6, <2>1, <2>2, <2>3, <2>4 DEF ServeSession
<1> QED
  BY <1>4, <1>5, <1>6 DEF ServeCall

-----------------------------------------------------------------------------
(* Types. *)

\* What the page shows and remembers, apart from its flags and its calls.
PageTypeOK ==
    /\ handoff \in Someone
    /\ located \in [1 .. MaxLogins -> Someone]
    /\ session \in Someone
    /\ loginStage \in {"username", "credentials"}
    /\ pending \subseteq {"login", "passkeyLogin", "logout"}
    /\ approved \in Someone
    /\ bridge \in {"idle", "completing", "completed", "error"}
    /\ approvals \subseteq Accounts
    /\ stray \subseteq Someone
    /\ errors \in 0 .. MaxErrors
    /\ visits \in 0 .. MaxVisits

CaptureTypeOK ==
    capture \in [Accounts -> [step : {"idle", "asking", "waiting", "sending", "done"},
                              tries : 0 .. Retries]]

FlagsTypeOK ==
    /\ asking \in BOOLEAN /\ authLoading \in BOOLEAN
    /\ cooling \in BOOLEAN /\ unsettled \in BOOLEAN

\* The type invariant, by its parts.
LEMMA SessionParts ==
  SessionTypeOK <=> /\ logins \in Seq(Accounts) /\ Len(logins) <= MaxLogins
                    /\ live \subseteq 1 .. Len(logins)
                    /\ cookie \in 0 .. Len(logins)
                    /\ pageCalls \subseteq Call
                    /\ PageTypeOK /\ CaptureTypeOK /\ FlagsTypeOK
BY Zenon DEF SessionTypeOK, PageTypeOK, CaptureTypeOK, FlagsTypeOK

\* The parts of the next state make up the invariant there.
LEMMA SessionMade ==
  ASSUME logins' \in Seq(Accounts), Len(logins') <= MaxLogins, live' \subseteq 1 .. Len(logins'),
         cookie' \in 0 .. Len(logins'), CallsHold(pageCalls', Len(logins')),
         PageTypeOK', CaptureTypeOK', FlagsTypeOK'
  PROVE  SessionInv'
<1>1. pageCalls' \subseteq Call
  BY DEF CallsHold
<1>2. CallsHold(pageCalls, Len(logins))'
  BY DEF CallsHold, Known
<1>3. SessionTypeOK'
  BY <1>1, Zenon DEF SessionTypeOK, PageTypeOK, CaptureTypeOK, FlagsTypeOK
<1> QED
  BY <1>2, <1>3 DEF SessionInv

\* Only a login that was made has an owner.
LEMMA OwnersAre ==
  ASSUME SessionInv, NEW l
  PROVE  Owner(l) \in Someone /\ (Owner(l) # Nobody => l \in 1 .. Len(logins))
BY SessionShape DEF Owner, Someone

\* Flags.
LEMMA PageFlags ==
  ASSUME FlagsTypeOK, SessionPageNext
  PROVE  FlagsTypeOK'
<1> USE Zenon DEF FlagsTypeOK, signInVars, extension
<1>1. CASE LoadSession
  BY <1>1 DEF LoadSession
<1>2. CASE SessionRevoked
  BY <1>2 DEF SessionRevoked, ClearSessionState, Forget
<1>3. CASE ShowCredentials \/ CoolDown
  BY <1>3 DEF ShowCredentials, CoolDown
<1>4. CASE SubmitPasskey \/ \E u \in Accounts : SubmitLogin(u)
  BY <1>4 DEF SubmitPasskey, SubmitLogin, Unsettled
<1>5. CASE HandleLogout \/ RefreshActivity \/ OpenSessions
  BY <1>5 DEF HandleLogout, RefreshActivity, OpenSessions
<1>6. CASE SignInEvent \/ RevokeSession \/ ChangeCredentials
  BY <1>6 DEF SignInEvent, RevokeSession, ChangeCredentials
<1>7. CASE Approve
  BY <1>7 DEF Approve
<1>8. CASE Reopen
  BY <1>8 DEF Reopen
<1>9. CASE RequestLocation \/ \E u \in Accounts : PositionFound(u) \/ PositionFailed(u) \/ TryAgain(u)
  BY <1>9 DEF RequestLocation, PositionFound, PositionFailed, TryAgain
<1> QED
  BY <1>1, <1>2, <1>3, <1>4, <1>5, <1>6, <1>7, <1>8, <1>9 DEF SessionPageNext

\* Answers keep the page's flags in their sets.
LEMMA AnswerFlags ==
  ASSUME FlagsTypeOK, NEW c, Heard(c) \/ AnswerPrompt(c) \/ ServeCall(c) \/ Lose(c)
  PROVE  FlagsTypeOK'
<1> USE Zenon DEF FlagsTypeOK, signInVars, extension, Finally, Expire, ClearSessionState,
                  Forget
<1>1. CASE MeAnswered(c)
  BY <1>1 DEF MeAnswered
<1>2. CASE Challenge(c) \/ ServeCall(c) \/ Lose(c)
  BY <1>2 DEF Challenge, ServeCall, Lose
<1>3. CASE SignedIn(c)
  BY <1>3 DEF SignedIn
<1>4. CASE SignInFailed(c)
  BY <1>4 DEF SignInFailed
<1>5. CASE AnswerPrompt(c)
  BY <1>5 DEF AnswerPrompt
<1>6. CASE LoggedOut(c)
  BY <1>6 DEF LoggedOut
<1>7. CASE ActivityAnswered(c)
  BY <1>7 DEF ActivityAnswered
<1>8. CASE PanelAnswered(c)
  BY <1>8 DEF PanelAnswered
<1>9. CASE HandoffAnswered(c)
  BY <1>9 DEF HandoffAnswered
<1>10. CASE PositionAnswered(c)
  BY <1>10 DEF PositionAnswered
<1> QED
  BY <1>1, <1>2, <1>3, <1>4, <1>5, <1>6, <1>7, <1>8, <1>9, <1>10 DEF Heard

\* Location captures.
LEMMA CapturesAre ==
  ASSUME CaptureTypeOK, NEW u, NEW step \in {"idle", "asking", "waiting", "sending", "done"},
         NEW tries \in 0 .. Retries, Captures(u, step, tries)
  PROVE  CaptureTypeOK'
BY DEF CaptureTypeOK, Captures

\* Every capture keeps to its steps, and to its retries.
LEMMA CaptureSteps ==
  ASSUME CaptureTypeOK, SessionNext
  PROVE  CaptureTypeOK'
<1>1. CASE UNCHANGED capture
  BY <1>1 DEF CaptureTypeOK
<1>2. 0 \in 0 .. Retries /\ Retries \in Nat
  BY SessionAssumption
<1>3. CASE RequestLocation
  BY <1>2, <1>3, CapturesAre DEF RequestLocation
<1>4. ASSUME NEW u \in Accounts, PositionFound(u) \/ PositionFailed(u) \/ TryAgain(u)
      PROVE  CaptureTypeOK'
  <2>1. capture[u].tries \in 0 .. Retries
    BY DEF CaptureTypeOK
  <2>2. capture[u].tries < Retries => capture[u].tries + 1 \in 0 .. Retries
    BY <1>2, <2>1
  <2> QED
    BY <1>2, <1>4, <2>1, <2>2, CapturesAre DEF PositionFound, PositionFailed, TryAgain
<1>5. CASE Reopen
  BY <1>2, <1>5 DEF Reopen, CaptureTypeOK, Idle
<1>6. ASSUME NEW s, NEW l, NEW c, Become(s, l, c)
      PROVE  CaptureTypeOK'
  <2>1. CASE s = session
    BY <1>1, <1>6, <2>1 DEF Become
  <2>2. CASE s # session
    <3>1. capture' = [capture EXCEPT ![s] = IF @.step \in {"waiting", "done"} THEN Idle ELSE @]
      BY <1>6, <2>2 DEF Become
    <3>2. Idle \in [step : {"idle", "asking", "waiting", "sending", "done"}, tries : 0 .. Retries]
      BY <1>2 DEF Idle
    <3> QED
      BY <3>1, <3>2 DEF CaptureTypeOK
  <2> QED
    BY <2>1, <2>2
<1>7. ASSUME NEW c, Heard(c) \/ ServeCall(c) \/ Lose(c) \/ AnswerPrompt(c)
      PROVE  CaptureTypeOK'
  <2>1. CASE MeAnswered(c) \/ SignedIn(c)
    BY <1>1, <1>6, <2>1 DEF MeAnswered, SignedIn, Expire, ClearSessionState
  <2>2. CASE PositionAnswered(c)
    BY <1>2, <2>2, CapturesAre DEF PositionAnswered
  <2>3. CASE Challenge(c) \/ SignInFailed(c) \/ LoggedOut(c) \/ AnswerPrompt(c)
    BY <1>1, <2>3 DEF Challenge, SignInFailed, LoggedOut, ClearSessionState, AnswerPrompt
  <2>4. CASE ActivityAnswered(c) \/ PanelAnswered(c) \/ HandoffAnswered(c)
    BY <1>1, <2>4 DEF ActivityAnswered, PanelAnswered, HandoffAnswered, Expire, ClearSessionState
  <2>5. CASE ServeCall(c) \/ Lose(c)
    BY <1>1, <2>5 DEF ServeCall, Lose
  <2> QED
    BY <1>7, <2>1, <2>2, <2>3, <2>4, <2>5 DEF Heard
<1>8. ASSUME SessionPageNext, ~Reopen, ~RequestLocation,
             ~\E u \in Accounts : PositionFound(u) \/ PositionFailed(u) \/ TryAgain(u)
      PROVE  UNCHANGED capture
  BY <1>8
  DEF SessionPageNext, LoadSession, SessionRevoked, ClearSessionState, ShowCredentials,
      SubmitPasskey, CoolDown, HandleLogout, RefreshActivity, OpenSessions, SignInEvent,
      RevokeSession, ChangeCredentials, Approve, SubmitLogin
<1>9. ASSUME NEW x, SignInElsewhere(x) \/ EndSession(x)
      PROVE  UNCHANGED capture
  BY <1>9 DEF SignInElsewhere, EndSession
<1> QED
  BY <1>1, <1>3, <1>4, <1>5, <1>7, <1>8, <1>9 DEF SessionNext

\* Acts stay within their bound.
LEMMA VisitsAre ==
  ASSUME PageTypeOK, Visit
  PROVE  visits' \in 0 .. MaxVisits /\ UNCHANGED errors
BY SessionAssumption DEF PageTypeOK, Visit

\* What the page shows and remembers.
LEMMA PageSteps ==
  ASSUME SessionInv, SessionPageNext
  PROVE  PageTypeOK' /\ cookie' \in 0 .. Len(logins)
<1> USE SessionShape, SessionParts DEF SessionInv, PageTypeOK
<1>1. CASE LoadSession \/ OpenSessions \/ RevokeSession \/ ChangeCredentials
  <2>1. visits' \in 0 .. MaxVisits /\ UNCHANGED errors
    BY <1>1, VisitsAre DEF LoadSession, OpenSessions, RevokeSession, ChangeCredentials
  <2> QED
    BY <1>1, <2>1
    DEF LoadSession, OpenSessions, RevokeSession, ChangeCredentials, server, signInVars, 
        extension
<1>2. CASE SessionRevoked
  BY <1>2 DEF SessionRevoked, ClearSessionState, Forget, server, extension, budget
<1>3. CASE ShowCredentials \/ CoolDown \/ SubmitPasskey \/ \E u \in Accounts : SubmitLogin(u)
  BY <1>3
  DEF ShowCredentials, CoolDown, SubmitPasskey, SubmitLogin, server, extension, budget
<1>4. CASE HandleLogout \/ RefreshActivity
  BY <1>4 DEF HandleLogout, RefreshActivity, server, signInVars, extension, budget
<1>5. CASE SignInEvent
  BY <1>5 DEF SignInEvent, server, signInVars, extension, budget
<1>6. CASE Approve
  BY <1>6, OwnersAre DEF Approve, HandsOff, HandoffShown, Someone, server, signInVars, budget
<1>7. CASE Reopen
  <2>1. visits' \in 0 .. MaxVisits /\ UNCHANGED errors
    BY <1>7, VisitsAre DEF Reopen
  <2> QED
    BY <1>7, <2>1 DEF Reopen, server
<1>8. CASE RequestLocation
  <2>1. visits' \in 0 .. MaxVisits /\ UNCHANGED errors
    BY <1>8, VisitsAre DEF RequestLocation
  <2> QED
    BY <1>8, <2>1 DEF RequestLocation, server, signInVars, extension
<1>9. CASE \E u \in Accounts : PositionFound(u) \/ PositionFailed(u) \/ TryAgain(u)
  BY <1>9
  DEF PositionFound, PositionFailed, TryAgain, server, signInVars, extension, budget
<1> QED
  BY <1>1, <1>2, <1>3, <1>4, <1>5, <1>6, <1>7, <1>8, <1>9 DEF SessionPageNext

\* An answer leaves the page and the browser as they are declared.
LEMMA AnswerSteps ==
  ASSUME SessionInv, NEW c \in pageCalls, Heard(c) \/ AnswerPrompt(c)
  PROVE  PageTypeOK' /\ cookie' \in 0 .. Len(logins)
<1> USE SessionShape, SessionParts DEF SessionInv, PageTypeOK
<1>1. /\ c.what \in 0 .. Len(logins) /\ c.what \in Login /\ c.key \in Keys
  BY CallParts DEF CallsHold, Known, Login
<1>a. ASSUME NEW s, NEW l, Become(s, l, c)
      PROVE  /\ stray' \subseteq Someone /\ bridge' \in {bridge, "completing"}
             /\ session' = s
  <2>1. stray' = stray \/ stray' = stray \cup {Owner(l)}
    BY <1>a DEF Become, HandsOff
  <2>2. bridge' \in {bridge, "completing"} /\ session' = s
    BY <1>a DEF Become
  <2> QED
    BY <2>1, <2>2, OwnersAre
<1>2. CASE MeAnswered(c)
  <2>1. CASE c.reply = "ok"
    <3>1. /\ Become(Owner(c.as), cookie, c)
          /\ UNCHANGED <<server, cookie, loginStage, pending, approved, approvals, budget>>
      BY <1>2, <2>1 DEF MeAnswered, Expire
    <3> QED
      BY <1>a, <3>1, OwnersAre DEF server, budget
  <2>2. CASE c.reply # "ok"
    BY <1>2, <2>2 DEF MeAnswered, Expire, ClearSessionState, Forget, server, extension, budget
  <2> QED
    BY <2>1, <2>2
<1>3. CASE Challenge(c)
  BY <1>3 DEF Challenge, server, signInVars, extension, budget
<1>4. CASE SignedIn(c)
  <2>1. Become(Owner(c.what), c.what, c)
    BY <1>4 DEF SignedIn
  <2> QED
    BY <1>1, <1>4, <1>a, <2>1, OwnersAre DEF SignedIn, Finally, server, budget
<1>5. CASE SignInFailed(c)
  BY <1>5 DEF SignInFailed, Finally, server, extension, budget
<1>6. CASE LoggedOut(c)
  BY <1>6 DEF LoggedOut, ClearSessionState, Forget, server, extension, budget
<1>7. CASE ActivityAnswered(c)
  BY <1>1, <1>7
  DEF ActivityAnswered, Expire, ClearSessionState, Forget, server, extension,
      budget
<1>8. CASE PanelAnswered(c)
  BY <1>8 DEF PanelAnswered, Expire, ClearSessionState, Forget, server, extension, budget
<1>9. CASE HandoffAnswered(c)
  BY <1>9 DEF HandoffAnswered, Expire, ClearSessionState, Forget, server, extension, budget
<1>10. CASE PositionAnswered(c)
  BY <1>10 DEF PositionAnswered, Forget, server, extension, budget
<1>11. CASE AnswerPrompt(c)
  <2>1. errors' \in 0 .. MaxErrors /\ visits' \in 0 .. MaxVisits
    BY <1>11, SessionAssumption DEF AnswerPrompt, Error, budget
  <2> QED
    BY <1>11, <2>1 DEF AnswerPrompt, Finally, server, extension
<1> QED
  BY <1>2, <1>3, <1>4, <1>5, <1>6, <1>7, <1>8, <1>9, <1>10, <1>11 DEF Heard

\* The server's part in a call leaves the browser's cookie alone.
LEMMA ServerSteps ==
  ASSUME SessionInv, NEW c \in pageCalls, ServeCall(c) \/ Lose(c)
  PROVE  PageTypeOK' /\ UNCHANGED cookie
<1> USE SessionShape, SessionParts DEF SessionInv, PageTypeOK
<1>1. c.user \in Someone
  BY CallParts
<1>2. CASE Lose(c)
  <2>1. errors' \in 0 .. MaxErrors /\ visits' \in 0 .. MaxVisits
    BY <1>2, SessionAssumption DEF Lose, Error
  <2> QED
    BY <1>2, <2>1 DEF Lose, server, signInVars, extension
<1>3. CASE ServeCall(c)
  <2>1. errors' \in 0 .. MaxErrors
    BY <1>3, SessionAssumption DEF ServeCall, ServeSignIn, ServeSession
  <2>2. handoff' \in Someone /\ located' \in [1 .. MaxLogins -> Someone]
    BY <1>1, <1>3, OwnersAre
    DEF ServeCall, ServeSignIn, ServeSession, ServeRead, ServeRevoke, ServeHandoff, ServePosition
  <2> QED
    BY <1>3, <2>1, <2>2 DEF ServeCall, signInVars, extension
<1> QED
  BY <1>2, <1>3

\* The steps that only the page, or only another browser, takes.
LEMMA QuietSteps ==
  ASSUME SessionInv,
         \/ SessionRevoked \/ ShowCredentials \/ CoolDown \/ RequestLocation
         \/ \E u \in Accounts : PositionFailed(u) \/ TryAgain(u)
  PROVE  CallsHold(pageCalls', Len(logins)) /\ UNCHANGED <<logins, live>>
<1>1. CASE SessionRevoked
  <2>1. Len(logins) \in Nat /\ Len(logins) <= Len(logins) /\ pageCalls \in SUBSET pageCalls
    BY SessionShape
  <2> QED
    BY <1>1, <2>1, CallsStay DEF SessionRevoked, ClearSessionState, Forget, server
<1>2. CASE ShowCredentials \/ CoolDown \/ RequestLocation
  BY <1>2 DEF SessionInv, ShowCredentials, CoolDown, RequestLocation, server
<1>3. CASE \E u \in Accounts : PositionFailed(u) \/ TryAgain(u)
  BY <1>3 DEF SessionInv, PositionFailed, TryAgain, server
<1> QED
  BY <1>1, <1>2, <1>3

\* The page's own steps make no login, and leave calls that hold.
LEMMA SessionInvPage ==
  ASSUME SessionInv, SessionPageNext
  PROVE  CallsHold(pageCalls', Len(logins)) /\ UNCHANGED <<logins, live>>
<1>1. CASE Reopen
  <2>1. "" \in Keys /\ "me" \in CallKinds /\ 0 \in 0 .. Len(logins)
    BY SessionShape DEF CallKinds, Keys
  <2>2. CallsHold({MeCall(cookie)}, Len(logins))
    BY <2>1, SentHolds, SessionShape DEF MeCall
  <2> QED
    BY <1>1, <2>2 DEF Reopen, server
<1> QED
  BY <1>1, PageAsks, QuietSteps DEF SessionPageNext

\* Every step keeps the invariant: the page's, the server's and the network's.
LEMMA SessionInvNext == SessionInv /\ [SessionNext]_sessionVars => SessionInv'
<1> SUFFICES ASSUME SessionInv, [SessionNext]_sessionVars
             PROVE  SessionInv'
  OBVIOUS
<1>1. /\ PageTypeOK /\ CaptureTypeOK /\ FlagsTypeOK
      /\ logins \in Seq(Accounts) /\ Len(logins) \in Nat /\ Len(logins) <= MaxLogins
      /\ live \subseteq 1 .. Len(logins) /\ cookie \in 0 .. Len(logins)
      /\ CallsHold(pageCalls, Len(logins))
  BY SessionParts, SessionShape DEF SessionInv
<1>2. CASE UNCHANGED sessionVars
  <2>1. PageTypeOK' /\ CaptureTypeOK' /\ FlagsTypeOK'
    BY <1>1, <1>2
    DEF sessionVars, server, signInVars, extension, budget, PageTypeOK, CaptureTypeOK,
        FlagsTypeOK
  <2> QED
    BY <1>1, <1>2, <2>1, SessionMade DEF sessionVars, server
<1>3. CASE SessionPageNext
  <2>1. FlagsTypeOK' /\ CaptureTypeOK' /\ PageTypeOK' /\ cookie' \in 0 .. Len(logins)
    BY <1>1, <1>3, PageFlags, CaptureSteps, PageSteps DEF SessionNext
  <2>2. CallsHold(pageCalls', Len(logins)) /\ UNCHANGED <<logins, live>>
    BY <1>3, SessionInvPage
  <2> QED
    BY <1>1, <2>1, <2>2, SessionMade
<1>4. ASSUME NEW c \in pageCalls, Heard(c) \/ AnswerPrompt(c)
      PROVE  SessionInv'
  <2>1. FlagsTypeOK' /\ CaptureTypeOK' /\ PageTypeOK' /\ cookie' \in 0 .. Len(logins)
    BY <1>1, <1>4, AnswerFlags, CaptureSteps, AnswerSteps DEF SessionNext
  <2>2. CallsHold(pageCalls', Len(logins)) /\ UNCHANGED <<logins, live>>
    BY <1>4, AnswersHold
  <2> QED
    BY <1>1, <2>1, <2>2, SessionMade
<1>5. ASSUME NEW c \in pageCalls, ServeCall(c) \/ Lose(c)
      PROVE  SessionInv'
  <2>1. FlagsTypeOK' /\ CaptureTypeOK' /\ PageTypeOK' /\ UNCHANGED cookie
    BY <1>1, <1>5, AnswerFlags, CaptureSteps, ServerSteps DEF SessionNext
  <2>2. /\ logins' \in Seq(Accounts) /\ Len(logins') <= MaxLogins /\ Len(logins) <= Len(logins')
        /\ live' \subseteq 1 .. Len(logins')
        /\ CallsHold(pageCalls', Len(logins'))
    BY <1>5, ServiceHolds
  <2>3. cookie' \in 0 .. Len(logins')
    BY <1>1, <2>1, <2>2
  <2> QED
    BY <2>1, <2>2, <2>3, SessionMade
<1>6. ASSUME NEW u \in Accounts, SignInElsewhere(u)
      PROVE  SessionInv'
  <2>1. logins' \in Seq(Accounts) /\ Len(logins') = Len(logins) + 1 /\ Len(logins') <= MaxLogins
    BY <1>1, <1>6, SessionShape DEF SignInElsewhere, CreateSession
  <2>2. live' = live \cup {Len(logins) + 1} /\ UNCHANGED cookie
    BY <1>6 DEF SignInElsewhere, CreateSession
  <2>3. \A n \in Nat : /\ n + 1 \in 1 .. n + 1 /\ 1 .. n \subseteq 1 .. n + 1
                        /\ 0 .. n \subseteq 0 .. n + 1
    OBVIOUS
  <2>4. live' \subseteq 1 .. Len(logins') /\ cookie' \in 0 .. Len(logins')
    BY <1>1, <2>1, <2>2, <2>3
  <2>5. CallsHold(pageCalls', Len(logins'))
    <3>1. Len(logins') \in Nat /\ Len(logins) <= Len(logins') /\ pageCalls \in SUBSET pageCalls
      BY <1>1, <2>1
    <3>2. CallsHold(pageCalls, Len(logins'))
      BY <3>1, CallsStay
    <3> QED
      BY <1>6, <3>2 DEF SignInElsewhere
  <2>6. PageTypeOK' /\ CaptureTypeOK' /\ FlagsTypeOK'
    BY <1>1, <1>6
    DEF SignInElsewhere, PageTypeOK, CaptureTypeOK, FlagsTypeOK, signInVars, extension,
        budget
  <2> QED
    BY <2>1, <2>4, <2>5, <2>6, SessionMade
<1>7. ASSUME NEW l \in live, EndSession(l)
      PROVE  SessionInv'
  <2>1. PageTypeOK' /\ CaptureTypeOK' /\ FlagsTypeOK'
    BY <1>1, <1>7
    DEF EndSession, PageTypeOK, CaptureTypeOK, FlagsTypeOK, signInVars, extension, budget
  <2> QED
    BY <1>1, <1>7, <2>1, SessionMade DEF EndSession
<1> QED
  BY <1>2, <1>3, <1>4, <1>5, <1>6, <1>7 DEF SessionNext

\* The page opens with one call, which carries the browser's cookie.
LEMMA SessionInitHolds == SessionInit => SessionInv
<1> SUFFICES ASSUME SessionInit
             PROVE  SessionInv
  OBVIOUS
<1>1. PICK u \in Accounts : logins = <<u>>
  BY DEF SessionInit
<1>2. logins \in Seq(Accounts) /\ Len(logins) = 1 /\ live \subseteq 1 .. 1 /\ cookie \in 0 .. 1
  BY <1>1 DEF SessionInit
<1>3. CaptureTypeOK
  BY SessionAssumption DEF SessionInit, CaptureTypeOK, Idle
<1>4. FlagsTypeOK
  BY Zenon DEF SessionInit, FlagsTypeOK
<1>5. PageTypeOK
  BY SessionAssumption DEF SessionInit, PageTypeOK, Someone, Login
<1>6. CallsHold(pageCalls, 1)
  <2>1. pageCalls = {Sent("me", cookie, Nobody, "", 0)}
    BY DEF SessionInit, MeCall
  <2>2. cookie \in Login /\ 0 \in Login /\ Nobody \in Someone
    BY <1>2, SessionAssumption DEF Login, Someone
  <2>3. "me" \in CallKinds /\ "" \in Keys
    BY DEF CallKinds, Keys
  <2>4. Sent("me", cookie, Nobody, "", 0) \in Call
    BY <2>2, <2>3, Sending
  <2>5. Known(Sent("me", cookie, Nobody, "", 0), 1)
    BY <1>2 DEF Sent, Known
  <2> QED
    BY <2>1, <2>4, <2>5 DEF CallsHold
<1>7. Len(logins) <= MaxLogins
  BY <1>2, SessionAssumption
<1> QED
  <2>1. CallsHold(pageCalls, Len(logins)) /\ pageCalls \subseteq Call
    BY <1>2, <1>6 DEF CallsHold
  <2> QED
    BY <1>2, <1>3, <1>4, <1>5, <1>7, <2>1, SessionParts DEF SessionInv

\* Whatever is asked, answered, lost and revoked, in any order, server, browser and
\* page hold what they are declared to hold.
THEOREM SessionTypeCorrect == SessionSpec => []SessionTypeOK
<1>1. SessionInv => SessionTypeOK
  BY DEF SessionInv
<1> QED
  BY SessionInitHolds, SessionInvNext, <1>1, PTL DEF SessionSpec

-----------------------------------------------------------------------------
(* Acting as somebody. *)

Quiet == \A u \in Accounts : capture[u].step \in {"idle", "done"}

\* Nothing is under way beside a sign-in.
SignInIsAlone ==
    \A c \in pageCalls :
        c.kind \in SignInKinds => pageCalls = {c} /\ session = Nobody /\ Quiet

\* While the browser has a cookie, all other calls were made with it.
CallsCarryCookie ==
    cookie # 0 => \A c \in pageCalls : c.kind \notin SignInKinds => c.as = cookie

\* A handoff under way is for somebody who approved, or was sent by a page that
\* is not settled.
HandoffsAreApproved ==
    /\ approved \in approvals \cup {Nobody}
    /\ \A c \in pageCalls : c.kind = "handoff" /\ c.as # 0 => Owner(c.as) \in approvals \cup stray

\* What the two theorems about users need of each other.
ActsInv ==
    /\ ~unsettled => SignInIsAlone /\ CallsCarryCookie
    /\ HandoffsAreApproved
    /\ ActsAsItsUser /\ HandoffBelongsToApprover

\* No sign-in is under way.
NoSignIn == \A c \in pageCalls : c.kind \notin SignInKinds

\* On a settled page no sign-in is under way beside a user or a location being
\* captured.
LEMMA NobodySignsIn ==
  ASSUME ActsInv, session # Nobody \/ ~Quiet
  PROVE  unsettled \/ NoSignIn
BY DEF ActsInv, SignInIsAlone, NoSignIn

\* Calls that are left, whether or not the page still listens.
Left(cs, ds) == ds = cs \/ ds = Hushed(cs)

\* Calls that are left are calls that were there, and a sign-in among them still listens.
LEMMA LeftAre ==
  ASSUME SessionInv, NEW cs \in SUBSET pageCalls, NEW ds, Left(cs, ds)
  PROVE  /\ \A d \in ds : \E c \in cs : d.kind = c.kind /\ d.as = c.as
         /\ \A d \in ds : d.kind \in SignInKinds => d \in cs
         /\ \A c : cs \subseteq {c} => \A d, e \in ds : d = e
<1>1. \A c \in cs : c \in Call
  BY DEF SessionInv, CallsHold
<1>2. \A c \in cs : Ignored(c).kind = c.kind /\ Ignored(c).as = c.as
  BY <1>1, Ignoring
<1>3. "handoff" \notin SignInKinds
  BY DEF SignInKinds
<1> QED
  BY <1>2, <1>3 DEF Left, Hushed

\* Some calls end, and nothing is signed in.
LEMMA LeavingActs ==
  ASSUME SessionInv, ActsInv, NEW cs \in SUBSET pageCalls, Left(cs, pageCalls'),
         session' \in {session, Nobody}, cookie' \in {cookie, 0},
         session = Nobody /\ Quiet => Quiet',
         UNCHANGED <<logins, unsettled, stray, approved, approvals, handoff>>
  PROVE  ActsInv'
<1>1. /\ \A d \in pageCalls' : \E c \in cs : d.kind = c.kind /\ d.as = c.as
      /\ \A d \in pageCalls' : d.kind \in SignInKinds => d \in cs
      /\ \A c : cs \subseteq {c} => \A d, e \in pageCalls' : d = e
  BY LeftAre
<1>2. ~unsettled => SignInIsAlone'
  <2> SUFFICES ASSUME ~unsettled, NEW d \in pageCalls', d.kind \in SignInKinds
               PROVE  pageCalls' = {d} /\ session' = Nobody /\ Quiet'
    BY DEF SignInIsAlone
  <2>1. d \in pageCalls /\ pageCalls = {d} /\ session = Nobody /\ Quiet
    BY <1>1 DEF ActsInv, SignInIsAlone
  <2> QED
    BY <1>1, <2>1
<1>3. ~unsettled => CallsCarryCookie'
  BY <1>1 DEF ActsInv, CallsCarryCookie
<1>4. HandoffsAreApproved'
  BY <1>1 DEF ActsInv, HandoffsAreApproved, Owner
<1>5. ActsAsItsUser' /\ HandoffBelongsToApprover'
  BY DEF ActsInv, ActsAsItsUser, HandoffBelongsToApprover, Owner
<1> QED
  BY <1>2, <1>3, <1>4, <1>5 DEF ActsInv

\* The page asks for something, as its user, while nobody signs in.
LEMMA AskingActs ==
  ASSUME SessionInv, ActsInv, unsettled \/ NoSignIn,
         NEW cs \in SUBSET pageCalls, NEW ds, Left(cs, ds), NEW d,
         pageCalls' = ds \cup {d}, d.kind \notin SignInKinds, d.as = cookie,
         d.kind = "handoff" => session \in approvals' /\ session # Nobody
                               /\ (unsettled => Owner(cookie) \in stray'),
         approvals \subseteq approvals', approved' \in approvals' \cup {Nobody},
         stray \subseteq stray',
         UNCHANGED <<logins, session, cookie, handoff, unsettled>>
  PROVE  ActsInv'
<1>1. \A e \in ds : \E c \in cs : e.kind = c.kind /\ e.as = c.as
  BY LeftAre
<1>2. ~unsettled => SignInIsAlone'
  BY <1>1 DEF NoSignIn, SignInIsAlone
<1>3. ~unsettled => CallsCarryCookie'
  BY <1>1 DEF ActsInv, CallsCarryCookie
<1>4. HandoffsAreApproved'
  <2>1. d.kind = "handoff" /\ d.as # 0 => Owner(d.as) \in approvals' \cup stray'
    BY DEF ActsInv, ActsAsItsUser
  <2> QED
    BY <1>1, <2>1 DEF ActsInv, HandoffsAreApproved, Owner
<1>5. ActsAsItsUser' /\ HandoffBelongsToApprover'
  BY DEF ActsInv, ActsAsItsUser, HandoffBelongsToApprover, Owner
<1> QED
  BY <1>2, <1>3, <1>4, <1>5 DEF ActsInv

\* What an unsettled page does without a handoff.
LEMMA UnsettledActs ==
  ASSUME ActsInv, unsettled',
         \A d \in pageCalls' : d.kind = "handoff" =>
             \E c \in pageCalls : c.kind = "handoff" /\ c.as = d.as,
         UNCHANGED <<logins, handoff, approved, approvals, stray>>
  PROVE  ActsInv'
<1>1. HandoffsAreApproved'
  BY DEF ActsInv, HandoffsAreApproved, Owner
<1>2. ActsAsItsUser' /\ HandoffBelongsToApprover'
  BY DEF ActsInv, ActsAsItsUser, HandoffBelongsToApprover
<1> QED
  BY <1>1, <1>2 DEF ActsInv

\* A sign-in begins or goes on, alone.
LEMMA SigningActs ==
  ASSUME ActsInv, NEW d, pageCalls' = {d}, d.kind \in SignInKinds, session = Nobody, Quiet,
         UNCHANGED <<logins, session, cookie, handoff, approved, approvals, stray, capture>>
  PROVE  ActsInv'
<1>1. d.kind # "handoff"
  BY DEF SignInKinds
<1> QED
  BY <1>1
  DEF ActsInv, SignInIsAlone, CallsCarryCookie, HandoffsAreApproved, ActsAsItsUser,
      HandoffBelongsToApprover, Quiet, Owner

\* The page takes somebody to be signed in, with the cookie of now.
LEMMA BecomingActs ==
  ASSUME SessionInv, ActsInv, NEW c \in pageCalls, NEW s, Become(s, cookie', c),
         ~unsettled => \A e \in pageCalls \ {c} : e.kind \notin SignInKinds,
         ~unsettled /\ cookie' # 0 =>
             s = Owner(cookie') /\ \A e \in pageCalls \ {c} : e.as = cookie',
         UNCHANGED <<logins, unsettled, approved, approvals, handoff>>
  PROVE  ActsInv'
<1> DEFINE cs == pageCalls \ {c}
           h == Sent("handoff", cookie', Nobody, "", 0)
<1>1. h.kind = "handoff" /\ h.as = cookie' /\ "handoff" \notin SignInKinds
  BY DEF Sent, SignInKinds
<1>2. /\ session' = s
      /\ \A e \in pageCalls' : \/ \E d \in cs : e.kind = d.kind /\ e.as = d.as
                               \/ /\ e = h /\ s # Nobody /\ s = approved
                                  /\ unsettled => Owner(cookie') \in stray'
      /\ stray \subseteq stray'
  <2>0. /\ stray \subseteq stray'
        /\ \/ UNCHANGED stray
           \/ CompletesFor(s) /\ (unsettled => Owner(cookie') \in stray')
    BY DEF Become, HandsOff
  <2>1. PICK ds : Left(cs, ds) /\ \/ pageCalls' = ds
                                  \/ /\ pageCalls' = ds \cup {h} /\ CompletesFor(s)
                                     /\ unsettled => Owner(cookie') \in stray'
    BY DEF Become, Left, HandsOff
  <2>2. cs \in SUBSET pageCalls
    OBVIOUS
  <2>3. \A e \in ds : \E d \in cs : e.kind = d.kind /\ e.as = d.as
    BY <2>1, <2>2, LeftAre
  <2>4. session' = s /\ (CompletesFor(s) => s # Nobody /\ s = approved)
    BY DEF Become, CompletesFor
  <2> QED
    BY <2>0, <2>1, <2>3, <2>4
<1> HIDE DEF h
<1>3. ~unsettled => SignInIsAlone' /\ CallsCarryCookie'
  BY <1>1, <1>2 DEF SignInIsAlone, CallsCarryCookie
<1>4. HandoffsAreApproved'
  <2>1. \A d \in cs : d.kind = "handoff" /\ d.as # 0 => Owner(d.as) \in approvals \cup stray
    BY DEF ActsInv, HandoffsAreApproved
  <2>2. \A e \in pageCalls' :
            e.kind = "handoff" /\ e.as # 0 => Owner(e.as) \in approvals \cup stray'
    BY <1>1, <1>2, <2>1 DEF ActsInv, HandoffsAreApproved
  <2> QED
    BY <2>2 DEF ActsInv, HandoffsAreApproved, Owner
<1>5. ActsAsItsUser' /\ HandoffBelongsToApprover'
  BY <1>2 DEF ActsInv, ActsAsItsUser, HandoffBelongsToApprover, Owner
<1> QED
  BY <1>3, <1>4, <1>5 DEF ActsInv

\* An answer is on its way, and logins may have been made.
Grown == logins' = logins \/ \E u : logins' = Append(logins, u)

\* A new login takes no other login's owner away.
LEMMA OwnersStay ==
  ASSUME SessionInv, Grown, NEW l \in 0 .. Len(logins)
  PROVE  Owner(l)' = Owner(l)
BY SessionShape DEF Grown, Owner

\* The server may make a login, and answer: whom page and cookie act for stays.
LEMMA GrowingActs ==
  ASSUME SessionInv, ActsInv, Grown,
         \A d \in pageCalls' : \E c \in pageCalls : d.kind = c.kind /\ d.as = c.as,
         \A c : pageCalls = {c} => \A d, e \in pageCalls' : d = e,
         handoff' \in approvals \cup stray \cup {handoff},
         UNCHANGED <<session, cookie, unsettled, stray, approved, approvals, capture>>
  PROVE  ActsInv'
<1>1. /\ \A c \in pageCalls : c.as \in 0 .. Len(logins)
      /\ cookie \in 0 .. Len(logins)
  BY CallParts, SessionShape DEF SessionInv, CallsHold, Known, Login
<1>2. ~unsettled => SignInIsAlone'
  <2> SUFFICES ASSUME ~unsettled, NEW d \in pageCalls', d.kind \in SignInKinds
               PROVE  pageCalls' = {d} /\ session' = Nobody /\ Quiet'
    BY DEF SignInIsAlone
  <2>1. PICK c \in pageCalls : c.kind \in SignInKinds
    OBVIOUS
  <2>2. pageCalls = {c} /\ session = Nobody /\ Quiet
    BY <2>1 DEF ActsInv, SignInIsAlone
  <2>3. pageCalls' = {d}
    BY <2>2
  <2> QED
    BY <2>2, <2>3 DEF Quiet
<1>3. ~unsettled => CallsCarryCookie'
  BY DEF ActsInv, CallsCarryCookie
<1>4. HandoffsAreApproved'
  <2>1. \A c \in pageCalls : Owner(c.as)' = Owner(c.as)
    BY <1>1, OwnersStay
  <2> QED
    BY <2>1 DEF ActsInv, HandoffsAreApproved
<1>5. ActsAsItsUser' /\ HandoffBelongsToApprover'
  BY <1>1, OwnersStay DEF ActsInv, ActsAsItsUser, HandoffBelongsToApprover
<1> QED
  BY <1>2, <1>3, <1>4, <1>5 DEF ActsInv

\* A call carries the kind it was made with, and the cookie of the moment.
LEMMA CallsSay ==
    ASSUME NEW k, NEW u, NEW b, NEW w
    PROVE  CallOf(k, u, b, w).kind = k /\ CallOf(k, u, b, w).as = cookie
BY DEF CallOf, Sent

\* What the page asks for with its user, or for a position.
LEMMA AsksAct ==
  ASSUME SessionInv, ActsInv,
         \/ LoadSession \/ HandleLogout \/ RefreshActivity \/ OpenSessions
         \/ SignInEvent \/ RevokeSession \/ ChangeCredentials \/ Approve
         \/ \E u \in Accounts : PositionFound(u)
  PROVE  ActsInv'
<1>1. ASSUME NEW k \in CallKinds \ (SignInKinds \cup {"handoff"}), NEW u, NEW w,
             Ask(CallOf(k, u, "", w)), unsettled \/ NoSignIn,
             UNCHANGED <<logins, session, cookie, unsettled, handoff, approved, approvals, stray>>
      PROVE  ActsInv'
  <2>1. pageCalls' = pageCalls \cup {CallOf(k, u, "", w)} /\ CallOf(k, u, "", w).kind = k
        /\ CallOf(k, u, "", w).as = cookie /\ Left(pageCalls, pageCalls)
    BY <1>1 DEF Ask, CallOf, Sent, Left
  <2>2. approved' \in approvals' \cup {Nobody} /\ pageCalls \in SUBSET pageCalls
    BY <1>1 DEF ActsInv, HandoffsAreApproved
  <2> QED
    BY <1>1, <2>1, <2>2, AskingActs
<1>2. /\ \A k : Plain(k) = CallOf(k, Nobody, "", 0)
      /\ MeCall(cookie) = CallOf("me", Nobody, "", 0)
      /\ {"me", "logout", "timer", "list", "revoke", "others", "credentials", "position"}
             \subseteq CallKinds \ (SignInKinds \cup {"handoff"})
  BY DEF Plain, MeCall, CallOf, CallKinds, SignInKinds, PanelKinds
<1>3. CASE LoadSession \/ HandleLogout \/ RefreshActivity \/ OpenSessions \/ SignInEvent
           \/ ChangeCredentials
  <2>1. /\ unsettled \/ NoSignIn
        /\ UNCHANGED <<logins, session, cookie, unsettled, handoff, approved, approvals, stray>>
    BY <1>3, NobodySignsIn
    DEF LoadSession, HandleLogout, RefreshActivity, OpenSessions, SignInEvent, ChangeCredentials,
        WorkspaceShown, server, signInVars, extension
  <2>2. \E k \in {"me", "logout", "timer", "list", "credentials"} : Ask(CallOf(k, Nobody, "", 0))
    BY <1>2, <1>3
    DEF LoadSession, HandleLogout, RefreshActivity, OpenSessions, SignInEvent, ChangeCredentials
  <2> QED
    BY <1>1, <1>2, <2>1, <2>2
<1>4. CASE RevokeSession
  <2>1. /\ unsettled \/ NoSignIn
        /\ UNCHANGED <<logins, session, cookie, unsettled, handoff, approved, approvals, stray>>
    BY <1>4, NobodySignsIn DEF RevokeSession, WorkspaceShown, server, signInVars, extension
  <2>2. \E k \in {"revoke", "others"} : \E w : Ask(CallOf(k, Nobody, "", w))
    BY <1>2, <1>4 DEF RevokeSession
  <2> QED
    BY <1>1, <1>2, <2>1, <2>2
<1>5. ASSUME NEW u \in Accounts, PositionFound(u)
      PROVE  ActsInv'
  <2>1. /\ unsettled \/ NoSignIn
        /\ UNCHANGED <<logins, session, cookie, unsettled, handoff, approved, approvals, stray>>
    BY <1>5, NobodySignsIn DEF PositionFound, Quiet, server, signInVars, extension
  <2>2. Ask(CallOf("position", u, "", 0))
    BY <1>5 DEF PositionFound
  <2> QED
    BY <1>1, <1>2, <2>1, <2>2
<1>6. CASE Approve
  <2>1. /\ unsettled \/ NoSignIn
        /\ session # Nobody /\ approvals' = approvals \cup {session} /\ approved' = session
        /\ stray \subseteq stray' /\ (unsettled => Owner(cookie) \in stray')
        /\ UNCHANGED <<logins, session, cookie, unsettled, handoff>>
    BY <1>6, NobodySignsIn DEF Approve, HandsOff, HandoffShown, server, signInVars
  <2>2. pageCalls' = pageCalls \cup {Plain("handoff")} /\ Plain("handoff").kind = "handoff"
        /\ Plain("handoff").as = cookie /\ Left(pageCalls, pageCalls)
    BY <1>6 DEF Approve, Ask, Plain, CallOf, Sent, Left
  <2>3. "handoff" \notin SignInKinds /\ pageCalls \in SUBSET pageCalls
    BY DEF SignInKinds
  <2> QED
    BY <2>1, <2>2, <2>3, AskingActs
<1> QED
  BY <1>3, <1>4, <1>5, <1>6

\* Steps of the page that leave its calls, forget its user, or sign in.
LEMMA PageActs ==
  ASSUME SessionInv, ActsInv, SessionPageNext
  PROVE  ActsInv'
<1>1. pageCalls \in SUBSET pageCalls /\ Left(pageCalls, pageCalls)
      /\ Left(pageCalls, Hushed(pageCalls))
  BY DEF Left
<1>2. CASE SessionRevoked
  <2>1. /\ pageCalls' = Hushed(pageCalls) /\ session' = Nobody /\ Quiet = Quiet'
        /\ UNCHANGED <<logins, cookie, unsettled, stray, approved, approvals, handoff>>
    BY <1>2 DEF SessionRevoked, ClearSessionState, Forget, Quiet, server, extension
  <2> QED
    BY <1>1, <2>1, LeavingActs
<1>3. CASE ShowCredentials \/ CoolDown \/ RequestLocation
           \/ \E u \in Accounts : PositionFailed(u) \/ TryAgain(u)
  <2>1. UNCHANGED <<logins, session, cookie, unsettled, stray, approved, approvals, handoff, pageCalls>>
    BY <1>3
    DEF ShowCredentials, CoolDown, RequestLocation, PositionFailed, TryAgain, server, signInVars,
        extension
  <2>2. session = Nobody /\ Quiet => Quiet'
    BY <1>3 DEF ShowCredentials, CoolDown, RequestLocation, PositionFailed, TryAgain, Quiet
  <2> QED
    BY <1>1, <2>1, <2>2, LeavingActs
<1>4. CASE SubmitPasskey \/ \E u \in Accounts : SubmitLogin(u)
  <2>1. session = Nobody /\ ~authLoading /\ unsettled' = Unsettled
    BY <1>4 DEF SubmitPasskey, SubmitLogin, SignInShown
  <2>2. \E k \in {"login", "options"} : \E u, b : Ask(CallOf(k, u, b, 0))
    BY <1>4 DEF SubmitPasskey, SubmitLogin
  <2>3. PICK d : pageCalls' = pageCalls \cup {d} /\ d.kind \in {"login", "options"}
    BY <2>2, CallsSay DEF Ask
  <2>4. UNCHANGED <<logins, session, cookie, handoff, approved, approvals, stray, capture>>
    BY <1>4 DEF SubmitPasskey, SubmitLogin, server, extension
  <2>5. CASE Unsettled
    BY <2>1, <2>3, <2>4, <2>5, UnsettledActs
  <2>6. CASE ~Unsettled
    <3>1. pageCalls = {} /\ Quiet
      BY <2>1, <2>6 DEF Unsettled, Quiet
    <3> QED
      BY <2>1, <2>3, <2>4, <3>1, SigningActs DEF SignInKinds
  <2> QED
    BY <2>5, <2>6
<1>5. CASE Reopen
  <2>1. MeCall(cookie).kind = "me" /\ MeCall(cookie).as = cookie
        /\ "me" \notin SignInKinds \cup {"handoff"}
    BY DEF MeCall, Sent, SignInKinds
  <2>2. pageCalls' = {MeCall(cookie)} /\ session' = Nobody /\ approved' = Nobody
        /\ UNCHANGED <<logins, cookie, handoff, approvals, stray>>
    BY <1>5 DEF Reopen, server
  <2> QED
    BY <2>1, <2>2
    DEF ActsInv, SignInIsAlone, CallsCarryCookie, HandoffsAreApproved, ActsAsItsUser,
        HandoffBelongsToApprover
<1> QED
  BY <1>2, <1>3, <1>4, <1>5, AsksAct DEF SessionPageNext

\* Answers.
LEMMA AnswersAct ==
  ASSUME SessionInv, ActsInv, NEW c \in pageCalls, Heard(c) \/ AnswerPrompt(c)
  PROVE  ActsInv'
<1> DEFINE cs == pageCalls \ {c}
<1>1. cs \in SUBSET pageCalls /\ Left(cs, cs) /\ Left(cs, Hushed(cs))
  BY DEF Left
<1>2. ASSUME Left(cs, pageCalls'), session' \in {session, Nobody}, cookie' \in {cookie, 0},
             session = Nobody /\ Quiet => Quiet',
             UNCHANGED <<logins, unsettled, stray, approved, approvals, handoff>>
      PROVE  ActsInv'
  BY <1>1, <1>2, LeavingActs
<1>3. ASSUME Expire(c) \/ (pageCalls' = cs /\ UNCHANGED <<session, capture, extension>>),
             UNCHANGED <<cookie, unsettled, server>>
      PROVE  ActsInv'
  <2>1. Left(cs, pageCalls') /\ session' \in {session, Nobody}
        /\ UNCHANGED <<logins, cookie, unsettled, capture, stray, approved, approvals, handoff>>
    BY <1>1, <1>3 DEF Expire, ClearSessionState, Forget, extension, server
  <2> QED
    BY <1>2, <2>1 DEF Quiet
<1>4. CASE MeAnswered(c)
  <2>1. CASE c.reply = "ok"
    <3>1. c.kind = "me" /\ Become(Owner(c.as), cookie, c)
          /\ UNCHANGED <<logins, cookie, unsettled, approved, approvals, handoff>>
      BY <1>4, <2>1 DEF MeAnswered, Expire, server
    <3>2. unsettled \/ NoSignIn
      BY <3>1 DEF ActsInv, SignInIsAlone, NoSignIn, SignInKinds
    <3>3. ~unsettled /\ cookie' # 0 => Owner(c.as) = Owner(cookie') /\ \A e \in cs : e.as = cookie'
      BY <3>1, <3>2 DEF ActsInv, CallsCarryCookie, NoSignIn
    <3> QED
      BY <3>1, <3>2, <3>3, BecomingActs DEF NoSignIn
  <2>2. CASE c.reply # "ok"
    BY <1>3, <1>4, <2>2 DEF MeAnswered, extension
  <2> QED
    BY <2>1, <2>2
<1>5. CASE SignedIn(c)
  <2>1. c.kind \in SignInKinds /\ Become(Owner(c.what), cookie', c) /\ cookie' = c.what
        /\ UNCHANGED <<logins, unsettled, approved, approvals, handoff>>
    BY <1>5 DEF SignedIn, SignInKinds, server
  <2>2. unsettled \/ cs = {}
    BY <2>1 DEF ActsInv, SignInIsAlone
  <2> QED
    BY <2>1, <2>2, BecomingActs
<1>6. CASE Challenge(c)
  <2>1. c.kind \in SignInKinds
    BY <1>6 DEF Challenge, SignInKinds
  <2>2. PICK d : pageCalls' = cs \cup {d} /\ d.kind = "prompt"
    BY <1>6, CallsSay DEF Challenge
  <2>3. UNCHANGED <<logins, session, cookie, unsettled, stray, handoff, approved, approvals, capture>>
    BY <1>6 DEF Challenge, server, signInVars, extension
  <2>4. CASE unsettled
    BY <2>2, <2>3, <2>4, UnsettledActs
  <2>5. CASE ~unsettled
    <3>1. pageCalls = {c} /\ session = Nobody /\ Quiet
      BY <2>1, <2>5 DEF ActsInv, SignInIsAlone
    <3> QED
      BY <2>2, <2>3, <3>1, SigningActs DEF SignInKinds
  <2> QED
    BY <2>4, <2>5
<1>7. CASE AnswerPrompt(c)
  <2>1. c.kind \in SignInKinds
    BY <1>7 DEF AnswerPrompt, SignInKinds
  <2>2. UNCHANGED <<logins, session, cookie, unsettled, stray, handoff, approved, approvals, capture>>
    BY <1>7 DEF AnswerPrompt, server, extension
  <2>3. CASE pageCalls' = cs
    BY <1>1, <1>2, <2>2, <2>3 DEF Quiet
  <2>4. CASE \E u : pageCalls' = cs \cup {CallOf("verify", u, c.key, 0)}
    <3>1. PICK d : pageCalls' = cs \cup {d} /\ d.kind = "verify"
      BY <2>4, CallsSay
    <3>2. CASE unsettled
      BY <2>2, <3>1, <3>2, UnsettledActs
    <3>3. CASE ~unsettled
      <4>1. pageCalls = {c} /\ session = Nobody /\ Quiet
        BY <2>1, <3>3 DEF ActsInv, SignInIsAlone
      <4> QED
        BY <2>2, <3>1, <4>1, SigningActs DEF SignInKinds
    <3> QED
      BY <3>2, <3>3
  <2> QED
    BY <1>7, <2>3, <2>4 DEF AnswerPrompt
<1>8. CASE SignInFailed(c)
  BY <1>3, <1>8 DEF SignInFailed
<1>9. CASE LoggedOut(c)
  <2>1. Left(cs, pageCalls') /\ session' \in {session, Nobody} /\ cookie' \in {cookie, 0}
        /\ UNCHANGED <<logins, capture, unsettled, stray, approved, approvals, handoff>>
    BY <1>1, <1>9 DEF LoggedOut, ClearSessionState, Forget, extension, server
  <2> QED
    BY <1>2, <2>1 DEF Quiet
<1>10. CASE ActivityAnswered(c)
  BY <1>3, <1>10 DEF ActivityAnswered
<1>11. CASE PanelAnswered(c)
  <2>1. CASE c.reply # "ok"
    BY <1>3, <1>11, <2>1 DEF PanelAnswered
  <2>2. CASE c.reply = "ok"
    <3>1. unsettled \/ NoSignIn
      BY <1>11 DEF PanelAnswered, ActsInv, SignInIsAlone, NoSignIn, SignInKinds
    <3>2. PICK d : /\ pageCalls' = cs \cup {d} /\ d.kind \in {"me", "list"} /\ d.as = cookie
      <4>1. MeCall(cookie).kind = "me" /\ MeCall(cookie).as = cookie
        BY DEF MeCall, Sent
      <4>2. Plain("list").kind = "list" /\ Plain("list").as = cookie
        BY DEF Plain, CallOf, Sent
      <4>3. \E d \in {MeCall(cookie), Plain("list")} : pageCalls' = cs \cup {d}
        BY <1>11, <2>2 DEF PanelAnswered, Expire
      <4> QED
        BY <4>1, <4>2, <4>3
    <3>3. UNCHANGED <<logins, session, cookie, unsettled, stray, handoff, approved, approvals>>
      BY <1>11, <2>2 DEF PanelAnswered, Expire, server, extension
    <3>4. approved' \in approvals' \cup {Nobody} /\ d.kind \notin SignInKinds \cup {"handoff"}
      BY <3>2, <3>3 DEF ActsInv, HandoffsAreApproved, SignInKinds
    <3> QED
      BY <1>1, <3>1, <3>2, <3>3, <3>4, AskingActs
  <2> QED
    BY <2>1, <2>2
<1>12. CASE HandoffAnswered(c)
  <2>1. Left(cs, pageCalls') /\ session' \in {session, Nobody}
        /\ UNCHANGED <<logins, cookie, unsettled, capture, stray, approved, approvals, handoff>>
    BY <1>1, <1>12 DEF HandoffAnswered, Expire, ClearSessionState, Forget, extension, server
  <2> QED
    BY <1>2, <2>1 DEF Quiet
<1>13. CASE PositionAnswered(c)
  <2>1. Left(cs, pageCalls') /\ session' \in {session, Nobody}
        /\ UNCHANGED <<logins, cookie, unsettled, stray, approved, approvals, handoff>>
    BY <1>1, <1>13 DEF PositionAnswered, Forget, extension, server
  <2>2. Quiet => Quiet'
    <3>1. Captures(c.user, "done", 0)
      BY <1>13 DEF PositionAnswered
    <3>2. CaptureTypeOK
      BY SessionParts DEF SessionInv
    <3> QED
      BY <3>1, <3>2 DEF Captures, Quiet, CaptureTypeOK
  <2> QED
    BY <1>2, <2>1, <2>2
<1> QED
  BY <1>4, <1>5, <1>6, <1>7, <1>8, <1>9, <1>10, <1>11, <1>12, <1>13 DEF Heard

\* The server, and other browsers.
LEMMA ServiceActs ==
  ASSUME SessionInv, ActsInv, NEW c \in pageCalls, ServeCall(c) \/ Lose(c)
  PROVE  ActsInv'
<1>1. PICK r, w : Reply(c, r, w)
  BY DEF ServeCall, Lose, ServeSignIn, ServeSession, ServeRead, ServeRevoke, ServeHandoff,
         ServePosition
<1>2. WithReply(c, r, w).kind = c.kind /\ WithReply(c, r, w).as = c.as
  BY DEF WithReply, SessionInv, CallsHold, Call
<1>3. pageCalls' = (pageCalls \ {c}) \cup {WithReply(c, r, w)}
  BY <1>1 DEF Reply
<1>4. /\ \A d \in pageCalls' : \E e \in pageCalls : d.kind = e.kind /\ d.as = e.as
      /\ \A e : pageCalls = {e} => \A d, f \in pageCalls' : d = f
  BY <1>2, <1>3
<1>5. UNCHANGED <<session, cookie, unsettled, stray, approved, approvals, capture>>
  BY DEF ServeCall, Lose, signInVars, extension
<1>6. Grown
  BY DEF ServeCall, Lose, ServeSignIn, ServeSession, CreateSession, Grown, server
<1>7. handoff' \in approvals \cup stray \cup {handoff}
  <2>1. CASE c.as \in live /\ ServeHandoff(c)
    <3>1. c.as # 0 /\ c.kind = "handoff"
      BY <2>1, SessionShape DEF ServeHandoff
    <3> QED
      BY <2>1, <3>1 DEF ServeHandoff, ActsInv, HandoffsAreApproved
  <2> QED
    BY <2>1
    DEF ServeCall, Lose, ServeSignIn, ServeSession, ServeRead, ServeRevoke, ServePosition, server
<1> QED
  BY <1>4, <1>5, <1>6, <1>7, GrowingActs

\* Every step keeps the invariant.
LEMMA ActsInvNext == SessionInv /\ ActsInv /\ [SessionNext]_sessionVars => ActsInv'
<1> SUFFICES ASSUME SessionInv, ActsInv, [SessionNext]_sessionVars
             PROVE  ActsInv'
  OBVIOUS
<1>1. /\ \A d \in pageCalls : \E c \in pageCalls : d.kind = c.kind /\ d.as = c.as
      /\ \A c : pageCalls = {c} => \A d, e \in pageCalls : d = e
  OBVIOUS
<1>2. CASE UNCHANGED sessionVars
  BY <1>1, <1>2, GrowingActs
  DEF Grown, sessionVars, server, signInVars, extension, budget
<1>3. ASSUME NEW u, SignInElsewhere(u) \/ EndSession(u)
      PROVE  ActsInv'
  <2>1. Grown /\ UNCHANGED <<handoff, session, cookie, unsettled, stray, approved, approvals, capture,
                                pageCalls>>
    BY <1>3 DEF SignInElsewhere, EndSession, CreateSession, Grown, signInVars, extension
  <2> QED
    BY <1>1, <2>1, GrowingActs
<1> QED
  BY <1>2, <1>3, PageActs, AnswersAct, ServiceActs DEF SessionNext

\* Nobody is signed in at first, and the page has asked who is.
LEMMA ActsInitHolds == SessionInit => ActsInv
<1>1. MeCall(cookie).kind = "me" /\ "me" \notin SignInKinds \cup {"handoff"}
      /\ MeCall(cookie).as = cookie
  BY DEF MeCall, Sent, SignInKinds
<1> QED
  BY <1>1
  DEF SessionInit, ActsInv, SignInIsAlone, CallsCarryCookie, HandoffsAreApproved, ActsAsItsUser,
      HandoffBelongsToApprover

\* After any sign-ins, losses, revocations and answers, in any order, the cookie
\* belongs to the user on the screen (loadSession, the two sign-ins, logout and
\* every 401): until somebody signs in while something of an earlier session is
\* under way, and again once the page is opened anew or a sign-in begins alone.
THEOREM AlwaysActsAsItsUser == SessionSpec => []ActsAsItsUser
<1>1. ActsInv => ActsAsItsUser
  BY DEF ActsInv
<1> QED
  BY SessionInitHolds, SessionInvNext, ActsInitHolds, ActsInvNext, <1>1, PTL DEF SessionSpec

\* An extension is signed in as somebody who pressed Approve, or as the owner of
\* the cookie with which a page on which sign-ins have crossed completed it (the
\* handoff's effect: "Approval belongs to this request and user").
THEOREM HandoffAlwaysBelongsToApprover == SessionSpec => []HandoffBelongsToApprover
<1>1. ActsInv => HandoffBelongsToApprover
  BY DEF ActsInv
<1> QED
  BY SessionInitHolds, SessionInvNext, ActsInitHolds, ActsInvNext, <1>1, PTL DEF SessionSpec

=============================================================================
