----------------------------- MODULE ProjectAccess -----------------------------
(* Accounts, sessions and the members of a project.  A request reads first    *)
(* (who calls, what it may do, what the rows say) and writes when it commits; *)
(* sessions do not lock what they read, and an UPDATE names only the columns  *)
(* that differ from what was read.  Rows are told apart by the commit that    *)
(* inserted them.                                                             *)
EXTENDS Integers, FiniteSets

CONSTANTS None,       \* no row, no token, no request
          Names,      \* usernames
          Root,       \* the configured admin of bootstrap_users
          Roles,      \* the roles an admin may give
          Sessions,   \* browsers, one request in flight each
          MaxCommits  \* bound on the requests that write

VARIABLES account,    \* users by username
          project,    \* the project, its members included
          token,      \* what each session was issued
          request,    \* what each session is about to write
          commits,    \* commits so far
          out,        \* sessions that were signed out since they were issued
          overlapped, \* two requests were in flight together
          reborn      \* a deleted username was given out again

vars == <<account, project, token, request, commits, out, overlapped, reborn>>

Account(at, n, role) == [id |-> <<at, n>>, role |-> role, active |-> TRUE, ver |-> 1]
RowKey(row) == <<row.user, row.at>>

Init ==
  /\ \E given \in [Names -> Roles] :
       account = [n \in Names |-> Account(0, n, IF n = Root THEN "admin" ELSE given[n])]
  /\ project = None
  /\ token = [s \in Sessions |-> None]
  /\ request = [s \in Sessions |-> None]
  /\ commits = 0 /\ out = {} /\ overlapped = FALSE /\ reborn = FALSE

-----------------------------------------------------------------------------
(* Who calls *)

NameOf(id) == {n \in Names : account[n] # None /\ account[n].id = id}

\* The row the token names, by id and else by username.
Holder(t) == IF NameOf(t.id) # {} THEN NameOf(t.id)
             ELSE {n \in {t.name} : account[n] # None}

\* Mutant: the version of the token is not compared.
CallersOfAnyVersion(s) ==
  IF token[s] = None THEN {} ELSE {n \in Holder(token[s]) : account[n].active}

Callers(s) ==
  IF token[s] = None THEN {}
  ELSE {n \in Holder(token[s]) : account[n].active /\ account[n].ver = token[s].ver}

Login(s, n) ==
  /\ request[s] = None
  /\ account[n] # None /\ account[n].active
  /\ token' = [token EXCEPT ![s] = [name |-> n, id |-> account[n].id, ver |-> account[n].ver]]
  /\ out' = out \ {s}
  /\ UNCHANGED <<account, project, request, commits, overlapped, reborn>>

-----------------------------------------------------------------------------
(* What a caller may do *)

Assignment(id) == {row \in project.members : row.user = id}

Permission(n) ==
  LET a == account[n]
  IN  CASE project.owner = n -> "owner"
        [] project.owner # n /\ a.role = "admin" -> "admin"
        [] project.owner # n /\ a.role # "admin" /\ Assignment(a.id) # {} ->
             IF a.role = "guest" THEN "view" ELSE (CHOOSE row \in Assignment(a.id) : TRUE).access
        [] OTHER -> IF a.role = "manager" THEN "view" ELSE "none"

CanManage(n) == project # None /\ Permission(n) \in {"owner", "admin"}

Listed(n) ==
  \/ account[n].role \in {"admin", "manager"}
  \/ project.owner = n
  \/ Assignment(account[n].id) # {}

Owns(n) == project # None /\ project.owner = n

-----------------------------------------------------------------------------
(* Requests: the reading half *)

Ask(s, write) ==
  /\ request[s] = None /\ commits < MaxCommits
  /\ request' = [request EXCEPT ![s] = write]
  /\ overlapped' = (overlapped \/ \E t \in Sessions : request[t] # None)
  /\ UNCHANGED <<account, project, token, commits, out, reborn>>

UserWrite(n, columns) ==
  [kind |-> "user", id |-> account[n].id,
   set |-> [c \in {d \in DOMAIN columns : columns[d] # account[n][d]} |-> columns[c]]]

NextVersion(n) == [ver |-> account[n].ver + 1]

\* logout_user and change_password
Leave(s) == \E n \in Callers(s) : Ask(s, UserWrite(n, NextVersion(n)))

IsAdmin(s) == \E n \in Callers(s) : account[n].role = "admin"

CreateUser(s, n, role) ==
  /\ IsAdmin(s)
  /\ account[n] = None
  /\ Ask(s, [kind |-> "newUser", name |-> n, role |-> role])

SetRole(s, n, role) ==
  /\ IsAdmin(s) /\ account[n] # None
  /\ n \in Callers(s) => role = "admin"
  /\ role = "guest" => ~Owns(n)
  /\ Ask(s, UserWrite(n, [role |-> role]))

SetActive(s, n, active) ==
  /\ IsAdmin(s) /\ account[n] # None
  /\ n \in Callers(s) => active
  /\ Ask(s, UserWrite(n, [active |-> active, ver |-> account[n].ver + 1]))

SetPassword(s, n) ==
  /\ IsAdmin(s) /\ account[n] # None
  /\ Ask(s, UserWrite(n, NextVersion(n)))

DeleteUser(s, n) ==
  /\ IsAdmin(s) /\ account[n] # None
  /\ n \notin Callers(s)
  /\ ~Owns(n)
  /\ Ask(s, [kind |-> "noUser", id |-> account[n].id])

\* The members a payload may name: users by id, with the access they get.
Assignable(owner, type, chosen) ==
  /\ chosen # <<>> => type = "team"
  /\ \A n \in DOMAIN chosen :
       /\ account[n] # None /\ account[n].active
       /\ n # owner
       /\ chosen[n] = "edit" => account[n].role # "guest"

Inserted(chosen, known) ==
  {[user |-> account[n].id, access |-> chosen[n]] : n \in {m \in DOMAIN chosen : account[m].id \notin known}}

CreateProject(s, type, chosen) ==
  \E n \in Callers(s) :
    /\ project = None  \* one project at a time
    /\ account[n].role # "guest"
    /\ Assignable(n, type, chosen)
    /\ Ask(s, [kind |-> "newProject", owner |-> n, type |-> type, insert |-> Inserted(chosen, {})])

ProjectWrite(columns, drop, change, insert) ==
  [kind |-> "project", at |-> project.at, set |-> columns,
   drop |-> drop, change |-> change, insert |-> insert]

\* _validate_and_apply_assignments: rows that are not named go, rows whose
\* access differs are new again, the others are left alone.
UpdateProject(s, type, chosen) ==
  \E n \in Callers(s) :
    /\ CanManage(n)
    /\ Assignable(project.owner, type, chosen)
    /\ LET named(row) == {m \in DOMAIN chosen : account[m].id = row.user}
           kept == {row \in project.members : named(row) # {}}
           access(row) == chosen[CHOOSE m \in named(row) : TRUE]
       IN  Ask(s, ProjectWrite(
             IF type = project.type THEN <<>> ELSE [type |-> type],
             {RowKey(row) : row \in project.members \ kept},
             {[row EXCEPT !.access = access(row), !.new = TRUE] :
                row \in {r \in kept : access(r) # r.access}},
             Inserted(chosen, {row.user : row \in kept})))

Acknowledge(s) ==
  \E n \in Callers(s) :
    /\ project # None /\ Permission(n) # "none"
    /\ \E row \in Assignment(account[n].id) :
         /\ row.new
         /\ Ask(s, ProjectWrite(<<>>, {}, {[row EXCEPT !.new = FALSE]}, {}))

DeleteProject(s) ==
  \E n \in Callers(s) : CanManage(n) /\ Ask(s, [kind |-> "noProject", at |-> project.at])

-----------------------------------------------------------------------------
(* Requests: the commit.  An UPDATE of a row that is gone and an INSERT that   *)
(* breaks a key or names a missing row roll the request back.                 *)

SignOut(id) == out' = out \cup {s \in Sessions : token[s] # None /\ token[s].id = id}

Updated(row, columns) == [c \in DOMAIN row |-> IF c \in DOMAIN columns THEN columns[c] ELSE row[c]]

CommitUser(w) ==
  \E n \in NameOf(w.id) :
    /\ account' = [account EXCEPT ![n] = Updated(@, w.set)]
    /\ IF "ver" \in DOMAIN w.set THEN SignOut(w.id) ELSE UNCHANGED out
    /\ UNCHANGED <<project, reborn>>

CommitNewUser(w) ==
  /\ account[w.name] = None
  /\ account' = [account EXCEPT ![w.name] = Account(commits + 1, w.name, w.role)]
  /\ reborn' = (reborn \/ \E s \in Sessions : token[s] # None /\ token[s].name = w.name)
  /\ UNCHANGED <<project, out>>

CommitNoUser(w) ==
  /\ account' = [n \in Names |-> IF n \in NameOf(w.id) THEN None ELSE account[n]]
  /\ project' = IF project = None THEN None
                ELSE [project EXCEPT !.members = {row \in @ : row.user # w.id}]
  /\ SignOut(w.id)
  /\ UNCHANGED reborn

NewRows(insert) ==
  {[user |-> i.user, at |-> commits + 1, access |-> i.access, new |-> TRUE] : i \in insert}

KeysHold(members) ==
  /\ \A row \in members : NameOf(row.user) # {}
  /\ \A r, q \in members : r.user = q.user => r = q

CommitNewProject(w) ==
  /\ project = None
  /\ KeysHold(NewRows(w.insert))
  /\ project' = [at |-> commits + 1, owner |-> w.owner, type |-> w.type, members |-> NewRows(w.insert)]
  /\ UNCHANGED <<account, out, reborn>>

CommitProject(w) ==
  /\ project # None /\ project.at = w.at
  /\ {RowKey(row) : row \in w.change} \subseteq {RowKey(row) : row \in project.members}
  /\ LET touched == w.drop \cup {RowKey(row) : row \in w.change}
         rest == {row \in project.members : RowKey(row) \notin touched}
         members == rest \cup w.change \cup NewRows(w.insert)
     IN  /\ KeysHold(members)
         /\ project' = Updated([project EXCEPT !.members = members], w.set)
  /\ UNCHANGED <<account, out, reborn>>

CommitNoProject(w) ==
  /\ project # None /\ project.at = w.at
  /\ project' = None
  /\ UNCHANGED <<account, out, reborn>>

Apply(w) ==
  \/ w.kind = "user" /\ CommitUser(w)
  \/ w.kind = "newUser" /\ CommitNewUser(w)
  \/ w.kind = "noUser" /\ CommitNoUser(w)
  \/ w.kind = "newProject" /\ CommitNewProject(w)
  \/ w.kind = "project" /\ CommitProject(w)
  \/ w.kind = "noProject" /\ CommitNoProject(w)

Done(s) == request' = [request EXCEPT ![s] = None] /\ UNCHANGED <<token, overlapped>>

Commit(s) ==
  /\ request[s] # None
  /\ Apply(request[s])
  /\ commits' = commits + 1
  /\ Done(s)

Rollback(s) ==
  /\ request[s] # None
  /\ ~ENABLED Apply(request[s])
  /\ Done(s)
  /\ UNCHANGED <<account, project, commits, out, reborn>>

\* bootstrap_users, at a restart
Bootstrap ==
  /\ commits < MaxCommits
  /\ IF account[Root] = None
     THEN /\ account' = [account EXCEPT ![Root] = Account(commits + 1, Root, "admin")]
          /\ reborn' = TRUE
     ELSE /\ account[Root].role # "admin" \/ ~account[Root].active
          /\ account' = [account EXCEPT ![Root].role = "admin", ![Root].active = TRUE]
          /\ UNCHANGED reborn
  /\ commits' = commits + 1
  /\ UNCHANGED <<project, token, request, out, overlapped>>

-----------------------------------------------------------------------------
Choices == UNION {[S -> {"view", "edit"}] : S \in SUBSET Names}

Asks(s) ==
  \/ \E n \in Names : SetPassword(s, n) \/ DeleteUser(s, n)
  \/ \E n \in Names, role \in Roles : CreateUser(s, n, role) \/ SetRole(s, n, role)
  \/ \E n \in Names, active \in BOOLEAN : SetActive(s, n, active)
  \/ \E type \in {"personal", "team"}, chosen \in Choices :
       CreateProject(s, type, chosen) \/ UpdateProject(s, type, chosen)
  \/ Leave(s) \/ Acknowledge(s) \/ DeleteProject(s)

Next ==
  \/ \E s \in Sessions :
       \/ request[s] = None /\ commits < MaxCommits /\ Asks(s)
       \/ \E n \in Names : Login(s, n)
       \/ Commit(s) \/ Rollback(s)
  \/ Bootstrap

Spec == Init /\ [][Next]_vars

-----------------------------------------------------------------------------
\* An owner can work in the project: while requests are handled in turn its
\* account exists and is no guest, whatever admins do to accounts
\* (admin/routes refuses both while projects are owned).
OwnersCanWork ==
  ~overlapped /\ project # None =>
    account[project.owner] # None /\ account[project.owner].role # "guest"

\* Nobody can administer the last admin away: while requests are handled in
\* turn an active admin remains (update_managed_user, delete_user).
AnAdminRemains ==
  ~overlapped => \E n \in Names : account[n] # None /\ account[n].role = "admin" /\ account[n].active

\* The list of projects and the permission to open one, computed by different
\* queries, agree for every account (list_accessible, permission_for_project).
ListShowsWhatOpens ==
  project # None => \A n \in Names : account[n] # None => (Listed(n) <=> Permission(n) # "none")

\* A member is an existing account other than the owner's, has one row, and
\* only a team project has members; while requests are handled in turn.
MembersFit ==
  project # None =>
    /\ KeysHold(project.members)
    /\ ~overlapped => /\ project.members # {} => project.type = "team"
                      /\ \A row \in project.members : NameOf(row.user) # {project.owner}

\* A session that was signed out (logout, a new password, a disabled account)
\* stays out until it logs in again, unless requests overlapped or the
\* username was given out again (logout_user, get_current_user_model).
SignedOutStaysOut == ~overlapped /\ ~reborn => \A s \in out : Callers(s) = {}

AccessHolds ==
  /\ OwnersCanWork /\ AnAdminRemains /\ ListShowsWhatOpens /\ MembersFit /\ SignedOutStaysOut
=============================================================================
