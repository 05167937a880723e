---------------------------- MODULE UserAccounts ----------------------------
(***************************************************************************)
(* The account use cases of application/usecase/userusecase, behind POST  *)
(* /v1/auth/register, GET /v1/auth/me and POST /v1/auth/change-password:  *)
(* CreateUserUseCase, GetMeUseCase and ChangePasswordUseCase, on the user  *)
(* repository (domid.Repository).                                          *)
(*                                                                         *)
(* Requests are handled concurrently.  Each repository call is one atomic *)
(* step; ChangePassword makes two (GetByID, then Update) with the hash     *)
(* comparison between them, and no transaction or version check joins     *)
(* them.  The repository and the hasher are not in the source tree: Save  *)
(* and Update may fail (a constraint, a lost connection), Hash may fail    *)
(* (bcrypt refuses passwords over 72 bytes).  A password digest is         *)
(* modelled by the password itself; Compare is equality.                   *)
(***************************************************************************)
EXTENDS Naturals, Sequences, FiniteSets, TLC

CONSTANTS
  Emails,      \* addresses clients register with (valid)
  BadEmail,    \* an address NewEmail rejects
  Passwords,   \* passwords clients send
  Roles,       \* role values clients send, valid or not
  BadId,       \* a user id uuid.Parse rejects
  None,        \* no value yet
  MaxUsers,    \* bound: users created (uuid.New gives each a fresh id)
  MaxReqs      \* bound: requests

(* domid.Role.IsValid *)
ValidRoles == {"admin", "user", "viewer"}

VARIABLES
  users,       \* the repository: user id -> [email, password, role, ver]
  reqs,        \* requests in flight and their answers
  nextId       \* ids handed out by uuid.New in NewUser

vars == <<users, reqs, nextId>>

UserIds == 1 .. MaxUsers

Init == users = <<>> /\ reqs = <<>> /\ nextId = 1

Answer(r, status) == reqs' = [reqs EXCEPT ![r].pc = "done", ![r].status = status]

Send(q) ==
  /\ Len(reqs) < MaxReqs
  /\ reqs' = Append(reqs, q)
  /\ UNCHANGED <<users, nextId>>

-----------------------------------------------------------------------------
(* CreateUserUseCase.Execute: NewEmail, Role.IsValid, the refusal of      *)
(* admin, Hash, NewUser with a fresh id, ValidateUser, repo.Save.  Only    *)
(* Save touches shared state; Hash and Save may fail.                      *)
Register(r) ==
  LET q == reqs[r] IN
  /\ q.op = "register" /\ q.pc = "start"
  /\ \/ /\ q.email = BadEmail \/ q.role \notin ValidRoles \/ q.role = "admin"
        /\ Answer(r, "error") /\ UNCHANGED <<users, nextId>>
     \/ /\ q.email # BadEmail /\ q.role \in ValidRoles \ {"admin"}
        /\ \/ Answer(r, "error") /\ UNCHANGED <<users, nextId>>
           \/ /\ nextId \in UserIds
              /\ users' = (nextId :> [email |-> q.email, password |-> q.new,
                                      role |-> q.role, ver |-> 1]) @@ users
              /\ nextId' = nextId + 1
              /\ Answer(r, "ok")

(* GetMeUseCase.Execute: uuid.Parse, then repo.GetByID.                    *)
GetMe(r) ==
  LET q == reqs[r] IN
  /\ q.op = "me" /\ q.pc = "start"
  /\ IF q.id \in DOMAIN users
     THEN \/ Answer(r, "error")
          \/ reqs' = [reqs EXCEPT ![r].pc = "done", ![r].status = "ok",
                                  ![r].read = users[q.id]]
     ELSE Answer(r, "error")
  /\ UNCHANGED <<users, nextId>>

(* ChangePasswordUseCase.Execute, first part: uuid.Parse (ErrInvalidID),  *)
(* then u := repo.GetByID(id).                                              *)
ChangePasswordRead(r) ==
  LET q == reqs[r] IN
  /\ q.op = "change" /\ q.pc = "start"
  /\ IF q.id \in DOMAIN users
     THEN \/ Answer(r, "error")
          \/ reqs' = [reqs EXCEPT ![r].pc = "update", ![r].read = users[q.id]]
     ELSE Answer(r, "error")
  /\ UNCHANGED <<users, nextId>>

(* Second part: Compare(u.Password, current) (ErrInvalidPassword), Hash,  *)
(* u.Password = hashed, repo.Update(u): the user as read, with the new    *)
(* password, replaces the stored one.                                      *)
ChangePasswordUpdate(r) ==
  LET q == reqs[r] IN
  /\ q.op = "change" /\ q.pc = "update"
  /\ \/ /\ q.read.password # q.current
        /\ Answer(r, "invalid_password") /\ UNCHANGED users
     \/ /\ q.read.password = q.current
        /\ Answer(r, "error") /\ UNCHANGED users
     \/ /\ q.read.password = q.current
        /\ users' = [users EXCEPT ![q.id] =
                       [q.read EXCEPT !.password = q.new, !.ver = @ + 1]]
        /\ reqs' = [reqs EXCEPT ![r].pc = "done", ![r].status = "ok",
                                ![r].replaced = users[q.id].ver]
  /\ UNCHANGED nextId

-----------------------------------------------------------------------------
NewReq(op, id, email, role, current, new) ==
  [op |-> op, id |-> id, email |-> email, role |-> role, current |-> current,
   new |-> new, pc |-> "start", status |-> None, read |-> None,
   replaced |-> None]

Requests ==
  {NewReq("register", None, e, ro, None, p) :
     e \in Emails \cup {BadEmail}, ro \in Roles, p \in Passwords}
  \cup {NewReq("me", i, None, None, None, None) : i \in UserIds \cup {BadId}}
  \cup {NewReq("change", i, None, None, c, p) :
          i \in UserIds \cup {BadId}, c \in Passwords, p \in Passwords}

Next ==
  \/ \E q \in Requests : Send(q)
  \/ \E r \in DOMAIN reqs :
       Register(r) \/ GetMe(r) \/ ChangePasswordRead(r) \/ ChangePasswordUpdate(r)

Spec == Init /\ [][Next]_vars

-----------------------------------------------------------------------------
(* Spec 5 (no component may assume exclusive access): a password change   *)
(* that reports success was authorised by the password it replaced; a     *)
(* change that compared the current password against a stale read must    *)
(* not overwrite a password set in between.                                *)
ChangeAuthorisedByReplacedPassword ==
  \A r \in DOMAIN reqs :
    reqs[r].op = "change" /\ reqs[r].status = "ok" =>
      reqs[r].replaced = reqs[r].read.ver
=============================================================================
