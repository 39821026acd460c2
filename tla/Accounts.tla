------------------------------ MODULE Accounts ------------------------------
(***************************************************************************)
(* Users, their sign-in, roles and addresses, and the mechanic profiles    *)
(* that give a user a role (auth_service.go, user_service.go,              *)
(* mechanic_service.go, mechanic_payout_service.go, middleware/auth.go and *)
(* their handlers).                                                        *)
(*                                                                         *)
(* A user row is saved as a whole by his own profile form, by a password   *)
(* reset, by an administrator's role form and by the verdicts on his       *)
(* mechanic profile; the profile row by its owner's form, by the payout    *)
(* form after a call to Paystack, and by the verdicts.  The lockout counts *)
(* in Redis, one command at a time.                                        *)
(***************************************************************************)
EXTENDS Integers, FiniteSets

CONSTANTS
  Sessions, Users, Passwords,
  ResetTokens, Addresses, Documents, Subaccounts, Banks,
  LockoutAttempts,   \* ACCOUNT_LOCKOUT_ATTEMPTS
  MaxRequests,       \* bound: requests
  MaxCrashes,        \* bound: crashes and failed statements
  None

ASSUME AccountsConstants ==
  /\ None \notin Users \cup ResetTokens \cup Addresses \cup Documents
                   \cup Subaccounts \cup Banks \cup Passwords
  /\ LockoutAttempts \in Nat \ {0}
  /\ {MaxRequests, MaxCrashes} \subseteq Nat

VARIABLES
  users,      \* the users table
  tokens,     \* the JWTs that are out and not expired, by user and type
  locks,      \* auth:lockout:<email>: the counter and whether it will expire
  resets,     \* password_reset:<token>: the user it is for
  addresses,  \* by address, "none" before it is created, "deleted" afterwards
  profiles,   \* mechanic_profiles, by user
  documents,  \* mechanic_documents, by user
  seeded,     \* the mechanics whose install services have been seeded
  accounts,   \* Paystack's subaccounts: whose, and the bank they pay to
  \* History, read by the properties only:
  tries,      \* per user, passwords compared in this life of his counter
  blind,      \* those of them Redis failed to count or to hold back
  orphaned,   \* the users whose counter lost the command that was to set its expiry
  granted,    \* the role and the verdict in force, by whoever may give them
  overtaken,  \* the users one request changed while another held what it had read before
  pc, job, requests, crashes

attempts == <<tries, blind, orphaned>>
authVars == <<tokens, locks, resets, attempts>>
powers == <<granted, overtaken>>
profileVars == <<profiles, documents, seeded, accounts>>
vars == <<users, addresses, powers, authVars, profileVars, pc, job, requests, crashes>>

-----------------------------------------------------------------------------
Roles == {"ADMIN", "VENDOR", "CUSTOMER", "MECHANIC"}

User == [role : Roles \cup {"none"}, password : Passwords \cup {None}]
NoUser == [role |-> "none", password |-> None]

ProfileStatus == {"pending", "verified", "suspended", "rejected"}
Profile == [status : ProfileStatus \cup {"none"},
            subaccount : Subaccounts \cup {None}, bank : Banks \cup {None}]
NoProfile == [status |-> "none", subaccount |-> None, bank |-> None]

Account == [user : Users \cup {None}, bank : Banks \cup {None}]
NoAccount == [user |-> None, bank |-> None]
NoLock == [count |-> 0, expires |-> FALSE]

Tokens == Users \X {"access", "refresh"}

IdleJob == [user |-> None, row |-> NoUser, profile |-> NoProfile, token |-> None,
            item |-> None, counted |-> "no", given |-> "none"]

\* An attempt to sign in is counted by the counter, or it is not because Redis failed, or
\* the counter that counted it is gone.
Counting == {"yes", "blind", "no"}

TypeOK ==
  /\ users \in [Users -> User]
  /\ tokens \subseteq Tokens
  /\ locks \in [Users -> [count : 0 .. MaxRequests, expires : BOOLEAN]]
  /\ resets \in [ResetTokens -> Users \cup {None}]
  /\ addresses \in [Addresses -> {"none", "live", "deleted"}]
  /\ profiles \in [Users -> Profile]
  /\ documents \in [Documents -> Users \cup {None}]
  /\ seeded \subseteq Users
  /\ accounts \in [Subaccounts -> Account]
  /\ {tries, blind} \subseteq [Users -> Nat]
  /\ {orphaned, overtaken} \subseteq SUBSET Users
  /\ granted \in [Users -> SUBSET (Roles \cup {"verified"})]
  /\ pc \in [Sessions -> {"idle", "register", "expire", "get", "compare", "unlock",
       "save user", "drop token", "save address", "apply", "save profile", "verdict",
       "seed", "subaccount", "add document", "remove document"}]
  /\ job \in [Sessions ->
       [user : Users \cup {None}, row : User, profile : Profile,
        token : ResetTokens \cup {None}, counted : Counting, given : Roles \cup {"none"},
        item : Banks \cup Documents \cup Addresses \cup Passwords \cup {None}]]
  /\ requests \in 0 .. MaxRequests
  /\ crashes \in 0 .. MaxCrashes

-----------------------------------------------------------------------------
(* Requests.  The middleware reads the user a token is for and his role from the table. *)

At(s, label, j) ==
  /\ pc' = [pc EXCEPT ![s] = label]
  /\ job' = [job EXCEPT ![s] = j]

Arrive(s, label, j) ==
  /\ pc[s] = "idle"
  /\ requests < MaxRequests
  /\ requests' = requests + 1
  /\ At(s, label, j)

Request(s, label, j) == Arrive(s, label, j) /\ UNCHANGED crashes

\* A statement or a command fails.
Failure == crashes < MaxCrashes /\ crashes' = crashes + 1

Continue(s, label) == At(s, label, job[s]) /\ UNCHANGED <<requests, crashes>>
Finish(s) == At(s, "idle", IdleJob) /\ UNCHANGED <<requests, crashes>>

JobOf(u) == [IdleJob EXCEPT !.user = u, !.row = users[u], !.profile = profiles[u]]

\* AuthRequired
SignedIn(u) == <<u, "access">> \in tokens /\ users[u] # NoUser

\* AuthRequired and RequireRole(ADMIN), for a route of the administrators.
AdminIsIn == \E u \in Users : SignedIn(u) /\ users[u].role = "ADMIN"

Issue(u) == tokens' = tokens \cup {<<u, "access">>, <<u, "refresh">>}

-----------------------------------------------------------------------------
(* Register *)

NobodyIsIn == \A u \in Users : users[u] = NoUser

\* The first user is the administrator.
SignupRole == IF NobodyIsIn THEN "ADMIN" ELSE "CUSTOMER"

RegisterRead(s, u, password) ==
  /\ users[u] = NoUser
  /\ Request(s, "register", [IdleJob EXCEPT !.user = u,
               !.row = [role |-> SignupRole, password |-> password]])
  /\ UNCHANGED <<users, addresses, powers, authVars, profileVars>>

\* The others that counted no user before this one was in.
Latecomers(u) ==
  {x \in Users \ {u} :
     \E s \in Sessions : pc[s] = "register" /\ job[s].user = x /\ job[s].row.role = "ADMIN"}

\* The unique index on the email refuses the second of two.
RegisterInsert(s) ==
  LET u == job[s].user
  IN /\ pc[s] = "register"
     /\ \/ /\ users[u] = NoUser
           /\ users' = [users EXCEPT ![u] = job[s].row]
           /\ Issue(u)
           /\ granted' = [granted EXCEPT ![u] = IF NobodyIsIn THEN @ \cup {"ADMIN"} ELSE @]
           /\ overtaken' = IF NobodyIsIn THEN overtaken \cup Latecomers(u) ELSE overtaken
        \/ users[u] # NoUser /\ UNCHANGED <<users, tokens, powers>>
     /\ Finish(s)
     /\ UNCHANGED <<addresses, locks, resets, attempts, profileVars>>

-----------------------------------------------------------------------------
(* Login and its lockout *)

lockFrame == <<users, addresses, powers, resets, profileVars>>

Attempt(u, password, counted) ==
  [IdleJob EXCEPT !.user = u, !.item = password, !.counted = counted]

\* INCR, of every attempt and whatever comes of it.
LoginIncr(s, u, password) ==
  /\ locks' = [locks EXCEPT ![u].count = @ + 1]
  /\ Request(s, IF locks[u].count = 0 THEN "expire" ELSE "get", Attempt(u, password, "yes"))
  /\ UNCHANGED <<lockFrame, tokens, attempts>>

\* The error of a command of Redis is dropped and the login goes on.  After an INCR without
\* an answer, which Redis may have done all the same, nothing sets the counter's expiry.
LoginIncrFails(s, u, password) ==
  /\ Failure
  /\ \/ /\ Arrive(s, "get", Attempt(u, password, "blind"))
        /\ UNCHANGED <<locks, attempts>>
     \/ /\ Arrive(s, "get", Attempt(u, password, "yes"))
        /\ locks' = [locks EXCEPT ![u].count = @ + 1]
        /\ orphaned' = IF locks[u].count = 0 THEN orphaned \cup {u} ELSE orphaned
        /\ UNCHANGED <<tries, blind>>
  /\ UNCHANGED <<lockFrame, tokens>>

\* Mutant: no EXPIRE.
KeepForever(s) ==
  /\ pc[s] = "expire"
  /\ Continue(s, "get")
  /\ UNCHANGED <<lockFrame, authVars>>

\* EXPIRE, of a key that may be gone by now.
LoginExpire(s) ==
  LET u == job[s].user
  IN /\ pc[s] = "expire"
     /\ locks' = [locks EXCEPT ![u].expires = locks[u].count > 0]
     /\ Continue(s, "get")
     /\ UNCHANGED <<lockFrame, tokens, attempts>>

LoginExpireFails(s) ==
  /\ pc[s] = "expire"
  /\ Failure
  /\ At(s, "get", job[s])
  /\ orphaned' = orphaned \cup {job[s].user}
  /\ UNCHANGED <<lockFrame, tokens, locks, tries, blind, requests>>

\* Mutant: the limit is off by one.
OneMore(u) == locks[u].count > LockoutAttempts + 1

LockedOut(u) == locks[u].count > LockoutAttempts

LoginGet(s) ==
  /\ pc[s] = "get"
  /\ IF LockedOut(job[s].user) THEN Finish(s) ELSE Continue(s, "compare")
  /\ UNCHANGED <<lockFrame, authVars>>

\* The count reads 0, which locks nobody out.
LoginGetFails(s) ==
  /\ pc[s] = "get"
  /\ Failure
  /\ At(s, "compare", [job[s] EXCEPT !.counted = IF @ = "yes" THEN "blind" ELSE @])
  /\ UNCHANGED <<lockFrame, authVars, requests>>

LoginCompare(s) ==
  LET u == job[s].user
  IN /\ pc[s] = "compare"
     /\ tries' = [tries EXCEPT ![u] = IF job[s].counted = "no" THEN @ ELSE @ + 1]
     /\ blind' = [blind EXCEPT ![u] = IF job[s].counted = "blind" THEN @ + 1 ELSE @]
     /\ IF users[u] # NoUser /\ users[u].password = job[s].item
        THEN Continue(s, "unlock") ELSE Finish(s)
     /\ UNCHANGED <<lockFrame, tokens, locks, orphaned>>

\* The counter is gone, and with it the attempts of those that are still under way.
Uncounted(u) ==
  [x \in Sessions |-> IF job[x].user = u THEN [job[x] EXCEPT !.counted = "no"] ELSE job[x]]

ResetCounter(u) ==
  /\ locks' = [locks EXCEPT ![u] = NoLock]
  /\ tries' = [tries EXCEPT ![u] = 0]
  /\ blind' = [blind EXCEPT ![u] = 0]
  /\ orphaned' = orphaned \ {u}

LoginUnlock(s) ==
  LET u == job[s].user
  IN /\ pc[s] = "unlock"
     /\ ResetCounter(u)
     /\ Issue(u)
     /\ pc' = [pc EXCEPT ![s] = "idle"]
     /\ job' = [Uncounted(u) EXCEPT ![s] = IdleJob]
     /\ UNCHANGED <<lockFrame, requests, crashes>>

LoginUnlockFails(s) ==
  /\ pc[s] = "unlock"
  /\ Failure
  /\ Issue(job[s].user)
  /\ At(s, "idle", IdleJob)
  /\ UNCHANGED <<lockFrame, locks, attempts, requests>>

LockExpires(u) ==
  /\ locks[u].expires
  /\ ResetCounter(u)
  /\ job' = Uncounted(u)
  /\ UNCHANGED <<lockFrame, tokens, pc, requests, crashes>>

\* Refresh needs a refresh token.  Logout deletes a key nobody reads, so it ends nothing.
Refresh(s, u) ==
  /\ <<u, "refresh">> \in tokens
  /\ Request(s, "idle", IdleJob)
  /\ Issue(u)
  /\ UNCHANGED <<lockFrame, locks, attempts>>

TokenExpires(t) ==
  /\ t \in tokens
  /\ tokens' = tokens \ {t}
  /\ UNCHANGED <<lockFrame, locks, attempts, pc, job, requests, crashes>>

-----------------------------------------------------------------------------
(* Password reset and the other saves of a user row *)

ForgotPassword(s, u, t) ==
  /\ users[u] # NoUser
  /\ resets[t] = None
  /\ Request(s, "idle", IdleJob)
  /\ resets' = [resets EXCEPT ![t] = u]
  /\ UNCHANGED <<users, addresses, powers, tokens, locks, attempts, profileVars>>

ResetRead(s, t, password) ==
  /\ resets[t] # None
  /\ users[resets[t]] # NoUser
  /\ Request(s, "save user", [JobOf(resets[t]) EXCEPT !.token = t, !.row.password = password])
  /\ UNCHANGED <<users, addresses, powers, authVars, profileVars>>

DropToken(s) ==
  /\ pc[s] = "drop token"
  /\ resets' = [resets EXCEPT ![job[s].token] = None]
  /\ Finish(s)
  /\ UNCHANGED <<users, addresses, powers, tokens, locks, attempts, profileVars>>

ResetExpires(t) ==
  /\ resets[t] # None
  /\ resets' = [resets EXCEPT ![t] = None]
  /\ UNCHANGED <<users, addresses, powers, tokens, locks, attempts, profileVars,
                 pc, job, requests, crashes>>

\* UpdateProfile saves the row the middleware read; names and phone are left out.
UpdateProfile(s, u) ==
  /\ SignedIn(u)
  /\ Request(s, "save user", JobOf(u))
  /\ UNCHANGED <<users, addresses, powers, authVars, profileVars>>

UpdateRole(s, u, role) ==
  /\ AdminIsIn
  /\ users[u] # NoUser
  /\ Request(s, "save user", [JobOf(u) EXCEPT !.row.role = role, !.given = role])
  /\ UNCHANGED <<users, addresses, powers, authVars, profileVars>>

HoldsRow(u) == {s \in Sessions : pc[s] \in {"save user", "verdict"} /\ job[s].user = u}
HoldsProfile(u) ==
  {s \in Sessions : pc[s] \in {"subaccount", "save profile", "verdict"} /\ job[s].user = u}

\* A session changes a user's role or his profile's status while others hold the old one.
Overtakes(s, u, role, status) ==
  \/ role # users[u].role /\ HoldsRow(u) \ {s} # {}
  \/ status # profiles[u].status /\ HoldsProfile(u) \ {s} # {}

\* A role form gives its role when it is saved; the other forms give nothing.
SaveUser(s) ==
  LET u == job[s].user
      given == job[s].given
  IN /\ pc[s] = "save user"
     /\ users' = [users EXCEPT ![u] = job[s].row]
     /\ granted' = [granted EXCEPT ![u] =
                      IF given = "none" THEN @ ELSE {given} \cup (@ \cap {"verified"})]
     /\ overtaken' = IF Overtakes(s, u, job[s].row.role, profiles[u].status)
                     THEN overtaken \cup {u} ELSE overtaken
     /\ IF job[s].token # None THEN Continue(s, "drop token") ELSE Finish(s)
     /\ UNCHANGED <<addresses, authVars, profileVars>>

-----------------------------------------------------------------------------
(* Addresses *)

AddAddress(s, a) ==
  /\ \E u \in Users : SignedIn(u)
  /\ addresses[a] = "none"
  /\ Request(s, "idle", IdleJob)
  /\ addresses' = [addresses EXCEPT ![a] = "live"]
  /\ UNCHANGED <<users, powers, authVars, profileVars>>

UpdateAddress(s, a) ==
  /\ \E u \in Users : SignedIn(u)
  /\ addresses[a] = "live"
  /\ Request(s, "save address", [IdleJob EXCEPT !.item = a])
  /\ UNCHANGED <<users, addresses, powers, authVars, profileVars>>

\* A row that was deleted meanwhile is not updated, so Save inserts it again.
SaveAddress(s) ==
  /\ pc[s] = "save address"
  /\ addresses' = [addresses EXCEPT ![job[s].item] = "live"]
  /\ Finish(s)
  /\ UNCHANGED <<users, powers, authVars, profileVars>>

DeleteAddress(s, a) ==
  /\ \E u \in Users : SignedIn(u)
  /\ addresses[a] = "live"
  /\ Request(s, "idle", IdleJob)
  /\ addresses' = [addresses EXCEPT ![a] = "deleted"]
  /\ UNCHANGED <<users, powers, authVars, profileVars>>

-----------------------------------------------------------------------------
(* A mechanic's own profile *)

ApplyRead(s, u) ==
  /\ SignedIn(u)
  /\ profiles[u] = NoProfile
  /\ Request(s, "apply", JobOf(u))
  /\ UNCHANGED <<users, addresses, powers, authVars, profileVars>>

NewProfile == [NoProfile EXCEPT !.status = "pending"]

\* The unique index on user_id refuses the second of two.
ApplyInsert(s) ==
  LET u == job[s].user
  IN /\ pc[s] = "apply"
     /\ profiles' = [profiles EXCEPT ![u] = IF @ = NoProfile THEN NewProfile ELSE @]
     /\ Finish(s)
     /\ UNCHANGED <<users, addresses, powers, authVars, documents, seeded, accounts>>

UpdateOwnProfile(s, u) ==
  /\ SignedIn(u)
  /\ profiles[u].status \in {"pending", "verified"}
  /\ Request(s, "save profile", JobOf(u))
  /\ UNCHANGED <<users, addresses, powers, authVars, profileVars>>

SaveProfile(s) ==
  /\ pc[s] = "save profile"
  /\ profiles' = [profiles EXCEPT ![job[s].user] = job[s].profile]
  /\ Finish(s)
  /\ UNCHANGED <<users, addresses, powers, authVars, documents, seeded, accounts>>

AddDocument(s, u, d) ==
  /\ SignedIn(u)
  /\ profiles[u].status \in {"pending", "verified"}
  /\ documents[d] = None
  /\ Request(s, "add document", [JobOf(u) EXCEPT !.item = d])
  /\ UNCHANGED <<users, addresses, powers, authVars, profileVars>>

RemoveDocument(s, u, d) ==
  /\ SignedIn(u)
  /\ profiles[u].status # "suspended"
  /\ documents[d] = u
  /\ Request(s, "remove document", [JobOf(u) EXCEPT !.item = d])
  /\ UNCHANGED <<users, addresses, powers, authVars, profileVars>>

SaveDocument(s) ==
  /\ pc[s] \in {"add document", "remove document"}
  /\ documents' = [documents EXCEPT ![job[s].item] =
                     IF pc[s] = "add document" THEN job[s].user ELSE None]
  /\ Finish(s)
  /\ UNCHANGED <<users, addresses, powers, authVars, profiles, seeded, accounts>>

\* Setup of the payouts: the profile is read, Paystack is called, the profile is saved.
SetupPayout(s, u, bank) ==
  /\ SignedIn(u)
  /\ profiles[u].status = "verified"
  /\ Request(s, "subaccount", [JobOf(u) EXCEPT !.item = bank])
  /\ UNCHANGED <<users, addresses, powers, authVars, profileVars>>

\* CreateSubaccount, or UpdateSubaccount of the one the profile that was read names.
CallPaystack(s, code) ==
  LET known == job[s].profile.subaccount
  IN /\ pc[s] = "subaccount"
     /\ IF known = None THEN accounts[code] = NoAccount ELSE code = known
     /\ accounts' = [accounts EXCEPT ![code] = [user |-> job[s].user, bank |-> job[s].item]]
     /\ At(s, "save profile", [job[s] EXCEPT !.profile.subaccount = code,
                                             !.profile.bank = job[s].item])
     /\ UNCHANGED <<users, addresses, powers, authVars, profiles, documents, seeded,
                    requests, crashes>>

-----------------------------------------------------------------------------
(* Verify, Suspend and Reject *)

\* Mutant: a rejected mechanic stays one.
RejectKeepsRole(status, role) == IF status = "verified" THEN "MECHANIC" ELSE role

VerdictRole(status, role) ==
  CASE status = "verified" -> "MECHANIC"
    [] status = "rejected" /\ role = "MECHANIC" -> "CUSTOMER"
    [] OTHER -> role

\* setAdminStatus reads both rows in its transaction, without locking them.
Judge(s, u, status) ==
  /\ AdminIsIn
  /\ profiles[u] # NoProfile
  /\ users[u] # NoUser
  /\ Request(s, "verdict", [JobOf(u) EXCEPT !.profile.status = status,
                                           !.row.role = VerdictRole(status, @)])
  /\ UNCHANGED <<users, addresses, powers, authVars, profileVars>>

\* What a verdict leaves in force.
Judged(status, powersOfUser) ==
  CASE status = "verified" -> {"MECHANIC", "verified"}
    [] status = "rejected" -> powersOfUser \ {"MECHANIC", "verified"}
    [] status = "suspended" -> powersOfUser \ {"verified"}

\* Its commit: both rows are saved as they were read, but for the verdict.
SaveVerdict(s) ==
  LET u == job[s].user
      status == job[s].profile.status
  IN /\ pc[s] = "verdict"
     /\ profiles' = [profiles EXCEPT ![u] = job[s].profile]
     /\ users' = [users EXCEPT ![u] = job[s].row]
     /\ granted' = [granted EXCEPT ![u] = Judged(status, @)]
     /\ overtaken' = IF Overtakes(s, u, job[s].row.role, status)
                     THEN overtaken \cup {u} ELSE overtaken
     /\ IF status = "verified" THEN Continue(s, "seed") ELSE Finish(s)
     /\ UNCHANGED <<addresses, authVars, documents, seeded, accounts>>

SeedInstallServices(s) ==
  /\ pc[s] = "seed"
  /\ seeded' = seeded \cup {job[s].user}
  /\ Finish(s)
  /\ UNCHANGED <<users, addresses, powers, authVars, profiles, documents, accounts>>

-----------------------------------------------------------------------------
\* A session's process ends, its next statement fails, or Paystack refuses.
Fails(s) ==
  /\ pc[s] # "idle"
  /\ Failure
  /\ At(s, "idle", IdleJob)
  /\ orphaned' = IF pc[s] = "expire" THEN orphaned \cup {job[s].user} ELSE orphaned
  /\ UNCHANGED <<users, addresses, powers, tokens, locks, resets, tries, blind, profileVars,
                 requests>>

PostRegister(s) == \E u \in Users, password \in Passwords : RegisterRead(s, u, password)
PostLogin(s) ==
  \E u \in Users, password \in Passwords :
    LoginIncr(s, u, password) \/ LoginIncrFails(s, u, password)
PostRefresh(s) == \E u \in Users : Refresh(s, u)
PostForgot(s) == \E u \in Users, t \in ResetTokens : ForgotPassword(s, u, t)
PostReset(s) == \E t \in ResetTokens, password \in Passwords : ResetRead(s, t, password)
PutMe(s) == \E u \in Users : UpdateProfile(s, u)

\* Mutant: no check of IsValidRole.
AnyRole(s) == \E u \in Users, role \in Roles \cup {"OWNER"} : UpdateRole(s, u, role)

PutRole(s) == \E u \in Users, role \in Roles : UpdateRole(s, u, role)
PostAddress(s) == \E a \in Addresses : AddAddress(s, a)
PutAddress(s) == \E a \in Addresses : UpdateAddress(s, a)
RemoveAddress(s) == \E a \in Addresses : DeleteAddress(s, a)
PostApply(s) == \E u \in Users : ApplyRead(s, u)
PutProfile(s) == \E u \in Users : UpdateOwnProfile(s, u)
PostDocument(s) == \E u \in Users, d \in Documents : AddDocument(s, u, d)
RemoveMyDocument(s) == \E u \in Users, d \in Documents : RemoveDocument(s, u, d)
PostPayout(s) == \E u \in Users, bank \in Banks : SetupPayout(s, u, bank)
PutVerdict(s) ==
  \E u \in Users, status \in {"verified", "suspended", "rejected"} : Judge(s, u, status)

Client(s) ==
  \/ PostRegister(s) \/ PostLogin(s) \/ PostRefresh(s) \/ PostForgot(s) \/ PostReset(s)
  \/ PutMe(s) \/ PutRole(s)
  \/ PostAddress(s) \/ PutAddress(s) \/ RemoveAddress(s)
  \/ PostApply(s) \/ PutProfile(s) \/ PostDocument(s) \/ RemoveMyDocument(s)
  \/ PostPayout(s) \/ PutVerdict(s)

Serve(s) ==
  \/ RegisterInsert(s)
  \/ LoginExpire(s) \/ LoginGet(s) \/ LoginCompare(s) \/ LoginUnlock(s)
  \/ LoginExpireFails(s) \/ LoginGetFails(s) \/ LoginUnlockFails(s)
  \/ SaveUser(s) \/ DropToken(s) \/ SaveAddress(s)
  \/ ApplyInsert(s) \/ SaveProfile(s) \/ SaveDocument(s)
  \/ \E code \in Subaccounts : CallPaystack(s, code)
  \/ SaveVerdict(s) \/ SeedInstallServices(s)

Time ==
  \/ \E u \in Users : LockExpires(u)
  \/ \E t \in Tokens : TokenExpires(t)
  \/ \E t \in ResetTokens : ResetExpires(t)

NobodyYet ==
  /\ locks = [u \in Users |-> NoLock]
  /\ resets = [t \in ResetTokens |-> None]
  /\ addresses = [a \in Addresses |-> "none"]
  /\ documents = [d \in Documents |-> None]
  /\ seeded = {}
  /\ accounts = [code \in Subaccounts |-> NoAccount]
  /\ tries = [u \in Users |-> 0]
  /\ blind = [u \in Users |-> 0]
  /\ orphaned = {}
  /\ overtaken = {}
  /\ pc = [s \in Sessions |-> "idle"]
  /\ job = [s \in Sessions |-> IdleJob]
  /\ requests = 0
  /\ crashes = 0

Init ==
  /\ NobodyYet
  /\ users = [u \in Users |-> NoUser]
  /\ tokens = {}
  /\ profiles = [u \in Users |-> NoProfile]
  /\ granted = [u \in Users |-> {}]

Next == (\E s \in Sessions : Client(s) \/ Serve(s) \/ Fails(s)) \/ Time

Spec == Init /\ [][Next]_vars

-----------------------------------------------------------------------------
(* Properties *)

\* "Failed logins before lockout" (README.md): in one life of the counter no more passwords
\* than configured are compared, however many attempts are made at once and whenever the
\* counter is deleted or expires between the commands of others, but for those of attempts
\* whose own INCR or GET failed.
GuessesAreLimited == \A u \in Users : tries[u] <= LockoutAttempts + blind[u]

\* The same without the exception: the lockout holds while Redis fails.
\* The code drops the errors of both commands and compares the password.
LockoutHolds == \A u \in Users : tries[u] <= LockoutAttempts

\* A lockout ends: a counter without an expiry has a session that is about to set one,
\* unless that session's command was lost, with its process or by Redis.
LockoutEnds ==
  \A u \in Users :
    locks[u].count > 0 /\ ~locks[u].expires =>
      u \in orphaned \/ \E s \in Sessions : pc[s] = "expire" /\ job[s].user = u

\* The powers in force are those last given: whoever is an administrator, a vendor or a
\* mechanic was the first user or has the role from the last role form or verdict that was
\* saved for him, and a profile is verified if the last verdict says so.  A role given once
\* and taken back since does not count.  Not of a user whose role or profile one request
\* changed while another held what it had read of them, nor of one who counted no other
\* user while the first was being inserted.
PowersWereGranted ==
  \A u \in Users \ overtaken :
    /\ users[u].role \in {"ADMIN", "MECHANIC", "VENDOR"} => users[u].role \in granted[u]
    /\ profiles[u].status = "verified" => "verified" \in granted[u]

\* "assign ADMIN to first signup" (user_repository.go): whoever is inserted as an
\* administrator is inserted into an empty table.
\* The code counts before it hashes and inserts, so two first signups are administrators.
FirstSignupIsAdmin ==
  [][\A u \in Users : users[u] = NoUser /\ users'[u].role = "ADMIN" => NobodyIsIn]_vars

\* "suspended --> verified: Admin verify" (docs/mechanics.md): only an administrator's
\* verdict makes a profile verified that is not.
\* A form that read the profile before it was suspended saves it verified.
OnlyVerdictsVerify ==
  [][\A u \in Users :
       profiles[u].status # "verified" /\ profiles'[u].status = "verified" =>
         \E s \in Sessions : pc[s] = "verdict"]_vars
=============================================================================
