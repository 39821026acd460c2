--------------------------- MODULE AccountsProofs ---------------------------
(***************************************************************************)
(* What holds of Accounts for any number of users, sessions, passwords,    *)
(* requests and failures, and any limit of the lockout: proofs for TLAPS.  *)
(* Two arguments meet: who holds which row justifies the powers it names,  *)
(* and the attempts under way are counted against the lockout's counter.   *)
(***************************************************************************)
EXTENDS Accounts, FiniteSetTheorems, TLAPS

-----------------------------------------------------------------------------
(* The inductive invariant. *)

USE DEF attempts, powers

Labels ==
  {"idle", "register", "expire", "get", "compare", "unlock", "save user", "drop token",
   "save address", "apply", "save profile", "verdict", "seed", "subaccount",
   "add document", "remove document"}

Items == Banks \cup Documents \cup Addresses \cup Passwords \cup {None}

Job ==
  [user : Users \cup {None}, row : User, profile : Profile,
   token : ResetTokens \cup {None}, counted : Counting, given : Roles \cup {"none"},
   item : Items]

\* The tables but the lockout's.  A row that is there has a role.
TablesOK ==
  /\ users \in [Users -> User]
  /\ \A u \in Users : users[u] = NoUser \/ users[u].role \in Roles
  /\ tokens \subseteq Tokens
  /\ resets \in [ResetTokens -> Users \cup {None}]
  /\ addresses \in [Addresses -> {"none", "live", "deleted"}]
  /\ profiles \in [Users -> Profile]
  /\ documents \in [Documents -> Users \cup {None}]
  /\ seeded \subseteq Users
  /\ accounts \in [Subaccounts -> Account]
  /\ granted \in [Users -> SUBSET (Roles \cup {"verified"})]
  /\ overtaken \subseteq Users

BoundsOK == requests \in 0 .. MaxRequests /\ crashes \in 0 .. MaxCrashes

Verdicts == {"verified", "suspended", "rejected"}

\* Where a session is about to write something of a user's.
OfUser ==
  {"register", "expire", "get", "compare", "unlock", "save user", "apply", "save profile",
   "verdict", "seed", "subaccount", "add document"}

\* What a session holds is of the right kind.
Ready(label, j) ==
  /\ label \in OfUser => j.user \in Users
  /\ label = "subaccount" => j.item \in Banks
  /\ label = "register" => j.row.role \in {"ADMIN", "CUSTOMER"}
  /\ label \in {"save user", "verdict"} => j.row.role \in Roles
  /\ label \in {"subaccount", "save profile"} => j.profile.status \in ProfileStatus
  /\ label = "verdict" => j.profile.status \in Verdicts

\* What a session has read of a user who was not overtaken is what the tables say, but for
\* what its request changes; and who registers as an administrator still finds nobody.
Agrees(label, j) ==
  /\ label \in {"save user", "verdict"} => users[j.user] # NoUser
  /\ label = "register" /\ j.row.role = "ADMIN" =>
       NobodyIsIn \/ users[j.user] # NoUser \/ j.user \in overtaken
  /\ j.user \notin overtaken =>
       /\ label = "save user" =>
            j.row.role = IF j.given = "none" THEN users[j.user].role ELSE j.given
       /\ label = "verdict" => j.row.role = VerdictRole(j.profile.status, users[j.user].role)
       /\ label \in {"subaccount", "save profile"} =>
            j.profile.status = profiles[j.user].status

SessionsReady == \A s \in Sessions : Ready(pc[s], job[s]) /\ Agrees(pc[s], job[s])

\* The attempts the counter counted whose password is not compared yet, and those of
\* them that have got past the lockout.
TryLabels == {"expire", "get", "compare"}
Pending(u) ==
  {s \in Sessions : job[s].user = u /\ job[s].counted = "yes" /\ pc[s] \in TryLabels}
Comparing(u) ==
  {s \in Sessions : job[s].user = u /\ job[s].counted = "yes" /\ pc[s] = "compare"}

\* The counter counts what was compared with sight of it and what may yet be, and of the
\* latter only as many pass the lockout as it has left.
GuessesCounted ==
  \A u \in Users :
    /\ IsFiniteSet(Pending(u))
    /\ tries[u] + Cardinality(Pending(u)) <= locks[u].count + blind[u]
    /\ tries[u] + Cardinality(Comparing(u)) <= LockoutAttempts + blind[u]

LocksOK ==
  /\ locks \in [Users -> [count : Nat, expires : BOOLEAN]]
  /\ \A u \in Users : locks[u].count <= requests
  /\ tries \in [Users -> Nat] /\ blind \in [Users -> Nat]
  /\ orphaned \subseteq Users

Inv ==
  /\ TablesOK
  /\ BoundsOK
  /\ pc \in [Sessions -> Labels]
  /\ job \in [Sessions -> Job]
  /\ SessionsReady
  /\ PowersWereGranted
  /\ LocksOK
  /\ LockoutEnds
  /\ GuessesCounted

-----------------------------------------------------------------------------
(* Rows and jobs. *)

LEMMA RowTypes ==
  /\ NoUser \in User /\ NoProfile \in Profile /\ NoAccount \in Account
  /\ NoUser.role = "none" /\ "none" \notin Roles
  /\ NoProfile.status = "none" /\ "none" \notin ProfileStatus
  /\ IdleJob \in Job /\ IdleJob.user = None /\ None \notin Users
<1>1. NoUser \in User /\ NoProfile \in Profile /\ NoAccount \in Account
  BY DEF NoUser, User, NoProfile, Profile, NoAccount, Account
<1>2. /\ NoUser.role = "none" /\ "none" \notin Roles
      /\ NoProfile.status = "none" /\ "none" \notin ProfileStatus
  BY DEF NoUser, NoProfile, Roles, ProfileStatus
<1>3. IdleJob \in Job /\ IdleJob.user = None
  BY <1>1 DEF IdleJob, Job, Items, Counting
<1>4. None \notin Users
  BY AccountsConstants
<1> QED BY <1>1, <1>2, <1>3, <1>4

LEMMA JobTypes ==
  ASSUME Inv, NEW s \in Sessions
  PROVE  /\ job[s] \in Job /\ pc[s] \in Labels
         /\ job[s].user \in Users \cup {None}
         /\ job[s].row \in User /\ job[s].profile \in Profile
         /\ job[s].token \in ResetTokens \cup {None}
         /\ job[s].counted \in Counting /\ job[s].item \in Items
         /\ job[s].given \in Roles \cup {"none"}
         /\ Ready(pc[s], job[s]) /\ Agrees(pc[s], job[s])
<1>1. job[s] \in Job /\ pc[s] \in Labels /\ Ready(pc[s], job[s]) /\ Agrees(pc[s], job[s])
  BY DEF Inv, SessionsReady
<1> QED BY <1>1 DEF Job

\* The row and the profile of a user who acts.
LEMMA UserTypes ==
  ASSUME Inv, NEW u \in Users
  PROVE  /\ users[u] \in User /\ profiles[u] \in Profile
         /\ users[u] = NoUser \/ users[u].role \in Roles
         /\ JobOf(u) \in Job /\ JobOf(u).user = u /\ JobOf(u).row = users[u]
         /\ JobOf(u).profile = profiles[u] /\ JobOf(u).token = None /\ JobOf(u).item = None
         /\ JobOf(u).given = "none"
<1>1. /\ users[u] \in User /\ profiles[u] \in Profile
      /\ users[u] = NoUser \/ users[u].role \in Roles
  BY DEF Inv, TablesOK
<1>2. JobOf(u) \in Job
  BY <1>1, RowTypes DEF JobOf, Job
<1>3. /\ JobOf(u).user = u /\ JobOf(u).row = users[u]
      /\ JobOf(u).profile = profiles[u] /\ JobOf(u).token = None /\ JobOf(u).item = None
      /\ JobOf(u).given = "none"
  BY DEF JobOf, IdleJob
<1> QED BY <1>1, <1>2, <1>3

\* A row with another password, or another role.
LEMMA RowChanges ==
  ASSUME NEW r \in User
  PROVE  /\ \A password \in Passwords :
              /\ [r EXCEPT !.password = password] \in User
              /\ [r EXCEPT !.password = password].role = r.role
         /\ \A role \in Roles \cup {"none"} :
              /\ [r EXCEPT !.role = role] \in User
              /\ [r EXCEPT !.role = role].role = role
<1>1. \A password \in Passwords : [r EXCEPT !.password = password] \in User
  BY DEF User
<1>2. \A password \in Passwords : [r EXCEPT !.password = password].role = r.role
  BY DEF User
<1>3. \A role \in Roles \cup {"none"} : [r EXCEPT !.role = role] \in User
  BY DEF User
<1>4. \A role \in Roles \cup {"none"} : [r EXCEPT !.role = role].role = role
  BY DEF User
<1> QED BY <1>1, <1>2, <1>3, <1>4

\* What the other sessions hold agrees with the tables after the step.
OthersAgree(s) ==
  \A x \in Sessions \ {s}, label \in Labels, j \in Job :
    pc[x] = label /\ job[x] = j => Agrees(label, j)'

\* One session moves on.
LEMMA SessionStep ==
  ASSUME Inv, NEW s \in Sessions, OthersAgree(s), NEW label \in Labels, NEW j \in Job,
         At(s, label, j), Ready(label, j), Agrees(label, j)'
  PROVE  /\ pc' \in [Sessions -> Labels] /\ job' \in [Sessions -> Job]
         /\ SessionsReady'
         /\ pc'[s] = label /\ job'[s] = j
         /\ \A x \in Sessions \ {s} : pc'[x] = pc[x] /\ job'[x] = job[x]
<1>1. pc \in [Sessions -> Labels] /\ job \in [Sessions -> Job]
  BY DEF Inv
<1>2. pc' = [pc EXCEPT ![s] = label] /\ job' = [job EXCEPT ![s] = j]
  BY DEF At
<1>3. /\ pc'[s] = label /\ job'[s] = j
      /\ \A x \in Sessions \ {s} : pc'[x] = pc[x] /\ job'[x] = job[x]
  BY <1>1, <1>2
<1>4. ASSUME NEW x \in Sessions PROVE (Ready(pc[x], job[x]) /\ Agrees(pc[x], job[x]))'
  <2>1. CASE x = s
    BY <1>3, <2>1 DEF Ready
  <2>2. CASE x # s
    <3>1. PICK l \in Labels, k \in Job : l = pc[x] /\ k = job[x]
      BY <1>1
    <3>2. Ready(l, k) /\ Agrees(l, k)'
      BY <2>2, <3>1 DEF Inv, SessionsReady, OthersAgree
    <3>3. pc'[x] = l /\ job'[x] = k
      BY <1>3, <2>2, <3>1
    <3> QED BY <3>2, <3>3 DEF Ready
  <2> QED BY <2>1, <2>2
<1>5. SessionsReady'
  BY <1>4 DEF SessionsReady
<1> QED BY <1>1, <1>2, <1>3, <1>5

\* A session's step that has nothing to do with the lockout.
LEMMA OtherKeeps ==
  ASSUME Inv, TablesOK', BoundsOK', PowersWereGranted',
         requests <= requests',
         UNCHANGED <<locks, attempts>>,
         NEW s \in Sessions, OthersAgree(s), NEW label \in Labels \ TryLabels, NEW j \in Job,
         pc[s] \notin TryLabels,
         At(s, label, j), Ready(label, j), Agrees(label, j)'
  PROVE  Inv'
<1>1. /\ pc' \in [Sessions -> Labels] /\ job' \in [Sessions -> Job]
      /\ SessionsReady'
      /\ pc'[s] = label
      /\ \A x \in Sessions \ {s} : pc'[x] = pc[x] /\ job'[x] = job[x]
  BY SessionStep
<1>2. LocksOK'
  <2>1. requests \in Nat /\ requests' \in Nat
    BY DEF Inv, BoundsOK
  <2>2. \A u \in Users : locks[u].count \in Nat /\ locks[u].count <= requests
    BY DEF Inv, LocksOK
  <2> QED BY <2>1, <2>2 DEF Inv, LocksOK
<1>3. LockoutEnds'
  BY <1>1 DEF Inv, LockoutEnds, TryLabels
<1>4. \A u \in Users : Pending(u)' = Pending(u) /\ Comparing(u)' = Comparing(u)
  BY <1>1 DEF Pending, Comparing, TryLabels
<1>5. GuessesCounted'
  BY <1>4 DEF Inv, GuessesCounted
<1> QED BY <1>1, <1>2, <1>3, <1>5 DEF Inv

\* A later step of such a request.
LEMMA ServeKeeps ==
  ASSUME Inv, TablesOK', PowersWereGranted',
         UNCHANGED <<locks, attempts, requests, crashes>>,
         NEW s \in Sessions, OthersAgree(s), NEW label \in Labels \ TryLabels, NEW j \in Job,
         pc[s] \notin TryLabels, At(s, label, j), Ready(label, j), Agrees(label, j)'
  PROVE  Inv'
<1>1. BoundsOK' /\ requests <= requests'
  BY AccountsConstants DEF Inv, BoundsOK
<1> QED BY <1>1, OtherKeeps

\* A step that writes no user and no profile.
LEMMA PowersRest ==
  ASSUME Inv, UNCHANGED <<users, profiles, powers>>
  PROVE  /\ PowersWereGranted'
         /\ \A s \in Sessions : OthersAgree(s)
         /\ \A label \in Labels, j \in Job : Agrees(label, j) => Agrees(label, j)'
<1>1. PowersWereGranted'
  BY DEF Inv, PowersWereGranted
<1>2. ASSUME NEW label \in Labels, NEW j \in Job, Agrees(label, j) PROVE Agrees(label, j)'
  BY <1>2 DEF Agrees, NobodyIsIn
<1>3. \A s \in Sessions : OthersAgree(s)
  BY <1>2 DEF OthersAgree, Inv, SessionsReady
<1> QED BY <1>1, <1>2, <1>3

\* A request that has nothing to do with the lockout and writes neither.
LEMMA RequestKeeps ==
  ASSUME Inv, TablesOK', UNCHANGED <<users, profiles, powers, locks, attempts>>,
         NEW s \in Sessions, NEW label \in Labels \ TryLabels, NEW j \in Job,
         Request(s, label, j), Ready(label, j), Agrees(label, j)
  PROVE  Inv'
<1>1. BoundsOK' /\ requests <= requests'
  BY AccountsConstants DEF Request, Arrive, Inv, BoundsOK
<1>2. pc[s] \notin TryLabels /\ At(s, label, j)
  BY DEF Request, Arrive, TryLabels
<1>3. PowersWereGranted' /\ OthersAgree(s) /\ Agrees(label, j)'
  BY PowersRest
<1> QED BY <1>1, <1>2, <1>3, OtherKeeps

\* A request that writes nothing yet and holds what the tables say.
LEMMA ReadKeeps ==
  ASSUME Inv, UNCHANGED <<users, addresses, powers, authVars, profileVars>>,
         NEW s \in Sessions, NEW label \in Labels \ TryLabels, NEW j \in Job,
         Request(s, label, j), Ready(label, j), Agrees(label, j)
  PROVE  Inv'
<1>1. UNCHANGED <<users, profiles, powers, locks, attempts>>
  BY DEF profileVars, authVars
<1>2. TablesOK'
  BY DEF Inv, TablesOK, profileVars, authVars
<1> QED BY <1>1, <1>2, RequestKeeps

LEMMA FinishReady ==
  /\ Ready("idle", IdleJob) /\ Agrees("idle", IdleJob) /\ Agrees("idle", IdleJob)'
  /\ IdleJob \in Job /\ "idle" \in Labels \ TryLabels
BY RowTypes DEF Ready, Agrees, OfUser, Labels, TryLabels

-----------------------------------------------------------------------------
(* Registration. *)

LEMMA RegisterReadKeeps ==
  ASSUME Inv, NEW s \in Sessions, NEW u \in Users, NEW password \in Passwords,
         RegisterRead(s, u, password)
  PROVE  Inv'
<1> DEFINE new == [role |-> SignupRole, password |-> password]
<1>1. /\ UNCHANGED <<users, addresses, powers, authVars, profileVars>>
      /\ Request(s, "register", [IdleJob EXCEPT !.user = u, !.row = new])
  BY DEF RegisterRead
<1>2. /\ new \in User /\ new.role \in {"ADMIN", "CUSTOMER"}
      /\ new.role = "ADMIN" => NobodyIsIn
  BY DEF User, Roles, SignupRole
<1>j. PICK j \in Job : j = [IdleJob EXCEPT !.user = u, !.row = new]
  BY <1>2, RowTypes DEF Job
<1>3. j.user = u /\ j.row = new
  BY <1>j DEF IdleJob
<1> HIDE DEF new
<1>4. Ready("register", j) /\ Agrees("register", j) /\ "register" \in Labels \ TryLabels
  BY <1>2, <1>3 DEF Ready, Agrees, OfUser, Labels, TryLabels
<1> QED BY <1>1, <1>j, <1>4, ReadKeeps

\* A row that is there stays: nobody leaves the table.
LEMMA RowWritten ==
  ASSUME Inv, NEW u \in Users, NEW row \in User, row.role \in Roles,
         users' = [users EXCEPT ![u] = row]
  PROVE  /\ users' \in [Users -> User] /\ users'[u] = row /\ users'[u] # NoUser
         /\ \A v \in Users \ {u} : users'[v] = users[v]
         /\ \A v \in Users : users[v] # NoUser => users'[v] # NoUser
         /\ \A v \in Users : users'[v] = NoUser \/ users'[v].role \in Roles
<1>1. users \in [Users -> User] /\ row # NoUser
  BY RowTypes DEF Inv, TablesOK
<1>2. users'[u] = row /\ \A v \in Users \ {u} : users'[v] = users[v]
  BY <1>1
<1>3. users' \in [Users -> User]
  BY <1>1
<1>4. \A v \in Users : users[v] = NoUser \/ users[v].role \in Roles
  BY UserTypes
<1> QED BY <1>1, <1>2, <1>3, <1>4

LEMMA RegisterInsertKeeps ==
  ASSUME Inv, NEW s \in Sessions, RegisterInsert(s)
  PROVE  Inv'
<1>u. PICK u \in Users, row \in User :
        /\ u = job[s].user /\ row = job[s].row /\ row.role \in {"ADMIN", "CUSTOMER"}
        /\ row.role = "ADMIN" => NobodyIsIn \/ users[u] # NoUser \/ u \in overtaken
  BY JobTypes DEF RegisterInsert, Ready, Agrees, OfUser
<1>1. /\ UNCHANGED <<addresses, locks, resets, attempts, profileVars>>
      /\ UNCHANGED <<requests, crashes>>
      /\ At(s, "idle", IdleJob) /\ pc[s] \notin TryLabels
  BY DEF RegisterInsert, Finish, TryLabels
<1>2. CASE /\ users[u] = NoUser
           /\ users' = [users EXCEPT ![u] = row]
           /\ tokens' = tokens \cup {<<u, "access">>, <<u, "refresh">>}
           /\ granted' = [granted EXCEPT ![u] = IF NobodyIsIn THEN @ \cup {"ADMIN"} ELSE @]
           /\ overtaken' = IF NobodyIsIn THEN overtaken \cup Latecomers(u) ELSE overtaken
  <2>1. row.role \in Roles
    BY <1>u DEF Roles
  <2>2. /\ users' \in [Users -> User] /\ users'[u] = row /\ users'[u] # NoUser
        /\ \A v \in Users \ {u} : users'[v] = users[v]
        /\ \A v \in Users : users[v] # NoUser => users'[v] # NoUser
        /\ \A v \in Users : users'[v] = NoUser \/ users'[v].role \in Roles
    BY <1>2, <2>1, RowWritten
  <2>3. /\ granted' \in [Users -> SUBSET (Roles \cup {"verified"})]
        /\ NobodyIsIn => "ADMIN" \in granted'[u]
        /\ \A v \in Users : granted[v] \subseteq granted'[v]
    <3>1. granted \in [Users -> SUBSET (Roles \cup {"verified"})]
      BY DEF Inv, TablesOK
    <3>2. CASE NobodyIsIn
      BY <1>2, <3>1, <3>2 DEF Roles
    <3>3. CASE ~NobodyIsIn
      BY <1>2, <3>1, <3>3
    <3> QED BY <3>2, <3>3
  <2>4. overtaken \subseteq overtaken' /\ overtaken' \subseteq Users
    BY <1>2 DEF Inv, TablesOK, Latecomers
  <2>5. TablesOK'
    BY <1>1, <1>2, <2>2, <2>3, <2>4 DEF Inv, TablesOK, profileVars, Tokens
  <2>6. PowersWereGranted'
    <3> SUFFICES ASSUME NEW v \in Users \ overtaken'
                 PROVE  /\ users'[v].role \in {"ADMIN", "MECHANIC", "VENDOR"} =>
                             users'[v].role \in granted'[v]
                        /\ profiles'[v].status = "verified" => "verified" \in granted'[v]
      BY DEF PowersWereGranted
    <3>1. profiles'[v].status = "verified" => "verified" \in granted'[v]
      BY <1>1, <2>3, <2>4 DEF Inv, PowersWereGranted, profileVars
    <3>2. CASE v # u
      BY <2>2, <2>3, <2>4, <3>1, <3>2 DEF Inv, PowersWereGranted
    <3>3. CASE v = u
      BY <1>u, <1>2, <2>2, <2>3, <2>4, <3>1, <3>3
    <3> QED BY <3>2, <3>3
  <2>7. OthersAgree(s)
    <3> SUFFICES ASSUME NEW x \in Sessions \ {s}, NEW label \in Labels, NEW j \in Job,
                        pc[x] = label, job[x] = j
                 PROVE  Agrees(label, j)'
      BY DEF OthersAgree
    <3>1. Ready(label, j) /\ Agrees(label, j)
      BY JobTypes
    <3>2. label \in {"save user", "verdict"} => users[j.user] # NoUser /\ j.user \in Users
      BY <3>1 DEF Ready, Agrees, OfUser
    <3>3. label \in {"save user", "verdict"} => users'[j.user] # NoUser /\ j.user # u
      BY <1>2, <2>2, <3>2
    <3>4. label = "register" /\ j.row.role = "ADMIN" =>
            users'[j.user] # NoUser \/ j.user \in overtaken'
      <4> SUFFICES ASSUME label = "register", j.row.role = "ADMIN"
                   PROVE  users'[j.user] # NoUser \/ j.user \in overtaken'
        OBVIOUS
      <4>1. j.user \in Users /\ (NobodyIsIn \/ users[j.user] # NoUser \/ j.user \in overtaken)
        BY <3>1 DEF Ready, Agrees, OfUser
      <4>2. CASE NobodyIsIn /\ j.user # u
        <5>1. j.user \in Latecomers(u)
          BY <4>1, <4>2 DEF Latecomers
        <5> QED BY <1>2, <4>2, <5>1
      <4>3. CASE j.user = u
        BY <2>2, <4>3
      <4> QED BY <2>2, <2>4, <4>1, <4>2, <4>3
    <3>5. label \in {"subaccount", "save profile"} => profiles'[j.user] = profiles[j.user]
      BY <1>1 DEF profileVars
    <3>6. label \in {"save user", "verdict"} => users'[j.user] = users[j.user]
      BY <2>2, <3>2, <3>3
    <3> QED BY <2>4, <3>1, <3>3, <3>4, <3>5, <3>6 DEF Agrees
  <2> QED BY <1>1, <2>5, <2>6, <2>7, FinishReady, ServeKeeps
<1>3. CASE UNCHANGED <<users, tokens, powers>>
  <2>1. PowersWereGranted' /\ OthersAgree(s)
    BY <1>1, <1>3, PowersRest DEF profileVars
  <2>2. TablesOK'
    BY <1>1, <1>3 DEF Inv, TablesOK, profileVars
  <2> QED BY <1>1, <2>1, <2>2, FinishReady, ServeKeeps
<1> QED BY <1>u, <1>2, <1>3 DEF RegisterInsert, Issue

-----------------------------------------------------------------------------
(* Tokens, password resets and the saves of a user row. *)

LEMMA RefreshKeeps ==
  ASSUME Inv, NEW s \in Sessions, NEW u \in Users, Refresh(s, u)
  PROVE  Inv'
<1>1. /\ UNCHANGED <<lockFrame, locks, attempts>>
      /\ Request(s, "idle", IdleJob)
      /\ tokens' = tokens \cup {<<u, "access">>, <<u, "refresh">>}
  BY DEF Refresh, Issue
<1>2. TablesOK' /\ UNCHANGED <<users, profiles, powers>>
  BY <1>1 DEF Inv, TablesOK, Tokens, lockFrame, profileVars
<1> QED BY <1>1, <1>2, FinishReady, RequestKeeps

LEMMA ForgotPasswordKeeps ==
  ASSUME Inv, NEW s \in Sessions, NEW u \in Users, NEW t \in ResetTokens,
         ForgotPassword(s, u, t)
  PROVE  Inv'
<1>1. /\ UNCHANGED <<users, addresses, powers, tokens, locks, attempts, profileVars>>
      /\ Request(s, "idle", IdleJob)
      /\ resets' = [resets EXCEPT ![t] = u]
  BY DEF ForgotPassword
<1>2. TablesOK' /\ UNCHANGED <<users, profiles, powers>>
  BY <1>1 DEF Inv, TablesOK, profileVars
<1> QED BY <1>1, <1>2, FinishReady, RequestKeeps

LEMMA ResetReadKeeps ==
  ASSUME Inv, NEW s \in Sessions, NEW t \in ResetTokens, NEW password \in Passwords,
         ResetRead(s, t, password)
  PROVE  Inv'
<1>t. resets[t] \in Users \cup {None} /\ resets[t] # None
  BY DEF ResetRead, Inv, TablesOK
<1>u. PICK u \in Users : u = resets[t] /\ users[u] # NoUser
  BY <1>t DEF ResetRead
<1> DEFINE new == [users[u] EXCEPT !.password = password]
<1>1. new \in User /\ new.role = users[u].role /\ users[u].role \in Roles
  BY <1>u, UserTypes, RowChanges
<1>k. PICK k \in Job : k = JobOf(u)
  BY UserTypes
<1>n. k.row = users[u] /\ k.user = u /\ k.given = "none"
  BY <1>k, UserTypes
<1> HIDE DEF new
<1>e. [k EXCEPT !.token = t, !.row = new] \in Job
  BY <1>1 DEF Job
<1>j. PICK j \in Job : j = [k EXCEPT !.token = t, !.row = new]
  BY <1>e
<1>2. j.user = u /\ j.row = new /\ j.given = "none"
  BY <1>j, <1>n DEF Job
<1>o. j = [JobOf(u) EXCEPT !.token = t, !.row.password = password]
  BY <1>j, <1>k, <1>n DEF Job, new
<1>3. Ready("save user", j) /\ Agrees("save user", j) /\ "save user" \in Labels \ TryLabels
  BY <1>u, <1>1, <1>2 DEF Ready, Agrees, Labels, TryLabels
<1>4. /\ UNCHANGED <<users, addresses, powers, authVars, profileVars>>
      /\ Request(s, "save user", j)
  BY <1>u, <1>o DEF ResetRead
<1> QED BY <1>3, <1>4, ReadKeeps

LEMMA DropTokenKeeps ==
  ASSUME Inv, NEW s \in Sessions, DropToken(s)
  PROVE  Inv'
<1>1. /\ UNCHANGED <<users, addresses, powers, tokens, locks, attempts, profileVars>>
      /\ UNCHANGED <<requests, crashes>>
      /\ At(s, "idle", IdleJob) /\ pc[s] \notin TryLabels
      /\ resets' = [resets EXCEPT ![job[s].token] = None]
  BY DEF DropToken, Finish, TryLabels
<1>2. TablesOK'
  BY <1>1 DEF Inv, TablesOK, profileVars
<1>3. PowersWereGranted' /\ OthersAgree(s)
  BY <1>1, PowersRest DEF profileVars
<1> QED BY <1>1, <1>2, <1>3, FinishReady, ServeKeeps

\* Forms that hold a user's row and profile as they were read.
Forms ==
  {"save user", "apply", "save profile", "subaccount", "add document", "remove document"}

LEMMA HoldKeeps ==
  ASSUME Inv, UNCHANGED <<users, addresses, powers, authVars, profileVars>>,
         NEW s \in Sessions, NEW u \in Users, NEW item \in Items, NEW label \in Forms,
         users[u] # NoUser,
         label = "subaccount" => item \in Banks,
         label \in {"subaccount", "save profile"} => profiles[u].status \in ProfileStatus,
         Request(s, label, [JobOf(u) EXCEPT !.item = item])
  PROVE  Inv'
<1>k. PICK k \in Job : k = JobOf(u)
  BY UserTypes
<1>e. [k EXCEPT !.item = item] \in Job
  BY DEF Job
<1>j. PICK j \in Job : j = [k EXCEPT !.item = item]
  BY <1>e
<1>1. /\ j.user = u /\ j.row = users[u] /\ j.profile = profiles[u] /\ j.item = item
      /\ j.given = "none"
  BY <1>j, <1>k, UserTypes DEF Job
<1>2. Ready(label, j) /\ label \in Labels \ TryLabels
  BY <1>1, UserTypes DEF Ready, Labels, TryLabels, Forms
<1>3. Agrees(label, j)
  BY <1>1 DEF Agrees, Forms
<1> QED BY <1>j, <1>k, <1>2, <1>3, ReadKeeps

LEMMA PlainJob == \A u \in Users : Inv => JobOf(u) = [JobOf(u) EXCEPT !.item = None]
  BY UserTypes DEF Job

LEMMA UpdateProfileKeeps ==
  ASSUME Inv, NEW s \in Sessions, NEW u \in Users,
         UpdateProfile(s, u) \/ ApplyRead(s, u) \/ UpdateOwnProfile(s, u)
  PROVE  Inv'
<1>1. PICK label \in {"save user", "apply", "save profile"} :
        /\ Request(s, label, JobOf(u))
        /\ label = "save profile" => profiles[u].status \in ProfileStatus
  BY DEF UpdateProfile, ApplyRead, UpdateOwnProfile, ProfileStatus
<1>2. UNCHANGED <<users, addresses, powers, authVars, profileVars>> /\ users[u] # NoUser
  BY DEF UpdateProfile, ApplyRead, UpdateOwnProfile, SignedIn
<1>3. Request(s, label, [JobOf(u) EXCEPT !.item = None])
  BY <1>1, PlainJob
<1>4. None \in Items /\ label # "subaccount" /\ label \in Forms
  BY <1>1 DEF Items, Forms
<1> QED BY <1>1, <1>2, <1>3, <1>4, HoldKeeps

LEMMA UpdateRoleKeeps ==
  ASSUME Inv, NEW s \in Sessions, NEW u \in Users, NEW role \in Roles, UpdateRole(s, u, role)
  PROVE  Inv'
<1> DEFINE new == [users[u] EXCEPT !.role = role]
<1>1. new \in User /\ new.role = role
  <2>1. users[u] \in User
    BY UserTypes
  <2> QED BY <2>1, RowChanges
<1>k. PICK k \in Job : k = JobOf(u)
  BY UserTypes
<1>n. k.row = users[u] /\ k.user = u
  BY <1>k, UserTypes
<1> HIDE DEF new
<1>e. [k EXCEPT !.row = new, !.given = role] \in Job
  BY <1>1 DEF Job
<1>j. PICK j \in Job : j = [k EXCEPT !.row = new, !.given = role]
  BY <1>e
<1>2. j.user = u /\ j.row = new /\ j.given = role
  BY <1>j, <1>n DEF Job
<1>o. j = [JobOf(u) EXCEPT !.row.role = role, !.given = role]
  BY <1>j, <1>k, <1>n DEF Job, new
<1>3. /\ UNCHANGED <<users, addresses, powers, authVars, profileVars>>
      /\ Request(s, "save user", j) /\ users[u] # NoUser
  BY <1>o DEF UpdateRole
<1>4. "none" \notin Roles
  BY RowTypes
<1>5. Ready("save user", j) /\ Agrees("save user", j) /\ "save user" \in Labels \ TryLabels
  BY <1>1, <1>2, <1>3, <1>4 DEF Ready, Agrees, Labels, TryLabels
<1> QED BY <1>3, <1>5, ReadKeeps

\* A session saves the row of a user, or his profile, or both.  If he was not overtaken
\* then, nobody else holds what changed.
LEMMA RowsSaved ==
  ASSUME Inv, NEW s \in Sessions, NEW u \in Users,
         users[u] # NoUser, users'[u] # NoUser,
         \A v \in Users \ {u} : users'[v] = users[v] /\ profiles'[v] = profiles[v],
         overtaken \subseteq overtaken',
         u \notin overtaken' =>
           /\ users'[u].role # users[u].role => HoldsRow(u) \ {s} = {}
           /\ profiles'[u].status # profiles[u].status => HoldsProfile(u) \ {s} = {}
  PROVE  OthersAgree(s)
<1>1. \A v \in Users : users[v] # NoUser => users'[v] # NoUser
  OBVIOUS
<1>4. ~NobodyIsIn
  BY DEF NobodyIsIn
<1>5. ASSUME NEW x \in Sessions \ {s}, NEW label \in Labels, NEW j \in Job,
             pc[x] = label, job[x] = j
      PROVE  Agrees(label, j)'
  <2>1. Ready(label, j) /\ Agrees(label, j)
    BY <1>5, JobTypes
  <2>2. label \in {"save user", "verdict", "subaccount", "save profile", "register"} =>
          j.user \in Users
    BY <2>1 DEF Ready, OfUser
  <2>3. label \in {"save user", "verdict"} => users'[j.user] # NoUser
    BY <1>1, <2>1, <2>2 DEF Agrees
  <2>4. label = "register" /\ j.row.role = "ADMIN" =>
          users'[j.user] # NoUser \/ j.user \in overtaken'
    BY <1>1, <1>4, <2>1, <2>2 DEF Agrees
  <2>5. ASSUME j.user = u, u \notin overtaken', label \in {"save user", "verdict"}
        PROVE  users'[u].role = users[u].role
    <3>1. x \in HoldsRow(u) \ {s}
      BY <1>5, <2>5 DEF HoldsRow
    <3> QED BY <2>5, <3>1
  <2>6. ASSUME j.user = u, u \notin overtaken', label \in {"subaccount", "save profile"}
        PROVE  profiles'[u].status = profiles[u].status
    <3>1. x \in HoldsProfile(u) \ {s}
      BY <1>5, <2>6 DEF HoldsProfile
    <3> QED BY <2>6, <3>1
  <2>7. j.user \notin overtaken' /\ label \in {"save user", "verdict"} =>
          users'[j.user].role = users[j.user].role
    BY <2>2, <2>5
  <2>8. j.user \notin overtaken' /\ label \in {"subaccount", "save profile"} =>
          profiles'[j.user].status = profiles[j.user].status
    BY <2>2, <2>6
  <2> QED BY <2>1, <2>3, <2>4, <2>7, <2>8 DEF Agrees
<1> QED BY <1>5 DEF OthersAgree

LEMMA SaveUserKeeps ==
  ASSUME Inv, NEW s \in Sessions, SaveUser(s)
  PROVE  Inv'
<1>u. PICK u \in Users, row \in User, given \in Roles \cup {"none"} :
        /\ u = job[s].user /\ row = job[s].row /\ given = job[s].given
        /\ row.role \in Roles /\ users[u] # NoUser
        /\ u \notin overtaken =>
             row.role = IF given = "none" THEN users[u].role ELSE given
  BY JobTypes DEF SaveUser, Ready, Agrees, OfUser
<1>1. /\ UNCHANGED <<addresses, authVars, profileVars, requests, crashes>>
      /\ users' = [users EXCEPT ![u] = row]
      /\ overtaken' \in {overtaken, overtaken \cup {u}}
      /\ u \notin overtaken' =>
           /\ row.role # users[u].role => HoldsRow(u) \ {s} = {}
      /\ At(s, "drop token", job[s]) \/ At(s, "idle", IdleJob)
      /\ pc[s] \notin TryLabels
  BY <1>u DEF SaveUser, Overtakes, Continue, Finish, TryLabels
<1>g. granted' = [granted EXCEPT ![u] =
                    IF given = "none" THEN @ ELSE {given} \cup (@ \cap {"verified"})]
  BY <1>u DEF SaveUser
<1>2. profiles' = profiles
  BY <1>1 DEF profileVars
<1>w. /\ users' \in [Users -> User] /\ users'[u] = row /\ users'[u] # NoUser
      /\ \A v \in Users \ {u} : users'[v] = users[v]
      /\ \A v \in Users : users'[v] = NoUser \/ users'[v].role \in Roles
  BY <1>u, <1>1, RowWritten
<1>3. OthersAgree(s) /\ overtaken \subseteq overtaken' /\ overtaken' \subseteq Users
  <2>1. overtaken \subseteq overtaken' /\ overtaken' \subseteq Users
    BY <1>1 DEF Inv, TablesOK
  <2>2. \A v \in Users \ {u} : users'[v] = users[v] /\ profiles'[v] = profiles[v]
    BY <1>2, <1>w
  <2>3. u \notin overtaken' =>
          /\ users'[u].role # users[u].role => HoldsRow(u) \ {s} = {}
          /\ profiles'[u].status # profiles[u].status => HoldsProfile(u) \ {s} = {}
    BY <1>1, <1>2, <1>w
  <2> QED BY <1>u, <1>w, <2>1, <2>2, <2>3, RowsSaved
<1>4. /\ granted' \in [Users -> SUBSET (Roles \cup {"verified"})]
      /\ granted'[u] = (IF given = "none" THEN granted[u]
                        ELSE {given} \cup (granted[u] \cap {"verified"}))
      /\ \A v \in Users \ {u} : granted'[v] = granted[v]
  BY <1>g DEF Inv, TablesOK
<1>5. TablesOK'
  BY <1>1, <1>w, <1>3, <1>4 DEF Inv, TablesOK, profileVars, authVars
<1>6. PowersWereGranted'
  <2> SUFFICES ASSUME NEW v \in Users \ overtaken'
               PROVE  /\ users'[v].role \in {"ADMIN", "MECHANIC", "VENDOR"} =>
                           users'[v].role \in granted'[v]
                      /\ profiles'[v].status = "verified" => "verified" \in granted'[v]
    BY DEF PowersWereGranted
  <2>1. /\ users[v].role \in {"ADMIN", "MECHANIC", "VENDOR"} => users[v].role \in granted[v]
        /\ profiles[v].status = "verified" => "verified" \in granted[v]
    BY <1>3 DEF Inv, PowersWereGranted
  <2>2. profiles'[v].status = "verified" => "verified" \in granted'[v]
    BY <1>1, <1>4, <2>1 DEF profileVars
  <2>3. CASE v # u
    BY <1>w, <1>4, <2>1, <2>2, <2>3
  <2>4. CASE v = u
    BY <1>u, <1>w, <1>3, <1>4, <2>1, <2>2, <2>4
  <2> QED BY <2>3, <2>4
<1>7. UNCHANGED <<locks, attempts>>
  BY <1>1 DEF authVars
<1>8. CASE At(s, "drop token", job[s])
  <2>j. PICK j \in Job : j = job[s]
    BY JobTypes
  <2>1. Ready("drop token", j) /\ Agrees("drop token", j)' /\ "drop token" \in Labels \ TryLabels
    BY DEF Ready, Agrees, OfUser, Labels, TryLabels
  <2> QED BY <1>1, <1>3, <1>5, <1>6, <1>7, <1>8, <2>j, <2>1, ServeKeeps
<1>9. CASE At(s, "idle", IdleJob)
  BY <1>1, <1>3, <1>5, <1>6, <1>7, <1>9, FinishReady, ServeKeeps
<1> QED BY <1>1, <1>8, <1>9

-----------------------------------------------------------------------------
(* Addresses. *)

LEMMA AddressWritten ==
  ASSUME Inv, NEW s \in Sessions,
         UNCHANGED <<users, powers, authVars, profileVars>>,
         addresses' \in [Addresses -> {"none", "live", "deleted"}],
         \/ Request(s, "idle", IdleJob)
         \/ pc[s] \notin TryLabels /\ Finish(s)
  PROVE  Inv'
<1>1. /\ PowersWereGranted' /\ OthersAgree(s)
      /\ UNCHANGED <<users, profiles, powers, locks, attempts>>
  BY PowersRest DEF profileVars, authVars
<1>2. TablesOK'
  BY DEF Inv, TablesOK, profileVars, authVars
<1> QED BY <1>1, <1>2, FinishReady, RequestKeeps, ServeKeeps DEF Finish

LEMMA AddressesKeep ==
  ASSUME Inv, NEW s \in Sessions, NEW a \in Addresses,
         AddAddress(s, a) \/ DeleteAddress(s, a)
  PROVE  Inv'
<1>1. addresses' \in [Addresses -> {"none", "live", "deleted"}]
  BY DEF Inv, TablesOK, AddAddress, DeleteAddress
<1>2. UNCHANGED <<users, powers, authVars, profileVars>> /\ Request(s, "idle", IdleJob)
  BY DEF AddAddress, DeleteAddress
<1> QED BY <1>1, <1>2, AddressWritten

LEMMA SaveAddressKeeps ==
  ASSUME Inv, NEW s \in Sessions, SaveAddress(s)
  PROVE  Inv'
<1>1. addresses' \in [Addresses -> {"none", "live", "deleted"}]
  BY DEF Inv, TablesOK, SaveAddress
<1>2. /\ UNCHANGED <<users, powers, authVars, profileVars>>
      /\ pc[s] \notin TryLabels /\ Finish(s)
  BY DEF SaveAddress, TryLabels
<1> QED BY <1>1, <1>2, AddressWritten

LEMMA UpdateAddressKeeps ==
  ASSUME Inv, NEW s \in Sessions, NEW a \in Addresses, UpdateAddress(s, a)
  PROVE  Inv'
<1>j. PICK j \in Job : j = [IdleJob EXCEPT !.item = a]
  BY RowTypes DEF Job, Items
<1>1. /\ Ready("save address", j) /\ Agrees("save address", j)
      /\ "save address" \in Labels \ TryLabels
  BY DEF Ready, Agrees, OfUser, Labels, TryLabels
<1>2. /\ UNCHANGED <<users, addresses, powers, authVars, profileVars>>
      /\ Request(s, "save address", j)
  BY <1>j DEF UpdateAddress
<1> QED BY <1>1, <1>2, ReadKeeps

-----------------------------------------------------------------------------
(* A mechanic's own profile. *)

\* A step of a session that writes no profile.
LEMMA ProfilesRest ==
  ASSUME Inv, UNCHANGED <<users, addresses, powers, authVars, profiles, requests, crashes>>,
         documents' \in [Documents -> Users \cup {None}],
         seeded' \subseteq Users,
         accounts' \in [Subaccounts -> Account],
         NEW s \in Sessions, pc[s] \notin TryLabels,
         NEW label \in Labels \ TryLabels, NEW j \in Job,
         At(s, label, j), Ready(label, j), Agrees(label, j)
  PROVE  Inv'
<1>1. PowersWereGranted' /\ OthersAgree(s) /\ Agrees(label, j)'
  BY PowersRest
<1>2. TablesOK' /\ UNCHANGED <<locks, attempts>>
  BY DEF Inv, TablesOK, authVars
<1> QED BY <1>1, <1>2, ServeKeeps

\* A session writes a profile: a new one where there was none, or, unless the user was
\* overtaken, one with the status the table has.
LEMMA ProfileWritten ==
  ASSUME Inv, UNCHANGED <<users, addresses, powers, authVars, documents, seeded, accounts>>,
         UNCHANGED <<requests, crashes>>,
         NEW u \in Users, NEW profile \in Profile,
         profiles' = [profiles EXCEPT ![u] = profile],
         \/ u \in overtaken
         \/ profile.status = profiles[u].status
         \/ profiles[u] = NoProfile /\ profile = NewProfile,
         NEW s \in Sessions, pc[s] \notin TryLabels, At(s, "idle", IdleJob)
  PROVE  Inv'
<1>1. /\ profiles' \in [Users -> Profile] /\ profiles'[u] = profile
      /\ \A v \in Users \ {u} : profiles'[v] = profiles[v]
  BY DEF Inv, TablesOK
<1>2. NewProfile.status = "pending"
  BY DEF NewProfile, NoProfile
<1>3. PowersWereGranted'
  BY <1>1, <1>2 DEF Inv, PowersWereGranted
<1>4. OthersAgree(s)
  <2> SUFFICES ASSUME NEW x \in Sessions \ {s}, NEW label \in Labels, NEW j \in Job,
                      pc[x] = label, job[x] = j
               PROVE  Agrees(label, j)'
    BY DEF OthersAgree
  <2>1. Ready(label, j) /\ Agrees(label, j)
    BY JobTypes
  <2>2. ASSUME label \in {"subaccount", "save profile"}, j.user \notin overtaken
        PROVE  profiles'[j.user].status = profiles[j.user].status
    <3>1. j.user \in Users /\ j.profile.status = profiles[j.user].status
          /\ j.profile.status \in ProfileStatus
      BY <2>1, <2>2 DEF Ready, Agrees, OfUser
    <3>2. profiles[j.user] # NoProfile
      BY <3>1, RowTypes
    <3> QED BY <1>1, <2>2, <3>1, <3>2
  <2> QED BY <2>1, <2>2 DEF Agrees, NobodyIsIn
<1>5. TablesOK' /\ UNCHANGED <<locks, attempts>>
  BY <1>1 DEF Inv, TablesOK, authVars
<1> QED BY <1>3, <1>4, <1>5, FinishReady, ServeKeeps

LEMMA ApplyInsertKeeps ==
  ASSUME Inv, NEW s \in Sessions, ApplyInsert(s)
  PROVE  Inv'
<1>u. PICK u \in Users : u = job[s].user
  BY JobTypes DEF ApplyInsert, Ready, OfUser
<1>p. PICK profile \in Profile :
        /\ profile = IF profiles[u] = NoProfile THEN NewProfile ELSE profiles[u]
        /\ profile.status = profiles[u].status \/
             (profiles[u] = NoProfile /\ profile = NewProfile)
  <2>1. NewProfile \in Profile
    BY DEF NewProfile, NoProfile, Profile, ProfileStatus
  <2> QED BY <2>1, UserTypes
<1>1. /\ UNCHANGED <<users, addresses, powers, authVars, documents, seeded, accounts>>
      /\ UNCHANGED <<requests, crashes>>
      /\ At(s, "idle", IdleJob) /\ pc[s] \notin TryLabels
      /\ profiles' = [profiles EXCEPT ![u] = profile]
  BY <1>u, <1>p DEF ApplyInsert, Finish, TryLabels
<1> QED BY <1>p, <1>1, ProfileWritten

LEMMA SaveProfileKeeps ==
  ASSUME Inv, NEW s \in Sessions, SaveProfile(s)
  PROVE  Inv'
<1>u. PICK u \in Users, profile \in Profile :
        /\ u = job[s].user /\ profile = job[s].profile
        /\ u \in overtaken \/ profile.status = profiles[u].status
  BY JobTypes DEF SaveProfile, Ready, Agrees, OfUser
<1>1. /\ UNCHANGED <<users, addresses, powers, authVars, documents, seeded, accounts>>
      /\ UNCHANGED <<requests, crashes>>
      /\ At(s, "idle", IdleJob) /\ pc[s] \notin TryLabels
      /\ profiles' = [profiles EXCEPT ![u] = profile]
  BY <1>u DEF SaveProfile, Finish, TryLabels
<1> QED BY <1>u, <1>1, ProfileWritten

LEMMA DocumentKeeps ==
  ASSUME Inv, NEW s \in Sessions, NEW u \in Users, NEW d \in Documents,
         AddDocument(s, u, d) \/ RemoveDocument(s, u, d)
  PROVE  Inv'
<1>1. PICK label \in {"add document", "remove document"} :
        Request(s, label, [JobOf(u) EXCEPT !.item = d])
  BY DEF AddDocument, RemoveDocument
<1>2. UNCHANGED <<users, addresses, powers, authVars, profileVars>> /\ users[u] # NoUser
  BY DEF AddDocument, RemoveDocument, SignedIn
<1>3. d \in Items /\ label \notin {"subaccount", "save profile"} /\ label \in Forms
  BY <1>1 DEF Items, Forms
<1> QED BY <1>1, <1>2, <1>3, HoldKeeps

LEMMA SaveDocumentKeeps ==
  ASSUME Inv, NEW s \in Sessions, SaveDocument(s)
  PROVE  Inv'
<1>1. /\ UNCHANGED <<users, addresses, powers, authVars, profiles, seeded, accounts>>
      /\ UNCHANGED <<requests, crashes>>
      /\ At(s, "idle", IdleJob) /\ pc[s] \notin TryLabels
      /\ documents' = [documents EXCEPT ![job[s].item] =
                         IF pc[s] = "add document" THEN job[s].user ELSE None]
  BY DEF SaveDocument, Finish, TryLabels
<1>2. /\ documents' \in [Documents -> Users \cup {None}]
      /\ seeded' \subseteq Users
      /\ accounts' \in [Subaccounts -> Account]
  BY <1>1, JobTypes DEF Inv, TablesOK
<1> QED BY <1>1, <1>2, FinishReady, ProfilesRest

LEMMA SetupPayoutKeeps ==
  ASSUME Inv, NEW s \in Sessions, NEW u \in Users, NEW bank \in Banks, SetupPayout(s, u, bank)
  PROVE  Inv'
<1>1. /\ UNCHANGED <<users, addresses, powers, authVars, profileVars>> /\ users[u] # NoUser
      /\ Request(s, "subaccount", [JobOf(u) EXCEPT !.item = bank])
      /\ bank \in Items /\ "subaccount" \in Forms /\ profiles[u].status \in ProfileStatus
  BY DEF SetupPayout, Items, SignedIn, Forms, ProfileStatus
<1> QED BY <1>1, HoldKeeps

LEMMA CallPaystackKeeps ==
  ASSUME Inv, NEW s \in Sessions, NEW code \in Subaccounts, CallPaystack(s, code)
  PROVE  Inv'
<1>u. PICK u \in Users, old \in Profile, bank \in Banks :
        /\ u = job[s].user /\ old = job[s].profile /\ bank = job[s].item
        /\ old.status \in ProfileStatus
        /\ u \in overtaken \/ old.status = profiles[u].status
  BY JobTypes DEF CallPaystack, OfUser, Ready, Agrees
<1> DEFINE new == [old EXCEPT !.subaccount = code, !.bank = bank]
           account == [user |-> u, bank |-> bank]
<1>1. new \in Profile
  BY DEF Profile
<1>2. new.status = old.status
  BY DEF Profile
<1>j. PICK j \in Job : j = [job[s] EXCEPT !.profile = new]
  BY <1>1, JobTypes DEF Job
<1>3. j.user = u /\ j.profile = new
  BY <1>u, <1>j, JobTypes DEF Job
<1>4. Ready("save profile", j) /\ Agrees("save profile", j)
      /\ "save profile" \in Labels \ TryLabels
  BY <1>u, <1>2, <1>3 DEF Ready, Agrees, Labels, TryLabels
<1>5. /\ UNCHANGED <<users, addresses, powers, authVars, profiles, documents, seeded>>
      /\ UNCHANGED <<requests, crashes>>
      /\ pc[s] \notin TryLabels
      /\ accounts' = [accounts EXCEPT ![code] = account]
  BY <1>u DEF CallPaystack, TryLabels
<1>6. At(s, "save profile", j)
  BY <1>u, <1>j, JobTypes DEF CallPaystack, Job
<1>7. account \in Account
  BY DEF Account
<1> HIDE DEF new, account
<1>8. /\ documents' \in [Documents -> Users \cup {None}]
      /\ seeded' \subseteq Users
      /\ accounts' \in [Subaccounts -> Account]
  BY <1>5, <1>7 DEF Inv, TablesOK
<1> QED BY <1>4, <1>5, <1>6, <1>8, ProfilesRest

LEMMA SeedKeeps ==
  ASSUME Inv, NEW s \in Sessions, SeedInstallServices(s)
  PROVE  Inv'
<1>u. PICK u \in Users : u = job[s].user
  BY JobTypes DEF SeedInstallServices, Ready, OfUser
<1>1. /\ UNCHANGED <<users, addresses, powers, authVars, profiles, documents, accounts>>
      /\ UNCHANGED <<requests, crashes>>
      /\ At(s, "idle", IdleJob) /\ pc[s] \notin TryLabels
      /\ seeded' = seeded \cup {u}
  BY <1>u DEF SeedInstallServices, Finish, TryLabels
<1>2. /\ documents' \in [Documents -> Users \cup {None}]
      /\ seeded' \subseteq Users
      /\ accounts' \in [Subaccounts -> Account]
  BY <1>1 DEF Inv, TablesOK
<1> QED BY <1>1, <1>2, FinishReady, ProfilesRest

-----------------------------------------------------------------------------
(* Verdicts. *)

LEMMA VerdictRoles ==
  ASSUME NEW status \in Verdicts, NEW role \in Roles
  PROVE  VerdictRole(status, role) \in Roles
BY DEF VerdictRole, Roles, Verdicts

LEMMA JudgeKeeps ==
  ASSUME Inv, NEW s \in Sessions, NEW u \in Users, NEW status \in Verdicts,
         Judge(s, u, status)
  PROVE  Inv'
<1>r. PICK role \in Roles : role = VerdictRole(status, users[u].role) /\ users[u] # NoUser
  BY UserTypes, VerdictRoles DEF Judge
<1> DEFINE row == [users[u] EXCEPT !.role = role]
           profile == [profiles[u] EXCEPT !.status = status]
<1>1. users[u] \in User /\ profiles[u] \in Profile
  BY UserTypes
<1>2. row \in User /\ row.role = role
  BY <1>1, RowChanges
<1>3. profile \in Profile
  BY <1>1 DEF Profile, ProfileStatus, Verdicts
<1>4. profile.status = status
  BY <1>1 DEF Profile
<1>k. PICK k \in Job : k = JobOf(u)
  BY UserTypes
<1>n. k.row = users[u] /\ k.profile = profiles[u] /\ k.user = u
  BY <1>k, UserTypes
<1> HIDE DEF row, profile
<1>e. [k EXCEPT !.profile = profile, !.row = row] \in Job
  BY <1>2, <1>3 DEF Job
<1>j. PICK j \in Job : j = [k EXCEPT !.profile = profile, !.row = row]
  BY <1>e
<1>5. j.user = u /\ j.row = row /\ j.profile = profile
  BY <1>j, <1>n DEF Job
<1>o. j = [JobOf(u) EXCEPT !.profile.status = status, !.row.role = VerdictRole(status, @)]
  BY <1>j, <1>k, <1>n, <1>r DEF Job, row, profile
<1>6. /\ UNCHANGED <<users, addresses, powers, authVars, profileVars>>
      /\ Request(s, "verdict", j)
  BY <1>o DEF Judge
<1>7. Ready("verdict", j) /\ Agrees("verdict", j) /\ "verdict" \in Labels \ TryLabels
  BY <1>r, <1>2, <1>4, <1>5 DEF Ready, Agrees, Labels, TryLabels
<1> QED BY <1>6, <1>7, ReadKeeps

LEMMA SaveVerdictKeeps ==
  ASSUME Inv, NEW s \in Sessions, SaveVerdict(s)
  PROVE  Inv'
<1>u. PICK u \in Users, row \in User, profile \in Profile :
        /\ u = job[s].user /\ row = job[s].row /\ profile = job[s].profile
        /\ row.role \in Roles /\ profile.status \in Verdicts /\ users[u] # NoUser
        /\ u \in overtaken \/ row.role = VerdictRole(profile.status, users[u].role)
  BY JobTypes DEF SaveVerdict, Ready, Agrees, OfUser
<1>1. /\ UNCHANGED <<addresses, authVars, documents, seeded, accounts>>
      /\ UNCHANGED <<requests, crashes>>
      /\ users' = [users EXCEPT ![u] = row]
      /\ profiles' = [profiles EXCEPT ![u] = profile]
      /\ overtaken' \in {overtaken, overtaken \cup {u}}
      /\ u \notin overtaken' =>
           /\ row.role # users[u].role => HoldsRow(u) \ {s} = {}
           /\ profile.status # profiles[u].status => HoldsProfile(u) \ {s} = {}
      /\ At(s, "seed", job[s]) \/ At(s, "idle", IdleJob)
      /\ pc[s] \notin TryLabels
  BY <1>u DEF SaveVerdict, Overtakes, Continue, Finish, TryLabels
<1>w. /\ users' \in [Users -> User] /\ users'[u] = row /\ users'[u] # NoUser
      /\ \A v \in Users \ {u} : users'[v] = users[v]
      /\ \A v \in Users : users'[v] = NoUser \/ users'[v].role \in Roles
  BY <1>u, <1>1, RowWritten
<1>v. /\ profiles' \in [Users -> Profile] /\ profiles'[u] = profile
      /\ \A v \in Users \ {u} : profiles'[v] = profiles[v]
  BY <1>1 DEF Inv, TablesOK
<1>2. OthersAgree(s) /\ overtaken \subseteq overtaken' /\ overtaken' \subseteq Users
  <2>1. overtaken \subseteq overtaken' /\ overtaken' \subseteq Users
    BY <1>1 DEF Inv, TablesOK
  <2>2. \A v \in Users \ {u} : users'[v] = users[v] /\ profiles'[v] = profiles[v]
    BY <1>w, <1>v
  <2>3. u \notin overtaken' =>
          /\ users'[u].role # users[u].role => HoldsRow(u) \ {s} = {}
          /\ profiles'[u].status # profiles[u].status => HoldsProfile(u) \ {s} = {}
    BY <1>1, <1>w, <1>v
  <2> QED BY <1>u, <1>w, <2>1, <2>2, <2>3, RowsSaved
<1>g. granted' = [granted EXCEPT ![u] = Judged(profile.status, granted[u])]
  BY <1>u DEF SaveVerdict
<1>3. granted \in [Users -> SUBSET (Roles \cup {"verified"})]
  BY DEF Inv, TablesOK
<1>4. Judged(profile.status, granted[u]) \subseteq Roles \cup {"verified"}
  BY <1>u, <1>3 DEF Judged, Roles, Verdicts
<1>5. /\ granted' \in [Users -> SUBSET (Roles \cup {"verified"})]
      /\ granted'[u] = Judged(profile.status, granted[u])
      /\ \A v \in Users \ {u} : granted'[v] = granted[v]
  BY <1>g, <1>3, <1>4
<1>6. TablesOK' /\ UNCHANGED <<locks, attempts>>
  BY <1>1, <1>w, <1>v, <1>2, <1>5 DEF Inv, TablesOK, authVars
<1>7. PowersWereGranted'
  <2> SUFFICES ASSUME NEW v \in Users \ overtaken'
               PROVE  /\ users'[v].role \in {"ADMIN", "MECHANIC", "VENDOR"} =>
                           users'[v].role \in granted'[v]
                      /\ profiles'[v].status = "verified" => "verified" \in granted'[v]
    BY DEF PowersWereGranted
  <2>1. users[v].role \in {"ADMIN", "MECHANIC", "VENDOR"} => users[v].role \in granted[v]
    BY <1>2 DEF Inv, PowersWereGranted
  <2>2. CASE v # u
    BY <1>w, <1>v, <1>2, <1>5, <2>2 DEF Inv, PowersWereGranted
  <2>3. CASE v = u
    <3>1. /\ row.role = VerdictRole(profile.status, users[u].role)
          /\ users'[u] = row /\ profiles'[u] = profile
      BY <1>u, <1>w, <1>v, <1>2, <2>3
    <3>2. CASE profile.status = "verified"
      BY <1>5, <2>3, <3>1, <3>2 DEF VerdictRole, Judged
    <3>3. CASE profile.status = "rejected"
      BY <1>5, <2>1, <2>3, <3>1, <3>3 DEF VerdictRole, Judged
    <3>4. CASE profile.status = "suspended"
      BY <1>5, <2>1, <2>3, <3>1, <3>4 DEF VerdictRole, Judged
    <3> QED BY <1>u, <3>2, <3>3, <3>4 DEF Verdicts
  <2> QED BY <2>2, <2>3
<1>8. CASE At(s, "seed", job[s])
  <2>j. PICK j \in Job : j = job[s]
    BY JobTypes
  <2>1. Ready("seed", j) /\ Agrees("seed", j)' /\ "seed" \in Labels \ TryLabels
    BY <1>u, <2>j DEF Ready, Agrees, Labels, TryLabels
  <2> QED BY <1>1, <1>2, <1>6, <1>7, <1>8, <2>j, <2>1, ServeKeeps
<1>9. CASE At(s, "idle", IdleJob)
  BY <1>1, <1>2, <1>6, <1>7, <1>9, FinishReady, ServeKeeps
<1> QED BY <1>1, <1>8, <1>9

-----------------------------------------------------------------------------
(* The lockout. *)

\* The share of one user in what is counted.
Counted(u) ==
  /\ IsFiniteSet(Pending(u))
  /\ tries[u] + Cardinality(Pending(u)) <= locks[u].count + blind[u]
  /\ tries[u] + Cardinality(Comparing(u)) <= LockoutAttempts + blind[u]

LEMMA CountTypes ==
  ASSUME Inv, NEW u \in Users
  PROVE  /\ Counted(u)
         /\ Comparing(u) \subseteq Pending(u) /\ IsFiniteSet(Comparing(u))
         /\ Cardinality(Pending(u)) \in Nat /\ Cardinality(Comparing(u)) \in Nat
         /\ Cardinality(Comparing(u)) <= Cardinality(Pending(u))
         /\ tries[u] \in Nat /\ blind[u] \in Nat
         /\ locks[u].count \in Nat /\ locks[u].expires \in BOOLEAN
         /\ LockoutAttempts \in Nat /\ requests \in Nat /\ MaxRequests \in Nat
<1>1. Counted(u)
  BY DEF Inv, GuessesCounted, Counted
<1>2. Comparing(u) \subseteq Pending(u)
  BY DEF Comparing, Pending, TryLabels
<1>3. IsFiniteSet(Pending(u))
  BY <1>1 DEF Counted
<1>4. IsFiniteSet(Comparing(u)) /\ Cardinality(Comparing(u)) <= Cardinality(Pending(u))
  BY <1>2, <1>3, FS_Subset
<1>5. Cardinality(Pending(u)) \in Nat /\ Cardinality(Comparing(u)) \in Nat
  BY <1>3, <1>4, FS_CardinalityType
<1>6. tries[u] \in Nat /\ blind[u] \in Nat /\ locks[u].count \in Nat /\ locks[u].expires \in BOOLEAN
  BY DEF Inv, LocksOK
<1>7. LockoutAttempts \in Nat /\ requests \in Nat /\ MaxRequests \in Nat
  BY AccountsConstants DEF Inv, BoundsOK
<1> QED BY <1>1, <1>2, <1>4, <1>5, <1>6, <1>7

\* An attempt that is given up, or was never counted, only lowers what is counted.
LEMMA CountedLess ==
  ASSUME Inv, NEW u \in Users,
         Pending(u)' \subseteq Pending(u), Comparing(u)' \subseteq Comparing(u),
         tries'[u] = tries[u], blind'[u] = blind[u], locks'[u].count = locks[u].count
  PROVE  Counted(u)'
<1>1. IsFiniteSet(Pending(u)') /\ Cardinality(Pending(u)') <= Cardinality(Pending(u))
  BY CountTypes, FS_Subset DEF Counted
<1>2. IsFiniteSet(Comparing(u)') /\ Cardinality(Comparing(u)') <= Cardinality(Comparing(u))
  BY CountTypes, FS_Subset
<1>3. Cardinality(Pending(u)') \in Nat /\ Cardinality(Comparing(u)') \in Nat
  BY <1>1, <1>2, FS_CardinalityType
<1> QED BY <1>1, <1>2, <1>3, CountTypes DEF Counted

\* A step of one attempt.
LEMMA AttemptKeeps ==
  ASSUME Inv, UNCHANGED lockFrame, tokens' \subseteq Tokens,
         NEW s \in Sessions, NEW label \in TryLabels \cup {"unlock", "idle"}, NEW j \in Job,
         At(s, label, j), label # "idle" => j.user \in Users,
         BoundsOK', LocksOK', LockoutEnds',
         \A u \in Users : Counted(u)'
  PROVE  Inv'
<1>1. PowersWereGranted' /\ OthersAgree(s)
  BY PowersRest DEF lockFrame, profileVars
<1>2. TablesOK'
  BY DEF Inv, TablesOK, lockFrame, profileVars
<1>3. Ready(label, j) /\ Agrees(label, j)' /\ label \in Labels
  BY DEF Ready, Agrees, TryLabels, OfUser, Labels
<1>4. pc' \in [Sessions -> Labels] /\ job' \in [Sessions -> Job] /\ SessionsReady'
  BY <1>1, <1>3, SessionStep
<1>5. GuessesCounted'
  BY DEF GuessesCounted, Counted
<1> QED BY <1>1, <1>2, <1>4, <1>5 DEF Inv

\* An INCR that was done, with its answer or without.
LEMMA IncrDone ==
  ASSUME Inv, NEW s \in Sessions, NEW u \in Users, NEW password \in Passwords,
         UNCHANGED <<lockFrame, tokens, tries, blind>>,
         locks' = [locks EXCEPT ![u].count = @ + 1],
         pc[s] = "idle", requests < MaxRequests, requests' = requests + 1, BoundsOK',
         NEW l \in {"expire", "get"}, At(s, l, Attempt(u, password, "yes")),
         orphaned \subseteq orphaned', orphaned' \subseteq Users,
         locks[u].count = 0 => l = "expire" \/ u \in orphaned'
  PROVE  Inv'
<1>j. PICK j \in Job : j = Attempt(u, password, "yes")
  BY RowTypes DEF Attempt, Job, Items, Counting
<1>2. j.user = u /\ j.counted = "yes"
  BY <1>j DEF Attempt, IdleJob
<1>4. /\ pc'[s] = l /\ job'[s] = j
      /\ \A x \in Sessions \ {s} : pc'[x] = pc[x] /\ job'[x] = job[x]
  BY <1>j DEF Inv, At
<1>5. locks \in [Users -> [count : Nat, expires : BOOLEAN]]
  BY DEF Inv, LocksOK
<1>6. /\ locks' \in [Users -> [count : Nat, expires : BOOLEAN]]
      /\ locks'[u].count = locks[u].count + 1 /\ locks'[u].expires = locks[u].expires
      /\ \A x \in Users \ {u} : locks'[x] = locks[x]
  BY <1>5
<1>8. LocksOK'
  <2>1. \A x \in Users : locks'[x].count <= requests'
    BY <1>6, CountTypes DEF Inv, LocksOK
  <2> QED BY <1>6, <2>1 DEF Inv, LocksOK
<1>9. LockoutEnds'
  <2> SUFFICES ASSUME NEW x \in Users, locks'[x].count > 0, ~locks'[x].expires
               PROVE  x \in orphaned' \/ \E y \in Sessions : pc'[y] = "expire" /\ job'[y].user = x
    BY DEF LockoutEnds
  <2>1. CASE x = u /\ locks[u].count = 0
    BY <1>2, <1>4, <2>1
  <2>2. CASE x = u /\ locks[u].count # 0
    <3>1. locks[u].count > 0 /\ ~locks[u].expires
      BY <1>6, <2>2, CountTypes
    <3>2. u \in orphaned \/ \E y \in Sessions : pc[y] = "expire" /\ job[y].user = u
      BY <3>1 DEF Inv, LockoutEnds
    <3> QED BY <1>4, <2>2, <3>2
  <2>3. CASE x # u
    <3>1. x \in orphaned \/ \E y \in Sessions : pc[y] = "expire" /\ job[y].user = x
      BY <1>6, <2>3 DEF Inv, LockoutEnds
    <3> QED BY <1>4, <3>1
  <2> QED BY <2>1, <2>2, <2>3
<1>10. \A x \in Users \ {u} : Pending(x)' = Pending(x) /\ Comparing(x)' = Comparing(x)
  BY <1>2, <1>4 DEF Pending, Comparing, TryLabels
<1>11. Pending(u)' = Pending(u) \cup {s} /\ s \notin Pending(u)
  BY <1>2, <1>4 DEF Pending, TryLabels
<1>12. Comparing(u)' = Comparing(u)
  BY <1>4 DEF Comparing
<1>13. Counted(u)'
  <2>1. IsFiniteSet(Pending(u)') /\ Cardinality(Pending(u)') = Cardinality(Pending(u)) + 1
    BY <1>11, CountTypes, FS_AddElement DEF Counted
  <2> QED BY <1>6, <1>12, <2>1, CountTypes DEF Counted
<1>14. \A x \in Users : Counted(x)'
  BY <1>6, <1>10, <1>13, CountedLess
<1>15. tokens' \subseteq Tokens
  BY DEF Inv, TablesOK
<1>16. At(s, l, j) /\ l \in TryLabels
  BY <1>j DEF TryLabels
<1> QED BY <1>2, <1>8, <1>9, <1>14, <1>15, <1>16, AttemptKeeps

LEMMA LoginIncrKeeps ==
  ASSUME Inv, NEW s \in Sessions, NEW u \in Users, NEW password \in Passwords,
         LoginIncr(s, u, password)
  PROVE  Inv'
<1>l. PICK l \in {"expire", "get"} : l = IF locks[u].count = 0 THEN "expire" ELSE "get"
  OBVIOUS
<1>1. /\ UNCHANGED <<lockFrame, tokens, tries, blind, orphaned>>
      /\ locks' = [locks EXCEPT ![u].count = @ + 1]
      /\ pc[s] = "idle" /\ requests < MaxRequests /\ requests' = requests + 1
      /\ At(s, l, Attempt(u, password, "yes"))
  BY <1>l DEF LoginIncr, Request, Arrive
<1>2. BoundsOK'
  BY AccountsConstants DEF LoginIncr, Request, Arrive, Inv, BoundsOK
<1>3. orphaned' \subseteq Users
  BY <1>1 DEF Inv, LocksOK
<1> QED BY <1>l, <1>1, <1>2, <1>3, IncrDone

LEMMA LoginIncrFailsKeeps ==
  ASSUME Inv, NEW s \in Sessions, NEW u \in Users, NEW password \in Passwords,
         LoginIncrFails(s, u, password)
  PROVE  Inv'
<1>1. BoundsOK'
  BY AccountsConstants DEF LoginIncrFails, Failure, Arrive, Inv, BoundsOK
<1>2. UNCHANGED <<lockFrame, tokens>>
  BY DEF LoginIncrFails
<1>3. CASE /\ Arrive(s, "get", Attempt(u, password, "yes"))
           /\ locks' = [locks EXCEPT ![u].count = @ + 1]
           /\ orphaned' = IF locks[u].count = 0 THEN orphaned \cup {u} ELSE orphaned
           /\ UNCHANGED <<tries, blind>>
  <2>1. /\ pc[s] = "idle" /\ requests < MaxRequests /\ requests' = requests + 1
        /\ At(s, "get", Attempt(u, password, "yes"))
    BY <1>3 DEF Arrive
  <2>2. /\ orphaned \subseteq orphaned' /\ orphaned' \subseteq Users
        /\ locks[u].count = 0 => u \in orphaned'
    BY <1>3 DEF Inv, LocksOK
  <2>3. UNCHANGED <<lockFrame, tokens, tries, blind>>
    BY <1>2, <1>3
  <2> QED BY <1>1, <1>3, <2>1, <2>2, <2>3, IncrDone
<1>4. CASE Arrive(s, "get", Attempt(u, password, "blind")) /\ UNCHANGED <<locks, attempts>>
  <2>j. PICK j \in Job : j = Attempt(u, password, "blind")
    BY RowTypes DEF Attempt, Job, Items, Counting
  <2>1. j.user = u /\ j.counted = "blind"
    BY <2>j DEF Attempt, IdleJob
  <2>2. pc[s] = "idle" /\ requests' = requests + 1 /\ At(s, "get", j)
    BY <1>4, <2>j DEF Arrive
  <2>3. /\ pc'[s] = "get" /\ job'[s] = j
        /\ \A x \in Sessions \ {s} : pc'[x] = pc[x] /\ job'[x] = job[x]
    BY <2>2 DEF Inv, At
  <2>4. \A x \in Users : Pending(x)' = Pending(x) /\ Comparing(x)' = Comparing(x)
    BY <2>1, <2>2, <2>3 DEF Pending, Comparing, TryLabels
  <2>5. \A x \in Users : Counted(x)'
    BY <1>4, <2>4, CountedLess
  <2>6. LocksOK'
    <3>1. \A x \in Users : locks'[x].count <= requests'
      BY <1>4, <2>2, CountTypes DEF Inv, LocksOK
    <3> QED BY <1>4, <3>1 DEF Inv, LocksOK
  <2>7. LockoutEnds'
    BY <1>4, <2>2, <2>3 DEF Inv, LockoutEnds
  <2>8. tokens' \subseteq Tokens /\ UNCHANGED lockFrame
    BY <1>2 DEF Inv, TablesOK
  <2>9. "get" \in TryLabels
    BY DEF TryLabels
  <2> QED BY <1>1, <2>1, <2>2, <2>5, <2>6, <2>7, <2>8, <2>9, AttemptKeeps
<1> QED BY <1>3, <1>4 DEF LoginIncrFails

LEMMA LoginExpireKeeps ==
  ASSUME Inv, NEW s \in Sessions, LoginExpire(s)
  PROVE  Inv'
<1>u. PICK u \in Users : u = job[s].user
  BY JobTypes DEF LoginExpire, Ready, OfUser
<1>j. PICK j \in Job : j = job[s]
  BY JobTypes
<1>1. /\ UNCHANGED <<lockFrame, tokens, attempts, requests, crashes>>
      /\ pc[s] = "expire"
      /\ locks' = [locks EXCEPT ![u].expires = locks[u].count > 0]
      /\ At(s, "get", j)
  BY <1>u, <1>j DEF LoginExpire, Continue
<1>2. j.user \in Users /\ "get" \in TryLabels
  BY <1>u, <1>j DEF TryLabels
<1>3. /\ pc'[s] = "get" /\ job'[s] = job[s]
      /\ \A x \in Sessions \ {s} : pc'[x] = pc[x] /\ job'[x] = job[x]
  BY <1>1, <1>j DEF Inv, At
<1>4. locks \in [Users -> [count : Nat, expires : BOOLEAN]]
  BY DEF Inv, LocksOK
<1>5. /\ locks' \in [Users -> [count : Nat, expires : BOOLEAN]]
      /\ locks'[u].count = locks[u].count
      /\ locks[u].count > 0 => locks'[u].expires
      /\ \A x \in Users \ {u} : locks'[x] = locks[x]
  <2>1. (locks[u].count > 0) \in BOOLEAN
    OBVIOUS
  <2>b. PICK b \in BOOLEAN : b = (locks[u].count > 0)
    BY <2>1, Zenon
  <2>2. locks' = [locks EXCEPT ![u].expires = b]
    BY <1>1, <2>b, Zenon
  <2> QED BY <1>4, <2>b, <2>2
<1>6. BoundsOK' /\ tokens' \subseteq Tokens /\ UNCHANGED lockFrame
  BY <1>1 DEF Inv, BoundsOK, TablesOK
<1>7. LocksOK'
  BY <1>1, <1>5 DEF Inv, LocksOK
<1>8. LockoutEnds'
  <2> SUFFICES ASSUME NEW x \in Users, locks'[x].count > 0, ~locks'[x].expires
               PROVE  x \in orphaned' \/ \E y \in Sessions : pc'[y] = "expire" /\ job'[y].user = x
    BY DEF LockoutEnds
  <2>1. x # u
    BY <1>5
  <2>2. x \in orphaned \/ \E y \in Sessions : pc[y] = "expire" /\ job[y].user = x
    BY <1>5, <2>1 DEF Inv, LockoutEnds
  <2> QED BY <1>1, <1>3, <1>u, <2>1, <2>2
<1>9. \A x \in Users : Pending(x)' = Pending(x) /\ Comparing(x)' = Comparing(x)
  BY <1>1, <1>3 DEF Pending, Comparing, TryLabels
<1>10. \A x \in Users : Counted(x)'
  BY <1>1, <1>5, <1>9, CountedLess
<1> QED BY <1>1, <1>2, <1>6, <1>7, <1>8, <1>10, AttemptKeeps

LEMMA LoginExpireFailsKeeps ==
  ASSUME Inv, NEW s \in Sessions, LoginExpireFails(s)
  PROVE  Inv'
<1>j. PICK j \in Job : j = job[s] /\ j.user \in Users
  BY JobTypes DEF LoginExpireFails, Ready, OfUser
<1>1. /\ UNCHANGED <<lockFrame, tokens, locks, tries, blind, requests>>
      /\ pc[s] = "expire" /\ At(s, "get", j)
      /\ orphaned' = orphaned \cup {j.user}
  BY <1>j DEF LoginExpireFails
<1>2. BoundsOK' /\ tokens' \subseteq Tokens /\ UNCHANGED lockFrame /\ "get" \in TryLabels
  BY AccountsConstants
     DEF LoginExpireFails, Failure, Inv, BoundsOK, TablesOK, TryLabels
<1>3. /\ pc'[s] = "get" /\ job'[s] = job[s]
      /\ \A x \in Sessions \ {s} : pc'[x] = pc[x] /\ job'[x] = job[x]
  BY <1>1, <1>j DEF Inv, At
<1>4. LocksOK'
  BY <1>1, <1>j DEF Inv, LocksOK
<1>5. LockoutEnds'
  BY <1>1, <1>j, <1>3 DEF Inv, LockoutEnds
<1>6. \A x \in Users : Pending(x)' = Pending(x) /\ Comparing(x)' = Comparing(x)
  BY <1>1, <1>3 DEF Pending, Comparing, TryLabels
<1>7. \A x \in Users : Counted(x)'
  BY <1>1, <1>6, CountedLess
<1> QED BY <1>j, <1>1, <1>2, <1>4, <1>5, <1>7, AttemptKeeps

\* The lockout of others is not touched while the counter is.
LEMMA LocksRest ==
  ASSUME Inv, UNCHANGED <<locks, orphaned, requests>>,
         tries' \in [Users -> Nat], blind' \in [Users -> Nat],
         \A x \in Sessions : pc[x] = "expire" => pc'[x] = "expire" /\ job'[x] = job[x]
  PROVE  LocksOK' /\ LockoutEnds'
  BY DEF Inv, LocksOK, LockoutEnds

LEMMA LoginGetKeeps ==
  ASSUME Inv, NEW s \in Sessions, LoginGet(s)
  PROVE  Inv'
<1>u. PICK u \in Users : u = job[s].user
  BY JobTypes DEF LoginGet, Ready, OfUser
<1>j. PICK j \in Job : j = job[s]
  BY JobTypes
<1>1. /\ UNCHANGED <<lockFrame, tokens, locks, tries, blind, orphaned, requests, crashes>>
      /\ pc[s] = "get"
  BY DEF LoginGet, Finish, Continue, authVars, lockFrame
<1>2. /\ BoundsOK' /\ tokens' \subseteq Tokens /\ UNCHANGED lockFrame
      /\ tries' \in [Users -> Nat] /\ blind' \in [Users -> Nat]
  BY <1>1 DEF Inv, BoundsOK, TablesOK, LocksOK
<1>3. CASE LockedOut(u)
  <2>1. At(s, "idle", IdleJob)
    BY <1>u, <1>3 DEF LoginGet, Finish
  <2>2. /\ pc'[s] = "idle" /\ job'[s] = IdleJob
        /\ \A x \in Sessions \ {s} : pc'[x] = pc[x] /\ job'[x] = job[x]
    BY <2>1 DEF Inv, At
  <2>3. LocksOK' /\ LockoutEnds'
    BY <1>1, <1>2, <2>2, LocksRest
  <2>4. \A x \in Users : Pending(x)' \subseteq Pending(x) /\ Comparing(x)' \subseteq Comparing(x)
    BY <2>2 DEF Pending, Comparing, TryLabels
  <2>5. \A x \in Users : Counted(x)'
    BY <1>1, <2>4, CountedLess
  <2> QED BY <1>2, <2>1, <2>3, <2>5, FinishReady, AttemptKeeps
<1>4. CASE ~LockedOut(u)
  <2>1. At(s, "compare", j)
    BY <1>u, <1>j, <1>4 DEF LoginGet, Continue
  <2>2. /\ pc'[s] = "compare" /\ job'[s] = job[s]
        /\ \A x \in Sessions \ {s} : pc'[x] = pc[x] /\ job'[x] = job[x]
    BY <1>j, <2>1 DEF Inv, At
  <2>3. LocksOK' /\ LockoutEnds'
    BY <1>1, <1>2, <2>2, LocksRest
  <2>4. \A x \in Users \ {u} : Pending(x)' = Pending(x) /\ Comparing(x)' = Comparing(x)
    BY <1>1, <1>u, <2>2 DEF Pending, Comparing, TryLabels
  <2>5. Pending(u)' = Pending(u) /\ Comparing(u)' \subseteq Pending(u)
    BY <1>1, <2>2 DEF Pending, Comparing, TryLabels
  <2>6. Counted(u)'
    <3>1. Cardinality(Comparing(u)') <= Cardinality(Pending(u))
          /\ IsFiniteSet(Comparing(u)')
      BY <2>5, CountTypes, FS_Subset DEF Counted
    <3>2. Cardinality(Comparing(u)') \in Nat
      BY <3>1, FS_CardinalityType
    <3>3. locks[u].count <= LockoutAttempts
      BY <1>4, CountTypes DEF LockedOut
    <3> QED BY <1>1, <2>5, <3>1, <3>2, <3>3, CountTypes DEF Counted
  <2>7. \A x \in Users : Counted(x)'
    BY <1>1, <2>4, <2>6, CountedLess
  <2>8. j.user \in Users /\ "compare" \in TryLabels
    BY <1>u, <1>j DEF TryLabels
  <2> QED BY <1>2, <2>1, <2>3, <2>7, <2>8, AttemptKeeps
<1> QED BY <1>3, <1>4

LEMMA LoginGetFailsKeeps ==
  ASSUME Inv, NEW s \in Sessions, LoginGetFails(s)
  PROVE  Inv'
<1>k. PICK k \in Job, c \in Counting :
        k = job[s] /\ c = (IF k.counted = "yes" THEN "blind" ELSE k.counted) /\ c # "yes"
  BY JobTypes DEF Job, Counting
<1>e. [k EXCEPT !.counted = c] \in Job
  BY DEF Job
<1>j. PICK j \in Job :
        /\ j = [job[s] EXCEPT !.counted = IF @ = "yes" THEN "blind" ELSE @]
        /\ j.user = job[s].user /\ j.counted # "yes"
  BY <1>k, <1>e DEF Job
<1>u. j.user \in Users
  BY <1>j, JobTypes DEF LoginGetFails, Ready, OfUser
<1>1. /\ UNCHANGED <<lockFrame, tokens, locks, attempts, requests>>
      /\ pc[s] = "get" /\ At(s, "compare", j)
  BY <1>j DEF LoginGetFails, authVars, lockFrame
<1>2. /\ BoundsOK' /\ tokens' \subseteq Tokens /\ UNCHANGED lockFrame
      /\ tries' \in [Users -> Nat] /\ blind' \in [Users -> Nat] /\ "compare" \in TryLabels
  BY <1>1, AccountsConstants
     DEF LoginGetFails, Failure, Inv, BoundsOK, TablesOK, LocksOK, TryLabels
<1>3. /\ pc'[s] = "compare" /\ job'[s] = j
      /\ \A x \in Sessions \ {s} : pc'[x] = pc[x] /\ job'[x] = job[x]
  BY <1>1 DEF Inv, At
<1>4. LocksOK' /\ LockoutEnds'
  BY <1>1, <1>2, <1>3, LocksRest
<1>5. \A x \in Users : Pending(x)' \subseteq Pending(x) /\ Comparing(x)' \subseteq Comparing(x)
  BY <1>j, <1>3 DEF Pending, Comparing, TryLabels
<1>6. \A x \in Users : Counted(x)'
  BY <1>1, <1>5, CountedLess
<1> QED BY <1>u, <1>1, <1>2, <1>4, <1>6, AttemptKeeps

LEMMA LoginCompareKeeps ==
  ASSUME Inv, NEW s \in Sessions, LoginCompare(s)
  PROVE  Inv'
<1>u. PICK u \in Users : u = job[s].user
  BY JobTypes DEF LoginCompare, Ready, OfUser
<1>c. PICK c \in Counting : c = job[s].counted
  BY JobTypes
<1>1. /\ UNCHANGED <<lockFrame, tokens, locks, orphaned, requests, crashes>>
      /\ pc[s] = "compare"
      /\ tries' = [tries EXCEPT ![u] = IF c = "no" THEN @ ELSE @ + 1]
      /\ blind' = [blind EXCEPT ![u] = IF c = "blind" THEN @ + 1 ELSE @]
  BY <1>u, <1>c DEF LoginCompare, Finish, Continue
<1>2. BoundsOK' /\ tokens' \subseteq Tokens /\ UNCHANGED lockFrame
  BY <1>1 DEF Inv, BoundsOK, TablesOK
<1>3. /\ tries' \in [Users -> Nat] /\ blind' \in [Users -> Nat]
      /\ tries'[u] = (IF c = "no" THEN tries[u] ELSE tries[u] + 1)
      /\ blind'[u] = (IF c = "blind" THEN blind[u] + 1 ELSE blind[u])
      /\ \A x \in Users \ {u} : tries'[x] = tries[x] /\ blind'[x] = blind[x]
  BY <1>1 DEF Inv, LocksOK
<1>4. PICK label \in {"unlock", "idle"}, j \in Job :
        At(s, label, j) /\ (label # "idle" => j.user \in Users)
  <2>1. CASE Continue(s, "unlock")
    BY <1>u, <2>1, JobTypes DEF Continue
  <2>2. CASE Finish(s)
    BY <2>2, FinishReady DEF Finish
  <2> QED BY <2>1, <2>2 DEF LoginCompare
<1>5. /\ pc'[s] = label
      /\ \A x \in Sessions \ {s} : pc'[x] = pc[x] /\ job'[x] = job[x]
  BY <1>4 DEF Inv, At
<1>6. LocksOK' /\ LockoutEnds'
  BY <1>1, <1>3, <1>5, LocksRest
<1>7. \A x \in Users : /\ Pending(x)' = Pending(x) \ {s}
                       /\ Comparing(x)' = Comparing(x) \ {s}
  BY <1>4, <1>5 DEF Pending, Comparing, TryLabels
<1>8. Counted(u)'
  <2>1. CASE c = "yes"
    <3>1. s \in Pending(u) /\ s \in Comparing(u)
      BY <1>1, <1>u, <1>c, <2>1 DEF Pending, Comparing, TryLabels
    <3>2. /\ IsFiniteSet(Pending(u)')
          /\ Cardinality(Pending(u)') = Cardinality(Pending(u)) - 1
          /\ Cardinality(Comparing(u)') = Cardinality(Comparing(u)) - 1
      BY <1>7, <3>1, CountTypes, FS_RemoveElement DEF Counted
    <3> QED BY <1>1, <1>3, <2>1, <3>2, CountTypes DEF Counted
  <2>2. CASE c = "blind"
    <3>1. Pending(u)' = Pending(u) /\ Comparing(u)' = Comparing(u)
      BY <1>7, <1>c, <2>2 DEF Pending, Comparing
    <3> QED BY <1>1, <1>3, <2>2, <3>1, CountTypes DEF Counted
  <2>3. CASE c = "no"
    BY <1>1, <1>3, <1>7, <2>3, CountedLess
  <2> QED BY <2>1, <2>2, <2>3 DEF Counting
<1>9. \A x \in Users : Counted(x)'
  BY <1>1, <1>3, <1>7, <1>8, CountedLess
<1> QED BY <1>2, <1>4, <1>6, <1>9, AttemptKeeps

LEMMA LoginUnlockFailsKeeps ==
  ASSUME Inv, NEW s \in Sessions, LoginUnlockFails(s)
  PROVE  Inv'
<1>u. PICK u \in Users : u = job[s].user
  BY JobTypes DEF LoginUnlockFails, Ready, OfUser
<1>1. /\ UNCHANGED <<lockFrame, locks, tries, blind, orphaned, requests>>
      /\ pc[s] = "unlock" /\ At(s, "idle", IdleJob)
      /\ tokens' = tokens \cup {<<u, "access">>, <<u, "refresh">>}
  BY <1>u DEF LoginUnlockFails, Issue
<1>2. /\ BoundsOK' /\ tokens' \subseteq Tokens /\ UNCHANGED lockFrame
      /\ tries' \in [Users -> Nat] /\ blind' \in [Users -> Nat]
  BY <1>1, AccountsConstants
     DEF LoginUnlockFails, Failure, Inv, BoundsOK, TablesOK, LocksOK, Tokens
<1>3. /\ pc'[s] = "idle" /\ job'[s] = IdleJob
      /\ \A x \in Sessions \ {s} : pc'[x] = pc[x] /\ job'[x] = job[x]
  BY <1>1 DEF Inv, At
<1>4. LocksOK' /\ LockoutEnds'
  BY <1>1, <1>2, <1>3, LocksRest
<1>5. \A x \in Users : Pending(x)' \subseteq Pending(x) /\ Comparing(x)' \subseteq Comparing(x)
  BY <1>3 DEF Pending, Comparing, TryLabels
<1>6. \A x \in Users : Counted(x)'
  BY <1>1, <1>5, CountedLess
<1> QED BY <1>1, <1>2, <1>4, <1>6, FinishReady, AttemptKeeps

LEMMA FailsKeeps ==
  ASSUME Inv, NEW s \in Sessions, Fails(s)
  PROVE  Inv'
<1>1. /\ UNCHANGED <<lockFrame, tokens, locks, tries, blind, requests>>
      /\ crashes < MaxCrashes /\ crashes' = crashes + 1
      /\ At(s, "idle", IdleJob)
      /\ orphaned' = IF pc[s] = "expire" THEN orphaned \cup {job[s].user} ELSE orphaned
  BY DEF Fails, Failure, lockFrame
<1>2. BoundsOK' /\ tokens' \subseteq Tokens /\ UNCHANGED lockFrame
  BY <1>1, AccountsConstants DEF Inv, BoundsOK, TablesOK
<1>3. /\ pc'[s] = "idle" /\ job'[s] = IdleJob
      /\ \A x \in Sessions \ {s} : pc'[x] = pc[x] /\ job'[x] = job[x]
  BY <1>1 DEF Inv, At
<1>4. pc[s] = "expire" => job[s].user \in Users
  BY JobTypes DEF Ready, OfUser
<1>5. LocksOK'
  BY <1>1, <1>4 DEF Inv, LocksOK
<1>6. LockoutEnds'
  BY <1>1, <1>3, <1>4 DEF Inv, LockoutEnds
<1>7. \A x \in Users : Pending(x)' \subseteq Pending(x) /\ Comparing(x)' \subseteq Comparing(x)
  BY <1>3 DEF Pending, Comparing, TryLabels
<1>8. \A x \in Users : Counted(x)'
  BY <1>1, <1>7, CountedLess
<1> QED BY <1>1, <1>2, <1>5, <1>6, <1>8, FinishReady, AttemptKeeps

\* The counter is deleted, by a login or by its expiry: nothing is counted any more.
LEMMA CounterReset ==
  ASSUME Inv, NEW u \in Users, ResetCounter(u), UNCHANGED <<requests, crashes>>,
         UNCHANGED lockFrame, tokens' \subseteq Tokens,
         pc' \in [Sessions -> Labels], job' \in [Sessions -> Job],
         \A x \in Sessions :
           \/ pc'[x] = "idle" /\ job'[x] = IdleJob /\ pc[x] \notin TryLabels
           \/ /\ pc'[x] = pc[x]
              /\ job'[x] = IF job[x].user = u THEN [job[x] EXCEPT !.counted = "no"] ELSE job[x]
  PROVE  Inv'
<1>1. /\ PowersWereGranted'
      /\ \A label \in Labels, j \in Job : Agrees(label, j) => Agrees(label, j)'
  BY PowersRest DEF lockFrame, profileVars
<1>2. TablesOK' /\ BoundsOK'
  BY DEF Inv, TablesOK, BoundsOK, lockFrame, profileVars
<1>3. /\ locks' = [locks EXCEPT ![u] = NoLock] /\ tries' = [tries EXCEPT ![u] = 0]
      /\ blind' = [blind EXCEPT ![u] = 0]
      /\ orphaned' = orphaned \ {u}
  BY DEF ResetCounter
<1>4. /\ locks \in [Users -> [count : Nat, expires : BOOLEAN]]
      /\ tries \in [Users -> Nat] /\ blind \in [Users -> Nat]
  BY DEF Inv, LocksOK
<1>5. NoLock \in [count : Nat, expires : BOOLEAN] /\ NoLock.count = 0
  BY DEF NoLock
<1>6. /\ locks' \in [Users -> [count : Nat, expires : BOOLEAN]]
      /\ tries' \in [Users -> Nat] /\ blind' \in [Users -> Nat]
      /\ locks'[u] = NoLock /\ tries'[u] = 0 /\ blind'[u] = 0
      /\ \A x \in Users \ {u} : locks'[x] = locks[x] /\ tries'[x] = tries[x] /\ blind'[x] = blind[x]
  BY <1>3, <1>4, <1>5
<1>7. ASSUME NEW x \in Sessions
      PROVE  \/ pc'[x] = "idle" /\ job'[x] = IdleJob /\ pc[x] \notin TryLabels
             \/ /\ pc'[x] = pc[x] /\ job'[x].user = job[x].user
                /\ job'[x].row = job[x].row /\ job'[x].profile = job[x].profile
                /\ job'[x].item = job[x].item /\ job'[x].given = job[x].given
                /\ job[x].user = u => job'[x].counted = "no"
                /\ job[x].user # u => job'[x] = job[x]
  <2>1. job[x] \in Job
    BY JobTypes
  <2>2. /\ [job[x] EXCEPT !.counted = "no"].user = job[x].user
        /\ [job[x] EXCEPT !.counted = "no"].row = job[x].row
        /\ [job[x] EXCEPT !.counted = "no"].profile = job[x].profile
        /\ [job[x] EXCEPT !.counted = "no"].item = job[x].item
        /\ [job[x] EXCEPT !.counted = "no"].given = job[x].given
        /\ [job[x] EXCEPT !.counted = "no"].counted = "no"
    BY <2>1 DEF Job
  <2>3. CASE pc'[x] = "idle" /\ job'[x] = IdleJob /\ pc[x] \notin TryLabels
    BY <2>3
  <2>4. CASE /\ pc'[x] = pc[x]
             /\ job'[x] = IF job[x].user = u THEN [job[x] EXCEPT !.counted = "no"] ELSE job[x]
    <3>1. CASE job[x].user = u
      BY <2>2, <2>4, <3>1
    <3>2. CASE job[x].user # u
      BY <2>4, <3>2
    <3> QED BY <3>1, <3>2
  <2> QED BY <2>3, <2>4
<1>8. SessionsReady'
  <2> SUFFICES ASSUME NEW x \in Sessions
               PROVE  (Ready(pc[x], job[x]) /\ Agrees(pc[x], job[x]))'
    BY DEF SessionsReady
  <2>1. CASE pc'[x] = "idle" /\ job'[x] = IdleJob
    BY <2>1, FinishReady DEF Ready
  <2>2. CASE /\ pc'[x] = pc[x] /\ job'[x].user = job[x].user
             /\ job'[x].row = job[x].row /\ job'[x].profile = job[x].profile
             /\ job'[x].item = job[x].item /\ job'[x].given = job[x].given
    <3>1. PICK l \in Labels, k \in Job : l = pc[x] /\ k = job[x] /\ Ready(l, k) /\ Agrees(l, k)
      BY JobTypes
    <3>2. Agrees(l, k)'
      BY <1>1, <3>1
    <3> QED BY <2>2, <3>1, <3>2 DEF Ready, Agrees
  <2> QED BY <1>7, <2>1, <2>2
<1>9. LocksOK'
  <2>1. \A x \in Users : locks'[x].count <= requests'
    BY <1>5, <1>6, CountTypes DEF Inv, LocksOK
  <2> QED BY <1>3, <1>6, <2>1 DEF Inv, LocksOK
<1>10. LockoutEnds'
  <2> SUFFICES ASSUME NEW x \in Users, locks'[x].count > 0, ~locks'[x].expires
               PROVE  x \in orphaned' \/ \E y \in Sessions : pc'[y] = "expire" /\ job'[y].user = x
    BY DEF LockoutEnds
  <2>1. x # u
    BY <1>5, <1>6
  <2>2. x \in orphaned \/ \E y \in Sessions : pc[y] = "expire" /\ job[y].user = x
    BY <1>6, <2>1 DEF Inv, LockoutEnds
  <2> QED BY <1>3, <1>7, <2>1, <2>2 DEF TryLabels
<1>11. Counted(u)'
  <2>0. IdleJob.counted = "no" /\ IdleJob.user # u
    BY AccountsConstants DEF IdleJob
  <2>1. Pending(u)' = {} /\ Comparing(u)' = {}
    BY <1>7, <2>0 DEF Pending, Comparing
  <2>2. IsFiniteSet(Pending(u)') /\ Cardinality(Pending(u)') = 0
        /\ Cardinality(Comparing(u)') = 0
    BY <2>1, FS_EmptySet
  <2> QED BY <1>5, <1>6, <2>2, CountTypes DEF Counted
<1>12. \A x \in Users \ {u} : /\ Pending(x)' \subseteq Pending(x)
                              /\ Comparing(x)' \subseteq Comparing(x)
  BY <1>7 DEF Pending, Comparing, TryLabels
<1>13. \A x \in Users : Counted(x)'
  BY <1>6, <1>11, <1>12, CountedLess
<1>14. GuessesCounted'
  BY <1>13 DEF GuessesCounted, Counted
<1> QED BY <1>1, <1>2, <1>8, <1>9, <1>10, <1>14 DEF Inv

LEMMA UncountedTypes ==
  ASSUME Inv, NEW u \in Users
  PROVE  Uncounted(u) \in [Sessions -> Job]
<1> SUFFICES ASSUME NEW x \in Sessions
             PROVE  (IF job[x].user = u THEN [job[x] EXCEPT !.counted = "no"] ELSE job[x]) \in Job
  BY DEF Uncounted
<1>1. job[x] \in Job
  BY JobTypes
<1>2. [job[x] EXCEPT !.counted = "no"] \in Job
  BY <1>1 DEF Job, Counting
<1> QED BY <1>1, <1>2

LEMMA LoginUnlockKeeps ==
  ASSUME Inv, NEW s \in Sessions, LoginUnlock(s)
  PROVE  Inv'
<1>u. PICK u \in Users : u = job[s].user
  BY JobTypes DEF LoginUnlock, Ready, OfUser
<1>1. /\ pc[s] = "unlock" /\ ResetCounter(u)
      /\ Issue(u)
      /\ pc' = [pc EXCEPT ![s] = "idle"]
      /\ job' = [Uncounted(u) EXCEPT ![s] = IdleJob]
      /\ UNCHANGED lockFrame /\ UNCHANGED <<requests, crashes>>
  BY <1>u DEF LoginUnlock
<1>2. tokens' \subseteq Tokens
  BY <1>1 DEF Issue, Inv, TablesOK, Tokens
<1>3. pc \in [Sessions -> Labels] /\ Uncounted(u) \in [Sessions -> Job]
  BY UncountedTypes DEF Inv
<1>4. pc' \in [Sessions -> Labels] /\ job' \in [Sessions -> Job]
  BY <1>1, <1>3, RowTypes DEF Labels
<1>5. ASSUME NEW x \in Sessions
      PROVE  \/ pc'[x] = "idle" /\ job'[x] = IdleJob /\ pc[x] \notin TryLabels
             \/ /\ pc'[x] = pc[x]
                /\ job'[x] = IF job[x].user = u
                             THEN [job[x] EXCEPT !.counted = "no"] ELSE job[x]
  <2>1. CASE x = s
    BY <1>1, <1>3, <2>1 DEF TryLabels
  <2>2. CASE x # s
    <3>1. pc'[x] = pc[x] /\ job'[x] = Uncounted(u)[x]
      BY <1>1, <1>3, <2>2
    <3> QED BY <3>1 DEF Uncounted
  <2> QED BY <2>1, <2>2
<1> QED BY <1>1, <1>2, <1>4, <1>5, CounterReset

LEMMA LockExpiresKeeps ==
  ASSUME Inv, NEW u \in Users, LockExpires(u)
  PROVE  Inv'
<1>1. /\ ResetCounter(u) /\ job' = Uncounted(u) /\ UNCHANGED lockFrame
      /\ tokens' = tokens /\ pc' = pc /\ UNCHANGED <<requests, crashes>>
  BY DEF LockExpires
<1>2. tokens' \subseteq Tokens /\ pc' \in [Sessions -> Labels]
  BY <1>1 DEF Inv, TablesOK
<1>3. job' \in [Sessions -> Job]
  BY <1>1, UncountedTypes
<1>4. \A x \in Sessions :
        /\ pc'[x] = pc[x]
        /\ job'[x] = IF job[x].user = u THEN [job[x] EXCEPT !.counted = "no"] ELSE job[x]
  BY <1>1 DEF Uncounted
<1> QED BY <1>1, <1>2, <1>3, <1>4, CounterReset

-----------------------------------------------------------------------------
(* The specification. *)

\* A step of no session: a token or a reset link expires.
LEMMA WorldKeeps ==
  ASSUME Inv, UNCHANGED <<users, addresses, powers, profileVars, locks, attempts>>,
         UNCHANGED <<pc, job, requests, crashes>>,
         tokens' \subseteq Tokens, resets' \in [ResetTokens -> Users \cup {None}]
  PROVE  Inv'
<1>1. /\ PowersWereGranted'
      /\ \A label \in Labels, j \in Job : Agrees(label, j) => Agrees(label, j)'
  BY PowersRest DEF profileVars
<1>2. TablesOK' /\ BoundsOK' /\ LocksOK' /\ LockoutEnds'
  BY DEF Inv, TablesOK, BoundsOK, LocksOK, LockoutEnds, profileVars
<1>3. SessionsReady'
  <2> SUFFICES ASSUME NEW x \in Sessions
               PROVE  (Ready(pc[x], job[x]) /\ Agrees(pc[x], job[x]))'
    BY DEF SessionsReady
  <2>1. PICK l \in Labels, k \in Job : l = pc[x] /\ k = job[x] /\ Ready(l, k) /\ Agrees(l, k)
    BY JobTypes
  <2>2. Agrees(l, k)'
    BY <1>1, <2>1
  <2> QED BY <2>1, <2>2 DEF Ready
<1>4. \A u \in Users : Pending(u)' = Pending(u) /\ Comparing(u)' = Comparing(u)
  BY DEF Pending, Comparing
<1>5. GuessesCounted'
  BY <1>4 DEF Inv, GuessesCounted
<1>6. pc' \in [Sessions -> Labels] /\ job' \in [Sessions -> Job]
  BY DEF Inv
<1> QED BY <1>1, <1>2, <1>3, <1>5, <1>6 DEF Inv

LEMMA TimeKeeps ==
  ASSUME Inv, Time
  PROVE  Inv'
<1>1. ASSUME NEW t \in Tokens, TokenExpires(t) PROVE Inv'
  <2>1. /\ UNCHANGED <<users, addresses, powers, profileVars, locks, attempts>>
        /\ UNCHANGED <<pc, job, requests, crashes>> /\ resets' = resets
        /\ tokens' = tokens \ {t}
    BY <1>1 DEF TokenExpires, lockFrame
  <2>2. tokens' \subseteq Tokens /\ resets' \in [ResetTokens -> Users \cup {None}]
    BY <2>1 DEF Inv, TablesOK
  <2> QED BY <2>1, <2>2, WorldKeeps
<1>2. ASSUME NEW t \in ResetTokens, ResetExpires(t) PROVE Inv'
  <2>1. /\ UNCHANGED <<users, addresses, powers, profileVars, locks, attempts>>
        /\ UNCHANGED <<pc, job, requests, crashes>> /\ tokens' = tokens
        /\ resets' = [resets EXCEPT ![t] = None]
    BY <1>2 DEF ResetExpires
  <2>2. tokens' \subseteq Tokens /\ resets' \in [ResetTokens -> Users \cup {None}]
    BY <2>1 DEF Inv, TablesOK
  <2> QED BY <2>1, <2>2, WorldKeeps
<1> QED BY <1>1, <1>2, LockExpiresKeeps DEF Time

LEMMA ClientKeeps ==
  ASSUME Inv, NEW s \in Sessions, Client(s)
  PROVE  Inv'
<1>1. CASE PostRegister(s)
  BY <1>1, RegisterReadKeeps DEF PostRegister
<1>2. CASE PostLogin(s)
  BY <1>2, LoginIncrKeeps, LoginIncrFailsKeeps DEF PostLogin
<1>3. CASE PostRefresh(s)
  BY <1>3, RefreshKeeps DEF PostRefresh
<1>4. CASE PostForgot(s)
  BY <1>4, ForgotPasswordKeeps DEF PostForgot
<1>5. CASE PostReset(s)
  BY <1>5, ResetReadKeeps DEF PostReset
<1>6. CASE PutMe(s) \/ PostApply(s) \/ PutProfile(s)
  BY <1>6, UpdateProfileKeeps DEF PutMe, PostApply, PutProfile
<1>7. CASE PutRole(s)
  BY <1>7, UpdateRoleKeeps DEF PutRole
<1>8. CASE PostAddress(s) \/ RemoveAddress(s)
  BY <1>8, AddressesKeep DEF PostAddress, RemoveAddress
<1>9. CASE PutAddress(s)
  BY <1>9, UpdateAddressKeeps DEF PutAddress
<1>10. CASE PostDocument(s) \/ RemoveMyDocument(s)
  BY <1>10, DocumentKeeps DEF PostDocument, RemoveMyDocument
<1>11. CASE PostPayout(s)
  BY <1>11, SetupPayoutKeeps DEF PostPayout
<1>12. CASE PutVerdict(s)
  BY <1>12, JudgeKeeps DEF PutVerdict, Verdicts
<1> QED BY <1>1, <1>2, <1>3, <1>4, <1>5, <1>6, <1>7, <1>8, <1>9, <1>10, <1>11, <1>12
        DEF Client

LEMMA StepsKeep ==
  ASSUME Inv, [Next]_vars
  PROVE  Inv'
<1>1. CASE UNCHANGED vars
  <2>1. /\ UNCHANGED <<users, addresses, powers, profileVars, locks, attempts>>
        /\ UNCHANGED <<pc, job, requests, crashes>>
        /\ tokens' = tokens /\ resets' = resets
    BY <1>1 DEF vars, authVars
  <2>2. tokens' \subseteq Tokens /\ resets' \in [ResetTokens -> Users \cup {None}]
    BY <2>1 DEF Inv, TablesOK
  <2> QED BY <2>1, <2>2, WorldKeeps
<1>2. ASSUME NEW s \in Sessions, Serve(s) PROVE Inv'
  <2>1. CASE RegisterInsert(s) \/ LoginExpire(s) \/ LoginGet(s) \/ LoginCompare(s)
             \/ LoginUnlock(s)
    BY <2>1, RegisterInsertKeeps, LoginExpireKeeps, LoginGetKeeps, LoginCompareKeeps,
       LoginUnlockKeeps
  <2>5. CASE LoginExpireFails(s) \/ LoginGetFails(s) \/ LoginUnlockFails(s)
    BY <2>5, LoginExpireFailsKeeps, LoginGetFailsKeeps, LoginUnlockFailsKeeps
  <2>2. CASE SaveUser(s) \/ DropToken(s) \/ SaveAddress(s)
    BY <2>2, SaveUserKeeps, DropTokenKeeps, SaveAddressKeeps
  <2>3. CASE ApplyInsert(s) \/ SaveProfile(s) \/ SaveDocument(s)
             \/ \E code \in Subaccounts : CallPaystack(s, code)
    BY <2>3, ApplyInsertKeeps, SaveProfileKeeps, SaveDocumentKeeps, CallPaystackKeeps
  <2>4. CASE SaveVerdict(s) \/ SeedInstallServices(s)
    BY <2>4, SaveVerdictKeeps, SeedKeeps
  <2> QED BY <1>2, <2>1, <2>2, <2>3, <2>4, <2>5 DEF Serve
<1>3. ASSUME NEW s \in Sessions, Client(s) \/ Fails(s) PROVE Inv'
  BY <1>3, ClientKeeps, FailsKeeps
<1> QED BY <1>1, <1>2, <1>3, TimeKeeps DEF Next

LEMMA InitInv == Init => Inv
<1> SUFFICES ASSUME Init PROVE Inv
  OBVIOUS
<1>1. TablesOK
  BY RowTypes DEF Init, NobodyYet, TablesOK
<1>2. BoundsOK
  BY AccountsConstants DEF Init, NobodyYet, BoundsOK
<1>3. pc \in [Sessions -> Labels] /\ job \in [Sessions -> Job]
  BY RowTypes DEF Init, NobodyYet, Labels
<1>4. SessionsReady
  BY FinishReady DEF Init, NobodyYet, SessionsReady
<1>5. PowersWereGranted
  BY DEF Init, PowersWereGranted, NoUser, NoProfile
<1>6. LocksOK
  BY DEF Init, NobodyYet, LocksOK, NoLock
<1>7. LockoutEnds
  BY DEF Init, NobodyYet, LockoutEnds, NoLock
<1>8. GuessesCounted
  <2> SUFFICES ASSUME NEW u \in Users
               PROVE  /\ IsFiniteSet(Pending(u))
                      /\ tries[u] + Cardinality(Pending(u)) <= locks[u].count + blind[u]
                      /\ tries[u] + Cardinality(Comparing(u)) <= LockoutAttempts + blind[u]
    BY DEF GuessesCounted
  <2>1. Pending(u) = {} /\ Comparing(u) = {}
    BY DEF Init, NobodyYet, Pending, Comparing, TryLabels
  <2>2. tries[u] = 0 /\ blind[u] = 0 /\ locks[u].count = 0
    BY DEF Init, NobodyYet, NoLock
  <2> QED BY <2>1, <2>2, FS_EmptySet, AccountsConstants
<1> QED BY <1>1, <1>2, <1>3, <1>4, <1>5, <1>6, <1>7, <1>8 DEF Inv

\* What holds of users, profiles, counters and sessions in every reachable state.
THEOREM InvHolds == Spec => []Inv
<1>1. Inv /\ [Next]_vars => Inv'
  BY StepsKeep
<1> QED BY <1>1, InitInv, PTL DEF Spec

\* TypeOK: every variable has its type; a counter counts requests, so it stays in its range.
THEOREM TypesHold == Spec => []TypeOK
<1>1. Inv => TypeOK
  <2> SUFFICES ASSUME Inv PROVE TypeOK
    OBVIOUS
  <2>1. locks \in [Users -> [count : 0 .. MaxRequests, expires : BOOLEAN]]
    <3>1. locks \in [Users -> [count : Nat, expires : BOOLEAN]]
      BY DEF Inv, LocksOK
    <3>2. \A u \in Users : locks[u].count \in 0 .. MaxRequests
      BY CountTypes DEF Inv, LocksOK, BoundsOK
    <3> QED BY <3>1, <3>2
  <2>2. job \in [Sessions ->
          [user : Users \cup {None}, row : User, profile : Profile,
           token : ResetTokens \cup {None}, counted : Counting, given : Roles \cup {"none"},
           item : Banks \cup Documents \cup Addresses \cup Passwords \cup {None}]]
    BY DEF Inv, Job, Items
  <2> QED BY <2>1, <2>2 DEF Inv, TypeOK, TablesOK, BoundsOK, LocksOK, Labels
<1> QED BY <1>1, InvHolds, PTL

\* LockoutEnds: a counter without an expiry has a session about to set one, or lost it.
THEOREM LockoutsEnd == Spec => []LockoutEnds
<1>1. Inv => LockoutEnds
  BY DEF Inv
<1> QED BY <1>1, InvHolds, PTL

\* GuessesAreLimited: however many attempts run at once, and whenever the counter goes, no
\* life of it lets more passwords be compared than the configured limit and one for each
\* attempt whose own command Redis failed.
THEOREM GuessesStayLimited == Spec => []GuessesAreLimited
<1>1. Inv => GuessesAreLimited
  BY CountTypes DEF GuessesAreLimited, Counted
<1> QED BY <1>1, InvHolds, PTL

\* PowersWereGranted: whoever was not overtaken has the role and the verdict last given,
\* whatever rows others save that they read before; what was taken back stays so.
THEOREM PowersStayGranted == Spec => []PowersWereGranted
<1>1. Inv => PowersWereGranted
  BY DEF Inv
<1> QED BY <1>1, InvHolds, PTL

=============================================================================
