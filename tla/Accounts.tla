------------------------------ MODULE Accounts ------------------------------
(***************************************************************************)
(* Accounts, groups, refresh sessions, access tokens and the kiosk PIN     *)
(* (src/core/auth), with the web routes that change them.                  *)
(*                                                                         *)
(* The program verifies and hashes passwords on a pool of threads and      *)
(* finishes the request on the event loop, so every such request is two    *)
(* actions: one that reads the stores and posts a job, one that applies    *)
(* the result to whatever the stores hold by then.                         *)
(*                                                                         *)
(* A password is right or wrong for the record that was read, which is all *)
(* the code looks at.  Secrets are numbered: the refresh token of session  *)
(* i after k rotations is <<i, k>>, and only the session knows k.          *)
(***************************************************************************)
EXTENDS Integers, FiniteSets

CONSTANTS
  Users,        \* user ids; an id is never given out twice
  Kiosk,        \* KioskService::SubjectId
  Groups,       \* group names
  AdminGroup,   \* the built-in administrators group
  Entitlements, \* the vocabulary the groups grant
  Admin,        \* system.admin
  Jobs,         \* requests that can wait for the offload pool at one time
  MaxFailures,  \* MaxFailuresPerAccount, and MaxFailures of the kiosk
  MaxSessions,  \* bound: sessions ever created
  MaxRotations, \* bound: rotations of one session
  MaxActs       \* bound: administrative requests and restarts

ASSUME AccountsAssumption ==
  /\ Kiosk \notin Users /\ IsFiniteSet(Jobs)
  /\ AdminGroup \in Groups /\ Admin \in Entitlements
  /\ MaxFailures \in Nat \ {0} /\ MaxSessions \in Nat /\ MaxRotations \in Nat /\ MaxActs \in Nat

VARIABLES
  users,    \* UserStore: id -> record, for the ids in the store
  known,    \* ids the store has ever held
  groups,   \* GroupStore: name -> entitlements, for the names in the registry
  kiosk,    \* KioskStore
  sessions, \* SessionStore
  tokens,   \* access tokens that were issued and have not expired
  lock,     \* m_Failures: failures counted, and whether the lockout runs
  pool,     \* requests waiting for the offload pool
  issued,   \* number of the newest session
  epoch,    \* history: how often all sessions of a subject were revoked
  guesses,  \* history: wrong passwords answered since the last success or lockout's end
  acts      \* bound: requests of administrators so far

accVars == <<users, known, groups, kiosk, sessions, tokens, lock, pool, issued, epoch, guesses, acts>>

Subjects == Users \cup {Kiosk}
Free == [kind |-> "free"]
BuiltIn == {AdminGroup}

\* ResolveEffectiveEntitlements: a group that is gone grants nothing
EffectiveEntitlements(gs) == UNION {groups[g] : g \in gs \cap DOMAIN groups}

\* ResolvesSystemAdmin, HasEnabledAdmin
HasEnabledAdmin(us) ==
  \E u \in DOMAIN us : ~us[u].disabled /\ Admin \in EffectiveEntitlements(us[u].groups)

WouldLoseLastAdmin(us) == HasEnabledAdmin(users) /\ ~HasEnabledAdmin(us)

-----------------------------------------------------------------------------
(* What a credential stands for                                            *)

\* ResolveJwt
Resolves(t) ==
  IF t.sub = Kiosk
  THEN kiosk.on /\ kiosk.tokver = t.tokver
  ELSE t.sub \in DOMAIN users /\ ~users[t.sub].disabled /\ users[t.sub].tokver = t.tokver

\* MintAccessToken: the current record, and the snapshot if the user is gone
MintAccessToken(u, snapshot, at, raced) ==
  LET record == IF u \in DOMAIN users THEN users[u] ELSE snapshot
  IN [sub |-> u, tokver |-> record.tokver, ents |-> EffectiveEntitlements(record.groups), at |-> at, raced |-> raced]

MintKioskToken(at, raced) ==
  [sub |-> Kiosk, tokver |-> kiosk.tokver, ents |-> EffectiveEntitlements({kiosk.group}), at |-> at, raced |-> raced]

-----------------------------------------------------------------------------
(* The session store                                                       *)

\* Create: the first refresh token of session i is <<i, 0>>
\* a mutant of it: the number of a session is used again
CreateSameSession(u, at, raced) ==
  /\ issued < MaxSessions
  /\ issued' = IF issued = 0 THEN 1 ELSE issued
  /\ sessions' = sessions \cup {[id |-> 1, sub |-> u, gen |-> 0, at |-> at, raced |-> raced]}

CreateSession(u, at, raced) ==
  /\ issued < MaxSessions
  /\ issued' = issued + 1
  /\ sessions' = sessions \cup {[id |-> issued + 1, sub |-> u, gen |-> 0, at |-> at, raced |-> raced]}

SessionsOf(u) == {s \in sessions : s.sub = u}

\* RevokeAllForUser, with the history of it
RevokeAllForUser(u) ==
  /\ sessions' = sessions \ SessionsOf(u)
  /\ epoch' = [epoch EXCEPT ![u] = @ + 1]

Bump(us, u) == [us EXCEPT ![u].tokver = @ + 1]

-----------------------------------------------------------------------------
(* Lockout                                                                 *)

\* RecordFailure
RecordFailure(u) ==
  LET count == lock[u].count + 1
      failed == IF count >= MaxFailures
                THEN [count |-> IF u = Kiosk THEN count ELSE 0, locked |-> TRUE]
                ELSE [count |-> count, locked |-> lock[u].locked]
  IN /\ lock' = [lock EXCEPT ![u] = failed]
     /\ guesses' = [guesses EXCEPT ![u] = @ + 1]

ClearFailures(u) ==
  /\ lock' = [lock EXCEPT ![u] = [count |-> 0, locked |-> FALSE]]
  /\ guesses' = [guesses EXCEPT ![u] = 0]

\* IsLockedOut finds the window elapsed
LockoutEnds(u) ==
  /\ lock[u].locked
  /\ ClearFailures(u)
  /\ UNCHANGED <<users, known, groups, kiosk, sessions, tokens, pool, issued, epoch, acts>>

-----------------------------------------------------------------------------
(* Requests that wait for the offload pool                                 *)

Post(j, job) == pool[j] = Free /\ pool' = [pool EXCEPT ![j] = job]
Done(j) == pool' = [pool EXCEPT ![j] = Free]

NoRecord == [tokver |-> 0, groups |-> {}, disabled |-> TRUE, setup |-> FALSE]

\* a mutant of it: the lockout is not tested
LoginAnyway(j, u, right) ==
  /\ right => u \in DOMAIN users /\ ~users[u].disabled
  /\ Post(j, [kind |-> "login", sub |-> u, ok |-> right, at |-> epoch[u],
              user |-> IF u \in DOMAIN users THEN users[u] ELSE NoRecord])
  /\ UNCHANGED <<users, known, groups, kiosk, sessions, tokens, lock, issued, epoch, guesses, acts>>

\* Login: an unknown or disabled account verifies against a decoy and fails
Login(j, u, right) ==
  LET usable == u \in DOMAIN users /\ ~users[u].disabled IN
  /\ ~lock[u].locked
  /\ right => usable
  /\ Post(j, [kind |-> "login", sub |-> u, ok |-> right, at |-> epoch[u],
              user |-> IF u \in DOMAIN users THEN users[u] ELSE NoRecord])
  /\ UNCHANGED <<users, known, groups, kiosk, sessions, tokens, lock, issued, epoch, guesses, acts>>

\* the completion of Login, and FinishLogin
LoginVerified(j) ==
  /\ pool[j].kind = "login"
  /\ LET u == pool[j].sub
         raced == pool[j].at # epoch[u]
     IN IF pool[j].ok
        THEN /\ CreateSession(u, pool[j].at, raced)
             /\ tokens' = tokens \cup {MintAccessToken(u, pool[j].user, pool[j].at, raced)}
             /\ ClearFailures(u)
        ELSE RecordFailure(u) /\ UNCHANGED <<sessions, issued, tokens>>
  /\ Done(j)
  /\ UNCHANGED <<users, known, groups, kiosk, epoch, acts>>

LoginWithPin(j, right) ==
  /\ ~lock[Kiosk].locked
  /\ right => kiosk.on
  /\ Post(j, [kind |-> "pin", ok |-> right, at |-> epoch[Kiosk]])
  /\ UNCHANGED <<users, known, groups, kiosk, sessions, tokens, lock, issued, epoch, guesses, acts>>

\* HandlePinVerified: nothing asks again whether the kiosk is still enabled
PinVerified(j) ==
  /\ pool[j].kind = "pin"
  /\ LET raced == pool[j].at # epoch[Kiosk]
     IN IF pool[j].ok
        THEN /\ CreateSession(Kiosk, pool[j].at, raced)
             /\ tokens' = tokens \cup {MintKioskToken(pool[j].at, raced)}
             /\ ClearFailures(Kiosk)
        ELSE RecordFailure(Kiosk) /\ UNCHANGED <<sessions, issued, tokens>>
  /\ Done(j)
  /\ UNCHANGED <<users, known, groups, kiosk, epoch, acts>>

\* a new account, with the id of a user that never existed
AddUser(u, gs, setup) ==
  /\ u \in Users \ known
  /\ users' = [x \in DOMAIN users \cup {u} |->
                 IF x = u THEN [tokver |-> 1, groups |-> gs, disabled |-> FALSE, setup |-> setup] ELSE users[x]]
  /\ known' = known \cup {u}

\* the first-run setup: refused while there is any user
Setup(j) ==
  /\ users = <<>> /\ acts < MaxActs
  /\ acts' = acts + 1
  /\ Post(j, [kind |-> "setup"])
  /\ UNCHANGED <<users, known, groups, kiosk, sessions, tokens, lock, issued, epoch, guesses>>

\* a mutant of it: the store is not asked again
SetupHashedAnyway(j) ==
  /\ pool[j].kind = "setup"
  /\ \E u \in Users : AddUser(u, {AdminGroup}, TRUE)
  /\ Done(j)
  /\ UNCHANGED <<groups, kiosk, sessions, tokens, lock, issued, epoch, guesses, acts>>

\* BootstrapAdminWithHash asks again
SetupHashed(j) ==
  /\ pool[j].kind = "setup"
  /\ IF users = <<>> THEN \E u \in Users : AddUser(u, {AdminGroup}, TRUE) ELSE UNCHANGED <<users, known>>
  /\ Done(j)
  /\ UNCHANGED <<groups, kiosk, sessions, tokens, lock, issued, epoch, guesses, acts>>

\* PUT users/{id}/password
ChangePassword(j, u) ==
  /\ u \in DOMAIN users /\ acts < MaxActs
  /\ acts' = acts + 1
  /\ Post(j, [kind |-> "password", sub |-> u])
  /\ UNCHANGED <<users, known, groups, kiosk, sessions, tokens, lock, issued, epoch, guesses>>

\* a mutant of it: the sweep of the sessions is left out
ApplyPasswordChangeOnly(j) ==
  /\ pool[j].kind = "password"
  /\ LET u == pool[j].sub IN
     IF u \in DOMAIN users
     THEN users' = Bump(users, u) /\ epoch' = [epoch EXCEPT ![u] = @ + 1] /\ UNCHANGED sessions
     ELSE UNCHANGED <<users, sessions, epoch>>
  /\ Done(j)
  /\ UNCHANGED <<known, groups, kiosk, tokens, lock, issued, guesses, acts>>

ApplyPasswordChange(j) ==
  /\ pool[j].kind = "password"
  /\ LET u == pool[j].sub IN
     IF u \in DOMAIN users
     THEN users' = Bump(users, u) /\ RevokeAllForUser(u)
     ELSE UNCHANGED <<users, sessions, epoch>>
  /\ Done(j)
  /\ UNCHANGED <<known, groups, kiosk, tokens, lock, issued, guesses, acts>>

SetPin(j, g) ==
  /\ g \in DOMAIN groups /\ acts < MaxActs
  /\ acts' = acts + 1
  /\ Post(j, [kind |-> "setpin", group |-> g])
  /\ UNCHANGED <<users, known, groups, kiosk, sessions, tokens, lock, issued, epoch, guesses>>

\* KioskStore::Configure and the sweep of the kiosk's sessions
PinHashed(j) ==
  /\ pool[j].kind = "setpin"
  /\ kiosk' = [on |-> TRUE, group |-> pool[j].group, tokver |-> kiosk.tokver + 1]
  /\ RevokeAllForUser(Kiosk)
  /\ Done(j)
  /\ UNCHANGED <<users, known, groups, tokens, lock, issued, guesses, acts>>

-----------------------------------------------------------------------------
(* Requests answered at once                                               *)

Act == acts < MaxActs /\ acts' = acts + 1

\* POST users, after the hash: nothing it checks changes the other records
CreateUser ==
  /\ users # <<>> /\ Act
  /\ \E u \in Users, gs \in SUBSET DOMAIN groups : AddUser(u, gs, FALSE)
  /\ UNCHANGED <<groups, kiosk, sessions, tokens, lock, pool, issued, epoch, guesses>>

\* Rotate and Refresh: <<i, k>> is honoured while it is the current token,
\* and as the previous one it ends the session
Refresh(i, k) ==
  /\ \E s \in sessions :
       /\ s.id = i
       /\ \/ /\ k = s.gen /\ s.gen < MaxRotations
             /\ IF s.sub \in DOMAIN users /\ ~users[s.sub].disabled
                THEN /\ sessions' = (sessions \ {s}) \cup {[s EXCEPT !.gen = @ + 1]}
                     /\ tokens' = tokens \cup {MintAccessToken(s.sub, NoRecord, s.at, s.raced)}
                ELSE sessions' = sessions \ {s} /\ UNCHANGED tokens
          \/ /\ k = s.gen - 1
             /\ sessions' = sessions \ {s} /\ UNCHANGED tokens
  /\ UNCHANGED <<users, known, groups, kiosk, lock, pool, issued, epoch, guesses, acts>>

\* Logout, DELETE sessions/{id}, and the expiry found by Rotate or PruneExpired
EndSession(s) ==
  /\ sessions' = sessions \ {s}
  /\ UNCHANGED <<users, known, groups, kiosk, tokens, lock, pool, issued, epoch, guesses, acts>>

\* the lifetime of an access token ends
ExpireToken(t) ==
  /\ tokens' = tokens \ {t}
  /\ UNCHANGED <<users, known, groups, kiosk, sessions, lock, pool, issued, epoch, guesses, acts>>

LogoutAll(u) ==
  /\ Act
  /\ users' = Bump(users, u)
  /\ RevokeAllForUser(u)
  /\ UNCHANGED <<known, groups, kiosk, tokens, lock, pool, issued, guesses>>

\* PUT users/{id}: the fields, then the token version, then the disabling,
\* each refused on its own if it took the last administrator away
PutUser(u, gs, disable) ==
  LET current == users[u]
      updated == [current EXCEPT !.groups = gs, !.disabled = @ /\ disable]
      fields == [users EXCEPT ![u] = updated]
      bumped == IF gs # current.groups THEN Bump(fields, u) ELSE fields
      off == [bumped EXCEPT ![u].disabled = TRUE]
  IN /\ Act
     /\ ~WouldLoseLastAdmin(fields)
     /\ IF disable /\ ~current.disabled /\ (HasEnabledAdmin(off) \/ ~HasEnabledAdmin(bumped))
        THEN users' = Bump(off, u) /\ RevokeAllForUser(u)
        ELSE users' = bumped /\ UNCHANGED <<sessions, epoch>>
     /\ UNCHANGED <<known, groups, kiosk, tokens, lock, pool, issued, guesses>>

DeleteUser(u) ==
  LET rest == [x \in DOMAIN users \ {u} |-> users[x]] IN
  /\ Act
  /\ ~WouldLoseLastAdmin(rest)
  /\ users' = rest
  /\ RevokeAllForUser(u)
  /\ UNCHANGED <<known, groups, kiosk, tokens, lock, pool, issued, guesses>>

\* a mutant of it: nobody's tokens go stale
BumpNobody(g) == users

\* members of a group whose entitlements changed
BumpMembers(g) == [u \in DOMAIN users |-> IF g \in users[u].groups THEN [users[u] EXCEPT !.tokver = @ + 1] ELSE users[u]]

\* POST groups
UpsertGroup(g, ents) ==
  /\ Act
  /\ users' = IF g \in DOMAIN groups /\ groups[g] = ents THEN users ELSE BumpMembers(g)
  /\ groups' = [x \in DOMAIN groups \cup {g} |-> IF x = g THEN ents ELSE groups[x]]
  /\ UNCHANGED <<known, kiosk, sessions, tokens, lock, pool, issued, epoch, guesses>>

\* DELETE groups/{name}
DeleteGroup(g) ==
  /\ Act
  /\ g \in DOMAIN groups \ BuiltIn
  /\ groups' = [x \in DOMAIN groups \ {g} |-> groups[x]]
  /\ users' = BumpMembers(g)
  /\ UNCHANGED <<known, kiosk, sessions, tokens, lock, pool, issued, epoch, guesses>>

ClearPin ==
  /\ Act
  /\ kiosk' = [kiosk EXCEPT !.on = FALSE, !.tokver = @ + 1]
  /\ RevokeAllForUser(Kiosk)
  /\ UNCHANGED <<users, known, groups, tokens, lock, pool, issued, guesses>>

\* The process restarts.  Every store saved itself at the end of each
\* operation; the lockouts and the requests in flight are lost.
Restart ==
  /\ Act
  /\ pool' = [j \in Jobs |-> Free]
  /\ lock' = [u \in Subjects |-> [count |-> 0, locked |-> FALSE]]
  /\ guesses' = [u \in Subjects |-> 0]
  /\ UNCHANGED <<users, known, groups, kiosk, sessions, tokens, issued, epoch>>

-----------------------------------------------------------------------------
AccInit ==
  /\ users = <<>> /\ known = {}
  /\ groups = [g \in BuiltIn |-> {Admin}]
  /\ kiosk = [on |-> FALSE, group |-> AdminGroup, tokver |-> 1]
  /\ sessions = {} /\ tokens = {}
  /\ lock = [u \in Subjects |-> [count |-> 0, locked |-> FALSE]]
  /\ pool = [j \in Jobs |-> Free]
  /\ issued = 0
  /\ epoch = [u \in Subjects |-> 0]
  /\ guesses = [u \in Subjects |-> 0]
  /\ acts = 0

AccNext ==
  \/ \E j \in Jobs :
       \/ \E u \in Users, right \in BOOLEAN : Login(j, u, right)
       \/ \E right \in BOOLEAN : LoginWithPin(j, right)
       \/ LoginVerified(j) \/ PinVerified(j)
       \/ Setup(j) \/ SetupHashed(j)
       \/ \E u \in Users : ChangePassword(j, u)
       \/ ApplyPasswordChange(j)
       \/ \E g \in Groups : SetPin(j, g)
       \/ PinHashed(j)
  \/ CreateUser
  \/ \E i \in 1..MaxSessions, k \in 0..MaxRotations : Refresh(i, k)
  \/ \E s \in sessions : EndSession(s)
  \/ \E t \in tokens : ExpireToken(t)
  \/ \E u \in DOMAIN users : LogoutAll(u) \/ DeleteUser(u)
  \/ \E u \in DOMAIN users, gs \in SUBSET DOMAIN groups, disable \in BOOLEAN : PutUser(u, gs, disable)
  \/ \E g \in Groups, ents \in SUBSET Entitlements : UpsertGroup(g, ents)
  \/ \E g \in Groups : DeleteGroup(g)
  \/ ClearPin
  \/ \E u \in Subjects : LockoutEnds(u)
  \/ Restart

AccSpec == AccInit /\ [][AccNext]_accVars

-----------------------------------------------------------------------------
(* Properties                                                              *)

Record == [tokver : Nat, groups : SUBSET Groups, disabled : BOOLEAN, setup : BOOLEAN]
Job ==
  {Free, [kind |-> "setup"]}
  \cup [kind : {"login"}, sub : Users, ok : BOOLEAN, at : Nat, user : Record]
  \cup [kind : {"pin"}, ok : BOOLEAN, at : Nat]
  \cup [kind : {"password"}, sub : Users]
  \cup [kind : {"setpin"}, group : Groups]

\* The stores hold what their files can hold: records of known ids, distinct
\* sessions no newer than the newest one, and jobs of the six kinds.
AccTypeOK ==
  /\ known \subseteq Users /\ DOMAIN users \subseteq known
  /\ \A u \in DOMAIN users : users[u] \in Record
  /\ DOMAIN groups \subseteq Groups /\ BuiltIn \subseteq DOMAIN groups
  /\ \A g \in DOMAIN groups : groups[g] \subseteq Entitlements
  /\ kiosk \in [on : BOOLEAN, group : Groups, tokver : Nat]
  /\ issued \in 0..MaxSessions
  /\ sessions \subseteq [id : 1..issued, sub : Subjects, gen : 0..MaxRotations, at : Nat, raced : BOOLEAN]
  /\ \A s, r \in sessions : s.id = r.id => s = r
  /\ tokens \subseteq [sub : Subjects, tokver : Nat, ents : SUBSET Entitlements, at : Nat, raced : BOOLEAN]
  /\ lock \in [Subjects -> [count : Nat, locked : BOOLEAN]]
  /\ pool \in [Jobs -> Job]
  /\ epoch \in [Subjects -> Nat] /\ guesses \in [Subjects -> Nat] /\ acts \in 0..MaxActs

\* An access token that still resolves carries exactly the entitlements its
\* user has now: every route that changes a grant, a membership or a group
\* bumps the token version of every user it touches (the comments "D15
\* immediate propagation"), and tokens are minted from the current record.
EntitlementsCurrent ==
  \A t \in tokens : t.sub \in Users /\ Resolves(t) => t.ents = EffectiveEntitlements(users[t.sub].groups)

\* When all sessions of a subject are revoked (password change, log out
\* everywhere, disabling, deletion, a new kiosk PIN), no session and no token
\* from before lives on, except those of a login whose password was being
\* verified on the offload pool at that moment (Login copies the record, and
\* FinishLogin does not look at it again).
RevokedStaysRevoked ==
  /\ \A s \in sessions : s.at = epoch[s.sub] \/ s.raced
  /\ \A t \in tokens : Resolves(t) => t.at = epoch[t.sub] \/ t.raced

\* Failures are counted when a verification ends and the lockout is tested
\* when one starts: an account answers at most MaxFailures wrong passwords
\* per lockout, and the ones that were in flight when the lockout began.
GuessesBounded == \A u \in Subjects : guesses[u] <= MaxFailures - 1 + Cardinality(Jobs)

\* Two first-run setups that hash their passwords at the same time create
\* one administrator: the second finds the store no longer empty.
OneSetup == Cardinality({u \in DOMAIN users : users[u].setup}) <= 1

\* "Last-admin protection: cannot delete/disable the last system.admin holder
\* or remove their admin grant" (docs/auth-redesign.md).  The user store keeps
\* to it; an edit of the group that grants it does not ask.
AdminRemains == [][HasEnabledAdmin(users) => HasEnabledAdmin(users)']_accVars

\* What was revoked is revoked, guesses are bounded and the first setup is
\* the only one, in every order of requests and finished password hashes.
AccountsSafe == AccTypeOK /\ RevokedStaysRevoked /\ GuessesBounded /\ OneSetup
=============================================================================
