--------------------------- MODULE AccountsProofs ---------------------------
(***************************************************************************)
(* Proofs about Accounts, for any users, groups, entitlements and number   *)
(* of requests in flight: an access token that resolves carries what its   *)
(* user may do now, and what was revoked stays revoked.                    *)
(*                                                                         *)
(* Neither is inductive: a token of a user whose version has moved on says *)
(* nothing, so the invariant (FreshTokens) is about every token of the     *)
(* current version, resolvable or not, and none may be of a later one.     *)
(* Ids are never given out twice, so a token of a deleted user, or of a    *)
(* login that completes after the deletion, never resolves again.          *)
(***************************************************************************)
EXTENDS Accounts, FiniteSetTheorems, TLAPS

UserType ==
  /\ known \subseteq Users /\ DOMAIN users \subseteq known
  /\ \A u \in DOMAIN users : users[u] \in Record

GroupType ==
  /\ DOMAIN groups \subseteq Groups /\ BuiltIn \subseteq DOMAIN groups
  /\ \A g \in DOMAIN groups : groups[g] \subseteq Entitlements

KioskType == kiosk \in [on : BOOLEAN, group : Groups, tokver : Nat]

PoolType == pool \in [Jobs -> Job]

EpochType == epoch \in [Subjects -> Nat]

-----------------------------------------------------------------------------
(* Which requests change which store.                                      *)

Asks(j) ==
  \/ \E u \in Users, right \in BOOLEAN : Login(j, u, right)
  \/ \E right \in BOOLEAN : LoginWithPin(j, right)
  \/ Setup(j)
  \/ \E u \in Users : ChangePassword(j, u)
  \/ \E g \in Groups : SetPin(j, g)

EditsUsers ==
  \/ CreateUser
  \/ \E u \in DOMAIN users : LogoutAll(u) \/ DeleteUser(u)
  \/ \E u \in DOMAIN users, gs \in SUBSET DOMAIN groups, disable \in BOOLEAN :
        PutUser(u, gs, disable)

EditsGroups ==
  \/ \E g \in Groups, ents \in SUBSET Entitlements : UpsertGroup(g, ents)
  \/ \E g \in Groups : DeleteGroup(g)

(* What a session, a token or a lock does in the course of time.           *)
Ages ==
  \/ \E i \in 1 .. MaxSessions, k \in 0 .. MaxRotations : Refresh(i, k)
  \/ \E s \in sessions : EndSession(s)
  \/ \E t \in tokens : ExpireToken(t)
  \/ \E u \in Subjects : LockoutEnds(u)
  \/ Restart

LEMMA NextKinds ==
  ASSUME [AccNext]_accVars
  PROVE  \/ \E j \in Jobs : \/ Asks(j) \/ LoginVerified(j) \/ PinVerified(j) \/ SetupHashed(j)
                            \/ ApplyPasswordChange(j) \/ PinHashed(j)
         \/ EditsUsers \/ EditsGroups \/ ClearPin \/ Ages
         \/ UNCHANGED accVars
BY Zenon DEF AccNext, Asks, EditsUsers, EditsGroups, Ages

LEMMA AskingOnlyPosts ==
  ASSUME NEW j \in Jobs, Asks(j)
  PROVE  UNCHANGED <<users, known, groups, kiosk, sessions, tokens, lock, issued, epoch, guesses>>
BY Zenon DEF Asks, Login, LoginWithPin, Setup, ChangePassword, SetPin

LEMMA AgesKeeps ==
  ASSUME Ages
  PROVE  UNCHANGED <<users, known, groups, kiosk, epoch>>
BY Zenon DEF Ages, Refresh, EndSession, ExpireToken, LockoutEnds, Restart

LEMMA EditsGroupsKeeps ==
  ASSUME EditsGroups
  PROVE  UNCHANGED <<known, kiosk, sessions, tokens, lock, pool, issued, epoch, guesses>>
BY Zenon DEF EditsGroups, UpsertGroup, DeleteGroup

LEMMA EditsUsersKeeps ==
  ASSUME EditsUsers
  PROVE  UNCHANGED <<groups, kiosk, tokens, lock, pool, issued, guesses>>
<1>1. ASSUME NEW u, NEW gs, NEW disable, PutUser(u, gs, disable)
      PROVE  UNCHANGED <<groups, kiosk, tokens, lock, pool, issued, guesses>>
  BY <1>1 DEF PutUser
<1>2. ASSUME NEW u, LogoutAll(u) \/ DeleteUser(u)
      PROVE  UNCHANGED <<groups, kiosk, tokens, lock, pool, issued, guesses>>
  BY <1>2 DEF LogoutAll, DeleteUser
<1> QED BY <1>1, <1>2 DEF EditsUsers, CreateUser
-----------------------------------------------------------------------------
(* Users, and how far a step may move them.                                *)

(* A record the step does not outdate: the same version, the same grants,  *)
(* no revocation.                                                          *)
Unmoved(u) ==
  /\ users'[u].tokver = users[u].tokver
  /\ EffectiveEntitlements(users[u].groups)' = EffectiveEntitlements(users[u].groups)
  /\ epoch'[u] = epoch[u]

UserStep ==
  /\ known \subseteq known'
  /\ \A u \in DOMAIN users' :
        \/ u \notin known /\ (users'[u].setup => DOMAIN users' = {u})
        \/ /\ u \in DOMAIN users /\ users'[u].setup = users[u].setup
           /\ users'[u].tokver > users[u].tokver \/ Unmoved(u)

LEMMA BumpBumps ==
  ASSUME NEW us, \A x \in DOMAIN us : us[x] \in Record, NEW u \in DOMAIN us
  PROVE  /\ DOMAIN Bump(us, u) = DOMAIN us
         /\ Bump(us, u)[u] \in Record /\ Bump(us, u)[u].tokver = us[u].tokver + 1
         /\ Bump(us, u)[u].setup = us[u].setup
         /\ \A x \in DOMAIN us \ {u} : Bump(us, u)[x] = us[x]
<1>1. us[u] \in Record
  OBVIOUS
<1>2. Bump(us, u)[u] = [us[u] EXCEPT !.tokver = @ + 1] /\ DOMAIN Bump(us, u) = DOMAIN us
  BY DEF Bump
<1>3. [us[u] EXCEPT !.tokver = @ + 1] \in Record
      /\ [us[u] EXCEPT !.tokver = @ + 1].tokver = us[u].tokver + 1
      /\ [us[u] EXCEPT !.tokver = @ + 1].setup = us[u].setup
  BY <1>1 DEF Record
<1>4. \A x \in DOMAIN us \ {u} : Bump(us, u)[x] = us[x]
  BY DEF Bump
<1> QED BY <1>2, <1>3, <1>4

LEMMA AddUserStep ==
  ASSUME UserType, NEW u, NEW gs \in SUBSET Groups, NEW setup \in BOOLEAN,
         AddUser(u, gs, setup), setup => DOMAIN users = {}, UNCHANGED <<groups, epoch>>
  PROVE  UserType' /\ UserStep
<1> DEFINE new == [tokver |-> 1, groups |-> gs, disabled |-> FALSE, setup |-> setup]
<1>1. new \in Record /\ new.setup = setup
  BY DEF Record
<1>2. /\ u \in Users \ known /\ known' = known \cup {u}
      /\ users' = [x \in DOMAIN users \cup {u} |-> IF x = u THEN new ELSE users[x]]
  BY DEF AddUser
<1> HIDE DEF new
<1>3. \A x \in DOMAIN users : x # u /\ x \in DOMAIN users' /\ users'[x] = users[x]
  BY <1>2 DEF UserType
<1>4. UserType'
  BY <1>1, <1>2, <1>3 DEF UserType
<1>5. \A x \in DOMAIN users : Unmoved(x)
  BY <1>3 DEF Unmoved, EffectiveEntitlements
<1>6. \A x \in DOMAIN users' : x = u \/ x \in DOMAIN users
  BY <1>2
<1>7. users'[u].setup => DOMAIN users' = {u}
  BY <1>1, <1>2
<1> QED BY <1>2, <1>3, <1>4, <1>5, <1>6, <1>7 DEF UserStep

(* The step changes one record, and outdates it unless it is Unmoved.      *)
LEMMA OneMoves ==
  ASSUME UserType, UNCHANGED <<known, groups>>, NEW u \in DOMAIN users,
         DOMAIN users' = DOMAIN users, users'[u] \in Record, users'[u].setup = users[u].setup,
         \A x \in DOMAIN users \ {u} : users'[x] = users[x] /\ epoch'[x] = epoch[x],
         \/ users'[u].tokver > users[u].tokver
         \/ /\ users'[u].tokver = users[u].tokver /\ users'[u].groups = users[u].groups
            /\ epoch'[u] = epoch[u]
  PROVE  UserType' /\ UserStep
<1>1. UserType'
  BY DEF UserType
<1>2. \A x \in DOMAIN users \ {u} : Unmoved(x)
  BY DEF Unmoved, EffectiveEntitlements
<1>3. users'[u].tokver > users[u].tokver \/ Unmoved(u)
  BY DEF Unmoved, EffectiveEntitlements
<1> QED BY <1>1, <1>2, <1>3 DEF UserStep

LEMMA RevokeOthers ==
  ASSUME UserType, EpochType, NEW u \in Subjects, RevokeAllForUser(u)
  PROVE  /\ \A x \in DOMAIN users \ {u} : epoch'[x] = epoch[x]
         /\ \A x \in Subjects \ {u} : epoch'[x] = epoch[x]
         /\ EpochType'
BY DEF UserType, EpochType, Subjects, RevokeAllForUser

(* A bump moves the version of one user on, whatever else it changes.      *)
LEMMA BumpStep ==
  ASSUME UserType, NEW u \in DOMAIN users, users' = Bump(users, u),
         UNCHANGED <<known, groups>>, \A x \in DOMAIN users \ {u} : epoch'[x] = epoch[x]
  PROVE  UserType' /\ UserStep
<1>0. users[u].tokver \in Nat
  BY DEF UserType, Record
<1>1. /\ DOMAIN users' = DOMAIN users /\ users'[u] \in Record
      /\ users'[u].tokver > users[u].tokver /\ users'[u].setup = users[u].setup
      /\ \A x \in DOMAIN users \ {u} : users'[x] = users[x]
  BY <1>0, BumpBumps DEF UserType
<1> QED BY <1>1, OneMoves

LEMMA PutUserStep ==
  ASSUME UserType, GroupType, EpochType, NEW u \in DOMAIN users,
         NEW gs \in SUBSET DOMAIN groups, NEW disable \in BOOLEAN, PutUser(u, gs, disable)
  PROVE  UserType' /\ UserStep
<1> DEFINE current == users[u]
           updated == [current EXCEPT !.groups = gs, !.disabled = @ /\ disable]
           fields == [users EXCEPT ![u] = updated]
           bumped == IF gs # current.groups THEN Bump(fields, u) ELSE fields
           off == [bumped EXCEPT ![u].disabled = TRUE]
<1>1. current \in Record /\ u \in Subjects
  BY DEF UserType, Subjects
<1>2. /\ updated \in Record /\ updated.tokver = current.tokver /\ updated.groups = gs
      /\ updated.setup = current.setup
  <2>1. gs \in SUBSET Groups
    BY DEF GroupType
  <2> DEFINE d == current.disabled /\ disable
  <2>2. d \in BOOLEAN
    OBVIOUS
  <2>3. updated = [current EXCEPT !.groups = gs, !.disabled = d]
    OBVIOUS
  <2> HIDE DEF d, updated
  <2> QED BY <1>1, <2>1, <2>2, <2>3 DEF Record
<1>3. /\ DOMAIN fields = DOMAIN users /\ fields[u] = updated
      /\ \A x \in DOMAIN users \ {u} : fields[x] = users[x]
      /\ \A x \in DOMAIN fields : fields[x] \in Record
  BY <1>2 DEF UserType
<1> HIDE DEF updated, fields
<1>4. /\ DOMAIN bumped = DOMAIN users /\ bumped[u] \in Record
      /\ bumped[u].setup = current.setup
      /\ \A x \in DOMAIN users \ {u} : bumped[x] = users[x]
      /\ \/ bumped[u].tokver > current.tokver
         \/ bumped[u].tokver = current.tokver /\ bumped[u].groups = current.groups
  <2>1. CASE gs # current.groups
    <3>1. updated.tokver + 1 > current.tokver
      BY <1>1, <1>2 DEF Record
    <3>2. u \in DOMAIN fields
      BY <1>3
    <3>3. /\ DOMAIN Bump(fields, u) = DOMAIN fields
          /\ Bump(fields, u)[u] \in Record /\ Bump(fields, u)[u].tokver = fields[u].tokver + 1
          /\ Bump(fields, u)[u].setup = fields[u].setup
          /\ \A x \in DOMAIN fields \ {u} : Bump(fields, u)[x] = fields[x]
      BY <1>3, <3>2, BumpBumps, Zenon
    <3>4. bumped = Bump(fields, u)
      BY <2>1
    <3> QED BY <1>2, <1>3, <3>1, <3>3, <3>4
  <2>2. CASE gs = current.groups
    BY <1>2, <1>3, <2>2
  <2> QED BY <2>1, <2>2
<1>5. bumped[u].tokver \in Nat /\ current.tokver \in Nat
  BY <1>1, <1>4 DEF Record
<1> HIDE DEF bumped
<1>6. /\ DOMAIN off = DOMAIN users
      /\ off[u] = [bumped[u] EXCEPT !.disabled = TRUE]
      /\ \A x \in DOMAIN users \ {u} : off[x] = users[x]
  BY <1>4
<1>7. off[u] \in Record /\ off[u].tokver = bumped[u].tokver /\ off[u].setup = current.setup
  BY <1>4, <1>6 DEF Record
<1>8. \A x \in DOMAIN off : off[x] \in Record
  BY <1>6, <1>7 DEF UserType
<1>9. /\ UNCHANGED <<known, groups>>
      /\ \/ users' = Bump(off, u) /\ RevokeAllForUser(u)
         \/ users' = bumped /\ UNCHANGED epoch
  BY DEF PutUser, bumped, fields, updated
<1> HIDE DEF off
<1>10. CASE users' = Bump(off, u) /\ RevokeAllForUser(u)
  <2>1. \A x \in DOMAIN users \ {u} : epoch'[x] = epoch[x]
    BY <1>1, <1>10, RevokeOthers
  <2>2. /\ DOMAIN users' = DOMAIN users /\ users'[u] \in Record
        /\ users'[u].tokver = bumped[u].tokver + 1 /\ users'[u].setup = current.setup
        /\ \A x \in DOMAIN users \ {u} : users'[x] = users[x]
    <3>1. /\ DOMAIN Bump(off, u) = DOMAIN off /\ Bump(off, u)[u] \in Record
          /\ Bump(off, u)[u].tokver = off[u].tokver + 1
          /\ Bump(off, u)[u].setup = off[u].setup
          /\ \A x \in DOMAIN off \ {u} : Bump(off, u)[x] = off[x]
      <4>1. u \in DOMAIN off
        BY <1>6
      <4> QED BY <1>8, <4>1, BumpBumps, Zenon
    <3> QED BY <1>6, <1>7, <1>10, <3>1
  <2>3. users'[u].tokver > users[u].tokver /\ users'[u].setup = users[u].setup
    BY <1>4, <1>5, <2>2
  <2> HIDE DEF current
  <2> QED BY <1>9, <2>1, <2>2, <2>3, OneMoves
<1>11. CASE users' = bumped /\ UNCHANGED epoch
  BY <1>4, <1>9, <1>11, OneMoves
<1> QED BY <1>9, <1>10, <1>11
LEMMA DeleteUserStep ==
  ASSUME UserType, EpochType, NEW u \in DOMAIN users, DeleteUser(u)
  PROVE  UserType' /\ UserStep
<1>1. /\ users' = [x \in DOMAIN users \ {u} |-> users[x]]
      /\ UNCHANGED <<known, groups>> /\ RevokeAllForUser(u)
  BY DEF DeleteUser
<1>2. /\ DOMAIN users' = DOMAIN users \ {u}
      /\ \A x \in DOMAIN users' : users'[x] = users[x]
  BY <1>1
<1>3. \A x \in DOMAIN users' : epoch'[x] = epoch[x]
  BY <1>1, <1>2, RevokeOthers DEF UserType, Subjects
<1>4. \A x \in DOMAIN users' : Unmoved(x)
  BY <1>1, <1>2, <1>3 DEF Unmoved, EffectiveEntitlements
<1> QED BY <1>1, <1>2, <1>4 DEF UserType, UserStep

(* A group that changes outdates its members; the others do not hold it.   *)
LEMMA MembersMove ==
  ASSUME UserType, UNCHANGED <<known, epoch>>, NEW g,
         \/ users' = BumpMembers(g)
         \/ /\ users' = users /\ DOMAIN groups' = DOMAIN groups
            /\ \A x \in DOMAIN groups : groups'[x] = groups[x],
         DOMAIN groups' \cup {g} = DOMAIN groups \cup {g},
         \A x \in DOMAIN groups \ {g} : groups'[x] = groups[x]
  PROVE  UserType' /\ UserStep
<1>1. CASE /\ users' = users /\ DOMAIN groups' = DOMAIN groups
           /\ \A x \in DOMAIN groups : groups'[x] = groups[x]
  <2>1. ASSUME NEW x \in DOMAIN users PROVE Unmoved(x)
    <3>1. users[x].groups \cap DOMAIN groups' = users[x].groups \cap DOMAIN groups
      BY <1>1
    <3>2. EffectiveEntitlements(users[x].groups)' = EffectiveEntitlements(users[x].groups)
      BY <1>1, <3>1 DEF EffectiveEntitlements
    <3> QED BY <1>1, <3>2 DEF Unmoved
  <2> QED BY <1>1, <2>1 DEF UserType, UserStep
<1>2. CASE users' = BumpMembers(g)
  <2>1. /\ DOMAIN users' = DOMAIN users
        /\ \A x \in DOMAIN users :
              users'[x] = IF g \in users[x].groups THEN [users[x] EXCEPT !.tokver = @ + 1]
                                                   ELSE users[x]
    BY <1>2 DEF BumpMembers
  <2>2. \A x \in DOMAIN users : users[x] \in Record
    BY DEF UserType
  <2>3. ASSUME NEW x \in DOMAIN users, g \in users[x].groups
        PROVE  /\ users'[x] \in Record /\ users'[x].tokver > users[x].tokver
               /\ users'[x].setup = users[x].setup
    <3>1. users[x] \in Record /\ users'[x] = [users[x] EXCEPT !.tokver = @ + 1]
      BY <2>1, <2>2, <2>3
    <3> QED BY <3>1 DEF Record
  <2>4. ASSUME NEW x \in DOMAIN users, g \notin users[x].groups
        PROVE  users'[x] = users[x] /\ Unmoved(x)
    <3>1. users'[x] = users[x]
      BY <2>1, <2>4
    <3>2. users[x].groups \cap DOMAIN groups' = users[x].groups \cap DOMAIN groups
      BY <2>4
    <3>3. \A h \in users[x].groups \cap DOMAIN groups : groups'[h] = groups[h]
      BY <2>4
    <3>4. EffectiveEntitlements(users[x].groups)' = EffectiveEntitlements(users[x].groups)
      BY <3>1, <3>2, <3>3 DEF EffectiveEntitlements
    <3> QED BY <3>1, <3>4 DEF Unmoved
  <2>5. UserType'
    BY <2>1, <2>2, <2>3, <2>4 DEF UserType
  <2> QED BY <2>1, <2>3, <2>4, <2>5 DEF UserStep
<1> QED BY <1>1, <1>2

LEMMA UserStepAlways ==
  ASSUME UserType, GroupType, EpochType, [AccNext]_accVars
  PROVE  UserType' /\ UserStep
<1>1. ASSUME UNCHANGED <<users, known, groups, epoch>> PROVE UserType' /\ UserStep
  BY <1>1 DEF UserType, UserStep, Unmoved, EffectiveEntitlements
<1>2. ASSUME NEW j \in Jobs, Asks(j) PROVE UserType' /\ UserStep
  BY <1>1, <1>2, AskingOnlyPosts
<1>3. ASSUME NEW j \in Jobs, LoginVerified(j) \/ PinVerified(j) PROVE UserType' /\ UserStep
  BY <1>1, <1>3 DEF LoginVerified, PinVerified
<1>4. ASSUME NEW j \in Jobs, SetupHashed(j) PROVE UserType' /\ UserStep
  <2>1. UNCHANGED <<groups, epoch>>
    BY <1>4 DEF SetupHashed
  <2>2. \/ users = <<>> /\ \E u \in Users : AddUser(u, {AdminGroup}, TRUE)
        \/ UNCHANGED <<users, known>>
    BY <1>4 DEF SetupHashed
  <2>3. {AdminGroup} \in SUBSET Groups
    BY AccountsAssumption
  <2>4. DOMAIN <<>> = {}
    OBVIOUS
  <2> QED BY <1>1, <2>1, <2>2, <2>3, <2>4, AddUserStep
<1>5. ASSUME NEW j \in Jobs, ApplyPasswordChange(j) PROVE UserType' /\ UserStep
  <2> DEFINE u == pool[j].sub
  <2>1. UNCHANGED <<known, groups>>
    BY <1>5 DEF ApplyPasswordChange
  <2>2. CASE u \in DOMAIN users
    <3>1. users' = Bump(users, u) /\ RevokeAllForUser(u)
      BY <1>5, <2>2 DEF ApplyPasswordChange
    <3>2. u \in Subjects
      BY <2>2 DEF UserType, Subjects
    <3> HIDE DEF u
    <3> QED BY <2>1, <2>2, <3>1, <3>2, BumpStep, RevokeOthers
  <2>3. CASE u \notin DOMAIN users
    BY <1>1, <1>5, <2>3 DEF ApplyPasswordChange
  <2> QED BY <2>2, <2>3
<1>6. ASSUME NEW j \in Jobs, PinHashed(j) PROVE UserType' /\ UserStep
  <2>1. UNCHANGED <<users, known, groups>> /\ RevokeAllForUser(Kiosk)
    BY <1>6 DEF PinHashed
  <2>2. Kiosk \in Subjects /\ Kiosk \notin DOMAIN users
    BY AccountsAssumption DEF UserType, Subjects
  <2>3. \A x \in DOMAIN users : epoch'[x] = epoch[x]
    BY <2>1, <2>2, RevokeOthers
  <2> QED BY <2>1, <2>3 DEF UserType, UserStep, Unmoved, EffectiveEntitlements
<1>7. CASE ClearPin
  <2>1. UNCHANGED <<users, known, groups>> /\ RevokeAllForUser(Kiosk)
    BY <1>7 DEF ClearPin
  <2>2. Kiosk \in Subjects /\ Kiosk \notin DOMAIN users
    BY AccountsAssumption DEF UserType, Subjects
  <2>3. \A x \in DOMAIN users : epoch'[x] = epoch[x]
    BY <2>1, <2>2, RevokeOthers
  <2> QED BY <2>1, <2>3 DEF UserType, UserStep, Unmoved, EffectiveEntitlements
<1>8. CASE CreateUser
  <2>1. /\ \E u \in Users, gs \in SUBSET DOMAIN groups : AddUser(u, gs, FALSE)
        /\ UNCHANGED <<groups, epoch>>
    BY <1>8 DEF CreateUser
  <2>2. SUBSET DOMAIN groups \subseteq SUBSET Groups
    BY DEF GroupType
  <2> QED BY <2>1, <2>2, AddUserStep
<1>9. ASSUME NEW u \in DOMAIN users, LogoutAll(u) PROVE UserType' /\ UserStep
  <2>1. users' = Bump(users, u) /\ RevokeAllForUser(u) /\ UNCHANGED <<known, groups>>
    BY <1>9 DEF LogoutAll
  <2>2. u \in Subjects
    BY DEF UserType, Subjects
  <2> QED BY <2>1, <2>2, BumpStep, RevokeOthers
<1>10. CASE EditsUsers
  BY <1>8, <1>9, <1>10, DeleteUserStep, PutUserStep DEF EditsUsers
<1>11. ASSUME NEW g \in Groups, NEW ents \in SUBSET Entitlements, UpsertGroup(g, ents)
       PROVE  UserType' /\ UserStep
  <2>1. /\ users' = IF g \in DOMAIN groups /\ groups[g] = ents THEN users ELSE BumpMembers(g)
        /\ groups' = [x \in DOMAIN groups \cup {g} |-> IF x = g THEN ents ELSE groups[x]]
        /\ UNCHANGED <<known, epoch>>
    BY <1>11 DEF UpsertGroup
  <2>2. /\ DOMAIN groups' = DOMAIN groups \cup {g}
        /\ \A x \in DOMAIN groups \ {g} : groups'[x] = groups[x]
        /\ groups'[g] = ents
    BY <2>1
  <2>3. CASE g \in DOMAIN groups /\ groups[g] = ents
    <3>1. DOMAIN groups' = DOMAIN groups /\ \A x \in DOMAIN groups : groups'[x] = groups[x]
      BY <2>2, <2>3
    <3> QED BY <2>1, <2>2, <2>3, <3>1, MembersMove
  <2>4. CASE ~(g \in DOMAIN groups /\ groups[g] = ents)
    BY <2>1, <2>2, <2>4, MembersMove
  <2> QED BY <2>3, <2>4
<1>12. ASSUME NEW g \in Groups, DeleteGroup(g) PROVE UserType' /\ UserStep
  <2>1. /\ users' = BumpMembers(g) /\ g \in DOMAIN groups
        /\ groups' = [x \in DOMAIN groups \ {g} |-> groups[x]]
        /\ UNCHANGED <<known, epoch>>
    BY <1>12 DEF DeleteGroup
  <2> QED BY <2>1, MembersMove
<1>13. CASE EditsGroups
  BY <1>11, <1>12, <1>13 DEF EditsGroups
<1>14. CASE Ages \/ UNCHANGED accVars
  BY <1>1, <1>14, AgesKeeps DEF accVars
<1> QED BY <1>2, <1>3, <1>4, <1>5, <1>6, <1>7, <1>10, <1>13, <1>14, NextKinds
-----------------------------------------------------------------------------
(* Groups, the kiosk, epochs and the requests that wait.                   *)

LEMMA GroupTypeStep ==
  ASSUME GroupType, [AccNext]_accVars
  PROVE  GroupType'
<1>1. CASE UNCHANGED groups
  BY <1>1 DEF GroupType
<1>2. ASSUME NEW g \in Groups, NEW ents \in SUBSET Entitlements, UpsertGroup(g, ents)
      PROVE  GroupType'
  BY <1>2 DEF UpsertGroup, GroupType
<1>3. ASSUME NEW g \in Groups, DeleteGroup(g) PROVE GroupType'
  BY <1>3 DEF DeleteGroup, GroupType
<1>4. ASSUME NEW j \in Jobs, LoginVerified(j) \/ PinVerified(j) PROVE UNCHANGED groups
  BY <1>4 DEF LoginVerified, PinVerified
<1>5. ASSUME NEW j \in Jobs, SetupHashed(j) \/ ApplyPasswordChange(j) \/ PinHashed(j)
      PROVE  UNCHANGED groups
  BY <1>5 DEF SetupHashed, ApplyPasswordChange, PinHashed
<1>6. CASE ClearPin
  BY <1>1, <1>6 DEF ClearPin
<1> QED BY <1>1, <1>2, <1>3, <1>4, <1>5, <1>6, NextKinds, AskingOnlyPosts, AgesKeeps,
           EditsUsersKeeps DEF EditsGroups, accVars

LEMMA JobKinds ==
  ASSUME NEW job \in Job
  PROVE  /\ job.kind = "login" =>
               job \in [kind : {"login"}, sub : Users, ok : BOOLEAN, at : Nat, user : Record]
         /\ job.kind = "pin" => job \in [kind : {"pin"}, ok : BOOLEAN, at : Nat]
         /\ job.kind = "password" => job \in [kind : {"password"}, sub : Users]
         /\ job.kind = "setpin" => job \in [kind : {"setpin"}, group : Groups]
BY DEF Job, Free

KioskStep ==
  \/ kiosk'.tokver > kiosk.tokver
  \/ kiosk'.tokver = kiosk.tokver /\ epoch'[Kiosk] = epoch[Kiosk]

LEMMA KioskEpochStep ==
  ASSUME UserType, KioskType, PoolType, EpochType, [AccNext]_accVars
  PROVE  KioskType' /\ KioskStep /\ EpochType'
<1>0. Kiosk \in Subjects /\ Users \subseteq Subjects /\ Kiosk \notin Users
  BY AccountsAssumption DEF Subjects
<1>1. CASE UNCHANGED <<kiosk, epoch>>
  BY <1>1 DEF KioskType, KioskStep, EpochType
<1>2. ASSUME UNCHANGED kiosk, NEW u \in Users, RevokeAllForUser(u)
      PROVE  KioskType' /\ KioskStep /\ EpochType'
  <2>1. epoch'[Kiosk] = epoch[Kiosk] /\ EpochType'
    BY <1>0, <1>2, RevokeOthers
  <2> QED BY <1>2, <2>1 DEF KioskType, KioskStep
<1>3. ASSUME NEW j \in Jobs, LoginVerified(j) \/ PinVerified(j) \/ SetupHashed(j)
      PROVE  UNCHANGED <<kiosk, epoch>>
  BY <1>3 DEF LoginVerified, PinVerified, SetupHashed
<1>4. ASSUME NEW j \in Jobs, ApplyPasswordChange(j)
      PROVE  KioskType' /\ KioskStep /\ EpochType'
  <2>1. pool[j].sub \in Users
    <3>1. pool[j] \in Job /\ pool[j].kind = "password"
      BY <1>4 DEF PoolType, ApplyPasswordChange
    <3> QED BY <3>1, JobKinds
  <2>2. UNCHANGED kiosk /\ (RevokeAllForUser(pool[j].sub) \/ UNCHANGED epoch)
    BY <1>4 DEF ApplyPasswordChange
  <2> QED BY <1>1, <1>2, <2>1, <2>2
<1>5. ASSUME NEW j \in Jobs, PinHashed(j)
      PROVE  KioskType' /\ KioskStep /\ EpochType'
  <2>1. pool[j].group \in Groups
    <3>1. pool[j] \in Job /\ pool[j].kind = "setpin"
      BY <1>5 DEF PoolType, PinHashed
    <3> QED BY <3>1, JobKinds
  <2>2. /\ kiosk' = [on |-> TRUE, group |-> pool[j].group, tokver |-> kiosk.tokver + 1]
        /\ RevokeAllForUser(Kiosk)
    BY <1>5 DEF PinHashed
  <2>3. kiosk.tokver \in Nat /\ kiosk'.tokver = kiosk.tokver + 1
    BY <2>2 DEF KioskType
  <2>4. KioskType'
    BY <2>1, <2>2, <2>3 DEF KioskType
  <2>5. EpochType'
    BY <1>0, <2>2, RevokeOthers
  <2> QED BY <2>3, <2>4, <2>5 DEF KioskStep
<1>6. CASE ClearPin
  <2>1. /\ kiosk' = [kiosk EXCEPT !.on = FALSE, !.tokver = @ + 1]
        /\ RevokeAllForUser(Kiosk)
    BY <1>6 DEF ClearPin
  <2>2. KioskType' /\ kiosk'.tokver = kiosk.tokver + 1 /\ kiosk.tokver \in Nat
    <3> DEFINE off == [kiosk EXCEPT !.on = FALSE]
    <3>1. off \in [on : BOOLEAN, group : Groups, tokver : Nat] /\ off.tokver = kiosk.tokver
      BY DEF KioskType
    <3>2. kiosk' = [off EXCEPT !.tokver = @ + 1]
      BY <2>1, <3>1 DEF KioskType
    <3> HIDE DEF off
    <3> QED BY <3>1, <3>2 DEF KioskType
  <2>3. EpochType'
    BY <1>0, <2>1, RevokeOthers
  <2> QED BY <2>2, <2>3 DEF KioskStep
<1>7. CASE EditsUsers
  <2>1. UNCHANGED kiosk
    BY <1>7, EditsUsersKeeps
  <2>2. UNCHANGED epoch \/ \E u \in DOMAIN users : RevokeAllForUser(u)
    <3>1. ASSUME NEW u, NEW gs, NEW disable, PutUser(u, gs, disable)
          PROVE  UNCHANGED epoch \/ RevokeAllForUser(u)
      BY <3>1 DEF PutUser
    <3>2. ASSUME NEW u, LogoutAll(u) \/ DeleteUser(u) PROVE RevokeAllForUser(u)
      BY <3>2 DEF LogoutAll, DeleteUser
    <3> QED BY <1>7, <3>1, <3>2 DEF EditsUsers, CreateUser
  <2> QED BY <1>1, <1>2, <2>1, <2>2 DEF UserType
<1> QED BY <1>1, <1>3, <1>4, <1>5, <1>6, <1>7, NextKinds, AskingOnlyPosts, AgesKeeps,
           EditsGroupsKeeps DEF accVars

(* A login that will succeed is of a user the store has held.              *)
LoginsKnown ==
  \A j \in Jobs : pool[j].kind = "login" /\ pool[j].ok => pool[j].sub \in known

LEMMA PostKeeps ==
  ASSUME UserType, UserStep, PoolType, LoginsKnown, NEW j \in Jobs, NEW job \in Job, Post(j, job),
         job.kind = "login" /\ job.ok => job.sub \in known
  PROVE  PoolType' /\ LoginsKnown'
<1>1. pool' = [pool EXCEPT ![j] = job] /\ known \subseteq known'
  BY DEF Post, UserStep
<1>2. pool'[j] = job /\ \A i \in Jobs \ {j} : pool'[i] = pool[i]
  BY <1>1 DEF PoolType
<1>3. PoolType'
  BY <1>1 DEF PoolType
<1> QED BY <1>1, <1>2, <1>3 DEF LoginsKnown

LEMMA DoneKeeps ==
  ASSUME UserType, UserStep, PoolType, LoginsKnown, NEW j \in Jobs, Done(j)
  PROVE  PoolType' /\ LoginsKnown'
<1>1. pool' = [pool EXCEPT ![j] = Free] /\ known \subseteq known'
  BY DEF Done, UserStep
<1>2. pool'[j] = Free /\ \A i \in Jobs \ {j} : pool'[i] = pool[i]
  BY <1>1 DEF PoolType
<1>3. PoolType' /\ Free.kind # "login"
  BY <1>1 DEF PoolType, Job, Free
<1> QED BY <1>1, <1>2, <1>3 DEF LoginsKnown

LEMMA PoolStep ==
  ASSUME UserType, UserStep, GroupType, EpochType, PoolType, LoginsKnown, [AccNext]_accVars
  PROVE  PoolType' /\ LoginsKnown'
<1>1. CASE UNCHANGED pool
  BY <1>1 DEF PoolType, LoginsKnown, UserStep
<1>2. ASSUME NEW j \in Jobs, Asks(j) PROVE PoolType' /\ LoginsKnown'
  <2>1. ASSUME NEW u \in Users, NEW right \in BOOLEAN, Login(j, u, right)
        PROVE  PoolType' /\ LoginsKnown'
    <3> DEFINE record == IF u \in DOMAIN users THEN users[u] ELSE NoRecord
               job == [kind |-> "login", sub |-> u, ok |-> right, at |-> epoch[u], user |-> record]
    <3>1. record \in Record
      BY DEF UserType, NoRecord, Record
    <3>2. epoch[u] \in Nat
      BY DEF EpochType, Subjects
    <3>3. Post(j, job) /\ (right => u \in DOMAIN users)
      BY <2>1 DEF Login
    <3> HIDE DEF record
    <3>4. job \in Job /\ job.kind = "login" /\ job.ok = right /\ job.sub = u
      BY <3>1, <3>2 DEF Job
    <3> HIDE DEF job
    <3> QED BY <3>3, <3>4, PostKeeps DEF UserType
  <2>2. ASSUME NEW right \in BOOLEAN, LoginWithPin(j, right) PROVE PoolType' /\ LoginsKnown'
    <3> DEFINE job == [kind |-> "pin", ok |-> right, at |-> epoch[Kiosk]]
    <3>1. job \in Job /\ job.kind # "login" /\ Post(j, job)
      BY <2>2 DEF LoginWithPin, Job, EpochType, Subjects
    <3> HIDE DEF job
    <3> QED BY <3>1, PostKeeps
  <2>3. CASE Setup(j)
    <3> DEFINE job == [kind |-> "setup"]
    <3>1. job \in Job /\ job.kind # "login" /\ Post(j, job)
      BY <2>3 DEF Setup, Job
    <3> HIDE DEF job
    <3> QED BY <3>1, PostKeeps
  <2>4. ASSUME NEW u \in Users, ChangePassword(j, u) PROVE PoolType' /\ LoginsKnown'
    <3> DEFINE job == [kind |-> "password", sub |-> u]
    <3>1. job \in Job /\ job.kind # "login" /\ Post(j, job)
      BY <2>4 DEF ChangePassword, Job
    <3> HIDE DEF job
    <3> QED BY <3>1, PostKeeps
  <2>5. ASSUME NEW g \in Groups, SetPin(j, g) PROVE PoolType' /\ LoginsKnown'
    <3> DEFINE job == [kind |-> "setpin", group |-> g]
    <3>1. job \in Job /\ job.kind # "login" /\ Post(j, job)
      BY <2>5 DEF SetPin, Job
    <3> HIDE DEF job
    <3> QED BY <3>1, PostKeeps
  <2> QED BY <1>2, <2>1, <2>2, <2>3, <2>4, <2>5 DEF Asks
<1>3. ASSUME NEW j \in Jobs,
             LoginVerified(j) \/ PinVerified(j) \/ SetupHashed(j) \/ ApplyPasswordChange(j)
             \/ PinHashed(j)
      PROVE  PoolType' /\ LoginsKnown'
  <2>1. Done(j)
    BY <1>3 DEF LoginVerified, PinVerified, SetupHashed, ApplyPasswordChange, PinHashed
  <2> QED BY <2>1, DoneKeeps
<1>4. CASE Restart
  <2>1. pool' = [j \in Jobs |-> Free] /\ known' = known
    BY <1>4 DEF Restart
  <2>2. Free \in Job /\ Free.kind # "login"
    BY DEF Job, Free
  <2> QED BY <2>1, <2>2 DEF PoolType, LoginsKnown
<1>5. CASE Ages
  <2>1. Restart \/ UNCHANGED pool
    BY <1>5, Zenon DEF Ages, Refresh, EndSession, ExpireToken, LockoutEnds
  <2> QED BY <1>1, <1>4, <2>1
<1>6. CASE ClearPin
  BY <1>1, <1>6 DEF ClearPin
<1> QED BY <1>1, <1>2, <1>3, <1>5, <1>6, NextKinds, EditsUsersKeeps, EditsGroupsKeeps DEF accVars
-----------------------------------------------------------------------------
(* Sessions: each is of the present epoch of its subject, or was created   *)
(* by a login that raced with the revocation.                              *)
SessionInv ==
  /\ issued \in 0 .. MaxSessions
  /\ sessions \subseteq [id : 1 .. issued, sub : Subjects, gen : 0 .. MaxRotations,
                         at : Nat, raced : BOOLEAN]
  /\ \A s, r \in sessions : s.id = r.id => s = r
  /\ \A s \in sessions : s.at = epoch[s.sub] \/ s.raced

(* What a step does to the sessions.                                       *)
Ended == sessions' \subseteq sessions /\ UNCHANGED <<issued, epoch>>
Revoked == \E u \in Subjects : RevokeAllForUser(u) /\ UNCHANGED issued
Created ==
  \E u \in Subjects, at \in Nat, raced \in BOOLEAN :
     /\ CreateSession(u, at, raced) /\ UNCHANGED epoch
     /\ at = epoch[u] \/ raced
Rotated ==
  \E s \in sessions :
     /\ s.gen < MaxRotations
     /\ sessions' = (sessions \ {s}) \cup {[s EXCEPT !.gen = @ + 1]}
     /\ UNCHANGED <<issued, epoch>>

LEMMA RotationKinds ==
  ASSUME NEW i, NEW k, Refresh(i, k)
  PROVE  Rotated \/ Ended
BY DEF Refresh, Rotated, Ended

LEMMA SessionKinds ==
  ASSUME UserType, PoolType, EpochType, [AccNext]_accVars
  PROVE  Ended \/ Revoked \/ Created \/ Rotated
<1>0. Kiosk \in Subjects /\ Users \subseteq Subjects
  BY DEF Subjects
<1>1. CASE UNCHANGED <<sessions, issued, epoch>>
  BY <1>1 DEF Ended
<1>2. ASSUME NEW j \in Jobs, LoginVerified(j) PROVE Ended \/ Created
  <2> DEFINE u == pool[j].sub
             raced == pool[j].at # epoch[u]
  <2>1. u \in Subjects /\ pool[j].at \in Nat /\ raced \in BOOLEAN
    <3>1. pool[j] \in Job /\ pool[j].kind = "login"
      BY <1>2 DEF PoolType, LoginVerified
    <3> QED BY <1>0, <3>1, JobKinds
  <2>2. UNCHANGED epoch
    BY <1>2 DEF LoginVerified
  <2>3. CreateSession(u, pool[j].at, raced) \/ UNCHANGED <<sessions, issued>>
    BY <1>2 DEF LoginVerified
  <2>4. pool[j].at = epoch[u] \/ raced
    OBVIOUS
  <2> HIDE DEF u, raced
  <2> QED BY <2>1, <2>2, <2>3, <2>4 DEF Ended, Created
<1>3. ASSUME NEW j \in Jobs, PinVerified(j) PROVE Ended \/ Created
  <2> DEFINE raced == pool[j].at # epoch[Kiosk]
  <2>1. pool[j].at \in Nat /\ raced \in BOOLEAN
    <3>1. pool[j] \in Job /\ pool[j].kind = "pin"
      BY <1>3 DEF PoolType, PinVerified
    <3> QED BY <3>1, JobKinds
  <2>2. UNCHANGED epoch
    BY <1>3 DEF PinVerified
  <2>3. CreateSession(Kiosk, pool[j].at, raced) \/ UNCHANGED <<sessions, issued>>
    BY <1>3 DEF PinVerified
  <2>4. pool[j].at = epoch[Kiosk] \/ raced
    OBVIOUS
  <2> HIDE DEF raced
  <2> QED BY <1>0, <2>1, <2>2, <2>3, <2>4 DEF Ended, Created
<1>4. ASSUME NEW j \in Jobs, SetupHashed(j) PROVE Ended
  BY <1>4 DEF SetupHashed, Ended
<1>5. ASSUME NEW j \in Jobs, ApplyPasswordChange(j) PROVE Ended \/ Revoked
  <2>1. pool[j].sub \in Subjects
    <3>1. pool[j] \in Job /\ pool[j].kind = "password"
      BY <1>5 DEF PoolType, ApplyPasswordChange
    <3> QED BY <1>0, <3>1, JobKinds
  <2>2. \/ RevokeAllForUser(pool[j].sub) /\ UNCHANGED issued
        \/ UNCHANGED <<sessions, issued, epoch>>
    BY <1>5 DEF ApplyPasswordChange
  <2> QED BY <2>1, <2>2 DEF Ended, Revoked
<1>6. ASSUME NEW j \in Jobs, PinHashed(j) PROVE Revoked
  BY <1>0, <1>6 DEF PinHashed, Revoked
<1>7. CASE ClearPin
  BY <1>0, <1>7 DEF ClearPin, Revoked
<1>8. CASE EditsUsers
  <2>1. ASSUME NEW u \in DOMAIN users, NEW gs, NEW disable, PutUser(u, gs, disable)
        PROVE  Ended \/ Revoked
    <3>1. \/ RevokeAllForUser(u) /\ UNCHANGED issued
          \/ UNCHANGED <<sessions, issued, epoch>>
      BY <2>1 DEF PutUser
    <3> QED BY <1>0, <3>1 DEF Ended, Revoked, UserType
  <2>2. ASSUME NEW u \in DOMAIN users, LogoutAll(u) \/ DeleteUser(u) PROVE Revoked
    BY <1>0, <2>2 DEF LogoutAll, DeleteUser, Revoked, UserType
  <2>3. CASE CreateUser
    BY <2>3 DEF CreateUser, Ended
  <2> QED BY <1>8, <2>1, <2>2, <2>3 DEF EditsUsers
<1>9. CASE Ages
  <2>1. (\E i, k : Refresh(i, k)) \/ Ended
    BY <1>9, Zenon DEF Ages, Ended, EndSession, ExpireToken, LockoutEnds, Restart
  <2> QED BY <2>1, RotationKinds
<1> QED BY <1>1, <1>2, <1>3, <1>4, <1>5, <1>6, <1>7, <1>8, <1>9, NextKinds, AskingOnlyPosts,
           EditsGroupsKeeps DEF accVars

LEMMA SessionStep ==
  ASSUME SessionInv, UserType, PoolType, EpochType, [AccNext]_accVars
  PROVE  SessionInv'
<1>0. issued \in Nat /\ MaxSessions \in Nat /\ MaxRotations \in Nat
  BY AccountsAssumption DEF SessionInv
<1>1. CASE Ended
  BY <1>1 DEF Ended, SessionInv
<1>2. CASE Revoked
  <2>1. PICK u \in Subjects : RevokeAllForUser(u) /\ UNCHANGED issued
    BY <1>2 DEF Revoked
  <2>2. sessions' \subseteq sessions /\ \A s \in sessions' : s.sub # u
    BY <2>1 DEF RevokeAllForUser, SessionsOf
  <2>3. \A s \in sessions' : s.sub \in Subjects \ {u}
    BY <2>2 DEF SessionInv
  <2>4. \A s \in sessions' : epoch'[s.sub] = epoch[s.sub]
    BY <2>1, <2>3, RevokeOthers
  <2> QED BY <2>1, <2>2, <2>4 DEF SessionInv
<1>3. CASE Created
  <2>1. PICK u \in Subjects, at \in Nat, raced \in BOOLEAN :
           CreateSession(u, at, raced) /\ UNCHANGED epoch /\ (at = epoch[u] \/ raced)
    BY <1>3 DEF Created
  <2> DEFINE new == [id |-> issued + 1, sub |-> u, gen |-> 0, at |-> at, raced |-> raced]
  <2>2. issued < MaxSessions /\ issued' = issued + 1 /\ sessions' = sessions \cup {new}
    BY <2>1 DEF CreateSession
  <2>3. /\ new \in [id : 1 .. issued', sub : Subjects, gen : 0 .. MaxRotations,
                    at : Nat, raced : BOOLEAN]
        /\ new.id = issued + 1 /\ (new.at = epoch'[new.sub] \/ new.raced)
    BY <1>0, <2>1, <2>2
  <2> HIDE DEF new
  <2>4. \A s \in sessions : /\ s.id \in 1 .. issued /\ s.id # new.id
                            /\ s \in [id : 1 .. issued', sub : Subjects, gen : 0 .. MaxRotations,
                                      at : Nat, raced : BOOLEAN]
    BY <1>0, <2>2, <2>3 DEF SessionInv
  <2>5. issued' \in 0 .. MaxSessions
    BY <1>0, <2>2
  <2>6. \A s, r \in sessions' : s.id = r.id => s = r
    BY <2>2, <2>4 DEF SessionInv
  <2> QED BY <2>1, <2>2, <2>3, <2>4, <2>5, <2>6 DEF SessionInv
<1>4. CASE Rotated
  <2>1. PICK s \in sessions :
           /\ s.gen < MaxRotations
           /\ sessions' = (sessions \ {s}) \cup {[s EXCEPT !.gen = @ + 1]}
           /\ UNCHANGED <<issued, epoch>>
    BY <1>4 DEF Rotated
  <2> DEFINE new == [s EXCEPT !.gen = @ + 1]
  <2>2. s \in [id : 1 .. issued, sub : Subjects, gen : 0 .. MaxRotations, at : Nat, raced : BOOLEAN]
    BY DEF SessionInv
  <2>3. /\ new \in [id : 1 .. issued, sub : Subjects, gen : 0 .. MaxRotations,
                    at : Nat, raced : BOOLEAN]
        /\ new.id = s.id /\ new.at = s.at /\ new.sub = s.sub /\ new.raced = s.raced
    BY <1>0, <2>1, <2>2
  <2> HIDE DEF new
  <2>4. sessions' = (sessions \ {s}) \cup {new}
    BY <2>1 DEF new
  <2>5. \A r \in sessions \ {s} : r.id # s.id
    BY DEF SessionInv
  <2>6. \A r, q \in sessions' : r.id = q.id => r = q
    BY <2>3, <2>4, <2>5 DEF SessionInv
  <2> QED BY <2>1, <2>3, <2>4, <2>6 DEF SessionInv
<1> QED BY <1>1, <1>2, <1>3, <1>4, SessionKinds
-----------------------------------------------------------------------------
(* Tokens: one of the current version of its user carries what the user    *)
(* may do and is of the present epoch; none is of a later version.         *)
TokenType ==
  tokens \subseteq [sub : Subjects, tokver : Nat, ents : SUBSET Entitlements,
                    at : Nat, raced : BOOLEAN]

Timely(t) == t.at = epoch[t.sub] \/ t.raced

Fresh(t) ==
  /\ t.sub \in known \cup {Kiosk}
  /\ t.sub \in DOMAIN users =>
        /\ t.tokver <= users[t.sub].tokver
        /\ t.tokver = users[t.sub].tokver =>
              t.ents = EffectiveEntitlements(users[t.sub].groups) /\ Timely(t)
  /\ t.sub = Kiosk => /\ t.tokver <= kiosk.tokver
                      /\ t.tokver = kiosk.tokver => Timely(t)

FreshTokens == \A t \in tokens : Fresh(t)

LEMMA OldTokenStaysFresh ==
  ASSUME UserType, UserType', UserStep, KioskType, KioskType', KioskStep, TokenType,
         NEW t \in tokens, Fresh(t)
  PROVE  Fresh(t)'
<1>1. t.tokver \in Nat /\ Kiosk \notin known /\ Kiosk \notin known'
  BY AccountsAssumption DEF TokenType, UserType
<1>2. t.sub \in known' \cup {Kiosk}
  BY DEF Fresh, UserStep
<1>3. ASSUME t.sub \in DOMAIN users'
      PROVE  /\ t.tokver <= users'[t.sub].tokver
             /\ t.tokver = users'[t.sub].tokver =>
                   t.ents = EffectiveEntitlements(users[t.sub].groups)' /\ Timely(t)'
  <2>1. t.sub \in known /\ t.sub \in DOMAIN users
    BY <1>1, <1>2, <1>3 DEF Fresh, UserStep, UserType
  <2>2. users[t.sub].tokver \in Nat /\ users'[t.sub].tokver \in Nat
    BY <1>3, <2>1 DEF UserType, Record
  <2>3. t.tokver <= users[t.sub].tokver
    BY <2>1 DEF Fresh
  <2>4. CASE users'[t.sub].tokver > users[t.sub].tokver
    BY <1>1, <2>2, <2>3, <2>4
  <2>5. CASE Unmoved(t.sub)
    <3>1. users'[t.sub].tokver = users[t.sub].tokver
      BY <2>5 DEF Unmoved
    <3>2. ASSUME t.tokver = users[t.sub].tokver
          PROVE  t.ents = EffectiveEntitlements(users[t.sub].groups)' /\ Timely(t)'
      BY <2>1, <2>5, <3>2 DEF Fresh, Unmoved, Timely
    <3> QED BY <2>3, <3>1, <3>2
  <2> QED BY <1>3, <2>1, <2>4, <2>5 DEF UserStep
<1>4. ASSUME t.sub = Kiosk
      PROVE  t.tokver <= kiosk'.tokver /\ (t.tokver = kiosk'.tokver => Timely(t)')
  <2>1. kiosk.tokver \in Nat /\ kiosk'.tokver \in Nat
    BY DEF KioskType
  <2> QED BY <1>1, <1>4, <2>1 DEF Fresh, KioskStep, Timely
<1> QED BY <1>2, <1>3, <1>4 DEF Fresh

LEMMA GrantsType ==
  ASSUME GroupType, NEW gs
  PROVE  EffectiveEntitlements(gs) \in SUBSET Entitlements
BY DEF GroupType, EffectiveEntitlements

LEMMA MintedIsFresh ==
  ASSUME UserType, GroupType, NEW u \in known, NEW snapshot \in Record,
         NEW at \in Nat, NEW raced \in BOOLEAN, at = epoch[u] \/ raced
  PROVE  /\ Fresh(MintAccessToken(u, snapshot, at, raced))
         /\ MintAccessToken(u, snapshot, at, raced) \in
               [sub : Subjects, tokver : Nat, ents : SUBSET Entitlements, at : Nat, raced : BOOLEAN]
<1> DEFINE record == IF u \in DOMAIN users THEN users[u] ELSE snapshot
           t == MintAccessToken(u, snapshot, at, raced)
<1>1. t = [sub |-> u, tokver |-> record.tokver, ents |-> EffectiveEntitlements(record.groups),
           at |-> at, raced |-> raced]
  BY DEF MintAccessToken
<1>2. record \in Record /\ record.tokver \in Nat /\ u \in Subjects /\ u # Kiosk
  BY AccountsAssumption DEF UserType, Record, Subjects
<1>3. EffectiveEntitlements(record.groups) \in SUBSET Entitlements
  BY GrantsType
<1>4. u \in DOMAIN users => record = users[u]
  OBVIOUS
<1> HIDE DEF t, record
<1>5. t \in [sub : Subjects, tokver : Nat, ents : SUBSET Entitlements, at : Nat, raced : BOOLEAN]
  BY <1>1, <1>2, <1>3
<1>6. Fresh(t)
  BY <1>1, <1>2, <1>4 DEF Fresh, Timely
<1> QED BY <1>5, <1>6 DEF t

LEMMA KioskTokenIsFresh ==
  ASSUME UserType, GroupType, KioskType,
         NEW at \in Nat, NEW raced \in BOOLEAN, at = epoch[Kiosk] \/ raced
  PROVE  /\ Fresh(MintKioskToken(at, raced))
         /\ MintKioskToken(at, raced) \in
               [sub : Subjects, tokver : Nat, ents : SUBSET Entitlements, at : Nat, raced : BOOLEAN]
<1> DEFINE t == MintKioskToken(at, raced)
           ents == EffectiveEntitlements({kiosk.group})
<1>1. t = [sub |-> Kiosk, tokver |-> kiosk.tokver, ents |-> ents, at |-> at, raced |-> raced]
  BY DEF MintKioskToken
<1>2. ents \in SUBSET Entitlements /\ kiosk.tokver \in Nat /\ Kiosk \in Subjects
      /\ Kiosk \notin DOMAIN users
  BY GrantsType, AccountsAssumption DEF KioskType, Subjects, UserType
<1> HIDE DEF t, ents
<1>3. t \in [sub : Subjects, tokver : Nat, ents : SUBSET Entitlements, at : Nat, raced : BOOLEAN]
  BY <1>1, <1>2
<1>4. Fresh(t)
  BY <1>1, <1>2 DEF Fresh, Timely
<1> QED BY <1>3, <1>4 DEF t

(* A new token is minted for a login or a rotation, and is fresh then.     *)
Minted ==
  /\ UNCHANGED <<users, known, groups, kiosk, epoch>>
  /\ \E t : /\ tokens' = tokens \cup {t} /\ Fresh(t)
            /\ t \in [sub : Subjects, tokver : Nat, ents : SUBSET Entitlements,
                      at : Nat, raced : BOOLEAN]

LEMMA TokenKinds ==
  ASSUME UserType, GroupType, KioskType, PoolType, LoginsKnown, SessionInv, EpochType,
         [AccNext]_accVars
  PROVE  tokens' \subseteq tokens \/ Minted
<1>1. ASSUME NEW j \in Jobs, LoginVerified(j) PROVE tokens' \subseteq tokens \/ Minted
  <2> DEFINE u == pool[j].sub
             raced == pool[j].at # epoch[u]
             t == MintAccessToken(u, pool[j].user, pool[j].at, raced)
  <2>1. UNCHANGED <<users, known, groups, kiosk, epoch>>
    BY <1>1 DEF LoginVerified
  <2>2. CASE pool[j].ok
    <3>1. /\ u \in known /\ pool[j].user \in Record /\ pool[j].at \in Nat
          /\ raced \in BOOLEAN /\ (pool[j].at = epoch[u] \/ raced)
      <4>1. pool[j] \in Job /\ pool[j].kind = "login"
        BY <1>1 DEF PoolType, LoginVerified
      <4> QED BY <2>2, <4>1, JobKinds DEF LoginsKnown
    <3>2. tokens' = tokens \cup {t}
      BY <1>1, <2>2 DEF LoginVerified
    <3> HIDE DEF u, raced
    <3> QED BY <2>1, <3>1, <3>2, MintedIsFresh DEF Minted
  <2>3. CASE ~pool[j].ok
    BY <1>1, <2>3 DEF LoginVerified
  <2> QED BY <2>2, <2>3
<1>2. ASSUME NEW j \in Jobs, PinVerified(j) PROVE tokens' \subseteq tokens \/ Minted
  <2> DEFINE raced == pool[j].at # epoch[Kiosk]
             t == MintKioskToken(pool[j].at, raced)
  <2>1. UNCHANGED <<users, known, groups, kiosk, epoch>>
    BY <1>2 DEF PinVerified
  <2>2. CASE pool[j].ok
    <3>1. pool[j].at \in Nat /\ raced \in BOOLEAN /\ (pool[j].at = epoch[Kiosk] \/ raced)
      <4>1. pool[j] \in Job /\ pool[j].kind = "pin"
        BY <1>2 DEF PoolType, PinVerified
      <4> QED BY <4>1, JobKinds
    <3>2. tokens' = tokens \cup {t}
      BY <1>2, <2>2 DEF PinVerified
    <3> HIDE DEF raced
    <3> QED BY <2>1, <3>1, <3>2, KioskTokenIsFresh DEF Minted
  <2>3. CASE ~pool[j].ok
    BY <1>2, <2>3 DEF PinVerified
  <2> QED BY <2>2, <2>3
<1>3. ASSUME NEW i, NEW k, Refresh(i, k) PROVE tokens' \subseteq tokens \/ Minted
  <2>1. UNCHANGED <<users, known, groups, kiosk, epoch>>
    BY <1>3 DEF Refresh
  <2>2. \/ UNCHANGED tokens
        \/ \E s \in sessions :
              /\ s.sub \in DOMAIN users
              /\ tokens' = tokens \cup {MintAccessToken(s.sub, NoRecord, s.at, s.raced)}
    BY <1>3 DEF Refresh
  <2>3. ASSUME NEW s \in sessions, s.sub \in DOMAIN users,
               tokens' = tokens \cup {MintAccessToken(s.sub, NoRecord, s.at, s.raced)}
        PROVE  Minted
    <3>1. s.at \in Nat /\ s.raced \in BOOLEAN /\ (s.at = epoch[s.sub] \/ s.raced)
      BY DEF SessionInv
    <3>2. s.sub \in known /\ NoRecord \in Record
      BY <2>3 DEF UserType, NoRecord, Record
    <3> QED BY <2>1, <2>3, <3>1, <3>2, MintedIsFresh DEF Minted
  <2> QED BY <2>2, <2>3
<1>4. ASSUME NEW j \in Jobs, SetupHashed(j) \/ ApplyPasswordChange(j) \/ PinHashed(j)
      PROVE  UNCHANGED tokens
  BY <1>4 DEF SetupHashed, ApplyPasswordChange, PinHashed
<1>5. CASE ClearPin
  BY <1>5 DEF ClearPin
<1>6. CASE Ages
  <2>1. (\E i, k : Refresh(i, k)) \/ tokens' \subseteq tokens
    BY <1>6, Zenon DEF Ages, EndSession, ExpireToken, LockoutEnds, Restart
  <2> QED BY <1>3, <2>1
<1> QED BY <1>1, <1>2, <1>4, <1>5, <1>6, NextKinds, AskingOnlyPosts, EditsUsersKeeps,
           EditsGroupsKeeps DEF accVars

LEMMA TokenStep ==
  ASSUME UserType, UserType', UserStep, GroupType, KioskType, KioskType', KioskStep, PoolType,
         LoginsKnown, SessionInv, EpochType, TokenType, FreshTokens, [AccNext]_accVars
  PROVE  TokenType' /\ FreshTokens'
<1>1. \A t \in tokens : Fresh(t)'
  BY OldTokenStaysFresh DEF FreshTokens
<1>2. CASE tokens' \subseteq tokens
  BY <1>1, <1>2 DEF TokenType, FreshTokens
<1>3. CASE Minted
  <2>1. PICK t : /\ tokens' = tokens \cup {t} /\ Fresh(t)
                 /\ t \in [sub : Subjects, tokver : Nat, ents : SUBSET Entitlements,
                           at : Nat, raced : BOOLEAN]
    BY <1>3 DEF Minted
  <2>2. Fresh(t)'
    BY <1>3, <2>1 DEF Minted, Fresh, Timely, EffectiveEntitlements
  <2> QED BY <1>1, <2>1, <2>2 DEF TokenType, FreshTokens
<1> QED BY <1>2, <1>3, TokenKinds

(* One account at most came from the first-run setup.                      *)
SetupUnique == \A u, v \in DOMAIN users : users[u].setup /\ users[v].setup => u = v

LEMMA SetupStep ==
  ASSUME UserType, UserType', UserStep, SetupUnique
  PROVE  SetupUnique'
<1> SUFFICES ASSUME NEW u \in DOMAIN users', NEW v \in DOMAIN users',
                    users'[u].setup, users'[v].setup
             PROVE  u = v
  BY DEF SetupUnique
<1>1. CASE DOMAIN users' = {u} \/ DOMAIN users' = {v}
  BY <1>1
<1>2. CASE ~(DOMAIN users' = {u} \/ DOMAIN users' = {v})
  <2>1. /\ u \in DOMAIN users /\ users'[u].setup = users[u].setup
        /\ v \in DOMAIN users /\ users'[v].setup = users[v].setup
    BY <1>2 DEF UserStep
  <2> QED BY <2>1 DEF SetupUnique
<1> QED BY <1>1, <1>2

LEMMA SetupUniqueIsOne ==
  ASSUME SetupUnique
  PROVE  OneSetup
<1> DEFINE S == {u \in DOMAIN users : users[u].setup}
<1>1. CASE S = {}
  BY <1>1, FS_EmptySet DEF OneSetup
<1>2. CASE S # {}
  <2>1. PICK u \in S : TRUE
    BY <1>2
  <2>2. S = {u}
    BY <2>1 DEF SetupUnique
  <2>3. Cardinality({u}) = 1
    BY FS_Singleton
  <2> QED BY <2>2, <2>3 DEF OneSetup
<1> QED BY <1>1, <1>2
-----------------------------------------------------------------------------
(* The lockout: an account that is not locked out has answered as many     *)
(* wrong passwords as are counted; one that is starts no verification, so  *)
(* what is still in flight for it bounds what it can yet answer.           *)
For(job, u) ==
  \/ job.kind = "login" /\ job.sub = u
  \/ job.kind = "pin" /\ u = Kiosk

Pending(u) == {j \in Jobs : For(pool[j], u)}

LockType ==
  /\ lock \in [Subjects -> [count : Nat, locked : BOOLEAN]]
  /\ guesses \in [Subjects -> Nat]

Guessed(u) ==
  IF lock[u].locked
  THEN guesses[u] + Cardinality(Pending(u)) <= MaxFailures - 1 + Cardinality(Jobs)
  ELSE guesses[u] = lock[u].count /\ lock[u].count < MaxFailures

LockInv == LockType /\ \A u \in Subjects : Guessed(u)

LEMMA PendingIsBounded ==
  ASSUME NEW u
  PROVE  /\ IsFiniteSet(Pending(u)) /\ Cardinality(Pending(u)) \in Nat
         /\ Cardinality(Jobs) \in Nat /\ Cardinality(Pending(u)) <= Cardinality(Jobs)
<1>1. IsFiniteSet(Jobs) /\ Pending(u) \subseteq Jobs
  BY AccountsAssumption DEF Pending
<1> QED BY <1>1, FS_Subset, FS_CardinalityType

LEMMA FewerArePending ==
  ASSUME NEW u, Pending(u)' \subseteq Pending(u)
  PROVE  /\ Cardinality(Pending(u)') \in Nat /\ Cardinality(Pending(u)) \in Nat
         /\ Cardinality(Pending(u)') <= Cardinality(Pending(u))
         /\ (\E j \in Pending(u) : j \notin Pending(u)') =>
               Cardinality(Pending(u)') < Cardinality(Pending(u))
<1>1. IsFiniteSet(Pending(u)) /\ Cardinality(Pending(u)) \in Nat
  BY PendingIsBounded
<1>2. /\ IsFiniteSet(Pending(u)') /\ Cardinality(Pending(u)') <= Cardinality(Pending(u))
      /\ Cardinality(Pending(u)') = Cardinality(Pending(u)) => Pending(u)' = Pending(u)
  BY <1>1, FS_Subset
<1>3. Cardinality(Pending(u)') \in Nat
  BY <1>2, FS_CardinalityType
<1> QED BY <1>1, <1>2, <1>3

(* What a step does to the locks.                                          *)
NothingNew == \A u \in Subjects : lock[u].locked => Pending(u)' \subseteq Pending(u)
FewerWait == \A u \in Subjects : Pending(u)' \subseteq Pending(u)

Cleared == FewerWait /\ \E u \in Subjects : ClearFailures(u)
Failed ==
  /\ FewerWait
  /\ \E u \in Subjects : RecordFailure(u) /\ \E j \in Pending(u) : j \notin Pending(u)'
LockKept == UNCHANGED <<lock, guesses>> /\ NothingNew

LEMMA PostedIsPending ==
  ASSUME PoolType, NEW j \in Jobs, NEW job, Post(j, job), NEW u, ~For(job, u)
  PROVE  Pending(u)' \subseteq Pending(u)
<1>1. pool'[j] = job /\ \A i \in Jobs \ {j} : pool'[i] = pool[i]
  BY DEF Post, PoolType
<1>2. ASSUME NEW i \in Jobs, For(pool'[i], u) PROVE For(pool[i], u)
  BY <1>1, <1>2 DEF For
<1> QED BY <1>2 DEF Pending

LEMMA DoneIsNot ==
  ASSUME PoolType, NEW j \in Jobs, Done(j)
  PROVE  FewerWait /\ \A u : j \notin Pending(u)'
<1>1. pool'[j] = Free /\ \A i \in Jobs \ {j} : pool'[i] = pool[i]
  BY DEF Done, PoolType
<1>2. ASSUME NEW u PROVE ~For(pool'[j], u)
  BY <1>1 DEF For, Free
<1>3. ASSUME NEW u, NEW i \in Jobs, For(pool'[i], u) PROVE For(pool[i], u)
  BY <1>1, <1>2, <1>3 DEF For
<1> QED BY <1>2, <1>3 DEF Pending, FewerWait

LEMMA LockKinds ==
  ASSUME PoolType, LockType, [AccNext]_accVars
  PROVE  LockKept \/ Cleared \/ Failed \/ Restart
<1>0. Kiosk \in Subjects /\ Users \subseteq Subjects /\ Kiosk \notin Users
  BY AccountsAssumption DEF Subjects
<1>1. CASE UNCHANGED <<lock, guesses, pool>>
  BY <1>1 DEF LockKept, NothingNew, Pending
<1>2. ASSUME NEW j \in Jobs, Asks(j) PROVE LockKept
  <2>1. UNCHANGED <<lock, guesses>>
    BY <1>2, AskingOnlyPosts
  <2>2. ASSUME NEW w \in Users, NEW right \in BOOLEAN, Login(j, w, right) PROVE NothingNew
    <3> DEFINE record == IF w \in DOMAIN users THEN users[w] ELSE NoRecord
               job == [kind |-> "login", sub |-> w, ok |-> right, at |-> epoch[w], user |-> record]
    <3>1. Post(j, job) /\ ~lock[w].locked
      BY <2>2 DEF Login
    <3>2. \A u \in Subjects : u # w => ~For(job, u)
      BY DEF For
    <3> HIDE DEF job
    <3> QED BY <3>1, <3>2, PostedIsPending DEF NothingNew
  <2>3. ASSUME NEW right \in BOOLEAN, LoginWithPin(j, right) PROVE NothingNew
    <3> DEFINE job == [kind |-> "pin", ok |-> right, at |-> epoch[Kiosk]]
    <3>1. Post(j, job) /\ ~lock[Kiosk].locked
      BY <2>3 DEF LoginWithPin
    <3>2. \A u \in Subjects : u # Kiosk => ~For(job, u)
      BY DEF For
    <3> HIDE DEF job
    <3> QED BY <3>1, <3>2, PostedIsPending DEF NothingNew
  <2>4. ASSUME Setup(j) PROVE NothingNew
    <3> DEFINE job == [kind |-> "setup"]
    <3>1. Post(j, job) /\ \A u : ~For(job, u)
      BY <2>4 DEF Setup, For
    <3> HIDE DEF job
    <3> QED BY <3>1, PostedIsPending DEF NothingNew
  <2>5. ASSUME NEW w \in Users, ChangePassword(j, w) PROVE NothingNew
    <3> DEFINE job == [kind |-> "password", sub |-> w]
    <3>1. Post(j, job) /\ \A u : ~For(job, u)
      BY <2>5 DEF ChangePassword, For
    <3> HIDE DEF job
    <3> QED BY <3>1, PostedIsPending DEF NothingNew
  <2>6. ASSUME NEW g \in Groups, SetPin(j, g) PROVE NothingNew
    <3> DEFINE job == [kind |-> "setpin", group |-> g]
    <3>1. Post(j, job) /\ \A u : ~For(job, u)
      BY <2>6 DEF SetPin, For
    <3> HIDE DEF job
    <3> QED BY <3>1, PostedIsPending DEF NothingNew
  <2>7. NothingNew
    BY <1>2, <2>2, <2>3, <2>4, <2>5, <2>6, Zenon DEF Asks
  <2> QED BY <2>1, <2>7 DEF LockKept
<1>3. ASSUME NEW j \in Jobs, LoginVerified(j) PROVE Cleared \/ Failed
  <2>0. PICK u : u = pool[j].sub
    OBVIOUS
  <2>1. u \in Subjects /\ j \in Pending(u)
    <3>1. pool[j] \in Job /\ pool[j].kind = "login"
      BY <1>3 DEF PoolType, LoginVerified
    <3>2. u \in Users
      BY <2>0, <3>1, JobKinds
    <3> QED BY <1>0, <2>0, <3>1, <3>2 DEF Pending, For
  <2>2. FewerWait /\ j \notin Pending(u)'
    <3>1. Done(j)
      BY <1>3 DEF LoginVerified
    <3> QED BY <3>1, DoneIsNot
  <2>3. ClearFailures(u) \/ RecordFailure(u)
    BY <1>3, <2>0 DEF LoginVerified
  <2> QED BY <2>1, <2>2, <2>3, Zenon DEF Cleared, Failed
<1>4. ASSUME NEW j \in Jobs, PinVerified(j) PROVE Cleared \/ Failed
  <2>1. j \in Pending(Kiosk)
    BY <1>4 DEF PinVerified, Pending, For
  <2>2. FewerWait /\ j \notin Pending(Kiosk)'
    <3>1. Done(j)
      BY <1>4 DEF PinVerified
    <3> QED BY <3>1, DoneIsNot
  <2>3. ClearFailures(Kiosk) \/ RecordFailure(Kiosk)
    BY <1>4 DEF PinVerified
  <2> QED BY <1>0, <2>1, <2>2, <2>3 DEF Cleared, Failed
<1>5. ASSUME NEW j \in Jobs, SetupHashed(j) \/ ApplyPasswordChange(j) \/ PinHashed(j)
      PROVE  LockKept
  <2>1. Done(j) /\ UNCHANGED <<lock, guesses>>
    BY <1>5 DEF SetupHashed, ApplyPasswordChange, PinHashed
  <2> QED BY <2>1, DoneIsNot DEF LockKept, NothingNew, FewerWait
<1>6. CASE ClearPin
  BY <1>1, <1>6 DEF ClearPin
<1>7. CASE Ages
  <2>1. ASSUME NEW u \in Subjects, LockoutEnds(u) PROVE Cleared
    <3>1. ClearFailures(u) /\ UNCHANGED pool
      BY <2>1 DEF LockoutEnds
    <3> QED BY <3>1 DEF Cleared, FewerWait, Pending
  <2>2. \/ \E u \in Subjects : LockoutEnds(u)
        \/ UNCHANGED <<lock, guesses, pool>>
        \/ Restart
    BY <1>7, Zenon DEF Ages, Refresh, EndSession, ExpireToken
  <2> QED BY <1>1, <2>1, <2>2
<1> QED BY <1>1, <1>2, <1>3, <1>4, <1>5, <1>6, <1>7, NextKinds, EditsUsersKeeps, EditsGroupsKeeps
        DEF accVars

LEMMA LockStep ==
  ASSUME LockInv, PoolType, [AccNext]_accVars
  PROVE  LockInv'
<1>0. MaxFailures \in Nat \ {0}
  BY AccountsAssumption
<1>1. CASE LockKept
  <2>1. LockType' /\ UNCHANGED <<lock, guesses>>
    BY <1>1 DEF LockKept, LockInv, LockType
  <2>2. ASSUME NEW v \in Subjects PROVE Guessed(v)'
    <3>1. Guessed(v) /\ guesses[v] \in Nat
      BY DEF LockInv, LockType
    <3>2. CASE ~lock[v].locked
      BY <2>1, <3>1, <3>2 DEF Guessed
    <3>3. CASE lock[v].locked
      <4>1. /\ Cardinality(Pending(v)') \in Nat /\ Cardinality(Pending(v)) \in Nat
            /\ Cardinality(Pending(v)') <= Cardinality(Pending(v))
        BY <1>1, <3>3, FewerArePending DEF LockKept, NothingNew
      <4> QED BY <1>0, <2>1, <3>1, <3>3, <4>1, PendingIsBounded DEF Guessed
    <3> QED BY <3>2, <3>3
  <2> QED BY <2>1, <2>2 DEF LockInv
<1>2. ASSUME FewerWait, NEW v \in Subjects, UNCHANGED <<lock[v], guesses[v]>>
      PROVE  Guessed(v)'
  <2>1. Guessed(v) /\ guesses[v] \in Nat
    BY DEF LockInv, LockType
  <2>2. /\ Cardinality(Pending(v)') \in Nat /\ Cardinality(Pending(v)) \in Nat
        /\ Cardinality(Pending(v)') <= Cardinality(Pending(v))
    BY <1>2, FewerArePending DEF FewerWait
  <2> QED BY <1>0, <1>2, <2>1, <2>2, PendingIsBounded DEF Guessed
<1>3. CASE Cleared
  <2>1. PICK u \in Subjects : ClearFailures(u)
    BY <1>3 DEF Cleared
  <2>2. /\ lock' = [lock EXCEPT ![u] = [count |-> 0, locked |-> FALSE]]
        /\ guesses' = [guesses EXCEPT ![u] = 0]
    BY <2>1 DEF ClearFailures
  <2>3. LockType'
    BY <2>2 DEF LockInv, LockType
  <2>4. \A v \in Subjects \ {u} : UNCHANGED <<lock[v], guesses[v]>>
    BY <2>2 DEF LockInv, LockType
  <2>5. \A v \in Subjects \ {u} : Guessed(v)'
    BY <1>2, <1>3, <2>4 DEF Cleared
  <2>6. lock'[u] = [count |-> 0, locked |-> FALSE] /\ guesses'[u] = 0
    BY <2>2 DEF LockInv, LockType
  <2>7. Guessed(u)'
    BY <1>0, <2>6 DEF Guessed
  <2> QED BY <2>3, <2>5, <2>7 DEF LockInv
<1>4. CASE Failed
  <2>1. PICK u \in Subjects : RecordFailure(u) /\ \E j \in Pending(u) : j \notin Pending(u)'
    BY <1>4 DEF Failed
  <2> DEFINE next == lock[u].count + 1
             reached == next >= MaxFailures
             count == IF reached /\ u # Kiosk THEN 0 ELSE next
             locked == reached \/ lock[u].locked
             failed == IF next >= MaxFailures
                       THEN [count |-> IF u = Kiosk THEN next ELSE 0, locked |-> TRUE]
                       ELSE [count |-> next, locked |-> lock[u].locked]
  <2>2. lock[u].count \in Nat /\ lock[u].locked \in BOOLEAN /\ guesses[u] \in Nat
    BY DEF LockInv, LockType
  <2>3. count \in Nat /\ (~reached => count = lock[u].count + 1)
    BY <2>2
  <2>4. lock' = [lock EXCEPT ![u] = failed] /\ guesses' = [guesses EXCEPT ![u] = guesses[u] + 1]
    BY <2>1 DEF RecordFailure
  <2>5. locked \in BOOLEAN /\ failed = [count |-> count, locked |-> locked]
    BY <2>2
  <2>6. reached <=> lock[u].count + 1 >= MaxFailures
    OBVIOUS
  <2>7. locked <=> reached \/ lock[u].locked
    OBVIOUS
  <2> HIDE DEF next, reached, count, locked, failed
  <2>8. LockType' /\ lock'[u].count = count /\ lock'[u].locked = locked /\ guesses'[u] = guesses[u] + 1
    BY <2>2, <2>3, <2>4, <2>5 DEF LockInv, LockType
  <2>9. \A v \in Subjects \ {u} : UNCHANGED <<lock[v], guesses[v]>>
    BY <2>4, <2>5 DEF LockInv, LockType
  <2>10. \A v \in Subjects \ {u} : Guessed(v)'
    BY <1>2, <1>4, <2>9 DEF Failed
  <2>11. /\ Cardinality(Pending(u)') \in Nat /\ Cardinality(Pending(u)) \in Nat
         /\ Cardinality(Jobs) \in Nat /\ Cardinality(Pending(u)) <= Cardinality(Jobs)
         /\ Cardinality(Pending(u)') < Cardinality(Pending(u))
    <3>1. Pending(u)' \subseteq Pending(u)
      BY <1>4 DEF Failed, FewerWait
    <3> QED BY <2>1, <3>1, FewerArePending, PendingIsBounded
  <2>12. Guessed(u)
    BY DEF LockInv
  <2>13. ASSUME ~locked PROVE Guessed(u)'
    <3>1. guesses[u] = lock[u].count /\ count = lock[u].count + 1
      BY <2>3, <2>7, <2>12, <2>13 DEF Guessed
    <3>2. count < MaxFailures
      BY <1>0, <2>2, <2>6, <2>7, <2>13, <3>1
    <3>3. ~lock'[u].locked
      BY <2>8, <2>13, Zenon
    <3>4. guesses'[u] = lock'[u].count /\ lock'[u].count < MaxFailures
      BY <2>8, <3>1, <3>2
    <3> QED BY <3>3, <3>4, Zenon DEF Guessed
  <2>14. ASSUME locked PROVE Guessed(u)'
    <3>0. lock'[u].locked
      BY <2>8, <2>14, Zenon
    <3>1. CASE lock[u].locked
      <4>1. guesses[u] + Cardinality(Pending(u)) <= MaxFailures - 1 + Cardinality(Jobs)
        BY <2>12, <3>1 DEF Guessed
      <4>2. guesses'[u] + Cardinality(Pending(u)') <= MaxFailures - 1 + Cardinality(Jobs)
        BY <1>0, <2>2, <2>8, <2>11, <4>1
      <4> QED BY <3>0, <4>2, Zenon DEF Guessed
    <3>2. CASE ~lock[u].locked
      <4>1. guesses[u] < MaxFailures
        BY <2>12, <3>2 DEF Guessed
      <4>2. guesses'[u] + Cardinality(Pending(u)') <= MaxFailures - 1 + Cardinality(Jobs)
        BY <1>0, <2>2, <2>8, <2>11, <4>1
      <4> QED BY <3>0, <4>2, Zenon DEF Guessed
    <3> QED BY <3>1, <3>2
  <2> QED BY <2>8, <2>10, <2>13, <2>14 DEF LockInv
<1>5. CASE Restart
  <2>1. /\ lock' = [u \in Subjects |-> [count |-> 0, locked |-> FALSE]]
        /\ guesses' = [u \in Subjects |-> 0]
    BY <1>5 DEF Restart
  <2>2. \A v \in Subjects : lock'[v] = [count |-> 0, locked |-> FALSE] /\ guesses'[v] = 0
    BY <2>1
  <2>3. \A v \in Subjects : Guessed(v)'
    BY <1>0, <2>2 DEF Guessed
  <2> QED BY <2>1, <2>3 DEF LockInv, LockType
<1>6. LockType
  BY DEF LockInv
<1> QED BY <1>1, <1>3, <1>4, <1>5, <1>6, LockKinds

LEMMA GuessesAreBounded ==
  ASSUME LockInv
  PROVE  GuessesBounded
<1> SUFFICES ASSUME NEW u \in Subjects
             PROVE  guesses[u] <= MaxFailures - 1 + Cardinality(Jobs)
  BY DEF GuessesBounded
<1>1. Guessed(u) /\ guesses[u] \in Nat /\ MaxFailures \in Nat \ {0}
  BY AccountsAssumption DEF LockInv, LockType
<1>2. Cardinality(Pending(u)) \in Nat /\ Cardinality(Jobs) \in Nat
  BY PendingIsBounded
<1> QED BY <1>1, <1>2 DEF Guessed, LockInv, LockType
-----------------------------------------------------------------------------
(* The inductive invariant, and what follows from it.                      *)
ActsType == acts \in 0 .. MaxActs

LEMMA ActsStep ==
  ASSUME ActsType, [AccNext]_accVars
  PROVE  ActsType'
<1>1. UNCHANGED acts \/ Act
  <2>1. ASSUME NEW j \in Jobs, Asks(j) PROVE UNCHANGED acts \/ Act
    BY <2>1, Zenon DEF Asks, Login, LoginWithPin, Setup, ChangePassword, SetPin, Act
  <2>2. ASSUME NEW j \in Jobs, LoginVerified(j) \/ PinVerified(j) \/ SetupHashed(j)
                               \/ ApplyPasswordChange(j) \/ PinHashed(j)
        PROVE  UNCHANGED acts
    BY <2>2, Zenon DEF LoginVerified, PinVerified, SetupHashed, ApplyPasswordChange, PinHashed
  <2>3. ASSUME EditsUsers \/ EditsGroups \/ ClearPin PROVE Act
    <3>1. ASSUME NEW u, NEW gs, NEW disable, PutUser(u, gs, disable) PROVE Act
      BY <3>1 DEF PutUser
    <3>2. ASSUME NEW u, LogoutAll(u) \/ DeleteUser(u) PROVE Act
      BY <3>2 DEF LogoutAll, DeleteUser
    <3>3. ASSUME EditsGroups \/ ClearPin \/ CreateUser PROVE Act
      BY <3>3, Zenon DEF EditsGroups, ClearPin, CreateUser, UpsertGroup, DeleteGroup
    <3> QED BY <2>3, <3>1, <3>2, <3>3 DEF EditsUsers
  <2>4. ASSUME Ages PROVE UNCHANGED acts \/ Act
    BY <2>4, Zenon DEF Ages, Refresh, EndSession, ExpireToken, LockoutEnds, Restart
  <2> QED BY <2>1, <2>2, <2>3, <2>4, NextKinds, Zenon DEF accVars
<1> QED BY <1>1, AccountsAssumption DEF ActsType, Act

AccInv ==
  /\ UserType /\ GroupType /\ KioskType /\ PoolType /\ EpochType /\ ActsType
  /\ LoginsKnown /\ SessionInv /\ TokenType /\ FreshTokens /\ SetupUnique /\ LockInv

LEMMA InitInv ==
  ASSUME AccInit
  PROVE  AccInv
<1>1. DOMAIN users = {} /\ known = {}
  BY DEF AccInit
<1>2. UserType /\ SetupUnique
  BY <1>1 DEF UserType, SetupUnique
<1>3. GroupType /\ KioskType
  BY AccountsAssumption DEF AccInit, GroupType, KioskType, BuiltIn
<1>4. PoolType /\ LoginsKnown /\ EpochType
  BY DEF AccInit, PoolType, LoginsKnown, EpochType, Job, Free
<1>5. ActsType /\ SessionInv
  BY AccountsAssumption DEF AccInit, ActsType, SessionInv
<1>6. TokenType /\ FreshTokens
  BY DEF AccInit, TokenType, FreshTokens
<1>7. LockInv
  <2>1. \A v \in Subjects : lock[v] = [count |-> 0, locked |-> FALSE] /\ guesses[v] = 0
    BY DEF AccInit
  <2>2. \A v \in Subjects : Guessed(v)
    BY <2>1, AccountsAssumption DEF Guessed
  <2> QED BY <2>2 DEF AccInit, LockInv, LockType
<1> QED BY <1>2, <1>3, <1>4, <1>5, <1>6, <1>7 DEF AccInv

LEMMA StepInv ==
  ASSUME AccInv, [AccNext]_accVars
  PROVE  AccInv'
<1>1. /\ UserType /\ GroupType /\ KioskType /\ PoolType /\ EpochType /\ ActsType
      /\ LoginsKnown /\ SessionInv /\ TokenType /\ FreshTokens /\ SetupUnique /\ LockInv
  BY DEF AccInv
<1>2. UserType' /\ UserStep
  BY <1>1, UserStepAlways
<1>3. GroupType' /\ ActsType'
  BY <1>1, GroupTypeStep, ActsStep
<1>4. KioskType' /\ KioskStep /\ EpochType'
  BY <1>1, KioskEpochStep
<1>5. PoolType' /\ LoginsKnown'
  BY <1>1, <1>2, PoolStep
<1>6. SessionInv'
  BY <1>1, SessionStep
<1>7. TokenType' /\ FreshTokens'
  BY <1>1, <1>2, <1>4, TokenStep
<1>8. SetupUnique' /\ LockInv'
  BY <1>1, <1>2, SetupStep, LockStep
<1> QED BY <1>2, <1>3, <1>4, <1>5, <1>6, <1>7, <1>8 DEF AccInv

LEMMA Invariance == AccSpec => []AccInv
<1>1. AccInit => AccInv
  BY InitInv
<1>2. AccInv /\ [AccNext]_accVars => AccInv'
  BY StepInv
<1> QED BY <1>1, <1>2, PTL DEF AccSpec

LEMMA ResolvingIsFresh ==
  ASSUME AccInv, NEW t \in tokens, Resolves(t)
  PROVE  /\ t.at = epoch[t.sub] \/ t.raced
         /\ t.sub \in Users => t.ents = EffectiveEntitlements(users[t.sub].groups)
<1>1. Fresh(t) /\ Kiosk \notin Users
  BY AccountsAssumption DEF AccInv, FreshTokens
<1>2. CASE t.sub = Kiosk
  <2>1. t.tokver = kiosk.tokver
    BY <1>2 DEF Resolves
  <2> QED BY <1>1, <1>2, <2>1 DEF Fresh, Timely
<1>3. CASE t.sub # Kiosk
  <2>1. t.sub \in DOMAIN users /\ t.tokver = users[t.sub].tokver
    BY <1>3 DEF Resolves
  <2> QED BY <1>1, <1>3, <2>1 DEF Fresh, Timely
<1> QED BY <1>2, <1>3

(* An access token that resolves (ResolveJwt) carries exactly what its     *)
(* user may do now: every route that changes a grant bumps the version of  *)
(* every user it touches, in any order with logins, rotations, restarts.   *)
THEOREM GrantsAreCurrent == AccSpec => []EntitlementsCurrent
<1>1. AccInv => EntitlementsCurrent
  BY ResolvingIsFresh DEF EntitlementsCurrent
<1> QED BY <1>1, Invariance, PTL

(* The stores keep their types; a session or a token from before a         *)
(* revocation (RevokeAllForUser) is honoured only if its login raced with  *)
(* it; an account answers at most MaxFailures - 1 wrong passwords beyond   *)
(* the requests in flight (RecordFailure); the first-run setup creates one *)
(* administrator (BootstrapAdminWithHash).                                 *)
THEOREM AccountsAreSafe == AccSpec => []AccountsSafe
<1>1. AccInv => AccTypeOK
  BY DEF AccInv, AccTypeOK, UserType, GroupType, KioskType, PoolType, EpochType, ActsType,
         SessionInv, TokenType, LockInv, LockType
<1>2. AccInv => RevokedStaysRevoked
  BY ResolvingIsFresh DEF RevokedStaysRevoked, AccInv, SessionInv
<1>3. AccInv => GuessesBounded /\ OneSetup
  BY GuessesAreBounded, SetupUniqueIsOne DEF AccInv
<1> QED BY <1>1, <1>2, <1>3, Invariance, PTL DEF AccountsSafe
=============================================================================
