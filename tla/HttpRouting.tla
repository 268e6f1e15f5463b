----------------------------- MODULE HttpRouting -----------------------------
(***************************************************************************)
(* The router (src/core/http/server/routing): every request passes the     *)
(* configured security policy, then the entitlement check of its route,    *)
(* and only then reaches the handler. The subject of the request being     *)
(* dispatched is a global; the routes that hash a password off the kernel  *)
(* thread are answered later, when that global may be another request's.   *)
(***************************************************************************)
EXTENDS Routes

CONSTANTS Modes,      \* "open": no token; "token": a shared token; "auth": accounts
          Callers,    \* who may ask: [known, self, ents]
          MaxBearers, \* MAX_FAILURES wrong tokens from one address
          MaxWaiting  \* bound on the hashes under way

ASSUME RoutingAssumption == MaxBearers \in Nat \ {0} /\ MaxWaiting \in Nat

\* Only accounts and keys have things of their own: the groups Guest and
\* Everyone are created empty, and are not given prefs.self.
ASSUME CallersAssumption ==
  \A c \in Callers : /\ c.known \in BOOLEAN /\ c.self \in BOOLEAN
                     /\ ~c.known /\ "prefs.self" \in c.ents => "system.admin" \in c.ents

VARIABLES mode,      \* SecurityConfig
          bearers,   \* AuthRateLimiter, for one address: wrong tokens, -1 while it is banned
          exchange,  \* the request being answered, the subject its handler acts for, the answer
          subject,   \* current_subject
          hashing    \* requests of asynchronous routes whose completion is outstanding

routingVars == <<mode, bearers, exchange, subject, hashing>>

Idle == [r |-> "none"]
Root == [known |-> FALSE, self |-> FALSE, ents |-> {}]

\* what is asked for besides the routes: a file of the web page, a path nobody
\* registered, and a target that is no path
Elsewhere == {"static", "unknown", "malformed"}

\* the check of the security policy the request fails, if any
Faults == {"none", "origin", "bearer", "csrf"}

\* a mutant of it: a banned address may go on guessing
EvaluateSecurityUnbanned(in, fault) ==
  CASE fault = "origin" -> 403
    [] fault = "bearer" /\ mode = "token" -> 401
    [] fault = "csrf" /\ in.m # "GET" -> 403
    [] OTHER -> 200

\* EvaluateSecurity and EvaluateBearerToken, in their order
EvaluateSecurity(in, fault) ==
  CASE fault = "origin" -> 403
    [] fault # "origin" /\ mode = "token" /\ bearers = -1 -> 429
    [] fault = "bearer" /\ mode = "token" /\ bearers # -1 -> 401
    [] fault = "csrf" /\ in.m # "GET" -> 403
    [] OTHER -> 200

\* a mutant of it: off by one at the limit
CountBearerPast(fault) ==
  bearers' = IF mode # "token" \/ fault = "origin" \/ bearers = -1 THEN bearers
             ELSE IF fault # "bearer" THEN 0
             ELSE IF bearers + 1 > MaxBearers THEN -1 ELSE bearers + 1

\* IsBanned, RecordFailure, RecordSuccess
CountBearer(fault) ==
  bearers' = IF mode # "token" \/ fault = "origin" \/ bearers = -1 THEN bearers
             ELSE IF fault # "bearer" THEN 0
             ELSE IF bearers + 1 >= MaxBearers THEN -1 ELSE bearers + 1

\* a mutant of it: the entitlement of a route is taken to be that of its view
EvaluateAccessOfView(r, in, who) ==
  IF mode # "auth" \/ Permits(who, RequiredAccess[r]["GET"]) THEN 200 ELSE IF who.known THEN 403 ELSE 401

EvaluateAccess(r, in, who) ==
  IF mode # "auth" \/ Permits(who, RequiredAccess[r][in.m]) THEN 200 ELSE IF who.known THEN 403 ELSE 401

\* nothing is registered for the path: an unknown caller learns no more than
\* that it may not look
BuildUnmatchedPathResponse(in, who, fault) ==
  LET secure == EvaluateSecurity(in, fault) IN
  Refuse(IF secure # 200 THEN secure ELSE IF mode = "auth" /\ ~who.known THEN 401 ELSE 404)

\* Which requests an asynchronous route hands to the pool (Offload.Run): all
\* its own checks are passed, what is left is the hash and the store.
Defers(r, in, who) ==
  /\ in.fails = "nothing" /\ in.a = "good"
  /\ \/ r \in {"login", "pin", "setup", "users"} /\ in.m = "POST"
     \/ r = "kiosk" /\ in.m = "PUT"
     \/ r = "password" /\ in.m = "PUT" /\ (who.self \/ "system.admin" \in who.ents)

\* HTTP_OnRequestDispatch
Request(r, in, who, fault) ==
  LET secure == IF r = "health" THEN 200 ELSE EvaluateSecurity(in, fault)
      access == EvaluateAccess(r, in, who)
      ans == CASE r = "malformed" -> Refuse(400)
               [] r = "static" -> Ok
               [] r = "unknown" -> BuildUnmatchedPathResponse(in, who, fault)
               [] r \in RouteNames /\ secure # 200 -> Refuse(secure)
               [] r \in RouteNames /\ secure = 200 /\ access # 200 -> Refuse(access)
               [] OTHER -> Handle(r, in, who, mode = "auth")
      admitted == r \in RouteNames /\ secure = 200 /\ access = 200
  IN /\ exchange = Idle
     /\ IF r \in {"health", "static", "malformed"} THEN UNCHANGED bearers ELSE CountBearer(fault)
     /\ subject' = IF r \in {"static", "malformed"} \/ secure # 200 THEN subject ELSE who
     /\ IF admitted /\ Defers(r, in, who)
          THEN /\ Cardinality(hashing) < MaxWaiting
               /\ hashing' = hashing \cup {[r |-> r, in |-> in, who |-> who, actor |-> who]}
               /\ UNCHANGED exchange
          ELSE /\ exchange' = [r |-> r, in |-> in, who |-> who, actor |-> subject', ans |-> ans]
               /\ UNCHANGED hashing
     /\ UNCHANGED mode

\* the answer of an asynchronous route, for the actor it captured
Answered(job, actor) ==
  /\ exchange' = [r |-> job.r, in |-> job.in, who |-> job.who, actor |-> actor,
                  ans |-> Handle(job.r, job.in, job.who, mode = "auth")]
  /\ hashing' = hashing \ {job}
  /\ UNCHANGED <<mode, bearers, subject>>

\* a mutant of it: the completion asks the router who the subject is
CompletedForSubject(job) == exchange = Idle /\ Answered(job, subject)

\* the completion posted by the offload pool runs on the kernel thread
Completed(job) == exchange = Idle /\ Answered(job, job.actor)

\* the response is written
Respond ==
  /\ exchange # Idle
  /\ exchange' = Idle
  /\ UNCHANGED <<mode, bearers, subject, hashing>>

BanEnds ==
  /\ bearers = -1 /\ exchange = Idle
  /\ bearers' = 0
  /\ UNCHANGED <<mode, exchange, subject, hashing>>

RoutingInit == mode \in Modes /\ bearers = 0 /\ exchange = Idle /\ subject = Root /\ hashing = {}

Plain == [m |-> "POST", fails |-> "nothing", a |-> "good", b |-> "good", result |-> "Success"]
\* the dispatcher or the store is only asked about a request that lacks nothing
Inputs == {in \in Requests : in.fails # "nothing" => in.result = "Success"}
\* without accounts nobody is told apart (the resolver is not installed)
Asking == IF mode = "auth" THEN Callers \cup {Root} ELSE {Root}

\* One request at a time in every variation; while a hash is under way, or
\* after a fault, the plain ones of a few routes are enough.
RoutingNext ==
  \/ exchange = Idle /\ hashing = {} /\ subject = Root /\
       \E r \in RouteNames, in \in Inputs, who \in Asking : Request(r, in, who, "none")
  \/ exchange = Idle /\ \E r \in {"users", "password", "me"} \cup Elsewhere, who \in Asking :
       Request(r, [Plain EXCEPT !.m = IF r = "password" THEN "PUT" ELSE "POST"], who, "none")
  \/ exchange = Idle /\ hashing = {} /\ \E r \in {"health", "button"} \cup Elsewhere, fault \in Faults \ {"none"}, m \in {"GET", "POST"} :
       Request(r, [Plain EXCEPT !.m = m], Root, fault)
  \/ exchange = Idle /\ \E job \in hashing : Completed(job)
  \/ Respond
  \/ BanEnds

RoutingSpec == RoutingInit /\ [][RoutingNext]_routingVars

-----------------------------------------------------------------------------
(* Properties                                                              *)

RoutingTypeOK ==
  /\ mode \in Modes
  /\ bearers \in -1 .. MaxBearers - 1
  /\ subject \in Callers \cup {Root}
  /\ Cardinality(hashing) <= MaxWaiting
  /\ exchange = Idle \/ (exchange.r \in RouteNames \cup Elsewhere /\ exchange.in \in Requests /\ exchange.ans.status \in 200..599)

\* what an effect takes, whichever route brings it about
Needs(effect) ==
  CASE effect = "toggle" -> "equipment.control.aux"
    [] effect \in {"chlorinator", "boost"} -> "equipment.control.chlorinator"
    [] effect = "circulation" -> "equipment.control.circulation"
    [] effect = "heater" -> "equipment.control.heater"
    [] effect = "iaq" -> "equipment.control.iaq"
    [] effect = "setpoint" -> "equipment.control.setpoints"
    [] effect \in {"press", "assign", "recordAssignment"} -> "equipment.control.spaside"
    [] effect \in {"schedule", "unschedule", "program", "unprogram"} -> "schedules.edit"
    [] effect \in {"ownPreferences", "ownPassword", "ownSession"} -> "prefs.self"
    [] effect \in {"login", "logout", "logoutAll", "firstAdmin"} -> ""
    [] OTHER -> "system.admin"

\* With accounts on, nothing is changed for a caller who lacks the
\* entitlement for that change, whatever the route, the method, the state of
\* the request and the order in which the handler checks it.
EffectsEntitled ==
  mode = "auth" /\ exchange # Idle => \A e \in exchange.ans.did : Permits(exchange.who, Needs(e))

\* What a handler does and records, it does for the caller who asked, also
\* when it finishes after other requests have been dispatched.
ActorIsAsker ==
  exchange # Idle /\ exchange.ans.did # {} => exchange.actor = exchange.who

\* A request that is answered with an error has changed nothing, with four
\* exceptions: a body with two parts whose second is bad after the first was
\* carried out (chlorinator, setpoints, preferences), and an account whose
\* fields were saved before its disabling was refused.
RefusedChangesNothing ==
  exchange # Idle /\ exchange.ans.status >= 400 /\ exchange.ans.did # {} =>
    \/ exchange.r \in {"chlorinator", "setpoints"} /\ exchange.in.a = "good"
    \/ exchange.r = "preferences" /\ exchange.in.b = "bad" /\ Permits(exchange.who, "system.admin")
    \/ exchange.r = "user" /\ exchange.in.b = "good"

\* While an address is banned, nothing of the API but the health probe is
\* answered to it: no right or wrong token is told from the other.
BannedLearnsNothing ==
  [][bearers = -1 /\ bearers' = -1 /\ exchange = Idle /\ exchange' # Idle /\ hashing' = hashing =>
       exchange'.ans.status \in {403, 429} \/ exchange'.r \in {"health", "static", "malformed"}]_routingVars

\* The router and the handlers together: every effect is entitled, done for
\* the caller who asked, and not reported as refused.
RoutingSafe == RoutingTypeOK /\ EffectsEntitled /\ ActorIsAsker /\ RefusedChangesNothing
=============================================================================
