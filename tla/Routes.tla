-------------------------------- MODULE Routes --------------------------------
(***************************************************************************)
(* The HTTP routes (src/core/http): what each demands of the caller, and   *)
(* what each handler does with a request, in the order the handler does it.*)
(*                                                                         *)
(* A request is abstracted to what the handlers branch on: its method, the *)
(* one precondition it fails to meet ("service": the service behind the    *)
(* route was not created, "json": the body does not parse, "target": the   *)
(* thing named does not exist, "ready": the pool's configuration is not    *)
(* known yet), whether each of the two parts some bodies have is absent,   *)
(* good or bad, and what the command dispatcher or the store will answer.  *)
(* A handler yields a status and the set of things it did.                 *)
(***************************************************************************)
EXTENDS Integers, FiniteSets

Methods == {"GET", "POST", "PUT", "DELETE"}
Parts == {"absent", "good", "bad"}
\* ICommandDispatcher::CommandResult; "Success" is also a store's consent
Results == {"Success", "DeviceNotFound", "UnknownEquipmentType", "NoSerialAdapter", "InvalidValue", "Busy"}
Requests == [m : Methods, fails : {"nothing", "service", "json", "target", "ready"}, a : Parts, b : Parts, result : Results]

Answer(status, did) == [status |-> status, did |-> did]
Refuse(status) == Answer(status, {})
Ok == Answer(200, {})
NotAllowed == Refuse(405)

\* StatusForCommandResult
StatusForCommandResult(result) ==
  CASE result = "Success" -> 200
    [] result = "InvalidValue" -> 400
    [] result \in {"DeviceNotFound", "NoSerialAdapter"} -> 503
    [] result = "UnknownEquipmentType" -> 422
    [] result = "Busy" -> 409

\* the dispatcher is asked, and does it if it says so
Dispatch(what, result) == Answer(StatusForCommandResult(result), IF result = "Success" THEN {what} ELSE {})

\* a mutant of the next: the change is made before the store is asked
StoreAnswerAnyway(what, result) == Answer(IF result = "Success" THEN 200 ELSE 409, {what})

\* a store takes the change, or refuses it (StatusForStoreError)
StoreAnswer(what, result) == IF result = "Success" THEN Answer(200, {what}) ELSE Refuse(409)

\* the order in which a handler finds out what is wrong with a request
Unless(in, bad, status, otherwise) == IF in.fails = bad THEN Refuse(status) ELSE otherwise

\* two optional parts, the first dispatched before the second is looked at
TwoParts(in, first, second) ==
  LET one == IF in.a = "good" THEN Dispatch(first, in.result) ELSE Ok
      two == IF in.b = "good" THEN Dispatch(second, in.result) ELSE Ok
  IN CASE in.a = "bad" -> Refuse(400)
       [] in.a # "bad" /\ in.b = "bad" -> Answer(400, one.did)
       [] OTHER -> Answer(IF one.status # 200 THEN one.status ELSE two.status, one.did \cup two.did)

-----------------------------------------------------------------------------
(* Equipment                                                               *)

\* HandleJsonCommandRoute
JsonCommand(in, what) ==
  IF in.m # "POST" THEN NotAllowed
  ELSE Unless(in, "service", 503, Unless(in, "json", 400,
         IF in.a # "good" THEN Refuse(400) ELSE Dispatch(what, in.result)))

\* the answer of ButtonToggle_MapResultToResponse differs for a lost device
ButtonToggle(result) ==
  IF result = "DeviceNotFound" THEN Refuse(404) ELSE Dispatch("toggle", result)

WebRoute_EquipmentButton(in) ==
  CASE in.m = "GET" -> Unless(in, "ready", 503, Unless(in, "target", 404, Ok))
    [] in.m = "POST" -> Unless(in, "ready", 503, Unless(in, "target", 404, Unless(in, "service", 503, ButtonToggle(in.result))))
    [] OTHER -> NotAllowed

WebRoute_EquipmentButtons(in) == IF in.m \in {"GET", "POST"} THEN Ok ELSE NotAllowed

WebRoute_EquipmentChlorinator(in) ==
  IF in.m # "POST" THEN NotAllowed
  ELSE Unless(in, "service", 503, Unless(in, "json", 400, TwoParts(in, "chlorinator", "boost")))

WebRoute_EquipmentCirculation(in) == JsonCommand(in, "circulation")
WebRoute_EquipmentHeater(in) == JsonCommand(in, "heater")

WebRoute_EquipmentIaq(in) ==
  IF in.m # "POST" THEN NotAllowed
  ELSE Unless(in, "service", 503, Unless(in, "json", 400,
         CASE in.a = "absent" -> Ok
           [] in.a = "bad" -> Refuse(400)
           [] in.a = "good" -> Dispatch("iaq", in.result)))

WebRoute_EquipmentSetpoints(in) ==
  CASE in.m = "GET" -> Ok
    [] in.m = "POST" -> Unless(in, "service", 503, Unless(in, "json", 400, TwoParts(in, "setpoint", "setpoint")))
    [] OTHER -> NotAllowed

\* press (part a) or assign (part b); an accepted assignment is also recorded
\* as a preference
WebRoute_EquipmentSpasideRemotes(in) ==
  CASE in.m = "GET" -> Ok
    [] in.m = "POST" ->
         Unless(in, "service", 503, Unless(in, "json", 400,
           CASE in.a = "good" -> Unless(in, "target", 404, IF in.result = "Success" THEN Answer(200, {"press"}) ELSE Refuse(409))
             [] in.a = "absent" /\ in.b = "good" ->
                  IF in.result = "Success" THEN Answer(200, {"assign", "recordAssignment"})
                  ELSE Refuse(IF in.result = "InvalidValue" THEN 400 ELSE IF in.result = "Busy" THEN 409 ELSE 503)
             [] OTHER -> Refuse(400)))
    [] OTHER -> NotAllowed

\* routes that only show something, whatever the method
WebRoute_Equipment(in) == Ok
WebRoute_EquipmentDevices(in) == Ok
WebRoute_EquipmentVersion(in) == Ok
WebRoute_Version(in) == Ok
WebRoute_Health(in) == Ok
WebRoute_Metrics(in) == Ok

-----------------------------------------------------------------------------
(* Schedules                                                               *)

\* the caller may not have a schedule do what it may not do itself
\* (AuthorizeSave, AuthorizeScheduleAction); mayAct: it may
WebRoute_Schedules(in, mayAct) ==
  Unless(in, "service", 503,
    CASE in.m = "GET" -> Ok
      [] in.m = "POST" -> IF in.a # "good" THEN Refuse(400)
                          ELSE IF ~mayAct THEN Refuse(403) ELSE Answer(201, {"schedule"})
      [] OTHER -> NotAllowed)

WebRoute_Schedule(in, mayAct) ==
  Unless(in, "service", 503,
    CASE in.m = "GET" -> Unless(in, "target", 404, Ok)
      [] in.m = "PUT" -> IF in.a # "good" THEN Refuse(400)
                         ELSE IF ~mayAct THEN Refuse(403) ELSE Unless(in, "target", 404, Answer(200, {"schedule"}))
      [] in.m = "DELETE" -> Unless(in, "target", 404, Answer(204, {"unschedule"}))
      [] OTHER -> NotAllowed)

\* a pair of schedules becomes a program of the controller
WebRoute_SchedulePromote(in) ==
  Unless(in, "service", 503,
    IF in.m # "POST" THEN NotAllowed
    ELSE Unless(in, "ready", 503, Unless(in, "target", 404,
           IF in.a # "good" THEN Refuse(422) ELSE IF in.b = "bad" THEN Refuse(400) ELSE Dispatch("program", in.result))))

WebRoute_ControllerSchedules(in) ==
  Unless(in, "service", 503,
    CASE in.m = "GET" -> Ok
      [] in.m = "POST" -> Unless(in, "ready", 503, Unless(in, "json", 400,
                            IF in.a # "good" THEN Refuse(400) ELSE Dispatch("program", in.result)))
      [] OTHER -> NotAllowed)

WebRoute_ControllerSchedule(in) ==
  Unless(in, "service", 503,
    IF in.m \notin {"PUT", "DELETE"} THEN NotAllowed
    ELSE Unless(in, "ready", 503, Unless(in, "target", 404,
           IF in.m = "DELETE" THEN Dispatch("unprogram", in.result)
           ELSE Unless(in, "json", 400, IF in.a # "good" THEN Refuse(400) ELSE Dispatch("program", in.result)))))

-----------------------------------------------------------------------------
(* Preferences: part a is the shared ones, part b the caller's own         *)

WebRoute_Preferences(in, perUser, admin) ==
  LET shared == IF in.a = "good" THEN {"preferences"} ELSE {} IN
  Unless(in, "service", 503,
    CASE in.m = "GET" -> Ok
      [] in.m = "PUT" ->
           Unless(in, "json", 400,
             CASE ~perUser -> IF in.a = "bad" \/ in.b = "bad" THEN Refuse(400) ELSE Answer(200, {"preferences"})
               [] perUser /\ in.a # "absent" /\ ~admin -> Refuse(403)
               [] perUser /\ in.a = "bad" /\ admin -> Refuse(400)
               [] OTHER -> IF in.b = "bad" THEN Answer(400, shared)
                           ELSE Answer(200, shared \cup IF in.b = "good" THEN {"ownPreferences"} ELSE {}))
      [] OTHER -> NotAllowed)

-----------------------------------------------------------------------------
(* Diagnostics                                                             *)

GetOnly(in) == IF in.m = "GET" THEN Ok ELSE NotAllowed

\* start (part a) or stop (part b)
WebRoute_DiagnosticsRecording(in) ==
  CASE in.m = "GET" -> Ok
    [] in.m = "POST" -> Unless(in, "service", 503, Unless(in, "json", 400,
         CASE in.a = "good" -> StoreAnswer("record", in.result)
           [] in.a = "absent" /\ in.b = "good" -> StoreAnswer("record", in.result)
           [] OTHER -> Refuse(400)))
    [] OTHER -> NotAllowed

WebRoute_DiagnosticsCaptures(in) == GetOnly(in)
WebRoute_DiagnosticsCapture(in) ==
  IF in.m # "GET" THEN NotAllowed
  ELSE IF in.a # "good" THEN Refuse(400)
  ELSE Unless(in, "target", 404, IF in.result # "Success" THEN Refuse(500) ELSE IF in.b = "bad" THEN Refuse(413) ELSE Ok)

\* every channel (part a) or one (part b)
WebRoute_DiagnosticsLogging(in) ==
  CASE in.m = "GET" -> Ok
    [] in.m = "POST" -> Unless(in, "json", 400,
         CASE in.a = "good" -> Answer(200, {"logging"})
           [] in.a = "absent" /\ in.b = "good" -> Answer(200, {"logging"})
           [] OTHER -> Refuse(400))
    [] OTHER -> NotAllowed

WebRoute_DiagnosticsProfiling(in) ==
  CASE in.m = "GET" -> Ok
    [] in.m = "POST" -> Unless(in, "service", 503, Unless(in, "json", 400,
         IF in.a # "good" THEN Refuse(400) ELSE StoreAnswer("profile", in.result)))
    [] OTHER -> NotAllowed

\* the labels are cleared and the emptied cache is saved
WebRoute_DiagnosticsAuxRediscovery(in) ==
  CASE in.m = "GET" -> Ok
    [] in.m = "POST" -> Unless(in, "service", 503,
         IF in.result = "Success" THEN Answer(200, {"rediscover", "saveCache"}) ELSE Refuse(409))
    [] OTHER -> NotAllowed

\* the copy the refresh thread made last, never the sidecar itself
WebRoute_DiagnosticsMatter(in) == GetOnly(in)
WebRoute_DiagnosticsMqtt(in) == GetOnly(in)
WebRoute_DiagnosticsOptions(in) == GetOnly(in)
WebRoute_DiagnosticsDevices(in) == GetOnly(in)
WebRoute_DiagnosticsActualDevices(in) == GetOnly(in)
WebRoute_HealthDetailed(in) == IF in.m # "GET" THEN NotAllowed ELSE Unless(in, "ready", 503, Ok)
WebRoute_History(in) == Unless(in, "service", 503, IF in.a = "absent" THEN Ok ELSE Unless(in, "target", 404, IF in.b = "bad" THEN Refuse(400) ELSE Ok))

-----------------------------------------------------------------------------
(* Accounts: the handlers around what module Accounts describes            *)

PostJson(in, answer) == IF in.m # "POST" THEN NotAllowed ELSE Unless(in, "json", 400, IF in.a # "good" THEN Refuse(400) ELSE answer)

WebRoute_AuthLogin(in) == PostJson(in, CASE in.result = "Success" -> Answer(200, {"login"})
                                [] in.result = "Busy" -> Refuse(429)
                                [] OTHER -> Refuse(401))
WebRoute_AuthPin(in) == PostJson(in, CASE in.result = "Success" -> Answer(200, {"login"})
                              [] in.result = "Busy" -> Refuse(429)
                              [] OTHER -> Refuse(401))
WebRoute_AuthRefresh(in) == PostJson(in, IF in.result = "Success" THEN Answer(200, {"login"}) ELSE Refuse(401))
WebRoute_AuthSetup(in) == PostJson(in, IF in.result = "Success" THEN Answer(201, {"firstAdmin"}) ELSE Refuse(403))
\* everywhere (part b) needs a caller that is known, not only the token
WebRoute_AuthLogout(in, known) == PostJson(in, IF in.b = "good" THEN IF known THEN Answer(204, {"logoutAll"}) ELSE Refuse(401)
                                      ELSE Answer(204, {"logout"}))
WebRoute_AuthMe(in) == Ok
WebRoute_AuthCheck(in) == Ok

WebRoute_Users(in) == IF in.m = "GET" THEN Ok ELSE PostJson(in, StoreAnswer("account", in.result))
\* the fields (part a), then the disabling (part b), which may be refused alone
WebRoute_User(in) ==
  Unless(in, "target", 404,
    CASE in.m = "GET" -> Ok
      [] in.m = "DELETE" -> StoreAnswer("account", in.result)
      [] in.m = "PUT" -> Unless(in, "json", 400,
           IF in.a = "bad" THEN Refuse(400)
           ELSE IF in.b = "good" /\ in.result # "Success" THEN Answer(409, {"account"}) ELSE StoreAnswer("account", in.result))
      [] OTHER -> NotAllowed)
WebRoute_UserPassword(in, self, admin) ==
  IF in.m # "PUT" THEN NotAllowed
  ELSE IF ~admin /\ ~self THEN Refuse(403)
  ELSE Unless(in, "target", 404, Unless(in, "json", 400, IF in.a # "good" THEN Refuse(400)
         ELSE StoreAnswer(IF self THEN "ownPassword" ELSE "account", in.result)))
WebRoute_Groups(in) == IF in.m = "GET" THEN Ok ELSE PostJson(in, Answer(200, {"account"}))
WebRoute_Group(in) == IF in.m # "DELETE" THEN NotAllowed ELSE Unless(in, "target", 404, StoreAnswer("account", in.result))
WebRoute_Sessions(in) == GetOnly(in)
WebRoute_Session(in, self, admin) ==
  IF in.m # "DELETE" THEN NotAllowed
  ELSE Unless(in, "target", 404, IF ~admin /\ ~self THEN Refuse(404) ELSE Answer(204, {IF self THEN "ownSession" ELSE "account"}))
WebRoute_ApiKeys(in) == IF in.m = "GET" THEN Ok ELSE PostJson(in, Answer(201, {"account"}))
WebRoute_ApiKey(in) == IF in.m # "DELETE" THEN NotAllowed ELSE Unless(in, "target", 404, Answer(204, {"account"}))
WebRoute_Kiosk(in) ==
  CASE in.m = "GET" -> Ok
    [] in.m = "DELETE" -> Answer(204, {"account"})
    [] in.m = "PUT" -> Unless(in, "json", 400, IF in.a # "good" \/ in.result # "Success" THEN Refuse(400) ELSE Answer(204, {"account"}))
    [] OTHER -> NotAllowed
WebRoute_Entitlements(in) == GetOnly(in)

-----------------------------------------------------------------------------
(* What a route demands (RequiredAccess), by view and by change            *)

Views(view, edit) == [GET |-> view, POST |-> edit, PUT |-> edit, DELETE |-> edit]
Always(action) == Views(action, action)
Nothing == Always("")

Access_Equipment == Always("equipment.view")
Access_EquipmentDevices == Always("equipment.view")
Access_EquipmentVersion == Always("equipment.view")
Access_EquipmentButtons == Always("equipment.view")
Access_History == Always("equipment.view")
Access_EquipmentButton == Views("equipment.view", "equipment.control.aux")
Access_EquipmentChlorinator == Views("equipment.view", "equipment.control.chlorinator")
Access_EquipmentCirculation == Views("equipment.view", "equipment.control.circulation")
Access_EquipmentHeater == Views("equipment.view", "equipment.control.heater")
Access_EquipmentIAQ == Views("equipment.view", "equipment.control.iaq")
Access_EquipmentSetpoints == Views("equipment.view", "equipment.control.setpoints")
Access_EquipmentSpasideRemotes == Views("equipment.view", "equipment.control.spaside")
Access_Schedules == Views("schedules.view", "schedules.edit")
Access_Schedule == Views("schedules.view", "schedules.edit")
Access_ControllerSchedules == Views("schedules.view", "schedules.edit")
Access_ControllerSchedule == Views("schedules.view", "schedules.edit")
Access_SchedulePromote == Always("schedules.edit")
Access_Preferences == Always("prefs.self")
Access_Sessions == Always("prefs.self")
Access_Session == Always("prefs.self")
Access_UserPassword == Always("prefs.self")
Access_DiagnosticsRecording == Views("diagnostics.view", "system.admin")
Access_DiagnosticsCaptures == Views("diagnostics.view", "system.admin")
Access_DiagnosticsCapture == Views("diagnostics.view", "system.admin")
Access_DiagnosticsLogging == Views("diagnostics.view", "system.admin")
Access_DiagnosticsProfiling == Views("diagnostics.view", "system.admin")
Access_DiagnosticsAuxRediscovery == Views("diagnostics.view", "system.admin")
Access_DiagnosticsMatter == Views("diagnostics.view", "system.admin")
Access_DiagnosticsMqtt == Views("diagnostics.view", "system.admin")
Access_DiagnosticsOptions == Views("diagnostics.view", "system.admin")
Access_DiagnosticsDevices == Views("diagnostics.view", "system.admin")
Access_DiagnosticsActualDevices == Views("diagnostics.view", "system.admin")
Access_HealthDetailed == Always("diagnostics.view")
Access_Metrics == Always("diagnostics.view")
Access_Users == Always("system.admin")
Access_User == Always("system.admin")
Access_Groups == Always("system.admin")
Access_Group == Always("system.admin")
Access_ApiKeys == Always("system.admin")
Access_ApiKey == Always("system.admin")
Access_Kiosk == Always("system.admin")
Access_Entitlements == Always("system.admin")

RequiredAccess ==
  [equipment |-> Access_Equipment, devices |-> Access_EquipmentDevices, equipmentVersion |-> Access_EquipmentVersion,
   buttons |-> Access_EquipmentButtons, history |-> Access_History, button |-> Access_EquipmentButton,
   chlorinator |-> Access_EquipmentChlorinator, circulation |-> Access_EquipmentCirculation, heater |-> Access_EquipmentHeater,
   iaq |-> Access_EquipmentIAQ, setpoints |-> Access_EquipmentSetpoints, spaside |-> Access_EquipmentSpasideRemotes,
   schedules |-> Access_Schedules, schedule |-> Access_Schedule, controllerSchedules |-> Access_ControllerSchedules,
   controllerSchedule |-> Access_ControllerSchedule, promote |-> Access_SchedulePromote, preferences |-> Access_Preferences,
   sessions |-> Access_Sessions, session |-> Access_Session, password |-> Access_UserPassword,
   recording |-> Access_DiagnosticsRecording, captures |-> Access_DiagnosticsCaptures, capture |-> Access_DiagnosticsCapture,
   logging |-> Access_DiagnosticsLogging, profiling |-> Access_DiagnosticsProfiling, rediscovery |-> Access_DiagnosticsAuxRediscovery,
   matter |-> Access_DiagnosticsMatter, mqtt |-> Access_DiagnosticsMqtt, options |-> Access_DiagnosticsOptions,
   diagDevices |-> Access_DiagnosticsDevices, actualDevices |-> Access_DiagnosticsActualDevices, healthDetailed |-> Access_HealthDetailed,
   metrics |-> Access_Metrics, users |-> Access_Users, user |-> Access_User,
   groups |-> Access_Groups, group |-> Access_Group, apikeys |-> Access_ApiKeys,
   apikey |-> Access_ApiKey, kiosk |-> Access_Kiosk, entitlements |-> Access_Entitlements,
   login |-> Nothing, pin |-> Nothing, refresh |-> Nothing, setup |-> Nothing, logout |-> Nothing, me |-> Nothing,
   check |-> Nothing, health |-> Nothing, version |-> Nothing]

RouteNames == DOMAIN RequiredAccess

\* PolicyEngine::Decide and EntitlementSet::Permits
Permits(who, action) == action = "" \/ "system.admin" \in who.ents \/ action \in who.ents

\* the handler of a route; perUser: preferences are kept by user
Handle(r, in, who, perUser) ==
  LET admin == ~perUser \/ "system.admin" \in who.ents
      mayAct == ~perUser \/ Permits(who, "equipment.control.aux")
  IN CASE r = "equipment" -> WebRoute_Equipment(in) [] r = "devices" -> WebRoute_EquipmentDevices(in)
       [] r = "equipmentVersion" -> WebRoute_EquipmentVersion(in) [] r = "buttons" -> WebRoute_EquipmentButtons(in)
       [] r = "history" -> WebRoute_History(in) [] r = "button" -> WebRoute_EquipmentButton(in)
       [] r = "chlorinator" -> WebRoute_EquipmentChlorinator(in) [] r = "circulation" -> WebRoute_EquipmentCirculation(in)
       [] r = "heater" -> WebRoute_EquipmentHeater(in) [] r = "iaq" -> WebRoute_EquipmentIaq(in)
       [] r = "setpoints" -> WebRoute_EquipmentSetpoints(in) [] r = "spaside" -> WebRoute_EquipmentSpasideRemotes(in)
       [] r = "schedules" -> WebRoute_Schedules(in, mayAct) [] r = "schedule" -> WebRoute_Schedule(in, mayAct)
       [] r = "controllerSchedules" -> WebRoute_ControllerSchedules(in)
       [] r = "controllerSchedule" -> WebRoute_ControllerSchedule(in) [] r = "promote" -> WebRoute_SchedulePromote(in)
       [] r = "preferences" -> WebRoute_Preferences(in, perUser /\ who.known, admin)
       [] r = "sessions" -> WebRoute_Sessions(in) [] r = "session" -> WebRoute_Session(in, who.self, admin)
       [] r = "password" -> WebRoute_UserPassword(in, who.self, admin) [] r = "recording" -> WebRoute_DiagnosticsRecording(in)
       [] r = "captures" -> WebRoute_DiagnosticsCaptures(in) [] r = "capture" -> WebRoute_DiagnosticsCapture(in)
       [] r = "logging" -> WebRoute_DiagnosticsLogging(in) [] r = "profiling" -> WebRoute_DiagnosticsProfiling(in)
       [] r = "rediscovery" -> WebRoute_DiagnosticsAuxRediscovery(in) [] r = "matter" -> WebRoute_DiagnosticsMatter(in)
       [] r = "mqtt" -> WebRoute_DiagnosticsMqtt(in) [] r = "options" -> WebRoute_DiagnosticsOptions(in)
       [] r = "diagDevices" -> WebRoute_DiagnosticsDevices(in) [] r = "actualDevices" -> WebRoute_DiagnosticsActualDevices(in)
       [] r = "healthDetailed" -> WebRoute_HealthDetailed(in) [] r = "metrics" -> WebRoute_Metrics(in)
       [] r = "users" -> WebRoute_Users(in) [] r = "user" -> WebRoute_User(in) [] r = "groups" -> WebRoute_Groups(in)
       [] r = "group" -> WebRoute_Group(in) [] r = "apikeys" -> WebRoute_ApiKeys(in) [] r = "apikey" -> WebRoute_ApiKey(in)
       [] r = "kiosk" -> WebRoute_Kiosk(in) [] r = "entitlements" -> WebRoute_Entitlements(in)
       [] r = "login" -> WebRoute_AuthLogin(in) [] r = "pin" -> WebRoute_AuthPin(in) [] r = "refresh" -> WebRoute_AuthRefresh(in)
       [] r = "setup" -> WebRoute_AuthSetup(in) [] r = "logout" -> WebRoute_AuthLogout(in, who.known)
       [] r = "me" -> WebRoute_AuthMe(in) [] r = "check" -> WebRoute_AuthCheck(in)
       [] r = "health" -> WebRoute_Health(in) [] r = "version" -> WebRoute_Version(in)
=============================================================================
