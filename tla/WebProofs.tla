----------------------------- MODULE WebProofs -----------------------------
(***************************************************************************)
(* Proofs about the router and its handlers (HttpRouting), for any callers *)
(* and limits, and about the scheduler whose list the handlers edit, for   *)
(* every list of schedules, length of a day, tick interval and lateness    *)
(* with TickInterval + MaxLate < MinuteLength.                             *)
(*                                                                         *)
(* RoutingSafe speaks of the answer under way.  Its invariant (RoutingInv) *)
(* adds the requests whose password is being hashed: each has passed its   *)
(* entitlement check, and its completion acts for the caller it captured,  *)
(* not for the subject of the request the router is serving by then.  That *)
(* an entitled request leads to a sound answer is a fact about each of the *)
(* fifty handlers (HandlersAreSound).                                      *)
(*                                                                         *)
(* NeverMissed is not inductive: when the minute ends it must be known     *)
(* that a tick came in it.  The invariant Paced says so by the timer: in a *)
(* minute without a tick the timer has been waiting since before the       *)
(* minute began, so the frame loop cannot let the minute pass.             *)
(***************************************************************************)
EXTENDS HttpRouting, Scheduler, FiniteSetTheorems, TLAPS

-----------------------------------------------------------------------------
(* The router                                                              *)

(* What may be done and reported for a request that the entitlement check  *)
(* has let pass (with p: accounts are on).                                 *)
Entitled(r, in, who, p) == p => Permits(who, RequiredAccess[r][in.m])
Excused(r, in, who) ==
  \/ r \in {"chlorinator", "setpoints"} /\ in.a = "good"
  \/ r = "preferences" /\ in.b = "bad" /\ Permits(who, "system.admin")
  \/ r = "user" /\ in.b = "good"
SoundAnswer(ans, r, in, who, p) ==
  /\ ans.status \in 200 .. 599
  /\ p => \A e \in ans.did : Permits(who, Needs(e))
  /\ ans.status >= 400 /\ ans.did # {} => Excused(r, in, who)

(* An answer by its outline: what it may have done, and when it may be a   *)
(* refusal nevertheless.                                                   *)
Within(ans, in, may, excuse) ==
  /\ ans.status \in 200 .. 599 /\ ans.did \subseteq may
  /\ in.m = "GET" => ans.did = {}
  /\ ans.status >= 400 /\ ans.did # {} => excuse

LEMMA WithinIsSound ==
  ASSUME NEW ans, NEW r, NEW in, NEW who, NEW p \in BOOLEAN, NEW may, NEW need, NEW excuse,
         Within(ans, in, may, excuse), Entitled(r, in, who, p),
         in.m # "GET" => RequiredAccess[r][in.m] = need, \A e \in may : Needs(e) = need,
         excuse => Excused(r, in, who)
  PROVE  SoundAnswer(ans, r, in, who, p)
BY DEF Within, Entitled, SoundAnswer

(* The routes that only show.                                              *)
LEMMA ShowingRoutes ==
  ASSUME NEW in \in Requests, NEW who, NEW p,
         NEW r \in {"equipment", "devices", "equipmentVersion", "buttons", "history",
                    "captures", "capture", "matter", "mqtt", "options", "diagDevices",
                    "actualDevices", "healthDetailed", "metrics", "sessions", "entitlements",
                    "me", "check", "health", "version"}
  PROVE  SoundAnswer(Handle(r, in, who, p), r, in, who, p)
<1>1. Handle(r, in, who, p) \in {Ok, NotAllowed} \cup {Refuse(status) : status \in {400, 404, 413, 500, 503}}
  BY DEF Handle, WebRoute_Equipment, WebRoute_EquipmentDevices, WebRoute_EquipmentVersion,
         WebRoute_EquipmentButtons, WebRoute_History, WebRoute_DiagnosticsCaptures,
         WebRoute_DiagnosticsCapture, WebRoute_DiagnosticsMatter, WebRoute_DiagnosticsMqtt,
         WebRoute_DiagnosticsOptions, WebRoute_DiagnosticsDevices,
         WebRoute_DiagnosticsActualDevices, WebRoute_HealthDetailed, WebRoute_Metrics,
         WebRoute_Sessions, WebRoute_Entitlements, WebRoute_AuthMe, WebRoute_AuthCheck,
         WebRoute_Health, WebRoute_Version, GetOnly, Unless
<1>2. Handle(r, in, who, p).status \in 200 .. 599 /\ Handle(r, in, who, p).did = {}
  BY <1>1 DEF Ok, NotAllowed, Answer, Refuse
<1> QED BY <1>2 DEF SoundAnswer

(* The routes that act on the equipment.                                   *)
LEMMA EquipmentRoutes ==
  ASSUME NEW in \in Requests, NEW who, NEW p \in BOOLEAN,
         NEW r \in {"button", "chlorinator", "circulation", "heater", "iaq", "setpoints",
                    "spaside"}, Entitled(r, in, who, p)
  PROVE  SoundAnswer(Handle(r, in, who, p), r, in, who, p)
<1>1. CASE r = "button"
  <2>1. Handle(r, in, who, p) = WebRoute_EquipmentButton(in)
    BY <1>1 DEF Handle
  <2>2. Within(WebRoute_EquipmentButton(in), in, {"toggle"}, FALSE)
    BY DEF WebRoute_EquipmentButton, ButtonToggle, Dispatch, StatusForCommandResult, Within,
           Unless, Refuse, Answer, Ok, NotAllowed, Requests, Results, Methods, Parts
  <2>3. in.m # "GET" => RequiredAccess[r][in.m] = "equipment.control.aux"
    BY <1>1 DEF RequiredAccess, Access_EquipmentButton, Always, Views, Requests, Methods
  <2>4. \A e \in {"toggle"} : Needs(e) = "equipment.control.aux"
    BY DEF Needs
  <2>5. FALSE => Excused(r, in, who)
    BY <1>1 DEF Excused
  <2> QED BY <2>1, <2>2, <2>3, <2>4, <2>5 DEF Within, SoundAnswer, Entitled
<1>2. CASE r = "chlorinator"
  <2>1. Handle(r, in, who, p) = WebRoute_EquipmentChlorinator(in)
    BY <1>2 DEF Handle
  <2>2. Within(WebRoute_EquipmentChlorinator(in), in, {"chlorinator", "boost"}, in.a = "good")
    BY DEF WebRoute_EquipmentChlorinator, TwoParts, Dispatch, StatusForCommandResult, Within,
           Unless, Refuse, Answer, Ok, NotAllowed, Requests, Results, Methods, Parts
  <2>3. in.m # "GET" => RequiredAccess[r][in.m] = "equipment.control.chlorinator"
    BY <1>2 DEF RequiredAccess, Access_EquipmentChlorinator, Always, Views, Requests, Methods
  <2>4. \A e \in {"chlorinator", "boost"} : Needs(e) = "equipment.control.chlorinator"
    BY DEF Needs
  <2>5. in.a = "good" => Excused(r, in, who)
    BY <1>2 DEF Excused
  <2> QED BY <2>1, <2>2, <2>3, <2>4, <2>5 DEF Within, SoundAnswer, Entitled
<1>3. CASE r = "circulation"
  <2>1. Handle(r, in, who, p) = WebRoute_EquipmentCirculation(in)
    BY <1>3 DEF Handle
  <2>2. Within(WebRoute_EquipmentCirculation(in), in, {"circulation"}, FALSE)
    BY DEF WebRoute_EquipmentCirculation, JsonCommand, Dispatch, StatusForCommandResult, Within,
           Unless, Refuse, Answer, Ok, NotAllowed, Requests, Results, Methods, Parts
  <2>3. in.m # "GET" => RequiredAccess[r][in.m] = "equipment.control.circulation"
    BY <1>3 DEF RequiredAccess, Access_EquipmentCirculation, Always, Views, Requests, Methods
  <2>4. \A e \in {"circulation"} : Needs(e) = "equipment.control.circulation"
    BY DEF Needs
  <2>5. FALSE => Excused(r, in, who)
    BY <1>3 DEF Excused
  <2> QED BY <2>1, <2>2, <2>3, <2>4, <2>5 DEF Within, SoundAnswer, Entitled
<1>4. CASE r = "heater"
  <2>1. Handle(r, in, who, p) = WebRoute_EquipmentHeater(in)
    BY <1>4 DEF Handle
  <2>2. Within(WebRoute_EquipmentHeater(in), in, {"heater"}, FALSE)
    BY DEF WebRoute_EquipmentHeater, JsonCommand, Dispatch, StatusForCommandResult, Within,
           Unless, Refuse, Answer, Ok, NotAllowed, Requests, Results, Methods, Parts
  <2>3. in.m # "GET" => RequiredAccess[r][in.m] = "equipment.control.heater"
    BY <1>4 DEF RequiredAccess, Access_EquipmentHeater, Always, Views, Requests, Methods
  <2>4. \A e \in {"heater"} : Needs(e) = "equipment.control.heater"
    BY DEF Needs
  <2>5. FALSE => Excused(r, in, who)
    BY <1>4 DEF Excused
  <2> QED BY <2>1, <2>2, <2>3, <2>4, <2>5 DEF Within, SoundAnswer, Entitled
<1>5. CASE r = "iaq"
  <2>1. Handle(r, in, who, p) = WebRoute_EquipmentIaq(in)
    BY <1>5 DEF Handle
  <2>2. Within(WebRoute_EquipmentIaq(in), in, {"iaq"}, FALSE)
    BY DEF WebRoute_EquipmentIaq, Dispatch, StatusForCommandResult, Within, Unless, Refuse,
           Answer, Ok, NotAllowed, Requests, Results, Methods, Parts
  <2>3. in.m # "GET" => RequiredAccess[r][in.m] = "equipment.control.iaq"
    BY <1>5 DEF RequiredAccess, Access_EquipmentIAQ, Always, Views, Requests, Methods
  <2>4. \A e \in {"iaq"} : Needs(e) = "equipment.control.iaq"
    BY DEF Needs
  <2>5. FALSE => Excused(r, in, who)
    BY <1>5 DEF Excused
  <2> QED BY <2>1, <2>2, <2>3, <2>4, <2>5 DEF Within, SoundAnswer, Entitled
<1>6. CASE r = "setpoints"
  <2>1. Handle(r, in, who, p) = WebRoute_EquipmentSetpoints(in)
    BY <1>6 DEF Handle
  <2>2. Within(WebRoute_EquipmentSetpoints(in), in, {"setpoint"}, in.a = "good")
    BY DEF WebRoute_EquipmentSetpoints, TwoParts, Dispatch, StatusForCommandResult, Within,
           Unless, Refuse, Answer, Ok, NotAllowed, Requests, Results, Methods, Parts
  <2>3. in.m # "GET" => RequiredAccess[r][in.m] = "equipment.control.setpoints"
    BY <1>6 DEF RequiredAccess, Access_EquipmentSetpoints, Always, Views, Requests, Methods
  <2>4. \A e \in {"setpoint"} : Needs(e) = "equipment.control.setpoints"
    BY DEF Needs
  <2>5. in.a = "good" => Excused(r, in, who)
    BY <1>6 DEF Excused
  <2> QED BY <2>1, <2>2, <2>3, <2>4, <2>5 DEF Within, SoundAnswer, Entitled
<1>7. CASE r = "spaside"
  <2>1. Handle(r, in, who, p) = WebRoute_EquipmentSpasideRemotes(in)
    BY <1>7 DEF Handle
  <2>2. Within(WebRoute_EquipmentSpasideRemotes(in), in, {"press", "assign", "recordAssignment"}, FALSE)
    BY DEF WebRoute_EquipmentSpasideRemotes, Within, Unless, Refuse, Answer, Ok, NotAllowed,
           Requests, Results, Methods, Parts
  <2>3. in.m # "GET" => RequiredAccess[r][in.m] = "equipment.control.spaside"
    BY <1>7 DEF RequiredAccess, Access_EquipmentSpasideRemotes, Always, Views, Requests, Methods
  <2>4. \A e \in {"press", "assign", "recordAssignment"} : Needs(e) = "equipment.control.spaside"
    BY DEF Needs
  <2>5. FALSE => Excused(r, in, who)
    BY <1>7 DEF Excused
  <2> QED BY <2>1, <2>2, <2>3, <2>4, <2>5 DEF Within, SoundAnswer, Entitled
<1> QED BY <1>1, <1>2, <1>3, <1>4, <1>5, <1>6, <1>7

(* The routes that edit schedules, the program's own and the controller's. *)
LEMMA ScheduleRoutes ==
  ASSUME NEW in \in Requests, NEW who, NEW p \in BOOLEAN,
         NEW r \in {"schedules", "schedule", "controllerSchedules", "controllerSchedule",
                    "promote"}, Entitled(r, in, who, p)
  PROVE  SoundAnswer(Handle(r, in, who, p), r, in, who, p)
<1> DEFINE mayAct == ~p \/ Permits(who, "equipment.control.aux")
<1>1. CASE r = "schedules"
  <2>1. Handle(r, in, who, p) = WebRoute_Schedules(in, mayAct)
    BY <1>1 DEF Handle
  <2>2. Within(WebRoute_Schedules(in, mayAct), in, {"schedule"}, FALSE)
    BY DEF WebRoute_Schedules, Within, Unless, Refuse, Answer, Ok, NotAllowed, Requests, Results,
           Methods, Parts
  <2>3. in.m # "GET" => RequiredAccess[r][in.m] = "schedules.edit"
    BY <1>1 DEF RequiredAccess, Access_Schedules, Always, Views, Requests, Methods
  <2>4. \A e \in {"schedule"} : Needs(e) = "schedules.edit"
    BY DEF Needs
  <2>5. FALSE => Excused(r, in, who)
    BY <1>1 DEF Excused
  <2> QED BY <2>1, <2>2, <2>3, <2>4, <2>5 DEF Within, SoundAnswer, Entitled
<1>2. CASE r = "schedule"
  <2>1. Handle(r, in, who, p) = WebRoute_Schedule(in, mayAct)
    BY <1>2 DEF Handle
  <2>2. Within(WebRoute_Schedule(in, mayAct), in, {"schedule", "unschedule"}, FALSE)
    BY DEF WebRoute_Schedule, Within, Unless, Refuse, Answer, Ok, NotAllowed, Requests, Results,
           Methods, Parts
  <2>3. in.m # "GET" => RequiredAccess[r][in.m] = "schedules.edit"
    BY <1>2 DEF RequiredAccess, Access_Schedule, Always, Views, Requests, Methods
  <2>4. \A e \in {"schedule", "unschedule"} : Needs(e) = "schedules.edit"
    BY DEF Needs
  <2>5. FALSE => Excused(r, in, who)
    BY <1>2 DEF Excused
  <2> QED BY <2>1, <2>2, <2>3, <2>4, <2>5 DEF Within, SoundAnswer, Entitled
<1>3. CASE r = "controllerSchedules"
  <2>1. Handle(r, in, who, p) = WebRoute_ControllerSchedules(in)
    BY <1>3 DEF Handle
  <2>2. Within(WebRoute_ControllerSchedules(in), in, {"program"}, FALSE)
    BY DEF WebRoute_ControllerSchedules, Dispatch, StatusForCommandResult, Within, Unless, Refuse,
           Answer, Ok, NotAllowed, Requests, Results, Methods, Parts
  <2>3. in.m # "GET" => RequiredAccess[r][in.m] = "schedules.edit"
    BY <1>3 DEF RequiredAccess, Access_ControllerSchedules, Always, Views, Requests, Methods
  <2>4. \A e \in {"program"} : Needs(e) = "schedules.edit"
    BY DEF Needs
  <2>5. FALSE => Excused(r, in, who)
    BY <1>3 DEF Excused
  <2> QED BY <2>1, <2>2, <2>3, <2>4, <2>5 DEF Within, SoundAnswer, Entitled
<1>4. CASE r = "controllerSchedule"
  <2>1. Handle(r, in, who, p) = WebRoute_ControllerSchedule(in)
    BY <1>4 DEF Handle
  <2>2. Within(WebRoute_ControllerSchedule(in), in, {"program", "unprogram"}, FALSE)
    BY DEF WebRoute_ControllerSchedule, Dispatch, StatusForCommandResult, Within, Unless, Refuse,
           Answer, Ok, NotAllowed, Requests, Results, Methods, Parts
  <2>3. in.m # "GET" => RequiredAccess[r][in.m] = "schedules.edit"
    BY <1>4 DEF RequiredAccess, Access_ControllerSchedule, Always, Views, Requests, Methods
  <2>4. \A e \in {"program", "unprogram"} : Needs(e) = "schedules.edit"
    BY DEF Needs
  <2>5. FALSE => Excused(r, in, who)
    BY <1>4 DEF Excused
  <2> QED BY <2>1, <2>2, <2>3, <2>4, <2>5 DEF Within, SoundAnswer, Entitled
<1>5. CASE r = "promote"
  <2>1. Handle(r, in, who, p) = WebRoute_SchedulePromote(in)
    BY <1>5 DEF Handle
  <2>2. Within(WebRoute_SchedulePromote(in), in, {"program"}, FALSE)
    BY DEF WebRoute_SchedulePromote, Dispatch, StatusForCommandResult, Within, Unless, Refuse,
           Answer, Ok, NotAllowed, Requests, Results, Methods, Parts
  <2>3. in.m # "GET" => RequiredAccess[r][in.m] = "schedules.edit"
    BY <1>5 DEF RequiredAccess, Access_SchedulePromote, Always, Views, Requests, Methods
  <2>4. \A e \in {"program"} : Needs(e) = "schedules.edit"
    BY DEF Needs
  <2>5. FALSE => Excused(r, in, who)
    BY <1>5 DEF Excused
  <2> QED BY <2>1, <2>2, <2>3, <2>4, <2>5 DEF Within, SoundAnswer, Entitled
<1> QED BY <1>1, <1>2, <1>3, <1>4, <1>5

(* The routes that anybody may ask.                                        *)
LEMMA SignInRoutes ==
  ASSUME NEW in \in Requests, NEW who, NEW p \in BOOLEAN,
         NEW r \in {"login", "pin", "refresh", "setup", "logout"}, Entitled(r, in, who, p)
  PROVE  SoundAnswer(Handle(r, in, who, p), r, in, who, p)
<1>1. CASE r = "login"
  <2>1. Handle(r, in, who, p) = WebRoute_AuthLogin(in)
    BY <1>1 DEF Handle
  <2>2. Within(WebRoute_AuthLogin(in), in, {"login"}, FALSE)
    BY DEF WebRoute_AuthLogin, PostJson, Within, Unless, Refuse, Answer, Ok, NotAllowed, Requests,
           Results, Methods, Parts
  <2>3. \A e \in {"login"} : Permits(who, Needs(e))
    BY DEF Needs, Permits
  <2> QED BY <2>1, <2>2, <2>3 DEF Within, SoundAnswer
<1>2. CASE r = "pin"
  <2>1. Handle(r, in, who, p) = WebRoute_AuthPin(in)
    BY <1>2 DEF Handle
  <2>2. Within(WebRoute_AuthPin(in), in, {"login"}, FALSE)
    BY DEF WebRoute_AuthPin, PostJson, Within, Unless, Refuse, Answer, Ok, NotAllowed, Requests,
           Results, Methods, Parts
  <2>3. \A e \in {"login"} : Permits(who, Needs(e))
    BY DEF Needs, Permits
  <2> QED BY <2>1, <2>2, <2>3 DEF Within, SoundAnswer
<1>3. CASE r = "refresh"
  <2>1. Handle(r, in, who, p) = WebRoute_AuthRefresh(in)
    BY <1>3 DEF Handle
  <2>2. Within(WebRoute_AuthRefresh(in), in, {"login"}, FALSE)
    BY DEF WebRoute_AuthRefresh, PostJson, Within, Unless, Refuse, Answer, Ok, NotAllowed,
           Requests, Results, Methods, Parts
  <2>3. \A e \in {"login"} : Permits(who, Needs(e))
    BY DEF Needs, Permits
  <2> QED BY <2>1, <2>2, <2>3 DEF Within, SoundAnswer
<1>4. CASE r = "setup"
  <2>1. Handle(r, in, who, p) = WebRoute_AuthSetup(in)
    BY <1>4 DEF Handle
  <2>2. Within(WebRoute_AuthSetup(in), in, {"firstAdmin"}, FALSE)
    BY DEF WebRoute_AuthSetup, PostJson, Within, Unless, Refuse, Answer, Ok, NotAllowed, Requests,
           Results, Methods, Parts
  <2>3. \A e \in {"firstAdmin"} : Permits(who, Needs(e))
    BY DEF Needs, Permits
  <2> QED BY <2>1, <2>2, <2>3 DEF Within, SoundAnswer
<1>5. CASE r = "logout"
  <2>1. Handle(r, in, who, p) = WebRoute_AuthLogout(in, who.known)
    BY <1>5 DEF Handle
  <2>2. Within(WebRoute_AuthLogout(in, who.known), in, {"logout", "logoutAll"}, FALSE)
    BY DEF WebRoute_AuthLogout, PostJson, Within, Unless, Refuse, Answer, Ok, NotAllowed,
           Requests, Results, Methods, Parts
  <2>3. \A e \in {"logout", "logoutAll"} : Permits(who, Needs(e))
    BY DEF Needs, Permits
  <2> QED BY <2>1, <2>2, <2>3 DEF Within, SoundAnswer
<1> QED BY <1>1, <1>2, <1>3, <1>4, <1>5

(* The routes of the administrators.                                       *)
LEMMA AdminRoutes ==
  ASSUME NEW in \in Requests, NEW who, NEW p \in BOOLEAN,
         NEW r \in {"recording", "logging", "profiling", "rediscovery", "users", "user",
                    "groups", "group", "apikeys", "apikey", "kiosk"}, Entitled(r, in, who, p)
  PROVE  SoundAnswer(Handle(r, in, who, p), r, in, who, p)
<1>1. CASE r = "recording"
  <2>1. Handle(r, in, who, p) = WebRoute_DiagnosticsRecording(in)
    BY <1>1 DEF Handle
  <2>2. Within(WebRoute_DiagnosticsRecording(in), in, {"record"}, FALSE)
    BY DEF WebRoute_DiagnosticsRecording, StoreAnswer, Within, Unless, Refuse, Answer, Ok,
           NotAllowed, Requests, Results, Methods, Parts
  <2>3. in.m # "GET" => RequiredAccess[r][in.m] = "system.admin"
    BY <1>1 DEF RequiredAccess, Access_DiagnosticsRecording, Always, Views, Requests, Methods
  <2>4. \A e \in {"record"} : Needs(e) = "system.admin"
    BY DEF Needs
  <2>5. FALSE => Excused(r, in, who)
    BY <1>1 DEF Excused
  <2> QED BY <2>1, <2>2, <2>3, <2>4, <2>5 DEF Within, SoundAnswer, Entitled
<1>2. CASE r = "logging"
  <2>1. Handle(r, in, who, p) = WebRoute_DiagnosticsLogging(in)
    BY <1>2 DEF Handle
  <2>2. Within(WebRoute_DiagnosticsLogging(in), in, {"logging"}, FALSE)
    BY DEF WebRoute_DiagnosticsLogging, Within, Unless, Refuse, Answer, Ok, NotAllowed, Requests,
           Results, Methods, Parts
  <2>3. in.m # "GET" => RequiredAccess[r][in.m] = "system.admin"
    BY <1>2 DEF RequiredAccess, Access_DiagnosticsLogging, Always, Views, Requests, Methods
  <2>4. \A e \in {"logging"} : Needs(e) = "system.admin"
    BY DEF Needs
  <2>5. FALSE => Excused(r, in, who)
    BY <1>2 DEF Excused
  <2> QED BY <2>1, <2>2, <2>3, <2>4, <2>5 DEF Within, SoundAnswer, Entitled
<1>3. CASE r = "profiling"
  <2>1. Handle(r, in, who, p) = WebRoute_DiagnosticsProfiling(in)
    BY <1>3 DEF Handle
  <2>2. Within(WebRoute_DiagnosticsProfiling(in), in, {"profile"}, FALSE)
    BY DEF WebRoute_DiagnosticsProfiling, StoreAnswer, Within, Unless, Refuse, Answer, Ok,
           NotAllowed, Requests, Results, Methods, Parts
  <2>3. in.m # "GET" => RequiredAccess[r][in.m] = "system.admin"
    BY <1>3 DEF RequiredAccess, Access_DiagnosticsProfiling, Always, Views, Requests, Methods
  <2>4. \A e \in {"profile"} : Needs(e) = "system.admin"
    BY DEF Needs
  <2>5. FALSE => Excused(r, in, who)
    BY <1>3 DEF Excused
  <2> QED BY <2>1, <2>2, <2>3, <2>4, <2>5 DEF Within, SoundAnswer, Entitled
<1>4. CASE r = "rediscovery"
  <2>1. Handle(r, in, who, p) = WebRoute_DiagnosticsAuxRediscovery(in)
    BY <1>4 DEF Handle
  <2>2. Within(WebRoute_DiagnosticsAuxRediscovery(in), in, {"rediscover", "saveCache"}, FALSE)
    BY DEF WebRoute_DiagnosticsAuxRediscovery, Within, Unless, Refuse, Answer, Ok, NotAllowed,
           Requests, Results, Methods, Parts
  <2>3. in.m # "GET" => RequiredAccess[r][in.m] = "system.admin"
    BY <1>4 DEF RequiredAccess, Access_DiagnosticsAuxRediscovery, Always, Views, Requests, Methods
  <2>4. \A e \in {"rediscover", "saveCache"} : Needs(e) = "system.admin"
    BY DEF Needs
  <2>5. FALSE => Excused(r, in, who)
    BY <1>4 DEF Excused
  <2> QED BY <2>1, <2>2, <2>3, <2>4, <2>5 DEF Within, SoundAnswer, Entitled
<1>5. CASE r = "users"
  <2>1. Handle(r, in, who, p) = WebRoute_Users(in)
    BY <1>5 DEF Handle
  <2>2. Within(WebRoute_Users(in), in, {"account"}, FALSE)
    BY DEF WebRoute_Users, PostJson, StoreAnswer, Within, Unless, Refuse, Answer, Ok, NotAllowed,
           Requests, Results, Methods, Parts
  <2>3. in.m # "GET" => RequiredAccess[r][in.m] = "system.admin"
    BY <1>5 DEF RequiredAccess, Access_Users, Always, Views, Requests, Methods
  <2>4. \A e \in {"account"} : Needs(e) = "system.admin"
    BY DEF Needs
  <2>5. FALSE => Excused(r, in, who)
    BY <1>5 DEF Excused
  <2> QED BY <2>1, <2>2, <2>3, <2>4, <2>5 DEF Within, SoundAnswer, Entitled
<1>6. CASE r = "user"
  <2>1. Handle(r, in, who, p) = WebRoute_User(in)
    BY <1>6 DEF Handle
  <2>2. Within(WebRoute_User(in), in, {"account"}, in.b = "good")
    BY DEF WebRoute_User, StoreAnswer, Within, Unless, Refuse, Answer, Ok, NotAllowed, Requests,
           Results, Methods, Parts
  <2>3. in.m # "GET" => RequiredAccess[r][in.m] = "system.admin"
    BY <1>6 DEF RequiredAccess, Access_User, Always, Views, Requests, Methods
  <2>4. \A e \in {"account"} : Needs(e) = "system.admin"
    BY DEF Needs
  <2>5. in.b = "good" => Excused(r, in, who)
    BY <1>6 DEF Excused
  <2> QED BY <2>1, <2>2, <2>3, <2>4, <2>5 DEF Within, SoundAnswer, Entitled
<1>7. CASE r = "groups"
  <2>1. Handle(r, in, who, p) = WebRoute_Groups(in)
    BY <1>7 DEF Handle
  <2>2. Within(WebRoute_Groups(in), in, {"account"}, FALSE)
    BY DEF WebRoute_Groups, PostJson, Within, Unless, Refuse, Answer, Ok, NotAllowed, Requests,
           Results, Methods, Parts
  <2>3. in.m # "GET" => RequiredAccess[r][in.m] = "system.admin"
    BY <1>7 DEF RequiredAccess, Access_Groups, Always, Views, Requests, Methods
  <2>4. \A e \in {"account"} : Needs(e) = "system.admin"
    BY DEF Needs
  <2>5. FALSE => Excused(r, in, who)
    BY <1>7 DEF Excused
  <2> QED BY <2>1, <2>2, <2>3, <2>4, <2>5 DEF Within, SoundAnswer, Entitled
<1>8. CASE r = "group"
  <2>1. Handle(r, in, who, p) = WebRoute_Group(in)
    BY <1>8 DEF Handle
  <2>2. Within(WebRoute_Group(in), in, {"account"}, FALSE)
    BY DEF WebRoute_Group, StoreAnswer, Within, Unless, Refuse, Answer, Ok, NotAllowed, Requests,
           Results, Methods, Parts
  <2>3. in.m # "GET" => RequiredAccess[r][in.m] = "system.admin"
    BY <1>8 DEF RequiredAccess, Access_Group, Always, Views, Requests, Methods
  <2>4. \A e \in {"account"} : Needs(e) = "system.admin"
    BY DEF Needs
  <2>5. FALSE => Excused(r, in, who)
    BY <1>8 DEF Excused
  <2> QED BY <2>1, <2>2, <2>3, <2>4, <2>5 DEF Within, SoundAnswer, Entitled
<1>9. CASE r = "apikeys"
  <2>1. Handle(r, in, who, p) = WebRoute_ApiKeys(in)
    BY <1>9 DEF Handle
  <2>2. Within(WebRoute_ApiKeys(in), in, {"account"}, FALSE)
    BY DEF WebRoute_ApiKeys, PostJson, Within, Unless, Refuse, Answer, Ok, NotAllowed, Requests,
           Results, Methods, Parts
  <2>3. in.m # "GET" => RequiredAccess[r][in.m] = "system.admin"
    BY <1>9 DEF RequiredAccess, Access_ApiKeys, Always, Views, Requests, Methods
  <2>4. \A e \in {"account"} : Needs(e) = "system.admin"
    BY DEF Needs
  <2>5. FALSE => Excused(r, in, who)
    BY <1>9 DEF Excused
  <2> QED BY <2>1, <2>2, <2>3, <2>4, <2>5 DEF Within, SoundAnswer, Entitled
<1>10. CASE r = "apikey"
  <2>1. Handle(r, in, who, p) = WebRoute_ApiKey(in)
    BY <1>10 DEF Handle
  <2>2. Within(WebRoute_ApiKey(in), in, {"account"}, FALSE)
    BY DEF WebRoute_ApiKey, Within, Unless, Refuse, Answer, Ok, NotAllowed, Requests, Results,
           Methods, Parts
  <2>3. in.m # "GET" => RequiredAccess[r][in.m] = "system.admin"
    BY <1>10 DEF RequiredAccess, Access_ApiKey, Always, Views, Requests, Methods
  <2>4. \A e \in {"account"} : Needs(e) = "system.admin"
    BY DEF Needs
  <2>5. FALSE => Excused(r, in, who)
    BY <1>10 DEF Excused
  <2> QED BY <2>1, <2>2, <2>3, <2>4, <2>5 DEF Within, SoundAnswer, Entitled
<1>11. CASE r = "kiosk"
  <2>1. Handle(r, in, who, p) = WebRoute_Kiosk(in)
    BY <1>11 DEF Handle
  <2>2. Within(WebRoute_Kiosk(in), in, {"account"}, FALSE)
    BY DEF WebRoute_Kiosk, Within, Unless, Refuse, Answer, Ok, NotAllowed, Requests, Results,
           Methods, Parts
  <2>3. in.m # "GET" => RequiredAccess[r][in.m] = "system.admin"
    BY <1>11 DEF RequiredAccess, Access_Kiosk, Always, Views, Requests, Methods
  <2>4. \A e \in {"account"} : Needs(e) = "system.admin"
    BY DEF Needs
  <2>5. FALSE => Excused(r, in, who)
    BY <1>11 DEF Excused
  <2> QED BY <2>1, <2>2, <2>3, <2>4, <2>5 DEF Within, SoundAnswer, Entitled
<1> QED BY <1>1, <1>2, <1>3, <1>4, <1>5, <1>6, <1>7, <1>8, <1>9, <1>10, <1>11

(* The routes about what belongs to a caller, where an administrator may   *)
(* also touch what is another's or everybody's.                            *)
LEMMA OwnRoutes ==
  ASSUME NEW in \in Requests, NEW who, who.self \in BOOLEAN, who.known \in BOOLEAN, NEW p \in BOOLEAN,
         ~who.known /\ Permits(who, "prefs.self") => Permits(who, "system.admin"),
         NEW r \in {"preferences", "session", "password"}, Entitled(r, in, who, p)
  PROVE  SoundAnswer(Handle(r, in, who, p), r, in, who, p)
<1> DEFINE admin == ~p \/ "system.admin" \in who.ents
<1>1. p => Permits(who, "prefs.self")
  BY DEF Entitled, RequiredAccess, Access_Preferences, Access_Session, Access_UserPassword, Always, Views, Requests, Methods
<1>2. /\ \A e \in {"ownPreferences", "ownPassword", "ownSession"} : Needs(e) = "prefs.self"
      /\ \A e \in {"preferences", "account"} : Needs(e) = "system.admin"
  BY DEF Needs
<1>3. p /\ admin => Permits(who, "system.admin")
  BY DEF Permits
<1>4. CASE r = "session"
  <2>1. Handle(r, in, who, p) = WebRoute_Session(in, who.self, admin)
    BY <1>4 DEF Handle
  <2>2. /\ WebRoute_Session(in, who.self, admin).status \in 200 .. 599
        /\ WebRoute_Session(in, who.self, admin).did \subseteq {"ownSession", "account"}
        /\ "account" \in WebRoute_Session(in, who.self, admin).did => admin
        /\ WebRoute_Session(in, who.self, admin).status >= 400 => WebRoute_Session(in, who.self, admin).did = {}
    BY DEF WebRoute_Session, NotAllowed, Unless, Refuse, Answer
  <2> QED BY <1>1, <1>2, <1>3, <2>1, <2>2 DEF SoundAnswer
<1>5. CASE r = "password"
  <2>1. Handle(r, in, who, p) = WebRoute_UserPassword(in, who.self, admin)
    BY <1>5 DEF Handle
  <2>2. /\ WebRoute_UserPassword(in, who.self, admin).status \in 200 .. 599
        /\ WebRoute_UserPassword(in, who.self, admin).did \subseteq {"ownPassword", "account"}
        /\ "account" \in WebRoute_UserPassword(in, who.self, admin).did => admin
        /\ WebRoute_UserPassword(in, who.self, admin).status >= 400 => WebRoute_UserPassword(in, who.self, admin).did = {}
    BY DEF WebRoute_UserPassword, NotAllowed, Unless, StoreAnswer, Refuse, Answer
  <2> QED BY <1>1, <1>2, <1>3, <2>1, <2>2 DEF SoundAnswer
<1>6. CASE r = "preferences"
  <2> DEFINE perUser == p /\ who.known
             ans == WebRoute_Preferences(in, perUser, admin)
  <2>1. Handle(r, in, who, p) = ans
    BY <1>6 DEF Handle
  <2>2. /\ ans.status \in 200 .. 599
        /\ ans.did \subseteq {"ownPreferences", "preferences"}
        /\ "preferences" \in ans.did => ~perUser \/ admin
        /\ ans.status >= 400 /\ ans.did # {} => perUser /\ admin /\ in.b = "bad"
    BY DEF WebRoute_Preferences, NotAllowed, Unless, Ok, Refuse, Answer, Requests, Parts
  <2>3. p /\ "preferences" \in ans.did => Permits(who, "system.admin")
    BY <1>1, <1>3, <2>2
  <2>4. ans.status >= 400 /\ ans.did # {} => Excused(r, in, who)
    BY <1>3, <1>6, <2>2 DEF Excused
  <2> HIDE DEF ans
  <2> QED BY <1>1, <1>2, <2>1, <2>2, <2>3, <2>4 DEF SoundAnswer
<1> QED BY <1>4, <1>5, <1>6

(* Whoever may ask.                                                        *)
Caller == Callers \cup {Root}

LEMMA CallersAreKnown ==
  ASSUME NEW who \in Caller
  PROVE  /\ who.self \in BOOLEAN /\ who.known \in BOOLEAN
         /\ ~who.known /\ Permits(who, "prefs.self") => Permits(who, "system.admin")
<1>1. CASE who \in Callers
  BY <1>1, CallersAssumption DEF Permits
<1>2. CASE who = Root
  BY <1>2 DEF Root, Permits
<1> QED BY <1>1, <1>2 DEF Caller

LEMMA NamesOfRoutes ==
  /\ RouteNames = {"equipment", "devices", "equipmentVersion", "buttons", "history", "button",
                   "chlorinator", "circulation", "heater", "iaq", "setpoints", "spaside",
                   "schedules", "schedule", "controllerSchedules", "controllerSchedule",
                   "promote", "preferences", "sessions", "session", "password", "recording",
                   "captures", "capture", "logging", "profiling", "rediscovery", "matter", "mqtt",
                   "options", "diagDevices", "actualDevices", "healthDetailed", "metrics",
                   "users", "user", "groups", "group", "apikeys", "apikey", "kiosk",
                   "entitlements", "login", "pin", "refresh", "setup", "logout", "me", "check",
                   "health", "version"}
  /\ RouteNames \cap Elsewhere = {}
<1>1. RouteNames = {"equipment", "devices", "equipmentVersion", "buttons", "history", "button",
                    "chlorinator", "circulation", "heater", "iaq", "setpoints", "spaside",
                    "schedules", "schedule", "controllerSchedules", "controllerSchedule",
                    "promote", "preferences", "sessions", "session", "password", "recording",
                    "captures", "capture", "logging", "profiling", "rediscovery", "matter",
                    "mqtt", "options", "diagDevices", "actualDevices", "healthDetailed",
                    "metrics", "users", "user", "groups", "group", "apikeys", "apikey", "kiosk",
                    "entitlements", "login", "pin", "refresh", "setup", "logout", "me", "check",
                    "health", "version"}
  BY DEF RouteNames, RequiredAccess
<1> QED BY <1>1 DEF Elsewhere

(* Every handler, for every request and every caller.                      *)
LEMMA HandlersAreSound ==
  ASSUME NEW r \in RouteNames, NEW in \in Requests, NEW who \in Caller, NEW p \in BOOLEAN,
         Entitled(r, in, who, p)
  PROVE  SoundAnswer(Handle(r, in, who, p), r, in, who, p)
<1>1. CASE r \in {"equipment", "devices", "equipmentVersion", "buttons", "history", "captures",
                  "capture", "matter", "mqtt", "options", "diagDevices", "actualDevices",
                  "healthDetailed", "metrics", "sessions", "entitlements", "me", "check",
                  "health", "version"}
  BY <1>1, ShowingRoutes
<1>2. CASE r \in {"button", "chlorinator", "circulation", "heater", "iaq", "setpoints", "spaside"}
  BY <1>2, EquipmentRoutes
<1>3. CASE r \in {"schedules", "schedule", "controllerSchedules", "controllerSchedule", "promote"}
  BY <1>3, ScheduleRoutes
<1>4. CASE r \in {"login", "pin", "refresh", "setup", "logout"}
  BY <1>4, SignInRoutes
<1>5. CASE r \in {"recording", "logging", "profiling", "rediscovery", "users", "user", "groups",
                  "group", "apikeys", "apikey", "kiosk"}
  BY <1>5, AdminRoutes
<1>6. CASE r \in {"preferences", "session", "password"}
  BY <1>6, CallersAreKnown, OwnRoutes
<1> QED BY <1>1, <1>2, <1>3, <1>4, <1>5, <1>6, NamesOfRoutes

(* A request under way has passed its check, and remembers who asked; what *)
(* is answered is sound, and what was done was done for the caller.        *)
Hashed(job) ==
  /\ job.r \in RouteNames /\ job.in \in Requests /\ job.who \in Caller /\ job.actor = job.who
  /\ Entitled(job.r, job.in, job.who, mode = "auth")

Sound(x) ==
  /\ x.r \in RouteNames \cup Elsewhere /\ x.in \in Requests
  /\ SoundAnswer(x.ans, x.r, x.in, x.who, mode = "auth")
  /\ x.ans.did # {} => x.actor = x.who

RoutingInv ==
  /\ mode \in Modes /\ bearers \in -1 .. MaxBearers - 1 /\ subject \in Caller
  /\ IsFiniteSet(hashing) /\ Cardinality(hashing) <= MaxWaiting
  /\ \A job \in hashing : Hashed(job)
  /\ exchange = Idle \/ Sound(exchange)

LEMMA RefusalsAreSound ==
  ASSUME NEW ans, ans.status \in 200 .. 599, ans.did = {}, NEW r, NEW in, NEW who, NEW p
  PROVE  SoundAnswer(ans, r, in, who, p)
BY DEF SoundAnswer

(* The limit on wrong tokens.                                              *)
LEMMA BearersStayBelow ==
  ASSUME NEW fault, CountBearer(fault) \/ UNCHANGED bearers, bearers \in -1 .. MaxBearers - 1
  PROVE  bearers' \in -1 .. MaxBearers - 1
BY RoutingAssumption DEF CountBearer

LEMMA RequestKeeps ==
  ASSUME RoutingInv, NEW r \in RouteNames \cup Elsewhere, NEW in \in Requests, NEW who \in Caller, NEW fault,
         Request(r, in, who, fault)
  PROVE  RoutingInv'
<1> DEFINE secure == IF r = "health" THEN 200 ELSE EvaluateSecurity(in, fault)
           access == EvaluateAccess(r, in, who)
           ans == CASE r = "malformed" -> Refuse(400)
                    [] r = "static" -> Ok
                    [] r = "unknown" -> BuildUnmatchedPathResponse(in, who, fault)
                    [] r \in RouteNames /\ secure # 200 -> Refuse(secure)
                    [] r \in RouteNames /\ secure = 200 /\ access # 200 -> Refuse(access)
                    [] OTHER -> Handle(r, in, who, mode = "auth")
           admitted == r \in RouteNames /\ secure = 200 /\ access = 200
           job == [r |-> r, in |-> in, who |-> who, actor |-> who]
<1>1. EvaluateSecurity(in, fault) \in {200, 401, 403, 429} /\ access \in {200, 401, 403}
  BY DEF EvaluateSecurity, EvaluateAccess
<1>2. ASSUME ~admitted PROVE ans.status \in 200 .. 599 /\ ans.did = {}
  <2>1. ans \in {Ok, Refuse(400), Refuse(401), Refuse(403), Refuse(404), Refuse(429)}
    BY <1>1, <1>2, NamesOfRoutes DEF BuildUnmatchedPathResponse, Elsewhere
  <2> QED BY <2>1 DEF Ok, Refuse, Answer
<1>3. ASSUME admitted
      PROVE  /\ Entitled(r, in, who, mode = "auth")
             /\ ans = Handle(r, in, who, mode = "auth")
             /\ subject' = who
  <2>1. r \in RouteNames /\ r \notin {"static", "malformed", "unknown"} /\ secure = 200 /\ access = 200
    BY <1>3, NamesOfRoutes DEF Elsewhere
  <2>2. Entitled(r, in, who, mode = "auth")
    BY <2>1 DEF Entitled, EvaluateAccess
  <2>3. ans = Handle(r, in, who, mode = "auth")
    BY <2>1
  <2>4. subject' = who
    BY <2>1 DEF Request
  <2> QED BY <2>2, <2>3, <2>4
<1>4. SoundAnswer(ans, r, in, who, mode = "auth") /\ (ans.did # {} => r \in RouteNames /\ subject' = who)
  <2>1. CASE ~admitted
    BY <1>2, <2>1, RefusalsAreSound
  <2>2. CASE admitted
    <3>1. r \in RouteNames /\ (mode = "auth") \in BOOLEAN
      BY <2>2
    <3>2. SoundAnswer(Handle(r, in, who, mode = "auth"), r, in, who, mode = "auth")
      BY <1>3, <2>2, <3>1, HandlersAreSound
    <3> QED BY <1>3, <2>2, <3>1, <3>2
  <2> QED BY <2>1, <2>2
<1>5. /\ subject' \in {subject, who}
      /\ CountBearer(fault) \/ UNCHANGED bearers
      /\ UNCHANGED mode
      /\ \/ /\ exchange' = [r |-> r, in |-> in, who |-> who, actor |-> subject', ans |-> ans]
            /\ UNCHANGED hashing
         \/ /\ admitted /\ UNCHANGED exchange
            /\ Cardinality(hashing) < MaxWaiting
            /\ hashing' = hashing \cup {job}
  BY DEF Request
<1> HIDE DEF ans, admitted
<1>6. mode' \in Modes /\ bearers' \in -1 .. MaxBearers - 1 /\ subject' \in Caller
  BY <1>5, BearersStayBelow DEF RoutingInv
<1>7. CASE exchange' = [r |-> r, in |-> in, who |-> who, actor |-> subject', ans |-> ans] /\ UNCHANGED hashing
  <2>1. Sound(exchange)'
    BY <1>4, <1>5, <1>7 DEF Sound
  <2>2. \A x \in hashing' : Hashed(x)'
    BY <1>5, <1>7 DEF RoutingInv, Hashed
  <2> QED BY <1>6, <1>7, <2>1, <2>2 DEF RoutingInv
<1>8. CASE admitted /\ UNCHANGED exchange /\ Cardinality(hashing) < MaxWaiting /\ hashing' = hashing \cup {job}
  <2>1. r \in RouteNames /\ Entitled(r, in, who, mode = "auth")
    BY <1>3, <1>8 DEF admitted
  <2>2. IsFiniteSet(hashing') /\ Cardinality(hashing') <= MaxWaiting
    <3>1. IsFiniteSet(hashing) /\ Cardinality(hashing) \in Nat
      BY FS_CardinalityType DEF RoutingInv
    <3>2. /\ IsFiniteSet(hashing \cup {job})
          /\ Cardinality(hashing \cup {job}) \in {Cardinality(hashing), Cardinality(hashing) + 1}
      BY <3>1, FS_AddElement
    <3> QED BY <1>8, <3>1, <3>2, RoutingAssumption
  <2>3. Hashed(job)
    BY <2>1 DEF Hashed
  <2>4. \A x \in hashing' : Hashed(x)'
    BY <1>5, <1>8, <2>3 DEF RoutingInv, Hashed
  <2>5. exchange' = Idle \/ Sound(exchange)'
    BY <1>5, <1>8 DEF RoutingInv, Sound
  <2> QED BY <1>6, <2>2, <2>4, <2>5 DEF RoutingInv
<1> QED BY <1>5, <1>7, <1>8

LEMMA CompletionKeeps ==
  ASSUME RoutingInv, NEW job \in hashing, Completed(job)
  PROVE  RoutingInv'
<1>1. Hashed(job) /\ job.r \in RouteNames /\ job.actor = job.who
  BY DEF RoutingInv, Hashed
<1>2. SoundAnswer(Handle(job.r, job.in, job.who, mode = "auth"), job.r, job.in, job.who, mode = "auth")
  <2>1. (mode = "auth") \in BOOLEAN
    OBVIOUS
  <2> QED BY <1>1, <2>1, HandlersAreSound DEF Hashed
<1>3. /\ exchange' = [r |-> job.r, in |-> job.in, who |-> job.who, actor |-> job.actor,
                      ans |-> Handle(job.r, job.in, job.who, mode = "auth")]
      /\ hashing' = hashing \ {job} /\ UNCHANGED <<mode, bearers, subject>>
  BY DEF Completed, Answered
<1>4. Sound(exchange)'
  BY <1>1, <1>2, <1>3 DEF Sound, Hashed
<1>5. IsFiniteSet(hashing') /\ Cardinality(hashing') <= MaxWaiting
  <2>1. IsFiniteSet(hashing) /\ Cardinality(hashing) \in Nat /\ Cardinality(hashing) <= MaxWaiting
    BY FS_CardinalityType DEF RoutingInv
  <2>2. IsFiniteSet(hashing \ {job}) /\ Cardinality(hashing \ {job}) = Cardinality(hashing) - 1
    BY <2>1, FS_RemoveElement
  <2> QED BY <1>3, <2>1, <2>2, RoutingAssumption
<1>6. \A x \in hashing' : Hashed(x)'
  BY <1>3 DEF RoutingInv, Hashed
<1> QED BY <1>3, <1>4, <1>5, <1>6 DEF RoutingInv

LEMMA RoutingKeeps ==
  ASSUME RoutingInv, [RoutingNext]_routingVars
  PROVE  RoutingInv'
<1>1. ASSUME NEW r \in RouteNames, NEW in \in Inputs, NEW who \in Asking, Request(r, in, who, "none")
      PROVE  RoutingInv'
  <2>1. in \in Requests /\ who \in Caller
    BY DEF Inputs, Asking, Caller
  <2> QED BY <1>1, <2>1, RequestKeeps
<1>2. ASSUME NEW r \in {"users", "password", "me"} \cup Elsewhere, NEW who \in Asking,
             Request(r, [Plain EXCEPT !.m = IF r = "password" THEN "PUT" ELSE "POST"], who, "none")
      PROVE  RoutingInv'
  <2>1. [Plain EXCEPT !.m = IF r = "password" THEN "PUT" ELSE "POST"] \in Requests
    BY DEF Plain, Requests, Methods, Parts, Results
  <2>2. r \in RouteNames \cup Elsewhere /\ who \in Caller
    BY NamesOfRoutes DEF Asking, Caller
  <2> QED BY <1>2, <2>1, <2>2, RequestKeeps
<1>3. ASSUME NEW r \in {"health", "button"} \cup Elsewhere, NEW fault \in Faults \ {"none"}, NEW m \in {"GET", "POST"},
             Request(r, [Plain EXCEPT !.m = m], Root, fault)
      PROVE  RoutingInv'
  <2>1. [Plain EXCEPT !.m = m] \in Requests
    BY DEF Plain, Requests, Methods, Parts, Results
  <2>2. r \in RouteNames \cup Elsewhere /\ Root \in Caller
    BY NamesOfRoutes DEF Caller
  <2> QED BY <1>3, <2>1, <2>2, RequestKeeps
<1>4. ASSUME Respond \/ BanEnds \/ UNCHANGED routingVars
      PROVE  RoutingInv'
  <2>1. UNCHANGED <<mode, subject, hashing>> /\ bearers' \in {bearers, 0} /\ exchange' \in {exchange, Idle}
    BY <1>4 DEF Respond, BanEnds, routingVars
  <2>2. bearers' \in -1 .. MaxBearers - 1
    BY <2>1, RoutingAssumption DEF RoutingInv
  <2>3. \A x \in hashing' : Hashed(x)'
    BY <2>1 DEF RoutingInv, Hashed
  <2>4. exchange' = Idle \/ Sound(exchange)'
    BY <2>1 DEF RoutingInv, Sound
  <2> QED BY <2>1, <2>2, <2>3, <2>4 DEF RoutingInv
<1> QED BY <1>1, <1>2, <1>3, <1>4, CompletionKeeps DEF RoutingNext

LEMMA RoutingStarts == RoutingInit => RoutingInv
<1>1. IsFiniteSet({}) /\ Cardinality({}) = 0
  BY FS_EmptySet
<1> QED BY <1>1, RoutingAssumption DEF RoutingInit, RoutingInv, Caller

(* With accounts on, nothing is changed for a caller who lacks the         *)
(* entitlement for that change, on any route, in any state of the request, *)
(* and also when a password hash ends after other requests were served;    *)
(* what is done is done for the caller who asked; and but for the four     *)
(* exceptions that RefusedChangesNothing names, an answer of 400 or more   *)
(* has changed nothing.                                                    *)
THEOREM RequestsAreEntitled == RoutingSpec => []RoutingSafe
<1>1. RoutingInit => RoutingInv
  BY RoutingStarts
<1>2. RoutingInv /\ [RoutingNext]_routingVars => RoutingInv'
  BY RoutingKeeps
<1>3. RoutingInv => RoutingSafe
  <2> SUFFICES ASSUME RoutingInv PROVE RoutingSafe
    OBVIOUS
  <2>1. RoutingTypeOK
    BY DEF RoutingInv, RoutingTypeOK, Sound, SoundAnswer, Caller
  <2>2. EffectsEntitled
    BY DEF RoutingInv, EffectsEntitled, Sound, SoundAnswer
  <2>3. ActorIsAsker
    BY DEF RoutingInv, ActorIsAsker, Sound
  <2>4. RefusedChangesNothing
    BY DEF RoutingInv, RefusedChangesNothing, Sound, SoundAnswer, Excused
  <2> QED BY <2>1, <2>2, <2>3, <2>4 DEF RoutingSafe
<1> QED BY <1>1, <1>2, <1>3, PTL DEF RoutingSpec

(* Only wrong shared tokens are counted.                                   *)
CountsTokens == bearers # 0 => mode = "token"

LEMMA CountsTokensKept ==
  ASSUME CountsTokens, [RoutingNext]_routingVars
  PROVE  CountsTokens'
<1>1. ASSUME NEW r, NEW in, NEW who, NEW fault, Request(r, in, who, fault) PROVE CountsTokens'
  BY <1>1 DEF Request, CountBearer, CountsTokens
<1>2. ASSUME NEW job, Completed(job) PROVE CountsTokens'
  BY <1>2 DEF Completed, Answered, CountsTokens
<1>3. ASSUME Respond \/ BanEnds \/ UNCHANGED routingVars PROVE CountsTokens'
  BY <1>3 DEF Respond, BanEnds, routingVars, CountsTokens
<1> QED BY <1>1, <1>2, <1>3 DEF RoutingNext

LEMMA BannedIsRefused ==
  ASSUME CountsTokens, RoutingInv, bearers = -1, exchange = Idle, exchange' # Idle, hashing' = hashing,
         NEW r \in RouteNames \cup Elsewhere, NEW in, NEW who, NEW fault, Request(r, in, who, fault),
         r \notin {"health", "static", "malformed"}
  PROVE  exchange'.ans.status \in {403, 429}
<1> DEFINE secure == EvaluateSecurity(in, fault)
           access == EvaluateAccess(r, in, who)
<1>1. secure \in {403, 429}
  BY DEF EvaluateSecurity, CountsTokens
<1>2. exchange' = [r |-> r, in |-> in, who |-> who, actor |-> subject',
                   ans |-> CASE r = "malformed" -> Refuse(400)
                             [] r = "static" -> Ok
                             [] r = "unknown" -> BuildUnmatchedPathResponse(in, who, fault)
                             [] r \in RouteNames /\ secure # 200 -> Refuse(secure)
                             [] r \in RouteNames /\ secure = 200 /\ access # 200 -> Refuse(access)
                             [] OTHER -> Handle(r, in, who, mode = "auth")]
  BY <1>1 DEF Request
<1>3. BuildUnmatchedPathResponse(in, who, fault) = Refuse(secure)
  BY <1>1 DEF BuildUnmatchedPathResponse
<1>4. exchange'.ans = Refuse(secure)
  BY <1>1, <1>2, <1>3, NamesOfRoutes DEF Elsewhere
<1> QED BY <1>1, <1>4 DEF Refuse, Answer

(* While an address is banned no token it presents is told right from      *)
(* wrong: of the API only the health probe answers it.                     *)
THEOREM BanTellsNothing == RoutingSpec => BannedLearnsNothing
<1> DEFINE BannedStep == bearers = -1 /\ bearers' = -1 /\ exchange = Idle /\ exchange' # Idle /\ hashing' = hashing =>
             exchange'.ans.status \in {403, 429} \/ exchange'.r \in {"health", "static", "malformed"}
<1>1. RoutingInit => RoutingInv /\ CountsTokens
  BY RoutingStarts DEF RoutingInit, CountsTokens
<1>2. RoutingInv /\ CountsTokens /\ [RoutingNext]_routingVars => (RoutingInv /\ CountsTokens)'
  BY RoutingKeeps, CountsTokensKept
<1>3. RoutingInv /\ CountsTokens /\ [RoutingNext]_routingVars => [BannedStep]_routingVars
  <2> SUFFICES ASSUME RoutingInv, CountsTokens, [RoutingNext]_routingVars, bearers = -1, exchange = Idle,
                      exchange' # Idle, hashing' = hashing
               PROVE  exchange'.ans.status \in {403, 429} \/ exchange'.r \in {"health", "static", "malformed"}
    OBVIOUS
  <2>1. PICK r \in RouteNames \cup Elsewhere : \E in, who, fault : Request(r, in, who, fault)
    <3>1. \A job \in hashing : ~Completed(job)
      BY DEF Completed, Answered
    <3>2. ~(Respond \/ BanEnds \/ UNCHANGED routingVars)
      BY DEF Respond, BanEnds, routingVars
    <3> QED BY <3>1, <3>2, NamesOfRoutes DEF RoutingNext
  <2>2. CASE r \in {"health", "static", "malformed"}
    <3>1. exchange'.r = r
      BY <2>1 DEF Request
    <3> QED BY <2>2, <3>1
  <2>3. CASE r \notin {"health", "static", "malformed"}
    BY <2>1, <2>3, BannedIsRefused
  <2> QED BY <2>2, <2>3
<1> QED BY <1>1, <1>2, <1>3, PTL DEF RoutingSpec, BannedLearnsNothing

-----------------------------------------------------------------------------
(* The scheduler                                                           *)

Paced == running /\ calm => Considered \/ waited >= phase

PacedInv ==
  /\ waited \in Nat /\ phase \in 0 .. MinuteLength - 1
  /\ Paced

(* What the steps other than a tick and the passing of time do to it.      *)
Disturbs == ~(running' /\ calm') /\ UNCHANGED phase /\ waited' \in {waited, 0}

LEMMA EditDisturbs ==
  ASSUME NEW list, Edit(list)
  PROVE  Disturbs
BY DEF Edit, Disturbs, clock

LEMMA OtherSteps ==
  ASSUME Next
  PROVE  Tick \/ TimePasses \/ ModeChanges \/ Disturbs
<1>1. CASE Start \/ Stop
  BY <1>1 DEF Start, Stop, Disturbs, clock
<1>2. ASSUME NEW u \in Uuids,
             Remove(u) \/ \E d \in Definitions : Create(u, d) \/ Replace(u, d)
      PROVE  Disturbs
  BY <1>2, EditDisturbs DEF Remove, Create, Replace
<1>3. ASSUME NEW m \in Minutes, ClockIsSet(m)
      PROVE  Disturbs
  BY <1>3 DEF ClockIsSet, Disturbs
<1> QED BY <1>1, <1>2, <1>3 DEF Next

(* A tick leaves no schedule of the minute behind: it fires the ones that  *)
(* are due, and the others have fired.                                     *)
LEMMA TickConsiders ==
  ASSUME Tick
  PROVE  Considered'
<1> DEFINE due == {u \in DOMAIN schedules : Due(u, minute)}
<1>1. /\ lastFired' = [u \in due \cup DOMAIN lastFired |->
                          IF u \in due THEN minute ELSE lastFired[u]]
      /\ UNCHANGED <<schedules, minute>>
  BY DEF Tick, clock
<1> SUFFICES ASSUME NEW u \in DOMAIN schedules, Matches(schedules[u], minute)
             PROVE  u \in DOMAIN lastFired' /\ lastFired'[u] = minute
  BY <1>1 DEF Considered, Matches
<1>2. CASE u \in due
  BY <1>1, <1>2
<1>3. CASE u \notin due
  BY <1>1, <1>3 DEF Due
<1> QED BY <1>2, <1>3

LEMMA PacedInit == Init => PacedInv
BY SchedulerAssumption DEF Init, PacedInv, Paced

LEMMA PacedStep == PacedInv /\ [Next]_vars => PacedInv'
<1> SUFFICES ASSUME PacedInv, [Next]_vars PROVE PacedInv'
  OBVIOUS
<1> USE SchedulerAssumption
<1>1. CASE Tick
  <2>1. waited' = 0 /\ phase' = phase
    BY <1>1 DEF Tick, clock
  <2> QED BY <1>1, <2>1, TickConsiders DEF PacedInv, Paced
<1>2. CASE TimePasses
  <2>1. CASE phase < MinuteLength - 1 /\ phase' = phase + 1 /\ UNCHANGED <<minute, calm>>
    <3>1. Considered' = Considered
      BY <1>2, <2>1 DEF TimePasses, Considered, Matches
    <3>2. waited' = IF running THEN waited + 1 ELSE waited
      BY <1>2 DEF TimePasses
    <3>3. running' = running /\ calm' = calm
      BY <1>2, <2>1 DEF TimePasses
    <3> QED BY <2>1, <3>1, <3>2, <3>3 DEF PacedInv, Paced
  <2>2. CASE phase' = 0
    BY <1>2, <2>2 DEF TimePasses, PacedInv, Paced
  <2> QED BY <1>2, <2>1, <2>2 DEF TimePasses
<1>3. CASE ModeChanges \/ UNCHANGED vars
  <2>1. UNCHANGED <<running, calm, waited, phase, minute, schedules, lastFired>>
    BY <1>3 DEF ModeChanges, vars, clock
  <2>2. Considered' = Considered
    BY <2>1 DEF Considered, Matches
  <2> QED BY <2>1, <2>2 DEF PacedInv, Paced
<1>4. CASE Disturbs
  BY <1>4 DEF Disturbs, PacedInv, Paced
<1> QED BY <1>1, <1>2, <1>3, <1>4, OtherSteps

(* "the matching minute is never missed" of ScheduleTick, for every pace   *)
(* of the frame loop that leaves room for a tick in each minute.           *)
THEOREM MinuteNeverMissed == Spec => NeverMissed
<1>1. PacedInv /\ [Next]_vars => [running /\ calm /\ phase' < phase => Considered]_vars
  <2> SUFFICES ASSUME PacedInv, [Next]_vars, running, calm, phase' < phase
               PROVE  Considered
    OBVIOUS
  <2>1. phase \in Nat /\ waited \in Nat
    BY DEF PacedInv
  <2>2. phase' # phase
    BY <2>1
  <2>3. TimePasses
    <3>1. Next
      BY <2>2 DEF vars, clock
    <3>2. ~Tick /\ ~ModeChanges /\ ~Disturbs
      BY <2>2 DEF Tick, ModeChanges, Disturbs, clock
    <3> QED BY <3>1, <3>2, OtherSteps
  <2>4. phase = MinuteLength - 1
    <3>1. phase' = phase + 1 \/ phase = MinuteLength - 1
      BY <2>3, Zenon DEF TimePasses
    <3>2. phase' # phase + 1
      BY <2>1
    <3> QED BY <3>1, <3>2
  <2>5. waited < TickInterval + MaxLate
    BY <2>3 DEF TimePasses
  <2>6. waited < phase
    BY <2>1, <2>4, <2>5, SchedulerAssumption, PaceAssumption
  <2> QED BY <2>1, <2>6 DEF PacedInv, Paced
<1>2. Spec => []PacedInv
  BY PacedInit, PacedStep, PTL DEF Spec
<1> QED BY <1>1, <1>2, PTL DEF Spec, NeverMissed
-----------------------------------------------------------------------------
(* The file can be read as long as every save replaced it.                 *)
FileInv == (saved => file.ok) /\ EditsSurvive

LEMMA EditKeepsFile ==
  ASSUME FileInv, NEW list, Edit(list)
  PROVE  FileInv'
<1>1. schedules' = list /\ Save(list)
  BY DEF Edit
<1>2. CASE file' = [ok |-> TRUE, list |-> list] /\ UNCHANGED saved
  BY <1>1, <1>2 DEF FileInv, EditsSurvive
<1>3. CASE saved' = FALSE
  BY <1>3 DEF FileInv, EditsSurvive
<1> QED BY <1>1, <1>2, <1>3 DEF Save

LEMMA FileStep == FileInv /\ [Next]_vars => FileInv'
<1> SUFFICES ASSUME FileInv, [Next]_vars PROVE FileInv'
  OBVIOUS
<1>1. CASE Start
  BY <1>1 DEF Start, Load, FileInv, EditsSurvive, disk
<1>2. CASE Stop
  BY <1>2 DEF Stop, FileInv, EditsSurvive, disk
<1>3. CASE Tick \/ TimePasses \/ ModeChanges \/ UNCHANGED vars
  BY <1>3 DEF Tick, TimePasses, ModeChanges, vars, FileInv, EditsSurvive, disk
<1>4. ASSUME NEW u \in Uuids,
             Remove(u) \/ \E d \in Definitions : Create(u, d) \/ Replace(u, d)
      PROVE  FileInv'
  BY <1>4, EditKeepsFile DEF Remove, Create, Replace
<1>5. ASSUME NEW m \in Minutes, ClockIsSet(m)
      PROVE  FileInv'
  BY <1>5 DEF ClockIsSet, FileInv, EditsSurvive, disk
<1> QED BY <1>1, <1>2, <1>3, <1>4, <1>5 DEF Next

(* Save and Load: EditsSurvive for every list and sequence of edits,       *)
(* failures and restarts.                                                  *)
THEOREM FileHoldsTheList == Spec => []EditsSurvive
<1>1. Init => FileInv
  BY DEF Init, FileInv, EditsSurvive
<1>2. FileInv => EditsSurvive
  BY DEF FileInv
<1> QED BY <1>1, <1>2, FileStep, PTL DEF Spec
-----------------------------------------------------------------------------
(* No schedule fires twice in a minute.  The guard remembers one minute    *)
(* only, so more must be known of it: it is no older than any minute the   *)
(* schedule fired in, it shows the same time of day, and the clock has not *)
(* been put back by a day.                                                 *)
Remembered(u, m) ==
  /\ u \in DOMAIN lastFired /\ m <= lastFired[u]
  /\ u \in DOMAIN schedules
  /\ schedules[u].at = m % MinutesPerDay
  /\ schedules[u].at = lastFired[u] % MinutesPerDay

Flags == {running, service, saved, calm, twice} \subseteq BOOLEAN

LEMMA DomainOfList ==
  ASSUME NEW list \in Lists
  PROVE  /\ DOMAIN list \subseteq Uuids
         /\ \A u \in DOMAIN list : list[u] \in Definitions
BY DEF Lists

LEMMA ListOfDomain ==
  ASSUME NEW S \in SUBSET Uuids, NEW list \in [S -> Definitions]
  PROVE  list \in Lists
BY DEF Lists

LEMMA EditFlags ==
  ASSUME Flags, NEW list, Edit(list)
  PROVE  Flags'
BY Zenon DEF Flags, Edit, Save, clock

LEMMA FlagStep == Flags /\ [Next]_vars => Flags'
<1> SUFFICES ASSUME Flags, [Next]_vars PROVE Flags'
  OBVIOUS
<1>1. CASE Tick
  <2>1. twice' \in BOOLEAN /\ UNCHANGED <<running, service, saved, calm>>
    BY <1>1, Zenon DEF Tick, disk
  <2> QED BY <2>1, Zenon DEF Flags
<1>2. CASE Start
  BY <1>2, Zenon DEF Flags, Start, disk
<1>3. CASE Stop
  BY <1>3, Zenon DEF Flags, Stop, disk
<1>4. CASE TimePasses
  BY <1>4, Zenon DEF Flags, TimePasses, disk
<1>5. CASE ModeChanges
  BY <1>5, Zenon DEF Flags, ModeChanges, disk
<1>6. ASSUME NEW u \in Uuids,
             Remove(u) \/ \E d \in Definitions : Create(u, d) \/ Replace(u, d)
      PROVE  Flags'
  BY <1>6, EditFlags DEF Remove, Create, Replace
<1>7. ASSUME NEW m \in Minutes, ClockIsSet(m)
      PROVE  Flags'
  BY <1>7, Zenon DEF Flags, ClockIsSet, disk
<1>8. CASE UNCHANGED vars
  BY <1>8, Zenon DEF Flags, vars, disk
<1> QED BY <1>1, <1>2, <1>3, <1>4, <1>5, <1>6, <1>7, <1>8 DEF Next

(* The lists of schedules, in memory and in the file, and the guard.       *)
ListType ==
  /\ schedules \in Lists
  /\ file \in [ok : BOOLEAN, list : Lists]
  /\ lastFired \in [DOMAIN lastFired -> Nat]
  /\ DOMAIN lastFired \subseteq DOMAIN schedules
  /\ fired \subseteq Uuids \X Nat

ClockType ==
  /\ waited \in 0 .. TickInterval + MaxLate
  /\ minute \in Nat /\ phase \in 0 .. MinuteLength - 1
  /\ back \in Nat /\ back <= MaxBack

LEMMA NoneIsList == None \in Lists /\ DOMAIN None = {} /\ None \in [{} -> Nat]
<1>1. None \in [{} -> Definitions] /\ DOMAIN None = {} /\ None \in [{} -> Nat]
  BY DEF None
<1> QED BY <1>1, ListOfDomain

LEMMA SaveType ==
  ASSUME ListType, NEW list \in Lists, Edit(list)
  PROVE  schedules' \in Lists /\ file' \in [ok : BOOLEAN, list : Lists]
<1>1. schedules' = list /\ Save(list)
  BY DEF Edit
<1>2. file' \in {file, [ok |-> TRUE, list |-> list], [ok |-> FALSE, list |-> None]}
  BY <1>1, Zenon DEF Save
<1>3. [ok |-> TRUE, list |-> list] \in [ok : BOOLEAN, list : Lists]
  OBVIOUS
<1>4. [ok |-> FALSE, list |-> None] \in [ok : BOOLEAN, list : Lists]
  BY NoneIsList
<1> QED BY <1>1, <1>2, <1>3, <1>4 DEF ListType

LEMMA ListStep == ListType /\ minute \in Nat /\ [Next]_vars => ListType'
<1> SUFFICES ASSUME ListType, minute \in Nat, [Next]_vars PROVE ListType'
  OBVIOUS
<1>0. \A u \in DOMAIN schedules : u \in Uuids /\ schedules[u] \in Definitions
  BY DomainOfList DEF ListType
<1>1. CASE Tick
  <2> DEFINE due == {u \in DOMAIN schedules : Due(u, minute)}
  <2>1. /\ lastFired' = [u \in due \cup DOMAIN lastFired |->
                            IF u \in due THEN minute ELSE lastFired[u]]
        /\ fired' = IF service THEN fired ELSE fired \cup (due \X {minute})
        /\ UNCHANGED <<schedules, file>>
    BY <1>1 DEF Tick, disk
  <2>2. due \subseteq DOMAIN schedules
    OBVIOUS
  <2> HIDE DEF due
  <2>3. lastFired' \in [DOMAIN lastFired' -> Nat] /\ DOMAIN lastFired' = due \cup DOMAIN lastFired
    BY <2>1 DEF ListType
  <2>4. fired' \subseteq Uuids \X Nat
    BY <1>0, <2>1, <2>2 DEF ListType
  <2> QED BY <2>1, <2>2, <2>3, <2>4 DEF ListType
<1>2. CASE Start
  <2>1. /\ schedules' = IF file.ok THEN file.list ELSE None
        /\ lastFired' = None /\ fired' = {} /\ file' = file
    BY <1>2 DEF Start, Load, disk
  <2> QED BY <2>1, NoneIsList DEF ListType
<1>3. CASE Stop \/ TimePasses \/ ModeChanges \/ (\E m \in Minutes : ClockIsSet(m)) \/ UNCHANGED vars
  <2>1. UNCHANGED <<schedules, lastFired, file, fired>>
    BY <1>3 DEF Stop, TimePasses, ModeChanges, ClockIsSet, vars, disk
  <2> QED BY <2>1 DEF ListType
<1>4. ASSUME NEW u \in Uuids, NEW d \in Definitions, Create(u, d) PROVE ListType'
  <2> DEFINE list == [v \in DOMAIN schedules \cup {u} |-> IF v = u THEN d ELSE schedules[v]]
  <2>1. list \in [DOMAIN schedules \cup {u} -> Definitions] /\ DOMAIN schedules \cup {u} \subseteq Uuids
    BY <1>0
  <2>2. list \in Lists /\ DOMAIN list = DOMAIN schedules \cup {u}
    BY <2>1, ListOfDomain
  <2>3. Edit(list) /\ UNCHANGED <<lastFired, fired>>
    BY <1>4 DEF Create
  <2> HIDE DEF list
  <2>4. schedules' = list
    BY <2>3 DEF Edit
  <2> QED BY <2>2, <2>3, <2>4, SaveType DEF ListType
<1>5. ASSUME NEW u \in Uuids, NEW d \in Definitions, Replace(u, d) PROVE ListType'
  <2> DEFINE list == [schedules EXCEPT ![u] = d]
  <2>1. list \in [DOMAIN schedules -> Definitions] /\ DOMAIN schedules \subseteq Uuids
    BY <1>0 DEF ListType, Lists
  <2>2. list \in Lists /\ DOMAIN list = DOMAIN schedules
    BY <2>1, ListOfDomain
  <2>3. Edit(list) /\ UNCHANGED lastFired /\ fired' \subseteq fired
    BY <1>5 DEF Replace
  <2> HIDE DEF list
  <2>4. schedules' = list
    BY <2>3 DEF Edit
  <2> QED BY <2>2, <2>3, <2>4, SaveType DEF ListType
<1>6. ASSUME NEW u \in Uuids, Remove(u) PROVE ListType'
  <2> DEFINE list == Without(schedules, u)
  <2>1. list \in [DOMAIN schedules \ {u} -> Definitions] /\ DOMAIN schedules \ {u} \subseteq Uuids
    BY <1>0 DEF Without
  <2>2. list \in Lists /\ DOMAIN list = DOMAIN schedules \ {u}
    BY <2>1, ListOfDomain
  <2>3. Edit(list) /\ lastFired' = Without(lastFired, u) /\ fired' \subseteq fired
    BY <1>6 DEF Remove
  <2> HIDE DEF list
  <2>4. schedules' = list
    BY <2>3 DEF Edit
  <2>5. lastFired' \in [DOMAIN lastFired' -> Nat] /\ DOMAIN lastFired' = DOMAIN lastFired \ {u}
    BY <2>3 DEF Without, ListType
  <2> QED BY <2>2, <2>3, <2>4, <2>5, SaveType DEF ListType
<1> QED BY <1>1, <1>2, <1>3, <1>4, <1>5, <1>6 DEF Next

LEMMA ClockStep == ClockType /\ [Next]_vars => ClockType'
<1> SUFFICES ASSUME ClockType, [Next]_vars PROVE ClockType'
  OBVIOUS
<1> USE SchedulerAssumption
<1>1. CASE Tick \/ Start \/ Stop \/ ModeChanges \/ UNCHANGED vars
  BY <1>1 DEF Tick, Start, Stop, ModeChanges, vars, clock, ClockType
<1>2. CASE TimePasses
  <2>1. waited' \in 0 .. TickInterval + MaxLate
    BY <1>2 DEF TimePasses, ClockType
  <2>2. minute' \in Nat /\ phase' \in 0 .. MinuteLength - 1 /\ back' = back
    BY <1>2 DEF TimePasses, ClockType
  <2> QED BY <2>1, <2>2 DEF ClockType
<1>3. ASSUME NEW u \in Uuids,
             Remove(u) \/ \E d \in Definitions : Create(u, d) \/ Replace(u, d)
      PROVE  ClockType'
  BY <1>3 DEF Remove, Create, Replace, Edit, clock, ClockType
<1>4. ASSUME NEW m \in Minutes, ClockIsSet(m) PROVE ClockType'
  BY <1>4 DEF ClockIsSet, Minutes, ClockType
<1> QED BY <1>1, <1>2, <1>3, <1>4 DEF Next

(* A process that stopped fires nothing; the next Start forgets.           *)
GuardInv ==
  /\ Flags /\ ListType /\ ClockType
  /\ \A u \in DOMAIN lastFired : lastFired[u] <= minute + back
  /\ \A f \in fired : Remembered(f[1], f[2])
  /\ ~twice

LEMMA NextDay ==
  ASSUME NEW n \in Nat \ {0}, NEW a \in Nat, NEW b \in Nat, a % n = b % n, a < b
  PROVE  a + n <= b
<1> DEFINE r == a % n
<1>1. a = n * (a \div n) + r /\ b = n * (b \div n) + r
  BY Z3
<1>2. (a \div n) \in Nat /\ (b \div n) \in Nat
  OBVIOUS
<1>3. (a \div n) < (b \div n)
  BY <1>1, <1>2
<1>4. PICK k \in Nat : (b \div n) = (a \div n) + 1 + k
  <2> WITNESS (b \div n) - (a \div n) - 1 \in Nat
  <2> QED BY <1>2, <1>3
<1> QED BY <1>1, <1>2, <1>4

(* Within a day, a minute of the same time of day is the same minute.      *)
LEMMA SameMinute ==
  ASSUME GuardInv, NEW f \in fired, NEW u \in DOMAIN lastFired, u = f[1],
         schedules[u].at = minute % MinutesPerDay
  PROVE  f[2] <= lastFired[u] /\ lastFired[u] <= minute
         /\ (lastFired[u] # minute => f[2] # minute)
<1>1. /\ f[2] \in Nat /\ lastFired[u] \in Nat /\ minute \in Nat /\ back \in Nat
      /\ back < MinutesPerDay /\ MinutesPerDay \in Nat \ {0}
  BY SchedulerAssumption, PaceAssumption DEF GuardInv, ListType, ClockType
<1>2. f[2] <= lastFired[u] /\ lastFired[u] <= minute + back
  BY DEF GuardInv, Remembered
<1>3. lastFired[u] % MinutesPerDay = minute % MinutesPerDay
  BY DEF GuardInv, Remembered
<1>4. ~(minute < lastFired[u])
  <2> SUFFICES ASSUME minute < lastFired[u] PROVE FALSE
    OBVIOUS
  <2>1. minute + MinutesPerDay <= lastFired[u]
    BY <1>1, <1>3, NextDay
  <2> QED BY <1>1, <1>2, <2>1
<1> QED BY <1>1, <1>2, <1>4

(* A tick dispatches nothing it has dispatched, and remembers the rest.    *)
LEMMA TickGuarded ==
  ASSUME GuardInv, Tick
  PROVE  GuardInv'
<1> DEFINE due == {u \in DOMAIN schedules : Due(u, minute)}
<1>1. /\ lastFired' = [u \in due \cup DOMAIN lastFired |->
                          IF u \in due THEN minute ELSE lastFired[u]]
      /\ fired' = IF service THEN fired ELSE fired \cup (due \X {minute})
      /\ twice' = (twice \/ (~service /\ (due \X {minute}) \cap fired # {}))
      /\ UNCHANGED <<running, schedules, minute, back, service, saved, calm>>
  BY DEF Tick, clock, disk
<1>2. \A u \in due : /\ u \in DOMAIN schedules
                     /\ schedules[u].at = minute % MinutesPerDay
                     /\ u \in DOMAIN lastFired => lastFired[u] # minute
  BY DEF Due, Matches
<1> HIDE DEF due
<1>3. (due \X {minute}) \cap fired = {}
  <2> SUFFICES ASSUME NEW f \in fired, f \in due \X {minute} PROVE FALSE
    OBVIOUS
  <2>1. f[1] \in due /\ f[2] = minute
    OBVIOUS
  <2>2. f[1] \in DOMAIN lastFired
    BY DEF GuardInv, Remembered
  <2> QED BY <1>2, <2>1, <2>2, SameMinute
<1>4. ~twice'
  BY <1>1, <1>3 DEF GuardInv
<1>5. minute \in Nat /\ back \in Nat /\ lastFired \in [DOMAIN lastFired -> Nat]
  BY DEF GuardInv, ListType, ClockType
<1>6. /\ DOMAIN lastFired' = due \cup DOMAIN lastFired
      /\ \A u \in due : lastFired'[u] = minute
      /\ \A u \in DOMAIN lastFired \ due : lastFired'[u] = lastFired[u]
  BY <1>1
<1>8. \A u \in DOMAIN lastFired' : lastFired'[u] <= minute + back
  BY <1>5, <1>6 DEF GuardInv
<1>9. \A f \in fired : Remembered(f[1], f[2])'
  <2> SUFFICES ASSUME NEW f \in fired PROVE Remembered(f[1], f[2])'
    OBVIOUS
  <2>1. Remembered(f[1], f[2]) /\ f[2] \in Nat
    BY DEF GuardInv, ListType
  <2>2. CASE f[1] \in due
    <3>1. f[2] <= minute
      <4>1. f[2] <= lastFired[f[1]] /\ lastFired[f[1]] <= minute
        BY <1>2, <2>1, <2>2, SameMinute DEF Remembered
      <4>2. lastFired[f[1]] \in Nat
        BY <1>5, <2>1 DEF Remembered
      <4> QED BY <1>5, <2>1, <4>1, <4>2
    <3> QED BY <1>1, <1>2, <1>6, <2>1, <2>2, <3>1 DEF Remembered
  <2>3. CASE f[1] \notin due
    BY <1>1, <1>6, <2>1, <2>3 DEF Remembered
  <2> QED BY <2>2, <2>3
<1>10. \A f \in due \X {minute} : Remembered(f[1], f[2])'
  <2> SUFFICES ASSUME NEW f \in due \X {minute} PROVE Remembered(f[1], f[2])'
    OBVIOUS
  <2>1. f[1] \in due /\ f[2] = minute
    OBVIOUS
  <2> QED BY <1>1, <1>2, <1>5, <1>6, <2>1 DEF Remembered
<1>11. \A f \in fired' : Remembered(f[1], f[2])'
  BY <1>1, <1>9, <1>10
<1>12. Flags' /\ ListType' /\ ClockType'
  BY FlagStep, ListStep, ClockStep DEF GuardInv, ClockType, Next
<1> QED BY <1>1, <1>4, <1>8, <1>11, <1>12 DEF GuardInv

LEMMA GuardStep == GuardInv /\ [Next]_vars => GuardInv'
<1> SUFFICES ASSUME GuardInv, [Next]_vars PROVE GuardInv'
  OBVIOUS
<1>0. Flags' /\ ListType' /\ ClockType'
  BY FlagStep, ListStep, ClockStep DEF GuardInv, ClockType
<1>a. minute \in Nat /\ back \in Nat /\ lastFired \in [DOMAIN lastFired -> Nat]
  BY DEF GuardInv, ListType, ClockType
<1>1. CASE Tick
  BY <1>1, TickGuarded
<1>2. CASE Start
  <2>1. lastFired' = None /\ fired' = {} /\ twice' = twice /\ DOMAIN None = {}
    BY <1>2, NoneIsList DEF Start
  <2> QED BY <1>0, <2>1 DEF GuardInv
<1>3. CASE Stop \/ ModeChanges \/ UNCHANGED vars
  <2>1. UNCHANGED <<schedules, lastFired, fired, twice, minute, back>>
    BY <1>3 DEF Stop, ModeChanges, vars, clock
  <2> QED BY <1>0, <2>1 DEF GuardInv, Remembered
<1>4. CASE TimePasses \/ \E m \in Minutes : ClockIsSet(m)
  <2>1. UNCHANGED <<schedules, lastFired, fired, twice>>
    BY <1>4 DEF TimePasses, ClockIsSet
  <2>2. minute + back <= minute' + back'
    BY <1>a, <1>4 DEF TimePasses, ClockIsSet, Minutes
  <2>3. \A u \in DOMAIN lastFired : lastFired[u] \in Nat
    BY <1>a
  <2>4. minute' \in Nat /\ back' \in Nat
    BY <1>0 DEF ClockType
  <2>5. \A u \in DOMAIN lastFired' : lastFired'[u] <= minute' + back'
    BY <1>a, <2>1, <2>2, <2>3, <2>4 DEF GuardInv
  <2> QED BY <1>0, <2>1, <2>5 DEF GuardInv, Remembered
<1>5. ASSUME NEW u \in Uuids, NEW d \in Definitions, Create(u, d) PROVE GuardInv'
  <2>1. /\ u \notin DOMAIN schedules /\ UNCHANGED <<lastFired, fired, minute, back, twice>>
        /\ schedules' = [v \in DOMAIN schedules \cup {u} |-> IF v = u THEN d ELSE schedules[v]]
    BY <1>5 DEF Create, Edit, clock
  <2>2. \A f \in fired : Remembered(f[1], f[2])'
    BY <2>1 DEF GuardInv, Remembered
  <2> QED BY <1>0, <2>1, <2>2 DEF GuardInv
<1>6. ASSUME NEW u \in Uuids, NEW d \in Definitions, Replace(u, d) PROVE GuardInv'
  <2>1. /\ UNCHANGED <<lastFired, minute, back, twice>>
        /\ fired' = {f \in fired : f[1] # u}
        /\ schedules' = [schedules EXCEPT ![u] = d]
    BY <1>6 DEF Replace, Edit, clock
  <2>2. \A f \in fired' : Remembered(f[1], f[2])'
    BY <2>1 DEF GuardInv, Remembered
  <2> QED BY <1>0, <2>1, <2>2 DEF GuardInv
<1>7. ASSUME NEW u \in Uuids, Remove(u) PROVE GuardInv'
  <2>1. /\ UNCHANGED <<minute, back, twice>>
        /\ fired' = {f \in fired : f[1] # u}
        /\ schedules' = Without(schedules, u)
        /\ lastFired' = Without(lastFired, u)
    BY <1>7 DEF Remove, Edit, clock
  <2>2. \A v \in DOMAIN lastFired' : v \in DOMAIN lastFired /\ lastFired'[v] = lastFired[v]
    BY <2>1 DEF Without
  <2>3. \A f \in fired' : Remembered(f[1], f[2])'
    BY <2>1 DEF GuardInv, Remembered, Without
  <2> QED BY <1>0, <2>1, <2>2, <2>3 DEF GuardInv
<1> QED BY <1>1, <1>2, <1>3, <1>4, <1>5, <1>6, <1>7 DEF Next

LEMMA GuardInit == Init => GuardInv
<1> SUFFICES ASSUME Init PROVE GuardInv
  OBVIOUS
<1>1. Flags
  BY Zenon DEF Init, Flags
<1>2. ListType
  BY NoneIsList DEF Init, ListType
<1>3. ClockType
  BY SchedulerAssumption DEF Init, ClockType
<1> QED BY <1>1, <1>2, <1>3, NoneIsList DEF Init, GuardInv

(* SchedulerSafe: "an ambiguous fall-back minute fires once" and no edit   *)
(* is lost, for every list of schedules, length of a day, pace of the      *)
(* frame loop and setting of the clock by less than a day.                 *)
THEOREM NothingTwice == Spec => []SchedulerSafe
<1>1. GuardInv => TypeOK /\ NoDoubleFire
  BY DEF GuardInv, Flags, ListType, ClockType, TypeOK, NoDoubleFire
<1>2. Spec => []GuardInv
  BY GuardInit, GuardStep, PTL DEF Spec
<1>3. TypeOK /\ NoDoubleFire /\ EditsSurvive => SchedulerSafe
  BY DEF SchedulerSafe
<1> QED BY <1>1, <1>2, <1>3, FileHoldsTheList, PTL
=============================================================================
