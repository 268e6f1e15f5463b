---------------------------- MODULE MCServices -----------------------------
(* Instances of the services that run beside the devices on the program's    *)
(* one io_context: the HTTP server, alerting, history, the equipment cache   *)
(* and the preferences.  They share the thread and no state of the models,   *)
(* so a behaviour exercises one of them, chosen at the start (focus).        *)
EXTENDS HttpServer, Alerting, History, SavedState

VARIABLE focus

storeVars == <<histVars, cacheVars, prefVars>>
servicesVars == <<focus, webVars, alertVars, storeVars>>

(* Only the service in focus starts in more than one way.                    *)
ServicesInit ==
  /\ focus \in {"web", "alerting", "history", "cache", "preferences"}
  /\ WebInit /\ AlertInit /\ HistoryInit /\ CacheInit /\ PrefInit
  /\ focus # "web" => ~secured
  /\ focus # "history" => taken = 0

ServicesNext ==
  /\ \/ focus = "web" /\ WebNext /\ UNCHANGED <<alertVars, storeVars>>
     \/ focus = "alerting" /\ AlertNext /\ UNCHANGED <<webVars, storeVars>>
     \/ focus = "history" /\ HistoryNext /\ UNCHANGED <<webVars, alertVars, cacheVars, prefVars>>
     \/ focus = "cache" /\ CacheNext /\ UNCHANGED <<webVars, alertVars, histVars, prefVars>>
     \/ focus = "preferences" /\ PrefNext /\ UNCHANGED <<webVars, alertVars, histVars, cacheVars>>
  /\ UNCHANGED focus

(* The fairness of each module, for the service in focus.                    *)
ServicesFairness ==
  /\ WF_webVars(focus = "web" /\ PollServer)
  /\ \A c \in Slots : WF_webVars(focus = "web" /\ WsWriteEnds(c))
  /\ WF_alertVars(focus = "alerting" /\ TimerTick) /\ WF_alertVars(focus = "alerting" /\ AttemptHttp)
  /\ WF_histVars(focus = "history" /\ Flush) /\ WF_histVars(focus = "history" /\ StartHistory)
  /\ WF_cacheVars(focus = "cache" /\ ScheduleSave)

ServicesSpec == ServicesInit /\ [][ServicesNext]_servicesVars /\ ServicesFairness

(* AlertsSettle, of the behaviours in which the monitor's timer runs: once   *)
(* nothing changes any more the retained state comes to tell the truth about *)
(* all six conditions, a silent bus included.                                *)
MonitorSettles == <>[](focus # "alerting" \/ fresh \/ Truth)

(* The alerts: settled to the truth, cleared by traffic, every webhook given *)
(* up in the end, and no flapping around the salt threshold.                 *)
AlertsFollow == MonitorSettles /\ TrafficClears /\ HooksEnd /\ NoSaltFlap

(* The three stores, history, equipment cache and preferences, keep what     *)
(* they were given and give back what they hold.                             *)
StoresSafe == HistorySafe /\ CacheSafe /\ PrefSafe

(* What the three stores owe the disk reaches it, and the users' preferences *)
(* are not dropped by a start that cannot read them.                         *)
StoresFollow == BufferDrains /\ CacheFollows /\ UsersNotDropped
=============================================================================
