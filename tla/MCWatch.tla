------------------------------- MODULE MCWatch -------------------------------
(***************************************************************************)
(* The two that notice a silent agent: Watchdog, on its PC, and Alerts, on *)
(* the server.  They share no state, so one run checks them side by side:  *)
(* focus, chosen in the initial state, says which of them takes steps.     *)
(***************************************************************************)
EXTENDS Watchdog, Alerts

VARIABLE focus
watchersVars == <<watchVars, alertVars, focus>>

WatchersInit == focus \in {"watchdog", "alerts"} /\ WatchInit /\ AlertsInit

\* Everything but the component in focus stands still.
Only(component, A) ==
  /\ focus = component /\ A /\ UNCHANGED focus
  /\ component # "watchdog" => UNCHANGED watchVars
  /\ component # "alerts"   => UNCHANGED alertVars

WatchersNext == Only("watchdog", WatchNext) \/ Only("alerts", AlertsNext)

\* WatchFairness and AlertsFairness, of the one in focus.
Of(component, A) == focus = component /\ A

WatchersFairness ==
  /\ WF_watchVars(Of("watchdog", Tick)) /\ WF_watchVars(Of("watchdog", Period))
  /\ WF_watchVars(Of("watchdog", LockFreed))
  /\ \A p \in Pid : WF_watchVars(Of("watchdog", Comes(p)))
  /\ WF_alertVars(Of("alerts", CheckRun)) /\ WF_alertVars(Of("alerts", PostRun))
  /\ WF_alertVars(Of("alerts", TenMinutes))
  /\ \A p \in Pc : WF_alertVars(Of("alerts", Heard(p)))

WatchersSpec == WatchersInit /\ [][WatchersNext]_watchersVars /\ WatchersFairness
=============================================================================
