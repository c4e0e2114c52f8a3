------------------------------- MODULE MCJobs -------------------------------
(***************************************************************************)
(* What the scheduled jobs must get done in the end: the summaries of      *)
(* SummaryRollup, the versions of Rollout, and the downloads of            *)
(* UpdateStaging.  They share no state, so one run checks them side by     *)
(* side: focus, chosen in the initial state, says which of them takes      *)
(* steps.                                                                  *)
(***************************************************************************)
EXTENDS MCSummaryRollup, MCRollout, UpdateStaging

VARIABLE focus
jobsVars == <<rollupVars, rolloutVars, stagingVars, focus>>

JobsInit == /\ focus \in {"rollup", "rollout", "staging"}
            /\ RollupInit /\ RolloutInit /\ StagingInit

JobsNext ==
  /\ UNCHANGED focus
  /\ \/ focus = "rollup" /\ RollupNext /\ UNCHANGED <<rolloutVars, stagingVars>>
     \/ focus = "rollout" /\ RolloutNext /\ UNCHANGED <<rollupVars, stagingVars>>
     \/ focus = "staging" /\ StagingNext /\ UNCHANGED <<rollupVars, rolloutVars>>

\* RollupFairness, RolloutFairness and StagingFairness, of the one in focus.
Of(component, A) == focus = component /\ A

JobsFairness ==
  /\ WF_rollupVars(Of("rollup", SummaryTick)) /\ WF_rollupVars(Of("rollup", DayClose))
  /\ WF_rollupVars(Of("rollup", CommitUpload)) /\ WF_rollupVars(Of("rollup", Adjust))
  /\ WF_rollupVars(Of("rollup", Recount("admin")))
  /\ WF_rolloutVars(Of("rollout", SaveOrder))
  /\ WF_rolloutVars(Of("rollout", JobProofs \/ JobSave))
  /\ SF_rolloutVars(Of("rollout", JobLook)) /\ SF_rolloutVars(Of("rollout", Hour))
  /\ WF_rolloutVars(Of("rollout", Devices))
  /\ WF_stagingVars(Of("staging", Stager)) /\ WF_stagingVars(Of("staging", StartInstaller))

\* Everything is summed up in the end, and its mark removed.
SummariesSettle == CurrentMonthSettles /\ MarksLeave
\* A version gets to everyone it is offered to, and from there onto the PC.
VersionsArrive == ReachesAll /\ GetsReady

JobsSpec == JobsInit /\ [][JobsNext]_jobsVars /\ JobsFairness
=============================================================================
