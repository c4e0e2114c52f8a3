------------------------------ MODULE MCOffice ------------------------------
(***************************************************************************)
(* Components that keep to themselves: the camera loop, the record of      *)
(* applications and the enrolment of the agent, and the pages of the web   *)
(* application.  They share no state, so one run checks them side by side: *)
(* focus, chosen in the initial state, says which of them takes steps.     *)
(***************************************************************************)
EXTENDS CaptureLoop, AppUsage, FreshUrls, IdleTabs, Enrolment

CONSTANTS editor, browser   \* two windows

FewSights == {<<editor, "active">>, <<editor, "idle">>, <<NoWindow, "active">>}

\* Both accounts on one PC, or a code left at two PCs, or at one.
OnePc         == \A a, b \in Account : pc[a] = pc[b]
OneCodeForAll == withCode \/ OnePc

VARIABLE focus
officeVars == <<captureVars, appVars, urlVars, idleVars, enrolVars, focus>>

OfficeInit ==
  /\ focus \in {"capture", "apps", "urls", "idle", "enrol"}
  /\ CaptureInit /\ AppInit /\ UrlInit /\ IdleInit /\ EnrolInit
  /\ focus # "capture" => ~locked /\ next.at = 0
  /\ focus # "apps" => front = NoWindow
  /\ IF focus = "enrol" THEN OneCodeForAll ELSE ~withCode /\ OnePc

\* Everything but the component in focus stands still.
Only(component, A) ==
  /\ focus = component /\ A /\ UNCHANGED focus
  /\ component # "capture" => UNCHANGED captureVars
  /\ component # "apps"    => UNCHANGED appVars
  /\ component # "urls"    => UNCHANGED urlVars
  /\ component # "idle"    => UNCHANGED idleVars
  /\ component # "enrol"   => UNCHANGED enrolVars

OfficeNext == \/ Only("capture", CaptureNext)
              \/ Only("apps", AppNext)
              \/ Only("urls", UrlNext)
              \/ Only("idle", IdleNext)
              \/ Only("enrol", EnrolNext)

OfficeSpec == OfficeInit /\ [][OfficeNext]_officeVars

OfficeTypeOK == CaptureTypeOK /\ AppTypeOK /\ UrlTypeOK /\ IdleTypeOK /\ EnrolTypeOK
=============================================================================
