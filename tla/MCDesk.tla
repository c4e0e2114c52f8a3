------------------------------- MODULE MCDesk -------------------------------
(***************************************************************************)
(* What the office's requests and the server's jobs do to the same rows:   *)
(* TargetPool, TargetStages, ClosedBooks, PayMonth, Rollout, UpdateStaging *)
(* at the other end of an offer, and Backups.  They share no state, so one *)
(* run checks them side by side: focus, chosen in the initial state, says  *)
(* which of them takes steps.                                              *)
(***************************************************************************)
EXTENDS TargetPool, TargetStages, ClosedBooks, PayMonth, MCRollout,
        UpdateStaging, Backups

CONSTANTS d1, d2, c1, c2

VARIABLE focus
deskVars == <<poolVars, stageVars, booksVars, payVars, rolloutVars, stagingVars, backupVars,
              focus>>

\* Two designers, each with a daily target of one.
Codes  == <<d1, d2>>
Quotas == [d \in Designer |-> 1]

DeskInit ==
  /\ focus \in {"pool", "stages", "books", "pay", "rollout", "staging", "backups"}
  /\ PoolInit /\ StagesInit /\ BooksInit /\ PayInit
  /\ RolloutInit /\ StagingInit /\ BackupsInit
  /\ focus # "pay" => tracked = 0

\* Everything but the component in focus stands still.
Only(component, A) ==
  /\ focus = component /\ A /\ UNCHANGED focus
  /\ component # "pool"    => UNCHANGED poolVars
  /\ component # "stages"  => UNCHANGED stageVars
  /\ component # "books"   => UNCHANGED booksVars
  /\ component # "pay"     => UNCHANGED payVars
  /\ component # "rollout" => UNCHANGED rolloutVars
  /\ component # "staging" => UNCHANGED stagingVars
  /\ component # "backups" => UNCHANGED backupVars

DeskNext == \/ Only("pool", PoolNext)
            \/ Only("stages", StagesNext)
            \/ Only("books", BooksNext)
            \/ Only("pay", PayNext)
            \/ Only("rollout", RolloutNext)
            \/ Only("staging", StagingNext)
            \/ Only("backups", BackupsNext)

DeskTypeOK == /\ PoolTypeOK /\ StagesTypeOK /\ BooksTypeOK /\ PayTypeOK
              /\ RolloutTypeOK /\ StagingTypeOK /\ BackupsTypeOK

DeskSpec == DeskInit /\ [][DeskNext]_deskVars
=============================================================================
