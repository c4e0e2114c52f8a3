----------------------------- MODULE UpdateStaging -----------------------------
(***************************************************************************)
(* How one PC gets an offered version: the loop that asks every six hours, *)
(* downloads into a ".part" file, moves it into place, compares the hash,  *)
(* and clears older installers away; the tray item with which a person     *)
(* starts the installer; and the deaths of the agent in between, which     *)
(* lose the status and keep the files.                                     *)
(*                                                                         *)
(* The bytes of an installer are "good" (those whose hash the server       *)
(* published) or "spoiled".  A click of the tray is over long before the   *)
(* loop asks twice.                                                        *)
(***************************************************************************)
EXTENDS Naturals, FiniteSets

CONSTANTS Version,       \* 1..n, in the order of their release
          MaxOffers,     \* bound: changes of what the server offers
          MaxMishaps     \* bound: failures, spoiled bytes, lost files, deaths

ASSUME StagingAssumption == /\ Cardinality(Version) \in Nat /\ Version = 1..Cardinality(Version)
                            /\ MaxOffers \in Nat /\ MaxMishaps \in Nat

VARIABLES offer,     \* the version the server would answer with, 0 for none
          installed, \* currentVersion, 0 for one older than all of these
          status,    \* UpdateStatus: stage and version; the path is the version's file
          msi,       \* [Version -> none, good, spoiled]: oXeioAgent-<version>.msi
          part,      \* versions with a ".part" file on the disk
          loop,      \* the step CheckOnceAsync is at
          click,     \* InstallStagedUpdate: the version it read, asks so far
          launch,    \* the installer msiexec was started with
          offers, mishaps

stagingVars == <<offer, installed, status, msi, part, loop, click, launch, offers, mishaps>>

IdleStatus == [stage |-> "none", v |-> 0]
Waiting == [at |-> "wait", v |-> 0, sha |-> "none"]
NoClick == [v |-> 0, asks |-> 0]
NoLaunch == [v |-> 0, bytes |-> "none"]

Mishap == mishaps < MaxMishaps /\ mishaps' = mishaps + 1
Fine == UNCHANGED mishaps
Staged(v) == status = [stage |-> "verified", v |-> v]

(***************************************************************************)
(* CheckOnceAsync and StageAsync.                                          *)
(***************************************************************************)
\* Mutant: an answer without an offer is taken for one.
NothingStaged == Staged(offer)

\* Mutant: any version that is ready will do.
AnythingReady == offer = 0 \/ status.stage = "verified"

NothingNew == offer = 0 \/ Staged(offer)

\* No answer, nothing new, or what is ready already: nothing to do.
AskServer ==
  /\ loop = Waiting /\ click.asks = 0
  /\ click' = IF click = NoClick THEN NoClick ELSE [click EXCEPT !.asks = 1]
  /\ \/ Mishap /\ UNCHANGED <<status, loop>>
     \/ /\ Fine
        /\ IF NothingNew THEN UNCHANGED <<status, loop>>
           ELSE /\ status' = [stage |-> "offered", v |-> offer]
                /\ loop' = [at |-> "open", v |-> offer, sha |-> "none"]
  /\ UNCHANGED <<offer, installed, msi, part, launch, offers>>

\* DownloadUpdateAsync: refused, or the bytes begin to arrive.
OpenPart ==
  /\ loop.at = "open"
  /\ \/ Mishap /\ loop' = Waiting /\ UNCHANGED part
     \/ Fine /\ loop' = [loop EXCEPT !.at = "bytes"] /\ part' = part \cup {loop.v}
  /\ UNCHANGED <<offer, installed, status, msi, click, launch, offers>>

\* The move happens with whatever bytes came; an error gives the part up.
MovePart ==
  /\ loop.at = "bytes"
  /\ \/ Mishap /\ loop' = Waiting /\ UNCHANGED msi
     \/ \E bytes \in {"good", "spoiled"} :
          /\ IF bytes = "good" THEN Fine ELSE Mishap
          /\ msi' = [msi EXCEPT ![loop.v] = bytes]
          /\ loop' = [loop EXCEPT !.at = "compare", !.sha = bytes]
  /\ part' = part \ {loop.v}
  /\ UNCHANGED <<offer, installed, status, click, launch, offers>>

\* The hash counted while downloading against the one of the offer.  A file
\* that cannot be deleted stays.
\* Mutant: no comparison.
Unmatched(sha) == TRUE

Matches(sha) == sha = "good"

Compare ==
  /\ loop.at = "compare"
  /\ IF Matches(loop.sha)
       THEN /\ status' = [stage |-> "verified", v |-> loop.v]
            /\ loop' = [loop EXCEPT !.at = "clean"] /\ Fine /\ UNCHANGED msi
       ELSE /\ status' = [stage |-> "corrupt", v |-> loop.v]
            /\ loop' = Waiting
            /\ \/ Fine /\ msi' = [msi EXCEPT ![loop.v] = "none"]
               \/ Mishap /\ UNCHANGED msi
  /\ UNCHANGED <<offer, installed, part, click, launch, offers>>

\* CleanOldMsi: every other installer; one that cannot be deleted stays.
Old(v) == Version \ {v}

CleanOld ==
  /\ loop.at = "clean"
  /\ \E stays \in SUBSET {v \in Old(loop.v) : msi[v] # "none"} :
       /\ IF stays = {} THEN Fine ELSE Mishap
       /\ msi' = [v \in Version |-> IF v \in Old(loop.v) \ stays THEN "none" ELSE msi[v]]
  /\ loop' = Waiting
  /\ UNCHANGED <<offer, installed, status, part, click, launch, offers>>

(***************************************************************************)
(* InstallStagedUpdate.                                                    *)
(***************************************************************************)
Click ==
  /\ click = NoClick /\ launch = NoLaunch /\ status.stage = "verified"
  /\ click' = [v |-> status.v, asks |-> 0]
  /\ UNCHANGED <<offer, installed, status, msi, part, loop, launch, offers, mishaps>>

StartInstaller ==
  /\ click # NoClick /\ click' = NoClick
  /\ IF msi[click.v] = "none"
       THEN UNCHANGED launch
       ELSE launch' = [v |-> click.v, bytes |-> msi[click.v]]
  /\ UNCHANGED <<offer, installed, status, msi, part, loop, offers, mishaps>>

\* The installer puts the version in place and the agent starts anew.
Installs ==
  /\ launch # NoLaunch /\ click = NoClick
  /\ installed' = launch.v
  /\ offer' = IF offer > launch.v THEN offer ELSE 0
  /\ status' = IdleStatus /\ loop' = Waiting /\ launch' = NoLaunch
  /\ UNCHANGED <<msi, part, click, offers, mishaps>>

\* The person says no to the elevation prompt.
Declines ==
  /\ launch # NoLaunch /\ Mishap /\ launch' = NoLaunch
  /\ UNCHANGED <<offer, installed, status, msi, part, loop, click, offers>>

(***************************************************************************)
(* The world.                                                              *)
(***************************************************************************)
\* A release, a stage reached, a brake: only what is newer is ever offered.
OfferChanges ==
  /\ offers < MaxOffers /\ offers' = offers + 1
  /\ \E v \in {0} \cup {w \in Version : w > installed} : v # offer /\ offer' = v
  /\ UNCHANGED <<installed, status, msi, part, loop, click, launch, mishaps>>

\* Somebody or something removes a file.
FileLost(v) ==
  /\ Mishap /\ msi[v] # "none" /\ msi' = [msi EXCEPT ![v] = "none"]
  /\ UNCHANGED <<offer, installed, status, part, loop, click, launch, offers>>

AgentRestarts ==
  /\ Mishap
  /\ status' = IdleStatus /\ loop' = Waiting /\ click' = NoClick
  /\ UNCHANGED <<offer, installed, msi, part, launch, offers>>

(***************************************************************************)
(* Specification.                                                          *)
(***************************************************************************)
StagingInit ==
  /\ offer = 0 /\ installed = 0 /\ status = IdleStatus
  /\ msi = [v \in Version |-> "none"] /\ part = {}
  /\ loop = Waiting /\ click = NoClick /\ launch = NoLaunch
  /\ offers = 0 /\ mishaps = 0

Stager == AskServer \/ OpenPart \/ MovePart \/ Compare \/ CleanOld
Tray == Click \/ StartInstaller \/ Installs \/ Declines
Outside == OfferChanges \/ AgentRestarts \/ \E v \in Version : FileLost(v)

StagingNext == Stager \/ Tray \/ Outside

\* The loop has a thread of its own; nobody has to click.
StagingFairness == WF_stagingVars(Stager) /\ WF_stagingVars(StartInstaller)

StagingSpec == StagingInit /\ [][StagingNext]_stagingVars
LiveStagingSpec == StagingSpec /\ StagingFairness

(***************************************************************************)
(* Properties.                                                             *)
(***************************************************************************)
\* The shapes.
StagingTypeOK ==
  /\ offer \in 0..Cardinality(Version) /\ installed \in 0..Cardinality(Version)
  /\ status \in [stage : {"none", "offered", "verified", "corrupt"}, v : 0..Cardinality(Version)]
  /\ msi \in [Version -> {"none", "good", "spoiled"}] /\ part \subseteq Version
  /\ loop \in [at : {"wait", "open", "bytes", "compare", "clean"}, v : 0..Cardinality(Version),
               sha : {"none", "good", "spoiled"}]
  /\ click \in [v : 0..Cardinality(Version), asks : 0..1]
  /\ launch \in [v : 0..Cardinality(Version), bytes : {"none", "good", "spoiled"}]
  /\ offers \in 0..MaxOffers /\ mishaps \in 0..MaxMishaps

\* Nothing but the published bytes is ever run with a person's consent, while
\* the loop replaces and deletes files under the tray's click and a death may
\* leave unverified ones behind (UpdateStaging.cs:33-43, AgentHost.cs:1343-1345).
OnlyPublishedRun == launch.bytes # "spoiled"

\* A version that stays offered gets ready in the end, whatever was lost,
\* spoiled or interrupted before (UpdateStager.cs:56: "it will be retried later").
GetsReady == (offer # 0 /\ offers = MaxOffers /\ mishaps = MaxMishaps)
                ~> (offer = 0 \/ Staged(offer))
=============================================================================
