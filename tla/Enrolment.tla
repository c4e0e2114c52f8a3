----------------------------- MODULE Enrolment -----------------------------
(***************************************************************************)
(* How a PC gets its token.  The agent asks with the code the installer    *)
(* left in the registry, or with somebody's own login; the server binds    *)
(* the row of this PC and Windows account to that person and mints a       *)
(* token; the agent writes it to device.dat and only then uses it.  The    *)
(* file is the machine's, with rights for the account that wrote it alone. *)
(*                                                                         *)
(* One person and one Windows account at a time sit at a PC.  A code       *)
(* serves one PC; here it has been handed to every PC by mistake.          *)
(***************************************************************************)
EXTENDS Integers, FiniteSets

CONSTANTS
  Account,    \* the Windows accounts
  Staff,      \* the people, the owner of the code among them
  CodeOwner, NoOwner,
  MaxTokens,  \* bound: how many tokens the server mints
  MaxAsked,   \* bound: how many requests are under way
  MaxMishaps  \* bound: what goes wrong: answers, writes and deletions lost, agents and windows
              \* closed in the middle, and the doings of the office

ASSUME EnrolAssumption ==
  /\ CodeOwner \in Staff /\ NoOwner \notin Staff
  /\ MaxTokens \in Nat /\ MaxAsked \in Nat /\ MaxMishaps \in Nat

VARIABLES
  pc,        \* the PC of each account: 1 or 2
  withCode,  \* EnrollmentCode is in the registry
  name,      \* the host name of each PC: how often it has been renamed
  file,      \* device.dat of each PC
  running,   \* the agent of each account
  record,    \* DeviceCredentials._record: a token, or 0
  barred,    \* DeviceCredentials._revoked
  signInOpen,\* _signInOpen
  attempt,     \* EnrollCore and SignInOnDemand: where each of them is
  asked,     \* the requests under way
  devices,      \* devices, by hostname and windowsUsername
  code,      \* enrollment_codes: "good", "used" or "expired"
  minted,    \* the tokens minted so far
  orphans,   \* history: the tokens minted for a request nobody waited for, or not kept
  codeRows,  \* history: the devices the code has bound
  together,  \* history: two requests with the code have looked before either bound
  shared,    \* history: two windows have been open in one agent
  restored,  \* history: a disk that was cloned came back to the PC it was taken from
  mishaps

pcVars     == <<pc, withCode, name>>
agentVars  == <<file, running, record, barred, signInOpen, attempt>>
rowVars    == <<devices, code, minted>>
pastVars   == <<orphans, codeRows, together, shared, restored, mishaps>>
enrolVars == <<pcVars, agentVars, asked, rowVars, pastVars>>

Entry   == {"startup", "tray"}
Key     == Account \X (0 .. 1)
KeyOf(a) == <<a, name[pc[a]]>>
NoFile  == [token |-> 0, host |-> <<0, 0>>, by |-> NoOwner]
NoRow   == [owner |-> NoOwner, token |-> 0, active |-> FALSE]
Token   == 0 .. MaxTokens
Mishap  == mishaps < MaxMishaps /\ mishaps' = mishaps + 1

\* A number for a request that no other has.
FreeId == CHOOSE n \in 1 .. MaxAsked : \A q \in asked : q.id # n

\* A request at another step, or given up.
At(q, step, token, waited) ==
  [id |-> q.id, by |-> q.by, entry |-> q.entry, row |-> q.row, who |-> q.who, coded |-> q.coded,
   step |-> step, token |-> token, waited |-> waited]
To(q, step) == At(q, step, q.token, q.waited)
GivenUp(q)  == At(q, q.step, q.token, FALSE)

(***************************************************************************)
(* The file.                                                               *)
(***************************************************************************)
\* Mutant: the binding of the file is not compared.
AnyBinding(p) == TRUE
\* DescribeBindingMismatch: the host name of a cloned or renamed PC is another.
SameBinding(p) == file[p].host = <<p, name[p]>>

Readable(a) == file[pc[a]].token # 0 /\ file[pc[a]].by = a

\* A file of another account can be neither read nor replaced; a mismatch is moved aside.
Load(a) ==
  IF ~Readable(a) THEN record' = [record EXCEPT ![a] = 0] /\ UNCHANGED file
  ELSE IF SameBinding(pc[a])
  THEN record' = [record EXCEPT ![a] = file[pc[a]].token] /\ UNCHANGED file
  ELSE record' = [record EXCEPT ![a] = 0] /\ file' = [file EXCEPT ![pc[a]] = NoFile]

Replaceable(a) == file[pc[a]].token = 0 \/ file[pc[a]].by = a

(***************************************************************************)
(* The agent.                                                              *)
(***************************************************************************)
NeedsEnrollment(a) == running[a] /\ ~barred[a] /\ record[a] = 0

\* TryStart: the credentials are opened.
Starts(a) ==
  /\ \A b \in Account : running[b] => pc[b] # pc[a]
  /\ running' = [running EXCEPT ![a] = TRUE]
  /\ attempt' = [attempt EXCEPT ![a]["startup"] = "due"]
  /\ Load(a)
  /\ UNCHANGED <<pcVars, barred, signInOpen, asked, rowVars, pastVars>>

\* EnrollIfNeeded, once at the start, and SignInOnDemand, from the tray.
Begins(a, e) ==
  /\ running[a] /\ attempt[a][e] = IF e = "startup" THEN "due" ELSE "none"
  /\ IF NeedsEnrollment(a) /\ ~signInOpen[a]
     THEN /\ signInOpen' = [signInOpen EXCEPT ![a] = TRUE]
          /\ attempt' = [attempt EXCEPT ![a][e] = IF e = "startup" /\ withCode THEN "code" ELSE "form"]
          /\ shared' = (shared \/ \E f \in Entry \ {e} : attempt[a][f] \notin {"none", "due"})
     ELSE e = "startup" /\ attempt' = [attempt EXCEPT ![a][e] = "none"] /\ UNCHANGED <<signInOpen, shared>>
  /\ UNCHANGED <<pcVars, file, running, record, barred, asked, rowVars, orphans, codeRows, together, restored, mishaps>>

\* The end of an attempt releases the flag.
Finish(a, e) ==
  /\ attempt' = [attempt EXCEPT ![a][e] = "none"]
  /\ signInOpen' = [signInOpen EXCEPT ![a] = FALSE]

\* The window is closed, perhaps while its request is under way, which goes on; or it is
\* forgotten for twelve hours, and stays where it is.
Closes(a, e) ==
  /\ attempt[a][e] \in {"form", "forgotten", "asks form", "asks forgotten"}
  /\ attempt' = [attempt EXCEPT ![a][e] = IF @ \in {"form", "forgotten"} THEN "none" ELSE "asks closed"]
  /\ signInOpen' = [signInOpen EXCEPT ![a] = @ /\ attempt[a][e] \notin {"form", "asks form"}]
  /\ IF attempt[a][e] \in {"form", "forgotten"} THEN UNCHANGED mishaps ELSE Mishap
  /\ UNCHANGED <<pcVars, file, running, record, barred, asked, rowVars, orphans, codeRows, together, shared, restored>>

Forgotten(a, e) ==
  /\ attempt[a][e] = "form" /\ Mishap
  /\ attempt' = [attempt EXCEPT ![a][e] = "forgotten"]
  /\ signInOpen' = [signInOpen EXCEPT ![a] = FALSE]
  /\ UNCHANGED <<pcVars, file, running, record, barred, asked, rowVars, orphans, codeRows, together, shared, restored>>

\* EnrollAsync and SignInAsync up to the request; CanPersist probes with a file of its own.
Requests(a, e) ==
  /\ attempt[a][e] \in {"code", "form", "forgotten"}
  /\ NeedsEnrollment(a) \/ record[a] # 0 \/ attempt[a][e] = "code"    \* Revoked: the window stays
  /\ IF ~NeedsEnrollment(a)
     THEN /\ IF attempt[a][e] = "forgotten" THEN attempt' = [attempt EXCEPT ![a][e] = "none"] /\ UNCHANGED signInOpen
             ELSE Finish(a, e)
          /\ UNCHANGED asked
     ELSE /\ Cardinality(asked) < MaxAsked
          /\ \E who \in IF attempt[a][e] = "code" THEN {CodeOwner} ELSE Staff :
               asked' = asked \cup {[id |-> FreeId, by |-> a, entry |-> e, row |-> KeyOf(a), who |-> who,
                                     coded |-> attempt[a][e] = "code", step |-> "sent", token |-> 0, waited |-> TRUE]}
          /\ attempt' = [attempt EXCEPT ![a][e] = CASE @ = "code" -> "asks code"
                                                [] @ = "form" -> "asks form"
                                                [] OTHER -> "asks forgotten"]
          /\ UNCHANGED signInOpen
  /\ UNCHANGED <<pcVars, file, running, record, barred, rowVars, pastVars>>

\* Back to the delay, or to the open window.
Again(at) == CASE at = "asks code" -> "code" [] at = "asks form" -> "form"
               [] at = "asks forgotten" -> "forgotten" [] OTHER -> "none"

\* Persist: the file, then the memory.
Persists(a, e, t, ok) ==
  IF ok
  THEN /\ file' = [file EXCEPT ![pc[a]] = [token |-> t, host |-> <<pc[a], name[pc[a]]>>, by |-> a]]
       /\ record' = [record EXCEPT ![a] = t] /\ barred' = [barred EXCEPT ![a] = FALSE]
       /\ UNCHANGED orphans
       /\ IF attempt[a][e] \in {"asks forgotten", "asks closed"}
          THEN attempt' = [attempt EXCEPT ![a][e] = "none"] /\ UNCHANGED signInOpen
          ELSE Finish(a, e)
  ELSE /\ orphans' = orphans \cup {t}
       /\ UNCHANGED <<file, record, barred>>
       /\ IF attempt[a][e] = "asks code" THEN Finish(a, e)          \* StorageFailed ends it
          ELSE attempt' = [attempt EXCEPT ![a][e] = Again(@)] /\ UNCHANGED signInOpen

\* An answer: 201 with the token, 409 (Permanent) or 401, which Classify calls Transient.
Hears(q) ==
  /\ q.waited /\ q.step \in {"done", "refused", "taken"}
  /\ asked' = asked \ {q}
  /\ IF q.step = "done"
     THEN \E ok \in BOOLEAN :
            /\ ok => Replaceable(q.by)
            /\ IF ~ok /\ Replaceable(q.by) THEN Mishap ELSE UNCHANGED mishaps
            /\ Persists(q.by, q.entry, q.token, ok)
     ELSE /\ IF q.coded /\ q.step = "taken" THEN Finish(q.by, q.entry)
             ELSE attempt' = [attempt EXCEPT ![q.by][q.entry] = Again(@)] /\ UNCHANGED signInOpen
          /\ UNCHANGED <<file, record, barred, orphans, mishaps>>
  /\ UNCHANGED <<pcVars, running, rowVars, codeRows, together, shared, restored>>

\* The control timeout, or the line: the answer, or already the request, is not heard.
TimesOut(q) ==
  /\ q.waited /\ Mishap
  /\ \/ q.step \in {"sent", "looked", "checked"}    \* the server may still get to it
        /\ asked' = (asked \ {q}) \cup {GivenUp(q)}
     \/ q.step \notin {"looked", "checked"} /\ asked' = asked \ {q}
  /\ orphans' = orphans \cup ({q.token} \ {0})
  /\ attempt' = [attempt EXCEPT ![q.by][q.entry] = Again(@)]
  /\ UNCHANGED <<pcVars, file, running, record, barred, signInOpen, rowVars, codeRows, together, shared, restored>>

\* The retries of a code end after a day.
GivesUp(a) ==
  /\ attempt[a]["startup"] = "code" /\ Finish(a, "startup")
  /\ UNCHANGED <<pcVars, file, running, record, barred, asked, rowVars, pastVars>>

\* SignOut and Revoke (a heartbeat's 403): the memory, then the file, whose deletion may fail.
Leaves(a) ==
  /\ record[a] # 0
  /\ \/ UNCHANGED barred
     \/ /\ devices[KeyOf(a)].token = record[a] /\ ~devices[KeyOf(a)].active
        /\ barred' = [barred EXCEPT ![a] = TRUE]
  /\ record' = [record EXCEPT ![a] = 0]
  /\ \/ Readable(a) /\ file' = [file EXCEPT ![pc[a]] = NoFile] /\ UNCHANGED mishaps
     \/ Mishap /\ UNCHANGED file
  /\ UNCHANGED <<pcVars, running, signInOpen, attempt, asked, rowVars, orphans, codeRows, together, shared, restored>>

\* The account logs off, or the agent dies: what is asked is not heard.
Dies(a) ==
  /\ running[a]
  /\ IF \E q \in asked : q.by = a /\ q.waited THEN Mishap ELSE UNCHANGED mishaps
  /\ running' = [running EXCEPT ![a] = FALSE] /\ record' = [record EXCEPT ![a] = 0]
  /\ barred' = [barred EXCEPT ![a] = FALSE] /\ signInOpen' = [signInOpen EXCEPT ![a] = FALSE]
  /\ attempt' = [attempt EXCEPT ![a] = [e \in Entry |-> "none"]]
  /\ asked' = {IF q.by = a THEN GivenUp(q) ELSE q : q \in {r \in asked : r.by # a \/ r.token = 0}}
  /\ orphans' = orphans \cup {q.token : q \in {r \in asked : r.by = a /\ r.token # 0}}
  /\ UNCHANGED <<pcVars, file, rowVars, codeRows, together, shared, restored>>

(***************************************************************************)
(* The server.                                                             *)
(***************************************************************************)
\* enroll looks at the code before the transaction of bind.
Looks(q) ==
  /\ q.step = "sent" /\ q.coded
  /\ asked' = (asked \ {q}) \cup {To(q, IF code # "good" THEN "refused" ELSE "looked")}
  /\ together' = (together \/ (code = "good"
                               /\ \E r \in asked \ {q} : r.coded /\ r.step \in {"looked", "checked"}))
  /\ UNCHANGED <<pcVars, agentVars, rowVars, orphans, codeRows, shared, restored, mishaps>>

\* Mutant: whoever asks gets the row.
NobodyElses(q)  == FALSE
SomeoneElses(q) == devices[q.row].active /\ devices[q.row].owner # q.who

\* assertNotSomeoneElses, at READ COMMITTED: 409 for a row that is active and another's.
Checks(q) ==
  /\ q.step = IF q.coded THEN "looked" ELSE "sent"
  /\ asked' = (asked \ {q}) \cup
              {To(q, IF SomeoneElses(q) THEN "taken" ELSE "checked")}
  /\ UNCHANGED <<pcVars, agentVars, rowVars, pastVars>>

\* Mutant: the code stays good.
StaysGood(q) == code
UsedUp(q)    == IF q.coded THEN "used" ELSE code

\* Mutant: the update leaves out the token.
BoundRowBefore(q) == [owner |-> q.who, active |-> TRUE,
                      token |-> IF devices[q.row].token = 0 THEN minted + 1 ELSE devices[q.row].token]
BoundRow(q) == [owner |-> q.who, active |-> TRUE, token |-> minted + 1]

\* The upsert, the code's mark and the commit.
Binds(q) ==
  /\ q.step = "checked" /\ minted < MaxTokens
  /\ minted' = minted + 1
  /\ devices' = [devices EXCEPT ![q.row] = BoundRow(q)]
  /\ code' = UsedUp(q)
  /\ codeRows' = IF q.coded THEN codeRows \cup {q.row} ELSE codeRows
  /\ asked' = (asked \ {q}) \cup (IF q.waited THEN {At(q, "done", minted', TRUE)} ELSE {})
  /\ orphans' = IF q.waited THEN orphans ELSE orphans \cup {minted'}
  /\ UNCHANGED <<pcVars, agentVars, together, shared, restored, mishaps>>

\* A refusal nobody hears.
Forgets(q) ==
  /\ ~q.waited /\ q.step \in {"refused", "taken"}
  /\ asked' = asked \ {q}
  /\ UNCHANGED <<pcVars, agentVars, rowVars, pastVars>>

(***************************************************************************)
(* The office: the owner revokes a device, a code expires, a PC is renamed *)
(* or its disk cloned onto another.                                        *)
(***************************************************************************)
OfficeActs ==
  \/ \E k \in Key : /\ devices[k].active /\ Mishap
                    /\ devices' = [devices EXCEPT ![k].active = FALSE]
                    /\ UNCHANGED <<name, file, code, restored>>
  \/ code = "good" /\ withCode /\ code' = "expired" /\ Mishap /\ UNCHANGED <<name, file, devices, restored>>
  \/ \E p \in {1, 2} : /\ \A a \in Account : running[a] => pc[a] # p
                       /\ name[p] = 0 /\ Mishap
                       /\ name' = [name EXCEPT ![p] = 1]
                       /\ UNCHANGED <<file, devices, code, restored>>
  \/ \E a, b \in Account :
       /\ pc[a] # pc[b] /\ file[pc[a]].token # 0 /\ Mishap
       /\ \A c \in Account : running[c] => pc[c] # pc[b]
       /\ file' = [file EXCEPT ![pc[b]] = [token |-> file[pc[a]].token, host |-> file[pc[a]].host, by |-> b]]
       /\ restored' = (restored \/ file[pc[a]].host[1] = pc[b])
       /\ UNCHANGED <<name, devices, code>>

EnrolInit ==
  /\ pc \in {f \in [Account -> {1, 2}] : f[CHOOSE a \in Account : TRUE] = 1}
  /\ withCode \in BOOLEAN /\ name = [p \in {1, 2} |-> 0]
  /\ file = [p \in {1, 2} |-> NoFile]
  /\ running = [a \in Account |-> FALSE] /\ record = [a \in Account |-> 0]
  /\ barred = [a \in Account |-> FALSE] /\ signInOpen = [a \in Account |-> FALSE]
  /\ attempt = [a \in Account |-> [e \in Entry |-> "none"]]
  /\ asked = {} /\ devices = [k \in Key |-> NoRow] /\ code = "good" /\ minted = 0
  /\ orphans = {} /\ codeRows = {} /\ together = FALSE /\ shared = FALSE /\ restored = FALSE /\ mishaps = 0

EnrolNext ==
  \/ \E a \in Account : Starts(a) \/ GivesUp(a) \/ Leaves(a) \/ Dies(a)
  \/ \E a \in Account, e \in Entry : Begins(a, e) \/ Closes(a, e) \/ Forgotten(a, e) \/ Requests(a, e)
  \/ \E q \in asked : Hears(q) \/ TimesOut(q) \/ Looks(q) \/ Checks(q) \/ Binds(q) \/ Forgets(q)
  \/ OfficeActs /\ UNCHANGED <<pc, withCode, running, record, barred, signInOpen, attempt, asked, minted,
                               orphans, codeRows, together, shared>>

EnrolSpec == EnrolInit /\ [][EnrolNext]_enrolVars

(***************************************************************************)
(* Properties.                                                             *)
(***************************************************************************)
\* The shapes; the flag of the sign-in is up while an attempt that took it goes on.
EnrolTypeOK ==
  /\ file \in [{1, 2} -> [token : Token, host : {<<0, 0>>} \cup ({1, 2} \X (0 .. 1)), by : Account \cup {NoOwner}]]
  /\ record \in [Account -> Token] /\ barred \in [Account -> BOOLEAN]
  /\ devices \in [Key -> [owner : Staff \cup {NoOwner}, token : Token, active : BOOLEAN]]
  /\ \A a \in Account : running[a] /\ (\E e \in Entry : attempt[a][e] \in {"code", "form", "asks code", "asks form"})
                       => signInOpen[a]

\* The token an agent uses is the one the server knows for its PC and account, unless one
\* was minted since for a request that was given up, or could not be kept, or two windows
\* were open, or the disk of the PC is one that was cloned from it before: else every
\* upload would be refused in silence (enrollment.service.ts:136-148).
TokenCurrent ==
  \A a \in Account :
    record[a] # 0 => devices[KeyOf(a)].token \in {record[a]} \cup orphans \/ shared \/ restored

\* No two agents use one token: not after a PC was cloned or renamed, nor on a PC two
\* people share (DeviceTokenStore.cs:197-209).
OneHolder ==
  \A a, b \in Account : a # b /\ record[a] # 0 => record[a] # record[b]

\* A code binds one device, unless two looked at it before either bound (H05).
CodeOnce == Cardinality(codeRows) <= 1 \/ together

\* A device in use changes hands only when one of the two requests was given up
\* (enrollment.service.ts:136-162).
HandedOver ==
  \A k \in Key :
    devices[k].active /\ devices'[k].owner # devices[k].owner
      => devices[k].token \in orphans \/ devices'[k].token \in orphans' \/ shared

\* What enrolling promises: whose token it is, once; and no device taken over unasked.
EnrolmentSound == [](TokenCurrent /\ OneHolder /\ CodeOnce) /\ [][HandedOver]_enrolVars
=============================================================================
