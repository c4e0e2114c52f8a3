----------------------------- MODULE FreshUrls -----------------------------
(***************************************************************************)
(* The links of the pictures on a gallery page are signed for five         *)
(* minutes.  useFreshUrls mends a page that was left open: a picture that  *)
(* fails to load has the whole page asked for again, once for all the      *)
(* pictures that fail, and their links replaced; a second failure means    *)
(* that the picture is gone.                                               *)
(*                                                                         *)
(* A link is the second it was signed in.  Events of pictures and answers  *)
(* are tasks of one thread; an answer that has arrived is handled before   *)
(* the next of them, but React may render, and run effects, in between.    *)
(***************************************************************************)
EXTENDS Integers, FiniteSets

CONSTANTS
  Picture,
  Memoised,     \* the page passes useFreshUrls the same query object on every render
  MaxSigned,    \* bound: the seconds in which links are signed
  MaxPages      \* bound: how often the query changes, plus one

ASSUME PageAssumption == Memoised \in BOOLEAN /\ MaxSigned \in Nat /\ MaxPages \in Nat \ {0}

VARIABLES
  moment,   \* the clock
  gone,     \* the pictures whose file is no longer there
  page,     \* the query: how often it has changed
  origin,   \* the second in which the links of the page's items were signed
  link,     \* urlOf: the second in which each picture's link was signed
  lapsed,  \* the pictures whose link has lapsed
  image,    \* the browser: "loading" or still to be loaded, "painted" or "broken"
  tries,    \* triesRef
  painted,  \* paintedRef
  inFlight, \* inFlightRef
  calls,    \* the requests, with the page they were made for
  newest,  \* abortRef: the number of the last request, or 0
  render,   \* React has a render to do
  excused   \* history: the pictures that lost their second chance though the file may be there

netVars   == <<moment, gone>>
urlVars   == <<netVars, page, origin, link, lapsed, image, tries, painted, inFlight,
               calls, newest, render, excused>>

Out  == {c \in calls : c.phase = "out"}
Back == {c \in calls : c.phase \in {"back", "failed"}}
Dead(p)    == tries[p] >= 2
Pending(p) == tries[p] = 1

\* Mutant: every picture that fails asks for the page itself.
RefreshEach == \E n \in 1 .. 5 :
  /\ \A c \in calls : c.id # n
  /\ inFlight' = TRUE /\ newest' = n
  /\ calls' = calls \cup {[id |-> n, phase |-> "out", signed |-> 0, items |-> {}]}

\* refresh.
Refresh ==
  IF inFlight THEN UNCHANGED <<inFlight, calls, newest>>
  ELSE \E n \in {m \in 1 .. 3 : \A c \in calls : c.id # m} :
         /\ \A m \in 1 .. n - 1 : \E c \in calls : c.id = m
         /\ inFlight' = TRUE /\ newest' = n
         /\ calls' = calls \cup {[id |-> n, phase |-> "out", signed |-> 0, items |-> {}]}

(***************************************************************************)
(* The pictures.                                                           *)
(***************************************************************************)
\* Mutant: what broke still counts as painted.
StillPainted(p) == painted
NoLongerPainted(p) == painted \ {p}

\* reportError: the file is gone, the link has lapsed, or the network failed.
Breaks(p) ==
  /\ Back = {} /\ image[p] = "loading" /\ ~Dead(p)
  /\ image' = [image EXCEPT ![p] = "broken"]
  /\ painted' = NoLongerPainted(p)
  /\ tries' = [tries EXCEPT ![p] = @ + 1]
  /\ IF tries[p] = 0 THEN Refresh ELSE UNCHANGED <<inFlight, calls, newest>>
  /\ render' = TRUE
  /\ excused' = IF Pending(p) /\ p \notin gone \cup lapsed THEN excused \cup {p} ELSE excused
  /\ UNCHANGED <<netVars, page, origin, link, lapsed>>

\* reportLoad.
Loads(p) ==
  /\ Back = {} /\ image[p] = "loading" /\ ~Dead(p)
  /\ p \notin gone \cup lapsed
  /\ image' = [image EXCEPT ![p] = "painted"]
  /\ painted' = painted \cup {p}
  /\ tries' = [tries EXCEPT ![p] = 0]
  /\ render' = (render \/ tries[p] # 0)
  /\ excused' = excused \ {p}
  /\ UNCHANGED <<netVars, page, origin, link, lapsed, inFlight, calls, newest>>

\* It is shown anew, in the light box or after scrolling: with the link it has,
\* though it may be waiting for another.
Reshown(p) ==
  /\ Back = {} /\ ~Dead(p) /\ image[p] \in {"painted", "broken"}
  /\ image' = [image EXCEPT ![p] = "loading"]
  /\ excused' = IF image[p] = "broken" THEN excused \cup {p} ELSE excused
  /\ UNCHANGED <<netVars, page, origin, link, lapsed, tries, painted, inFlight, calls, newest, render>>

(***************************************************************************)
(* The answer: the page again, every link signed anew.  What is on it may  *)
(* have changed.                                                           *)
(***************************************************************************)
AnswerArrives(c) ==
  /\ c \in Out
  /\ \/ \E items \in SUBSET Picture :
          calls' = (calls \ {c}) \cup {[id |-> c.id, phase |-> "back", signed |-> moment, items |-> items]}
     \/ calls' = (calls \ {c}) \cup {[c EXCEPT !.phase = "failed"]}
  /\ UNCHANGED <<netVars, page, origin, link, lapsed, image, tries, painted, inFlight, newest, render, excused>>

\* The pictures whose link the answer replaces.
Freshened(c) == {p \in c.items : p \notin painted /\ c.signed # link[p]}

\* What the answer has no new link for: a picture that is not on it, or whose link
\* was signed in the same second.
NotServed(c) == {p \in Picture : p \notin c.items \/ c.signed = link[p]}

\* Mutant: what gets no fresh link is left waiting.
LeavePending(fresh) == tries
\* giveUpPending.
GiveUpPending(fresh) == [p \in Picture |-> IF Pending(p) /\ p \notin fresh THEN 2 ELSE tries[p]]

Handle(c) ==
  /\ c \in Back
  /\ calls' = calls \ {c}
  /\ inFlight' = FALSE
  /\ IF c.phase = "back" /\ newest # c.id
     THEN UNCHANGED <<link, lapsed, image, tries, render, excused>>
     ELSE LET fresh == IF c.phase = "back" THEN Freshened(c) ELSE {}
          IN  /\ link'    = [p \in Picture |-> IF p \in fresh THEN c.signed ELSE link[p]]
              /\ lapsed' = lapsed \ fresh
              /\ image'   = [p \in Picture |-> IF p \in fresh THEN "loading" ELSE image[p]]
              /\ tries'   = GiveUpPending(fresh)
              /\ render'  = (render \/ fresh # {} \/ tries' # tries)
              /\ excused' = excused \cup {p \in NotServed(c) : Pending(p)}
  /\ UNCHANGED <<netVars, page, origin, painted, newest>>

(***************************************************************************)
(* React.  The effect runs when the query is another object: on another    *)
(* page, and where the page makes a new one on every render, always.       *)
(***************************************************************************)
Reset ==
  /\ tries' = [p \in Picture |-> 0] /\ painted' = {}
  /\ inFlight' = FALSE /\ newest' = 0
  /\ calls' = Back                          \* abort: too late for what has arrived

\* The overrides are dropped: the links are those of the items again.
Unoverride ==
  LET back == {p \in Picture : link[p] # origin}
  IN  /\ link' = [p \in Picture |-> origin] /\ lapsed' = lapsed \cup back
      /\ image' = [p \in Picture |-> IF p \in back THEN "loading" ELSE image[p]]

Render ==
  /\ render
  /\ IF Memoised
     THEN render' = FALSE /\ UNCHANGED <<tries, painted, inFlight, newest, calls, link, lapsed, image>>
     ELSE /\ Reset /\ Unoverride
          /\ render' = (tries' # tries \/ link' # link)
  /\ UNCHANGED <<netVars, page, origin, excused>>

ChangeQuery ==
  /\ page < MaxPages /\ page' = page + 1
  /\ Reset
  /\ origin' = moment /\ link' = [p \in Picture |-> moment] /\ lapsed' = {}
  /\ image' = [p \in Picture |-> "loading"]
  /\ render' = TRUE /\ excused' = {}
  /\ UNCHANGED netVars

\* Seconds pass; a link expires, painted or not; a file goes.
PageWorld ==
  \/ moment < MaxSigned /\ moment' = moment + 1 /\ UNCHANGED <<gone, lapsed, excused>>
  \/ \E p \in Picture :
       /\ link[p] < moment /\ lapsed' = lapsed \cup {p}
       /\ excused' = IF Pending(p) /\ image[p] = "loading" THEN excused \cup {p} ELSE excused
       /\ UNCHANGED netVars
  \/ \E p \in Picture : gone' = gone \cup {p} /\ UNCHANGED <<moment, lapsed, excused>>

UrlInit ==
  /\ moment = 0 /\ gone = {} /\ page = 1 /\ origin = 0
  /\ link = [p \in Picture |-> 0] /\ lapsed = {}
  /\ image = [p \in Picture |-> "loading"] /\ tries = [p \in Picture |-> 0]
  /\ painted = {} /\ inFlight = FALSE /\ calls = {} /\ newest = 0
  /\ render = FALSE /\ excused = {}

UrlNext ==
  \/ \E p \in Picture : Breaks(p) \/ Loads(p) \/ Reshown(p)
  \/ \E c \in calls : AnswerArrives(c) \/ Handle(c)
  \/ Render \/ ChangeQuery
  \/ PageWorld /\ UNCHANGED <<page, origin, link, image, tries, painted, inFlight, calls, newest, render>>

UrlSpec == UrlInit /\ [][UrlNext]_urlVars

(***************************************************************************)
(* Properties.                                                             *)
(***************************************************************************)
\* The shapes; and however many pictures fail, the page is asked for once at a time:
\* every request is a row of the audit log (useFreshUrls.ts:29-34).
UrlTypeOK ==
  /\ UNION {gone, lapsed, painted, excused} \subseteq Picture
  /\ image \in [Picture -> {"loading", "painted", "broken"}]
  /\ tries \in [Picture -> 0 .. 2] /\ link \in [Picture -> 0 .. MaxSigned]
  /\ Cardinality(Out) <= 1

\* A picture that broke is given up or waits for an answer that is on its way: none
\* is left without picture and message (useFreshUrls.ts:120-129).
NoneHangs ==
  \A p \in Picture :
    image[p] = "broken" => Dead(p) \/ (Pending(p) /\ \E c \in calls : c.id = newest)

\* A picture is said to be gone when its file is, whatever pictures break, load and
\* are shown anew meanwhile, on whichever page and with answers of earlier pages under
\* way (useFreshUrls.ts:24-27, 97-107, 153-162, 210-215, 234-237).  It is said of a file
\* that is there in these cases only: the page could not be had, came without the picture
\* (162) or was signed in the second of the link that broke (173-183); the new link lapsed
\* before the picture was loaded, in a tile never scrolled to (ShotGrid.tsx:76); the
\* picture was shown anew while it waited, with the old link (Lightbox.tsx:173-185); or
\* the network failed the second load too (217-224).
GoneIsGone ==
  \A p \in Picture : Dead(p) => p \in gone \/ p \in excused

\* No picture hangs, and none is declared gone without cause.
UrlsSound == NoneHangs /\ GoneIsGone
=============================================================================
