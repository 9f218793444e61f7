--------------------------- MODULE OfflineHtmlProofs ---------------------------
(***************************************************************************)
(* The credits page, for every number of its openings and every set of     *)
(* window sizes: whenever the browser's callbacks arrive, also after the   *)
(* Show that asked for them, no browser stays behind in the window, and    *)
(* Show has told its caller the truth.                                     *)
(*                                                                         *)
(* Sessions do not know of each other, so the invariant is one of every    *)
(* session.  A late callback is told from one in time by the cancelled     *)
(* flag alone; that the flag says so (Tracked) is the centre of the proof. *)
(***************************************************************************)
EXTENDS OfflineHtml, TLAPS

\* A session is cancelled once its Show has returned; only the one that the modal loop
\* works for is not.
Tracked(s) ==
  /\ browser[s] # "none" => s <= shows
  /\ s <= shows /\ s \notin cancelled => main = "show" /\ s = shows

\* A browser that is open belongs to a session that goes on, and a page to a browser
\* that was opened, and is open still if its session goes on.  Where the creation of
\* a browser has failed there is none.
Opened(s) ==
  /\ browser[s] = "live" => s \notin cancelled
  /\ page[s] # "none" => browser[s] = "live" \/ (browser[s] = "over" /\ s \in cancelled)
  /\ s \in failed => browser[s] \in {"none", "over"}

\* A page is done in two ways, each with its reason; nothing happens to it then.
DoneMeans(s) ==
  s \in done =>
    \/ page[s] = "home" /\ (s \notin cancelled => reason[s] = "callback")
    \/ page[s] = "error" /\ (s \notin cancelled => reason[s] = "loadFailed")

SessionInv(s) == Tracked(s) /\ Opened(s) /\ DoneMeans(s)

HtmlInv ==
  /\ TypeOK
  /\ main = "show" => shows \in Sessions /\ shows \notin cancelled
  /\ \A s \in Sessions : SessionInv(s)

\* The sets that TypeOK spells out.
Stages == {"none", "environment", "controller", "live", "over"}
Pages == {"none", "loading", "shown", "refused", "home", "error", "dead"}
Reasons == {"callback", "closed", "loadFailed", "unavailable"}

LEMMA InitInv == Init => HtmlInv
<1> SUFFICES ASSUME Init PROVE HtmlInv
  OBVIOUS
<1> USE DEF Init
<1>1. {bounds, placed} \subseteq [Sessions -> Sizes]
  BY HtmlAssumption
<1>2. {closing, exitRequested} \subseteq BOOLEAN
  OBVIOUS
<1>3. TypeOK
  BY <1>1, <1>2, HtmlAssumption DEF TypeOK
<1> QED
  BY <1>3 DEF HtmlInv, SessionInv, Tracked, Opened, DoneMeans, Sessions

-----------------------------------------------------------------------------
(* The callbacks. *)

\* What is to be shown of a callback to session s: the types, and s itself.
LEMMA CallbackInv ==
  ASSUME HtmlInv, NEW s \in Sessions, MainWaits,
         browser' \in [Sessions -> Stages], page' \in [Sessions -> Pages],
         reason' \in [Sessions -> Reasons], UNCHANGED bounds,
         placed' = placed \/ placed' = [placed EXCEPT ![s] = bounds[s]],
         failed' \subseteq failed \union {s}, done' \subseteq done \union {s},
         s \in done' \/ s \in failed' => s <= shows,
         \A t \in Sessions \ {s} :
           /\ browser'[t] = browser[t] /\ page'[t] = page[t] /\ reason'[t] = reason[t]
           /\ t \in done' <=> t \in done,
         SessionInv(s)'
  PROVE  HtmlInv'
<1> USE DEF HtmlInv, MainWaits
<1>1. /\ main' = main /\ shows' = shows /\ container' = container /\ cancelled' = cancelled
      /\ closing' = closing /\ exitRequested' = exitRequested /\ size' = size
  BY DEF window
<1>2. bounds \in [Sessions -> Sizes] /\ placed' \in [Sessions -> Sizes]
  BY DEF TypeOK
<1>3. {bounds, placed}' \subseteq [Sessions -> Sizes]
  BY <1>2
<1>4. failed' \subseteq 1 .. shows /\ done' \subseteq 1 .. shows
  BY DEF TypeOK, Sessions
<1>5. \A set \in {cancelled, failed, done, container}' : set \subseteq 1 .. shows
  BY <1>1, <1>4 DEF TypeOK
<1>6. TypeOK'
  BY <1>1, <1>3, <1>5 DEF TypeOK, Stages, Pages, Reasons
<1>7. ASSUME NEW t \in Sessions PROVE SessionInv(t)'
  <2>1. CASE t = s
    BY <2>1
  <2>2. CASE t # s
    BY <1>1, <2>2 DEF SessionInv, Tracked, Opened, DoneMeans
  <2> QED BY <2>1, <2>2
<1> QED BY <1>1, <1>6, <1>7

\* Creation goes on or fails; there is no browser yet.
LEMMA CreationGoesOn ==
  ASSUME HtmlInv, NEW s \in Sessions, MainWaits, browser[s] \in {"environment", "controller"},
         NEW stage \in {"controller", "over"}, BrowserBecomes(s, stage),
         failed' \subseteq failed \union {s}, stage = "controller" => UNCHANGED failed,
         UNCHANGED <<done, bounds, page, placed, reason>>
  PROVE  HtmlInv'
<1> USE DEF HtmlInv
<1>1. /\ browser \in [Sessions -> Stages] /\ page \in [Sessions -> Pages]
      /\ reason \in [Sessions -> Reasons]
  BY DEF TypeOK, Stages, Pages, Reasons
<1>2. browser' \in [Sessions -> Stages] /\ browser'[s] = stage
  BY <1>1 DEF BrowserBecomes, Stages
<1>3. \A t \in Sessions \ {s} : browser'[t] = browser[t]
  BY <1>1 DEF BrowserBecomes
<1>4. s <= shows
  BY DEF SessionInv, Tracked
<1>5. SessionInv(s)'
  BY <1>2, <1>4 DEF SessionInv, Tracked, Opened, DoneMeans, MainWaits
<1> QED BY <1>1, <1>2, <1>3, <1>4, <1>5, CallbackInv

\* The browser is there: in time or too late.
LEMMA ControllerReadyInv ==
  ASSUME HtmlInv, NEW s \in Sessions, MainWaits, ControllerReady(s)
  PROVE  HtmlInv'
<1> USE DEF HtmlInv
<1>1. /\ browser \in [Sessions -> Stages] /\ page \in [Sessions -> Pages]
      /\ reason \in [Sessions -> Reasons]
  BY DEF TypeOK, Stages, Pages, Reasons
<1>2. /\ browser[s] = "controller" /\ page[s] = "none" /\ s \notin done /\ s <= shows
      /\ UNCHANGED <<failed, done, bounds, reason>>
  BY DEF ControllerReady, SessionInv, Tracked, Opened, DoneMeans
<1>3. CASE s \in cancelled
  BY <1>2, <1>3, CreationGoesOn DEF ControllerReady, OnController
<1>4. CASE s \notin cancelled
  <2>1. /\ browser' = [browser EXCEPT ![s] = "live"]
        /\ page' = [page EXCEPT ![s] = "loading"]
        /\ placed' = [placed EXCEPT ![s] = bounds[s]]
    BY <1>4 DEF ControllerReady, OnController, BrowserBecomes
  <2>2. /\ browser' \in [Sessions -> Stages] /\ browser'[s] = "live"
        /\ page' \in [Sessions -> Pages] /\ page'[s] = "loading"
    BY <1>1, <2>1 DEF Stages, Pages
  <2>3. \A t \in Sessions \ {s} : browser'[t] = browser[t] /\ page'[t] = page[t]
    BY <1>1, <2>1
  <2>4. SessionInv(s)'
    BY <1>2, <1>4, <2>2 DEF SessionInv, Tracked, Opened, DoneMeans, MainWaits
  <2> QED BY <1>1, <1>2, <2>1, <2>2, <2>3, <2>4, CallbackInv
<1> QED BY <1>3, <1>4

LEMMA CreationInv == ASSUME HtmlInv, NEW s \in Sessions, Creation(s) PROVE HtmlInv'
<1>1. MainWaits
  BY DEF Creation
<1>2. CASE EnvironmentFails(s) \/ EnvironmentTooLate(s) \/ EnvironmentReady(s) \/ ControllerFails(s)
  BY <1>1, <1>2, CreationGoesOn
     DEF EnvironmentFails, EnvironmentTooLate, EnvironmentReady, ControllerFails
<1>3. CASE ControllerReady(s)
  BY <1>1, <1>3, ControllerReadyInv
<1> QED BY <1>2, <1>3 DEF Creation

\* A page of an open browser changes: its session goes on and was not done.
LEMMA PageInv ==
  ASSUME HtmlInv, NEW s \in Sessions, MainWaits, NEW to \in Pages,
         PageBecomes(s, {"loading", "shown", "refused"}, to),
         \/ UNCHANGED <<done, reason>> /\ to # "none"
         \/ /\ done' = done \union {s}
            /\ \/ to = "home" /\ reason' = [reason EXCEPT ![s] = "callback"]
               \/ to = "error" /\ reason' = [reason EXCEPT ![s] = "loadFailed"]
  PROVE  HtmlInv'
<1> USE DEF HtmlInv
<1>1. /\ browser \in [Sessions -> Stages] /\ page \in [Sessions -> Pages]
      /\ reason \in [Sessions -> Reasons]
  BY DEF TypeOK, Stages, Pages, Reasons
<1>2. /\ browser[s] = "live" /\ page[s] \in {"loading", "shown", "refused"}
      /\ page' = [page EXCEPT ![s] = to]
      /\ UNCHANGED <<failed, bounds, browser, placed>>
  BY DEF PageBecomes
<1>3. s \notin cancelled /\ s \notin done /\ s <= shows
  BY <1>2 DEF SessionInv, Tracked, Opened, DoneMeans
<1>4. page' \in [Sessions -> Pages] /\ page'[s] = to
  BY <1>1, <1>2
<1>5. reason' \in [Sessions -> Reasons] /\ done' \subseteq done \union {s}
  BY <1>1 DEF Reasons
<1>6. \A t \in Sessions \ {s} :
         page'[t] = page[t] /\ reason'[t] = reason[t] /\ (t \in done' <=> t \in done)
  BY <1>1, <1>2
<1>7. SessionInv(s)'
  BY <1>1, <1>2, <1>3, <1>4 DEF SessionInv, Tracked, Opened, DoneMeans, MainWaits
<1>8. \A t \in Sessions \ {s} : browser'[t] = browser[t]
  BY <1>2
<1> QED BY <1>1, <1>2, <1>3, <1>4, <1>5, <1>6, <1>7, <1>8, CallbackInv

LEMMA PlaybackInv ==
  ASSUME HtmlInv, NEW s \in Sessions, Playback(s) \/ Mishap(s) PROVE HtmlInv'
<1>1. MainWaits
  BY DEF Playback, Mishap
<1>2. CASE PageLoads(s) \/ PageStrays(s) \/ RefusalCompletes(s) \/ PageDies(s)
  <2>1. PICK to \in {"shown", "refused", "dead"} :
          PageBecomes(s, {"loading", "shown", "refused"}, to) /\ UNCHANGED <<done, reason>>
    BY <1>2 DEF PageLoads, PageStrays, RefusalCompletes, PageDies, PageBecomes
  <2> QED BY <1>1, <2>1, PageInv DEF Pages
<1>3. CASE PageLoadFails(s)
  <2>1. s \notin done
    BY <1>3 DEF PageLoadFails, PageBecomes, HtmlInv, SessionInv, DoneMeans
  <2>2. PageBecomes(s, {"loading", "shown", "refused"}, "error")
    BY <1>3 DEF PageLoadFails, PageBecomes
  <2> QED BY <1>1, <1>3, <2>1, <2>2, PageInv DEF PageLoadFails, Pages
<1>4. CASE PageGoesHome(s)
  <2>1. PageBecomes(s, {"loading", "shown", "refused"}, "home")
    BY <1>4 DEF PageGoesHome, PageBecomes
  <2> QED BY <1>1, <1>4, <2>1, PageInv DEF PageGoesHome, Pages
<1> QED BY <1>2, <1>3, <1>4 DEF Playback, Mishap

-----------------------------------------------------------------------------
(* The window and App::Run. *)

\* Outside of the modal loop nobody looks at a session.
LEMMA WindowInv ==
  ASSUME HtmlInv,
         \/ UserCloses \/ CloseMessage \/ SizeMessage
         \/ Poll \/ Input \/ GameFrame \/ Draw \/ DrawAndQuit
  PROVE  HtmlInv'
<1> USE DEF HtmlInv
<1>1. UNCHANGED <<shows, cancelled, failed, done, container, bounds, browser, page, placed, reason>>
  BY DEF UserCloses, CloseMessage, SizeMessage, Poll, Input, GameFrame, Draw,
         DrawAndQuit, session, external
<1>2. /\ main' \in {"poll", "input", "show", "game", "draw", "ended"}
      /\ main' = "show" <=> main = "show"
      /\ main' = main \/ (main # "show" /\ main' # "show")
  BY DEF UserCloses, CloseMessage, SizeMessage, Poll, Input, GameFrame, Draw,
         DrawAndQuit, MainGoes, TypeOK
<1>3. closing' \in BOOLEAN /\ exitRequested' \in BOOLEAN
  BY DEF UserCloses, CloseMessage, SizeMessage, Poll, Input, GameFrame, Draw,
         DrawAndQuit, MainGoes, TypeOK
<1>4. {closing, exitRequested}' \subseteq BOOLEAN
  BY <1>3
<1>5. size' \in Sizes
  BY DEF UserCloses, CloseMessage, SizeMessage, Poll, Input, GameFrame, Draw,
         DrawAndQuit, MainGoes, TypeOK
<1>6. TypeOK'
  BY <1>1, <1>2, <1>4, <1>5 DEF TypeOK
<1> QED BY <1>1, <1>2, <1>6 DEF SessionInv, Tracked, Opened, DoneMeans

\* A session that begins is new: nothing was flagged or created for it.
LEMMA NewSession ==
  ASSUME HtmlInv, shows < MaxShows
  PROVE  /\ shows + 1 \in Sessions /\ shows \in Nat
         /\ shows + 1 \notin cancelled \union failed \union done \union container
         /\ browser[shows + 1] = "none" /\ page[shows + 1] = "none"
<1> USE DEF HtmlInv
<1>1. shows \in 0 .. MaxShows /\ shows + 1 \in Sessions
  BY HtmlAssumption DEF TypeOK, Sessions
<1>2. shows + 1 \notin cancelled \union failed \union done \union container
  BY <1>1 DEF TypeOK
<1>3. SessionInv(shows + 1) /\ browser[shows + 1] \in Stages
  BY <1>1 DEF TypeOK, Stages
<1> QED BY <1>1, <1>2, <1>3 DEF SessionInv, Tracked, Opened

LEMMA ShowBegins == ASSUME HtmlInv, StartShow \/ ShowUnavailable PROVE HtmlInv'
<1> USE DEF HtmlInv
<1> DEFINE n == shows + 1
<1>1. /\ main = "input" /\ shows < MaxShows /\ shows' = n
      /\ UNCHANGED <<closing, size, exitRequested, done, page, placed>>
  BY DEF StartShow, ShowUnavailable, MainGoes, external
<1>2. /\ n \in Sessions /\ n \notin cancelled \union failed \union done \union container
      /\ browser[n] = "none" /\ page[n] = "none" /\ shows \in Nat
  BY <1>1, NewSession
<1>3. \A t \in Sessions : (t <= n <=> t <= shows \/ t = n) /\ (t <= shows => t \in cancelled)
  BY <1>1, <1>2 DEF SessionInv, Tracked, Sessions
<1>4. \A set \in {cancelled, failed, done, container} : set \union {n} \subseteq 1 .. n
  BY <1>2, HtmlAssumption DEF TypeOK, Sessions
<1>5. /\ browser \in [Sessions -> Stages] /\ reason \in [Sessions -> Reasons]
      /\ bounds \in [Sessions -> Sizes] /\ placed \in [Sessions -> Sizes]
      /\ size \in Sizes
  BY DEF TypeOK, Stages, Reasons
<1> HIDE DEF n
<1>6. CASE StartShow
  <2>1. /\ main' = "show" /\ browser' = [browser EXCEPT ![n] = "environment"]
        /\ container' = container \union {n} /\ bounds' = [bounds EXCEPT ![n] = size]
        /\ UNCHANGED <<cancelled, failed, reason>>
    BY <1>1, <1>6 DEF StartShow, MainGoes, BrowserBecomes
  <2>2. /\ browser' \in [Sessions -> Stages] /\ bounds' \in [Sessions -> Sizes]
        /\ browser'[n] = "environment"
        /\ \A t \in Sessions \ {n} : browser'[t] = browser[t]
    BY <1>2, <1>5, <2>1 DEF Stages
  <2>3. {bounds, placed}' \subseteq [Sessions -> Sizes]
    BY <1>1, <1>5, <2>2
  <2>4. \A set \in {cancelled, failed, done, container}' : set \subseteq 1 .. n
    BY <1>1, <1>4, <2>1
  <2>5. TypeOK'
    BY <1>1, <1>2, <2>1, <2>2, <2>3, <2>4 DEF TypeOK, Stages, Sessions
  <2>6. ASSUME NEW t \in Sessions PROVE SessionInv(t)'
    BY <1>1, <1>2, <1>3, <2>1, <2>2 DEF SessionInv, Tracked, Opened, DoneMeans
  <2> QED BY <1>1, <1>2, <2>1, <2>5, <2>6
<1>7. CASE ShowUnavailable
  <2>1. /\ main' = "draw" /\ reason' = [reason EXCEPT ![n] = "unavailable"]
        /\ failed' = failed \union {n} /\ cancelled' = cancelled \union {n}
        /\ UNCHANGED <<container, bounds, browser>>
    BY <1>1, <1>7 DEF ShowUnavailable, MainGoes, external
  <2>2. /\ reason' \in [Sessions -> Reasons] /\ reason'[n] = "unavailable"
        /\ \A t \in Sessions \ {n} : reason'[t] = reason[t]
    BY <1>2, <1>5, <2>1 DEF Reasons
  <2>3. {bounds, placed}' \subseteq [Sessions -> Sizes]
    BY <1>1, <1>5, <2>1
  <2>4. \A set \in {cancelled, failed, done, container}' : set \subseteq 1 .. n
    BY <1>1, <1>4, <2>1
  <2>5. TypeOK'
    BY <1>1, <1>2, <2>1, <2>2, <2>3, <2>4 DEF TypeOK, Reasons, Sessions
  <2>6. ASSUME NEW t \in Sessions PROVE SessionInv(t)'
    BY <1>1, <1>2, <1>3, <2>1, <2>2 DEF SessionInv, Tracked, Opened, DoneMeans
  <2> QED BY <2>1, <2>5, <2>6
<1> QED BY <1>6, <1>7

LEMMA ShowGoesOnInv == HtmlInv /\ ShowGoesOn => HtmlInv'
<1> SUFFICES ASSUME HtmlInv, ShowGoesOn PROVE HtmlInv'
  OBVIOUS
<1> USE DEF HtmlInv
<1>1. /\ UNCHANGED <<main, closing, exitRequested, size, shows, cancelled, failed, done,
                     container, browser, page, reason>>
      /\ UNCHANGED <<bounds, placed>> \/ ApplyBounds(shows)
  BY DEF ShowGoesOn, window
<1>2. bounds \in [Sessions -> Sizes] /\ placed \in [Sessions -> Sizes] /\ size \in Sizes
  BY DEF TypeOK
<1>3. bounds' \in [Sessions -> Sizes] /\ placed' \in [Sessions -> Sizes]
  BY <1>1, <1>2 DEF ApplyBounds
<1>4. {bounds, placed}' \subseteq [Sessions -> Sizes]
  BY <1>3
<1>5. TypeOK'
  BY <1>1, <1>4 DEF TypeOK
<1> QED BY <1>1, <1>5 DEF SessionInv, Tracked, Opened, DoneMeans

\* What Show returns: a page that is done explains itself, anything else went wrong
\* or was closed.
LEMMA ShowReturnsInv == HtmlInv /\ ShowReturns => HtmlInv'
<1> SUFFICES ASSUME HtmlInv, ShowReturns PROVE HtmlInv'
  OBVIOUS
<1> USE DEF HtmlInv
<1>1. /\ main = "show" /\ main' = "draw"
      /\ exitRequested \/ shows \in done \union failed
      /\ reason' = [reason EXCEPT ![shows] = Result]
      /\ cancelled' = cancelled \union {shows}
      /\ container' = container \ {shows}
      /\ browser' = [browser EXCEPT ![shows] = IF browser[shows] = "live" THEN "over"
                                                                       ELSE browser[shows]]
      /\ UNCHANGED <<closing, size, exitRequested, shows, failed, done, bounds, page, placed>>
  BY DEF ShowReturns, MainGoes, BrowserBecomes
<1>2. shows \in Sessions /\ shows \notin cancelled /\ SessionInv(shows) /\ shows \in 1 .. shows
  BY <1>1 DEF Sessions
<1>3. /\ browser \in [Sessions -> Stages] /\ reason \in [Sessions -> Reasons]
  BY DEF TypeOK, Stages, Reasons
<1>4. /\ Result \in Reasons
      /\ Result = "callback" => page[shows] = "home"
      /\ Result = "loadFailed" => page[shows] = "error"
  BY <1>1, <1>2, <1>3 DEF Result, Reasons, SessionInv, DoneMeans
<1>5. /\ reason' \in [Sessions -> Reasons] /\ reason'[shows] = Result
      /\ browser' \in [Sessions -> Stages] /\ browser'[shows] # "live"
      /\ browser'[shows] = browser[shows] \/ browser'[shows] = "over"
      /\ \A t \in Sessions \ {shows} : reason'[t] = reason[t] /\ browser'[t] = browser[t]
  BY <1>1, <1>2, <1>3, <1>4 DEF Stages
<1>6. \A set \in {cancelled, failed, done, container}' : set \subseteq 1 .. shows
  BY <1>1, <1>2 DEF TypeOK
<1>7. {bounds, placed}' \subseteq [Sessions -> Sizes] /\ {closing, exitRequested}' \subseteq BOOLEAN
  BY <1>1 DEF TypeOK
<1>8. TypeOK'
  BY <1>1, <1>5, <1>6, <1>7 DEF TypeOK, Stages, Reasons
<1>9. SessionInv(shows)'
  BY <1>1, <1>2, <1>4, <1>5 DEF SessionInv, Tracked, Opened, DoneMeans
<1>10. ASSUME NEW t \in Sessions \ {shows} PROVE SessionInv(t)'
  BY <1>1, <1>5 DEF SessionInv, Tracked, Opened, DoneMeans
<1> QED BY <1>1, <1>8, <1>9, <1>10

LEMMA StutterInv == HtmlInv /\ UNCHANGED vars => HtmlInv'
BY DEF HtmlInv, TypeOK, SessionInv, Tracked, Opened, DoneMeans, vars, window, session,
       external

LEMMA StepInv == HtmlInv /\ [Next]_vars => HtmlInv'
BY CreationInv, PlaybackInv, WindowInv, ShowBegins, ShowGoesOnInv, ShowReturnsInv, StutterInv
   DEF Next, Run, Ended

-----------------------------------------------------------------------------
(* What follows. *)

\* The invariant holds in every state.
THEOREM Invariance == Spec => []HtmlInv
BY InitInv, StepInv, PTL DEF Spec

\* Every variable keeps its type: flags are only set for sessions there have been.
THEOREM TypeCorrect == Spec => []TypeOK
<1>1. HtmlInv => TypeOK
  BY DEF HtmlInv
<1> QED BY <1>1, Invariance, PTL

\* Only the session of the running Show has an open browser.
THEOREM BrowserSafety == Spec => []NoBrowserLeft
<1>1. HtmlInv => NoBrowserLeft
  BY DEF HtmlInv, NoBrowserLeft, SessionInv, Tracked, Opened
<1> QED BY <1>1, Invariance, PTL

-----------------------------------------------------------------------------
(* The credits page is the applet that Applet describes.  One open browser makes the
   display; an answer is a flag and a reason that nothing changes once the flag is set. *)

OneOnDisplay ==
  Display = IF main = "show" /\ browser[shows] = "live" THEN {<<shows, page[shows]>>} ELSE {}

LEMMA OnDisplay == HtmlInv => OneOnDisplay
<1> SUFFICES ASSUME HtmlInv PROVE OneOnDisplay
  OBVIOUS
<1>1. \A t \in Sessions : browser[t] = "live" => main = "show" /\ t = shows
  BY DEF HtmlInv, SessionInv, Tracked, Opened
<1>2. main = "show" => shows \in Sessions
  BY DEF HtmlInv
<1>3. CASE main = "show" /\ browser[shows] = "live"
  <2>1. {t \in Sessions : browser[t] = "live"} = {shows}
    BY <1>1, <1>2, <1>3
  <2> QED BY <1>3, <2>1 DEF OneOnDisplay, Display
<1>4. CASE ~(main = "show" /\ browser[shows] = "live")
  <2>1. {t \in Sessions : browser[t] = "live"} = {}
    BY <1>1, <1>4
  <2> QED BY <1>4, <2>1 DEF OneOnDisplay, Display
<1> QED BY <1>3, <1>4

LEMMA OnDisplayNext == HtmlInv' => OneOnDisplay'
BY OnDisplay, PTL

\* What a callback leaves alone of the answers.
LEMMA AnswersStay ==
  ASSUME UNCHANGED cancelled, \A s \in Sessions : s \in cancelled => reason'[s] = reason[s]
  PROVE  Answers' = Answers
BY DEF Answers

LEMMA InitPromise == Init => Promise!Init
<1> SUFFICES ASSUME Init PROVE Promise!Init
  OBVIOUS
<1>1. Display = {}
  BY DEF Init, Display
<1>2. Answers = [c \in Sessions |-> "none"] /\ Promise!Calls = Sessions
  BY DEF Init, Answers, Promise!Calls, Sessions
<1> QED BY <1>1, <1>2 DEF Init, Promise!Init

\* The browser's own steps: a page appears, or changes, in the Show that goes on.
LEMMA CreationShows ==
  ASSUME HtmlInv, HtmlInv', NEW s \in Sessions, Creation(s)
  PROVE  Promise!Appear \/ UNCHANGED Promise!vars
<1>1. /\ UNCHANGED <<main, shows, cancelled, exitRequested, reason>>
      /\ browser[s] \in {"environment", "controller"}
  BY DEF Creation, MainWaits, window, EnvironmentFails, EnvironmentTooLate, EnvironmentReady,
         ControllerFails, ControllerReady
<1>2. Answers' = Answers
  BY <1>1, AnswersStay
<1>3. browser \in [Sessions -> Stages] /\ page \in [Sessions -> Pages]
  BY DEF HtmlInv, TypeOK, Stages, Pages
<1>4. CASE ControllerReady(s) /\ s \notin cancelled
  <2>1. /\ browser' = [browser EXCEPT ![s] = "live"]
        /\ page' = [page EXCEPT ![s] = "loading"]
    BY <1>4 DEF ControllerReady, OnController, BrowserBecomes
  <2>2. main = "show" /\ s = shows
    BY <1>1, <1>4 DEF HtmlInv, SessionInv, Tracked
  <2>3. Display = {} /\ Display' = {<<shows, "loading">>}
    BY <1>1, <1>3, <2>1, <2>2, OnDisplay, OnDisplayNext DEF OneOnDisplay
  <2> QED BY <1>1, <1>2, <2>2, <2>3 DEF Promise!Appear
<1>5. CASE ~ControllerReady(s) \/ s \in cancelled
  <2>1. /\ page' = page
        /\ browser' = [browser EXCEPT ![s] = "controller"]
             \/ browser' = [browser EXCEPT ![s] = "over"]
    BY <1>5 DEF Creation, EnvironmentFails, EnvironmentTooLate, EnvironmentReady, ControllerFails,
                ControllerReady, OnController, BrowserBecomes
  <2>2. Display' = Display
    BY <1>1, <1>3, <2>1 DEF Display
  <2> QED BY <1>1, <1>2, <2>2 DEF Promise!vars
<1> QED BY <1>4, <1>5

LEMMA PlaybackShows ==
  ASSUME HtmlInv, HtmlInv', NEW s \in Sessions, Playback(s) \/ Mishap(s)
  PROVE  \E from \in Promise!Open, to \in Promise!Open \union Promise!Final : Promise!Turn(from, to)
<1> DEFINE Turns == Promise!Open \union Promise!Final
<1>1. UNCHANGED <<main, shows, cancelled, exitRequested, browser>> /\ browser[s] = "live"
  BY DEF Playback, Mishap, MainWaits, window, PageLoads, PageLoadFails, PageGoesHome, PageStrays,
         RefusalCompletes, PageDies, PageBecomes
<1>2. PICK to \in Turns : page' = [page EXCEPT ![s] = to] /\ page[s] \in Promise!Open
  BY DEF Playback, Mishap, PageLoads, PageLoadFails, PageGoesHome, PageStrays,
         RefusalCompletes, PageDies, PageBecomes, Promise!Open, Promise!Final
<1>3. /\ reason \in [Sessions -> Reasons] /\ page \in [Sessions -> Pages]
      /\ reason' = reason \/ \E r \in Reasons : reason' = [reason EXCEPT ![s] = r]
  BY DEF HtmlInv, TypeOK, Reasons, Pages, Playback, Mishap, PageLoads, PageLoadFails,
         PageGoesHome, PageStrays, RefusalCompletes, PageDies
<1>4. s \notin cancelled /\ main = "show" /\ s = shows
  BY <1>1 DEF HtmlInv, SessionInv, Tracked, Opened
<1>5. Answers' = Answers
  BY <1>1, <1>3, <1>4, AnswersStay
<1>6. Display = {<<shows, page[s]>>} /\ Display' = {<<shows, to>>}
  BY <1>1, <1>2, <1>3, <1>4, OnDisplay, OnDisplayNext DEF OneOnDisplay
<1> QED BY <1>1, <1>2, <1>4, <1>5, <1>6 DEF Promise!Turn

\* Show begins, or cannot.
LEMMA BeginShows ==
  ASSUME HtmlInv, HtmlInv', StartShow \/ ShowUnavailable
  PROVE  Promise!Call \/ Promise!Refuse
<1> DEFINE n == shows + 1
<1>1. /\ main = "input" /\ shows < MaxShows /\ shows' = n /\ UNCHANGED exitRequested
      /\ n \in Sessions /\ n \notin cancelled /\ browser[n] = "none"
  BY NewSession DEF StartShow, ShowUnavailable, MainGoes
<1>2. /\ browser \in [Sessions -> Stages] /\ reason \in [Sessions -> Reasons]
      /\ main' \in {"show", "draw"}
      /\ page' = page
      /\ browser' = browser \/ browser' = [browser EXCEPT ![n] = "environment"]
  BY DEF HtmlInv, TypeOK, Stages, Reasons, StartShow, ShowUnavailable, MainGoes, BrowserBecomes,
         external
<1>3. Display' = Display
  <2>1. \A t \in Sessions : browser'[t] = "live" <=> browser[t] = "live"
    BY <1>1, <1>2
  <2>2. {t \in Sessions : browser'[t] = "live"} = {t \in Sessions : browser[t] = "live"}
    BY <2>1
  <2> QED BY <1>2, <2>2 DEF Display
<1>4. CASE StartShow
  <2>1. main' = "show" /\ UNCHANGED <<cancelled, reason>>
    BY <1>4 DEF StartShow, MainGoes
  <2>2. Answers' = Answers
    BY <2>1, AnswersStay
  <2> QED BY <1>1, <1>3, <2>1, <2>2 DEF Promise!Call, Promise!Begin
<1>5. CASE ShowUnavailable
  <2>1. /\ main' = "draw" /\ cancelled' = cancelled \union {n}
        /\ reason' = [reason EXCEPT ![n] = "unavailable"]
    BY <1>1, <1>5 DEF ShowUnavailable, MainGoes
  <2>2. Answers' = [Answers EXCEPT ![n] = "unavailable"]
    BY <1>1, <1>2, <2>1 DEF Answers
  <2> QED BY <1>1, <1>3, <2>1, <2>2 DEF Promise!Refuse, Promise!Begin
<1> QED BY <1>4, <1>5

\* The answer is true: a page that is done is on display and as its reason says, and a
\* browser whose creation failed shows nothing.
LEMMA ReturnShows ==
  ASSUME HtmlInv, HtmlInv', ShowReturns
  PROVE  \E answer \in {"callback", "loadFailed", "unavailable", "closed"} :
           Promise!Answer(answer)
<1>1. /\ main = "show" /\ main' = "draw" /\ UNCHANGED <<shows, exitRequested>>
      /\ exitRequested \/ shows \in done \union failed
      /\ reason' = [reason EXCEPT ![shows] = Result]
      /\ cancelled' = cancelled \union {shows}
  BY DEF ShowReturns, MainGoes
<1>2. /\ shows \in Sessions /\ shows \notin cancelled /\ SessionInv(shows)
      /\ reason \in [Sessions -> Reasons]
  BY <1>1 DEF HtmlInv, TypeOK, Reasons
<1>3. Display' = {} /\ Display = IF browser[shows] = "live" THEN {<<shows, page[shows]>>} ELSE {}
  BY <1>1, OnDisplay, OnDisplayNext DEF OneOnDisplay
<1>4. Answers' = [Answers EXCEPT ![shows] = Result]
  BY <1>1, <1>2 DEF Answers
<1>5. Promise!IsTrue(Result)
  <2>1. CASE shows \in failed
    BY <1>2, <1>3, <2>1 DEF Promise!IsTrue, Result, SessionInv, Opened
  <2>2. CASE shows \notin failed /\ exitRequested
    BY <2>2 DEF Promise!IsTrue, Result
  <2>3. CASE shows \notin failed /\ ~exitRequested
    <3>1. \/ Result = "callback" /\ page[shows] = "home"
          \/ Result = "loadFailed" /\ page[shows] = "error"
      BY <1>1, <1>2, <2>3 DEF Result, SessionInv, DoneMeans
    <3>2. Display = {<<shows, page[shows]>>}
      BY <1>2, <1>3, <3>1 DEF SessionInv, Opened
    <3> QED BY <3>1, <3>2 DEF Promise!IsTrue
  <2> QED BY <2>1, <2>2, <2>3
<1>6. Result \in {"callback", "loadFailed", "unavailable", "closed"}
  BY <1>2 DEF Result, Reasons
<1>7. Promise!Answer(Result)
  BY <1>1, <1>3, <1>4, <1>5 DEF Promise!Answer
<1> QED BY <1>6, <1>7

\* The rest of the thread: only the close request is seen outside.
LEMMA WindowShows ==
  ASSUME HtmlInv,
         UserCloses \/ CloseMessage \/ SizeMessage \/ Poll \/ Input \/ ShowGoesOn
           \/ GameFrame \/ Draw \/ DrawAndQuit \/ Ended
  PROVE  Promise!AskToClose \/ Promise!TakeRequest \/ UNCHANGED Promise!vars
<1>1. /\ UNCHANGED <<shows, cancelled, browser, page, reason>>
      /\ main' = "show" <=> main = "show"
  BY DEF UserCloses, CloseMessage, SizeMessage, Poll, Input, ShowGoesOn, GameFrame, Draw,
         DrawAndQuit, Ended,
         MainGoes, session, external, vars
<1>2. Display' = Display /\ Answers' = Answers
  BY <1>1 DEF Display, Answers
<1>3. CASE exitRequested'
  BY <1>1, <1>2, <1>3 DEF Promise!AskToClose
<1>4. CASE Poll
  <2>1. main # "show" /\ ~exitRequested'
    BY <1>4 DEF Poll
  <2> QED BY <1>1, <1>2, <2>1 DEF Promise!TakeRequest
<1>5. CASE ~exitRequested' /\ ~Poll
  <2>1. UNCHANGED exitRequested
    BY <1>5 DEF UserCloses, CloseMessage, SizeMessage, Input, ShowGoesOn, GameFrame, Draw,
               DrawAndQuit, Ended, vars, window
  <2> QED BY <1>1, <1>2, <2>1 DEF Promise!vars
<1> QED BY <1>3, <1>4, <1>5

LEMMA StepPromise ==
  ASSUME HtmlInv, HtmlInv', [Next]_vars PROVE [Promise!Next]_(Promise!vars)
<1>1. CASE UNCHANGED vars
  BY <1>1 DEF vars, session, external, window, Promise!vars, Display, Answers
<1>2. CASE Next
  BY <1>2, CreationShows, PlaybackShows, BeginShows, ReturnShows, WindowShows
     DEF Next, Run, Promise!Next
<1> QED BY <1>1, <1>2

\* The code is an implementation of Applet: whatever the browser's callbacks do and
\* whenever they come, Show is answered once and truly, and nothing outlives it.
THEOREM Refinement == Spec => ImplementsApplet
<1>1. HtmlInv /\ HtmlInv' /\ [Next]_vars => [Promise!Next]_(Promise!vars)
  BY StepPromise
<1> QED BY <1>1, InitPromise, Invariance, PTL DEF Spec, ImplementsApplet, Promise!Spec

================================================================================
