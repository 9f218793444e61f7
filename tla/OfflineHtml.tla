------------------------------ MODULE OfflineHtml ------------------------------
(***************************************************************************)
(* The credits page: App::Run, the window messages it pumps                *)
(* (platform/win32/Platform_win32.cpp) and the modal loop that plays a     *)
(* page in a browser inside the window (OfflineHtml_win32.cpp).            *)
(*                                                                         *)
(* Everything happens on the main thread, but the browser answers by       *)
(* callbacks that are dispatched like window messages: whenever the        *)
(* thread pumps, also long after the Show that asked has returned.  Each   *)
(* Show has a Session, which the callbacks keep alive; sessions are        *)
(* numbered.  A pump goes on until no message is left, so the thread       *)
(* only leaves one when WM_CLOSE has been handled.  It does not pump       *)
(* inside a game's frame (gb::RunFrame), which need not come to an end.    *)
(***************************************************************************)
EXTENDS Naturals

CONSTANTS
  MaxShows, \* bound: how often the credits are opened
  Sizes,    \* sizes of the window, of which the canvas takes its part
  FirstSize

ASSUME HtmlAssumption == MaxShows \in Nat /\ FirstSize \in Sizes

VARIABLES
  main,          \* where App::Run is: each of its stages but "game" pumps
  closing,       \* WM_CLOSE is in the queue
  exitRequested, \* g_exitRequested
  size,          \* g_clientW and g_clientH
  shows,         \* Show calls so far; the session of the last one has this number
  cancelled, failed, done, \* the sessions with this flag set
  container,     \* the sessions whose container window exists
  bounds,        \* Session::bounds
  browser,       \* how far the creation of the browser is, by session
  page,          \* external: what the browser shows
  placed,        \* external: the bounds the browser was given
  reason         \* Session::reason, in the end what Show returned

session == <<cancelled, failed, done, container, bounds>>
external == <<browser, page, placed>>
window == <<closing, exitRequested, size>>
vars == <<main, window, shows, session, external, reason>>

Sessions == 1 .. MaxShows

TypeOK ==
  /\ main \in {"poll", "input", "show", "game", "draw", "ended"}
  /\ {closing, exitRequested} \subseteq BOOLEAN /\ size \in Sizes
  /\ shows \in 0 .. MaxShows
  /\ \A set \in {cancelled, failed, done, container} : set \subseteq 1 .. shows
  /\ {bounds, placed} \subseteq [Sessions -> Sizes]
  /\ browser \in [Sessions -> {"none", "environment", "controller", "live", "over"}]
  /\ page \in [Sessions -> {"none", "loading", "shown", "refused", "home", "error", "dead"}]
  /\ reason \in [Sessions -> {"callback", "closed", "loadFailed", "unavailable"}]

Init ==
  /\ main = "poll"
  /\ closing = FALSE /\ exitRequested = FALSE /\ size = FirstSize
  /\ shows = 0
  /\ cancelled = {} /\ failed = {} /\ done = {} /\ container = {}
  /\ bounds = [s \in Sessions |-> FirstSize]
  /\ browser = [s \in Sessions |-> "none"]
  /\ page = [s \in Sessions |-> "none"]
  /\ placed = [s \in Sessions |-> FirstSize]
  /\ reason = [s \in Sessions |-> "callback"]

Pumping == main \notin {"game", "ended"}

-----------------------------------------------------------------------------
(* The window. *)

\* The message waits until the thread pumps.
UserCloses ==
  /\ main # "ended" /\ ~closing
  /\ closing' = TRUE
  /\ UNCHANGED <<main, exitRequested, size, shows, session, external, reason>>

\* WndProc, WM_CLOSE.
CloseMessage ==
  /\ Pumping /\ closing
  /\ closing' = FALSE
  /\ exitRequested' = TRUE
  /\ UNCHANGED <<main, size, shows, session, external, reason>>

\* WndProc, WM_SIZE: the user drags the frame or toggles full screen.
SizeMessage ==
  /\ Pumping
  /\ size' \in Sizes \ {size}
  /\ UNCHANGED <<main, closing, exitRequested, shows, session, external, reason>>

-----------------------------------------------------------------------------
(* The callbacks of the browser.  What they leave alone: *)

MainWaits == UNCHANGED <<main, window, shows, container, cancelled>>

BrowserBecomes(s, stage) == browser' = [browser EXCEPT ![s] = stage]

\* No runtime, or no environment.
EnvironmentFails(s) ==
  /\ browser[s] = "environment"
  /\ BrowserBecomes(s, "over")
  /\ failed' = failed \union {s}
  /\ UNCHANGED <<done, bounds, page, placed, reason>>

EnvironmentTooLate(s) ==
  /\ browser[s] = "environment" /\ s \in cancelled
  /\ BrowserBecomes(s, "over")
  /\ failed' = failed \ {s}
  /\ UNCHANGED <<done, bounds, page, placed, reason>>

\* Mutant: a refused CreateCoreWebView2Controller is not noticed.
EnvironmentReadyUnchecked(s) ==
  /\ browser[s] = "environment" /\ s \notin cancelled
  /\ BrowserBecomes(s, "controller") \/ BrowserBecomes(s, "over")
  /\ UNCHANGED <<failed, done, bounds, page, placed, reason>>

\* CreateCoreWebView2Controller goes on asynchronously or is refused.
EnvironmentReady(s) ==
  /\ browser[s] = "environment" /\ s \notin cancelled
  /\ \/ BrowserBecomes(s, "controller") /\ UNCHANGED failed
     \/ BrowserBecomes(s, "over") /\ failed' = failed \union {s}
  /\ UNCHANGED <<done, bounds, page, placed, reason>>

ControllerFails(s) ==
  /\ browser[s] = "controller"
  /\ BrowserBecomes(s, "over")
  /\ failed' = failed \union {s}
  /\ UNCHANGED <<done, bounds, page, placed, reason>>

\* Mutant: a browser that comes late is used all the same.
OnControllerAnyway(s) ==
  /\ BrowserBecomes(s, "live")
  /\ page' = [page EXCEPT ![s] = "loading"]
  /\ placed' = [placed EXCEPT ![s] = bounds[s]]

\* Mutant: the browser keeps the bounds it was created with.
OnControllerUnplaced(s) ==
  IF s \in cancelled
    THEN BrowserBecomes(s, "over") /\ UNCHANGED <<page, placed>>
    ELSE /\ BrowserBecomes(s, "live")
         /\ page' = [page EXCEPT ![s] = "loading"]
         /\ UNCHANGED placed

\* Session::OnController: closed at once when Show has returned, else placed,
\* shown and sent to the document.
OnController(s) ==
  IF s \in cancelled
    THEN BrowserBecomes(s, "over") /\ UNCHANGED <<page, placed>>
    ELSE /\ BrowserBecomes(s, "live")
         /\ page' = [page EXCEPT ![s] = "loading"]
         /\ placed' = [placed EXCEPT ![s] = bounds[s]]

ControllerReady(s) ==
  /\ browser[s] = "controller"
  /\ OnController(s)
  /\ UNCHANGED <<failed, done, bounds, reason>>

\* The events of a page: only a browser that is open sends any.
PageBecomes(s, from, to) ==
  /\ browser[s] = "live" /\ page[s] \in from
  /\ page' = [page EXCEPT ![s] = to]
  /\ UNCHANGED <<failed, bounds, browser, placed>>

PageLoads(s) ==
  /\ PageBecomes(s, {"loading"}, "shown")
  /\ UNCHANGED <<done, reason>>

\* NavigationCompleted without success.
PageLoadFails(s) ==
  /\ PageBecomes(s, {"loading"}, "error")
  /\ done' = done \union {s}
  /\ reason' = IF s \in done THEN reason ELSE [reason EXCEPT ![s] = "loadFailed"]

\* NavigationStarting to the callback URL.
PageGoesHome(s) ==
  /\ PageBecomes(s, {"shown"}, "home")
  /\ done' = done \union {s}
  /\ reason' = [reason EXCEPT ![s] = "callback"]

\* NavigationStarting to a place outside the document folder: cancelled, ...
PageStrays(s) ==
  /\ PageBecomes(s, {"shown"}, "refused")
  /\ UNCHANGED <<done, reason>>

\* Mutant: a cancelled navigation counts as one that failed.
RefusalCompletesAsFailure(s) ==
  /\ PageBecomes(s, {"refused"}, "shown")
  /\ done' = done \union {s}
  /\ reason' = IF s \in done THEN reason ELSE [reason EXCEPT ![s] = "loadFailed"]

\* ... which is completed with OPERATION_CANCELED, and is no failure.
RefusalCompletes(s) ==
  /\ PageBecomes(s, {"refused"}, "shown")
  /\ UNCHANGED <<done, reason>>

\* The browser's process ends; nobody has asked to be told.
PageDies(s) ==
  /\ PageBecomes(s, {"loading", "shown", "refused"}, "dead")
  /\ UNCHANGED <<done, reason>>

Creation(s) ==
  /\ Pumping /\ MainWaits
  /\ \/ EnvironmentFails(s) \/ EnvironmentTooLate(s) \/ EnvironmentReady(s)
     \/ ControllerFails(s) \/ ControllerReady(s)

Playback(s) ==
  /\ Pumping /\ MainWaits
  /\ PageLoads(s) \/ PageLoadFails(s) \/ PageGoesHome(s) \/ RefusalCompletes(s)

\* The page's own refresh to the callback URL, in the end.
Refresh(s) == Pumping /\ MainWaits /\ PageGoesHome(s)

Mishap(s) ==
  /\ Pumping /\ MainWaits
  /\ PageStrays(s) \/ PageDies(s)

-----------------------------------------------------------------------------
(* App::Run. *)

MainGoes(next) == main' = next /\ UNCHANGED <<closing, size>>

\* PopExitRequest; CloseGameOnExitRequest returns from Run.
Poll ==
  /\ main = "poll" /\ ~closing
  /\ MainGoes(IF exitRequested THEN "ended" ELSE "input")
  /\ exitRequested' = FALSE
  /\ UNCHANGED <<shows, session, external, reason>>

\* UpdateInput in any other state, or ShowOfflineHtml without the document, or
\* without COM.  Whether the state that is drawn then is InGame is left open.
Input ==
  /\ main = "input" /\ ~closing
  /\ MainGoes("draw") \/ MainGoes("game")
  /\ UNCHANGED <<exitRequested, shows, session, external, reason>>

\* UpdateInput in AppState::Credits: Show up to its loop.
StartShow ==
  /\ main = "input" /\ ~closing /\ shows < MaxShows
  /\ MainGoes("show")
  /\ shows' = shows + 1
  /\ container' = container \union {shows'}
  /\ bounds' = [bounds EXCEPT ![shows'] = size]
  /\ BrowserBecomes(shows', "environment")
  /\ UNCHANGED <<exitRequested, cancelled, failed, done, page, placed, reason>>

\* CreateCoreWebView2Environment fails at once: the loop is not entered.
ShowUnavailable ==
  /\ main = "input" /\ ~closing /\ shows < MaxShows
  /\ MainGoes("draw")
  /\ shows' = shows + 1
  /\ failed' = failed \union {shows'}
  /\ cancelled' = cancelled \union {shows'}
  /\ reason' = [reason EXCEPT ![shows'] = "unavailable"]
  /\ UNCHANGED <<exitRequested, done, container, bounds, external>>

\* Session::ApplyBounds.
ApplyBounds(s) ==
  /\ bounds' = [bounds EXCEPT ![s] = size]
  /\ placed' = IF browser[s] = "live" THEN [placed EXCEPT ![s] = size] ELSE placed

\* One pass of the loop after its messages, the window being open.  Bounds that
\* the session already has are not applied again.
ShowGoesOn ==
  /\ main = "show" /\ ~closing /\ ~exitRequested
  /\ shows \notin done \union failed
  /\ IF bounds[shows] = size THEN UNCHANGED <<bounds, placed>> ELSE ApplyBounds(shows)
  /\ UNCHANGED <<main, window, shows, cancelled, failed, done, container, browser, page, reason>>

\* What the loop is left for: the window's close goes first, and a failure is
\* reported whatever the reason.
Result ==
  CASE shows \in failed -> "unavailable"
    [] exitRequested -> "closed"
    [] OTHER -> reason[shows]

\* Mutant: the session takes the exit request, as Run does.
ShowReturnsAndPops ==
  /\ main = "show" /\ ~closing
  /\ exitRequested \/ shows \in done \union failed
  /\ MainGoes("draw")
  /\ reason' = [reason EXCEPT ![shows] = Result]
  /\ cancelled' = cancelled \union {shows}
  /\ container' = container \ {shows}
  /\ BrowserBecomes(shows, IF browser[shows] = "live" THEN "over" ELSE browser[shows])
  /\ exitRequested' = FALSE
  /\ UNCHANGED <<shows, failed, done, bounds, page, placed>>

\* The rest of Show.  A browser that is there is closed; one that is still being
\* made is not, and finds the session cancelled.
ShowReturns ==
  /\ main = "show" /\ ~closing
  /\ exitRequested \/ shows \in done \union failed
  /\ MainGoes("draw")
  /\ reason' = [reason EXCEPT ![shows] = Result]
  /\ cancelled' = cancelled \union {shows}
  /\ container' = container \ {shows}
  /\ BrowserBecomes(shows, IF browser[shows] = "live" THEN "over" ELSE browser[shows])
  /\ UNCHANGED <<exitRequested, shows, failed, done, bounds, page, placed>>

\* gb::RunFrame has returned.
GameFrame ==
  /\ main = "game"
  /\ MainGoes("draw")
  /\ UNCHANGED <<exitRequested, shows, session, external, reason>>

\* SwapBuffers.
Draw ==
  /\ main = "draw" /\ ~closing
  /\ MainGoes("poll")
  /\ UNCHANGED <<exitRequested, shows, session, external, reason>>

\* SwapBuffers with a script that quits at this frame (RunScriptEvents).
DrawAndQuit ==
  /\ main = "draw" /\ ~closing
  /\ MainGoes("poll")
  /\ exitRequested' = TRUE
  /\ UNCHANGED <<shows, session, external, reason>>

Run ==
  \/ Poll \/ Input \/ StartShow \/ ShowUnavailable \/ ShowGoesOn \/ ShowReturns
  \/ Draw \/ DrawAndQuit

Ended == main = "ended" /\ UNCHANGED vars

Next ==
  \/ UserCloses \/ CloseMessage \/ SizeMessage
  \/ \E s \in Sessions : Creation(s) \/ Playback(s) \/ Mishap(s)
  \/ Run \/ GameFrame \/ Ended

Spec == Init /\ [][Next]_vars

\* The main thread runs, except perhaps inside a game's frame, which a game with the
\* LCD off never ends (strong fairness: the user may click the close button again
\* before a pump is over, but not for ever faster than it is drained), the
\* browser answers each request, and the page, which refreshes to the callback URL
\* after 52 s, gets there.  Nobody has to close the window.
FairSpec ==
  /\ Spec
  /\ WF_vars(CloseMessage) /\ SF_vars(Run)
  /\ \A s \in Sessions :
       /\ WF_vars(Creation(s)) /\ SF_vars(Playback(s))
       /\ SF_vars(Refresh(s))

-----------------------------------------------------------------------------
(* Properties. *)

\* The callbacks "can outlive Show() if the window closes during startup": whenever
\* they come, no browser is left open in the game's window after its Show.
NoBrowserLeft == \A s \in Sessions : browser[s] = "live" => main = "show" /\ s = shows

\* What a caller of Show sees: the page that is open, and what each Show has returned.
Display == {<<s, page[s]>> : s \in {t \in Sessions : browser[t] = "live"}}
Answers == [s \in Sessions |-> IF s \in cancelled THEN reason[s] ELSE "none"]

Promise == INSTANCE Applet WITH
  MaxCalls <- MaxShows, calls <- shows, calling <- (main = "show"),
  display <- Display, closeAsked <- exitRequested, answers <- Answers

\* One call after the other, each answered once and truly: a page that strayed is not one
\* that failed to load, one that went home is reported so unless the window was closed
\* meanwhile, and a callback that comes after the answer shows nothing and changes nothing.
ImplementsApplet == Promise!Spec

\* "The call blocks like the applet does and returns": it does, unless the browser
\* dies, which nothing reports.
ShowEnds == main = "show" ~> (main # "show" \/ page[shows] = "dead")

\* A close of the window ends the program, also from inside the modal loop, also
\* with a dead browser ("left set: App::Run handles the close afterwards"): without
\* another frame of a game if it comes before the pass looks at the request, and at
\* any other moment if the frames of the game come to an end.
CloseEndsApp ==
  /\ (closing /\ main \in {"poll", "show", "draw"}) ~> main = "ended"
  /\ []<>(main # "game") => (closing ~> main = "ended")

\* The page follows the window, whether it is resized before or after the browser
\* exists.
PageFollowsWindow ==
  \A z \in Sizes :
    (size = z /\ main = "show")
      ~> (main # "show" \/ size # z \/ browser[shows] # "live" \/ placed[shows] = z)

================================================================================
