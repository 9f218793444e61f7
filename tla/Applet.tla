-------------------------------- MODULE Applet ---------------------------------
(***************************************************************************)
(* What the offline HTML applet promises the application, whenever the     *)
(* browser behind it answers.  It is called once at a time.  A page is on  *)
(* display only during its call, and what became of it is final.  A call   *)
(* is answered once, and its answer is true of the page; nothing that      *)
(* comes later shows a page or changes an answer.  A request to close the  *)
(* window ends a call and is left for the application.                     *)
(***************************************************************************)
EXTENDS Naturals

CONSTANT MaxCalls

VARIABLES
  calls,       \* the number of the last call
  calling,     \* it has not been answered
  display,     \* the page on display: no or one pair of a call and its page's state
  closeAsked,
  answers      \* by call

vars == <<calls, calling, display, closeAsked, answers>>

Calls == 1 .. MaxCalls
Open == {"loading", "shown", "refused"}
Final == {"home", "error", "dead"}

Init ==
  /\ calls = 0 /\ ~calling
  /\ display = {}
  /\ ~closeAsked
  /\ answers = [c \in Calls |-> "none"]

Begin ==
  /\ ~calling /\ calls < MaxCalls
  /\ calls' = calls + 1
  /\ UNCHANGED <<display, closeAsked>>

\* The applet cannot run at all.
Refuse ==
  /\ Begin
  /\ UNCHANGED calling
  /\ answers' = [answers EXCEPT ![calls'] = "unavailable"]

Call == Begin /\ calling' /\ UNCHANGED answers

Appear ==
  /\ calling /\ display = {}
  /\ display' = {<<calls, "loading">>}
  /\ UNCHANGED <<calls, calling, closeAsked, answers>>

Turn(from, to) ==
  /\ calling /\ display = {<<calls, from>>}
  /\ display' = {<<calls, to>>}
  /\ UNCHANGED <<calls, calling, closeAsked, answers>>

IsTrue(answer) ==
  /\ answer = "callback" => display = {<<calls, "home">>}
  /\ answer = "loadFailed" => display = {<<calls, "error">>}
  /\ answer = "unavailable" => display = {}
  /\ answer = "closed" => closeAsked

Answer(answer) ==
  /\ calling /\ ~calling'
  /\ IsTrue(answer)
  /\ display' = {}
  /\ answers' = [answers EXCEPT ![calls] = answer]
  /\ UNCHANGED <<calls, closeAsked>>

AskToClose ==
  /\ closeAsked'
  /\ UNCHANGED <<calls, calling, display, answers>>

\* Not while a call lasts.
TakeRequest ==
  /\ ~calling /\ ~closeAsked'
  /\ UNCHANGED <<calls, calling, display, answers>>

Next ==
  \/ Call \/ Refuse \/ Appear \/ AskToClose \/ TakeRequest
  \/ \E from \in Open, to \in Open \union Final : Turn(from, to)
  \/ \E answer \in {"callback", "loadFailed", "unavailable", "closed"} : Answer(answer)

Spec == Init /\ [][Next]_vars

================================================================================
