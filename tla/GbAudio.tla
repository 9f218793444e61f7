-------------------------------- MODULE GbAudio --------------------------------
(***************************************************************************)
(* The Game Boy's sound on its way to the output (gb/Audio.cpp): the main  *)
(* thread fills a ring while a game runs, and an audio thread, started and *)
(* joined with each game, refills two buffers from it.                     *)
(*                                                                         *)
(* A buffer is reduced to what it may hold: leftovers of the heap, silence,*)
(* game audio, or game audio from before the ring was last cleared.  The   *)
(* ring always holds silence followed by game audio, so two counters say   *)
(* what is in it.  The fade of the volume and the first 30 frames, which   *)
(* are not recorded, only change what is heard and are left out.           *)
(***************************************************************************)
EXTENDS AudioOut

CONSTANTS
  RingFrames,    \* 0x2000
  BufferFrames,  \* 0x800
  PumpSamples,   \* the sizes of a read from the stereo buffer, two samples a frame
  bufA, bufB     \* the thread's two blocks

ASSUME AudioAssumption ==
  /\ RingFrames \in Nat /\ BufferFrames \in Nat \ {0}
  /\ 2 * BufferFrames <= RingFrames
  /\ \A n \in PumpSamples : n \in Nat /\ n > 0 /\ n % 2 = 0
  /\ Buffers = {bufA, bufB} /\ bufA # bufB
  /\ Tags = {"heap", "silence", "game", "old"}

VARIABLES
  main,           \* where the main thread is; "init": inside gb::Init
  audio,          \* where AudioThreadMain is
  buf,            \* the buffer it collected last
  threadRunning,
  ringSilence,    \* frames of silence at the front of the ring ...
  ringGame,       \* ... and frames of game audio behind them
  blocks,         \* per buffer: what its memory may hold
  refills         \* buffers refilled since the ring was cleared, up to 2

gbVars == <<main, audio, buf, threadRunning, ringSilence, ringGame, blocks, refills>>
vars == <<outVars, gbVars>>

MainStates == {"menu", "init", "game", "paused", "stopping", "closing", "ended"}
AudioStates == {"none", "open", "appendA", "appendB", "mute", "check", "wait", "collect",
                "refill", "append", "joining"}

ringFill == ringSilence + ringGame

TypeOK ==
  /\ OutTypeOK
  /\ main \in MainStates
  /\ audio \in AudioStates
  /\ buf \in Buffers
  /\ threadRunning \in BOOLEAN
  /\ ringSilence \in 0 .. RingFrames /\ ringGame \in 0 .. RingFrames
  /\ ringFill <= RingFrames
  /\ blocks \in [Buffers -> Content]
  /\ refills \in 0 .. 2

Init ==
  /\ OutInit
  /\ main = "menu" /\ audio = "none"
  /\ buf = bufA
  /\ threadRunning = FALSE
  /\ ringSilence = RingFrames /\ ringGame = 0
  /\ blocks = [b \in Buffers |-> {"heap"}]
  /\ refills = 0

-----------------------------------------------------------------------------
(* The main thread. *)

\* What was game audio is old audio once the ring has been cleared.
Aged(content) == IF "game" \in content THEN (content \ {"game"}) \cup {"old"} ELSE content

\* Mutant: the ring is emptied instead of filled with silence.
AudioRingEmpty ==
  /\ ringSilence' = 0
  /\ ringGame' = 0
  /\ blocks' = [b \in Buffers |-> Aged(blocks[b])]
  /\ refills' = 0

AudioRingClear ==
  /\ ringSilence' = RingFrames
  /\ ringGame' = 0
  /\ blocks' = [b \in Buffers |-> Aged(blocks[b])]
  /\ refills' = 0

\* gb::Init starts the thread (the previous one was joined) ...
AudioThreadStart ==
  /\ main = "menu"
  /\ main' = "init"
  /\ threadRunning' = TRUE
  /\ audio' = "open"
  /\ UNCHANGED <<outVars, buf, ringSilence, ringGame, blocks, refills>>

\* ... and clears the ring a little later.
InitClear ==
  /\ main = "init"
  /\ main' = "game"
  /\ AudioRingClear
  /\ UNCHANGED <<outVars, audio, buf, threadRunning>>

\* Mutant: n and the fill are both taken for frames.
FitsTooMuch(n) == ringFill < RingFrames

\* n counts samples, the fill counts frames.
Fits(n) == ringFill + n < RingFrames

\* AudioPumpFrameSamples: what does not fit is dropped.
Pump(n) ==
  /\ main = "game"
  /\ Fits(n)
  /\ ringGame' = ringGame + n \div 2
  /\ UNCHANGED <<outVars, main, audio, buf, threadRunning, ringSilence, blocks, refills>>

\* Mutant: the ring is not cleared while paused.
PauseFrameKeepsRing ==
  /\ main \in {"game", "paused"}
  /\ main' = "paused"
  /\ UNCHANGED <<outVars, audio, buf, threadRunning, ringSilence, ringGame, blocks, refills>>

\* Every frame of the pause menu clears the ring, and so does LoadState.
PauseFrame ==
  /\ main \in {"game", "paused"}
  /\ main' = "paused"
  /\ AudioRingClear
  /\ UNCHANGED <<outVars, audio, buf, threadRunning>>

Resume ==
  /\ main = "paused"
  /\ main' = "game"
  /\ UNCHANGED <<outVars, audio, buf, threadRunning, ringSilence, ringGame, blocks, refills>>

\* AudioThreadStop, up to the join: the game is left from the pause menu ...
ExitGame ==
  /\ main = "paused"
  /\ main' = "stopping"
  /\ threadRunning' = FALSE
  /\ UNCHANGED <<outVars, audio, buf, ringSilence, ringGame, blocks, refills>>

\* ... or the window is closed.
CloseWindow ==
  /\ main \in {"game", "paused"}
  /\ main' = "closing"
  /\ threadRunning' = FALSE
  /\ UNCHANGED <<outVars, audio, buf, ringSilence, ringGame, blocks, refills>>

Join ==
  /\ main \in {"stopping", "closing"} /\ audio = "none"
  /\ main' = IF main = "stopping" THEN "menu" ELSE "ended"
  /\ UNCHANGED <<outVars, audio, buf, threadRunning, ringSilence, ringGame, blocks, refills>>

-----------------------------------------------------------------------------
(* AudioThreadMain. *)

AudioStep(from, to) ==
  /\ audio = from
  /\ audio' = to
  /\ UNCHANGED <<main, threadRunning>>

RingUnchanged == UNCHANGED <<ringSilence, ringGame, refills>>

\* The blocks come from the heap as they are; the first may be one of those that
\* the previous session freed (from the fourth launch on it is).
OpenOutput ==
  /\ AudioStep("open", "appendA")
  /\ OpenAndStart
  /\ \E content \in {{"heap"}, blocks[bufA], blocks[bufB]} :
       blocks' = [b \in Buffers |-> IF b = bufA THEN content ELSE {"heap"}]
  /\ RingUnchanged /\ UNCHANGED buf

AppendFirst ==
  /\ AudioStep("appendA", "appendB")
  /\ AppendBuffer(bufA, blocks[bufA])
  /\ RingUnchanged /\ UNCHANGED <<buf, blocks>>

AppendSecond ==
  /\ AudioStep("appendB", "mute")
  /\ AppendBuffer(bufB, blocks[bufB])
  /\ RingUnchanged /\ UNCHANGED <<buf, blocks>>

Mute ==
  /\ AudioStep("mute", "check")
  /\ SetVolume
  /\ RingUnchanged /\ UNCHANGED <<buf, blocks>>

Loop ==
  /\ threadRunning
  /\ AudioStep("check", "wait")
  /\ RingUnchanged /\ UNCHANGED <<outVars, buf, blocks>>

Wake ==
  /\ AudioStep("wait", "collect")
  /\ WaitEvent
  /\ RingUnchanged /\ UNCHANGED <<buf, blocks>>

Collect ==
  /\ AudioStep("collect", "refill")
  /\ GetReleased
  /\ buf' = Head(released)
  /\ RingUnchanged /\ UNCHANGED blocks

NothingReleased ==
  /\ released = <<>>
  /\ AudioStep("collect", "check")
  /\ RingUnchanged /\ UNCHANGED <<outVars, buf, blocks>>

AtMost(m, n) == IF m < n THEN m ELSE n

\* The front of the ring goes to the buffer; on underrun the rest of the buffer
\* keeps what it held.
Refill ==
  /\ AudioStep("refill", "append")
  /\ LET n == AtMost(ringFill, BufferFrames)
         fromSilence == AtMost(ringSilence, n)
         copied == (IF fromSilence > 0 THEN {"silence"} ELSE {})
                     \cup (IF n > fromSilence THEN {"game"} ELSE {})
         kept == IF n < BufferFrames THEN blocks[buf] ELSE {}
     IN  /\ ringSilence' = ringSilence - fromSilence
         /\ ringGame' = ringGame - (n - fromSilence)
         /\ blocks' = [blocks EXCEPT ![buf] = copied \cup kept]
  /\ refills' = AtMost(refills + 1, 2)
  /\ UNCHANGED <<outVars, buf>>

\* Mutant: one buffer is served per event.
AppendRefilledOnce ==
  /\ AudioStep("append", "check")
  /\ AppendBuffer(buf, blocks[buf])
  /\ RingUnchanged /\ UNCHANGED <<buf, blocks>>

\* Mutant: a buffer is only appended again when the ring had something for it.
AppendFilledOnly ==
  /\ AudioStep("append", "collect")
  /\ IF blocks[buf] = {"heap"} THEN UNCHANGED outVars ELSE AppendBuffer(buf, blocks[buf])
  /\ RingUnchanged /\ UNCHANGED <<buf, blocks>>

AppendRefilled ==
  /\ AudioStep("append", "collect")
  /\ AppendBuffer(buf, blocks[buf])
  /\ RingUnchanged /\ UNCHANGED <<buf, blocks>>

\* The loop ends: FreeAudioBlocks, and the output is stopped and joined.
StopOutput ==
  /\ ~threadRunning
  /\ AudioStep("check", "joining")
  /\ RequestStop
  /\ RingUnchanged /\ UNCHANGED <<buf, blocks>>

ThreadReturns ==
  /\ device = "none"
  /\ AudioStep("joining", "none")
  /\ RingUnchanged /\ UNCHANGED <<outVars, buf, blocks>>

AudioThread ==
  \/ OpenOutput \/ AppendFirst \/ AppendSecond \/ Mute
  \/ Loop \/ Wake \/ Collect \/ NothingReleased \/ Refill \/ AppendRefilled
  \/ StopOutput \/ ThreadReturns

DeviceThread == Device /\ UNCHANGED gbVars

Main ==
  \/ AudioThreadStart \/ InitClear \/ PauseFrame \/ Resume \/ ExitGame \/ CloseWindow \/ Join
  \/ \E n \in PumpSamples : Pump(n)

\* The process has ended.
Ended == main = "ended" /\ UNCHANGED vars

Next == Main \/ AudioThread \/ DeviceThread \/ Ended

Spec == Init /\ [][Next]_vars

\* Both threads run whenever they can; the main thread returns from its joins.
FairSpec == Spec /\ WF_vars(AudioThread) /\ WF_vars(DeviceThread) /\ WF_vars(Join)

-----------------------------------------------------------------------------
(* Properties. *)

\* Once both are appended, every buffer is in exactly one place, and they are
\* served in turn: in the thread's hands, released, or queued.
Circulating == audio \in {"mute", "check", "wait", "collect", "refill", "append"}
Cycle ==
  (IF audio \in {"refill", "append"} THEN <<buf>> ELSE <<>>) \o released
    \o [i \in DOMAIN queued |-> queued[i].buffer]

BuffersConserved == Circulating => Cycle \in {<<bufA, bufB>>, <<bufB, bufA>>}

\* The thread never waits for an event that was already taken away from it: when
\* none is pending it has collected everything, and both buffers are queued, so
\* that the next period wakes it (AudioThreadStop has no other way to).
WaitingIsWokenUp ==
  audio = "wait" /\ ~event => released = <<>> /\ Len(queued) = 2 /\ streamOpen /\ ~stop

\* Two refills after the ring was cleared, neither buffer holds game audio from
\* before, although an underrun leaves the rest of a buffer as it was.
NoStaleAfterClear == refills = 2 => \A b \in Buffers : "old" \notin blocks[b]

\* Outside a game the ring holds none of its audio: the thread of the next
\* session may drain the ring before gb::Init clears it.
QuietOutsideGame == main \in {"menu", "init", "stopping"} => ringGame = 0

\* AudioThreadStop returns: both threads notice that they are to stop.  The thread
\* collects until nothing is released, so this needs that in the end it serves a
\* buffer within the period (43 ms) that the device leaves it; if every period
\* ended while it copies, it would never look at threadRunning again.
ServedInTime == <>[][TakeIsDue /\ mixed' # mixed => audio \notin {"collect", "refill", "append"}]_vars

StopReturns ==
  ServedInTime =>
    /\ main = "stopping" ~> main = "menu"
    /\ main = "closing" ~> main = "ended"

=============================================================================
