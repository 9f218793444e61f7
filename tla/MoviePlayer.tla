------------------------------ MODULE MoviePlayer ------------------------------
(***************************************************************************)
(* The startup movie (platform/win32/MoviePlayer_win32.cpp): Play opens a  *)
(* decoder thread per track, waits for both, shows the decoded frames as   *)
(* they fall due, and joins the threads.                                   *)
(*                                                                         *)
(* The three threads share a mutex and a condition variable.  A critical   *)
(* section is one action, but for the gap in condition_variable::wait: a   *)
(* thread that has found its predicate false ("test") still holds the      *)
(* mutex, and is not yet one of those that a notify wakes ("wait").        *)
(* The main thread waits with a timeout of 5 ms, that is, it polls.        *)
(***************************************************************************)
EXTENDS Sequences, Naturals

CONSTANTS
  LastFrame,   \* frames of the video track, numbered and stamped 1 .. LastFrame
  QueueFrames, \* kQueuedVideoFrames: 8
  DropLate     \* kDropLateUs, in frames

ASSUME MovieAssumption ==
  /\ LastFrame \in Nat /\ QueueFrames \in Nat \ {0}
  /\ DropLate \in Nat \ {0}

VARIABLES
  main, video, audio,     \* where the threads are
  stop, start,            \* Shared::stop is an atomic, all else is under the mutex
  videoOpened, videoFailed, videoEnded, videoDecoded, frames,
  audioOpened, audioFailed, audioReady, audioEnded,
  presented, dropped,     \* frames that Play has shown and skipped
  clock,                  \* the time since the start, in frames
  why,                    \* history: why Play went on to finish, or "none"
  late                    \* history: the wait for the decoders timed out

videoVars == <<videoOpened, videoFailed, videoEnded, videoDecoded, frames>>
audioVars == <<audioOpened, audioFailed, audioReady, audioEnded>>
playVars == <<presented, dropped, clock>>
history == <<why, late>>
vars == <<main, video, audio, stop, start, videoVars, audioVars, playVars, history>>

LastClock == LastFrame + DropLate

TypeOK ==
  /\ main \in {"decoders", "prefill", "start", "loop", "stop", "notify", "joinAudio",
               "joinVideo", "done"}
  /\ video \in {"open", "read", "push", "test", "wait", "end", "done"}
  /\ audio \in {"open", "decode", "ready", "await", "test", "wait", "play", "end", "done"}
  /\ {stop, start, videoOpened, videoFailed, videoEnded} \subseteq BOOLEAN
  /\ {audioOpened, audioFailed, audioReady, audioEnded, late} \subseteq BOOLEAN
  /\ videoDecoded \in 0 .. LastFrame
  /\ frames \in Seq(1 .. LastFrame) /\ Len(frames) <= QueueFrames
  /\ presented \in 0 .. LastFrame /\ dropped \in 0 .. LastFrame
  /\ clock \in 0 .. LastClock
  /\ why \in {"none", "ended", "failed", "closed"}

Init ==
  /\ main = "decoders" /\ video = "open" /\ audio = "open"
  /\ stop = FALSE /\ start = FALSE
  /\ videoOpened = FALSE /\ videoFailed = FALSE /\ videoEnded = FALSE
  /\ videoDecoded = 0 /\ frames = <<>>
  /\ audioOpened = FALSE /\ audioFailed = FALSE /\ audioReady = FALSE /\ audioEnded = FALSE
  /\ presented = 0 /\ dropped = 0 /\ clock = 0
  /\ why = "none" /\ late = FALSE

Unlocked == video # "test" /\ audio # "test"

\* notify_all: a thread that waits tests its predicate again.
WokenVideo == IF video = "wait" THEN "push" ELSE video
WokenAudio == IF audio = "wait" THEN "await" ELSE audio

-----------------------------------------------------------------------------
(* VideoDecoderMain. *)

\* Shared::Update by this thread.
VideoUpdate(next) ==
  /\ Unlocked
  /\ video' = next
  /\ audio' = WokenAudio
  /\ UNCHANGED <<main, stop, start, audioVars, playVars, history>>

VideoOpens ==
  /\ video = "open"
  /\ VideoUpdate("read")
  /\ videoOpened' = TRUE
  /\ UNCHANGED <<videoFailed, videoEnded, videoDecoded, frames>>

VideoFails ==
  /\ video = "open"
  /\ VideoUpdate("done")
  /\ videoFailed' = TRUE
  /\ UNCHANGED <<videoOpened, videoEnded, videoDecoded, frames>>

VideoGoes(next) ==
  /\ video' = next
  /\ UNCHANGED <<main, audio, stop, start, videoVars, audioVars, playVars, history>>

\* ReadSample returns a frame, or nothing more: the end of the stream, an error.
VideoReads ==
  /\ video = "read"
  /\ \/ ~stop /\ videoDecoded < LastFrame /\ VideoGoes("push")
     \/ VideoGoes("end")

HasRoom == Len(frames) < QueueFrames

\* The end of the stream may be flagged with the last frame, or come later.
VideoPushes ==
  /\ video = "push" /\ ~stop /\ HasRoom
  /\ \E next \in {"read", "end"} :
       VideoUpdate(next) /\ (next = "end" => videoDecoded' = LastFrame)
  /\ frames' = Append(frames, videoDecoded + 1)
  /\ videoDecoded' = videoDecoded + 1
  /\ UNCHANGED <<videoOpened, videoFailed, videoEnded>>

\* The predicate holds because of stop: return at once, without videoEnded.
VideoLeaves ==
  /\ Unlocked /\ video = "push" /\ stop
  /\ VideoGoes("done")

VideoTests ==
  /\ Unlocked /\ video = "push" /\ ~stop /\ ~HasRoom
  /\ VideoGoes("test")

VideoWaits ==
  /\ video = "test"
  /\ VideoGoes("wait")

\* Mutant: the thread returns without a word.
VideoEndsSilently ==
  /\ video = "end"
  /\ VideoUpdate("done")
  /\ UNCHANGED videoVars

VideoEnds ==
  /\ video = "end"
  /\ VideoUpdate("done")
  /\ videoEnded' = TRUE
  /\ UNCHANGED <<videoOpened, videoFailed, videoDecoded, frames>>

Video ==
  \/ VideoOpens \/ VideoFails \/ VideoReads \/ VideoPushes \/ VideoLeaves
  \/ VideoTests \/ VideoWaits \/ VideoEnds

-----------------------------------------------------------------------------
(* AudioMain. *)

AudioUpdate(next) ==
  /\ Unlocked
  /\ audio' = next
  /\ video' = WokenVideo
  /\ UNCHANGED <<main, stop, start, videoVars, playVars, history>>

AudioOpens ==
  /\ audio = "open"
  /\ AudioUpdate("decode")
  /\ audioOpened' = TRUE
  /\ UNCHANGED <<audioFailed, audioReady, audioEnded>>

AudioFails ==
  /\ audio = "open"
  /\ AudioUpdate("done")
  /\ audioFailed' = TRUE
  /\ UNCHANGED <<audioOpened, audioReady, audioEnded>>

AudioGoes(next) ==
  /\ audio' = next
  /\ UNCHANGED <<main, video, stop, start, videoVars, audioVars, playVars, history>>

\* The whole track is decoded, or as much of it as there was time for.
AudioDecodes == audio = "decode" /\ AudioGoes("ready")

AudioIsReady ==
  /\ audio = "ready"
  /\ AudioUpdate("await")
  /\ audioReady' = TRUE
  /\ UNCHANGED <<audioOpened, audioFailed, audioEnded>>

AudioLeaves ==
  /\ Unlocked /\ audio = "await" /\ stop
  /\ AudioGoes("done")

AudioStarts ==
  /\ Unlocked /\ audio = "await" /\ ~stop /\ start
  /\ AudioGoes("play")

AudioTests ==
  /\ Unlocked /\ audio = "await" /\ ~stop /\ ~start
  /\ AudioGoes("test")

AudioWaits == audio = "test" /\ AudioGoes("wait")

\* Every chunk has been written, or stop was seen between two of them.
AudioPlays == audio = "play" /\ AudioGoes("end")

AudioEnds ==
  /\ audio = "end"
  /\ AudioUpdate("done")
  /\ audioEnded' = TRUE
  /\ UNCHANGED <<audioOpened, audioFailed, audioReady>>

Audio ==
  \/ AudioOpens \/ AudioFails \/ AudioDecodes \/ AudioIsReady \/ AudioLeaves
  \/ AudioStarts \/ AudioTests \/ AudioWaits \/ AudioPlays \/ AudioEnds

\* A condition variable may wake its waiters for no reason.
SpuriousWakeup ==
  \/ video = "wait" /\ VideoGoes("push")
  \/ audio = "wait" /\ AudioGoes("await")

-----------------------------------------------------------------------------
(* Play. *)

MainGoes(next) ==
  /\ main' = next
  /\ UNCHANGED <<video, audio, stop, start, videoVars, audioVars, playVars>>

GivesUp(reason) == MainGoes("stop") /\ why' = reason /\ UNCHANGED late

DecodersKnown == (videoOpened \/ videoFailed) /\ (audioOpened \/ audioFailed)

\* The wait for the decoders is over: both are known, or 5 s have passed.
DecodersReady ==
  /\ main = "decoders" /\ Unlocked
  /\ \/ (videoFailed \/ audioFailed) /\ why' = "failed" /\ MainGoes("stop")
     \/ ~(videoFailed \/ audioFailed) /\ UNCHANGED why /\ MainGoes("prefill")
  /\ late' = ~DecodersKnown

\* The shaders do not compile.
CreateFails == main = "prefill" /\ GivesUp("failed")

\* Enough is decoded, or 1 s has passed: playback starts either way.
PrefillDone ==
  /\ main = "prefill" /\ Unlocked
  /\ MainGoes("start")
  /\ UNCHANGED history

StartPlayback ==
  /\ main = "start" /\ Unlocked
  /\ main' = "loop"
  /\ start' = TRUE
  /\ video' = WokenVideo /\ audio' = WokenAudio
  /\ UNCHANGED <<stop, videoVars, audioVars, playVars, history>>

\* Mutant: playback ends with the streams, whatever is still queued.
EndedUndrained == audioEnded /\ videoEnded

MovieEnded == audioEnded /\ videoEnded /\ frames = <<>>

\* The check that is made every 100 ms.
EndPoll ==
  /\ main = "loop" /\ Unlocked
  /\ main' = IF MovieEnded THEN "stop" ELSE "loop"
  /\ why' = IF MovieEnded THEN "ended" ELSE why
  /\ video' = WokenVideo /\ audio' = WokenAudio
  /\ UNCHANGED <<stop, start, late, videoVars, audioVars, playVars>>

\* The frames at the front of the queue that are due and too late; the first
\* frame of all anchors the clock to itself.
TooLate ==
  {i \in DOMAIN frames :
     presented + dropped > 0 /\ \A j \in 1 .. i : clock >= frames[j] + DropLate}

\* One pass: late frames are dropped, and one that is due is shown.
Present ==
  /\ main = "loop" /\ Unlocked
  /\ LET late_ == IF TooLate = {} THEN 0 ELSE CHOOSE i \in TooLate : i + 1 \notin TooLate
         rest == SubSeq(frames, late_ + 1, Len(frames))
         shown == rest # <<>> /\ (presented + dropped = 0 \/ Head(rest) <= clock)
     IN  /\ dropped' = dropped + late_
         /\ presented' = IF shown THEN presented + 1 ELSE presented
         /\ frames' = IF shown THEN Tail(rest) ELSE rest
  /\ video' = WokenVideo /\ audio' = WokenAudio
  /\ UNCHANGED <<main, stop, start, videoOpened, videoFailed, videoEnded, videoDecoded,
                 audioVars, clock, history>>

Tick ==
  /\ main = "loop" /\ clock < LastClock
  /\ clock' = clock + 1
  /\ UNCHANGED <<main, video, audio, stop, start, videoVars, audioVars, presented, dropped,
                 history>>

\* The window is closed, which the next pass of either loop notices.
WindowClosed ==
  /\ main \in {"decoders", "prefill", "loop"}
  /\ GivesUp("closed")

\* finish: stop is set without the mutex, ...
SetStop ==
  /\ main = "stop"
  /\ main' = "notify"
  /\ stop' = TRUE
  /\ UNCHANGED <<video, audio, start, videoVars, audioVars, playVars, history>>

\* ... only then the waiting threads are woken,
Notify ==
  /\ main = "notify"
  /\ main' = "joinAudio"
  /\ video' = WokenVideo /\ audio' = WokenAudio
  /\ UNCHANGED <<stop, start, videoVars, audioVars, playVars, history>>

\* Mutant: the video thread is left to itself.
JoinAudioOnly ==
  \/ main = "joinAudio" /\ audio = "done" /\ MainGoes("done") /\ UNCHANGED history
  \/ main = "joinVideo" /\ MainGoes("done") /\ UNCHANGED history

\* and joined.
Join ==
  \/ main = "joinAudio" /\ audio = "done" /\ MainGoes("joinVideo") /\ UNCHANGED history
  \/ main = "joinVideo" /\ video = "done" /\ MainGoes("done") /\ UNCHANGED history

Main ==
  \/ DecodersReady \/ CreateFails \/ PrefillDone \/ StartPlayback
  \/ EndPoll \/ Present \/ WindowClosed \/ SetStop \/ Notify \/ Join

\* Play has returned.
Returned == main = "done" /\ UNCHANGED vars

Next == Main \/ Tick \/ Video \/ Audio \/ SpuriousWakeup \/ Returned

Spec == Init /\ [][Next]_vars

\* The threads run and get the mutex now and then (strong fairness: the others keep
\* taking it), the timeouts expire, time passes.  Nobody has to close the window,
\* and no thread is woken for no reason for ever.
FairSpec ==
  /\ Spec
  /\ SF_vars(Video) /\ SF_vars(Audio) /\ WF_vars(Tick)
  /\ SF_vars(DecodersReady) /\ SF_vars(PrefillDone) /\ SF_vars(StartPlayback)
  /\ SF_vars(EndPoll) /\ SF_vars(Present)
  /\ WF_vars(SetStop \/ Notify \/ Join)
  /\ <>[][~SpuriousWakeup]_vars

-----------------------------------------------------------------------------
(* Properties. *)

\* Whatever the three threads do, the viewer gets the frames of the movie in order, each
\* in its time; none is skipped whose time is not over; and when the movie has played to
\* its end, the last frame was taken from the queue, although the decoder ends earlier.
Viewer == INSTANCE Screening WITH
  queue <- frames, shown <- presented, skipped <- dropped, time <- clock,
  ended <- (why = "ended"), Ahead <- QueueFrames, Patience <- DropLate

ImplementsScreening == Viewer!Spec

\* The threads use Play's locals: none of them outlives it.
NoThreadOutlivesPlay == main = "done" => video = "done" /\ audio = "done"

\* A movie that nothing interrupts and whose decoders open in time ends.
PlayReturns == [](why \in {"none", "ended"} /\ ~late /\ ~videoFailed /\ ~audioFailed)
                 => <>(main = "done")

\* "a window close stops playback early".
CloseStopsPlayback == why = "closed" ~> main = "done"

================================================================================
