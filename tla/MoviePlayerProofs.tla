--------------------------- MODULE MoviePlayerProofs ---------------------------
(***************************************************************************)
(* The startup movie, for every length of it, every size of the queue and  *)
(* every tolerance for late frames: the frames stay in order and none gets *)
(* lost on the way from the decoder to the screen, a movie only ends when  *)
(* its queue is drained, so that the player implements Screening, and Play *)
(* outlives its threads.                                                   *)
(*                                                                         *)
(* Nothing of this depends on how the threads are woken: a wakeup that is  *)
(* lost or comes for no reason only moves a thread between the places      *)
(* around its wait.  So the invariant is about the queue and about the     *)
(* places that a thread does not leave again.                              *)
(***************************************************************************)
EXTENDS MoviePlayer, FiniteSetTheorems, SequenceTheorems, TLAPS

\* The queue holds the frames that were decoded and neither shown nor dropped, in
\* order: Play has taken them from the front.
QueueInv ==
  /\ presented + dropped + Len(frames) = videoDecoded
  /\ \A i \in 1 .. Len(frames) : frames[i] = presented + dropped + i

\* The decoder has a frame in its hands while it waits for room, and is done when the
\* end of the stream is flagged.
DecoderInv ==
  /\ video \in {"push", "test", "wait"} => videoDecoded < LastFrame
  /\ videoEnded => video = "done"

\* Play does not come back from finish, and what it went there for stays true.
Finishing == main \in {"stop", "notify", "joinAudio", "joinVideo", "done"}

FinishInv ==
  /\ why = "ended" => Finishing /\ videoEnded /\ frames = <<>>
  /\ main \in {"joinVideo", "done"} => audio = "done"
  /\ main = "done" => video = "done"

MovieInv == TypeOK /\ QueueInv /\ DecoderInv /\ FinishInv

Flags == {stop, start, videoOpened, videoFailed, videoEnded,
          audioOpened, audioFailed, audioReady, audioEnded, late}

Mains == {"decoders", "prefill", "start", "loop", "stop", "notify", "joinAudio", "joinVideo",
          "done"}
Videos == {"open", "read", "push", "test", "wait", "end", "done"}
Audios == {"open", "decode", "ready", "await", "test", "wait", "play", "end", "done"}

\* TypeOK, in the parts that the proofs use apart.
LEMMA TypeParts ==
  TypeOK <=>
    /\ main \in Mains /\ video \in Videos /\ audio \in Audios
    /\ Flags \subseteq BOOLEAN
    /\ videoDecoded \in 0 .. LastFrame
    /\ frames \in Seq(1 .. LastFrame) /\ Len(frames) <= QueueFrames
    /\ presented \in 0 .. LastFrame /\ dropped \in 0 .. LastFrame
    /\ clock \in 0 .. LastClock
    /\ why \in {"none", "ended", "failed", "closed"}
<1>1. Flags \subseteq BOOLEAN <=>
        /\ {stop, start, videoOpened, videoFailed, videoEnded} \subseteq BOOLEAN
        /\ {audioOpened, audioFailed, audioReady, audioEnded, late} \subseteq BOOLEAN
  BY DEF Flags
<1> QED BY <1>1 DEF TypeOK, Mains, Videos, Audios

LEMMA InitInv == Init => MovieInv
<1> SUFFICES ASSUME Init PROVE MovieInv
  OBVIOUS
<1>1. Flags \subseteq BOOLEAN
  BY DEF Init, Flags
<1>2. <<>> \in Seq(1 .. LastFrame) /\ Len(<<>>) = 0
  BY EmptySeq
<1>3. TypeOK
  BY <1>1, <1>2, MovieAssumption, TypeParts DEF Init, LastClock, Mains, Videos, Audios
<1> QED
  BY <1>2, <1>3 DEF Init, MovieInv, QueueInv, DecoderInv, FinishInv, Finishing

-----------------------------------------------------------------------------
(* Steps that leave the queue alone. *)

\* A flag is raised by a step of the thread that it tells about, and never lowered,
\* except for late, which is set to what is known.
LEMMA FlagsTyped == ASSUME Flags \subseteq BOOLEAN, Next PROVE Flags' \subseteq BOOLEAN
<1>1. CASE Video
  BY <1>1 DEF Flags, Video, VideoOpens, VideoFails, VideoReads, VideoPushes, VideoLeaves,
     VideoTests, VideoWaits, VideoEnds, VideoUpdate, VideoGoes, videoVars, audioVars, history
<1>2. CASE Audio
  BY <1>2 DEF Flags, Audio, AudioOpens, AudioFails, AudioDecodes, AudioIsReady, AudioLeaves,
     AudioStarts, AudioTests, AudioWaits, AudioPlays, AudioEnds, AudioUpdate, AudioGoes,
     videoVars, audioVars, history
<1>3. CASE SpuriousWakeup \/ Tick \/ Returned
  BY <1>3 DEF Flags, SpuriousWakeup, Tick, Returned, VideoGoes, AudioGoes, vars, videoVars,
     audioVars, history
<1>4. CASE DecodersReady
  <2>1. late' \in BOOLEAN
    BY <1>4 DEF DecodersReady
  <2>2. UNCHANGED <<stop, start, videoVars, audioVars>>
    BY <1>4 DEF DecodersReady, MainGoes
  <2> QED BY <2>1, <2>2 DEF Flags, videoVars, audioVars
<1>5. CASE CreateFails \/ PrefillDone \/ WindowClosed \/ Join \/ Notify \/ EndPoll \/ Present
  BY <1>5 DEF Flags, CreateFails, PrefillDone, WindowClosed, Join, Notify, EndPoll, Present,
     GivesUp, MainGoes, videoVars, audioVars, history
<1>6. CASE StartPlayback \/ SetStop
  BY <1>6 DEF Flags, StartPlayback, SetStop, videoVars, audioVars, history
<1> QED BY <1>1, <1>2, <1>3, <1>4, <1>5, <1>6 DEF Next, Main

QueueUnchanged == UNCHANGED <<videoDecoded, frames, presented, dropped>>

\* Where a wakeup leaves a thread.
LEMMA Woken ==
  ASSUME MovieInv
  PROVE  /\ WokenVideo \in Videos /\ WokenAudio \in Audios
         /\ video = "done" <=> WokenVideo = "done"
         /\ audio = "done" => WokenAudio = "done"
         /\ WokenVideo \in {"push", "test", "wait"} => videoDecoded < LastFrame
BY TypeParts DEF MovieInv, WokenVideo, WokenAudio, DecoderInv, Videos, Audios

LEMMA VideoInv ==
  ASSUME MovieInv, Video, ~VideoPushes PROVE MovieInv'
<1> USE DEF MovieInv
<1>1. /\ UNCHANGED <<main, clock, why>> /\ QueueUnchanged
      /\ audio' \in {audio, WokenAudio}
      /\ video # "done" /\ video' \in Videos
      /\ video' \in {"push", "test", "wait"} => videoDecoded < LastFrame
      /\ videoEnded' => videoEnded \/ video' = "done"
  BY DEF Video, VideoOpens, VideoFails, VideoReads, VideoLeaves, VideoTests, VideoWaits,
     VideoEnds, VideoUpdate, VideoGoes, QueueUnchanged, videoVars, playVars, history,
     DecoderInv, Videos
<1>2. ~videoEnded
  BY <1>1 DEF DecoderInv
<1>3. Flags' \subseteq BOOLEAN
  BY FlagsTyped, TypeParts DEF Next
<1>4. TypeOK'
  BY <1>1, <1>3, Woken, TypeParts DEF QueueUnchanged, Flags, Mains, Videos, Audios, LastClock,
     TypeOK
<1>5. QueueInv' /\ DecoderInv'
  BY <1>1, <1>2 DEF QueueUnchanged, QueueInv, DecoderInv
<1>6. FinishInv'
  BY <1>1, <1>2, Woken DEF FinishInv, Finishing
<1> QED BY <1>4, <1>5, <1>6

LEMMA AudioInv ==
  ASSUME MovieInv, Audio \/ SpuriousWakeup PROVE MovieInv'
<1> USE DEF MovieInv
<1>1. /\ UNCHANGED <<main, clock, why, videoEnded>> /\ QueueUnchanged
      /\ video' \in {video, WokenVideo}
      /\ audio' \in Audios /\ (audio = "done" => audio' = "done")
  BY DEF Audio, AudioOpens, AudioFails, AudioDecodes, AudioIsReady, AudioLeaves,
     AudioStarts, AudioTests, AudioWaits, AudioPlays, AudioEnds, AudioUpdate, AudioGoes,
     SpuriousWakeup, VideoGoes, WokenVideo, QueueUnchanged, videoVars, playVars, history,
     Audios, TypeOK
<1>3. Flags' \subseteq BOOLEAN
  BY FlagsTyped, TypeParts DEF Next
<1>4. TypeOK'
  BY <1>1, <1>3, Woken, TypeParts DEF QueueUnchanged, Flags, Mains, Videos, Audios, LastClock,
     TypeOK
<1>5. QueueInv' /\ DecoderInv'
  BY <1>1, Woken DEF QueueUnchanged, QueueInv, DecoderInv
<1>6. FinishInv'
  BY <1>1, Woken DEF QueueUnchanged, FinishInv, Finishing
<1> QED BY <1>4, <1>5, <1>6

LEMMA MainInv ==
  ASSUME MovieInv, (Main /\ ~Present) \/ Tick PROVE MovieInv'
<1> USE DEF MovieInv
<1>1. /\ QueueUnchanged /\ UNCHANGED videoEnded
      /\ video' \in {video, WokenVideo} /\ audio' \in {audio, WokenAudio}
      /\ main' \in Mains /\ why' \in {"none", "ended", "failed", "closed"}
      /\ clock' \in 0 .. LastClock
  BY MovieAssumption DEF Main, DecodersReady, CreateFails, PrefillDone, StartPlayback, EndPoll,
     WindowClosed, SetStop, Notify, Join, Tick, GivesUp, MainGoes, QueueUnchanged, videoVars,
     playVars, history, Mains, TypeOK, LastClock
<1>2. /\ why' = "ended" => (why = "ended" \/ (MovieEnded /\ main' = "stop"))
      /\ Finishing => Finishing'
      /\ main' \in {"joinVideo", "done"} => main \in {"joinVideo", "done"} \/ audio' = "done"
      /\ main' = "done" => video' = "done"
  <2>1. CASE DecodersReady \/ CreateFails \/ PrefillDone \/ StartPlayback \/ WindowClosed \/ Tick
    BY <2>1 DEF DecodersReady, CreateFails, PrefillDone, StartPlayback, WindowClosed, Tick,
       GivesUp, MainGoes, history, Finishing
  <2>2. CASE EndPoll
    BY <2>2 DEF EndPoll, Finishing
  <2>3. CASE SetStop \/ Notify
    BY <2>3 DEF SetStop, Notify, history, Finishing
  <2>4. CASE Join
    BY <2>4 DEF Join, MainGoes, history, Finishing
  <2> QED BY <2>1, <2>2, <2>3, <2>4 DEF Main
<1>3. Flags' \subseteq BOOLEAN
  BY FlagsTyped, TypeParts DEF Next
<1>4. TypeOK'
  BY <1>1, <1>3, Woken, TypeParts DEF QueueUnchanged, Flags, Mains, Videos, Audios, TypeOK
<1>5. QueueInv' /\ DecoderInv'
  BY <1>1, Woken DEF QueueUnchanged, QueueInv, DecoderInv
<1>6. FinishInv'
  BY <1>1, <1>2, Woken DEF QueueUnchanged, FinishInv, Finishing, MovieEnded
<1> QED BY <1>4, <1>5, <1>6

-----------------------------------------------------------------------------
(* The queue. *)

LEMMA PushInv == MovieInv /\ VideoPushes => MovieInv'
<1> SUFFICES ASSUME MovieInv, VideoPushes PROVE MovieInv'
  OBVIOUS
<1> USE DEF MovieInv
<1>1. /\ video = "push" /\ Len(frames) < QueueFrames
      /\ video' \in {"read", "end"} /\ audio' = WokenAudio
      /\ frames' = Append(frames, videoDecoded + 1)
      /\ videoDecoded' = videoDecoded + 1
      /\ UNCHANGED <<main, presented, dropped, clock, why, videoEnded>>
  BY DEF VideoPushes, HasRoom, VideoUpdate, playVars, history
<1>2. /\ videoDecoded \in 0 .. LastFrame /\ videoDecoded < LastFrame /\ ~videoEnded
      /\ frames \in Seq(1 .. LastFrame) /\ Len(frames) \in Nat
      /\ presented \in 0 .. LastFrame /\ dropped \in 0 .. LastFrame
  BY <1>1, LenProperties DEF TypeOK, DecoderInv
<1>3. videoDecoded + 1 \in 1 .. LastFrame
  BY <1>2, MovieAssumption
<1>4. /\ frames' \in Seq(1 .. LastFrame) /\ Len(frames') = Len(frames) + 1
      /\ \A i \in 1 .. Len(frames) : frames'[i] = frames[i]
      /\ frames'[Len(frames) + 1] = videoDecoded + 1
  BY <1>1, <1>2, <1>3, AppendProperties
<1>5. QueueInv'
  BY <1>1, <1>2, <1>4 DEF QueueInv
<1>6. Flags' \subseteq BOOLEAN
  BY FlagsTyped, TypeParts DEF Next, Video
<1>7. videoDecoded' \in 0 .. LastFrame /\ Len(frames') <= QueueFrames
  BY <1>1, <1>2, <1>4, MovieAssumption
<1>8. TypeOK'
  BY <1>1, <1>4, <1>6, <1>7, Woken, TypeParts DEF Flags, Mains, Videos, Audios, LastClock,
     TypeOK
<1>9. DecoderInv' /\ FinishInv'
  BY <1>1, <1>2, Woken DEF DecoderInv, FinishInv, Finishing
<1> QED BY <1>5, <1>8, <1>9

\* The late frames are a prefix of the queue: the one that Present looks for is as far
\* from the front as there are late frames.
LEMMA LatePrefix ==
  ASSUME frames \in Seq(1 .. LastFrame), TooLate # {}
  PROVE  \E i \in TooLate : i + 1 \notin TooLate
<1> DEFINE n == Len(frames)
           k == Cardinality(TooLate)
<1>1. n \in Nat /\ DOMAIN frames = 1 .. n
  BY LenProperties
<1>2. TooLate \in SUBSET (1 .. n)
  BY <1>1 DEF TooLate
<1>3. \A i \in TooLate : 1 .. i \subseteq TooLate
  BY <1>1 DEF TooLate
<1>4. /\ IsFiniteSet(TooLate) /\ k \in Nat
      /\ \A i \in Int : IsFiniteSet(1 .. i) /\ Cardinality(1 .. i) = IF 1 > i THEN 0 ELSE i
  <2>1. \A i \in Int : IsFiniteSet(1 .. i) /\ Cardinality(1 .. i) = IF 1 > i THEN 0 ELSE i
    <3> TAKE i \in Int
    <3>1. /\ IsFiniteSet(1 .. i)
          /\ Cardinality(1 .. i) = IF 1 > i THEN 0 ELSE i - 1 + 1
      BY FS_Interval
    <3> QED BY <3>1
  <2>2. IsFiniteSet(1 .. n)
    BY <1>1, <2>1
  <2>3. IsFiniteSet(TooLate)
    BY <1>2, <2>2, FS_Subset
  <2> QED BY <2>1, <2>3, FS_CardinalityType
<1>5. k + 1 \notin TooLate
  <2> SUFFICES ASSUME k + 1 \in TooLate PROVE FALSE
    OBVIOUS
  <2>1. 1 .. k + 1 \in SUBSET TooLate
    BY <1>3
  <2>2. Cardinality(1 .. k + 1) <= k
    BY <1>4, <2>1, FS_Subset
  <2>3. Cardinality(1 .. k + 1) = k + 1
    BY <1>4
  <2> QED BY <1>4, <2>2, <2>3
<1>6. k \in TooLate
  <2> SUFFICES ASSUME k \notin TooLate PROVE FALSE
    OBVIOUS
  <2>1. \A i \in TooLate : i \in 1 .. n /\ ~(k \in 1 .. i)
    BY <1>2, <1>3
  <2>2. k # 0
    <3>1. PICK i \in TooLate : TRUE
      OBVIOUS
    <3>2. {i} \in SUBSET TooLate /\ Cardinality({i}) = 1
      BY FS_Singleton
    <3>3. 1 <= k
      BY <1>4, <3>2, FS_Subset
    <3> QED BY <1>4, <3>3
  <2>3. TooLate \in SUBSET (1 .. k - 1)
    BY <1>1, <1>4, <2>1, <2>2
  <2>4. IsFiniteSet(1 .. k - 1) /\ Cardinality(1 .. k - 1) = k - 1
    BY <1>4, <2>2
  <2>5. k <= Cardinality(1 .. k - 1)
    BY <2>3, <2>4, FS_Subset
  <2> QED BY <1>4, <2>4, <2>5
<1> QED BY <1>5, <1>6

Gone == IF TooLate = {} THEN 0 ELSE CHOOSE i \in TooLate : i + 1 \notin TooLate

LEMMA GoneTyped == ASSUME frames \in Seq(1 .. LastFrame) PROVE Gone \in 0 .. Len(frames)
<1>1. Len(frames) \in Nat /\ DOMAIN frames = 1 .. Len(frames)
  BY LenProperties
<1>2. CASE TooLate # {}
  <2>1. Gone = CHOOSE i \in TooLate : i + 1 \notin TooLate
    BY <1>2 DEF Gone
  <2>2. \E i \in TooLate : i + 1 \notin TooLate
    BY <1>2, LatePrefix
  <2>3. Gone \in TooLate
    BY <2>1, <2>2
  <2>4. TooLate \subseteq 1 .. Len(frames)
    BY <1>1 DEF TooLate
  <2> QED BY <1>1, <2>3, <2>4
<1>3. CASE TooLate = {}
  <2>1. Gone = 0
    BY <1>3 DEF Gone
  <2> QED BY <1>1, <2>1
<1> QED BY <1>2, <1>3

\* The queue without the frames that are too late, and without one more.
Rest == SubSeq(frames, Gone + 1, Len(frames))

LEMMA TakenFromFront ==
  ASSUME frames \in Seq(1 .. LastFrame)
  PROVE  /\ Rest \in Seq(1 .. LastFrame) /\ Len(Rest) = Len(frames) - Gone
         /\ \A i \in 1 .. Len(frames) - Gone : Rest[i] = frames[Gone + i]
         /\ Rest # <<>> =>
              /\ Tail(Rest) \in Seq(1 .. LastFrame) /\ Len(Tail(Rest)) = Len(frames) - Gone - 1
              /\ Len(frames) - Gone - 1 \in Nat
              /\ \A i \in 1 .. Len(frames) - Gone - 1 : Tail(Rest)[i] = frames[Gone + 1 + i]
<1>1. /\ Len(frames) \in Nat /\ Gone \in 0 .. Len(frames)
      /\ \A i \in 1 .. Len(frames) : frames[i] \in 1 .. LastFrame
  BY LenProperties, ElementOfSeq, GoneTyped
<1>2. \A i \in Gone + 1 .. Len(frames) : frames[i] \in 1 .. LastFrame
  BY <1>1
<1>3. Gone + 1 \in Int /\ Len(frames) \in Int
  BY <1>1
<1>4. /\ Rest \in Seq(1 .. LastFrame)
      /\ Len(Rest) = IF Gone + 1 <= Len(frames) THEN Len(frames) - (Gone + 1) + 1 ELSE 0
      /\ \A i \in 1 .. Len(frames) - (Gone + 1) + 1 : Rest[i] = frames[(Gone + 1) + i - 1]
  BY <1>2, <1>3, SubSeqProperties DEF Rest
<1>5. Len(Rest) = Len(frames) - Gone
  BY <1>1, <1>4
<1>6. \A i \in 1 .. Len(frames) - Gone : Rest[i] = frames[Gone + i]
  <2> TAKE i \in 1 .. Len(frames) - Gone
  <2>1. i \in 1 .. Len(frames) - (Gone + 1) + 1 /\ (Gone + 1) + i - 1 = Gone + i
    BY <1>1
  <2> QED BY <1>4, <2>1
<1>7. ASSUME Rest # <<>>
      PROVE  /\ Tail(Rest) \in Seq(1 .. LastFrame) /\ Len(Tail(Rest)) = Len(frames) - Gone - 1
             /\ Len(frames) - Gone - 1 \in Nat
             /\ \A i \in 1 .. Len(frames) - Gone - 1 : Tail(Rest)[i] = frames[Gone + 1 + i]
  <2>1. /\ Tail(Rest) \in Seq(1 .. LastFrame) /\ Len(Tail(Rest)) = Len(Rest) - 1
        /\ \A i \in 1 .. Len(Tail(Rest)) : Tail(Rest)[i] = Rest[i + 1]
    BY <1>4, <1>7, HeadTailProperties
  <2>2. Len(Rest) \in Nat \ {0}
    BY <1>4, <1>7, EmptySeq
  <2>3. Len(Tail(Rest)) = Len(frames) - Gone - 1 /\ Len(frames) - Gone - 1 \in Nat
    BY <1>1, <1>5, <2>1, <2>2
  <2>4. ASSUME NEW i \in 1 .. Len(frames) - Gone - 1 PROVE Tail(Rest)[i] = frames[Gone + 1 + i]
    <3>1. i + 1 \in 1 .. Len(frames) - Gone /\ Gone + (i + 1) = Gone + 1 + i
      BY <1>1
    <3>2. Tail(Rest)[i] = Rest[i + 1]
      BY <2>1, <2>3
    <3>3. Rest[i + 1] = frames[Gone + (i + 1)]
      BY <1>6, <3>1
    <3> QED BY <3>1, <3>2, <3>3
  <2> QED BY <2>1, <2>3, <2>4
<1> QED BY <1>4, <1>5, <1>6, <1>7

LEMMA PresentInv == MovieInv /\ Present => MovieInv'
<1> SUFFICES ASSUME MovieInv, Present PROVE MovieInv'
  OBVIOUS
<1>0. TypeOK /\ QueueInv /\ DecoderInv /\ FinishInv
  BY DEF MovieInv
<1> DEFINE shown == Rest # <<>> /\ (presented + dropped = 0 \/ Head(Rest) <= clock)
<1>1. /\ main = "loop"
      /\ dropped' = dropped + Gone
      /\ presented' = IF shown THEN presented + 1 ELSE presented
      /\ frames' = IF shown THEN Tail(Rest) ELSE Rest
      /\ video' = WokenVideo /\ audio' = WokenAudio
      /\ UNCHANGED <<main, videoEnded, videoDecoded, clock, why>>
  BY DEF Present, Gone, Rest, history
<1>2. /\ frames \in Seq(1 .. LastFrame) /\ Len(frames) \in Nat /\ Len(frames) <= QueueFrames
      /\ presented \in Nat /\ dropped \in Nat /\ videoDecoded \in 0 .. LastFrame
  BY <1>0, LenProperties DEF TypeOK
<1>3. /\ presented + dropped + Len(frames) = videoDecoded
      /\ \A i \in 1 .. Len(frames) : frames[i] = presented + dropped + i
  BY <1>0 DEF QueueInv
<1>4. Gone \in 0 .. Len(frames)
  BY <1>2, GoneTyped
<1>5. /\ Rest \in Seq(1 .. LastFrame) /\ Len(Rest) = Len(frames) - Gone
      /\ \A i \in 1 .. Len(frames) - Gone : Rest[i] = frames[Gone + i]
      /\ Rest # <<>> =>
           /\ Tail(Rest) \in Seq(1 .. LastFrame) /\ Len(Tail(Rest)) = Len(frames) - Gone - 1
           /\ Len(frames) - Gone - 1 \in Nat
           /\ \A i \in 1 .. Len(frames) - Gone - 1 : Tail(Rest)[i] = frames[Gone + 1 + i]
  BY <1>2, TakenFromFront
<1>6. \E taken \in {0, 1} :
        /\ presented' = presented + taken
        /\ frames' \in Seq(1 .. LastFrame) /\ Len(frames') = Len(frames) - Gone - taken
        /\ Len(frames) - Gone - taken \in Nat
        /\ \A i \in 1 .. Len(frames) - Gone - taken : frames'[i] = frames[Gone + taken + i]
  <2>1. CASE shown
    <3>1. Rest # <<>> /\ presented' = presented + 1 /\ frames' = Tail(Rest)
      BY <1>1, <2>1
    <3>2. WITNESS 1 \in {0, 1}
    <3> QED BY <1>5, <3>1
  <2>2. CASE ~shown
    <3>1. presented' = presented /\ frames' = Rest
      BY <1>1, <2>2
    <3>2. /\ Len(frames) - Gone - 0 = Len(frames) - Gone /\ Len(frames) - Gone \in Nat
          /\ \A i \in Nat : Gone + 0 + i = Gone + i
          /\ presented + 0 = presented
      BY <1>2, <1>4
    <3>3. WITNESS 0 \in {0, 1}
    <3> QED BY <1>5, <3>1, <3>2
  <2> QED BY <2>1, <2>2
<1>7. PICK taken \in {0, 1} :
        /\ presented' = presented + taken
        /\ frames' \in Seq(1 .. LastFrame) /\ Len(frames') = Len(frames) - Gone - taken
        /\ Len(frames) - Gone - taken \in Nat
        /\ \A i \in 1 .. Len(frames) - Gone - taken : frames'[i] = frames[Gone + taken + i]
  BY <1>6
<1>8. QueueInv'
  <2>0. dropped' = dropped + Gone /\ Gone \in Nat /\ taken \in Nat /\ videoDecoded' = videoDecoded
    BY <1>1, <1>2, <1>4
  <2>1. presented' + dropped' + Len(frames') = videoDecoded
    <3>1. /\ presented' = presented + taken /\ Len(frames') = Len(frames) - Gone - taken
          /\ presented + dropped + Len(frames) = videoDecoded
          /\ presented \in Nat /\ dropped \in Nat /\ Len(frames) \in Nat
      BY <1>2, <1>3, <1>7
    <3> QED BY <2>0, <3>1
  <2>2. ASSUME NEW i \in 1 .. Len(frames') PROVE frames'[i] = presented' + dropped' + i
    <3>1. frames'[i] = frames[Gone + taken + i] /\ Gone + taken + i \in 1 .. Len(frames)
      BY <1>2, <1>4, <1>7
    <3>2. frames[Gone + taken + i] = presented + dropped + (Gone + taken + i)
      BY <1>3, <3>1
    <3>3. i \in Nat
      BY <1>7
    <3> QED BY <1>2, <1>7, <2>0, <3>1, <3>2, <3>3
  <2> QED BY <2>0, <2>1, <2>2 DEF QueueInv
<1>9. Flags' \subseteq BOOLEAN
  BY <1>0, FlagsTyped, TypeParts DEF Next, Main
<1>10. /\ presented' \in 0 .. LastFrame /\ dropped' \in 0 .. LastFrame
       /\ Len(frames') <= QueueFrames
  BY <1>1, <1>2, <1>3, <1>4, <1>7, MovieAssumption
<1>11. TypeOK'
  BY <1>0, <1>1, <1>7, <1>9, <1>10, Woken, TypeParts
     DEF Flags, Mains, Videos, Audios, LastClock, TypeOK
<1>12. DecoderInv' /\ FinishInv'
  BY <1>0, <1>1, Woken DEF DecoderInv, FinishInv, Finishing
<1> QED BY <1>8, <1>11, <1>12 DEF MovieInv

LEMMA StutterInv == MovieInv /\ UNCHANGED vars => MovieInv'
BY DEF MovieInv, TypeOK, QueueInv, DecoderInv, FinishInv, Finishing, vars, videoVars, audioVars,
       playVars, history, LastClock

LEMMA StepInv == MovieInv /\ [Next]_vars => MovieInv'
BY VideoInv, PushInv, AudioInv, MainInv, PresentInv, StutterInv DEF Next, Returned

-----------------------------------------------------------------------------
(* What follows. *)

\* The invariant holds in every state.
THEOREM Invariance == Spec => []MovieInv
BY InitInv, StepInv, PTL DEF Spec

\* Every variable keeps its type: the queue never holds more than it may.
THEOREM TypeCorrect == Spec => []TypeOK
<1>1. MovieInv => TypeOK
  BY DEF MovieInv
<1> QED BY <1>1, Invariance, PTL

\* Frames are queued in the order of the movie, and the next one that Play takes is
\* the one after those it has shown or dropped.
THEOREM FramesInOrder == Spec => []QueueInv
<1>1. MovieInv => QueueInv
  BY DEF MovieInv
<1> QED BY <1>1, Invariance, PTL

-----------------------------------------------------------------------------
(* The promise to the viewer. *)

\* The frames that Present drops are late, and the one after them is not.
LEMMA GoneIsLate ==
  ASSUME frames \in Seq(1 .. LastFrame), presented + dropped > 0
  PROVE  /\ \A i \in 1 .. Gone : clock >= frames[i] + DropLate
         /\ Gone + 1 \in 1 .. Len(frames) => ~(clock >= frames[Gone + 1] + DropLate)
<1>1. Len(frames) \in Nat /\ DOMAIN frames = 1 .. Len(frames) /\ Gone \in 0 .. Len(frames)
  BY LenProperties, GoneTyped
<1>2. TooLate = {i \in 1 .. Len(frames) : \A j \in 1 .. i : clock >= frames[j] + DropLate}
  BY <1>1 DEF TooLate
<1>3. \A i \in 1 .. Gone : clock >= frames[i] + DropLate
  <2>1. CASE TooLate # {}
    <3>1. Gone \in TooLate
      BY <2>1, LatePrefix DEF Gone
    <3> QED BY <1>2, <3>1
  <2>2. CASE TooLate = {}
    <3>1. Gone = 0
      BY <2>2 DEF Gone
    <3> QED BY <3>1
  <2> QED BY <2>1, <2>2
<1>4. Gone + 1 \notin TooLate
  <2>1. CASE TooLate # {}
    BY <2>1, LatePrefix DEF Gone
  <2>2. CASE TooLate = {}
    BY <2>2
  <2> QED BY <2>1, <2>2
<1>5. ASSUME Gone + 1 \in 1 .. Len(frames), clock >= frames[Gone + 1] + DropLate PROVE FALSE
  <2>1. \A j \in 1 .. Gone + 1 : j \in 1 .. Gone \/ j = Gone + 1
    BY <1>1
  <2>2. \A j \in 1 .. Gone + 1 : clock >= frames[j] + DropLate
    BY <1>3, <1>5, <2>1
  <2>3. Gone + 1 \in TooLate
    BY <1>2, <1>5, <2>2
  <2> QED BY <1>4, <2>3
<1> QED BY <1>3, <1>5

\* The first frame of all is not dropped.
LEMMA FirstIsKept == ASSUME presented + dropped = 0 PROVE Gone = 0
<1>1. TooLate = {}
  BY DEF TooLate
<1> QED BY <1>1 DEF Gone

LEMMA RestIsSuffix ==
  ASSUME frames \in Seq(1 .. LastFrame)
  PROVE  /\ Rest = SubSeq(frames, Gone + 1, Len(frames))
         /\ Rest # <<>> =>
              /\ Gone + 1 \in 1 .. Len(frames) /\ Head(Rest) = frames[Gone + 1]
              /\ Tail(Rest) = SubSeq(frames, Gone + 2, Len(frames))
<1>1. /\ Len(frames) \in Nat /\ Gone \in 0 .. Len(frames)
      /\ \A i \in 1 .. Len(frames) : frames[i] \in 1 .. LastFrame
  BY LenProperties, ElementOfSeq, GoneTyped
<1>2. ASSUME Rest # <<>>
      PROVE  /\ Gone + 1 \in 1 .. Len(frames) /\ Head(Rest) = frames[Gone + 1]
             /\ Tail(Rest) = SubSeq(frames, Gone + 2, Len(frames))
  <2> DEFINE s == SubSeq(frames, Gone + 2, Len(frames))
             t == Tail(Rest)
  <2>1. /\ Rest \in Seq(1 .. LastFrame) /\ Rest[1] = frames[Gone + 1]
        /\ t \in Seq(1 .. LastFrame) /\ Len(t) = Len(frames) - Gone - 1
        /\ Len(frames) - Gone - 1 \in Nat
        /\ \A i \in 1 .. Len(frames) - Gone - 1 : t[i] = frames[Gone + 1 + i]
    <3>1. /\ Rest \in Seq(1 .. LastFrame)
          /\ t \in Seq(1 .. LastFrame) /\ Len(t) = Len(frames) - Gone - 1
          /\ Len(frames) - Gone - 1 \in Nat
          /\ \A i \in 1 .. Len(frames) - Gone - 1 : t[i] = frames[Gone + 1 + i]
          /\ \A i \in 1 .. Len(frames) - Gone : Rest[i] = frames[Gone + i]
      BY <1>2, TakenFromFront
    <3>2. 1 \in 1 .. Len(frames) - Gone
      BY <1>1, <3>1
    <3> QED BY <3>1, <3>2
  <2>2. Gone + 2 \in Int /\ Len(frames) \in Int
        /\ \A i \in Gone + 2 .. Len(frames) : frames[i] \in 1 .. LastFrame
    BY <1>1
  <2>3. /\ s \in Seq(1 .. LastFrame)
        /\ Len(s) = IF Gone + 2 <= Len(frames) THEN Len(frames) - (Gone + 2) + 1 ELSE 0
        /\ \A i \in 1 .. Len(frames) - (Gone + 2) + 1 : s[i] = frames[(Gone + 2) + i - 1]
    BY <2>2, SubSeqProperties
  <2> HIDE DEF s, t
  <2>4. Len(s) = Len(t)
    BY <1>1, <2>1, <2>3
  <2>5. ASSUME NEW i \in 1 .. Len(s) PROVE s[i] = t[i]
    <3>1. i \in 1 .. Len(frames) - (Gone + 2) + 1 /\ i \in 1 .. Len(frames) - Gone - 1
          /\ (Gone + 2) + i - 1 = Gone + 1 + i
      BY <1>1, <2>1, <2>4
    <3> QED BY <2>1, <2>3, <3>1
  <2>6. s = t
    BY <2>1, <2>3, <2>4, <2>5, SeqEqual
  <2>7. Gone + 1 \in 1 .. Len(frames)
    BY <1>1, <2>1
  <2>8. Head(Rest) = Rest[1]
    BY <1>2, <2>1, HeadTailProperties
  <2> QED BY <2>1, <2>6, <2>7, <2>8 DEF s, t
<1> QED BY <1>2 DEF Rest

LEMMA PresentLeaves ==
  ASSUME MovieInv, Present
  PROVE  \E over \in 0 .. Len(frames), seen \in {0, 1} : Viewer!Leave(over, seen)
<1>1. /\ frames \in Seq(1 .. LastFrame) /\ Len(frames) \in Nat
      /\ presented \in Nat /\ dropped \in Nat /\ clock \in Nat /\ DropLate \in Nat
      /\ \A i \in 1 .. Len(frames) : frames[i] = presented + dropped + i
  BY LenProperties, MovieAssumption DEF MovieInv, TypeOK, QueueInv, LastClock
<1>2. why # "ended" /\ main = "loop"
  BY DEF MovieInv, FinishInv, Finishing, Present
<1> DEFINE shown == Rest # <<>> /\ (presented + dropped = 0 \/ Head(Rest) <= clock)
<1>3. /\ dropped' = dropped + Gone
      /\ presented' = IF shown THEN presented + 1 ELSE presented
      /\ frames' = IF shown THEN Tail(Rest) ELSE Rest
      /\ UNCHANGED <<clock, why>>
  BY DEF Present, Gone, Rest, history
<1>4. Gone \in 0 .. Len(frames)
  BY <1>1, GoneTyped
<1>5. \A i \in 1 .. Gone : clock >= frames[i] + DropLate /\ frames[i] # 1
  <2>1. CASE presented + dropped = 0
    BY <2>1, FirstIsKept
  <2>2. CASE presented + dropped > 0
    <3>1. \A i \in 1 .. Gone : clock >= frames[i] + DropLate
      BY <1>1, <2>2, GoneIsLate
    <3>2. \A i \in 1 .. Gone : i \in 1 .. Len(frames) /\ i >= 1
      BY <1>1, <1>4
    <3> QED BY <1>1, <2>2, <3>1, <3>2
  <2> QED BY <1>1, <2>1, <2>2
<1>6. CASE shown
  <2>1. /\ Gone + 1 \in 1 .. Len(frames) /\ Head(Rest) = frames[Gone + 1]
        /\ Tail(Rest) = SubSeq(frames, Gone + 2, Len(frames))
    BY <1>1, <1>6, RestIsSuffix
  <2>2. \/ frames[Gone + 1] = 1
        \/ frames[Gone + 1] <= clock /\ ~(clock >= frames[Gone + 1] + DropLate)
    <3>1. CASE presented + dropped = 0
      BY <1>1, <2>1, <3>1, FirstIsKept
    <3>2. CASE presented + dropped > 0
      BY <1>1, <1>6, <2>1, <3>2, GoneIsLate
    <3> QED BY <1>1, <3>1, <3>2
  <2>3. /\ Gone + 1 <= Len(frames) /\ Gone + 1 + 1 = Gone + 2
        /\ \A i \in Gone + 1 .. Gone + 1 : i = Gone + 1
    BY <1>1, <1>4, <2>1
  <2>4. Viewer!Leave(Gone, 1)
    BY <1>2, <1>3, <1>5, <1>6, <2>1, <2>2, <2>3 DEF Viewer!Leave, Viewer!IsOver
  <2> QED BY <1>4, <2>4
<1>7. CASE ~shown
  <2>1. Gone + 0 = Gone /\ Gone <= Len(frames) /\ Gone + 1 .. Gone = {} /\ presented + 0 = presented
    BY <1>1, <1>4
  <2>2. frames' = SubSeq(frames, Gone + 0 + 1, Len(frames))
    BY <1>1, <1>3, <1>7, <2>1, RestIsSuffix
  <2>3. Viewer!Leave(Gone, 0)
    BY <1>2, <1>3, <1>5, <1>7, <2>1, <2>2 DEF Viewer!Leave, Viewer!IsOver
  <2> QED BY <1>4, <2>3
<1> QED BY <1>6, <1>7

LEMMA InitShows == Init => Viewer!Init
BY DEF Init, Viewer!Init

LEMMA StepShows == MovieInv /\ [Next]_vars => [Viewer!Next]_(Viewer!vars)
<1> SUFFICES ASSUME MovieInv, [Next]_vars PROVE Viewer!Next \/ UNCHANGED Viewer!vars
  OBVIOUS
<1>1. \/ /\ Finishing
         /\ why = "ended" => videoEnded /\ video = "done" /\ frames = <<>>
      \/ ~Finishing /\ why # "ended"
  BY DEF MovieInv, FinishInv, DecoderInv
<1>2. CASE VideoPushes
  <2>1. /\ video = "push" /\ Len(frames) < QueueFrames
        /\ frames' = Append(frames, videoDecoded + 1)
        /\ UNCHANGED <<presented, dropped, clock, why>>
    BY <1>2 DEF VideoPushes, HasRoom, VideoUpdate, playVars, history
  <2>2. why # "ended" /\ videoDecoded < LastFrame
    BY <1>1, <2>1 DEF MovieInv, DecoderInv
  <2>3. presented + dropped + Len(frames) + 1 = videoDecoded + 1 /\ videoDecoded + 1 <= LastFrame
    BY <2>2, MovieAssumption DEF MovieInv, QueueInv, TypeOK
  <2>4. Viewer!Arrive
    BY <2>1, <2>2, <2>3 DEF Viewer!Arrive, Viewer!NextFrame
  <2> QED BY <2>4 DEF Viewer!Next
<1>3. CASE Present
  BY <1>3, PresentLeaves DEF Viewer!Next
<1>4. CASE Tick
  <2>1. why # "ended" /\ clock' = clock + 1 /\ UNCHANGED <<frames, presented, dropped, why>>
    BY <1>1, <1>4 DEF Tick, Finishing, videoVars, history
  <2> QED BY <2>1 DEF Viewer!Tick, Viewer!Next
<1>5. CASE EndPoll
  <2>1. why # "ended" /\ UNCHANGED <<frames, presented, dropped, clock>>
        /\ why' = IF MovieEnded THEN "ended" ELSE why
    BY <1>1, <1>5 DEF EndPoll, Finishing, videoVars, playVars
  <2>2. CASE MovieEnded
    BY <2>1, <2>2 DEF MovieEnded, Viewer!End, Viewer!Next
  <2>3. CASE ~MovieEnded
    BY <2>1, <2>3 DEF Viewer!vars
  <2> QED BY <2>2, <2>3
<1>6. CASE DecodersReady \/ CreateFails \/ WindowClosed
  <2>1. why # "ended" /\ why' # "ended" /\ UNCHANGED <<frames, presented, dropped, clock>>
    BY <1>1, <1>6 DEF DecodersReady, CreateFails, WindowClosed, GivesUp, MainGoes, Finishing,
       videoVars, playVars
  <2> QED BY <2>1 DEF Viewer!vars
<1>7. CASE PrefillDone \/ StartPlayback \/ SetStop \/ Notify \/ Join \/ Audio \/ SpuriousWakeup
           \/ Returned \/ UNCHANGED vars
  <2>1. UNCHANGED <<frames, presented, dropped, clock, why>>
    BY <1>7 DEF PrefillDone, StartPlayback, SetStop, Notify, Join, MainGoes, SpuriousWakeup,
       Audio, AudioOpens, AudioFails, AudioDecodes, AudioIsReady, AudioLeaves, AudioStarts,
       AudioTests, AudioWaits, AudioPlays, AudioEnds, AudioUpdate, AudioGoes, VideoGoes,
       Returned, vars, videoVars, playVars, history
  <2> QED BY <2>1 DEF Viewer!vars
<1>8. CASE Video /\ ~VideoPushes
  <2>1. UNCHANGED <<frames, presented, dropped, clock, why>>
    BY <1>8 DEF Video, VideoOpens, VideoFails, VideoReads, VideoLeaves, VideoTests, VideoWaits,
       VideoEnds, VideoUpdate, VideoGoes, videoVars, playVars, history
  <2> QED BY <2>1 DEF Viewer!vars
<1> QED BY <1>2, <1>3, <1>4, <1>5, <1>6, <1>7, <1>8 DEF Next, Main, Video

\* The threads with their queue keep the promise to the viewer: the frames of the movie in
\* order and in time, none skipped without need, and the end after the last one.
THEOREM Refinement == Spec => ImplementsScreening
BY InitShows, StepShows, Invariance, PTL DEF Spec, ImplementsScreening, Viewer!Spec

-----------------------------------------------------------------------------
(* The threads. *)

\* Play returns after its threads.
THEOREM JoinSafety == Spec => []NoThreadOutlivesPlay
<1>1. MovieInv => NoThreadOutlivesPlay
  BY DEF MovieInv, FinishInv, NoThreadOutlivesPlay
<1> QED BY <1>1, Invariance, PTL

================================================================================
