----------------------------- MODULE GbAudioProofs -----------------------------
(***************************************************************************)
(* The Game Boy's sound, for every size of the ring, of the buffers and of *)
(* the reads: no buffer is lost, a waiting thread is woken, and nothing    *)
(* that was cleared is heard.                                              *)
(*                                                                         *)
(* The order in which the two buffers are served carries the proof.  Two   *)
(* refills after the ring was cleared both buffers are clean because they  *)
(* are served in turn and because the ring was full of silence then: the   *)
(* buffer that is served last is the one that was refilled before.         *)
(***************************************************************************)
EXTENDS GbAudio, SequenceTheorems, TLAPS

InHand == audio \in {"refill", "append"}

\* The buffers are served in turn, x before y.  A buffer in the thread's hands is
\* the first of them.
InOrder(x, y) ==
  IF InHand
    THEN /\ buf = x
         /\ \/ released = <<y>> /\ queued = <<>>
            \/ released = <<>> /\ \E c \in Content : queued = <<[buffer |-> y, content |-> c]>>
    ELSE \/ released = <<x, y>> /\ queued = <<>>
         \/ /\ released = <<x>>
            /\ \E c \in Content : queued = <<[buffer |-> y, content |-> c]>>
         \/ /\ released = <<>>
            /\ \E c, d \in Content :
                 queued = <<[buffer |-> x, content |-> c], [buffer |-> y, content |-> d]>>

Clean(b) == "old" \notin blocks[b]

\* The buffer that was refilled last is the one that is served last, but for the
\* moment in which it is still in the thread's hands.
Turns ==
  Circulating =>
    \E x, y \in Buffers :
      /\ x # y
      /\ InOrder(x, y)
      /\ refills = 1 => Clean(IF audio = "append" THEN x ELSE y)

\* The start of a session, until both buffers are appended.
Starting ==
  /\ audio = "appendA" =>
       released = <<>> /\ queued = <<>> /\ started /\ ~streamOpen /\ ~event
  /\ audio = "appendB" => released = <<bufA>> /\ queued = <<>> /\ streamOpen /\ event
  /\ audio \in {"appendA", "appendB"} => ~stop /\ (refills = 1 => Clean(bufB))

\* A running session is not stopped, and a release that the thread has not collected
\* has set the event since it last waited.
Signalled ==
  /\ Circulating => streamOpen /\ ~stop
  /\ audio \in {"mute", "check", "wait"} => released = <<>> \/ event

\* What the ring holds, by the number of refills since it was cleared.
RingFilled ==
  /\ refills = 0 => ringSilence = RingFrames
  /\ refills = 1 => ringSilence >= RingFrames - BufferFrames
  /\ main = "paused" => ringGame = 0

AudioInv ==
  /\ TypeOK
  /\ Turns /\ Starting /\ Signalled /\ RingFilled
  /\ NoStaleAfterClear /\ QuietOutsideGame

-----------------------------------------------------------------------------
(* Short sequences. *)

LEMMA AppendToOne == ASSUME NEW a, NEW b PROVE Append(<<a>>, b) = <<a, b>>
<1>1. /\ Append(<<a>>, b) \in Seq({a, b}) /\ <<a, b>> \in Seq({a, b})
      /\ Len(Append(<<a>>, b)) = Len(<<a, b>>)
  OBVIOUS
<1>2. \A i \in 1 .. Len(Append(<<a>>, b)) : Append(<<a>>, b)[i] = <<a, b>>[i]
  OBVIOUS
<1> QED BY <1>1, <1>2, SeqEqual

LEMMA OneAndOne == ASSUME NEW a, NEW b PROVE <<a>> \o <<b>> = <<a, b>>
<1>1. /\ <<a>> \o <<b>> \in Seq({a, b}) /\ <<a, b>> \in Seq({a, b})
      /\ Len(<<a>> \o <<b>>) = Len(<<a, b>>)
  OBVIOUS
<1>2. \A i \in 1 .. Len(<<a>> \o <<b>>) : (<<a>> \o <<b>>)[i] = <<a, b>>[i]
  OBVIOUS
<1> QED BY <1>1, <1>2, SeqEqual

LEMMA NoneMore ==
  ASSUME NEW a, NEW b
  PROVE  /\ <<>> \o <<a>> = <<a>> /\ <<a>> \o <<>> = <<a>>
         /\ <<>> \o <<a, b>> = <<a, b>> /\ <<a, b>> \o <<>> = <<a, b>>
         /\ <<>> \o <<>> = <<>>
<1>1. <<>> \in Seq({a, b}) /\ <<a>> \in Seq({a, b}) /\ <<a, b>> \in Seq({a, b})
  OBVIOUS
<1> QED BY <1>1, ConcatEmptySeq

-----------------------------------------------------------------------------
(* Types. *)

LEMMA InitTyped == Init => TypeOK
<1> SUFFICES ASSUME Init PROVE TypeOK
  OBVIOUS
<1>1. blocks \in [Buffers -> Content] /\ buf \in Buffers
  BY AudioAssumption DEF Init, Content
<1>2. queued \in Seq(Queued) /\ released \in Seq(Buffers) /\ mixed \in Seq(Volume)
  BY DEF Init, OutInit
<1>3. device = "none" /\ volume = "default" /\ ~event /\ ~started /\ ~streamOpen /\ ~stop
      /\ {event, started, streamOpen, stop} \subseteq BOOLEAN
  BY DEF Init, OutInit
<1>4. OutTypeOK
  BY <1>2, <1>3 DEF OutTypeOK, Volume
<1>5. ringSilence \in 0 .. RingFrames /\ ringGame \in 0 .. RingFrames /\ ringFill <= RingFrames
  BY AudioAssumption DEF Init, ringFill
<1>6. threadRunning \in BOOLEAN /\ refills = 0 /\ main = "menu" /\ audio = "none"
  BY DEF Init
<1> QED
  BY <1>1, <1>4, <1>5, <1>6 DEF TypeOK, MainStates, AudioStates

LEMMA TakeTyped ==
  ASSUME OutTypeOK, NEW queue \in Seq(Queued), Take(queue)
  PROVE  /\ queued \in Seq(Queued) => queued' \in Seq(Queued)
         /\ released' \in Seq(Buffers) /\ mixed' \in Seq(Volume) /\ event' \in BOOLEAN
<1>1. CASE queue = <<>>
  <2>1. mixed' = Append(mixed, volume) /\ UNCHANGED <<queued, released, event>>
    BY <1>1 DEF Take
  <2>2. /\ released \in Seq(Buffers) /\ mixed \in Seq(Volume) /\ volume \in Volume
        /\ event \in BOOLEAN
    BY DEF OutTypeOK
  <2> QED BY <2>1, <2>2
<1>2. CASE queue # <<>>
  <2>1. Head(queue) \in Queued /\ Tail(queue) \in Seq(Queued)
    BY <1>2
  <2>2. Head(queue).buffer \in Buffers
    BY <2>1 DEF Queued
  <2>3. released \in Seq(Buffers) /\ mixed \in Seq(Volume) /\ volume \in Volume
    BY DEF OutTypeOK
  <2>4. /\ mixed' = Append(mixed, volume) /\ released' = Append(released, Head(queue).buffer)
        /\ queued' = Tail(queue) /\ event' \in BOOLEAN
    BY <1>2 DEF Take
  <2> QED BY <2>1, <2>2, <2>3, <2>4
<1> QED BY <1>1, <1>2

LEMMA AppendTyped ==
  ASSUME OutTypeOK, NEW b \in Buffers, NEW c \in Content, AppendBuffer(b, c)
  PROVE  OutTypeOK'
<1> DEFINE queue == Append(queued, [buffer |-> b, content |-> c])
<1>1. queue \in Seq(Queued)
  BY DEF OutTypeOK, Queued
<1> HIDE DEF queue
<1>2. UNCHANGED <<device, volume, started, stop>>
  BY DEF AppendBuffer
<1>3. CASE started /\ ~streamOpen
  <2>1. streamOpen' = TRUE /\ Take(queue)
    BY <1>3 DEF AppendBuffer, queue
  <2> QED BY <1>1, <1>2, <2>1, TakeTyped DEF OutTypeOK
<1>4. CASE ~(started /\ ~streamOpen)
  <2>1. queued' = queue /\ UNCHANGED <<streamOpen, released, mixed, event>>
    BY <1>4 DEF AppendBuffer, queue
  <2> QED BY <1>1, <1>2, <2>1 DEF OutTypeOK
<1> QED BY <1>3, <1>4

LEMMA DeviceTyped == ASSUME OutTypeOK, Device PROVE OutTypeOK'
<1>1. CASE DeviceWrite
  BY <1>1 DEF DeviceWrite, OutTypeOK
<1>2. CASE DeviceWritten
  BY <1>2 DEF DeviceWritten, OutTypeOK
<1>3. CASE DeviceReturns
  BY <1>3 DEF DeviceReturns, OutTypeOK
<1>4. CASE DeviceTakes
  <2>1. Take(queued) /\ UNCHANGED <<device, volume, started, streamOpen, stop>>
    BY <1>4 DEF DeviceTakes
  <2>2. queued \in Seq(Queued)
    BY DEF OutTypeOK
  <2> QED BY <2>1, <2>2, TakeTyped DEF OutTypeOK
<1> QED BY <1>1, <1>2, <1>3, <1>4 DEF Device

\* A read that fits leaves the ring within its bounds: it counts samples.
LEMMA PumpTyped ==
  ASSUME TypeOK, NEW n \in PumpSamples, Fits(n)
  PROVE  /\ ringGame + n \div 2 \in 0 .. RingFrames
         /\ ringSilence + (ringGame + n \div 2) <= RingFrames
<1>1. n \in Nat /\ n \div 2 \in Nat /\ n \div 2 <= n /\ RingFrames \in Nat
  BY AudioAssumption
<1> QED BY <1>1 DEF TypeOK, Fits, ringFill

\* What a refill takes from the ring, silence first.
FromRing == AtMost(ringFill, BufferFrames)
FromSilence == AtMost(ringSilence, FromRing)

LEMMA RefillAmounts ==
  ASSUME TypeOK
  PROVE  /\ FromRing \in 0 .. BufferFrames /\ FromRing <= ringFill
         /\ FromSilence \in 0 .. FromRing /\ FromSilence <= ringSilence
         /\ FromRing - FromSilence \in 0 .. ringGame
         /\ ringGame = 0 => FromRing = FromSilence
         /\ ringSilence >= BufferFrames => FromRing = BufferFrames /\ FromSilence = BufferFrames
BY AudioAssumption DEF TypeOK, FromRing, FromSilence, AtMost, ringFill

LEMMA RefillEffect ==
  ASSUME TypeOK, Refill
  PROVE  /\ ringSilence' = ringSilence - FromSilence
         /\ ringGame' = ringGame - (FromRing - FromSilence)
         /\ blocks' \in [Buffers -> Content]
         /\ \A b \in Buffers \ {buf} : blocks'[b] = blocks[b]
         /\ Clean(buf) \/ FromRing = BufferFrames => Clean(buf)'
         /\ refills' \in 0 .. 2
         /\ refills' = IF refills = 0 THEN 1 ELSE 2
         /\ audio = "refill" /\ audio' = "append"
         /\ UNCHANGED <<outVars, main, threadRunning, buf>>
<1> DEFINE copied == (IF FromSilence > 0 THEN {"silence"} ELSE {})
                       \cup (IF FromRing > FromSilence THEN {"game"} ELSE {})
           kept == IF FromRing < BufferFrames THEN blocks[buf] ELSE {}
<1>1. /\ ringSilence' = ringSilence - FromSilence
      /\ ringGame' = ringGame - (FromRing - FromSilence)
      /\ blocks' = [blocks EXCEPT ![buf] = copied \cup kept]
  BY DEF Refill, FromRing, FromSilence
<1>2. /\ refills' = AtMost(refills + 1, 2)
      /\ audio = "refill" /\ audio' = "append"
      /\ UNCHANGED <<outVars, main, threadRunning, buf>>
  BY DEF Refill, AudioStep
<1>3. refills' \in 0 .. 2 /\ refills' = IF refills = 0 THEN 1 ELSE 2
  BY <1>2 DEF AtMost, TypeOK
<1>4. buf \in Buffers /\ blocks \in [Buffers -> Content] /\ blocks[buf] \in Content
  BY DEF TypeOK
<1>5. copied \in Content /\ "old" \notin copied /\ copied \cup kept \in Content
  BY <1>4, AudioAssumption DEF Content
<1>6. blocks' \in [Buffers -> Content] /\ \A b \in Buffers \ {buf} : blocks'[b] = blocks[b]
  BY <1>1, <1>4, <1>5
<1>7. blocks'[buf] = copied \cup kept
  BY <1>1, <1>4
<1>8. Clean(buf) \/ FromRing = BufferFrames => Clean(buf)'
  <2>1. FromRing = BufferFrames => kept = {}
    BY RefillAmounts, AudioAssumption
  <2>2. Clean(buf) => "old" \notin kept
    BY DEF Clean
  <2> QED BY <1>2, <1>5, <1>7, <2>1, <2>2 DEF Clean
<1> QED BY <1>1, <1>2, <1>3, <1>6, <1>8

\* The clearing of the ring.
LEMMA ClearEffect ==
  ASSUME TypeOK, AudioRingClear
  PROVE  /\ ringSilence' = RingFrames /\ ringGame' = 0 /\ refills' = 0
         /\ ringSilence' \in 0 .. RingFrames /\ ringFill' <= RingFrames
         /\ blocks' \in [Buffers -> Content]
<1>1. \A b \in Buffers : Aged(blocks[b]) \in Content
  BY AudioAssumption DEF TypeOK, Aged, Content
<1> QED BY <1>1, AudioAssumption DEF AudioRingClear, ringFill

-----------------------------------------------------------------------------
(* The invariant, thread by thread. *)

LEMMA InitInv == Init => AudioInv
<1> SUFFICES ASSUME Init PROVE AudioInv
  OBVIOUS
<1>1. audio = "none" /\ refills = 0 /\ ringSilence = RingFrames /\ ringGame = 0
  BY DEF Init
<1> QED
  BY <1>1, InitTyped DEF AudioInv, Turns, Starting, Signalled, Circulating, RingFilled,
                         NoStaleAfterClear, QuietOutsideGame

\* Steps of the main thread leave the buffers where they are.
LEMMA BuffersStay ==
  ASSUME AudioInv, UNCHANGED <<outVars, audio, buf>>,
         UNCHANGED <<blocks, refills>> \/ refills' = 0
  PROVE  Turns' /\ Starting' /\ Signalled'
<1>1. /\ (Circulating' <=> Circulating) /\ (InHand' <=> InHand)
      /\ UNCHANGED <<queued, released, event, started, streamOpen, stop>>
  BY DEF Circulating, InHand, outVars
<1>2. refills' = 1 => \A b \in Buffers : Clean(b)' <=> Clean(b)
  BY DEF Clean
<1>3. Turns'
  <2> SUFFICES ASSUME Circulating PROVE Turns'
    BY <1>1 DEF Turns
  <2>1. PICK x, y \in Buffers :
          x # y /\ InOrder(x, y) /\ (refills = 1 => Clean(IF audio = "append" THEN x ELSE y))
    BY DEF AudioInv, Turns
  <2>2. InOrder(x, y)'
    BY <1>1, <2>1 DEF InOrder
  <2> QED BY <1>1, <1>2, <2>1, <2>2 DEF Turns
<1>4. Starting'
  BY <1>1, <1>2, AudioAssumption DEF AudioInv, Starting
<1>5. Signalled'
  BY <1>1 DEF AudioInv, Signalled
<1> QED BY <1>3, <1>4, <1>5

LEMMA MainInv == ASSUME AudioInv, Main PROVE AudioInv'
<1> USE DEF AudioInv
<1>1. TypeOK
  OBVIOUS
<1>2. UNCHANGED outVars /\ OutTypeOK => OutTypeOK'
  BY DEF outVars, OutTypeOK
<1>3. CASE AudioThreadStart
  <2>1. TypeOK'
    BY <1>1, <1>2, <1>3 DEF AudioThreadStart, TypeOK, MainStates, AudioStates, ringFill
  <2> QED
    BY <1>1, <1>3, <2>1 DEF AudioThreadStart, Turns, Starting, Signalled, Circulating,
                            RingFilled, NoStaleAfterClear, QuietOutsideGame
<1>4. CASE InitClear \/ PauseFrame
  <2>1. /\ AudioRingClear /\ main' \in {"game", "paused"}
        /\ UNCHANGED <<outVars, audio, buf, threadRunning>>
    BY <1>4 DEF InitClear, PauseFrame
  <2>2. TypeOK'
    BY <1>1, <1>2, <2>1, ClearEffect, AudioAssumption DEF TypeOK, MainStates
  <2> QED
    BY <1>1, <2>1, <2>2, ClearEffect, BuffersStay
       DEF RingFilled, NoStaleAfterClear, QuietOutsideGame
<1>5. ASSUME NEW n \in PumpSamples, Pump(n) PROVE AudioInv'
  <2>1. /\ main = "game" /\ Fits(n) /\ ringGame' = ringGame + n \div 2
        /\ UNCHANGED <<outVars, main, audio, buf, threadRunning, ringSilence, blocks, refills>>
    BY <1>5 DEF Pump
  <2>2. TypeOK'
    BY <1>1, <1>2, <2>1, PumpTyped DEF TypeOK, ringFill
  <2> QED
    BY <1>1, <2>1, <2>2, BuffersStay DEF RingFilled, NoStaleAfterClear, QuietOutsideGame
<1>6. CASE Resume \/ ExitGame \/ CloseWindow \/ Join
  <2>1. /\ main' \in MainStates
        /\ main' = "menu" => main = "stopping"
        /\ main' = "stopping" => main = "paused"
        /\ main' # "paused" /\ main' # "init"
        /\ threadRunning' \in BOOLEAN
        /\ UNCHANGED <<outVars, audio, buf, ringSilence, ringGame, blocks, refills>>
    BY <1>1, <1>6 DEF Resume, ExitGame, CloseWindow, Join, TypeOK, MainStates
  <2>2. TypeOK'
    BY <1>1, <1>2, <2>1 DEF TypeOK, ringFill
  <2> QED
    BY <1>1, <2>1, <2>2, BuffersStay DEF RingFilled, NoStaleAfterClear, QuietOutsideGame
<1> QED BY <1>3, <1>4, <1>5, <1>6 DEF Main

\* The device serves the buffer whose turn it is.
LEMMA TakesInOrder ==
  ASSUME NEW x \in Buffers, NEW y \in Buffers, InOrder(x, y), Take(queued),
         UNCHANGED <<audio, buf>>
  PROVE  InOrder(x, y)' /\ (released' = released \/ event')
<1>1. InHand' <=> InHand
  BY DEF InHand
<1>2. CASE queued = <<>>
  <2>1. UNCHANGED <<queued, released>>
    BY <1>2 DEF Take
  <2> QED BY <1>1, <2>1 DEF InOrder
<1>3. CASE queued # <<>>
  <2>1. /\ released' = Append(released, Head(queued).buffer)
        /\ queued' = Tail(queued) /\ event'
    BY <1>3 DEF Take
  <2>2. CASE InHand
    <3>1. PICK c \in Content : queued = <<[buffer |-> y, content |-> c]>>
      BY <1>3, <2>2 DEF InOrder
    <3>2. released = <<>> /\ buf = x
      BY <1>3, <2>2 DEF InOrder
    <3>3. released' = <<y>> /\ queued' = <<>>
      BY <2>1, <3>1, <3>2
    <3> QED BY <1>1, <2>1, <2>2, <3>2, <3>3 DEF InOrder
  <2>3. CASE ~InHand
    <3>1. CASE released = <<x>>
      <4>1. PICK c \in Content : queued = <<[buffer |-> y, content |-> c]>>
        BY <1>3, <2>3, <3>1 DEF InOrder
      <4>2. Head(queued).buffer = y /\ Tail(queued) = <<>> /\ Append(<<x>>, y) = <<x, y>>
        BY <4>1, AppendToOne
      <4>3. released' = <<x, y>> /\ queued' = <<>>
        BY <2>1, <3>1, <4>2
      <4> QED BY <1>1, <2>1, <2>3, <4>3 DEF InOrder
    <3>2. CASE released # <<x>>
      <4>1. released = <<>>
        BY <1>3, <2>3, <3>2 DEF InOrder
      <4>2. PICK c, d \in Content :
              queued = <<[buffer |-> x, content |-> c], [buffer |-> y, content |-> d]>>
        BY <1>3, <2>3, <3>2 DEF InOrder
      <4>3. released' = <<x>> /\ queued' = <<[buffer |-> y, content |-> d]>>
        BY <2>1, <4>1, <4>2
      <4> QED BY <1>1, <2>1, <2>3, <4>3 DEF InOrder
    <3> QED BY <3>1, <3>2
  <2> QED BY <2>2, <2>3
<1> QED BY <1>2, <1>3

LEMMA DeviceInv == ASSUME AudioInv, DeviceThread PROVE AudioInv'
<1> USE DEF AudioInv
<1>1. Device /\ UNCHANGED gbVars
  BY DEF DeviceThread
<1>2. TypeOK'
  BY <1>1, DeviceTyped DEF TypeOK, gbVars, ringFill
<1>3. RingFilled' /\ NoStaleAfterClear' /\ QuietOutsideGame'
  BY <1>1 DEF gbVars, RingFilled, NoStaleAfterClear, QuietOutsideGame
<1>4. (Circulating' <=> Circulating) /\ (\A b \in Buffers : Clean(b)' <=> Clean(b))
  BY <1>1 DEF gbVars, Circulating, Clean
<1>5. CASE DeviceTakes
  <2>1. Take(queued) /\ streamOpen /\ UNCHANGED <<started, streamOpen, stop>>
    BY <1>5 DEF DeviceTakes, TakeIsDue
  <2>2. queued = <<>> => UNCHANGED <<queued, released, event>>
    BY <2>1 DEF Take
  <2>3. Starting'
    BY <1>1, <1>4, <2>1, <2>2, AudioAssumption DEF Starting, gbVars
  <2>4. Turns' /\ Signalled'
    <3> SUFFICES ASSUME Circulating PROVE Turns' /\ Signalled'
      BY <1>1, <1>4 DEF Turns, Signalled, Circulating, gbVars
    <3>1. PICK x, y \in Buffers :
            x # y /\ InOrder(x, y) /\ (refills = 1 => Clean(IF audio = "append" THEN x ELSE y))
      BY DEF Turns
    <3>2. InOrder(x, y)' /\ (released' = released \/ event')
      BY <1>1, <2>1, <3>1, TakesInOrder DEF gbVars
    <3>3. Turns'
      BY <1>1, <1>4, <3>1, <3>2 DEF Turns, gbVars
    <3>4. event => event'
      BY <2>1 DEF Take
    <3>5. Signalled'
      BY <1>1, <1>4, <2>1, <3>2, <3>4 DEF Signalled, gbVars
    <3> QED BY <3>3, <3>5
  <2> QED BY <1>2, <1>3, <2>3, <2>4
<1>6. CASE DeviceWrite \/ DeviceWritten \/ DeviceReturns
  <2>1. UNCHANGED <<queued, released, event, started, streamOpen, stop>>
    BY <1>6 DEF DeviceWrite, DeviceWritten, DeviceReturns
  <2>2. Turns'
    <3> SUFFICES ASSUME Circulating PROVE Turns'
      BY <1>4 DEF Turns
    <3>1. PICK x, y \in Buffers :
            x # y /\ InOrder(x, y) /\ (refills = 1 => Clean(IF audio = "append" THEN x ELSE y))
      BY DEF Turns
    <3>2. InOrder(x, y)'
      BY <1>1, <2>1, <3>1 DEF InOrder, InHand, gbVars
    <3> QED BY <1>1, <1>4, <3>1, <3>2 DEF Turns, gbVars
  <2>3. Starting' /\ Signalled'
    BY <1>1, <1>4, <2>1, AudioAssumption DEF Starting, Signalled, gbVars
  <2> QED BY <1>2, <1>3, <2>2, <2>3
<1> QED BY <1>1, <1>5, <1>6 DEF Device

\* Appending both buffers, and giving a refilled one back.
LEMMA FirstAppend ==
  ASSUME AudioInv, AppendFirst
  PROVE  /\ audio' = "appendB" /\ released' = <<bufA>> /\ queued' = <<>>
         /\ streamOpen' /\ event' /\ UNCHANGED stop
<1> DEFINE entry == [buffer |-> bufA, content |-> blocks[bufA]]
<1>1. /\ audio = "appendA" /\ audio' = "appendB" /\ AppendBuffer(bufA, blocks[bufA])
      /\ released = <<>> /\ queued = <<>> /\ started /\ ~streamOpen
  BY DEF AppendFirst, AudioStep, AudioInv, Starting
<1>2. streamOpen' = TRUE /\ Take(Append(queued, entry)) /\ UNCHANGED stop
  BY <1>1 DEF AppendBuffer
<1>3. Append(queued, entry) = <<entry>> /\ <<entry>> # <<>> /\ Head(<<entry>>) = entry
      /\ Tail(<<entry>>) = <<>> /\ entry.buffer = bufA
  BY <1>1
<1> HIDE DEF entry
<1>4. released' = Append(released, bufA) /\ queued' = <<>> /\ event' = TRUE
  BY <1>2, <1>3 DEF Take
<1> QED BY <1>1, <1>2, <1>4

LEMMA LaterAppend ==
  ASSUME AudioInv, NEW b \in Buffers, AppendBuffer(b, blocks[b]), streamOpen
  PROVE  /\ queued' = Append(queued, [buffer |-> b, content |-> blocks[b]])
         /\ blocks[b] \in Content
         /\ UNCHANGED <<device, released, mixed, event, volume, started, streamOpen, stop>>
BY DEF AppendBuffer, AudioInv, TypeOK

\* Steps of the audio thread that leave the ring alone.
LEMMA RingStays ==
  ASSUME AudioInv, UNCHANGED <<main, ringSilence, ringGame, refills>>
  PROVE  RingFilled' /\ QuietOutsideGame'
BY DEF AudioInv, RingFilled, QuietOutsideGame

LEMMA OpenInv == ASSUME AudioInv, OpenOutput PROVE AudioInv'
<1> USE DEF AudioInv
<1>1. /\ audio' = "appendA" /\ OpenAndStart
      /\ UNCHANGED <<main, threadRunning, buf, ringSilence, ringGame, refills>>
  BY DEF OpenOutput, AudioStep, RingUnchanged
<1>2. PICK content \in {{"heap"}, blocks[bufA], blocks[bufB]} :
        blocks' = [b \in Buffers |-> IF b = bufA THEN content ELSE {"heap"}]
  BY DEF OpenOutput
<1>3. OutTypeOK'
  <2>1. queued' \in Seq(Queued) /\ released' \in Seq(Buffers) /\ mixed' \in Seq(Volume)
    BY <1>1 DEF OpenAndStart
  <2>2. device' = "run" /\ volume' = "default"
        /\ {event, started, streamOpen, stop}' \subseteq BOOLEAN
    BY <1>1 DEF OpenAndStart
  <2> QED BY <2>1, <2>2 DEF OutTypeOK, Volume
<1>4. blocks' \in [Buffers -> Content]
  <2>1. content \in Content /\ {"heap"} \in Content
    BY AudioAssumption DEF TypeOK, Content
  <2> QED BY <1>2, <2>1
<1>5. TypeOK'
  BY <1>1, <1>3, <1>4 DEF TypeOK, AudioStates, ringFill
<1>6. Clean(bufB)' /\ (NoStaleAfterClear => NoStaleAfterClear')
  BY <1>1, <1>2, AudioAssumption DEF Clean, NoStaleAfterClear
<1>7. Turns' /\ Starting' /\ Signalled'
  BY <1>1, <1>6 DEF Turns, Starting, Signalled, Circulating, OpenAndStart
<1> QED BY <1>1, <1>5, <1>6, <1>7, RingStays

LEMMA AppendsInv == ASSUME AudioInv, AppendFirst \/ AppendSecond PROVE AudioInv'
<1> USE DEF AudioInv
<1>1. /\ \E b \in Buffers : AppendBuffer(b, blocks[b])
      /\ audio' \in {"appendB", "mute"}
      /\ UNCHANGED <<main, threadRunning, buf, blocks, ringSilence, ringGame, refills>>
  BY AudioAssumption DEF AppendFirst, AppendSecond, AudioStep, RingUnchanged
<1>2. TypeOK'
  <2>1. OutTypeOK'
    BY <1>1, AppendTyped DEF TypeOK
  <2> QED BY <1>1, <2>1 DEF TypeOK, AudioStates, ringFill
<1>3. RingFilled' /\ QuietOutsideGame' /\ NoStaleAfterClear'
  BY <1>1, RingStays DEF NoStaleAfterClear
<1>4. CASE AppendFirst
  <2>1. Starting'
    BY <1>1, <1>4, FirstAppend DEF Starting, AppendFirst, AudioStep, Clean
  <2> QED
    BY <1>2, <1>3, <1>4, <2>1, FirstAppend DEF Turns, Signalled, Circulating
<1>5. CASE AppendSecond
  <2>1. /\ audio = "appendB" /\ audio' = "mute" /\ AppendBuffer(bufB, blocks[bufB])
        /\ released = <<bufA>> /\ queued = <<>> /\ streamOpen /\ event /\ ~stop
        /\ refills = 1 => Clean(bufB)
    BY <1>5 DEF AppendSecond, AudioStep, Starting
  <2>2. /\ queued' = <<[buffer |-> bufB, content |-> blocks[bufB]]>>
        /\ blocks[bufB] \in Content
        /\ UNCHANGED <<released, event, streamOpen, stop>>
    BY <2>1, LaterAppend, AudioAssumption
  <2>3. InOrder(bufA, bufB)'
    BY <2>1, <2>2 DEF InOrder, InHand
  <2>4. Turns'
    BY <1>1, <2>1, <2>3, AudioAssumption DEF Turns, Clean
  <2>5. Starting' /\ Signalled'
    BY <2>1, <2>2 DEF Starting, Signalled, Circulating
  <2> QED BY <1>2, <1>3, <2>4, <2>5
<1> QED BY <1>4, <1>5

\* Between two refills the buffers stay in order.
LEMMA LoopInv == ASSUME AudioInv, Mute \/ Loop \/ Wake \/ NothingReleased PROVE AudioInv'
<1> USE DEF AudioInv
<1>1. /\ audio \in {"mute", "check", "wait", "collect"}
      /\ audio' \in {"check", "wait", "collect"}
      /\ UNCHANGED <<main, threadRunning, buf, blocks, ringSilence, ringGame, refills,
                     device, queued, released, mixed, started, streamOpen, stop>>
      /\ event' \in BOOLEAN /\ volume' \in Volume
  BY DEF Mute, Loop, Wake, NothingReleased, AudioStep, RingUnchanged, SetVolume, WaitEvent,
         outVars, TypeOK, OutTypeOK, Volume
<1>2. TypeOK'
  <2>1. OutTypeOK'
    BY <1>1 DEF TypeOK, OutTypeOK
  <2> QED BY <1>1, <2>1 DEF TypeOK, AudioStates, ringFill
<1>3. RingFilled' /\ QuietOutsideGame' /\ NoStaleAfterClear'
  BY <1>1, RingStays DEF NoStaleAfterClear
<1>4. Turns'
  <2>1. PICK x, y \in Buffers : x # y /\ InOrder(x, y) /\ (refills = 1 => Clean(y))
    BY <1>1 DEF Turns, Circulating
  <2>2. InOrder(x, y)'
    BY <1>1, <2>1 DEF InOrder, InHand
  <2> QED BY <1>1, <2>1, <2>2 DEF Turns, Clean
<1>5. Starting' /\ Signalled'
  <2>1. audio' \in {"check", "wait"} => released = <<>> \/ event'
    BY <1>1 DEF Signalled, Mute, Loop, Wake, NothingReleased, AudioStep, SetVolume, outVars
  <2> QED BY <1>1, <2>1 DEF Starting, Signalled, Circulating
<1> QED BY <1>2, <1>3, <1>4, <1>5

\* The buffer that is collected is the first one.
LEMMA CollectInv == ASSUME AudioInv, Collect PROVE AudioInv'
<1> USE DEF AudioInv
<1>1. /\ audio = "collect" /\ audio' = "refill"
      /\ released # <<>> /\ released' = Tail(released) /\ buf' = Head(released)
      /\ UNCHANGED <<main, threadRunning, blocks, ringSilence, ringGame, refills,
                     device, queued, mixed, event, volume, started, streamOpen, stop>>
  BY DEF Collect, AudioStep, GetReleased, RingUnchanged
<1>2. TypeOK'
  <2>1. OutTypeOK' /\ buf' \in Buffers
    BY <1>1 DEF TypeOK, OutTypeOK
  <2> QED BY <1>1, <2>1 DEF TypeOK, AudioStates, ringFill
<1>3. RingFilled' /\ QuietOutsideGame' /\ NoStaleAfterClear'
  BY <1>1, RingStays DEF NoStaleAfterClear
<1>4. Turns'
  <2>1. PICK x, y \in Buffers : x # y /\ InOrder(x, y) /\ (refills = 1 => Clean(y))
    BY <1>1 DEF Turns, Circulating
  <2>2. \/ released = <<x, y>> /\ queued = <<>>
        \/ released = <<x>> /\ \E c \in Content : queued = <<[buffer |-> y, content |-> c]>>
    BY <1>1, <2>1 DEF InOrder, InHand
  <2>3. ASSUME released = <<x, y>>, queued = <<>> PROVE InOrder(x, y)'
    <3>1. released' = <<y>> /\ buf' = x
      BY <1>1, <2>3
    <3> QED BY <1>1, <2>3, <3>1 DEF InOrder, InHand
  <2>4. ASSUME released = <<x>>, \E c \in Content : queued = <<[buffer |-> y, content |-> c]>>
        PROVE  InOrder(x, y)'
    <3>1. released' = <<>> /\ buf' = x
      BY <1>1, <2>4
    <3> QED BY <1>1, <2>4, <3>1 DEF InOrder, InHand
  <2>5. InOrder(x, y)'
    BY <2>2, <2>3, <2>4
  <2> QED BY <1>1, <2>1, <2>5 DEF Turns, Clean
<1>5. Starting' /\ Signalled'
  BY <1>1 DEF Starting, Signalled, Circulating
<1> QED BY <1>2, <1>3, <1>4, <1>5

\* The first two refills after a clear are complete, and of different buffers.
LEMMA RefillInv == ASSUME AudioInv, Refill PROVE AudioInv'
<1> USE DEF AudioInv
<1>1. /\ audio = "refill" /\ audio' = "append"
      /\ UNCHANGED <<outVars, main, threadRunning, buf>>
      /\ refills' = IF refills = 0 THEN 1 ELSE 2
  BY RefillEffect
<1>2. refills \in {0, 1} => FromRing = BufferFrames
  <2>1. refills \in {0, 1} => ringSilence >= BufferFrames
    BY AudioAssumption DEF RingFilled, TypeOK
  <2> QED BY <2>1, RefillAmounts
<1>3. TypeOK'
  <2>1. ringSilence' \in 0 .. RingFrames /\ ringGame' \in 0 .. RingFrames /\ ringFill' <= RingFrames
    BY RefillEffect, RefillAmounts, AudioAssumption DEF TypeOK, ringFill
  <2>2. OutTypeOK'
    BY <1>1 DEF TypeOK, OutTypeOK, outVars
  <2> QED BY <1>1, <2>1, <2>2, RefillEffect DEF TypeOK, AudioStates
<1>4. PICK x, y \in Buffers : x # y /\ InOrder(x, y) /\ (refills = 1 => Clean(y))
  BY <1>1 DEF Turns, Circulating
<1>5. buf = x /\ InOrder(x, y)'
  BY <1>1, <1>4 DEF InOrder, InHand, outVars
<1>6. (refills \in {0, 1} => Clean(x)') /\ (Clean(x) => Clean(x)') /\ (Clean(y) => Clean(y)')
  BY <1>2, <1>4, <1>5, RefillEffect DEF Clean
<1>7. Turns'
  BY <1>1, <1>4, <1>5, <1>6 DEF Turns, TypeOK
<1>8. NoStaleAfterClear'
  <2>1. Buffers = {x, y}
    BY <1>4, AudioAssumption
  <2>2. refills = 2 => Clean(x) /\ Clean(y)
    BY DEF NoStaleAfterClear, Clean
  <2>3. refills' = 2 => Clean(x)' /\ Clean(y)'
    BY <1>1, <1>4, <1>6, <2>2 DEF TypeOK
  <2> QED BY <2>1, <2>3 DEF NoStaleAfterClear, Clean
<1>9. RingFilled'
  <2>1. refills' = 1 => ringSilence' = RingFrames - BufferFrames
    BY <1>1, <1>2, RefillEffect, RefillAmounts, AudioAssumption DEF RingFilled, TypeOK
  <2>2. ringGame = 0 => ringGame' = 0
    BY RefillEffect, RefillAmounts, AudioAssumption
  <2> QED BY <1>1, <2>1, <2>2, AudioAssumption DEF RingFilled
<1>10. QuietOutsideGame'
  BY <1>1, RefillEffect, RefillAmounts, AudioAssumption DEF QuietOutsideGame
<1>11. Starting' /\ Signalled'
  BY <1>1 DEF Starting, Signalled, Circulating, outVars
<1> QED BY <1>3, <1>7, <1>8, <1>9, <1>10, <1>11

\* A refilled buffer becomes the last one.
LEMMA GiveBackInv == ASSUME AudioInv, AppendRefilled PROVE AudioInv'
<1> USE DEF AudioInv
<1>1. /\ audio = "append" /\ audio' = "collect" /\ AppendBuffer(buf, blocks[buf])
      /\ UNCHANGED <<main, threadRunning, buf, blocks, ringSilence, ringGame, refills>>
  BY DEF AppendRefilled, AudioStep, RingUnchanged
<1>2. buf \in Buffers /\ streamOpen /\ ~stop
  BY <1>1 DEF TypeOK, Signalled, Circulating
<1>3. /\ queued' = Append(queued, [buffer |-> buf, content |-> blocks[buf]])
      /\ blocks[buf] \in Content
      /\ UNCHANGED <<released, event, streamOpen, stop>>
  BY <1>1, <1>2, LaterAppend
<1>4. TypeOK'
  <2>1. OutTypeOK'
    BY <1>1, <1>2, <1>3, AppendTyped DEF TypeOK
  <2> QED BY <1>1, <2>1 DEF TypeOK, AudioStates, ringFill
<1>5. RingFilled' /\ QuietOutsideGame' /\ NoStaleAfterClear'
  BY <1>1, RingStays DEF NoStaleAfterClear
<1>6. Turns'
  <2>1. PICK x, y \in Buffers : x # y /\ InOrder(x, y) /\ (refills = 1 => Clean(x))
    BY <1>1 DEF Turns, Circulating
  <2>2. buf = x
    BY <1>1, <2>1 DEF InOrder, InHand
  <2>3. CASE released = <<y>> /\ queued = <<>>
    <3>1. queued' = <<[buffer |-> x, content |-> blocks[x]]>>
      BY <1>3, <2>2, <2>3
    <3>2. InOrder(y, x)'
      BY <1>1, <1>3, <2>2, <2>3, <3>1 DEF InOrder, InHand
    <3> QED BY <1>1, <2>1, <3>2 DEF Turns, Clean
  <2>4. CASE released = <<>> /\ \E c \in Content : queued = <<[buffer |-> y, content |-> c]>>
    <3>1. PICK c \in Content : queued = <<[buffer |-> y, content |-> c]>>
      BY <2>4
    <3>2. queued' = <<[buffer |-> y, content |-> c], [buffer |-> x, content |-> blocks[x]]>>
      BY <1>3, <2>2, <3>1, AppendToOne
    <3>3. InOrder(y, x)'
      BY <1>1, <1>3, <2>2, <2>4, <3>2 DEF InOrder, InHand
    <3> QED BY <1>1, <2>1, <3>3 DEF Turns, Clean
  <2> QED BY <1>1, <2>1, <2>3, <2>4 DEF InOrder, InHand
<1>7. Starting' /\ Signalled'
  BY <1>1, <1>2, <1>3 DEF Starting, Signalled, Circulating
<1> QED BY <1>4, <1>5, <1>6, <1>7

LEMMA StopInv == ASSUME AudioInv, StopOutput \/ ThreadReturns PROVE AudioInv'
<1> USE DEF AudioInv
<1>1. /\ audio' \in {"joining", "none"}
      /\ UNCHANGED <<main, threadRunning, buf, blocks, ringSilence, ringGame, refills>>
      /\ OutTypeOK'
  BY DEF StopOutput, ThreadReturns, AudioStep, RingUnchanged, RequestStop, outVars, TypeOK,
         OutTypeOK
<1>2. TypeOK'
  BY <1>1 DEF TypeOK, AudioStates, ringFill
<1>3. Turns' /\ Starting' /\ Signalled'
  BY <1>1 DEF Turns, Starting, Signalled, Circulating
<1> QED BY <1>1, <1>2, <1>3, RingStays DEF NoStaleAfterClear

LEMMA StepInv == AudioInv /\ [Next]_vars => AudioInv'
<1> SUFFICES ASSUME AudioInv, [Next]_vars PROVE AudioInv'
  OBVIOUS
<1>1. CASE UNCHANGED vars
  <2>1. UNCHANGED <<outVars, audio, buf, main, threadRunning, ringSilence, ringGame, blocks, refills>>
    BY <1>1 DEF vars, gbVars
  <2>2. TypeOK'
    BY <2>1 DEF AudioInv, TypeOK, OutTypeOK, outVars, ringFill
  <2> QED BY <2>1, <2>2, BuffersStay, RingStays DEF AudioInv, NoStaleAfterClear
<1> QED
  BY <1>1, MainInv, DeviceInv, OpenInv, AppendsInv, LoopInv, CollectInv, RefillInv,
     GiveBackInv, StopInv
     DEF Next, AudioThread, Ended

-----------------------------------------------------------------------------
(* What follows. *)

\* The invariant holds in every state of every session.
THEOREM Invariance == Spec => []AudioInv
BY InitInv, StepInv, PTL DEF Spec

\* The ring holds what it has room for, although the test counts samples and
\* the fill counts frames; the queues hold buffers.
THEOREM TypeCorrect == Spec => []TypeOK
<1>1. AudioInv => TypeOK
  BY DEF AudioInv
<1> QED BY <1>1, Invariance, PTL

\* No buffer is lost or served twice.
THEOREM Conservation == Spec => []BuffersConserved
<1>1. AudioInv => BuffersConserved
  <2> SUFFICES ASSUME AudioInv, Circulating PROVE BuffersConserved
    BY DEF BuffersConserved
  <2> DEFINE waiting == [i \in DOMAIN queued |-> queued[i].buffer]
  <2>1. PICK x, y \in Buffers : x # y /\ InOrder(x, y)
    BY DEF AudioInv, Turns
  <2>2. <<x, y>> \in {<<bufA, bufB>>, <<bufB, bufA>>}
    BY <2>1, AudioAssumption
  <2>3. queued = <<>> => waiting = <<>>
    OBVIOUS
  <2>4. \A c \in Content : queued = <<[buffer |-> y, content |-> c]>> => waiting = <<y>>
    OBVIOUS
  <2>5. \A c, d \in Content :
          queued = <<[buffer |-> x, content |-> c], [buffer |-> y, content |-> d]>>
            => waiting = <<x, y>>
    OBVIOUS
  <2> HIDE DEF waiting
  <2>6. Cycle = (IF InHand THEN <<buf>> ELSE <<>>) \o released \o waiting
    BY DEF Cycle, InHand, waiting
  <2>7. CASE InHand
    <3>1. buf = x /\ \/ released = <<y>> /\ waiting = <<>>
                     \/ released = <<>> /\ waiting = <<y>>
      BY <2>1, <2>3, <2>4, <2>7 DEF InOrder
    <3>2. Cycle = <<buf>> \o released \o waiting
      BY <2>6, <2>7
    <3>3. Cycle = <<x, y>>
      BY <3>1, <3>2, OneAndOne, NoneMore
    <3> QED BY <2>2, <3>3 DEF BuffersConserved
  <2>8. CASE ~InHand
    <3>1. \/ released = <<x, y>> /\ waiting = <<>>
          \/ released = <<x>> /\ waiting = <<y>>
          \/ released = <<>> /\ waiting = <<x, y>>
      BY <2>1, <2>3, <2>4, <2>5, <2>8 DEF InOrder
    <3>2. Cycle = <<>> \o released \o waiting
      BY <2>6, <2>8
    <3>3. Cycle = <<x, y>>
      BY <3>1, <3>2, OneAndOne, NoneMore
    <3> QED BY <2>2, <3>3 DEF BuffersConserved
  <2> QED BY <2>7, <2>8
<1> QED BY <1>1, Invariance, PTL

\* A thread that waits without an event has both buffers queued: the next period
\* wakes it.
THEOREM WokenSafety == Spec => []WaitingIsWokenUp
<1>1. AudioInv => WaitingIsWokenUp
  <2> SUFFICES ASSUME AudioInv, audio = "wait", ~event
               PROVE  released = <<>> /\ Len(queued) = 2 /\ streamOpen /\ ~stop
    BY DEF WaitingIsWokenUp
  <2>1. released = <<>> /\ streamOpen /\ ~stop
    BY DEF AudioInv, Signalled, Circulating
  <2>2. PICK x, y \in Buffers : InOrder(x, y)
    BY DEF AudioInv, Turns, Circulating
  <2>3. Len(queued) = 2
    BY <2>1, <2>2 DEF InOrder, InHand
  <2> QED BY <2>1, <2>3
<1> QED BY <1>1, Invariance, PTL

\* Two refills after a clear nothing that was cleared is left in the buffers.
THEOREM FreshSafety == Spec => []NoStaleAfterClear
<1>1. AudioInv => NoStaleAfterClear
  BY DEF AudioInv
<1> QED BY <1>1, Invariance, PTL

\* The ring of the next session does not hold the audio of the last.
THEOREM QuietSafety == Spec => []QuietOutsideGame
<1>1. AudioInv => QuietOutsideGame
  BY DEF AudioInv
<1> QED BY <1>1, Invariance, PTL

=============================================================================
