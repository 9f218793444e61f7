---------------------------- MODULE MenuAudioProofs ----------------------------
(***************************************************************************)
(* The menu's audio thread on its stream, for every size of the card's     *)
(* buffer and of the blocks, every number of sounds and every retry time:  *)
(* the thread is never ahead of the clock, whenever sound cards come and   *)
(* go, and no request for a sound is cleared that no sound answers.        *)
(*                                                                         *)
(* The pace is the caller's, but what bounds it changes with the client:   *)
(* while one is open, the frames that its card has still to play; without  *)
(* one, the deadline of the silent schedule.  The invariant says for each  *)
(* of the two, and for the moments in between, what holds the caller back. *)
(***************************************************************************)
EXTENDS MenuAudio, TLAPS

-----------------------------------------------------------------------------
(* The stream. *)

\* A client that is open has a card that was there, and no silent schedule; what the
\* caller is ahead by is in the card's buffer, also when the card is gone by now.
OpenInv ==
  /\ alive => open
  /\ open => lead = None /\ ahead <= padding

\* Without a client the caller is not ahead of the schedule, and outside of its sleep
\* not ahead at all: the next schedule may start anew.
SilentInv ==
  ~open => /\ lead # None => ahead <= lead
           /\ call # "silent" => ahead <= 0

\* Where the caller can be.
CallInv ==
  /\ call = "silent" => ~open /\ lead # None
  /\ call = "closed" => ~open /\ lead = None

StreamInv == StreamTypeOK /\ OpenInv /\ SilentInv /\ CallInv

LEMMA StreamStart == StreamInit => StreamInv
<1> SUFFICES ASSUME StreamInit PROVE StreamInv
  OBVIOUS
<1>1. /\ open = FALSE /\ alive = FALSE /\ padding = 0 /\ call = "closed" /\ left = 0
      /\ retry = 0 /\ lead = None /\ ahead = 0
  BY DEF StreamInit
<1>2. card \in BOOLEAN /\ mute \in BOOLEAN
  BY DEF StreamInit
<1>3. {card, open, alive, mute} \subseteq BOOLEAN
  BY <1>1, <1>2
<1>4. StreamTypeOK
  BY <1>1, <1>3, StreamAssumption DEF StreamTypeOK
<1> QED BY <1>1, <1>4 DEF StreamInv, OpenInv, SilentInv, CallInv

LEMMA StreamStays == StreamInv /\ UNCHANGED streamVars => StreamInv'
BY DEF StreamInv, StreamTypeOK, OpenInv, SilentInv, CallInv, streamVars, device

\* Opening a client starts the caller's account anew.
LEMMA ClientOpensInv ==
  ASSUME StreamInv, ClientOpens, UNCHANGED <<card, mute>>,
         call' \in {"idle", "write"}, left' \in Nat, retry' \in 0 .. RetryTicks
  PROVE  StreamInv'
<1> USE DEF StreamInv
<1>1. /\ open' = TRUE /\ alive' = TRUE /\ padding' = 0 /\ lead' = None /\ ahead' = 0
  BY DEF ClientOpens
<1>2. {card, open, alive, mute}' \subseteq BOOLEAN
  BY <1>1 DEF StreamTypeOK
<1>3. StreamTypeOK'
  BY <1>1, <1>2, StreamAssumption DEF StreamTypeOK
<1> QED BY <1>1, <1>3 DEF OpenInv, SilentInv, CallInv

\* The silent schedule takes over: what is left of the block is due on it.
LEMMA WaitSilentlyInv ==
  ASSUME StreamInv, NEW schedule \in {lead, None}, call = "write",
         ClientGone, WaitSilently(schedule), UNCHANGED <<card, mute>>,
         retry' \in 0 .. RetryTicks
  PROVE  StreamInv'
<1> USE DEF StreamInv
<1>1. /\ open' = FALSE /\ alive' = FALSE /\ padding' = 0 /\ call' = "silent" /\ left' = 0
      /\ lead' = (IF schedule = None THEN 0 ELSE schedule) + left
      /\ ahead' = (IF open THEN 0 ELSE ahead) + left
  BY DEF ClientGone, WaitSilently
<1>2. lead \in Int \union {None} /\ ahead \in Int /\ left \in Nat /\ open \in BOOLEAN
  BY DEF StreamTypeOK
<1>3. lead' \in Int /\ ahead' \in Int /\ lead' # None
  BY <1>1, <1>2, StreamAssumption
<1>4. ahead' <= lead'
  <2>1. CASE open
    BY <1>1, <1>2, <2>1 DEF OpenInv
  <2>2. CASE ~open
    <3>1. ahead <= IF schedule = None THEN 0 ELSE schedule
      BY <2>2 DEF SilentInv
    <3>2. (IF schedule = None THEN 0 ELSE schedule) \in Int
      BY <1>2
    <3> QED BY <1>1, <1>2, <2>2, <3>1, <3>2
  <2> QED BY <2>1, <2>2
<1>5. {card, open, alive, mute}' \subseteq BOOLEAN
  BY <1>1 DEF StreamTypeOK
<1>6. StreamTypeOK'
  BY <1>1, <1>3, <1>5, StreamAssumption DEF StreamTypeOK
<1> QED BY <1>1, <1>3, <1>4, <1>6 DEF OpenInv, SilentInv, CallInv

\* The card's buffer and the caller's lead grow by the same frames.
LEMMA WriteToDeviceInv == StreamInv /\ WriteToDevice => StreamInv'
<1> SUFFICES ASSUME StreamInv, WriteToDevice PROVE StreamInv'
  OBVIOUS
<1> USE DEF StreamInv
<1> DEFINE room == DeviceFrames - padding
           n == IF room < left THEN room ELSE left
<1>1. /\ padding < DeviceFrames /\ open /\ alive
      /\ padding' = padding + n /\ left' = left - n /\ ahead' = ahead + n
      /\ call' \in {"idle", "write"}
      /\ UNCHANGED <<card, alive, open, mute, retry, lead>>
  BY DEF WriteToDevice, Accepts
<1>2. /\ padding \in 0 .. DeviceFrames /\ left \in Nat /\ ahead \in Int
      /\ retry \in 0 .. RetryTicks /\ lead \in Int \union {None}
  BY DEF StreamTypeOK
<1>3. n \in 0 .. left /\ n <= DeviceFrames - padding
  BY <1>1, <1>2, StreamAssumption
<1> HIDE DEF n
<1>4. /\ padding' \in 0 .. DeviceFrames /\ left' \in Nat /\ ahead' \in Int
      /\ ahead <= padding => ahead' <= padding'
  BY <1>1, <1>2, <1>3, StreamAssumption
<1>5. {card, open, alive, mute}' \subseteq BOOLEAN
  BY <1>1 DEF StreamTypeOK
<1>6. StreamTypeOK'
  BY <1>1, <1>2, <1>4, <1>5 DEF StreamTypeOK
<1> QED BY <1>1, <1>4, <1>6 DEF OpenInv, SilentInv, CallInv

\* Distances shrink together, so that none of them overtakes another.
LEMMA SoonerMonotone ==
  ASSUME NEW a \in Int, NEW b \in Int, a <= b
  PROVE  Sooner(a) \in Int /\ Sooner(a) <= Sooner(b) /\ Sooner(a) <= a
BY StreamAssumption DEF Sooner

LEMMA SoonerThanPadding ==
  ASSUME NEW a \in Int, NEW p \in Nat, a <= p
  PROVE  Sooner(a) <= CountDown(p)
BY StreamAssumption DEF Sooner, CountDown

LEMMA TickInv == StreamInv /\ Tick => StreamInv'
<1> SUFFICES ASSUME StreamInv, Tick PROVE StreamInv'
  OBVIOUS
<1> USE DEF StreamInv
<1>1. /\ padding' = IF alive THEN CountDown(padding) ELSE padding
      /\ retry' = CountDown(retry)
      /\ lead' = IF lead = None THEN None ELSE Sooner(lead)
      /\ ahead' = Sooner(ahead)
      /\ UNCHANGED <<card, alive, open, mute, call, left>>
  BY DEF Tick
<1>2. /\ padding \in 0 .. DeviceFrames /\ retry \in 0 .. RetryTicks
      /\ left \in Nat /\ ahead \in Int /\ lead \in Int \union {None}
      /\ call \in {"closed", "idle", "write", "silent"}
  BY DEF StreamTypeOK
<1>3. padding' \in 0 .. DeviceFrames /\ retry' \in 0 .. RetryTicks
  BY <1>1, <1>2, StreamAssumption DEF CountDown
<1>4. ahead' \in Int /\ ahead' <= ahead
  BY <1>1, <1>2, SoonerMonotone
<1>5. lead' \in Int \union {None} /\ (lead' = None <=> lead = None)
  BY <1>1, <1>2, SoonerMonotone, StreamAssumption
<1>6. lead # None /\ ahead <= lead => ahead' <= lead'
  BY <1>1, <1>2, SoonerMonotone
<1>7. ahead <= padding => ahead' <= padding'
  <2>1. CASE alive
    BY <1>1, <1>2, <2>1, SoonerThanPadding, StreamAssumption
  <2>2. CASE ~alive
    BY <1>1, <1>2, <1>4, <2>2, StreamAssumption
  <2> QED BY <2>1, <2>2
<1>8. {card, open, alive, mute}' \subseteq BOOLEAN
  BY <1>1 DEF StreamTypeOK
<1>9. StreamTypeOK'
  BY <1>1, <1>2, <1>3, <1>4, <1>5, <1>8 DEF StreamTypeOK
<1>10. OpenInv'
  BY <1>1, <1>5, <1>7 DEF OpenInv
<1>11. SilentInv'
  BY <1>1, <1>2, <1>4, <1>5, <1>6 DEF SilentInv
<1>12. CallInv'
  BY <1>1, <1>5 DEF CallInv
<1> QED BY <1>9, <1>10, <1>11, <1>12

LEMMA CardInv == StreamInv /\ (Plug \/ Unplug) => StreamInv'
<1> SUFFICES ASSUME StreamInv, Plug \/ Unplug PROVE StreamInv'
  OBVIOUS
<1> USE DEF StreamInv
<1>1. /\ card' \in BOOLEAN
      /\ alive' = alive \/ alive' = FALSE
      /\ UNCHANGED <<open, padding, mute, call, left, retry, lead, ahead>>
  BY DEF Plug, Unplug
<1>2. {card, open, alive, mute}' \subseteq BOOLEAN
  BY <1>1 DEF StreamTypeOK
<1>3. StreamTypeOK'
  BY <1>1, <1>2 DEF StreamTypeOK
<1> QED BY <1>1, <1>3 DEF OpenInv, SilentInv, CallInv

LEMMA OpenStreamInv == StreamInv /\ StreamOpen => StreamInv'
<1> SUFFICES ASSUME StreamInv, StreamOpen PROVE StreamInv'
  OBVIOUS
<1> USE DEF StreamInv
<1>1. call = "closed" /\ call' = "idle" /\ UNCHANGED <<card, mute, left>>
  BY DEF StreamOpen
<1>2. CASE ClientOpens /\ UNCHANGED retry
  BY <1>1, <1>2, ClientOpensInv DEF StreamTypeOK
<1>3. CASE /\ ClientGone
           /\ lead' \in ScheduleAfterFailure
           /\ retry' = RetryTicks
           /\ UNCHANGED ahead
  <2>1. /\ open' = FALSE /\ alive' = FALSE /\ padding' = 0 /\ lead' = None
        /\ retry' = RetryTicks /\ UNCHANGED ahead
    BY <1>1, <1>3 DEF ClientGone, ScheduleAfterFailure, CallInv
  <2>2. {card, open, alive, mute}' \subseteq BOOLEAN
    BY <1>1, <2>1 DEF StreamTypeOK
  <2>3. StreamTypeOK'
    BY <1>1, <2>1, <2>2, StreamAssumption DEF StreamTypeOK
  <2> QED BY <1>1, <2>1, <2>3 DEF OpenInv, SilentInv, CallInv
<1> QED BY <1>2, <1>3 DEF StreamOpen

LEMMA BeginWriteInv == \A n \in Nat : StreamInv /\ BeginWrite(n) => StreamInv'
BY DEF StreamInv, StreamTypeOK, OpenInv, SilentInv, CallInv, BeginWrite, device

LEMMA WriteInv ==
  ASSUME StreamInv, WriteToDevice \/ Reopen \/ ReopenFails \/ WriteSilently \/ SilenceIsOver
  PROVE  StreamInv'
<1> USE DEF StreamInv
<1>1. retry \in 0 .. RetryTicks /\ RetryTicks \in 0 .. RetryTicks /\ left \in Nat
  BY StreamAssumption DEF StreamTypeOK
<1>2. CASE Reopen
  BY <1>1, <1>2, ClientOpensInv DEF Reopen
<1>3. CASE ReopenFails
  <2>1. PICK schedule \in ScheduleAfterFailure : WaitSilently(schedule)
    BY <1>3 DEF ReopenFails
  <2>2. schedule \in {lead, None}
    BY DEF ScheduleAfterFailure
  <2> QED BY <1>1, <1>3, <2>1, <2>2, WaitSilentlyInv DEF ReopenFails
<1>4. CASE WriteSilently
  BY <1>1, <1>4, WaitSilentlyInv DEF WriteSilently
<1>5. CASE SilenceIsOver
  <2>1. /\ call = "silent" /\ lead <= 0 /\ call' = "idle"
        /\ UNCHANGED <<card, alive, padding, open, mute, left, retry, lead, ahead>>
    BY <1>5 DEF SilenceIsOver, device
  <2>2. StreamTypeOK'
    BY <2>1 DEF StreamTypeOK
  <2>3. ahead \in Int /\ lead \in Int /\ ahead <= lead
    BY <2>1 DEF StreamTypeOK, SilentInv, CallInv
  <2> QED BY <2>1, <2>2, <2>3 DEF OpenInv, SilentInv, CallInv
<1> QED BY <1>2, <1>3, <1>4, <1>5, WriteToDeviceInv

-----------------------------------------------------------------------------
(* The thread and its requests. *)

\* The thread has its stream before it is asked for anything, a request that was not
\* answered has its flag set or its sound starting, and the flag that is about to be
\* cleared is that of a sound that is starting.
ThreadInv ==
  /\ thread = "begin" => unheard = {}
  /\ RequestsStay
  /\ thread = "clear" => Sounds[at] \in Starting

AudioInv == TypeOK /\ StreamInv /\ ThreadInv

LEMMA SoundsInOrder == Len(Sounds) \in Nat \ {0} /\ (\A i \in 1 .. Len(Sounds) : Sounds[i] \in Names)
BY MenuAudioAssumption DEF Names

LEMMA InitInv == Init => AudioInv
<1> SUFFICES ASSUME Init PROVE AudioInv
  OBVIOUS
<1>1. StreamInv
  BY StreamStart DEF Init
<1>2. TypeOK
  BY <1>1, SoundsInOrder, MenuAudioAssumption DEF Init, TypeOK, StreamInv
<1> QED BY <1>1, <1>2 DEF Init, AudioInv, ThreadInv, RequestsStay, Starting

\* Asking sets the flag, whatever the thread is about.
LEMMA AskInv == ASSUME AudioInv, NEW s \in Names, Ask(s) PROVE AudioInv'
<1> USE DEF AudioInv
<1>1. StreamInv'
  BY StreamStays DEF Ask
<1>2. /\ thread \notin {"begin", "open"} /\ asked' = asked \union {s}
      /\ unheard' = unheard \union {s}
      /\ UNCHANGED <<thread, at, playing>>
  BY DEF Ask
<1>3. TypeOK'
  BY <1>1, <1>2 DEF TypeOK, StreamInv
<1> QED BY <1>1, <1>2, <1>3 DEF ThreadInv, RequestsStay, Starting

LEMMA LookOnInv ==
  ASSUME TypeOK, LookOn PROVE thread' \in {"test", "mix"} /\ at' \in 1 .. Len(Sounds)
BY SoundsInOrder DEF TypeOK, LookOn

\* The thread's own steps that leave the stream alone.
LEMMA LookInv ==
  ASSUME AudioInv, Begin \/ StartSound \/ ClearFlag \/ PassSound PROVE AudioInv'
<1> USE DEF AudioInv
<1>1. StreamInv'
  BY StreamStays DEF Begin, StartSound, ClearFlag, PassSound
<1>2. CASE Begin
  <2>1. TypeOK'
    BY <1>1, <1>2 DEF Begin, TypeOK, StreamInv
  <2> QED BY <1>1, <1>2, <2>1 DEF Begin, ThreadInv, RequestsStay, Starting
<1>3. CASE StartSound
  <2>1. playing' \in [Names -> 0 .. SoundBlocks]
    BY <1>3, MenuAudioAssumption DEF StartSound, TypeOK
  <2>2. TypeOK'
    BY <1>1, <1>3, <2>1 DEF StartSound, TypeOK, StreamInv
  <2>3. Starting' = Starting \union {Sounds[at]}
    <3>1. Sounds[at] \in Names /\ playing \in [Names -> 0 .. SoundBlocks]
      BY SoundsInOrder DEF TypeOK
    <3> QED BY <1>3, <3>1 DEF StartSound, Starting
  <2>4. ThreadInv'
    BY <1>3, <2>3 DEF StartSound, ThreadInv, RequestsStay
  <2> QED BY <1>1, <2>2, <2>4
<1>4. CASE ClearFlag
  <2>1. TypeOK'
    BY <1>1, <1>4, LookOnInv DEF ClearFlag, TypeOK, StreamInv
  <2> QED BY <1>1, <1>4, <2>1, LookOnInv DEF ClearFlag, ThreadInv, RequestsStay, Starting
<1>5. CASE PassSound
  <2>1. TypeOK'
    BY <1>1, <1>5, LookOnInv DEF PassSound, TypeOK, StreamInv
  <2> QED BY <1>1, <1>5, <2>1, LookOnInv DEF PassSound, ThreadInv, RequestsStay, Starting
<1> QED BY <1>2, <1>3, <1>4, <1>5

\* The thread's steps in its stream.
LEMMA StreamStepInv ==
  ASSUME AudioInv, Open \/ Mix \/ Writes \/ Written PROVE AudioInv'
<1> USE DEF AudioInv
<1>1. StreamInv'
  <2>1. CASE Open
    BY <2>1, OpenStreamInv DEF Open
  <2>2. CASE Mix
    BY <2>2, BeginWriteInv, MenuAudioAssumption DEF Mix
  <2>3. CASE Writes
    BY <2>3, WriteInv DEF Writes
  <2>4. CASE Written
    BY <2>4, StreamStays DEF Written
  <2> QED BY <2>1, <2>2, <2>3, <2>4
<1>2. thread # "clear" /\ thread' \in {"test", "write"} /\ UNCHANGED <<at, asked>>
  BY DEF Open, Mix, Writes, Written, menuVars
<1>3. playing' \in [Names -> 0 .. SoundBlocks]
  BY MenuAudioAssumption DEF TypeOK, Open, Mix, Writes, Written, menuVars, CountDown
<1>4. /\ unheard' \subseteq unheard
      /\ RequestsStay'
  <2>1. CASE Mix
    BY <2>1 DEF Mix, ThreadInv, RequestsStay
  <2>2. CASE Open \/ Writes \/ Written
    BY <2>2 DEF Open, Writes, Written, menuVars, ThreadInv, RequestsStay, Starting
  <2> QED BY <2>1, <2>2
<1>5. TypeOK'
  BY <1>1, <1>2, <1>3, <1>4 DEF TypeOK, StreamInv
<1> QED BY <1>1, <1>2, <1>4, <1>5 DEF ThreadInv

LEMMA WorldInv ==
  ASSUME AudioInv, CardChanges \/ TimePasses \/ UNCHANGED vars PROVE AudioInv'
<1> USE DEF AudioInv
<1>1. StreamInv'
  BY CardInv, TickInv, StreamStays DEF CardChanges, TimePasses, vars
<1>2. UNCHANGED menuVars
  BY DEF CardChanges, TimePasses, vars
<1> QED BY <1>1, <1>2 DEF TypeOK, StreamInv, ThreadInv, RequestsStay, Starting, menuVars

LEMMA StepInv == AudioInv /\ [Next]_vars => AudioInv'
BY AskInv, LookInv, StreamStepInv, WorldInv DEF Next, ThreadMain

-----------------------------------------------------------------------------
(* What follows. *)

\* The invariant holds in every state.
THEOREM Invariance == Spec => []AudioInv
BY InitInv, StepInv, PTL DEF Spec

\* Every variable of the thread and of its stream keeps its type: in particular no
\* write puts more into the card's buffer than there is room for.
THEOREM TypeCorrect == Spec => []TypeOK
<1>1. AudioInv => TypeOK
  BY DEF AudioInv
<1> QED BY <1>1, Invariance, PTL

\* Between two writes the caller is ahead of the clock by no more than the card's
\* buffer, and not at all without a client.
THEOREM PaceSafety == Spec => []PacedInRealTime
<1>1. AudioInv => PacedInRealTime
  <2> SUFFICES ASSUME AudioInv, call = "idle"
               PROVE  ahead <= IF open THEN DeviceFrames ELSE 0
    BY DEF PacedInRealTime
  <2>1. padding \in 0 .. DeviceFrames /\ ahead \in Int /\ open \in BOOLEAN
    BY DEF AudioInv, StreamInv, StreamTypeOK
  <2>2. CASE open
    BY <2>1, <2>2, StreamAssumption DEF AudioInv, StreamInv, OpenInv
  <2>3. CASE ~open
    BY <2>3 DEF AudioInv, StreamInv, SilentInv
  <2> QED BY <2>2, <2>3
<1> QED BY <1>1, Invariance, PTL

\* No request is lost: its flag stays set until a sound that answers it is starting.
THEOREM RequestSafety == Spec => []RequestsStay
<1>1. AudioInv => RequestsStay
  BY DEF AudioInv, ThreadInv
<1> QED BY <1>1, Invariance, PTL

================================================================================
