------------------------------ MODULE AudioStream ------------------------------
(***************************************************************************)
(* A blocking PCM stream (platform/win32/AudioStream_wasapi.cpp).  Write   *)
(* returns when the sound card has taken all frames; without a card it     *)
(* sleeps as long as they would have played, and every two seconds looks   *)
(* for a card again.                                                       *)
(*                                                                         *)
(* Time passes in ticks of one frame.  Deadlines are kept as the distance  *)
(* from now, and a distance into the past is cut off at MaxLag: what lies  *)
(* farther back is over in any case.                                       *)
(***************************************************************************)
EXTENDS Integers

CONSTANTS
  DeviceFrames, \* the card's buffer: two of the caller's, at least 40 ms
  RetryTicks,   \* 2 s
  MaxLag,       \* bound: how far a deadline may lie in the past
  None          \* no schedule: silentStartNs = 0

ASSUME StreamAssumption ==
  /\ DeviceFrames \in Nat \ {0} /\ RetryTicks \in Nat \ {0} /\ MaxLag \in Nat
  /\ None \notin Int

VARIABLES
  card,    \* external: there is a sound card
  open,    \* Impl::render: a client of the card is open
  alive,   \* external: its card has been there ever since
  padding, \* external: frames the card has still to play
  mute,    \* the program was started with --mute
  call,    \* where the caller is: "closed", "idle", or in "write" or "silent"
  left,    \* frames of this Write that are still to go
  retry,   \* ticks until nextRetryMs
  lead,    \* ticks until the silent schedule is due, or None
  ahead    \* history: frames accepted less ticks passed, since open changed last

device == <<card, alive, padding>>
streamVars == <<device, open, mute, call, left, retry, lead, ahead>>

StreamTypeOK ==
  /\ {card, open, alive, mute} \subseteq BOOLEAN
  /\ padding \in 0 .. DeviceFrames
  /\ call \in {"closed", "idle", "write", "silent"}
  /\ left \in Nat /\ retry \in 0 .. RetryTicks
  /\ lead \in Int \union {None} /\ ahead \in Int

StreamInit ==
  /\ card \in BOOLEAN /\ mute \in BOOLEAN
  /\ open = FALSE /\ alive = FALSE /\ padding = 0
  /\ call = "closed" /\ left = 0 /\ retry = 0 /\ lead = None /\ ahead = 0

-----------------------------------------------------------------------------
(* The card and the clock. *)

Unplug ==
  /\ card
  /\ card' = FALSE /\ alive' = FALSE
  /\ UNCHANGED <<open, padding, mute, call, left, retry, lead, ahead>>

\* A client whose card was gone stays invalid.
Plug ==
  /\ ~card
  /\ card' = TRUE
  /\ UNCHANGED <<open, alive, padding, mute, call, left, retry, lead, ahead>>

Sooner(distance) == IF distance > -MaxLag THEN distance - 1 ELSE distance
CountDown(n) == IF n > 0 THEN n - 1 ELSE 0

Tick ==
  /\ padding' = IF alive THEN CountDown(padding) ELSE padding
  /\ retry' = CountDown(retry)
  /\ lead' = IF lead = None THEN None ELSE Sooner(lead)
  /\ ahead' = Sooner(ahead)
  /\ UNCHANGED <<card, alive, open, mute, call, left>>

-----------------------------------------------------------------------------
(* AudioStream::Impl::Init. *)

\* Mutant: the silent schedule is kept for the next loss.
ClientOpensOnSchedule ==
  /\ card /\ ~mute
  /\ open' = TRUE /\ alive' = TRUE /\ padding' = 0
  /\ lead' = lead
  /\ ahead' = 0

ClientOpens ==
  /\ card /\ ~mute
  /\ open' = TRUE /\ alive' = TRUE /\ padding' = 0
  /\ lead' = None
  /\ ahead' = 0

\* Init has failed, with or without a card, and Release.  If only the last step
\* failed, IAudioClient::Start, the schedule has been dropped.
ScheduleAfterFailure == IF card THEN {lead, None} ELSE {lead}

ClientGone == open' = FALSE /\ alive' = FALSE /\ padding' = 0

\* Impl::WaitSilently, up to its sleep; Write returns after it.
WaitSilently(schedule) ==
  /\ lead' = (IF schedule = None THEN 0 ELSE schedule) + left
  /\ ahead' = (IF open THEN 0 ELSE ahead) + left
  /\ call' = "silent"
  /\ left' = 0

-----------------------------------------------------------------------------
(* AudioStream::Open and Write. *)

StreamOpen ==
  /\ call = "closed"
  /\ call' = "idle"
  /\ \/ ClientOpens /\ UNCHANGED retry
     \/ /\ ClientGone
        /\ lead' \in ScheduleAfterFailure
        /\ retry' = RetryTicks
        /\ UNCHANGED ahead
  /\ UNCHANGED <<card, mute, left>>

BeginWrite(n) ==
  /\ call = "idle"
  /\ call' = "write" /\ left' = n
  /\ UNCHANGED <<device, open, mute, retry, lead, ahead>>

Accepts == open /\ alive

\* The card takes what it has room for; the rest waits until it has played some.
WriteToDevice ==
  /\ call = "write" /\ Accepts /\ padding < DeviceFrames
  /\ LET room == DeviceFrames - padding
         n == IF room < left THEN room ELSE left
     IN  /\ padding' = padding + n
         /\ left' = left - n
         /\ ahead' = ahead + n
  /\ call' = IF left' = 0 THEN "idle" ELSE "write"
  /\ UNCHANGED <<card, alive, open, mute, retry, lead>>

Retries == ~mute /\ retry = 0

\* The client is gone: a new one is opened, for what is left.
Reopen ==
  /\ call = "write" /\ ~Accepts
  /\ Retries /\ ClientOpens
  /\ UNCHANGED <<card, mute, call, left, retry>>

\* Opening fails: silence for the rest, and the next attempt in two seconds.
ReopenFails ==
  /\ call = "write" /\ ~Accepts
  /\ Retries
  /\ ClientGone
  /\ \E schedule \in ScheduleAfterFailure : WaitSilently(schedule)
  /\ retry' = RetryTicks
  /\ UNCHANGED <<card, mute>>

\* Mutant: every silent write puts the next attempt off.
WriteSilentlyAndPutOff ==
  /\ call = "write" /\ ~Accepts
  /\ ~Retries
  /\ ClientGone
  /\ WaitSilently(lead)
  /\ retry' = RetryTicks
  /\ UNCHANGED <<card, mute>>

\* It is not time yet.
WriteSilently ==
  /\ call = "write" /\ ~Accepts
  /\ ~Retries
  /\ ClientGone
  /\ WaitSilently(lead)
  /\ UNCHANGED <<card, mute, retry>>

\* Platform::SleepUntilNs.
SilenceIsOver ==
  /\ call = "silent" /\ lead <= 0
  /\ call' = "idle"
  /\ UNCHANGED <<device, open, mute, left, retry, lead, ahead>>

-----------------------------------------------------------------------------
(* What a stream promises. *)

\* "Write() still blocks in real time so callers keep their pacing": between two
\* writes the caller is never ahead of the clock by more than the card's buffer,
\* and not at all without a card, whenever cards came and went.
PacedInRealTime == call = "idle" => ahead <= IF open THEN DeviceFrames ELSE 0

\* "continuing silently" is not for ever: a card that stays is found and used.
DeviceReopened == <>[]card => <>[](mute \/ (open /\ alive))

================================================================================
