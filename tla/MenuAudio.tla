------------------------------- MODULE MenuAudio -------------------------------
(***************************************************************************)
(* The sounds of the menu (app/MenuAudio.cpp): the main thread asks for a  *)
(* sound by setting a plain flag (g::sfxMove and its like); a thread of    *)
(* its own looks at the flags before each block of 160 frames, mixes the   *)
(* voices that play, and writes the block to its stream.                   *)
(*                                                                         *)
(* Testing a flag and clearing it are two steps.  The music, which plays   *)
(* all the time, and its fades are left out; so is the case of a missing   *)
(* wave file, whose voice would stay "playing" without a sound.            *)
(***************************************************************************)
EXTENDS AudioStream, Sequences

CONSTANTS
  Sounds,      \* the sound effects in the order in which the thread looks
  BlockFrames, \* kFrame
  SoundBlocks  \* how many blocks a sound lasts

Names == {Sounds[i] : i \in DOMAIN Sounds}

ASSUME MenuAudioAssumption ==
  /\ Sounds \in Seq(Names) \ {<<>>}
  /\ BlockFrames \in Nat \ {0} /\ SoundBlocks \in Nat \ {0}

VARIABLES
  thread,  \* ThreadMain: "begin", "open", then the loop: "test", "clear", "mix", "write"
  at,      \* the sound that the loop looks at
  asked,   \* the sounds whose flag is set
  playing, \* Voice::playing, as the blocks the voice has still to play
  unheard  \* history: the sounds that were asked for and not heard to begin since

menuVars == <<thread, at, asked, playing, unheard>>
vars == <<streamVars, menuVars>>

TypeOK ==
  /\ StreamTypeOK
  /\ thread \in {"begin", "open", "test", "clear", "mix", "write"}
  /\ at \in 1 .. Len(Sounds)
  /\ asked \subseteq Names /\ unheard \subseteq Names
  /\ playing \in [Names -> 0 .. SoundBlocks]

Init ==
  /\ StreamInit
  /\ thread = "begin" /\ at = 1
  /\ asked = {} /\ playing = [s \in Names |-> 0] /\ unheard = {}

-----------------------------------------------------------------------------
(* The main thread. *)

\* UpdateInput sets a flag.  The thread was started by App::Init, seconds before.
Ask(s) ==
  /\ thread \notin {"begin", "open"}
  /\ asked' = asked \union {s}
  /\ unheard' = unheard \union {s}
  /\ UNCHANGED <<streamVars, thread, at, playing>>

-----------------------------------------------------------------------------
(* ThreadMain. *)

Begin ==
  /\ thread = "begin"
  /\ thread' = "open"
  /\ asked' = {}
  /\ UNCHANGED <<streamVars, at, playing, unheard>>

Open ==
  /\ thread = "open"
  /\ StreamOpen
  /\ thread' = "test"
  /\ UNCHANGED <<at, asked, playing, unheard>>

\* The next sound, or the block, once all have been looked at.
LookOn ==
  IF at = Len(Sounds)
    THEN thread' = "mix" /\ at' = 1
    ELSE thread' = "test" /\ at' = at + 1

\* if (g::sfxMove && !move.playing) move.Start()
StartSound ==
  /\ thread = "test" /\ Sounds[at] \in asked /\ playing[Sounds[at]] = 0
  /\ playing' = [playing EXCEPT ![Sounds[at]] = SoundBlocks]
  /\ thread' = "clear"
  /\ UNCHANGED <<streamVars, at, asked, unheard>>

\* g::sfxMove = 0
ClearFlag ==
  /\ thread = "clear"
  /\ asked' = asked \ {Sounds[at]}
  /\ LookOn
  /\ UNCHANGED <<streamVars, playing, unheard>>

\* Mutant: a sound that still plays makes its flag be cleared as well.
PassSoundForgetting ==
  /\ thread = "test"
  /\ Sounds[at] \notin asked \/ playing[Sounds[at]] > 0
  /\ asked' = asked \ {Sounds[at]}
  /\ LookOn
  /\ UNCHANGED <<streamVars, playing, unheard>>

\* Nobody asks, or the sound still plays: then the flag stays set.
PassSound ==
  /\ thread = "test"
  /\ Sounds[at] \notin asked \/ playing[Sounds[at]] > 0
  /\ LookOn
  /\ UNCHANGED <<streamVars, asked, playing, unheard>>

\* A voice that was started and has not got into a block yet.
Starting == {s \in Names : playing[s] = SoundBlocks}

\* Voice::Mix of every voice, and the call of Write.  The block is the first that is
\* heard of a voice that was just started.
Mix ==
  /\ thread = "mix"
  /\ BeginWrite(BlockFrames)
  /\ playing' = [s \in Names |-> CountDown(playing[s])]
  /\ unheard' = unheard \ Starting
  /\ thread' = "write"
  /\ UNCHANGED <<at, asked>>

\* The stream is at work ...
Writes ==
  /\ thread = "write"
  /\ WriteToDevice \/ Reopen \/ ReopenFails \/ WriteSilently \/ SilenceIsOver
  /\ UNCHANGED menuVars

\* ... and Write has returned.
Written ==
  /\ thread = "write" /\ call = "idle"
  /\ thread' = "test"
  /\ UNCHANGED <<streamVars, at, asked, playing, unheard>>

ThreadMain ==
  \/ Begin \/ Open \/ StartSound \/ ClearFlag \/ PassSound \/ Mix \/ Writes \/ Written

CardChanges == (Plug \/ Unplug) /\ UNCHANGED menuVars

TimePasses == Tick /\ UNCHANGED menuVars

Next ==
  \/ ThreadMain \/ CardChanges \/ TimePasses
  \/ \E s \in Names : Ask(s)

Spec == Init /\ [][Next]_vars

ReopenSucceeds == thread = "write" /\ Reopen /\ UNCHANGED menuVars

\* The thread runs and time passes; with a card opening does not fail for ever; in
\* the end nobody plugs and unplugs any more.
FairSpec ==
  /\ Spec
  /\ WF_vars(ThreadMain) /\ WF_vars(TimePasses) /\ SF_vars(ReopenSucceeds)
  /\ <>[][~CardChanges]_vars

-----------------------------------------------------------------------------
(* Properties. *)

\* A sound that was asked for and is not heard yet has its flag set or is starting,
\* though the thread clears flags at moments at which the main thread may set them: a
\* request that is cleared unseen is one that the starting sound answers.
RequestsStay == unheard \subseteq asked \union Starting

\* Every sound that is asked for is heard from its beginning afterwards: also when it
\* was still playing, when the request falls between the test of the flag and its
\* clearing, and whatever becomes of the sound card.
SoundFollows == \A s \in Names : s \in unheard ~> s \notin unheard

================================================================================
