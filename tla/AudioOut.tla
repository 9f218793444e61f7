-------------------------------- MODULE AudioOut --------------------------------
(***************************************************************************)
(* The audio output that stands in for the console's (platform/AudioOut).  *)
(* A client appends buffers, waits for an event and collects the buffers   *)
(* that were released; a device thread takes one queued buffer per period, *)
(* mixes it at the current volume and hands it to the sound card.          *)
(*                                                                         *)
(* Everything happens under one mutex, with a notify after every change    *)
(* that a waiter looks at: one action is one critical section, and a       *)
(* waiting thread is one whose condition does not hold yet.  When a period *)
(* ends is left open, so the device may lag behind and catch up in bursts. *)
(***************************************************************************)
EXTENDS Sequences, Naturals

CONSTANTS
  Buffers,  \* the client's buffers
  Tags      \* what a buffer may hold

VARIABLES
  device,      \* "none": no thread; "run"; "writing": inside AudioStream::Write
  queued,      \* appended, not yet taken: buffers with a copy of their contents
  released,    \* taken, for the client to collect
  mixed,       \* taken, waiting for the device thread
  event,       \* a buffer was released since the client last waited
  volume,      \* "default": 1.0f, as long as the client has not set it; "set"
  started,
  streamOpen,  \* from the first append on, a buffer is due every period
  stop

outVars == <<device, queued, released, mixed, event, volume, started, streamOpen, stop>>

Content == SUBSET Tags
Queued == [buffer: Buffers, content: Content]
Volume == {"default", "set"}

OutTypeOK ==
  /\ device \in {"none", "run", "writing"}
  /\ queued \in Seq(Queued)
  /\ released \in Seq(Buffers)
  /\ mixed \in Seq(Volume)
  /\ {event, started, streamOpen, stop} \subseteq BOOLEAN
  /\ volume \in Volume

OutInit ==
  /\ device = "none"
  /\ queued = <<>> /\ released = <<>> /\ mixed = <<>>
  /\ event = FALSE /\ volume = "default"
  /\ started = FALSE /\ streamOpen = FALSE /\ stop = FALSE

\* A fresh AudioOut, whose device thread runs, started.
OpenAndStart ==
  /\ device' = "run"
  /\ queued' = <<>> /\ released' = <<>> /\ mixed' = <<>>
  /\ event' = FALSE /\ volume' = "default"
  /\ started' = TRUE /\ streamOpen' = FALSE /\ stop' = FALSE

-----------------------------------------------------------------------------
(* The device side. *)

\* Take: mix the front buffer, or a silent period if nothing is queued.
Take(queue) ==
  IF queue = <<>>
  THEN /\ mixed' = Append(mixed, volume)
       /\ UNCHANGED <<queued, released, event>>
  ELSE /\ mixed' = Append(mixed, volume)
       /\ released' = Append(released, Head(queue).buffer)
       /\ queued' = Tail(queue)
       /\ event' = TRUE

DeviceWrite ==
  /\ device = "run" /\ mixed # <<>>
  /\ device' = "writing"
  /\ mixed' = Tail(mixed)
  /\ UNCHANGED <<queued, released, event, volume, started, streamOpen, stop>>

DeviceWritten ==
  /\ device = "writing"
  /\ device' = "run"
  /\ UNCHANGED <<queued, released, mixed, event, volume, started, streamOpen, stop>>

\* Mutant: the device leaves only once everything queued was taken.
DeviceDrainsFirst ==
  /\ device = "run" /\ mixed = <<>> /\ stop /\ queued = <<>>
  /\ device' = "none"
  /\ UNCHANGED <<queued, released, mixed, event, volume, started, streamOpen, stop>>

DeviceReturns ==
  /\ device = "run" /\ mixed = <<>> /\ stop
  /\ device' = "none"
  /\ UNCHANGED <<queued, released, mixed, event, volume, started, streamOpen, stop>>

TakeIsDue == device = "run" /\ mixed = <<>> /\ ~stop /\ streamOpen

DeviceTakes ==
  /\ TakeIsDue
  /\ Take(queued)
  /\ UNCHANGED <<device, volume, started, streamOpen, stop>>

Device == DeviceWrite \/ DeviceWritten \/ DeviceReturns \/ DeviceTakes

-----------------------------------------------------------------------------
(* The client side. *)

\* Append: the contents are read now; the first one after Start is taken at once.
AppendBuffer(b, content) ==
  LET queue == Append(queued, [buffer |-> b, content |-> content])
  IN  /\ IF started /\ ~streamOpen
         THEN streamOpen' = TRUE /\ Take(queue)
         ELSE /\ queued' = queue
              /\ UNCHANGED <<streamOpen, released, mixed, event>>
      /\ UNCHANGED <<device, volume, started, stop>>

\* GetReleased, when there is one.
GetReleased ==
  /\ released # <<>>
  /\ released' = Tail(released)
  /\ UNCHANGED <<device, queued, mixed, event, volume, started, streamOpen, stop>>

\* WaitEvent returns, and waiting has cleared the event.
WaitEvent ==
  /\ event \/ stop
  /\ event' = FALSE
  /\ UNCHANGED <<device, queued, released, mixed, volume, started, streamOpen, stop>>

SetVolume ==
  /\ volume' = "set"
  /\ UNCHANGED <<device, queued, released, mixed, event, started, streamOpen, stop>>

\* Stop, up to the join of the device thread.
RequestStop ==
  /\ stop' = TRUE
  /\ UNCHANGED <<device, queued, released, mixed, event, volume, started, streamOpen>>

=============================================================================
