---------------------------- MODULE ZnpLifecycle ----------------------------
(***************************************************************************)
(* The life of the ZNP client (pkg/znp/znp.go): Open and Close called from *)
(* any goroutine, the read loop that feeds the parser, the frame loop that *)
(* drains it, the two bounded channels between them (pkg/unpi/parser.go)   *)
(* and the goroutines of the device callbacks, which Close waits for too.  *)
(*                                                                         *)
(* What the port delivers is a sequence of items: a frame, a device event  *)
(* or a stretch of bytes the parser reports as an error.  Extraction of    *)
(* frames from bytes is not a matter of this module.                       *)
(***************************************************************************)
EXTENDS Naturals, Sequences, FiniteSets, SequencesExt

CONSTANTS
  Opens,      \* calls of Open; each runs once
  Closers,    \* calls of Close; each runs once
  NumItems,   \* the items on the line are 1 .. NumItems
  Kind,       \* what each item is
  MaxChunk,   \* the items that fit in the buffer of one Read
  Cap,        \* the capacity of each parser channel
  Nothing     \* what an idle frame loop has in hand

Items == 1 .. NumItems
Kinds == {"frame", "event", "error"}

ASSUME LifecycleAssumption ==
  /\ NumItems \in Nat /\ MaxChunk \in Nat \ {0} /\ Cap \in Nat \ {0}
  /\ Kind \in [Items -> Kinds]
  /\ Nothing \notin Items

VARIABLES
  isOpen,      \* the flag
  stopReader,  \* whether the channel stopReader is closed
  portOpen,    \* whether the port is
  panicked,    \* the program died: close of a closed channel
  opener,      \* how far each call of Open is
  closer,      \* how far each call of Close is
  reader,      \* the read loop each call of Open started
  framer,      \* the frame loop each call of Open started
  inHand,      \* the item a frame loop is working on
  numRead,     \* items 1 .. numRead were read from the port
  numFed,      \* and 1 .. numFed of them put into a channel by Feed
  frames,      \* the parser's channel of frames
  errors,      \* the parser's channel of errors
  callbacks,   \* the running goroutines of device callbacks
  handled,     \* the items the frame loops are done with, in their order
  slipped      \* history: a Close was through waiting before an Open that had
               \* set the flag had started both its loops

ctl == <<isOpen, stopReader, portOpen, panicked, opener, closer, slipped>>
data == <<numRead, numFed, frames, errors, callbacks, handled>>
vars == <<ctl, reader, framer, inHand, data>>

IsError(i) == Kind[i] = "error"
IsFrame(i) == ~IsError(i)

Dead == {"none", "exited"}
LoopLive(o) == reader[o] \notin Dead \/ framer[o] \notin Dead

\* Between the flag and the second loop, the wait group does not know of all of it.
Starting(o) == opener[o] \in {"flagged", "reading"}

\* z.wg: the loops that were added and have not ended, and the callbacks.
Idle == callbacks = {} /\ \A o \in Opens : ~LoopLive(o)

TypeOK ==
  /\ isOpen \in BOOLEAN /\ stopReader \in BOOLEAN
  /\ portOpen \in BOOLEAN /\ panicked \in BOOLEAN /\ slipped \in BOOLEAN
  /\ opener \in [Opens -> {"idle", "flagged", "reading", "returned"}]
  /\ closer \in [Closers -> {"idle", "flagged", "waiting", "drained", "returned"}]
  /\ reader \in [Opens -> Dead \cup {"top", "reading", "feeding", "backoff"}]
  /\ framer \in [Opens -> Dead \cup {"top", "handling"}]
  /\ inHand \in [Opens -> Items \cup {Nothing}]
  /\ numRead \in 0 .. NumItems /\ numFed \in 0 .. numRead
  /\ frames \in Seq(Items) /\ Len(frames) <= Cap
  /\ errors \in Seq(Items) /\ Len(errors) <= Cap
  /\ callbacks \subseteq Items
  /\ handled \in Seq(Items)

Init ==
  /\ isOpen = FALSE /\ stopReader = FALSE
  /\ portOpen = TRUE /\ panicked = FALSE /\ slipped = FALSE
  /\ opener = [o \in Opens |-> "idle"]
  /\ closer = [c \in Closers |-> "idle"]
  /\ reader = [o \in Opens |-> "none"]
  /\ framer = [o \in Opens |-> "none"]
  /\ inHand = [o \in Opens |-> Nothing]
  /\ numRead = 0 /\ numFed = 0
  /\ frames = <<>> /\ errors = <<>>
  /\ callbacks = {}
  /\ handled = <<>>

-----------------------------------------------------------------------------
(***************************************************************************)
(* Open.  The flag is set under the mutex; the loops are added to the wait *)
(* group and started after it was released.                                *)
(***************************************************************************)
OpenAt(o, from, to) == opener[o] = from /\ opener' = [opener EXCEPT ![o] = to]

\* The context was done, or the client is open already.
OpenNothing(o) ==
  /\ OpenAt(o, "idle", "returned")
  /\ UNCHANGED <<isOpen, stopReader, portOpen, panicked, closer, slipped, reader, framer,
                 inHand, data>>

\* An assumption on the callers: nobody opens the client while it is closing.
\* (The adapter holds its mutex through both calls.)
Admitted == \A c \in Closers : closer[c] \in {"idle", "returned"}

OpenFlag(o) ==
  /\ Admitted
  /\ ~isOpen
  /\ OpenAt(o, "idle", "flagged")
  /\ isOpen' = TRUE
  /\ UNCHANGED <<stopReader, portOpen, panicked, closer, slipped, reader, framer, inHand, data>>

StartReader(o) ==
  /\ OpenAt(o, "flagged", "reading")
  /\ reader' = [reader EXCEPT ![o] = "top"]
  /\ UNCHANGED <<isOpen, stopReader, portOpen, panicked, closer, slipped, framer, inHand, data>>

StartFramer(o) ==
  /\ OpenAt(o, "reading", "returned")
  /\ framer' = [framer EXCEPT ![o] = "top"]
  /\ UNCHANGED <<isOpen, stopReader, portOpen, panicked, closer, slipped, reader, inHand, data>>

-----------------------------------------------------------------------------
(***************************************************************************)
(* Close                                                                   *)
(***************************************************************************)
CloseAt(c, from, to) == closer[c] = from /\ closer' = [closer EXCEPT ![c] = to]

\* A client that is not open: return at once.
CloseNothing(c) ==
  /\ ~isOpen
  /\ CloseAt(c, "idle", "returned")
  /\ UNCHANGED <<isOpen, stopReader, portOpen, panicked, opener, slipped, reader, framer,
                 inHand, data>>

CloseFlag(c) ==
  /\ isOpen
  /\ CloseAt(c, "idle", "flagged")
  /\ isOpen' = FALSE
  /\ UNCHANGED <<stopReader, portOpen, panicked, opener, slipped, reader, framer, inHand, data>>

\* close(z.stopReader); closing a closed channel panics.
CloseStop(c) ==
  /\ CloseAt(c, "flagged", "waiting")
  /\ stopReader' = TRUE
  /\ panicked' = stopReader
  /\ UNCHANGED <<isOpen, portOpen, opener, slipped, reader, framer, inHand, data>>

\* z.wg.Wait()
CloseWait(c) ==
  /\ Idle
  /\ CloseAt(c, "waiting", "drained")
  /\ slipped' = (slipped \/ \E o \in Opens : Starting(o))
  /\ UNCHANGED <<isOpen, stopReader, portOpen, panicked, opener, reader, framer,
                 inHand, data>>

ClosePort(c) ==
  /\ CloseAt(c, "drained", "returned")
  /\ portOpen' = FALSE
  /\ UNCHANGED <<isOpen, stopReader, panicked, opener, slipped, reader, framer, inHand, data>>

-----------------------------------------------------------------------------
(***************************************************************************)
(* The read loop                                                           *)
(***************************************************************************)
ReadAt(o, from, to) == reader[o] = from /\ reader' = [reader EXCEPT ![o] = to]

ReaderTop(o) ==
  /\ ReadAt(o, "top", IF stopReader THEN "exited" ELSE "reading")
  /\ UNCHANGED <<ctl, framer, inHand, data>>

\* port.Read returns n items.  None at all is the read timeout, or a part of a
\* frame.
Read(o, n) ==
  /\ numRead + n <= NumItems
  /\ ReadAt(o, "reading", IF n = 0 THEN "top" ELSE "feeding")
  /\ numRead' = numRead + n
  /\ UNCHANGED <<ctl, framer, inHand, numFed, frames, errors, callbacks, handled>>

\* port.Read fails; the error goes to the handler and the loop waits.
ReadError(o) ==
  /\ ReadAt(o, "reading", "backoff")
  /\ UNCHANGED <<ctl, framer, inHand, data>>

\* Mutant: the stop signal is not seen while the port fails.
Backoff_Retries(o) ==
  /\ ReadAt(o, "backoff", "reading")
  /\ UNCHANGED <<ctl, framer, inHand, data>>

\* Stop, or go on after ten milliseconds; with both ready, either.
Backoff(o) ==
  /\ \/ ReadAt(o, "backoff", "top")
     \/ stopReader /\ ReadAt(o, "backoff", "exited")
  /\ UNCHANGED <<ctl, framer, inHand, data>>

\* Mutant: a frame that finds the channel full is dropped.
Feed_Drops(o) ==
  LET i == numFed + 1
  IN  /\ reader[o] = "feeding"
      /\ i <= numRead
      /\ numFed' = i
      /\ frames' = IF IsFrame(i) /\ Len(frames) < Cap THEN Append(frames, i) ELSE frames
      /\ errors' = IF IsError(i) /\ Len(errors) < Cap THEN Append(errors, i) ELSE errors
      /\ UNCHANGED <<ctl, reader, framer, inHand, numRead, callbacks, handled>>

\* Parser.Feed puts what it found into the channels, one by one, and blocks on
\* a full one.
Feed(o) ==
  LET i == numFed + 1
  IN  /\ reader[o] = "feeding"
      /\ i <= numRead
      /\ numFed' = i
      /\ \/ IsFrame(i) /\ Len(frames) < Cap /\ frames' = Append(frames, i) /\ UNCHANGED errors
         \/ IsError(i) /\ Len(errors) < Cap /\ errors' = Append(errors, i) /\ UNCHANGED frames
      /\ UNCHANGED <<ctl, reader, framer, inHand, numRead, callbacks, handled>>

FeedDone(o) ==
  /\ numFed = numRead
  /\ ReadAt(o, "feeding", "top")
  /\ UNCHANGED <<ctl, framer, inHand, data>>

-----------------------------------------------------------------------------
(***************************************************************************)
(* The frame loop                                                          *)
(***************************************************************************)
FramerStop(o) ==
  /\ stopReader
  /\ framer[o] = "top"
  /\ framer' = [framer EXCEPT ![o] = "exited"]
  /\ UNCHANGED <<ctl, reader, inHand, data>>

Take(o, i) ==
  /\ framer[o] = "top"
  /\ framer' = [framer EXCEPT ![o] = "handling"]
  /\ inHand' = [inHand EXCEPT ![o] = i]
  /\ UNCHANGED <<ctl, reader, numRead, numFed, callbacks, handled>>

TakeFrame(o) ==
  /\ frames # <<>>
  /\ Take(o, Head(frames))
  /\ frames' = Tail(frames)
  /\ UNCHANGED errors

\* Mutant: nobody drains the channel of errors.
TakeError_Never(o) == FALSE /\ Take(o, Nothing) /\ UNCHANGED <<frames, errors>>

TakeError(o) ==
  /\ errors # <<>>
  /\ Take(o, Head(errors))
  /\ errors' = Tail(errors)
  /\ UNCHANGED frames

\* Resolve, handleDeviceEvents and the handlers, which return.  The callback of
\* a device event gets a goroutine of its own.
Handle(o) ==
  /\ framer[o] = "handling"
  /\ framer' = [framer EXCEPT ![o] = "top"]
  /\ inHand' = [inHand EXCEPT ![o] = Nothing]
  /\ handled' = Append(handled, inHand[o])
  /\ callbacks' = IF Kind[inHand[o]] = "event" THEN callbacks \cup {inHand[o]} ELSE callbacks
  /\ UNCHANGED <<ctl, reader, numRead, numFed, frames, errors>>

\* The callback returns, or was skipped because the context of Open is done.
CallbackEnds(i) ==
  /\ i \in callbacks
  /\ callbacks' = callbacks \ {i}
  /\ UNCHANGED <<ctl, reader, framer, inHand, numRead, numFed, frames, errors, handled>>

-----------------------------------------------------------------------------
OpenStep(o) == OpenNothing(o) \/ OpenFlag(o) \/ StartReader(o) \/ StartFramer(o)
CloseStep(c) == CloseNothing(c) \/ CloseFlag(c) \/ CloseStop(c) \/ CloseWait(c) \/ ClosePort(c)
ReadStep(o) ==
  \/ ReaderTop(o) \/ ReadError(o) \/ Backoff(o) \/ Feed(o) \/ FeedDone(o)
  \/ \E n \in 0 .. MaxChunk : Read(o, n)
FrameStep(o) == FramerStop(o) \/ TakeFrame(o) \/ TakeError(o) \/ Handle(o)

Next ==
  /\ ~panicked
  /\ \/ \E o \in Opens : OpenStep(o) \/ ReadStep(o) \/ FrameStep(o)
     \/ \E c \in Closers : CloseStep(c)
     \/ \E i \in Items : CallbackEnds(i)

Spec == Init /\ [][Next]_vars

(***************************************************************************)
(* Goroutines that can go on do: the port has a read timeout, handlers     *)
(* return.  No call of Open or Close has to be made.                       *)
(***************************************************************************)
Fairness ==
  /\ \A o \in Opens :
       /\ WF_vars(~panicked /\ opener[o] # "idle" /\ OpenStep(o))
       /\ WF_vars(~panicked /\ ReadStep(o))
       /\ WF_vars(~panicked /\ FrameStep(o))
  /\ \A c \in Closers : WF_vars(~panicked /\ closer[c] # "idle" /\ CloseStep(c))
  /\ \A i \in Items : WF_vars(~panicked /\ CallbackEnds(i))

FairSpec == Spec /\ Fairness

-----------------------------------------------------------------------------
(***************************************************************************)
(* Properties                                                              *)
(***************************************************************************)
Handling(o) == framer[o] = "handling"

\* A frame is handled after those that were put into the channel before it, and
\* none is lost or handled twice on the way from Feed to the handlers: in order
\* are those the handlers saw, then the one in hand, then those in the channel.
\* That holds however often the client is opened and closed, as long as no Close
\* slips past an Open that is still starting its loops: the next Open would give
\* the channels a second frame loop.
Ascending(s) == \A j, k \in 1 .. Len(s) : j < k /\ IsFrame(s[j]) /\ IsFrame(s[k]) => s[j] < s[k]
Precedes(s, i) == \A j \in 1 .. Len(s) : IsFrame(s[j]) => s[j] < i
FramesKeepOrder ==
  ~slipped =>
    /\ Ascending(handled) /\ Ascending(frames)
    /\ \A k \in 1 .. Len(frames) : Precedes(handled, frames[k])
    /\ \A o \in Opens : Handling(o) /\ IsFrame(inHand[o]) =>
         /\ Precedes(handled, inHand[o])
         /\ \A k \in 1 .. Len(frames) : inHand[o] < frames[k]
         /\ \A p \in Opens : Handling(p) => p = o
    /\ \A i \in 1 .. numFed : IsFrame(i) =>
         \/ \E j \in 1 .. Len(handled) : handled[j] = i
         \/ \E o \in Opens : Handling(o) /\ inHand[o] = i
         \/ \E k \in 1 .. Len(frames) : frames[k] = i

\* What was read is handled, in the end, unless the client is closed.
EveryItemHandled ==
  \A i \in Items : numRead >= i ~> stopReader \/ i \in ToSet(handled)

\* The read loop is stuck in Feed: the channel it needs is full and the frame
\* loops that would drain it have exited.
Stuck ==
  /\ \A o \in Opens : framer[o] \in Dead
  /\ \E o \in Opens : reader[o] = "feeding"
  /\ Cap \in {Len(frames), Len(errors)}

\* Close returns unless the read loop got stuck that way (or the program died).
CloseReturnsUnlessStuck ==
  \A c \in Closers : closer[c] # "idle" ~> closer[c] = "returned" \/ Stuck \/ panicked

=============================================================================
