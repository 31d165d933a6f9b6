----------------------------- MODULE ClientProofs -----------------------------
(***************************************************************************)
(* Proofs about the ZNP client: its life, for every number of calls of     *)
(* Open and Close, every line of items and every capacity of the channels; *)
(* and the ZDO exchanges over it, for every network, number of callers,    *)
(* plan of each, page size and number of faults.                           *)
(***************************************************************************)
EXTENDS ZnpLifecycle, ZdoExchange, SequenceTheorems, WellFoundedInduction, TLAPS

-----------------------------------------------------------------------------
(***************************************************************************)
(* The life of the client                                                  *)
(***************************************************************************)
\* A call of Open that is not through has not started its frame loop.
FramersFollow == \A o \in Opens : opener[o] # "returned" => framer[o] = "none"

\* The wait group's promise: one call of Close is at work at a time and keeps
\* every Open out, and after its wait nothing of an earlier Open is left, so
\* that the next Open is alone with its loops.
AtWork(o) == Starting(o) \/ LoopLive(o)
Closing(c) == closer[c] \in {"flagged", "waiting", "drained"}
OneCloser == \A c \in Closers : Closing(c) => ~isOpen /\ \A d \in Closers : Closing(d) => d = c
Waited == ~isOpen /\ \A c \in Closers : closer[c] \notin {"flagged", "waiting"}
OneOpen ==
  ~slipped =>
    /\ \A o, p \in Opens : AtWork(o) /\ AtWork(p) => o = p
    /\ Waited => \A o \in Opens : ~AtWork(o)

\* What is on the way was fed, and each channel holds what it is for.
FedBefore ==
  /\ \A k \in 1 .. Len(frames) : IsFrame(frames[k]) /\ frames[k] <= numFed
  /\ \A k \in 1 .. Len(errors) : IsError(errors[k])
  /\ \A j \in 1 .. Len(handled) : IsFrame(handled[j]) => handled[j] <= numFed
  /\ \A o \in Opens : Handling(o) =>
       inHand[o] \in Items /\ (IsFrame(inHand[o]) => inHand[o] <= numFed)

LoopsInv == FramersFollow /\ OneCloser /\ OneOpen
IInv == TypeOK /\ LoopsInv /\ FedBefore /\ FramesKeepOrder

-----------------------------------------------------------------------------
\* The client starts with nothing open, nothing read and nothing handled.
LEMMA InitIInv == Init => IInv
  <1> SUFFICES ASSUME Init PROVE IInv
    OBVIOUS
  <1>1. TypeOK
    <2>1. Nothing \in Items \cup {Nothing} /\ <<>> \in Seq(Items) /\ Len(<<>>) <= Cap
      BY LifecycleAssumption
    <2>2. numRead \in 0 .. NumItems /\ numFed \in 0 .. numRead
      BY LifecycleAssumption DEF Init
    <2> QED BY <2>1, <2>2 DEF Init, TypeOK, Dead
  <1>2. LoopsInv
    BY DEF Init, LoopsInv, FramersFollow, OneCloser, OneOpen, AtWork, Starting, LoopLive, Dead, Closing
  <1>3. FedBefore /\ FramesKeepOrder
    BY DEF Init, FedBefore, FramesKeepOrder, Handling, Ascending, Precedes, Items
  <1> QED BY <1>1, <1>2, <1>3 DEF IInv

-----------------------------------------------------------------------------
\* Appending to a sequence of items, and taking the first one from it.
LEMMA Appended ==
  ASSUME NEW s \in Seq(Items), NEW i \in Items, NEW t, t = Append(s, i)
  PROVE  /\ t \in Seq(Items) /\ Len(s) \in Nat /\ Len(t) = Len(s) + 1
         /\ \A k \in 1 .. Len(s) : k \in 1 .. Len(t) /\ t[k] = s[k]
         /\ \A k \in 1 .. Len(t) : k \in 1 .. Len(s) \/ k = Len(t)
         /\ Len(t) \in 1 .. Len(t) /\ t[Len(t)] = i
  OBVIOUS

LEMMA Taken ==
  ASSUME NEW s \in Seq(Items), s # <<>>
  PROVE  /\ Tail(s) \in Seq(Items) /\ Len(Tail(s)) = Len(s) - 1
         /\ Head(s) \in Items /\ Head(s) = s[1] /\ Len(s) \in Nat /\ Len(s) >= 1
         /\ \A k \in 1 .. Len(Tail(s)) : Tail(s)[k] = s[k + 1]
  OBVIOUS

-----------------------------------------------------------------------------
(***************************************************************************)
(* Types                                                                   *)
(***************************************************************************)
LEMMA OpenType ==
  ASSUME TypeOK, NEW o \in Opens, OpenStep(o)
  PROVE  TypeOK'
  BY DEF TypeOK, OpenStep, OpenNothing, OpenFlag, StartReader, StartFramer, OpenAt, Dead, data

LEMMA CloseType ==
  ASSUME TypeOK, NEW c \in Closers, CloseStep(c)
  PROVE  TypeOK'
  <1> USE DEF CloseAt, data
  <1>1. CASE CloseNothing(c) BY <1>1 DEF TypeOK, CloseNothing
  <1>2. CASE CloseFlag(c) BY <1>2 DEF TypeOK, CloseFlag
  <1>3. CASE CloseStop(c) BY <1>3 DEF TypeOK, CloseStop
  <1>4. CASE CloseWait(c) BY <1>4 DEF TypeOK, CloseWait
  <1>5. CASE ClosePort(c) BY <1>5 DEF TypeOK, ClosePort
  <1> QED BY <1>1, <1>2, <1>3, <1>4, <1>5 DEF CloseStep

LEMMA ReadType ==
  ASSUME TypeOK, NEW o \in Opens, ReadStep(o)
  PROVE  TypeOK'
  <1> USE LifecycleAssumption DEF ReadAt, ctl, data, Dead
  <1>1. CASE ReaderTop(o) BY <1>1 DEF TypeOK, ReaderTop
  <1>2. CASE ReadError(o) BY <1>2 DEF TypeOK, ReadError
  <1>3. CASE Backoff(o) BY <1>3 DEF TypeOK, Backoff
  <1>4. CASE Feed(o)
    <2> DEFINE i == numFed + 1
    <2>1. i \in Items /\ numFed' = i /\ i <= numRead /\ numRead' = numRead
      BY <1>4 DEF TypeOK, Feed, Items
    <2>2. frames' \in Seq(Items) /\ Len(frames') <= Cap /\ errors' \in Seq(Items) /\ Len(errors') <= Cap
      <3>1. /\ frames \in Seq(Items) /\ Len(frames) \in Nat /\ Len(frames) <= Cap
            /\ errors \in Seq(Items) /\ Len(errors) \in Nat /\ Len(errors) <= Cap
        BY DEF TypeOK
      <3> HIDE DEF i
      <3>2. \A q \in {frames, errors} : Len(q) < Cap => Append(q, i) \in Seq(Items) /\ Len(Append(q, i)) <= Cap
        BY <2>1, <3>1, Appended
      <3>3. \/ Len(frames) < Cap /\ frames' = Append(frames, i) /\ errors' = errors
            \/ Len(errors) < Cap /\ errors' = Append(errors, i) /\ frames' = frames
        BY <1>4 DEF Feed, i
      <3>4. CASE Len(frames) < Cap /\ frames' = Append(frames, i) /\ errors' = errors
        BY <3>1, <3>2, <3>4, Zenon
      <3>5. CASE Len(errors) < Cap /\ errors' = Append(errors, i) /\ frames' = frames
        BY <3>1, <3>2, <3>5, Zenon
      <3> QED BY <3>3, <3>4, <3>5
    <2>3. numRead' \in 0 .. NumItems /\ numFed' \in 0 .. numRead'
      BY <2>1 DEF TypeOK, Items
    <2> QED BY <1>4, <2>2, <2>3 DEF TypeOK, Feed
  <1>5. CASE FeedDone(o) BY <1>5 DEF TypeOK, FeedDone
  <1>6. ASSUME NEW n \in 0 .. MaxChunk, Read(o, n) PROVE TypeOK'
    BY <1>6 DEF TypeOK, Read, Items
  <1> QED BY <1>1, <1>2, <1>3, <1>4, <1>5, <1>6 DEF ReadStep

LEMMA FrameType ==
  ASSUME TypeOK, FedBefore, NEW o \in Opens, FrameStep(o)
  PROVE  TypeOK'
  <1> USE DEF ctl, data, Dead
  <1>1. CASE FramerStop(o) BY <1>1 DEF TypeOK, FramerStop
  <1>2. CASE TakeFrame(o) BY <1>2, Taken, LifecycleAssumption DEF TypeOK, TakeFrame, Take
  <1>3. CASE TakeError(o) BY <1>3, Taken, LifecycleAssumption DEF TypeOK, TakeError, Take
  <1>4. CASE Handle(o)
    <2>1. inHand[o] \in Items
      BY <1>4 DEF FedBefore, Handling, Handle
    <2>2. handled' \in Seq(Items)
      BY <1>4, <2>1, Appended DEF TypeOK, Handle
    <2> QED BY <1>4, <2>1, <2>2 DEF TypeOK, Handle
  <1> QED BY <1>1, <1>2, <1>3, <1>4 DEF FrameStep

LEMMA CallbackType ==
  ASSUME TypeOK, NEW i \in Items, CallbackEnds(i)
  PROVE  TypeOK'
  BY DEF TypeOK, CallbackEnds, ctl

-----------------------------------------------------------------------------
(***************************************************************************)
(* The loops of one Open at a time                                         *)
(***************************************************************************)
LEMMA OpenLoops ==
  ASSUME TypeOK, LoopsInv, NEW o \in Opens, OpenStep(o)
  PROVE  LoopsInv'
  <1> USE DEF TypeOK, LoopsInv, OpenAt, data
  <1>1. FramersFollow'
    BY DEF FramersFollow, OpenStep, OpenNothing, OpenFlag, StartReader, StartFramer
  <1>2. OneCloser'
    BY DEF OneCloser, Closing, Admitted, OpenStep, OpenNothing, OpenFlag, StartReader, StartFramer
  <1>3. OneOpen'
    <2> USE DEF OneOpen, AtWork, Starting, LoopLive, Dead, Waited
    <2>1. CASE OpenNothing(o) BY <2>1 DEF OpenNothing
    <2>2. CASE OpenFlag(o) BY <2>2 DEF OpenFlag, Admitted
    <2>3. CASE StartReader(o) BY <2>3 DEF StartReader
    <2>4. CASE StartFramer(o) BY <2>4 DEF StartFramer
    <2> QED BY <2>1, <2>2, <2>3, <2>4 DEF OpenStep
  <1> QED BY <1>1, <1>2, <1>3

LEMMA CloseLoops ==
  ASSUME TypeOK, LoopsInv, NEW c \in Closers, CloseStep(c)
  PROVE  LoopsInv'
  <1> USE DEF TypeOK, LoopsInv, CloseAt, data
  <1>1. FramersFollow'
    BY DEF FramersFollow, CloseStep, CloseNothing, CloseFlag, CloseStop, CloseWait, ClosePort
  <1>2. OneCloser'
    BY DEF OneCloser, Closing, CloseStep, CloseNothing, CloseFlag, CloseStop, CloseWait, ClosePort
  <1>3. OneOpen'
    <2> USE DEF OneOpen, AtWork, Starting, LoopLive, Waited
    <2>1. CASE CloseNothing(c) BY <2>1 DEF CloseNothing
    <2>2. CASE CloseFlag(c) BY <2>2 DEF CloseFlag
    <2>3. CASE CloseStop(c) BY <2>3 DEF CloseStop
    <2>4. CASE CloseWait(c) BY <2>4 DEF CloseWait, Idle
    <2>5. CASE ClosePort(c) BY <2>5 DEF ClosePort
    <2> QED BY <2>1, <2>2, <2>3, <2>4, <2>5 DEF CloseStep
  <1> QED BY <1>1, <1>2, <1>3

\* What changes nothing but loops that are already live keeps the promise.
LEMMA LiveLoops ==
  ASSUME LoopsInv, UNCHANGED ctl,
         \A o \in Opens : LoopLive(o)' => LoopLive(o),
         \A o \in Opens : framer[o] = "none" => framer'[o] = "none"
  PROVE  LoopsInv'
  BY DEF LoopsInv, ctl, FramersFollow, OneCloser, Closing, OneOpen, AtWork, Starting, Waited

LEMMA WorkLoops ==
  ASSUME TypeOK, LoopsInv, NEW o \in Opens, ReadStep(o) \/ FrameStep(o)
  PROVE  LoopsInv'
  <1>1. UNCHANGED ctl
    BY DEF ReadStep, FrameStep, ReaderTop, ReadError, Backoff, Feed, FeedDone, Read,
           FramerStop, TakeFrame, TakeError, Take, Handle, ctl
  <1>2. \A p \in Opens : LoopLive(p)' => LoopLive(p)
    BY DEF TypeOK, LoopLive, Dead, ReadAt, ReadStep, FrameStep, ReaderTop, ReadError, Backoff, Feed, FeedDone, Read,
           FramerStop, TakeFrame, TakeError, Take, Handle
  <1>3. \A p \in Opens : framer[p] = "none" => framer'[p] = "none"
    BY DEF TypeOK, Dead, ReadStep, FrameStep, ReaderTop, ReadError, Backoff, Feed, FeedDone, Read,
           FramerStop, TakeFrame, TakeError, Take, Handle
  <1> QED BY <1>1, <1>2, <1>3, LiveLoops

-----------------------------------------------------------------------------
(***************************************************************************)
(* The way of an item                                                      *)
(***************************************************************************)
\* What moves no item keeps the order.
LEMMA NothingMoves ==
  ASSUME FedBefore, FramesKeepOrder,
         UNCHANGED <<numFed, frames, errors, handled, inHand>>,
         \A o \in Opens : Handling(o)' <=> Handling(o),
         slipped => slipped'
  PROVE  FedBefore' /\ FramesKeepOrder'
  <1>1. FedBefore'
    BY DEF FedBefore, IsFrame, IsError
  <1>2. FramesKeepOrder'
    <2>1. SUFFICES ASSUME ~slipped' PROVE FramesKeepOrder'
      BY DEF FramesKeepOrder
    <2>2. ~slipped
      BY <2>1
    <2>3. (Ascending(handled) /\ Ascending(frames))'
      BY <2>2 DEF FramesKeepOrder, Ascending, IsFrame, IsError
    <2>4. \A k \in 1 .. Len(frames') : Precedes(handled, frames[k])'
      BY <2>2 DEF FramesKeepOrder, Precedes, IsFrame, IsError
    <2>5. \A o \in Opens : Handling(o)' /\ IsFrame(inHand[o])' =>
             /\ Precedes(handled, inHand[o])'
             /\ \A k \in 1 .. Len(frames') : inHand'[o] < frames'[k]
             /\ \A p \in Opens : Handling(p)' => p = o
      BY <2>2 DEF FramesKeepOrder, Precedes, IsFrame, IsError
    <2>6. \A i \in 1 .. numFed' : IsFrame(i) =>
             \/ \E j \in 1 .. Len(handled') : handled'[j] = i
             \/ \E o \in Opens : Handling(o)' /\ inHand'[o] = i
             \/ \E k \in 1 .. Len(frames') : frames'[k] = i
      BY <2>2 DEF FramesKeepOrder, IsFrame, IsError
    <2> QED BY <2>3, <2>4, <2>5, <2>6 DEF FramesKeepOrder
  <1> QED BY <1>1, <1>2

\* A frame that is in hand is in the one hand there is.
LEMMA OneHand ==
  ASSUME LoopsInv, ~slipped, NEW o \in Opens, framer[o] \notin Dead, NEW p \in Opens, framer[p] \notin Dead
  PROVE  p = o
  BY DEF LoopsInv, OneOpen, AtWork, LoopLive

LEMMA FeedOrder ==
  ASSUME IInv, NEW o \in Opens, Feed(o)
  PROVE  FedBefore' /\ FramesKeepOrder'
  <1> DEFINE i == numFed + 1
  <1>1. /\ i \in Items /\ numFed' = i /\ numFed \in Nat /\ i > numFed
        /\ UNCHANGED <<framer, inHand, handled, slipped>>
    BY LifecycleAssumption DEF IInv, TypeOK, Feed, Items, ctl
  <1>2. /\ frames \in Seq(Items) /\ errors \in Seq(Items) /\ handled \in Seq(Items)
        /\ Len(frames) \in Nat /\ Len(errors) \in Nat /\ Len(handled) \in Nat
        /\ \A k \in 1 .. Len(frames) : frames[k] \in Nat
        /\ \A j \in 1 .. Len(handled) : handled[j] \in Nat
        /\ \A p \in Opens : Handling(p) => inHand[p] \in Nat
    BY LifecycleAssumption DEF IInv, TypeOK, FedBefore, Items
  <1> DEFINE Grows(q) == /\ Len(q') = Len(q) + 1 /\ q'[Len(q')] = i
                         /\ \A k \in 1 .. Len(q) : k \in 1 .. Len(q') /\ q'[k] = q[k]
                         /\ \A k \in 1 .. Len(q') : k \in 1 .. Len(q) \/ k = Len(q')
  <1>3. \/ IsFrame(i) /\ errors' = errors /\ Grows(frames)
        \/ IsError(i) /\ frames' = frames /\ Grows(errors)
    <2>1. CASE IsFrame(i) /\ frames' = Append(frames, i) /\ errors' = errors
      BY <1>1, <1>2, <2>1, Appended
    <2>2. CASE IsError(i) /\ errors' = Append(errors, i) /\ frames' = frames
      BY <1>1, <1>2, <2>2, Appended
    <2> QED BY <2>1, <2>2 DEF Feed
  <1> HIDE DEF i
  <1> USE DEF Handling
  <1>4. FedBefore'
    <2>0. /\ \A k \in 1 .. Len(frames) : IsFrame(frames[k]) /\ frames[k] <= numFed
          /\ \A k \in 1 .. Len(errors) : IsError(errors[k])
      BY DEF IInv, FedBefore
    <2>1. \A k \in 1 .. Len(frames') : IsFrame(frames'[k]) /\ frames'[k] <= numFed'
      BY <1>1, <1>2, <1>3, <2>0 DEF i
    <2>2. \A k \in 1 .. Len(errors') : IsError(errors'[k])
      <3>1. CASE errors' = errors BY <2>0, <3>1
      <3>2. CASE IsError(i) /\ Grows(errors) BY <2>0, <3>2
      <3> QED BY <1>3, <3>1, <3>2
    <2>3. \A j \in 1 .. Len(handled') : IsFrame(handled'[j]) => handled'[j] <= numFed'
      BY <1>1, <1>2 DEF IInv, FedBefore, i
    <2>4. \A p \in Opens : Handling(p)' => inHand'[p] \in Items /\ (IsFrame(inHand'[p]) => inHand'[p] <= numFed')
      BY <1>1, <1>2 DEF IInv, FedBefore, i
    <2> QED BY <2>1, <2>2, <2>3, <2>4 DEF FedBefore, IsFrame, IsError
  <1>5. ASSUME ~slipped, IsFrame(i), Grows(frames) PROVE FramesKeepOrder'
    <2> USE <1>5
    <2>0. /\ Ascending(handled) /\ Ascending(frames)
          /\ \A k \in 1 .. Len(frames) : frames[k] < i /\ Precedes(handled, frames[k])
          /\ \A j \in 1 .. Len(handled) : IsFrame(handled[j]) => handled[j] < i
          /\ \A p \in Opens : Handling(p) /\ IsFrame(inHand[p]) =>
               /\ inHand[p] < i /\ Precedes(handled, inHand[p])
               /\ \A k \in 1 .. Len(frames) : inHand[p] < frames[k]
               /\ \A q \in Opens : Handling(q) => q = p
      BY <1>1, <1>2 DEF IInv, FedBefore, FramesKeepOrder, i
    <2>1. Ascending(handled)'
      BY <1>1, <2>0 DEF Ascending, IsFrame, IsError
    <2>2. Ascending(frames)'
      <3>1. \A j, k \in 1 .. Len(frames') : j < k => j \in 1 .. Len(frames)
        BY <1>2
      <3>2. \A j, k \in 1 .. Len(frames) : j < k /\ IsFrame(frames[j]) /\ IsFrame(frames[k]) => frames[j] < frames[k]
        BY <2>0 DEF Ascending
      <3>3. \A j, k \in 1 .. Len(frames') : j < k /\ IsFrame(frames'[j]) /\ IsFrame(frames'[k]) => frames'[j] < frames'[k]
        BY <2>0, <3>1, <3>2
      <3> QED BY <3>3 DEF Ascending, IsFrame, IsError
    <2>3. \A k \in 1 .. Len(frames') : Precedes(handled, frames[k])'
      <3>1. \A k \in 1 .. Len(frames'), j \in 1 .. Len(handled) : IsFrame(handled[j]) => handled[j] < frames'[k]
        BY <2>0 DEF Precedes
      <3> QED BY <1>1, <3>1 DEF Precedes, IsFrame, IsError
    <2>5. \A p \in Opens : Handling(p)' /\ IsFrame(inHand[p])' =>
             /\ Precedes(handled, inHand[p])'
             /\ \A k \in 1 .. Len(frames') : inHand'[p] < frames'[k]
             /\ \A q \in Opens : Handling(q)' => q = p
      <3>1. \A p \in Opens : Handling(p) /\ IsFrame(inHand[p]) => \A k \in 1 .. Len(frames') : inHand[p] < frames'[k]
        BY <2>0
      <3> QED BY <1>1, <2>0, <3>1 DEF Precedes, IsFrame, IsError
    <2>4. \A n \in 1 .. numFed' : IsFrame(n) =>
             \/ \E j \in 1 .. Len(handled') : handled'[j] = n
             \/ \E p \in Opens : Handling(p)' /\ inHand'[p] = n
             \/ \E k \in 1 .. Len(frames') : frames'[k] = n
      BY <1>1, <1>2, <1>3 DEF IInv, FramesKeepOrder, i
    <2> QED BY <2>1, <2>2, <2>3, <2>4, <2>5 DEF FramesKeepOrder, IsFrame, IsError
  <1>6. ASSUME ~slipped, IsError(i), frames' = frames PROVE FramesKeepOrder'
    <2> USE <1>6
    <2>1. \A n \in 1 .. numFed' : IsFrame(n) => n \in 1 .. numFed
      BY <1>1 DEF IsFrame, i
    <2> QED BY <1>1, <2>1 DEF IInv, FramesKeepOrder, Ascending, Precedes, IsFrame, IsError
  <1> QED BY <1>1, <1>3, <1>4, <1>5, <1>6 DEF FramesKeepOrder

LEMMA TakeFrameOrder ==
  ASSUME IInv, NEW o \in Opens, TakeFrame(o)
  PROVE  FedBefore' /\ FramesKeepOrder'
  <1>1. /\ frames \in Seq(Items) /\ frames # <<>> /\ handled \in Seq(Items)
        /\ framer[o] = "top" /\ framer \in [Opens -> Dead \cup {"top", "handling"}]
        /\ inHand \in [Opens -> Items \cup {Nothing}]
        /\ framer' = [framer EXCEPT ![o] = "handling"] /\ inHand' = [inHand EXCEPT ![o] = Head(frames)]
        /\ frames' = Tail(frames) /\ UNCHANGED <<numFed, errors, handled, slipped>>
    BY DEF IInv, TypeOK, TakeFrame, Take, ctl
  <1>2. /\ Len(frames') = Len(frames) - 1 /\ Head(frames) = frames[1] /\ Len(frames) \in Nat /\ Len(frames) >= 1
        /\ \A k \in 1 .. Len(frames') : frames'[k] = frames[k + 1] /\ k + 1 \in 1 .. Len(frames)
        /\ Head(frames) \in Items
    BY <1>1, Taken
  <1>3. /\ Handling(o)' /\ inHand'[o] = frames[1] /\ ~Handling(o)
        /\ \A p \in Opens \ {o} : (Handling(p)' <=> Handling(p)) /\ inHand'[p] = inHand[p]
    BY <1>1, <1>2 DEF Handling
  <1>4. FedBefore'
    <2>1. \A k \in 1 .. Len(frames') : IsFrame(frames'[k]) /\ frames'[k] <= numFed
      BY <1>2 DEF IInv, FedBefore
    <2>2. \A p \in Opens : Handling(p)' => inHand'[p] \in Items /\ (IsFrame(inHand'[p]) => inHand'[p] <= numFed)
      BY <1>2, <1>3 DEF IInv, FedBefore
    <2> QED BY <1>1, <2>1, <2>2 DEF IInv, FedBefore, IsFrame, IsError
  <1>5. ASSUME ~slipped PROVE FramesKeepOrder'
    <2>1. \A p \in Opens : Handling(p)' => p = o
      BY <1>1, <1>3, <1>5, OneHand DEF Handling, IInv, Dead
    <2>2. \A p \in Opens : ~Handling(p)
      BY <1>3, <2>1
    <2>3. /\ Ascending(handled) /\ Ascending(frames) /\ \A k \in 1 .. Len(frames) : Precedes(handled, frames[k]) /\ IsFrame(frames[k])
      BY <1>5 DEF IInv, FramesKeepOrder, FedBefore
    <2>4. Ascending(handled)' /\ Ascending(frames)'
      BY <1>1, <1>2, <2>3 DEF Ascending, IsFrame, IsError
    <2>5. \A k \in 1 .. Len(frames') : Precedes(handled, frames[k])'
      BY <1>1, <1>2, <2>3 DEF Precedes, IsFrame, IsError
    <2>6. Precedes(handled, inHand[o])' /\ \A k \in 1 .. Len(frames') : inHand'[o] < frames'[k]
      BY <1>1, <1>2, <1>3, <2>3 DEF Precedes, Ascending, IsFrame, IsError
    <2>7. \A n \in 1 .. numFed : IsFrame(n) =>
             \/ \E j \in 1 .. Len(handled) : handled[j] = n
             \/ \E k \in 1 .. Len(frames) : frames[k] = n
      BY <1>5, <2>2 DEF IInv, FramesKeepOrder
    <2>8. ASSUME NEW k \in 1 .. Len(frames), k # 1 PROVE \E m \in 1 .. Len(frames') : frames'[m] = frames[k]
      <3>1. k - 1 \in 1 .. Len(frames') /\ (k - 1) + 1 = k
        BY <1>2, <2>8
      <3> QED BY <1>2, <3>1
    <2>9. \A n \in 1 .. numFed' : IsFrame(n) =>
             \/ \E j \in 1 .. Len(handled') : handled'[j] = n
             \/ \E p \in Opens : Handling(p)' /\ inHand'[p] = n
             \/ \E k \in 1 .. Len(frames') : frames'[k] = n
      BY <1>1, <1>2, <1>3, <2>7, <2>8
    <2> QED BY <2>1, <2>4, <2>5, <2>6, <2>9 DEF FramesKeepOrder, IsFrame, IsError
  <1> QED BY <1>1, <1>4, <1>5 DEF FramesKeepOrder

LEMMA TakeErrorOrder ==
  ASSUME IInv, NEW o \in Opens, TakeError(o)
  PROVE  FedBefore' /\ FramesKeepOrder'
  <1>1. /\ errors \in Seq(Items) /\ errors # <<>>
        /\ framer[o] = "top" /\ framer \in [Opens -> Dead \cup {"top", "handling"}]
        /\ inHand \in [Opens -> Items \cup {Nothing}]
        /\ framer' = [framer EXCEPT ![o] = "handling"] /\ inHand' = [inHand EXCEPT ![o] = Head(errors)]
        /\ errors' = Tail(errors) /\ UNCHANGED <<numFed, frames, handled, slipped>>
    BY DEF IInv, TypeOK, TakeError, Take, ctl
  <1>2. /\ Len(errors') = Len(errors) - 1 /\ Head(errors) = errors[1] /\ Len(errors) \in Nat /\ Len(errors) >= 1
        /\ \A k \in 1 .. Len(errors') : errors'[k] = errors[k + 1] /\ k + 1 \in 1 .. Len(errors)
        /\ Head(errors) \in Items
    BY <1>1, Taken
  <1>3. /\ Handling(o)' /\ inHand'[o] = errors[1] /\ ~Handling(o) /\ IsError(errors[1])
        /\ \A p \in Opens \ {o} : (Handling(p)' <=> Handling(p)) /\ inHand'[p] = inHand[p]
    BY <1>1, <1>2 DEF Handling, IInv, FedBefore
  <1>4. FedBefore'
    <2>1. \A k \in 1 .. Len(errors') : IsError(errors'[k])
      BY <1>2 DEF IInv, FedBefore
    <2>2. \A p \in Opens : Handling(p)' => inHand'[p] \in Items /\ (IsFrame(inHand'[p]) => inHand'[p] <= numFed)
      BY <1>2, <1>3 DEF IInv, FedBefore, IsFrame
    <2> QED BY <1>1, <2>1, <2>2 DEF IInv, FedBefore, IsFrame, IsError
  <1>5. ASSUME ~slipped PROVE FramesKeepOrder'
    <2>1. \A p \in Opens : Handling(p)' => p = o
      BY <1>1, <1>3, <1>5, OneHand DEF Handling, IInv, Dead
    <2>2. \A p \in Opens : ~Handling(p) /\ ~(Handling(p)' /\ IsFrame(inHand'[p]))
      BY <1>3, <2>1 DEF IsFrame
    <2>3. \A n \in 1 .. numFed : IsFrame(n) =>
             \/ \E j \in 1 .. Len(handled) : handled[j] = n
             \/ \E k \in 1 .. Len(frames) : frames[k] = n
      BY <1>5, <2>2 DEF IInv, FramesKeepOrder
    <2>4. /\ Ascending(handled)' /\ Ascending(frames)'
          /\ \A k \in 1 .. Len(frames') : Precedes(handled, frames[k])'
      BY <1>1, <1>5 DEF IInv, FramesKeepOrder, Ascending, Precedes, IsFrame, IsError
    <2> QED BY <1>1, <2>2, <2>3, <2>4 DEF FramesKeepOrder, IsFrame, IsError
  <1> QED BY <1>1, <1>4, <1>5 DEF FramesKeepOrder

LEMMA HandleOrder ==
  ASSUME IInv, NEW o \in Opens, Handle(o)
  PROVE  FedBefore' /\ FramesKeepOrder'
  <1> DEFINE i == inHand[o]
  <1>1. /\ handled \in Seq(Items) /\ i \in Items /\ handled' = Append(handled, i)
        /\ framer[o] = "handling" /\ framer \in [Opens -> Dead \cup {"top", "handling"}]
        /\ inHand \in [Opens -> Items \cup {Nothing}]
        /\ framer' = [framer EXCEPT ![o] = "top"] /\ inHand' = [inHand EXCEPT ![o] = Nothing]
        /\ UNCHANGED <<numFed, frames, errors, slipped>>
        /\ Handling(o)
    BY DEF IInv, TypeOK, Handle, FedBefore, Handling, ctl
  <1>2. /\ Len(handled) \in Nat /\ Len(handled') = Len(handled) + 1 /\ handled'[Len(handled')] = i
        /\ \A j \in 1 .. Len(handled) : j \in 1 .. Len(handled') /\ handled'[j] = handled[j]
        /\ \A j \in 1 .. Len(handled') : j \in 1 .. Len(handled) \/ j = Len(handled')
        /\ Len(handled') \in 1 .. Len(handled')
    BY <1>1, Appended
  <1>3. \A p \in Opens : (Handling(p)' <=> Handling(p) /\ p # o) /\ (p # o => inHand'[p] = inHand[p])
    BY <1>1 DEF Handling
  <1>4. FedBefore'
    <2>1. \A j \in 1 .. Len(handled') : IsFrame(handled'[j]) => handled'[j] <= numFed
      BY <1>1, <1>2 DEF IInv, FedBefore
    <2>2. \A p \in Opens : Handling(p)' => inHand'[p] \in Items /\ (IsFrame(inHand'[p]) => inHand'[p] <= numFed)
      BY <1>3 DEF IInv, FedBefore
    <2> QED BY <1>1, <2>1, <2>2 DEF IInv, FedBefore, IsFrame, IsError
  <1>5. ASSUME ~slipped PROVE FramesKeepOrder'
    <2>1. \A p \in Opens : Handling(p) => p = o
      BY <1>1, <1>5, OneHand DEF Handling, IInv, Dead
    <2>2. \A p \in Opens : ~Handling(p)'
      BY <1>3, <2>1
    <2>3. /\ Ascending(handled) /\ Ascending(frames)
          /\ \A k \in 1 .. Len(frames) : Precedes(handled, frames[k])
          /\ IsFrame(i) => Precedes(handled, i) /\ \A k \in 1 .. Len(frames) : i < frames[k]
      BY <1>1, <1>5 DEF IInv, FramesKeepOrder
    <2> HIDE DEF i
    <2>4. Ascending(handled)'
      <3>1. \A j, k \in 1 .. Len(handled') : j < k => j \in 1 .. Len(handled)
        BY <1>2
      <3>2. \A j, k \in 1 .. Len(handled) : j < k /\ IsFrame(handled[j]) /\ IsFrame(handled[k]) => handled[j] < handled[k]
        BY <2>3 DEF Ascending
      <3>3. \A j \in 1 .. Len(handled) : IsFrame(handled[j]) /\ IsFrame(i) => handled[j] < i
        BY <2>3 DEF Precedes
      <3>4. \A j, k \in 1 .. Len(handled') : j < k /\ IsFrame(handled'[j]) /\ IsFrame(handled'[k]) => handled'[j] < handled'[k]
        BY <1>2, <3>1, <3>2, <3>3
      <3> QED BY <3>4 DEF Ascending, IsFrame, IsError
    <2>5. \A k \in 1 .. Len(frames') : Precedes(handled, frames[k])'
      <3>1. \A k \in 1 .. Len(frames), j \in 1 .. Len(handled) : IsFrame(handled[j]) => handled[j] < frames[k]
        BY <2>3 DEF Precedes
      <3>2. \A k \in 1 .. Len(frames), j \in 1 .. Len(handled') : IsFrame(handled'[j]) => handled'[j] < frames[k]
        BY <1>2, <2>3, <3>1
      <3> QED BY <1>1, <3>2 DEF Precedes, IsFrame, IsError
    <2>6. Ascending(frames)'
      BY <1>1, <2>3 DEF Ascending, IsFrame, IsError
    <2>7. \A n \in 1 .. numFed : IsFrame(n) =>
             \/ \E j \in 1 .. Len(handled) : handled[j] = n
             \/ i = n
             \/ \E k \in 1 .. Len(frames) : frames[k] = n
      BY <1>5, <2>1 DEF IInv, FramesKeepOrder, i
    <2>8. \A n \in 1 .. numFed : IsFrame(n) =>
             \/ \E j \in 1 .. Len(handled') : handled'[j] = n
             \/ \E k \in 1 .. Len(frames) : frames[k] = n
      BY <1>2, <2>7
    <2> QED BY <1>1, <2>2, <2>4, <2>5, <2>6, <2>8 DEF FramesKeepOrder, IsFrame, IsError
  <1> QED BY <1>1, <1>4, <1>5 DEF FramesKeepOrder

-----------------------------------------------------------------------------
\* Starting and ending the loops, reading, and a callback that returns move no
\* item between the channels and the handlers.
LEMMA OtherOrder ==
  ASSUME IInv, [Next]_vars,
         \A o \in Opens : ~Feed(o) /\ ~TakeFrame(o) /\ ~TakeError(o) /\ ~Handle(o)
  PROVE  FedBefore' /\ FramesKeepOrder'
  <1> SUFFICES /\ UNCHANGED <<numFed, frames, errors, handled, inHand>>
               /\ \A o \in Opens : Handling(o)' <=> Handling(o)
               /\ slipped => slipped'
    BY NothingMoves DEF IInv
  <1> USE DEF IInv, TypeOK, Handling, ctl, data
  <1> DEFINE Calm == /\ UNCHANGED <<numFed, frames, errors, handled, inHand>>
                     /\ \A o \in Opens : Handling(o)' <=> Handling(o)
                     /\ slipped => slipped'
  <1>1. ASSUME NEW o \in Opens, OpenStep(o) PROVE Calm
    BY <1>1 DEF LoopsInv, FramersFollow, OpenStep, OpenNothing, OpenFlag, StartReader, StartFramer, OpenAt
  <1>2. ASSUME NEW o \in Opens, ReadStep(o) PROVE Calm
    BY <1>2 DEF ReadStep, ReaderTop, ReadError, Backoff, FeedDone, Read
  <1>3. ASSUME NEW o \in Opens, FrameStep(o) PROVE Calm
    BY <1>3 DEF FrameStep, FramerStop
  <1>4. ASSUME NEW c \in Closers, CloseStep(c) PROVE Calm
    BY <1>4 DEF CloseStep, CloseNothing, CloseFlag, CloseStop, CloseWait, ClosePort
  <1>5. ASSUME NEW i \in Items, CallbackEnds(i) PROVE Calm
    BY <1>5 DEF CallbackEnds
  <1>6. CASE UNCHANGED vars
    BY <1>6 DEF vars
  <1> QED BY <1>1, <1>2, <1>3, <1>4, <1>5, <1>6 DEF Next

LEMMA StepIInv == IInv /\ [Next]_vars => IInv'
  <1> SUFFICES ASSUME IInv, [Next]_vars PROVE IInv'
    OBVIOUS
  <1>1. FedBefore' /\ FramesKeepOrder'
    BY FeedOrder, TakeFrameOrder, TakeErrorOrder, HandleOrder, OtherOrder
  <1>2. TypeOK' /\ LoopsInv'
    <2> USE DEF IInv
    <2>1. CASE UNCHANGED vars
      <3>1. TypeOK'
        BY <2>1 DEF TypeOK, vars, ctl, data
      <3>2. LoopsInv'
        BY <2>1, LiveLoops DEF vars, LoopLive
      <3> QED BY <3>1, <3>2
    <2>2. ASSUME NEW o \in Opens, OpenStep(o) PROVE TypeOK' /\ LoopsInv'
      BY <2>2, OpenType, OpenLoops
    <2>3. ASSUME NEW o \in Opens, ReadStep(o) PROVE TypeOK' /\ LoopsInv'
      BY <2>3, ReadType, WorkLoops
    <2>4. ASSUME NEW o \in Opens, FrameStep(o) PROVE TypeOK' /\ LoopsInv'
      BY <2>4, FrameType, WorkLoops
    <2>5. ASSUME NEW c \in Closers, CloseStep(c) PROVE TypeOK' /\ LoopsInv'
      BY <2>5, CloseType, CloseLoops
    <2>6. ASSUME NEW i \in Items, CallbackEnds(i) PROVE TypeOK' /\ LoopsInv'
      <3>1. LoopsInv'
        BY <2>6, LiveLoops DEF CallbackEnds, LoopLive
      <3> QED BY <2>6, <3>1, CallbackType
    <2> QED BY <2>1, <2>2, <2>3, <2>4, <2>5, <2>6 DEF Next
  <1> QED BY <1>1, <1>2 DEF IInv

LEMMA Invariant == Spec => []IInv
  <1>1. Init => IInv
    BY InitIInv
  <1>2. IInv /\ [Next]_vars => IInv'
    BY StepIInv
  <1> QED BY <1>1, <1>2, PTL DEF Spec

\* Frames are handled in the order in which they came, each once, however long
\* the line, whatever the capacity of the channels and whichever calls of Open
\* and Close are made (znp.go, Open, Close, frameLoop), unless a Close slips past an Open that is starting.
THEOREM FramesInOrder == Spec => []FramesKeepOrder
  <1>1. IInv => FramesKeepOrder
    BY DEF IInv
  <1> QED BY <1>1, Invariant, PTL

\* The flag and the wait group of the client (znp.go, Open and Close) do what
\* they are for: one Close is at work at a time, with the client marked closed,
\* and, with the same exception, the loops that run are of one Open, and none
\* runs when the Close is through waiting.
THEOREM LoopsOfOneOpen == Spec => [](OneCloser /\ OneOpen)
  <1>1. IInv => OneCloser /\ OneOpen
    BY DEF IInv, LoopsInv
  <1> QED BY <1>1, Invariant, PTL

-----------------------------------------------------------------------------
(***************************************************************************)
(* The ZDO exchanges                                                       *)
(***************************************************************************)
\* Every exchange a plan can have, and what is kept of a device.
ZdoKinds == Tables \cup Local \cup {"ieee", "node", "active", "simple", "leave", "bind", "unbind", "basic"}
Exchange == [kind : ZdoKinds, dst : Devs, arg : Nat, otherwise : {"skip", "stop", "abort"}, retries : Nat]
Row == [dev : Devs, row : Nat]
Knowledge ==
  [ieee : Devs \cup {Nobody}, node : Devs \cup {Nobody}, active : Seq(1..255), described : Seq([dev : Devs, ep : Nat]), basicRead : BOOLEAN,
   lqi : Seq(Row), rtg : Seq(Row), bindings : Seq(Row), whole : SUBSET Tables, errors : Nat]

\* The first n rows of a table of device d.
FirstRows(d, n) == [i \in 1..n |-> [dev |-> d, row |-> i]]
IsTable(x) == x.kind \in Tables

\* Of a table that x asks for, the rows before those it asks for have come.
Begun(x, h) ==
  /\ x.kind \notin h.whole
  /\ RowsOf(x.dst, x.kind) < Width => x.arg <= RowsOf(x.dst, x.kind) /\ h[x.kind] = FirstRows(x.dst, x.arg)
\* No table of any device has been asked for.
Untouched(g) == \A d \in Devs : g[d].whole = {} /\ \A k \in Tables : g[d][k] = <<>>

\* No table of a device and no list of its endpoints is asked for twice.
Alike(x, y) == x.kind \in Tables \cup {"active"} /\ y.kind = x.kind /\ y.dst = x.dst
\* A plan goes on where the knowledge ends, asks for nothing twice, and has the
\* list of devices, which brings further tables, at its end and before any table.
PlanOK(p, g) ==
  /\ p \in Seq(Exchange)
  /\ \A i \in 1..Len(p) : IsTable(p[i]) => Begun(p[i], g[p[i].dst])
  /\ \A i, k \in 1..Len(p) : Alike(p[i], p[k]) => i = k
  /\ \A i \in 1..Len(p) : p[i].kind = "devices" => i = Len(p) /\ Untouched(g) /\ \A k \in 1..Len(p) : ~IsTable(p[k])

\* What is known of a device is true of it.
TrueOf(d, h) ==
  /\ h.ieee \in {Nobody, d} /\ h.active \in {<<>>, Network[d].eps}
  /\ \A k \in h.whole : RowsOf(d, k) < Width /\ h[k] = FirstRows(d, RowsOf(d, k))
KnowsOK(g) == g \in [Devs -> Knowledge] /\ \A d \in Devs : TrueOf(d, g[d])

\* A frame that answers x: of a table, no more rows than are left.
Mine(f, x) == f.kind = x.kind /\ f.src = x.dst /\ f.arg = x.arg /\ f.n \in Nat /\ (IsTable(x) /\ f.fault = "none" => f.n <= Left(x))

-----------------------------------------------------------------------------
\* A suffix of a plan is a plan.
LEMMA SuffixIsPlan ==
  ASSUME NEW g, NEW p, PlanOK(p, g), NEW j \in 1..(Len(p) + 1)
  PROVE  PlanOK(SubSeq(p, j, Len(p)), g)
  <1> DEFINE r == SubSeq(p, j, Len(p))
  <1>1. p \in Seq(Exchange) /\ Len(p) \in Nat
    BY DEF PlanOK
  <1>2. r \in Seq(Exchange) /\ Len(r) = Len(p) - j + 1 /\ \A i \in 1..Len(r) : r[i] = p[j + i - 1] /\ j + i - 1 \in 1..Len(p)
    BY <1>1
  <1> HIDE DEF r
  <1>3. \A i \in 1..Len(r) : IsTable(r[i]) => Begun(r[i], g[r[i].dst])
    BY <1>2 DEF PlanOK
  <1>4. ASSUME NEW i \in 1..Len(r), NEW k \in 1..Len(r), Alike(r[i], r[k]) PROVE i = k
    <2>1. j + i - 1 = j + k - 1
      BY <1>2, <1>4 DEF PlanOK
    <2> QED BY <2>1, <1>1, <1>2
  <1>5. ASSUME NEW i \in 1..Len(r), r[i].kind = "devices" PROVE i = Len(r) /\ Untouched(g) /\ \A k \in 1..Len(r) : ~IsTable(r[k])
    <2>1. j + i - 1 = Len(p) /\ Untouched(g) /\ \A k \in 1..Len(p) : ~IsTable(p[k])
      BY <1>2, <1>5 DEF PlanOK
    <2> QED BY <2>1, <1>1, <1>2
  <1> QED BY <1>2, <1>3, <1>4, <1>5 DEF PlanOK, r

\* What comes after the head.
LEMMA RestOfPlan ==
  ASSUME NEW g, NEW p, PlanOK(p, g), p # <<>>
  PROVE  /\ p[1] \in Exchange /\ Head(p) = p[1] /\ 1 \in 1..Len(p) /\ Len(p) \in Nat /\ PlanOK(Tail(p), g) /\ Len(Tail(p)) = Len(p) - 1
         /\ Tail(p) \in Seq(Exchange)
         /\ \A i \in 1..Len(Tail(p)) : Tail(p)[i] = p[i + 1] /\ i + 1 \in 1..Len(p) /\ ~Alike(p[1], Tail(p)[i])
         /\ p[1].kind = "devices" => Tail(p) = <<>>
         /\ IsTable(p[1]) => \A i \in 1..Len(Tail(p)) : Tail(p)[i].kind # "devices"
  <1> DEFINE t == Tail(p)
  <1>1. p \in Seq(Exchange)
    BY DEF PlanOK
  <1>2. Len(p) \in Nat \ {0} /\ p[1] \in Exchange /\ Head(p) = p[1] /\ t = SubSeq(p, 2, Len(p)) /\ t \in Seq(Exchange) /\ Len(t) = Len(p) - 1
    BY <1>1
  <1>3. \A i \in 1..Len(t) : t[i] = p[i + 1] /\ i + 1 \in 1..Len(p) /\ i + 1 # 1
    BY <1>1, <1>2
  <1>4. PlanOK(t, g)
    <2>1. 2 \in 1..(Len(p) + 1)
      BY <1>2
    <2>2. PlanOK(SubSeq(p, 2, Len(p)), g)
      BY <2>1, SuffixIsPlan
    <2> QED BY <1>2, <2>2
  <1> HIDE DEF t
  <1>5. \A i \in 1..Len(t) : ~Alike(p[1], t[i])
    BY <1>2, <1>3 DEF PlanOK
  <1>6. p[1].kind = "devices" => t = <<>>
    BY <1>2, <1>3 DEF PlanOK
  <1>7. IsTable(p[1]) => \A i \in 1..Len(t) : t[i].kind # "devices"
    BY <1>2, <1>3 DEF PlanOK
  <1> QED BY <1>2, <1>3, <1>4, <1>5, <1>6, <1>7 DEF t

\* What a plan says of the knowledge is about its tables only.
LEMMA PlanStays ==
  ASSUME NEW g, NEW h, NEW p, PlanOK(p, g),
         \A i \in 1..Len(p) : IsTable(p[i]) => Begun(p[i], h[p[i].dst]),
         \A i \in 1..Len(p) : p[i].kind = "devices" => Untouched(h)
  PROVE  PlanOK(p, h)
  BY DEF PlanOK

\* Exchanges that may be put before any plan.
Plain(q) == q \in Seq(Exchange) /\ \A i \in 1..Len(q) : q[i].kind \notin Tables \cup {"active", "devices"}
LEMMA PlainFirst ==
  ASSUME NEW g, NEW t, PlanOK(t, g), NEW q, Plain(q)
  PROVE  PlanOK(q \o t, g)
  <1> DEFINE p == q \o t
  <1>1. t \in Seq(Exchange) /\ q \in Seq(Exchange) /\ Len(t) \in Nat /\ Len(q) \in Nat
    BY DEF PlanOK, Plain
  <1>2. p \in Seq(Exchange) /\ Len(p) = Len(q) + Len(t) /\ \A i \in 1..Len(q) : p[i] = q[i]
    BY <1>1
  <1>3. \A i \in 1..Len(p) : i > Len(q) => i - Len(q) \in 1..Len(t) /\ p[i] = t[i - Len(q)]
    BY <1>1
  <1> HIDE DEF p
  <1>4. \A i \in 1..Len(p) : i <= Len(q) => i \in 1..Len(q) /\ p[i].kind \notin Tables \cup {"active", "devices"}
    BY <1>1, <1>2 DEF Plain
  <1>5. \A i \in 1..Len(p) : p[i].kind \in Tables \cup {"active", "devices"} => i > Len(q)
    BY <1>1, <1>2, <1>4
  <1>6. \A i \in 1..Len(p) : IsTable(p[i]) => Begun(p[i], g[p[i].dst])
    BY <1>3, <1>5 DEF PlanOK, IsTable
  <1>7. ASSUME NEW i \in 1..Len(p), NEW k \in 1..Len(p), Alike(p[i], p[k]) PROVE i = k
    <2>1. i > Len(q) /\ k > Len(q)
      BY <1>5, <1>7 DEF Alike
    <2>2. i - Len(q) = k - Len(q)
      BY <1>3, <1>7, <2>1 DEF PlanOK
    <2> QED BY <1>1, <1>2, <2>2
  <1>8. ASSUME NEW i \in 1..Len(p), p[i].kind = "devices" PROVE i = Len(p) /\ Untouched(g) /\ \A k \in 1..Len(p) : ~IsTable(p[k])
    <2>1. i > Len(q)
      BY <1>5, <1>8
    <2>2. i - Len(q) = Len(t) /\ Untouched(g) /\ \A k \in 1..Len(t) : ~IsTable(t[k])
      BY <1>3, <1>8, <2>1 DEF PlanOK
    <2>3. \A k \in 1..Len(p) : ~IsTable(p[k])
      BY <1>3, <1>5, <2>2 DEF IsTable
    <2> QED BY <1>1, <1>2, <2>2, <2>3
  <1> QED BY <1>2, <1>6, <1>7, <1>8 DEF PlanOK, p

\* A page of a table that nothing else in the plan asks for.
LEMMA PageFirst ==
  ASSUME NEW g, NEW t, PlanOK(t, g), NEW y \in Exchange, IsTable(y), Begun(y, g[y.dst]),
         \A i \in 1..Len(t) : ~Alike(y, t[i]) /\ t[i].kind # "devices"
  PROVE  PlanOK(<<y>> \o t, g)
  <1> DEFINE p == <<y>> \o t
  <1>1. t \in Seq(Exchange) /\ Len(t) \in Nat
    BY DEF PlanOK
  <1>2. p \in Seq(Exchange) /\ Len(p) = 1 + Len(t) /\ p[1] = y
    BY <1>1
  <1>3. \A i \in 1..Len(p) : i = 1 \/ (i - 1 \in 1..Len(t) /\ p[i] = t[i - 1])
    BY <1>1
  <1> HIDE DEF p
  <1>4. \A i \in 1..Len(p) : IsTable(p[i]) => Begun(p[i], g[p[i].dst])
    BY <1>2, <1>3 DEF PlanOK
  <1>5. ASSUME NEW i \in 1..Len(p), NEW k \in 1..Len(p), Alike(p[i], p[k]) PROVE i = k
    <2>1. CASE i = 1 \/ k = 1
      BY <1>2, <1>3, <1>5, <2>1 DEF Alike
    <2>2. CASE i # 1 /\ k # 1
      <3>1. i - 1 = k - 1
        BY <1>3, <1>5, <2>2 DEF PlanOK
      <3> QED BY <1>1, <1>2, <3>1
    <2> QED BY <2>1, <2>2
  <1>6. \A i \in 1..Len(p) : p[i].kind # "devices"
    BY <1>2, <1>3 DEF IsTable, Tables
  <1> QED BY <1>2, <1>4, <1>5, <1>6 DEF PlanOK, p

-----------------------------------------------------------------------------
\* What changes when a table does.
Others(h, k, l) ==
  /\ l.ieee = h.ieee /\ l.node = h.node /\ l.active = h.active /\ l.described = h.described /\ l.basicRead = h.basicRead
  /\ \A m \in Tables \ {k} : l[m] = h[m] /\ (m \in l.whole <=> m \in h.whole)
WithTable(h, k, rows, W) == [h EXCEPT ![k] = rows, !.whole = W]
LEMMA TableChanges ==
  ASSUME NEW h \in Knowledge, NEW k \in Tables, NEW rows \in Seq(Row), NEW W \in SUBSET Tables, \A m \in Tables \ {k} : m \in W <=> m \in h.whole
  PROVE  /\ WithTable(h, k, rows, W) \in Knowledge
         /\ WithTable(h, k, rows, W)[k] = rows /\ WithTable(h, k, rows, W).whole = W
         /\ WithTable(h, k, rows, W).errors = h.errors
         /\ Others(h, k, WithTable(h, k, rows, W))
  <1>1. CASE k = "lqi"
    BY <1>1 DEF Knowledge, Others, Tables, WithTable
  <1>2. CASE k = "rtg"
    BY <1>2 DEF Knowledge, Others, Tables, WithTable
  <1>3. CASE k = "bindings"
    BY <1>3 DEF Knowledge, Others, Tables, WithTable
  <1> QED BY <1>1, <1>2, <1>3 DEF Tables

\* Rows in a row.
RowsAfter(d, m, n) == [i \in 1..n |-> [dev |-> d, row |-> m + i]]
LEMMA RowsAreRows ==
  ASSUME NEW d \in Devs, NEW m \in Nat, NEW n \in Nat
  PROVE  /\ RowsAfter(d, m, n) \in Seq(Row) /\ Len(RowsAfter(d, m, n)) = n
         /\ \A i \in 1..n : RowsAfter(d, m, n)[i] = [dev |-> d, row |-> m + i]
  <1> DEFINE r == RowsAfter(d, m, n)
  <1>1. r \in [1..n -> Row]
    BY DEF Row, RowsAfter
  <1>2. \A i \in 1..n : r[i] = [dev |-> d, row |-> m + i]
    BY DEF RowsAfter
  <1> HIDE DEF r
  <1>3. r \in Seq(Row) /\ Len(r) = n
    BY <1>1
  <1> QED BY <1>2, <1>3 DEF r

\* The first n rows are n rows.
LEMMA FirstRowsAreRows ==
  ASSUME NEW d \in Devs, NEW n \in Nat
  PROVE  FirstRows(d, n) \in Seq(Row) /\ Len(FirstRows(d, n)) = n /\ \A i \in 1..n : FirstRows(d, n)[i] = [dev |-> d, row |-> i]
  <1> DEFINE r == FirstRows(d, n)
  <1>1. r \in [1..n -> Row] /\ \A i \in 1..n : r[i] = [dev |-> d, row |-> i]
    BY DEF FirstRows, Row
  <1> HIDE DEF r
  <1>2. r \in Seq(Row) /\ Len(r) = n
    BY <1>1
  <1> QED BY <1>1, <1>2 DEF r

\* The n rows after the first m make the first m + n.
LEMMA RowsInARow ==
  ASSUME NEW d \in Devs, NEW m \in Nat, NEW n \in Nat
  PROVE  FirstRows(d, m) \o RowsAfter(d, m, n) = FirstRows(d, m + n)
  <1> DEFINE a == FirstRows(d, m)
             b == RowsAfter(d, m, n)
             c == FirstRows(d, m + n)
  <1>1. a \in Seq(Row) /\ Len(a) = m /\ \A i \in 1..m : a[i] = [dev |-> d, row |-> i]
    BY FirstRowsAreRows
  <1>2. b \in Seq(Row) /\ Len(b) = n /\ \A i \in 1..n : b[i] = [dev |-> d, row |-> m + i]
    BY RowsAreRows
  <1>3. m + n \in Nat
    OBVIOUS
  <1>4. c \in Seq(Row) /\ Len(c) = m + n /\ \A i \in 1..m + n : c[i] = [dev |-> d, row |-> i]
    BY <1>3, FirstRowsAreRows
  <1> HIDE DEF a, b, c
  <1>5. a \o b \in Seq(Row) /\ Len(a \o b) = m + n /\ \A i \in 1..m + n : (a \o b)[i] = IF i <= m THEN a[i] ELSE b[i - m]
    <2>1. a \in Seq(Row) /\ b \in Seq(Row) /\ Len(a) = m /\ Len(b) = n
      BY <1>1, <1>2
    <2> QED BY ONLY <2>1, ConcatProperties, m \in Nat, n \in Nat
  <1>6. \A i \in 1..m + n : (a \o b)[i] = [dev |-> d, row |-> i]
    <2> DEFINE R(j) == [dev |-> d, row |-> j]
    <2>1. (\A i \in 1..m : a[i] = R(i)) /\ (\A i \in 1..n : b[i] = R(m + i))
      BY <1>1, <1>2
    <2> HIDE DEF R
    <2>2. \A i \in 1..m + n : (a \o b)[i] = R(i)
      <3> TAKE i \in 1..m + n
      <3>1. CASE i <= m
        BY <1>5, <2>1, <3>1
      <3>2. CASE i > m
        <4>1. i - m \in 1..n /\ m + (i - m) = i
          BY <3>2
        <4>2. b[i - m] = R(i)
          BY ONLY <2>1, <4>1
        <4> QED BY <1>5, <3>2, <4>2
      <3>3. i <= m \/ i > m
        OBVIOUS
      <3> QED BY ONLY <3>1, <3>2, <3>3, Zenon
    <2> QED BY <2>2 DEF R
  <1>7. \A i \in 1..m + n : (a \o b)[i] = c[i]
    BY <1>4, <1>6
  <1>8. a \o b = c
    <2>1. Len(a \o b) = m + n /\ Len(c) = m + n /\ a \o b \in Seq(Row) /\ c \in Seq(Row)
      BY <1>4, <1>5
    <2> QED BY ONLY <1>7, <2>1, SeqEqual
  <1> QED BY <1>8 DEF a, b, c

\* What fits a counter is counted right.
LEMMA SmallStays ==
  ASSUME NEW w \in Nat \ {0}, NEW n \in Nat
  PROVE  n % w \in Nat /\ n % w < w /\ (n < w => n % w = n)
  <1>1. n % w \in 0..(w - 1)
    OBVIOUS
  <1>2. n < w => n % w = n
    OBVIOUS
  <1> QED BY <1>1, <1>2

\* Sizes are numbers.
LEMMA SizeOfTable ==
  ASSUME NEW x \in Exchange, IsTable(x)
  PROVE  RowsOf(x.dst, x.kind) \in Nat /\ Width \in Nat \ {0} /\ PageSize \in Nat \ {0} /\ x.arg \in Nat /\ x.dst \in Devs /\ x.kind \in Tables
  BY NetworkIsKnown DEF RowsOf, IsTable, Exchange

\* A page of a table comes: the next page begins where the rows end.
LEMMA PageLearnt ==
  ASSUME NEW x \in Exchange, IsTable(x), NEW f, Mine(f, x), f.fault = "none", NEW h \in Knowledge, TrueOf(x.dst, h), Begun(x, h)
  PROVE  LET l == Learn(x, f, h)
             q == NextPage(x, Len(l[x.kind]), RowsOf(f.src, x.kind))
         IN  /\ l \in Knowledge /\ TrueOf(x.dst, l) /\ l.errors = h.errors /\ Others(h, x.kind, l)
             /\ q = <<>> \/ \E y \in Exchange : q = <<y>> /\ y.kind = x.kind /\ y.dst = x.dst /\ Begun(y, l)
  <1> DEFINE d == x.dst
             k == x.kind
             total == RowsOf(d, k)
             rows == h[k] \o Page(f)
             n == Len(rows)
             q == NextPage(x, n, total)
             W == IF q = <<>> THEN h.whole \cup {k} ELSE h.whole
             l == Learn(x, f, h)
  <1>1. total \in Nat /\ Width \in Nat \ {0} /\ PageSize \in Nat \ {0} /\ x.arg \in Nat /\ d \in Devs /\ k \in Tables
    BY SizeOfTable
  <1>2. f.src = d /\ f.arg = x.arg /\ f.n \in Nat /\ f.n <= Left(x)
    BY DEF Mine
  <1>3. Page(f) = RowsAfter(d, x.arg, f.n) /\ Page(f) \in Seq(Row) /\ Len(Page(f)) = f.n
    <2>1. Page(f) = RowsAfter(d, x.arg, f.n)
      BY <1>2 DEF Page, RowsAfter
    <2>2. d \in Devs /\ x.arg \in Nat /\ f.n \in Nat
      BY <1>1, <1>2
    <2>3. RowsAfter(d, x.arg, f.n) \in Seq(Row) /\ Len(RowsAfter(d, x.arg, f.n)) = f.n
      BY ONLY <2>2, RowsAreRows
    <2> QED BY <2>1, <2>3
  <1>4. h[k] \in Seq(Row)
    BY <1>1 DEF Knowledge, Tables
  <1>5. rows \in Seq(Row) /\ n \in Nat
    <2>1. h[k] \in Seq(Row) /\ Page(f) \in Seq(Row)
      BY <1>3, <1>4
    <2> HIDE DEF k
    <2>2. h[k] \o Page(f) \in Seq(Row) /\ Len(h[k] \o Page(f)) \in Nat
      BY ONLY <2>1, ConcatProperties, LenProperties
    <2> QED BY <2>2
  <1>6. ASSUME total < Width
        PROVE  rows = FirstRows(d, n) /\ n <= total /\ n % Width = n
    <2>1. x.arg <= total /\ h[k] = FirstRows(d, x.arg)
      BY <1>6 DEF Begun
    <2>2. rows = FirstRows(d, x.arg + f.n)
      BY <1>1, <1>2, <1>3, <2>1, RowsInARow
    <2>3. n = x.arg + f.n
      BY <1>1, <1>2, <2>2, FirstRowsAreRows
    <2>4. x.arg + f.n <= total
      BY <1>1, <1>2, <2>1 DEF Left
    <2>5. n <= total /\ n < Width
      BY <1>1, <1>2, <1>6, <2>3, <2>4
    <2>6. n % Width = n
      BY <1>1, <1>5, <2>5, SmallStays
    <2> QED BY <2>2, <2>3, <2>5, <2>6
  <1>7. n % Width \in Nat /\ n % Width < Width
    BY <1>1, <1>5, SmallStays
  <1>8. W \in SUBSET Tables /\ \A m \in Tables \ {k} : m \in W <=> m \in h.whole
    BY <1>1 DEF Knowledge
  <1>9. l = [h EXCEPT ![k] = rows, !.whole = W]
    BY <1>1, <1>2 DEF Learn, Tables
  <1> HIDE DEF l, rows, W
  <1>10. l \in Knowledge /\ l[k] = rows /\ l.whole = W /\ l.errors = h.errors /\ Others(h, k, l)
    <2>1. k \in Tables /\ rows \in Seq(Row) /\ W \in SUBSET Tables /\ h \in Knowledge /\ \A m \in Tables \ {k} : m \in W <=> m \in h.whole
      BY <1>1, <1>5, <1>8
    <2> HIDE DEF k
    <2>2. l = WithTable(h, k, rows, W)
      BY <1>9 DEF WithTable
    <2> QED BY ONLY <2>1, <2>2, TableChanges
  <1>11. q = <<>> => total < Width /\ l[k] = FirstRows(d, total)
    <2> SUFFICES ASSUME q = <<>> PROVE total < Width /\ l[k] = FirstRows(d, total)
      OBVIOUS
    <2>1. n % Width >= total
      BY DEF NextPage
    <2>2. total < Width
      BY <1>1, <1>7, <2>1
    <2>3. n = total
      BY <1>1, <1>5, <1>6, <2>1, <2>2
    <2> QED BY <1>6, <1>10, <2>2, <2>3
  <1>12. TrueOf(d, l)
    <2>1. l.ieee \in {Nobody, d} /\ l.active \in {<<>>, Network[d].eps}
      BY <1>10 DEF TrueOf, Others
    <2>2. ASSUME NEW m \in l.whole PROVE RowsOf(d, m) < Width /\ l[m] = FirstRows(d, RowsOf(d, m))
      <3>1. m \in Tables
        BY <1>8, <1>10
      <3>2. CASE m = k
        <4>1. q = <<>>
          BY <1>10, <2>2, <3>2 DEF W, Begun
        <4> QED BY <1>11, <3>2, <4>1
      <3>3. CASE m # k
        BY <1>10, <2>2, <3>1, <3>3 DEF Others, TrueOf
      <3> QED BY <3>2, <3>3
    <2> QED BY <2>1, <2>2 DEF TrueOf
  <1>13. ASSUME q # <<>>
         PROVE  \E y \in Exchange : q = <<y>> /\ y.kind = k /\ y.dst = d /\ Begun(y, l)
    <2> DEFINE y == [x EXCEPT !.arg = n % Width]
    <2>1. q = <<y>>
      BY <1>13 DEF NextPage
    <2>2. y \in Exchange /\ y.kind = k /\ y.dst = d /\ y.arg = n % Width
      BY <1>7 DEF Exchange
    <2>3. k \notin l.whole
      BY <1>10, <1>13 DEF W, Begun
    <2>4. Begun(y, l)
      BY <1>6, <1>10, <2>2, <2>3 DEF Begun
    <2> QED BY <2>1, <2>2, <2>4
  <1>14. NextPage(x, Len(l[x.kind]), RowsOf(f.src, x.kind)) = q
    BY <1>2, <1>10 DEF rows
  <1> QED BY <1>10, <1>12, <1>13, <1>14 DEF l

\* What changes when no table does.
Tabled(h, l) == l.whole = h.whole /\ \A k \in Tables : l[k] = h[k]

\* A table that is not had.
LEMMA MissIsKnowledge ==
  ASSUME NEW x \in Exchange, NEW h \in Knowledge
  PROVE  LET l == Miss(x, h) IN
         /\ l \in Knowledge /\ l.ieee = h.ieee /\ l.node = h.node /\ l.active = h.active /\ l.described = h.described /\ l.basicRead = h.basicRead
         /\ l.whole = h.whole /\ l.errors = h.errors + 1 /\ \A k \in Tables : k # x.kind => l[k] = h[k]
  <1> DEFINE l == Miss(x, h)
  <1>1. ASSUME NEW t \in Knowledge
        PROVE  [t EXCEPT !.errors = @ + 1] \in Knowledge /\ [t EXCEPT !.errors = @ + 1].errors = t.errors + 1
               /\ Tabled(t, [t EXCEPT !.errors = @ + 1]) /\ [t EXCEPT !.errors = @ + 1].ieee = t.ieee /\ [t EXCEPT !.errors = @ + 1].node = t.node
               /\ [t EXCEPT !.errors = @ + 1].active = t.active /\ [t EXCEPT !.errors = @ + 1].described = t.described /\ [t EXCEPT !.errors = @ + 1].basicRead = t.basicRead
    <2> DEFINE u == [t EXCEPT !.errors = @ + 1]
    <2>1. t.errors + 1 \in Nat
      BY DEF Knowledge
    <2>2. u \in Knowledge
      BY <2>1 DEF Knowledge
    <2>3. u.errors = t.errors + 1 /\ u.ieee = t.ieee /\ u.node = t.node /\ u.active = t.active /\ u.described = t.described /\ u.basicRead = t.basicRead
      BY DEF Knowledge
    <2>4. u.whole = t.whole /\ u.lqi = t.lqi /\ u.rtg = t.rtg /\ u.bindings = t.bindings
      BY DEF Knowledge
    <2>5. Tabled(t, u)
      BY <2>4 DEF Tabled, Tables
    <2> QED BY <2>2, <2>3, <2>5
  <1>2. CASE x.kind \notin Tables
    <2>1. l = [h EXCEPT !.errors = @ + 1]
      BY <1>2 DEF Miss
    <2> QED BY <1>1, <1>2, <2>1 DEF Tabled
  <1>3. CASE x.kind \in Tables
    <2> DEFINE t == [h EXCEPT ![x.kind] = <<>>]
    <2>1. t \in Knowledge /\ t.ieee = h.ieee /\ t.node = h.node /\ t.active = h.active /\ t.described = h.described /\ t.basicRead = h.basicRead
          /\ t.whole = h.whole /\ t.errors = h.errors /\ \A k \in Tables : k # x.kind => t[k] = h[k]
      <3>1. <<>> \in Seq(Row)
        OBVIOUS
      <3>2. CASE x.kind = "lqi"
        BY <3>1, <3>2 DEF Knowledge, Tables
      <3>3. CASE x.kind = "rtg"
        BY <3>1, <3>3 DEF Knowledge, Tables
      <3>4. CASE x.kind = "bindings"
        BY <3>1, <3>4 DEF Knowledge, Tables
      <3> QED BY <1>3, <3>2, <3>3, <3>4 DEF Tables
    <2>2. l = [t EXCEPT !.errors = @ + 1]
      BY <1>3 DEF Miss
    <2> HIDE DEF t
    <2> QED BY <1>1, <2>1, <2>2 DEF Tabled
  <1> QED BY <1>2, <1>3

\* What is learnt from an answer that is no page of a table.
LEMMA PlainLearnt ==
  ASSUME NEW x \in Exchange, x.kind \notin Tables, NEW f, Mine(f, x), NEW h \in Knowledge, TrueOf(x.dst, h)
  PROVE  LET l == Learn(x, f, h) IN
         /\ l \in Knowledge /\ TrueOf(x.dst, l) /\ Tabled(h, l) /\ l.errors = h.errors /\ l.basicRead = h.basicRead
         /\ l.ieee = IF x.kind = "ieee" THEN x.dst ELSE h.ieee
         /\ l.node = IF x.kind = "node" THEN x.dst ELSE h.node
         /\ l.active = IF x.kind = "active" THEN Network[x.dst].eps ELSE h.active
         /\ l.described = IF x.kind = "simple" THEN Append(h.described, [dev |-> x.dst, ep |-> x.arg]) ELSE h.described
  <1> DEFINE l == Learn(x, f, h)
  <1>1. x.dst \in Devs /\ x.arg \in Nat /\ f.src = x.dst /\ f.arg = x.arg /\ Network[x.dst].eps \in Seq(1..255)
    BY NetworkIsKnown DEF Exchange, Mine
  <1>2. CASE x.kind = "ieee"
    <2>1. l = [h EXCEPT !.ieee = x.dst]
      BY <1>1, <1>2 DEF Learn
    <2> QED BY <1>1, <1>2, <2>1 DEF Knowledge, Tabled, Tables, TrueOf
  <1>3. CASE x.kind = "node"
    <2>1. l = [h EXCEPT !.node = x.dst]
      BY <1>1, <1>3 DEF Learn
    <2> QED BY <1>1, <1>3, <2>1 DEF Knowledge, Tabled, Tables, TrueOf
  <1>4. CASE x.kind = "active"
    <2>1. l = [h EXCEPT !.active = Network[x.dst].eps]
      BY <1>1, <1>4 DEF Learn
    <2> QED BY <1>1, <1>4, <2>1 DEF Knowledge, Tabled, Tables, TrueOf
  <1>5. CASE x.kind = "simple"
    <2> DEFINE r == [dev |-> x.dst, ep |-> x.arg]
    <2>1. l = [h EXCEPT !.described = Append(@, r)]
      BY <1>1, <1>5 DEF Learn
    <2>2. r \in [dev : Devs, ep : Nat]
      BY <1>1
    <2>3. h.described \in Seq([dev : Devs, ep : Nat])
      BY DEF Knowledge
    <2> HIDE DEF r
    <2>4. Append(h.described, r) \in Seq([dev : Devs, ep : Nat])
      BY ONLY <2>2, <2>3, AppendProperties
    <2>5. l = [h EXCEPT !.described = Append(h.described, r)]
      BY <2>1
    <2> HIDE DEF l
    <2>a. /\ l.described = Append(h.described, r) /\ l.errors = h.errors /\ l.basicRead = h.basicRead
          /\ l.ieee = h.ieee /\ l.node = h.node /\ l.active = h.active
      BY <2>5 DEF Knowledge
    <2>b. l \in Knowledge
      BY <2>4, <2>5 DEF Knowledge
    <2>c. Tabled(h, l)
      BY <2>5 DEF Knowledge, Tabled, Tables
    <2>6. l \in Knowledge /\ Tabled(h, l) /\ l.described = Append(h.described, r) /\ l.errors = h.errors /\ l.basicRead = h.basicRead
          /\ l.ieee = h.ieee /\ l.node = h.node /\ l.active = h.active
      BY <2>a, <2>b, <2>c
    <2>7. TrueOf(x.dst, l)
      BY <2>6 DEF TrueOf, Tabled, Knowledge
    <2> QED BY <1>5, <2>6, <2>7 DEF r, l
  <1>6. CASE x.kind \notin {"ieee", "node", "active", "simple"}
    <2>1. l = h
      BY <1>6 DEF Learn
    <2> QED BY <1>6, <2>1 DEF Tabled
  <1> QED BY <1>2, <1>3, <1>4, <1>5, <1>6

\* What a device's entry is written with is the caller's knowledge again.
LEMMA KnowsStays ==
  ASSUME NEW g, KnowsOK(g), NEW d \in Devs, NEW l \in Knowledge, TrueOf(d, l)
  PROVE  /\ KnowsOK([g EXCEPT ![d] = l]) /\ [g EXCEPT ![d] = l][d] = l
         /\ \A e \in Devs : e # d => [g EXCEPT ![d] = l][e] = g[e]
  BY DEF KnowsOK

\* The rest of a plan stays a plan when the entry of the head's device changes in no table but the one that the head asks for.
LEMMA RestStays ==
  ASSUME NEW g, NEW p, PlanOK(p, g), p # <<>>, KnowsOK(g), NEW l \in Knowledge, TrueOf(p[1].dst, l),
         \A k \in Tables : k # p[1].kind => l[k] = g[p[1].dst][k] /\ (k \in l.whole <=> k \in g[p[1].dst].whole)
  PROVE  PlanOK(Tail(p), [g EXCEPT ![p[1].dst] = l])
  <1> DEFINE t == Tail(p)
             d == p[1].dst
             h == [g EXCEPT ![d] = l]
  <1>1. PlanOK(t, g) /\ p[1] \in Exchange /\ t \in Seq(Exchange) /\ Len(t) \in Nat /\ (p[1].kind = "devices" => t = <<>>)
    <2>1. PlanOK(t, g) /\ p[1] \in Exchange /\ t \in Seq(Exchange) /\ (p[1].kind = "devices" => t = <<>>)
      BY RestOfPlan
    <2> HIDE DEF t
    <2> QED BY ONLY <2>1, LenProperties
  <1>2. d \in Devs
    BY <1>1 DEF Exchange
  <1>3. h[d] = l /\ \A e \in Devs : e # d => h[e] = g[e]
    BY <1>2 DEF KnowsOK
  <1>4. \A i \in 1..Len(t) : ~Alike(p[1], t[i]) /\ (IsTable(p[1]) => t[i].kind # "devices")
    BY RestOfPlan
  <1> HIDE DEF t
  <1>5. ASSUME NEW i \in 1..Len(t), IsTable(t[i]) PROVE Begun(t[i], h[t[i].dst])
    <2>1. Begun(t[i], g[t[i].dst]) /\ t[i].kind \in Tables /\ t[i].dst \in Devs
      <3>1. Begun(t[i], g[t[i].dst])
        BY <1>1, <1>5 DEF PlanOK
      <3>2. t[i] \in Exchange
        BY <1>1
      <3> QED BY <1>5, <3>1, <3>2 DEF IsTable, Exchange
    <2>2. CASE t[i].dst = d
      <3>1. t[i].kind # p[1].kind
        BY <1>4, <2>1, <2>2 DEF Alike
      <3> QED BY <1>3, <2>1, <2>2, <3>1 DEF Begun
    <2>3. CASE t[i].dst # d
      BY <1>3, <2>1, <2>3
    <2> QED BY <2>2, <2>3
  <1> HIDE DEF h
  <1>6. ASSUME NEW i \in 1..Len(t), t[i].kind = "devices" PROVE Untouched(h)
    <2>1. Untouched(g) /\ ~IsTable(p[1])
      BY <1>1, <1>4, <1>6 DEF PlanOK
    <2>2. \A k \in Tables : l[k] = g[d][k] /\ (k \in l.whole <=> k \in g[d].whole)
      BY <2>1 DEF IsTable
    <2>3. l.whole = {} /\ \A k \in Tables : l[k] = <<>>
      BY <1>2, <2>1, <2>2 DEF Untouched, Knowledge
    <2> QED BY <1>3, <2>1, <2>3 DEF Untouched
  <1>7. PlanOK(t, h)
    BY <1>1, <1>5, <1>6, PlanStays
  <1> QED BY <1>7 DEF t, h, d

\* A set of numbers has a first one.
LEMMA SomeFirst ==
  ASSUME NEW S \in SUBSET Nat, S # {}
  PROVE  \E x \in S : \A y \in S : x <= y
  <1>1. PICK x \in S : \A y \in S : ~(<<y, x>> \in OpToRel(<, Nat))
    BY NatLessThanWellFounded, WFMin, Zenon
  <1>2. \A y \in S : x <= y
    <2> TAKE y \in S
    <2>1. x \in Nat /\ y \in Nat
      OBVIOUS
    <2>2. ~(y < x)
      BY <1>1, <2>1 DEF OpToRel
    <2> QED BY <2>1, <2>2
  <1> QED BY <1>2

\* What FromNext leaves is what comes after the exchanges of the head's device.
LEMMA FromNextIsSuffix ==
  ASSUME NEW p \in Seq(Exchange), p # <<>>
  PROVE  \E k \in 1..(Len(Tail(p)) + 1) : /\ FromNext(p) = SubSeq(Tail(p), k, Len(Tail(p)))
                                          /\ \A i \in 1..(k - 1) : Tail(p)[i].dst = p[1].dst
  <1> DEFINE t == Tail(p)
             others == {i \in 1..Len(p) : p[i].dst # p[1].dst}
  <1>1. Len(p) \in Nat \ {0} /\ t \in Seq(Exchange) /\ Len(t) = Len(p) - 1 /\ \A i \in 1..Len(t) : t[i] = p[i + 1]
    OBVIOUS
  <1> HIDE DEF t
  <1>2. CASE others = {}
    <2>1. FromNext(p) = <<>>
      BY <1>2 DEF FromNext
    <2>2. SubSeq(t, Len(t) + 1, Len(t)) = <<>>
      BY <1>1
    <2>3. \A i \in 1..Len(t) : t[i].dst = p[1].dst
      <3> TAKE i \in 1..Len(t)
      <3>1. i + 1 \in 1..Len(p)
        BY <1>1
      <3>2. p[i + 1].dst = p[1].dst
        BY <1>2, <3>1
      <3> QED BY <1>1, <3>2
    <2>4. Len(t) + 1 \in 1..(Len(t) + 1) /\ (Len(t) + 1) - 1 = Len(t)
      BY <1>1
    <2> QED BY <2>1, <2>2, <2>3, <2>4 DEF t
  <1>3. CASE others # {}
    <2>1. others \in SUBSET Nat
      BY <1>1
    <2> DEFINE m == CHOOSE i \in others : \A k \in others : i <= k
    <2>2. m \in others /\ \A k \in others : m <= k
      BY <1>3, <2>1, SomeFirst
    <2>3. FromNext(p) = SubSeq(p, m, Len(p))
      BY <1>3 DEF FromNext
    <2> HIDE DEF m
    <2>4. m \in 2..Len(p)
      BY <1>1, <2>2
    <2>5. \A i \in 1..(m - 2) : t[i].dst = p[1].dst
      <3> TAKE i \in 1..(m - 2)
      <3>1. i + 1 \in 1..Len(p) /\ i \in 1..Len(t) /\ ~(m <= i + 1)
        BY <1>1, <2>4
      <3>2. i + 1 \notin others
        BY <2>2, <3>1
      <3> QED BY <1>1, <3>1, <3>2
    <2>6. SubSeq(p, m, Len(p)) = SubSeq(t, m - 1, Len(t))
      <3> DEFINE u == SubSeq(p, m, Len(p))
                 v == SubSeq(t, m - 1, Len(t))
      <3>1. u \in Seq(Exchange) /\ Len(u) = Len(p) - m + 1 /\ \A i \in 1..Len(u) : u[i] = p[m + i - 1]
        BY <1>1, <2>4
      <3>2. v \in Seq(Exchange) /\ Len(v) = Len(t) - m + 2 /\ \A i \in 1..Len(v) : v[i] = t[m + i - 2]
        BY <1>1, <2>4
      <3> HIDE DEF u, v
      <3>3. Len(u) = Len(v) /\ \A i \in 1..Len(u) : u[i] = v[i]
        <4>1. Len(u) = Len(v)
          BY <1>1, <2>4, <3>1, <3>2
        <4>2. ASSUME NEW i \in 1..Len(u) PROVE u[i] = v[i]
          <5>1. m + i - 2 \in 1..Len(t) /\ (m + i - 2) + 1 = m + i - 1
            BY <1>1, <2>4, <3>1
          <5>2. t[m + i - 2] = p[m + i - 1]
            BY <1>1, <5>1
          <5> QED BY <3>1, <3>2, <4>1, <5>2
        <4> QED BY <4>1, <4>2
      <3>4. u = v
        BY <3>1, <3>2, <3>3, SeqEqual
      <3> QED BY <3>4 DEF u, v
    <2>7. m - 1 \in 1..(Len(t) + 1) /\ (m - 1) - 1 = m - 2
      BY <1>1, <2>4
    <2> DEFINE k == m - 1
    <2>8. k \in 1..(Len(t) + 1) /\ FromNext(p) = SubSeq(t, k, Len(t)) /\ \A i \in 1..(k - 1) : t[i].dst = p[1].dst
      BY <2>3, <2>5, <2>6, <2>7
    <2> HIDE DEF k
    <2> QED BY <2>8 DEF t
  <1> QED BY <1>2, <1>3

-----------------------------------------------------------------------------
\* An answer keeps the plan a plan.
LEMMA AnswerKeepsTable ==
  ASSUME NEW j, NEW g, NEW p, PlanOK(p, g), p # <<>>, KnowsOK(g), NEW f, Mine(f, p[1]), f.fault = "none", IsTable(p[1])
  PROVE  LET x == p[1]
             l == Learn(x, f, g[x.dst])
             h == [g EXCEPT ![x.dst] = l]
         IN  PlanOK(More(j, x, f, l) \o Tail(p), h) /\ KnowsOK(h)
  <1> DEFINE x == p[1]
             d == x.dst
             l == Learn(x, f, g[d])
             h == [g EXCEPT ![d] = l]
             t == Tail(p)
             q == NextPage(x, Len(l[x.kind]), RowsOf(f.src, x.kind))
  <1>1. x \in Exchange /\ 1 \in 1..Len(p) /\ t \in Seq(Exchange) /\ \A i \in 1..Len(t) : ~Alike(x, t[i]) /\ t[i].kind # "devices"
    BY RestOfPlan
  <1>2. d \in Devs /\ g[d] \in Knowledge /\ TrueOf(d, g[d]) /\ Begun(x, g[d])
    <2>1. d \in Devs
      BY <1>1 DEF Exchange
    <2> QED BY <1>1, <2>1 DEF KnowsOK, PlanOK
  <1>3. /\ l \in Knowledge /\ TrueOf(d, l) /\ Others(g[d], x.kind, l)
        /\ q = <<>> \/ \E y \in Exchange : q = <<y>> /\ y.kind = x.kind /\ y.dst = d /\ Begun(y, l)
    BY <1>1, <1>2, PageLearnt
  <1> HIDE DEF l, x, t
  <1>4. \A k \in Tables : k # x.kind => l[k] = g[d][k] /\ (k \in l.whole <=> k \in g[d].whole)
    BY <1>3 DEF Others
  <1>5. PlanOK(t, h)
    BY <1>2, <1>3, <1>4, RestStays DEF t, x
  <1>6. KnowsOK(h) /\ h[d] = l
    BY <1>2, <1>3, KnowsStays
  <1>7. More(j, x, f, l) = q
    BY DEF More, IsTable, Tables, x
  <1>8. CASE q = <<>>
    <2>1. q \o t = t
      BY <1>1, <1>8
    <2> QED BY <1>5, <1>6, <1>7, <2>1 DEF t, x, l
  <1>9. CASE q # <<>>
    <2>1. PICK y \in Exchange : q = <<y>> /\ y.kind = x.kind /\ y.dst = d /\ Begun(y, l)
      BY <1>3, <1>9
    <2>2. IsTable(y) /\ Begun(y, h[y.dst]) /\ \A i \in 1..Len(t) : ~Alike(y, t[i]) /\ t[i].kind # "devices"
      BY <1>1, <1>6, <2>1 DEF IsTable, Alike, x
    <2> HIDE DEF h, q
    <2>3. PlanOK(<<y>> \o t, h)
      BY <1>5, <2>2, PageFirst
    <2>4. PlanOK(q \o t, h)
      BY <2>1, <2>3
    <2> QED BY <1>6, <1>7, <2>4 DEF t, x, l, h
  <1> QED BY <1>8, <1>9

\* The number of retries is a number.
LEMMA SomeRetries == Retries \in Nat
  BY NetworkIsKnown

\* The exchanges of an interview.
LEMMA InterviewIs ==
  ASSUME NEW d \in Devs, NEW known \in BOOLEAN
  PROVE  /\ Interview(d, known) \in Seq(Exchange) /\ Len(Interview(d, known)) = 3
         /\ Interview(d, known)[1].kind = "ieee" /\ Interview(d, known)[2].kind = "node" /\ Interview(d, known)[3].kind = "active"
         /\ \A i \in 1..3 : Interview(d, known)[i] \in Exchange /\ Interview(d, known)[i].dst = d
  <1> DEFINE a == [IeeeAddrReq(d) EXCEPT !.otherwise = IF known THEN "skip" ELSE "abort", !.retries = Retries]
             b == [NodeDescReq(d) EXCEPT !.otherwise = "skip", !.retries = Retries]
             e == [ActiveEpReq(d) EXCEPT !.otherwise = "stop", !.retries = Retries]
  <1>1. a \in Exchange /\ a.kind = "ieee" /\ a.dst = d
    BY SomeRetries DEF IeeeAddrReq, Once, X, Exchange, ZdoKinds
  <1>2. b \in Exchange /\ b.kind = "node" /\ b.dst = d
    BY SomeRetries DEF NodeDescReq, Once, X, Exchange, ZdoKinds
  <1>3. e \in Exchange /\ e.kind = "active" /\ e.dst = d
    BY SomeRetries DEF ActiveEpReq, Once, X, Exchange, ZdoKinds
  <1> DEFINE s == <<a, b, e>>
  <1>6. s \in Seq(Exchange) /\ Len(s) = 3 /\ s[1] = a /\ s[2] = b /\ s[3] = e
    <2> HIDE DEF a, b, e
    <2> QED BY <1>1, <1>2, <1>3
  <1>7. Interview(d, known) = s
    BY DEF Interview, Again
  <1> HIDE DEF a, b, e, s
  <1>8. \A i \in 1..3 : s[i] \in Exchange /\ s[i].dst = d
    <2> TAKE i \in 1..3
    <2>1. i = 1 \/ i = 2 \/ i = 3
      OBVIOUS
    <2> QED BY <2>1, <1>1, <1>2, <1>3, <1>6
  <1> QED BY <1>1, <1>2, <1>3, <1>6, <1>7, <1>8

\* The devices in the address table.
LEMMA KnownAre == /\ Known \in Seq(Devs) /\ Len(Known) \in Nat /\ \A i \in 1..Len(Known) : Known[i] \in Devs /\ Known[i] # Coordinator
                  /\ \A i, k \in 1..Len(Known) : Known[i] = Known[k] => i = k
  <1>1. Known \in Seq(Devs \ {Coordinator}) /\ \A i, k \in 1..Len(Known) : Known[i] = Known[k] => i = k
    BY NetworkIsKnown
  <1>2. Len(Known) \in Nat /\ \A i \in 1..Len(Known) : Known[i] \in Devs /\ Known[i] # Coordinator
    BY <1>1
  <1>3. Known \in Seq(Devs)
    BY <1>1, <1>2
  <1> QED BY <1>1, <1>2, <1>3

\* Those of the interviews of every device.
LEMMA InterviewsAre ==
  /\ Interviews(Known) \in Seq(Exchange) /\ Len(Interviews(Known)) = 3 * Len(Known)
  /\ \A n \in 1..3 * Len(Known) :
        /\ (n + 2) \div 3 \in 1..Len(Known) /\ Interviews(Known)[n] \in Exchange /\ Interviews(Known)[n].dst = Known[(n + 2) \div 3]
        /\ Interviews(Known)[n].kind = IF n % 3 = 1 THEN "ieee" ELSE IF n % 3 = 2 THEN "node" ELSE "active"
  <1> DEFINE L == Len(Known)
             I(n) == Interview(Known[(n + 2) \div 3], TRUE)
             p == Interviews(Known)
  <1>1. L \in Nat
    BY KnownAre
  <1>2. p = [n \in 1..3 * L |-> I(n)[((n - 1) % 3) + 1]]
    BY DEF Interviews
  <1>3. ASSUME NEW n \in 1..3 * L
        PROVE  /\ (n + 2) \div 3 \in 1..L /\ p[n] \in Exchange /\ p[n].dst = Known[(n + 2) \div 3]
               /\ p[n].kind = IF n % 3 = 1 THEN "ieee" ELSE IF n % 3 = 2 THEN "node" ELSE "active"
    <2>1. (n + 2) \div 3 \in 1..L /\ ((n - 1) % 3) + 1 \in 1..3
      BY <1>1
    <2>2. Known[(n + 2) \div 3] \in Devs
      BY <2>1, KnownAre
    <2> DEFINE d == Known[(n + 2) \div 3]
               k == ((n - 1) % 3) + 1
    <2>3. /\ k \in 1..3 /\ (n % 3 = 1 => k = 1) /\ (n % 3 = 2 => k = 2) /\ (n % 3 \notin {1, 2} => k = 3)
      BY <1>1
    <2>4. p[n] = Interview(d, TRUE)[k]
      BY <1>2
    <2> HIDE DEF d, k, p
    <2>5. /\ Interview(d, TRUE)[1].kind = "ieee" /\ Interview(d, TRUE)[2].kind = "node" /\ Interview(d, TRUE)[3].kind = "active"
          /\ \A i \in 1..3 : Interview(d, TRUE)[i] \in Exchange /\ Interview(d, TRUE)[i].dst = d
      BY <2>2, InterviewIs DEF d
    <2>6. p[n].kind = IF n % 3 = 1 THEN "ieee" ELSE IF n % 3 = 2 THEN "node" ELSE "active"
      BY <2>3, <2>4, <2>5
    <2>7. p[n] \in Exchange /\ p[n].dst = d
      BY <2>3, <2>4, <2>5
    <2> QED BY <2>1, <2>6, <2>7 DEF d
  <1> HIDE DEF I
  <1>4. DOMAIN p = 1..3 * L /\ 3 * L \in Nat /\ p = [n \in 1..3 * L |-> p[n]]
    BY <1>1, <1>2
  <1> HIDE DEF p
  <1>5. p \in Seq(Exchange) /\ Len(p) = 3 * L
    BY <1>3, <1>4
  <1> QED BY <1>3, <1>5 DEF p

\* What follows from the list of endpoints.
AsksEndpoints(q, d) == \A i \in 1..Len(q) : q[i].kind \in {"simple", "basic"} /\ q[i].dst = d
DescribesAll(q, d, eps) ==
  /\ Len(q) = Len(eps) + 1 /\ q[Len(eps) + 1].kind = "basic" /\ q[Len(eps) + 1].dst = d
  /\ \A i \in 1..Len(eps) : q[i].kind = "simple" /\ q[i].dst = d /\ q[i].arg = eps[i]
LEMMA AfterEndpointsIs ==
  ASSUME NEW j, NEW x \in Exchange, NEW eps \in Seq(1..255)
  PROVE  LET q == AfterEndpoints(j, x, eps)
         IN  /\ Plain(q)
             /\ j.kind \in {"interview", "interviewAll"} => DescribesAll(q, x.dst, eps)
             /\ AsksEndpoints(q, x.dst)
  <1> DEFINE S(i, again) == [Skipped(SimpleDescReq(x.dst, eps[i])) EXCEPT !.retries = again]
             D(again) == [i \in 1..Len(eps) |-> S(i, again)]
             y == Skipped(Once("basic", x.dst))
             q == AfterEndpoints(j, x, eps)
  <1>1. x.dst \in Devs /\ Len(eps) \in Nat /\ \A i \in 1..Len(eps) : eps[i] \in 1..255
    <2>1. x.dst \in Devs
      BY DEF Exchange
    <2>2. Len(eps) \in Nat /\ \A i \in 1..Len(eps) : eps[i] \in 1..255
      BY ONLY eps \in Seq(1..255), LenProperties, ElementOfSeq
    <2> QED BY <2>1, <2>2
  <1>2. y \in Exchange /\ y.kind = "basic" /\ y.dst = x.dst
    BY <1>1 DEF Skipped, Once, X, Exchange, ZdoKinds
  <1>3. ASSUME NEW again \in Nat, NEW i \in 1..Len(eps)
        PROVE  S(i, again) \in Exchange /\ S(i, again).kind = "simple" /\ S(i, again).dst = x.dst /\ S(i, again).arg = eps[i]
    <2>1. eps[i] \in Nat
      <3>1. eps[i] \in 1..255
        BY <1>1
      <3>2. \A n \in 1..255 : n \in Nat
        OBVIOUS
      <3> QED BY ONLY <3>1, <3>2, Zenon
    <2> QED BY <1>1, <2>1 DEF Skipped, SimpleDescReq, X, Exchange, ZdoKinds
  <1>4. \A again : D(again) = [i \in 1..Len(eps) |-> S(i, again)]
    OBVIOUS
  <1> HIDE DEF S
  <1>5. ASSUME NEW again \in Nat
        PROVE  /\ D(again) \in Seq(Exchange) /\ Len(D(again)) = Len(eps)
               /\ \A i \in 1..Len(eps) : D(again)[i].kind = "simple" /\ D(again)[i].dst = x.dst /\ D(again)[i].arg = eps[i] /\ D(again)[i] \in Exchange
    <2>1. D(again) \in [1..Len(eps) -> Exchange] /\ \A i \in 1..Len(eps) : D(again)[i] = S(i, again)
      BY <1>3
    <2> HIDE DEF D
    <2>2. D(again) \in Seq(Exchange) /\ Len(D(again)) = Len(eps)
      BY <1>1, <2>1
    <2> QED BY <1>3, <2>1, <2>2
  <1> HIDE DEF y
  <1>6. q = IF j.kind \in {"interview", "interviewAll"} THEN D(Retries) \o <<y>> ELSE IF j.kind = "capabilities" THEN D(0) ELSE <<>>
    BY DEF AfterEndpoints, May, y, S
  <1> HIDE DEF D, q
  <1>7. CASE j.kind \in {"interview", "interviewAll"}
    <2> DEFINE r == D(Retries)
    <2>1. r \in Seq(Exchange) /\ Len(r) = Len(eps) /\ \A i \in 1..Len(eps) : r[i].kind = "simple" /\ r[i].dst = x.dst /\ r[i].arg = eps[i]
      BY <1>5, SomeRetries
    <2> HIDE DEF r
    <2>2. q = r \o <<y>>
      BY <1>6, <1>7 DEF r
    <2>3. q \in Seq(Exchange) /\ Len(q) = Len(eps) + 1 /\ q[Len(eps) + 1] = y /\ \A i \in 1..Len(eps) : q[i] = r[i]
      BY <1>1, <1>2, <2>1, <2>2
    <2>4. \A i \in 1..Len(q) : i = Len(eps) + 1 \/ i \in 1..Len(eps)
      BY <1>1, <2>3
    <2>5. \A i \in 1..Len(q) : q[i].kind \in {"simple", "basic"} /\ q[i].dst = x.dst
      BY <1>2, <2>1, <2>3, <2>4
    <2>6. Plain(q)
      BY <2>3, <2>5 DEF Plain, Tables
    <2>7. AsksEndpoints(q, x.dst)
      BY <2>5 DEF AsksEndpoints
    <2>8. DescribesAll(q, x.dst, eps)
      BY <1>2, <2>1, <2>3 DEF DescribesAll
    <2> QED BY <2>6, <2>7, <2>8 DEF q
  <1>8. CASE j.kind \notin {"interview", "interviewAll"}
    <2>1. q = <<>> \/ q = D(0)
      BY <1>6, <1>8
    <2>2. q \in Seq(Exchange) /\ \A i \in 1..Len(q) : q[i].kind \in {"simple", "basic"} /\ q[i].dst = x.dst
      <3>1. CASE q = <<>>
        BY <3>1
      <3>2. CASE q = D(0)
        <4>1. q \in Seq(Exchange) /\ Len(q) = Len(eps) /\ \A i \in 1..Len(eps) : q[i].kind = "simple" /\ q[i].dst = x.dst
          BY <1>5, <3>2
        <4> QED BY <4>1
      <3> QED BY <2>1, <3>1, <3>2
    <2>3. AsksEndpoints(q, x.dst)
      BY <2>2 DEF AsksEndpoints
    <2>4. Plain(q)
      BY <2>2 DEF Plain, Tables
    <2> QED BY <1>8, <2>3, <2>4 DEF q
  <1> QED BY <1>7, <1>8

\* A table is asked for from its first row on.
LEMMA TableFromTheFirst ==
  ASSUME NEW g, Untouched(g), NEW y \in Exchange, IsTable(y), y.arg = 0
  PROVE  Begun(y, g[y.dst])
  <1>1. y.dst \in Devs /\ y.kind \in Tables /\ RowsOf(y.dst, y.kind) \in Nat
    BY SizeOfTable
  <1>2. g[y.dst].whole = {} /\ g[y.dst][y.kind] = <<>>
    BY <1>1 DEF Untouched
  <1>3. FirstRows(y.dst, 0) = <<>>
    BY DEF FirstRows
  <1> QED BY <1>1, <1>2, <1>3 DEF Begun

\* Both tables of links can be passed over.
LEMMA NeighborsAndRoutes ==
  ASSUME NEW d \in Devs
  PROVE  /\ Skipped(GetAllNeighbors(d)) \in Exchange /\ Skipped(GetAllRoutes(d)) \in Exchange
         /\ Skipped(GetAllNeighbors(d)).kind = "lqi" /\ Skipped(GetAllRoutes(d)).kind = "rtg"
         /\ Skipped(GetAllNeighbors(d)).dst = d /\ Skipped(GetAllRoutes(d)).dst = d
         /\ Skipped(GetAllNeighbors(d)).arg = 0 /\ Skipped(GetAllRoutes(d)).arg = 0
  BY DEF Skipped, GetAllNeighbors, GetAllRoutes, MgmtLqiReq, MgmtRtgReq, X, Exchange, ZdoKinds, Tables

\* A plan without lists of devices, in which nothing is asked twice.
LEMMA PlanOf ==
  ASSUME NEW g, NEW p \in Seq(Exchange), Untouched(g), \A i, k \in 1..Len(p) : Alike(p[i], p[k]) => i = k,
         \A i \in 1..Len(p) : p[i].kind # "devices" /\ (IsTable(p[i]) => p[i].arg = 0)
  PROVE  PlanOK(p, g)
  <1>1. ASSUME NEW i \in 1..Len(p), IsTable(p[i]) PROVE Begun(p[i], g[p[i].dst])
    <2>1. p[i] \in Exchange
      BY ONLY p \in Seq(Exchange), i \in 1..Len(p), ElementOfSeq
    <2> QED BY <1>1, <2>1, TableFromTheFirst
  <1> QED BY <1>1 DEF PlanOK

\* The interviews of every device are a plan.
LEMMA InterviewsArePlan ==
  ASSUME NEW g, Untouched(g)
  PROVE  PlanOK(Interviews(Known), g)
  <1> DEFINE p == Interviews(Known)
             L == Len(Known)
  <1>1. L \in Nat
    BY KnownAre
  <1>2. p \in Seq(Exchange) /\ Len(p) = 3 * L
        /\ \A n \in 1..3 * L : /\ (n + 2) \div 3 \in 1..L /\ p[n] \in Exchange /\ p[n].dst = Known[(n + 2) \div 3]
                               /\ p[n].kind = IF n % 3 = 1 THEN "ieee" ELSE IF n % 3 = 2 THEN "node" ELSE "active"
    BY InterviewsAre
  <1> HIDE DEF p
  <1>3. ASSUME NEW i \in 1..3 * L, NEW k \in 1..3 * L, Alike(p[i], p[k]) PROVE i = k
    <2>1. p[i].kind = "active" /\ p[k].kind = "active" /\ p[i].dst = p[k].dst
      BY <1>2, <1>3 DEF Alike, Tables
    <2>2. i % 3 \notin {1, 2} /\ k % 3 \notin {1, 2}
      BY <1>2, <2>1
    <2>3. (i + 2) \div 3 = (k + 2) \div 3
      BY <1>2, <2>1, KnownAre
    <2> QED BY <1>1, <2>2, <2>3
  <1>4. \A i \in 1..Len(p) : p[i].kind # "devices" /\ ~IsTable(p[i])
    BY <1>2 DEF IsTable, Tables
  <1>5. PlanOK(p, g)
    BY <1>2, <1>3, <1>4, PlanOf
  <1> QED BY <1>5 DEF p

\* So are the tables of links of every device.
LEMMA LinksArePlan ==
  ASSUME NEW g, Untouched(g)
  PROVE  PlanOK(<<Skipped(GetAllNeighbors(Coordinator))>> \o [i \in 1..Len(Known) |-> Skipped(GetAllNeighbors(Known[i]))], g)
  <1> DEFINE L == Len(Known)
             N(d) == Skipped(GetAllNeighbors(d))
             q == [i \in 1..L |-> N(Known[i])]
             p == <<N(Coordinator)>> \o q
  <1>1. L \in Nat /\ Coordinator \in Devs
    BY KnownAre, NetworkIsKnown
  <1>2. \A d \in Devs : N(d) \in Exchange /\ N(d).kind = "lqi" /\ N(d).dst = d /\ N(d).arg = 0
    BY NeighborsAndRoutes
  <1> HIDE DEF N
  <1>3. \A i \in 1..L : q[i] = N(Known[i]) /\ q[i] \in Exchange
    BY <1>2, KnownAre
  <1>4. q \in Seq(Exchange) /\ Len(q) = L
    <2>1. q \in [1..L -> Exchange]
      BY <1>2, KnownAre
    <2> HIDE DEF q
    <2> QED BY <1>1, <2>1
  <1> HIDE DEF q
  <1>5. p \in Seq(Exchange) /\ Len(p) = 1 + L /\ p[1] = N(Coordinator) /\ \A i \in 1..1 + L : i = 1 \/ (i - 1 \in 1..L /\ p[i] = q[i - 1])
    <2>1. <<N(Coordinator)>> \in Seq(Exchange) /\ Len(<<N(Coordinator)>>) = 1 /\ <<N(Coordinator)>>[1] = N(Coordinator)
      BY <1>1, <1>2
    <2> DEFINE s == <<N(Coordinator)>>
    <2> HIDE DEF s
    <2>2. s \in Seq(Exchange) /\ Len(s) = 1 /\ s[1] = N(Coordinator)
      BY <2>1 DEF s
    <2>3. s \o q \in Seq(Exchange) /\ Len(s \o q) = 1 + L /\ (s \o q)[1] = N(Coordinator) /\ \A i \in 1..1 + L : i = 1 \/ (i - 1 \in 1..L /\ (s \o q)[i] = q[i - 1])
      <3> DEFINE r == s \o q
      <3>1. r \in Seq(Exchange) /\ Len(r) = 1 + L /\ \A i \in 1..1 + L : r[i] = IF i <= 1 THEN s[i] ELSE q[i - 1]
        <4>1. r \in Seq(Exchange) /\ Len(r) = Len(s) + Len(q) /\ \A i \in 1..Len(s) + Len(q) : r[i] = IF i <= Len(s) THEN s[i] ELSE q[i - Len(s)]
          BY ONLY <1>4, <2>2, ConcatProperties
        <4> QED BY <1>4, <2>2, <4>1
      <3> HIDE DEF r
      <3>2. r[1] = N(Coordinator)
        BY <1>1, <2>2, <3>1
      <3>3. \A i \in 1..1 + L : i = 1 \/ (i - 1 \in 1..L /\ r[i] = q[i - 1])
        BY <1>1, <3>1
      <3> QED BY <3>1, <3>2, <3>3 DEF r
    <2> QED BY <2>3 DEF s
  <1> HIDE DEF p
  <1> DEFINE D(i) == IF i = 1 THEN Coordinator ELSE Known[i - 1]
  <1>6. \A i \in 1..1 + L : D(i) \in Devs /\ p[i] = N(D(i))
    <2> TAKE i \in 1..1 + L
    <2>1. CASE i = 1
      BY <1>1, <1>5, <2>1
    <2>2. CASE i # 1
      BY <1>3, <1>5, <2>2, KnownAre
    <2> QED BY <2>1, <2>2
  <1>7. \A i, k \in 1..1 + L : D(i) = D(k) => i = k
    <2> SUFFICES ASSUME NEW i \in 1..1 + L, NEW k \in 1..1 + L, D(i) = D(k) PROVE i = k
      OBVIOUS
    <2>1. (i = 1 \/ i - 1 \in 1..L) /\ (k = 1 \/ k - 1 \in 1..L)
      BY <1>1
    <2>2. CASE i = 1 \/ k = 1
      BY <2>1, <2>2, KnownAre
    <2>3. CASE i # 1 /\ k # 1
      <3>1. i - 1 = k - 1
        BY <2>1, <2>3, KnownAre
      <3> QED BY <3>1
    <2> QED BY <2>2, <2>3
  <1> HIDE DEF D
  <1>8. \A i \in 1..1 + L : p[i].kind = "lqi" /\ p[i].dst = D(i) /\ p[i].arg = 0
    BY <1>2, <1>6
  <1>9. \A i, k \in 1..Len(p) : Alike(p[i], p[k]) => i = k
    BY <1>5, <1>7, <1>8 DEF Alike
  <1>10. \A i \in 1..Len(p) : p[i].kind # "devices" /\ p[i].arg = 0
    BY <1>5, <1>8
  <1>11. PlanOK(p, g)
    BY <1>5, <1>9, <1>10, PlanOf
  <1> QED BY <1>11 DEF p, q, N

\* What follows from the list of devices is a plan.
LEMMA AfterDevicesIsPlan ==
  ASSUME NEW j \in Job, NEW g, Untouched(g)
  PROVE  PlanOK(AfterDevices(j), g)
  <1>1. PlanOK(<<>>, g)
    BY DEF PlanOK
  <1>2. CASE j.kind = "interviewAll"
    BY <1>2, InterviewsArePlan DEF AfterDevices
  <1>3. CASE j.kind = "health"
    BY <1>1, <1>3, LinksArePlan DEF AfterDevices, May
  <1>4. CASE j.kind = "deviceHealth"
    <2>1. j.dev \in Devs
      BY <1>4 DEF Job
    <2> DEFINE a == Skipped(GetAllNeighbors(j.dev))
               b == Skipped(GetAllRoutes(j.dev))
               i == IF j.dev = Coordinator THEN May(GetDeviceInfo) ELSE <<>>
    <2>2. a \in Exchange /\ b \in Exchange /\ a.kind = "lqi" /\ b.kind = "rtg" /\ a.arg = 0 /\ b.arg = 0 /\ a.dst = j.dev /\ b.dst = j.dev
      BY <2>1, NeighborsAndRoutes
    <2>3. Skipped(GetDeviceInfo) \in Exchange /\ Skipped(GetDeviceInfo).kind = "info"
      BY NetworkIsKnown DEF Skipped, GetDeviceInfo, Once, X, Exchange, ZdoKinds, Local
    <2>4. Plain(i)
      <3> DEFINE y == Skipped(GetDeviceInfo)
      <3>1. i = <<y>> \/ i = <<>>
        BY DEF May
      <3> HIDE DEF i, y
      <3>2. y \in Exchange /\ y.kind = "info"
        BY <2>3 DEF y
      <3>3. CASE i = <<>>
        BY <3>3 DEF Plain
      <3>4. CASE i = <<y>>
        BY <3>2, <3>4 DEF Plain, Tables
      <3> QED BY <3>1, <3>3, <3>4
    <2>5. AfterDevices(j) = i \o <<a, b>>
      BY <1>4 DEF AfterDevices
    <2> HIDE DEF a, b, i
    <2>6. <<a, b>> \in Seq(Exchange) /\ Len(<<a, b>>) = 2 /\ <<a, b>>[1] = a /\ <<a, b>>[2] = b
      BY <2>2
    <2> DEFINE s == <<a, b>>
    <2>7. PlanOK(s, g)
      <3> HIDE DEF s
      <3>1. s \in Seq(Exchange) /\ Len(s) = 2 /\ s[1] = a /\ s[2] = b
        BY <2>6 DEF s
      <3>2. \A n \in 1..Len(s) : n = 1 \/ n = 2
        BY <3>1
      <3>3. \A n, k \in 1..Len(s) : Alike(s[n], s[k]) => n = k
        BY <2>2, <3>1, <3>2 DEF Alike
      <3>4. \A n \in 1..Len(s) : s[n].kind # "devices" /\ s[n].arg = 0
        BY <2>2, <3>1, <3>2
      <3> QED BY <3>1, <3>3, <3>4, PlanOf
    <2> HIDE DEF s
    <2>8. PlanOK(i \o s, g)
      BY <2>4, <2>7, PlainFirst
    <2> QED BY <2>5, <2>8 DEF s
  <1>5. CASE j.kind \notin {"interviewAll", "health", "deviceHealth"}
    <2>1. AfterDevices(j) = <<>>
      BY <1>5 DEF AfterDevices
    <2> QED BY <1>1, <2>1
  <1> QED BY <1>2, <1>3, <1>4, <1>5

\* One exchange is a plan.
LEMMA OneIsPlan ==
  ASSUME NEW g, Untouched(g), NEW y \in Exchange, IsTable(y) => y.arg = 0
  PROVE  PlanOK(<<y>>, g)
  <1> DEFINE p == <<y>>
  <1>1. p \in Seq(Exchange) /\ Len(p) = 1 /\ \A i \in 1..Len(p) : i = 1 /\ p[i] = y
    OBVIOUS
  <1>2. IsTable(y) => Begun(y, g[y.dst])
    BY TableFromTheFirst
  <1> HIDE DEF p
  <1>3. \A i \in 1..Len(p) : IsTable(p[i]) => Begun(p[i], g[p[i].dst])
    BY <1>1, <1>2
  <1>4. \A i, k \in 1..Len(p) : Alike(p[i], p[k]) => i = k
    BY <1>1
  <1>5. \A i \in 1..Len(p) : p[i].kind = "devices" => i = Len(p) /\ Untouched(g) /\ \A k \in 1..Len(p) : ~IsTable(p[k])
    BY <1>1 DEF IsTable, Tables
  <1>6. PlanOK(p, g)
    BY <1>1, <1>3, <1>4, <1>5 DEF PlanOK
  <1> QED BY <1>6 DEF p

\* What a caller starts with is a plan.
LEMMA FirstPlanIsPlan ==
  ASSUME NEW j \in Job, NEW g, Untouched(g)
  PROVE  PlanOK(Plan(j), g)
  <1>1. Coordinator \in Devs
    BY NetworkIsKnown
  <1>2. GetDevices \in Exchange /\ GetDevices.kind = "devices"
    BY <1>1 DEF GetDevices, Once, X, Exchange, ZdoKinds, Local
  <1>3. PlanOK(<<GetDevices>>, g)
    BY <1>2, OneIsPlan DEF IsTable, Tables
  <1>4. Plain(GetNetworkInfo)
    <2>1. GetDeviceInfo \in Exchange /\ ExtNwkInfo \in Exchange /\ GetDeviceInfo.kind = "info" /\ ExtNwkInfo.kind = "extinfo"
      BY <1>1 DEF GetDeviceInfo, ExtNwkInfo, Once, X, Exchange, ZdoKinds, Local
    <2> DEFINE s == GetNetworkInfo
    <2>2. s \in Seq(Exchange) /\ Len(s) = 2 /\ s[1] = GetDeviceInfo /\ s[2] = ExtNwkInfo
      BY <2>1 DEF GetNetworkInfo
    <2> HIDE DEF s
    <2>3. \A i \in 1..Len(s) : i = 1 \/ i = 2
      BY <2>2
    <2>4. Plain(s)
      BY <2>1, <2>2, <2>3 DEF Plain, Tables
    <2> QED BY <2>4 DEF s
  <1>5. CASE j.kind = "interview"
    <2>1. j.dev \in Devs
      BY <1>5 DEF Job
    <2> DEFINE p == Interview(j.dev, FALSE)
    <2>2. p \in Seq(Exchange) /\ Len(p) = 3 /\ p[1].kind = "ieee" /\ p[2].kind = "node" /\ p[3].kind = "active"
      BY <2>1, InterviewIs
    <2> HIDE DEF p
    <2>3. \A i \in 1..Len(p) : i = 1 \/ i = 2 \/ i = 3
      BY <2>2
    <2>4. \A i \in 1..Len(p) : p[i].kind # "devices" /\ ~IsTable(p[i])
      BY <2>2, <2>3 DEF IsTable, Tables
    <2>5. \A i, k \in 1..Len(p) : Alike(p[i], p[k]) => i = k
      BY <2>2, <2>3 DEF Alike, Tables
    <2>6. PlanOK(p, g)
      BY <2>2, <2>4, <2>5, PlanOf
    <2> QED BY <1>5, <2>6 DEF Plan, p
  <1>6. CASE j.kind \in {"interviewAll", "deviceHealth"}
    BY <1>3, <1>6 DEF Plan
  <1>7. CASE j.kind = "capabilities"
    <2>1. j.dev \in Devs
      BY <1>7 DEF Job
    <2>2. ActiveEpReq(j.dev) \in Exchange /\ ~IsTable(ActiveEpReq(j.dev))
      BY <2>1 DEF ActiveEpReq, Once, X, Exchange, ZdoKinds, IsTable, Tables
    <2>3. PlanOK(<<ActiveEpReq(j.dev)>>, g)
      BY <2>2, OneIsPlan
    <2> QED BY <1>7, <2>3 DEF Plan
  <1>8. CASE j.kind = "networkInfo"
    <2>1. PlanOK(<<>>, g)
      BY DEF PlanOK
    <2>2. PlanOK(GetNetworkInfo \o <<>>, g)
      BY <1>4, <2>1, PlainFirst
    <2>3. GetNetworkInfo \o <<>> = GetNetworkInfo
      BY <1>4, ConcatEmptySeq DEF Plain
    <2> QED BY <1>8, <2>2, <2>3 DEF Plan
  <1>9. CASE j.kind = "health"
    <2>1. PlanOK(GetNetworkInfo \o <<GetDevices>>, g)
      BY <1>3, <1>4, PlainFirst
    <2> QED BY <1>9, <2>1 DEF Plan, GetNetworkHealth
  <1>10. CASE j.kind = "request"
    <2>1. PICK d \in Devs : j.request \in Requests(d)
      BY <1>10 DEF Job
    <2> DEFINE y == j.request
    <2>2. (y \in Exchange /\ y.arg = 0) \/ y \in {SimpleDescReq(d, ep) : ep \in 1..255}
      BY <1>1, <2>1 DEF Requests, IeeeAddrReq, NodeDescReq, ActiveEpReq, GetAllNeighbors, GetAllRoutes, GetAllBindings, MgmtLqiReq, MgmtRtgReq,
         MgmtBindReq, MgmtLeaveReq, BindReq, UnbindReq, MgmtPermitJoinReq, StartupFromApp, MgmtNwkUpdateReq, Once, X, Exchange, ZdoKinds, Tables, Local
    <2>3. y \in {SimpleDescReq(d, ep) : ep \in 1..255} => y \in Exchange /\ ~IsTable(y)
      <3> SUFFICES ASSUME NEW ep \in 1..255 PROVE SimpleDescReq(d, ep) \in Exchange /\ ~IsTable(SimpleDescReq(d, ep))
        OBVIOUS
      <3>1. ep \in Nat
        OBVIOUS
      <3> QED BY <3>1 DEF SimpleDescReq, X, Exchange, ZdoKinds, IsTable, Tables
    <2> HIDE DEF y
    <2>4. PlanOK(<<y>>, g)
      BY <2>2, <2>3, OneIsPlan
    <2> QED BY <1>10, <2>4 DEF Plan, y
  <1>11. j.kind \in {"interview", "interviewAll", "deviceHealth", "capabilities", "networkInfo", "health", "request"}
    BY DEF Job
  <1> QED BY <1>5, <1>6, <1>7, <1>8, <1>9, <1>10, <1>11

-----------------------------------------------------------------------------
\* An answer that is no page of a table keeps the plan a plan.
LEMMA AfterEndpointsIsPlain ==
  ASSUME NEW j, NEW x \in Exchange, NEW eps \in Seq(1..255)
  PROVE  Plain(AfterEndpoints(j, x, eps))
  BY AfterEndpointsIs, Zenon

LEMMA AfterEndpointsAre ==
  ASSUME NEW j, NEW x \in Exchange, NEW eps \in Seq(1..255)
  PROVE  /\ AsksEndpoints(AfterEndpoints(j, x, eps), x.dst)
         /\ j.kind \in {"interview", "interviewAll"} => DescribesAll(AfterEndpoints(j, x, eps), x.dst, eps)
  BY AfterEndpointsIs, Zenon

LEMMA AnswerKeepsPlain ==
  ASSUME NEW j \in Job, NEW g, NEW p, PlanOK(p, g), p # <<>>, KnowsOK(g), NEW f, Mine(f, p[1]), ~IsTable(p[1])
  PROVE  LET x == p[1]
             l == Learn(x, f, g[x.dst])
             h == [g EXCEPT ![x.dst] = l]
         IN  PlanOK(More(j, x, f, l) \o Tail(p), h) /\ KnowsOK(h)
  <1> DEFINE x == p[1]
             d == x.dst
             l == Learn(x, f, g[d])
             h == [g EXCEPT ![d] = l]
             t == Tail(p)
             m == More(j, x, f, l)
  <1>1. x \in Exchange /\ 1 \in 1..Len(p) /\ t \in Seq(Exchange) /\ (x.kind = "devices" => t = <<>>)
    BY RestOfPlan
  <1>2. d \in Devs /\ g[d] \in Knowledge /\ TrueOf(d, g[d]) /\ f.src = d /\ Network[d].eps \in Seq(1..255)
    <2>1. d \in Devs
      BY <1>1 DEF Exchange
    <2> QED BY <1>1, <2>1, NetworkIsKnown DEF KnowsOK, Mine
  <1>3. l \in Knowledge /\ TrueOf(d, l) /\ Tabled(g[d], l)
    BY <1>1, <1>2, PlainLearnt DEF IsTable
  <1> HIDE DEF l, x, t
  <1>4. PlanOK(t, h)
    BY <1>2, <1>3, RestStays DEF t, x, Tabled
  <1>5. KnowsOK(h) /\ h[d] = l /\ \A e \in Devs : e # d => h[e] = g[e]
    BY <1>2, <1>3, KnowsStays
  <1>6. PlanOK(m \o t, h)
    <2>1. CASE x.kind = "devices"
      <3>1. Untouched(g)
        BY <1>1, <2>1 DEF PlanOK, x
      <3>2. Untouched(h)
        <4>1. ASSUME NEW e \in Devs PROVE h[e].whole = {} /\ \A k \in Tables : h[e][k] = <<>>
          <5>1. g[e].whole = {} /\ \A k \in Tables : g[e][k] = <<>>
            BY <3>1 DEF Untouched
          <5>2. CASE e = d
            BY <1>3, <1>5, <5>1, <5>2 DEF Tabled
          <5>3. CASE e # d
            BY <1>5, <5>1, <5>3
          <5> QED BY <5>2, <5>3
        <4> HIDE DEF h
        <4> QED BY <4>1 DEF Untouched
      <3> HIDE DEF h
      <3>3. PlanOK(AfterDevices(j), h)
        BY <3>2, AfterDevicesIsPlan
      <3>4. m = AfterDevices(j)
        BY <2>1 DEF More, Tables
      <3>5. m \o t = m
        <4>1. m \in Seq(Exchange) /\ t = <<>>
          BY <1>1, <2>1, <3>3, <3>4 DEF PlanOK
        <4> HIDE DEF m
        <4> QED BY <4>1, ConcatEmptySeq
      <3> QED BY <3>3, <3>4, <3>5
    <2>2. CASE x.kind # "devices"
      <3>1. Plain(m)
        <4>1. CASE x.kind = "active"
          <5>1. m = AfterEndpoints(j, x, Network[d].eps)
            BY <1>2, <4>1 DEF More, Tables
          <5>2. x \in Exchange /\ Network[d].eps \in Seq(1..255)
            BY <1>1, <1>2
          <5>3. Plain(AfterEndpoints(j, x, Network[d].eps))
            BY ONLY <5>2, AfterEndpointsIsPlain, Zenon
          <5> QED BY <5>1, <5>3
        <4>2. CASE x.kind = "info" /\ j.kind = "deviceHealth"
          <5> DEFINE y == Skipped(ExtNwkInfo)
          <5>1. m = <<y>>
            BY <4>2 DEF More, Tables, May
          <5>2. y \in Exchange /\ y.kind = "extinfo"
            BY NetworkIsKnown DEF Skipped, ExtNwkInfo, Once, X, Exchange, ZdoKinds, Local
          <5> HIDE DEF y, m
          <5> QED BY <5>1, <5>2 DEF Plain, Tables
        <4>3. CASE x.kind # "active" /\ ~(x.kind = "info" /\ j.kind = "deviceHealth")
          <5>1. m = <<>>
            BY <2>2, <4>3 DEF More, IsTable, x
          <5> QED BY <5>1 DEF Plain
        <4> QED BY <4>1, <4>2, <4>3
      <3> HIDE DEF h, m
      <3> QED BY <1>4, <3>1, PlainFirst
    <2> QED BY <2>1, <2>2
  <1> QED BY <1>5, <1>6 DEF t, x, l

\* What is not answered keeps it one as well.
LEMMA MissKeeps ==
  ASSUME NEW g, NEW p, PlanOK(p, g), p # <<>>, KnowsOK(g)
  PROVE  LET h == [g EXCEPT ![p[1].dst] = Miss(p[1], g[p[1].dst])]
         IN  PlanOK(Tail(p), h) /\ PlanOK(FromNext(p), h) /\ KnowsOK(h)
  <1> DEFINE x == p[1]
             d == x.dst
             l == Miss(x, g[d])
             h == [g EXCEPT ![d] = l]
             t == Tail(p)
  <1>1. x \in Exchange /\ 1 \in 1..Len(p) /\ p \in Seq(Exchange)
    BY RestOfPlan DEF PlanOK
  <1>2. d \in Devs /\ g[d] \in Knowledge /\ TrueOf(d, g[d])
    <2>1. d \in Devs
      BY <1>1 DEF Exchange
    <2> QED BY <2>1 DEF KnowsOK
  <1>3. /\ l \in Knowledge /\ l.ieee = g[d].ieee /\ l.active = g[d].active
        /\ l.whole = g[d].whole /\ \A k \in Tables : k # x.kind => l[k] = g[d][k]
    BY <1>1, <1>2, MissIsKnowledge
  <1>4. x.kind \notin l.whole
    <2>1. CASE IsTable(x)
      BY <1>1, <1>3, <2>1 DEF PlanOK, Begun
    <2>2. CASE ~IsTable(x)
      BY <1>3, <2>2 DEF IsTable, Knowledge
    <2> QED BY <2>1, <2>2
  <1>5. TrueOf(d, l)
    <2>1. \A k \in l.whole : k \in Tables /\ k # x.kind /\ l[k] = g[d][k]
      BY <1>3, <1>4 DEF Knowledge
    <2> QED BY <1>2, <1>3, <2>1 DEF TrueOf
  <1> HIDE DEF l
  <1>6. PlanOK(t, h)
    BY <1>2, <1>3, <1>5, RestStays
  <1>7. KnowsOK(h)
    BY <1>2, <1>3, <1>5, KnowsStays
  <1>8. PlanOK(FromNext(p), h)
    <2>1. PICK k \in 1..(Len(t) + 1) : FromNext(p) = SubSeq(t, k, Len(t))
      BY <1>1, FromNextIsSuffix
    <2> HIDE DEF t, h
    <2> QED BY <1>6, <2>1, SuffixIsPlan
  <1> QED BY <1>6, <1>7, <1>8 DEF l

\* So does an answer about the Basic cluster.
LEMMA BasicKeeps ==
  ASSUME NEW g, NEW p, PlanOK(p, g), p # <<>>, KnowsOK(g)
  PROVE  LET h == [g EXCEPT ![p[1].dst] = [g[p[1].dst] EXCEPT !.basicRead = TRUE]]
         IN  PlanOK(Tail(p), h) /\ KnowsOK(h)
  <1> DEFINE d == p[1].dst
             l == [g[d] EXCEPT !.basicRead = TRUE]
  <1>1. p[1] \in Exchange
    BY RestOfPlan
  <1>2. d \in Devs /\ g[d] \in Knowledge /\ TrueOf(d, g[d])
    <2>1. d \in Devs
      BY <1>1 DEF Exchange
    <2> QED BY <2>1 DEF KnowsOK
  <1> HIDE DEF d
  <1>3. l \in Knowledge /\ l.ieee = g[d].ieee /\ l.active = g[d].active /\ l.whole = g[d].whole /\ \A k \in Tables : l[k] = g[d][k]
    BY <1>2 DEF Knowledge, Tables
  <1> HIDE DEF l
  <1>4. TrueOf(d, l)
    <2>1. \A k \in l.whole : k \in Tables /\ l[k] = g[d][k]
      BY <1>3 DEF Knowledge
    <2> QED BY <1>2, <1>3, <2>1 DEF TrueOf
  <1>5. PlanOK(Tail(p), [g EXCEPT ![d] = l])
    BY <1>2, <1>3, <1>4, RestStays DEF d
  <1>6. KnowsOK([g EXCEPT ![d] = l])
    BY <1>2, <1>3, <1>4, KnowsStays
  <1> QED BY <1>5, <1>6 DEF d, l

-----------------------------------------------------------------------------
\* An exchange of this kind with this device is still to come; the descriptors of
\* the first m endpoints of a device, and how many it has.
Has(p, kind, d) == \E i \in 1..Len(p) : p[i].kind = kind /\ p[i].dst = d
DescribedOf(d, m) == [i \in 1..m |-> [dev |-> d, ep |-> Network[d].eps[i]]]
EndsOf(d) == Len(Network[d].eps)

\* Of a device that told its endpoints, those not described yet are asked for next, and the Basic cluster after them.
Describes(p, h, d) ==
  /\ h.active = Network[d].eps /\ ~Has(p, "active", d)
  /\ Len(h.described) <= EndsOf(d) /\ h.described = DescribedOf(d, Len(h.described))
  /\ \A i \in 1..(EndsOf(d) - Len(h.described)) :
        i \in 1..Len(p) /\ p[i].kind = "simple" /\ p[i].dst = d /\ p[i].arg = Network[d].eps[Len(h.described) + i]
  /\ \A i \in 1..Len(p) : p[i].kind = "simple" /\ p[i].dst = d => i <= EndsOf(d) - Len(h.described)
  /\ h.basicRead \/ Network[d].eps = <<>> \/ Has(p, "basic", d)

\* Its endpoints are to be asked for, or told.
Endpoints(p, h, d) ==
  \/ Has(p, "active", d) /\ h.described = <<>> /\ ~Has(p, "simple", d) /\ ~Has(p, "basic", d)
  \/ Describes(p, h, d)

\* What is not known of a device is still to be asked, unless an error was noted.
Toward(p, h, d) ==
  \/ h.errors > 0
  \/ (h.ieee = d \/ Has(p, "ieee", d)) /\ (h.node = d \/ Has(p, "node", d)) /\ Endpoints(p, h, d)

\* Where a kind of exchange is in a plan.
LEMMA HasTail ==
  ASSUME NEW p \in Seq(Exchange), p # <<>>, NEW k, NEW d, p[1].kind # k \/ p[1].dst # d
  PROVE  Has(Tail(p), k, d) <=> Has(p, k, d)
  <1> DEFINE t == Tail(p)
  <1>1. Len(p) \in Nat \ {0} /\ Len(t) = Len(p) - 1 /\ \A i \in 1..Len(t) : t[i] = p[i + 1]
    OBVIOUS
  <1> HIDE DEF t
  <1>2. ASSUME NEW i \in 1..Len(p), p[i].kind = k, p[i].dst = d PROVE i - 1 \in 1..Len(t) /\ t[i - 1] = p[i]
    <2>1. i # 1
      BY <1>2
    <2>2. i - 1 \in 1..Len(t) /\ (i - 1) + 1 = i
      BY <1>1, <2>1
    <2> QED BY <1>1, <2>2
  <1>3. \A i \in 1..Len(t) : i + 1 \in 1..Len(p)
    BY <1>1
  <1>4. Has(t, k, d) => Has(p, k, d)
    BY <1>1, <1>3 DEF Has
  <1>5. Has(p, k, d) => Has(t, k, d)
    BY <1>2 DEF Has
  <1> QED BY <1>4, <1>5 DEF t

\* Two plans, one after the other, have what either has.
LEMMA HasBoth ==
  ASSUME NEW q \in Seq(Exchange), NEW t \in Seq(Exchange), NEW k, NEW d
  PROVE  Has(q \o t, k, d) <=> Has(q, k, d) \/ Has(t, k, d)
  <1> DEFINE p == q \o t
  <1>1. Len(q) \in Nat /\ Len(t) \in Nat /\ Len(p) = Len(q) + Len(t)
        /\ \A i \in 1..Len(q) + Len(t) : p[i] = IF i <= Len(q) THEN q[i] ELSE t[i - Len(q)]
    BY ConcatProperties, LenProperties
  <1> HIDE DEF p
  <1>2. ASSUME NEW i \in 1..Len(p) PROVE (i \in 1..Len(q) /\ p[i] = q[i]) \/ (i - Len(q) \in 1..Len(t) /\ p[i] = t[i - Len(q)])
    BY <1>1
  <1>3. \A i \in 1..Len(q) : i \in 1..Len(p) /\ p[i] = q[i]
    BY <1>1
  <1>4. ASSUME NEW i \in 1..Len(t) PROVE i + Len(q) \in 1..Len(p) /\ p[i + Len(q)] = t[i]
    <2>1. i + Len(q) \in 1..Len(q) + Len(t) /\ ~(i + Len(q) <= Len(q)) /\ (i + Len(q)) - Len(q) = i
      BY <1>1
    <2> QED BY <1>1, <2>1
  <1>5. Has(p, k, d) => Has(q, k, d) \/ Has(t, k, d)
    BY <1>2 DEF Has
  <1>6. Has(q, k, d) => Has(p, k, d)
    BY <1>3 DEF Has
  <1>7. Has(t, k, d) => Has(p, k, d)
    BY <1>4 DEF Has
  <1> QED BY <1>5, <1>6, <1>7 DEF p

\* The number of endpoints.
LEMMA EndsAre ==
  ASSUME NEW d \in Devs
  PROVE  /\ Network[d].eps \in Seq(1..255) /\ EndsOf(d) \in Nat /\ (EndsOf(d) = 0 <=> Network[d].eps = <<>>)
         /\ \A i \in 1..EndsOf(d) : Network[d].eps[i] \in 1..255
  <1>1. Network[d].eps \in Seq(1..255)
    BY NetworkIsKnown
  <1> DEFINE e == Network[d].eps
  <1> HIDE DEF e
  <1>2. e \in Seq(1..255)
    BY <1>1 DEF e
  <1>3. Len(e) \in Nat /\ (Len(e) = 0 <=> e = <<>>) /\ \A i \in 1..Len(e) : e[i] \in 1..255
    BY ONLY <1>2, LenProperties, ElementOfSeq, EmptySeq
  <1> QED BY <1>2, <1>3 DEF e, EndsOf

\* Descriptors are a sequence.
LEMMA DescribedIs ==
  ASSUME NEW h \in Knowledge
  PROVE  Len(h.described) \in Nat /\ h.described \in Seq([dev : Devs, ep : Nat])
  <1>1. h.described \in Seq([dev : Devs, ep : Nat])
    BY DEF Knowledge
  <1> QED BY <1>1, LenProperties

\* A device of which no endpoint is asked for next has all of them described, or told none yet.
LEMMA NoneIsNext ==
  ASSUME NEW p \in Seq(Exchange), p # <<>>, NEW h \in Knowledge, NEW d \in Devs, Describes(p, h, d), p[1].dst # d \/ p[1].kind # "simple"
  PROVE  Len(h.described) = EndsOf(d) /\ ~Has(p, "simple", d)
  <1> DEFINE m == Len(h.described)
  <1>1. EndsOf(d) \in Nat /\ m \in Nat
    BY EndsAre, DescribedIs
  <1>2. m <= EndsOf(d)
    BY DEF Describes
  <1>3. m = EndsOf(d)
    <2> SUFFICES ASSUME m # EndsOf(d) PROVE FALSE
      OBVIOUS
    <2>1. 1 \in 1..(EndsOf(d) - m)
      BY <1>1, <1>2
    <2> QED BY <2>1 DEF Describes
  <1>4. \A i \in 1..Len(p) : ~(p[i].kind = "simple" /\ p[i].dst = d)
    <2> SUFFICES ASSUME NEW i \in 1..Len(p), p[i].kind = "simple", p[i].dst = d PROVE FALSE
      OBVIOUS
    <2>1. i <= EndsOf(d) - m
      BY DEF Describes
    <2> QED BY <1>1, <1>3, <2>1
  <1> QED BY <1>3, <1>4 DEF Has

\* Nothing changes for its endpoints then.
LEMMA OtherEndpoints ==
  ASSUME NEW p \in Seq(Exchange), p # <<>>, NEW h \in Knowledge, NEW d \in Devs, Endpoints(p, h, d), p[1].dst # d \/ p[1].kind # "simple",
         NEW r \in Seq(Exchange), \A k \in {"active", "simple", "basic"} : Has(r, k, d) <=> Has(p, k, d),
         NEW l \in Knowledge, l.active = h.active, l.described = h.described, l.basicRead = h.basicRead
  PROVE  Endpoints(r, l, d)
  <1>1. CASE Has(p, "active", d) /\ h.described = <<>> /\ ~Has(p, "simple", d) /\ ~Has(p, "basic", d)
    BY <1>1 DEF Endpoints
  <1>2. CASE Describes(p, h, d)
    <2> DEFINE m == Len(h.described)
    <2>1. m \in Nat /\ EndsOf(d) \in Nat /\ m = EndsOf(d) /\ ~Has(p, "simple", d)
      BY <1>2, EndsAre, DescribedIs, NoneIsNext
    <2>2. \A i \in 1..Len(r) : ~(r[i].kind = "simple" /\ r[i].dst = d)
      BY <2>1 DEF Has
    <2>3. \A i \in 1..(EndsOf(d) - m) : FALSE
      BY <2>1
    <2>4. Describes(r, l, d)
      BY <1>2, <2>2, <2>3 DEF Describes
    <2> QED BY <2>4 DEF Endpoints
  <1> QED BY <1>1, <1>2 DEF Endpoints

\* Its endpoints are told.
LEMMA ToldEndpoints ==
  ASSUME NEW p \in Seq(Exchange), p # <<>>, NEW h \in Knowledge, NEW d \in Devs, Endpoints(p, h, d), p[1].dst = d, p[1].kind = "active",
         ~Has(Tail(p), "active", d),
         NEW l \in Knowledge, l.active = Network[d].eps, l.described = h.described, l.basicRead = h.basicRead,
         NEW q \in Seq(Exchange), Len(q) = EndsOf(d) + 1, q[EndsOf(d) + 1].kind = "basic", q[EndsOf(d) + 1].dst = d,
         \A i \in 1..EndsOf(d) : q[i].kind = "simple" /\ q[i].dst = d /\ q[i].arg = Network[d].eps[i]
  PROVE  Endpoints(q \o Tail(p), l, d)
  <1> DEFINE t == Tail(p)
             r == q \o t
             n == EndsOf(d)
  <1>1. Has(p, "active", d)
    BY DEF Has
  <1>2. h.described = <<>> /\ ~Has(p, "simple", d)
    BY <1>1 DEF Endpoints, Describes
  <1>3. t \in Seq(Exchange) /\ ~Has(t, "active", d) /\ ~Has(t, "simple", d)
    BY <1>2, HasTail
  <1> HIDE DEF t
  <1>4. n \in Nat /\ Len(l.described) = 0 /\ n - 0 = n
    BY <1>2, EndsAre
  <1>5. r \in Seq(Exchange) /\ Len(t) \in Nat /\ Len(r) = n + 1 + Len(t)
        /\ \A i \in 1..n + 1 + Len(t) : r[i] = IF i <= n + 1 THEN q[i] ELSE t[i - (n + 1)]
    <2>1. r \in Seq(Exchange) /\ Len(t) \in Nat /\ Len(r) = Len(q) + Len(t)
          /\ \A i \in 1..Len(q) + Len(t) : r[i] = IF i <= Len(q) THEN q[i] ELSE t[i - Len(q)]
      BY ONLY q \in Seq(Exchange), <1>3, ConcatProperties, LenProperties
    <2> QED BY <2>1
  <1>6. ~Has(q, "active", d)
    <2>1. \A i \in 1..Len(q) : i \in 1..n \/ i = n + 1
      BY <1>4
    <2> QED BY <2>1 DEF Has
  <1>7. ~Has(r, "active", d)
    BY <1>3, <1>6, HasBoth
  <1>8. Has(q, "basic", d)
    <2>1. n + 1 \in 1..Len(q)
      BY <1>4
    <2> QED BY <2>1 DEF Has
  <1>9. Has(r, "basic", d)
    BY <1>3, <1>8, HasBoth
  <1>10. l.described = DescribedOf(d, Len(l.described))
    BY <1>2, <1>4 DEF DescribedOf
  <1>11. \A i \in 1..n : i \in 1..Len(r) /\ r[i] = q[i]
    BY <1>4, <1>5
  <1>12. ASSUME NEW i \in 1..Len(r), r[i].kind = "simple", r[i].dst = d PROVE i <= n
    <2> SUFFICES ASSUME ~(i <= n) PROVE FALSE
      OBVIOUS
    <2>1. CASE i = n + 1
      <3>1. r[i] = q[n + 1]
        BY <1>4, <1>5, <2>1
      <3> QED BY <1>12, <3>1
    <2>2. CASE i # n + 1
      <3>1. i - (n + 1) \in 1..Len(t) /\ r[i] = t[i - (n + 1)]
        BY <1>4, <1>5, <2>2
      <3> QED BY <1>3, <1>12, <3>1 DEF Has
    <2> QED BY <2>1, <2>2
  <1> HIDE DEF r
  <1>13. Describes(r, l, d)
    <2>1. Len(l.described) <= n /\ \A i \in 1..Len(r) : r[i].kind = "simple" /\ r[i].dst = d => i <= n - Len(l.described)
      BY <1>4, <1>12
    <2>2. \A i \in 1..(n - Len(l.described)) :
            i \in 1..Len(r) /\ r[i].kind = "simple" /\ r[i].dst = d /\ r[i].arg = Network[d].eps[Len(l.described) + i]
      <3> TAKE i \in 1..(n - Len(l.described))
      <3>1. i \in 1..n /\ Len(l.described) + i = i
        BY <1>4
      <3> QED BY <1>11, <3>1
    <2> QED BY <1>7, <1>9, <1>10, <2>1, <2>2 DEF Describes
  <1> QED BY <1>13 DEF Endpoints, r, t

\* One endpoint more is described.
LEMMA DescribedOne ==
  ASSUME NEW p \in Seq(Exchange), p # <<>>, NEW h \in Knowledge, NEW d \in Devs, Endpoints(p, h, d), p[1].dst = d, p[1].kind = "simple",
         NEW l \in Knowledge, l.active = h.active, l.basicRead = h.basicRead, l.described = Append(h.described, [dev |-> d, ep |-> p[1].arg])
  PROVE  Endpoints(Tail(p), l, d)
  <1> DEFINE t == Tail(p)
             m == Len(h.described)
             n == EndsOf(d)
             D(i) == [dev |-> d, ep |-> Network[d].eps[i]]
  <1>1. Len(p) \in Nat \ {0} /\ t \in Seq(Exchange) /\ Len(t) = Len(p) - 1 /\ \A i \in 1..Len(t) : t[i] = p[i + 1]
    OBVIOUS
  <1>2. \A k \in {"active", "basic"} : Has(t, k, d) <=> Has(p, k, d)
    BY HasTail
  <1> HIDE DEF t
  <1>3. Has(p, "simple", d)
    BY <1>1 DEF Has
  <1>4. Describes(p, h, d)
    BY <1>3 DEF Endpoints
  <1>5. m \in Nat /\ n \in Nat /\ m <= n /\ h.described \in Seq([dev : Devs, ep : Nat]) /\ h.described = DescribedOf(d, m)
    BY <1>4, EndsAre, DescribedIs DEF Describes
  <1>6. 1 <= n - m
    <2>1. 1 \in 1..Len(p)
      BY <1>1
    <2> QED BY <1>4, <2>1 DEF Describes
  <1>7. p[1].arg = Network[d].eps[m + 1]
    <2>1. 1 \in 1..(n - m)
      BY <1>5, <1>6
    <2> QED BY <1>4, <2>1 DEF Describes
  <1>8. Len(l.described) = m + 1 /\ l.described = DescribedOf(d, m + 1)
    <2>1. D(m + 1) = [dev |-> d, ep |-> p[1].arg]
      BY <1>7
    <2>2. l.described = Append(h.described, D(m + 1))
      BY <2>1
    <2>3. \A i \in 1..m : h.described[i] = D(i)
      BY <1>5 DEF DescribedOf
    <2>4. DescribedOf(d, m + 1) = [i \in 1..m + 1 |-> D(i)]
      BY DEF DescribedOf
    <2>5. D(m + 1) \in [dev : Devs, ep : Nat]
      <3>1. p[1] \in Exchange
        BY <1>1
      <3>2. p[1].arg \in Nat
        BY <3>1 DEF Exchange
      <3> QED BY <2>1, <3>2
    <2> HIDE DEF D
    <2> DEFINE o == h.described
               w == l.described
               v == DescribedOf(d, m + 1)
    <2>6. w \in Seq([dev : Devs, ep : Nat]) /\ Len(w) = Len(o) + 1 /\ (\A i \in 1..Len(o) : w[i] = o[i])
          /\ w[Len(o) + 1] = D(m + 1)
      BY ONLY <1>5, <2>2, <2>5, AppendProperties
    <2>7. Len(w) = m + 1
      BY <2>6
    <2>8. \A i \in 1..m + 1 : w[i] = D(i)
      <3> TAKE i \in 1..m + 1
      <3>1. i \in 1..m \/ i = m + 1
        BY ONLY m \in Nat, i \in 1..m + 1
      <3>2. CASE i \in 1..m
        BY ONLY <2>3, <2>6, <3>2
      <3>3. CASE i = m + 1
        <4>1. w[m + 1] = D(m + 1)
          BY <2>6
        <4>2. w[i] = w[m + 1] /\ D(i) = D(m + 1)
          BY ONLY <3>3, Zenon
        <4> QED BY <4>1, <4>2
      <3> QED BY <3>1, <3>2, <3>3
    <2>9. w = [i \in 1..m + 1 |-> D(i)]
      <3>1. w = [i \in 1..Len(w) |-> w[i]]
        BY <2>6
      <3> QED BY <2>7, <2>8, <3>1
    <2> QED BY <2>4, <2>7, <2>9
  <1>9. ASSUME NEW i \in 1..(n - (m + 1))
        PROVE  i \in 1..Len(t) /\ t[i].kind = "simple" /\ t[i].dst = d /\ t[i].arg = Network[d].eps[(m + 1) + i]
    <2>1. i + 1 \in 1..(n - m) /\ m + (i + 1) = (m + 1) + i
      <3>1. m \in Nat /\ n \in Nat
        BY <1>5
      <3> HIDE DEF m, n
      <3> QED BY ONLY <3>1, i \in 1..(n - (m + 1))
    <2>2. i + 1 \in 1..Len(p) /\ p[i + 1].kind = "simple" /\ p[i + 1].dst = d /\ p[i + 1].arg = Network[d].eps[m + (i + 1)]
      BY <1>4, <2>1 DEF Describes
    <2>3. i \in 1..Len(t)
      BY <1>1, <2>2
    <2>4. t[i] = p[i + 1]
      BY <1>1, <2>3
    <2> QED BY <2>1, <2>2, <2>3, <2>4
  <1>10. ASSUME NEW i \in 1..Len(t), t[i].kind = "simple", t[i].dst = d PROVE i <= n - (m + 1)
    <2>1. i + 1 \in 1..Len(p) /\ p[i + 1] = t[i]
      BY <1>1
    <2>2. i + 1 <= n - m
      BY <1>4, <1>10, <2>1 DEF Describes
    <2> QED BY <1>5, <2>2
  <1>11. m + 1 <= n
    BY <1>5, <1>6
  <1>12. Describes(t, l, d)
    BY <1>2, <1>4, <1>8, <1>9, <1>10, <1>11 DEF Describes
  <1> QED BY <1>12 DEF Endpoints, t

\* The Basic cluster is read, or there is none.
LEMMA BasicRead ==
  ASSUME NEW p \in Seq(Exchange), p # <<>>, NEW h \in Knowledge, NEW d \in Devs, Endpoints(p, h, d), p[1].dst = d, p[1].kind = "basic",
         NEW l \in Knowledge, l.active = h.active, l.described = h.described, l.basicRead = TRUE \/ (h.described = <<>> /\ l.basicRead = h.basicRead)
  PROVE  Endpoints(Tail(p), l, d)
  <1> DEFINE t == Tail(p)
             m == Len(h.described)
  <1>1. \A k \in {"active", "simple"} : Has(t, k, d) <=> Has(p, k, d)
    BY HasTail
  <1>2. Has(p, "basic", d)
    BY DEF Has
  <1>3. Describes(p, h, d)
    BY <1>2 DEF Endpoints
  <1>4. m \in Nat /\ EndsOf(d) \in Nat /\ m = EndsOf(d) /\ ~Has(p, "simple", d)
    BY <1>3, EndsAre, DescribedIs, NoneIsNext
  <1>5. l.basicRead \/ Network[d].eps = <<>>
    BY <1>4, EndsAre
  <1>6. \A i \in 1..Len(t) : ~(t[i].kind = "simple" /\ t[i].dst = d)
    BY <1>1, <1>4 DEF Has
  <1>7. \A i \in 1..(EndsOf(d) - m) : FALSE
    BY <1>4
  <1> HIDE DEF t
  <1>8. Describes(t, l, d)
    BY <1>1, <1>3, <1>5, <1>6, <1>7 DEF Describes
  <1> QED BY <1>8 DEF Endpoints, t

\* The tasks that interview, what an interview asks for, and of which devices.
Interviewing == {"interview", "interviewAll"}
InterviewKinds == {"ieee", "node", "active", "simple", "basic"}
Targets(j) == IF j.kind = "interview" THEN {j.dev} ELSE {Known[i] : i \in 1..Len(Known)}

\* What an interview lacks is in its plan; that of every device may still lack the
\* list of them.
Nears(j, p, g) ==
  /\ \A i \in 1..Len(p) : p[i].kind \in InterviewKinds \cup {"devices"}
  /\ \A i \in 1..Len(p) : p[i].kind = "devices" => i = 1 /\ p[i].otherwise = "abort" /\ j.kind = "interviewAll" /\ \A d \in Devs : g[d].described = <<>>
  /\ (\A i \in 1..Len(p) : p[i].kind # "devices") => \A d \in Targets(j) : Toward(p, g[d], d)

\* Devices are interviewed.
LEMMA TargetsAreDevs ==
  ASSUME NEW j \in Job, j.kind \in Interviewing
  PROVE  Targets(j) \subseteq Devs
  <1>1. CASE j.kind = "interview"
    <2>1. j.dev \in Devs
      BY <1>1 DEF Job
    <2> QED BY <1>1, <2>1 DEF Targets
  <1>2. CASE j.kind = "interviewAll"
    BY <1>2, KnownAre DEF Targets
  <1> QED BY <1>1, <1>2 DEF Interviewing

\* Of a device that is not the head's nothing changes.
LEMMA OtherToward ==
  ASSUME NEW p \in Seq(Exchange), p # <<>>, NEW h \in Knowledge, NEW d \in Devs, Toward(p, h, d), p[1].dst # d,
         NEW r \in Seq(Exchange), \A k \in InterviewKinds : Has(r, k, d) <=> Has(p, k, d)
  PROVE  Toward(r, h, d)
  <1>1. CASE h.errors > 0
    BY <1>1 DEF Toward
  <1>2. CASE ~(h.errors > 0)
    <2>1. \A k \in {"active", "simple", "basic"} : Has(r, k, d) <=> Has(p, k, d)
      BY DEF InterviewKinds
    <2>2. Endpoints(p, h, d)
      BY <1>2 DEF Toward
    <2>3. Endpoints(r, h, d)
      BY <2>1, <2>2, OtherEndpoints
    <2> QED BY <1>2, <2>3 DEF Toward, InterviewKinds
  <1> QED BY <1>1, <1>2

\* An answer brings the interview nearer to its end.
LEMMA AnswerToward ==
  ASSUME NEW j, j.kind \in Interviewing, NEW p \in Seq(Exchange), p # <<>>, NEW d \in Devs, p[1].dst = d, p[1] \in Exchange,
         p[1].kind \in {"ieee", "node", "active", "simple"}, NEW h \in Knowledge, TrueOf(d, h), NEW f, Mine(f, p[1]), Toward(p, h, d),
         Tail(p) \in Seq(Exchange), \A i \in 1..Len(Tail(p)) : ~Alike(p[1], Tail(p)[i])
  PROVE  LET l == Learn(p[1], f, h)
         IN  Toward(More(j, p[1], f, l) \o Tail(p), l, d)
  <1> DEFINE x == p[1]
             l == Learn(x, f, h)
             t == Tail(p)
             m == More(j, x, f, l)
  <1>1. /\ l \in Knowledge /\ l.errors = h.errors /\ l.basicRead = h.basicRead
        /\ l.ieee = IF x.kind = "ieee" THEN d ELSE h.ieee
        /\ l.node = IF x.kind = "node" THEN d ELSE h.node
        /\ l.active = IF x.kind = "active" THEN Network[d].eps ELSE h.active
        /\ l.described = IF x.kind = "simple" THEN Append(h.described, [dev |-> d, ep |-> x.arg]) ELSE h.described
    BY PlainLearnt DEF Tables
  <1>2. \A k : k # x.kind => (Has(t, k, d) <=> Has(p, k, d))
    BY HasTail
  <1> HIDE DEF l
  <1>3. CASE h.errors > 0
    BY <1>1, <1>3 DEF Toward, l
  <1>4. CASE ~(h.errors > 0) /\ x.kind = "active"
    <2>1. m = AfterEndpoints(j, x, Network[d].eps)
      BY <1>4 DEF More, Tables, Mine
    <2>2. Network[d].eps \in Seq(1..255)
      BY EndsAre
    <2> DEFINE q == AfterEndpoints(j, x, Network[d].eps)
    <2>3. /\ Plain(q) /\ Len(q) = EndsOf(d) + 1 /\ q[EndsOf(d) + 1].kind = "basic" /\ q[EndsOf(d) + 1].dst = d
          /\ \A i \in 1..EndsOf(d) : q[i].kind = "simple" /\ q[i].dst = d /\ q[i].arg = Network[d].eps[i]
      <3>1. Plain(q)
        BY <2>2, AfterEndpointsIsPlain, Zenon
      <3>2. j.kind \in {"interview", "interviewAll"}
        BY DEF Interviewing
      <3>3. DescribesAll(q, d, Network[d].eps)
        BY <2>2, <3>2, AfterEndpointsAre, Zenon
      <3> HIDE DEF q
      <3> QED BY <3>1, <3>3 DEF DescribesAll, EndsOf
    <2>4. \A i \in 1..Len(q) : q[i].kind \in {"simple", "basic"}
      BY <2>2, AfterEndpointsAre DEF AsksEndpoints
    <2> HIDE DEF q
    <2>5. q \in Seq(Exchange)
      BY <2>3 DEF Plain
    <2>6. ~Has(t, "active", d)
      BY <1>4 DEF Has, Alike
    <2>7. Endpoints(p, h, d)
      BY <1>4 DEF Toward
    <2>8. Endpoints(q \o t, l, d)
      BY <1>1, <1>4, <2>3, <2>5, <2>6, <2>7, ToldEndpoints
    <2>9. \A k \in {"ieee", "node"} : Has(q \o t, k, d) <=> Has(t, k, d)
      <3>1. \A k \in {"ieee", "node"} : ~Has(q, k, d)
        BY <2>4 DEF Has
      <3> HIDE DEF t
      <3> QED BY <2>5, <3>1, HasBoth DEF t
    <2>10. l.ieee = d \/ Has(q \o t, "ieee", d)
      BY <1>1, <1>2, <1>4, <2>9 DEF Toward
    <2>11. l.node = d \/ Has(q \o t, "node", d)
      BY <1>1, <1>2, <1>4, <2>9 DEF Toward
    <2>12. Toward(q \o t, l, d)
      BY <2>8, <2>10, <2>11 DEF Toward
    <2> QED BY <2>1, <2>12 DEF l, q
  <1>5. CASE ~(h.errors > 0) /\ x.kind # "active"
    <2>1. m = <<>>
      BY <1>5 DEF More, Tables
    <2>2. m \o t = t
      BY <2>1
    <2>3. Endpoints(p, h, d)
      BY <1>5 DEF Toward
    <2>4. Endpoints(t, l, d)
      <3>1. CASE x.kind = "simple"
        BY <1>1, <1>5, <2>3, <3>1, DescribedOne
      <3>2. CASE x.kind # "simple"
        <4>1. \A k \in {"active", "simple", "basic"} : Has(t, k, d) <=> Has(p, k, d)
          BY <1>2, <1>5, <3>2
        <4>2. l.active = h.active /\ l.described = h.described /\ l.basicRead = h.basicRead /\ l \in Knowledge
          BY <1>1, <1>5, <3>2
        <4> HIDE DEF t
        <4>3. t \in Seq(Exchange)
          BY DEF t
        <4> QED BY <2>3, <3>2, <4>1, <4>2, <4>3, OtherEndpoints
      <3> QED BY <3>1, <3>2
    <2>5. l.ieee = d \/ Has(t, "ieee", d)
      BY <1>1, <1>2, <1>5 DEF Toward
    <2>6. l.node = d \/ Has(t, "node", d)
      BY <1>1, <1>2, <1>5 DEF Toward
    <2>7. Toward(t, l, d)
      BY <2>4, <2>5, <2>6 DEF Toward
    <2> QED BY <2>2, <2>7 DEF l
  <1> QED BY <1>3, <1>4, <1>5

\* So does one that passes to the Basic cluster.
LEMMA BasicToward ==
  ASSUME NEW p \in Seq(Exchange), p # <<>>, NEW d \in Devs, p[1].dst = d, p[1].kind = "basic", NEW h \in Knowledge, Toward(p, h, d),
         NEW l \in Knowledge, l.active = h.active, l.described = h.described, l.basicRead = TRUE \/ (h.described = <<>> /\ l.basicRead = h.basicRead),
         l.ieee = h.ieee, l.node = h.node, l.errors = h.errors
  PROVE  Toward(Tail(p), l, d)
  <1>1. \A k : k # "basic" => (Has(Tail(p), k, d) <=> Has(p, k, d))
    BY HasTail
  <1>2. CASE h.errors > 0
    BY <1>2 DEF Toward
  <1>3. CASE ~(h.errors > 0)
    <2>1. Endpoints(Tail(p), l, d)
      BY <1>3, BasicRead DEF Toward
    <2>2. (l.ieee = d \/ Has(Tail(p), "ieee", d)) /\ (l.node = d \/ Has(Tail(p), "node", d))
      BY <1>1, <1>3 DEF Toward
    <2> QED BY <2>1, <2>2 DEF Toward
  <1> QED BY <1>2, <1>3

\* All devices are interviewed.
LEMMA AllToward ==
  ASSUME NEW i \in 1..Len(Known), NEW h, h.described = <<>>
  PROVE  Toward(Interviews(Known), h, Known[i])
  <1> DEFINE p == Interviews(Known)
             L == Len(Known)
             d == Known[i]
  <1>1. L \in Nat
    BY KnownAre
  <1>2. Len(p) = 3 * L
        /\ \A n \in 1..3 * L : /\ (n + 2) \div 3 \in 1..L /\ p[n] \in Exchange /\ p[n].dst = Known[(n + 2) \div 3]
                               /\ p[n].kind = IF n % 3 = 1 THEN "ieee" ELSE IF n % 3 = 2 THEN "node" ELSE "active"
    BY InterviewsAre
  <1> HIDE DEF p
  <1>3. Has(p, "ieee", d)
    <2> DEFINE n == 3 * i - 2
    <2>1. n \in 1..3 * L /\ (n + 2) \div 3 = i /\ n % 3 = 1
      BY <1>1
    <2> HIDE DEF n
    <2>2. p[n].kind = "ieee" /\ p[n].dst = d
      BY <1>2, <2>1
    <2> QED BY <1>2, <2>1, <2>2 DEF Has
  <1>4. Has(p, "node", d)
    <2> DEFINE n == 3 * i - 1
    <2>1. n \in 1..3 * L /\ (n + 2) \div 3 = i /\ n % 3 = 2
      BY <1>1
    <2> HIDE DEF n
    <2>2. p[n].kind = "node" /\ p[n].dst = d
      BY <1>2, <2>1
    <2> QED BY <1>2, <2>1, <2>2 DEF Has
  <1>5. Has(p, "active", d)
    <2> DEFINE n == 3 * i
    <2>1. n \in 1..3 * L /\ (n + 2) \div 3 = i /\ n % 3 = 0
      BY <1>1
    <2> HIDE DEF n
    <2>2. p[n].kind = "active" /\ p[n].dst = d
      BY <1>2, <2>1
    <2> QED BY <1>2, <2>1, <2>2 DEF Has
  <1>6. ~Has(p, "simple", d) /\ ~Has(p, "basic", d)
    BY <1>2 DEF Has
  <1> QED BY <1>3, <1>4, <1>5, <1>6 DEF Toward, Endpoints, p

\* What a caller does and knows, as it should be.
Fine(j, p, g) == PlanOK(p, g) /\ KnowsOK(g) /\ (j.kind \in Interviewing => Nears(j, p, g))

\* The plan without its head, when there is no list of devices to come.
LEMMA NearsRest ==
  ASSUME NEW j \in Job, j.kind \in Interviewing, NEW p \in Seq(Exchange), p # <<>>, NEW g, KnowsOK(g), Nears(j, p, g), p[1].kind # "devices",
         NEW l \in Knowledge,
         NEW r \in Seq(Exchange), \A k \in InterviewKinds, d \in Devs : d # p[1].dst => (Has(r, k, d) <=> Has(p, k, d)),
         p[1].dst \in Targets(j) => Toward(r, l, p[1].dst),
         \A i \in 1..Len(r) : r[i].kind \in InterviewKinds
  PROVE  Nears(j, r, [g EXCEPT ![p[1].dst] = l])
  <1> DEFINE x == p[1]
             h == [g EXCEPT ![x.dst] = l]
  <1>1. \A i \in 1..Len(p) : p[i].kind # "devices"
    BY DEF Nears
  <1>2. x \in Exchange
    OBVIOUS
  <1>3. x.dst \in Devs
    BY <1>2 DEF Exchange
  <1>4. h[x.dst] = l /\ \A d \in Devs : d # x.dst => h[d] = g[d] /\ g[d] \in Knowledge
    BY <1>3 DEF KnowsOK
  <1>5. ASSUME NEW d \in Targets(j) PROVE Toward(r, h[d], d)
    <2>1. d \in Devs /\ Toward(p, g[d], d)
      BY <1>1, TargetsAreDevs DEF Nears
    <2>2. CASE d = x.dst
      BY <1>4, <2>2
    <2>3. CASE d # x.dst
      <3>1. g[d] \in Knowledge /\ h[d] = g[d] /\ \A k \in InterviewKinds : Has(r, k, d) <=> Has(p, k, d)
        BY <1>4, <2>1, <2>3
      <3>2. Toward(r, g[d], d)
        BY <2>1, <2>3, <3>1, OtherToward
      <3> QED BY <3>1, <3>2
    <2> QED BY <2>2, <2>3
  <1>6. \A i \in 1..Len(r) : r[i].kind # "devices"
    BY DEF InterviewKinds
  <1> HIDE DEF h
  <1>7. Nears(j, r, h)
    BY <1>5, <1>6 DEF Nears
  <1> QED BY <1>7 DEF h

\* What is in a plan after its head changes for the head's device only.
LEMMA OthersStay ==
  ASSUME NEW p \in Seq(Exchange), p # <<>>, NEW q \in Seq(Exchange), \A i \in 1..Len(q) : q[i].dst = p[1].dst,
         NEW k, NEW d, d # p[1].dst
  PROVE  Has(q \o Tail(p), k, d) <=> Has(p, k, d)
  <1>1. ~Has(q, k, d)
    BY DEF Has
  <1>2. Tail(p) \in Seq(Exchange)
    OBVIOUS
  <1>3. Has(q \o Tail(p), k, d) <=> Has(Tail(p), k, d)
    BY <1>1, <1>2, HasBoth
  <1> QED BY <1>3, HasTail

\* What a suffix of a plan has of a device, when nothing of that device is before it.
LEMMA SuffixHas ==
  ASSUME NEW t \in Seq(Exchange), NEW n \in 1..(Len(t) + 1), NEW k, NEW d, \A i \in 1..(n - 1) : t[i].dst # d
  PROVE  Has(SubSeq(t, n, Len(t)), k, d) <=> Has(t, k, d)
  <1> DEFINE r == SubSeq(t, n, Len(t))
  <1>1. Len(t) \in Nat /\ Len(r) = Len(t) - n + 1 /\ \A i \in 1..Len(r) : r[i] = t[n + i - 1]
    OBVIOUS
  <1> HIDE DEF r
  <1>2. \A i \in 1..Len(r) : n + i - 1 \in 1..Len(t)
    BY <1>1
  <1>3. ASSUME NEW i \in 1..Len(t), t[i].dst = d PROVE i - n + 1 \in 1..Len(r) /\ r[i - n + 1] = t[i]
    <2>1. i >= n
      BY <1>1, <1>3
    <2>2. i - n + 1 \in 1..Len(r) /\ n + (i - n + 1) - 1 = i
      BY <1>1, <2>1
    <2> QED BY <1>1, <2>2
  <1>4. Has(r, k, d) => Has(t, k, d)
    BY <1>1, <1>2 DEF Has
  <1>5. Has(t, k, d) => Has(r, k, d)
    BY <1>3 DEF Has
  <1> QED BY <1>4, <1>5 DEF r

\* An answer.
LEMMA AnswerNears ==
  ASSUME NEW j \in Job, j.kind \in Interviewing, NEW g, NEW p, PlanOK(p, g), KnowsOK(g), Nears(j, p, g), p # <<>>, NEW f, Mine(f, p[1]), p[1].kind # "basic"
  PROVE  LET l == Learn(p[1], f, g[p[1].dst])
         IN  Nears(j, More(j, p[1], f, l) \o Tail(p), [g EXCEPT ![p[1].dst] = l])
  <1> DEFINE x == p[1]
             d == x.dst
             l == Learn(x, f, g[d])
             h == [g EXCEPT ![d] = l]
             t == Tail(p)
             m == More(j, x, f, l)
  <1>1. /\ x \in Exchange /\ 1 \in 1..Len(p) /\ t \in Seq(Exchange) /\ p \in Seq(Exchange) /\ (x.kind = "devices" => t = <<>>)
        /\ \A i \in 1..Len(t) : t[i] = p[i + 1] /\ i + 1 \in 1..Len(p) /\ ~Alike(x, t[i])
    BY RestOfPlan DEF PlanOK
  <1>2. d \in Devs /\ g[d] \in Knowledge /\ TrueOf(d, g[d]) /\ f.src = d /\ Network[d].eps \in Seq(1..255)
    <2>1. d \in Devs
      BY <1>1 DEF Exchange
    <2> QED BY <1>1, <2>1, NetworkIsKnown DEF KnowsOK, Mine
  <1>3. x.kind \in InterviewKinds \cup {"devices"}
    BY <1>1 DEF Nears
  <1>4. l \in Knowledge /\ (x.kind # "simple" => l.described = g[d].described)
    BY <1>1, <1>2, <1>3, PlainLearnt DEF InterviewKinds, Tables
  <1>5. CASE x.kind = "devices"
    <2>1. j.kind = "interviewAll" /\ \A e \in Devs : g[e].described = <<>>
      BY <1>1, <1>5 DEF Nears
    <2>2. m = Interviews(Known)
      BY <1>5, <2>1 DEF More, Tables, AfterDevices
    <2> DEFINE q == Interviews(Known)
    <2>3. q \in Seq(Exchange) /\ \A i \in 1..Len(q) : q[i].kind \in InterviewKinds /\ q[i].kind # "devices"
      <3>1. q \in Seq(Exchange) /\ Len(q) = 3 * Len(Known)
            /\ \A i \in 1..3 * Len(Known) : q[i].kind = IF i % 3 = 1 THEN "ieee" ELSE IF i % 3 = 2 THEN "node" ELSE "active"
        BY InterviewsAre
      <3> HIDE DEF q
      <3> QED BY <3>1 DEF InterviewKinds
    <2> HIDE DEF q
    <2>4. m \o t = q
      BY <1>1, <1>5, <2>2, <2>3, ConcatEmptySeq DEF q
    <2>5. \A e \in Devs : h[e].described = <<>>
      <3> TAKE e \in Devs
      <3>1. CASE e = d
        BY <1>2, <1>4, <1>5, <2>1, <3>1 DEF KnowsOK
      <3>2. CASE e # d
        BY <2>1, <3>2 DEF KnowsOK
      <3> QED BY <3>1, <3>2
    <2> HIDE DEF h
    <2>6. \A e \in Targets(j) : Toward(q, h[e], e)
      <3> TAKE e \in Targets(j)
      <3>1. PICK i \in 1..Len(Known) : e = Known[i]
        BY <2>1 DEF Targets
      <3>2. h[e].described = <<>>
        BY <2>5, <3>1, KnownAre
      <3>3. Toward(Interviews(Known), h[e], Known[i])
        BY <3>2, AllToward
      <3> QED BY <3>1, <3>3 DEF q
    <2>7. Nears(j, q, h)
      BY <2>3, <2>6 DEF Nears
    <2> QED BY <2>4, <2>7 DEF h
  <1>6. CASE x.kind # "devices"
    <2>1. \A i \in 1..Len(p) : p[i].kind # "devices"
      BY <1>6 DEF Nears
    <2>2. x.kind \in {"ieee", "node", "active", "simple"}
      BY <1>3, <1>6 DEF InterviewKinds
    <2>3. d \in Targets(j) => Toward(m \o t, l, d)
      <3> SUFFICES ASSUME d \in Targets(j) PROVE Toward(m \o t, l, d)
        OBVIOUS
      <3>1. Toward(p, g[d], d)
        BY <2>1 DEF Nears
      <3> QED BY <1>1, <1>2, <2>2, <3>1, AnswerToward
    <2>4. m \in Seq(Exchange) /\ \A i \in 1..Len(m) : m[i].dst = d /\ m[i].kind \in InterviewKinds
      <3>1. CASE x.kind = "active"
        <4>1. m = AfterEndpoints(j, x, Network[d].eps)
          BY <1>2, <3>1 DEF More, Tables
        <4> DEFINE q == AfterEndpoints(j, x, Network[d].eps)
        <4>2. Plain(q)
          BY <1>1, <1>2, AfterEndpointsIsPlain, Zenon
        <4>3. \A i \in 1..Len(q) : q[i].kind \in {"simple", "basic"} /\ q[i].dst = d
          <5>1. AsksEndpoints(q, d)
            BY <1>1, <1>2, AfterEndpointsAre, Zenon
          <5> HIDE DEF q
          <5> QED BY <5>1 DEF AsksEndpoints
        <4> HIDE DEF m, q
        <4>4. m = q
          BY <4>1 DEF q
        <4> QED BY <4>2, <4>3, <4>4 DEF InterviewKinds, Plain
      <3>2. CASE x.kind # "active"
        <4>1. m = <<>>
          BY <2>2, <3>2 DEF More, Tables
        <4> HIDE DEF m
        <4> QED BY <4>1
      <3> QED BY <3>1, <3>2
    <2> HIDE DEF l, m, t
    <2>5. \A k \in InterviewKinds, e \in Devs : e # d => (Has(m \o t, k, e) <=> Has(p, k, e))
      BY <1>1, <2>4, OthersStay DEF t
    <2> DEFINE r == m \o t
    <2>6. r \in Seq(Exchange) /\ \A i \in 1..Len(r) : r[i].kind \in InterviewKinds
      <3>1. r \in Seq(Exchange) /\ Len(r) = Len(m) + Len(t) /\ Len(m) \in Nat /\ Len(t) \in Nat
            /\ \A i \in 1..Len(m) + Len(t) : r[i] = IF i <= Len(m) THEN m[i] ELSE t[i - Len(m)]
        BY ONLY <1>1, <2>4, ConcatProperties, LenProperties
      <3> HIDE DEF r
      <3>2. \A i \in 1..Len(t) : t[i].kind \in InterviewKinds
        BY <1>1, <2>1 DEF Nears
      <3>3. ASSUME NEW i \in 1..Len(r) PROVE r[i].kind \in InterviewKinds
        <4>1. CASE i <= Len(m)
          BY <2>4, <3>1, <4>1
        <4>2. CASE ~(i <= Len(m))
          <5>1. i - Len(m) \in 1..Len(t) /\ r[i] = t[i - Len(m)]
            BY <3>1, <4>2
          <5> QED BY <3>2, <5>1
        <4> QED BY <4>1, <4>2
      <3> QED BY <3>1, <3>3
    <2> HIDE DEF r
    <2>7. Nears(j, r, [g EXCEPT ![x.dst] = l])
      BY <1>1, <1>4, <1>6, <2>3, <2>5, <2>6, NearsRest DEF r
    <2> QED BY <2>7 DEF r, m, t, l
  <1> QED BY <1>5, <1>6

\* An exchange that is passed over, alone or with all of its device.
LEMMA MissNears ==
  ASSUME NEW j \in Job, j.kind \in Interviewing, NEW g, NEW p, PlanOK(p, g), KnowsOK(g), Nears(j, p, g), p # <<>>,
         p[1].kind = "devices" => p[1].otherwise # "abort", NEW r, r = Tail(p) \/ r = FromNext(p)
  PROVE  Nears(j, r, [g EXCEPT ![p[1].dst] = Miss(p[1], g[p[1].dst])])
  <1> DEFINE x == p[1]
             d == x.dst
             l == Miss(x, g[d])
             t == Tail(p)
  <1>1. /\ x \in Exchange /\ 1 \in 1..Len(p) /\ t \in Seq(Exchange) /\ p \in Seq(Exchange)
        /\ \A i \in 1..Len(t) : t[i] = p[i + 1] /\ i + 1 \in 1..Len(p)
    BY RestOfPlan DEF PlanOK
  <1>2. d \in Devs /\ g[d] \in Knowledge
    <2>1. d \in Devs
      BY <1>1 DEF Exchange
    <2> QED BY <2>1 DEF KnowsOK
  <1>3. x.kind # "devices" /\ \A i \in 1..Len(p) : p[i].kind # "devices"
    BY <1>1 DEF Nears
  <1>4. l \in Knowledge /\ l.errors > 0
    <2>1. l \in Knowledge /\ l.errors = g[d].errors + 1 /\ g[d].errors \in Nat
      BY <1>1, <1>2, MissIsKnowledge DEF Knowledge
    <2> QED BY <2>1
  <1> HIDE DEF l, t
  <1>5. PICK n \in 1..(Len(t) + 1) : r = SubSeq(t, n, Len(t)) /\ \A i \in 1..(n - 1) : t[i].dst = d
    <2>1. CASE r = t
      <3>1. 1 \in 1..(Len(t) + 1) /\ t = SubSeq(t, 1, Len(t)) /\ \A i \in 1..(1 - 1) : t[i].dst = d
        BY <1>1
      <3> QED BY <2>1, <3>1
    <2>2. CASE r = FromNext(p)
      BY <1>1, <2>2, FromNextIsSuffix DEF t
    <2> QED BY <2>1, <2>2 DEF t
  <1>6. r \in Seq(Exchange) /\ \A i \in 1..Len(r) : r[i] = t[n + i - 1] /\ n + i - 1 \in 1..Len(t)
    BY <1>1, <1>5
  <1>7. \A i \in 1..Len(t) : t[i].kind \in InterviewKinds
    BY <1>1, <1>3 DEF Nears
  <1>8. \A i \in 1..Len(r) : r[i].kind \in InterviewKinds
    BY <1>6, <1>7
  <1>9. ASSUME NEW k \in InterviewKinds, NEW e \in Devs, e # d PROVE Has(r, k, e) <=> Has(p, k, e)
    <2>1. Has(r, k, e) <=> Has(t, k, e)
      <3>1. \A i \in 1..(n - 1) : t[i].dst # e
        BY <1>5, <1>9
      <3> QED BY <1>1, <1>5, <3>1, SuffixHas
    <2>2. Has(t, k, e) <=> Has(p, k, e)
      BY <1>1, <1>9, HasTail DEF t
    <2> QED BY <2>1, <2>2
  <1>10. Toward(r, l, d)
    BY <1>4 DEF Toward
  <1>11. Nears(j, r, [g EXCEPT ![x.dst] = l])
    BY <1>1, <1>3, <1>4, <1>6, <1>8, <1>9, <1>10, NearsRest
  <1> QED BY <1>11 DEF l

\* The Basic cluster is read, or there is nothing to read it from.
LEMMA BasicNears ==
  ASSUME NEW j \in Job, j.kind \in Interviewing, NEW g, NEW p, PlanOK(p, g), KnowsOK(g), Nears(j, p, g), p # <<>>, p[1].kind = "basic",
         NEW l, \/ l = g[p[1].dst] /\ g[p[1].dst].described = <<>>
                \/ l = [g[p[1].dst] EXCEPT !.basicRead = TRUE]
  PROVE  Nears(j, Tail(p), [g EXCEPT ![p[1].dst] = l])
  <1> DEFINE x == p[1]
             d == x.dst
             t == Tail(p)
  <1>1. /\ x \in Exchange /\ 1 \in 1..Len(p) /\ t \in Seq(Exchange) /\ p \in Seq(Exchange)
        /\ \A i \in 1..Len(t) : t[i] = p[i + 1] /\ i + 1 \in 1..Len(p)
    BY RestOfPlan DEF PlanOK
  <1>2. d \in Devs /\ g[d] \in Knowledge
    <2>1. d \in Devs
      BY <1>1 DEF Exchange
    <2> QED BY <2>1 DEF KnowsOK
  <1>3. x.kind # "devices" /\ \A i \in 1..Len(p) : p[i].kind # "devices"
    BY <1>1 DEF Nears
  <1>4. /\ l \in Knowledge /\ l.active = g[d].active /\ l.described = g[d].described /\ l.ieee = g[d].ieee /\ l.node = g[d].node /\ l.errors = g[d].errors
        /\ l.basicRead = TRUE \/ (g[d].described = <<>> /\ l.basicRead = g[d].basicRead)
    <2>1. CASE l = g[d] /\ g[d].described = <<>>
      BY <1>2, <2>1
    <2>2. CASE l = [g[d] EXCEPT !.basicRead = TRUE]
      <3> DEFINE h == g[d]
      <3>1. h \in Knowledge /\ l = [h EXCEPT !.basicRead = TRUE]
        BY <1>2, <2>2
      <3> HIDE DEF h
      <3>2. l \in Knowledge /\ l.active = h.active /\ l.described = h.described /\ l.ieee = h.ieee /\ l.node = h.node /\ l.errors = h.errors /\ l.basicRead = TRUE
        BY <3>1 DEF Knowledge
      <3> QED BY <3>2 DEF h
    <2> QED BY <2>1, <2>2
  <1>5. d \in Targets(j) => Toward(t, l, d)
    <2> SUFFICES ASSUME d \in Targets(j) PROVE Toward(t, l, d)
      OBVIOUS
    <2>1. Toward(p, g[d], d)
      BY <1>3 DEF Nears
    <2> QED BY <1>1, <1>2, <1>4, <2>1, BasicToward
  <1>6. \A k \in InterviewKinds, e \in Devs : e # d => (Has(t, k, e) <=> Has(p, k, e))
    BY <1>1, HasTail
  <1> HIDE DEF t
  <1>7. \A i \in 1..Len(t) : t[i].kind \in InterviewKinds
    BY <1>1, <1>3 DEF Nears
  <1>8. Nears(j, t, [g EXCEPT ![x.dst] = l])
    BY <1>1, <1>3, <1>4, <1>5, <1>6, <1>7, NearsRest
  <1> QED BY <1>8 DEF t

\* An interview that nothing is known of yet.
LEMMA FirstNears ==
  ASSUME NEW j \in Job, j.kind \in Interviewing, NEW g, \A d \in Devs : g[d].described = <<>>
  PROVE  Nears(j, Plan(j), g)
  <1>1. CASE j.kind = "interview"
    <2>1. j.dev \in Devs
      BY <1>1 DEF Job
    <2> DEFINE p == Interview(j.dev, FALSE)
    <2>2. /\ p \in Seq(Exchange) /\ Len(p) = 3 /\ p[1].kind = "ieee" /\ p[2].kind = "node" /\ p[3].kind = "active"
          /\ \A i \in 1..3 : p[i].dst = j.dev
      BY <2>1, InterviewIs
    <2> HIDE DEF p
    <2>3. \A i \in 1..Len(p) : i = 1 \/ i = 2 \/ i = 3
      BY <2>2
    <2>4. \A i \in 1..Len(p) : p[i].kind \in {"ieee", "node", "active"}
      BY <2>2, <2>3
    <2>5. Has(p, "ieee", j.dev) /\ Has(p, "node", j.dev) /\ Has(p, "active", j.dev)
      <3>1. 1 \in 1..Len(p) /\ 2 \in 1..Len(p) /\ 3 \in 1..Len(p)
        BY <2>2
      <3> QED BY <2>2, <3>1 DEF Has
    <2>6. ~Has(p, "simple", j.dev) /\ ~Has(p, "basic", j.dev)
      BY <2>4 DEF Has
    <2>7. Toward(p, g[j.dev], j.dev)
      BY <2>1, <2>5, <2>6 DEF Toward, Endpoints
    <2>8. Nears(j, p, g)
      BY <1>1, <2>4, <2>7 DEF Nears, Targets, InterviewKinds
    <2> QED BY <1>1, <2>8 DEF Plan, p
  <1>2. CASE j.kind = "interviewAll"
    <2> DEFINE p == <<GetDevices>>
    <2>1. Len(p) = 1 /\ p[1] = GetDevices /\ GetDevices.kind = "devices" /\ GetDevices.otherwise = "abort"
      BY DEF GetDevices, Once, X
    <2> HIDE DEF p
    <2>2. \A i \in 1..Len(p) : i = 1 /\ p[i].kind = "devices" /\ p[i].otherwise = "abort"
      BY <2>1
    <2>3. 1 \in 1..Len(p)
      BY <2>1
    <2>4. Nears(j, p, g)
      BY <1>2, <2>2, <2>3 DEF Nears
    <2> QED BY <1>2, <2>4 DEF Plan, p
  <1> QED BY <1>1, <1>2 DEF Interviewing

\* Nothing left to ask: a device without errors is known.
LEMMA NothingLeft ==
  ASSUME NEW j \in Job, j.kind \in Interviewing, NEW g, KnowsOK(g), Nears(j, <<>>, g), NEW d \in Targets(j), g[d].errors = 0
  PROVE  Complete(g[d], d)
  <1>1. \A k : ~Has(<<>>, k, d)
    BY DEF Has
  <1>2. Toward(<<>>, g[d], d)
    BY DEF Nears
  <1>3. g[d].ieee = d /\ g[d].node = d /\ Describes(<<>>, g[d], d)
    BY <1>1, <1>2 DEF Toward, Endpoints
  <1>4. d \in Devs /\ g[d] \in Knowledge
    BY TargetsAreDevs DEF KnowsOK
  <1> DEFINE h == g[d]
             m == Len(h.described)
  <1>5. m \in Nat /\ EndsOf(d) \in Nat /\ m <= EndsOf(d)
    BY <1>3, <1>4, EndsAre, DescribedIs DEF Describes
  <1>6. m = EndsOf(d)
    <2> SUFFICES ASSUME m # EndsOf(d) PROVE FALSE
      OBVIOUS
    <2>1. 1 \in 1..(EndsOf(d) - m)
      BY <1>5
    <2>2. 1 \in 1..Len(<<>>)
      BY <1>3, <2>1 DEF Describes
    <2> QED BY <2>2
  <1>7. h.described = DescribedOf(d, EndsOf(d))
    BY <1>3, <1>6 DEF Describes
  <1>8. h.active = Network[d].eps /\ (h.basicRead \/ Network[d].eps = <<>>)
    BY <1>1, <1>3 DEF Describes
  <1> QED BY <1>3, <1>7, <1>8 DEF Complete, DescribedOf, EndsOf

\* An answer, a missing answer, and the reading of the Basic cluster leave all as it should be.
LEMMA AnswerFine ==
  ASSUME NEW j \in Job, NEW g, NEW p, Fine(j, p, g), p # <<>>, NEW f, Mine(f, p[1]), f.fault = "none", p[1].kind # "basic"
  PROVE  LET l == Learn(p[1], f, g[p[1].dst])
         IN  Fine(j, More(j, p[1], f, l) \o Tail(p), [g EXCEPT ![p[1].dst] = l])
  <1> DEFINE l == Learn(p[1], f, g[p[1].dst])
             h == [g EXCEPT ![p[1].dst] = l]
             r == More(j, p[1], f, l) \o Tail(p)
  <1>1. PlanOK(p, g) /\ KnowsOK(g) /\ (j.kind \in Interviewing => Nears(j, p, g))
    BY DEF Fine
  <1>2. PlanOK(r, h) /\ KnowsOK(h)
    <2>1. CASE IsTable(p[1])
      BY <1>1, <2>1, AnswerKeepsTable
    <2>2. CASE ~IsTable(p[1])
      BY <1>1, <2>2, AnswerKeepsPlain
    <2> QED BY <2>1, <2>2
  <1>3. j.kind \in Interviewing => Nears(j, r, h)
    BY <1>1, AnswerNears
  <1> QED BY <1>2, <1>3 DEF Fine

LEMMA MissFine ==
  ASSUME NEW j \in Job, NEW g, NEW p, Fine(j, p, g), p # <<>>
  PROVE  LET h == [g EXCEPT ![p[1].dst] = Miss(p[1], g[p[1].dst])]
         IN  KnowsOK(h) /\ ((p[1].kind = "devices" => p[1].otherwise # "abort") => Fine(j, Tail(p), h) /\ Fine(j, FromNext(p), h))
  <1> DEFINE h == [g EXCEPT ![p[1].dst] = Miss(p[1], g[p[1].dst])]
  <1>1. PlanOK(p, g) /\ KnowsOK(g) /\ (j.kind \in Interviewing => Nears(j, p, g))
    BY DEF Fine
  <1>2. PlanOK(Tail(p), h) /\ PlanOK(FromNext(p), h) /\ KnowsOK(h)
    BY <1>1, MissKeeps
  <1>3. j.kind \in Interviewing /\ (p[1].kind = "devices" => p[1].otherwise # "abort") => Nears(j, Tail(p), h) /\ Nears(j, FromNext(p), h)
    BY <1>1, MissNears
  <1> QED BY <1>2, <1>3 DEF Fine

LEMMA BasicFine ==
  ASSUME NEW j \in Job, NEW g, NEW p, Fine(j, p, g), p # <<>>, p[1].kind = "basic"
  PROVE  /\ Fine(j, Tail(p), [g EXCEPT ![p[1].dst] = [g[p[1].dst] EXCEPT !.basicRead = TRUE]])
         /\ g[p[1].dst].described = <<>> => Fine(j, Tail(p), g)
  <1> DEFINE d == p[1].dst
             l == [g[d] EXCEPT !.basicRead = TRUE]
  <1>1. PlanOK(p, g) /\ KnowsOK(g) /\ (j.kind \in Interviewing => Nears(j, p, g)) /\ PlanOK(Tail(p), g)
    BY RestOfPlan DEF Fine
  <1>2. PlanOK(Tail(p), [g EXCEPT ![d] = l]) /\ KnowsOK([g EXCEPT ![d] = l])
    BY <1>1, BasicKeeps
  <1>3. j.kind \in Interviewing => Nears(j, Tail(p), [g EXCEPT ![d] = l])
    BY <1>1, BasicNears
  <1>4. g[d].described = <<>> /\ j.kind \in Interviewing => Nears(j, Tail(p), [g EXCEPT ![d] = g[d]])
    BY <1>1, BasicNears
  <1>5. [g EXCEPT ![d] = g[d]] = g
    BY <1>1 DEF KnowsOK
  <1> QED BY <1>1, <1>2, <1>3, <1>4, <1>5 DEF Fine

\* Everybody asks something, and nothing is known at first.
LEMMA PlansAreNotEmpty ==
  ASSUME NEW j \in Job
  PROVE  Plan(j) # <<>>
  <1>1. j.kind \in {"interview", "interviewAll", "deviceHealth", "capabilities", "networkInfo", "health", "request"}
    BY DEF Job
  <1>2. GetNetworkHealth # <<>>
    <2> DEFINE a == GetNetworkInfo
    <2>1. a \in Seq({GetDeviceInfo, ExtNwkInfo}) /\ Len(a) = 2 /\ <<GetDevices>> \in Seq({GetDevices}) /\ Len(<<GetDevices>>) = 1
      BY DEF GetNetworkInfo
    <2> DEFINE S == {GetDeviceInfo, ExtNwkInfo, GetDevices}
               b == <<GetDevices>>
    <2>2. a \in Seq(S) /\ b \in Seq(S) /\ Len(a) = 2 /\ Len(b) = 1
      BY <2>1 DEF GetNetworkInfo
    <2> HIDE DEF a, b, S
    <2>3. Len(a \o b) = 3
      <3>1. Len(a \o b) = Len(a) + Len(b)
        BY ONLY <2>2, ConcatProperties
      <3> QED BY <2>2, <3>1
    <2> QED BY <2>3 DEF GetNetworkHealth, a, b
  <1> QED BY <1>1, <1>2 DEF Plan, Interview, GetNetworkInfo

\* Nothing known is nothing wrong.
LEMMA NothingKnowsOK == KnowsOK([d \in Devs |-> Unknown])
  <1>1. Unknown \in Knowledge /\ Unknown.whole = {} /\ Unknown.ieee = Nobody /\ Unknown.active = <<>>
    BY DEF Unknown, Knowledge, Tables
  <1> QED BY <1>1 DEF KnowsOK, TrueOf

\* A caller that knows nothing has everything in its plan.
LEMMA NothingKnown ==
  ASSUME NEW j \in Job
  PROVE  Fine(j, Plan(j), [d \in Devs |-> Unknown])
  <1> DEFINE g == [d \in Devs |-> Unknown]
  <1>1. Unknown \in Knowledge /\ Unknown.whole = {} /\ Unknown.described = <<>> /\ (\A k \in Tables : Unknown[k] = <<>>) /\ Unknown.ieee = Nobody /\ Unknown.active = <<>>
    BY DEF Unknown, Knowledge, Tables
  <1> HIDE DEF Unknown
  <1>2. Untouched(g) /\ \A d \in Devs : g[d].described = <<>>
    BY <1>1 DEF Untouched
  <1>3. KnowsOK(g)
    BY <1>1 DEF KnowsOK, TrueOf
  <1> HIDE DEF g
  <1>4. PlanOK(Plan(j), g)
    BY <1>2, FirstPlanIsPlan
  <1>5. j.kind \in Interviewing => Nears(j, Plan(j), g)
    BY <1>2, FirstNears
  <1>6. Fine(j, Plan(j), g)
    BY <1>3, <1>4, <1>5 DEF Fine
  <1> QED BY <1>6 DEF g

-----------------------------------------------------------------------------
\* Who does not ask is done, and a frame is a frame.
Shape ==
  /\ scenario \in Scenarios /\ DOMAIN pc = Callers /\ DOMAIN plan = Callers /\ DOMAIN got = Callers
  /\ \A c \in Callers : c \notin Active => pc[c] = "done"
  /\ \A f \in air : DOMAIN f = {"kind", "src", "arg", "n", "fault", "by"}
Underway == {"ask", "accepted", "waiting"}
\* A caller's knowledge is true; while its task goes on so is its plan, and the
\* frames that answer its present request do answer it.
CallerOK(c) ==
  /\ KnowsOK(got[c]) /\ pc[c] \in Underway \cup {"done", "failed"}
  /\ c \in Active /\ pc[c] # "failed" => Fine(JobOf(c), plan[c], got[c]) /\ (plan[c] = <<>> <=> pc[c] = "done")
  /\ pc[c] \in {"accepted", "waiting"} => plan[c][1].kind # "basic" /\ \A f \in air : f.by = c => Mine(f, plan[c][1])
\* So it is with everybody who was given no answer of somebody else.
ExchangeInv == Shape /\ \A c \in Callers \ strayed : CallerOK(c)

\* Whoever asks has a task.
LEMMA JobsAreJobs ==
  ASSUME scenario \in Scenarios, NEW c \in Active
  PROVE  JobOf(c) \in Job /\ c \in Callers /\ c # Nobody
  BY ScenariosAreSane DEF Active, JobOf

\* All is well before the first request.
LEMMA InitExchangeInv == ZdoInit => ExchangeInv
  <1> SUFFICES ASSUME ZdoInit PROVE ExchangeInv
    OBVIOUS
  <1>1. Shape
    BY DEF ZdoInit, Shape
  <1>2. ASSUME NEW c \in Callers PROVE CallerOK(c)
    <2>1. got[c] = [d \in Devs |-> Unknown]
      BY DEF ZdoInit
    <2>2. CASE c \in Active
      <3>1. pc[c] = "ask" /\ plan[c] = Plan(JobOf(c))
        BY <2>2 DEF ZdoInit
      <3>2. JobOf(c) \in Job
        BY <2>2, JobsAreJobs DEF ZdoInit
      <3>3. Fine(JobOf(c), plan[c], got[c])
        BY <2>1, <3>1, <3>2, NothingKnown
      <3>4. Plan(JobOf(c)) # <<>>
        BY <3>2, PlansAreNotEmpty
      <3> QED BY <3>1, <3>3, <3>4 DEF CallerOK, Underway, Fine
    <2>3. CASE c \notin Active
      <3>1. pc[c] = "done"
        BY <2>3 DEF ZdoInit
      <3>2. KnowsOK(got[c])
        BY <2>1, NothingKnowsOK
      <3> QED BY <2>3, <3>1, <3>2 DEF CallerOK
    <2> QED BY <2>2, <2>3
  <1> QED BY <1>1, <1>2 DEF ExchangeInv

\* A caller after a step that ends its exchange.
AfterStep(c) ==
  /\ KnowsOK(got'[c]) /\ pc'[c] \in {"ask", "done", "failed"}
  /\ pc'[c] # "failed" => Fine(JobOf(c), plan'[c], got'[c]) /\ (plan'[c] = <<>> <=> pc'[c] = "done")
\* The others.
NobodyElse(c) ==
  /\ DOMAIN pc' = Callers /\ DOMAIN plan' = Callers /\ DOMAIN got' = Callers
  /\ \A e \in Callers \ {c} : pc'[e] = pc[e] /\ plan'[e] = plan[e] /\ got'[e] = got[e]

\* Who is not done has a task, and asks for the head of its plan.
LEMMA ActiveOnes ==
  ASSUME Shape, NEW c \in Callers, pc[c] # "done"
  PROVE  c \in Active /\ JobOf(c) \in Job
  BY JobsAreJobs DEF Shape

LEMMA HeadIs ==
  ASSUME NEW c, NEW g, PlanOK(plan[c], g), plan[c] # <<>>
  PROVE  Asked(c) = plan[c][1]
  BY RestOfPlan DEF Asked

\* To go on, or to give up between two devices, is a matter of one caller.
LEMMA ProceedIsOfOne ==
  ASSUME Shape, NEW c \in Callers, NEW rest, Proceed(c, rest), got' = got \/ \E h : got' = [got EXCEPT ![c] = h]
  PROVE  NobodyElse(c)
  BY DEF Proceed, NobodyElse, Shape

\* A fine plan is left by it.
LEMMA ProceedFine ==
  ASSUME Shape, NEW c \in Callers, NEW rest, Proceed(c, rest), Fine(JobOf(c), rest, got'[c])
  PROVE  AfterStep(c)
  <1>1. pc'[c] = (IF GivesUp(c, rest) THEN "failed" ELSE IF rest = <<>> THEN "done" ELSE "ask") /\ plan'[c] = IF GivesUp(c, rest) THEN <<>> ELSE rest
    BY DEF Proceed, Shape
  <1>2. KnowsOK(got'[c])
    BY DEF Fine
  <1>3. CASE GivesUp(c, rest)
    BY <1>1, <1>2, <1>3 DEF AfterStep
  <1>4. CASE ~GivesUp(c, rest)
    BY <1>1, <1>2, <1>4 DEF AfterStep
  <1> QED BY <1>3, <1>4

\* An exchange that was answered.
LEMMA SucceedIsOfOne ==
  ASSUME Shape, NEW c \in Callers, NEW f, Succeed(c, f)
  PROVE  NobodyElse(c)
  <1>1. PICK h : got' = [got EXCEPT ![c] = h]
    BY DEF Succeed
  <1>2. PICK rest : Proceed(c, rest)
    BY DEF Succeed
  <1> QED BY <1>1, <1>2, ProceedIsOfOne

LEMMA SucceedFine ==
  ASSUME Shape, NEW c \in Callers, CallerOK(c), pc[c] \in Underway, plan[c][1].kind # "basic",
         NEW f, Mine(f, plan[c][1]), f.fault = "none", Succeed(c, f)
  PROVE  AfterStep(c)
  <1>1. c \in Active /\ JobOf(c) \in Job
    BY ActiveOnes DEF Underway
  <1>2. Fine(JobOf(c), plan[c], got[c]) /\ plan[c] # <<>>
    BY <1>1 DEF CallerOK, Underway
  <1>3. Asked(c) = plan[c][1] /\ Kept(c) = got[c][plan[c][1].dst]
    BY <1>2, HeadIs DEF Fine, Kept
  <1> DEFINE x == plan[c][1]
             l == Learn(x, f, got[c][x.dst])
             rest == More(JobOf(c), x, f, l) \o Tail(plan[c])
  <1>4. Proceed(c, rest)
    BY <1>3 DEF Succeed
  <1>5. got'[c] = [got[c] EXCEPT ![x.dst] = l]
    BY <1>3 DEF Succeed, Shape
  <1>6. Fine(JobOf(c), rest, [got[c] EXCEPT ![x.dst] = l])
    BY <1>1, <1>2, AnswerFine
  <1> HIDE DEF rest, l, x
  <1>7. Fine(JobOf(c), rest, got'[c])
    BY <1>5, <1>6
  <1> QED BY <1>4, <1>7, ProceedFine

\* One that was not.
LEMMA FailIsOfOne ==
  ASSUME Shape, NEW c \in Callers, NEW final, Fail(c, final)
  PROVE  NobodyElse(c)
  <1>1. CASE pc' = [pc EXCEPT ![c] = "ask"] /\ UNCHANGED <<plan, got>>
    BY <1>1 DEF NobodyElse, Shape
  <1>2. CASE (\E h : got' = [got EXCEPT ![c] = h]) /\ \E rest : Proceed(c, rest)
    BY <1>2, ProceedIsOfOne
  <1>3. CASE (\E h : got' = [got EXCEPT ![c] = h]) /\ pc' = [pc EXCEPT ![c] = "failed"] /\ plan' = [plan EXCEPT ![c] = <<>>]
    BY <1>3 DEF NobodyElse, Shape
  <1> QED BY <1>1, <1>2, <1>3 DEF Fail

LEMMA FailFine ==
  ASSUME Shape, NEW c \in Callers, CallerOK(c), pc[c] \in Underway, NEW final, Fail(c, final)
  PROVE  AfterStep(c)
  <1>1. c \in Active /\ JobOf(c) \in Job
    BY ActiveOnes DEF Underway
  <1>2. Fine(JobOf(c), plan[c], got[c]) /\ plan[c] # <<>>
    BY <1>1 DEF CallerOK, Underway
  <1>3. Asked(c) = plan[c][1]
    BY <1>2, HeadIs DEF Fine
  <1> DEFINE x == plan[c][1]
             h == [got[c] EXCEPT ![x.dst] = Miss(x, got[c][x.dst])]
  <1>4. KnowsOK(h) /\ ((x.kind = "devices" => x.otherwise # "abort") => Fine(JobOf(c), Tail(plan[c]), h) /\ Fine(JobOf(c), FromNext(plan[c]), h))
    BY <1>1, <1>2, MissFine
  <1>5. CASE pc' = [pc EXCEPT ![c] = "ask"] /\ UNCHANGED <<plan, got>>
    <2>1. pc'[c] = "ask" /\ plan'[c] = plan[c] /\ got'[c] = got[c]
      BY <1>5 DEF Shape
    <2> QED BY <1>2, <2>1 DEF AfterStep, Fine
  <1>6. CASE got' = [got EXCEPT ![c][x.dst] = Miss(x, @)] /\ x.otherwise # "abort" /\ (Proceed(c, Tail(plan[c])) \/ Proceed(c, FromNext(plan[c])))
    <2>1. got'[c] = h
      BY <1>6 DEF Shape
    <2> HIDE DEF h
    <2> QED BY <1>4, <1>6, <2>1, ProceedFine
  <1>7. CASE got' = [got EXCEPT ![c][x.dst] = Miss(x, @)] /\ pc' = [pc EXCEPT ![c] = "failed"] /\ plan' = [plan EXCEPT ![c] = <<>>]
    <2>1. got'[c] = h /\ pc'[c] = "failed"
      BY <1>7 DEF Shape
    <2> HIDE DEF h
    <2> QED BY <1>4, <2>1 DEF AfterStep
  <1> QED BY <1>3, <1>5, <1>6, <1>7 DEF Fail

\* The frames after a request was sent.
LEMMA ReplyIs ==
  ASSUME Shape, NEW c \in Callers, Reply(c), Nobody \notin Callers
  PROVE  /\ \A f \in air' : DOMAIN f = {"kind", "src", "arg", "n", "fault", "by"}
         /\ \A f \in air', e \in Callers : f.by = e => (e # c /\ f \in air) \/ (e = c /\ \E how, n : f = Frame(c, how, n) /\ (n = 0 \/ n \in Sizes(Asked(c))))
  <1>1. ASSUME NEW f \in Stale(c) PROVE DOMAIN f = {"kind", "src", "arg", "n", "fault", "by"} /\ \A e \in Callers : f.by = e => e # c /\ f \in air
    <2>1. PICK f0 \in air : f = IF f0.by = c THEN [f0 EXCEPT !.by = Nobody] ELSE f0
      BY DEF Stale
    <2>2. DOMAIN f0 = {"kind", "src", "arg", "n", "fault", "by"}
      BY DEF Shape
    <2>3. CASE f0.by = c
      <3>1. f.by = Nobody /\ DOMAIN f = DOMAIN f0
        BY <2>1, <2>2, <2>3
      <3> QED BY <2>2, <3>1
    <2>4. CASE f0.by # c
      BY <2>1, <2>2, <2>4
    <2> QED BY <2>3, <2>4
  <1>2. \A how, n : Frame(c, how, n).by = c /\ DOMAIN Frame(c, how, n) = {"kind", "src", "arg", "n", "fault", "by"}
    BY DEF Frame
  <1>3. \A f \in air' : f \in Stale(c) \/ \E how, n : f = Frame(c, how, n) /\ (n = 0 \/ n \in Sizes(Asked(c)))
    BY DEF Reply
  <1> QED BY <1>1, <1>2, <1>3

\* A frame that a device sends answers the request.
LEMMA FrameIsMine ==
  ASSUME NEW c, NEW g, PlanOK(plan[c], g), plan[c] # <<>>, NEW how, NEW n, n = 0 \/ n \in Sizes(plan[c][1])
  PROVE  Mine(Frame(c, how, n), plan[c][1])
  <1> DEFINE x == plan[c][1]
  <1>1. Asked(c) = x /\ x \in Exchange
    BY HeadIs, RestOfPlan
  <1>2. IsTable(x) => Left(x) \in Nat
    <2> SUFFICES ASSUME IsTable(x) PROVE Left(x) \in Nat
      OBVIOUS
    <2>1. RowsOf(x.dst, x.kind) \in Nat /\ PageSize \in Nat /\ x.arg \in Nat
      BY <1>1, SizeOfTable
    <2> QED BY <2>1 DEF Left
  <1> HIDE DEF x
  <1>3. n \in Nat /\ (IsTable(x) => n <= Left(x))
    <2>1. CASE n = 0
      BY <1>2, <2>1
    <2>2. CASE n \in Sizes(x)
      BY <1>2, <2>2 DEF Sizes, IsTable
    <2> QED BY <2>1, <2>2 DEF x
  <1>4. Mine(Frame(c, how, n), x)
    BY <1>1, <1>3 DEF Mine, Frame
  <1> QED BY <1>4 DEF x

\* A caller's step is its own: what the others do and wait for stays as it is.
LEMMA StepIsOfOne ==
  ASSUME Shape, NEW c \in Callers, Step(c)
  PROVE  /\ scenario' = scenario /\ NobodyElse(c) /\ strayed \subseteq strayed' /\ c \in Active
         /\ \A f \in air' : DOMAIN f = {"kind", "src", "arg", "n", "fault", "by"}
         /\ \A f \in air', e \in Callers \ {c} : f.by = e => f \in air
  <1> DEFINE Goal == /\ scenario' = scenario /\ NobodyElse(c) /\ strayed \subseteq strayed' /\ c \in Active
                     /\ \A f \in air' : DOMAIN f = {"kind", "src", "arg", "n", "fault", "by"}
                     /\ \A f \in air', e \in Callers \ {c} : f.by = e => f \in air
  <1>1. \A f \in air : DOMAIN f = {"kind", "src", "arg", "n", "fault", "by"}
    BY DEF Shape
  <1>2. Nobody \notin Callers
    BY ScenariosAreSane
  <1>3. ASSUME UNCHANGED air \/ \E f \in air : air' = air \ {f}
        PROVE  /\ \A f \in air' : DOMAIN f = {"kind", "src", "arg", "n", "fault", "by"}
               /\ \A f \in air', e \in Callers \ {c} : f.by = e => f \in air
    BY <1>1, <1>3
  <1>4. ASSUME UNCHANGED pc \/ \E s : pc' = [pc EXCEPT ![c] = s], UNCHANGED <<plan, got>> PROVE NobodyElse(c)
    BY <1>4 DEF NobodyElse, Shape
  <1>5. ASSUME Reply(c)
        PROVE  /\ \A f \in air' : DOMAIN f = {"kind", "src", "arg", "n", "fault", "by"}
               /\ \A f \in air', e \in Callers \ {c} : f.by = e => f \in air
    BY <1>2, <1>5, ReplyIs
  <1>6. pc[c] # "done" => c \in Active
    BY DEF Shape
  <1>7. CASE Accept(c)
    BY <1>4, <1>5, <1>6, <1>7 DEF Accept, Sent
  <1>8. CASE Answer(c)
    BY <1>3, <1>6, <1>8, SucceedIsOfOne DEF Answer, Sent
  <1>9. CASE Refuse(c)
    BY <1>3, <1>6, <1>9, FailIsOfOne DEF Refuse, Sent
  <1>10. CASE SendInVain(c)
    BY <1>3, <1>5, <1>6, <1>10, FailIsOfOne DEF SendInVain, Sent
  <1>11. CASE Register(c)
    BY <1>3, <1>4, <1>6, <1>11 DEF Register
  <1>12. CASE Timeout(c)
    BY <1>3, <1>6, <1>12, FailIsOfOne DEF Timeout
  <1>13. CASE ReadBasic(c)
    <2>1. got' = got \/ \E h : got' = [got EXCEPT ![c] = h]
      BY <1>13 DEF ReadBasic
    <2>2. Proceed(c, Tail(plan[c])) /\ UNCHANGED <<scenario, air, strayed>> /\ pc[c] = "ask"
      BY <1>13 DEF ReadBasic
    <2> QED BY <1>3, <1>6, <2>1, <2>2, ProceedIsOfOne
  <1>14. CASE \E f \in air : Receive(c, f)
    <2>1. PICK f \in air : Receive(c, f)
      BY <1>14
    <2>2. NobodyElse(c)
      BY <2>1, SucceedIsOfOne, FailIsOfOne DEF Receive
    <2>3. scenario' = scenario /\ strayed \subseteq strayed' /\ air' = air \ {f} /\ pc[c] = "waiting"
      BY <2>1 DEF Receive
    <2> QED BY <1>3, <1>6, <2>2, <2>3
  <1> QED BY <1>7, <1>8, <1>9, <1>10, <1>11, <1>12, <1>13, <1>14 DEF Step

\* What is all right with a caller stays so when others act.
LEMMA OtherCaller ==
  ASSUME NEW e \in Callers, CallerOK(e), scenario' = scenario, pc'[e] = pc[e], plan'[e] = plan[e], got'[e] = got[e],
         \A f \in air' : f.by = e => f \in air
  PROVE  CallerOK(e)'
  BY DEF CallerOK, Active, JobOf, Underway

\* After the end of an exchange nothing is waited for.
LEMMA AfterStepOK ==
  ASSUME NEW c \in Callers, scenario' = scenario, AfterStep(c)
  PROVE  CallerOK(c)'
  BY DEF AfterStep, CallerOK, Active, JobOf, Underway

\* A caller that gets its own answers is all right after its step.
LEMMA StepKeepsCaller ==
  ASSUME Shape, NEW c \in Callers, CallerOK(c), Step(c), c \notin strayed', c \notin strayed
  PROVE  CallerOK(c)'
  <1>1. scenario' = scenario /\ c \in Active /\ Nobody \notin Callers
    BY StepIsOfOne, ScenariosAreSane
  <1>2. JobOf(c) \in Job
    BY <1>1, JobsAreJobs DEF Shape
  <1>3. ASSUME pc[c] \in Underway PROVE Fine(JobOf(c), plan[c], got[c]) /\ PlanOK(plan[c], got[c]) /\ plan[c] # <<>> /\ Asked(c) = plan[c][1]
    <2>1. Fine(JobOf(c), plan[c], got[c]) /\ plan[c] # <<>>
      BY <1>1, <1>3 DEF CallerOK, Underway
    <2>2. PlanOK(plan[c], got[c])
      BY <2>1 DEF Fine
    <2> QED BY <2>1, <2>2, HeadIs
  <1>4. CASE Accept(c)
    <2>1. pc[c] = "ask" /\ Asked(c).kind # "basic" /\ Reply(c) /\ pc'[c] = "accepted" /\ plan'[c] = plan[c] /\ got'[c] = got[c]
      BY <1>4 DEF Accept, Sent, Shape
    <2>2. Fine(JobOf(c), plan[c], got[c]) /\ PlanOK(plan[c], got[c]) /\ plan[c] # <<>> /\ Asked(c) = plan[c][1]
      BY <1>3, <2>1 DEF Underway
    <2>3. \A f \in air' : f.by = c => Mine(f, plan[c][1])
      <3> SUFFICES ASSUME NEW f \in air', f.by = c PROVE Mine(f, plan[c][1])
        OBVIOUS
      <3>1. PICK how, n : f = Frame(c, how, n) /\ (n = 0 \/ n \in Sizes(Asked(c)))
        BY <1>1, <2>1, ReplyIs
      <3> QED BY <2>2, <3>1, FrameIsMine
    <2>4. KnowsOK(got[c])
      BY DEF CallerOK
    <2> QED BY <1>1, <2>1, <2>2, <2>3, <2>4 DEF CallerOK, Active, JobOf, Underway
  <1>5. CASE Answer(c)
    <2>1. pc[c] = "ask" /\ Asked(c).kind # "basic" /\ Succeed(c, Frame(c, "none", 0))
      BY <1>5 DEF Answer, Sent
    <2>2. PlanOK(plan[c], got[c]) /\ plan[c] # <<>> /\ Asked(c) = plan[c][1]
      BY <1>3, <2>1 DEF Underway
    <2>3. Mine(Frame(c, "none", 0), plan[c][1]) /\ Frame(c, "none", 0).fault = "none"
      BY <2>2, FrameIsMine DEF Frame
    <2>4. AfterStep(c)
      BY <2>1, <2>2, <2>3, SucceedFine DEF Underway
    <2> QED BY <1>1, <2>4, AfterStepOK
  <1>6. CASE Refuse(c) \/ SendInVain(c) \/ Timeout(c)
    <2>1. pc[c] \in Underway /\ Fail(c, FALSE)
      BY <1>6 DEF Refuse, SendInVain, Timeout, Sent, Underway
    <2>2. AfterStep(c)
      BY <2>1, FailFine
    <2> QED BY <1>1, <2>2, AfterStepOK
  <1>7. CASE Register(c)
    <2>1. pc[c] = "accepted" /\ pc'[c] = "waiting" /\ plan'[c] = plan[c] /\ got'[c] = got[c] /\ air' = air
      BY <1>7 DEF Register, Shape
    <2> QED BY <1>1, <2>1 DEF CallerOK, Active, JobOf, Underway
  <1>8. CASE ReadBasic(c)
    <2>1. pc[c] = "ask" /\ Asked(c).kind = "basic" /\ Proceed(c, Tail(plan[c]))
      BY <1>8 DEF ReadBasic
    <2>2. Fine(JobOf(c), plan[c], got[c]) /\ plan[c] # <<>> /\ Asked(c) = plan[c][1]
      BY <1>3, <2>1 DEF Underway
    <2> DEFINE d == plan[c][1].dst
    <2>3. \/ got'[c] = got[c] /\ got[c][d].described = <<>>
          \/ got'[c] = [got[c] EXCEPT ![d] = [got[c][d] EXCEPT !.basicRead = TRUE]]
          \/ got'[c] = [got[c] EXCEPT ![d] = Miss(plan[c][1], got[c][d])]
      BY <1>8, <2>2 DEF ReadBasic, Kept, Shape
    <2>4. Fine(JobOf(c), Tail(plan[c]), got'[c])
      <3>1. plan[c][1].kind = "basic"
        BY <2>1, <2>2
      <3>2. CASE got'[c] = got[c] /\ got[c][d].described = <<>>
        BY <1>2, <2>2, <3>1, <3>2, BasicFine
      <3>3. CASE got'[c] = [got[c] EXCEPT ![d] = [got[c][d] EXCEPT !.basicRead = TRUE]]
        <4>1. Fine(JobOf(c), Tail(plan[c]), [got[c] EXCEPT ![d] = [got[c][d] EXCEPT !.basicRead = TRUE]])
          BY <1>2, <2>2, <3>1, BasicFine
        <4> QED BY <3>3, <4>1
      <3>4. CASE got'[c] = [got[c] EXCEPT ![d] = Miss(plan[c][1], got[c][d])]
        <4>1. Fine(JobOf(c), Tail(plan[c]), [got[c] EXCEPT ![d] = Miss(plan[c][1], got[c][d])])
          BY <1>2, <2>2, <3>1, MissFine
        <4> QED BY <3>4, <4>1
      <3> QED BY <2>3, <3>2, <3>3, <3>4
    <2>5. AfterStep(c)
      BY <2>1, <2>4, ProceedFine
    <2> QED BY <1>1, <2>5, AfterStepOK
  <1>9. CASE \E f \in air : Receive(c, f)
    <2>1. PICK f \in air : Receive(c, f)
      BY <1>9
    <2>2. pc[c] = "waiting" /\ f.by = c
      BY <2>1 DEF Receive
    <2>3. Mine(f, plan[c][1]) /\ plan[c][1].kind # "basic"
      BY <2>2 DEF CallerOK
    <2>4. (Succeed(c, f) /\ f.fault = "none") \/ \E final : Fail(c, final)
      BY <2>1 DEF Receive, Good
    <2>5. AfterStep(c)
      BY <2>2, <2>3, <2>4, SucceedFine, FailFine DEF Underway
    <2> QED BY <1>1, <2>5, AfterStepOK
  <1> QED BY <1>4, <1>5, <1>6, <1>7, <1>8, <1>9 DEF Step

\* Every step leaves it so: a step of one caller, the end of its context, a frame
\* that nobody waits for.
LEMMA NextExchangeInv == ExchangeInv /\ [ZdoNext]_zdoVars => ExchangeInv'
  <1> SUFFICES ASSUME ExchangeInv, [ZdoNext]_zdoVars PROVE ExchangeInv'
    OBVIOUS
  <1>1. Shape /\ \A c \in Callers \ strayed : CallerOK(c)
    BY DEF ExchangeInv
  <1>2. CASE \E c \in Callers : Step(c)
    <2>1. PICK c \in Callers : Step(c)
      BY <1>2
    <2>2. /\ scenario' = scenario /\ NobodyElse(c) /\ strayed \subseteq strayed' /\ c \in Active
          /\ \A f \in air' : DOMAIN f = {"kind", "src", "arg", "n", "fault", "by"}
          /\ \A f \in air', e \in Callers \ {c} : f.by = e => f \in air
      BY <1>1, <2>1, StepIsOfOne
    <2>3. Shape'
      <3>1. \A e \in Callers : e \notin Active => pc'[e] = "done"
        BY <1>1, <2>2 DEF NobodyElse, Shape
      <3> QED BY <1>1, <2>2, <3>1 DEF NobodyElse, Shape, Active
    <2>4. ASSUME NEW e \in Callers \ strayed' PROVE CallerOK(e)'
      <3>1. CallerOK(e) /\ e \notin strayed
        BY <1>1, <2>2
      <3>2. CASE e = c
        BY <1>1, <2>1, <3>1, <3>2, StepKeepsCaller
      <3>3. CASE e # c
        <4>1. pc'[e] = pc[e] /\ plan'[e] = plan[e] /\ got'[e] = got[e] /\ \A f \in air' : f.by = e => f \in air
          BY <2>2, <3>3 DEF NobodyElse
        <4> QED BY <2>2, <3>1, <4>1, OtherCaller
      <3> QED BY <3>2, <3>3
    <2> QED BY <2>3, <2>4 DEF ExchangeInv
  <1>3. CASE UNCHANGED <<scenario, pc, plan, got, strayed>> /\ air' \subseteq air
    <2>1. Shape'
      BY <1>1, <1>3 DEF Shape, Active
    <2>2. ASSUME NEW e \in Callers \ strayed' PROVE CallerOK(e)'
      BY <1>1, <1>3, OtherCaller
    <2> QED BY <2>1, <2>2 DEF ExchangeInv
  <1>4. CASE \E c \in Callers : Cancel(c)
    BY <1>3, <1>4 DEF Cancel
  <1>5. CASE \E f \in air : Discard(f)
    BY <1>3, <1>5 DEF Discard
  <1>6. CASE UNCHANGED zdoVars
    BY <1>3, <1>6 DEF zdoVars
  <1> QED BY <1>2, <1>4, <1>5, <1>6 DEF ZdoNext

\* What every caller knows is true and what it lacks is in its plan, at any time and
\* after any refusal, silence, garbled or late answer, as long as it was given no
\* answer of somebody else: the invariant of the exchanges (zdo.go, zdo_device.go).
THEOREM ExchangesKeepTheirPlans == ZdoSpec => []ExchangeInv
  BY InitExchangeInv, NextExchangeInv, PTL DEF ZdoSpec

\* A caller that was given no answer but its own has the right address, the right
\* endpoints, and of a table it has as a whole every row, once and in order: the
\* loops over pages (GetAllNeighbors, GetAllRoutes, GetAllBindings) skip and repeat
\* no row, and end only at the last.
THEOREM WholeAnswers == ZdoSpec => []AnswersAreWhole
  <1>1. ExchangeInv => AnswersAreWhole
    <2> SUFFICES ASSUME ExchangeInv, NEW c \in Callers \ strayed, NEW d \in Devs
                 PROVE  /\ got[c][d].ieee \in {Nobody, d} /\ got[c][d].active \in {<<>>, Network[d].eps}
                        /\ \A k \in got[c][d].whole : got[c][d][k] = [i \in 1..RowsOf(d, k) |-> [dev |-> d, row |-> i]]
      BY DEF AnswersAreWhole
    <2>1. TrueOf(d, got[c][d])
      BY DEF ExchangeInv, CallerOK, KnowsOK
    <2> QED BY <2>1 DEF TrueOf, FirstRows
  <1> QED BY <1>1, ExchangesKeepTheirPlans, PTL

\* An interview that notes no error (adapter/interview.go) knows the address, the
\* node and every endpoint with its descriptor, and had an answer to its read of
\* the Basic cluster, as long as the caller was given no answer to a ZDO request
\* but its own.
THEOREM CompleteInterviews == ZdoSpec => []SuccessIsComplete
  <1>1. ExchangeInv => SuccessIsComplete
    <2> SUFFICES ASSUME ExchangeInv, NEW c \in Active \ strayed, pc[c] = "done", JobOf(c).kind \in Interviewing,
                        NEW d \in Targets(JobOf(c)), got[c][d].errors = 0
                 PROVE  Complete(got[c][d], d)
      BY DEF SuccessIsComplete, Interviewing, Targets
    <2>1. JobOf(c) \in Job /\ c \in Callers
      BY JobsAreJobs DEF ExchangeInv, Shape
    <2>2. Fine(JobOf(c), plan[c], got[c]) /\ plan[c] = <<>>
      BY <2>1 DEF ExchangeInv, CallerOK
    <2> QED BY <2>1, <2>2, NothingLeft DEF Fine
  <1> QED BY <1>1, ExchangesKeepTheirPlans, PTL
===============================================================================
