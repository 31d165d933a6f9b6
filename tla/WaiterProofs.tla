---------------------------- MODULE WaiterProofs ----------------------------
(***************************************************************************)
(* Proofs about the table of pending requests, for every set of calls and  *)
(* frames.  The inductive invariant says where each entry of the table     *)
(* comes from: it is the one its call stored under an identifier no other  *)
(* call was given, the call has not finished its cleanup, and nothing is   *)
(* in its channel.                                                         *)
(***************************************************************************)
EXTENDS Waiter, TLAPS

\* Calls that registered hold distinct identifiers, all below nextID.
IdsDistinct ==
  /\ \A c \in Calls : pc[c] # "start" => id[c] < nextID
  /\ \A c, d \in Calls :
       pc[c] # "start" /\ pc[d] # "start" /\ c # d => id[c] # id[d]

\* An entry is the one its call stored; the call is between Register and
\* RemoveWaiter and its channel is empty.
EntriesOwned ==
  \A w \in waiters :
    /\ w = Entry(w.call, id[w.call])
    /\ pc[w.call] \in {"waiting", "deferred", "closed"}
    /\ response[w.call] = NoFrame

DoneWhenClosed ==
  \A c \in Calls : done[c] <=> pc[c] \in {"closed", "returned"}

\* A call that has not left its select has no outcome, and one that has not
\* registered was given nothing.
NothingEarly ==
  \A c \in Calls :
    /\ pc[c] \in {"start", "waiting"} => outcome[c] = Pending
    /\ pc[c] = "start" => response[c] = NoFrame

\* A frame is refused only after it was given to Resolve.
RefusedArrived == arrived \cap unmatched = {}

IInv ==
  /\ TypeOK
  /\ RefusedArrived
  /\ IdsDistinct
  /\ EntriesOwned
  /\ DoneWhenClosed
  /\ NothingEarly
  /\ WaitingIsReachable
  /\ OneReceiverPerFrame
  /\ ReceivesOwnKind

-----------------------------------------------------------------------------
\* The key of an entry decides which call it belongs to.
LEMMA KeyIdentifies ==
  ASSUME IInv, NEW c \in Calls, pc[c] # "start",
         NEW w \in waiters, SameKey(w, Entry(c, id[c]))
  PROVE  w = Entry(c, id[c])
  <1>1. w.call \in Calls /\ w = Entry(w.call, id[w.call]) /\ pc[w.call] # "start"
    BY DEF IInv, TypeOK, EntriesOwned, Entries
  <1>2. id[w.call] = id[c]
    BY <1>1 DEF SameKey, Entry
  <1>3. w.call = c
    BY <1>1, <1>2 DEF IInv, IdsDistinct
  <1> QED
    BY <1>1, <1>3

LEMMA EntryInEntries ==
  ASSUME NEW c \in Calls, NEW i \in Nat
  PROVE  Entry(c, i) \in Entries
  BY WaiterAssumption DEF Entry, Entries

-----------------------------------------------------------------------------
(***************************************************************************)
(* One lemma per group of actions.                                         *)
(***************************************************************************)
LEMMA InitIInv == Init => IInv
  BY WaiterAssumption, ErrorsAreNoFrames
  DEF Init, IInv, TypeOK, RefusedArrived, IdsDistinct, EntriesOwned, DoneWhenClosed, NothingEarly,
      WaitingIsReachable, OneReceiverPerFrame, ReceivesOwnKind, Holds, PCs

LEMMA RegisterIInv ==
  ASSUME IInv, NEW c \in Calls, Register(c)
  PROVE  IInv'
  <1> DEFINE new == Entry(c, nextID)
  <1> USE DEF IInv, TypeOK, RefusedArrived
  <1>1. new \in Entries
    BY EntryInEntries
  <1>2. \A w \in waiters : ~SameKey(w, new)
    <2> SUFFICES ASSUME NEW w \in waiters, SameKey(w, new)
                 PROVE  FALSE
      OBVIOUS
    <2>1. w.call \in Calls /\ pc[w.call] # "start" /\ w.id = id[w.call]
      BY DEF EntriesOwned, Entries, Entry
    <2>2. w.id < nextID
      BY <2>1 DEF IdsDistinct
    <2>3. w.id = nextID
      BY DEF SameKey, Entry
    <2> QED BY <2>2, <2>3
  <1>3. waiters' = waiters \cup {new}
    BY <1>2 DEF Register
  <1>4. TypeOK' /\ RefusedArrived'
    BY <1>1, <1>3 DEF Register, PCs
  <1>5. IdsDistinct'
    BY DEF Register, IdsDistinct
  <1>6. EntriesOwned'
    <2> SUFFICES ASSUME NEW w \in waiters'
                 PROVE  /\ w = Entry(w.call, id'[w.call])
                        /\ pc'[w.call] \in {"waiting", "deferred", "closed"}
                        /\ response'[w.call] = NoFrame
      BY DEF EntriesOwned, Entry
    <2>1. CASE w = new
      BY <2>1 DEF Register, Entry, NothingEarly
    <2>2. CASE w \in waiters
      <3>1. w.call \in Calls /\ w.call # c
        BY <2>2 DEF Register, EntriesOwned, Entries
      <3> QED BY <2>2, <3>1 DEF Register, EntriesOwned
    <2> QED BY <1>3, <2>1, <2>2
  <1>7. DoneWhenClosed'
    BY DEF Register, DoneWhenClosed
  <1>8. NothingEarly'
    BY DEF Register, NothingEarly
  <1>9. WaitingIsReachable'
    <2> SUFFICES ASSUME NEW d \in Calls, pc'[d] = "waiting", response'[d] = NoFrame
                 PROVE  Entry(d, id'[d]) \in waiters'
      BY DEF WaitingIsReachable, Entry
    <2>1. CASE d = c
      BY <1>3, <2>1 DEF Register
    <2>2. CASE d # c
      BY <1>3, <2>2 DEF Register, WaitingIsReachable
    <2> QED BY <2>1, <2>2
  <1>10. OneReceiverPerFrame' /\ ReceivesOwnKind'
    BY DEF Register, OneReceiverPerFrame, ReceivesOwnKind, Holds
  <1> QED BY <1>4, <1>5, <1>6, <1>7, <1>8, <1>9, <1>10

LEMMA TakeResponseIInv ==
  ASSUME IInv, NEW c \in Calls, TakeResponse(c)
  PROVE  IInv'
  <1> USE DEF IInv, TypeOK, RefusedArrived, TakeResponse, Leave
  <1>1. TypeOK' /\ RefusedArrived'
    BY DEF PCs
  <1>2. IdsDistinct' /\ DoneWhenClosed' /\ NothingEarly'
    BY DEF IdsDistinct, DoneWhenClosed, NothingEarly
  <1>3. EntriesOwned'
    BY DEF EntriesOwned, Entry, Entries
  <1>4. WaitingIsReachable'
    BY DEF WaitingIsReachable, Entry
  <1>5. OneReceiverPerFrame'
    BY WaiterAssumption DEF OneReceiverPerFrame, Holds
  <1>6. ReceivesOwnKind'
    BY WaiterAssumption DEF ReceivesOwnKind, Holds
  <1> QED BY <1>1, <1>2, <1>3, <1>4, <1>5, <1>6

\* Leaving the select on the timer or on the context.
LEMMA GiveUpIInv ==
  ASSUME IInv, NEW c \in Calls, Expire(c) \/ Cancel(c)
  PROVE  IInv'
  <1> USE DEF IInv, TypeOK, RefusedArrived
  <1>0. PICK x \in Errors : Leave(c, x) /\ UNCHANGED response
    BY DEF Expire, Cancel, Errors
  <1> USE <1>0 DEF Leave
  <1>1. TypeOK' /\ RefusedArrived'
    BY DEF PCs
  <1>2. IdsDistinct' /\ DoneWhenClosed' /\ NothingEarly'
    BY DEF IdsDistinct, DoneWhenClosed, NothingEarly
  <1>3. EntriesOwned'
    BY DEF EntriesOwned, Entry, Entries
  <1>4. WaitingIsReachable'
    BY DEF WaitingIsReachable, Entry
  <1>5. OneReceiverPerFrame' /\ ReceivesOwnKind'
    BY ErrorsAreNoFrames DEF OneReceiverPerFrame, ReceivesOwnKind, Holds
  <1> QED BY <1>1, <1>2, <1>3, <1>4, <1>5

LEMMA CloseDoneIInv ==
  ASSUME IInv, NEW c \in Calls, CloseDone(c)
  PROVE  IInv'
  <1> USE DEF IInv, TypeOK, RefusedArrived, CloseDone
  <1>1. TypeOK' /\ RefusedArrived'
    BY DEF PCs
  <1>2. IdsDistinct' /\ DoneWhenClosed' /\ NothingEarly'
    BY DEF IdsDistinct, DoneWhenClosed, NothingEarly
  <1>3. EntriesOwned'
    BY DEF EntriesOwned, Entry, Entries
  <1>4. WaitingIsReachable'
    BY DEF WaitingIsReachable, Entry
  <1>5. OneReceiverPerFrame' /\ ReceivesOwnKind'
    BY DEF OneReceiverPerFrame, ReceivesOwnKind, Holds
  <1> QED BY <1>1, <1>2, <1>3, <1>4, <1>5

\* The cleanup of a call takes no entry but its own.
LEMMA RemoveWaiterIInv ==
  ASSUME IInv, NEW c \in Calls, RemoveWaiter(c)
  PROVE  IInv'
  <1> USE DEF IInv, TypeOK, RefusedArrived
  <1>1. waiters' = waiters \ {Entry(c, id[c])}
    <2>1. \A w \in waiters : SameKey(w, Entry(c, id[c])) <=> w = Entry(c, id[c])
      BY KeyIdentifies DEF RemoveWaiter, SameKey
    <2> QED BY <2>1 DEF RemoveWaiter
  <1>2. TypeOK' /\ RefusedArrived'
    BY <1>1 DEF RemoveWaiter, PCs
  <1>3. IdsDistinct' /\ DoneWhenClosed' /\ NothingEarly'
    BY DEF RemoveWaiter, IdsDistinct, DoneWhenClosed, NothingEarly
  <1>4. EntriesOwned'
    <2> SUFFICES ASSUME NEW w \in waiters'
                 PROVE  /\ w = Entry(w.call, id'[w.call])
                        /\ pc'[w.call] \in {"waiting", "deferred", "closed"}
                        /\ response'[w.call] = NoFrame
      BY DEF EntriesOwned, Entry
    <2>1. w \in waiters /\ w # Entry(c, id[c])
      BY <1>1
    <2>2. w.call \in Calls /\ w.call # c
      BY <2>1 DEF EntriesOwned, Entries
    <2> QED BY <2>1, <2>2 DEF RemoveWaiter, EntriesOwned
  <1>5. WaitingIsReachable'
    <2> SUFFICES ASSUME NEW d \in Calls, pc'[d] = "waiting", response'[d] = NoFrame
                 PROVE  Entry(d, id'[d]) \in waiters'
      BY DEF WaitingIsReachable, Entry
    <2>1. d # c /\ Entry(d, id[d]) \in waiters
      BY DEF RemoveWaiter, WaitingIsReachable
    <2>2. Entry(d, id[d]) # Entry(c, id[c])
      BY <2>1 DEF Entry
    <2> QED BY <1>1, <2>1, <2>2 DEF RemoveWaiter
  <1>6. OneReceiverPerFrame' /\ ReceivesOwnKind'
    BY DEF RemoveWaiter, OneReceiverPerFrame, ReceivesOwnKind, Holds
  <1> QED BY <1>2, <1>3, <1>4, <1>5, <1>6

\* A frame that has not been given to Resolve is held by nobody.
LEMMA ArrivedIsFree ==
  ASSUME IInv, NEW f \in arrived, NEW c \in Calls
  PROVE  ~Holds(c, f)
  BY DEF IInv, TypeOK, OneReceiverPerFrame

LEMMA DeliverIInv ==
  ASSUME IInv, NEW f \in arrived, arrived' = arrived \ {f},
         NEW w \in waiters, NEW dropped \in SUBSET Candidates(f),
         Deliver(f, w, dropped),
         UNCHANGED <<nextID, pc, id, done, outcome>>
  PROVE  IInv'
  <1> USE DEF IInv, TypeOK, RefusedArrived
  <1>1. /\ w.call \in Calls
        /\ w = Entry(w.call, id[w.call])
        /\ w.matcher = MatcherOf[f] /\ w.matcher = MatcherOf[w.call]
        /\ f \in Frames
        /\ pc[w.call] # "start"
    BY DEF Deliver, EntriesOwned, Entries, Candidates, Entry
  <1>2. \A v \in waiters : v.call = w.call => v = w
    BY <1>1 DEF EntriesOwned
  <1>3. TypeOK' /\ RefusedArrived'
    BY <1>1 DEF Deliver
  <1>4. IdsDistinct' /\ DoneWhenClosed' /\ NothingEarly'
    BY <1>1 DEF Deliver, IdsDistinct, DoneWhenClosed, NothingEarly
  <1>5. EntriesOwned'
    <2> SUFFICES ASSUME NEW v \in waiters'
                 PROVE  /\ v = Entry(v.call, id'[v.call])
                        /\ pc'[v.call] \in {"waiting", "deferred", "closed"}
                        /\ response'[v.call] = NoFrame
      BY DEF EntriesOwned, Entry
    <2>1. v \in waiters /\ v.call \in Calls /\ v.call # w.call
      BY <1>2 DEF Deliver, Entries
    <2> QED BY <2>1 DEF Deliver, EntriesOwned
  <1>6. WaitingIsReachable'
    <2> SUFFICES ASSUME NEW d \in Calls, pc'[d] = "waiting", response'[d] = NoFrame
                 PROVE  Entry(d, id'[d]) \in waiters'
      BY DEF WaitingIsReachable, Entry
    <2>1. d # w.call
      BY <1>1, WaiterAssumption DEF Deliver
    <2>2. Entry(d, id[d]) \in waiters
      BY <1>1, <2>1 DEF Deliver, WaitingIsReachable
    <2>3. Entry(d, id[d]).call = d
      BY DEF Entry
    <2>4. ~done[d]
      BY DEF DoneWhenClosed
    <2>5. Entry(d, id[d]) \notin dropped \cup {w}
      BY <2>1, <2>3, <2>4 DEF Deliver, IsDone
    <2> QED BY <2>2, <2>5 DEF Deliver
  <1>7. OneReceiverPerFrame'
    <2> SUFFICES ASSUME NEW g \in Frames
                 PROVE  /\ \A c, d \in Calls : Holds(c, g)' /\ Holds(d, g)' => c = d
                        /\ \A c \in Calls :
                             Holds(c, g)' => g \notin arrived' \cup unmatched'
      BY DEF OneReceiverPerFrame, Holds
    <2>1. CASE g = f
      <3>1. \A c \in Calls : Holds(c, g)' => c = w.call
        BY <2>1, <1>1, ArrivedIsFree DEF Deliver, Holds
      <3>2. f \notin unmatched
        BY DEF RefusedArrived
      <3> QED BY <3>1, <3>2, <2>1 DEF Deliver
    <2>2. CASE g # f
      <3>1. \A c \in Calls : Holds(c, g)' => Holds(c, g)
        BY <2>2, <1>1 DEF Deliver, Holds
      <3> QED BY <3>1 DEF Deliver, OneReceiverPerFrame
    <2> QED BY <2>1, <2>2
  <1>8. ReceivesOwnKind'
    BY <1>1 DEF Deliver, ReceivesOwnKind, Holds
  <1> QED BY <1>3, <1>4, <1>5, <1>6, <1>7, <1>8

LEMMA RefuseIInv ==
  ASSUME IInv, NEW f \in arrived, arrived' = arrived \ {f}, Refuse(f),
         UNCHANGED <<nextID, pc, id, done, outcome>>
  PROVE  IInv'
  <1> USE DEF IInv, TypeOK, RefusedArrived
  <1>1. TypeOK' /\ RefusedArrived' /\ IdsDistinct' /\ DoneWhenClosed' /\ NothingEarly'
    BY DEF Refuse, IdsDistinct, DoneWhenClosed, NothingEarly
  <1>2. EntriesOwned'
    BY DEF Refuse, EntriesOwned, Entry
  <1>3. WaitingIsReachable'
    <2> SUFFICES ASSUME NEW d \in Calls, pc'[d] = "waiting", response'[d] = NoFrame
                 PROVE  Entry(d, id'[d]) \in waiters'
      BY DEF WaitingIsReachable, Entry
    <2>1. Entry(d, id[d]) \in waiters /\ ~done[d]
      BY DEF Refuse, WaitingIsReachable, DoneWhenClosed
    <2>2. Entry(d, id[d]) \notin Candidates(f)
      BY <2>1 DEF Refuse, IsDone, Entry
    <2> QED BY <2>1, <2>2 DEF Refuse
  <1>4. OneReceiverPerFrame'
    BY ArrivedIsFree DEF Refuse, OneReceiverPerFrame, Holds
  <1>5. ReceivesOwnKind'
    BY DEF Refuse, ReceivesOwnKind, Holds
  <1> QED BY <1>1, <1>2, <1>3, <1>4, <1>5

LEMMA NextIInv == IInv /\ [Next]_vars => IInv'
  <1> SUFFICES ASSUME IInv, [Next]_vars
               PROVE  IInv'
    OBVIOUS
  <1>1. ASSUME NEW c \in Calls,
               Register(c) \/ TakeResponse(c) \/ Expire(c) \/ Cancel(c) \/ Return(c)
        PROVE  IInv'
    BY <1>1, RegisterIInv, TakeResponseIInv, GiveUpIInv, CloseDoneIInv,
       RemoveWaiterIInv DEF Return
  <1>2. ASSUME NEW f \in Frames, Resolve(f)
        PROVE  IInv'
    <2>1. f \in arrived /\ arrived' = arrived \ {f}
          /\ UNCHANGED <<nextID, pc, id, done, outcome>>
      BY <1>2 DEF Resolve
    <2>2. CASE \E w \in Candidates(f), dropped \in SUBSET Candidates(f) :
                 Deliver(f, w, dropped)
      BY <2>1, <2>2, DeliverIInv DEF Candidates
    <2>3. CASE Refuse(f)
      BY <2>1, <2>3, RefuseIInv
    <2> QED BY <1>2, <2>2, <2>3 DEF Resolve
  <1>3. CASE UNCHANGED vars
    BY <1>3 DEF vars, IInv, TypeOK, RefusedArrived, IdsDistinct, EntriesOwned, DoneWhenClosed,
                NothingEarly, WaitingIsReachable, OneReceiverPerFrame,
                ReceivesOwnKind, Holds, Entry
  <1> QED BY <1>1, <1>2, <1>3 DEF Next

-----------------------------------------------------------------------------
(***************************************************************************)
(* The theorems.                                                           *)
(***************************************************************************)

\* The inductive invariant holds in every reachable state.
THEOREM Invariance == Spec => []IInv
  BY InitIInv, NextIInv, PTL DEF Spec

\* A waiting call is always in the table until a frame is in its channel.
THEOREM WaitersReachable == Spec => []WaitingIsReachable
  BY Invariance, PTL DEF IInv

\* Each frame reaches at most one waiter and then not the frame handler.
THEOREM SingleDelivery == Spec => []OneReceiverPerFrame
  BY Invariance, PTL DEF IInv

\* WaitFor returns frames of the requested kind only.
THEOREM OwnKind == Spec => []ReceivesOwnKind
  BY Invariance, PTL DEF IInv

\* Resolve never blocks while it holds the mutex.
THEOREM ResolveNonBlocking == Spec => []ResolveNeverBlocks
  <1>1. IInv => ResolveNeverBlocks
    BY DEF IInv, EntriesOwned, ResolveNeverBlocks, CanReceive
  <1> QED BY <1>1, Invariance, PTL

\* A call that returned has left the table.
THEOREM TableClean == Spec => []NoStaleEntry
  <1>1. IInv => NoStaleEntry
    BY DEF IInv, EntriesOwned, NoStaleEntry
  <1> QED BY <1>1, Invariance, PTL

\* A frame is refused only when no call waits for its kind.
THEOREM RefusalJustified == Spec => RefusedOnlyUnawaited
  <1> DEFINE Justified ==
        \A f \in unmatched' \ unmatched, c \in Calls :
          pc[c] = "waiting" /\ response[c] = NoFrame => MatcherOf[c] # MatcherOf[f]
  <1>1. IInv /\ [Next]_vars => [Justified]_vars
    <2> SUFFICES ASSUME IInv, Next,
                        NEW f \in unmatched' \ unmatched, NEW c \in Calls,
                        pc[c] = "waiting", response[c] = NoFrame,
                        MatcherOf[c] = MatcherOf[f]
                 PROVE  FALSE
      OBVIOUS
    <2>1. Refuse(f)
      <3>1. PICK g \in Frames : Resolve(g)
        BY DEF Next, Register, TakeResponse, Expire, Cancel, Leave, Return,
               CloseDone, RemoveWaiter
      <3> QED BY <3>1 DEF Resolve, Deliver, Refuse
    <2>2. Entry(c, id[c]) \in Candidates(f) /\ ~done[c]
      BY DEF IInv, WaitingIsReachable, DoneWhenClosed, Candidates, Entry
    <2> QED BY <2>1, <2>2 DEF Refuse, IsDone, Entry
  <1> QED BY <1>1, Invariance, PTL DEF Spec, RefusedOnlyUnawaited

=============================================================================
