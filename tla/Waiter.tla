------------------------------- MODULE Waiter -------------------------------
(***************************************************************************)
(* The table of pending requests of pkg/znp/waiter.go.                     *)
(*                                                                         *)
(* WaitFor runs in the goroutine of each caller: it registers an entry     *)
(* under the mutex, selects on the response channel, the timer and the     *)
(* context, and on the way out closes `done` and removes its entry, again  *)
(* under the mutex.  Resolve runs in the frame loop and holds the mutex    *)
(* from start to end, so it is one step.  Everything a critical section    *)
(* does is one action; everything between two of them interleaves.         *)
(***************************************************************************)
EXTENDS Naturals

CONSTANTS
  Calls,      \* the invocations of WaitFor; each runs at most once
  Frames,     \* the frames given to Resolve; each is given at most once
  Matchers,   \* the values of FrameMatcher: (type, subsystem, command)
  MatcherOf,  \* the matcher a call waits for, and the one of a frame
  NoFrame     \* an empty response channel

ASSUME WaiterAssumption ==
  /\ Calls \cap Frames = {}
  /\ MatcherOf \in [Calls \cup Frames -> Matchers]
  /\ NoFrame \notin Frames

VARIABLES
  waiters,    \* the entries of the nested map, see Entry
  nextID,     \* the identifier of the next entry
  pc,         \* how far each call of WaitFor is
  id,         \* the identifier a call was given
  response,   \* the response channel of a call: capacity one
  done,       \* whether the done channel of a call is closed
  outcome,    \* what a call is about to return, or returned
  arrived,    \* the frames that have not been given to Resolve yet
  unmatched   \* the frames for which Resolve returned false

vars == <<waiters, nextID, pc, id, response, done, outcome, arrived, unmatched>>

(***************************************************************************)
(* waiters[matcher][id] = req is the entry [matcher, id, call |-> req].    *)
(* An empty inner map and an absent one are the same here, as they are to  *)
(* every reader of the map in the code.                                    *)
(***************************************************************************)
Entry(c, i) == [matcher |-> MatcherOf[c], id |-> i, call |-> c]
Entries == [matcher : Matchers, id : Nat, call : Calls]

SameKey(v, w) == v.matcher = w.matcher /\ v.id = w.id

Timeout == "timeout"
Canceled == "canceled"
Pending == "pending"
Errors == {Timeout, Canceled}

ASSUME ErrorsAreNoFrames == Frames \cap (Errors \cup {Pending}) = {}

PCs == {"start", "waiting", "deferred", "closed", "returned"}

TypeOK ==
  /\ waiters \subseteq Entries
  /\ nextID \in Nat
  /\ pc \in [Calls -> PCs]
  /\ id \in [Calls -> Nat]
  /\ response \in [Calls -> Frames \cup {NoFrame}]
  /\ done \in [Calls -> BOOLEAN]
  /\ outcome \in [Calls -> Frames \cup Errors \cup {Pending}]
  /\ arrived \subseteq Frames
  /\ unmatched \subseteq Frames

Init ==
  /\ waiters = {}
  /\ nextID = 1
  /\ pc = [c \in Calls |-> "start"]
  /\ id = [c \in Calls |-> 0]
  /\ response = [c \in Calls |-> NoFrame]
  /\ done = [c \in Calls |-> FALSE]
  /\ outcome = [c \in Calls |-> Pending]
  /\ arrived = Frames
  /\ unmatched = {}

-----------------------------------------------------------------------------
(***************************************************************************)
(* WaitFor                                                                 *)
(***************************************************************************)

\* Mutant: the identifier is not advanced.
Register_SharedID(c) ==
  /\ pc[c] = "start"
  /\ pc' = [pc EXCEPT ![c] = "waiting"]
  /\ id' = [id EXCEPT ![c] = nextID]
  /\ LET new == Entry(c, nextID)
     IN  waiters' = {w \in waiters : ~SameKey(w, new)} \cup {new}
  /\ UNCHANGED <<nextID, response, done, outcome, arrived, unmatched>>

\* Take an identifier and store the entry; storing overwrites the same key.
Register(c) ==
  /\ pc[c] = "start"
  /\ pc' = [pc EXCEPT ![c] = "waiting"]
  /\ id' = [id EXCEPT ![c] = nextID]
  /\ nextID' = nextID + 1
  /\ LET new == Entry(c, nextID)
     IN  waiters' = {w \in waiters : ~SameKey(w, new)} \cup {new}
  /\ UNCHANGED <<response, done, outcome, arrived, unmatched>>

\* Leave the select with result x; the deferred function runs next.
Leave(c, x) ==
  /\ pc[c] = "waiting"
  /\ pc' = [pc EXCEPT ![c] = "deferred"]
  /\ outcome' = [outcome EXCEPT ![c] = x]
  /\ UNCHANGED <<waiters, nextID, id, done, arrived, unmatched>>

\* case frame := <-req.response
TakeResponse(c) ==
  /\ response[c] # NoFrame
  /\ Leave(c, response[c])
  /\ response' = [response EXCEPT ![c] = NoFrame]

\* case <-timer.C.  The timer may fire at any time, also when a response is
\* there: a select with two ready cases takes either.
Expire(c) == Leave(c, Timeout) /\ UNCHANGED response

\* case <-ctx.Done().  The caller may cancel at any time.
Cancel(c) == Leave(c, Canceled) /\ UNCHANGED response

\* close(req.done), without the mutex.
CloseDone(c) ==
  /\ pc[c] = "deferred"
  /\ pc' = [pc EXCEPT ![c] = "closed"]
  /\ done' = [done EXCEPT ![c] = TRUE]
  /\ UNCHANGED <<waiters, nextID, id, response, outcome, arrived, unmatched>>

\* w.removeWaiter(matcher, id), after which WaitFor returns.
RemoveWaiter(c) ==
  /\ pc[c] = "closed"
  /\ pc' = [pc EXCEPT ![c] = "returned"]
  /\ waiters' = {w \in waiters : ~SameKey(w, Entry(c, id[c]))}
  /\ UNCHANGED <<nextID, id, response, done, outcome, arrived, unmatched>>

-----------------------------------------------------------------------------
(***************************************************************************)
(* Resolve.  The loop visits the entries of the frame's matcher in the     *)
(* random order of a Go map.  At each it takes one of the ready cases:     *)
(* deliver and stop, or drop an entry whose done channel is closed and go  *)
(* on.  `dropped` are the entries it visited before it stopped.            *)
(***************************************************************************)

Candidates(f) == {w \in waiters : w.matcher = MatcherOf[f]}
IsDone(w) == done[w.call]
CanReceive(w) == response[w.call] = NoFrame

\* Mutant: the entry stays in the map after the delivery.
Deliver_KeepsEntry(f, w, dropped) ==
  /\ w \in Candidates(f)
  /\ CanReceive(w)
  /\ dropped \subseteq {v \in Candidates(f) \ {w} : IsDone(v)}
  /\ response' = [response EXCEPT ![w.call] = f]
  /\ waiters' = waiters \ dropped
  /\ UNCHANGED unmatched

\* Mutant: the loop goes on after a delivery.
Deliver_ToAll(f, w, dropped) ==
  /\ dropped = {}
  /\ w \in Candidates(f)
  /\ response' = [c \in Calls |->
                    IF \E v \in Candidates(f) : v.call = c THEN f ELSE response[c]]
  /\ waiters' = waiters \ Candidates(f)
  /\ UNCHANGED unmatched

\* Resolve returns true: one entry gets the frame and leaves the map.
Deliver(f, w, dropped) ==
  /\ w \in Candidates(f)
  /\ CanReceive(w)
  /\ dropped \subseteq {v \in Candidates(f) \ {w} : IsDone(v)}
  /\ response' = [response EXCEPT ![w.call] = f]
  /\ waiters' = waiters \ (dropped \cup {w})
  /\ UNCHANGED unmatched

\* Mutant: a select with a default gives up on waiters that are not done.
Refuse_Unguarded(f) ==
  /\ waiters' = waiters \ {w \in Candidates(f) : IsDone(w)}
  /\ unmatched' = unmatched \cup {f}
  /\ UNCHANGED response

\* Resolve returns false: no entry, or each was found done and dropped.
Refuse(f) ==
  /\ \A w \in Candidates(f) : IsDone(w)
  /\ waiters' = waiters \ Candidates(f)
  /\ unmatched' = unmatched \cup {f}
  /\ UNCHANGED response

Resolve(f) ==
  /\ f \in arrived
  /\ arrived' = arrived \ {f}
  /\ \/ \E w \in Candidates(f), dropped \in SUBSET Candidates(f) :
          Deliver(f, w, dropped)
     \/ Refuse(f)
  /\ UNCHANGED <<nextID, pc, id, done, outcome>>

-----------------------------------------------------------------------------
\* What a call does on its own once it is registered.
Return(c) == CloseDone(c) \/ RemoveWaiter(c)

Next ==
  \/ \E c \in Calls :
       \/ Register(c)
       \/ TakeResponse(c)
       \/ Expire(c)
       \/ Cancel(c)
       \/ Return(c)
  \/ \E f \in Frames : Resolve(f)

Spec == Init /\ [][Next]_vars

-----------------------------------------------------------------------------
(***************************************************************************)
(* Properties                                                              *)
(***************************************************************************)

\* A call that is in the select with nothing in its channel has an entry in
\* the map, so that the next matching frame can reach it: neither another
\* call's registration or cleanup, nor Resolve dropping completed waiters,
\* ever takes the entry of a live one.
WaitingIsReachable ==
  \A c \in Calls :
    pc[c] = "waiting" /\ response[c] = NoFrame => Entry(c, id[c]) \in waiters

\* Resolve never blocks while it holds the mutex: at every entry it may visit
\* one of its two cases is ready (waiter.go, the select without default).
ResolveNeverBlocks ==
  \A w \in waiters : CanReceive(w) \/ IsDone(w)

\* The frame f is held by, or was returned by, the call c.
Holds(c, f) == response[c] = f \/ outcome[c] = f

\* "Only deliver to one waiter per frame", and a frame that reached a waiter
\* is not also handed to the frame handler.
OneReceiverPerFrame ==
  \A f \in Frames :
    /\ \A c, d \in Calls : Holds(c, f) /\ Holds(d, f) => c = d
    /\ \A c \in Calls : Holds(c, f) => f \notin arrived \cup unmatched

\* A call gets only frames of its own matcher, even when the table holds
\* waiters of several matchers and entries are replaced under it.
ReceivesOwnKind ==
  \A c \in Calls, f \in Frames : Holds(c, f) => MatcherOf[f] = MatcherOf[c]

\* A call that returned leaves no entry behind (the table does not grow), and
\* nothing is delivered to it any more.
NoStaleEntry ==
  \A w \in waiters : pc[w.call] \notin {"start", "returned"}

\* Resolve refuses a frame only when no call is still waiting for one of its
\* kind with an empty channel.
RefusedOnlyUnawaited ==
  [][\A f \in unmatched' \ unmatched, c \in Calls :
       pc[c] = "waiting" /\ response[c] = NoFrame => MatcherOf[c] # MatcherOf[f]]_vars

=============================================================================
