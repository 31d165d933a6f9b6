----------------------------- MODULE ZnpRequest -----------------------------
(***************************************************************************)
(* Requests of the ZNP client: Request and Reset with the goroutine each   *)
(* starts (pkg/znp/znp.go, pkg/znp/sys.go), the frame loop, the table of   *)
(* pending requests (module Waiter) and, outside src/, the coordinator     *)
(* chip at the other end of the serial line.                               *)
(*                                                                         *)
(* Request writes first and then starts a goroutine that calls WaitFor;    *)
(* Reset starts the goroutine first.  In both the goroutine registers when *)
(* the scheduler lets it, and hands its result to the caller through a     *)
(* channel of capacity one.                                                *)
(***************************************************************************)
EXTENDS Naturals, Sequences

CONSTANTS
  Requests,     \* the calls of Request and Reset
  Resets,       \* those of them that are calls of Reset
  Frames,       \* the frames the chip may send
  Matchers,     \* the values of FrameMatcher
  MatcherOf,    \* the matcher of a request's response, and of a frame
  AnswerTo,     \* the request a frame answers, or Unsolicited
  Unsolicited,  \* what a frame answers that the chip sends on its own
  NoFrame,      \* an empty response channel
  Empty         \* an empty result channel

ASSUME RequestAssumption ==
  /\ Resets \subseteq Requests
  /\ Unsolicited \notin Requests
  /\ AnswerTo \in [Frames -> Requests \cup {Unsolicited}]
  /\ Empty \notin Frames

VARIABLES
  waiters, nextID, pc, id, response, done, outcome, unmatched,  \* Waiter
  dispatched,   \* the frames the frame loop has taken
  isOpen,       \* the client's flag
  loop,         \* whether the frame loop is running
  caller,       \* how far each caller of Request or Reset is
  spawned,      \* the requests whose goroutine was started
  mailbox,      \* responseChan and errorChan of a request: one value at most
  finished,     \* the requests whose goroutine has ended
  canceled,     \* the requests whose caller canceled the context
  result,       \* what a request returned
  toChip,       \* requests on the line to the chip
  fromChip,     \* frames on the line from the chip, first in first out
  emitted,      \* the frames the chip has sent
  contended     \* history: the requests that competed for a response

W == INSTANCE Waiter WITH Calls <- Requests, arrived <- Frames \ dispatched

wvars == <<waiters, nextID, pc, id, response, done, outcome, unmatched, dispatched>>
cvars == <<isOpen, loop, caller, spawned, mailbox, finished, canceled, result>>
lvars == <<toChip, fromChip, emitted>>
vars == <<wvars, cvars, lvars, contended>>

NotOpen == "not open"
WriteFailed == "write failed"
Results == Frames \cup W!Errors \cup {NotOpen, WriteFailed}

ASSUME ResultsDistinct ==
  /\ Frames \cap (W!Errors \cup {W!Pending, NotOpen, WriteFailed}) = {}
  /\ Empty \notin Results

\* The response the chip gives has the command of the request.
ASSUME AnswersHaveTheKind ==
  \A f \in Frames : AnswerTo[f] # Unsolicited => MatcherOf[AnswerTo[f]] = MatcherOf[f]

\* What the table asks of its users (Waiter!WaiterAssumption).
ASSUME TableAssumption ==
  /\ Requests \cap Frames = {}
  /\ MatcherOf \in [Requests \cup Frames -> Matchers]
  /\ NoFrame \notin Frames

TypeOK ==
  /\ W!TypeOK
  /\ isOpen \in BOOLEAN
  /\ loop \in {"running", "exited"}
  /\ caller \in [Requests -> {"idle", "checked", "spawned", "selecting", "returned"}]
  /\ spawned \subseteq Requests
  /\ mailbox \in [Requests -> Frames \cup W!Errors \cup {Empty}]
  /\ finished \subseteq Requests
  /\ canceled \subseteq Requests
  /\ result \in [Requests -> Results \cup {Empty}]
  /\ toChip \in Seq(Requests)
  /\ fromChip \in Seq(Frames)
  /\ emitted \subseteq Frames
  /\ contended \subseteq Requests

Init ==
  /\ waiters = {}
  /\ nextID = 1
  /\ pc = [r \in Requests |-> "start"]
  /\ id = [r \in Requests |-> 0]
  /\ response = [r \in Requests |-> NoFrame]
  /\ done = [r \in Requests |-> FALSE]
  /\ outcome = [r \in Requests |-> W!Pending]
  /\ unmatched = {}
  /\ dispatched = {}
  /\ isOpen = TRUE
  /\ loop = "running"
  /\ caller = [r \in Requests |-> "idle"]
  /\ spawned = {}
  /\ mailbox = [r \in Requests |-> Empty]
  /\ finished = {}
  /\ canceled = {}
  /\ result = [r \in Requests |-> Empty]
  /\ toChip = <<>>
  /\ fromChip = <<>>
  /\ emitted = {}
  /\ contended = {}

-----------------------------------------------------------------------------
(***************************************************************************)
(* The callers                                                             *)
(***************************************************************************)
To(r, from, to) == caller[r] = from /\ caller' = [caller EXCEPT ![r] = to]

\* The caller returns x; the deferred cancel() ends the goroutine's context.
ReturnWith(r, from, x) ==
  /\ To(r, from, "returned")
  /\ result' = [result EXCEPT ![r] = x]

Answered(r) == result[r] \in Frames
OwnAnswer(r) == Answered(r) /\ AnswerTo[result[r]] = r

\* The request was written to the line.
Sent(r) ==
  \/ caller[r] = "selecting"
  \/ caller[r] = "returned" /\ result[r] \notin {NotOpen, WriteFailed}

\* History only: r is sent while a request for the same response was sent and
\* has not come back with its own.
Contend(r) ==
  LET rivals == {q \in Requests \ {r} :
                   Sent(q) /\ ~OwnAnswer(q) /\ MatcherOf[q] = MatcherOf[r]}
  IN  contended' = contended \cup (IF rivals = {} THEN {} ELSE rivals \cup {r})

\* Request: the test of isOpen, alone in its critical section.
CheckOpen(r) ==
  /\ r \notin Resets
  /\ IF isOpen
     THEN To(r, "idle", "checked") /\ UNCHANGED result
     ELSE ReturnWith(r, "idle", NotOpen)
  /\ UNCHANGED <<wvars, isOpen, loop, spawned, mailbox, finished, canceled, lvars,
                 contended>>

\* Request: port.Write succeeds and the goroutine is started.
Write(r) ==
  /\ r \notin Resets
  /\ To(r, "checked", "selecting")
  /\ toChip' = Append(toChip, r)
  /\ spawned' = spawned \cup {r}
  /\ Contend(r)
  /\ UNCHANGED <<wvars, isOpen, loop, mailbox, finished, canceled, result,
                 fromChip, emitted>>

\* Request: NewFrame or port.Write fails, before there is a goroutine.
WriteFails(r) ==
  /\ r \notin Resets
  /\ ReturnWith(r, "checked", WriteFailed)
  /\ UNCHANGED <<wvars, isOpen, loop, spawned, mailbox, finished, canceled, lvars,
                 contended>>

\* Reset starts its goroutine before it sends.
SpawnReset(r) ==
  /\ r \in Resets
  /\ To(r, "idle", "spawned")
  /\ spawned' = spawned \cup {r}
  /\ UNCHANGED <<wvars, isOpen, loop, mailbox, finished, canceled, result, lvars,
                 contended>>

\* Reset: z.Send, which tests isOpen, then writes the frame or fails.
CheckReset(r) ==
  /\ r \in Resets
  /\ IF isOpen
     THEN To(r, "spawned", "checked") /\ UNCHANGED result
     ELSE ReturnWith(r, "spawned", NotOpen)
  /\ UNCHANGED <<wvars, isOpen, loop, spawned, mailbox, finished, canceled, lvars,
                 contended>>

SendReset(r) ==
  /\ r \in Resets
  /\ \/ /\ To(r, "checked", "selecting")
        /\ toChip' = Append(toChip, r)
        /\ Contend(r)
        /\ UNCHANGED result
     \/ /\ ReturnWith(r, "checked", WriteFailed)
        /\ UNCHANGED <<toChip, contended>>
  /\ UNCHANGED <<wvars, isOpen, loop, spawned, mailbox, finished, canceled,
                 fromChip, emitted>>

\* Mutant: the result channel is shared by the requests.
TakeResult_Shared(r) ==
  /\ \E q \in Requests :
       mailbox[q] # Empty /\ ReturnWith(r, "selecting", mailbox[q])
  /\ UNCHANGED <<wvars, isOpen, loop, spawned, mailbox, finished, canceled, lvars,
                 contended>>

\* The select of the caller: a result, or the caller's own context.
TakeResult(r) ==
  /\ mailbox[r] # Empty
  /\ ReturnWith(r, "selecting", mailbox[r])
  /\ UNCHANGED <<wvars, isOpen, loop, spawned, mailbox, finished, canceled, lvars,
                 contended>>

\* Mutant: a late cancellation overwrites the result.
GiveUp_Late(r) ==
  /\ r \in canceled
  /\ caller[r] \in {"selecting", "returned"}
  /\ ReturnWith(r, caller[r], W!Canceled)
  /\ UNCHANGED <<wvars, isOpen, loop, spawned, mailbox, finished, canceled, lvars,
                 contended>>

GiveUp(r) ==
  /\ r \in canceled
  /\ ReturnWith(r, "selecting", W!Canceled)
  /\ UNCHANGED <<wvars, isOpen, loop, spawned, mailbox, finished, canceled, lvars,
                 contended>>

\* Whoever owns the context cancels it, or its deadline passes.
CancelContext(r) ==
  /\ canceled' = canceled \cup {r}
  /\ UNCHANGED <<wvars, isOpen, loop, caller, spawned, mailbox, finished, result, lvars,
                 contended>>

-----------------------------------------------------------------------------
(***************************************************************************)
(* The goroutine of a request: WaitFor, then one send to the caller.       *)
(***************************************************************************)
WaitContextDone(r) == r \in canceled \/ caller[r] = "returned"

\* The steps inside WaitFor concern the table only.
InTable == UNCHANGED <<dispatched, cvars, lvars, contended>>

Register(r) == InTable /\ r \in spawned /\ W!Register(r)
TakeResponse(r) == InTable /\ W!TakeResponse(r)
Expire(r) == InTable /\ W!Expire(r)
Cancel(r) == InTable /\ WaitContextDone(r) /\ W!Cancel(r)
Return(r) == InTable /\ W!Return(r)

\* Mutant: errors of WaitFor are not sent to the caller.
Forward_FramesOnly(r) ==
  /\ pc[r] = "returned"
  /\ r \notin finished
  /\ finished' = finished \cup {r}
  /\ mailbox' = IF outcome[r] \in Frames THEN [mailbox EXCEPT ![r] = outcome[r]] ELSE mailbox
  /\ UNCHANGED <<wvars, isOpen, loop, caller, spawned, canceled, result, lvars,
                 contended>>

\* Mutant: the channel has no buffer and the send no alternative.
Forward_Unbuffered(r) ==
  /\ pc[r] = "returned"
  /\ r \notin finished
  /\ caller[r] = "selecting"
  /\ finished' = finished \cup {r}
  /\ mailbox' = [mailbox EXCEPT ![r] = outcome[r]]
  /\ UNCHANGED <<wvars, isOpen, loop, caller, spawned, canceled, result, lvars,
                 contended>>

\* The send after WaitFor.  The channels are never full, so it never blocks;
\* Request's goroutine may also take the canceled context and drop the value.
Forward(r) ==
  /\ pc[r] = "returned"
  /\ r \notin finished
  /\ finished' = finished \cup {r}
  /\ \/ mailbox' = [mailbox EXCEPT ![r] = outcome[r]]
     \/ r \notin Resets /\ WaitContextDone(r) /\ UNCHANGED mailbox
  /\ UNCHANGED <<wvars, isOpen, loop, caller, spawned, canceled, result, lvars,
                 contended>>

-----------------------------------------------------------------------------
(***************************************************************************)
(* The frame loop, and the part of Close that the callers see: the flag is *)
(* cleared and the loop told to stop.  Waiting for the goroutines is the   *)
(* subject of module ZnpLifecycle.                                         *)
(***************************************************************************)

\* Mutant: the frame loop calls the handlers without asking the table.
Dispatch_HandlersFirst ==
  /\ loop = "running"
  /\ fromChip # <<>>
  /\ dispatched' = dispatched \cup {Head(fromChip)}
  /\ fromChip' = Tail(fromChip)
  /\ unmatched' = unmatched \cup {Head(fromChip)}
  /\ UNCHANGED <<waiters, nextID, pc, id, response, done, outcome>>
  /\ UNCHANGED <<cvars, toChip, emitted, contended>>

\* A frame goes to a waiter or, unmatched, to the handlers.
Dispatch ==
  /\ loop = "running"
  /\ fromChip # <<>>
  /\ dispatched' = dispatched \cup {Head(fromChip)}
  /\ fromChip' = Tail(fromChip)
  /\ W!Resolve(Head(fromChip))
  /\ UNCHANGED <<cvars, toChip, emitted, contended>>

CloseClient ==
  /\ isOpen
  /\ isOpen' = FALSE
  /\ UNCHANGED <<wvars, loop, caller, spawned, mailbox, finished, canceled, result, lvars,
                 contended>>

LoopExit ==
  /\ ~isOpen
  /\ loop = "running"
  /\ loop' = "exited"
  /\ UNCHANGED <<wvars, isOpen, caller, spawned, mailbox, finished, canceled, result, lvars,
                 contended>>

-----------------------------------------------------------------------------
(***************************************************************************)
(* The chip serves requests in order.  A request or its answer may be lost *)
(* on the line: the parser drops a frame with a bad checksum.              *)
(***************************************************************************)
ChipAnswers ==
  /\ toChip # <<>>
  /\ toChip' = Tail(toChip)
  /\ \/ \E f \in Frames \ emitted :
          /\ AnswerTo[f] = Head(toChip)
          /\ fromChip' = Append(fromChip, f)
          /\ emitted' = emitted \cup {f}
     \/ UNCHANGED <<fromChip, emitted>>
  /\ UNCHANGED <<wvars, cvars, contended>>

ChipIndicates(f) ==
  /\ f \in Frames \ emitted
  /\ AnswerTo[f] = Unsolicited
  /\ fromChip' = Append(fromChip, f)
  /\ emitted' = emitted \cup {f}
  /\ UNCHANGED <<wvars, cvars, toChip, contended>>

-----------------------------------------------------------------------------
CallerStep(r) ==
  \/ CheckOpen(r) \/ Write(r) \/ WriteFails(r)
  \/ SpawnReset(r) \/ CheckReset(r) \/ SendReset(r)
  \/ TakeResult(r) \/ GiveUp(r)

GoroutineStep(r) ==
  \/ Register(r) \/ TakeResponse(r) \/ Expire(r) \/ Cancel(r) \/ Return(r)
  \/ Forward(r)

Next ==
  \/ \E r \in Requests : CallerStep(r) \/ GoroutineStep(r) \/ CancelContext(r)
  \/ Dispatch \/ CloseClient \/ LoopExit
  \/ ChipAnswers \/ \E f \in Frames : ChipIndicates(f)

Spec == Init /\ [][Next]_vars

(***************************************************************************)
(* A caller that has begun and a goroutine that was started are scheduled; *)
(* the timer of WaitFor fires in the end.  No call has to begin, nobody    *)
(* has to cancel, and the chip owes no answer.                             *)
(***************************************************************************)
Fairness ==
  \A r \in Requests :
    /\ WF_vars(caller[r] # "idle" /\ CallerStep(r))
    /\ WF_vars(GoroutineStep(r))

FairSpec == Spec /\ Fairness

-----------------------------------------------------------------------------
(***************************************************************************)
(* Properties                                                              *)
(***************************************************************************)

\* A request that had no rival gets the answer the chip gave to it, or a frame
\* that the chip sent on its own: every answer to an earlier request for the
\* same response was consumed by then.
CorrespondingUnlessContended ==
  \A r \in Requests :
    Answered(r) /\ r \notin contended => AnswerTo[result[r]] \in {r, Unsolicited}

\* The steps of the composition are steps of the waiter table or leave it
\* alone: what module Waiter shows of any use of the table holds of this one.
ImplementsWaiter == W!Spec

Status(r) ==
  CASE caller[r] = "selecting" -> "issued"
    [] caller[r] = "returned"  -> "done"
    [] OTHER                   -> "idle"

Service == INSTANCE RequestService WITH
  status <- [r \in Requests |-> Status(r)],
  Rejections <- {NotOpen, WriteFailed},
  Errors <- W!Errors

\* The client gives each caller what module RequestService promises.
ImplementsService == Service!Spec

\* Every call that began returns, with a response or an error, whatever the
\* chip does and also when the client is closed meanwhile.
EveryRequestReturns ==
  \A r \in Requests : caller[r] # "idle" ~> caller[r] = "returned"

\* The goroutine of a request ends and leaves the table, also when its caller
\* has long returned (znp.go:151, "to avoid goroutine leak").
EveryGoroutineEnds ==
  \A r \in Requests :
    r \in spawned ~> r \in finished /\ \A w \in waiters : w.call # r

=============================================================================
