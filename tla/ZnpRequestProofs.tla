-------------------------- MODULE ZnpRequestProofs --------------------------
(***************************************************************************)
(* Proofs about the requests of the ZNP client.                            *)
(***************************************************************************)
EXTENDS ZnpRequest, TLAPS

-----------------------------------------------------------------------------
(***************************************************************************)
(* The composition uses the table as module Waiter allows.                 *)
(***************************************************************************)
LEMMA InitWaiter == Init => W!Init
  BY DEF Init, W!Init

\* The goroutines change the table by the steps of WaitFor.
LEMMA GoroutineWaiter ==
  ASSUME NEW r \in Requests, GoroutineStep(r)
  PROVE  [W!Next]_(W!vars)
  <1>1. CASE Forward(r)
    BY <1>1 DEF Forward, wvars, W!vars
  <1>2. CASE Register(r)
    BY <1>2 DEF Register, W!Next
  <1>3. CASE TakeResponse(r)
    BY <1>3 DEF TakeResponse, W!Next
  <1>4. CASE Expire(r)
    BY <1>4 DEF Expire, W!Next
  <1>5. CASE Cancel(r)
    BY <1>5 DEF Cancel, W!Next
  <1>6. CASE Return(r)
    BY <1>6 DEF Return, W!Next
  <1> QED BY <1>1, <1>2, <1>3, <1>4, <1>5, <1>6 DEF GoroutineStep

\* The frame loop gives the table the frame it took.
LEMMA DispatchWaiter ==
  ASSUME Dispatch
  PROVE  W!Next
  <1>1. Head(fromChip) \in Frames
    BY DEF Dispatch, W!Resolve
  <1> QED BY <1>1 DEF Dispatch, W!Next

\* Nobody else touches the table.
LEMMA OthersWaiter ==
  ASSUME \/ \E r \in Requests : CallerStep(r) \/ CancelContext(r)
         \/ CloseClient \/ LoopExit
         \/ ChipAnswers \/ \E f \in Frames : ChipIndicates(f)
         \/ UNCHANGED vars
  PROVE  UNCHANGED wvars
  BY DEF CallerStep, CheckOpen, Write, WriteFails, SpawnReset, CheckReset,
         SendReset, TakeResult, GiveUp, CancelContext, CloseClient, LoopExit,
         ChipAnswers, ChipIndicates, vars

LEMMA StepWaiter ==
  ASSUME [Next]_vars
  PROVE  [W!Next]_(W!vars)
  <1>1. UNCHANGED wvars => UNCHANGED W!vars
    BY DEF wvars, W!vars
  <1> QED
    BY <1>1, GoroutineWaiter, DispatchWaiter, OthersWaiter DEF Next

\* Request, Reset and the frame loop together are a use of the table: every
\* run of theirs is one of module Waiter.
THEOREM UsesTheTable == Spec => ImplementsWaiter
  BY InitWaiter, StepWaiter, PTL DEF Spec, ImplementsWaiter, W!Spec

WP == INSTANCE WaiterProofs WITH Calls <- Requests, arrived <- Frames \ dispatched

LEMMA TableAssumptions == WP!WaiterAssumption /\ WP!ErrorsAreNoFrames
  BY TableAssumption, ResultsDistinct
  DEF WP!WaiterAssumption, WP!ErrorsAreNoFrames, WP!Errors, WP!Pending, WP!Timeout, WP!Canceled,
      W!Errors, W!Pending, W!Timeout, W!Canceled

LEMMA TableInit == W!Init => WP!IInv
  <1>1. WP!Init => WP!IInv
    BY WP!InitIInv, TableAssumptions
  <1> QED BY <1>1 DEF W!Init, WP!Init, W!Pending, WP!Pending

LEMMA TableNext == WP!IInv /\ [W!Next]_(W!vars) => WP!IInv'
  <1>1. WP!IInv /\ [WP!Next]_(WP!vars) => WP!IInv'
    BY WP!NextIInv, TableAssumptions
  <1> QED
    BY <1>1
    DEF W!Next, WP!Next, W!vars, WP!vars, W!Register, WP!Register, W!Entry, WP!Entry,
        W!SameKey, WP!SameKey, W!TakeResponse, WP!TakeResponse, W!Leave, WP!Leave,
        W!Expire, WP!Expire, W!Timeout, WP!Timeout, W!Cancel, WP!Cancel, W!Canceled, WP!Canceled,
        W!Return, WP!Return, W!CloseDone, WP!CloseDone, W!RemoveWaiter, WP!RemoveWaiter,
        W!Resolve, WP!Resolve, W!Candidates, WP!Candidates, W!IsDone, WP!IsDone,
        W!CanReceive, WP!CanReceive, W!Deliver, WP!Deliver, W!Refuse, WP!Refuse

\* What WaiterProofs shows of the table holds of this one.
THEOREM TableInvariance == Spec => []WP!IInv
  BY InitWaiter, StepWaiter, TableInit, TableNext, PTL DEF Spec

-----------------------------------------------------------------------------
(***************************************************************************)
(* The invariant of the callers: what is in a result channel is what the   *)
(* goroutine's WaitFor returned, what a caller returned is what was in its *)
(* channel, and what is on the line was sent.                              *)
(***************************************************************************)
CallersTyped ==
  /\ caller \in [Requests -> {"idle", "checked", "spawned", "selecting", "returned"}]
  /\ mailbox \in [Requests -> Frames \cup W!Errors \cup {Empty}]
  /\ result \in [Requests -> Results \cup {Empty}]

LineTyped ==
  /\ toChip \in Seq(Requests)
  /\ fromChip \in Seq(Frames)
  /\ emitted \subseteq Frames

\* A goroutine that left its select knows what it returns.
OutcomeKnown ==
  \A r \in Requests : pc[r] \in {"deferred", "closed", "returned"} => outcome[r] # W!Pending

MailboxIsOutcome ==
  \A r \in Requests : mailbox[r] # Empty => pc[r] = "returned" /\ mailbox[r] = outcome[r]

ResultIsOutcome ==
  \A r \in Requests :
    /\ result[r] # Empty => caller[r] = "returned"
    /\ result[r] \in Frames => pc[r] = "returned" /\ result[r] = outcome[r]

\* The chip has a request only from a caller that sent it, and a frame is on
\* its way or dispatched only if the chip sent it.
LineIsTrue ==
  /\ \A i \in 1..Len(toChip) : caller[toChip[i]] \in {"selecting", "returned"}
  /\ \A i \in 1..Len(fromChip) : fromChip[i] \in emitted
  /\ dispatched \subseteq emitted

CInv ==
  /\ CallersTyped
  /\ LineTyped
  /\ OutcomeKnown
  /\ MailboxIsOutcome
  /\ ResultIsOutcome
  /\ LineIsTrue

LEMMA InitCInv == Init => CInv
  BY ResultsDistinct
  DEF Init, CInv, CallersTyped, LineTyped, OutcomeKnown, MailboxIsOutcome, ResultIsOutcome,
      LineIsTrue, Results

\* A step of WaitFor does not touch what a call that left its select returns.
LEMMA TableStepCInv ==
  ASSUME CInv, WP!IInv, NEW r \in Requests,
         Register(r) \/ TakeResponse(r) \/ Expire(r) \/ Cancel(r) \/ Return(r)
  PROVE  CInv'
  <1>1. UNCHANGED <<dispatched, cvars, lvars>>
    BY DEF Register, TakeResponse, Expire, Cancel, Return, InTable
  <1>2. /\ pc \in [Requests -> W!PCs]
        /\ outcome \in [Requests -> Frames \cup W!Errors \cup {W!Pending}]
        /\ response[r] \in Frames \cup {NoFrame}
    BY DEF WP!IInv, WP!TypeOK, WP!PCs, W!PCs, WP!Errors, W!Errors, WP!Timeout, W!Timeout,
           WP!Canceled, W!Canceled, WP!Pending, W!Pending
  <1>3. /\ \A q \in Requests \ {r} : pc'[q] = pc[q] /\ outcome'[q] = outcome[q]
        /\ \/ pc[r] = "start" /\ pc'[r] = "waiting" /\ outcome' = outcome
           \/ /\ pc[r] = "waiting" /\ pc'[r] = "deferred"
              /\ outcome'[r] \in Frames \cup W!Errors
           \/ /\ pc[r] \in {"deferred", "closed"} /\ pc'[r] \in {"closed", "returned"}
              /\ outcome' = outcome
    <2>1. CASE Register(r)
      BY <2>1, <1>2 DEF Register, W!Register
    <2>2. CASE TakeResponse(r)
      BY <2>2, <1>2 DEF TakeResponse, W!TakeResponse, W!Leave
    <2>3. CASE Expire(r) \/ Cancel(r)
      BY <2>3, <1>2 DEF Expire, W!Expire, Cancel, W!Cancel, W!Leave, W!Errors
    <2>4. CASE Return(r)
      BY <2>4, <1>2 DEF Return, W!Return, W!CloseDone, W!RemoveWaiter
    <2> QED BY <2>1, <2>2, <2>3, <2>4
  <1>4. W!Pending \notin Frames \cup W!Errors
    BY ResultsDistinct DEF W!Pending, W!Errors, W!Timeout, W!Canceled
  <1>5. OutcomeKnown'
    BY <1>3, <1>4 DEF CInv, OutcomeKnown
  <1>6. MailboxIsOutcome' /\ ResultIsOutcome'
    BY <1>1, <1>3 DEF CInv, MailboxIsOutcome, ResultIsOutcome, cvars
  <1>7. CallersTyped' /\ LineTyped' /\ LineIsTrue'
    BY <1>1 DEF CInv, CallersTyped, LineTyped, LineIsTrue, cvars, lvars
  <1> QED BY <1>5, <1>6, <1>7 DEF CInv

LEMMA ForwardCInv ==
  ASSUME CInv, WP!IInv, NEW r \in Requests, Forward(r)
  PROVE  CInv'
  <1>1. outcome[r] \in Frames \cup W!Errors
    BY DEF Forward, CInv, OutcomeKnown, WP!IInv, WP!TypeOK, WP!Errors, W!Errors,
           WP!Timeout, W!Timeout, WP!Canceled, W!Canceled, WP!Pending, W!Pending
  <1>2. UNCHANGED <<pc, outcome, dispatched, caller, result, toChip, fromChip, emitted>>
    BY DEF Forward, wvars, lvars
  <1>3. CallersTyped' /\ MailboxIsOutcome'
    BY <1>1, <1>2 DEF Forward, CInv, CallersTyped, MailboxIsOutcome
  <1> QED
    BY <1>2, <1>3 DEF CInv, LineTyped, OutcomeKnown, ResultIsOutcome, LineIsTrue

(***************************************************************************)
(* The steps of a caller: it moves on, sends, comes back with an error, or *)
(* takes what is in its channel.                                           *)
(***************************************************************************)
Advances(r) ==
  /\ caller[r] \in {"idle", "spawned"}
  /\ \E to \in {"checked", "spawned"} : caller' = [caller EXCEPT ![r] = to]
  /\ UNCHANGED <<result, toChip, contended>>

Sends(r) ==
  /\ To(r, "checked", "selecting")
  /\ toChip' = Append(toChip, r)
  /\ Contend(r)
  /\ UNCHANGED result

Rejected(r) ==
  /\ caller[r] \in {"idle", "checked", "spawned"}
  /\ \E x \in {NotOpen, WriteFailed} : ReturnWith(r, caller[r], x)
  /\ UNCHANGED <<toChip, contended>>

LEMMA CallerKinds ==
  ASSUME NEW r \in Requests, CallerStep(r)
  PROVE  /\ UNCHANGED <<pc, outcome, dispatched, mailbox, fromChip, emitted>>
         /\ \/ Advances(r) \/ Sends(r) \/ Rejected(r)
            \/ UNCHANGED <<toChip, contended>> /\ (TakeResult(r) \/ GiveUp(r))
  <1> USE DEF wvars, lvars, To, ReturnWith
  <1>1. CASE CheckOpen(r)
    BY <1>1 DEF CheckOpen, Advances, Rejected
  <1>2. CASE Write(r)
    BY <1>2 DEF Write, Sends
  <1>3. CASE WriteFails(r)
    BY <1>3 DEF WriteFails, Rejected
  <1>4. CASE SpawnReset(r)
    BY <1>4 DEF SpawnReset, Advances
  <1>5. CASE CheckReset(r)
    BY <1>5 DEF CheckReset, Advances, Rejected
  <1>6. CASE SendReset(r)
    BY <1>6 DEF SendReset, Sends, Rejected
  <1>7. CASE TakeResult(r) \/ GiveUp(r)
    BY <1>7 DEF TakeResult, GiveUp
  <1> QED BY <1>1, <1>2, <1>3, <1>4, <1>5, <1>6, <1>7 DEF CallerStep

LEMMA CallerCInv ==
  ASSUME CInv, NEW r \in Requests, CallerStep(r)
  PROVE  CInv'
  <1> USE DEF CInv, CallersTyped, LineTyped, OutcomeKnown, MailboxIsOutcome, ResultIsOutcome,
              LineIsTrue, To, ReturnWith
  <1>0. UNCHANGED <<pc, outcome, dispatched, mailbox, fromChip, emitted>>
    BY CallerKinds
  <1>1. CASE Advances(r)
    BY <1>0, <1>1 DEF Advances
  <1>2. CASE Sends(r)
    BY <1>0, <1>2 DEF Sends
  <1>3. CASE Rejected(r)
    BY <1>0, <1>3, ResultsDistinct DEF Rejected, Results
  <1>4. CASE UNCHANGED <<toChip, contended>> /\ TakeResult(r)
    BY <1>0, <1>4 DEF TakeResult, Results
  <1>5. CASE UNCHANGED <<toChip, contended>> /\ GiveUp(r)
    BY <1>0, <1>5, ResultsDistinct DEF GiveUp, Results, W!Errors
  <1> QED BY <1>1, <1>2, <1>3, <1>4, <1>5, CallerKinds

LEMMA RestCInv ==
  ASSUME CInv,
         \/ \E r \in Requests : CancelContext(r)
         \/ Dispatch \/ CloseClient \/ LoopExit
         \/ ChipAnswers \/ \E f \in Frames : ChipIndicates(f)
         \/ UNCHANGED vars
  PROVE  CInv'
  <1>1. UNCHANGED <<pc, outcome, caller, mailbox, result>>
    BY DEF CancelContext, Dispatch, CloseClient, LoopExit, ChipAnswers, ChipIndicates, vars,
           wvars, cvars, lvars, W!Resolve
  <1>2. CallersTyped' /\ OutcomeKnown' /\ MailboxIsOutcome' /\ ResultIsOutcome'
    BY <1>1 DEF CInv, CallersTyped, OutcomeKnown, MailboxIsOutcome, ResultIsOutcome
  <1>3. LineTyped' /\ LineIsTrue'
    <2> USE <1>1 DEF CInv, LineTyped, LineIsTrue
    <2>1. CASE Dispatch
      <3>1. /\ fromChip # <<>> /\ fromChip' = Tail(fromChip)
            /\ dispatched' = dispatched \cup {Head(fromChip)}
            /\ UNCHANGED <<toChip, emitted>>
        BY <2>1 DEF Dispatch
      <3>2. Head(fromChip) = fromChip[1] /\ 1 \in 1..Len(fromChip)
        BY <3>1
      <3>3. /\ Tail(fromChip) \in Seq(Frames)
            /\ \A i \in 1..Len(Tail(fromChip)) :
                 i + 1 \in 1..Len(fromChip) /\ Tail(fromChip)[i] = fromChip[i + 1]
        BY <3>1
      <3>4. LineTyped'
        BY <3>1, <3>3
      <3>5. \A i \in 1..Len(toChip') : caller'[toChip'[i]] \in {"selecting", "returned"}
        BY <3>1
      <3>6. \A i \in 1..Len(fromChip') : fromChip'[i] \in emitted'
        BY <3>1, <3>3
      <3>7. dispatched' \subseteq emitted'
        BY <3>1, <3>2
      <3>8. LineIsTrue'
        BY <3>5, <3>6, <3>7, Zenon
      <3> QED BY <3>4, <3>8
    <2>2. CASE ChipAnswers
      <3>1. /\ toChip # <<>> /\ toChip' = Tail(toChip) /\ UNCHANGED dispatched
            /\ \/ \E f \in Frames : /\ fromChip' = Append(fromChip, f)
                                     /\ emitted' = emitted \cup {f}
               \/ UNCHANGED <<fromChip, emitted>>
        BY <2>2 DEF ChipAnswers, wvars
      <3>2. /\ Tail(toChip) \in Seq(Requests)
            /\ \A i \in 1..Len(Tail(toChip)) :
                 i + 1 \in 1..Len(toChip) /\ Tail(toChip)[i] = toChip[i + 1]
        BY <3>1
      <3>3. \A i \in 1..Len(toChip') : caller'[toChip'[i]] \in {"selecting", "returned"}
        BY <3>1, <3>2
      <3>4. LineTyped' /\ dispatched' \subseteq emitted'
        <4>1. toChip' \in Seq(Requests) /\ dispatched' \subseteq emitted'
          BY <3>1, <3>2
        <4>2. CASE UNCHANGED <<fromChip, emitted>>
          BY <4>1, <4>2
        <4>3. ASSUME NEW f \in Frames, fromChip' = Append(fromChip, f),
                     emitted' = emitted \cup {f}
              PROVE  LineTyped'
          BY <4>1, <4>3
        <4> QED BY <3>1, <4>1, <4>2, <4>3
      <3>5. \A i \in 1..Len(fromChip') : fromChip'[i] \in emitted'
        <4>1. CASE UNCHANGED <<fromChip, emitted>>
          BY <4>1
        <4>2. ASSUME NEW f \in Frames, fromChip' = Append(fromChip, f),
                     emitted' = emitted \cup {f}, NEW i \in 1..Len(fromChip')
              PROVE  fromChip'[i] \in emitted'
          <5>1. Len(fromChip') = Len(fromChip) + 1
            BY <4>2
          <5>2. CASE i = Len(fromChip) + 1
            BY <4>2, <5>2
          <5>3. CASE i \in 1..Len(fromChip)
            BY <4>2, <5>3
          <5> QED BY <5>1, <5>2, <5>3
        <4> QED BY <3>1, <4>1, <4>2
      <3>6. LineIsTrue'
        BY <3>3, <3>4, <3>5, Zenon
      <3> QED BY <3>4, <3>6
    <2>3. ASSUME NEW f \in Frames, ChipIndicates(f) PROVE LineTyped' /\ LineIsTrue'
      BY <2>3 DEF ChipIndicates, wvars
    <2>4. CASE UNCHANGED <<dispatched, lvars>>
      BY <2>4 DEF lvars
    <2> QED
      BY <2>1, <2>2, <2>3, <2>4 DEF CancelContext, CloseClient, LoopExit, vars, wvars
  <1> QED BY <1>2, <1>3 DEF CInv

LEMMA NextCInv == CInv /\ WP!IInv /\ [Next]_vars => CInv'
  BY TableStepCInv, ForwardCInv, CallerCInv, RestCInv DEF Next, GoroutineStep

LEMMA CallersInvariance == Spec => []CInv
  BY InitCInv, NextCInv, TableInvariance, PTL DEF Spec

-----------------------------------------------------------------------------
(***************************************************************************)
(* The client keeps the promise of module RequestService.                  *)
(***************************************************************************)
LEMMA InitService == Init => Service!Init
  BY DEF Init, Service!Init, Status

\* What a caller that moves makes of the statuses.
LEMMA StatusMoves ==
  ASSUME CallersTyped, NEW r \in Requests, NEW to, caller' = [caller EXCEPT ![r] = to]
  PROVE  [q \in Requests |-> Status(q)]' =
           [[q \in Requests |-> Status(q)] EXCEPT
              ![r] = IF to = "selecting" THEN "issued" ELSE IF to = "returned" THEN "done" ELSE "idle"]
  BY DEF CallersTyped, Status

\* A frame in a channel was sent by the chip, is of the kind of the request,
\* and was given to nobody else.
LEMMA FrameIsOwn ==
  ASSUME CInv, WP!IInv, NEW r \in Requests, mailbox[r] \in Frames, caller[r] = "selecting"
  PROVE  /\ mailbox[r] \in emitted
         /\ MatcherOf[mailbox[r]] = MatcherOf[r]
         /\ \A q \in Requests : result[q] # mailbox[r]
  <1> DEFINE f == mailbox[r]
  <1>1. outcome[r] = f
    BY ResultsDistinct DEF CInv, MailboxIsOutcome, Results
  <1>2. WP!Holds(r, f)
    BY <1>1 DEF WP!Holds
  <1>3. f \in emitted
    BY <1>2 DEF CInv, LineIsTrue, WP!IInv, WP!OneReceiverPerFrame
  <1>4. MatcherOf[f] = MatcherOf[r]
    BY <1>2 DEF WP!IInv, WP!ReceivesOwnKind
  <1>5. ASSUME NEW q \in Requests, result[q] = f PROVE FALSE
    <2>1. outcome[q] = f /\ caller[q] = "returned"
      BY <1>5, RequestAssumption DEF CInv, ResultIsOutcome
    <2>2. WP!Holds(q, f)
      BY <2>1 DEF WP!Holds
    <2>3. q = r
      BY <1>2, <2>2 DEF WP!IInv, WP!OneReceiverPerFrame
    <2> QED BY <2>1, <2>3
  <1> QED BY <1>3, <1>4, <1>5

LEMMA CallerService ==
  ASSUME CInv, WP!IInv, NEW r \in Requests, CallerStep(r)
  PROVE  [Service!Next]_(Service!vars)
  <1> DEFINE status == [q \in Requests |-> Status(q)]
  <1> USE DEF CInv
  <1>0. UNCHANGED emitted
    BY CallerKinds
  <1>1. CASE Advances(r)
    <2>1. status' = [status EXCEPT ![r] = "idle"] /\ status[r] = "idle"
      BY <1>1, StatusMoves DEF Advances, Status
    <2>2. status' = status
      BY <2>1
    <2> QED BY <1>0, <1>1, <2>2 DEF Advances, Service!vars
  <1>2. CASE Sends(r)
    <2>1. status' = [status EXCEPT ![r] = "issued"] /\ status[r] = "idle"
      BY <1>2, StatusMoves DEF Sends, To, Status
    <2>2. Service!Issue(r)
      BY <1>0, <1>2, <2>1 DEF Sends, Service!Issue
    <2> QED BY <2>2 DEF Service!Next
  <1>3. CASE Rejected(r)
    <2>1. status' = [status EXCEPT ![r] = "done"] /\ status[r] = "idle"
      BY <1>3, StatusMoves DEF Rejected, ReturnWith, To, Status
    <2>2. \E e \in {NotOpen, WriteFailed} : Service!Reject(r, e)
      BY <1>0, <1>3, <2>1 DEF Rejected, ReturnWith, Service!Reject
    <2> QED BY <2>2 DEF Service!Next
  <1>4. ASSUME NEW x, ReturnWith(r, "selecting", x) PROVE Service!Finish(r, x)
    <2>1. status' = [status EXCEPT ![r] = "done"] /\ status[r] = "issued"
      BY <1>4, StatusMoves DEF ReturnWith, To, Status
    <2> QED BY <1>0, <1>4, <2>1 DEF ReturnWith, Service!Finish
  <1>5. CASE TakeResult(r)
    <2>1. Service!Finish(r, mailbox[r]) /\ caller[r] = "selecting"
      BY <1>4, <1>5 DEF TakeResult, ReturnWith, To
    <2>2. CASE mailbox[r] \in Frames
      <3>1. Service!Complete(r, mailbox[r])
        BY <2>1, <2>2, FrameIsOwn DEF Service!Complete
      <3> QED BY <2>2, <3>1 DEF Service!Next
    <2>3. CASE mailbox[r] \in W!Errors
      BY <2>1, <2>3 DEF Service!Next
    <2> QED BY <1>5, <2>2, <2>3 DEF TakeResult, CallersTyped
  <1>6. CASE GiveUp(r)
    BY <1>4, <1>6 DEF GiveUp, W!Errors, Service!Next
  <1> QED BY <1>1, <1>2, <1>3, <1>5, <1>6, CallerKinds

\* The chip answers what was sent, each request once.
LEMMA ChipService ==
  ASSUME CInv, ChipAnswers \/ \E f \in Frames : ChipIndicates(f)
  PROVE  [Service!Next]_(Service!vars)
  <1> DEFINE status == [q \in Requests |-> Status(q)]
  <1>1. UNCHANGED <<caller, result>> /\ status' = status
    BY DEF ChipAnswers, ChipIndicates, cvars, Status
  <1>2. ASSUME NEW f \in Frames \ emitted, emitted' = emitted \cup {f},
               AnswerTo[f] # Unsolicited => status[AnswerTo[f]] # "idle"
        PROVE  Service!Next
    BY <1>1, <1>2 DEF Service!Next, Service!Emit
  <1>3. CASE ChipAnswers
    <2>1. toChip # <<>> /\ Head(toChip) = toChip[1] /\ 1 \in 1..Len(toChip)
      BY <1>3 DEF ChipAnswers, CInv, LineTyped
    <2>2. toChip[1] \in Requests /\ status[toChip[1]] # "idle"
      BY <2>1 DEF CInv, LineTyped, LineIsTrue, Status
    <2>3. CASE UNCHANGED emitted
      BY <1>1, <2>3 DEF Service!vars
    <2> QED BY <1>2, <1>3, <2>1, <2>2, <2>3 DEF ChipAnswers
  <1>4. ASSUME NEW f \in Frames, ChipIndicates(f) PROVE Service!Next
    BY <1>2, <1>4 DEF ChipIndicates
  <1> QED BY <1>3, <1>4

LEMMA OthersService ==
  ASSUME \/ \E r \in Requests : GoroutineStep(r) \/ CancelContext(r)
         \/ Dispatch \/ CloseClient \/ LoopExit
         \/ UNCHANGED vars
  PROVE  UNCHANGED Service!vars
  BY DEF GoroutineStep, Register, TakeResponse, Expire, Cancel, Return, Forward, InTable,
         CancelContext, Dispatch, CloseClient, LoopExit, vars, cvars, lvars, Service!vars, Status

\* Whatever the goroutines, the table, the loop, the line and Close do, each
\* request ends once, with an error or with a frame of its kind that the chip
\* sent and that no other request was given.
THEOREM KeepsThePromise == Spec => ImplementsService
  <1>1. CInv /\ WP!IInv /\ [Next]_vars => [Service!Next]_(Service!vars)
    BY CallerService, ChipService, OthersService DEF Next
  <1> QED
    BY <1>1, InitService, CallersInvariance, TableInvariance, PTL
    DEF Spec, ImplementsService, Service!Spec

-----------------------------------------------------------------------------
(***************************************************************************)
(* Without a rival a request gets its own answer.  The chip has each       *)
(* request once and answers it once; and of two requests of one kind, the  *)
(* later was sent when the earlier had its own answer, or both are         *)
(* contended.                                                              *)
(***************************************************************************)
ChipKnows ==
  /\ \A i, j \in 1..Len(toChip) : i # j => toChip[i] # toChip[j]
  /\ \A i \in 1..Len(toChip) : Sent(toChip[i])
  /\ \A f \in emitted : AnswerTo[f] # Unsolicited =>
       Sent(AnswerTo[f]) /\ \A i \in 1..Len(toChip) : toChip[i] # AnswerTo[f]
  /\ \A f, g \in emitted : AnswerTo[f] # Unsolicited /\ AnswerTo[f] = AnswerTo[g] => f = g

Rivalry ==
  \A r, q \in Requests :
    r # q /\ MatcherOf[r] = MatcherOf[q] /\ Sent(r) /\ Sent(q) =>
      \/ r \in contended /\ q \in contended
      \/ OwnAnswer(r) \/ OwnAnswer(q)

LEMMA InitRivalry == Init => ChipKnows /\ Rivalry
  BY DEF Init, ChipKnows, Rivalry, Sent

\* What was sent stays sent, and only a caller that sends changes that.
LEMMA SentStable ==
  ASSUME CInv, NEW r \in Requests, CallerStep(r)
  PROVE  /\ \A q \in Requests : Sent(q)' <=> Sent(q) \/ (q = r /\ Sends(r))
         /\ \A q \in Requests : OwnAnswer(q) => OwnAnswer(q)'
         /\ Sends(r) => ~Sent(r)
  <1> USE DEF CInv, CallersTyped, ResultIsOutcome, Sent, OwnAnswer, Answered, To, ReturnWith
  <1>1. CASE Advances(r)
    BY <1>1 DEF Advances, Sends
  <1>2. CASE Sends(r)
    BY <1>2 DEF Sends
  <1>3. CASE Rejected(r)
    BY <1>3, RequestAssumption DEF Rejected, Sends
  <1>4. CASE TakeResult(r)
    <2>1. mailbox[r] \notin {NotOpen, WriteFailed}
      BY <1>4, ResultsDistinct DEF TakeResult, W!Errors, W!Timeout, W!Canceled, NotOpen, WriteFailed
    <2> QED BY <1>4, <2>1, RequestAssumption DEF TakeResult, Sends
  <1>5. CASE GiveUp(r)
    <2>1. W!Canceled \notin {NotOpen, WriteFailed}
      BY DEF W!Canceled, NotOpen, WriteFailed
    <2> QED BY <1>5, <2>1, RequestAssumption DEF GiveUp, Sends
  <1> QED BY <1>1, <1>2, <1>3, <1>4, <1>5, CallerKinds

LEMMA CallerRivalry ==
  ASSUME CInv, ChipKnows, Rivalry, NEW r \in Requests, CallerStep(r)
  PROVE  ChipKnows' /\ Rivalry'
  <1>0. UNCHANGED emitted
    BY CallerKinds
  <1>1. CASE Sends(r)
    <2>1. ChipKnows'
      BY <1>0, <1>1, SentStable, RequestAssumption DEF ChipKnows, Sends, CInv, LineTyped
    <2>2. Rivalry'
      BY <1>1, SentStable DEF Rivalry, Sends, Contend
    <2> QED BY <2>1, <2>2
  <1>2. CASE ~Sends(r)
    <2>1. UNCHANGED <<toChip, contended>>
      BY <1>2, CallerKinds DEF Advances, Rejected
    <2>2. ChipKnows'
      BY <1>0, <1>2, <2>1, SentStable, RequestAssumption DEF ChipKnows, CInv, LineTyped
    <2>3. Rivalry'
      BY <1>2, <2>1, SentStable DEF Rivalry
    <2> QED BY <2>2, <2>3
  <1> QED BY <1>1, <1>2

LEMMA ChipRivalry ==
  ASSUME CInv, ChipKnows, Rivalry, ChipAnswers \/ \E f \in Frames : ChipIndicates(f)
  PROVE  ChipKnows' /\ Rivalry'
  <1>1. /\ UNCHANGED <<caller, result, contended>>
        /\ \A q \in Requests : (Sent(q)' <=> Sent(q)) /\ (OwnAnswer(q)' <=> OwnAnswer(q))
    BY DEF ChipAnswers, ChipIndicates, cvars, Sent, OwnAnswer, Answered
  <1>2. Rivalry'
    BY <1>1 DEF Rivalry
  <1>3. CASE ChipAnswers
    <2> DEFINE q == toChip[1]
    <2>1. /\ toChip # <<>> /\ Head(toChip) = q /\ q \in Requests /\ toChip' = Tail(toChip)
          /\ 1 \in 1..Len(toChip)
          /\ \A i \in 1..Len(toChip') : i + 1 \in 1..Len(toChip) /\ toChip'[i] = toChip[i + 1]
      BY <1>3 DEF ChipAnswers, CInv, LineTyped
    <2>2. Sent(q) /\ \A f \in emitted : AnswerTo[f] # q
      BY <2>1, RequestAssumption DEF ChipKnows
    <2>3. \A i \in 1..Len(toChip') : toChip'[i] # q
      BY <2>1 DEF ChipKnows
    <2>4. /\ \A i, j \in 1..Len(toChip') : i # j => toChip'[i] # toChip'[j]
          /\ \A i \in 1..Len(toChip') : toChip'[i] \in Requests /\ Sent(toChip'[i])
      BY <2>1 DEF ChipKnows, CInv, LineTyped
    <2>5. \A f \in emitted' : f \in emitted \/ AnswerTo[f] = q
      BY <1>3, <2>1 DEF ChipAnswers
    <2>6. \A f, g \in emitted' : f \notin emitted /\ g \notin emitted => f = g
      BY <1>3 DEF ChipAnswers
    <2>7. \A f \in emitted' : AnswerTo[f] \in Requests \cup {Unsolicited}
      BY <2>1, <2>5, RequestAssumption DEF CInv, LineTyped
    <2>8. \A f \in emitted' : AnswerTo[f] # Unsolicited =>
            Sent(AnswerTo[f]) /\ \A i \in 1..Len(toChip') : toChip'[i] # AnswerTo[f]
      BY <2>1, <2>2, <2>3, <2>5 DEF ChipKnows
    <2>9. \A f, g \in emitted' : AnswerTo[f] # Unsolicited /\ AnswerTo[f] = AnswerTo[g] => f = g
      BY <2>2, <2>5, <2>6 DEF ChipKnows
    <2> QED BY <1>1, <1>2, <2>4, <2>7, <2>8, <2>9 DEF ChipKnows
  <1>4. ASSUME NEW f \in Frames, ChipIndicates(f) PROVE ChipKnows'
    <2>1. /\ emitted' = emitted \cup {f} /\ AnswerTo[f] = Unsolicited /\ UNCHANGED toChip
      BY <1>4 DEF ChipIndicates
    <2>2. \A g \in emitted : AnswerTo[g] \in Requests \cup {Unsolicited}
      BY RequestAssumption DEF CInv, LineTyped
    <2> QED BY <1>1, <2>1, <2>2 DEF ChipKnows, CInv, LineTyped
  <1> QED BY <1>2, <1>3, <1>4

LEMMA OthersRivalry ==
  ASSUME ChipKnows, Rivalry,
         \/ \E r \in Requests : GoroutineStep(r) \/ CancelContext(r)
         \/ Dispatch \/ CloseClient \/ LoopExit
         \/ UNCHANGED vars
  PROVE  ChipKnows' /\ Rivalry'
  <1>1. UNCHANGED <<caller, result, toChip, emitted, contended>>
    BY DEF GoroutineStep, Register, TakeResponse, Expire, Cancel, Return, Forward, InTable,
           CancelContext, Dispatch, CloseClient, LoopExit, vars, cvars, lvars
  <1> QED BY <1>1 DEF ChipKnows, Rivalry, Sent, OwnAnswer, Answered

LEMMA RivalryInvariance == Spec => [](ChipKnows /\ Rivalry)
  <1>1. CInv /\ ChipKnows /\ Rivalry /\ [Next]_vars => (ChipKnows /\ Rivalry)'
    BY CallerRivalry, ChipRivalry, OthersRivalry DEF Next
  <1> QED BY <1>1, InitRivalry, CallersInvariance, PTL DEF Spec

\* However requests, timeouts, cancellations and frames interleave, a request
\* that met no other for the same response is not given another's answer.
THEOREM OwnAnswers == Spec => []CorrespondingUnlessContended
  <1>1. CInv /\ WP!IInv /\ ChipKnows /\ Rivalry => CorrespondingUnlessContended
    <2> SUFFICES ASSUME CInv, WP!IInv, ChipKnows, Rivalry, NEW r \in Requests, Answered(r),
                        AnswerTo[result[r]] \notin {r, Unsolicited}
                 PROVE  r \in contended
      BY DEF CorrespondingUnlessContended
    <2> DEFINE f == result[r]
               q == AnswerTo[f]
    <2>0. ASSUME NEW p \in Requests, Answered(p)
          PROVE  WP!Holds(p, result[p]) /\ result[p] \in emitted /\ Sent(p)
      <3>1. outcome[p] = result[p] /\ caller[p] = "returned"
        BY <2>0, RequestAssumption DEF CInv, ResultIsOutcome, Answered
      <3>2. WP!Holds(p, result[p])
        BY <3>1 DEF WP!Holds
      <3>3. result[p] \in emitted
        BY <2>0, <3>2 DEF CInv, LineIsTrue, WP!IInv, WP!OneReceiverPerFrame, Answered
      <3>4. Sent(p)
        BY <2>0, <3>1, ResultsDistinct DEF Sent, Answered
      <3> QED BY <3>2, <3>3, <3>4
    <2>1. f \in Frames /\ q \in Requests /\ q # r
      BY RequestAssumption DEF Answered
    <2>2. MatcherOf[q] = MatcherOf[r]
      BY <2>0, <2>1, AnswersHaveTheKind DEF WP!IInv, WP!ReceivesOwnKind
    <2>3. Sent(r) /\ Sent(q)
      BY <2>0, <2>1 DEF ChipKnows
    <2>4. ~OwnAnswer(r)
      BY <2>1 DEF OwnAnswer
    <2>5. ASSUME OwnAnswer(q) PROVE FALSE
      <3>1. result[q] = f
        BY <2>0, <2>1, <2>5, RequestAssumption DEF OwnAnswer, ChipKnows
      <3> QED
        BY <2>0, <2>1, <2>5, <3>1 DEF OwnAnswer, WP!IInv, WP!OneReceiverPerFrame
    <2> QED BY <2>1, <2>2, <2>3, <2>4, <2>5 DEF Rivalry
  <1> QED BY <1>1, CallersInvariance, TableInvariance, RivalryInvariance, PTL

=============================================================================
