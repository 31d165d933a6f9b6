----------------------------- MODULE ZclRequest -----------------------------
(***************************************************************************)
(* The ZCL request engine: sendZclRequest and SendClusterCommand of        *)
(* pkg/adapter/messaging_core.go, with WaitForDataConfirm and              *)
(* WaitForIncomingMsg of pkg/znp/af.go.                                    *)
(*                                                                         *)
(* Each caller sends a transaction to a target, waits for the              *)
(* coordinator's confirm and, if it asked for one, for the answer of the   *)
(* device.  The waits go through the table of Waiter.tla, which knows a    *)
(* frame by its kind only: any caller that waits for a kind may be given   *)
(* any frame of it, and each frame is given to one.                        *)
(***************************************************************************)
EXTENDS Naturals, FiniteSets

CONSTANTS
  Requests,     \* the callers
  Commands,     \* those that call SendClusterCommand: one attempt, no answer
  Devices,      \* network addresses
  Clusters,     \* cluster IDs
  Coordinator,  \* the address 0x0000
  Basic,        \* the cluster 0x0000
  TargetOf,     \* where each caller sends to
  Reporters,    \* the targets that may send a message of their own accord
  MaxAttempts,  \* ZCLRetryAttempts + 1
  Width,        \* the values of a transaction number on the air: 256
  NoFrame       \* nothing in a channel

\* Where a transaction goes to and a message comes from.
Targets == Devices \X Clusters

Kinds == {"confirm", "incoming"}

\* `re` is the transaction a frame belongs to, zero for none; `ok` is the
\* status of a confirm, and whether the payload of a message can be parsed.
Frames == [kind : Kinds, re : Nat, src : Targets, ok : BOOLEAN]

ASSUME ZclAssumption ==
  /\ Commands \subseteq Requests
  /\ TargetOf \in [Requests -> Targets]
  /\ Reporters \subseteq Targets
  /\ MaxAttempts \in Nat \ {0}
  /\ Width \in Nat \ {0}
  /\ NoFrame \notin Frames

VARIABLES
  transactionID,  \* the counter behind nextTransactionID
  pc,             \* how far each caller is
  attempt,        \* the number of its attempts so far
  id,             \* the counter's value for its present attempt
  box,            \* what its waiter was given
  late,           \* whether the deadline of its wait for the answer is over
  cancelled,      \* whether its context is
  confirm,        \* the confirm its present attempt went on with
  result,         \* the message it returned
  air,            \* confirms and messages on their way to the table
  sent,           \* transactions the coordinator accepted: <<id, target>>
  reported        \* targets that sent a message of their own accord

callers == <<pc, attempt, id, box, late, cancelled, confirm, result>>
vars == <<transactionID, pc, attempt, id, box, late, cancelled, confirm, result,
          air, sent, reported>>

PCs == {"idle", "new", "send", "sent", "confirming", "confirmed", "listening",
        "backoff", "returned", "failed"}

Unsolicited == 0

TypeOK ==
  /\ transactionID \in Nat
  /\ pc \in [Requests -> PCs]
  /\ attempt \in [Requests -> 0 .. MaxAttempts]
  /\ id \in [Requests -> Nat]
  /\ box \in [Requests -> Frames \cup {NoFrame}]
  /\ late \in [Requests -> BOOLEAN]
  /\ cancelled \in [Requests -> BOOLEAN]
  /\ confirm \in [Requests -> Frames \cup {NoFrame}]
  /\ result \in [Requests -> Frames \cup {NoFrame}]
  /\ air \subseteq Frames
  /\ sent \subseteq Nat \X Targets
  /\ reported \subseteq Targets

Init ==
  /\ transactionID = 0
  /\ pc = [r \in Requests |-> "idle"]
  /\ attempt = [r \in Requests |-> 0]
  /\ id = [r \in Requests |-> 0]
  /\ box = [r \in Requests |-> NoFrame]
  /\ late = [r \in Requests |-> FALSE]
  /\ cancelled = [r \in Requests |-> FALSE]
  /\ confirm = [r \in Requests |-> NoFrame]
  /\ result = [r \in Requests |-> NoFrame]
  /\ air = {}
  /\ sent = {}
  /\ reported = {}

AttemptsOf(r) == IF r \in Commands THEN 1 ELSE MaxAttempts

\* uint8(atomic.AddUint32(&a.transactionID, 1)), as it goes over the air.
SeqNum(n) == n % Width

At(r, from, to) == pc[r] = from /\ pc' = [pc EXCEPT ![r] = to]

-----------------------------------------------------------------------------
(***************************************************************************)
(* Up to the coordinator's synchronous response.                           *)
(***************************************************************************)
\* The caller builds a frame.  A request takes a number here already, which
\* its first attempt replaces.
Begin(r) ==
  /\ At(r, "idle", "new")
  /\ attempt' = [attempt EXCEPT ![r] = 1]
  /\ transactionID' = IF r \in Commands THEN transactionID ELSE transactionID + 1
  /\ UNCHANGED <<id, box, late, cancelled, confirm, result, air, sent, reported>>

\* frame.TransSeqNum = a.nextTransactionID(), for every attempt anew.
NewTransaction(r) ==
  /\ At(r, "new", "send")
  /\ transactionID' = transactionID + 1
  /\ id' = [id EXCEPT ![r] = transactionID']
  /\ UNCHANGED <<attempt, box, late, cancelled, confirm, result, air, sent, reported>>

\* The coordinator accepts the transaction: from now on its confirm, good or
\* bad, and the device's answer may come, in either order or not at all.
Accept(r) ==
  /\ \E acked, parses \in BOOLEAN :
       air' = air \cup
         {[kind |-> "confirm",  re |-> id[r], src |-> TargetOf[r], ok |-> acked],
          [kind |-> "incoming", re |-> id[r], src |-> TargetOf[r], ok |-> parses]}
  /\ sent' = sent \cup {<<id[r], TargetOf[r]>>}

\* The variables of the attempt go out of scope.
Forget(r) ==
  /\ box' = [box EXCEPT ![r] = NoFrame]
  /\ late' = [late EXCEPT ![r] = FALSE]
  /\ confirm' = [confirm EXCEPT ![r] = NoFrame]

\* Mutant: the error of the next to last attempt is final.
Fails_Early(r) ==
  /\ pc' = [pc EXCEPT ![r] = IF attempt[r] + 1 < AttemptsOf(r) THEN "backoff" ELSE "failed"]
  /\ Forget(r)
  /\ UNCHANGED <<attempt, id, cancelled, result>>

\* An attempt ends with an error: another one follows unless it was the last.
Fails(r) ==
  /\ pc' = [pc EXCEPT ![r] = IF attempt[r] < AttemptsOf(r) THEN "backoff" ELSE "failed"]
  /\ Forget(r)
  /\ UNCHANGED <<attempt, id, cancelled, result>>

\* AfDataRequest returns status zero.
Send(r) ==
  /\ At(r, "send", "sent")
  /\ Accept(r)
  /\ UNCHANGED <<transactionID, attempt, id, box, late, cancelled, confirm, result, reported>>

\* AfDataRequest returns an error or another status.  After an error the
\* coordinator may have accepted the transaction all the same.
SendFails(r) ==
  /\ pc[r] = "send"
  /\ Fails(r)
  /\ Accept(r) \/ UNCHANGED <<air, sent>>
  /\ UNCHANGED <<transactionID, reported>>

-----------------------------------------------------------------------------
(***************************************************************************)
(* The wait for the confirm.                                               *)
(***************************************************************************)
AwaitConfirm(r) ==
  /\ At(r, "sent", "confirming")
  /\ UNCHANGED <<transactionID, attempt, id, box, late, cancelled, confirm, result,
                 air, sent, reported>>

\* Mutant: the transaction number of the confirm is not compared.
OwnConfirm_Any(r, f) == f.ok

\* WaitForDataConfirm compares the number, sendZclRequest tests the status.
OwnConfirm(r, f) == SeqNum(f.re) = SeqNum(id[r]) /\ f.ok

\* The confirm is the one: a command is done, a request waits for the answer.
Confirmed(r) ==
  /\ pc[r] = "confirming"
  /\ box[r] # NoFrame
  /\ OwnConfirm(r, box[r])
  /\ pc' = [pc EXCEPT ![r] = IF r \in Commands THEN "returned" ELSE "confirmed"]
  /\ confirm' = [confirm EXCEPT ![r] = box[r]]
  /\ box' = [box EXCEPT ![r] = NoFrame]
  /\ UNCHANGED <<transactionID, attempt, id, late, cancelled, result, air, sent, reported>>

\* It is another transaction's, or its status is not success.
ConfirmFails(r) ==
  /\ pc[r] = "confirming"
  /\ box[r] # NoFrame
  /\ ~OwnConfirm(r, box[r])
  /\ Fails(r)
  /\ UNCHANGED <<transactionID, air, sent, reported>>

\* The timer of five seconds, or the context, ends the wait.
ConfirmExpires(r) ==
  /\ pc[r] = "confirming"
  /\ Fails(r)
  /\ UNCHANGED <<transactionID, air, sent, reported>>

-----------------------------------------------------------------------------
(***************************************************************************)
(* The wait for the answer: waits of 100 ms one after the other until the  *)
(* deadline.                                                               *)
(***************************************************************************)
\* Mutant: the deadline is set again before every wait.
AwaitMessage_Renewed(r) ==
  /\ At(r, "confirmed", "listening")
  /\ late' = [late EXCEPT ![r] = FALSE]
  /\ UNCHANGED <<transactionID, attempt, id, box, cancelled, confirm, result,
                 air, sent, reported>>

AwaitMessage(r) ==
  /\ At(r, "confirmed", "listening")
  /\ ~late[r]
  /\ UNCHANGED <<transactionID, attempt, id, box, late, cancelled, confirm, result,
                 air, sent, reported>>

DeadlinePasses(r) ==
  /\ pc[r] \in {"confirmed", "listening"}
  /\ ~late[r]
  /\ late' = [late EXCEPT ![r] = TRUE]
  /\ UNCHANGED <<transactionID, pc, attempt, id, box, cancelled, confirm, result,
                 air, sent, reported>>

\* Mutant: the address and the cluster of the message are not compared.
Wanted_Any(r, f) == TRUE

\* The filter of WaitForIncomingMsg: address and cluster, no number.  Zero is
\* no filter, so who asks for the Basic cluster takes a message of any cluster
\* of the device, and who asks the coordinator one of any device.
Admits(t, src) ==
  /\ t[1] = Coordinator \/ src[1] = t[1]
  /\ t[2] = Basic \/ src[2] = t[2]

Wanted(r, f) == Admits(TargetOf[r], f.src)

\* A message of somebody else is thrown away, and the next wait begins.
SkipMessage(r) ==
  /\ box[r] # NoFrame
  /\ ~Wanted(r, box[r])
  /\ At(r, "listening", "confirmed")
  /\ box' = [box EXCEPT ![r] = NoFrame]
  /\ UNCHANGED <<transactionID, attempt, id, late, cancelled, confirm, result,
                 air, sent, reported>>

\* One wait is over.
WaitExpires(r) ==
  /\ ~cancelled[r]
  /\ At(r, "listening", "confirmed")
  /\ box' = [box EXCEPT ![r] = NoFrame]
  /\ UNCHANGED <<transactionID, attempt, id, late, cancelled, confirm, result,
                 air, sent, reported>>

\* No wait begins after the deadline, and none goes on after the context.
ListeningFails(r) ==
  /\ \/ pc[r] = "confirmed" /\ late[r]
     \/ pc[r] = "listening" /\ cancelled[r]
  /\ Fails(r)
  /\ UNCHANGED <<transactionID, air, sent, reported>>

\* The message passes the filter and is a ZCL frame: it is the answer.
Answered(r) ==
  /\ box[r] # NoFrame
  /\ Wanted(r, box[r]) /\ box[r].ok
  /\ At(r, "listening", "returned")
  /\ result' = [result EXCEPT ![r] = box[r]]
  /\ box' = [box EXCEPT ![r] = NoFrame]
  /\ late' = [late EXCEPT ![r] = FALSE]
  /\ UNCHANGED <<transactionID, attempt, id, cancelled, confirm, air, sent, reported>>

\* It is not a ZCL frame: the attempt has failed.
AnswerGarbled(r) ==
  /\ pc[r] = "listening"
  /\ box[r] # NoFrame
  /\ Wanted(r, box[r]) /\ ~box[r].ok
  /\ Fails(r)
  /\ UNCHANGED <<transactionID, air, sent, reported>>

-----------------------------------------------------------------------------
(***************************************************************************)
(* The next attempt, and the context.                                      *)
(***************************************************************************)
BackoffEnds(r) ==
  /\ At(r, "backoff", "new")
  /\ attempt' = [attempt EXCEPT ![r] = attempt[r] + 1]
  /\ UNCHANGED <<transactionID, id, box, late, cancelled, confirm, result, air, sent, reported>>

BackoffCancelled(r) ==
  /\ cancelled[r]
  /\ At(r, "backoff", "failed")
  /\ UNCHANGED <<transactionID, attempt, id, box, late, cancelled, confirm, result,
                 air, sent, reported>>

CancelContext(r) ==
  /\ pc[r] \notin {"idle", "returned", "failed"}
  /\ ~cancelled[r]
  /\ cancelled' = [cancelled EXCEPT ![r] = TRUE]
  /\ UNCHANGED <<transactionID, pc, attempt, id, box, late, confirm, result,
                 air, sent, reported>>

-----------------------------------------------------------------------------
(***************************************************************************)
(* The frame loop and the network.  A frame that is lost, that nobody      *)
(* waits for when it comes, that a wait gets which has just ended, or that *)
(* the message listener takes, is one that stays in `air` for good.        *)
(***************************************************************************)
AwaitedBy(r) == CASE pc[r] = "confirming" -> {"confirm"}
                  [] pc[r] = "listening" -> {"incoming"}
                  [] OTHER -> {}

\* Resolve gives the frame to one of the callers that wait for its kind.
Dispatch(f, r) ==
  /\ f.kind \in AwaitedBy(r)
  /\ box[r] = NoFrame
  /\ box' = [box EXCEPT ![r] = f]
  /\ air' = air \ {f}
  /\ UNCHANGED <<transactionID, pc, attempt, id, late, cancelled, confirm, result,
                 sent, reported>>

\* A device reports an attribute, at most once for each target (a bound).
Report(t) ==
  /\ t \in Reporters \ reported
  /\ reported' = reported \cup {t}
  /\ air' = air \cup {[kind |-> "incoming", re |-> Unsolicited, src |-> t, ok |-> TRUE]}
  /\ UNCHANGED <<transactionID, callers, sent>>

-----------------------------------------------------------------------------
\* What a caller does when it is scheduled, its timers included.
Step(r) ==
  \/ NewTransaction(r) \/ Send(r) \/ SendFails(r)
  \/ AwaitConfirm(r) \/ Confirmed(r) \/ ConfirmFails(r) \/ ConfirmExpires(r)
  \/ AwaitMessage(r) \/ SkipMessage(r) \/ WaitExpires(r) \/ ListeningFails(r)
  \/ Answered(r) \/ AnswerGarbled(r)
  \/ BackoffEnds(r) \/ BackoffCancelled(r)

Next ==
  \/ \E r \in Requests : Begin(r) \/ Step(r) \/ DeadlinePasses(r) \/ CancelContext(r)
  \/ \E f \in air, r \in Requests : Dispatch(f, r)
  \/ \E t \in Targets : Report(t)

Spec == Init /\ [][Next]_vars

\* Timers fire and a goroutine that can run does.  Nobody has to call, to
\* cancel, to confirm or to answer.
Fairness ==
  \A r \in Requests : WF_vars(Step(r)) /\ WF_vars(DeadlinePasses(r))

FairSpec == Spec /\ Fairness

-----------------------------------------------------------------------------
(***************************************************************************)
(* Properties                                                              *)
(***************************************************************************)
Apart(m, n) == m + Width <= n \/ n + Width <= m

\* A caller goes on only with a confirm of its present attempt: not of an
\* earlier one, nor of another caller's transaction, unless numbers came
\* round in between (Width transactions).
ConfirmIsOwn ==
  \A r \in Requests :
    pc[r] \in {"confirmed", "listening", "returned"} =>
      /\ confirm[r] # NoFrame
      /\ confirm[r].kind = "confirm" /\ confirm[r].ok
      /\ \/ confirm[r].re = id[r] /\ <<id[r], TargetOf[r]>> \in sent
         \/ Apart(confirm[r].re, id[r])

\* Of what passes the filter of r, its transaction is the only one that was
\* ever sent, and no device has reported on its own.
Undisturbed(r) ==
  /\ \A t \in reported : ~Admits(TargetOf[r], t)
  /\ \A s \in sent : Admits(TargetOf[r], s[2]) => s[1] = id[r]

\* What a request returns was said by the device it asked, about the cluster
\* it asked about unless that is the Basic cluster, whose number is no filter.
\* It is the answer to this very transaction, from its target, if nothing else
\* was going on that the filter lets pass.  (No number is compared, so more
\* than that cannot be promised.)
AnswerIsOwnIfUndisturbed ==
  \A r \in Requests : result[r] # NoFrame =>
    /\ result[r].kind = "incoming" /\ Admits(TargetOf[r], result[r].src)
    /\ Undisturbed(r) => result[r].re = id[r] /\ result[r].src = TargetOf[r]

\* A call fails only when its attempts are used up or its context has ended:
\* neither a stray frame nor a late one cuts the retries short.
FailsOnlyWhenExhausted ==
  \A r \in Requests :
    pc[r] = "failed" => attempt[r] = AttemptsOf(r) \/ cancelled[r]

\* Every call returns, whatever the coordinator, the device and the other
\* callers do, and however many messages of others pass by.
EveryRequestReturns ==
  \A r \in Requests : pc[r] = "new" ~> pc[r] \in {"returned", "failed"}

=============================================================================
