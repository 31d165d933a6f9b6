-------------------------- MODULE ZclRequestProofs --------------------------
(***************************************************************************)
(* Proofs about the ZCL request engine, for every set of callers and       *)
(* targets, every number of attempts and every width of the transaction    *)
(* number.                                                                 *)
(***************************************************************************)
EXTENDS ZclRequest, Integers, TLAPS

\* No call has had more attempts than it may, and one more is left to a call
\* that is about to retry.
AttemptsCounted ==
  \A r \in Requests :
    /\ attempt[r] <= AttemptsOf(r)
    /\ pc[r] = "backoff" => attempt[r] < AttemptsOf(r)

\* The counter is ahead of all numbers given, no two calls have the same, and
\* a transaction was sent only to the target of the call that has its number.
IdsGiven ==
  \A r \in Requests :
    /\ id[r] <= transactionID
    /\ pc[r] \notin {"idle", "new"} => id[r] # 0
IdsDistinct ==
  \A r, q \in Requests : id[r] = id[q] /\ id[r] # 0 => r = q
SentNumbered ==
  \A s \in sent : s[1] # 0 /\ s[1] <= transactionID
SentByOwner ==
  \A r \in Requests, t \in Targets : <<id[r], t>> \in sent => t = TargetOf[r]

\* A frame belongs to a transaction that was sent, or a device reported it.
Genuine(f) ==
  IF f.re = Unsolicited THEN f.kind = "incoming" /\ f.src \in reported
                        ELSE <<f.re, f.src>> \in sent

AirGenuine == \A f \in air : Genuine(f)
BoxGenuine ==
  \A r \in Requests : box[r] # NoFrame => box[r].kind \in AwaitedBy(r) /\ Genuine(box[r])
ResultHeard ==
  \A r \in Requests : result[r] # NoFrame =>
    result[r].kind = "incoming" /\ Admits(TargetOf[r], result[r].src) /\ Genuine(result[r])

IdsInv == IdsGiven /\ IdsDistinct /\ SentNumbered /\ SentByOwner
FramesInv == AirGenuine /\ BoxGenuine /\ ResultHeard

IInv ==
  /\ TypeOK
  /\ AttemptsCounted
  /\ FailsOnlyWhenExhausted
  /\ IdsInv
  /\ FramesInv
  /\ ConfirmIsOwn

-----------------------------------------------------------------------------
(***************************************************************************)
(* Numbers that are equal on the air are the same or a whole round apart.  *)
(***************************************************************************)
LEMMA SameSeqNum ==
  ASSUME NEW W \in Nat \ {0}, NEW a \in Nat, NEW b \in Nat, a % W = b % W, a < b
  PROVE  a + W <= b
  <1> DEFINE p == a \div W
             q == b \div W
  <1>1. p \in Int /\ q \in Int /\ a = W * p + (a % W) /\ b = W * q + (b % W)
    OBVIOUS
  <1>2. b - a = W * q - W * p
    BY <1>1
  <1>3. p < q
    <2>1. SUFFICES ASSUME q <= p PROVE FALSE
      BY <1>1
    <2>2. W * q <= W * p
      BY <2>1, <1>1
    <2> QED BY <2>2, <1>2
  <1>4. W * (p + 1) <= W * q
    BY <1>3, <1>1
  <1>5. W * (p + 1) = W * p + W
    BY <1>1
  <1> QED BY <1>1, <1>2, <1>4, <1>5

LEMMA SeqNumApart ==
  ASSUME NEW m \in Nat, NEW n \in Nat, SeqNum(m) = SeqNum(n), m # n
  PROVE  Apart(m, n)
  <1>1. m < n \/ n < m
    OBVIOUS
  <1> QED BY <1>1, SameSeqNum, ZclAssumption DEF SeqNum, Apart

-----------------------------------------------------------------------------
LEMMA InitIInv == Init => IInv
  <1> SUFFICES ASSUME Init PROVE IInv
    OBVIOUS
  <1>1. TypeOK
    BY ZclAssumption DEF Init, TypeOK, PCs
  <1>2. AttemptsCounted /\ FailsOnlyWhenExhausted
    BY ZclAssumption DEF Init, AttemptsCounted, FailsOnlyWhenExhausted, AttemptsOf
  <1>3. IdsInv
    BY DEF Init, IdsInv, IdsGiven, IdsDistinct, SentNumbered, SentByOwner
  <1>4. FramesInv /\ ConfirmIsOwn
    BY DEF Init, FramesInv, AirGenuine, BoxGenuine, ResultHeard, ConfirmIsOwn
  <1> QED BY <1>1, <1>2, <1>3, <1>4 DEF IInv

LEMMA NextTypeOK ==
  ASSUME TypeOK, AttemptsCounted, [Next]_vars
  PROVE  TypeOK'
  <1> USE ZclAssumption DEF TypeOK, PCs, At
  <1>1. ASSUME NEW r \in Requests, Begin(r) PROVE TypeOK'
    BY <1>1 DEF Begin
  <1>2. ASSUME NEW r \in Requests, NewTransaction(r) PROVE TypeOK'
    BY <1>2 DEF NewTransaction
  <1>3. ASSUME NEW r \in Requests, Accept(r)
        PROVE  air' \subseteq Frames /\ sent' \subseteq Nat \X Targets
    BY <1>3 DEF Accept, Frames, Kinds
  <1>4. ASSUME NEW r \in Requests, Fails(r)
        PROVE  /\ pc' \in [Requests -> PCs]
               /\ box' \in [Requests -> Frames \cup {NoFrame}]
               /\ late' \in [Requests -> BOOLEAN]
               /\ confirm' \in [Requests -> Frames \cup {NoFrame}]
               /\ UNCHANGED <<attempt, id, cancelled, result>>
    BY <1>4 DEF Fails, Forget
  <1>5. ASSUME NEW r \in Requests, Send(r) PROVE TypeOK'
    BY <1>5, <1>3 DEF Send
  <1>6. ASSUME NEW r \in Requests, SendFails(r) PROVE TypeOK'
    BY <1>6, <1>3, <1>4 DEF SendFails
  <1>7. ASSUME NEW r \in Requests,
               ConfirmFails(r) \/ ConfirmExpires(r) \/ ListeningFails(r) \/ AnswerGarbled(r)
        PROVE  TypeOK'
    BY <1>7, <1>4 DEF ConfirmFails, ConfirmExpires, ListeningFails, AnswerGarbled
  <1>8. ASSUME NEW r \in Requests, AwaitConfirm(r) \/ AwaitMessage(r) \/ BackoffCancelled(r)
        PROVE  TypeOK'
    BY <1>8 DEF AwaitConfirm, AwaitMessage, BackoffCancelled
  <1>9. ASSUME NEW r \in Requests, Confirmed(r) PROVE TypeOK'
    BY <1>9 DEF Confirmed
  <1>10. ASSUME NEW r \in Requests, DeadlinePasses(r) \/ CancelContext(r) PROVE TypeOK'
    BY <1>10 DEF DeadlinePasses, CancelContext
  <1>11. ASSUME NEW r \in Requests, SkipMessage(r) \/ WaitExpires(r) PROVE TypeOK'
    BY <1>11 DEF SkipMessage, WaitExpires
  <1>12. ASSUME NEW r \in Requests, Answered(r) PROVE TypeOK'
    BY <1>12 DEF Answered
  <1>13. ASSUME NEW r \in Requests, BackoffEnds(r) PROVE TypeOK'
    BY <1>13 DEF BackoffEnds, AttemptsCounted, AttemptsOf
  <1>14. ASSUME NEW r \in Requests, NEW f \in air, Dispatch(f, r) PROVE TypeOK'
    BY <1>14 DEF Dispatch
  <1>15. ASSUME NEW t \in Targets, Report(t) PROVE TypeOK'
    <2>1. [kind |-> "incoming", re |-> Unsolicited, src |-> t, ok |-> TRUE] \in Frames
      BY DEF Frames, Kinds, Unsolicited
    <2>2. air' \subseteq Frames /\ reported' \subseteq Targets
      BY <1>15, <2>1 DEF Report
    <2>3. UNCHANGED <<transactionID, sent, pc, attempt, id, box, late, cancelled, confirm, result>>
      BY <1>15 DEF Report, callers
    <2> QED BY <2>2, <2>3
  <1>16. CASE UNCHANGED vars
    BY <1>16 DEF vars
  <1> QED
    BY <1>1, <1>2, <1>5, <1>6, <1>7, <1>8, <1>9, <1>10, <1>11, <1>12, <1>13, <1>14,
       <1>15, <1>16
    DEF Next, Step

-----------------------------------------------------------------------------
\* Retrying is what the engine does with every error but the last one.
LEMMA NextAttempts ==
  ASSUME TypeOK, AttemptsCounted, FailsOnlyWhenExhausted, [Next]_vars
  PROVE  AttemptsCounted' /\ FailsOnlyWhenExhausted'
  <1> USE ZclAssumption DEF TypeOK, AttemptsCounted, FailsOnlyWhenExhausted, AttemptsOf, At
  <1> DEFINE Goal == AttemptsCounted' /\ FailsOnlyWhenExhausted'
  <1>1. ASSUME NEW r \in Requests, Begin(r) PROVE Goal
    BY <1>1 DEF Begin
  <1>2. ASSUME NEW r \in Requests, Fails(r) PROVE Goal
    BY <1>2 DEF Fails, Forget
  <1>3. ASSUME NEW r \in Requests, BackoffEnds(r) PROVE Goal
    BY <1>3 DEF BackoffEnds
  <1>4. ASSUME NEW r \in Requests, BackoffCancelled(r) PROVE Goal
    BY <1>4 DEF BackoffCancelled
  <1>5. ASSUME NEW r \in Requests, CancelContext(r) PROVE Goal
    BY <1>5 DEF CancelContext
  <1>6. ASSUME NEW r \in Requests,
               \/ NewTransaction(r) \/ Send(r) \/ AwaitConfirm(r) \/ Confirmed(r)
               \/ AwaitMessage(r) \/ SkipMessage(r) \/ WaitExpires(r) \/ Answered(r)
        PROVE  Goal
    <2>1. /\ UNCHANGED <<attempt, cancelled>>
          /\ \E p \in PCs \ {"backoff", "failed"} : pc' = [pc EXCEPT ![r] = p]
      BY <1>6 DEF NewTransaction, Send, AwaitConfirm, Confirmed, AwaitMessage,
                  SkipMessage, WaitExpires, Answered, PCs
    <2> QED BY <2>1
  <1>7. CASE UNCHANGED <<pc, attempt, cancelled>>
    BY <1>7
  <1> QED
    BY <1>1, <1>2, <1>3, <1>4, <1>5, <1>6, <1>7
    DEF Next, Step, SendFails, ConfirmFails, ConfirmExpires, ListeningFails,
        AnswerGarbled, DeadlinePasses, Dispatch, Report, vars, callers

-----------------------------------------------------------------------------
\* A number is new when it is given, and is sent with only by who has it.
LEMMA NextIds ==
  ASSUME TypeOK, IdsInv, [Next]_vars
  PROVE  IdsInv'
  <1> USE ZclAssumption
      DEF TypeOK, IdsInv, IdsGiven, IdsDistinct, SentNumbered, SentByOwner, At
  <1>1. ASSUME NEW r \in Requests, Begin(r) PROVE IdsInv'
    BY <1>1 DEF Begin
  <1>2. ASSUME NEW r \in Requests, NewTransaction(r) PROVE IdsInv'
    BY <1>2 DEF NewTransaction
  <1>3. ASSUME NEW r \in Requests, pc[r] = "send", Accept(r),
               UNCHANGED <<id, transactionID>>,
               \E p \in PCs \ {"idle", "new"} : pc' = [pc EXCEPT ![r] = p]
        PROVE  IdsInv'
    BY <1>3 DEF Accept
  <1>4. ASSUME UNCHANGED <<id, transactionID, sent>>,
               NEW r \in Requests, pc[r] \notin {"idle", "new"},
               NEW p \in PCs, pc' = [pc EXCEPT ![r] = p]
        PROVE  IdsInv'
    BY <1>4
  <1>5. CASE UNCHANGED <<id, transactionID, sent, pc>>
    BY <1>5
  <1>6. ASSUME NEW r \in Requests, Fails(r)
        PROVE  \E p \in PCs \ {"idle", "new"} : pc' = [pc EXCEPT ![r] = p]
    BY <1>6 DEF Fails, PCs
  <1>7. ASSUME NEW r \in Requests, Send(r) \/ SendFails(r) PROVE IdsInv'
    <2>1. CASE Accept(r)
      BY <1>7, <1>3, <1>6, <2>1 DEF Send, SendFails, Fails, PCs
    <2>2. CASE SendFails(r) /\ UNCHANGED <<air, sent>>
      BY <1>4, <1>6, <2>2 DEF SendFails, Fails
    <2> QED BY <1>7, <2>1, <2>2 DEF Send, SendFails
  <1>8. ASSUME NEW r \in Requests,
               \/ AwaitConfirm(r) \/ Confirmed(r) \/ ConfirmFails(r) \/ ConfirmExpires(r)
               \/ AwaitMessage(r) \/ SkipMessage(r) \/ WaitExpires(r) \/ ListeningFails(r)
               \/ Answered(r) \/ AnswerGarbled(r) \/ BackoffEnds(r) \/ BackoffCancelled(r)
        PROVE  IdsInv'
    <2>1. /\ UNCHANGED <<id, transactionID, sent>>
          /\ pc[r] \notin {"idle", "new"}
          /\ \E p \in PCs : pc' = [pc EXCEPT ![r] = p]
      BY <1>8 DEF AwaitConfirm, Confirmed, ConfirmFails, ConfirmExpires, AwaitMessage,
                  SkipMessage, WaitExpires, ListeningFails, Answered, AnswerGarbled,
                  BackoffEnds, BackoffCancelled, Fails, PCs
    <2> QED BY <2>1, <1>4
  <1> QED
    BY <1>1, <1>2, <1>5, <1>7, <1>8
    DEF Next, Step, DeadlinePasses, CancelContext, Dispatch, Report, vars, callers

-----------------------------------------------------------------------------
(***************************************************************************)
(* Frames.  What is genuine stays so: sent and reported only grow.         *)
(***************************************************************************)
LEMMA GenuineStays ==
  ASSUME NEW f, Genuine(f), sent \subseteq sent', reported \subseteq reported'
  PROVE  Genuine(f)'
  BY DEF Genuine

LEMMA HistoryGrows ==
  ASSUME [Next]_vars
  PROVE  sent \subseteq sent' /\ reported \subseteq reported'
  BY DEF Next, Step, vars, callers, Begin, NewTransaction, Send, SendFails, Accept, Fails,
         AwaitConfirm, Confirmed, ConfirmFails, ConfirmExpires, AwaitMessage, SkipMessage,
         WaitExpires, ListeningFails, Answered, AnswerGarbled, BackoffEnds,
         BackoffCancelled, DeadlinePasses, CancelContext, Dispatch, Report

LEMMA AcceptGenuine ==
  ASSUME TypeOK, IdsInv, AirGenuine, NEW r \in Requests, pc[r] = "send", Accept(r),
         reported' = reported
  PROVE  AirGenuine'
  <1> SUFFICES ASSUME NEW f \in air' PROVE Genuine(f)'
    BY DEF AirGenuine
  <1>1. CASE f \in air
    BY <1>1, GenuineStays DEF AirGenuine, Accept
  <1>2. CASE f \notin air
    <2>1. f.re = id[r] /\ f.src = TargetOf[r]
      BY <1>2 DEF Accept
    <2>2. id[r] # Unsolicited
      BY DEF IdsInv, IdsGiven, Unsolicited
    <2> QED BY <2>1, <2>2 DEF Genuine, Accept
  <1> QED BY <1>1, <1>2

LEMMA NextAirGenuine ==
  ASSUME TypeOK, IdsInv, AirGenuine, [Next]_vars
  PROVE  AirGenuine'
  <1>1. ASSUME NEW r \in Requests, Send(r) \/ SendFails(r) PROVE AirGenuine'
    <2>1. CASE Accept(r)
      BY <1>1, <2>1, AcceptGenuine DEF Send, SendFails, At
    <2>2. CASE UNCHANGED <<air, sent, reported>>
      BY <2>2 DEF AirGenuine, Genuine
    <2> QED BY <1>1, <2>1, <2>2 DEF Send, SendFails
  <1>2. ASSUME NEW t \in Targets, Report(t) PROVE AirGenuine'
    <2> SUFFICES ASSUME NEW f \in air' PROVE Genuine(f)'
      BY DEF AirGenuine
    <2>1. CASE f \in air
      BY <1>2, <2>1, HistoryGrows, GenuineStays DEF AirGenuine
    <2>2. CASE f \notin air
      BY <1>2, <2>2 DEF Report, Genuine
    <2> QED BY <2>1, <2>2
  <1>3. CASE air' \subseteq air
    BY <1>3, HistoryGrows, GenuineStays DEF AirGenuine
  <1> QED
    BY <1>1, <1>2, <1>3
    DEF Next, Step, vars, callers, Begin, NewTransaction, AwaitConfirm, Confirmed,
        ConfirmFails, ConfirmExpires, AwaitMessage, SkipMessage, WaitExpires,
        ListeningFails, Answered, AnswerGarbled, BackoffEnds, BackoffCancelled,
        DeadlinePasses, CancelContext, Dispatch

\* A waiter is given frames of the kind it waits for, and keeps none when it
\* ends.
LEMMA NextBoxGenuine ==
  ASSUME TypeOK, AirGenuine, BoxGenuine, [Next]_vars
  PROVE  BoxGenuine'
  <1> USE DEF TypeOK, At
  <1> DEFINE Good(q) == box[q].kind \in AwaitedBy(q) /\ Genuine(box[q])
  <1> SUFFICES ASSUME NEW q \in Requests, box'[q] # NoFrame
               PROVE  Good(q)'
    BY DEF BoxGenuine
  <1>1. CASE box'[q] = box[q] /\ pc'[q] = pc[q]
    BY <1>1, HistoryGrows DEF BoxGenuine, AwaitedBy, Genuine
  <1>2. ASSUME NEW f \in air, Dispatch(f, q) PROVE Good(q)'
    BY <1>2, HistoryGrows DEF Dispatch, AirGenuine, AwaitedBy, Genuine
  <1>3. ASSUME box'[q] = box[q], pc[q] \notin {"confirming", "listening"} PROVE FALSE
    BY <1>3 DEF BoxGenuine, AwaitedBy
  <1> QED
    BY <1>1, <1>2, <1>3
    DEF Next, Step, vars, callers, Begin, NewTransaction, Send, SendFails, Fails, Forget,
        AwaitConfirm, Confirmed, ConfirmFails, ConfirmExpires, AwaitMessage, SkipMessage,
        WaitExpires, ListeningFails, Answered, AnswerGarbled, BackoffEnds,
        BackoffCancelled, DeadlinePasses, CancelContext, Dispatch, Report

LEMMA NextResultHeard ==
  ASSUME TypeOK, BoxGenuine, ResultHeard, [Next]_vars
  PROVE  ResultHeard'
  <1> USE DEF TypeOK, At
  <1> DEFINE Good(q) ==
    /\ result[q].kind = "incoming" /\ Admits(TargetOf[q], result[q].src)
    /\ Genuine(result[q])
  <1> SUFFICES ASSUME NEW q \in Requests, result'[q] # NoFrame
               PROVE  Good(q)'
    BY DEF ResultHeard
  <1>1. CASE result'[q] = result[q]
    BY <1>1, HistoryGrows DEF ResultHeard, Genuine
  <1>2. CASE Answered(q)
    BY <1>2, HistoryGrows DEF Answered, Wanted, BoxGenuine, AwaitedBy, Genuine
  <1> QED
    BY <1>1, <1>2
    DEF Next, Step, vars, callers, Begin, NewTransaction, Send, SendFails, Fails,
        AwaitConfirm, Confirmed, ConfirmFails, ConfirmExpires, AwaitMessage, SkipMessage,
        WaitExpires, ListeningFails, Answered, AnswerGarbled, BackoffEnds,
        BackoffCancelled, DeadlinePasses, CancelContext, Dispatch, Report

-----------------------------------------------------------------------------
\* What f says about the transaction of r, once r went on with it.
OwnOrApart(r, f) ==
  /\ f # NoFrame
  /\ f.kind = "confirm" /\ f.ok
  /\ \/ f.re = id[r] /\ <<id[r], TargetOf[r]>> \in sent
     \/ Apart(f.re, id[r])

\* A confirm that carries the number of r is of the transaction of r: of a
\* transaction with the same identity, hence sent to the same target, or of
\* one whose number came round.
LEMMA ConfirmedOwn ==
  ASSUME TypeOK, IdsInv, BoxGenuine, NEW r \in Requests, Confirmed(r)
  PROVE  OwnOrApart(r, box[r])
  <1> DEFINE f == box[r]
  <1>1. f \in Frames /\ f # NoFrame /\ f.kind = "confirm" /\ f.ok /\ Genuine(f)
    BY DEF Confirmed, BoxGenuine, AwaitedBy, TypeOK, OwnConfirm
  <1>2. f.re \in Nat /\ id[r] \in Nat /\ f.src \in Targets /\ SeqNum(f.re) = SeqNum(id[r])
    BY <1>1 DEF Confirmed, OwnConfirm, Frames, TypeOK
  <1>3. <<f.re, f.src>> \in sent
    BY <1>1 DEF Genuine
  <1>4. CASE f.re = id[r]
    BY <1>1, <1>2, <1>3, <1>4 DEF OwnOrApart, IdsInv, SentByOwner
  <1>5. CASE f.re # id[r]
    BY <1>1, <1>2, <1>5, SeqNumApart DEF OwnOrApart
  <1> QED BY <1>4, <1>5

LEMMA NextConfirmIsOwn ==
  ASSUME TypeOK, IdsInv, BoxGenuine, ConfirmIsOwn, [Next]_vars
  PROVE  ConfirmIsOwn'
  <1> USE DEF TypeOK, At
  <1> SUFFICES ASSUME NEW q \in Requests, pc'[q] \in {"confirmed", "listening", "returned"}
               PROVE  OwnOrApart(q, confirm[q])'
    BY DEF ConfirmIsOwn, OwnOrApart
  <1>1. CASE Confirmed(q)
    <2>1. confirm'[q] = box[q] /\ id' = id /\ sent' = sent
      BY <1>1 DEF Confirmed
    <2> QED BY <1>1, <2>1, ConfirmedOwn DEF OwnOrApart
  <1>2. CASE /\ pc[q] \in {"confirmed", "listening", "returned"}
             /\ confirm'[q] = confirm[q] /\ id'[q] = id[q]
    BY <1>2, HistoryGrows DEF ConfirmIsOwn, OwnOrApart
  <1> QED
    BY <1>1, <1>2
    DEF Next, Step, vars, callers, Begin, NewTransaction, Send, SendFails, Fails, Forget,
        AwaitConfirm, Confirmed, ConfirmFails, ConfirmExpires, AwaitMessage, SkipMessage,
        WaitExpires, ListeningFails, Answered, AnswerGarbled, BackoffEnds,
        BackoffCancelled, DeadlinePasses, CancelContext, Dispatch, Report

-----------------------------------------------------------------------------
\* The engine keeps its inductive invariant.
THEOREM EngineInvariance == Spec => []IInv
  <1>1. IInv /\ [Next]_vars => IInv'
    BY NextTypeOK, NextAttempts, NextIds, NextAirGenuine, NextBoxGenuine, NextResultHeard,
       NextConfirmIsOwn
    DEF IInv, FramesInv
  <1> QED BY InitIInv, <1>1, PTL DEF Spec

\* af.go and messaging_core.go: whoever goes on, goes on with its own confirm.
THEOREM OwnConfirms == Spec => []ConfirmIsOwn
  <1>1. IInv => ConfirmIsOwn
    BY DEF IInv
  <1> QED BY <1>1, EngineInvariance, PTL

\* af.go and messaging_core.go: an answer passes the filter of who is given it,
\* which for the Basic cluster and for the coordinator lets much pass, and is to
\* this very request if nothing else was going on that the filter lets pass.
THEOREM OwnAnswers == Spec => []AnswerIsOwnIfUndisturbed
  <1>1. ASSUME IInv, NEW r \in Requests, result[r] # NoFrame, Undisturbed(r)
        PROVE  result[r].re = id[r] /\ result[r].src = TargetOf[r]
    <2>1. Admits(TargetOf[r], result[r].src) /\ Genuine(result[r])
      BY <1>1 DEF IInv, FramesInv, ResultHeard
    <2>2. <<result[r].re, result[r].src>> \in sent
      BY <1>1, <2>1 DEF Genuine, Undisturbed
    <2>3. result[r].re = id[r]
      BY <1>1, <2>1, <2>2 DEF Undisturbed
    <2>4. result[r].src \in Targets
      BY <1>1 DEF IInv, TypeOK, Frames
    <2> QED BY <1>1, <2>2, <2>3, <2>4 DEF IInv, IdsInv, SentByOwner
  <1>2. IInv => AnswerIsOwnIfUndisturbed
    BY <1>1 DEF IInv, FramesInv, ResultHeard, AnswerIsOwnIfUndisturbed
  <1> QED BY <1>2, EngineInvariance, PTL

\* messaging_core.go: retries are used up before a call fails.
THEOREM RetriesUsed == Spec => []FailsOnlyWhenExhausted
  <1>1. IInv => FailsOnlyWhenExhausted
    BY DEF IInv
  <1> QED BY <1>1, EngineInvariance, PTL

=============================================================================
