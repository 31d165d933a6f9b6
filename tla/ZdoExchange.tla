----------------------------- MODULE ZdoExchange -----------------------------
(***************************************************************************)
(* ZDO exchanges (pkg/znp/zdo.go, zdo_device.go) of callers that each      *)
(* follow a plan (module ZdoTasks): a request, answered by the coordinator *)
(* at once, then the wait for a frame from the device. The waiter for that *)
(* frame is registered only after the response, and knows it by its kind   *)
(* alone (module Waiter): it may be given one that somebody else asked     *)
(* for, or that came too late for the one who did.                         *)
(* (ZdoInit, ZdoNext and ZdoSpec, so that ClientProofs can extend this     *)
(* module and that of the client's life.)                                  *)
(***************************************************************************)
EXTENDS ZdoTasks

CONSTANTS Callers,
          Scenarios      \* what each caller asks, and how much may go wrong

Job == [kind : {"interview", "capabilities", "deviceHealth"}, dev : Devs] \cup [kind : {"interviewAll", "networkInfo", "health"}, dev : {Coordinator}]
       \cup [kind : {"request"}, request : UNION {Requests(d) : d \in Devs}]
ASSUME ScenariosAreSane ==
  /\ Nobody \notin Callers
  /\ \A s \in Scenarios : /\ DOMAIN s.jobs \subseteq Callers /\ s.faults \in Nat
                          /\ \A c \in DOMAIN s.jobs : s.jobs[c] \in Job

VARIABLES scenario, pc, plan,
          tries,      \* attempts made of the exchange at the head of the plan
          got,        \* what each caller learnt of each device
          cancelled,  \* callers whose context has ended
          air,        \* frames of devices on their way
          faults,     \* what went wrong so far
          strayed     \* history: callers that took an answer that was not theirs

zdoVars == <<scenario, pc, plan, tries, got, cancelled, air, faults, strayed>>

Active == DOMAIN scenario.jobs
JobOf(c) == scenario.jobs[c]
Asked(c) == Head(plan[c])
Kept(c) == got[c][Asked(c).dst]

ZdoInit == /\ scenario \in Scenarios
        /\ pc = [c \in Callers |-> IF c \in Active THEN "ask" ELSE "done"]
        /\ plan = [c \in Callers |-> IF c \in Active THEN Plan(JobOf(c)) ELSE <<>>]
        /\ tries = [c \in Callers |-> 0]
        /\ got = [c \in Callers |-> [d \in Devs |-> Unknown]]
        /\ cancelled = {} /\ air = {} /\ faults = 0 /\ strayed = {}

Fault == faults < scenario.faults /\ faults' = faults + 1

(******************************** outcomes ********************************)

(* Whoever interviews every device looks at the context before the next one. *)
GivesUp(c, rest) == JobOf(c).kind = "interviewAll" /\ c \in cancelled /\ rest # <<>> /\ Head(rest).dst # Asked(c).dst
Proceed(c, rest) ==
  /\ plan' = [plan EXCEPT ![c] = IF GivesUp(c, rest) THEN <<>> ELSE rest]
  /\ pc' = [pc EXCEPT ![c] = IF GivesUp(c, rest) THEN "failed" ELSE IF rest = <<>> THEN "done" ELSE "ask"]
  /\ tries' = [tries EXCEPT ![c] = 0]

Succeed(c, f) ==
  LET g == Learn(Asked(c), f, Kept(c))
  IN  /\ got' = [got EXCEPT ![c][Asked(c).dst] = g]
      /\ Proceed(c, More(JobOf(c), Asked(c), f, g) \o Tail(plan[c]))

(* The plan from the next device on. *)
FromNext(p) ==
  LET others == {i \in 1..Len(p) : p[i].dst # p[1].dst}
  IN  IF others = {} THEN <<>> ELSE SubSeq(p, CHOOSE i \in others : \A k \in others : i <= k, Len(p))

(* retryableZDORequest, and what the task makes of an error that remains. *)
Fail(c, final) ==
  LET x == Asked(c)
      others == FromNext(plan[c])
      lost == got' = [got EXCEPT ![c][x.dst] = Miss(x, @)]
  IN  IF tries[c] < x.retries /\ ~final /\ c \notin cancelled
      THEN pc' = [pc EXCEPT ![c] = "ask"] /\ tries' = [tries EXCEPT ![c] = @ + 1] /\ UNCHANGED <<plan, got>>
      ELSE \/ x.otherwise = "skip" /\ lost /\ Proceed(c, Tail(plan[c]))
           \/ x.otherwise = "stop" /\ lost /\ Proceed(c, others)
           \/ x.otherwise = "abort" /\ lost /\ UNCHANGED tries
              /\ pc' = [pc EXCEPT ![c] = "failed"] /\ plan' = [plan EXCEPT ![c] = <<>>]

(******************************** exchanges *******************************)

(* What a device answers: a page of its table, or what is asked of it; a refusal *)
(* if it has no such endpoint. An empty page of a table that has more is a fault. *)
Frame(c, fault, n) ==
  [kind |-> Asked(c).kind, src |-> Asked(c).dst, arg |-> Asked(c).arg, n |-> n, fault |-> fault, by |-> c]
Left(x) == LET more == RowsOf(x.dst, x.kind) - x.arg IN IF more < 0 THEN 0 ELSE IF more > PageSize THEN PageSize ELSE more
Sizes(x) == IF x.kind \notin Tables \/ Left(x) = 0 THEN {0} ELSE 1..Left(x)
Missing(x) == x.kind = "simple" /\ x.arg \notin {Network[x.dst].eps[i] : i \in 1..Len(Network[x.dst].eps)}

Sent(c) == pc[c] = "ask" /\ Asked(c).kind # "basic"
(* Answers to earlier exchanges of the caller are nobody's now. *)
Stale(c) == {IF f.by = c THEN [f EXCEPT !.by = Nobody] ELSE f : f \in air}
Reply(c) ==
  IF ~Answers(Asked(c).dst, Asked(c).kind) THEN air' = Stale(c) /\ UNCHANGED faults
  ELSE \/ \E n \in Sizes(Asked(c)) : air' = Stale(c) \cup {Frame(c, IF Missing(Asked(c)) THEN "refused" ELSE "none", n)} /\ UNCHANGED faults
       \/ Fault /\ \E how \in {"refused", "garbled"} : air' = Stale(c) \cup {Frame(c, how, 0)}
       \/ Fault /\ Asked(c).kind \in Tables /\ air' = Stale(c) \cup {Frame(c, "none", 0)}

(* The coordinator accepts a request; what it can answer itself it does. *)
Accept(c) ==
  /\ Sent(c) /\ Asked(c).kind \notin Local
  /\ Reply(c) /\ pc' = [pc EXCEPT ![c] = "accepted"]
  /\ UNCHANGED <<scenario, plan, tries, got, cancelled, strayed>>
Answer(c) == /\ Sent(c) /\ Asked(c).kind \in Local
             /\ Succeed(c, Frame(c, "none", 0)) /\ UNCHANGED <<scenario, cancelled, air, faults, strayed>>

(* It refuses, or does not respond. *)
Refuse(c) == /\ Sent(c) /\ Fault /\ Fail(c, FALSE) /\ UNCHANGED <<scenario, cancelled, air, strayed>>

(* A request whose context has ended is sent all the same. *)
SendInVain(c) ==
  /\ Sent(c) /\ c \in cancelled
  /\ IF Asked(c).kind \in Local THEN UNCHANGED <<air, faults>> ELSE Reply(c)
  /\ Fail(c, FALSE) /\ UNCHANGED <<scenario, cancelled, strayed>>

Register(c) == pc[c] = "accepted" /\ pc' = [pc EXCEPT ![c] = "waiting"] /\ UNCHANGED <<scenario, plan, tries, got, cancelled, air, faults, strayed>>

Good(x, f) == f.fault = "none" /\ (x.kind \in Checked => f.src = x.dst)

(* A status in the list of endpoints is not an error that is tried again. *)
Receive(c, f) ==
  /\ pc[c] = "waiting" /\ f \in air /\ f.kind = Asked(c).kind
  /\ air' = air \ {f}
  /\ strayed' = IF f.by = c THEN strayed ELSE strayed \cup {c}
  /\ IF Good(Asked(c), f) THEN Succeed(c, f) ELSE Fail(c, Asked(c).kind = "active" /\ f.fault = "refused")
  /\ UNCHANGED <<scenario, cancelled, faults>>

Awaited(f) == \E c \in Active : pc[c] = "waiting" /\ Asked(c).kind = f.kind
(* Nobody waits for the frame: not any more, or not yet. *)
Discard(f) ==
  /\ f \in air /\ ~Awaited(f) /\ air' = air \ {f}
  /\ IF \E c \in Active : pc[c] = "accepted" /\ f.by = c THEN Fault ELSE UNCHANGED faults
  /\ UNCHANGED <<scenario, pc, plan, tries, got, cancelled, strayed>>

Timeout(c) ==
  /\ pc[c] = "waiting"
  /\ IF c \notin cancelled /\ (\E f \in air : f.by = c) THEN Fault ELSE UNCHANGED faults
  /\ Fail(c, FALSE)
  /\ UNCHANGED <<scenario, cancelled, air, strayed>>

Cancel(c) == /\ pc[c] \notin {"done", "failed"} /\ c \notin cancelled /\ Fault
             /\ cancelled' = cancelled \cup {c}
             /\ UNCHANGED <<scenario, pc, plan, tries, got, air, strayed>>

(* The Basic cluster is read with one ZCL request (module ZclRequest), from an *)
(* endpoint that has it; without any endpoint nothing is read. Any answer will  *)
(* do: attributes with an error status, and those that are not in it, are       *)
(* passed over without an error (interview.go:349), and the answer may be about *)
(* another cluster, as the filter lets all pass for cluster 0 (af.go:273). So   *)
(* what is noted is that there was an answer, not that it told anything.        *)
ReadBasic(c) ==
  LET had == Kept(c)
      hasBasic == BasicEndpoint(had.described) # 0
      Note(g) == got' = [got EXCEPT ![c][Asked(c).dst] = g]
  IN  /\ pc[c] = "ask" /\ Asked(c).kind = "basic"
      /\ \/ had.described = <<>> /\ UNCHANGED <<got, faults>>
         \/ hasBasic /\ c \notin cancelled /\ Note([had EXCEPT !.basicRead = TRUE]) /\ UNCHANGED faults
         \/ had.described # <<>> /\ (~hasBasic \/ c \in cancelled) /\ Note(Miss(Asked(c), had)) /\ UNCHANGED faults
         \/ hasBasic /\ Fault /\ Note(Miss(Asked(c), had))
      /\ Proceed(c, Tail(plan[c]))
      /\ UNCHANGED <<scenario, cancelled, air, strayed>>

Step(c) == Accept(c) \/ Answer(c) \/ Refuse(c) \/ SendInVain(c) \/ Register(c) \/ Timeout(c) \/ ReadBasic(c) \/ \E f \in air : Receive(c, f)

ZdoNext == (\E c \in Callers : Step(c) \/ Cancel(c)) \/ (\E f \in air : Discard(f))

(* Callers run; every wait has a deadline. *)
ZdoSpec == ZdoInit /\ [][ZdoNext]_zdoVars /\ \A c \in Callers : WF_zdoVars(Step(c))

(******************************* properties *******************************)

ZdoTypeOK ==
  /\ \A c \in Callers : /\ pc[c] \in {"ask", "accepted", "waiting", "done", "failed"}
                        /\ tries[c] \in 0..Retries /\ (pc[c] \in {"ask", "accepted", "waiting"} <=> plan[c] # <<>>)
  /\ faults <= scenario.faults /\ strayed \subseteq Active

(* A caller that was given no answer but its own has the right address, the *)
(* right endpoints, and of a table every row, once and in order.            *)
AnswersAreWhole ==
  \A c \in Callers \ strayed, d \in Devs :
     /\ got[c][d].ieee \in {Nobody, d} /\ got[c][d].active \in {<<>>, Network[d].eps}
     /\ \A k \in got[c][d].whole : got[c][d][k] = [i \in 1..RowsOf(d, k) |-> [dev |-> d, row |-> i]]

(* An interview that notes no error has the address, the node, the endpoints  *)
(* and the descriptor of each, and its read of the Basic cluster was answered, *)
(* unless the caller was given a ZDO answer that was not its own. What the     *)
(* Basic cluster's answer told is another matter: it may have told nothing.    *)
Complete(g, d) == /\ g.ieee = d /\ g.node = d /\ g.active = Network[d].eps
                  /\ g.described = [i \in 1..Len(Network[d].eps) |-> [dev |-> d, ep |-> Network[d].eps[i]]]
                  /\ g.basicRead \/ Network[d].eps = <<>>
SuccessIsComplete ==
  \A c \in Active \ strayed : (pc[c] = "done" /\ JobOf(c).kind \in {"interview", "interviewAll"}) =>
     \A d \in (IF JobOf(c).kind = "interview" THEN {JobOf(c).dev} ELSE {Known[i] : i \in 1..Len(Known)}) :
        got[c][d].errors = 0 => Complete(got[c][d], d)

(* A call, or an interview of every device, comes to an end: what fails, stays *)
(* away or comes in the wrong order, and however many pages a table has.       *)
EveryCallReturns == \A c \in Callers : <>(pc[c] \in {"done", "failed"})
=============================================================================
