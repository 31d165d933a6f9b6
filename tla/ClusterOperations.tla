-------------------------- MODULE ClusterOperations --------------------------
(***************************************************************************)
(* How the operations on a device's clusters run, and how they meet.       *)
(*                                                                         *)
(* An answer reaches the adapter as a frame of the device and cluster, and *)
(* sendZclRequest (module ZclRequest) gives it to some call that waits for *)
(* that device and cluster, whosever answer it is. A call that waits for   *)
(* the Basic cluster, which is number zero, waits for every cluster.       *)
(***************************************************************************)
EXTENDS DeviceOperations, FiniteSets

CONSTANTS Callers,      \* goroutines that use one device
          Plans,        \* what each of them calls: functions from some Callers to operations
          Reports,      \* <<cluster, attribute>> the device may report by itself
          MaxReports,   \* how many reports it sends
          MaxCopies,    \* how many frames arrive twice
          TextLengths   \* the lengths of the texts callers pass

ASSUME BoundsAreNumbers == MaxReports \in Nat /\ MaxCopies \in Nat /\ TextLengths \subseteq Nat

(* The filter of WaitForIncomingMsg, in which zero lets every cluster pass: *)
(* a sensor's report is waited for without a cluster, and Basic is number 0. *)
Admits(s, cluster) == s.cluster \in {cluster, "any", "Basic"}

(* What all operations are like: at least one exchange, attributes that are  *)
(* taken are asked for, a read that takes the first record asks for one      *)
(* attribute, no write can be given the answer to another write of its own,  *)
(* and only listening is to all.                                             *)
ASSUME OperationsAreSane ==
  \A plan \in Plans : DOMAIN plan \subseteq Callers /\ \A c \in DOMAIN plan :
    LET steps == plan[c].steps
    IN  /\ Len(steps) \in Nat \ {0}
        /\ \A i \in 1..Len(steps) :
             /\ steps[i].kind = "read" => DOMAIN steps[i].takes \subseteq steps[i].ask
                                          /\ (steps[i].byId \/ \E a \in DOMAIN steps[i].takes : steps[i].ask = {a})
             /\ steps[i].kind # "listen" => steps[i].cluster # "any"
        /\ \A i, j \in 1..Len(steps) :
             steps[i].kind = "write" /\ steps[j].kind = "write" /\ Admits(steps[i], steps[j].cluster) => i = j

VARIABLES op,      \* the operation of each caller that has one
          at,      \* the exchange it is in; 0 before the first
          phase,   \* "ask", "wait" or "done"
          failed,  \* the exchanges that failed
          got,     \* the values it took
          air,     \* frames on their way from the device
          heard,   \* what the device received
          seen,    \* the deduplication cache
          frames, copies   \* how many frames and copies were sent

vars == <<op, at, phase, failed, got, air, heard, seen, frames, copies>>

(*************************** what a device answers ************************)

(* The extreme values of a type as they are read; a string, an address, a real is one value. *)
Extreme(type, high) ==
  LET go == ReadAs(type)
  IN  CASE type \in {"CharString", "OctetString"} -> Value(IF type = "CharString" THEN "string" ELSE "bytes", 1, FALSE)
        [] go \in Signed -> Value(go, 8 * Size(type) - 1, ~high)
        [] go \in DOMAIN Bits -> Value(go, IF high THEN 8 * Size(type) ELSE 0, FALSE)
        [] OTHER -> Value(go, 1, FALSE)

(* A frame from the device: its kind, the command it bears, the caller it answers (or none). *)
Frame(cluster, kind, cmd, for) ==
  [no |-> frames + 1, cluster |-> cluster, kind |-> kind, cmd |-> cmd, for |-> for, recs |-> <<>>, ok |-> TRUE,
   len |-> 0, step |-> 0, copy |-> FALSE]

Records(cluster, asked, bad, high) ==
  [a \in asked |-> [ok |-> a \notin bad, val |-> Extreme(TypeIn(cluster, a), high)]]

(* A device may leave the records of attributes out, refuse them all, one, or none. *)
Listed(f, recs) == [f EXCEPT !.kind = "read", !.cmd = 1, !.recs = recs]
Refusals(s) == {{}, s.ask} \cup {{a} : a \in s.ask}
Extremes(s) == IF \E a \in s.ask : ReadAs(TypeIn(s.cluster, a)) \in Signed THEN BOOLEAN ELSE {TRUE}
ReadAnswers(f, s) ==
  {Listed(f, Records(s.cluster, s.ask, bad, high)) : bad \in Refusals(s), high \in Extremes(s)} \cup {Listed(f, <<>>)}

(* A cluster's own answer may be too short, or report that there is nothing. *)
Owned(f, cmd, n, ok) == [f EXCEPT !.kind = "own", !.cmd = cmd, !.len = n, !.ok = ok]
OwnAnswers(f, cmd) == {Owned(f, cmd, n, ok) : n \in {1, 40}, ok \in BOOLEAN}

Replied(f, kind, cmd, ok) == [f EXCEPT !.kind = kind, !.cmd = cmd, !.ok = ok]
Answers(s, c, step) ==
  LET f == [Frame(s.cluster, "default", 11, c) EXCEPT !.step = step]
      refused == {[f EXCEPT !.ok = FALSE]}
  IN  CASE s.kind = "read" -> refused \cup ReadAnswers(f, s)
        [] s.kind = "write" -> refused \cup {Replied(f, "write", 4, ok) : ok \in BOOLEAN}
        [] s.kind = "configure" -> refused \cup {Replied(f, "configure", 7, ok) : ok \in BOOLEAN}
        [] s.kind = "config" -> refused \cup {Replied(f, "config", 9, TRUE)}
        [] s.kind = "exchange" -> refused \cup OwnAnswers(f, s.answer)
        [] s.cluster \in DOMAIN Replies /\ s.cmd \in Replies[s.cluster] -> OwnAnswers(f, s.cmd)
        [] OTHER -> {f} \cup refused

(******************************** behaviour *******************************)

Step(c) == op[c].steps[at[c]]
Last(c) == Len(op[c].steps)

Init == /\ op \in Plans
        /\ at = [c \in Callers |-> 1] /\ phase = [c \in Callers |-> IF c \in DOMAIN op THEN "ask" ELSE "done"]
        /\ failed = [c \in Callers |-> {}] /\ got = [c \in Callers |-> {}]
        /\ air = {} /\ heard = {} /\ seen = {} /\ frames = 0 /\ copies = 0

(* The end of an exchange, and what the operation does next. *)
Finish(c, ok, taken) ==
  LET bad == IF ok THEN failed[c] ELSE failed[c] \cup {at[c]}
      over == \/ at[c] = Last(c)
              \/ ~ok /\ op[c].errors = "end"
              \/ ok /\ op[c].errors = "instead"
  IN  /\ failed' = [failed EXCEPT ![c] = bad]
      /\ got' = [got EXCEPT ![c] = @ \cup taken]
      /\ phase' = [phase EXCEPT ![c] = IF over THEN "done" ELSE "ask"]
      /\ at' = [at EXCEPT ![c] = IF over THEN @ ELSE @ + 1]

(* An argument out of range: nothing is sent. *)
Refuse(c) == /\ phase[c] = "ask" /\ at[c] = 1 /\ op[c].limited
             /\ phase' = [phase EXCEPT ![c] = "done"] /\ failed' = [failed EXCEPT ![c] = {0}]
             /\ UNCHANGED <<op, at, got, air, heard, seen, frames, copies>>

Hears(c, s, applied) == [by |-> c, step |-> at[c], kind |-> s.kind, cluster |-> s.cluster, applied |-> applied,
                         values |-> IF s.kind = "write" THEN s.values ELSE <<>>, count |-> 0, bytes |-> 0]

(* A request leaves, the device acts on it and answers; the caller waits. *)
Ask(c) ==
  LET s == Step(c)
  IN  /\ phase[c] = "ask" /\ s.kind \in {"read", "write", "exchange", "configure", "config"}
      /\ \E f \in Answers(s, c, at[c]) : /\ air' = air \cup {f}
                                  /\ heard' = IF s.kind = "write" THEN heard \cup {Hears(c, s, f.ok)} ELSE heard
      /\ frames' = frames + 1
      /\ phase' = [phase EXCEPT ![c] = "wait"]
      /\ UNCHANGED <<op, at, failed, got, seen, copies>>

(* The bytes of a text that are sent, and the length byte before them. *)
Cut(len, limit) == IF len > limit THEN limit ELSE len
LengthByte(len, limit) == Cut(len, limit) % 256

(* SendClusterCommand: delivered or not; what the device answers is nobody's. *)
SendCommand(c, len) ==
  LET s == Step(c)
  IN  /\ phase[c] = "ask" /\ s.kind = "command"
      /\ \/ /\ \E f \in Answers(s, "nobody", 0) : air' = air \cup {f}
            /\ heard' = heard \cup {[Hears(c, s, TRUE) EXCEPT !.count = LengthByte(len, s.text), !.bytes = Cut(len, s.text)]}
            /\ frames' = frames + 1
            /\ Finish(c, TRUE, {})
         \/ Finish(c, FALSE, {}) /\ UNCHANGED <<air, heard, frames>>
      /\ UNCHANGED <<op, seen, copies>>

BeginListening(c) == /\ phase[c] = "ask" /\ Step(c).kind = "listen"
                     /\ phase' = [phase EXCEPT ![c] = "wait"]
                     /\ UNCHANGED <<op, at, failed, got, air, heard, seen, frames, copies>>

(* The value of attribute a of the cluster asked, as attribute b of the frame's. *)
Took(c, s, f, a, b) == [step |-> at[c], cluster |-> s.cluster, attr |-> a, from |-> f.cluster, of |-> b, for |-> f.for,
                        fstep |-> f.step, byId |-> s.byId, no |-> f.no, kept |-> Kept(s.takes[a], f.recs[b].val)]
Takes(s, a, r) == r.ok /\ Accepted(s.takes[a], r.val)

(* Mutant: the values of an answer are taken in whatever attribute they are of. *)
AnswerToRead_Unchecked(c, s, f) ==
  IF f.kind # "read" THEN Finish(c, FALSE, {})
  ELSE Finish(c, TRUE, {Took(c, s, f, x[1], x[2]) : x \in {y \in (DOMAIN s.takes) \X (DOMAIN f.recs) : Takes(s, y[1], f.recs[y[2]])}})

(* The records a read takes for a: those of its number, in whatever cluster. *)
Matches(s, a, f, b) == IF s.cluster = f.cluster THEN a = b ELSE Shares(a, f.cluster, b)

(* What a read takes from a frame it is given. The number of the command is  *)
(* all that is compared; a cluster's own command 1 is not a list of records  *)
(* and does not parse as one (ZclCodec).                                     *)
AnswerToRead(c, s, f) ==
  IF f.kind # "read" THEN Finish(c, FALSE, {})
  ELSE IF s.byId
  THEN Finish(c, TRUE, {Took(c, s, f, x[1], x[2]) :
                          x \in {y \in (DOMAIN s.takes) \X (DOMAIN f.recs) :
                                   Matches(s, y[1], f, y[2]) /\ Takes(s, y[1], f.recs[y[2]])}})
  ELSE LET a == CHOOSE x \in DOMAIN s.takes : TRUE
       IN  \/ DOMAIN f.recs = {} /\ Finish(c, ~s.strict, {})
           \/ \E b \in DOMAIN f.recs :
                IF Takes(s, a, f.recs[b]) THEN Finish(c, TRUE, {Took(c, s, f, a, b)}) ELSE Finish(c, ~s.strict, {})

(* Mutant: a write answered at all is taken for done. *)
Accepts_AnyWrite(s, f) ==
  CASE s.kind = "write" -> f.cmd = 4
    [] s.kind = "exchange" -> f.cmd = s.answer /\ f.kind = "own" /\ f.len >= s.min
    [] s.kind = "configure" -> f.cmd = 10 \/ (f.cmd = 7 /\ f.ok)
    [] s.kind = "config" -> f.cmd = 9

(* The other exchanges: a write, a command with an answer, the configuration of *)
(* reports, which any report that comes meanwhile confirms.                     *)
Accepts(s, f) ==
  CASE s.kind = "write" -> f.cmd = 4 /\ f.kind = "write" /\ f.ok
    [] s.kind = "exchange" -> f.cmd = s.answer /\ f.kind = "own" /\ f.len >= s.min
    [] s.kind = "configure" -> f.cmd = 10 \/ (f.cmd = 7 /\ f.ok)
    [] s.kind = "config" -> f.cmd = 9

(* WaitForSensorReport returns with the first frame that is not a copy, WaitFor- *)
(* IASZoneNotification with the first notification.                              *)
Listened(c, s, f) ==
  /\ seen' = seen \cup {f.no}
  /\ IF f.no \notin seen /\ (s.cluster = "any" \/ f.kind = "alarm")
     THEN Finish(c, TRUE, {[step |-> 1, cluster |-> f.cluster, attr |-> "frame", from |-> f.cluster, of |-> "frame", for |-> f.for,
                            fstep |-> f.step, byId |-> TRUE, no |-> f.no, kept |-> TRUE]})
     ELSE UNCHANGED <<failed, got, phase, at>>

(* A frame is given to a call whose filter lets it pass. *)
Receive(c, f) ==
  LET s == Step(c)
  IN  /\ phase[c] = "wait" /\ f \in air /\ Admits(s, f.cluster)
      /\ air' = air \ {f}
      /\ CASE s.kind = "read" -> AnswerToRead(c, s, f) /\ UNCHANGED seen
           [] s.kind = "listen" -> Listened(c, s, f)
           [] OTHER -> Finish(c, Accepts(s, f), {}) /\ UNCHANGED seen
      /\ UNCHANGED <<op, heard, frames, copies>>

(* No answer in time, after all retries: what comes later is still on its way. *)
Timeout(c) == /\ phase[c] = "wait" /\ Finish(c, FALSE, {})
              /\ UNCHANGED <<op, air, heard, seen, frames, copies>>

(* A frame nobody waits for is dropped. *)
Drop(f) == /\ f \in air
           /\ ~\E c \in Callers : phase[c] = "wait" /\ Admits(Step(c), f.cluster)
           /\ air' = air \ {f}
           /\ UNCHANGED <<op, at, phase, failed, got, heard, seen, frames, copies>>

(* The device reports an attribute, or a change of its alarm state. (A report *)
(* that nobody waits for is dropped at once and left out.)                    *)
Report(r) == /\ \E c \in Callers : phase[c] = "wait" /\ Admits(Step(c), r[1])
             /\ Cardinality({h \in heard : h.kind = "report"}) < MaxReports
             /\ air' = air \cup {IF r[1] = "IASZone" THEN Frame(r[1], "alarm", 0, "nobody") ELSE Frame(r[1], "report", 10, "nobody")}
             /\ heard' = heard \cup {[by |-> "device", step |-> frames, kind |-> "report", cluster |-> r[1], applied |-> TRUE,
                                      values |-> <<>>, count |-> 0, bytes |-> 0]}
             /\ frames' = frames + 1
             /\ UNCHANGED <<op, at, phase, failed, got, seen, copies>>

(* A frame arrives twice: repeated in the mesh, or answered twice after a retry. *)
Repeat(f) == /\ f \in air /\ ~f.copy /\ copies < MaxCopies
             /\ air' = air \cup {[f EXCEPT !.copy = TRUE]} /\ copies' = copies + 1
             /\ UNCHANGED <<op, at, phase, failed, got, heard, seen, frames>>

Done == (\A c \in Callers : phase[c] = "done") /\ air = {} /\ UNCHANGED vars

Next == \/ \E c \in Callers : \/ Refuse(c) \/ Ask(c) \/ BeginListening(c) \/ Timeout(c)
                              \/ \E len \in TextLengths : SendCommand(c, len)
                              \/ \E f \in air : Receive(c, f)
        \/ \E f \in air : Drop(f) \/ Repeat(f)
        \/ \E r \in Reports : Report(r)
        \/ Done

Spec == Init /\ [][Next]_vars

(******************************* properties *******************************)

TypeOK == /\ \A c \in DOMAIN op : at[c] \in 1..Last(c) /\ failed[c] \subseteq 0..Last(c)
          /\ phase \in [Callers -> {"ask", "wait", "done"}]
          /\ \A f \in air : f.no \in 1..frames
          /\ seen \subseteq 1..frames /\ copies \in 0..MaxCopies

(* No operation takes the value of one attribute for another's, though the *)
(* answer it is given may be to someone else's question, or to its own     *)
(* earlier one. There are two exceptions, and both need an answer that was *)
(* not its own: a single read takes the first record there is, and a read  *)
(* of the Basic cluster takes what another cluster has under its numbers.  *)
Own(g) == g.of = g.attr /\ g.from = g.cluster
TakesOnlyWhatItAsked ==
  \A c \in DOMAIN op : \A g \in got[c] : ~Own(g) =>
    /\ g.for # c \/ g.fstep # g.step
    /\ g.from # g.cluster => g.cluster = "Basic"
    /\ g.byId => g.from # g.cluster /\ Shares(g.attr, g.from, g.of)

(* What is taken is the value that was sent: no conversion on the way      *)
(* loses the sign or the upper bits of any value its declared type has.    *)
ValuesArriveWhole == \A c \in DOMAIN op : \A g \in got[c] : Own(g) => g.kept

(* An attribute that is asked for and answered is also taken, except for   *)
(* the product code, which is an octet string and looked at as a text, and *)
(* the two DRLC attributes.                                                *)
Untaken == {<<"Basic", "ProductCode">>, <<"DRLC", "StartRandomizeMinutes">>, <<"DRLC", "DurationRandomizeMinutes">>}
Conforming(f) == f.kind = "read" /\ f.for \in Callers /\ DOMAIN f.recs # {} /\ \A a \in DOMAIN f.recs : f.recs[a].ok
NothingAskedInVain ==
  [][\A c \in DOMAIN op, f \in air :
       (f \notin air' /\ Conforming(f) /\ f.for = c /\ f.step = at[c] /\ phase[c] = "wait" /\ phase'[c] # "wait")
         => \A a \in Step(c).ask : <<f.cluster, a>> \in Untaken
                                   \/ \E g \in got'[c] : g.step = at[c] /\ g.attr = a]_vars

(* A caller told that its write worked is told so by the device, unless    *)
(* another caller writes to a cluster its filter lets pass, the same or,   *)
(* for the Basic cluster, any: the answer names no request.                *)
AppliedUnlessContended ==
  \A c \in DOMAIN op : \A i \in 1..Last(c) :
    (op[c].steps[i].kind = "write" /\ (i < at[c] \/ phase[c] = "done") /\ i <= at[c] /\ i \notin failed[c] /\ 0 \notin failed[c])
      => \/ \E h \in heard : h.by = c /\ h.step = i /\ h.applied
         \/ \E h \in heard : h.by # c /\ h.kind = "write" /\ Admits(op[c].steps[i], h.cluster)

=============================================================================
