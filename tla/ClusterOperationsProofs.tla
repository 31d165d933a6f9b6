----------------------- MODULE ClusterOperationsProofs -----------------------
(***************************************************************************)
(* Proofs about operations that meet on the clusters of a device, for all  *)
(* operations of the shape OperationsAreSane, all callers, and any number  *)
(* of reports and of frames that arrive twice.                             *)
(***************************************************************************)
EXTENDS ClusterOperations, TLAPS

\* The state of the callers: who is in an exchange has an operation.
CallersOK ==
  /\ op \in Plans
  /\ phase \in [Callers -> {"ask", "wait", "done"}]
  /\ at \in [Callers -> Nat]
  /\ DOMAIN failed = Callers /\ DOMAIN got = Callers
  /\ \A c \in Callers : phase[c] # "done" => c \in DOMAIN op
  /\ \A c \in DOMAIN op : at[c] \in 1..Last(c)

\* A list of records answers an exchange of the caller it is for, and has the
\* records of all attributes that were asked for, or none.
AnswersRead(f) ==
  f.kind = "read" => /\ f.for \in DOMAIN op /\ f.step \in 1..Last(f.for)
                     /\ f.cluster = op[f.for].steps[f.step].cluster
                     /\ DOMAIN f.recs \in {{}, op[f.for].steps[f.step].ask}
\* The answer to a write that worked is on its way only after the device heard it.
AnswersWrite(f) ==
  f.kind = "write" /\ f.ok =>
    /\ f.for \in DOMAIN op /\ f.step \in 1..Last(f.for)
    /\ op[f.for].steps[f.step].kind = "write" /\ op[f.for].steps[f.step].cluster = f.cluster
    /\ \E h \in heard : h.by = f.for /\ h.step = f.step /\ h.kind = "write" /\ h.cluster = f.cluster /\ h.applied
FieldsOf(f) == {"kind", "cluster", "for", "step", "recs", "ok"} \subseteq DOMAIN f
AirOK == \A f \in air : FieldsOf(f) /\ AnswersRead(f) /\ AnswersWrite(f)

IInv == CallersOK /\ AirOK /\ TakesOnlyWhatItAsked /\ AppliedUnlessContended

-----------------------------------------------------------------------------
\* Who is in an exchange is in one of the exchanges of its operation.
LEMMA InExchange ==
  ASSUME CallersOK, NEW c \in Callers, phase[c] # "done"
  PROVE  /\ c \in DOMAIN op /\ at[c] \in 1..Last(c) /\ Last(c) \in Nat /\ at[c] \in Nat
         /\ Step(c) = op[c].steps[at[c]]
  BY OperationsAreSane DEF CallersOK, Last, Step

\* The end of an exchange leaves a caller in the next one, or done.
LEMMA FinishCallers ==
  ASSUME CallersOK, NEW c \in Callers, phase[c] # "done", op' = op, NEW ok, NEW taken, Finish(c, ok, taken)
  PROVE  CallersOK'
  <1>1. c \in DOMAIN op /\ at[c] \in 1..Last(c) /\ Last(c) \in Nat /\ at[c] \in Nat
    BY InExchange
  <1> DEFINE over == \/ at[c] = Last(c)
                     \/ ~ok /\ op[c].errors = "end"
                     \/ ok /\ op[c].errors = "instead"
  <1>2. /\ phase' = [phase EXCEPT ![c] = IF over THEN "done" ELSE "ask"]
        /\ at' = [at EXCEPT ![c] = IF over THEN @ ELSE @ + 1]
        /\ DOMAIN failed' = DOMAIN failed /\ DOMAIN got' = DOMAIN got
    BY DEF Finish
  <1>3. ~over => at[c] + 1 \in 1..Last(c)
    BY <1>1
  <1> HIDE DEF over
  <1>4. /\ phase' \in [Callers -> {"ask", "wait", "done"}] /\ at' \in [Callers -> Nat]
        /\ \A d \in Callers : phase'[d] # "done" => d \in DOMAIN op
        /\ \A d \in DOMAIN op : at'[d] \in 1..Last(d)
    BY <1>1, <1>2, <1>3 DEF CallersOK
  <1> QED BY <1>2, <1>4 DEF CallersOK, Last

\* It adds to what was taken, and to nobody else's.
Fine(c, g) ==
  ~Own(g) => /\ g.for # c \/ g.fstep # g.step
             /\ g.from # g.cluster => g.cluster = "Basic"
             /\ g.byId => g.from # g.cluster /\ Shares(g.attr, g.from, g.of)
Proper(c, taken) == \A g \in taken : Fine(c, g)
LEMMA FinishTakes ==
  ASSUME CallersOK, TakesOnlyWhatItAsked, NEW c \in Callers, op' = op, NEW ok, NEW taken, Finish(c, ok, taken), Proper(c, taken)
  PROVE  TakesOnlyWhatItAsked'
  <1>1. got' = [got EXCEPT ![c] = @ \cup taken]
    BY DEF Finish
  <1>2. \A d \in DOMAIN op : got'[d] = IF d = c THEN got[d] \cup taken ELSE got[d]
    BY <1>1, OperationsAreSane DEF CallersOK
  <1> QED BY <1>2 DEF TakesOnlyWhatItAsked, Proper, Fine

\* The device applied the write, or heard another caller's to a cluster whose
\* answers the filter of the write lets pass.
AppliedIn(H, c, i) ==
  \/ \E h \in H : h.by = c /\ h.step = i /\ h.applied
  \/ \E h \in H : h.by # c /\ h.kind = "write" /\ Admits(op[c].steps[i], h.cluster)
Claimed(c, i) ==
  /\ op[c].steps[i].kind = "write" /\ (i < at[c] \/ phase[c] = "done") /\ i <= at[c]
  /\ i \notin failed[c] /\ 0 \notin failed[c]

\* Nothing that was claimed is lost with what the device hears.
LEMMA ClaimsStay ==
  ASSUME AppliedUnlessContended, op' = op, heard \subseteq heard',
         \A c \in DOMAIN op : \A i \in 1..Last(c) : Claimed(c, i)' => Claimed(c, i) \/ AppliedIn(heard', c, i)
  PROVE  AppliedUnlessContended'
  <1>1. \A c \in DOMAIN op : \A i \in 1..Last(c) : Claimed(c, i) => AppliedIn(heard, c, i)
    BY DEF AppliedUnlessContended, Claimed, AppliedIn
  <1>2. \A c, i : AppliedIn(heard, c, i) => AppliedIn(heard', c, i)
    BY DEF AppliedIn
  <1>3. \A c \in DOMAIN op : \A i \in 1..Last(c) : Claimed(c, i)' => AppliedIn(heard', c, i)
    BY <1>1, <1>2
  <1> QED BY <1>3 DEF AppliedUnlessContended, Claimed, AppliedIn, Last

\* The end of an exchange claims that exchange and no other.
LEMMA FinishClaims ==
  ASSUME CallersOK, NEW c \in Callers, phase[c] # "done", op' = op, NEW ok, NEW taken, Finish(c, ok, taken),
         NEW d \in DOMAIN op, NEW i \in 1..Last(d), Claimed(d, i)', ~Claimed(d, i)
  PROVE  d = c /\ i = at[c] /\ ok /\ Step(c).kind = "write"
  <1>1. c \in DOMAIN op /\ at[c] \in 1..Last(c) /\ Last(c) \in Nat /\ at[c] \in Nat /\ Step(c) = op[c].steps[at[c]]
    BY InExchange
  <1>2. d \in Callers /\ at[d] \in Nat /\ Last(d) \in Nat
    BY OperationsAreSane DEF CallersOK, Last
  <1>3. /\ failed' = [failed EXCEPT ![c] = IF ok THEN failed[c] ELSE failed[c] \cup {at[c]}]
        /\ \/ phase' = [phase EXCEPT ![c] = "done"] /\ at' = at
           \/ phase' = [phase EXCEPT ![c] = "ask"] /\ at' = [at EXCEPT ![c] = @ + 1]
    BY <1>2 DEF Finish, CallersOK
  <1>4. d = c
    BY <1>2, <1>3 DEF Claimed, CallersOK
  <1>5. failed'[c] = IF ok THEN failed[c] ELSE failed[c] \cup {at[c]}
    BY <1>3 DEF CallersOK
  <1>6. /\ op[c].steps[i].kind = "write" /\ i \notin failed'[c] /\ 0 \notin failed'[c] /\ i <= at'[c]
        /\ i < at'[c] \/ phase'[c] = "done"
    BY <1>4 DEF Claimed
  <1>7. i = at[c]
    <2>1. i <= at[c] /\ ~(i < at[c])
      BY <1>1, <1>2, <1>3, <1>4, <1>5, <1>6 DEF Claimed, CallersOK
    <2> QED BY <1>1, <1>2, <2>1
  <1>8. ok
    BY <1>5, <1>6, <1>7
  <1> QED BY <1>1, <1>4, <1>6, <1>7, <1>8

LEMMA FinishApplied ==
  ASSUME CallersOK, AppliedUnlessContended, NEW c \in Callers, phase[c] # "done", op' = op, heard \subseteq heard',
         NEW ok, NEW taken, Finish(c, ok, taken),
         ok /\ Step(c).kind = "write" => AppliedIn(heard', c, at[c])
  PROVE  AppliedUnlessContended'
  <1>1. ASSUME NEW d \in DOMAIN op, NEW i \in 1..Last(d), Claimed(d, i)'
        PROVE  Claimed(d, i) \/ AppliedIn(heard', d, i)
    <2>1. CASE ~Claimed(d, i)
      <3>1. d = c /\ i = at[c] /\ ok /\ Step(c).kind = "write"
        BY <1>1, <2>1, FinishClaims
      <3> QED BY <3>1
    <2> QED BY <2>1
  <1> QED BY <1>1, ClaimsStay

-----------------------------------------------------------------------------
(***************************************************************************)
(* Frames                                                                  *)
(***************************************************************************)
\* What a device answers is for the exchange it answers: records to a read and
\* to nothing else, and the answer of a write to a write.
LEMMA AnswersFacts ==
  ASSUME NEW s, NEW c, NEW step, NEW f \in Answers(s, c, step)
  PROVE  /\ FieldsOf(f) /\ f.for = c /\ f.step = step /\ f.cluster = s.cluster
         /\ f.kind = "read" => s.kind = "read" /\ DOMAIN f.recs \in {{}, s.ask}
         /\ f.kind = "write" => s.kind = "write"
  <1> DEFINE g == [Frame(s.cluster, "default", 11, c) EXCEPT !.step = step]
             Fields == {"no", "cluster", "kind", "cmd", "for", "recs", "ok", "len", "step", "copy"}
             Good(h) == /\ FieldsOf(h) /\ h.for = c /\ h.step = step /\ h.cluster = s.cluster
                        /\ h.kind = "read" => s.kind = "read" /\ DOMAIN h.recs \in {{}, s.ask}
                        /\ h.kind = "write" => s.kind = "write"
  <1>1. /\ DOMAIN g = Fields
        /\ g.kind = "default" /\ g.for = c /\ g.step = step /\ g.cluster = s.cluster /\ DOMAIN g.recs = {}
    BY DEF Frame
  <1> HIDE DEF g
  <1>2. Good(g) /\ Good([g EXCEPT !.ok = FALSE])
    BY <1>1 DEF FieldsOf
  <1>3. \A recs : s.kind = "read" /\ DOMAIN recs \in {{}, s.ask} => Good(Listed(g, recs))
    BY <1>1 DEF FieldsOf, Listed
  <1>4. \A cmd, n, ok : Good(Owned(g, cmd, n, ok))
    BY <1>1 DEF FieldsOf, Owned
  <1>5. \A cmd, ok : \A kind \in {"write", "configure", "config"} : s.kind = kind => Good(Replied(g, kind, cmd, ok))
    BY <1>1 DEF FieldsOf, Replied
  <1>6. \/ f \in {g, [g EXCEPT !.ok = FALSE]}
        \/ s.kind = "read" /\ f \in ReadAnswers(g, s)
        \/ \E cmd : f \in OwnAnswers(g, cmd)
        \/ s.kind = "write" /\ f \in {Replied(g, "write", 4, ok) : ok \in BOOLEAN}
        \/ s.kind = "configure" /\ f \in {Replied(g, "configure", 7, ok) : ok \in BOOLEAN}
        \/ s.kind = "config" /\ f = Replied(g, "config", 9, TRUE)
    BY DEF Answers, g
  <1>7. ASSUME s.kind = "read", f \in ReadAnswers(g, s) PROVE Good(f)
    <2>1. \E recs : DOMAIN recs \in {{}, s.ask} /\ f = Listed(g, recs)
      <3>1. f = Listed(g, <<>>) \/ \E bad, high : f = Listed(g, Records(s.cluster, s.ask, bad, high))
        BY <1>7 DEF ReadAnswers
      <3>2. DOMAIN <<>> = {} /\ \A bad, high : DOMAIN Records(s.cluster, s.ask, bad, high) = s.ask
        BY DEF Records
      <3> QED BY <3>1, <3>2
    <2> QED BY <1>3, <1>7, <2>1
  <1>8. ASSUME NEW cmd, f \in OwnAnswers(g, cmd) PROVE Good(f)
    BY <1>4, <1>8 DEF OwnAnswers
  <1> HIDE DEF Good
  <1>9. Good(f)
    BY <1>2, <1>5, <1>6, <1>7, <1>8
  <1> QED BY <1>9 DEF Good

\* A frame that is on the way keeps what was true of it, whatever is heard after it.
LEMMA AirStays ==
  ASSUME AirOK, op' = op, heard \subseteq heard',
         \A f \in air' : f \in air \/ (FieldsOf(f) /\ AnswersRead(f) /\ AnswersWrite(f)')
  PROVE  AirOK'
  <1>1. ASSUME NEW f \in air' PROVE FieldsOf(f)' /\ AnswersRead(f)' /\ AnswersWrite(f)'
    <2>1. FieldsOf(f)' <=> FieldsOf(f)
      BY DEF FieldsOf
    <2>2. AnswersRead(f) => AnswersRead(f)'
      BY DEF AnswersRead, Last
    <2>3. AnswersWrite(f) => AnswersWrite(f)'
      BY DEF AnswersWrite, Last
    <2> QED BY <2>1, <2>2, <2>3 DEF AirOK
  <1> QED BY <1>1 DEF AirOK

-----------------------------------------------------------------------------
(***************************************************************************)
(* The steps                                                               *)
(***************************************************************************)
LEMMA InitIInv == Init => IInv
  <1> SUFFICES ASSUME Init PROVE IInv
    OBVIOUS
  <1>1. CallersOK
    BY OperationsAreSane DEF Init, CallersOK, Last
  <1>2. AirOK /\ TakesOnlyWhatItAsked
    BY OperationsAreSane DEF Init, AirOK, TakesOnlyWhatItAsked
  <1>3. AppliedUnlessContended
    <2>1. ASSUME NEW c \in DOMAIN op, NEW i \in 1..Last(c) PROVE ~(i < at[c] \/ phase[c] = "done")
      BY OperationsAreSane DEF Init, Last
    <2> QED BY <2>1 DEF AppliedUnlessContended
  <1> QED BY <1>1, <1>2, <1>3 DEF IInv

LEMMA RefuseIInv ==
  ASSUME IInv, NEW c \in Callers, Refuse(c)
  PROVE  IInv'
  <1>1. CallersOK'
    BY DEF IInv, CallersOK, Refuse, Last
  <1>2. AirOK'
    BY AirStays DEF IInv, Refuse
  <1>3. TakesOnlyWhatItAsked'
    BY DEF IInv, Refuse, TakesOnlyWhatItAsked
  <1>4. AppliedUnlessContended'
    <2>1. \A d \in DOMAIN op : \A i \in 1..Last(d) : Claimed(d, i)' => Claimed(d, i)
      BY OperationsAreSane DEF IInv, CallersOK, Refuse, Claimed
    <2> QED BY <2>1, ClaimsStay DEF IInv, Refuse
  <1> QED BY <1>1, <1>2, <1>3, <1>4 DEF IInv

LEMMA AskIInv ==
  ASSUME IInv, NEW c \in Callers, Ask(c)
  PROVE  IInv'
  <1> DEFINE s == Step(c)
  <1>1. PICK f \in Answers(s, c, at[c]) :
          /\ air' = air \cup {f}
          /\ heard' = IF s.kind = "write" THEN heard \cup {Hears(c, s, f.ok)} ELSE heard
    BY DEF Ask
  <1>2. /\ c \in DOMAIN op /\ at[c] \in 1..Last(c) /\ Last(c) \in Nat /\ s = op[c].steps[at[c]]
    BY InExchange DEF IInv, Ask
  <1>3. /\ FieldsOf(f) /\ f.for = c /\ f.step = at[c] /\ f.cluster = s.cluster
        /\ f.kind = "read" => s.kind = "read" /\ DOMAIN f.recs \in {{}, s.ask}
        /\ f.kind = "write" => s.kind = "write"
    BY <1>1, AnswersFacts
  <1>4. heard \subseteq heard' /\ phase[c] = "ask" /\ UNCHANGED <<op, at, failed, got>> /\ phase' = [phase EXCEPT ![c] = "wait"]
    BY <1>1 DEF Ask
  <1>5. CallersOK'
    BY <1>2, <1>4 DEF IInv, CallersOK, Last
  <1>6. AirOK'
    <2>1. AnswersRead(f)
      BY <1>2, <1>3 DEF AnswersRead
    <2>2. AnswersWrite(f)'
      <3>1. CASE f.kind = "write" /\ f.ok
        <4>1. Hears(c, s, f.ok) \in heard'
          BY <1>1, <1>3, <3>1
        <4>2. /\ Hears(c, s, f.ok).by = f.for /\ Hears(c, s, f.ok).step = f.step /\ Hears(c, s, f.ok).kind = "write"
              /\ Hears(c, s, f.ok).cluster = f.cluster /\ Hears(c, s, f.ok).applied
          BY <1>3, <3>1 DEF Hears
        <4>3. /\ f.for \in DOMAIN op' /\ f.step \in 1..Last(f.for)' /\ op'[f.for].steps[f.step].kind = "write"
              /\ op'[f.for].steps[f.step].cluster = f.cluster
          BY <1>2, <1>3, <1>4, <3>1 DEF Last
        <4> QED BY <4>1, <4>2, <4>3 DEF AnswersWrite
      <3>2. CASE ~(f.kind = "write" /\ f.ok)
        BY <3>2 DEF AnswersWrite
      <3> QED BY <3>1, <3>2
    <2> QED BY <1>1, <1>3, <1>4, <2>1, <2>2, AirStays DEF IInv
  <1>7. TakesOnlyWhatItAsked'
    BY <1>4 DEF IInv, TakesOnlyWhatItAsked
  <1>8. AppliedUnlessContended'
    <2>1. \A d \in DOMAIN op : \A i \in 1..Last(d) : Claimed(d, i)' => Claimed(d, i)
      BY <1>4, OperationsAreSane DEF IInv, CallersOK, Claimed
    <2> QED BY <1>4, <2>1, ClaimsStay DEF IInv
  <1> QED BY <1>5, <1>6, <1>7, <1>8 DEF IInv

\* An exchange that fails, or is a command that was delivered, takes and claims nothing.
LEMMA EndsEmpty ==
  ASSUME IInv, NEW c \in Callers, phase[c] # "done", NEW ok, Finish(c, ok, {}), op' = op, heard \subseteq heard',
         ok => Step(c).kind # "write" \/ AppliedIn(heard', c, at[c])
  PROVE  CallersOK' /\ TakesOnlyWhatItAsked' /\ AppliedUnlessContended'
  <1>1. Proper(c, {})
    BY DEF Proper
  <1> QED BY <1>1, FinishCallers, FinishTakes, FinishApplied DEF IInv

LEMMA SendCommandIInv ==
  ASSUME IInv, NEW c \in Callers, NEW len, SendCommand(c, len)
  PROVE  IInv'
  <1> DEFINE s == Step(c)
  <1>1. phase[c] # "done" /\ s.kind = "command" /\ op' = op
    BY DEF SendCommand
  <1>2. CASE Finish(c, FALSE, {}) /\ UNCHANGED <<air, heard, frames>>
    BY <1>1, <1>2, EndsEmpty, AirStays DEF IInv
  <1>3. ASSUME Finish(c, TRUE, {}), NEW f \in Answers(s, "nobody", 0), air' = air \cup {f}, heard \subseteq heard'
        PROVE  IInv'
    <2>1. FieldsOf(f) /\ f.kind # "read" /\ f.kind # "write"
      BY <1>1, AnswersFacts
    <2>2. AnswersRead(f) /\ AnswersWrite(f)'
      BY <2>1 DEF AnswersRead, AnswersWrite
    <2> QED BY <1>1, <1>3, <2>1, <2>2, EndsEmpty, AirStays DEF IInv
  <1> QED BY <1>2, <1>3 DEF SendCommand

LEMMA TimeoutIInv ==
  ASSUME IInv, NEW c \in Callers, Timeout(c)
  PROVE  IInv'
  <1>1. phase[c] # "done" /\ Finish(c, FALSE, {}) /\ UNCHANGED <<op, air, heard>>
    BY DEF Timeout
  <1> QED BY <1>1, EndsEmpty, AirStays DEF IInv

\* What a read takes: by identifiers, the value of the attribute itself, or, of
\* the Basic cluster, what another cluster has under its number; the first
\* record, unless the frame is its own answer, that of any.
Ends(c, taken) == Finish(c, TRUE, taken) \/ Finish(c, FALSE, taken)

\* Its own answer is of the cluster it asked, and no other cluster's frame is
\* given to a read of any cluster but Basic.
LEMMA ReadGiven ==
  ASSUME IInv, NEW c \in Callers, phase[c] # "done", Step(c).kind = "read", NEW f \in air, f.kind = "read",
         Admits(Step(c), f.cluster)
  PROVE  /\ f.for = c /\ f.step = at[c] => f.cluster = Step(c).cluster /\ DOMAIN f.recs \in {{}, Step(c).ask}
         /\ f.cluster # Step(c).cluster => Step(c).cluster = "Basic"
         /\ DOMAIN Step(c).takes \subseteq Step(c).ask
         /\ Step(c).byId \/ \E a \in DOMAIN Step(c).takes : Step(c).ask = {a}
  <1>1. /\ c \in DOMAIN op /\ at[c] \in 1..Last(c) /\ Step(c) = op[c].steps[at[c]]
    BY InExchange DEF IInv
  <1>2. /\ DOMAIN Step(c).takes \subseteq Step(c).ask
        /\ Step(c).byId \/ \E a \in DOMAIN Step(c).takes : Step(c).ask = {a}
        /\ Step(c).cluster # "any"
    BY <1>1, OperationsAreSane DEF IInv, CallersOK, Last
  <1>3. f.for = c /\ f.step = at[c] => f.cluster = Step(c).cluster /\ DOMAIN f.recs \in {{}, Step(c).ask}
    BY <1>1 DEF IInv, AirOK, AnswersRead
  <1>4. f.cluster # Step(c).cluster => Step(c).cluster = "Basic"
    BY <1>2 DEF Admits
  <1> QED BY <1>2, <1>3, <1>4

LEMMA ReadTakes ==
  ASSUME IInv, NEW c \in Callers, phase[c] # "done", Step(c).kind = "read", NEW f \in air, AnswerToRead(c, Step(c), f),
         Admits(Step(c), f.cluster)
  PROVE  \E taken : Ends(c, taken) /\ Proper(c, taken)
  <1> DEFINE s == Step(c)
  <1>1. f.kind = "read" =>
          /\ f.for = c /\ f.step = at[c] => f.cluster = s.cluster /\ DOMAIN f.recs \in {{}, s.ask}
          /\ f.cluster # s.cluster => s.cluster = "Basic"
          /\ s.byId \/ \E a \in DOMAIN s.takes : s.ask = {a}
          /\ DOMAIN s.takes \subseteq s.ask
    BY ReadGiven
  <1>2. \A a, b : /\ Took(c, s, f, a, b).of = b /\ Took(c, s, f, a, b).attr = a /\ Took(c, s, f, a, b).byId = s.byId
                  /\ Took(c, s, f, a, b).for = f.for /\ Took(c, s, f, a, b).fstep = f.step
                  /\ Took(c, s, f, a, b).step = at[c]
                  /\ Took(c, s, f, a, b).cluster = s.cluster /\ Took(c, s, f, a, b).from = f.cluster
    BY DEF Took
  <1> HIDE DEF s
  <1>3. CASE f.kind # "read"
    <2>1. Finish(c, FALSE, {})
      BY <1>3 DEF AnswerToRead, s
    <2> WITNESS {}
    <2> QED BY <2>1 DEF Ends, Proper
  <1>4. CASE f.kind = "read" /\ s.byId
    <2> DEFINE taken == {Took(c, s, f, x[1], x[2]) :
                           x \in {y \in (DOMAIN s.takes) \X (DOMAIN f.recs) :
                                    Matches(s, y[1], f, y[2]) /\ Takes(s, y[1], f.recs[y[2]])}}
    <2>1. Finish(c, TRUE, taken)
      BY <1>4 DEF AnswerToRead, s
    <2>2. \A g \in taken : \E a, b : g = Took(c, s, f, a, b) /\ Matches(s, a, f, b)
      OBVIOUS
    <2> HIDE DEF taken
    <2>3. ASSUME NEW a, NEW b, Matches(s, a, f, b) PROVE Fine(c, Took(c, s, f, a, b))
      <3>1. CASE s.cluster = f.cluster
        BY <1>2, <2>3, <3>1 DEF Matches, Fine, Own
      <3>2. CASE s.cluster # f.cluster
        <4>1. s.cluster = "Basic" /\ Shares(a, f.cluster, b) /\ (f.for # c \/ f.step # at[c])
          BY <1>1, <1>4, <2>3, <3>2 DEF Matches
        <4> QED BY <1>2, <3>2, <4>1 DEF Fine
      <3> QED BY <3>1, <3>2
    <2>4. \A g \in taken : Fine(c, g)
      BY <2>2, <2>3
    <2> WITNESS taken
    <2> QED BY <2>1, <2>4 DEF Ends, Proper
  <1>5. CASE f.kind = "read" /\ ~s.byId
    <2>1. PICK a : a = (CHOOSE x \in DOMAIN s.takes : TRUE)
      OBVIOUS
    <2>2. s.ask = {a}
      BY <1>1, <1>5, <2>1
    <2>3. \/ Ends(c, {})
          \/ \E b \in DOMAIN f.recs : Ends(c, {Took(c, s, f, a, b)})
      BY <1>5, <2>1 DEF AnswerToRead, s, Ends
    <2>4. ASSUME NEW b \in DOMAIN f.recs PROVE Proper(c, {Took(c, s, f, a, b)})
      <3>1. f.for = c /\ f.step = at[c] => a = b /\ f.cluster = s.cluster
        BY <1>1, <1>5, <2>2, <2>4
      <3>2. Fine(c, Took(c, s, f, a, b))
        BY <1>1, <1>2, <1>5, <3>1 DEF Fine, Own
      <3> QED BY <3>2 DEF Proper
    <2>5. CASE Ends(c, {})
      <3> WITNESS {}
      <3> QED BY <2>5 DEF Proper
    <2>6. ASSUME NEW b \in DOMAIN f.recs, Ends(c, {Took(c, s, f, a, b)})
          PROVE  \E taken : Ends(c, taken) /\ Proper(c, taken)
      <3> WITNESS {Took(c, s, f, a, b)}
      <3> QED BY <2>4, <2>6
    <2> QED BY <2>3, <2>5, <2>6
  <1> QED BY <1>3, <1>4, <1>5

\* A caller that is told its write worked was told so by the device, which heard
\* its own request, or another's to a cluster the filter lets pass.
LEMMA WriteHeard ==
  ASSUME IInv, NEW c \in Callers, phase[c] # "done", Step(c).kind = "write", NEW f \in air,
         Admits(Step(c), f.cluster), Accepts(Step(c), f)
  PROVE  AppliedIn(heard, c, at[c])
  <1>1. c \in DOMAIN op /\ at[c] \in 1..Last(c) /\ Step(c) = op[c].steps[at[c]]
    BY InExchange DEF IInv
  <1>2. f.kind = "write" /\ f.ok
    BY DEF Accepts
  <1>3. /\ f.for \in DOMAIN op /\ f.step \in 1..Last(f.for)
        /\ op[f.for].steps[f.step].kind = "write" /\ op[f.for].steps[f.step].cluster = f.cluster
    BY <1>2 DEF IInv, AirOK, AnswersWrite
  <1>4. PICK h \in heard : h.by = f.for /\ h.step = f.step /\ h.kind = "write" /\ h.cluster = f.cluster /\ h.applied
    BY <1>2 DEF IInv, AirOK, AnswersWrite
  <1>5. CASE f.for = c
    <2>1. /\ op[c].steps[at[c]].kind = "write" /\ op[c].steps[f.step].kind = "write"
          /\ Admits(op[c].steps[at[c]], op[c].steps[f.step].cluster)
      BY <1>1, <1>3, <1>5
    <2>2. f.step = at[c]
      BY <1>1, <1>3, <1>5, <2>1, OperationsAreSane DEF IInv, CallersOK, Last
    <2> QED BY <1>4, <1>5, <2>2 DEF AppliedIn
  <1>6. CASE f.for # c
    BY <1>1, <1>4, <1>6 DEF AppliedIn
  <1> QED BY <1>5, <1>6

LEMMA ReceiveIInv ==
  ASSUME IInv, NEW c \in Callers, NEW f \in air, Receive(c, f)
  PROVE  IInv'
  <1> DEFINE s == Step(c)
  <1>1. /\ phase[c] # "done" /\ Admits(s, f.cluster) /\ air' = air \ {f} /\ UNCHANGED <<op, heard>>
    BY DEF Receive
  <1>2. AirOK'
    BY <1>1, AirStays DEF IInv
  <1>3. CASE s.kind = "read"
    <2>1. AnswerToRead(c, s, f)
      BY <1>3 DEF Receive
    <2>2. PICK taken : Ends(c, taken) /\ Proper(c, taken)
      BY <1>1, <1>3, <2>1, ReadTakes
    <2>3. s.kind # "write"
      BY <1>3
    <2> QED BY <1>1, <1>2, <2>2, <2>3, FinishCallers, FinishTakes, FinishApplied DEF IInv, Ends
  <1>4. CASE s.kind = "listen"
    <2>1. Listened(c, s, f)
      BY <1>4 DEF Receive
    <2>2. CASE UNCHANGED <<failed, got, phase, at>>
      <3>1. CallersOK' /\ TakesOnlyWhatItAsked'
        BY <1>1, <2>2 DEF IInv, CallersOK, TakesOnlyWhatItAsked, Last
      <3>2. AppliedUnlessContended'
        BY <1>1, <2>2, ClaimsStay DEF IInv, Claimed
      <3> QED BY <1>2, <3>1, <3>2 DEF IInv
    <2> DEFINE g == [step |-> 1, cluster |-> f.cluster, attr |-> "frame", from |-> f.cluster, of |-> "frame", for |-> f.for,
                     fstep |-> f.step, byId |-> TRUE, no |-> f.no, kept |-> TRUE]
    <2>3. Own(g)
      BY DEF Own
    <2>4. Finish(c, TRUE, {g}) \/ UNCHANGED <<failed, got, phase, at>>
      BY <2>1 DEF Listened
    <2> HIDE DEF g
    <2>5. CASE Finish(c, TRUE, {g})
      <3>1. s.kind # "write"
        BY <1>4
      <3>2. Proper(c, {g})
        BY <2>3 DEF Proper, Fine
      <3>3. CallersOK' /\ TakesOnlyWhatItAsked'
        BY <1>1, <2>5, <3>2, FinishCallers, FinishTakes DEF IInv
      <3>4. AppliedUnlessContended'
        BY <1>1, <2>5, <3>1, FinishApplied DEF IInv, s
      <3> QED BY <1>2, <3>3, <3>4 DEF IInv
    <2> QED BY <2>2, <2>4, <2>5
  <1>5. CASE s.kind \notin {"read", "listen"}
    <2>1. Finish(c, Accepts(s, f), {})
      BY <1>5 DEF Receive
    <2>2. Accepts(s, f) => s.kind # "write" \/ AppliedIn(heard', c, at[c])
      BY <1>1, WriteHeard
    <2> QED BY <1>1, <1>2, <2>1, <2>2, EndsEmpty DEF IInv
  <1> QED BY <1>3, <1>4, <1>5

\* What changes no caller and only adds or removes frames that answer nothing.
LEMMA OthersIInv ==
  ASSUME IInv, UNCHANGED <<op, at, failed, got>>, heard \subseteq heard',
         \A c \in Callers : phase'[c] = phase[c] \/ (phase[c] = "ask" /\ phase'[c] = "wait"),
         phase' \in [Callers -> {"ask", "wait", "done"}],
         \A f \in air' : f \in air \/ (FieldsOf(f) /\ AnswersRead(f) /\ AnswersWrite(f)')
  PROVE  IInv'
  <1>1. CallersOK'
    BY DEF IInv, CallersOK, Last
  <1>2. AirOK'
    BY AirStays DEF IInv
  <1>3. TakesOnlyWhatItAsked'
    BY DEF IInv, TakesOnlyWhatItAsked
  <1>4. \A d \in DOMAIN op : \A i \in 1..Last(d) : Claimed(d, i)' => Claimed(d, i)
    BY OperationsAreSane DEF IInv, CallersOK, Claimed
  <1>5. AppliedUnlessContended'
    BY <1>4, ClaimsStay DEF IInv
  <1> QED BY <1>1, <1>2, <1>3, <1>5 DEF IInv

LEMMA NextIInv == IInv /\ [Next]_vars => IInv'
  <1> SUFFICES ASSUME IInv, [Next]_vars PROVE IInv'
    OBVIOUS
  <1>1. ASSUME NEW c \in Callers, BeginListening(c) PROVE IInv'
    BY <1>1, OthersIInv DEF IInv, CallersOK, BeginListening
  <1>2. ASSUME NEW f \in air, Drop(f) PROVE IInv'
    BY <1>2, OthersIInv DEF IInv, CallersOK, Drop
  <1>3. ASSUME NEW f \in air, Repeat(f) PROVE IInv'
    <2> DEFINE g == [f EXCEPT !.copy = TRUE]
    <2>1. /\ FieldsOf(f) /\ AnswersRead(f) /\ AnswersWrite(f)
      BY DEF IInv, AirOK
    <2>2. /\ FieldsOf(g) /\ g.kind = f.kind /\ g.cluster = f.cluster /\ g.for = f.for /\ g.step = f.step
          /\ g.recs = f.recs /\ g.ok = f.ok
      BY <2>1 DEF FieldsOf
    <2>3. air' = air \cup {g} /\ UNCHANGED <<op, at, phase, failed, got, heard>>
      BY <1>3 DEF Repeat
    <2> HIDE DEF g
    <2>4. AnswersRead(g) /\ AnswersWrite(g)'
      BY <2>1, <2>2, <2>3 DEF AnswersRead, AnswersWrite, Last
    <2> QED BY <2>2, <2>3, <2>4, OthersIInv DEF IInv, CallersOK
  <1>4. ASSUME NEW r \in Reports, Report(r) PROVE IInv'
    <2>1. PICK f : /\ f = IF r[1] = "IASZone" THEN Frame(r[1], "alarm", 0, "nobody") ELSE Frame(r[1], "report", 10, "nobody")
                   /\ air' = air \cup {f}
      BY <1>4 DEF Report
    <2>2. FieldsOf(f) /\ f.kind # "read" /\ f.kind # "write"
      BY <2>1 DEF FieldsOf, Frame
    <2>3. AnswersRead(f) /\ AnswersWrite(f)'
      BY <2>2 DEF AnswersRead, AnswersWrite
    <2>4. UNCHANGED <<op, at, phase, failed, got>> /\ heard \subseteq heard'
      BY <1>4 DEF Report
    <2> QED BY <2>1, <2>2, <2>3, <2>4, OthersIInv DEF IInv, CallersOK
  <1>5. CASE UNCHANGED vars
    BY <1>5, OthersIInv DEF IInv, CallersOK, vars
  <1> QED
    BY <1>1, <1>2, <1>3, <1>4, <1>5, RefuseIInv, AskIInv, TimeoutIInv, SendCommandIInv, ReceiveIInv DEF Next, Done

LEMMA Invariant == Spec => []IInv
  <1>1. Init => IInv
    BY InitIInv
  <1>2. IInv /\ [Next]_vars => IInv'
    BY NextIInv
  <1> QED BY <1>1, <1>2, PTL DEF Spec

\* Whatever operations run at the same time on a device, and whichever answers
\* come late, twice or to another caller, no value is taken for another
\* attribute's, except, from an answer to another question, by a read of one
\* attribute, or by a read of the Basic cluster from another cluster's
\* attribute of the same number.
THEOREM NoValueOfAnotherAttribute == Spec => []TakesOnlyWhatItAsked
  <1>1. IInv => TakesOnlyWhatItAsked
    BY DEF IInv
  <1> QED BY <1>1, Invariant, PTL

\* A caller that is told its write worked is right, as long as nobody else
\* writes to the same cluster of the device, or, for a write to the Basic
\* cluster, to any.
THEOREM WritesWereApplied == Spec => []AppliedUnlessContended
  <1>1. IInv => AppliedUnlessContended
    BY DEF IInv
  <1> QED BY <1>1, Invariant, PTL
=============================================================================
