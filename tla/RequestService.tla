--------------------------- MODULE RequestService ---------------------------
(***************************************************************************)
(* What the ZNP client promises to a caller of Request or Reset, without   *)
(* goroutines, table and line: a request that is issued ends exactly once, *)
(* with an error or with a frame that the chip sent, that has the response *)
(* type of the request and that no other request was given.  It does NOT   *)
(* promise that the frame answers this request: the protocol carries no    *)
(* request identifier.                                                     *)
(***************************************************************************)
CONSTANTS
  Requests, Frames, MatcherOf, AnswerTo, Unsolicited,
  Rejections,   \* errors of a request that was never sent
  Errors,       \* errors of a request that was
  Empty

VARIABLES status, result, emitted

vars == <<status, result, emitted>>

Init ==
  /\ status = [r \in Requests |-> "idle"]
  /\ result = [r \in Requests |-> Empty]
  /\ emitted = {}

Reject(r, e) ==
  /\ status[r] = "idle"
  /\ status' = [status EXCEPT ![r] = "done"]
  /\ result' = [result EXCEPT ![r] = e]
  /\ UNCHANGED emitted

Issue(r) ==
  /\ status[r] = "idle"
  /\ status' = [status EXCEPT ![r] = "issued"]
  /\ UNCHANGED <<result, emitted>>

\* The chip answers only what was issued, and each request once.
Emit(f) ==
  /\ f \notin emitted
  /\ AnswerTo[f] # Unsolicited => status[AnswerTo[f]] # "idle"
  /\ emitted' = emitted \cup {f}
  /\ UNCHANGED <<status, result>>

Finish(r, x) ==
  /\ status[r] = "issued"
  /\ status' = [status EXCEPT ![r] = "done"]
  /\ result' = [result EXCEPT ![r] = x]
  /\ UNCHANGED emitted

Complete(r, f) ==
  /\ f \in emitted
  /\ MatcherOf[f] = MatcherOf[r]
  /\ \A q \in Requests : result[q] # f
  /\ Finish(r, f)

Next ==
  \/ \E r \in Requests :
       \/ Issue(r)
       \/ \E e \in Rejections : Reject(r, e)
       \/ \E e \in Errors : Finish(r, e)
       \/ \E f \in Frames : Complete(r, f)
  \/ \E f \in Frames : Emit(f)

Spec == Init /\ [][Next]_vars

=============================================================================
