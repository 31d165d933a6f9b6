------------------------------- MODULE ZdoTasks -------------------------------
(***************************************************************************)
(* What the adapter asks of devices with ZDO requests, as plans: sequences *)
(* of exchanges, where an answer adds exchanges to what is left            *)
(* (pkg/znp/zdo_device.go, pkg/adapter/interview.go, diagnostics.go,       *)
(* device.go, network.go).                                                 *)
(***************************************************************************)
EXTENDS Integers, Sequences

CONSTANTS Devs, Coordinator, Nobody,
          Network,      \* what each device has: see NetworkIsKnown
          Known,        \* the devices in the coordinator's address table, in order
          PageSize,     \* rows of a table in one frame, at most
          Width,        \* the values of a start index on the air: 256
          Retries       \* InterviewOptions.Retries

Tables == {"lqi", "rtg", "bindings"}

\* Of each table, the number of rows. The coordinator has one entry for a device.
ASSUME NetworkIsKnown ==
  /\ Coordinator \in Devs /\ Nobody \notin Devs /\ Known \in Seq(Devs \ {Coordinator})
  /\ \A i, k \in 1..Len(Known) : Known[i] = Known[k] => i = k
  /\ \A d \in Devs : /\ Network[d].eps \in Seq(1..255) /\ Network[d].basic \subseteq 1..255
                     /\ \A k \in Tables : Network[d][k] \in Nat
  /\ PageSize \in Nat \ {0} /\ Width \in Nat \ {0} /\ Retries \in Nat

(* Every device answers a request for its table of links or routes but an *)
(* end device.                                                            *)
Answers(d, kind) == Network[d].router \/ kind \notin {"lqi", "rtg"}
RowsOf(d, kind) == Network[d][kind]

(* An exchange: what is asked of whom, about what; how often it is tried    *)
(* again; and what a failure does: it is passed over, it ends what is asked *)
(* of that device, or it ends the call.                                     *)
X(kind, dst, arg, otherwise, retries) == [kind |-> kind, dst |-> dst, arg |-> arg, otherwise |-> otherwise, retries |-> retries]
Once(kind, dst) == X(kind, dst, 0, "abort", 0)
Skipped(x) == [x EXCEPT !.otherwise = "skip"]
May(x) == <<Skipped(x)>>
Again(x, otherwise) == [x EXCEPT !.otherwise = otherwise, !.retries = Retries]

(* Those that the coordinator answers itself, in its synchronous response. *)
Local == {"info", "extinfo", "devices", "permit", "startup", "scan"}
(* Those whose answer is compared with the address that was asked. *)
Checked == {"node", "simple"}

(******************************** requests ********************************)

IeeeAddrReq(d) == Once("ieee", d)
NodeDescReq(d) == Once("node", d)
ActiveEpReq(d) == Once("active", d)
SimpleDescReq(d, ep) == X("simple", d, ep, "abort", 0)
MgmtLqiReq(d, start) == X("lqi", d, start, "abort", 0)
MgmtRtgReq(d, start) == X("rtg", d, start, "abort", 0)
MgmtBindReq(d, start) == X("bindings", d, start, "abort", 0)
MgmtLeaveReq(d) == Once("leave", d)
BindReq(d) == Once("bind", d)
UnbindReq(d) == Once("unbind", d)
MgmtPermitJoinReq == Once("permit", Coordinator)
GetDeviceInfo == Once("info", Coordinator)
ExtNwkInfo == Once("extinfo", Coordinator)
StartupFromApp == Once("startup", Coordinator)
MgmtNwkUpdateReq == Once("scan", Coordinator)
GetDevices == Once("devices", Coordinator)
(* A table is read page by page: the first page asks for the next. *)
GetAllNeighbors(d) == MgmtLqiReq(d, 0)
GetAllRoutes(d) == MgmtRtgReq(d, 0)
GetAllBindings(d) == MgmtBindReq(d, 0)

(* What a caller may ask of one device, or of the coordinator. *)
Requests(d) ==
  {IeeeAddrReq(d), NodeDescReq(d), ActiveEpReq(d), GetAllNeighbors(d), GetAllRoutes(d), GetAllBindings(d), MgmtLeaveReq(d), BindReq(d), UnbindReq(d),
   MgmtPermitJoinReq, StartupFromApp, MgmtNwkUpdateReq} \cup {SimpleDescReq(d, ep) : ep \in 1..255}

(******************************** the tasks *******************************)

Interview(d, known) ==
  <<Again(IeeeAddrReq(d), IF known THEN "skip" ELSE "abort"), Again(NodeDescReq(d), "skip"), Again(ActiveEpReq(d), "stop")>>
(* One device after the other. *)
Interviews(devs) == [n \in 1..3 * Len(devs) |-> Interview(devs[(n + 2) \div 3], TRUE)[((n - 1) % 3) + 1]]
GetNetworkInfo == <<GetDeviceInfo, ExtNwkInfo>>
GetNetworkHealth == GetNetworkInfo \o <<GetDevices>>

Plan(j) ==
  CASE j.kind = "interview"    -> Interview(j.dev, FALSE)
    [] j.kind = "interviewAll" -> <<GetDevices>>
    [] j.kind = "capabilities" -> <<ActiveEpReq(j.dev)>>
    [] j.kind = "networkInfo"  -> GetNetworkInfo
    [] j.kind = "health"       -> GetNetworkHealth
    [] j.kind = "deviceHealth" -> <<GetDevices>>
    [] OTHER                   -> <<j.request>>             \* one exchange, or one table

(* The endpoint whose Basic cluster is read: 1 if it has it, else the last. *)
BasicEndpoint(described) ==
  LET with == {i \in 1..Len(described) : described[i].ep \in Network[described[i].dev].basic}
      ones == {i \in with : described[i].ep = 1}
  IN  IF with = {} THEN 0 ELSE IF ones # {} THEN 1 ELSE described[CHOOSE i \in with : \A k \in with : k <= i].ep

(* An interview asks for every endpoint's descriptor, then reads Basic; a list *)
(* of capabilities passes over the descriptors it does not get.                *)
AfterEndpoints(j, x, eps) ==
  LET descriptors(again) == [i \in 1..Len(eps) |-> [Skipped(SimpleDescReq(x.dst, eps[i])) EXCEPT !.retries = again]]
  IN  IF j.kind \in {"interview", "interviewAll"} THEN descriptors(Retries) \o May(Once("basic", x.dst))
      ELSE IF j.kind = "capabilities" THEN descriptors(0) ELSE <<>>

AfterDevices(j) ==
  CASE j.kind = "interviewAll" -> Interviews(Known)
    [] j.kind = "health" -> IF Known = <<>> THEN <<>>
                            ELSE May(GetAllNeighbors(Coordinator)) \o [i \in 1..Len(Known) |-> Skipped(GetAllNeighbors(Known[i]))]
    [] j.kind = "deviceHealth" -> (IF j.dev = Coordinator THEN May(GetDeviceInfo) ELSE <<>>)
                                  \o <<Skipped(GetAllNeighbors(j.dev)), Skipped(GetAllRoutes(j.dev))>>
    [] OTHER -> <<>>

(* Mutant: the loop over the pages ends when there are more rows than the table has. *)
NextPage_Beyond(x, count, total) ==
  IF count % Width > total THEN <<>> ELSE <<[x EXCEPT !.arg = count % Width]>>

(* Mutant: the last row that came is asked for again. *)
NextPage_Overlap(x, count, total) ==
  IF count % Width >= total THEN <<>> ELSE <<[x EXCEPT !.arg = IF count = 0 THEN 0 ELSE (count - 1) % Width]>>

(* The next page starts where the rows that came so far end, in eight bits. *)
NextPage(x, count, total) ==
  IF count % Width >= total THEN <<>> ELSE <<[x EXCEPT !.arg = count % Width]>>

(****************************** what is learnt ****************************)

Unknown == [ieee |-> Nobody, node |-> Nobody, active |-> <<>>, described |-> <<>>, basicRead |-> FALSE,
            lqi |-> <<>>, rtg |-> <<>>, bindings |-> <<>>, whole |-> {}, errors |-> 0]

(* A frame tells of the device that sent it. *)
Page(f) == [i \in 1..f.n |-> [dev |-> f.src, row |-> f.arg + i]]
Learn(x, f, g) ==
  CASE x.kind = "ieee"   -> [g EXCEPT !.ieee = f.src]
    [] x.kind = "node"   -> [g EXCEPT !.node = f.src]
    [] x.kind = "active" -> [g EXCEPT !.active = Network[f.src].eps]
    [] x.kind = "simple" -> [g EXCEPT !.described = Append(@, [dev |-> f.src, ep |-> f.arg])]
    [] x.kind \in Tables ->
         LET rows == g[x.kind] \o Page(f)
         IN  [g EXCEPT ![x.kind] = rows, !.whole = IF NextPage(x, Len(rows), RowsOf(f.src, x.kind)) = <<>> THEN @ \cup {x.kind} ELSE @]
    [] OTHER -> g
(* Mutant: an error that is passed over is not noted. *)
Miss_Silent(x, g) == IF x.kind \in Tables THEN [g EXCEPT ![x.kind] = <<>>] ELSE g
(* Without its last page a table is nothing. *)
Miss(x, g) == [IF x.kind \in Tables THEN [g EXCEPT ![x.kind] = <<>>] ELSE g EXCEPT !.errors = @ + 1]

(* What follows from the answer f, when g is known of the device. *)
More(j, x, f, g) ==
  CASE x.kind = "active" -> AfterEndpoints(j, x, Network[f.src].eps)
    [] x.kind \in Tables -> NextPage(x, Len(g[x.kind]), RowsOf(f.src, x.kind))
    [] x.kind = "devices" -> AfterDevices(j)
    [] x.kind = "info" /\ j.kind = "deviceHealth" -> May(ExtNwkInfo)
    [] OTHER -> <<>>

=============================================================================
