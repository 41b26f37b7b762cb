--------------------------- MODULE MCDaemonProofs ---------------------------
(***************************************************************************)
(* Proofs about the daemon's three modules, for any number of callers,     *)
(* processes and clients: DaemonService, DaemonProcess, LiveUpdates.       *)
(***************************************************************************)
EXTENDS MCDaemon, SequenceTheorems, FiniteSetTheorems, TLAPS

-----------------------------------------------------------------------------
(* One daemon that serves. *)

(* The queue of the channel is a function on the places of its requests. *)
LEMMA Queued ==
    ASSUME TypeOK
    PROVE  /\ Len(backlog) \in Nat /\ DOMAIN backlog = 1 .. Len(backlog)
           /\ \A i \in DOMAIN backlog : backlog[i] \in RequestType
BY LenProperties, ElementOfSeq DEF TypeOK

LEMMA InitInv == Init => IInv
<1> SUFFICES ASSUME Init PROVE IInv
  OBVIOUS
<1> USE ServiceAssumption DEF Init
<1>0. PICK cmd \in [Clients -> CommandKinds], first \in {"pipe", "http"}, token \in BOOLEAN :
         cl = [c \in Clients |-> Command(cmd[c], first, token)]
  OBVIOUS
<1>1. TypeOK
  <2>1. cl \in [Clients -> CallerType]
    BY <1>0 DEF CallerType, Command, CommandKinds
  <2>2. runs \in [Clients -> [daemon : Nat, local : Nat]]
    OBVIOUS
  <2>3. backlog \in Seq(RequestType) /\ requests \subseteq RequestType /\ ~HasMain /\ ~HasIpc
    BY DEF HasMain, HasIpc
  <2>4. /\ main \in [pc : {"loop", "wait", "handle", "stop", "join", "gone"},
                   req : RequestType \cup {NoRequest}]
        /\ ipc \in [pc : {"check", "poll", "accepted", "read", "wait", "handle", "gone"},
                  req : RequestType \cup {NoRequest}]
    OBVIOUS
  <2>5. lock \in {"nobody", "main", "ipc"} /\ active = Nobody /\ cut = Nobody
    OBVIOUS
  <2> HIDE DEF Init
  <2> QED BY <2>1, <2>2, <2>3, <2>4, <2>5 DEF TypeOK
<1>2. MethodInv /\ ForcedExactlyInside
  BY DEF MethodInv, ForcedExactlyInside
<1>3. ASSUME NEW c \in Clients
      PROVE  /\ cl[c].at \in {"ping", "call"} /\ cl[c].conn = "none" /\ cl[c].told = "nothing"
             /\ runs[c].daemon = 0 /\ runs[c].local = 0
  BY <1>0 DEF Command
<1>4. ASSUME NEW c \in Clients PROVE OneCall(c) /\ Fate(c)
  <2>1. ~AtIpc(c) /\ ~AtMain(c) /\ ~HasIpc /\ ~HasMain
    BY DEF AtIpc, AtMain, HasIpc, HasMain
  <2> QED BY <1>3, <2>1 DEF OneCall, Fate
<1>5. CallInv /\ OnceUnlessLost
  BY <1>3, <1>4 DEF CallInv, OnceUnlessLost
<1> QED BY <1>1, <1>2, <1>5 DEF IInv

(* Whatever goes away, a call that is on its way stays where it was. *)
LEMMA Kept ==
    ASSUME NEW d \in Clients, OneCall(d), cl'[d] = cl[d], runs'[d].daemon = runs[d].daemon,
           requests' \subseteq requests,
           \A i \in DOMAIN backlog' : i \in DOMAIN backlog /\ backlog'[i] = backlog[i],
           HasMain' => HasMain /\ main'.req = main.req,
           HasIpc' => HasIpc /\ ipc'.req = ipc.req
    PROVE  OneCall(d)'
<1>1. Via(d)' = Via(d) /\ Request(d)' = Request(d)
  BY DEF Via, Order, Request
<1>2. (AtIpc(d)' => AtIpc(d)) /\ (AtMain(d)' => AtMain(d))
  BY DEF AtIpc, AtMain, Called
<1> QED BY <1>1, <1>2 DEF OneCall, Called

(* A client whose call is nowhere. *)
LEMMA Nowhere ==
    ASSUME NEW c \in Clients, ~AtIpc(c)', ~AtMain(c)', runs'[c].daemon \in {0, 1},
           (cl'[c].conn = "none" /\ cl'[c].at # "done") \/ cl'[c].at = "ping" => runs'[c].daemon = 0
    PROVE  OneCall(c)'
BY DEF OneCall, AtIpc, AtMain

LEMMA ConnectInv == ASSUME IInv, NEW c \in Clients, Connect(c) PROVE IInv'
<1> USE ServiceAssumption DEF IInv, server
<1>0. Request(c) \in RequestType /\ cl \in [Clients -> CallerType]
  BY DEF Request, RequestType, TypeOK, CallerType
<1>1. /\ cl'[c] = [cl[c] EXCEPT !.conn = "open"] /\ \A d \in Clients \ {c} : cl'[d] = cl[d]
      /\ cl' \in [Clients -> CallerType]
  BY <1>0 DEF Connect, CallerType
<1>2. TypeOK'
  <2>1. backlog' \in Seq(RequestType) /\ requests' \subseteq RequestType
    <3>1. CASE Via(c) = "pipe"
      <4>1. backlog' = Append(backlog, Request(c)) /\ requests' = requests
        BY <3>1 DEF Connect
      <4> QED BY <1>0, <4>1, AppendProperties DEF TypeOK
    <3>2. CASE Via(c) # "pipe"
      BY <1>0, <3>2 DEF TypeOK, Connect
    <3> QED BY <3>1, <3>2
  <2> QED BY <1>1, <2>1 DEF TypeOK, Connect, HasMain, HasIpc
<1>3. MethodInv'
  BY DEF MethodInv, Connect
<1>4. ForcedExactlyInside'
  BY <1>1 DEF ForcedExactlyInside, IsExec, TypeOK, MethodInv, Connect, HasMain, HasIpc, RequestType
<1>5. ASSUME NEW d \in Clients PROVE Fate(d)'
  BY <1>1 DEF Fate, CallInv, CallerType, Connect
<1>6. ASSUME NEW d \in Clients, ~cl'[d].lost PROVE OneCall(d)'
  <2> DEFINE n == Len(backlog)
  <2>1. runs' = runs /\ ipc' = ipc /\ main' = main /\ Via(d)' = Via(d) /\ Request(d)' = Request(d)
    BY <1>1 DEF Connect, Via, Order, Request, CallerType
  <2>2. ~cl[d].lost
    BY <1>1, <1>6 DEF CallerType
  <2>3. OneCall(d)
    BY <2>2 DEF CallInv
  <2>4. /\ n \in Nat /\ DOMAIN backlog = 1 .. n
        /\ \A i \in 1 .. n : backlog[i] \in RequestType
    BY Queued
  <2>5. CASE Via(c) = "pipe"
    <3>1. backlog' = Append(backlog, Request(c)) /\ requests' = requests
      BY <2>5 DEF Connect
    <3>2. DOMAIN backlog' = 1 .. n + 1 /\ backlog'[n + 1] = Request(c)
          /\ \A i \in 1 .. n : backlog'[i] = backlog[i]
      BY <1>0, <3>1, AppendProperties, LenProperties DEF TypeOK
    <3> HIDE DEF n
    <3>3. CASE d # c
      <4>1. /\ \A i \in 1 .. n + 1 : Called(d, backlog'[i]) => i \in 1 .. n /\ Called(d, backlog[i])
            /\ \A i \in 1 .. n : Called(d, backlog[i]) => Called(d, backlog'[i])
        BY <2>4, <3>2, <3>3 DEF Called, Request
      <4>2. AtIpc(d)' <=> AtIpc(d)
        BY <2>1, <2>4, <3>2, <4>1 DEF AtIpc, HasIpc, Called
      <4>3. AtMain(d)' <=> AtMain(d)
        BY <2>1, <3>1 DEF AtMain, HasMain, Called
      <4>4. cl'[d] = cl[d]
        BY <1>1, <3>3
      <4> QED BY <2>1, <2>3, <2>4, <3>1, <3>2, <4>1, <4>2, <4>3, <4>4
          DEF OneCall, HasMain, HasIpc, Called
    <3>4. CASE d = c
      <4>1. cl[c].conn = "none" /\ cl[c].at # "done" /\ cl'[c].conn = "open" /\ cl'[c].at = cl[c].at
        BY <1>0, <1>1 DEF Connect, CallerType
      <4>2. ~AtIpc(c) /\ ~AtMain(c) /\ runs[c].daemon = 0
        BY <2>3, <3>4, <4>1 DEF OneCall
      <4>3. \A i \in 1 .. n + 1 : Called(c, backlog'[i]) => i = n + 1 /\ cl[c].at = "call"
        BY <2>4, <3>2, <4>2 DEF Called, Request, AtIpc
      <4>4. ~AtMain(c)'
        BY <2>1, <3>1, <4>2 DEF AtMain, HasMain, Called
      <4>5. ~(HasIpc /\ Called(c, ipc.req))'
        BY <2>1, <4>2 DEF AtIpc, HasIpc, Called
      <4> QED BY <2>1, <2>5, <3>2, <3>4, <4>1, <4>2, <4>3, <4>4, <4>5 DEF OneCall, AtIpc, AtMain
    <3> QED BY <3>3, <3>4
  <2>6. CASE Via(c) # "pipe"
    <3>1. backlog' = backlog /\ requests' = requests \cup {Request(c)}
      BY <2>6 DEF Connect
    <3>2. CASE d # c
      <4>1. \A r \in requests' : Called(d, r) => r \in requests
        BY <3>1, <3>2 DEF Called, Request
      <4>2. AtIpc(d)' <=> AtIpc(d)
        BY <2>1, <3>1 DEF AtIpc, HasIpc, Called
      <4>3. AtMain(d)' <=> AtMain(d)
        BY <2>1, <3>1, <4>1 DEF AtMain, HasMain, Called
      <4>4. cl'[d] = cl[d]
        BY <1>1, <3>2
      <4> QED BY <2>1, <2>3, <3>1, <4>1, <4>2, <4>3, <4>4 DEF OneCall, HasMain, HasIpc, Called
    <3>3. CASE d = c
      <4>1. cl[c].conn = "none" /\ cl[c].at # "done" /\ cl'[c].conn = "open" /\ cl'[c].at = cl[c].at
        BY <1>0, <1>1 DEF Connect, CallerType
      <4>2. ~AtIpc(c) /\ ~AtMain(c) /\ runs[c].daemon = 0
        BY <2>3, <3>3, <4>1 DEF OneCall
      <4>3. \A r \in requests' : Called(c, r) => r = Request(c) /\ cl[c].at = "call"
        BY <3>1, <4>2 DEF Called, Request, AtMain
      <4>4. ~AtIpc(c)'
        BY <2>1, <3>1, <4>2 DEF AtIpc, HasIpc, Called
      <4>5. ~(HasMain /\ Called(c, main.req))'
        BY <2>1, <4>2 DEF AtMain, HasMain, Called
      <4>6. Via(c) = "http"
        BY <2>6 DEF Via, Order, TypeOK, CallerType
      <4> QED BY <2>1, <3>3, <4>1, <4>2, <4>3, <4>4, <4>5, <4>6 DEF OneCall, AtIpc, AtMain
    <3> QED BY <3>2, <3>3
  <2> QED BY <2>5, <2>6
<1>7. OnceUnlessLost'
  BY <1>1 DEF OnceUnlessLost, TypeOK, Connect
<1> QED BY <1>2, <1>3, <1>4, <1>5, <1>6, <1>7 DEF IInv, CallInv

(* The record of a caller that goes on to the next transport. *)
Retry(r, lost) == [r EXCEPT !.via = 2, !.conn = "none", !.lost = lost]

LEMMA Retried ==
    ASSUME NEW r \in CallerType, NEW lost \in BOOLEAN
    PROVE  /\ Retry(r, lost) \in CallerType /\ Retry(r, lost).cmd = r.cmd
           /\ Retry(r, lost).lost = lost /\ Retry(r, lost).conn = "none"
           /\ Retry(r, lost).at = r.at /\ Retry(r, lost).told = r.told
<1>1. /\ Retry(r, lost).cmd = r.cmd
      /\ Retry(r, lost).lost = lost /\ Retry(r, lost).conn = "none"
      /\ Retry(r, lost).at = r.at /\ Retry(r, lost).told = r.told
  BY DEF CallerType, Retry
<1>2. Retry(r, lost) \in CallerType
  BY DEF CallerType, Retry
<1> QED BY <1>1, <1>2

(* The record of a caller that has its answer, or none to expect. *)
Finish(r, lost, told) == [[r EXCEPT !.at = "done", !.conn = "none", !.told = told]
                             EXCEPT !.lost = lost]

LEMMA FinishRecord ==
    ASSUME NEW r \in CallerType, NEW lost \in BOOLEAN,
           NEW told \in {"nothing", "success", "failure", "local"}
    PROVE  /\ Finish(r, lost, told) \in CallerType /\ Finish(r, lost, told).cmd = r.cmd
           /\ Finish(r, lost, told).lost = lost /\ Finish(r, lost, told).conn = "none"
           /\ Finish(r, lost, told).at = "done" /\ Finish(r, lost, told).told = told
<1>1. /\ Finish(r, lost, told).cmd = r.cmd
      /\ Finish(r, lost, told).lost = lost /\ Finish(r, lost, told).conn = "none"
      /\ Finish(r, lost, told).at = "done" /\ Finish(r, lost, told).told = told
  BY DEF CallerType, Finish
<1>2. Finish(r, lost, told) \in CallerType
  BY DEF CallerType, Finish
<1> QED BY <1>1, <1>2

(* The record of a caller whose ping was answered. *)
Calling(r) == [r EXCEPT !.at = "call", !.via = 1, !.conn = "none"]

LEMMA CallingRecord ==
    ASSUME NEW r \in CallerType
    PROVE  /\ Calling(r) \in CallerType /\ Calling(r).cmd = r.cmd /\ Calling(r).lost = r.lost
           /\ Calling(r).conn = "none" /\ Calling(r).at = "call" /\ Calling(r).told = r.told
<1>1. /\ Calling(r).cmd = r.cmd /\ Calling(r).lost = r.lost
      /\ Calling(r).conn = "none" /\ Calling(r).at = "call" /\ Calling(r).told = r.told
  BY DEF CallerType, Calling
<1>2. Calling(r) \in CallerType
  BY DEF CallerType, Calling
<1> QED BY <1>1, <1>2

(* The record of a caller that has the answer it reports. *)
Report(r, told) == [r EXCEPT !.at = "done", !.conn = "none", !.told = told]

LEMMA ReportRecord ==
    ASSUME NEW r \in CallerType, NEW told \in {"nothing", "success", "failure", "local"}
    PROVE  /\ Report(r, told) \in CallerType /\ Report(r, told).cmd = r.cmd
           /\ Report(r, told).lost = r.lost /\ Report(r, told).conn = "none"
           /\ Report(r, told).at = "done" /\ Report(r, told).told = told
<1>1. /\ Report(r, told).cmd = r.cmd
      /\ Report(r, told).lost = r.lost /\ Report(r, told).conn = "none"
      /\ Report(r, told).at = "done" /\ Report(r, told).told = told
  BY DEF CallerType, Report
<1>2. Report(r, told) \in CallerType
  BY DEF CallerType, Report
<1> QED BY <1>1, <1>2

LEMMA FailInv == ASSUME IInv, NEW c \in Clients, Fail(c) PROVE IInv'
<1> USE ServiceAssumption DEF IInv, server
<1>0. cl \in [Clients -> CallerType] /\ runs \in [Clients -> [daemon : Nat, local : Nat]]
  BY DEF TypeOK
<1>1. /\ UNCHANGED <<backlog, requests, server>>
      /\ cl[c].at # "done" /\ cl[c].conn \in {"none", "open"}
  BY <1>0 DEF Fail, Expired
<1>2. \/ /\ runs' = runs
         /\ cl' = [cl EXCEPT ![c].via = 2, ![c].conn = "none",
                      ![c].lost = @ \/ (cl[c].conn = "open" /\ cl[c].at = "call")]
      \/ Unavailable(c)
  BY DEF Fail
<1>3. /\ cl' \in [Clients -> CallerType] /\ runs' \in [Clients -> [daemon : Nat, local : Nat]]
      /\ \A d \in Clients \ {c} : cl'[d] = cl[d] /\ runs'[d] = runs[d]
      /\ cl'[c].cmd = cl[c].cmd
      /\ cl'[c].lost = (cl[c].lost \/ (cl[c].conn = "open" /\ cl[c].at = "call"))
      /\ runs'[c].daemon = runs[c].daemon /\ cl'[c].conn = "none"
      /\ \/ cl'[c].at = cl[c].at /\ runs' = runs /\ cl'[c].told = cl[c].told
         \/ /\ cl'[c].at = "done" /\ cl'[c].told \in {"local", "failure"}
            /\ runs'[c].local = IF cl[c].cmd = "add" THEN runs[c].local + 1 ELSE runs[c].local
  <2>1. CASE ~Unavailable(c)
    <3> DEFINE lost == cl[c].lost \/ (cl[c].conn = "open" /\ cl[c].at = "call")
               new == Retry(cl[c], lost)
    <3>1. lost \in BOOLEAN
      BY <1>0 DEF CallerType
    <3>2. cl' = [cl EXCEPT ![c] = new] /\ runs' = runs
      BY <1>0, <1>2, <2>1 DEF Retry
    <3> HIDE DEF lost
    <3>3. /\ new \in CallerType /\ new.cmd = cl[c].cmd /\ new.lost = lost /\ new.conn = "none"
          /\ new.at = cl[c].at /\ new.told = cl[c].told
      <4>1. cl[c] \in CallerType
        BY <1>0
      <4> QED BY <3>1, <4>1, Retried
    <3> HIDE DEF new
    <3>4. cl' \in [Clients -> CallerType] /\ cl'[c] = new /\ \A d \in Clients \ {c} : cl'[d] = cl[d]
      BY <1>0, <3>2, <3>3
    <3> QED BY <1>0, <3>2, <3>3, <3>4 DEF lost
  <2>2. CASE Unavailable(c)
    <3> DEFINE lost == cl[c].lost \/ (cl[c].at = "call" /\ cl[c].conn = "open")
               told == IF cl[c].cmd = "add" THEN "local" ELSE "failure"
    <3>1. /\ cl' = [cl EXCEPT ![c] = [[cl[c] EXCEPT !.at = "done", !.conn = "none", !.told = told]
                                       EXCEPT !.lost = lost]]
          /\ runs' = IF cl[c].cmd = "add" THEN [runs EXCEPT ![c].local = @ + 1] ELSE runs
      BY <2>2 DEF Unavailable, End
    <3>2. lost \in BOOLEAN /\ told \in {"local", "failure"}
      BY <1>0 DEF CallerType
    <3> HIDE DEF lost, told
    <3>3. /\ cl' \in [Clients -> CallerType]
          /\ \A d \in Clients \ {c} : cl'[d] = cl[d]
          /\ cl'[c].cmd = cl[c].cmd /\ cl'[c].lost = lost /\ cl'[c].conn = "none"
          /\ cl'[c].at = "done" /\ cl'[c].told = told
      <4> DEFINE new == Finish(cl[c], lost, told)
      <4>1. /\ new \in CallerType /\ new.cmd = cl[c].cmd /\ new.lost = lost /\ new.conn = "none"
            /\ new.at = "done" /\ new.told = told
        BY <1>0, <3>2, FinishRecord
      <4>2. cl' = [cl EXCEPT ![c] = new]
        BY <3>1 DEF Finish
      <4> HIDE DEF new
      <4> QED BY <1>0, <4>1, <4>2
    <3>4. /\ runs' \in [Clients -> [daemon : Nat, local : Nat]]
          /\ \A d \in Clients \ {c} : runs'[d] = runs[d]
          /\ runs'[c].daemon = runs[c].daemon
          /\ runs'[c].local = IF cl[c].cmd = "add" THEN runs[c].local + 1 ELSE runs[c].local
      BY <1>0, <3>1
    <3> QED BY <3>2, <3>3, <3>4 DEF lost
  <2> QED BY <2>1, <2>2
<1>4. TypeOK'
  BY <1>1, <1>3 DEF TypeOK, HasMain, HasIpc
<1>5. MethodInv'
  BY <1>1 DEF MethodInv
<1>6. ForcedExactlyInside'
  BY <1>1, <1>3 DEF ForcedExactlyInside, IsExec, TypeOK, HasMain, HasIpc, RequestType
<1>7. ASSUME NEW d \in Clients, ~cl'[d].lost PROVE OneCall(d)'
  <2>1. CASE d # c
    BY <1>1, <1>3, <1>7, <2>1, Kept DEF CallInv, HasMain, HasIpc
  <2>2. CASE d = c
    <3>1. ~cl[c].lost /\ (cl[c].conn = "none" \/ cl[c].at = "ping") /\ OneCall(c)
      BY <1>0, <1>1, <1>3, <1>7, <2>2 DEF CallerType, CallInv
    <3>2. ~AtIpc(c) /\ ~AtMain(c) /\ runs'[c].daemon = 0
      BY <1>1, <1>3, <3>1 DEF OneCall
    <3>3. ~AtIpc(c)' /\ ~AtMain(c)'
      BY <1>1, <3>2 DEF AtIpc, AtMain, HasMain, HasIpc, Called
    <3> QED BY <2>2, <3>2, <3>3, Nowhere
  <2> QED BY <2>1, <2>2
<1>8. ASSUME NEW d \in Clients PROVE Fate(d)'
  BY <1>0, <1>1, <1>3 DEF Fate, CallInv
<1>9. OnceUnlessLost'
  <2>1. ASSUME NEW d \in Clients, d # c
        PROVE  /\ ~cl'[d].lost => runs'[d].daemon + runs'[d].local <= 1
               /\ cl'[d].told = "success" => runs'[d].daemon >= 1 /\ runs'[d].local = 0
    BY <1>3, <2>1 DEF OnceUnlessLost
  <2>2. cl'[c].told # "success"
    BY <1>1, <1>3 DEF CallInv, Fate
  <2>3. ~cl'[c].lost => runs'[c].daemon + runs'[c].local <= 1
    <3>1. ~cl'[c].lost => runs[c].daemon = 0
      BY <1>0, <1>1, <1>3 DEF CallerType, CallInv, OneCall
    <3> QED BY <1>0, <1>1, <1>3, <1>8, <3>1 DEF Fate
  <2> QED BY <2>1, <2>2, <2>3 DEF OnceUnlessLost
<1> QED BY <1>4, <1>5, <1>6, <1>7, <1>8, <1>9 DEF CallInv

LEMMA AnsweredInv == ASSUME IInv, NEW c \in Clients, Answered(c) PROVE IInv'
<1> USE ServiceAssumption DEF IInv, server
<1>0. cl \in [Clients -> CallerType] /\ Fate(c)
  BY DEF TypeOK, CallInv
<1>1. UNCHANGED <<backlog, requests, server>> /\ cl[c].conn = "answered"
  BY DEF Answered
<1>2. PICK told \in {"success", "failure"} :
        \/ /\ cl[c].at = "ping" /\ runs' = runs
           /\ cl' = [cl EXCEPT ![c].at = "call", ![c].via = 1, ![c].conn = "none"]
        \/ /\ cl[c].at = "call" /\ runs' = runs
           /\ told = "success" => cl[c].answer = "success"
           /\ cl' = [cl EXCEPT ![c] = [@ EXCEPT !.at = "done", !.conn = "none", !.told = told]]
  <2>1. CASE cl[c].at = "ping" \/ (cl[c].at = "call" /\ ~TransportFailed(cl[c].answer))
    BY <2>1 DEF Answered, End
  <2>2. CASE cl[c].at = "call" /\ cl[c].answer = "error"
    <3>1. cl[c].cmd # "add" /\ cl[c].conn # "open" /\ Unavailable(c)
      BY <1>0, <1>1, <2>2 DEF Fate, Answered, TransportFailed
    <3>2. /\ cl' = [cl EXCEPT ![c] = [End(c, "failure") EXCEPT !.lost = cl[c].lost]]
          /\ runs' = runs
      BY <1>0, <3>1 DEF Unavailable, CallerType
    <3>3. [End(c, "failure") EXCEPT !.lost = cl[c].lost] = End(c, "failure")
      BY <1>0 DEF End, CallerType
    <3> QED BY <2>2, <3>2, <3>3 DEF End
  <2> QED BY <2>1, <2>2 DEF Answered, TransportFailed
<1>3. PICK new \in CallerType :
        /\ cl' = [cl EXCEPT ![c] = new]
        /\ new.cmd = cl[c].cmd /\ new.lost = cl[c].lost /\ new.conn = "none"
        /\ \/ cl[c].at = "ping" /\ new.at = "call" /\ new.told = cl[c].told
           \/ /\ cl[c].at = "call" /\ new.at = "done" /\ new.told = told
              /\ told = "success" => cl[c].answer = "success"
  <2>1. CASE cl[c].at = "ping"
    <3> DEFINE new == Calling(cl[c])
    <3>1. /\ new \in CallerType /\ new.cmd = cl[c].cmd /\ new.lost = cl[c].lost
          /\ new.conn = "none" /\ new.at = "call" /\ new.told = cl[c].told
      <4>1. cl[c] \in CallerType
        BY <1>0
      <4> QED BY <4>1, CallingRecord
    <3>2. cl' = [cl EXCEPT ![c] = new]
      BY <1>0, <1>2, <2>1 DEF Calling
    <3> HIDE DEF new
    <3> QED BY <2>1, <3>1, <3>2
  <2>2. CASE cl[c].at # "ping"
    <3> DEFINE new == Report(cl[c], told)
    <3>1. /\ new \in CallerType /\ new.cmd = cl[c].cmd /\ new.lost = cl[c].lost
          /\ new.conn = "none" /\ new.at = "done" /\ new.told = told
      <4>1. cl[c] \in CallerType
        BY <1>0
      <4> QED BY <4>1, ReportRecord
    <3>2. cl' = [cl EXCEPT ![c] = new]
      BY <1>0, <1>2, <2>2 DEF Report
    <3> HIDE DEF new
    <3> QED BY <1>2, <2>2, <3>1, <3>2
  <2> QED BY <2>1, <2>2
<1>4. /\ cl' \in [Clients -> CallerType] /\ \A d \in Clients \ {c} : cl'[d] = cl[d]
      /\ cl'[c] = new
  BY <1>0, <1>3
<1>5. runs' = runs
  BY <1>2
<1>6. TypeOK'
  BY <1>1, <1>4, <1>5 DEF TypeOK, HasMain, HasIpc
<1>7. MethodInv'
  BY <1>1 DEF MethodInv
<1>8. ForcedExactlyInside'
  BY <1>1, <1>3, <1>4 DEF ForcedExactlyInside, IsExec, TypeOK, HasMain, HasIpc, RequestType
<1>9. ASSUME NEW d \in Clients, ~cl'[d].lost PROVE OneCall(d)'
  <2>1. CASE d # c
    BY <1>1, <1>4, <1>5, <1>9, <2>1, Kept DEF CallInv, HasMain, HasIpc
  <2>2. CASE d = c
    <3>1. OneCall(c)
      BY <1>3, <1>4, <1>9, <2>2 DEF CallInv
    <3>2. ~AtIpc(c) /\ ~AtMain(c)
      BY <1>1, <3>1 DEF OneCall
    <3>3. ~AtIpc(c)' /\ ~AtMain(c)'
      BY <1>1, <3>2 DEF AtIpc, AtMain, HasMain, HasIpc, Called
    <3>4. runs'[c].daemon \in {0, 1} /\ (cl'[c].at # "done" => runs'[c].daemon = 0)
      BY <1>3, <1>4, <1>5, <3>1 DEF OneCall, TypeOK
    <3>5. cl'[c].at # "ping"
      BY <1>3, <1>4
    <3> QED BY <2>2, <3>3, <3>4, <3>5, Nowhere
  <2> QED BY <2>1, <2>2
<1>10. ASSUME NEW d \in Clients PROVE Fate(d)'
  BY <1>0, <1>3, <1>4, <1>5 DEF Fate, CallInv
<1>11. OnceUnlessLost'
  BY <1>0, <1>1, <1>3, <1>4, <1>5 DEF OnceUnlessLost, Fate
<1> QED BY <1>6, <1>7, <1>8, <1>9, <1>10, <1>11 DEF CallInv

---------------------------------------------------------------------------
(* Steps of the threads that change neither a caller nor what it has had
   executed, and lose a request at most. *)
LEMMA CallsKept ==
    ASSUME CallInv, OnceUnlessLost, cl' = cl, runs' = runs, requests' \subseteq requests,
           \A i \in DOMAIN backlog' : i \in DOMAIN backlog /\ backlog'[i] = backlog[i],
           HasMain' => HasMain /\ main'.req = main.req,
           HasIpc' => HasIpc /\ ipc'.req = ipc.req
    PROVE  CallInv' /\ OnceUnlessLost'
<1>1. ASSUME NEW d \in Clients, ~cl'[d].lost PROVE OneCall(d)'
  <2>1. OneCall(d)
    BY <1>1 DEF CallInv
  <2> QED BY <2>1, Kept
<1>2. ASSUME NEW d \in Clients PROVE Fate(d)'
  BY DEF CallInv, Fate
<1>3. OnceUnlessLost'
  BY DEF OnceUnlessLost
<1> QED BY <1>1, <1>2, <1>3 DEF CallInv

LEMMA MainLocksInv == ASSUME IInv, MainLocks PROVE IInv'
<1> USE ServiceAssumption DEF IInv, MainLocks, Lock
<1>1. TypeOK'
  BY DEF TypeOK, HasMain, HasIpc
<1>2. MethodInv'
  BY DEF TypeOK, MethodInv
<1>3. ForcedExactlyInside'
  BY DEF ForcedExactlyInside, MethodInv, TypeOK, IsExec
<1>4. CallInv' /\ OnceUnlessLost'
  BY CallsKept DEF HasMain, HasIpc, TypeOK
<1> QED BY <1>1, <1>2, <1>3, <1>4

LEMMA IpcLocksInv == ASSUME IInv, IpcLocks PROVE IInv'
<1> USE ServiceAssumption DEF IInv, IpcLocks, Lock
<1>1. TypeOK'
  BY DEF TypeOK, HasMain, HasIpc
<1>2. MethodInv'
  BY DEF TypeOK, MethodInv
<1>3. ForcedExactlyInside'
  BY DEF ForcedExactlyInside, MethodInv, TypeOK, IsExec
<1>4. CallInv' /\ OnceUnlessLost'
  BY CallsKept DEF HasMain, HasIpc, TypeOK
<1> QED BY <1>1, <1>2, <1>3, <1>4

LEMMA ShutdownStepsInv ==
    ASSUME IInv, Shutdown \/ LeaveLoop \/ StopIpc \/ Join PROVE IInv'
<1> USE ServiceAssumption DEF IInv, Shutdown, LeaveLoop, StopIpc, Join
<1>1. TypeOK'
  BY DEF TypeOK, HasMain, HasIpc
<1>2. MethodInv'
  BY DEF TypeOK, MethodInv
<1>3. ForcedExactlyInside'
  BY DEF ForcedExactlyInside, TypeOK, IsExec
<1>4. /\ cl' = cl /\ runs' = runs /\ backlog' = backlog /\ ipc' = ipc
      /\ requests' \subseteq requests
      /\ HasMain' => HasMain /\ main'.req = main.req
  BY DEF HasMain, TypeOK
<1>5. CallInv' /\ OnceUnlessLost'
  BY <1>4, CallsKept DEF HasIpc
<1> QED BY <1>1, <1>2, <1>3, <1>5

LEMMA CheckInv == ASSUME IInv, Check PROVE IInv'
<1> USE ServiceAssumption DEF IInv
<1>1. /\ UNCHANGED <<cl, requests, main, lock, running, stop, active, cut, forced, runs>>
      /\ ipc.pc = "check" /\ ipc' = [ipc EXCEPT !.pc = IF stop THEN "gone" ELSE "poll"]
      /\ backlog' = backlog \/ backlog' = <<>>
  BY DEF Check
<1>2. ~HasIpc /\ ~HasIpc' /\ ipc'.pc # "handle"
  <2>1. ipc'.pc \in {"gone", "poll"}
    <3>1. ipc \in [pc : {"check", "poll", "accepted", "read", "wait", "handle", "gone"},
                   req : RequestType \cup {NoRequest}]
      BY DEF TypeOK
    <3> QED BY <1>1, <3>1
  <2> QED BY <1>1, <2>1 DEF HasIpc
<1>3. backlog' \in Seq(RequestType)
  <2>1. backlog \in Seq(RequestType)
    BY DEF TypeOK
  <2> QED BY <1>1, <2>1, EmptySeq
<1>4. ipc' \in [pc : {"check", "poll", "accepted", "read", "wait", "handle", "gone"},
                req : RequestType \cup {NoRequest}]
  <2>1. (IF stop THEN "gone" ELSE "poll") \in {"gone", "poll"}
    OBVIOUS
  <2> QED BY <1>1, <2>1 DEF TypeOK
<1>5. TypeOK'
  BY <1>1, <1>2, <1>3, <1>4 DEF TypeOK, HasMain
<1>6. MethodInv'
  BY <1>1 DEF TypeOK, MethodInv
<1>7. ForcedExactlyInside'
  BY <1>1, <1>2 DEF ForcedExactlyInside, IsExec
<1>8. \A i \in DOMAIN backlog' : i \in DOMAIN backlog /\ backlog'[i] = backlog[i]
  BY <1>1
<1>9. CallInv' /\ OnceUnlessLost'
  BY <1>1, <1>2, <1>8, CallsKept DEF HasMain
<1> QED BY <1>5, <1>6, <1>7, <1>9

LEMMA NoteReadInv == ASSUME IInv, Note \/ Read PROVE IInv'
<1> USE ServiceAssumption DEF IInv
<1>1. /\ UNCHANGED <<cl, backlog, requests, main, lock, running, stop, cut, forced, runs>>
      /\ ipc.pc \in {"accepted", "read"} /\ HasIpc
      /\ \/ ipc' = [ipc EXCEPT !.pc = "read"] /\ active' = ipc.req.c
         \/ ipc' = [ipc EXCEPT !.pc = "wait"] /\ active' = active
         \/ ipc' = [pc |-> "check", req |-> NoRequest] /\ active' = Nobody
  BY DEF Note, Read, Closed, HasIpc
<1>2. /\ ipc' \in [pc : {"check", "poll", "accepted", "read", "wait", "handle", "gone"},
                   req : RequestType \cup {NoRequest}]
      /\ HasIpc' => ipc'.req = ipc.req
      /\ ipc'.pc \notin {"handle", "gone"}
  BY <1>1 DEF TypeOK, HasIpc
<1>3. active' \in Clients \cup {Nobody}
  BY <1>1 DEF TypeOK, RequestType
<1>4. TypeOK'
  BY <1>1, <1>2, <1>3 DEF TypeOK, HasMain
<1>5. MethodInv'
  BY <1>1, <1>2 DEF TypeOK, MethodInv
<1>6. ForcedExactlyInside'
  BY <1>1, <1>2 DEF ForcedExactlyInside, IsExec
<1>7. CallInv' /\ OnceUnlessLost'
  BY <1>1, <1>2, CallsKept DEF HasMain
<1> QED BY <1>4, <1>5, <1>6, <1>7

(* The IPC thread takes the first request of its queue. *)
LEMMA AcceptInv == ASSUME IInv, Accept PROVE IInv'
<1> USE ServiceAssumption DEF IInv
<1> DEFINE n == Len(backlog)
<1>0. /\ n \in Nat /\ DOMAIN backlog = 1 .. n
      /\ \A i \in 1 .. n : backlog[i] \in RequestType
  BY Queued
<1>1. CASE backlog = <<>>
  <2> USE <1>1 DEF Accept
  <2>1. TypeOK'
    BY DEF TypeOK, HasMain, HasIpc
  <2>2. MethodInv' /\ ForcedExactlyInside'
    BY DEF TypeOK, MethodInv, ForcedExactlyInside, IsExec
  <2>3. cl' = cl /\ runs' = runs /\ requests' = requests /\ main' = main /\ backlog' = backlog
    OBVIOUS
  <2>4. ~HasIpc'
    BY DEF HasIpc, TypeOK
  <2>5. CallInv' /\ OnceUnlessLost'
    BY <2>3, <2>4, CallsKept DEF HasMain
  <2> QED BY <2>1, <2>2, <2>5
<1>2. CASE backlog # <<>>
  <2>1. /\ backlog' \in Seq(RequestType) /\ DOMAIN backlog' = 1 .. n - 1 /\ n >= 1
        /\ \A i \in 1 .. n - 1 : backlog'[i] = backlog[i + 1]
        /\ Head(backlog) = backlog[1]
    <3>1. backlog \in Seq(RequestType) /\ backlog' = Tail(backlog)
      BY <1>2 DEF Accept, TypeOK
    <3>2. /\ Tail(backlog) \in Seq(RequestType) /\ Len(Tail(backlog)) = n - 1
          /\ \A i \in 1 .. Len(Tail(backlog)) : Tail(backlog)[i] = backlog[i + 1]
      BY <1>2, <3>1, HeadTailProperties
    <3>3. DOMAIN Tail(backlog) = 1 .. Len(Tail(backlog)) /\ n >= 1
      BY <1>2, <3>1, <3>2, LenProperties, EmptySeq
    <3>4. Head(backlog) = backlog[1]
      BY <1>2, <3>1
    <3> HIDE DEF n
    <3> QED BY <3>1, <3>2, <3>3, <3>4
  <2>2. /\ UNCHANGED <<cl, requests, main, lock, running, stop, active, cut, forced, runs>>
        /\ ipc.pc = "poll" /\ ipc' = [pc |-> "accepted", req |-> backlog[1]]
    BY <1>2, <2>1 DEF Accept
  <2>3. ~HasIpc /\ HasIpc' /\ ipc'.req = backlog[1]
    BY <2>2 DEF HasIpc
  <2> HIDE DEF n
  <2>4. TypeOK'
    BY <1>0, <2>1, <2>2, <2>3 DEF TypeOK, HasMain
  <2>5. MethodInv' /\ ForcedExactlyInside'
    BY <2>2 DEF TypeOK, MethodInv, ForcedExactlyInside, IsExec
  <2>6. ASSUME NEW d \in Clients, ~cl'[d].lost PROVE OneCall(d)'
    <3>1. OneCall(d)
      BY <2>2, <2>6 DEF CallInv
    <3>2. Via(d)' = Via(d) /\ Request(d)' = Request(d)
      BY <2>2 DEF Via, Order, Request
    <3>3. \A i \in 1 .. n - 1 : i + 1 \in 1 .. n /\ (Called(d, backlog'[i]) <=> Called(d, backlog[i + 1]))
      BY <1>0, <2>1 DEF Called
    <3>4. AtIpc(d)' => AtIpc(d)
      <4>1. AtIpc(d)' => (\E i \in 1 .. n - 1 : Called(d, backlog'[i])) \/ Called(d, backlog[1])
        BY <2>1, <2>3 DEF AtIpc, Called
      <4>2. 1 \in DOMAIN backlog
        BY <1>0, <2>1
      <4> QED BY <1>0, <3>3, <4>1, <4>2 DEF AtIpc
    <3>5. AtMain(d)' <=> AtMain(d)
      BY <2>2 DEF AtMain, HasMain, Called
    <3>6. \A i, j \in DOMAIN backlog' : Called(d, backlog'[i]) /\ Called(d, backlog'[j]) => i = j
      BY <1>0, <2>1, <3>1, <3>3 DEF OneCall
    <3>7. Called(d, ipc'.req) => \A i \in DOMAIN backlog' : ~Called(d, backlog'[i])
      BY <1>0, <2>1, <2>3, <3>1, <3>3 DEF OneCall
    <3> QED BY <2>2, <3>1, <3>2, <3>4, <3>5, <3>6, <3>7 DEF OneCall, HasMain, Called
  <2>7. ASSUME NEW d \in Clients PROVE Fate(d)'
    BY <2>2 DEF CallInv, Fate
  <2>8. OnceUnlessLost'
    BY <2>2 DEF OnceUnlessLost
  <2> QED BY <2>4, <2>5, <2>6, <2>7, <2>8 DEF CallInv
<1> QED BY <1>1, <1>2

(* The record of a caller that has its answer. *)
Replied(r, answer) == [r EXCEPT !.conn = "answered", !.answer = answer]

LEMMA RepliedIs ==
    ASSUME NEW r \in CallerType, NEW answer \in {"success", "failure", "error", "denied"}
    PROVE  /\ Replied(r, answer) \in CallerType
           /\ Replied(r, answer).conn = "answered" /\ Replied(r, answer).answer = answer
           /\ Replied(r, answer).cmd = r.cmd /\ Replied(r, answer).first = r.first
           /\ Replied(r, answer).via = r.via /\ Replied(r, answer).at = r.at
           /\ Replied(r, answer).lost = r.lost /\ Replied(r, answer).told = r.told
<1>1. /\ Replied(r, answer).conn = "answered" /\ Replied(r, answer).answer = answer
      /\ Replied(r, answer).cmd = r.cmd /\ Replied(r, answer).first = r.first
      /\ Replied(r, answer).via = r.via /\ Replied(r, answer).at = r.at
      /\ Replied(r, answer).lost = r.lost /\ Replied(r, answer).told = r.told
  BY DEF CallerType, Replied
<1>2. Replied(r, answer) \in CallerType
  BY DEF CallerType, Replied
<1> QED BY <1>1, <1>2

(* What an answer to an open connection changes. *)
LEMMA AnswerIs ==
    ASSUME TypeOK, NEW r \in RequestType, Open(r),
           NEW answer \in {"success", "failure", "error", "denied"}, Answer(r, answer)
    PROVE  /\ cl' \in [Clients -> CallerType] /\ cl'[r.c] = Replied(cl[r.c], answer)
           /\ \A d \in Clients \ {r.c} : cl'[d] = cl[d]
<1>1. cl \in [Clients -> CallerType] /\ r.c \in Clients
  BY DEF TypeOK, RequestType
<1>2. Replied(cl[r.c], answer) \in CallerType
  BY <1>1, RepliedIs
<1>3. cl' = [cl EXCEPT ![r.c] = Replied(cl[r.c], answer)]
  BY <1>1 DEF Answer, Replied
<1> QED BY <1>1, <1>2, <1>3

(* A request is looked at by the main thread. *)
LEMMA PollInv == ASSUME IInv, Poll PROVE IInv'
<1> USE ServiceAssumption DEF IInv
<1>0. PICK r \in requests :
        /\ requests' = requests \ {r}
        /\ \/ Answer(r, "denied") /\ UNCHANGED main
           \/ main' = [pc |-> "wait", req |-> r] /\ UNCHANGED cl
           \/ UNCHANGED <<main, cl>>
  BY DEF Poll
<1>1. /\ UNCHANGED <<backlog, ipc, lock, running, stop, active, cut, forced, runs>>
      /\ main.pc = "loop" /\ ~HasMain
  BY DEF Poll, HasMain
<1>2. r \in RequestType /\ cl \in [Clients -> CallerType]
  BY DEF TypeOK
<1>3. CASE Answer(r, "denied") /\ Open(r) /\ UNCHANGED main
  <2> DEFINE c == r.c
  <2>1. c \in Clients /\ Request(c) = r /\ cl[c].conn = "open"
    BY <1>2, <1>3 DEF RequestType, Open
  <2> DEFINE new == Replied(cl[c], "denied")
  <2>3. /\ new.cmd = cl[c].cmd /\ new.lost = cl[c].lost /\ new.conn = "answered"
        /\ new.at = cl[c].at /\ new.told = cl[c].told /\ new.answer = "denied"
    BY <1>2, <2>1, RepliedIs
  <2>5. cl' \in [Clients -> CallerType] /\ cl'[c] = new /\ \A d \in Clients \ {c} : cl'[d] = cl[d]
    BY <1>2, <1>3, AnswerIs
  <2> HIDE DEF new, c
  <2>6. TypeOK'
    BY <1>0, <1>1, <1>3, <2>5 DEF TypeOK, HasMain, HasIpc
  <2>7. MethodInv'
    BY <1>1, <1>3 DEF MethodInv
  <2>8. ForcedExactlyInside'
    BY <1>1, <1>3, <2>3, <2>5 DEF ForcedExactlyInside, IsExec, TypeOK, RequestType, HasIpc
  <2>9. ASSUME NEW d \in Clients, ~cl'[d].lost PROVE OneCall(d)'
    <3>0. OneCall(d)
      BY <2>3, <2>5, <2>9 DEF CallInv
    <3>1. CASE d # c
      BY <1>0, <1>1, <1>3, <2>5, <3>0, <3>1, Kept DEF HasMain, HasIpc
    <3>2. CASE d = c
      <4>1. cl[c].at = r.at /\ r.c = c
        BY <2>1 DEF Request, c
      <4>2. r.at = "call" => AtMain(c)
        BY <4>1 DEF AtMain, Called
      <4>3. ~AtIpc(c) /\ \A q \in requests : Called(c, q) => q = r
        BY <1>1, <2>1, <3>0, <3>2, <4>1, <4>2 DEF OneCall, AtMain, AtIpc
      <4>4. ~AtIpc(c)' /\ ~AtMain(c)'
        BY <1>0, <1>1, <1>3, <4>3 DEF AtIpc, AtMain, HasIpc, HasMain, Called
      <4>5. runs'[c].daemon \in {0, 1} /\ (cl'[c].at = "ping" => runs'[c].daemon = 0)
        BY <1>1, <2>1, <2>3, <2>5, <3>0, <3>2 DEF OneCall, TypeOK
      <4>6. cl'[c].conn # "none"
        BY <2>3, <2>5
      <4> QED BY <2>1, <3>2, <4>4, <4>5, <4>6, Nowhere
    <3> QED BY <3>1, <3>2
  <2>10. ASSUME NEW d \in Clients PROVE Fate(d)'
    BY <1>1, <2>3, <2>5 DEF CallInv, Fate
  <2>11. OnceUnlessLost'
    BY <1>1, <2>3, <2>5 DEF OnceUnlessLost
  <2> QED BY <2>6, <2>7, <2>8, <2>9, <2>10, <2>11 DEF CallInv
<1>4. CASE main' = [pc |-> "wait", req |-> r] /\ UNCHANGED cl
  <2>1. HasMain' /\ main'.req = r /\ main'.pc = "wait"
    BY <1>4 DEF HasMain
  <2>2. TypeOK'
    BY <1>0, <1>1, <1>2, <1>4, <2>1 DEF TypeOK, HasIpc
  <2>3. MethodInv' /\ ForcedExactlyInside'
    BY <1>1, <1>4, <2>1 DEF MethodInv, ForcedExactlyInside, IsExec
  <2>4. ASSUME NEW d \in Clients, ~cl'[d].lost PROVE OneCall(d)'
    <3>1. OneCall(d) /\ Via(d)' = Via(d) /\ Request(d)' = Request(d)
      BY <1>4, <2>4 DEF CallInv, Via, Order, Request
    <3>2. AtIpc(d)' <=> AtIpc(d)
      BY <1>1 DEF AtIpc, HasIpc, Called
    <3>3. AtMain(d)' => AtMain(d)
      BY <1>0, <1>1, <2>1 DEF AtMain, Called
    <3>4. Called(d, r) => \A q \in requests' : ~Called(d, q)
      BY <1>0, <3>1 DEF OneCall
    <3> QED BY <1>0, <1>1, <1>4, <2>1, <3>1, <3>2, <3>3, <3>4 DEF OneCall, HasIpc, Called
  <2>5. ASSUME NEW d \in Clients PROVE Fate(d)'
    BY <1>1, <1>4 DEF CallInv, Fate
  <2>6. OnceUnlessLost'
    BY <1>1, <1>4 DEF OnceUnlessLost
  <2> QED BY <2>2, <2>3, <2>4, <2>5, <2>6 DEF CallInv
<1>5. CASE UNCHANGED <<main, cl>>
  <2>1. TypeOK'
    BY <1>0, <1>1, <1>5 DEF TypeOK, HasMain, HasIpc
  <2>2. MethodInv' /\ ForcedExactlyInside'
    BY <1>1, <1>5 DEF MethodInv, ForcedExactlyInside, IsExec
  <2>3. CallInv' /\ OnceUnlessLost'
    BY <1>0, <1>1, <1>5, CallsKept DEF HasMain, HasIpc
  <2> QED BY <2>1, <2>2, <2>3
<1> QED BY <1>0, <1>3, <1>4, <1>5 DEF Answer

---------------------------------------------------------------------------
(* What the execution of a request may change: the caller, if it still waits
   for this answer, and what it has had executed, if the request is a call. *)
Performs(r) ==
    /\ cl' \in [Clients -> CallerType] /\ runs' \in [Clients -> [daemon : Nat, local : Nat]]
    /\ \A d \in Clients \ {r.c} : cl'[d] = cl[d] /\ runs'[d] = runs[d]
    /\ \/ cl'[r.c] = cl[r.c]
       \/ /\ Open(r)
          /\ \E answer \in {"success", "failure", "error"} :
                /\ cl'[r.c] = Replied(cl[r.c], answer)
                /\ answer = "error" => cl[r.c].cmd = "bad"
                /\ r.at = "call" /\ answer = "success" => runs'[r.c].daemon >= 1
    /\ runs'[r.c].local = runs[r.c].local
    /\ \/ runs'[r.c].daemon = runs[r.c].daemon
       \/ r.at = "call" /\ runs'[r.c].daemon = runs[r.c].daemon + 1

LEMMA ExecutePerforms ==
    ASSUME TypeOK, NEW r \in RequestType, Execute(r)
    PROVE  Performs(r)
<1>0. /\ cl \in [Clients -> CallerType] /\ runs \in [Clients -> [daemon : Nat, local : Nat]]
      /\ r.c \in Clients
  BY DEF TypeOK, RequestType
<1>1. PICK answer \in {"success", "failure", "error"} :
        /\ Answer(r, answer)
        /\ answer = "error" => cl[r.c].cmd = "bad"
        /\ \/ runs' = runs /\ (r.at = "ping" \/ answer = "error")
           \/ r.at = "call" /\ runs' = [runs EXCEPT ![r.c].daemon = @ + 1]
  BY DEF Execute, Perform
<1>2. /\ runs' \in [Clients -> [daemon : Nat, local : Nat]]
      /\ \A d \in Clients \ {r.c} : runs'[d] = runs[d]
      /\ runs'[r.c].local = runs[r.c].local
      /\ \/ runs'[r.c].daemon = runs[r.c].daemon /\ (r.at = "ping" \/ answer = "error")
         \/ r.at = "call" /\ runs'[r.c].daemon = runs[r.c].daemon + 1
  BY <1>0, <1>1
<1>3. CASE Open(r)
  <2>1. /\ cl' \in [Clients -> CallerType] /\ cl'[r.c] = Replied(cl[r.c], answer)
        /\ \A d \in Clients \ {r.c} : cl'[d] = cl[d]
    BY <1>1, <1>3, AnswerIs
  <2>2. r.at = "call" /\ answer = "success" => runs'[r.c].daemon >= 1
    BY <1>0, <1>2
  <2> QED BY <1>1, <1>2, <1>3, <2>1, <2>2 DEF Performs
<1>4. CASE ~Open(r)
  <2>1. cl' = cl
    BY <1>1, <1>4 DEF Answer
  <2> QED BY <1>0, <1>2, <2>1 DEF Performs
<1> QED BY <1>3, <1>4

(* The invariant of the calls, when a thread is done with its request. *)
LEMMA PerformsInv ==
    ASSUME TypeOK, CallInv, OnceUnlessLost, NEW r \in RequestType, Performs(r),
           backlog' = backlog, requests' = requests,
           \/ HasMain /\ main.req = r /\ ~HasMain' /\ ipc' = ipc
           \/ HasIpc /\ ipc.req = r /\ ~HasIpc' /\ main' = main
    PROVE  CallInv' /\ OnceUnlessLost'
<1> DEFINE c == r.c
<1>0. c \in Clients /\ cl \in [Clients -> CallerType] /\ runs \in [Clients -> [daemon : Nat, local : Nat]]
  BY DEF TypeOK, RequestType
<1>1. /\ cl'[c].cmd = cl[c].cmd /\ cl'[c].lost = cl[c].lost
      /\ cl'[c].at = cl[c].at /\ cl'[c].told = cl[c].told
  BY <1>0, RepliedIs DEF Performs
<1>2. /\ HasMain' => HasMain /\ main'.req = main.req
      /\ HasIpc' => HasIpc /\ ipc'.req = ipc.req
  BY DEF HasMain, HasIpc
<1>3. ASSUME NEW d \in Clients, ~cl'[d].lost PROVE OneCall(d)'
  <2>1. CASE d # c
    <3>1. OneCall(d) /\ cl'[d] = cl[d] /\ runs'[d].daemon = runs[d].daemon
      BY <1>3, <2>1 DEF CallInv, Performs
    <3> QED BY <1>2, <3>1, Kept
  <2>2. CASE d = c /\ r.at = "call"
    <3>1. OneCall(c) /\ r.c = c /\ Called(c, r)
      BY <1>1, <1>3, <2>2 DEF CallInv, Called
    <3>2. (AtMain(c) \/ AtIpc(c)) /\ ~(AtMain(c) /\ AtIpc(c))
      BY <3>1 DEF OneCall, AtMain, AtIpc
    <3>3. cl[c].at = "call" /\ cl[c].conn = "open" /\ runs[c].daemon = 0
      BY <3>1, <3>2 DEF OneCall
    <3>4. ~AtMain(c)' /\ ~AtIpc(c)'
      <4>1. CASE HasMain /\ main.req = r /\ ~HasMain' /\ ipc' = ipc
        <5>1. ~AtIpc(c)
          BY <3>1, <3>2, <4>1 DEF AtMain
        <5> QED BY <3>1, <4>1, <5>1 DEF OneCall, AtMain, AtIpc, HasIpc, Called
      <4>2. CASE HasIpc /\ ipc.req = r /\ ~HasIpc' /\ main' = main
        <5>1. ~AtMain(c)
          BY <3>1, <3>2, <4>2 DEF AtIpc
        <5> QED BY <3>1, <4>2, <5>1 DEF OneCall, AtMain, AtIpc, HasMain, Called
      <4> QED BY <4>1, <4>2
    <3>5. cl'[c].conn # "none" /\ runs'[c].daemon \in {0, 1}
      BY <1>0, <3>3, RepliedIs DEF Performs
    <3> QED BY <1>1, <2>2, <3>3, <3>4, <3>5, Nowhere
  <2>3. CASE d = c /\ r.at # "call" /\ cl'[c] = cl[c]
    <3>1. OneCall(c) /\ runs'[c].daemon = runs[c].daemon
      BY <1>1, <1>3, <2>3 DEF CallInv, Performs
    <3> QED BY <1>2, <2>3, <3>1, Kept
  <2>4. CASE d = c /\ r.at # "call" /\ cl'[c] # cl[c]
    <3>1. OneCall(c) /\ runs'[c].daemon = runs[c].daemon /\ cl[c].at = r.at
      BY <1>1, <1>3, <2>4 DEF CallInv, Performs, Open, Request
    <3>2. ~AtMain(c) /\ ~AtIpc(c)
      BY <2>4, <3>1 DEF OneCall
    <3>3. ~AtMain(c)' /\ ~AtIpc(c)'
      BY <1>2, <3>2 DEF AtMain, AtIpc, Called
    <3>4. runs'[c].daemon \in {0, 1} /\ (cl'[c].at = "ping" => runs'[c].daemon = 0)
      <4>1. runs[c].daemon \in Nat /\ runs[c].daemon <= 1 /\ (cl[c].at = "ping" => runs[c].daemon = 0)
        BY <1>0, <3>1 DEF OneCall
      <4> QED BY <1>1, <3>1, <4>1
    <3>5. cl'[c].conn # "none"
      BY <1>0, <2>4, RepliedIs DEF Performs
    <3> QED BY <1>0, <2>4, <3>3, <3>4, <3>5, Nowhere
  <2> QED BY <2>1, <2>2, <2>3, <2>4
<1>4. ASSUME NEW d \in Clients PROVE Fate(d)'
  <2>0. Fate(d)
    BY DEF CallInv
  <2>1. CASE d # c
    BY <2>0, <2>1 DEF Fate, Performs
  <2>2. CASE d = c /\ cl'[c] = cl[c]
    BY <1>0, <2>0, <2>2 DEF Fate, Performs
  <2>3. CASE d = c /\ cl'[c] # cl[c]
    <3>1. PICK answer \in {"success", "failure", "error"} :
            /\ cl'[c] = Replied(cl[c], answer) /\ Open(r)
            /\ answer = "error" => cl[c].cmd = "bad"
            /\ r.at = "call" /\ answer = "success" => runs'[c].daemon >= 1
      BY <2>3 DEF Performs
    <3>2. cl'[c].answer = answer /\ cl[c].at = r.at
      BY <1>0, <3>1, RepliedIs DEF Open, Request
    <3> QED BY <1>1, <2>0, <2>3, <3>1, <3>2 DEF Fate, Performs
  <2> QED BY <2>1, <2>2, <2>3
<1>5. ASSUME NEW d \in Clients
      PROVE  /\ ~cl'[d].lost => runs'[d].daemon + runs'[d].local <= 1
             /\ cl'[d].told = "success" => runs'[d].daemon >= 1 /\ runs'[d].local = 0
  <2>1. CASE d # c
    BY <2>1 DEF OnceUnlessLost, Performs
  <2>2. CASE d = c
    <3>1. cl[c].told = "success" => runs'[c].daemon >= 1 /\ runs'[c].local = 0
      BY <1>0, <2>2 DEF OnceUnlessLost, Performs
    <3>2. CASE runs'[c].daemon = runs[c].daemon
      BY <1>0, <1>1, <2>2, <3>1, <3>2 DEF OnceUnlessLost, Performs
    <3>3. CASE r.at = "call" /\ ~cl[c].lost
      <4>1. OneCall(c) /\ (AtMain(c) \/ AtIpc(c)) /\ Fate(c)
        BY <1>0, <3>3 DEF CallInv, AtMain, AtIpc, Called
      <4>2. runs[c].local = 0
        BY <4>1 DEF OneCall, Fate
      <4>3. runs'[c].daemon <= 1
        BY <1>1, <1>3, <1>0, <3>3 DEF OneCall
      <4> QED BY <1>0, <1>1, <2>2, <3>1, <4>2, <4>3 DEF Performs
    <3> QED BY <1>1, <2>2, <3>1, <3>2, <3>3 DEF Performs
  <2> QED BY <2>1, <2>2
<1>6. OnceUnlessLost'
  BY <1>5 DEF OnceUnlessLost
<1> QED BY <1>3, <1>4, <1>6 DEF CallInv

LEMMA MainHandlesInv == ASSUME IInv, MainHandles PROVE IInv'
<1> USE ServiceAssumption DEF IInv
<1>1. /\ UNCHANGED <<backlog, requests, ipc, running, stop, active, cut>>
      /\ main.pc = "handle" /\ main' = [pc |-> "loop", req |-> NoRequest] /\ lock' = "nobody"
      /\ forced' = (forced /\ ~IsExec(main.req)) /\ Execute(main.req)
  BY DEF MainHandles
<1>2. HasMain /\ ~HasMain' /\ main.req \in RequestType /\ ipc.pc # "handle"
  BY <1>1 DEF HasMain, TypeOK, MethodInv
<1>3. Performs(main.req)
  BY <1>1, <1>2, ExecutePerforms
<1>4. TypeOK'
  <2>1. cl' \in [Clients -> CallerType] /\ runs' \in [Clients -> [daemon : Nat, local : Nat]]
    BY <1>3 DEF Performs
  <2> QED BY <1>1, <1>2, <2>1 DEF TypeOK, HasIpc
<1>5. MethodInv'
  BY <1>1, <1>2 DEF MethodInv
<1>6. ForcedExactlyInside'
  BY <1>1, <1>2 DEF ForcedExactlyInside
<1>7. CallInv' /\ OnceUnlessLost'
  BY <1>1, <1>2, <1>3, PerformsInv
<1> QED BY <1>4, <1>5, <1>6, <1>7

(* The IPC thread executes a request also when its connection has been cut. *)
LEMMA IpcHandlesInv == ASSUME IInv, IpcHandles PROVE IInv'
<1> USE ServiceAssumption DEF IInv
<1>1. /\ UNCHANGED <<backlog, requests, main, running, stop, cut>>
      /\ ipc.pc = "handle" /\ ipc' = [pc |-> "check", req |-> NoRequest] /\ lock' = "nobody"
      /\ active' = Nobody /\ forced' = (forced /\ ~IsExec(ipc.req))
  BY DEF IpcHandles, Closed
<1>2. HasIpc /\ ~HasIpc' /\ ipc.req \in RequestType /\ main.pc # "handle"
  BY <1>1 DEF HasIpc, TypeOK, MethodInv
<1>3. Performs(ipc.req)
  <2>1. CASE cut = ipc.req.c
    <3>1. /\ cl' = cl
          /\ \/ runs' = runs
             \/ ipc.req.at = "call" /\ runs' = [runs EXCEPT ![ipc.req.c].daemon = @ + 1]
      BY <2>1 DEF IpcHandles
    <3>2. cl \in [Clients -> CallerType] /\ runs \in [Clients -> [daemon : Nat, local : Nat]]
      BY DEF TypeOK
    <3>3. ipc.req.c \in Clients
      BY <1>2 DEF RequestType
    <3>4. /\ runs' \in [Clients -> [daemon : Nat, local : Nat]]
          /\ \A d \in Clients \ {ipc.req.c} : runs'[d] = runs[d]
          /\ runs'[ipc.req.c].local = runs[ipc.req.c].local
          /\ \/ runs'[ipc.req.c].daemon = runs[ipc.req.c].daemon
             \/ /\ ipc.req.at = "call"
                /\ runs'[ipc.req.c].daemon = runs[ipc.req.c].daemon + 1
      <4>1. CASE runs' = runs
        BY <3>2, <3>3, <4>1
      <4>2. CASE ipc.req.at = "call" /\ runs' = [runs EXCEPT ![ipc.req.c].daemon = @ + 1]
        <5>1. PICK c \in Clients : c = ipc.req.c
          BY <3>3
        <5>2. runs' = [runs EXCEPT ![c].daemon = @ + 1]
          BY <4>2, <5>1
        <5>3. /\ runs' \in [Clients -> [daemon : Nat, local : Nat]]
              /\ \A d \in Clients \ {c} : runs'[d] = runs[d]
              /\ runs'[c].local = runs[c].local /\ runs'[c].daemon = runs[c].daemon + 1
          BY <3>2, <5>2
        <5> QED BY <4>2, <5>1, <5>3
      <4> QED BY <3>1, <4>1, <4>2
    <3> QED BY <3>1, <3>2, <3>4 DEF Performs
  <2>2. CASE cut # ipc.req.c
    BY <1>2, <2>2, ExecutePerforms DEF IpcHandles
  <2> QED BY <2>1, <2>2
<1>4. TypeOK'
  <2>1. cl' \in [Clients -> CallerType] /\ runs' \in [Clients -> [daemon : Nat, local : Nat]]
    BY <1>3 DEF Performs
  <2> QED BY <1>1, <1>2, <2>1 DEF TypeOK, HasMain
<1>5. MethodInv'
  BY <1>1, <1>2 DEF MethodInv, TypeOK
<1>6. ForcedExactlyInside'
  BY <1>1, <1>2 DEF ForcedExactlyInside
<1>7. CallInv' /\ OnceUnlessLost'
  BY <1>1, <1>2, <1>3, PerformsInv
<1> QED BY <1>4, <1>5, <1>6, <1>7

LEMMA NextInv == IInv /\ [Next]_svars => IInv'
<1> SUFFICES ASSUME IInv, [Next]_svars PROVE IInv'
  OBVIOUS
<1>1. ASSUME NEW c \in Clients, Client(c) PROVE IInv'
  BY <1>1, ConnectInv, FailInv, AnsweredInv DEF Client
<1>2. ASSUME Main PROVE IInv'
  BY <1>2, PollInv, MainLocksInv, MainHandlesInv, ShutdownStepsInv DEF Main
<1>3. ASSUME Ipc PROVE IInv'
  BY <1>3, CheckInv, AcceptInv, NoteReadInv, IpcLocksInv, IpcHandlesInv DEF Ipc
<1>4. CASE UNCHANGED svars
  <2>1. UNCHANGED <<cl, backlog, requests, main, ipc, lock, active, cut, forced, runs>>
    BY <1>4 DEF svars
  <2>2. TypeOK' /\ MethodInv' /\ ForcedExactlyInside'
    BY <2>1 DEF IInv, TypeOK, MethodInv, ForcedExactlyInside, IsExec, HasMain, HasIpc
  <2>3. CallInv' /\ OnceUnlessLost'
    BY <2>1, CallsKept DEF IInv, HasMain, HasIpc
  <2> QED BY <2>2, <2>3 DEF IInv
<1> QED BY <1>1, <1>2, <1>3, <1>4, ShutdownStepsInv DEF Next

(* The inductive invariant of a daemon that serves and shuts down. *)
THEOREM Invariant == Spec => []IInv
BY InitInv, NextInv, PTL DEF Spec

(* Unless an answer was lost, a command is executed once at most, over
   whatever sequence of pings, transports and retries it was called, and one
   that was told success was executed by the daemon. *)
THEOREM ExecutedOnce == Spec => []OnceUnlessLost
<1>1. IInv => OnceUnlessLost
  BY DEF IInv
<1> QED BY <1>1, Invariant, PTL

(* Commands of the daemon's own process run locally exactly while a delegated
   command is executed under the lock. *)
THEOREM ForcedInside == Spec => []ForcedExactlyInside
<1>1. IInv => ForcedExactlyInside
  BY DEF IInv
<1> QED BY <1>1, Invariant, PTL

(* After the channels are closed no thread executes anything: the main thread
   has left its loop, and it has waited for the other. *)
THEOREM QuietOnceGone == Spec => QuietAfterStop
<1>1. IInv /\ [Next]_svars => [main.pc = "gone" => UNCHANGED <<Executed, forced, lock>>]_svars
  <2> SUFFICES ASSUME IInv, Next, main.pc = "gone"
               PROVE  UNCHANGED <<Executed, forced, lock>>
    OBVIOUS
  <2>1. ipc.pc = "gone" /\ cl \in [Clients -> CallerType]
        /\ runs \in [Clients -> [daemon : Nat, local : Nat]]
    BY DEF IInv, MethodInv, TypeOK
  <2>2. ~Ipc
    BY <2>1 DEF Ipc, Check, Accept, Note, Read, IpcLocks, IpcHandles
  <2>3. ~Main
    BY DEF Main, Poll, MainLocks, MainHandles, LeaveLoop, StopIpc, Join
  <2>4. ASSUME NEW c \in Clients, Client(c) PROVE UNCHANGED <<Executed, forced, lock>>
    <3>1. \/ runs' = runs
          \/ runs' = [runs EXCEPT ![c].local = @ + 1]
      BY <2>4 DEF Client, Connect, Fail, Answered, Unavailable
    <3>2. Executed' = Executed
      BY <2>1, <3>1 DEF Executed
    <3>3. forced' = forced /\ lock' = lock
      BY <2>4 DEF Client, Connect, Fail, Answered, server
    <3> QED BY <3>2, <3>3
  <2>5. CASE Shutdown
    BY <2>5 DEF Shutdown, Executed
  <2> QED BY <2>2, <2>3, <2>4, <2>5 DEF Next
<1> QED BY <1>1, Invariant, PTL DEF Spec, QuietAfterStop

-----------------------------------------------------------------------------
(* The processes: the inductive invariant. *)

Places == {"none", "clean", "reclean", "check", "await", "create", "look", "write", "bind",
           "listen", "install", "resume", "loop", "drain", "destroy", "unlink", "find",
           "signal", "poll", "hup"}

ProcessType ==
    [pc : Places, then : {"none", "check", "create", "drain"}, tries : 0..1,
     seen : Procs \cup {Nobody}, cmd : Process!Commands, run : BOOLEAN]

(* Between the binding of its channels and their end; while the thread of    *)
(* the IPC channel answers; while it may download; while the pid file may    *)
(* be its own.                                                               *)
Bound(r) == \/ r.pc \in {"listen", "install", "resume", "loop", "drain", "destroy"}
            \/ r.pc = "unlink" /\ r.then = "drain"
Answers(r) == Bound(r) /\ r.pc # "listen"
Downloads(r) == Answers(r) /\ r.pc # "destroy"
Claims(r) == r.pc \in {"write", "bind", "listen", "install", "resume", "loop", "unlink"}

(* What a process holds, it holds on to, in whatever order others come and   *)
(* go.                                                                       *)
PortHeld == /\ http => \A p \in Procs : Bound(proc[p]) => port = p
            /\ port \in Procs => Bound(proc[port])
EndpointHeld == endpoint \in Procs => Answers(proc[endpoint])
JobsHeld == ~late => \A p \in jobs : Downloads(proc[p])
FileClaimed == ~killed /\ file # Process!NoFile =>
                  file.maker \in Procs /\ Claims(proc[file.maker])

(* As long as no two start or leave at once: one on its way, and beside it   *)
(* no daemon but for the first look; the file says how far it is.            *)
OneMoves == \A p, q \in Procs : Process!Moving(proc[p]) /\ Process!Moving(proc[q]) => p = q
NobodyPasses == \A p, q \in Procs : proc[p].pc = "loop" /\ Process!Moving(proc[q]) =>
                                       proc[q].pc \in {"clean", "check"}
Tells(p) ==
    /\ proc[p].pc = "write" => file = [maker |-> p, pid |-> Nobody]
    /\ proc[p].pc \in {"bind", "listen", "install", "resume", "loop"} =>
          file = [maker |-> p, pid |-> p]
    /\ proc[p].pc \in {"install", "resume", "loop"} => endpoint = p
Sole == OneMoves /\ NobodyPasses /\ \A p \in Procs : Tells(p)

ProcessInv ==
    /\ Process!TypeOK /\ alone \in BOOLEAN
    /\ PortHeld /\ EndpointHeld /\ JobsHeld /\ FileClaimed
    /\ alone => Sole

LEMMA TypeIs ==
    Process!TypeOK <=>
        /\ proc \in [Procs -> ProcessType]
        /\ file \in [maker : Procs \cup {Nobody}, pid : Procs \cup {Nobody}]
        /\ endpoint \in Procs \cup {Nobody}
        /\ port \in Procs \cup {Nobody, "another program"}
        /\ jobs \subseteq Procs
        /\ saved \in {"stopped", "downloading"}
        /\ commands \in 0..MaxCommands
BY Zenon DEF Process!TypeOK, ProcessType, Places

(* Neither on its way nor a daemon; and a move of p, besides which only what  *)
(* is neither may change.                                                    *)
Inert(r) == ~Process!Moving(r) /\ r.pc # "loop"
Others(p) ==
    /\ proc' \in [Procs -> ProcessType]
    /\ \A q \in Procs : q # p => proc'[q] = proc[q] \/ (Inert(proc[q]) /\ Inert(proc'[q]))

LEMMA PutIs ==
    ASSUME proc \in [Procs -> ProcessType], NEW p \in Procs, NEW r \in ProcessType,
           proc' = [proc EXCEPT ![p] = r]
    PROVE  Others(p) /\ proc'[p] = r
BY DEF Others

LEMMA GotoIs ==
    ASSUME proc \in [Procs -> ProcessType], NEW p \in Procs, NEW place \in Places,
           Process!Goto(p, place)
    PROVE  Others(p) /\ proc'[p] = [proc[p] EXCEPT !.pc = place]
<1> DEFINE r == [proc[p] EXCEPT !.pc = place]
<1>1. r \in ProcessType
  BY DEF ProcessType
<1>2. proc' = [proc EXCEPT ![p] = r]
  BY DEF Process!Goto
<1> HIDE DEF r
<1>3. Others(p) /\ proc'[p] = r
  BY <1>1, <1>2, PutIs
<1> QED BY <1>3 DEF r

LEMMA UnlinkIs ==
    ASSUME proc \in [Procs -> ProcessType], NEW p \in Procs,
           NEW place \in {"none", "check", "create", "drain"}, Process!UnlinkThen(p, place)
    PROVE  /\ Others(p) /\ proc'[p].pc = "unlink" /\ proc'[p].then = place
           /\ proc'[p].cmd = proc[p].cmd
<1> DEFINE r == [proc[p] EXCEPT !.pc = "unlink", !.then = place]
<1>1. r \in ProcessType /\ r.pc = "unlink" /\ r.then = place /\ r.cmd = proc[p].cmd
  BY DEF ProcessType, Places
<1>2. proc' = [proc EXCEPT ![p] = r]
  BY DEF Process!UnlinkThen, ProcessType
<1> HIDE DEF r
<1>3. Others(p) /\ proc'[p] = r
  BY <1>1, <1>2, PutIs
<1> QED BY <1>1, <1>3

LEMMA EndedIs ==
    /\ Process!Ended \in ProcessType /\ Process!Ended.pc = "none"
    /\ \A c \in Process!Commands :
          /\ Process!Started(c) \in ProcessType
          /\ Process!Started(c).pc = "clean" /\ Process!Started(c).cmd = c
<1> DEFINE e == Process!Ended
<1>1. e = [pc |-> "none", then |-> "none", tries |-> 0, seen |-> Nobody, cmd |-> "stop", run |-> FALSE]
  BY DEF Process!Ended
<1>2. e \in ProcessType /\ e.pc = "none"
  BY <1>1 DEF ProcessType, Places, Process!Commands
<1>3. ASSUME NEW c \in Process!Commands
      PROVE  /\ Process!Started(c) \in ProcessType
             /\ Process!Started(c).pc = "clean" /\ Process!Started(c).cmd = c
  <2>1. PICK t \in BOOLEAN : t = TRUE
    OBVIOUS
  <2>2. Process!Started(c) = [e EXCEPT !.pc = "clean", !.cmd = c, !.run = t]
    BY <2>1 DEF Process!Started
  <2> HIDE DEF e
  <2>3. /\ [e EXCEPT !.pc = "clean", !.cmd = c, !.run = t] \in ProcessType
        /\ [e EXCEPT !.pc = "clean", !.cmd = c, !.run = t].pc = "clean"
        /\ [e EXCEPT !.pc = "clean", !.cmd = c, !.run = t].cmd = c
    BY <1>2 DEF ProcessType, Places
  <2> QED BY <2>2, <2>3
<1> QED BY <1>2, <1>3

LEMMA ExitIs ==
    ASSUME proc \in [Procs -> ProcessType], NEW p \in Procs, Process!Exit(p)
    PROVE  Others(p) /\ proc'[p].pc = "none"
<1>1. PICK r \in ProcessType : r = Process!Ended
  BY EndedIs
<1>2. Others(p) /\ proc'[p] = r
  BY <1>1, PutIs DEF Process!Exit
<1> QED BY <1>1, <1>2, EndedIs

LEMMA CardinalityIs == \A S : Process!Cardinality(S) = Cardinality(S)
BY DEF Process!Cardinality, Cardinality

LEMMA FiniteIs == \A S : Process!IsFiniteSet(S) = IsFiniteSet(S)
BY DEF Process!IsFiniteSet, IsFiniteSet

LEMMA WatchIs ==
    ASSUME IsFiniteSet(Procs), alone \in BOOLEAN, Process!Watch
    PROVE  alone' \in BOOLEAN /\ (alone' => alone /\ OneMoves')
<1> DEFINE M == {p \in Procs : Process!Moving(proc'[p])}
<1>1. alone' = (alone /\ Cardinality(M) <= 1)
  <2>1. alone' = (alone /\ Process!Cardinality(M) <= 1)
    BY DEF Process!Watch
  <2> HIDE DEF M
  <2> QED BY <2>1, CardinalityIs
<1>2. ASSUME Cardinality(M) <= 1, NEW p \in M, NEW q \in M, p # q PROVE FALSE
  <2>1. {p, q} \subseteq M /\ M \subseteq Procs
    OBVIOUS
  <2>2. IsFiniteSet(M)
    BY <2>1, FS_Subset
  <2>3. IsFiniteSet({p}) /\ Cardinality({p}) = 1
    BY FS_Singleton
  <2>4. Cardinality({p} \cup {q}) = 2
    <3>1. PICK S : S = {p}
      OBVIOUS
    <3>2. q \notin S /\ IsFiniteSet(S) /\ Cardinality(S) = 1
      BY <1>2, <2>3, <3>1
    <3> HIDE DEF M
    <3>3. Cardinality(S \cup {q}) = Cardinality(S) + 1
      BY <3>2, FS_AddElement
    <3> QED BY <3>1, <3>2, <3>3
  <2>5. {p} \cup {q} = {p, q} /\ {p, q} \in SUBSET M
    BY <2>1
  <2>6. Cardinality({p, q}) <= Cardinality(M) /\ Cardinality({p, q}) = 2 /\ Cardinality(M) \in Nat
    BY <2>2, <2>4, <2>5, FS_Subset, FS_CardinalityType
  <2> HIDE DEF M
  <2> QED BY <1>2, <2>6
<1>3. ASSUME alone' PROVE OneMoves'
  <2>1. Cardinality(M) <= 1
    BY <1>1, <1>3
  <2> QED BY <1>2, <2>1 DEF OneMoves
<1> HIDE DEF M
<1> QED BY <1>1, <1>3

LEMMA StepIs ==
    ASSUME ProcessInv, NEW p \in Procs
    PROVE  /\ proc \in [Procs -> ProcessType] /\ proc[p] \in ProcessType
           /\ \A q \in Procs : proc[q] \in ProcessType
BY TypeIs DEF ProcessInv

(* A step of p keeps Sole if what the file and the endpoint say of p is      *)
(* true after it, only a process on its way changes them, and while a daemon *)
(* runs nobody gets past the first look.                                     *)
LEMMA SoleKept ==
    ASSUME ProcessInv, NEW p \in Procs, Others(p), Process!Watch,
           alone /\ Sole => Tells(p)',
           alone /\ Sole =>
              \A q \in Procs : q # p /\ proc[q].pc = "loop" =>
                 /\ file' = file /\ endpoint' = endpoint
                 /\ Process!Moving(proc'[p]) => proc'[p].pc \in {"clean", "check"},
           proc'[p].pc = "loop" => Process!Moving(proc[p]) \/ proc[p].pc = "loop",
           \/ Process!Moving(proc[p]) \/ proc[p].pc = "loop"
           \/ file' = file /\ endpoint' = endpoint
    PROVE  alone' \in BOOLEAN /\ (alone' => Sole')
<1>1. alone' \in BOOLEAN /\ (alone' => alone /\ OneMoves')
  BY WatchIs, FiniteIs, ConstantsAssumption DEF ProcessInv, Process!DaemonAssumption
<1> SUFFICES ASSUME alone' PROVE Sole'
  BY <1>1
<1>2. alone /\ OneMoves' /\ Sole
  BY <1>1 DEF ProcessInv
<1>3. ASSUME NEW q \in Procs, q # p PROVE Tells(q)'
  <2>1. Tells(q)
    BY <1>2 DEF Sole
  <2>5. CASE proc'[q] # proc[q]
    BY <1>3, <2>5 DEF Others, Inert, Tells, Process!Moving
  <2> SUFFICES ASSUME proc'[q] = proc[q] PROVE Tells(q)'
    BY <2>5
  <2>2. CASE proc[q].pc \notin {"write", "bind", "listen", "install", "resume", "loop"}
    BY <2>1, <2>2 DEF Tells
  <2>3. CASE proc[q].pc = "loop"
    BY <1>2, <1>3, <2>1, <2>3 DEF Tells
  <2>4. CASE proc[q].pc \in {"write", "bind", "listen", "install", "resume"}
    <3>1. Process!Moving(proc[q])
      BY <2>4 DEF Process!Moving
    <3>2. ~Process!Moving(proc[p]) /\ proc[p].pc # "loop"
      BY <1>2, <1>3, <2>4, <3>1 DEF Sole, OneMoves, NobodyPasses
    <3> QED BY <2>1, <3>2 DEF Tells
  <2> QED BY <2>2, <2>3, <2>4
<1>4. \A q \in Procs : Tells(q)'
  BY <1>2, <1>3
<1>5. ASSUME NEW q \in Procs, NEW r \in Procs, proc'[q].pc = "loop", Process!Moving(proc'[r])
      PROVE  proc'[r].pc \in {"clean", "check"}
  <2>1. q # r
    BY <1>5 DEF Process!Moving
  <2>2. CASE q # p /\ r # p
    BY <1>2, <1>5, <2>2 DEF Others, Sole, NobodyPasses, Inert
  <2>3. CASE q # p /\ r = p
    BY <1>2, <1>5, <2>3 DEF Others, Inert
  <2>4. CASE q = p
    <3>1. proc'[r] = proc[r]
      BY <1>5, <2>1, <2>4 DEF Others, Inert
    <3>2. CASE proc[p].pc = "loop"
      BY <1>2, <1>5, <2>4, <3>1, <3>2 DEF Sole, NobodyPasses
    <3>3. CASE Process!Moving(proc[p])
      BY <1>2, <1>5, <2>1, <2>4, <3>1, <3>3 DEF Sole, OneMoves
    <3> QED BY <1>5, <2>4, <3>2, <3>3
  <2> QED BY <2>2, <2>3, <2>4
<1>6. NobodyPasses'
  BY <1>5 DEF NobodyPasses
<1> QED BY <1>2, <1>4, <1>6 DEF Sole

(* What is held is kept by a step of p, if p has what it takes and keeps     *)
(* what it had.                                                              *)
LEMMA OthersAre ==
    ASSUME ProcessInv, NEW p \in Procs, Others(p), NEW q \in Procs, q # p
    PROVE  /\ Bound(proc'[q]) <=> Bound(proc[q])
           /\ Answers(proc'[q]) <=> Answers(proc[q])
           /\ Downloads(proc'[q]) <=> Downloads(proc[q])
           /\ Claims(proc'[q]) <=> Claims(proc[q])
BY DEF Others, Inert, Process!Moving, Bound, Answers, Downloads, Claims

LEMMA PortKept ==
    ASSUME ProcessInv, NEW p \in Procs, Others(p), http' = http,
           http /\ Bound(proc'[p]) => port' = p,
           port' = p => Bound(proc'[p]),
           \A q \in Procs : q # p => (port' = q <=> port = q)
    PROVE  PortHeld'
<1>1. \A q \in Procs : q # p => (Bound(proc'[q]) <=> Bound(proc[q]))
  BY OthersAre
<1>2. \A q \in Procs : http /\ Bound(proc[q]) => port = q
  BY DEF ProcessInv, PortHeld
<1>3. port \in Procs => Bound(proc[port])
  BY DEF ProcessInv, PortHeld
<1>4. ASSUME http', NEW q \in Procs, Bound(proc'[q]) PROVE port' = q
  BY <1>1, <1>2, <1>4
<1>5. ASSUME port' \in Procs PROVE Bound(proc'[port'])
  <2>1. PICK q \in Procs : q = port'
    BY <1>5
  <2>2. Bound(proc'[q])
    BY <1>1, <1>3, <2>1
  <2> QED BY <2>1, <2>2
<1> QED BY <1>4, <1>5 DEF PortHeld

LEMMA EndpointKept ==
    ASSUME ProcessInv, NEW p \in Procs, Others(p),
           endpoint' = p => Answers(proc'[p]),
           \A q \in Procs : q # p => (endpoint' = q => endpoint = q)
    PROVE  EndpointHeld'
<1> SUFFICES ASSUME endpoint' \in Procs PROVE Answers(proc'[endpoint'])
  BY DEF EndpointHeld
<1>1. PICK q \in Procs : q = endpoint'
  OBVIOUS
<1>2. CASE q # p
  BY <1>1, <1>2, OthersAre DEF ProcessInv, EndpointHeld
<1> QED BY <1>1, <1>2

LEMMA JobsKept ==
    ASSUME ProcessInv, NEW p \in Procs, Others(p), late => late',
           jobs' \subseteq jobs \cup {p},
           late' \/ (p \in jobs' => Downloads(proc'[p]))
    PROVE  JobsHeld'
<1>1. jobs \subseteq Procs
  BY TypeIs DEF ProcessInv
<1>2. ASSUME ~late', NEW q \in jobs' PROVE Downloads(proc'[q])
  <2>1. CASE q # p
    BY <1>1, <1>2, <2>1, OthersAre DEF ProcessInv, JobsHeld
  <2> QED BY <1>2, <2>1
<1> QED BY <1>2 DEF JobsHeld

LEMMA ClaimKept ==
    ASSUME ProcessInv, NEW p \in Procs, Others(p), killed => killed',
           file' # Process!NoFile => /\ file'.maker = p => Claims(proc'[p])
                                     /\ file'.maker # p => file' = file
    PROVE  FileClaimed'
<1> SUFFICES ASSUME ~killed', file' # Process!NoFile
             PROVE  file'.maker \in Procs /\ Claims(proc'[file'.maker])
  BY DEF FileClaimed, Process!NoFile
<1>1. CASE file'.maker = p
  BY <1>1
<1>2. CASE file'.maker # p
  <2>1. PICK q \in Procs : q = file'.maker /\ Claims(proc[q])
    BY <1>2 DEF ProcessInv, FileClaimed
  <2> QED BY <1>2, <2>1, OthersAre
<1> QED BY <1>1, <1>2

LEMMA ClaimStays ==
    ASSUME ProcessInv, NEW p \in Procs, Others(p), killed' = killed, file' = file,
           Claims(proc[p]) => Claims(proc'[p])
    PROVE  FileClaimed'
<1>1. file # Process!NoFile /\ file.maker = p /\ ~killed => Claims(proc[p])
  BY DEF ProcessInv, FileClaimed
<1>2. CASE killed
  BY <1>2 DEF FileClaimed
<1> QED BY <1>1, <1>2, ClaimKept

(* A step of p that leaves the files and the channels alone.                 *)
LEMMA QuietKept ==
    ASSUME ProcessInv, NEW p \in Procs, Others(p),
           UNCHANGED <<file, endpoint, port, http, jobs, saved, killed, commands>>, late => late',
           Bound(proc'[p]) <=> Bound(proc[p]),
           Answers(proc[p]) => Answers(proc'[p]),
           late' \/ (Downloads(proc[p]) /\ p \in jobs => Downloads(proc'[p])),
           Claims(proc[p]) => Claims(proc'[p])
    PROVE  /\ Process!TypeOK'
           /\ PortHeld' /\ EndpointHeld' /\ JobsHeld' /\ FileClaimed'
<1>1. Process!TypeOK'
  <2>1. Process!TypeOK
    BY DEF ProcessInv
  <2> QED BY <2>1 DEF Process!TypeOK, ProcessType, Places, Others
<1>2. PortHeld'
  BY PortKept DEF ProcessInv, PortHeld
<1>3. EndpointHeld'
  BY EndpointKept DEF ProcessInv, EndpointHeld
<1>4. JobsHeld'
  BY JobsKept DEF ProcessInv, JobsHeld
<1>5. FileClaimed'
  BY ClaimStays
<1> QED BY <1>1, <1>2, <1>3, <1>4, <1>5

(* What is true of a process at a place. *)
LEMMA PlaceIs ==
    ASSUME NEW r
    PROVE  /\ Bound(r) => Process!Moving(r) \/ r.pc = "loop"
           /\ Claims(r) => Process!Moving(r) \/ r.pc = "loop"
           /\ Answers(r) => Bound(r)
           /\ Downloads(r) => Answers(r)
BY DEF Bound, Claims, Answers, Downloads, Process!Moving

(* The file leads to a daemon it tells of. *)
LEMMA DaemonFound ==
    ASSUME NEW q \in Procs, Tells(q), proc[q].pc = "loop"
    PROVE  Process!Alive(file.pid) /\ ~Process!Stale
<1>1. file.pid = q
  <2>1. file = [maker |-> q, pid |-> q]
    BY DEF Tells
  <2> QED BY <2>1
<1>2. q # Nobody
  BY ConstantsAssumption DEF Process!DaemonAssumption
<1>3. Process!Alive(file.pid)
  BY <1>1, <1>2 DEF Process!Alive
<1> QED BY <1>3 DEF Process!Stale

LEMMA CleanKeeps ==
    ASSUME ProcessInv, NEW p \in Procs, Process!Clean(p), Process!Watch
    PROVE  ProcessInv'
<1> DEFINE next == IF proc[p].pc = "clean" THEN "check" ELSE "create"
<1>1. /\ proc \in [Procs -> ProcessType] /\ next \in {"check", "create"} /\ next \in Places
      /\ proc[p].pc \in {"clean", "reclean"}
      /\ UNCHANGED <<file, endpoint, port, http, jobs, saved, killed, late, commands>>
  BY StepIs DEF Process!Clean, Process!world, Places
<1>2. /\ Others(p)
      /\ \/ Process!Stale /\ proc'[p].pc = "unlink" /\ proc'[p].then = next
         \/ proc'[p].pc = next
  <2>1. CASE Process!Stale
    <3>1. Process!UnlinkThen(p, next)
      BY <2>1 DEF Process!Clean
    <3> HIDE DEF next
    <3> QED BY <1>1, <2>1, <3>1, UnlinkIs
  <2>2. CASE ~Process!Stale
    <3>1. Process!Goto(p, next)
      BY <2>2 DEF Process!Clean
    <3> HIDE DEF next
    <3>2. Others(p) /\ proc'[p] = [proc[p] EXCEPT !.pc = next]
      BY <1>1, <3>1, GotoIs
    <3> QED BY <1>1, <3>2 DEF ProcessType
  <2> QED BY <2>1, <2>2
<1>3. ~Bound(proc[p]) /\ ~Claims(proc[p]) /\ ~Bound(proc'[p])
  BY <1>1, <1>2 DEF Bound, Claims
<1>4. /\ Process!TypeOK'
      /\ PortHeld' /\ EndpointHeld' /\ JobsHeld' /\ FileClaimed'
  BY <1>1, <1>2, <1>3, PlaceIs, QuietKept
<1>5. Tells(p)' /\ proc'[p].pc # "loop"
  BY <1>1, <1>2 DEF Tells
<1>6. Process!Moving(proc[p])
  BY <1>1 DEF Process!Moving
<1>7. alone /\ Sole =>
         \A q \in Procs : q # p /\ proc[q].pc = "loop" =>
            /\ file' = file /\ endpoint' = endpoint
            /\ Process!Moving(proc'[p]) => proc'[p].pc \in {"clean", "check"}
  <2> SUFFICES ASSUME Sole, NEW q \in Procs, proc[q].pc = "loop"
               PROVE  proc'[p].pc \in {"clean", "check"}
    BY <1>1
  <2>1. proc[p].pc = "clean"
    BY <1>1, <1>6 DEF Sole, NobodyPasses
  <2>2. ~Process!Stale
    BY DaemonFound DEF Sole
  <2> QED BY <1>2, <2>1, <2>2
<1>8. alone' \in BOOLEAN /\ (alone' => Sole')
  BY <1>2, <1>5, <1>6, <1>7, SoleKept
<1> QED BY <1>4, <1>8 DEF ProcessInv


(* A step by which a process that holds nothing goes on to hold nothing, or  *)
(* by which one leaves for the file: what it needs to show.                  *)
LEMMA QuietStep ==
    ASSUME ProcessInv, NEW p \in Procs, Others(p), Process!Watch,
           UNCHANGED <<file, endpoint, port, http, jobs, saved, killed, commands>>, late' = late,
           ~Bound(proc[p]), ~Claims(proc[p]), ~Bound(proc'[p]),
           proc'[p].pc \notin {"write", "bind", "loop"},
           alone /\ Sole =>
              \A q \in Procs : q # p /\ proc[q].pc = "loop" =>
                 (Process!Moving(proc'[p]) => proc'[p].pc \in {"clean", "check"})
    PROVE  ProcessInv'
<1>1. Process!TypeOK' /\ PortHeld' /\ EndpointHeld' /\ JobsHeld' /\ FileClaimed'
  BY PlaceIs, QuietKept
<1>2. Tells(p)' /\ proc'[p].pc # "loop"
  BY DEF Tells, Bound
<1>3. alone /\ Sole =>
         \A q \in Procs : q # p /\ proc[q].pc = "loop" =>
            /\ file' = file /\ endpoint' = endpoint
            /\ Process!Moving(proc'[p]) => proc'[p].pc \in {"clean", "check"}
  OBVIOUS
<1>4. alone' \in BOOLEAN /\ (alone' => Sole')
  BY <1>2, <1>3, SoleKept
<1> QED BY <1>1, <1>4 DEF ProcessInv

(* While a daemon that the file tells of runs, nobody passes the first look. *)
LEMMA NobodyBehind ==
    ASSUME Sole, NEW p \in Procs, NEW q \in Procs, proc[q].pc = "loop", Process!Moving(proc[p])
    PROVE  proc[p].pc \in {"clean", "check"} /\ Process!Alive(file.pid) /\ ~Process!Stale
BY DaemonFound DEF Sole, NobodyPasses

LEMMA ExitKeeps ==
    ASSUME ProcessInv, NEW p \in Procs, Process!Exit(p), Process!Watch,
           UNCHANGED <<file, endpoint, port, http, jobs, saved, killed, late, commands>>,
           ~Bound(proc[p]), ~Claims(proc[p])
    PROVE  ProcessInv'
<1>1. Others(p) /\ proc'[p].pc = "none"
  BY StepIs, ExitIs
<1>2. ~Bound(proc'[p]) /\ ~Process!Moving(proc'[p])
  BY <1>1 DEF Bound, Process!Moving
<1> QED BY <1>1, <1>2, QuietStep

LEMMA CheckKeeps ==
    ASSUME ProcessInv, NEW p \in Procs, Process!Check(p), Process!Watch
    PROVE  ProcessInv'
<1>1. /\ proc \in [Procs -> ProcessType] /\ proc[p].pc = "check"
      /\ UNCHANGED <<file, endpoint, port, http, jobs, saved, killed, late, commands>>
  BY StepIs DEF Process!Check, Process!world
<1>2. ~Bound(proc[p]) /\ ~Claims(proc[p])
  BY <1>1 DEF Bound, Claims
<1>3. CASE Process!Exit(p)
  BY <1>1, <1>2, <1>3, ExitKeeps
<1>4. CASE ~Process!Alive(file.pid) /\ proc[p].cmd # "spawn" /\ Process!Goto(p, "reclean")
  <2>1. Others(p) /\ proc'[p] = [proc[p] EXCEPT !.pc = "reclean"]
    BY <1>1, <1>4, GotoIs DEF Places
  <2>2. proc'[p].pc = "reclean"
    BY <1>1, <2>1 DEF ProcessType
  <2>3. ~Bound(proc'[p])
    BY <2>2 DEF Bound
  <2>4. Process!Moving(proc[p])
    BY <1>1, <1>4 DEF Process!Moving
  <2>5. alone /\ Sole =>
           \A q \in Procs : q # p /\ proc[q].pc = "loop" =>
              (Process!Moving(proc'[p]) => proc'[p].pc \in {"clean", "check"})
    BY <1>4, <2>4, NobodyBehind
  <2> QED BY <1>1, <1>2, <2>1, <2>2, <2>3, <2>5, QuietStep
<1>5. ASSUME NEW q \in Procs, ~Process!Alive(q), ~Process!Alive(file.pid), proc[p].cmd = "spawn",
             proc' = [proc EXCEPT ![p].pc = "await", ![q] = Process!Started("start")]
      PROVE  ProcessInv'
  <2>1. PICK r \in ProcessType : r = Process!Started("start") /\ r.pc = "clean"
    <3>1. PICK c \in Process!Commands : c = "start"
      BY DEF Process!Commands
    <3> QED BY <3>1, EndedIs
  <2>2. q # p /\ proc[q].pc = "none"
    BY <1>1, <1>5, ConstantsAssumption DEF Process!Alive, Process!DaemonAssumption
  <2>3. PICK a \in ProcessType : a = [proc[p] EXCEPT !.pc = "await"]
    BY <1>1 DEF ProcessType, Places
  <2>4. a.pc = "await" /\ proc' = [[proc EXCEPT ![p] = a] EXCEPT ![q] = r]
    BY <1>1, <1>5, <2>1, <2>3 DEF ProcessType
  <2>5. /\ proc' \in [Procs -> ProcessType] /\ proc'[q] = r /\ proc'[p] = a
        /\ \A s \in Procs : s # p /\ s # q => proc'[s] = proc[s]
    BY <1>1, <2>2, <2>4
  <2>6. Inert(proc[p]) /\ Inert(proc'[p])
    BY <1>1, <1>5, <2>4, <2>5 DEF Inert, Process!Moving
  <2>7. Others(q)
    BY <2>5, <2>6 DEF Others
  <2>8. /\ ~Bound(proc[q]) /\ ~Claims(proc[q]) /\ ~Bound(proc'[q])
        /\ proc'[q].pc \in {"clean", "check"} /\ proc'[q].pc \notin {"write", "bind", "loop"}
    BY <2>1, <2>2, <2>5 DEF Bound, Claims
  <2> QED BY <1>1, <2>7, <2>8, QuietStep
<1> QED BY <1>3, <1>4, <1>5 DEF Process!Check

LEMMA AwaitKeeps ==
    ASSUME ProcessInv, NEW p \in Procs, Process!Await(p), Process!Watch
    PROVE  ProcessInv'
<1>1. ~Bound(proc[p]) /\ ~Claims(proc[p])
  BY DEF Process!Await, Bound, Claims
<1> QED BY <1>1, ExitKeeps DEF Process!Await, Process!world


(* The part that tells of p, for a process on its way behind the first look. *)
LEMMA BehindTheLook ==
    ASSUME ProcessInv, NEW p \in Procs, Others(p), Process!Watch,
           Process!Moving(proc[p]), proc[p].pc \notin {"clean", "check"},
           alone /\ Sole => Tells(p)'
    PROVE  alone' \in BOOLEAN /\ (alone' => Sole')
<1>1. alone /\ Sole =>
         \A q \in Procs : q # p /\ proc[q].pc = "loop" =>
            /\ file' = file /\ endpoint' = endpoint
            /\ Process!Moving(proc'[p]) => proc'[p].pc \in {"clean", "check"}
  BY NobodyBehind
<1> QED BY <1>1, SoleKept

(* A step of a process without channels that leaves the channels and the     *)
(* downloads alone.                                                          *)
LEMMA OthersHold ==
    ASSUME ProcessInv, NEW p \in Procs, Others(p),
           UNCHANGED <<endpoint, port, http, jobs, late>>,
           ~Bound(proc[p]), ~Bound(proc'[p])
    PROVE  PortHeld' /\ EndpointHeld' /\ JobsHeld'
<1>1. PortHeld'
  BY PortKept DEF ProcessInv, PortHeld
<1>2. EndpointHeld'
  BY EndpointKept, PlaceIs DEF ProcessInv, EndpointHeld
<1>3. JobsHeld'
  BY JobsKept, PlaceIs DEF ProcessInv, JobsHeld
<1> QED BY <1>1, <1>2, <1>3

LEMMA CreateKeeps ==
    ASSUME ProcessInv, NEW p \in Procs, Process!Create(p), Process!Watch
    PROVE  ProcessInv'
<1>1. /\ proc \in [Procs -> ProcessType] /\ proc[p] \in ProcessType /\ proc[p].pc = "create"
      /\ UNCHANGED <<endpoint, port, http, jobs, saved, killed, late, commands>>
  BY StepIs DEF Process!Create
<1>2. ~Bound(proc[p]) /\ ~Claims(proc[p]) /\ Process!Moving(proc[p])
  BY <1>1 DEF Bound, Claims, Process!Moving
<1>3. CASE file = Process!NoFile /\ file' = [maker |-> p, pid |-> Nobody] /\ Process!Goto(p, "write")
  <2>1. Others(p) /\ proc'[p] = [proc[p] EXCEPT !.pc = "write"]
    BY <1>1, <1>3, GotoIs DEF Places
  <2>2. proc'[p].pc = "write"
    BY <1>1, <2>1 DEF ProcessType
  <2>3. ~Bound(proc'[p]) /\ Claims(proc'[p])
    BY <2>2 DEF Bound, Claims
  <2>4. /\ proc' \in [Procs -> ProcessType] /\ file'.maker = p
        /\ file' \in [maker : Procs \cup {Nobody}, pid : Procs \cup {Nobody}]
    BY <1>3, <2>1 DEF Others
  <2>5. Process!TypeOK'
    BY <1>1, <2>4, TypeIs DEF ProcessInv, Process!TypeOK, ProcessType, Places
  <2>6. PortHeld' /\ EndpointHeld' /\ JobsHeld'
    BY <1>1, <1>2, <2>1, <2>3, OthersHold
  <2>7. FileClaimed'
    BY <2>3, <2>4 DEF FileClaimed
  <2>8. Tells(p)'
    BY <1>3, <2>2 DEF Tells
  <2>9. alone' \in BOOLEAN /\ (alone' => Sole')
    BY <1>1, <1>2, <2>1, <2>8, BehindTheLook
  <2> QED BY <2>5, <2>6, <2>7, <2>9 DEF ProcessInv
<1>4. CASE file' = file /\ Process!Goto(p, "look")
  <2>1. Others(p) /\ proc'[p] = [proc[p] EXCEPT !.pc = "look"]
    BY <1>1, <1>4, GotoIs DEF Places
  <2>2. proc'[p].pc = "look"
    BY <1>1, <2>1 DEF ProcessType
  <2>3. ~Bound(proc'[p])
    BY <2>2 DEF Bound
  <2>5. alone /\ Sole =>
           \A q \in Procs : q # p /\ proc[q].pc = "loop" =>
              (Process!Moving(proc'[p]) => proc'[p].pc \in {"clean", "check"})
    BY <1>1, <1>2, NobodyBehind
  <2> QED BY <1>1, <1>2, <1>4, <2>1, <2>2, <2>3, <2>5, QuietStep
<1> QED BY <1>1, <1>3, <1>4 DEF Process!Create

LEMMA LookKeeps ==
    ASSUME ProcessInv, NEW p \in Procs, Process!Look(p), Process!Watch
    PROVE  ProcessInv'
<1>1. /\ proc \in [Procs -> ProcessType] /\ proc[p] \in ProcessType /\ proc[p].pc = "look"
      /\ UNCHANGED <<file, endpoint, port, http, jobs, saved, killed, late, commands>>
  BY StepIs DEF Process!Look, Process!world
<1>2. ~Bound(proc[p]) /\ ~Claims(proc[p]) /\ Process!Moving(proc[p])
  BY <1>1 DEF Bound, Claims, Process!Moving
<1>3. CASE Process!Exit(p)
  BY <1>1, <1>2, <1>3, ExitKeeps
<1>4. CASE ~Process!Exit(p)
  <2>1. PICK again \in BOOLEAN : again <=> proc[p].tries + 1 < Process!Attempts
    <3>1. (proc[p].tries + 1 < Process!Attempts) \in BOOLEAN
      OBVIOUS
    <3> QED BY <3>1, Zenon
  <2>2. proc' = [proc EXCEPT ![p].pc = "unlink",
                     ![p].tries = IF again THEN @ + 1 ELSE @,
                     ![p].then = IF again THEN "create" ELSE "none"]
    <3>1. proc' = [proc EXCEPT ![p].pc = "unlink",
                     ![p].tries = IF proc[p].tries + 1 < Process!Attempts THEN @ + 1 ELSE @,
                     ![p].then = IF proc[p].tries + 1 < Process!Attempts THEN "create" ELSE "none"]
      BY <1>4 DEF Process!Look
    <3> QED BY <2>1, <3>1
  <2>3. PICK r : r = [proc[p] EXCEPT !.pc = "unlink",
                     !.tries = IF again THEN @ + 1 ELSE @,
                     !.then = IF again THEN "create" ELSE "none"]
    OBVIOUS
  <2>4. (IF again THEN proc[p].tries + 1 ELSE proc[p].tries) \in 0..1
    <3>1. proc[p].tries \in 0..1
      BY <1>1 DEF ProcessType
    <3>2. CASE again
      BY <2>1, <3>1, <3>2 DEF Process!Attempts
    <3>3. CASE ~again
      BY <3>1, <3>3
    <3> QED BY <3>2, <3>3
  <2>5. r \in ProcessType /\ r.pc = "unlink" /\ r.then # "drain"
    BY <1>1, <2>3, <2>4 DEF ProcessType, Places
  <2>6. proc' = [proc EXCEPT ![p] = r]
    BY <1>1, <2>2, <2>3
  <2>7. Others(p) /\ proc'[p] = r
    BY <1>1, <2>5, <2>6, PutIs
  <2>8. ~Bound(proc'[p]) /\ proc'[p].pc \notin {"write", "bind", "loop"}
    BY <2>5, <2>7 DEF Bound
  <2>9. alone /\ Sole =>
           \A q \in Procs : q # p /\ proc[q].pc = "loop" =>
              (Process!Moving(proc'[p]) => proc'[p].pc \in {"clean", "check"})
    BY <1>1, <1>2, NobodyBehind
  <2> QED BY <1>1, <1>2, <2>7, <2>8, <2>9, QuietStep
<1> QED BY <1>3, <1>4


LEMMA TypeKept ==
    ASSUME ProcessInv, NEW p, Others(p),
           file' \in [maker : Procs \cup {Nobody}, pid : Procs \cup {Nobody}],
           endpoint' \in Procs \cup {Nobody}, port' \in Procs \cup {Nobody, "another program"},
           jobs' \subseteq Procs, saved' \in {"stopped", "downloading"}, commands' \in 0..MaxCommands
    PROVE  Process!TypeOK'
BY DEF Others, Process!TypeOK, ProcessType, Places

(* A start that fails goes on to remove its pid file.                        *)
LEMMA GiveUpKeeps ==
    ASSUME ProcessInv, NEW p \in Procs, Process!UnlinkThen(p, "none"), Process!Watch,
           UNCHANGED <<file, endpoint, port, http, jobs, saved, killed, late, commands>>,
           ~Bound(proc[p]), Process!Moving(proc[p]), proc[p].pc \notin {"clean", "check"}
    PROVE  ProcessInv'
<1>1. Others(p) /\ proc'[p].pc = "unlink" /\ proc'[p].then = "none"
  BY StepIs, UnlinkIs
<1>2. ~Bound(proc'[p]) /\ Claims(proc'[p]) /\ Tells(p)'
  BY <1>1 DEF Bound, Claims, Tells
<1>3. Process!TypeOK' /\ PortHeld' /\ EndpointHeld' /\ JobsHeld' /\ FileClaimed'
  BY <1>1, <1>2, PlaceIs, QuietKept
<1>4. alone' \in BOOLEAN /\ (alone' => Sole')
  BY <1>1, <1>2, BehindTheLook
<1> QED BY <1>3, <1>4 DEF ProcessInv

LEMMA WriteKeeps ==
    ASSUME ProcessInv, NEW p \in Procs, Process!Write(p), Process!Watch
    PROVE  ProcessInv'
<1>1. /\ proc \in [Procs -> ProcessType] /\ proc[p] \in ProcessType /\ proc[p].pc = "write"
      /\ file \in [maker : Procs \cup {Nobody}, pid : Procs \cup {Nobody}]
      /\ UNCHANGED <<endpoint, port, http, jobs, saved, killed, late, commands>>
  BY StepIs, TypeIs DEF Process!Write, ProcessInv
<1>2. ~Bound(proc[p]) /\ Claims(proc[p]) /\ Process!Moving(proc[p])
  BY <1>1 DEF Bound, Claims, Process!Moving
<1>3. CASE /\ file' = IF file.maker = p THEN [file EXCEPT !.pid = p] ELSE file
           /\ Process!Goto(p, "bind")
  <2>1. Others(p) /\ proc'[p] = [proc[p] EXCEPT !.pc = "bind"]
    BY <1>1, <1>3, GotoIs DEF Places
  <2>2. proc'[p].pc = "bind"
    BY <1>1, <2>1 DEF ProcessType
  <2>3. ~Bound(proc'[p]) /\ Claims(proc'[p])
    BY <2>2 DEF Bound, Claims
  <2>4. file' \in [maker : Procs \cup {Nobody}, pid : Procs \cup {Nobody}]
    BY <1>1, <1>3
  <2>5. Process!TypeOK'
    BY <1>1, <2>1, <2>4, TypeIs, TypeKept DEF ProcessInv
  <2>6. PortHeld' /\ EndpointHeld' /\ JobsHeld'
    BY <1>1, <1>2, <2>1, <2>3, OthersHold
  <2>7. FileClaimed'
    BY <1>1, <1>3, <2>1, <2>3, ClaimKept
  <2>8. alone /\ Sole => Tells(p)'
    <3> SUFFICES ASSUME Sole PROVE Tells(p)'
      OBVIOUS
    <3>1. file = [maker |-> p, pid |-> Nobody]
      BY <1>1 DEF Sole, Tells
    <3>2. file' = [maker |-> p, pid |-> p]
      BY <1>3, <3>1
    <3> QED BY <2>2, <3>2 DEF Tells
  <2>9. alone' \in BOOLEAN /\ (alone' => Sole')
    BY <1>1, <1>2, <2>1, <2>8, BehindTheLook
  <2> QED BY <2>5, <2>6, <2>7, <2>9 DEF ProcessInv
<1>4. CASE file' = file /\ Process!UnlinkThen(p, "none")
  BY <1>1, <1>2, <1>4, GiveUpKeeps
<1> QED BY <1>1, <1>3, <1>4 DEF Process!Write

LEMMA BindKeeps ==
    ASSUME ProcessInv, NEW p \in Procs, Process!Bind(p), Process!Watch
    PROVE  ProcessInv'
<1>1. /\ proc \in [Procs -> ProcessType] /\ proc[p] \in ProcessType /\ proc[p].pc = "bind"
      /\ port \in Procs \cup {Nobody, "another program"} /\ p # Nobody
      /\ UNCHANGED <<file, endpoint, http, jobs, saved, killed, late, commands>>
  BY StepIs, TypeIs, ConstantsAssumption DEF Process!Bind, ProcessInv, Process!DaemonAssumption
<1>2. ~Bound(proc[p]) /\ Claims(proc[p]) /\ Process!Moving(proc[p])
  BY <1>1 DEF Bound, Claims, Process!Moving
<1>3. CASE Process!Taken
  <2>1. port' = port /\ Process!UnlinkThen(p, "none")
    BY <1>3 DEF Process!Bind, Process!GiveUp
  <2> QED BY <1>1, <1>2, <2>1, GiveUpKeeps
<1>4. CASE ~Process!Taken
  <2>1. Process!Goto(p, "listen") /\ port' = (IF http THEN p ELSE port)
    BY <1>4 DEF Process!Bind
  <2>2. Others(p) /\ proc'[p] = [proc[p] EXCEPT !.pc = "listen"]
    BY <1>1, <2>1, GotoIs DEF Places
  <2>3. proc'[p].pc = "listen"
    BY <1>1, <2>2 DEF ProcessType
  <2>4. Bound(proc'[p]) /\ Claims(proc'[p]) /\ ~Downloads(proc[p]) /\ ~Answers(proc[p])
    BY <1>2, <2>3, PlaceIs DEF Bound, Claims
  <2>5. http => port = Nobody
    BY <1>4 DEF Process!Taken
  <2>6. Process!TypeOK'
    BY <1>1, <2>1, <2>2, TypeIs, TypeKept DEF ProcessInv
  <2>7. PortHeld'
    <3>1. \A q \in Procs : q # p => (port' = q <=> port = q)
      BY <2>1, <2>5, ConstantsAssumption DEF Process!DaemonAssumption
    <3> QED BY <1>1, <2>1, <2>2, <2>4, <3>1, PortKept
  <2>8. EndpointHeld' /\ JobsHeld' /\ FileClaimed'
    <3>1. EndpointHeld'
      BY <1>1, <2>2, <2>4, EndpointKept DEF ProcessInv, EndpointHeld
    <3>2. JobsHeld'
      BY <1>1, <2>2, <2>4, JobsKept DEF ProcessInv, JobsHeld
    <3>3. FileClaimed'
      BY <1>1, <2>2, <2>4, ClaimKept
    <3> QED BY <3>1, <3>2, <3>3
  <2>9. alone /\ Sole => Tells(p)'
    BY <1>1, <2>3 DEF Sole, Tells
  <2>10. alone' \in BOOLEAN /\ (alone' => Sole')
    BY <1>1, <1>2, <2>2, <2>9, BehindTheLook
  <2> QED BY <2>6, <2>7, <2>8, <2>10 DEF ProcessInv
<1> QED BY <1>3, <1>4

LEMMA ListenKeeps ==
    ASSUME ProcessInv, NEW p \in Procs, Process!Listen(p), Process!Watch
    PROVE  ProcessInv'
<1>1. /\ proc \in [Procs -> ProcessType] /\ proc[p] \in ProcessType /\ proc[p].pc = "listen"
      /\ endpoint' = p /\ Process!Goto(p, "install")
      /\ UNCHANGED <<file, port, http, jobs, saved, killed, late, commands>>
  BY StepIs DEF Process!Listen
<1>2. Bound(proc[p]) /\ Claims(proc[p]) /\ Process!Moving(proc[p]) /\ ~Downloads(proc[p])
  BY <1>1 DEF Bound, Claims, Process!Moving, Downloads, Answers
<1>3. Others(p) /\ proc'[p] = [proc[p] EXCEPT !.pc = "install"]
  BY <1>1, GotoIs DEF Places
<1>4. proc'[p].pc = "install"
  BY <1>1, <1>3 DEF ProcessType
<1>5. Bound(proc'[p]) /\ Answers(proc'[p]) /\ Downloads(proc'[p]) /\ Claims(proc'[p])
  BY <1>4 DEF Bound, Answers, Downloads, Claims
<1>6. Process!TypeOK'
  BY <1>1, <1>3, TypeIs, TypeKept DEF ProcessInv
<1>7. PortHeld'
  BY <1>1, <1>2, <1>3, <1>5, PortKept DEF ProcessInv, PortHeld
<1>8. EndpointHeld'
  BY <1>1, <1>3, <1>5, EndpointKept
<1>9. JobsHeld'
  BY <1>1, <1>3, <1>5, JobsKept
<1>10. FileClaimed'
  BY <1>1, <1>3, <1>5, ClaimKept
<1>11. alone /\ Sole => Tells(p)'
  BY <1>1, <1>4 DEF Sole, Tells
<1>12. alone' \in BOOLEAN /\ (alone' => Sole')
  BY <1>1, <1>2, <1>3, <1>11, BehindTheLook
<1> QED BY <1>6, <1>7, <1>8, <1>9, <1>10, <1>12 DEF ProcessInv

LEMMA InstallKeeps ==
    ASSUME ProcessInv, NEW p \in Procs, Process!Install(p), Process!Watch
    PROVE  ProcessInv'
<1>1. /\ proc \in [Procs -> ProcessType] /\ proc[p] \in ProcessType /\ proc[p].pc = "install"
      /\ Process!Goto(p, "resume")
      /\ UNCHANGED <<file, endpoint, port, http, jobs, saved, killed, late, commands>>
  BY StepIs DEF Process!Install, Process!world
<1>2. Others(p) /\ proc'[p] = [proc[p] EXCEPT !.pc = "resume"]
  BY <1>1, GotoIs DEF Places
<1>3. proc'[p].pc = "resume"
  BY <1>1, <1>2 DEF ProcessType
<1>4. /\ Bound(proc[p]) /\ Process!Moving(proc[p]) /\ Bound(proc'[p]) /\ Answers(proc'[p])
      /\ Downloads(proc'[p]) /\ Claims(proc'[p])
  BY <1>1, <1>3 DEF Bound, Process!Moving, Answers, Downloads, Claims
<1>5. Process!TypeOK' /\ PortHeld' /\ EndpointHeld' /\ JobsHeld' /\ FileClaimed'
  BY <1>1, <1>2, <1>4, QuietKept
<1>6. alone /\ Sole => Tells(p)'
  BY <1>1, <1>3 DEF Sole, Tells
<1>7. alone' \in BOOLEAN /\ (alone' => Sole')
  BY <1>1, <1>2, <1>4, <1>6, BehindTheLook
<1> QED BY <1>5, <1>7 DEF ProcessInv

LEMMA ResumeKeeps ==
    ASSUME ProcessInv, NEW p \in Procs, Process!Resume(p), Process!Watch
    PROVE  ProcessInv'
<1>1. /\ proc \in [Procs -> ProcessType] /\ proc[p] \in ProcessType /\ proc[p].pc = "resume"
      /\ Process!Goto(p, "loop") /\ jobs' \subseteq jobs \cup {p} /\ jobs \subseteq Procs
      /\ UNCHANGED <<file, endpoint, port, http, saved, killed, late, commands>>
  BY StepIs, TypeIs DEF Process!Resume, ProcessInv
<1>2. Others(p) /\ proc'[p] = [proc[p] EXCEPT !.pc = "loop"]
  BY <1>1, GotoIs DEF Places
<1>3. proc'[p].pc = "loop"
  BY <1>1, <1>2 DEF ProcessType
<1>4. /\ Bound(proc[p]) /\ Process!Moving(proc[p]) /\ Bound(proc'[p]) /\ Answers(proc'[p])
      /\ Downloads(proc'[p]) /\ Claims(proc'[p])
  BY <1>1, <1>3 DEF Bound, Process!Moving, Answers, Downloads, Claims
<1>5. Process!TypeOK'
  BY <1>1, <1>2, TypeIs, TypeKept DEF ProcessInv
<1>6. PortHeld'
  BY <1>1, <1>2, <1>4, PortKept DEF ProcessInv, PortHeld
<1>7. EndpointHeld'
  BY <1>1, <1>2, <1>4, EndpointKept
<1>8. JobsHeld'
  BY <1>1, <1>2, <1>4, JobsKept
<1>9. FileClaimed'
  BY <1>1, <1>2, <1>4, ClaimKept
<1>10. alone /\ Sole => Tells(p)'
  BY <1>1, <1>3 DEF Sole, Tells
<1>11. alone' \in BOOLEAN /\ (alone' => Sole')
  BY <1>1, <1>2, <1>4, <1>10, BehindTheLook
<1> QED BY <1>5, <1>6, <1>7, <1>8, <1>9, <1>11 DEF ProcessInv


(* A process stays where it is.                                              *)
LEMMA SoleStays ==
    ASSUME ProcessInv, NEW p \in Procs, Others(p), Process!Watch,
           proc'[p].pc = proc[p].pc, proc'[p].cmd = proc[p].cmd,
           file' = file, endpoint' = endpoint
    PROVE  alone' \in BOOLEAN /\ (alone' => Sole')
<1>1. alone /\ Sole => Tells(p)'
  BY DEF Sole, Tells
<1>2. alone /\ Sole =>
         \A q \in Procs : q # p /\ proc[q].pc = "loop" =>
            /\ file' = file /\ endpoint' = endpoint
            /\ Process!Moving(proc'[p]) => proc'[p].pc \in {"clean", "check"}
  BY DEF Sole, NobodyPasses, Process!Moving
<1> QED BY <1>1, <1>2, SoleKept

LEMMA BeginKeeps ==
    ASSUME ProcessInv, NEW p \in Procs, Process!Begin(p), Process!Watch
    PROVE  ProcessInv'
<1>1. /\ proc \in [Procs -> ProcessType] /\ jobs \subseteq Procs
      /\ jobs' = jobs \cup {p} /\ saved' = "downloading"
      /\ UNCHANGED <<proc, file, endpoint, port, http, killed, late, commands>>
  BY StepIs, TypeIs DEF Process!Begin, ProcessInv
<1>2. Others(p) /\ proc'[p] = proc[p]
  BY <1>1 DEF Others
<1>3. Downloads(proc'[p])
  BY <1>2 DEF Process!Begin, Process!Handles, Downloads, Answers, Bound
<1>4. Process!TypeOK'
  BY <1>1, <1>2, TypeIs, TypeKept DEF ProcessInv
<1>5. PortHeld' /\ EndpointHeld' /\ FileClaimed'
  BY <1>1, <1>2, ClaimStays DEF ProcessInv, PortHeld, EndpointHeld
<1>6. JobsHeld'
  BY <1>1, <1>2, <1>3, JobsKept
<1>7. alone' \in BOOLEAN /\ (alone' => Sole')
  BY <1>1, <1>2, SoleStays
<1> QED BY <1>4, <1>5, <1>6, <1>7 DEF ProcessInv

LEMMA JobEndsKeeps ==
    ASSUME ProcessInv, NEW p \in Procs, Process!JobEnds(p), Process!Watch
    PROVE  ProcessInv'
<1>1. /\ proc \in [Procs -> ProcessType] /\ jobs \subseteq Procs
      /\ jobs' = jobs \ {p} /\ saved' = "stopped"
      /\ UNCHANGED <<proc, file, endpoint, port, http, killed, late, commands>>
  BY StepIs, TypeIs DEF Process!JobEnds, ProcessInv
<1>2. Others(p) /\ proc'[p] = proc[p]
  BY <1>1 DEF Others
<1>3. Process!TypeOK'
  BY <1>1, <1>2, TypeIs, TypeKept DEF ProcessInv
<1>4. PortHeld' /\ EndpointHeld' /\ FileClaimed'
  BY <1>1, <1>2, ClaimStays DEF ProcessInv, PortHeld, EndpointHeld
<1>5. JobsHeld'
  BY <1>1, <1>2, JobsKept
<1>6. alone' \in BOOLEAN /\ (alone' => Sole')
  BY <1>1, <1>2, SoleStays
<1> QED BY <1>3, <1>4, <1>5, <1>6 DEF ProcessInv

LEMMA InterruptKeeps ==
    ASSUME ProcessInv, NEW p \in Procs, Process!Interrupt(p), Process!Watch
    PROVE  ProcessInv'
<1>1. /\ proc \in [Procs -> ProcessType] /\ proc[p] \in ProcessType
      /\ proc' = [proc EXCEPT ![p].run = FALSE]
      /\ UNCHANGED <<file, endpoint, port, http, jobs, saved, killed, late, commands>>
  BY StepIs DEF Process!Interrupt, Process!world
<1>2. PICK r : r = [proc[p] EXCEPT !.run = FALSE]
  OBVIOUS
<1>3. /\ r \in ProcessType /\ r.pc = proc[p].pc /\ r.then = proc[p].then /\ r.cmd = proc[p].cmd
      /\ proc' = [proc EXCEPT ![p] = r]
  BY <1>1, <1>2 DEF ProcessType
<1>4. Others(p) /\ proc'[p] = r
  BY <1>1, <1>3, PutIs
<1>5. /\ Bound(proc'[p]) <=> Bound(proc[p])
      /\ Answers(proc'[p]) <=> Answers(proc[p])
      /\ Downloads(proc'[p]) <=> Downloads(proc[p])
      /\ Claims(proc'[p]) <=> Claims(proc[p])
  BY <1>3, <1>4 DEF Bound, Answers, Downloads, Claims
<1>6. Process!TypeOK' /\ PortHeld' /\ EndpointHeld' /\ JobsHeld' /\ FileClaimed'
  BY <1>1, <1>4, <1>5, QuietKept
<1>7. alone' \in BOOLEAN /\ (alone' => Sole')
  BY <1>1, <1>3, <1>4, SoleStays
<1> QED BY <1>6, <1>7 DEF ProcessInv

LEMMA LeaveKeeps ==
    ASSUME ProcessInv, NEW p \in Procs, Process!Leave(p), Process!Watch
    PROVE  ProcessInv'
<1>1. /\ proc \in [Procs -> ProcessType] /\ proc[p].pc = "loop"
      /\ Process!UnlinkThen(p, "drain")
      /\ UNCHANGED <<file, endpoint, port, http, jobs, saved, killed, late, commands>>
  BY StepIs DEF Process!Leave, Process!world
<1>2. Others(p) /\ proc'[p].pc = "unlink" /\ proc'[p].then = "drain"
  BY <1>1, UnlinkIs
<1>3. /\ Bound(proc[p]) /\ Bound(proc'[p]) /\ Answers(proc'[p])
      /\ Downloads(proc'[p]) /\ Claims(proc'[p])
  BY <1>1, <1>2 DEF Bound, Answers, Downloads, Claims
<1>4. Process!TypeOK' /\ PortHeld' /\ EndpointHeld' /\ JobsHeld' /\ FileClaimed'
  BY <1>1, <1>2, <1>3, QuietKept
<1>5. Tells(p)' /\ proc'[p].pc # "loop"
  BY <1>2 DEF Tells
<1>6. ASSUME Sole, NEW q \in Procs, proc[q].pc = "loop" PROVE q = p
  <2>1. endpoint = q /\ endpoint = p
    BY <1>1, <1>6 DEF Sole, Tells
  <2> QED BY <2>1
<1>7. alone /\ Sole =>
         \A q \in Procs : q # p /\ proc[q].pc = "loop" =>
            /\ file' = file /\ endpoint' = endpoint
            /\ Process!Moving(proc'[p]) => proc'[p].pc \in {"clean", "check"}
  BY <1>6
<1>8. alone' \in BOOLEAN /\ (alone' => Sole')
  BY <1>1, <1>2, <1>5, <1>7, SoleKept
<1> QED BY <1>4, <1>8 DEF ProcessInv

LEMMA DrainKeeps ==
    ASSUME ProcessInv, NEW p \in Procs, Process!Drain(p), Process!Watch
    PROVE  ProcessInv'
<1>1. /\ proc \in [Procs -> ProcessType] /\ proc[p] \in ProcessType /\ proc[p].pc = "drain"
      /\ Process!Goto(p, "destroy") /\ (late => late') /\ (late' \/ p \notin jobs)
      /\ UNCHANGED <<file, endpoint, port, http, jobs, saved, killed, commands>>
  BY StepIs DEF Process!Drain, Process!world
<1>2. Others(p) /\ proc'[p] = [proc[p] EXCEPT !.pc = "destroy"]
  BY <1>1, GotoIs DEF Places
<1>3. proc'[p].pc = "destroy"
  BY <1>1, <1>2 DEF ProcessType
<1>4. /\ Bound(proc[p]) /\ Bound(proc'[p]) /\ Answers(proc'[p]) /\ ~Claims(proc[p])
      /\ Process!Moving(proc[p])
  BY <1>1, <1>3 DEF Bound, Answers, Claims, Process!Moving
<1>5. Process!TypeOK' /\ PortHeld' /\ EndpointHeld' /\ JobsHeld' /\ FileClaimed'
  BY <1>1, <1>2, <1>4, QuietKept
<1>6. Tells(p)'
  BY <1>3 DEF Tells
<1>7. alone' \in BOOLEAN /\ (alone' => Sole')
  BY <1>1, <1>2, <1>4, <1>6, BehindTheLook
<1> QED BY <1>5, <1>7 DEF ProcessInv

LEMMA DestroyKeeps ==
    ASSUME ProcessInv, NEW p \in Procs, Process!Destroy(p), Process!Watch
    PROVE  ProcessInv'
<1>1. /\ proc \in [Procs -> ProcessType] /\ proc[p].pc = "destroy" /\ p # Nobody
      /\ port \in Procs \cup {Nobody, "another program"} /\ jobs \subseteq Procs
      /\ Process!UnlinkThen(p, "none") /\ endpoint' = Nobody
      /\ port' = (IF port = p THEN Nobody ELSE port)
      /\ UNCHANGED <<file, http, jobs, saved, killed, late, commands>>
  BY StepIs, TypeIs, ConstantsAssumption
     DEF Process!Destroy, Process!Without, ProcessInv, Process!DaemonAssumption
<1>2. Others(p) /\ proc'[p].pc = "unlink" /\ proc'[p].then = "none"
  BY <1>1, UnlinkIs
<1>3. /\ ~Downloads(proc[p]) /\ Process!Moving(proc[p])
      /\ ~Bound(proc'[p]) /\ Claims(proc'[p])
  BY <1>1, <1>2 DEF Bound, Answers, Downloads, Claims, Process!Moving
<1>4. Nobody \notin Procs
  BY ConstantsAssumption DEF Process!DaemonAssumption
<1>5. Process!TypeOK'
  BY <1>1, <1>2, TypeIs, TypeKept DEF ProcessInv
<1>6. PortHeld'
  <2>1. port' # p /\ \A q \in Procs : q # p => (port' = q <=> port = q)
    BY <1>1, <1>4
  <2> QED BY <1>1, <1>2, <1>3, <2>1, PortKept
<1>7. EndpointHeld'
  BY <1>1, <1>4 DEF EndpointHeld
<1>8. JobsHeld'
  BY <1>1, <1>2, <1>3, JobsKept DEF ProcessInv, JobsHeld
<1>9. FileClaimed'
  BY <1>1, <1>2, <1>3, ClaimStays
<1>10. Tells(p)'
  BY <1>2 DEF Tells
<1>11. alone' \in BOOLEAN /\ (alone' => Sole')
  BY <1>1, <1>2, <1>3, <1>10, BehindTheLook
<1> QED BY <1>5, <1>6, <1>7, <1>8, <1>9, <1>11 DEF ProcessInv

LEMMA UnlinkKeeps ==
    ASSUME ProcessInv, NEW p \in Procs, Process!Unlink(p), Process!Watch
    PROVE  ProcessInv'
<1>1. /\ proc \in [Procs -> ProcessType] /\ proc[p] \in ProcessType /\ proc[p].pc = "unlink"
      /\ file' = Process!NoFile /\ jobs \subseteq Procs
      /\ UNCHANGED <<endpoint, port, http, saved, killed, late, commands>>
  BY StepIs, TypeIs DEF Process!Unlink, ProcessInv
<1>2. Process!Moving(proc[p])
  BY <1>1 DEF Process!Moving
<1>3. file' \in [maker : Procs \cup {Nobody}, pid : Procs \cup {Nobody}] /\ FileClaimed'
  BY <1>1 DEF Process!NoFile, FileClaimed
<1>4. CASE proc[p].then = "none"
  <2>1. Process!Exit(p) /\ jobs' = jobs \ {p}
    BY <1>4 DEF Process!Unlink
  <2>2. Others(p) /\ proc'[p].pc = "none"
    BY <1>1, <2>1, ExitIs
  <2>3. ~Bound(proc[p]) /\ ~Bound(proc'[p]) /\ Tells(p)'
    BY <1>1, <1>4, <2>2 DEF Bound, Tells
  <2>4. Process!TypeOK'
    BY <1>1, <1>3, <2>1, <2>2, TypeIs, TypeKept DEF ProcessInv
  <2>5. PortHeld'
    BY <1>1, <2>2, <2>3, PortKept DEF ProcessInv, PortHeld
  <2>6. EndpointHeld'
    BY <1>1, <2>2, <2>3, PlaceIs, EndpointKept DEF ProcessInv, EndpointHeld
  <2>7. JobsHeld'
    BY <1>1, <2>1, <2>2, JobsKept
  <2>8. alone' \in BOOLEAN /\ (alone' => Sole')
    BY <1>1, <1>2, <2>2, <2>3, BehindTheLook
  <2> QED BY <1>3, <2>4, <2>5, <2>6, <2>7, <2>8 DEF ProcessInv
<1>5. CASE proc[p].then # "none"
  <2>1. Process!Goto(p, proc[p].then) /\ jobs' = jobs
    BY <1>5 DEF Process!Unlink
  <2>2. PICK place \in {"check", "create", "drain"} :
           place = proc[p].then /\ Process!Goto(p, place)
    BY <1>1, <1>5, <2>1 DEF ProcessType
  <2>11. place \in Places
    BY DEF Places
  <2>3. Others(p) /\ proc'[p] = [proc[p] EXCEPT !.pc = place]
    BY <1>1, <2>2, <2>11, GotoIs
  <2>4. proc'[p].pc = place
    BY <1>1, <2>3 DEF ProcessType
  <2>5. /\ Bound(proc[p]) <=> Bound(proc'[p])
        /\ Answers(proc[p]) => Answers(proc'[p])
        /\ Downloads(proc[p]) => Downloads(proc'[p])
        /\ Tells(p)'
    BY <1>1, <2>2, <2>4 DEF Bound, Answers, Downloads, Tells
  <2>6. Process!TypeOK'
    BY <1>1, <1>3, <2>1, <2>3, TypeIs, TypeKept DEF ProcessInv
  <2>7. PortHeld'
    BY <1>1, <2>3, <2>5, PortKept DEF ProcessInv, PortHeld
  <2>8. EndpointHeld'
    BY <1>1, <2>3, <2>5, EndpointKept DEF ProcessInv, EndpointHeld
  <2>9. JobsHeld'
    BY <1>1, <2>1, <2>3, <2>5, JobsKept DEF ProcessInv, JobsHeld
  <2>10. alone' \in BOOLEAN /\ (alone' => Sole')
    BY <1>1, <1>2, <2>3, <2>5, BehindTheLook
  <2> QED BY <1>3, <2>6, <2>7, <2>8, <2>9, <2>10 DEF ProcessInv
<1> QED BY <1>4, <1>5


(* A command that holds nothing goes on to hold nothing, or begins again.    *)
LEMMA CommandKeeps ==
    ASSUME ProcessInv, NEW p \in Procs, Others(p), Process!Watch,
           UNCHANGED <<file, endpoint, port, http, jobs, saved, killed, late>>,
           commands' \in 0..MaxCommands,
           ~Bound(proc[p]), ~Claims(proc[p]),
           Inert(proc'[p]) \/ proc'[p].pc = "clean"
    PROVE  ProcessInv'
<1>1. ~Bound(proc'[p]) /\ proc'[p].pc # "loop" /\ Tells(p)'
  BY DEF Inert, Process!Moving, Bound, Tells
<1>2. Process!TypeOK'
  BY TypeIs, TypeKept DEF ProcessInv
<1>3. PortHeld' /\ EndpointHeld' /\ JobsHeld'
  BY <1>1, OthersHold
<1>4. FileClaimed'
  BY ClaimStays
<1>5. alone /\ Sole =>
         \A q \in Procs : q # p /\ proc[q].pc = "loop" =>
            /\ file' = file /\ endpoint' = endpoint
            /\ Process!Moving(proc'[p]) => proc'[p].pc \in {"clean", "check"}
  BY DEF Inert
<1>6. alone' \in BOOLEAN /\ (alone' => Sole')
  BY <1>1, <1>5, SoleKept
<1> QED BY <1>2, <1>3, <1>4, <1>6 DEF ProcessInv

LEMMA DoneKeeps ==
    ASSUME ProcessInv, NEW p \in Procs, Process!Done(p), Process!Watch,
           UNCHANGED <<file, endpoint, port, http, jobs, saved, killed, late, commands>>,
           ~Bound(proc[p]), ~Claims(proc[p])
    PROVE  ProcessInv'
<1>1. PICK c \in Process!Commands : c = "start"
  BY DEF Process!Commands
<1>2. PICK r : /\ r = IF proc[p].cmd = "restart" THEN Process!Started(c) ELSE Process!Ended
               /\ proc' = [proc EXCEPT ![p] = r]
  BY <1>1 DEF Process!Done
<1>3. r \in ProcessType /\ r.pc \in {"none", "clean"}
  BY <1>2, EndedIs
<1>4. Others(p) /\ proc'[p] = r
  BY <1>2, <1>3, StepIs, PutIs
<1>5. Inert(proc'[p]) \/ proc'[p].pc = "clean"
  BY <1>3, <1>4 DEF Inert, Process!Moving
<1>6. commands' \in 0..MaxCommands
  BY TypeIs DEF ProcessInv
<1> QED BY <1>4, <1>5, <1>6, CommandKeeps

LEMMA FindKeeps ==
    ASSUME ProcessInv, NEW p \in Procs, Process!Find(p), Process!Watch
    PROVE  ProcessInv'
<1>1. /\ proc \in [Procs -> ProcessType] /\ proc[p] \in ProcessType /\ proc[p].pc = "find"
      /\ file.pid \in Procs \cup {Nobody} /\ commands' \in 0..MaxCommands
      /\ UNCHANGED <<file, endpoint, port, http, jobs, saved, killed, late, commands>>
  BY StepIs, TypeIs DEF Process!Find, Process!world, ProcessInv
<1>2. ~Bound(proc[p]) /\ ~Claims(proc[p])
  BY <1>1 DEF Bound, Claims
<1>3. CASE Process!Done(p)
  BY <1>1, <1>2, <1>3, DoneKeeps
<1>4. CASE Process!Exit(p)
  BY <1>1, <1>2, <1>4, ExitKeeps
<1>5. CASE proc' = [proc EXCEPT ![p].seen = file.pid,
                        ![p].pc = IF proc[p].cmd = "reload" THEN "hup" ELSE "signal"]
  <2>1. PICK place \in {"hup", "signal"} :
           place = IF proc[p].cmd = "reload" THEN "hup" ELSE "signal"
    OBVIOUS
  <2>2. PICK r : r = [proc[p] EXCEPT !.seen = file.pid, !.pc = place]
    OBVIOUS
  <2>3. r \in ProcessType /\ r.pc = place
    BY <1>1, <2>2 DEF ProcessType, Places
  <2>4. proc' = [proc EXCEPT ![p] = r]
    BY <1>1, <1>5, <2>1, <2>2
  <2>5. Others(p) /\ proc'[p] = r
    BY <1>1, <2>3, <2>4, PutIs
  <2>6. Inert(proc'[p])
    BY <2>3, <2>5 DEF Inert, Process!Moving
  <2> QED BY <1>1, <1>2, <2>5, <2>6, CommandKeeps
<1> QED BY <1>3, <1>4, <1>5 DEF Process!Find

LEMMA PollStopKeeps ==
    ASSUME ProcessInv, NEW p \in Procs, Process!Poll(p), Process!Watch
    PROVE  ProcessInv'
<1>1. /\ proc[p].pc = "poll"
      /\ UNCHANGED <<file, endpoint, port, http, jobs, saved, killed, late, commands>>
      /\ Process!Exit(p) \/ Process!Done(p)
  BY DEF Process!Poll, Process!world
<1>2. ~Bound(proc[p]) /\ ~Claims(proc[p])
  BY <1>1 DEF Bound, Claims
<1> QED BY <1>1, <1>2, ExitKeeps, DoneKeeps

(* A process is killed, whatever it was doing.                               *)
LEMMA KillKeeps ==
    ASSUME ProcessInv, NEW q \in Procs, Others(q), Process!Watch, Inert(proc'[q]),
           Process!Die(q), UNCHANGED <<file, http, saved, late, commands>>
    PROVE  ProcessInv'
<1>1. /\ Nobody \notin Procs /\ killed'
      /\ endpoint' = (IF endpoint = q THEN Nobody ELSE endpoint)
      /\ port' = (IF port = q THEN Nobody ELSE port) /\ jobs' = jobs \ {q}
  BY ConstantsAssumption DEF Process!Die, Process!Without, Process!DaemonAssumption
<1>2. ~Bound(proc'[q]) /\ proc'[q].pc # "loop" /\ Tells(q)' /\ ~Process!Moving(proc'[q])
  BY DEF Inert, Process!Moving, Bound, Tells
<1>3. Process!TypeOK'
  BY <1>1, TypeIs, TypeKept DEF ProcessInv
<1>4. PortHeld'
  <2>1. port' # q /\ \A s \in Procs : s # q => (port' = s <=> port = s)
    BY <1>1
  <2> QED BY <1>2, <2>1, PortKept
<1>5. EndpointHeld'
  <2>1. endpoint' # q /\ \A s \in Procs : s # q => (endpoint' = s => endpoint = s)
    BY <1>1
  <2> QED BY <2>1, EndpointKept
<1>6. JobsHeld'
  BY <1>1, JobsKept
<1>7. FileClaimed'
  BY <1>1 DEF FileClaimed
<1>8. CASE Process!Moving(proc[q]) \/ proc[q].pc = "loop"
  <2>1. alone /\ Sole =>
           \A s \in Procs : s # q /\ proc[s].pc = "loop" =>
              /\ file' = file /\ endpoint' = endpoint
              /\ Process!Moving(proc'[q]) => proc'[q].pc \in {"clean", "check"}
    BY <1>1, <1>2 DEF Sole, Tells
  <2>2. alone' \in BOOLEAN /\ (alone' => Sole')
    BY <1>2, <1>8, <2>1, SoleKept
  <2> QED BY <1>3, <1>4, <1>5, <1>6, <1>7, <2>2 DEF ProcessInv
<1>9. CASE ~(Process!Moving(proc[q]) \/ proc[q].pc = "loop")
  <2>1. ~Answers(proc[q])
    BY <1>9, PlaceIs
  <2>2. endpoint' = endpoint
    BY <1>1, <2>1 DEF ProcessInv, EndpointHeld
  <2>3. alone /\ Sole =>
           \A s \in Procs : s # q /\ proc[s].pc = "loop" =>
              /\ file' = file /\ endpoint' = endpoint
              /\ Process!Moving(proc'[q]) => proc'[q].pc \in {"clean", "check"}
    BY <1>2, <2>2
  <2>4. alone' \in BOOLEAN /\ (alone' => Sole')
    BY <1>2, <2>2, <2>3, SoleKept
  <2> QED BY <1>3, <1>4, <1>5, <1>6, <1>7, <2>4 DEF ProcessInv
<1> QED BY <1>8, <1>9

(* What a signal leaves: its target ended, and the command done or waiting.  *)
LEMMA SignalledIs ==
    ASSUME proc \in [Procs -> ProcessType], NEW p \in Procs, NEW q \in Procs,
           Inert(proc[p]), NEW a \in ProcessType, Inert(a),
           NEW e \in ProcessType, Inert(e),
           proc' = [[proc EXCEPT ![q] = e] EXCEPT ![p] = a]
    PROVE  Others(q) /\ Inert(proc'[q])
<1>1. /\ proc' \in [Procs -> ProcessType] /\ proc'[p] = a
      /\ \A s \in Procs : s # p => proc'[s] = IF s = q THEN e ELSE proc[s]
  OBVIOUS
<1> QED BY <1>1 DEF Others

LEMMA SignalKeeps ==
    ASSUME ProcessInv, NEW p \in Procs, Process!Signal(p), Process!Watch
    PROVE  ProcessInv'
<1> DEFINE q == proc[p].seen
<1>1. /\ proc \in [Procs -> ProcessType] /\ proc[p] \in ProcessType /\ proc[p].pc = "signal"
      /\ UNCHANGED <<file, http, saved, late, commands>>
  BY StepIs DEF Process!Signal
<1>2. ~Bound(proc[p]) /\ ~Claims(proc[p]) /\ Inert(proc[p])
  BY <1>1 DEF Bound, Claims, Inert, Process!Moving
<1>3. CASE ~Process!Alive(q)
  <2>1. Process!Exit(p) /\ UNCHANGED <<endpoint, port, jobs, killed>>
    BY <1>3 DEF Process!Signal
  <2> QED BY <1>1, <1>2, <2>1, ExitKeeps
<1>4. CASE Process!Alive(q)
  <2>1. PICK e \in ProcessType : e = Process!Ended /\ e.pc = "none"
    BY EndedIs
  <2>2. PICK v \in Procs : v = q
    BY <1>1, <1>4 DEF Process!Alive, ProcessType
  <2>3. PICK waits \in BOOLEAN : waits <=> proc[p].cmd \in {"stopwait", "restart"}
    <3>1. (proc[p].cmd \in {"stopwait", "restart"}) \in BOOLEAN
      OBVIOUS
    <3> QED BY <3>1, Zenon
  <2>4. /\ proc' = [proc EXCEPT ![v] = e,
                                ![p] = IF waits THEN [proc[p] EXCEPT !.pc = "poll"] ELSE e]
        /\ Process!Die(v)
    <3>1. /\ proc' = [proc EXCEPT ![q] = Process!Ended,
                 ![p] = IF proc[p].cmd \in {"stopwait", "restart"}
                        THEN [proc[p] EXCEPT !.pc = "poll"] ELSE Process!Ended]
          /\ Process!Die(q)
      BY <1>4 DEF Process!Signal
    <3> HIDE DEF q
    <3> QED BY <2>1, <2>2, <2>3, <3>1
  <2>6. PICK a : a = IF waits THEN [proc[p] EXCEPT !.pc = "poll"] ELSE e
    OBVIOUS
  <2>7. a \in ProcessType /\ a.pc \in {"none", "poll"}
    BY <1>1, <2>1, <2>6 DEF ProcessType, Places
  <2>8. proc' = [[proc EXCEPT ![v] = e] EXCEPT ![p] = a]
    BY <1>1, <2>4, <2>6
  <2>9. Inert(a) /\ Inert(e)
    BY <2>1, <2>7 DEF Inert, Process!Moving
  <2>10. Others(v) /\ Inert(proc'[v])
    BY <1>1, <1>2, <2>7, <2>8, <2>9, SignalledIs
  <2> QED BY <1>1, <2>4, <2>10, KillKeeps
<1> QED BY <1>3, <1>4

LEMMA HupKeeps ==
    ASSUME ProcessInv, NEW p \in Procs, Process!Hup(p), Process!Watch
    PROVE  ProcessInv'
<1> DEFINE q == proc[p].seen
<1>1. /\ proc \in [Procs -> ProcessType] /\ proc[p] \in ProcessType /\ proc[p].pc = "hup"
      /\ UNCHANGED <<file, http, saved, late, commands>>
  BY StepIs DEF Process!Hup
<1>2. ~Bound(proc[p]) /\ ~Claims(proc[p]) /\ Inert(proc[p])
  BY <1>1 DEF Bound, Claims, Inert, Process!Moving
<1>3. CASE ~(Process!Alive(q) /\ ~Process!Handles(q))
  <2>1. Process!Exit(p) /\ UNCHANGED <<endpoint, port, jobs, killed>>
    BY <1>3 DEF Process!Hup
  <2> QED BY <1>1, <1>2, <2>1, ExitKeeps
<1>4. CASE Process!Alive(q) /\ ~Process!Handles(q)
  <2>1. PICK e \in ProcessType : e = Process!Ended /\ e.pc = "none"
    BY EndedIs
  <2>2. PICK v \in Procs : v = q
    BY <1>1, <1>4 DEF Process!Alive, ProcessType
  <2>3. proc' = [proc EXCEPT ![v] = e, ![p] = e] /\ Process!Die(v)
    BY <1>4, <2>1, <2>2 DEF Process!Hup
  <2>4. Inert(e)
    BY <2>1 DEF Inert, Process!Moving
  <2>5. Others(v) /\ Inert(proc'[v])
    BY <1>1, <1>2, <2>3, <2>4, SignalledIs
  <2> QED BY <1>1, <2>3, <2>5, KillKeeps
<1> QED BY <1>3, <1>4

LEMMA LaunchKeeps ==
    ASSUME ProcessInv, NEW p \in Procs, NEW c \in Process!Commands, Process!Launch(p, c),
           Process!Watch
    PROVE  ProcessInv'
<1>1. /\ proc \in [Procs -> ProcessType] /\ commands \in 0..MaxCommands /\ MaxCommands \in Nat
      /\ p # Nobody /\ ~Process!Alive(p) /\ commands < MaxCommands /\ commands' = commands + 1
      /\ UNCHANGED <<file, endpoint, port, http, jobs, saved, killed, late>>
  BY StepIs, TypeIs, ConstantsAssumption
     DEF Process!Launch, Process!world, ProcessInv, Process!DaemonAssumption
<1>2. ~Bound(proc[p]) /\ ~Claims(proc[p])
  BY <1>1 DEF Process!Alive, Bound, Claims
<1>3. PICK r : /\ r = IF c \in {"start", "spawn"} THEN Process!Started(c)
                      ELSE [Process!Ended EXCEPT !.pc = "find", !.cmd = c]
               /\ proc' = [proc EXCEPT ![p] = r]
  BY DEF Process!Launch
<1>4. r \in ProcessType /\ r.pc \in {"clean", "find"}
  <2>1. PICK e \in ProcessType : e = Process!Ended
    BY EndedIs
  <2>2. /\ [e EXCEPT !.pc = "find", !.cmd = c] \in ProcessType
        /\ [e EXCEPT !.pc = "find", !.cmd = c].pc = "find"
    BY DEF ProcessType, Places
  <2> QED BY <1>3, <2>1, <2>2, EndedIs
<1>5. Others(p) /\ proc'[p] = r
  BY <1>1, <1>3, <1>4, PutIs
<1>6. Inert(proc'[p]) \/ proc'[p].pc = "clean"
  BY <1>4, <1>5 DEF Inert, Process!Moving
<1>7. commands' \in 0..MaxCommands
  BY <1>1
<1> QED BY <1>1, <1>2, <1>5, <1>6, <1>7, CommandKeeps

LEMMA ProcessStepKeeps ==
    ASSUME ProcessInv, NEW p \in Procs, Process!Step(p), Process!Watch
    PROVE  ProcessInv'
BY CleanKeeps, CheckKeeps, AwaitKeeps, CreateKeeps, LookKeeps, WriteKeeps, BindKeeps,
   ListenKeeps, InstallKeeps, ResumeKeeps, LeaveKeeps, DrainKeeps, DestroyKeeps, UnlinkKeeps,
   FindKeeps, SignalKeeps, PollStopKeeps, HupKeeps DEF Process!Step

LEMMA ProcessNextInv == ProcessInv /\ Process!Next => ProcessInv'
BY ProcessStepKeeps, BeginKeeps, JobEndsKeeps, InterruptKeeps, LaunchKeeps DEF Process!Next

LEMMA ProcessStutterInv == ProcessInv /\ UNCHANGED processVars => ProcessInv'
<1> SUFFICES ASSUME ProcessInv, UNCHANGED processVars PROVE ProcessInv'
  OBVIOUS
<1>1. UNCHANGED <<proc, file, endpoint, port, http, jobs, saved, alone, killed, late, commands>>
  BY DEF processVars
<1>2. Process!TypeOK'
  BY <1>1 DEF ProcessInv, Process!TypeOK
<1>3. PortHeld' /\ EndpointHeld'
  BY <1>1 DEF ProcessInv, PortHeld, EndpointHeld
<1>4. JobsHeld' /\ FileClaimed'
  BY <1>1 DEF ProcessInv, JobsHeld, FileClaimed
<1>5. alone' \in BOOLEAN /\ (alone' => Sole')
  BY <1>1 DEF ProcessInv, Sole, OneMoves, NobodyPasses, Tells
<1> QED BY <1>2, <1>3, <1>4, <1>5 DEF ProcessInv

LEMMA ProcessInitInv == Process!Init => ProcessInv
<1> SUFFICES ASSUME Process!Init PROVE ProcessInv
  OBVIOUS
<1>1. PICK e \in ProcessType : e = Process!Ended /\ e.pc = "none"
  BY EndedIs
<1>2. proc \in [Procs -> ProcessType] /\ \A p \in Procs : proc[p].pc = "none"
  BY <1>1 DEF Process!Init
<1>3. /\ Nobody \notin Procs /\ "another program" \notin Procs /\ MaxCommands \in Nat
      /\ file = Process!NoFile /\ endpoint = Nobody /\ port \in {Nobody, "another program"}
      /\ jobs = {} /\ saved \in {"stopped", "downloading"} /\ alone \in BOOLEAN /\ commands = 0
  BY ConstantsAssumption DEF Process!Init, Process!DaemonAssumption
<1>4. Process!TypeOK
  <2>1. /\ file \in [maker : Procs \cup {Nobody}, pid : Procs \cup {Nobody}]
        /\ jobs \subseteq Procs /\ commands \in 0..MaxCommands
    <3>1. \A m \in Nat : 0 \in 0..m
      OBVIOUS
    <3>2. file \in [maker : Procs \cup {Nobody}, pid : Procs \cup {Nobody}]
      BY <1>3 DEF Process!NoFile
    <3> QED BY <1>3, <3>1, <3>2
  <2> QED BY <1>2, <1>3, <2>1, TypeIs
<1>5. PortHeld /\ EndpointHeld /\ JobsHeld /\ FileClaimed
  BY <1>2, <1>3 DEF PortHeld, EndpointHeld, JobsHeld, FileClaimed, Bound
<1>6. Sole
  BY <1>2 DEF Sole, OneMoves, NobodyPasses, Tells, Process!Moving
<1> QED BY <1>3, <1>4, <1>5, <1>6 DEF ProcessInv


(* What follows of the processes. *)
LEMMA OneOfThem ==
    ASSUME ProcessInv, ~late, http \/ alone, NEW p \in jobs, NEW q \in jobs
    PROVE  p = q
<1>1. p \in Procs /\ q \in Procs /\ Downloads(proc[p]) /\ Downloads(proc[q])
  BY TypeIs DEF ProcessInv, JobsHeld
<1>2. CASE http
  BY <1>1, <1>2, PlaceIs DEF ProcessInv, PortHeld
<1>3. CASE alone
  <2>1. Sole
    BY <1>3 DEF ProcessInv
  <2>2. ASSUME NEW r \in Procs, NEW s \in Procs, Downloads(proc[r]), Downloads(proc[s]),
               proc[r].pc = "loop"
        PROVE  r = s
    <3>1. CASE proc[s].pc = "loop"
      BY <2>1, <2>2, <3>1 DEF Sole, Tells
    <3>2. CASE proc[s].pc # "loop"
      <4>1. Process!Moving(proc[s]) /\ proc[s].pc \notin {"clean", "check"}
        BY <2>2, <3>2, PlaceIs DEF Downloads, Answers, Bound
      <4> QED BY <2>1, <2>2, <4>1 DEF Sole, NobodyPasses
    <3> QED BY <3>1, <3>2
  <2>3. CASE proc[p].pc = "loop" \/ proc[q].pc = "loop"
    BY <1>1, <2>2, <2>3
  <2>4. CASE proc[p].pc # "loop" /\ proc[q].pc # "loop"
    BY <1>1, <2>1, <2>4, PlaceIs DEF Sole, OneMoves
  <2> QED BY <2>3, <2>4
<1> QED BY <1>2, <1>3

LEMMA ProcessInvShows ==
    ProcessInv => /\ Process!TypeOK
                  /\ Process!SoleIsReachable /\ Process!OneDownloader /\ Process!CleanExit
<1> SUFFICES ASSUME ProcessInv
             PROVE  Process!SoleIsReachable /\ Process!OneDownloader /\ Process!CleanExit
  BY DEF ProcessInv
<1>1. Process!SoleIsReachable
  BY DEF ProcessInv, PortHeld, Sole, Tells, Bound, Process!SoleIsReachable
<1>2. Process!OneDownloader
  <2> SUFFICES ASSUME http \/ alone, ~late PROVE Cardinality(jobs) <= 1
    BY CardinalityIs DEF Process!OneDownloader
  <2>1. IsFiniteSet(jobs)
    <3>1. jobs \in SUBSET Procs /\ IsFiniteSet(Procs)
      BY TypeIs, FiniteIs, ConstantsAssumption DEF ProcessInv, Process!DaemonAssumption
    <3> QED BY <3>1, FS_Subset
  <2>2. CASE jobs = {}
    BY <2>2, FS_EmptySet
  <2>3. CASE jobs # {}
    <3>1. PICK p \in jobs : jobs = {p}
      BY <2>3, OneOfThem
    <3>2. Cardinality(jobs) = 1
      BY <2>1, <3>1, FS_Singleton
    <3> QED BY <3>2
  <2> QED BY <2>2, <2>3
<1>3. Process!CleanExit
  <2> SUFFICES ASSUME ~killed, \A p \in Procs : ~Process!Moving(proc[p]) /\ proc[p].pc # "loop"
               PROVE  file = Process!NoFile /\ endpoint = Nobody /\ port \notin Procs
    BY DEF Process!CleanExit
  <2>1. endpoint \in Procs \cup {Nobody}
    BY TypeIs DEF ProcessInv
  <2> QED BY <2>1, PlaceIs DEF ProcessInv, PortHeld, EndpointHeld, FileClaimed
<1> QED BY <1>1, <1>2, <1>3

-----------------------------------------------------------------------------
(* The updates of the clients. *)

Message == [kind : {"unchanged", "snapshot"}, version : 0..MaxContent + 1]

(* The types, and: the fingerprint of a snapshot that is being built is not  *)
(* of a later content.                                                       *)
LiveInv ==
    /\ content \in 1..MaxContent + 1 /\ cached \in 0..MaxContent + 1 /\ age \in 0..Resync
    /\ sender \in [at : {"idle", "note", "build"}, fp : 0..MaxContent + 1,
                   viewer : SUBSET Viewers]
    /\ sender.fp <= content
    /\ attached \subseteq Viewers
    /\ stream \in [Viewers -> Seq(Message)]
    /\ link \in [Viewers -> {"down", "asked", "up"}]
    /\ sent \in [Viewers -> 0..MaxContent + 1] /\ view \in [Viewers -> 0..MaxContent + 1]
    /\ polling \in [Viewers -> BOOLEAN] /\ call \in [Viewers -> -1..MaxContent + 2]

(* What is broadcast is at least as new as the fingerprint that is noted.    *)
Noted == sender.at = "build" /\ sender'.at = "idle" =>
            \A v \in attached \cap attached' : sent'[v] >= cached'

LEMMA LiveSizes == MaxContent \in Nat /\ MaxFaults \in Nat /\ Resync \in Nat /\ Resync > 0
BY ConstantsAssumption DEF Live!LiveAssumption

LEMMA LiveTypes == LiveInv => Live!TypeOK
BY LiveSizes DEF LiveInv, Live!TypeOK, Live!Versions, Live!Asked

LEMMA MessagesAre ==
    /\ Live!Unchanged \in Message
    /\ \A n \in 0..MaxContent + 1 : Live!Snapshot(n) \in Message
<1>1. 0 \in 0..MaxContent + 1
  BY LiveSizes
<1> QED BY <1>1 DEF Live!Unchanged, Live!Snapshot, Message

LEMMA LiveInitInv == Live!Init => LiveInv
<1> SUFFICES ASSUME Live!Init PROVE LiveInv
  OBVIOUS
<1>1. stream \in [Viewers -> Seq(Message)]
  BY DEF Live!Init
<1>2. /\ sender \in [at : {"idle", "note", "build"}, fp : 0..MaxContent + 1, viewer : SUBSET Viewers]
      /\ sender.fp <= content
  BY LiveSizes DEF Live!Init, Live!Idle
<1> QED BY <1>1, <1>2, LiveSizes DEF Live!Init, LiveInv

LEMMA LiveNextInv == LiveInv /\ Live!Next => LiveInv' /\ Noted
<1> SUFFICES ASSUME LiveInv PROVE Live!Next => LiveInv' /\ Noted
  OBVIOUS
<1>n. MaxContent \in Nat /\ content \in 0..MaxContent + 1 /\ 0 \in 0..MaxContent + 1
  BY LiveSizes DEF LiveInv
<1>i. Live!Idle \in [at : {"idle", "note", "build"}, fp : 0..MaxContent + 1, viewer : SUBSET Viewers]
      /\ Live!Idle.fp = 0 /\ Live!Idle.at = "idle"
  BY <1>n DEF Live!Idle
<1>1. CASE Live!Change
  BY <1>1, LiveSizes DEF Live!Change, LiveInv, Live!feed, Live!gui, Noted
<1>2. CASE Live!NoteFull
  BY <1>2, <1>n, <1>i, LiveSizes DEF Live!NoteFull, LiveInv, Live!gui, Noted
<1>3. CASE Live!Tick
  <2>1. stream' \in [Viewers -> Seq(Message)]
    <3>1. PICK m \in Message : m = Live!Unchanged
      BY MessagesAre
    <3>2. \/ stream' = [v \in Viewers |-> IF v \in attached THEN Append(stream[v], m)
                                                            ELSE stream[v]]
          \/ stream' = stream
      BY <1>3, <3>1 DEF Live!Tick
    <3>3. stream \in [Viewers -> Seq(Message)]
      BY DEF LiveInv
    <3>4. CASE stream' = stream
      BY <3>3, <3>4
    <3>5. CASE stream' # stream
      <4>1. \A v \in Viewers : stream[v] \in Seq(Message) /\ Append(stream[v], m) \in Seq(Message)
        BY <3>3
      <4> QED BY <3>2, <3>5, <4>1
    <3> QED BY <3>4, <3>5
  <2>2. age' \in 0..Resync
    <3>1. age' = age \/ age' = IF age = Resync THEN age ELSE age + 1
      BY <1>3 DEF Live!Tick
    <3>2. age \in Nat /\ age <= Resync
      BY LiveSizes DEF LiveInv
    <3>3. age' \in Nat /\ age' <= Resync
      BY <3>1, <3>2, LiveSizes
    <3> QED BY <3>3, LiveSizes
  <2>3. /\ sender' \in [at : {"idle", "note", "build"}, fp : 0..MaxContent + 1,
                       viewer : SUBSET Viewers]
        /\ sender'.fp <= content /\ sender.at # "build"
    <3>1. /\ sender = Live!Idle
          /\ \/ sender' = sender
             \/ sender' = [at |-> "build", fp |-> content, viewer |-> attached]
      BY <1>3 DEF Live!Tick
    <3>2. CASE sender' = sender
      BY <3>1, <3>2, <1>i DEF LiveInv
    <3>3. CASE sender' = [at |-> "build", fp |-> content, viewer |-> attached]
      BY <3>1, <3>3, <1>i, <1>n DEF LiveInv
    <3> QED BY <3>1, <3>2, <3>3
  <2> QED BY <1>3, <2>1, <2>2, <2>3 DEF Live!Tick, LiveInv, Live!gui, Noted
<1>4. CASE Live!Broadcast
  <2>1. stream' \in [Viewers -> Seq(Message)]
    <3>1. PICK m \in Message : m = Live!Snapshot(content)
      BY <1>n, MessagesAre
    <3>2. stream' = [v \in Viewers |-> IF v \in attached THEN Append(stream[v], m) ELSE stream[v]]
      BY <1>4, <3>1 DEF Live!Broadcast, Live!Send
    <3> QED BY <3>2 DEF LiveInv
  <2>2. /\ sent' = [v \in Viewers |-> IF v \in attached THEN content ELSE sent[v]]
        /\ cached' = sender.fp /\ age' = 0 /\ sender' = Live!Idle
        /\ UNCHANGED <<content, attached, link, polling, call, view>>
    BY <1>4 DEF Live!Broadcast, Live!Send, Live!gui
  <2>3. sent' \in [Viewers -> 0..MaxContent + 1] /\ cached' \in 0..MaxContent + 1 /\ age' \in 0..Resync
    BY <2>2, <1>n, LiveSizes DEF LiveInv
  <2>4. Noted
    BY <2>2, <1>n DEF Noted, LiveInv
  <2>5. sender'.fp <= content' /\ content' \in 1..MaxContent + 1
    BY <2>2, <1>i, <1>n DEF LiveInv
  <2> QED BY <1>i, <2>1, <2>2, <2>3, <2>4, <2>5 DEF LiveInv
<1>5. ASSUME NEW v \in Viewers, Live!Attach(v) PROVE LiveInv' /\ Noted
  <2>1. stream' \in [Viewers -> Seq(Message)]
    <3>1. PICK m \in Message : m = Live!Snapshot(content)
      BY <1>n, MessagesAre
    <3>2. stream' = [stream EXCEPT ![v] = Append(@, m)]
      BY <1>5, <3>1 DEF Live!Attach
    <3> QED BY <3>2 DEF LiveInv
  <2>2. /\ sender = Live!Idle /\ attached' = attached \cup {v}
        /\ sent' = [sent EXCEPT ![v] = content] /\ link' = [link EXCEPT ![v] = "up"]
        /\ sender' = [at |-> "note", fp |-> 0, viewer |-> {v}]
        /\ UNCHANGED <<content, cached, age, polling, call, view>>
    BY <1>5 DEF Live!Attach
  <2>3. /\ sender' \in [at : {"idle", "note", "build"}, fp : 0..MaxContent + 1,
                       viewer : SUBSET Viewers]
        /\ sender'.fp <= content
    BY <1>n, <2>2 DEF LiveInv
  <2>4. sent' \in [Viewers -> 0..MaxContent + 1] /\ link' \in [Viewers -> {"down", "asked", "up"}]
    BY <1>n, <2>2 DEF LiveInv
  <2>5. Noted
    BY <1>i, <2>2 DEF Noted
  <2> QED BY <2>1, <2>2, <2>3, <2>4, <2>5 DEF LiveInv
<1>6. ASSUME NEW v \in Viewers, Live!OpenStream(v) PROVE LiveInv' /\ Noted
  BY <1>6 DEF Live!OpenStream, LiveInv, Live!feed, Noted
<1>7. ASSUME NEW v \in Viewers, Live!Deliver(v) PROVE LiveInv' /\ Noted
  <2>1. /\ stream[v] \in Seq(Message) /\ stream[v] # <<>>
        /\ view' = IF Head(stream[v]).kind = "snapshot"
                   THEN [view EXCEPT ![v] = Head(stream[v]).version] ELSE view
        /\ stream' = [stream EXCEPT ![v] = Tail(@)]
        /\ polling' = [polling EXCEPT ![v] = FALSE]
        /\ UNCHANGED <<content, cached, age, sender, attached, sent, link, call>>
    BY <1>7 DEF Live!Deliver, Live!feed, LiveInv
  <2>2. PICK s \in Seq(Message) : s = stream[v]
    BY <2>1
  <2>3. PICK m \in Message : m = Head(s)
    BY <2>1, <2>2
  <2>4. m.version \in 0..MaxContent + 1
    BY DEF Message
  <2>5. view' \in [Viewers -> 0..MaxContent + 1]
    BY <2>1, <2>2, <2>3, <2>4 DEF LiveInv
  <2>6. stream' \in [Viewers -> Seq(Message)]
    BY <2>1, <2>2 DEF LiveInv
  <2> QED BY <2>1, <2>5, <2>6 DEF LiveInv, Noted
<1>8. ASSUME NEW v \in Viewers, Live!Lose(v) PROVE LiveInv' /\ Noted
  BY <1>8 DEF Live!Lose, LiveInv, Noted
<1>9. ASSUME NEW v \in Viewers, Live!Poll(v) \/ Live!Poller(v) PROVE LiveInv' /\ Noted
  <2>1. /\ call' \in [Viewers -> -1..MaxContent + 2]
        /\ view' \in [Viewers -> 0..MaxContent + 1]
    <3>1. CASE Live!Poll(v)
      BY <3>1, LiveSizes DEF Live!Poll, Live!Asked, LiveInv
    <3>2. CASE Live!AnswerPoll(v)
      <4>1. content \in -1..MaxContent + 2 /\ 0 \in -1..MaxContent + 2
        BY LiveSizes DEF LiveInv
      <4> QED BY <3>2, <4>1 DEF Live!AnswerPoll, LiveInv
    <3>3. CASE Live!ShowPoll(v)
      BY <3>3, LiveSizes DEF Live!ShowPoll, LiveInv
    <3> QED BY <1>9, <3>1, <3>2, <3>3 DEF Live!Poller
  <2>2. UNCHANGED <<content, cached, age, sender, attached, sent, stream, link, polling>>
    BY <1>9 DEF Live!Poll, Live!Poller, Live!AnswerPoll, Live!ShowPoll, Live!feed
  <2> QED BY <2>1, <2>2 DEF LiveInv, Noted
<1> QED BY <1>1, <1>2, <1>3, <1>4, <1>5, <1>6, <1>7, <1>8, <1>9
        DEF Live!Next, Live!Sender, Live!Receiver

-----------------------------------------------------------------------------
(* The three together. *)
DaemonInv == IInv /\ ProcessInv /\ LiveInv

LEMMA DaemonInitInv == MCInit => DaemonInv
BY InitInv, ProcessInitInv, LiveInitInv DEF MCInit, DaemonInv

LEMMA LiveStutterInv == LiveInv /\ UNCHANGED liveVars => LiveInv' /\ UNCHANGED Live!lvars
BY DEF LiveInv, liveVars, Live!lvars

LEMMA DaemonNextInv == DaemonInv /\ [MCNext]_vars => DaemonInv' /\ [Noted]_(Live!lvars)
<1> SUFFICES ASSUME DaemonInv, [MCNext]_vars PROVE DaemonInv' /\ [Noted]_(Live!lvars)
  OBVIOUS
<1>1. IInv /\ ProcessInv /\ LiveInv
  BY DEF DaemonInv
<1>2. CASE ProcessOnly /\ Process!Next
  BY <1>1, <1>2, NextInv, ProcessNextInv, LiveStutterInv DEF ProcessOnly, DaemonInv
<1>3. CASE ServiceOnly /\ Next
  BY <1>1, <1>3, NextInv, ProcessStutterInv, LiveStutterInv DEF ServiceOnly, DaemonInv
<1>4. CASE LiveOnly /\ Live!Next
  BY <1>1, <1>4, NextInv, ProcessStutterInv, LiveNextInv DEF LiveOnly, DaemonInv
<1>5. CASE UNCHANGED vars
  <2>1. UNCHANGED processVars /\ UNCHANGED svars /\ UNCHANGED liveVars
    BY <1>5 DEF vars
  <2> QED BY <1>1, <2>1, NextInv, ProcessStutterInv, LiveStutterInv DEF DaemonInv
<1> QED BY <1>2, <1>3, <1>4, <1>5 DEF MCNext

(* The inductive invariant of the three modules together: what the daemon's   *)
(* processes hold, where each call is, and what the clients have been sent.   *)
THEOREM DaemonInvariant == MCSpec => []DaemonInv
<1>1. DaemonInv /\ [MCNext]_vars => DaemonInv'
  BY DaemonNextInv
<1> QED BY <1>1, DaemonInitInv, PTL DEF MCSpec

(* A daemon that is the only one to start or leave can be found, two         *)
(* processes never download the same item at once - with a port to hold, in  *)
(* whatever order any number of daemons come and go, are signalled, and have *)
(* their identifiers used again - and daemons that ended by themselves leave *)
(* nothing.                                                                  *)
THEOREM OneDaemonAlways == MCSpec => []OneDaemon
<1>1. DaemonInv => OneDaemon
  BY ProcessInvShows, LiveTypes DEF DaemonInv, IInv, OneDaemon
<1> QED BY <1>1, DaemonInvariant, PTL

(* daemon_rpc_streams_tick: a change that falls into a broadcast is not      *)
(* taken for sent; the fingerprint that is noted is of what was sent, or     *)
(* older.                                                                    *)
THEOREM ChangesAreNotHidden == MCSpec => Live!BroadcastIsNoted
<1>1. DaemonInv /\ [MCNext]_vars => [Noted]_(Live!lvars)
  BY DaemonNextInv
<1>2. MCSpec => [][Noted]_(Live!lvars)
  BY <1>1, DaemonInvariant, PTL DEF MCSpec
<1> QED BY <1>2, PTL DEF Live!BroadcastIsNoted, Noted
=============================================================================
