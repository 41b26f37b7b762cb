--------------------------- MODULE DaemonService ---------------------------
(* One daemon while it serves and while it shuts down: the loop of the     *)
(* main thread, which answers HTTP, the thread of the IPC channel, the     *)
(* lock every method runs under, and the commands that call it over one    *)
(* channel after the other (daemon_transport.c, daemon_rpc.c,              *)
(* daemon_session.c).                                                      *)
(*                                                                         *)
(* A call is a connection, a request and, within five seconds, an answer;  *)
(* the deadline may pass at any moment of it, and the request it leaves    *)
(* behind is still executed.  What a method does is left to the modules of *)
(* the engine; here it is executed, and counted.                           *)
EXTENDS Naturals, Sequences

CONSTANTS
    Clients,   \* processes that call the daemon, one command each
    Nobody,    \* no client
    KindsOf    \* client -> the commands it may run

CommandKinds == {"add", "exec", "big", "bad", "silent"}

ASSUME ServiceAssumption == Nobody \notin Clients /\ KindsOf \in [Clients -> SUBSET CommandKinds]

VARIABLES
    cl,         \* client -> its command and how far it is
    backlog,    \* connections the IPC thread has not accepted
    requests,   \* requests that wait for the main thread
    main,       \* the main thread: where it is and the request it has
    ipc,        \* the IPC thread, likewise
    lock,       \* the thread that runs a method
    running,    \* the loop goes on
    stop,       \* the IPC thread shall end
    active,     \* the connection pipe_stop would shut down
    cut,        \* the connection it did shut down
    forced,     \* commands of this process run locally (_force_local)
    runs        \* client -> times its command has been executed, by whom

svars == <<cl, backlog, requests, main, ipc, lock, running, stop, active, cut, forced, runs>>

(* daemon_transport_rpc_request_any: the transport of the session, then the
   pipe, HTTP and the socket, each once; the socket is not enabled. *)
Order(c) == IF cl[c].first = "http" /\ cl[c].cmd # "silent" THEN <<"http", "pipe">> ELSE <<"pipe", "http">>
Via(c) == Order(c)[cl[c].via]
NoRequest == [c |-> Nobody, at |-> "done", via |-> 1]
Request(c) == [c |-> c, at |-> cl[c].at, via |-> cl[c].via]
Open(r) == r.c # Nobody /\ cl[r.c].conn = "open" /\ Request(r.c) = r

(* Only daemon_session_download_url pings before it calls. *)
Command(cmd, first, token) ==
    [cmd |-> cmd, first |-> first, token |-> token,
     at |-> IF cmd = "add" THEN "ping" ELSE "call", via |-> 1,
     conn |-> "none", answer |-> "none", lost |-> FALSE, told |-> "nothing"]

Init == /\ \E cmd \in [Clients -> CommandKinds], first \in {"pipe", "http"}, token \in BOOLEAN :
              /\ \A c \in Clients : cmd[c] \in KindsOf[c]
              /\ cl = [c \in Clients |-> Command(cmd[c], first, token)]
        /\ backlog = <<>>
        /\ requests = {}
        /\ main = [pc |-> "loop", req |-> NoRequest]
        /\ ipc = [pc |-> "check", req |-> NoRequest]
        /\ lock = "nobody"
        /\ running = TRUE
        /\ stop = FALSE
        /\ active = Nobody
        /\ cut = Nobody
        /\ forced = FALSE
        /\ runs = [c \in Clients |-> [daemon |-> 0, local |-> 0]]

server == <<main, ipc, lock, running, stop, active, cut, forced>>

---------------------------------------------------------------------------
(* A client. *)

(* A connection is taken by the system as long as the daemon listens. *)
Listening(channel) == IF channel = "pipe" THEN ipc.pc # "gone"
                                          ELSE main.pc \in {"loop", "wait", "handle"}

Connect(c) ==
    /\ cl[c].at # "done" /\ cl[c].conn = "none"
    /\ Listening(Via(c))
    /\ cl' = [cl EXCEPT ![c].conn = "open"]
    /\ IF Via(c) = "pipe" THEN backlog' = Append(backlog, Request(c)) /\ UNCHANGED requests
                          ELSE requests' = requests \cup {Request(c)} /\ UNCHANGED backlog
    /\ UNCHANGED <<server, runs>>

(* The command of c ends, with what it tells the user. *)
End(c, told) == [cl[c] EXCEPT !.at = "done", !.conn = "none", !.told = told]

(* Every transport has failed: a download is run here, any other command
   fails. *)
Unavailable(c) ==
    LET lost == cl[c].lost \/ (cl[c].at = "call" /\ cl[c].conn = "open")
        told == IF cl[c].cmd = "add" THEN "local" ELSE "failure"
    IN /\ cl' = [cl EXCEPT ![c] = [End(c, told) EXCEPT !.lost = lost]]
       /\ runs' = IF cl[c].cmd = "add" THEN [runs EXCEPT ![c].local = @ + 1] ELSE runs

(* The deadline passes, or the connection is closed. *)
Expired(c) == cl[c].conn = "open"

(* The transport refuses, or its answer does not come: the next transport, if
   there is one. *)
Fail(c) ==
    /\ cl[c].at # "done"
    /\ (cl[c].conn = "none" /\ ~Listening(Via(c))) \/ Expired(c)
    /\ IF cl[c].via = 1 /\ cl[c].cmd # "silent"
       THEN /\ cl' = [cl EXCEPT ![c].via = 2, ![c].conn = "none",
                          ![c].lost = @ \/ (cl[c].conn = "open" /\ cl[c].at = "call")]
            /\ UNCHANGED runs
       ELSE Unavailable(c)
    /\ UNCHANGED <<backlog, requests, server>>

(* Mutant: a method that fails counts as a transport that does. *)
TransportFailedStrict(answer) == answer # "success"

TransportFailed(answer) == answer = "error"

(* A ping is content with any HTTP answer; a call takes an error object for
   a failure of the transports, and any other answer for its own. *)
Answered(c) ==
    /\ cl[c].conn = "answered"
    /\ LET again == [cl EXCEPT ![c].at = "call", ![c].via = 1, ![c].conn = "none"]
       IN \/ cl[c].at = "ping" /\ cl' = again /\ UNCHANGED runs
          \/ cl[c].at = "call" /\ TransportFailed(cl[c].answer) /\ Unavailable(c)
          \/ /\ cl[c].at = "call" /\ ~TransportFailed(cl[c].answer)
             /\ cl' = [cl EXCEPT ![c] = End(c, IF cl[c].answer = "success" THEN "success"
                                                                          ELSE "failure")]
             /\ UNCHANGED runs
    /\ UNCHANGED <<backlog, requests, server>>

---------------------------------------------------------------------------
(* Methods, under the lock. *)

(* Mutant: methods run side by side. *)
LockNone(thread) == lock' = thread

Lock(thread) == lock = "nobody" /\ lock' = thread

(* What a request answers: HTTP checks the token before anything else. *)
Denied(r) == Order(r.c)[r.via] = "http" /\ ~cl[r.c].token
Answer(r, answer) ==
    cl' = IF Open(r) THEN [cl EXCEPT ![r.c].conn = "answered", ![r.c].answer = answer] ELSE cl

(* A command that succeeds or fails, in either case once. *)
Perform(r) == /\ \E answer \in {"success", "failure"} : Answer(r, answer)
              /\ runs' = [runs EXCEPT ![r.c].daemon = @ + 1]

(* dispatch_method: ping, download.add, cli.exec and a method whose
   parameters are not what it expects, which answers an error.  A command
   whose output does not fit into the pipe it is captured in never ends
   (capture_handler_output). *)
Execute(r) ==
    \/ r.at = "ping" /\ Answer(r, "success") /\ UNCHANGED runs
    \/ r.at = "call" /\ cl[r.c].cmd = "bad" /\ Answer(r, "error") /\ UNCHANGED runs
    \/ r.at = "call" /\ cl[r.c].cmd \in {"add", "exec"} /\ Perform(r)

IsExec(r) == r.at = "call" /\ cl[r.c].cmd \in {"exec", "big"}

---------------------------------------------------------------------------
(* The main thread. *)

Poll == /\ main.pc = "loop" /\ running
        /\ \E r \in requests :
              /\ requests' = requests \ {r}
              /\ \/ Denied(r) /\ Answer(r, "denied") /\ UNCHANGED main
                 \/ ~Denied(r) /\ main' = [pc |-> "wait", req |-> r] /\ UNCHANGED cl
                 \/ ~Open(r) /\ UNCHANGED <<main, cl>>
        /\ UNCHANGED <<backlog, ipc, lock, running, stop, active, cut, forced, runs>>

MainLocks == /\ main.pc = "wait"
             /\ Lock("main")
             /\ main' = [main EXCEPT !.pc = "handle"]
             /\ forced' = (forced \/ IsExec(main.req))
             /\ UNCHANGED <<cl, backlog, requests, ipc, running, stop, active, cut, runs>>

MainHandles == /\ main.pc = "handle"
               /\ Execute(main.req)
               /\ lock' = "nobody"
               /\ forced' = (forced /\ ~IsExec(main.req))
               /\ main' = [pc |-> "loop", req |-> NoRequest]
               /\ UNCHANGED <<backlog, requests, ipc, running, stop, active, cut>>

(* The loop is told to end, and the downloads are waited for, while the IPC
   thread goes on; then HTTP is closed with what it has not answered. *)
Shutdown == /\ running
            /\ running' = FALSE
            /\ UNCHANGED <<cl, backlog, requests, main, ipc, lock, stop, active, cut, forced, runs>>

LeaveLoop == /\ main.pc = "loop" /\ ~running
             /\ main' = [main EXCEPT !.pc = "stop"]
             /\ requests' = {}
             /\ UNCHANGED <<cl, backlog, ipc, lock, running, stop, active, cut, forced, runs>>

(* pipe_stop: the flag and the shutdown of the connection the thread has
   noted, and then the wait for the thread. *)
StopIpc == /\ main.pc = "stop"
           /\ stop' = TRUE
           /\ cut' = active
           /\ main' = [main EXCEPT !.pc = "join"]
           /\ UNCHANGED <<cl, backlog, requests, ipc, lock, running, active, forced, runs>>

(* Mutant: the thread is not waited for. *)
JoinNot == /\ main.pc = "join"
           /\ main' = [main EXCEPT !.pc = "gone"]
           /\ UNCHANGED <<cl, backlog, requests, ipc, lock, running, stop, active, cut, forced, runs>>

Join == /\ main.pc = "join"
        /\ ipc.pc = "gone"
        /\ main' = [main EXCEPT !.pc = "gone"]
        /\ UNCHANGED <<cl, backlog, requests, ipc, lock, running, stop, active, cut, forced, runs>>

---------------------------------------------------------------------------
(* The IPC thread: ipc_server_loop. *)

(* Mutant: the flag is not looked at. *)
CheckNot == /\ ipc.pc = "check"
            /\ ipc' = [ipc EXCEPT !.pc = "poll"]
            /\ UNCHANGED <<cl, backlog, requests, main, lock, running, stop, active, cut, forced, runs>>

Check == /\ ipc.pc = "check"
         /\ ipc' = [ipc EXCEPT !.pc = IF stop THEN "gone" ELSE "poll"]
         /\ backlog' = IF stop THEN <<>> ELSE backlog
         /\ UNCHANGED <<cl, requests, main, lock, running, stop, active, cut, forced, runs>>

Accept == /\ ipc.pc = "poll"
          /\ \/ /\ backlog # <<>>
                /\ ipc' = [pc |-> "accepted", req |-> Head(backlog)]
                /\ backlog' = Tail(backlog)
             \/ /\ backlog = <<>>
                /\ ipc' = [ipc EXCEPT !.pc = "check"]
                /\ UNCHANGED backlog
          /\ UNCHANGED <<cl, requests, main, lock, running, stop, active, cut, forced, runs>>

Note == /\ ipc.pc = "accepted"
        /\ active' = ipc.req.c
        /\ ipc' = [ipc EXCEPT !.pc = "read"]
        /\ UNCHANGED <<cl, backlog, requests, main, lock, running, stop, cut, forced, runs>>

(* A request is read although the client has given up on it; a client that
   sends nothing is waited for until it goes or its connection is cut. *)
Closed == /\ active' = Nobody
          /\ ipc' = [pc |-> "check", req |-> NoRequest]

Read == /\ ipc.pc = "read"
        /\ LET r == ipc.req
           IN IF cl[r.c].cmd = "silent"
              THEN (cut = r.c \/ ~Open(r)) /\ Closed
              ELSE ipc' = [ipc EXCEPT !.pc = "wait"] /\ UNCHANGED active
        /\ UNCHANGED <<cl, backlog, requests, main, lock, running, stop, cut, forced, runs>>

IpcLocks == /\ ipc.pc = "wait"
            /\ Lock("ipc")
            /\ ipc' = [ipc EXCEPT !.pc = "handle"]
            /\ forced' = (forced \/ IsExec(ipc.req))
            /\ UNCHANGED <<cl, backlog, requests, main, running, stop, active, cut, runs>>

(* The answer is written after the lock is given back, and not to a
   connection that was cut. *)
IpcHandles == /\ ipc.pc = "handle"
              /\ IF cut = ipc.req.c
                 THEN /\ IsExec(ipc.req) => cl[ipc.req.c].cmd = "exec"
                      /\ runs' = IF ipc.req.at = "call" /\ cl[ipc.req.c].cmd \in {"add", "exec"}
                                 THEN [runs EXCEPT ![ipc.req.c].daemon = @ + 1] ELSE runs
                      /\ UNCHANGED cl
                 ELSE Execute(ipc.req)
              /\ lock' = "nobody"
              /\ forced' = (forced /\ ~IsExec(ipc.req))
              /\ Closed
              /\ UNCHANGED <<backlog, requests, main, running, stop, cut>>

---------------------------------------------------------------------------
Client(c) == Connect(c) \/ Fail(c) \/ Answered(c)
Main == Poll \/ MainLocks \/ MainHandles \/ LeaveLoop \/ StopIpc \/ Join
Ipc == Check \/ Accept \/ Note \/ Read \/ IpcLocks \/ IpcHandles

Next == (\E c \in Clients : Client(c)) \/ Main \/ Ipc \/ Shutdown

(* The threads run, and a client's deadline passes. *)
ServiceFairness == /\ WF_svars(Main) /\ WF_svars(Ipc)
                   /\ \A c \in Clients : WF_svars(Client(c))

Spec == Init /\ [][Next]_svars /\ ServiceFairness

---------------------------------------------------------------------------
(* The types of the variables of the daemon's threads and of its callers; a
   thread that goes on with a request has one. *)
CallerType == [cmd : CommandKinds, first : {"pipe", "http"}, token : BOOLEAN,
               at : {"ping", "call", "done"}, via : {1, 2},
               conn : {"none", "open", "answered"},
               answer : {"none", "success", "failure", "error", "denied"},
               lost : BOOLEAN, told : {"nothing", "success", "failure", "local"}]
RequestType == [c : Clients, at : {"ping", "call", "done"}, via : {1, 2}]

HasMain == main.pc \in {"wait", "handle"}
HasIpc == ipc.pc \in {"accepted", "read", "wait", "handle"}

TypeOK ==
    /\ cl \in [Clients -> CallerType]
    /\ runs \in [Clients -> [daemon : Nat, local : Nat]]
    /\ backlog \in Seq(RequestType) /\ requests \subseteq RequestType
    /\ main \in [pc : {"loop", "wait", "handle", "stop", "join", "gone"},
                 req : RequestType \cup {NoRequest}]
    /\ ipc \in [pc : {"check", "poll", "accepted", "read", "wait", "handle", "gone"},
                req : RequestType \cup {NoRequest}]
    /\ HasMain => main.req \in RequestType
    /\ HasIpc => ipc.req \in RequestType
    /\ lock \in {"nobody", "main", "ipc"}
    /\ active \in Clients \cup {Nobody} /\ cut \in Clients \cup {Nobody}

(* Unless an answer was lost on its way, a command is executed once at most,
   by the daemon or here (daemon_session_download_url, daemon_session.c:121),
   and one that was told success exactly once, by the daemon. *)
OnceUnlessLost ==
    \A c \in Clients : /\ ~cl[c].lost => runs[c].daemon + runs[c].local <= 1
                       /\ cl[c].told = "success" => runs[c].daemon >= 1 /\ runs[c].local = 0

(* While a command from the command line is executed for somebody, and only
   then, commands of this process run locally: no end of one switches it off
   under another, and a method answered meanwhile never sees it
   (daemon_rpc.c:568-571, the lock at 1904-1909 and 1981-1987). *)
ForcedExactlyInside ==
    forced = (\/ main.pc = "handle" /\ IsExec(main.req)
              \/ ipc.pc = "handle" /\ IsExec(ipc.req))

(* Once the channels are closed no command is executed any more: the pid
   file is released for good after that (daemon.c:781-784). *)
Executed == [c \in Clients |-> runs[c].daemon]
QuietAfterStop == [][main.pc = "gone" => UNCHANGED <<Executed, forced, lock>>]_svars

(* A daemon that is told to end closes its channels, however the thread that
   accepts a connection and the one that shuts it down interleave; unless a
   command with more output than a pipe holds keeps the lock. *)
ShutdownReturns ==
    <>[](\/ running
         \/ main.pc = "gone"
         \/ lock = "main" /\ cl[main.req.c].cmd = "big"
         \/ lock = "ipc" /\ cl[ipc.req.c].cmd = "big")
---------------------------------------------------------------------------
(* The inductive invariant behind the safety properties. *)
(* A method runs under the lock, and the thread of the channel has gone
   before the daemon has. *)
MethodInv ==
    /\ lock = "main" <=> main.pc = "handle"
    /\ lock = "ipc" <=> ipc.pc = "handle"
    /\ main.pc = "gone" => ipc.pc = "gone"

(* A call of c is on its way: in the queue of the channel or of HTTP, or with
   one of the threads. *)
Called(c, r) == r.c = c /\ r.at = "call"
AtIpc(c) == (\E i \in DOMAIN backlog : Called(c, backlog[i])) \/ (HasIpc /\ Called(c, ipc.req))
AtMain(c) == (\E r \in requests : Called(c, r)) \/ (HasMain /\ Called(c, main.req))

(* A call that nobody has given up on is on its way once, and its client
   waits for it. *)
OneCall(c) ==
    /\ AtIpc(c) => Via(c) = "pipe" /\ cl[c].conn = "open" /\ cl[c].at = "call"
    /\ AtMain(c) => Via(c) = "http" /\ cl[c].conn = "open" /\ cl[c].at = "call"
    /\ \A i, j \in DOMAIN backlog : Called(c, backlog[i]) /\ Called(c, backlog[j]) => i = j
    /\ HasIpc /\ Called(c, ipc.req) => \A i \in DOMAIN backlog : ~Called(c, backlog[i])
    /\ \A r \in requests : Called(c, r) => r = Request(c)
    /\ HasMain /\ Called(c, main.req) => \A r \in requests : ~Called(c, r)
    /\ (AtIpc(c) \/ AtMain(c) \/ (cl[c].conn = "none" /\ cl[c].at # "done") \/ cl[c].at = "ping")
          => runs[c].daemon = 0
    /\ runs[c].daemon <= 1

(* What a client that goes on has not done yet, and what its answer means. *)
Fate(c) ==
    /\ cl[c].at # "done" => runs[c].local = 0 /\ cl[c].told = "nothing"
    /\ cl[c].at = "call" /\ cl[c].conn = "answered" =>
          /\ cl[c].answer = "success" => runs[c].daemon >= 1
          /\ cl[c].answer = "error" => cl[c].cmd = "bad"
    /\ runs[c].local <= 1
    /\ cl[c].cmd # "add" => runs[c].local = 0

CallInv == \A c \in Clients : (~cl[c].lost => OneCall(c)) /\ Fate(c)

IInv == TypeOK /\ MethodInv /\ ForcedExactlyInside /\ CallInv /\ OnceUnlessLost
=============================================================================
