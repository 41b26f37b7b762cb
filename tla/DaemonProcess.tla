--------------------------- MODULE DaemonProcess ---------------------------
(* The life of daemon processes on one machine: `avar daemon start`, the   *)
(* detached start, stop, restart and reload, each command a process of its *)
(* own, over the pid file, the port of the HTTP channel and the path of    *)
(* the IPC channel (daemon.c).                                             *)
(*                                                                         *)
(* A file is removed by its path, whoever made it, and the pid file is     *)
(* looked at and removed in two steps, so a process can remove what        *)
(* another has just created.  A process identifier is used again once its  *)
(* process has ended.  One download stands for all of them.                *)
EXTENDS Naturals, FiniteSets

CONSTANTS
    Procs,        \* process identifiers
    Nobody,       \* no process
    MaxCommands   \* commands the user enters

(* What an instance has to give these constants. *)
DaemonAssumption ==
    /\ IsFiniteSet(Procs)
    /\ Nobody \notin Procs /\ "another program" \notin Procs \cup {Nobody}
    /\ MaxCommands \in Nat

VARIABLES
    proc,      \* process -> where its command is, what it read, what it was asked
    file,      \* the pid file: who created it and the identifier in it
    endpoint,  \* the process that listens at the path of the IPC channel
    port,      \* the process that listens at the HTTP port
    http,      \* the HTTP channel is enabled
    jobs,      \* the processes that download
    saved,     \* the status of the download in the configuration
    alone,     \* never were two daemons starting or leaving at once
    killed,    \* a signal has ended a process
    late,      \* a shutdown has stopped waiting for its downloads
    commands   \* commands entered so far

vars == <<proc, file, endpoint, port, http, jobs, saved, alone, killed, late, commands>>

world == <<file, endpoint, port, http, jobs, saved>>

Commands == {"start", "spawn", "stop", "stopwait", "restart", "reload"}
NoFile == [maker |-> Nobody, pid |-> Nobody]
Ended == [pc |-> "none", then |-> "none", tries |-> 0, seen |-> Nobody,
          cmd |-> "stop", run |-> FALSE]
Started(c) == [Ended EXCEPT !.pc = "clean", !.cmd = c, !.run = TRUE]

Alive(p) == p # Nobody /\ proc[p].pc # "none"

(* What runs once the handlers of the signals are installed. *)
Handles(p) == \/ proc[p].pc \in {"resume", "loop", "drain"}
              \/ proc[p].pc = "unlink" /\ proc[p].then = "drain"

(* A process between its first look at the pid file and its loop, or
   between its loop and its end. *)
Moving(r) == /\ r.pc \notin {"none", "loop", "find", "signal", "hup", "poll", "await"}
             /\ ~(r.pc = "check" /\ r.cmd = "spawn")

Init == /\ proc = [p \in Procs |-> Ended]
        /\ file = NoFile
        /\ endpoint = Nobody
        /\ port \in {Nobody, "another program"}
        /\ http \in BOOLEAN
        /\ jobs = {}
        /\ saved \in {"stopped", "downloading"}
        /\ alone = TRUE
        /\ killed = FALSE
        /\ late = FALSE
        /\ commands = 0

Watch == alone' = (alone /\ Cardinality({p \in Procs : Moving(proc'[p])}) <= 1)

Goto(p, place) == proc' = [proc EXCEPT ![p].pc = place]
UnlinkThen(p, place) == proc' = [proc EXCEPT ![p].pc = "unlink", ![p].then = place]
Exit(p) == proc' = [proc EXCEPT ![p] = Ended]

(* A process that dies takes its downloads and its sockets along; the pid
   file, the path of the socket and the saved status stay. *)
Without(p, r) == IF r = p THEN Nobody ELSE r
Die(p) == /\ endpoint' = Without(p, endpoint)
          /\ port' = Without(p, port)
          /\ jobs' = jobs \ {p}
          /\ killed' = TRUE

---------------------------------------------------------------------------
(* Starting. *)

(* Mutant: any pid file counts as stale. *)
StaleAny == file # NoFile

Stale == file # NoFile /\ ~Alive(file.pid)

(* daemon_cleanup_stale_pid_file, before the check and again in
   daemon_acquire_pid_file: a pid file that cannot be read or names a dead
   process is removed, in a step of its own. *)
Clean(p) ==
    /\ proc[p].pc \in {"clean", "reclean"}
    /\ LET next == IF proc[p].pc = "clean" THEN "check" ELSE "create"
       IN IF Stale THEN UnlinkThen(p, next) ELSE Goto(p, next)
    /\ UNCHANGED <<world, killed, late, commands>>

(* daemon_is_running as a start calls it: refused, or on to the pid file;
   a detached start forks the process that will be the daemon. *)
Check(p) ==
    /\ proc[p].pc = "check"
    /\ \/ Alive(file.pid) /\ Exit(p)
       \/ ~Alive(file.pid) /\ proc[p].cmd # "spawn" /\ Goto(p, "reclean")
       \/ /\ ~Alive(file.pid) /\ proc[p].cmd = "spawn"
          /\ IF \E q \in Procs : ~Alive(q)
             THEN LET q == CHOOSE q \in Procs : ~Alive(q)
                  IN proc' = [proc EXCEPT ![p].pc = "await", ![q] = Started("start")]
             ELSE Exit(p)
    /\ UNCHANGED <<world, killed, late, commands>>

(* The parent of a detached start waits at most five seconds for a live
   process in the pid file, and succeeds either way. *)
Await(p) == /\ proc[p].pc = "await"
            /\ Exit(p)
            /\ UNCHANGED <<world, killed, late, commands>>

(* Mutant: one more. *)
AttemptsMore == 3

Attempts == 2

(* daemon_acquire_pid_file: open with O_EXCL; if the file is there, look at
   it, and remove it and try once more unless its process is alive. *)
Create(p) ==
    /\ proc[p].pc = "create"
    /\ IF file = NoFile
       THEN file' = [maker |-> p, pid |-> Nobody] /\ Goto(p, "write")
       ELSE UNCHANGED file /\ Goto(p, "look")
    /\ UNCHANGED <<endpoint, port, http, jobs, saved, killed, late, commands>>

Look(p) ==
    /\ proc[p].pc = "look"
    /\ IF Alive(file.pid)
       THEN Exit(p)
       ELSE LET again == proc[p].tries + 1 < Attempts
            IN proc' = [proc EXCEPT ![p].pc = "unlink",
                            ![p].tries = IF again THEN @ + 1 ELSE @,
                            ![p].then = IF again THEN "create" ELSE "none"]
    /\ UNCHANGED <<world, killed, late, commands>>

(* The identifier goes to the file that was created, be it still there or
   not.  A write that fails gives up. *)
Write(p) ==
    /\ proc[p].pc = "write"
    /\ \/ /\ file' = IF file.maker = p THEN [file EXCEPT !.pid = p] ELSE file
          /\ Goto(p, "bind")
       \/ UNCHANGED file /\ UnlinkThen(p, "none")
    /\ UNCHANGED <<endpoint, port, http, jobs, saved, killed, late, commands>>

(* Mutant: nobody looks whether the port is taken. *)
TakenNever == FALSE

Taken == http /\ port # Nobody

(* Mutant: a failed start leaves the pid file. *)
GiveUpSilently(p) == Exit(p)

GiveUp(p) == UnlinkThen(p, "none")

(* start_runtime_transports: the HTTP port is refused when it is taken, the
   path of the IPC channel is unlinked and bound again.  On failure the pid
   file is released and the command fails. *)
Bind(p) ==
    /\ proc[p].pc = "bind"
    /\ IF Taken
       THEN GiveUp(p) /\ UNCHANGED port
       ELSE port' = (IF http THEN p ELSE port) /\ Goto(p, "listen")
    /\ UNCHANGED <<file, endpoint, http, jobs, saved, killed, late, commands>>

Listen(p) == /\ proc[p].pc = "listen"
             /\ endpoint' = p
             /\ Goto(p, "install")
             /\ UNCHANGED <<file, port, http, jobs, saved, killed, late, commands>>

(* SIGINT and SIGHUP get their handlers; SIGTERM has none. *)
Install(p) == /\ proc[p].pc = "install"
              /\ Goto(p, "resume")
              /\ UNCHANGED <<world, killed, late, commands>>

(* download_resume_interrupted: what the configuration calls downloading is
   started. *)
Resume(p) == /\ proc[p].pc = "resume"
             /\ jobs' = IF saved = "downloading" THEN jobs \cup {p} ELSE jobs
             /\ Goto(p, "loop")
             /\ UNCHANGED <<file, endpoint, port, http, saved, killed, late, commands>>

---------------------------------------------------------------------------
(* Running and leaving. *)

(* A channel that reaches p starts the download; the IPC thread answers
   until the channel is destroyed, HTTP only while the loop polls it. *)
Begin(p) ==
    /\ p \notin jobs
    /\ \/ endpoint = p /\ (proc[p].pc = "install" \/ Handles(p))
       \/ port = p /\ proc[p].pc = "loop"
    /\ jobs' = jobs \cup {p}
    /\ saved' = "downloading"
    /\ UNCHANGED <<proc, file, endpoint, port, http, killed, late, commands>>

JobEnds(p) == /\ p \in jobs
              /\ jobs' = jobs \ {p}
              /\ saved' = "stopped"
              /\ UNCHANGED <<proc, file, endpoint, port, http, killed, late, commands>>

(* Ctrl-C, a stop command executed inside the daemon, or the shutdown of a
   daemon nobody needs: the loop ends after its round. *)
Interrupt(p) == /\ Handles(p)
                /\ proc[p].run
                /\ proc' = [proc EXCEPT ![p].run = FALSE]
                /\ UNCHANGED <<world, killed, late, commands>>

(* The pid file is released before the downloads are waited for. *)
Leave(p) == /\ proc[p].pc = "loop"
            /\ ~proc[p].run
            /\ UnlinkThen(p, "drain")
            /\ UNCHANGED <<world, killed, late, commands>>

(* Mutant: until no download runs. *)
DrainAll(p) == /\ proc[p].pc = "drain"
               /\ p \notin jobs
               /\ Goto(p, "destroy")
               /\ UNCHANGED <<world, killed, late, commands>>

(* daemon_rpc_shutdown: until no download runs, or thirty seconds. *)
Drain(p) == /\ proc[p].pc = "drain"
            /\ late' = (late \/ p \in jobs)
            /\ Goto(p, "destroy")
            /\ UNCHANGED <<world, killed, commands>>

(* The channels are closed, the path of the IPC channel is unlinked, and
   the pid file is released a second time. *)
Destroy(p) == /\ proc[p].pc = "destroy"
              /\ port' = Without(p, port)
              /\ endpoint' = Nobody
              /\ UnlinkThen(p, "none")
              /\ UNCHANGED <<file, http, jobs, saved, killed, late, commands>>

(* remove(path), for a stale file, a failed start or a release.  A process
   with nothing left to do ends. *)
Unlink(p) ==
    /\ proc[p].pc = "unlink"
    /\ file' = NoFile
    /\ IF proc[p].then = "none"
       THEN Exit(p) /\ jobs' = jobs \ {p}
       ELSE Goto(p, proc[p].then) /\ UNCHANGED jobs
    /\ UNCHANGED <<endpoint, port, http, saved, killed, late, commands>>

---------------------------------------------------------------------------
(* Stopping and reloading. *)

(* daemon_stop is over; a restart goes on as a start. *)
Done(p) == proc' = [proc EXCEPT ![p] = IF proc[p].cmd = "restart" THEN Started("start")
                                                                 ELSE Ended]

(* daemon_is_running as a stop, a restart or a reload calls it. *)
Find(p) ==
    /\ proc[p].pc = "find"
    /\ LET target == file.pid
           found == [proc EXCEPT ![p].seen = target,
                         ![p].pc = IF proc[p].cmd = "reload" THEN "hup" ELSE "signal"]
       IN \/ ~Alive(target) /\ proc[p].cmd # "reload" /\ Done(p)
          \/ ~Alive(target) /\ proc[p].cmd = "reload" /\ Exit(p)
          \/ Alive(target) /\ target = p /\ Done(p)
          \/ Alive(target) /\ target # p /\ proc' = found
    /\ UNCHANGED <<world, killed, late, commands>>

(* SIGTERM or SIGKILL ends the process at once. *)
Signal(p) ==
    /\ proc[p].pc = "signal"
    /\ LET q == proc[p].seen
           waits == proc[p].cmd \in {"stopwait", "restart"}
       IN IF Alive(q)
          THEN /\ proc' = [proc EXCEPT ![q] = Ended,
                               ![p] = IF waits THEN [proc[p] EXCEPT !.pc = "poll"] ELSE Ended]
               /\ Die(q)
          ELSE Exit(p) /\ UNCHANGED <<endpoint, port, jobs, killed>>
    /\ UNCHANGED <<file, http, saved, late, commands>>

(* Until the pid file names no live process, or ten seconds. *)
Poll(p) == /\ proc[p].pc = "poll"
           /\ IF Alive(file.pid) THEN Exit(p) ELSE Done(p)
           /\ UNCHANGED <<world, killed, late, commands>>

(* SIGHUP: a daemon that has its handlers reloads, any other process ends. *)
Hup(p) ==
    /\ proc[p].pc = "hup"
    /\ LET q == proc[p].seen
       IN IF Alive(q) /\ ~Handles(q)
          THEN proc' = [proc EXCEPT ![q] = Ended, ![p] = Ended] /\ Die(q)
          ELSE Exit(p) /\ UNCHANGED <<endpoint, port, jobs, killed>>
    /\ UNCHANGED <<file, http, saved, late, commands>>

Launch(p, c) ==
    /\ ~Alive(p)
    /\ commands < MaxCommands
    /\ commands' = commands + 1
    /\ proc' = [proc EXCEPT ![p] = IF c \in {"start", "spawn"} THEN Started(c)
                                   ELSE [Ended EXCEPT !.pc = "find", !.cmd = c]]
    /\ UNCHANGED <<world, killed, late>>

Step(p) == \/ Clean(p) \/ Check(p) \/ Await(p) \/ Create(p) \/ Look(p) \/ Write(p)
           \/ Bind(p) \/ Listen(p) \/ Install(p) \/ Resume(p)
           \/ Leave(p) \/ Drain(p) \/ Destroy(p) \/ Unlink(p)
           \/ Find(p) \/ Signal(p) \/ Poll(p) \/ Hup(p)

Next == /\ \E p \in Procs : \/ Step(p)
                            \/ Begin(p) \/ JobEnds(p) \/ Interrupt(p)
                            \/ \E c \in Commands : Launch(p, c)
        /\ Watch

Fairness == \A p \in Procs : WF_vars(Step(p) /\ Watch)

Spec == Init /\ [][Next]_vars /\ Fairness

---------------------------------------------------------------------------
(* The types of the variables of daemon.c's processes and files. *)
TypeOK ==
    /\ proc \in [Procs -> [pc : {"none", "clean", "reclean", "check", "await", "create", "look",
                                 "write", "bind", "listen", "install", "resume", "loop", "drain",
                                 "destroy", "unlink", "find", "signal", "poll", "hup"},
                           then : {"none", "check", "create", "drain"},
                           tries : 0..1, seen : Procs \cup {Nobody},
                           cmd : Commands, run : BOOLEAN]]
    /\ file \in [maker : Procs \cup {Nobody}, pid : Procs \cup {Nobody}]
    /\ endpoint \in Procs \cup {Nobody}
    /\ port \in Procs \cup {Nobody, "another program"}
    /\ jobs \subseteq Procs
    /\ saved \in {"stopped", "downloading"}
    /\ commands \in 0..MaxCommands

(* As long as no two daemons start or leave at once (daemon_start,
   daemon.c:690-793), a daemon in its loop can be found: the pid file holds
   its identifier and its channels reach it, whatever refused or failed
   commands ran meanwhile. *)
SoleIsReachable ==
    alone => \A p \in Procs : proc[p].pc = "loop" =>
                                 /\ file = [maker |-> p, pid |-> p]
                                 /\ endpoint = p
                                 /\ http => port = p

(* Two processes never download the same item at once: with an HTTP port to
   hold, even while daemons start and leave in any order; without one, as
   long as they do not overlap.  A shutdown that stopped waiting
   (daemon.c:778-779, download_wait_idle) is the exception. *)
OneDownloader == (http \/ alone) /\ ~late => Cardinality(jobs) <= 1

(* When every daemon has left by itself, with or without success, nothing
   of it is left: no pid file, no socket, no port (daemon.c:735-741,
   776-785). *)
CleanExit == alone /\ ~killed /\ (\A p \in Procs : ~Moving(proc[p]) /\ proc[p].pc # "loop")
                => file = NoFile /\ endpoint = Nobody /\ port \notin Procs

(* Of finitely many commands each comes to its end or to a running daemon,
   and a daemon that was told to end does: no wait on another process, on the
   pid file or on a download is without a limit (daemon.c:391-427, 846-856). *)
CommandsReturn ==
    <>[](\A p \in Procs : proc[p].pc = "none" \/ (proc[p].pc = "loop" /\ proc[p].run))
=============================================================================
