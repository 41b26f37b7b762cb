------------------------------ MODULE MCDaemon ------------------------------
(* An instance of the three modules of the daemon that share no state: one   *)
(* daemon's threads and their callers, which this module extends, the        *)
(* processes, and the updates of the graphical clients.  A behaviour is one  *)
(* of the part chosen at the start.                                          *)
EXTENDS DaemonService, Integers, FiniteSets, TLC

CONSTANTS Procs, MaxCommands,
          c1, c2,
          Viewers, MaxContent, MaxFaults, Resync

VARIABLES part,
          proc, file, endpoint, port, http, jobs, saved, alone, killed, late, commands,
          content, cached, age, sender, attached, sent, stream, link, polling, call, view,
          faults

MCKinds == (c1 :> {"add", "exec"}) @@ (c2 :> {"exec", "big", "bad", "silent"})

Process == INSTANCE DaemonProcess
Live == INSTANCE LiveUpdates

ASSUME ConstantsAssumption ==
    Process!DaemonAssumption /\ Live!LiveAssumption

processVars == <<proc, file, endpoint, port, http, jobs, saved, alone, killed, late, commands>>
liveVars ==
    <<content, cached, age, sender, attached, sent, stream, link, polling, call, view, faults>>
vars == <<part, processVars, svars, liveVars>>

(* The parts that do not run keep their first state. *)
MCInit ==
    /\ part \in {"process", "service", "live"}
    /\ Process!Init /\ Init /\ Live!Init
    /\ part # "process" => http /\ port = Nobody /\ saved = "stopped"
    /\ part # "service" => cl[c1] = Command("add", "pipe", TRUE) /\ cl[c2].cmd = "big"

ProcessOnly == part = "process" /\ UNCHANGED <<part, svars, liveVars>>
ServiceOnly == part = "service" /\ UNCHANGED <<part, processVars, liveVars>>
LiveOnly == part = "live" /\ UNCHANGED <<part, processVars, svars>>

MCNext == \/ ProcessOnly /\ Process!Next
          \/ ServiceOnly /\ Next
          \/ LiveOnly /\ Live!Next

(* The fairness of each part, while it is the one that runs. *)
Fairness ==
    /\ \A p \in Procs : WF_processVars(ProcessOnly /\ Process!Step(p) /\ Process!Watch)
    /\ WF_svars(ServiceOnly /\ Main)
    /\ WF_svars(ServiceOnly /\ Ipc)
    /\ \A c \in Clients : WF_svars(ServiceOnly /\ Client(c))
    /\ WF_liveVars(LiveOnly /\ Live!Sender)
    /\ \A v \in Viewers : /\ SF_liveVars(LiveOnly /\ Live!Attach(v))
                           /\ WF_liveVars(LiveOnly /\ Live!Receiver(v))
                           /\ WF_liveVars(LiveOnly /\ Live!Poller(v))

MCSpec == MCInit /\ [][MCNext]_vars /\ Fairness

---------------------------------------------------------------------------
(* The state is well formed, a daemon that is the only one to start or leave
   is found by the others (daemon_acquire_pid_file), two processes never
   download the same item at once (download_resume_interrupted), and daemons
   that ended by themselves leave nothing (daemon_release_pid_file,
   destroy_runtime_transports). *)
OneDaemon ==
    /\ Process!TypeOK /\ TypeOK /\ Live!TypeOK
    /\ Process!SoleIsReachable /\ Process!OneDownloader /\ Process!CleanExit

(* Every start, stop, restart and reload comes to its end or to a daemon in
   its loop (daemon_start, daemon_stop), and a daemon that is told to end
   closes its channels (ipc_server_loop, pipe_stop). *)
EverythingReturns == Process!CommandsReturn /\ ShutdownReturns

(* Clients come to show the content (daemon_rpc_streams_tick,
   SyncCoordinator), and a change during a broadcast is not lost. *)
ViewsConverge == <>[](part = "live" => Live!Shown) /\ Live!BroadcastIsNoted
=============================================================================
