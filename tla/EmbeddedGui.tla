----------------------------- MODULE EmbeddedGui -----------------------------
(* `avar gui`: a process that is the daemon and, in a thread of its own,     *)
(* opens a window on it (gui_launch.c).  The program of the window comes     *)
(* packed in the executable and is unpacked once into a cache directory that *)
(* all processes share, with a marker for what is complete                   *)
(* (electron_embed.c).  Closing the window asks the daemon in the same       *)
(* process to end, which it heeds only from the moment it has begun          *)
(* (daemon_request_shutdown, daemon_start).                                  *)
EXTENDS Naturals

CONSTANTS
    Guis,        \* processes of `avar gui`
    Nobody,      \* no process
    MaxTries,    \* attempts to reach the port
    MaxStarts,   \* times a process is started
    MaxFaults    \* processes killed, failures of the disk

(* What an instance has to give these constants. *)
EmbeddedGuiAssumption == /\ Nobody \notin Guis
                         /\ {MaxTries, MaxStarts, MaxFaults} \subseteq Nat

VARIABLES
    main,     \* process -> where its daemon is, its two flags
    ui,       \* process -> where the thread of the window is, what it reached
    port,     \* the process that listens at the HTTP port
    pidfile,  \* the process that the pid file names
    cache,    \* the archive, the unpacked bundle and the marker
    kind,     \* where the program of the window is: packed in the executable, or
              \* beside it, there also with a daemon at an address of IPv6 only
    starts,
    faults,
    mixed,    \* history: two unpacked at once, or on top of a marked bundle
    unseen    \* history: bytes were lost and neither fclose nor tar told

vars == <<main, ui, port, pidfile, cache, kind, starts, faults, mixed, unseen>>

Unpacking == {"slicing", "untar", "untarring", "mark"}
MainSteps == {"ended", "begin", "flag", "bind", "loop", "drain"}
UiSteps == {"none", "wait", "resolve", "slice", "spawn", "window", "browse", "ask"}
           \cup Unpacking

Off == [at |-> "ended", running |-> FALSE, active |-> FALSE]
NoUi == [at |-> "none", tries |-> 0, shows |-> Nobody]

Init == /\ main = [g \in Guis |-> Off]
        /\ ui = [g \in Guis |-> NoUi]
        /\ port \in {Nobody, "another program"}
        /\ pidfile = Nobody
        /\ cache = [archive |-> "none", bundle |-> "none", marked |-> FALSE]
        /\ kind \in {"embedded", "beside", "unreachable"}
        /\ starts = 0
        /\ faults = 0
        /\ mixed = FALSE
        /\ unseen = FALSE

Lives(g) == g \in Guis /\ main[g].at # "ended"
Fault == faults < MaxFaults /\ faults' = faults + 1
MainAt(g, step) == Lives(g) /\ main[g].at = step
UiAt(g, step) == Lives(g) /\ ui[g].at = step
MainGoes(g, step) == main' = [main EXCEPT ![g].at = step]
UiGoes(g, step) == ui' = [ui EXCEPT ![g].at = step]

UiIsOver(g) == ui' = [ui EXCEPT ![g] = NoUi]

UiStuff == <<ui, cache, kind, mixed, unseen>>

(* The end of a process is the end of its threads.  A window stays open. *)
Over(g) == /\ main' = [main EXCEPT ![g] = Off]
           /\ ui' = [ui EXCEPT ![g] = NoUi]
           /\ port' = IF port = g THEN Nobody ELSE port

---------------------------------------------------------------------------
(* The daemon. *)

(* run_embedded_gui starts the thread and calls daemon_start. *)
Start(g) == /\ ~Lives(g)
            /\ starts < MaxStarts /\ starts' = starts + 1
            /\ MainGoes(g, "begin")
            /\ ui' = [ui EXCEPT ![g].at = "wait"]
            /\ UNCHANGED <<port, pidfile, cache, kind, faults, mixed, unseen>>

(* daemon_is_running: another daemon is there, and the command ends with the
   thread it has started; else the daemon is running. *)
Begin(g) == /\ MainAt(g, "begin")
            /\ IF Lives(pidfile)
               THEN Over(g)
               ELSE /\ main' = [main EXCEPT ![g].at = "flag", ![g].running = TRUE]
                    /\ UNCHANGED <<ui, port>>
            /\ UNCHANGED <<pidfile, cache, kind, starts, faults, mixed, unseen>>

(* Mutant: nobody notes that the daemon has begun. *)
BegunUnnoted(g) == [main[g] EXCEPT !.at = "bind"]

(* From here on a request to end is heeded. *)
Begun(g) == [main[g] EXCEPT !.at = "bind", !.active = TRUE]

(* daemon_acquire_pid_file: another daemon may have come first. *)
Flag(g) == /\ MainAt(g, "flag")
           /\ IF Lives(pidfile)
              THEN Over(g) /\ UNCHANGED pidfile
              ELSE /\ pidfile' = g
                   /\ main' = [main EXCEPT ![g] = Begun(g)]
                   /\ UNCHANGED <<ui, port>>
           /\ UNCHANGED <<cache, kind, starts, faults, mixed, unseen>>

(* start_runtime_transports *)
Bind(g) == /\ MainAt(g, "bind")
           /\ IF port # Nobody
              THEN Over(g) /\ pidfile' = Nobody
              ELSE port' = g /\ MainGoes(g, "loop") /\ UNCHANGED <<ui, pidfile>>
           /\ UNCHANGED <<cache, kind, starts, faults, mixed, unseen>>

(* Ctrl-C, the stop command, or nobody needs the daemon any more. *)
Told(g) == /\ MainAt(g, "loop") /\ main[g].running
           /\ main' = [main EXCEPT ![g].running = FALSE]
           /\ UNCHANGED <<UiStuff, port, pidfile, starts, faults>>

Leave(g) == /\ MainAt(g, "loop") /\ ~main[g].running
            /\ main' = [main EXCEPT ![g].at = "drain", ![g].active = FALSE]
            /\ pidfile' = IF pidfile = g THEN Nobody ELSE pidfile
            /\ UNCHANGED <<UiStuff, port, starts, faults>>

Return(g) == /\ MainAt(g, "drain")
             /\ Over(g)
             /\ UNCHANGED <<pidfile, cache, kind, starts, faults, mixed, unseen>>

(* The process is killed, with the tar it has started; its pid file stays. *)
Kill(g) == /\ Lives(g)
           /\ Fault
           /\ Over(g)
           /\ UNCHANGED <<pidfile, cache, kind, starts, mixed, unseen>>

Daemon(g) == Begin(g) \/ Flag(g) \/ Bind(g) \/ Leave(g) \/ Return(g)

---------------------------------------------------------------------------
(* The thread of the window. *)

MainStuff == <<main, port, pidfile, kind, starts>>

(* Mutant: it waits for as long as it takes. *)
GivesUpNever(g) == FALSE

GivesUp(g) == ui[g].tries = MaxTries

(* wait_for_tcp_port looks for an address of IPv4: whoever listens there will
   do, and after the last attempt the window is opened anyway. *)
Reach(g) == /\ UiAt(g, "wait")
            /\ \/ /\ port # Nobody /\ kind # "unreachable"
                  /\ ui' = [ui EXCEPT ![g].at = "resolve", ![g].shows = port,
                                       ![g].tries = 0]
               \/ /\ ~GivesUp(g)
                  /\ port = Nobody \/ kind = "unreachable"
                  /\ ui' = [ui EXCEPT ![g].tries = IF @ < MaxTries THEN @ + 1 ELSE @]
               \/ GivesUp(g) /\ ui' = [ui EXCEPT ![g].at = "resolve", ![g].tries = 0]
            /\ UNCHANGED <<MainStuff, cache, faults, mixed, unseen>>

(* electron_embed_resolve_exe looks whether the program is in the bundle. *)
Unpacked == IF cache.bundle = "whole" THEN {"spawn"} ELSE {"spawn", "browse"}

(* launch_gui_frontend: a bundle that is marked is used as it is. *)
Resolve(g) == /\ UiAt(g, "resolve")
              /\ \/ kind # "embedded" /\ UiGoes(g, "spawn")
                 \/ kind = "embedded" /\ ~cache.marked /\ UiGoes(g, "slice")
                 \/ kind = "embedded" /\ cache.marked /\ \E next \in Unpacked : UiGoes(g, next)
              /\ UNCHANGED <<MainStuff, cache, faults, mixed, unseen>>

(* write_archive_slice makes the archive anew, under the one name, and
   removes it when a write fails; the result of fclose is not looked at. *)
Slice(g) ==
    /\ UiAt(g, "slice")
    /\ cache' = [cache EXCEPT !.archive = "part"]
    /\ UiGoes(g, "slicing")
    /\ mixed' = (mixed \/ cache.marked
                       \/ \E o \in Guis \ {g} : Lives(o) /\ ui[o].at \in Unpacking)
    /\ UNCHANGED <<MainStuff, faults, unseen>>

Sliced(g) ==
    /\ UiAt(g, "slicing")
    /\ \/ /\ cache' = [cache EXCEPT !.archive = IF @ = "part" THEN "whole" ELSE @]
          /\ UiGoes(g, "untar")
          /\ UNCHANGED faults
       \/ /\ Fault
          /\ \/ cache' = [cache EXCEPT !.archive = "none"] /\ UiGoes(g, "browse")
             \/ UiGoes(g, "untar") /\ UNCHANGED cache
    /\ UNCHANGED <<MainStuff, mixed, unseen>>

(* run_extract_command: tar writes over what is there. *)
Untar(g) == /\ UiAt(g, "untar")
            /\ IF cache.archive = "none"
               THEN UiGoes(g, "browse") /\ UNCHANGED cache
               ELSE /\ UiGoes(g, "untarring")
                    /\ cache' = [cache EXCEPT !.bundle = "part"]
            /\ UNCHANGED <<MainStuff, faults, mixed, unseen>>

(* Mutant: what tar says is not looked at. *)
TarToldAnyway(g) == UiGoes(g, "mark")

TarTold(g) == UiGoes(g, "browse")

(* A tar that fails ends the attempt with the archive; one that meets a
   shortened archive may take it for the end. *)
Untarred(g) ==
    /\ UiAt(g, "untarring")
    /\ \/ /\ cache.archive = "whole"
          /\ cache' = [cache EXCEPT !.bundle = "whole", !.archive = "none"]
          /\ UiGoes(g, "mark")
          /\ UNCHANGED <<faults, unseen>>
       \/ /\ IF cache.archive = "whole" THEN Fault ELSE UNCHANGED faults
          /\ cache' = [cache EXCEPT !.archive = "none"]
          /\ TarTold(g)
          /\ UNCHANGED unseen
       \/ /\ cache.archive # "whole"
          /\ cache' = [cache EXCEPT !.archive = "none"]
          /\ UiGoes(g, "mark")
          /\ unseen' = TRUE
          /\ UNCHANGED faults
    /\ UNCHANGED <<MainStuff, mixed>>

(* The marker comes last; one that cannot be written is not missed. *)
Mark(g) == /\ UiAt(g, "mark")
           /\ \/ cache' = [cache EXCEPT !.marked = TRUE] /\ UNCHANGED faults
              \/ Fault /\ UNCHANGED cache
           /\ \E next \in Unpacked : UiGoes(g, next)
           /\ UNCHANGED <<MainStuff, mixed, unseen>>

(* posix_spawn; the thread waits for the window to be closed.  A program
   that does not start is followed by the browser. *)
Spawn(g) == /\ UiAt(g, "spawn")
            /\ UiGoes(g, "window") \/ UiGoes(g, "browse")
            /\ UNCHANGED <<MainStuff, cache, faults, mixed, unseen>>

(* The user closes the window, or it ends by itself. *)
Close(g) == /\ UiAt(g, "window")
            /\ UiGoes(g, "ask")
            /\ UNCHANGED <<MainStuff, cache, faults, mixed, unseen>>

(* The daemon stays for a browser, and is asked to end if none opens. *)
Browse(g) == /\ UiAt(g, "browse")
             /\ UiIsOver(g) \/ UiGoes(g, "ask")
             /\ UNCHANGED <<MainStuff, cache, faults, mixed, unseen>>

(* daemon_request_shutdown *)
Ask(g) == /\ UiAt(g, "ask")
          /\ main' = IF main[g].active THEN [main EXCEPT ![g].running = FALSE] ELSE main
          /\ UiIsOver(g)
          /\ UNCHANGED <<port, pidfile, cache, kind, starts, faults, mixed, unseen>>

Window(g) == \/ Reach(g) \/ Resolve(g) \/ Slice(g) \/ Sliced(g) \/ Untar(g) \/ Untarred(g)
             \/ Mark(g) \/ Spawn(g) \/ Browse(g) \/ Ask(g)

Next == \E g \in Guis : Start(g) \/ Daemon(g) \/ Told(g) \/ Kill(g) \/ Window(g) \/ Close(g)

(* Threads run; the user closes a window or not. *)
Fairness == \A g \in Guis : WF_vars(Daemon(g)) /\ WF_vars(Window(g))

Spec == Init /\ [][Next]_vars /\ Fairness

---------------------------------------------------------------------------
(* The types of the variables. *)
TypeOK ==
    /\ main \in [Guis -> [at : MainSteps, running : BOOLEAN, active : BOOLEAN]]
    /\ ui \in [Guis -> [at : UiSteps, tries : 0..MaxTries,
                        shows : Guis \cup {Nobody, "another program"}]]
    /\ port \in Guis \cup {Nobody, "another program"}
    /\ pidfile \in Guis \cup {Nobody}
    /\ cache \in [archive : {"none", "part", "whole"}, bundle : {"none", "part", "whole"},
                  marked : BOOLEAN]
    /\ kind \in {"embedded", "beside", "unreachable"}
    /\ starts \in 0..MaxStarts /\ faults \in 0..MaxFaults
    /\ mixed \in BOOLEAN /\ unseen \in BOOLEAN

(* A bundle that is marked is complete, whenever a process is killed or a
   step fails, unless two processes unpacked at once or bytes were lost
   without a word (extract_archive_to_cache). *)
MarkedIsWhole == cache.marked => cache.bundle = "whole" \/ mixed \/ unseen

Asking(g) == UiAt(g, "ask") /\ ui[g].shows = g

Ended(g) == ~Lives(g)

(* Once a window that came up on its own daemon is closed, or could not be
   opened, the process ends (gui_ui_launch_worker, daemon_request_shutdown). *)
ClosingEnds == \A g \in Guis : Asking(g) ~> Ended(g)

Opening(g) == Lives(g) /\ ui[g].at \notin {"none", "window"}
Opened(g) == ~Opening(g)

(* A window comes up or the user is left with the browser, whether or not the
   daemon can be reached (wait_for_tcp_port). *)
ComesUp == \A g \in Guis : Opening(g) ~> Opened(g)

(* The inductive invariant: unless two unpacked at once, nobody unpacks what is
   marked, one at most unpacks at all, and who is about to mark has unpacked
   everything or been told so. *)
Unpacks(g) == Lives(g) /\ ui[g].at \in Unpacking
OneUnpacks ==
    ~mixed => /\ \A g \in Guis : Unpacks(g) => ~cache.marked
              /\ \A g, o \in Guis : Unpacks(g) /\ Unpacks(o) => g = o
              /\ \A g \in Guis : UiAt(g, "mark") => cache.bundle = "whole" \/ unseen

IInv == TypeOK /\ OneUnpacks /\ MarkedIsWhole
=============================================================================
