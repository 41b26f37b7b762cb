----------------------------- MODULE MCTransfer -----------------------------
(* Instances of twelve modules that share no state: transfers without        *)
(* segments, lists of pieces, requests through proxies and the choice of the *)
(* proxy, ids, names of finished files, the directories of jobs, bookmarks,  *)
(* the console's log, the bridge of the browser extensions, the sessions of  *)
(* the client and the window of an embedded daemon.  A behaviour is one of a *)
(* part chosen at the start; as no two parts run together they use the same  *)
(* variables, which each names in its own way.                               *)
EXTENDS Integers, Sequences, FiniteSets, TLC

CONSTANTS
    Total, ChunkSize, MaxRedirects, MaxRuns,                \* StreamTransfer
    Text, Root, PageList,                                   \* SegmentList
    Size,                                                   \* ProxyRequest
    Proxies, Direct, Hosts, Lists,                          \* ProxyRoute
    Processes, Machine, SequenceMask, MaxTime, MaxSteps,    \* Identifiers
    FileJobs, Others, MaxName, MaxFileFaults,               \* FinishedFiles
    Urls, MaxEdits,                                         \* Bookmarks
    Cap, Batch, MaxEntries, MaxLines, MaxUpsets,            \* LiveLog
    Requests,                                               \* ExtensionBridge
    Local, Addresses, SessionIds, Nothing, MaxSwitches,     \* SessionSwitch
    Items,                                                  \* WorkDirectories
    Guis, MaxTries, MaxStarts,                              \* EmbeddedGui
    Nobody, MaxFaults, MaxChanges, MaxCalls,                \* several of them
    p1, p2

VARIABLES part,
          v1, v2, v3, v4, v5, v6, v7, v8, v9, v10, v11, v12, v13, v14, v15

(* An encrypted playlist behind a master: a derived vector, a given one, a
   piece in the clear; the variant of the lower bandwidth is another video.  A
   key line whose vector is -1 gives none. *)
Key(method, key, iv) == [is |-> "key", method |-> method, key |-> key, iv |-> iv]
Piece(n) == [is |-> "piece", n |-> n]
Variant(bandwidth, address) ==
    [is |-> "variant", bandwidth |-> bandwidth, address |-> address]
Playlists ==
    [master |-> <<Variant(1, "low"), Variant(2, "high")>>,
     low |-> <<Piece(9)>>,
     high |-> <<[is |-> "sequence", n |-> 5],
                Key("AES-128", "k1", -1), Piece(1),
                Key("AES-128", "k2", 7), Piece(2),
                Key("NONE", "none", -1), Piece(3)>>]

Pieces == <<1, 2>>
NoProxy == {{[form |-> f, name |-> <<"org">>]} : f \in {"dot", "star", "plain"}}
Domains == {<<"org">>, <<"www", "org">>}
Bits == p1 :> 1

Stream == INSTANCE StreamTransfer WITH
           server <- v1, segmentable <- v2, run <- v3, j <- v4, net <- v5, file <- v6,
           saved <- v7, status <- v8, dest <- v9, faults <- v10, runs <- v11, spoilt <- v12,
           blind <- v13

List == INSTANCE SegmentList WITH
           Given <- PageList,
           kind <- v1, job <- v2, status <- v3, temp <- v4, dests <- v5, data <- v6, cut <- v7,
           overlapped <- v8, faults <- v9

Request == INSTANCE ProxyRequest WITH
           user <- v1, target <- v2, proxy <- v3, auth <- v4, conn <- v5, tls <- v6, stage <- v7,
           tunnel <- v8, requested <- v9, sent <- v10, heard <- v11, buffer <- v12, writes <- v13,
           method <- v14, result <- v15

Route == INSTANCE ProxyRoute WITH
           host <- v1, env <- v2, envList <- v3, config <- v4, configList <- v5, given <- v6,
           saved <- v7, used <- v8, changes <- v9

Ids == INSTANCE Identifiers WITH
           clock <- v1, last <- v2, waits <- v3, handed <- v4, known <- v5, saved <- v6,
           entries <- v7, fresh <- v8, steps <- v9

Files == INSTANCE FinishedFiles WITH
           Jobs <- FileJobs, MaxFaults <- MaxFileFaults,
           dir <- v1, temp <- v2, pc <- v3, name <- v4, across <- v5, faults <- v6, raced <- v7

Marks == INSTANCE Bookmarks WITH
           MaxCalls <- MaxEdits, MaxFaults <- MaxFileFaults,
           file <- v1, tmp <- v2, call <- v3, clock <- v4, used <- v5, faults <- v6, unread <- v7

Log == INSTANCE LiveLog WITH
           ring <- v1, life <- v2, calls <- v3, console <- v4, upsets <- v5, overlapped <- v6

Bridge == INSTANCE ExtensionBridge WITH
           bridge <- v1, gui <- v2, posts <- v3, sent <- v4, last <- v5, requests <- v6,
           checks <- v7, changes <- v8, faults <- v9

Switch == INSTANCE SessionSwitch WITH
           Names <- SessionIds, MaxChanges <- MaxSwitches,
           sessions <- v1, active <- v2, stored <- v3, options <- v4, calls <- v5, shown <- v6,
           changes <- v7, aside <- v8

Work == INSTANCE WorkDirectories WITH
           Jobs <- FileJobs,
           root <- v1, dir <- v2, job <- v3, removal <- v4, removed <- v5, busy <- v6,
           raced <- v7, faults <- v8

Gui == INSTANCE EmbeddedGui WITH
           main <- v1, ui <- v2, port <- v3, pidfile <- v4, cache <- v5, kind <- v6,
           starts <- v7, faults <- v8, mixed <- v9, unseen <- v10

ASSUME ConstantsAssumption ==
    /\ Stream!StreamAssumption
    /\ List!SegmentListAssumption
    /\ Request!ProxyRequestAssumption
    /\ Route!ProxyRouteAssumption
    /\ Ids!IdentifiersAssumption
    /\ Files!FinishedAssumption
    /\ Marks!BookmarksAssumption
    /\ Log!LiveLogAssumption
    /\ Bridge!BridgeAssumption
    /\ Switch!SessionAssumption
    /\ Work!WorkAssumption
    /\ Gui!EmbeddedGuiAssumption

vars == <<part, v1, v2, v3, v4, v5, v6, v7, v8, v9, v10, v11, v12, v13, v14, v15>>

After6 == <<v7, v8, v9, v10, v11, v12, v13, v14, v15>>
After7 == <<v8, v9, v10, v11, v12, v13, v14, v15>>
After8 == <<v9, v10, v11, v12, v13, v14, v15>>
After9 == <<v10, v11, v12, v13, v14, v15>>
After10 == <<v11, v12, v13, v14, v15>>
After13 == <<v14, v15>>

(* The variables a part does not use are 0. *)
Zero13 == v14 = 0 /\ v15 = 0
Zero10 == v11 = 0 /\ v12 = 0 /\ v13 = 0 /\ Zero13
Zero9 == v10 = 0 /\ Zero10
Zero8 == v9 = 0 /\ Zero9
Zero7 == v8 = 0 /\ Zero8
Zero6 == v7 = 0 /\ Zero7

Init ==
    \/ part = "stream" /\ Stream!Init /\ Zero13
    \/ part = "list" /\ List!Init /\ Zero9
    \/ part = "request" /\ Request!Init
    \/ part = "route" /\ Route!Init /\ Zero9
    \/ part = "ids" /\ Ids!Init /\ Zero9
    \/ part = "files" /\ Files!Init /\ Zero7
    \/ part = "marks" /\ Marks!Init /\ Zero7
    \/ part = "log" /\ Log!Init /\ Zero6
    \/ part = "bridge" /\ Bridge!Init /\ Zero9
    \/ part = "switch" /\ Switch!Init /\ Zero8
    \/ part = "work" /\ Work!Init /\ Zero8
    \/ part = "gui" /\ Gui!Init /\ Zero10

StreamOnly == part = "stream" /\ UNCHANGED <<part, After13>>
ListOnly == part = "list" /\ UNCHANGED <<part, After9>>
RequestOnly == part = "request" /\ UNCHANGED part
RouteOnly == part = "route" /\ UNCHANGED <<part, After9>>
IdsOnly == part = "ids" /\ UNCHANGED <<part, After9>>
FilesOnly == part = "files" /\ UNCHANGED <<part, After7>>
MarksOnly == part = "marks" /\ UNCHANGED <<part, After7>>
LogOnly == part = "log" /\ UNCHANGED <<part, After6>>
BridgeOnly == part = "bridge" /\ UNCHANGED <<part, After9>>
SwitchOnly == part = "switch" /\ UNCHANGED <<part, After8>>
WorkOnly == part = "work" /\ UNCHANGED <<part, After8>>
GuiOnly == part = "gui" /\ UNCHANGED <<part, After10>>

Next ==
    \/ StreamOnly /\ Stream!Next
    \/ ListOnly /\ List!Next
    \/ RequestOnly /\ Request!Next
    \/ RouteOnly /\ Route!Next
    \/ IdsOnly /\ Ids!Next
    \/ FilesOnly /\ Files!Next
    \/ MarksOnly /\ Marks!Next
    \/ LogOnly /\ Log!Next
    \/ BridgeOnly /\ Bridge!Next
    \/ SwitchOnly /\ Switch!Next
    \/ WorkOnly /\ Work!Next
    \/ GuiOnly /\ Gui!Next

(* The fairness of each part, while it is the one that runs: as the part does
   not change, what is fair in one part and what is in another make one fair
   action together. *)
Turn(n) ==
    CASE n = 1 -> \/ StreamOnly /\ Stream!Transfer
                  \/ ListOnly /\ List!Step(1)
                  \/ RequestOnly /\ Request!Loop
                  \/ LogOnly /\ Log!Poll
                  \/ BridgeOnly /\ Bridge!Serve
                  \/ SwitchOnly /\ Switch!Poll
                  \/ GuiOnly /\ Gui!Daemon(p1)
      [] n = 2 -> \/ ListOnly /\ List!Step(2)
                  \/ LogOnly /\ Log!Serve
                  \/ BridgeOnly /\ Bridge!Round(1)
                  \/ SwitchOnly /\ Switch!Refresh
                  \/ GuiOnly /\ Gui!Daemon(p2)
      [] n = 3 -> \/ LogOnly /\ (Log!Show \/ Log!Skip)
                  \/ BridgeOnly /\ Bridge!Round(2)
                  \/ GuiOnly /\ Gui!Window(p1)
      [] n = 4 -> \/ LogOnly /\ Log!Toggle
                  \/ GuiOnly /\ Gui!Window(p2)

Fairness == \A n \in 1..4 : WF_vars(Turn(n))

Spec == Init /\ [][Next]_vars /\ Fairness

---------------------------------------------------------------------------
(* The types of the variables of each part. *)
TypeOK ==
    /\ part = "stream" => Stream!TypeOK
    /\ part = "list" => List!TypeOK
    /\ part = "request" => Request!TypeOK
    /\ part = "route" => Route!TypeOK
    /\ part = "ids" => Ids!TypeOK
    /\ part = "files" => Files!TypeOK
    /\ part = "marks" => Marks!TypeOK
    /\ part = "log" => Log!TypeOK
    /\ part = "bridge" => Bridge!TypeOK
    /\ part = "switch" => Switch!TypeOK
    /\ part = "work" => Work!TypeOK
    /\ part = "gui" => Gui!TypeOK

(* A completed file is the whole body (finalize_download), the pieces of a
   list in order and deciphered (hls_parse_media_playlist); while it gets
   its name it is always somewhere in one piece (move_file_atomic); and the
   bundle of the window is complete once it is marked
   (extract_archive_to_cache). *)
FinishedIsWhole ==
    /\ part = "stream" => Stream!WholeWhenDone
    /\ part = "list" => List!PiecesInOrder
    /\ part = "files" => Files!AlwaysSomewhere
    /\ part = "gui" => Gui!MarkedIsWhole

(* What is saved as done is in the file (save_stream_progress), the file of
   the bookmarks is never in pieces (persist_json_file), a job has its
   directory, a removed item leaves none (make_dirs_in_path,
   remove_directory_recursive), and everything else that is kept has its
   type. *)
StoredIsTrue ==
    /\ part = "stream" => Stream!SavedIsThere
    /\ part = "marks" => Marks!AlwaysWhole
    /\ part = "work" => Work!HasDirectory /\ Work!RemovedIsGone
    /\ TypeOK

(* A connection asks once (probe_send_request, send_request_for_slot), what a
   probe reports is the size of the file (probe_extract_size), all runs of a
   download use one proxy (apply_proxy_to_state), no two entries share an id
   (download_generate_id), and of two jobs that make a directory at once one
   is refused, nobody else (make_dirs_in_path). *)
OneOfEach ==
    /\ part = "request" => Request!AsksOnce /\ Request!SizeIsTheFiles
    /\ part = "route" => Route!OneProxyForAll
    /\ part = "ids" => Ids!OneEntryPerId
    /\ part = "work" => Work!RefusedIfRaced

(* The console shows the lines of one daemon in order, leaves out only what
   had left the ring, and shows nothing again that was cleared
   (pollDaemonLogs); the bridge is as the settings it got last, and has not
   executed what it calls an error (syncSettings, avar_daemon_rpc_call); the
   client talks to the session that was chosen (applySession). *)
ClientsAreRight ==
    /\ part = "log" => Log!ShownInOrder /\ Log!NothingSkipped /\ Log!ClearedStaysCleared
    /\ part = "bridge" => Bridge!FollowsSettings /\ Bridge!ErrorsAreHarmless
    /\ part = "switch" => Switch!ClientFollows

(* A byte that is right stays right (append_stream, write_at_offset), an id
   is made once (download_snowflake_next), files of others are left alone
   (resolve_unique_dest_path), and a bookmark stays until it is removed
   (bookmark_remove). *)
NothingIsSpoilt ==
    [][/\ part = "stream" => Stream!RightBytesStay
       /\ part = "ids" => Ids!MadeAnew
       /\ part = "files" => Files!OthersUntouched
       /\ part = "marks" => Marks!GoneIsRemoved]_vars

(* A job ends (run_download_inner), so does one on a list (http_fetch_body),
   and a request through a proxy or without (probe_handler). *)
TransfersEnd ==
    []<>(/\ part = "stream" => ~Stream!Running
         /\ part = "list" => \A job \in {1, 2} : List!Begun(job) => List!Ended(job)
         /\ part = "request" => Request!Over)

(* The console comes to the last line (pollDaemonLogs), the bridge gets free
   of a request it waits for (avar_daemon_rpc_call), the button comes to show
   how the bridge is (refreshStatus), the lists come to be those of one daemon
   (refreshLists), a window or a browser opens, and an embedded daemon ends
   with its window (gui_ui_launch_worker). *)
ClientsCatchUp ==
    /\ <>[](/\ part = "log" => Log!UpToDate
            /\ part = "bridge" => Bridge!ShownAsIs /\ Bridge!FreeAgain
            /\ part = "switch" => Switch!OfOneDaemon
            /\ part = "gui" => \A g \in {p1, p2} : Gui!Opened(g))
    /\ part = "gui" /\ Gui!Asking(p1) ~> part = "gui" /\ Gui!Ended(p1)
=============================================================================
