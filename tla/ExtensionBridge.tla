-------------------------- MODULE ExtensionBridge --------------------------
(* The bridge between the browser extensions and the daemon                *)
(* (extensions/daemon/src) and the part of the Qt client that starts it,    *)
(* sends it the settings and shows how it is (ExtensionBridgeClient.cpp,    *)
(* ExtensionIntegrationButton.cpp).                                         *)
(*                                                                          *)
(* The bridge serves one connection at a time, waiting for the daemon where *)
(* it has to.  What the client posts goes over several connections at once, *)
(* so that posts may overtake each other; each carries the settings of the  *)
(* moment it was sent.  The bridge reads a request by one recv, which may   *)
(* get no more than the beginning of it.                                    *)
EXTENDS Integers

CONSTANTS
    Requests,    \* messages of extensions
    Nobody,      \* no request is being served
    MaxChanges,  \* changes of the settings
    MaxFaults    \* deaths, refusals, cuts and requests read in part

(* What an instance has to give these constants. *)
BridgeAssumption == Nobody \notin Requests /\ {MaxChanges, MaxFaults} \subseteq Nat

VARIABLES
    bridge,   \* its process, settings.enabled, extension_seen, whom it serves
    gui,      \* the settings, QProcess, what the button shows
    posts,    \* what syncSettings has sent and is on the way, in copies
    sent,     \* how many have been sent
    last,     \* history: the post the bridge took last, 0 for none
    requests, \* of extensions: where they are, what they heard, executions
    checks,   \* refreshStatus on the way
    changes, faults

vars == <<bridge, gui, posts, sent, last, requests, checks, changes, faults>>

Checks == {1, 2}
Kinds == {"ping", "status", "forwarded", "unknown"}   \* of messages
Off == [process |-> "off", enabled |-> TRUE, seen |-> FALSE, serves |-> Nobody]
Up == bridge.process = "up"
Free == Up /\ bridge.serves = Nobody
Effective(g) == g.enabled /\ ~g.suspended
Fault == faults < MaxFaults /\ faults' = faults + 1
Either(fault) == IF fault THEN Fault ELSE UNCHANGED faults

Init == /\ bridge = Off
        /\ gui \in [enabled : BOOLEAN, suspended : BOOLEAN, awaits : {FALSE}, starts : {0},
                    reachable : {FALSE}, connected : {FALSE}]
        /\ posts = {} /\ sent = 0 /\ last = 0
        /\ requests = [r \in Requests |-> [at |-> "new", heard |-> "nothing", executed |-> 0]]
        /\ checks = [i \in Checks |-> [at |-> "none", seen |-> FALSE]]
        /\ changes = 0 /\ faults = 0

---------------------------------------------------------------------------
(* The client.  A change of a setting reaches syncSettings by the signal, by
   the button's slot, and by the handler of the click. *)
Synced(g, n) ==
    IF n = 0 THEN UNCHANGED <<posts, sent>>
    ELSE /\ posts' = posts \cup {[n |-> sent + 1, enabled |-> Effective(g), copies |-> n]}
         /\ sent' = sent + 1
Without(p) == IF p.copies = 1 THEN posts \ {p}
              ELSE (posts \ {p}) \cup {[p EXCEPT !.copies = @ - 1]}

(* ensureBridgeProcess, after n other posts of settings g. *)
Ensured(g, n) ==
    IF bridge.process # "off"
    THEN gui' = g /\ Synced(g, n + 1) /\ UNCHANGED bridge
    ELSE /\ gui' = [g EXCEPT !.awaits = TRUE, !.starts = @ + 1]
         /\ bridge' = [Off EXCEPT !.process = "starting"]
         /\ Synced(g, n)

(* The application, or its toolbar, is built. *)
Begin == /\ gui.starts = 0 \/ changes < MaxChanges
         /\ changes' = IF gui.starts = 0 THEN changes ELSE changes + 1
         /\ Ensured(gui, 0)
         /\ UNCHANGED <<last, requests, checks, faults>>

(* QProcess::started: every start has connected a slot of its own. *)
Started == /\ gui.awaits
           /\ gui' = [gui EXCEPT !.awaits = FALSE]
           /\ Synced(gui, gui.starts)
           /\ UNCHANGED <<bridge, last, requests, checks, changes, faults>>

(* Mutant: the slot of the settings is gone, and suspending has no other. *)
PostsOfSuspending(place) == IF place = "button" THEN 1 ELSE 0

Posts(place) == IF place = "button" THEN 2 ELSE 1

(* Another setting: preferencesChanged says nothing of which one. *)
Other == gui' = gui /\ Synced(gui, 1) /\ UNCHANGED bridge
Toggle == LET g == [gui EXCEPT !.enabled = ~@]
          IN gui' = g /\ Synced(g, 3) /\ UNCHANGED bridge
Suspend(place) ==
    /\ ~gui.suspended
    /\ LET g == [gui EXCEPT !.suspended = TRUE]
       IN gui' = g /\ Synced(g, Posts(place)) /\ UNCHANGED bridge
Resume(place) ==
    /\ gui.suspended
    /\ LET g == [gui EXCEPT !.suspended = FALSE]
       IN IF place = "button" THEN gui' = g /\ Synced(g, Posts(place)) /\ UNCHANGED bridge
          ELSE Ensured(g, Posts(place))

Change == /\ changes < MaxChanges /\ changes' = changes + 1
          /\ \/ Other
             \/ Toggle
             \/ \E place \in {"button", "page"} : Suspend(place) \/ Resume(place)
          /\ UNCHANGED <<last, requests, checks, faults>>

---------------------------------------------------------------------------
(* The bridge: main and avar_http_server_run. *)
Listens == /\ bridge.process = "starting"
           /\ bridge' = [bridge EXCEPT !.process = "up"]
           /\ UNCHANGED <<gui, posts, sent, last, requests, checks, changes, faults>>

Hears(r, what) == [requests EXCEPT ![r].at = "answered",
                                   ![r].heard = IF @ = "nothing" THEN what ELSE @]

(* The connections that wait, and the one it serves, are reset; what the
   daemon still does of that one nobody learns. *)
Dies == /\ bridge.process # "off"
        /\ Fault
        /\ bridge' = Off /\ last' = 0
        /\ requests' = [r \in Requests |->
                           IF requests[r].at \in {"new", "answered"} THEN requests[r]
                           ELSE Hears(r, "unreachable")[r]]
        /\ UNCHANGED <<gui, posts, sent, checks, changes>>

(* POST /extension/settings: a body that is not there changes nothing. *)
Settings(p) ==
    /\ Free
    /\ \E part \in BOOLEAN :
          /\ Either(part)
          /\ IF part THEN UNCHANGED <<bridge, last>>
             ELSE bridge' = [bridge EXCEPT !.enabled = p.enabled] /\ last' = p.n
    /\ posts' = Without(p)
    /\ UNCHANGED <<gui, sent, requests, checks, changes>>
Refused(p) == /\ ~Up
              /\ posts' = Without(p)
              /\ UNCHANGED <<bridge, gui, sent, last, requests, checks, changes, faults>>

(* An extension posts a message. *)
Ask(r) == /\ requests[r].at = "new"
          /\ requests' = IF Up THEN [requests EXCEPT ![r].at = "sent"] ELSE Hears(r, "unreachable")
          /\ UNCHANGED <<bridge, gui, posts, sent, last, checks, changes, faults>>

(* fetchBridge gives up after two seconds; the connection stays with the
   bridge. *)
GiveUp(r) == /\ requests[r].at \notin {"new", "answered"} /\ requests[r].heard = "nothing"
             /\ requests' = [requests EXCEPT ![r].heard = "unreachable"]
             /\ UNCHANGED <<bridge, gui, posts, sent, last, checks, changes, faults>>

(* POST /v1: 503 while disabled, 400 for what is no envelope, 502 where the
   daemon is not reached, 501 for what the bridge does not know, among it the
   dialogs the extensions ask for. *)
Rejected(kind, bad) == ~bridge.enabled \/ bad \/ kind = "unknown"
Message(r) ==
    /\ Free /\ requests[r].at = "sent"
    /\ \E kind \in Kinds, bad \in BOOLEAN :   \* read in part, or the daemon is not reached
          /\ Either(bad)
          /\ IF Rejected(kind, bad)
             THEN requests' = Hears(r, "error") /\ UNCHANGED bridge
             ELSE IF kind = "forwarded"
                  THEN /\ requests' = [requests EXCEPT ![r].at = "forwarded"]
                       /\ bridge' = [bridge EXCEPT !.serves = r]
                  ELSE /\ requests' = Hears(r, "ok")
                       /\ bridge' = [bridge EXCEPT !.seen = @ \/ kind = "ping"]
    /\ UNCHANGED <<gui, posts, sent, last, checks, changes>>

(* The daemon executes what it is sent, or refuses it, and ends the
   connection; it may end it without an answer, after either. *)
Daemon(r) ==
    /\ requests[r].at = "forwarded"
    /\ \E does \in BOOLEAN, cut \in BOOLEAN :
          /\ Either(cut)
          /\ requests' = [requests EXCEPT ![r].at = IF cut THEN "cut" ELSE "said",
                                          ![r].executed = IF does THEN @ + 1 ELSE @]
    /\ UNCHANGED <<bridge, gui, posts, sent, last, checks, changes>>

(* Mutant: a connection that ends without an answer is an error. *)
AnswerOrError(at) == IF at = "said" THEN "ok" ELSE "error"

(* avar_daemon_rpc_call says 0 for whatever came before the end. *)
AnswerOf(at) == "ok"

(* Mutant: recv is called again when it has returned 0. *)
EndsByAnswer(at) == at = "said"

Ends(at) == at \in {"said", "cut"}

Answer(r) == /\ Up /\ bridge.serves = r /\ Ends(requests[r].at)
             /\ requests' = Hears(r, AnswerOf(requests[r].at))
             /\ bridge' = [bridge EXCEPT !.serves = Nobody]
             /\ UNCHANGED <<gui, posts, sent, last, checks, changes, faults>>

---------------------------------------------------------------------------
(* The button asks for /extension/status and, if there is an answer, for
   /v1/ping, every five seconds, whether or not it still waits for earlier
   answers. *)
Shown(reachable, connected) ==
    gui' = [gui EXCEPT !.reachable = reachable, !.connected = connected]

(* Mutant: nobody is told of a bridge that does not answer. *)
UnheardOf == UNCHANGED gui

Unreachable == Shown(FALSE, FALSE)

Check(i) == /\ checks[i].at = "none"
            /\ checks' = [checks EXCEPT ![i].at = "status"]
            /\ UNCHANGED gui
Status(i) == /\ checks[i].at = "status"
             /\ \/ /\ Free /\ UNCHANGED gui
                   /\ checks' = [checks EXCEPT ![i] = [at |-> "ping", seen |-> bridge.seen]]
                \/ /\ ~Up /\ Unreachable
                   /\ checks' = [checks EXCEPT ![i].at = "none"]
Ping(i) == /\ checks[i].at = "ping" /\ (Free \/ ~Up)
           /\ Shown(TRUE, checks[i].seen)
           /\ checks' = [checks EXCEPT ![i] = [at |-> "none", seen |-> FALSE]]
Round(i) == /\ Check(i) \/ Status(i) \/ Ping(i)
            /\ UNCHANGED <<bridge, posts, sent, last, requests, changes, faults>>

Serve == Listens \/ \E r \in Requests : Daemon(r) \/ Answer(r)

Next == \/ Begin \/ Started \/ Change \/ Serve \/ Dies
        \/ \E p \in posts : Settings(p) \/ Refused(p)
        \/ \E r \in Requests : Ask(r) \/ GiveUp(r) \/ Message(r)
        \/ \E i \in Checks : Round(i)

---------------------------------------------------------------------------
TypeOK ==
    /\ bridge \in [process : {"off", "starting", "up"}, enabled : BOOLEAN, seen : BOOLEAN,
                   serves : Requests \cup {Nobody}]
    /\ gui \in [enabled : BOOLEAN, suspended : BOOLEAN, awaits : BOOLEAN, starts : Nat,
                reachable : BOOLEAN, connected : BOOLEAN]
    /\ posts \subseteq [n : 1..sent, enabled : BOOLEAN, copies : Nat \ {0}] /\ last \in 0..sent
    /\ requests \in [Requests ->
                       [at : {"new", "sent", "forwarded", "said", "cut", "answered"},
                        heard : {"nothing", "ok", "error", "unreachable"}, executed : {0, 1}]]
    /\ checks \in [Checks -> [at : {"none", "status", "ping"}, seen : BOOLEAN]]

(* Where the last post that was sent is also the last that was taken, the
   bridge is enabled exactly when the client wants it to be: no change of a
   setting goes by without a post (syncSettings).  A post that is lost,
   overtaken or read in part is not repaired by the code. *)
FollowsSettings == last > 0 /\ last = sent => bridge.enabled = Effective(gui)

(* What the bridge calls an error was not executed, and may be asked for
   again; "cannot reach" says nothing of the kind (handle_v1_message,
   avar_daemon_rpc_call). *)
ErrorsAreHarmless ==
    \A r \in Requests : requests[r].heard = "error" => requests[r].executed = 0

(* The inductive invariant: only a bridge that is up has taken a post, the post
   sent last carries the settings as they are, and what has not been answered
   is no error yet. *)
LastPost ==
    /\ bridge.process # "up" => last = 0
    /\ \A p \in posts : p.n = sent => p.enabled = Effective(gui)
Undone ==
    \A r \in Requests :
        /\ requests[r].at \in {"new", "sent", "forwarded"} => requests[r].executed = 0
        /\ requests[r].heard = "error" => requests[r].at = "answered"
IInv == TypeOK /\ sent \in Nat /\ LastPost /\ FollowsSettings /\ Undone /\ ErrorsAreHarmless

(* The bridge gets free again, however the daemon ends the connection it
   waits for (the recv loop of avar_daemon_rpc_call). *)
Served(r) == bridge.serves = r
FreeAgain == bridge.serves = Nobody

(* What the button shows comes to be what there is (refreshStatus,
   requestStatus). *)
ShownAsIs == gui.reachable = Up /\ gui.connected = (Up /\ bridge.seen)
============================================================================
