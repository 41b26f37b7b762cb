--------------------------- MODULE SessionSwitch ---------------------------
(* The sessions of the Qt client (SessionManager.cpp), the daemon its calls  *)
(* go to (Application.cpp, SyncCoordinator.cpp) and the lists it shows.      *)
(*                                                                           *)
(* A refresh asks for the downloads, and for the queues when those have come *)
(* or failed; each question goes to the daemon of the moment it is asked.    *)
(* Answers that are on the way when the session changes are still shown.     *)
EXTENDS Integers, Sequences

CONSTANTS
    Local,       \* the address of the session that is made when there is none
    Addresses,   \* addresses and tokens of daemons
    Names,       \* ids of sessions
    Nothing,     \* shown before the first answer, and after one that failed
    MaxCalls,    \* refreshes on the way at once
    MaxChanges   \* changes of sessions and settings

(* What an instance has to give these constants. *)
SessionAssumption ==
    /\ Local \in Addresses /\ Nothing \notin Addresses
    /\ MaxCalls \in Nat \ {0} /\ MaxChanges \in Nat

VARIABLES
    sessions,  \* SessionManager: sequence of [id, address]
    active,    \* m_activeId
    stored,    \* both, as QSettings has them
    options,   \* DaemonClient::Options
    calls,     \* refreshes on the way: what they wait for, whom they asked
    shown,     \* whose downloads and whose queues are shown
    changes,
    aside      \* history: the client or its session was changed beside each other

vars == <<sessions, active, stored, options, calls, shown, changes, aside>>

First(id) == [id |-> id, address |-> Local]
Init == \E id \in Names :
           /\ sessions = <<First(id)>> /\ active = id
           /\ stored = [sessions |-> sessions, active |-> active]
           /\ options = Local
           /\ calls = {}
           /\ shown = [downloads |-> Nothing, queues |-> Nothing]
           /\ changes = 0 /\ aside = FALSE

Places(list, id) == {i \in DOMAIN list : list[i].id = id}
Found(list, id) == IF Places(list, id) = {} THEN 0
                   ELSE CHOOSE i \in Places(list, id) : \A k \in Places(list, id) : i <= k
(* activeSession: the first one where there is none of this id. *)
ActiveOf(list, id) == IF Found(list, id) = 0 THEN list[1] ELSE list[Found(list, id)]
Change == changes < MaxChanges /\ changes' = changes + 1
Save(list, id) == stored' = [sessions |-> list, active |-> id]

(* applySession: the client is stopped, set, and started again. *)
Apply(list, id) == options' = ActiveOf(list, id).address /\ aside' = FALSE

---------------------------------------------------------------------------
SetActive == /\ Change
             /\ \E i \in DOMAIN sessions :
                LET id == sessions[i].id
                IN /\ id # active
                   /\ active' = id
                   /\ Save(sessions, id) /\ Apply(sessions, id)
             /\ UNCHANGED <<sessions, calls, shown>>

(* upsertSession: the client is not told that its session has changed. *)
Upsert == /\ Change
          /\ \E id \in Names, a \in Addresses :
                LET s == [id |-> id, address |-> a]
                    n == Found(sessions, id)
                IN /\ sessions' = IF n = 0 THEN Append(sessions, s) ELSE [sessions EXCEPT ![n] = s]
                   /\ aside' = (aside \/ id = active)
          /\ Save(sessions', active)
          /\ UNCHANGED <<active, options, calls, shown>>

(* Mutant: the session that was the active one stays with the client. *)
AfterRemovalLazily(list, id) ==
    IF id = active THEN active' = list[1].id /\ UNCHANGED <<options, aside>>
    ELSE UNCHANGED <<active, options, aside>>

AfterRemoval(list, id) ==
    IF id = active THEN active' = list[1].id /\ Apply(list, list[1].id)
    ELSE UNCHANGED <<active, options, aside>>

(* removeSession, which keeps the last one; no other has the id of the one that
   goes (TypeOK). *)
RemoveOne == /\ Change /\ Len(sessions) > 1
             /\ \E i \in DOMAIN sessions :
                   LET rest == SubSeq(sessions, 1, i - 1) \o SubSeq(sessions, i + 1, Len(sessions))
                   IN /\ sessions' = rest
                      /\ AfterRemoval(rest, sessions[i].id)
                      /\ Save(rest, active')
             /\ UNCHANGED <<calls, shown>>

(* daemonConfigChanged, which is also emitted when the browser extension is
   switched on or off: the client goes back to the address of AppSettings. *)
ConfigChanged == /\ Change
                 /\ options' = Local
                 /\ aside' = TRUE
                 /\ UNCHANGED <<sessions, active, stored, calls, shown>>

(* The program is started again: load, and a session where there is none. *)
StartAgain ==
    /\ Change
    /\ LET list == IF stored.sessions = <<>> THEN <<First(stored.active)>> ELSE stored.sessions
       IN sessions' = list /\ active' = stored.active /\ Apply(list, stored.active)
    /\ calls' = {}
    /\ shown' = [downloads |-> Nothing, queues |-> Nothing]
    /\ UNCHANGED stored

---------------------------------------------------------------------------
(* Mutant: the connection to the daemon whose lists are shown is kept. *)
TargetKept == IF shown.downloads = Nothing THEN options ELSE shown.downloads

(* rpcUrl, DaemonClient::rpc *)
Target == options

(* refreshLists, by the timer. *)
Numbers == 1..MaxCalls
Poll == \E n \in Numbers :
           /\ \A c \in calls : c.n # n
           /\ calls' = calls \cup {[n |-> n, asks |-> "downloads", to |-> Target,
                                    downloads |-> Nothing]}
           /\ UNCHANGED <<sessions, active, stored, options, shown, changes, aside>>

Came(c, ok) == IF ok THEN c.to ELSE Nothing

(* The first answer, or its failure, and the second question. *)
Downloads(c) ==
    /\ c.asks = "downloads"
    /\ \E ok \in BOOLEAN :
          /\ ok \/ changes < MaxChanges
          /\ changes' = IF ok THEN changes ELSE changes + 1
          /\ calls' = (calls \ {c}) \cup {[c EXCEPT !.asks = "queues", !.to = Target,
                                                    !.downloads = Came(c, ok)]}
    /\ UNCHANGED <<sessions, active, stored, options, shown, aside>>

(* The second answer: snapshotReceived, with what has come. *)
Show(c) ==
    /\ c.asks = "queues"
    /\ \E ok \in BOOLEAN :
          /\ ok \/ changes < MaxChanges
          /\ changes' = IF ok THEN changes ELSE changes + 1
          /\ shown' = [downloads |-> c.downloads, queues |-> Came(c, ok)]
    /\ calls' = calls \ {c}
    /\ UNCHANGED <<sessions, active, stored, options, aside>>

Refresh == \E c \in calls : Downloads(c) \/ Show(c)

Next == \/ SetActive \/ Upsert \/ RemoveOne \/ ConfigChanged \/ StartAgain
        \/ Poll
        \/ Refresh
---------------------------------------------------------------------------
(* The types of the variables; an id is that of one session. *)
Session == [id : Names, address : Addresses]
OneEach(list) == \A i, k \in DOMAIN list : list[i].id = list[k].id => i = k
TypeOK == /\ sessions \in Seq(Session) /\ OneEach(sessions)
          /\ sessions # <<>> /\ active \in Names
          /\ options \in Addresses
          /\ calls \subseteq [n : Numbers, asks : {"downloads", "queues"}, to : Addresses,
                             downloads : Addresses \cup {Nothing}]
          /\ shown \in [downloads : Addresses \cup {Nothing}, queues : Addresses \cup {Nothing}]

(* The client talks to the active session, unless that has been edited, or
   a setting of the client changed, since the session was chosen
   (applySession, removeSession). *)
ClientFollows == ~aside => options = ActiveOf(sessions, active).address

(* The inductive invariant: what is stored is what there is, and the session
   that is active among it. *)
IInv == /\ TypeOK
        /\ stored = [sessions |-> sessions, active |-> active]
        /\ \E i \in DOMAIN sessions : sessions[i].id = active
        /\ ClientFollows

(* The lists come to be those of the daemon the client talks to, both of
   them: what was on the way when the session changed, and what was put
   together from two daemons, does not stay (refreshLists). *)
OfOneDaemon == shown.downloads = options /\ shown.queues = options
============================================================================
