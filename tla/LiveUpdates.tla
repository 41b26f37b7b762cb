---------------------------- MODULE LiveUpdates ----------------------------
(* The stream of updates to graphical clients: the daemon's side, which     *)
(* sends snapshots and, when nothing has changed, says so (daemon_rpc.c),   *)
(* and the Qt client's, which falls back to polling while it has no stream  *)
(* (gui-qt/src/sync).                                                       *)
(*                                                                          *)
(* The content (queues, entries and the progress of active jobs) is a       *)
(* version number, which is its fingerprint too: no collisions.  It is      *)
(* changed by threads that run beside the one that sends.                   *)
EXTENDS Integers, Sequences, FiniteSets

CONSTANTS
    Viewers,       \* clients
    MaxContent,    \* changes of the content
    MaxFaults,     \* connections lost and calls failed
    Resync         \* ticks after which a snapshot is sent anyway (60 s)

(* What an instance has to give these constants. *)
LiveAssumption == MaxContent \in Nat /\ MaxFaults \in Nat /\ Resync \in Nat \ {0}

VARIABLES
    content,    \* the version of the content
    cached,     \* _stream_cached_fingerprint
    age,        \* ticks since _stream_last_full_send, or Resync before the first
    sender,     \* what the sending thread is doing, and what it has read
    attached,   \* _stream_clients
    sent,       \* viewer -> the newest version its stream was sent
    stream,     \* viewer -> messages on their way
    link,       \* viewer -> its stream: down, asked for, or up
    polling,    \* viewer -> the poll timer runs
    call,       \* viewer -> its call for the lists: none, asked, or the answer
    view,       \* viewer -> the version it shows
    faults      \* faults so far

lvars == <<content, cached, age, sender, attached, sent, stream, link, polling, call, view,
           faults>>

feed == <<cached, age, sender, attached, sent>>
gui == <<link, polling, call, view>>

(* Versions start at 1; 0 is an empty list, or nothing. *)
Versions == 1..MaxContent + 1
Unchanged == [kind |-> "unchanged", version |-> 0]
Snapshot(n) == [kind |-> "snapshot", version |-> n]
Idle == [at |-> "idle", fp |-> 0, viewer |-> {}]

Init == /\ content = 1
        /\ cached = 0
        /\ age = Resync
        /\ sender = Idle
        /\ attached = {}
        /\ sent = [v \in Viewers |-> 0]
        /\ stream = [v \in Viewers |-> <<>>]
        /\ link = [v \in Viewers |-> "down"]
        /\ polling = [v \in Viewers |-> TRUE]
        /\ call = [v \in Viewers |-> 0 - 1]
        /\ view = [v \in Viewers |-> 0]
        /\ faults = 0

Change == /\ content <= MaxContent
          /\ content' = content + 1
          /\ UNCHANGED <<feed, stream, gui, faults>>

---------------------------------------------------------------------------
(* The daemon. *)

(* stream_client_register and daemon_rpc_stream_send: a snapshot for the new
   client; the fingerprint is taken of what is there after it was built. *)
Attach(v) ==
    /\ sender = Idle
    /\ link[v] = "asked"
    /\ attached' = attached \cup {v}
    /\ stream' = [stream EXCEPT ![v] = Append(@, Snapshot(content))]
    /\ sent' = [sent EXCEPT ![v] = content]
    /\ link' = [link EXCEPT ![v] = "up"]
    /\ sender' = [at |-> "note", fp |-> 0, viewer |-> {v}]
    /\ UNCHANGED <<content, cached, age, polling, call, view, faults>>

(* stream_note_full_snapshot_sent. *)
NoteFull == /\ sender.at = "note"
            /\ cached' = content
            /\ age' = 0
            /\ sender' = Idle
            /\ UNCHANGED <<content, attached, sent, stream, gui, faults>>

(* Mutant: no resync. *)
DueNever == FALSE

Due == age = Resync

(* daemon_rpc_streams_tick, at most once a second and only for clients: the
   fingerprint first; unchanged, and no resync due, everybody is told so. *)
Tick == /\ sender = Idle
        /\ attached # {}
        /\ IF ~Due /\ content = cached
           THEN /\ stream' = [v \in Viewers |-> IF v \in attached THEN Append(stream[v], Unchanged)
                                                                 ELSE stream[v]]
                /\ age' = IF age = Resync THEN age ELSE age + 1
                /\ UNCHANGED sender
           ELSE /\ sender' = [at |-> "build", fp |-> content, viewer |-> attached]
                /\ UNCHANGED <<stream, age>>
        /\ \A v \in attached : Len(stream[v]) < 2
        /\ UNCHANGED <<content, cached, attached, sent, gui, faults>>

Send(n, fp) ==
    /\ sender.at = "build"
    /\ stream' = [v \in Viewers |-> IF v \in attached THEN Append(stream[v], Snapshot(n))
                                                     ELSE stream[v]]
    /\ sent' = [v \in Viewers |-> IF v \in attached THEN n ELSE sent[v]]
    /\ cached' = fp
    /\ age' = 0
    /\ sender' = Idle
    /\ UNCHANGED <<content, attached, gui, faults>>

(* Mutant: the fingerprint is taken after the snapshot was built. *)
BroadcastNoteAfter == Send(sender.fp, content)

(* The snapshot, and the fingerprint taken before it was built. *)
Broadcast == Send(content, sender.fp)

---------------------------------------------------------------------------
(* The client. *)

(* EventsSseClient::openStream, at the start and two seconds after a loss. *)
OpenStream(v) == /\ link[v] = "down"
                 /\ link' = [link EXCEPT ![v] = "asked"]
                 /\ UNCHANGED <<content, feed, stream, polling, call, view, faults>>

(* A message of the stream: the connection counts as open and the poll timer
   stops; a snapshot is shown, "unchanged" changes nothing. *)
Deliver(v) ==
    /\ stream[v] # <<>>
    /\ LET m == Head(stream[v])
       IN view' = IF m.kind = "snapshot" THEN [view EXCEPT ![v] = m.version] ELSE view
    /\ stream' = [stream EXCEPT ![v] = Tail(@)]
    /\ polling' = [polling EXCEPT ![v] = FALSE]
    /\ UNCHANGED <<content, feed, link, call, faults>>

(* The connection is lost: what was on its way goes with it, the daemon
   forgets the client, and the client polls. *)
Lose(v) ==
    /\ link[v] # "down"
    /\ faults < MaxFaults
    /\ faults' = faults + 1
    /\ link' = [link EXCEPT ![v] = "down"]
    /\ stream' = [stream EXCEPT ![v] = <<>>]
    /\ attached' = attached \ {v}
    /\ polling' = [polling EXCEPT ![v] = TRUE]
    /\ UNCHANGED <<content, cached, age, sender, sent, call, view>>

(* SyncCoordinator::refreshLists, while the timer runs: asked, answered by
   the daemon, and shown whenever the answer arrives; a call that fails shows
   an empty list. *)
Asked == MaxContent + 2
Poll(v) == /\ polling[v] /\ call[v] = 0 - 1
           /\ call' = [call EXCEPT ![v] = Asked]
           /\ UNCHANGED <<content, feed, stream, link, polling, view, faults>>

AnswerPoll(v) == /\ call[v] = Asked
                 /\ \/ call' = [call EXCEPT ![v] = content] /\ UNCHANGED faults
                    \/ /\ faults < MaxFaults /\ faults' = faults + 1
                       /\ call' = [call EXCEPT ![v] = 0]
                 /\ UNCHANGED <<content, feed, stream, link, polling, view>>

ShowPoll(v) == /\ call[v] \in 0..MaxContent + 1
               /\ view' = [view EXCEPT ![v] = call[v]]
               /\ call' = [call EXCEPT ![v] = 0 - 1]
               /\ UNCHANGED <<content, feed, stream, link, polling, faults>>

---------------------------------------------------------------------------
Sender == NoteFull \/ Tick \/ Broadcast
Receiver(v) == OpenStream(v) \/ Deliver(v)
Poller(v) == AnswerPoll(v) \/ ShowPoll(v)

Next == \/ Change \/ Sender
        \/ \E v \in Viewers : Attach(v) \/ Receiver(v) \/ Poll(v) \/ Poller(v) \/ Lose(v)

(* The loop of the daemon ticks and answers, and events are delivered. *)
LiveFairness == /\ WF_lvars(Sender)
                /\ \A v \in Viewers : /\ SF_lvars(Attach(v))
                                      /\ WF_lvars(Receiver(v)) /\ WF_lvars(Poller(v))

Spec == Init /\ [][Next]_lvars /\ LiveFairness

---------------------------------------------------------------------------
(* The types of the variables of the feed and of its clients. *)
TypeOK ==
    /\ content \in Versions /\ cached \in 0..MaxContent + 1 /\ age \in 0..Resync
    /\ sender.at \in {"idle", "note", "build"} /\ sender.fp \in 0..MaxContent + 1
    /\ attached \subseteq Viewers
    /\ link \in [Viewers -> {"down", "asked", "up"}]
    /\ sent \in [Viewers -> 0..MaxContent + 1] /\ view \in [Viewers -> 0..MaxContent + 1]
    /\ polling \in [Viewers -> BOOLEAN]
    /\ call \in [Viewers -> -1..Asked]

(* When the content and the connections stay as they are, every client comes
   to show the content for good, although a snapshot built before a change
   may be noted as the changed one, an attach hides a change from the other
   clients, and the answer of a poll may arrive after a newer snapshot: the
   resync repairs each (daemon_rpc.c:1692-1694). *)
Shown == \A v \in Viewers : view[v] = content
ViewsConverge == <>[]Shown

(* A snapshot that is broadcast is never older than the fingerprint noted for
   it, so that a change during the broadcast is sent at the next tick
   (daemon_rpc.c:1695-1710). *)
BroadcastIsNoted ==
    [][sender.at = "build" /\ sender'.at = "idle" =>
          \A v \in attached \cap attached' : sent'[v] >= cached']_lvars
=============================================================================
