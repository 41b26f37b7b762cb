------------------------------ MODULE LiveLog ------------------------------
(* The log of a daemon as a client shows it: the ring of the last lines      *)
(* (daemon_rpc.c), and the console of the Qt client, whose polls and clears  *)
(* ask for the lines after an offset and may overlap (ConsoleDock.cpp,       *)
(* ConsoleStore.cpp).  A line is the number it gets; a daemon that is        *)
(* started again numbers from 0.  The ring is written without the lock of    *)
(* the methods that read it: a reader in the middle of a line is left out.   *)
EXTENDS Integers, Sequences, FiniteSets

CONSTANTS Cap,         \* AVAR_DAEMON_LOG_RING_CAP
          Batch,       \* the lines a client asks for at most
          MaxEntries,  \* what the console keeps
          MaxLines,    \* bound: lines of one daemon
          MaxCalls,    \* bound: calls at a time
          MaxUpsets    \* bound: restarts, failed calls, clears, closings

(* What an instance has to give these constants. *)
LiveLogAssumption ==
    /\ {Cap, Batch, MaxEntries, MaxCalls} \subseteq Nat \ {0}
    /\ {MaxLines, MaxUpsets} \subseteq Nat

VARIABLES ring,       \* _log_ring
          life,       \* which daemon this is
          calls,      \* the calls under way
          console,    \* ConsoleStore: entries, offset, epoch; whether it is open
          upsets,
          overlapped  \* history: a call was made while another was under way

vars == <<ring, life, calls, console, upsets, overlapped>>

Empty == [seq |-> [s \in 0..Cap - 1 |-> 0], head |-> 0, count |-> 0, next |-> 0]

Init == /\ ring = Empty
        /\ life = 0
        /\ calls = {}
        /\ console = [entries |-> <<>>, offset |-> 0, epoch |-> 0, open |-> TRUE]
        /\ upsets = 0
        /\ overlapped = FALSE

Upset == upsets < MaxUpsets /\ upsets' = upsets + 1

---------------------------------------------------------------------------
(* daemon_rpc_log_append *)
Append1(r) == [seq |-> [r.seq EXCEPT ![r.head] = r.next],
               head |-> (r.head + 1) % Cap,
               count |-> IF r.count < Cap THEN r.count + 1 ELSE Cap,
               next |-> r.next + 1]
Log == /\ ring.next < MaxLines
       /\ ring' = Append1(ring)
       /\ UNCHANGED <<life, calls, console, upsets, overlapped>>

(* daemon_rpc_init, after the daemon has gone with the calls it had. *)
Restart == /\ Upset
           /\ ring' = Empty
           /\ life' = life + 1
           /\ calls' = {}
           /\ UNCHANGED <<console, overlapped>>

Lines(r) == [i \in 1..r.count |-> r.seq[(r.head + Cap - r.count + i - 1) % Cap]]

(* Mutant: a line is given once more. *)
LaterAgain(line, since) == line >= since

Later(line, since) == line > since

(* daemon_rpc_logs_fetch: the oldest lines after an offset. *)
Given(r, since) ==
    LET Fetch[i \in 0..r.count] ==
            IF i = 0 THEN <<>>
            ELSE IF Later(Lines(r)[i], since) /\ Len(Fetch[i - 1]) < Batch
                 THEN Append(Fetch[i - 1], Lines(r)[i])
                 ELSE Fetch[i - 1]
    IN Fetch[r.count]

(* Mutant: what a batch leaves out is behind the next offset. *)
NextOffsetOfAll(r, since) == IF Given(r, since) = <<>> THEN since ELSE r.next - 1

NextOffset(r, since) ==
    IF Given(r, since) = <<>> THEN since ELSE Given(r, since)[Len(Given(r, since))]

---------------------------------------------------------------------------
(* The client.  A call is its offset and epoch, and the answer once it is on
   its way. *)
Ask(kind, since) ==
    [kind |-> kind, since |-> since, epoch |-> console'.epoch, answered |-> FALSE,
     lines |-> <<>>, next |-> 0]
Call(kind, since) ==
    /\ Cardinality(calls) < MaxCalls
    /\ calls' = calls \cup {Ask(kind, since)}
    /\ overlapped' = (overlapped \/ calls # {})

(* pollDaemonLogs, from its timer *)
Poll == /\ console.open
        /\ UNCHANGED <<ring, life, console, upsets>>
        /\ Call("poll", console.offset)

(* handle_logs_get *)
Serve == \E c \in calls :
            /\ ~c.answered
            /\ calls' = (calls \ {c}) \cup
                  {[c EXCEPT !.answered = TRUE, !.lines = Given(ring, c.since),
                             !.next = IF NextOffset(ring, c.since) > 0
                                      THEN NextOffset(ring, c.since) ELSE c.since]}
            /\ UNCHANGED <<ring, life, console, upsets, overlapped>>

(* Mutant: an answer is shown without looking at what it was asked for. *)
TakenAnyway(c) == c.lines # <<>>

(* appendDaemonLines *)
Taken(c) == c.lines # <<>> /\ c.epoch = console.epoch

(* Mutant: the offset stays until the console is cleared. *)
MovedNever(c) == FALSE

Moved(c) == c.next > c.since

Trimmed(s) == IF Len(s) <= MaxEntries THEN s ELSE SubSeq(s, Len(s) - MaxEntries + 1, Len(s))
Entries(c) == [i \in 1..Len(c.lines) |-> [life |-> life, line |-> c.lines[i], epoch |-> c.epoch]]

Show == \E c \in calls :
           /\ c.kind = "poll" /\ c.answered
           /\ calls' = calls \ {c}
           /\ console' = [console EXCEPT
                            !.entries = IF Taken(c) THEN Trimmed(@ \o Entries(c)) ELSE @,
                            !.offset = IF Moved(c) THEN c.next ELSE @]
           /\ UNCHANGED <<ring, life, upsets, overlapped>>

(* handleClear, and skipLogCursor from there to the end of the log *)
Clear == /\ Upset
         /\ console' = [console EXCEPT !.entries = <<>>, !.epoch = @ + 1]
         /\ Call("skip", console.offset)
         /\ UNCHANGED <<ring, life>>
Skip == \E c \in calls :
           /\ c.kind = "skip" /\ c.answered
           /\ \/ /\ c.next > c.since /\ c.lines # <<>>
                 /\ calls' = (calls \ {c}) \cup
                       {[c EXCEPT !.answered = FALSE, !.since = c.next, !.lines = <<>>, !.next = 0]}
                 /\ UNCHANGED console
              \/ /\ ~(c.next > c.since /\ c.lines # <<>>)
                 /\ calls' = calls \ {c}
                 /\ console' = [console EXCEPT !.offset = c.next]
           /\ UNCHANGED <<ring, life, upsets, overlapped>>

(* A call fails. *)
Fail == /\ Upset
        /\ \E c \in calls : calls' = calls \ {c}
        /\ UNCHANGED <<ring, life, console, overlapped>>

(* setOpen; a console that is closed does not poll. *)
Toggle == /\ console.open => Upset
          /\ ~console.open => UNCHANGED upsets
          /\ console' = [console EXCEPT !.open = ~@]
          /\ UNCHANGED <<ring, life, calls, overlapped>>

Next == Log \/ Restart \/ Poll \/ Serve \/ Show \/ Clear \/ Skip \/ Fail \/ Toggle

Fairness == WF_vars(Poll) /\ WF_vars(Serve) /\ WF_vars(Show \/ Skip) /\ WF_vars(Toggle)
Spec == Init /\ [][Next]_vars /\ Fairness

---------------------------------------------------------------------------
(* The types of the variables; the ring holds its last lines in order. *)
InOrder(r) == \A i \in 1..r.count : Lines(r)[i] = r.next - r.count + i - 1
TypeOK == /\ ring.head \in 0..Cap - 1 /\ ring.count \in 0..Cap
          /\ InOrder(ring)
          /\ Cardinality(calls) <= MaxCalls
          /\ Len(console.entries) <= MaxEntries /\ console.offset \in 0..MaxLines
          /\ {life, upsets} \subseteq 0..MaxUpsets /\ overlapped \in BOOLEAN

(* The console shows the lines of a daemon in their order and none twice, if
   its calls do not overlap (pollDaemonLogs, setDaemonLogOffset). *)
ShownInOrder ==
    ~overlapped => \A i, k \in DOMAIN console.entries :
        i < k /\ console.entries[i].life = console.entries[k].life =>
            console.entries[i].line < console.entries[k].line

(* What it leaves out between two lines had left the ring
   (daemon_rpc_logs_fetch). *)
NothingSkipped ==
    ~overlapped => \A i \in 1..Len(console.entries) - 1 :
        LET a == console.entries[i]
            b == console.entries[i + 1]
        IN a.life = life /\ b.life = life =>
              \A n \in a.line + 1..b.line - 1 : n < ring.next - ring.count

(* What was shown before a clear does not come back with the answer to an
   older call (appendDaemonLines). *)
ClearedStaysCleared == \A i \in DOMAIN console.entries : console.entries[i].epoch = console.epoch

(* The inductive invariant: a call has an offset from which it goes on without a
   gap, unless the ring has lost the lines; and while calls do not overlap, a
   poll goes on from the last line that is shown, and nothing is shown while the
   cursor is moved to the end of the log. *)
First(r) == r.next - r.count
Ring == [seq : [0..Cap - 1 -> Nat], head : 0..Cap - 1, count : 0..Cap, next : 0..MaxLines]
Entry == [life : Nat, line : Nat, epoch : Nat]
Asked == [kind : {"poll", "skip"}, since : 0..MaxLines, epoch : Nat,
          answered : BOOLEAN, lines : Seq(Nat), next : 0..MaxLines]
Answers(c) ==
    c.answered =>
        /\ \A i \in DOMAIN c.lines : c.lines[i] = c.lines[1] + i - 1
        /\ IF c.lines = <<>> THEN c.next = c.since
           ELSE /\ c.lines[1] > c.since /\ (c.lines[1] = c.since + 1 \/ c.lines[1] <= First(ring))
                /\ c.next = c.lines[Len(c.lines)] /\ c.next < ring.next
OneAtATime ==
    /\ \A c, d \in calls : c = d
    /\ \A c \in calls : IF c.kind = "poll" THEN c.since = console.offset /\ c.epoch = console.epoch
                         ELSE console.entries = <<>>
InLives ==
    /\ \A i, k \in DOMAIN console.entries :
          i < k => console.entries[i].life <= console.entries[k].life
    /\ \A i \in DOMAIN console.entries :
          i = Len(console.entries) /\ console.entries[i].life = life =>
              console.entries[i].line = console.offset
IInv ==
    /\ TypeOK
    /\ ring \in Ring /\ ring.count <= ring.next
    /\ life \in Nat /\ life <= upsets
    /\ calls \subseteq Asked /\ IsFiniteSet(calls)
    /\ console \in [entries : Seq(Entry), offset : 0..MaxLines, epoch : Nat, open : BOOLEAN]
    /\ \A i \in DOMAIN console.entries : console.entries[i].life <= life
    /\ \A c \in calls : Answers(c)
    /\ ~overlapped => OneAtATime /\ InLives
    /\ ShownInOrder /\ NothingSkipped /\ ClearedStaysCleared

UpToDate == life = 0 /\ ring.next > 1 => console.offset = ring.next - 1

(* The console comes to the last line, unless the daemon is another by now: its
   lines have smaller numbers than the offset (pollDaemonLogs). *)
CatchesUp == <>[]UpToDate
=============================================================================
