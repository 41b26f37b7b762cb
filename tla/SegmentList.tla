---------------------------- MODULE SegmentList ----------------------------
(* Downloads that are a list of pieces: an HLS playlist, whose pieces may be *)
(* encrypted, or a list a page gave (stream_hls_download,                    *)
(* stream_hls_download_segments, run_hls_download, run_ts_sequence_download).*)
(* A job fetches the list and its pieces one after the other, on one thread  *)
(* and with an event loop of its own.  It is not among the active jobs: a    *)
(* pause only changes the status, and who resumes starts a second job on the *)
(* same files.  Lines are records and a piece is its number; addresses,      *)
(* attributes and the cipher are left out: a piece is right when the key and *)
(* the vector are those of the standard.  How a finished file gets its name  *)
(* is FinishedFiles; here it is a step.                                      *)
EXTENDS Integers, Sequences, FiniteSets, FiniteSetsExt

CONSTANTS Text,      \* the lines at each address of a playlist
          Root,      \* the address of the download
          Given,     \* pieces of a list that a page gave
          MaxFaults  \* bound: answers cut, refused or never given

Jobs == {1, 2}
None == "none"
Wrong == 0      \* what no piece is: bytes short, badly deciphered or never written
NoVector == -1  \* of a key line that gives none

(* A line of a playlist, as far as it says something, and the attributes of a
   line with a key. *)
Attributes == STRING \cup {None}
Line == [is : {"sequence"}, n : Nat]
        \cup [is : {"key"}, method : Attributes, key : Attributes, iv : Nat \cup {NoVector}]
        \cup [is : {"piece"}, n : Nat \ {Wrong}]
        \cup [is : {"variant"}, bandwidth : Nat, address : DOMAIN Text]

(* What an instance has to give these constants; no playlist has the same
   piece twice, which would be taken for one. *)
SegmentListAssumption ==
    /\ Root \in DOMAIN Text /\ None \notin DOMAIN Text
    /\ \A address \in DOMAIN Text :
          LET lines == Text[address]
          IN /\ lines \in Seq(Line)
             /\ \A i, k \in DOMAIN lines :
                   lines[i].is = "piece" /\ lines[k] = lines[i] => k = i
    /\ Given \in Seq(Nat) \ {<<>>}
    /\ MaxFaults \in Nat

VARIABLES kind,        \* "hls" or "ts-sequence"
          job,
          status,      \* of the entry in the list
          temp, dests, \* the file under the temporary name, those under finished names
          data,        \* the pieces in each file
          cut,         \* a broken connection was taken for the end of an answer
          overlapped,  \* a job started while another ran
          faults

vars == <<kind, job, status, temp, dests, data, cut, overlapped, faults>>

Idle == [at |-> "idle", media |-> None, list |-> <<>>, next |-> 1, file |-> 0,
         silent |-> FALSE, body |-> Wrong]
Init == /\ kind \in {"hls", "ts-sequence"}
        /\ job = [j \in Jobs |-> Idle]
        /\ status = "paused"
        /\ temp = 0 /\ dests = {}
        /\ data = [f \in Jobs |-> <<>>]
        /\ cut = FALSE /\ overlapped = FALSE
        /\ faults = 0

Fault == faults < MaxFaults /\ faults' = faults + 1

---------------------------------------------------------------------------
(* playlist_is_master *)
Variants(lines) == {i \in DOMAIN lines : lines[i].is = "variant"}
IsMaster(lines) == Variants(lines) # {}

(* pick_variant_url: the highest bandwidth, the later one among equals. *)
PickVariant(lines) ==
    LET highest == Max({lines[i].bandwidth : i \in Variants(lines)})
        best == Max({i \in Variants(lines) : lines[i].bandwidth = highest})
    IN lines[best].address

(* Mutant: the vector of a piece is its place in the list. *)
DerivedOfPlace(p) == Len(p.list)

(* The vector of a piece whose key line gives none. *)
Derived(p) == p.sequence + Len(p.list)

(* hls_parse_media_playlist *)
ParseLine(p, l) ==
    CASE l.is = "sequence" -> [p EXCEPT !.sequence = l.n]
      [] l.is = "key" -> [p EXCEPT !.method = l.method, !.key = l.key, !.iv = l.iv]
      [] l.is = "piece" ->
             [p EXCEPT !.list = Append(@,
                 [piece |-> l.n, encrypted |-> p.method = "AES-128", key |-> p.key,
                  iv |-> IF p.iv # NoVector THEN p.iv ELSE Derived(p)])]
      [] OTHER -> p

Parse(lines) ==
    LET parsed[n \in 0..Len(lines)] ==
            IF n = 0
            THEN [sequence |-> 0, method |-> None, key |-> None, iv |-> NoVector, list |-> <<>>]
            ELSE ParseLine(parsed[n - 1], lines[n])
    IN parsed[Len(lines)].list

(* stream_hls_download_segments *)
GivenList == [i \in DOMAIN Given |->
                 [piece |-> Given[i], encrypted |-> FALSE, key |-> None, iv |-> NoVector]]

---------------------------------------------------------------------------
(* What the standard says of the pieces of a playlist. *)
PiecesBefore(lines, i) == Cardinality({j \in 1..(i - 1) : lines[j].is = "piece"})

KeyLines(lines, i) == {j \in 1..(i - 1) : lines[j].is = "key"}

Sealed(lines, i) == /\ KeyLines(lines, i) # {}
                    /\ lines[Max(KeyLines(lines, i))].method = "AES-128"

Vector(lines, i) ==
    LET k == lines[Max(KeyLines(lines, i))]
        s == {j \in 1..(i - 1) : lines[j].is = "sequence"}
        first == IF s = {} THEN 0 ELSE lines[Max(s)].n
    IN IF k.iv # NoVector THEN k.iv ELSE first + PiecesBefore(lines, i)

(* The playlist that is meant: the variant of the whole master. *)
Media == IF IsMaster(Text[Root]) THEN Text[PickVariant(Text[Root])] ELSE Text[Root]

(* aes128_cbc_decrypt: what the key and the vector of an item make of it, in a
   playlist that these lines are. *)
Plain(item, lines) ==
    IF kind = "ts-sequence" THEN item.piece
    ELSE LET i == CHOOSE k \in DOMAIN lines : lines[k].is = "piece" /\ lines[k].n = item.piece
         IN IF \/ item.encrypted /\ Sealed(lines, i) /\ item.iv = Vector(lines, i)
                  /\ item.key = lines[Max(KeyLines(lines, i))].key
               \/ ~item.encrypted /\ ~Sealed(lines, i)
            THEN item.piece ELSE Wrong

Pieces(lines) ==
    LET front[n \in 0..Len(lines)] ==
            IF n = 0 THEN <<>>
            ELSE IF lines[n].is = "piece" THEN Append(front[n - 1], lines[n].n)
            ELSE front[n - 1]
    IN front[Len(lines)]

Whole == IF kind = "ts-sequence" THEN Given ELSE Pieces(Media)

---------------------------------------------------------------------------
(* download_resume, run_download_for_item_id *)
Start(j) ==
    /\ job[j].at = "idle" /\ status \in {"paused", "failed"}
    /\ j = 2 => job[1].at # "idle"
    /\ status' = "downloading"
    /\ overlapped' = (overlapped \/ \E k \in Jobs : job[k].at \notin {"idle", "ended"})
    /\ IF kind = "hls"
       THEN job' = [job EXCEPT ![j].at = "playlist"]
       ELSE job' = [job EXCEPT ![j].at = "open", ![j].list = GivenList]
    /\ UNCHANGED <<kind, temp, dests, data, cut, faults>>

(* download_pause finds no active job. *)
Pause == /\ status = "downloading"
         /\ status' = "paused"
         /\ UNCHANGED <<kind, job, temp, dests, data, cut, overlapped, faults>>

Fetching(j) == job[j].at \in {"playlist", "media", "piece", "key"} /\ ~job[j].silent

Failed(j) == /\ job' = [job EXCEPT ![j].at = "ended"]
             /\ status' = "failed"

(* http_fetch_handler: the connection or the answer is no good. *)
Refused(j) == /\ Fetching(j) /\ Fault
              /\ Failed(j)
              /\ UNCHANGED <<kind, temp, dests, data, cut, overlapped>>

(* Nothing comes, or the connection ends before its answer. *)
Silent(j) == /\ Fetching(j) /\ Fault
             /\ job' = [job EXCEPT ![j].silent = TRUE]
             /\ UNCHANGED <<kind, status, temp, dests, data, cut, overlapped>>

(* Mutant: the loop waits for the answer alone. *)
TimeIsNeverUp(j) == FALSE

(* http_fetch_body: sixty seconds. *)
TimeIsUp(j) == job[j].silent

Expire(j) == /\ TimeIsUp(j) /\ job[j].at # "ended"
             /\ Failed(j)
             /\ UNCHANGED <<kind, temp, dests, data, cut, overlapped, faults>>

(* The lines of a playlist, of which a broken connection leaves the first. *)
Lines(address, lines) ==
    \/ lines = Text[address] /\ UNCHANGED <<cut, faults>>
    \/ /\ \E n \in 1..(Len(Text[address]) - 1) : lines = SubSeq(Text[address], 1, n)
       /\ cut' = TRUE /\ Fault

Server(j) == Text[IF job[j].media = None THEN Root ELSE job[j].media]

Listed(j, lines) ==
    IF Parse(lines) = <<>>
    THEN Failed(j)
    ELSE /\ job' = [job EXCEPT ![j].at = "open", ![j].list = Parse(lines)]
         /\ UNCHANGED status

(* stream_hls_download *)
Playlist(j) ==
    /\ Fetching(j) /\ job[j].at = "playlist"
    /\ \E lines \in {SubSeq(Text[Root], 1, n) : n \in 1..Len(Text[Root])} :
          /\ Lines(Root, lines)
          /\ IF IsMaster(lines)
             THEN /\ job' = [job EXCEPT ![j].at = "media",
                                        ![j].media = PickVariant(lines)]
                  /\ UNCHANGED status
             ELSE Listed(j, lines)
    /\ UNCHANGED <<kind, temp, dests, data, overlapped>>

MediaPlaylist(j) ==
    /\ Fetching(j) /\ job[j].at = "media"
    /\ LET address == job[j].media
       IN \E lines \in {SubSeq(Text[address], 1, n) : n \in 1..Len(Text[address])} :
             Lines(address, lines) /\ Listed(j, lines)
    /\ UNCHANGED <<kind, temp, dests, data, overlapped>>

(* fopen: what is under the temporary name is emptied, whoever writes it. *)
Open(j) ==
    /\ job[j].at = "open"
    /\ LET f == IF temp # 0 THEN temp ELSE j
       IN /\ temp' = f
          /\ data' = [data EXCEPT ![f] = <<>>]
          /\ job' = [job EXCEPT ![j].at = "piece", ![j].file = f]
    /\ UNCHANGED <<kind, status, dests, cut, overlapped, faults>>

(* fwrite, at the place of this job in the file *)
Put(content, place, n) ==
    [i \in 1..Max({place, Len(content)}) |->
        IF i = place THEN n ELSE IF i <= Len(content) THEN content[i] ELSE Wrong]

Written(j, n) ==
    LET me == job[j]
    IN /\ data' = [data EXCEPT ![me.file] = Put(@, me.next, n)]
       /\ job' = [job EXCEPT ![j].next = @ + 1,
                             ![j].at = IF me.next = Len(me.list) THEN "finish" ELSE "piece"]

(* hls_write_segment; a piece cut at the wrong place cannot be deciphered. *)
Piece(j) ==
    /\ Fetching(j) /\ job[j].at = "piece"
    /\ LET item == job[j].list[job[j].next]
       IN \/ /\ item.encrypted
             /\ job' = [job EXCEPT ![j].at = "key", ![j].body = item.piece]
             /\ UNCHANGED <<status, data, cut, faults>>
          \/ /\ ~item.encrypted
             /\ Written(j, Plain(item, Server(j)))
             /\ UNCHANGED <<status, cut, faults>>
          \/ /\ Fault /\ cut' = TRUE
             /\ IF item.encrypted
                THEN \/ job' = [job EXCEPT ![j].at = "key", ![j].body = Wrong]
                        /\ UNCHANGED <<status, data>>
                     \/ Failed(j) /\ UNCHANGED data
                ELSE Written(j, Wrong) /\ UNCHANGED status
    /\ UNCHANGED <<kind, temp, dests, overlapped>>

(* hls_load_key, for every piece anew *)
Key(j) ==
    /\ Fetching(j) /\ job[j].at = "key"
    /\ Written(j, IF job[j].body = Wrong THEN Wrong ELSE Plain(job[j].list[job[j].next], Server(j)))
    /\ UNCHANGED <<kind, status, temp, dests, cut, overlapped, faults>>

(* finalize_download; an error here is published by nobody. *)
Finish(j) ==
    /\ job[j].at = "finish"
    /\ job' = [job EXCEPT ![j].at = "ended"]
    /\ \/ /\ temp # 0
          /\ dests' = dests \cup {temp} /\ temp' = 0
          /\ status' = "completed"
          /\ UNCHANGED faults
       \/ /\ temp = 0
          /\ UNCHANGED <<temp, dests, status, faults>>
       \/ /\ temp # 0 /\ Fault
          /\ UNCHANGED <<temp, dests, status>>
    /\ UNCHANGED <<kind, data, cut, overlapped>>

Step(j) == Playlist(j) \/ MediaPlaylist(j) \/ Open(j) \/ Piece(j) \/ Key(j) \/ Finish(j) \/ Expire(j)

Next == Pause \/ \E j \in Jobs : Start(j) \/ Step(j) \/ Refused(j) \/ Silent(j)

Spec == Init /\ [][Next]_vars /\ \A j \in Jobs : WF_vars(Step(j))

---------------------------------------------------------------------------
Item == [piece : Nat, encrypted : BOOLEAN, key : Attributes, iv : Nat \cup {NoVector}]

(* The types of the variables. *)
TypeOK ==
    /\ kind \in {"hls", "ts-sequence"}
    /\ job \in [Jobs -> [at : {"idle", "playlist", "media", "open", "piece", "key", "finish", "ended"},
                         media : {None} \cup DOMAIN Text, list : Seq(Item), next : Nat \ {0},
                         file : {0} \cup Jobs, silent : BOOLEAN, body : Nat]]
    /\ status \in {"paused", "downloading", "failed", "completed"}
    /\ temp \in {0} \cup Jobs /\ dests \subseteq Jobs
    /\ data \in [Jobs -> Seq(Nat)]
    /\ \A j \in Jobs : job[j].next \in 1..(Len(job[j].list) + 1)
    /\ {cut, overlapped} \subseteq BOOLEAN
    /\ faults \in 0..MaxFaults

(* A finished file is the pieces of the playlist in their order, each
   deciphered with its own key and vector, unless an answer was cut short
   unnoticed or two jobs wrote the file at once (hls_parse_media_playlist,
   hls_write_segment, pick_variant_url). *)
PiecesInOrder == ~cut /\ ~overlapped => \A f \in dests : data[f] = Whole

(* The order of the jobs: what waits for an answer can be silent, a file is
   open before it is written, the second job comes after the first. *)
Runs(j) == job[j].at \notin {"idle", "ended"}
Writes(j) == job[j].at \in {"piece", "key", "finish"}
InTurn ==
    /\ job[1].at = "idle" => job[2].at = "idle"
    /\ ~overlapped => ~(Runs(1) /\ Runs(2))
    /\ \A j \in Jobs :
          /\ job[j].silent => job[j].at \in {"playlist", "media", "piece", "key", "ended"}
          /\ job[j].at = "idle" => job[j] = Idle
          /\ job[j].at \in {"playlist", "media"} => kind = "hls" /\ job[j].next = 1
          /\ job[j].at = "playlist" => job[j].media = None
          /\ job[j].at = "media" => job[j].media \in DOMAIN Text
          /\ job[j].at = "open" => job[j].next = 1 /\ job[j].list # <<>>
          /\ job[j].at \in {"piece", "key"} => job[j].next <= Len(job[j].list)
          /\ job[j].at = "key" => job[j].list[job[j].next].encrypted
          /\ job[j].at = "finish" => job[j].next = Len(job[j].list) + 1
          /\ Writes(j) => job[j].file \in Jobs

(* As long as no answer is cut: the list is that of the playlist that is
   meant, and what is fetched to be deciphered is the piece. *)
ListIsMeant ==
    ~cut =>
        \A j \in Jobs :
            /\ job[j].at = "media" =>
                  IsMaster(Text[Root]) /\ job[j].media = PickVariant(Text[Root])
            /\ job[j].at = "open" \/ Writes(j) =>
                  /\ kind = "hls" => Server(j) = Media /\ job[j].list = Parse(Media)
                  /\ kind = "ts-sequence" => job[j].list = GivenList
            /\ job[j].at = "key" => job[j].body = job[j].list[job[j].next].piece

(* And as long as nobody else writes: the file is the first pieces. *)
FrontIsWritten ==
    ~overlapped =>
        /\ dests # {} => status = "completed" /\ ~Runs(1) /\ ~Runs(2)
        /\ \A j \in Jobs :
              Writes(j) =>
                  /\ temp = job[j].file
                  /\ ~cut => data[temp] = SubSeq(Whole, 1, job[j].next - 1)

(* The inductive invariant. *)
IInv == TypeOK /\ InTurn /\ ListIsMeant /\ FrontIsWritten /\ PiecesInOrder

Begun(j) == job[j].at # "idle"
Ended(j) == job[j].at = "ended"

(* A job of this kind comes to its end though it cannot be stopped
   (http_fetch_body). *)
ListJobEnds == \A j \in Jobs : Begun(j) ~> Ended(j)
=============================================================================
