----------------------------- MODULE AsyncFile -----------------------------
(***************************************************************************)
(* The asynchronous file writer of src/src/file_async.c.                   *)
(*                                                                         *)
(* One producer thread (the transfer loop, serialised by job->mutex) fills *)
(* one of two swap buffers; a task on the I/O pool writes the other one    *)
(* without holding the lock.  An action is one stretch of code between two *)
(* points where the lock changes hands, or one byte moved by fwrite, so    *)
(* that the unlocked write of a buffer interleaves with the producer.      *)
(*                                                                         *)
(* A byte is a pair <<file offset, id>>: the id tells every byte the       *)
(* producer ever handed over from every other one.  accepted is the log of *)
(* the bytes the producer copied in, written the log of the bytes handed   *)
(* to the operating system, in order; a later byte at an offset overwrites *)
(* an earlier one, so equal logs give equal files.                         *)
(***************************************************************************)
EXTENDS Naturals, Sequences

CONSTANTS BufferSize,  \* ASYNC_FILE_BUFFER_SIZE, in bytes
          Offsets,     \* the offsets a write call may name
          MaxLen,      \* bound: the longest single write call
          MaxBytes     \* bound: bytes accepted between an open and its close

ASSUME AsyncFileAssumption ==
    /\ BufferSize \in Nat \ {0}
    /\ Offsets \subseteq Nat
    /\ MaxLen \in Nat \ {0}
    /\ MaxBytes \in Nat

VARIABLES
    bufs,           \* bufs[i] = [offset, data]: the two SwapBuffers
    active,         \* index of the buffer the producer fills
    pending,        \* index of the buffer handed over, or None
    worker_queued,  \* a worker task is queued or running
    failed,         \* sticky error
    lock,           \* file->lock across actions: "none" or "producer"
    asleep,         \* the producer is in async_file_wait and was not woken
    pc,             \* where the producer is
    op,             \* the API call the producer is in
    args,           \* [offset, len] still to be written by the current call
    rc,             \* result of the last call that returned
    task,           \* where the worker task is
    pos,            \* bytes of the pending buffer already moved by fwrite
    accepted,       \* log of bytes taken from the producer
    written,        \* log of bytes handed to the operating system
    synced          \* length of written when the last fsync succeeded

fileVars == <<bufs, active, pending, worker_queued, failed>>
logVars  == <<accepted, written, synced>>
vars == <<fileVars, lock, asleep, pc, op, args, rc, task, pos, logVars>>

None == 2      \* file->pending = -1
Indices == {0, 1}
Ops == {"write", "drain", "sync", "close"}
Pcs == {"idle", "write", "submit", "submit_wait", "inline", "drain", "drain_wait",
        "fsync", "fsync_failed", "close_lock", "closed"}
Buffers == [offset : Nat, data : Seq(Nat)]
EmptyBuffer == [offset |-> 0, data |-> <<>>]   \* len = 0: the offset is not read

Init ==
    /\ bufs = [i \in Indices |-> EmptyBuffer]
    /\ active = 0
    /\ pending = None
    /\ worker_queued = FALSE
    /\ failed = FALSE
    /\ lock = "none"
    /\ asleep = FALSE
    /\ pc = "idle"
    /\ op = "write"
    /\ args = [offset |-> 0, len |-> 0]
    /\ rc = TRUE
    /\ task = "none"
    /\ pos = 0
    /\ accepted = <<>>
    /\ written = <<>>
    /\ synced = 0

(***************************************************************************)
(* The producer's calls.                                                   *)
(***************************************************************************)

(* avar_async_file_write, up to the lock. *)
WriteCall(offset, len) ==
    /\ pc = "idle"
    /\ lock = "none"
    /\ Len(accepted) + len <= MaxBytes
    /\ pc' = "write"
    /\ op' = "write"
    /\ args' = [offset |-> offset, len |-> len]
    /\ lock' = "producer"
    /\ UNCHANGED <<fileVars, asleep, rc, task, pos, logVars>>

(* A call that begins by draining: avar_async_file_drain, _sync, _close. *)
DrainCall(o) ==
    /\ pc = "idle"
    /\ lock = "none"
    /\ pc' = "submit"
    /\ op' = o
    /\ lock' = "producer"
    /\ UNCHANGED <<fileVars, asleep, args, rc, task, pos, logVars>>

(* Mutant: takes any write for the continuation of the buffer. *)
MustSwapWhenFull == Len(bufs[active].data) = BufferSize

(* The active buffer cannot take the next byte: it is full, or the write  *)
(* does not continue it.                                                   *)
MustSwap ==
    LET buf == bufs[active]
    IN /\ Len(buf.data) > 0
       /\ \/ args.offset # buf.offset + Len(buf.data)
          \/ Len(buf.data) = BufferSize

(* memcpy into the active buffer.  The lock is held throughout, so copying *)
(* a chunk is copying its bytes one after the other.                       *)
CopyByte ==
    LET buf == bufs[active]
        id  == Len(accepted) + 1
    IN /\ bufs' = [bufs EXCEPT ![active] =
                     [offset |-> IF Len(buf.data) = 0 THEN args.offset ELSE buf.offset,
                      data   |-> Append(buf.data, id)]]
       /\ accepted' = Append(accepted, <<args.offset, id>>)
       /\ args' = [offset |-> args.offset + 1, len |-> args.len - 1]
       /\ UNCHANGED <<active, pending, worker_queued, failed, pc, lock, rc, written, synced>>

(* Mutant: a write after a failure reports success. *)
WriteLoopSilent ==
    /\ pc = "write"
    /\ \/ /\ args.len > 0 /\ ~failed /\ MustSwap
          /\ pc' = "submit"
          /\ UNCHANGED <<fileVars, lock, args, rc, logVars>>
       \/ /\ args.len > 0 /\ ~failed /\ ~MustSwap
          /\ CopyByte
       \/ /\ args.len = 0 \/ failed
          /\ pc' = "idle"
          /\ lock' = "none"
          /\ rc' = TRUE
          /\ UNCHANGED <<fileVars, args, logVars>>
    /\ UNCHANGED <<asleep, op, task, pos>>

(* The body of avar_async_file_write, lock held. *)
WriteLoop ==
    /\ pc = "write"
    /\ \/ /\ args.len > 0 /\ ~failed /\ MustSwap
          /\ pc' = "submit"
          /\ UNCHANGED <<fileVars, lock, args, rc, logVars>>
       \/ /\ args.len > 0 /\ ~failed /\ ~MustSwap
          /\ CopyByte
       \/ /\ args.len = 0 \/ failed
          /\ pc' = "idle"
          /\ lock' = "none"
          /\ rc' = ~failed
          /\ UNCHANGED <<fileVars, args, logVars>>
    /\ UNCHANGED <<asleep, op, task, pos>>

(* Where async_file_submit_locked returns to. *)
AfterSubmit == IF op = "write" THEN "write" ELSE "drain"

(* async_file_wait: gives the lock up and sleeps until a wake. *)
Wait(where) ==
    /\ pc' = where
    /\ lock' = "none"
    /\ asleep' = TRUE

(* The wait returns with the lock held and its condition is tested again. *)
Resume(where, back) ==
    /\ pc = where
    /\ ~asleep
    /\ lock = "none"
    /\ lock' = "producer"
    /\ pc' = back
    /\ UNCHANGED <<fileVars, asleep, op, args, rc, task, pos, logVars>>

(* async_file_submit_locked. *)
SubmitNothing ==
    /\ pc = "submit"
    /\ Len(bufs[active].data) = 0
    /\ pc' = AfterSubmit
    /\ UNCHANGED <<fileVars, lock, asleep, op, args, rc, task, pos, logVars>>

SubmitWait ==
    /\ pc = "submit"
    /\ Len(bufs[active].data) > 0
    /\ pending # None
    /\ Wait("submit_wait")
    /\ UNCHANGED <<fileVars, op, args, rc, task, pos, logVars>>

SubmitDropped ==
    /\ pc = "submit"
    /\ Len(bufs[active].data) > 0
    /\ pending = None
    /\ failed
    /\ bufs' = [bufs EXCEPT ![active] = EmptyBuffer]
    /\ pc' = AfterSubmit
    /\ UNCHANGED <<active, pending, worker_queued, failed, lock, asleep, op, args, rc,
                   task, pos, logVars>>

(* Mutant: the producer goes on filling the buffer it has handed over. *)
SubmitSwapNot(poolAccepts) ==
    /\ pc = "submit"
    /\ Len(bufs[active].data) > 0
    /\ pending = None
    /\ ~failed
    /\ pending' = active
    /\ pos' = 0
    /\ worker_queued' = TRUE
    /\ task' = IF worker_queued THEN task ELSE "queued"
    /\ pc' = AfterSubmit
    /\ asleep' = FALSE
    /\ UNCHANGED <<bufs, active, failed, lock, op, args, rc, logVars>>

(* The swap, and the hand-over to the I/O pool or, when the pool refuses   *)
(* the task, the start of the write in line.                               *)
SubmitSwap(poolAccepts) ==
    /\ pc = "submit"
    /\ Len(bufs[active].data) > 0
    /\ pending = None
    /\ ~failed
    /\ pending' = active
    /\ active' = 1 - active
    /\ bufs' = [bufs EXCEPT ![1 - active] = EmptyBuffer]
    /\ pos' = 0
    /\ IF worker_queued \/ poolAccepts
       THEN /\ worker_queued' = TRUE
            /\ task' = IF worker_queued THEN task ELSE "queued"
            /\ pc' = AfterSubmit
       ELSE /\ pc' = "inline"
            /\ UNCHANGED <<worker_queued, task>>
    /\ asleep' = FALSE
    /\ UNCHANGED <<failed, lock, op, args, rc, logVars>>

(* async_file_write_buffer moves the pending buffer to the operating       *)
(* system.  It reads the live buffer, one byte at a time.                  *)
MoveByte ==
    LET buf == bufs[pending]
    IN /\ pos < Len(buf.data)
       /\ written' = Append(written, <<buf.offset + pos, buf.data[pos + 1]>>)
       /\ pos' = pos + 1

InlineByte ==
    /\ pc = "inline"
    /\ MoveByte
    /\ UNCHANGED <<fileVars, lock, asleep, pc, op, args, rc, task, accepted, synced>>

(* Mutant: a short write counts as a write. *)
WriteBufferShort(ok) == TRUE

(* The write returns: ok only when every byte went through. *)
WriteBufferReturns(ok) == ok => pos = Len(bufs[pending].data)

InlineDone(ok) ==
    /\ pc = "inline"
    /\ WriteBufferReturns(ok)
    /\ failed' = (failed \/ ~ok)
    /\ pending' = None
    /\ pc' = AfterSubmit
    /\ UNCHANGED <<bufs, active, worker_queued, lock, asleep, op, args, rc, task, pos, logVars>>

(* The second half of avar_async_file_drain. *)
DrainWait ==
    /\ pc = "drain"
    /\ pending # None
    /\ Wait("drain_wait")
    /\ UNCHANGED <<fileVars, op, args, rc, task, pos, logVars>>

(* Mutant: returns without waiting for the buffer handed over. *)
DrainDoneEarly ==
    /\ pc = "drain"
    /\ lock' = "none"
    /\ rc' = ~failed
    /\ pc' = IF op = "drain" THEN "idle"
             ELSE IF ~failed THEN "fsync"
             ELSE IF op = "sync" THEN "idle" ELSE "close_lock"
    /\ UNCHANGED <<fileVars, asleep, op, args, task, pos, logVars>>

DrainDone ==
    /\ pc = "drain"
    /\ pending = None
    /\ lock' = "none"
    /\ rc' = ~failed
    /\ pc' = IF op = "drain" THEN "idle"
             ELSE IF ~failed THEN "fsync"
             ELSE IF op = "sync" THEN "idle" ELSE "close_lock"
    /\ UNCHANGED <<fileVars, asleep, op, args, task, pos, logVars>>

(* avar_async_file_sync after a clean drain: fsync, without the lock. *)
Fsync(ok) ==
    /\ pc = "fsync"
    /\ synced' = IF ok THEN Len(written) ELSE synced
    /\ rc' = ok
    /\ pc' = IF ~ok THEN "fsync_failed" ELSE IF op = "sync" THEN "idle" ELSE "close_lock"
    /\ UNCHANGED <<fileVars, lock, asleep, op, args, task, pos, accepted, written>>

FsyncFailed ==
    /\ pc = "fsync_failed"
    /\ lock = "none"
    /\ failed' = TRUE
    /\ pc' = IF op = "sync" THEN "idle" ELSE "close_lock"
    /\ UNCHANGED <<bufs, active, pending, worker_queued, lock, asleep, op, args, rc, task,
                   pos, logVars>>

(* avar_async_file_close after the sync: lock, wait until the worker is    *)
(* done with the file, unlock, fclose (which may fail too) and free.       *)
CloseFree(ok) ==
    /\ pc = "close_lock"
    /\ lock = "none"
    /\ ~worker_queued
    /\ rc' = (rc /\ ok)
    /\ pc' = "closed"
    /\ UNCHANGED <<fileVars, lock, asleep, op, args, task, pos, logVars>>

(* avar_async_file_open of the next file. *)
Open ==
    /\ pc = "closed"
    /\ bufs' = [i \in Indices |-> EmptyBuffer]
    /\ active' = 0
    /\ pending' = None
    /\ worker_queued' = FALSE
    /\ failed' = FALSE
    /\ pc' = "idle"
    /\ rc' = TRUE
    /\ accepted' = <<>>
    /\ written' = <<>>
    /\ synced' = 0
    /\ UNCHANGED <<lock, asleep, op, args, task, pos>>

(***************************************************************************)
(* The worker task, async_file_worker.                                     *)
(***************************************************************************)

(* The pool runs the task: lock, read pending, unlock. *)
WorkerTake ==
    /\ task = "queued"
    /\ lock = "none"
    /\ pending # None
    /\ task' = "writing"
    /\ UNCHANGED <<fileVars, lock, asleep, pc, op, args, rc, pos, logVars>>

WorkerByte ==
    /\ task = "writing"
    /\ MoveByte
    /\ UNCHANGED <<fileVars, lock, asleep, pc, op, args, rc, task, accepted, synced>>

(* Mutant: the producer is not woken. *)
WorkerDoneSilent(ok) ==
    /\ task = "writing"
    /\ lock = "none"
    /\ WriteBufferReturns(ok)
    /\ failed' = (failed \/ ~ok)
    /\ pending' = None
    /\ worker_queued' = FALSE
    /\ task' = "none"
    /\ UNCHANGED <<bufs, active, lock, asleep, pc, op, args, rc, pos, logVars>>

(* Mutant: announces that it is done and looks at the file once more. *)
WorkerDoneLingers(ok) ==
    /\ task = "writing"
    /\ lock = "none"
    /\ WriteBufferReturns(ok)
    /\ failed' = (failed \/ ~ok)
    /\ pending' = None
    /\ worker_queued' = FALSE
    /\ asleep' = FALSE
    /\ task' = "queued"
    /\ UNCHANGED <<bufs, active, lock, pc, op, args, rc, pos, logVars>>

(* The last lock hold of the task: pending = -1 ends the loop, so the      *)
(* buffer is released and worker_queued cleared in one hold, and the       *)
(* producer is woken.                                                      *)
WorkerDone(ok) ==
    /\ task = "writing"
    /\ lock = "none"
    /\ WriteBufferReturns(ok)
    /\ failed' = (failed \/ ~ok)
    /\ pending' = None
    /\ worker_queued' = FALSE
    /\ asleep' = FALSE
    /\ task' = "none"
    /\ UNCHANGED <<bufs, active, lock, pc, op, args, rc, pos, logVars>>

----------------------------------------------------------------------------

Calls ==
    \/ \E offset \in Offsets, len \in 1 .. MaxLen : WriteCall(offset, len)
    \/ \E o \in {"drain", "sync", "close"} : DrainCall(o)

ProducerStep ==
    \/ WriteLoop
    \/ Resume("submit_wait", "submit")
    \/ Resume("drain_wait", "drain")
    \/ SubmitNothing
    \/ SubmitWait
    \/ SubmitDropped
    \/ \E poolAccepts \in BOOLEAN : SubmitSwap(poolAccepts)
    \/ InlineByte
    \/ \E ok \in BOOLEAN : InlineDone(ok)
    \/ DrainWait
    \/ DrainDone
    \/ \E ok \in BOOLEAN : Fsync(ok)
    \/ FsyncFailed
    \/ \E ok \in BOOLEAN : CloseFree(ok)

WorkerStep ==
    \/ WorkerTake
    \/ WorkerByte
    \/ \E ok \in BOOLEAN : WorkerDone(ok)

Next == Calls \/ ProducerStep \/ Open \/ WorkerStep

(* The thread that made a call keeps running it and a pool worker keeps    *)
(* running its task; nothing forces the engine to make another call.       *)
Fairness == WF_vars(ProducerStep) /\ WF_vars(WorkerStep)

Spec == Init /\ [][Next]_vars
FairSpec == Spec /\ Fairness
----------------------------------------------------------------------------
(***************************************************************************)
(* Properties.                                                             *)
(***************************************************************************)

(* Every variable keeps its type; bytes never exceed a buffer's capacity,  *)
(* which is the memory bound of two buffers per file.                      *)
TypeOK ==
    /\ bufs \in [Indices -> Buffers]
    /\ \A i \in Indices : Len(bufs[i].data) <= BufferSize
    /\ active \in Indices
    /\ pending \in Indices \cup {None}
    /\ worker_queued \in BOOLEAN
    /\ failed \in BOOLEAN
    /\ lock \in {"none", "producer"}
    /\ asleep \in BOOLEAN
    /\ pc \in Pcs
    /\ op \in Ops
    /\ args \in [offset : Nat, len : Nat]
    /\ rc \in BOOLEAN
    /\ task \in {"none", "queued", "writing"}
    /\ pos \in Nat
    /\ accepted \in Seq(Nat \X Nat)
    /\ written \in Seq(Nat \X Nat)
    /\ synced \in Nat

(* The buffer a write is reading, in the worker without the lock or in     *)
(* line, is never the one the producer copies into.                        *)
NoBufferRace ==
    (task = "writing" \/ pc = "inline") => pending \in Indices \ {active}

(* The bytes of a buffer from position p on, with the offsets they go to. *)
BytesFrom(buf, p) ==
    [i \in 1 .. Len(buf.data) - p |-> <<buf.offset + p + i - 1, buf.data[p + i]>>]

(* What the file still holds: the rest of the pending buffer, then the     *)
(* active one.                                                             *)
Queued ==
    (IF pending = None THEN <<>> ELSE BytesFrom(bufs[pending], pos))
        \o BytesFrom(bufs[active], 0)

(* While no write has failed, the bytes at the operating system followed   *)
(* by the bytes still queued are exactly the accepted bytes: none is lost, *)
(* doubled, reordered or sent to another offset across swaps.              *)
NothingLost == ~failed => accepted = written \o Queued

(* What a successful return means: a drain's bytes are at the operating    *)
(* system, a sync's and a close's are on the disk.                         *)
ReturnIsTrue ==
    /\ pc = "idle" /\ op = "drain" /\ rc => written = accepted
    /\ pc = "idle" /\ op = "sync" /\ rc => synced = Len(accepted)
    /\ pc = "closed" /\ rc => synced = Len(accepted)

(* Once the file is freed no pool task refers to it any more. *)
NoUseAfterFree == pc = "closed" => task = "none" /\ pending = None

(* Errors are sticky: a call that returns once a write has failed reports  *)
(* it, and the error goes away only with the file.                         *)
ErrorsAreSticky ==
    [][/\ failed /\ pc \notin {"idle", "closed"} /\ pc' \in {"idle", "closed"} => ~rc'
       /\ failed /\ pc # "closed" => failed']_vars

(* Every call returns, whatever the interleaving of the producer's sleep   *)
(* and the worker's wake.                                                  *)
CallsReturn == pc \notin {"idle", "closed"} ~> pc \in {"idle", "closed"}

(***************************************************************************)
(* The inductive invariant behind the properties above.                    *)
(***************************************************************************)

(* Which thread may be where: the lock, the sleep, the task and the        *)
(* hand-over flags go together.                                            *)
ControlInv ==
    /\ lock = "producer" <=> pc \in {"write", "submit", "inline", "drain"}
    /\ asleep => pc \in {"submit_wait", "drain_wait"} /\ pending # None
    /\ worker_queued <=> task # "none"
    /\ pending # None <=> worker_queued \/ pc = "inline"
    /\ pc = "inline" => ~worker_queued /\ Len(bufs[active].data) = 0
    /\ pending # active
    /\ pending # None => ~failed /\ pos <= Len(bufs[pending].data)
    /\ pc = "write" => op = "write"
    /\ pc \in {"drain", "drain_wait", "fsync", "fsync_failed", "close_lock", "closed"}
          => op # "write" /\ Len(bufs[active].data) = 0
    /\ pc \in {"fsync", "fsync_failed"} => op \in {"sync", "close"} /\ ~failed
    /\ pc \in {"close_lock", "closed"} => op = "close"
    /\ pc \in {"fsync", "fsync_failed", "close_lock", "closed"} => pending = None
    /\ pc = "fsync_failed" => ~rc
    /\ pc = "close_lock" /\ rc => ~failed /\ synced = Len(accepted)

(* How many bytes of the pending buffer are still to be moved. *)
PendingLeft == IF pending = None THEN 0 ELSE Len(bufs[pending].data) - pos

(* NothingLost, byte by byte, and what is left of it after a failure. *)
LogInv ==
    /\ Len(written) <= Len(accepted)
    /\ \A i \in 1 .. Len(written) : written[i] = accepted[i]
    /\ ~failed => Len(accepted) = Len(written) + PendingLeft + Len(bufs[active].data)
    /\ pending # None => \A i \in 1 .. PendingLeft :
          accepted[Len(written) + i] =
             <<bufs[pending].offset + pos + i - 1, bufs[pending].data[pos + i]>>
    /\ ~failed => \A i \in 1 .. Len(bufs[active].data) :
          accepted[Len(written) + PendingLeft + i] =
             <<bufs[active].offset + i - 1, bufs[active].data[i]>>

IInv == TypeOK /\ ControlInv /\ LogInv /\ ReturnIsTrue

(* The call in progress, as the caller sees it. *)
Call == IF pc = "idle" THEN "idle" ELSE IF pc = "closed" THEN "closed" ELSE op

Abstract == INSTANCE OrderedWriter WITH
    call <- Call,
    last <- op,
    rc   <- pc \in {"idle", "closed"} /\ rc

(* The two-buffer writer implements the ordered log of OrderedWriter. *)
ImplementsOrderedWriter == Abstract!Spec
=============================================================================
