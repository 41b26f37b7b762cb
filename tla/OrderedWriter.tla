--------------------------- MODULE OrderedWriter ---------------------------
(***************************************************************************)
(* What src/src/include/file_async.h promises of an asynchronous file: one *)
(* log of bytes that reaches the operating system in the order it was      *)
(* accepted, in the background; a call that reports success says the truth *)
(* about that log; a failure is never forgotten before the close.          *)
(***************************************************************************)
EXTENDS Naturals, Sequences

VARIABLES accepted,  \* bytes taken from the producer
          written,   \* bytes handed to the operating system
          synced,    \* how many of them an fsync covered
          failed,    \* a write or an fsync has failed
          call,      \* "idle", the call that is running, or "closed"
          last,      \* the call that returned last
          rc         \* whether it reported success

vars == <<accepted, written, synced, failed, call, last, rc>>

Running == {"write", "drain", "sync", "close"}

Init ==
    /\ accepted = <<>>
    /\ written = <<>>
    /\ synced = 0
    /\ failed = FALSE
    /\ call = "idle"
    /\ last = "write"
    /\ rc = TRUE

Begin(c) ==
    /\ call = "idle"
    /\ call' = c
    /\ last' = c
    /\ rc' = FALSE
    /\ UNCHANGED <<accepted, written, synced, failed>>

(* A write takes bytes, only while nothing has failed. *)
Accept ==
    /\ call = "write"
    /\ ~failed
    /\ accepted' \in Seq(Nat \X Nat)
    /\ Len(accepted') > Len(accepted)
    /\ \A i \in 1 .. Len(accepted) : accepted'[i] = accepted[i]
    /\ UNCHANGED <<written, synced, failed, call, last, rc>>

(* The next accepted byte reaches the operating system. *)
Flush ==
    /\ call # "closed"
    /\ Len(written) < Len(accepted)
    /\ written' = Append(written, accepted[Len(written) + 1])
    /\ UNCHANGED <<accepted, synced, failed, call, last, rc>>

Fail ==
    /\ call # "closed"
    /\ ~failed
    /\ failed' = TRUE
    /\ UNCHANGED <<accepted, written, synced, call, last, rc>>

Sync ==
    /\ call \in {"sync", "close"}
    /\ ~failed
    /\ written = accepted
    /\ synced' = Len(written)
    /\ UNCHANGED <<accepted, written, failed, call, last, rc>>

(* A call returns.  An error answer may itself be the failure. *)
Return ==
    /\ call \in Running
    /\ call' = IF call = "close" THEN "closed" ELSE "idle"
    /\ rc' \in BOOLEAN
    /\ failed' \in BOOLEAN
    /\ failed => failed'
    /\ rc' => /\ ~failed'
              /\ call # "write" => written = accepted
              /\ call \in {"sync", "close"} => synced = Len(accepted)
    /\ UNCHANGED <<accepted, written, synced, last>>

(* An fsync that succeeded may complete its call in the same step. *)
SyncReturn ==
    /\ call = "sync"
    /\ ~failed
    /\ written = accepted
    /\ synced' = Len(written)
    /\ call' = "idle"
    /\ rc' = TRUE
    /\ UNCHANGED <<accepted, written, failed, last>>

Reopen ==
    /\ call = "closed"
    /\ accepted' = <<>>
    /\ written' = <<>>
    /\ synced' = 0
    /\ failed' = FALSE
    /\ call' = "idle"
    /\ rc' = TRUE
    /\ UNCHANGED last

Next ==
    \/ \E c \in Running : Begin(c)
    \/ Accept
    \/ Flush
    \/ Fail
    \/ Sync
    \/ Return
    \/ SyncReturn
    \/ Reopen

Spec == Init /\ [][Next]_vars
=============================================================================
