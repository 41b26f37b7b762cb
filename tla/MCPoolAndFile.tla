--------------------------- MODULE MCPoolAndFile ----------------------------
(* The thread pool and, while it has nothing to do, the file of a download.  *)
(* The pool is that of the file's writer, but the file keeps its own account *)
(* of the one task it may have there, so the two share no variable.          *)
EXTENDS AsyncFile, ThreadPool

(* Every worker waits for the first task: no step of the pool is due. *)
AtRest ==
    /\ owner = "up"
    /\ submitted = 0
    /\ \A w \in Workers : worker[w] = "waiting"

PoolAndFileInit == PoolInit /\ Init

PoolAndFileNext ==
    \/ Init /\ PoolNext /\ UNCHANGED vars
    \/ AtRest /\ Next /\ UNCHANGED poolVars

PoolAndFileSpec ==
    /\ PoolAndFileInit /\ [][PoolAndFileNext]_<<poolVars, vars>>
    /\ PoolFairness
    /\ Fairness
=============================================================================
