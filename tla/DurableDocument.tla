-------------------------- MODULE DurableDocument --------------------------
(***************************************************************************)
(* What the callers of config.h may count on: one document in memory, and  *)
(* one on disk that is only ever replaced as a whole by what memory holds. *)
(* A call that reports success has stored the document; one that fails may *)
(* have changed memory all the same.  A program that starts again takes up *)
(* what was stored; after a power failure that may be the version before.  *)
(***************************************************************************)
CONSTANT Blank       \* the document of a first start

VARIABLES memory,    \* the document in memory
          running,   \* it has been loaded, and the program has not died since
          stored,    \* the document on disk, Blank when there is none
          safe,      \* the version a power failure cannot take back
          acked      \* the last change has been stored and reported

vars == <<memory, running, stored, safe, acked>>

Init ==
    /\ memory = Blank
    /\ running = FALSE
    /\ stored = Blank
    /\ safe = Blank
    /\ acked = FALSE

Load ==
    /\ ~running
    /\ running' = TRUE
    /\ memory' = stored
    /\ UNCHANGED <<stored, safe, acked>>

(* A call makes of the document what it likes. *)
Change ==
    /\ running
    /\ acked' = FALSE
    /\ UNCHANGED <<running, stored, safe>>

(* The first call of a program loads the document and changes it at once. *)
LoadAndChange ==
    /\ ~running
    /\ running' = TRUE
    /\ acked' = FALSE
    /\ UNCHANGED <<stored, safe>>

Store ==
    /\ running
    /\ stored' = memory
    /\ UNCHANGED <<memory, running, safe, acked>>

(* Success: nothing is said to be stored that is not. *)
Acknowledge ==
    /\ running
    /\ stored = memory
    /\ acked' = TRUE
    /\ UNCHANGED <<memory, running, stored, safe>>

Settle ==
    /\ safe' = stored
    /\ UNCHANGED <<memory, running, stored, acked>>

Die ==
    /\ running' = FALSE
    /\ memory' = Blank
    /\ acked' = FALSE
    /\ stored' \in {stored, safe}
    /\ UNCHANGED safe

Next ==
    \/ Load
    \/ Change
    \/ LoadAndChange
    \/ Store
    \/ Acknowledge
    \/ Settle
    \/ Die

Spec == Init /\ [][Next]_vars
=============================================================================
