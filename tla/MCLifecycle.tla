---------------------------- MODULE MCLifecycle -----------------------------
(* The list of downloads for TLC.  The threads of the pool are alike: no     *)
(* action and no invariant names one.                                        *)
EXTENDS DownloadLifecycle, TLC

Alike == Permutations(Workers)

(* The last command is given only while there is no second download. *)
LastIsForOne == calls < MaxCalls \/ added \subseteq Preset
=============================================================================
