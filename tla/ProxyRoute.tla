----------------------------- MODULE ProxyRoute -----------------------------
(* Which proxy a download goes through: what it was given when it was added, *)
(* what the environment says, or what the configuration says, unless its     *)
(* host is among those reached directly (proxy_resolve_for_target).  The     *)
(* choice is made before every run, kept in the state of the download and    *)
(* from then on preferred to what would be chosen anew                       *)
(* (apply_proxy_to_state).  A proxy is a value and a host a sequence of      *)
(* labels; ports, how addresses are put together, and several environment    *)
(* variables of one meaning are left out.                                    *)
EXTENDS Naturals, Sequences

CONSTANTS Proxies,
          Direct,     \* no proxy
          Hosts,      \* hosts of downloads: sequences of labels
          Lists,      \* lists of hosts reached directly: sets of entries
          MaxChanges  \* bound: changes of the configuration, starts of the program

(* What an instance has to give these constants. *)
ProxyRouteAssumption == Direct \notin Proxies /\ MaxChanges \in Nat

Choice == Proxies \cup {Direct}

VARIABLES host,
          env, envList,        \* what the process has in its environment
          config, configList,  \* dm.proxy
          given,               \* the proxy the download was added with
          saved,               \* DownloadState.proxy
          used,                \* the proxy of each run
          changes

vars == <<host, env, envList, config, configList, given, saved, used, changes>>

None == {}  \* a list that is not there
Init == /\ host \in Hosts
        /\ env \in Choice /\ config \in Choice
        /\ envList \in Lists \cup {None} /\ configList \in Lists \cup {None}
        /\ given = Direct /\ saved = Direct
        /\ used = <<>>
        /\ changes = 0

(* host_matches_no_proxy_entry *)
Matches(h, e) ==
    \/ e.form = "any"
    \/ e.form \in {"plain", "dot"} /\ h = e.name
    \/ /\ e.form \in {"plain", "star"}
       /\ \E n \in 1..Len(h) : SubSeq(h, n + 1, Len(h)) = e.name

(* proxy_should_bypass, proxy_get_no_proxy_list *)
Bypassed(h) == \E e \in IF envList # None THEN envList ELSE configList : Matches(h, e)

(* proxy_resolve_for_target *)
Resolved(override) ==
    LET chosen == IF override # Direct THEN override
                  ELSE IF env # Direct THEN env
                  ELSE config
    IN IF Bypassed(host) THEN Direct ELSE chosen

(* Mutant: what is chosen now is kept. *)
AppliedAnew(override) == Resolved(override)

(* apply_proxy_to_state *)
Applied(override) ==
    IF override # Direct THEN Resolved(override)
    ELSE IF saved = Direct THEN Resolved(Direct)
    ELSE saved

Ran(override) == /\ saved' = Applied(override)
                 /\ used' = Append(used, Applied(override))

(* run_transient_download_ex *)
Add == /\ used = <<>>
       /\ \E override \in Choice : given' = override /\ Ran(override)
       /\ UNCHANGED <<host, env, envList, config, configList, changes>>

(* run_download_for_item_id, for a retry, a resume or a start of the program *)
RunAgain == /\ used # <<>> /\ Len(used) < MaxChanges + 2
            /\ Ran(Direct)
            /\ UNCHANGED <<host, env, envList, config, configList, given, changes>>

Change == changes < MaxChanges /\ changes' = changes + 1

Configure == /\ Change
             /\ \/ config' \in Choice /\ UNCHANGED configList
                \/ configList' \in Lists \cup {None} /\ UNCHANGED config
             /\ UNCHANGED <<host, env, envList, given, saved, used>>

StartAgain == /\ Change
              /\ env' \in Choice /\ envList' \in Lists \cup {None}
              /\ UNCHANGED <<host, config, configList, given, saved, used>>

Next == Add \/ RunAgain \/ Configure \/ StartAgain

(* The types of the variables. *)
TypeOK == /\ host \in Hosts
          /\ {env, config, given, saved} \subseteq Choice
          /\ used \in Seq(Choice) /\ changes \in 0..MaxChanges

(* A download keeps to the proxy it was added with in every later run, and one
   that was added with none keeps to the first it got, whatever becomes of the
   environment and the configuration; so two runs never use different proxies
   (apply_proxy_to_state). *)
OneProxyForAll ==
    /\ \A i, j \in DOMAIN used : used[i] # Direct /\ used[j] # Direct => used[i] = used[j]
    /\ given # Direct /\ used # <<>> /\ used[1] # Direct => \A i \in DOMAIN used : used[i] = given

(* The inductive invariant: a run was direct or through the proxy that is
   saved, and all were through it if the first one was. *)
IInv ==
    /\ TypeOK
    /\ \A i \in DOMAIN used : used[i] \in {Direct, saved}
    /\ used # <<>> /\ used[1] # Direct =>
          /\ \A i \in DOMAIN used : used[i] = saved
          /\ given # Direct => saved = given
=============================================================================
