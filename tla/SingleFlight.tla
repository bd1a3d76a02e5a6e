---------------------------- MODULE SingleFlight ----------------------------
(***************************************************************************)
(* What several background services promise: work on a key (an instance, a *)
(* torrent) is done by one job at a time.  A job begins only when no job   *)
(* is at work on its key, and a restart ends all work.  The services reach *)
(* this by different means (a map under a mutex, TryLock, a flag in a      *)
(* record); each one is shown to implement this specification.             *)
(***************************************************************************)
CONSTANTS Keys, Jobs

VARIABLE busy   \* the jobs at work on each key

Init == busy = [k \in Keys |-> {}]

Begin(k, j) ==
    /\ busy[k] = {}
    /\ busy' = [busy EXCEPT ![k] = {j}]

End(k) ==
    /\ busy[k] # {}
    /\ busy' = [busy EXCEPT ![k] = {}]

Restart == busy' = [k \in Keys |-> {}]

Next ==
    \/ Restart
    \/ \E k \in Keys : End(k) \/ \E j \in Jobs : Begin(k, j)

Spec == Init /\ [][Next]_busy
=============================================================================
