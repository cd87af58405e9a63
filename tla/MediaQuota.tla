------------------------------ MODULE MediaQuota ------------------------------
(***************************************************************************)
(* What the controller promises about media capacity, without its queues,  *)
(* flags and generations: a call opens ports at a worker only under a      *)
(* grant of that worker, grants never exceed the global limit nor the      *)
(* limit of a worker, and a grant is given back only once the ports of its *)
(* call are closed or belong to a process that is no longer in service.    *)
(***************************************************************************)
EXTENDS Integers, FiniteSets

CONSTANTS Calls, Workers, MaxCalls, MaxActive

VARIABLES
    granted,  \* pairs <<call, worker>>: calls that count against a worker
    open      \* pairs <<call, worker>>: ports open in a process in service

quotaSpecVars == <<granted, open>>

GrantedTo(w) == {g \in granted : g[2] = w}

QuotaInit == granted = {} /\ open = {}

Grant(c, w) ==
    /\ \A g \in granted : g[1] # c
    /\ Cardinality(granted) < MaxActive
    /\ Cardinality(GrantedTo(w)) < MaxCalls
    /\ granted' = granted \cup {<<c, w>>}
    /\ UNCHANGED open

OpenPorts(c, w) ==
    /\ <<c, w>> \in granted
    /\ open' = open \cup {<<c, w>>}
    /\ UNCHANGED granted

(* A release, or a process taken out of service with all its ports.        *)
ClosePorts(S) ==
    /\ open' = open \ S
    /\ UNCHANGED granted

(* One call, or all the calls of a failed process, at once.                *)
GiveBack(S) ==
    /\ granted' = granted \ S
    /\ UNCHANGED open

QuotaNext ==
    \/ \E c \in Calls, w \in Workers : Grant(c, w) \/ OpenPorts(c, w)
    \/ \E S \in SUBSET open : ClosePorts(S)
    \/ \E S \in SUBSET (granted \ open) : GiveBack(S)

QuotaSpec == QuotaInit /\ [][QuotaNext]_quotaSpecVars
=============================================================================
