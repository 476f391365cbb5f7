----------------------------- MODULE ServerPool -----------------------------
(***************************************************************************)
(* client/serverpool/serverpool.go: which servers a UDP request may go to. *)
(*                                                                         *)
(* Rounds of health checks, one server after the other, are made by Listen *)
(* itself and then by loopHealthcheck; requests choose among the servers   *)
(* that passed the last complete round.  A check is a request of the       *)
(* client's (module Client): it returns without an error if the server     *)
(* answers in time, with one if it does not, and not at all if the reply   *)
(* comes after the time-out and before the sweeper.                        *)
(***************************************************************************)
EXTENDS Naturals

CONSTANTS NumServers, \* len(p.servers)
          NoServer,   \* the nil that Choose returns
          MayHang     \* a check may not return

ASSUME ServerPoolAssumption ==
    NumServers \in Nat \ {0} /\ MayHang \in BOOLEAN /\ NoServer \notin 1 .. NumServers

servers == 1 .. NumServers

VARIABLES
    up,       \* external: the servers that answer in time
    pc,       \* the goroutine that makes the rounds
    at,       \* the server to be checked next
    passed,   \* the healthy servers of the round under way
    healthy,  \* Pool.healthy; Pool.unhealthy is never read
    disposed, \* Pool.disposed
    chosen,   \* what Choose returned last
    first,    \* the round is the one Listen makes
    still,    \* history: servers that did not change since the round began
    steady    \* history: servers that did not change since the last complete round began

vars == <<up, pc, at, passed, healthy, disposed, chosen, first, still, steady>>

(* NewPool.                                                                *)
Init ==
    /\ up \in SUBSET servers
    /\ pc = "new" /\ at = 1 /\ passed = {} /\ healthy = {}
    /\ disposed = FALSE /\ chosen = NoServer /\ first = TRUE
    /\ still = {} /\ steady = {}

BeginRound ==
    /\ pc' = "check" /\ at' = 1 /\ passed' = {} /\ still' = servers
    /\ UNCHANGED <<up, healthy, disposed, chosen, steady>>

Listen == pc = "new" /\ BeginRound /\ first' = first

InListOffByOne(i) == i <= NumServers + 1
InList(i) == i <= NumServers

(* healthcheck: the next server passes, fails ...                          *)
VerdictOld(s) == s \in up \cup healthy
Verdict(s) == s \in up

Check ==
    /\ pc = "check" /\ InList(at)
    /\ passed' = IF Verdict(at) THEN passed \cup {at} ELSE passed
    /\ at' = at + 1
    /\ UNCHANGED <<up, pc, healthy, disposed, chosen, first, still, steady>>

(* ... or does not return.                                                 *)
CheckHangs ==
    /\ MayHang /\ pc = "check" /\ InList(at)
    /\ pc' = "hung"
    /\ UNCHANGED <<up, at, passed, healthy, disposed, chosen, first, still, steady>>

(* The lists are replaced under the lock.  Listen then starts the loop,    *)
(* which begins at once; the loop sleeps.                                  *)
PublishedBoth == passed \cup healthy
Published == passed

Publish ==
    /\ pc = "check" /\ ~InList(at)
    /\ healthy' = Published
    /\ steady' = still
    /\ pc' = IF first THEN "loop" ELSE "sleep"
    /\ first' = FALSE
    /\ UNCHANGED <<up, at, passed, disposed, chosen, still>>

(* time.Sleep, for 6 seconds or 1.                                         *)
Wake ==
    /\ pc = "sleep"
    /\ pc' = "loop"
    /\ UNCHANGED <<up, at, passed, healthy, disposed, chosen, first, still, steady>>

(* loopHealthcheck begins with a look at disposed.                         *)
LoopUnchecked == pc = "loop" /\ BeginRound /\ first' = first
Loop == pc = "loop" /\ ~disposed /\ BeginRound /\ first' = first

LoopEnds ==
    /\ pc = "loop" /\ disposed
    /\ pc' = "exit"
    /\ UNCHANGED <<up, at, passed, healthy, disposed, chosen, first, still, steady>>

Choose ==
    /\ IF healthy = {} THEN chosen' = NoServer ELSE chosen' \in healthy
    /\ UNCHANGED <<up, pc, at, passed, healthy, disposed, first, still, steady>>

Dispose ==
    /\ ~disposed
    /\ disposed' = TRUE
    /\ UNCHANGED <<up, pc, at, passed, healthy, chosen, first, still, steady>>

(* External: a server stops answering in time, or does so again.           *)
Change(s) ==
    /\ up' = IF s \in up THEN up \ {s} ELSE up \cup {s}
    /\ still' = still \ {s} /\ steady' = steady \ {s}
    /\ UNCHANGED <<pc, at, passed, healthy, disposed, chosen, first>>

Rounds == Check \/ Publish \/ Wake \/ Loop \/ LoopEnds

Next ==
    \/ Rounds \/ CheckHangs \/ Listen \/ Choose \/ Dispose
    \/ \E s \in servers : Change(s)

Spec == Init /\ [][Next]_vars

(* Checks that return do so in a bounded time, and the loop goes on.       *)
FairSpec == Spec /\ WF_vars(Rounds)

-----------------------------------------------------------------------------
(* Every variable has its type.                                            *)
TypeOK ==
    /\ up \subseteq servers /\ passed \subseteq servers /\ healthy \subseteq servers
    /\ still \subseteq servers /\ steady \subseteq servers
    /\ pc \in {"new", "check", "sleep", "loop", "hung", "exit"}
    /\ at \in 1 .. NumServers + 1
    /\ disposed \in BOOLEAN /\ first \in BOOLEAN
    /\ chosen \in servers \cup {NoServer}

(* The list is as old as the last complete round, no older: a server that  *)
(* has not changed since that round began is listed exactly if it answers, *)
(* whatever later rounds are doing, hanging included.                      *)
ListFresh == \A s \in steady : s \in healthy <=> s \in up

(* A server that answers from some time on is listed from some time on,    *)
(* one that no longer does is not, unless the pool is disposed of or a     *)
(* check hangs, which freezes the list; provided Listen was called.        *)
Converges ==
    \A s \in servers :
        \/ []<>(pc \in {"new", "hung"} \/ disposed)
        \/ /\ <>[](s \in up) => <>[](s \in healthy)
           /\ <>[](s \notin up) => <>[](s \notin healthy)

(* After Dispose the loop ends, in the middle of whatever it is, unless a  *)
(* check hangs or the pool never listened.                                 *)
DisposeStops == disposed ~> pc \in {"exit", "hung", "new"}
=============================================================================
