-------------------------------- MODULE Store --------------------------------
(***************************************************************************)
(* store/store.go: the map from namespaces to subtrees, the operations the *)
(* server's workers call on it concurrently, and the cleanup runs that     *)
(* remove empty namespaces.                                                *)
(*                                                                         *)
(* The store's mutex is held only around single accesses to the map, and a *)
(* subtree's mutex only inside Tree.Put and Tree.Count.  A step here is one*)
(* such critical section with the local statements up to the next one, so  *)
(* that everything the code leaves unprotected between two of them can be  *)
(* interleaved with the steps of other goroutines.                         *)
(***************************************************************************)
EXTENDS TreeOps

CONSTANTS Ns,        \* namespaces
          Proc,      \* goroutines: workers, callers, timer functions
          TreeId,    \* addresses of subtrees
          Ops,       \* the operations callers use in an instance
          MaxNow,    \* bound on the clock
          MaxPuts,   \* bound on the calls of Put
          MaxLists   \* bound on the calls of Namespaces

NoTree == -1
AllOps == {"put", "count", "countEntries", "countServer", "keyMatch",
           "namespaces", "timer", "toggle"}

ASSUME StoreAssumption ==
    /\ TreeId \subseteq Nat /\ IsFiniteSet(TreeId)
    /\ Ns # {} /\ IsFiniteSet(Ns) /\ Key # {}
    /\ Ops \subseteq AllOps
    /\ MaxNow \in Nat /\ MaxPuts \in Nat /\ MaxLists \in Nat

VARIABLES
    now,         \* time.Now().Unix()
    nextId,      \* rank of the next completed Tree.Put
    calls,       \* calls of Put so far
    namespaces,  \* Store.namespaces
    used,        \* the subtrees NewTree has made
    nodes,       \* of each subtree: the keys with a node
    dates,       \* of each subtree: the list at each key
    lastGCd,     \* Store.lastGCdNamespaces
    enabled,     \* Store.cleanupServiceEnabled
    timers,      \* pending time.AfterFunc timers of runCleanup
    lists,       \* history: calls of Namespaces that ran a cleanup
    stopped,     \* history: DisableCleanup was called
    frame        \* the locals of each goroutine's call

mapVars  == <<namespaces, used>>
treeVars == <<nodes, dates>>
gcVars   == <<lastGCd, enabled, timers, lists, stopped>>
vars == <<now, nextId, calls, namespaces, used, nodes, dates, lastGCd, enabled,
          timers, lists, stopped, frame>>

Tree == TreeId \cup {NoTree}

(* since and base are history: nextId, and the unexpired entries, when the *)
(* call last looked at the map as a whole.                                 *)
Frame == [pc : {"idle", "install", "put", "count", "list", "scan", "visit", "fetch", "drop"},
          op : AllOps \cup {"none", "cleanup"},
          ns : Ns, key : Key, tr : Tree,  \* current namespace, key and subtree
          todo : SUBSET Key,              \* Tree.Keys: the keys still to be counted
          hits : Nat,                     \* Tree.Keys: the keys found to have entries
          sum : Nat,                      \* the counts added up
          spaces : SUBSET Ns,             \* the namespaces still to be visited
          subtrees : [Ns -> Tree],        \* runCleanup: nsSubtrees
          crawled : SUBSET Ns,            \* runCleanup: crawledKeys
          since : Nat, base : SUBSET Entry]

NoSubtrees == [n \in Ns |-> NoTree]

IdleFrame ==
    [pc |-> "idle", op |-> "none", ns |-> CHOOSE n \in Ns : TRUE,
     key |-> CHOOSE k \in Key : TRUE, tr |-> NoTree, todo |-> {}, hits |-> 0, sum |-> 0,
     spaces |-> {}, subtrees |-> NoSubtrees, crawled |-> {}, since |-> 0, base |-> {}]

(* NewStore schedules the first cleanup at once, in a goroutine of its own.*)
Init ==
    /\ now = 0 /\ nextId = 0 /\ calls = 0
    /\ namespaces = NoSubtrees /\ used = {}
    /\ nodes = [t \in TreeId |-> {}]
    /\ dates = [t \in TreeId |-> NoDates]
    /\ lastGCd = {} /\ enabled = TRUE /\ timers = 1
    /\ lists = 0 /\ stopped = FALSE
    /\ frame = [p \in Proc |-> IdleFrame]

FoundNever(n) == FALSE
Found(n) == namespaces[n] # NoTree

Installed == {n \in Ns : namespaces[n] # NoTree}

(* What Count and its relatives can find through the map: the entries of   *)
(* the subtree installed at n.                                             *)
Reachable(n) ==
    IF namespaces[n] = NoTree THEN {} ELSE UNION {dates[namespaces[n]][k] : k \in Key}

ReachableLive == UNION {removeExpired(Reachable(n), now) : n \in Ns}

Begins(p, o) == frame[p].pc = "idle" /\ o \in Ops

(* Back to the caller: the call's locals are gone.                         *)
Return(p) == frame' = [frame EXCEPT ![p] = IdleFrame]

-----------------------------------------------------------------------------
(* Store.Put: look the namespace up ...                                    *)
PutLookup(p, n, k) ==
    /\ Begins(p, "put")
    /\ calls < MaxPuts
    /\ calls' = calls + 1
    /\ frame' = [frame EXCEPT ![p] =
         [IdleFrame EXCEPT !.pc = IF Found(n) THEN "put" ELSE "install", !.op = "put",
                           !.ns = n, !.key = k, !.tr = namespaces[n], !.since = nextId]]
    /\ UNCHANGED <<now, nextId, mapVars, treeVars, gcVars>>

(* ... install a new subtree if it was not found, whatever is there now ...*)
PutInstall(p) ==
    /\ frame[p].pc = "install"
    /\ \E t \in Least(TreeId \ used) :
         /\ used' = used \cup {t}
         /\ namespaces' = [namespaces EXCEPT ![frame[p].ns] = t]
         /\ frame' = [frame EXCEPT ![p] = [@ EXCEPT !.pc = "put", !.tr = t]]
    /\ UNCHANGED <<now, nextId, calls, treeVars, gcVars>>

(* ... and Tree.Put, after which the caller has its acknowledgement.       *)
PutTree(p) == \E secs \in {now, now + 1} :
    LET f == frame[p] IN
    /\ f.pc = "put"
    /\ secs <= MaxNow
    /\ now' = secs
    /\ nextId' = nextId + 1
    /\ nodes' = [nodes EXCEPT ![f.tr] = PutNodes(@, dates[f.tr], f.key)]
    /\ dates' = [dates EXCEPT ![f.tr] =
                   PutDates(@, f.key, now, [id |-> nextId, exp |-> secs + TTL])]
    /\ Return(p)
    /\ UNCHANGED <<calls, mapVars, gcVars>>

-----------------------------------------------------------------------------
(* Tree.Count(k) on subtree t.                                             *)
DoCount(t, k) ==
    /\ nodes' = [nodes EXCEPT ![t] = CountNodes(@, dates[t], k)]
    /\ dates' = [dates EXCEPT ![t] = CountDates(@, k, now)]
    /\ UNCHANGED <<now, nextId, calls, mapVars, gcVars>>

Local == UNCHANGED <<now, nextId, calls, mapVars, treeVars, gcVars>>

(* The map access that begins Count, CountEntries and KeyMatch; a          *)
(* namespace that does not exist answers at once and changes nothing.      *)
Lookup(p, o, n, k) ==
    /\ Begins(p, o)
    /\ Found(n)
    /\ frame' = [frame EXCEPT ![p] =
         [IdleFrame EXCEPT !.pc = IF o = "count" THEN "count" ELSE "list",
                           !.op = o, !.ns = n, !.key = k, !.tr = namespaces[n]]]
    /\ Local

CountLookup(p, n, k) == Lookup(p, "count", n, k)
CountEntriesLookup(p, n) == Lookup(p, "countEntries", n, IdleFrame.key)
KeyMatchLookup(p, n) == Lookup(p, "keyMatch", n, IdleFrame.key)

(* Store.Count's Tree.Count.                                               *)
CountTree(p) ==
    /\ frame[p].pc = "count"
    /\ DoCount(frame[p].tr, frame[p].key)
    /\ Return(p)

(* CountServerEntries lists the namespaces ...                             *)
CountServerList(p) ==
    /\ Begins(p, "countServer")
    /\ frame' = [frame EXCEPT ![p] =
         [IdleFrame EXCEPT !.pc = "visit", !.op = "countServer", !.spaces = Installed,
                           !.since = nextId, !.base = ReachableLive]]
    /\ Local

(* ... and calls CountEntries for each, which looks it up again.           *)
CountServerVisit(p) == \E n \in frame[p].spaces :
    /\ frame[p].pc = "visit" /\ frame[p].op = "countServer"
    /\ frame' = [frame EXCEPT ![p] =
         [frame[p] EXCEPT !.pc = IF Found(n) THEN "list" ELSE "visit",
                          !.spaces = frame[p].spaces \ {n}, !.ns = n, !.tr = namespaces[n]]]
    /\ Local

CountServerReturn(p) ==
    /\ frame[p].pc = "visit" /\ frame[p].op = "countServer"
    /\ frame[p].spaces = {}
    /\ Return(p)
    /\ Local

(* Tree.Keys and Tree.KeyMatch on the current subtree: the list of keys is *)
(* taken, then each is counted under the subtree's mutex.  KeyMatch counts *)
(* the keys its pattern matches and its iterator meets, which may include  *)
(* keys put meanwhile: any keys (module Tree has the iterator).            *)
ScanList(p) ==
    /\ frame[p].pc = "list"
    /\ \E ks \in SUBSET Key :
         /\ frame[p].op # "keyMatch" => ks = nodes[frame[p].tr]
         /\ frame' = [frame EXCEPT ![p] = [@ EXCEPT !.pc = "scan", !.todo = ks]]
    /\ Local

ScanCount(p) == \E k \in Least(frame[p].todo) :
    LET f == frame[p]
        c == CountResult(dates[f.tr], k, now)
    IN
    /\ f.pc = "scan"
    /\ DoCount(f.tr, k)
    /\ frame' = [frame EXCEPT ![p] =
         [f EXCEPT !.todo = f.todo \ {k},
                   !.hits = IF KeyCounts(c) THEN f.hits + 1 ELSE f.hits,
                   !.sum = AddUp(f.sum, c)]]

(* CountEntries and KeyMatch return when the scan is over.                 *)
ScanReturn(p) ==
    /\ frame[p].pc = "scan" /\ frame[p].op \in {"countEntries", "keyMatch"}
    /\ frame[p].todo = {}
    /\ Return(p)
    /\ Local

(* CountServerEntries goes on to the next namespace.                       *)
ScanNext(p) ==
    /\ frame[p].pc = "scan" /\ frame[p].op = "countServer"
    /\ frame[p].todo = {}
    /\ frame' = [frame EXCEPT ![p] = [@ EXCEPT !.pc = "visit", !.hits = 0]]
    /\ Local

-----------------------------------------------------------------------------
maxNamespacesThird(n) == n \div 3
maxNamespaces(n) == n \div 2

(* runCleanup, entered from a timer or from Namespaces: unless cleanup is  *)
(* disabled, list the namespaces ...                                       *)
CleanupList(p) ==
    /\ enabled
    /\ frame' = [frame EXCEPT ![p] =
         [IdleFrame EXCEPT !.pc = "fetch", !.op = "cleanup", !.spaces = Installed]]
    /\ UNCHANGED <<now, nextId, calls, mapVars, treeVars, lastGCd, enabled, stopped>>

DueAlways == TRUE
Due == timers > 0

(* The timer function of a cleanup chain.                                  *)
TimerFires(p) ==
    /\ Begins(p, "timer")
    /\ Due
    /\ timers' = timers - 1
    /\ lists' = lists
    /\ CleanupList(p)

(* It finds cleanup disabled and returns before the deferred AfterFunc is  *)
(* set up: the chain ends.                                                 *)
TimerStops(p) ==
    /\ Begins(p, "timer")
    /\ Due
    /\ ~enabled
    /\ timers' = timers - 1
    /\ UNCHANGED <<now, nextId, calls, mapVars, treeVars, lastGCd, enabled, lists,
                   stopped, frame>>

(* Store.Namespaces runs a cleanup in the caller's goroutine (and answers  *)
(* with an empty list, changing nothing, while cleanup is disabled).       *)
Namespaces(p) ==
    /\ Begins(p, "namespaces")
    /\ lists < MaxLists
    /\ lists' = lists + 1
    /\ timers' = timers
    /\ CleanupList(p)

(* ... fetch the subtrees of the first half of them, the order being that  *)
(* of a Go map, passing over the ones crawled by the last run to finish .. *)
CleanupFetch(p) == \E chosen \in SUBSET frame[p].spaces :
    LET fetched == {n \in chosen \ lastGCd : Found(n)} IN
    /\ frame[p].pc = "fetch"
    /\ Cardinality(chosen) = maxNamespaces(Cardinality(frame[p].spaces))
    /\ frame' = [frame EXCEPT ![p] =
         [@ EXCEPT !.pc = "visit", !.spaces = fetched, !.since = nextId,
                   !.subtrees = [n \in Ns |-> IF n \in fetched THEN namespaces[n]
                                                             ELSE NoTree]]]
    /\ Local

(* ... take one of them and list its keys (the first part of Tree.Keys) ...*)
CleanupVisit(p) == \E n \in frame[p].spaces :
    LET t == frame[p].subtrees[n] IN
    /\ frame[p].pc = "visit" /\ frame[p].op = "cleanup"
    /\ frame' = [frame EXCEPT ![p] =
         [frame[p] EXCEPT !.pc = "scan", !.spaces = frame[p].spaces \ {n},
                          !.ns = n, !.tr = t, !.todo = nodes[t]]]
    /\ Local

NoneLeftBut(hits) == hits <= 1
NoneLeft(hits) == hits = 0

(* ... decide once all its keys are counted ...                            *)
CleanupScanned(p) ==
    LET f == frame[p]
        empty == NoneLeft(f.hits)
    IN
    /\ f.pc = "scan" /\ f.op = "cleanup" /\ f.todo = {}
    /\ frame' = [frame EXCEPT ![p] =
         [f EXCEPT !.pc = IF empty THEN "drop" ELSE "visit",
                   !.crawled = IF empty THEN f.crawled ELSE f.crawled \cup {f.ns},
                   !.hits = 0, !.sum = 0]]
    /\ Local

(* ... remove it from the map, whichever subtree is installed by now ...   *)
CleanupDrop(p) ==
    /\ frame[p].pc = "drop"
    /\ namespaces' = [namespaces EXCEPT ![frame[p].ns] = NoTree]
    /\ frame' = [frame EXCEPT ![p] = [@ EXCEPT !.pc = "visit"]]
    /\ UNCHANGED <<now, nextId, calls, used, treeVars, gcVars>>

(* The deferred AfterFunc schedules the next run in every case, also after *)
(* Namespaces.  (The mutant only does if nothing was left to be crawled.)  *)
RearmedIdle(p) == IF frame[p].crawled = {} THEN 1 ELSE 0
Rearmed(p) == 1

(* ... and at the end publish what was crawled, without the mutex.         *)
CleanupReturn(p) ==
    /\ frame[p].pc = "visit" /\ frame[p].op = "cleanup"
    /\ frame[p].spaces = {}
    /\ lastGCd' = frame[p].crawled
    /\ timers' = timers + Rearmed(p)
    /\ Return(p)
    /\ UNCHANGED <<now, nextId, calls, mapVars, treeVars, enabled, lists, stopped>>

EnableCleanup ==
    /\ "toggle" \in Ops
    /\ enabled' = TRUE
    /\ UNCHANGED <<now, nextId, calls, mapVars, treeVars, lastGCd, timers, lists,
                   stopped, frame>>

DisableCleanup ==
    /\ "toggle" \in Ops
    /\ enabled' = FALSE
    /\ stopped' = TRUE
    /\ UNCHANGED <<now, nextId, calls, mapVars, treeVars, lastGCd, timers, lists, frame>>

Tick ==
    /\ now < MaxNow
    /\ now' = now + 1
    /\ UNCHANGED <<nextId, calls, mapVars, treeVars, gcVars, frame>>

-----------------------------------------------------------------------------
Put(p) ==
    \/ \E n \in Ns, k \in Key : PutLookup(p, n, k)
    \/ PutInstall(p) \/ PutTree(p)

Count(p) ==
    \/ \E n \in Ns, k \in Key : CountLookup(p, n, k)
    \/ CountTree(p)

Scan(p) ==
    \/ \E n \in Ns : CountEntriesLookup(p, n) \/ KeyMatchLookup(p, n)
    \/ ScanList(p) \/ ScanCount(p) \/ ScanReturn(p) \/ ScanNext(p)

CountServerEntries(p) ==
    CountServerList(p) \/ CountServerVisit(p) \/ CountServerReturn(p)

runCleanup(p) ==
    \/ TimerFires(p) \/ TimerStops(p) \/ Namespaces(p)
    \/ CleanupFetch(p) \/ CleanupVisit(p) \/ CleanupScanned(p)
    \/ CleanupDrop(p) \/ CleanupReturn(p)

Next ==
    \/ Tick \/ EnableCleanup \/ DisableCleanup
    \/ \E p \in Proc :
         Put(p) \/ Count(p) \/ Scan(p) \/ CountServerEntries(p) \/ runCleanup(p)

Spec == Init /\ [][Next]_vars

-----------------------------------------------------------------------------
TypeOK ==
    /\ now \in Nat /\ nextId \in Nat /\ calls \in Nat
    /\ namespaces \in [Ns -> Tree] /\ used \subseteq TreeId
    /\ nodes \in [TreeId -> SUBSET Key]
    /\ dates \in [TreeId -> [Key -> SUBSET Entry]]
    /\ lastGCd \subseteq Ns
    /\ enabled \in BOOLEAN /\ stopped \in BOOLEAN
    /\ timers \in Nat /\ lists \in Nat
    /\ frame \in [Proc -> Frame]

(* An unexpired entry disappears from its namespace only when a goroutine  *)
(* p is about to overwrite or remove that namespace on the strength of a   *)
(* look at the map that is older than the entry.  In particular an entry   *)
(* is safe from every Put and every cleanup that began after it was made.  *)
LossOnlyConcurrent ==
    [][\A n \in Ns : \A e \in Reachable(n) :
          e.exp > now' /\ e \notin Reachable(n)' =>
             \E p \in Proc : /\ frame[p].pc \in {"install", "drop"}
                            /\ frame[p].ns = n
                            /\ e.id >= frame[p].since]_vars

(* Every acknowledged Put can be counted until it expires (server_test.go: *)
(* 364, "we just inserted to this namespace, so the response shouldn't     *)
(* ever be zero").  True when the operations, cleanup runs included, run   *)
(* one at a time; not when two Puts overlap.                               *)
AckedReachable ==
    \A t \in TreeId : \A k \in Key :
        removeExpired(dates[t][k], now) # {} => \E n \in Ns : namespaces[n] = t

(* CountServerEntries visits the namespaces one by one while others put,   *)
(* replace and remove them; still its sum lies between the entries that    *)
(* could be counted during the whole call and those that could at some     *)
(* point of it.                                                            *)
ServerSumBounds ==
    \A p \in Proc : LET f == frame[p] IN
        f.pc = "visit" /\ f.op = "countServer" /\ f.spaces = {} =>
            /\ Cardinality(f.base \cap ReachableLive) <= f.sum
            /\ f.sum <= Cardinality(f.base) + nextId - f.since

(* Until DisableCleanup is called the cleanup chain started by NewStore is *)
(* never lost, and every call of Namespaces adds another chain for good.   *)
ChainsAddUp ==
    ~stopped => timers + Cardinality({p \in Proc : frame[p].op = "cleanup"}) = 1 + lists

-----------------------------------------------------------------------------
(* Fairness: goroutines are scheduled, timers fire, the clock runs, and the*)
(* random order of the Go map does not leave a namespace out forever.      *)
Fetches(p, n) == CleanupFetch(p) /\ frame'[p].subtrees[n] # NoTree

Fairness ==
    /\ WF_vars(Tick)
    /\ \A p \in Proc :
        /\ WF_vars(PutInstall(p) \/ PutTree(p))
        /\ WF_vars(CleanupFetch(p) \/ CleanupVisit(p) \/ ScanCount(p) \/ CleanupScanned(p)
                     \/ CleanupDrop(p) \/ CleanupReturn(p))
        /\ SF_vars(TimerFires(p))
        /\ \A n \in Ns : SF_vars(Fetches(p, n))

FairSpec == Spec /\ Fairness

Dead == {n \in Installed : removeExpired(Reachable(n), now) = {}}

(* Once no more entries are put, the cleanup chain removes every namespace *)
(* that has no unexpired entry, until at most one namespace is left.       *)
DeadCollected == <>[](Dead = {} \/ Cardinality(Installed) <= 1)
=============================================================================
