-------------------------------- MODULE Tree --------------------------------
(***************************************************************************)
(* store/tree/tree.go: one subtree shared by several goroutines.           *)
(*                                                                         *)
(* Put and Count hold the mutex from their first to their last statement   *)
(* and are one step each.  Keys copies the key list under the mutex and    *)
(* then calls Count once per key, so other calls come in between.  KeyMatch*)
(* walks the red-black tree with an iterator WITHOUT the mutex: every move *)
(* of the iterator is a step, and once another goroutine has relinked      *)
(* nodes under it (`torn') its moves are data races.                       *)
(***************************************************************************)
EXTENDS TreeOps

CONSTANTS Thread,   \* goroutines
          Pattern,  \* the patterns callers match, each the set of keys it matches
          MaxNow,   \* bound on the clock
          MaxPuts   \* bound on the number of Puts

ASSUME PatternAssumption == Pattern \subseteq SUBSET Key
ASSUME BoundAssumption == MaxNow \in Nat /\ MaxPuts \in Nat

VARIABLES now,       \* time.Now().Unix()
          nextId,    \* rank of the next Put
          nodes,     \* keys that have a node in Tree.tree
          dates,     \* the list at each node
          keyCount,  \* what the last Tree.Count of each goroutine returned
          frame,     \* the locals of each goroutine's Keys or KeyMatch call
          torn,      \* the goroutines whose iterator had nodes relinked under it
          crashed    \* the process has panicked

vars == <<now, nextId, nodes, dates, keyCount, frame, torn, crashed>>

Live(lists, time) == [k \in Key |-> removeExpired(lists[k], time)]

(* base and baseId are history: the unexpired entries and nextId when the  *)
(* call began.                                                             *)
Frame == [pc : {"idle", "keys", "first", "loop", "count"},
          todo : SUBSET Key,    \* Keys: the keys of keysI still to be counted
          outKeys : SUBSET Key, \* Keys: result so far
          outCount : Nat,       \* Keys: sum so far
          match : SUBSET Key,   \* KeyMatch: the keys the pattern matches
          at : SUBSET Key,      \* KeyMatch: the iterator's node; {} before and after all
          cur : SUBSET Key,     \* KeyMatch: the matching key read before the last move
          out : SUBSET Key,     \* KeyMatch: result so far
          base : [Key -> SUBSET Entry],
          baseId : Nat]

NewFrame(pc, lists, id) ==
    [pc |-> pc, todo |-> {}, outKeys |-> {}, outCount |-> 0, match |-> {},
     at |-> {}, cur |-> {}, out |-> {}, base |-> lists, baseId |-> id]

IdleFrame == NewFrame("idle", NoDates, 0)

Init ==
    /\ now = 0 /\ nextId = 0
    /\ nodes = {} /\ dates = NoDates
    /\ keyCount = [t \in Thread |-> 0]
    /\ frame = [t \in Thread |-> IdleFrame]
    /\ torn = {} /\ crashed = FALSE

InKeyMatch(t) == frame[t].pc \in {"first", "loop", "count"}

(* Iterators of the other goroutines are torn when t relinks nodes.        *)
Tear(t, relinks) ==
    torn' = IF relinks THEN torn \cup {u \in Thread \ {t} : InKeyMatch(u)} ELSE torn

(* The effect of Tree.Count(k) called by t, shared by its three callers.   *)
DoCount(t, k) ==
    /\ nodes' = CountNodes(nodes, dates, k)
    /\ dates' = CountDates(dates, k, now)
    /\ keyCount' = [keyCount EXCEPT ![t] = CountResult(dates, k, now)]
    /\ Tear(t, CountRelinks(nodes, dates, k))
    /\ UNCHANGED <<now, nextId, crashed>>

-----------------------------------------------------------------------------
(* Tree.Put with `secs' as the time of the new entry.                      *)
PutAt(t, k, secs) ==
    /\ frame[t].pc = "idle"
    /\ nextId < MaxPuts
    /\ secs <= MaxNow
    /\ now' = IF secs > now THEN secs ELSE now
    /\ nextId' = nextId + 1
    /\ nodes' = PutNodes(nodes, dates, k)
    /\ dates' = PutDates(dates, k, now, [id |-> nextId, exp |-> secs + TTL])
    /\ Tear(t, PutRelinks(nodes, dates, k))
    /\ UNCHANGED <<keyCount, frame, crashed>>

(* The clock is read twice, by removeExpired and then for the new entry,   *)
(* and the second may turn in between.  (The mutant reads it before it     *)
(* waits for the mutex.)                                                   *)
PutStaleClock(t, k) == \E secs \in 0..now : PutAt(t, k, secs)
Put(t, k) == \E secs \in {now, now + 1} : PutAt(t, k, secs)

Count(t, k) ==
    /\ frame[t].pc = "idle"
    /\ DoCount(t, k)
    /\ frame' = frame

(* Keys and KeyMatch return.                                               *)
Return(t) ==
    /\ frame' = [frame EXCEPT ![t] = IdleFrame]
    /\ torn' = torn \ {t}
    /\ UNCHANGED <<now, nextId, nodes, dates, keyCount, crashed>>

(* Tree.Keys: the locked copy of the key list ...                          *)
KeysList(t) ==
    /\ frame[t].pc = "idle"
    /\ frame' = [frame EXCEPT ![t] =
         [NewFrame("keys", Live(dates, now), nextId) EXCEPT !.todo = nodes]]
    /\ UNCHANGED <<now, nextId, nodes, dates, keyCount, torn, crashed>>

(* ... one Count per key, in key order ...                                 *)
KeysCount(t) == \E k \in Least(frame[t].todo) :
    LET c == CountResult(dates, k, now)
        f == frame[t]
    IN
    /\ f.pc = "keys"
    /\ DoCount(t, k)
    /\ frame' = [frame EXCEPT ![t] =
         [f EXCEPT !.todo = f.todo \ {k},
                   !.outCount = AddUp(f.outCount, c),
                   !.outKeys = IF KeyCounts(c) THEN f.outKeys \cup {k} ELSE f.outKeys]]

(* ... and the return.                                                     *)
KeysReturn(t) == frame[t].pc = "keys" /\ frame[t].todo = {} /\ Return(t)

-----------------------------------------------------------------------------
(* Tree.KeyMatch with a pattern that compiles and matches the keys in p.   *)
(* (One that does not compile returns the error text and touches nothing.) *)
KeyMatchCall(t, p) ==
    /\ frame[t].pc = "idle"
    /\ frame' = [frame EXCEPT ![t] =
         [NewFrame("first", Live(dates, now), nextId) EXCEPT !.match = p]]
    /\ UNCHANGED <<now, nextId, nodes, dates, keyCount, torn, crashed>>

(* Where iterator.Next may leave the iterator: the proper node if nobody   *)
(* relinked nodes under it, otherwise any node or the end.                 *)
NextNodes(t, proper) ==
    IF t \in torn THEN {{}} \cup {{k} : k \in nodes} ELSE {proper}

(* The first iterator.Next.                                                *)
KeyMatchFirst(t) == \E n \in NextNodes(t, Least(nodes)) :
    /\ frame[t].pc = "first"
    /\ frame' = [frame EXCEPT ![t] = [frame[t] EXCEPT !.pc = "loop", !.at = n]]
    /\ UNCHANGED <<now, nextId, nodes, dates, keyCount, torn, crashed>>

(* The loop body up to MatchString: read the key, move on.  A removal may  *)
(* have moved another key into the iterator's node.                        *)
KeyMatchStep(t) ==
    /\ frame[t].pc = "loop" /\ frame[t].at # {}
    /\ \E k \in (IF t \in torn THEN frame[t].at \cup nodes ELSE frame[t].at) :
       \E n \in NextNodes(t, Successor(nodes, k)) :
         frame' = [frame EXCEPT ![t] =
           [frame[t] EXCEPT !.at = n,
                            !.pc = IF k \in frame[t].match THEN "count" ELSE "loop",
                            !.cur = IF k \in frame[t].match THEN {k} ELSE {}]]
    /\ UNCHANGED <<now, nextId, nodes, dates, keyCount, torn, crashed>>

(* The Count of a matching key.                                            *)
KeyMatchCount(t) == \E k \in frame[t].cur :
    LET f == frame[t] IN
    /\ f.pc = "count"
    /\ DoCount(t, k)
    /\ frame' = [frame EXCEPT ![t] =
         [f EXCEPT !.pc = "loop",
                   !.cur = {},
                   !.out = IF CountResult(dates, k, now) > 0 THEN f.out \cup {k} ELSE f.out]]

KeyMatchReturn(t) == frame[t].pc = "loop" /\ frame[t].at = {} /\ Return(t)

(* A torn move may also follow a link that has just become nil.  A panic   *)
(* in a goroutine without a recover ends the process.                      *)
KeyMatchPanic(t) ==
    /\ frame[t].pc \in {"first", "loop"}
    /\ t \in torn
    /\ crashed' = TRUE
    /\ UNCHANGED <<now, nextId, nodes, dates, keyCount, frame, torn>>

Tick ==
    /\ now < MaxNow
    /\ now' = now + 1
    /\ UNCHANGED <<nextId, nodes, dates, keyCount, frame, torn, crashed>>

Keys(t) == KeysList(t) \/ KeysCount(t) \/ KeysReturn(t)

KeyMatch(t) ==
    \/ \E p \in Pattern : KeyMatchCall(t, p)
    \/ KeyMatchFirst(t) \/ KeyMatchStep(t) \/ KeyMatchCount(t)
    \/ KeyMatchReturn(t) \/ KeyMatchPanic(t)

Next ==
    /\ ~crashed
    /\ \/ Tick
       \/ \E t \in Thread :
            \/ \E k \in Key : Put(t, k) \/ Count(t, k)
            \/ Keys(t)
            \/ KeyMatch(t)

Spec == Init /\ [][Next]_vars

-----------------------------------------------------------------------------
TypeOK ==
    /\ now \in Nat /\ nextId \in Nat
    /\ nodes \subseteq Key
    /\ dates \in [Key -> SUBSET Entry]
    /\ keyCount \in [Thread -> Nat]
    /\ frame \in [Thread -> Frame]
    /\ torn \subseteq Thread
    /\ crashed \in BOOLEAN

(* Expired entries form a prefix of every list, whatever goroutines do and *)
(* wherever the second turns: the fact that the TODO in removeExpired      *)
(* (tree.go, "these are already sorted, so we can discard earlier          *)
(* entries") would rely on.                                                *)
ExpiredFirst ==
    \A k \in Key : \A d, e \in dates[k] :
        d.id < e.id /\ ~(e.exp > now) => ~(d.exp > now)

(* Keys is not atomic, but it never misses a key that had an unexpired     *)
(* entry when the call began and still has that entry now.                 *)
KeysComplete ==
    \A t \in Thread : frame[t].pc = "keys" =>
        \A k \in Key \ frame[t].todo :
            removeExpired(frame[t].base[k], now) # {} => k \in frame[t].outKeys

AllOf(lists) == UNION {lists[k] : k \in Key}

(* The sum that Keys returns lies between the entries that were unexpired  *)
(* during the whole call and those that were unexpired at some point of it.*)
KeysSumBounds ==
    \A t \in Thread : frame[t].pc = "keys" /\ frame[t].todo = {} =>
        /\ Cardinality(AllOf(Live(frame[t].base, now))) <= frame[t].outCount
        /\ frame[t].outCount <=
             Cardinality(AllOf(frame[t].base)) + nextId - frame[t].baseId

KeyMatchDone(t) == frame[t].pc = "loop" /\ frame[t].at = {}

MatchesFound(t) ==
    \A k \in frame[t].match :
        removeExpired(frame[t].base[k], now) # {} => k \in frame[t].out

(* KeyMatch misses no matching key that was unexpired from the call to the *)
(* return, provided no other goroutine relinked nodes meanwhile: its own   *)
(* Counts, which may remove nodes behind the iterator, do no harm.         *)
KeyMatchComplete ==
    \A t \in Thread \ torn : KeyMatchDone(t) => MatchesFound(t)

Counter == INSTANCE ExpiringCounter WITH live <- Live(dates, now)

(* Lazy expiry is invisible: whatever is still stored, every Count returns *)
(* exactly the number of unexpired Puts of its key, through every          *)
(* interleaving of Put, Count, Keys and KeyMatch.                          *)
ImplementsCounter == Counter!Spec
=============================================================================
