# A TLA+ verification of dracula

dracula is a small in-memory service: clients put keys into namespaces, every
entry expires a fixed number of seconds later, and clients ask how many
unexpired entries a key, a namespace or the server has. Most requests travel as
single UDP packets; servers may replicate Puts to peers.

This directory models the code as TLA+ modules, checks them with TLC on small
instances, and proves with TLAPS, for instances of every size, all of the safety
properties that TLC checks. `PROJECT.json` lists the runs, the source lines
each definition stands for, the faults (mutants) each property was seen to catch,
the hazards the properties are aimed at, the theorems, and the disagreement found.

## The system

| Component | State | Operations | Concurrency |
|---|---|---|---|
| `store/tree` | red-black tree key -> list of expiry times, mutex | `Put`, `Count`, `Keys`, `KeyMatch` | workers of the server share a subtree; `Keys` releases the mutex between keys; `KeyMatch` iterates without it |
| `store` | hash map namespace -> subtree, mutex, `lastGCdNamespaces`, cleanup flag, gauges | `Put`, `Count`, `CountEntries`, `CountServerEntries`, `KeyMatch`, `Namespaces`, `runCleanup`, `Enable/DisableCleanup` | every worker, plus timer goroutines of cleanup chains |
| `client/waitingmessage` | map message id -> callback and creation time, `disposed`, unbuffered channel | `Add`, `Pull`, `checkCleanup`, `Dispose` | callers, reader, sweeper |
| `client` (UDP) | id counter, socket, `disposed` | `Count`, `Put`, `Healthcheck`, `CountNamespace`, `CountServer`, `Close` | one goroutine per call, `handleResponsesForever`, `handleTimeouts` |
| `client` (TCP) | `sync.Pool` of connections, map of all of them | `KeyMatch`, `ListNamespaces`, `Close` | one reader goroutine per request, with a time-out, against the call's deferred functions |
| `client/serverpool` | healthy and unhealthy servers, `disposed` | `Listen`, health-check loop, `Choose`, `Dispose` | loop against callers |
| `server` | bounded channel of raw messages, workers, peers, the slice of the key | readers, `worker`, `republish`, `Close`, `Clear` | readers, workers and `Close` in one server; servers among each other |
| `server/rawmessage`, `protocol` | none | framing, packets, hashes | the slice of the key is shared by all goroutines |
| `server/restserver` | none of its own | HTTP front end of the store | handlers against workers |
| `cmd` | none | command line front ends | - |

How they interact: a server's worker parses a packet, calls one operation of the
store and answers; the store calls the subtree; the client registers a callback
in the cache, writes a packet, and is woken through that callback by the reply,
the sweeper or its own failed write; the pool calls the client's `Healthcheck`
and the client asks the pool for a server.

What is hard about it: mutexes are held around single accesses only, so most
operations are several critical sections; expiry is lazy, so what is stored and
what counts differ; cleanup acts on what it saw earlier; replies, time-outs,
failures and `Close` compete for the same callback.

What makes each part correct:

* subtree: Count is exact at every moment although expiry is lazy; Keys and
  KeyMatch miss nothing that was live throughout; lists stay sorted;
* store: an acknowledged entry stays reachable until it expires; cleanup removes
  only what is empty, and eventually all that is empty;
* cache and client: a callback is called exactly once, with the reply to its own
  request, and every request returns;
* TCP requests: a request is given its own reply although nothing in a reply says
  whose it is and a read may leave a part of it behind; no connection escapes Close; a request returns;
* server pool: the list is as fresh as the last round and follows the servers;
* server and replication: what was read is applied, once per server, and only with
  the right hash; an acknowledged Put is at the peers or can be accounted for; Close
  loses nothing that was read;
* framing and protocol: what is parsed is what was packed, or an error.

## Modules

| Module | Models |
|---|---|
| `TreeOps` | the data operations of `tree.go` as operators on one subtree: node set `N` and lists `D` |
| `ExpiringCounter` | abstract specification: what package `tree` promises its callers |
| `Tree` | `tree.go` with several goroutines; refines `ExpiringCounter` |
| `Store` | `store.go` on top of `TreeOps`: the map, all operations, cleanup chains |
| `Client` | the UDP half of `client.go` with `waitingmessage.go` |
| `TcpClient` | the TCP half of `client.go`: `_sendTCP`, its reader goroutine, the pool, `Close` |
| `ServerPool` | `serverpool.go` over the abstract outcome of a request of `Client` |
| `Server` | `server.go` and `restserver.go`: several servers, each with readers, channel and workers, replicating to each other |
| `Protocol` | `protocol.go` and `rawmessage.go` as operators on byte sequences |
| `Wire` | composition of `Protocol` with the senders and receivers in client and server: the way of one message |
| `MCTree`, `MCStore`, `MCClient`, `MCServer`, `MCTcpClient`, `MCServerPool`, `MCWire` | symmetry sets and constant values for TLC |
| `TreeProofs`, `StoreProofs`, `ClientProofs`, `TcpProofs`, `PoolProofs`, `WireProofs` | theorems about `Tree`, `Store`, `Client`, `TcpClient`, `ServerPool` and `Wire` |
| `ServerProofs`, `ReplicationProofs` | theorems about `Server`: types, and what becomes of Puts |

Definitions keep the names of the code. A definition named like another with a
suffix (`AddUpKeys` beside `AddUp`) is a mutant of it, used only to see that a
property notices that fault.

### Tree

A list of expiry times is the set of its entries `[id, exp]`: `exp` is the stored
`int64`, `id` the rank of the Put that appended it, so the set ordered by `id` is
the list. A node with an empty list (`k \in nodes`, `dates[k] = {}`) differs from
no node, as in the code, because `Count` writes the filtered list back even if it
is empty and only the next access removes the node (so one Keys does not yet
"cleanup every empty entry key", as a comment in `runCleanup` has it; it takes two).

`Put` and `Count` run under the mutex and are one step each; `Put` reads the clock
twice, so the new entry may be a second later than the expiry test. `Keys` is
`KeysList`, one `KeysCount` per key in key order, `KeysReturn`. `KeyMatch` is one
step per move of the iterator. The moves are unprotected: when another goroutine
relinks nodes while the iterator is under way (`Tear`), the iterator's later moves
are a data race and may lead to any node, to the end, or to a nil dereference.
Overwriting the value of an existing node does not relink. Patterns are the sets
of keys they match; a pattern that does not compile returns its error without
touching the tree, so it is not a step.

### Store

One step is one critical section together with the local statements up to the
next one. `Put` is `PutLookup`, `PutInstall` (if nothing was found) and `PutTree`;
the gap between them is the code's. Subtrees have addresses, so that an overwritten
or removed one, and a Put still holding it, are distinguishable from the current
one. `runCleanup` is `CleanupList` (entered from a timer or from `Namespaces`),
`CleanupFetch` (half of the listed namespaces in the map's random order, without
the ones in `lastGCd`), and for each fetched subtree `CleanupVisit`, `ScanCount`
per key, `CleanupScanned` and perhaps `CleanupDrop`; `CleanupReturn` publishes
`lastGCd` and performs the deferred `AfterFunc`. `timers` counts pending timers.
`Tree.Keys` appears as `ScanList` and `ScanCount`; `Tree.KeyMatch` counts an
arbitrary set of keys, its iterator (and the panics it may cause) being the subject of
`Tree`. A lookup
that finds no namespace, and `Namespaces` while cleanup is disabled, change
nothing and are not steps. The variables `lists`, `stopped` and the frame fields
`since`, `base` are history.

### Client

`waiting[i]` is the request whose callback is at id `i`, `age[i]` the seconds since
it was added, cut off one above the time-out, beyond which the code makes no
difference. `Begin` takes an id; `Refused`, `Add`, `AddExists`, `Write`,
`WriteFails`, `WriteUndo` are the paths of `sendOrCallbackErr` and `_sendUDP`;
`Return` is the end of `wg.Wait()`. `Deliver` is one turn of
`handleResponsesForever`; a packet may stay in `net` to arrive again and may never
arrive. `Sweep`, `SweepTake`, `HandOver`, `SendPanics`, `SweepEnd`, `SweepStops` are
`checkCleanup`, which keeps the mutex (`LockFree`) while it waits for the receiver
`handleTimeouts` (`TimeoutCall`, `TimeoutsEnd`). `Close` is four steps: the client's
flag, the cache's flag, the channel, the socket. `Answer` is external: the server
and the network, which promise nothing. A callback that runs a second time takes
its `WaitGroup` below zero, which is a panic (`crashed`). `Pull` and the call of what it
returned are one step in `Deliver` and `WriteUndo`, although the code calls after it has
unlocked: whoever took a callback out of the cache is the only one to have it, so the gap
is a delay for its request only. (With a stray reply and a failed write it decides which
of the two callers is the second one, and panics.)

### TcpClient

A request takes a connection from the pool (`Get`) or dials one (`DialOk`, `DialFails`,
or `GetPanics`: with no TCP server configured the pool's `New` returns a nil interface),
writes (`Write`, `WriteFails`) and waits on `resChan`. Its reader goroutine, `rdr[r]`,
is the loop `readOneMessage`: a look at the time-out (`LoopDone`, `LoopRead`), a read
in two parts, the first line (`ReadLine`) and on to the stop symbol or the end of the
connection (`ReadReply`), that may fail (`ReadFails`) or panic (`ReadPanics`), the send on the unbuffered channel (`HandOver`, `SendPanics`) and, after a
time-out, `conn = nil` (`Forget`). `Release` and `PutBack` are the deferred calls in their
order. `key` and `conn` are the two variables of the code that name the connection;
the second is shared between the goroutines. `pool` is a `sync.Pool`, which may drop what
it holds (`Evict`, external); `tracked` is the `sync.Map` that `Close` ranges over, one
key at a time and against requests that add and delete keys. The server (`Answer`,
`Break`, external) answers in order or ends the connection. `given` and `failed` are
history.

A reply is in the connection as one piece, or as two if it has the stop symbol in its
middle, which only a reply to a request in `Dotted` does: the keys of a list are joined by
line feeds, so it takes a key `.`. A read takes one piece; its `bufio.Reader`, which is
dropped, may have held some of the next ones, all or all but the last bytes (`stub`) of
the last of them. The rest stays in the connection, for whoever takes it from the pool.
`split` is history: the connections on which that was possible. A request that contains
the stop symbol itself may be answered twice by the server, with the same effect, and is
also in `Dotted`. Dialling and the entry in the map are one step: nobody else knows of the
connection before.

### ServerPool

`Check` is one health check with its verdict, `CheckHangs` one that does not return,
which is what `Client` shows of a reply that is late. `Publish` replaces the lists under
the lock. `up`, the servers that answer, changes at any moment (`Change`, external);
`still` and `steady` are history: the servers that did not change since the current and
since the last complete round began.

### Server

Each server has one UDP reader and one reader per accepted connection (`ReadUDP`,
`ReadTCP`, `Accept`, `HangUp` ...), which block on the bounded channel (`Enqueue`) or
panic when it is closed (`EnqueuePanics`); and workers, one more than the channel has
places, as `setupWorkers` starts them. A worker's message goes through `Receive`,
`ValidateHash` and `ValidateCheck` (`Packet.Validate`), `Act`, `Sign` and `Answer`
(`respond...`), and for a client's Put `Resign`, `ResignCopy` and one `Publish` per peer
(`republish`), given up at the first write that fails. Hashing is two steps because it
is not atomic: `HashPacket` appends to the slice of the key, and if that slice has spare
capacity (Go rounds the capacity of short converted strings up to 8) the message
id lands in an array that all workers of the server share, where another worker may
overwrite it before it is copied. `SpareKey` is that of a key of 1 to 4 bytes. A longer
key has no room for the id (5 to 7 bytes), or the hash, which is the first 8 bytes of key,
id, namespace and data, has nothing of the id in it (8 and more); both behave as
`SpareKey = FALSE`. A packet's `hash` is `r` if it is what the servers' key gives for the
packet of `r`, and `NoReq` if it is what that key gives for none. The model does not say
which key a client has: the code compares hashes, and a key that has its first 8 bytes in
common with the servers' makes the same ones.

`Peers` assumes a sane configuration: a server's own address is written in the list of
peers as it is given to the server itself (the code compares strings), and no peer is
listed twice (the code would send it two replicas).

`Close` is its four steps in order: the flag, the UDP socket, the TCP listener, the
channel. Connections are not among them. The store is the number of times each Put was
applied; module `Store` has the rest. `HttpPut` is `PutHandler`, which applies without
republishing. A packet that stays in `net` for ever is a lost one; duplication by the
network is not modelled, because nothing in the code would notice it and
`PutOncePerServer` would be false at once. A server in `Down` never runs: replicas to it
stay in the network. A server that refuses a replica answers with
an error packet, which its peer answers in turn; these packets are in the model and go
round without end. That they stop would therefore be false; what can be said is that they
do not become more, `OneErrorPerRefusal`, because a replica that is accepted is not
answered (`Silent`) and an error packet is answered by one.

### Protocol and Wire

Packets are byte sequences with the layout of the code and field sizes as parameters.
`HashPacket` hashes by what the code does: `hasher.Sum` appends the digest of nothing to
its argument, so the hash is the first bytes of key, id, namespace and data.
`ReadOneTcpMessage` is an operator on the bytes a connection carries before it ends:
`ReadBytes('\n')` returns at line ends, the first line is trimmed on its left, the loop
ends at the stop symbol or the end of the connection, and the length of the stop symbol
is cut off either way. `IsSpace` is `unicode.IsSpace` for single bytes; white space of two
or three bytes, which begins with one of `WideSpace`, is not modelled and is excluded where
it matters (`NoWideSpace`). `Wire` sends one message: `SendUDP`, `SendTCP`, perhaps `Cut`,
`ReadTCP`, `Parse`. Its replies to Count carry numbers, cut to the largest that fits:
`Uint32ToBytes` and `Uint32FromBytes` are recursive functions over the `IdSize` bytes of a
number, with 256 values each as in the code.

## Runs

Passing:

| Run | Instance | Shows |
|---|---|---|
| `tree_calls` | 2 goroutines, 2 keys, TTL 1, 2 Puts, clock to 3, a pattern matching both keys | `TypeOK`; `ImplementsCounter`: Tree refines ExpiringCounter; `ExpiredFirst`: expired entries are a prefix of each list; `KeysComplete`: Keys misses no key live throughout; `KeysSumBounds`: its sum lies between what was live throughout and what was live at some point; `KeyMatchComplete`: KeyMatch misses nothing while nobody else relinks nodes |
| `store_concurrent` | 2 goroutines, 2 namespaces, 2 keys, 2 Puts, cleanups, CountServerEntries | `TypeOK`; `LossOnlyConcurrent`: an unexpired entry is lost only to a Put or cleanup that looked at the map before the entry was made; `ServerSumBounds`: the same bounds as for Keys, over the namespaces |
| `store_sequential` | 1 goroutine, all operations, TTL 2 | `AckedReachable`: operations one at a time lose nothing |
| `store_collected` | fair, 2 goroutines, Puts stop after 2, one call of Namespaces | `ChainsAddUp`: cleanup chains are never lost, with cleanups that overlap; `DeadCollected`: eventually nothing dead remains, or one namespace does |
| `client_once` | 2 requests forced onto one id, all reply kinds, failing writes, Close, one restart | `TypeOK`; `AtMostOnce`: no callback runs twice unless its write failed; `PanicKnown`: the process panics on two known paths only; `CallbackAccounted`: until Close begins a waiting request's callback is where a goroutine that still runs will call it, or was dropped on a known path |
| `client_returns` | fair, 2 requests with ids of their own, failing writes, unreliable network | `ReplyMatches`: duplicates and reordering never mix replies up; `ReturnsUnlessDropped`: every request returns unless its reply was late |
| `tcp_calls` | fair, 2 requests, 2 connections, servers that answer (one request perhaps with the stop symbol inside), hang up or are silent, Close | `TypeOK`; `ReplyOwn`: no request is given another's reply, unless a reply with the stop symbol inside came on its connection; `OpenTracked`: an open connection is where a Close that begins now finds it, or a write to it failed; `CloseCloses`: Close closes what was in the map when it began; `PanicKnown`: only a failed read, no configured server, or what a reply with the stop symbol inside left behind, leads to a panic; `ReturnsUnlessSilent`: a request returns unless its server is silent for ever |
| `pool_health` | fair, 3 servers that come and go, checks that hang | `TypeOK`; `ListFresh`: a server that has not changed since the last complete round began is listed exactly if it answers; `Converges`: the list follows the servers unless a check hangs; `DisposeStops`: the loop ends after Dispose |
| `server_close` | fair, 1 server, 2 Puts by UDP, TCP or HTTP, 1 connection, 2 workers, channel of 1, Close and Clear at any moment | `ReadPutApplied`: a Put that was read is applied, unless the server panics; `CloseDrains`: after Close the workers empty the channel and exit, unless it panics |
| `server_cluster` | 2 servers and a peer that is down, 2 requests by UDP or HTTP (Put, a reading command, malformed; right or wrong hash), failing writes, shared bytes behind the key | `TypeOK`; `PutOncePerServer`; `WrongHashNeverStored`: no Put with a wrong hash is applied, directly or replicated; `ReplicaAccounted`: an acknowledged Put is at the peer, under way, still to be written, or was lost in one of two known ways; `OneErrorPerRefusal`: per Put and peer at most one error packet goes round, and only if the peer has not applied the Put |
| `wire_messages` | every message with up to 4 data bytes over {LF, '.', 'A'}, ids over these bytes and CR, 5 namespaces, 9 counts, no key; every cut | `UdpExact`, `TcpExact`: what is parsed is what was packed; `DataIsPrefix`: however the message is cut, the data is a beginning of what was sent, if the namespace fits; `CutNeverPanics`; `CountExact` |

Violation, of something the repository says of itself (quoted in `PROJECT.json`,
`findings`):

| Run | Statement | What TLC shows |
|---|---|---|
| `store_two_puts` | "the response shouldn't ever be zero" after a Put | two first Puts of a namespace: one subtree replaces the other |

### Where the code stops short

The passing properties are stated where the code keeps them, and each names its
exceptions. These are what a reader of the code would want to know of:

* `AckedReachable` holds for one operation at a time. Overlapping Puts of a new
  namespace lose an entry (`store_two_puts`), and so does a Put into a namespace that a
  cleanup has counted and is about to remove; `LossOnlyConcurrent` says that an
  entry that was reachable is lost in no third way. (A Put that still holds a subtree
  which was replaced or removed meanwhile puts into it, and that entry is never reachable.)
* `KeyMatchComplete` excludes iterators that another goroutine's Put or Count tore.
* `DeadCollected` excludes a lone namespace: `1 / 2` is 0, so it is never crawled.
* `ReturnsUnlessDropped` excludes late replies: `Pull` discards the callback of an
  expired entry and nobody calls it. `ReplyMatches` is for one process: a reply to a
  previous process on the same port is accepted by a new request with its id.
* `CallbackAccounted` has an exception, `LeftByClose`: Close ends the sweeper, the reader
  and handleTimeouts and calls nothing that waits, so requests under way hang for ever.
* `PanicKnown` (Client): Dispose closes the channel while the sweeper may be sending,
  and a failed write calls a callback that the sweeper, or a stray reply, may have taken.
* `ReplyOwn`: a list of keys with a key `.` in it contains the stop symbol. The client reads
  up to it and, if the rest was not yet in the buffer (a long list, or one that comes in
  several segments), leaves the rest in a connection that goes back to the pool. The next
  request on it reads the rest, as data or as an error, and its own reply goes to a third.
  `PanicKnown` has the rare case that no more than the end of the stop symbol is left and
  the connection ends: the slice bound in `ReadOneTcpMessage` is then negative.
* `PanicKnown` (TcpClient): after a failed read the reader goes round again and sends on
  a channel that the caller closes. `OpenTracked`: a failed write forgets an open
  connection, and one that is dialled after Close has ranged over the map stays open.
  `ReturnsUnlessSilent`: the time-out does not interrupt a read.
* `Converges`: one check that hangs freezes the list, and everyone keeps using it.
* `ReadPutApplied`, `CloseDrains`: readers send on the channel that Close closes. TCP
  connections outlive Close, so this is not only a matter of a moment.
* `WrongHashNeverStored` is about hashes. They are the first 8 bytes of key, id, namespace
  and data, since `hasher.Sum` appends to its argument instead of hashing it; a client whose
  key agrees with the servers' in its first 8 bytes is accepted.
* `PutOncePerServer` assumes that peers are listed once and that a server finds its own
  address in the list by comparing strings.
* `ReplicaAccounted`: replicas are not acknowledged; a failed write gives up the peers
  behind it; and with a key of 1 to 4 bytes a race between workers makes a peer refuse
  a good replica. Puts by HTTP are not replicated at all.
* `OneErrorPerRefusal`: the answers to a refused replica never end, since a server takes
  an error packet for a message of a client and answers it.
* `CutNeverPanics` is for messages of the protocol. A peer that sends nothing but a line feed,
  or one byte and a line feed, and hangs up makes the slice bound at rawmessage.go:46
  negative, which panics the server.
* `TcpExact` excludes the stop symbol inside a message (ids and hashes are binary) and
  ids that end in white space; data that is too long loses its end. With a key of less
  than 4 bytes (none is the default) the hash reaches into the namespace, and one with
  white space other than spaces may be refused: the reader has trimmed what was hashed.
* `DataIsPrefix` excludes namespaces that are too long. TCP sends them, and if one has a
  space where the field ends, the rest of it is taken for the data. The attempt to prove
  the property without this condition showed it; `wire_messages` has such a namespace.

### Bounds

Two goroutines are enough for the races in `Tree` and `Store`: each involves one
goroutine between two of its critical sections and another that completes an operation.
Two keys give the iterator and Keys something before and behind them; two namespaces make
one crawled and one passed over (`n / 2`), and with two subtree addresses a namespace can
be replaced, or removed and created again. TTL 1 or 2 with a longer clock lets entries be
live, expire and be put again. Two Puts make a list of two entries, or two keys, or two
namespaces. In `Client`, `IdSpace` 1 makes ids collide and 3 keeps two requests' ids
apart; the real 2^32 is never reached by counting. `MaxPuts`, `MaxLists`, `MaxRestarts`
and `MaxNow` bound the behaviours, not what happens at a step.

`TcpClient`: two requests on two connections can share one after the other, use both, and
find a third place in each other's old reader. With `Dotted` the first of them, what its
reply leaves behind is read by the second; the second's reply then stays for a third,
which would be a repetition. `ServerPool`: three servers put one before,
at and behind the check under way. `Server`: a channel of one place is full after one
message, the second reader then blocks; two workers race on the key's bytes and a queue
of two would add only waiting. Two
servers that run have all roles of replication, and the third in their lists, which is
down (`Down`), lets `republish` give up in the middle of its list; a third that runs
would repeat the second's part, and the error packets that three servers exchange make
the state space too large. TCP connections are in `server_close` only: beyond the reader
their messages take the same path. `Wire`: the
alphabet is the two bytes of the stop symbol and one other (in ids also CR, white space that is
neither a line feed nor a space), messages are long enough for
the stop symbol to occur inside each field and across fields, and one byte longer than
what fits; fields are of 1 to 4 bytes, since nothing in the code depends on their sizes.
Without a key the hash covers the id and the namespace, as it does in the code. The
namespaces are none, one that fits, one of white space, one that is too long, and one of
which the rest looks like data.

Deadlock is checked in `store_concurrent`, `store_sequential`, `store_collected` and
`pool_health`. In the others the system may stop: a panic ends the process
(`tree_calls`, `client_once`, `client_returns`, `tcp_calls`, `server_close`), or the
callers make no more requests than the bound allows.

### Fairness

`Store!FairSpec`: goroutines in a call are scheduled and the clock runs (weak
fairness); timers fire although the goroutine may be taken by other calls (strong
fairness of `TimerFires`); Go's randomised map order does not leave a namespace out
of the first half forever (strong fairness of `Fetches(p, n)`). Callers are never
obliged to call.

`Client!FairSpec`: goroutines run and the clock runs; a goroutine that waits for the
mutex gets it although the sweeper comes back for it (strong fairness of `Add` and
`WriteUndo`; Go's mutexes have a starvation mode); the sweep's random map order does
not pass over an entry forever. Nothing is assumed of replies.

`TcpClient!FairSpec`: calls under way and readers run. Nothing is assumed of servers or of
the timer: `ReturnsUnlessSilent` says itself what it needs of a server.

`ServerPool!FairSpec`: the goroutine of the rounds runs, and a check that does not hang
returns (weak fairness of `Rounds`).

`Server!FairSpec`: workers run (weak fairness), a reader blocked on the channel gets its
turn although other readers take free places (strong fairness; the runtime queues blocked
senders), and a Close that was called goes on. Nothing is assumed of clients and the
network.

## Proofs

`TreeProofs` proves, for every finite set of keys, every set of goroutines and
patterns, and every TTL and bound (the named assumptions of `TreeOps` and `Tree`):

| Theorem | Statement |
|---|---|
| `Typing` | `Spec => []TypeOK` |
| `ExpiredEntriesFirst` | `Spec => []ExpiredFirst` |
| `KeysFindsAll` | `Spec => []KeysComplete` |
| `KeysSums` | `Spec => []KeysSumBounds` |
| `KeyMatchFindsAll` | `Spec => []KeyMatchComplete` |
| `Refinement` | `Spec => ImplementsCounter` |

`TypeOK` is not inductive: that Count returns a number needs the lists to be finite.
The strengthening is `Stored`: lists are finite, a key with entries has a node, every
entry was put in the past and expires at most TTL seconds from now, and later entries
expire no earlier. The last two carry each other: a new entry expires TTL after a
clock that is not behind any earlier one, so it may be appended. `ExpiredFirst`
follows at once.

`KeysComplete` needs in addition `Kept` (what a call remembers as live at its start
is stored as long as it has not expired) and `KeysFound` (keys no longer on the list
are in the result if they should be). `EntriesSurvive` says that no step of anyone
loses an entry before it expires or turns the clock back; so another goroutine's step
keeps both (`OthersKeep`), and the step that counts a key finds its entry
(`KeysCountKeeps`). That a key not on the list when it was taken had no live entry is
again `Stored`.

`KeysSumBounds` is about numbers, and a number that was added does not say what it
stands for. `Tallied` has, for each Keys under way, the set of entries that were counted:
its size is the sum so far, it has none of the keys still on the list, and it contains
what the call remembers as live at its start, except for those keys. That entries keep
their ids (`UniqueIds`) bounds what was put meanwhile by the ids given out.

`KeyMatchComplete` needs `Ahead`: as long as the iterator was not torn, every matching
key that is owed (live since the start, and not found yet) is at the iterator's node or
behind it in key order. Its own Count may remove the node it stands on, and the next node
is then the least of the later ones, so no owed key is passed over.

`Refinement` maps `live` to `Live(dates, now)`. Count, from whichever of its three
callers, leaves `live` as it is and returns its size; Put adds the one new entry;
Tick removes what expires; every other step stutters.

`ClientProofs` proves, for every set of requests, every size of the id space (so also
when ids wrap and collide), every time-out and every mixture of replies, failures,
restarts and Close (assumption `ClientAssumption`):

| Theorem | Statement |
|---|---|
| `ClientTyping` | `Spec => []TypeOK` |
| `CalledAtMostOnce` | `Spec => []AtMostOnce` |
| `CallbackNeverLost` | `Spec => []CallbackAccounted` |
| `PanicsAreKnown` | `Spec => []PanicKnown` |
| `RepliesMatch` | `NoWrap => (Spec => []ReplyMatches)` |

`CallbackAccounted` needs beside the invariant that the sweeper and handleTimeouts do not end
before Close has begun (`Running`). Neither `AtMostOnce` nor `CallbackAccounted` is inductive: a second call could come from a second copy of
the callback. `IInv` says that there is none. A callback in the cache is at its
request's id, uncalled, and in nobody's hand (`InCache`); the sweeper and
handleTimeouts never hold the same one, and hold none unless they are sending or
calling (`Hands`); one in a hand is uncalled or its request's write failed (`InHand`),
which is the one way the code has of calling it twice. Each step then takes a callback
from one place to the next, calls it, or drops it; `UntouchedSound`, `CalledSound` and
`DroppedSound` say what that means for a request, and the proof of each action says
which request it touches.

`PanicKnown` rests on `IInv` and on `Full`: while the sweeper holds the mutex nobody
takes from the cache what it is about to send, so what is sent and called is always a
request's callback. A callback that the reply handler finds in the cache has not been
called (`InCache`), hence that path never panics; the other two panic only if the
callback was called before, which by `AtMostOnce` takes a failed write.

`ReplyMatches` is false when ids wrap or a second process uses the port, so `RepliesMatch`
is under `NoWrap`: fewer requests than ids, and no restart. The code's 2^32 ids and one
process satisfy it, and `client_returns` checks such an instance. `Matched` says that the
counter is the number of requests begun (so two of them never have the same id,
`Numbered`) and that every packet in the network, however often it is repeated, has the
id of the request it answers (`Addressed`).

`StoreProofs` proves, for any number of goroutines, namespaces, keys and subtrees, and
any mix of operations (`KeyAssumption`, `TTLAssumption`, `StoreAssumption`):

| Theorem | Statement |
|---|---|
| `StoreTyping` | `Spec => []TypeOK` |
| `LossIsConcurrent` | `Spec => LossOnlyConcurrent` |
| `CleanupChains` | `Spec => []ChainsAddUp` |
| `SequentialAcked` | `Alone => (Spec => []AckedReachable)` |
| `ServerSum` | `Spec => []ServerSumBounds` |

`LossOnlyConcurrent` is an action property: what a step takes out of the map was put there
after the call that takes it looked. For a Put that installs a subtree this must be known
of whatever is in the map by then, for a cleanup of whatever is unexpired in the subtree
it counted. `Knows` says it for every place of a call: `Newer` after a Put's lookup and
when the map no longer holds what the cleanup fetched, and during the scan, of the keys
already counted, if the count is still zero. Every step of another goroutine keeps it,
since a subtree that is in the map never loses an unexpired entry and never comes back
once it was replaced (`Trees`, `Grows`). `ChainInv` counts the timers and the cleanups
under way; only a cleanup's beginning and its deferred `AfterFunc` change the two, and
they do so oppositely.

`AckedReachable` is what the run `store_two_puts` refutes for overlapping calls. `Alone`,
one goroutine, is the hypothesis under which it holds: what a call found in the map is
still there when it acts (`Current`), so it can destroy nothing.

`ServerSumBounds` is proved like `KeysSumBounds`, with the entries counted as the witness
(`Counted`), over several subtrees. It needs that no subtree is installed for two
namespaces and no id given twice (`Unique`), or an entry might be counted again.

`ServerProofs` and `ReplicationProofs` prove, for any number of servers, requests, workers
and connections and any capacity of the channel, with the bytes behind the key shared or
not (`ServerAssumption`):

| Theorem | Statement |
|---|---|
| `ServerTyping` | `Spec => []TypeOK` |
| `PutsKept` | `Spec => ReadPutKept` |
| `ExitsLast` | `Spec => []ExitLeavesNothing` |
| `WrongHash` | `Spec => []WrongHashNeverStored` |
| `PutOnce` | `Spec => []PutOncePerServer` |
| `OneError` | `Spec => []OneErrorPerRefusal` |
| `ReplicasAccounted` | `"clear" \notin May => (Spec => []ReplicaAccounted)` |

`ReadPutKept`, an action property, and `ExitLeavesNothing` are what the liveness properties
`ReadPutApplied` and `CloseDrains` rest on; they are stated and proved in `ServerProofs` and
are not among the properties of the runs. A Put with the right hash that a server read leaves its readers, channel and
workers only by being applied, or refused where workers share the bytes behind the key; and
a worker exits only with the channel closed and empty, which it stays. For the first, a packet leaves its reader by
`Enqueue` only (`ReaderKeeps`), the channel by `Receive` only (`QueueKeeps`) and a worker
by that worker's own steps (`WorkerKeeps`), each of which puts it into the next place,
applies it, or refuses it; without shared bytes the worker compares the hash with the right
id. The second is inductive together with the types: once the channel is closed and empty
`Enqueue` and `Receive` are both impossible.

`KeyInv` follows a Put from the network through reader, channel and worker to the store: a
client's packet has the hash it was sent with, a replica goes back to a Put with the right
hash (`Origin`), and a worker past its check knows that of its own. The race on the bytes
behind the key can make a worker compare with another request's id, never with no request's
(`WorkerOrigin`: the bytes are some request's while a check is pending), so a Put with
a wrong hash does not pass. `PutInv` says that for each request and server there is at most
one place that holds the Put or its replica, a packet, a reader, an element of the channel
or a worker (with the peers still on its list), and none once it was applied. An error
packet between the server of a Put and a peer is what is left of the peer's replica, and
counts as such a place too (`Carries`): a worker that refuses a replica passes it on as an
error packet, one that is handed an error packet passes on the next. For that, replicas and
error packets must be known to run between the server that the request was sent to and
another one (`Sender`, part of `KeyInv`); otherwise a third server might answer. As there
is one place at most, the four sets that `Errors` counts have one element between them
(`ErrorsOne`). `AccountInv`
says of a Put that was answered that each peer has it, or will be given it by such a place,
or is in `missed`. `ReplicasAccounted` leaves out `Clear`, which empties a store and is
called by a unit test only.

`TcpProofs` proves, for any number of requests and connections (`TcpClientAssumption`):

| Theorem | Statement |
|---|---|
| `TcpTyping` | `Spec => []TypeOK` |
| `RepliesOwn` | `Spec => []ReplyOwn` |
| `OneUser` | `Spec => []UsedByOne` |
| `OpenIsTracked` | `Spec => []OpenTracked` |
| `CloseClosesAll` | `Spec => []CloseCloses` |
| `PanicsKnown` | `Spec => []PanicKnown` |

They share one invariant. A connection is in one request's hands or in the pool, never in
both (`Owners`, `Pools`); a packet that the server has, or a reply not yet taken, belongs
to the request that waits on that connection, as long as no reply on it was split
(`LinkInv`); a reader that has begun to read finds its own reply, and one that has read
leaves nothing (`OnLink`, `Drained`), again unless one was split; and a reader that outlives its
request does so only on a connection from which no reply can come any more (`LocalInv`,
`EndedLink`). So what a reader reads is its own request's reply, and whoever
uses a connection that can still bring a reply, a reader left behind included, is its only
owner (`UsedByOne`, stated in `TcpProofs`). For `OpenTracked`, a key
leaves the map only with a connection that was closed or to which a write failed; for
`CloseCloses`, what Range has still to visit includes what was in the map at its beginning
and is open.

`PoolProofs` proves, for any number of servers (assumption `ServerPoolAssumption`):

| Theorem | Statement |
|---|---|
| `PoolTyping` | `Spec => []TypeOK` |
| `PoolListFresh` | `Spec => []ListFresh` |

`ListFresh` speaks of the last complete round; `RoundSound` carries the same fact through
the round under way: of the servers before `at` that stood still since it began, exactly
those that answer have passed, and no server from `at` on has. When the round is
published, all servers are before `at`.

`WireProofs` proves, for any sizes of the fields (`ProtocolAssumption`), any key and
messages of any bytes and any length (`WireAssumption`; for `TcpExact` and `DataIsPrefix`
the bytes that begin white space of several bytes are excluded, `NoWideSpace`):

| Theorem | Statement |
|---|---|
| `UdpRoundTrip` | `Spec => []UdpExact` |
| `TcpRoundTrip` | `Spec => []TcpExact` |
| `DataNeverInvented` | `Spec => []DataIsPrefix` |
| `ReaderNeverPanics` | `Spec => []CutNeverPanics` |
| `CountsSurvive` | `Spec => []CountExact` |

`At(s, k, t)` says that the bytes `t` are in `s` after the first `k`; `HeaderLayout` places
the fields of a packet with it, and `ParseBytes` takes them out again. What
`ReadOneTcpMessage` returns is `Carried`: the first `l` bytes of what was sent, then spaces,
for some `l`; and if the message was whole and the stop symbol is only at its end, the
bytes missing are white space (`Blank`, proved in `ReadCarries`). A field of what was read
therefore agrees with the field sent on some first bytes and is white space after them
(`FieldAgrees`), and sequences that agree so are, trimmed, one a beginning of the other
(`TrimAgree`), or equal if it holds both ways. A command and a space in front of every
message, which the left trim leaves alone, keep the reader from a negative bound. The
assumption that id and namespace are at least as long as the hash (4 + 64 and 8 bytes in
the code) means that the hash never reaches the data.

`CountsSurvive` needs what `Uint32ToBytes` and `Uint32FromBytes` compute, an induction over
the bytes of a number, for any number of them. The library's induction theorems take an
operator, which the provers cannot instantiate, so the induction is done by hand on sets of
naturals. A function that satisfies a recursion up to `n` is a `Chain`; if there were an
`n` without one there would be a least (`UpTo`), and the chain below it could be extended
(`ChainExists`). `ShiftedIs`, `GatheredIs` and `LargestIs` are the recursions of the three
functions obtained that way. `BytesInvert` is again an induction by `UpTo`: a number is what
its first bytes gather plus what is shifted out, and nothing is left to shift out of a
number that is at most `MaxUint32` (`ShiftedOut`), which the worker's cap guarantees
(`CappedIs`).
`ReplyCarries` finds those bytes again in the packet that the client parses.

Model-checked only: liveness under fairness (`DeadCollected`, `ReturnsUnlessDropped`,
`ReturnsUnlessSilent`, `Converges`, `DisposeStops`, `ReadPutApplied`, `CloseDrains`), which is
outside what the installed prover can do. Every safety property that a passing run checks
is stated by a theorem; `ReplyMatches`, `AckedReachable` and `ReplicaAccounted` under the
hypotheses named above.

## Not modelled

* The command line programs: flags and printing around the client and the server,
  without state of their own.
* Of the HTTP interface, routing, parameter checks and JSON. Its handlers read the
  store, or put (`HttpPut`).
* The metrics' gauges: written, never read.
* What KeyMatch and ListNamespaces do with the text of a reply, and the durations of the
  sleeps in the server pool.
* In `Client` the pool is the choice of `Refused`, and in `ServerPool` a request is its
  three outcomes; the two are not composed state by state.
* Go's memory model beyond the races that the models make explicit (KeyMatch's iterator;
  the bytes behind the key; `conn` in `_sendTCP`; the flags `disposed` and
  `cleanupServiceEnabled` and `lastGCdNamespaces`, which are single words read and written
  whole). Nor the red-black tree's balancing, which is a library's.
* Two concurrent calls of `Close`, whose test of `disposed` both could pass.
* Duplication of packets between clients and servers and among servers (see `Server`);
  duplicated replies are in `Client`.

## Plan

All safety properties of the runs are proved. What is left:

1. `ReplicaAccounted` with `Clear`, if the property is restated to count what was cleared.
2. A composition of `Client` with `ServerPool`, in which a health check is a request of the
   client, if either of them comes to depend on more of the other than its outcome.
