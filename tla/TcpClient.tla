------------------------------ MODULE TcpClient ------------------------------
(***************************************************************************)
(* client/client.go, the TCP requests: KeyMatch and ListNamespaces, which  *)
(* both end in _sendTCP.                                                   *)
(*                                                                         *)
(* A request takes a connection out of a sync.Pool (or dials one), writes  *)
(* its packet and waits on the unbuffered channel resChan for a goroutine  *)
(* of its own that reads the reply.  That goroutine looks at the time-out  *)
(* only between two reads.  Nothing in a reply says whose it is: the       *)
(* connection does.  A reply ends at the first stop symbol that is in it,  *)
(* and a read drops what its buffer holds beyond that: what was not yet in *)
(* the buffer stays in the connection, for whoever uses it next.           *)
(*                                                                         *)
(* A step is a system call, a channel operation, an access to the pool or  *)
(* the map, or one of the deferred calls of _sendTCP.                      *)
(***************************************************************************)
EXTENDS Naturals, FiniteSets, Sequences

CONSTANTS Req,    \* the requests of the program, each at most once
          NoReq,  \* no request
          Conn,   \* connections that may be dialled
          Nil,    \* the nil *net.TCPConn
          Dotted  \* the requests whose reply may have the stop symbol in its middle

ASSUME TcpClientAssumption == NoReq \notin Req /\ Nil \notin Conn /\ Dotted \subseteq Req

VARIABLES
    listed,   \* tcpServerList is not empty
    pool,     \* Client.tcpPool: connections that wait there
    tracked,  \* the keys of Client.tcpPoolMap
    link,     \* of each connection: its state, whose packets the server has, what can be read
    calls,    \* the calls of _sendTCP
    rdr,      \* their goroutines readOneMessage
    closing,  \* Close: program counter, and the keys in the map when Range began
    crashed,  \* the process has panicked
    given     \* history: connections that were given up after a failed write

vars == <<listed, pool, tracked, link, calls, rdr, closing, crashed, given>>

(* broken: the server has ended the connection; closed: the client has.    *)
(* in: the pieces of replies that can be read, each up to a stop symbol,   *)
(* by whose reply they are; stub: before them the last bytes of a piece,   *)
(* its stop symbol or less; split: some reply was in two pieces (history). *)
Link == [st : {"unused", "open", "broken", "closed"}, asked : SUBSET Req,
         in : Seq(Req), stub : BOOLEAN, split : BOOLEAN]

Unused == [st |-> "unused", asked |-> {}, in |-> <<>>, stub |-> FALSE, split |-> FALSE]

(* key and conn are the two variables of these names in _sendTCP; expired: *)
(* _ctx is done; result "text": the text of an error was returned as data; *)
(* from: whose reply its reader took; failed: a read failed (history).     *)
Call == [pc : {"idle", "nil", "write", "wait", "release", "put", "done"},
         key : Conn \cup {Nil}, conn : Conn \cup {Nil}, expired : BOOLEAN,
         result : {"none", "reply", "text", "error"}, from : Req \cup {NoReq}, failed : BOOLEAN]

Unmade == [pc |-> "idle", key |-> Nil, conn |-> Nil, expired |-> FALSE,
           result |-> "none", from |-> NoReq, failed |-> FALSE]

(* NewClient.                                                              *)
Init ==
    /\ listed \in BOOLEAN
    /\ pool = {} /\ tracked = {}
    /\ link = [c \in Conn |-> Unused]
    /\ calls = [r \in Req |-> Unmade]
    /\ rdr = [r \in Req |-> "none"]
    /\ closing = [pc |-> "no", keys |-> {}]
    /\ crashed = FALSE /\ given = {}

(* A connection the client closes: nothing is answered on it any more.     *)
Closed(l) == [l EXCEPT !.st = "closed", !.asked = {}]

Set(r, new) == calls' = [calls EXCEPT ![r] = new]
Reader(r, pc) == rdr' = [rdr EXCEPT ![r] = pc]

-----------------------------------------------------------------------------
(* tcpPool.Get takes a connection out of the pool ...                      *)
Get(r, c) ==
    /\ calls[r].pc = "idle" /\ c \in pool
    /\ pool' = pool \ {c}
    /\ Set(r, [calls[r] EXCEPT !.pc = "write", !.key = c, !.conn = c])
    /\ UNCHANGED <<listed, tracked, link, rdr, closing, crashed, given>>

(* ... or calls New, always if the pool is empty and perhaps (the caches   *)
(* of sync.Pool are per processor) if it is not; New dials and notes the   *)
(* connection in the map, one that failed (nil) too ...                    *)
NotedNever(c) == tracked
Noted(c) == tracked \cup {c}

DialOk(r, c) ==
    /\ calls[r].pc = "idle" /\ listed
    /\ link[c].st = "unused"
    /\ link' = [link EXCEPT ![c] = [link[c] EXCEPT !.st = "open"]]
    /\ tracked' = Noted(c)
    /\ Set(r, [calls[r] EXCEPT !.pc = "write", !.key = c, !.conn = c])
    /\ UNCHANGED <<listed, pool, rdr, closing, crashed, given>>

DialFails(r) ==
    /\ calls[r].pc = "idle" /\ listed
    /\ tracked' = tracked \cup {Nil}
    /\ Set(r, [calls[r] EXCEPT !.pc = "nil"])
    /\ UNCHANGED <<listed, pool, link, rdr, closing, crashed, given>>

(* ... or panics: New returns a nil interface if no server is listed.      *)
GetPanics(r) ==
    /\ calls[r].pc = "idle" /\ ~listed
    /\ crashed' = TRUE
    /\ UNCHANGED <<listed, pool, tracked, link, calls, rdr, closing, given>>

(* ErrNoHealthyTCPServers.                                                 *)
NoServer(r) ==
    /\ calls[r].pc = "nil"
    /\ tracked' = tracked \ {Nil}
    /\ Set(r, [calls[r] EXCEPT !.pc = "done", !.result = "error"])
    /\ UNCHANGED <<listed, pool, link, rdr, closing, crashed, given>>

(* The request is written and its reader started ...                       *)
WriteAndPut(r) == LET c == calls[r].conn IN
    /\ calls[r].pc = "write" /\ link[c].st # "closed"
    /\ link' = IF link[c].st = "open"
               THEN [link EXCEPT ![c] = [link[c] EXCEPT !.asked = @ \cup {r}]] ELSE link
    /\ Set(r, [calls[r] EXCEPT !.pc = "wait"])
    /\ Reader(r, "loop")
    /\ pool' = pool \cup {c}
    /\ UNCHANGED <<listed, tracked, closing, crashed, given>>
Write(r) == LET c == calls[r].conn IN
    /\ calls[r].pc = "write" /\ link[c].st # "closed"
    /\ link' = IF link[c].st = "open"
               THEN [link EXCEPT ![c] = [link[c] EXCEPT !.asked = @ \cup {r}]] ELSE link
    /\ Set(r, [calls[r] EXCEPT !.pc = "wait"])
    /\ Reader(r, "loop")
    /\ UNCHANGED <<listed, pool, tracked, closing, crashed, given>>

(* ... or it fails, and the connection is dropped without closing it.      *)
WriteFails(r) ==
    /\ calls[r].pc = "write"
    /\ given' = given \cup {calls[r].key}
    /\ tracked' = tracked \ {calls[r].key}
    /\ Set(r, [calls[r] EXCEPT !.pc = "done", !.conn = Nil, !.result = "error"])
    /\ UNCHANGED <<listed, pool, link, rdr, closing, crashed>>

(* Five seconds after _ctx was made.                                       *)
Expire(r) ==
    /\ calls[r].pc \in {"write", "wait"} /\ ~calls[r].expired
    /\ Set(r, [calls[r] EXCEPT !.expired = TRUE])
    /\ UNCHANGED <<listed, pool, tracked, link, rdr, closing, crashed, given>>

-----------------------------------------------------------------------------
(* readOneMessage: when _ctx is done it closes the connection ...          *)
LoopDone(r) == LET c == calls[r].conn IN
    /\ rdr[r] = "loop" /\ calls[r].expired
    /\ link' = [link EXCEPT ![c] = Closed(link[c])]
    /\ Reader(r, "sendTimeout")
    /\ UNCHANGED <<listed, pool, tracked, calls, closing, crashed, given>>

(* ... else it reads, for as long as it takes ...                          *)
LoopRead(r) ==
    /\ rdr[r] = "loop" /\ ~calls[r].expired
    /\ Reader(r, "read")
    /\ UNCHANGED <<listed, pool, tracked, link, calls, closing, crashed, given>>

(* ... (ReadOneTcpMessage) a first line, if there is anything to read ...  *)
ReadLine(r) == LET c == calls[r].conn IN
    /\ rdr[r] = "read" /\ link[c].st # "closed"
    /\ link[c].in # <<>> \/ link[c].stub
    /\ Reader(r, "rest")
    /\ UNCHANGED <<listed, pool, tracked, link, calls, closing, crashed, given>>

(* ... and on to a stop symbol, or to the end of the connection: a message *)
(* that is cut short by Close goes the same way.  What else came into its  *)
(* bufio.Reader is lost: the pieces up to the k-th, the (k-1)-th perhaps   *)
(* but for its last bytes, too few for a stop symbol after a line ...      *)
ReadReply(r) == LET c == calls[r].conn IN
    /\ rdr[r] = "rest" /\ link[c].in # <<>>
    /\ \E k \in 2..(Len(link[c].in) + 1), left \in BOOLEAN :
        /\ left => k > 2
        /\ link' = [link EXCEPT ![c] = [link[c] EXCEPT !.in = SubSeq(@, k, Len(@)), !.stub = left]]
    /\ Reader(r, "send")
    /\ Set(r, [calls[r] EXCEPT !.from = Head(link[c].in)])
    /\ UNCHANGED <<listed, pool, tracked, closing, crashed, given>>

(* ... unless there is less than a stop symbol when the connection ends:   *)
(* message[0 : len(message)-len(StopSymbol)] panics.                       *)
ReadPanics(r) == LET c == calls[r].conn IN
    /\ rdr[r] = "rest" /\ link[c].stub
    /\ link[c].st = "closed" \/ (link[c].st = "broken" /\ link[c].in = <<>>)
    /\ crashed' = TRUE
    /\ UNCHANGED <<listed, pool, tracked, link, calls, rdr, closing, given>>

(* ... or an error, which it will report as a message.                     *)
Ended(c) == \/ link[c].st = "closed"
            \/ link[c].st = "broken" /\ link[c].in = <<>> /\ ~link[c].stub

ReadFailsSilent(r) ==
    /\ rdr[r] = "read" /\ Ended(calls[r].conn)
    /\ Reader(r, "loop")
    /\ Set(r, [calls[r] EXCEPT !.failed = TRUE])
    /\ UNCHANGED <<listed, pool, tracked, link, closing, crashed, given>>
ReadFails(r) ==
    /\ rdr[r] = "read" /\ Ended(calls[r].conn)
    /\ Reader(r, "sendError")
    /\ Set(r, [calls[r] EXCEPT !.failed = TRUE])
    /\ UNCHANGED <<listed, pool, tracked, link, closing, crashed, given>>

Sending == {"send", "sendError", "sendTimeout"}

(* After a reply the goroutine ends; after a time-out it sets conn to nil; *)
(* after an error it goes round again.                                     *)
AfterSendLoops(r) == IF rdr[r] = "sendTimeout" THEN "forget" ELSE "loop"
AfterSend(r) ==
    CASE rdr[r] = "send" -> "exit"
      [] rdr[r] = "sendTimeout" -> "forget"
      [] rdr[r] = "sendError" -> "loop"

(* resChan: the caller takes the message and calls the callback, with an   *)
(* error only if the message is a reply that does not parse.               *)
HandOver(r, parses) ==
    /\ rdr[r] \in Sending /\ calls[r].pc = "wait"
    /\ Reader(r, AfterSend(r))
    /\ Set(r, [calls[r] EXCEPT !.pc = "release",
                  !.result = IF rdr[r] # "send" THEN "text"
                             ELSE IF parses THEN "reply" ELSE "error"])
    /\ UNCHANGED <<listed, pool, tracked, link, closing, crashed, given>>

(* A send on resChan, or a wait to send, once the caller has closed it.    *)
SendPanics(r) ==
    /\ rdr[r] \in Sending /\ calls[r].pc \in {"put", "done"}
    /\ crashed' = TRUE
    /\ UNCHANGED <<listed, pool, tracked, link, calls, rdr, closing, given>>

Forget(r) ==
    /\ rdr[r] = "forget"
    /\ Reader(r, "exit")
    /\ Set(r, [calls[r] EXCEPT !.conn = Nil])
    /\ UNCHANGED <<listed, pool, tracked, link, closing, crashed, given>>

(* The deferred calls of _sendTCP: cancel and close(resChan) - a reader    *)
(* that sees the first and not yet the second waits for it - ...           *)
Release(r) ==
    /\ calls[r].pc = "release"
    /\ Set(r, [calls[r] EXCEPT !.pc = "put", !.expired = TRUE])
    /\ UNCHANGED <<listed, pool, tracked, link, rdr, closing, crashed, given>>

(* ... and the connection goes back to the pool, unless its reader has set *)
(* conn to nil by now.                                                     *)
PutBackNil(r) ==
    /\ calls[r].pc = "put"
    /\ pool' = pool \cup {calls[r].conn}
    /\ Set(r, [calls[r] EXCEPT !.pc = "done"])
    /\ UNCHANGED <<listed, tracked, link, rdr, closing, crashed, given>>
PutBack(r) ==
    /\ calls[r].pc = "put"
    /\ IF calls[r].conn = Nil
       THEN pool' = pool /\ tracked' = tracked \ {calls[r].key}
       ELSE pool' = pool \cup {calls[r].conn} /\ tracked' = tracked
    /\ Set(r, [calls[r] EXCEPT !.pc = "done"])
    /\ UNCHANGED <<listed, link, rdr, closing, crashed, given>>

-----------------------------------------------------------------------------
(* External: sync.Pool may drop what it holds.                             *)
Evict(c) ==
    /\ c \in pool
    /\ pool' = pool \ {c}
    /\ UNCHANGED <<listed, tracked, link, calls, rdr, closing, crashed, given>>

(* External: the server answers a packet it has.  The names in the answer  *)
(* are joined by line feeds: it has a stop symbol in the middle if one of  *)
(* them is ".".  Or the server ends a connection.                          *)
Answer(c, r, splits) ==
    /\ link[c].st = "open" /\ r \in link[c].asked /\ (splits => r \in Dotted)
    /\ link' = [link EXCEPT ![c] =
           [link[c] EXCEPT !.in = IF splits THEN Append(Append(@, r), r) ELSE Append(@, r),
                           !.asked = @ \ {r}, !.split = @ \/ splits]]
    /\ UNCHANGED <<listed, pool, tracked, calls, rdr, closing, crashed, given>>

Break(c) ==
    /\ link[c].st = "open"
    /\ link' = [link EXCEPT ![c] = [link[c] EXCEPT !.st = "broken", !.asked = {}]]
    /\ UNCHANGED <<listed, pool, tracked, calls, rdr, closing, crashed, given>>

(* Close, its part about TCP: Range closes and deletes each key that was   *)
(* in the map when it began, and perhaps some that came later.             *)
Close ==
    /\ closing.pc = "no"
    /\ closing' = [pc |-> "range", keys |-> tracked \ {Nil}]
    /\ UNCHANGED <<listed, pool, tracked, link, calls, rdr, crashed, given>>

CloseOne(k) ==
    /\ closing.pc = "range" /\ k \in tracked
    /\ tracked' = tracked \ {k}
    /\ link' = IF k = Nil THEN link
               ELSE [link EXCEPT ![k] = Closed(link[k])]
    /\ UNCHANGED <<listed, pool, calls, rdr, closing, crashed, given>>

CloseEndEarly ==
    /\ closing.pc = "range"
    /\ closing' = [closing EXCEPT !.pc = "done"]
    /\ UNCHANGED <<listed, pool, tracked, link, calls, rdr, crashed, given>>
CloseEnd ==
    /\ closing.pc = "range" /\ closing.keys \cap tracked = {}
    /\ closing' = [closing EXCEPT !.pc = "done"]
    /\ UNCHANGED <<listed, pool, tracked, link, calls, rdr, crashed, given>>

-----------------------------------------------------------------------------
Reads(r) ==
    \/ LoopDone(r) \/ LoopRead(r) \/ ReadLine(r) \/ ReadReply(r) \/ ReadPanics(r) \/ ReadFails(r)
    \/ SendPanics(r) \/ Forget(r)
    \/ \E parses \in BOOLEAN : HandOver(r, parses)

Calls(r) ==
    \/ GetPanics(r) \/ DialFails(r) \/ NoServer(r) \/ Write(r) \/ WriteFails(r)
    \/ Release(r) \/ PutBack(r)
    \/ \E c \in Conn : Get(r, c) \/ DialOk(r, c)

Next ==
    /\ ~crashed
    /\ \/ \E r \in Req : Reads(r) \/ Calls(r) \/ Expire(r)
       \/ \E c \in Conn : Evict(c) \/ Break(c)
       \/ \E c \in Conn, r \in Req, splits \in BOOLEAN : Answer(c, r, splits)
       \/ Close \/ CloseEnd \/ \E k \in Conn \cup {Nil} : CloseOne(k)

Spec == Init /\ [][Next]_vars

(* Goroutines that can run do.  Nothing is assumed of servers and timers.  *)
Fairness ==
    \A r \in Req :
        /\ WF_vars(~crashed /\ Reads(r))
        /\ WF_vars(~crashed /\ calls[r].pc # "idle" /\ Calls(r))

FairSpec == Spec /\ Fairness

-----------------------------------------------------------------------------
(* Every variable has its type.                                            *)
TypeOK ==
    /\ listed \in BOOLEAN /\ crashed \in BOOLEAN
    /\ pool \subseteq Conn /\ given \subseteq Conn /\ tracked \subseteq Conn \cup {Nil}
    /\ link \in [Conn -> Link]
    /\ calls \in [Req -> Call]
    /\ rdr \in [Req -> {"none", "loop", "read", "rest", "forget", "exit"} \cup Sending]
    /\ closing \in [pc : {"no", "range", "done"}, keys : SUBSET Conn]

(* A reply carries a message id that the client does not look at.  Still   *)
(* no request is given the reply to another one, although connections are  *)
(* used again after replies, errors, time-outs and Close: a connection     *)
(* serves one request at a time and is not used again with a reply         *)
(* outstanding.  The exception is a connection on which a reply contained  *)
(* the stop symbol: the rest of it is left for the next request, whose own *)
(* reply is left for a third.                                              *)
ReplyOwn ==
    \A r \in Req :
        calls[r].result = "reply" => calls[r].from = r \/ link[calls[r].key].split

IsOpen(c) == link[c].st \in {"open", "broken"}

(* Every connection that the client has not closed is in tcpPoolMap, where *)
(* a Close that begins now finds it, wherever it is otherwise - in the     *)
(* pool, dropped by it, in a request - unless a write to it failed: that   *)
(* one is left open and forgotten.  (One that is dialled during or after   *)
(* Close is in the map too, but no second Close comes for it.)             *)
OpenTracked == \A c \in Conn : IsOpen(c) => c \in tracked \cup given

(* When Close returns, every connection that was in the map when Range     *)
(* began has been closed or given up, whatever requests did meanwhile.     *)
CloseCloses ==
    closing.pc = "done" =>
        \A c \in Conn : IsOpen(c) => c \notin closing.keys \/ c \in given

(* The process panics for three reasons only: no TCP server is configured; *)
(* a read failed, after which the reader goes round again and sends on a   *)
(* channel that the caller closes; or a reader that began with what a      *)
(* split reply had left behind got nothing more.  A time-out alone does    *)
(* not do it, for all that it races the deferred calls.                    *)
PanicKnown ==
    crashed => \/ ~listed
               \/ \E r \in Req : calls[r].failed
               \/ \E r \in Req : rdr[r] = "rest" /\ link[calls[r].conn].stub

(* The reply may still come, and nothing has ended the wait for it.        *)
Silent(r) == LET c == calls[r].conn IN
    rdr[r] \in {"read", "rest"} /\ link[c].st = "open" /\ link[c].in = <<>>

(* A request returns unless its server is silent forever without ending    *)
(* the connection; the time-out, looked at only between two reads, does    *)
(* not help there.                                                         *)
ReturnsUnlessSilent ==
    \A r \in Req : []<>~Silent(r) => (calls[r].pc # "idle" ~> calls[r].pc = "done" \/ crashed)
=============================================================================
