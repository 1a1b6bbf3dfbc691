------------------------------ MODULE TcpServers ------------------------------
(***************************************************************************)
(* The servers a Pico with a TCP relay may be connected to: the phone's    *)
(* phone_relay_server.dart, which answers one request after the other, and *)
(* the desktop's tools/relay_server.py, which echoes, hands each request   *)
(* to a worker thread that asks a model, or sends what is typed on its     *)
(* terminal to the latest client.                                          *)
(***************************************************************************)
EXTENDS FramedTcp

CONSTANTS
  MaxRequests, MaxLines,  \* bounds: requests, and lines typed on the terminal
  Permits,                \* _LLM_INFLIGHT
  Modes                   \* of {"phone", "echo", "llm", "terminal"}

ASSUME TcpServersAssumption ==
  MaxRequests \in Nat /\ MaxLines \in Nat /\ Permits \in Nat

VARIABLES
  mode,
  handler,    \* [connection -> "none", "started", "reading", "replying", "done"]
  active,     \* _active_client: a connection, or 0
  workers,    \* worker threads: [conn, request, step]
  permits,
  requests,   \* history: [conn, size, ascii] of every request sent
  waiting,    \* [connection -> the request its client waits for, or 0]
  late,       \* history: connections whose client gave a request up
  arrived,    \* history: [connection -> frames the server took]
  taken,      \* history: what clients took: [conn, request, frame, late]
  lines,      \* lines typed
  target,     \* the client the terminal's line is about to be sent to, or 0
  registered, \* history: connections in the order _set_active saw them
  typed       \* history: [line -> who was served as the latest when it was read]

terminalVars == <<lines, target, typed>>
serverVars == <<mode, handler, active, workers, permits, terminalVars, registered>>
clientVars == <<requests, waiting, late, taken>>
vars == <<tcpVars, serverVars, clientVars, arrived>>

TypeOK ==
  /\ TcpTypeOK
  /\ mode \in Modes /\ lines \in 0..MaxLines
  /\ \A c \in Conns : handler[c] \in {"none", "started", "reading", "replying", "done"}
  /\ active \in Conns \cup {0} /\ permits \in 0..Permits
  /\ Len(requests) <= MaxRequests
  /\ \A w \in workers : w.step \in {"waiting", "calling"} /\ w.request <= Len(requests)
  /\ \A c \in closed : handler[c] = "done"
  /\ target \in Conns \cup {0} /\ target # 0 => mode # "phone"
  /\ typed \in Seq(Conns \cup {0}) /\ Len(typed) = lines

Init ==
  /\ TcpInit /\ mode \in Modes
  /\ handler = [c \in Conns |-> "none"] /\ active = 0 /\ workers = {}
  /\ permits = Permits /\ requests = <<>> /\ waiting = [c \in Conns |-> 0]
  /\ late = {} /\ arrived = [c \in Conns |-> <<>>] /\ taken = {} /\ lines = 0
  /\ registered = <<>> /\ target = 0 /\ typed = <<>>
-----------------------------------------------------------------------------
(* The client is a Pico, which connects again when it lost its connection, *)
(* also before the server knows; it sends a request when it has the answer *)
(* to the one before or has given it up.                                   *)
Connect(c) ==
  /\ client[c] = "new" /\ \A d \in Conns : d < c => client[d] = "closed"
  /\ client' = [client EXCEPT ![c] = "open"]
  /\ handler' = [handler EXCEPT ![c] = "started"]
  /\ UNCHANGED <<up, down, atServer, atClient, closed, mode, active, workers, permits,
                 terminalVars, registered, clientVars, arrived>>

SendFramed(c) ==
  /\ client[c] = "open" /\ waiting[c] = 0 /\ Len(requests) < MaxRequests
  /\ \E size \in Sizes, ascii \in BOOLEAN :
       LET k == Len(requests) + 1 IN
       /\ requests' = Append(requests, [conn |-> c, size |-> size, ascii |-> ascii])
       /\ up' = [up EXCEPT ![c] = @ \o Pieces(Frame("request", k, size))]
       /\ waiting' = [waiting EXCEPT ![c] = k]
  /\ UNCHANGED <<down, atServer, atClient, client, closed, serverVars, late, taken,
                 arrived>>

PollBytes(c) ==
  /\ waiting[c] # 0 /\ Poll(c) /\ UNCHANGED <<serverVars, clientVars, arrived>>

TakeFrame(c) ==
  /\ waiting[c] # 0 /\ HasFrame(atClient[c])
  /\ taken' = taken \cup {[conn |-> c, request |-> waiting[c], late |-> c \in late,
                           pieces |-> First(atClient[c])]}
  /\ atClient' = [atClient EXCEPT ![c] = AfterFrame(@)]
  /\ waiting' = [waiting EXCEPT ![c] = 0]
  /\ UNCHANGED <<up, down, atServer, client, closed, serverVars, requests, late, arrived>>

GiveUp(c) ==
  /\ client[c] = "open" /\ waiting[c] # 0
  /\ waiting' = [waiting EXCEPT ![c] = 0] /\ late' = late \cup {c}
  /\ UNCHANGED <<tcpVars, serverVars, requests, taken, arrived>>

Leave(c) ==
  /\ ClientCloses(c) /\ waiting' = [waiting EXCEPT ![c] = 0]
  /\ UNCHANGED <<serverVars, requests, late, taken, arrived>>
-----------------------------------------------------------------------------
(* Reading.  _read_exact asks for the length and then for the payload; the *)
(* phone takes chunks as they come and keeps what lies behind a frame.     *)
SetActive(c) ==
  /\ handler[c] = "started" /\ handler' = [handler EXCEPT ![c] = "reading"]
  /\ IF mode = "phone" THEN UNCHANGED <<active, registered>>
     ELSE active' = c /\ registered' = Append(registered, c)
  /\ UNCHANGED <<tcpVars, mode, workers, permits, terminalVars, clientVars, arrived>>

TooLarge(c) == HasLength(atServer[c]) /\ Length(atServer[c]) = Oversize

ReadSome(c) ==
  /\ handler[c] = "reading" /\ ~HasFrame(atServer[c]) /\ ~TooLarge(c)
  /\ \E n \in 1..Len(up[c]) :
       /\ mode = "phone" \/ n <= Wanted(atServer[c])
       /\ atServer' = [atServer EXCEPT ![c] = @ \o SubSeq(up[c], 1, n)]
       /\ up' = [up EXCEPT ![c] = SubSeq(@, n + 1, Len(@))]
  /\ UNCHANGED <<down, atClient, client, closed, serverVars, clientVars, arrived>>

(* Mutant: what was read beyond the frame is dropped.                      *)
RestDropped(c) == <<>>
Remainder(c) == Rest(atServer[c])

Takes(c) ==
  /\ handler[c] = "reading" /\ HasFrame(atServer[c]) /\ ~TooLarge(c)
  /\ arrived' = [arrived EXCEPT ![c] = Append(@, First(atServer[c]))]
  /\ atServer' = [atServer EXCEPT ![c] = Remainder(c)]

Request(c) == First(atServer[c])[1].frame.of
IsAscii(c) == requests[Request(c)].ascii

(* The phone goes on reading when relay.reply has answered: see            *)
(* CalculatorRelay.                                                        *)
AwaitReply(c) ==
  /\ mode = "phone" /\ Takes(c)
  /\ handler' = [handler EXCEPT ![c] = "replying"]
  /\ UNCHANGED <<up, down, atClient, client, closed, mode, active, workers, permits,
                 terminalVars, registered, clientVars>>

WriteFrame(c) ==
  /\ handler[c] = "replying" /\ handler' = [handler EXCEPT ![c] = "reading"]
  /\ ToClient(c, Frame("reply", Last(arrived[c])[1].frame.of, 3))
  /\ UNCHANGED <<up, atServer, atClient, client, closed, mode, active, workers, permits,
                 terminalVars, registered, clientVars, arrived>>

Echo(c) ==
  /\ mode = "echo" /\ Takes(c) /\ IsAscii(c) /\ ToClient(c, Frame("reply", Request(c), 3))
  /\ UNCHANGED <<up, atClient, client, closed, serverVars, clientVars>>

StartWorker(c) ==
  /\ mode = "llm" /\ Takes(c) /\ IsAscii(c)
  /\ workers' = workers \cup {[conn |-> c, request |-> Request(c), step |-> "waiting"]}
  /\ UNCHANGED <<up, down, atClient, client, closed, mode, handler, active, permits, terminalVars,
                 registered, clientVars>>

(* The terminal mode answers nothing, no mode what is not ASCII.           *)
NoReply(c) ==
  /\ Takes(c) /\ mode # "phone" /\ (mode = "terminal" \/ ~IsAscii(c))
  /\ UNCHANGED <<up, down, atClient, client, closed, serverVars, clientVars>>
-----------------------------------------------------------------------------
(* The workers.  Errors of the connection to the model become a page; any  *)
(* other exception ends the thread without an answer.                      *)
Acquire(w) ==
  /\ w.step = "waiting" /\ permits > 0 /\ permits' = permits - 1
  /\ workers' = (workers \ {w}) \cup {[w EXCEPT !.step = "calling"]}
  /\ UNCHANGED <<tcpVars, mode, handler, active, terminalVars, registered, clientVars, arrived>>

(* Mutant: a worker that raises keeps its permit.                          *)
WorkerDiesHolding(w) ==
  /\ w.step = "calling" /\ workers' = workers \ {w}
  /\ UNCHANGED <<tcpVars, mode, handler, active, permits, terminalVars, registered, clientVars,
                 arrived>>

WorkerDies(w) ==
  /\ w.step = "calling" /\ permits' = permits + 1 /\ workers' = workers \ {w}
  /\ UNCHANGED <<tcpVars, mode, handler, active, terminalVars, registered, clientVars, arrived>>

WorkerReplies(w) ==
  /\ w.step = "calling" /\ permits' = permits + 1 /\ workers' = workers \ {w}
  /\ IF w.conn \in closed THEN UNCHANGED down
     ELSE ToClient(w.conn, Frame("reply", w.request, 3))
  /\ UNCHANGED <<up, atServer, atClient, client, closed, mode, handler, active, terminalVars,
                 registered, clientVars, arrived>>

(* The client registered last, while it is served.                         *)
Latest ==
  IF registered = <<>> \/ handler[Last(registered)] = "done" THEN 0 ELSE Last(registered)

(* _send_to_active reads the client under the lock and sends when it has   *)
(* let the lock go: by then the client may be replaced, or closed, and     *)
(* sendall on a closed socket raises.                                      *)
TypeLine ==
  /\ mode # "phone" /\ target = 0 /\ lines < MaxLines /\ lines' = lines + 1
  /\ target' = active /\ typed' = Append(typed, Latest)
  /\ UNCHANGED <<tcpVars, mode, handler, active, workers, permits, registered,
                 clientVars, arrived>>

SendLine ==
  /\ target # 0 /\ target' = 0
  /\ IF target \in closed THEN UNCHANGED down
     ELSE ToClient(target, Frame("line", lines, 3))
  /\ UNCHANGED <<up, atServer, atClient, client, closed, mode, handler, active, workers,
                 permits, lines, typed, registered, clientVars, arrived>>

(* Mutant: whoever leaves, nobody is active.                               *)
NobodyActive(c) == 0
ActiveWithout(c) == IF active = c THEN 0 ELSE active

(* End of file, within a frame or not, or a frame too large.               *)
HandlerEnds(c) ==
  /\ handler[c] = "reading"
  /\ TooLarge(c) \/ (up[c] = <<>> /\ client[c] = "closed" /\ ~HasFrame(atServer[c]))
  /\ handler' = [handler EXCEPT ![c] = "done"] /\ closed' = closed \cup {c}
  /\ active' = ActiveWithout(c)
  /\ UNCHANGED <<up, down, atServer, atClient, client, mode, workers, permits, terminalVars,
                 registered, clientVars, arrived>>

(* poll raises "peer closed".                                              *)
PeerClosed(c) ==
  /\ c \in closed /\ client[c] = "open" /\ down[c] = <<>>
  /\ client' = [client EXCEPT ![c] = "closed"] /\ waiting' = [waiting EXCEPT ![c] = 0]
  /\ UNCHANGED <<up, down, atServer, atClient, closed, serverVars, requests, late, taken,
                 arrived>>

ClientStep(c) ==
  Connect(c) \/ SendFramed(c) \/ PollBytes(c) \/ TakeFrame(c) \/ GiveUp(c) \/ Leave(c)
    \/ PeerClosed(c)
HandlerStep(c) ==
  SetActive(c) \/ ReadSome(c) \/ AwaitReply(c) \/ WriteFrame(c) \/ Echo(c)
    \/ StartWorker(c) \/ NoReply(c) \/ HandlerEnds(c)
WorkerStep(w) == Acquire(w) \/ WorkerDies(w) \/ WorkerReplies(w)

Next ==
  \/ \E c \in Conns : ClientStep(c) \/ HandlerStep(c)
  \/ \E w \in workers : WorkerStep(w)
  \/ TypeLine \/ SendLine

Spec == Init /\ [][Next]_vars

(* Threads that hold a permit end, as a model answers or fails within its  *)
(* timeout, and a thread gets a permit if there is one; nothing is assumed *)
(* of the clients.                                                         *)
Fairness ==
  /\ WF_vars(\E w \in workers : WorkerDies(w) \/ WorkerReplies(w))
  /\ WF_vars(\E w \in workers : Acquire(w))

FairSpec == Spec /\ Fairness
-----------------------------------------------------------------------------
SentOn(c) == {k \in 1..Len(requests) : requests[k].conn = c}
Bytes(k)  == Pieces(Frame("request", k, requests[k].size))
Number(pieces) == pieces[1].frame.of

(* However TCP cuts and joins the bytes, a server takes the frames of a    *)
(* connection whole, each once, in the order they were sent and leaving    *)
(* none out, and no byte of the others is lost while the client is there.  *)
RequestsArriveInOrder ==
  \A c \in Conns :
    /\ \A i \in DOMAIN arrived[c] : \E k \in SentOn(c) : arrived[c][i] = Bytes(k)
    /\ \A i, j \in DOMAIN arrived[c] : i < j => Number(arrived[c][i]) < Number(arrived[c][j])
    /\ \A k \in SentOn(c) :
         \/ Bytes(k) \in Range(arrived[c])
         \/ /\ \A i \in DOMAIN arrived[c] : Number(arrived[c][i]) < k
            /\ client[c] = "open" => Range(Bytes(k)) \subseteq Range(atServer[c] \o up[c])

(* FrameReader hands out whole frames; the answer is that to the request   *)
(* the client waits for unless it gave one up before (the bridge waits 30  *)
(* seconds, a worker up to 90 for a model and longer for its permit) or    *)
(* somebody typed a line.                                                  *)
RepliesArriveWhole ==
  \A t \in taken :
    /\ IsGenuine(t.pieces)
    /\ t.late \/ lines > 0 \/ t.pieces[1].frame.of = t.request

(* Never more model calls than permits, and no permit is lost, whatever    *)
(* ends a worker.                                                          *)
PermitsAreHeldByCalls ==
  Cardinality({w \in workers : w.step = "calling"}) + permits = Permits

(* What a client has got, or will get as long as it reads.                 *)
Line(k) == Pieces(Frame("line", k, 3))
Delivered(c) ==
  Range(atClient[c] \o down[c])
    \cup UNION {Range(t.pieces) : t \in {u \in taken : u.conn = c}}

(* A line typed on the terminal reaches the client that was registered     *)
(* last, and still served, when the line was read, and no other, however   *)
(* clients come, go and replace each other before it is sent; it is lost   *)
(* only when there was no such client, or that client has gone.            *)
LinesReachTheLatest ==
  /\ \A c \in Conns : \A piece \in Delivered(c) :
       piece.frame.kind = "line" => typed[piece.frame.of] = c
  /\ \A k \in DOMAIN typed : \A c \in Conns :
       typed[k] = c /\ client[c] = "open" /\ c \notin closed =>
         (target = c /\ k = lines) \/ Range(Line(k)) \subseteq Delivered(c)

(* Why: the active client is the one registered last.                      *)
LatestIsActive == active = Latest

(* No worker waits for ever, though any of them may die with an exception  *)
(* or lose its client.                                                     *)
WorkersFinish == workers # {} ~> workers = {}
=============================================================================
