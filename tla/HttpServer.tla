----------------------------- MODULE HttpServer -----------------------------
(***************************************************************************)
(* sample-net/http_server.h with sample-net/impl/boost_http_parser.h, on   *)
(* top of what TcpServer tells about a connection (ConnLifecycle).  The    *)
(* network thread appends what it reads to the connection's buffer and     *)
(* parses the buffer again from its start; a complete or a malformed       *)
(* request goes to handleServerRequest, which answers from any thread and  *)
(* at any time through cbkWrite.                                           *)
(*                                                                         *)
(* The bytes of a request are a few pieces: the head up to the empty line, *)
(* the empty line, the body in two halves.  A piece carries the number of  *)
(* its request; what else the bytes say is the request's kind.             *)
(***************************************************************************)
EXTENDS Integers, Sequences, FiniteSets, SequencesExt

CONSTANTS
  Conn,         \* the connections, by connId
  Kinds,        \* the kinds of requests that clients make
  Cuts,         \* the pieces after which a read may end inside a request
  Pipelines,    \* clients do not wait for an answer
  MaxRequests   \* bound on the number of requests

(* BARE is a POST without Content-Length, BAD is not HTTP.  BIG is HTTP,   *)
(* with more than beast's parser takes by default (8 kB of head, 1 MB of   *)
(* body).                                                                  *)
Parts == [GET  |-> <<"head", "end">>,
          POST |-> <<"head", "end", "body", "body">>,
          BARE |-> <<"head", "end">>,
          BIG  |-> <<"head", "end", "body", "body">>,
          BAD  |-> <<"junk">>]
Unreadable == {"BAD", "BIG"}
ContentLength == 2

Kind == DOMAIN Parts
Piece == [req : Nat \ {0}, part : {"head", "end", "body", "junk"}]

(* What ParseReq returns, or the error of a read that failed, with what    *)
(* it left in the HttpRequest.                                             *)
Result == [code : {0, 1, -1, -200}, req : Nat, body : Seq(Piece)]

ASSUME KindsAssumption == /\ Kinds \subseteq Kind
                          /\ Cuts \subseteq {"head", "end", "body"}
                          /\ Pipelines \in BOOLEAN
                          /\ MaxRequests \in Nat

VARIABLES
  told,      \* what the application last heard about each connection
  conns,     \* the keys of HttpServer::conns
  recv,      \* Connection::recv
  readable,  \* the connections that neither ended nor failed
  listening, \* Super::IsRunning()
  accepts,   \* the listening socket takes connections
  sent,      \* the kinds of the requests each client made
  wire,      \* sent and not read yet
  handed,    \* the calls of handleServerRequest
  waiting,   \* those whose cbkWrite was not called yet
  posted,    \* writes on their way to the network thread
  written,   \* the calls whose answer was written, per connection
  cut,       \* history: the connections on which a read ended inside a head
  refused    \* history: those on which Super::Write refused an answer

vars == <<told, conns, recv, readable, listening, accepts, sent, wire, handed,
          waiting, posted, written, cut, refused>>
serverVars == <<listening, accepts>>
clientVars == <<sent, wire>>
answerVars == <<waiting, posted, written>>
historyVars == <<cut, refused>>

Lifecycle == INSTANCE ConnLifecycle

TypeOK ==
  /\ told \in [Conn -> {"new", "Connected", "Shutdown", "Closed"}]
  /\ conns \in SUBSET Conn
  /\ recv \in [Conn -> Seq(Piece)]
  /\ readable \in SUBSET conns
  /\ listening \in BOOLEAN
  /\ accepts \in BOOLEAN
  /\ sent \in [Conn -> Seq(Kinds)]
  /\ wire \in [Conn -> Seq(Piece)]
  /\ handed \in [Conn -> Seq(Result)]
  /\ waiting \in SUBSET (Conn \X Nat)
  /\ posted \in Seq(Conn \X Nat)
  /\ written \in [Conn -> Seq(Nat)]
  /\ cut \in SUBSET Conn
  /\ refused \in SUBSET Conn

Init ==
  /\ told = [c \in Conn |-> "new"]
  /\ conns = {}
  /\ recv = [c \in Conn |-> << >>]
  /\ readable = {}
  /\ listening = FALSE
  /\ accepts = FALSE
  /\ sent = [c \in Conn |-> << >>]
  /\ wire = [c \in Conn |-> << >>]
  /\ handed = [c \in Conn |-> << >>]
  /\ waiting = {}
  /\ posted = << >>
  /\ written = [c \in Conn |-> << >>]
  /\ cut = {}
  /\ refused = {}

-----------------------------------------------------------------------------
(* The clients. *)

Pieces(i, kind) == [k \in DOMAIN Parts[kind] |-> [req |-> i, part |-> Parts[kind][k]]]

Requests == FoldFunction(LAMBDA s, n : Len(s) + n, 0, sent)

(* A client makes a request, in the usual case after the former one was    *)
(* answered.                                                               *)
Ask(c) ==
  /\ c \in readable
  /\ Pipelines \/ Len(written[c]) >= Len(sent[c])
  /\ Requests < MaxRequests
  /\ \E kind \in Kinds :
       /\ sent' = [sent EXCEPT ![c] = Append(@, kind)]
       /\ wire' = [wire EXCEPT ![c] = @ \o Pieces(Len(sent'[c]), kind)]
  /\ UNCHANGED <<told, conns, recv, readable, serverVars, handed, answerVars,
                 historyVars>>

-----------------------------------------------------------------------------
(* The parser. *)

Refused(code) == [code |-> code, req |-> 0, body |-> << >>]
Parsed(buf, body) == [code |-> 0, req |-> Head(buf).req, body |-> body]

(* boost's parser::put: anything but a complete header is an error, the    *)
(* error need_more included, and so is a header that says too much is to   *)
(* come.                                                                   *)
HasHeader(buf) == Len(buf) >= 2 /\ Head(buf).part = "head"

(* Mutant: a body of exactly the Content-Length is waited for to grow. *)
ParseReq_LessOrEqual(c, buf) ==
  LET kind == sent[c][Head(buf).req]
      body == SubSeq(buf, 3, Len(buf))
  IN IF ~HasHeader(buf) \/ kind = "BIG" THEN Refused(-1)
     ELSE IF kind = "GET" THEN Parsed(buf, << >>)
     ELSE IF kind = "POST" /\ Len(body) <= ContentLength THEN Refused(1)
     ELSE Parsed(buf, IF kind = "POST" THEN SubSeq(body, 1, ContentLength) ELSE body)

ParseReq(c, buf) ==
  LET kind == sent[c][Head(buf).req]
      body == SubSeq(buf, 3, Len(buf))
  IN IF ~HasHeader(buf) \/ kind = "BIG" THEN Refused(-1)
     ELSE IF kind = "GET" THEN Parsed(buf, << >>)
     ELSE IF kind = "POST" /\ Len(body) < ContentLength THEN Refused(1)
     ELSE Parsed(buf, IF kind = "POST" THEN SubSeq(body, 1, ContentLength) ELSE body)

-----------------------------------------------------------------------------
(* The network thread. *)

(* The listening socket takes connections until CloseOnEvent closes it,    *)
(* also while the server is Closing.                                       *)
OnNewConn(c) ==
  /\ accepts
  /\ Lifecycle!Accept(c)
  /\ conns' = conns \cup {c}
  /\ readable' = readable \cup {c}
  /\ UNCHANGED <<recv, serverVars, clientVars, handed, answerVars, historyVars>>

(* handleServerRequest(connId, err, req, cbkWrite) *)
Handle(c, result) ==
  /\ handed' = [handed EXCEPT ![c] = Append(@, result)]
  /\ waiting' = waiting \cup {<<c, Len(handed'[c])>>}
  /\ UNCHANGED <<posted, written>>

(* Mutant: the buffer is never cleared. *)
OnConnRequest_NoClear(c, buffer) ==
  LET data == recv[c] \o buffer
      result == ParseReq(c, data)
  IN /\ recv' = [recv EXCEPT ![c] = data]
     /\ IF result.code = 1 THEN UNCHANGED <<handed, answerVars>> ELSE Handle(c, result)

(* Mutant: the buffer is cleared after an incomplete request, too. *)
OnConnRequest_AlwaysClear(c, buffer) ==
  LET result == ParseReq(c, recv[c] \o buffer)
  IN /\ recv' = [recv EXCEPT ![c] = << >>]
     /\ IF result.code = 1 THEN UNCHANGED <<handed, answerVars>> ELSE Handle(c, result)

OnConnRequest(c, buffer) ==
  LET data == recv[c] \o buffer
      result == ParseReq(c, data)
  IN /\ recv' = [recv EXCEPT ![c] = IF result.code = 0 THEN << >> ELSE data]
     /\ IF result.code = 1 THEN UNCHANGED <<handed, answerVars>> ELSE Handle(c, result)

(* A read may end after n pieces of what the client sent: between two      *)
(* requests or where Cuts says.                                            *)
EndsRead(c, n) ==
  n < Len(wire[c]) => wire[c][n].part \in Cuts \/ wire[c][n].req # wire[c][n + 1].req

OnConnRead(c) ==
  /\ c \in readable
  /\ \E n \in 1..Len(wire[c]) :
       /\ EndsRead(c, n)
       /\ wire' = [wire EXCEPT ![c] = SubSeq(@, n + 1, Len(@))]
       /\ OnConnRequest(c, SubSeq(wire[c], 1, n))
       /\ cut' = IF wire[c][n].part = "head" THEN cut \cup {c} ELSE cut
  /\ UNCHANGED <<told, conns, readable, serverVars, sent, refused>>

(* TcpServer::OnConnRead and OnConnWrite with an error; the connection was *)
(* perhaps told to shut down before.                                       *)
ShutdownAndClose(c) == Lifecycle!Fail(c) \/ (told[c] = "Shutdown" /\ UNCHANGED told)

(* The client closed: err is 1, the handler is not called.                 *)
OnConnReadEof(c) ==
  /\ c \in readable
  /\ wire[c] = << >>
  /\ ShutdownAndClose(c)
  /\ readable' = readable \ {c}
  /\ UNCHANGED <<conns, recv, serverVars, clientVars, handed, answerVars, historyVars>>

(* The connection broke: the handler is called with an empty request.      *)
OnConnReadError(c) ==
  /\ c \in readable
  /\ ShutdownAndClose(c)
  /\ readable' = readable \ {c}
  /\ wire' = [wire EXCEPT ![c] = << >>]
  /\ Handle(c, Refused(-200))
  /\ UNCHANGED <<conns, recv, serverVars, sent, historyVars>>

OnCloseConn(c) ==
  /\ c \in conns
  /\ Lifecycle!Finish(c)
  /\ conns' = conns \ {c}
  /\ readable' = readable \ {c}
  /\ wire' = [wire EXCEPT ![c] = << >>]
  /\ UNCHANGED <<recv, serverVars, sent, handed, answerVars, historyVars>>

(* WriteOnEvent.  The connection may be gone (-302) or the write may fail: *)
(* OnConnWrite reports Shutdown in both cases.                             *)
WriteOnEvent ==
  /\ posted # << >>
  /\ posted' = Tail(posted)
  /\ LET c == Head(posted)[1] IN
       \/ /\ c \in conns
          /\ written' = [written EXCEPT ![c] = Append(@, Head(posted)[2])]
          /\ UNCHANGED told
       \/ /\ told' = [told EXCEPT ![c] = "Shutdown"]
          /\ UNCHANGED written
  /\ UNCHANGED <<conns, recv, readable, serverVars, clientVars, handed, waiting,
                 historyVars>>

-----------------------------------------------------------------------------
(* The application. *)

(* cbkWrite: Super::Write refuses when the server does not run any more,   *)
(* though the connection is still there.                                   *)
Answer(c, n) ==
  /\ <<c, n>> \in waiting
  /\ waiting' = waiting \ {<<c, n>>}
  /\ IF listening
     THEN posted' = Append(posted, <<c, n>>) /\ UNCHANGED refused
     ELSE refused' = refused \cup {c} /\ UNCHANGED posted
  /\ UNCHANGED <<told, conns, recv, readable, serverVars, clientVars, handed,
                 written, cut>>

(* The application waits for the end of each of its calls, like ListenSync *)
(* and CloseSync.  They change the listening only, no connection.          *)
Listen ==
  /\ ~listening /\ ~accepts
  /\ listening' = TRUE
  /\ UNCHANGED <<told, conns, recv, readable, accepts, clientVars, handed,
                 answerVars, historyVars>>

OnListen ==
  /\ listening /\ ~accepts
  /\ \E ok \in BOOLEAN : listening' = ok /\ accepts' = ok
  /\ UNCHANGED <<told, conns, recv, readable, clientVars, handed, answerVars,
                 historyVars>>

Close ==
  /\ listening /\ accepts
  /\ listening' = FALSE
  /\ UNCHANGED <<told, conns, recv, readable, accepts, clientVars, handed,
                 answerVars, historyVars>>

CloseOnEvent ==
  /\ ~listening /\ accepts
  /\ accepts' = FALSE
  /\ UNCHANGED <<told, conns, recv, readable, listening, clientVars, handed,
                 answerVars, historyVars>>

-----------------------------------------------------------------------------
Next ==
  \/ Listen \/ OnListen \/ Close \/ CloseOnEvent
  \/ WriteOnEvent
  \/ \E c \in Conn : \/ Ask(c)
                     \/ OnNewConn(c) \/ OnCloseConn(c)
                     \/ OnConnRead(c) \/ OnConnReadEof(c) \/ OnConnReadError(c)
                     \/ \E n \in DOMAIN handed[c] : Answer(c, n)

(* The network thread goes on; the application answers what it was handed. *)
Fairness == /\ WF_vars(WriteOnEvent)
            /\ \A c \in Conn : /\ WF_vars(OnConnRead(c))
                               /\ WF_vars(OnCloseConn(c))
                               /\ WF_vars(\E n \in DOMAIN handed[c] : Answer(c, n))

Spec == Init /\ [][Next]_vars /\ Fairness

-----------------------------------------------------------------------------
(* Properties. *)

(* What follows the head and the empty line of the i-th request. *)
BodyPieces(i, kind) == SubSeq(Pieces(i, kind), 3, Len(Pieces(i, kind)))

(* The requests that reach the application without an error are the first  *)
(* ones the client made, in order, each once and with the whole of its own *)
(* body, however the reads were cut; after the first error there are none, *)
(* as the bad bytes stay in recv.  Not so on a connection on which a read  *)
(* ended inside a head.                                                    *)
HandedWhole ==
  \A c \in Conn \ cut : \A n \in DOMAIN handed[c] :
    handed[c][n].code = 0 =>
      /\ handed[c][n] = [code |-> 0, req |-> n, body |-> BodyPieces(n, sent[c][n])]
      /\ \A m \in 1..n - 1 : handed[c][m].code = 0

(* ParseReq refuses a connection only after something it cannot read was   *)
(* sent on it, or after a read that ended inside a head: never for a body  *)
(* that comes in parts, and never one connection for what another sent.    *)
RefusalHasCause ==
  \A c \in Conn \ cut : \A n \in DOMAIN handed[c] :
    handed[c][n].code = -1 => \E i \in DOMAIN sent[c] : sent[c][i] \in Unreadable

(* ParseReq refuses only what it cannot read: bytes that are still missing *)
(* are not an error (http_interface.h:103).                                *)
ErrorMeansMalformed ==
  \A c \in Conn : \A n \in DOMAIN handed[c] :
    handed[c][n].code = -1 => \E i \in DOMAIN sent[c] : sent[c][i] \in Unreadable

(* The requests before the first unreadable one, the calls before the      *)
(* first error, and the answers to these calls that were written.          *)
Good(c) == {i \in DOMAIN sent[c] : \A j \in 1..i : sent[c][j] \notin Unreadable}
IsGood(c, n) == \A m \in 1..n : handed[c][m].code = 0
Handed(c) == {n \in DOMAIN handed[c] : IsGood(c, n)}
Written(c) == {k \in DOMAIN written[c] : IsGood(c, written[c][k])}

Exchange == INSTANCE HttpExchange WITH
  asked    <- [c \in Conn |-> Cardinality(Good(c))],
  handed   <- [c \in Conn |-> Cardinality(Handed(c))],
  answered <- [c \in Conn |-> Cardinality(Written(c))],
  up       <- {c \in Conn \ (refused \cup cut) : told[c] \in {"new", "Connected"}}

(* HttpServer implements HttpExchange: as long as a connection is up, no   *)
(* read on it ended inside a head and the server was not closed under an   *)
(* answer, every well-formed request gets to the application and its       *)
(* answer to the client, whether or not the server listens in between.     *)
ImplementsExchange == Exchange!Spec
=============================================================================
