-------------------------- MODULE HttpServerProofs --------------------------
(***************************************************************************)
(* What holds of an HTTP server for any number of connections and          *)
(* requests, however the reads cut the bodies and whenever connections     *)
(* break.                                                                  *)
(***************************************************************************)
EXTENDS PoliteHttpServer, SequenceTheorems, FiniteSetTheorems, TLAPS

-----------------------------------------------------------------------------
(* The pieces of one request and what the parser makes of them. *)

(* What is sent of a request are its parts in order. *)
LEMMA PiecesOf ==
  ASSUME NEW i \in Nat \ {0}, NEW kind \in Kind
  PROVE  /\ Pieces(i, kind) \in Seq(Piece)
         /\ Len(Pieces(i, kind)) = Len(Parts[kind])
         /\ \A k \in 1..Len(Parts[kind]) :
              Pieces(i, kind)[k].req = i /\ Pieces(i, kind)[k].part = Parts[kind][k]
<1>1. /\ DOMAIN Parts[kind] = 1..Len(Parts[kind])
      /\ Len(Parts[kind]) \in Nat
      /\ \A k \in 1..Len(Parts[kind]) : Parts[kind][k] \in {"head", "end", "body", "junk"}
  <2>1. CASE kind \in {"GET", "BARE"}
    BY <2>1 DEF Parts
  <2>2. CASE kind \in {"POST", "BIG"}
    BY <2>2 DEF Parts
  <2>3. CASE kind = "BAD"
    BY <2>3 DEF Parts
  <2> QED
    BY <2>1, <2>2, <2>3 DEF Kind, Parts
<1>2. \A k \in 1..Len(Parts[kind]) : [req |-> i, part |-> Parts[kind][k]] \in Piece
  BY <1>1 DEF Piece
<1>3. Pieces(i, kind) = [k \in 1..Len(Parts[kind]) |-> [req |-> i, part |-> Parts[kind][k]]]
  BY <1>1 DEF Pieces
<1> QED
  BY <1>1, <1>2, <1>3

(* A buffer that starts with something unreadable is refused. *)
LEMMA UnreadableIsRefused ==
  ASSUME NEW c \in Conn, NEW buf \in Seq(Piece), buf # << >>,
         Head(buf).part = "junk" \/ sent[c][Head(buf).req] = "BIG"
  PROVE  ParseReq(c, buf) = Refused(-1)
BY DEF ParseReq, HasHeader

(* What the parser returns is a result. *)
LEMMA ResultTypes ==
  /\ \A code \in {0, 1, -1, -200} : Refused(code) \in Result
  /\ \A buf, body \in Seq(Piece) : buf # << >> => Parsed(buf, body) \in Result
<1>1. ASSUME NEW buf \in Seq(Piece), buf # << >> PROVE Head(buf).req \in Nat
  <2>1. Head(buf) \in Piece
    BY <1>1, HeadTailProperties
  <2> QED
    BY <2>1 DEF Piece
<1> QED
  BY <1>1 DEF Refused, Parsed, Result

(* ParseReq returns a result, whatever was received. *)
LEMMA ParseReqType ==
  ASSUME NEW c \in Conn, NEW buf \in Seq(Piece), buf # << >>
  PROVE  ParseReq(c, buf) \in Result
<1> DEFINE body == SubSeq(buf, 3, Len(buf))
<1>1. body \in Seq(Piece)
  BY SubSeqProperties, LenProperties, ElementOfSeq
<1>2. Len(body) >= ContentLength => SubSeq(body, 1, ContentLength) \in Seq(Piece)
  BY <1>1, SubSeqProperties, ElementOfSeq, LenProperties DEF ContentLength
<1>3. << >> \in Seq(Piece) /\ Len(body) \in Nat /\ ContentLength \in Nat
  BY <1>1 DEF ContentLength
<1>4. ~(Len(body) < ContentLength) => Len(body) >= ContentLength
  BY <1>3
<1> HIDE DEF body
<1> QED
  BY <1>1, <1>2, <1>3, <1>4, ResultTypes DEF ParseReq, body

(* A prefix of a request that does not end inside the head is incomplete   *)
(* only in the body of a POST.                                             *)
LEMMA PrefixParse ==
  ASSUME NEW c \in Conn, NEW i \in Nat \ {0}, NEW kind \in Kind, sent[c][i] = kind,
         NEW m \in 1..Len(Pieces(i, kind)), Pieces(i, kind)[m].part # "head"
  PROVE  \/ /\ kind \in Unreadable
            /\ kind = "BAD" => Head(SubSeq(Pieces(i, kind), 1, m)).part = "junk"
            /\ Head(SubSeq(Pieces(i, kind), 1, m)).req = i
            /\ ParseReq(c, SubSeq(Pieces(i, kind), 1, m)) = Refused(-1)
         \/ /\ kind = "POST" /\ m \in 2..3
            /\ ParseReq(c, SubSeq(Pieces(i, kind), 1, m)) = Refused(1)
         \/ /\ kind \notin Unreadable /\ m = Len(Pieces(i, kind))
            /\ ParseReq(c, SubSeq(Pieces(i, kind), 1, m))
                 = [code |-> 0, req |-> i, body |-> BodyPieces(i, kind)]
<1> SUFFICES ASSUME NEW P, P = Pieces(i, kind), m \in 1..Len(P), P[m].part # "head",
                    NEW data, data = SubSeq(P, 1, m)
             PROVE  \/ /\ kind \in Unreadable
                       /\ kind = "BAD" => Head(data).part = "junk"
                       /\ Head(data).req = i
                       /\ ParseReq(c, data) = Refused(-1)
                    \/ kind = "POST" /\ m \in 2..3 /\ ParseReq(c, data) = Refused(1)
                    \/ /\ kind \notin Unreadable /\ m = Len(P)
                       /\ ParseReq(c, data)
                            = [code |-> 0, req |-> i, body |-> BodyPieces(i, kind)]
  OBVIOUS
<1>2. /\ P \in Seq(Piece) /\ Len(P) = Len(Parts[kind]) /\ Len(P) \in Nat
      /\ \A k \in 1..Len(P) : P[k].req = i /\ P[k].part = Parts[kind][k]
  BY PiecesOf
<1>3. /\ data \in Seq(Piece) /\ Len(data) = m
      /\ \A k \in 1..m : data[k] = P[k]
  <2>1. m \in Nat /\ 1 <= m /\ m <= Len(P)
    BY <1>2
  <2>2. \A k \in 1..m : P[k] \in Piece
    BY <1>2, <2>1, ElementOfSeq
  <2> QED
    BY <2>1, <2>2, SubSeqProperties
<1>4. data # << >> /\ Head(data).req = i /\ Head(data).part = Parts[kind][1]
  <2>1. data[1].req = i /\ data[1].part = Parts[kind][1] /\ Len(data) # 0
    BY <1>2, <1>3
  <2> QED
    BY <2>1, <1>3
<1>5. sent[c][Head(data).req] = kind
  BY <1>4
<1>6. m = Len(P) => data = P
  BY <1>2, SubSeqFull
<1>7. data = P => SubSeq(data, 3, Len(data)) = BodyPieces(i, kind)
  BY DEF BodyPieces
<1>8. CASE kind = "BAD"
  <2>1. Head(data).part = "junk"
    BY <1>4, <1>8 DEF Parts
  <2> QED
    BY <1>3, <1>4, <1>8, <2>1, UnreadableIsRefused DEF Unreadable
<1>9. CASE kind \in {"GET", "BARE"}
  <2>1. Len(P) = 2 /\ Parts[kind][1] = "head"
    BY <1>2, <1>9 DEF Parts
  <2>2. P[1].part = "head"
    BY <2>1, <1>2
  <2>3. m = 2 /\ HasHeader(data) /\ data = P
    BY <2>1, <2>2, <1>3, <1>4, <1>6 DEF HasHeader
  <2>4. SubSeq(data, 3, Len(data)) = << >>
    BY <1>3, <2>3, SubSeqEmpty
  <2>5. ParseReq(c, data) = Parsed(data, << >>)
    BY <2>3, <2>4, <1>5, <1>9 DEF ParseReq
  <2>6. BodyPieces(i, kind) = << >>
    BY <2>3, <2>4, <1>7
  <2> QED
    BY <2>1, <2>3, <2>5, <2>6, <1>4, <1>9 DEF Parsed, Unreadable
<1>10. CASE kind = "POST"
  <2>1. Len(P) = 4 /\ Parts[kind][1] = "head"
    BY <1>2, <1>10 DEF Parts
  <2>2. P[1].part = "head"
    BY <2>1, <1>2
  <2>3. m \in 2..4 /\ HasHeader(data)
    BY <2>1, <2>2, <1>3, <1>4 DEF HasHeader
  <2>4. ASSUME NEW body, body = SubSeq(data, 3, Len(data))
        PROVE  body \in Seq(Piece) /\ Len(body) = m - 2
    <3>1. \A k \in 3..m : data[k] \in Piece
      BY <1>3, <2>3, ElementOfSeq
    <3>2. 3 \in Int /\ m \in Int
      BY <2>3
    <3>3. SubSeq(data, 3, m) \in Seq(Piece) /\ Len(SubSeq(data, 3, m)) = IF 3 <= m THEN m - 3 + 1 ELSE 0
      BY <3>1, <3>2, SubSeqProperties
    <3> QED
      BY <3>3, <2>4, <2>3, <1>3
  <2>5. PICK body : body = SubSeq(data, 3, Len(data))
    OBVIOUS
  <2>6. body \in Seq(Piece) /\ Len(body) = m - 2
    BY <2>4, <2>5
  <2>7. CASE m \in 2..3
    <3>1. Len(body) < ContentLength
      BY <2>6, <2>7 DEF ContentLength
    <3>2. ParseReq(c, data) = Refused(1)
      BY <2>3, <2>5, <3>1, <1>5, <1>10 DEF ParseReq
    <3> QED
      BY <3>2, <2>7, <1>10
  <2>8. CASE m = 4
    <3>1. ~(Len(body) < ContentLength) /\ SubSeq(body, 1, ContentLength) = body
      BY <2>6, <2>8, SubSeqFull DEF ContentLength
    <3>2. body = BodyPieces(i, kind)
      BY <2>1, <2>5, <2>8, <1>6, <1>7
    <3>3. ParseReq(c, data) = Parsed(data, body)
      BY <2>3, <2>5, <3>1, <1>5, <1>10 DEF ParseReq
    <3> QED
      BY <3>2, <3>3, <2>1, <2>8, <1>4, <1>10 DEF Parsed, Unreadable
  <2> QED
    BY <2>3, <2>7, <2>8
<1>11. CASE kind = "BIG"
  <2>1. sent[c][Head(data).req] = "BIG"
    BY <1>5, <1>11
  <2>2. ParseReq(c, data) = Refused(-1)
    BY <1>3, <1>4, <2>1, UnreadableIsRefused
  <2> QED
    BY <1>4, <1>11, <2>2 DEF Unreadable
<1> QED
  BY <1>8, <1>9, <1>10, <1>11 DEF Kind, Parts

-----------------------------------------------------------------------------
(* Types. *)

(* The invariant holds at first. *)
LEMMA InitPolite == Init => PoliteInv
<1> SUFFICES ASSUME Init PROVE PoliteInv
  OBVIOUS
<1>1. TypeOK
  <2>1. /\ told \in [Conn -> {"new", "Connected", "Shutdown", "Closed"}]
        /\ recv \in [Conn -> Seq(Piece)] /\ wire \in [Conn -> Seq(Piece)]
        /\ sent \in [Conn -> Seq(Kinds)]
    BY DEF Init
  <2>2. /\ handed \in [Conn -> Seq(Result)] /\ written \in [Conn -> Seq(Nat)]
        /\ posted \in Seq(Conn \X Nat)
    BY DEF Init
  <2>3. /\ conns \in SUBSET Conn /\ readable \in SUBSET conns
        /\ waiting \in SUBSET (Conn \X Nat)
        /\ cut \in SUBSET Conn /\ refused \in SUBSET Conn
        /\ listening \in BOOLEAN /\ accepts \in BOOLEAN
    BY DEF Init
  <2> QED
    BY <2>1, <2>2, <2>3 DEF TypeOK
<1>2. AnswerInv /\ NewInv /\ ReadInv
  BY DEF Init, AnswerInv, WaitingInv, PostedInv, WrittenInv, NewInv, ReadInv
<1>3. \A c \in Conn : DOMAIN handed[c] = {} /\ Len(handed[c]) = 0
  BY DEF Init
<1>4. MadeInv /\ HandedWhole /\ RefusalHasCause
  BY <1>3 DEF MadeInv, HandedWhole, RefusalHasCause
<1> QED
  BY <1>1, <1>2, <1>4 DEF PoliteInv

(* A read takes a part of the wire that is not empty. *)
LEMMA Cut ==
  ASSUME NEW S, NEW w \in Seq(S), NEW n \in 1..Len(w)
  PROVE  /\ SubSeq(w, 1, n) \in Seq(S) /\ Len(SubSeq(w, 1, n)) = n
         /\ SubSeq(w, n + 1, Len(w)) \in Seq(S)
         /\ n \in Nat /\ n # 0
<1>1. Len(w) \in Nat /\ n \in Nat /\ 1 <= n /\ n <= Len(w)
  OBVIOUS
<1>2. \A k \in 1..Len(w) : w[k] \in S
  BY ElementOfSeq
<1>3. /\ SubSeq(w, 1, n) \in Seq(S)
      /\ Len(SubSeq(w, 1, n)) = IF 1 <= n THEN n - 1 + 1 ELSE 0
  BY <1>1, <1>2, SubSeqProperties
<1>4. SubSeq(w, n + 1, Len(w)) \in Seq(S)
  BY <1>1, <1>2, SubSeqProperties
<1> QED
  BY <1>1, <1>3, <1>4

(* What a client's request changes. *)
LEMMA AskTyped ==
  ASSUME TypeOK, NEW c \in Conn, Ask(c)
  PROVE  \E kind \in Kinds :
           /\ kind \in Kind
           /\ sent' = [sent EXCEPT ![c] = Append(sent[c], kind)]
           /\ sent'[c] = Append(sent[c], kind)
           /\ Len(sent'[c]) = Len(sent[c]) + 1 /\ Len(sent[c]) \in Nat
           /\ Pieces(Len(sent'[c]), kind) \in Seq(Piece)
           /\ wire' = [wire EXCEPT ![c] = wire[c] \o Pieces(Len(sent'[c]), kind)]
<1>1. PICK kind \in Kinds :
        /\ sent' = [sent EXCEPT ![c] = Append(@, kind)]
        /\ wire' = [wire EXCEPT ![c] = @ \o Pieces(Len(sent'[c]), kind)]
  BY DEF Ask
<1>2. sent[c] \in Seq(Kinds) /\ sent'[c] = Append(sent[c], kind)
  BY <1>1 DEF TypeOK
<1>3. Len(sent[c]) \in Nat /\ Len(sent'[c]) = Len(sent[c]) + 1
  BY <1>2
<1>4. kind \in Kind /\ Len(sent'[c]) \in Nat \ {0}
  BY <1>3, KindsAssumption
<1>5. Pieces(Len(sent'[c]), kind) \in Seq(Piece)
  BY <1>4, PiecesOf
<1> QED
  BY <1>1, <1>2, <1>3, <1>4, <1>5

(* Handing a request over keeps the types. *)
LEMMA HandleTyped ==
  ASSUME TypeOK, NEW c \in Conn, NEW result \in Result, Handle(c, result)
  PROVE  /\ handed' \in [Conn -> Seq(Result)]
         /\ waiting' \in SUBSET (Conn \X Nat)
         /\ posted' \in Seq(Conn \X Nat) /\ written' \in [Conn -> Seq(Nat)]
<1>1. handed' = [handed EXCEPT ![c] = Append(handed[c], result)]
  BY DEF Handle
<1>2. handed[c] \in Seq(Result)
  BY DEF TypeOK
<1>3. Append(handed[c], result) \in Seq(Result)
  BY <1>2
<1>4. handed' \in [Conn -> Seq(Result)]
  BY <1>1, <1>3 DEF TypeOK
<1>5. Len(handed'[c]) \in Nat
  BY <1>4
<1> QED
  BY <1>4, <1>5 DEF Handle, TypeOK

(* The buffer that is parsed. *)
LEMMA ReadTyped ==
  ASSUME TypeOK, NEW c \in Conn, NEW n \in 1..Len(wire[c])
  PROVE  LET data == recv[c] \o SubSeq(wire[c], 1, n) IN
           data \in Seq(Piece) /\ data # << >> /\ ParseReq(c, data) \in Result
<1>1. recv[c] \in Seq(Piece) /\ wire[c] \in Seq(Piece)
  BY DEF TypeOK
<1>2. /\ SubSeq(wire[c], 1, n) \in Seq(Piece) /\ Len(SubSeq(wire[c], 1, n)) = n
      /\ n \in Nat /\ n # 0
  BY <1>1, Cut
<1>3. PICK data : data = recv[c] \o SubSeq(wire[c], 1, n)
  OBVIOUS
<1>4. data \in Seq(Piece) /\ Len(data) = Len(recv[c]) + n
  BY <1>1, <1>2, <1>3, ConcatProperties
<1>5. data # << >>
  BY <1>1, <1>2, <1>4
<1>6. ParseReq(c, data) \in Result
  BY <1>4, <1>5, ParseReqType
<1> QED
  BY <1>3, <1>4, <1>5, <1>6

(* Every step keeps the types. *)
LEMMA NextTyped == TypeOK /\ [Next]_vars => TypeOK'
<1> SUFFICES ASSUME TypeOK, [Next]_vars PROVE TypeOK'
  OBVIOUS
<1>1. CASE Close
  BY <1>1 DEF Close, TypeOK, clientVars, answerVars, historyVars
<1>2. CASE WriteOnEvent
  <2>1. posted \in Seq(Conn \X Nat) /\ posted # << >>
    BY <1>2 DEF WriteOnEvent, TypeOK
  <2>2. Tail(posted) \in Seq(Conn \X Nat) /\ Head(posted) \in Conn \X Nat
    BY <2>1, HeadTailProperties
  <2>3. PICK c \in Conn, n \in Nat : Head(posted) = <<c, n>>
    BY <2>2
  <2>4. Append(written[c], n) \in Seq(Nat)
    BY DEF TypeOK
  <2>5. \/ written' = [written EXCEPT ![c] = Append(written[c], n)] /\ UNCHANGED told
        \/ told' = [told EXCEPT ![c] = "Shutdown"] /\ UNCHANGED written
    BY <1>2, <2>3 DEF WriteOnEvent
  <2>6. posted' \in Seq(Conn \X Nat)
    BY <1>2, <2>2 DEF WriteOnEvent
  <2>7. written' \in [Conn -> Seq(Nat)] /\ told' \in [Conn -> {"new", "Connected", "Shutdown", "Closed"}]
    BY <2>4, <2>5 DEF TypeOK
  <2> QED
    BY <1>2, <2>6, <2>7 DEF WriteOnEvent, TypeOK, serverVars, clientVars, historyVars
<1>3. ASSUME NEW c \in Conn, Ask(c) PROVE TypeOK'
  <2>1. PICK kind \in Kinds :
          /\ sent' = [sent EXCEPT ![c] = Append(sent[c], kind)]
          /\ Pieces(Len(sent'[c]), kind) \in Seq(Piece)
          /\ wire' = [wire EXCEPT ![c] = wire[c] \o Pieces(Len(sent'[c]), kind)]
    BY <1>3, AskTyped
  <2>2. wire[c] \o Pieces(Len(sent'[c]), kind) \in Seq(Piece)
    BY <2>1, ConcatProperties DEF TypeOK
  <2>3. Append(sent[c], kind) \in Seq(Kinds)
    BY DEF TypeOK
  <2>4. sent' \in [Conn -> Seq(Kinds)] /\ wire' \in [Conn -> Seq(Piece)]
    BY <2>1, <2>2, <2>3 DEF TypeOK
  <2> QED
    BY <1>3, <2>4 DEF Ask, TypeOK, serverVars, answerVars, historyVars
<1>4. ASSUME NEW c \in Conn, OnNewConn(c) PROVE TypeOK'
  BY <1>4 DEF OnNewConn, Lifecycle!Accept, TypeOK, serverVars, clientVars, answerVars,
              historyVars
<1>5. ASSUME NEW c \in Conn, OnCloseConn(c) PROVE TypeOK'
  BY <1>5 DEF OnCloseConn, Lifecycle!Finish, TypeOK, serverVars, answerVars, historyVars
<1>6. ASSUME NEW c \in Conn, OnConnRead(c) PROVE TypeOK'
  <2>1. PICK n \in 1..Len(wire[c]) :
          /\ wire' = [wire EXCEPT ![c] = SubSeq(@, n + 1, Len(@))]
          /\ OnConnRequest(c, SubSeq(wire[c], 1, n))
    BY <1>6 DEF OnConnRead
  <2>2. PICK data : data = recv[c] \o SubSeq(wire[c], 1, n)
    OBVIOUS
  <2>3. data \in Seq(Piece) /\ ParseReq(c, data) \in Result
    BY <2>2, ReadTyped
  <2>4. /\ recv' = [recv EXCEPT ![c] = IF ParseReq(c, data).code = 0 THEN << >> ELSE data]
        /\ UNCHANGED <<handed, answerVars>> \/ Handle(c, ParseReq(c, data))
    BY <2>1, <2>2 DEF OnConnRequest
  <2>5. recv' \in [Conn -> Seq(Piece)]
    BY <2>3, <2>4 DEF TypeOK
  <2>6. /\ handed' \in [Conn -> Seq(Result)]
        /\ waiting' \in SUBSET (Conn \X Nat)
        /\ posted' \in Seq(Conn \X Nat) /\ written' \in [Conn -> Seq(Nat)]
    BY <2>3, <2>4, HandleTyped DEF answerVars, TypeOK
  <2>7. SubSeq(wire[c], n + 1, Len(wire[c])) \in Seq(Piece)
    BY Cut DEF TypeOK
  <2>8. wire' \in [Conn -> Seq(Piece)]
    BY <2>1, <2>7 DEF TypeOK
  <2> QED
    BY <1>6, <2>5, <2>6, <2>8 DEF OnConnRead, TypeOK, serverVars
<1>7. ASSUME NEW c \in Conn, OnConnReadEof(c) PROVE TypeOK'
  BY <1>7 DEF OnConnReadEof, ShutdownAndClose, Lifecycle!Fail, TypeOK, serverVars, clientVars,
              answerVars, historyVars
<1>8. ASSUME NEW c \in Conn, OnConnReadError(c) PROVE TypeOK'
  <2>1. /\ handed' \in [Conn -> Seq(Result)]
        /\ waiting' \in SUBSET (Conn \X Nat)
        /\ posted' \in Seq(Conn \X Nat) /\ written' \in [Conn -> Seq(Nat)]
    BY <1>8, ResultTypes, HandleTyped DEF OnConnReadError
  <2>2. told' \in [Conn -> {"new", "Connected", "Shutdown", "Closed"}]
    BY <1>8 DEF OnConnReadError, ShutdownAndClose, Lifecycle!Fail, TypeOK
  <2>3. wire' \in [Conn -> Seq(Piece)]
    BY <1>8 DEF OnConnReadError, TypeOK
  <2> QED
    BY <1>8, <2>1, <2>2, <2>3 DEF OnConnReadError, TypeOK, serverVars, historyVars
<1>9. ASSUME NEW c \in Conn, NEW n \in DOMAIN handed[c], Answer(c, n) PROVE TypeOK'
  <2>1. handed[c] \in Seq(Result) /\ n \in Nat
    BY DEF TypeOK
  <2>2. Append(posted, <<c, n>>) \in Seq(Conn \X Nat)
    BY <2>1, AppendProperties DEF TypeOK
  <2> QED
    BY <1>9, <2>2 DEF Answer, TypeOK, serverVars, clientVars
<1>10. CASE UNCHANGED vars
  BY <1>10 DEF vars, TypeOK
<1>11. CASE Listen \/ OnListen \/ CloseOnEvent
  BY <1>11 DEF Listen, OnListen, CloseOnEvent, TypeOK, clientVars, answerVars, historyVars
<1> QED
  BY <1>1, <1>2, <1>3, <1>4, <1>5, <1>6, <1>7, <1>8, <1>9, <1>10, <1>11 DEF Next

-----------------------------------------------------------------------------
(* Answers. *)

(* Who touches no answer disturbs none. *)
LEMMA AnswersUnmoved ==
  AnswerInv /\ UNCHANGED <<handed, waiting, posted, written>> => AnswerInv'
BY DEF AnswerInv, WaitingInv, PostedInv, WrittenInv

(* A request that is handed over has no answer yet. *)
LEMMA HandleAnswers ==
  ASSUME TypeOK, AnswerInv, NEW c \in Conn, NEW result \in Result, Handle(c, result)
  PROVE  AnswerInv'
<1>1. /\ handed' = [handed EXCEPT ![c] = Append(handed[c], result)]
      /\ posted' = posted /\ written' = written
  BY DEF Handle
<1>2. /\ Len(handed'[c]) = Len(handed[c]) + 1 /\ Len(handed[c]) \in Nat
      /\ \A d \in Conn : d # c => handed'[d] = handed[d]
  BY <1>1 DEF TypeOK
<1>3. \A d \in Conn : 1..Len(handed[d]) \subseteq 1..Len(handed'[d])
  <2> SUFFICES ASSUME NEW d \in Conn PROVE 1..Len(handed[d]) \subseteq 1..Len(handed'[d])
    OBVIOUS
  <2>1. CASE d = c
    BY <1>2, <2>1
  <2>2. CASE d # c
    BY <1>2, <2>2
  <2> QED
    BY <2>1, <2>2
<1>4. PICK w : w = <<c, Len(handed[c]) + 1>>
  OBVIOUS
<1>5. waiting' = waiting \cup {w}
  BY <1>2, <1>4 DEF Handle
<1>6. w[1] = c /\ w[2] = Len(handed[c]) + 1
  BY <1>4
<1>7. \A d \in Conn : \A n \in 1..Len(handed[d]) : <<d, n>> # w
  BY <1>2, <1>4
<1>8. WaitingInv'
  <2>1. w[2] \in 1..Len(handed'[w[1]])
    BY <1>2, <1>6
  <2>2. ASSUME NEW v \in waiting PROVE v[2] \in 1..Len(handed'[v[1]])
    <3>1. v[1] \in Conn /\ v[2] \in 1..Len(handed[v[1]])
      BY DEF AnswerInv, WaitingInv, TypeOK
    <3> QED
      BY <3>1, <1>3
  <2> QED
    BY <2>1, <2>2, <1>5 DEF WaitingInv
<1>9. PostedInv'
  <2>1. ASSUME NEW i \in 1..Len(posted)
        PROVE  /\ \E d \in Conn : \E n \in 1..Len(handed'[d]) : posted[i] = <<d, n>>
               /\ posted[i] \notin waiting'
               /\ \A j \in 1..Len(posted) : posted[i] = posted[j] => i = j
    <3>1. /\ \E d \in Conn : \E n \in 1..Len(handed[d]) : posted[i] = <<d, n>>
          /\ posted[i] \notin waiting
          /\ \A j \in 1..Len(posted) : posted[i] = posted[j] => i = j
      BY DEF AnswerInv, PostedInv
    <3>2. PICK d \in Conn : \E n \in 1..Len(handed[d]) : posted[i] = <<d, n>>
      BY <3>1
    <3>3. PICK n \in 1..Len(handed[d]) : posted[i] = <<d, n>>
      BY <3>2
    <3>4. n \in 1..Len(handed'[d]) /\ posted[i] # w
      BY <3>3, <1>3, <1>7
    <3> QED
      BY <3>1, <3>3, <3>4, <1>5
  <2> QED
    BY <2>1, <1>1 DEF PostedInv
<1>10. WrittenInv'
  <2>1. ASSUME NEW d \in Conn, NEW k \in 1..Len(written[d])
        PROVE  /\ written[d][k] \in 1..Len(handed'[d])
               /\ <<d, written[d][k]>> \notin waiting'
               /\ \A i \in 1..Len(posted) : posted[i] # <<d, written[d][k]>>
               /\ \A l \in 1..Len(written[d]) : written[d][k] = written[d][l] => k = l
    <3>1. /\ written[d][k] \in 1..Len(handed[d])
          /\ <<d, written[d][k]>> \notin waiting
          /\ \A i \in 1..Len(posted) : posted[i] # <<d, written[d][k]>>
          /\ \A l \in 1..Len(written[d]) : written[d][k] = written[d][l] => k = l
      BY DEF AnswerInv, WrittenInv
    <3>2. <<d, written[d][k]>> # w
      BY <3>1, <1>7
    <3> QED
      BY <3>1, <3>2, <1>3, <1>5
  <2> QED
    BY <2>1, <1>1 DEF WrittenInv
<1> QED
  BY <1>8, <1>9, <1>10 DEF AnswerInv

(* An answer moves from the application to the queue, once. *)
LEMMA AnswerAnswers ==
  ASSUME TypeOK, AnswerInv, NEW c \in Conn, NEW n, Answer(c, n)
  PROVE  AnswerInv'
<1>1. PICK w : w = <<c, n>>
  OBVIOUS
<1>2. w \in waiting /\ waiting' = waiting \ {w} /\ handed' = handed /\ written' = written
  BY <1>1 DEF Answer
<1>3. n \in 1..Len(handed[c]) /\ n \in Nat
  <2>1. w[1] = c /\ w[2] = n
    BY <1>1
  <2> QED
    BY <1>2, <2>1 DEF AnswerInv, WaitingInv, TypeOK
<1>4. WaitingInv'
  BY <1>2 DEF AnswerInv, WaitingInv
<1>5. CASE posted' = posted
  BY <1>2, <1>4, <1>5 DEF AnswerInv, PostedInv, WrittenInv
<1>6. CASE posted' = Append(posted, w)
  <2>1. posted \in Seq(Conn \X Nat) /\ Len(posted) \in Nat /\ w \in Conn \X Nat
    BY <1>1, <1>3 DEF TypeOK
  <2>2. /\ Len(posted') = Len(posted) + 1 /\ posted'[Len(posted) + 1] = w
        /\ \A i \in 1..Len(posted) : posted'[i] = posted[i]
    BY <2>1, <1>6, AppendProperties
  <2>3. \A i \in 1..Len(posted') : i \in 1..Len(posted) \/ i = Len(posted) + 1
    BY <2>1, <2>2
  <2>4. \A i \in 1..Len(posted) :
          /\ \E d \in Conn : \E m \in 1..Len(handed[d]) : posted[i] = <<d, m>>
          /\ posted[i] \notin waiting
          /\ \A j \in 1..Len(posted) : posted[i] = posted[j] => i = j
    BY DEF AnswerInv, PostedInv
  <2>5. ASSUME NEW i \in 1..Len(posted')
        PROVE  /\ \E d \in Conn : \E m \in 1..Len(handed[d]) : posted'[i] = <<d, m>>
               /\ posted'[i] \notin waiting'
               /\ \A j \in 1..Len(posted') : posted'[i] = posted'[j] => i = j
    <3>1. CASE i \in 1..Len(posted)
      <4>1. posted'[i] = posted[i] /\ posted[i] # w
        BY <3>1, <2>2, <2>4, <1>2
      <4>2. \A j \in 1..Len(posted') : posted'[i] = posted'[j] => i = j
        BY <4>1, <3>1, <2>2, <2>3, <2>4
      <4> QED
        BY <4>1, <4>2, <3>1, <2>4, <1>2
    <3>2. CASE i = Len(posted) + 1
      <4>1. posted'[i] = w
        BY <3>2, <2>2
      <4>2. \A j \in 1..Len(posted) : posted'[j] # w
        BY <2>2, <2>4, <1>2
      <4>3. \A j \in 1..Len(posted') : posted'[i] = posted'[j] => i = j
        BY <4>1, <4>2, <3>2, <2>3
      <4> QED
        BY <4>1, <4>3, <1>1, <1>2, <1>3
    <3> QED
      BY <3>1, <3>2, <2>3
  <2>6. PostedInv'
    BY <2>5, <1>2 DEF PostedInv
  <2>7. ASSUME NEW d \in Conn, NEW k \in 1..Len(written[d])
        PROVE  /\ written[d][k] \in 1..Len(handed[d])
               /\ <<d, written[d][k]>> \notin waiting'
               /\ \A i \in 1..Len(posted') : posted'[i] # <<d, written[d][k]>>
               /\ \A l \in 1..Len(written[d]) : written[d][k] = written[d][l] => k = l
    <3>1. /\ written[d][k] \in 1..Len(handed[d])
          /\ <<d, written[d][k]>> \notin waiting
          /\ \A i \in 1..Len(posted) : posted[i] # <<d, written[d][k]>>
          /\ \A l \in 1..Len(written[d]) : written[d][k] = written[d][l] => k = l
      BY DEF AnswerInv, WrittenInv
    <3>2. <<d, written[d][k]>> # w
      BY <3>1, <1>2
    <3>3. \A i \in 1..Len(posted') : posted'[i] # <<d, written[d][k]>>
      BY <3>1, <3>2, <2>2, <2>3
    <3> QED
      BY <3>1, <3>3, <1>2
  <2>8. WrittenInv'
    BY <2>7, <1>2 DEF WrittenInv
  <2> QED
    BY <1>4, <2>6, <2>8 DEF AnswerInv
<1> QED
  BY <1>1, <1>5, <1>6 DEF Answer

(* An answer moves from the queue to its connection, once. *)
LEMMA WriteAnswers ==
  ASSUME TypeOK, AnswerInv, WriteOnEvent
  PROVE  AnswerInv'
<1>1. posted \in Seq(Conn \X Nat) /\ posted # << >> /\ posted' = Tail(posted)
  BY DEF WriteOnEvent, TypeOK
<1>2. /\ Len(posted) \in Nat /\ Len(posted') = Len(posted) - 1
      /\ \A i \in 1..Len(posted') : posted'[i] = posted[i + 1]
      /\ Head(posted) = posted[1]
  BY <1>1, HeadTailProperties
<1>3. 1 \in 1..Len(posted)
  BY <1>1, <1>2
<1>4. handed' = handed /\ waiting' = waiting
  BY DEF WriteOnEvent
<1>5. ASSUME NEW i \in 1..Len(posted')
      PROVE  i + 1 \in 1..Len(posted) /\ i + 1 # 1 /\ posted'[i] = posted[i + 1]
  BY <1>2, <1>5
<1>6. ASSUME NEW i \in 1..Len(posted)
      PROVE  /\ \E d \in Conn : \E n \in 1..Len(handed[d]) : posted[i] = <<d, n>>
             /\ posted[i] \notin waiting
             /\ \A j \in 1..Len(posted) : posted[i] = posted[j] => i = j
  BY DEF AnswerInv, PostedInv
<1>7. ASSUME NEW i \in 1..Len(posted')
      PROVE  /\ \E d \in Conn : \E n \in 1..Len(handed[d]) : posted'[i] = <<d, n>>
             /\ posted'[i] \notin waiting
             /\ \A j \in 1..Len(posted') : posted'[i] = posted'[j] => i = j
             /\ posted'[i] # posted[1]
  <2>1. i + 1 \in 1..Len(posted) /\ i + 1 # 1 /\ posted'[i] = posted[i + 1]
    BY <1>5
  <2>2. ASSUME NEW j \in 1..Len(posted'), posted'[i] = posted'[j] PROVE i = j
    <3>1. j + 1 \in 1..Len(posted) /\ posted'[j] = posted[j + 1]
      BY <1>5
    <3>2. i + 1 = j + 1
      BY <2>1, <2>2, <3>1, <1>6
    <3> QED
      BY <3>2
  <2> QED
    BY <2>1, <2>2, <1>3, <1>6
<1>8. WaitingInv' /\ PostedInv'
  BY <1>4, <1>7 DEF AnswerInv, WaitingInv, PostedInv
<1>9. PICK c \in Conn : \E n \in 1..Len(handed[c]) : posted[1] = <<c, n>>
  BY <1>3, <1>6
<1>10. PICK n \in 1..Len(handed[c]) : posted[1] = <<c, n>>
  BY <1>9
<1>11. ASSUME NEW d \in Conn, NEW k \in 1..Len(written[d])
       PROVE  /\ written[d][k] \in 1..Len(handed[d])
              /\ <<d, written[d][k]>> \notin waiting
              /\ posted[1] # <<d, written[d][k]>>
              /\ \A i \in 1..Len(posted') : posted'[i] # <<d, written[d][k]>>
              /\ \A l \in 1..Len(written[d]) : written[d][k] = written[d][l] => k = l
  <2>1. /\ written[d][k] \in 1..Len(handed[d])
        /\ <<d, written[d][k]>> \notin waiting
        /\ \A i \in 1..Len(posted) : posted[i] # <<d, written[d][k]>>
        /\ \A l \in 1..Len(written[d]) : written[d][k] = written[d][l] => k = l
    BY DEF AnswerInv, WrittenInv
  <2>2. ASSUME NEW i \in 1..Len(posted') PROVE posted'[i] # <<d, written[d][k]>>
    BY <2>1, <2>2, <1>5
  <2> QED
    BY <2>1, <2>2, <1>3
<1>12. CASE written' = written
  BY <1>4, <1>8, <1>11, <1>12 DEF AnswerInv, WrittenInv
<1>13. CASE written' = [written EXCEPT ![c] = Append(written[c], n)]
  <2>1. written[c] \in Seq(Nat) /\ n \in Nat /\ Len(written[c]) \in Nat
    BY DEF TypeOK
  <2>2. /\ \A d \in Conn : d # c => written'[d] = written[d]
        /\ Len(written'[c]) = Len(written[c]) + 1
        /\ written'[c][Len(written[c]) + 1] = n
        /\ \A k \in 1..Len(written[c]) : written'[c][k] = written[c][k]
    BY <2>1, <1>13, AppendProperties DEF TypeOK
  <2>3. \A k \in 1..Len(written'[c]) : k \in 1..Len(written[c]) \/ k = Len(written[c]) + 1
    BY <2>1, <2>2
  <2>4. \A k \in 1..Len(written[c]) : written[c][k] # n
    BY <1>10, <1>11
  <2>5. ASSUME NEW k \in 1..Len(written'[c])
        PROVE  /\ written'[c][k] \in 1..Len(handed[c])
               /\ <<c, written'[c][k]>> \notin waiting
               /\ \A i \in 1..Len(posted') : posted'[i] # <<c, written'[c][k]>>
               /\ \A l \in 1..Len(written'[c]) : written'[c][k] = written'[c][l] => k = l
    <3>1. CASE k = Len(written[c]) + 1
      <4>1. \A l \in 1..Len(written'[c]) : written'[c][k] = written'[c][l] => k = l
        BY <3>1, <2>2, <2>3, <2>4
      <4>2. written'[c][k] = n
        BY <3>1, <2>2
      <4>3. <<c, n>> \notin waiting /\ \A i \in 1..Len(posted') : posted'[i] # <<c, n>>
        BY <1>3, <1>6, <1>7, <1>10
      <4> QED
        BY <4>1, <4>2, <4>3
    <3>2. CASE k \in 1..Len(written[c])
      <4>1. written'[c][k] = written[c][k] /\ written[c][k] # n
        BY <3>2, <2>2, <2>4
      <4>2. \A l \in 1..Len(written[c]) : written[c][k] = written[c][l] => k = l
        BY <3>2, <1>11
      <4>3. \A l \in 1..Len(written'[c]) : written'[c][k] = written'[c][l] => k = l
        BY <4>1, <4>2, <2>2, <2>3
      <4> QED
        BY <4>1, <4>3, <3>2, <1>11
    <3> QED
      BY <3>1, <3>2, <2>3
  <2>6. ASSUME NEW d \in Conn, NEW k \in 1..Len(written'[d])
        PROVE  /\ written'[d][k] \in 1..Len(handed[d])
               /\ <<d, written'[d][k]>> \notin waiting
               /\ \A i \in 1..Len(posted') : posted'[i] # <<d, written'[d][k]>>
               /\ \A l \in 1..Len(written'[d]) : written'[d][k] = written'[d][l] => k = l
    <3>1. CASE d = c
      BY <3>1, <2>5
    <3>2. CASE d # c
      <4>1. written'[d] = written[d]
        BY <3>2, <2>2
      <4> QED
        BY <4>1, <1>11
    <3> QED
      BY <3>1, <3>2
  <2>7. WrittenInv'
    BY <1>4, <2>6 DEF WrittenInv
  <2> QED
    BY <1>8, <2>7 DEF AnswerInv
<1> QED
  <2>1. Head(posted)[1] = c /\ Head(posted)[2] = n
    BY <1>2, <1>10
  <2> QED
    BY <1>12, <1>13, <2>1 DEF WriteOnEvent

(* So no more answers are written than requests were handed. *)
LEMMA NoMoreAnswersThanCalls ==
  ASSUME TypeOK, AnswerInv, NEW c \in Conn
  PROVE  Len(written[c]) <= Len(handed[c])
<1>1. Len(written[c]) \in Nat /\ Len(handed[c]) \in Nat /\ written[c] \in [1..Len(written[c]) -> Nat]
  BY LenProperties DEF TypeOK
<1>2. written[c] \in [1..Len(written[c]) -> 1..Len(handed[c])]
  BY <1>1 DEF AnswerInv, WrittenInv
<1>3. /\ IsFiniteSet(1..Len(written[c])) /\ Cardinality(1..Len(written[c])) = Len(written[c])
      /\ IsFiniteSet(1..Len(handed[c])) /\ Cardinality(1..Len(handed[c])) = Len(handed[c])
  <2>1. \A n \in Nat : IsFiniteSet(1..n) /\ Cardinality(1..n) = n
    <3> SUFFICES ASSUME NEW n \in Nat PROVE IsFiniteSet(1..n) /\ Cardinality(1..n) = n
      OBVIOUS
    <3>1. IsFiniteSet(1..n) /\ Cardinality(1..n) = IF 1 > n THEN 0 ELSE n - 1 + 1
      BY FS_Interval
    <3> QED
      BY <3>1
  <2> QED
    BY <1>1, <2>1
<1>4. ASSUME Len(handed[c]) < Len(written[c]) PROVE FALSE
  <2>1. \E x, y \in 1..Len(written[c]) : x # y /\ written[c][x] = written[c][y]
    BY <1>2, <1>3, <1>4, FS_PigeonHole
  <2> QED
    BY <2>1 DEF AnswerInv, WrittenInv
<1> QED
  BY <1>1, <1>4

-----------------------------------------------------------------------------
(* One connection. *)

ConnInv(c) ==
  /\ told[c] = "new" => /\ c \notin conns
                        /\ recv[c] = << >> /\ sent[c] = << >>
                        /\ wire[c] = << >> /\ handed[c] = << >>
  /\ c \notin cut =>
       /\ c \in readable => InStep(c) \/ Stuck(c)
       /\ \A n \in DOMAIN handed[c] : handed[c][n].code = 0 =>
            /\ n \in Good(c)
            /\ handed[c][n] = [code |-> 0, req |-> n, body |-> BodyPieces(n, sent[c][n])]
            /\ \A m \in 1..n - 1 : handed[c][m].code = 0
       /\ \A n \in DOMAIN handed[c] :
            handed[c][n].code = -1 => \E i \in DOMAIN sent[c] : sent[c][i] \in Unreadable

(* The invariant connection by connection. *)
LEMMA ConnInvs ==
  (\A c \in Conn : ConnInv(c)) <=> /\ NewInv /\ ReadInv /\ MadeInv
                                   /\ HandedWhole /\ RefusalHasCause
BY DEF ConnInv, NewInv, ReadInv, MadeInv, HandedWhole, RefusalHasCause

(* Telling the application and losing the connection disturb nothing. *)
LEMMA Undisturbed ==
  ASSUME NEW d \in Conn, ConnInv(d),
         recv'[d] = recv[d], sent'[d] = sent[d], handed'[d] = handed[d],
         d \in cut => d \in cut',
         told'[d] = "new" =>
           told[d] = "new" /\ wire'[d] = wire[d] /\ (d \in conns' => d \in conns),
         d \in readable' => d \in readable /\ wire'[d] = wire[d]
  PROVE  ConnInv(d)'
<1>1. InStep(d) /\ wire'[d] = wire[d] => InStep(d)'
  BY DEF InStep, Partial, Pieces, Last
<1>2. Stuck(d) => Stuck(d)'
  BY DEF Stuck
<1>3. Good(d)' = Good(d)
  BY DEF Good
<1> QED
  BY <1>1, <1>2, <1>3 DEF ConnInv

(* A new connection has nothing to get wrong. *)
LEMMA NewConn ==
  ASSUME TypeOK, NEW c \in Conn, ConnInv(c), OnNewConn(c)
  PROVE  ConnInv(c)'
<1>1. told[c] = "new" /\ told'[c] = "Connected"
  BY DEF OnNewConn, Lifecycle!Accept, TypeOK
<1>2. recv'[c] = << >> /\ sent'[c] = << >> /\ wire'[c] = << >> /\ handed'[c] = << >>
  BY <1>1 DEF ConnInv, OnNewConn, clientVars
<1>3. InStep(c)'
  BY <1>2 DEF InStep
<1>4. DOMAIN handed'[c] = {}
  BY <1>2
<1> QED
  BY <1>1, <1>3, <1>4 DEF ConnInv

(* One more request spoils none before it. *)
LEMMA StillGood ==
  ASSUME TypeOK, NEW c \in Conn, NEW kind \in Kinds, sent'[c] = Append(sent[c], kind)
  PROVE  /\ \A n \in Good(c) : n \in Good(c)'
         /\ Good(c)' \in {Good(c), Good(c) \cup {Len(sent[c]) + 1}}
<1>1. sent[c] \in Seq(Kinds) /\ Len(sent[c]) \in Nat
  BY DEF TypeOK
<1>2. /\ DOMAIN sent[c] = 1..Len(sent[c]) /\ DOMAIN sent'[c] = 1..(Len(sent[c]) + 1)
      /\ \A i \in 1..Len(sent[c]) : sent'[c][i] = sent[c][i]
  BY <1>1
<1>3. ASSUME NEW n \in 1..Len(sent[c]) PROVE n \in Good(c)' <=> n \in Good(c)
  <2>1. \A j \in 1..n : j \in 1..Len(sent[c])
    BY <1>1
  <2>2. (\A j \in 1..n : sent'[c][j] \notin Unreadable)
          <=> (\A j \in 1..n : sent[c][j] \notin Unreadable)
    BY <2>1, <1>2
  <2>3. n \in DOMAIN sent'[c] /\ n \in DOMAIN sent[c]
    BY <1>1, <1>2
  <2> QED
    BY <2>2, <2>3 DEF Good
<1>4. \A n \in Good(c)' : n \in 1..Len(sent[c]) \/ n = Len(sent[c]) + 1
  BY <1>1, <1>2 DEF Good
<1>5. \A n \in Good(c) : n \in 1..Len(sent[c])
  BY <1>2 DEF Good
<1>6. CASE Len(sent[c]) + 1 \in Good(c)'
  BY <1>3, <1>4, <1>5, <1>6
<1>7. CASE Len(sent[c]) + 1 \notin Good(c)'
  BY <1>3, <1>4, <1>5, <1>7
<1> QED
  BY <1>3, <1>5, <1>6, <1>7

(* A request on the wire is one more to come. *)
LEMMA AskConn ==
  ASSUME TypeOK, AnswerInv, NEW c \in Conn, ConnInv(c), Ask(c)
  PROVE  ConnInv(c)'
<1>1. PICK kind \in Kinds :
        /\ kind \in Kind
        /\ sent'[c] = Append(sent[c], kind)
        /\ Len(sent'[c]) = Len(sent[c]) + 1 /\ Len(sent[c]) \in Nat
        /\ Pieces(Len(sent'[c]), kind) \in Seq(Piece)
        /\ wire' = [wire EXCEPT ![c] = wire[c] \o Pieces(Len(sent'[c]), kind)]
  BY AskTyped
<1>2. /\ \A i \in DOMAIN sent[c] : i \in DOMAIN sent'[c] /\ sent'[c][i] = sent[c][i]
      /\ sent'[c][Len(sent'[c])] = kind
  BY <1>1 DEF TypeOK
<1>3. /\ c \in readable /\ Len(written[c]) >= Len(sent[c])
      /\ recv'[c] = recv[c] /\ handed'[c] = handed[c] /\ told'[c] = told[c]
      /\ conns' = conns /\ cut' = cut
  BY PoliteAssumption DEF Ask, historyVars
<1>4. told[c] # "new"
  BY <1>3 DEF ConnInv, TypeOK
<1>5. Stuck(c) => Stuck(c)'
  BY <1>2, <1>3 DEF Stuck
<1>6. ASSUME InStep(c) PROVE InStep(c)'
  <2>1. /\ Len(written[c]) \in Nat /\ Len(handed[c]) \in Nat
        /\ Len(written[c]) <= Len(handed[c])
    BY NoMoreAnswersThanCalls DEF TypeOK
  <2>2. Len(handed[c]) = Len(sent[c]) /\ recv[c] = << >> /\ wire[c] = << >>
    BY <1>1, <1>3, <1>6, <2>1 DEF InStep, Partial
  <2>3. PICK P : P = Pieces(Len(sent'[c]), kind)
    OBVIOUS
  <2>4. P \in Seq(Piece) /\ Len(P) \in Nat
    BY <1>1, <2>3
  <2>5. wire'[c] = P
    BY <1>1, <2>2, <2>3, <2>4, ConcatEmptySeq DEF TypeOK
  <2>6. SubSeq(P, 1, 0) = << >> /\ SubSeq(P, 1, Len(P)) = P
    BY <2>4, SubSeqEmpty, SubSeqFull
  <2>7. Last(sent'[c]) = kind
    BY <1>2 DEF Last
  <2>8. Partial(c, 0)'
    BY <1>1, <1>3, <2>2, <2>3, <2>5, <2>6, <2>7 DEF Partial
  <2>9. \A n \in 1..Len(handed'[c]) : handed'[c][n].code = 0
    BY <1>3, <1>6 DEF InStep
  <2> QED
    BY <2>8, <2>9 DEF InStep
<1>7. \A n \in DOMAIN handed'[c] : handed'[c][n].code = 0 /\ c \notin cut =>
        /\ n \in Good(c)'
        /\ handed'[c][n] = [code |-> 0, req |-> n, body |-> BodyPieces(n, sent'[c][n])]
        /\ \A m \in 1..n - 1 : handed'[c][m].code = 0
  <2> SUFFICES ASSUME NEW n \in DOMAIN handed[c], handed[c][n].code = 0, c \notin cut
               PROVE  /\ n \in Good(c)'
                      /\ handed[c][n] = [code |-> 0, req |-> n,
                                         body |-> BodyPieces(n, sent'[c][n])]
                      /\ \A m \in 1..n - 1 : handed[c][m].code = 0
    BY <1>3
  <2>1. /\ n \in Good(c) /\ n \in DOMAIN sent[c]
        /\ handed[c][n] = [code |-> 0, req |-> n, body |-> BodyPieces(n, sent[c][n])]
        /\ \A m \in 1..n - 1 : handed[c][m].code = 0
    BY DEF ConnInv, Good
  <2>2. n \in Good(c)'
    BY <1>1, <2>1, StillGood
  <2> QED
    BY <2>1, <2>2, <1>2
<1>8. \A n \in DOMAIN handed'[c] : handed'[c][n].code = -1 /\ c \notin cut =>
        \E i \in DOMAIN sent'[c] : sent'[c][i] \in Unreadable
  BY <1>2, <1>3 DEF ConnInv
<1>9. (c \in readable => InStep(c) \/ Stuck(c) \/ c \in cut)'
  BY <1>3, <1>5, <1>6 DEF ConnInv
<1>10. CASE c \in cut
  BY <1>3, <1>4, <1>10 DEF ConnInv
<1> QED
  BY <1>3, <1>4, <1>7, <1>8, <1>9, <1>10 DEF ConnInv

(* What one more call of the handler adds. *)
LEMMA HandConn ==
  ASSUME TypeOK, NEW c \in Conn, ConnInv(c), NEW result \in Result, Handle(c, result),
         sent'[c] = sent[c], told'[c] # "new", c \notin cut,
         (c \in readable => InStep(c) \/ Stuck(c))',
         result.code = 0 =>
           /\ \A n \in 1..Len(handed[c]) : handed[c][n].code = 0
           /\ Len(handed[c]) + 1 \in Good(c)
           /\ result = [code |-> 0, req |-> Len(handed[c]) + 1,
                        body |-> BodyPieces(Len(handed[c]) + 1, sent[c][Len(handed[c]) + 1])],
         result.code = -1 => \E i \in DOMAIN sent[c] : sent[c][i] \in Unreadable
  PROVE  ConnInv(c)'
<1>1. handed[c] \in Seq(Result) /\ Len(handed[c]) \in Nat
  BY DEF TypeOK
<1>2. handed'[c] = Append(handed[c], result)
  BY DEF Handle, TypeOK
<1>3. /\ DOMAIN handed'[c] = 1..(Len(handed[c]) + 1) /\ DOMAIN handed[c] = 1..Len(handed[c])
      /\ \A n \in 1..Len(handed[c]) : handed'[c][n] = handed[c][n]
      /\ handed'[c][Len(handed[c]) + 1] = result
  BY <1>1, <1>2
<1>0. Good(c)' = Good(c)
  BY DEF Good
<1>4. ASSUME NEW n \in DOMAIN handed'[c], handed'[c][n].code = 0
      PROVE  /\ n \in Good(c)'
             /\ handed'[c][n] = [code |-> 0, req |-> n, body |-> BodyPieces(n, sent'[c][n])]
             /\ \A m \in 1..n - 1 : handed'[c][m].code = 0
  <2>1. CASE n \in 1..Len(handed[c])
    <3>1. handed[c][n].code = 0 /\ n \in DOMAIN handed[c]
      BY <2>1, <1>3, <1>4
    <3>2. \A m \in 1..n - 1 : m \in 1..Len(handed[c]) /\ handed[c][m].code = 0
      <4>1. \A m \in 1..n - 1 : handed[c][m].code = 0
        BY <3>1 DEF ConnInv
      <4>2. \A m \in 1..n - 1 : m \in 1..Len(handed[c])
        BY <2>1, <1>1
      <4> QED
        BY <4>1, <4>2
    <3> QED
      BY <3>1, <3>2, <2>1, <1>0, <1>3 DEF ConnInv
  <2>2. CASE n = Len(handed[c]) + 1
    <3>1. \A m \in 1..n - 1 : m \in 1..Len(handed[c])
      BY <2>2, <1>1
    <3> QED
      BY <3>1, <2>2, <1>0, <1>3, <1>4
  <2>3. n \in 1..Len(handed[c]) \/ n = Len(handed[c]) + 1
    BY <1>1, <1>3
  <2> QED
    BY <2>1, <2>2, <2>3
<1>5. ASSUME NEW n \in DOMAIN handed'[c], handed'[c][n].code = -1
      PROVE  \E i \in DOMAIN sent'[c] : sent'[c][i] \in Unreadable
  <2>1. CASE n \in 1..Len(handed[c])
    BY <2>1, <1>3, <1>5 DEF ConnInv
  <2>2. CASE n = Len(handed[c]) + 1
    BY <2>2, <1>3, <1>5
  <2> QED
    BY <2>1, <2>2, <1>1, <1>3
<1> QED
  BY <1>4, <1>5 DEF ConnInv

(* A read error is handed over as one and ends the reading. *)
LEMMA ErrorConn ==
  ASSUME TypeOK, NEW c \in Conn, ConnInv(c), OnConnReadError(c)
  PROVE  ConnInv(c)'
<1>1. Refused(-200) \in Result /\ Refused(-200).code = -200 /\ Handle(c, Refused(-200))
  BY ResultTypes DEF OnConnReadError, Refused
<1>2. sent'[c] = sent[c] /\ c \notin readable' /\ told'[c] # "new" /\ cut' = cut
  BY DEF OnConnReadError, ShutdownAndClose, Lifecycle!Fail, TypeOK, historyVars
<1>3. CASE c \in cut
  BY <1>2, <1>3 DEF ConnInv
<1> QED
  BY <1>1, <1>2, <1>3, HandConn

(* An unreadable request at the start of recv is refused again with every  *)
(* read.                                                                   *)
LEMMA StuckIsRefused ==
  ASSUME TypeOK, NEW c \in Conn, Stuck(c), NEW n \in 1..Len(wire[c]),
         NEW data, data = recv[c] \o SubSeq(wire[c], 1, n)
  PROVE  Head(data) = Head(recv[c]) /\ ParseReq(c, data) = Refused(-1)
<1>0. wire[c] \in Seq(Piece) /\ recv[c] \in Seq(Piece)
  BY DEF TypeOK
<1>1. SubSeq(wire[c], 1, n) \in Seq(Piece)
  BY <1>0, Cut
<1>2. Len(recv[c]) \in Nat \ {0}
  BY <1>0 DEF Stuck
<1>3. data \in Seq(Piece) /\ data # << >> /\ data[1] = recv[c][1]
  BY <1>0, <1>1, <1>2, ConcatProperties
<1>4. Head(data) = Head(recv[c])
  BY <1>0, <1>3 DEF Stuck
<1> QED
  BY <1>3, <1>4, UnreadableIsRefused DEF Stuck

(* The pieces of the last request, of which those from k + 1 are left.     *)
LastPieces(c) == Pieces(Len(sent[c]), Last(sent[c]))
PartLeft(c, k, i, kind, P) ==
  /\ i = Len(sent[c]) /\ i \in Nat \ {0} /\ i \in DOMAIN sent[c]
  /\ kind = Last(sent[c]) /\ kind = sent[c][i] /\ kind \in Kind
  /\ P = Pieces(i, kind)
  /\ P \in Seq(Piece) /\ Len(P) = Len(Parts[kind]) /\ Len(P) \in Nat
  /\ \A j \in 1..Len(P) : P[j].req = i /\ P[j].part = Parts[kind][j]
  /\ k + 1 <= Len(P) /\ Len(wire[c]) = Len(P) - k
  /\ \A j \in 1..Len(wire[c]) : wire[c][j] = P[k + j]

(* What is on the wire of a request that was read in part. *)
LEMMA PartialWire ==
  ASSUME TypeOK, NEW c \in Conn, NEW k \in 0..3, Partial(c, k), wire[c] # << >>
  PROVE  PartLeft(c, k, Len(sent[c]), Last(sent[c]), LastPieces(c))
<1>0. PICK i, kind, P : i = Len(sent[c]) /\ kind = Last(sent[c]) /\ P = LastPieces(c)
  OBVIOUS
<1>1. /\ wire[c] \in Seq(Piece) /\ Len(wire[c]) \in Nat /\ Len(wire[c]) # 0
      /\ sent[c] \in Seq(Kinds) /\ Len(sent[c]) \in Nat
      /\ Len(handed[c]) \in Nat
  BY DEF TypeOK
<1>2. Len(handed[c]) = i - 1 /\ wire[c] = SubSeq(P, k + 1, Len(P))
  BY <1>0 DEF Partial, LastPieces
<1>3. i \in Nat \ {0} /\ i \in DOMAIN sent[c] /\ kind = sent[c][i] /\ kind \in Kind
  <2>1. i \in 1..Len(sent[c]) /\ kind = sent[c][i]
    BY <1>0, <1>1, <1>2 DEF Last
  <2>2. sent[c][i] \in Kinds
    BY <2>1, <1>1, ElementOfSeq
  <2> QED
    BY <2>1, <2>2, <1>0, <1>1, KindsAssumption
<1>4. /\ P \in Seq(Piece) /\ Len(P) = Len(Parts[kind]) /\ Len(P) \in Nat
      /\ \A j \in 1..Len(P) : P[j].req = i /\ P[j].part = Parts[kind][j]
  BY <1>0, <1>3, PiecesOf DEF LastPieces
<1>5. k + 1 \in Int /\ Len(P) \in Int
  BY <1>4
<1>6. \A j \in k + 1..Len(P) : P[j] \in Piece
  BY <1>4, ElementOfSeq
<1>7. /\ Len(wire[c]) = IF k + 1 <= Len(P) THEN Len(P) - (k + 1) + 1 ELSE 0
      /\ \A j \in 1..Len(P) - (k + 1) + 1 : wire[c][j] = P[(k + 1) + j - 1]
  BY <1>5, <1>6, <1>2, SubSeqProperties
<1>8. k + 1 <= Len(P) /\ Len(wire[c]) = Len(P) - k
  BY <1>7, <1>4, <1>1
<1>9. ASSUME NEW j \in 1..Len(wire[c]) PROVE wire[c][j] = P[k + j]
  <2>1. j \in 1..Len(P) - (k + 1) + 1 /\ (k + 1) + j - 1 = k + j
    BY <1>8, <1>4
  <2>2. wire[c][j] = P[(k + 1) + j - 1]
    BY <2>1, <1>7
  <2> QED
    BY <2>1, <2>2
<1>10. PartLeft(c, k, i, kind, P)
  BY <1>0, <1>3, <1>4, <1>8, <1>9 DEF PartLeft, LastPieces
<1> QED
  BY <1>0, <1>10

(* A read takes the next parts and hands over what is whole. *)
LEMMA ReadConn ==
  ASSUME TypeOK, NEW c \in Conn, ConnInv(c), OnConnRead(c)
  PROVE  ConnInv(c)'
<1>1. PICK n \in 1..Len(wire[c]) :
        /\ EndsRead(c, n)
        /\ wire' = [wire EXCEPT ![c] = SubSeq(@, n + 1, Len(@))]
        /\ OnConnRequest(c, SubSeq(wire[c], 1, n))
        /\ cut' = IF wire[c][n].part = "head" THEN cut \cup {c} ELSE cut
  BY DEF OnConnRead
<1>2. PICK data : data = recv[c] \o SubSeq(wire[c], 1, n)
  OBVIOUS
<1>3. data \in Seq(Piece) /\ data # << >> /\ ParseReq(c, data) \in Result
  BY <1>2, ReadTyped
<1>4. /\ c \in readable /\ told[c] # "new" /\ told' = told /\ readable' = readable
      /\ sent' = sent /\ conns' = conns
  BY DEF OnConnRead, ConnInv, TypeOK
<1>5. PICK result : result = ParseReq(c, data)
  OBVIOUS
<1>6. /\ recv'[c] = IF result.code = 0 THEN << >> ELSE data
      /\ result.code = 1 => handed' = handed
      /\ result.code # 1 => Handle(c, result)
  BY <1>1, <1>2, <1>5 DEF OnConnRequest, TypeOK
<1>7. wire'[c] = SubSeq(wire[c], n + 1, Len(wire[c]))
  BY <1>1 DEF TypeOK
<1>8. /\ wire[c] \in Seq(Piece) /\ recv[c] \in Seq(Piece) /\ Len(wire[c]) \in Nat
      /\ handed[c] \in Seq(Result) /\ Len(handed[c]) \in Nat /\ Len(sent[c]) \in Nat
      /\ sent[c] \in Seq(Kinds)
  BY DEF TypeOK
<1>9. CASE c \in cut'
  BY <1>4, <1>9 DEF ConnInv
<1>10. c \notin cut' => c \notin cut /\ wire[c][n].part # "head"
  BY <1>1
<1>11. CASE Stuck(c) /\ c \notin cut'
  <2>1. Head(data) = Head(recv[c]) /\ result = Refused(-1)
    BY <1>2, <1>5, <1>11, StuckIsRefused
  <2>3. result.code = -1 /\ result \in Result
    BY <2>1, <1>3, <1>5 DEF Refused
  <2>4. Stuck(c)'
    BY <2>1, <2>3, <1>3, <1>4, <1>6, <1>11 DEF Stuck
  <2>5. \E i \in DOMAIN sent[c] : sent[c][i] \in Unreadable
    BY <1>11 DEF Stuck, Unreadable
  <2> QED
    BY <2>3, <2>4, <2>5, <1>4, <1>6, <1>10, <1>11, HandConn
<1>12. CASE InStep(c) /\ c \notin cut'
  <2>1. wire[c] # << >>
    BY <1>8
  <2>2. PICK k \in 0..3 : Partial(c, k)
    BY <2>1, <1>12 DEF InStep
  <2>3. PICK i, kind, P : PartLeft(c, k, i, kind, P)
    BY <2>1, <2>2, PartialWire
  <2>4. /\ Len(handed[c]) = i - 1
        /\ recv[c] = SubSeq(P, 1, k) /\ wire[c] = SubSeq(P, k + 1, Len(P))
    BY <2>2, <2>3 DEF Partial, PartLeft
  <2>5. /\ i \in Nat \ {0} /\ i \in DOMAIN sent[c] /\ kind = sent[c][i] /\ kind \in Kind
        /\ i = Len(sent[c]) /\ kind = Last(sent[c]) /\ P = Pieces(i, kind)
    BY <2>3 DEF PartLeft
  <2>6. /\ P \in Seq(Piece) /\ Len(P) = Len(Parts[kind]) /\ Len(P) \in Nat
        /\ \A j \in 1..Len(P) : P[j].req = i /\ P[j].part = Parts[kind][j]
    BY <2>3 DEF PartLeft
  <2>7. /\ k + 1 <= Len(P) /\ Len(wire[c]) = Len(P) - k
        /\ \A j \in 1..Len(wire[c]) : wire[c][j] = P[k + j]
    BY <2>3 DEF PartLeft
  <2>8. PICK m \in 1..Len(P) : m = k + n
    BY <2>6, <2>7
  <2>9. data = SubSeq(P, 1, m)
    <3>1. SubSeq(wire[c], 1, n) = SubSeq(P, k + 1, m)
      <4>1. /\ k + 1 \in 1..Len(P) /\ Len(P) \in 1..Len(P)
            /\ 1 \in 1..Len(P) - (k + 1) + 1 /\ n \in 1..Len(P) - (k + 1) + 1
        BY <2>6, <2>7
      <4>2. SubSeq(wire[c], 1, n) = SubSeq(P, (k + 1) + 1 - 1, (k + 1) + n - 1)
        BY <4>1, <2>4, <2>6, SubSeqOfSubSeq
      <4>3. (k + 1) + 1 - 1 = k + 1 /\ (k + 1) + n - 1 = m
        BY <2>8
      <4> QED
        BY <4>2, <4>3
    <3>2. 1 \in 1..Len(P) + 1 /\ k \in 1 - 1..Len(P) /\ m \in k..Len(P)
      BY <2>6, <2>7, <2>8
    <3> QED
      BY <3>1, <3>2, <2>4, <2>6, <1>2, ConcatAdjacentSubSeq
  <2>10. wire'[c] = SubSeq(P, m + 1, Len(P))
    <3>1. CASE n = Len(wire[c])
      <4>1. m = Len(P)
        BY <3>1, <2>6, <2>7, <2>8
      <4>2. SubSeq(P, m + 1, Len(P)) = << >>
        BY <4>1, <2>6, SubSeqEmpty
      <4>3. wire'[c] = << >>
        BY <3>1, <1>7, <1>8, SubSeqEmpty
      <4> QED
        BY <4>2, <4>3
    <3>2. CASE n < Len(wire[c])
      <4>1. /\ k + 1 \in 1..Len(P) /\ Len(P) \in 1..Len(P)
            /\ n + 1 \in 1..Len(P) - (k + 1) + 1
            /\ Len(wire[c]) \in 1..Len(P) - (k + 1) + 1
        BY <3>2, <2>6, <2>7
      <4>2. PICK l \in Nat : l = Len(wire[c])
        BY <1>8
      <4>3. wire'[c] = SubSeq(SubSeq(P, k + 1, Len(P)), n + 1, l)
        BY <4>2, <2>4, <1>7
      <4>4. wire'[c] = SubSeq(P, (k + 1) + (n + 1) - 1, (k + 1) + l - 1)
        <5>1. l \in 1..Len(P) - (k + 1) + 1
          BY <4>1, <4>2
        <5> QED
          BY <5>1, <4>1, <4>3, <2>6, SubSeqOfSubSeq
      <4>5. (k + 1) + (n + 1) - 1 = m + 1 /\ (k + 1) + l - 1 = Len(P)
        <5>1. k \in Int /\ n \in Int /\ m = k + n /\ Len(P) \in Int
          BY <2>6, <2>8, <1>8
        <5>2. l = Len(P) - k
          BY <4>2, <2>7
        <5>3. (k + 1) + (n + 1) - 1 = m + 1
          BY <5>1
        <5> QED
          BY <5>1, <5>2, <5>3
      <4> QED
        BY <4>4, <4>5
    <3> QED
      BY <3>1, <3>2, <1>8
  <2>11. P[m].part # "head"
    BY <1>12, <1>10, <2>7, <2>8
  <2>12. \/ /\ kind \in Unreadable /\ (kind = "BAD" => Head(data).part = "junk")
            /\ Head(data).req = i /\ result = Refused(-1)
         \/ kind = "POST" /\ m \in 2..3 /\ result = Refused(1)
         \/ /\ kind \notin Unreadable /\ m = Len(P)
            /\ result = [code |-> 0, req |-> i, body |-> BodyPieces(i, kind)]
    <3>1. P = Pieces(i, kind) /\ sent[c][i] = kind
      BY <2>5
    <3> QED
      BY <3>1, <2>5, <2>9, <2>11, <1>5, PrefixParse
  <2>13. CASE /\ kind \in Unreadable /\ (kind = "BAD" => Head(data).part = "junk")
              /\ Head(data).req = i /\ result = Refused(-1)
    <3>1. result.code = -1 /\ result \in Result
      BY <2>13, <1>3, <1>5 DEF Refused
    <3>2. \E j \in DOMAIN sent[c] : sent[c][j] \in Unreadable
      BY <2>5, <2>13
    <3>3. Stuck(c)'
      BY <3>1, <2>5, <2>13, <1>3, <1>4, <1>6 DEF Stuck, Unreadable
    <3> QED
      BY <3>1, <3>2, <3>3, <1>4, <1>6, <1>12, <1>10, HandConn
  <2>14. CASE kind = "POST" /\ m \in 2..3 /\ result = Refused(1)
    <3>1. result.code = 1
      BY <2>14 DEF Refused
    <3>2. recv'[c] = data /\ handed' = handed
      BY <3>1, <1>6
    <3>3. Partial(c, m)'
      BY <3>2, <2>4, <2>5, <2>9, <2>10, <2>14, <1>4 DEF Partial
    <3>4. m \in 0..3
      BY <2>14
    <3>5. InStep(c)'
      BY <3>2, <3>3, <3>4, <1>12 DEF InStep
    <3>6. Good(c)' = Good(c)
      BY <1>4 DEF Good
    <3> QED
      BY <3>2, <3>5, <3>6, <1>4, <1>12, <1>10 DEF ConnInv
  <2>15. CASE /\ kind \notin Unreadable /\ m = Len(P)
              /\ result = [code |-> 0, req |-> i, body |-> BodyPieces(i, kind)]
    <3>1. result.code = 0 /\ result \in Result
      BY <2>15, <1>3, <1>5
    <3>2. recv'[c] = << >> /\ wire'[c] = << >>
      BY <3>1, <2>6, <2>10, <2>15, <1>6, SubSeqEmpty
    <3>3. Handle(c, result) /\ handed'[c] = Append(handed[c], result)
      BY <3>1, <1>6 DEF Handle, TypeOK
    <3>4. Len(handed[c]) + 1 = i /\ \A j \in 1..Len(handed[c]) : handed[c][j].code = 0
      BY <2>4, <2>5, <1>8, <1>12 DEF InStep
    <3>5. /\ Len(handed'[c]) = i
          /\ \A j \in 1..Len(handed'[c]) : handed'[c][j].code = 0
      <4>1. /\ Len(handed'[c]) = i
            /\ \A j \in 1..i : handed'[c][j] = IF j = i THEN result ELSE handed[c][j]
            /\ \A j \in 1..i : j # i => j \in 1..Len(handed[c])
        BY <3>1, <3>3, <3>4, <1>8
      <4> QED
        BY <4>1, <3>1, <3>4
    <3>6. InStep(c)'
      BY <3>2, <3>5, <2>5, <1>4 DEF InStep
    <3>7. i \in Good(c)
      <4>1. ASSUME NEW j \in 1..i PROVE sent[c][j] \notin Unreadable
        <5>1. CASE j \in 1..Len(handed[c])
          <6>1. j \in DOMAIN handed[c] /\ handed[c][j].code = 0
            BY <5>1, <3>4, <1>8
          <6>2. j \in Good(c)
            BY <6>1, <1>12, <1>10 DEF ConnInv
          <6>3. j \in 1..j
            OBVIOUS
          <6> QED
            BY <6>2, <6>3 DEF Good
        <5>2. CASE j = i
          BY <5>2, <2>5, <2>15
        <5> QED
          BY <5>1, <5>2, <3>4, <1>8
      <4> QED
        BY <4>1, <2>5 DEF Good
    <3> QED
      BY <3>1, <3>3, <3>4, <3>6, <3>7, <2>5, <2>15, <1>4, <1>12, <1>10, HandConn
  <2> QED
    BY <2>12, <2>13, <2>14, <2>15
<1> QED
  BY <1>4, <1>11, <1>12, <1>9, <1>10 DEF ConnInv

(* A read that ends inside a head ends in an error. *)
LEMMA CutIsRefused ==
  ASSUME TypeOK, NEW c \in Conn, ConnInv(c), OnConnRead(c), c \in cut' \ cut
  PROVE  \E result \in Result : result.code # 0 /\ Handle(c, result)
<1>1. PICK n \in 1..Len(wire[c]) :
        OnConnRequest(c, SubSeq(wire[c], 1, n)) /\ wire[c][n].part = "head"
  BY DEF OnConnRead
<1>2. PICK data : data = recv[c] \o SubSeq(wire[c], 1, n)
  OBVIOUS
<1>3. wire[c] \in Seq(Piece) /\ Len(wire[c]) \in Nat /\ wire[c] # << >>
  BY DEF TypeOK
<1>4. ParseReq(c, data) = Refused(-1)
  <2>1. CASE Stuck(c)
    BY <2>1, <1>2, StuckIsRefused
  <2>2. CASE InStep(c)
    <3>1. PICK k \in 0..3 : Partial(c, k)
      BY <2>2, <1>3 DEF InStep
    <3>2. PICK i, kind, P : PartLeft(c, k, i, kind, P)
      BY <3>1, <1>3, PartialWire
    <3>3. /\ kind \in Kind
          /\ P \in Seq(Piece) /\ Len(P) = Len(Parts[kind]) /\ Len(P) \in Nat
          /\ \A j \in 1..Len(P) : P[j].part = Parts[kind][j]
      BY <3>2 DEF PartLeft
    <3>4. /\ k + 1 <= Len(P) /\ Len(wire[c]) = Len(P) - k
          /\ \A j \in 1..Len(wire[c]) : wire[c][j] = P[k + j]
      BY <3>2 DEF PartLeft
    <3>5. k + n \in 1..Len(P) /\ wire[c][n] = P[k + n]
      BY <3>3, <3>4
    <3>6. Parts[kind][k + n] = "head"
      BY <3>3, <3>5, <1>1
    <3>7. ASSUME NEW j \in 1..Len(Parts[kind]), Parts[kind][j] = "head" PROVE j = 1
      <4>1. CASE kind \in {"GET", "BARE"}
        BY <3>7, <4>1 DEF Parts
      <4>2. CASE kind \in {"POST", "BIG"}
        <5>1. Parts[kind] = <<"head", "end", "body", "body">>
          BY <4>2 DEF Parts
        <5>2. j \in {1, 2, 3, 4}
          BY <5>1
        <5> QED
          BY <5>1, <5>2, <3>7
      <4>3. CASE kind = "BAD"
        BY <3>7, <4>3 DEF Parts
      <4> QED
        BY <4>1, <4>2, <4>3, <3>3 DEF Kind, Parts
    <3>8. k = 0 /\ n = 1
      <4>1. k + n = 1
        BY <3>3, <3>5, <3>6, <3>7
      <4>2. k \in Nat /\ n \in Nat /\ n >= 1
        BY <1>3
      <4> QED
        BY <4>1, <4>2
    <3>9. recv[c] = << >>
      <4>1. recv[c] = SubSeq(P, 1, 0)
        BY <3>1, <3>2, <3>8 DEF Partial, PartLeft
      <4> QED
        BY <4>1, <3>3, SubSeqEmpty
    <3>10. Len(data) = 1
      <4>1. SubSeq(wire[c], 1, 1) \in Seq(Piece) /\ Len(SubSeq(wire[c], 1, 1)) = 1
        BY <1>3, <3>8
      <4> QED
        BY <4>1, <3>8, <3>9, <1>2, ConcatEmptySeq
    <3> QED
      BY <3>10 DEF ParseReq, HasHeader
  <2>3. c \in readable
    BY DEF OnConnRead
  <2> QED
    BY <2>1, <2>2, <2>3 DEF ConnInv
<1>5. Handle(c, Refused(-1))
  BY <1>1, <1>2, <1>4 DEF OnConnRequest, Refused
<1>6. Refused(-1) \in Result /\ Refused(-1).code # 0
  BY ResultTypes DEF Refused
<1> QED
  BY <1>5, <1>6

-----------------------------------------------------------------------------
(* Together. *)

(* Every step keeps the invariant. *)
LEMMA NextPolite == PoliteInv /\ [Next]_vars => PoliteInv'
<1> SUFFICES ASSUME PoliteInv, [Next]_vars PROVE PoliteInv'
  OBVIOUS
<1>1. TypeOK /\ AnswerInv /\ \A c \in Conn : ConnInv(c)
  BY ConnInvs DEF PoliteInv
<1>2. TypeOK'
  BY <1>1, NextTyped
<1> DEFINE Kept == AnswerInv' /\ \A d \in Conn : ConnInv(d)'
<1>3. ASSUME Listen \/ OnListen \/ Close \/ CloseOnEvent PROVE Kept
  <2>0. /\ UNCHANGED <<told, conns, recv, readable, clientVars, handed, answerVars>>
        /\ cut' = cut
    BY <1>3 DEF Listen, OnListen, Close, CloseOnEvent, historyVars
  <2>1. AnswerInv'
    BY <1>1, <2>0, AnswersUnmoved DEF answerVars
  <2>2. ASSUME NEW d \in Conn PROVE ConnInv(d)'
    BY <1>1, <2>0, Undisturbed DEF clientVars
  <2> QED
    BY <2>1, <2>2
<1>4. ASSUME WriteOnEvent PROVE Kept
  <2>1. AnswerInv'
    BY <1>1, <1>4, WriteAnswers
  <2>2. \A d \in Conn : told'[d] = "new" => told[d] = "new"
    BY <1>1, <1>4 DEF WriteOnEvent, TypeOK
  <2>3. ASSUME NEW d \in Conn PROVE ConnInv(d)'
    BY <1>1, <1>4, <2>2, Undisturbed DEF WriteOnEvent, clientVars, historyVars
  <2> QED
    BY <2>1, <2>3
<1>5. ASSUME NEW c \in Conn, Ask(c) PROVE Kept
  <2>1. AnswerInv'
    BY <1>1, <1>5, AnswersUnmoved DEF Ask, answerVars
  <2>2. \A d \in Conn : d # c => sent'[d] = sent[d] /\ wire'[d] = wire[d]
    BY <1>1, <1>5, AskTyped DEF TypeOK
  <2>3. ASSUME NEW d \in Conn, d # c PROVE ConnInv(d)'
    BY <1>1, <1>5, <2>2, <2>3, Undisturbed DEF Ask, historyVars
  <2> QED
    BY <1>1, <1>5, <2>1, <2>3, AskConn
<1>6. ASSUME NEW c \in Conn, OnNewConn(c) PROVE Kept
  <2>1. AnswerInv'
    BY <1>1, <1>6, AnswersUnmoved DEF OnNewConn, answerVars
  <2>2. ASSUME NEW d \in Conn, d # c PROVE ConnInv(d)'
    <3>1. told'[d] = told[d] /\ (d \in conns' => d \in conns) /\ (d \in readable' => d \in readable)
      BY <1>1, <1>6, <2>2 DEF OnNewConn, Lifecycle!Accept, TypeOK
    <3> QED
      BY <1>1, <1>6, <3>1, Undisturbed DEF OnNewConn, clientVars, historyVars
  <2> QED
    BY <1>1, <1>6, <2>1, <2>2, NewConn
<1>7. ASSUME NEW c \in Conn, OnCloseConn(c) PROVE Kept
  <2>1. AnswerInv'
    BY <1>1, <1>7, AnswersUnmoved DEF OnCloseConn, answerVars
  <2>2. ASSUME NEW d \in Conn PROVE ConnInv(d)'
    <3>1. /\ told'[d] = "new" => told[d] = "new" /\ d # c
          /\ d # c => wire'[d] = wire[d]
          /\ d \in readable' => d \in readable /\ d # c
          /\ d \in conns' => d \in conns
      BY <1>1, <1>7, <2>2 DEF OnCloseConn, Lifecycle!Finish, TypeOK
    <3> QED
      BY <1>1, <1>7, <3>1, Undisturbed DEF OnCloseConn, historyVars
  <2> QED
    BY <2>1, <2>2
<1>8. ASSUME NEW c \in Conn, OnConnRead(c) PROVE Kept
  <2>1. PICK n \in 1..Len(wire[c]) :
          /\ wire' = [wire EXCEPT ![c] = SubSeq(@, n + 1, Len(@))]
          /\ OnConnRequest(c, SubSeq(wire[c], 1, n))
    BY <1>8 DEF OnConnRead
  <2>2. PICK result \in Result :
          /\ recv' = [recv EXCEPT ![c] = IF result.code = 0 THEN << >>
                                         ELSE recv[c] \o SubSeq(wire[c], 1, n)]
          /\ UNCHANGED <<handed, answerVars>> \/ Handle(c, result)
    BY <1>1, <2>1, ReadTyped DEF OnConnRequest
  <2>3. AnswerInv'
    BY <1>1, <2>2, HandleAnswers, AnswersUnmoved DEF answerVars
  <2>4. \A d \in Conn : d # c =>
          recv'[d] = recv[d] /\ handed'[d] = handed[d] /\ wire'[d] = wire[d]
    BY <1>1, <2>1, <2>2 DEF Handle, TypeOK
  <2>5. ASSUME NEW d \in Conn, d # c PROVE ConnInv(d)'
    BY <1>1, <1>8, <2>4, <2>5, Undisturbed DEF OnConnRead
  <2> QED
    BY <1>1, <1>8, <2>3, <2>5, ReadConn
<1>9. ASSUME NEW c \in Conn, OnConnReadEof(c) PROVE Kept
  <2>1. AnswerInv'
    BY <1>1, <1>9, AnswersUnmoved DEF OnConnReadEof, answerVars
  <2>2. ASSUME NEW d \in Conn PROVE ConnInv(d)'
    <3>1. /\ told'[d] = "new" => told[d] = "new"
          /\ d \in readable' => d \in readable
      BY <1>1, <1>9 DEF OnConnReadEof, ShutdownAndClose, Lifecycle!Fail, TypeOK
    <3> QED
      BY <1>1, <1>9, <3>1, Undisturbed DEF OnConnReadEof, clientVars, historyVars
  <2> QED
    BY <2>1, <2>2
<1>10. ASSUME NEW c \in Conn, OnConnReadError(c) PROVE Kept
  <2>1. Refused(-200) \in Result /\ Handle(c, Refused(-200))
    BY <1>10, ResultTypes DEF OnConnReadError
  <2>2. AnswerInv'
    BY <1>1, <2>1, HandleAnswers
  <2>3. ASSUME NEW d \in Conn, d # c PROVE ConnInv(d)'
    <3>1. /\ told'[d] = "new" => told[d] = "new"
          /\ d \in readable' => d \in readable
          /\ wire'[d] = wire[d] /\ handed'[d] = handed[d]
      BY <1>1, <1>10, <2>1, <2>3
         DEF OnConnReadError, ShutdownAndClose, Lifecycle!Fail, Handle, TypeOK
    <3> QED
      BY <1>1, <1>10, <3>1, Undisturbed DEF OnConnReadError, historyVars
  <2> QED
    BY <1>1, <1>10, <2>2, <2>3, ErrorConn
<1>11. ASSUME NEW c \in Conn, NEW n \in DOMAIN handed[c], Answer(c, n) PROVE Kept
  <2>1. AnswerInv'
    BY <1>1, <1>11, AnswerAnswers
  <2>2. ASSUME NEW d \in Conn PROVE ConnInv(d)'
    BY <1>1, <1>11, Undisturbed DEF Answer, clientVars
  <2> QED
    BY <2>1, <2>2
<1>12. ASSUME UNCHANGED vars PROVE Kept
  <2>1. AnswerInv'
    BY <1>1, <1>12, AnswersUnmoved DEF vars
  <2>2. ASSUME NEW d \in Conn PROVE ConnInv(d)'
    BY <1>1, <1>12, Undisturbed DEF vars
  <2> QED
    BY <2>1, <2>2
<1>13. Kept
  BY <1>3, <1>4, <1>5, <1>6, <1>7, <1>8, <1>9, <1>10, <1>11, <1>12 DEF Next
<1>14. (NewInv /\ ReadInv /\ MadeInv /\ HandedWhole /\ RefusalHasCause)'
  BY <1>13 DEF ConnInv, NewInv, ReadInv, MadeInv, HandedWhole, RefusalHasCause
<1> QED
  BY <1>2, <1>13, <1>14 DEF PoliteInv

(* The inductive invariant holds always. *)
LEMMA PoliteInvHolds == Spec => []PoliteInv
BY InitPolite, NextPolite, PTL DEF Spec

(* Every variable keeps its type. *)
THEOREM TypeCorrect == Spec => []TypeOK
<1>1. PoliteInv => TypeOK
  BY DEF PoliteInv
<1> QED
  BY <1>1, PoliteInvHolds, PTL

(* HttpServer::OnConnRequest hands over the requests of a connection in    *)
(* order, each once and with the whole of its own body, into however many  *)
(* reads the bodies were cut and whenever the server is closed or listens  *)
(* again: on every connection on which no read ended inside a head.        *)
THEOREM HandsRequestsWhole == Spec => []HandedWhole
<1>1. PoliteInv => HandedWhole
  BY DEF PoliteInv
<1> QED
  BY <1>1, PoliteInvHolds, PTL

(* ParseReq refuses a connection only after something unreadable was sent  *)
(* on it or a read on it ended inside a head, wherever reads may end.      *)
THEOREM RefusesWithCause == Spec => []RefusalHasCause
<1>1. PoliteInv => RefusalHasCause
  BY DEF PoliteInv
<1> QED
  BY <1>1, PoliteInvHolds, PTL

-----------------------------------------------------------------------------
(* HttpServer takes the steps of an HttpExchange. *)

Up == {c \in Conn \ (refused \cup cut) : told[c] \in {"new", "Connected"}}

(* What the mapping counts is finite. *)
LEMMA Counted ==
  ASSUME TypeOK, NEW c \in Conn
  PROVE  /\ IsFiniteSet(Good(c)) /\ Cardinality(Good(c)) \in Nat
         /\ IsFiniteSet(Handed(c)) /\ Cardinality(Handed(c)) \in Nat
         /\ IsFiniteSet(Written(c)) /\ Cardinality(Written(c)) \in Nat
<1>1. ASSUME NEW S, NEW s \in Seq(S), NEW T \in SUBSET DOMAIN s
      PROVE  IsFiniteSet(T) /\ Cardinality(T) \in Nat
  <2>1. DOMAIN s = 1..Len(s) /\ Len(s) \in Nat
    BY LenProperties
  <2>2. IsFiniteSet(DOMAIN s)
    BY <2>1, FS_Interval
  <2>3. IsFiniteSet(T)
    BY <2>2, FS_Subset
  <2> QED
    BY <2>3, FS_CardinalityType
<1>2. sent[c] \in Seq(Kinds) /\ handed[c] \in Seq(Result) /\ written[c] \in Seq(Nat)
  BY DEF TypeOK
<1>3. /\ Good(c) \in SUBSET DOMAIN sent[c]
      /\ Handed(c) \in SUBSET DOMAIN handed[c]
      /\ Written(c) \in SUBSET DOMAIN written[c]
  BY DEF Good, Handed, Written
<1> QED
  BY <1>1, <1>2, <1>3

(* Only what was handed is answered, each once. *)
WrittenIsHanded ==
  \A c \in Conn : Cardinality(Written(c)) <= Cardinality(Handed(c))

(* No more answers are written than requests handed over. *)
LEMMA WrittenAmongHanded == TypeOK /\ AnswerInv => WrittenIsHanded
<1> SUFFICES ASSUME TypeOK, AnswerInv, NEW c \in Conn
             PROVE  Cardinality(Written(c)) <= Cardinality(Handed(c))
  BY DEF WrittenIsHanded
<1> DEFINE f == [k \in Written(c) |-> written[c][k]]
<1>1. /\ DOMAIN written[c] = 1..Len(written[c])
      /\ DOMAIN handed[c] = 1..Len(handed[c])
  BY LenProperties DEF TypeOK
<1>2. \A k \in Written(c) : written[c][k] \in Handed(c)
  BY <1>1 DEF Written, Handed, AnswerInv, WrittenInv
<1>3. \A k, l \in Written(c) : written[c][k] = written[c][l] => k = l
  BY <1>1 DEF Written, AnswerInv, WrittenInv
<1>4. f \in [Written(c) -> Handed(c)]
  BY <1>2
<1>5. ~(Cardinality(Handed(c)) < Cardinality(Written(c)))
  <2> SUFFICES ASSUME Cardinality(Handed(c)) < Cardinality(Written(c)) PROVE FALSE
    OBVIOUS
  <2>1. \A x \in Written(c) : f[x] = written[c][x]
    OBVIOUS
  <2>2. /\ IsFiniteSet(Written(c)) /\ IsFiniteSet(Handed(c))
    BY Counted
  <2> HIDE DEF f
  <2>3. \E x, y \in Written(c) : x # y /\ f[x] = f[y]
    BY <1>4, <2>2, FS_PigeonHole
  <2> QED
    BY <2>1, <2>3, <1>3
<1> QED
  BY <1>5, Counted

(* The same after a step. *)
LEMMA WrittenAmongHandedNext == TypeOK' /\ AnswerInv' => WrittenIsHanded'
BY WrittenAmongHanded, PTL

(* Losing connections is Break. *)
LEMMA MapsToBreak ==
  ASSUME \A d \in Conn : /\ Good(d)' = Good(d) /\ Handed(d)' = Handed(d)
                         /\ Written(d)' = Written(d),
         Up' \subseteq Up
  PROVE  Exchange!Next
<1>1. Up' = Up \ (Up \ Up')
  OBVIOUS
<1>2. Exchange!Break
  BY <1>1 DEF Exchange!Break, Up
<1> QED
  BY <1>2 DEF Exchange!Next

(* One more well-formed request is Ask. *)
LEMMA MapsToAsk ==
  ASSUME NEW c \in Conn, \A d \in Conn : d # c => Good(d)' = Good(d),
         \A d \in Conn : Handed(d)' = Handed(d) /\ Written(d)' = Written(d),
         Cardinality(Good(c))' = Cardinality(Good(c)) + 1,
         Up' = Up
  PROVE  Exchange!Next
<1>1. Exchange!Ask(c)
  BY DEF Exchange!Ask, Up
<1> QED
  BY <1>1 DEF Exchange!Next

(* One more request handed over is Hand. *)
LEMMA MapsToHand ==
  ASSUME NEW c \in Conn, \A d \in Conn : d # c => Handed(d)' = Handed(d),
         \A d \in Conn : Good(d)' = Good(d) /\ Written(d)' = Written(d),
         Cardinality(Handed(c))' = Cardinality(Handed(c)) + 1,
         Cardinality(Handed(c)) < Cardinality(Good(c)),
         Up' = Up
  PROVE  Exchange!Next
<1>1. Exchange!Hand(c)
  BY DEF Exchange!Hand, Up
<1> QED
  BY <1>1 DEF Exchange!Next

(* One more answer written is Answer. *)
LEMMA MapsToAnswer ==
  ASSUME NEW c \in Conn, \A d \in Conn : d # c => Written(d)' = Written(d),
         \A d \in Conn : Good(d)' = Good(d) /\ Handed(d)' = Handed(d),
         Cardinality(Written(c))' = Cardinality(Written(c)) + 1,
         Cardinality(Written(c)) < Cardinality(Handed(c)),
         Up' = Up
  PROVE  Exchange!Next
<1>1. Exchange!Answer(c)
  BY DEF Exchange!Answer, Up
<1> QED
  BY <1>1 DEF Exchange!Next

(* A call of the handler adds to what was handed when it brings a request, *)
(* and leaves alone what was answered.                                     *)
LEMMA HandleCounts ==
  ASSUME TypeOK, AnswerInv, NEW c \in Conn, NEW result \in Result, Handle(c, result)
  PROVE  /\ \A d \in Conn : d # c => Handed(d)' = Handed(d)
         /\ \A d \in Conn : Written(d)' = Written(d)
         /\ Len(handed[c]) + 1 \notin Handed(c)
         /\ \/ Handed(c)' = Handed(c)
            \/ /\ result.code = 0 /\ \A n \in DOMAIN handed[c] : handed[c][n].code = 0
               /\ Handed(c)' = Handed(c) \cup {Len(handed[c]) + 1}
<1>1. /\ handed' = [handed EXCEPT ![c] = Append(handed[c], result)] /\ written' = written
      /\ handed[c] \in Seq(Result) /\ Len(handed[c]) \in Nat
  BY DEF Handle, TypeOK
<1>2. /\ \A d \in Conn : d # c => handed'[d] = handed[d]
      /\ handed'[c] = Append(handed[c], result)
  BY <1>1 DEF TypeOK
<1>3. /\ DOMAIN handed[c] = 1..Len(handed[c])
      /\ DOMAIN handed'[c] = 1..(Len(handed[c]) + 1)
      /\ \A n \in 1..Len(handed[c]) : handed'[c][n] = handed[c][n]
      /\ handed'[c][Len(handed[c]) + 1] = result
  BY <1>1, <1>2
<1>4. ASSUME NEW d \in Conn, d # c PROVE Handed(d)' = Handed(d)
  BY <1>2, <1>4 DEF Handed, IsGood
<1>5. ASSUME NEW d \in Conn PROVE Written(d)' = Written(d)
  <2>1. DOMAIN written[d] = 1..Len(written[d])
    BY LenProperties DEF TypeOK
  <2>2. \A k \in DOMAIN written[d] : written[d][k] \in 1..Len(handed[d])
    BY <2>1 DEF AnswerInv, WrittenInv
  <2>3. \A n \in 1..Len(handed[d]) : handed'[d][n] = handed[d][n]
    BY <1>2, <1>3
  <2>4. handed[d] \in Seq(Result) /\ Len(handed[d]) \in Nat
    BY DEF TypeOK
  <2>5. \A n \in 1..Len(handed[d]) : \A m \in 1..n : m \in 1..Len(handed[d])
    BY <2>4
  <2>6. \A n \in 1..Len(handed[d]) : IsGood(d, n)' <=> IsGood(d, n)
    BY <2>3, <2>5 DEF IsGood
  <2> QED
    BY <2>2, <2>6, <1>1 DEF Written
<1>6. /\ Len(handed[c]) + 1 \notin 1..Len(handed[c])
      /\ \A n \in 1..Len(handed[c]) : n \in 1..(Len(handed[c]) + 1)
      /\ \A n \in 1..(Len(handed[c]) + 1) : n \in 1..Len(handed[c]) \/ n = Len(handed[c]) + 1
  BY <1>1
<1>7. \A n \in 1..Len(handed[c]) : IsGood(c, n)' <=> IsGood(c, n)
  <2>1. \A n \in 1..Len(handed[c]) : \A m \in 1..n : m \in 1..Len(handed[c])
    BY <1>1
  <2> QED
    BY <2>1, <1>3 DEF IsGood
<1>8. PICK k : k = Len(handed[c]) + 1
  OBVIOUS
<1>9. IsGood(c, k)' <=> result.code = 0 /\ \A n \in DOMAIN handed[c] : handed[c][n].code = 0
  <2>1. k \in 1..k
    BY <1>1, <1>8
  <2> QED
    BY <2>1, <1>3, <1>6, <1>8 DEF IsGood
<1>10. \A n : n \in Handed(c)' <=> n \in 1..k /\ IsGood(c, n)'
  BY <1>3, <1>8 DEF Handed
<1>11. \A n : n \in Handed(c) <=> n \in 1..Len(handed[c]) /\ IsGood(c, n)
  BY <1>3 DEF Handed
<1>12. CASE IsGood(c, k)'
  <2>1. k \in 1..k
    BY <1>1, <1>8
  <2>2. Handed(c)' = Handed(c) \cup {k}
    BY <2>1, <1>6, <1>7, <1>8, <1>10, <1>11, <1>12
  <2> QED
    BY <2>2, <1>4, <1>5, <1>6, <1>8, <1>9, <1>11, <1>12
<1>13. CASE ~(IsGood(c, k)')
  <2>1. Handed(c)' = Handed(c)
    BY <1>6, <1>7, <1>8, <1>10, <1>11, <1>13
  <2> QED
    BY <2>1, <1>4, <1>5, <1>6, <1>11
<1> QED
  BY <1>12, <1>13

(* A call leaves nothing behind that the client did not ask for; after a   *)
(* cut head nothing more counts.                                           *)
LEMMA HandGood ==
  ASSUME TypeOK, AnswerInv, CutInv, GoodInv, MadeInv', NEW c \in Conn,
         NEW result \in Result, Handle(c, result), sent' = sent,
         cut' = cut \/ (cut' \subseteq cut \cup {c} /\ result.code # 0)
  PROVE  CutInv' /\ GoodInv'
<1>0. \A d \in Conn : d # c => Handed(d)' = Handed(d)
  BY HandleCounts
<1>1. /\ \A d \in Conn : d # c => handed'[d] = handed[d]
      /\ handed'[c] = Append(handed[c], result)
      /\ handed[c] \in Seq(Result) /\ Len(handed[c]) \in Nat
  BY DEF Handle, TypeOK
<1>2. /\ DOMAIN handed[c] = 1..Len(handed[c])
      /\ DOMAIN handed'[c] = 1..(Len(handed[c]) + 1)
      /\ \A n \in DOMAIN handed[c] : n \in DOMAIN handed'[c] /\ handed'[c][n] = handed[c][n]
      /\ Len(handed[c]) + 1 \in DOMAIN handed'[c]
      /\ handed'[c][Len(handed[c]) + 1] = result
  BY <1>1
<1>3. \A d \in Conn : Good(d)' = Good(d)
  BY DEF Good
<1>4. ASSUME NEW d \in cut' PROVE \E m \in DOMAIN handed'[d] : handed'[d][m].code # 0
  <2>1. CASE d \in cut /\ d # c
    BY <2>1, <1>1 DEF CutInv, TypeOK
  <2>2. CASE d \in cut /\ d = c
    BY <2>2, <1>2 DEF CutInv
  <2>3. CASE d \notin cut
    BY <2>3, <1>2, <1>4
  <2> QED
    BY <2>1, <2>2, <2>3
<1>5. CutInv'
  BY <1>4 DEF CutInv
<1>6. Handed(c)' \subseteq Good(c)'
  <2>1. CASE Handed(c)' = Handed(c)
    BY <2>1, <1>3 DEF GoodInv
  <2>2. CASE /\ result.code = 0 /\ \A n \in DOMAIN handed[c] : handed[c][n].code = 0
             /\ Handed(c)' = Handed(c) \cup {Len(handed[c]) + 1}
    <3>1. c \notin cut'
      BY <2>2 DEF CutInv
    <3>2. Len(handed[c]) + 1 \in Good(c)'
      BY <3>1, <2>2, <1>2 DEF MadeInv
    <3> QED
      BY <3>2, <2>2, <1>3 DEF GoodInv
  <2> QED
    BY <2>1, <2>2, HandleCounts
<1>7. GoodInv'
  BY <1>0, <1>3, <1>6 DEF GoodInv
<1> QED
  BY <1>5, <1>7

(* Handing over is Hand, or Break when the request is refused. *)
LEMMA HandStep ==
  ASSUME TypeOK, TypeOK', AnswerInv, GoodInv',
         NEW c \in Conn, NEW result \in Result, Handle(c, result),
         result.code = 0 => Up' = Up, Up' \subseteq Up, sent' = sent
  PROVE  Exchange!Next
<1>1. \A d \in Conn : Good(d)' = Good(d)
  BY DEF Good
<1>2. /\ \A d \in Conn : d # c => Handed(d)' = Handed(d)
      /\ \A d \in Conn : Written(d)' = Written(d)
      /\ Len(handed[c]) + 1 \notin Handed(c)
      /\ \/ Handed(c)' = Handed(c)
         \/ result.code = 0 /\ Handed(c)' = Handed(c) \cup {Len(handed[c]) + 1}
  BY HandleCounts
<1>3. CASE Handed(c)' = Handed(c)
  <2>1. \A d \in Conn : Handed(d)' = Handed(d)
    BY <1>2, <1>3
  <2> QED
    BY <2>1, <1>1, <1>2, MapsToBreak
<1>4. CASE result.code = 0 /\ Handed(c)' = Handed(c) \cup {Len(handed[c]) + 1}
  <2>1. IsFiniteSet(Handed(c)) /\ Cardinality(Handed(c)) \in Nat /\ Cardinality(Good(c)) \in Nat
    BY Counted
  <2>2. Cardinality(Handed(c))' = Cardinality(Handed(c)) + 1
    BY <2>1, <1>2, <1>4, FS_AddElement
  <2>3. Cardinality(Handed(c)') <= Cardinality(Good(c)')
    <3>1. Handed(c)' \subseteq Good(c)'
      BY DEF GoodInv
    <3>2. IsFiniteSet(Good(c)')
      BY <1>1, Counted
    <3> QED
      BY <3>1, <3>2, FS_Subset
  <2>4. Cardinality(Handed(c)) < Cardinality(Good(c))
    BY <2>1, <2>2, <2>3, <1>1
  <2> QED
    BY <2>2, <2>4, <1>1, <1>2, <1>4, MapsToHand
<1> QED
  BY <1>2, <1>3, <1>4

(* A client's request is Ask, or a Break of no connection when it is       *)
(* unreadable.                                                             *)
LEMMA AskStep ==
  ASSUME TypeOK, NEW c \in Conn, Ask(c)
  PROVE  Exchange!Next
<1>1. PICK kind \in Kinds : /\ sent' = [sent EXCEPT ![c] = Append(sent[c], kind)]
                            /\ sent'[c] = Append(sent[c], kind)
                            /\ Len(sent[c]) \in Nat
  BY AskTyped
<1>2. \A d \in Conn : Handed(d)' = Handed(d) /\ Written(d)' = Written(d)
  BY DEF Ask, answerVars, Handed, Written, IsGood
<1>3. Up' = Up
  BY DEF Ask, Up, historyVars
<1>4. \A d \in Conn : d # c => Good(d)' = Good(d)
  BY <1>1 DEF Good, TypeOK
<1>5. Good(c)' \in {Good(c), Good(c) \cup {Len(sent[c]) + 1}}
  BY <1>1, StillGood
<1>6. CASE Good(c)' = Good(c)
  <2>1. \A d \in Conn : Good(d)' = Good(d)
    BY <1>4, <1>6
  <2> QED
    BY <2>1, <1>2, <1>3, MapsToBreak
<1>7. CASE Good(c)' = Good(c) \cup {Len(sent[c]) + 1}
  <2>1. DOMAIN sent[c] = 1..Len(sent[c])
    BY LenProperties DEF TypeOK
  <2>2. Len(sent[c]) + 1 \notin 1..Len(sent[c])
    BY <1>1
  <2>3. Len(sent[c]) + 1 \notin Good(c)
    BY <2>1, <2>2 DEF Good
  <2>4. Cardinality(Good(c))' = Cardinality(Good(c)) + 1
    BY <2>3, <1>7, Counted, FS_AddElement
  <2> QED
    BY <2>4, <1>2, <1>3, <1>4, MapsToAsk
<1> QED
  BY <1>5, <1>6, <1>7

(* Writing an answer is Answer, or Break when the connection is gone. *)
LEMMA WriteStep ==
  ASSUME TypeOK, AnswerInv, TypeOK', AnswerInv', WriteOnEvent
  PROVE  Exchange!Next
<1>1. posted \in Seq(Conn \X Nat) /\ posted # << >>
  BY DEF WriteOnEvent, TypeOK
<1>2. Head(posted) \in Conn \X Nat
  BY <1>1, HeadTailProperties
<1>3. PICK c \in Conn, n \in Nat : Head(posted) = <<c, n>>
  BY <1>2
<1>4. Head(posted)[1] = c /\ Head(posted)[2] = n
  BY <1>3
<1>5. \A d \in Conn : Good(d)' = Good(d) /\ Handed(d)' = Handed(d)
  BY DEF WriteOnEvent, clientVars, Good, Handed, IsGood
<1>6. CASE told' = [told EXCEPT ![c] = "Shutdown"] /\ written' = written
  <2>1. Up' \subseteq Up
    BY <1>6 DEF WriteOnEvent, Up, TypeOK, historyVars
  <2>2. \A d \in Conn : Written(d)' = Written(d)
    BY <1>6 DEF WriteOnEvent, Written, IsGood
  <2> QED
    BY <2>1, <2>2, <1>5, MapsToBreak
<1>7. CASE written' = [written EXCEPT ![c] = Append(written[c], n)] /\ told' = told
  <2>1. Up' = Up /\ handed' = handed
    BY <1>7 DEF WriteOnEvent, Up, historyVars
  <2>2. written[c] \in Seq(Nat) /\ Len(written[c]) \in Nat
    BY DEF TypeOK
  <2>3. /\ \A d \in Conn : d # c => written'[d] = written[d]
        /\ written'[c] = Append(written[c], n)
    BY <1>7 DEF TypeOK
  <2>4. \A d \in Conn : d # c => Written(d)' = Written(d)
    BY <2>1, <2>3 DEF Written, IsGood
  <2>5. /\ DOMAIN written[c] = 1..Len(written[c])
        /\ DOMAIN written'[c] = 1..(Len(written[c]) + 1)
        /\ \A k \in 1..Len(written[c]) : written'[c][k] = written[c][k]
        /\ written'[c][Len(written[c]) + 1] = n
    BY <2>2, <2>3
  <2>6. /\ Len(written[c]) + 1 \notin 1..Len(written[c])
        /\ Len(written[c]) + 1 \in 1..(Len(written[c]) + 1)
        /\ \A k \in 1..Len(written[c]) : k \in 1..(Len(written[c]) + 1)
        /\ \A k \in 1..(Len(written[c]) + 1) :
             k \in 1..Len(written[c]) \/ k = Len(written[c]) + 1
    BY <2>2
  <2>7. \A k : k \in 1..Len(written[c]) => (k \in Written(c)' <=> k \in Written(c))
    BY <2>1, <2>5, <2>6 DEF Written, IsGood
  <2>8. /\ \A k \in Written(c) : k \in 1..Len(written[c])
        /\ \A k \in Written(c)' : k \in 1..Len(written[c]) \/ k = Len(written[c]) + 1
    BY <2>5, <2>6 DEF Written
  <2>9. CASE Len(written[c]) + 1 \notin Written(c)'
    <3>1. Written(c)' = Written(c)
      BY <2>7, <2>8, <2>9
    <3>2. \A d \in Conn : Written(d)' = Written(d)
      BY <3>1, <2>4
    <3> QED
      BY <3>2, <2>1, <1>5, MapsToBreak
  <2>10. CASE Len(written[c]) + 1 \in Written(c)'
    <3>1. Written(c)' = Written(c) \cup {Len(written[c]) + 1}
      BY <2>7, <2>8, <2>10
    <3>2. Len(written[c]) + 1 \notin Written(c)
      BY <2>6, <2>8
    <3>3. IsFiniteSet(Written(c)) /\ Cardinality(Written(c)) \in Nat /\ Cardinality(Handed(c)) \in Nat
      BY Counted
    <3>4. Cardinality(Written(c))' = Cardinality(Written(c)) + 1
      BY <3>1, <3>2, <3>3, FS_AddElement
    <3>5. (Cardinality(Written(c)) <= Cardinality(Handed(c)))'
      BY WrittenAmongHandedNext DEF WrittenIsHanded
    <3>6. Cardinality(Written(c)) < Cardinality(Handed(c))
      BY <3>3, <3>4, <3>5, <1>5
    <3> QED
      BY <3>4, <3>6, <2>1, <2>4, <1>5, MapsToAnswer
  <2> QED
    BY <2>9, <2>10
<1> QED
  BY <1>4, <1>6, <1>7 DEF WriteOnEvent

(* Every other step leaves the requests and the answers alone; at most a   *)
(* connection breaks.                                                      *)
LEMMA QuietStep ==
  ASSUME TypeOK, UNCHANGED <<sent, handed, written>>, Up' \subseteq Up
  PROVE  Exchange!Next
<1>1. \A d \in Conn : /\ Good(d)' = Good(d) /\ Handed(d)' = Handed(d)
                      /\ Written(d)' = Written(d)
  BY DEF Good, Handed, Written, IsGood
<1> QED
  BY <1>1, MapsToBreak

(* At first HttpExchange is in its first state. *)
LEMMA ExchangeInit == Init => Exchange!Init
<1> SUFFICES ASSUME Init PROVE Exchange!Init
  OBVIOUS
<1>1. ASSUME NEW c \in Conn
      PROVE  Good(c) = {} /\ Handed(c) = {} /\ Written(c) = {}
  BY DEF Init, Good, Handed, Written
<1>2. Cardinality({}) = 0
  BY FS_EmptySet
<1>3. Up = Conn
  BY DEF Init, Up
<1> QED
  BY <1>1, <1>2, <1>3 DEF Exchange!Init, Up

(* Every step is one of HttpExchange or a stutter. *)
LEMMA ExchangeStep ==
  ASSUME PoliteInv, PoliteInv', GoodInv', [Next]_vars
  PROVE  [Exchange!Next]_(Exchange!vars)
<1>0. /\ TypeOK /\ AnswerInv /\ TypeOK' /\ AnswerInv'
      /\ \A c \in Conn : ConnInv(c)
  BY ConnInvs DEF PoliteInv
<1>1. ASSUME Listen \/ OnListen \/ Close \/ CloseOnEvent PROVE Exchange!Next
  <2>1. UNCHANGED <<told, handed, clientVars, answerVars, historyVars>>
    BY <1>1 DEF Listen, OnListen, Close, CloseOnEvent
  <2>2. Up' \subseteq Up
    BY <2>1 DEF Up, historyVars
  <2> QED
    BY <1>0, <2>1, <2>2, QuietStep DEF clientVars, answerVars
<1>2. ASSUME WriteOnEvent PROVE Exchange!Next
  BY <1>0, <1>2, WriteStep
<1>3. ASSUME NEW c \in Conn, Ask(c) PROVE Exchange!Next
  BY <1>0, <1>3, AskStep
<1>4. ASSUME NEW c \in Conn, OnNewConn(c) PROVE Exchange!Next
  <2>1. Up' \subseteq Up
    BY <1>0, <1>4 DEF OnNewConn, Lifecycle!Accept, Up, TypeOK, historyVars
  <2> QED
    BY <1>0, <1>4, <2>1, QuietStep DEF OnNewConn, clientVars, answerVars
<1>5. ASSUME NEW c \in Conn, OnCloseConn(c) PROVE Exchange!Next
  <2>1. Up' \subseteq Up
    BY <1>0, <1>5 DEF OnCloseConn, Lifecycle!Finish, Up, TypeOK, historyVars
  <2> QED
    BY <1>0, <1>5, <2>1, QuietStep DEF OnCloseConn, answerVars
<1>6. ASSUME NEW c \in Conn, OnConnReadEof(c) PROVE Exchange!Next
  <2>1. Up' \subseteq Up
    BY <1>0, <1>6 DEF OnConnReadEof, ShutdownAndClose, Lifecycle!Fail, Up, TypeOK, historyVars
  <2> QED
    BY <1>0, <1>6, <2>1, QuietStep DEF OnConnReadEof, clientVars, answerVars
<1>7. ASSUME NEW c \in Conn, OnConnReadError(c) PROVE Exchange!Next
  <2>1. Up' \subseteq Up
    BY <1>0, <1>7 DEF OnConnReadError, ShutdownAndClose, Lifecycle!Fail, Up, TypeOK, historyVars
  <2>2. Refused(-200) \in Result /\ Refused(-200).code # 0
    BY ResultTypes DEF Refused
  <2>3. Handle(c, Refused(-200)) /\ sent' = sent
    BY <1>7 DEF OnConnReadError
  <2> QED
    BY <1>0, <2>1, <2>2, <2>3, HandStep
<1>8. ASSUME NEW c \in Conn, OnConnRead(c) PROVE Exchange!Next
  <2>1. PICK n \in 1..Len(wire[c]) :
          /\ OnConnRequest(c, SubSeq(wire[c], 1, n))
          /\ cut' = IF wire[c][n].part = "head" THEN cut \cup {c} ELSE cut
    BY <1>8 DEF OnConnRead
  <2>2. Up' \subseteq Up /\ sent' = sent /\ (cut' = cut => Up' = Up)
    BY <1>8, <2>1 DEF OnConnRead, Up
  <2>3. CASE cut' = cut
    <3>1. PICK result \in Result : UNCHANGED <<handed, answerVars>> \/ Handle(c, result)
      BY <1>0, <2>1, ReadTyped DEF OnConnRequest
    <3>2. CASE UNCHANGED <<handed, answerVars>>
      BY <1>0, <2>2, <3>2, QuietStep DEF answerVars
    <3>3. CASE Handle(c, result)
      BY <1>0, <2>2, <2>3, <3>3, HandStep
    <3> QED
      BY <3>1, <3>2, <3>3
  <2>4. CASE cut' # cut
    <3>1. c \in cut' \ cut
      BY <2>1, <2>4
    <3>2. PICK result \in Result : result.code # 0 /\ Handle(c, result)
      BY <3>1, <1>0, <1>8, CutIsRefused
    <3> QED
      BY <3>2, <1>0, <2>2, HandStep
  <2> QED
    BY <2>3, <2>4
<1>9. ASSUME NEW c \in Conn, NEW n \in DOMAIN handed[c], Answer(c, n) PROVE Exchange!Next
  <2>1. Up' \subseteq Up
    BY <1>9 DEF Answer, Up
  <2> QED
    BY <1>0, <1>9, <2>1, QuietStep DEF Answer, clientVars
<1>10. ASSUME UNCHANGED vars PROVE Exchange!Next
  <2>1. Up' \subseteq Up
    BY <1>10 DEF vars, Up
  <2> QED
    BY <1>0, <1>10, <2>1, QuietStep DEF vars
<1> QED
  BY <1>1, <1>2, <1>3, <1>4, <1>5, <1>6, <1>7, <1>8, <1>9, <1>10 DEF Next

-----------------------------------------------------------------------------
(* Nothing more counts on a connection on which a read ended inside a      *)
(* head.                                                                   *)
LEMMA NextGood ==
  ASSUME PoliteInv, PoliteInv', CutInv, GoodInv, [Next]_vars
  PROVE  CutInv' /\ GoodInv'
<1>0. /\ TypeOK /\ AnswerInv /\ MadeInv' /\ \A c \in Conn : ConnInv(c)
  BY ConnInvs DEF PoliteInv
<1>1. ASSUME cut' = cut, handed' = handed, \A c \in Conn : Good(c) \subseteq Good(c)'
      PROVE  CutInv' /\ GoodInv'
  BY <1>1 DEF CutInv, GoodInv, Handed, IsGood
<1>2. ASSUME cut' = cut, handed' = handed, sent' = sent PROVE CutInv' /\ GoodInv'
  <2>1. \A c \in Conn : Good(c)' = Good(c)
    BY <1>2 DEF Good
  <2> QED
    BY <2>1, <1>1, <1>2
<1>3. ASSUME NEW c \in Conn, Ask(c) PROVE CutInv' /\ GoodInv'
  <2>1. cut' = cut /\ handed' = handed
    BY <1>3 DEF Ask, historyVars
  <2>2. PICK kind \in Kinds : /\ sent' = [sent EXCEPT ![c] = Append(sent[c], kind)]
                              /\ sent'[c] = Append(sent[c], kind)
    BY <1>0, <1>3, AskTyped
  <2>3. \A d \in Conn : d # c => Good(d)' = Good(d)
    BY <1>0, <2>2 DEF Good, TypeOK
  <2>4. Good(c) \subseteq Good(c)'
    BY <1>0, <2>2, StillGood
  <2> QED
    BY <2>1, <2>3, <2>4, <1>1
<1>4. ASSUME NEW c \in Conn, OnConnRead(c) PROVE CutInv' /\ GoodInv'
  <2>1. PICK n \in 1..Len(wire[c]) :
          /\ OnConnRequest(c, SubSeq(wire[c], 1, n))
          /\ cut' = IF wire[c][n].part = "head" THEN cut \cup {c} ELSE cut
    BY <1>4 DEF OnConnRead
  <2>2. sent' = sent
    BY <1>4 DEF OnConnRead
  <2>3. CASE cut' = cut
    <3>1. PICK result \in Result : UNCHANGED <<handed, answerVars>> \/ Handle(c, result)
      BY <1>0, <2>1, ReadTyped DEF OnConnRequest
    <3>2. CASE handed' = handed
      BY <3>2, <2>2, <2>3, <1>2
    <3>3. CASE Handle(c, result)
      BY <3>3, <2>2, <2>3, <1>0, HandGood
    <3> QED
      BY <3>1, <3>2, <3>3
  <2>4. CASE cut' # cut
    <3>1. cut' = cut \cup {c} /\ c \in cut' \ cut
      BY <2>1, <2>4
    <3>2. PICK result \in Result : result.code # 0 /\ Handle(c, result)
      BY <3>1, <1>0, <1>4, CutIsRefused
    <3> QED
      BY <3>1, <3>2, <2>2, <1>0, HandGood
  <2> QED
    BY <2>3, <2>4
<1>5. ASSUME NEW c \in Conn, OnConnReadError(c) PROVE CutInv' /\ GoodInv'
  <2>1. Refused(-200) \in Result /\ Handle(c, Refused(-200)) /\ sent' = sent /\ cut' = cut
    BY <1>5, ResultTypes DEF OnConnReadError, historyVars
  <2> QED
    BY <2>1, <1>0, HandGood
<1>6. ASSUME Listen \/ OnListen \/ Close \/ CloseOnEvent \/ WriteOnEvent
      PROVE  CutInv' /\ GoodInv'
  BY <1>2, <1>6 DEF Listen, OnListen, Close, CloseOnEvent, WriteOnEvent, clientVars, historyVars
<1>7. ASSUME NEW c \in Conn, OnNewConn(c) \/ OnCloseConn(c) \/ OnConnReadEof(c)
      PROVE  CutInv' /\ GoodInv'
  BY <1>2, <1>7 DEF OnNewConn, OnCloseConn, OnConnReadEof, clientVars, historyVars
<1>8. ASSUME NEW c \in Conn, NEW n \in DOMAIN handed[c], Answer(c, n) PROVE CutInv' /\ GoodInv'
  BY <1>2, <1>8 DEF Answer, clientVars
<1>9. ASSUME UNCHANGED vars PROVE CutInv' /\ GoodInv'
  BY <1>2, <1>9 DEF vars
<1> QED
  BY <1>3, <1>4, <1>5, <1>6, <1>7, <1>8, <1>9 DEF Next

(* Wherever reads end, the well-formed requests of every connection are    *)
(* handed over one by one, none twice and none that was not made, and      *)
(* answered one by one, whenever the server is closed or listens again; a  *)
(* connection that broke, or on which a read ended inside a head or an     *)
(* answer was refused because the server was closed, does not come back    *)
(* (the safety part of ImplementsExchange).                                *)
THEOREM RefinesExchange == Spec => Exchange!Init /\ [][Exchange!Next]_(Exchange!vars)
<1>1. Init => CutInv /\ GoodInv
  BY DEF Init, CutInv, GoodInv, Handed
<1>2. PoliteInv /\ PoliteInv' /\ CutInv /\ GoodInv /\ [Next]_vars => CutInv' /\ GoodInv'
  BY NextGood
<1>3. PoliteInv /\ PoliteInv' /\ GoodInv' /\ [Next]_vars
        => [Exchange!Next]_(Exchange!vars)
  BY ExchangeStep
<1> QED
  BY <1>1, <1>2, <1>3, ExchangeInit, PoliteInvHolds, PTL DEF Spec
=============================================================================
