-------------------------- MODULE PoliteHttpServer --------------------------
(***************************************************************************)
(* The HttpServer for the clients its parser is written for: they wait for *)
(* an answer before the next request.  Reads end where they like; what is  *)
(* promised of a connection on which one ended inside a head is less.  The *)
(* invariants that are inductive then.                                     *)
(***************************************************************************)
EXTENDS HttpServer

ASSUME PoliteAssumption == ~Pipelines

(* An answer is on its way once, and answers a call there was.             *)
WaitingInv == \A w \in waiting : w[2] \in 1..Len(handed[w[1]])
PostedInv ==
  \A i \in 1..Len(posted) :
    /\ \E c \in Conn : \E n \in 1..Len(handed[c]) : posted[i] = <<c, n>>
    /\ posted[i] \notin waiting
    /\ \A j \in 1..Len(posted) : posted[i] = posted[j] => i = j
WrittenInv ==
  \A c \in Conn : \A k \in 1..Len(written[c]) :
    /\ written[c][k] \in 1..Len(handed[c])
    /\ <<c, written[c][k]>> \notin waiting
    /\ \A i \in 1..Len(posted) : posted[i] # <<c, written[c][k]>>
    /\ \A l \in 1..Len(written[c]) : written[c][k] = written[c][l] => k = l
AnswerInv == WaitingInv /\ PostedInv /\ WrittenInv

(* A connection the application was not told about did nothing.            *)
NewInv ==
  \A c \in Conn : told[c] = "new" =>
    /\ c \notin conns
    /\ recv[c] = << >> /\ sent[c] = << >> /\ wire[c] = << >> /\ handed[c] = << >>

(* Everything on the connection was handed whole, but perhaps the last     *)
(* request: its pieces are read up to k, and only a POST is read in parts. *)
Partial(c, k) ==
  LET pieces == Pieces(Len(sent[c]), Last(sent[c])) IN
    /\ Len(handed[c]) = Len(sent[c]) - 1
    /\ k = 0 \/ (Last(sent[c]) = "POST" /\ k \in 2..3)
    /\ recv[c] = SubSeq(pieces, 1, k)
    /\ wire[c] = SubSeq(pieces, k + 1, Len(pieces))
InStep(c) ==
  /\ \A n \in 1..Len(handed[c]) : handed[c][n].code = 0
  /\ \/ Len(handed[c]) = Len(sent[c]) /\ recv[c] = << >> /\ wire[c] = << >>
     \/ \E k \in 0..3 : Partial(c, k)

(* An unreadable request is stuck at the start of recv.                    *)
Stuck(c) == /\ recv[c] # << >>
            /\ Head(recv[c]).req \in DOMAIN sent[c]
            /\ \/ Head(recv[c]).part = "junk" /\ sent[c][Head(recv[c]).req] = "BAD"
               \/ sent[c][Head(recv[c]).req] = "BIG"

ReadInv == \A c \in Conn : c \in readable => InStep(c) \/ Stuck(c) \/ c \in cut

(* No request is handed that was not made, nor one after an unreadable     *)
(* one.                                                                    *)
MadeInv ==
  \A c \in Conn \ cut : \A n \in DOMAIN handed[c] :
    handed[c][n].code = 0 => n \in Good(c)

PoliteInv == /\ TypeOK /\ AnswerInv /\ NewInv /\ ReadInv /\ MadeInv
             /\ HandedWhole /\ RefusalHasCause

(* A connection on which a read ended inside a head was refused, and no    *)
(* request counts after that; before, only what was asked for is handed.   *)
CutInv == \A c \in cut : \E m \in DOMAIN handed[c] : handed[c][m].code # 0
GoodInv == \A c \in Conn : Handed(c) \subseteq Good(c)
=============================================================================
