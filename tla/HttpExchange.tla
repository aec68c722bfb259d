---------------------------- MODULE HttpExchange ----------------------------
(***************************************************************************)
(* What an HTTP server promises: the requests a client makes on one        *)
(* connection are handed to the application one by one and as long as the  *)
(* connection is up none is forgotten, neither on its way to the           *)
(* application nor on its way back.  HttpServer implements this            *)
(* specification.                                                          *)
(***************************************************************************)
EXTENDS Naturals

CONSTANT Conn

VARIABLES asked,     \* requests made on each connection
          handed,    \* how many of them the application was given
          answered,  \* how many of these were answered
          up         \* the connections that work in both directions

vars == <<asked, handed, answered, up>>

Init == /\ asked = [c \in Conn |-> 0]
        /\ handed = asked
        /\ answered = asked
        /\ up = Conn

Ask(c) == /\ asked' = [asked EXCEPT ![c] = @ + 1]
          /\ UNCHANGED <<handed, answered, up>>

Hand(c) == /\ handed[c] < asked[c]
           /\ handed' = [handed EXCEPT ![c] = @ + 1]
           /\ UNCHANGED <<asked, answered, up>>

Answer(c) == /\ answered[c] < handed[c]
             /\ answered' = [answered EXCEPT ![c] = @ + 1]
             /\ UNCHANGED <<asked, handed, up>>

(* One connection breaks, or all of them with the server.                  *)
Break == /\ \E S \in SUBSET up : up' = up \ S
         /\ UNCHANGED <<asked, handed, answered>>

Next == Break \/ \E c \in Conn : Ask(c) \/ Hand(c) \/ Answer(c)

Spec == /\ Init /\ [][Next]_vars
        /\ \A c \in Conn : /\ WF_vars(c \in up /\ Hand(c))
                           /\ WF_vars(c \in up /\ Answer(c))
=============================================================================
