-------------------------- MODULE EventLoopProofs --------------------------
(***************************************************************************)
(* What EventLoop guarantees for every set of posters and every number of  *)
(* posts: its type, no lost wake-up, the order of each poster's functions, *)
(* that stop() waits for what was handed over before it, and that every    *)
(* step is a step of Mailbox.                                              *)
(***************************************************************************)
EXTENDS EventLoop, SequenceTheorems, TLAPS

Item == Task \cup {Stop}

(* Everything handed over so far, in the order of push_back: what ran,     *)
(* what the current batch still holds, and what is in the list.            *)
History == ran \o (batch \o async_cbk)

-----------------------------------------------------------------------------
(* Type correctness *)

(* The constructor gives every variable its type. *)
LEMMA InitType == Init => TypeOK
<1> SUFFICES ASSUME Init PROVE TypeOK
  OBVIOUS
<1>1. << >> \in Seq(Task \cup {Stop})
  OBVIOUS
<1>2. posted \in [Poster -> 0..MaxPosts]
  BY MaxPostsAssumption DEF Init
<1> QED
  BY <1>1, <1>2 DEF Init, TypeOK

(* Every step keeps the types. *)
LEMMA NextType == TypeOK /\ [Next]_vars => TypeOK'
<1> SUFFICES ASSUME TypeOK, [Next]_vars PROVE TypeOK'
  OBVIOUS
<1> USE MaxPostsAssumption DEF TypeOK
<1>1. CASE StartBegin
  BY <1>1 DEF StartBegin
<1>2. CASE StartEnd
  BY <1>2 DEF StartEnd, loopVars
<1>3. CASE StopBegin
  <2>1. async_cbk' \in Seq(Task \cup {Stop})
    BY <1>3, AppendProperties DEF StopBegin, PushBack
  <2>2. sending' \in SUBSET Thread
    BY <1>3 DEF StopBegin, PushBack, Thread
  <2> QED
    BY <1>3, <2>1, <2>2 DEF StopBegin, loopVars
<1>4. CASE StopEnd
  BY <1>4 DEF StopEnd, loopVars
<1>5. ASSUME NEW p \in Poster, MoveToThread(p) PROVE TypeOK'
  <2>1. [from |-> p, n |-> posted[p] + 1] \in Task
    BY <1>5 DEF MoveToThread, Task
  <2>2. async_cbk' \in Seq(Task \cup {Stop})
    BY <1>5, <2>1, AppendProperties DEF MoveToThread, PushBack
  <2>3. sending' \in SUBSET Thread
    BY <1>5 DEF MoveToThread, PushBack, Thread
  <2>4. posted' \in [Poster -> 0..MaxPosts]
    BY <1>5 DEF MoveToThread
  <2> QED
    BY <1>5, <2>2, <2>3, <2>4 DEF MoveToThread, loopVars, ownerVars
<1>6. ASSUME NEW t \in Thread, UvAsyncSend(t) PROVE TypeOK'
  BY <1>6 DEF UvAsyncSend, loopVars
<1>7. CASE LoopInit
  BY <1>7 DEF LoopInit
<1>8. CASE WakeUp
  BY <1>8 DEF WakeUp, ownerVars
<1>9. CASE Drain
  BY <1>9 DEF Drain, ownerVars
<1>10. CASE RunOne
  <2>1. Head(batch) \in Task \cup {Stop} /\ Tail(batch) \in Seq(Task \cup {Stop})
    BY <1>10, HeadTailProperties DEF RunOne
  <2>2. ran' \in Seq(Task \cup {Stop})
    BY <1>10, <2>1, AppendProperties DEF RunOne
  <2> QED
    BY <1>10, <2>1, <2>2 DEF RunOne, ownerVars
<1>11. CASE BatchEnd
  BY <1>11 DEF BatchEnd, ownerVars
<1>12. CASE LoopExit
  BY <1>12 DEF LoopExit
<1>13. CASE UNCHANGED vars
  BY <1>13 DEF vars
<1> QED
  BY <1>1, <1>2, <1>3, <1>4, <1>5, <1>6, <1>7, <1>8, <1>9, <1>10, <1>11,
     <1>12, <1>13 DEF Next, LoopStep

(* The variables keep the types the code gives them.                       *)
THEOREM TypeCorrect == Spec => []TypeOK
BY InitType, NextType, PTL DEF Spec

-----------------------------------------------------------------------------
(* No lost wake-up.  The list is empty until start() returned, so the      *)
(* reset of the async handle in run() loses nothing; after that, whenever  *)
(* the loop is not about to drain, a non-empty list has a wake-up coming.  *)

WakeUpInv ==
  /\ owner \in {"new", "starting"} => async_cbk = << >>
  /\ loop \in {"none", "init"} =>
       owner \in {"new", "starting"} /\ status \in {"Stoped", "Starting"}
  /\ loop \notin {"none", "init", "drain"} /\ async_cbk # << >> =>
       pending \/ sending # {}

(* Nothing waits for a wake-up at first. *)
LEMMA InitWakeUp == Init => WakeUpInv
BY DEF Init, WakeUpInv

(* Every step keeps the wake-ups that are due. *)
LEMMA NextWakeUp == TypeOK /\ WakeUpInv /\ [Next]_vars => WakeUpInv'
<1> SUFFICES ASSUME TypeOK, WakeUpInv, [Next]_vars PROVE WakeUpInv'
  OBVIOUS
<1> USE DEF WakeUpInv
<1>1. CASE StartBegin
  BY <1>1 DEF StartBegin
<1>2. CASE StartEnd
  BY <1>2 DEF StartEnd, loopVars
<1>3. CASE StopBegin
  BY <1>3 DEF StopBegin, PushBack, loopVars
<1>4. CASE StopEnd
  BY <1>4 DEF StopEnd, loopVars
<1>5. ASSUME NEW p \in Poster, MoveToThread(p) PROVE WakeUpInv'
  BY <1>5 DEF MoveToThread, PushBack, loopVars, ownerVars
<1>6. ASSUME NEW t \in Thread, UvAsyncSend(t) PROVE WakeUpInv'
  BY <1>6 DEF UvAsyncSend, loopVars
<1>7. CASE LoopInit
  BY <1>7 DEF LoopInit
<1>8. CASE WakeUp
  BY <1>8 DEF WakeUp, ownerVars
<1>9. CASE Drain
  BY <1>9 DEF Drain, ownerVars
<1>10. CASE RunOne
  BY <1>10 DEF RunOne, ownerVars
<1>11. CASE BatchEnd
  BY <1>11 DEF BatchEnd, ownerVars
<1>12. CASE LoopExit
  BY <1>12 DEF LoopExit
<1>13. CASE UNCHANGED vars
  BY <1>13 DEF vars
<1> QED
  BY <1>1, <1>2, <1>3, <1>4, <1>5, <1>6, <1>7, <1>8, <1>9, <1>10, <1>11,
     <1>12, <1>13 DEF Next, LoopStep

(* A function in the list never waits on a sleeping loop that nobody is    *)
(* about to wake, for any number of posters.                               *)
THEOREM NeverLosesWakeUp == Spec => []NoLostWakeup
<1>1. WakeUpInv => NoLostWakeup
  BY DEF WakeUpInv, NoLostWakeup
<1> QED
  BY <1>1, InitType, NextType, InitWakeUp, NextWakeUp, PTL DEF Spec

-----------------------------------------------------------------------------
(* The history.  Only push_back changes it, and only at its end; the loop  *)
(* thread moves functions from one part of it to the next.                 *)

(* What the history is made of. *)
LEMMA HistoryType ==
  ASSUME TypeOK
  PROVE  /\ History \in Seq(Item)
         /\ Len(History) = Len(ran) + Len(batch \o async_cbk)
         /\ Len(ran) \in Nat /\ Len(History) \in Nat
         /\ Len(ran) <= Len(History)
         /\ \A i \in 1..Len(ran) : History[i] = ran[i]
<1>1. ran \in Seq(Item) /\ batch \in Seq(Item) /\ async_cbk \in Seq(Item)
  BY DEF TypeOK, Item
<1>2. batch \o async_cbk \in Seq(Item)
  BY <1>1, ConcatProperties
<1>3. Len(ran) \in Nat /\ Len(batch \o async_cbk) \in Nat
  BY <1>1, <1>2, LenProperties
<1>4. /\ History \in Seq(Item)
      /\ Len(History) = Len(ran) + Len(batch \o async_cbk)
      /\ \A i \in 1..Len(ran) + Len(batch \o async_cbk) : History[i] =
            IF i <= Len(ran) THEN ran[i] ELSE (batch \o async_cbk)[i - Len(ran)]
  BY <1>1, <1>2, ConcatProperties DEF History
<1> QED
  BY <1>3, <1>4

(* A push adds its function at the end. *)
LEMMA PushExtendsHistory ==
  ASSUME TypeOK, NEW f \in Item, async_cbk' = Append(async_cbk, f),
         UNCHANGED <<ran, batch>>
  PROVE  /\ History' = Append(History, f)
         /\ batch' \o async_cbk' = Append(batch \o async_cbk, f)
<1>1. /\ ran \in Seq(Item) /\ batch \in Seq(Item) /\ async_cbk \in Seq(Item)
      /\ <<f>> \in Seq(Item)
  BY DEF TypeOK, Item
<1>2. batch \o async_cbk \in Seq(Item)
  BY <1>1, ConcatProperties
<1>3. async_cbk' = async_cbk \o <<f>>
  BY <1>1, AppendIsConcat
<1>4. batch \o async_cbk' = (batch \o async_cbk) \o <<f>>
  BY <1>1, <1>3, ConcatAssociative
<1>5. batch' \o async_cbk' = Append(batch \o async_cbk, f)
  BY <1>2, <1>4, AppendIsConcat
<1>6. ran \o (batch \o async_cbk') = History \o <<f>>
  BY <1>1, <1>2, <1>4, ConcatAssociative DEF History
<1>7. History \o <<f>> = Append(History, f)
  BY HistoryType, AppendIsConcat
<1>8. History' = ran \o (batch \o async_cbk')
  BY DEF History
<1> QED
  BY <1>5, <1>6, <1>7, <1>8

(* Taking the list as the batch changes nothing about the order.           *)
LEMMA DrainKeepsQueue ==
  ASSUME TypeOK, batch = << >>, Drain
  PROVE  batch' \o async_cbk' = batch \o async_cbk
<1>1. async_cbk \in Seq(Item)
  BY DEF TypeOK, Item
<1> QED
  BY <1>1, ConcatEmptySeq DEF Drain

(* The function that runs is the oldest one. *)
LEMMA RunOneTakesHead ==
  ASSUME TypeOK, RunOne
  PROVE  /\ batch \o async_cbk # << >>
         /\ ran' = Append(ran, Head(batch \o async_cbk))
         /\ batch' \o async_cbk' = Tail(batch \o async_cbk)
         /\ History' = History
<1> DEFINE h == Head(batch)
           t == Tail(batch)
<1>1. /\ ran \in Seq(Item) /\ batch \in Seq(Item) /\ async_cbk \in Seq(Item)
      /\ batch # << >>
  BY DEF TypeOK, Item, RunOne
<1>2. h \in Item /\ t \in Seq(Item) /\ batch = <<h>> \o t
  <2>1. /\ h \in Item /\ t \in Seq(Item) /\ Len(t) = Len(batch) - 1
        /\ \A i \in 1..Len(t) : t[i] = batch[i + 1]
    BY <1>1, HeadTailProperties
  <2>2. Len(batch) \in Nat \ {0} /\ h = batch[1]
    BY <1>1, EmptySeq
  <2>3. <<h>> \in Seq(Item) /\ Len(<<h>>) = 1 /\ <<h>>[1] = h
    BY <2>1
  <2>4. /\ <<h>> \o t \in Seq(Item)
        /\ Len(<<h>> \o t) = 1 + Len(t)
        /\ \A i \in 1..1 + Len(t) : (<<h>> \o t)[i] =
              IF i <= 1 THEN <<h>>[i] ELSE t[i - 1]
    BY <2>1, <2>3, ConcatProperties
  <2>5. \A i \in 1..Len(batch) : batch[i] = (<<h>> \o t)[i]
    <3> TAKE i \in 1..Len(batch)
    <3>1. CASE i = 1
      BY <3>1, <2>1, <2>2, <2>3, <2>4
    <3>2. CASE i # 1
      <4>1. i - 1 \in 1..Len(t)
        BY <3>2, <2>1, <2>2
      <4> QED
        BY <3>2, <4>1, <2>1, <2>2, <2>4
    <3> QED
      BY <3>1, <3>2
  <2> QED
    BY <1>1, <2>1, <2>2, <2>4, <2>5, SeqEqual
<1>3. <<h>> \in Seq(Item)
  BY <1>2
<1>4. t \o async_cbk \in Seq(Item)
  BY <1>1, <1>2, ConcatProperties
<1>5. batch \o async_cbk = <<h>> \o (t \o async_cbk)
  BY <1>1, <1>2, <1>3, ConcatAssociative
<1>6. /\ <<h>> \o (t \o async_cbk) # << >>
      /\ Head(<<h>> \o (t \o async_cbk)) = h
      /\ Tail(<<h>> \o (t \o async_cbk)) = t \o async_cbk
  BY <1>2, <1>4
<1>7. (ran \o <<h>>) \o (t \o async_cbk) = ran \o (<<h>> \o (t \o async_cbk))
  BY <1>1, <1>3, <1>4, ConcatAssociative
<1>8. ran' = ran \o <<h>>
  BY <1>1, <1>2, AppendIsConcat DEF RunOne
<1>9. batch' = t /\ async_cbk' = async_cbk
  BY DEF RunOne
<1>10. History' = History
  BY <1>5, <1>7, <1>8, <1>9 DEF History
<1> QED
  BY <1>5, <1>6, <1>9, <1>10 DEF RunOne

-----------------------------------------------------------------------------
(* Where the loop thread is.  Between batches there is nothing left of the *)
(* last one, and only a loop that ran Stop leaves uv_run.                  *)

LoopInv ==
  /\ owner = "new" => loop = "none"
  /\ loop # "run" => batch = << >>
  /\ stop_flag => \E i \in 1..Len(ran) : ran[i] = Stop
  /\ loop = "done" => stop_flag

(* The loop has not run at first. *)
LEMMA InitLoop == Init => LoopInv
BY DEF Init, LoopInv

(* Every step keeps where the loop is. *)
LEMMA NextLoop == TypeOK /\ LoopInv /\ [Next]_vars => LoopInv'
<1> SUFFICES ASSUME TypeOK, LoopInv, [Next]_vars PROVE LoopInv'
  OBVIOUS
<1> USE DEF LoopInv, ownerVars
<1>1. CASE StartBegin \/ StartEnd \/ StopEnd
  BY <1>1 DEF StartBegin, StartEnd, StopEnd, loopVars
<1>2. CASE StopBegin
  BY <1>2 DEF StopBegin, loopVars
<1>3. ASSUME NEW p \in Poster, MoveToThread(p) PROVE LoopInv'
  BY <1>3 DEF MoveToThread, loopVars
<1>4. ASSUME NEW t \in Thread, UvAsyncSend(t) PROVE LoopInv'
  BY <1>4 DEF UvAsyncSend, loopVars
<1>5. CASE LoopInit \/ WakeUp \/ Drain \/ BatchEnd \/ LoopExit
  BY <1>5 DEF LoopInit, WakeUp, Drain, BatchEnd, LoopExit
<1>6. CASE RunOne
  <2>1. ran \in Seq(Item) /\ Head(batch) \in Item
    BY <1>6, HeadTailProperties DEF TypeOK, Item, RunOne
  <2>2. /\ Len(ran) \in Nat
        /\ Len(ran') = Len(ran) + 1
        /\ \A i \in 1..Len(ran) : ran'[i] = ran[i]
        /\ ran'[Len(ran) + 1] = Head(batch)
    BY <1>6, <2>1, AppendProperties, LenProperties DEF RunOne
  <2>3. stop_flag' => \E i \in 1..Len(ran') : ran'[i] = Stop
    <3>1. CASE stop_flag
      <4>1. PICK i \in 1..Len(ran) : ran[i] = Stop
        BY <3>1
      <4>2. i \in 1..Len(ran') /\ ran'[i] = Stop
        BY <4>1, <2>2
      <4> QED
        BY <4>2
    <3>2. CASE Head(batch) = Stop
      BY <3>2, <2>2
    <3> QED
      BY <1>6, <3>1, <3>2 DEF RunOne
  <2> QED
    BY <1>6, <2>3 DEF RunOne
<1>7. CASE UNCHANGED vars
  BY <1>7 DEF vars
<1> QED
  BY <1>1, <1>2, <1>3, <1>4, <1>5, <1>6, <1>7 DEF Next, LoopStep

-----------------------------------------------------------------------------
(* Refinement.  push_back is Post, RunOne is Execute, leaving uv_run is    *)
(* Shut, and every other step leaves Mailbox's variables alone.            *)

(* The constructor makes an empty Mailbox. *)
LEMMA InitRefines == Init => Box!Init
<1> SUFFICES ASSUME Init PROVE Box!Init
  OBVIOUS
<1>1. batch \o async_cbk = << >>
  BY ConcatEmptySeq DEF Init
<1> QED
  BY <1>1 DEF Init, Box!Init

(* Every step is one of Mailbox or leaves it alone. *)
LEMMA NextRefines ==
  TypeOK /\ LoopInv /\ [Next]_vars => [Box!Next]_(Box!vars)
<1> SUFFICES ASSUME TypeOK, LoopInv, [Next]_vars
             PROVE  Box!Next \/ UNCHANGED Box!vars
  OBVIOUS
<1>1. ASSUME NEW f \in Item, async_cbk' = Append(async_cbk, f),
             UNCHANGED loopVars
      PROVE  Box!Next
  <2>1. batch' \o async_cbk' = Append(batch \o async_cbk, f)
    BY <1>1, PushExtendsHistory DEF loopVars
  <2> QED
    BY <1>1, <2>1 DEF loopVars, Item, Box!Next, Box!Post
<1>2. ASSUME UNCHANGED <<async_cbk, batch, ran>>, (loop' = "done") <=> (loop = "done")
      PROVE  UNCHANGED Box!vars
  BY <1>2 DEF Box!vars
<1>3. CASE StartBegin \/ StartEnd \/ StopEnd
  <2>1. loop = "done" => loop' = "done"
    BY <1>3 DEF StartBegin, StartEnd, StopEnd, loopVars, LoopInv
  <2> QED
    BY <1>2, <1>3, <2>1 DEF StartBegin, StartEnd, StopEnd, loopVars
<1>4. CASE StopBegin
  BY <1>1, <1>4 DEF StopBegin, PushBack, Item
<1>5. ASSUME NEW p \in Poster, MoveToThread(p)
      PROVE  Box!Next
  <2>1. [from |-> p, n |-> posted[p] + 1] \in Item
    BY <1>5, MaxPostsAssumption DEF MoveToThread, Item, Task, TypeOK
  <2> QED
    BY <1>1, <1>5, <2>1 DEF MoveToThread, PushBack
<1>6. ASSUME NEW t \in Thread, UvAsyncSend(t)
      PROVE  UNCHANGED Box!vars
  BY <1>2, <1>6 DEF UvAsyncSend, loopVars
<1>7. CASE LoopInit \/ WakeUp \/ BatchEnd
  BY <1>2, <1>7 DEF LoopInit, WakeUp, BatchEnd
<1>8. CASE Drain
  <2>1. batch' \o async_cbk' = batch \o async_cbk
    BY <1>8, DrainKeepsQueue DEF LoopInv, Drain
  <2> QED
    BY <1>8, <2>1 DEF Drain, Box!vars
<1>9. CASE RunOne
  BY <1>9, RunOneTakesHead DEF RunOne, Box!Next, Box!Execute
<1>10. CASE LoopExit
  BY <1>10 DEF LoopExit, LoopInv, Box!Next, Box!Shut
<1>11. CASE UNCHANGED vars
  BY <1>2, <1>11 DEF vars
<1> QED
  BY <1>3, <1>4, <1>5, <1>6, <1>7, <1>8, <1>9, <1>10, <1>11 DEF Next, LoopStep

(* Every behaviour of the loop and its posters is a behaviour of Mailbox:  *)
(* functions run one at a time, in order, once (safety part).              *)
THEOREM RefinesMailbox == Spec => Box!Init /\ [][Box!Next]_(Box!vars)
BY InitType, NextType, InitLoop, NextLoop, InitRefines, NextRefines, PTL
   DEF Spec

-----------------------------------------------------------------------------
(* What the history says.  Each poster's functions are numbered in the     *)
(* order it pushed them and all are there; Stop is pushed once start() has *)
(* returned, behind everything stop() found handed over.                   *)

H == History
Pos == 1..Len(H)

HistoryInv ==
  /\ \A i \in Pos : H[i] # Stop => H[i].n <= posted[H[i].from]
  /\ \A i, j \in Pos :
        i < j /\ H[i] # Stop /\ H[j] # Stop /\ H[i].from = H[j].from
          => H[i].n < H[j].n
  /\ \A t \in Task : t.n <= posted[t.from] => \E i \in Pos : H[i] = t
  /\ owner \in {"new", "starting", "started"} => \A i \in Pos : H[i] # Stop
  /\ \A i \in Pos : H[i] = Stop =>
        \A t \in promised : \E j \in Pos : j < i /\ H[j] = t

(* The history is empty at first. *)
LEMMA InitHistory == Init => HistoryInv
<1> SUFFICES ASSUME Init PROVE HistoryInv
  OBVIOUS
<1>1. H = << >>
  BY ConcatEmptySeq DEF Init, H, History
<1>2. Pos = {}
  BY <1>1 DEF Pos
<1>3. \A t \in Task : ~(t.n <= posted[t.from])
  BY MaxPostsAssumption DEF Init, Task
<1> QED
  BY <1>2, <1>3 DEF HistoryInv

(* The positions of the history after a push. *)
LEMMA PushedAtEnd ==
  ASSUME TypeOK, NEW f \in Item, async_cbk' = Append(async_cbk, f),
         UNCHANGED <<ran, batch>>
  PROVE  /\ Len(H) \in Nat
         /\ Len(H') = Len(H) + 1
         /\ Pos' = Pos \cup {Len(H) + 1}
         /\ \A i \in Pos : H'[i] = H[i] /\ H[i] \in Item
         /\ H'[Len(H) + 1] = f
<1>1. H \in Seq(Item) /\ H' = Append(H, f)
  BY HistoryType, PushExtendsHistory DEF H
<1>2. /\ Len(H) \in Nat
      /\ Len(H') = Len(H) + 1
      /\ \A i \in 1..Len(H) : H'[i] = H[i] /\ H[i] \in Item
      /\ H'[Len(H) + 1] = f
  BY <1>1, AppendProperties, LenProperties, ElementOfSeq
<1> QED
  BY <1>2 DEF Pos

(* A posted function keeps the history in order. *)
LEMMA MoveToThreadHistory ==
  ASSUME TypeOK, HistoryInv, NEW p \in Poster, MoveToThread(p)
  PROVE  HistoryInv'
<1> DEFINE f == [from |-> p, n |-> posted[p] + 1]
           k == Len(H) + 1
<1>1. posted[p] \in Nat /\ posted[p] + 1 \in 1..MaxPosts
  BY MaxPostsAssumption DEF MoveToThread, TypeOK
<1>2. f \in Task /\ f \in Item /\ f # Stop
  BY <1>1, StopAssumption DEF Task, Item
<1>3. /\ Len(H) \in Nat
      /\ Pos' = Pos \cup {k}
      /\ \A i \in Pos : H'[i] = H[i] /\ H[i] \in Item
      /\ H'[k] = f
  BY <1>2, PushedAtEnd DEF MoveToThread, PushBack, loopVars
<1>4. \A i \in Pos : i \in Nat /\ i < k
  BY <1>3 DEF Pos
<1>5. /\ posted' = [posted EXCEPT ![p] = @ + 1]
      /\ posted \in [Poster -> 0..MaxPosts]
      /\ UNCHANGED <<owner, promised>>
      /\ owner \notin {"new", "starting"}
  BY DEF MoveToThread, TypeOK, ownerVars
<1>6. \A q \in Poster : /\ posted[q] \in Nat
                       /\ posted'[q] = IF q = p THEN posted[q] + 1 ELSE posted[q]
  BY <1>5, MaxPostsAssumption
<1>7. \A t \in Task : t.from \in Poster /\ t.n \in Nat
  BY DEF Task
<1>8. \A i \in Pos : H[i] # Stop => H[i] \in Task
  BY <1>3 DEF Item
<1>9. \A i \in Pos' : H'[i] # Stop => H'[i].n <= posted'[H'[i].from]
  <2> TAKE i \in Pos'
  <2>1. CASE i = k
    BY <2>1, <1>1, <1>3, <1>6
  <2>2. CASE i \in Pos
    <3> HAVE H'[i] # Stop
    <3>1. H[i] \in Task /\ H'[i] = H[i] /\ H[i].n <= posted[H[i].from]
      BY <2>2, <1>3, <1>8 DEF HistoryInv
    <3> QED
      BY <3>1, <1>6, <1>7
  <2> QED
    BY <2>1, <2>2, <1>3
<1>10. \A i, j \in Pos' :
         i < j /\ H'[i] # Stop /\ H'[j] # Stop /\ H'[i].from = H'[j].from
           => H'[i].n < H'[j].n
  <2> TAKE i, j \in Pos'
  <2> HAVE i < j /\ H'[i] # Stop /\ H'[j] # Stop /\ H'[i].from = H'[j].from
  <2>1. CASE i \in Pos /\ j \in Pos
    BY <2>1, <1>3 DEF HistoryInv
  <2>2. CASE i \in Pos /\ j = k
    <3>1. /\ H[i] \in Task /\ H'[i] = H[i] /\ H[i].from = p
          /\ H[i].n <= posted[H[i].from]
      BY <2>2, <1>3, <1>8 DEF HistoryInv
    <3>2. H'[j].n = posted[p] + 1
      BY <2>2, <1>3
    <3> QED
      BY <3>1, <3>2, <1>1, <1>7
  <2>3. CASE i = k
    BY <2>3, <1>3, <1>4
  <2> QED
    BY <2>1, <2>2, <2>3, <1>3
<1>11. \A t \in Task : t.n <= posted'[t.from] => \E i \in Pos' : H'[i] = t
  <2> TAKE t \in Task
  <2> HAVE t.n <= posted'[t.from]
  <2>1. CASE t.n <= posted[t.from]
    BY <2>1, <1>3 DEF HistoryInv
  <2>2. CASE ~(t.n <= posted[t.from])
    <3>1. t.from = p /\ t.n = posted[p] + 1
      BY <2>2, <1>6, <1>7
    <3>2. t = f
      BY <3>1 DEF Task
    <3> QED
      BY <3>2, <1>3
  <2> QED
    BY <2>1, <2>2
<1>12. owner' \in {"new", "starting", "started"} => \A i \in Pos' : H'[i] # Stop
  BY <1>2, <1>3, <1>5 DEF HistoryInv
<1>13. \A i \in Pos' : H'[i] = Stop =>
         \A t \in promised' : \E j \in Pos' : j < i /\ H'[j] = t
  <2> TAKE i \in Pos'
  <2> HAVE H'[i] = Stop
  <2> TAKE t \in promised'
  <2>1. i \in Pos /\ H[i] = Stop
    BY <1>2, <1>3
  <2>2. PICK j \in Pos : j < i /\ H[j] = t
    BY <2>1, <1>5 DEF HistoryInv
  <2> QED
    BY <2>2, <1>3
<1> QED
  BY <1>9, <1>10, <1>11, <1>12, <1>13 DEF HistoryInv

(* stop() goes behind everything promised. *)
LEMMA StopBeginHistory ==
  ASSUME TypeOK, HistoryInv, StopBegin
  PROVE  HistoryInv'
<1> DEFINE k == Len(H) + 1
<1>1. /\ Len(H) \in Nat
      /\ Pos' = Pos \cup {k}
      /\ \A i \in Pos : H'[i] = H[i]
      /\ H'[k] = Stop
  BY PushedAtEnd DEF StopBegin, PushBack, loopVars, Item
<1>2. \A i \in Pos : i \in Nat /\ i < k
  BY <1>1 DEF Pos
<1>3. /\ posted' = posted /\ owner = "started" /\ owner' = "stopping"
      /\ promised' = {t \in Task : t.n <= posted[t.from]}
  BY DEF StopBegin
<1>4. \A i \in Pos : H[i] # Stop
  BY <1>3 DEF HistoryInv
<1>5. \A i \in Pos' : H'[i] = Stop =>
        \A t \in promised' : \E j \in Pos' : j < i /\ H'[j] = t
  <2> TAKE i \in Pos'
  <2> HAVE H'[i] = Stop
  <2> TAKE t \in promised'
  <2>1. i = k
    BY <1>1, <1>4
  <2>2. PICK j \in Pos : H[j] = t
    BY <1>3 DEF HistoryInv
  <2> QED
    BY <2>1, <2>2, <1>1, <1>2
<1>6. \A i \in Pos' : H'[i] # Stop => H'[i].n <= posted'[H'[i].from]
  BY <1>1, <1>3 DEF HistoryInv
<1>7. \A i, j \in Pos' :
        i < j /\ H'[i] # Stop /\ H'[j] # Stop /\ H'[i].from = H'[j].from
          => H'[i].n < H'[j].n
  BY <1>1 DEF HistoryInv
<1>8. \A t \in Task : t.n <= posted'[t.from] => \E i \in Pos' : H'[i] = t
  BY <1>1, <1>3 DEF HistoryInv
<1> QED
  BY <1>3, <1>5, <1>6, <1>7, <1>8 DEF HistoryInv

(* Every step keeps the history in order. *)
LEMMA NextHistory ==
  TypeOK /\ LoopInv /\ HistoryInv /\ [Next]_vars => HistoryInv'
<1> SUFFICES ASSUME TypeOK, LoopInv, HistoryInv, [Next]_vars
             PROVE  HistoryInv'
  OBVIOUS
<1>1. ASSUME H' = H, UNCHANGED <<posted, promised>>,
             owner' \in {"new", "starting", "started"} =>
               owner \in {"new", "starting", "started"}
      PROVE  HistoryInv'
  BY <1>1 DEF HistoryInv, Pos
<1>2. ASSUME UNCHANGED <<async_cbk, batch, ran>> PROVE H' = H
  BY <1>2 DEF H, History
<1>3. CASE StartBegin \/ StartEnd \/ StopEnd
  BY <1>1, <1>2, <1>3 DEF StartBegin, StartEnd, StopEnd, loopVars
<1>4. ASSUME NEW t \in Thread, UvAsyncSend(t) PROVE HistoryInv'
  BY <1>1, <1>2, <1>4 DEF UvAsyncSend, loopVars
<1>5. CASE LoopInit \/ WakeUp \/ BatchEnd \/ LoopExit
  BY <1>1, <1>2, <1>5 DEF LoopInit, WakeUp, BatchEnd, LoopExit, ownerVars
<1>6. CASE Drain
  <2>1. H' = H
    BY <1>6, DrainKeepsQueue DEF LoopInv, Drain, H, History
  <2> QED
    BY <1>1, <1>6, <2>1 DEF Drain, ownerVars
<1>7. CASE RunOne
  BY <1>1, <1>7, RunOneTakesHead DEF RunOne, ownerVars, H
<1>8. CASE UNCHANGED vars
  BY <1>1, <1>2, <1>8 DEF vars
<1> QED
  BY <1>3, <1>4, <1>5, <1>6, <1>7, <1>8, MoveToThreadHistory,
     StopBeginHistory DEF Next, LoopStep

(* Whatever the interleaving, one poster's functions start in the order    *)
(* of its moveToThread calls, none twice.                                  *)
THEOREM KeepsPosterOrder == Spec => []PosterOrder
<1>1. TypeOK /\ HistoryInv => PosterOrder
  <2> SUFFICES ASSUME TypeOK, HistoryInv PROVE PosterOrder
    OBVIOUS
  <2>1. \A i \in 1..Len(ran) : i \in Pos /\ H[i] = ran[i]
    BY HistoryType DEF H, Pos
  <2> QED
    BY <2>1 DEF HistoryInv, PosterOrder
<1> QED
  BY <1>1, InitType, NextType, InitLoop, NextLoop, InitHistory, NextHistory,
     PTL DEF Spec

(* A loop that ended ran everything handed over before stop().             *)
THEOREM StopLosesNothingEarlier == Spec => []StopWaitsForEarlier
<1>1. TypeOK /\ LoopInv /\ HistoryInv => StopWaitsForEarlier
  <2> SUFFICES ASSUME TypeOK, LoopInv, HistoryInv, loop = "done",
                      NEW t \in promised
               PROVE  t \in SeqRange(ran)
    BY DEF StopWaitsForEarlier
  <2>1. /\ Len(ran) \in Nat
        /\ \A i \in 1..Len(ran) : i \in Pos /\ H[i] = ran[i]
    BY HistoryType DEF H, Pos
  <2>2. PICK i \in 1..Len(ran) : ran[i] = Stop
    BY DEF LoopInv
  <2>3. PICK j \in Pos : j < i /\ H[j] = t
    BY <2>1, <2>2 DEF HistoryInv
  <2>4. j \in 1..Len(ran) /\ ran[j] = t
    BY <2>1, <2>2, <2>3 DEF Pos
  <2> QED
    BY <2>4 DEF SeqRange
<1> QED
  BY <1>1, InitType, NextType, InitLoop, NextLoop, InitHistory, NextHistory,
     PTL DEF Spec
=============================================================================
