-------------------------- MODULE HttpClientProofs --------------------------
(***************************************************************************)
(* What holds of any finite number of HTTP clients whose constructors and  *)
(* destructors do not overlap, for any number of requests.                 *)
(***************************************************************************)
EXTENDS PoliteHttpClient, FiniteSetTheorems, TLAPS

(* Requests and their numbers. *)
LEMMA Ids ==
  /\ MaxRequests \in Nat /\ Id \subseteq 0..MaxRequests
  /\ \A i \in Id : i \in Nat /\ i # 0
  /\ \A c \in Client : <<c, 0>> \in Request /\ \A i \in Id : <<c, i>> \in Request
  /\ \A r \in Request : \E c \in Client, i \in 0..MaxRequests : r = <<c, i>>
  /\ \A i \in 0..MaxRequests : i # 0 => i \in Id
  /\ OneAtATime
BY ClientAssumption, PoliteAssumption DEF Id, Request

(* The invariant holds at first. *)
LEMMA InitTypeCount == Init => PoliteInv
<1> SUFFICES ASSUME Init PROVE PoliteInv
  OBVIOUS
<1>1. TypeOK
  <2>1. 0 \in 0..MaxRequests
    BY Ids
  <2>2. << >> \in Seq(Id)
    OBVIOUS
  <2> QED
    BY <2>1, <2>2 DEF Init, TypeOK, Phase, Stage
<1>2. CountInv
  <2>1. Counted = {}
    BY DEF Init, Counted
  <2> QED
    BY <2>1, FS_EmptySet DEF Init, CountInv
<1>3. RequestInv
  <2> SUFFICES ASSUME NEW c \in Client
               PROVE  /\ stage[<<c, 0>>] = "none"
                      /\ \A i \in Id : stage[<<c, i>>] = "none" /\ i > made[c]
                      /\ ready = {}
                      /\ 1..Len(todo[c]) = {}
    <3>1. \A k : k \notin {}
      OBVIOUS
    <3> QED
      BY <3>1 DEF RequestInv, StageInv, QueueInv
  <2>1. \A i \in Id : i > 0
    BY Ids
  <2>2. todo[c] = << >>
    BY DEF Init
  <2>3. Len(todo[c]) = 0
    BY <2>2
  <2>4. 1..Len(todo[c]) = {}
    BY <2>3
  <2> QED
    BY <2>1, <2>4, Ids DEF Init
<1>4. OwnerInv /\ FutureMeansOver /\ WaitersSafe
  BY ClientAssumption, Ids DEF Init, OwnerInv, FutureMeansOver, WaitersSafe
<1> QED
  BY <1>1, <1>2, <1>3, <1>4 DEF PoliteInv

-----------------------------------------------------------------------------
(* The clients that are counted. *)

(* Finitely many clients count. *)
LEMMA CountedFinite == IsFiniteSet(Counted)
BY PoliteAssumption, FS_Subset DEF Counted

(* The count is 0 only without clients. *)
LEMMA ZeroMeansNone ==
  ASSUME CountInv
  PROVE  g_client_cnt \in Nat /\ (g_client_cnt = 0 <=> Counted = {})
BY CountedFinite, FS_CardinalityType, FS_EmptySet DEF CountInv

(* A constructor counts its client. *)
LEMMA AddsOne ==
  ASSUME CountInv, NEW c \in Client, c \notin Counted
  PROVE  Cardinality(Counted \cup {c}) = g_client_cnt + 1
BY CountedFinite, FS_AddElement DEF CountInv

(* A destructor discounts it. *)
LEMMA TakesOne ==
  ASSUME CountInv, NEW c \in Counted
  PROVE  /\ Cardinality(Counted \ {c}) = g_client_cnt - 1
         /\ g_client_cnt - 1 \in Nat
         /\ g_client_cnt - 1 = 0 => Counted \ {c} = {}
<1>1. IsFiniteSet(Counted \ {c}) /\ Cardinality(Counted \ {c}) = Cardinality(Counted) - 1
  BY CountedFinite, FS_RemoveElement
<1> QED
  BY <1>1, FS_CardinalityType, FS_EmptySet DEF CountInv

(* Constructors and destructors, one at a time. *)
LEMMA ConstructCount ==
  ASSUME TypeOK, CountInv, NEW c \in Client, Construct(c)
  PROVE  CountInv'
<1>1. \A d \in Client : phase[d] \notin {"InitOnce", "CleanupOnce"}
  BY Ids DEF Construct, SetupFree
<1>2. c \notin Counted /\ phase[c] = "none"
  BY DEF Construct, Counted
<1>3. PICK p \in {"InitOnce", "alive"} :
        /\ phase' = [phase EXCEPT ![c] = p]
        /\ p = "InitOnce" <=> g_client_cnt = 0
  BY DEF Construct, Goes
<1>4. g_client_cnt' = g_client_cnt + 1 /\ initialized' = initialized
  BY DEF Construct
<1>5. \A d \in Client : phase'[d] = IF d = c THEN p ELSE phase[d]
  BY <1>3 DEF TypeOK
<1>6. Counted' = Counted \cup {c}
  BY <1>5 DEF Counted
<1>7. g_client_cnt' = Cardinality(Counted')
  BY <1>2, <1>4, <1>6, AddsOne
<1>8. p = "InitOnce" => Counted' = {c}
  BY <1>3, <1>6, ZeroMeansNone
<1>9. p = "alive" => initialized > 0
  <2> SUFFICES ASSUME p = "alive" PROVE initialized > 0
    OBVIOUS
  <2>1. PICK d \in Client : d \in Counted
    BY <1>3, ZeroMeansNone DEF Counted
  <2> QED
    BY <1>1, <2>1 DEF Counted, CountInv
<1> QED
  BY <1>1, <1>4, <1>5, <1>7, <1>8, <1>9 DEF CountInv

(* After InitOnce the client is alive and libcurl initialised. *)
LEMMA InitOnceCount ==
  ASSUME TypeOK, CountInv, NEW c \in Client, InitOnce(c)
  PROVE  CountInv'
<1>1. \A d \in Client : phase'[d] = IF d = c THEN "alive" ELSE phase[d]
  BY DEF InitOnce, Goes, TypeOK
<1>2. phase[c] = "InitOnce" /\ g_client_cnt' = g_client_cnt /\ initialized' = initialized + 1
      /\ initialized \in Nat
  BY DEF InitOnce, curl_global_init, TypeOK
<1>3. Counted' = Counted
  BY <1>1, <1>2 DEF Counted
<1>4. initialized' > 0
  BY <1>2
<1> QED
  BY <1>1, <1>2, <1>3, <1>4 DEF CountInv

(* A destructor that begins takes its client out of the count. *)
LEMMA DestroyCount ==
  ASSUME TypeOK, CountInv, NEW c \in Client, Destroy(c)
  PROVE  CountInv' /\ g_client_cnt' \in Nat
<1>1. \A d \in Client : phase[d] \notin {"InitOnce", "CleanupOnce"}
  BY Ids DEF Destroy, SetupFree
<1>2. c \in Counted /\ phase[c] = "alive"
  BY DEF Destroy, Idle, Counted
<1>3. PICK p \in {"CleanupOnce", "members"} :
        /\ phase' = [phase EXCEPT ![c] = p]
        /\ p = "CleanupOnce" <=> g_client_cnt' = 0
  BY DEF Destroy, Goes
<1>4. g_client_cnt' = g_client_cnt - 1 /\ initialized' = initialized
  BY DEF Destroy
<1>5. \A d \in Client : phase'[d] = IF d = c THEN p ELSE phase[d]
  BY <1>3 DEF TypeOK
<1>6. Counted' = Counted \ {c}
  BY <1>5 DEF Counted
<1>7. g_client_cnt' = Cardinality(Counted') /\ g_client_cnt' \in Nat
  BY <1>2, <1>4, <1>6, TakesOne
<1>8. p = "CleanupOnce" => Counted' = {}
  BY <1>2, <1>3, <1>4, <1>6, TakesOne
<1>9. initialized > 0
  BY <1>2 DEF CountInv
<1> QED
  BY <1>1, <1>4, <1>5, <1>7, <1>8, <1>9 DEF CountInv

(* The last client's cleanup leaves no client counted. *)
LEMMA CleanupOnceCount ==
  ASSUME TypeOK, CountInv, NEW c \in Client, CleanupOnce(c)
  PROVE  CountInv'
<1>1. \A d \in Client : phase'[d] = IF d = c THEN "members" ELSE phase[d]
  BY DEF CleanupOnce, Goes, TypeOK
<1>2. phase[c] = "CleanupOnce" /\ g_client_cnt' = g_client_cnt
  BY DEF CleanupOnce
<1>3. Counted' = Counted /\ Counted = {}
  BY <1>1, <1>2 DEF Counted, CountInv
<1>4. \A d \in Client : phase'[d] \notin {"InitOnce", "alive", "CleanupOnce"}
  BY <1>1, <1>2, <1>3 DEF Counted, CountInv
<1> QED
  BY <1>2, <1>3, <1>4 DEF CountInv

(* The rest of a destructor and the requests. *)
LEMMA OtherCount ==
  ASSUME TypeOK, CountInv,
         \/ \E c \in Client : DestroyMembers(c) \/ DestroyPool(c)
         \/ \E c \in Client : Get(c) \/ GetSync(c) \/ RunTask(c)
         \/ \E r \in Request : RequestStep(r)
         \/ UNCHANGED vars
  PROVE  CountInv'
<1>1. \A d \in Client :
        phase'[d] = phase[d] \/ {phase[d], phase'[d]} \subseteq {"members", "pool", "gone"}
  BY DEF DestroyMembers, DestroyPool, Goes, Get, GetSync, RunTask, RequestStep, Prepare,
         Perform, Return, clientVars, vars, TypeOK
<1>2. g_client_cnt' = g_client_cnt
  BY DEF DestroyMembers, DestroyPool, Get, GetSync, RunTask, RequestStep, Prepare,
         Perform, Return, clientVars, vars
<1>3. initialized > 0 => initialized' > 0
  <2>1. \/ initialized' = initialized
        \/ initialized = 0
    BY DEF DestroyMembers, DestroyPool, Get, GetSync, RunTask, RequestStep, Prepare,
           Perform, Return, vars, curl_easy_init
  <2> QED
    BY <2>1
<1>4. Counted' = Counted
  BY <1>1 DEF Counted
<1> QED
  BY <1>1, <1>2, <1>3, <1>4 DEF CountInv
-----------------------------------------------------------------------------
(* Types. *)

(* Every step keeps the types. *)
LEMMA TypeStep ==
  ASSUME TypeOK, CountInv, RequestInv, [Next]_vars
  PROVE  TypeOK'
<1> USE DEF TypeOK
<1>1. ASSUME NEW c \in Client, NEW p \in Phase, Goes(c, p) PROVE phase' \in [Client -> Phase]
  BY <1>1 DEF Goes
<1>2. {"InitOnce", "alive", "CleanupOnce", "members", "pool", "gone"} \subseteq Phase
      /\ Stage = {"none", "queued", "settings", "perform", "cbk", "done"}
  BY DEF Phase, Stage
<1>3. ASSUME NEW c \in Client, Construct(c) PROVE TypeOK'
  BY <1>1, <1>2, <1>3 DEF Construct, requestVars
<1>4. ASSUME NEW c \in Client, InitOnce(c) PROVE TypeOK'
  BY <1>1, <1>2, <1>4 DEF InitOnce, requestVars, curl_global_init
<1>5. ASSUME NEW c \in Client, Destroy(c) PROVE TypeOK'
  <2>1. g_client_cnt' \in Nat
    BY <1>5, DestroyCount
  <2>2. phase' \in [Client -> Phase]
    BY <1>1, <1>2, <1>5 DEF Destroy
  <2> QED
    BY <1>5, <2>1, <2>2 DEF Destroy, requestVars
<1>6. ASSUME NEW c \in Client, CleanupOnce(c) PROVE TypeOK'
  <2>1. initialized' \in Nat
    BY <1>6 DEF CleanupOnce, curl_global_cleanup
  <2> QED
    BY <1>1, <1>2, <1>6, <2>1 DEF CleanupOnce, requestVars
<1>7. ASSUME NEW c \in Client, DestroyMembers(c) \/ DestroyPool(c) PROVE TypeOK'
  BY <1>1, <1>2, <1>7 DEF DestroyMembers, DestroyPool, requestVars
<1>8. ASSUME NEW c \in Client, Get(c) PROVE TypeOK'
  <2>1. made[c] + 1 \in 0..MaxRequests /\ made[c] + 1 \in Id
    BY <1>8, Ids DEF Get
  <2>2. made' = [made EXCEPT ![c] = @ + 1] /\ made'[c] = made[c] + 1
    BY <1>8 DEF Get
  <2>3. todo' = [todo EXCEPT ![c] = Append(@, made[c] + 1)]
    BY <1>8, <2>2 DEF Get
  <2>4. made' \in [Client -> 0..MaxRequests]
    BY <2>1, <2>2
  <2>5. Append(todo[c], made[c] + 1) \in Seq(Id)
    BY <2>1
  <2>6. todo' \in [Client -> Seq(Id)]
    BY <2>3, <2>5
  <2>7. stage' \in [Request -> Stage]
    BY <1>2, <1>8 DEF Get
  <2> QED
    BY <1>8, <2>4, <2>6, <2>7 DEF Get, clientVars
<1>9. ASSUME NEW c \in Client, GetSync(c) PROVE TypeOK'
  BY <1>2, <1>9 DEF GetSync, clientVars
<1>10. ASSUME NEW c \in Client, RunTask(c) PROVE TypeOK'
  <2>1. Tail(todo[c]) \in Seq(Id)
    BY <1>10 DEF RunTask
  <2>2. todo' \in [Client -> Seq(Id)]
    BY <1>10, <2>1 DEF RunTask
  <2>3. stage' \in [Request -> Stage]
    BY <1>2, <1>10 DEF RunTask
  <2> QED
    BY <1>10, <2>2, <2>3 DEF RunTask, clientVars
<1>11. ASSUME NEW r \in Request, RequestStep(r) PROVE TypeOK'
  <2>1. CASE Prepare(r)
    BY <1>2, <2>1 DEF Prepare, curl_easy_init, clientVars
  <2>2. CASE Perform(r)
    BY <1>2, <2>2 DEF Perform, clientVars
  <2>3. CASE Return(r)
    BY <1>2, <2>3 DEF Return, clientVars
  <2> QED
    BY <1>11, <2>1, <2>2, <2>3 DEF RequestStep
<1>12. CASE UNCHANGED vars
  BY <1>12 DEF vars
<1> QED
  BY <1>3, <1>4, <1>5, <1>6, <1>7, <1>8, <1>9, <1>10, <1>11, <1>12 DEF Next, OwnerStep
-----------------------------------------------------------------------------
(* Requests. *)

(* A client's request and one of another client or another number differ. *)
LEMMA StageOf ==
  ASSUME TypeOK, NEW r \in Request, NEW p, stage' = [stage EXCEPT ![r] = p]
  PROVE  \A s \in Request : stage'[s] = IF s = r THEN p ELSE stage[s]
BY DEF TypeOK

(* What the queue holds. *)
LEMMA InOrder ==
  ASSUME RequestInv, NEW c \in Client, NEW k \in 1..Len(todo[c])
  PROVE  /\ stage[<<c, todo[c][k]>>] = "queued"
         /\ \A l \in 1..Len(todo[c]) : k < l => todo[c][k] < todo[c][l]
BY DEF RequestInv, QueueInv

(* A number of the queue is one of the pool's requests. *)
LEMMA Queued ==
  ASSUME TypeOK, NEW c \in Client, NEW k \in 1..Len(todo[c])
  PROVE  todo[c][k] \in Id /\ <<c, todo[c][k]>> \in Request
<1>1. todo[c] \in Seq(Id)
  BY DEF TypeOK
<1>2. todo[c][k] \in Id
  BY <1>1
<1> QED
  BY <1>2, Ids

(* Handing a request to the pool. *)
LEMMA GetRequests ==
  ASSUME TypeOK, RequestInv, NEW c \in Client, Get(c)
  PROVE  RequestInv' /\ Running(c)' = Running(c)
<1>1. PICK n \in Id : n = made[c] + 1
  BY Ids DEF Get, TypeOK
<1>2. /\ made' = [made EXCEPT ![c] = n]
      /\ stage' = [stage EXCEPT ![<<c, n>>] = "queued"]
      /\ todo' = [todo EXCEPT ![c] = Append(@, n)]
      /\ ready' = ready
  BY <1>1 DEF Get, TypeOK
<1>3. /\ n \in Nat /\ made[c] \in Nat /\ n > made[c]
      /\ \A i \in Id : i > n <=> i > made[c] /\ i # n
  BY <1>1, Ids DEF TypeOK
<1>4. \A r \in Request : stage'[r] = IF r = <<c, n>> THEN "queued" ELSE stage[r]
  BY <1>2, Ids, StageOf
<1>5. \A d \in Client : /\ made'[d] = IF d = c THEN n ELSE made[d]
                        /\ todo'[d] = IF d = c THEN Append(todo[c], n) ELSE todo[d]
  BY <1>2 DEF TypeOK
<1>6. stage[<<c, n>>] = "none"
  BY <1>3 DEF RequestInv, StageInv, QueueInv
<1>7. \A d \in Client, i \in Id :
        /\ stage'[<<d, i>>] = "none" <=> i > made'[d]
        /\ <<d, i>> \in ready' <=> stage'[<<d, i>>] = "done"
  <2> TAKE d \in Client, i \in Id
  <2>1. /\ stage[<<d, i>>] = "none" <=> i > made[d]
        /\ <<d, i>> \in ready <=> stage[<<d, i>>] = "done"
    BY DEF RequestInv, StageInv, QueueInv
  <2>2. <<d, i>> \in Request /\ <<c, n>> \in Request
    BY Ids
  <2>3. CASE d = c /\ i = n
    <3>1. stage'[<<d, i>>] = "queued" /\ <<d, i>> \notin ready'
      BY <1>2, <1>4, <1>6, <2>1, <2>2, <2>3
    <3>2. ~(n > n)
      BY <1>3
    <3> QED
      BY <1>5, <2>3, <3>1, <3>2
  <2>4. CASE ~(d = c /\ i = n)
    <3>1. stage'[<<d, i>>] = stage[<<d, i>>]
      BY <1>4, <2>2, <2>4
    <3>2. i > made'[d] <=> i > made[d]
      BY <1>3, <1>5, <2>4
    <3> QED
      BY <1>2, <2>1, <3>1, <3>2
  <2> QED
    BY <2>3, <2>4
<1>8. \A d \in Client : stage'[<<d, 0>>] \in {"none", "settings", "perform"}
  BY <1>4, Ids DEF RequestInv, StageInv, QueueInv
<1>9. ASSUME NEW k \in 1..Len(todo[c])
      PROVE  todo[c][k] < n /\ stage[<<c, todo[c][k]>>] = "queued"
  <2>1. todo[c][k] \in Id /\ stage[<<c, todo[c][k]>>] = "queued"
    BY <1>9, Queued DEF RequestInv, StageInv, QueueInv
  <2>2. ~(todo[c][k] > made[c])
    BY <2>1 DEF RequestInv, StageInv, QueueInv
  <2>3. ASSUME NEW i \in Nat, NEW j \in Nat, NEW m \in Nat, m > j, ~(i > j) PROVE i < m
    BY <2>3
  <2> QED
    BY <1>3, <2>1, <2>2, <2>3, Ids
<1>10. /\ \A k \in 1..Len(todo'[c]) : stage'[<<c, todo'[c][k]>>] = "queued"
       /\ \A k, l \in 1..Len(todo'[c]) : k < l => todo'[c][k] < todo'[c][l]
  <2>1. todo[c] \in Seq(Id) /\ todo'[c] = Append(todo[c], n)
    BY <1>5 DEF TypeOK
  <2>2. /\ Len(todo'[c]) = Len(todo[c]) + 1 /\ Len(todo[c]) \in Nat
        /\ \A k \in 1..Len(todo[c]) : todo'[c][k] = todo[c][k]
        /\ todo'[c][Len(todo[c]) + 1] = n
    BY <2>1
  <2>3. \A k \in 1..Len(todo'[c]) : k \in 1..Len(todo[c]) \/ k = Len(todo[c]) + 1
    BY <2>2
  <2>4. \A k \in 1..Len(todo[c]) : k < Len(todo[c]) + 1
    BY <2>2
  <2>5. ASSUME NEW k \in 1..Len(todo'[c]) PROVE stage'[<<c, todo'[c][k]>>] = "queued"
    <3>1. CASE k = Len(todo[c]) + 1
      BY <1>4, <2>2, <3>1, Ids
    <3>2. CASE k \in 1..Len(todo[c])
      BY <1>4, <1>9, <2>2, <3>2, Queued
    <3> QED
      BY <2>3, <3>1, <3>2
  <2>6. ASSUME NEW k \in 1..Len(todo'[c]), NEW l \in 1..Len(todo'[c]), k < l
        PROVE  todo'[c][k] < todo'[c][l]
    <3>1. k \in 1..Len(todo[c])
      BY <2>2, <2>6
    <3>2. CASE l = Len(todo[c]) + 1
      BY <1>9, <2>2, <3>1, <3>2
    <3>3. CASE l \in 1..Len(todo[c])
      <4>1. todo[c][k] < todo[c][l]
        BY <2>6, <3>1, <3>3 DEF RequestInv, StageInv, QueueInv
      <4> QED
        BY <2>2, <3>1, <3>3, <4>1
    <3> QED
      BY <2>3, <3>2, <3>3
  <2> QED
    BY <2>5, <2>6
<1>11. ASSUME NEW d \in Client, d # c
       PROVE  /\ \A k \in 1..Len(todo'[d]) : stage'[<<d, todo'[d][k]>>] = "queued"
              /\ \A k, l \in 1..Len(todo'[d]) : k < l => todo'[d][k] < todo'[d][l]
  <2>1. todo'[d] = todo[d]
    BY <1>5, <1>11
  <2>2. \A k \in 1..Len(todo[d]) : stage'[<<d, todo[d][k]>>] = stage[<<d, todo[d][k]>>]
    BY <1>4, <1>11, Queued
  <2>3. ASSUME NEW k \in 1..Len(todo[d]) PROVE stage'[<<d, todo'[d][k]>>] = "queued"
    <3>1. stage[<<d, todo[d][k]>>] = "queued"
      BY DEF RequestInv, StageInv, QueueInv
    <3> QED
      BY <2>1, <2>2, <3>1
  <2>4. \A k, l \in 1..Len(todo[d]) : k < l => todo[d][k] < todo[d][l]
    BY DEF RequestInv, StageInv, QueueInv
  <2> QED
    BY <2>1, <2>3, <2>4
<1>12. RequestInv'
  BY <1>7, <1>8, <1>10, <1>11 DEF RequestInv, StageInv, QueueInv
<1>13. Running(c)' = Running(c)
  BY <1>4, <1>6, Ids DEF Running, InProgress
<1> QED
  BY <1>12, <1>13
(* A request that is neither queued nor over goes on, or its owner begins  *)
(* one itself.                                                             *)
LEMMA MoveRequests ==
  ASSUME TypeOK, RequestInv, NEW c \in Client, NEW i \in 0..MaxRequests, NEW p,
         stage' = [stage EXCEPT ![<<c, i>>] = p], UNCHANGED <<made, todo>>,
         i = 0 => p \in {"none", "settings", "perform"} /\ ready' = ready,
         i # 0 => /\ stage[<<c, i>>] \in {"settings", "perform", "cbk"}
                  /\ \/ p \in {"perform", "cbk"} /\ ready' = ready
                     \/ p = "done" /\ ready' = ready \cup {<<c, i>>}
  PROVE  RequestInv'
<1>1. <<c, i>> \in Request
  BY Ids DEF Request
<1>2. \A r \in Request : stage'[r] = IF r = <<c, i>> THEN p ELSE stage[r]
  BY <1>1, StageOf
<1>3. ASSUME NEW d \in Client PROVE stage'[<<d, 0>>] \in {"none", "settings", "perform"}
  <2>1. stage[<<d, 0>>] \in {"none", "settings", "perform"} /\ <<d, 0>> \in Request
    BY Ids DEF RequestInv, StageInv
  <2>2. CASE d = c /\ i = 0
    BY <1>1, <1>2, <2>2
  <2>3. CASE ~(d = c /\ i = 0)
    BY <1>2, <2>1, <2>3
  <2> QED
    BY <2>2, <2>3
<1>4. ASSUME NEW d \in Client, NEW j \in Id
      PROVE  /\ stage'[<<d, j>>] = "none" <=> j > made'[d]
             /\ <<d, j>> \in ready' <=> stage'[<<d, j>>] = "done"
  <2>1. /\ stage[<<d, j>>] = "none" <=> j > made[d]
        /\ <<d, j>> \in ready <=> stage[<<d, j>>] = "done"
    BY DEF RequestInv, StageInv, QueueInv
  <2>2. <<d, j>> \in Request /\ j # 0
    BY Ids
  <2>3. CASE d = c /\ i = j
    BY <1>2, <2>1, <2>2, <2>3
  <2>4. CASE ~(d = c /\ i = j)
    <3>1. stage'[<<d, j>>] = stage[<<d, j>>]
      BY <1>2, <2>2, <2>4
    <3>2. <<d, j>> \in ready' <=> <<d, j>> \in ready
      BY <2>4
    <3> QED
      BY <2>1, <3>1, <3>2
  <2> QED
    BY <2>3, <2>4
<1>5. ASSUME NEW d \in Client, NEW k \in 1..Len(todo[d])
      PROVE  stage'[<<d, todo[d][k]>>] = "queued"
  <2>1. todo[d][k] \in Id /\ stage[<<d, todo[d][k]>>] = "queued"
    BY Queued, InOrder
  <2>2. <<d, todo[d][k]>> # <<c, i>>
    BY <2>1, Ids
  <2> QED
    BY <1>2, <2>1, <2>2, Queued
<1>6. StageInv'
  BY <1>3, <1>4 DEF StageInv
<1>7. QueueInv'
  BY <1>5, InOrder DEF QueueInv
<1> QED
  BY <1>6, <1>7 DEF RequestInv

(* A thread of the pool takes the oldest request. *)
LEMMA RunTaskRequests ==
  ASSUME TypeOK, RequestInv, NEW c \in Client, RunTask(c)
  PROVE  /\ RequestInv'
         /\ Head(todo[c]) \in Id /\ stage[<<c, Head(todo[c])>>] = "queued"
         /\ Running(c)' = Running(c) \cup {Head(todo[c])}
<1>1. todo[c] \in Seq(Id) /\ todo[c] # << >>
  BY DEF RunTask, TypeOK
<1>2. PICK h \in Id : h = Head(todo[c]) /\ h = todo[c][1]
  BY <1>1
<1>3. /\ Len(todo[c]) \in Nat /\ 1 \in 1..Len(todo[c])
      /\ Len(Tail(todo[c])) = Len(todo[c]) - 1
      /\ \A k \in 1..Len(Tail(todo[c])) : /\ Tail(todo[c])[k] = todo[c][k + 1]
                                         /\ k + 1 \in 1..Len(todo[c])
                                         /\ 1 < k + 1
  BY <1>1
<1>4. /\ stage' = [stage EXCEPT ![<<c, h>>] = "settings"]
      /\ todo' = [todo EXCEPT ![c] = Tail(@)]
      /\ made' = made /\ ready' = ready
  BY <1>2 DEF RunTask
<1>5. stage[<<c, h>>] = "queued" /\ <<c, h>> \in Request /\ h # 0
  BY <1>2, <1>3, Ids, InOrder
<1>6. \A r \in Request : stage'[r] = IF r = <<c, h>> THEN "settings" ELSE stage[r]
  BY <1>4, <1>5, StageOf
<1>7. \A d \in Client : todo'[d] = IF d = c THEN Tail(todo[c]) ELSE todo[d]
  BY <1>4 DEF TypeOK
<1>8. \A d \in Client : stage'[<<d, 0>>] \in {"none", "settings", "perform"}
  BY <1>5, <1>6, Ids DEF RequestInv, StageInv, QueueInv
<1>9. ASSUME NEW d \in Client, NEW j \in Id
      PROVE  /\ stage'[<<d, j>>] = "none" <=> j > made'[d]
             /\ <<d, j>> \in ready' <=> stage'[<<d, j>>] = "done"
  <2>1. /\ stage[<<d, j>>] = "none" <=> j > made[d]
        /\ <<d, j>> \in ready <=> stage[<<d, j>>] = "done"
    BY DEF RequestInv, StageInv, QueueInv
  <2> QED
    BY <1>4, <1>5, <1>6, <2>1, Ids
<1>10. ASSUME NEW k \in 1..Len(Tail(todo[c]))
       PROVE  /\ stage'[<<c, Tail(todo[c])[k]>>] = "queued"
              /\ \A l \in 1..Len(Tail(todo[c])) : k < l => Tail(todo[c])[k] < Tail(todo[c])[l]
  <2>1. h < todo[c][k + 1] /\ stage[<<c, todo[c][k + 1]>>] = "queued"
    BY <1>2, <1>3, InOrder
  <2>2. todo[c][k + 1] \in Id /\ <<c, todo[c][k + 1]>> \in Request
    BY <1>3, Queued
  <2>3. h # todo[c][k + 1]
    BY <2>1, <2>2, Ids
  <2>4. stage'[<<c, Tail(todo[c])[k]>>] = "queued"
    BY <1>3, <1>6, <2>1, <2>2, <2>3
  <2>5. ASSUME NEW l \in 1..Len(Tail(todo[c])), k < l
        PROVE  Tail(todo[c])[k] < Tail(todo[c])[l]
    <3>1. k + 1 < l + 1
      BY <2>5
    <3> QED
      BY <1>3, <3>1, InOrder
  <2> QED
    BY <2>4, <2>5
<1>11. ASSUME NEW d \in Client, d # c, NEW k \in 1..Len(todo[d])
       PROVE  /\ stage'[<<d, todo[d][k]>>] = "queued"
              /\ \A l \in 1..Len(todo[d]) : k < l => todo[d][k] < todo[d][l]
  <2>1. stage'[<<d, todo[d][k]>>] = stage[<<d, todo[d][k]>>]
    BY <1>6, <1>11, Queued
  <2> QED
    BY <2>1, InOrder
<1>12. RequestInv'
  <2>1. StageInv'
    BY <1>8, <1>9 DEF StageInv
  <2>2. QueueInv'
    <3> SUFFICES ASSUME NEW d \in Client, NEW k \in 1..Len(todo'[d])
                 PROVE  /\ stage'[<<d, todo'[d][k]>>] = "queued"
                        /\ \A l \in 1..Len(todo'[d]) : k < l => todo'[d][k] < todo'[d][l]
      BY DEF QueueInv
    <3>1. CASE d = c
      <4>1. todo'[d] = Tail(todo[c])
        BY <1>7, <3>1
      <4> QED
        BY <1>10, <3>1, <4>1
    <3>2. CASE d # c
      <4>1. todo'[d] = todo[d]
        BY <1>7, <3>2
      <4> QED
        BY <1>11, <3>2, <4>1
    <3> QED
      BY <3>1, <3>2
  <2> QED
    BY <2>1, <2>2 DEF RequestInv
<1>13. Running(c)' = Running(c) \cup {h}
  BY <1>5, <1>6, Ids DEF Running, InProgress
<1> QED
  BY <1>2, <1>5, <1>12, <1>13

(* Every step keeps the requests in order. *)
LEMMA RequestsStep ==
  ASSUME TypeOK, RequestInv, [Next]_vars
  PROVE  RequestInv'
<1>1. ASSUME UNCHANGED requestVars PROVE RequestInv'
  <2>1. made' = made /\ todo' = todo /\ stage' = stage /\ ready' = ready
    BY <1>1 DEF requestVars
  <2>2. StageInv'
    BY <2>1 DEF RequestInv, StageInv
  <2>3. QueueInv'
    BY <2>1, InOrder DEF QueueInv
  <2> QED
    BY <2>2, <2>3 DEF RequestInv
<1>2. ASSUME NEW c \in Client, GetSync(c) PROVE RequestInv'
  BY <1>2, MoveRequests, Ids DEF GetSync
<1>3. ASSUME NEW r \in Request, Prepare(r) \/ Perform(r) \/ Return(r) PROVE RequestInv'
  <2>1. PICK c \in Client, i \in 0..MaxRequests : r = <<c, i>>
    BY Ids
  <2>2. r[2] = i
    BY <2>1
  <2>3. i = 0 => stage[r] # "cbk"
    BY <2>1 DEF RequestInv, StageInv, QueueInv
  <2>4. CASE Prepare(r)
    BY <2>1, <2>4, MoveRequests DEF Prepare
  <2>5. CASE Perform(r)
    BY <2>1, <2>2, <2>5, MoveRequests DEF Perform
  <2>6. CASE Return(r)
    BY <2>1, <2>3, <2>6, MoveRequests DEF Return
  <2> QED
    BY <1>3, <2>4, <2>5, <2>6
<1>4. CASE UNCHANGED vars
  <2>1. UNCHANGED requestVars
    BY <1>4 DEF vars, requestVars
  <2> QED
    BY <1>1, <2>1
<1> QED
  BY <1>1, <1>2, <1>3, <1>4, GetRequests, RunTaskRequests
     DEF Next, OwnerStep, RequestStep, Construct, InitOnce, Destroy, CleanupOnce,
         DestroyMembers, DestroyPool
-----------------------------------------------------------------------------
(* What runs in a pool. *)

(* Requests of one client and their steps change nothing for the others.   *)
LEMMA StepOf ==
  ASSUME TypeOK, RequestInv, NEW r \in Request, RequestStep(r)
  PROVE  \E c \in Client, i \in 0..MaxRequests :
           /\ r = <<c, i>>
           /\ i # 0 => i \in Running(c)
           /\ \A d \in Client, j \in Id :
                <<d, j>> # r => stage'[<<d, j>>] = stage[<<d, j>>]
           /\ UNCHANGED <<phase, made, todo>>
<1>1. PICK c \in Client, i \in 0..MaxRequests : r = <<c, i>>
  BY Ids
<1>2. stage[r] \in {"settings", "perform", "cbk"}
  BY DEF RequestStep, Prepare, Perform, Return
<1>3. i # 0 => i \in Running(c)
  BY <1>1, <1>2, Ids DEF Running, InProgress
<1>4. PICK p : stage' = [stage EXCEPT ![r] = p]
  BY DEF RequestStep, Prepare, Perform, Return
<1>5. \A d \in Client, j \in Id : <<d, j>> # r => stage'[<<d, j>>] = stage[<<d, j>>]
  BY <1>4, Ids, StageOf
<1>6. UNCHANGED <<phase, made, todo>>
  BY DEF RequestStep, Prepare, Perform, Return, clientVars
<1> QED
  BY <1>1, <1>3, <1>5, <1>6

(* Nothing of a client's requests begins when its owner waited for them.   *)
LEMMA FutureStep ==
  ASSUME TypeOK, RequestInv, FutureMeansOver, [Next]_vars
  PROVE  FutureMeansOver'
<1> DEFINE Over == {"CleanupOnce", "members", "pool", "gone"}
<1> SUFFICES ASSUME NEW d \in Waits, NEW j \in Id, phase'[d] \in Over
             PROVE  stage'[<<d, j>>] \in {"none", "done"}
  BY DEF FutureMeansOver
<1>0. d \in Client
  BY ClientAssumption
<1>1. ASSUME phase[d] \in Over PROVE stage[<<d, j>>] \in {"none", "done"}
  BY <1>1 DEF FutureMeansOver
<1>2. ASSUME NEW c \in Client, Construct(c) \/ OwnerStep(c) \/ GetSync(c)
      PROVE  stage'[<<d, j>>] \in {"none", "done"}
  <2>1. phase[d] \in Over
    BY <1>0, <1>2 DEF Construct, OwnerStep, InitOnce, CleanupOnce, DestroyMembers,
           DestroyPool, GetSync, clientVars, Goes, TypeOK
  <2>2. stage'[<<d, j>>] = stage[<<d, j>>]
    <3>1. CASE GetSync(c)
      BY <1>0, <3>1, Ids, StageOf DEF GetSync
    <3>2. CASE ~GetSync(c)
      BY <1>2, <3>2 DEF Construct, OwnerStep, InitOnce, CleanupOnce, DestroyMembers,
           DestroyPool, requestVars
    <3> QED
      BY <3>1, <3>2
  <2> QED
    BY <1>1, <2>1, <2>2
<1>3. ASSUME NEW c \in Client, Destroy(c) PROVE stage'[<<d, j>>] \in {"none", "done"}
  <2>1. stage' = stage /\ phase' = [phase EXCEPT ![c] = phase'[c]]
    BY <1>3 DEF Destroy, requestVars, Goes, TypeOK
  <2>2. CASE d # c
    <3>1. phase'[d] = phase[d]
      BY <1>0, <2>1, <2>2 DEF TypeOK
    <3> QED
      BY <1>1, <2>1, <3>1
  <2>3. CASE d = c
    <3>1. \A i \in 1..made[c] : <<c, i>> \in ready
      BY <1>3, <2>3 DEF Destroy
    <3>2. CASE j > made[c]
      BY <2>1, <2>3, <3>2 DEF RequestInv, StageInv
    <3>3. CASE ~(j > made[c])
      <4>1. j \in 1..made[c]
        BY <3>3, Ids DEF Id, TypeOK
      <4> QED
        BY <2>1, <2>3, <3>1, <4>1 DEF RequestInv, StageInv
    <3> QED
      BY <3>2, <3>3
  <2> QED
    BY <2>2, <2>3
<1>4. ASSUME NEW c \in Client, Get(c) PROVE stage'[<<d, j>>] \in {"none", "done"}
  <2>1. phase[d] \in Over /\ phase[c] = "alive"
    BY <1>4 DEF Get, Idle, clientVars
  <2>2. d # c
    BY <2>1
  <2>3. made[c] + 1 \in Id /\ stage' = [stage EXCEPT ![<<c, made[c] + 1>>] = "queued"]
    BY <1>4, Ids DEF Get, TypeOK
  <2>4. stage'[<<d, j>>] = stage[<<d, j>>]
    BY <1>0, <2>2, <2>3, Ids, StageOf
  <2> QED
    BY <1>1, <2>1, <2>4
<1>5. ASSUME NEW c \in Client, RunTask(c) PROVE stage'[<<d, j>>] \in {"none", "done"}
  <2>1. stage[<<d, j>>] \in {"none", "done"}
    BY <1>1, <1>5 DEF RunTask, clientVars
  <2>2. Head(todo[c]) \in Id /\ stage[<<c, Head(todo[c])>>] = "queued"
    BY <1>5, RunTaskRequests
  <2>3. <<d, j>> # <<c, Head(todo[c])>>
    BY <2>1, <2>2
  <2> QED
    BY <1>0, <1>5, <2>1, <2>2, <2>3, Ids, StageOf DEF RunTask
<1>6. ASSUME NEW r \in Request, RequestStep(r) PROVE stage'[<<d, j>>] \in {"none", "done"}
  <2>1. PICK c \in Client, i \in 0..MaxRequests :
           /\ r = <<c, i>>
           /\ i # 0 => i \in Running(c)
           /\ \A e \in Client, k \in Id :
                <<e, k>> # r => stage'[<<e, k>>] = stage[<<e, k>>]
           /\ UNCHANGED <<phase, made, todo>>
    BY <1>6, StepOf
  <2>2. stage[<<d, j>>] \in {"none", "done"}
    BY <1>1, <2>1
  <2>3. <<d, j>> # r
    BY <2>1, <2>2, Ids DEF Running, InProgress
  <2> QED
    BY <1>0, <2>1, <2>2, <2>3
<1>7. CASE UNCHANGED vars
  BY <1>1, <1>7 DEF vars
<1> QED
  BY <1>2, <1>3, <1>4, <1>5, <1>6, <1>7 DEF Next

-----------------------------------------------------------------------------
(* What a waiting owner may rely on. *)

(* An owner's own requests and the calls of Get belong to a living client. *)
LEMMA OwnerInvStep ==
  ASSUME TypeOK, RequestInv, OwnerInv, [Next]_vars
  PROVE  OwnerInv'
<1> SUFFICES ASSUME NEW d \in Client
             PROVE  /\ phase'[d] # "alive" => stage'[<<d, 0>>] = "none"
                    /\ phase'[d] \in {"none", "InitOnce"} => made'[d] = 0
  BY DEF OwnerInv
<1> DEFINE Holds == /\ phase'[d] # "alive" => stage'[<<d, 0>>] = "none"
                    /\ phase'[d] \in {"none", "InitOnce"} => made'[d] = 0
<1>0. /\ <<d, 0>> \in Request
      /\ phase[d] # "alive" => stage[<<d, 0>>] = "none"
      /\ phase[d] \in {"none", "InitOnce"} => made[d] = 0
  BY Ids DEF OwnerInv
<1>1. ASSUME NEW c \in Client, Construct(c) \/ OwnerStep(c) PROVE Holds
  <2>1. stage' = stage /\ made' = made
    BY <1>1 DEF Construct, OwnerStep, InitOnce, CleanupOnce, DestroyMembers, DestroyPool,
           requestVars
  <2>2. /\ phase'[d] = "alive" \/ phase[d] # "alive"
        /\ phase'[d] \in {"none", "InitOnce"} => phase[d] \in {"none", "InitOnce"}
    BY <1>1 DEF Construct, OwnerStep, InitOnce, CleanupOnce, DestroyMembers, DestroyPool,
           Goes, TypeOK
  <2> QED
    BY <1>0, <2>1, <2>2
<1>2. ASSUME NEW c \in Client, Destroy(c) PROVE Holds
  <2>1. stage' = stage /\ made' = made
    BY <1>2 DEF Destroy, requestVars
  <2>2. d # c => phase'[d] = phase[d]
    BY <1>2 DEF Destroy, Goes, TypeOK
  <2>3. d = c => stage[<<d, 0>>] = "none"
    BY <1>2 DEF Destroy, Idle, InProgress, RequestInv, StageInv
  <2>4. d = c => phase'[d] \notin {"none", "InitOnce"}
    BY <1>2 DEF Destroy, Goes, TypeOK
  <2> QED
    BY <1>0, <2>1, <2>2, <2>3, <2>4
<1>3. ASSUME NEW c \in Client, Get(c) PROVE Holds
  <2>1. phase' = phase /\ phase[c] = "alive"
    BY <1>3 DEF Get, Idle, clientVars
  <2>2. made[c] + 1 \in Id /\ stage' = [stage EXCEPT ![<<c, made[c] + 1>>] = "queued"]
    BY <1>3, Ids DEF Get, TypeOK
  <2>3. stage'[<<d, 0>>] = stage[<<d, 0>>]
    BY <1>0, <2>2, Ids, StageOf
  <2>4. d # c => made'[d] = made[d]
    BY <1>3 DEF Get, TypeOK
  <2> QED
    BY <1>0, <2>1, <2>3, <2>4
<1>4. ASSUME NEW c \in Client, GetSync(c) PROVE Holds
  <2>1. phase' = phase /\ made' = made /\ phase[c] = "alive"
    BY <1>4 DEF GetSync, Idle, clientVars
  <2>2. d # c => stage'[<<d, 0>>] = stage[<<d, 0>>]
    BY <1>0, <1>4, Ids, StageOf DEF GetSync
  <2> QED
    BY <1>0, <2>1, <2>2
<1>5. ASSUME NEW c \in Client, RunTask(c) PROVE Holds
  <2>1. phase' = phase /\ made' = made
    BY <1>5 DEF RunTask, clientVars
  <2>2. Head(todo[c]) \in Id
    BY <1>5, RunTaskRequests
  <2>3. stage'[<<d, 0>>] = stage[<<d, 0>>]
    BY <1>0, <1>5, <2>2, Ids, StageOf DEF RunTask
  <2> QED
    BY <1>0, <2>1, <2>3
<1>6. ASSUME NEW r \in Request, RequestStep(r) PROVE Holds
  <2>1. phase' = phase /\ made' = made
    BY <1>6 DEF RequestStep, Prepare, Perform, Return, clientVars
  <2>2. PICK p : stage' = [stage EXCEPT ![r] = p] /\ stage[r] # "none"
    BY <1>6 DEF RequestStep, Prepare, Perform, Return
  <2>3. stage'[<<d, 0>>] = stage[<<d, 0>>] \/ stage[<<d, 0>>] # "none"
    BY <1>0, <2>2, StageOf
  <2> QED
    BY <1>0, <2>1, <2>3
<1>7. CASE UNCHANGED vars
  BY <1>0, <1>7 DEF vars
<1> QED
  BY <1>1, <1>2, <1>3, <1>4, <1>5, <1>6, <1>7 DEF Next

(* Neither the last client's cleanup nor a destroyed member is met by a    *)
(* request of a client whose owner waits.                                  *)
LEMMA WaitersStep ==
  ASSUME TypeOK, CountInv, RequestInv, OwnerInv, FutureMeansOver, WaitersSafe, [Next]_vars
  PROVE  WaitersSafe'
<1>1. ASSUME NEW c \in Client, CleanupOnce(c) PROVE WaitersSafe'
  <2> SUFFICES ASSUME NEW r \in Request, stage[r] = "perform", r[1] \in Waits
               PROVE  FALSE
    BY <1>1 DEF CleanupOnce, WaitersSafe
  <2>1. PICK d \in Client, i \in 0..MaxRequests : r = <<d, i>> /\ d \in Waits
    BY Ids
  <2>2. phase[d] \notin {"InitOnce", "alive"}
    BY <1>1 DEF CleanupOnce, CountInv, Counted
  <2>3. i # 0 /\ i \in Id
    BY <2>1, <2>2, Ids DEF OwnerInv
  <2>4. phase[d] # "none"
    <3> SUFFICES ASSUME phase[d] = "none" PROVE FALSE
      OBVIOUS
    <3>1. made[d] = 0 /\ i > 0
      <4>1. i \in Nat /\ i # 0
        BY <2>3, Ids
      <4>2. made[d] = 0
        BY DEF OwnerInv
      <4> QED
        BY <4>1, <4>2
    <3>2. stage[<<d, i>>] = "none"
      <4>1. i > made[d]
        BY <3>1
      <4> QED
        BY <2>3, <4>1 DEF RequestInv, StageInv
    <3>3. stage[r] = stage[<<d, i>>]
      BY <2>1
    <3> QED
      BY <3>2, <3>3
  <2>5. phase[d] \in {"CleanupOnce", "members", "pool", "gone"}
    BY <2>2, <2>4 DEF TypeOK, Phase
  <2> QED
    BY <2>1, <2>3, <2>5 DEF FutureMeansOver
<1>2. ASSUME NEW r \in Request, Prepare(r) PROVE WaitersSafe'
  <2> SUFFICES ASSUME phase[r[1]] = "pool", r[1] \in Waits PROVE FALSE
    BY <1>2 DEF Prepare, WaitersSafe
  <2>1. PICK d \in Client, i \in 0..MaxRequests : r = <<d, i>> /\ d \in Waits
    BY Ids
  <2>2. stage[r] = "settings" /\ phase[d] = "pool"
    BY <1>2, <2>1 DEF Prepare
  <2>3. i # 0 /\ i \in Id
    BY <2>1, <2>2, Ids DEF OwnerInv
  <2> QED
    BY <2>1, <2>2, <2>3 DEF FutureMeansOver
<1>3. CASE UNCHANGED lost
  BY <1>3 DEF WaitersSafe
<1> QED
  BY <1>1, <1>2, <1>3
     DEF Next, Construct, InitOnce, Destroy, OwnerStep, DestroyMembers, DestroyPool, Get,
         GetSync, RunTask, RequestStep, Perform, Return, vars

-----------------------------------------------------------------------------
(* The invariant is inductive. *)
LEMMA NextInv == PoliteInv /\ [Next]_vars => PoliteInv'
<1> SUFFICES ASSUME PoliteInv, [Next]_vars PROVE PoliteInv'
  OBVIOUS
<1> USE DEF PoliteInv
<1>1. CountInv'
  BY ConstructCount, InitOnceCount, DestroyCount, CleanupOnceCount, OtherCount
     DEF Next, OwnerStep
<1>2. TypeOK' /\ RequestInv' /\ FutureMeansOver'
  BY TypeStep, RequestsStep, FutureStep
<1>3. OwnerInv' /\ WaitersSafe'
  BY OwnerInvStep, WaitersStep
<1> QED
  BY <1>1, <1>2, <1>3

(* The inductive invariant holds always. *)
LEMMA PoliteClient == Spec => []PoliteInv
<1> QED
  BY InitTypeCount, NextInv, PTL DEF Spec

(* libcurl is initialised during every transfer of a client that exists,   *)
(* for any number of clients that come and go one at a time.               *)
THEOREM CurlStaysUp == Spec => []CurlIsUp
<1>1. PoliteInv => CurlIsUp
  BY DEF PoliteInv, CountInv, CurlIsUp
<1> QED
  BY <1>1, PoliteClient, PTL

(* Nothing of a request runs after its owner waited for the future and     *)
(* destroyed the client.                                                   *)
THEOREM FuturesTellTheEnd == Spec => []FutureMeansOver
<1>1. PoliteInv => FutureMeansOver
  BY DEF PoliteInv
<1> QED
  BY <1>1, PoliteClient, PTL

(* Whatever the other clients do, no request of a client whose owner waits *)
(* for the futures meets headers or a libcurl that are gone.               *)
THEOREM WaitersAreSafe == Spec => []WaitersSafe
<1>1. PoliteInv => WaitersSafe
  BY DEF PoliteInv
<1> QED
  BY <1>1, PoliteClient, PTL
=============================================================================
