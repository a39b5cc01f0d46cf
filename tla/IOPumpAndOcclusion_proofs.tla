----------------------- MODULE IOPumpAndOcclusion_proofs -----------------------
(***************************************************************************)
(* Theorems of the two components that wait on a thread of their own until *)
(* the system tells them something.  First those of MessagePumpForIO: the  *)
(* port, the flag and the operations agree, and every step is one the      *)
(* contract of message_pump.h allows, for every set of threads and         *)
(* operations and every capacity.  Then those of WindowOcclusion: the      *)
(* calculator's event hooks, for every set of windows, every choice of     *)
(* changes and every bound on them.  The two share no variable, and no     *)
(* proof uses facts of both.                                               *)
(***************************************************************************)
EXTENDS MessagePumpForIO, WindowOcclusion, TLAPS

Items == Operations \cup {"Internal"}

\* x is among the items of q.
Has(q, x) == \E i \in DOMAIN q : q[i] = x

\* Nothing is in q twice.
NoRepeats(q) == \A i, j \in DOMAIN q : q[i] = q[j] => i = j

-----------------------------------------------------------------------------
(* Queues.                                                                 *)

\* What PostQueuedCompletionStatus() does to the items of the port.
LEMMA AppendFacts ==
    ASSUME NEW S, NEW q \in Seq(S), NEW e \in S
    PROVE  /\ Append(q, e) \in Seq(S)
           /\ \A x : Has(Append(q, e), x) <=> Has(q, x) \/ x = e
           /\ NoRepeats(q) /\ ~Has(q, e) => NoRepeats(Append(q, e))
<1> DEFINE p == Append(q, e)
<1>1. /\ p \in Seq(S)
      /\ Len(q) \in Nat
      /\ DOMAIN q = 1..Len(q)
      /\ DOMAIN p = 1..(Len(q) + 1)
      /\ \A i \in 1..Len(q) : p[i] = q[i]
      /\ p[Len(q) + 1] = e
  OBVIOUS
<1> HIDE DEF p
<1>2. ASSUME NEW x
      PROVE  Has(p, x) <=> Has(q, x) \/ x = e
  <2>1. ASSUME NEW i \in DOMAIN p, p[i] = x
        PROVE  Has(q, x) \/ x = e
    <3>1. CASE i \in 1..Len(q)
      BY <1>1, <2>1, <3>1 DEF Has
    <3>2. CASE i = Len(q) + 1
      BY <1>1, <2>1, <3>2
    <3>3. QED
      BY <1>1, <3>1, <3>2
  <2>2. ASSUME NEW i \in DOMAIN q, q[i] = x
        PROVE  Has(p, x)
    BY <1>1, <2>2 DEF Has
  <2>3. x = e => Has(p, x)
    BY <1>1 DEF Has
  <2>4. QED
    BY <2>1, <2>2, <2>3 DEF Has
<1>3. ASSUME NoRepeats(q), ~Has(q, e)
      PROVE  NoRepeats(p)
  <2>1. SUFFICES ASSUME NEW i \in DOMAIN p, NEW j \in DOMAIN p, p[i] = p[j]
                 PROVE  i = j
    BY DEF NoRepeats
  <2>2. CASE i \in 1..Len(q) /\ j \in 1..Len(q)
    BY <1>1, <1>3, <2>1, <2>2 DEF NoRepeats
  <2>3. CASE i = Len(q) + 1 /\ j \in 1..Len(q)
    BY <1>1, <1>3, <2>1, <2>3 DEF Has
  <2>4. CASE j = Len(q) + 1 /\ i \in 1..Len(q)
    BY <1>1, <1>3, <2>1, <2>4 DEF Has
  <2>5. QED
    BY <1>1, <2>2, <2>3, <2>4
<1>4. QED
  BY <1>1, <1>2, <1>3 DEF p

\* What GetQueuedCompletionStatus() does to them.
LEMMA TailFacts ==
    ASSUME NEW S, NEW q \in Seq(S), q # <<>>
    PROVE  /\ Head(q) \in S /\ Has(q, Head(q))
           /\ Tail(q) \in Seq(S)
           /\ NoRepeats(q) => /\ NoRepeats(Tail(q))
                              /\ \A x : Has(Tail(q), x) <=> Has(q, x) /\ x # Head(q)
<1> DEFINE p == Tail(q)
           h == Head(q)
<1>1. /\ p \in Seq(S) /\ h \in S /\ h = q[1]
      /\ Len(q) \in Nat \ {0}
      /\ DOMAIN q = 1..Len(q)
      /\ DOMAIN p = 1..(Len(q) - 1)
      /\ \A i \in 1..(Len(q) - 1) : p[i] = q[i + 1]
  OBVIOUS
<1> HIDE DEF p, h
<1>2. Has(q, h)
  BY <1>1 DEF Has
<1>3. ASSUME NoRepeats(q)
      PROVE  NoRepeats(p)
  <2>1. SUFFICES ASSUME NEW i \in DOMAIN p, NEW j \in DOMAIN p, p[i] = p[j]
                 PROVE  i = j
    BY DEF NoRepeats
  <2>2. i + 1 = j + 1
    BY <1>1, <1>3, <2>1 DEF NoRepeats
  <2>3. QED
    BY <1>1, <2>2
<1>4. ASSUME NoRepeats(q), NEW x
      PROVE  Has(p, x) <=> Has(q, x) /\ x # h
  <2>1. ASSUME NEW i \in DOMAIN p, p[i] = x
        PROVE  Has(q, x) /\ x # h
    <3>1. i + 1 \in DOMAIN q /\ q[i + 1] = x /\ i + 1 # 1 /\ 1 \in DOMAIN q
      BY <1>1, <2>1
    <3>2. QED
      BY <1>1, <1>4, <3>1 DEF Has, NoRepeats
  <2>2. ASSUME NEW i \in DOMAIN q, q[i] = x, x # h
        PROVE  Has(p, x)
    <3>1. i # 1
      BY <1>1, <2>2
    <3>2. i - 1 \in DOMAIN p /\ p[i - 1] = q[i]
      BY <1>1, <3>1
    <3>3. QED
      BY <2>2, <3>2 DEF Has
  <2>3. QED
    BY <2>1, <2>2 DEF Has
<1>5. QED
  BY <1>1, <1>2, <1>3, <1>4 DEF p, h

-----------------------------------------------------------------------------
(* The inductive invariant.  The wake-up is held by the port, by a thread  *)
(* that is about to post or to give up, or by the bound thread that has    *)
(* taken it: by one of them, and exactly while the flag is set.            *)

InPort  == Has(port, "Internal")
Posting == \E t \in Callers : pc[t] # "Idle"

OneToken ==
    /\ NoRepeats(port)
    /\ \A t, u \in Callers : pc[t] # "Idle" /\ pc[u] # "Idle" => t = u
    /\ InPort => ~Posting /\ at # "Internal"
    /\ Posting => at # "Internal"
    /\ work_scheduled <=> InPort \/ Posting \/ at = "Internal"

CompletedAreQueued == \A o \in Operations : Has(port, o) <=> operation[o] = "Completed"

PumpInv == IOPumpTypeOK /\ OneToken /\ CompletedAreQueued

\* The invariant says what the properties of the run say with sets of indices.
LEMMA PumpInvImplies == PumpInv => PortIsConsistent
<1> SUFFICES ASSUME PumpInv
             PROVE  PortIsConsistent
  OBVIOUS
<1> USE DEF PumpInv
<1>1. SingleWorkToken
  <2>1. /\ InPort <=> InQueue # {}
        /\ Posting <=> InThread # {}
    BY DEF InPort, Posting, InQueue, InThread, Has
  <2>2. \A i, j \in InQueue : i = j
    BY DEF OneToken, NoRepeats, InQueue
  <2>3. \A t, u \in InThread : t = u
    BY DEF OneToken, InThread
  <2>4. QED
    BY <2>1, <2>2, <2>3 DEF OneToken, SingleWorkToken
<1>2. CompletionsAreQueuedOnce
  <2>1. SUFFICES ASSUME NEW o \in Operations
                 PROVE  LET items == {i \in DOMAIN port : port[i] = o}
                        IN  IF operation[o] = "Completed"
                            THEN \E i \in items : items = {i}
                            ELSE items = {}
    BY DEF CompletionsAreQueuedOnce
  <2> DEFINE items == {i \in DOMAIN port : port[i] = o}
  <2>2. ASSUME operation[o] = "Completed"
        PROVE  \E i \in items : items = {i}
    <3>1. PICK i \in items : TRUE
      BY <2>2 DEF CompletedAreQueued, Has
    <3>2. items = {i}
      BY <3>1 DEF OneToken, NoRepeats
    <3>3. QED
      BY <3>2
  <2>3. ASSUME operation[o] # "Completed"
        PROVE  items = {}
    BY <2>3 DEF CompletedAreQueued, Has
  <2>4. QED
    BY <2>2, <2>3
<1>3. QED
  BY <1>1, <1>2 DEF PortIsConsistent

-----------------------------------------------------------------------------
(* Steps.                                                                  *)

\* The flag, the threads and the port stay: so does the token.
LEMMA TokenStays ==
    ASSUME OneToken,
           UNCHANGED <<work_scheduled, pc, port>>,
           at' = "Internal" <=> at = "Internal"
    PROVE  OneToken'
BY DEF OneToken, InPort, Posting

LEMMA CompletionsStay ==
    ASSUME CompletedAreQueued, UNCHANGED <<port, operation>>
    PROVE  CompletedAreQueued'
BY DEF CompletedAreQueued

\* WaitForIOCompletion() takes an item: the token is at the bound thread if it was the dummy,
\* else the operation is no longer waiting.
LEMMA TakesItem ==
    ASSUME PumpInv, NEW l \in {"Polled", "Top"}, at \in {"Poll", "Wait"}, GetIOItem(l)
    PROVE  PumpInv'
<1> USE DEF PumpInv
<1>1. port \in Seq(Items)
  BY DEF IOPumpTypeOK, Items
<1>2. /\ Head(port) \in Items /\ Has(port, Head(port))
      /\ port' \in Seq(Items)
      /\ NoRepeats(port')
      /\ \A x : Has(port', x) <=> Has(port, x) /\ x # Head(port)
  BY <1>1, TailFacts DEF GetIOItem, OneToken
<1>3. IOPumpTypeOK'
  <2>1. CASE Head(port) = "Internal"
    BY <1>2, <2>1 DEF IOPumpTypeOK, GetIOItem, Items, loopVars, histVars
  <2>2. CASE Head(port) # "Internal"
    BY <1>2, <2>2 DEF IOPumpTypeOK, GetIOItem, Items, loopVars, histVars
  <2>3. QED
    BY <2>1, <2>2
<1>4. OneToken'
  <2>1. CASE Head(port) = "Internal"
    <3>1. InPort /\ ~InPort' /\ at' = "Internal" /\ UNCHANGED <<work_scheduled, pc>>
      BY <1>2, <2>1 DEF InPort, GetIOItem
    <3>2. QED
      BY <1>2, <3>1 DEF OneToken, Posting
  <2>2. CASE Head(port) # "Internal"
    <3>1. (InPort' <=> InPort) /\ at' # "Internal" /\ UNCHANGED <<work_scheduled, pc>>
      BY <1>2, <2>2 DEF InPort, GetIOItem
    <3>2. QED
      BY <1>2, <3>1 DEF OneToken, Posting
  <2>3. QED
    BY <2>1, <2>2
<1>5. CompletedAreQueued'
  <2>1. CASE Head(port) = "Internal"
    BY <1>2, <2>1, OperationAssumption DEF CompletedAreQueued, GetIOItem
  <2>2. CASE Head(port) # "Internal"
    <3>1. Head(port) \in Operations
      BY <1>2, <2>2 DEF Items
    <3>2. \A o \in Operations : operation'[o] = IF o = Head(port) THEN "Handled" ELSE operation[o]
      BY <2>2, <3>1 DEF GetIOItem, IOPumpTypeOK
    <3>3. QED
      BY <1>2, <3>2 DEF CompletedAreQueued
  <2>3. QED
    BY <2>1, <2>2
<1>6. QED
  BY <1>3, <1>4, <1>5

\* The exchange of ScheduleWork() hands a new token to the caller if there was none.
LEMMA TakesToken ==
    ASSUME PumpInv, NEW t \in Callers,
           pc[t] = "Idle", at' = "Internal" <=> at = "Internal",
           work_scheduled' = TRUE,
           pc' = [pc EXCEPT ![t] = IF work_scheduled THEN "Idle" ELSE "Post"],
           UNCHANGED port
    PROVE  OneToken' /\ pc' \in [Callers -> {"Idle", "Post", "Failed"}]
<1> USE DEF PumpInv
<1>1. pc \in [Callers -> {"Idle", "Post", "Failed"}]
  BY DEF IOPumpTypeOK
<1>2. CASE work_scheduled
  <2>1. pc' = pc
    BY <1>1, <1>2
  <2>2. QED
    BY <1>1, <1>2, <2>1 DEF OneToken, InPort, Posting
<1>3. CASE ~work_scheduled
  <2>1. ~Posting /\ ~InPort /\ at # "Internal"
    BY <1>3 DEF OneToken
  <2>2. /\ pc'[t] = "Post"
        /\ \A u \in Callers : u # t => pc'[u] = "Idle"
    BY <1>1, <1>3, <2>1 DEF Posting
  <2>3. Posting' /\ ~InPort'
    BY <2>1, <2>2 DEF Posting, InPort
  <2>4. QED
    BY <1>1, <1>3, <2>2, <2>3 DEF OneToken
<1>4. QED
  BY <1>2, <1>3 DEF IOPumpTypeOK

\* The delays a delegate may ask for.
LEMMA Times ==
    /\ Never \in RunTimes /\ Never \in Nat
    /\ \A n \in RunTimes : n \in 0..Never /\ n \in Nat
BY BoundAssumption DEF RunTimes, Never, Immediate

LEMMA PumpInit == IOPumpInit => PumpInv
<1> SUFFICES ASSUME IOPumpInit
             PROVE  PumpInv
  OBVIOUS
<1>1. IOPumpTypeOK
  <2>1. now \in 0..MaxTime /\ budget \in 0..Budget
    BY BoundAssumption DEF IOPumpInit
  <2>2. port \in Seq(Operations \cup {"Internal"})
    BY DEF IOPumpInit
  <2>3. QED
    BY <2>1, <2>2, Times DEF IOPumpInit, IOPumpTypeOK
<1>2. \A x : ~Has(port, x)
  BY DEF IOPumpInit, Has
<1>3. NoRepeats(port)
  BY DEF IOPumpInit, NoRepeats
<1>4. OneToken
  BY <1>2, <1>3 DEF IOPumpInit, OneToken, InPort, Posting
<1>5. CompletedAreQueued
  BY <1>2 DEF IOPumpInit, CompletedAreQueued
<1>6. QED
  BY <1>1, <1>4, <1>5 DEF PumpInv

LEMMA PumpStep == PumpInv /\ [IOPumpNext]_ioPumpVars => PumpInv'
<1> SUFFICES ASSUME PumpInv, [IOPumpNext]_ioPumpVars
             PROVE  PumpInv'
  OBVIOUS
<1> USE DEF PumpInv
<1>1. ASSUME NEW t \in Callers, ScheduleWork(t)
      PROVE  PumpInv'
  <2>1. OneToken' /\ pc' \in [Callers -> {"Idle", "Post", "Failed"}]
    BY <1>1, TakesToken DEF ScheduleWork, loopVars
  <2>2. IOPumpTypeOK'
    BY <1>1, <2>1, BoundAssumption DEF ScheduleWork, IOPumpTypeOK, Spend, loopVars
  <2>3. CompletedAreQueued'
    BY <1>1, CompletionsStay DEF ScheduleWork
  <2>4. QED
    BY <2>1, <2>2, <2>3
<1>2. ASSUME NEW t \in Callers, Post(t)
      PROVE  PumpInv'
  <2>1. Posting /\ ~InPort /\ at # "Internal" /\ work_scheduled
    BY <1>2 DEF Post, OneToken, Posting
  <2>2. CASE Len(port) < PortCapacity
    <3>1. port \in Seq(Items) /\ "Internal" \in Items
      BY DEF IOPumpTypeOK, Items
    <3>2. /\ port' \in Seq(Items) /\ NoRepeats(port')
          /\ \A x : Has(port', x) <=> Has(port, x) \/ x = "Internal"
      <4>1. port' = Append(port, "Internal")
        BY <1>2, <2>2 DEF Post
      <4>2. NoRepeats(port) /\ ~Has(port, "Internal")
        BY <2>1 DEF OneToken, InPort
      <4>3. QED
        BY ONLY <3>1, <4>1, <4>2, AppendFacts
    <3>3. /\ pc' \in [Callers -> {"Idle", "Post", "Failed"}]
          /\ \A u \in Callers : pc'[u] = "Idle"
      BY <1>2, <2>2 DEF Post, IOPumpTypeOK, OneToken
    <3>4. InPort' /\ ~Posting'
      BY <3>2, <3>3 DEF InPort, Posting
    <3>5. OneToken'
      BY <1>2, <2>1, <3>2, <3>3, <3>4 DEF OneToken, Post, loopVars
    <3>6. CompletedAreQueued'
      BY <1>2, <3>2, OperationAssumption DEF CompletedAreQueued, Post
    <3>7. IOPumpTypeOK'
      BY <1>2, <2>2, <3>2, <3>3 DEF IOPumpTypeOK, Post, Items, loopVars
    <3>8. QED
      BY <3>5, <3>6, <3>7
  <2>3. CASE ~(Len(port) < PortCapacity)
    <3>1. pc' = [pc EXCEPT ![t] = "Failed"] /\ UNCHANGED <<port, at, work_scheduled>>
      BY <1>2, <2>3 DEF Post, loopVars
    <3>2. /\ pc' \in [Callers -> {"Idle", "Post", "Failed"}]
          /\ \A u \in Callers : pc'[u] # "Idle" <=> pc[u] # "Idle"
      BY <1>2, <3>1 DEF Post, IOPumpTypeOK
    <3>3. OneToken'
      BY <3>1, <3>2 DEF OneToken, InPort, Posting
    <3>4. CompletedAreQueued'
      BY <1>2, <3>1 DEF CompletedAreQueued, Post
    <3>5. IOPumpTypeOK'
      BY <1>2, <2>3, <3>2 DEF IOPumpTypeOK, Post, loopVars
    <3>6. QED
      BY <3>3, <3>4, <3>5
  <2>4. QED
    BY <2>2, <2>3
<1>3. ASSUME NEW t \in Callers, PostFailed(t)
      PROVE  PumpInv'
  <2>1. Posting /\ ~InPort /\ at # "Internal"
    BY <1>3 DEF PostFailed, OneToken, Posting
  <2>2. /\ pc' \in [Callers -> {"Idle", "Post", "Failed"}]
        /\ \A u \in Callers : pc'[u] = "Idle"
    BY <1>3 DEF PostFailed, IOPumpTypeOK, OneToken
  <2>3. OneToken'
    BY <1>3, <2>1, <2>2 DEF PostFailed, OneToken, InPort, Posting, loopVars
  <2>4. CompletedAreQueued'
    BY <1>3, CompletionsStay DEF PostFailed
  <2>5. IOPumpTypeOK'
    BY <1>3, <2>2 DEF IOPumpTypeOK, PostFailed, loopVars, histVars
  <2>6. QED
    BY <2>3, <2>4, <2>5
<1>4. ASSUME Run
      PROVE  PumpInv'
  <2>1. IOPumpTypeOK'
    <3>1. budget' \in 0..Budget
      BY <1>4, BoundAssumption DEF Run, IOPumpTypeOK, Spend
    <3>2. QED
      BY <1>4, <3>1 DEF Run, IOPumpTypeOK, histVars
  <2>2. OneToken'
    BY <1>4, TokenStays DEF Run, At, InAppCode, loopVars, histVars
  <2>3. CompletedAreQueued'
    BY <1>4, CompletionsStay DEF Run, loopVars, histVars
  <2>4. QED
    BY <2>1, <2>2, <2>3
<1>5. ASSUME BeginDoWork
      PROVE  PumpInv'
  <2>1. IOPumpTypeOK'
    BY <1>5, Times DEF BeginDoWork, IOPumpTypeOK, At, InAppCode, Spend, loopVars, histVars
  <2>2. OneToken'
    BY <1>5, TokenStays DEF BeginDoWork, At, InAppCode, loopVars, histVars
  <2>3. CompletedAreQueued'
    BY <1>5, CompletionsStay DEF BeginDoWork, loopVars, histVars
  <2>4. QED
    BY <2>1, <2>2, <2>3
<1>6. ASSUME NEW n \in RunTimes, DoWorkReturn(n)
      PROVE  PumpInv'
  <2>1. IOPumpTypeOK'
    <3>1. budget' \in 0..Budget
      <4>1. CASE n = Immediate
        BY <1>6, <4>1, BoundAssumption DEF DoWorkReturn, Spend, IOPumpTypeOK
      <4>2. CASE n # Immediate
        BY <1>6, <4>2 DEF DoWorkReturn, IOPumpTypeOK
      <4>3. QED
        BY <4>1, <4>2
    <3>2. QED
      BY <1>6, <3>1 DEF DoWorkReturn, IOPumpTypeOK
  <2>2. OneToken'
    BY <1>6, TokenStays DEF DoWorkReturn, At, InAppCode, loopVars, histVars
  <2>3. CompletedAreQueued'
    BY <1>6, CompletionsStay DEF DoWorkReturn, loopVars, histVars
  <2>4. QED
    BY <2>1, <2>2, <2>3
<1>7. ASSUME Worked
      PROVE  PumpInv'
  <2>1. IOPumpTypeOK'
    BY <1>7 DEF Worked, IOPumpTypeOK, At, InAppCode, Spend, loopVars, histVars
  <2>2. OneToken'
    BY <1>7, TokenStays DEF Worked, At, InAppCode, loopVars, histVars
  <2>3. CompletedAreQueued'
    BY <1>7, CompletionsStay DEF Worked, loopVars, histVars
  <2>4. QED
    BY <2>1, <2>2, <2>3
<1>8. ASSUME Polled
      PROVE  PumpInv'
  <2>1. IOPumpTypeOK'
    BY <1>8 DEF Polled, IOPumpTypeOK, At, InAppCode, Spend, loopVars, histVars
  <2>2. OneToken'
    BY <1>8, TokenStays DEF Polled, At, InAppCode, loopVars, histVars
  <2>3. CompletedAreQueued'
    BY <1>8, CompletionsStay DEF Polled, loopVars, histVars
  <2>4. QED
    BY <2>1, <2>2, <2>3
<1>9. ASSUME InternalItem
      PROVE  PumpInv'
  <2>1. IOPumpTypeOK'
    BY <1>9 DEF InternalItem, IOPumpTypeOK, At, loopVars, histVars
  <2>2. OneToken'
    BY <1>9 DEF InternalItem, At, IOPumpTypeOK, OneToken, InPort, Posting
  <2>3. CompletedAreQueued'
    BY <1>9, CompletionsStay DEF InternalItem
  <2>4. QED
    BY <2>1, <2>2, <2>3
<1>10. ASSUME Poll
      PROVE  PumpInv'
  <2>1. CASE GetIOItem("Polled")
    BY <1>10, <2>1, TakesItem DEF Poll, At
  <2>2. CASE at' = "Polled" /\ UNCHANGED <<work_scheduled, should_quit, after, more, info, pc, port,
                                           operation, now, histVars, budget>>
    <3>1. IOPumpTypeOK'
      BY <2>2 DEF IOPumpTypeOK, histVars
    <3>2. OneToken'
      BY <1>10, <2>2, TokenStays DEF Poll, At
    <3>3. CompletedAreQueued'
      BY <2>2, CompletionsStay
    <3>4. QED
      BY <3>1, <3>2, <3>3
  <2>3. QED
    BY <1>10, <2>1, <2>2 DEF Poll
<1>11. ASSUME Wait
      PROVE  PumpInv'
  <2>1. CASE GetIOItem("Top")
    BY <1>11, <2>1, TakesItem DEF Wait, At
  <2>2. CASE at' = "Top" /\ UNCHANGED <<work_scheduled, should_quit, after, more, info, pc, port,
                                        operation, now, histVars, budget>>
    <3>1. IOPumpTypeOK'
      BY <2>2 DEF IOPumpTypeOK, histVars
    <3>2. OneToken'
      BY <1>11, <2>2, TokenStays DEF Wait, At
    <3>3. CompletedAreQueued'
      BY <2>2, CompletionsStay
    <3>4. QED
      BY <3>1, <3>2, <3>3
  <2>3. QED
    BY <1>11, <2>1, <2>2 DEF Wait
<1>12. ASSUME Idle
      PROVE  PumpInv'
  <2>1. /\ at = "Idle" /\ at' \in {"Wait", "Top", "Out"}
        /\ pc[Bound] = "Idle"
        /\ UNCHANGED <<should_quit, after, more, info, port, operation, now, due, post_failed>>
    BY <1>12 DEF Idle, At
  <2>2. OneToken' /\ pc' \in [Callers -> {"Idle", "Post", "Failed"}]
    <3>1. CASE UNCHANGED <<work_scheduled, pc>>
      BY <2>1, <3>1, TokenStays DEF IOPumpTypeOK
    <3>2. CASE /\ work_scheduled' = TRUE
               /\ pc' = [pc EXCEPT ![Bound] = IF work_scheduled THEN "Idle" ELSE "Post"]
      BY <2>1, <3>2, TakesToken DEF Callers
    <3>3. QED
      BY <1>12, <3>1, <3>2 DEF Idle
  <2>3. work_scheduled' \in BOOLEAN /\ requested' \in BOOLEAN /\ budget' \in 0..Budget
    <3>1. work_scheduled \in BOOLEAN /\ requested \in BOOLEAN /\ budget \in 0..Budget
      BY DEF IOPumpTypeOK
    <3>2. CASE UNCHANGED <<work_scheduled, requested, budget>>
      BY <3>1, <3>2
    <3>3. CASE Spend /\ work_scheduled' = TRUE /\ requested' = TRUE
      BY <3>1, <3>3, BoundAssumption DEF Spend
    <3>4. CASE Spend /\ UNCHANGED <<work_scheduled, requested>>
      BY <3>1, <3>4, BoundAssumption DEF Spend
    <3>5. QED
      BY <1>12, <3>2, <3>3, <3>4 DEF Idle
  <2>4. IOPumpTypeOK'
    BY <2>1, <2>2, <2>3 DEF IOPumpTypeOK
  <2>5. CompletedAreQueued'
    BY <2>1, CompletionsStay
  <2>6. QED
    BY <2>2, <2>4, <2>5
<1>13. ASSUME Quit
      PROVE  PumpInv'
  <2>1. IOPumpTypeOK'
    BY <1>13, BoundAssumption DEF Quit, IOPumpTypeOK, At, InAppCode, Spend, loopVars, histVars
  <2>2. OneToken'
    BY <1>13, TokenStays DEF Quit, At, InAppCode, loopVars, histVars
  <2>3. CompletedAreQueued'
    BY <1>13, CompletionsStay DEF Quit, loopVars, histVars
  <2>4. QED
    BY <2>1, <2>2, <2>3
<1>14. ASSUME NEW o \in Operations, StartOperation(o)
      PROVE  PumpInv'
  <2>1. IOPumpTypeOK'
    BY <1>14 DEF StartOperation, IOPumpTypeOK, loopVars, histVars
  <2>2. OneToken'
    BY <1>14, TokenStays DEF StartOperation, loopVars
  <2>3. CompletedAreQueued'
    BY <1>14 DEF StartOperation, CompletedAreQueued, IOPumpTypeOK
  <2>4. QED
    BY <2>1, <2>2, <2>3
<1>15. ASSUME HandlerReturn
      PROVE  PumpInv'
  <2>1. IOPumpTypeOK'
    BY <1>15 DEF HandlerReturn, IOPumpTypeOK, At, InAppCode, Spend, loopVars, histVars
  <2>2. OneToken'
    BY <1>15, TokenStays DEF HandlerReturn, IOPumpTypeOK, At, InAppCode, loopVars, histVars
  <2>3. CompletedAreQueued'
    BY <1>15, CompletionsStay DEF HandlerReturn, loopVars, histVars
  <2>4. QED
    BY <2>1, <2>2, <2>3
<1>16. ASSUME NEW o \in Operations, Complete(o)
      PROVE  PumpInv'
  <2>1. port \in Seq(Items) /\ o \in Items /\ o # "Internal"
    BY OperationAssumption DEF IOPumpTypeOK, Items
  <2>2. ~Has(port, o)
    BY <1>16 DEF CompletedAreQueued, Complete
  <2>3. /\ port' \in Seq(Items) /\ NoRepeats(port')
        /\ \A x : Has(port', x) <=> Has(port, x) \/ x = o
    BY <1>16, <2>1, <2>2, AppendFacts DEF Complete, OneToken
  <2>4. IOPumpTypeOK'
    BY <1>16, <2>3 DEF Complete, IOPumpTypeOK, Items, loopVars, histVars
  <2>5. OneToken'
    BY <1>16, <2>1, <2>3 DEF Complete, OneToken, InPort, Posting, loopVars
  <2>6. CompletedAreQueued'
    BY <1>16, <2>3 DEF Complete, CompletedAreQueued, IOPumpTypeOK
  <2>7. QED
    BY <2>4, <2>5, <2>6
<1>17. ASSUME Tick
      PROVE  PumpInv'
  <2>1. IOPumpTypeOK'
    BY <1>17, BoundAssumption DEF Tick, IOPumpTypeOK, At, InAppCode, Spend, loopVars, histVars
  <2>2. OneToken'
    BY <1>17, TokenStays DEF Tick, At, InAppCode, loopVars, histVars
  <2>3. CompletedAreQueued'
    BY <1>17, CompletionsStay DEF Tick, loopVars, histVars
  <2>4. QED
    BY <2>1, <2>2, <2>3
<1>18. ASSUME UNCHANGED ioPumpVars
      PROVE  PumpInv'
  BY <1>18 DEF IOPumpTypeOK, OneToken, CompletedAreQueued, InPort, Posting, ioPumpVars, loopVars, histVars
<1>19. QED
  BY <1>1, <1>2, <1>3, <1>4, <1>5, <1>6, <1>7, <1>8, <1>9, <1>10, <1>11, <1>12, <1>13, <1>14, <1>15, <1>16, <1>17, <1>18 DEF IOPumpNext, BoundStep, ThreadStep

-----------------------------------------------------------------------------
(* The theorems.                                                           *)

\* The port, the flag and the operations agree: no wake-up and no completion is lost or
\* doubled, whatever threads schedule work, posts fail and operations complete meanwhile.
THEOREM PortCorrect == IOPumpSpec => []PortIsConsistent
<1>1. IOPumpSpec => []PumpInv
  BY PumpInit, PumpStep, PTL DEF IOPumpSpec
<1>2. QED
  BY <1>1, PumpInvImplies, PTL

\* The initial states of the pump are initial states of its contract.
LEMMA ContractInit == IOPumpInit => Contract!Init
BY DEF IOPumpInit, Contract!Init, Running, Never, Contract!Never

\* Every step is a step of the contract, or changes nothing the contract sees.
LEMMA ContractStep == [IOPumpNext]_ioPumpVars => [Contract!Next]_(Contract!vars)
<1> SUFFICES ASSUME [IOPumpNext]_ioPumpVars
             PROVE  Contract!Next \/ UNCHANGED Contract!vars
  OBVIOUS
<1> DEFINE Goal == Contract!Next \/ UNCHANGED Contract!vars
<1>1. ASSUME Running' \in BOOLEAN, UNCHANGED <<requested, due, now>>
      PROVE  Goal
  BY <1>1 DEF Contract!Next, Contract!EnterOrLeave
<1>2. Running' \in BOOLEAN
  BY DEF Running
<1>3. ASSUME NEW t \in Callers, ScheduleWork(t)
      PROVE  Goal
  <2>1. requested' = TRUE /\ UNCHANGED <<Running, due, now>>
    BY <1>3 DEF ScheduleWork, loopVars, Running
  <2>2. QED
    BY <2>1 DEF Contract!Next, Contract!ScheduleWork
<1>4. ASSUME NEW t \in Callers, ThreadStep(t)
      PROVE  UNCHANGED <<requested, due, now>>
  BY <1>4 DEF ThreadStep, Post, PostFailed, histVars
<1>5. ASSUME BeginDoWork
      PROVE  Goal
  <2>1. Running /\ requested' = FALSE /\ due' = Never /\ UNCHANGED <<Running, now>>
    BY <1>5 DEF BeginDoWork, At, Running
  <2>2. QED
    BY <2>1 DEF Contract!Next, Contract!DoWork, Never, Contract!Never
<1>6. ASSUME NEW n \in RunTimes, DoWorkReturn(n)
      PROVE  Goal
  <2>1. Running /\ due' = n /\ UNCHANGED <<Running, requested, now>>
    BY <1>6 DEF DoWorkReturn, At, Running
  <2>2. QED
    BY <2>1 DEF Contract!Next, Contract!DoWorkReturn, Contract!Never, RunTimes, Immediate, Never
<1>7. ASSUME Idle
      PROVE  Goal
  <2>1. CASE UNCHANGED requested
    BY <1>1, <1>2, <1>7, <2>1 DEF Idle
  <2>2. CASE requested' = TRUE /\ at' = "Wait"
    <3>1. UNCHANGED <<Running, due, now>>
      BY <1>7, <2>2 DEF Idle, At, Running
    <3>2. QED
      BY <2>2, <3>1 DEF Contract!Next, Contract!ScheduleWork
  <2>3. QED
    BY <1>7, <2>1, <2>2 DEF Idle
<1>8. ASSUME NEW l, GetIOItem(l)
      PROVE  UNCHANGED <<requested, due, now>>
  BY <1>8 DEF GetIOItem, histVars
<1>9. ASSUME Run \/ Quit \/ Worked \/ Polled \/ InternalItem \/ HandlerReturn
      PROVE  UNCHANGED <<requested, due, now>>
  BY <1>9 DEF Run, Quit, Worked, Polled, InternalItem, HandlerReturn, histVars
<1>10. ASSUME Poll \/ Wait
       PROVE  UNCHANGED <<requested, due, now>>
  BY <1>8, <1>10 DEF Poll, Wait, histVars
<1>11. ASSUME NEW o \in Operations, StartOperation(o) \/ Complete(o)
       PROVE  UNCHANGED <<requested, due, now>>
  BY <1>11 DEF StartOperation, Complete, histVars
<1>12. ASSUME Tick
       PROVE  Goal
  <2>1. now < MaxTime /\ now' = now + 1 /\ UNCHANGED <<Running, requested, due>>
    BY <1>12 DEF Tick, loopVars, histVars, Running
  <2>2. QED
    BY <2>1 DEF Contract!Next, Contract!Tick
<1>13. ASSUME UNCHANGED ioPumpVars
       PROVE  UNCHANGED <<requested, due, now>>
  BY <1>13 DEF ioPumpVars, histVars
<1>14. QED
  BY <1>1, <1>2, <1>3, <1>4, <1>5, <1>6, <1>7, <1>9, <1>10, <1>11, <1>12, <1>13
     DEF IOPumpNext, BoundStep

\* The pump implements the contract of message_pump.h (its safety): no DoWork() outside of
\* Run(), and no request forgotten but by a DoWork() that begins after it.
THEOREM PumpImplementsContract == IOPumpSpec => ImplementsContract
<1>1. IOPumpInit /\ [][IOPumpNext]_ioPumpVars => Contract!Init /\ [][Contract!Next]_(Contract!vars)
  BY ContractInit, ContractStep, PTL
<1>2. QED
  BY <1>1 DEF IOPumpSpec, ImplementsContract, Contract!Safe

-----------------------------------------------------------------------------
(* WindowOcclusion.                                                        *)

StateMaps == UNION {[S -> RootStates] : S \in SUBSET Windows}
Shows == {"none", "normal", "iconic", "hidden"}
Systems == [show: [Occluders -> Shows], desktop: [Windows -> BOOLEAN],
            under: [Occluders -> Windows \cup {None}],
            dragged: Occluders \cup {None}, thumbnails: BOOLEAN]
Hosts == [shown: BOOLEAN, state: OcclusionStates, workspace: BOOLEAN \cup {None}]
Calculators == [states: StateMaps, globalHooks: BOOLEAN, processHooks: SUBSET Processes,
                pids: SUBSET Processes, moving: Occluders \cup {None}, thumbnails: BOOLEAN,
                timer: BOOLEAN, computing: {"no", "unregister", "windows"}, timerLost: BOOLEAN]
CalcTasks == [task: {"enable", "disable"}, hwnd: Windows]
             \cup [task: {"visibility"}, visible: BOOLEAN]
             \cup [task: {"force", "power", "schedule"}]
Events == [event: {"location", "moveStart", "moveEnd", "foreground", "minimize", "cloak",
                   "show", "hide"},
           hwnd: Occluders \cup {Popup, Thumbnail}]
Results == [states: StateMaps, showAll: BOOLEAN]

\* Only a window that can be dragged raises a move start.
EventOK(e) == e \in Events /\ (e.event = "moveStart" => e.hwnd \in Occluders)

-----------------------------------------------------------------------------
(* The inductive invariant.                                                *)

\* The calculator c with the hooks live of the system: every process that it believes to be
\* hooked is, and it will remove no hook that it has not.
Held(c, live) ==
    /\ c \in Calculators
    /\ live \in [Processes -> Nat]
    /\ c.pids \subseteq c.processHooks
    /\ \A p \in c.processHooks : live[p] > 0

TypeOK ==
    /\ system \in Systems
    /\ rootWindows \subseteq Windows
    /\ hosts \in [Windows -> Hosts]
    /\ screen \in [locked: BOOLEAN, on: BOOLEAN]
    /\ Held(calc, hooks)
    /\ events \in Seq({e \in Events : EventOK(e)})
    /\ calcTasks \in Seq(CalcTasks)
    /\ uiTasks \in Seq(Results)

Disables(t, w) == t.task = "disable" /\ t.hwnd = w
Enables(t, w) == t.task = "enable" /\ t.hwnd = w

\* The calculator knows the window w, or will know it, once it has run the tasks.
Tracked(states, tasks, w) ==
    \/ w \in DOMAIN states /\ \A i \in DOMAIN tasks : ~Disables(tasks[i], w)
    \/ \E i \in DOMAIN tasks : /\ Enables(tasks[i], w)
                               /\ \A j \in DOMAIN tasks : j > i => ~Disables(tasks[j], w)

RootsAreTracked == \A w \in rootWindows : Tracked(calc.states, calcTasks, w)

-----------------------------------------------------------------------------
(* The calculator's hooks.                                                 *)

USE DEF Held

LEMMA StatesType ==
    ASSUME NEW S \in SUBSET Windows, NEW f \in [S -> RootStates]
    PROVE  f \in StateMaps /\ DOMAIN f = S
BY DEF StateMaps

LEMMA StatesOf ==
    ASSUME NEW f \in StateMaps
    PROVE  /\ DOMAIN f \in SUBSET Windows
           /\ f \in [DOMAIN f -> RootStates]
BY DEF StateMaps

LEMMA VisiblePidsType == VisiblePids \subseteq Processes
BY DEF VisiblePids, ProcessOf, Processes

\* Hooking more processes.
LEMMA RegisterHeld ==
    ASSUME NEW c, NEW live, NEW P \in SUBSET Processes, Held(c, live)
    PROVE  LET h == RegisterEventHookForProcess(c, live, P) IN
           /\ Held(h.calc, h.hooks)
           /\ h.calc.states = c.states /\ h.calc.globalHooks = c.globalHooks
           /\ h.calc.computing = c.computing
<1> DEFINE d == [c EXCEPT !.pids = @ \cup P, !.processHooks = @ \cup P]
           later == [p \in Processes |-> IF p \in P THEN live[p] + 1 ELSE live[p]]
<1>1. d \in Calculators BY DEF Calculators
<1>2. /\ d.pids = c.pids \cup P /\ d.processHooks = c.processHooks \cup P
      /\ d.states = c.states /\ d.globalHooks = c.globalHooks /\ d.computing = c.computing
  BY DEF Calculators
<1>3. later \in [Processes -> Nat] OBVIOUS
<1>4. c.processHooks \subseteq Processes BY DEF Calculators
<1>5. \A p \in d.processHooks : later[p] > 0
  <2> SUFFICES ASSUME NEW p \in d.processHooks PROVE later[p] > 0 OBVIOUS
  <2>1. p \in Processes /\ (p \in P \/ p \in c.processHooks) BY <1>2, <1>4
  <2>2. live[p] \in Nat /\ later[p] = IF p \in P THEN live[p] + 1 ELSE live[p] BY <2>1
  <2> QED BY <2>1, <2>2
<1>6. d.pids \subseteq d.processHooks BY <1>2
<1> HIDE DEF d, later
<1>7. Held(d, later) BY <1>1, <1>3, <1>5, <1>6
<1> QED BY <1>2, <1>7 DEF RegisterEventHookForProcess, d, later

\* What a task that registers the hooks does.
LEMMA MaybeHeld ==
    ASSUME NEW c, NEW live, Held(c, live)
    PROVE  LET h == Scheduled(MaybeRegisterEventHooks(c, live)) IN
           /\ Held(h.calc, h.hooks)
           /\ h.calc.globalHooks = TRUE
           /\ h.calc.states = c.states /\ h.calc.computing = c.computing
<1> DEFINE e == [c EXCEPT !.globalHooks = TRUE, !.pids = {}]
           h == MaybeRegisterEventHooks(c, live)
<1>1. Held(e, live) BY DEF Calculators
<1>2. e.globalHooks = TRUE /\ e.states = c.states /\ e.computing = c.computing
  BY DEF Calculators
<1> HIDE DEF e
<1>3. Held(h.calc, h.hooks) /\ h.calc.globalHooks = TRUE
        /\ h.calc.states = c.states /\ h.calc.computing = c.computing
  <2>1. CASE c.globalHooks
    <3>1. h.calc = c /\ h.hooks = live BY <2>1 DEF MaybeRegisterEventHooks
    <3>2. c.globalHooks = TRUE BY <2>1 DEF Calculators
    <3> QED BY <3>1, <3>2
  <2>2. CASE ~c.globalHooks
    <3>1. h = RegisterEventHookForProcess(e, live, VisiblePids)
      BY <2>2 DEF MaybeRegisterEventHooks, RegisterEventHooks, e
    <3>2. /\ Held(h.calc, h.hooks)
          /\ h.calc.globalHooks = e.globalHooks /\ h.calc.states = e.states
          /\ h.calc.computing = e.computing
      BY <1>1, <3>1, VisiblePidsType, RegisterHeld
    <3> QED BY <1>2, <3>2
  <2> QED BY <2>1, <2>2
<1>4. h = [calc |-> h.calc, hooks |-> h.hooks]
  BY DEF MaybeRegisterEventHooks, RegisterEventHooks, RegisterEventHookForProcess
<1> HIDE DEF h
<1>5. /\ Scheduled(h).calc = [h.calc EXCEPT !.timer = TRUE]
      /\ Scheduled(h).hooks = h.hooks
  BY <1>4 DEF Scheduled, ScheduleOcclusionCalculationIfNeeded
<1> DEFINE f == [h.calc EXCEPT !.timer = TRUE]
<1>6. /\ Held(f, h.hooks) /\ f.globalHooks = h.calc.globalHooks
      /\ f.states = h.calc.states /\ f.computing = h.calc.computing
  BY <1>3 DEF Calculators
<1> QED BY <1>3, <1>5, <1>6 DEF h

\* Removing all hooks.
LEMMA UnregisterHeld ==
    ASSUME NEW c, NEW live, Held(c, live)
    PROVE  LET h == UnregisterEventHooks(c, live) IN
           Held(h.calc, h.hooks) /\ h.calc.states = c.states
<1> DEFINE d == [c EXCEPT !.globalHooks = FALSE, !.processHooks = {}, !.pids = {}]
           later == [p \in Processes |-> IF p \in c.pids THEN live[p] - 1 ELSE live[p]]
<1>1. d \in Calculators /\ d.processHooks = {} /\ d.pids = {} /\ d.states = c.states
  BY DEF Calculators
<1>2. later \in [Processes -> Nat]
  <2> SUFFICES ASSUME NEW p \in Processes
               PROVE  (IF p \in c.pids THEN live[p] - 1 ELSE live[p]) \in Nat
    OBVIOUS
  <2>1. live[p] \in Nat /\ (p \in c.pids => live[p] > 0) OBVIOUS
  <2> QED BY <2>1
<1> HIDE DEF d, later
<1>3. Held(d, later) BY <1>1, <1>2
<1> QED BY <1>1, <1>3 DEF UnregisterEventHooks, d, later

\* Following the processes that have windows to be seen.
LEMMA FollowHeld ==
    ASSUME NEW c, NEW live, Held(c, live)
    PROVE  LET h == FollowProcesses(c, live) IN
           /\ Held(h.calc, h.hooks)
           /\ h.calc.states = c.states /\ h.calc.globalHooks = c.globalHooks
           /\ h.calc.computing = c.computing
<1> DEFINE P == VisiblePids \ c.processHooks
           f == RegisterEventHookForProcess(c, live, P)
           gone == f.calc.pids \ VisiblePids
           d == [f.calc EXCEPT !.pids = @ \ gone, !.processHooks = @ \ gone]
           later == [p \in Processes |-> IF p \in gone THEN f.hooks[p] - 1 ELSE f.hooks[p]]
<1>1. P \in SUBSET Processes BY VisiblePidsType
<1>2. /\ Held(f.calc, f.hooks)
      /\ f.calc.states = c.states /\ f.calc.globalHooks = c.globalHooks
      /\ f.calc.computing = c.computing
  <2> HIDE DEF P
  <2> QED BY <1>1, RegisterHeld
<1>3. FollowProcesses(c, live) = [calc |-> d, hooks |-> later]
  BY DEF FollowProcesses
<1> HIDE DEF f
<1>4. gone \subseteq f.calc.pids OBVIOUS
<1> HIDE DEF gone
<1>6. /\ d \in Calculators /\ d.pids = f.calc.pids \ gone
      /\ d.processHooks = f.calc.processHooks \ gone
      /\ d.states = f.calc.states /\ d.globalHooks = f.calc.globalHooks
      /\ d.computing = f.calc.computing
  BY <1>2 DEF Calculators
<1>7. later \in [Processes -> Nat]
  <2> SUFFICES ASSUME NEW p \in Processes
               PROVE  (IF p \in gone THEN f.hooks[p] - 1 ELSE f.hooks[p]) \in Nat
    OBVIOUS
  <2>1. f.hooks[p] \in Nat /\ (p \in gone => f.hooks[p] > 0) BY <1>2, <1>4
  <2> QED BY <2>1
<1>8. \A p \in f.calc.processHooks \ gone : later[p] > 0
  <2>1. f.calc.processHooks \subseteq Processes BY <1>2 DEF Calculators
  <2> QED BY <1>2, <2>1
<1> HIDE DEF d, later
<1>9. Held(d, later) BY <1>2, <1>6, <1>7, <1>8
<1> QED BY <1>2, <1>3, <1>6, <1>9

-----------------------------------------------------------------------------
(* Tasks and events on their way.                                          *)

\* The task t makes the calculator listen.
Wakes(t) == /\ t.task \in {"enable", "visibility", "force"}
            /\ t.task = "visibility" => t.visible

LEMMA AppendTask ==
    ASSUME NEW tasks \in Seq(CalcTasks), NEW t \in CalcTasks
    PROVE  /\ Append(tasks, t) \in Seq(CalcTasks)
           /\ (\E i \in DOMAIN tasks : Wakes(tasks[i])) \/ Wakes(t)
                 => \E i \in DOMAIN Append(tasks, t) : Wakes(Append(tasks, t)[i])
           /\ \A states, w : Tracked(states, tasks, w) /\ ~Disables(t, w)
                 => Tracked(states, Append(tasks, t), w)
           /\ \A states, w : Enables(t, w) => Tracked(states, Append(tasks, t), w)
<1> DEFINE n == Len(tasks)
           later == Append(tasks, t)
<1>1. n \in Nat /\ DOMAIN tasks = 1..n OBVIOUS
<1>2. /\ later \in Seq(CalcTasks) /\ DOMAIN later = 1..(n + 1)
      /\ later[n + 1] = t /\ \A i \in 1..n : later[i] = tasks[i]
  OBVIOUS
<1> HIDE DEF n, later
<1>3. (\E i \in DOMAIN tasks : Wakes(tasks[i])) \/ Wakes(t)
         => \E i \in DOMAIN later : Wakes(later[i])
  <2>1. CASE Wakes(t) BY <1>1, <1>2, <2>1
  <2>2. ASSUME NEW i \in DOMAIN tasks, Wakes(tasks[i]) PROVE Wakes(later[i]) /\ i \in DOMAIN later
    BY <1>1, <1>2, <2>2
  <2> QED BY <2>1, <2>2
<1>4. ASSUME NEW states, NEW w, Tracked(states, tasks, w), ~Disables(t, w)
      PROVE  Tracked(states, later, w)
  <2>1. CASE w \in DOMAIN states /\ \A i \in DOMAIN tasks : ~Disables(tasks[i], w)
    <3>1. ASSUME NEW i \in DOMAIN later PROVE ~Disables(later[i], w)
      <4>1. i = n + 1 \/ (i \in DOMAIN tasks /\ later[i] = tasks[i]) BY <1>1, <1>2
      <4> QED BY <1>2, <1>4, <2>1, <4>1
    <3> QED BY <2>1, <3>1 DEF Tracked
  <2>2. ASSUME NEW i \in DOMAIN tasks, Enables(tasks[i], w),
               \A j \in DOMAIN tasks : j > i => ~Disables(tasks[j], w)
        PROVE  Tracked(states, later, w)
    <3>1. i \in DOMAIN later /\ Enables(later[i], w) BY <1>1, <1>2, <2>2
    <3>2. ASSUME NEW j \in DOMAIN later, j > i PROVE ~Disables(later[j], w)
      <4>1. j = n + 1 \/ (j \in DOMAIN tasks /\ later[j] = tasks[j]) BY <1>1, <1>2
      <4> QED BY <1>2, <1>4, <2>2, <3>2, <4>1
    <3> QED BY <3>1, <3>2 DEF Tracked
  <2> QED BY <1>4, <2>1, <2>2 DEF Tracked
<1>5. ASSUME NEW states, NEW w, Enables(t, w)
      PROVE  Tracked(states, later, w)
  <2>1. n + 1 \in DOMAIN later /\ Enables(later[n + 1], w) BY <1>1, <1>2, <1>5
  <2>2. \A j \in DOMAIN later : ~(j > n + 1) BY <1>1, <1>2
  <2> QED BY <2>1, <2>2 DEF Tracked
<1> QED BY <1>2, <1>3, <1>4, <1>5 DEF later

LEMMA RunTasks ==
    ASSUME NEW tasks \in Seq(CalcTasks), tasks # <<>>
    PROVE  /\ Head(tasks) \in CalcTasks /\ Tail(tasks) \in Seq(CalcTasks)
           /\ (\E i \in DOMAIN tasks : Wakes(tasks[i])) /\ ~Wakes(Head(tasks))
                 => \E i \in DOMAIN Tail(tasks) : Wakes(Tail(tasks)[i])
           /\ \A states, later, w :
                 /\ Tracked(states, tasks, w)
                 /\ w \in DOMAIN states \/ Enables(Head(tasks), w)
                       => w \in DOMAIN later \/ Disables(Head(tasks), w)
                 => Tracked(later, Tail(tasks), w)
           /\ \A states, w :
                 /\ Tracked(states, tasks, w) /\ Head(tasks).task = "disable"
                 /\ Disables(Head(tasks), w) \/ w \notin DOMAIN states
                 => \E i \in DOMAIN Tail(tasks) : Wakes(Tail(tasks)[i])
<1> DEFINE n == Len(tasks)
           rest == Tail(tasks)
           t == Head(tasks)
<1>1. n \in Nat /\ n > 0 /\ DOMAIN tasks = 1..n OBVIOUS
<1>2. /\ rest \in Seq(CalcTasks) /\ DOMAIN rest = 1..(n - 1)
      /\ \A i \in 1..(n - 1) : rest[i] = tasks[i + 1]
      /\ t = tasks[1] /\ t \in CalcTasks
  OBVIOUS
<1> HIDE DEF n, rest, t
<1>3. ASSUME NEW i \in DOMAIN tasks, i # 1
      PROVE  i - 1 \in DOMAIN rest /\ rest[i - 1] = tasks[i]
  BY <1>1, <1>2, <1>3
<1>4. ASSUME NEW i \in DOMAIN rest
      PROVE  i + 1 \in DOMAIN tasks /\ tasks[i + 1] = rest[i] /\ i \in Nat
  BY <1>1, <1>2
<1>5. ASSUME NEW i \in DOMAIN tasks, Wakes(tasks[i]), ~Wakes(t) \/ i # 1
      PROVE  \E k \in DOMAIN rest : Wakes(rest[k])
  <2>1. i # 1 BY <1>2, <1>5
  <2> QED BY <1>3, <1>5, <2>1
<1>6. ASSUME NEW states, NEW later, NEW w, Tracked(states, tasks, w),
             w \in DOMAIN states \/ Enables(t, w) => w \in DOMAIN later \/ Disables(t, w)
      PROVE  Tracked(later, rest, w)
  <2>1. CASE w \in DOMAIN states /\ \A i \in DOMAIN tasks : ~Disables(tasks[i], w)
    <3>1. ~Disables(t, w) BY <1>1, <1>2, <2>1
    <3>2. \A i \in DOMAIN rest : ~Disables(rest[i], w) BY <1>4, <2>1
    <3> QED BY <1>6, <2>1, <3>1, <3>2 DEF Tracked
  <2>2. ASSUME NEW i \in DOMAIN tasks, Enables(tasks[i], w),
               \A j \in DOMAIN tasks : j > i => ~Disables(tasks[j], w)
        PROVE  Tracked(later, rest, w)
    <3>1. CASE i = 1
      <4>1. Enables(t, w) /\ ~Disables(t, w) BY <1>2, <2>2, <3>1 DEF Enables, Disables
      <4>2. ASSUME NEW k \in DOMAIN rest PROVE ~Disables(rest[k], w)
        <5>1. k + 1 > i BY <1>1, <1>2, <3>1
        <5> QED BY <1>4, <2>2, <5>1
      <4> QED BY <1>6, <4>1, <4>2 DEF Tracked
    <3>2. CASE i # 1
      <4>1. i - 1 \in DOMAIN rest /\ Enables(rest[i - 1], w) BY <1>3, <2>2, <3>2
      <4>2. ASSUME NEW k \in DOMAIN rest, k > i - 1 PROVE ~Disables(rest[k], w)
        <5>1. k + 1 > i BY <1>1, <1>2, <4>2
        <5> QED BY <1>4, <2>2, <5>1
      <4> QED BY <4>1, <4>2 DEF Tracked
    <3> QED BY <3>1, <3>2
  <2> QED BY <1>6, <2>1, <2>2 DEF Tracked
<1>7. ASSUME NEW states, NEW w, Tracked(states, tasks, w), t.task = "disable",
             Disables(t, w) \/ w \notin DOMAIN states
      PROVE  \E k \in DOMAIN rest : Wakes(rest[k])
  <2>1. 1 \in DOMAIN tasks BY <1>1
  <2>2. PICK i \in DOMAIN tasks : Enables(tasks[i], w) BY <1>2, <1>7, <2>1 DEF Tracked
  <2>3. Wakes(tasks[i]) /\ i # 1 BY <1>2, <1>7, <2>2 DEF Wakes, Enables, Disables
  <2> QED BY <1>5, <2>3
<1> QED BY <1>2, <1>5, <1>6, <1>7 DEF rest, t

\* What a window event leaves to be handled.
LEMMA NotifyType ==
    ASSUME NEW event, NEW o, EventOK([event |-> event, hwnd |-> o]), Notify(event, o),
           events \in Seq({e \in Events : EventOK(e)})
    PROVE  events' \in Seq({e \in Events : EventOK(e)})
<1>1. [event |-> event, hwnd |-> o] \in {e \in Events : EventOK(e)} BY DEF EventOK
<1> HIDE DEF EventOK
<1> QED BY <1>1 DEF Notify

-----------------------------------------------------------------------------
(* The steps.                                                              *)

\* A step of the user or the system that leaves the browser's state alone: a window of the
\* browser is shown only when its host knows it to be hidden.
SystemStep ==
    /\ OnlySystem
    /\ system' \in Systems
    /\ events' \in Seq({e \in Events : EventOK(e)})
    /\ \A w \in Windows : system'.show[w] = "normal"
                             => system.show[w] = "normal" \/ ~hosts[w].shown

LEMMA SameShows ==
    ASSUME TypeOK, OnlySystem, system' \in Systems, system'.show = system.show,
           events' \in Seq({e \in Events : EventOK(e)})
    PROVE  SystemStep
BY DEF SystemStep

LEMMA SystemSteps ==
    ASSUME TypeOK,
           \/ \E w \in Windows : Raise(w) \/ SwitchDesktop(w)
           \/ \E o \in Occluders : \/ DragStart(o)
                                   \/ \E show \in {"normal", "iconic", "hidden"} : SetShow(o, show)
                                   \/ \E target \in Windows \cup {None} : Move(o, target)
           \/ DragEnd \/ PopupEvent \/ ThumbnailEvent
    PROVE  SystemStep
<1> USE DEF TypeOK
<1>1. ASSUME NEW w \in Windows, Raise(w) PROVE SystemStep
  <2>1. events' \in Seq({e \in Events : EventOK(e)})
    BY <1>1, NotifyType DEF Raise, EventOK, Events, Occluders
  <2> DEFINE under == [o \in Occluders |-> IF system.under[o] = w THEN None ELSE system.under[o]]
  <2>2. under \in [Occluders -> Windows \cup {None}] BY DEF Systems
  <2>3. system' = [system EXCEPT !.under = under] BY <1>1 DEF Raise
  <2> HIDE DEF under
  <2>4. system' \in Systems /\ system'.show = system.show BY <2>2, <2>3 DEF Systems
  <2> QED BY <1>1, <2>1, <2>4, SameShows DEF Raise
<1>2. ASSUME NEW w \in Windows, SwitchDesktop(w) PROVE SystemStep
  <2>1. events' \in Seq({e \in Events : EventOK(e)})
    BY <1>2, NotifyType DEF SwitchDesktop, EventOK, Events, Occluders
  <2> DEFINE desktop == [system.desktop EXCEPT ![w] = ~@]
  <2>2. desktop \in [Windows -> BOOLEAN] BY DEF Systems
  <2>3. system' = [system EXCEPT !.desktop = desktop] BY <1>2 DEF SwitchDesktop
  <2> HIDE DEF desktop
  <2>4. system' \in Systems /\ system'.show = system.show BY <2>2, <2>3 DEF Systems
  <2> QED BY <1>2, <2>1, <2>4, SameShows DEF SwitchDesktop
<1>3. ASSUME NEW o \in Occluders, DragStart(o) PROVE SystemStep
  <2>1. events' \in Seq({e \in Events : EventOK(e)})
    BY <1>3, NotifyType DEF DragStart, EventOK, Events
  <2>2. system' \in Systems /\ system'.show = system.show BY <1>3 DEF DragStart, Systems
  <2> QED BY <1>3, <2>1, <2>2, SameShows DEF DragStart
<1>4. ASSUME NEW o \in Occluders, NEW target \in Windows \cup {None}, Move(o, target)
      PROVE  SystemStep
  <2>1. events' \in Seq({e \in Events : EventOK(e)})
    BY <1>4, NotifyType DEF Move, EventOK, Events
  <2> DEFINE under == [system.under EXCEPT ![o] = target]
  <2>2. under \in [Occluders -> Windows \cup {None}] BY DEF Systems
  <2>3. system' = [system EXCEPT !.under = under] BY <1>4 DEF Move
  <2> HIDE DEF under
  <2>4. system' \in Systems /\ system'.show = system.show BY <2>2, <2>3 DEF Systems
  <2> QED BY <1>4, <2>1, <2>4, SameShows DEF Move
<1>5. ASSUME NEW o \in Occluders, NEW show \in {"normal", "iconic", "hidden"}, SetShow(o, show)
      PROVE  SystemStep
  <2>1. events' \in Seq({e \in Events : EventOK(e)})
    <3> DEFINE event == IF "iconic" \in {show, system.show[o]} THEN "minimize" ELSE "foreground"
    <3>1. event \in {"minimize", "foreground"} OBVIOUS
    <3>2. Notify(event, Other) BY <1>5 DEF SetShow
    <3> HIDE DEF event
    <3> QED BY <3>1, <3>2, NotifyType DEF EventOK, Events, Occluders
  <2> DEFINE shows == [system.show EXCEPT ![o] = show]
  <2>2. shows \in [Occluders -> Shows] BY DEF Systems, Shows
  <2>3. system' = [system EXCEPT !.show = shows] BY <1>5 DEF SetShow
  <2>4. ASSUME NEW w \in Windows, shows[w] = "normal"
        PROVE  system.show[w] = "normal" \/ ~hosts[w].shown
    <3>1. w \in Occluders /\ system.show \in [Occluders -> Shows] BY DEF Occluders, Systems
    <3>2. w = o => ~hosts[w].shown BY <1>5, <3>1, <2>4 DEF SetShow
    <3> QED BY <3>1, <3>2, <2>4
  <2> HIDE DEF shows
  <2>5. system' \in Systems /\ system'.show = shows BY <2>2, <2>3 DEF Systems
  <2> QED BY <1>5, <2>1, <2>4, <2>5 DEF SetShow, SystemStep
<1>6. ASSUME DragEnd PROVE SystemStep
  <2>1. system.dragged \in Occluders BY <1>6 DEF DragEnd, Systems
  <2>2. events' \in Seq({e \in Events : EventOK(e)})
    BY <1>6, <2>1, NotifyType DEF DragEnd, EventOK, Events
  <2>3. system' \in Systems /\ system'.show = system.show BY <1>6 DEF DragEnd, Systems
  <2> QED BY <1>6, <2>2, <2>3, SameShows DEF DragEnd
<1>7. ASSUME PopupEvent PROVE SystemStep
  <2>1. events' \in Seq({e \in Events : EventOK(e)})
    BY <1>7, NotifyType DEF PopupEvent, EventOK, Events
  <2> QED BY <1>7, <2>1, SameShows DEF PopupEvent
<1>8. ASSUME ThumbnailEvent PROVE SystemStep
  <2>1. events' \in Seq({e \in Events : EventOK(e)})
    <3>1. CASE system.thumbnails
      BY <1>8, <3>1, NotifyType DEF ThumbnailEvent, EventOK, Events
    <3>2. CASE ~system.thumbnails
      BY <1>8, <3>2, NotifyType DEF ThumbnailEvent, EventOK, Events
    <3> QED BY <3>1, <3>2
  <2>2. system' \in Systems /\ system'.show = system.show BY <1>8 DEF ThumbnailEvent, Systems
  <2> QED BY <1>8, <2>1, <2>2, SameShows DEF ThumbnailEvent
<1> QED BY <1>1, <1>2, <1>3, <1>4, <1>5, <1>6, <1>7, <1>8

\* The inductive invariant.
HooksInv == TypeOK /\ RootsAreTracked /\ NeededHooksComeBack

\* What each root window needs: the calculator c listens, or its host is behind, or a task
\* that makes the calculator listen is on its way.
Heard(c, tasks, hs, w) ==
    \/ c.globalHooks /\ c.computing # "unregister"
    \/ ~hs[w].shown
    \/ \E i \in DOMAIN tasks : Wakes(tasks[i])

LEMMA HeardMeaning ==
    /\ NeededHooksComeBack <=>
          \A w \in rootWindows : system.show[w] = "normal" => Heard(calc, calcTasks, hosts, w)
    /\ NeededHooksComeBack' <=>
          \A w \in rootWindows' : system'.show[w] = "normal" => Heard(calc', calcTasks', hosts', w)
BY DEF NeededHooksComeBack, Heard, Wakes, PendingTask

\* The calculator's windows and hooks are left alone.
SameHooks ==
    /\ calc'.states = calc.states
    /\ calc'.globalHooks = calc.globalHooks /\ calc'.computing = calc.computing

\* A step that neither posts nor runs a task.
LEMMA NothingPosted ==
    ASSUME HooksInv, SameHooks, calcTasks' = calcTasks, rootWindows' = rootWindows,
           \A w \in rootWindows : system'.show[w] = "normal" =>
               \/ ~hosts'[w].shown
               \/ system.show[w] = "normal" /\ (hosts[w].shown <=> hosts'[w].shown)
    PROVE  RootsAreTracked' /\ NeededHooksComeBack'
<1>1. RootsAreTracked' BY DEF HooksInv, RootsAreTracked, SameHooks
<1>2. ASSUME NEW w \in rootWindows', system'.show[w] = "normal"
      PROVE  Heard(calc', calcTasks', hosts', w)
  BY <1>2, HeardMeaning DEF HooksInv, Heard, SameHooks
<1> QED BY <1>1, <1>2, HeardMeaning

\* A step that posts the task t to the calculator.
LEMMA TaskPosted ==
    ASSUME HooksInv, SameHooks, NEW t \in CalcTasks, calcTasks' = Append(calcTasks, t),
           \A w \in rootWindows' : Enables(t, w) \/ (w \in rootWindows /\ ~Disables(t, w)),
           \A w \in rootWindows' : system'.show[w] = "normal" =>
               \/ Wakes(t) \/ ~hosts'[w].shown
               \/ /\ w \in rootWindows /\ system.show[w] = "normal"
                  /\ hosts[w].shown <=> hosts'[w].shown
    PROVE  /\ calcTasks' \in Seq(CalcTasks)
           /\ RootsAreTracked' /\ NeededHooksComeBack'
<1>1. calcTasks \in Seq(CalcTasks) BY DEF HooksInv, TypeOK
<1>2. ASSUME NEW w \in rootWindows' PROVE Tracked(calc'.states, calcTasks', w)
  <2>1. Enables(t, w) \/ (Tracked(calc'.states, calcTasks, w) /\ ~Disables(t, w))
    BY DEF HooksInv, RootsAreTracked, SameHooks
  <2> QED BY <1>1, <2>1, AppendTask
<1>3. ASSUME NEW w \in rootWindows', system'.show[w] = "normal"
      PROVE  Heard(calc', calcTasks', hosts', w)
  <2>1. \/ Wakes(t) \/ ~hosts'[w].shown
        \/ Heard(calc, calcTasks, hosts, w) /\ (hosts[w].shown <=> hosts'[w].shown)
    BY <1>3, HeardMeaning DEF HooksInv
  <2>2. Wakes(t) \/ (\E i \in DOMAIN calcTasks : Wakes(calcTasks[i]))
          => \E i \in DOMAIN calcTasks' : Wakes(calcTasks'[i])
    BY <1>1, AppendTask
  <2> QED BY <2>1, <2>2 DEF Heard, SameHooks
<1>4. calcTasks' \in Seq(CalcTasks) BY <1>1, AppendTask
<1> QED BY <1>2, <1>3, <1>4, HeardMeaning DEF RootsAreTracked

\* Running a task: the hooks are there afterwards, or it was no task that brings them.
LEMMA TaskRun ==
    ASSUME HooksInv, calcTasks # <<>>, calcTasks' = Tail(calcTasks),
           UNCHANGED <<system, rootWindows, hosts>>,
           calc.computing = "no", calc'.computing = "no",
           \A w \in rootWindows : w \in DOMAIN calc.states \/ Enables(Head(calcTasks), w)
               => w \in DOMAIN calc'.states \/ Disables(Head(calcTasks), w),
           \/ calc'.globalHooks
           \/ ~Wakes(Head(calcTasks)) /\ (calc'.globalHooks <=> calc.globalHooks)
           \/ /\ Head(calcTasks).task = "disable"
              /\ \A w \in rootWindows : Disables(Head(calcTasks), w) \/ w \notin DOMAIN calc.states
    PROVE  RootsAreTracked' /\ NeededHooksComeBack'
<1> DEFINE t == Head(calcTasks)
<1>1. calcTasks \in Seq(CalcTasks) BY DEF HooksInv, TypeOK
<1>2. ASSUME NEW w \in rootWindows PROVE Tracked(calc'.states, calcTasks', w)
  <2>1. Tracked(calc.states, calcTasks, w) BY DEF HooksInv, RootsAreTracked
  <2> QED BY <1>1, <2>1, RunTasks
<1>3. ASSUME NEW w \in rootWindows, system.show[w] = "normal"
      PROVE  Heard(calc', calcTasks', hosts', w)
  <2>1. Heard(calc, calcTasks, hosts, w) BY <1>3, HeardMeaning DEF HooksInv
  <2>2. CASE calc'.globalHooks BY <2>2 DEF Heard
  <2>3. CASE ~Wakes(t) /\ (calc'.globalHooks <=> calc.globalHooks)
    <3>1. (\E i \in DOMAIN calcTasks : Wakes(calcTasks[i]))
             => \E i \in DOMAIN calcTasks' : Wakes(calcTasks'[i])
      BY <1>1, <2>3, RunTasks
    <3> QED BY <2>1, <2>3, <3>1 DEF Heard
  <2>4. CASE t.task = "disable" /\ (Disables(t, w) \/ w \notin DOMAIN calc.states)
    <3>1. Tracked(calc.states, calcTasks, w) BY DEF HooksInv, RootsAreTracked
    <3> QED BY <1>1, <2>4, <3>1, RunTasks DEF Heard
  <2> QED BY <2>2, <2>3, <2>4
<1> QED BY <1>2, <1>3, HeardMeaning DEF RootsAreTracked

\* The steps of the UI thread that post a task, and those that only change what hosts know.
LEMMA EnableStep ==
    ASSUME HooksInv, NEW w \in Windows, Enable(w)
    PROVE  HooksInv'
<1> DEFINE shows == [system.show EXCEPT ![w] = "hidden"]
           under == [system.under EXCEPT ![w] = None]
           t == [task |-> "enable", hwnd |-> w]
           fresh == [shown |-> FALSE, state |-> "unknown", workspace |-> None]
<1> USE DEF HooksInv, TypeOK
<1>1. w \in Occluders /\ system.show \in [Occluders -> Shows]
        /\ system.under \in [Occluders -> Windows \cup {None}]
  BY DEF Occluders, Systems
<1>2. shows \in [Occluders -> Shows] /\ under \in [Occluders -> Windows \cup {None}]
  BY <1>1 DEF Shows
<1>3. system' = [system EXCEPT !.show = shows, !.under = under] BY <1>1 DEF Enable
<1>4. \A x \in Windows : shows[x] = "normal" => x # w /\ system.show[x] = "normal"
  BY <1>1 DEF Occluders
<1> HIDE DEF shows, under
<1>5. system' \in Systems /\ system'.show = shows BY <1>2, <1>3 DEF Systems
<1>6. fresh \in Hosts BY DEF Hosts, OcclusionStates
<1>7. hosts' = [hosts EXCEPT ![w] = fresh] BY DEF Enable
<1> HIDE DEF fresh
<1>8. hosts' \in [Windows -> Hosts] /\ \A x \in Windows : x # w => hosts'[x] = hosts[x]
  BY <1>6, <1>7
<1>9. t \in CalcTasks /\ Enables(t, w) /\ \A x : ~Disables(t, x)
  BY DEF CalcTasks, Enables, Disables
<1>10. calcTasks' = Append(calcTasks, t) /\ rootWindows' = rootWindows \cup {w} /\ SameHooks
  BY DEF Enable, SameHooks
<1>11. \A x \in rootWindows' : system'.show[x] = "normal" =>
           /\ x \in rootWindows /\ system.show[x] = "normal"
           /\ hosts[x].shown <=> hosts'[x].shown
  BY <1>4, <1>5, <1>8, <1>10
<1> HIDE DEF t
<1>12. calcTasks' \in Seq(CalcTasks) /\ RootsAreTracked' /\ NeededHooksComeBack'
  <2> HIDE DEF HooksInv, TypeOK
  <2> QED BY <1>9, <1>10, <1>11, TaskPosted
<1> QED BY <1>5, <1>8, <1>10, <1>12 DEF Enable

LEMMA DisableStep ==
    ASSUME HooksInv, NEW w \in Windows, Disable(w)
    PROVE  HooksInv'
<1> DEFINE shows == [system.show EXCEPT ![w] = "none"]
           under == [o \in Occluders |-> IF o = w \/ system.under[o] = w THEN None
                                         ELSE system.under[o]]
           dragged == IF system.dragged = w THEN None ELSE system.dragged
           t == [task |-> "disable", hwnd |-> w]
<1> USE DEF HooksInv, TypeOK
<1>1. w \in Occluders /\ system.show \in [Occluders -> Shows]
        /\ system.under \in [Occluders -> Windows \cup {None}]
        /\ dragged \in Occluders \cup {None}
  BY DEF Occluders, Systems
<1>2. shows \in [Occluders -> Shows] /\ under \in [Occluders -> Windows \cup {None}]
  BY <1>1 DEF Shows
<1>3. system' = [system EXCEPT !.show = shows, !.under = under, !.dragged = dragged]
  BY <1>1 DEF Disable
<1>4. \A x \in Windows : shows[x] = "normal" => system.show[x] = "normal"
  BY <1>1 DEF Occluders
<1> HIDE DEF shows, under, dragged
<1>5. system' \in Systems /\ system'.show = shows BY <1>1, <1>2, <1>3 DEF Systems
<1>6. events' \in Seq({e \in Events : EventOK(e)})
  BY NotifyType DEF Disable, EventOK, Events, Occluders
<1>7. t \in CalcTasks /\ \A x : x # w => ~Disables(t, x)
  BY DEF CalcTasks, Disables
<1>8. calcTasks' = Append(calcTasks, t) /\ rootWindows' = rootWindows \ {w} /\ hosts' = hosts
        /\ SameHooks
  BY DEF Disable, SameHooks
<1>9. \A x \in rootWindows' : system'.show[x] = "normal" =>
           /\ x \in rootWindows /\ system.show[x] = "normal"
           /\ hosts[x].shown <=> hosts'[x].shown
  BY <1>4, <1>5, <1>8
<1> HIDE DEF t
<1>10. calcTasks' \in Seq(CalcTasks) /\ RootsAreTracked' /\ NeededHooksComeBack'
  <2> HIDE DEF HooksInv, TypeOK
  <2> QED BY <1>7, <1>8, <1>9, TaskPosted
<1> QED BY <1>5, <1>6, <1>8, <1>10 DEF Disable

LEMMA VisibilityStep ==
    ASSUME HooksInv, NEW w \in Windows, OnWindowVisibilityChanged(w)
    PROVE  HooksInv'
<1> DEFINE told == [hosts[w] EXCEPT !.shown = ~hosts[w].shown,
                                    !.state = IF hosts[w].shown THEN "hidden" ELSE "unknown"]
           t == [task |-> "visibility", visible |-> ~hosts[w].shown]
<1> USE DEF HooksInv, TypeOK
<1>1. hosts[w] \in Hosts OBVIOUS
<1>2. told \in Hosts /\ (told.shown <=> ~hosts[w].shown) BY <1>1 DEF Hosts, OcclusionStates
<1>3. hosts' = [hosts EXCEPT ![w] = told] BY <1>1 DEF OnWindowVisibilityChanged, Hosts
<1> HIDE DEF told
<1>4. hosts' \in [Windows -> Hosts] /\ hosts'[w] = told
        /\ \A x \in Windows : x # w => hosts'[x] = hosts[x]
  BY <1>2, <1>3
<1>5. t \in CalcTasks /\ (Wakes(t) <=> ~hosts[w].shown) /\ \A x : ~Disables(t, x)
  BY <1>1 DEF CalcTasks, Disables, Wakes, Hosts
<1>6. calcTasks' = Append(calcTasks, t) /\ rootWindows' = rootWindows /\ system' = system
        /\ SameHooks
  BY DEF OnWindowVisibilityChanged, SameHooks
<1>7. \A x \in rootWindows' : \/ Wakes(t) \/ ~hosts'[x].shown
                              \/ (hosts[x].shown <=> hosts'[x].shown)
  BY <1>2, <1>4, <1>5, <1>6
<1> HIDE DEF t
<1>8. calcTasks' \in Seq(CalcTasks) /\ RootsAreTracked' /\ NeededHooksComeBack'
  <2> HIDE DEF HooksInv, TypeOK
  <2> QED BY <1>5, <1>6, <1>7, TaskPosted
<1> QED BY <1>4, <1>6, <1>8 DEF OnWindowVisibilityChanged

LEMMA MarkHosts ==
    ASSUME TypeOK, MarkNonIconicWindowsOccluded
    PROVE  hosts' \in [Windows -> Hosts] /\ \A w \in Windows : hosts'[w].shown = hosts[w].shown
<1> DEFINE later(w) == IF w \in rootWindows
                       THEN [hosts[w] EXCEPT !.state = IF IsIconic(w) THEN "hidden" ELSE "occluded"]
                       ELSE hosts[w]
<1>1. ASSUME NEW w \in Windows PROVE later(w) \in Hosts /\ later(w).shown = hosts[w].shown
  <2>1. hosts[w] \in Hosts BY DEF TypeOK
  <2> QED BY <2>1 DEF Hosts, OcclusionStates
<1>2. hosts' = [w \in Windows |-> later(w)] BY DEF MarkNonIconicWindowsOccluded
<1> HIDE DEF later
<1> QED BY <1>1, <1>2

\* Recalculations and power notices, and the hosts that are marked when the screen goes.
LEMMA ScreenStep ==
    ASSUME HooksInv,
           \/ \E code \in {"lock", "unlock"}, session \in {"current", "another", "unknown"} :
                 OnSessionChange(code, session)
           \/ \E on \in BOOLEAN : OnDisplayStateChanged(on)
           \/ OnSuspendOrResume
    PROVE  HooksInv'
<1> USE DEF HooksInv, TypeOK
<1>1. UNCHANGED <<system, rootWindows, calc, hooks, events, uiTasks>> /\ SameHooks
  BY DEF OnSessionChange, OnDisplayStateChanged, OnSuspendOrResume, SameHooks
<1>2. screen' \in [locked: BOOLEAN, on: BOOLEAN]
  BY DEF OnSessionChange, OnDisplayStateChanged, OnSuspendOrResume
<1>3. \/ hosts' = hosts /\ ForceRecalculationTask
      \/ hosts' = hosts /\ calcTasks' = Append(calcTasks, [task |-> "power"])
      \/ MarkNonIconicWindowsOccluded /\ calcTasks' = calcTasks
  BY DEF OnSessionChange, OnDisplayStateChanged, OnSuspendOrResume
<1>4. ASSUME NEW k \in {"force", "power"}, hosts' = hosts,
             calcTasks' = Append(calcTasks, [task |-> k])
      PROVE  HooksInv'
  <2>1. [task |-> k] \in CalcTasks /\ \A x : ~Disables([task |-> k], x)
    BY DEF CalcTasks, Disables
  <2>2. calcTasks' \in Seq(CalcTasks) /\ RootsAreTracked' /\ NeededHooksComeBack'
    <3> HIDE DEF HooksInv, TypeOK
    <3> QED BY <1>1, <1>4, <2>1, TaskPosted
  <2> QED BY <1>1, <1>2, <1>4, <2>2
<1>5. ASSUME MarkNonIconicWindowsOccluded, calcTasks' = calcTasks
      PROVE  HooksInv'
  <2>1. hosts' \in [Windows -> Hosts] /\ \A w \in Windows : hosts'[w].shown = hosts[w].shown
    BY <1>5, MarkHosts
  <2>2. RootsAreTracked' /\ NeededHooksComeBack'
    BY <1>1, <1>5, <2>1, NothingPosted
  <2> QED BY <1>1, <1>2, <1>5, <2>1, <2>2
<1> QED BY <1>3, <1>4, <1>5 DEF ForceRecalculationTask

LEMMA UpdateStep ==
    ASSUME HooksInv, UpdateOcclusionState
    PROVE  HooksInv'
<1> DEFINE states == Head(uiTasks).states
           later(w) == IF w \in rootWindows \cap DOMAIN states
                       THEN [hosts[w] EXCEPT !.workspace = states[w].workspace,
                                             !.state = IF hosts[w].shown THEN @ ELSE "hidden"]
                       ELSE hosts[w]
<1> USE DEF HooksInv, TypeOK
<1>1. uiTasks # <<>> /\ hosts' = [w \in Windows |-> later(w)] /\ uiTasks' = Tail(uiTasks)
        /\ UNCHANGED <<system, rootWindows, screen, calc, hooks, events, calcTasks>>
  BY DEF UpdateOcclusionState
<1>2. Head(uiTasks) \in Results /\ uiTasks' \in Seq(Results)
  <2>1. uiTasks \in Seq(Results) OBVIOUS
  <2>2. uiTasks # <<>> /\ uiTasks' = Tail(uiTasks) BY <1>1
  <2> QED BY ONLY <2>1, <2>2
<1>3. states \in StateMaps BY <1>2 DEF Results
<1>4. ASSUME NEW w \in Windows PROVE later(w) \in Hosts /\ later(w).shown = hosts[w].shown
  <2>1. hosts[w] \in Hosts OBVIOUS
  <2>2. w \in DOMAIN states => states[w] \in RootStates BY <1>3, StatesOf
  <2> HIDE DEF states
  <2> QED BY <2>1, <2>2 DEF Hosts, OcclusionStates, RootStates
<1> HIDE DEF later
<1>5. hosts' \in [Windows -> Hosts] /\ \A w \in Windows : hosts'[w].shown = hosts[w].shown
  BY <1>1, <1>4
<1>6. RootsAreTracked' /\ NeededHooksComeBack'
  BY <1>1, <1>5, NothingPosted DEF SameHooks
<1> QED BY <1>1, <1>2, <1>5, <1>6

-----------------------------------------------------------------------------
(* The calculator's thread.                                                *)

\* What the theorem needs of each task: a calculator that holds its hooks, and TaskRun's case.
TaskDone(t) ==
    /\ Held(calc', hooks')
    /\ calc'.computing = calc.computing
    /\ \A w \in rootWindows : w \in DOMAIN calc.states \/ Enables(t, w)
           => w \in DOMAIN calc'.states \/ Disables(t, w)
    /\ \/ calc'.globalHooks
       \/ ~Wakes(t) /\ (calc'.globalHooks <=> calc.globalHooks)
       \/ /\ t.task = "disable"
          /\ \A w \in rootWindows : Disables(t, w) \/ w \notin DOMAIN calc.states

LEMMA EnableTask ==
    ASSUME TypeOK, NEW w \in Windows, NEW t, Enables(t, w), EnableTracking(w)
    PROVE  TaskDone(t)
<1> DEFINE states == [x \in DOMAIN calc.states \cup {w} |->
                        IF x = w THEN [state |-> "unknown", workspace |-> None]
                        ELSE calc.states[x]]
           c == [calc EXCEPT !.states = states]
<1> USE DEF TypeOK
<1>1. calc \in Calculators /\ calc.states \in StateMaps BY DEF Calculators
<1>2. states \in StateMaps /\ DOMAIN states = DOMAIN calc.states \cup {w}
  <2>1. DOMAIN calc.states \subseteq Windows
          /\ \A x \in DOMAIN calc.states : calc.states[x] \in RootStates
    BY <1>1, StatesOf
  <2>2. states \in [DOMAIN calc.states \cup {w} -> RootStates]
    BY <2>1 DEF RootStates, OcclusionStates
  <2>3. DOMAIN calc.states \cup {w} \in SUBSET Windows BY <2>1
  <2> HIDE DEF states
  <2> QED BY <2>2, <2>3, StatesType
<1> HIDE DEF states
<1>3. Held(c, hooks) /\ c.states = states /\ c.computing = calc.computing
  BY <1>1, <1>2 DEF Calculators
<1>4. Update(Scheduled(MaybeRegisterEventHooks(c, hooks)))
  BY DEF EnableTracking, states
<1> HIDE DEF c
<1>5. /\ Held(calc', hooks') /\ calc'.globalHooks
      /\ calc'.states = states /\ calc'.computing = calc.computing
  BY <1>3, <1>4, MaybeHeld DEF Update
<1>6. \A x : Enables(t, x) => x = w BY DEF Enables
<1> QED BY <1>2, <1>5, <1>6 DEF TaskDone

LEMMA DisableTask ==
    ASSUME TypeOK, NEW w \in Windows, NEW t, Disables(t, w), DisableTracking(w)
    PROVE  TaskDone(t)
<1> DEFINE rest == [x \in DOMAIN calc.states \ {w} |-> calc.states[x]]
           c == [calc EXCEPT !.states = rest, !.moving = IF @ = w THEN None ELSE @]
<1> USE DEF TypeOK
<1>1. calc \in Calculators /\ calc.states \in StateMaps BY DEF Calculators
<1>2. rest \in StateMaps /\ DOMAIN rest = DOMAIN calc.states \ {w}
  <2>1. DOMAIN calc.states \subseteq Windows
          /\ \A x \in DOMAIN calc.states : calc.states[x] \in RootStates
    BY <1>1, StatesOf
  <2>2. rest \in [DOMAIN calc.states \ {w} -> RootStates] BY <2>1
  <2> HIDE DEF rest
  <2> QED BY <2>1, <2>2, StatesType
<1>3. /\ rest # NoState => calc' = c /\ UNCHANGED <<hooks, events>>
      /\ rest = NoState => Update(UnregisterEventHooks([c EXCEPT !.timer = FALSE], hooks))
  BY DEF DisableTracking
<1> HIDE DEF rest
<1>4. /\ Held(c, hooks) /\ c.states = rest /\ c.computing = calc.computing
      /\ c.globalHooks = calc.globalHooks
  <2> DEFINE moving == IF calc.moving = w THEN None ELSE calc.moving
  <2>1. moving \in Occluders \cup {None} BY <1>1 DEF Calculators
  <2>2. c = [calc EXCEPT !.states = rest, !.moving = moving] BY <1>1 DEF Calculators
  <2> HIDE DEF moving, c
  <2> QED BY <1>1, <1>2, <2>1, <2>2 DEF Calculators
<1> HIDE DEF c
<1>5. t.task = "disable" /\ ~Wakes(t) /\ (\A x : ~Enables(t, x))
        /\ (\A x : Disables(t, x) <=> x = w)
  BY DEF Wakes, Enables, Disables
<1>6. CASE rest # NoState
  BY <1>2, <1>3, <1>4, <1>5, <1>6 DEF TaskDone
<1>7. CASE rest = NoState
  <2> DEFINE d == [c EXCEPT !.timer = FALSE]
             h == UnregisterEventHooks(d, hooks)
  <2>1. Held(d, hooks) /\ d.states = rest BY <1>4 DEF Calculators
  <2>2. h.calc.computing = d.computing /\ d.computing = calc.computing
    BY <1>4 DEF UnregisterEventHooks, Calculators
  <2>3. calc' = h.calc /\ hooks' = h.hooks BY <1>3, <1>7 DEF Update
  <2> HIDE DEF d
  <2>4. Held(calc', hooks') /\ calc'.states = rest BY <2>1, <2>3, UnregisterHeld
  <2>5. DOMAIN calc.states \subseteq {w} BY <1>2, <1>7 DEF NoState
  <2> HIDE DEF h
  <2> QED BY <1>2, <1>5, <2>2, <2>3, <2>4, <2>5 DEF TaskDone
<1> QED BY <1>6, <1>7

LEMMA RunTaskStep ==
    ASSUME HooksInv, RunTask
    PROVE  HooksInv'
<1> DEFINE t == Head(calcTasks)
<1> USE DEF TypeOK
<1>1. TypeOK BY DEF HooksInv
<1>2. t \in CalcTasks /\ calcTasks' \in Seq(CalcTasks) /\ calcTasks # <<>>
        /\ calcTasks' = Tail(calcTasks) /\ calc.computing = "no"
        /\ UNCHANGED <<system, rootWindows, hosts, screen, uiTasks>>
  BY <1>1, RunTasks DEF RunTask
<1> HIDE DEF t
<1>3. \/ t.task = "enable" /\ EnableTracking(t.hwnd)
      \/ t.task = "disable" /\ DisableTracking(t.hwnd)
      \/ t.task = "visibility" /\ HandleVisibilityChanged(t.visible)
      \/ t.task = "force" /\ ForceRecalculation
      \/ t.task = "power" /\ HandleResumeSuspend
      \/ /\ t.task = "schedule" /\ UNCHANGED <<hooks, events>>
         /\ calc' = ScheduleOcclusionCalculationIfNeeded(calc)
  BY DEF RunTask, t
<1>4. calc \in Calculators BY <1>1
<1>5. t.task \in {"visibility", "force", "power", "schedule"} => \A w : ~Enables(t, w)
  BY DEF Enables
<1>6. ASSUME Update(Scheduled(MaybeRegisterEventHooks(calc, hooks))),
             t.task \in {"visibility", "force"}
      PROVE  TaskDone(t)
  BY <1>1, <1>5, <1>6, MaybeHeld DEF TaskDone, Update
<1>7. ASSUME hooks' = hooks, NEW b \in BOOLEAN, NEW l \in BOOLEAN,
             calc' = [calc EXCEPT !.timer = b, !.timerLost = l],
             ~Wakes(t), \A w : ~Enables(t, w)
      PROVE  TaskDone(t)
  <2>1. /\ calc' \in Calculators /\ calc'.pids = calc.pids
        /\ calc'.processHooks = calc.processHooks /\ calc'.states = calc.states
        /\ calc'.computing = calc.computing /\ calc'.globalHooks = calc.globalHooks
    BY <1>4, <1>7 DEF Calculators
  <2> QED BY <1>1, <1>7, <2>1 DEF TaskDone
<1>8. TaskDone(t) /\ events' \in Seq({e \in Events : EventOK(e)})
  <2>1. CASE t.task = "enable" /\ EnableTracking(t.hwnd)
    <3>1. t.hwnd \in Windows /\ Enables(t, t.hwnd) BY <1>2, <2>1 DEF CalcTasks, Enables
    <3> QED BY <1>1, <2>1, <3>1, EnableTask DEF EnableTracking
  <2>2. CASE t.task = "disable" /\ DisableTracking(t.hwnd)
    <3>1. t.hwnd \in Windows /\ Disables(t, t.hwnd) BY <1>2, <2>2 DEF CalcTasks, Disables
    <3>2. events' = events \/ events' = <<>> BY <2>2 DEF DisableTracking, LeftEvents
    <3>3. <<>> \in Seq({e \in Events : EventOK(e)}) OBVIOUS
    <3> QED BY <1>1, <2>2, <3>1, <3>2, <3>3, DisableTask
  <2>3. CASE t.task = "visibility" /\ HandleVisibilityChanged(t.visible)
    <3>1. CASE t.visible BY <1>1, <1>6, <2>3, <3>1 DEF HandleVisibilityChanged
    <3>2. CASE ~t.visible
      <4>1. UNCHANGED <<calc, hooks, events>> BY <2>3, <3>2 DEF HandleVisibilityChanged
      <4>2. ~Wakes(t) BY <2>3, <3>2 DEF Wakes
      <4> QED BY <1>1, <1>5, <2>3, <4>1, <4>2 DEF TaskDone
    <3> QED BY <3>1, <3>2
  <2>4. CASE t.task = "force" /\ ForceRecalculation
    BY <1>1, <1>6, <2>4 DEF ForceRecalculation
  <2>5. CASE t.task = "power" /\ HandleResumeSuspend
    <3>1. ~Wakes(t) /\ \A w : ~Enables(t, w) BY <2>5 DEF Wakes, Enables
    <3>2. (calc.timerLost \/ calc.timer) \in BOOLEAN OBVIOUS
    <3>3. calc' = [calc EXCEPT !.timer = FALSE, !.timerLost = calc.timerLost \/ calc.timer]
            /\ UNCHANGED <<hooks, events>>
      BY <1>4, <2>5 DEF HandleResumeSuspend, Calculators
    <3> QED BY <1>1, <1>7, <3>1, <3>2, <3>3
  <2>6. CASE /\ t.task = "schedule" /\ UNCHANGED <<hooks, events>>
             /\ calc' = ScheduleOcclusionCalculationIfNeeded(calc)
    <3>1. ~Wakes(t) /\ \A w : ~Enables(t, w) BY <2>6 DEF Wakes, Enables
    <3>2. calc' = [calc EXCEPT !.timer = TRUE, !.timerLost = calc.timerLost]
      BY <1>4, <2>6 DEF ScheduleOcclusionCalculationIfNeeded, Calculators
    <3>3. calc.timerLost \in BOOLEAN BY <1>4 DEF Calculators
    <3> QED BY <1>1, <1>7, <2>6, <3>1, <3>2, <3>3
  <2> QED BY <1>3, <2>1, <2>2, <2>3, <2>4, <2>5, <2>6
<1>9. RootsAreTracked' /\ NeededHooksComeBack'
  <2> HIDE DEF TypeOK
  <2> QED BY <1>2, <1>8, TaskRun DEF TaskDone, t
<1> QED BY <1>1, <1>2, <1>8, <1>9 DEF TaskDone, HooksInv

LEMMA EventStep ==
    ASSUME HooksInv, ProcessEventHookCallback
    PROVE  HooksInv'
<1> DEFINE e == Head(events)
           s == [task |-> "schedule"]
<1> USE DEF TypeOK
<1>1. TypeOK BY DEF HooksInv
<1>2. UNCHANGED <<system, rootWindows, hosts, screen, hooks>> /\ events # <<>>
        /\ events' = Tail(events)
  BY DEF ProcessEventHookCallback
<1>3. EventOK(e) /\ events' \in Seq({x \in Events : EventOK(x)})
  <2>1. events \in Seq({x \in Events : EventOK(x)}) BY <1>1
  <2>2. events # <<>> /\ events' = Tail(events) BY <1>2
  <2>3. e \in {x \in Events : EventOK(x)} /\ Tail(events) \in Seq({x \in Events : EventOK(x)})
    BY ONLY <2>1, <2>2
  <2> QED BY <2>2, <2>3
<1>4. calc \in Calculators BY <1>1
<1>5. /\ \/ calc' = [calc EXCEPT !.thumbnails = TRUE]
         \/ calc' = [calc EXCEPT !.thumbnails = FALSE]
         \/ calc' = calc
         \/ calc' = [calc EXCEPT !.moving = MovingAfter(e)]
      /\ calcTasks' = calcTasks \/ calcTasks' = Append(calcTasks, s)
      /\ uiTasks' = uiTasks \/ PostUpdate(calc.states, TRUE)
  BY DEF ProcessEventHookCallback
<1>6. MovingAfter(e) \in Occluders \cup {None}
  BY <1>3, <1>4 DEF MovingAfter, EventOK, Calculators
<1> HIDE DEF e
<1>7. Held(calc', hooks') /\ SameHooks
  BY <1>1, <1>2, <1>4, <1>5, <1>6 DEF Calculators, SameHooks
<1>8. uiTasks' \in Seq(Results)
  <2>1. [states |-> calc.states, showAll |-> TRUE] \in Results BY <1>4 DEF Results, Calculators
  <2>2. uiTasks \in Seq(Results) BY <1>1
  <2>3. \/ uiTasks' = uiTasks
        \/ uiTasks' = Append(uiTasks, [states |-> calc.states, showAll |-> TRUE])
    BY <1>5 DEF PostUpdate
  <2> QED BY ONLY <2>1, <2>2, <2>3
<1>9. \A w : ~Disables(s, w) BY DEF Disables
<1>10. s \in CalcTasks BY DEF CalcTasks
<1> HIDE DEF s
<1>11. calcTasks' \in Seq(CalcTasks) /\ RootsAreTracked' /\ NeededHooksComeBack'
  <2> HIDE DEF TypeOK
  <2>1. CASE calcTasks' = calcTasks
    <3>1. calcTasks' \in Seq(CalcTasks) BY <1>1, <2>1 DEF TypeOK
    <3> QED BY <1>2, <1>7, <2>1, <3>1, NothingPosted
  <2>2. CASE calcTasks' = Append(calcTasks, s)
    BY <1>2, <1>7, <1>9, <1>10, <2>2, TaskPosted
  <2> QED BY <1>5, <2>1, <2>2
<1> QED BY <1>1, <1>2, <1>3, <1>7, <1>8, <1>11 DEF HooksInv

\* All known windows are minimized: a root window that is not has a task on its way.
LEMMA RootLookStep ==
    ASSUME HooksInv, LookAtRootWindows
    PROVE  HooksInv'
<1> USE DEF TypeOK
<1>1. TypeOK BY DEF HooksInv
<1>2. calc.computing = "no" /\ calc \in Calculators
        /\ UNCHANGED <<system, rootWindows, hosts, screen, hooks, events, calcTasks, uiTasks>>
  BY <1>1 DEF LookAtRootWindows
<1>3. CASE calc.states = NoState
  <2>1. calc' = [calc EXCEPT !.timer = FALSE] BY <1>3 DEF LookAtRootWindows
  <2>2. Held(calc', hooks') /\ SameHooks BY <1>1, <1>2, <2>1 DEF Calculators, SameHooks
  <2>3. RootsAreTracked' /\ NeededHooksComeBack' BY <1>2, <2>2, NothingPosted
  <2> QED BY <1>1, <1>2, <2>2, <2>3 DEF HooksInv
<1>4. CASE calc.states # NoState
  <2> DEFINE states == [w \in DOMAIN calc.states |-> RootState(w)]
             all == \A w \in DOMAIN states : IsIconic(w)
             next == IF all THEN "unregister" ELSE "windows"
  <2>1. calc' = [calc EXCEPT !.timer = FALSE, !.timerLost = FALSE, !.states = states,
                             !.computing = next]
    BY <1>4 DEF LookAtRootWindows
  <2>2. DOMAIN calc.states \in SUBSET Windows BY <1>2, StatesOf DEF Calculators
  <2>3. states \in [DOMAIN calc.states -> RootStates]
    <3>1. ASSUME NEW w \in Windows PROVE RootState(w) \in RootStates
      <4>1. system.desktop[w] \in BOOLEAN BY <1>1 DEF Systems
      <4> QED BY <4>1 DEF RootState, RootStates, OcclusionStates
    <3> QED BY <2>2, <3>1
  <2> HIDE DEF states
  <2>4. states \in StateMaps /\ DOMAIN states = DOMAIN calc.states BY <2>2, <2>3, StatesType
  <2>5. /\ next \in {"unregister", "windows"}
        /\ next = "unregister" => \A w \in DOMAIN calc.states : IsIconic(w)
    BY <2>4
  <2> HIDE DEF next
  <2>6. Held(calc', hooks') /\ DOMAIN calc'.states = DOMAIN calc.states
          /\ calc'.computing = next /\ calc'.globalHooks = calc.globalHooks
    BY <1>1, <1>2, <2>1, <2>4, <2>5 DEF Calculators
  <2>7. RootsAreTracked' BY <1>2, <2>6 DEF HooksInv, RootsAreTracked, Tracked
  <2>8. ASSUME NEW w \in rootWindows, system.show[w] = "normal"
        PROVE  Heard(calc', calcTasks', hosts', w)
    <3>1. Heard(calc, calcTasks, hosts, w) BY <2>8, HeardMeaning DEF HooksInv
    <3>2. CASE next = "windows" BY <1>2, <2>6, <3>1, <3>2 DEF Heard
    <3>3. CASE next = "unregister"
      <4>1. w \notin DOMAIN calc.states BY <2>5, <2>8, <3>3 DEF IsIconic
      <4>2. Tracked(calc.states, calcTasks, w) BY DEF HooksInv, RootsAreTracked
      <4>3. PICK i \in DOMAIN calcTasks : Enables(calcTasks[i], w) BY <4>1, <4>2 DEF Tracked
      <4>4. Wakes(calcTasks[i]) BY <4>3 DEF Wakes, Enables
      <4> QED BY <1>2, <4>4 DEF Heard
    <3> QED BY <2>5, <3>2, <3>3
  <2>9. NeededHooksComeBack' BY <1>2, <2>8, HeardMeaning
  <2> QED BY <1>1, <1>2, <2>6, <2>7, <2>9 DEF HooksInv
<1> QED BY <1>3, <1>4

LEMMA AllLookStep ==
    ASSUME HooksInv, LookAtAllWindows
    PROVE  HooksInv'
<1> DEFINE c == [calc EXCEPT !.computing = "no"]
<1> USE DEF TypeOK
<1>1. TypeOK BY DEF HooksInv
<1>2. calc \in Calculators /\ calc.computing # "no"
        /\ UNCHANGED <<system, rootWindows, hosts, screen, calcTasks>>
  BY <1>1 DEF LookAtAllWindows
<1>3. /\ Held(c, hooks) /\ c.states = calc.states /\ c.thumbnails = calc.thumbnails
      /\ c.computing = "no" /\ c.globalHooks = calc.globalHooks /\ c.moving = calc.moving
  BY <1>1, <1>2 DEF Calculators
<1>4. /\ Held(calc', hooks') /\ DOMAIN calc'.states = DOMAIN calc.states
      /\ events' \in Seq({e \in Events : EventOK(e)})
      /\ uiTasks' \in Seq(Results)
      /\ \/ calc.computing = "unregister"
         \/ calc'.computing = "no" /\ calc'.globalHooks = calc.globalHooks
  <2>1. \/ /\ calc.computing = "unregister"
           /\ Update(UnregisterEventHooks(c, hooks))
           /\ LeftEvents
           /\ PostUpdate(c.states, c.thumbnails)
        \/ /\ calc.computing = "windows"
           /\ Update(FollowProcesses([c EXCEPT !.states = SeenStates(c.states)], hooks))
           /\ PostUpdate(SeenStates(c.states), c.thumbnails)
           /\ UNCHANGED events
    BY DEF LookAtAllWindows
  <2> HIDE DEF c
  <2>2. ASSUME NEW states \in StateMaps, PostUpdate(states, c.thumbnails)
        PROVE  uiTasks' \in Seq(Results)
    <3>1. [states |-> states, showAll |-> c.thumbnails] \in Results
      BY <1>2, <1>3 DEF Results, Calculators
    <3> QED BY <1>1, <2>2, <3>1 DEF PostUpdate
  <2>3. CASE /\ calc.computing = "unregister"
             /\ Update(UnregisterEventHooks(c, hooks))
             /\ LeftEvents
             /\ PostUpdate(c.states, c.thumbnails)
    <3>1. Held(calc', hooks') /\ calc'.states = c.states
      BY <1>3, <2>3, UnregisterHeld DEF Update
    <3>2. <<>> \in Seq({e \in Events : EventOK(e)}) OBVIOUS
    <3>3. c.states \in StateMaps BY <1>3 DEF Calculators
    <3> QED BY <1>1, <1>3, <2>2, <2>3, <3>1, <3>2, <3>3 DEF LeftEvents
  <2>4. CASE /\ calc.computing = "windows"
             /\ Update(FollowProcesses([c EXCEPT !.states = SeenStates(c.states)], hooks))
             /\ PostUpdate(SeenStates(c.states), c.thumbnails)
             /\ UNCHANGED events
    <3> DEFINE d == [c EXCEPT !.states = SeenStates(c.states)]
    <3>1. SeenStates(c.states) \in StateMaps /\ DOMAIN SeenStates(c.states) = DOMAIN c.states
      <4>1. DOMAIN c.states \in SUBSET Windows
              /\ \A w \in DOMAIN c.states : c.states[w] \in RootStates
        BY <1>3, StatesOf DEF Calculators
      <4>2. SeenStates(c.states) \in [DOMAIN c.states -> RootStates]
        BY <4>1 DEF SeenStates, RootStates, OcclusionStates
      <4> QED BY <4>1, <4>2, StatesType
    <3>2. Held(d, hooks) /\ d.states = SeenStates(c.states) /\ d.computing = "no"
            /\ d.globalHooks = calc.globalHooks
      BY <1>3, <3>1 DEF Calculators
    <3> HIDE DEF d
    <3>3. /\ Held(calc', hooks') /\ calc'.states = d.states
          /\ calc'.globalHooks = d.globalHooks /\ calc'.computing = d.computing
      BY <2>4, <3>2, FollowHeld DEF Update, d
    <3> QED BY <1>1, <1>3, <2>2, <2>4, <3>1, <3>2, <3>3
  <2> QED BY <2>1, <2>3, <2>4
<1>5. RootsAreTracked' BY <1>2, <1>4 DEF HooksInv, RootsAreTracked, Tracked
<1>6. ASSUME NEW w \in rootWindows, system.show[w] = "normal"
      PROVE  Heard(calc', calcTasks', hosts', w)
  <2>1. Heard(calc, calcTasks, hosts, w) BY <1>6, HeardMeaning DEF HooksInv
  <2> QED BY <1>2, <1>4, <2>1 DEF Heard
<1>7. NeededHooksComeBack' BY <1>2, <1>6, HeardMeaning
<1> QED BY <1>1, <1>2, <1>4, <1>5, <1>7 DEF HooksInv

-----------------------------------------------------------------------------
(* The invariant and the theorems.                                         *)

LEMMA HooksInit == Init => HooksInv
<1> SUFFICES ASSUME Init PROVE HooksInv OBVIOUS
<1> DEFINE pids == IF Open = {} THEN {} ELSE Processes
<1>1. Open \subseteq Windows /\ None \notin Windows BY WindowOcclusionAssumption
<1>2. pids \in SUBSET Processes OBVIOUS
<1>3. calc = [states |-> [w \in Open |-> [state |-> "visible", workspace |-> TRUE]],
              globalHooks |-> Open # {}, processHooks |-> pids, pids |-> pids,
              moving |-> None, thumbnails |-> FALSE, timer |-> FALSE, computing |-> "no",
              timerLost |-> FALSE]
        /\ hooks = [p \in Processes |-> IF p \in pids THEN 1 ELSE 0]
        /\ rootWindows = Open /\ events = <<>> /\ calcTasks = <<>> /\ uiTasks = <<>>
  BY DEF Init
<1> HIDE DEF pids
<1>4. [w \in Open |-> [state |-> "visible", workspace |-> TRUE]] \in StateMaps
  <2>1. [w \in Open |-> [state |-> "visible", workspace |-> TRUE]] \in [Open -> RootStates]
    BY DEF RootStates, OcclusionStates
  <2> QED BY <1>1, <2>1, StatesType
<1>5. Held(calc, hooks)
  <2>1. (Open # {}) \in BOOLEAN OBVIOUS
  <2>2. calc \in Calculators BY <1>2, <1>3, <1>4, <2>1 DEF Calculators
  <2>3. hooks \in [Processes -> Nat] /\ \A p \in pids : hooks[p] > 0 BY <1>2, <1>3
  <2> QED BY <1>3, <2>2, <2>3
<1>6. system \in Systems BY DEF Init, Systems, Shows
<1>7. hosts \in [Windows -> Hosts] BY DEF Init, Hosts, OcclusionStates
<1>8. screen \in [locked: BOOLEAN, on: BOOLEAN] BY DEF Init
<1>9. <<>> \in Seq({e \in Events : EventOK(e)}) /\ <<>> \in Seq(CalcTasks)
        /\ <<>> \in Seq(Results) /\ DOMAIN <<>> = {}
  OBVIOUS
<1>10. TypeOK BY <1>1, <1>3, <1>5, <1>6, <1>7, <1>8, <1>9 DEF TypeOK
<1>11. RootsAreTracked BY <1>3, <1>9 DEF RootsAreTracked, Tracked
<1>12. NeededHooksComeBack BY <1>3 DEF NeededHooksComeBack
<1> QED BY <1>10, <1>11, <1>12 DEF HooksInv

LEMMA HooksStep == HooksInv /\ [Next]_vars => HooksInv'
<1> SUFFICES ASSUME HooksInv, [Next]_vars PROVE HooksInv' OBVIOUS
<1>1. CASE UNCHANGED vars
  <2>1. TypeOK' BY <1>1 DEF vars, HooksInv, TypeOK
  <2>2. RootsAreTracked' /\ NeededHooksComeBack'
    BY <1>1, NothingPosted DEF vars, SameHooks, HooksInv
  <2> QED BY <2>1, <2>2 DEF HooksInv
<1>2. CASE TrackerStep BY <1>2, UpdateStep, VisibilityStep DEF TrackerStep
<1>3. CASE CalculatorStep
  BY <1>3, RunTaskStep, EventStep, RootLookStep, AllLookStep DEF CalculatorStep
<1>4. CASE \E w \in Windows : Enable(w) \/ Disable(w) BY <1>4, EnableStep, DisableStep
<1>5. CASE \/ \E code \in {"lock", "unlock"}, session \in {"current", "another", "unknown"} :
                 OnSessionChange(code, session)
           \/ \E on \in BOOLEAN : OnDisplayStateChanged(on)
           \/ OnSuspendOrResume
  BY <1>5, ScreenStep
<1>6. CASE \/ \E w \in Windows : Raise(w) \/ SwitchDesktop(w)
           \/ \E o \in Occluders : \/ DragStart(o)
                                   \/ \E show \in {"normal", "iconic", "hidden"} : SetShow(o, show)
                                   \/ \E target \in Windows \cup {None} : Move(o, target)
           \/ DragEnd \/ PopupEvent \/ ThumbnailEvent
  <2>1. SystemStep BY <1>6, SystemSteps DEF HooksInv
  <2>2. TypeOK' BY <2>1 DEF HooksInv, TypeOK, SystemStep, OnlySystem
  <2>3. RootsAreTracked' /\ NeededHooksComeBack'
    <3>1. SameHooks /\ calcTasks' = calcTasks /\ rootWindows' = rootWindows /\ hosts' = hosts
      BY <2>1 DEF SystemStep, OnlySystem, SameHooks
    <3>2. rootWindows \subseteq Windows BY DEF HooksInv, TypeOK
    <3> QED BY <2>1, <3>1, <3>2, NothingPosted DEF SystemStep
  <2> QED BY <2>2, <2>3 DEF HooksInv
<1> QED BY <1>1, <1>2, <1>3, <1>4, <1>5, <1>6 DEF Next

\* The invariant holds of every behaviour.
THEOREM HooksInvariant == Spec => []HooksInv
<1>1. Init => HooksInv BY HooksInit
<1>2. HooksInv /\ [Next]_vars => HooksInv' BY HooksStep
<1> QED BY <1>1, <1>2, PTL DEF Spec

\* Every process the calculator believes it listens to is hooked, so that the moves of its
\* windows are heard, however often hooks are registered for all processes, for the ones that
\* show their first window, and removed (RegisterEventHooks, UnregisterEventHooks, :618-643).
THEOREM HooksCorrect == Spec => []HooksAreHeld
<1>1. HooksInv => HooksAreHeld
  <2> SUFFICES ASSUME HooksInv PROVE HooksAreHeld OBVIOUS
  <2>1. TypeOK BY DEF HooksInv
  <2>2. calc \in Calculators /\ calc.states \in StateMaps BY <2>1 DEF TypeOK, Calculators
  <2>3. DOMAIN calc.states \subseteq Windows
          /\ \A w \in DOMAIN calc.states : calc.states[w] \in RootStates
    BY <2>2, StatesOf
  <2> QED BY <2>1, <2>2, <2>3 DEF TypeOK, HooksAreHeld, Hosts, Calculators
<1> QED BY <1>1, HooksInvariant, PTL

\* While a root window is shown the calculator listens, or what will make it listen again is on
\* its way: the removal of all hooks, when all windows it knows are minimized or gone, never
\* strands a window that was restored or opened meanwhile (ComputeNativeWindowOcclusionStatus
\* :608, DisableOcclusionTrackingForWindow, HandleVisibilityChanged :488).
THEOREM HooksComeBack == Spec => []NeededHooksComeBack
<1>1. HooksInv => NeededHooksComeBack BY DEF HooksInv
<1> QED BY <1>1, HooksInvariant, PTL
=============================================================================
