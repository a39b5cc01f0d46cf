----------------------- MODULE RenderProcessHost_proofs -----------------------
(***************************************************************************)
(* Machine-checked proofs about RenderProcessHost, for every set of frames, *)
(* views and observers and every number of inputs.                         *)
(***************************************************************************)
EXTENDS RenderProcessHost, SequenceTheorems, TLAPS

-----------------------------------------------------------------------------
(* The parts of the inductive invariant. *)

\* The outermost activation, and whether it is that of fn at one of the places ats.
Outer == stack[1]
In(fn, ats) == stack # <<>> /\ Outer.fn = fn /\ Outer.at \in ats

\* Each posted CancelProcessShutdownDelay() ends a delay that counts.
DelaysCount == are_ref_counts_disabled \/ shutdown_delays <= shutdown_delay_ref_count

\* Cleanup() nests in the callbacks of ProcessDied() only, and there it returns at once.
StackShape ==
    /\ Len(stack) <= 2
    /\ stack # <<>> => \/ In("ProcessDied", {"Start", "Exited", "Called"})
                       \/ In("Cleanup", {"Start", "Exited", "Destroyed"})
    /\ Len(stack) = 2 => /\ In("ProcessDied", {"Exited", "Called"})
                         /\ stack[2].fn = "Cleanup" /\ stack[2].at = "Start"
    /\ within_process_died_observer <=> In("ProcessDied", {"Exited", "Called"})

\* The spare host has no client; its manager is still to be told in every iteration, and
\* no teardown of it begins before DisableRefCounts().
SpareUnused ==
    /\ spare => ~referenced
    /\ ~referenced => /\ listeners = {} /\ AreAllRefCountsZero
                      /\ shutdown_delays = 0 /\ registered = {}
                      /\ destructing = <<>> /\ interrupted = <<>>
    /\ spare /\ stack # <<>> /\ Outer.fn = "Cleanup" => are_ref_counts_disabled
    /\ spare /\ stack # <<>> /\ Outer.at # "Start" => SpareManager \in Outer.todo

\* A frame host in its destructor still has its route, and is in no other destructor.
Hosts(d)    == {d[i] : i \in DOMAIN d}
Distinct(d) == \A i, j \in DOMAIN d : d[i] = d[j] => i = j

DestructorsOfRoutes ==
    /\ registered \subseteq listeners
    /\ NotFound \subseteq listeners
    /\ Distinct(destructing) /\ Distinct(interrupted)
    /\ Hosts(destructing) \cap Hosts(interrupted) = {}

\* A death interrupts destructors only when Cleanup() has found that the process counts
\* none of their frame hosts.
DestructorsKeepRoutes ==
    /\ DestructorsOfRoutes
    /\ interrupted # <<>> => stack # <<>> /\ Outer.fn = "ProcessDied"
    /\ In("ProcessDied", {"Start"}) => registered \cap NotFound = {}

\* Where there is a process to die there is a launcher.
ProcessHasLauncher ==
    /\ channel # "None" /\ invitation = "Moved" => launcher # "None"
    /\ IsInitializedAndNotDead => launcher # "None"
    /\ In("ProcessDied", {"Start"}) => launcher # "None"

\* A host that deletes itself is out of reach, and nothing refers to it.
DeletingIsOutOfReach ==
    /\ deleting_soon => /\ stack = <<>> /\ channel = "None"
                        /\ shutdown_delays = 0 /\ ~spare
    /\ deleting_soon \/ In("Cleanup", {"Exited", "Destroyed"}) =>
           listeners = {} /\ AreAllRefCountsZero

\* An observer is told of the destruction by the last iteration of the last teardown.
DestroyedOnTheWayOut ==
    \A o \in Observers :
        destroyed[o] > 0 => deleting_soon \/ (In("Cleanup", {"Destroyed"}) /\ o \notin Outer.todo)

HostInv == /\ TypeOK /\ DelaysCount /\ StackShape /\ SpareUnused /\ DestructorsKeepRoutes
           /\ ProcessHasLauncher /\ DeletingIsOutOfReach /\ DestroyedOnTheWayOut

-----------------------------------------------------------------------------
(* What the operations on the call stack do. *)

LEMMA FrameTypes ==
    /\ \A fn \in {"Cleanup", "ProcessDied"} :
           /\ Frame(fn) \in Activations
           /\ Frame(fn).fn = fn /\ Frame(fn).at = "Start" /\ Frame(fn).todo = {}
    /\ \A f \in Activations :
           /\ f.fn \in {"Cleanup", "ProcessDied"}
           /\ f.at \in {"Start", "Exited", "Called", "Destroyed"} /\ f.todo \subseteq Watchers
    /\ \A at \in {"Start", "Exited", "Called", "Destroyed"}, todo \in SUBSET Watchers :
           /\ Top \in Activations => Further(at, todo) \in Activations
           /\ Further(at, todo).fn = Top.fn
           /\ Further(at, todo).at = at /\ Further(at, todo).todo = todo
BY DEF Frame, Further, Activations

LEMMA StackFacts ==
    ASSUME NEW s \in Seq(Activations)
    PROVE  /\ Len(s) \in Nat /\ (s = <<>> <=> Len(s) = 0)
           /\ \A i \in 1..Len(s) : s[i] \in Activations
BY LenProperties, EmptySeq, ElementOfSeq

\* Append() adds an activation on top of the others.
LEMMA PushFacts ==
    ASSUME NEW s \in Seq(Activations), NEW f \in Activations
    PROVE  /\ Append(s, f) \in Seq(Activations) /\ Append(s, f) # <<>>
           /\ Len(Append(s, f)) = Len(s) + 1
           /\ Append(s, f)[Len(s) + 1] = f
           /\ \A i \in 1..Len(s) : Append(s, f)[i] = s[i]
BY AppendProperties

\* Become() replaces the top.
LEMMA UpdateFacts ==
    ASSUME NEW s \in Seq(Activations), NEW k, NEW e,
           k \in 1..Len(s) => e \in Activations
    PROVE  /\ [s EXCEPT ![k] = e] \in Seq(Activations)
           /\ Len([s EXCEPT ![k] = e]) = Len(s)
           /\ \A i \in 1..Len(s) : [s EXCEPT ![k] = e][i] = IF i = k THEN e ELSE s[i]
<1> DEFINE r == [s EXCEPT ![k] = e]
<1>1. s \in [1..Len(s) -> Activations] /\ Len(s) \in Nat /\ DOMAIN s = 1..Len(s)
  BY LenProperties
<1>2. /\ r \in [1..Len(s) -> Activations]
      /\ \A i \in 1..Len(s) : r[i] = IF i = k THEN e ELSE s[i]
  BY <1>1
<1>3. r \in Seq(Activations)
  BY <1>1, <1>2, SeqDef
<1>4. Len(r) = Len(s)
  BY <1>1, <1>2, <1>3, LenProperties
<1> QED
  BY <1>1, <1>2, <1>3, <1>4

LEMMA ReplaceFacts ==
    ASSUME NEW s \in Seq(Activations), s # <<>>, NEW f \in Activations
    PROVE  LET r == [s EXCEPT ![Len(s)] = f]
           IN  /\ r \in Seq(Activations) /\ r # <<>>
               /\ Len(r) = Len(s)
               /\ r[Len(s)] = f
               /\ \A i \in 1..Len(s) : i # Len(s) => r[i] = s[i]
<1> DEFINE n == Len(s)
           r == [s EXCEPT ![n] = f]
<1>1. n \in Nat \ {0} /\ n \in 1..n
  BY StackFacts
<1>2. /\ r \in Seq(Activations) /\ Len(r) = n
      /\ \A i \in 1..n : r[i] = IF i = n THEN f ELSE s[i]
  BY UpdateFacts
<1>3. r # <<>>
  BY <1>1, <1>2, StackFacts
<1> QED
  BY <1>1, <1>2, <1>3

\* Return removes the top.
LEMMA PopFacts ==
    ASSUME NEW s \in Seq(Activations), s # <<>>
    PROVE  LET r == SubSeq(s, 1, Len(s) - 1)
           IN  /\ r \in Seq(Activations)
               /\ Len(r) = Len(s) - 1
               /\ \A i \in 1..(Len(s) - 1) : r[i] = s[i]
<1> DEFINE n == Len(s)
           r == SubSeq(s, 1, n - 1)
<1>1. n \in Nat \ {0} /\ \A i \in 1..n : s[i] \in Activations
  BY StackFacts
<1>2. \A i \in 1..(n - 1) : s[i] \in Activations
  BY <1>1
<1>3. /\ r \in Seq(Activations)
      /\ Len(r) = IF 1 <= n - 1 THEN (n - 1) - 1 + 1 ELSE 0
      /\ \A i \in 1..((n - 1) - 1 + 1) : r[i] = s[1 + i - 1]
  <2>1. 1 \in Int /\ n - 1 \in Int
    BY <1>1
  <2> HIDE DEF n
  <2> QED
    BY <1>2, <2>1, SubSeqProperties
<1>4. Len(r) = n - 1 /\ \A i \in 1..(n - 1) : r[i] = s[i]
  <2> HIDE DEF n, r
  <2>1. (n - 1) - 1 + 1 = n - 1 /\ \A i \in Int : 1 + i - 1 = i
    BY <1>1
  <2>2. n = 1 => 1..(n - 1) = {}
    BY <1>1
  <2> QED
    BY <1>1, <1>3, <2>1, <2>2
<1> QED
  BY <1>3, <1>4

-----------------------------------------------------------------------------
(* The moves of the call stack, when it holds no more than two activations. *)

Opens(fn)  == stack = <<>> /\ Call(fn)
Nests      == Len(stack) = 1 /\ Call("Cleanup")
Becomes(f) == Len(stack) = 1 /\ f \in Activations /\ Become(f)
BecomesAndNests(f) == /\ Len(stack) = 1 /\ f \in Activations
                      /\ BecomeAndCall(f, "Cleanup")
Closes     == Len(stack) = 1 /\ Return
Unnests    == Len(stack) = 2 /\ Return

LEMMA MoveFacts ==
    ASSUME stack \in Seq(Activations)
    PROVE  /\ stack = <<>> <=> Len(stack) = 0
           /\ Len(stack) \in Nat
           /\ Len(stack) = 1 => Top = Outer
           /\ Len(stack) = 2 => Top = stack[2]
           /\ stack # <<>> => Top \in Activations /\ Outer \in Activations
           /\ \A fn \in {"Cleanup", "ProcessDied"} :
                  Opens(fn) => /\ stack' \in Seq(Activations) /\ stack' # <<>>
                               /\ Len(stack') = 1 /\ Outer' = Frame(fn)
           /\ Nests => /\ stack' \in Seq(Activations) /\ stack' # <<>>
                       /\ Len(stack') = 2 /\ Outer' = Outer /\ stack'[2] = Frame("Cleanup")
           /\ \A f \in Activations :
                  /\ Becomes(f) => /\ stack' \in Seq(Activations) /\ stack' # <<>>
                                   /\ Len(stack') = 1 /\ Outer' = f
                  /\ BecomesAndNests(f) =>
                         /\ stack' \in Seq(Activations) /\ stack' # <<>>
                         /\ Len(stack') = 2 /\ Outer' = f /\ stack'[2] = Frame("Cleanup")
           /\ Closes => stack' \in Seq(Activations) /\ stack' = <<>> /\ Len(stack') = 0
           /\ Unnests => /\ stack' \in Seq(Activations) /\ stack' # <<>>
                         /\ Len(stack') = 1 /\ Outer' = Outer
<1>1. /\ Len(stack) \in Nat /\ (stack = <<>> <=> Len(stack) = 0)
      /\ \A i \in 1..Len(stack) : stack[i] \in Activations
  BY StackFacts
<1>2. /\ Len(stack) = 1 => Top = Outer
      /\ Len(stack) = 2 => Top = stack[2]
      /\ stack # <<>> => Top \in Activations /\ Outer \in Activations
  BY <1>1 DEF Top, Outer
<1>3. Frame("Cleanup") \in Activations /\ Frame("ProcessDied") \in Activations
  BY FrameTypes
<1>4. ASSUME NEW fn \in {"Cleanup", "ProcessDied"}, Opens(fn)
      PROVE  /\ stack' \in Seq(Activations) /\ stack' # <<>>
             /\ Len(stack') = 1 /\ Outer' = Frame(fn)
  BY <1>1, <1>3, <1>4, PushFacts DEF Opens, Call, Outer
<1>5. ASSUME Nests
      PROVE  /\ stack' \in Seq(Activations) /\ stack' # <<>>
             /\ Len(stack') = 2 /\ Outer' = Outer /\ stack'[2] = Frame("Cleanup")
  <2>1. stack' = Append(stack, Frame("Cleanup")) /\ Len(stack) = 1
    BY <1>5 DEF Nests, Call
  <2>2. /\ stack' \in Seq(Activations) /\ stack' # <<>>
        /\ Len(stack') = Len(stack) + 1
        /\ stack'[Len(stack) + 1] = Frame("Cleanup")
        /\ \A i \in 1..Len(stack) : stack'[i] = stack[i]
    BY <1>3, <2>1, PushFacts
  <2>3. Len(stack) + 1 = 2 /\ 1 \in 1..Len(stack)
    BY <2>1
  <2> QED
    BY <2>2, <2>3 DEF Outer
<1>6. ASSUME NEW f \in Activations, Becomes(f)
      PROVE  /\ stack' \in Seq(Activations) /\ stack' # <<>>
             /\ Len(stack') = 1 /\ Outer' = f
  BY <1>1, <1>6, ReplaceFacts DEF Becomes, Become, Outer
<1>7. ASSUME NEW f \in Activations, BecomesAndNests(f)
      PROVE  /\ stack' \in Seq(Activations) /\ stack' # <<>>
             /\ Len(stack') = 2 /\ Outer' = f /\ stack'[2] = Frame("Cleanup")
  <2> DEFINE r == [stack EXCEPT ![Len(stack)] = f]
  <2>1. r \in Seq(Activations) /\ Len(r) = 1 /\ r[1] = f
    BY <1>1, <1>7, ReplaceFacts DEF BecomesAndNests, BecomeAndCall
  <2>2. stack' = Append(r, Frame("Cleanup"))
    BY <1>7 DEF BecomesAndNests, BecomeAndCall
  <2> HIDE DEF r
  <2>3. /\ stack' \in Seq(Activations) /\ stack' # <<>>
        /\ Len(stack') = Len(r) + 1
        /\ stack'[Len(r) + 1] = Frame("Cleanup")
        /\ \A i \in 1..Len(r) : stack'[i] = r[i]
    BY <1>3, <2>1, <2>2, PushFacts
  <2>4. Len(r) + 1 = 2 /\ 1 \in 1..Len(r)
    BY <2>1
  <2> QED
    BY <2>1, <2>3, <2>4 DEF Outer
<1>8. ASSUME Closes \/ Unnests
      PROVE  /\ stack' \in Seq(Activations)
             /\ Closes => stack' = <<>> /\ Len(stack') = 0
             /\ Unnests => stack' # <<>> /\ Len(stack') = 1 /\ Outer' = Outer
  <2> DEFINE r == SubSeq(stack, 1, Len(stack) - 1)
  <2>1. stack # <<>> /\ stack' = r
    <3>1. Len(stack) # 0
      BY <1>8 DEF Closes, Unnests
    <3> QED
      BY <1>1, <1>8, <3>1 DEF Closes, Unnests, Return
  <2>2. /\ r \in Seq(Activations) /\ Len(r) = Len(stack) - 1
        /\ \A i \in 1..(Len(stack) - 1) : r[i] = stack[i]
    BY <2>1, PopFacts
  <2>3. r = <<>> <=> Len(r) = 0
    BY <2>2, StackFacts
  <2> HIDE DEF r
  <2> QED
    BY <1>1, <1>8, <2>1, <2>2, <2>3 DEF Closes, Unnests, Outer
<1>9. \A f \in Activations :
          /\ Becomes(f) => /\ stack' \in Seq(Activations) /\ stack' # <<>>
                           /\ Len(stack') = 1 /\ Outer' = f
          /\ BecomesAndNests(f) =>
                 /\ stack' \in Seq(Activations) /\ stack' # <<>>
                 /\ Len(stack') = 2 /\ Outer' = f /\ stack'[2] = Frame("Cleanup")
  BY <1>6, <1>7
<1>a. \A fn \in {"Cleanup", "ProcessDied"} :
          Opens(fn) => /\ stack' \in Seq(Activations) /\ stack' # <<>>
                       /\ Len(stack') = 1 /\ Outer' = Frame(fn)
  BY <1>4
<1> QED
  BY <1>1, <1>2, <1>5, <1>8, <1>9, <1>a

\* Which activation is on top when a statement runs or a client calls in.
LEMMA Tops ==
    ASSUME TypeOK, StackShape
    PROVE  /\ \A at : Running("ProcessDied", at) => Len(stack) = 1 /\ Top = Outer
           /\ Running("Cleanup", "Start") =>
                  IF within_process_died_observer THEN Len(stack) = 2
                  ELSE Len(stack) = 1 /\ Top = Outer
           /\ Running("Cleanup", "Exited") \/ Running("Cleanup", "Destroyed") =>
                  Len(stack) = 1 /\ Top = Outer /\ ~within_process_died_observer
           /\ ClientRuns =>
                  \/ stack = <<>>
                  \/ Len(stack) = 1 /\ Top = Outer /\ In("ProcessDied", {"Called"})
<1>1. stack \in Seq(Activations)
  BY DEF TypeOK
<1>2. /\ stack = <<>> <=> Len(stack) = 0
      /\ Len(stack) \in Nat
      /\ Len(stack) = 1 => Top = Outer
      /\ Len(stack) = 2 => Top = stack[2]
  BY <1>1, MoveFacts
<1>3. CASE Len(stack) = 0
  BY <1>2, <1>3 DEF Running, ClientRuns
<1>4. CASE Len(stack) = 1
  BY <1>2, <1>4 DEF StackShape, Running, ClientRuns, In
<1>5. CASE Len(stack) = 2
  BY <1>2, <1>5 DEF StackShape, Running, ClientRuns, In
<1>6. Len(stack) = 0 \/ Len(stack) = 1 \/ Len(stack) = 2
  <2> DEFINE n == Len(stack)
  <2>1. n \in Nat /\ n <= 2
    BY <1>2 DEF StackShape
  <2> HIDE DEF n
  <2>2. n = 0 \/ n = 1 \/ n = 2
    BY <2>1
  <2> QED
    BY <2>2 DEF n
<1> QED
  BY <1>3, <1>4, <1>5, <1>6

\* Each move keeps the shape, when the flag moves with it.
LEMMA Shapes ==
    ASSUME TypeOK, StackShape
    PROVE  /\ UNCHANGED <<stack, within_process_died_observer>> => StackShape'
           /\ UNCHANGED within_process_died_observer =>
                  /\ \A fn \in {"Cleanup", "ProcessDied"} : Opens(fn) => StackShape'
                  /\ Nests /\ In("ProcessDied", {"Exited", "Called"}) => StackShape'
                  /\ Unnests => StackShape'
           /\ Closes /\ within_process_died_observer' = FALSE => StackShape'
           /\ \A f \in Activations :
                  /\ \/ f.fn = "ProcessDied" /\ f.at \in {"Start", "Exited", "Called"}
                     \/ f.fn = "Cleanup" /\ f.at \in {"Start", "Exited", "Destroyed"}
                  /\ (within_process_died_observer' <=>
                         f.fn = "ProcessDied" /\ f.at \in {"Exited", "Called"})
                  => /\ Becomes(f) => StackShape'
                     /\ BecomesAndNests(f) /\ within_process_died_observer' => StackShape'
<1>1. stack \in Seq(Activations) /\ within_process_died_observer \in BOOLEAN
  BY DEF TypeOK
<1>2. ASSUME UNCHANGED <<stack, within_process_died_observer>>
      PROVE  StackShape'
  BY <1>2 DEF StackShape, In, Outer
<1>3. ASSUME NEW fn \in {"Cleanup", "ProcessDied"}, Opens(fn),
             UNCHANGED within_process_died_observer
      PROVE  StackShape'
  <2>1. stack' # <<>> /\ Len(stack') = 1 /\ Outer' = Frame(fn) /\ stack = <<>>
    BY <1>1, <1>3, MoveFacts DEF Opens
  <2> QED
    BY <1>3, <2>1, FrameTypes DEF StackShape, In
<1>4. ASSUME Nests, In("ProcessDied", {"Exited", "Called"}),
             UNCHANGED within_process_died_observer
      PROVE  StackShape'
  <2>1. /\ stack' # <<>> /\ Len(stack') = 2 /\ Outer' = Outer
        /\ stack'[2] = Frame("Cleanup")
    BY <1>1, <1>4, MoveFacts
  <2> QED
    BY <1>4, <2>1, FrameTypes DEF StackShape, In
<1>5. ASSUME Unnests, UNCHANGED within_process_died_observer
      PROVE  StackShape'
  <2>1. stack' # <<>> /\ Len(stack') = 1 /\ Outer' = Outer /\ Len(stack) = 2
    BY <1>1, <1>5, MoveFacts DEF Unnests
  <2> QED
    BY <1>5, <2>1 DEF StackShape, In
<1>6. ASSUME Closes, within_process_died_observer' = FALSE
      PROVE  StackShape'
  <2>1. stack' = <<>> /\ Len(stack') = 0
    BY <1>1, <1>6, MoveFacts
  <2> QED
    BY <1>6, <2>1 DEF StackShape, In
<1>7. ASSUME NEW f \in Activations,
             \/ f.fn = "ProcessDied" /\ f.at \in {"Start", "Exited", "Called"}
             \/ f.fn = "Cleanup" /\ f.at \in {"Start", "Exited", "Destroyed"},
             within_process_died_observer' <=>
                 f.fn = "ProcessDied" /\ f.at \in {"Exited", "Called"}
      PROVE  /\ Becomes(f) => StackShape'
             /\ BecomesAndNests(f) /\ within_process_died_observer' => StackShape'
  <2>1. CASE Becomes(f)
    <3>1. stack' # <<>> /\ Len(stack') = 1 /\ Outer' = f
      BY <1>1, <2>1, MoveFacts
    <3>2. StackShape'
      BY <1>7, <3>1 DEF StackShape, In
    <3> QED
      BY <3>2
  <2>2. CASE BecomesAndNests(f) /\ within_process_died_observer'
    <3>1. /\ stack' # <<>> /\ Len(stack') = 2 /\ Outer' = f
          /\ stack'[2] = Frame("Cleanup")
      BY <1>1, <2>2, MoveFacts
    <3>2. StackShape'
      BY <1>7, <2>2, <3>1, FrameTypes DEF StackShape, In
    <3> QED
      BY <3>2
  <2> QED
    BY <2>1, <2>2
<1> QED
  BY <1>2, <1>3, <1>4, <1>5, <1>6, <1>7

-----------------------------------------------------------------------------
(* What the steps of the host do to its call stack. *)

Fine == stack' \in Seq(Activations) /\ StackShape'

\* A task, or a client inside an observer's callback, calls the host or does not.
LEMMA CallEffect ==
    ASSUME TypeOK, StackShape, UNCHANGED within_process_died_observer
    PROVE  /\ UNCHANGED stack => Fine /\ Outer' = Outer
           /\ \A fn \in {"Cleanup", "ProcessDied"} :
                  stack = <<>> /\ Call(fn) => /\ Fine /\ stack' # <<>>
                                              /\ Outer' = Frame(fn)
           /\ ClientRuns /\ Call("Cleanup") =>
                  /\ Fine /\ stack' # <<>>
                  /\ \/ stack = <<>> /\ Outer' = Frame("Cleanup")
                     \/ In("ProcessDied", {"Called"}) /\ Outer' = Outer
<1>1. stack \in Seq(Activations)
  BY DEF TypeOK
<1>2. UNCHANGED stack => Fine /\ Outer' = Outer
  BY <1>1, Shapes DEF Fine, Outer
<1>3. ASSUME NEW fn \in {"Cleanup", "ProcessDied"}, stack = <<>>, Call(fn)
      PROVE  Fine /\ stack' # <<>> /\ Outer' = Frame(fn)
  <2>1. Opens(fn)
    BY <1>3 DEF Opens
  <2> QED
    BY <1>1, <2>1, MoveFacts, Shapes DEF Fine
<1>4. ASSUME stack # <<>>, ClientRuns, Call("Cleanup")
      PROVE  Fine /\ stack' # <<>> /\ In("ProcessDied", {"Called"}) /\ Outer' = Outer
  <2>1. Nests /\ In("ProcessDied", {"Called"})
    BY <1>4, Tops DEF Nests
  <2>2. In("ProcessDied", {"Exited", "Called"})
    BY <2>1 DEF In
  <2> QED
    BY <1>1, <2>1, <2>2, MoveFacts, Shapes DEF Fine
<1> QED
  BY <1>2, <1>3, <1>4

\* An activation goes on in another place, as f.
LEMMA GoEffect ==
    ASSUME TypeOK, StackShape, Len(stack) = 1,
           NEW f \in Activations, Become(f),
           \/ f.fn = "ProcessDied" /\ f.at \in {"Start", "Exited", "Called"}
           \/ f.fn = "Cleanup" /\ f.at \in {"Start", "Exited", "Destroyed"},
           within_process_died_observer' <=>
               f.fn = "ProcessDied" /\ f.at \in {"Exited", "Called"}
    PROVE  Fine /\ stack' # <<>> /\ Outer' = f
<1>1. stack \in Seq(Activations) /\ Becomes(f)
  BY DEF TypeOK, Becomes
<1> QED
  BY <1>1, MoveFacts, Shapes DEF Fine

LEMMA ReturnEffect ==
    ASSUME TypeOK, StackShape, Return
    PROVE  /\ Len(stack) = 1 /\ within_process_died_observer' = FALSE =>
                  Fine /\ stack' = <<>>
           /\ Len(stack) = 2 /\ UNCHANGED within_process_died_observer =>
                  Fine /\ stack' # <<>> /\ Outer' = Outer
<1>1. stack \in Seq(Activations)
  BY DEF TypeOK
<1>2. ASSUME Len(stack) = 1, within_process_died_observer' = FALSE
      PROVE  Fine /\ stack' = <<>>
  <2>1. Closes
    BY <1>2 DEF Closes
  <2> QED
    BY <1>1, <1>2, <2>1, MoveFacts, Shapes DEF Fine
<1>3. ASSUME Len(stack) = 2, UNCHANGED within_process_died_observer
      PROVE  Fine /\ stack' # <<>> /\ Outer' = Outer
  <2>1. Unnests
    BY <1>3 DEF Unnests
  <2> QED
    BY <1>1, <1>3, <2>1, MoveFacts, Shapes DEF Fine
<1> QED
  BY <1>2, <1>3

\* Where a statement runs the outermost activation is, seen from Outer.
LEMMA Places ==
    ASSUME TypeOK, StackShape
    PROVE  /\ \A at \in {"Start", "Exited", "Called"} :
                  Running("ProcessDied", at) =>
                      Len(stack) = 1 /\ Top = Outer /\ In("ProcessDied", {at})
           /\ \A at \in {"Exited", "Destroyed"} :
                  Running("Cleanup", at) =>
                      /\ Len(stack) = 1 /\ Top = Outer /\ In("Cleanup", {at})
                      /\ ~within_process_died_observer
           /\ Running("Cleanup", "Start") /\ ~within_process_died_observer =>
                  Len(stack) = 1 /\ Top = Outer /\ In("Cleanup", {"Start"})
           /\ Running("Cleanup", "Start") /\ within_process_died_observer =>
                  Len(stack) = 2 /\ In("ProcessDied", {"Exited", "Called"})
           /\ stack # <<>> => Top \in Activations /\ Outer \in Activations
<1>1. stack \in Seq(Activations)
  BY DEF TypeOK
<1>2. stack # <<>> => Top \in Activations /\ Outer \in Activations
  BY <1>1, MoveFacts
<1>3. Running("Cleanup", "Start") /\ within_process_died_observer =>
          Len(stack) = 2 /\ In("ProcessDied", {"Exited", "Called"})
  BY Tops DEF StackShape
<1> QED
  BY <1>2, <1>3, Tops DEF Running, In

\* The steps of ProcessDied().
LEMMA DeathEffect ==
    ASSUME TypeOK, StackShape
    PROVE  /\ ProcessDiedStart =>
                  /\ Fine /\ In("ProcessDied", {"Start"})
                  /\ In("ProcessDied", {"Exited"})' /\ Outer'.todo = WatchersNow
           /\ \A o \in Observers :
                  /\ Running("ProcessDied", "Exited") /\ o \in Top.todo
                  /\ ObserverIsTold(o, "Called") /\ UNCHANGED within_process_died_observer
                  => /\ Fine /\ In("ProcessDied", {"Exited"})
                     /\ In("ProcessDied", {"Called"})' /\ Outer'.todo = Outer.todo \ {o}
           /\ /\ Running("ProcessDied", "Exited")
              /\ SpareManagerIsTold("Exited") /\ UNCHANGED within_process_died_observer
              => /\ Fine /\ In("ProcessDied", {"Exited"}) /\ In("ProcessDied", {"Exited"})'
                 /\ Outer'.todo = Outer.todo \ {SpareManager}
           /\ ObserverReturns => /\ Fine /\ In("ProcessDied", {"Called"})
                                 /\ In("ProcessDied", {"Exited"})'
                                 /\ Outer'.todo = Outer.todo
           /\ ProcessDiedReturns =>
                  /\ Fine /\ In("ProcessDied", {"Exited"}) /\ Top = Outer
                  /\ stack' = <<>> \/ In("Cleanup", {"Start"})'
<1>1. WatchersNow \subseteq Watchers
  BY DEF WatchersNow, Watchers
<1>2. ASSUME ProcessDiedStart
      PROVE  /\ Fine /\ In("ProcessDied", {"Start"})
             /\ In("ProcessDied", {"Exited"})' /\ Outer'.todo = WatchersNow
  <2> DEFINE f == Further("Exited", WatchersNow)
  <2>1. Len(stack) = 1 /\ Top = Outer /\ In("ProcessDied", {"Start"}) /\ Top \in Activations
    BY <1>2, Places DEF ProcessDiedStart, In
  <2>2. f \in Activations /\ f.fn = "ProcessDied" /\ f.at = "Exited" /\ f.todo = WatchersNow
    BY <1>1, <2>1, FrameTypes DEF In
  <2>3. Become(f) /\ within_process_died_observer'
    BY <1>2 DEF ProcessDiedStart, Goto
  <2> HIDE DEF f
  <2>4. Fine /\ stack' # <<>> /\ Outer' = f
    BY <2>1, <2>2, <2>3, GoEffect
  <2> QED
    BY <2>1, <2>2, <2>4 DEF In
<1>3. ASSUME NEW o \in Observers, Running("ProcessDied", "Exited"), o \in Top.todo,
             ObserverIsTold(o, "Called"), UNCHANGED within_process_died_observer
      PROVE  /\ Fine /\ In("ProcessDied", {"Exited"})
             /\ In("ProcessDied", {"Called"})' /\ Outer'.todo = Outer.todo \ {o}
  <2> DEFINE f == Further("Called", Top.todo \ {o})
  <2>1. Len(stack) = 1 /\ Top = Outer /\ In("ProcessDied", {"Exited"}) /\ Top \in Activations
    BY <1>3, Places DEF In
  <2>2. Top.todo \ {o} \subseteq Watchers
    BY <2>1, FrameTypes
  <2>3. f \in Activations /\ f.fn = "ProcessDied" /\ f.at = "Called" /\ f.todo = Outer.todo \ {o}
    BY <2>1, <2>2, FrameTypes DEF In
  <2>4. Become(f) /\ within_process_died_observer'
    BY <1>3, <2>1 DEF ObserverIsTold, Goto, StackShape, In
  <2> HIDE DEF f
  <2>5. Fine /\ stack' # <<>> /\ Outer' = f
    BY <2>1, <2>3, <2>4, GoEffect
  <2> QED
    BY <2>1, <2>3, <2>5 DEF In
<1>4. ASSUME Running("ProcessDied", "Exited"), SpareManagerIsTold("Exited"),
             UNCHANGED within_process_died_observer
      PROVE  /\ Fine /\ In("ProcessDied", {"Exited"}) /\ In("ProcessDied", {"Exited"})'
             /\ Outer'.todo = Outer.todo \ {SpareManager}
  <2> DEFINE f == Further("Exited", Top.todo \ {SpareManager})
  <2>1. Len(stack) = 1 /\ Top = Outer /\ In("ProcessDied", {"Exited"}) /\ Top \in Activations
    BY <1>4, Places DEF In
  <2>2. Top.todo \ {SpareManager} \subseteq Watchers
    BY <2>1, FrameTypes
  <2>3. /\ f \in Activations /\ f.fn = "ProcessDied" /\ f.at = "Exited"
        /\ f.todo = Outer.todo \ {SpareManager}
    BY <2>1, <2>2, FrameTypes DEF In
  <2>4. /\ Become(f) \/ BecomeAndCall(f, "Cleanup")
        /\ within_process_died_observer'
    BY <1>4, <2>1 DEF SpareManagerIsTold, StackShape, In
  <2> HIDE DEF f
  <2>5. Fine /\ stack' # <<>> /\ Outer' = f
    <3>1. CASE Become(f)
      BY <2>1, <2>3, <2>4, <3>1, GoEffect
    <3>2. CASE BecomeAndCall(f, "Cleanup")
      <4>1. stack \in Seq(Activations) /\ BecomesAndNests(f)
        BY <2>1, <2>3, <3>2 DEF TypeOK, BecomesAndNests
      <4> QED
        BY <2>3, <2>4, <4>1, MoveFacts, Shapes DEF Fine
    <3> QED
      BY <2>4, <3>1, <3>2
  <2> QED
    BY <2>1, <2>3, <2>5 DEF In
<1>5. ASSUME ObserverReturns
      PROVE  /\ Fine /\ In("ProcessDied", {"Called"})
             /\ In("ProcessDied", {"Exited"})' /\ Outer'.todo = Outer.todo
  <2> DEFINE f == Further("Exited", Top.todo)
  <2>1. Len(stack) = 1 /\ Top = Outer /\ In("ProcessDied", {"Called"}) /\ Top \in Activations
    BY <1>5, Places DEF ObserverReturns, In
  <2>2. f \in Activations /\ f.fn = "ProcessDied" /\ f.at = "Exited" /\ f.todo = Outer.todo
    BY <2>1, FrameTypes DEF In
  <2>3. Become(f) /\ within_process_died_observer'
    BY <1>5, <2>1 DEF ObserverReturns, Goto, endVars, StackShape, In
  <2> HIDE DEF f
  <2>4. Fine /\ stack' # <<>> /\ Outer' = f
    BY <2>1, <2>2, <2>3, GoEffect
  <2> QED
    BY <2>1, <2>2, <2>4 DEF In
<1>6. ASSUME ProcessDiedReturns
      PROVE  /\ Fine /\ In("ProcessDied", {"Exited"}) /\ Top = Outer
             /\ stack' = <<>> \/ In("Cleanup", {"Start"})'
  <2>1. /\ Len(stack) = 1 /\ Top = Outer /\ In("ProcessDied", {"Exited"})
        /\ within_process_died_observer' = FALSE
    BY <1>6, Places DEF ProcessDiedReturns, In
  <2>2. CASE Return
    BY <2>1, <2>2, ReturnEffect
  <2>3. CASE Become(Frame("Cleanup"))
    <3>1. Fine /\ stack' # <<>> /\ Outer' = Frame("Cleanup")
      BY <2>1, <2>3, FrameTypes, GoEffect
    <3> QED
      BY <2>1, <3>1, FrameTypes DEF In
  <2> QED
    BY <1>6, <2>2, <2>3 DEF ProcessDiedReturns
<1> QED
  BY <1>2, <1>3, <1>4, <1>5, <1>6

\* The steps of Cleanup().
LEMMA EndingEffect ==
    ASSUME TypeOK, StackShape
    PROVE  /\ CleanupLater => /\ Fine /\ In("ProcessDied", {"Exited", "Called"})
                              /\ stack' # <<>> /\ Outer' = Outer
           /\ CleanupNot => Fine /\ In("Cleanup", {"Start"}) /\ stack' = <<>>
           /\ CleanupEndsProcess => /\ Fine /\ In("Cleanup", {"Start"})
                                    /\ In("ProcessDied", {"Start"})'
           /\ CleanupStarts => /\ Fine /\ In("Cleanup", {"Start"})
                               /\ In("Cleanup", {"Exited", "Destroyed"})'
                               /\ Outer'.todo = WatchersNow
           /\ \A o \in Watchers :
                  /\ Running("Cleanup", "Exited") /\ UNCHANGED within_process_died_observer
                  /\ Goto("Exited", Top.todo \ {o})
                  => /\ Fine /\ In("Cleanup", {"Exited"}) /\ In("Cleanup", {"Exited"})'
                     /\ Outer'.todo = Outer.todo \ {o}
           /\ CleanupToldAll => /\ Fine /\ In("Cleanup", {"Exited"})
                                /\ In("Cleanup", {"Destroyed"})' /\ Outer'.todo = WatchersNow
           /\ \A o \in Watchers :
                  /\ Running("Cleanup", "Destroyed") /\ UNCHANGED within_process_died_observer
                  /\ Goto("Destroyed", Top.todo \ {o})
                  => /\ Fine /\ In("Cleanup", {"Destroyed"}) /\ In("Cleanup", {"Destroyed"})'
                     /\ Outer'.todo = Outer.todo \ {o}
           /\ CleanupReturns => /\ Fine /\ In("Cleanup", {"Destroyed"}) /\ Top = Outer
                                /\ stack' = <<>>
<1>1. WatchersNow \subseteq Watchers
  BY DEF WatchersNow, Watchers
<1>2. ASSUME CleanupLater
      PROVE  /\ Fine /\ In("ProcessDied", {"Exited", "Called"})
             /\ stack' # <<>> /\ Outer' = Outer
  BY <1>2, Places, ReturnEffect DEF CleanupLater
<1>3. ASSUME CleanupNot
      PROVE  Fine /\ In("Cleanup", {"Start"}) /\ stack' = <<>>
  <2>1. ~within_process_died_observer /\ UNCHANGED within_process_died_observer
    BY <1>3 DEF CleanupNot
  <2>2. within_process_died_observer' = FALSE
    BY <2>1 DEF TypeOK
  <2> QED
    BY <1>3, <2>1, <2>2, Places, ReturnEffect DEF CleanupNot
<1>4. \A at \in {"Exited", "Destroyed"}, todo \in SUBSET Watchers :
          /\ In("Cleanup", {"Start", "Exited", "Destroyed"}) /\ Len(stack) = 1 /\ Top = Outer
          /\ ~within_process_died_observer /\ UNCHANGED within_process_died_observer
          /\ Goto(at, todo)
          => /\ Fine /\ In("Cleanup", {at})' /\ Outer'.todo = todo
  <2> SUFFICES ASSUME NEW at \in {"Exited", "Destroyed"}, NEW todo \in SUBSET Watchers,
                      In("Cleanup", {"Start", "Exited", "Destroyed"}),
                      Len(stack) = 1, Top = Outer,
                      ~within_process_died_observer, UNCHANGED within_process_died_observer,
                      Goto(at, todo)
               PROVE  Fine /\ In("Cleanup", {at})' /\ Outer'.todo = todo
    OBVIOUS
  <2> DEFINE f == Further(at, todo)
  <2>1. Top \in Activations
    BY Places DEF In
  <2>2. f \in Activations /\ f.fn = "Cleanup" /\ f.at = at /\ f.todo = todo
    BY <2>1, FrameTypes DEF In
  <2>3. Become(f) /\ ~within_process_died_observer'
    BY DEF Goto
  <2> HIDE DEF f
  <2>4. Fine /\ stack' # <<>> /\ Outer' = f
    BY <2>2, <2>3, GoEffect
  <2> QED
    BY <2>2, <2>4 DEF In
<1>5. ASSUME CleanupEndsProcess
      PROVE  /\ Fine /\ In("Cleanup", {"Start"}) /\ In("ProcessDied", {"Start"})'
  <2>1. /\ Len(stack) = 1 /\ In("Cleanup", {"Start"})
        /\ Become(Frame("ProcessDied")) /\ ~within_process_died_observer'
    BY <1>5, Places DEF CleanupEndsProcess
  <2>2. Fine /\ stack' # <<>> /\ Outer' = Frame("ProcessDied")
    BY <2>1, FrameTypes, GoEffect
  <2> QED
    BY <2>1, <2>2, FrameTypes DEF In
<1>6. ASSUME CleanupStarts
      PROVE  /\ Fine /\ In("Cleanup", {"Start"})
             /\ In("Cleanup", {"Exited", "Destroyed"})' /\ Outer'.todo = WatchersNow
  <2>1. /\ Len(stack) = 1 /\ Top = Outer /\ In("Cleanup", {"Start"})
        /\ ~within_process_died_observer /\ UNCHANGED within_process_died_observer
    BY <1>6, Places DEF CleanupStarts
  <2>2. Goto("Exited", WatchersNow) \/ Goto("Destroyed", WatchersNow)
    BY <1>6 DEF CleanupStarts
  <2>3. In("Cleanup", {"Start", "Exited", "Destroyed"})
    BY <2>1 DEF In
  <2>4. /\ Fine /\ (In("Cleanup", {"Exited"})' \/ In("Cleanup", {"Destroyed"})')
        /\ Outer'.todo = WatchersNow
    BY <1>1, <1>4, <2>1, <2>2, <2>3
  <2> QED
    BY <2>1, <2>4 DEF In
<1>7. ASSUME NEW o \in Watchers, NEW at \in {"Exited", "Destroyed"}, Running("Cleanup", at),
             UNCHANGED within_process_died_observer, Goto(at, Top.todo \ {o})
      PROVE  /\ Fine /\ In("Cleanup", {at}) /\ In("Cleanup", {at})'
             /\ Outer'.todo = Outer.todo \ {o}
  <2>1. /\ Len(stack) = 1 /\ Top = Outer /\ In("Cleanup", {at})
        /\ ~within_process_died_observer /\ Top \in Activations
    BY <1>7, Places DEF In
  <2>2. Top.todo \ {o} \subseteq Watchers
    BY <2>1, FrameTypes
  <2>3. In("Cleanup", {"Start", "Exited", "Destroyed"})
    BY <2>1 DEF In
  <2> QED
    BY <1>4, <1>7, <2>1, <2>2, <2>3
<1>8. ASSUME CleanupToldAll
      PROVE  /\ Fine /\ In("Cleanup", {"Exited"})
             /\ In("Cleanup", {"Destroyed"})' /\ Outer'.todo = WatchersNow
  <2>1. /\ Len(stack) = 1 /\ Top = Outer /\ In("Cleanup", {"Exited"})
        /\ ~within_process_died_observer /\ UNCHANGED within_process_died_observer
        /\ Goto("Destroyed", WatchersNow)
    BY <1>8, Places DEF CleanupToldAll, endVars
  <2>2. In("Cleanup", {"Start", "Exited", "Destroyed"})
    BY <2>1 DEF In
  <2> QED
    BY <1>1, <1>4, <2>1, <2>2
<1>9. ASSUME CleanupReturns
      PROVE  Fine /\ In("Cleanup", {"Destroyed"}) /\ Top = Outer /\ stack' = <<>>
  <2>1. /\ Len(stack) = 1 /\ In("Cleanup", {"Destroyed"}) /\ Top = Outer
        /\ ~within_process_died_observer /\ UNCHANGED within_process_died_observer
        /\ Return
    BY <1>9, Places DEF CleanupReturns
  <2>2. within_process_died_observer' = FALSE
    BY <2>1 DEF TypeOK
  <2> QED
    BY <2>1, <2>2, ReturnEffect
<1>a. \A o \in Watchers :
          /\ Running("Cleanup", "Exited") /\ UNCHANGED within_process_died_observer
          /\ Goto("Exited", Top.todo \ {o})
          => /\ Fine /\ In("Cleanup", {"Exited"}) /\ In("Cleanup", {"Exited"})'
             /\ Outer'.todo = Outer.todo \ {o}
  BY <1>7
<1>b. \A o \in Watchers :
          /\ Running("Cleanup", "Destroyed") /\ UNCHANGED within_process_died_observer
          /\ Goto("Destroyed", Top.todo \ {o})
          => /\ Fine /\ In("Cleanup", {"Destroyed"}) /\ In("Cleanup", {"Destroyed"})'
             /\ Outer'.todo = Outer.todo \ {o}
  BY <1>7
<1> QED
  BY <1>2, <1>3, <1>5, <1>6, <1>8, <1>9, <1>a, <1>b

-----------------------------------------------------------------------------
(* Every step keeps the parts of the invariant. *)

LEMMA FineStep == TypeOK /\ StackShape /\ SpareUnused /\ [Next]_vars => Fine
<1> SUFFICES ASSUME TypeOK, StackShape, SpareUnused, [Next]_vars PROVE Fine
  OBVIOUS
<1> USE DEF endVars, Elsewhere
<1>1. CASE InitHost
  BY <1>1, CallEffect DEF InitHost, Launch, MayUse, MayLeave
<1>2. CASE OnProcessLaunched
  BY <1>2, CallEffect DEF OnProcessLaunched, Idle
<1>3. CASE OnProcessLaunchFailed
  BY <1>3, CallEffect DEF OnProcessLaunchFailed, Idle
<1>4. CASE OnChannelConnected
  BY <1>4, CallEffect DEF OnChannelConnected, Idle
<1>5. CASE OnChannelError
  BY <1>5, CallEffect DEF OnChannelError, ChannelInUse, Idle
<1>6. CASE FastShutdownIfPossible
  BY <1>6, CallEffect DEF FastShutdownIfPossible, Idle
<1>7. CASE ProcessDiedStart
  BY <1>7, DeathEffect
<1>8. CASE ProcessDiedTells
  <2>1. ASSUME NEW o \in Top.todo \cap Observers, ObserverIsTold(o, "Called")
        PROVE  Fine
    BY <1>8, <2>1, DeathEffect DEF ProcessDiedTells, TellExited
  <2>2. ASSUME SpareManagerIsTold("Exited")
        PROVE  Fine
    BY <1>8, <2>2, DeathEffect DEF ProcessDiedTells, TellExited
  <2> QED
    BY <1>8, <2>1, <2>2 DEF ProcessDiedTells, TellExited
<1>9. CASE ObserverReturns
  BY <1>9, DeathEffect
<1>10. CASE ProcessDiedReturns
  BY <1>10, DeathEffect
<1>11. CASE CleanupLater
  BY <1>11, EndingEffect
<1>12. CASE CleanupNot
  BY <1>12, EndingEffect
<1>13. CASE CleanupEndsProcess
  BY <1>13, EndingEffect
<1>14. CASE CleanupStarts
  BY <1>14, EndingEffect
<1>15. CASE CleanupTells
  <2>1. Running("Cleanup", "Exited") /\ UNCHANGED within_process_died_observer
    BY <1>15 DEF CleanupTells, TellExited
  <2>2. ASSUME NEW o \in Top.todo \cap Observers, ObserverIsTold(o, "Exited")
        PROVE  Fine
    BY <2>1, <2>2, EndingEffect DEF ObserverIsTold, Watchers
  <2>3. ASSUME SpareManagerIsTold("Exited")
        PROVE  Fine
    <3>1. spare /\ are_ref_counts_disabled
      BY <2>1, <2>3, Places DEF SpareManagerIsTold, LeftToTell, SpareUnused, In, TypeOK
    <3>2. Goto("Exited", Top.todo \ {SpareManager})
      BY <2>3, <3>1 DEF SpareManagerIsTold, Goto
    <3> QED
      BY <2>1, <3>2, EndingEffect DEF Watchers
  <2> QED
    BY <1>15, <2>2, <2>3 DEF CleanupTells, TellExited
<1>16. CASE CleanupToldAll
  BY <1>16, EndingEffect
<1>17. CASE CleanupDestroys
  <2>1. /\ Running("Cleanup", "Destroyed") /\ UNCHANGED within_process_died_observer
        /\ \E o \in LeftToTell : Goto("Destroyed", Top.todo \ {o})
    BY <1>17 DEF CleanupDestroys
  <2>2. LeftToTell \subseteq Watchers
    BY <2>1, Places, FrameTypes DEF LeftToTell, Running
  <2> QED
    BY <2>1, <2>2, EndingEffect
<1>18. CASE CleanupReturns
  BY <1>18, EndingEffect
<1>19. CASE Delete
  BY <1>19, CallEffect DEF Delete, Idle
<1>20. CASE \E r \in Routes : AddRoute(r)
  BY <1>20, CallEffect DEF AddRoute, MayUse, MayLeave
<1>21. CASE \E v \in Views : ViewLeaves(v)
  BY <1>21, CallEffect DEF ViewLeaves, RemoveRoute, MayUse, MayLeave
<1>22. CASE \E f \in Frames : CreateRenderFrame(f)
  BY <1>22, CallEffect DEF CreateRenderFrame, MayUse, MayLeave
<1>23. CASE \E f \in Frames : FrameDestructs(f)
  BY <1>23, CallEffect DEF FrameDestructs
<1>23u. CASE FrameUnregisters
  BY <1>23u, CallEffect DEF FrameUnregisters
<1>24. CASE FrameLeaves
  BY <1>24, CallEffect DEF FrameLeaves, RemoveRoute
<1>25. CASE IncrementKeepAliveRefCount
  BY <1>25, CallEffect DEF IncrementKeepAliveRefCount, MayUse, MayLeave
<1>26. CASE DecrementKeepAliveRefCount
  BY <1>26, CallEffect DEF DecrementKeepAliveRefCount, CleanupIfAllZero, MayUse, MayLeave
<1>27. CASE IncrementWorkerRefCount
  BY <1>27, CallEffect DEF IncrementWorkerRefCount, MayUse, MayLeave
<1>28. CASE DecrementWorkerRefCount
  BY <1>28, CallEffect DEF DecrementWorkerRefCount, CleanupIfAllZero, MayUse, MayLeave
<1>29. CASE DelayProcessShutdown
  BY <1>29, CallEffect DEF DelayProcessShutdown, MayUse, MayLeave
<1>30. CASE CancelProcessShutdownDelay
  BY <1>30, CallEffect DEF CancelProcessShutdownDelay, CleanupIfAllZero, Idle
<1>31. CASE DisableRefCounts
  BY <1>31, CallEffect DEF DisableRefCounts, Idle
<1>32. CASE WarmupSpareRenderProcessHost
  BY <1>32, CallEffect DEF WarmupSpareRenderProcessHost, Launch, Idle
<1>33. CASE MaybeTakeSpareRenderProcessHost
  BY <1>33, CallEffect DEF MaybeTakeSpareRenderProcessHost, Idle
<1>34. CASE CleanupSpareRenderProcessHost
  BY <1>34, CallEffect DEF CleanupSpareRenderProcessHost, Idle
<1>35. CASE UNCHANGED vars
  BY <1>35, CallEffect DEF vars
<1> QED
  BY <1>1, <1>2, <1>3, <1>4, <1>5, <1>6, <1>7, <1>8, <1>9, <1>10, <1>11, <1>12, <1>13,
     <1>14, <1>15, <1>16, <1>17, <1>18, <1>19, <1>20, <1>21, <1>22, <1>23, <1>23u, <1>24,
     <1>25, <1>26, <1>27, <1>28, <1>29, <1>30, <1>31, <1>32, <1>33, <1>34, <1>35 DEF Next, Process,
     Death, Ending, Client, SpareSteps

\* TypeOK in two halves, for the provers.
FlagTypes ==
    /\ is_initialized \in BOOLEAN /\ is_dead \in BOOLEAN
    /\ channel_connected \in BOOLEAN /\ sent_render_process_ready \in BOOLEAN
    /\ fast_shutdown_started \in BOOLEAN /\ deleting_soon \in BOOLEAN
    /\ within_process_died_observer \in BOOLEAN /\ delayed_cleanup_needed \in BOOLEAN
    /\ are_ref_counts_disabled \in BOOLEAN
    /\ spare \in BOOLEAN /\ referenced \in BOOLEAN

DataTypes ==
    /\ launcher \in {"None", "Starting", "Running", "Failed"}
    /\ channel \in {"None", "Paused", "Open"} /\ invitation \in {"Held", "Moved"}
    /\ keep_alive_ref_count \in Nat /\ worker_ref_count \in Nat
    /\ shutdown_delay_ref_count \in Nat /\ shutdown_delays \in Nat
    /\ listeners \subseteq Routes /\ registered \subseteq Frames /\ created \subseteq Frames
    /\ destructing \in Seq(Frames) /\ interrupted \in Seq(Frames)
    /\ inits \in Nat
    /\ exits \in [Observers -> Nat] /\ destroyed \in [Observers -> Nat]
    /\ budget \in 0..Budget

LEMMA TypeParts ==
    /\ TypeOK <=> FlagTypes /\ DataTypes /\ stack \in Seq(Activations)
    /\ TypeOK' <=> FlagTypes' /\ DataTypes' /\ stack' \in Seq(Activations)
<1>1. TypeOK <=> FlagTypes /\ DataTypes /\ stack \in Seq(Activations)
  BY DEF TypeOK, FlagTypes, DataTypes
<1>2. TypeOK' <=> FlagTypes' /\ DataTypes' /\ stack' \in Seq(Activations)
  BY DEF TypeOK, FlagTypes, DataTypes
<1> QED
  BY <1>1, <1>2

LEMMA FlagStep == FlagTypes /\ [Next]_vars => FlagTypes'
<1> SUFFICES ASSUME FlagTypes, [Next]_vars PROVE FlagTypes'
  OBVIOUS
<1> USE DEF FlagTypes, processVars, channelVars, countVars, frameVars, destructors, endVars, historyVars,
            Elsewhere
<1>1. CASE InitHost
  BY <1>1 DEF InitHost, Launch, MayUse, MayLeave
<1>2. CASE OnProcessLaunched
  BY <1>2 DEF OnProcessLaunched, Idle
<1>3. CASE OnProcessLaunchFailed
  BY <1>3 DEF OnProcessLaunchFailed, Idle
<1>4. CASE OnChannelConnected
  BY <1>4 DEF OnChannelConnected, Idle
<1>5. CASE OnChannelError
  BY <1>5 DEF OnChannelError, ChannelInUse, Idle
<1>6. CASE FastShutdownIfPossible
  BY <1>6 DEF FastShutdownIfPossible, Idle
<1>7. CASE ProcessDiedStart
  BY <1>7 DEF ProcessDiedStart, ResetIPC, ResetChannelProxy, ConnectedAfterReset
<1>8. CASE ProcessDiedTells
  BY <1>8 DEF ProcessDiedTells, TellExited, ObserverIsTold, SpareManagerIsTold
<1>9. CASE ObserverReturns
  BY <1>9 DEF ObserverReturns
<1>10. CASE ProcessDiedReturns
  BY <1>10 DEF ProcessDiedReturns, EnableSendQueue, InitializeChannelProxy,
     ConnectedAfterReset
<1>11. CASE CleanupLater
  BY <1>11 DEF CleanupLater
<1>12. CASE CleanupNot
  BY <1>12 DEF CleanupNot
<1>13. CASE CleanupEndsProcess
  BY <1>13 DEF CleanupEndsProcess
<1>14. CASE CleanupStarts
  BY <1>14 DEF CleanupStarts
<1>15. CASE CleanupTells
  BY <1>15 DEF CleanupTells, TellExited, ObserverIsTold, SpareManagerIsTold
<1>16. CASE CleanupToldAll
  BY <1>16 DEF CleanupToldAll
<1>17. CASE CleanupDestroys
  BY <1>17 DEF CleanupDestroys
<1>18. CASE CleanupReturns
  BY <1>18 DEF CleanupReturns, ResetIPC, ResetChannelProxy, ConnectedAfterReset
<1>19. CASE Delete
  BY <1>19 DEF Delete, Idle
<1>20. CASE \E r \in Routes : AddRoute(r)
  BY <1>20 DEF AddRoute, MayUse, MayLeave, Routes
<1>21. CASE \E v \in Views : ViewLeaves(v)
  BY <1>21 DEF ViewLeaves, RemoveRoute, MayUse, MayLeave
<1>22. CASE \E f \in Frames : CreateRenderFrame(f)
  BY <1>22 DEF CreateRenderFrame, MayUse, MayLeave
<1>23. CASE \E f \in Frames : FrameDestructs(f)
  BY <1>23 DEF FrameDestructs
<1>23u. CASE FrameUnregisters
  BY <1>23u DEF FrameUnregisters
<1>24. CASE FrameLeaves
  BY <1>24 DEF FrameLeaves, RemoveRoute
<1>25. CASE IncrementKeepAliveRefCount
  BY <1>25 DEF IncrementKeepAliveRefCount, MayUse, MayLeave
<1>26. CASE DecrementKeepAliveRefCount
  BY <1>26 DEF DecrementKeepAliveRefCount, CleanupIfAllZero, MayUse, MayLeave
<1>27. CASE IncrementWorkerRefCount
  BY <1>27 DEF IncrementWorkerRefCount, MayUse, MayLeave
<1>28. CASE DecrementWorkerRefCount
  BY <1>28 DEF DecrementWorkerRefCount, CleanupIfAllZero, MayUse, MayLeave
<1>29. CASE DelayProcessShutdown
  BY <1>29 DEF DelayProcessShutdown, MayUse, MayLeave
<1>30. CASE CancelProcessShutdownDelay
  BY <1>30 DEF CancelProcessShutdownDelay, CleanupIfAllZero, Idle
<1>31. CASE DisableRefCounts
  BY <1>31 DEF DisableRefCounts, Idle
<1>32. CASE WarmupSpareRenderProcessHost
  BY <1>32 DEF WarmupSpareRenderProcessHost, Launch, Idle
<1>33. CASE MaybeTakeSpareRenderProcessHost
  BY <1>33 DEF MaybeTakeSpareRenderProcessHost, Idle
<1>34. CASE CleanupSpareRenderProcessHost
  BY <1>34 DEF CleanupSpareRenderProcessHost, Idle
<1>35. CASE UNCHANGED vars
  BY <1>35 DEF vars
<1> QED
  BY <1>1, <1>2, <1>3, <1>4, <1>5, <1>6, <1>7, <1>8, <1>9, <1>10, <1>11, <1>12, <1>13,
     <1>14, <1>15, <1>16, <1>17, <1>18, <1>19, <1>20, <1>21, <1>22, <1>23, <1>23u, <1>24,
     <1>25, <1>26, <1>27, <1>28, <1>29, <1>30, <1>31, <1>32, <1>33, <1>34, <1>35 DEF Next, Process,
     Death, Ending, Client, SpareSteps

\* The counts that CancelProcessShutdownDelay() takes back were added.
LEMMA DataStep == DataTypes /\ DelaysCount /\ [Next]_vars => DataTypes' /\ DelaysCount'
<1> SUFFICES ASSUME DataTypes, DelaysCount, [Next]_vars PROVE DataTypes' /\ DelaysCount'
  OBVIOUS
<1> USE BoundAssumption
    DEF DataTypes, DelaysCount, processVars, channelVars, countVars, frameVars, destructors, endVars,
        historyVars, Elsewhere, Spend
<1>1. CASE InitHost
  BY <1>1 DEF InitHost, Launch, MayUse, MayLeave
<1>2. CASE OnProcessLaunched
  BY <1>2 DEF OnProcessLaunched, Idle
<1>3. CASE OnProcessLaunchFailed
  BY <1>3 DEF OnProcessLaunchFailed, Idle
<1>4. CASE OnChannelConnected
  BY <1>4 DEF OnChannelConnected, Idle
<1>5. CASE OnChannelError
  BY <1>5 DEF OnChannelError, ChannelInUse, Idle
<1>6. CASE FastShutdownIfPossible
  BY <1>6 DEF FastShutdownIfPossible, Idle
<1>7. CASE ProcessDiedStart
  BY <1>7 DEF ProcessDiedStart, ResetIPC, ResetChannelProxy, ConnectedAfterReset
<1>8. CASE ProcessDiedTells
  <2>1. exits' \in [Observers -> Nat] /\ created' \subseteq Frames
    <3>1. CASE UNCHANGED <<created, exits>>
      BY <3>1
    <3>2. CASE \E o \in Observers : /\ exits' = [exits EXCEPT ![o] = @ + 1]
                                     /\ created' = {f \in created : Group[f] # o}
      BY <3>2
    <3> QED
      BY <1>8, <3>1, <3>2 DEF ProcessDiedTells, TellExited, ObserverIsTold, SpareManagerIsTold
  <2> QED
    BY <1>8, <2>1 DEF ProcessDiedTells, TellExited
<1>9. CASE ObserverReturns
  BY <1>9 DEF ObserverReturns
<1>10. CASE ProcessDiedReturns
  BY <1>10 DEF ProcessDiedReturns, EnableSendQueue, InitializeChannelProxy,
     ConnectedAfterReset
<1>11. CASE CleanupLater
  BY <1>11 DEF CleanupLater
<1>12. CASE CleanupNot
  BY <1>12 DEF CleanupNot
<1>13. CASE CleanupEndsProcess
  BY <1>13 DEF CleanupEndsProcess
<1>14. CASE CleanupStarts
  BY <1>14 DEF CleanupStarts
<1>15. CASE CleanupTells
  <2>1. exits' \in [Observers -> Nat] /\ created' \subseteq Frames
    <3>1. CASE UNCHANGED <<created, exits>>
      BY <3>1
    <3>2. CASE \E o \in Observers : /\ exits' = [exits EXCEPT ![o] = @ + 1]
                                     /\ created' = {f \in created : Group[f] # o}
      BY <3>2
    <3> QED
      BY <1>15, <3>1, <3>2 DEF CleanupTells, TellExited, ObserverIsTold, SpareManagerIsTold
  <2> QED
    BY <1>15, <2>1 DEF CleanupTells, TellExited
<1>16. CASE CleanupToldAll
  BY <1>16 DEF CleanupToldAll
<1>17. CASE CleanupDestroys
  <2>1. destroyed' \in [Observers -> Nat]
    <3>1. PICK o : destroyed' = IF o = SpareManager THEN destroyed
                                ELSE [destroyed EXCEPT ![o] = @ + 1]
      BY <1>17 DEF CleanupDestroys
    <3>2. \A p \in Observers : [destroyed EXCEPT ![o] = @ + 1][p] \in Nat
      OBVIOUS
    <3>3. [destroyed EXCEPT ![o] = @ + 1] \in [Observers -> Nat]
      BY <3>2
    <3> QED
      BY <3>1, <3>3
  <2> QED
    BY <1>17, <2>1 DEF CleanupDestroys
<1>18. CASE CleanupReturns
  BY <1>18 DEF CleanupReturns, ResetIPC, ResetChannelProxy, ConnectedAfterReset
<1>19. CASE Delete
  BY <1>19 DEF Delete, Idle
<1>20. CASE \E r \in Routes : AddRoute(r)
  BY <1>20 DEF AddRoute, MayUse, MayLeave, Routes
<1>21. CASE \E v \in Views : ViewLeaves(v)
  BY <1>21 DEF ViewLeaves, RemoveRoute, MayUse, MayLeave
<1>22. CASE \E f \in Frames : CreateRenderFrame(f)
  BY <1>22 DEF CreateRenderFrame, MayUse, MayLeave
<1>23. CASE \E f \in Frames : FrameDestructs(f)
  <2>1. PICK f \in Frames : FrameDestructs(f)
    BY <1>23
  <2>2. destructing' \in Seq(Frames)
    BY <2>1, AppendProperties DEF FrameDestructs
  <2> QED
    BY <2>1, <2>2 DEF FrameDestructs
<1>23u. CASE FrameUnregisters
  BY <1>23u DEF FrameUnregisters
<1>24. CASE FrameLeaves
  <2> DEFINE n == Len(destructing)
  <2>1. destructing # <<>> /\ destructing' = SubSeq(destructing, 1, n - 1)
    BY <1>24 DEF FrameLeaves, HasUnregistered
  <2>2. n \in Nat \ {0} /\ \A i \in 1..n : destructing[i] \in Frames
    BY <2>1, LenProperties, EmptySeq, ElementOfSeq
  <2>3. 1 \in Int /\ n - 1 \in Int /\ \A i \in 1..(n - 1) : destructing[i] \in Frames
    BY <2>2
  <2> HIDE DEF n
  <2>4. destructing' \in Seq(Frames)
    BY <2>1, <2>3, SubSeqProperties
  <2> QED
    BY <1>24, <2>4 DEF FrameLeaves, RemoveRoute
<1>25. CASE IncrementKeepAliveRefCount
  BY <1>25 DEF IncrementKeepAliveRefCount, MayUse, MayLeave
<1>26. CASE DecrementKeepAliveRefCount
  BY <1>26 DEF DecrementKeepAliveRefCount, CleanupIfAllZero, MayUse, MayLeave
<1>27. CASE IncrementWorkerRefCount
  BY <1>27 DEF IncrementWorkerRefCount, MayUse, MayLeave
<1>28. CASE DecrementWorkerRefCount
  BY <1>28 DEF DecrementWorkerRefCount, CleanupIfAllZero, MayUse, MayLeave
<1>29. CASE DelayProcessShutdown
  BY <1>29 DEF DelayProcessShutdown, MayUse, MayLeave
<1>30. CASE CancelProcessShutdownDelay
  BY <1>30 DEF CancelProcessShutdownDelay, CleanupIfAllZero, Idle
<1>31. CASE DisableRefCounts
  BY <1>31 DEF DisableRefCounts, Idle
<1>32. CASE WarmupSpareRenderProcessHost
  BY <1>32 DEF WarmupSpareRenderProcessHost, Launch, Idle
<1>33. CASE MaybeTakeSpareRenderProcessHost
  BY <1>33 DEF MaybeTakeSpareRenderProcessHost, Idle
<1>34. CASE CleanupSpareRenderProcessHost
  BY <1>34 DEF CleanupSpareRenderProcessHost, Idle
<1>35. CASE UNCHANGED vars
  BY <1>35 DEF vars
<1> QED
  BY <1>1, <1>2, <1>3, <1>4, <1>5, <1>6, <1>7, <1>8, <1>9, <1>10, <1>11, <1>12, <1>13,
     <1>14, <1>15, <1>16, <1>17, <1>18, <1>19, <1>20, <1>21, <1>22, <1>23, <1>23u, <1>24,
     <1>25, <1>26, <1>27, <1>28, <1>29, <1>30, <1>31, <1>32, <1>33, <1>34, <1>35 DEF Next, Process,
     Death, Ending, Client, SpareSteps

LEMMA TypeStep ==
    TypeOK /\ DelaysCount /\ StackShape /\ SpareUnused /\ [Next]_vars => TypeOK' /\ DelaysCount'
BY FineStep, TypeParts, FlagStep, DataStep DEF Fine

\* The two halves of SpareUnused: what the spare host is, and what is on the stack then.
SpareIsFresh ==
    /\ spare => ~referenced
    /\ ~referenced => /\ listeners = {} /\ AreAllRefCountsZero
                      /\ shutdown_delays = 0 /\ registered = {}
                      /\ destructing = <<>> /\ interrupted = <<>>

SpareIsWatched ==
    /\ spare /\ stack # <<>> /\ Outer.fn = "Cleanup" => are_ref_counts_disabled
    /\ spare /\ stack # <<>> /\ Outer.at # "Start" => SpareManager \in Outer.todo

LEMMA FreshStep == TypeOK /\ SpareIsFresh /\ [Next]_vars => SpareIsFresh'
<1> SUFFICES ASSUME TypeOK, SpareIsFresh, [Next]_vars PROVE SpareIsFresh'
  OBVIOUS
<1>t. /\ keep_alive_ref_count \in Nat /\ worker_ref_count \in Nat
      /\ shutdown_delay_ref_count \in Nat /\ shutdown_delays \in Nat
      /\ spare \in BOOLEAN /\ referenced \in BOOLEAN /\ listeners \subseteq Routes
  BY DEF TypeOK
<1> USE DEF SpareIsFresh, AreAllRefCountsZero, countVars, frameVars, destructors, historyVars, Elsewhere
<1>1. CASE InitHost
  BY <1>1, <1>t DEF InitHost, Launch, MayUse, MayLeave
<1>2. CASE OnProcessLaunched
  BY <1>2, <1>t DEF OnProcessLaunched, Idle
<1>3. CASE OnProcessLaunchFailed
  BY <1>3, <1>t DEF OnProcessLaunchFailed, Idle
<1>4. CASE OnChannelConnected
  BY <1>4, <1>t DEF OnChannelConnected, Idle
<1>5. CASE OnChannelError
  BY <1>5, <1>t DEF OnChannelError, ChannelInUse, Idle
<1>6. CASE FastShutdownIfPossible
  BY <1>6, <1>t DEF FastShutdownIfPossible, Idle
<1>7. CASE ProcessDiedStart
  BY <1>7, <1>t DEF ProcessDiedStart, ResetIPC, ResetChannelProxy, ConnectedAfterReset
<1>8. CASE ProcessDiedTells
  <2>1. spare' => spare
    BY <1>8 DEF ProcessDiedTells, TellExited, ObserverIsTold, SpareManagerIsTold
  <2>2. UNCHANGED <<countVars, shutdown_delays, listeners, destructors, referenced>>
    BY <1>8 DEF ProcessDiedTells, TellExited
  <2> QED
    BY <2>1, <2>2
<1>9. CASE ObserverReturns
  BY <1>9, <1>t DEF ObserverReturns
<1>10. CASE ProcessDiedReturns
  BY <1>10, <1>t DEF ProcessDiedReturns, EnableSendQueue, InitializeChannelProxy,
     ConnectedAfterReset
<1>11. CASE CleanupLater
  BY <1>11, <1>t DEF CleanupLater
<1>12. CASE CleanupNot
  BY <1>12, <1>t DEF CleanupNot
<1>13. CASE CleanupEndsProcess
  BY <1>13, <1>t DEF CleanupEndsProcess
<1>14. CASE CleanupStarts
  BY <1>14, <1>t DEF CleanupStarts
<1>15. CASE CleanupTells
  <2>1. spare' => spare
    BY <1>15 DEF CleanupTells, TellExited, ObserverIsTold, SpareManagerIsTold
  <2>2. UNCHANGED <<countVars, shutdown_delays, listeners, destructors, referenced>>
    BY <1>15 DEF CleanupTells, TellExited
  <2> QED
    BY <2>1, <2>2
<1>16. CASE CleanupToldAll
  BY <1>16, <1>t DEF CleanupToldAll
<1>17. CASE CleanupDestroys
  BY <1>17, <1>t DEF CleanupDestroys
<1>18. CASE CleanupReturns
  BY <1>18, <1>t DEF CleanupReturns, ResetIPC, ResetChannelProxy, ConnectedAfterReset
<1>19. CASE Delete
  BY <1>19, <1>t DEF Delete, Idle
<1>20. CASE \E r \in Routes : AddRoute(r)
  BY <1>20, <1>t DEF AddRoute, MayUse, MayLeave
<1>21. CASE \E v \in Views : ViewLeaves(v)
  BY <1>21, <1>t DEF ViewLeaves, RemoveRoute, MayUse, MayLeave
<1>22. CASE \E f \in Frames : CreateRenderFrame(f)
  BY <1>22, <1>t DEF CreateRenderFrame, MayUse, MayLeave
<1>23. CASE \E f \in Frames : FrameDestructs(f)
  BY <1>23, <1>t DEF FrameDestructs
<1>23u. CASE FrameUnregisters
  BY <1>23u, <1>t DEF FrameUnregisters
<1>24. CASE FrameLeaves
  BY <1>24, <1>t DEF FrameLeaves, RemoveRoute
<1>25. CASE IncrementKeepAliveRefCount
  BY <1>25, <1>t DEF IncrementKeepAliveRefCount, MayUse, MayLeave
<1>26. CASE DecrementKeepAliveRefCount
  BY <1>26, <1>t DEF DecrementKeepAliveRefCount, CleanupIfAllZero, MayUse, MayLeave
<1>27. CASE IncrementWorkerRefCount
  BY <1>27, <1>t DEF IncrementWorkerRefCount, MayUse, MayLeave
<1>28. CASE DecrementWorkerRefCount
  BY <1>28, <1>t DEF DecrementWorkerRefCount, CleanupIfAllZero, MayUse, MayLeave
<1>29. CASE DelayProcessShutdown
  BY <1>29, <1>t DEF DelayProcessShutdown, MayUse, MayLeave
<1>30. CASE CancelProcessShutdownDelay
  BY <1>30, <1>t DEF CancelProcessShutdownDelay, CleanupIfAllZero, Idle
<1>31. CASE DisableRefCounts
  BY <1>31, <1>t DEF DisableRefCounts, Idle
<1>32. CASE WarmupSpareRenderProcessHost
  BY <1>32, <1>t DEF WarmupSpareRenderProcessHost, Launch, Idle
<1>33. CASE MaybeTakeSpareRenderProcessHost
  BY <1>33, <1>t DEF MaybeTakeSpareRenderProcessHost, Idle
<1>34. CASE CleanupSpareRenderProcessHost
  BY <1>34, <1>t DEF CleanupSpareRenderProcessHost, Idle
<1>35. CASE UNCHANGED vars
  BY <1>35, <1>t DEF vars
<1> QED
  BY <1>1, <1>2, <1>3, <1>4, <1>5, <1>6, <1>7, <1>8, <1>9, <1>10, <1>11, <1>12, <1>13,
     <1>14, <1>15, <1>16, <1>17, <1>18, <1>19, <1>20, <1>21, <1>22, <1>23, <1>23u, <1>24,
     <1>25, <1>26, <1>27, <1>28, <1>29, <1>30, <1>31, <1>32, <1>33, <1>34, <1>35 DEF Next, Process,
     Death, Ending, Client, SpareSteps

LEMMA WatchedStep ==
    TypeOK /\ StackShape /\ SpareUnused /\ [Next]_vars => SpareIsWatched'
<1> SUFFICES ASSUME TypeOK, StackShape, SpareUnused, [Next]_vars PROVE SpareIsWatched'
  OBVIOUS
<1>h. SpareIsWatched /\ SpareIsFresh
  BY DEF SpareUnused, SpareIsWatched, SpareIsFresh
<1>t. /\ spare \in BOOLEAN /\ SpareManager \in Watchers
  BY DEF TypeOK, Watchers
<1> USE FrameTypes DEF SpareIsWatched, endVars, countVars, Elsewhere
<1>1. CASE InitHost
  BY <1>1, <1>h, CallEffect DEF InitHost, Launch, MayUse, MayLeave
<1>2. CASE OnProcessLaunched
  BY <1>2, <1>h, CallEffect DEF OnProcessLaunched, Idle
<1>3. CASE OnProcessLaunchFailed
  BY <1>3, <1>h, <1>t, CallEffect DEF OnProcessLaunchFailed, Idle
<1>4. CASE OnChannelConnected
  BY <1>4, <1>h, CallEffect DEF OnChannelConnected, Idle
<1>5. CASE OnChannelError
  BY <1>5, <1>h, <1>t, CallEffect DEF OnChannelError, ChannelInUse, Idle
<1>6. CASE FastShutdownIfPossible
  BY <1>6, <1>h, <1>t, CallEffect DEF FastShutdownIfPossible, Idle
<1>7. CASE ProcessDiedStart
  BY <1>7, <1>h, DeathEffect DEF ProcessDiedStart, ResetIPC, ResetChannelProxy,
     ConnectedAfterReset, In, WatchersNow
<1>8. CASE ProcessDiedTells
  <2>1. ASSUME NEW o \in Top.todo \cap Observers, ObserverIsTold(o, "Called")
        PROVE  SpareIsWatched'
    <3>1. Running("ProcessDied", "Exited") /\ UNCHANGED <<endVars, countVars>>
      BY <1>8 DEF ProcessDiedTells, TellExited
    <3>2. /\ In("ProcessDied", {"Exited"})
          /\ In("ProcessDied", {"Called"})' /\ Outer'.todo = Outer.todo \ {o}
      BY <2>1, <3>1, DeathEffect
    <3>3. UNCHANGED spare /\ o # SpareManager
      BY <2>1, ObserverAssumption DEF ObserverIsTold
    <3> QED
      BY <1>h, <3>2, <3>3 DEF In
  <2>2. ASSUME SpareManagerIsTold("Exited")
        PROVE  SpareIsWatched'
    BY <2>2 DEF SpareManagerIsTold
  <2> QED
    BY <1>8, <2>1, <2>2 DEF ProcessDiedTells, TellExited
<1>9. CASE ObserverReturns
  BY <1>9, <1>h, DeathEffect DEF ObserverReturns, In, WatchersNow
<1>10. CASE ProcessDiedReturns
  BY <1>10, <1>h, DeathEffect DEF ProcessDiedReturns, EnableSendQueue,
     InitializeChannelProxy, ConnectedAfterReset, In, LeftToTell
<1>11. CASE CleanupLater
  BY <1>11, <1>h, EndingEffect DEF CleanupLater, In, WatchersNow
<1>12. CASE CleanupNot
  BY <1>12, <1>h, EndingEffect DEF CleanupNot, In, WatchersNow
<1>13. CASE CleanupEndsProcess
  BY <1>13, <1>h, EndingEffect DEF CleanupEndsProcess, In, WatchersNow
<1>14. CASE CleanupStarts
  BY <1>14, <1>h, EndingEffect DEF CleanupStarts, In, WatchersNow
<1>15. CASE CleanupTells
  <2>1. Running("Cleanup", "Exited") /\ UNCHANGED <<within_process_died_observer, countVars>>
    BY <1>15 DEF CleanupTells, TellExited
  <2>2. ASSUME NEW o \in Top.todo \cap Observers, ObserverIsTold(o, "Exited")
        PROVE  SpareIsWatched'
    BY <1>h, <2>1, <2>2, EndingEffect, ObserverAssumption DEF ObserverIsTold, Watchers, In
  <2>3. ASSUME SpareManagerIsTold("Exited")
        PROVE  SpareIsWatched'
    BY <2>3 DEF SpareManagerIsTold
  <2> QED
    BY <1>15, <2>2, <2>3 DEF CleanupTells, TellExited
<1>16. CASE CleanupToldAll
  BY <1>16, <1>h, EndingEffect DEF CleanupToldAll, In, WatchersNow
<1>17. CASE CleanupDestroys
  <2>1. /\ Running("Cleanup", "Destroyed")
        /\ UNCHANGED <<within_process_died_observer, countVars>>
    BY <1>17 DEF CleanupDestroys
  <2>2. PICK o \in LeftToTell : /\ Goto("Destroyed", Top.todo \ {o})
                                /\ spare' = (spare /\ o # SpareManager)
    BY <1>17 DEF CleanupDestroys
  <2>3. o \in Watchers
    BY <2>1, <2>2, Places DEF LeftToTell, Running
  <2>4. /\ In("Cleanup", {"Destroyed"}) /\ In("Cleanup", {"Destroyed"})'
        /\ Outer'.todo = Outer.todo \ {o}
    BY <2>1, <2>2, <2>3, EndingEffect
  <2>5. spare' => spare /\ o # SpareManager
    BY <2>2
  <2> QED
    BY <1>h, <2>1, <2>4, <2>5 DEF In
<1>18. CASE CleanupReturns
  BY <1>18, <1>h, EndingEffect DEF CleanupReturns, ResetIPC, ResetChannelProxy,
     ConnectedAfterReset, In, WatchersNow
<1>19. CASE Delete
  BY <1>19, <1>h, CallEffect DEF Delete, Idle
<1>20. CASE \E r \in Routes : AddRoute(r)
  BY <1>20, <1>h, CallEffect DEF AddRoute, MayUse, MayLeave
<1>21. CASE \E v \in Views : ViewLeaves(v)
  BY <1>21, <1>h, <1>t, CallEffect DEF ViewLeaves, RemoveRoute, MayUse, MayLeave
<1>22. CASE \E f \in Frames : CreateRenderFrame(f)
  BY <1>22, <1>h, CallEffect DEF CreateRenderFrame, MayUse, MayLeave
<1>23. CASE \E f \in Frames : FrameDestructs(f)
  BY <1>23, <1>h, CallEffect DEF FrameDestructs
<1>23u. CASE FrameUnregisters
  BY <1>23u, <1>h, CallEffect DEF FrameUnregisters
<1>24. CASE FrameLeaves
  BY <1>24, <1>h, CallEffect DEF FrameLeaves, RemoveRoute, HasUnregistered, SpareIsFresh
<1>25. CASE IncrementKeepAliveRefCount
  BY <1>25, <1>h, CallEffect DEF IncrementKeepAliveRefCount, MayUse, MayLeave
<1>26. CASE DecrementKeepAliveRefCount
  BY <1>26, <1>h, <1>t, CallEffect DEF DecrementKeepAliveRefCount, CleanupIfAllZero, MayUse, MayLeave
<1>27. CASE IncrementWorkerRefCount
  BY <1>27, <1>h, CallEffect DEF IncrementWorkerRefCount, MayUse, MayLeave
<1>28. CASE DecrementWorkerRefCount
  BY <1>28, <1>h, <1>t, CallEffect DEF DecrementWorkerRefCount, CleanupIfAllZero, MayUse, MayLeave
<1>29. CASE DelayProcessShutdown
  BY <1>29, <1>h, CallEffect DEF DelayProcessShutdown, MayUse, MayLeave
<1>30. CASE CancelProcessShutdownDelay
  BY <1>30, <1>h, CallEffect DEF CancelProcessShutdownDelay, CleanupIfAllZero, Idle,
     SpareIsFresh
<1>31. CASE DisableRefCounts
  BY <1>31, <1>h, <1>t, CallEffect DEF DisableRefCounts, Idle
<1>32. CASE WarmupSpareRenderProcessHost
  BY <1>32, <1>h, <1>t, CallEffect DEF WarmupSpareRenderProcessHost, Launch, Idle
<1>33. CASE MaybeTakeSpareRenderProcessHost
  BY <1>33, <1>h, <1>t, CallEffect DEF MaybeTakeSpareRenderProcessHost, Idle
<1>34. CASE CleanupSpareRenderProcessHost
  BY <1>34, <1>h, <1>t, CallEffect DEF CleanupSpareRenderProcessHost, Idle
<1>35. CASE UNCHANGED vars
  BY <1>35, <1>h, CallEffect DEF vars
<1> QED
  BY <1>1, <1>2, <1>3, <1>4, <1>5, <1>6, <1>7, <1>8, <1>9, <1>10, <1>11, <1>12, <1>13,
     <1>14, <1>15, <1>16, <1>17, <1>18, <1>19, <1>20, <1>21, <1>22, <1>23, <1>23u, <1>24,
     <1>25, <1>26, <1>27, <1>28, <1>29, <1>30, <1>31, <1>32, <1>33, <1>34, <1>35 DEF Next, Process,
     Death, Ending, Client, SpareSteps

LEMMA SpareStep ==
    TypeOK /\ StackShape /\ SpareUnused /\ [Next]_vars => SpareUnused'
<1> SUFFICES ASSUME TypeOK, StackShape, SpareUnused, [Next]_vars PROVE SpareUnused'
  OBVIOUS
<1>1. SpareIsFresh'
  BY FreshStep DEF SpareUnused, SpareIsFresh
<1>2. SpareIsWatched'
  BY WatchedStep
<1> QED
  BY <1>1, <1>2 DEF SpareUnused, SpareIsFresh, SpareIsWatched

\* The iterations of Cleanup(), whoever is told.
LEMMA TellsInCleanup ==
    TypeOK /\ StackShape /\ SpareUnused /\ CleanupTells =>
        In("Cleanup", {"Exited"}) /\ In("Cleanup", {"Exited"})'
<1> SUFFICES ASSUME TypeOK, StackShape, SpareUnused, CleanupTells
             PROVE  In("Cleanup", {"Exited"}) /\ In("Cleanup", {"Exited"})'
  OBVIOUS
<1>1. Running("Cleanup", "Exited") /\ UNCHANGED within_process_died_observer
  BY DEF CleanupTells, TellExited, endVars
<1>2. ASSUME NEW o \in Top.todo \cap Observers, ObserverIsTold(o, "Exited")
      PROVE  In("Cleanup", {"Exited"}) /\ In("Cleanup", {"Exited"})'
  BY <1>1, <1>2, EndingEffect DEF ObserverIsTold, Watchers
<1>3. ASSUME SpareManagerIsTold("Exited")
      PROVE  In("Cleanup", {"Exited"}) /\ In("Cleanup", {"Exited"})'
  <2>1. are_ref_counts_disabled
    BY <1>1, <1>3, Places DEF SpareManagerIsTold, LeftToTell, SpareUnused, In, TypeOK
  <2>2. Goto("Exited", Top.todo \ {SpareManager})
    BY <1>3, <2>1 DEF SpareManagerIsTold, Goto
  <2> QED
    BY <1>1, <2>2, EndingEffect DEF Watchers
<1> QED
  BY <1>2, <1>3 DEF CleanupTells, TellExited

LEMMA DestroysInCleanup ==
    TypeOK /\ StackShape /\ CleanupDestroys =>
        /\ In("Cleanup", {"Destroyed"}) /\ In("Cleanup", {"Destroyed"})'
        /\ \E o \in Top.todo :
              /\ Top = Outer /\ Outer'.todo = Outer.todo \ {o}
              /\ destroyed' = IF o = SpareManager THEN destroyed
                              ELSE [destroyed EXCEPT ![o] = @ + 1]
<1> SUFFICES ASSUME TypeOK, StackShape, CleanupDestroys
             PROVE  /\ In("Cleanup", {"Destroyed"}) /\ In("Cleanup", {"Destroyed"})'
                    /\ \E o \in Top.todo :
                          /\ Top = Outer /\ Outer'.todo = Outer.todo \ {o}
                          /\ destroyed' = IF o = SpareManager THEN destroyed
                                          ELSE [destroyed EXCEPT ![o] = @ + 1]
  OBVIOUS
<1>1. Running("Cleanup", "Destroyed") /\ UNCHANGED within_process_died_observer
  BY DEF CleanupDestroys, endVars
<1>2. PICK o \in LeftToTell : /\ Goto("Destroyed", Top.todo \ {o})
                              /\ destroyed' = IF o = SpareManager THEN destroyed
                                              ELSE [destroyed EXCEPT ![o] = @ + 1]
  BY DEF CleanupDestroys
<1>3. Top = Outer /\ o \in Top.todo /\ o \in Watchers
  BY <1>1, <1>2, Places, FrameTypes DEF LeftToTell, Running
<1> QED
  BY <1>1, <1>2, <1>3, EndingEffect

\* What a destructor that begins or ends does to a sequence of them.
LEMMA HostsPushed ==
    ASSUME NEW d \in Seq(Frames), NEW f \in Frames, f \notin Hosts(d), Distinct(d)
    PROVE  Hosts(Append(d, f)) = Hosts(d) \cup {f} /\ Distinct(Append(d, f))
<1> DEFINE n == Len(d)
           e == Append(d, f)
<1>1. n \in Nat /\ DOMAIN d = 1..n
  BY LenProperties
<1>2. e \in Seq(Frames) /\ Len(e) = n + 1 /\ e[n + 1] = f /\ \A i \in 1..n : e[i] = d[i]
  BY AppendProperties
<1>3. DOMAIN e = 1..(n + 1)
  BY <1>2, LenProperties
<1>4. \A i \in 1..n : d[i] # f
  BY <1>1 DEF Hosts
<1> HIDE DEF n, e
<1>5. 1..(n + 1) = 1..n \cup {n + 1}
  BY <1>1
<1>6. Hosts(e) = Hosts(d) \cup {f}
  BY <1>1, <1>2, <1>3, <1>5 DEF Hosts
<1>7. Distinct(e)
  BY <1>1, <1>2, <1>3, <1>4, <1>5 DEF Distinct
<1> QED
  BY <1>6, <1>7 DEF e

LEMMA HostsPopped ==
    ASSUME NEW d \in Seq(Frames), d # <<>>, Distinct(d)
    PROVE  /\ SubSeq(d, 1, Len(d) - 1) \in Seq(Frames)
           /\ d[Len(d)] \in Hosts(d)
           /\ Hosts(SubSeq(d, 1, Len(d) - 1)) = Hosts(d) \ {d[Len(d)]}
           /\ Distinct(SubSeq(d, 1, Len(d) - 1))
<1> DEFINE n == Len(d)
           e == SubSeq(d, 1, n - 1)
<1>1. /\ n \in Nat \ {0} /\ DOMAIN d = 1..n
      /\ \A i \in 1..n : d[i] \in Frames
  BY LenProperties, EmptySeq, ElementOfSeq
<1>2. 1 \in Int /\ n - 1 \in Int /\ \A i \in 1..(n - 1) : d[i] \in Frames
  BY <1>1
<1> HIDE DEF n
<1>3. /\ e \in Seq(Frames)
      /\ Len(e) = IF 1 <= n - 1 THEN (n - 1) - 1 + 1 ELSE 0
      /\ \A i \in 1..((n - 1) - 1 + 1) : e[i] = d[1 + i - 1]
  BY <1>2, SubSeqProperties
<1> HIDE DEF e
<1>4. Len(e) = n - 1 /\ \A i \in 1..(n - 1) : e[i] = d[i]
  <2>1. (n - 1) - 1 + 1 = n - 1 /\ \A i \in Int : 1 + i - 1 = i
    BY <1>1
  <2>2. n = 1 => 1..(n - 1) = {}
    BY <1>1
  <2> QED
    BY <1>1, <1>3, <2>1, <2>2
<1>5. DOMAIN e = 1..(n - 1)
  BY <1>3, <1>4, LenProperties
<1>6. 1..n = 1..(n - 1) \cup {n} /\ n \notin 1..(n - 1) /\ n \in 1..n
  BY <1>1
<1>7. \A i \in 1..(n - 1) : d[i] # d[n]
  BY <1>1, <1>6 DEF Distinct
<1>8. Hosts(e) = Hosts(d) \ {d[n]} /\ d[n] \in Hosts(d)
  BY <1>1, <1>4, <1>5, <1>6, <1>7 DEF Hosts
<1>9. Distinct(e)
  BY <1>1, <1>4, <1>5, <1>6 DEF Distinct
<1> QED
  BY <1>3, <1>8, <1>9 DEF e, n

LEMMA NoHosts == Hosts(<<>>) = {} /\ Distinct(<<>>) /\ <<>> \in Seq(Frames)
BY EmptySeq, LenProperties DEF Hosts, Distinct

LEMMA DestructorStep == TypeOK /\ DestructorsOfRoutes /\ [Next]_vars => DestructorsOfRoutes'
<1> SUFFICES ASSUME TypeOK, DestructorsOfRoutes, [Next]_vars PROVE DestructorsOfRoutes'
  OBVIOUS
<1>t. /\ destructing \in Seq(Frames) /\ interrupted \in Seq(Frames)
      /\ registered \subseteq Frames
  BY DEF TypeOK
<1>n. NotFound = Hosts(destructing) \cup Hosts(interrupted)
      /\ NotFound' = Hosts(destructing') \cup Hosts(interrupted')
  BY DEF NotFound, Hosts
<1>f. NotFound \subseteq Frames
  BY <1>n, <1>t, ElementOfSeq, LenProperties DEF Hosts
<1>g. listeners \subseteq listeners' /\ UNCHANGED destructors => DestructorsOfRoutes'
  BY <1>n DEF DestructorsOfRoutes, destructors
<1> USE DEF frameVars, Elsewhere
<1>1. CASE InitHost
  BY <1>1, <1>g DEF InitHost, Launch, MayUse, MayLeave
<1>2. CASE OnProcessLaunched
  BY <1>2, <1>g DEF OnProcessLaunched, Idle
<1>3. CASE OnProcessLaunchFailed
  BY <1>3, <1>g DEF OnProcessLaunchFailed, Idle
<1>4. CASE OnChannelConnected
  BY <1>4, <1>g DEF OnChannelConnected, Idle
<1>5. CASE OnChannelError
  BY <1>5, <1>g DEF OnChannelError, ChannelInUse, Idle
<1>6. CASE FastShutdownIfPossible
  BY <1>6, <1>g DEF FastShutdownIfPossible, Idle
<1>7. CASE ProcessDiedStart
  BY <1>7, <1>g DEF ProcessDiedStart, ResetIPC, ResetChannelProxy, ConnectedAfterReset
<1>8. CASE ProcessDiedTells
  BY <1>8, <1>g DEF ProcessDiedTells, TellExited
<1>9. CASE ObserverReturns
  BY <1>9, <1>g DEF ObserverReturns
<1>10. CASE ProcessDiedReturns
  <2>1. /\ destructing' = interrupted /\ interrupted' = <<>>
        /\ UNCHANGED <<listeners, registered>>
    BY <1>10 DEF ProcessDiedReturns
  <2> QED
    BY <1>n, <2>1, NoHosts DEF DestructorsOfRoutes
<1>11. CASE CleanupLater
  BY <1>11, <1>g DEF CleanupLater
<1>12. CASE CleanupNot
  BY <1>12, <1>g DEF CleanupNot
<1>13. CASE CleanupEndsProcess
  <2>1. /\ interrupted' = destructing /\ destructing' = <<>>
        /\ UNCHANGED <<listeners, registered>>
    BY <1>13 DEF CleanupEndsProcess
  <2> QED
    BY <1>n, <2>1, NoHosts DEF DestructorsOfRoutes
<1>14. CASE CleanupStarts
  BY <1>14, <1>g DEF CleanupStarts
<1>15. CASE CleanupTells
  BY <1>15, <1>g DEF CleanupTells, TellExited
<1>16. CASE CleanupToldAll
  BY <1>16, <1>g DEF CleanupToldAll
<1>17. CASE CleanupDestroys
  BY <1>17, <1>g DEF CleanupDestroys
<1>18. CASE CleanupReturns
  BY <1>18, <1>g DEF CleanupReturns, ResetIPC, ResetChannelProxy, ConnectedAfterReset
<1>19. CASE Delete
  BY <1>19, <1>g DEF Delete, Idle
<1>20. CASE \E r \in Routes : AddRoute(r)
  <2>1. PICK r \in Routes : /\ listeners' = listeners \cup {r}
                            /\ registered' = registered \cup ({r} \cap Frames)
                            /\ UNCHANGED <<destructing, interrupted>>
    BY <1>20 DEF AddRoute
  <2> QED
    BY <1>n, <2>1 DEF DestructorsOfRoutes
<1>21. CASE \E v \in Views : ViewLeaves(v)
  <2>1. PICK v \in Views : listeners' = listeners \ {v} /\ UNCHANGED destructors
    BY <1>21 DEF ViewLeaves, RemoveRoute
  <2> QED
    BY <1>n, <1>f, <1>t, <2>1, RouteAssumption DEF DestructorsOfRoutes, destructors
<1>22. CASE \E f \in Frames : CreateRenderFrame(f)
  BY <1>22, <1>g DEF CreateRenderFrame, MayUse, MayLeave
<1>23. CASE \E f \in Frames : FrameDestructs(f)
  <2>1. PICK f \in Frames : /\ destructing' = Append(destructing, f) /\ f \in registered
                            /\ f \notin NotFound
                            /\ UNCHANGED <<listeners, registered, interrupted>>
    BY <1>23 DEF FrameDestructs
  <2>2. /\ Hosts(destructing') = Hosts(destructing) \cup {f}
        /\ Distinct(destructing')
    BY <1>n, <1>t, <2>1, HostsPushed DEF DestructorsOfRoutes
  <2> QED
    BY <1>n, <2>1, <2>2 DEF DestructorsOfRoutes
<1>23u. CASE FrameUnregisters
  <2>1. /\ registered' \subseteq registered
        /\ UNCHANGED <<listeners, destructing, interrupted>>
    BY <1>23u DEF FrameUnregisters
  <2> QED
    BY <1>n, <2>1 DEF DestructorsOfRoutes
<1>24. CASE FrameLeaves
  <2>1. /\ destructing # <<>> /\ destructing' = SubSeq(destructing, 1, Len(destructing) - 1)
        /\ listeners' = listeners \ {Innermost} /\ Innermost \notin registered
        /\ UNCHANGED <<registered, interrupted>>
    BY <1>24 DEF FrameLeaves, RemoveRoute, HasUnregistered
  <2>2. /\ Innermost \in Hosts(destructing)
        /\ Hosts(destructing') = Hosts(destructing) \ {Innermost}
        /\ Distinct(destructing')
    BY <1>t, <2>1, HostsPopped DEF DestructorsOfRoutes, Innermost
  <2>3. NotFound' \subseteq listeners'
    BY <1>n, <2>1, <2>2 DEF DestructorsOfRoutes
  <2> QED
    BY <1>n, <2>1, <2>2, <2>3 DEF DestructorsOfRoutes
<1>25. CASE IncrementKeepAliveRefCount
  BY <1>25, <1>g DEF IncrementKeepAliveRefCount, MayUse, MayLeave
<1>26. CASE DecrementKeepAliveRefCount
  BY <1>26, <1>g DEF DecrementKeepAliveRefCount, CleanupIfAllZero, MayUse, MayLeave
<1>27. CASE IncrementWorkerRefCount
  BY <1>27, <1>g DEF IncrementWorkerRefCount, MayUse, MayLeave
<1>28. CASE DecrementWorkerRefCount
  BY <1>28, <1>g DEF DecrementWorkerRefCount, CleanupIfAllZero, MayUse, MayLeave
<1>29. CASE DelayProcessShutdown
  BY <1>29, <1>g DEF DelayProcessShutdown, MayUse, MayLeave
<1>30. CASE CancelProcessShutdownDelay
  BY <1>30, <1>g DEF CancelProcessShutdownDelay, CleanupIfAllZero, Idle
<1>31. CASE DisableRefCounts
  BY <1>31, <1>g DEF DisableRefCounts, Idle
<1>32. CASE WarmupSpareRenderProcessHost
  BY <1>32, <1>g DEF WarmupSpareRenderProcessHost, Launch, Idle
<1>33. CASE MaybeTakeSpareRenderProcessHost
  BY <1>33, <1>g DEF MaybeTakeSpareRenderProcessHost, Idle
<1>34. CASE CleanupSpareRenderProcessHost
  BY <1>34, <1>g DEF CleanupSpareRenderProcessHost, Idle
<1>35. CASE UNCHANGED vars
  BY <1>35, <1>g DEF vars
<1> QED
  BY <1>1, <1>2, <1>3, <1>4, <1>5, <1>6, <1>7, <1>8, <1>9, <1>10, <1>11, <1>12, <1>13,
     <1>14, <1>15, <1>16, <1>17, <1>18, <1>19, <1>20, <1>21, <1>22, <1>23, <1>23u, <1>24,
     <1>25, <1>26, <1>27, <1>28, <1>29, <1>30, <1>31, <1>32, <1>33, <1>34, <1>35 DEF Next, Process,
     Death, Ending, Client, SpareSteps

\* A process does not die while a frame host that it counts is half destroyed.
CountsNoneOfThem == registered \cap NotFound = {}

LEMMA DeathOutside ==
    TypeOK /\ StackShape /\ SpareUnused /\ DestructorsKeepRoutes /\ [Next]_vars =>
        (In("ProcessDied", {"Start"})' => CountsNoneOfThem')
<1> SUFFICES ASSUME TypeOK, StackShape, SpareUnused, DestructorsKeepRoutes, [Next]_vars,
                    In("ProcessDied", {"Start"})'
             PROVE  CountsNoneOfThem'
  OBVIOUS
<1>n. NotFound' = Hosts(destructing') \cup Hosts(interrupted')
      /\ NotFound = Hosts(destructing) \cup Hosts(interrupted)
  BY DEF NotFound, Hosts
<1>e. stack = <<>> /\ destructing = <<>> /\ UNCHANGED destructors => CountsNoneOfThem'
  BY <1>n, NoHosts DEF DestructorsKeepRoutes, CountsNoneOfThem, destructors
<1>h. In("ProcessDied", {"Start"}) /\ UNCHANGED destructors => CountsNoneOfThem'
  BY <1>n DEF DestructorsKeepRoutes, CountsNoneOfThem, destructors
<1>c. ClientRuns => ~In("ProcessDied", {"Start"})
  BY Tops DEF In
<1> USE DEF endVars, frameVars, Elsewhere
<1>1. CASE InitHost
  BY <1>1, <1>c, CallEffect DEF InitHost, Launch, MayUse, MayLeave, In, Outer
<1>2. CASE OnProcessLaunched
  BY <1>2, <1>e, <1>h, CallEffect, FrameTypes DEF OnProcessLaunched, Idle
<1>3. CASE OnProcessLaunchFailed
  BY <1>3, <1>e, <1>h, CallEffect, FrameTypes DEF OnProcessLaunchFailed, Idle
<1>4. CASE OnChannelConnected
  BY <1>4, <1>e, <1>h, CallEffect, FrameTypes DEF OnChannelConnected, Idle
<1>5. CASE OnChannelError
  BY <1>5, <1>e, <1>h, CallEffect, FrameTypes DEF OnChannelError, ChannelInUse, Idle
<1>6. CASE FastShutdownIfPossible
  BY <1>6, <1>e, <1>h, CallEffect, FrameTypes DEF FastShutdownIfPossible, Idle
<1>7. CASE ProcessDiedStart
  BY <1>7, DeathEffect DEF ProcessDiedStart, ResetIPC, ResetChannelProxy,
     ConnectedAfterReset, In
<1>8. CASE ProcessDiedTells
  <2>1. ASSUME NEW o \in Top.todo \cap Observers, ObserverIsTold(o, "Called")
        PROVE  ~In("ProcessDied", {"Start"})'
    BY <1>8, <2>1, DeathEffect DEF ProcessDiedTells, TellExited, In
  <2>2. ASSUME SpareManagerIsTold("Exited")
        PROVE  ~In("ProcessDied", {"Start"})'
    BY <1>8, <2>2, DeathEffect DEF ProcessDiedTells, TellExited, In
  <2> QED
    BY <1>8, <2>1, <2>2 DEF ProcessDiedTells, TellExited
<1>9. CASE ObserverReturns
  BY <1>9, DeathEffect DEF ObserverReturns, In
<1>10. CASE ProcessDiedReturns
  BY <1>10, DeathEffect DEF ProcessDiedReturns, EnableSendQueue, InitializeChannelProxy,
     ConnectedAfterReset, In
<1>11. CASE CleanupLater
  BY <1>11, <1>h, EndingEffect DEF CleanupLater, In
<1>12. CASE CleanupNot
  BY <1>12, EndingEffect DEF CleanupNot, In
<1>13. CASE CleanupEndsProcess
  <2>1. /\ MayExit /\ UNCHANGED registered
        /\ interrupted' = destructing /\ destructing' = <<>>
    BY <1>13 DEF CleanupEndsProcess
  <2>2. registered \cap NotFound = {}
    BY <2>1 DEF MayExit, HasOnlyNonLiveRenderFrameHosts
  <2> QED
    BY <1>n, <2>1, <2>2, NoHosts DEF CountsNoneOfThem
<1>14. CASE CleanupStarts
  BY <1>14, EndingEffect DEF CleanupStarts, In
<1>15. CASE CleanupTells
  <2>1. Running("Cleanup", "Exited") /\ UNCHANGED endVars
    BY <1>15 DEF CleanupTells, TellExited
  <2>2. In("Cleanup", {"Exited"})'
    BY <1>15, TellsInCleanup
  <2> QED
    BY <2>2 DEF In
<1>16. CASE CleanupToldAll
  BY <1>16, EndingEffect DEF CleanupToldAll, In
<1>17. CASE CleanupDestroys
  <2>1. In("Cleanup", {"Destroyed"})'
    BY <1>17, DestroysInCleanup
  <2> QED
    BY <2>1 DEF In
<1>18. CASE CleanupReturns
  BY <1>18, EndingEffect DEF CleanupReturns, ResetIPC, ResetChannelProxy,
     ConnectedAfterReset, In
<1>19. CASE Delete
  BY <1>19, <1>e, <1>h, CallEffect, FrameTypes DEF Delete, Idle
<1>20. CASE \E r \in Routes : AddRoute(r)
  BY <1>20, <1>c, CallEffect DEF AddRoute, MayUse, MayLeave, In, Outer
<1>21. CASE \E v \in Views : ViewLeaves(v)
  BY <1>21, <1>c, CallEffect, FrameTypes DEF ViewLeaves, RemoveRoute, MayUse, MayLeave, In
<1>22. CASE \E f \in Frames : CreateRenderFrame(f)
  BY <1>22, <1>c, CallEffect DEF CreateRenderFrame, MayUse, MayLeave, In, Outer
<1>23. CASE \E f \in Frames : FrameDestructs(f)
  BY <1>23, <1>c, CallEffect DEF FrameDestructs, In, Outer
<1>23u. CASE FrameUnregisters
  BY <1>23u, <1>c, CallEffect DEF FrameUnregisters, In, Outer
<1>24. CASE FrameLeaves
  BY <1>24, <1>c, CallEffect, FrameTypes DEF FrameLeaves, RemoveRoute, In
<1>25. CASE IncrementKeepAliveRefCount
  BY <1>25, <1>c, CallEffect DEF IncrementKeepAliveRefCount, MayUse, MayLeave, In, Outer
<1>26. CASE DecrementKeepAliveRefCount
  BY <1>26, <1>c, CallEffect, FrameTypes DEF DecrementKeepAliveRefCount, CleanupIfAllZero,
     MayUse, MayLeave, In
<1>27. CASE IncrementWorkerRefCount
  BY <1>27, <1>c, CallEffect DEF IncrementWorkerRefCount, MayUse, MayLeave, In, Outer
<1>28. CASE DecrementWorkerRefCount
  BY <1>28, <1>c, CallEffect, FrameTypes DEF DecrementWorkerRefCount, CleanupIfAllZero,
     MayUse, MayLeave, In
<1>29. CASE DelayProcessShutdown
  BY <1>29, <1>c, CallEffect DEF DelayProcessShutdown, MayUse, MayLeave, In, Outer
<1>30. CASE CancelProcessShutdownDelay
  BY <1>30, <1>e, <1>h, CallEffect, FrameTypes DEF CancelProcessShutdownDelay, CleanupIfAllZero, Idle
<1>31. CASE DisableRefCounts
  BY <1>31, <1>e, <1>h, CallEffect, FrameTypes DEF DisableRefCounts, Idle
<1>32. CASE WarmupSpareRenderProcessHost
  BY <1>32, <1>e, <1>h, CallEffect, FrameTypes DEF WarmupSpareRenderProcessHost, Launch, Idle
<1>33. CASE MaybeTakeSpareRenderProcessHost
  BY <1>33, <1>e, <1>h, CallEffect, FrameTypes DEF MaybeTakeSpareRenderProcessHost, Idle
<1>34. CASE CleanupSpareRenderProcessHost
  BY <1>34, <1>e, <1>h, CallEffect, FrameTypes DEF CleanupSpareRenderProcessHost, Idle
<1>35. CASE UNCHANGED vars
  BY <1>35, <1>h DEF vars, In, Outer
<1> QED
  BY <1>1, <1>2, <1>3, <1>4, <1>5, <1>6, <1>7, <1>8, <1>9, <1>10, <1>11, <1>12, <1>13,
     <1>14, <1>15, <1>16, <1>17, <1>18, <1>19, <1>20, <1>21, <1>22, <1>23, <1>23u, <1>24,
     <1>25, <1>26, <1>27, <1>28, <1>29, <1>30, <1>31, <1>32, <1>33, <1>34, <1>35 DEF Next, Process,
     Death, Ending, Client, SpareSteps

\* Only ProcessDied() interrupts destructors, and it resumes them when it returns.
DeathRuns == stack # <<>> /\ Outer.fn = "ProcessDied"

LEMMA InterruptedStep ==
    TypeOK /\ StackShape /\ SpareUnused /\ DestructorsKeepRoutes /\ [Next]_vars =>
        (interrupted' # <<>> => DeathRuns')
<1> SUFFICES ASSUME TypeOK, StackShape, SpareUnused, DestructorsKeepRoutes, [Next]_vars,
                    interrupted' # <<>>
             PROVE  DeathRuns'
  OBVIOUS
<1>e. UNCHANGED interrupted => DeathRuns
  BY DEF DestructorsKeepRoutes, DeathRuns
<1>h. UNCHANGED <<interrupted, stack>> => DeathRuns'
  BY <1>e DEF DeathRuns, Outer
<1>p. In("ProcessDied", {"Start"})' \/ In("ProcessDied", {"Exited"})'
      \/ In("ProcessDied", {"Called"})' => DeathRuns'
  BY DEF In, DeathRuns
<1>c. ClientRuns /\ UNCHANGED interrupted /\ Call("Cleanup")
      /\ UNCHANGED within_process_died_observer => DeathRuns'
  BY <1>e, CallEffect DEF DeathRuns
<1>s. stack = <<>> => ~DeathRuns
  BY DEF DeathRuns
<1>o. In("Cleanup", {"Start"}) \/ In("Cleanup", {"Exited"}) \/ In("Cleanup", {"Destroyed"})
      => ~DeathRuns
  BY DEF DeathRuns, In
<1> USE DEF endVars, frameVars, destructors, Elsewhere
<1>1. CASE InitHost
  BY <1>1, <1>h DEF InitHost, Launch
<1>2. CASE OnProcessLaunched
  BY <1>2, <1>e, <1>s DEF OnProcessLaunched, Idle
<1>3. CASE OnProcessLaunchFailed
  BY <1>3, <1>e, <1>s DEF OnProcessLaunchFailed, Idle
<1>4. CASE OnChannelConnected
  BY <1>4, <1>e, <1>s DEF OnChannelConnected, Idle
<1>5. CASE OnChannelError
  BY <1>5, <1>e, <1>s DEF OnChannelError, Idle
<1>6. CASE FastShutdownIfPossible
  BY <1>6, <1>e, <1>s DEF FastShutdownIfPossible, Idle
<1>7. CASE ProcessDiedStart
  BY <1>7, <1>p, DeathEffect
<1>8. CASE ProcessDiedTells
  <2>1. ASSUME NEW o \in Top.todo \cap Observers, ObserverIsTold(o, "Called")
        PROVE  DeathRuns'
    BY <1>8, <1>p, <2>1, DeathEffect DEF ProcessDiedTells, TellExited
  <2>2. ASSUME SpareManagerIsTold("Exited")
        PROVE  DeathRuns'
    BY <1>8, <1>p, <2>2, DeathEffect DEF ProcessDiedTells, TellExited
  <2> QED
    BY <1>8, <2>1, <2>2 DEF ProcessDiedTells, TellExited
<1>9. CASE ObserverReturns
  BY <1>9, <1>p, DeathEffect
<1>10. CASE ProcessDiedReturns
  BY <1>10 DEF ProcessDiedReturns
<1>11. CASE CleanupLater
  BY <1>11, <1>e, EndingEffect DEF CleanupLater, DeathRuns
<1>12. CASE CleanupNot
  BY <1>12, <1>e, <1>o, EndingEffect DEF CleanupNot
<1>13. CASE CleanupEndsProcess
  BY <1>13, <1>p, EndingEffect
<1>14. CASE CleanupStarts
  <2>1. UNCHANGED interrupted
    BY <1>14 DEF CleanupStarts
  <2> QED
    BY <1>14, <1>e, <1>o, <2>1, EndingEffect
<1>15. CASE CleanupTells
  <2>1. UNCHANGED interrupted
    BY <1>15 DEF CleanupTells, TellExited
  <2> QED
    BY <1>15, <1>e, <1>o, <2>1, TellsInCleanup
<1>16. CASE CleanupToldAll
  <2>1. UNCHANGED interrupted
    BY <1>16 DEF CleanupToldAll
  <2> QED
    BY <1>16, <1>e, <1>o, <2>1, EndingEffect
<1>17. CASE CleanupDestroys
  <2>1. UNCHANGED interrupted
    BY <1>17 DEF CleanupDestroys
  <2> QED
    BY <1>17, <1>e, <1>o, <2>1, DestroysInCleanup
<1>18. CASE CleanupReturns
  <2>1. UNCHANGED interrupted
    BY <1>18 DEF CleanupReturns
  <2> QED
    BY <1>18, <1>e, <1>o, <2>1, EndingEffect
<1>19. CASE Delete
  BY <1>19, <1>e, <1>s DEF Delete, Idle
<1>20. CASE \E r \in Routes : AddRoute(r)
  BY <1>20, <1>h DEF AddRoute
<1>21. CASE \E v \in Views : ViewLeaves(v)
  BY <1>21, <1>c, <1>h DEF ViewLeaves, RemoveRoute, MayLeave
<1>22. CASE \E f \in Frames : CreateRenderFrame(f)
  BY <1>22, <1>h DEF CreateRenderFrame
<1>23. CASE \E f \in Frames : FrameDestructs(f)
  BY <1>23, <1>h DEF FrameDestructs
<1>23u. CASE FrameUnregisters
  BY <1>23u, <1>h DEF FrameUnregisters
<1>24. CASE FrameLeaves
  BY <1>24, <1>c, <1>h DEF FrameLeaves, RemoveRoute, MayLeave
<1>25. CASE IncrementKeepAliveRefCount
  BY <1>25, <1>h DEF IncrementKeepAliveRefCount
<1>26. CASE DecrementKeepAliveRefCount
  BY <1>26, <1>c, <1>h DEF DecrementKeepAliveRefCount, RemoveRoute, MayLeave, CleanupIfAllZero
<1>27. CASE IncrementWorkerRefCount
  BY <1>27, <1>h DEF IncrementWorkerRefCount
<1>28. CASE DecrementWorkerRefCount
  BY <1>28, <1>c, <1>h DEF DecrementWorkerRefCount, RemoveRoute, MayLeave, CleanupIfAllZero
<1>29. CASE DelayProcessShutdown
  BY <1>29, <1>h DEF DelayProcessShutdown
<1>30. CASE CancelProcessShutdownDelay
  BY <1>30, <1>e, <1>s DEF CancelProcessShutdownDelay, Idle
<1>31. CASE DisableRefCounts
  BY <1>31, <1>e, <1>s DEF DisableRefCounts, Idle
<1>32. CASE WarmupSpareRenderProcessHost
  BY <1>32, <1>e, <1>s DEF WarmupSpareRenderProcessHost, Idle
<1>33. CASE MaybeTakeSpareRenderProcessHost
  BY <1>33, <1>e, <1>s DEF MaybeTakeSpareRenderProcessHost, Idle
<1>34. CASE CleanupSpareRenderProcessHost
  BY <1>34, <1>e, <1>s DEF CleanupSpareRenderProcessHost, Idle
<1>35. CASE UNCHANGED vars
  BY <1>35, <1>h DEF vars
<1> QED
  BY <1>1, <1>2, <1>3, <1>4, <1>5, <1>6, <1>7, <1>8, <1>9, <1>10, <1>11, <1>12, <1>13,
     <1>14, <1>15, <1>16, <1>17, <1>18, <1>19, <1>20, <1>21, <1>22, <1>23, <1>23u, <1>24,
     <1>25, <1>26, <1>27, <1>28, <1>29, <1>30, <1>31, <1>32, <1>33, <1>34, <1>35 DEF Next, Process,
     Death, Ending, Client, SpareSteps

LEMMA DestructorsStep ==
    TypeOK /\ StackShape /\ SpareUnused /\ DestructorsKeepRoutes /\ [Next]_vars =>
        DestructorsKeepRoutes'
<1> SUFFICES ASSUME TypeOK, StackShape, SpareUnused, DestructorsKeepRoutes, [Next]_vars
             PROVE  DestructorsKeepRoutes'
  OBVIOUS
<1>1. DestructorsOfRoutes'
  BY DestructorStep DEF DestructorsKeepRoutes
<1>2. interrupted' # <<>> => stack' # <<>> /\ Outer'.fn = "ProcessDied"
  BY InterruptedStep DEF DeathRuns
<1>3. In("ProcessDied", {"Start"})' => registered' \cap NotFound' = {}
  BY DeathOutside DEF CountsNoneOfThem
<1> QED
  BY <1>1, <1>2, <1>3 DEF DestructorsKeepRoutes

\* The process: where there is something to die there is a launcher.
LEMMA LauncherState ==
    TypeOK /\ ProcessHasLauncher /\ DeletingIsOutOfReach /\ [Next]_vars =>
        /\ channel' # "None" /\ invitation' = "Moved" => launcher' # "None"
        /\ IsInitializedAndNotDead' => launcher' # "None"
<1> DEFINE Goal == /\ channel' # "None" /\ invitation' = "Moved" => launcher' # "None"
                   /\ IsInitializedAndNotDead' => launcher' # "None"
<1> SUFFICES ASSUME TypeOK, ProcessHasLauncher, DeletingIsOutOfReach, [Next]_vars
             PROVE  Goal
  OBVIOUS
<1>d. deleting_soon => channel = "None"
  BY DEF DeletingIsOutOfReach
<1>h. /\ channel # "None" /\ invitation = "Moved" => launcher # "None"
      /\ IsInitializedAndNotDead => launcher # "None"
  BY DEF ProcessHasLauncher
<1> USE DEF IsInitializedAndNotDead, processVars, channelVars, Elsewhere
<1>1. CASE InitHost
  BY <1>1, <1>h DEF InitHost, Launch, MayUse, MayLeave
<1>2. CASE OnProcessLaunched
  BY <1>2, <1>h DEF OnProcessLaunched, Idle
<1>3. CASE OnProcessLaunchFailed
  BY <1>3, <1>h DEF OnProcessLaunchFailed, Idle
<1>4. CASE OnChannelConnected
  BY <1>4, <1>h DEF OnChannelConnected, Idle
<1>5. CASE OnChannelError
  BY <1>5, <1>h DEF OnChannelError, ChannelInUse, Idle
<1>6. CASE FastShutdownIfPossible
  BY <1>6, <1>h DEF FastShutdownIfPossible, Idle
<1>7. CASE ProcessDiedStart
  BY <1>7, <1>h DEF ProcessDiedStart, ResetIPC, ResetChannelProxy, ConnectedAfterReset
<1>8. CASE ProcessDiedTells
  BY <1>8, <1>h DEF ProcessDiedTells, TellExited
<1>9. CASE ObserverReturns
  BY <1>9, <1>h DEF ObserverReturns
<1>10. CASE ProcessDiedReturns
  BY <1>10, <1>h DEF ProcessDiedReturns, EnableSendQueue, InitializeChannelProxy,
     ConnectedAfterReset
<1>11. CASE CleanupLater
  BY <1>11, <1>h DEF CleanupLater
<1>12. CASE CleanupNot
  BY <1>12, <1>h DEF CleanupNot
<1>13. CASE CleanupEndsProcess
  BY <1>13, <1>h DEF CleanupEndsProcess
<1>14. CASE CleanupStarts
  BY <1>14, <1>h DEF CleanupStarts
<1>15. CASE CleanupTells
  BY <1>15, <1>h DEF CleanupTells, TellExited
<1>16. CASE CleanupToldAll
  BY <1>16, <1>h DEF CleanupToldAll
<1>17. CASE CleanupDestroys
  BY <1>17, <1>h DEF CleanupDestroys
<1>18. CASE CleanupReturns
  BY <1>18, <1>h DEF CleanupReturns, ResetIPC, ResetChannelProxy, ConnectedAfterReset
<1>19. CASE Delete
  BY <1>19, <1>d DEF Delete, Idle
<1>20. CASE \E r \in Routes : AddRoute(r)
  BY <1>20, <1>h DEF AddRoute, MayUse, MayLeave
<1>21. CASE \E v \in Views : ViewLeaves(v)
  BY <1>21, <1>h DEF ViewLeaves, RemoveRoute, MayUse, MayLeave
<1>22. CASE \E f \in Frames : CreateRenderFrame(f)
  BY <1>22, <1>h DEF CreateRenderFrame, MayUse, MayLeave
<1>23. CASE \E f \in Frames : FrameDestructs(f)
  BY <1>23, <1>h DEF FrameDestructs
<1>23u. CASE FrameUnregisters
  BY <1>23u, <1>h DEF FrameUnregisters
<1>24. CASE FrameLeaves
  BY <1>24, <1>h DEF FrameLeaves, RemoveRoute
<1>25. CASE IncrementKeepAliveRefCount
  BY <1>25, <1>h DEF IncrementKeepAliveRefCount, MayUse, MayLeave
<1>26. CASE DecrementKeepAliveRefCount
  BY <1>26, <1>h DEF DecrementKeepAliveRefCount, CleanupIfAllZero, MayUse, MayLeave
<1>27. CASE IncrementWorkerRefCount
  BY <1>27, <1>h DEF IncrementWorkerRefCount, MayUse, MayLeave
<1>28. CASE DecrementWorkerRefCount
  BY <1>28, <1>h DEF DecrementWorkerRefCount, CleanupIfAllZero, MayUse, MayLeave
<1>29. CASE DelayProcessShutdown
  BY <1>29, <1>h DEF DelayProcessShutdown, MayUse, MayLeave
<1>30. CASE CancelProcessShutdownDelay
  BY <1>30, <1>h DEF CancelProcessShutdownDelay, CleanupIfAllZero, Idle
<1>31. CASE DisableRefCounts
  BY <1>31, <1>h DEF DisableRefCounts, Idle
<1>32. CASE WarmupSpareRenderProcessHost
  BY <1>32, <1>h DEF WarmupSpareRenderProcessHost, Launch, Idle
<1>33. CASE MaybeTakeSpareRenderProcessHost
  BY <1>33, <1>h DEF MaybeTakeSpareRenderProcessHost, Idle
<1>34. CASE CleanupSpareRenderProcessHost
  BY <1>34, <1>h DEF CleanupSpareRenderProcessHost, Idle
<1>35. CASE UNCHANGED vars
  BY <1>35, <1>h DEF vars
<1> QED
  BY <1>1, <1>2, <1>3, <1>4, <1>5, <1>6, <1>7, <1>8, <1>9, <1>10, <1>11, <1>12, <1>13,
     <1>14, <1>15, <1>16, <1>17, <1>18, <1>19, <1>20, <1>21, <1>22, <1>23, <1>23u, <1>24,
     <1>25, <1>26, <1>27, <1>28, <1>29, <1>30, <1>31, <1>32, <1>33, <1>34, <1>35 DEF Next, Process,
     Death, Ending, Client, SpareSteps

LEMMA DeathHasLauncher ==
    TypeOK /\ StackShape /\ SpareUnused /\ ProcessHasLauncher /\ [Next]_vars =>
        (In("ProcessDied", {"Start"})' => launcher' # "None")
<1> SUFFICES ASSUME TypeOK, StackShape, SpareUnused, ProcessHasLauncher, [Next]_vars,
                    In("ProcessDied", {"Start"})'
             PROVE  launcher' # "None"
  OBVIOUS
<1>h. /\ In("ProcessDied", {"Start"}) => launcher # "None"
      /\ channel # "None" /\ invitation = "Moved" => launcher # "None"
      /\ IsInitializedAndNotDead => launcher # "None"
  BY DEF ProcessHasLauncher
<1>c. ClientRuns => ~In("ProcessDied", {"Start"})
  BY Tops DEF In
<1> USE DEF endVars, processVars, Elsewhere
<1>1. CASE InitHost
  BY <1>1, <1>h DEF InitHost, Launch, MayUse, MayLeave
<1>2. CASE OnProcessLaunched
  BY <1>2, <1>h DEF OnProcessLaunched, Idle
<1>3. CASE OnProcessLaunchFailed
  BY <1>3, <1>h DEF OnProcessLaunchFailed, Idle
<1>4. CASE OnChannelConnected
  BY <1>4, <1>h DEF OnChannelConnected, Idle, In, Outer
<1>5. CASE OnChannelError
  BY <1>5, <1>h DEF OnChannelError, ChannelInUse, Idle
<1>6. CASE FastShutdownIfPossible
  BY <1>6, <1>h DEF FastShutdownIfPossible, Idle
<1>7. CASE ProcessDiedStart
  BY <1>7, DeathEffect DEF ProcessDiedStart, ResetIPC, ResetChannelProxy,
     ConnectedAfterReset, In
<1>8. CASE ProcessDiedTells
  <2>1. ASSUME NEW o \in Top.todo \cap Observers, ObserverIsTold(o, "Called")
        PROVE  ~In("ProcessDied", {"Start"})'
    BY <1>8, <2>1, DeathEffect DEF ProcessDiedTells, TellExited, In
  <2>2. ASSUME SpareManagerIsTold("Exited")
        PROVE  ~In("ProcessDied", {"Start"})'
    BY <1>8, <2>2, DeathEffect DEF ProcessDiedTells, TellExited, In
  <2> QED
    BY <1>8, <2>1, <2>2 DEF ProcessDiedTells, TellExited
<1>9. CASE ObserverReturns
  BY <1>9, DeathEffect DEF ObserverReturns, In
<1>10. CASE ProcessDiedReturns
  BY <1>10, DeathEffect DEF ProcessDiedReturns, EnableSendQueue, InitializeChannelProxy,
     ConnectedAfterReset, In
<1>11. CASE CleanupLater
  BY <1>11, <1>h, EndingEffect DEF CleanupLater, In
<1>12. CASE CleanupNot
  BY <1>12, EndingEffect DEF CleanupNot, In
<1>13. CASE CleanupEndsProcess
  BY <1>13, <1>h DEF CleanupEndsProcess
<1>14. CASE CleanupStarts
  BY <1>14, EndingEffect DEF CleanupStarts, In
<1>15. CASE CleanupTells
  BY <1>15, TellsInCleanup DEF In
<1>16. CASE CleanupToldAll
  BY <1>16, EndingEffect DEF CleanupToldAll, In
<1>17. CASE CleanupDestroys
  BY <1>17, DestroysInCleanup DEF In
<1>18. CASE CleanupReturns
  BY <1>18, EndingEffect DEF CleanupReturns, ResetIPC, ResetChannelProxy,
     ConnectedAfterReset, In
<1>19. CASE Delete
  BY <1>19, <1>h DEF Delete, Idle, In, Outer
<1>20. CASE \E r \in Routes : AddRoute(r)
  BY <1>20, <1>h DEF AddRoute, MayUse, MayLeave, In, Outer
<1>21. CASE \E v \in Views : ViewLeaves(v)
  BY <1>21, <1>h, <1>c, CallEffect, FrameTypes DEF ViewLeaves, RemoveRoute, MayUse, MayLeave, In
<1>22. CASE \E f \in Frames : CreateRenderFrame(f)
  BY <1>22, <1>h DEF CreateRenderFrame, MayUse, MayLeave, In, Outer
<1>23. CASE \E f \in Frames : FrameDestructs(f)
  BY <1>23, <1>h DEF FrameDestructs, In, Outer
<1>23u. CASE FrameUnregisters
  BY <1>23u, <1>h DEF FrameUnregisters, In, Outer
<1>24. CASE FrameLeaves
  BY <1>24, <1>h, <1>c, CallEffect, FrameTypes DEF FrameLeaves, RemoveRoute, In
<1>25. CASE IncrementKeepAliveRefCount
  BY <1>25, <1>h DEF IncrementKeepAliveRefCount, MayUse, MayLeave, In, Outer
<1>26. CASE DecrementKeepAliveRefCount
  BY <1>26, <1>h, <1>c, CallEffect, FrameTypes DEF DecrementKeepAliveRefCount,
     CleanupIfAllZero, MayUse, MayLeave, In
<1>27. CASE IncrementWorkerRefCount
  BY <1>27, <1>h DEF IncrementWorkerRefCount, MayUse, MayLeave, In, Outer
<1>28. CASE DecrementWorkerRefCount
  BY <1>28, <1>h, <1>c, CallEffect, FrameTypes DEF DecrementWorkerRefCount,
     CleanupIfAllZero, MayUse, MayLeave, In
<1>29. CASE DelayProcessShutdown
  BY <1>29, <1>h DEF DelayProcessShutdown, MayUse, MayLeave, In, Outer
<1>30. CASE CancelProcessShutdownDelay
  BY <1>30, <1>h, CallEffect, FrameTypes DEF CancelProcessShutdownDelay, CleanupIfAllZero,
     Idle, In
<1>31. CASE DisableRefCounts
  BY <1>31, <1>h, CallEffect, FrameTypes DEF DisableRefCounts, Idle, In
<1>32. CASE WarmupSpareRenderProcessHost
  BY <1>32, <1>h DEF WarmupSpareRenderProcessHost, Launch, Idle
<1>33. CASE MaybeTakeSpareRenderProcessHost
  BY <1>33, <1>h DEF MaybeTakeSpareRenderProcessHost, Idle, In, Outer
<1>34. CASE CleanupSpareRenderProcessHost
  BY <1>34, <1>h, CallEffect, FrameTypes DEF CleanupSpareRenderProcessHost, Idle, In
<1>35. CASE UNCHANGED vars
  BY <1>35, <1>h DEF vars, In, Outer
<1> QED
  BY <1>1, <1>2, <1>3, <1>4, <1>5, <1>6, <1>7, <1>8, <1>9, <1>10, <1>11, <1>12, <1>13,
     <1>14, <1>15, <1>16, <1>17, <1>18, <1>19, <1>20, <1>21, <1>22, <1>23, <1>23u, <1>24,
     <1>25, <1>26, <1>27, <1>28, <1>29, <1>30, <1>31, <1>32, <1>33, <1>34, <1>35 DEF Next, Process,
     Death, Ending, Client, SpareSteps

LEMMA LauncherStep ==
    TypeOK /\ StackShape /\ SpareUnused /\ ProcessHasLauncher /\ DeletingIsOutOfReach
    /\ [Next]_vars => ProcessHasLauncher'
BY LauncherState, DeathHasLauncher DEF ProcessHasLauncher

\* Where the last observers are told, and afterwards.
GoneOrGoing == deleting_soon \/ In("Cleanup", {"Exited", "Destroyed"})
Unreferenced == listeners = {} /\ AreAllRefCountsZero

\* From there no client runs, and no step adds a reference.
LEMMA TeardownStep ==
    TypeOK /\ StackShape /\ SpareUnused /\ DestructorsKeepRoutes /\ DeletingIsOutOfReach
    /\ [Next]_vars => (GoneOrGoing' => Unreferenced')
<1> SUFFICES ASSUME TypeOK, StackShape, SpareUnused, DestructorsKeepRoutes,
                    DeletingIsOutOfReach, [Next]_vars, GoneOrGoing'
             PROVE  Unreferenced'
  OBVIOUS
<1>h. /\ GoneOrGoing => Unreferenced
      /\ deleting_soon => shutdown_delays = 0 /\ stack = <<>>
  BY DEF DeletingIsOutOfReach, GoneOrGoing, Unreferenced
<1>c. ClientRuns => ~In("Cleanup", {"Exited", "Destroyed"})
  BY Tops DEF In
<1>d. destructing # <<>> => listeners # {}
  <2>1. destructing # <<>> => 1 \in DOMAIN destructing
    BY LenProperties, EmptySeq DEF TypeOK
  <2> QED
    BY <2>1 DEF DestructorsKeepRoutes, DestructorsOfRoutes, NotFound
<1>s. UNCHANGED <<listeners, countVars>> /\ Unreferenced => Unreferenced'
  BY DEF countVars, Unreferenced, AreAllRefCountsZero
<1> USE DEF endVars, Elsewhere
<1>1. CASE InitHost
  BY <1>1, <1>h, <1>s DEF InitHost, Launch, MayUse, MayLeave, GoneOrGoing, In, Outer
<1>2. CASE OnProcessLaunched
  BY <1>2, <1>h, <1>s DEF OnProcessLaunched, Idle, GoneOrGoing, In, Outer
<1>3. CASE OnProcessLaunchFailed
  BY <1>3, <1>h, <1>s, CallEffect, FrameTypes DEF OnProcessLaunchFailed, Idle, GoneOrGoing,
     In
<1>4. CASE OnChannelConnected
  BY <1>4, <1>h, <1>s DEF OnChannelConnected, Idle, GoneOrGoing, In, Outer
<1>5. CASE OnChannelError
  BY <1>5, <1>h, <1>s, CallEffect, FrameTypes DEF OnChannelError, ChannelInUse, Idle,
     GoneOrGoing, In
<1>6. CASE FastShutdownIfPossible
  BY <1>6, <1>h, <1>s, CallEffect, FrameTypes DEF FastShutdownIfPossible, Idle, GoneOrGoing,
     In
<1>7. CASE ProcessDiedStart
  BY <1>7, <1>h, <1>s, DeathEffect DEF ProcessDiedStart, ResetIPC, ResetChannelProxy,
     ConnectedAfterReset, GoneOrGoing, In
<1>8. CASE ProcessDiedTells
  <2>1. UNCHANGED <<deleting_soon, listeners, countVars>>
    BY <1>8 DEF ProcessDiedTells, TellExited
  <2>2. ~In("Cleanup", {"Exited", "Destroyed"})'
    <3>1. ASSUME NEW o \in Top.todo \cap Observers, ObserverIsTold(o, "Called")
          PROVE  ~In("Cleanup", {"Exited", "Destroyed"})'
      BY <1>8, <3>1, DeathEffect DEF ProcessDiedTells, TellExited, In
    <3>2. ASSUME SpareManagerIsTold("Exited")
          PROVE  ~In("Cleanup", {"Exited", "Destroyed"})'
      BY <1>8, <3>2, DeathEffect DEF ProcessDiedTells, TellExited, In
    <3> QED
      BY <1>8, <3>1, <3>2 DEF ProcessDiedTells, TellExited
  <2> QED
    BY <1>h, <1>s, <2>1, <2>2 DEF GoneOrGoing
<1>9. CASE ObserverReturns
  BY <1>9, <1>h, <1>s, DeathEffect DEF ObserverReturns, GoneOrGoing, In
<1>10. CASE ProcessDiedReturns
  BY <1>10, <1>h, <1>s, DeathEffect DEF ProcessDiedReturns, EnableSendQueue,
     InitializeChannelProxy, ConnectedAfterReset, GoneOrGoing, In
<1>11. CASE CleanupLater
  BY <1>11, <1>h, <1>s, EndingEffect DEF CleanupLater, GoneOrGoing, In
<1>12. CASE CleanupNot
  BY <1>12, <1>h, <1>s, EndingEffect DEF CleanupNot, GoneOrGoing, In
<1>13. CASE CleanupEndsProcess
  BY <1>13, <1>h, <1>s, EndingEffect DEF CleanupEndsProcess, GoneOrGoing, In
<1>14. CASE CleanupStarts
  <2>1. UNCHANGED <<listeners, countVars>> /\ ~IsOwned /\ ~MayExit
    BY <1>14 DEF CleanupStarts
  <2>2. Unreferenced
    BY <2>1 DEF IsOwned, Unreferenced
  <2> QED
    BY <1>s, <2>1, <2>2
<1>15. CASE CleanupTells
  <2>1. UNCHANGED <<listeners, countVars>>
    BY <1>15 DEF CleanupTells, TellExited
  <2>2. GoneOrGoing
    BY <1>15, TellsInCleanup DEF GoneOrGoing, In
  <2> QED
    BY <1>h, <1>s, <2>1, <2>2
<1>16. CASE CleanupToldAll
  <2>1. UNCHANGED <<listeners, countVars>>
    BY <1>16 DEF CleanupToldAll
  <2>2. GoneOrGoing
    BY <1>16, EndingEffect DEF GoneOrGoing, In
  <2> QED
    BY <1>h, <1>s, <2>1, <2>2
<1>17. CASE CleanupDestroys
  <2>1. UNCHANGED <<listeners, countVars>>
    BY <1>17 DEF CleanupDestroys
  <2>2. GoneOrGoing
    BY <1>17, DestroysInCleanup DEF GoneOrGoing, In
  <2> QED
    BY <1>h, <1>s, <2>1, <2>2
<1>18. CASE CleanupReturns
  <2>1. UNCHANGED <<listeners, countVars>>
    BY <1>18 DEF CleanupReturns, ResetIPC
  <2>2. GoneOrGoing
    BY <1>18, EndingEffect DEF GoneOrGoing, In
  <2> QED
    BY <1>h, <1>s, <2>1, <2>2
<1>19. CASE Delete
  BY <1>19, <1>h, <1>s DEF Delete, Idle, GoneOrGoing, In, Outer
<1>20. CASE \E r \in Routes : AddRoute(r)
  BY <1>20, <1>h, <1>c DEF AddRoute, MayUse, MayLeave, GoneOrGoing, In, Outer
<1>21. CASE \E v \in Views : ViewLeaves(v)
  BY <1>21, <1>h, <1>c, CallEffect, FrameTypes DEF ViewLeaves, RemoveRoute, MayUse, MayLeave,
     GoneOrGoing, In
<1>22. CASE \E f \in Frames : CreateRenderFrame(f)
  BY <1>22, <1>h, <1>s DEF CreateRenderFrame, MayUse, MayLeave, GoneOrGoing, In, Outer
<1>23. CASE \E f \in Frames : FrameDestructs(f)
  BY <1>23, <1>h, <1>s DEF FrameDestructs, GoneOrGoing, In, Outer
<1>23u. CASE FrameUnregisters
  BY <1>23u, <1>h, <1>s DEF FrameUnregisters, GoneOrGoing, In, Outer
<1>24. CASE FrameLeaves
  BY <1>24, <1>h, <1>c, <1>d, CallEffect, FrameTypes DEF FrameLeaves, RemoveRoute, HasUnregistered,
     GoneOrGoing, Unreferenced, In
<1>25. CASE IncrementKeepAliveRefCount
  BY <1>25, <1>h, <1>c DEF IncrementKeepAliveRefCount, MayUse, MayLeave, GoneOrGoing, In, Outer
<1>26. CASE DecrementKeepAliveRefCount
  BY <1>26, <1>h, <1>c, CallEffect, FrameTypes DEF DecrementKeepAliveRefCount,
     CleanupIfAllZero, MayUse, MayLeave, GoneOrGoing, In
<1>27. CASE IncrementWorkerRefCount
  BY <1>27, <1>h, <1>c DEF IncrementWorkerRefCount, MayUse, MayLeave, GoneOrGoing, In, Outer
<1>28. CASE DecrementWorkerRefCount
  BY <1>28, <1>h, <1>c, CallEffect, FrameTypes DEF DecrementWorkerRefCount,
     CleanupIfAllZero, MayUse, MayLeave, GoneOrGoing, In
<1>29. CASE DelayProcessShutdown
  BY <1>29, <1>h, <1>c DEF DelayProcessShutdown, MayUse, MayLeave, GoneOrGoing, In, Outer
<1>30. CASE CancelProcessShutdownDelay
  BY <1>30, <1>h, <1>s, CallEffect, FrameTypes DEF CancelProcessShutdownDelay,
     CleanupIfAllZero, Idle, GoneOrGoing, In
<1>31. CASE DisableRefCounts
  BY <1>31, <1>h, <1>s, CallEffect, FrameTypes DEF DisableRefCounts, Idle, GoneOrGoing, In
<1>32. CASE WarmupSpareRenderProcessHost
  BY <1>32, <1>h, <1>s DEF WarmupSpareRenderProcessHost, Launch, Idle, GoneOrGoing, In,
     Outer
<1>33. CASE MaybeTakeSpareRenderProcessHost
  BY <1>33, <1>h, <1>s DEF MaybeTakeSpareRenderProcessHost, Idle, GoneOrGoing, In, Outer
<1>34. CASE CleanupSpareRenderProcessHost
  BY <1>34, <1>h, <1>s, CallEffect, FrameTypes DEF CleanupSpareRenderProcessHost, Idle,
     GoneOrGoing, In
<1>35. CASE UNCHANGED vars
  BY <1>35, <1>h, <1>s DEF vars, GoneOrGoing, In, Outer
<1> QED
  BY <1>1, <1>2, <1>3, <1>4, <1>5, <1>6, <1>7, <1>8, <1>9, <1>10, <1>11, <1>12, <1>13,
     <1>14, <1>15, <1>16, <1>17, <1>18, <1>19, <1>20, <1>21, <1>22, <1>23, <1>23u, <1>24,
     <1>25, <1>26, <1>27, <1>28, <1>29, <1>30, <1>31, <1>32, <1>33, <1>34, <1>35 DEF Next, Process,
     Death, Ending, Client, SpareSteps

\* A host that deletes itself is not called again.
OutOfReach == stack = <<>> /\ channel = "None" /\ shutdown_delays = 0 /\ ~spare

LEMMA ReachStep ==
    TypeOK /\ StackShape /\ SpareUnused /\ DestructorsKeepRoutes /\ DeletingIsOutOfReach
    /\ [Next]_vars => (deleting_soon' => OutOfReach')
<1> SUFFICES ASSUME TypeOK, StackShape, SpareUnused, DestructorsKeepRoutes,
                    DeletingIsOutOfReach, [Next]_vars, deleting_soon'
             PROVE  OutOfReach'
  OBVIOUS
<1>h. deleting_soon => OutOfReach /\ listeners = {} /\ AreAllRefCountsZero
  BY DEF DeletingIsOutOfReach, OutOfReach
<1>d. destructing # <<>> => listeners # {}
  <2>1. destructing # <<>> => 1 \in DOMAIN destructing
    BY LenProperties, EmptySeq DEF TypeOK
  <2> QED
    BY <2>1 DEF DestructorsKeepRoutes, DestructorsOfRoutes, NotFound
<1>t. spare \in BOOLEAN /\ keep_alive_ref_count \in Nat /\ worker_ref_count \in Nat
  BY DEF TypeOK
<1> USE DEF OutOfReach, endVars, channelVars, Elsewhere, Running
<1>1. CASE InitHost
  BY <1>1, <1>h DEF InitHost, Launch, MayUse, MayLeave
<1>2. CASE OnProcessLaunched
  BY <1>2, <1>h DEF OnProcessLaunched, Idle
<1>3. CASE OnProcessLaunchFailed
  BY <1>3, <1>h DEF OnProcessLaunchFailed, Idle
<1>4. CASE OnChannelConnected
  BY <1>4, <1>h DEF OnChannelConnected, Idle
<1>5. CASE OnChannelError
  BY <1>5, <1>h DEF OnChannelError, ChannelInUse, Idle
<1>6. CASE FastShutdownIfPossible
  BY <1>6, <1>h DEF FastShutdownIfPossible, Idle
<1>7. CASE ProcessDiedStart
  BY <1>7, <1>h DEF ProcessDiedStart, ResetIPC, ResetChannelProxy, ConnectedAfterReset
<1>8. CASE ProcessDiedTells
  BY <1>8, <1>h DEF ProcessDiedTells, TellExited
<1>9. CASE ObserverReturns
  BY <1>9, <1>h DEF ObserverReturns
<1>10. CASE ProcessDiedReturns
  BY <1>10, <1>h DEF ProcessDiedReturns, EnableSendQueue, InitializeChannelProxy,
     ConnectedAfterReset
<1>11. CASE CleanupLater
  BY <1>11, <1>h DEF CleanupLater
<1>12. CASE CleanupNot
  BY <1>12, <1>h DEF CleanupNot
<1>13. CASE CleanupEndsProcess
  BY <1>13, <1>h DEF CleanupEndsProcess
<1>14. CASE CleanupStarts
  BY <1>14, <1>h DEF CleanupStarts
<1>15. CASE CleanupTells
  BY <1>15, <1>h DEF CleanupTells, TellExited
<1>16. CASE CleanupToldAll
  BY <1>16, <1>h DEF CleanupToldAll
<1>17. CASE CleanupDestroys
  BY <1>17, <1>h DEF CleanupDestroys
<1>18. CASE CleanupReturns
  <2>1. /\ stack' = <<>> /\ Top = Outer /\ In("Cleanup", {"Destroyed"})
        /\ LeftToTell = {} /\ spare' = spare
    BY <1>18, EndingEffect DEF CleanupReturns
  <2>2. ~spare
    BY <2>1 DEF SpareUnused, LeftToTell, In
  <2> QED
    BY <1>18, <2>1, <2>2 DEF CleanupReturns, ResetIPC, ResetChannelProxy
<1>19. CASE Delete
  BY <1>19, <1>h DEF Delete, Idle
<1>20. CASE \E r \in Routes : AddRoute(r)
  BY <1>20, <1>h DEF AddRoute, MayUse, MayLeave
<1>21. CASE \E v \in Views : ViewLeaves(v)
  BY <1>21, <1>h DEF ViewLeaves, RemoveRoute, MayUse, MayLeave
<1>22. CASE \E f \in Frames : CreateRenderFrame(f)
  BY <1>22, <1>h DEF CreateRenderFrame, MayUse, MayLeave
<1>23. CASE \E f \in Frames : FrameDestructs(f)
  BY <1>23, <1>h DEF FrameDestructs
<1>23u. CASE FrameUnregisters
  BY <1>23u, <1>h DEF FrameUnregisters
<1>24. CASE FrameLeaves
  BY <1>24, <1>h, <1>d DEF FrameLeaves, RemoveRoute, HasUnregistered
<1>25. CASE IncrementKeepAliveRefCount
  BY <1>25, <1>h DEF IncrementKeepAliveRefCount, MayUse, MayLeave
<1>26. CASE DecrementKeepAliveRefCount
  BY <1>26, <1>h DEF DecrementKeepAliveRefCount, CleanupIfAllZero, MayUse, MayLeave
<1>27. CASE IncrementWorkerRefCount
  BY <1>27, <1>h DEF IncrementWorkerRefCount, MayUse, MayLeave
<1>28. CASE DecrementWorkerRefCount
  BY <1>28, <1>h DEF DecrementWorkerRefCount, CleanupIfAllZero, MayUse, MayLeave
<1>29. CASE DelayProcessShutdown
  BY <1>29, <1>h DEF DelayProcessShutdown, MayUse, MayLeave
<1>30. CASE CancelProcessShutdownDelay
  BY <1>30, <1>h DEF CancelProcessShutdownDelay, CleanupIfAllZero, Idle
<1>31. CASE DisableRefCounts
  BY <1>31, <1>h DEF DisableRefCounts, Idle
<1>32. CASE WarmupSpareRenderProcessHost
  BY <1>32, <1>h DEF WarmupSpareRenderProcessHost, Launch, Idle
<1>33. CASE MaybeTakeSpareRenderProcessHost
  BY <1>33, <1>h DEF MaybeTakeSpareRenderProcessHost, Idle
<1>34. CASE CleanupSpareRenderProcessHost
  BY <1>34, <1>h DEF CleanupSpareRenderProcessHost, Idle
<1>35. CASE UNCHANGED vars
  BY <1>35, <1>h DEF vars
<1> QED
  BY <1>1, <1>2, <1>3, <1>4, <1>5, <1>6, <1>7, <1>8, <1>9, <1>10, <1>11, <1>12, <1>13,
     <1>14, <1>15, <1>16, <1>17, <1>18, <1>19, <1>20, <1>21, <1>22, <1>23, <1>23u, <1>24,
     <1>25, <1>26, <1>27, <1>28, <1>29, <1>30, <1>31, <1>32, <1>33, <1>34, <1>35 DEF Next, Process,
     Death, Ending, Client, SpareSteps

LEMMA DeletingStep ==
    TypeOK /\ StackShape /\ SpareUnused /\ DestructorsKeepRoutes /\ DeletingIsOutOfReach
    /\ [Next]_vars => DeletingIsOutOfReach'
BY TeardownStep, ReachStep DEF DeletingIsOutOfReach, GoneOrGoing, Unreferenced, OutOfReach

\* A host that deletes itself goes on doing so.
LEMMA DeletingKept ==
    TypeOK /\ [Next]_vars => (deleting_soon => UNCHANGED deleting_soon)
<1> SUFFICES ASSUME TypeOK, [Next]_vars, deleting_soon PROVE UNCHANGED deleting_soon
  OBVIOUS
<1>t. deleting_soon = TRUE
  BY DEF TypeOK
<1> USE DEF endVars, Elsewhere
<1>1. CASE InitHost
  BY <1>1 DEF InitHost, Launch, MayUse, MayLeave
<1>2. CASE OnProcessLaunched
  BY <1>2 DEF OnProcessLaunched, Idle
<1>3. CASE OnProcessLaunchFailed
  BY <1>3 DEF OnProcessLaunchFailed, Idle
<1>4. CASE OnChannelConnected
  BY <1>4 DEF OnChannelConnected, Idle
<1>5. CASE OnChannelError
  BY <1>5 DEF OnChannelError, ChannelInUse, Idle
<1>6. CASE FastShutdownIfPossible
  BY <1>6 DEF FastShutdownIfPossible, Idle
<1>7. CASE ProcessDiedStart
  BY <1>7 DEF ProcessDiedStart, ResetIPC, ResetChannelProxy, ConnectedAfterReset
<1>8. CASE ProcessDiedTells
  BY <1>8 DEF ProcessDiedTells, TellExited
<1>9. CASE ObserverReturns
  BY <1>9 DEF ObserverReturns
<1>10. CASE ProcessDiedReturns
  BY <1>10 DEF ProcessDiedReturns, EnableSendQueue, InitializeChannelProxy,
     ConnectedAfterReset
<1>11. CASE CleanupLater
  BY <1>11 DEF CleanupLater
<1>12. CASE CleanupNot
  BY <1>12 DEF CleanupNot
<1>13. CASE CleanupEndsProcess
  BY <1>13 DEF CleanupEndsProcess
<1>14. CASE CleanupStarts
  BY <1>14 DEF CleanupStarts
<1>15. CASE CleanupTells
  BY <1>15 DEF CleanupTells, TellExited
<1>16. CASE CleanupToldAll
  BY <1>16 DEF CleanupToldAll
<1>17. CASE CleanupDestroys
  BY <1>17 DEF CleanupDestroys
<1>18. CASE CleanupReturns
  BY <1>18, <1>t DEF CleanupReturns, ResetIPC, ResetChannelProxy, ConnectedAfterReset
<1>19. CASE Delete
  BY <1>19 DEF Delete, Idle
<1>20. CASE \E r \in Routes : AddRoute(r)
  BY <1>20 DEF AddRoute, MayUse, MayLeave
<1>21. CASE \E v \in Views : ViewLeaves(v)
  BY <1>21 DEF ViewLeaves, RemoveRoute, MayUse, MayLeave
<1>22. CASE \E f \in Frames : CreateRenderFrame(f)
  BY <1>22 DEF CreateRenderFrame, MayUse, MayLeave
<1>23. CASE \E f \in Frames : FrameDestructs(f)
  BY <1>23 DEF FrameDestructs
<1>23u. CASE FrameUnregisters
  BY <1>23u DEF FrameUnregisters
<1>24. CASE FrameLeaves
  BY <1>24 DEF FrameLeaves, RemoveRoute
<1>25. CASE IncrementKeepAliveRefCount
  BY <1>25 DEF IncrementKeepAliveRefCount, MayUse, MayLeave
<1>26. CASE DecrementKeepAliveRefCount
  BY <1>26 DEF DecrementKeepAliveRefCount, CleanupIfAllZero, MayUse, MayLeave
<1>27. CASE IncrementWorkerRefCount
  BY <1>27 DEF IncrementWorkerRefCount, MayUse, MayLeave
<1>28. CASE DecrementWorkerRefCount
  BY <1>28 DEF DecrementWorkerRefCount, CleanupIfAllZero, MayUse, MayLeave
<1>29. CASE DelayProcessShutdown
  BY <1>29 DEF DelayProcessShutdown, MayUse, MayLeave
<1>30. CASE CancelProcessShutdownDelay
  BY <1>30 DEF CancelProcessShutdownDelay, CleanupIfAllZero, Idle
<1>31. CASE DisableRefCounts
  BY <1>31 DEF DisableRefCounts, Idle
<1>32. CASE WarmupSpareRenderProcessHost
  BY <1>32 DEF WarmupSpareRenderProcessHost, Launch, Idle
<1>33. CASE MaybeTakeSpareRenderProcessHost
  BY <1>33 DEF MaybeTakeSpareRenderProcessHost, Idle
<1>34. CASE CleanupSpareRenderProcessHost
  BY <1>34 DEF CleanupSpareRenderProcessHost, Idle
<1>35. CASE UNCHANGED vars
  BY <1>35 DEF vars
<1> QED
  BY <1>1, <1>2, <1>3, <1>4, <1>5, <1>6, <1>7, <1>8, <1>9, <1>10, <1>11, <1>12, <1>13,
     <1>14, <1>15, <1>16, <1>17, <1>18, <1>19, <1>20, <1>21, <1>22, <1>23, <1>23u, <1>24,
     <1>25, <1>26, <1>27, <1>28, <1>29, <1>30, <1>31, <1>32, <1>33, <1>34, <1>35 DEF Next, Process,
     Death, Ending, Client, SpareSteps

\* In the last iteration of Cleanup() nothing else runs.
LEMMA OnlyDestroys ==
    TypeOK /\ StackShape /\ In("Cleanup", {"Destroyed"}) /\ [Next]_vars =>
        \/ UNCHANGED <<stack, exits>>
        \/ UNCHANGED exits /\ (CleanupReturns \/ CleanupDestroys)
<1> SUFFICES ASSUME TypeOK, StackShape, In("Cleanup", {"Destroyed"}), [Next]_vars
             PROVE  \/ UNCHANGED <<stack, exits>>
                    \/ UNCHANGED exits /\ (CleanupReturns \/ CleanupDestroys)
  OBVIOUS
<1>1. stack \in Seq(Activations) /\ stack # <<>>
  BY DEF TypeOK, In
<1>2. Len(stack) # 2
  BY DEF StackShape, In
<1>3. Len(stack) = 1
  <2> DEFINE n == Len(stack)
  <2>1. n \in Nat /\ n # 0 /\ n # 2
    BY <1>1, <1>2, StackFacts
  <2>2. n <= 2
    BY DEF StackShape
  <2> HIDE DEF n
  <2>3. n = 1
    BY <2>1, <2>2
  <2> QED
    BY <2>3 DEF n
<1>4. Top.fn = "Cleanup" /\ Top.at = "Destroyed"
  BY <1>3 DEF In, Top, Outer
<1>5. CASE InitHost
  BY <1>5, <1>1, <1>4 DEF InitHost, MayUse, MayLeave, ClientRuns, Running, historyVars, Elsewhere
<1>6. CASE OnProcessLaunched
  BY <1>6, <1>1, <1>4 DEF OnProcessLaunched, Idle, Running, historyVars, Elsewhere
<1>7. CASE OnProcessLaunchFailed
  BY <1>7, <1>1, <1>4 DEF OnProcessLaunchFailed, Idle, Running, historyVars, Elsewhere
<1>8. CASE OnChannelConnected
  BY <1>8, <1>1, <1>4 DEF OnChannelConnected, Idle, Running, historyVars, Elsewhere
<1>9. CASE OnChannelError
  BY <1>9, <1>1, <1>4 DEF OnChannelError, Idle, Running, historyVars, Elsewhere
<1>10. CASE FastShutdownIfPossible
  BY <1>10, <1>1, <1>4 DEF FastShutdownIfPossible, Idle, Running, historyVars, Elsewhere
<1>11. CASE ProcessDiedStart
  BY <1>11, <1>1, <1>4 DEF ProcessDiedStart, Running, historyVars, Elsewhere
<1>12. CASE ProcessDiedTells
  BY <1>12, <1>1, <1>4 DEF ProcessDiedTells, TellExited, Running, historyVars, Elsewhere
<1>13. CASE ObserverReturns
  BY <1>13, <1>1, <1>4 DEF ObserverReturns, Running, historyVars, Elsewhere
<1>14. CASE ProcessDiedReturns
  BY <1>14, <1>1, <1>4 DEF ProcessDiedReturns, Running, historyVars, Elsewhere
<1>15. CASE CleanupLater
  BY <1>15, <1>1, <1>4 DEF CleanupLater, Running, historyVars, Elsewhere
<1>16. CASE CleanupNot
  BY <1>16, <1>1, <1>4 DEF CleanupNot, Running, historyVars, Elsewhere
<1>17. CASE CleanupEndsProcess
  BY <1>17, <1>1, <1>4 DEF CleanupEndsProcess, Running, historyVars, Elsewhere
<1>18. CASE CleanupStarts
  BY <1>18, <1>1, <1>4 DEF CleanupStarts, Running, historyVars, Elsewhere
<1>19. CASE CleanupTells
  BY <1>19, <1>1, <1>4 DEF CleanupTells, TellExited, Running, historyVars, Elsewhere
<1>20. CASE CleanupToldAll
  BY <1>20, <1>1, <1>4 DEF CleanupToldAll, Running, historyVars, Elsewhere
<1>21. CASE CleanupDestroys
  BY <1>21, <1>1, <1>4 DEF CleanupDestroys, Running, historyVars, Elsewhere
<1>22. CASE CleanupReturns
  BY <1>22, <1>1, <1>4 DEF CleanupReturns, Running, historyVars, Elsewhere
<1>23. CASE Delete
  BY <1>23, <1>1, <1>4 DEF Delete, Idle, historyVars, Elsewhere
<1>24. CASE \E r \in Routes : AddRoute(r)
  BY <1>24, <1>1, <1>4 DEF AddRoute, MayUse, MayLeave, ClientRuns, Running, historyVars, Elsewhere
<1>25. CASE \E v \in Views : ViewLeaves(v)
  BY <1>25, <1>1, <1>4 DEF ViewLeaves, MayUse, MayLeave, ClientRuns, Running, historyVars, Elsewhere
<1>26. CASE \E f \in Frames : CreateRenderFrame(f)
  BY <1>26, <1>1, <1>4 DEF CreateRenderFrame, MayUse, MayLeave, ClientRuns, Running, historyVars,
     Elsewhere
<1>27. CASE \E f \in Frames : FrameDestructs(f)
  BY <1>27, <1>1, <1>4 DEF FrameDestructs, ClientRuns, Running, historyVars, Elsewhere
<1>27u. CASE FrameUnregisters
  BY <1>27u, <1>1, <1>4 DEF FrameUnregisters, ClientRuns, Running, historyVars, Elsewhere
<1>28. CASE FrameLeaves
  BY <1>28, <1>1, <1>4 DEF FrameLeaves, ClientRuns, Running, historyVars, Elsewhere
<1>29. CASE IncrementKeepAliveRefCount
  BY <1>29, <1>1, <1>4 DEF IncrementKeepAliveRefCount, MayUse, MayLeave, ClientRuns, Running,
     historyVars, Elsewhere
<1>30. CASE DecrementKeepAliveRefCount
  BY <1>30, <1>1, <1>4 DEF DecrementKeepAliveRefCount, MayUse, MayLeave, ClientRuns, Running,
     historyVars, Elsewhere
<1>31. CASE IncrementWorkerRefCount
  BY <1>31, <1>1, <1>4 DEF IncrementWorkerRefCount, MayUse, MayLeave, ClientRuns, Running,
     historyVars, Elsewhere
<1>32. CASE DecrementWorkerRefCount
  BY <1>32, <1>1, <1>4 DEF DecrementWorkerRefCount, MayUse, MayLeave, ClientRuns, Running,
     historyVars, Elsewhere
<1>33. CASE DelayProcessShutdown
  BY <1>33, <1>1, <1>4 DEF DelayProcessShutdown, MayUse, MayLeave, ClientRuns, Running, historyVars,
     Elsewhere
<1>34. CASE CancelProcessShutdownDelay
  BY <1>34, <1>1, <1>4 DEF CancelProcessShutdownDelay, Idle, Running, historyVars, Elsewhere
<1>35. CASE DisableRefCounts
  BY <1>35, <1>1, <1>4 DEF DisableRefCounts, Idle, Running, historyVars, Elsewhere
<1>36. CASE WarmupSpareRenderProcessHost
  BY <1>36, <1>1, <1>4 DEF WarmupSpareRenderProcessHost, Idle, Running, historyVars,
     Elsewhere
<1>37. CASE MaybeTakeSpareRenderProcessHost
  BY <1>37, <1>1, <1>4 DEF MaybeTakeSpareRenderProcessHost, Idle, Running, historyVars,
     Elsewhere
<1>38. CASE CleanupSpareRenderProcessHost
  BY <1>38, <1>1, <1>4 DEF CleanupSpareRenderProcessHost, Idle, Running, historyVars,
     Elsewhere
<1>39. CASE UNCHANGED vars
  BY <1>39, <1>1, <1>4 DEF vars, historyVars, Elsewhere
<1> QED
  BY <1>5, <1>6, <1>7, <1>8, <1>9, <1>10, <1>11, <1>12, <1>13, <1>14, <1>15, <1>16, <1>17,
     <1>18, <1>19, <1>20, <1>21, <1>22, <1>23, <1>24, <1>25, <1>26, <1>27, <1>27u, <1>28,
     <1>29, <1>30, <1>31, <1>32, <1>33, <1>34, <1>35, <1>36, <1>37, <1>38, <1>39 DEF Next, Process,
     Death, Ending, Client, SpareSteps

\* No step but the last iteration of Cleanup() tells of the destruction.
LEMMA DestroyedKept ==
    [Next]_vars => UNCHANGED destroyed \/ CleanupDestroys
<1> SUFFICES ASSUME [Next]_vars, ~CleanupDestroys PROVE UNCHANGED destroyed
  OBVIOUS
<1> USE DEF historyVars, Elsewhere
<1>1. CASE InitHost
  BY <1>1 DEF InitHost, Launch, MayUse, MayLeave
<1>2. CASE OnProcessLaunched
  BY <1>2 DEF OnProcessLaunched, Idle
<1>3. CASE OnProcessLaunchFailed
  BY <1>3 DEF OnProcessLaunchFailed, Idle
<1>4. CASE OnChannelConnected
  BY <1>4 DEF OnChannelConnected, Idle
<1>5. CASE OnChannelError
  BY <1>5 DEF OnChannelError, ChannelInUse, Idle
<1>6. CASE FastShutdownIfPossible
  BY <1>6 DEF FastShutdownIfPossible, Idle
<1>7. CASE ProcessDiedStart
  BY <1>7 DEF ProcessDiedStart, ResetIPC, ResetChannelProxy, ConnectedAfterReset
<1>8. CASE ProcessDiedTells
  BY <1>8 DEF ProcessDiedTells, TellExited
<1>9. CASE ObserverReturns
  BY <1>9 DEF ObserverReturns
<1>10. CASE ProcessDiedReturns
  BY <1>10 DEF ProcessDiedReturns, EnableSendQueue, InitializeChannelProxy,
     ConnectedAfterReset
<1>11. CASE CleanupLater
  BY <1>11 DEF CleanupLater
<1>12. CASE CleanupNot
  BY <1>12 DEF CleanupNot
<1>13. CASE CleanupEndsProcess
  BY <1>13 DEF CleanupEndsProcess
<1>14. CASE CleanupStarts
  BY <1>14 DEF CleanupStarts
<1>15. CASE CleanupTells
  BY <1>15 DEF CleanupTells, TellExited
<1>16. CASE CleanupToldAll
  BY <1>16 DEF CleanupToldAll
<1>17. CASE CleanupDestroys
  BY <1>17
<1>18. CASE CleanupReturns
  BY <1>18 DEF CleanupReturns, ResetIPC, ResetChannelProxy, ConnectedAfterReset
<1>19. CASE Delete
  BY <1>19 DEF Delete, Idle
<1>20. CASE \E r \in Routes : AddRoute(r)
  BY <1>20 DEF AddRoute, MayUse, MayLeave
<1>21. CASE \E v \in Views : ViewLeaves(v)
  BY <1>21 DEF ViewLeaves, RemoveRoute, MayUse, MayLeave
<1>22. CASE \E f \in Frames : CreateRenderFrame(f)
  BY <1>22 DEF CreateRenderFrame, MayUse, MayLeave
<1>23. CASE \E f \in Frames : FrameDestructs(f)
  BY <1>23 DEF FrameDestructs
<1>23u. CASE FrameUnregisters
  BY <1>23u DEF FrameUnregisters
<1>24. CASE FrameLeaves
  BY <1>24 DEF FrameLeaves, RemoveRoute
<1>25. CASE IncrementKeepAliveRefCount
  BY <1>25 DEF IncrementKeepAliveRefCount, MayUse, MayLeave
<1>26. CASE DecrementKeepAliveRefCount
  BY <1>26 DEF DecrementKeepAliveRefCount, CleanupIfAllZero, MayUse, MayLeave
<1>27. CASE IncrementWorkerRefCount
  BY <1>27 DEF IncrementWorkerRefCount, MayUse, MayLeave
<1>28. CASE DecrementWorkerRefCount
  BY <1>28 DEF DecrementWorkerRefCount, CleanupIfAllZero, MayUse, MayLeave
<1>29. CASE DelayProcessShutdown
  BY <1>29 DEF DelayProcessShutdown, MayUse, MayLeave
<1>30. CASE CancelProcessShutdownDelay
  BY <1>30 DEF CancelProcessShutdownDelay, CleanupIfAllZero, Idle
<1>31. CASE DisableRefCounts
  BY <1>31 DEF DisableRefCounts, Idle
<1>32. CASE WarmupSpareRenderProcessHost
  BY <1>32 DEF WarmupSpareRenderProcessHost, Launch, Idle
<1>33. CASE MaybeTakeSpareRenderProcessHost
  BY <1>33 DEF MaybeTakeSpareRenderProcessHost, Idle
<1>34. CASE CleanupSpareRenderProcessHost
  BY <1>34 DEF CleanupSpareRenderProcessHost, Idle
<1>35. CASE UNCHANGED vars
  BY <1>35 DEF vars
<1> QED
  BY <1>1, <1>2, <1>3, <1>4, <1>5, <1>6, <1>7, <1>8, <1>9, <1>10, <1>11, <1>12, <1>13,
     <1>14, <1>15, <1>16, <1>17, <1>18, <1>19, <1>20, <1>21, <1>22, <1>23, <1>23u, <1>24,
     <1>25, <1>26, <1>27, <1>28, <1>29, <1>30, <1>31, <1>32, <1>33, <1>34, <1>35 DEF Next, Process,
     Death, Ending, Client, SpareSteps

\* An observer that was told of the destruction is not told of anything again.
LEMMA DestroyedStep ==
    HostInv /\ [Next]_vars => DestroyedOnTheWayOut'
<1> SUFFICES ASSUME HostInv, [Next]_vars, NEW o \in Observers, destroyed'[o] > 0
             PROVE  deleting_soon' \/ (In("Cleanup", {"Destroyed"})' /\ o \notin Outer'.todo)
  BY DEF DestroyedOnTheWayOut
<1> DEFINE Told == deleting_soon' \/ (In("Cleanup", {"Destroyed"})' /\ o \notin Outer'.todo)
<1>i. TypeOK /\ StackShape /\ SpareUnused /\ DeletingIsOutOfReach
  BY DEF HostInv
<1>h. destroyed[o] > 0 =>
          deleting_soon \/ (In("Cleanup", {"Destroyed"}) /\ o \notin Outer.todo)
  BY DEF HostInv, DestroyedOnTheWayOut
<1>k. CASE CleanupDestroys
  <2>1. PICK p \in Top.todo :
            /\ Top = Outer /\ Outer'.todo = Outer.todo \ {p}
            /\ destroyed' = IF p = SpareManager THEN destroyed
                            ELSE [destroyed EXCEPT ![p] = @ + 1]
    BY <1>i, <1>k, DestroysInCleanup
  <2>2. In("Cleanup", {"Destroyed"}) /\ In("Cleanup", {"Destroyed"})'
    BY <1>i, <1>k, DestroysInCleanup
  <2>3. CASE o = p
    BY <2>1, <2>2, <2>3
  <2>4. CASE o # p
    <3>1. destroyed'[o] = destroyed[o]
      BY <1>i, <2>1, <2>4 DEF TypeOK
    <3>2. ~deleting_soon
      BY <1>i, <2>2 DEF DeletingIsOutOfReach, In
    <3> QED
      BY <1>h, <2>1, <2>2, <3>1, <3>2
  <2> QED
    BY <2>3, <2>4
<1>n. CASE ~CleanupDestroys
  <2>1. destroyed[o] > 0
    BY <1>n, DestroyedKept
  <2>2. CASE deleting_soon
    <3>1. UNCHANGED deleting_soon
      BY <1>i, <2>2, DeletingKept
    <3> QED
      BY <2>2, <3>1
  <2>3. CASE ~deleting_soon
    <3>1. In("Cleanup", {"Destroyed"}) /\ o \notin Outer.todo
      BY <1>h, <2>1, <2>3
    <3>2. UNCHANGED stack \/ CleanupReturns
      BY <1>i, <1>n, <3>1, OnlyDestroys
    <3>3. CASE UNCHANGED stack
      BY <3>1, <3>3 DEF In, Outer
    <3>4. CASE CleanupReturns
      BY <3>4 DEF CleanupReturns
    <3> QED
      BY <3>2, <3>3, <3>4
  <2> QED
    BY <2>2, <2>3
<1> QED
  BY <1>k, <1>n

\* Observers are told by activations only.
LEMMA TellsNeedStack ==
    [Next]_vars /\ stack = <<>> => UNCHANGED <<exits, destroyed>>
<1> SUFFICES ASSUME [Next]_vars, stack = <<>> PROVE UNCHANGED <<exits, destroyed>>
  OBVIOUS
<1> USE DEF historyVars, Elsewhere, Running
<1>1. CASE InitHost
  BY <1>1 DEF InitHost, Launch, MayUse, MayLeave
<1>2. CASE OnProcessLaunched
  BY <1>2 DEF OnProcessLaunched, Idle
<1>3. CASE OnProcessLaunchFailed
  BY <1>3 DEF OnProcessLaunchFailed, Idle
<1>4. CASE OnChannelConnected
  BY <1>4 DEF OnChannelConnected, Idle
<1>5. CASE OnChannelError
  BY <1>5 DEF OnChannelError, ChannelInUse, Idle
<1>6. CASE FastShutdownIfPossible
  BY <1>6 DEF FastShutdownIfPossible, Idle
<1>7. CASE ProcessDiedStart
  BY <1>7 DEF ProcessDiedStart, ResetIPC, ResetChannelProxy, ConnectedAfterReset
<1>8. CASE ProcessDiedTells
  BY <1>8 DEF ProcessDiedTells, TellExited
<1>9. CASE ObserverReturns
  BY <1>9 DEF ObserverReturns
<1>10. CASE ProcessDiedReturns
  BY <1>10 DEF ProcessDiedReturns, EnableSendQueue, InitializeChannelProxy,
     ConnectedAfterReset
<1>11. CASE CleanupLater
  BY <1>11 DEF CleanupLater
<1>12. CASE CleanupNot
  BY <1>12 DEF CleanupNot
<1>13. CASE CleanupEndsProcess
  BY <1>13 DEF CleanupEndsProcess
<1>14. CASE CleanupStarts
  BY <1>14 DEF CleanupStarts
<1>15. CASE CleanupTells
  BY <1>15 DEF CleanupTells, TellExited
<1>16. CASE CleanupToldAll
  BY <1>16 DEF CleanupToldAll
<1>17. CASE CleanupDestroys
  BY <1>17 DEF CleanupDestroys
<1>18. CASE CleanupReturns
  BY <1>18 DEF CleanupReturns, ResetIPC, ResetChannelProxy, ConnectedAfterReset
<1>19. CASE Delete
  BY <1>19 DEF Delete, Idle
<1>20. CASE \E r \in Routes : AddRoute(r)
  BY <1>20 DEF AddRoute, MayUse, MayLeave
<1>21. CASE \E v \in Views : ViewLeaves(v)
  BY <1>21 DEF ViewLeaves, RemoveRoute, MayUse, MayLeave
<1>22. CASE \E f \in Frames : CreateRenderFrame(f)
  BY <1>22 DEF CreateRenderFrame, MayUse, MayLeave
<1>23. CASE \E f \in Frames : FrameDestructs(f)
  BY <1>23 DEF FrameDestructs
<1>23u. CASE FrameUnregisters
  BY <1>23u DEF FrameUnregisters
<1>24. CASE FrameLeaves
  BY <1>24 DEF FrameLeaves, RemoveRoute
<1>25. CASE IncrementKeepAliveRefCount
  BY <1>25 DEF IncrementKeepAliveRefCount, MayUse, MayLeave
<1>26. CASE DecrementKeepAliveRefCount
  BY <1>26 DEF DecrementKeepAliveRefCount, CleanupIfAllZero, MayUse, MayLeave
<1>27. CASE IncrementWorkerRefCount
  BY <1>27 DEF IncrementWorkerRefCount, MayUse, MayLeave
<1>28. CASE DecrementWorkerRefCount
  BY <1>28 DEF DecrementWorkerRefCount, CleanupIfAllZero, MayUse, MayLeave
<1>29. CASE DelayProcessShutdown
  BY <1>29 DEF DelayProcessShutdown, MayUse, MayLeave
<1>30. CASE CancelProcessShutdownDelay
  BY <1>30 DEF CancelProcessShutdownDelay, CleanupIfAllZero, Idle
<1>31. CASE DisableRefCounts
  BY <1>31 DEF DisableRefCounts, Idle
<1>32. CASE WarmupSpareRenderProcessHost
  BY <1>32 DEF WarmupSpareRenderProcessHost, Launch, Idle
<1>33. CASE MaybeTakeSpareRenderProcessHost
  BY <1>33 DEF MaybeTakeSpareRenderProcessHost, Idle
<1>34. CASE CleanupSpareRenderProcessHost
  BY <1>34 DEF CleanupSpareRenderProcessHost, Idle
<1>35. CASE UNCHANGED vars
  BY <1>35 DEF vars
<1> QED
  BY <1>1, <1>2, <1>3, <1>4, <1>5, <1>6, <1>7, <1>8, <1>9, <1>10, <1>11, <1>12, <1>13,
     <1>14, <1>15, <1>16, <1>17, <1>18, <1>19, <1>20, <1>21, <1>22, <1>23, <1>23u, <1>24,
     <1>25, <1>26, <1>27, <1>28, <1>29, <1>30, <1>31, <1>32, <1>33, <1>34, <1>35 DEF Next, Process,
     Death, Ending, Client, SpareSteps

-----------------------------------------------------------------------------
(* The theorems. *)

LEMMA HostInit == Init => HostInv
<1> SUFFICES ASSUME Init PROVE HostInv
  OBVIOUS
<1>1. /\ stack = <<>> /\ stack \in Seq(Activations) /\ Len(stack) = 0
      /\ destructing = <<>> /\ interrupted = <<>> /\ <<>> \in Seq(Frames)
      /\ Hosts(destructing) = {} /\ Hosts(interrupted) = {} /\ NotFound = {}
      /\ Distinct(destructing) /\ Distinct(interrupted)
  BY EmptySeq, LenProperties, NoHosts DEF Init, NotFound, Hosts
<1>2. TypeOK
  <2>1. FlagTypes
    BY DEF Init, FlagTypes
  <2>2. exits \in [Observers -> Nat] /\ destroyed \in [Observers -> Nat]
    BY DEF Init
  <2>3. DataTypes
    BY <1>1, <2>2, BoundAssumption DEF Init, DataTypes
  <2> QED
    BY <1>1, <2>1, <2>3, TypeParts
<1>3. DelaysCount /\ StackShape /\ SpareUnused /\ DestructorsKeepRoutes
  BY <1>1 DEF Init, DelaysCount, StackShape, SpareUnused, DestructorsKeepRoutes,
              DestructorsOfRoutes, In, AreAllRefCountsZero
<1>4. ProcessHasLauncher /\ DeletingIsOutOfReach /\ DestroyedOnTheWayOut
  BY <1>1 DEF Init, ProcessHasLauncher, DeletingIsOutOfReach, DestroyedOnTheWayOut, In,
              IsInitializedAndNotDead
<1> QED
  BY <1>2, <1>3, <1>4 DEF HostInv

LEMMA HostStep == HostInv /\ [Next]_vars => HostInv'
<1> SUFFICES ASSUME HostInv, [Next]_vars PROVE HostInv'
  OBVIOUS
<1>i. /\ TypeOK /\ DelaysCount /\ StackShape /\ SpareUnused /\ DestructorsKeepRoutes
      /\ ProcessHasLauncher /\ DeletingIsOutOfReach
  BY DEF HostInv
<1>1. TypeOK' /\ DelaysCount' /\ StackShape'
  BY <1>i, TypeStep, FineStep DEF Fine
<1>2. SpareUnused' /\ DestructorsKeepRoutes'
  BY <1>i, SpareStep, DestructorsStep
<1>3. ProcessHasLauncher' /\ DeletingIsOutOfReach'
  BY <1>i, LauncherStep, DeletingStep
<1>4. DestroyedOnTheWayOut'
  BY DestroyedStep
<1> QED
  BY <1>1, <1>2, <1>3, <1>4 DEF HostInv

LEMMA HostInvariant == Spec => []HostInv
BY HostInit, HostStep, PTL DEF Spec

\* The variables keep their types; in particular no count goes below zero, whatever
\* CancelProcessShutdownDelay() and DisableRefCounts() do to it.
THEOREM HostTypeCorrect == Spec => []TypeOK
<1>1. HostInv => TypeOK
  BY DEF HostInv
<1> QED
  BY <1>1, HostInvariant, PTL

\* From the first callback of the real teardown to the deletion nothing refers to the host.
THEOREM TeardownCorrect == Spec => []TeardownIsUnreferenced
<1>1. HostInv => TeardownIsUnreferenced
  <2> SUFFICES ASSUME HostInv,
                      \/ deleting_soon
                      \/ Running("Cleanup", "Exited") \/ Running("Cleanup", "Destroyed")
               PROVE  listeners = {} /\ AreAllRefCountsZero /\ NotFound = {}
    BY DEF TeardownIsUnreferenced
  <2>1. deleting_soon \/ In("Cleanup", {"Exited"}) \/ In("Cleanup", {"Destroyed"})
    BY Places DEF HostInv
  <2> QED
    BY <2>1 DEF HostInv, DeletingIsOutOfReach, DestructorsKeepRoutes, DestructorsOfRoutes, In
<1> QED
  BY <1>1, HostInvariant, PTL

\* The DCHECKs of ProcessDied() and GetChildTerminationInfo() and the CHECK of Cleanup().
THEOREM ChecksHold == Spec => []DeathAndTeardownChecks
<1>1. HostInv => DeathAndTeardownChecks
  <2> SUFFICES ASSUME HostInv PROVE DeathAndTeardownChecks
    OBVIOUS
  <2>1. ASSUME Running("ProcessDied", "Start")
        PROVE  /\ launcher # "None" /\ ~within_process_died_observer
               /\ ~deleting_soon /\ registered \cap NotFound = {}
    <3>1. In("ProcessDied", {"Start"})
      BY <2>1, Places DEF HostInv
    <3> QED
      BY <3>1 DEF HostInv, ProcessHasLauncher, StackShape, DeletingIsOutOfReach,
                  DestructorsKeepRoutes, In
  <2>2. stack # <<>> => ~deleting_soon
    BY DEF HostInv, DeletingIsOutOfReach
  <2> QED
    BY <2>1, <2>2 DEF DeathAndTeardownChecks
<1> QED
  BY <1>1, HostInvariant, PTL

\* RenderProcessHostDestroyed() is the last callback an observer gets, and it gets it once.
THEOREM DestroyedLast == Spec => DestroyedIsLast
<1>1. HostInv /\ [Next]_vars =>
          [\A o \in Observers : destroyed[o] > 0 => /\ destroyed'[o] = destroyed[o]
                                                    /\ exits'[o] = exits[o]]_vars
  <2> SUFFICES ASSUME HostInv, [Next]_vars, NEW o \in Observers, destroyed[o] > 0
               PROVE  destroyed'[o] = destroyed[o] /\ exits'[o] = exits[o]
    OBVIOUS
  <2>i. TypeOK /\ StackShape
    BY DEF HostInv
  <2>1. CASE deleting_soon
    <3>1. stack = <<>>
      BY <2>1 DEF HostInv, DeletingIsOutOfReach
    <3> QED
      BY <3>1, TellsNeedStack
  <2>2. CASE ~deleting_soon
    <3>1. In("Cleanup", {"Destroyed"}) /\ o \notin Outer.todo
      BY <2>2 DEF HostInv, DestroyedOnTheWayOut
    <3>2. UNCHANGED exits
      BY <2>i, <3>1, OnlyDestroys
    <3>3. CASE CleanupDestroys
      <4>1. PICK p \in Top.todo :
                /\ Top = Outer
                /\ destroyed' = IF p = SpareManager THEN destroyed
                                ELSE [destroyed EXCEPT ![p] = @ + 1]
        BY <2>i, <3>3, DestroysInCleanup
      <4>2. p # o
        BY <3>1, <4>1
      <4>3. destroyed'[o] = destroyed[o]
        BY <2>i, <4>1, <4>2 DEF TypeOK
      <4> QED
        BY <3>2, <4>3
    <3>4. CASE ~CleanupDestroys
      BY <3>2, <3>4, DestroyedKept
    <3> QED
      BY <3>2, <3>3, <3>4
  <2> QED
    BY <2>1, <2>2
<1> QED
  BY <1>1, HostInvariant, PTL DEF Spec, DestroyedIsLast

-----------------------------------------------------------------------------
(* The process the host serves: the second half of the invariant. *)

Dying   == In("ProcessDied", {"Start"})
Telling == In("ProcessDied", {"Exited", "Called"})

\* There is a launcher for a process that lives and for no other.
LauncherIsAlive == /\ launcher # "None" => IsInitializedAndNotDead
                   /\ inits = 0 => ~is_initialized

\* The channel is missing from the death of a process until Init() or the end of
\* ProcessDied(); a failed launch is a death.
ChannelIsGiven ==
    ~deleting_soon => /\ channel = "None" <=> (launcher = "None" /\ Telling)
                      /\ launcher = "Failed" => Dying
                      /\ launcher = "Running" <=> channel = "Open"
                      /\ launcher # "None" => invitation = "Moved"
                      /\ invitation = "Moved" => launcher # "None" \/ Telling

ReadyIsOfProcess ==
    IsInitializedAndNotDead /\ ~deleting_soon => (sent_render_process_ready <=> IsReady)

ShutdownIsOfProcess ==
    IsInitializedAndNotDead /\ ~deleting_soon /\ fast_shutdown_started => Dying

SpareIsAlive == spare => IsInitializedAndNotDead \/ Telling

ServiceInv == /\ LauncherIsAlive /\ ChannelIsGiven /\ ReadyIsOfProcess
              /\ ShutdownIsOfProcess /\ SpareIsAlive

\* Steps that touch neither the process nor what an iteration has still to do: clients
\* take and drop references, and call Cleanup() by dropping them.
Stays == (stack' = <<>> <=> stack = <<>>) /\ Outer' = Outer
Rests == /\ UNCHANGED <<processVars, channelVars, fast_shutdown_started, deleting_soon,
                        inits, exits>>
         /\ spare' => spare
         /\ Stays \/ (stack = <<>> /\ In("Cleanup", {"Start"})')

LEMMA RestingCalls ==
    ASSUME TypeOK, StackShape, UNCHANGED within_process_died_observer
    PROVE  /\ UNCHANGED stack => Stays
           /\ ClientRuns /\ Call("Cleanup") =>
                  Stays \/ (stack = <<>> /\ In("Cleanup", {"Start"})')
<1>1. UNCHANGED stack => Stays
  BY DEF Stays, Outer
<1>2. ASSUME ClientRuns, Call("Cleanup")
      PROVE  Stays \/ (stack = <<>> /\ In("Cleanup", {"Start"})')
  BY <1>2, CallEffect, FrameTypes DEF Stays, In
<1> QED
  BY <1>1, <1>2

LEMMA StepKinds ==
    ASSUME TypeOK, StackShape, [Next]_vars
    PROVE  \/ Rests
           \/ InitHost \/ WarmupSpareRenderProcessHost
           \/ OnProcessLaunched \/ OnProcessLaunchFailed
           \/ OnChannelConnected \/ OnChannelError \/ FastShutdownIfPossible
           \/ ProcessDiedStart \/ ProcessDiedTells \/ ObserverReturns \/ ProcessDiedReturns
           \/ CleanupNot \/ CleanupEndsProcess \/ CleanupStarts
           \/ CleanupTells \/ CleanupToldAll \/ CleanupDestroys \/ CleanupReturns
           \/ Delete
<1> USE DEF Elsewhere, endVars, historyVars, Rests
<1>1. CASE CleanupLater
  <2>1. stack' # <<>> /\ Outer' = Outer /\ stack # <<>>
    BY <1>1, EndingEffect DEF In
  <2> QED
    BY <1>1, <2>1 DEF CleanupLater, Stays
<1>2. CASE \E r \in Routes : AddRoute(r)
  BY <1>2, RestingCalls DEF AddRoute
<1>3. CASE \E v \in Views : ViewLeaves(v)
  BY <1>3, RestingCalls DEF ViewLeaves, RemoveRoute, MayUse, MayLeave
<1>4. CASE \E f \in Frames : CreateRenderFrame(f)
  BY <1>4, RestingCalls DEF CreateRenderFrame
<1>5. CASE \E f \in Frames : FrameDestructs(f)
  BY <1>5, RestingCalls DEF FrameDestructs
<1>5u. CASE FrameUnregisters
  BY <1>5u, RestingCalls DEF FrameUnregisters
<1>6. CASE FrameLeaves
  BY <1>6, RestingCalls DEF FrameLeaves, RemoveRoute
<1>7. CASE IncrementKeepAliveRefCount
  BY <1>7, RestingCalls DEF IncrementKeepAliveRefCount
<1>8. CASE DecrementKeepAliveRefCount
  BY <1>8, RestingCalls DEF DecrementKeepAliveRefCount, CleanupIfAllZero, MayUse, MayLeave
<1>9. CASE IncrementWorkerRefCount
  BY <1>9, RestingCalls DEF IncrementWorkerRefCount
<1>10. CASE DecrementWorkerRefCount
  BY <1>10, RestingCalls DEF DecrementWorkerRefCount, CleanupIfAllZero, MayUse, MayLeave
<1>11. CASE DelayProcessShutdown
  BY <1>11, RestingCalls DEF DelayProcessShutdown
<1>i. Idle => ClientRuns
  BY DEF Idle, ClientRuns
<1>12. CASE CancelProcessShutdownDelay
  BY <1>12, <1>i, RestingCalls DEF CancelProcessShutdownDelay, CleanupIfAllZero
<1>13. CASE DisableRefCounts
  BY <1>13, <1>i, RestingCalls DEF DisableRefCounts
<1>14. CASE MaybeTakeSpareRenderProcessHost
  BY <1>14, RestingCalls DEF MaybeTakeSpareRenderProcessHost
<1>15. CASE CleanupSpareRenderProcessHost
  BY <1>15, <1>i, RestingCalls DEF CleanupSpareRenderProcessHost
<1>16. CASE UNCHANGED vars
  BY <1>16, RestingCalls DEF vars
<1> QED
  BY <1>1, <1>2, <1>3, <1>4, <1>5, <1>5u, <1>6, <1>7, <1>8, <1>9, <1>10, <1>11, <1>12, <1>13,
     <1>14, <1>15, <1>16 DEF Next, Process, Death, Ending, Client, SpareSteps

\* A task that calls ProcessDied() makes the host start dying.
LEMMA DiesNext ==
    ASSUME TypeOK, StackShape, stack = <<>>, Call("ProcessDied"),
           UNCHANGED within_process_died_observer
    PROVE  Dying' /\ ~Telling'
BY CallEffect, FrameTypes DEF Dying, Telling, In

\* Where the steps of ProcessDied() and Cleanup() take place, and where they lead.
LEMMA TellingStep ==
    ASSUME TypeOK, StackShape, SpareUnused
    PROVE  /\ ProcessDiedStart => Dying /\ Telling' /\ ~Dying'
           /\ ProcessDiedTells => Telling /\ Telling' /\ ~Dying'
           /\ ObserverReturns => Telling /\ Telling' /\ ~Dying'
           /\ ProcessDiedReturns => Telling /\ ~Telling' /\ ~Dying'
           /\ CleanupNot \/ CleanupStarts \/ CleanupTells \/ CleanupToldAll
              \/ CleanupDestroys \/ CleanupReturns => ~Telling /\ ~Dying /\ ~Telling' /\ ~Dying'
           /\ CleanupEndsProcess => ~Telling /\ Dying' /\ ~Telling'
<1>1. ProcessDiedStart => Dying /\ Telling' /\ ~Dying'
  BY DeathEffect DEF Dying, Telling, In
<1>2. ASSUME ProcessDiedTells PROVE Telling /\ Telling' /\ ~Dying'
  <2>1. Running("ProcessDied", "Exited") /\ UNCHANGED within_process_died_observer
    BY <1>2 DEF ProcessDiedTells, TellExited, endVars
  <2>2. ASSUME NEW o \in Top.todo \cap Observers, ObserverIsTold(o, "Called")
        PROVE  Telling /\ Telling' /\ ~Dying'
    BY <2>1, <2>2, DeathEffect DEF Dying, Telling, In
  <2>3. ASSUME SpareManagerIsTold("Exited")
        PROVE  Telling /\ Telling' /\ ~Dying'
    BY <2>1, <2>3, DeathEffect DEF Dying, Telling, In
  <2> QED
    BY <1>2, <2>2, <2>3 DEF ProcessDiedTells, TellExited
<1>3. ObserverReturns => Telling /\ Telling' /\ ~Dying'
  BY DeathEffect DEF Dying, Telling, In
<1>4. ProcessDiedReturns => Telling /\ ~Telling' /\ ~Dying'
  BY DeathEffect DEF Dying, Telling, In
<1>5. CleanupNot \/ CleanupStarts \/ CleanupToldAll \/ CleanupReturns =>
          ~Telling /\ ~Dying /\ ~Telling' /\ ~Dying'
  BY EndingEffect DEF Dying, Telling, In
<1>6. CleanupTells \/ CleanupDestroys => ~Telling /\ ~Dying /\ ~Telling' /\ ~Dying'
  BY TellsInCleanup, DestroysInCleanup DEF Dying, Telling, In
<1>7. CleanupEndsProcess => ~Telling /\ Dying' /\ ~Telling'
  BY EndingEffect DEF Dying, Telling, In
<1> QED
  BY <1>1, <1>2, <1>3, <1>4, <1>5, <1>6, <1>7

\* The parts speak of these variables only.
serviceVars == <<processVars, channelVars, fast_shutdown_started, deleting_soon, inits>>

LEMMA ServiceStep ==
    ASSUME HostInv, ServiceInv, [Next]_vars
    PROVE  ServiceInv'
<1>i. TypeOK /\ StackShape /\ SpareUnused
  BY DEF HostInv
<1>h. LauncherIsAlive /\ ChannelIsGiven /\ ReadyIsOfProcess /\ ShutdownIsOfProcess /\ SpareIsAlive
  BY DEF ServiceInv
<1>d. deleting_soon => stack = <<>> /\ ~spare
  BY DEF HostInv, DeletingIsOutOfReach
<1>e. stack = <<>> => ~Telling /\ ~Dying
  BY DEF Telling, Dying, In
<1>u. UNCHANGED stack => (Telling' <=> Telling) /\ (Dying' <=> Dying)
  BY DEF Telling, Dying, In, Outer
<1>s. \* Where only the place in ProcessDied() or Cleanup() may change.
      ASSUME UNCHANGED serviceVars, spare' => spare,
             (Telling' <=> Telling) /\ (Dying' <=> Dying)
      PROVE  ServiceInv'
  BY <1>h, <1>s DEF ServiceInv, LauncherIsAlive, ChannelIsGiven, ReadyIsOfProcess,
     ShutdownIsOfProcess, SpareIsAlive, IsReady, IsInitializedAndNotDead, serviceVars,
     processVars, channelVars
<1>t. ASSUME NEW fn, NEW back, TellExited(fn, back)
      PROVE  UNCHANGED serviceVars /\ (spare' => spare)
  <2>1. UNCHANGED serviceVars
    BY <1>t DEF TellExited, serviceVars, endVars
  <2>2. CASE SpareManagerIsTold("Exited")
    BY <2>1, <2>2 DEF SpareManagerIsTold
  <2>3. ASSUME NEW o \in Top.todo \cap Observers, ObserverIsTold(o, back)
        PROVE  UNCHANGED serviceVars /\ (spare' => spare)
    BY <2>1, <2>3 DEF ObserverIsTold
  <2> QED
    BY <1>t, <2>2, <2>3 DEF TellExited
<1> DEFINE Parts == /\ LauncherIsAlive' /\ ChannelIsGiven' /\ ReadyIsOfProcess'
                    /\ ShutdownIsOfProcess' /\ SpareIsAlive'
<1>p. Parts => ServiceInv'
  BY DEF ServiceInv
<1>l. ASSUME Launch, UNCHANGED <<deleting_soon, stack>>, ~Dying \/ ~deleting_soon
      PROVE  ServiceInv'
  <2>1. (Telling' <=> Telling) /\ (Dying' <=> Dying)
    BY <1>l, <1>u
  <2>2. inits' # 0
    BY <1>i, <1>l DEF Launch, TypeOK
  <2>3. Parts
    BY <1>h, <1>i, <1>l, <2>1, <2>2 DEF Launch, LauncherIsAlive, ChannelIsGiven,
       ReadyIsOfProcess, ShutdownIsOfProcess, SpareIsAlive, IsReady, IsInitializedAndNotDead
  <2> QED
    BY <1>p, <2>3
<1> HIDE DEF Parts
<1> USE DEF serviceVars, endVars, historyVars
<1>1. CASE Rests
  <2>1. (Telling' <=> Telling) /\ (Dying' <=> Dying)
    BY <1>1, <1>e DEF Rests, Stays, Telling, Dying, In
  <2> QED
    BY <1>1, <1>s, <2>1 DEF Rests
<1>2. CASE InitHost
  BY <1>2, <1>l DEF InitHost, MayUse, MayLeave
<1>3. CASE WarmupSpareRenderProcessHost
  BY <1>3, <1>l DEF WarmupSpareRenderProcessHost
<1>4. CASE OnProcessLaunched
  <2>1. ~Telling /\ ~Dying /\ ~Telling' /\ ~Dying'
    BY <1>4, <1>e, <1>u DEF OnProcessLaunched, Idle
  <2>2. Parts
    BY <1>4, <1>h, <1>i, <2>1 DEF Parts, OnProcessLaunched, LauncherIsAlive, ChannelIsGiven,
       ReadyIsOfProcess, ShutdownIsOfProcess, SpareIsAlive, IsReady,
       IsInitializedAndNotDead, TypeOK
  <2> QED
    BY <1>p, <2>2
<1>5. CASE OnProcessLaunchFailed
  <2>1. ~Telling /\ ~Dying /\ ~Telling' /\ (~deleting_soon => Dying')
    BY <1>5, <1>e, <1>i, <1>u, DiesNext DEF OnProcessLaunchFailed, Idle
  <2>2. Parts
    BY <1>5, <1>h, <1>i, <2>1 DEF Parts, OnProcessLaunchFailed, LauncherIsAlive,
       ChannelIsGiven, ReadyIsOfProcess, ShutdownIsOfProcess, SpareIsAlive, IsReady,
       IsInitializedAndNotDead, channelVars
  <2> QED
    BY <1>p, <2>2
<1>6. CASE OnChannelConnected
  <2>1. (Telling' <=> Telling) /\ (Dying' <=> Dying)
    BY <1>6, <1>u DEF OnChannelConnected
  <2>2. Parts
    BY <1>6, <1>h, <1>i, <2>1 DEF Parts, OnChannelConnected, LauncherIsAlive,
       ChannelIsGiven, ReadyIsOfProcess, ShutdownIsOfProcess, SpareIsAlive, IsReady,
       IsInitializedAndNotDead, processVars, TypeOK
  <2> QED
    BY <1>p, <2>2
<1>7. CASE OnChannelError \/ FastShutdownIfPossible
  <2>1. ~Telling /\ ~Dying /\ ~Telling' /\ Dying'
    BY <1>7, <1>e, <1>i, DiesNext DEF OnChannelError, FastShutdownIfPossible, Idle
  <2>2. /\ UNCHANGED <<processVars, channelVars, deleting_soon, inits, spare>>
        /\ launcher # "Failed" \/ deleting_soon
    BY <1>7, <1>h, <2>1 DEF OnChannelError, FastShutdownIfPossible, ChannelIsGiven
  <2>3. Parts
    BY <1>h, <2>1, <2>2 DEF Parts, LauncherIsAlive, ChannelIsGiven, ReadyIsOfProcess,
       ShutdownIsOfProcess, SpareIsAlive, IsReady, IsInitializedAndNotDead, processVars,
       channelVars
  <2> QED
    BY <1>p, <2>3
<1>8. CASE ProcessDiedStart
  <2>1. Dying /\ Telling' /\ ~Dying'
    BY <1>8, <1>i, TellingStep
  <2>2. Parts
    BY <1>8, <1>h, <2>1 DEF Parts, ProcessDiedStart, ResetIPC, ResetChannelProxy,
       LauncherIsAlive, ChannelIsGiven, ReadyIsOfProcess, ShutdownIsOfProcess, SpareIsAlive,
       IsInitializedAndNotDead
  <2> QED
    BY <1>p, <2>2
<1>9. CASE ProcessDiedTells \/ ObserverReturns
  <2>1. Telling /\ ~Dying /\ Telling' /\ ~Dying'
    BY <1>9, <1>i, TellingStep DEF Telling, Dying, In
  <2>2. UNCHANGED serviceVars /\ (spare' => spare)
    BY <1>9, <1>t DEF ProcessDiedTells, ObserverReturns
  <2>3. Parts
    BY <1>h, <2>1, <2>2 DEF Parts, LauncherIsAlive, ChannelIsGiven, ReadyIsOfProcess,
       ShutdownIsOfProcess, SpareIsAlive, IsReady, IsInitializedAndNotDead, processVars,
       channelVars
  <2> QED
    BY <1>p, <2>3
<1>10. CASE ProcessDiedReturns
  <2>1. Telling /\ ~Telling' /\ ~Dying' /\ ~Dying
    BY <1>10, <1>i, TellingStep DEF Telling, Dying, In
  <2>2. ~spare
    BY <1>10, <1>i, DeathEffect DEF ProcessDiedReturns, LeftToTell, SpareUnused, In
  <2>3. ~deleting_soon
    BY <1>d, <2>1 DEF Telling, In
  <2>4. CASE channel = "None"
    <3>1. launcher = "None" /\ channel' = "Paused" /\ invitation' = "Held"
      BY <1>10, <1>h, <2>3, <2>4 DEF ProcessDiedReturns, EnableSendQueue,
         InitializeChannelProxy, ChannelIsGiven
    <3>2. ~IsInitializedAndNotDead
      BY <3>1 DEF HostInv, ProcessHasLauncher
    <3>3. UNCHANGED <<processVars, deleting_soon, inits, spare>>
      BY <1>10 DEF ProcessDiedReturns
    <3> QED
      BY <1>h, <1>p, <2>1, <2>2, <3>1, <3>2, <3>3 DEF Parts, LauncherIsAlive, ChannelIsGiven,
         ReadyIsOfProcess, ShutdownIsOfProcess, SpareIsAlive, IsInitializedAndNotDead,
         processVars
  <2>5. CASE channel # "None"
    <3>1. UNCHANGED serviceVars /\ UNCHANGED spare
      BY <1>10, <2>5 DEF ProcessDiedReturns, EnableSendQueue, channelVars
    <3>2. launcher # "None"
      BY <1>h, <2>1, <2>3, <2>5 DEF ChannelIsGiven
    <3> QED
      BY <1>h, <1>p, <2>1, <2>2, <2>5, <3>1, <3>2 DEF Parts, LauncherIsAlive, ChannelIsGiven,
         ReadyIsOfProcess, ShutdownIsOfProcess, SpareIsAlive, IsReady,
         IsInitializedAndNotDead, processVars, channelVars
  <2> QED
    BY <2>4, <2>5
<1>11. CASE CleanupNot \/ CleanupStarts \/ CleanupTells \/ CleanupToldAll \/ CleanupDestroys
  <2>1. ~Telling /\ ~Dying /\ ~Telling' /\ ~Dying'
    BY <1>11, <1>i, TellingStep
  <2>2. UNCHANGED serviceVars /\ (spare' => spare)
    <3>1. CASE CleanupTells
      BY <1>t, <3>1 DEF CleanupTells
    <3>2. CASE CleanupDestroys
      BY <3>2 DEF CleanupDestroys
    <3> QED
      BY <1>11, <3>1, <3>2 DEF CleanupNot, CleanupStarts, CleanupToldAll
  <2> QED
    BY <1>s, <2>1, <2>2
<1>12. CASE CleanupEndsProcess
  <2>1. ~Telling /\ Dying' /\ ~Telling'
    BY <1>12, <1>i, TellingStep
  <2>2. /\ UNCHANGED <<processVars, channelVars, deleting_soon, inits, spare>>
        /\ ~Dying
    BY <1>12, <1>i, EndingEffect DEF CleanupEndsProcess, Dying, In
  <2>3. Parts
    BY <1>h, <2>1, <2>2 DEF Parts, LauncherIsAlive, ChannelIsGiven, ReadyIsOfProcess,
       ShutdownIsOfProcess, SpareIsAlive, IsReady, IsInitializedAndNotDead, processVars,
       channelVars
  <2> QED
    BY <1>p, <2>3
<1>13. CASE CleanupReturns
  <2>1. deleting_soon' /\ UNCHANGED <<processVars, inits, spare>> /\ ~Telling
    BY <1>13, <1>i, TellingStep DEF CleanupReturns
  <2> QED
    BY <1>h, <1>p, <2>1 DEF Parts, LauncherIsAlive, ChannelIsGiven, ReadyIsOfProcess,
       ShutdownIsOfProcess, SpareIsAlive, IsInitializedAndNotDead, processVars
<1>14. CASE Delete
  <2>1. deleting_soon' /\ ~spare'
    BY <1>14, <1>d DEF Delete
  <2> QED
    BY <1>14, <1>h, <1>p, <2>1 DEF Delete, Parts, LauncherIsAlive, ChannelIsGiven,
       ReadyIsOfProcess, ShutdownIsOfProcess, SpareIsAlive
<1> QED
  BY <1>i, <1>1, <1>2, <1>3, <1>4, <1>5, <1>6, <1>7, <1>8, <1>9, <1>10, <1>11, <1>12, <1>13,
     <1>14, StepKinds

-----------------------------------------------------------------------------
(* Each death is told once. *)

OneIf(p) == IF p THEN 1 ELSE 0

\* A process whose death no iteration tells yet.
Lives == IsInitializedAndNotDead /\ ~deleting_soon /\ ~In("Cleanup", {"Exited", "Destroyed"})

\* The observers that are still to hear of a death by the iteration that runs.
ToTell == IF Telling \/ In("Cleanup", {"Exited"}) THEN Outer.todo ELSE {}

\* Of all processes there were each observer has heard, but of one that lives and of one
\* whose death it is about to hear of.
DeathsAreTold ==
    \A o \in Observers : exits[o] + OneIf(Lives) + OneIf(o \in ToTell) = inits

\* One turn of an iteration over the observers.
LEMMA TellsOne ==
    ASSUME TypeOK, StackShape, SpareUnused, ProcessDiedTells \/ CleanupTells
    PROVE  /\ ProcessDiedTells => Telling /\ Telling'
           /\ CleanupTells => In("Cleanup", {"Exited"}) /\ In("Cleanup", {"Exited"})'
           /\ \E o \in Watchers :
                 /\ o \in Outer.todo /\ Outer'.todo = Outer.todo \ {o}
                 /\ exits' = IF o \in Observers THEN [exits EXCEPT ![o] = @ + 1] ELSE exits
<1> DEFINE Turn(o) ==
               /\ o \in Outer.todo /\ Outer'.todo = Outer.todo \ {o}
               /\ exits' = IF o \in Observers THEN [exits EXCEPT ![o] = @ + 1] ELSE exits
<1>w. Observers \subseteq Watchers /\ SpareManager \in Watchers /\ SpareManager \notin Observers
  BY ObserverAssumption DEF Watchers
<1>1. ASSUME ProcessDiedTells PROVE \E o \in Watchers : Turn(o)
  <2>1. /\ Running("ProcessDied", "Exited") /\ UNCHANGED within_process_died_observer
        /\ Top = Outer
    BY <1>1, Places DEF ProcessDiedTells, TellExited, endVars
  <2>2. ASSUME NEW o \in Top.todo \cap Observers, ObserverIsTold(o, "Called")
        PROVE  Turn(o)
    <3>1. Outer'.todo = Outer.todo \ {o}
      BY <2>1, <2>2, DeathEffect
    <3> QED
      BY <2>1, <2>2, <3>1 DEF ObserverIsTold
  <2>3. ASSUME SpareManagerIsTold("Exited") PROVE Turn(SpareManager)
    <3>1. Outer'.todo = Outer.todo \ {SpareManager}
      BY <2>1, <2>3, DeathEffect
    <3> QED
      BY <1>w, <2>1, <2>3, <3>1 DEF SpareManagerIsTold, LeftToTell
  <2> HIDE DEF Turn
  <2> QED
    BY <1>1, <1>w, <2>2, <2>3 DEF ProcessDiedTells, TellExited
<1>2. ASSUME CleanupTells PROVE \E o \in Watchers : Turn(o)
  <2>1. /\ Running("Cleanup", "Exited") /\ UNCHANGED within_process_died_observer
        /\ Top = Outer
    BY <1>2, Places DEF CleanupTells, TellExited, endVars
  <2>2. ASSUME NEW o \in Top.todo \cap Observers, ObserverIsTold(o, "Exited")
        PROVE  Turn(o)
    <3>1. Outer'.todo = Outer.todo \ {o}
      BY <1>w, <2>1, <2>2, EndingEffect DEF ObserverIsTold
    <3> QED
      BY <2>1, <2>2, <3>1 DEF ObserverIsTold
  <2>3. ASSUME SpareManagerIsTold("Exited") PROVE Turn(SpareManager)
    <3>1. are_ref_counts_disabled
      BY <2>1, <2>3, Places DEF SpareManagerIsTold, LeftToTell, SpareUnused, In, TypeOK
    <3>2. Goto("Exited", Top.todo \ {SpareManager})
      BY <2>3, <3>1 DEF SpareManagerIsTold, Goto
    <3>3. Outer'.todo = Outer.todo \ {SpareManager}
      BY <1>w, <2>1, <3>2, EndingEffect
    <3> QED
      BY <1>w, <2>1, <2>3, <3>3 DEF SpareManagerIsTold, LeftToTell
  <2> HIDE DEF Turn
  <2> QED
    BY <1>2, <1>w, <2>2, <2>3 DEF CleanupTells, TellExited
<1>3. \E o \in Watchers : Turn(o)
  BY <1>1, <1>2
<1>4. CleanupTells => In("Cleanup", {"Exited"}) /\ In("Cleanup", {"Exited"})'
  BY TellsInCleanup
<1>5. ProcessDiedTells => Telling /\ Telling'
  BY TellingStep
<1> QED
  BY <1>3, <1>4, <1>5

\* Only Launch, a death and the end of the host change whether there is a living process.
LEMMA DeathsStep ==
    ASSUME HostInv, ServiceInv, DeathsAreTold, [Next]_vars
    PROVE  DeathsAreTold'
<1>i. TypeOK /\ StackShape /\ SpareUnused
  BY DEF HostInv
<1>d. deleting_soon => stack = <<>>
  BY DEF HostInv, DeletingIsOutOfReach
<1>o. SUFFICES ASSUME NEW o \in Observers
               PROVE  exits'[o] + OneIf(Lives') + OneIf(o \in ToTell') = inits'
  BY DEF DeathsAreTold
<1>h. exits[o] + OneIf(Lives) + OneIf(o \in ToTell) = inits
  BY DEF DeathsAreTold
<1>n. exits[o] \in Nat /\ inits \in Nat /\ o \in WatchersNow
  BY <1>i DEF TypeOK, WatchersNow
<1>g. \* The goal again, with the facts a case is to establish.
      /\ UNCHANGED <<exits, inits>> /\ (Lives' <=> Lives) /\ (o \in ToTell' <=> o \in ToTell)
         => exits'[o] + OneIf(Lives') + OneIf(o \in ToTell') = inits'
      /\ UNCHANGED <<exits, inits>> /\ ~Lives' /\ Lives /\ o \in ToTell' /\ o \notin ToTell
         => exits'[o] + OneIf(Lives') + OneIf(o \in ToTell') = inits'
      /\ UNCHANGED exits /\ inits' = inits + 1 /\ Lives' /\ ~Lives
         /\ (o \in ToTell' <=> o \in ToTell)
         => exits'[o] + OneIf(Lives') + OneIf(o \in ToTell') = inits'
      /\ exits'[o] = exits[o] + 1 /\ inits' = inits /\ (Lives' <=> Lives)
         /\ o \notin ToTell' /\ o \in ToTell
         => exits'[o] + OneIf(Lives') + OneIf(o \in ToTell') = inits'
  <2> HIDE DEF Lives, ToTell
  <2> QED
    BY <1>h, <1>n DEF OneIf
<1>e. /\ stack = <<>> => ~Telling /\ ToTell = {} /\ ~In("Cleanup", {"Exited", "Destroyed"})
      /\ stack' = <<>> =>
             ~Telling' /\ ToTell' = {} /\ ~In("Cleanup", {"Exited", "Destroyed"})'
  BY DEF Telling, In, ToTell
<1>s. Stays => /\ ToTell' = ToTell
               /\ In("Cleanup", {"Exited", "Destroyed"})' <=> In("Cleanup", {"Exited", "Destroyed"})
  BY DEF Stays, Telling, In, ToTell
<1>u. UNCHANGED stack => Stays
  BY DEF Stays, Outer
<1>l. ASSUME Launch, UNCHANGED <<deleting_soon, stack, exits>>, ~deleting_soon,
             ~IsInitializedAndNotDead, ~In("Cleanup", {"Exited", "Destroyed"})
      PROVE  exits'[o] + OneIf(Lives') + OneIf(o \in ToTell') = inits'
  <2>1. ToTell' = ToTell /\ ~In("Cleanup", {"Exited", "Destroyed"})'
    BY <1>l, <1>s, <1>u
  <2>2. Lives' /\ ~Lives /\ inits' = inits + 1
    BY <1>l, <2>1 DEF Launch, Lives, IsInitializedAndNotDead
  <2> QED
    BY <1>g, <1>l, <2>1, <2>2
<1> USE DEF IsInitializedAndNotDead, processVars, endVars, historyVars
<1>1. CASE Rests
  <2>1. ToTell' = ToTell /\ (Lives' <=> Lives)
    <3>1. CASE Stays
      BY <1>1, <1>s, <3>1 DEF Rests, Lives
    <3>2. CASE stack = <<>> /\ In("Cleanup", {"Start"})'
      BY <1>1, <1>e, <3>2 DEF Rests, Lives, ToTell, Telling, In
    <3> QED
      BY <1>1, <3>1, <3>2 DEF Rests
  <2> QED
    BY <1>1, <1>g, <2>1 DEF Rests
<1>2. CASE InitHost
  <2>1. ~In("Cleanup", {"Exited", "Destroyed"})
    BY <1>2, <1>i, Tops DEF InitHost, MayUse, MayLeave, In
  <2> QED
    BY <1>2, <1>l, <2>1 DEF InitHost, MayUse, MayLeave
<1>3. CASE WarmupSpareRenderProcessHost
  <2>1. ~IsInitializedAndNotDead
    BY <1>3 DEF WarmupSpareRenderProcessHost, ServiceInv, LauncherIsAlive
  <2> QED
    BY <1>3, <1>e, <1>l, <2>1 DEF WarmupSpareRenderProcessHost, Idle
<1>4. CASE OnProcessLaunched \/ OnChannelConnected
  <2>1. UNCHANGED <<is_initialized, is_dead, deleting_soon, stack, exits, inits>>
    BY <1>4 DEF OnProcessLaunched, OnChannelConnected
  <2> QED
    BY <1>g, <1>s, <1>u, <2>1 DEF Lives
<1>5. CASE OnProcessLaunchFailed \/ OnChannelError \/ FastShutdownIfPossible
  <2>1. /\ UNCHANGED <<is_initialized, is_dead, deleting_soon, exits, inits,
                       within_process_died_observer>>
        /\ stack = <<>> /\ (UNCHANGED stack \/ Call("ProcessDied"))
    BY <1>5 DEF OnProcessLaunchFailed, OnChannelError, FastShutdownIfPossible, Idle
  <2>2. CASE UNCHANGED stack
    BY <1>g, <1>s, <1>u, <2>1, <2>2 DEF Lives
  <2>3. CASE Call("ProcessDied")
    <3>1. Dying' /\ ~Telling'
      BY <1>i, <2>1, <2>3, DiesNext
    <3> QED
      BY <1>e, <1>g, <2>1, <3>1 DEF Lives, ToTell, Dying, In
  <2> QED
    BY <2>1, <2>2, <2>3
<1>6. CASE ProcessDiedStart
  <2>1. Dying /\ Telling' /\ Outer'.todo = WatchersNow
    BY <1>6, <1>i, DeathEffect, TellingStep
  <2>2. Lives /\ o \notin ToTell
    BY <1>d, <2>1 DEF HostInv, ServiceInv, ProcessHasLauncher, LauncherIsAlive, Lives, ToTell,
       Dying, Telling, In
  <2>3. ~Lives' /\ o \in ToTell'
    BY <1>6, <1>n, <2>1 DEF ProcessDiedStart, Lives, ToTell
  <2> QED
    BY <1>6, <1>g, <2>2, <2>3 DEF ProcessDiedStart
<1>7. CASE ProcessDiedTells \/ CleanupTells
  <2>1. PICK p \in Watchers :
            /\ p \in Outer.todo /\ Outer'.todo = Outer.todo \ {p}
            /\ exits' = IF p \in Observers THEN [exits EXCEPT ![p] = @ + 1] ELSE exits
    BY <1>7, <1>i, TellsOne
  <2>2. \/ Telling /\ Telling'
        \/ In("Cleanup", {"Exited"}) /\ In("Cleanup", {"Exited"})'
    BY <1>7, <1>i, TellsOne
  <2>3. ToTell = Outer.todo /\ ToTell' = Outer.todo \ {p}
    BY <2>1, <2>2 DEF ToTell
  <2>4. (Lives' <=> Lives) /\ UNCHANGED inits
    BY <1>7, <2>2 DEF ProcessDiedTells, CleanupTells, TellExited, Lives, Telling, In
  <2>5. exits \in [Observers -> Nat]
    BY <1>i DEF TypeOK
  <2>6. CASE p = o
    <3>1. exits'[o] = exits[o] + 1
      BY <2>1, <2>5, <2>6
    <3> QED
      BY <1>g, <2>1, <2>3, <2>4, <2>6, <3>1
  <2>7. CASE p # o
    <3>1. exits'[o] = exits[o]
      BY <2>1, <2>5, <2>7
    <3> QED
      BY <1>h, <2>3, <2>4, <2>7, <3>1 DEF OneIf
  <2> QED
    BY <2>6, <2>7
<1>8. CASE ObserverReturns
  <2>1. Telling /\ Telling' /\ Outer'.todo = Outer.todo
    BY <1>8, <1>i, DeathEffect, TellingStep
  <2> QED
    BY <1>8, <1>g, <2>1 DEF ObserverReturns, Lives, ToTell, Telling, In
<1>9. CASE ProcessDiedReturns
  <2>1. /\ Telling /\ Top = Outer /\ LeftToTell = {}
        /\ stack' = <<>> \/ In("Cleanup", {"Start"})'
    BY <1>9, <1>i, DeathEffect, TellingStep DEF ProcessDiedReturns
  <2>2. o \notin ToTell /\ o \notin ToTell' /\ ~In("Cleanup", {"Exited", "Destroyed"})'
    BY <1>e, <2>1, ObserverAssumption DEF LeftToTell, ToTell, Telling, In
  <2> QED
    BY <1>9, <1>g, <2>1, <2>2 DEF ProcessDiedReturns, Lives, Telling, In
<1>10. CASE CleanupNot
  <2>1. In("Cleanup", {"Start"}) /\ stack' = <<>>
    BY <1>10, <1>i, EndingEffect
  <2> QED
    BY <1>10, <1>e, <1>g, <2>1 DEF CleanupNot, Lives, ToTell, Telling, In
<1>11. CASE CleanupEndsProcess
  <2>1. In("Cleanup", {"Start"}) /\ Dying'
    BY <1>11, <1>i, EndingEffect DEF Dying
  <2> QED
    BY <1>11, <1>g, <2>1 DEF CleanupEndsProcess, Lives, ToTell, Telling, Dying, In
<1>12. CASE CleanupStarts
  <2>1. /\ In("Cleanup", {"Start"}) /\ In("Cleanup", {"Exited", "Destroyed"})'
        /\ Outer'.todo = WatchersNow
    BY <1>12, <1>i, EndingEffect
  <2>2. Outer'.at = IF IsInitializedAndNotDead THEN "Exited" ELSE "Destroyed"
    <3>1. /\ Top = Outer /\ Len(stack) = 1 /\ stack \in Seq(Activations)
          /\ Goto(IF IsInitializedAndNotDead THEN "Exited" ELSE "Destroyed", WatchersNow)
      BY <1>12, <1>i, Places DEF CleanupStarts, TypeOK
    <3>2. DOMAIN stack = 1..1
      BY <3>1, LenProperties
    <3> QED
      BY <3>1, <3>2 DEF Goto, Become, Further, Outer
  <2>3. UNCHANGED <<is_initialized, is_dead, deleting_soon, exits, inits>>
    BY <1>12 DEF CleanupStarts
  <2>4. ~deleting_soon /\ o \notin ToTell /\ ~Lives'
    BY <1>d, <2>1, <2>3 DEF In, ToTell, Telling, Lives
  <2>5. CASE IsInitializedAndNotDead
    BY <1>g, <1>n, <2>1, <2>2, <2>3, <2>4, <2>5 DEF In, ToTell, Telling, Lives
  <2>6. CASE ~IsInitializedAndNotDead
    BY <1>g, <2>1, <2>2, <2>3, <2>4, <2>6 DEF In, ToTell, Telling, Lives
  <2> QED
    BY <2>5, <2>6
<1>13. CASE CleanupToldAll
  <2>1. /\ In("Cleanup", {"Exited"}) /\ In("Cleanup", {"Destroyed"})'
        /\ LeftToTell = {} /\ Top = Outer
    BY <1>13, <1>i, EndingEffect, Places DEF CleanupToldAll
  <2>2. o \notin ToTell /\ o \notin ToTell'
    BY <2>1, ObserverAssumption DEF LeftToTell, ToTell, Telling, In
  <2> QED
    BY <1>13, <1>g, <2>1, <2>2 DEF CleanupToldAll, Lives, In
<1>14. CASE CleanupDestroys
  <2>1. In("Cleanup", {"Destroyed"}) /\ In("Cleanup", {"Destroyed"})'
    BY <1>14, <1>i, DestroysInCleanup
  <2> QED
    BY <1>14, <1>g, <2>1 DEF CleanupDestroys, Lives, ToTell, Telling, In
<1>15. CASE CleanupReturns
  <2>1. In("Cleanup", {"Destroyed"}) /\ stack' = <<>> /\ deleting_soon' /\ UNCHANGED <<inits, exits>>
    BY <1>15, <1>i, EndingEffect DEF CleanupReturns
  <2> QED
    BY <1>e, <1>g, <2>1 DEF Lives, ToTell, Telling, In
<1>16. CASE Delete
  BY <1>16, <1>g, <1>s, <1>u DEF Delete, Lives
<1> QED
  BY <1>i, <1>1, <1>2, <1>3, <1>4, <1>5, <1>6, <1>7, <1>8, <1>9, <1>10, <1>11, <1>12,
     <1>13, <1>14, <1>15, <1>16, StepKinds

-----------------------------------------------------------------------------
(* No host is left over. *)

\* Clients have used the host, and none refers to it any more.
Abandoned == referenced /\ listeners = {} /\ AreAllRefCountsZero

\* A call of Cleanup() that will find it so: one that runs, or one that waits for
\* ProcessDied() to end.
CleanupComes == \/ In("Cleanup", {"Start", "Exited", "Destroyed"})
                \/ Len(stack) = 2
                \/ Telling /\ delayed_cleanup_needed

NoLeak == Abandoned /\ ~deleting_soon => CleanupComes

\* The references of clients are unchanged.
refVars == <<referenced, listeners, countVars>>

\* A step adds a reference, or drops one and calls Cleanup(), or leaves them alone.
DropsLast == ClientRuns /\ Call("Cleanup") /\ UNCHANGED within_process_died_observer
Keeps == UNCHANGED <<refVars, stack, deleting_soon, delayed_cleanup_needed>>

LEMMA CallComes ==
    ASSUME TypeOK, StackShape, DropsLast
    PROVE  CleanupComes'
<1>1. stack \in Seq(Activations)
  BY DEF TypeOK
<1>2. CASE stack = <<>>
  BY <1>2, CallEffect, FrameTypes DEF DropsLast, CleanupComes, In
<1>3. CASE stack # <<>>
  <2>1. Nests
    BY <1>3, Tops DEF DropsLast, Nests
  <2> QED
    BY <1>1, <2>1, MoveFacts DEF CleanupComes
<1> QED
  BY <1>2, <1>3

LEMMA ReferenceKinds ==
    ASSUME TypeOK, [Next]_vars
    PROVE  \/ ~Abandoned'
           \/ DropsLast
           \/ Keeps
           \/ OnProcessLaunchFailed \/ OnChannelError \/ FastShutdownIfPossible
           \/ Death \/ (Ending /\ ~Delete)
<1>i. Idle => ClientRuns
  BY DEF Idle, ClientRuns
<1> USE DEF Elsewhere, endVars, historyVars, Keeps, refVars, DropsLast
<1>1. CASE InitHost \/ OnProcessLaunched \/ OnChannelConnected \/ Delete
  BY <1>1 DEF InitHost, OnProcessLaunched, OnChannelConnected, Delete
<1>2. CASE \E r \in Routes : AddRoute(r)
  BY <1>2 DEF AddRoute, Abandoned
<1>3. CASE \E v \in Views : ViewLeaves(v)
  BY <1>3 DEF ViewLeaves, RemoveRoute, MayUse, MayLeave
<1>4. CASE \E f \in Frames : CreateRenderFrame(f)
  BY <1>4 DEF CreateRenderFrame
<1>5. CASE \E f \in Frames : FrameDestructs(f)
  BY <1>5 DEF FrameDestructs
<1>5u. CASE FrameUnregisters
  BY <1>5u DEF FrameUnregisters
<1>6. CASE FrameLeaves
  BY <1>6 DEF FrameLeaves, RemoveRoute
<1>7. CASE IncrementKeepAliveRefCount \/ IncrementWorkerRefCount
  BY <1>7 DEF IncrementKeepAliveRefCount, IncrementWorkerRefCount, Abandoned,
     AreAllRefCountsZero, TypeOK
<1>8. CASE DecrementKeepAliveRefCount \/ DecrementWorkerRefCount
  BY <1>8 DEF DecrementKeepAliveRefCount, DecrementWorkerRefCount, CleanupIfAllZero, MayUse, MayLeave,
     Abandoned
<1>9. CASE DelayProcessShutdown
  BY <1>9 DEF DelayProcessShutdown, Abandoned, AreAllRefCountsZero, TypeOK
<1>10. CASE CancelProcessShutdownDelay
  BY <1>10, <1>i DEF CancelProcessShutdownDelay, CleanupIfAllZero, Abandoned, countVars
<1>11. CASE DisableRefCounts
  BY <1>11, <1>i DEF DisableRefCounts
<1>12. CASE WarmupSpareRenderProcessHost
  BY <1>12 DEF WarmupSpareRenderProcessHost
<1>13. CASE MaybeTakeSpareRenderProcessHost
  BY <1>13 DEF MaybeTakeSpareRenderProcessHost
<1>14. CASE CleanupSpareRenderProcessHost
  BY <1>14, <1>i DEF CleanupSpareRenderProcessHost
<1>15. CASE UNCHANGED vars
  BY <1>15 DEF vars
<1> QED
  BY <1>1, <1>2, <1>3, <1>4, <1>5, <1>5u, <1>6, <1>7, <1>8, <1>9, <1>10, <1>11, <1>12, <1>13,
     <1>14, <1>15 DEF Next, Process, Ending, Client, SpareSteps

\* ProcessDied() and Cleanup() neither forget a delayed cleanup nor add a reference.
LEMMA LeakStep ==
    ASSUME HostInv, NoLeak, [Next]_vars
    PROVE  NoLeak'
<1>i. TypeOK /\ StackShape /\ SpareUnused /\ registered \subseteq listeners
  BY DEF HostInv, DestructorsKeepRoutes, DestructorsOfRoutes
<1>d. deleting_soon => stack = <<>>
  BY DEF HostInv, DeletingIsOutOfReach
<1>e. stack = <<>> => ~CleanupComes
  <2>1. stack = <<>> => Len(stack) # 2
    BY <1>i, StackFacts DEF TypeOK
  <2> QED
    BY <2>1 DEF CleanupComes, Telling, In
<1>r. UNCHANGED refVars => (Abandoned' <=> Abandoned)
  BY DEF refVars, countVars, Abandoned, AreAllRefCountsZero
<1>a. Abandoned => /\ ~MayExit /\ ~IsOwned
                   /\ ~(Dying /\ ~deleting_soon)
  <2>1. Abandoned => ~MayExit /\ ~IsOwned
    BY <1>i DEF Abandoned, MayExit, HasOnlyNonLiveRenderFrameHosts, IsOwned
  <2>2. Dying => ~CleanupComes
    BY <1>i DEF Dying, CleanupComes, Telling, StackShape, In
  <2> QED
    BY <2>1, <2>2 DEF NoLeak
<1> SUFFICES ASSUME Abandoned', ~deleting_soon'
             PROVE  CleanupComes'
  BY DEF NoLeak
<1> USE DEF refVars, endVars, historyVars
<1>1. CASE DropsLast
  BY <1>1, <1>i, CallComes
<1>2. CASE Keeps
  BY <1>2, <1>r DEF Keeps, NoLeak, CleanupComes, Telling, In, Outer
<1>3. CASE OnProcessLaunchFailed \/ OnChannelError \/ FastShutdownIfPossible
  <2>1. stack = <<>> /\ UNCHANGED <<refVars, deleting_soon>>
    BY <1>3 DEF OnProcessLaunchFailed, OnChannelError, FastShutdownIfPossible, Idle
  <2> QED
    BY <1>e, <1>r, <2>1 DEF NoLeak
<1>4. CASE ProcessDiedStart
  <2>1. Dying /\ UNCHANGED <<refVars, deleting_soon>>
    BY <1>4, <1>i, TellingStep DEF ProcessDiedStart
  <2> QED
    BY <1>a, <1>r, <2>1
<1>5. CASE ProcessDiedTells \/ ObserverReturns
  <2>1. /\ Telling /\ Telling'
        /\ UNCHANGED <<refVars, deleting_soon, delayed_cleanup_needed>>
    BY <1>5, <1>i, TellingStep DEF ProcessDiedTells, TellExited, ObserverReturns
  <2>2. Len(stack) = 1
    BY <1>5, <1>i, Places DEF ProcessDiedTells, TellExited, ObserverReturns
  <2>3. delayed_cleanup_needed
    BY <1>r, <2>1, <2>2 DEF NoLeak, CleanupComes, Telling, In
  <2> QED
    BY <2>1, <2>3 DEF CleanupComes
<1>6. CASE ProcessDiedReturns
  <2>1. /\ Telling /\ Len(stack) = 1 /\ UNCHANGED <<refVars, deleting_soon>>
        /\ IF delayed_cleanup_needed THEN Become(Frame("Cleanup")) ELSE Return
    BY <1>6, <1>i, TellingStep, Places DEF ProcessDiedReturns
  <2>2. delayed_cleanup_needed
    BY <1>r, <2>1 DEF NoLeak, CleanupComes, Telling, In
  <2>3. stack \in Seq(Activations) /\ Becomes(Frame("Cleanup")) /\ Frame("Cleanup").at = "Start"
    BY <1>i, <2>1, <2>2, FrameTypes DEF Becomes, TypeOK
  <2>4. stack' # <<>> /\ Outer' = Frame("Cleanup")
    BY <2>3, MoveFacts, FrameTypes
  <2> QED
    BY <2>4, FrameTypes DEF CleanupComes, In
<1>7. CASE CleanupLater
  <2>1. In("ProcessDied", {"Exited", "Called"})'
    BY <1>7, <1>i, EndingEffect DEF In
  <2> QED
    BY <1>7, <2>1 DEF CleanupLater, CleanupComes, Telling
<1>8. CASE CleanupNot
  BY <1>8, <1>a, <1>r DEF CleanupNot
<1>9. CASE CleanupEndsProcess
  BY <1>9, <1>a, <1>r DEF CleanupEndsProcess
<1>10. CASE CleanupStarts \/ CleanupTells \/ CleanupToldAll \/ CleanupDestroys
  <2>1. In("Cleanup", {"Exited", "Destroyed"})'
    BY <1>10, <1>i, EndingEffect, TellsInCleanup, DestroysInCleanup DEF In
  <2> QED
    BY <2>1 DEF CleanupComes, In
<1>11. CASE CleanupReturns
  BY <1>11 DEF CleanupReturns
<1> QED
  BY <1>i, <1>1, <1>2, <1>3, <1>4, <1>5, <1>6, <1>7, <1>8, <1>9, <1>10, <1>11,
     ReferenceKinds DEF Death, Ending

-----------------------------------------------------------------------------
LifeInv == ServiceInv /\ DeathsAreTold /\ NoLeak

LEMMA LifeInvariant == Spec => [](HostInv /\ LifeInv)
<1>1. Init => LifeInv
  <2> SUFFICES ASSUME Init PROVE LifeInv
    OBVIOUS
  <2>1. ServiceInv
    BY DEF Init, ServiceInv, LauncherIsAlive, ChannelIsGiven, ReadyIsOfProcess,
       ShutdownIsOfProcess, SpareIsAlive, IsInitializedAndNotDead, Telling, In
  <2>2. DeathsAreTold
    BY DEF Init, DeathsAreTold, OneIf, Lives, IsInitializedAndNotDead, ToTell, Telling, In
  <2>3. NoLeak
    BY DEF Init, NoLeak, Abandoned
  <2> QED
    BY <2>1, <2>2, <2>3 DEF LifeInv
<1>2. HostInv /\ LifeInv /\ [Next]_vars => LifeInv'
  BY ServiceStep, DeathsStep, LeakStep DEF LifeInv
<1> QED
  BY <1>1, <1>2, HostInit, HostStep, PTL DEF Spec

\* Whatever an observer does in its callback, Init() included, each observer hears of each
\* process's death once and of no death that did not happen.
THEOREM DeathsCorrect == Spec => []DeathIsToldOnce
<1>1. HostInv /\ LifeInv => DeathIsToldOnce
  <2> SUFFICES ASSUME HostInv, LifeInv, stack = <<>>, NEW o \in Observers
               PROVE  exits[o] = inits - OneIf(IsInitializedAndNotDead /\ ~deleting_soon)
    BY DEF DeathIsToldOnce, OneIf
  <2>1. ToTell = {} /\ (Lives <=> IsInitializedAndNotDead /\ ~deleting_soon)
    BY DEF ToTell, Lives, Telling, In
  <2>2. exits[o] + OneIf(Lives) + 0 = inits
    BY <2>1 DEF LifeInv, DeathsAreTold, OneIf
  <2>3. exits[o] \in Nat /\ inits \in Nat
    BY DEF HostInv, TypeOK
  <2> QED
    BY <2>1, <2>2, <2>3 DEF OneIf
<1> QED
  BY <1>1, LifeInvariant, PTL

\* Between tasks the channel, the readiness and the shutdown flag are those of the process
\* the host has now.
THEOREM ServiceCorrect == Spec => []ServesItsProcess
<1>1. HostInv /\ LifeInv => ServesItsProcess
  <2> SUFFICES ASSUME HostInv, LifeInv, Idle, ~deleting_soon
               PROVE  ServesItsProcess
    BY DEF ServesItsProcess, ChannelServesProcess, ReadyIsSent, NewProcessIsHeard
  <2>1. ~Telling /\ ~Dying
    BY DEF Idle, Telling, Dying, In
  <2>2. /\ channel # "None"
        /\ launcher \in {"Starting", "Running"} <=> invitation = "Moved"
        /\ launcher = "Running" <=> channel = "Open"
    BY <2>1 DEF HostInv, TypeOK, LifeInv, ServiceInv, ChannelIsGiven
  <2> QED
    BY <2>1, <2>2 DEF LifeInv, ServiceInv, ReadyIsOfProcess, ShutdownIsOfProcess,
       ServesItsProcess, ChannelServesProcess, ReadyIsSent, NewProcessIsHeard
<1> QED
  BY <1>1, LifeInvariant, PTL

\* No order of deaths, delayed cleanups and dropped references leaks the host or kills it
\* while it is the spare.
THEOREM LifetimeCorrect == Spec => []LivesAsLongAsNeeded
<1>1. HostInv /\ LifeInv => LivesAsLongAsNeeded
  <2> SUFFICES ASSUME HostInv, LifeInv, Idle
               PROVE  /\ referenced /\ listeners = {} /\ AreAllRefCountsZero => deleting_soon
                      /\ spare => /\ IsInitializedAndNotDead /\ ~deleting_soon
                                  /\ listeners = {} /\ AreAllRefCountsZero
    BY DEF LivesAsLongAsNeeded, NoOrphan, SpareIsTakeable
  <2>1. ~CleanupComes /\ ~Telling
    <3>1. Len(stack) # 2
      BY StackFacts DEF Idle, HostInv, TypeOK
    <3> QED
      BY <3>1 DEF Idle, CleanupComes, Telling, In
  <2> QED
    BY <2>1 DEF LifeInv, NoLeak, Abandoned, ServiceInv, SpareIsAlive, HostInv, SpareUnused,
       DeletingIsOutOfReach
<1> QED
  BY <1>1, LifeInvariant, PTL
=============================================================================
