---------------------- MODULE SingletonResolutionProofs ----------------------
(* Proofs about SingletonResolution, for every graph and set of threads. *)
EXTENDS SingletonResolution, SequenceTheorems, TLAPS

-----------------------------------------------------------------------------
(* The three ways a call stack changes *)

\* What each field of a frame may hold.
LEMMA FrameFields ==
  ASSUME NEW f \in Frame
  PROVE  /\ f.mode \in Modes
         /\ f.key \in Keys
         /\ f.pc \in {"enter", "wait", "deps", "made"}
         /\ f.dep \in Nat
         /\ f.obj \in Obj \cup {NoObj}
         /\ [f EXCEPT !.dep = @ + 1] \in Frame
         /\ [f EXCEPT !.pc = "wait"] \in Frame
         /\ [f EXCEPT !.pc = "deps"] \in Frame
         /\ [f EXCEPT !.pc = "made"] \in Frame
         /\ \A o \in Obj : [f EXCEPT !.pc = "made", !.obj = o] \in Frame
<1>1. /\ f.mode \in Modes
      /\ f.key \in Keys
      /\ f.pc \in {"enter", "wait", "deps", "made"}
      /\ f.dep \in Nat
      /\ f.obj \in Obj \cup {NoObj}
  BY DEF Frame
<1>2. [f EXCEPT !.dep = @ + 1] \in Frame
  BY DEF Frame
<1>3. /\ [f EXCEPT !.pc = "wait"] \in Frame
      /\ [f EXCEPT !.pc = "deps"] \in Frame
      /\ [f EXCEPT !.pc = "made"] \in Frame
  BY DEF Frame
<1>4. \A o \in Obj : [f EXCEPT !.pc = "made", !.obj = o] \in Frame
  BY DEF Frame
<1>5. QED
  BY <1>1, <1>2, <1>3, <1>4

\* Returning to the frame below drops the top frame and only advances the
\* dependency counter of the one below.
LEMMA PopFrame ==
  ASSUME NEW s \in Seq(Frame), Len(s) > 1
  PROVE  LET r == [Front(s) EXCEPT ![Len(s) - 1].dep = @ + 1]
         IN /\ r \in Seq(Frame)
            /\ Len(r) = Len(s) - 1
            /\ \A i \in 1..Len(s) - 1 :
                 /\ r[i].key = s[i].key
                 /\ r[i].mode = s[i].mode
                 /\ r[i].pc = s[i].pc
                 /\ r[i].obj = s[i].obj
<1> DEFINE q == SubSeq(s, 1, Len(s) - 1)
           n == Len(s) - 1
           g == [q[n] EXCEPT !.dep = @ + 1]
           r == [q EXCEPT ![n] = g]
<1>1. Len(s) \in Nat /\ n \in 1..n /\ \A i \in 1..n : s[i] \in Frame
  BY LenProperties, ElementOfSeq
<1>2. q \in Seq(Frame) /\ Len(q) = n /\ \A i \in 1..n : q[i] = s[i]
  BY <1>1, SubSeqProperties
<1> HIDE DEF q, n
<1>3. g \in Frame /\ g.key = s[n].key /\ g.mode = s[n].mode /\ g.pc = s[n].pc /\ g.obj = s[n].obj
  <2>1. q[n] \in Frame /\ q[n] = s[n]
    BY <1>1, <1>2
  <2>2. g \in Frame
    BY <2>1, FrameFields
  <2>3. QED
    BY <2>1, <2>2 DEF Frame
<1> HIDE DEF g
<1>4. r \in Seq(Frame) /\ Len(r) = n /\ \A i \in 1..n : r[i] = IF i = n THEN g ELSE q[i]
  BY <1>1, <1>2, <1>3, ExceptSeq
<1>5. r = [Front(s) EXCEPT ![Len(s) - 1].dep = @ + 1]
  BY DEF Front, q, n, g
<1> HIDE DEF r
<1>6. QED
  BY <1>2, <1>3, <1>4, <1>5 DEF n

-----------------------------------------------------------------------------
(* The inductive invariant *)

\* About one thread: the shape of its call stack, its resolution path, what it
\* holds of the lock, and that what it is building under the lock is
\* unpublished.
ThreadInv(t) ==
  /\ \A i \in 1..Len(stack[t]) - 1 : stack[t][i].pc = "deps"
  /\ \A i, j \in 1..Len(stack[t]) : stack[t][i].mode = "get" => stack[t][j].mode = "get"
  /\ \A i \in 1..Len(stack[t]) :
       stack[t][i].pc = "made" =>
         IF stack[t][i].key \in Singletons THEN stack[t][i].obj \in Obj
         ELSE stack[t][i].obj = NoObj
  /\ Len(path[t]) = Entered(t)
  /\ \A i \in 1..Entered(t) : path[t][i] = stack[t][i].key
  /\ \A i, j \in 1..Entered(t) : stack[t][i].key = stack[t][j].key => i = j
  /\ Held(t) = IF owner = t THEN count ELSE 0
  /\ \A i \in 1..Held(t) : stack[t][i].key \in Singletons => single[stack[t][i].key] = NoObj

\* Whatever was handed out is what is cached.
HandedCurrent == \A k \in Keys : \A o \in handed[k] : o = single[k]

IInv ==
  /\ TypeOK
  /\ \A t \in Threads : ThreadInv(t)
  /\ (owner = NoThread) <=> (count = 0)
  /\ HandedCurrent
  /\ CellsAgree

\* The strengthening holds before anybody calls the container.
LEMMA InitIInv == Init => IInv
<1> SUFFICES ASSUME Init PROVE IInv
  OBVIOUS
<1>1. TypeOK
  BY EmptySeq, KeyAssumption DEF Init, TypeOK, Results
<1>2. \A t \in Threads : ThreadInv(t)
  BY EmptySeq, ThreadAssumption DEF Init, ThreadInv, Entered, Held, Top
<1>3. QED
  BY <1>1, <1>2 DEF Init, IInv, HandedCurrent, CellsAgree

\* A step of another thread keeps what is said of u.
LEMMA OtherThread ==
  ASSUME NEW u \in Threads, ThreadInv(u),
         stack'[u] = stack[u], path'[u] = path[u],
         owner = u => owner' = u /\ count' = count /\ single' = single,
         owner # u => owner' # u,
         Len(stack[u]) \in Nat
  PROVE  ThreadInv(u)'
<1>1. Held(u)' = Held(u) /\ Entered(u)' = Entered(u)
  BY DEF Held, Entered, Top
<1>2. owner # u => Held(u) = 0
  BY DEF ThreadInv
<1>3. Held(u)' = IF owner' = u THEN count' ELSE 0
  BY <1>1, <1>2 DEF ThreadInv
<1>4. \A i \in 1..Held(u) :
        stack[u][i].key \in Singletons => single'[stack[u][i].key] = NoObj
  <2>1. CASE owner = u
    BY <2>1 DEF ThreadInv
  <2>2. CASE owner # u
    BY <2>2, <1>2
  <2>3. QED
    BY <2>1, <2>2
<1>5. QED
  BY <1>1, <1>3, <1>4 DEF ThreadInv

-----------------------------------------------------------------------------
(* What Held and Entered are, by the state of the top frame *)

\* A thread that is inside the lock holds it, as often as its frames are inside.
LEMMA Counts ==
  ASSUME TypeOK, NEW t \in Threads, stack[t] # <<>>
  PROVE  /\ Len(stack[t]) \in Nat \ {0}
         /\ Top(t) \in Frame
         /\ Top(t) = stack[t][Len(stack[t])]
         /\ Top(t).mode # "get" => Held(t) = 0 /\ Entered(t) = 0
         /\ Top(t).mode = "get" =>
              /\ Top(t).pc = "enter" =>
                   Held(t) = Len(stack[t]) - 1 /\ Entered(t) = Len(stack[t]) - 1
              /\ Top(t).pc = "wait" =>
                   Held(t) = Len(stack[t]) - 1 /\ Entered(t) = Len(stack[t])
              /\ Top(t).pc \in {"deps", "made"} =>
                   Held(t) = Len(stack[t]) /\ Entered(t) = Len(stack[t])
         /\ Held(t) \in 0..Len(stack[t])
         /\ Entered(t) \in 0..Len(stack[t])
<1>1. stack[t] \in Seq(Frame)
  BY DEF TypeOK
<1>2. Len(stack[t]) \in Nat \ {0}
  BY <1>1, EmptySeq
<1>3. Top(t) \in Frame
  BY <1>1, <1>2, ElementOfSeq DEF Top
<1>4. Top(t).pc \in {"enter", "wait", "deps", "made"}
  BY <1>3, FrameFields
<1>5. QED
  BY <1>2, <1>3, <1>4 DEF Held, Entered, Top

-----------------------------------------------------------------------------
(* The effect of Return, Raise and SetTop on the stack of the thread *)

\* What a return does to the stack: the frames below stay, the caller's
\* dependency counter moves on.
LEMMA ReturnShape ==
  ASSUME TypeOK, NEW t \in Threads, ThreadInv(t), stack[t] # <<>>,
         NEW o \in Obj \cup {NoObj}, Return(t, o)
  PROVE  /\ stack' \in [Threads -> Seq(Frame)]
         /\ \A u \in Threads : u # t => stack'[u] = stack[u]
         /\ Len(stack'[t]) = Len(stack[t]) - 1
         /\ \A i \in 1..Len(stack[t]) - 1 :
              /\ stack'[t][i].key = stack[t][i].key
              /\ stack'[t][i].mode = stack[t][i].mode
              /\ stack'[t][i].pc = stack[t][i].pc
              /\ stack'[t][i].obj = stack[t][i].obj
         /\ Held(t)' = IF Top(t).mode = "get" THEN Len(stack[t]) - 1 ELSE 0
         /\ Entered(t)' = IF Top(t).mode = "get" THEN Len(stack[t]) - 1 ELSE 0
         /\ handed' \in [Keys -> SUBSET Obj]
         /\ handed' = [handed EXCEPT ![Top(t).key] =
                         IF o = NoObj THEN @ ELSE @ \cup {o}]
         /\ last' \in [Threads -> [key : Keys, result : Results]]
<1> DEFINE s == stack[t]
           n == Len(stack[t])
           r == IF n = 1 THEN <<>> ELSE [Front(s) EXCEPT ![n - 1].dep = @ + 1]
<1>0. s \in Seq(Frame) /\ n \in Nat \ {0} /\ Top(t) = s[n] /\ Top(t) \in Frame
  BY Counts DEF TypeOK
<1>a. n \in Nat /\ n # 0 /\ (n # 1 => n > 1 /\ n - 1 \in 1..n - 1 /\ n - 1 \in 1..n)
  <2> HIDE DEF n
  <2>1. QED
    BY <1>0
<1>1. stack' = [stack EXCEPT ![t] = r]
  BY DEF Return
<1>2. /\ r \in Seq(Frame)
      /\ Len(r) = n - 1
      /\ \A i \in 1..n - 1 :
           /\ r[i].key = s[i].key
           /\ r[i].mode = s[i].mode
           /\ r[i].pc = s[i].pc
           /\ r[i].obj = s[i].obj
  <2>1. CASE n = 1
    BY <2>1, EmptySeq
  <2>2. CASE n # 1
    <3>1. Len(s) > 1
      BY <2>2, <1>a
    <3>2. r = [Front(s) EXCEPT ![Len(s) - 1].dep = @ + 1]
      BY <2>2
    <3> HIDE DEF r
    <3>3. QED
      BY <1>0, <3>1, <3>2, PopFrame
  <2>3. QED
    BY <2>1, <2>2
<1>3. stack'[t] = r
  BY <1>1 DEF TypeOK
<1> HIDE DEF r
<1>4. stack' \in [Threads -> Seq(Frame)] /\ \A u \in Threads : u # t => stack'[u] = stack[u]
  BY <1>1, <1>2 DEF TypeOK
<1>5. /\ Held(t)' = IF Top(t).mode = "get" THEN n - 1 ELSE 0
      /\ Entered(t)' = IF Top(t).mode = "get" THEN n - 1 ELSE 0
  <2>1. CASE n = 1
    <3>1. stack'[t] = <<>>
      BY <2>1, <1>2, <1>3, EmptySeq
    <3>2. QED
      BY <3>1, <2>1 DEF Held, Entered
  <2>2. CASE n # 1
    <3>1. stack'[t] # <<>>
      BY <2>2, <1>a, <1>2, <1>3, EmptySeq
    <3>2. /\ Top(t)'.pc = "deps"
          /\ Top(t)'.mode = s[n - 1].mode
      BY <2>2, <1>a, <1>2, <1>3 DEF Top, ThreadInv
    <3>3. s[n - 1].mode = "get" <=> Top(t).mode = "get"
      BY <2>2, <1>0, <1>a DEF ThreadInv
    <3>4. QED
      BY <3>1, <3>2, <3>3, <1>2, <1>3 DEF Held, Entered
  <2>3. QED
    BY <2>1, <2>2
<1>6. /\ handed' = [handed EXCEPT ![Top(t).key] = IF o = NoObj THEN @ ELSE @ \cup {o}]
      /\ handed' \in [Keys -> SUBSET Obj]
  BY <1>0, FrameFields DEF Return, TypeOK, Top
<1>7. last' \in [Threads -> [key : Keys, result : Results]]
  BY <1>0, FrameFields DEF Return, TypeOK, Results, Top
<1>8. QED
  BY <1>2, <1>3, <1>4, <1>5, <1>6, <1>7

\* What replacing the top frame does to the stack.
LEMMA SetTopShape ==
  ASSUME TypeOK, NEW t \in Threads, ThreadInv(t), stack[t] # <<>>,
         NEW f \in Frame, SetTop(t, f)
  PROVE  /\ stack' \in [Threads -> Seq(Frame)]
         /\ \A u \in Threads : u # t => stack'[u] = stack[u]
         /\ stack'[t] # <<>>
         /\ Len(stack'[t]) = Len(stack[t])
         /\ \A i \in 1..Len(stack[t]) :
              stack'[t][i] = IF i = Len(stack[t]) THEN f ELSE stack[t][i]
         /\ Top(t)' = f
<1> DEFINE s == stack[t]
           n == Len(stack[t])
           r == [s EXCEPT ![n] = f]
<1>1. s \in Seq(Frame) /\ n \in Nat \ {0}
  BY Counts DEF TypeOK
<1>2. n \in 1..n
  <2> HIDE DEF n
  <2>1. QED
    BY <1>1
<1>3. /\ r \in Seq(Frame) /\ Len(r) = n
      /\ \A i \in 1..n : r[i] = IF i = n THEN f ELSE s[i]
  BY <1>1, <1>2, ExceptSeq
<1>4. stack' = [stack EXCEPT ![t] = r]
  BY DEF SetTop
<1>5. stack'[t] = r
  BY <1>4 DEF TypeOK
<1> HIDE DEF r
<1>6. r # <<>>
  BY <1>1, <1>3, EmptySeq
<1>7. Top(t)' = f
  BY <1>2, <1>3, <1>5 DEF Top
<1>8. stack' \in [Threads -> Seq(Frame)] /\ \A u \in Threads : u # t => stack'[u] = stack[u]
  BY <1>3, <1>4 DEF TypeOK
<1>9. QED
  BY <1>3, <1>5, <1>6, <1>7, <1>8

\* What calling for a dependency does to the stack.
LEMMA PushShape ==
  ASSUME TypeOK, NEW t \in Threads, NEW f \in Frame,
         stack' = [stack EXCEPT ![t] = Append(@, f)]
  PROVE  /\ stack' \in [Threads -> Seq(Frame)]
         /\ \A u \in Threads : u # t => stack'[u] = stack[u]
         /\ stack'[t] # <<>>
         /\ Len(stack'[t]) = Len(stack[t]) + 1
         /\ \A i \in 1..Len(stack[t]) + 1 :
              stack'[t][i] = IF i = Len(stack[t]) + 1 THEN f ELSE stack[t][i]
         /\ Top(t)' = f
<1>1. stack[t] \in Seq(Frame) /\ Len(stack[t]) \in Nat /\ stack'[t] = Append(stack[t], f)
  BY LenProperties DEF TypeOK
<1>2. /\ Append(stack[t], f) \in Seq(Frame)
      /\ Append(stack[t], f) # <<>>
      /\ Len(Append(stack[t], f)) = Len(stack[t]) + 1
      /\ \A i \in 1..Len(stack[t]) : Append(stack[t], f)[i] = stack[t][i]
      /\ Append(stack[t], f)[Len(stack[t]) + 1] = f
  BY <1>1, AppendProperties
<1>3. stack' \in [Threads -> Seq(Frame)] /\ \A u \in Threads : u # t => stack'[u] = stack[u]
  BY <1>2 DEF TypeOK
<1>4. Top(t)' = f
  BY <1>1, <1>2 DEF Top
<1>5. QED
  BY <1>1, <1>2, <1>3, <1>4

\* Popping n entries of a path keeps the others in their places.
LEMMA PopPathShape ==
  ASSUME TypeOK, NEW t \in Threads, NEW n \in 0..Len(path[t]), PopPath(t, n)
  PROVE  /\ path' \in [Threads -> Seq(Keys)]
         /\ \A u \in Threads : u # t => path'[u] = path[u]
         /\ Len(path'[t]) = Len(path[t]) - n
         /\ \A i \in 1..Len(path[t]) - n : path'[t][i] = path[t][i]
<1> DEFINE q == SubSeq(path[t], 1, Len(path[t]) - n)
<1>1. path[t] \in Seq(Keys) /\ Len(path[t]) \in Nat
  BY LenProperties DEF TypeOK
<1>2. \A i \in 1..Len(path[t]) - n : path[t][i] \in Keys
  BY <1>1, ElementOfSeq
<1>3. q \in Seq(Keys) /\ Len(q) = Len(path[t]) - n
      /\ \A i \in 1..Len(path[t]) - n : q[i] = path[t][i]
  BY <1>1, <1>2, SubSeqProperties
<1>4. path' = [path EXCEPT ![t] = q]
  BY DEF PopPath
<1> HIDE DEF q
<1>5. QED
  BY <1>3, <1>4 DEF TypeOK

-----------------------------------------------------------------------------
(* Every step keeps the invariant *)

\* An exception empties the stack and gives back path and lock: the
\* strengthening is kept from any frame.
LEMMA RaiseKeeps ==
  ASSUME IInv, NEW t \in Threads, stack[t] # <<>>,
         NEW result \in Results, Raise(t, result)
  PROVE  IInv'
<1>1. TypeOK /\ ThreadInv(t)
  BY DEF IInv
<1>2. /\ stack' = [stack EXCEPT ![t] = <<>>]
      /\ single' = single /\ cell' = cell /\ made' = made /\ handed' = handed
      /\ last' = [last EXCEPT ![t] = [key |-> stack[t][1].key, result |-> result]]
  BY DEF Raise
<1>3. stack'[t] = <<>> /\ stack' \in [Threads -> Seq(Frame)]
      /\ \A u \in Threads : u # t => stack'[u] = stack[u]
  BY <1>1, <1>2, EmptySeq DEF TypeOK
<1>4. /\ path' \in [Threads -> Seq(Keys)]
      /\ \A u \in Threads : u # t => path'[u] = path[u]
      /\ Len(path'[t]) = 0
  <2>1. Entered(t) = Len(path[t]) /\ Len(path[t]) \in Nat
    BY <1>1, LenProperties DEF ThreadInv, TypeOK
  <2>2. PopPath(t, Entered(t)) /\ Entered(t) \in 0..Len(path[t])
    BY <2>1 DEF Raise
  <2>3. QED
    BY <1>1, <2>1, <2>2, PopPathShape
<1>5. /\ owner = t => owner' = NoThread /\ count' = 0
      /\ owner # t => owner' = owner /\ count' = count
  <2>1. CASE Held(t) = 0
    <3>1. owner' = owner /\ count' = count
      BY <2>1 DEF Raise
    <3>2. owner # t
      BY <2>1, <1>1, ThreadAssumption DEF ThreadInv, IInv
    <3>3. QED
      BY <3>1, <3>2
  <2>2. CASE Held(t) # 0
    <3>1. owner = t /\ count = Held(t) /\ count \in Nat
      BY <2>2, <1>1 DEF ThreadInv, TypeOK
    <3>2. Unlock(Held(t))
      BY <2>2 DEF Raise
    <3>3. QED
      BY <3>1, <3>2 DEF Unlock
  <2>3. QED
    BY <2>1, <2>2
<1>6. TypeOK'
  <2>1. stack[t][1].key \in Keys
    <3>1. stack[t] \in Seq(Frame) /\ Len(stack[t]) \in Nat \ {0}
      BY <1>1, Counts DEF TypeOK
    <3>2. 1 \in 1..Len(stack[t])
      BY <3>1
    <3>3. stack[t][1] \in Frame
      BY <3>1, <3>2, ElementOfSeq
    <3>4. QED
      BY <3>3, FrameFields
  <2>2. last' \in [Threads -> [key : Keys, result : Results]]
    BY <2>1, <1>1, <1>2 DEF TypeOK
  <2>3. QED
    BY <2>2, <1>1, <1>2, <1>3, <1>4, <1>5 DEF TypeOK
<1>7. ThreadInv(t)'
  <2>1. Held(t)' = 0 /\ Entered(t)' = 0 /\ Len(stack'[t]) = 0
    BY <1>3, EmptySeq DEF Held, Entered
  <2>2. owner' # t
    BY <1>5, ThreadAssumption
  <2>3. QED
    BY <2>1, <2>2, <1>4 DEF ThreadInv
<1>8. ASSUME NEW u \in Threads, u # t PROVE ThreadInv(u)'
  <2>1. ThreadInv(u) /\ Len(stack[u]) \in Nat
    BY LenProperties DEF IInv, TypeOK
  <2>2. QED
    BY <1>2, <1>3, <1>4, <1>5, <1>8, <2>1, ThreadAssumption, OtherThread
<1>9. (owner' = NoThread) <=> (count' = 0)
  BY <1>5 DEF IInv
<1>10. QED
  BY <1>2, <1>6, <1>7, <1>8, <1>9 DEF IInv, HandedCurrent, CellsAgree

\* The empty cache entry is not an instance.
LEMMA NoObjIsNoObject == NoObj \notin Obj
  BY KeyAssumption DEF Obj

\* A step in which the top frame of t returns o, whatever it does to the rest.
LEMMA ReturnKeeps ==
  ASSUME IInv, NEW t \in Threads, stack[t] # <<>>,
         NEW o \in Obj \cup {NoObj}, Return(t, o),
         single' \in [Keys -> Obj \cup {NoObj}],
         cell' \in [{"flat", "maker"} -> [Keys -> Obj \cup {NoObj}]],
         made' \in [Keys -> Nat],
         owner' \in Threads \cup {NoThread}, count' \in Nat,
         (owner' = NoThread) <=> (count' = 0),
         path' \in [Threads -> Seq(Keys)],
         \A u \in Threads : u # t => path'[u] = path[u],
         Len(path'[t]) = IF Top(t).mode = "get" THEN Len(stack[t]) - 1 ELSE 0,
         \A i \in 1..Len(path'[t]) : path'[t][i] = path[t][i],
         (IF Top(t).mode = "get" THEN Len(stack[t]) - 1 ELSE 0) =
           (IF owner' = t THEN count' ELSE 0),
         \A u \in Threads : u # t =>
           /\ owner = u => owner' = u /\ count' = count /\ single' = single
           /\ owner # u => owner' # u,
         \A k \in Keys : single'[k] # single[k] =>
           /\ single[k] = NoObj /\ k = Top(t).key
           /\ Top(t).mode = "get" => Top(t).pc = "made",
         o # NoObj => o = single'[Top(t).key],
         CellsAgree'
  PROVE  IInv'
<1> DEFINE n == Len(stack[t])
<1>1. TypeOK /\ ThreadInv(t) /\ Top(t) \in Frame /\ Top(t).key \in Keys
      /\ Len(stack[t]) \in Nat \ {0}
  BY Counts, FrameFields DEF IInv
<1>2. /\ stack' \in [Threads -> Seq(Frame)]
      /\ \A u \in Threads : u # t => stack'[u] = stack[u]
      /\ Len(stack'[t]) = n - 1
      /\ \A i \in 1..n - 1 :
           /\ stack'[t][i].key = stack[t][i].key
           /\ stack'[t][i].mode = stack[t][i].mode
           /\ stack'[t][i].pc = stack[t][i].pc
           /\ stack'[t][i].obj = stack[t][i].obj
      /\ Held(t)' = IF Top(t).mode = "get" THEN n - 1 ELSE 0
      /\ Entered(t)' = IF Top(t).mode = "get" THEN n - 1 ELSE 0
  BY <1>1, ReturnShape
<1>3. Top(t).key \in Keys /\ Top(t) = stack[t][n]
  BY <1>1 DEF Top
<1>3a. /\ handed' \in [Keys -> SUBSET Obj]
      /\ handed' = [handed EXCEPT ![Top(t).key] = IF o = NoObj THEN @ ELSE @ \cup {o}]
      /\ last' \in [Threads -> [key : Keys, result : Results]]
  <2>1. TypeOK /\ ThreadInv(t)
    BY <1>1
  <2>2. QED
    BY ONLY <2>1, ReturnShape, stack[t] # <<>>, o \in Obj \cup {NoObj}, Return(t, o), t \in Threads
<1>4. TypeOK'
  BY <1>2, <1>3a DEF TypeOK
<1>5. ThreadInv(t)'
  <2>1. n \in Nat \ {0} /\ \A i \in 1..n - 1 : i \in 1..n /\ i # n
        /\ (i \in 1..(n - 1) - 1 => i \in 1..n - 1)
    <3> HIDE DEF n
    <3>1. n \in Nat \ {0}
      BY <1>1 DEF n
    <3>2. QED
      BY <3>1
  <2>a. /\ \A i \in 1..n - 1 : stack[t][i].pc = "deps"
        /\ \A i, j \in 1..n : stack[t][i].mode = "get" => stack[t][j].mode = "get"
        /\ \A i \in 1..Entered(t) : path[t][i] = stack[t][i].key
        /\ \A i, j \in 1..Entered(t) : stack[t][i].key = stack[t][j].key => i = j
    BY <1>1 DEF ThreadInv
  <2>2. \A i \in 1..Len(stack'[t]) - 1 : stack'[t][i].pc = "deps"
    <3>1. \A i \in 1..(n - 1) - 1 : stack'[t][i].pc = "deps"
      <4>1. TAKE i \in 1..(n - 1) - 1
      <4>2. i \in 1..n - 1
        <5> HIDE DEF n
        <5>1. QED
          BY <2>1
      <4>3. QED
        BY <4>2, <1>2, <2>a
    <3>2. QED
      BY <3>1, <1>2
  <2>3. \A i, j \in 1..Len(stack'[t]) :
          stack'[t][i].mode = "get" => stack'[t][j].mode = "get"
    <3>1. ASSUME NEW i \in 1..n - 1, NEW j \in 1..n - 1, stack'[t][i].mode = "get"
          PROVE  stack'[t][j].mode = "get"
      <4>1. i \in 1..n /\ j \in 1..n
        BY <2>1
      <4>2. stack[t][i].mode = "get"
        BY <3>1, <1>2
      <4>3. stack[t][j].mode = "get"
        BY <4>1, <4>2, <2>a
      <4>4. QED
        BY <4>3, <1>2
    <3>2. QED
      BY <3>1, <1>2
  <2>4. \A i \in 1..Len(stack'[t]) :
          stack'[t][i].pc = "made" =>
            IF stack'[t][i].key \in Singletons THEN stack'[t][i].obj \in Obj
            ELSE stack'[t][i].obj = NoObj
    BY <1>1, <1>2, <2>1 DEF ThreadInv
  <2>5. Len(path'[t]) = Entered(t)'
    BY <1>2
  <2>6. CASE Top(t).mode # "get"
    BY <2>2, <2>3, <2>4, <2>5, <2>6, <1>2 DEF ThreadInv
  <2>7. CASE Top(t).mode = "get"
    <3>1. Held(t)' = n - 1 /\ Entered(t)' = n - 1
      BY <2>7, <1>2
    <3>2. /\ \A i \in 1..n - 1 : i \in 1..Held(t) /\ i \in 1..Entered(t)
          /\ Top(t).pc = "made" => Entered(t) = n
      <4>1. Held(t) \in {n - 1, n} /\ Entered(t) \in {n - 1, n}
            /\ (Top(t).pc = "made" => Entered(t) = n)
        BY <2>7, <1>1, Counts, FrameFields
      <4> HIDE DEF n
      <4>2. QED
        BY <4>1, <2>1
    <3>3. \A i \in 1..Entered(t)' : path'[t][i] = stack'[t][i].key
      BY <1>2, <2>a, <2>5, <3>1, <3>2
    <3>4. \A i, j \in 1..Entered(t)' : stack'[t][i].key = stack'[t][j].key => i = j
      BY ONLY <1>2, <2>a, <3>1, <3>2
    <3>5. Held(t)' = IF owner' = t THEN count' ELSE 0
      BY <2>7, <3>1
    <3>6. ASSUME NEW i \in 1..Held(t)', stack'[t][i].key \in Singletons
          PROVE  single'[stack'[t][i].key] = NoObj
      <4>1. i \in 1..n - 1 /\ i \in 1..Held(t) /\ stack'[t][i].key = stack[t][i].key
        BY <3>1, <3>2, <1>2
      <4>2. single[stack[t][i].key] = NoObj
        BY <4>1, <3>6, <1>1 DEF ThreadInv
      <4>3. stack[t][i].key \in Keys
        BY <4>1, <3>6, KeyAssumption
      <4>4. CASE single'[stack[t][i].key] = single[stack[t][i].key]
        BY <4>1, <4>2, <4>4
      <4>5. CASE single'[stack[t][i].key] # single[stack[t][i].key]
        <5>1. stack[t][i].key = Top(t).key /\ Top(t).pc = "made"
          BY <4>3, <4>5, <2>7
        <5>2. Entered(t) = n /\ Top(t) = stack[t][n]
          BY <5>1, <3>2 DEF Top
        <5>3. n \in 1..Entered(t) /\ i \in 1..Entered(t) /\ i # n
          <6> HIDE DEF n
          <6>1. QED
            BY <5>2, <4>1, <2>1
        <5>4. QED
          BY <5>1, <5>2, <5>3, <1>1 DEF ThreadInv
      <4>6. QED
        BY <4>4, <4>5
    <3>7. QED
      BY <2>2, <2>3, <2>4, <2>5, <3>3, <3>4, <3>5, <3>6 DEF ThreadInv
  <2>8. QED
    BY <2>6, <2>7
<1>6. ASSUME NEW u \in Threads, u # t PROVE ThreadInv(u)'
  <2>1. ThreadInv(u) /\ Len(stack[u]) \in Nat
    BY LenProperties DEF IInv, TypeOK
  <2>2. stack'[u] = stack[u] /\ path'[u] = path[u]
    BY <1>2, <1>6
  <2>3. QED
    BY <1>6, <2>1, <2>2, OtherThread
<1>7. HandedCurrent'
  <2> SUFFICES ASSUME NEW k \in Keys, NEW v \in handed'[k] PROVE v = single'[k]
    BY DEF HandedCurrent
  <2>1. v \in handed[k] \/ (k = Top(t).key /\ v = o /\ o # NoObj)
    BY <1>1, <1>3a DEF TypeOK
  <2>2. CASE v \in handed[k]
    <3>1. v = single[k] /\ v \in Obj
      BY <2>2, <1>1 DEF IInv, HandedCurrent, TypeOK
    <3>2. QED
      BY <3>1, NoObjIsNoObject
  <2>3. QED
    BY <2>1, <2>2
<1>8. QED
  BY <1>4, <1>5, <1>6, <1>7 DEF IInv

\* A step that only changes what the top frame of t is about to do, and what t
\* holds: the conditions on path and lock are those of ThreadInv, afterwards.
LEMMA SetTopKeeps ==
  ASSUME IInv, NEW t \in Threads, stack[t] # <<>>,
         NEW f \in Frame, SetTop(t, f),
         f.key = Top(t).key, f.mode = Top(t).mode,
         f.pc = "made" =>
           IF f.key \in Singletons THEN f.obj \in Obj ELSE f.obj = NoObj,
         UNCHANGED <<single, cell, handed, last>>,
         made' \in [Keys -> Nat],
         owner' \in Threads \cup {NoThread}, count' \in Nat,
         (owner' = NoThread) <=> (count' = 0),
         path' \in [Threads -> Seq(Keys)],
         \A u \in Threads : u # t =>
           /\ path'[u] = path[u]
           /\ owner = u => owner' = u /\ count' = count
           /\ owner # u => owner' # u,
         Len(path'[t]) = Entered(t)',
         \A i \in 1..Entered(t)' : path'[t][i] = stack[t][i].key,
         \A i, j \in 1..Entered(t)' : stack[t][i].key = stack[t][j].key => i = j,
         Held(t)' = IF owner' = t THEN count' ELSE 0,
         \A i \in 1..Held(t)' :
           stack[t][i].key \in Singletons => single[stack[t][i].key] = NoObj
  PROVE  IInv'
<1> DEFINE n == Len(stack[t])
<1>1. TypeOK /\ ThreadInv(t) /\ n \in Nat \ {0} /\ Top(t) = stack[t][n]
  BY Counts DEF IInv
<1>2. /\ stack' \in [Threads -> Seq(Frame)]
      /\ \A u \in Threads : u # t => stack'[u] = stack[u]
      /\ stack'[t] # <<>>
      /\ Len(stack'[t]) = n
      /\ \A i \in 1..n : stack'[t][i] = IF i = n THEN f ELSE stack[t][i]
      /\ Top(t)' = f
  BY <1>1, SetTopShape
<1>3. TypeOK'
  BY <1>1, <1>2 DEF TypeOK
<1>5. ThreadInv(t)'
  <2>1. \A i \in 1..n : /\ stack'[t][i].key = stack[t][i].key
                        /\ stack'[t][i].mode = stack[t][i].mode
    BY <1>1, <1>2
  <2>2. Held(t)' \in 0..n /\ Entered(t)' \in 0..n
    BY <1>1, <1>2 DEF Held, Entered
  <2>3. \A i \in 1..Len(stack'[t]) - 1 : stack'[t][i].pc = "deps"
    <3>1. ASSUME NEW i \in 1..n - 1 PROVE stack'[t][i] = stack[t][i] /\ stack[t][i].pc = "deps"
      <4>1. i \in 1..n /\ i # n
        <5> HIDE DEF n
        <5>1. QED
          BY <1>1
      <4>2. QED
        BY <4>1, <1>1, <1>2 DEF ThreadInv
    <3>2. QED
      BY <3>1, <1>2
  <2>4. \A i, j \in 1..Len(stack'[t]) :
          stack'[t][i].mode = "get" => stack'[t][j].mode = "get"
    BY <1>1, <1>2, <2>1 DEF ThreadInv
  <2>5. \A i \in 1..Len(stack'[t]) :
          stack'[t][i].pc = "made" =>
            IF stack'[t][i].key \in Singletons THEN stack'[t][i].obj \in Obj
            ELSE stack'[t][i].obj = NoObj
    BY <1>1, <1>2 DEF ThreadInv
  <2>6. \A i \in 1..Entered(t)' : i \in 1..n
    BY <2>2, <1>1
  <2>7. \A i \in 1..Held(t)' : i \in 1..n
    BY <2>2, <1>1
  <2>8. \A i \in 1..Entered(t)' : path'[t][i] = stack'[t][i].key
    BY <2>1, <2>6
  <2>9. \A i, j \in 1..Entered(t)' : stack'[t][i].key = stack'[t][j].key => i = j
    BY <2>1, <2>6
  <2>10. \A i \in 1..Held(t)' :
           stack'[t][i].key \in Singletons => single'[stack'[t][i].key] = NoObj
    BY <2>1, <2>7
  <2>11. QED
    BY <2>3, <2>4, <2>5, <2>8, <2>9, <2>10 DEF ThreadInv
<1>6. ASSUME NEW u \in Threads, u # t PROVE ThreadInv(u)'
  <2>1. ThreadInv(u) /\ Len(stack[u]) \in Nat
    BY LenProperties DEF IInv, TypeOK
  <2>2. stack'[u] = stack[u] /\ path'[u] = path[u]
    BY <1>2, <1>6
  <2>3. QED
    BY <1>6, <2>1, <2>2, OtherThread
<1>7. QED
  BY <1>3, <1>5, <1>6 DEF IInv, HandedCurrent, CellsAgree

\* What holds of the thread that takes a step with its top frame.
LEMMA TopFacts ==
  ASSUME IInv, NEW t \in Threads, stack[t] # <<>>
  PROVE  /\ TypeOK /\ ThreadInv(t)
         /\ Len(stack[t]) \in Nat \ {0}
         /\ Len(stack[t]) \in 1..Len(stack[t])
         /\ Top(t) \in Frame /\ Top(t) = stack[t][Len(stack[t])]
         /\ Top(t).key \in Keys /\ Top(t).mode \in Modes /\ Top(t).dep \in Nat
         /\ Len(path[t]) \in Nat
         /\ single[Top(t).key] \in Obj \cup {NoObj}
<1>1. TypeOK /\ ThreadInv(t)
  BY DEF IInv
<1>2. Len(stack[t]) \in Nat \ {0} /\ Top(t) \in Frame /\ Top(t) = stack[t][Len(stack[t])]
  BY <1>1, Counts
<1>3. Len(path[t]) \in Nat
  BY <1>1, LenProperties DEF TypeOK
<1>4. Top(t).key \in Keys /\ Top(t).mode \in Modes /\ Top(t).dep \in Nat
  BY <1>2, FrameFields
<1>5. Len(stack[t]) \in 1..Len(stack[t])
  BY <1>2
<1>6. single[Top(t).key] \in Obj \cup {NoObj}
  BY <1>1, <1>4 DEF TypeOK
<1>7. QED
  BY <1>1, <1>2, <1>3, <1>4, <1>5, <1>6

\* What the thread holds before the step.
LEMMA HeldFacts ==
  ASSUME IInv, NEW t \in Threads, stack[t] # <<>>
  PROVE  /\ Len(path[t]) = Entered(t)
         /\ Held(t) = IF owner = t THEN count ELSE 0
         /\ owner = t => count # 0
         /\ (owner = NoThread) <=> (count = 0)
         /\ count \in Nat
         /\ \A i \in 1..Held(t) :
              stack[t][i].key \in Singletons => single[stack[t][i].key] = NoObj
  BY ThreadAssumption DEF IInv, ThreadInv, TypeOK

\* A new call keeps the strengthening.
LEMMA CallKeeps ==
  ASSUME IInv, NEW t \in Threads, Call(t)
  PROVE  IInv'
<1>1. TypeOK /\ ThreadInv(t) /\ stack[t] = <<>>
  BY DEF IInv, Call
<1>2. PICK m \in {"get", "flat"}, k \in Keys :
        /\ stack' = [stack EXCEPT ![t] = <<NewFrame(m, k)>>]
        /\ last' = [last EXCEPT ![t] = [key |-> k, result |-> "none"]]
  BY DEF Call
<1>3. UNCHANGED <<single, owner, count, path, cell, made, handed>>
  BY DEF Call
<1>4. NewFrame(m, k) \in Frame /\ NewFrame(m, k).pc = "enter" /\ NewFrame(m, k).mode = m
  BY DEF NewFrame, Frame, Modes
<1>5. /\ stack'[t] = <<NewFrame(m, k)>>
      /\ stack' \in [Threads -> Seq(Frame)]
      /\ \A u \in Threads : u # t => stack'[u] = stack[u]
      /\ stack'[t] # <<>> /\ Len(stack'[t]) = 1 /\ stack'[t][1] = NewFrame(m, k)
  BY <1>1, <1>2, <1>4 DEF TypeOK
<1>6. last' \in [Threads -> [key : Keys, result : Results]]
  BY <1>1, <1>2 DEF TypeOK, Results
<1>7. TypeOK'
  BY <1>1, <1>3, <1>5, <1>6 DEF TypeOK
<1>8. Held(t) = 0 /\ Entered(t) = 0 /\ Held(t)' = 0 /\ Entered(t)' = 0
  BY <1>1, <1>4, <1>5 DEF Held, Entered, Top
<1>9. ThreadInv(t)'
  BY <1>1, <1>3, <1>4, <1>5, <1>8 DEF ThreadInv
<1>10. ASSUME NEW u \in Threads, u # t PROVE ThreadInv(u)'
  <2>1. ThreadInv(u) /\ Len(stack[u]) \in Nat
    BY LenProperties DEF IInv, TypeOK
  <2>2. QED
    BY <1>3, <1>5, <1>10, <2>1, OtherThread
<1>11. QED
  BY <1>3, <1>7, <1>9, <1>10 DEF IInv, HandedCurrent, CellsAgree

\* A hit of Container.get before the lock keeps it.
LEMMA GetHitKeeps ==
  ASSUME IInv, NEW t \in Threads, GetHit(t)
  PROVE  IInv'
<1>1. stack[t] # <<>> /\ Top(t).mode = "get" /\ Top(t).pc = "enter"
      /\ Return(t, single[Top(t).key]) /\ single[Top(t).key] # NoObj
      /\ UNCHANGED <<single, owner, count, path, cell, made>>
  BY DEF GetHit, AtTop
<1>2. TypeOK /\ ThreadInv(t) /\ single[Top(t).key] \in Obj \cup {NoObj}
  BY <1>1, TopFacts
<1>3. Held(t) = Len(stack[t]) - 1 /\ Entered(t) = Len(stack[t]) - 1
  BY <1>1, <1>2, Counts
<1>4. Len(path[t]) = Len(stack[t]) - 1 /\ Len(stack[t]) - 1 = IF owner = t THEN count ELSE 0
  BY <1>1, <1>3, HeldFacts
<1>5. QED
  BY <1>1, <1>2, <1>4, ReturnKeeps DEF IInv, TypeOK, CellsAgree

\* A miss keeps it: the key joins the path, or is found there.
LEMMA GetMissKeeps ==
  ASSUME IInv, NEW t \in Threads, GetMiss(t)
  PROVE  IInv'
<1> DEFINE n == Len(stack[t])
           f == [Top(t) EXCEPT !.pc = "wait"]
<1>1. stack[t] # <<>> /\ Top(t).mode = "get" /\ Top(t).pc = "enter"
  BY DEF GetMiss, AtTop
<1>2. TypeOK /\ ThreadInv(t) /\ Top(t) \in Frame /\ Top(t).key \in Keys
      /\ n \in Nat \ {0} /\ Top(t) = stack[t][n]
  BY <1>1, TopFacts
<1>3. CASE Top(t).key \in ToSet(path[t])
  <2>1. Raise(t, "cycle") /\ "cycle" \in Results
    BY <1>3 DEF GetMiss, Results
  <2>2. QED
    BY <2>1, <1>1, RaiseKeeps
<1>4. CASE Top(t).key \notin ToSet(path[t])
  <2>1. /\ path' = [path EXCEPT ![t] = Append(@, Top(t).key)]
        /\ SetTop(t, f)
        /\ UNCHANGED <<single, owner, count, cell, made, handed, last>>
    BY <1>4 DEF GetMiss
  <2>2. Held(t) = n - 1 /\ Entered(t) = n - 1 /\ Len(path[t]) = n - 1
    BY <1>1, <1>2, Counts DEF ThreadInv
  <2>3. f \in Frame /\ f.key = Top(t).key /\ f.mode = "get" /\ f.pc = "wait"
    BY <1>1, <1>2, FrameFields DEF Frame
  <2>4. stack'[t] # <<>> /\ Len(stack'[t]) = n /\ Top(t)' = f
    BY <1>1, <1>2, <2>1, <2>3, SetTopShape
  <2> HIDE DEF f
  <2>5. Held(t)' = n - 1 /\ Entered(t)' = n
    BY <2>3, <2>4 DEF Held, Entered
  <2>6. /\ path' \in [Threads -> Seq(Keys)]
        /\ \A u \in Threads : u # t => path'[u] = path[u]
        /\ Len(path'[t]) = n
        /\ \A i \in 1..n - 1 : path'[t][i] = path[t][i]
        /\ path'[t][n] = Top(t).key
    <3>1. path[t] \in Seq(Keys)
      BY <1>2 DEF TypeOK
    <3>2. /\ Append(path[t], Top(t).key) \in Seq(Keys)
          /\ Len(Append(path[t], Top(t).key)) = Len(path[t]) + 1
          /\ \A i \in 1..Len(path[t]) : Append(path[t], Top(t).key)[i] = path[t][i]
          /\ Append(path[t], Top(t).key)[Len(path[t]) + 1] = Top(t).key
      BY <1>2, <3>1, AppendProperties
    <3>3. (n - 1) + 1 = n
      BY <1>2
    <3>4. QED
      BY <1>2, <2>1, <2>2, <3>2, <3>3 DEF TypeOK
  <2>7. \A i \in 1..n - 1 : path[t][i] = stack[t][i].key
    BY <1>2, <2>2 DEF ThreadInv
  <2>8. \A i \in 1..n - 1 : stack[t][i].key # Top(t).key
    <3>1. path[t] \in Seq(Keys) /\ DOMAIN path[t] = 1..n - 1
      BY <1>2, <2>2, LenProperties DEF TypeOK
    <3>2. QED
      BY <3>1, <2>7, <1>4 DEF ToSet
  <2>9. \A i \in 1..n : i = n \/ i \in 1..n - 1
    <3> HIDE DEF n
    <3>1. QED
      BY <1>2
  <2>10. \A i \in 1..n : path'[t][i] = stack[t][i].key
    BY <1>2, <2>6, <2>7, <2>9
  <2>11. \A i, j \in 1..n : stack[t][i].key = stack[t][j].key => i = j
    <3>1. \A i, j \in 1..n - 1 : stack[t][i].key = stack[t][j].key => i = j
      BY <1>2, <2>2 DEF ThreadInv
    <3>2. QED
      BY <3>1, <1>2, <2>8, <2>9
  <2>12. \A i \in 1..n - 1 : stack[t][i].key \in Singletons => single[stack[t][i].key] = NoObj
    BY <1>1, <2>2, HeldFacts
  <2>13. n - 1 = IF owner = t THEN count ELSE 0
    BY <1>1, <2>2, HeldFacts
  <2> HIDE DEF n
  <2>14. /\ made' \in [Keys -> Nat]
         /\ owner' \in Threads \cup {NoThread} /\ count' \in Nat
         /\ (owner' = NoThread) <=> (count' = 0)
         /\ UNCHANGED <<single, cell, handed, last>>
         /\ owner' = owner /\ count' = count
    BY <2>1 DEF IInv, TypeOK
  <2>15. Held(t)' = IF owner' = t THEN count' ELSE 0
    BY <2>5, <2>13, <2>14
  <2>16. f.pc = "made" => IF f.key \in Singletons THEN f.obj \in Obj ELSE f.obj = NoObj
    BY <2>3
  <2>17. QED
    BY <1>1, <2>1, <2>3, <2>5, <2>6, <2>10, <2>11, <2>12, <2>14, <2>15, <2>16, SetTopKeeps, ZenonT(30)
<1>5. QED
  BY <1>3, <1>4

\* A hit under the lock keeps it.
LEMMA GetRecheckKeeps ==
  ASSUME IInv, NEW t \in Threads, GetRecheck(t)
  PROVE  IInv'
<1> DEFINE n == Len(stack[t])
<1>1. /\ stack[t] # <<>> /\ Top(t).mode = "get" /\ Top(t).pc = "wait"
      /\ Return(t, single[Top(t).key]) /\ single[Top(t).key] # NoObj
      /\ PopPath(t, 1)
      /\ UNCHANGED <<single, owner, count, cell, made>>
  BY DEF GetRecheck, AtTop
<1>2. TypeOK /\ ThreadInv(t) /\ single[Top(t).key] \in Obj \cup {NoObj} /\ n \in Nat \ {0}
  BY <1>1, TopFacts
<1>3. Held(t) = n - 1 /\ Len(path[t]) = n
  BY <1>1, <1>2, Counts, HeldFacts
<1>4. /\ path' \in [Threads -> Seq(Keys)]
      /\ \A u \in Threads : u # t => path'[u] = path[u]
      /\ Len(path'[t]) = n - 1
      /\ \A i \in 1..n - 1 : path'[t][i] = path[t][i]
  <2>1. 1 \in 0..Len(path[t])
    BY <1>2, <1>3
  <2>2. QED
    BY <1>1, <1>2, <1>3, <2>1, PopPathShape
<1>5. n - 1 = IF owner = t THEN count ELSE 0
  BY <1>1, <1>3, HeldFacts
<1>6. /\ single' \in [Keys -> Obj \cup {NoObj}]
      /\ cell' \in [{"flat", "maker"} -> [Keys -> Obj \cup {NoObj}]]
      /\ made' \in [Keys -> Nat]
      /\ owner' \in Threads \cup {NoThread} /\ count' \in Nat
      /\ (owner' = NoThread) <=> (count' = 0)
      /\ CellsAgree'
  BY <1>1 DEF IInv, TypeOK, CellsAgree
<1>7. QED
  BY <1>1, <1>2, <1>4, <1>5, <1>6, ReturnKeeps

\* Taking the lock keeps it, and so do the errors found under the lock.
LEMMA GetLockedKeeps ==
  ASSUME IInv, NEW t \in Threads, GetLocked(t)
  PROVE  IInv'
<1> DEFINE n == Len(stack[t])
           f == [Top(t) EXCEPT !.pc = "deps"]
<1>1. stack[t] # <<>> /\ Top(t).mode = "get" /\ Top(t).pc = "wait" /\ CanLock(t)
      /\ single[Top(t).key] = NoObj
  BY DEF GetLocked, AtTop
<1>2. TypeOK /\ ThreadInv(t) /\ Top(t) \in Frame /\ Top(t).key \in Keys
      /\ n \in Nat \ {0} /\ Top(t) = stack[t][n]
  BY <1>1, TopFacts
<1>3. CASE Top(t).key \notin Registered \/ Top(t).key \in AsyncKeys
  <2>1. Raise(t, "missing") \/ Raise(t, "async")
    BY <1>3 DEF GetLocked
  <2>2. "missing" \in Results /\ "async" \in Results
    BY DEF Results
  <2>3. QED
    BY <2>1, <2>2, <1>1, RaiseKeeps
<1>4. CASE Top(t).key \in Registered \ AsyncKeys
  <2>1. /\ owner' = t /\ count' = count + 1
        /\ SetTop(t, f)
        /\ UNCHANGED <<single, path, cell, made, handed, last>>
    BY <1>4 DEF GetLocked
  <2>2. f \in Frame /\ f.key = Top(t).key /\ f.mode = "get" /\ f.pc = "deps"
    <3>1. f \in Frame /\ f.key = Top(t).key /\ f.mode = Top(t).mode /\ f.pc = "deps"
      BY <1>2 DEF Frame
    <3>2. QED
      BY <1>1, <3>1
  <2>3. Held(t) = n - 1 /\ Entered(t) = n
    BY <1>1, <1>2, Counts
  <2>4. stack'[t] # <<>> /\ Len(stack'[t]) = n /\ Top(t)' = f
    BY <1>1, <1>2, <2>1, <2>2, SetTopShape
  <2> HIDE DEF f
  <2>5. Held(t)' = n /\ Entered(t)' = n
    BY <2>2, <2>4 DEF Held, Entered
  <2>6. count \in Nat /\ (owner = t => count = n - 1) /\ (owner # t => n - 1 = 0 /\ count = 0)
    BY <1>1, <2>3, HeldFacts DEF CanLock
  <2>7. count' = n
    <3>1. n \in Nat
      BY <1>2
    <3> HIDE DEF n
    <3>2. QED
      BY <2>1, <2>6, <3>1
  <2>8. /\ made' \in [Keys -> Nat]
        /\ owner' \in Threads \cup {NoThread} /\ count' \in Nat
        /\ (owner' = NoThread) <=> (count' = 0)
        /\ UNCHANGED <<single, cell, handed, last>>
        /\ path' \in [Threads -> Seq(Keys)]
    BY <1>2, <2>1, <2>7, ThreadAssumption DEF TypeOK
  <2>9. \A u \in Threads : u # t =>
          /\ path'[u] = path[u]
          /\ owner = u => owner' = u /\ count' = count
          /\ owner # u => owner' # u
    BY <1>1, <2>1, ThreadAssumption DEF CanLock
  <2>10. /\ Len(path'[t]) = n
         /\ \A i \in 1..n : path'[t][i] = stack[t][i].key
         /\ \A i, j \in 1..n : stack[t][i].key = stack[t][j].key => i = j
    BY <1>2, <2>1, <2>3 DEF ThreadInv
  <2>11. \A i \in 1..n :
           stack[t][i].key \in Singletons => single[stack[t][i].key] = NoObj
    <3>1. \A i \in 1..n - 1 :
            stack[t][i].key \in Singletons => single[stack[t][i].key] = NoObj
      BY <1>1, <2>3, HeldFacts
    <3>2. \A i \in 1..n : i = n \/ i \in 1..n - 1
      <4> HIDE DEF n
      <4>1. QED
        BY <1>2
    <3>3. QED
      BY <1>1, <1>2, <3>1, <3>2
  <2>12. f.pc = "made" => IF f.key \in Singletons THEN f.obj \in Obj ELSE f.obj = NoObj
    BY <2>2
  <2>13. Held(t)' = IF owner' = t THEN count' ELSE 0
    BY <2>1, <2>5, <2>7
  <2>14. f.mode = Top(t).mode
    BY <1>1, <2>2
  <2>15. QED
    BY <1>1, <2>1, <2>2, <2>5, <2>8, <2>9, <2>10, <2>11, <2>12, <2>13, <2>14, SetTopKeeps
<1>5. QED
  BY <1>3, <1>4

\* Caching what the factory returned keeps it: nobody can have published the
\* singleton since the lock was taken but compiled resolvers, and they need it.
LEMMA StoreKeeps ==
  ASSUME IInv, NEW t \in Threads, Store(t)
  PROVE  IInv'
<1> DEFINE n == Len(stack[t])
           k == Top(t).key
           o == Top(t).obj
<1>1. /\ stack[t] # <<>> /\ Top(t).mode = "get" /\ Top(t).pc = "made"
      /\ single' = IF k \in Singletons THEN [single EXCEPT ![k] = o] ELSE single
      /\ Return(t, o)
      /\ PopPath(t, 1)
      /\ Unlock(1)
      /\ UNCHANGED <<cell, made>>
  BY DEF Store, AtTop
<1>2. TypeOK /\ ThreadInv(t) /\ Top(t) \in Frame /\ k \in Keys
      /\ n \in Nat \ {0} /\ n \in 1..n /\ Top(t) = stack[t][n]
  BY <1>1, TopFacts
<1>3. Held(t) = n /\ Len(path[t]) = n
  BY <1>1, <1>2, Counts, HeldFacts
<1>4. IF k \in Singletons THEN o \in Obj ELSE o = NoObj
  BY <1>1, <1>2 DEF ThreadInv
<1>5. owner = t /\ count = n
  BY <1>1, <1>2, <1>3, HeldFacts
<1>6. /\ path' \in [Threads -> Seq(Keys)]
      /\ \A u \in Threads : u # t => path'[u] = path[u]
      /\ Len(path'[t]) = n - 1
      /\ \A i \in 1..n - 1 : path'[t][i] = path[t][i]
  <2>1. 1 \in 0..Len(path[t])
    BY <1>2, <1>3
  <2>2. QED
    BY <1>1, <1>2, <1>3, <2>1, PopPathShape
<1>7. k \in Singletons => single[k] = NoObj
  BY <1>1, <1>2, <1>3, HeldFacts
<1>8. /\ count' = n - 1
      /\ owner' = IF n - 1 = 0 THEN NoThread ELSE t
      /\ owner' \in Threads \cup {NoThread} /\ count' \in Nat
      /\ (owner' = NoThread) <=> (count' = 0)
      /\ n - 1 = IF owner' = t THEN count' ELSE 0
  <2>1. count' = n - 1 /\ owner' = IF n - 1 = 0 THEN NoThread ELSE t
    BY <1>1, <1>5 DEF Unlock
  <2>2. n \in Nat \ {0}
    BY <1>2
  <2> HIDE DEF n
  <2>3. QED
    BY <2>1, <2>2, ThreadAssumption
<1>9. /\ single' \in [Keys -> Obj \cup {NoObj}]
      /\ cell' \in [{"flat", "maker"} -> [Keys -> Obj \cup {NoObj}]]
      /\ made' \in [Keys -> Nat]
      /\ o \in Obj \cup {NoObj}
      /\ \A j \in Keys : single'[j] # single[j] => single[j] = NoObj /\ j = k
      /\ o # NoObj => o = single'[k]
  BY <1>1, <1>2, <1>4, <1>7 DEF TypeOK
<1>10. CellsAgree'
  BY <1>1, <1>2, <1>9 DEF IInv, CellsAgree, TypeOK
<1>11. \A u \in Threads : u # t =>
         /\ owner = u => owner' = u /\ count' = count /\ single' = single
         /\ owner # u => owner' # u
  BY <1>5, <1>8, ThreadAssumption
<1> HIDE DEF o, k
<1>12. QED
  BY <1>1, <1>6, <1>8, <1>9, <1>10, <1>11, ReturnKeeps, ZenonT(30) DEF k

\* Calling for the next dependency keeps it.
LEMMA ResolveDepKeeps ==
  ASSUME IInv, NEW t \in Threads, ResolveDep(t)
  PROVE  IInv'
<1> DEFINE n == Len(stack[t])
           m == IF Top(t).mode = "get" THEN "get" ELSE "maker"
<1>1. /\ stack[t] # <<>> /\ Top(t).pc = "deps"
      /\ UNCHANGED <<single, owner, count, path, cell, made, handed, last>>
  BY DEF ResolveDep, AtTop
<1>2. PICK d \in Keys : stack' = [stack EXCEPT ![t] = Append(@, NewFrame(m, d))]
  BY DEF ResolveDep
<1> DEFINE f == NewFrame(m, d)
<1>3. TypeOK /\ ThreadInv(t) /\ n \in Nat \ {0} /\ n \in 1..n /\ Top(t) = stack[t][n]
  BY <1>1, TopFacts
<1>4. f \in Frame /\ f.pc = "enter" /\ f.mode = m
  BY DEF NewFrame, Frame, Modes
<1> HIDE DEF f
<1>5. stack' = [stack EXCEPT ![t] = Append(@, f)]
  BY <1>2 DEF f
<1>6. /\ stack' \in [Threads -> Seq(Frame)]
      /\ \A u \in Threads : u # t => stack'[u] = stack[u]
      /\ stack'[t] # <<>>
      /\ Len(stack'[t]) = n + 1
      /\ \A i \in 1..n + 1 : stack'[t][i] = IF i = n + 1 THEN f ELSE stack[t][i]
      /\ Top(t)' = f
  BY <1>3, <1>4, <1>5, PushShape
<1>7. Held(t)' = Held(t) /\ Entered(t)' = Entered(t)
      /\ Held(t) \in 0..n /\ Entered(t) \in 0..n
  <2>1. (n + 1) - 1 = n
    BY <1>3
  <2>2. CASE Top(t).mode = "get"
    <3>1. Held(t) = n /\ Entered(t) = n
      BY <2>2, <1>1, <1>3, Counts
    <3>2. Held(t)' = n /\ Entered(t)' = n
      BY <2>1, <2>2, <1>4, <1>6 DEF Held, Entered
    <3>3. QED
      BY <3>1, <3>2, <1>3
  <2>3. CASE Top(t).mode # "get"
    <3>1. Held(t) = 0 /\ Entered(t) = 0
      BY <2>3, <1>1, <1>3, Counts
    <3>2. Held(t)' = 0 /\ Entered(t)' = 0
      BY <2>3, <1>4, <1>6 DEF Held, Entered
    <3>3. QED
      BY <3>1, <3>2, <1>3
  <2>4. QED
    BY <2>2, <2>3
<1>8. TypeOK'
  BY <1>1, <1>3, <1>6 DEF TypeOK
<1>9. ThreadInv(t)'
  <2>1. /\ (n + 1) - 1 = n
        /\ \A i \in 1..n : i \in 1..n + 1 /\ i # n + 1 /\ (i = n \/ i \in 1..n - 1)
        /\ \A i \in 1..n + 1 : i = n + 1 \/ i \in 1..n
        /\ \A i \in 1..Entered(t) : i \in 1..n
        /\ \A i \in 1..Held(t) : i \in 1..n
    <3>1. n \in Nat \ {0} /\ Held(t) \in 0..n /\ Entered(t) \in 0..n
      BY <1>3, <1>7
    <3> HIDE DEF n
    <3>2. QED
      BY <3>1
  <2>2. \A i \in 1..n : stack'[t][i] = stack[t][i]
    BY <2>1, <1>6
  <2>3. \A i \in 1..Len(stack'[t]) - 1 : stack'[t][i].pc = "deps"
    <3>1. \A i \in 1..n : stack[t][i].pc = "deps"
      BY <1>1, <1>3, <2>1 DEF ThreadInv
    <3>2. QED
      BY <3>1, <2>1, <2>2, <1>6
  <2>4. \A i, j \in 1..Len(stack'[t]) :
          stack'[t][i].mode = "get" => stack'[t][j].mode = "get"
    <3>1. \A i, j \in 1..n : stack[t][i].mode = "get" => stack[t][j].mode = "get"
      BY <1>3 DEF ThreadInv
    <3>2. \A i \in 1..n : stack[t][i].mode = "get" <=> m = "get"
      BY <3>1, <1>3
    <3>3. \A i \in 1..n + 1 : stack'[t][i].mode = "get" <=> m = "get"
      BY <3>2, <2>1, <2>2, <1>4, <1>6
    <3>4. QED
      BY <3>3, <1>6
  <2>5. \A i \in 1..Len(stack'[t]) :
          stack'[t][i].pc = "made" =>
            IF stack'[t][i].key \in Singletons THEN stack'[t][i].obj \in Obj
            ELSE stack'[t][i].obj = NoObj
    <3>1. \A i \in 1..n :
          stack[t][i].pc = "made" =>
            IF stack[t][i].key \in Singletons THEN stack[t][i].obj \in Obj
            ELSE stack[t][i].obj = NoObj
      BY <1>3 DEF ThreadInv
    <3>2. \A i \in 1..n + 1 :
          stack'[t][i].pc = "made" =>
            IF stack'[t][i].key \in Singletons THEN stack'[t][i].obj \in Obj
            ELSE stack'[t][i].obj = NoObj
      BY <3>1, <2>1, <2>2, <1>4, <1>6
    <3>3. QED
      BY <3>2, <1>6
  <2>6. \A i \in 1..Entered(t)' : path'[t][i] = stack'[t][i].key
    BY <1>1, <1>3, <1>7, <2>1, <2>2 DEF ThreadInv
  <2>7. \A i, j \in 1..Entered(t)' : stack'[t][i].key = stack'[t][j].key => i = j
    <3>1. \A i, j \in 1..Entered(t) : stack[t][i].key = stack[t][j].key => i = j
      BY <1>3 DEF ThreadInv
    <3>2. QED
      BY <3>1, <1>7, <2>1, <2>2
  <2>8. \A i \in 1..Held(t)' :
          stack'[t][i].key \in Singletons => single'[stack'[t][i].key] = NoObj
    BY <1>1, <1>3, <1>7, <2>1, <2>2, HeldFacts, SMTT(30)
  <2>9. Len(path'[t]) = Entered(t)' /\ Held(t)' = IF owner' = t THEN count' ELSE 0
    BY <1>1, <1>7, HeldFacts
  <2>10. QED
    BY <2>3, <2>4, <2>5, <2>6, <2>7, <2>8, <2>9 DEF ThreadInv
<1>10. ASSUME NEW u \in Threads, u # t PROVE ThreadInv(u)'
  <2>1. ThreadInv(u) /\ Len(stack[u]) \in Nat
    BY LenProperties DEF IInv, TypeOK
  <2>2. QED
    BY <1>1, <1>6, <1>10, <2>1, OtherThread
<1>11. QED
  BY <1>1, <1>8, <1>9, <1>10 DEF IInv, HandedCurrent, CellsAgree

\* A run of a factory keeps it: the instance is new.
LEMMA MakeKeeps ==
  ASSUME IInv, NEW t \in Threads, Make(t)
  PROVE  IInv'
<1> DEFINE n == Len(stack[t])
           k == Top(t).key
           o == IF k \in Singletons THEN <<k, made[k] + 1>> ELSE NoObj
           f == [Top(t) EXCEPT !.pc = "made", !.obj = o]
<1>1. /\ stack[t] # <<>> /\ Top(t).pc = "deps"
      /\ made' = IF k \in Singletons THEN [made EXCEPT ![k] = @ + 1] ELSE made
      /\ SetTop(t, f)
      /\ UNCHANGED <<single, owner, count, path, cell, handed, last>>
  BY DEF Make, AtTop
<1>2. TypeOK /\ ThreadInv(t) /\ Top(t) \in Frame /\ k \in Keys /\ n \in Nat \ {0}
  BY <1>1, TopFacts
<1>3. /\ made' \in [Keys -> Nat]
      /\ IF k \in Singletons THEN o \in Obj ELSE o = NoObj
  <2>1. made[k] \in Nat
    BY <1>2 DEF TypeOK
  <2>2. k \in Singletons => <<k, made[k] + 1>> \in Obj
    BY <2>1 DEF Obj
  <2>3. made' \in [Keys -> Nat]
    BY <1>1, <1>2, <2>1 DEF TypeOK
  <2>4. QED
    BY <2>2, <2>3
<1> HIDE DEF o
<1>4. f \in Frame /\ f.key = k /\ f.mode = Top(t).mode /\ f.pc = "made" /\ f.obj = o
  BY <1>2, <1>3 DEF Frame
<1> HIDE DEF f, k
<1>5. stack'[t] # <<>> /\ Len(stack'[t]) = n /\ Top(t)' = f
  BY <1>1, <1>2, <1>4, SetTopShape
<1>6. Held(t)' = Held(t) /\ Entered(t)' = Entered(t)
  BY <1>1, <1>4, <1>5 DEF Held, Entered
<1>7. /\ Len(path[t]) = Entered(t)
      /\ \A i \in 1..Entered(t) : path[t][i] = stack[t][i].key
      /\ \A i, j \in 1..Entered(t) : stack[t][i].key = stack[t][j].key => i = j
  BY <1>2 DEF ThreadInv
<1>8. /\ owner' \in Threads \cup {NoThread} /\ count' \in Nat
      /\ (owner' = NoThread) <=> (count' = 0)
      /\ path' \in [Threads -> Seq(Keys)]
  BY <1>1 DEF IInv, TypeOK
<1>9. f.key = Top(t).key
  BY <1>4 DEF k
<1>10. f.pc = "made" => IF f.key \in Singletons THEN f.obj \in Obj ELSE f.obj = NoObj
  BY <1>3, <1>4
<1>11. QED
  BY <1>1, <1>3, <1>4, <1>6, <1>7, <1>8, <1>9, <1>10, HeldFacts, SetTopKeeps

\* A factory that raises keeps it.
LEMMA MakeFailsKeeps ==
  ASSUME IInv, NEW t \in Threads, MakeFails(t)
  PROVE  IInv'
<1>1. stack[t] # <<>> /\ Raise(t, "failed") /\ "failed" \in Results
  BY DEF MakeFails, AtTop, Results
<1>2. QED
  BY <1>1, RaiseKeeps

\* A thread inside a compiled resolver holds nothing and has an empty path.
LEMMA PlanFacts ==
  ASSUME IInv, NEW t \in Threads, stack[t] # <<>>, Top(t).mode \in {"flat", "maker"}
  PROVE  /\ Top(t).mode # "get" /\ Held(t) = 0 /\ Entered(t) = 0
         /\ Len(path[t]) = 0 /\ owner # t
         /\ CellOf(Top(t)) \in Obj \cup {NoObj}
         /\ CellOf(Top(t)) \in {NoObj, single[Top(t).key]}
<1>1. TypeOK /\ Top(t).mode # "get"
  BY DEF IInv
<1>2. Held(t) = 0 /\ Entered(t) = 0
  BY <1>1, Counts
<1>3. Len(path[t]) = 0 /\ owner # t
  BY <1>2, HeldFacts, ThreadAssumption
<1>4. Top(t).key \in Keys
  BY TopFacts
<1>5. QED
  BY <1>1, <1>2, <1>3, <1>4 DEF CellOf, TypeOK, IInv, CellsAgree

\* A compiled resolver returns o, having at most cached it first.
LEMMA PlanReturnKeeps ==
  ASSUME IInv, NEW t \in Threads, stack[t] # <<>>,
         Top(t).mode \in {"flat", "maker"},
         NEW o \in Obj \cup {NoObj}, Return(t, o),
         UNCHANGED <<owner, count, path, made>>,
         single' \in [Keys -> Obj \cup {NoObj}],
         \A k \in Keys : single'[k] # single[k] =>
           single[k] = NoObj /\ k = Top(t).key /\ CanLock(t),
         o # NoObj => o = single'[Top(t).key],
         cell' = cell \/ Memo(Top(t), o),
         cell' # cell => o # NoObj
  PROVE  IInv'
<1> DEFINE k == Top(t).key
<1>1. /\ Top(t).mode # "get" /\ Len(path[t]) = 0 /\ owner # t
  BY PlanFacts
<1>2. TypeOK /\ k \in Keys /\ CellsAgree
  BY TopFacts DEF IInv
<1>3. \A j \in Keys : j # k => single'[j] = single[j]
  OBVIOUS
<1>4. cell' \in [{"flat", "maker"} -> [Keys -> Obj \cup {NoObj}]]
  <2> DEFINE m == Top(t).mode
             row == [cell[m] EXCEPT ![k] = o]
  <2>1. cell \in [{"flat", "maker"} -> [Keys -> Obj \cup {NoObj}]]
    BY <1>2 DEF TypeOK
  <2>2. row \in [Keys -> Obj \cup {NoObj}]
    BY <2>1
  <2>3. CASE Memo(Top(t), o)
    <3>1. cell' = [cell EXCEPT ![m] = row]
      BY <2>3 DEF Memo
    <3> HIDE DEF row, m
    <3>2. QED
      BY <2>1, <2>2, <3>1
  <2>4. QED
    BY <2>1, <2>3
<1>5. CellsAgree'
  <2> SUFFICES ASSUME NEW m \in {"flat", "maker"}, NEW j \in Keys
               PROVE  cell'[m][j] \in {NoObj, single'[j]}
    BY DEF CellsAgree
  <2>1. cell[m][j] \in {NoObj, single[j]}
    BY <1>2 DEF CellsAgree
  <2>2. cell[m][j] \in {NoObj, single'[j]}
    BY <2>1
  <2>3. cell'[m][j] = cell[m][j] \/ (j = k /\ cell'[m][j] = o /\ o # NoObj)
    BY <1>2 DEF TypeOK, Memo
  <2>4. QED
    BY <2>2, <2>3
<1>6. \A u \in Threads : u # t =>
        /\ owner = u => owner' = u /\ count' = count /\ single' = single
        /\ owner # u => owner' # u
  <2>1. ASSUME NEW u \in Threads, u # t, owner = u PROVE single' = single
    <3>1. ~CanLock(t)
      BY <2>1, ThreadAssumption DEF CanLock
    <3>2. \A j \in Keys : single'[j] = single[j]
      BY <3>1
    <3>3. QED
      BY <3>2, <1>2 DEF TypeOK
  <2>2. QED
    BY <2>1
<1>7. /\ made' \in [Keys -> Nat]
      /\ owner' \in Threads \cup {NoThread} /\ count' \in Nat
      /\ (owner' = NoThread) <=> (count' = 0)
      /\ path' \in [Threads -> Seq(Keys)]
      /\ \A u \in Threads : u # t => path'[u] = path[u]
      /\ Len(path'[t]) = 0
      /\ \A i \in 1..Len(path'[t]) : path'[t][i] = path[t][i]
      /\ 0 = IF owner' = t THEN count' ELSE 0
  BY <1>1 DEF IInv, TypeOK
<1>8. /\ Len(path'[t]) = IF Top(t).mode = "get" THEN Len(stack[t]) - 1 ELSE 0
      /\ (IF Top(t).mode = "get" THEN Len(stack[t]) - 1 ELSE 0) =
           (IF owner' = t THEN count' ELSE 0)
      /\ \A j \in Keys : single'[j] # single[j] =>
           /\ single[j] = NoObj /\ j = Top(t).key
           /\ Top(t).mode = "get" => Top(t).pc = "made"
  BY <1>1, <1>7
<1>9. QED
  BY <1>4, <1>5, <1>6, <1>7, <1>8, ReturnKeeps

\* A hit of a compiled resolver, in its memo cell or in the cache, keeps it.
LEMMA PlanHitKeeps ==
  ASSUME IInv, NEW t \in Threads, PlanHit(t)
  PROVE  IInv'
<1> DEFINE k == Top(t).key
           c == CellOf(Top(t))
<1>1. stack[t] # <<>> /\ Top(t).mode \in {"flat", "maker"} /\ UNCHANGED <<single, owner, count, path, made>>
  BY DEF PlanHit, AtTop
<1>2. k \in Keys /\ single[k] \in Obj \cup {NoObj} /\ single \in [Keys -> Obj \cup {NoObj}]
      /\ c \in Obj \cup {NoObj} /\ c \in {NoObj, single[k]}
  BY <1>1, TopFacts, PlanFacts DEF TypeOK
<1>3. CASE c # NoObj
  <2>1. Return(t, c) /\ cell' = cell
    BY <1>3 DEF PlanHit
  <2>2. c = single'[k] /\ \A j \in Keys : single'[j] = single[j]
    BY <1>1, <1>2, <1>3
  <2> HIDE DEF c
  <2>3. QED
    BY <1>1, <1>2, <2>1, <2>2, PlanReturnKeeps
<1>4. CASE c = NoObj
  <2>1. single[k] # NoObj /\ Memo(Top(t), single[k]) /\ Return(t, single[k])
    BY <1>4 DEF PlanHit
  <2>2. QED
    BY <1>1, <1>2, <2>1, PlanReturnKeeps
<1>5. QED
  BY <1>3, <1>4

\* A miss of a compiled resolver keeps it.
LEMMA PlanMissKeeps ==
  ASSUME IInv, NEW t \in Threads, PlanMiss(t)
  PROVE  IInv'
<1> DEFINE n == Len(stack[t])
           f == [Top(t) EXCEPT !.pc = "deps"]
<1>1. stack[t] # <<>> /\ Top(t).mode \in {"flat", "maker"} /\ SetTop(t, f)
      /\ UNCHANGED <<single, owner, count, path, cell, made, handed, last>>
  BY DEF PlanMiss, AtTop
<1>2. TypeOK /\ ThreadInv(t) /\ Top(t) \in Frame /\ n \in Nat \ {0}
  BY <1>1, TopFacts
<1>3. Top(t).mode # "get" /\ Len(path[t]) = 0 /\ owner # t
  BY <1>1, PlanFacts
<1>4. f \in Frame /\ f.key = Top(t).key /\ f.mode = Top(t).mode /\ f.pc = "deps"
  BY <1>2 DEF Frame
<1> HIDE DEF f
<1>5. Top(t)' = f
  BY <1>1, <1>2, <1>4, SetTopShape
<1>6. Held(t)' = 0 /\ Entered(t)' = 0
  BY <1>3, <1>4, <1>5 DEF Held, Entered
<1>7. /\ made' \in [Keys -> Nat]
      /\ owner' \in Threads \cup {NoThread} /\ count' \in Nat
      /\ (owner' = NoThread) <=> (count' = 0)
      /\ path' \in [Threads -> Seq(Keys)]
  BY <1>1 DEF IInv, TypeOK
<1>8. /\ Len(path'[t]) = Entered(t)'
      /\ \A i \in 1..Entered(t)' : path'[t][i] = stack[t][i].key
      /\ \A i, j \in 1..Entered(t)' : stack[t][i].key = stack[t][j].key => i = j
      /\ Held(t)' = IF owner' = t THEN count' ELSE 0
      /\ \A i \in 1..Held(t)' :
           stack[t][i].key \in Singletons => single[stack[t][i].key] = NoObj
  BY <1>1, <1>3, <1>6
<1>9. QED
  BY <1>1, <1>4, <1>7, <1>8, SetTopKeeps

\* Publication by a compiled resolver keeps it: the first instance wins.
LEMMA PublishKeeps ==
  ASSUME IInv, NEW t \in Threads, Publish(t)
  PROVE  IInv'
<1> DEFINE k == Top(t).key
           w == IF single[k] # NoObj THEN single[k] ELSE Top(t).obj
<1>1. /\ stack[t] # <<>> /\ Top(t).mode \in {"flat", "maker"} /\ Top(t).pc = "made"
      /\ k \in Singletons /\ CanLock(t)
      /\ single' = [single EXCEPT ![k] = w]
      /\ Memo(Top(t), w) /\ Return(t, w)
      /\ UNCHANGED <<owner, count, path, made>>
  BY DEF Publish, AtTop
<1>2. TypeOK /\ ThreadInv(t) /\ k \in Keys
      /\ Len(stack[t]) \in 1..Len(stack[t]) /\ Top(t) = stack[t][Len(stack[t])]
  BY <1>1, TopFacts
<1>3. Top(t).obj \in Obj
  BY <1>1, <1>2 DEF ThreadInv
<1>4. w \in Obj
  BY <1>2, <1>3 DEF TypeOK
<1>5. w # NoObj
  BY <1>4, NoObjIsNoObject
<1>6. single' \in [Keys -> Obj \cup {NoObj}] /\ single'[k] = w
      /\ \A j \in Keys : single'[j] # single[j] => single[j] = NoObj /\ j = k
  BY <1>1, <1>2, <1>4 DEF TypeOK
<1> HIDE DEF w
<1>7. QED
  BY <1>1, <1>4, <1>5, <1>6, PlanReturnKeeps

\* The return of a transient from a compiled resolver keeps it.
LEMMA PlanTransientKeeps ==
  ASSUME IInv, NEW t \in Threads, PlanTransient(t)
  PROVE  IInv'
<1>1. /\ stack[t] # <<>> /\ Top(t).mode \in {"flat", "maker"} /\ Return(t, NoObj)
      /\ UNCHANGED <<single, owner, count, path, cell, made>>
  BY DEF PlanTransient, AtTop
<1>2. single \in [Keys -> Obj \cup {NoObj}]
  BY DEF IInv, TypeOK
<1>3. QED
  BY <1>1, <1>2, PlanReturnKeeps

\* A step that changes nothing keeps it.
LEMMA StutterKeeps == IInv /\ UNCHANGED vars => IInv'
<1> SUFFICES ASSUME IInv, UNCHANGED vars PROVE IInv'
  OBVIOUS
<1>1. TypeOK'
  BY DEF IInv, TypeOK, vars
<1>2. ASSUME NEW u \in Threads PROVE ThreadInv(u)'
  BY DEF IInv, ThreadInv, Held, Entered, Top, vars
<1>3. QED
  BY <1>1, <1>2 DEF IInv, HandedCurrent, CellsAgree, vars

\* Every step keeps it.
LEMMA NextKeeps == IInv /\ [Next]_vars => IInv'
<1> SUFFICES ASSUME IInv, [Next]_vars PROVE IInv'
  OBVIOUS
<1>1. ASSUME NEW t \in Threads, Call(t) PROVE IInv'
  BY <1>1, CallKeeps
<1>2. ASSUME NEW t \in Threads, Step(t) PROVE IInv'
  BY <1>2, GetHitKeeps, GetMissKeeps, GetRecheckKeeps, GetLockedKeeps, StoreKeeps,
     ResolveDepKeeps, MakeKeeps, MakeFailsKeeps, PlanHitKeeps, PlanMissKeeps,
     PublishKeeps, PlanTransientKeeps
     DEF Step
<1>3. CASE UNCHANGED vars
  BY <1>3, StutterKeeps
<1>4. QED
  BY <1>1, <1>2, <1>3 DEF Next

-----------------------------------------------------------------------------
(* Invariants of the specification *)

\* The strengthening is an invariant.
THEOREM Invariance == Spec => []IInv
<1>1. IInv /\ [Next]_vars => IInv'
  BY NextKeeps
<1>2. QED
  BY InitIInv, <1>1, PTL DEF Spec

\* Every variable keeps its type: paths and stacks hold keys, only instances of
\* singletons are cached or handed out, the acquisition count never goes negative.
THEOREM TypeCorrect == Spec => []TypeOK
<1>1. IInv => TypeOK
  BY DEF IInv
<1>2. QED
  BY Invariance, <1>1, PTL

\* All callers of a singleton, through Container.get or a compiled resolver,
\* from any thread, received the same instance.
THEOREM Identity == Spec => []SingletonIdentity
<1>1. IInv => SingletonIdentity
  BY DEF IInv, HandedCurrent, SingletonIdentity
<1>2. QED
  BY Invariance, <1>1, PTL

\* The lock belongs to the one thread that is inside "with self.lock", with the
\* right count: nothing stays locked after a return or an exception.
THEOREM Locking == Spec => []LockDiscipline
<1>1. IInv => LockDiscipline
  BY DEF IInv, ThreadInv, LockDiscipline
<1>2. QED
  BY Invariance, <1>1, PTL

\* A context's resolution path is the chain of services under resolution.
THEOREM Paths == Spec => []PathMatchesCall
<1>1. IInv => PathMatchesCall
  BY DEF IInv, ThreadInv, PathMatchesCall
<1>2. QED
  BY Invariance, <1>1, PTL

\* The memo cells of the compiled resolvers never hold anything but the
\* published singleton.
THEOREM Cells == Spec => []CellsAgree
<1>1. IInv => CellsAgree
  BY DEF IInv
<1>2. QED
  BY Invariance, <1>1, PTL

-----------------------------------------------------------------------------
(* What a step may never do *)

\* The steps that write the cache write the key of the top frame, unpublished.
LEMMA SingleChanges ==
  ASSUME IInv, NEW t \in Threads, Step(t)
  PROVE  \/ single' = single
         \/ /\ stack[t] # <<>> /\ Top(t).pc = "made" /\ Top(t).key \in Singletons
            /\ single[Top(t).key] = NoObj
            /\ single' = [single EXCEPT ![Top(t).key] = Top(t).obj]
            /\ Return(t, Top(t).obj)
<1>1. CASE Store(t)
  <2>1. /\ stack[t] # <<>> /\ Top(t).mode = "get" /\ Top(t).pc = "made"
        /\ Return(t, Top(t).obj)
        /\ single' = IF Top(t).key \in Singletons
                     THEN [single EXCEPT ![Top(t).key] = Top(t).obj] ELSE single
    BY <1>1 DEF Store, AtTop
  <2>2. /\ Held(t) = Len(stack[t]) /\ Len(stack[t]) \in 1..Len(stack[t])
        /\ Top(t) = stack[t][Len(stack[t])]
    BY <2>1, TopFacts, Counts
  <2>3. Top(t).key \in Singletons => single[Top(t).key] = NoObj
    BY <2>1, <2>2, HeldFacts
  <2>4. QED
    BY <2>1, <2>3
<1>2. CASE Publish(t)
  <2>1. /\ stack[t] # <<>> /\ Top(t).pc = "made" /\ Top(t).key \in Singletons
        /\ \/ /\ single[Top(t).key] # NoObj
              /\ single' = [single EXCEPT ![Top(t).key] = single[Top(t).key]]
           \/ /\ single[Top(t).key] = NoObj
              /\ single' = [single EXCEPT ![Top(t).key] = Top(t).obj]
              /\ Return(t, Top(t).obj)
    BY <1>2 DEF Publish, AtTop
  <2>2. [single EXCEPT ![Top(t).key] = single[Top(t).key]] = single
    BY DEF IInv, TypeOK
  <2>3. QED
    BY <2>1, <2>2
<1>3. ASSUME ~Store(t), ~Publish(t) PROVE single' = single
  <2>1. \A r \in Results : Raise(t, r) => single' = single
    BY DEF Raise
  <2>2. GetMiss(t) => single' = single
    BY <2>1 DEF GetMiss, Raise
  <2>3. GetLocked(t) => single' = single
    BY DEF GetLocked, Raise
  <2>4. MakeFails(t) => single' = single
    BY DEF MakeFails, Raise
  <2>5. GetHit(t) \/ GetRecheck(t) \/ ResolveDep(t) \/ Make(t) => single' = single
    BY DEF GetHit, GetRecheck, ResolveDep, Make
  <2>6. PlanHit(t) \/ PlanMiss(t) \/ PlanTransient(t) => single' = single
    BY DEF PlanHit, PlanMiss, PlanTransient
  <2>7. QED
    BY <1>3, <2>2, <2>3, <2>4, <2>5, <2>6 DEF Step
<1>4. QED
  BY <1>1, <1>2, <1>3

\* A published singleton is never replaced, so a memo cell, or a caller that
\* keeps the instance, never disagrees with the container.
THEOREM Published == Spec => PublishedForever
<1>1. IInv /\ [Next]_vars => \A k \in Keys : single[k] # NoObj => single'[k] = single[k]
  <2> SUFFICES ASSUME IInv, [Next]_vars, NEW k \in Keys, single[k] # NoObj
               PROVE  single'[k] = single[k]
    OBVIOUS
  <2>1. single \in [Keys -> Obj \cup {NoObj}]
    BY DEF IInv, TypeOK
  <2>2. ASSUME NEW t \in Threads, Step(t) PROVE single'[k] = single[k]
    <3>1. \/ single' = single
          \/ /\ single[Top(t).key] = NoObj
             /\ single' = [single EXCEPT ![Top(t).key] = Top(t).obj]
      BY <2>2, SingleChanges
    <3>2. QED
      BY <2>1, <3>1
  <2>3. ASSUME NEW t \in Threads, Call(t) PROVE single'[k] = single[k]
    BY <2>3 DEF Call
  <2>4. CASE UNCHANGED vars
    BY <2>4 DEF vars
  <2>5. QED
    BY <2>2, <2>3, <2>4 DEF Next
<1>2. QED
  BY Invariance, <1>1, PTL DEF Spec, PublishedForever

\* Container.get runs the factory of a singleton only while nothing is
\* published for it, compiled resolvers of other threads included.
THEOREM BuildsUnpublished == Spec => GetBuildsUnpublished
<1>1. ASSUME IInv, NEW t \in Threads, Make(t), Top(t).mode = "get", Top(t).key \in Singletons
      PROVE  single[Top(t).key] = NoObj
  <2>1. stack[t] # <<>> /\ Top(t).pc = "deps"
    BY <1>1 DEF Make, AtTop
  <2>2. /\ Held(t) = Len(stack[t]) /\ Len(stack[t]) \in 1..Len(stack[t])
        /\ Top(t) = stack[t][Len(stack[t])]
    BY <1>1, <2>1, TopFacts, Counts
  <2>3. QED
    BY <1>1, <2>1, <2>2, HeldFacts
<1>2. IInv => \A t \in Threads :
               Make(t) /\ Top(t).mode = "get" /\ Top(t).key \in Singletons
                 => single[Top(t).key] = NoObj
  BY <1>1
<1>3. QED
  BY Invariance, <1>2, PTL DEF Spec, GetBuildsUnpublished

-----------------------------------------------------------------------------
(* The container implements a registry of singletons *)

\* A step hands out nothing, or the instance cached for the key of the top
\* frame, or the one it caches.
LEMMA HandedChanges ==
  ASSUME IInv, NEW t \in Threads, Step(t), single' = single
  PROVE  \/ handed' = handed
         \/ \E k \in Keys : /\ single[k] # NoObj
                            /\ handed' = [handed EXCEPT ![k] = @ \cup {single[k]}]
<1> DEFINE Given(o) == o # NoObj /\ o = single[Top(t).key]
<1>1. ASSUME NEW o, Return(t, o), stack[t] # <<>>, o = NoObj \/ Given(o)
      PROVE  \/ handed' = handed
             \/ \E k \in Keys : /\ single[k] # NoObj
                                /\ handed' = [handed EXCEPT ![k] = @ \cup {single[k]}]
  <2>1. Top(t).key \in Keys /\ handed \in [Keys -> SUBSET Obj]
    BY <1>1, TopFacts DEF TypeOK
  <2>2. handed' = [handed EXCEPT ![Top(t).key] = IF o = NoObj THEN @ ELSE @ \cup {o}]
    BY <1>1 DEF Return, Top
  <2>3. QED
    BY <1>1, <2>1, <2>2
<1>2. CASE GetHit(t) \/ GetRecheck(t)
  <2>1. stack[t] # <<>> /\ Return(t, single[Top(t).key])
    BY <1>2 DEF GetHit, GetRecheck, AtTop
  <2>2. QED
    BY <1>1, <2>1
<1>3. CASE Store(t)
  <2>1. /\ stack[t] # <<>> /\ Top(t).pc = "made" /\ Return(t, Top(t).obj)
        /\ single' = IF Top(t).key \in Singletons
                     THEN [single EXCEPT ![Top(t).key] = Top(t).obj] ELSE single
    BY <1>3 DEF Store, AtTop
  <2>2. TypeOK /\ ThreadInv(t) /\ Top(t).key \in Keys
        /\ Len(stack[t]) \in 1..Len(stack[t]) /\ Top(t) = stack[t][Len(stack[t])]
    BY <2>1, TopFacts
  <2>3. Top(t).key \notin Singletons => Top(t).obj = NoObj
    BY <2>1, <2>2 DEF ThreadInv
  <2>4. Top(t).key \in Singletons => Top(t).obj = single[Top(t).key]
    BY <2>1, <2>2 DEF TypeOK
  <2>5. QED
    BY <1>1, <2>1, <2>3, <2>4
<1>4. CASE PlanHit(t)
  <2>1. /\ stack[t] # <<>> /\ Top(t).mode \in {"flat", "maker"}
        /\ Return(t, CellOf(Top(t))) \/ Return(t, single[Top(t).key])
    BY <1>4 DEF PlanHit, AtTop
  <2>2. CellOf(Top(t)) \in {NoObj, single[Top(t).key]}
    BY <2>1, PlanFacts
  <2>3. QED
    BY <1>1, <2>1, <2>2
<1>5. CASE Publish(t)
  <2>1. /\ stack[t] # <<>> /\ Top(t).pc = "made" /\ Top(t).key \in Singletons
        /\ \E w \in {single[Top(t).key], Top(t).obj} :
             single' = [single EXCEPT ![Top(t).key] = w] /\ Return(t, w)
    BY <1>5 DEF Publish, AtTop
  <2>2. single \in [Keys -> Obj \cup {NoObj}] /\ Top(t).key \in Keys
    BY <2>1, TopFacts DEF TypeOK
  <2>3. QED
    BY <1>1, <2>1, <2>2
<1>6. CASE PlanTransient(t)
  <2>1. stack[t] # <<>> /\ Return(t, NoObj)
    BY <1>6 DEF PlanTransient, AtTop
  <2>2. QED
    BY <1>1, <2>1
<1>7. GetMiss(t) \/ GetLocked(t) \/ MakeFails(t) => handed' = handed
  BY DEF GetMiss, GetLocked, MakeFails, Raise
<1>8. ResolveDep(t) \/ Make(t) \/ PlanMiss(t) => handed' = handed
  BY DEF ResolveDep, Make, PlanMiss
<1>9. QED
  BY <1>2, <1>3, <1>4, <1>5, <1>6, <1>7, <1>8 DEF Step

\* Every step of the container, seen through its cache and the instances it
\* handed out, is a step of the registry or leaves the registry alone.
LEMMA StepsImplement == IInv /\ [Next]_vars => [Registry!Next]_(Registry!vars)
<1> SUFFICES ASSUME IInv, [Next]_vars
             PROVE  Registry!Next \/ (single' = single /\ handed' = handed)
  BY DEF Registry!vars
<1>1. CASE UNCHANGED vars
  BY <1>1 DEF vars
<1>2. ASSUME NEW t \in Threads, Call(t) PROVE single' = single /\ handed' = handed
  BY <1>2 DEF Call
<1>3. ASSUME NEW t \in Threads, Step(t), single' = single
      PROVE  Registry!Next \/ (single' = single /\ handed' = handed)
  <2>1. ASSUME NEW k \in Keys, single[k] # NoObj,
               handed' = [handed EXCEPT ![k] = @ \cup {single[k]}]
        PROVE  Registry!Next
    BY <1>3, <2>1 DEF Registry!Next, Registry!HandOut
  <2>2. QED
    BY <1>3, <2>1, HandedChanges
<1>4. ASSUME NEW t \in Threads, Step(t), single' # single PROVE Registry!Next
  <2> DEFINE k == Top(t).key
             o == Top(t).obj
  <2>1. /\ stack[t] # <<>> /\ Top(t).pc = "made" /\ k \in Singletons /\ single[k] = NoObj
        /\ single' = [single EXCEPT ![k] = o] /\ Return(t, o)
    BY <1>4, SingleChanges
  <2>2. TypeOK /\ ThreadInv(t) /\ k \in Keys
        /\ Len(stack[t]) \in 1..Len(stack[t]) /\ Top(t) = stack[t][Len(stack[t])]
    BY <2>1, TopFacts
  <2>3. o \in Obj
    BY <2>1, <2>2 DEF ThreadInv
  <2>4. o # NoObj
    BY <2>3, NoObjIsNoObject
  <2>5. handed[k] = {}
    BY <2>1, <2>2, NoObjIsNoObject DEF IInv, HandedCurrent, TypeOK
  <2>6. handed' = [handed EXCEPT ![k] = IF o = NoObj THEN @ ELSE @ \cup {o}]
    BY <2>1 DEF Return, Top
  <2>7. single'[k] = o /\ handed' = [handed EXCEPT ![k] = {o}]
    <3>1. single \in [Keys -> Obj \cup {NoObj}] /\ handed \in [Keys -> SUBSET Obj]
      BY <2>2 DEF TypeOK
    <3> HIDE DEF k, o
    <3>2. QED
      BY <3>1, <2>1, <2>2, <2>4, <2>5, <2>6
  <2> HIDE DEF k, o
  <2>8. Registry!Choose(k)
    BY <2>1, <2>3, <2>7 DEF Registry!Choose
  <2>9. QED
    BY <2>2, <2>8 DEF Registry!Next
<1>5. QED
  BY <1>1, <1>2, <1>3, <1>4 DEF Next

\* The container, with its locking, its compiled resolvers and their cells, is
\* an implementation of the registry of singletons: the refinement mapping is
\* its cache for the registry's choice.
THEOREM Implements == Spec => RegistrySpec
<1>1. Init => Registry!Init
  BY DEF Init, Registry!Init
<1>2. QED
  BY <1>1, Invariance, StepsImplement, PTL DEF Spec, RegistrySpec, Registry!Spec

-----------------------------------------------------------------------------
(* How calls end *)

\* The keys below a key, as what every set that is closed under dependencies
\* and has the key contains.
LEMMA BelowIs ==
  ASSUME NEW k \in Keys
  PROVE  Closure(k) = {j \in Keys : \A S \in SUBSET Keys :
                         (k \in S /\ \A i \in S : DepSet(i) \subseteq S) => j \in S}
  BY DEF Closure, Closures, ClosedSets

LEMMA DepsAreKeys ==
  ASSUME NEW k \in Keys
  PROVE  /\ Deps[k] \in Seq(Keys) /\ DepSet(k) \subseteq Keys
         /\ \A i \in 1..Len(Deps[k]) : Deps[k][i] \in DepSet(k)
         /\ \A d \in DepSet(k) : \E i \in 1..Len(Deps[k]) : d = Deps[k][i]
<1>1. Deps[k] \in Seq(Keys)
  BY KeyAssumption
<1>2. DOMAIN Deps[k] = 1..Len(Deps[k]) /\ \A i \in 1..Len(Deps[k]) : Deps[k][i] \in Keys
  BY <1>1, LenProperties, ElementOfSeq
<1>3. QED
  BY <1>1, <1>2 DEF DepSet, ToSet

\* A key is below itself, and whatever one that is below it needs is as well.
LEMMA BelowClosed ==
  ASSUME NEW k \in Keys
  PROVE  /\ k \in Closure(k) /\ Closure(k) \subseteq Keys
         /\ \A j \in Closure(k) : DepSet(j) \subseteq Closure(k)
<1>1. k \in Closure(k) /\ Closure(k) \subseteq Keys
  BY BelowIs
<1>2. ASSUME NEW j \in Closure(k), NEW d \in DepSet(j) PROVE d \in Closure(k)
  <2>1. j \in Keys /\ d \in Keys
    BY <1>1, DepsAreKeys
  <2>2. ASSUME NEW S \in SUBSET Keys, k \in S, \A i \in S : DepSet(i) \subseteq S
        PROVE  d \in S
    <3>1. j \in S
      BY <2>2, BelowIs
    <3>2. QED
      BY <2>2, <3>1
  <2>3. QED
    BY <2>1, <2>2, BelowIs
<1>3. QED
  BY <1>1, <1>2

LEMMA BelowBelow ==
  ASSUME NEW k \in Keys, NEW j \in Closure(k)
  PROVE  Closure(j) \subseteq Closure(k)
<1>1. j \in Keys /\ Closure(k) \in SUBSET Keys /\ j \in Closure(k)
      /\ \A i \in Closure(k) : DepSet(i) \subseteq Closure(k)
  BY BelowClosed
<1>2. QED
  BY <1>1, BelowIs

\* What is below a key is the key, or is below one of its dependencies.
LEMMA BelowSplit ==
  ASSUME NEW k \in Keys, NEW j \in Closure(k), j # k
  PROVE  \E d \in DepSet(k) : j \in Closure(d)
<1> DEFINE S == {k} \cup UNION {Closure(d) : d \in DepSet(k)}
<1>1. \A d \in DepSet(k) : d \in Keys /\ d \in Closure(d) /\ Closure(d) \subseteq Keys
  BY DepsAreKeys, BelowClosed
<1>2. S \in SUBSET Keys /\ k \in S
  BY <1>1
<1>3. ASSUME NEW i \in S PROVE DepSet(i) \subseteq S
  <2>1. CASE i = k
    BY <1>1, <2>1
  <2>2. CASE i # k
    <3>1. PICK d \in DepSet(k) : i \in Closure(d)
      BY <2>2
    <3>2. DepSet(i) \subseteq Closure(d)
      BY <1>1, <3>1, BelowClosed
    <3>3. QED
      BY <3>2
  <2>3. QED
    BY <2>1, <2>2
<1>4. j \in S
  <2> HIDE DEF S
  <2>1. QED
    BY <1>2, <1>3, BelowIs
<1>5. QED
  BY <1>4

\* A key whose dependencies resolve, and that has a synchronous rule, resolves.
LEMMA ResolvesByDeps ==
  ASSUME NEW k \in Keys, k \in Registered \ AsyncKeys,
         \A d \in DepSet(k) : Resolvable(d)
  PROVE  Resolvable(k)
<1>1. ~OnCycle(k)
  <2> SUFFICES ASSUME NEW d \in DepSet(k), k \in Closure(d) PROVE FALSE
    BY DEF OnCycle
  <2>1. ~OnCycle(k)
    BY DEF Resolvable
  <2>2. QED
    BY <2>1 DEF OnCycle
<1>2. ASSUME NEW j \in Closure(k), j # k
      PROVE  j \in Registered \ AsyncKeys /\ ~OnCycle(j)
  <2>1. PICK d \in DepSet(k) : j \in Closure(d)
    BY <1>2, BelowSplit
  <2>2. QED
    BY <2>1 DEF Resolvable
<1>3. QED
  BY <1>1, <1>2 DEF Resolvable

\* What a frame has resolved: every dependency that has returned resolves, the
\* rule has been found before them, and an instance is made after all of them.
\* What a plan resolves, resolves.
Settled(f) ==
  /\ f.mode # "get" => f.key \in PlanKeys
  /\ f.mode = "get" =>
       /\ f.pc \in {"deps", "made"} => f.key \in Registered \ AsyncKeys
       /\ \A m \in 1..f.dep : m \in 1..Len(Deps[f.key]) /\ Resolvable(Deps[f.key][m])
  /\ f.pc = "made" => Resolvable(f.key)
\* Above a frame of Container.get is that of its next dependency.
CallsNext(s) ==
  \A i \in 1..Len(s) - 1 : s[i].mode = "get" =>
    /\ s[i].dep + 1 \in 1..Len(Deps[s[i].key])
    /\ s[i + 1].key = Deps[s[i].key][s[i].dep + 1]
\* Every frame is for a key below those of the frames that wait for it.
Descends(s) == \A i, j \in 1..Len(s) : i <= j => s[j].key \in Closure(s[i].key)
BranchOK(s) == (\A i \in 1..Len(s) : Settled(s[i])) /\ CallsNext(s) /\ Descends(s)
\* What OutcomeExact says of an outcome.
Justified(e) ==
  /\ e.result = "ok" => Resolvable(e.key)
  /\ e.result = "cycle" => \E j \in Closure(e.key) : OnCycle(j)
  /\ e.result = "missing" => ~(Closure(e.key) \subseteq Registered)
  /\ e.result = "async" => Closure(e.key) \cap AsyncKeys # {}

EndInv ==
  /\ \A t \in Threads : Justified(last[t])
  /\ \A k \in Keys : single[k] # NoObj => Resolvable(k)
  /\ \A t \in Threads : BranchOK(stack[t])

LEMMA EndInit == Init => EndInv
<1> SUFFICES ASSUME Init PROVE EndInv
  OBVIOUS
<1>1. ASSUME NEW t \in Threads PROVE Justified(last[t]) /\ BranchOK(stack[t])
  <2>1. stack[t] = <<>> /\ Len(stack[t]) = 0 /\ last[t].result = "none"
    BY DEF Init
  <2>2. QED
    BY <2>1 DEF Justified, BranchOK, CallsNext, Descends
<1>2. QED
  BY <1>1 DEF Init, EndInv

\* The frames below a frame that is replaced by one of the same key stay as
\* they were.
LEMMA ReplacedBranch ==
  ASSUME NEW s \in Seq(Frame), NEW r \in Seq(Frame), NEW f \in Frame, BranchOK(s),
         Len(r) = Len(s), Len(s) > 0,
         \A i \in 1..Len(s) : r[i] = IF i = Len(s) THEN f ELSE s[i],
         f.key = s[Len(s)].key, Settled(f)
  PROVE  BranchOK(r)
<1> DEFINE n == Len(s)
<1>1. n \in Nat /\ n > 0 /\ n \in 1..n
  BY LenProperties
<1> HIDE DEF n
<1>2. \A i \in 1..n : r[i] = (IF i = n THEN f ELSE s[i]) /\ r[i].key = s[i].key
  BY DEF n
<1>3. \A i \in 1..n : Settled(r[i])
  BY <1>2 DEF BranchOK, n
<1>4. CallsNext(r)
  <2> SUFFICES ASSUME NEW i \in 1..n - 1, r[i].mode = "get"
               PROVE  /\ r[i].dep + 1 \in 1..Len(Deps[r[i].key])
                      /\ r[i + 1].key = Deps[r[i].key][r[i].dep + 1]
    BY DEF CallsNext, n
  <2>1. i \in 1..n /\ i + 1 \in 1..n /\ i # n
    BY <1>1
  <2>2. r[i] = s[i] /\ r[i + 1].key = s[i + 1].key
    BY <1>2, <2>1
  <2>3. QED
    BY <2>2 DEF BranchOK, CallsNext, n
<1>5. Descends(r)
  BY <1>2 DEF BranchOK, Descends, n
<1>6. QED
  BY <1>3, <1>4, <1>5 DEF BranchOK, n

\* A new frame is for the next dependency of the frame below, or for a key that
\* is below it and in the plan.
LEMMA PushedBranch ==
  ASSUME NEW s \in Seq(Frame), NEW r \in Seq(Frame), NEW f \in Frame, BranchOK(s),
         Len(s) > 0, Len(r) = Len(s) + 1,
         \A i \in 1..Len(s) + 1 : r[i] = IF i = Len(s) + 1 THEN f ELSE s[i],
         Settled(f), f.key \in Closure(s[Len(s)].key),
         s[Len(s)].mode = "get" =>
           /\ s[Len(s)].dep + 1 \in 1..Len(Deps[s[Len(s)].key])
           /\ f.key = Deps[s[Len(s)].key][s[Len(s)].dep + 1]
  PROVE  BranchOK(r)
<1> DEFINE n == Len(s)
<1>1. /\ n \in Nat /\ n > 0 /\ n \in 1..n /\ (n + 1) - 1 = n /\ n + 1 \in 1..n + 1
      /\ \A i \in 1..n : i \in 1..n + 1 /\ i # n + 1 /\ i + 1 \in 1..n + 1 /\ i <= n
      /\ \A i \in 1..n + 1 : i = n + 1 \/ i \in 1..n
      /\ \A i \in 1..n : i = n \/ (i \in 1..n - 1 /\ i + 1 \in 1..n)
  BY LenProperties
<1>2. \A i \in 1..n : s[i].key \in Keys
  BY ElementOfSeq, FrameFields
<1> HIDE DEF n
<1>3. r[n + 1] = f /\ \A i \in 1..n : r[i] = s[i]
  BY <1>1 DEF n
<1>4. \A i \in 1..n + 1 : Settled(r[i])
  BY <1>1, <1>3 DEF BranchOK, n
<1>5. CallsNext(r)
  <2> SUFFICES ASSUME NEW i \in 1..n, r[i].mode = "get"
               PROVE  /\ r[i].dep + 1 \in 1..Len(Deps[r[i].key])
                      /\ r[i + 1].key = Deps[r[i].key][r[i].dep + 1]
    BY <1>1 DEF CallsNext, n
  <2>1. CASE i = n
    BY <1>1, <1>3, <2>1 DEF n
  <2>2. CASE i # n
    <3>1. i \in 1..n - 1 /\ i + 1 \in 1..n
      BY <1>1, <2>2
    <3>2. r[i] = s[i] /\ r[i + 1] = s[i + 1]
      BY <1>3, <3>1
    <3>3. QED
      BY <3>1, <3>2 DEF BranchOK, CallsNext, n
  <2>3. QED
    BY <2>1, <2>2
<1>6. Descends(r)
  <2> SUFFICES ASSUME NEW i \in 1..n + 1, NEW j \in 1..n + 1, i <= j
               PROVE  r[j].key \in Closure(r[i].key)
    BY DEF Descends, n
  <2>1. CASE j # n + 1
    <3>1. i \in 1..n /\ j \in 1..n
      BY <1>1, <2>1
    <3>2. QED
      BY <1>3, <3>1 DEF BranchOK, Descends, n
  <2>2. CASE j = n + 1 /\ i = n + 1
    <3>1. f.key \in Keys
      BY FrameFields
    <3>2. QED
      BY <1>3, <2>2, <3>1, BelowClosed
  <2>3. CASE j = n + 1 /\ i # n + 1
    <3>1. i \in 1..n /\ i <= n
      BY <1>1, <2>3
    <3>2. s[n].key \in Closure(s[i].key)
      BY <1>1, <3>1 DEF BranchOK, Descends, n
    <3>3. f.key \in Closure(s[i].key)
      <4>1. s[i].key \in Keys
        BY <1>2, <3>1
      <4>2. f.key \in Closure(s[n].key)
        BY DEF n
      <4>3. QED
        BY <3>2, <4>1, <4>2, BelowBelow
    <3>4. QED
      BY <1>3, <2>3, <3>1, <3>3
  <2>4. QED
    BY <2>1, <2>2, <2>3
<1>7. QED
  BY <1>4, <1>5, <1>6 DEF BranchOK, n

\* Returning counts one more dependency in the frame below, and changes the
\* others in nothing.
LEMMA PopCounts ==
  ASSUME NEW s \in Seq(Frame), Len(s) > 1,
         NEW r, r = [Front(s) EXCEPT ![Len(s) - 1].dep = @ + 1]
  PROVE  /\ \A i \in 1..Len(s) - 2 : r[i] = s[i]
         /\ r[Len(s) - 1].dep = s[Len(s) - 1].dep + 1
<1> DEFINE q == SubSeq(s, 1, Len(s) - 1)
           n == Len(s) - 1
<1>1. /\ Len(s) \in Nat /\ n \in 1..n /\ \A i \in 1..n : s[i] \in Frame
      /\ Len(s) - 2 = n - 1 /\ \A i \in 1..n - 1 : i \in 1..n /\ i # n
  BY LenProperties, ElementOfSeq
<1>2. q \in Seq(Frame) /\ Len(q) = n /\ \A i \in 1..n : q[i] = s[i]
  BY <1>1, SubSeqProperties
<1> HIDE DEF q, n
<1> DEFINE g == [q[n] EXCEPT !.dep = @ + 1]
<1>3. q[n] \in Frame /\ q[n] = s[n]
  BY <1>1, <1>2
<1>4. g \in Frame /\ g.dep = s[n].dep + 1
  BY <1>3, FrameFields DEF Frame
<1> HIDE DEF g
<1>5. r = [q EXCEPT ![n] = g]
  BY DEF Front, q, n, g
<1>6. \A i \in 1..n : r[i] = IF i = n THEN g ELSE q[i]
  BY <1>1, <1>2, <1>4, <1>5, ExceptSeq
<1>7. QED
  BY <1>1, <1>2, <1>4, <1>6 DEF n

\* When the key of the top frame resolves, its return keeps the branch in order.
LEMMA PoppedBranch ==
  ASSUME NEW s \in Seq(Frame), BranchOK(s), Len(s) > 1, Resolvable(s[Len(s)].key),
         s[Len(s) - 1].pc = "deps",
         NEW r, r = [Front(s) EXCEPT ![Len(s) - 1].dep = @ + 1]
  PROVE  BranchOK(r)
<1> DEFINE n == Len(s) - 1
<1>1. /\ n \in Nat /\ n \in 1..n /\ n + 1 = Len(s) /\ n \in 1..Len(s)
      /\ n \in 1..Len(s) - 1 /\ Len(s) - 2 = n - 1
      /\ \A i \in 1..n : i \in 1..Len(s) /\ (i = n \/ i \in 1..n - 1)
      /\ \A i \in 1..n - 1 : i \in 1..n /\ i # n /\ i + 1 \in 1..n /\ i \in 1..Len(s) - 1
  BY LenProperties
<1> HIDE DEF n
<1>2. /\ r \in Seq(Frame) /\ Len(r) = n
      /\ \A i \in 1..n : /\ r[i].key = s[i].key /\ r[i].mode = s[i].mode
                         /\ r[i].pc = s[i].pc
  BY PopFrame DEF n
<1>3. r[n].dep = s[n].dep + 1 /\ \A i \in 1..n - 1 : r[i] = s[i]
  <2>1. /\ \A i \in 1..Len(s) - 2 : r[i] = s[i]
        /\ r[Len(s) - 1].dep = s[Len(s) - 1].dep + 1
    BY PopCounts
  <2>2. QED
    BY <1>1, <2>1 DEF n
<1>4. ASSUME NEW i \in 1..n PROVE Settled(r[i])
  <2>1. CASE i # n
    BY <1>1, <1>3, <2>1 DEF BranchOK
  <2>2. CASE i = n
    <3>1. Settled(s[n]) /\ s[n].dep \in Nat
      BY <1>1, ElementOfSeq, FrameFields DEF BranchOK
    <3>2. ASSUME s[n].mode = "get", NEW m \in 1..s[n].dep + 1
          PROVE  m \in 1..Len(Deps[s[n].key]) /\ Resolvable(Deps[s[n].key][m])
      <4>1. CASE m = s[n].dep + 1
        <5>1. m \in 1..Len(Deps[s[n].key]) /\ s[n + 1].key = Deps[s[n].key][m]
          BY <1>1, <3>2, <4>1 DEF BranchOK, CallsNext
        <5>2. QED
          BY <1>1, <5>1
      <4>2. CASE m # s[n].dep + 1
        <5>1. m \in 1..s[n].dep
          BY <3>1, <3>2, <4>2
        <5>2. QED
          BY <3>1, <3>2, <5>1 DEF Settled
      <4>3. QED
        BY <4>1, <4>2
    <3>3. s[n].pc = "deps"
      BY DEF n
    <3>4. r[n].key = s[n].key /\ r[n].mode = s[n].mode /\ r[n].pc = "deps"
      BY <1>1, <1>2, <3>3
    <3>5. Settled(r[n])
      BY <1>3, <3>1, <3>2, <3>3, <3>4 DEF Settled
    <3>6. QED
      BY <2>2, <3>5
  <2>3. QED
    BY <2>1, <2>2
<1>5. CallsNext(r)
  <2> SUFFICES ASSUME NEW i \in 1..n - 1, r[i].mode = "get"
               PROVE  /\ r[i].dep + 1 \in 1..Len(Deps[r[i].key])
                      /\ r[i + 1].key = Deps[r[i].key][r[i].dep + 1]
    BY <1>2 DEF CallsNext
  <2>1. r[i] = s[i] /\ r[i + 1].key = s[i + 1].key /\ i \in 1..Len(s) - 1
    BY <1>1, <1>2, <1>3
  <2>2. QED
    BY <2>1 DEF BranchOK, CallsNext
<1>6. Descends(r)
  <2> SUFFICES ASSUME NEW i \in 1..n, NEW j \in 1..n, i <= j
               PROVE  r[j].key \in Closure(r[i].key)
    BY <1>2 DEF Descends
  <2>1. i \in 1..Len(s) /\ j \in 1..Len(s)
    BY <1>1
  <2>2. s[j].key \in Closure(s[i].key)
    BY <2>1 DEF BranchOK, Descends
  <2>3. QED
    BY <1>2, <2>2
<1>7. QED
  BY <1>2, <1>4, <1>5, <1>6 DEF BranchOK

-----------------------------------------------------------------------------
(* The steps, by what they do to the stack *)

\* A step of t that leaves the other stacks and outcomes, and that caches the
\* instance of a key that resolves, if any.
LEMMA BranchesKept ==
  ASSUME IInv, EndInv, NEW t \in Threads,
         \A u \in Threads : u # t => stack'[u] = stack[u] /\ last'[u] = last[u],
         BranchOK(stack'[t]), Justified(last'[t]),
         \A k \in Keys : single'[k] # NoObj => single[k] # NoObj \/ Resolvable(k)
  PROVE  EndInv'
<1>1. \A u \in Threads : Justified(last'[u]) /\ BranchOK(stack'[u])
  BY DEF EndInv
<1>2. \A k \in Keys : single'[k] # NoObj => Resolvable(k)
  BY DEF EndInv
<1>3. QED
  BY <1>1, <1>2 DEF EndInv

LEMMA NoBranch == BranchOK(<<>>)
  BY EmptySeq DEF BranchOK, CallsNext, Descends

LEMMA SetTopEnds ==
  ASSUME IInv, EndInv, NEW t \in Threads, stack[t] # <<>>, NEW f \in Frame, SetTop(t, f),
         f.key = Top(t).key, Settled(f), UNCHANGED <<single, last>>
  PROVE  EndInv'
<1>1. TypeOK /\ ThreadInv(t) /\ stack[t] \in Seq(Frame) /\ Len(stack[t]) > 0
      /\ Top(t) = stack[t][Len(stack[t])]
  BY Counts DEF IInv, TypeOK
<1>2. /\ stack' \in [Threads -> Seq(Frame)]
      /\ \A u \in Threads : u # t => stack'[u] = stack[u]
      /\ Len(stack'[t]) = Len(stack[t])
      /\ \A i \in 1..Len(stack[t]) :
           stack'[t][i] = IF i = Len(stack[t]) THEN f ELSE stack[t][i]
  BY <1>1, SetTopShape
<1>3. BranchOK(stack'[t])
  <2> DEFINE s == stack[t]
             r == stack'[t]
  <2>1. /\ s \in Seq(Frame) /\ r \in Seq(Frame) /\ BranchOK(s) /\ Len(r) = Len(s) /\ Len(s) > 0
        /\ \A i \in 1..Len(s) : r[i] = IF i = Len(s) THEN f ELSE s[i]
        /\ f.key = s[Len(s)].key
    BY <1>1, <1>2 DEF EndInv
  <2> HIDE DEF s, r
  <2>2. BranchOK(r)
    BY <2>1, ReplacedBranch
  <2>3. QED
    BY <2>2 DEF r
<1>4. QED
  BY <1>2, <1>3, BranchesKept DEF EndInv

LEMMA ReturnEnds ==
  ASSUME IInv, EndInv, NEW t \in Threads, stack[t] # <<>>, NEW o, Return(t, o),
         Resolvable(Top(t).key),
         \A k \in Keys : single'[k] # NoObj => single[k] # NoObj \/ k = Top(t).key
  PROVE  EndInv'
<1> DEFINE s == stack[t]
           n == Len(s)
           r == IF n = 1 THEN <<>> ELSE [Front(s) EXCEPT ![n - 1].dep = @ + 1]
<1>1. TypeOK /\ ThreadInv(t) /\ s \in Seq(Frame) /\ n \in Nat \ {0} /\ Top(t) = s[n]
  BY Counts DEF IInv, TypeOK
<1>2. /\ stack' = [stack EXCEPT ![t] = r]
      /\ last' = IF n = 1 THEN [last EXCEPT ![t] = [key |-> s[n].key, result |-> "ok"]] ELSE last
  BY DEF Return
<1>3. BranchOK(s) /\ (n > 1 => s[n - 1].pc = "deps")
  <2>1. n > 1 => n - 1 \in 1..n - 1
    <3> HIDE DEF n
    <3>1. QED
      BY <1>1
  <2>2. QED
    BY <1>1, <2>1 DEF ThreadInv, EndInv
<1>4. BranchOK(r)
  <2>1. CASE n = 1
    BY <2>1, NoBranch
  <2>2. CASE n # 1
    <3>0. n > 1
      <4> HIDE DEF n
      <4>1. QED
        BY <1>1, <2>2
    <3>1. r = [Front(s) EXCEPT ![Len(s) - 1].dep = @ + 1] /\ Len(s) > 1
      BY <2>2, <3>0
    <3> HIDE DEF r
    <3>2. s[Len(s) - 1].pc = "deps" /\ Resolvable(s[Len(s)].key)
      BY <1>1, <1>3, <3>1
    <3> HIDE DEF s
    <3>3. QED
      BY <1>1, <1>3, <3>1, <3>2, PoppedBranch
  <2>3. QED
    BY <2>1, <2>2
<1> HIDE DEF r
<1>5. stack'[t] = r /\ \A u \in Threads : u # t => stack'[u] = stack[u]
  BY <1>1, <1>2 DEF TypeOK
<1>6. Justified(last'[t]) /\ \A u \in Threads : u # t => last'[u] = last[u]
  <2>1. CASE n = 1
    <3>1. last' = [last EXCEPT ![t] = [key |-> s[n].key, result |-> "ok"]]
      BY <1>2, <2>1
    <3>2. last'[t] = [key |-> Top(t).key, result |-> "ok"] /\ \A u \in Threads : u # t => last'[u] = last[u]
      BY <1>1, <3>1 DEF TypeOK
    <3>3. QED
      BY <3>2 DEF Justified
  <2>2. CASE n # 1
    BY <1>2, <2>2 DEF EndInv
  <2>3. QED
    BY <2>1, <2>2
<1>7. QED
  BY <1>4, <1>5, <1>6, BranchesKept

LEMMA RaiseEnds ==
  ASSUME IInv, EndInv, NEW t \in Threads, stack[t] # <<>>, NEW result, Raise(t, result),
         Justified([key |-> stack[t][1].key, result |-> result])
  PROVE  EndInv'
<1>1. TypeOK
  BY DEF IInv
<1>2. /\ stack' = [stack EXCEPT ![t] = <<>>] /\ single' = single
      /\ last' = [last EXCEPT ![t] = [key |-> stack[t][1].key, result |-> result]]
  BY DEF Raise
<1>3. stack'[t] = <<>> /\ \A u \in Threads : u # t => stack'[u] = stack[u]
  BY <1>1, <1>2 DEF TypeOK
<1>4. /\ last'[t] = [key |-> stack[t][1].key, result |-> result]
      /\ \A u \in Threads : u # t => last'[u] = last[u]
  BY <1>1, <1>2 DEF TypeOK
<1>5. QED
  BY <1>2, <1>3, <1>4, NoBranch, BranchesKept

\* The top frame is for a key below that of the root.
LEMMA RootAbove ==
  ASSUME IInv, EndInv, NEW t \in Threads, stack[t] # <<>>
  PROVE  /\ Top(t) \in Frame /\ Top(t).key \in Keys /\ Settled(Top(t))
         /\ stack[t][1].key \in Keys /\ Top(t).key \in Closure(stack[t][1].key)
<1> DEFINE n == Len(stack[t])
<1>1. stack[t] \in Seq(Frame) /\ n \in Nat \ {0} /\ Top(t) = stack[t][n]
  BY Counts DEF IInv, TypeOK
<1> HIDE DEF n
<1>2. 1 \in 1..n /\ n \in 1..n /\ 1 <= n
  BY <1>1
<1>3. Top(t) \in Frame /\ stack[t][1] \in Frame
  BY <1>1, <1>2, ElementOfSeq DEF n
<1>4. BranchOK(stack[t])
  BY DEF EndInv
<1>5. QED
  BY <1>1, <1>2, <1>3, <1>4, FrameFields DEF BranchOK, Descends, n

-----------------------------------------------------------------------------
(* Every step keeps it *)

LEMMA CallEnds ==
  ASSUME IInv, EndInv, NEW t \in Threads, Call(t)
  PROVE  EndInv'
<1>1. PICK m \in {"get", "flat"}, k \in Keys :
        /\ m = "flat" => k \in PlanKeys
        /\ stack' = [stack EXCEPT ![t] = <<NewFrame(m, k)>>]
        /\ last' = [last EXCEPT ![t] = [key |-> k, result |-> "none"]]
        /\ single' = single
  BY DEF Call
<1> DEFINE f == NewFrame(m, k)
<1>2. f.key = k /\ f.mode = m /\ f.pc = "enter" /\ f.dep = 0
  BY DEF NewFrame
<1> HIDE DEF f
<1>3. stack' = [stack EXCEPT ![t] = <<f>>] /\ TypeOK
  BY <1>1 DEF f, IInv
<1>4. stack'[t] = <<f>> /\ \A u \in Threads : u # t => stack'[u] = stack[u]
  BY <1>3 DEF TypeOK
<1>5. BranchOK(<<f>>)
  <2>1. Settled(f)
    BY <1>1, <1>2 DEF Settled
  <2>2. f.key \in Closure(f.key)
    BY <1>2, BelowClosed
  <2>3. Len(<<f>>) = 1 /\ <<f>>[1] = f
    OBVIOUS
  <2>4. QED
    BY <2>1, <2>2, <2>3 DEF BranchOK, CallsNext, Descends
<1>6. /\ last'[t].result = "none"
      /\ \A u \in Threads : u # t => last'[u] = last[u]
  BY <1>1, <1>3 DEF TypeOK
<1>7. Justified(last'[t])
  BY <1>6 DEF Justified
<1>8. QED
  BY <1>1, <1>4, <1>5, <1>6, <1>7, BranchesKept

\* What is cached resolves.
LEMMA GetHitEnds ==
  ASSUME IInv, EndInv, NEW t \in Threads, GetHit(t)
  PROVE  EndInv'
<1>1. stack[t] # <<>> /\ single[Top(t).key] # NoObj /\ single' = single
      /\ Return(t, single[Top(t).key])
  BY DEF GetHit, AtTop
<1>2. Resolvable(Top(t).key)
  BY <1>1, RootAbove DEF EndInv
<1>3. QED
  BY <1>1, <1>2, ReturnEnds

LEMMA GetRecheckEnds ==
  ASSUME IInv, EndInv, NEW t \in Threads, GetRecheck(t)
  PROVE  EndInv'
<1>1. stack[t] # <<>> /\ single[Top(t).key] # NoObj /\ single' = single
      /\ Return(t, single[Top(t).key])
  BY DEF GetRecheck, AtTop
<1>2. Resolvable(Top(t).key)
  BY <1>1, RootAbove DEF EndInv
<1>3. QED
  BY <1>1, <1>2, ReturnEnds

\* A key that is on the path is needed by a dependency of its own: the chain of
\* frames leads from it back to it.
LEMMA GetMissEnds ==
  ASSUME IInv, EndInv, NEW t \in Threads, GetMiss(t)
  PROVE  EndInv'
<1> DEFINE s == stack[t]
           n == Len(s)
           k == Top(t).key
<1>1. s # <<>> /\ Top(t).mode = "get" /\ Top(t).pc = "enter"
  BY DEF GetMiss, AtTop
<1>2. /\ TypeOK /\ ThreadInv(t) /\ n \in Nat \ {0} /\ Top(t) = s[n] /\ Entered(t) = n - 1
  BY <1>1, Counts DEF IInv
<1>3. Settled(Top(t)) /\ Top(t) \in Frame /\ k \in Closure(s[1].key)
  BY <1>1, RootAbove
<1>4. CASE k \in ToSet(path[t])
  <2>1. Raise(t, "cycle")
    BY <1>4 DEF GetMiss
  <2>2. path[t] \in Seq(Keys) /\ Len(path[t]) = n - 1
    BY <1>2 DEF TypeOK, ThreadInv
  <2>3. PICK i \in 1..n - 1 : path[t][i] = k
    <3>1. DOMAIN path[t] = 1..n - 1
      BY <2>2, LenProperties
    <3>2. QED
      BY <1>4, <3>1 DEF ToSet
  <2>4. i \in 1..n /\ i + 1 \in 1..n /\ n \in 1..n /\ i + 1 <= n
    <3>1. n \in Nat \ {0} /\ i \in 1..n - 1
      BY <1>2, <2>3
    <3> HIDE DEF n
    <3>2. QED
      BY <3>1
  <2>5. s[i].key = k
    BY <1>2, <2>3 DEF ThreadInv
  <2>6. s[i].mode = "get"
    BY <1>1, <1>2, <2>4 DEF ThreadInv
  <2>7. BranchOK(s) /\ s \in Seq(Frame)
    BY <1>2 DEF EndInv, TypeOK
  <2> HIDE DEF s
  <2>8. s[i + 1].key \in DepSet(k)
    <3>1. k \in Keys
      BY <1>3, FrameFields
    <3>2. s[i].dep + 1 \in 1..Len(Deps[k]) /\ s[i + 1].key = Deps[k][s[i].dep + 1]
      BY <2>3, <2>5, <2>6, <2>7 DEF BranchOK, CallsNext
    <3>3. QED
      BY <3>1, <3>2, DepsAreKeys
  <2>9. k \in Closure(s[i + 1].key)
    <3>1. s[n].key \in Closure(s[i + 1].key)
      BY <2>4, <2>7 DEF BranchOK, Descends
    <3>2. QED
      BY <1>2, <3>1
  <2>10. OnCycle(k)
    BY <2>8, <2>9 DEF OnCycle
  <2>11. Justified([key |-> stack[t][1].key, result |-> "cycle"])
    BY <1>3, <2>10 DEF Justified, s
  <2>12. QED
    BY <1>1, <2>1, <2>11, RaiseEnds DEF s
<1>5. CASE k \notin ToSet(path[t])
  <2> DEFINE f == [Top(t) EXCEPT !.pc = "wait"]
  <2>1. SetTop(t, f) /\ UNCHANGED <<single, last>>
    BY <1>5 DEF GetMiss
  <2>2. /\ f \in Frame /\ f.key = k /\ f.mode = Top(t).mode /\ f.pc = "wait"
        /\ f.dep = Top(t).dep
    BY <1>3, FrameFields DEF Frame
  <2> HIDE DEF f
  <2>3. Settled(f)
    BY <1>3, <2>2 DEF Settled
  <2>4. QED
    BY <1>1, <2>1, <2>2, <2>3, SetTopEnds
<1>6. QED
  BY <1>4, <1>5

LEMMA GetLockedEnds ==
  ASSUME IInv, EndInv, NEW t \in Threads, GetLocked(t)
  PROVE  EndInv'
<1> DEFINE k == Top(t).key
<1>1. stack[t] # <<>> /\ Top(t).mode = "get" /\ Top(t).pc = "wait"
  BY DEF GetLocked, AtTop
<1>2. /\ Settled(Top(t)) /\ Top(t) \in Frame /\ k \in Keys
      /\ stack[t][1].key \in Keys /\ k \in Closure(stack[t][1].key)
  BY <1>1, RootAbove
<1>3. CASE k \notin Registered
  <2>1. Raise(t, "missing")
    <3>1. Top(t).key \notin Registered /\ Top(t).key \notin AsyncKeys
      BY <1>3, KeyAssumption
    <3>2. QED
      BY <3>1 DEF GetLocked
  <2>2. Justified([key |-> stack[t][1].key, result |-> "missing"])
    BY <1>2, <1>3 DEF Justified
  <2>3. QED
    BY <1>1, <2>1, <2>2, RaiseEnds
<1>4. CASE k \in Registered /\ k \in AsyncKeys
  <2>1. Raise(t, "async")
    BY <1>4 DEF GetLocked
  <2>2. Justified([key |-> stack[t][1].key, result |-> "async"])
    BY <1>2, <1>4 DEF Justified
  <2>3. QED
    BY <1>1, <2>1, <2>2, RaiseEnds
<1>5. CASE k \in Registered \ AsyncKeys
  <2> DEFINE f == [Top(t) EXCEPT !.pc = "deps"]
  <2>1. SetTop(t, f) /\ UNCHANGED <<single, last>>
    BY <1>5 DEF GetLocked
  <2>2. /\ f \in Frame /\ f.key = k /\ f.mode = Top(t).mode /\ f.pc = "deps"
        /\ f.dep = Top(t).dep
    BY <1>2, FrameFields DEF Frame
  <2> HIDE DEF f
  <2>3. Settled(f)
    BY <1>2, <1>5, <2>2 DEF Settled
  <2>4. QED
    BY <1>1, <2>1, <2>2, <2>3, SetTopEnds
<1>6. QED
  BY <1>3, <1>4, <1>5

LEMMA StoreEnds ==
  ASSUME IInv, EndInv, NEW t \in Threads, Store(t)
  PROVE  EndInv'
<1>1. /\ stack[t] # <<>> /\ Top(t).pc = "made" /\ Return(t, Top(t).obj)
      /\ single' = IF Top(t).key \in Singletons THEN [single EXCEPT ![Top(t).key] = Top(t).obj]
                   ELSE single
  BY DEF Store, AtTop
<1>2. Resolvable(Top(t).key)
  BY <1>1, RootAbove DEF Settled
<1>3. \A k \in Keys : single'[k] # NoObj => single[k] # NoObj \/ k = Top(t).key
  BY <1>1 DEF IInv, TypeOK
<1>4. QED
  BY <1>1, <1>2, <1>3, ReturnEnds

\* A dependency that is called for is below the one that calls, and what a plan
\* calls for is in the plan.
LEMMA ResolveDepEnds ==
  ASSUME IInv, EndInv, NEW t \in Threads, ResolveDep(t)
  PROVE  EndInv'
<1> DEFINE m == IF Top(t).mode = "get" THEN "get" ELSE "maker"
           k == Top(t).key
<1>1. stack[t] # <<>> /\ Top(t).pc = "deps" /\ UNCHANGED <<single, last>>
  BY DEF ResolveDep, AtTop
<1>2. PICK d \in Keys :
        IsNext(Top(t), d) /\ stack' = [stack EXCEPT ![t] = Append(@, NewFrame(m, d))]
  BY DEF ResolveDep
<1>3. Settled(Top(t)) /\ Top(t) \in Frame /\ k \in Keys
  BY <1>1, RootAbove
<1>4. d \in Closure(k)
  <2>1. CASE Top(t).mode = "flat"
    BY <1>2, <2>1 DEF IsNext, Prelude
  <2>2. CASE Top(t).mode # "flat"
    <3>1. Top(t).dep \in Nat /\ Top(t).dep < Len(Deps[k]) /\ d = Deps[k][Top(t).dep + 1]
      BY <1>2, <1>3, <2>2, FrameFields DEF IsNext, Callees
    <3>2. Len(Deps[k]) \in Nat
      BY <1>3, DepsAreKeys, LenProperties
    <3>3. d \in DepSet(k)
      BY <1>3, <3>1, <3>2, DepsAreKeys
    <3>4. QED
      BY <1>3, <3>3, BelowClosed
  <2>3. QED
    BY <2>1, <2>2
<1>5. Top(t).mode = "get" =>
        Top(t).dep + 1 \in 1..Len(Deps[k]) /\ d = Deps[k][Top(t).dep + 1]
  <2> SUFFICES ASSUME Top(t).mode = "get"
               PROVE  Top(t).dep + 1 \in 1..Len(Deps[k]) /\ d = Deps[k][Top(t).dep + 1]
    OBVIOUS
  <2>1. Top(t).dep \in Nat /\ Top(t).dep < Len(Deps[k]) /\ d = Deps[k][Top(t).dep + 1]
    BY <1>2, <1>3, FrameFields DEF IsNext, Callees
  <2>2. Len(Deps[k]) \in Nat
    BY <1>3, DepsAreKeys, LenProperties
  <2>3. QED
    BY <2>1, <2>2
<1> DEFINE f == NewFrame(m, d)
<1>6. /\ f \in Frame /\ f.key = d /\ f.pc = "enter" /\ f.dep = 0
      /\ f.mode \in {"get", "maker"} /\ (f.mode = "get" <=> Top(t).mode = "get")
  BY DEF NewFrame, Frame, Modes
<1> HIDE DEF f
<1>7. Settled(f)
  <2>1. f.mode # "get" => d \in PlanKeys
    BY <1>3, <1>4, <1>6, PlanAssumption DEF Settled
  <2>2. QED
    BY <1>6, <2>1 DEF Settled
<1>8. stack' = [stack EXCEPT ![t] = Append(@, f)] /\ TypeOK /\ stack[t] \in Seq(Frame)
      /\ Len(stack[t]) \in Nat \ {0} /\ Top(t) = stack[t][Len(stack[t])]
  BY <1>1, <1>2, Counts DEF f, IInv, TypeOK
<1>9. /\ stack' \in [Threads -> Seq(Frame)]
      /\ \A u \in Threads : u # t => stack'[u] = stack[u]
      /\ Len(stack'[t]) = Len(stack[t]) + 1
      /\ \A i \in 1..Len(stack[t]) + 1 :
           stack'[t][i] = IF i = Len(stack[t]) + 1 THEN f ELSE stack[t][i]
  BY <1>6, <1>8, PushShape, ZenonT(30)
<1>10. BranchOK(stack'[t])
  <2> DEFINE s == stack[t]
             r == stack'[t]
  <2>1. /\ s \in Seq(Frame) /\ r \in Seq(Frame) /\ BranchOK(s) /\ Len(s) > 0
        /\ Len(r) = Len(s) + 1
        /\ \A i \in 1..Len(s) + 1 : r[i] = IF i = Len(s) + 1 THEN f ELSE s[i]
    BY <1>8, <1>9 DEF EndInv
  <2>2. /\ f.key \in Closure(s[Len(s)].key)
        /\ s[Len(s)].mode = "get" =>
             /\ s[Len(s)].dep + 1 \in 1..Len(Deps[s[Len(s)].key])
             /\ f.key = Deps[s[Len(s)].key][s[Len(s)].dep + 1]
    BY <1>4, <1>5, <1>6, <1>8
  <2> HIDE DEF s, r
  <2>3. BranchOK(r)
    BY <1>6, <1>7, <2>1, <2>2, PushedBranch
  <2>4. QED
    BY <2>3 DEF r
<1>11. QED
  BY <1>1, <1>9, <1>10, BranchesKept DEF EndInv

\* All dependencies have returned: the key resolves.
LEMMA MakeEnds ==
  ASSUME IInv, EndInv, NEW t \in Threads, Make(t)
  PROVE  EndInv'
<1> DEFINE k == Top(t).key
           o == IF k \in Singletons THEN <<k, made[k] + 1>> ELSE NoObj
           f == [Top(t) EXCEPT !.pc = "made", !.obj = o]
<1>1. /\ stack[t] # <<>> /\ Top(t).pc = "deps" /\ Top(t).dep = Callees(Top(t))
      /\ SetTop(t, f) /\ UNCHANGED <<single, last>>
  BY DEF Make, AtTop
<1>2. Settled(Top(t)) /\ Top(t) \in Frame /\ k \in Keys
  BY <1>1, RootAbove
<1>3. Resolvable(k)
  <2>1. CASE Top(t).mode # "get"
    BY <1>2, <2>1, PlanAssumption DEF Settled
  <2>2. CASE Top(t).mode = "get"
    <3>1. k \in Registered \ AsyncKeys /\ Top(t).dep = Len(Deps[k])
      BY <1>1, <1>2, <2>2 DEF Settled, Callees
    <3>2. \A i \in 1..Len(Deps[k]) : Resolvable(Deps[k][i])
      BY <1>2, <2>2, <3>1 DEF Settled
    <3>3. \A d \in DepSet(k) : Resolvable(d)
      BY <1>2, <3>2, DepsAreKeys
    <3>4. QED
      BY <1>2, <3>1, <3>3, ResolvesByDeps
  <2>3. QED
    BY <2>1, <2>2
<1>4. f \in Frame
  <2>1. k \in Singletons => o \in Obj
    BY <1>2 DEF Obj, IInv, TypeOK
  <2> HIDE DEF o
  <2>2. o \in Obj \cup {NoObj}
    BY <2>1 DEF o
  <2>3. QED
    BY <1>2, <2>2 DEF Frame
<1>5. /\ f.key = k /\ f.mode = Top(t).mode /\ f.pc = "made" /\ f.dep = Top(t).dep
  BY <1>2 DEF Frame
<1> HIDE DEF f
<1>6. Settled(f)
  BY <1>1, <1>2, <1>3, <1>5 DEF Settled
<1>7. QED
  BY <1>1, <1>4, <1>5, <1>6, SetTopEnds

LEMMA MakeFailsEnds ==
  ASSUME IInv, EndInv, NEW t \in Threads, MakeFails(t)
  PROVE  EndInv'
<1>1. stack[t] # <<>> /\ Raise(t, "failed")
  BY DEF MakeFails, AtTop
<1>2. Justified([key |-> stack[t][1].key, result |-> "failed"])
  BY DEF Justified
<1>3. QED
  BY <1>1, <1>2, RaiseEnds

\* The resolvers of a plan: everything in a plan resolves.
LEMMA PlanResolves ==
  ASSUME IInv, EndInv, NEW t \in Threads, stack[t] # <<>>, Top(t).mode # "get"
  PROVE  Resolvable(Top(t).key)
  BY RootAbove, PlanAssumption DEF Settled

LEMMA PlanHitEnds ==
  ASSUME IInv, EndInv, NEW t \in Threads, PlanHit(t)
  PROVE  EndInv'
<1>1. /\ stack[t] # <<>> /\ Top(t).mode # "get" /\ single' = single
      /\ \E o : Return(t, o)
  BY DEF PlanHit, AtTop
<1>2. QED
  BY <1>1, PlanResolves, ReturnEnds

LEMMA PlanMissEnds ==
  ASSUME IInv, EndInv, NEW t \in Threads, PlanMiss(t)
  PROVE  EndInv'
<1> DEFINE f == [Top(t) EXCEPT !.pc = "deps"]
<1>1. /\ stack[t] # <<>> /\ Top(t).mode # "get"
      /\ SetTop(t, f) /\ UNCHANGED <<single, last>>
  BY DEF PlanMiss, AtTop
<1>2. Settled(Top(t)) /\ Top(t) \in Frame
  BY <1>1, RootAbove
<1>3. f \in Frame /\ f.key = Top(t).key /\ f.mode = Top(t).mode /\ f.pc = "deps"
  BY <1>2, FrameFields DEF Frame
<1> HIDE DEF f
<1>4. Settled(f)
  BY <1>1, <1>2, <1>3 DEF Settled
<1>5. QED
  BY <1>1, <1>3, <1>4, SetTopEnds

LEMMA PublishEnds ==
  ASSUME IInv, EndInv, NEW t \in Threads, Publish(t)
  PROVE  EndInv'
<1>1. /\ stack[t] # <<>> /\ Top(t).mode # "get"
      /\ \E o : Return(t, o) /\ single' = [single EXCEPT ![Top(t).key] = o]
  BY DEF Publish, AtTop
<1>2. \A k \in Keys : single'[k] # NoObj => single[k] # NoObj \/ k = Top(t).key
  BY <1>1 DEF IInv, TypeOK
<1>3. QED
  BY <1>1, <1>2, PlanResolves, ReturnEnds

LEMMA PlanTransientEnds ==
  ASSUME IInv, EndInv, NEW t \in Threads, PlanTransient(t)
  PROVE  EndInv'
<1>1. /\ stack[t] # <<>> /\ Top(t).mode # "get" /\ Return(t, NoObj) /\ single' = single
  BY DEF PlanTransient, AtTop
<1>2. QED
  BY <1>1, PlanResolves, ReturnEnds

LEMMA NextEnds == IInv /\ EndInv /\ [Next]_vars => EndInv'
<1> SUFFICES ASSUME IInv, EndInv, [Next]_vars PROVE EndInv'
  OBVIOUS
<1>1. ASSUME NEW t \in Threads, Call(t) PROVE EndInv'
  BY <1>1, CallEnds
<1>2. ASSUME NEW t \in Threads, Step(t) PROVE EndInv'
  BY <1>2, GetHitEnds, GetMissEnds, GetRecheckEnds, GetLockedEnds, StoreEnds,
     ResolveDepEnds, MakeEnds, MakeFailsEnds, PlanHitEnds, PlanMissEnds, PublishEnds,
     PlanTransientEnds
     DEF Step
<1>3. CASE UNCHANGED vars
  BY <1>3 DEF vars, EndInv
<1>4. QED
  BY <1>1, <1>2, <1>3 DEF Next

\* A call succeeds only for a key whose whole closure has synchronous rules
\* without a cycle, and reports a cycle, a missing rule or an asynchronous
\* provider only if its closure has one, whatever other threads build, publish
\* or fail to build meanwhile.
THEOREM OutcomesAreJustified == Spec => []OutcomeExact
<1>1. EndInv => OutcomeExact
  BY DEF EndInv, Justified, OutcomeExact
<1>2. QED
  BY EndInit, NextEnds, Invariance, <1>1, PTL DEF Spec
=============================================================================
