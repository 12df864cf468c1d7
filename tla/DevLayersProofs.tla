--------------------------- MODULE DevLayersProofs ---------------------------
(* Proofs about DevLayers, for every set of threads, keys and containers. *)
EXTENDS DevLayers, ResolutionOrderProofs

-----------------------------------------------------------------------------
(* The inductive invariant behind GuardExact *)

FrameFields == {"pc", "root", "left", "cache", "loaded", "result"}
FrameShape(f) ==
  /\ f.result \in {"ok", "failed"}
  /\ f = [x \in FrameFields |-> f[x]]
FrameShapes ==
  /\ frames = [t \in Threads |-> frames[t]]
  /\ \A t \in Threads : \E F : frames[t] \in Seq(F) /\ \A f \in F : FrameShape(f)

Shapes ==
  /\ setup \in Setups
  /\ clock \in 0..MaxTime
  /\ call \in [Threads -> Call \cup {NoCall}]
  /\ FrameShapes
  /\ \A t \in Threads : frames[t] # <<>> => At(t, "work") /\ call[t].todo # <<>>
  /\ \A t \in Threads : At(t, "check") \/ At(t, "mark") => "guard" \in setup.layers
  /\ met \in [Threads -> SUBSET Keys]
  /\ last = [t \in Threads |-> last[t]]

\* Of two threads with a call under way, each has met the other's key.
BothMet == \A t, u \in Busy : t # u => call[u].key \in met[t]
Guarding(t) == "guard" \in setup.layers /\ At(t, "work")
\* A thread inside the guard whose mark is gone has met its own key.
MarkedOrMet == \A t \in Threads : Guarding(t) => call[t].key \in resolving \cup met[t]
\* A mark is that of a thread inside the guard.
MarksOwned == \A k \in resolving : \E t \in Threads : Guarding(t) /\ call[t].key = k
\* A call that the guard refused had met its own key.
RefusedMet ==
  \A t \in Threads : last[t].result \in {"cycle", "KeyError"} => last[t].key \in last[t].met

GuardInv == BothMet /\ MarkedOrMet /\ MarksOwned /\ RefusedMet
IInv == Shapes /\ GuardInv

-----------------------------------------------------------------------------
(* Steps that leave the guard as it is *)

\* A step that changes no thread's key, nor who is inside, and neither the marks
\* nor the histories, leaves the guard's part as it is.
LEMMA GuardKept ==
  ASSUME GuardInv, UNCHANGED <<setup, resolving, met, last>>,
         \A t \in Threads : /\ (call[t] = NoCall) <=> (call'[t] = NoCall)
                            /\ call'[t].key = call[t].key
                            /\ call'[t].pc # call[t].pc =>
                                 /\ call[t].pc # "work"
                                 /\ call'[t].pc = "work" => "guard" \notin setup.layers
  PROVE  GuardInv'
<1>1. BothMet'
  BY DEF GuardInv, BothMet, Busy
<1>2. MarkedOrMet'
  BY DEF GuardInv, MarkedOrMet, Guarding, At
<1>3. MarksOwned'
  BY DEF GuardInv, MarksOwned, Guarding, At
<1>4. RefusedMet'
  BY DEF GuardInv, RefusedMet
<1>5. QED
  BY <1>1, <1>2, <1>3, <1>4 DEF GuardInv

\* What a call holds.
LEMMA CallFields ==
  ASSUME NEW c \in Call
  PROVE  c # NoCall /\ c.key \in Keys /\ c.result \in {"ok", "failed"} /\ c.todo \in Seq(Keys)
BY NoCallAssumption DEF Call

\* The frame on top is one, and replacing, adding or dropping it keeps the others.
LEMMA TopFrame ==
  ASSUME NEW s, NEW F, s \in Seq(F), s # <<>>
  PROVE  Last(s) \in F /\ Front(s) \in Seq(F)
BY LenProperties, ElementOfSeq, SubSeqProperties, EmptySeq DEF Last, Front

LEMMA FrameAppended ==
  ASSUME NEW s, NEW F, s \in Seq(F), \A f \in F : FrameShape(f), NEW g, FrameShape(g)
  PROVE  \E G : Append(s, g) \in Seq(G) /\ \A f \in G : FrameShape(f)
<1> WITNESS F \cup {g}
<1>1. s \in Seq(F \cup {g})
  BY SeqMonotonic
<1>2. QED
  BY <1>1, AppendProperties

\* What Container.get's result does to the thread: it changes no more of its
\* call than what is left to do and how that ended.
Delivered(t) ==
  /\ call' \in [Threads -> Call \cup {NoCall}]
  /\ FrameShapes'
  /\ \A u \in Threads : frames'[u] # <<>> => call'[u] # NoCall /\ call'[u].pc = "work"
                                               /\ call'[u].todo # <<>>
  /\ \A u \in Threads : /\ (call[u] = NoCall) <=> (call'[u] = NoCall)
                        /\ call'[u].key = call[u].key
                        /\ call'[u].pc = call[u].pc
                        /\ u # t => call'[u] = call[u] /\ frames'[u] = frames[u]

LEMMA Delivering ==
  ASSUME Shapes, NEW t \in Threads, call[t] # NoCall, call[t].pc = "work", call[t].todo # <<>>,
         NEW fs, \E F : fs \in Seq(F) /\ \A f \in F : FrameShape(f),
         NEW k, NEW r \in {"ok", "failed"}, Deliver(t, fs, k, r)
  PROVE  Delivered(t)
<1>1. /\ call \in [Threads -> Call \cup {NoCall}] /\ call[t] \in Call
      /\ frames = [u \in Threads |-> frames[u]]
      /\ \A u \in Threads : \E F : frames[u] \in Seq(F) /\ \A f \in F : FrameShape(f)
      /\ \A u \in Threads : frames[u] # <<>> => call[u] # NoCall /\ call[u].pc = "work"
                                                /\ call[u].todo # <<>>
  BY DEF Shapes, FrameShapes, At
<1>2. PICK F : fs \in Seq(F) /\ \A f \in F : FrameShape(f)
  OBVIOUS
<1>3. CASE fs = <<>>
  <2> DEFINE s == IF r = "ok" THEN Tail(call[t].todo) ELSE call[t].todo
             c == [call[t] EXCEPT !.todo = s, !.result = r]
  <2>1. call' = [call EXCEPT ![t] = c] /\ frames' = [frames EXCEPT ![t] = fs]
    BY <1>1, <1>3 DEF Deliver
  <2>2. c \in Call /\ c # NoCall /\ c.key = call[t].key /\ c.pc = call[t].pc
    <3>1. Tail(call[t].todo) \in Seq(Keys)
      BY <1>1, CallFields, HeadTailProperties
    <3>2. s \in Seq(Keys)
      BY <1>1, <3>1, CallFields
    <3> HIDE DEF s
    <3>3. c \in Call /\ c.key = call[t].key /\ c.pc = call[t].pc
      BY <1>1, <3>2 DEF Call
    <3>4. QED
      BY <3>3, NoCallAssumption
  <2> HIDE DEF c
  <2>3. FrameShapes'
    BY <1>1, <1>2, <2>1 DEF FrameShapes
  <2>4. QED
    BY <1>1, <1>3, <2>1, <2>2, <2>3 DEF Delivered
<1>4. CASE fs # <<>>
  <2> DEFINE f == Last(fs)
             g == IF r = "ok" THEN [f EXCEPT !.cache = @ \cup {k}]
                  ELSE [f EXCEPT !.pc = "unload", !.result = "failed"]
  <2>1. call' = call /\ frames' = [frames EXCEPT ![t] = Append(Front(fs), g)]
    BY <1>4 DEF Deliver
  <2>2. f \in F /\ Front(fs) \in Seq(F)
    BY <1>2, <1>4, TopFrame
  <2>3. FrameShape(g)
    BY <1>2, <2>2 DEF FrameShape, FrameFields
  <2> HIDE DEF f, g
  <2>4. \E G : Append(Front(fs), g) \in Seq(G) /\ \A h \in G : FrameShape(h)
    BY <1>2, <2>2, <2>3, FrameAppended
  <2>5. FrameShapes'
    BY <1>1, <2>1, <2>4 DEF FrameShapes
  <2>6. QED
    BY <1>1, <2>1, <2>5 DEF Delivered
<1>5. QED
  BY <1>3, <1>4

\* Container.get either begins a policy's loop or delivers a result.
LEMMA Getting ==
  ASSUME Shapes, NEW t \in Threads, call[t] # NoCall, call[t].pc = "work", call[t].todo # <<>>,
         NEW k, Get(t, k)
  PROVE  Delivered(t)
<1>1. /\ call \in [Threads -> Call \cup {NoCall}]
      /\ frames = [u \in Threads |-> frames[u]]
      /\ \A u \in Threads : \E F : frames[u] \in Seq(F) /\ \A f \in F : FrameShape(f)
      /\ \A u \in Threads : frames[u] # <<>> => call[u] # NoCall /\ call[u].pc = "work"
                                                /\ call[u].todo # <<>>
  BY DEF Shapes, FrameShapes, At
<1>2. CASE setup.policy # "none" /\ depth = 0
  <2> DEFINE g == [pc |-> "load", root |-> k, left |-> order[k], cache |-> {}, loaded |-> 0,
                   result |-> "ok"]
  <2>1. call' = call /\ frames' = [frames EXCEPT ![t] = Append(frames[t], g)]
    BY <1>1, <1>2 DEF Get
  <2>2. FrameShape(g)
    BY DEF FrameShape, FrameFields
  <2> HIDE DEF g
  <2>3. \E G : Append(frames[t], g) \in Seq(G) /\ \A f \in G : FrameShape(f)
    BY <1>1, <2>2, FrameAppended
  <2>4. FrameShapes'
    BY <1>1, <2>1, <2>3 DEF FrameShapes
  <2>5. QED
    BY <1>1, <2>1, <2>4 DEF Delivered
<1>3. CASE ~(setup.policy # "none" /\ depth = 0)
  <2>1. PICK o \in Outcomes(k) : Deliver(t, frames[t], k, o.result)
    BY <1>3 DEF Get
  <2>2. o.result \in {"ok", "failed"}
    BY <2>1 DEF Outcomes
  <2>3. QED
    BY <1>1, <2>1, <2>2, Delivering
<1>4. QED
  BY <1>2, <1>3

\* A step that only delivers keeps the invariant.
LEMMA DeliveredKeeps ==
  ASSUME IInv, NEW t \in Threads, Delivered(t), UNCHANGED <<setup, clock, resolving, met, last>>
  PROVE  IInv'
<1>1. Shapes'
  BY DEF IInv, Shapes, Delivered, At
<1>2. GuardInv'
  BY GuardKept DEF IInv, Delivered
<1>3. QED
  BY <1>1, <1>2 DEF IInv

-----------------------------------------------------------------------------
(* The steps *)

LEMMA InitHolds == Init => IInv
<1> SUFFICES ASSUME Init PROVE IInv
  OBVIOUS
<1>1. FrameShapes
  <2>1. frames = [t \in Threads |-> frames[t]]
    BY DEF Init
  <2>2. ASSUME NEW t \in Threads
        PROVE  \E F : frames[t] \in Seq(F) /\ \A f \in F : FrameShape(f)
    <3> WITNESS {}
    <3>1. QED
      BY EmptySeq DEF Init
  <2>3. QED
    BY <2>1, <2>2 DEF FrameShapes
<1>2. Shapes
  BY <1>1, TimeAssumption DEF Shapes, Init, At
<1>3. GuardInv
  BY DEF GuardInv, BothMet, MarkedOrMet, MarksOwned, RefusedMet, Busy, Guarding, At, Init
<1>4. QED
  BY <1>2, <1>3 DEF IInv

\* What is known of a thread that is at a place of its own call.
LEMMA Facts ==
  ASSUME Shapes, NEW t \in Threads, call[t] # NoCall
  PROVE  /\ call[t] \in Call /\ call[t].key \in Keys
         /\ call \in [Threads -> Call \cup {NoCall}]
         /\ frames = [u \in Threads |-> frames[u]]
         /\ call[t].pc # "work" => frames[t] = <<>>
BY CallFields DEF Shapes, FrameShapes, At

\* A thread outside the guard that moves on to another place outside it.
LEMMA MovesOn ==
  ASSUME IInv, NEW t \in Threads, call[t] # NoCall, call[t].pc # "work",
         NEW p \in {"hit", "stamp", "count", "check", "mark", "work"},
         p = "work" => "guard" \notin setup.layers,
         p \in {"check", "mark"} => "guard" \in setup.layers,
         NEW a \in 0..MaxTime, call' = [call EXCEPT ![t].pc = p, ![t].at = a],
         clock' \in 0..MaxTime, UNCHANGED <<setup, resolving, met, last, frames>>
  PROVE  IInv'
<1> DEFINE c == [call[t] EXCEPT !.pc = p, !.at = a]
<1>1. c \in Call /\ c # NoCall /\ c.key = call[t].key /\ c.pc = p
  BY Facts, NoCallAssumption DEF IInv, Call
<1>2. call' = [call EXCEPT ![t] = c] /\ frames[t] = <<>>
  BY Facts DEF IInv
<1> HIDE DEF c
<1>3. Shapes'
  <2>1. call \in [Threads -> Call \cup {NoCall}] /\ call' \in [Threads -> Call \cup {NoCall}]
    BY <1>1, <1>2, ZenonT(30) DEF IInv, Shapes
  <2>2. FrameShapes'
    BY DEF IInv, Shapes, FrameShapes
  <2>3. \A u \in Threads : frames[u] # <<>> => call'[u] # NoCall /\ call'[u].pc = "work"
                                              /\ call'[u].todo # <<>>
    BY <1>2, <2>1 DEF IInv, Shapes, At
  <2>4. \A u \in Threads : call'[u] # NoCall /\ call'[u].pc \in {"check", "mark"}
                             => "guard" \in setup.layers
    BY <1>1, <1>2, <2>1 DEF IInv, Shapes, At
  <2>5. QED
    BY <2>1, <2>2, <2>3, <2>4 DEF IInv, Shapes, At
<1>4. GuardInv'
  BY <1>1, <1>2, GuardKept, Facts DEF IInv
<1>5. QED
  BY <1>3, <1>4 DEF IInv

\* A call that ends without having been inside the guard.
LEMMA EndsOutside ==
  ASSUME IInv, NEW t \in Threads, call[t] # NoCall, call[t].pc # "work", NEW r, End(t, r),
         r \in {"cycle", "KeyError"} => call[t].key \in met[t],
         UNCHANGED <<setup, clock, resolving, met, frames>>
  PROVE  IInv'
<1>1. call' = [call EXCEPT ![t] = NoCall] /\ frames[t] = <<>>
      /\ last' = [last EXCEPT ![t] = [key |-> call[t].key, result |-> r, met |-> met[t]]]
      /\ call \in [Threads -> Call \cup {NoCall}]
  BY Facts DEF IInv, End
<1>2. Shapes'
  BY <1>1 DEF IInv, Shapes, FrameShapes, At
<1>3. BothMet'
  BY <1>1 DEF IInv, GuardInv, BothMet, Busy
<1>4. MarkedOrMet' /\ MarksOwned'
  BY <1>1 DEF IInv, GuardInv, MarkedOrMet, MarksOwned, Guarding, At
<1>5. RefusedMet'
  BY <1>1 DEF IInv, Shapes, GuardInv, RefusedMet
<1>6. QED
  BY <1>2, <1>3, <1>4, <1>5 DEF IInv, GuardInv

LEMMA EnterKeeps ==
  ASSUME IInv, NEW t \in Threads, NEW k \in Keys, Enter(t, k)
  PROVE  IInv'
<1> DEFINE c == [pc |-> IF "limit" \in setup.layers THEN "hit" ELSE AfterLimit,
                 key |-> k, at |-> 0, todo |-> <<k>>, result |-> "ok"]
<1>1. c \in Call /\ c # NoCall /\ c.key = k /\ (c.pc = "work" => "guard" \notin setup.layers)
      /\ (c.pc \in {"check", "mark"} => "guard" \in setup.layers)
  <2>1. <<k>> \in Seq(Keys) /\ 0 \in 0..MaxTime
    BY TimeAssumption
  <2>2. c \in Call
    BY <2>1 DEF Call, AfterLimit
  <2>3. QED
    BY <2>2, NoCallAssumption DEF AfterLimit
<1>2. /\ call[t] = NoCall /\ call' = [call EXCEPT ![t] = c]
      /\ met' = [u \in Threads |->
           IF u = t THEN {call[v].key : v \in Busy}
           ELSE IF u \in Busy THEN met[u] \cup {k} ELSE met[u]]
      /\ UNCHANGED <<setup, clock, frames, resolving, last>>
  BY DEF Enter, limiter, container
<1> HIDE DEF c
<1>3. call \in [Threads -> Call \cup {NoCall}] /\ \A v \in Busy : call[v].key \in Keys
  BY Facts DEF IInv, Shapes, Busy
<1>4. Shapes'
  <2>1. met' \in [Threads -> SUBSET Keys]
    BY <1>2, <1>3 DEF IInv, Shapes
  <2>2. frames[t] = <<>>
    BY <1>2 DEF IInv, Shapes, At
  <2>3. QED
    BY <1>1, <1>2, <1>3, <2>1, <2>2 DEF IInv, Shapes, FrameShapes, At
<1>5. BothMet'
  BY <1>1, <1>2, <1>3 DEF IInv, Shapes, GuardInv, BothMet, Busy
<1>6. MarkedOrMet'
  BY <1>1, <1>2, <1>3 DEF IInv, Shapes, GuardInv, MarkedOrMet, Guarding, At, Busy
<1>7. MarksOwned'
  BY <1>1, <1>2, <1>3 DEF IInv, GuardInv, MarksOwned, Guarding, At
<1>8. RefusedMet'
  BY <1>2 DEF IInv, GuardInv, RefusedMet
<1>9. QED
  BY <1>4, <1>5, <1>6, <1>7, <1>8 DEF IInv, GuardInv

\* The guard marks the key, which nobody else inside has marked or which both
\* have met.
LEMMA MarkKeeps ==
  ASSUME IInv, NEW t \in Threads, Mark(t)
  PROVE  IInv'
<1> DEFINE s == setup.before[call[t].key] \o <<call[t].key>> \o setup.after[call[t].key]
                  \o setup.nested[call[t].key]
           c == [call[t] EXCEPT !.pc = "work", !.todo = s]
<1>1. /\ call[t] \in Call /\ call[t] # NoCall /\ call[t].key \in Keys /\ call[t].pc = "mark"
      /\ frames[t] = <<>> /\ call \in [Threads -> Call \cup {NoCall}]
  BY Facts DEF IInv, Mark, At
<1>2. s \in Seq(Keys)
  <2>1. setup \in Setups /\ SetupShape(setup)
    BY SetupAssumption DEF IInv, Shapes
  <2>2. \A f \in [Keys -> Seq(Keys)] : f[call[t].key] \in Seq(Keys)
    BY <1>1
  <2>3. /\ setup.before[call[t].key] \in Seq(Keys) /\ setup.after[call[t].key] \in Seq(Keys)
        /\ setup.nested[call[t].key] \in Seq(Keys) /\ <<call[t].key>> \in Seq(Keys)
    BY <1>1, <2>1, <2>2 DEF SetupShape
  <2>4. QED
    BY <2>3, ConcatProperties
<1>3. /\ resolving' = resolving \cup {call[t].key}
      /\ call' = [call EXCEPT ![t] = c]
      /\ UNCHANGED <<setup, clock, met, last, frames>>
  BY <1>1 DEF Mark, At, fixed, limiter, container
<1> HIDE DEF s
<1>4. c \in Call /\ c # NoCall /\ c.key = call[t].key /\ c.pc = "work"
  BY <1>1, <1>2, NoCallAssumption DEF Call
<1> HIDE DEF c
<1>5. Shapes'
  BY <1>1, <1>3, <1>4 DEF IInv, Shapes, FrameShapes, At
<1>6. BothMet'
  BY <1>1, <1>3, <1>4 DEF IInv, GuardInv, BothMet, Busy
<1>7. MarkedOrMet'
  BY <1>1, <1>3, <1>4 DEF IInv, GuardInv, MarkedOrMet, Guarding, At
<1>8. "guard" \in setup.layers
  BY DEF IInv, Shapes, Mark
<1>9. MarksOwned'
  BY <1>1, <1>3, <1>4, <1>8 DEF IInv, GuardInv, MarksOwned, Guarding, At
<1>10. RefusedMet'
  BY <1>3 DEF IInv, GuardInv, RefusedMet
<1>11. QED
  BY <1>5, <1>6, <1>7, <1>9, <1>10 DEF IInv, GuardInv

\* A call leaves the guard: another thread inside with the same key has met it.
LEMMA LeaveKeeps ==
  ASSUME IInv, NEW t \in Threads, Leave(t)
  PROVE  IInv'
<1>1. /\ call[t] \in Call /\ call[t] # NoCall /\ call[t].key \in Keys /\ call[t].pc = "work"
      /\ frames[t] = <<>> /\ call \in [Threads -> Call \cup {NoCall}]
      /\ call[t].result \in {"ok", "failed"}
  BY Facts, CallFields DEF IInv, Leave, At
<1>2. PICK r : /\ last' = [last EXCEPT ![t] = [key |-> call[t].key, result |-> r, met |-> met[t]]]
               /\ r \in {"cycle", "KeyError"} =>
                    "guard" \in setup.layers /\ call[t].key \notin resolving
  <2>1. CASE "guard" \in setup.layers /\ call[t].key \notin resolving
    BY <2>1 DEF Leave, End
  <2>2. CASE ~("guard" \in setup.layers /\ call[t].key \notin resolving)
    BY <1>1, <2>2 DEF Leave, End
  <2>3. QED
    BY <2>1, <2>2
<1>3. /\ resolving' = resolving \ {call[t].key}
      /\ call' = [call EXCEPT ![t] = NoCall]
      /\ UNCHANGED <<setup, clock, met, frames>>
  BY DEF Leave, End, fixed, limiter, container
<1>4. r \in {"cycle", "KeyError"} => call[t].key \in met[t]
  BY <1>1, <1>2 DEF IInv, GuardInv, MarkedOrMet, Guarding, At
<1>5. Shapes'
  BY <1>1, <1>2, <1>3 DEF IInv, Shapes, FrameShapes, At
<1>6. BothMet'
  BY <1>1, <1>3 DEF IInv, GuardInv, BothMet, Busy
<1>7. MarkedOrMet'
  BY <1>1, <1>3 DEF IInv, GuardInv, MarkedOrMet, BothMet, Busy, Guarding, At
<1>8. MarksOwned'
  BY <1>1, <1>3 DEF IInv, GuardInv, MarksOwned, Guarding, At
<1>9. RefusedMet'
  BY <1>2, <1>3, <1>4 DEF IInv, Shapes, GuardInv, RefusedMet
<1>10. QED
  BY <1>5, <1>6, <1>7, <1>8, <1>9 DEF IInv, GuardInv

\* The steps of the policy's loop change a frame, or deliver.
LEMMA FrameKeeps ==
  ASSUME IInv, NEW t \in Threads, frames[t] # <<>>, NEW g, FrameShape(g), SetFrame(t, g),
         UNCHANGED <<setup, clock, call, resolving, met, last>>
  PROVE  IInv'
<1>1. PICK F : frames[t] \in Seq(F) /\ \A f \in F : FrameShape(f)
  BY DEF IInv, Shapes, FrameShapes
<1>2. \E G : Append(Front(frames[t]), g) \in Seq(G) /\ \A f \in G : FrameShape(f)
  <2>1. Front(frames[t]) \in Seq(F)
    BY <1>1, TopFrame
  <2>2. QED
    BY <1>1, <2>1, FrameAppended
<1>3. frames' = [frames EXCEPT ![t] = Append(Front(frames[t]), g)]
  BY DEF SetFrame, IInv, Shapes, FrameShapes
<1>4. FrameShapes'
  BY <1>2, <1>3 DEF IInv, Shapes, FrameShapes
<1>5. Shapes'
  BY <1>3, <1>4 DEF IInv, Shapes, At
<1>6. GuardInv'
  BY GuardKept DEF IInv
<1>7. QED
  BY <1>5, <1>6 DEF IInv

LEMMA LoopKeeps ==
  ASSUME IInv, NEW t \in Threads, Load(t) \/ StoreUp(t) \/ NextKey(t) \/ StoreDown(t)
  PROVE  IInv'
<1>1. frames[t] # <<>> /\ UNCHANGED <<setup, clock, resolving, met, last>>
  BY DEF Load, StoreUp, NextKey, StoreDown, InFrame, fixed, limiter
<1>2. call[t] # NoCall /\ call[t].pc = "work" /\ call[t].todo # <<>>
  BY <1>1 DEF IInv, Shapes, At
<1>3. PICK F : frames[t] \in Seq(F) /\ \A f \in F : FrameShape(f)
  BY DEF IInv, Shapes, FrameShapes
<1>4. FrameShape(Last(frames[t])) /\ Front(frames[t]) \in Seq(F)
  BY <1>1, <1>3, TopFrame
<1> DEFINE f == Last(frames[t])
<1>5. CASE Load(t)
  <2> DEFINE g == [f EXCEPT !.loaded = depth, !.pc = IF f.pc = "load" THEN "store" ELSE "unstore"]
  <2>1. FrameShape(g)
    BY <1>4 DEF FrameShape, FrameFields
  <2>2. SetFrame(t, g) /\ call' = call
    BY <1>5 DEF Load
  <2>3. QED
    BY <1>1, <2>1, <2>2, FrameKeeps
<1>6. CASE StoreUp(t)
  <2> DEFINE g == [f EXCEPT !.pc = "keys"]
  <2>1. FrameShape(g)
    BY <1>4 DEF FrameShape, FrameFields
  <2>2. SetFrame(t, g) /\ call' = call
    BY <1>6 DEF StoreUp
  <2>3. QED
    BY <1>1, <2>1, <2>2, FrameKeeps
<1>7. CASE NextKey(t)
  <2> DEFINE g == [f EXCEPT !.pc = "unload"]
  <2>1. (SetFrame(t, g) /\ call' = call) \/ (\E k : Get(t, k))
    BY <1>7 DEF NextKey
  <2>2. CASE SetFrame(t, g) /\ call' = call
    <3>1. FrameShape(g)
      BY <1>4 DEF FrameShape, FrameFields
    <3>2. QED
      BY <1>1, <2>2, <3>1, FrameKeeps
  <2>3. CASE \E k : Get(t, k)
    BY <1>1, <1>2, <2>3, Getting, DeliveredKeeps DEF IInv
  <2>4. QED
    BY <2>1, <2>2, <2>3
<1>8. CASE StoreDown(t)
  <2>1. Deliver(t, Front(frames[t]), f.root, f.result)
    BY <1>8 DEF StoreDown
  <2>2. f.result \in {"ok", "failed"}
    BY <1>4 DEF FrameShape
  <2>3. Delivered(t)
    BY <1>2, <1>3, <1>4, <2>1, <2>2, Delivering DEF IInv
  <2>4. QED
    BY <1>1, <2>3, DeliveredKeeps
<1>9. QED
  BY <1>5, <1>6, <1>7, <1>8

LEMMA StepKeeps ==
  ASSUME IInv, NEW t \in Threads, Step(t)
  PROVE  IInv'
<1>1. CASE CheckHit(t)
  <2>1. call[t] # NoCall /\ call[t].pc = "hit" /\ call[t] \in Call
    BY <1>1, Facts DEF CheckHit, At, IInv
  <2>2. PICK p \in {AfterLimit, "stamp"} : call' = [call EXCEPT ![t].pc = p]
    BY <1>1 DEF CheckHit, Goes
  <2>3. call[t].at \in 0..MaxTime /\ call' = [call EXCEPT ![t].pc = p, ![t].at = call[t].at]
    BY <2>1, <2>2 DEF Call, IInv, Shapes
  <2>4. UNCHANGED <<setup, clock, resolving, met, last, frames>> /\ clock' \in 0..MaxTime
    BY <1>1 DEF CheckHit, fixed, limiter, container, IInv, Shapes
  <2>5. QED
    BY <2>1, <2>2, <2>3, <2>4, MovesOn DEF AfterLimit
<1>2. CASE ReadClock(t)
  <2>1. call[t] # NoCall /\ call[t].pc = "stamp"
    BY <1>2 DEF ReadClock, At
  <2>2. call' = [call EXCEPT ![t].pc = "count", ![t].at = clock]
    BY <1>2 DEF ReadClock
  <2>3. UNCHANGED <<setup, clock, resolving, met, last, frames>> /\ clock' \in 0..MaxTime
    BY <1>2 DEF ReadClock, fixed, limiter, container, IInv, Shapes
  <2>4. QED
    BY <2>1, <2>2, <2>3, MovesOn DEF IInv, Shapes
<1>3. CASE Count(t)
  <2>1. call[t] # NoCall /\ call[t].pc = "count" /\ call[t] \in Call
    BY <1>3, Facts DEF Count, At, IInv
  <2>2. UNCHANGED <<setup, clock, resolving, met, frames>> /\ clock' \in 0..MaxTime
    BY <1>3 DEF Count, fixed, container, IInv, Shapes
  <2>3. End(t, "limited") \/ (call' = [call EXCEPT ![t].pc = AfterLimit] /\ last' = last)
    BY <1>3 DEF Count, Goes
  <2>4. CASE End(t, "limited")
    BY <2>1, <2>2, <2>4, EndsOutside
  <2>5. CASE call' = [call EXCEPT ![t].pc = AfterLimit] /\ last' = last
    <3>1. call[t].at \in 0..MaxTime
          /\ call' = [call EXCEPT ![t].pc = AfterLimit, ![t].at = call[t].at]
      BY <2>1, <2>5 DEF Call, IInv, Shapes
    <3>2. QED
      BY <2>1, <2>2, <2>5, <3>1, MovesOn DEF AfterLimit
  <2>6. QED
    BY <2>3, <2>4, <2>5
<1>4. CASE CheckGuard(t)
  <2>1. call[t] # NoCall /\ call[t].pc = "check" /\ call[t] \in Call
    BY <1>4, Facts DEF CheckGuard, At, IInv
  <2>2. UNCHANGED <<setup, clock, resolving, met, frames>> /\ clock' \in 0..MaxTime
    BY <1>4 DEF CheckGuard, fixed, limiter, container, IInv, Shapes
  <2>3. CASE call[t].key \in resolving
    <3>1. call[t].key \in met[t]
      BY <2>1, <2>3 DEF IInv, GuardInv, MarksOwned, BothMet, Busy, Guarding, At
    <3>2. QED
      BY <1>4, <2>1, <2>2, <2>3, <3>1, EndsOutside DEF CheckGuard
  <2>4. CASE call[t].key \notin resolving
    <3>1. call' = [call EXCEPT ![t].pc = "mark"] /\ last' = last
      BY <1>4, <2>4 DEF CheckGuard, Goes
    <3>2. call[t].at \in 0..MaxTime
          /\ call' = [call EXCEPT ![t].pc = "mark", ![t].at = call[t].at]
      BY <2>1, <3>1 DEF Call, IInv, Shapes
    <3>3. "guard" \in setup.layers
      BY <2>1 DEF IInv, Shapes, At
    <3>4. QED
      BY <2>1, <2>2, <3>1, <3>2, <3>3, MovesOn
  <2>5. QED
    BY <2>3, <2>4
<1>5. CASE Mark(t)
  BY <1>5, MarkKeeps
<1>6. CASE Invalid(t)
  <2>1. call[t] # NoCall /\ call[t].pc = "work" /\ call[t] \in Call
    BY <1>6, Facts DEF Invalid, At, IInv
  <2> DEFINE c == [call[t] EXCEPT !.result = "failed"]
  <2>2. c \in Call /\ c.key = call[t].key /\ c.pc = "work" /\ c.todo = call[t].todo
    BY <2>1 DEF Call
  <2>3. /\ call' = [call EXCEPT ![t] = c] /\ call \in [Threads -> Call \cup {NoCall}]
        /\ UNCHANGED <<setup, clock, resolving, met, last, frames>>
    BY <1>6 DEF Invalid, fixed, limiter, container, IInv, Shapes
  <2> HIDE DEF c
  <2>4. Delivered(t)
    BY <2>1, <2>2, <2>3, NoCallAssumption DEF Delivered, IInv, Shapes, FrameShapes, At
  <2>5. QED
    BY <2>3, <2>4, DeliveredKeeps
<1>7. CASE Leave(t)
  BY <1>7, LeaveKeeps
<1>8. CASE Work(t)
  <2>1. /\ call[t] # NoCall /\ call[t].pc = "work" /\ call[t].todo # <<>>
        /\ \E k : Get(t, k)
        /\ UNCHANGED <<setup, clock, resolving, met, last>>
    BY <1>8 DEF Work, At, fixed, limiter
  <2>2. QED
    BY <2>1, Getting, DeliveredKeeps DEF IInv
<1>9. CASE Load(t) \/ StoreUp(t) \/ NextKey(t) \/ StoreDown(t)
  BY <1>9, LoopKeeps
<1>10. QED
  BY <1>1, <1>2, <1>3, <1>4, <1>5, <1>6, <1>7, <1>8, <1>9 DEF Step

LEMMA TickKeeps ==
  ASSUME IInv, Tick
  PROVE  IInv'
<1>1. UNCHANGED <<setup, call, frames, resolving, met, last>>
  BY DEF Tick, fixed, container
<1>2. clock' \in 0..MaxTime
  BY TimeAssumption DEF Tick, IInv, Shapes
<1>3. Shapes'
  BY <1>1, <1>2 DEF IInv, Shapes, FrameShapes, At
<1>4. GuardInv'
  BY <1>1, GuardKept DEF IInv
<1>5. QED
  BY <1>3, <1>4 DEF IInv

LEMMA NextKeeps == IInv /\ [Next]_vars => IInv'
<1> SUFFICES ASSUME IInv, [Next]_vars PROVE IInv'
  OBVIOUS
<1>1. CASE Tick
  BY <1>1, TickKeeps
<1>2. CASE \E t \in Threads : Step(t)
  BY <1>2, StepKeeps
<1>3. CASE \E t \in Threads, k \in Keys : Enter(t, k)
  BY <1>3, EnterKeeps
<1>4. CASE UNCHANGED vars
  <2>1. UNCHANGED <<setup, clock, call, frames, resolving, met, last>>
    BY <1>4 DEF vars
  <2>2. Shapes'
    BY <2>1 DEF IInv, Shapes, FrameShapes, At
  <2>3. GuardInv'
    BY <2>1, GuardKept DEF IInv
  <2>4. QED
    BY <2>2, <2>3 DEF IInv
<1>5. QED
  BY <1>1, <1>2, <1>3, <1>4 DEF Next

-----------------------------------------------------------------------------
(* Theorems *)

\* What is known at every moment of the calls, their keys and the marks.
THEOREM GuardInvariance == Spec => []IInv
<1>1. QED
  BY InitHolds, NextKeeps, PTL DEF Spec

\* The validating wrapper refuses a key, or loses its mark, only if another
\* thread asked for that key meanwhile, and leaves no mark behind: however many
\* threads, whatever fails, and with any policy and limiter around it.
THEOREM Guard == Spec => []GuardExact
<1>1. IInv => GuardExact
  <2> SUFFICES ASSUME IInv PROVE GuardExact
    OBVIOUS
  <2>1. \A k \in resolving : \E t \in Busy : call[t].key = k /\ call[t].pc = "work"
    BY DEF IInv, GuardInv, MarksOwned, Guarding, At, Busy
  <2>2. QED
    BY <2>1 DEF IInv, GuardInv, RefusedMet, GuardExact
<1>2. QED
  BY <1>1, GuardInvariance, PTL

-----------------------------------------------------------------------------
(* The limiter *)

\* The queue q holds the calls of k in log l, by the increasing numbers f, except
\* for those that another one of them is a window later than.
Matches(q, l, k, window, f) ==
  /\ f \in [1..Len(q) -> 1..Len(l)]
  /\ \A i \in 1..Len(q) : l[f[i]].key = k /\ l[f[i]].at = q[i]
  /\ \A i, j \in 1..Len(q) : i < j => f[i] < f[j]
  /\ \A n \in 1..Len(l) : l[n].key = k =>
       \/ \E i \in 1..Len(q) : f[i] = n
       \/ \E m \in 1..Len(l) : l[m].key = k /\ l[n].at <= l[m].at - window

Record == [key : Keys, at : 0..MaxTime, refused : BOOLEAN]
QueuesMatch == \A k \in Keys : \E f : Matches(stamps[k], log, k, setup.window, f)
RefusalsExact ==
  \A i \in DOMAIN log :
    InOrder(log[i].key, i) =>
      (log[i].refused <=> Cardinality(Counted(log[i].key, i, log[i].at)) > setup.max)
LimitTypes ==
  /\ stamps = [k \in Keys |-> stamps[k]]
  /\ \A k \in Keys : stamps[k] \in Seq(0..MaxTime)
  /\ log \in Seq(Record)
  /\ \A i \in 1..Len(log) : log[i].at <= clock
  /\ \A t \in Threads : At(t, "count") => call[t].at <= clock
LimitInv == LimitTypes /\ QueuesMatch /\ RefusalsExact

LEMMA CountTo ==
  ASSUME NEW n \in Nat
  PROVE  Cardinality(1..n) = n
<1>1. Cardinality(1..n) = IF 1 > n THEN 0 ELSE n - 1 + 1
  BY FS_Interval
<1>2. QED
  BY <1>1

\* The stamps of a queue, and the calls of a log, that are later than low.
StampsAfter(q, low) == {i \in DOMAIN q : q[i] > low}
CallsAfter(l, k, low) == {j \in 1..Len(l) : l[j].key = k /\ l[j].at > low}

\* Counting a queue is counting the log, at a moment that no call of the key is
\* later than.
LEMMA QueueCounts ==
  ASSUME NEW q \in Seq(0..MaxTime), NEW l \in Seq(Record), NEW k, NEW window \in Nat, NEW f,
         Matches(q, l, k, window, f),
         NEW now \in Int, \A n \in 1..Len(l) : l[n].key = k => l[n].at <= now
  PROVE  Cardinality(StampsAfter(q, now - window)) = Cardinality(CallsAfter(l, k, now - window))
<1> DEFINE A == {i \in 1..Len(q) : q[i] > now - window}
           B == {j \in 1..Len(l) : l[j].key = k /\ l[j].at > now - window}
           g == [i \in A |-> f[i]]
<1>1. /\ Len(q) \in Nat /\ Len(l) \in Nat /\ DOMAIN q = 1..Len(q)
      /\ \A i \in 1..Len(q) : q[i] \in Int
      /\ \A n \in 1..Len(l) : l[n].at \in Int
  <2>1. \A n \in 1..Len(l) : l[n] \in Record
    BY ElementOfSeq
  <2>2. \A i \in 1..Len(q) : q[i] \in 0..MaxTime
    BY ElementOfSeq
  <2> QED BY <2>1, <2>2, LenProperties, TimeAssumption DEF Record
<1>2. g \in [A -> B]
  BY <1>1 DEF Matches
<1>3. \A i, j \in A : g[i] = g[j] => i = j
  <2>1. ASSUME NEW i \in A, NEW j \in A, i # j PROVE g[i] # g[j]
    <3>1. i \in 1..Len(q) /\ j \in 1..Len(q) /\ i \in Int /\ j \in Int
      BY <1>1
    <3>2. f[i] \in 1..Len(l) /\ f[j] \in 1..Len(l)
      BY <3>1 DEF Matches
    <3>3. (i < j => f[i] < f[j]) /\ (j < i => f[j] < f[i])
      BY <3>1 DEF Matches
    <3>4. f[i] # f[j]
      BY <1>1, <2>1, <3>1, <3>2, <3>3
    <3> QED BY <2>1, <3>4
  <2> QED BY <2>1
<1>4. \A n \in B : \E i \in A : g[i] = n
  <2>1. ASSUME NEW n \in B PROVE \E i \in A : g[i] = n
    <3>1. n \in 1..Len(l) /\ l[n].key = k /\ l[n].at > now - window
      OBVIOUS
    <3>2. ~\E m \in 1..Len(l) : l[m].key = k /\ l[n].at <= l[m].at - window
      BY <1>1, <3>1
    <3>3. PICK i \in 1..Len(q) : f[i] = n
      BY <3>1, <3>2 DEF Matches
    <3>4. q[i] = l[n].at
      BY <3>3 DEF Matches
    <3>5. i \in A
      BY <3>1, <3>4
    <3> QED BY <3>3, <3>5
  <2> QED BY <2>1
<1>5. g \in Bijection(A, B)
  <2> HIDE DEF g, A, B
  <2> QED BY <1>2, <1>3, <1>4 DEF Bijection, Injection, Surjection, IsInjective
<1>6. IsFiniteSet(A)
  <2>1. IsFiniteSet(1..Len(q))
    BY <1>1, FS_Interval
  <2>2. A \in SUBSET (1..Len(q))
    OBVIOUS
  <2> HIDE DEF A
  <2> QED BY <2>1, <2>2, FS_Subset
<1>7. Cardinality(A) = Cardinality(B)
  <2> HIDE DEF g, A, B
  <2>1. ExistsBijection(A, B)
    BY <1>5 DEF ExistsBijection
  <2> QED BY <1>6, <2>1, FS_Bijection
<1> QED BY <1>1, <1>7 DEF StampsAfter, CallsAfter

\* What the queue is cut to: it loses its first d stamps, all outside the window,
\* and what is then first is inside.
LEMMA FreshIs ==
  ASSUME NEW q \in Seq(0..MaxTime), NEW now \in Int, setup.window \in Nat
  PROVE  \E d \in 0..Len(q) :
           /\ Fresh(q, now) \in Seq(0..MaxTime)
           /\ Len(Fresh(q, now)) = Len(q) - d
           /\ \A i \in 1..Len(q) - d : Fresh(q, now)[i] = q[i + d]
           /\ \A i \in 1..d : q[i] <= now - setup.window
           /\ d < Len(q) => q[d + 1] > now - setup.window
<1> DEFINE fresh == {i \in DOMAIN q : q[i] > now - setup.window}
<1>1. /\ Len(q) \in Nat /\ DOMAIN q = 1..Len(q)
      /\ \A i \in 1..Len(q) : q[i] \in Int /\ q[i] \in 0..MaxTime
  <2>1. \A i \in 1..Len(q) : q[i] \in 0..MaxTime
    BY ElementOfSeq
  <2> QED BY <2>1, LenProperties, TimeAssumption
<1>2. \A i : i \in fresh <=> i \in 1..Len(q) /\ q[i] > now - setup.window
  BY <1>1
<1>3. Fresh(q, now) = IF fresh = {} THEN <<>>
          ELSE SubSeq(q, CHOOSE i \in fresh : \A j \in fresh : i <= j, Len(q))
  BY DEF Fresh
<1> HIDE DEF fresh
<1>4. CASE fresh = {}
  <2>1. Fresh(q, now) = <<>>
    BY <1>3, <1>4
  <2>2. \A i \in 1..Len(q) : q[i] <= now - setup.window
    BY <1>1, <1>2, <1>4
  <2>3. Len(q) \in 0..Len(q) /\ Len(q) - Len(q) = 0 /\ ~(Len(q) < Len(q))
    BY <1>1
  <2> QED BY <2>1, <2>2, <2>3, EmptySeq
<1>5. CASE fresh # {}
  <2> DEFINE c == CHOOSE i \in fresh : \A j \in fresh : i <= j
  <2>1. \E i \in fresh : \A j \in fresh : i <= j
    <3>1. fresh \in SUBSET Nat
      BY <1>1, <1>2
    <3> QED BY <1>5, <3>1, LeastNumber
  <2>2. c \in fresh /\ \A j \in fresh : c <= j
    BY <2>1
  <2>3. Fresh(q, now) = SubSeq(q, c, Len(q))
    BY <1>3, <1>5
  <2> HIDE DEF c
  <2>4. c \in 1..Len(q) /\ q[c] > now - setup.window
    BY <1>2, <2>2
  <2>5. \A i \in 1..c - 1 : q[i] <= now - setup.window
    BY <1>1, <1>2, <2>2, <2>4, SMTT(30)
  <2>6. /\ SubSeq(q, c, Len(q)) \in Seq(0..MaxTime)
        /\ Len(SubSeq(q, c, Len(q))) = Len(q) - c + 1
        /\ \A i \in 1..Len(q) - c + 1 : SubSeq(q, c, Len(q))[i] = q[c + i - 1]
    <3>1. \A i \in c..Len(q) : q[i] \in 0..MaxTime
      BY <1>1, <2>4
    <3> QED BY <1>1, <2>4, <3>1, SubSeqProperties
  <2>7. /\ c - 1 \in 0..Len(q) /\ Len(q) - (c - 1) = Len(q) - c + 1 /\ (c - 1) + 1 = c
        /\ \A i \in 1..Len(q) : c + i - 1 = i + (c - 1)
    BY <1>1, <2>4
  <2>8. \A i \in 1..Len(q) - (c - 1) : Fresh(q, now)[i] = q[i + (c - 1)]
    BY <1>1, <2>3, <2>4, <2>6, <2>7
  <2> QED BY <2>3, <2>4, <2>5, <2>6, <2>7, <2>8
<1> QED BY <1>4, <1>5

\* A call that is counted goes to the end of the log and of what is left of the
\* queue; what the queue lost is a window older than the call.
LEMMA CallAdded ==
  ASSUME NEW q \in Seq(0..MaxTime), NEW l \in Seq(Record), NEW k, NEW window \in Nat, NEW f,
         Matches(q, l, k, window, f),
         NEW now \in 0..MaxTime, NEW e \in Record, e.key = k, e.at = now,
         NEW d \in 0..Len(q), NEW r \in Seq(0..MaxTime), Len(r) = Len(q) - d,
         \A i \in 1..Len(q) - d : r[i] = q[i + d],
         \A i \in 1..d : q[i] <= now - window
  PROVE  \E g : Matches(Append(r, now), Append(l, e), k, window, g)
<1> DEFINE M == Len(r)
           N == Len(l)
           s == Append(r, now)
           x == Append(l, e)
           g == [i \in 1..M + 1 |-> IF i = M + 1 THEN N + 1 ELSE f[i + d]]
<1>1. M \in Nat /\ N \in Nat /\ Len(q) = M + d /\ d \in Nat /\ Len(q) - d = M
  BY LenProperties
<1>2. /\ Len(s) = M + 1 /\ s[M + 1] = now /\ \A i \in 1..M : s[i] = r[i]
      /\ Len(x) = N + 1 /\ x[N + 1] = e /\ \A n \in 1..N : x[n] = l[n]
  <2>1. Len(s) = M + 1 /\ s[M + 1] = now /\ \A i \in 1..M : s[i] = r[i]
    BY AppendProperties
  <2>2. Len(x) = N + 1 /\ x[N + 1] = e /\ \A n \in 1..N : x[n] = l[n]
    BY AppendProperties
  <2> QED BY <2>1, <2>2
<1>3. \A i \in 1..M : i + d \in 1..Len(q) /\ r[i] = q[i + d]
  BY <1>1
<1>4. /\ \A i \in 1..Len(q) : f[i] \in 1..N /\ l[f[i]].key = k /\ l[f[i]].at = q[i]
      /\ \A i, j \in 1..Len(q) : i < j => f[i] < f[j]
      /\ \A n \in 1..N : l[n].key = k =>
           \/ \E i \in 1..Len(q) : f[i] = n
           \/ \E m \in 1..N : l[m].key = k /\ l[n].at <= l[m].at - window
  BY DEF Matches
<1> HIDE DEF M, N, s, x
<1>5. /\ g = [i \in 1..M + 1 |-> g[i]]
      /\ g[M + 1] = N + 1 /\ \A i \in 1..M : g[i] = f[i + d]
  BY <1>1
<1> HIDE DEF g
<1>6. ASSUME NEW i \in 1..M
      PROVE  g[i] \in 1..N /\ x[g[i]].key = k /\ x[g[i]].at = s[i]
  <2>1. i + d \in 1..Len(q) /\ g[i] = f[i + d] /\ s[i] = q[i + d]
    BY <1>2, <1>3, <1>5
  <2>2. f[i + d] \in 1..N /\ l[f[i + d]].key = k /\ l[f[i + d]].at = q[i + d]
    BY <1>4, <2>1
  <2>3. x[f[i + d]] = l[f[i + d]]
    BY <1>2, <2>2
  <2> QED BY <2>1, <2>2, <2>3
<1>7. ASSUME NEW i \in 1..M + 1
      PROVE  g[i] \in 1..N + 1 /\ x[g[i]].key = k /\ x[g[i]].at = s[i]
  <2>1. CASE i = M + 1
    BY <1>1, <1>2, <1>5, <2>1, SMTT(30)
  <2>2. CASE i # M + 1
    <3>1. i \in 1..M
      BY <1>1, <2>2
    <3>2. g[i] \in 1..N + 1
      BY <1>1, <1>6, <3>1
    <3> QED BY <1>6, <3>1, <3>2
  <2> QED BY <2>1, <2>2
<1>8. ASSUME NEW i \in 1..M + 1, NEW j \in 1..M + 1, i < j
      PROVE  g[i] < g[j]
  <2>1. i \in 1..M
    BY <1>1, <1>8
  <2>2. CASE j = M + 1
    <3>1. g[i] \in 1..N /\ g[j] = N + 1
      BY <1>5, <1>6, <2>1, <2>2
    <3> QED BY <1>1, <3>1
  <2>3. CASE j # M + 1
    <3>1. j \in 1..M /\ i + d < j + d
      BY <1>1, <1>8, <2>3
    <3> QED BY <1>3, <1>4, <1>5, <2>1, <3>1
  <2> QED BY <2>2, <2>3
<1>9. ASSUME NEW n \in 1..N + 1, x[n].key = k
      PROVE  \/ \E i \in 1..M + 1 : g[i] = n
             \/ \E m \in 1..N + 1 : x[m].key = k /\ x[n].at <= x[m].at - window
  <2>1. CASE n = N + 1
    <3>1. M + 1 \in 1..M + 1
      BY <1>1
    <3> QED BY <1>5, <2>1, <3>1
  <2>2. CASE n # N + 1
    <3>1. n \in 1..N /\ x[n] = l[n] /\ N + 1 \in 1..N + 1 /\ \A m \in 1..N : m \in 1..N + 1
      BY <1>1, <1>2, <2>2
    <3>2. CASE \E m \in 1..N : l[m].key = k /\ l[n].at <= l[m].at - window
      BY <1>2, <3>1, <3>2
    <3>3. ASSUME NEW i \in 1..Len(q), f[i] = n
          PROVE  \/ \E j \in 1..M + 1 : g[j] = n
                 \/ \E m \in 1..N + 1 : x[m].key = k /\ x[n].at <= x[m].at - window
      <4>1. CASE i <= d
        <5>1. i \in 1..d
          BY <1>1, <4>1
        <5>2. l[n].at <= now - window
          BY <1>4, <3>3, <5>1
        <5> QED BY <1>2, <3>1, <5>2
      <4>2. CASE ~(i <= d)
        <5>1. i - d \in 1..M /\ (i - d) + d = i /\ i - d \in 1..M + 1
          BY <1>1, <4>2
        <5>2. g[i - d] = f[(i - d) + d]
          BY <1>5, <5>1, Zenon
        <5>3. g[i - d] = n
          BY <3>3, <5>1, <5>2, Zenon
        <5>4. \E j \in 1..M + 1 : g[j] = n
          <6>1. i - d \in 1..M + 1
            BY <5>1
          <6> WITNESS i - d \in 1..M + 1
          <6> QED BY <5>3
        <5> QED BY <5>4, Zenon
      <4> QED BY <4>1, <4>2
    <3>4. \/ \E i \in 1..Len(q) : f[i] = n
          \/ \E m \in 1..N : l[m].key = k /\ l[n].at <= l[m].at - window
      <4>1. l[n].key = k /\ n \in 1..N
        BY <1>9, <3>1
      <4> QED BY <1>4, <4>1, Zenon
    <3> QED BY <3>2, <3>3, <3>4, Zenon
  <2> QED BY <2>1, <2>2
<1>10. g \in [1..Len(s) -> 1..Len(x)]
  BY <1>2, <1>5, <1>7
<1>11. Matches(s, x, k, window, g)
  BY <1>2, <1>7, <1>8, <1>9, <1>10 DEF Matches
<1> QED BY <1>11 DEF s, x

\* The queues of the other keys match the longer log as well.
LEMMA OtherQueue ==
  ASSUME NEW q, NEW l \in Seq(Record), NEW k, NEW window, NEW f, Matches(q, l, k, window, f),
         NEW e \in Record, e.key # k
  PROVE  Matches(q, Append(l, e), k, window, f)
<1> DEFINE N == Len(l)
           x == Append(l, e)
<1>1. N \in Nat /\ Len(x) = N + 1 /\ x[N + 1] = e /\ \A n \in 1..N : x[n] = l[n]
  BY LenProperties, AppendProperties
<1>2. /\ f \in [1..Len(q) -> 1..N]
      /\ \A i \in 1..Len(q) : l[f[i]].key = k /\ l[f[i]].at = q[i]
      /\ \A i, j \in 1..Len(q) : i < j => f[i] < f[j]
      /\ \A n \in 1..N : l[n].key = k =>
           \/ \E i \in 1..Len(q) : f[i] = n
           \/ \E m \in 1..N : l[m].key = k /\ l[n].at <= l[m].at - window
  BY DEF Matches
<1> HIDE DEF N, x
<1>3. \A n \in 1..N : n \in 1..N + 1
  BY <1>1
<1>4. \A n \in 1..N + 1 : n \in 1..N \/ n = N + 1
  BY <1>1
<1>5. f \in [1..Len(q) -> 1..Len(x)]
  BY <1>1, <1>2, <1>3
<1>6. \A i \in 1..Len(q) : x[f[i]].key = k /\ x[f[i]].at = q[i]
  BY <1>1, <1>2
<1>7. \A n \in 1..Len(x) : x[n].key = k =>
        \/ \E i \in 1..Len(q) : f[i] = n
        \/ \E m \in 1..Len(x) : x[m].key = k /\ x[n].at <= x[m].at - window
  BY <1>1, <1>2, <1>3, <1>4
<1> QED BY <1>2, <1>5, <1>6, <1>7 DEF Matches, x

\* A queue that is in order is inside the window from its first such stamp on.
LEMMA InsideAll ==
  ASSUME NEW q \in Seq(0..MaxTime), NEW l \in Seq(Record), NEW k, NEW window, NEW f,
         Matches(q, l, k, window, f), NEW low \in Int,
         \A m, n \in 1..Len(l) : m < n /\ l[m].key = k /\ l[n].key = k => l[m].at <= l[n].at,
         NEW d \in 0..Len(q), d < Len(q) => q[d + 1] > low,
         NEW i \in d + 1..Len(q)
  PROVE  q[i] > low
<1>1. /\ Len(q) \in Nat /\ \A j \in 1..Len(q) : q[j] \in Int
  <2>1. \A j \in 1..Len(q) : q[j] \in 0..MaxTime
    BY ElementOfSeq
  <2> QED BY <2>1, LenProperties, TimeAssumption
<1>2. i \in 1..Len(q) /\ d + 1 \in 1..Len(q) /\ q[d + 1] > low /\ d + 1 \in Int
  BY <1>1
<1>3. CASE i = d + 1
  BY <1>2, <1>3
<1>4. CASE i # d + 1
  <2>1. d + 1 < i
    BY <1>1, <1>4
  <2>2. f[d + 1] < f[i] /\ f[i] \in 1..Len(l) /\ f[d + 1] \in 1..Len(l)
    BY <1>2, <2>1 DEF Matches
  <2>3. l[f[d + 1]].key = k /\ l[f[i]].key = k /\ l[f[d + 1]].at = q[d + 1] /\ l[f[i]].at = q[i]
    BY <1>2 DEF Matches
  <2>4. q[d + 1] <= q[i]
    BY <2>2, <2>3
  <2> QED BY <1>1, <1>2, <2>4
<1> QED BY <1>3, <1>4

LEMMA RecordedAt ==
  ASSUME log \in Seq(Record)
  PROVE  /\ Len(log) \in Nat /\ DOMAIN log = 1..Len(log)
         /\ \A i \in 1..Len(log) : log[i] \in Record /\ log[i].at \in 0..MaxTime
<1>1. \A i \in 1..Len(log) : log[i] \in Record
  BY ElementOfSeq
<1>2. QED
  BY <1>1, LenProperties DEF Record

\* A step that counts no call keeps what is known of the counting.
LEMMA LimiterKept ==
  ASSUME LimitInv, clock \in 0..MaxTime, clock' \in 0..MaxTime, clock <= clock',
         UNCHANGED <<setup, stamps, log>>,
         \A t \in Threads : call'[t] # NoCall /\ call'[t].pc = "count" => call'[t].at <= clock'
  PROVE  LimitInv'
<1>1. LimitTypes'
  <2>1. \A i \in 1..Len(log') : log'[i].at <= clock'
    BY RecordedAt, TimeAssumption DEF LimitInv, LimitTypes
  <2>2. QED
    BY <2>1 DEF LimitInv, LimitTypes, At
<1>2. QueuesMatch'
  BY DEF LimitInv, QueuesMatch
<1>3. RefusalsExact'
  BY DEF LimitInv, RefusalsExact, InOrder, Counted
<1>4. QED
  BY <1>1, <1>2, <1>3 DEF LimitInv

LEMMA LimitInit ==
  ASSUME Init
  PROVE  LimitInv
<1>1. clock = 0 /\ stamps = [k \in Keys |-> <<>>] /\ log = <<>> /\ call = [t \in Threads |-> NoCall]
  BY DEF Init
<1>2. Len(log) = 0 /\ log \in Seq(Record) /\ DOMAIN log = {} /\ 1..Len(log) = {}
  BY <1>1, EmptySeq, LenProperties
<1>3. LimitTypes
  <2>1. \A k \in Keys : stamps[k] \in Seq(0..MaxTime)
    BY <1>1, EmptySeq
  <2>2. QED
    BY <1>1, <1>2, <2>1 DEF LimitTypes, At
<1>4. QueuesMatch
  <2>1. ASSUME NEW k \in Keys PROVE \E f : Matches(stamps[k], log, k, setup.window, f)
    <3> DEFINE f == [i \in 1..0 |-> 0]
    <3>1. Len(stamps[k]) = 0 /\ 1..0 = {} /\ 1..Len(stamps[k]) = {}
      BY <1>1, EmptySeq
    <3>2. f \in [1..Len(stamps[k]) -> 1..Len(log)]
      BY <3>1
    <3> HIDE DEF f
    <3>3. Matches(stamps[k], log, k, setup.window, f)
      BY <1>2, <3>1, <3>2 DEF Matches
    <3>4. QED
      BY <3>3
  <2>2. QED
    BY <2>1 DEF QueuesMatch
<1>5. RefusalsExact
  BY <1>2 DEF RefusalsExact
<1>6. QED
  BY <1>3, <1>4, <1>5 DEF LimitInv

LEMMA SetupIs ==
  ASSUME setup \in Setups
  PROVE  /\ SetupShape(setup)
         /\ setup.window \in Nat /\ setup.window > 0 /\ setup.max \in Nat
BY SetupAssumption DEF SetupShape

\* A call is counted.
LEMMA CountCounts ==
  ASSUME IInv, LimitInv, NEW t \in Threads, Count(t)
  PROVE  LimitInv'
<1> DEFINE k == call[t].key
           a == call[t].at
           q == stamps[k]
           r == Fresh(q, a)
           s == Append(r, a)
           over == Len(s) > setup.max
           e == [key |-> k, at |-> a, refused |-> over]
           x == Append(log, e)
           w == setup.window
<1>1. /\ call[t] \in Call /\ At(t, "count") /\ call \in [Threads -> Call \cup {NoCall}]
      /\ call[t] # NoCall
  BY Facts DEF IInv, Count, At
<1>2. /\ stamps' = [stamps EXCEPT ![k] = s] /\ log' = x
      /\ setup' = setup /\ clock' = clock
  BY DEF Count, fixed
<1>3. /\ k \in Keys /\ a \in 0..MaxTime /\ a <= clock /\ clock \in 0..MaxTime
      /\ q \in Seq(0..MaxTime) /\ log \in Seq(Record)
      /\ stamps = [j \in Keys |-> stamps[j]]
  <2>1. k \in Keys /\ a \in 0..MaxTime
    BY <1>1 DEF Call
  <2>2. QED
    BY <1>1, <2>1 DEF LimitInv, LimitTypes, IInv, Shapes
<1>4. w \in Nat /\ w > 0 /\ setup.max \in Nat /\ setup.window \in Nat
  BY SetupIs DEF IInv, Shapes
<1>5. \A u \in Threads : call'[u] # NoCall /\ call'[u].pc = "count"
                            => call'[u] = call[u] /\ At(u, "count")
  <2>1. \/ call' = [call EXCEPT ![t] = NoCall]
        \/ call' = [call EXCEPT ![t].pc = AfterLimit]
    BY DEF Count, End, Goes
  <2>2. CASE call' = [call EXCEPT ![t] = NoCall]
    BY <1>1, <2>2 DEF At
  <2>3. CASE call' = [call EXCEPT ![t].pc = AfterLimit]
    <3> DEFINE c == [call[t] EXCEPT !.pc = AfterLimit]
    <3>1. call' = [call EXCEPT ![t] = c] /\ c.pc # "count"
      BY <1>1, <2>3 DEF AfterLimit, Call
    <3> HIDE DEF c
    <3>2. QED
      BY <1>1, <3>1 DEF At
  <2>4. QED
    BY <2>1, <2>2, <2>3
<1> HIDE DEF k, a
<1>6. PICK d \in 0..Len(q) :
        /\ r \in Seq(0..MaxTime)
        /\ Len(r) = Len(q) - d
        /\ \A i \in 1..Len(q) - d : r[i] = q[i + d]
        /\ \A i \in 1..d : q[i] <= a - w
        /\ d < Len(q) => q[d + 1] > a - w
  <2>1. a \in Int
    BY <1>3, TimeAssumption
  <2> HIDE DEF q
  <2>2. QED
    BY <1>3, <1>4, <2>1, FreshIs
<1> HIDE DEF r
<1>7. /\ s \in Seq(0..MaxTime) /\ Len(s) = Len(r) + 1 /\ s[Len(r) + 1] = a
      /\ \A i \in 1..Len(r) : s[i] = r[i]
  BY <1>3, <1>6, AppendProperties
<1>8. e \in Record /\ e.key = k /\ e.at = a /\ (e.refused <=> Len(s) > setup.max)
  <2>1. over \in BOOLEAN /\ (over <=> Len(s) > setup.max)
    OBVIOUS
  <2> HIDE DEF over
  <2>2. QED
    BY <1>3, <2>1 DEF Record
<1> HIDE DEF s, e
<1>9. /\ x \in Seq(Record) /\ Len(x) = Len(log) + 1 /\ x[Len(log) + 1] = e
      /\ \A i \in 1..Len(log) : x[i] = log[i]
  BY <1>3, <1>8, AppendProperties
<1>10. /\ Len(log) \in Nat /\ DOMAIN log = 1..Len(log)
       /\ \A i \in 1..Len(log) : log[i] \in Record /\ log[i].at \in 0..MaxTime
  BY <1>3, RecordedAt
<1>11. \A n \in 1..Len(x) : n \in 1..Len(log) \/ n = Len(log) + 1
  BY <1>9, <1>10
<1> HIDE DEF x, w
<1>12. LimitTypes'
  <2>1. \A i \in 1..Len(x) : x[i].at <= clock
    BY <1>3, <1>8, <1>9, <1>10, <1>11 DEF LimitInv, LimitTypes
  <2>2. \A j \in Keys : stamps'[j] \in Seq(0..MaxTime)
    BY <1>2, <1>3, <1>7 DEF LimitInv, LimitTypes
  <2>3. \A u \in Threads : call'[u] # NoCall /\ call'[u].pc = "count" => call'[u].at <= clock
    BY <1>5 DEF LimitInv, LimitTypes
  <2>4. stamps' = [j \in Keys |-> stamps'[j]]
    BY <1>2, <1>3
  <2>5. QED
    BY <1>2, <1>9, <2>1, <2>2, <2>3, <2>4 DEF LimitTypes, At
<1>13. PICK f : Matches(q, log, k, w, f)
  BY <1>3 DEF LimitInv, QueuesMatch, q, w
<1>14. PICK g : Matches(s, x, k, w, g)
  <2> HIDE DEF q
  <2>1. \E g : Matches(Append(r, a), Append(log, e), k, w, g)
    BY <1>3, <1>4, <1>6, <1>8, <1>13, CallAdded
  <2>2. QED
    BY <2>1 DEF s, x
<1>15. QueuesMatch'
  <2>1. ASSUME NEW j \in Keys PROVE \E h : Matches(stamps'[j], x, j, w, h)
    <3>1. CASE j = k
      <4>1. stamps'[j] = s
        BY <1>2, <1>3, <3>1
      <4>2. QED
        BY <1>14, <3>1, <4>1
    <3>2. CASE j # k
      <4>1. stamps'[j] = stamps[j]
        BY <1>2, <1>3, <3>2
      <4>2. PICK h : Matches(stamps[j], log, j, w, h)
        BY DEF LimitInv, QueuesMatch, w
      <4>3. Matches(stamps[j], Append(log, e), j, w, h)
        BY <1>3, <1>8, <3>2, <4>2, OtherQueue
      <4>4. QED
        BY <4>1, <4>3 DEF x
    <3>3. QED
      BY <3>1, <3>2
  <2>2. QED
    BY <1>2, <2>1 DEF QueuesMatch, w
<1>16. ASSUME \A m, n \in 1..Len(x) : m < n /\ x[m].key = k /\ x[n].key = k => x[m].at <= x[n].at
       PROVE  e.refused <=> Cardinality({n \in 1..Len(x) : x[n].key = k /\ x[n].at > a - w}) > setup.max
  <2>1. \A n \in 1..Len(x) : x[n].key = k => x[n].at <= a
    <3>1. ASSUME NEW n \in 1..Len(x), x[n].key = k PROVE x[n].at <= a
      <4>1. Len(log) + 1 \in 1..Len(x)
        BY <1>9, <1>10
      <4>2. CASE n = Len(log) + 1
        BY <1>3, <1>8, <1>9, <4>2, TimeAssumption
      <4>3. CASE n # Len(log) + 1
        <5>1. n < Len(log) + 1
          BY <1>10, <1>11, <4>3
        <5>2. QED
          BY <1>8, <1>9, <1>16, <3>1, <4>1, <5>1
      <4>4. QED
        BY <4>2, <4>3
    <3>2. QED
      BY <3>1
  <2>2. \A m, n \in 1..Len(log) : m < n /\ log[m].key = k /\ log[n].key = k => log[m].at <= log[n].at
    <3>1. \A n \in 1..Len(log) : n \in 1..Len(x)
      BY <1>9, <1>10
    <3>2. QED
      BY <1>9, <1>16, <3>1
  <2>3. Len(q) \in Nat /\ Len(r) \in Nat /\ d \in Nat /\ a \in Int /\ w \in Int /\ a - w \in Int
    BY <1>3, <1>4, <1>6, LenProperties, TimeAssumption
  <2> HIDE DEF q
  <2>4. ASSUME NEW i \in 1..Len(s) PROVE s[i] > a - w
    <3>1. CASE i = Len(r) + 1
      <4>1. s[i] = a /\ w > 0
        BY <1>4, <1>7, <3>1 DEF w
      <4>2. QED
        BY <2>3, <4>1
    <3>2. CASE i # Len(r) + 1
      <4>1. i \in 1..Len(r) /\ i + d \in d + 1..Len(q) /\ i \in 1..Len(q) - d
        BY <1>6, <1>7, <2>3, <3>2
      <4>2. q[i + d] > a - w
        <5>1. /\ q \in Seq(0..MaxTime) /\ log \in Seq(Record) /\ Matches(q, log, k, w, f)
              /\ d \in 0..Len(q) /\ (d < Len(q) => q[d + 1] > a - w)
          BY <1>3, <1>6, <1>13
        <5>2. a - w \in Int /\ i + d \in d + 1..Len(q)
          BY <2>3, <4>1
        <5>3. QED
          BY <2>2, <5>1, <5>2, InsideAll, ZenonT(30)
      <4>3. QED
        BY <1>6, <1>7, <4>1, <4>2
    <3>3. QED
      BY <1>7, <2>3, <3>1, <3>2
  <2> DEFINE A == {i \in DOMAIN s : s[i] > a - w}
             B == {n \in 1..Len(x) : x[n].key = k /\ x[n].at > a - w}
  <2>5. A = 1..Len(s) /\ Len(s) \in Nat
    <3>1. DOMAIN s = 1..Len(s) /\ Len(s) \in Nat
      BY <1>7, LenProperties
    <3>2. QED
      BY <2>4, <3>1
  <2>6. Cardinality(A) = Cardinality(B)
    <3>1. w \in Nat
      BY <1>4
    <3>2. \A n \in 1..Len(x) : x[n].key = k => x[n].at <= a
      BY <2>1
    <3>3. Cardinality(StampsAfter(s, a - w)) = Cardinality(CallsAfter(x, k, a - w))
      BY <1>7, <1>9, <1>14, <2>3, <3>1, <3>2, QueueCounts
    <3>4. QED
      BY <3>3 DEF StampsAfter, CallsAfter
  <2> HIDE DEF A, B
  <2>7. Cardinality(A) = Len(s)
    BY <2>5, CountTo
  <2>8. e.refused <=> Cardinality(B) > setup.max
    BY <1>8, <2>6, <2>7
  <2>9. QED
    BY <2>8 DEF B
<1>17. RefusalsExact'
  <2>1. ASSUME NEW i \in 1..Len(x),
               \A m, n \in 1..i : m < n /\ x[m].key = x[i].key /\ x[n].key = x[i].key
                                   => x[m].at <= x[n].at
        PROVE  x[i].refused
                 <=> Cardinality({n \in 1..i : x[n].key = x[i].key /\ x[n].at > x[i].at - w}) > setup.max
    <3>1. CASE i = Len(log) + 1
      <4>1. x[i] = e /\ i = Len(x)
        BY <1>9, <3>1
      <4>2. QED
        BY <1>8, <1>16, <2>1, <4>1
    <3>2. CASE i # Len(log) + 1
      <4>1. i \in 1..Len(log) /\ x[i] = log[i] /\ \A n \in 1..i : n \in 1..Len(log) /\ x[n] = log[n]
        BY <1>9, <1>10, <1>11, <3>2
      <4>2. InOrder(log[i].key, i)
        BY <2>1, <4>1 DEF InOrder
      <4>3. Counted(log[i].key, i, log[i].at)
              = {n \in 1..i : x[n].key = x[i].key /\ x[n].at > x[i].at - w}
        BY <4>1 DEF Counted, w
      <4>4. log[i].refused <=> Cardinality(Counted(log[i].key, i, log[i].at)) > setup.max
        BY <1>10, <4>1, <4>2 DEF LimitInv, RefusalsExact
      <4>5. QED
        BY <4>1, <4>3, <4>4
    <3>3. QED
      BY <3>1, <3>2
  <2>2. DOMAIN x = 1..Len(x)
    BY <1>9, LenProperties
  <2>3. \A i \in DOMAIN log' :
          (\A m, n \in 1..i : m < n /\ log'[m].key = log'[i].key /\ log'[n].key = log'[i].key
                               => log'[m].at <= log'[n].at)
          => (log'[i].refused
                <=> Cardinality({n \in 1..i : /\ log'[n].key = log'[i].key
                                              /\ log'[n].at > log'[i].at - setup'.window}) > setup'.max)
    BY <1>2, <2>1, <2>2 DEF w
  <2>4. QED
    BY <2>3 DEF RefusalsExact, InOrder, Counted
<1>18. QED
  BY <1>12, <1>15, <1>17 DEF LimitInv

\* A step that moves one call, to a place where no clock was just read.
LEMMA OneCallMoves ==
  ASSUME IInv, LimitInv, NEW t \in Threads, NEW c, call' = [call EXCEPT ![t] = c],
         c # NoCall => c.pc # "count", UNCHANGED <<setup, clock, stamps, log>>
  PROVE  LimitInv'
<1>1. call \in [Threads -> Call \cup {NoCall}] /\ clock \in 0..MaxTime /\ clock \in Int
  BY TimeAssumption DEF IInv, Shapes
<1>2. \A u \in Threads : call'[u] # NoCall /\ call'[u].pc = "count" => call'[u].at <= clock'
  BY <1>1 DEF LimitInv, LimitTypes, At
<1>3. QED
  BY <1>1, <1>2, LimiterKept

\* A step inside a container leaves the other threads' calls alone.
LEMMA InsideMoves ==
  ASSUME IInv, LimitInv, NEW t \in Threads, call[t] # NoCall, call[t].pc = "work",
         call' = call \/ Delivered(t), UNCHANGED <<setup, clock, stamps, log>>
  PROVE  LimitInv'
<1>1. clock \in 0..MaxTime /\ clock \in Int
  BY TimeAssumption DEF IInv, Shapes
<1>2. \A u \in Threads : call'[u] # NoCall /\ call'[u].pc = "count" => call'[u].at <= clock'
  <2>1. CASE call' = call
    BY <2>1 DEF LimitInv, LimitTypes, At
  <2>2. CASE Delivered(t)
    BY <2>2 DEF Delivered, LimitInv, LimitTypes, At
  <2>3. QED
    BY <2>1, <2>2
<1>3. QED
  BY <1>1, <1>2, LimiterKept

\* The steps of a policy's loop change a frame only, or deliver.
LEMMA LoopDelivers ==
  ASSUME IInv, NEW t \in Threads, Load(t) \/ StoreUp(t) \/ NextKey(t) \/ StoreDown(t)
  PROVE  call[t] # NoCall /\ call[t].pc = "work" /\ (call' = call \/ Delivered(t))
<1>1. frames[t] # <<>>
  BY DEF Load, StoreUp, NextKey, StoreDown, InFrame
<1>2. call[t] # NoCall /\ call[t].pc = "work" /\ call[t].todo # <<>>
  BY <1>1 DEF IInv, Shapes, At
<1>3. PICK F : frames[t] \in Seq(F) /\ \A f \in F : FrameShape(f)
  BY DEF IInv, Shapes, FrameShapes
<1>4. FrameShape(Last(frames[t])) /\ Front(frames[t]) \in Seq(F)
  BY <1>1, <1>3, TopFrame
<1>5. CASE Load(t) \/ StoreUp(t)
  BY <1>2, <1>5 DEF Load, StoreUp
<1>6. CASE NextKey(t)
  <2>1. call' = call \/ \E k : Get(t, k)
    BY <1>6 DEF NextKey
  <2>2. QED
    BY <1>2, <2>1, Getting DEF IInv
<1>7. CASE StoreDown(t)
  <2>1. Deliver(t, Front(frames[t]), Last(frames[t]).root, Last(frames[t]).result)
    BY <1>7 DEF StoreDown
  <2>2. Last(frames[t]).result \in {"ok", "failed"}
    BY <1>4 DEF FrameShape
  <2>3. QED
    BY <1>2, <1>3, <1>4, <2>1, <2>2, Delivering DEF IInv
<1>8. QED
  BY <1>5, <1>6, <1>7

LEMMA LimitStep ==
  ASSUME IInv, LimitInv, NEW t \in Threads, Step(t)
  PROVE  LimitInv'
<1>1. CASE CheckHit(t)
  <2>1. call[t] # NoCall /\ call[t] \in Call /\ call \in [Threads -> Call \cup {NoCall}]
    BY <1>1, Facts DEF CheckHit, At, IInv
  <2>2. PICK p \in {AfterLimit, "stamp"} : call' = [call EXCEPT ![t].pc = p]
    BY <1>1 DEF CheckHit, Goes
  <2> DEFINE c == [call[t] EXCEPT !.pc = p]
  <2>3. call' = [call EXCEPT ![t] = c] /\ c.pc # "count"
    BY <2>1, <2>2 DEF AfterLimit, Call
  <2>4. UNCHANGED <<setup, clock, stamps, log>>
    BY <1>1 DEF CheckHit, fixed, limiter
  <2> HIDE DEF c
  <2>5. QED
    BY <2>3, <2>4, OneCallMoves
<1>2. CASE ReadClock(t)
  <2>1. call[t] # NoCall /\ call[t] \in Call /\ call \in [Threads -> Call \cup {NoCall}]
    BY <1>2, Facts DEF ReadClock, At, IInv
  <2> DEFINE c == [call[t] EXCEPT !.pc = "count", !.at = clock]
  <2>2. call' = [call EXCEPT ![t] = c] /\ c.at = clock
    BY <1>2, <2>1 DEF ReadClock, Call
  <2>3. UNCHANGED <<setup, clock, stamps, log>> /\ clock \in 0..MaxTime /\ clock \in Int
    BY <1>2, TimeAssumption DEF ReadClock, fixed, limiter, IInv, Shapes
  <2> HIDE DEF c
  <2>4. \A u \in Threads : call'[u] # NoCall /\ call'[u].pc = "count" => call'[u].at <= clock'
    BY <2>1, <2>2, <2>3 DEF LimitInv, LimitTypes, At
  <2>5. QED
    BY <2>3, <2>4, LimiterKept
<1>3. CASE Count(t)
  BY <1>3, CountCounts
<1>4. CASE CheckGuard(t)
  <2>1. call[t] # NoCall /\ call[t] \in Call /\ call \in [Threads -> Call \cup {NoCall}]
    BY <1>4, Facts DEF CheckGuard, At, IInv
  <2>2. UNCHANGED <<setup, clock, stamps, log>>
    BY <1>4 DEF CheckGuard, fixed, limiter
  <2>3. call' = [call EXCEPT ![t] = NoCall] \/ call' = [call EXCEPT ![t].pc = "mark"]
    BY <1>4 DEF CheckGuard, End, Goes
  <2> DEFINE c == [call[t] EXCEPT !.pc = "mark"]
  <2>4. call' = [call EXCEPT ![t] = NoCall] \/ call' = [call EXCEPT ![t] = c]
    BY <2>1, <2>3
  <2>5. c.pc # "count"
    BY <2>1 DEF Call
  <2> HIDE DEF c
  <2>6. QED
    BY <2>2, <2>4, <2>5, OneCallMoves
<1>5. CASE Mark(t)
  <2>1. call[t] # NoCall /\ call[t] \in Call /\ call \in [Threads -> Call \cup {NoCall}]
    BY <1>5, Facts DEF Mark, At, IInv
  <2> DEFINE s == setup.before[call[t].key] \o <<call[t].key>> \o setup.after[call[t].key]
                    \o setup.nested[call[t].key]
             c == [call[t] EXCEPT !.pc = "work", !.todo = s]
  <2>2. /\ call' = [call EXCEPT ![t] = c]
        /\ UNCHANGED <<setup, clock, stamps, log>>
    BY <1>5, <2>1 DEF Mark, fixed, limiter
  <2> HIDE DEF s
  <2>3. c.pc # "count"
    BY <2>1 DEF Call
  <2> HIDE DEF c
  <2>4. QED
    BY <2>2, <2>3, OneCallMoves
<1>6. CASE Invalid(t)
  <2>1. call[t] # NoCall /\ call[t] \in Call /\ call[t].pc = "work"
        /\ call \in [Threads -> Call \cup {NoCall}]
    BY <1>6, Facts DEF Invalid, At, IInv
  <2> DEFINE c == [call[t] EXCEPT !.result = "failed"]
  <2>2. /\ call' = [call EXCEPT ![t] = c] /\ c.pc # "count"
        /\ UNCHANGED <<setup, clock, stamps, log>>
    BY <1>6, <2>1 DEF Invalid, fixed, limiter, Call
  <2> HIDE DEF c
  <2>3. QED
    BY <2>2, OneCallMoves
<1>7. CASE Leave(t)
  <2>1. call' = [call EXCEPT ![t] = NoCall] /\ UNCHANGED <<setup, clock, stamps, log>>
    BY <1>7 DEF Leave, End, fixed, limiter
  <2>2. QED
    BY <2>1, OneCallMoves
<1>8. CASE Work(t)
  <2>1. /\ call[t] # NoCall /\ call[t].pc = "work" /\ call[t].todo # <<>>
        /\ \E k : Get(t, k)
        /\ UNCHANGED <<setup, clock, stamps, log>>
    BY <1>8 DEF Work, At, fixed, limiter
  <2>2. QED
    BY <2>1, Getting, InsideMoves DEF IInv
<1>9. CASE Load(t) \/ StoreUp(t) \/ NextKey(t) \/ StoreDown(t)
  <2>1. UNCHANGED <<setup, clock, stamps, log>>
    BY <1>9 DEF Load, StoreUp, NextKey, StoreDown, fixed, limiter
  <2>2. QED
    BY <1>9, <2>1, LoopDelivers, InsideMoves
<1>10. QED
  BY <1>1, <1>2, <1>3, <1>4, <1>5, <1>6, <1>7, <1>8, <1>9 DEF Step

LEMMA LimitNext ==
  ASSUME IInv, LimitInv, [Next]_vars
  PROVE  LimitInv'
<1>1. /\ clock \in 0..MaxTime /\ clock \in Int
      /\ \A t \in Threads : call[t] # NoCall /\ call[t].pc = "count" => call[t].at <= clock
      /\ \A t \in Threads : call[t] # NoCall => call[t].at \in Int
  BY TimeAssumption, Facts DEF IInv, Shapes, LimitInv, LimitTypes, At, Call
<1>2. CASE Tick
  <2>1. UNCHANGED <<setup, stamps, log, call>> /\ clock' = clock + 1 /\ clock' \in 0..MaxTime
    BY <1>1, <1>2, TimeAssumption DEF Tick, fixed
  <2>2. \A t \in Threads : call'[t] # NoCall /\ call'[t].pc = "count" => call'[t].at <= clock'
    BY <1>1, <2>1
  <2>3. QED
    BY <1>1, <2>1, <2>2, LimiterKept
<1>3. CASE \E t \in Threads : Step(t)
  BY <1>3, LimitStep
<1>4. ASSUME NEW t \in Threads, NEW k \in Keys, Enter(t, k)
      PROVE  LimitInv'
  <2> DEFINE c == [pc |-> IF "limit" \in setup.layers THEN "hit" ELSE AfterLimit,
                   key |-> k, at |-> 0, todo |-> <<k>>, result |-> "ok"]
  <2>1. call' = [call EXCEPT ![t] = c] /\ c.pc # "count" /\ UNCHANGED <<setup, clock, stamps, log>>
    BY <1>4 DEF Enter, fixed, limiter, AfterLimit
  <2> HIDE DEF c
  <2>2. QED
    BY <2>1, OneCallMoves
<1>5. CASE UNCHANGED vars
  <2>1. UNCHANGED <<setup, clock, stamps, log, call>>
    BY <1>5 DEF vars
  <2>2. QED
    BY <1>1, <2>1, LimiterKept
<1>6. QED
  BY <1>2, <1>3, <1>4, <1>5 DEF Next

\* The limiter's report is the number of calls counted in the last window, in
\* whatever order their stamps came into the queue; and as long as they came in
\* order a call is refused exactly if it is one too many in the window it ends.
THEOREM WindowStaysExact == Spec => []WindowExact
<1>1. Init => LimitInv
  BY LimitInit
<1>2. IInv /\ LimitInv /\ [Next]_vars => LimitInv'
  BY LimitNext
<1>3. IInv /\ LimitInv => WindowExact
  <2> SUFFICES ASSUME IInv, LimitInv PROVE WindowExact
    OBVIOUS
  <2>1. ASSUME NEW k \in Keys
        PROVE  UsageReport(k) = Cardinality(Counted(k, Len(log), clock))
    <3>1. PICK f : Matches(stamps[k], log, k, setup.window, f)
      BY DEF LimitInv, QueuesMatch
    <3>2. /\ stamps[k] \in Seq(0..MaxTime) /\ log \in Seq(Record)
          /\ setup.window \in Nat /\ clock \in Int
          /\ \A n \in 1..Len(log) : log[n].key = k => log[n].at <= clock
      BY SetupIs, TimeAssumption DEF LimitInv, LimitTypes, IInv, Shapes
    <3>3. Cardinality(StampsAfter(stamps[k], clock - setup.window))
            = Cardinality(CallsAfter(log, k, clock - setup.window))
      BY <3>1, <3>2, QueueCounts
    <3>4. QED
      BY <3>3 DEF StampsAfter, CallsAfter, UsageReport, Counted
  <2>2. QED
    BY <2>1 DEF WindowExact, LimitInv, RefusalsExact
<1>4. QED
  BY <1>1, <1>2, <1>3, GuardInvariance, PTL DEF Spec

-----------------------------------------------------------------------------
(* The policy *)

LEMMA SetupGraph ==
  ASSUME setup \in Setups
  PROVE  IsGraph(setup.deps, Keys)
BY SetupIs, KeysAssumption DEF SetupShape, IsGraph

\* A key is below itself, whatever it is.
LEMMA BelowItself ==
  ASSUME setup \in Setups, NEW k
  PROVE  k \in BelowOf(k)
<1> DEFINE N == Cardinality(Keys)
           g == setup.deps
           C == CHOOSE h : h = [n \in 0..N |-> IF n = 0 THEN {k}
                                  ELSE UNION {{j} \cup Needs(g, j) : j \in h[n - 1]}]
           U == Keys \cup {k}
           Q == {S \in SUBSET U : k \in S}
           a == {k}
           F == [n \in 1..N |-> [S \in Q |-> Grown(g, S)]]
<1>1. N \in Nat
  BY KeysAssumption, FS_CardinalityType
<1>2. BelowOf(k) = C[N]
  BY DEF BelowOf, Below
<1>3. \A j : Needs(g, j) \subseteq Keys
  BY SetupGraph, DepsAre
<1> HIDE DEF N, g
<1>4. \A S \in Q : Grown(g, S) \in Q
  BY <1>3 DEF Grown
<1>5. a \in Q /\ F \in [1..N -> [Q -> Q]]
  BY <1>4
<1>6. \A n \in 1..N, S \in Q : F[n][S] = Grown(g, S)
  OBVIOUS
<1>7. \A S \in Q : k \in S
  OBVIOUS
<1> HIDE DEF F, Q, a, U
<1>8. PICK f : Runs(Q, a, N, F, f)
  BY <1>1, <1>5, Iterated
<1>9. \A n \in 0..N : n # 0 => n \in 1..N /\ n - 1 \in 0..N
  BY <1>1
<1>10. f = [n \in 0..N |-> f[n]] /\ f[0] = {k}
  BY <1>8 DEF Runs, a
<1>11. \A n \in 1..N : f[n] = Grown(g, f[n - 1])
  BY <1>6, <1>8, <1>9 DEF Runs
<1>12. f = [n \in 0..N |-> IF n = 0 THEN {k} ELSE UNION {{j} \cup Needs(g, j) : j \in f[n - 1]}]
  BY <1>9, <1>10, <1>11 DEF Grown
<1>13. C = [n \in 0..N |-> IF n = 0 THEN {k} ELSE UNION {{j} \cup Needs(g, j) : j \in C[n - 1]}]
  BY <1>12
<1> HIDE DEF C
<1>14. C[0] = {k} /\ \A n \in 1..N : k \in C[n - 1] => k \in C[n]
  <2>1. 0 \in 0..N /\ \A n \in 1..N : n \in 0..N /\ n # 0
    BY <1>1
  <2>2. C[0] = {k}
    BY <1>13, <2>1
  <2>3. \A n \in 1..N : C[n] = UNION {{j} \cup Needs(g, j) : j \in C[n - 1]}
    BY <1>13, <2>1
  <2>4. QED
    BY <2>2, <2>3
<1> DEFINE G == {n \in 0..N : k \in C[n]}
<1>15. 0 \in G
  BY <1>1, <1>14
<1>16. \A n \in 1..N : n - 1 \in G => n \in G
  BY <1>1, <1>14
<1> HIDE DEF G
<1>17. \A n \in 0..N : n \in G
  BY <1>1, <1>15, <1>16, UpTo
<1>18. QED
  BY <1>1, <1>2, <1>17 DEF G

\* What a build leaves: no singleton is lost, and after a build that went well the
\* key itself is there.
LEMMA Built ==
  ASSUME setup \in Setups, NEW k, NEW o \in Outcomes(k)
  PROVE  /\ single \subseteq o.single
         /\ o.result \in {"ok", "failed"}
         /\ o.result = "ok" /\ k \in setup.singletons => k \in o.single
<1>1. k \in BelowOf(k)
  BY BelowItself
<1>2. QED
  BY <1>1 DEF Outcomes, Building

\* What holds of a policy's loop, when S are the singletons built: what it has
\* resolved is built, and if it is over and went well all its order is.
OrderBuilt(k, S) == setup.singletons \cap UNION ToSet(order[k]) \subseteq S
FrameSound(f, S) ==
  /\ f.left = order[f.root]
  /\ f.cache \cap setup.singletons \subseteq S
  /\ f.pc \in {"unload", "unstore"} /\ f.result = "ok" =>
       f.root \in f.cache /\ OrderBuilt(f.root, S)
FramesSound == \A t \in Threads : \A i \in 1..Len(frames[t]) : FrameSound(frames[t][i], single)
\* The outermost loop is for the first of the keys that a call has left which
\* went well so far.
LoopServesCall ==
  \A t \in Threads : frames[t] # <<>> =>
    frames[t][1].root = Head(call[t].todo) /\ call[t].result = "ok"

\* Unless threads changed the depth at the same time, no loop is inside another,
\* and the depth counts the threads whose loop has raised it.
Raised(t) == frames[t] # <<>> /\ Last(frames[t]).pc \in {"keys", "unload", "unstore"}
Up == {t \in Threads : Raised(t)}
DepthExact ==
  ~raced => /\ \A t \in Threads : Len(frames[t]) <= 1
            /\ IsFiniteSet(Up)
            /\ depth = Cardinality(Up)

\* A call on its own still has its key to resolve, or its order is built.
CallCovered(t) ==
  call[t] # NoCall /\ call[t].result = "ok" /\ met[t] = {} /\ ~raced
    => call[t].key \in ToSet(call[t].todo) \/ OrderBuilt(call[t].key, single)
CallsCovered == \A t \in Threads : CallCovered(t)
NoPolicyOrder == setup.policy = "none" => \A k \in Keys : order[k] = <<{k}>>

PolicyInv ==
  /\ FramesSound /\ LoopServesCall /\ DepthExact
  /\ CallsCovered /\ NoPolicyOrder /\ PolicyHonoured

LEMMA PolicyInit ==
  ASSUME Init
  PROVE  PolicyInv
<1>1. /\ order = [k \in Keys |-> Batches(setup.policy, setup.deps, setup.listed, k)]
      /\ frames = [t \in Threads |-> <<>>] /\ call = [t \in Threads |-> NoCall]
      /\ depth = 0 /\ \A t \in Threads : last[t].result = "none"
  BY DEF Init
<1>2. FramesSound /\ LoopServesCall
  BY <1>1 DEF FramesSound, LoopServesCall
<1>3. DepthExact
  <2>1. Up = {}
    BY <1>1 DEF Up, Raised
  <2>2. \A t \in Threads : Len(frames[t]) <= 1
    BY <1>1
  <2>3. QED
    BY <1>1, <2>1, <2>2, FS_EmptySet DEF DepthExact
<1>4. CallsCovered
  BY <1>1 DEF CallsCovered, CallCovered
<1>5. NoPolicyOrder
  BY <1>1 DEF NoPolicyOrder, Batches
<1>6. PolicyHonoured
  BY <1>1 DEF PolicyHonoured
<1>7. QED
  BY <1>2, <1>3, <1>4, <1>5, <1>6 DEF PolicyInv

\* A step outside the containers keeps what is known of the loops.
LEMMA OutsideKeeps ==
  ASSUME PolicyInv, UNCHANGED <<setup, order, single, depth, frames, raced>>,
         \A t \in Threads : frames[t] # <<>> => call'[t] = call[t],
         CallsCovered', PolicyHonoured'
  PROVE  PolicyInv'
<1>1. FramesSound' /\ LoopServesCall'
  BY DEF PolicyInv, FramesSound, LoopServesCall, FrameSound, OrderBuilt
<1>2. DepthExact'
  BY DEF PolicyInv, DepthExact, Up, Raised
<1>3. NoPolicyOrder'
  BY DEF PolicyInv, NoPolicyOrder
<1>4. QED
  BY <1>1, <1>2, <1>3 DEF PolicyInv

\* What has been kept so far is kept by a step that builds singletons.
LEMMA HonouredKept ==
  ASSUME PolicyInv, UNCHANGED <<setup, order, last>>, single \subseteq single', raced => raced'
  PROVE  PolicyHonoured' /\ NoPolicyOrder'
BY DEF PolicyInv, PolicyHonoured, NoPolicyOrder

LEMMA CoveredKept ==
  ASSUME PolicyInv, UNCHANGED <<setup, order>>, single \subseteq single', raced => raced',
         NEW t \in Threads, call'[t] = call[t], met'[t] = {} => met[t] = {}
  PROVE  CallCovered(t)'
BY DEF PolicyInv, CallsCovered, CallCovered, OrderBuilt

-----------------------------------------------------------------------------
(* Steps outside the containers *)

\* A call that moves on, or ends, without having done anything.
LEMMA CallKeepsPolicy ==
  ASSUME IInv, PolicyInv, NEW t \in Threads, frames[t] = <<>>, call[t] # NoCall,
         UNCHANGED <<setup, order, single, depth, frames, raced, met>>,
         \/ /\ call' = [call EXCEPT ![t] = NoCall]
            /\ \E r : /\ last' = [last EXCEPT ![t] = [key |-> call[t].key, result |-> r, met |-> met[t]]]
                      /\ r = "ok" => call[t].result = "ok" /\ call[t].todo = <<>>
         \/ /\ last' = last
            /\ \E c : /\ call' = [call EXCEPT ![t] = c]
                      /\ c # NoCall => /\ c.key = call[t].key
                                       /\ c.result = "ok" => call[t].result = "ok"
                                       /\ \/ c.key \in ToSet(c.todo)
                                          \/ c.todo = call[t].todo
  PROVE  PolicyInv'
<1>1. call \in [Threads -> Call \cup {NoCall}] /\ last = [u \in Threads |-> last[u]]
  BY DEF IInv, Shapes
<1>2. \A u \in Threads : u # t => CallCovered(u)'
  <2>1. \A u \in Threads : u # t => call'[u] = call[u]
    BY <1>1
  <2>2. QED
    BY <2>1, CoveredKept
<1>3. CallCovered(t)
  BY DEF PolicyInv, CallsCovered
<1>4. \A u \in Threads : frames[u] # <<>> => call'[u] = call[u]
  BY <1>1
<1>5. CASE call' = [call EXCEPT ![t] = NoCall]
           /\ \E r : /\ last' = [last EXCEPT ![t] = [key |-> call[t].key, result |-> r, met |-> met[t]]]
                     /\ r = "ok" => call[t].result = "ok" /\ call[t].todo = <<>>
  <2>1. CallCovered(t)'
    BY <1>1, <1>5 DEF CallCovered
  <2>2. CallsCovered'
    BY <1>2, <2>1 DEF CallsCovered
  <2>3. PICK r : /\ last' = [last EXCEPT ![t] = [key |-> call[t].key, result |-> r, met |-> met[t]]]
                 /\ r = "ok" => call[t].result = "ok" /\ call[t].todo = <<>>
    BY <1>5
  <2>4. r = "ok" /\ met[t] = {} /\ ~raced => OrderBuilt(call[t].key, single)
    <3>1. ToSet(<<>>) = {}
      BY DEF ToSet
    <3>2. QED
      BY <1>3, <2>3, <3>1 DEF CallCovered
  <2>5. PolicyHonoured'
    <3>1. ASSUME NEW u \in Threads, last'[u].result = "ok", last'[u].met = {}, ~raced
          PROVE  setup.singletons \cap UNION ToSet(order[last'[u].key]) \subseteq single
      <4>1. CASE u = t
        BY <1>1, <2>3, <2>4, <3>1, <4>1 DEF OrderBuilt
      <4>2. CASE u # t
        BY <1>1, <2>3, <3>1, <4>2 DEF PolicyInv, PolicyHonoured
      <4>3. QED
        BY <4>1, <4>2
    <3>2. QED
      BY <3>1 DEF PolicyHonoured
  <2>6. QED
    BY <1>4, <2>2, <2>5, OutsideKeeps
<1>6. CASE /\ last' = last
           /\ \E c : /\ call' = [call EXCEPT ![t] = c]
                     /\ c # NoCall => /\ c.key = call[t].key
                                      /\ c.result = "ok" => call[t].result = "ok"
                                      /\ \/ c.key \in ToSet(c.todo)
                                         \/ c.todo = call[t].todo
  <2>1. CallCovered(t)'
    BY <1>1, <1>3, <1>6 DEF CallCovered, OrderBuilt
  <2>2. CallsCovered'
    BY <1>2, <2>1 DEF CallsCovered
  <2>3. PolicyHonoured'
    BY <1>6, HonouredKept
  <2>4. QED
    BY <1>4, <2>2, <2>3, OutsideKeeps
<1>7. QED
  BY <1>5, <1>6

-----------------------------------------------------------------------------
(* Steps inside a container *)

LEMMA TopOf ==
  ASSUME NEW x, Len(x) # 0
  PROVE  x # <<>> /\ Last(x) = x[Len(x)]
<1>1. Len(<<>>) = 0
  BY EmptySeq
<1>2. x # <<>>
  BY <1>1
<1>3. QED
  BY <1>2 DEF Last

LEMMA Pushed ==
  ASSUME NEW F, NEW s \in Seq(F), NEW g, NEW x, x = Append(s, g)
  PROVE  /\ Len(s) \in Nat /\ Len(x) = Len(s) + 1 /\ x[Len(s) + 1] = g
         /\ \A i \in 1..Len(s) : x[i] = s[i]
<1>1. s \in Seq(F \cup {g}) /\ g \in F \cup {g}
  BY SeqMonotonic
<1>2. Len(s) \in Nat
  BY LenProperties
<1>3. QED
  BY <1>1, <1>2, AppendProperties

LEMMA Replaced ==
  ASSUME NEW F, NEW s \in Seq(F), s # <<>>, NEW g, NEW x, x = Append(Front(s), g)
  PROVE  /\ Len(s) \in Nat \ {0} /\ Last(s) = s[Len(s)] /\ Last(s) \in F
         /\ Front(s) \in Seq(F) /\ Len(Front(s)) = Len(s) - 1
         /\ \A i \in 1..Len(s) : i # Len(s) => Front(s)[i] = s[i]
         /\ Len(x) = Len(s) /\ x[Len(s)] = g
         /\ \A i \in 1..Len(s) : i # Len(s) => x[i] = s[i]
<1> DEFINE r == Front(s)
<1>1. Len(s) \in Nat \ {0} /\ Last(s) = s[Len(s)] /\ Last(s) \in F
  BY EmptySeq, TopFrame DEF Last
<1>2. r \in Seq(F) /\ Len(r) = Len(s) - 1 /\ \A i \in 1..Len(s) - 1 : r[i] = s[i]
  <2>1. \A i \in 1..Len(s) - 1 : s[i] \in F
    BY <1>1, ElementOfSeq
  <2>2. /\ SubSeq(s, 1, Len(s) - 1) \in Seq(F)
        /\ Len(SubSeq(s, 1, Len(s) - 1)) = IF 1 <= Len(s) - 1 THEN (Len(s) - 1) - 1 + 1 ELSE 0
        /\ \A i \in 1..(Len(s) - 1) - 1 + 1 : SubSeq(s, 1, Len(s) - 1)[i] = s[1 + i - 1]
    BY <1>1, <2>1, SubSeqProperties
  <2>3. r = SubSeq(s, 1, Len(s) - 1)
    BY DEF Front
  <2> HIDE DEF r
  <2>4. r \in Seq(F) /\ Len(r) = Len(s) - 1
    <3>1. r \in Seq(F)
      BY <2>2, <2>3
    <3>2. Len(r) = IF 1 <= Len(s) - 1 THEN (Len(s) - 1) - 1 + 1 ELSE 0
      BY <2>2, <2>3
    <3>3. Len(s) \in Nat \ {0}
      BY <1>1
    <3>4. \A n \in Nat \ {0} : (IF 1 <= n - 1 THEN (n - 1) - 1 + 1 ELSE 0) = n - 1
      OBVIOUS
    <3>5. QED
      BY <3>1, <3>2, <3>3, <3>4
  <2>5. ASSUME NEW i \in 1..Len(s) - 1 PROVE r[i] = s[i]
    <3>1. i \in 1..(Len(s) - 1) - 1 + 1 /\ 1 + i - 1 = i
      BY <1>1
    <3>2. QED
      BY <2>2, <2>3, <3>1
  <2>6. QED
    BY <2>4, <2>5
<1> HIDE DEF r
<1>3. /\ Len(x) = Len(r) + 1
      /\ x[Len(r) + 1] = g
      /\ \A i \in 1..Len(r) : x[i] = r[i]
  <2>1. x = Append(r, g)
    BY DEF r
  <2>2. QED
    BY <1>2, <2>1, Pushed
<1>4. Len(r) + 1 = Len(s) /\ \A i \in 1..Len(s) : i # Len(s) => i \in 1..Len(r) /\ i \in 1..Len(s) - 1
  BY <1>1, <1>2
<1>5. /\ Len(x) = Len(s) /\ x[Len(s)] = g
      /\ \A i \in 1..Len(s) : i # Len(s) => x[i] = s[i]
      /\ \A i \in 1..Len(s) : i # Len(s) => r[i] = s[i]
  BY <1>2, <1>3, <1>4
<1>6. QED
  BY <1>1, <1>2, <1>3, <1>5 DEF r

\* What a result does to the loops of the thread it goes to: it is added to what
\* the innermost one has, or ends it.
Given(s, fs, S) ==
  /\ Len(s) = Len(fs) /\ (s = <<>> <=> fs = <<>>)
  /\ \A i \in 1..Len(s) : FrameSound(s[i], S)
  /\ fs # <<>> => /\ s[1].root = fs[1].root
                  /\ Last(s).pc \in {Last(fs).pc, "unload"}
LEMMA LoopGiven ==
  ASSUME NEW t \in Threads, NEW F, NEW fs \in Seq(F), \A f \in F : FrameShape(f),
         NEW S, \A i \in 1..Len(fs) : FrameSound(fs[i], S),
         NEW k, NEW r, r = "ok" /\ k \in setup.singletons => k \in S,
         Deliver(t, fs, k, r), frames = [u \in Threads |-> frames[u]]
  PROVE  /\ frames' = [frames EXCEPT ![t] = frames'[t]]
         /\ Given(frames'[t], fs, S)
         /\ fs # <<>> => call' = call
<1>1. CASE fs = <<>>
  BY <1>1 DEF Deliver, Given
<1>2. CASE fs # <<>>
  <2> DEFINE f == Last(fs)
             g == IF r = "ok" THEN [f EXCEPT !.cache = @ \cup {k}]
                  ELSE [f EXCEPT !.pc = "unload", !.result = "failed"]
             s == Append(Front(fs), g)
  <2>1. call' = call /\ frames' = [frames EXCEPT ![t] = s]
    BY <1>2 DEF Deliver
  <2>2. /\ Len(fs) \in Nat \ {0} /\ f = fs[Len(fs)] /\ f \in F /\ Len(s) = Len(fs)
        /\ s[Len(fs)] = g /\ \A i \in 1..Len(fs) : i # Len(fs) => s[i] = fs[i]
    <3> HIDE DEF g
    <3>1. s = Append(Front(fs), g)
      OBVIOUS
    <3> HIDE DEF s
    <3>2. Len(fs) \in Nat \ {0} /\ Last(fs) = fs[Len(fs)] /\ Last(fs) \in F
      BY <1>2, <3>1, Replaced
    <3>3. Len(s) = Len(fs) /\ s[Len(fs)] = g
      BY <1>2, <3>1, Replaced
    <3>4. \A i \in 1..Len(fs) : i # Len(fs) => s[i] = fs[i]
      BY <1>2, <3>1, Replaced
    <3>5. QED
      BY <3>2, <3>3, <3>4
  <2>3. FrameShape(f) /\ FrameSound(f, S)
    <3>1. Len(fs) \in 1..Len(fs)
      BY <2>2
    <3>2. QED
      BY <2>2, <3>1
  <2>4. /\ FrameSound(g, S) /\ g.root = f.root /\ g.pc \in {f.pc, "unload"}
    <3>1. CASE r = "ok"
      <4>1. /\ g.root = f.root /\ g.left = f.left /\ g.pc = f.pc /\ g.result = f.result
            /\ g.cache = f.cache \cup {k}
        BY <2>3, <3>1 DEF FrameShape, FrameFields
      <4> HIDE DEF g, f
      <4>2. QED
        BY <2>3, <3>1, <4>1 DEF FrameSound
    <3>2. CASE r # "ok"
      <4>1. /\ g.root = f.root /\ g.left = f.left /\ g.pc = "unload" /\ g.result = "failed"
            /\ g.cache = f.cache
        BY <2>3, <3>2 DEF FrameShape, FrameFields
      <4> HIDE DEF g, f
      <4>2. QED
        BY <2>3, <4>1 DEF FrameSound
    <3>3. QED
      BY <3>1, <3>2
  <2> HIDE DEF g, s
  <2>5. s # <<>> /\ Last(s) = g
    BY <2>2, TopOf
  <2>6. \A i \in 1..Len(s) : FrameSound(s[i], S)
    BY <2>2, <2>4
  <2>7. s[1].root = fs[1].root
    <3>1. Len(fs) = 1 \/ (1 \in 1..Len(fs) /\ 1 # Len(fs))
      BY <2>2
    <3>2. QED
      BY <2>2, <2>4, <3>1
  <2>8. Given(s, fs, S)
    BY <1>2, <2>2, <2>4, <2>6, <2>7, <2>5 DEF Given
  <2>9. QED
    BY <2>1, <2>8
<1>3. QED
  BY <1>1, <1>2

\* What a step keeps that changes the loops of one thread.
LEMMA LoopsKept ==
  ASSUME IInv, PolicyInv, NEW t \in Threads, UNCHANGED <<setup, order>>, single \subseteq single',
         NEW s, frames' = [frames EXCEPT ![t] = s],
         \A i \in 1..Len(s) : FrameSound(s[i], single'),
         s # <<>> => s[1].root = Head(call'[t].todo) /\ call'[t].result = "ok",
         \A u \in Threads : u # t => call'[u] = call[u]
  PROVE  FramesSound' /\ LoopServesCall'
<1>1. frames = [u \in Threads |-> frames[u]]
  BY DEF IInv, Shapes, FrameShapes
<1>2. frames'[t] = s /\ \A u \in Threads : u # t => frames'[u] = frames[u]
  BY <1>1
<1>3. \A f : (FrameSound(f, single') <=> FrameSound(f, single)')
             /\ (FrameSound(f, single) => FrameSound(f, single'))
  BY DEF FrameSound, OrderBuilt
<1>4. FramesSound'
  <2>1. ASSUME NEW u \in Threads, NEW i \in 1..Len(frames'[u])
        PROVE  FrameSound(frames'[u][i], single')
    <3>1. CASE u = t
      BY <1>2, <2>1, <3>1
    <3>2. CASE u # t
      BY <1>2, <1>3, <2>1, <3>2 DEF PolicyInv, FramesSound
    <3>3. QED
      BY <3>1, <3>2
  <2>2. QED
    BY <2>1 DEF FramesSound, FrameSound, OrderBuilt
<1>5. LoopServesCall'
  BY <1>2 DEF PolicyInv, LoopServesCall
<1>6. QED
  BY <1>4, <1>5

LEMMA DepthKept ==
  ASSUME IInv, PolicyInv, NEW t \in Threads, UNCHANGED <<depth, raced>>,
         NEW s, frames' = [frames EXCEPT ![t] = s],
         ~raced => /\ Len(s) <= 1
                   /\ Raised(t) <=> s # <<>> /\ Last(s).pc \in {"keys", "unload", "unstore"}
  PROVE  DepthExact'
<1>1. frames = [u \in Threads |-> frames[u]]
  BY DEF IInv, Shapes, FrameShapes
<1>2. frames'[t] = s /\ \A u \in Threads : u # t => frames'[u] = frames[u]
  BY <1>1
<1>3. CASE ~raced
  <2>1. Up' = Up
    BY <1>2, <1>3 DEF Up, Raised
  <2>2. \A u \in Threads : Len(frames'[u]) <= 1
    BY <1>2, <1>3 DEF PolicyInv, DepthExact
  <2>3. QED
    BY <1>3, <2>1, <2>2 DEF PolicyInv, DepthExact
<1>4. CASE raced
  BY <1>4 DEF DepthExact
<1>5. QED
  BY <1>3, <1>4

LEMMA HeadOrTail ==
  ASSUME NEW S, NEW s \in Seq(S), s # <<>>, NEW x \in ToSet(s)
  PROVE  x = Head(s) \/ x \in ToSet(Tail(s))
<1>1. /\ Len(s) \in Nat \ {0} /\ DOMAIN s = 1..Len(s) /\ Head(s) = s[1]
      /\ Tail(s) \in Seq(S) /\ Len(Tail(s)) = Len(s) - 1
      /\ \A i \in 1..Len(s) - 1 : Tail(s)[i] = s[i + 1]
  BY EmptySeq, LenProperties, HeadTailProperties
<1>2. PICK i \in 1..Len(s) : x = s[i]
  BY <1>1 DEF ToSet
<1>3. CASE i = 1
  BY <1>1, <1>2, <1>3
<1>4. CASE i # 1
  <2>1. i - 1 \in 1..Len(s) - 1 /\ (i - 1) + 1 = i
    BY <1>1, <1>4
  <2>2. i - 1 \in DOMAIN Tail(s)
    BY <1>1, <2>1, LenProperties
  <2>3. Tail(s)[i - 1] = x
    BY <1>1, <1>2, <2>1
  <2>4. QED
    BY <2>2, <2>3 DEF ToSet
<1>5. QED
  BY <1>3, <1>4

\* No loop is up but those of calls under way, so none around a call that is on
\* its own and in no loop.
LEMMA AloneOutside ==
  ASSUME IInv, PolicyInv, NEW t \in Threads, call[t] # NoCall, met[t] = {}, frames[t] = <<>>, ~raced
  PROVE  depth = 0
<1>1. \A u \in Threads : call[u] # NoCall => u = t
  BY DEF IInv, GuardInv, BothMet, Busy
<1>2. Up = {}
  BY <1>1 DEF Up, Raised, IInv, Shapes, At
<1>3. QED
  BY <1>2, FS_EmptySet DEF PolicyInv, DepthExact

LEMMA NoPolicyBuilt ==
  ASSUME PolicyInv, setup.policy = "none", NEW k \in Keys, NEW S, k \in setup.singletons => k \in S
  PROVE  OrderBuilt(k, S)
<1>1. order[k] = <<{k}>>
  BY DEF PolicyInv, NoPolicyOrder
<1>2. ToSet(<<{k}>>) = {{k}}
  BY DEF ToSet
<1>3. QED
  BY <1>1, <1>2 DEF OrderBuilt

\* A loop begins for a key.
LEMMA LoopBegins ==
  ASSUME IInv, PolicyInv, NEW t \in Threads, NEW k, Get(t, k), setup.policy # "none", depth = 0,
         frames[t] = <<>> => k = Head(call[t].todo) /\ call[t].result = "ok",
         UNCHANGED <<setup, order, depth, raced, met, last>>,
         ~raced => frames[t] = <<>>
  PROVE  PolicyInv'
<1> DEFINE g == [pc |-> "load", root |-> k, left |-> order[k], cache |-> {}, loaded |-> 0,
                 result |-> "ok"]
           s == Append(frames[t], g)
<1>1. /\ frames = [u \in Threads |-> frames[u]]
      /\ \E F : frames[t] \in Seq(F) /\ \A f \in F : FrameShape(f)
  BY DEF IInv, Shapes, FrameShapes
<1>2. frames' = [frames EXCEPT ![t] = s] /\ single' = single /\ call' = call
  BY <1>1 DEF Get
<1>3. FrameSound(g, single) /\ g.root = k /\ g.pc = "load"
  BY DEF FrameSound
<1>4. PICK F : frames[t] \in Seq(F)
  BY <1>1
<1>5. s = Append(frames[t], g)
  OBVIOUS
<1> HIDE DEF g, s
<1>6. /\ Len(frames[t]) \in Nat /\ Len(s) = Len(frames[t]) + 1 /\ s[Len(frames[t]) + 1] = g
      /\ \A i \in 1..Len(frames[t]) : s[i] = frames[t][i]
  BY <1>4, <1>5, Pushed
<1>7. s # <<>> /\ Last(s) = g
  <2>1. Len(s) # 0
    BY <1>6
  <2>2. QED
    BY <1>6, <2>1, TopOf
<1>8. ASSUME NEW i \in 1..Len(s) PROVE FrameSound(s[i], single')
  <2>1. i \in 1..Len(frames[t]) \/ i = Len(frames[t]) + 1
    BY <1>6
  <2>2. QED
    BY <1>2, <1>3, <1>6, <2>1 DEF PolicyInv, FramesSound
<1>9. s[1].root = Head(call'[t].todo) /\ call'[t].result = "ok"
  <2>1. CASE frames[t] = <<>>
    <3>1. Len(frames[t]) + 1 = 1
      BY <2>1, EmptySeq
    <3>2. s[1] = g
      BY <1>6, <3>1
    <3>3. QED
      BY <1>2, <1>3, <2>1, <3>2
  <2>2. CASE frames[t] # <<>>
    <3>1. 1 \in 1..Len(frames[t])
      BY <1>4, <2>2, EmptySeq
    <3>2. QED
      BY <1>2, <1>6, <2>2, <3>1 DEF PolicyInv, LoopServesCall
  <2>3. QED
    BY <2>1, <2>2
<1>10. FramesSound' /\ LoopServesCall'
  BY <1>2, <1>8, <1>9, LoopsKept
<1>11. DepthExact'
  <2>1. ~raced => /\ Len(s) <= 1
                  /\ Raised(t) <=> s # <<>> /\ Last(s).pc \in {"keys", "unload", "unstore"}
    <3>1. Len(<<>>) = 0
      BY EmptySeq
    <3>2. QED
      BY <1>3, <1>6, <1>7, <3>1 DEF Raised
  <2>2. QED
    BY <1>2, <2>1, DepthKept
<1>12. CallsCovered'
  BY <1>2, CoveredKept DEF CallsCovered
<1>13. PolicyHonoured' /\ NoPolicyOrder'
  BY <1>2, HonouredKept
<1>14. QED
  BY <1>10, <1>11, <1>12, <1>13 DEF PolicyInv

\* The policy's keys, or the container alone, serve a key of the call.
LEMMA WorkKeepsPolicy ==
  ASSUME IInv, PolicyInv, NEW t \in Threads, Work(t)
  PROVE  PolicyInv'
<1> DEFINE k == Head(call[t].todo)
<1>1. /\ call[t] \in Call /\ call[t] # NoCall /\ call \in [Threads -> Call \cup {NoCall}]
      /\ frames[t] = <<>> /\ call[t].todo # <<>> /\ call[t].result = "ok"
      /\ Get(t, k) /\ call[t].todo \in Seq(Keys) /\ call[t].key \in Keys
      /\ UNCHANGED <<setup, order, depth, raced, met, last>>
      /\ frames = [u \in Threads |-> frames[u]]
  BY Facts, CallFields DEF Work, At, IInv, fixed
<1>2. CASE setup.policy # "none" /\ depth = 0
  BY <1>1, <1>2, LoopBegins
<1>3. CASE ~(setup.policy # "none" /\ depth = 0)
  <2>1. PICK o \in Outcomes(k) : single' = o.single /\ Deliver(t, <<>>, k, o.result)
    BY <1>1, <1>3 DEF Get
  <2>2. /\ single \subseteq single' /\ o.result \in {"ok", "failed"}
        /\ o.result = "ok" /\ k \in setup.singletons => k \in single'
    BY <2>1, Built DEF IInv, Shapes
  <2> DEFINE r == o.result
             n == IF r = "ok" THEN Tail(call[t].todo) ELSE call[t].todo
             c == [call[t] EXCEPT !.todo = n, !.result = r]
  <2>3. call' = [call EXCEPT ![t] = c] /\ frames' = [frames EXCEPT ![t] = <<>>]
    BY <1>1, <2>1 DEF Deliver
  <2>4. c.key = call[t].key /\ c.result = r /\ c.todo = n
    BY <1>1 DEF Call
  <2>5. r = "ok" => n = Tail(call[t].todo)
    OBVIOUS
  <2> HIDE DEF c, n, k
  <2>6. \A u \in Threads : u # t => call'[u] = call[u]
    BY <1>1, <2>3
  <2>7. call'[t] = c
    BY <1>1, <2>3
  <2>8. FramesSound' /\ LoopServesCall'
    <3>1. Len(<<>>) = 0 /\ 1..0 = {}
      BY EmptySeq
    <3>2. \A i \in 1..Len(<<>>) : FrameSound(<<>>[i], single')
      BY <3>1
    <3>3. QED
      BY <1>1, <2>2, <2>3, <2>6, <3>2, LoopsKept
  <2>9. DepthExact'
    <3>1. Len(<<>>) <= 1
      BY EmptySeq
    <3>2. ~Raised(t)
      BY <1>1 DEF Raised
    <3>3. QED
      BY <1>1, <2>3, <3>1, <3>2, DepthKept
  <2>10. CallCovered(t)'
    <3>1. SUFFICES ASSUME r = "ok", met[t] = {}, ~raced
                   PROVE  call[t].key \in ToSet(n) \/ OrderBuilt(call[t].key, single')
      BY <1>1, <2>4, <2>7 DEF CallCovered, OrderBuilt
    <3>2. call[t].key \in ToSet(call[t].todo) \/ OrderBuilt(call[t].key, single)
      BY <1>1, <3>1 DEF PolicyInv, CallsCovered, CallCovered
    <3>3. CASE OrderBuilt(call[t].key, single)
      BY <2>2, <3>3 DEF OrderBuilt
    <3>4. CASE call[t].key \in ToSet(call[t].todo)
      <4>1. call[t].key = k \/ call[t].key \in ToSet(n)
        BY <1>1, <2>5, <3>1, <3>4, HeadOrTail DEF k
      <4>2. CASE call[t].key = k
        <5>1. setup.policy = "none"
          BY <1>1, <1>3, <3>1, AloneOutside
        <5>2. QED
          BY <1>1, <2>2, <3>1, <4>2, <5>1, NoPolicyBuilt
      <4>3. QED
        BY <4>1, <4>2
    <3>5. QED
      BY <3>2, <3>3, <3>4
  <2>11. CallsCovered'
    <3>1. \A u \in Threads : u # t => CallCovered(u)'
      BY <1>1, <2>2, <2>6, CoveredKept
    <3>2. QED
      BY <2>10, <3>1 DEF CallsCovered
  <2>12. PolicyHonoured' /\ NoPolicyOrder'
    BY <1>1, <2>2, HonouredKept
  <2>13. QED
    BY <2>8, <2>9, <2>11, <2>12 DEF PolicyInv
<1>4. QED
  BY <1>2, <1>3

\* A step of a loop's own.
FrameStep(t, g) ==
  \E s : /\ frames' = [frames EXCEPT ![t] = s]
         /\ Len(s) = Len(frames[t]) /\ s # <<>> /\ Last(s) = g
LEMMA FrameStepKeeps ==
  ASSUME IInv, PolicyInv, NEW t \in Threads, frames[t] # <<>>, NEW g, SetFrame(t, g),
         g.root = Last(frames[t]).root, FrameSound(g, single),
         UNCHANGED <<setup, order, single, call, met, last>>, raced => raced'
  PROVE  /\ FramesSound' /\ LoopServesCall' /\ CallsCovered' /\ NoPolicyOrder' /\ PolicyHonoured'
         /\ FrameStep(t, g)
<1> DEFINE s == Append(Front(frames[t]), g)
<1>1. /\ frames = [u \in Threads |-> frames[u]]
      /\ \E F : frames[t] \in Seq(F) /\ \A f \in F : FrameShape(f)
  BY DEF IInv, Shapes, FrameShapes
<1>2. frames' = [frames EXCEPT ![t] = s]
  BY <1>1 DEF SetFrame
<1>3. PICK F : frames[t] \in Seq(F)
  BY <1>1
<1>4. s = Append(Front(frames[t]), g)
  OBVIOUS
<1> HIDE DEF s
<1>5. Len(frames[t]) \in Nat \ {0} /\ Last(frames[t]) = frames[t][Len(frames[t])]
  BY <1>3, <1>4, Replaced
<1>6. Len(s) = Len(frames[t]) /\ s[Len(frames[t])] = g
  BY <1>3, <1>4, Replaced
<1>7. \A i \in 1..Len(frames[t]) : i # Len(frames[t]) => s[i] = frames[t][i]
  BY <1>3, <1>4, Replaced, SMTT(30)
<1>8. s # <<>> /\ Last(s) = g
  BY <1>5, <1>6, TopOf
<1>9. \A i \in 1..Len(s) : FrameSound(s[i], single')
  BY <1>5, <1>6, <1>7 DEF PolicyInv, FramesSound
<1>10. s[1].root = frames[t][1].root
  <2>1. Len(frames[t]) = 1 \/ (1 \in 1..Len(frames[t]) /\ 1 # Len(frames[t]))
    BY <1>5
  <2>2. QED
    BY <1>5, <1>6, <1>7, <2>1
<1>11. FramesSound' /\ LoopServesCall'
  <2>1. s[1].root = Head(call'[t].todo) /\ call'[t].result = "ok"
    BY <1>10 DEF PolicyInv, LoopServesCall
  <2>2. QED
    BY <1>2, <1>9, <2>1, LoopsKept
<1>12. CallsCovered'
  BY CoveredKept DEF CallsCovered
<1>13. PolicyHonoured' /\ NoPolicyOrder'
  BY HonouredKept
<1>14. FrameStep(t, g)
  BY <1>2, <1>6, <1>8 DEF FrameStep
<1>15. QED
  BY <1>11, <1>12, <1>13, <1>14

\* What is known of the loop a thread is in.
LEMMA TopIs ==
  ASSUME IInv, PolicyInv, NEW t \in Threads, frames[t] # <<>>
  PROVE  /\ FrameShape(Last(frames[t])) /\ FrameSound(Last(frames[t]), single)
         /\ Len(frames[t]) \in Nat \ {0} /\ Last(frames[t]) = frames[t][Len(frames[t])]
         /\ frames = [u \in Threads |-> frames[u]]
         /\ call \in [Threads -> Call \cup {NoCall}] /\ call[t] \in Call
         /\ call[t].pc = "work" /\ call[t].result = "ok"
         /\ call[t].todo \in Seq(Keys) /\ call[t].todo # <<>>
<1>1. PICK F : frames[t] \in Seq(F) /\ \A f \in F : FrameShape(f)
  BY DEF IInv, Shapes, FrameShapes
<1>2. /\ Len(frames[t]) \in Nat \ {0} /\ Last(frames[t]) = frames[t][Len(frames[t])]
      /\ Last(frames[t]) \in F
  BY <1>1, TopFrame, EmptySeq DEF Last
<1>3. Len(frames[t]) \in 1..Len(frames[t])
  BY <1>2
<1>4. FrameSound(Last(frames[t]), single)
  BY <1>2, <1>3 DEF PolicyInv, FramesSound
<1>5. call[t] # NoCall /\ call[t].pc = "work" /\ call[t].todo # <<>> /\ call[t].result = "ok"
  BY DEF IInv, Shapes, At, PolicyInv, LoopServesCall
<1>6. call[t] \in Call /\ call \in [Threads -> Call \cup {NoCall}]
      /\ frames = [u \in Threads |-> frames[u]]
  BY <1>5, Facts DEF IInv
<1>7. QED
  BY <1>1, <1>2, <1>4, <1>5, <1>6, CallFields

LEMMA LoadKeepsPolicy ==
  ASSUME IInv, PolicyInv, NEW t \in Threads, Load(t)
  PROVE  PolicyInv'
<1> DEFINE f == Last(frames[t])
           g == [f EXCEPT !.loaded = depth, !.pc = IF f.pc = "load" THEN "store" ELSE "unstore"]
<1>1. /\ frames[t] # <<>> /\ f.pc \in {"load", "unload"} /\ SetFrame(t, g)
      /\ UNCHANGED <<setup, order, single, depth, call, met, last, raced>>
  BY DEF Load, InFrame, fixed
<1>2. FrameShape(f) /\ FrameSound(f, single)
  BY <1>1, TopIs
<1>3. /\ g.root = f.root /\ g.left = f.left /\ g.cache = f.cache /\ g.result = f.result
      /\ g.pc = IF f.pc = "load" THEN "store" ELSE "unstore"
  BY <1>2 DEF FrameShape, FrameFields
<1> HIDE DEF g
<1>4. FrameSound(g, single)
  BY <1>1, <1>2, <1>3 DEF FrameSound
<1>5. /\ FramesSound' /\ LoopServesCall' /\ CallsCovered' /\ NoPolicyOrder' /\ PolicyHonoured'
      /\ FrameStep(t, g)
  BY <1>1, <1>3, <1>4, FrameStepKeeps
<1>6. PICK s : /\ frames' = [frames EXCEPT ![t] = s]
               /\ Len(s) = Len(frames[t]) /\ s # <<>> /\ Last(s) = g
  BY <1>5 DEF FrameStep
<1>7. DepthExact'
  <2>1. ~raced => Len(s) <= 1
    BY <1>6 DEF PolicyInv, DepthExact
  <2>2. Raised(t) <=> s # <<>> /\ Last(s).pc \in {"keys", "unload", "unstore"}
    BY <1>1, <1>3, <1>6 DEF Raised
  <2>3. QED
    BY <1>1, <1>6, <2>1, <2>2, DepthKept
<1>8. QED
  BY <1>5, <1>7 DEF PolicyInv

LEMMA StoreUpKeepsPolicy ==
  ASSUME IInv, PolicyInv, NEW t \in Threads, StoreUp(t)
  PROVE  PolicyInv'
<1> DEFINE f == Last(frames[t])
           g == [f EXCEPT !.pc = "keys"]
<1>1. /\ frames[t] # <<>> /\ f.pc = "store" /\ SetFrame(t, g)
      /\ depth' = f.loaded + 1 /\ raced' = (raced \/ depth # f.loaded)
      /\ UNCHANGED <<setup, order, single, call, met, last>>
  BY DEF StoreUp, InFrame, fixed
<1>2. FrameShape(f) /\ FrameSound(f, single) /\ frames = [u \in Threads |-> frames[u]]
  BY <1>1, TopIs
<1>3. /\ g.root = f.root /\ g.left = f.left /\ g.cache = f.cache /\ g.result = f.result
      /\ g.pc = "keys"
  BY <1>2 DEF FrameShape, FrameFields
<1> HIDE DEF g
<1>4. FrameSound(g, single)
  BY <1>2, <1>3 DEF FrameSound
<1>5. /\ FramesSound' /\ LoopServesCall' /\ CallsCovered' /\ NoPolicyOrder' /\ PolicyHonoured'
      /\ FrameStep(t, g)
  BY <1>1, <1>3, <1>4, FrameStepKeeps
<1>6. PICK s : /\ frames' = [frames EXCEPT ![t] = s]
               /\ Len(s) = Len(frames[t]) /\ s # <<>> /\ Last(s) = g
  BY <1>5 DEF FrameStep
<1>7. CASE ~raced'
  <2>1. ~raced /\ depth = f.loaded
    BY <1>1, <1>7
  <2>2. \A u \in Threads : Len(frames'[u]) <= 1
    BY <1>2, <1>6, <2>1 DEF PolicyInv, DepthExact
  <2>3. t \notin Up
    BY <1>1 DEF Up, Raised
  <2>4. Up' = Up \cup {t}
    BY <1>2, <1>3, <1>6 DEF Up, Raised
  <2>5. IsFiniteSet(Up) /\ depth = Cardinality(Up)
    BY <2>1 DEF PolicyInv, DepthExact
  <2>6. IsFiniteSet(Up') /\ Cardinality(Up') = Cardinality(Up) + 1
    BY <2>3, <2>4, <2>5, FS_AddElement
  <2>7. DepthExact'
    BY <1>1, <2>1, <2>2, <2>5, <2>6 DEF DepthExact
  <2>8. QED
    BY <1>5, <2>7 DEF PolicyInv
<1>8. CASE raced'
  BY <1>5, <1>8 DEF PolicyInv, DepthExact
<1>9. QED
  BY <1>7, <1>8

\* A loop whose order is built, and which has its root, is over.
LEMMA LoopEnds ==
  ASSUME IInv, PolicyInv, NEW t \in Threads, InFrame(t, "keys"),
         \A i \in DOMAIN Last(frames[t]).left :
           Last(frames[t]).left[i] \subseteq single \cup Last(frames[t]).cache,
         Last(frames[t]).root \in Last(frames[t]).cache,
         SetFrame(t, [Last(frames[t]) EXCEPT !.pc = "unload"]),
         UNCHANGED <<setup, order, single, depth, call, met, last, raced>>
  PROVE  PolicyInv'
<1> DEFINE f == Last(frames[t])
           g == [f EXCEPT !.pc = "unload"]
<1>1. frames[t] # <<>> /\ f.pc = "keys" /\ SetFrame(t, g)
  BY DEF InFrame
<1>2. FrameShape(f) /\ FrameSound(f, single)
  BY <1>1, TopIs
<1>3. /\ g.root = f.root /\ g.left = f.left /\ g.cache = f.cache /\ g.result = f.result
      /\ g.pc = "unload"
  BY <1>2 DEF FrameShape, FrameFields
<1>4. OrderBuilt(f.root, single)
  <2>1. f.left = order[f.root] /\ f.cache \cap setup.singletons \subseteq single
    BY <1>2 DEF FrameSound
  <2>2. \A i \in DOMAIN f.left : f.left[i] \subseteq single \cup f.cache
    OBVIOUS
  <2> HIDE DEF f
  <2>3. UNION ToSet(f.left) \subseteq single \cup f.cache
    BY <2>2 DEF ToSet
  <2>4. QED
    BY <2>1, <2>3 DEF OrderBuilt
<1>5. f.root \in f.cache
  OBVIOUS
<1> HIDE DEF g, f
<1>6. FrameSound(g, single)
  BY <1>2, <1>3, <1>4, <1>5 DEF FrameSound
<1>7. /\ FramesSound' /\ LoopServesCall' /\ CallsCovered' /\ NoPolicyOrder' /\ PolicyHonoured'
      /\ FrameStep(t, g)
  BY <1>1, <1>3, <1>6, FrameStepKeeps DEF f
<1>8. PICK s : /\ frames' = [frames EXCEPT ![t] = s]
               /\ Len(s) = Len(frames[t]) /\ s # <<>> /\ Last(s) = g
  BY <1>7 DEF FrameStep
<1>9. DepthExact'
  <2>1. ~raced => Len(s) <= 1
    BY <1>8 DEF PolicyInv, DepthExact
  <2>2. Raised(t) <=> s # <<>> /\ Last(s).pc \in {"keys", "unload", "unstore"}
    BY <1>1, <1>3, <1>8 DEF Raised, f
  <2>3. QED
    BY <1>8, <2>1, <2>2, DepthKept
<1>10. QED
  BY <1>7, <1>9 DEF PolicyInv

\* A result goes to a loop.
LEMMA GivenKeepsPolicy ==
  ASSUME IInv, PolicyInv, NEW t \in Threads, frames[t] # <<>>,
         NEW F, NEW fs \in Seq(F), \A f \in F : FrameShape(f), fs # <<>>,
         fs[1] = frames[t][1], \A i \in 1..Len(fs) : FrameSound(fs[i], single'),
         NEW k, NEW r, r = "ok" /\ k \in setup.singletons => k \in single',
         Deliver(t, fs, k, r), single \subseteq single',
         UNCHANGED <<setup, order, met, last>>, raced => raced'
  PROVE  /\ FramesSound' /\ LoopServesCall' /\ CallsCovered' /\ NoPolicyOrder' /\ PolicyHonoured'
         /\ frames' = [frames EXCEPT ![t] = frames'[t]]
         /\ Given(frames'[t], fs, single') /\ call' = call
<1>1. frames = [u \in Threads |-> frames[u]]
  BY DEF IInv, Shapes, FrameShapes
<1>2. frames' = [frames EXCEPT ![t] = frames'[t]] /\ Given(frames'[t], fs, single') /\ call' = call
  BY <1>1, LoopGiven
<1>3. FramesSound' /\ LoopServesCall'
  <2> DEFINE s == frames'[t]
  <2>1. \A i \in 1..Len(s) : FrameSound(s[i], single')
    BY <1>2 DEF Given
  <2>2. s[1].root = Head(call'[t].todo) /\ call'[t].result = "ok"
    BY <1>2 DEF Given, PolicyInv, LoopServesCall
  <2>3. frames' = [frames EXCEPT ![t] = s]
    BY <1>2
  <2> HIDE DEF s
  <2>4. QED
    BY <1>2, <2>1, <2>2, <2>3, LoopsKept
<1>4. CallsCovered'
  BY <1>2, CoveredKept DEF CallsCovered
<1>5. PolicyHonoured' /\ NoPolicyOrder'
  BY HonouredKept
<1>6. QED
  BY <1>2, <1>3, <1>4, <1>5

LEMMA NextKeyKeepsPolicy ==
  ASSUME IInv, PolicyInv, NEW t \in Threads, NextKey(t)
  PROVE  PolicyInv'
<1> DEFINE f == Last(frames[t])
           known == single \cup f.cache
           missing == {i \in DOMAIN f.left : ~(f.left[i] \subseteq known)}
<1>1. /\ InFrame(t, "keys") /\ frames[t] # <<>> /\ f.pc = "keys"
      /\ UNCHANGED <<setup, order, depth, met, last, raced>>
  BY DEF NextKey, InFrame, fixed
<1>2. CASE missing = {} /\ f.root \in f.cache
  <2>1. SetFrame(t, [f EXCEPT !.pc = "unload"]) /\ UNCHANGED <<single, call>>
    BY <1>2 DEF NextKey
  <2>2. \A i \in DOMAIN f.left : f.left[i] \subseteq single \cup f.cache
    BY <1>2
  <2>3. QED
    BY <1>1, <1>2, <2>1, <2>2, LoopEnds
<1>3. CASE ~(missing = {} /\ f.root \in f.cache)
  <2>1. PICK k : Get(t, k)
    BY <1>3 DEF NextKey
  <2>2. ~raced => depth # 0 /\ Len(frames[t]) <= 1
    <3>1. t \in Up
      BY <1>1 DEF Up, Raised
    <3>2. QED
      BY <3>1, FS_EmptySet DEF PolicyInv, DepthExact
  <2>3. CASE setup.policy # "none" /\ depth = 0
    BY <1>1, <2>1, <2>2, <2>3, LoopBegins
  <2>4. CASE ~(setup.policy # "none" /\ depth = 0)
    <3>1. PICK o \in Outcomes(k) : single' = o.single /\ Deliver(t, frames[t], k, o.result)
      BY <2>1, <2>4 DEF Get
    <3>2. /\ single \subseteq single'
          /\ o.result = "ok" /\ k \in setup.singletons => k \in single'
      BY <3>1, Built DEF IInv, Shapes
    <3>3. PICK F : frames[t] \in Seq(F) /\ \A h \in F : FrameShape(h)
      BY DEF IInv, Shapes, FrameShapes
    <3>4. \A i \in 1..Len(frames[t]) : FrameSound(frames[t][i], single')
      BY <3>2 DEF PolicyInv, FramesSound, FrameSound, OrderBuilt
    <3>5. /\ FramesSound' /\ LoopServesCall' /\ CallsCovered' /\ NoPolicyOrder' /\ PolicyHonoured'
          /\ frames' = [frames EXCEPT ![t] = frames'[t]]
          /\ Given(frames'[t], frames[t], single')
      BY <1>1, <3>1, <3>2, <3>3, <3>4, GivenKeepsPolicy
    <3>6. DepthExact'
      <4> DEFINE s == frames'[t]
      <4>1. Len(s) = Len(frames[t]) /\ s # <<>> /\ Last(s).pc \in {"keys", "unload"}
        BY <1>1, <3>5 DEF Given
      <4>2. Raised(t)
        BY <1>1 DEF Raised
      <4>3. frames' = [frames EXCEPT ![t] = s]
        BY <3>5
      <4> HIDE DEF s
      <4>4. ~raced => /\ Len(s) <= 1
                      /\ Raised(t) <=> s # <<>> /\ Last(s).pc \in {"keys", "unload", "unstore"}
        BY <2>2, <4>1, <4>2
      <4>5. QED
        BY <1>1, <4>3, <4>4, DepthKept
    <3>7. QED
      BY <3>5, <3>6 DEF PolicyInv
  <2>5. QED
    BY <2>3, <2>4
<1>4. QED
  BY <1>2, <1>3

\* A loop is over, and its result goes to the loop around it or to the call.
LEMMA StoreDownKeepsPolicy ==
  ASSUME IInv, PolicyInv, NEW t \in Threads, StoreDown(t)
  PROVE  PolicyInv'
<1> DEFINE f == Last(frames[t])
           fs == Front(frames[t])
           k == f.root
           r == f.result
<1>1. /\ frames[t] # <<>> /\ f.pc = "unstore" /\ Deliver(t, fs, k, r)
      /\ depth' = f.loaded - 1 /\ raced' = (raced \/ depth # f.loaded)
      /\ UNCHANGED <<setup, order, single, met, last>>
  BY DEF StoreDown, InFrame, fixed
<1>2. /\ FrameShape(f) /\ FrameSound(f, single)
      /\ Len(frames[t]) \in Nat \ {0} /\ f = frames[t][Len(frames[t])]
      /\ frames = [u \in Threads |-> frames[u]]
      /\ call \in [Threads -> Call \cup {NoCall}] /\ call[t] \in Call
      /\ call[t].pc = "work" /\ call[t].result = "ok"
      /\ call[t].todo \in Seq(Keys) /\ call[t].todo # <<>>
  BY <1>1, TopIs
<1>3. PICK F : frames[t] \in Seq(F) /\ \A h \in F : FrameShape(h)
  BY DEF IInv, Shapes, FrameShapes
<1>4. r = "ok" => k \in f.cache /\ OrderBuilt(k, single)
  BY <1>1, <1>2 DEF FrameSound
<1>5. r = "ok" /\ k \in setup.singletons => k \in single'
  BY <1>1, <1>2, <1>4 DEF FrameSound
<1>6. fs \in Seq(F) /\ Len(fs) = Len(frames[t]) - 1
  BY <1>1, <1>3, Replaced
<1>7. \A i \in 1..Len(frames[t]) : i # Len(frames[t]) => fs[i] = frames[t][i]
  BY <1>1, <1>3, Replaced
<1>8. call[t] # NoCall
  BY <1>2, NoCallAssumption
<1> HIDE DEF f, fs, k, r
<1>9. \A i \in 1..Len(fs) : i \in 1..Len(frames[t]) /\ i # Len(frames[t])
  BY <1>2, <1>6
<1>10. \A i \in 1..Len(fs) : FrameSound(fs[i], single')
  BY <1>1, <1>7, <1>9 DEF PolicyInv, FramesSound
<1>11. CASE fs # <<>>
  <2>1. Len(fs) \in Nat \ {0}
    BY <1>6, <1>11, EmptySeq
  <2>2. fs[1] = frames[t][1]
    <3>1. 1 \in 1..Len(fs)
      BY <2>1
    <3>2. QED
      BY <1>7, <1>9, <3>1
  <2>3. FramesSound' /\ LoopServesCall' /\ CallsCovered' /\ NoPolicyOrder' /\ PolicyHonoured'
    BY <1>1, <1>3, <1>5, <1>6, <1>10, <1>11, <2>2, GivenKeepsPolicy
  <2>4. Len(frames[t]) > 1
    BY <1>2, <1>6, <2>1
  <2>5. raced
    BY <1>2, <2>4 DEF PolicyInv, DepthExact
  <2>6. QED
    BY <1>1, <2>3, <2>5 DEF PolicyInv, DepthExact
<1>12. CASE fs = <<>>
  <2>1. Len(frames[t]) = 1
    <3>1. Len(fs) = 0
      BY <1>12, EmptySeq
    <3>2. QED
      BY <1>2, <1>6, <3>1
  <2>2. k = Head(call[t].todo)
    BY <1>1, <1>2, <2>1 DEF PolicyInv, LoopServesCall, k
  <2> DEFINE n == IF r = "ok" THEN Tail(call[t].todo) ELSE call[t].todo
             c == [call[t] EXCEPT !.todo = n, !.result = r]
  <2>3. call' = [call EXCEPT ![t] = c] /\ frames' = [frames EXCEPT ![t] = <<>>]
    BY <1>1, <1>2, <1>12 DEF Deliver
  <2>4. c.key = call[t].key /\ c.result = r /\ c.todo = n
    BY <1>2 DEF Call
  <2>5. r = "ok" => n = Tail(call[t].todo)
    OBVIOUS
  <2> HIDE DEF c, n
  <2>6. call'[t] = c /\ \A u \in Threads : u # t => call'[u] = call[u]
    BY <1>2, <2>3
  <2>7. FramesSound' /\ LoopServesCall'
    <3>1. Len(<<>>) = 0 /\ 1..0 = {}
      BY EmptySeq
    <3>2. \A i \in 1..Len(<<>>) : FrameSound(<<>>[i], single')
      BY <3>1
    <3>3. QED
      BY <1>1, <2>3, <2>6, <3>2, LoopsKept
  <2>8. CallCovered(t)'
    <3>1. SUFFICES ASSUME r = "ok", met[t] = {}, ~raced
                   PROVE  call[t].key \in ToSet(n) \/ OrderBuilt(call[t].key, single)
      BY <1>1, <2>4, <2>6 DEF CallCovered, OrderBuilt
    <3>2. call[t].key \in ToSet(call[t].todo) \/ OrderBuilt(call[t].key, single)
      BY <1>2, <1>8, <3>1 DEF PolicyInv, CallsCovered, CallCovered
    <3>3. CASE call[t].key \in ToSet(call[t].todo)
      <4>1. call[t].key = Head(call[t].todo) \/ call[t].key \in ToSet(n)
        BY <1>2, <2>5, <3>1, <3>3, HeadOrTail
      <4>2. QED
        BY <1>4, <2>2, <3>1, <4>1
    <3>4. QED
      BY <3>2, <3>3
  <2>9. CallsCovered'
    <3>1. \A u \in Threads : u # t => CallCovered(u)'
      BY <1>1, <2>6, CoveredKept
    <3>2. QED
      BY <2>8, <3>1 DEF CallsCovered
  <2>10. PolicyHonoured' /\ NoPolicyOrder'
    BY <1>1, HonouredKept
  <2>11. DepthExact'
    <3>1. SUFFICES ASSUME ~raced'
                   PROVE  /\ \A u \in Threads : Len(frames'[u]) <= 1
                          /\ IsFiniteSet(Up') /\ depth' = Cardinality(Up')
      BY DEF DepthExact
    <3>2. ~raced /\ depth = f.loaded
      BY <1>1, <3>1
    <3>3. IsFiniteSet(Up) /\ depth = Cardinality(Up) /\ \A u \in Threads : Len(frames[u]) <= 1
      BY <3>2 DEF PolicyInv, DepthExact
    <3>4. t \in Up
      BY <1>1 DEF Up, Raised, f
    <3>5. Up' = Up \ {t}
      BY <1>2, <2>3 DEF Up, Raised
    <3>6. IsFiniteSet(Up') /\ Cardinality(Up') = Cardinality(Up) - 1
      BY <3>3, <3>4, <3>5, FS_RemoveElement
    <3>7. \A u \in Threads : Len(frames'[u]) <= 1
      <4>1. Len(<<>>) <= 1
        BY EmptySeq
      <4>2. QED
        BY <1>2, <2>3, <3>3, <4>1
    <3>8. QED
      BY <1>1, <3>2, <3>3, <3>6, <3>7
  <2>12. QED
    BY <2>7, <2>9, <2>10, <2>11 DEF PolicyInv
<1>13. QED
  BY <1>11, <1>12

-----------------------------------------------------------------------------
(* Every step *)

\* A place in a call changes, and nothing else of it but the clock that was read.
LEMMA PlaceKeepsPolicy ==
  ASSUME IInv, PolicyInv, NEW t \in Threads, call[t] # NoCall, call[t].pc # "work",
         UNCHANGED <<setup, order, single, depth, frames, raced, met, last>>,
         NEW p, NEW a, call' = [call EXCEPT ![t].pc = p, ![t].at = a]
  PROVE  PolicyInv'
<1> DEFINE c == [call[t] EXCEPT !.pc = p, !.at = a]
<1>1. /\ call[t] \in Call /\ call \in [Threads -> Call \cup {NoCall}] /\ frames[t] = <<>>
  BY Facts DEF IInv
<1>2. /\ call' = [call EXCEPT ![t] = c]
      /\ c.key = call[t].key /\ c.result = call[t].result /\ c.todo = call[t].todo
  BY <1>1 DEF Call
<1> HIDE DEF c
<1>3. QED
  BY <1>1, <1>2, CallKeepsPolicy

LEMMA EndKeepsPolicy ==
  ASSUME IInv, PolicyInv, NEW t \in Threads, call[t] # NoCall, frames[t] = <<>>,
         UNCHANGED <<setup, order, single, depth, frames, raced, met>>,
         NEW r, End(t, r), r = "ok" => call[t].result = "ok" /\ call[t].todo = <<>>
  PROVE  PolicyInv'
<1>1. /\ call' = [call EXCEPT ![t] = NoCall]
      /\ last' = [last EXCEPT ![t] = [key |-> call[t].key, result |-> r, met |-> met[t]]]
  BY DEF End
<1>2. QED
  BY <1>1, CallKeepsPolicy

(* The elements of the concatenation of two sequences. *)
LEMMA JoinOfTwo ==
  ASSUME NEW S, NEW a \in Seq(S), NEW b \in Seq(S), NEW j, j = a \o b
  PROVE  /\ j \in Seq(S) /\ Len(j) = Len(a) + Len(b)
         /\ \A i \in 1..Len(a) + Len(b) : j[i] = IF i <= Len(a) THEN a[i] ELSE b[i - Len(a)]
<1>1. /\ a \o b \in Seq(S) /\ Len(a \o b) = Len(a) + Len(b)
      /\ \A i \in 1..Len(a) + Len(b) : (a \o b)[i] = IF i <= Len(a) THEN a[i] ELSE b[i - Len(a)]
  BY ConcatProperties
<1>2. QED
  BY <1>1, Zenon

(* What either of two sequences holds, their concatenation holds. *)
LEMMA InJoin ==
  ASSUME NEW S, NEW a \in Seq(S), NEW b \in Seq(S), NEW e,
         e \in ToSet(a) \/ e \in ToSet(b)
  PROVE  a \o b \in Seq(S) /\ e \in ToSet(a \o b)
<1> DEFINE j == a \o b
<1>1. Len(a) \in Nat /\ Len(b) \in Nat /\ DOMAIN a = 1..Len(a) /\ DOMAIN b = 1..Len(b)
  BY LenProperties
<1>2. /\ j \in Seq(S) /\ Len(j) = Len(a) + Len(b)
      /\ \A i \in 1..Len(a) + Len(b) : j[i] = IF i <= Len(a) THEN a[i] ELSE b[i - Len(a)]
  BY JoinOfTwo
<1> HIDE DEF j
<1>3. DOMAIN j = 1..Len(a) + Len(b)
  BY <1>2, LenProperties
<1>4. e \in ToSet(j)
  <2>1. CASE e \in ToSet(a)
    <3>1. PICK i \in 1..Len(a) : e = a[i]
      BY <1>1, <2>1 DEF ToSet
    <3>2. i \in 1..Len(a) + Len(b) /\ i <= Len(a)
      BY <1>1, <3>1
    <3>3. QED
      BY <1>2, <1>3, <3>1, <3>2 DEF ToSet
  <2>2. CASE e \in ToSet(b)
    <3>1. PICK i \in 1..Len(b) : e = b[i]
      BY <1>1, <2>2 DEF ToSet
    <3>2. /\ Len(a) + i \in 1..Len(a) + Len(b) /\ ~(Len(a) + i <= Len(a))
          /\ Len(a) + i - Len(a) = i
      BY <1>1, <3>1
    <3>3. e = j[Len(a) + i]
      BY <1>2, <3>1, <3>2
    <3>4. QED
      BY <1>3, <3>2, <3>3 DEF ToSet
  <2>3. QED
    BY <2>1, <2>2
<1>5. QED
  BY <1>2, <1>4 DEF j

LEMMA MarkKeepsPolicy ==
  ASSUME IInv, PolicyInv, NEW t \in Threads, Mark(t)
  PROVE  PolicyInv'
<1> DEFINE k == call[t].key
           x == setup.before[k]
           y == setup.after[k]
           z == setup.nested[k]
           n == x \o <<k>> \o y \o z
           c == [call[t] EXCEPT !.pc = "work", !.todo = n]
<1>1. /\ call[t] \in Call /\ call[t] # NoCall /\ call[t].key \in Keys
      /\ frames[t] = <<>> /\ call \in [Threads -> Call \cup {NoCall}]
  BY Facts DEF IInv, Mark, At
<1>2. /\ call' = [call EXCEPT ![t] = c]
      /\ UNCHANGED <<setup, order, single, depth, frames, raced, met, last>>
  BY <1>1 DEF Mark, fixed, container
<1>3. x \in Seq(Keys) /\ y \in Seq(Keys) /\ z \in Seq(Keys) /\ <<k>> \in Seq(Keys)
  <2>1. SetupShape(setup)
    BY SetupAssumption DEF IInv, Shapes
  <2>2. \A f \in [Keys -> Seq(Keys)] : f[k] \in Seq(Keys)
    BY <1>1
  <2>3. QED
    BY <1>1, <2>1, <2>2 DEF SetupShape
<1> HIDE DEF k, x, y, z
<1>4. k \in ToSet(n)
  <2>1. x \o <<k>> \in Seq(Keys) /\ k \in ToSet(x \o <<k>>)
    <3>1. Len(<<k>>) = 1 /\ <<k>>[1] = k
      OBVIOUS
    <3>2. k \in ToSet(<<k>>)
      BY <3>1 DEF ToSet
    <3>3. QED
      BY <1>3, <3>2, InJoin, Zenon
  <2>2. x \o <<k>> \o y \in Seq(Keys) /\ k \in ToSet(x \o <<k>> \o y)
    BY <1>3, <2>1, InJoin, Zenon
  <2>3. QED
    BY <1>3, <2>2, InJoin, Zenon
<1> HIDE DEF n
<1>5. c.key = k /\ c.todo = n /\ c.result = call[t].result
  BY <1>1 DEF Call, k
<1> HIDE DEF c
<1>6. QED
  BY <1>1, <1>2, <1>4, <1>5, CallKeepsPolicy DEF k

LEMMA PolicyStep ==
  ASSUME IInv, PolicyInv, NEW t \in Threads, Step(t)
  PROVE  PolicyInv'
<1>1. CASE CheckHit(t)
  <2>1. call[t] # NoCall /\ call[t].pc = "hit" /\ call[t] \in Call
    BY <1>1, Facts DEF CheckHit, At, IInv
  <2>2. PICK p \in {AfterLimit, "stamp"} : call' = [call EXCEPT ![t].pc = p]
    BY <1>1 DEF CheckHit, Goes
  <2>3. call' = [call EXCEPT ![t].pc = p, ![t].at = call[t].at]
    BY <2>1, <2>2 DEF Call, IInv, Shapes
  <2>4. UNCHANGED <<setup, order, single, depth, frames, raced, met, last>>
    BY <1>1 DEF CheckHit, fixed, container
  <2>5. QED
    BY <2>1, <2>3, <2>4, PlaceKeepsPolicy
<1>2. CASE ReadClock(t)
  <2>1. call[t] # NoCall /\ call[t].pc = "stamp"
    BY <1>2 DEF ReadClock, At
  <2>2. call' = [call EXCEPT ![t].pc = "count", ![t].at = clock]
    BY <1>2 DEF ReadClock
  <2>3. UNCHANGED <<setup, order, single, depth, frames, raced, met, last>>
    BY <1>2 DEF ReadClock, fixed, container
  <2>4. QED
    BY <2>1, <2>2, <2>3, PlaceKeepsPolicy
<1>3. CASE Count(t)
  <2>1. call[t] # NoCall /\ call[t].pc = "count" /\ call[t] \in Call /\ frames[t] = <<>>
    BY <1>3, Facts DEF Count, At, IInv
  <2>2. UNCHANGED <<setup, order, single, depth, frames, raced, met>>
    BY <1>3 DEF Count, fixed, container
  <2>3. End(t, "limited") \/ (call' = [call EXCEPT ![t].pc = AfterLimit] /\ last' = last)
    BY <1>3 DEF Count, Goes
  <2>4. CASE End(t, "limited")
    BY <2>1, <2>2, <2>4, EndKeepsPolicy
  <2>5. CASE call' = [call EXCEPT ![t].pc = AfterLimit] /\ last' = last
    <3>1. call' = [call EXCEPT ![t].pc = AfterLimit, ![t].at = call[t].at]
      BY <2>1, <2>5 DEF Call, IInv, Shapes
    <3>2. QED
      BY <2>1, <2>2, <2>5, <3>1, PlaceKeepsPolicy
  <2>6. QED
    BY <2>3, <2>4, <2>5
<1>4. CASE CheckGuard(t)
  <2>1. call[t] # NoCall /\ call[t].pc = "check" /\ call[t] \in Call /\ frames[t] = <<>>
    BY <1>4, Facts DEF CheckGuard, At, IInv
  <2>2. UNCHANGED <<setup, order, single, depth, frames, raced, met>>
    BY <1>4 DEF CheckGuard, fixed, container
  <2>3. End(t, "cycle") \/ (call' = [call EXCEPT ![t].pc = "mark"] /\ last' = last)
    BY <1>4 DEF CheckGuard, Goes
  <2>4. CASE End(t, "cycle")
    BY <2>1, <2>2, <2>4, EndKeepsPolicy
  <2>5. CASE call' = [call EXCEPT ![t].pc = "mark"] /\ last' = last
    <3>1. call' = [call EXCEPT ![t].pc = "mark", ![t].at = call[t].at]
      BY <2>1, <2>5 DEF Call, IInv, Shapes
    <3>2. QED
      BY <2>1, <2>2, <2>5, <3>1, PlaceKeepsPolicy
  <2>6. QED
    BY <2>3, <2>4, <2>5
<1>5. CASE Mark(t)
  BY <1>5, MarkKeepsPolicy
<1>6. CASE Invalid(t)
  <2> DEFINE c == [call[t] EXCEPT !.result = "failed"]
  <2>1. /\ call[t] # NoCall /\ call[t] \in Call /\ frames[t] = <<>>
        /\ call' = [call EXCEPT ![t] = c]
        /\ UNCHANGED <<setup, order, single, depth, frames, raced, met, last>>
    BY <1>6, Facts DEF Invalid, At, IInv, fixed, container
  <2>2. c.key = call[t].key /\ c.result = "failed" /\ c.todo = call[t].todo
    BY <2>1 DEF Call
  <2> HIDE DEF c
  <2>3. QED
    BY <2>1, <2>2, CallKeepsPolicy
<1>7. CASE Leave(t)
  <2>1. /\ call[t] # NoCall /\ call[t] \in Call /\ frames[t] = <<>>
        /\ call[t].todo = <<>> \/ call[t].result = "failed"
        /\ UNCHANGED <<setup, order, single, depth, frames, raced, met>>
    BY <1>7, Facts DEF Leave, At, IInv, fixed, container
  <2>2. End(t, "KeyError") \/ End(t, call[t].result)
    BY <1>7 DEF Leave
  <2>3. CASE End(t, "KeyError")
    BY <2>1, <2>3, EndKeepsPolicy
  <2>4. CASE End(t, call[t].result)
    BY <2>1, <2>4, EndKeepsPolicy
  <2>5. QED
    BY <2>2, <2>3, <2>4
<1>8. CASE Work(t)
  BY <1>8, WorkKeepsPolicy
<1>9. CASE Load(t) \/ StoreUp(t) \/ NextKey(t) \/ StoreDown(t)
  BY <1>9, LoadKeepsPolicy, StoreUpKeepsPolicy, NextKeyKeepsPolicy, StoreDownKeepsPolicy
<1>10. QED
  BY <1>1, <1>2, <1>3, <1>4, <1>5, <1>6, <1>7, <1>8, <1>9 DEF Step

LEMMA EnterKeepsPolicy ==
  ASSUME IInv, PolicyInv, NEW t \in Threads, NEW k \in Keys, Enter(t, k)
  PROVE  PolicyInv'
<1> DEFINE c == [pc |-> IF "limit" \in setup.layers THEN "hit" ELSE AfterLimit,
                 key |-> k, at |-> 0, todo |-> <<k>>, result |-> "ok"]
<1>1. /\ call[t] = NoCall /\ call' = [call EXCEPT ![t] = c]
      /\ met' = [u \in Threads |->
           IF u = t THEN {call[v].key : v \in Busy}
           ELSE IF u \in Busy THEN met[u] \cup {k} ELSE met[u]]
      /\ UNCHANGED <<setup, order, single, depth, frames, raced, last>>
  BY DEF Enter, container
<1>2. c.key = k /\ c.todo = <<k>>
  OBVIOUS
<1> HIDE DEF c
<1>3. call \in [Threads -> Call \cup {NoCall}] /\ frames[t] = <<>>
  BY <1>1 DEF IInv, Shapes, At
<1>4. \A u \in Threads : u # t => call'[u] = call[u] /\ (met'[u] = {} => met[u] = {})
  BY <1>1, <1>3
<1>5. CallsCovered'
  <2>1. \A u \in Threads : u # t => CallCovered(u)'
    BY <1>1, <1>4, CoveredKept
  <2>2. k \in ToSet(<<k>>)
    BY DEF ToSet
  <2>3. CallCovered(t)'
    BY <1>1, <1>2, <1>3, <2>2 DEF CallCovered
  <2>4. QED
    BY <2>1, <2>3 DEF CallsCovered
<1>6. PolicyHonoured'
  BY <1>1, HonouredKept
<1>7. QED
  BY <1>1, <1>3, <1>4, <1>5, <1>6, OutsideKeeps

LEMMA PolicyNext ==
  ASSUME IInv, PolicyInv, [Next]_vars
  PROVE  PolicyInv'
<1>1. CASE Tick
  <2>1. UNCHANGED <<setup, order, single, depth, frames, raced, call, met, last>>
    BY <1>1 DEF Tick, fixed, container
  <2>2. CallsCovered' /\ PolicyHonoured'
    BY <2>1, CoveredKept, HonouredKept DEF CallsCovered
  <2>3. QED
    BY <2>1, <2>2, OutsideKeeps
<1>2. CASE \E t \in Threads : Step(t)
  BY <1>2, PolicyStep
<1>3. CASE \E t \in Threads, k \in Keys : Enter(t, k)
  BY <1>3, EnterKeepsPolicy
<1>4. CASE UNCHANGED vars
  <2>1. UNCHANGED <<setup, order, single, depth, frames, raced, call, met, last>>
    BY <1>4 DEF vars
  <2>2. CallsCovered' /\ PolicyHonoured'
    BY <2>1, CoveredKept, HonouredKept DEF CallsCovered
  <2>3. QED
    BY <2>1, <2>2, OutsideKeeps
<1>5. QED
  BY <1>1, <1>2, <1>3, <1>4 DEF Next

\* Unless two threads changed the depth at the same time, a call that no other
\* call overlapped has had every singleton of its policy's order built, whatever
\* happened and failed before it: _policy_depth is back at 0 whenever nobody is
\* in a policy's loop.
THEOREM PolicyIsHonoured == Spec => []PolicyHonoured
<1>1. Init => PolicyInv
  BY PolicyInit
<1>2. IInv /\ PolicyInv /\ [Next]_vars => PolicyInv'
  BY PolicyNext
<1>3. PolicyInv => PolicyHonoured
  BY DEF PolicyInv
<1>4. QED
  BY <1>1, <1>2, <1>3, GuardInvariance, PTL DEF Spec

-----------------------------------------------------------------------------
(* The orders of the policies *)

\* Each root has the batches that its policy gives.
Ordered ==
  /\ setup \in Setups
  /\ order = [k \in Keys |-> Batches(setup.policy, setup.deps, setup.listed, k)]

\* Of whatever container: the order of every policy has for each root exactly the
\* keys it has to, each once, and keeps dependencies before what needs them.
THEOREM OrdersAreSound == Spec => []OrderSound
<1>1. Init => Ordered
  BY DEF Init, Ordered
<1>2. Ordered /\ [Next]_vars => Ordered'
  <2> SUFFICES ASSUME Ordered, [Next]_vars PROVE UNCHANGED <<setup, order>>
    BY DEF Ordered
  <2>1. CASE Tick
    BY <2>1 DEF Tick, fixed
  <2>2. CASE \E t \in Threads : Step(t)
    BY <2>2 DEF Step, CheckHit, ReadClock, Count, CheckGuard, Mark, Invalid, Leave, Work, Load,
                StoreUp, NextKey, StoreDown, fixed
  <2>3. CASE \E t \in Threads, k \in Keys : Enter(t, k)
    BY <2>3 DEF Enter
  <2>4. CASE UNCHANGED vars
    BY <2>4 DEF vars
  <2>5. QED
    BY <2>1, <2>2, <2>3, <2>4 DEF Next
<1>3. Ordered => OrderSound
  <2> SUFFICES ASSUME Ordered, NEW k \in Keys
               PROVE  SoundOrder(setup.policy, setup.deps, Keys, k, order[k])
    BY DEF OrderSound
  <2>1. SetupShape(setup) /\ IsGraph(setup.deps, Keys)
    BY SetupIs, SetupGraph DEF Ordered
  <2> DEFINE g == setup.deps
             listed == setup.listed
             policy == setup.policy
  <2>2. /\ IsGraph(g, Keys) /\ listed \in Seq(Keys) /\ IsInjective(listed)
        /\ ToSet(listed) = DOMAIN g
        /\ policy \in {"none", "lazy", "children", "parent", "eager", "parallel"}
    BY <2>1 DEF SetupShape, Policies
  <2>3. order[k] = Batches(policy, g, listed, k)
    BY DEF Ordered
  <2> HIDE DEF g, listed, policy
  <2>4. SoundOrder(policy, g, Keys, k, Batches(policy, g, listed, k))
    BY <2>2, BatchesAreSound
  <2>5. QED
    BY <2>3, <2>4 DEF g, policy
<1>4. QED
  BY <1>1, <1>2, <1>3, PTL DEF Spec

-----------------------------------------------------------------------------
(* Types *)

\* The types of what the other invariants leave open.
OtherTypes ==
  /\ order \in [Keys -> Seq(SUBSET Keys)]
  /\ resolving \subseteq Keys
  /\ single \subseteq setup.singletons
  /\ depth \in Int
  /\ frames \in [Threads -> Seq(Frame)]
  /\ begun \in 0..setup.calls
  /\ last \in [Threads -> Ended]
  /\ raced \in BOOLEAN

LEMMA TypesAtFirst ==
  ASSUME Init
  PROVE  OtherTypes
<1>1. SetupShape(setup) /\ IsGraph(setup.deps, Keys)
  BY SetupIs, SetupGraph DEF Init
<1>2. order \in [Keys -> Seq(SUBSET Keys)]
  <2> DEFINE g == setup.deps
             listed == setup.listed
             policy == setup.policy
             Q == Seq(SUBSET Keys)
  <2>1. /\ IsGraph(g, Keys) /\ listed \in Seq(Keys) /\ IsInjective(listed)
        /\ ToSet(listed) = DOMAIN g
        /\ policy \in {"none", "lazy", "children", "parent", "eager", "parallel"}
    BY <1>1 DEF SetupShape, Policies
  <2>2. order = [k \in Keys |-> Batches(policy, g, listed, k)]
    BY DEF Init
  <2> HIDE DEF g, listed, policy
  <2>3. \A k \in Keys : Batches(policy, g, listed, k) \in Q
    BY <2>1, BatchesAreSound
  <2> HIDE DEF Q
  <2>4. order \in [Keys -> Q]
    BY <2>2, <2>3
  <2>5. QED
    BY <2>4 DEF Q
<1>3. frames \in [Threads -> Seq(Frame)]
  BY EmptySeq DEF Init
<1>4. begun \in 0..setup.calls
  BY <1>1 DEF Init, SetupShape
<1>5. last \in [Threads -> Ended]
  <2> DEFINE k == CHOOSE k \in Keys : TRUE
  <2>1. k \in Keys
    BY KeysAssumption
  <2> HIDE DEF k
  <2>2. [key |-> k, result |-> "none", met |-> {}] \in Ended
    BY <2>1 DEF Ended, Results
  <2>3. last = [t \in Threads |-> [key |-> k, result |-> "none", met |-> {}]]
    BY DEF Init, k
  <2>4. QED
    BY <2>2, <2>3
<1>6. resolving \subseteq Keys /\ single \subseteq setup.singletons /\ depth \in Int
  BY DEF Init
<1>8. raced \in BOOLEAN
  BY DEF Init
<1>7. QED
  BY <1>2, <1>3, <1>4, <1>5, <1>6, <1>8 DEF OtherTypes

\* A result that is delivered leaves frames of the shape they have.
LEMMA DeliveredTypes ==
  ASSUME OtherTypes, NEW t \in Threads, NEW fs \in Seq(Frame), NEW k \in Keys,
         NEW r \in {"ok", "failed"}, Deliver(t, fs, k, r)
  PROVE  frames' \in [Threads -> Seq(Frame)]
<1>1. frames \in [Threads -> Seq(Frame)]
  BY DEF OtherTypes
<1>2. CASE fs = <<>>
  BY <1>1, <1>2 DEF Deliver
<1>3. CASE fs # <<>>
  <2> DEFINE f == Last(fs)
             g == IF r = "ok" THEN [f EXCEPT !.cache = @ \cup {k}]
                  ELSE [f EXCEPT !.pc = "unload", !.result = "failed"]
             s == Append(Front(fs), g)
  <2>1. frames' = [frames EXCEPT ![t] = s]
    BY <1>3 DEF Deliver
  <2>2. f \in Frame /\ Front(fs) \in Seq(Frame)
    BY <1>3, TopFrame
  <2>3. g \in Frame
    BY <2>2 DEF Frame
  <2> HIDE DEF g
  <2>4. s \in Seq(Frame)
    BY <2>2, <2>3, AppendProperties
  <2> HIDE DEF s
  <2>5. QED
    BY <1>1, <2>1, <2>4
<1>4. QED
  BY <1>2, <1>3

LEMMA GotTypes ==
  ASSUME OtherTypes, NEW t \in Threads, NEW k \in Keys, Get(t, k)
  PROVE  frames' \in [Threads -> Seq(Frame)] /\ single' \subseteq setup.singletons
<1>1. frames \in [Threads -> Seq(Frame)] /\ frames[t] \in Seq(Frame) /\ order[k] \in Seq(SUBSET Keys)
  BY DEF OtherTypes
<1>2. CASE setup.policy # "none" /\ depth = 0
  <2> DEFINE g == [pc |-> "load", root |-> k, left |-> order[k], cache |-> {}, loaded |-> 0,
                   result |-> "ok"]
             s == Append(frames[t], g)
  <2>1. frames' = [frames EXCEPT ![t] = s] /\ single' = single
    BY <1>1, <1>2 DEF Get
  <2>2. g \in Frame
    BY <1>1 DEF Frame
  <2> HIDE DEF g
  <2>3. s \in Seq(Frame)
    BY <1>1, <2>2, AppendProperties
  <2> HIDE DEF s
  <2>4. QED
    BY <1>1, <2>1, <2>3 DEF OtherTypes
<1>3. CASE ~(setup.policy # "none" /\ depth = 0)
  <2>1. PICK o \in Outcomes(k) : single' = o.single /\ Deliver(t, frames[t], k, o.result)
    BY <1>3 DEF Get
  <2>2. o.single \subseteq setup.singletons /\ o.result \in {"ok", "failed"}
    BY DEF Outcomes, Building, OtherTypes
  <2>3. QED
    BY <1>1, <2>1, <2>2, DeliveredTypes
<1>4. QED
  BY <1>2, <1>3

\* A frame that takes the place of the one on top.
LEMMA SetFrameTypes ==
  ASSUME OtherTypes, NEW t \in Threads, frames[t] # <<>>, NEW g \in Frame, SetFrame(t, g)
  PROVE  frames' \in [Threads -> Seq(Frame)]
<1> DEFINE s == Append(Front(frames[t]), g)
<1>1. frames \in [Threads -> Seq(Frame)]
  BY DEF OtherTypes
<1>2. frames' = [frames EXCEPT ![t] = s]
  BY <1>1 DEF SetFrame
<1>3. s \in Seq(Frame)
  BY <1>1, TopFrame, AppendProperties
<1> HIDE DEF s
<1>4. QED
  BY <1>1, <1>2, <1>3

LEMMA EndTypes ==
  ASSUME IInv, OtherTypes, NEW t \in Threads, call[t] # NoCall,
         NEW r \in Results, End(t, r)
  PROVE  last' \in [Threads -> Ended]
<1> DEFINE e == [key |-> call[t].key, result |-> r, met |-> met[t]]
<1>1. last' = [last EXCEPT ![t] = e] /\ last \in [Threads -> Ended]
  BY DEF End, OtherTypes
<1>2. call[t].key \in Keys /\ met[t] \subseteq Keys
  BY Facts DEF IInv, Shapes
<1>3. e \in Ended
  BY <1>2 DEF Ended
<1> HIDE DEF e
<1>4. QED
  BY <1>1, <1>3

LEMMA NextKeyTypes ==
  ASSUME OtherTypes, NEW t \in Threads, NextKey(t)
  PROVE  frames' \in [Threads -> Seq(Frame)] /\ single' \subseteq setup.singletons
<1> DEFINE f == Last(frames[t])
           known == single \cup f.cache
           missing == {i \in DOMAIN f.left : ~(f.left[i] \subseteq known)}
           first == CHOOSE i \in missing : \A j \in missing : i <= j
<1>1. frames[t] # <<>> /\ frames[t] \in Seq(Frame)
  BY DEF NextKey, InFrame, OtherTypes
<1>2. f \in Frame
  BY <1>1, TopFrame
<1>3. f.root \in Keys /\ f.left \in Seq(SUBSET Keys)
  BY <1>2 DEF Frame
<1>4. \/ missing = {} /\ SetFrame(t, [f EXCEPT !.pc = "unload"]) /\ single' = single
      \/ missing = {} /\ Get(t, f.root)
      \/ missing # {} /\ \E k \in f.left[first] : Get(t, k)
  BY DEF NextKey
<1>5. CASE SetFrame(t, [f EXCEPT !.pc = "unload"]) /\ single' = single
  <2>1. [f EXCEPT !.pc = "unload"] \in Frame
    BY <1>2 DEF Frame
  <2>2. QED
    BY <1>1, <1>5, <2>1, SetFrameTypes DEF OtherTypes
<1>6. CASE Get(t, f.root)
  BY <1>3, <1>6, GotTypes
<1>7. CASE missing # {} /\ \E k \in f.left[first] : Get(t, k)
  <2>1. DOMAIN f.left = 1..Len(f.left) /\ Len(f.left) \in Nat
    BY <1>3, LenProperties
  <2>2. missing \in SUBSET Nat /\ missing \subseteq 1..Len(f.left)
    BY <2>1
  <2> HIDE DEF missing
  <2>3. \E m \in missing : \A n \in missing : m <= n
    BY <1>7, <2>2, LeastNumber
  <2>4. first \in missing
    BY <2>3
  <2> HIDE DEF first
  <2>5. f.left[first] \subseteq Keys
    <3> DEFINE q == f.left
               Q == SUBSET Keys
    <3>1. q \in Seq(Q) /\ first \in 1..Len(q)
      BY <1>3, <2>2, <2>4
    <3> HIDE DEF q, Q
    <3>2. q[first] \in Q
      BY <3>1, ElementOfSeq
    <3>3. QED
      BY <3>2 DEF q, Q
  <2>6. QED
    BY <1>7, <2>5, GotTypes
<1>8. QED
  BY <1>4, <1>5, <1>6, <1>7

LEMMA StoreDownTypes ==
  ASSUME OtherTypes, NEW t \in Threads, StoreDown(t)
  PROVE  frames' \in [Threads -> Seq(Frame)] /\ depth' \in Int /\ raced' \in BOOLEAN
<1> DEFINE f == Last(frames[t])
           fs == Front(frames[t])
<1>1. /\ frames[t] # <<>> /\ frames[t] \in Seq(Frame)
      /\ depth' = f.loaded - 1 /\ raced' = (raced \/ depth # f.loaded)
      /\ Deliver(t, fs, f.root, f.result)
  BY DEF StoreDown, InFrame, OtherTypes
<1>2. f \in Frame /\ fs \in Seq(Frame)
  BY <1>1, TopFrame
<1>3. f.root \in Keys /\ f.result \in {"ok", "failed"} /\ f.loaded \in Int
  BY <1>2 DEF Frame
<1> HIDE DEF f, fs
<1>4. frames' \in [Threads -> Seq(Frame)]
  BY <1>1, <1>2, <1>3, DeliveredTypes
<1>5. QED
  BY <1>1, <1>3, <1>4

LEMMA LoadTypes ==
  ASSUME OtherTypes, NEW t \in Threads, Load(t) \/ StoreUp(t)
  PROVE  frames' \in [Threads -> Seq(Frame)] /\ depth' \in Int /\ raced' \in BOOLEAN
<1> DEFINE f == Last(frames[t])
<1>1. frames[t] # <<>> /\ frames[t] \in Seq(Frame) /\ depth \in Int /\ raced \in BOOLEAN
  BY DEF Load, StoreUp, InFrame, OtherTypes
<1>2. f \in Frame
  BY <1>1, TopFrame
<1>3. f.loaded \in Int
  BY <1>2 DEF Frame
<1>4. CASE Load(t)
  <2> DEFINE g == [f EXCEPT !.loaded = depth, !.pc = IF f.pc = "load" THEN "store" ELSE "unstore"]
  <2>1. SetFrame(t, g) /\ depth' = depth /\ raced' = raced
    BY <1>4 DEF Load
  <2>2. g \in Frame
    BY <1>1, <1>2 DEF Frame
  <2> HIDE DEF g
  <2>3. QED
    BY <1>1, <2>1, <2>2, SetFrameTypes
<1>5. CASE StoreUp(t)
  <2> DEFINE g == [f EXCEPT !.pc = "keys"]
  <2>1. SetFrame(t, g) /\ depth' = f.loaded + 1 /\ raced' = (raced \/ depth # f.loaded)
    BY <1>5 DEF StoreUp
  <2>2. g \in Frame
    BY <1>2 DEF Frame
  <2> HIDE DEF g
  <2>3. QED
    BY <1>1, <1>3, <2>1, <2>2, SetFrameTypes
<1>6. QED
  BY <1>4, <1>5

LEMMA StepTypes ==
  ASSUME IInv, OtherTypes, NEW t \in Threads, Step(t)
  PROVE  OtherTypes'
<1>1. UNCHANGED <<setup, order, begun>>
  BY DEF Step, CheckHit, ReadClock, Count, CheckGuard, Mark, Invalid, Leave, Work, Load,
         StoreUp, NextKey, StoreDown, fixed
<1>2. CASE CheckHit(t) \/ ReadClock(t) \/ Invalid(t)
  BY <1>1, <1>2 DEF CheckHit, ReadClock, Invalid, OtherTypes, container
<1>3. CASE Count(t)
  <2>1. UNCHANGED <<resolving, single, depth, frames, raced>> /\ call[t] # NoCall
    BY <1>3 DEF Count, At, container
  <2>2. End(t, "limited") \/ last' = last
    BY <1>3 DEF Count
  <2>3. last' \in [Threads -> Ended]
    BY <2>1, <2>2, EndTypes DEF Results, OtherTypes
  <2>4. QED
    BY <1>1, <2>1, <2>3 DEF OtherTypes
<1>4. CASE CheckGuard(t)
  <2>1. UNCHANGED <<resolving, single, depth, frames, raced>> /\ call[t] # NoCall
    BY <1>4 DEF CheckGuard, At, container
  <2>2. End(t, "cycle") \/ last' = last
    BY <1>4 DEF CheckGuard
  <2>3. last' \in [Threads -> Ended]
    BY <2>1, <2>2, EndTypes DEF Results, OtherTypes
  <2>4. QED
    BY <1>1, <2>1, <2>3 DEF OtherTypes
<1>5. CASE Mark(t)
  <2>1. call[t] # NoCall /\ resolving' = resolving \cup {call[t].key}
        /\ UNCHANGED <<single, depth, frames, raced, last>>
    BY <1>5 DEF Mark, At, container
  <2>2. call[t].key \in Keys
    BY <2>1, Facts DEF IInv
  <2>3. QED
    BY <1>1, <2>1, <2>2 DEF OtherTypes
<1>6. CASE Leave(t)
  <2>1. call[t] # NoCall /\ resolving' = resolving \ {call[t].key}
        /\ UNCHANGED <<single, depth, frames, raced>>
        /\ (End(t, "KeyError") \/ End(t, call[t].result))
    BY <1>6 DEF Leave, At, container
  <2>2. call[t].result \in Results /\ "KeyError" \in Results
    BY <2>1, Facts DEF IInv, Call, Results
  <2>3. last' \in [Threads -> Ended]
    BY <2>1, <2>2, EndTypes
  <2>4. QED
    BY <1>1, <2>1, <2>3 DEF OtherTypes
<1>7. CASE Work(t)
  <2>1. /\ call[t] # NoCall /\ call[t].todo # <<>> /\ Get(t, Head(call[t].todo))
        /\ UNCHANGED <<resolving, depth, last, raced>>
    BY <1>7 DEF Work, At
  <2>2. Head(call[t].todo) \in Keys
    BY <2>1, Facts, CallFields, HeadTailProperties DEF IInv
  <2>3. frames' \in [Threads -> Seq(Frame)] /\ single' \subseteq setup.singletons
    BY <2>1, <2>2, GotTypes
  <2>4. QED
    BY <1>1, <2>1, <2>3 DEF OtherTypes
<1>8. CASE Load(t) \/ StoreUp(t)
  <2>1. UNCHANGED <<resolving, single, last>>
    BY <1>8 DEF Load, StoreUp
  <2>2. QED
    BY <1>1, <1>8, <2>1, LoadTypes DEF OtherTypes
<1>9. CASE NextKey(t)
  <2>1. UNCHANGED <<resolving, depth, last, raced>>
    BY <1>9 DEF NextKey
  <2>2. QED
    BY <1>1, <1>9, <2>1, NextKeyTypes DEF OtherTypes
<1>10. CASE StoreDown(t)
  <2>1. UNCHANGED <<resolving, single, last>>
    BY <1>10 DEF StoreDown
  <2>2. QED
    BY <1>1, <1>10, <2>1, StoreDownTypes DEF OtherTypes
<1>11. QED
  BY <1>2, <1>3, <1>4, <1>5, <1>6, <1>7, <1>8, <1>9, <1>10 DEF Step

\* Every variable keeps its type.
THEOREM LayersTypes == Spec => []TypeOK
<1>1. Init => OtherTypes
  BY TypesAtFirst
<1>2. IInv /\ OtherTypes /\ [Next]_vars => OtherTypes'
  <2> SUFFICES ASSUME IInv, OtherTypes, [Next]_vars PROVE OtherTypes'
    OBVIOUS
  <2>1. CASE Tick \/ UNCHANGED vars
    BY <2>1 DEF Tick, vars, fixed, container, OtherTypes
  <2>2. CASE \E t \in Threads : Step(t)
    BY <2>2, StepTypes
  <2>3. CASE \E t \in Threads, k \in Keys : Enter(t, k)
    <3>1. /\ begun < setup.calls /\ begun' = begun + 1
          /\ UNCHANGED <<setup, order, single, depth, frames, raced, resolving, last>>
      BY <2>3 DEF Enter, container
    <3>2. setup.calls \in Nat
      BY SetupIs DEF IInv, Shapes, SetupShape
    <3>3. begun' \in 0..setup.calls
      BY <3>1, <3>2 DEF OtherTypes
    <3>4. QED
      BY <3>1, <3>3 DEF OtherTypes
  <2>4. QED
    BY <2>1, <2>2, <2>3 DEF Next
<1>3. Init => LimitInv
  BY LimitInit
<1>4. IInv /\ LimitInv /\ [Next]_vars => LimitInv'
  BY LimitNext
<1>5. IInv /\ LimitInv /\ OtherTypes => TypeOK
  <2> SUFFICES ASSUME IInv, LimitInv, OtherTypes PROVE TypeOK
    OBVIOUS
  <2>1. stamps \in [Keys -> Seq(0..MaxTime)]
        /\ log \in Seq([key : Keys, at : 0..MaxTime, refused : BOOLEAN])
    BY DEF LimitInv, LimitTypes, Record
  <2>2. SetupShape(setup)
    BY SetupIs DEF IInv, Shapes
  <2>3. QED
    BY <2>1, <2>2 DEF IInv, Shapes, OtherTypes, TypeOK
<1>6. QED
  BY <1>1, <1>2, <1>3, <1>4, <1>5, GuardInvariance, PTL DEF Spec
=============================================================================
