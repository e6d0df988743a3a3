------------------------- MODULE TraceUtils_proofs -------------------------
(***************************************************************************)
(* Proofs about the trace-ingestion loop of TraceUtils, for every set of   *)
(* frame ids, every number of locals, every pc range and trace length.     *)
(***************************************************************************)
EXTENDS TraceUtils, SequenceTheorems, TLAPS

USE FrameIdAssumption, NumLocalsAssumption, MaxPcAssumption,
    MaxEventsAssumption, WellNestedAssumption

\* The frame on top of a (type-correct) stack is a key of the lifetime maps.
LEMMA CurrentFrameIsKey ==
    ASSUME frameIDs \in Seq(FrameId)
    PROVE  CurrentFrameID \in Keys
BY DEF CurrentFrameID, Keys

\* Popping a stack of frame ids leaves a stack of frame ids.
LEMMA PopFrameType ==
    ASSUME NEW s \in Seq(FrameId)
    PROVE  PopFrame(s) \in Seq(FrameId)
BY DEF PopFrame

\* Recording a raw event keeps `consumed` a sequence of annotated raw events.
LEMMA ConsumeType ==
    ASSUME NEW e \in RawEvent,
           consumed \in Seq([ev : RawEvent, top : Keys]),
           frameIDs \in Seq(FrameId),
           Consume(e)
    PROVE  consumed' \in Seq([ev : RawEvent, top : Keys])
BY CurrentFrameIsKey DEF Consume

-----------------------------------------------------------------------------
(***************************************************************************)
(* Type correctness: readTrace only ever stores frame ids on its stack,    *)
(* pcs, FRAME_LIFETIME or holes in the lifetime rows, pcs or holes in the  *)
(* maxima, and well-formed canonical events.                               *)
(***************************************************************************)
THEOREM TypeCorrect == Spec => []TypeOK
<1>1. Init => TypeOK
  BY DEF Init, TypeOK, EndValue, MaxValue
<1>2. TypeOK /\ [Next]_vars => TypeOK'
  <2> SUFFICES ASSUME TypeOK, [Next]_vars PROVE TypeOK'
    OBVIOUS
  <2>1. ASSUME NEW f \in FrameId, NEW n \in 0 .. NumLocals, OpenFrame(f, n)
        PROVE  TypeOK'
    <3>1. consumed' \in Seq([ev : RawEvent, top : Keys])
      <4>1. [tag |-> "OpenFrame", frame_id |-> f, nparams |-> n] \in RawEvent
        BY DEF RawEvent
      <4>2. QED BY <2>1, <4>1, ConsumeType DEF OpenFrame, TypeOK
    <3>2. localLifetimeEnds' \in [Keys -> [Slots -> EndValue]]
      BY <2>1 DEF OpenFrame, TypeOK, EndValue, Keys
    <3>3. QED BY <2>1, <3>1, <3>2 DEF OpenFrame, TypeOK, TraceEvent, Keys
  <2>2. ASSUME NEW f \in FrameId, CloseFrame(f)
        PROVE  TypeOK'
    <3>1. consumed' \in Seq([ev : RawEvent, top : Keys])
      <4>1. [tag |-> "CloseFrame", frame_id |-> f] \in RawEvent
        BY DEF RawEvent
      <4>2. QED BY <2>2, <4>1, ConsumeType DEF CloseFrame, TypeOK
    <3>2. frameIDs' \in Seq(FrameId)
      BY <2>2, PopFrameType DEF CloseFrame, TypeOK
    <3>3. QED BY <2>2, <3>1, <3>2 DEF CloseFrame, TypeOK, TraceEvent
  <2>3. ASSUME NEW pc \in Pcs, Instruction(pc)
        PROVE  TypeOK'
    <3>1. consumed' \in Seq([ev : RawEvent, top : Keys])
      <4>1. [tag |-> "Instruction", pc |-> pc] \in RawEvent
        BY DEF RawEvent
      <4>2. QED BY <2>3, <4>1, ConsumeType DEF Instruction, TypeOK
    <3>2. CurrentFrameID \in Keys
      BY CurrentFrameIsKey DEF TypeOK
    <3>3. localLifetimeEnds' \in [Keys -> [Slots -> EndValue]]
      BY <2>3, <3>2 DEF Instruction, SetLifetimeEnds, TypeOK, EndValue, Pcs
    <3>4. locaLifetimeEndsMax' \in [Keys -> [Slots -> MaxValue]]
      BY <2>3, <3>2 DEF Instruction, SetLifetimeEndsMax, TypeOK, MaxValue, Pcs
    <3>5. QED BY <2>3, <3>1, <3>3, <3>4 DEF Instruction, TypeOK, TraceEvent
  <2>4. ASSUME NEW kind \in {"Write", "Read"}, NEW loc \in Location,
               AccessEffect(kind, loc)
        PROVE  TypeOK'
    <3>1. consumed' \in Seq([ev : RawEvent, top : Keys])
      <4>1. [tag |-> "Effect", kind |-> kind, loc |-> loc] \in RawEvent
        BY DEF RawEvent
      <4>2. QED BY <2>4, <4>1, ConsumeType DEF AccessEffect, TypeOK
    <3>2. CurrentFrameID \in Keys
      BY CurrentFrameIsKey DEF TypeOK
    <3>3. localLifetimeEnds' \in [Keys -> [Slots -> EndValue]]
      BY <2>4 DEF AccessEffect, MarkAlive, TypeOK, EndValue, Location, Keys
    <3>4. events' \in Seq(TraceEvent)
      BY <2>4, <3>2 DEF AccessEffect, TypeOK, TraceEvent, Location
    <3>5. QED BY <2>4, <3>1, <3>3, <3>4 DEF AccessEffect, MarkAlive, TypeOK
  <2>5. ASSUME NEW kind \in {"Write", "Read"}, NEW loc \in Location,
               DroppedEffect(kind, loc)
        PROVE  TypeOK'
    <3>1. [tag |-> "Effect", kind |-> kind, loc |-> loc] \in RawEvent
      BY DEF RawEvent
    <3>2. QED BY <2>5, <3>1, ConsumeType DEF DroppedEffect, TypeOK
  <2>6. ASSUME IgnoredEffect("PushOrPop")
        PROVE  TypeOK'
    <3>1. [tag |-> "Effect", kind |-> "PushOrPop"] \in RawEvent
      BY DEF RawEvent
    <3>2. QED BY <2>6, <3>1, ConsumeType DEF IgnoredEffect, TypeOK
  <2>7. CASE UNCHANGED vars
    BY <2>7 DEF vars, TypeOK
  <2>8. QED
    BY <2>1, <2>2, <2>3, <2>4, <2>5, <2>6, <2>7 DEF Next
<1>3. QED
  BY <1>1, <1>2, PTL DEF Spec

-----------------------------------------------------------------------------
(***************************************************************************)
(* An end of lifetime that is a pc equals the slot's recorded maximum, in  *)
(* every reachable state: the Instruction handler assigns the two         *)
(* together, OpenFrame and the effect handler only ever store              *)
(* FRAME_LIFETIME, which is not a pc.  Together with the maxima only ever  *)
(* growing, this is why a later loop pass cannot lower a recorded end.     *)
(***************************************************************************)
THEOREM EndOfLifeIsMaxPcHolds == Spec => []EndOfLifeIsMaxPc
<1> DEFINE Inv == TypeOK /\ EndOfLifeIsMaxPc
<1>1. Init => Inv
  BY DEF Init, TypeOK, EndValue, MaxValue, EndOfLifeIsMaxPc, Pcs, UNDEFINED
<1>2. Inv /\ [Next]_vars => EndOfLifeIsMaxPc'
  <2> SUFFICES ASSUME TypeOK, EndOfLifeIsMaxPc, [Next]_vars
               PROVE  EndOfLifeIsMaxPc'
    OBVIOUS
  <2>1. ASSUME NEW f \in FrameId, NEW n \in 0 .. NumLocals, OpenFrame(f, n)
        PROVE  EndOfLifeIsMaxPc'
    BY <2>1 DEF OpenFrame, EndOfLifeIsMaxPc, TypeOK, Keys, Pcs, FRAME_LIFETIME
  <2>2. ASSUME NEW f \in FrameId, CloseFrame(f)
        PROVE  EndOfLifeIsMaxPc'
    BY <2>2 DEF CloseFrame, EndOfLifeIsMaxPc
  <2>3. ASSUME NEW pc \in Pcs, Instruction(pc)
        PROVE  EndOfLifeIsMaxPc'
    <3>1. CurrentFrameID \in Keys
      BY CurrentFrameIsKey DEF TypeOK
    <3>2. QED
      BY <2>3, <3>1 DEF Instruction, SetLifetimeEnds, SetLifetimeEndsMax,
                        EndOfLifeIsMaxPc, TypeOK
  <2>4. ASSUME NEW kind \in {"Write", "Read"}, NEW loc \in Location,
               AccessEffect(kind, loc)
        PROVE  EndOfLifeIsMaxPc'
    BY <2>4 DEF AccessEffect, MarkAlive, EndOfLifeIsMaxPc, TypeOK, Location,
                Keys, Pcs, FRAME_LIFETIME
  <2>5. ASSUME NEW kind \in {"Write", "Read"}, NEW loc \in Location,
               DroppedEffect(kind, loc)
        PROVE  EndOfLifeIsMaxPc'
    BY <2>5 DEF DroppedEffect, EndOfLifeIsMaxPc
  <2>6. ASSUME IgnoredEffect("PushOrPop")
        PROVE  EndOfLifeIsMaxPc'
    BY <2>6 DEF IgnoredEffect, EndOfLifeIsMaxPc
  <2>7. CASE UNCHANGED vars
    BY <2>7 DEF vars, EndOfLifeIsMaxPc
  <2>8. QED
    BY <2>1, <2>2, <2>3, <2>4, <2>5, <2>6, <2>7 DEF Next
<1>3. QED
  BY <1>1, <1>2, TypeCorrect, PTL DEF Spec



-----------------------------------------------------------------------------
(***************************************************************************)
(* LastEventOf on any sequence s of canonical events, so that what is      *)
(* shown of it holds of events and of events' alike.                       *)
(***************************************************************************)
Is(s, j, type, f) == s[j].type = type /\ s[j].id = f

LastIn(s, type, f) ==
    IF \E j \in 1 .. Len(s) : Is(s, j, type, f)
      THEN CHOOSE j \in 1 .. Len(s) :
               Is(s, j, type, f) /\ \A m \in j + 1 .. Len(s) : ~Is(s, m, type, f)
      ELSE 0

\* k is the position of the last event of the type naming f (0: none).
IsLast(s, type, f, k) ==
    \/ k = 0 /\ \A j \in 1 .. Len(s) : ~Is(s, j, type, f)
    \/ /\ k \in 1 .. Len(s) /\ Is(s, k, type, f)
       /\ \A m \in k + 1 .. Len(s) : ~Is(s, m, type, f)

\* LastEventOf is LastIn of the events, now and in the next state.
LEMMA LastEventOfIsLastIn ==
    ASSUME NEW type, NEW f
    PROVE  /\ LastEventOf(type, f) = LastIn(events, type, f)
           /\ LastEventOf(type, f)' = LastIn(events', type, f)
BY DEF LastEventOf, LastIn, Is

\* There is one last position.
LEMMA IsLastUnique ==
    ASSUME NEW s, Len(s) \in Nat, NEW type, NEW f, NEW k1, NEW k2,
           IsLast(s, type, f, k1), IsLast(s, type, f, k2)
    PROVE  k1 = k2
BY DEF IsLast

\* Appending an event e: it is the last of its kind, or the last one stays.
LEMMA LastInAppend ==
    ASSUME NEW S, NEW s \in Seq(S), NEW e \in S, NEW type, NEW f,
           IsLast(s, type, f, LastIn(s, type, f))
    PROVE  /\ IsLast(Append(s, e), type, f, LastIn(Append(s, e), type, f))
           /\ LastIn(Append(s, e), type, f) =
                 IF e.type = type /\ e.id = f THEN Len(s) + 1 ELSE LastIn(s, type, f)
<1> DEFINE s2 == Append(s, e)
           k == LastIn(s, type, f)
           P(j) == Is(s2, j, type, f) /\ \A m \in j + 1 .. Len(s2) : ~Is(s2, m, type, f)
<1>1. Len(s2) = Len(s) + 1 /\ Len(s) \in Nat
  OBVIOUS
<1>2. \A j \in 1 .. Len(s) : Is(s2, j, type, f) <=> Is(s, j, type, f)
  BY DEF Is
<1>3. Is(s2, Len(s) + 1, type, f) <=> (e.type = type /\ e.id = f)
  BY DEF Is
<1>4. CASE e.type = type /\ e.id = f
  <2>1. IsLast(s2, type, f, Len(s) + 1)
    BY <1>1, <1>3, <1>4 DEF IsLast
  <2>2. P(Len(s) + 1)
    BY <2>1, <1>1 DEF IsLast
  <2>3. LastIn(s2, type, f) = CHOOSE j \in 1 .. Len(s2) : P(j)
    BY <2>2, <1>1 DEF LastIn
  <2>4. P(LastIn(s2, type, f)) /\ LastIn(s2, type, f) \in 1 .. Len(s2)
    BY <2>2, <2>3, <1>1
  <2>5. IsLast(s2, type, f, LastIn(s2, type, f))
    BY <2>4 DEF IsLast
  <2>6. LastIn(s2, type, f) = Len(s) + 1
    BY <2>1, <2>5, <1>1, IsLastUnique
  <2>7. QED BY <1>4, <2>5, <2>6
<1>5. CASE ~(e.type = type /\ e.id = f)
  <2>1. IsLast(s2, type, f, k)
    BY <1>1, <1>2, <1>3, <1>5 DEF IsLast
  <2>2. CASE k = 0
    <3>1. \A j \in 1 .. Len(s2) : ~Is(s2, j, type, f)
      BY <2>1, <2>2 DEF IsLast
    <3>2. QED BY <2>1, <2>2, <3>1, <1>5 DEF LastIn
  <2>3. CASE k # 0
    <3>1. k \in 1 .. Len(s2) /\ P(k)
      BY <2>1, <2>3, <1>1 DEF IsLast
    <3>2. LastIn(s2, type, f) = CHOOSE j \in 1 .. Len(s2) : P(j)
      BY <3>1 DEF LastIn
    <3>3. P(LastIn(s2, type, f)) /\ LastIn(s2, type, f) \in 1 .. Len(s2)
      BY <3>1, <3>2
    <3>4. IsLast(s2, type, f, LastIn(s2, type, f))
      BY <3>3 DEF IsLast
    <3>5. LastIn(s2, type, f) = k
      BY <2>1, <3>4, <1>1, IsLastUnique
    <3>6. QED BY <1>5, <3>4, <3>5
  <2>4. QED BY <2>2, <2>3
<1>6. QED BY <1>4, <1>5


Kinds == {"OpenFrame", "CloseFrame"}

\* LastEventOf names the last OpenFrame or CloseFrame of each frame.
LastFacts ==
    \A type \in Kinds, f \in FrameId : IsLast(events, type, f, LastIn(events, type, f))

\* No frame id is twice on the reader's stack.
NoDup == \A a, b \in 1 .. Len(frameIDs) : a # b => frameIDs[a] # frameIDs[b]

\* FrameStackMatchesEvents for the events ev and the stack st.
StackMatches(ev, st) ==
    /\ \A f \in FrameId :
          (\E i \in 1 .. Len(st) : st[i] = f) <=>
              LastIn(ev, "OpenFrame", f) > LastIn(ev, "CloseFrame", f)
    /\ \A a, b \in 1 .. Len(st) :
          a < b => LastIn(ev, "OpenFrame", st[a]) < LastIn(ev, "OpenFrame", st[b])

\* StackMatches of the events and the stack is FrameStackMatchesEvents.
LEMMA StackMatchesIsProperty ==
    /\ FrameStackMatchesEvents <=> StackMatches(events, frameIDs)
    /\ FrameStackMatchesEvents' <=> StackMatches(events', frameIDs')
BY DEF FrameStackMatchesEvents, StackMatches, OnStack, OpenInEvents, LastEventOf, LastIn, Is

\* The inductive invariant of FrameStackMatchesEvents.
FInv == LastFacts /\ NoDup /\ StackMatches(events, frameIDs)

\* A last position lies within the events.
LEMMA LastBound ==
    ASSUME TypeOK, LastFacts
    PROVE  \A type \in Kinds, f \in FrameId : LastIn(events, type, f) \in 0 .. Len(events)
BY DEF LastFacts, IsLast, TypeOK

\* Emitting a canonical event e: it becomes the last of its kind for its
\* frame; every other last position stays.
LEMMA EventsAppend ==
    ASSUME TypeOK, LastFacts, NEW e \in TraceEvent, events' = Append(events, e)
    PROVE  /\ LastFacts'
           /\ \A type \in Kinds, f \in FrameId :
                 LastIn(events', type, f) =
                     IF e.type = type /\ e.id = f THEN Len(events) + 1
                     ELSE LastIn(events, type, f)
BY LastInAppend DEF LastFacts, TypeOK

\* Instructions and effects: the stack stays, no frame event is emitted.
LEMMA StackSteady ==
    ASSUME TypeOK, FInv, UNCHANGED frameIDs,
           \/ UNCHANGED events
           \/ \E e \in TraceEvent : e.type \notin Kinds /\ events' = Append(events, e)
    PROVE  FInv'
<1>1. /\ LastFacts'
      /\ \A type \in Kinds, f \in FrameId : LastIn(events', type, f) = LastIn(events, type, f)
  BY EventsAppend DEF FInv, LastFacts
<1>2. QED BY <1>1 DEF FInv, NoDup, StackMatches, Kinds, TypeOK

\* OpenFrame(f): f was not on the stack and not open; it is pushed, and its
\* OpenFrame is the newest event.
LEMMA OpenFrameKeeps ==
    ASSUME TypeOK, FInv, NEW f \in FrameId, NEW n \in 0 .. NumLocals, OpenFrame(f, n)
    PROVE  FInv'
<1> DEFINE e == [type |-> "OpenFrame", id |-> f, nparams |-> n]
           K == Len(frameIDs)
           N == Len(events)
           Op(ev, g) == LastIn(ev, "OpenFrame", g)
           Cl(ev, g) == LastIn(ev, "CloseFrame", g)
<1>1. e \in TraceEvent /\ events' = Append(events, e) /\ frameIDs' = Append(frameIDs, f)
      /\ ~OnStack(f)
  BY DEF OpenFrame, TraceEvent
<1>2. /\ LastFacts'
      /\ \A g \in FrameId : Op(events', g) = IF g = f THEN N + 1 ELSE Op(events, g)
      /\ \A g \in FrameId : Cl(events', g) = Cl(events, g)
  BY <1>1, EventsAppend DEF FInv, Kinds
<1>3. \A g \in FrameId : Op(events, g) \in 0 .. N /\ Cl(events, g) \in 0 .. N
  BY LastBound DEF FInv, Kinds
<1>4. frameIDs \in Seq(FrameId) /\ K \in Nat /\ N \in Nat
  BY DEF TypeOK
<1>5. \A i \in 1 .. K : frameIDs[i] # f
  BY <1>1 DEF OnStack
<1>6. NoDup'
  BY <1>1, <1>4, <1>5 DEF FInv, NoDup
<1>7. \A g \in FrameId : (\E i \in 1 .. Len(frameIDs') : frameIDs'[i] = g) <=>
                          Op(events', g) > Cl(events', g)
  <2>1. Op(events', f) > Cl(events', f)
    BY <1>2, <1>3
  <2>2. ASSUME NEW g \in FrameId, g # f
        PROVE  /\ (\E i \in 1 .. Len(frameIDs') : frameIDs'[i] = g) <=>
                      (\E i \in 1 .. K : frameIDs[i] = g)
               /\ Op(events', g) = Op(events, g) /\ Cl(events', g) = Cl(events, g)
    BY <1>1, <1>2, <1>4, <2>2
  <2>3. QED BY <1>1, <1>4, <2>1, <2>2 DEF FInv, StackMatches
<1>8. ASSUME NEW a \in 1 .. Len(frameIDs'), NEW b \in 1 .. Len(frameIDs'), a < b
      PROVE  Op(events', frameIDs'[a]) < Op(events', frameIDs'[b])
  <2>1. a \in 1 .. K /\ frameIDs'[a] = frameIDs[a] /\ frameIDs[a] \in FrameId
    BY <1>1, <1>4, <1>8
  <2>2. Op(events', frameIDs[a]) = Op(events, frameIDs[a])
    BY <1>2, <1>5, <2>1
  <2>3. CASE b = K + 1
    <3>1. frameIDs'[b] = f
      BY <1>1, <1>4, <2>3
    <3>2. QED BY <1>2, <1>3, <2>1, <2>2, <3>1
  <2>4. CASE b # K + 1
    <3>0. Len(frameIDs') = K + 1
      BY <1>1, <1>4
    <3>1. b \in 1 .. K
      BY <1>4, <1>8, <2>4, <3>0
    <3>4. frameIDs'[b] = frameIDs[b] /\ frameIDs[b] \in FrameId
      BY <1>1, <1>4, <3>1
    <3>2. Op(events', frameIDs[b]) = Op(events, frameIDs[b])
      BY <1>2, <1>5, <3>1, <3>4
    <3>3. QED BY <1>8, <2>1, <2>2, <3>1, <3>2, <3>4 DEF FInv, StackMatches
  <2>5. QED BY <2>3, <2>4
<1>9. QED BY <1>2, <1>6, <1>7, <1>8 DEF FInv, StackMatches


\* Arithmetic on a positive length, stated over a plain number: Z3 does
\* not find it when the number is Len(s).
LEMMA PredPositive ==
    ASSUME NEW n \in Nat, n # 0
    PROVE  (IF 1 <= n - 1 THEN n - 1 ELSE 0) = n - 1
  OBVIOUS

\* PopFrame on a non-empty stack: the stack without its top, the order of
\* the frames below kept.
LEMMA PopLen ==
    ASSUME NEW S, NEW s \in Seq(S), s # << >>
    PROVE  /\ SubSeq(s, 1, Len(s) - 1) \in Seq(S)
           /\ Len(SubSeq(s, 1, Len(s) - 1)) = Len(s) - 1
           /\ \A i \in 1 .. Len(s) - 1 : SubSeq(s, 1, Len(s) - 1)[i] = s[i]
<1>1. Len(s) \in Nat /\ Len(s) # 0
  BY EmptySeq, LenProperties
<1>2. \A i \in 1 .. Len(s) - 1 : s[i] \in S
  BY <1>1
<1>3. /\ SubSeq(s, 1, Len(s) - 1) \in Seq(S)
      /\ Len(SubSeq(s, 1, Len(s) - 1)) = IF 1 <= Len(s) - 1 THEN Len(s) - 1 ELSE 0
      /\ \A i \in 1 .. Len(s) - 1 : SubSeq(s, 1, Len(s) - 1)[i] = s[1 + i - 1]
  BY <1>1, <1>2, SubSeqProperties
<1>4. (IF 1 <= Len(s) - 1 THEN Len(s) - 1 ELSE 0) = Len(s) - 1
  BY <1>1, PredPositive
<1>5. QED BY <1>3, <1>4

\* CloseFrame(f) in a well-nested trace: f is on top, and only there; it
\* is popped, and its CloseFrame is the newest event.
LEMMA CloseFrameKeeps ==
    ASSUME WellNested, TypeOK, FInv, NEW f \in FrameId, CloseFrame(f)
    PROVE  FInv'
<1> DEFINE e == [type |-> "CloseFrame", id |-> f]
           K == Len(frameIDs)
           N == Len(events)
           Op(ev, g) == LastIn(ev, "OpenFrame", g)
           Cl(ev, g) == LastIn(ev, "CloseFrame", g)
<1>1. frameIDs \in Seq(FrameId) /\ K \in Nat /\ N \in Nat
  BY DEF TypeOK
<1>2. /\ frameIDs # << >> /\ K >= 1 /\ frameIDs[K] = f
      /\ frameIDs' = SubSeq(frameIDs, 1, K - 1)
      /\ e \in TraceEvent /\ events' = Append(events, e)
  BY <1>1 DEF CloseFrame, CurrentFrameID, PopFrame, TraceEvent
<1>3. /\ LastFacts'
      /\ \A g \in FrameId : Op(events', g) = Op(events, g)
      /\ \A g \in FrameId : Cl(events', g) = IF g = f THEN N + 1 ELSE Cl(events, g)
  BY <1>2, EventsAppend DEF FInv, Kinds
<1>4. \A g \in FrameId : Op(events, g) \in 0 .. N
  BY LastBound DEF FInv, Kinds
<1>5. Len(frameIDs') = K - 1 /\ \A i \in 1 .. K - 1 : frameIDs'[i] = frameIDs[i]
  BY <1>1, <1>2, PopLen
<1>6. \A i \in 1 .. K - 1 : frameIDs[i] # f
  BY <1>1, <1>2 DEF FInv, NoDup
<1>7. NoDup'
  BY <1>1, <1>5 DEF FInv, NoDup
<1>8. ASSUME NEW g \in FrameId
      PROVE  (\E i \in 1 .. Len(frameIDs') : frameIDs'[i] = g) <=>
                 Op(events', g) > Cl(events', g)
  <2>1. CASE g = f
    <3>1. ~\E i \in 1 .. Len(frameIDs') : frameIDs'[i] = g
      BY <1>5, <1>6, <2>1
    <3>2. ~(Op(events', g) > Cl(events', g))
      BY <1>1, <1>3, <1>4, <2>1
    <3>3. QED BY <3>1, <3>2
  <2>2. CASE g # f
    <3>1. (\E i \in 1 .. Len(frameIDs') : frameIDs'[i] = g) <=>
              (\E i \in 1 .. K : frameIDs[i] = g)
      <4>1. ASSUME NEW i \in 1 .. K, frameIDs[i] = g PROVE i \in 1 .. K - 1
        BY <1>2, <2>2, <4>1
      <4>2. QED BY <1>1, <1>5, <4>1
    <3>2. Op(events', g) = Op(events, g) /\ Cl(events', g) = Cl(events, g)
      BY <1>3, <2>2
    <3>3. QED BY <3>1, <3>2 DEF FInv, StackMatches
  <2>3. QED BY <2>1, <2>2
<1>9. ASSUME NEW a \in 1 .. Len(frameIDs'), NEW b \in 1 .. Len(frameIDs'), a < b
      PROVE  Op(events', frameIDs'[a]) < Op(events', frameIDs'[b])
  <2>1. a \in 1 .. K /\ b \in 1 .. K
    BY <1>1, <1>5
  <2>2. frameIDs'[a] = frameIDs[a] /\ frameIDs'[b] = frameIDs[b]
    BY <1>5
  <2>3. frameIDs[a] \in FrameId /\ frameIDs[b] \in FrameId
    BY <1>1, <2>1
  <2>4. QED BY <1>3, <1>9, <2>1, <2>2, <2>3 DEF FInv, StackMatches
<1>10. QED BY <1>3, <1>7, <1>8, <1>9 DEF FInv, StackMatches


\* readTrace starts with no events and an empty stack.
LEMMA InitFInv ==
    Init => FInv
<1> SUFFICES ASSUME Init PROVE FInv
  OBVIOUS
<1>1. \A type \in Kinds, f \in FrameId : LastIn(events, type, f) = 0
  BY DEF Init, LastIn
<1>2. LastFacts
  BY <1>1 DEF Init, LastFacts, IsLast
<1>3. QED BY <1>1, <1>2 DEF Init, FInv, NoDup, StackMatches, Kinds

\* Every iteration of readTrace's loop keeps FInv in a well-nested trace.
LEMMA FInvStep ==
    ASSUME WellNested, TypeOK, FInv, [Next]_vars
    PROVE  FInv'
<1>1. CASE \E f \in FrameId, n \in 0 .. NumLocals : OpenFrame(f, n)
  BY <1>1, OpenFrameKeeps
<1>2. CASE \E f \in FrameId : CloseFrame(f)
  BY <1>2, CloseFrameKeeps
<1>3. ASSUME NEW pc \in Pcs, Instruction(pc)
      PROVE  FInv'
  <2>1. [type |-> "Instruction", pc |-> pc] \in TraceEvent
    BY DEF TraceEvent
  <2>2. QED BY <1>3, <2>1, StackSteady DEF Instruction, Kinds
<1>4. ASSUME NEW kind \in {"Write", "Read"}, NEW loc \in Location, AccessEffect(kind, loc)
      PROVE  FInv'
  <2>1. CurrentFrameID \in Keys /\ loc.index \in Slots
    BY CurrentFrameIsKey DEF TypeOK, Location
  <2>2. [type |-> "Effect", frameId |-> CurrentFrameID, localIndex |-> loc.index] \in TraceEvent
    BY <2>1 DEF TraceEvent
  <2>3. QED BY <1>4, <2>2, StackSteady DEF AccessEffect, Kinds
<1>5. ASSUME NEW kind \in {"Write", "Read"}, NEW loc \in Location, DroppedEffect(kind, loc)
      PROVE  FInv'
  BY <1>5, StackSteady DEF DroppedEffect
<1>6. CASE IgnoredEffect("PushOrPop")
  BY <1>6, StackSteady DEF IgnoredEffect
<1>7. CASE UNCHANGED vars
  BY <1>7, StackSteady DEF vars
<1>8. QED BY <1>1, <1>2, <1>3, <1>4, <1>5, <1>6, <1>7 DEF Next

(***************************************************************************)
(* In a well-nested trace, the reader's stack is the stack of frames the   *)
(* emitted OpenFrame/CloseFrame events leave open, in opening order.  It   *)
(* rests on FInv: the last open and close of every frame are carried as    *)
(* positions (the provers cannot show a last position exists by induction  *)
(* on the events), and no frame id is twice on the stack, so popping the   *)
(* top leaves the frames below it open.                                    *)
(***************************************************************************)
THEOREM FrameStackMatchesEventsHolds ==
    ASSUME WellNested
    PROVE  Spec => []FrameStackMatchesEvents
<1>1. Init => FInv
  BY InitFInv
<1>2. TypeOK /\ FInv /\ [Next]_vars => FInv'
  BY FInvStep
<1>3. FInv => FrameStackMatchesEvents
  BY StackMatchesIsProperty DEF FInv
<1>4. QED BY <1>1, <1>2, <1>3, TypeCorrect, PTL DEF Spec


\* The step ClosedFrameRowFinal constrains.
RowFinalStep ==
    \A f \in FrameId :
        (LastEventOf("CloseFrame", f) > 0 /\ ~OpenInEvents(f) /\ ~OpenInEvents(f)')
            => /\ localLifetimeEnds'[f] = localLifetimeEnds[f]
               /\ locaLifetimeEndsMax'[f] = locaLifetimeEndsMax[f]

\* A frame the events leave closed, before and after a step, is not on the
\* reader's stack before or after it, so no handler writes its row:
\* Instruction writes the row of the top of the stack, an access the row of
\* a frame on the stack, and OpenFrame(f) would put f on the stack.
LEMMA RowFinalKeeps ==
    ASSUME TypeOK, FInv, FInv', [Next]_vars,
           NEW f \in FrameId, ~OpenInEvents(f), ~OpenInEvents(f)'
    PROVE  /\ localLifetimeEnds'[f] = localLifetimeEnds[f]
           /\ locaLifetimeEndsMax'[f] = locaLifetimeEndsMax[f]
<1>1. ~OnStack(f) /\ ~OnStack(f)'
  BY StackMatchesIsProperty DEF FInv, FrameStackMatchesEvents
<1>2. f \in Keys /\ DOMAIN localLifetimeEnds = Keys /\ DOMAIN locaLifetimeEndsMax = Keys
  BY DEF Keys, TypeOK
<1>3. ASSUME NEW g \in FrameId, NEW n \in 0 .. NumLocals, OpenFrame(g, n)
      PROVE  /\ localLifetimeEnds'[f] = localLifetimeEnds[f]
             /\ locaLifetimeEndsMax'[f] = locaLifetimeEndsMax[f]
  <2>1. g # f
    <3>1. frameIDs' = Append(frameIDs, g) /\ frameIDs \in Seq(FrameId)
      BY <1>3 DEF OpenFrame, TypeOK
    <3>2. OnStack(g)'
      BY <3>1 DEF OnStack
    <3>3. QED BY <1>1, <3>2
  <2>2. QED BY <1>2, <1>3, <2>1 DEF OpenFrame
<1>4. ASSUME NEW g \in FrameId, CloseFrame(g)
      PROVE  /\ localLifetimeEnds'[f] = localLifetimeEnds[f]
             /\ locaLifetimeEndsMax'[f] = locaLifetimeEndsMax[f]
  BY <1>4 DEF CloseFrame
<1>5. ASSUME NEW pc \in Pcs, Instruction(pc)
      PROVE  /\ localLifetimeEnds'[f] = localLifetimeEnds[f]
             /\ locaLifetimeEndsMax'[f] = locaLifetimeEndsMax[f]
  <2>1. OnStack(CurrentFrameID)
    BY <1>5 DEF Instruction, CurrentFrameID, OnStack, TypeOK
  <2>2. CurrentFrameID # f
    BY <1>1, <2>1
  <2>3. QED BY <1>2, <1>5, <2>2 DEF Instruction, SetLifetimeEnds, SetLifetimeEndsMax
<1>6. ASSUME NEW kind \in {"Write", "Read"}, NEW loc \in Location, AccessEffect(kind, loc)
      PROVE  /\ localLifetimeEnds'[f] = localLifetimeEnds[f]
             /\ locaLifetimeEndsMax'[f] = locaLifetimeEndsMax[f]
  <2>1. loc.frame # f
    BY <1>1, <1>6 DEF AccessEffect
  <2>2. QED BY <1>2, <1>6, <2>1 DEF AccessEffect, MarkAlive
<1>7. ASSUME NEW kind \in {"Write", "Read"}, NEW loc \in Location, DroppedEffect(kind, loc)
      PROVE  /\ localLifetimeEnds'[f] = localLifetimeEnds[f]
             /\ locaLifetimeEndsMax'[f] = locaLifetimeEndsMax[f]
  BY <1>7 DEF DroppedEffect
<1>8. CASE IgnoredEffect("PushOrPop")
  BY <1>8 DEF IgnoredEffect
<1>9. CASE UNCHANGED vars
  BY <1>9 DEF vars
<1>10. QED BY <1>3, <1>4, <1>5, <1>6, <1>7, <1>8, <1>9 DEF Next

(***************************************************************************)
(* In a well-nested trace, a CloseFrame finalizes the frame's lifetime    *)
(* row: while the events leave f closed, no step of readTrace changes f's  *)
(* row or maxima.  It follows from FrameStackMatchesEvents before and      *)
(* after the step: a closed frame is not on the stack, and every handler   *)
(* writes only rows of frames on the stack or the one it pushes.           *)
(***************************************************************************)
THEOREM ClosedFrameRowFinalHolds ==
    ASSUME WellNested
    PROVE  Spec => ClosedFrameRowFinal
<1>1. Init => FInv
  BY InitFInv
<1>2. TypeOK /\ FInv /\ [Next]_vars => FInv'
  BY FInvStep
<1>3. TypeOK /\ FInv /\ FInv' /\ [Next]_vars => [RowFinalStep]_vars
  BY RowFinalKeeps DEF RowFinalStep
<1>4. ClosedFrameRowFinal <=> [][RowFinalStep]_vars
  BY DEF ClosedFrameRowFinal, RowFinalStep
<1>5. QED BY <1>1, <1>2, <1>3, <1>4, TypeCorrect, PTL DEF Spec

-----------------------------------------------------------------------------
(***************************************************************************)
(* LifetimeCoversAccesses.  MakesAlive, RunsIn and FirstRunAfter over any  *)
(* sequence s of annotated raw events, so that what is shown of them holds *)
(* of consumed and of consumed' alike.                                     *)
(***************************************************************************)
Annotated == [ev : RawEvent, top : Keys]

MA(s, k, f, i) ==
    \/ /\ s[k].ev.tag = "OpenFrame"
       /\ s[k].ev.frame_id = f
       /\ i < s[k].ev.nparams
    \/ /\ s[k].ev.tag = "Effect"
       /\ s[k].ev.kind \in {"Write", "Read"}
       /\ s[k].ev.loc.frame = f
       /\ s[k].ev.loc.index = i
       /\ s[k].ev.loc.kind = "Local" \/ s[k].top = f

RI(s, k, f) == s[k].ev.tag = "Instruction" /\ s[k].top = f

FRA(s, k, j, f) ==
    /\ k < j
    /\ RI(s, j, f)
    /\ \A m \in k + 1 .. j - 1 : ~RI(s, m, f)

(***************************************************************************)
(* What the history says of slot i of frame f, given its end of lifetime e *)
(* and its recorded maximum x: once made alive the slot is never a hole;  *)
(* it is alive until an instruction of f runs; and its maximum is a pc no *)
(* lower than that of the first instruction of f after each access.  The  *)
(* last fact is what makes the property inductive: an instruction may     *)
(* move an end that is alive to its pc only when that pc exceeds the      *)
(* maximum.                                                                *)
(***************************************************************************)
SlotFacts(s, e, x, f, i) ==
    /\ \A k \in 1 .. Len(s) : MA(s, k, f, i) => e # UNDEFINED
    /\ \A k \in 1 .. Len(s) :
          MA(s, k, f, i) /\ (\A m \in k + 1 .. Len(s) : ~RI(s, m, f)) =>
             e = FRAME_LIFETIME
    /\ \A k, j \in 1 .. Len(s) :
          MA(s, k, f, i) /\ FRA(s, k, j, f) => x \in Pcs /\ x >= s[j].ev.pc

CInv ==
    \A f \in FrameId, i \in Slots :
        SlotFacts(consumed, localLifetimeEnds[f][i], locaLifetimeEndsMax[f][i], f, i)

\* Appending keeps the earlier positions.
LEMMA AppendAt ==
    ASSUME NEW s \in Seq(Annotated), NEW r \in Annotated
    PROVE  /\ Append(s, r) \in Seq(Annotated)
           /\ Len(Append(s, r)) = Len(s) + 1
           /\ Append(s, r)[Len(s) + 1] = r
           /\ \A k \in 1 .. Len(s) : Append(s, r)[k] = s[k]
BY AppendProperties

\* An instruction's raw event carries a pc.
LEMMA InstructionPc ==
    ASSUME NEW a \in Annotated, a.ev.tag = "Instruction"
    PROVE  a.ev.pc \in Pcs
BY DEF Annotated, RawEvent

\* An event that neither runs in f nor makes slot i of f alive, and leaves
\* the slot's entries alone, keeps what the history says of the slot.
LEMMA QuietKeeps ==
    ASSUME NEW s \in Seq(Annotated), NEW r \in Annotated,
           NEW f \in FrameId, NEW i \in Slots, NEW e, NEW x,
           SlotFacts(s, e, x, f, i),
           ~MA(Append(s, r), Len(s) + 1, f, i),
           ~RI(Append(s, r), Len(s) + 1, f)
    PROVE  SlotFacts(Append(s, r), e, x, f, i)
<1> DEFINE t == Append(s, r)
           n == Len(s) + 1
<1>1. Len(t) = n /\ \A k \in 1 .. Len(s) : t[k] = s[k]
  BY AppendAt
<1>2. \A k \in 1 .. Len(s) : \A g \in FrameId :
         (MA(t, k, g, i) <=> MA(s, k, g, i)) /\ (RI(t, k, g) <=> RI(s, k, g))
  BY <1>1 DEF MA, RI
<1>3. Len(s) \in Nat
  OBVIOUS
<1>4. QED
  BY <1>1, <1>2, <1>3 DEF SlotFacts, FRA

\* An event that makes slot i of f alive, and sets its end to
\* FRAME_LIFETIME without touching its maximum, keeps the slot's facts.
LEMMA MakerKeeps ==
    ASSUME NEW s \in Seq(Annotated), NEW r \in Annotated,
           NEW f \in FrameId, NEW i \in Slots, NEW e, NEW x,
           SlotFacts(s, e, x, f, i),
           ~RI(Append(s, r), Len(s) + 1, f)
    PROVE  SlotFacts(Append(s, r), FRAME_LIFETIME, x, f, i)
<1> DEFINE t == Append(s, r)
           n == Len(s) + 1
<1>1. Len(t) = n /\ \A k \in 1 .. Len(s) : t[k] = s[k]
  BY AppendAt
<1>2. \A k \in 1 .. Len(s) : \A g \in FrameId :
         (MA(t, k, g, i) <=> MA(s, k, g, i)) /\ (RI(t, k, g) <=> RI(s, k, g))
  BY <1>1 DEF MA, RI
<1>3. Len(s) \in Nat
  OBVIOUS
<1>4. FRAME_LIFETIME # UNDEFINED
  BY DEF FRAME_LIFETIME, UNDEFINED
<1>5. QED
  BY <1>1, <1>2, <1>3, <1>4 DEF SlotFacts, FRA

\* An instruction of frame f at pc either leaves slot i alone, when the
\* loop's test fails, or moves its end and its maximum to pc, when the end
\* is a hole or alive and pc exceeds the maximum; either way the slot's
\* facts are kept.
LEMMA RunKeeps ==
    ASSUME NEW s \in Seq(Annotated), NEW r \in Annotated,
           NEW f \in FrameId, NEW i \in Slots,
           NEW e \in EndValue, NEW x \in MaxValue, NEW e2, NEW x2,
           SlotFacts(s, e, x, f, i),
           e \in Pcs => e = x,
           r.ev.tag = "Instruction", r.top = f,
           \/ /\ e \in {UNDEFINED, FRAME_LIFETIME}
              /\ x = UNDEFINED \/ x < r.ev.pc
              /\ e2 = r.ev.pc /\ x2 = r.ev.pc
           \/ /\ e = FRAME_LIFETIME => ~(x = UNDEFINED \/ x < r.ev.pc)
              /\ e2 = e /\ x2 = x
    PROVE  SlotFacts(Append(s, r), e2, x2, f, i)
<1> DEFINE t == Append(s, r)
           n == Len(s) + 1
<1>1. Len(t) = n /\ t[n] = r /\ \A k \in 1 .. Len(s) : t[k] = s[k]
  BY AppendAt
<1>2. \A k \in 1 .. Len(s) : \A g \in FrameId :
         (MA(t, k, g, i) <=> MA(s, k, g, i)) /\ (RI(t, k, g) <=> RI(s, k, g))
  BY <1>1 DEF MA, RI
<1>3. Len(s) \in Nat /\ r.ev.pc \in Pcs
  BY InstructionPc
<1>4. ~MA(t, n, f, i) /\ RI(t, n, f)
  BY <1>1 DEF MA, RI
<1>5. \A k \in 1 .. Len(s) : \A j \in 1 .. Len(s) :
         FRA(t, k, j, f) <=> FRA(s, k, j, f)
  BY <1>1, <1>2, <1>3 DEF FRA
<1>6. x2 \in MaxValue /\ (x \in Pcs => x2 \in Pcs /\ x2 >= x)
  BY <1>3 DEF MaxValue, Pcs, UNDEFINED
<1>7. ASSUME NEW k \in 1 .. n, MA(t, k, f, i) PROVE e2 # UNDEFINED
  BY <1>2, <1>3, <1>4, <1>7 DEF SlotFacts, Pcs, UNDEFINED
<1>8. ASSUME NEW k \in 1 .. n, NEW j \in 1 .. n, MA(t, k, f, i), FRA(t, k, j, f)
      PROVE  x2 \in Pcs /\ x2 >= t[j].ev.pc
  <2>1. CASE j = n
    <3>1. k \in 1 .. Len(s) /\ \A m \in k + 1 .. Len(s) : ~RI(s, m, f)
      BY <1>1, <1>2, <1>3, <1>4, <1>8, <2>1 DEF FRA
    <3>2. e = FRAME_LIFETIME
      BY <1>2, <1>8, <3>1 DEF SlotFacts
    <3>3. QED BY <1>1, <1>3, <2>1, <3>2 DEF MaxValue, Pcs, UNDEFINED, FRAME_LIFETIME
  <2>2. CASE j # n
    <3>1. k \in 1 .. Len(s) /\ j \in 1 .. Len(s)
      BY <1>3, <1>8, <2>2 DEF FRA
    <3>2. x \in Pcs /\ x >= s[j].ev.pc
      BY <1>2, <1>5, <1>8, <3>1 DEF SlotFacts
    <3>3. s[j].ev.pc \in Pcs
      <4>1. RI(s, j, f)
        BY <1>2, <1>8, <3>1 DEF FRA
      <4>2. s[j] \in Annotated
        BY <3>1
      <4>3. QED BY <4>1, <4>2, InstructionPc DEF RI
    <3>4. QED BY <1>1, <1>6, <3>1, <3>2, <3>3 DEF Pcs
  <2>3. QED BY <2>1, <2>2
<1>9. ASSUME NEW k \in 1 .. n, MA(t, k, f, i) PROVE \E m \in k + 1 .. n : RI(t, m, f)
  <2>1. k # n
    BY <1>4, <1>9
  <2>2. QED BY <1>3, <1>4, <2>1
<1>10. QED
  BY <1>1, <1>7, <1>8, <1>9 DEF SlotFacts

\* The event a handler records, annotated with the frame on top.
LEMMA ConsumeAnnotated ==
    ASSUME TypeOK, NEW e \in RawEvent, Consume(e)
    PROVE  /\ [ev |-> e, top |-> CurrentFrameID] \in Annotated
           /\ consumed' = Append(consumed, [ev |-> e, top |-> CurrentFrameID])
           /\ consumed \in Seq(Annotated)
BY CurrentFrameIsKey DEF Consume, TypeOK, Annotated

\* CInv is kept by every step of the ingestion loop.
LEMMA CInvStep ==
    ASSUME TypeOK, EndOfLifeIsMaxPc, CInv, [Next]_vars
    PROVE  CInv'
<1> SUFFICES ASSUME NEW f \in FrameId, NEW i \in Slots
             PROVE  SlotFacts(consumed', localLifetimeEnds'[f][i],
                              locaLifetimeEndsMax'[f][i], f, i)
  BY DEF CInv
<1> DEFINE e == localLifetimeEnds[f][i]
           x == locaLifetimeEndsMax[f][i]
           n == Len(consumed) + 1
<1>0. SlotFacts(consumed, e, x, f, i) /\ f \in Keys
  BY DEF CInv, Keys
<1>1. ASSUME NEW g \in FrameId, NEW np \in 0 .. NumLocals, OpenFrame(g, np)
      PROVE  SlotFacts(consumed', localLifetimeEnds'[f][i], locaLifetimeEndsMax'[f][i], f, i)
  <2> DEFINE r == [ev |-> [tag |-> "OpenFrame", frame_id |-> g, nparams |-> np],
                   top |-> CurrentFrameID]
  <2>1. [tag |-> "OpenFrame", frame_id |-> g, nparams |-> np] \in RawEvent
    BY DEF RawEvent
  <2>2. r \in Annotated /\ consumed' = Append(consumed, r) /\ consumed \in Seq(Annotated)
    BY <1>1, <2>1, ConsumeAnnotated DEF OpenFrame
  <2>3. ~RI(consumed', n, f) /\ (MA(consumed', n, f, i) <=> f = g /\ i < np)
    <3>1. consumed'[n] = r
      BY <2>2, AppendAt
    <3>2. QED BY <3>1 DEF MA, RI
  <2>4. locaLifetimeEndsMax'[f][i] = x
    BY <1>1 DEF OpenFrame
  <2>5. CASE f = g /\ i < np
    <3>1. localLifetimeEnds'[f][i] = FRAME_LIFETIME
      BY <1>1, <2>5 DEF OpenFrame, TypeOK, Keys
    <3>2. QED BY <1>0, <2>2, <2>3, <2>4, <3>1, MakerKeeps
  <2>6. CASE ~(f = g /\ i < np)
    <3>1. localLifetimeEnds'[f][i] = e
      BY <1>1, <2>6 DEF OpenFrame, TypeOK, Keys
    <3>2. QED BY <1>0, <2>2, <2>3, <2>4, <2>6, <3>1, QuietKeeps
  <2>7. QED BY <2>5, <2>6
<1>2. ASSUME NEW g \in FrameId, CloseFrame(g)
      PROVE  SlotFacts(consumed', localLifetimeEnds'[f][i], locaLifetimeEndsMax'[f][i], f, i)
  <2> DEFINE r == [ev |-> [tag |-> "CloseFrame", frame_id |-> g], top |-> CurrentFrameID]
  <2>1. [tag |-> "CloseFrame", frame_id |-> g] \in RawEvent
    BY DEF RawEvent
  <2>2. r \in Annotated /\ consumed' = Append(consumed, r) /\ consumed \in Seq(Annotated)
    BY <1>2, <2>1, ConsumeAnnotated DEF CloseFrame
  <2>3. ~RI(consumed', n, f) /\ ~MA(consumed', n, f, i)
    <3>1. consumed'[n] = r
      BY <2>2, AppendAt
    <3>2. QED BY <3>1 DEF MA, RI
  <2>4. QED BY <1>0, <1>2, <2>2, <2>3, QuietKeeps DEF CloseFrame
<1>3. ASSUME NEW pc \in Pcs, Instruction(pc)
      PROVE  SlotFacts(consumed', localLifetimeEnds'[f][i], locaLifetimeEndsMax'[f][i], f, i)
  <2> DEFINE r == [ev |-> [tag |-> "Instruction", pc |-> pc], top |-> CurrentFrameID]
             c == CurrentFrameID
  <2>1. [tag |-> "Instruction", pc |-> pc] \in RawEvent
    BY DEF RawEvent
  <2>2. r \in Annotated /\ consumed' = Append(consumed, r) /\ consumed \in Seq(Annotated)
    BY <1>3, <2>1, ConsumeAnnotated DEF Instruction
  <2>3. c \in FrameId
    BY <1>3 DEF Instruction, CurrentFrameID, TypeOK
  <2>4. CASE f # c
    <3>1. ~RI(consumed', n, f) /\ ~MA(consumed', n, f, i)
      <4>1. consumed'[n] = r
        BY <2>2, AppendAt
      <4>2. QED BY <2>4, <4>1 DEF MA, RI
    <3>2. localLifetimeEnds'[f][i] = e /\ locaLifetimeEndsMax'[f][i] = x
      BY <1>3, <2>4 DEF Instruction, SetLifetimeEnds, SetLifetimeEndsMax, TypeOK
    <3>3. QED BY <1>0, <2>2, <3>1, <3>2, QuietKeeps
  <2>5. CASE f = c
    <3>1. e \in EndValue /\ x \in MaxValue /\ (e \in Pcs => e = x)
      BY DEF TypeOK, EndOfLifeIsMaxPc, Keys
    <3>2. /\ localLifetimeEnds'[f][i] =
                IF Raise(localLifetimeEnds[c], locaLifetimeEndsMax[c], i, pc) THEN pc ELSE e
          /\ locaLifetimeEndsMax'[f][i] =
                IF Raise(localLifetimeEnds[c], locaLifetimeEndsMax[c], i, pc) THEN pc ELSE x
      BY <1>3, <2>3, <2>5 DEF Instruction, SetLifetimeEnds, SetLifetimeEndsMax, TypeOK, Keys
    <3>3. e = FRAME_LIFETIME => InArray(localLifetimeEnds[c], i)
      BY <2>5 DEF InArray, FRAME_LIFETIME, UNDEFINED, Slots
    <3>4. \/ /\ e \in {UNDEFINED, FRAME_LIFETIME}
             /\ x = UNDEFINED \/ x < r.ev.pc
             /\ localLifetimeEnds'[f][i] = r.ev.pc /\ locaLifetimeEndsMax'[f][i] = r.ev.pc
          \/ /\ e = FRAME_LIFETIME => ~(x = UNDEFINED \/ x < r.ev.pc)
             /\ localLifetimeEnds'[f][i] = e /\ locaLifetimeEndsMax'[f][i] = x
      BY <2>5, <3>2, <3>3 DEF Raise
    <3>5. r.ev.tag = "Instruction" /\ r.top = f
      BY <2>5
    <3>6. QED BY <1>0, <2>2, <3>1, <3>4, <3>5, RunKeeps
  <2>6. QED BY <2>4, <2>5
<1>4. ASSUME NEW kind \in {"Write", "Read"}, NEW loc \in Location,
             AccessEffect(kind, loc)
      PROVE  SlotFacts(consumed', localLifetimeEnds'[f][i], locaLifetimeEndsMax'[f][i], f, i)
  <2> DEFINE r == [ev |-> [tag |-> "Effect", kind |-> kind, loc |-> loc], top |-> CurrentFrameID]
  <2>1. [tag |-> "Effect", kind |-> kind, loc |-> loc] \in RawEvent
    BY DEF RawEvent
  <2>2. r \in Annotated /\ consumed' = Append(consumed, r) /\ consumed \in Seq(Annotated)
    BY <1>4, <2>1, ConsumeAnnotated DEF AccessEffect
  <2>3. ~RI(consumed', n, f) /\ (MA(consumed', n, f, i) => loc.frame = f /\ loc.index = i)
    <3>1. consumed'[n] = r
      BY <2>2, AppendAt
    <3>2. QED BY <3>1 DEF MA, RI
  <2>4. locaLifetimeEndsMax'[f][i] = x
    BY <1>4 DEF AccessEffect, MarkAlive
  <2>5. CASE loc.frame = f /\ loc.index = i
    <3>1. localLifetimeEnds'[f][i] = FRAME_LIFETIME
      BY <1>4, <2>5 DEF AccessEffect, MarkAlive, TypeOK, Keys, Location
    <3>2. QED BY <1>0, <2>2, <2>3, <2>4, <3>1, MakerKeeps
  <2>6. CASE ~(loc.frame = f /\ loc.index = i)
    <3>1. localLifetimeEnds'[f][i] = e
      BY <1>4, <2>6 DEF AccessEffect, MarkAlive, TypeOK, Keys, Location
    <3>2. QED BY <1>0, <2>2, <2>3, <2>4, <2>6, <3>1, QuietKeeps
  <2>7. QED BY <2>5, <2>6
<1>5. ASSUME NEW kind \in {"Write", "Read"}, NEW loc \in Location,
             DroppedEffect(kind, loc)
      PROVE  SlotFacts(consumed', localLifetimeEnds'[f][i], locaLifetimeEndsMax'[f][i], f, i)
  <2> DEFINE r == [ev |-> [tag |-> "Effect", kind |-> kind, loc |-> loc], top |-> CurrentFrameID]
  <2>1. [tag |-> "Effect", kind |-> kind, loc |-> loc] \in RawEvent
    BY DEF RawEvent
  <2>2. r \in Annotated /\ consumed' = Append(consumed, r) /\ consumed \in Seq(Annotated)
    BY <1>5, <2>1, ConsumeAnnotated DEF DroppedEffect
  <2>3. ~RI(consumed', n, f) /\ ~MA(consumed', n, f, i)
    <3>1. consumed'[n] = r
      BY <2>2, AppendAt
    <3>2. QED BY <1>5, <3>1 DEF MA, RI, DroppedEffect, Resolves
  <2>4. QED BY <1>0, <1>5, <2>2, <2>3, QuietKeeps DEF DroppedEffect
<1>6. ASSUME IgnoredEffect("PushOrPop")
      PROVE  SlotFacts(consumed', localLifetimeEnds'[f][i], locaLifetimeEndsMax'[f][i], f, i)
  <2> DEFINE r == [ev |-> [tag |-> "Effect", kind |-> "PushOrPop"], top |-> CurrentFrameID]
  <2>1. [tag |-> "Effect", kind |-> "PushOrPop"] \in RawEvent
    BY DEF RawEvent
  <2>2. r \in Annotated /\ consumed' = Append(consumed, r) /\ consumed \in Seq(Annotated)
    BY <1>6, <2>1, ConsumeAnnotated DEF IgnoredEffect
  <2>3. ~RI(consumed', n, f) /\ ~MA(consumed', n, f, i)
    <3>1. consumed'[n] = r
      BY <2>2, AppendAt
    <3>2. QED BY <3>1 DEF MA, RI
  <2>4. QED BY <1>0, <1>6, <2>2, <2>3, QuietKeeps DEF IgnoredEffect
<1>7. CASE UNCHANGED vars
  BY <1>0, <1>7 DEF vars
<1>8. QED
  BY <1>1, <1>2, <1>3, <1>4, <1>5, <1>6, <1>7 DEF Next

(***************************************************************************)
(* The lifetime table respects every access, in every reachable state and *)
(* for any number of frames, locals, pcs and events: after a slot is made *)
(* alive (by OpenFrame or a resolved Write/Read) it stays FRAME_LIFETIME   *)
(* until an instruction of its own frame runs, and its end is then never   *)
(* below that instruction's pc, also after later passes through a loop.   *)
(***************************************************************************)
THEOREM LifetimeCoversAccessesHolds == Spec => []LifetimeCoversAccesses
<1>1. Init => CInv
  BY DEF Init, CInv, SlotFacts
<1>2. Spec => []CInv
  BY <1>1, CInvStep, TypeCorrect, EndOfLifeIsMaxPcHolds, PTL DEF Spec
<1>3. TypeOK /\ EndOfLifeIsMaxPc /\ CInv => LifetimeCoversAccesses
  <2> SUFFICES ASSUME TypeOK, EndOfLifeIsMaxPc, CInv,
                      NEW f \in FrameId, NEW i \in Slots, NEW k \in 1 .. Len(consumed),
                      MakesAlive(k, f, i)
               PROVE  /\ (\A m \in k + 1 .. Len(consumed) : ~RunsIn(m, f)) =>
                            localLifetimeEnds[f][i] = FRAME_LIFETIME
                      /\ \A j \in 1 .. Len(consumed) :
                            FirstRunAfter(k, j, f) =>
                               \/ localLifetimeEnds[f][i] = FRAME_LIFETIME
                               \/ localLifetimeEnds[f][i] >= consumed[j].ev.pc
    BY DEF LifetimeCoversAccesses
  <2> DEFINE e == localLifetimeEnds[f][i]
             x == locaLifetimeEndsMax[f][i]
  <2>1. /\ MA(consumed, k, f, i)
        /\ \A m \in 1 .. Len(consumed) : RunsIn(m, f) <=> RI(consumed, m, f)
        /\ \A j \in 1 .. Len(consumed) : FirstRunAfter(k, j, f) <=> FRA(consumed, k, j, f)
    BY DEF MakesAlive, MA, RunsIn, RI, FirstRunAfter, FRA
  <2>2. SlotFacts(consumed, e, x, f, i)
    BY DEF CInv
  <2>3. e \in EndValue /\ (e \in Pcs => e = x)
    BY DEF TypeOK, EndOfLifeIsMaxPc, Keys
  <2>4. e # UNDEFINED
    BY <2>1, <2>2 DEF SlotFacts
  <2>5. ASSUME NEW j \in 1 .. Len(consumed), FirstRunAfter(k, j, f),
               e # FRAME_LIFETIME
        PROVE  e >= consumed[j].ev.pc
    <3>1. e \in Pcs /\ e = x
      BY <2>3, <2>4, <2>5 DEF EndValue
    <3>2. x >= consumed[j].ev.pc
      BY <2>1, <2>2, <2>5 DEF SlotFacts
    <3>3. QED BY <3>1, <3>2
  <2>6. QED BY <2>1, <2>2, <2>5 DEF SlotFacts
<1>4. QED BY <1>2, <1>3, TypeCorrect, EndOfLifeIsMaxPcHolds, PTL

=============================================================================
