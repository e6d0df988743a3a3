----------------------------- MODULE TraceUtils -----------------------------
(***************************************************************************)
(* The trace-ingestion loop of the Move trace adapter: readTrace in        *)
(* trace-adapter/src/trace_utils.ts.  The loop walks the raw event array   *)
(* of a trace file once, in order; one action of this module is one        *)
(* iteration of that loop, i.e. the whole handling of one raw event:       *)
(* OpenFrame, CloseFrame, Instruction, or an Effect (Write/Read, resolved  *)
(* or dropped by processJSONLocation, or Push/Pop which are ignored).      *)
(*                                                                         *)
(* The raw events are chosen by the environment (the Move VM that wrote    *)
(* the file) from small sets; the prefix consumed so far is kept in        *)
(* `consumed`, annotated with the frame that was on top of the reader's    *)
(* stack when the event was handled.  Values (parameters, written values)  *)
(* are left out here: their decoding is the pure function modelled in     *)
(* ValueDecoder.                                                           *)
(***************************************************************************)
EXTENDS Integers, Sequences

CONSTANTS
    FrameId,        \* frame ids the trace may use
    NoFrame,        \* JS `undefined`: frameIDs[frameIDs.length - 1] of an empty stack
    NumLocals,      \* local slots of every frame
    MaxPc,          \* instruction offsets are 0..MaxPc
    MaxEvents,      \* length bound of the raw trace
    WellNested      \* TRUE: every CloseFrame closes the innermost open frame

ASSUME FrameIdAssumption == NoFrame \notin FrameId
ASSUME NumLocalsAssumption == NumLocals \in Nat
ASSUME MaxPcAssumption == MaxPc \in Nat
ASSUME MaxEventsAssumption == MaxEvents \in Nat
ASSUME WellNestedAssumption == WellNested \in BOOLEAN

Slots == 0 .. NumLocals - 1
Pcs == 0 .. MaxPc
\* The keys of the lifetime maps: frame ids, and `undefined` for an empty stack.
Keys == FrameId \cup {NoFrame}

\* FRAME_LIFETIME (trace-adapter/src/utils.ts): alive until the frame closes.
FRAME_LIFETIME == -1
\* A hole of a JS array (or an absent entry): `undefined`.
UNDEFINED == -2

EndValue == Pcs \cup {FRAME_LIFETIME, UNDEFINED}
MaxValue == Pcs \cup {UNDEFINED}

LocKind == {"Local", "Indexed"}
\* JSONTraceLocation: {Local: [frame, index]} or {Indexed: [{Local: [frame, index]}, _]}.
Location == [kind : LocKind, frame : FrameId, index : Slots]

RawEvent ==
         [tag : {"OpenFrame"}, frame_id : FrameId, nparams : 0 .. NumLocals]
    \cup [tag : {"CloseFrame"}, frame_id : FrameId]
    \cup [tag : {"Instruction"}, pc : Pcs]
    \cup [tag : {"Effect"}, kind : {"Write", "Read"}, loc : Location]
    \cup [tag : {"Effect"}, kind : {"PushOrPop"}]

\* TraceEvent, with parameter and written values abstracted away.
TraceEvent ==
         [type : {"OpenFrame"}, id : FrameId, nparams : 0 .. NumLocals]
    \cup [type : {"CloseFrame"}, id : FrameId]
    \cup [type : {"Instruction"}, pc : Pcs]
    \cup [type : {"Effect"}, frameId : Keys, localIndex : Slots]

VARIABLES
    consumed,             \* raw events handled so far, with the frame on top then
    events,               \* the canonical events emitted
    localLifetimeEnds,    \* frame -> slot -> end of lifetime
    locaLifetimeEndsMax,  \* frame -> slot -> largest end of lifetime assigned
    frameIDs              \* the reader's stack of open frame ids

vars == <<consumed, events, localLifetimeEnds, locaLifetimeEndsMax, frameIDs>>

-----------------------------------------------------------------------------
\* frameIDs[frameIDs.length - 1]
CurrentFrameID == IF frameIDs = << >> THEN NoFrame ELSE frameIDs[Len(frameIDs)]

\* Mutation of PopFrame: frameIDs.shift() removes the outermost frame.
PopFrameShift(s) == IF s = << >> THEN s ELSE Tail(s)

\* frameIDs.pop(): a no-op on an empty array.
PopFrame(s) == IF s = << >> THEN s ELSE SubSeq(s, 1, Len(s) - 1)

OnStack(f) == \E i \in 1 .. Len(frameIDs) : frameIDs[i] = f

\* Index i lies below the JS length of a row: some entry at or above it is set.
InArray(row, i) == \E j \in Slots : i <= j /\ row[j] # UNDEFINED

\* Appends a raw event to the consumed prefix of traceJSON.events.
Consume(e) == consumed' = Append(consumed, [ev |-> e, top |-> CurrentFrameID])

Room == Len(consumed) < MaxEvents

-----------------------------------------------------------------------------
Init ==
    /\ consumed = << >>
    /\ events = << >>
    /\ localLifetimeEnds = [f \in Keys |-> [i \in Slots |-> UNDEFINED]]
    /\ locaLifetimeEndsMax = [f \in Keys |-> [i \in Slots |-> UNDEFINED]]
    /\ frameIDs = << >>

(***************************************************************************)
(* OpenFrame: the parameters' slots become alive until the frame's end,    *)
(* the event is emitted and the frame id pushed.  The VM never opens a     *)
(* frame whose id is still open.                                           *)
(***************************************************************************)
OpenFrame(f, n) ==
    /\ Room
    /\ ~OnStack(f)
    /\ Consume([tag |-> "OpenFrame", frame_id |-> f, nparams |-> n])
    /\ localLifetimeEnds' = [localLifetimeEnds EXCEPT ![f] =
            [i \in Slots |-> IF i < n THEN FRAME_LIFETIME ELSE @[i]]]
    /\ events' = Append(events, [type |-> "OpenFrame", id |-> f, nparams |-> n])
    /\ frameIDs' = Append(frameIDs, f)
    /\ UNCHANGED locaLifetimeEndsMax

(***************************************************************************)
(* CloseFrame: emit the event and pop the stack, whatever id the event     *)
(* names.  A well-nested trace closes the innermost frame.                 *)
(***************************************************************************)
\* Mutation of CloseFrame: the event is emitted but the stack is not popped.
CloseFrameNoPop(f) ==
    /\ Room
    /\ WellNested => frameIDs # << >> /\ f = CurrentFrameID
    /\ Consume([tag |-> "CloseFrame", frame_id |-> f])
    /\ events' = Append(events, [type |-> "CloseFrame", id |-> f])
    /\ UNCHANGED <<frameIDs, localLifetimeEnds, locaLifetimeEndsMax>>

CloseFrame(f) ==
    /\ Room
    /\ WellNested => frameIDs # << >> /\ f = CurrentFrameID
    /\ Consume([tag |-> "CloseFrame", frame_id |-> f])
    /\ events' = Append(events, [type |-> "CloseFrame", id |-> f])
    /\ frameIDs' = PopFrame(frameIDs)
    /\ UNCHANGED <<localLifetimeEnds, locaLifetimeEndsMax>>

(***************************************************************************)
(* Instruction: emit it, then for every slot of the current frame below    *)
(* the row's length that is unset or alive, move its end of lifetime (and  *)
(* the max) to pc, but only if pc exceeds the max seen for that slot.      *)
(***************************************************************************)
Raise(row, maxRow, i, pc) ==
    /\ InArray(row, i)
    /\ row[i] \in {UNDEFINED, FRAME_LIFETIME}
    /\ maxRow[i] = UNDEFINED \/ maxRow[i] < pc

\* Mutation of SetLifetimeEnds: the end is the pc after the instruction.
SetLifetimeEndsNextPc(c, pc) ==
    LET row == localLifetimeEnds[c]
        maxRow == locaLifetimeEndsMax[c]
    IN  localLifetimeEnds' = [localLifetimeEnds EXCEPT ![c] =
            [i \in Slots |-> IF Raise(row, maxRow, i, pc) THEN pc + 1 ELSE row[i]]]

\* The loop over the current frame's row: new ends of lifetime.
SetLifetimeEnds(c, pc) ==
    LET row == localLifetimeEnds[c]
        maxRow == locaLifetimeEndsMax[c]
    IN  localLifetimeEnds' = [localLifetimeEnds EXCEPT ![c] =
            [i \in Slots |-> IF Raise(row, maxRow, i, pc) THEN pc ELSE row[i]]]

\* Mutation of SetLifetimeEndsMax: the maxima are never recorded.
SetLifetimeEndsMaxSkipped(c, pc) == UNCHANGED locaLifetimeEndsMax

\* The same loop: new maxima, for the same slots.
SetLifetimeEndsMax(c, pc) ==
    LET row == localLifetimeEnds[c]
        maxRow == locaLifetimeEndsMax[c]
    IN  locaLifetimeEndsMax' = [locaLifetimeEndsMax EXCEPT ![c] =
            [i \in Slots |-> IF Raise(row, maxRow, i, pc) THEN pc ELSE maxRow[i]]]

Instruction(pc) ==
    /\ Room
    /\ frameIDs # << >>
    /\ Consume([tag |-> "Instruction", pc |-> pc])
    /\ events' = Append(events, [type |-> "Instruction", pc |-> pc])
    /\ SetLifetimeEnds(CurrentFrameID, pc)
    /\ SetLifetimeEndsMax(CurrentFrameID, pc)
    /\ UNCHANGED frameIDs

(***************************************************************************)
(* processJSONLocation: a Local location always resolves, an Indexed one   *)
(* only when its base local belongs to the current frame.                  *)
(***************************************************************************)
Resolves(loc) == loc.kind = "Local" \/ loc.frame = CurrentFrameID

\* Mutation of MarkAlive: an access also clears the slot's maximum.
MarkAliveResetMax(loc) ==
    /\ localLifetimeEnds' =
           [localLifetimeEnds EXCEPT ![loc.frame][loc.index] = FRAME_LIFETIME]
    /\ locaLifetimeEndsMax' =
           [locaLifetimeEndsMax EXCEPT ![loc.frame][loc.index] = UNDEFINED]

\* lifetimeEnds[localIndex] = FRAME_LIFETIME in the location's frame; the
\* maxima are left alone.
MarkAlive(loc) ==
    /\ localLifetimeEnds' =
           [localLifetimeEnds EXCEPT ![loc.frame][loc.index] = FRAME_LIFETIME]
    /\ UNCHANGED locaLifetimeEndsMax

(***************************************************************************)
(* A Write or Read effect whose location resolves: the slot becomes alive  *)
(* until the frame's end; a Write is emitted, located in the CURRENT frame *)
(* at the resolved local index.  The VM only names frames that are open.   *)
(***************************************************************************)
AccessEffect(kind, loc) ==
    /\ Room
    /\ frameIDs # << >>
    /\ OnStack(loc.frame)
    /\ Resolves(loc)
    /\ Consume([tag |-> "Effect", kind |-> kind, loc |-> loc])
    /\ MarkAlive(loc)
    /\ events' = IF kind = "Write"
                   THEN Append(events, [type |-> "Effect", frameId |-> CurrentFrameID,
                                        localIndex |-> loc.index])
                   ELSE events
    /\ UNCHANGED frameIDs

\* A Write or Read effect whose location does not resolve: `continue`.
DroppedEffect(kind, loc) ==
    /\ Room
    /\ frameIDs # << >>
    /\ OnStack(loc.frame)
    /\ ~Resolves(loc)
    /\ Consume([tag |-> "Effect", kind |-> kind, loc |-> loc])
    /\ UNCHANGED <<events, localLifetimeEnds, locaLifetimeEndsMax, frameIDs>>

\* A Push or Pop effect: neither branch of the Effect case applies.  The two
\* kinds are handled identically, so the model has one kind for both.
IgnoredEffect(kind) ==
    /\ Room
    /\ frameIDs # << >>
    /\ Consume([tag |-> "Effect", kind |-> kind])
    /\ UNCHANGED <<events, localLifetimeEnds, locaLifetimeEndsMax, frameIDs>>

Next ==
    \/ \E f \in FrameId, n \in 0 .. NumLocals : OpenFrame(f, n)
    \/ \E f \in FrameId : CloseFrame(f)
    \/ \E pc \in Pcs : Instruction(pc)
    \/ \E kind \in {"Write", "Read"}, loc \in Location :
           AccessEffect(kind, loc) \/ DroppedEffect(kind, loc)
    \/ IgnoredEffect("PushOrPop")

Spec == Init /\ [][Next]_vars

-----------------------------------------------------------------------------
(***************************************************************************)
(* Properties.                                                             *)
(***************************************************************************)

\* Type invariant: every variable holds values of the shape readTrace builds.
TypeOK ==
    /\ consumed \in Seq([ev : RawEvent, top : Keys])
    /\ events \in Seq(TraceEvent)
    /\ localLifetimeEnds \in [Keys -> [Slots -> EndValue]]
    /\ locaLifetimeEndsMax \in [Keys -> [Slots -> MaxValue]]
    /\ frameIDs \in Seq(FrameId)

(***************************************************************************)
(* An end of lifetime that is a pc equals the largest pc ever recorded for *)
(* that slot (the Instruction handler moves the two together, the effect   *)
(* handler only resets the end).  This is what makes the recorded end      *)
(* robust to backward jumps: a later pass through a loop can never lower   *)
(* it.                                                                     *)
(***************************************************************************)
EndOfLifeIsMaxPc ==
    \A f \in Keys, i \in Slots :
        localLifetimeEnds[f][i] \in Pcs =>
            localLifetimeEnds[f][i] = locaLifetimeEndsMax[f][i]

\* The k-th consumed event makes slot i of frame f alive: an OpenFrame of f
\* with i among its parameters, or a Write/Read that processJSONLocation resolves
\* to (f, i) (a Local one, or an Indexed one into the then-current frame).
MakesAlive(k, f, i) ==
    LET r == consumed[k] IN
    \/ /\ r.ev.tag = "OpenFrame"
       /\ r.ev.frame_id = f
       /\ i < r.ev.nparams
    \/ /\ r.ev.tag = "Effect"
       /\ r.ev.kind \in {"Write", "Read"}
       /\ r.ev.loc.frame = f
       /\ r.ev.loc.index = i
       /\ r.ev.loc.kind = "Local" \/ r.top = f

\* The k-th consumed event is an instruction executed in frame f.
RunsIn(k, f) ==
    consumed[k].ev.tag = "Instruction" /\ consumed[k].top = f

\* j is the first instruction of frame f after position k.
FirstRunAfter(k, j, f) ==
    /\ k < j
    /\ RunsIn(j, f)
    /\ \A m \in k + 1 .. j - 1 : ~RunsIn(m, f)

(***************************************************************************)
(* The lifetime table respects every access (ITrace.localLifetimeEnds: the *)
(* end is the pc of an instruction following the last access).  After a   *)
(* slot is made alive, it stays alive until an instruction of ITS OWN      *)
(* frame runs (callee instructions do not end a caller's local), and its   *)
(* end of lifetime is never below the pc of that first instruction, also  *)
(* after later passes through a loop.                                      *)
(***************************************************************************)
LifetimeCoversAccesses ==
    \A f \in FrameId, i \in Slots, k \in 1 .. Len(consumed) :
        MakesAlive(k, f, i) =>
            /\ (\A m \in k + 1 .. Len(consumed) : ~RunsIn(m, f)) =>
                   localLifetimeEnds[f][i] = FRAME_LIFETIME
            /\ \A j \in 1 .. Len(consumed) :
                   FirstRunAfter(k, j, f) =>
                       \/ localLifetimeEnds[f][i] = FRAME_LIFETIME
                       \/ localLifetimeEnds[f][i] >= consumed[j].ev.pc

\* The position of the last canonical event of the given type naming frame f
\* (0 if there is none).
LastEventOf(type, f) ==
    LET is(j) == events[j].type = type /\ events[j].id = f
    IN  IF \E j \in 1 .. Len(events) : is(j)
          THEN CHOOSE j \in 1 .. Len(events) :
                   is(j) /\ \A m \in j + 1 .. Len(events) : ~is(m)
          ELSE 0

\* Frame f is open according to the canonical events.
OpenInEvents(f) == LastEventOf("OpenFrame", f) > LastEventOf("CloseFrame", f)

(***************************************************************************)
(* The canonical stream is stack-consistent with the reader's call stack   *)
(* (spec: the OpenFrame/CloseFrame events nest properly): the frames on    *)
(* frameIDs are exactly those the emitted events leave open, bottom to top *)
(* in the order they were opened.  Instruction and effect handling relies *)
(* on the top of frameIDs being the innermost open frame.                  *)
(***************************************************************************)
FrameStackMatchesEvents ==
    /\ \A f \in FrameId : OnStack(f) <=> OpenInEvents(f)
    /\ \A a, b \in 1 .. Len(frameIDs) :
           a < b => LastEventOf("OpenFrame", frameIDs[a])
                        < LastEventOf("OpenFrame", frameIDs[b])

(***************************************************************************)
(* A canonical Write names the frame and local that the raw trace wrote:   *)
(* every Effect event's (frameId, localIndex) is the location of some raw  *)
(* Write that was consumed.  readTrace builds the location from the        *)
(* CURRENT frame id and the raw local index, also for a Local location of  *)
(* a caller's frame (a write through a reference).                         *)
(***************************************************************************)
WritesNameWrittenSlot ==
    \A j \in 1 .. Len(events) :
        events[j].type = "Effect" =>
            \E k \in 1 .. Len(consumed) :
                /\ consumed[k].ev.tag = "Effect"
                /\ consumed[k].ev.kind = "Write"
                /\ consumed[k].ev.loc.frame = events[j].frameId
                /\ consumed[k].ev.loc.index = events[j].localIndex

(***************************************************************************)
(* A CloseFrame finalizes the frame's lifetime row (spec, LifetimeAnalyzer:  *)
(* "the frame's table is finalized as-is and is never touched again"): once *)
(* the events have closed frame f, no step changes f's row or maxima except *)
(* the step that opens the id f again.  Instruction handling writes the row *)
(* of the top of frameIDs and effects the rows of open frames, so this      *)
(* fails as soon as the reader's stack keeps a closed frame on top.         *)
(***************************************************************************)
ClosedFrameRowFinal ==
    [][\A f \in FrameId :
          (LastEventOf("CloseFrame", f) > 0 /\ ~OpenInEvents(f) /\ ~OpenInEvents(f)')
              => /\ localLifetimeEnds'[f] = localLifetimeEnds[f]
                 /\ locaLifetimeEndsMax'[f] = locaLifetimeEndsMax[f]]_vars

\* Position in `consumed` of the OpenFrame that began f's current activation.
ActivationStart(f) ==
    LET opens(k) == consumed[k].ev.tag = "OpenFrame" /\ consumed[k].ev.frame_id = f
    IN  IF \E k \in 1 .. Len(consumed) : opens(k)
          THEN CHOOSE k \in 1 .. Len(consumed) :
                   opens(k) /\ \A m \in k + 1 .. Len(consumed) : ~opens(m)
          ELSE 0

(***************************************************************************)
(* Lifetimes are per activation (spec: frame ids may be reused across      *)
(* non-overlapping lifetimes; lifetime state is kept per open frame and    *)
(* OpenFrame initializes it).  Every entry of an open frame's row comes    *)
(* from its current activation: FRAME_LIFETIME from a parameter or an      *)
(* access since the frame was opened, a pc from an instruction the frame   *)
(* ran since then.  readTrace starts a reopened id from the old row and    *)
(* the old maxima.                                                         *)
(***************************************************************************)
EndFromCurrentActivation ==
    \A f \in FrameId, i \in Slots :
        LET start == ActivationStart(f)
            end   == localLifetimeEnds[f][i]
        IN  OnStack(f) =>
              /\ end = FRAME_LIFETIME =>
                    \E k \in start .. Len(consumed) : k > 0 /\ MakesAlive(k, f, i)
              /\ end \in Pcs =>
                    \E k \in start + 1 .. Len(consumed) :
                        RunsIn(k, f) /\ consumed[k].ev.pc = end

\* Positions j1 < j2 are consecutive instructions of frame f.
Consecutive(j1, j2, f) ==
    /\ j1 < j2
    /\ RunsIn(j1, f)
    /\ FirstRunAfter(j1, j2, f)

\* The pc of the last instruction of frame f before position k (-1 if none).
PcBefore(k, f) ==
    IF \E j \in 1 .. k - 1 : RunsIn(j, f)
      THEN consumed[CHOOSE j \in 1 .. k - 1 :
                        RunsIn(j, f) /\ \A m \in j + 1 .. k - 1 : ~RunsIn(m, f)].ev.pc
      ELSE -1

(***************************************************************************)
(* Loop lifetime (spec, testable properties): when a local is accessed at  *)
(* pc a and later the frame jumps back from pc hi to a pc lo <= a (a loop  *)
(* body [lo, hi] containing the access), the computed end of lifetime of   *)
(* that local, once its frame has closed, is at least hi.                  *)
(***************************************************************************)
LoopBodyLifetime ==
    \A f \in FrameId, i \in Slots, k \in 1 .. Len(consumed) :
        /\ ~OnStack(f)
        /\ MakesAlive(k, f, i)
        /\ consumed[k].ev.tag = "Effect"
        /\ consumed[k].top = f
        =>
        \A j1, j2 \in 1 .. Len(consumed) :
            /\ Consecutive(j1, j2, f)
            /\ k < j2
            /\ consumed[j2].ev.pc <= PcBefore(k, f)
            /\ PcBefore(k, f) <= consumed[j1].ev.pc
            =>
            \/ localLifetimeEnds[f][i] = FRAME_LIFETIME
            \/ localLifetimeEnds[f][i] >= consumed[j1].ev.pc

=============================================================================
