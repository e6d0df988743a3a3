---------------------------- MODULE TraceReader ----------------------------
(***************************************************************************)
(* readTrace as the TraceReader of the specification: the parsed file      *)
(* (JSONTraceRootObject: a version number and the raw events) is handed to *)
(* the ingestion loop of TraceUtils.  Two inputs the loop of TraceUtils    *)
(* leaves out are added here: the file's `version`, and raw events whose   *)
(* tag is none of OpenFrame, CloseFrame, Instruction, Effect.              *)
(***************************************************************************)
EXTENDS TraceUtils

CONSTANTS
    Version,            \* traceJSON.version of the file being read
    SupportedVersions,  \* the format versions the reader should accept
    UnknownTags         \* tags of raw events that match no branch of the loop

(***************************************************************************)
(* An event with an unknown tag: `event.OpenFrame`, `event.CloseFrame`,    *)
(* `event.Instruction` and `event.Effect` are all undefined, so the        *)
(* iteration ends without touching any state.                             *)
(***************************************************************************)
UnknownEvent(t) ==
    /\ Room
    /\ Consume([tag |-> t])
    /\ UNCHANGED <<events, localLifetimeEnds, locaLifetimeEndsMax, frameIDs>>

\* readTrace never reads traceJSON.version: the loop starts whatever it is.
ReaderNext ==
    \/ Next
    \/ \E t \in UnknownTags : UnknownEvent(t)

ReaderSpec == Init /\ [][ReaderNext]_vars

(***************************************************************************)
(* Spec, TraceReader and testable properties: a file whose version is not  *)
(* supported raises a FormatError before any event is processed.           *)
(***************************************************************************)
VersionChecked ==
    Version \notin SupportedVersions => consumed = << >>

(***************************************************************************)
(* Spec, error handling: an event whose tag matches none of the four known *)
(* shapes is a fatal SchemaError, so reading never goes on past it (skipping *)
(* it "would silently desynchronize the call-stack tracking").             *)
(***************************************************************************)
UnknownTagIsFatal ==
    \A k \in 1 .. Len(consumed) :
        consumed[k].ev.tag \in UnknownTags => k = Len(consumed)

=============================================================================
