---------------------------- MODULE ValueDecoder ----------------------------
(***************************************************************************)
(* The ValueDecoder of the trace adapter: traceValueFromJSON in            *)
(* trace-adapter/src/trace_utils.ts, applied to what JSON.parse made of    *)
(* the trace file (readTrace, line 219).  One call decodes one raw value   *)
(* (a parameter of an OpenFrame, or root_value_after_write of a Write).    *)
(*                                                                         *)
(* Values are trees: scalars (boolean, number, string), arrays, and        *)
(* compounds (struct or enum values with named fields).  JSON numbers      *)
(* become IEEE doubles in JSON.parse; the double format is kept as a       *)
(* parameter, its number of significand bits `Precision` (53 in           *)
(* JavaScript), so that a small instance reaches the integers a double     *)
(* cannot hold, as u64, u128 and u256 values do in real traces.            *)
(***************************************************************************)
EXTENDS Integers, Sequences, TLC

CONSTANTS
    Precision,     \* significand bits of a double (53 in JavaScript)
    Lits,          \* non-negative integer literals the VM may write
    Strs,          \* string scalars (addresses, byte strings)
    FieldNames,    \* field names of compounds (Move identifiers)
    TypeNames,     \* compound type names
    VariantNames,  \* enum variant names
    VariantTags,   \* enum variant tags
    NoVariant,     \* the variant of a struct: variant_name/variant_tag absent
    Inputs         \* the raw values decoded, a finite set of JSONValue

VARIABLES
    raw,       \* the value as the VM wrote it in the trace file
    decoded    \* the RuntimeValueType returned, or NoVariant before the call

vars == <<raw, decoded>>

-----------------------------------------------------------------------------
(***************************************************************************)
(* JSONTraceValueType: boolean | number | string | array | compound.  In a *)
(* compound, `fields` lists the (key, value) members in the order of the   *)
(* file; `variant` is NoVariant or the pair variant_name / variant_tag.    *)
(***************************************************************************)
Scalars ==
         [t : {"bool"}, b : BOOLEAN]
    \cup [t : {"num"}, n : Lits]
    \cup [t : {"str"}, s : Strs]

Variants == {NoVariant} \cup [name : VariantNames, tag : VariantTags]

\* Field lists of at most len members with pairwise distinct keys.
FieldLists(S, len) ==
    {fs \in UNION {[1 .. l -> [key : FieldNames, val : S]] : l \in 0 .. len} :
        \A i, j \in DOMAIN fs : i # j => fs[i].key # fs[j].key}

\* JSON values whose children are drawn from S, with at most len children.
JSONValues(S, len) ==
         Scalars
    \cup [t : {"arr"}, items : UNION {[1 .. l -> S] : l \in 0 .. len}]
    \cup [t : {"obj"}, fields : FieldLists(S, len), type : TypeNames,
          variant : Variants]

-----------------------------------------------------------------------------
(***************************************************************************)
(* JSON.parse on a number: the nearest double, ties to the even            *)
(* significand.  A double has Precision significand bits, so the integers  *)
(* below 2^Precision are exact and above it the spacing of doubles in     *)
(* [2^e, 2^(e+1)) is 2^(e - Precision + 1).                                *)
(***************************************************************************)
Log2Floor(n) == CHOOSE e \in 0 .. n : 2^e <= n /\ n < 2^(e + 1)

Ulp(n) == IF n < 2^Precision THEN 1 ELSE 2^(Log2Floor(n) - Precision + 1)

ToDouble(n) ==
    LET u == Ulp(n)
        q == n \div u
        r == n % u
    IN  IF 2 * r < u \/ (2 * r = u /\ q % 2 = 0) THEN q * u ELSE (q + 1) * u

MaxSafeInteger == 2^Precision - 1

(***************************************************************************)
(* String(d) for an integral double d >= 1 (Number::toString): the decimal *)
(* s * 10^m with the fewest significant digits whose nearest double is d;  *)
(* among those the one closest to d, then the one with an even s.  Above   *)
(* MaxSafeInteger this is not d's own digits (2^64 prints as               *)
(* 18446744073709552000).                                                  *)
(***************************************************************************)
TrailingZeros(c) == CHOOSE z \in 0 .. c : c % 10^z = 0 /\ c % 10^(z + 1) # 0

SigDigits(c) ==
    LET s == c \div 10^TrailingZeros(c)
    IN  CHOOSE k \in 1 .. s : 10^(k - 1) <= s /\ s < 10^k

Dist(a, b) == IF a >= b THEN a - b ELSE b - a

ShortestDecimal(d) ==
    LET cands == {c \in d - Ulp(d) .. d + Ulp(d) : c >= 1 /\ ToDouble(c) = d}
        fewest == {c \in cands : \A o \in cands : SigDigits(c) <= SigDigits(o)}
        closest == {c \in fewest : \A o \in fewest : Dist(c, d) <= Dist(o, d)}
    IN  IF d = 0 THEN 0
        ELSE CHOOSE c \in closest :
                 \/ closest = {c}
                 \/ (c \div 10^TrailingZeros(c)) % 2 = 0

\* String(value) on a parsed scalar.
JSString(v) ==
    CASE v.t = "bool" -> IF v.b THEN "true" ELSE "false"
      [] v.t = "num"  -> ToString(ShortestDecimal(v.n))
      [] v.t = "str"  -> v.s

(***************************************************************************)
(* JSON.parse on a value: numbers become doubles; a compound's members are *)
(* kept in file order (Object.entries lists string keys in insertion       *)
(* order; only integer-like keys would be reordered, and Move field names  *)
(* are identifiers).  Parsing keeps everything else.                       *)
(***************************************************************************)
RECURSIVE JSONParse(_)
JSONParse(v) ==
    CASE v.t = "num" -> [v EXCEPT !.n = ToDouble(v.n)]
      [] v.t = "arr" -> [v EXCEPT !.items = [i \in DOMAIN v.items |-> JSONParse(v.items[i])]]
      [] v.t = "obj" -> [v EXCEPT !.fields =
                            [i \in DOMAIN v.fields |->
                                [key |-> v.fields[i].key, val |-> JSONParse(v.fields[i].val)]]]
      [] OTHER -> v

\* Mutation of ObjectEntries: the members listed last to first.
ObjectEntriesReversed(v) ==
    [i \in DOMAIN v.fields |-> v.fields[Len(v.fields) + 1 - i]]

\* Object.entries(value.fields).
ObjectEntries(v) == v.fields

(***************************************************************************)
(* traceValueFromJSON: scalars -> String(value); arrays -> element-wise;   *)
(* anything else is a compound: its entries decoded in Object.entries      *)
(* order, type, variant_name and variant_tag copied.                       *)
(***************************************************************************)
RECURSIVE TraceValueFromJSON(_)
TraceValueFromJSON(v) ==
    IF v.t \in {"bool", "num", "str"}
      THEN [t |-> "scalar", text |-> JSString(v)]
    ELSE IF v.t = "arr"
      THEN [t |-> "seq", items |-> [i \in DOMAIN v.items |-> TraceValueFromJSON(v.items[i])]]
    ELSE LET es == ObjectEntries(v)
         IN  [t |-> "compound",
              fields |-> [i \in DOMAIN es |-> <<es[i].key, TraceValueFromJSON(es[i].val)>>],
              type |-> v.type,
              variant |-> v.variant]

-----------------------------------------------------------------------------
Init ==
    /\ raw \in Inputs
    /\ decoded = NoVariant

\* One call: traceValueFromJSON(value) on the parsed file's value.
Decode ==
    /\ decoded = NoVariant
    /\ decoded' = TraceValueFromJSON(JSONParse(raw))
    /\ UNCHANGED raw

Spec == Init /\ [][Decode]_vars

-----------------------------------------------------------------------------
(***************************************************************************)
(* The canonical RuntimeValue of a raw value (spec, ValueDecoder):         *)
(* Scalar(String(raw)) with the text of the value as written, Sequence of *)
(* the decoded elements, Compound with the fields in declared order and   *)
(* type / variant copied verbatim.                                         *)
(***************************************************************************)
RECURSIVE Canonical(_)
Canonical(v) ==
    CASE v.t = "bool" -> [t |-> "scalar", text |-> IF v.b THEN "true" ELSE "false"]
      [] v.t = "num"  -> [t |-> "scalar", text |-> ToString(v.n)]
      [] v.t = "str"  -> [t |-> "scalar", text |-> v.s]
      [] v.t = "arr"  -> [t |-> "seq", items |-> [i \in DOMAIN v.items |-> Canonical(v.items[i])]]
      [] v.t = "obj"  -> [t |-> "compound",
                          fields |-> [i \in DOMAIN v.fields |->
                                        <<v.fields[i].key, Canonical(v.fields[i].val)>>],
                          type |-> v.type,
                          variant |-> v.variant]

\* Every number literal inside v.
RECURSIVE NumbersIn(_)
NumbersIn(v) ==
    CASE v.t = "num" -> {v.n}
      [] v.t = "arr" -> UNION {NumbersIn(v.items[i]) : i \in DOMAIN v.items}
      [] v.t = "obj" -> UNION {NumbersIn(v.fields[i].val) : i \in DOMAIN v.fields}
      [] OTHER -> {}

\* Type invariant: the input is a JSON value, the result is not yet or a runtime value.
TypeOK ==
    /\ raw \in Inputs
    /\ decoded = NoVariant \/ decoded.t \in {"scalar", "seq", "compound"}

(***************************************************************************)
(* For values whose numbers a double holds exactly (all at most            *)
(* MaxSafeInteger), decoding yields the canonical value: same shape, same  *)
(* field names in declared order, type and variant copied, and every       *)
(* scalar rendered as the text it was written with.                        *)
(***************************************************************************)
DecodeMatchesCanonical ==
    (decoded # NoVariant /\ \A n \in NumbersIn(raw) : n <= MaxSafeInteger)
        => decoded = Canonical(raw)

(***************************************************************************)
(* Spec, ValueDecoder: scalars decode to String(raw) "to avoid precision   *)
(* loss on 128/256-bit integers".  Stated for every value: the decoded    *)
(* value is the canonical one, whatever size its integers are.            *)
(***************************************************************************)
NoPrecisionLoss ==
    decoded # NoVariant => decoded = Canonical(raw)

=============================================================================
