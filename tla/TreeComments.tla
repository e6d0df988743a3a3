---------------------------- MODULE TreeComments ----------------------------
(***************************************************************************)
(* Comment attachment in the constructor of Tree (prettier-move,           *)
(* src/tree.ts): for one node, its children are wrapped, runs of newlines  *)
(* are shrunk, then each child in turn takes the comment after it as its   *)
(* trailing comment, then each child in turn takes the comments on the     *)
(* lines above it as its leading comments, and finally the comments that   *)
(* were taken are dropped from the children.                               *)
(*                                                                         *)
(* A child is abstracted to its kind: a named syntax node ("node"), a      *)
(* comment (line_comment or block_comment), a "newline", an "empty_line",  *)
(* or an unnamed token.  Children are identified by their position in the  *)
(* parser's list; their text is their identity.                            *)
(***************************************************************************)
EXTENDS Integers, Sequences, FiniteSets

CONSTANTS
    Kinds,           \* the kinds of children
    Input,           \* the parser's children lists: a finite set of Seq(Kinds)
    FormattingKinds  \* the kinds isFormatting (cst/Formatting) accepts

Named(k) == k # "token"
IsComment(k) == k = "comment"
IsNewline(k) == k = "newline"
IsFormatting(k) == k \in FormattingKinds

VARIABLES
    kids,      \* node.children as the parser gives them: position -> kind
    children,  \* this.children: the positions still listed, in order
    used,      \* positions whose isUsedComment is set
    trailing,  \* trailing[p]: position of p's trailingComment, 0 for null
    leading,   \* leading[p]: positions of p's leadingComment, in order
    phase,     \* the constructor statement being run
    i          \* the index of the child the current map is at

vars == <<kids, children, used, trailing, leading, phase, i>>

Kind(p) == kids[p]

-----------------------------------------------------------------------------
(***************************************************************************)
(* Sibling navigation through the parent's current children array.        *)
(***************************************************************************)
IndexOf(arr, p) == CHOOSE j \in DOMAIN arr : arr[j] = p

\* previousNamedSibling / nextNamedSibling of p in arr, 0 for null.
PrevNamed(arr, p) ==
    LET j == IndexOf(arr, p)
        before == {m \in 1 .. j - 1 : Named(Kind(arr[m]))}
    IN  IF before = {} THEN 0
        ELSE arr[CHOOSE m \in before : \A o \in before : o <= m]

NextNamed(arr, p) ==
    LET j == IndexOf(arr, p)
        after == {m \in j + 1 .. Len(arr) : Named(Kind(arr[m]))}
    IN  IF after = {} THEN 0
        ELSE arr[CHOOSE m \in after : \A o \in after : m <= o]

\* Positions 1 .. n in order.
Positions(n) == [j \in 1 .. n |-> j]

\* shrinkNewlines: a newline whose previous named sibling (in the array the
\* reduce runs over) is a newline is left out.
ShrinkNewlines(arr) ==
    SelectSeq(arr, LAMBDA p : ~(IsNewline(Kind(p))
                                /\ PrevNamed(arr, p) # 0
                                /\ IsNewline(Kind(PrevNamed(arr, p)))))

-----------------------------------------------------------------------------
(***************************************************************************)
(* assignTrailingComments on the child at p.                               *)
(***************************************************************************)
\* Mutation of TrailingTarget: `if (!this.isNamed) return this;` left out.
TrailingTargetUnnamed(p) ==
    LET nx == NextNamed(children, p)
    IN  IF /\ ~IsFormatting(Kind(p))
           /\ nx # 0 /\ IsComment(Kind(nx))
           /\ nx \notin used
        THEN nx ELSE 0

TrailingTarget(p) ==
    LET nx == NextNamed(children, p)
    IN  IF /\ Named(Kind(p))
           /\ ~IsFormatting(Kind(p))
           /\ nx # 0 /\ IsComment(Kind(nx))
           /\ nx \notin used
        THEN nx ELSE 0

AssignTrailingComments ==
    /\ phase = "trailing"
    /\ i <= Len(children)
    /\ LET p == children[i]
           c == TrailingTarget(p)
       IN  /\ trailing' = IF c = 0 THEN trailing ELSE [trailing EXCEPT ![p] = c]
           /\ used' = IF c = 0 THEN used ELSE used \cup {c}
    /\ i' = i + 1
    /\ UNCHANGED <<kids, children, leading, phase>>

(***************************************************************************)
(* assignLeadingComments on the child at p: below a newline, walk back     *)
(* over comments and newlines, stopping at anything else and at a used     *)
(* comment, and collect the comments in source order.                      *)
(***************************************************************************)

\* Mutation of Walk: the `if (prev.isUsedComment) break;` left out.
WalkPastUsed(p) ==
    LET start == PrevNamed(children, PrevNamed(children, p))
        named == {m \in DOMAIN children : Named(Kind(children[m]))}
        upto(j) == {m \in named : m <= j}
        passable(m) == IsComment(Kind(children[m])) \/ IsNewline(Kind(children[m]))
    IN  IF start = 0 THEN {}
        ELSE LET js == IndexOf(children, start)
             IN  {children[m] : m \in {q \in upto(js) :
                                  \A o \in upto(js) : o >= q => passable(o)}}

\* The named siblings the walk visits, from the one above the newline back.
Walk(p) ==
    LET start == PrevNamed(children, PrevNamed(children, p))
        named == {m \in DOMAIN children : Named(Kind(children[m]))}
        upto(j) == {m \in named : m <= j}
        passable(m) == \/ IsComment(Kind(children[m])) /\ children[m] \notin used
                       \/ IsNewline(Kind(children[m]))
    IN  IF start = 0 THEN {}
        ELSE LET js == IndexOf(children, start)
             IN  {children[m] : m \in {q \in upto(js) :
                                  \A o \in upto(js) : o >= q => passable(o)}}

LeadingCandidates(p) ==
    IF /\ Named(Kind(p))
       /\ ~IsFormatting(Kind(p))
       /\ PrevNamed(children, p) # 0
       /\ IsNewline(Kind(PrevNamed(children, p)))
      THEN {q \in Walk(p) : IsComment(Kind(q))}
      ELSE {}

\* Mutation of InSourceOrder: `comments.push` instead of `unshift`.
InWalkOrder(S) ==
    [j \in 1 .. Cardinality(S) |->
        CHOOSE q \in S : Cardinality({o \in S : o > q}) = j - 1]

\* The collected comments as `comments.unshift` leaves them: source order.
InSourceOrder(S) ==
    [j \in 1 .. Cardinality(S) |->
        CHOOSE q \in S : Cardinality({o \in S : o < q}) = j - 1]

AssignLeadingComments ==
    /\ phase = "leading"
    /\ i <= Len(children)
    /\ LET p == children[i]
           cs == LeadingCandidates(p)
       IN  /\ leading' = [leading EXCEPT ![p] = InSourceOrder(cs)]
           /\ used' = used \cup cs
    /\ i' = i + 1
    /\ UNCHANGED <<kids, children, trailing, phase>>

-----------------------------------------------------------------------------
\* `new Tree(child, this)` for every child, then the shrink.
Shrink ==
    /\ phase = "shrink"
    /\ children' = ShrinkNewlines(children)
    /\ phase' = "trailing"
    /\ i' = 1
    /\ UNCHANGED <<kids, used, trailing, leading>>

\* A map is over: the next statement of the constructor starts.
EndTrailing ==
    /\ phase = "trailing" /\ i > Len(children)
    /\ phase' = "leading" /\ i' = 1
    /\ UNCHANGED <<kids, children, used, trailing, leading>>

\* this.children.filter((child) => !child.isUsedComment)
FilterUsed ==
    /\ phase = "leading" /\ i > Len(children)
    /\ children' = SelectSeq(children, LAMBDA p : p \notin used)
    /\ phase' = "done"
    /\ UNCHANGED <<kids, used, trailing, leading, i>>

Init ==
    /\ kids \in Input
    /\ children = Positions(Len(kids))
    /\ used = {}
    /\ trailing = [p \in DOMAIN kids |-> 0]
    /\ leading = [p \in DOMAIN kids |-> << >>]
    /\ phase = "shrink"
    /\ i = 0

Next ==
    \/ Shrink
    \/ AssignTrailingComments
    \/ EndTrailing
    \/ AssignLeadingComments
    \/ FilterUsed

Spec == Init /\ [][Next]_vars

-----------------------------------------------------------------------------
\* The positions a comment at q is attached to, as trailing or leading.
AttachedTo(q) ==
    {p \in DOMAIN kids : trailing[p] = q}
        \cup {p \in DOMAIN kids : \E j \in DOMAIN leading[p] : leading[p][j] = q}

(***************************************************************************)
(* The motivation of assignLeadingComments: a comment is never associated  *)
(* twice, neither as both trailing and leading comment nor with two nodes. *)
(***************************************************************************)
NoCommentTwice ==
    \A q \in DOMAIN kids :
        /\ Cardinality(AttachedTo(q)) <= 1
        /\ \A p \in DOMAIN kids :
              Cardinality({j \in DOMAIN leading[p] : leading[p][j] = q}) <= 1

(***************************************************************************)
(* When the constructor is done, no comment is lost: a comment dropped     *)
(* from the children is attached to a child that is still there.  Leading  *)
(* comments are kept in the order they appear in the source.               *)
(***************************************************************************)
CommentsKept ==
    phase = "done" =>
        /\ \A q \in used :
              \E p \in AttachedTo(q) : \E j \in DOMAIN children : children[j] = p
        /\ \A p \in DOMAIN kids : \A j \in 1 .. Len(leading[p]) - 1 :
              leading[p][j] < leading[p][j + 1]

(***************************************************************************)
(* A comment on a line of its own directly above a node becomes that       *)
(* node's leading comment (assignLeadingComments: "searches for comments   *)
(* preceding the current node"), rather than being left as a child or     *)
(* taken as the trailing comment of something else.  Stated when the last *)
(* leading map is over, before the used comments are filtered out.         *)
(***************************************************************************)
OwnLineCommentLeads ==
    phase = "leading" /\ i > Len(children) =>
        \A c \in DOMAIN kids :
            LET nl == NextNamed(children, c)
                p  == NextNamed(children, nl)
                pv == PrevNamed(children, c)
            IN  (/\ \E j \in DOMAIN children : children[j] = c
                 /\ IsComment(Kind(c))
                 /\ nl # 0 /\ IsNewline(Kind(nl))
                 /\ p # 0 /\ ~IsFormatting(Kind(p))
                 /\ (pv = 0 \/ IsNewline(Kind(pv))))
                   => \E j \in DOMAIN leading[p] : leading[p][j] = c

=============================================================================
