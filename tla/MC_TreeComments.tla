-------------------------- MODULE MC_TreeComments --------------------------
EXTENDS TreeComments

MCKinds == {"node", "comment", "newline", "empty_line", "token"}

\* Every children list of up to MaxChildren children.
MaxChildren == 6

MCInput == UNION {[1 .. n -> MCKinds] : n \in 0 .. MaxChildren}

\* isFormatting (cst/Formatting, not in the repository): its doc comment lists
\* line_comment, block_comment, empty_line and next_line, the line-break node
\* that this version of the grammar calls newline (isNewline); the walk over
\* newlines in assignLeadingComments only reaches a comment if line breaks
\* are formatting nodes (and the later version of the file skips formatting
\* nodes between an annotation and the node below it, in hasAnnotation).
MCFormatting == {"comment", "empty_line", "newline"}

=============================================================================
