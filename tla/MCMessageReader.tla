--------------------------- MODULE MCMessageReader ---------------------------
EXTENDS MessageReader

\* The bodies of up to two parts around the limit.
Bodies == SeqOf([size : 0 .. maximumTextBytes + 1, cut : BOOLEAN], 2)

\* What GetMessage keeps of its text limit holds for these bodies, and what
\* MessageDetail documents of it does not.
ASSUME TextOfBodies ==
  /\ \A parts \in Bodies : TextWithinOneByte(parts)
  /\ \E parts \in Bodies : ~TextAsDocumented(parts)

MCSymmetry == Permutations(Ids) \cup Permutations(Mailboxes)
=============================================================================
