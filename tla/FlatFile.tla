------------------------------ MODULE FlatFile ------------------------------
(***************************************************************************)
(* What an open regular file promises to a program: a sequence of words    *)
(* and a position in it.  Ext2File implements it.                          *)
(***************************************************************************)
EXTENDS Integers, SequencesExt

CONSTANTS Word, Counts, Sizes

VARIABLES content, pos,
          out   \* what the last read has returned

flatVars == <<content, pos, out>>

Init == content = <<>> /\ pos = 0 /\ out = <<>>

Read(n) ==
  /\ out' = SubSeq(content, pos + 1, IF pos + n < Len(content) THEN pos + n ELSE Len(content))
  /\ pos' = pos + Len(out')
  /\ UNCHANGED content

Write(n, w) ==
  /\ content' = SubSeq(content, 1, pos) \o [i \in 1 .. n |-> w]
                  \o SubSeq(content, pos + n + 1, Len(content))
  /\ pos' = pos + n
  /\ UNCHANGED out

Seek(p) == p <= Len(content) /\ pos' = p /\ UNCHANGED <<content, out>>

\* Cut off, or extended with zeros.
Truncate(n) ==
  /\ content' = [i \in 1 .. n |-> IF i <= Len(content) THEN content[i] ELSE 0]
  /\ UNCHANGED <<pos, out>>

Next ==
  \/ \E n \in Counts : Read(n) \/ \E w \in Word : Write(n, w)
  \/ \E n \in Sizes : Seek(n) \/ Truncate(n)

Spec == Init /\ [][Next]_flatVars

=============================================================================
