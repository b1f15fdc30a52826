------------------------------ MODULE LogSpec ------------------------------
(***************************************************************************)
(* What the ring buffer of the log promises: the last LOG_RING_BUFFER_SIZE *)
(* characters that were logged and not yet read, in order; every call      *)
(* takes effect at once, whichever hart makes it.                          *)
(***************************************************************************)
EXTENDS Integers, Sequences

CONSTANTS Hart, LOG_RING_BUFFER_SIZE, Lines, ReadSizes

VARIABLES
  log,  \* the characters kept, oldest first
  ret   \* the last call that read them: hart, function, size and result
vars == <<log, ret>>

Init == log = <<>> /\ ret = <<>>

First(s, n) == SubSeq(s, 1, IF Len(s) < n THEN Len(s) ELSE n)
Last(s, n) == IF Len(s) <= n THEN s ELSE SubSeq(s, Len(s) - n + 1, Len(s))

Write(l) == log' = Last(log \o l, LOG_RING_BUFFER_SIZE) /\ UNCHANGED ret

Peek(h, max) == ret' = <<h, "peek", max, First(log, max)>> /\ UNCHANGED log

Read(h, max) ==
  /\ ret' = <<h, "read", max, First(log, max)>>
  /\ log' = SubSeq(log, Len(First(log, max)) + 1, Len(log))

Clear == log' = <<>> /\ UNCHANGED ret

Next == \/ \E l \in Lines : Write(l)
        \/ \E h \in Hart : \E max \in ReadSizes : Peek(h, max) \/ Read(h, max)
        \/ Clear

Spec == Init /\ [][Next]_vars
=============================================================================
