------------------------------- MODULE MCTestLog -------------------------------
(* All short outputs, chunks and limits small enough to be crossed. *)
EXTENDS TestLog

CONSTANT MaxBytes

\* Sequences of whole characters.
MCLogs == {s \in BoundedSeq({"a", "nl", "hi", "lo"}, MaxBytes) :
             \A i \in 1..Len(s) : /\ s[i] = "hi" => i < Len(s) /\ s[i + 1] = "lo"
                                  /\ s[i] = "lo" => i > 1 /\ s[i - 1] = "hi"}
MCNexts == {<<>>, <<"a">>, <<"nl">>}
MCLimits == [chunk: {1, 3}, lines: {1, 2, 3}, bytes: {2, 9}]
=============================================================================
