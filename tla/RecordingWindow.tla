--------------------------- MODULE RecordingWindow ---------------------------
(***************************************************************************)
(* What an Archive keeps: the last maxSize program executions that were    *)
(* recorded, oldest first, each with a copy of the input it ran on.        *)
(* Executions on data with the same hash share the copy made for the first *)
(* of them, as long as one of them is in the window.                       *)
(***************************************************************************)
EXTENDS Integers, Sequences

CONSTANTS Execution,    \* the program executions that may be recorded, with data and its hash
          MaxSize       \* maximum number of recordings kept

VARIABLE window

(* The last n elements of s. *)
LastOf(s, n) == IF Len(s) <= n THEN s ELSE SubSeq(s, Len(s) - n + 1, Len(s))

Init == window = <<>>

Copies(h) == {window[i].copy : i \in {j \in DOMAIN window : window[j].execution.hash = h}}

Record(x) ==
    \E c \in IF Copies(x.hash) = {} THEN {x.data} ELSE Copies(x.hash) :
       window' = LastOf(Append(window, [execution |-> x, copy |-> c]), MaxSize)

Forget == window' = <<>>

Next == Forget \/ \E x \in Execution : Record(x)

Spec == Init /\ [][Next]_window
=============================================================================
