-------------------------------- MODULE Swr ---------------------------------
(***************************************************************************)
(* External: SWR's cache, as the dashboard's pages use it.  A key shows    *)
(* the rows of its last answer; it has one GET under way at most, and      *)
(* mutate(key) forgets that one and sends another for whoever called it.   *)
(* A mutate whose GET is forgotten in turn is over at some time after.     *)
(***************************************************************************)

\* What a key shows, its GET, who waits for it, and the answer on its way.
SwrKey(rows) == [rows |-> rows, get |-> "none", by |-> "poll", answer |-> rows]

SwrKeys(contents, callers) ==
    [rows : contents, get : {"none", "asked", "answered"}, by : callers \cup {"poll"}, answer : contents]

Revalidate(k, by) == [k EXCEPT !.get = "asked", !.by = by]
Answered(k, rows) == [k EXCEPT !.get = "answered", !.answer = rows]
\* The answer arrives; nothing is kept of a GET that failed.
Arrived(k) == SwrKey(k.answer)
Forgotten(k) == SwrKey(k.rows)
=============================================================================
