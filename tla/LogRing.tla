------------------------------ MODULE LogRing -------------------------------
(***************************************************************************)
(* The ring of log lines behind the startup diagnostics and the runtime    *)
(* log tail (src/backend/xray/startup_diagnostics.go), written line by     *)
(* line and emptied by every Start.  Slots count from 0, as in Go.         *)
(***************************************************************************)
EXTENDS Integers, SequencesExt

CONSTANTS
    Lines,      \* log lines
    RingSizes,  \* sizes a ring is asked for, and lengths of a tail
    MaxLines    \* bound: lines written between two resets

ASSUME LogRingAssumption == "" \notin Lines /\ RingSizes \subseteq Int /\ MaxLines \in Nat

VARIABLES
    ring,       \* the ring
    written     \* history: the lines written since the last reset

ringVars == <<ring, written>>

newStartupLogRing(size) ==
    [lines |-> [i \in 0..(IF size <= 0 THEN 0 ELSE size - 1) |-> ""],
     next |-> 0, full |-> FALSE]

Size(r) == Cardinality(DOMAIN r.lines)

(* Faulty variant: the ring keeps its full flag.                           *)
ResetLines(r) == [r EXCEPT !.lines = [i \in DOMAIN r.lines |-> ""], !.next = 0]

Reset(r) == [lines |-> [i \in DOMAIN r.lines |-> ""], next |-> 0, full |-> FALSE]

Add(r, line) ==
    LET next == (r.next + 1) % Size(r)
    IN  [lines |-> [r.lines EXCEPT ![r.next] = line],
         next |-> next, full |-> r.full \/ next = 0]

(* tail(n): the whole content when n is not positive or too large          *)
LogTail(r, n) ==
    LET count == IF r.full THEN Size(r) ELSE r.next
        wanted == IF n <= 0 \/ n > count THEN count ELSE n
        oldest == IF r.full THEN r.next ELSE 0
    IN  [i \in 1..wanted |-> r.lines[(oldest + count - wanted + i - 1) % Size(r)]]
-----------------------------------------------------------------------------
RingInit == written = <<>> /\ \E size \in RingSizes : ring = newStartupLogRing(size)

WriteLine(line) ==
    /\ Len(written) < MaxLines
    /\ ring' = Add(ring, line) /\ written' = Append(written, line)

ResetRing == ring' = Reset(ring) /\ written' = <<>>

RingNext == ResetRing \/ \E line \in Lines : WriteLine(line)

Least(m, n) == IF m < n THEN m ELSE n

(* What the reader of a tail expects: the newest lines, oldest first.      *)
Newest(kept, n) ==
    LET held == Least(Len(written), kept)
        count == IF n <= 0 THEN held ELSE Least(n, held)
    IN  SubSeq(written, Len(written) - count + 1, Len(written))

(* Whatever was written before the last reset, tail returns exactly the    *)
(* newest lines written since, in the order written, for every size of the *)
(* ring and every number asked for.                                        *)
RingKeepsNewest == \A n \in RingSizes : LogTail(ring, n) = Newest(Size(ring), n)
=============================================================================
