---------------------------- MODULE PageTracker ----------------------------
(* The page-access predictor of the kernel (ai_core/src/ai_memory.c): a ring of *)
(* the last accesses, and ai_swap_predict(), which scores the pages in it,      *)
(* sorts them and advises to swap the first third in and the last third out.    *)
(* Scores are in units of 1/200.  What /proc/ai_memory lists is the pool no     *)
(* prediction is ever written to: only how many it would list is kept.          *)
EXTENDS SequencesExt, Integers

CONSTANTS
  Frames,         \* page frame numbers that are accessed
  AccessHistory,  \* AI_MEM_HISTORY_LEN
  FullScore,      \* a score of 1.0
  MaxOut          \* bound: predictions asked for

TrackerAssumption ==
  /\ Frames \subseteq Nat \ {0}
  /\ {AccessHistory, FullScore, MaxOut} \subseteq Nat \ {0}

VARIABLES
  accesses,    \* history; frame 0 where none has been recorded
  head,        \* where the next access goes
  tracking,    \* enabled
  predictions  \* num_predictions

trackerVars == <<accesses, head, tracking, predictions>>

TypeOK ==
  /\ accesses \in [0..AccessHistory - 1 -> [frame : Frames \cup {0}, write : BOOLEAN]]
  /\ head \in 0..AccessHistory - 1
  /\ tracking \in BOOLEAN /\ predictions \in 0..MaxOut

Init ==
  /\ accesses = [i \in 0..AccessHistory - 1 |-> [frame |-> 0, write |-> FALSE]]
  /\ head = 0 /\ tracking = TRUE /\ predictions = 0

Record(frame, write) ==
  /\ tracking
  /\ accesses' = [accesses EXCEPT ![head] = [frame |-> frame, write |-> write]]
  /\ head' = (head + 1) % AccessHistory
  /\ UNCHANGED <<tracking, predictions>>

---------------------------------------------------------------------------
(* ai_swap_predict() *)

(* Mutant for HotterInFront: the scan starts at the head, with the oldest.    *)
OldestFirst(i) == accesses[(head + i) % AccessHistory]

Newest(i) == accesses[(head - 1 - i + AccessHistory) % AccessHistory]

Capped(score) == IF score > FullScore THEN FullScore ELSE score
Gain(i) == 20 + 10 * (AccessHistory - i)

First(i) == IF Newest(i).write THEN (Capped(Gain(i)) * 7) \div 10 ELSE Capped(Gain(i))

(* One access, the i-th from the newest.  The write discount is the first's.    *)
Scored(out, i, max) ==
  LET frame == Newest(i).frame
      found == {k \in DOMAIN out : out[k].frame = frame}
  IN  IF frame = 0 THEN out
      ELSE IF found # {}
      THEN [k \in DOMAIN out |->
              IF k \in found THEN [out[k] EXCEPT !.score = Capped(@ + Gain(i))] ELSE out[k]]
      ELSE IF Len(out) < max THEN Append(out, [frame |-> frame, score |-> First(i)])
      ELSE out

Scan(max) ==
  FoldLeft(LAMBDA out, i : Scored(out, i, max), <<>>, [i \in 1..AccessHistory |-> i - 1])

Swapped(s, i, j) == [s EXCEPT ![i] = s[j], ![j] = s[i]]

(* The exchange sort, by descending score.                                      *)
Exchanged(s, i, j) == IF s[j].score > s[i].score THEN Swapped(s, i, j) ELSE s

Round(out, i) ==
  FoldLeft(LAMBDA s, j : Exchanged(s, i, j), out, [k \in 1..Len(out) - i |-> i + k])

Sorted(out) == FoldLeft(Round, out, [i \in 1..Len(out) - 1 |-> i])

Predicted(max) == Sorted(Scan(max))

(* The advice for the i-th of n pages, counted from 1.                          *)
Advice(n, i) ==
  IF i - 1 < n \div 3 THEN "swap_in" ELSE IF i - 1 > (2 * n) \div 3 THEN "swap_out" ELSE "keep"

Predict(max) ==
  /\ tracking
  /\ predictions' = Len(Predicted(max))
  /\ UNCHANGED <<accesses, head, tracking>>

(* A write to /proc/ai_memory.                                                  *)
Switch ==
  /\ tracking' \in BOOLEAN
  /\ UNCHANGED <<accesses, head, predictions>>

Next ==
  \/ \E frame \in Frames, write \in BOOLEAN : Record(frame, write)
  \/ \E max \in 1..MaxOut : Predict(max)
  \/ Switch

Spec == Init /\ [][Next]_trackerVars

---------------------------------------------------------------------------
(* Properties *)

(* The slot that was written i accesses before the last one.                    *)
Slot(i) == CHOOSE k \in 0..AccessHistory - 1 : (k + i + 1) % AccessHistory = head

(* How many of the last n accesses were to the frame.                           *)
Uses(frame, n) == Cardinality({i \in 0..n - 1 : accesses[Slot(i)].frame = frame})

(* Each use of q comes after more recent uses of p: as many as q has up to it.  *)
Hotter(p, q) ==
  \A n \in 1..AccessHistory :
    accesses[Slot(n - 1)].frame = q => Uses(p, n - 1) >= Uses(q, n)

LastUseWrites(p) ==
  \E n \in 1..AccessHistory :
    /\ accesses[Slot(n - 1)].frame = p /\ Uses(p, n - 1) = 0
    /\ accesses[Slot(n - 1)].write

(* "The hottest pages in front": whatever the ring holds and wherever it        *)
(* starts, a page that was accessed more recently than another throughout is    *)
(* listed when the other is, and in front of it, also where the cap makes their *)
(* scores equal; so it is never advised out while the other is advised in.      *)
(* Not meant is a page that was last accessed for writing: the code ranks it    *)
(* down ("easily swapped out"), be it behind a page that was used less.         *)
HotterInFront ==
  \A max \in 1..MaxOut :
    LET out == Predicted(max)
        at(p) == CHOOSE i \in DOMAIN out : out[i].frame = p
        listed == {out[i].frame : i \in DOMAIN out}
    IN  \A q \in listed, p \in Frames :
          Hotter(p, q) /\ ~LastUseWrites(p) =>
            /\ p \in listed /\ at(p) < at(q)
            /\ ~(Advice(Len(out), at(p)) = "swap_out" /\ Advice(Len(out), at(q)) = "swap_in")
=============================================================================
