----------------------------- MODULE StableLog -----------------------------
(***************************************************************************)
(* What the rolling layer-boundary store promises, said without a disk: an *)
(* append-only log with one entry (the projection index) per decoder       *)
(* layer, and a prefix of it that has become stable.  A power failure may  *)
(* take back entries past the stable prefix; nothing ever takes back or    *)
(* rewrites a stable one.                                                  *)
(***************************************************************************)
EXTENDS Naturals, Sequences

CONSTANTS
  Entry,   \* the projection index of one layer
  Length   \* number of target layers, a natural number

VARIABLES
  log,     \* the entries a reader of the store would find now
  stable   \* how many of them survive a power failure

logVars == <<log, stable>>

Init ==
  /\ log = <<>>
  /\ stable = 0

Extend(e) ==
  /\ Len(log) < Length
  /\ log' = Append(log, e)
  /\ UNCHANGED stable

Settle ==
  /\ stable' = Len(log)
  /\ UNCHANGED log

Lose ==
  \E n \in stable..Len(log) :
    /\ log' = SubSeq(log, 1, n)
    /\ stable' = n

Next == (\E e \in Entry : Extend(e)) \/ Settle \/ Lose

Spec == Init /\ [][Next]_logVars

=============================================================================
