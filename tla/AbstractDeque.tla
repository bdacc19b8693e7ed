---------------------------- MODULE AbstractDeque ---------------------------
(***************************************************************************)
(* What WorkStealingDeque promises: a double-ended queue whose owner adds  *)
(* and removes at the bottom while thieves remove at the top, each         *)
(* operation in one step.                                                  *)
(***************************************************************************)
EXTENDS Naturals, Sequences

CONSTANT Items

VARIABLES
  items,    \* contents, top first
  owner,    \* how often pop() has returned each item
  stolen    \* how often steal() has returned it

avars == <<items, owner, stolen>>

AInit ==
  /\ items = <<>>
  /\ owner = [v \in Items |-> 0]
  /\ stolen = [v \in Items |-> 0]

PushBottom(v) ==
  /\ items' = Append(items, v)
  /\ UNCHANGED <<owner, stolen>>

PopBottom ==
  /\ items # <<>>
  /\ owner' = [owner EXCEPT ![items[Len(items)]] = @ + 1]
  /\ items' = SubSeq(items, 1, Len(items) - 1)
  /\ UNCHANGED stolen

StealTop ==
  /\ items # <<>>
  /\ stolen' = [stolen EXCEPT ![Head(items)] = @ + 1]
  /\ items' = Tail(items)
  /\ UNCHANGED owner

ANext == (\E v \in Items : PushBottom(v)) \/ PopBottom \/ StealTop

ASpec == AInit /\ [][ANext]_avars
=============================================================================
