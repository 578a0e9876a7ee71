---------------------------- MODULE CommandChannel ----------------------------
(***************************************************************************)
(* What the radio link promises its user: the clock carries out only       *)
(* commands that were issued, each stamp at most once, and in the order of *)
(* their stamps.  Nothing is promised to arrive: the link is one-way.      *)
(***************************************************************************)
EXTENDS Naturals, Sequences

CONSTANT Commands

Item == [stamp : Nat, cmd : Commands]

VARIABLES
  issued,     \* the set of Items handed to the radio link
  executed    \* the sequence of Items the clock has carried out

vars == <<issued, executed>>

TypeOK ==
  /\ issued \subseteq Item
  /\ executed \in Seq(Item)

Init ==
  /\ issued = {}
  /\ executed = <<>>

Issue ==
  /\ issued \subseteq issued'
  /\ issued' \subseteq Item
  /\ UNCHANGED executed

(* A command may be carried out only if it is newer than all before it. *)
Execute(item) ==
  /\ \A k \in DOMAIN executed : executed[k].stamp < item.stamp
  /\ executed' = Append(executed, item)
  /\ UNCHANGED issued

Next == Issue \/ \E item \in issued : Execute(item)

Spec == Init /\ [][Next]_vars
=============================================================================
