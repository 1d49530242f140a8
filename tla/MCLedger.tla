------------------------------ MODULE MCLedger ------------------------------
(* Small instances of Ledger for TLC: three calls on two runs, or two      *)
(* calls on a line of three runs, longer than the walk up it.              *)
EXTENDS Ledger, TLC

CONSTANT r3   \* the run that is declared last where there are three

RunSymmetry == Permutations(Runs \ {r3})

InLine(L) == \A r, s \in Runs : r # s => L[r].parent # L[s].parent

(* Calls differ in their number only: it is the order they begin in.       *)
InOrder == \A c \in Calls : c > 1 /\ call'[c - 1] = IdleCall => call'[c] = IdleCall

(* A third run excludes a third call and budgets that are lowered.         *)
Small ==
  IF ledger'[r3].open
  THEN /\ Open(ledger') = Runs /\ InLine(ledger')
       /\ \A r \in Runs : peak'[r] = ledger'[r].budget
       /\ \A c \in Calls : c > 2 => call'[c] = IdleCall
  ELSE \A c \in Calls : call'[c].run # r3

MCNext == Next /\ InOrder /\ Small

MCSpec == Init /\ [][MCNext]_vars
=============================================================================
