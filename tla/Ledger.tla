------------------------------- MODULE Ledger --------------------------------
(***************************************************************************)
(* What the engine promises about money, in the client's terms: a quote is  *)
(* dealt with at most once.  Accepting it takes the source amount out of    *)
(* the funds the client may spend; its end either pays out the target       *)
(* amount or gives the source amount back.  Each of these happens in one    *)
(* piece.  There are no sessions, messages, locks or failures here: the     *)
(* detailed modules are shown to implement this one.                        *)
(***************************************************************************)
EXTENDS Integers

CONSTANTS Quotes, Wallets, Terms, Initial

VARIABLES
  free,   \* what may be spent from each wallet
  deal    \* what has become of each quote

ledger == <<free, deal>>

LedgerInit ==
  /\ free = Initial
  /\ deal = [q \in Quotes |-> "open"]

Becomes(q, from, to) ==
  /\ deal[q] = from
  /\ deal' = [deal EXCEPT ![q] = to]

Hold(q) ==
  /\ free[Terms[q].source] >= Terms[q].sourceAmount
  /\ free' = [free EXCEPT ![Terms[q].source] = @ - Terms[q].sourceAmount]
  /\ Becomes(q, "open", "held")

PayOut(q) ==
  /\ free' = [free EXCEPT ![Terms[q].target] = @ + Terms[q].targetAmount]
  /\ Becomes(q, "held", "completed")

GiveBack(q) ==
  /\ free' = [free EXCEPT ![Terms[q].source] = @ + Terms[q].sourceAmount]
  /\ Becomes(q, "held", "failed")

LedgerNext == \E q \in Quotes : Hold(q) \/ PayOut(q) \/ GiveBack(q)

LedgerSpec == LedgerInit /\ [][LedgerNext]_ledger
=============================================================================
