---------------------------- MODULE WalletAccount ----------------------------
(***************************************************************************)
(* The WalletAccount aggregate: one (user, asset) balance and the four      *)
(* operations that may change it.  The repository does not call them: it    *)
(* writes the same arithmetic as conditional UPDATEs and only rebuilds the  *)
(* aggregate from the row it reads back.  This module is what those         *)
(* statements must add up to, however they interleave.                      *)
(***************************************************************************)
EXTENDS Integers

CONSTANTS
  Opening,    \* the balance the account is opened with
  Amounts     \* amounts an operation may be called with

VARIABLES available, reserved, balance

account == <<available, reserved, balance>>

Open ==
  /\ balance = Opening
  /\ available = Opening
  /\ reserved = 0

\* assertInvariant, the last statement of every operation.
AssertInvariant == available' + reserved' = balance'

Reserve(n) ==
  /\ available >= n
  /\ available' = available - n
  /\ reserved' = reserved + n
  /\ UNCHANGED balance
  /\ AssertInvariant

Release(n) ==
  /\ reserved >= n
  /\ reserved' = reserved - n
  /\ available' = available + n
  /\ UNCHANGED balance
  /\ AssertInvariant

CommitReservation(n) ==
  /\ reserved >= n
  /\ reserved' = reserved - n
  /\ balance' = balance - n
  /\ UNCHANGED available
  /\ AssertInvariant

Credit(n) ==
  /\ balance' = balance + n
  /\ available' = available + n
  /\ UNCHANGED reserved
  /\ AssertInvariant

AccountNext ==
  \E n \in Amounts : Reserve(n) \/ Release(n) \/ CommitReservation(n) \/ Credit(n)

AccountSpec == Open /\ [][AccountNext]_account
=============================================================================
