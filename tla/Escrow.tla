------------------------------- MODULE Escrow -------------------------------
(***************************************************************************)
(* What an escrow agent promises.  The payer of a slot puts money in its   *)
(* pot; it leaves the pot once, all of it, to the payer and the payee of   *)
(* that slot and to nobody else; as long as the payee has not agreed, all  *)
(* of it returns to the payer; a contested pot takes no more money; and a  *)
(* settled slot is never used again.  No other step touches a wallet.      *)
(***************************************************************************)
EXTENDS Integers

CONSTANTS Slots, Accounts, Nobody

VARIABLES
    phase,      (* empty, offered, agreed, contested or settled *)
    pot,        (* money held for the slot *)
    payer,      (* who filled the pot, while the slot is open *)
    payee,      (* the other party, once there is one *)
    wallet      (* money of each account *)

vars == <<phase, pot, payer, payee, wallet>>

Init ==
    /\ phase = [s \in Slots |-> "empty"]
    /\ pot = [s \in Slots |-> 0]
    /\ payer = [s \in Slots |-> Nobody]
    /\ payee = [s \in Slots |-> Nobody]
    /\ wallet \in [Accounts -> Nat]

\* A payee appears for a set of slots that had none (a listing is created).
Appear(S, a) ==
    /\ \A s \in S : payee[s] = Nobody
    /\ payee' = [s \in Slots |-> IF s \in S THEN a ELSE payee[s]]
    /\ UNCHANGED <<phase, pot, payer, wallet>>

Open(s, a, v) ==
    /\ phase[s] = "empty"
    /\ wallet[a] >= v
    /\ phase' = [phase EXCEPT ![s] = "offered"]
    /\ pot' = [pot EXCEPT ![s] = v]
    /\ payer' = [payer EXCEPT ![s] = a]
    /\ wallet' = [wallet EXCEPT ![a] = @ - v]
    /\ UNCHANGED payee

Agree(s) ==
    /\ phase[s] = "offered"
    /\ payee[s] # Nobody
    /\ phase' = [phase EXCEPT ![s] = "agreed"]
    /\ UNCHANGED <<pot, payer, payee, wallet>>

Raise(s, v) ==
    /\ phase[s] = "agreed"
    /\ wallet[payer[s]] >= v
    /\ pot' = [pot EXCEPT ![s] = @ + v]
    /\ wallet' = [wallet EXCEPT ![payer[s]] = @ - v]
    /\ UNCHANGED <<phase, payer, payee>>

Contest(s) ==
    /\ phase[s] = "agreed"
    /\ phase' = [phase EXCEPT ![s] = "contested"]
    /\ UNCHANGED <<pot, payer, payee, wallet>>

\* The pot is emptied: "back" returns to the payer, the rest goes to the payee.
Settle(s, back) ==
    /\ \/ phase[s] = "offered" /\ back = pot[s]
       \/ phase[s] \in {"agreed", "contested"}
    /\ phase' = [phase EXCEPT ![s] = "settled"]
    /\ pot' = [pot EXCEPT ![s] = 0]
    /\ payer' = [payer EXCEPT ![s] = Nobody]
    /\ wallet' = [[wallet EXCEPT ![payer[s]] = @ + back]
                    EXCEPT ![payee[s]] = @ + (pot[s] - back)]
    /\ UNCHANGED payee

Next ==
    \/ \E S \in SUBSET Slots, a \in Accounts : Appear(S, a)
    \/ \E s \in Slots :
        \/ \E a \in Accounts : \E v \in 0 .. wallet[a] : Open(s, a, v)
        \/ Agree(s)
        \/ payer[s] \in Accounts /\ \E v \in 0 .. wallet[payer[s]] : Raise(s, v)
        \/ Contest(s)
        \/ \E back \in 0 .. pot[s] : Settle(s, back)

Spec == Init /\ [][Next]_vars
=============================================================================
