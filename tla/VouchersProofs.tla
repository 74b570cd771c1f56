--------------------------- MODULE VouchersProofs ---------------------------
(***************************************************************************)
(* Proofs about module Vouchers.  What they say holds of every module that *)
(* implements it.                                                          *)
(***************************************************************************)
EXTENDS Vouchers, TLAPS

\* A thing is claimed once, and what is claimed was given out and is not live.
ClaimedOnce ==
    /\ live \subseteq issued
    /\ \A c \in held \cup redeemed : c[1] \in issued /\ c[1] \notin live
    /\ \A c, d \in held \cup redeemed : c[1] = d[1] => c = d

\* A new claim is the first one of its thing.
LEMMA ClaimStep ==
    ASSUME ClaimedOnce, NEW v \in live, NEW h, Withdraw(v),
           held' \cup redeemed' = held \cup redeemed \cup {<<v, h>>}
    PROVE  ClaimedOnce'
  <1>1. live' \subseteq issued' /\ v \in issued' /\ v \notin live'
    BY DEF ClaimedOnce, Withdraw
  <1>2. \A c \in held \cup redeemed : c[1] # v /\ c[1] \in issued' /\ c[1] \notin live'
    BY DEF ClaimedOnce, Withdraw
  <1>3. <<v, h>>[1] = v
    OBVIOUS
  <1> QED BY <1>1, <1>2, <1>3 DEF ClaimedOnce

\* Every step keeps a thing from being claimed again.
LEMMA ClaimedOnceStep == ClaimedOnce /\ [Next]_voucherVars => ClaimedOnce'
  <1> SUFFICES ASSUME ClaimedOnce, [Next]_voucherVars PROVE ClaimedOnce'
    OBVIOUS
  <1>1. CASE Circulate
    BY <1>1 DEF Circulate, ClaimedOnce
  <1>2. ASSUME NEW v \in live, NEW h \in Holders, Claim(v, h)
        PROVE  ClaimedOnce'
    BY <1>2, ClaimStep DEF Claim
  <1>3. ASSUME NEW v \in live, NEW h \in Holders, RedeemAtOnce(v, h)
        PROVE  ClaimedOnce'
    BY <1>3, ClaimStep DEF RedeemAtOnce
  <1>4. ASSUME NEW claim \in held, Redeem(claim)
        PROVE  ClaimedOnce'
    BY <1>4 DEF Redeem, ClaimedOnce
  <1>5. CASE UNCHANGED voucherVars
    BY <1>5 DEF voucherVars, ClaimedOnce
  <1> QED BY <1>1, <1>2, <1>3, <1>4, <1>5 DEF Next

\* Claims are unique, and what is claimed is out of circulation.
THEOREM Claims == Spec => []ClaimedOnce
  <1>1. Init => ClaimedOnce
    BY DEF Init, ClaimedOnce
  <1> QED BY <1>1, ClaimedOnceStep, PTL DEF Spec

\* Whatever may be used once is redeemed by one request at most.
THEOREM OneRedemption == Spec => []RedeemedOnce
  <1>1. ClaimedOnce => RedeemedOnce
    BY DEF ClaimedOnce, RedeemedOnce
  <1> QED BY <1>1, Claims, PTL
=============================================================================
