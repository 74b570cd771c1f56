------------------------------ MODULE Vouchers ------------------------------
(***************************************************************************)
(* What the shop promises about everything that may be used once: backup   *)
(* codes, the steps of an authenticator, reset links, passkey challenges.  *)
(*                                                                         *)
(* A request claims a thing that is live, and from then on it is live for  *)
(* nobody.  A claim may come to nothing, but then the thing is lost: what  *)
(* was given out once never becomes live again.  A claim is redeemed by    *)
(* the request that holds it, or in the step that makes it.  Modules       *)
(* SignIn and Passkeys are shown to implement this specification.          *)
(***************************************************************************)

CONSTANT Holders  \* requests that may claim something

VARIABLES
    issued,   \* things given out so far
    live,     \* those of them that can still be claimed
    held,     \* claims, as <<thing, holder>>, that led to nothing yet
    redeemed  \* claims that did

voucherVars == <<issued, live, held, redeemed>>

Init ==
    /\ live \subseteq issued
    /\ held = {}
    /\ redeemed = {}

(* Things are given out and expire, and holders give up. *)
Circulate ==
    /\ issued \subseteq issued'
    /\ live' \subseteq live \cup (issued' \ issued)
    /\ held' \subseteq held
    /\ UNCHANGED redeemed

(* Others may be withdrawn along with the thing that is claimed. *)
Withdraw(v) ==
    /\ v \in live
    /\ live' \subseteq live \ {v}
    /\ UNCHANGED issued

Claim(v, h) ==
    /\ Withdraw(v)
    /\ held' = held \cup {<<v, h>>}
    /\ UNCHANGED redeemed

Redeem(claim) ==
    /\ claim \in held
    /\ held' = held \ {claim}
    /\ redeemed' = redeemed \cup {claim}
    /\ UNCHANGED <<issued, live>>

RedeemAtOnce(v, h) ==
    /\ Withdraw(v)
    /\ redeemed' = redeemed \cup {<<v, h>>}
    /\ UNCHANGED held

Next ==
    \/ Circulate
    \/ \E v \in live, h \in Holders : Claim(v, h) \/ RedeemAtOnce(v, h)
    \/ \E claim \in held : Redeem(claim)

Spec == Init /\ [][Next]_voucherVars

(* Nothing is redeemed by two requests. *)
RedeemedOnce == \A c, d \in redeemed : c[1] = d[1] => c = d
=============================================================================
