------------------------------ MODULE TokenChain ------------------------------
(***************************************************************************)
(* What the OAuth server promises about one consent: its authorization     *)
(* code buys one chain of refresh tokens, the chain has at most one token  *)
(* that works, each token works once, and a chain that ended stays ended.  *)
(***************************************************************************)
CONSTANTS Codes, Tokens, Unredeemed, Dead

VARIABLES
  current,  \* current[c]: the token of code c that works, if any
  issued    \* tokens ever issued

chainVars == <<current, issued>>

Init ==
  /\ current = [c \in Codes |-> Unredeemed]
  /\ issued = {}

Redeem(c, t) ==
  /\ current[c] = Unredeemed /\ t \notin issued
  /\ current' = [current EXCEPT ![c] = t]
  /\ issued' = issued \cup {t}

Rotate(c, t) ==
  /\ current[c] \in Tokens /\ t \notin issued
  /\ current' = [current EXCEPT ![c] = t]
  /\ issued' = issued \cup {t}

Close(c) ==
  /\ current[c] \in Tokens
  /\ current' = [current EXCEPT ![c] = Dead]
  /\ UNCHANGED issued

Next == \E c \in Codes : Close(c) \/ \E t \in Tokens : Redeem(c, t) \/ Rotate(c, t)

Spec == Init /\ [][Next]_chainVars
=============================================================================
