------------------------------ MODULE OAuthServer ------------------------------
(***************************************************************************)
(* The OAuth server as a whole: the consent of a transaction               *)
(* (OAuthConsent) and the token endpoint (OAuthTokens).  They share the    *)
(* authorization codes: a code is named after the visit that issued it, so *)
(* an instance takes Codes = Visits, and a client can only present a code  *)
(* that was issued.  Memberships and the standing of a user change         *)
(* independently here, which allows more than the database does.           *)
(***************************************************************************)
EXTENDS OAuthConsent, OAuthTokens

Issued == {v \in Visits : codes[v] # NoCode}

\* Codes are random: nobody presents one that was not issued.
OnlyIssued ==
  \A r \in Requests : req[r].presents \in Codes => req[r].presents \in Issued

ServerInit == ConsentInit /\ Init

ServerNext ==
  \/ ConsentNext /\ UNCHANGED vars
  \/ Next /\ UNCHANGED consentVars /\ OnlyIssued'

ServerSpec == ServerInit /\ [][ServerNext]_<<consentVars, vars>>
-----------------------------------------------------------------------------
(* Properties *)

\* One consent, one token: however many tabs decide a transaction and however
\* many clients exchange, rotate and revoke, it has one working refresh token.
OneTokenPerConsent ==
  \A t1, t2 \in Requests : Live(t1) /\ Live(t2) => t1 = t2

\* Every refresh token goes back to a visit that allowed the transaction, for
\* a workspace its user may be a member of, and to the user who began it.
TokensAreAllowed ==
  \A t \in Requests :
    Exists(t) =>
      LET v == CodeOf(t) IN
      /\ v \in Visits /\ visit[v].kind = "allow" /\ visit[v].answer = "ok"
      /\ codes[v].user = visit[v].user
      /\ <<codes[v].user, codes[v].workspace>> \in Members
      /\ txn.by # Null => codes[v].user = txn.by
=============================================================================
