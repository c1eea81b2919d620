-------------------------- MODULE PublicWriteProofs --------------------------
(***************************************************************************)
(* Proofs about PublicWrite, for any number of previews, handlers, users   *)
(* and grants.  SafetyInv is the inductive strengthening of the safety     *)
(* properties: it says who may be past the claim of a preview, and what    *)
(* the row looks like then.                                                *)
(***************************************************************************)
EXTENDS PublicWrite, TLAPS

\* Every existing row has content, and only an existing row is decided.
RowInv ==
  \A p \in Previews :
    /\ Exists(p) => plan[p] \in PlanOf
    /\ Confirmed(p) => approver[p] = Owner(p) /\ Exists(p)
    /\ (p \in cancelled) = (status[p] = "CANCELLED")
    /\ (p \in consumed) = (status[p] \in Prewrite \cup PostClaimStatus)
    /\ Confirmed(p) = (status[p] \in {"CONFIRMED"} \cup Prewrite \cup PostClaimStatus)

\* What a running handler knows of its preview.
CallInv ==
  \A c \in Calls :
    LET p == call[c].preview IN
    /\ ~ At(c, "idle") => p \in Previews /\ call[c].user \in Users /\ Exists(p)
    /\ call[c].pc \in PreClaim \cup PostClaim => Confirmed(p)
    /\ At(c, "mark") => call[c].choice \in Prewrite
    /\ At(c, "decide") => call[c].choice \in Decisions
    /\ At(c, "claim") => enabled
    /\ At(c, "finalize") => call[c].choice \in Outcomes
    /\ call[c].pc \in PostClaim => status[p] \in PostClaimStatus /\ p \notin told
    /\ call[c].pc \in {"attempt", "send"} => sent[p] = 0
    /\ call[c].pc \in PostClaim \ {"attempt"} => Was("attempted", p)

\* At most one handler is past the claim of a preview.
OneClaimant ==
  \A c, d \in Calls :
    /\ call[c].pc \in PostClaim
    /\ call[d].pc \in PostClaim
    /\ call[c].preview = call[d].preview
    => c = d

\* Where a mutation request may come from.
SentOK(p) ==
  /\ sent[p] <= 1
  /\ sent[p] > 0 => status[p] \in PostClaimStatus /\ Was("attempted", p)
  /\ status[p] \in PostClaimStatus => enabled
  /\ p \in inflight => sent[p] > 0
  /\ p \in told => status[p] = "VERIFIED"

SentInv == \A p \in Previews : SentOK(p)

SafetyInv == TypeOK /\ RowInv /\ CallInv /\ OneClaimant /\ SentInv
-----------------------------------------------------------------------------
(* Type correctness *)

\* Moving a commit handler on keeps the type of the handler table.
LEMMA CallMoves ==
  ASSUME TypeOK, NEW c \in Calls, call[c].pc \in PreClaim \cup PostClaim
  PROVE  /\ call[c] \in CommitOf
         /\ call[c].preview \in Previews
         /\ call[c].choice \in Statuses
         /\ \A step \in PreClaim \cup PostClaim : Goto(c, step) => CallsOK'
         /\ \A step \in PreClaim \cup PostClaim, v \in Statuses :
              Choose(c, step, v) => CallsOK'
         /\ Return(c) => CallsOK'
  <1>1. call[c] \in CommitOf
    BY DEF TypeOK, CallsOK, Idle, DecideOf, PreClaim, PostClaim
  <1>2. \A step \in PreClaim \cup PostClaim : [call[c] EXCEPT !.pc = step] \in CommitOf
    BY <1>1 DEF CommitOf
  <1>3. \A step \in PreClaim \cup PostClaim, v \in Statuses :
          [call[c] EXCEPT !.pc = step, !.choice = v] \in CommitOf
    BY <1>1 DEF CommitOf
  <1>4. CallsOK
    BY DEF TypeOK
  <1>5. ASSUME NEW step \in PreClaim \cup PostClaim, Goto(c, step)
        PROVE  CallsOK'
    <2>1. call' = [call EXCEPT ![c] = [call[c] EXCEPT !.pc = step]]
      BY <1>5 DEF Goto
    <2>2. QED
      BY <1>2, <1>4, <2>1 DEF CallsOK
  <1>6. ASSUME NEW step \in PreClaim \cup PostClaim, NEW v \in Statuses,
               Choose(c, step, v)
        PROVE  CallsOK'
    <2>1. call' = [call EXCEPT ![c] = [call[c] EXCEPT !.pc = step, !.choice = v]]
      BY <1>4, <1>6 DEF Choose, CallsOK
    <2>2. QED
      BY <1>3, <1>4, <2>1 DEF CallsOK
  <1>7. Return(c) => CallsOK'
    BY <1>4 DEF Return, CallsOK
  <1>8. call[c].preview \in Previews /\ call[c].choice \in Statuses
    BY <1>1 DEF CommitOf
  <1>9. QED
    BY <1>1, <1>5, <1>6, <1>7, <1>8

\* Every step keeps every variable in its type.
LEMMA TypeStep == TypeOK /\ [Next]_vars => TypeOK'
  <1> SUFFICES ASSUME TypeOK, [Next]_vars
               PROVE  TypeOK'
    OBVIOUS
  <1> USE PublicWriteAssumption
  <1>1. ASSUME NEW p \in Previews, NEW g \in Grants, NEW f \in Fields,
               NEW v \in Values, Create(p, g, f, v)
        PROVE  TypeOK'
    BY <1>1 DEF Create, TypeOK, CallsOK, PlanOf, Statuses, providerVars, writeVars
  <1>2. ASSUME NEW c \in Calls, NEW u \in Users, NEW p \in Previews,
               NEW d \in Decisions, DecideLoad(c, u, p, d)
        PROVE  TypeOK'
    BY <1>2 DEF DecideLoad, Begin, TypeOK, CallsOK, DecideOf, rowVars, providerVars, writeVars
  <1>3. ASSUME NEW c \in Calls, NEW g \in Grants, NEW p \in Previews,
               CommitFind(c, g, p)
        PROVE  TypeOK'
    BY <1>3 DEF CommitFind, Begin, TypeOK, CallsOK, CommitOf, PreClaim, Statuses,
                rowVars, providerVars, writeVars
  <1>4. ASSUME NEW c \in Calls, DecideStore(c)
        PROVE  TypeOK'
    <2>1. call[c] \in DecideOf
      BY <1>4 DEF DecideStore, At, TypeOK, CallsOK, CommitOf, PreClaim, PostClaim, Idle
    <2>2. call[c].preview \in Previews /\ call[c].user \in Users
      BY <2>1 DEF DecideOf
    <2>3. QED
      BY <1>4, <2>2 DEF DecideStore, Return, Recorded, RecordedOrLost, TypeOK, CallsOK,
                        Statuses, providerVars, writeVars
  <1>5. ASSUME NEW c \in Calls, CommitStep(c)
        PROVE  TypeOK'
    <2>1. call[c].pc \in PreClaim \cup PostClaim
      BY <1>5 DEF CommitStep, CommitAuthorize, CommitPreRead, MarkPrewrite, Claim,
                  AuditAttempt, Send, MutateSettles, ReadBack, Finalize, At,
                  PreClaim, PostClaim
    <2>2. call[c].preview \in Previews /\ call[c].choice \in Statuses
      BY <2>1, CallMoves
    <2>3. CASE CommitAuthorize(c)
      BY <2>1, <2>3, CallMoves DEF CommitAuthorize, TypeOK, PreClaim,
                rowVars, providerVars, writeVars
    <2>4. CASE CommitPreRead(c)
      BY <2>1, <2>4, CallMoves DEF CommitPreRead, TypeOK, PreClaim, Statuses, Prewrite,
                rowVars, providerVars, writeVars
    <2>5. CASE MarkPrewrite(c)
      BY <2>1, <2>2, <2>5, CallMoves DEF MarkPrewrite, Recorded, RecordedOrLost,
                TypeOK, providerVars, writeVars
    <2>6. CASE Claim(c)
      BY <2>1, <2>2, <2>6, CallMoves DEF Claim, TypeOK, PostClaim, Statuses, PostClaimStatus,
                providerVars, writeVars
    <2>7. CASE AuditAttempt(c)
      BY <2>1, <2>2, <2>7, CallMoves DEF AuditAttempt, Recorded, TypeOK, PostClaim,
                rowVars, providerVars, writeVars
    <2>8. CASE Send(c)
      BY <2>1, <2>2, <2>8, CallMoves DEF Send, TypeOK, PostClaim, rowVars, providerVars
    <2>9. CASE MutateSettles(c)
      BY <2>1, <2>9, CallMoves DEF MutateSettles, TypeOK, PostClaim,
                rowVars, providerVars, writeVars
    <2>10. CASE ReadBack(c)
      BY <2>1, <2>10, CallMoves DEF ReadBack, TypeOK, PostClaim, Statuses, PostClaimStatus,
                Outcomes, rowVars, providerVars, writeVars
    <2>11. CASE Finalize(c)
      <3>1. CallsOK'
        BY <2>1, <2>11, CallMoves DEF Finalize, PostClaim, Statuses, PostClaimStatus, Outcomes
      <3>2. status' \in [Previews -> Statuses] /\ told' \subseteq Previews
        BY <2>2, <2>11 DEF Finalize, TypeOK
      <3>3. QED
        BY <2>2, <2>11, <3>1, <3>2 DEF Finalize, Recorded, TypeOK, providerVars, writeVars
    <2>12. QED
      BY <1>5, <2>3, <2>4, <2>5, <2>6, <2>7, <2>8, <2>9, <2>10, <2>11 DEF CommitStep
  <1>6. ASSUME NEW c \in Calls, Die(c)
        PROVE  TypeOK'
    BY <1>6 DEF Die, Return, TypeOK, CallsOK, rowVars, providerVars, writeVars
  <1>7. ASSUME NEW p \in Previews, Expire(p) \/ ProviderApplies(p) \/ ProviderDrops(p)
        PROVE  TypeOK'
    <2>1. CASE Expire(p)
      BY <2>1 DEF Expire, TypeOK, CallsOK, providerVars, writeVars
    <2>2. CASE ProviderApplies(p)
      <3>1. campaign' \in [Fields -> Values]
        <4>1. plan[p] \in PlanOf \/ plan[p].field \notin Fields
          BY DEF TypeOK, NoPlan
        <4>2. QED
          BY <2>2, <4>1 DEF ProviderApplies, TypeOK, PlanOf
      <3>2. QED
        BY <2>2, <3>1 DEF ProviderApplies, TypeOK, CallsOK, rowVars
    <2>3. CASE ProviderDrops(p)
      BY <2>3 DEF ProviderDrops, TypeOK, CallsOK, rowVars, providerVars
    <2>4. QED
      BY <1>7, <2>1, <2>2, <2>3
  <1>8. ASSUME NEW g \in Grants, Revoke(g)
        PROVE  TypeOK'
    BY <1>8 DEF Revoke, TypeOK, CallsOK, rowVars, writeVars
  <1>9. ASSUME NEW f \in Fields, NEW v \in Values, ExternalEdit(f, v)
        PROVE  TypeOK'
    BY <1>9 DEF ExternalEdit, TypeOK, CallsOK, rowVars, writeVars
  <1>10. CASE AccountChanges
    BY <1>10 DEF AccountChanges, TypeOK, CallsOK, rowVars, writeVars
  <1>11. CASE UNCHANGED vars
    BY <1>11 DEF TypeOK, CallsOK, vars, rowVars, providerVars, writeVars
  <1>12. QED
    BY <1>1, <1>2, <1>3, <1>4, <1>5, <1>6, <1>7, <1>8, <1>9, <1>10, <1>11 DEF Next

\* Every variable of the public write flow keeps its type.
THEOREM TypeCorrect == Spec => []TypeOK
  <1>1. Init => TypeOK
    BY PublicWriteAssumption DEF Init, TypeOK, CallsOK, Statuses
  <1>2. QED
    BY <1>1, TypeStep, PTL DEF Spec
-----------------------------------------------------------------------------
(* The safety invariant *)

\* The updates of the handler table, read field by field.
LEMMA CallEffects ==
  ASSUME TypeOK, NEW c \in Calls
  PROVE  /\ \A step : Goto(c, step) /\ ~ At(c, "idle") =>
              /\ call'[c].pc = step
              /\ call'[c].preview = call[c].preview
              /\ call'[c].user = call[c].user
              /\ call'[c].choice = call[c].choice
              /\ \A d \in Calls \ {c} : call'[d] = call[d]
         /\ \A step, v : Choose(c, step, v) /\ ~ At(c, "idle") =>
              /\ call'[c].pc = step
              /\ call'[c].preview = call[c].preview
              /\ call'[c].user = call[c].user
              /\ call'[c].choice = v
              /\ \A d \in Calls \ {c} : call'[d] = call[d]
         /\ Return(c) =>
              /\ call'[c].pc = "idle"
              /\ \A d \in Calls \ {c} : call'[d] = call[d]
         /\ \A step, p, u, v : Begin(c, step, p, u, v) =>
              /\ call'[c].pc = step
              /\ call'[c].preview = p
              /\ call'[c].user = u
              /\ call'[c].choice = v
              /\ \A d \in Calls \ {c} : call'[d] = call[d]
  <1>1. call[c] \in DecideOf \cup CommitOf \cup {Idle}
    BY DEF TypeOK, CallsOK
  <1>2. QED
    BY <1>1 DEF TypeOK, CallsOK, Goto, Choose, Return, Begin, At, DecideOf, CommitOf, Idle

\* Every step keeps the safety invariant.
LEMMA SafetyStep == SafetyInv /\ [Next]_vars => SafetyInv'
  <1> SUFFICES ASSUME SafetyInv, [Next]_vars
               PROVE  (RowInv /\ CallInv /\ OneClaimant /\ SentInv)'
    BY TypeStep DEF SafetyInv
  <1> USE PublicWriteAssumption
  <1>0. TypeOK /\ RowInv /\ CallInv /\ OneClaimant /\ SentInv
    BY DEF SafetyInv
  <1> DEFINE Goal == (RowInv /\ CallInv /\ OneClaimant /\ SentInv)'
  <1>1. ASSUME NEW p \in Previews, NEW g \in Grants, NEW f \in Fields,
               NEW v \in Values, Create(p, g, f, v)
        PROVE  Goal
    <2>1. RowInv'
      BY <1>0, <1>1 DEF Create, PlanOf, RowInv, TypeOK, rowVars, providerVars, writeVars,
          Exists, Confirmed, Owner, Was, At, PreClaim, PostClaim, Prewrite, PostClaimStatus, Outcomes, Decisions
    <2>2. CallInv'
      BY <1>0, <1>1, CallEffects DEF Create, PlanOf, RowInv, CallInv, TypeOK, rowVars, providerVars, writeVars,
          Exists, Confirmed, Owner, Was, At, PreClaim, PostClaim, Prewrite, PostClaimStatus, Outcomes, Decisions
    <2>3. OneClaimant'
      BY <1>0, <1>1, CallEffects DEF Create, PlanOf, CallInv, OneClaimant, rowVars, providerVars, writeVars,
          Exists, Confirmed, Owner, Was, At, PreClaim, PostClaim, Prewrite, PostClaimStatus, Outcomes, Decisions
    <2>4. SentInv'
      BY <1>0, <1>1 DEF Create, PlanOf, TypeOK, RowInv, SentInv, SentOK, rowVars, providerVars, writeVars,
          Exists, Confirmed, Owner, Was, At, PreClaim, PostClaim, Prewrite, PostClaimStatus, Outcomes, Decisions
    <2>5. QED
      BY <2>1, <2>2, <2>3, <2>4
  <1>2. ASSUME NEW c \in Calls, NEW u \in Users, NEW p \in Previews,
               NEW d \in Decisions, DecideLoad(c, u, p, d)
        PROVE  Goal
    <2>1. RowInv'
      BY <1>0, <1>2 DEF DecideLoad, RowInv, TypeOK, rowVars, providerVars, writeVars,
          Exists, Confirmed, Owner, Was, At, PreClaim, PostClaim, Prewrite, PostClaimStatus, Outcomes, Decisions
    <2>2. CallInv'
      BY <1>0, <1>2, CallEffects DEF DecideLoad, RowInv, CallInv, TypeOK, rowVars, providerVars, writeVars,
          Exists, Confirmed, Owner, Was, At, PreClaim, PostClaim, Prewrite, PostClaimStatus, Outcomes, Decisions
    <2>3. OneClaimant'
      BY <1>0, <1>2, CallEffects DEF DecideLoad, CallInv, OneClaimant, rowVars, providerVars, writeVars,
          Exists, Confirmed, Owner, Was, At, PreClaim, PostClaim, Prewrite, PostClaimStatus, Outcomes, Decisions
    <2>4. SentInv'
      BY <1>0, <1>2 DEF DecideLoad, SentInv, SentOK, rowVars, providerVars, writeVars,
          Exists, Confirmed, Owner, Was, At, PreClaim, PostClaim, Prewrite, PostClaimStatus, Outcomes, Decisions
    <2>5. QED
      BY <2>1, <2>2, <2>3, <2>4
  <1>3. ASSUME NEW c \in Calls, NEW g \in Grants, NEW p \in Previews,
               CommitFind(c, g, p)
        PROVE  Goal
    <2>1. RowInv'
      BY <1>0, <1>3 DEF CommitFind, RowInv, TypeOK, rowVars, providerVars, writeVars,
          Exists, Confirmed, Owner, Was, At, PreClaim, PostClaim, Prewrite, PostClaimStatus, Outcomes, Decisions
    <2>2. CallInv'
      BY <1>0, <1>3, CallEffects DEF CommitFind, RowInv, CallInv, TypeOK, rowVars, providerVars, writeVars,
          Exists, Confirmed, Owner, Was, At, PreClaim, PostClaim, Prewrite, PostClaimStatus, Outcomes, Decisions
    <2>3. OneClaimant'
      BY <1>0, <1>3, CallEffects DEF CommitFind, CallInv, OneClaimant, rowVars, providerVars, writeVars,
          Exists, Confirmed, Owner, Was, At, PreClaim, PostClaim, Prewrite, PostClaimStatus, Outcomes, Decisions
    <2>4. SentInv'
      BY <1>0, <1>3 DEF CommitFind, SentInv, SentOK, rowVars, providerVars, writeVars,
          Exists, Confirmed, Owner, Was, At, PreClaim, PostClaim, Prewrite, PostClaimStatus, Outcomes, Decisions
    <2>5. QED
      BY <2>1, <2>2, <2>3, <2>4
  <1>4. ASSUME NEW c \in Calls, DecideStore(c)
        PROVE  Goal
    <2>0. /\ ~ At(c, "idle")
          /\ call[c].preview \in Previews
          /\ Exists(call[c].preview)
          /\ call[c].choice \in Decisions /\ call[c].user \in Users
      BY <1>0, <1>4 DEF DecideStore, CallInv, At, PreClaim, PostClaim
    <2>1. RowInv'
      BY <1>0, <1>4, <2>0 DEF DecideStore, Undecided, Usable, Recorded, RecordedOrLost, RowInv, TypeOK, rowVars, providerVars, writeVars,
          Exists, Confirmed, Owner, Was, At, PreClaim, PostClaim, Prewrite, PostClaimStatus, Outcomes, Decisions
    <2>2. CallInv'
      BY <1>0, <1>4, <2>0, CallEffects DEF DecideStore, Undecided, Usable, Recorded, RecordedOrLost, RowInv, CallInv, OneClaimant, SentInv, SentOK, TypeOK, rowVars, providerVars, writeVars,
          Exists, Confirmed, Owner, Was, At, PreClaim, PostClaim, Prewrite, PostClaimStatus, Outcomes, Decisions
    <2>3. OneClaimant'
      BY <1>0, <1>4, <2>0, CallEffects DEF DecideStore, Undecided, Usable, Recorded, RecordedOrLost, CallInv, OneClaimant, rowVars, providerVars, writeVars,
          Exists, Confirmed, Owner, Was, At, PreClaim, PostClaim, Prewrite, PostClaimStatus, Outcomes, Decisions
    <2>4. SentInv'
      <3> SUFFICES ASSUME NEW q \in Previews
                   PROVE  SentOK(q)'
        BY DEF SentInv
      <3>1. SentOK(q) /\ sent[q] \in Nat
        BY <1>0 DEF SentInv, TypeOK
      <3>2. CASE q # call[c].preview
        BY <1>0, <1>4, <2>0, <3>1, <3>2 DEF DecideStore, SentOK, TypeOK, Was, Recorded, RecordedOrLost,
            writeVars, providerVars
      <3>3. CASE q = call[c].preview
        BY <1>0, <1>4, <2>0, <3>1, <3>3 DEF DecideStore, SentOK, TypeOK, RowInv, Was, Exists, Confirmed,
            Recorded, RecordedOrLost, writeVars, providerVars, Prewrite, PostClaimStatus, Outcomes, Undecided, Usable
      <3>4. QED
        BY <3>2, <3>3
    <2>5. QED
      BY <2>1, <2>2, <2>3, <2>4
  <1>5. ASSUME NEW c \in Calls, CommitAuthorize(c)
        PROVE  Goal
    <2>1. RowInv'
      BY <1>0, <1>5 DEF CommitAuthorize, RowInv, TypeOK, rowVars, providerVars, writeVars,
          Exists, Confirmed, Owner, Was, At, PreClaim, PostClaim, Prewrite, PostClaimStatus, Outcomes, Decisions
    <2>2. CallInv'
      BY <1>0, <1>5, CallEffects DEF CommitAuthorize, RowInv, CallInv, TypeOK, rowVars, providerVars, writeVars,
          Exists, Confirmed, Owner, Was, At, PreClaim, PostClaim, Prewrite, PostClaimStatus, Outcomes, Decisions
    <2>3. OneClaimant'
      BY <1>0, <1>5, CallEffects DEF CommitAuthorize, CallInv, OneClaimant, rowVars, providerVars, writeVars,
          Exists, Confirmed, Owner, Was, At, PreClaim, PostClaim, Prewrite, PostClaimStatus, Outcomes, Decisions
    <2>4. SentInv'
      BY <1>0, <1>5 DEF CommitAuthorize, SentInv, SentOK, rowVars, providerVars, writeVars,
          Exists, Confirmed, Owner, Was, At, PreClaim, PostClaim, Prewrite, PostClaimStatus, Outcomes, Decisions
    <2>5. QED
      BY <2>1, <2>2, <2>3, <2>4
  <1>6. ASSUME NEW c \in Calls, CommitPreRead(c)
        PROVE  Goal
    <2>1. RowInv'
      BY <1>0, <1>6 DEF CommitPreRead, RowInv, TypeOK, rowVars, providerVars, writeVars,
          Exists, Confirmed, Owner, Was, At, PreClaim, PostClaim, Prewrite, PostClaimStatus, Outcomes, Decisions
    <2>2. CallInv'
      BY <1>0, <1>6, CallEffects DEF CommitPreRead, RowInv, CallInv, TypeOK, rowVars, providerVars, writeVars,
          Exists, Confirmed, Owner, Was, At, PreClaim, PostClaim, Prewrite, PostClaimStatus, Outcomes, Decisions
    <2>3. OneClaimant'
      BY <1>0, <1>6, CallEffects DEF CommitPreRead, CallInv, OneClaimant, rowVars, providerVars, writeVars,
          Exists, Confirmed, Owner, Was, At, PreClaim, PostClaim, Prewrite, PostClaimStatus, Outcomes, Decisions
    <2>4. SentInv'
      BY <1>0, <1>6 DEF CommitPreRead, SentInv, SentOK, rowVars, providerVars, writeVars,
          Exists, Confirmed, Owner, Was, At, PreClaim, PostClaim, Prewrite, PostClaimStatus, Outcomes, Decisions
    <2>5. QED
      BY <2>1, <2>2, <2>3, <2>4
  <1>7. ASSUME NEW c \in Calls, MarkPrewrite(c)
        PROVE  Goal
    <2>0. /\ ~ At(c, "idle")
          /\ call[c].preview \in Previews
          /\ Exists(call[c].preview)
          /\ Confirmed(call[c].preview) /\ call[c].choice \in Prewrite
      BY <1>0, <1>7 DEF MarkPrewrite, CallInv, At, PreClaim, PostClaim
    <2>1. RowInv'
      BY <1>0, <1>7, <2>0 DEF MarkPrewrite, Unspent, Recorded, RecordedOrLost, RowInv, TypeOK, rowVars, providerVars, writeVars,
          Exists, Confirmed, Owner, Was, At, PreClaim, PostClaim, Prewrite, PostClaimStatus, Outcomes, Decisions
    <2>2. CallInv'
      BY <1>0, <1>7, <2>0, CallEffects DEF MarkPrewrite, Unspent, Recorded, RecordedOrLost, RowInv, CallInv, OneClaimant, SentInv, SentOK, TypeOK, rowVars, providerVars, writeVars,
          Exists, Confirmed, Owner, Was, At, PreClaim, PostClaim, Prewrite, PostClaimStatus, Outcomes, Decisions
    <2>3. OneClaimant'
      BY <1>0, <1>7, <2>0, CallEffects DEF MarkPrewrite, Unspent, Recorded, RecordedOrLost, CallInv, OneClaimant, rowVars, providerVars, writeVars,
          Exists, Confirmed, Owner, Was, At, PreClaim, PostClaim, Prewrite, PostClaimStatus, Outcomes, Decisions
    <2>4. SentInv'
      <3> SUFFICES ASSUME NEW q \in Previews
                   PROVE  SentOK(q)'
        BY DEF SentInv
      <3>1. SentOK(q) /\ sent[q] \in Nat
        BY <1>0 DEF SentInv, TypeOK
      <3>2. CASE q # call[c].preview
        BY <1>0, <1>7, <2>0, <3>1, <3>2 DEF MarkPrewrite, SentOK, TypeOK, Was, Recorded, RecordedOrLost,
            writeVars, providerVars
      <3>3. CASE q = call[c].preview
        BY <1>0, <1>7, <2>0, <3>1, <3>3 DEF MarkPrewrite, SentOK, TypeOK, RowInv, Was, Exists, Confirmed,
            Recorded, RecordedOrLost, writeVars, providerVars, Prewrite, PostClaimStatus, Outcomes, Unspent
      <3>4. QED
        BY <3>2, <3>3
    <2>5. QED
      BY <2>1, <2>2, <2>3, <2>4
  <1>8. ASSUME NEW c \in Calls, Claim(c)
        PROVE  Goal
    <2>0. /\ ~ At(c, "idle")
          /\ call[c].preview \in Previews
          /\ Exists(call[c].preview)
          /\ Confirmed(call[c].preview)
      BY <1>0, <1>8 DEF Claim, CallInv, At, PreClaim, PostClaim
    <2>1. RowInv'
      BY <1>0, <1>8, <2>0 DEF Claim, Claimable, Usable, RowInv, TypeOK, rowVars, providerVars, writeVars,
          Exists, Confirmed, Owner, Was, At, PreClaim, PostClaim, Prewrite, PostClaimStatus, Outcomes, Decisions
    <2>2. CallInv'
      BY <1>0, <1>8, <2>0, CallEffects DEF Claim, Claimable, Usable, RowInv, CallInv, OneClaimant, SentInv, SentOK, TypeOK, rowVars, providerVars, writeVars,
          Exists, Confirmed, Owner, Was, At, PreClaim, PostClaim, Prewrite, PostClaimStatus, Outcomes, Decisions
    <2>3. OneClaimant'
      <3>1. CASE Claimable(call[c].preview, call[c].user)
        <4>1. \A d \in Calls : call[d].pc \in PostClaim => call[d].preview # call[c].preview
          BY <1>0, <2>0, <3>1 DEF Claimable, Usable, RowInv, CallInv
        <4>2. QED
          BY <1>0, <1>8, <2>0, <3>1, <4>1, CallEffects DEF Claim, OneClaimant, PostClaim
      <3>2. CASE ~ Claimable(call[c].preview, call[c].user)
        BY <1>0, <1>8, <2>0, <3>2, CallEffects DEF Claim, OneClaimant, PostClaim
      <3>3. QED
        BY <3>1, <3>2
    <2>4. SentInv'
      <3> SUFFICES ASSUME NEW q \in Previews
                   PROVE  SentOK(q)'
        BY DEF SentInv
      <3>1. SentOK(q) /\ sent[q] \in Nat
        BY <1>0 DEF SentInv, TypeOK
      <3>2. CASE q # call[c].preview
        BY <1>0, <1>8, <2>0, <3>1, <3>2 DEF Claim, SentOK, TypeOK, Was, Recorded, RecordedOrLost,
            writeVars, providerVars
      <3>3. CASE q = call[c].preview
        BY <1>0, <1>8, <2>0, <3>1, <3>3 DEF Claim, SentOK, TypeOK, RowInv, CallInv, At, PreClaim, Was, Exists, Confirmed,
            Recorded, RecordedOrLost, writeVars, providerVars, Prewrite, PostClaimStatus, Outcomes, Claimable, Usable
      <3>4. QED
        BY <3>2, <3>3
    <2>5. QED
      BY <2>1, <2>2, <2>3, <2>4
  <1>9. ASSUME NEW c \in Calls, AuditAttempt(c)
        PROVE  Goal
    <2>1. RowInv'
      BY <1>0, <1>9 DEF AuditAttempt, Recorded, RowInv, TypeOK, rowVars, providerVars, writeVars,
          Exists, Confirmed, Owner, Was, At, PreClaim, PostClaim, Prewrite, PostClaimStatus, Outcomes, Decisions
    <2>2. CallInv'
      BY <1>0, <1>9, CallEffects DEF AuditAttempt, Recorded, RowInv, CallInv, TypeOK, rowVars, providerVars, writeVars,
          Exists, Confirmed, Owner, Was, At, PreClaim, PostClaim, Prewrite, PostClaimStatus, Outcomes, Decisions
    <2>3. OneClaimant'
      BY <1>0, <1>9, CallEffects DEF AuditAttempt, Recorded, CallInv, OneClaimant, rowVars, providerVars, writeVars,
          Exists, Confirmed, Owner, Was, At, PreClaim, PostClaim, Prewrite, PostClaimStatus, Outcomes, Decisions
    <2>4. SentInv'
      BY <1>0, <1>9 DEF AuditAttempt, Recorded, SentInv, SentOK, rowVars, providerVars, writeVars,
          Exists, Confirmed, Owner, Was, At, PreClaim, PostClaim, Prewrite, PostClaimStatus, Outcomes, Decisions
    <2>5. QED
      BY <2>1, <2>2, <2>3, <2>4
  <1>10. ASSUME NEW c \in Calls, Send(c)
        PROVE  Goal
    <2>0. /\ ~ At(c, "idle")
          /\ call[c].preview \in Previews
          /\ Exists(call[c].preview)
          /\ Confirmed(call[c].preview) /\ sent[call[c].preview] = 0
          /\ status[call[c].preview] \in PostClaimStatus
          /\ Was("attempted", call[c].preview)
      BY <1>0, <1>10 DEF Send, CallInv, At, PreClaim, PostClaim
    <2>1. RowInv'
      BY <1>0, <1>10, <2>0 DEF Send, RowInv, TypeOK, rowVars, providerVars, writeVars,
          Exists, Confirmed, Owner, Was, At, PreClaim, PostClaim, Prewrite, PostClaimStatus, Outcomes, Decisions
    <2>2. CallInv'
      BY <1>0, <1>10, <2>0, CallEffects DEF Send, RowInv, CallInv, OneClaimant, SentInv, SentOK, TypeOK, rowVars, providerVars, writeVars,
          Exists, Confirmed, Owner, Was, At, PreClaim, PostClaim, Prewrite, PostClaimStatus, Outcomes, Decisions
    <2>3. OneClaimant'
      BY <1>0, <1>10, <2>0, CallEffects DEF Send, TypeOK, RowInv, CallInv, OneClaimant, rowVars, providerVars, writeVars,
          Exists, Confirmed, Owner, Was, At, PreClaim, PostClaim, Prewrite, PostClaimStatus, Outcomes, Decisions
    <2>4. SentInv'
      <3> SUFFICES ASSUME NEW q \in Previews
                   PROVE  SentOK(q)'
        BY DEF SentInv
      <3>1. SentOK(q) /\ sent[q] \in Nat
        BY <1>0 DEF SentInv, TypeOK
      <3>2. CASE q # call[c].preview
        BY <1>0, <1>10, <2>0, <3>1, <3>2 DEF Send, SentOK, TypeOK, Was, Recorded, RecordedOrLost,
            writeVars, providerVars, rowVars
      <3>3. CASE q = call[c].preview
        BY <1>0, <1>10, <2>0, <3>1, <3>3 DEF Send, SentOK, TypeOK, RowInv, Was, Exists, Confirmed,
            Recorded, RecordedOrLost, writeVars, providerVars, Prewrite, PostClaimStatus, Outcomes, rowVars
      <3>4. QED
        BY <3>2, <3>3
    <2>5. QED
      BY <2>1, <2>2, <2>3, <2>4
  <1>11. ASSUME NEW c \in Calls, MutateSettles(c)
        PROVE  Goal
    <2>1. RowInv'
      BY <1>0, <1>11 DEF MutateSettles, RowInv, TypeOK, rowVars, providerVars, writeVars,
          Exists, Confirmed, Owner, Was, At, PreClaim, PostClaim, Prewrite, PostClaimStatus, Outcomes, Decisions
    <2>2. CallInv'
      BY <1>0, <1>11, CallEffects DEF MutateSettles, RowInv, CallInv, TypeOK, rowVars, providerVars, writeVars,
          Exists, Confirmed, Owner, Was, At, PreClaim, PostClaim, Prewrite, PostClaimStatus, Outcomes, Decisions
    <2>3. OneClaimant'
      BY <1>0, <1>11, CallEffects DEF MutateSettles, CallInv, OneClaimant, rowVars, providerVars, writeVars,
          Exists, Confirmed, Owner, Was, At, PreClaim, PostClaim, Prewrite, PostClaimStatus, Outcomes, Decisions
    <2>4. SentInv'
      BY <1>0, <1>11 DEF MutateSettles, SentInv, SentOK, rowVars, providerVars, writeVars,
          Exists, Confirmed, Owner, Was, At, PreClaim, PostClaim, Prewrite, PostClaimStatus, Outcomes, Decisions
    <2>5. QED
      BY <2>1, <2>2, <2>3, <2>4
  <1>12. ASSUME NEW c \in Calls, ReadBack(c)
        PROVE  Goal
    <2>1. RowInv'
      BY <1>0, <1>12 DEF ReadBack, RowInv, TypeOK, rowVars, providerVars, writeVars,
          Exists, Confirmed, Owner, Was, At, PreClaim, PostClaim, Prewrite, PostClaimStatus, Outcomes, Decisions
    <2>2. CallInv'
      BY <1>0, <1>12, CallEffects DEF ReadBack, RowInv, CallInv, TypeOK, rowVars, providerVars, writeVars,
          Exists, Confirmed, Owner, Was, At, PreClaim, PostClaim, Prewrite, PostClaimStatus, Outcomes, Decisions
    <2>3. OneClaimant'
      BY <1>0, <1>12, CallEffects DEF ReadBack, CallInv, OneClaimant, rowVars, providerVars, writeVars,
          Exists, Confirmed, Owner, Was, At, PreClaim, PostClaim, Prewrite, PostClaimStatus, Outcomes, Decisions
    <2>4. SentInv'
      BY <1>0, <1>12 DEF ReadBack, SentInv, SentOK, rowVars, providerVars, writeVars,
          Exists, Confirmed, Owner, Was, At, PreClaim, PostClaim, Prewrite, PostClaimStatus, Outcomes, Decisions
    <2>5. QED
      BY <2>1, <2>2, <2>3, <2>4
  <1>13. ASSUME NEW c \in Calls, Finalize(c)
        PROVE  Goal
    <2>0. /\ ~ At(c, "idle")
          /\ call[c].preview \in Previews
          /\ Exists(call[c].preview)
          /\ call[c].choice \in Outcomes
          /\ status[call[c].preview] \in PostClaimStatus
          /\ call[c].preview \notin told
      BY <1>0, <1>13 DEF Finalize, CallInv, At, PreClaim, PostClaim
    <2>1. RowInv'
      BY <1>0, <1>13, <2>0 DEF Finalize, Recorded, RowInv, TypeOK, rowVars, providerVars, writeVars,
          Exists, Confirmed, Owner, Was, At, PreClaim, PostClaim, Prewrite, PostClaimStatus, Outcomes, Decisions
    <2>2. CallInv'
      BY <1>0, <1>13, <2>0, CallEffects DEF Finalize, Recorded, RowInv, CallInv, OneClaimant, SentInv, SentOK, TypeOK, rowVars, providerVars, writeVars,
          Exists, Confirmed, Owner, Was, At, PreClaim, PostClaim, Prewrite, PostClaimStatus, Outcomes, Decisions
    <2>3. OneClaimant'
      BY <1>0, <1>13, <2>0, CallEffects DEF Finalize, Recorded, TypeOK, RowInv, CallInv, OneClaimant, rowVars, providerVars, writeVars,
          Exists, Confirmed, Owner, Was, At, PreClaim, PostClaim, Prewrite, PostClaimStatus, Outcomes, Decisions
    <2>4. SentInv'
      <3> SUFFICES ASSUME NEW q \in Previews
                   PROVE  SentOK(q)'
        BY DEF SentInv
      <3>1. SentOK(q) /\ sent[q] \in Nat
        BY <1>0 DEF SentInv, TypeOK
      <3>2. CASE q # call[c].preview
        BY <1>0, <1>13, <2>0, <3>1, <3>2 DEF Finalize, SentOK, TypeOK, Was, Recorded, RecordedOrLost,
            writeVars, providerVars
      <3>3. CASE q = call[c].preview
        BY <1>0, <1>13, <2>0, <3>1, <3>3 DEF Finalize, SentOK, TypeOK, RowInv, Was, Exists, Confirmed,
            Recorded, RecordedOrLost, writeVars, providerVars, Prewrite, PostClaimStatus, Outcomes
      <3>4. QED
        BY <3>2, <3>3
    <2>5. QED
      BY <2>1, <2>2, <2>3, <2>4
  <1>14. ASSUME NEW c \in Calls, Die(c)
        PROVE  Goal
    <2>1. RowInv'
      BY <1>0, <1>14 DEF Die, RowInv, TypeOK, rowVars, providerVars, writeVars,
          Exists, Confirmed, Owner, Was, At, PreClaim, PostClaim, Prewrite, PostClaimStatus, Outcomes, Decisions
    <2>2. CallInv'
      BY <1>0, <1>14, CallEffects DEF Die, RowInv, CallInv, TypeOK, rowVars, providerVars, writeVars,
          Exists, Confirmed, Owner, Was, At, PreClaim, PostClaim, Prewrite, PostClaimStatus, Outcomes, Decisions
    <2>3. OneClaimant'
      BY <1>0, <1>14, CallEffects DEF Die, CallInv, OneClaimant, rowVars, providerVars, writeVars,
          Exists, Confirmed, Owner, Was, At, PreClaim, PostClaim, Prewrite, PostClaimStatus, Outcomes, Decisions
    <2>4. SentInv'
      BY <1>0, <1>14 DEF Die, SentInv, SentOK, rowVars, providerVars, writeVars,
          Exists, Confirmed, Owner, Was, At, PreClaim, PostClaim, Prewrite, PostClaimStatus, Outcomes, Decisions
    <2>5. QED
      BY <2>1, <2>2, <2>3, <2>4
  <1>15. ASSUME NEW p \in Previews, Expire(p)
        PROVE  Goal
    <2>1. RowInv'
      BY <1>0, <1>15 DEF Expire, RowInv, TypeOK, rowVars, providerVars, writeVars,
          Exists, Confirmed, Owner, Was, At, PreClaim, PostClaim, Prewrite, PostClaimStatus, Outcomes, Decisions
    <2>2. CallInv'
      BY <1>0, <1>15, CallEffects DEF Expire, RowInv, CallInv, TypeOK, rowVars, providerVars, writeVars,
          Exists, Confirmed, Owner, Was, At, PreClaim, PostClaim, Prewrite, PostClaimStatus, Outcomes, Decisions
    <2>3. OneClaimant'
      BY <1>0, <1>15, CallEffects DEF Expire, CallInv, OneClaimant, rowVars, providerVars, writeVars,
          Exists, Confirmed, Owner, Was, At, PreClaim, PostClaim, Prewrite, PostClaimStatus, Outcomes, Decisions
    <2>4. SentInv'
      BY <1>0, <1>15 DEF Expire, SentInv, SentOK, rowVars, providerVars, writeVars,
          Exists, Confirmed, Owner, Was, At, PreClaim, PostClaim, Prewrite, PostClaimStatus, Outcomes, Decisions
    <2>5. QED
      BY <2>1, <2>2, <2>3, <2>4
  <1>16. ASSUME NEW p \in Previews, ProviderApplies(p)
        PROVE  Goal
    <2>1. RowInv'
      BY <1>0, <1>16 DEF ProviderApplies, RowInv, TypeOK, rowVars, providerVars, writeVars,
          Exists, Confirmed, Owner, Was, At, PreClaim, PostClaim, Prewrite, PostClaimStatus, Outcomes, Decisions
    <2>2. CallInv'
      BY <1>0, <1>16, CallEffects DEF ProviderApplies, RowInv, CallInv, TypeOK, rowVars, providerVars, writeVars,
          Exists, Confirmed, Owner, Was, At, PreClaim, PostClaim, Prewrite, PostClaimStatus, Outcomes, Decisions
    <2>3. OneClaimant'
      BY <1>0, <1>16, CallEffects DEF ProviderApplies, CallInv, OneClaimant, rowVars, providerVars, writeVars,
          Exists, Confirmed, Owner, Was, At, PreClaim, PostClaim, Prewrite, PostClaimStatus, Outcomes, Decisions
    <2>4. SentInv'
      BY <1>0, <1>16 DEF ProviderApplies, SentInv, SentOK, rowVars, providerVars, writeVars,
          Exists, Confirmed, Owner, Was, At, PreClaim, PostClaim, Prewrite, PostClaimStatus, Outcomes, Decisions
    <2>5. QED
      BY <2>1, <2>2, <2>3, <2>4
  <1>17. ASSUME NEW p \in Previews, ProviderDrops(p)
        PROVE  Goal
    <2>1. RowInv'
      BY <1>0, <1>17 DEF ProviderDrops, RowInv, TypeOK, rowVars, providerVars, writeVars,
          Exists, Confirmed, Owner, Was, At, PreClaim, PostClaim, Prewrite, PostClaimStatus, Outcomes, Decisions
    <2>2. CallInv'
      BY <1>0, <1>17, CallEffects DEF ProviderDrops, RowInv, CallInv, TypeOK, rowVars, providerVars, writeVars,
          Exists, Confirmed, Owner, Was, At, PreClaim, PostClaim, Prewrite, PostClaimStatus, Outcomes, Decisions
    <2>3. OneClaimant'
      BY <1>0, <1>17, CallEffects DEF ProviderDrops, CallInv, OneClaimant, rowVars, providerVars, writeVars,
          Exists, Confirmed, Owner, Was, At, PreClaim, PostClaim, Prewrite, PostClaimStatus, Outcomes, Decisions
    <2>4. SentInv'
      BY <1>0, <1>17 DEF ProviderDrops, SentInv, SentOK, rowVars, providerVars, writeVars,
          Exists, Confirmed, Owner, Was, At, PreClaim, PostClaim, Prewrite, PostClaimStatus, Outcomes, Decisions
    <2>5. QED
      BY <2>1, <2>2, <2>3, <2>4
  <1>18. ASSUME NEW g \in Grants, Revoke(g)
        PROVE  Goal
    <2>1. RowInv'
      BY <1>0, <1>18 DEF Revoke, RowInv, TypeOK, rowVars, providerVars, writeVars,
          Exists, Confirmed, Owner, Was, At, PreClaim, PostClaim, Prewrite, PostClaimStatus, Outcomes, Decisions
    <2>2. CallInv'
      BY <1>0, <1>18, CallEffects DEF Revoke, RowInv, CallInv, TypeOK, rowVars, providerVars, writeVars,
          Exists, Confirmed, Owner, Was, At, PreClaim, PostClaim, Prewrite, PostClaimStatus, Outcomes, Decisions
    <2>3. OneClaimant'
      BY <1>0, <1>18, CallEffects DEF Revoke, CallInv, OneClaimant, rowVars, providerVars, writeVars,
          Exists, Confirmed, Owner, Was, At, PreClaim, PostClaim, Prewrite, PostClaimStatus, Outcomes, Decisions
    <2>4. SentInv'
      BY <1>0, <1>18 DEF Revoke, SentInv, SentOK, rowVars, providerVars, writeVars,
          Exists, Confirmed, Owner, Was, At, PreClaim, PostClaim, Prewrite, PostClaimStatus, Outcomes, Decisions
    <2>5. QED
      BY <2>1, <2>2, <2>3, <2>4
  <1>19. ASSUME NEW f \in Fields, NEW v \in Values, ExternalEdit(f, v)
        PROVE  Goal
    <2>1. RowInv'
      BY <1>0, <1>19 DEF ExternalEdit, RowInv, TypeOK, rowVars, providerVars, writeVars,
          Exists, Confirmed, Owner, Was, At, PreClaim, PostClaim, Prewrite, PostClaimStatus, Outcomes, Decisions
    <2>2. CallInv'
      BY <1>0, <1>19, CallEffects DEF ExternalEdit, RowInv, CallInv, TypeOK, rowVars, providerVars, writeVars,
          Exists, Confirmed, Owner, Was, At, PreClaim, PostClaim, Prewrite, PostClaimStatus, Outcomes, Decisions
    <2>3. OneClaimant'
      BY <1>0, <1>19, CallEffects DEF ExternalEdit, CallInv, OneClaimant, rowVars, providerVars, writeVars,
          Exists, Confirmed, Owner, Was, At, PreClaim, PostClaim, Prewrite, PostClaimStatus, Outcomes, Decisions
    <2>4. SentInv'
      BY <1>0, <1>19 DEF ExternalEdit, SentInv, SentOK, rowVars, providerVars, writeVars,
          Exists, Confirmed, Owner, Was, At, PreClaim, PostClaim, Prewrite, PostClaimStatus, Outcomes, Decisions
    <2>5. QED
      BY <2>1, <2>2, <2>3, <2>4
  <1>20. ASSUME AccountChanges
        PROVE  Goal
    <2>1. RowInv'
      BY <1>0, <1>20 DEF AccountChanges, RowInv, TypeOK, rowVars, providerVars, writeVars,
          Exists, Confirmed, Owner, Was, At, PreClaim, PostClaim, Prewrite, PostClaimStatus, Outcomes, Decisions
    <2>2. CallInv'
      BY <1>0, <1>20, CallEffects DEF AccountChanges, RowInv, CallInv, TypeOK, rowVars, providerVars, writeVars,
          Exists, Confirmed, Owner, Was, At, PreClaim, PostClaim, Prewrite, PostClaimStatus, Outcomes, Decisions
    <2>3. OneClaimant'
      BY <1>0, <1>20, CallEffects DEF AccountChanges, CallInv, OneClaimant, rowVars, providerVars, writeVars,
          Exists, Confirmed, Owner, Was, At, PreClaim, PostClaim, Prewrite, PostClaimStatus, Outcomes, Decisions
    <2>4. SentInv'
      BY <1>0, <1>20 DEF AccountChanges, SentInv, SentOK, rowVars, providerVars, writeVars,
          Exists, Confirmed, Owner, Was, At, PreClaim, PostClaim, Prewrite, PostClaimStatus, Outcomes, Decisions
    <2>5. QED
      BY <2>1, <2>2, <2>3, <2>4
  <1>21. ASSUME UNCHANGED vars
        PROVE  Goal
    <2>1. RowInv'
      BY <1>0, <1>21 DEF vars, RowInv, TypeOK, rowVars, providerVars, writeVars,
          Exists, Confirmed, Owner, Was, At, PreClaim, PostClaim, Prewrite, PostClaimStatus, Outcomes, Decisions
    <2>2. CallInv'
      BY <1>0, <1>21, CallEffects DEF vars, RowInv, CallInv, TypeOK, rowVars, providerVars, writeVars,
          Exists, Confirmed, Owner, Was, At, PreClaim, PostClaim, Prewrite, PostClaimStatus, Outcomes, Decisions
    <2>3. OneClaimant'
      BY <1>0, <1>21, CallEffects DEF vars, CallInv, OneClaimant, rowVars, providerVars, writeVars,
          Exists, Confirmed, Owner, Was, At, PreClaim, PostClaim, Prewrite, PostClaimStatus, Outcomes, Decisions
    <2>4. SentInv'
      BY <1>0, <1>21 DEF vars, SentInv, SentOK, rowVars, providerVars, writeVars,
          Exists, Confirmed, Owner, Was, At, PreClaim, PostClaim, Prewrite, PostClaimStatus, Outcomes, Decisions
    <2>5. QED
      BY <2>1, <2>2, <2>3, <2>4
  <1>22. QED
    BY <1>1, <1>2, <1>3, <1>4, <1>5, <1>6, <1>7, <1>8, <1>9, <1>10, <1>11, <1>12, <1>13, <1>14, <1>15, <1>16, <1>17, <1>18, <1>19, <1>20, <1>21 DEF Next, CommitStep, Goal

\* The strengthening holds of an empty preview table.
LEMMA SafetyInit == Init => SafetyInv
  <1> SUFFICES ASSUME Init
               PROVE  SafetyInv
    OBVIOUS
  <1> USE PublicWriteAssumption
  <1>1. TypeOK
    BY DEF Init, TypeOK, CallsOK, Statuses
  <1>2. RowInv /\ SentInv
    BY DEF Init, RowInv, SentInv, SentOK, Exists, Confirmed, Prewrite, PostClaimStatus, Outcomes
  <1>3. CallInv /\ OneClaimant
    BY DEF Init, Idle, CallInv, OneClaimant, At, PreClaim, PostClaim
  <1>4. QED
    BY <1>1, <1>2, <1>3 DEF SafetyInv

\* The strengthening holds in every reachable state.
THEOREM SafetyInvariant == Spec => []SafetyInv
  BY SafetyInit, SafetyStep, PTL DEF Spec

\* At most one mutation request is issued for a preview, whatever the number of
\* racing and dying commit calls.
THEOREM MutatesAtMostOnce == Spec => []AtMostOneMutation
  <1>1. SafetyInv => AtMostOneMutation
    BY DEF SafetyInv, SentInv, SentOK, AtMostOneMutation
  <1>2. QED
    BY <1>1, SafetyInvariant, PTL

\* A mutation request is issued only with the owner's approval, never for a
\* cancelled preview, and after its audit.
THEOREM MutatesOnlyAuthorized == Spec => []MutationAuthorized
  <1>1. SafetyInv => MutationAuthorized
    BY DEF SafetyInv, TypeOK, RowInv, SentInv, SentOK, MutationAuthorized, PostClaimStatus,
           Outcomes, Prewrite
  <1>2. QED
    BY <1>1, SafetyInvariant, PTL

\* A row that says the change was never attempted is right about it.
THEOREM UnattemptedIsUnsent == Spec => []UnattemptedMeansUnsent
  <1>1. SafetyInv => UnattemptedMeansUnsent
    BY DEF SafetyInv, TypeOK, SentInv, SentOK, UnattemptedMeansUnsent, PostClaimStatus,
           Outcomes, Prewrite
  <1>2. QED
    BY <1>1, SafetyInvariant, PTL

\* What a committer was told stays in the row.
THEOREM ToldVerifiedIsStable == Spec => []ToldVerifiedStays
  <1>1. SafetyInv => ToldVerifiedStays
    BY DEF SafetyInv, TypeOK, SentInv, SentOK, ToldVerifiedStays
  <1>2. QED
    BY <1>1, SafetyInvariant, PTL

\* With a write flag off no preview is claimed and nothing is sent.
THEOREM FlagsGate == Spec => []FlagsGateWrites
  <1>1. SafetyInv => FlagsGateWrites
    BY DEF SafetyInv, TypeOK, SentInv, SentOK, FlagsGateWrites
  <1>2. QED
    BY <1>1, SafetyInvariant, PTL

-----------------------------------------------------------------------------
(* Refinement of the one-shot write *)

\* The part of a row its phase depends on is the same after the step.
Same(q) ==
  /\ status'[q] = status[q]
  /\ sent'[q] = sent[q]

\* The phase of a row, read off its status and its request count.
LEMMA PhaseByStatus ==
  ASSUME SafetyInv, NEW p \in Previews
  PROVE  /\ status[p] = "ABSENT" => PhaseOf(p) = "none" /\ sent[p] = 0
         /\ status[p] = "PREVIEWED" => PhaseOf(p) = "pending" /\ sent[p] = 0
         /\ status[p] = "CONFIRMED" => PhaseOf(p) = "approved" /\ sent[p] = 0
         /\ status[p] = "CANCELLED" => PhaseOf(p) = "cancelled" /\ sent[p] = 0
         /\ status[p] \in Prewrite => PhaseOf(p) = "spent" /\ sent[p] = 0
         /\ status[p] \in PostClaimStatus =>
              \/ PhaseOf(p) = "claimed" /\ sent[p] = 0
              \/ PhaseOf(p) = "written" /\ sent[p] = 1
  <1>1. SentOK(p) /\ sent[p] \in Nat
    BY DEF SafetyInv, SentInv, TypeOK
  <1>2. QED
    BY <1>1 DEF SentOK, PhaseOf, Prewrite, PostClaimStatus, Outcomes

\* A step that touches at most the row p moves at most the phase of p.
LEMMA PhaseUpdate ==
  ASSUME NEW p \in Previews, \A q \in Previews \ {p} : Same(q)
  PROVE  phase' = [phase EXCEPT ![p] = PhaseOf(p)']
  <1>1. \A q \in Previews \ {p} : PhaseOf(q)' = PhaseOf(q)
    BY DEF Same, PhaseOf
  <1>2. QED
    BY <1>1 DEF phase

\* A step that leaves every status and request count alone moves no phase.
LEMMA PhaseStutter ==
  ASSUME \A q \in Previews : Same(q)
  PROVE  phase' = phase
  <1>1. \A q \in Previews : PhaseOf(q)' = PhaseOf(q)
    BY DEF Same, PhaseOf
  <1>2. QED
    BY <1>1 DEF phase

\* A step of row p between two statuses is the abstract step between the phases.
LEMMA PhaseSteps ==
  ASSUME SafetyInv, SafetyInv', NEW p \in Previews,
         \A q \in Previews \ {p} : Same(q), sent' = sent
  PROVE  /\ status[p] = "ABSENT" /\ status'[p] = "PREVIEWED" => OneShot!Offer(p)
         /\ status[p] = "PREVIEWED" /\ status'[p] = "CONFIRMED" => OneShot!Approve(p)
         /\ status[p] = "PREVIEWED" /\ status'[p] = "CANCELLED" => OneShot!Cancel(p)
         /\ status[p] = "CONFIRMED" /\ status'[p] \in Prewrite => OneShot!Spend(p)
         /\ status[p] = "CONFIRMED" /\ status'[p] = "CLAIMED" => OneShot!Claim(p)
         /\ status[p] \in PostClaimStatus /\ status'[p] \in PostClaimStatus => phase' = phase
  <1>1. phase' = [phase EXCEPT ![p] = PhaseOf(p)'] /\ phase[p] = PhaseOf(p)
    BY PhaseUpdate DEF phase
  <1>2. phase \in [Previews -> {PhaseOf(q) : q \in Previews}]
    BY DEF phase
  <1>3. /\ status'[p] = "PREVIEWED" => PhaseOf(p)' = "pending"
        /\ status'[p] = "CONFIRMED" => PhaseOf(p)' = "approved"
        /\ status'[p] = "CANCELLED" => PhaseOf(p)' = "cancelled"
        /\ status'[p] \in Prewrite => PhaseOf(p)' = "spent"
        /\ status'[p] \in PostClaimStatus =>
              \/ PhaseOf(p)' = "claimed" /\ sent'[p] = 0
              \/ PhaseOf(p)' = "written" /\ sent'[p] = 1
    <2>1. (SafetyInv /\ p \in Previews)' =>
             (/\ status[p] = "PREVIEWED" => PhaseOf(p) = "pending"
              /\ status[p] = "CONFIRMED" => PhaseOf(p) = "approved"
              /\ status[p] = "CANCELLED" => PhaseOf(p) = "cancelled"
              /\ status[p] \in Prewrite => PhaseOf(p) = "spent"
              /\ status[p] \in PostClaimStatus =>
                    \/ PhaseOf(p) = "claimed" /\ sent[p] = 0
                    \/ PhaseOf(p) = "written" /\ sent[p] = 1)'
      BY PhaseByStatus, PTL
    <2>2. QED
      BY <2>1
  <1>4. ASSUME status[p] = "ABSENT" /\ status'[p] = "PREVIEWED"
        PROVE  OneShot!Offer(p)
    BY <1>1, <1>3, <1>4, PhaseByStatus DEF OneShot!Offer, OneShot!Move
  <1>5. ASSUME status[p] = "PREVIEWED" /\ status'[p] = "CONFIRMED"
        PROVE  OneShot!Approve(p)
    BY <1>1, <1>3, <1>5, PhaseByStatus DEF OneShot!Approve, OneShot!Move
  <1>6. ASSUME status[p] = "PREVIEWED" /\ status'[p] = "CANCELLED"
        PROVE  OneShot!Cancel(p)
    BY <1>1, <1>3, <1>6, PhaseByStatus DEF OneShot!Cancel, OneShot!Move
  <1>7. ASSUME status[p] = "CONFIRMED" /\ status'[p] \in Prewrite
        PROVE  OneShot!Spend(p)
    BY <1>1, <1>3, <1>7, PhaseByStatus DEF OneShot!Spend, OneShot!Move
  <1>8. ASSUME status[p] = "CONFIRMED" /\ status'[p] = "CLAIMED"
        PROVE  OneShot!Claim(p)
    <2>1. PhaseOf(p)' = "claimed"
      BY <1>3, <1>8, PhaseByStatus DEF PostClaimStatus
    <2>2. QED
      BY <1>1, <1>8, <2>1, PhaseByStatus DEF OneShot!Claim, OneShot!Move
  <1>9. ASSUME status[p] \in PostClaimStatus, status'[p] \in PostClaimStatus
        PROVE  phase' = phase
    BY <1>1, <1>2, <1>3, <1>9, PhaseByStatus
  <1>10. QED
    BY <1>4, <1>5, <1>6, <1>7, <1>8, <1>9

\* Issuing the request of a claimed row is the write of the one-shot write.
LEMMA PhaseOfRequest ==
  ASSUME SafetyInv, NEW p \in Previews, status[p] \in PostClaimStatus, sent[p] = 0,
         status' = status, sent' = [sent EXCEPT ![p] = @ + 1]
  PROVE  OneShot!Write(p)
  <1>1. sent'[p] = 1 /\ \A q \in Previews \ {p} : Same(q)
    BY DEF SafetyInv, TypeOK, Same
  <1>2. PhaseOf(p) = "claimed"
    BY DEF PhaseOf, PostClaimStatus, Outcomes, Prewrite
  <1>3. PhaseOf(p)' = "written"
    BY <1>1 DEF PhaseOf, PostClaimStatus, Outcomes, Prewrite
  <1>4. phase' = [phase EXCEPT ![p] = "written"] /\ phase[p] = "claimed"
    BY <1>1, <1>2, <1>3, PhaseUpdate DEF phase
  <1>5. QED
    BY <1>4 DEF OneShot!Write, OneShot!Move

\* Every step of the flow is a step of the one-shot write or a stutter.
LEMMA RefinementStep ==
  ASSUME SafetyInv, SafetyInv', [Next]_vars
  PROVE  OneShot!OneShotNext \/ (phase' = phase /\ sent' = sent)
  <1> DEFINE Goal == OneShot!OneShotNext \/ (phase' = phase /\ sent' = sent)
  <1> USE PublicWriteAssumption
  <1>0. TypeOK /\ RowInv /\ CallInv /\ SentInv
    BY DEF SafetyInv
  <1>1. ASSUME NEW p \in Previews, NEW g \in Grants, NEW f \in Fields,
               NEW v \in Values, Create(p, g, f, v)
        PROVE  Goal
    <2>1. status[p] = "ABSENT" /\ status'[p] = "PREVIEWED" /\ sent' = sent
          /\ \A q \in Previews \ {p} : Same(q)
      BY <1>0, <1>1 DEF Create, Exists, TypeOK, Same, writeVars
    <2>2. QED
      BY <2>1, PhaseSteps DEF OneShot!OneShotNext
  <1>2. ASSUME NEW c \in Calls, DecideStore(c)
        PROVE  Goal
    <2> DEFINE p == call[c].preview
    <2>1. p \in Previews /\ call[c].user \in Users /\ Exists(p) /\ sent' = sent
      BY <1>0, <1>2 DEF DecideStore, CallInv, At, writeVars
    <2>2. CASE Undecided(p, call[c].user)
      <3>1. status[p] = "PREVIEWED"
        BY <1>0, <2>1, <2>2 DEF Undecided, Usable, TypeOK, RowInv, Statuses, Exists, Confirmed
      <3>2. status'[p] \in {"CONFIRMED", "CANCELLED"} /\ \A q \in Previews \ {p} : Same(q)
        BY <1>0, <1>2, <2>1, <2>2 DEF DecideStore, TypeOK, Same
      <3>3. QED
        BY <2>1, <3>1, <3>2, PhaseSteps DEF OneShot!OneShotNext
    <2>3. CASE ~ Undecided(p, call[c].user)
      BY <1>2, <2>1, <2>3, PhaseStutter DEF DecideStore, Same
    <2>4. QED
      BY <2>2, <2>3
  <1>3. ASSUME NEW c \in Calls, MarkPrewrite(c)
        PROVE  Goal
    <2> DEFINE p == call[c].preview
    <2>1. /\ p \in Previews /\ Confirmed(p) /\ call[c].choice \in Prewrite /\ sent' = sent
      BY <1>0, <1>3 DEF MarkPrewrite, CallInv, At, PreClaim, writeVars
    <2>2. CASE Unspent(p)
      <3>1. status[p] = "CONFIRMED"
        BY <1>0, <2>1, <2>2 DEF Unspent, RowInv
      <3>2. status'[p] \in Prewrite /\ \A q \in Previews \ {p} : Same(q)
        BY <1>0, <1>3, <2>1, <2>2 DEF MarkPrewrite, TypeOK, Same
      <3>3. QED
        BY <2>1, <3>1, <3>2, PhaseSteps DEF OneShot!OneShotNext
    <2>3. CASE ~ Unspent(p)
      BY <1>3, <2>1, <2>3, PhaseStutter DEF MarkPrewrite, Same
    <2>4. QED
      BY <2>2, <2>3
  <1>4. ASSUME NEW c \in Calls, Claim(c)
        PROVE  Goal
    <2> DEFINE p == call[c].preview
    <2>1. p \in Previews /\ Confirmed(p) /\ sent' = sent
      BY <1>0, <1>4 DEF Claim, CallInv, At, PreClaim, writeVars
    <2>2. CASE Claimable(p, call[c].user)
      <3>1. status[p] = "CONFIRMED"
        BY <1>0, <2>1, <2>2 DEF Claimable, Usable, RowInv
      <3>2. status'[p] = "CLAIMED" /\ \A q \in Previews \ {p} : Same(q)
        BY <1>0, <1>4, <2>1, <2>2 DEF Claim, TypeOK, Same
      <3>3. QED
        BY <2>1, <3>1, <3>2, PhaseSteps DEF OneShot!OneShotNext
    <2>3. CASE ~ Claimable(p, call[c].user)
      BY <1>4, <2>1, <2>3, PhaseStutter DEF Claim, Same
    <2>4. QED
      BY <2>2, <2>3
  <1>5. ASSUME NEW c \in Calls, Send(c)
        PROVE  Goal
    <2> DEFINE p == call[c].preview
    <2>1. /\ p \in Previews /\ sent[p] = 0 /\ status[p] \in PostClaimStatus
          /\ status' = status
      BY <1>0, <1>5 DEF Send, CallInv, At, PostClaim, rowVars
    <2>2. CASE sent' = [sent EXCEPT ![p] = @ + 1]
      <3>1. OneShot!Write(p)
        BY <2>1, <2>2, PhaseOfRequest
      <3>2. QED
        BY <2>1, <3>1 DEF OneShot!OneShotNext
    <2>3. CASE sent' = sent
      BY <2>1, <2>3, PhaseStutter DEF Same
    <2>4. QED
      BY <1>5, <2>2, <2>3 DEF Send
  <1>6. ASSUME NEW c \in Calls, Finalize(c)
        PROVE  Goal
    <2> DEFINE p == call[c].preview
    <2>1. /\ p \in Previews /\ status[p] \in PostClaimStatus
          /\ call[c].choice \in Outcomes /\ sent' = sent
      BY <1>0, <1>6 DEF Finalize, CallInv, At, PostClaim, writeVars
    <2>2. status'[p] \in PostClaimStatus /\ \A q \in Previews \ {p} : Same(q)
      BY <1>0, <1>6, <2>1 DEF Finalize, TypeOK, Same, PostClaimStatus
    <2>3. QED
      BY <2>1, <2>2, PhaseSteps
  <1>7. ASSUME status' = status, sent' = sent
        PROVE  Goal
    BY <1>7, PhaseStutter DEF Same
  <1>8. ASSUME NEW c \in Calls,
               \/ CommitAuthorize(c) \/ CommitPreRead(c) \/ AuditAttempt(c)
               \/ MutateSettles(c) \/ ReadBack(c) \/ Die(c)
        PROVE  Goal
    BY <1>7, <1>8 DEF CommitAuthorize, CommitPreRead, AuditAttempt, MutateSettles, ReadBack,
                      Die, rowVars, writeVars
  <1>9. ASSUME \/ \E c \in Calls, u \in Users, p \in Previews, d \in Decisions :
                    DecideLoad(c, u, p, d)
               \/ \E c \in Calls, g \in Grants, p \in Previews : CommitFind(c, g, p)
               \/ \E p \in Previews : Expire(p) \/ ProviderApplies(p) \/ ProviderDrops(p)
               \/ \E g \in Grants : Revoke(g)
               \/ \E f \in Fields, v \in Values : ExternalEdit(f, v)
               \/ AccountChanges
               \/ UNCHANGED vars
        PROVE  Goal
    BY <1>7, <1>9 DEF DecideLoad, CommitFind, Expire, ProviderApplies, ProviderDrops, Revoke,
                      ExternalEdit, AccountChanges, vars, rowVars, writeVars
  <1>10. QED
    BY <1>1, <1>2, <1>3, <1>4, <1>5, <1>6, <1>8, <1>9 DEF Next, CommitStep

\* The public write flow implements the one-shot write.
THEOREM RefinesOneShot == Spec => ImplementsOneShot
  <1>1. Init => OneShot!OneShotInit
    <2> SUFFICES ASSUME Init
                 PROVE  OneShot!OneShotInit
      OBVIOUS
    <2>1. \A p \in Previews : status[p] = "ABSENT"
      BY DEF Init
    <2>2. \A p \in Previews : PhaseOf(p) = "none"
      BY <2>1 DEF PhaseOf, Prewrite, PostClaimStatus, Outcomes
    <2>3. QED
      BY <2>2 DEF Init, OneShot!OneShotInit, phase
  <1>2. SafetyInv /\ SafetyInv' /\ [Next]_vars => [OneShot!OneShotNext]_(OneShot!oneShotVars)
    BY RefinementStep DEF OneShot!oneShotVars
  <1>3. QED
    BY <1>1, <1>2, SafetyInvariant, PTL DEF Spec, ImplementsOneShot, OneShot!OneShotSpec

\* The browser decision on a preview is never changed by a later one.
THEOREM DecisionsAreFinal == Spec => DecisionIsFinal
  <1>1. SafetyInv /\ [Next]_vars =>
          [\A p \in Previews : Confirmed(p) \/ p \in cancelled \/ p \in consumed =>
             /\ approver'[p] = approver[p]
             /\ (p \in cancelled') = (p \in cancelled)]_vars
    <2> SUFFICES ASSUME SafetyInv, Next, NEW p \in Previews,
                        Confirmed(p) \/ p \in cancelled \/ p \in consumed
                 PROVE  /\ approver'[p] = approver[p]
                        /\ (p \in cancelled') = (p \in cancelled)
      OBVIOUS
    <2>1. ASSUME NEW c \in Calls, DecideStore(c)
          PROVE  /\ approver'[p] = approver[p]
                 /\ (p \in cancelled') = (p \in cancelled)
      BY <2>1 DEF DecideStore, Undecided, Usable, SafetyInv, TypeOK, RowInv, Confirmed
    <2>2. CASE approver' = approver /\ cancelled' = cancelled
      BY <2>2
    <2>3. QED
      BY <2>1, <2>2 DEF Next, Create, DecideLoad, CommitFind, CommitStep, CommitAuthorize,
         CommitPreRead, MarkPrewrite, Claim, AuditAttempt, Send, MutateSettles, ReadBack,
         Finalize, Die, Expire, ProviderApplies, ProviderDrops, Revoke, ExternalEdit,
         AccountChanges, rowVars
  <1>2. QED
    BY <1>1, SafetyInvariant, PTL DEF Spec, DecisionIsFinal

-----------------------------------------------------------------------------
(* Outcomes *)

\* A handler past the claim finds its preview CLAIMED, until it has to finalize
\* again, as uncertain.
OutcomeInv ==
  \A c \in Calls :
    call[c].pc \in PostClaim =>
      \/ status[call[c].preview] = "CLAIMED"
      \/ At(c, "finalize") /\ call[c].choice = "UNCERTAIN_OUTCOME"

\* Only the handler that finalizes changes the status of a claimed preview.
LEMMA OnlyFinalizeSettles ==
  ASSUME SafetyInv, [Next]_vars, NEW p \in Previews, status[p] \in PostClaimStatus
  PROVE  \/ status'[p] = status[p]
         \/ \E c \in Calls : Finalize(c) /\ call[c].preview = p
  <1> USE DEF SafetyInv, TypeOK
  <1>0. p \in consumed /\ Exists(p)
    BY DEF RowInv, Exists, PostClaimStatus, Outcomes
  <1>1. ASSUME NEW q \in Previews, NEW g \in Grants, NEW f \in Fields, NEW v \in Values,
               Create(q, g, f, v)
        PROVE  status'[p] = status[p]
    BY <1>0, <1>1 DEF Create
  <1>2. ASSUME NEW c \in Calls, DecideStore(c)
        PROVE  status'[p] = status[p]
    BY <1>0, <1>2 DEF DecideStore, Undecided, Usable
  <1>3. ASSUME NEW c \in Calls, MarkPrewrite(c)
        PROVE  status'[p] = status[p]
    BY <1>0, <1>3 DEF MarkPrewrite, Unspent
  <1>4. ASSUME NEW c \in Calls, Claim(c)
        PROVE  status'[p] = status[p]
    BY <1>0, <1>4 DEF Claim, Claimable, Usable
  <1>5. ASSUME NEW c \in Calls, Finalize(c)
        PROVE  status'[p] = status[p] \/ call[c].preview = p
    BY <1>5 DEF Finalize
  <1>6. QED
    BY <1>1, <1>2, <1>3, <1>4, <1>5 DEF Next, DecideLoad, CommitFind, CommitStep,
       CommitAuthorize, CommitPreRead, AuditAttempt, Send, MutateSettles, ReadBack, Die, Expire,
       ProviderApplies, ProviderDrops, Revoke, ExternalEdit, AccountChanges, rowVars, vars

\* Which handlers a step leaves past the claim, and with which row.
LEMMA OutcomeStep == SafetyInv /\ OutcomeInv /\ [Next]_vars => OutcomeInv'
  <1> SUFFICES ASSUME SafetyInv, OutcomeInv, [Next]_vars, NEW d \in Calls,
                      (call[d].pc \in PostClaim)'
               PROVE  (\/ status[call[d].preview] = "CLAIMED"
                       \/ At(d, "finalize") /\ call[d].choice = "UNCERTAIN_OUTCOME")'
    BY DEF OutcomeInv
  <1> DEFINE Goal == (\/ status[call[d].preview] = "CLAIMED"
                      \/ At(d, "finalize") /\ call[d].choice = "UNCERTAIN_OUTCOME")'
             Kept == /\ call[d].pc \in PostClaim /\ call'[d].preview = call[d].preview
                     /\ At(d, "finalize") => call'[d] = call[d]
  <1>0. TypeOK /\ RowInv /\ CallInv /\ OneClaimant
    BY DEF SafetyInv
  \* The handler was past the claim already and does not finalize.
  <1>1. ASSUME Kept, ~ Finalize(d)
        PROVE  Goal
    <2> DEFINE p == call[d].preview
    <2>1. p \in Previews /\ status[p] \in PostClaimStatus
      BY <1>0, <1>1 DEF CallInv, At, PostClaim
    <2>2. status'[p] = status[p]
      <3>1. ASSUME NEW c \in Calls, Finalize(c), call[c].preview = p
            PROVE  FALSE
        BY <1>0, <1>1, <3>1 DEF OneClaimant, Finalize, At, PostClaim
      <3>2. QED
        BY <2>1, <3>1, OnlyFinalizeSettles
    <2>3. QED
      BY <1>1, <2>2 DEF OutcomeInv, At
  <1>2. ASSUME NEW c \in Calls, CommitStep(c) \/ DecideStore(c) \/ Die(c), c # d
        PROVE  Kept
    BY <1>0, <1>2, CallEffects DEF CommitStep, CommitAuthorize, CommitPreRead, MarkPrewrite,
       Claim, AuditAttempt, Send, MutateSettles, ReadBack, Finalize, DecideStore, Die, At
  <1>3. CASE Claim(d)
    <2>1. call[d].preview \in Previews
      BY <1>0, <1>3 DEF Claim, CallInv, At
    <2>2. QED
      BY <1>0, <1>3, <2>1, CallEffects DEF Claim, TypeOK, At, PostClaim
  <1>4. CASE AuditAttempt(d) \/ Send(d) \/ MutateSettles(d) \/ ReadBack(d)
    BY <1>0, <1>1, <1>4, CallEffects DEF AuditAttempt, Send, MutateSettles, ReadBack, Finalize,
       At, PostClaim
  <1>5. CASE Finalize(d)
    BY <1>0, <1>5, CallEffects DEF Finalize, At, PostClaim
  <1>6. CASE CommitAuthorize(d) \/ CommitPreRead(d) \/ MarkPrewrite(d) \/ DecideStore(d) \/ Die(d)
    BY <1>0, <1>6, CallEffects DEF CommitAuthorize, CommitPreRead, MarkPrewrite, DecideStore, Die,
       At, PostClaim
  <1>7. ASSUME NEW c \in Calls, NEW step, NEW p, NEW u, NEW v, Begin(c, step, p, u, v),
               step \in {"decide", "authorize"}
        PROVE  Kept
    BY <1>0, <1>7, CallEffects DEF Begin, At, PostClaim
  <1>8. ASSUME call' = call
        PROVE  Kept
    BY <1>8
  <1>9. \/ Kept \/ Claim(d) \/ AuditAttempt(d) \/ Send(d) \/ MutateSettles(d) \/ ReadBack(d)
        \/ Finalize(d) \/ CommitAuthorize(d) \/ CommitPreRead(d) \/ MarkPrewrite(d)
        \/ DecideStore(d) \/ Die(d)
    <2> HIDE DEF Kept
    <2>1. ASSUME NEW c \in Calls, NEW u \in Users, NEW p \in Previews, NEW e \in Decisions,
                 DecideLoad(c, u, p, e)
          PROVE  Kept
      BY <1>7, <2>1 DEF DecideLoad
    <2>2. ASSUME NEW c \in Calls, NEW g \in Grants, NEW p \in Previews, CommitFind(c, g, p)
          PROVE  Kept
      BY <1>7, <2>2 DEF CommitFind
    <2>3. ASSUME NEW c \in Calls, DecideStore(c) \/ CommitStep(c) \/ Die(c), c # d
          PROVE  Kept
      BY <1>2, <2>3
    <2>4. ASSUME \/ \E p \in Previews, g \in Grants, f \in Fields, v \in Values :
                      Create(p, g, f, v)
                 \/ \E p \in Previews : Expire(p) \/ ProviderApplies(p) \/ ProviderDrops(p)
                 \/ \E g \in Grants : Revoke(g)
                 \/ \E f \in Fields, v \in Values : ExternalEdit(f, v)
                 \/ AccountChanges \/ UNCHANGED vars
          PROVE  Kept
      BY <1>8, <2>4 DEF Create, Expire, ProviderApplies, ProviderDrops, Revoke, ExternalEdit,
         AccountChanges, vars
    <2>5. QED
      BY <2>1, <2>2, <2>3, <2>4 DEF Next, CommitStep
  <1>10. QED
    BY <1>1, <1>3, <1>4, <1>5, <1>6, <1>9

\* OutcomeOnlyDegrades: a claim is settled once, and nothing that happens to the
\* row afterwards makes its outcome more certain or reopens it.
THEOREM OutcomesOnlyDegrade == Spec => OutcomeOnlyDegrades
  <1>1. Init => OutcomeInv
    BY DEF Init, OutcomeInv, Idle, PostClaim
  <1>2. SafetyInv /\ OutcomeInv /\ [Next]_vars =>
          [\A p \in Previews : status[p] \in PostClaimStatus =>
             \/ status'[p] = status[p]
             \/ status[p] = "CLAIMED" /\ status'[p] \in Outcomes
             \/ status[p] \in Outcomes /\ status'[p] = "UNCERTAIN_OUTCOME"]_vars
    <2> SUFFICES ASSUME SafetyInv, OutcomeInv, Next, NEW p \in Previews,
                        status[p] \in PostClaimStatus, status'[p] # status[p]
                 PROVE  \/ status[p] = "CLAIMED" /\ status'[p] \in Outcomes
                        \/ status[p] \in Outcomes /\ status'[p] = "UNCERTAIN_OUTCOME"
      OBVIOUS
    <2>1. PICK c \in Calls : Finalize(c) /\ call[c].preview = p
      BY OnlyFinalizeSettles
    <2>2. status'[p] = call[c].choice /\ call[c].choice \in Outcomes
      BY <2>1 DEF Finalize, SafetyInv, TypeOK, CallInv
    <2>3. status[p] = "CLAIMED" \/ call[c].choice = "UNCERTAIN_OUTCOME"
      BY <2>1 DEF OutcomeInv, Finalize, At, PostClaim
    <2>4. QED
      BY <2>2, <2>3 DEF PostClaimStatus
  <1>3. QED
    BY <1>1, <1>2, OutcomeStep, SafetyInvariant, PTL DEF Spec, OutcomeOnlyDegrades
=============================================================================
