------------------------ MODULE ServicePreviewProofs ------------------------
(***************************************************************************)
(* Proofs about ServicePreview, for any number of previews and calls.      *)
(* SafetyInv says which call may be past the consumption of a preview and  *)
(* what the row looks like then; the safety properties and the refinement  *)
(* of OneShotWrite follow from it.                                         *)
(***************************************************************************)
EXTENDS ServicePreview, TLAPS

PreClaim  == {"account", "consume"}
Unsent    == {"blocked", "key", "preread", "precheck", "send"}
Answered  == {"list", "reread", "record"}
PostClaim == Unsent \cup {"await"} \cup Answered

\* What the call record k may say.
CallOK(k) ==
  LET p == k.preview IN
  /\ k.pc # "idle" => p \in Previews
  /\ k.pc \in PreClaim \cup PostClaim => p \in confirmed
  /\ k.pc \in PostClaim => p \in consumed /\ told[p] = "none"
  /\ k.pc \in Unsent => sent[p] = 0
  /\ k.pc \in Answered => p \in applied
  /\ k.pc = "send" /\ Policy[p] = "controlled" =>
       /\ k.seen = [name |-> plan[p].before, paused |-> TRUE]
       /\ k.seen.name # plan[p].after

\* What a preview's row and its writes may say.
RowOK(p) ==
  /\ Exists(p) => plan[p].after \in Names
  /\ p \in confirmed => Exists(p)
  /\ p \in inflight => p \in consumed
  /\ p \in consumed => p \in confirmed
  /\ sent[p] > 0 \/ told[p] # "none" => p \in consumed
  /\ told[p] \in {"blocked", "already"} => sent[p] = 0
  /\ told[p] = "committed" => p \in applied

CallInv == \A c \in Calls : CallOK(call[c])
RowInv  == \A p \in Previews : RowOK(p)

\* One call at most is past the consumption of a preview.
OneClaimant ==
  \A c, d \in Calls :
    call[c].pc \in PostClaim /\ call[d].pc \in PostClaim /\ Of(c) = Of(d) => c = d

SafetyInv == TypeOK /\ CallInv /\ RowInv /\ OneClaimant
-----------------------------------------------------------------------------
(* Type correctness *)

\* A call record stays one, whichever way it moves.
LEMMA Moves ==
  ASSUME TypeOK, NEW c \in Calls
  PROVE  /\ call[c] \in Call
         /\ Idle \in Call
         /\ \A step \in Steps :
              /\ Go(c, step) => call' \in [Calls -> Call]
              /\ See(c, step) => call' \in [Calls -> Call]
              /\ \A p \in Previews : Begin(c, step, p) => call' \in [Calls -> Call]
         /\ Return(c) => call' \in [Calls -> Call]
  <1> USE ServicePreviewAssumption
  <1>1. call \in [Calls -> Call] /\ campaign \in State
    BY DEF TypeOK
  <1>2. Idle \in Call
    BY DEF Idle, Call, Steps, State
  <1>3. call[c] \in Call
    BY <1>1
  <1>4. ASSUME NEW step \in Steps
        PROVE  /\ [call[c] EXCEPT !.pc = step] \in Call
               /\ [call[c] EXCEPT !.pc = step, !.seen = campaign] \in Call
               /\ \A p \in Previews : [call[c] EXCEPT !.pc = step, !.preview = p] \in Call
    BY <1>1, <1>3 DEF Call
  <1>5. ASSUME NEW step \in Steps
        PROVE  /\ Go(c, step) => call' = [call EXCEPT ![c] = [call[c] EXCEPT !.pc = step]]
               /\ See(c, step) =>
                    call' = [call EXCEPT ![c] = [call[c] EXCEPT !.pc = step, !.seen = campaign]]
    BY <1>1 DEF Go, See
  <1>6. ASSUME NEW step \in Steps
        PROVE  /\ Go(c, step) => call' \in [Calls -> Call]
               /\ See(c, step) => call' \in [Calls -> Call]
               /\ \A p \in Previews : Begin(c, step, p) => call' \in [Calls -> Call]
    <2>1. \A k \in Call : [call EXCEPT ![c] = k] \in [Calls -> Call]
      BY <1>1
    <2>2. Go(c, step) => call' \in [Calls -> Call]
      BY <1>4, <1>5, <2>1
    <2>3. See(c, step) => call' \in [Calls -> Call]
      BY <1>4, <1>5, <2>1
    <2>4. ASSUME NEW p \in Previews, Begin(c, step, p)
          PROVE  call' \in [Calls -> Call]
      <3>1. call' = [call EXCEPT ![c] = [call[c] EXCEPT !.pc = step, !.preview = p]]
        BY <1>1, <2>4 DEF Begin
      <3>2. [call[c] EXCEPT !.pc = step, !.preview = p] \in Call
        BY <1>4
      <3>3. QED
        BY <2>1, <3>1, <3>2
    <2>5. QED
      BY <2>2, <2>3, <2>4
  <1>7. Return(c) => call' \in [Calls -> Call]
    BY <1>1, <1>2 DEF Return
  <1>8. QED
    BY <1>2, <1>3, <1>6, <1>7

\* The steps of a call keep the type.
LEMMA StepTypes ==
  ASSUME TypeOK, NEW c \in Calls, ~ At(c, "idle") => Of(c) \in Previews, Step(c)
  PROVE  TypeOK'
  <1> USE ServicePreviewAssumption DEF Steps, Answers
  <1>1. \A a \in Answers : Tell(c, a) => told' \in [Previews -> Answers]
    BY DEF Tell, TypeOK
  <1>2. \A a \in Answers : Tell(c, a) => call' \in [Calls -> Call]
    BY Moves DEF Tell
  <1>3. CASE Confirm(c)
    BY <1>3, Moves DEF Confirm, At, Confirmable, Open, Exists, NoPlan, TypeOK, envVars, writeVars
  <1>4. CASE ConfirmRecheck(c) \/ CommitAccount(c)
    BY <1>4, Moves DEF ConfirmRecheck, CommitAccount, TypeOK, rowVars, envVars, writeVars
  <1>5. CASE Consume(c)
    BY <1>5, Moves DEF Consume, At, Unspent, FirstStep, Policies, TypeOK, envVars, writeVars
  <1>6. CASE Blocked(c) \/ CheckKey(c) \/ PreRead(c) \/ PreCheck(c) \/ MutateSettles(c)
             \/ List(c) \/ Reread(c) \/ Record(c)
    BY <1>1, <1>2, <1>6, Moves DEF Blocked, CheckKey, PreRead, PreCheck, MutateSettles,
       List, Reread, Record, TypeOK, rowVars, envVars, writeVars
  <1>7. CASE Send(c)
    BY <1>1, <1>2, <1>7, Moves DEF Send, At, TypeOK, rowVars, envVars, writeVars
  <1>8. QED
    BY <1>3, <1>4, <1>5, <1>6, <1>7 DEF Step

\* Every step keeps every variable in its type.
LEMMA TypeStep == SafetyInv /\ [Next]_vars => TypeOK'
  <1> SUFFICES ASSUME SafetyInv, [Next]_vars
               PROVE  TypeOK'
    OBVIOUS
  <1> USE ServicePreviewAssumption DEF Steps
  <1>0. TypeOK /\ CallInv /\ RowInv
    BY DEF SafetyInv
  <1>1. ASSUME NEW p \in Previews, NEW n \in Names, Create(p, n)
        PROVE  TypeOK'
    BY <1>0, <1>1 DEF Create, Shown, TypeOK, Plan, State, envVars, writeVars
  <1>2. ASSUME NEW c \in Calls, NEW p \in Previews, ConfirmFind(c, p) \/ CommitFind(c, p)
        PROVE  TypeOK'
    BY <1>0, <1>2, Moves DEF ConfirmFind, CommitFind, TypeOK, rowVars, envVars, writeVars
  <1>3. ASSUME NEW c \in Calls, Step(c)
        PROVE  TypeOK'
    BY <1>0, <1>3, StepTypes DEF CallInv, CallOK, At, Of
  <1>4. ASSUME NEW c \in Calls, Die(c)
        PROVE  TypeOK'
    BY <1>0, <1>4, Moves DEF Die, TypeOK, rowVars, envVars, writeVars
  <1>5. ASSUME NEW p \in Previews, ProviderApplies(p)
        PROVE  TypeOK'
    <2>1. plan[p].after \in Names
      BY <1>0, <1>5 DEF ProviderApplies, RowInv, RowOK
    <2>2. campaign' \in State
      BY <1>0, <1>5, <2>1 DEF ProviderApplies, TypeOK, State
    <2>3. QED
      BY <1>0, <1>5, <2>2 DEF ProviderApplies, TypeOK, rowVars, envVars
  <1>6. ASSUME NEW p \in Previews, ProviderDrops(p) \/ Expire(p)
        PROVE  TypeOK'
    BY <1>0, <1>6 DEF ProviderDrops, Expire, TypeOK, rowVars, envVars, writeVars
  <1>7. ASSUME (\E st \in State : ExternalEdit(st)) \/ AccountChanges \/ KeyRevoked
        PROVE  TypeOK'
    BY <1>0, <1>7 DEF ExternalEdit, AccountChanges, KeyRevoked, TypeOK, rowVars, envVars,
       writeVars
  <1>8. CASE UNCHANGED vars
    BY <1>0, <1>8 DEF TypeOK, vars, rowVars, envVars, writeVars
  <1>9. QED
    BY <1>1, <1>2, <1>3, <1>4, <1>5, <1>6, <1>7, <1>8 DEF Next
-----------------------------------------------------------------------------
(* The inductive invariant *)

\* A call that moves on, rows and writes being what they were.
LEMMA CallAlone ==
  ASSUME SafetyInv, NEW c \in Calls, NEW k \in Call,
         call' = [call EXCEPT ![c] = k],
         UNCHANGED <<plan, confirmed, consumed, writeVars, told>>,
         CallOK(k),
         k.pc \in PostClaim => call[c].pc \in PostClaim /\ k.preview = Of(c)
  PROVE  CallInv' /\ RowInv' /\ OneClaimant'
  <1>1. call \in [Calls -> Call]
    BY DEF SafetyInv, TypeOK
  <1>2. CallInv'
    BY <1>1 DEF SafetyInv, CallInv, CallOK, writeVars
  <1>3. RowInv'
    BY DEF SafetyInv, RowInv, RowOK, Exists, writeVars
  <1>4. OneClaimant'
    BY <1>1 DEF SafetyInv, OneClaimant, Of
  <1>5. QED
    BY <1>2, <1>3, <1>4

\* The call that consumed a preview answers, and no other call is about it.
LEMMA CallTells ==
  ASSUME SafetyInv, NEW c \in Calls, call[c].pc \in PostClaim, NEW a \in Answers,
         Tell(c, a), UNCHANGED <<plan, confirmed, consumed, writeVars>>,
         a \in {"blocked", "already"} => sent[Of(c)] = 0,
         a = "committed" => Of(c) \in applied
  PROVE  CallInv' /\ RowInv' /\ OneClaimant'
  <1>1. call \in [Calls -> Call] /\ told \in [Previews -> Answers]
    BY DEF SafetyInv, TypeOK
  <1>2. CallOK(call[c]) /\ Of(c) \in Previews
    BY DEF SafetyInv, CallInv, CallOK, PostClaim, Unsent, Answered, Of
  <1>3. /\ call' = [call EXCEPT ![c] = Idle]
        /\ told' = [told EXCEPT ![Of(c)] = a]
    BY DEF Tell, Return
  <1>4. ASSUME NEW d \in Calls
        PROVE  CallOK(call[d])'
    <2>1. CASE d = c
      BY <1>1, <1>3, <2>1 DEF Idle, CallOK, PreClaim, PostClaim, Unsent, Answered
    <2>2. CASE d # c
      <3>1. call'[d] = call[d] /\ CallOK(call[d])
        BY <1>1, <1>3, <2>2 DEF SafetyInv, CallInv
      <3>2. call[d].pc \in PostClaim => call[d].preview # Of(c)
        BY <2>2 DEF SafetyInv, OneClaimant, Of
      <3>3. call[d].pc \in PostClaim => told'[call[d].preview] = told[call[d].preview]
        BY <1>1, <1>3, <3>1, <3>2 DEF CallOK, PostClaim, Unsent, Answered
      <3>4. QED
        BY <3>1, <3>3 DEF CallOK, writeVars
    <2>3. QED
      BY <2>1, <2>2
  <1>5. ASSUME NEW p \in Previews
        PROVE  RowOK(p)'
    BY <1>1, <1>2, <1>3 DEF SafetyInv, RowInv, RowOK, CallOK, Exists, writeVars, Of, Answers
  <1>6. OneClaimant'
    BY <1>1, <1>3 DEF SafetyInv, OneClaimant, Of, Idle, PostClaim, Unsent, Answered
  <1>7. QED
    BY <1>4, <1>5, <1>6 DEF CallInv, RowInv

\* The steps after the consumption that end in an answer or go on.
LEMMA ClaimantSteps ==
  ASSUME SafetyInv, NEW c \in Calls,
         \/ Blocked(c) \/ CheckKey(c) \/ PreRead(c) \/ PreCheck(c) \/ MutateSettles(c)
         \/ List(c) \/ Reread(c) \/ Record(c)
  PROVE  CallInv' /\ RowInv' /\ OneClaimant'
  <1> DEFINE p == Of(c)
             Goal == CallInv' /\ RowInv' /\ OneClaimant'
  <1> USE DEF Steps, Answers
  <1>1. /\ call \in [Calls -> Call] /\ call[c] \in Call /\ campaign \in State
        /\ CallOK(call[c])
    BY DEF SafetyInv, TypeOK, CallInv
  <1>2. /\ UNCHANGED <<plan, confirmed, consumed, writeVars>>
        /\ call[c].pc \in PostClaim
        /\ p \in Previews /\ p \in confirmed /\ p \in consumed /\ told[p] = "none"
    BY <1>1 DEF Blocked, CheckKey, PreRead, PreCheck, MutateSettles, List, Reread, Record,
       At, Of, CallOK, PostClaim, Unsent, Answered, rowVars
  <1>3. ASSUME NEW step \in PostClaim, Go(c, step), told' = told,
               step \in Unsent => call[c].pc \in Unsent,
               step \in Answered => p \in applied,
               step = "send" /\ Policy[p] = "controlled" =>
                 /\ call[c].seen = [name |-> plan[p].before, paused |-> TRUE]
                 /\ call[c].seen.name # plan[p].after
        PROVE  Goal
    <2> DEFINE k == [call[c] EXCEPT !.pc = step]
    <2>1. /\ k \in Call /\ call' = [call EXCEPT ![c] = k]
          /\ k.pc = step /\ k.preview = p /\ k.seen = call[c].seen
      BY <1>1, <1>3 DEF Go, Call, PostClaim, Unsent, Answered, Of
    <2>2. CallOK(k)
      BY <1>1, <1>2, <1>3, <2>1 DEF CallOK, Of, PostClaim, Unsent, Answered
    <2> HIDE DEF k
    <2>3. QED
      BY <1>2, <1>3, <2>1, <2>2, CallAlone
  <1>4. ASSUME NEW step \in PostClaim, See(c, step), told' = told,
               step # "send",
               step \in Unsent => call[c].pc \in Unsent,
               step \in Answered => p \in applied
        PROVE  Goal
    <2> DEFINE k == [call[c] EXCEPT !.pc = step, !.seen = campaign]
    <2>1. /\ k \in Call /\ call' = [call EXCEPT ![c] = k]
          /\ k.pc = step /\ k.preview = p
      BY <1>1, <1>4 DEF See, Call, PostClaim, Unsent, Answered, Of
    <2>2. CallOK(k)
      BY <1>1, <1>2, <1>4, <2>1 DEF CallOK, Of, PostClaim, Unsent, Answered
    <2> HIDE DEF k
    <2>3. QED
      BY <1>2, <1>4, <2>1, <2>2, CallAlone
  <1>5. ASSUME NEW a \in {"blocked", "already", "committed", "unverified", "failed"}, Tell(c, a),
               a \in {"blocked", "already"} => call[c].pc \in Unsent,
               a = "committed" => p \in applied
        PROVE  Goal
    BY <1>1, <1>2, <1>5, CallTells DEF CallOK, Of
  <1>6. CASE Blocked(c)
    BY <1>5, <1>6 DEF Blocked, At, Unsent
  <1>7. CASE CheckKey(c)
    BY <1>3, <1>5, <1>7 DEF CheckKey, At, Unsent, PostClaim, Answered
  <1>8. CASE PreRead(c)
    BY <1>4, <1>5, <1>8 DEF PreRead, At, Unsent, PostClaim, Answered
  <1>9. CASE PreCheck(c)
    <2>1. call[c].seen \in State
      BY <1>1 DEF Call
    <2>2. Policy[p] = "controlled" /\ Unchanged(p, call[c].seen) =>
            call[c].seen = [name |-> plan[p].before, paused |-> TRUE]
      BY <2>1 DEF Unchanged, State
    <2>3. Policy[p] = "controlled" /\ Unchanged(p, call[c].seen) =>
            call[c].seen.name = plan[p].before
      BY <2>1 DEF Unchanged, State
    <2>4. \/ Tell(c, "failed") \/ Tell(c, "blocked") \/ Tell(c, "already")
          \/ /\ Go(c, "send") /\ told' = told
             /\ Unchanged(p, call[c].seen) /\ call[c].seen.name # plan[p].after
      BY <1>9 DEF PreCheck
    <2>5. call[c].pc \in Unsent
      BY <1>9 DEF PreCheck, At, Unsent
    <2>6. QED
      BY <1>3, <1>5, <2>2, <2>4, <2>5 DEF PostClaim, Unsent, Answered
  <1>10. CASE MutateSettles(c)
    BY <1>3, <1>5, <1>10 DEF MutateSettles, Accepted, At, Unsent, PostClaim, Answered
  <1>11. CASE List(c)
    <2>1. p \in applied
      BY <1>1, <1>11 DEF List, At, CallOK, Answered, Of
    <2>2. QED
      BY <1>3, <1>5, <1>11, <2>1 DEF List, At, Unsent, PostClaim, Answered
  <1>12. CASE Reread(c)
    <2>1. p \in applied
      BY <1>1, <1>12 DEF Reread, At, CallOK, Answered, Of
    <2>2. QED
      BY <1>4, <1>5, <1>12, <2>1 DEF Reread, At, Unsent, PostClaim, Answered
  <1>13. CASE Record(c)
    <2>1. p \in applied
      BY <1>1, <1>13 DEF Record, At, CallOK, Answered, Of
    <2>2. QED
      BY <1>5, <1>13, <2>1 DEF Record
  <1>14. QED
    BY <1>6, <1>7, <1>8, <1>9, <1>10, <1>11, <1>12, <1>13

\* The steps before the consumption, and a call that dies.
LEMMA EarlySteps ==
  ASSUME SafetyInv, NEW c \in Calls,
         \/ \E p \in Previews : ConfirmFind(c, p) \/ CommitFind(c, p)
         \/ ConfirmRecheck(c) \/ CommitAccount(c) \/ Die(c)
  PROVE  CallInv' /\ RowInv' /\ OneClaimant'
  <1> DEFINE Goal == CallInv' /\ RowInv' /\ OneClaimant'
  <1> USE DEF Steps, PreClaim, PostClaim, Unsent, Answered
  <1>1. /\ call \in [Calls -> Call] /\ call[c] \in Call /\ Idle \in Call
        /\ CallOK(call[c]) /\ CallOK(Idle)
    BY Moves DEF SafetyInv, TypeOK, CallInv, Idle, CallOK
  <1>2. UNCHANGED <<plan, confirmed, consumed, writeVars, told>>
    BY DEF ConfirmFind, CommitFind, ConfirmRecheck, CommitAccount, Die, rowVars
  <1>3. CASE Return(c)
    BY <1>1, <1>2, <1>3, CallAlone DEF Return, Idle
  <1>4. ASSUME NEW p \in Previews, NEW step \in {"confirm", "account"}, Begin(c, step, p),
               step = "account" => p \in confirmed
        PROVE  Goal
    <2> DEFINE k == [call[c] EXCEPT !.pc = step, !.preview = p]
    <2>1. /\ k \in Call /\ call' = [call EXCEPT ![c] = k]
          /\ k.pc = step /\ k.preview = p
      BY <1>1, <1>4 DEF Begin, Call
    <2>2. CallOK(k)
      BY <1>4, <2>1 DEF CallOK
    <2> HIDE DEF k
    <2>3. QED
      BY <1>2, <1>4, <2>1, <2>2, CallAlone
  <1>5. CASE CommitAccount(c) /\ Go(c, "consume")
    <2> DEFINE k == [call[c] EXCEPT !.pc = "consume"]
    <2>1. /\ k \in Call /\ call' = [call EXCEPT ![c] = k]
          /\ k.pc = "consume" /\ k.preview = call[c].preview
      BY <1>1, <1>5 DEF Go, Call
    <2>2. CallOK(k)
      BY <1>1, <1>5, <2>1 DEF CallOK, CommitAccount, At
    <2> HIDE DEF k
    <2>3. QED
      BY <1>2, <2>1, <2>2, CallAlone
  <1>6. QED
    BY <1>3, <1>4, <1>5 DEF ConfirmFind, CommitFind, Committable, ConfirmRecheck,
       CommitAccount, Die

\* The one consumption: no other call is past it.
LEMMA ConsumeStep ==
  ASSUME SafetyInv, NEW c \in Calls, Consume(c)
  PROVE  CallInv' /\ RowInv' /\ OneClaimant'
  <1> DEFINE p == Of(c)
  <1> USE DEF Steps, PreClaim, PostClaim, Unsent, Answered
  <1>1. /\ call \in [Calls -> Call] /\ call[c] \in Call /\ Idle \in Call
        /\ CallOK(call[c]) /\ CallOK(Idle)
    BY Moves DEF SafetyInv, TypeOK, CallInv, Idle, CallOK
  <1>2. /\ UNCHANGED <<plan, confirmed, writeVars, told>>
        /\ p \in Previews /\ p \in confirmed
    BY <1>1 DEF Consume, At, CallOK, Of, rowVars
  <1>3. CASE Unspent(p)
    <2>1. FirstStep(p) \in {"blocked", "send", "preread", "key"}
          /\ (FirstStep(p) = "send" => Policy[p] # "controlled")
      BY <1>2, ServicePreviewAssumption DEF FirstStep, Policies
    <2>2. PICK k \in Call :
            /\ call' = [call EXCEPT ![c] = k] /\ consumed' = consumed \cup {p}
            /\ k.pc = FirstStep(p) /\ k.preview = p
      <3>1. [call[c] EXCEPT !.pc = FirstStep(p)] \in Call
        BY <1>1, <2>1 DEF Call
      <3>2. QED
        BY <1>1, <1>3, <3>1 DEF Consume, Go, Call, Of
    <2>3. p \notin consumed /\ sent[p] = 0 /\ told[p] = "none"
      BY <1>2, <1>3 DEF Unspent, SafetyInv, RowInv, RowOK, TypeOK
    <2>4. CallOK(k)'
      BY <1>2, <2>1, <2>2, <2>3 DEF CallOK, writeVars
    <2>5. ASSUME NEW d \in Calls \ {c}
          PROVE  CallOK(call[d])'
      BY <1>1, <1>2, <2>2 DEF SafetyInv, CallInv, CallOK, writeVars
    <2>6. CallInv'
      BY <1>1, <2>2, <2>4, <2>5 DEF CallInv
    <2>7. RowInv'
      BY <1>2, <2>2, <2>3 DEF SafetyInv, RowInv, RowOK, Exists, writeVars
    <2>8. \A d \in Calls : call[d].pc \in PostClaim => Of(d) # p
      BY <2>3 DEF SafetyInv, CallInv, CallOK, Of
    <2>9. OneClaimant'
      BY <1>1, <2>2, <2>8 DEF SafetyInv, OneClaimant, Of
    <2>10. QED
      BY <2>6, <2>7, <2>9
  <1>4. CASE ~ Unspent(p)
    BY <1>1, <1>2, <1>4, CallAlone DEF Consume, Return, Idle
  <1>5. QED
    BY <1>3, <1>4

\* The one mutation request.
LEMMA SendStep ==
  ASSUME SafetyInv, NEW c \in Calls, Send(c)
  PROVE  CallInv' /\ RowInv' /\ OneClaimant'
  <1> DEFINE p == Of(c)
  <1> USE DEF Steps, PreClaim, PostClaim, Unsent, Answered
  <1>1. /\ call \in [Calls -> Call] /\ call[c] \in Call /\ CallOK(call[c])
    BY DEF SafetyInv, TypeOK, CallInv
  <1>2. /\ UNCHANGED <<plan, confirmed, consumed>> /\ call[c].pc = "send"
        /\ p \in Previews /\ p \in confirmed /\ p \in consumed
        /\ told[p] = "none" /\ sent[p] = 0
    BY <1>1 DEF Send, At, CallOK, Of, rowVars
  <1>3. CASE Go(c, "await") /\ told' = told /\ applied' = applied
             /\ sent' = [sent EXCEPT ![p] = @ + 1] /\ inflight' = inflight \cup {p}
    <2>1. PICK k \in Call :
            call' = [call EXCEPT ![c] = k] /\ k.pc = "await" /\ k.preview = p
      <3>1. [call[c] EXCEPT !.pc = "await"] \in Call
        BY <1>1 DEF Call
      <3>2. QED
        BY <1>1, <1>3, <3>1 DEF Go, Call, Of
    <2>2. CallOK(k)'
      BY <1>2, <1>3, <2>1 DEF CallOK
    <2>3. ASSUME NEW d \in Calls \ {c}
          PROVE  CallOK(call[d])'
      <3>1. call'[d] = call[d] /\ CallOK(call[d])
        BY <1>1, <2>1 DEF SafetyInv, CallInv
      <3>2. call[d].pc \in PostClaim => call[d].preview # p
        BY <1>2 DEF SafetyInv, OneClaimant, Of
      <3>3. call[d].pc \in Unsent => sent'[call[d].preview] = sent[call[d].preview]
        BY <1>3, <3>1, <3>2 DEF SafetyInv, TypeOK, CallOK
      <3>4. QED
        BY <1>2, <1>3, <3>1, <3>3 DEF CallOK
    <2>4. CallInv'
      BY <1>1, <2>1, <2>2, <2>3 DEF CallInv
    <2>5. RowInv'
      BY <1>2, <1>3 DEF SafetyInv, TypeOK, RowInv, RowOK, Exists
    <2>6. OneClaimant'
      BY <1>1, <1>2, <2>1 DEF SafetyInv, OneClaimant, Of
    <2>7. QED
      BY <2>4, <2>5, <2>6
  <1>4. CASE Tell(c, "failed") /\ UNCHANGED writeVars
    BY <1>2, <1>4, CallTells DEF Answers
  <1>5. QED
    BY <1>3, <1>4 DEF Send

LEMMA SafetyStep == SafetyInv /\ [Next]_vars => SafetyInv'
  <1> SUFFICES ASSUME SafetyInv, [Next]_vars
               PROVE  CallInv' /\ RowInv' /\ OneClaimant'
    BY TypeStep DEF SafetyInv
  <1> DEFINE Goal == CallInv' /\ RowInv' /\ OneClaimant'
  <1>0. TypeOK /\ CallInv /\ RowInv /\ OneClaimant
    BY DEF SafetyInv
  <1>1. ASSUME NEW p \in Previews, NEW n \in Names, Create(p, n)
        PROVE  Goal
    <2>1. /\ p \notin confirmed /\ \A q \in Previews \ {p} : plan'[q] = plan[q]
          /\ plan'[p].after = n
          /\ UNCHANGED <<confirmed, consumed, call, writeVars, told>>
      BY <1>0, <1>1 DEF Create, RowInv, RowOK, TypeOK
    <2>2. CallInv'
      BY <1>0, <2>1 DEF CallInv, CallOK, PreClaim, PostClaim, Unsent, Answered, writeVars
    <2>3. RowInv'
      BY <1>0, <2>1 DEF RowInv, RowOK, Exists, writeVars
    <2>4. QED
      BY <1>0, <2>1, <2>2, <2>3 DEF OneClaimant, Of
  <1>2. ASSUME NEW c \in Calls, Confirm(c)
        PROVE  Goal
    <2>1. /\ call \in [Calls -> Call] /\ Idle \in Call /\ CallOK(Idle)
      BY <1>0, Moves DEF TypeOK, CallOK, Idle, PreClaim, PostClaim, Unsent, Answered
    <2>2. CASE Confirmable(Of(c))
      <3>1. /\ call' = [call EXCEPT ![c] = Idle] /\ confirmed' = confirmed \cup {Of(c)}
            /\ UNCHANGED <<plan, consumed, writeVars, told>> /\ Exists(Of(c))
        BY <1>2, <2>2 DEF Confirm, Return, Confirmable, Open
      <3>2. CallInv'
        BY <1>0, <2>1, <3>1 DEF CallInv, CallOK, Idle, PreClaim, PostClaim, Unsent, Answered,
           writeVars
      <3>3. RowInv'
        BY <1>0, <3>1 DEF RowInv, RowOK, Exists, writeVars
      <3>4. OneClaimant'
        BY <1>0, <2>1, <3>1 DEF OneClaimant, Of, Idle, PostClaim, Unsent, Answered
      <3>5. QED
        BY <3>2, <3>3, <3>4
    <2>3. CASE ~ Confirmable(Of(c))
      <3> DEFINE k == [call[c] EXCEPT !.pc = "recheck"]
      <3>1. /\ k \in Call /\ call' = [call EXCEPT ![c] = k]
            /\ k.pc = "recheck" /\ k.preview = call[c].preview
            /\ UNCHANGED <<plan, confirmed, consumed, writeVars, told>>
        BY <1>2, <2>1, <2>3 DEF Confirm, Go, Call, Steps
      <3>2. CallOK(k)
        BY <1>0, <1>2, <3>1 DEF CallInv, CallOK, Confirm, At, PreClaim, PostClaim, Unsent,
           Answered
      <3> HIDE DEF k
      <3>3. QED
        BY <3>1, <3>2, CallAlone DEF PostClaim, Unsent, Answered
    <2>4. QED
      BY <2>2, <2>3
  <1>3. ASSUME NEW p \in Previews, ProviderApplies(p) \/ ProviderDrops(p)
        PROVE  Goal
    <2>1. /\ UNCHANGED <<plan, confirmed, consumed, call, sent, told>>
          /\ inflight' \subseteq inflight /\ applied \subseteq applied'
      BY <1>3 DEF ProviderApplies, ProviderDrops, rowVars
    <2>2. QED
      BY <1>0, <2>1 DEF CallInv, CallOK, RowInv, RowOK, Exists, OneClaimant, Of
  <1>4. ASSUME UNCHANGED <<plan, confirmed, consumed, call, writeVars, told>>
        PROVE  Goal
    BY <1>0, <1>4 DEF CallInv, CallOK, RowInv, RowOK, Exists, OneClaimant, Of, writeVars
  <1>5. ASSUME (\E p \in Previews : Expire(p)) \/ (\E st \in State : ExternalEdit(st))
               \/ AccountChanges \/ KeyRevoked \/ UNCHANGED vars
        PROVE  Goal
    BY <1>4, <1>5 DEF Expire, ExternalEdit, AccountChanges, KeyRevoked, vars, rowVars
  <1>6. ASSUME NEW c \in Calls, Step(c) \/ Die(c)
        PROVE  Goal
    BY <1>2, <1>6, EarlySteps, ConsumeStep, SendStep, ClaimantSteps DEF Step
  <1>7. QED
    BY <1>1, <1>3, <1>5, <1>6, EarlySteps DEF Next

LEMMA SafetyInit == Init => SafetyInv
  BY ServicePreviewAssumption
     DEF Init, SafetyInv, TypeOK, CallInv, RowInv, OneClaimant, CallOK, RowOK, Exists, Of, Idle,
         NoPlan, Plan, State, Call, Steps, Answers, PreClaim, PostClaim, Unsent, Answered

\* The invariant holds in every state of every behaviour.
THEOREM SafetyInvariant == Spec => []SafetyInv
  BY SafetyInit, SafetyStep, PTL DEF Spec

\* Every variable keeps its type.
THEOREM TypeCorrect == Spec => []TypeOK
  <1>1. SafetyInv => TypeOK
    BY DEF SafetyInv
  <1>2. QED
    BY <1>1, SafetyInvariant, PTL

\* "committed" is only answered of a change that Meta carried out.
THEOREM CommittedApplied == Spec => []CommittedIsApplied
  <1>1. SafetyInv => CommittedIsApplied
    BY DEF SafetyInv, RowInv, RowOK, CommittedIsApplied
  <1>2. QED
    BY <1>1, SafetyInvariant, PTL

\* A preview that was answered as blocked or already applied is never sent.
THEOREM BlockedUntouched == Spec => []BlockedIsUntouched
  <1>1. SafetyInv => BlockedIsUntouched
    BY DEF SafetyInv, RowInv, RowOK, BlockedIsUntouched
  <1>2. QED
    BY <1>1, SafetyInvariant, PTL

\* A controlled rename only replaces the name its preview showed.
THEOREM WritesShown == Spec => []WritesWhatWasShown
  <1>1. SafetyInv => WritesWhatWasShown
    BY DEF SafetyInv, CallInv, CallOK, WritesWhatWasShown, At, Of, PostClaim, Unsent
  <1>2. QED
    BY <1>1, SafetyInvariant, PTL
-----------------------------------------------------------------------------
(* The refinement of OneShotWrite *)

phase == [p \in Previews |-> PhaseOf(p)]

Same(p) ==
  /\ plan'[p] = plan[p]
  /\ (p \in confirmed') = (p \in confirmed)
  /\ (p \in consumed') = (p \in consumed)
  /\ sent'[p] = sent[p]

\* Only the phase of p moves when only p's row and requests do.
LEMMA PhaseMove ==
  ASSUME NEW p \in Previews, \A q \in Previews \ {p} : Same(q)
  PROVE  phase' = [phase EXCEPT ![p] = PhaseOf(p)'] /\ phase[p] = PhaseOf(p)
  <1>1. \A q \in Previews \ {p} : PhaseOf(q)' = PhaseOf(q)
    BY DEF Same, PhaseOf, Exists
  <1>2. QED
    BY <1>1 DEF phase

LEMMA PhaseStays ==
  ASSUME \A q \in Previews : Same(q)
  PROVE  phase' = phase
  <1>1. \A q \in Previews : PhaseOf(q)' = PhaseOf(q)
    BY DEF Same, PhaseOf, Exists
  <1>2. QED
    BY <1>1 DEF phase

\* Every step of the previews is a step of one-shot writes, or none.
LEMMA RefinementStep ==
  ASSUME SafetyInv, [Next]_vars
  PROVE  OneShot!OneShotNext \/ (phase' = phase /\ sent' = sent)
  <1> DEFINE Goal == OneShot!OneShotNext \/ (phase' = phase /\ sent' = sent)
  <1>0. TypeOK /\ CallInv /\ RowInv
    BY DEF SafetyInv
  <1>1. ASSUME UNCHANGED <<plan, confirmed, consumed, sent>>
        PROVE  Goal
    BY <1>1, PhaseStays DEF Same
  <1>2. ASSUME NEW p \in Previews, NEW n \in Names, Create(p, n)
        PROVE  Goal
    <2>1. /\ \A q \in Previews \ {p} : Same(q)
          /\ sent' = sent /\ ~ Exists(p) /\ plan'[p].after = n
          /\ UNCHANGED <<confirmed, consumed>>
      BY <1>0, <1>2 DEF Create, Same, TypeOK, writeVars
    <2>2. Exists(p)' /\ p \notin confirmed /\ p \notin consumed /\ sent[p] = 0
      BY <1>0, <2>1, ServicePreviewAssumption DEF Exists, NoPlan, RowInv, RowOK, TypeOK
    <2>3. PhaseOf(p) = "none" /\ PhaseOf(p)' = "pending"
      BY <2>1, <2>2 DEF PhaseOf
    <2>4. OneShot!Offer(p)
      BY <2>1, <2>3, PhaseMove DEF OneShot!Offer, OneShot!Move, phase
    <2>5. QED
      BY <2>4 DEF OneShot!OneShotNext
  <1>3. ASSUME NEW c \in Calls, Confirm(c)
        PROVE  Goal
    <2>0. PICK p \in Previews : p = Of(c)
      BY <1>0, <1>3 DEF CallInv, CallOK, Of, Confirm, At
    <2>1. CASE Confirmable(p)
      <3>1. /\ p \in Previews /\ sent' = sent /\ confirmed' = confirmed \cup {p}
            /\ UNCHANGED <<plan, consumed>>
        BY <1>0, <1>3, <2>0, <2>1 DEF Confirm, CallInv, CallOK, At, Of, writeVars
      <3>2. /\ p \notin confirmed /\ p \notin consumed /\ Exists(p) /\ sent[p] = 0
        BY <1>0, <2>0, <2>1, <3>1 DEF Confirmable, Open, RowInv, RowOK, TypeOK
      <3>3. PhaseOf(p) = "pending" /\ PhaseOf(p)' = "approved"
        BY <3>1, <3>2 DEF PhaseOf, Exists
      <3>4. \A q \in Previews \ {p} : Same(q)
        BY <3>1 DEF Same
      <3>5. OneShot!Approve(p)
        BY <3>1, <3>3, <3>4, PhaseMove DEF OneShot!Approve, OneShot!Move, phase
      <3>6. QED
        BY <3>1, <3>5 DEF OneShot!OneShotNext
    <2>2. CASE ~ Confirmable(p)
      BY <1>1, <1>3, <2>0, <2>2 DEF Confirm, writeVars
    <2>3. QED
      BY <2>1, <2>2
  <1>4. ASSUME NEW c \in Calls, Consume(c)
        PROVE  Goal
    <2>0. PICK p \in Previews : p = Of(c)
      BY <1>0, <1>4 DEF CallInv, CallOK, Of, Consume, At
    <2>1. CASE Unspent(p)
      <3>1. /\ p \in Previews /\ p \in confirmed /\ sent' = sent
            /\ consumed' = consumed \cup {p} /\ UNCHANGED <<plan, confirmed>>
        BY <1>0, <1>4, <2>0, <2>1 DEF Consume, CallInv, CallOK, At, Of, PreClaim, writeVars
      <3>2. /\ p \notin consumed /\ Exists(p) /\ sent[p] = 0
        BY <1>0, <2>1, <3>1 DEF Unspent, RowInv, RowOK, TypeOK
      <3>3. PhaseOf(p) = "approved" /\ PhaseOf(p)' = "claimed"
        BY <3>1, <3>2 DEF PhaseOf, Exists
      <3>4. \A q \in Previews \ {p} : Same(q)
        BY <3>1 DEF Same
      <3>5. OneShot!Claim(p)
        BY <3>1, <3>3, <3>4, PhaseMove DEF OneShot!Claim, OneShot!Move, phase
      <3>6. QED
        BY <3>1, <3>5 DEF OneShot!OneShotNext
    <2>2. CASE ~ Unspent(p)
      BY <1>1, <1>4, <2>0, <2>2 DEF Consume, writeVars
    <2>3. QED
      BY <2>1, <2>2
  <1>5. ASSUME NEW c \in Calls, Send(c)
        PROVE  Goal
    <2>0. PICK p \in Previews : p = Of(c)
      BY <1>0, <1>5 DEF CallInv, CallOK, Of, Send, At
    <2>1. CASE sent' = [sent EXCEPT ![p] = @ + 1]
      <3>1. /\ p \in Previews /\ p \in consumed /\ sent[p] = 0
            /\ UNCHANGED <<plan, confirmed, consumed>>
        BY <1>0, <1>5, <2>0 DEF Send, CallInv, CallOK, At, Of, PostClaim, Unsent, rowVars
      <3>2. Exists(p) /\ sent'[p] = 1 /\ \A q \in Previews \ {p} : Same(q)
        BY <1>0, <2>1, <3>1 DEF RowInv, RowOK, TypeOK, Same
      <3>3. PhaseOf(p) = "claimed" /\ PhaseOf(p)' = "written"
        BY <3>1, <3>2 DEF PhaseOf, Exists
      <3>4. OneShot!Write(p)
        BY <2>1, <3>1, <3>2, <3>3, PhaseMove DEF OneShot!Write, OneShot!Move, phase
      <3>5. QED
        BY <3>1, <3>4 DEF OneShot!OneShotNext
    <2>2. CASE UNCHANGED writeVars
      BY <1>1, <1>5, <2>2 DEF Send, rowVars, writeVars
    <2>3. QED
      BY <1>5, <2>0, <2>1, <2>2 DEF Send
  <1>6. ASSUME NEW c \in Calls,
               \/ ConfirmRecheck(c) \/ CommitAccount(c) \/ Blocked(c) \/ CheckKey(c)
               \/ PreRead(c) \/ PreCheck(c) \/ MutateSettles(c) \/ List(c) \/ Reread(c)
               \/ Record(c) \/ Die(c)
        PROVE  Goal
    BY <1>1, <1>6 DEF ConfirmRecheck, CommitAccount, Blocked, CheckKey, PreRead, PreCheck,
       MutateSettles, List, Reread, Record, Die, rowVars, writeVars
  <1>7. ASSUME \/ \E c \in Calls, p \in Previews : ConfirmFind(c, p) \/ CommitFind(c, p)
               \/ \E p \in Previews : ProviderApplies(p) \/ ProviderDrops(p) \/ Expire(p)
               \/ \E st \in State : ExternalEdit(st)
               \/ AccountChanges \/ KeyRevoked \/ UNCHANGED vars
        PROVE  Goal
    BY <1>1, <1>7 DEF ConfirmFind, CommitFind, ProviderApplies, ProviderDrops, Expire,
       ExternalEdit, AccountChanges, KeyRevoked, vars, rowVars, writeVars
  <1>8. QED
    BY <1>2, <1>3, <1>4, <1>5, <1>6, <1>7 DEF Next, Step

\* The previews of service tokens implement one-shot writes.
THEOREM RefinesOneShot == Spec => ImplementsOneShot
  <1>1. Init => OneShot!OneShotInit
    <2> SUFFICES ASSUME Init
                 PROVE  OneShot!OneShotInit
      OBVIOUS
    <2>1. \A p \in Previews : PhaseOf(p) = "none"
      BY DEF Init, PhaseOf, Exists
    <2>2. QED
      BY <2>1 DEF Init, OneShot!OneShotInit
  <1>2. SafetyInv /\ [Next]_vars => [OneShot!OneShotNext]_(OneShot!oneShotVars)
    BY RefinementStep DEF OneShot!oneShotVars, phase
  <1>3. QED
    BY <1>1, <1>2, SafetyInvariant, PTL DEF Spec, ImplementsOneShot, OneShot!OneShotSpec
=============================================================================
