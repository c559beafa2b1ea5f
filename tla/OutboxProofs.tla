---------------------------- MODULE OutboxProofs ----------------------------
(***************************************************************************)
(* Machine-checked proofs about Outbox, for every set of rows, intents and *)
(* workers, every attempt budget and every batch size.                     *)
(***************************************************************************)
EXTENDS Outbox, FiniteSetTheorems, TLAPS

(***************************************************************************)
(* The inductive invariant.  A row is judged by its status: an absent one  *)
(* is blank, a pending one was never claimed, a leased one is held by the  *)
(* newest token.  Isolation can only be kept because an isolated row never *)
(* leaves pending, and the budget because attempts count the tokens.       *)
(***************************************************************************)
RowShape(i) ==
  /\ attempts[i] = minted[i]
  /\ status[i] \in {"absent", "pending"} => attempts[i] = 0
  /\ status[i] = "absent" => i \notin isolated
  /\ status[i] # "absent" => intent[i] \in Intents /\ intent[i].id = i
  /\ status[i] \in {"leased", "retryableFailed", "sent", "deadLetter"} => attempts[i] > 0
  /\ status[i] = "leased" => lease[i] = minted[i]
  /\ i \in isolated => status[i] = "pending"

RowsShaped == \A i \in Ids : RowShape(i)

KeysUnique == \A i, j \in Rows : intent[i].key = intent[j].key => i = j

TokensMinted ==
  /\ \A w \in Workers, i \in Ids :
       item[w][i].stage # "idle" => item[w][i].token \in 1 .. minted[i]
  /\ \A c \in asked : c[2] \in 1 .. minted[c[1]]

ResultsSound ==
  \A w \in Workers, i \in Ids :
    item[w][i].result = "ok" => <<i, item[w][i].token>> \in accepted

IndInv ==
  /\ TypeOK
  /\ RowsShaped
  /\ KeysUnique
  /\ TokensMinted
  /\ ResultsSound
  /\ SentOnlyIfAccepted
  /\ NoPrematureDeadLetter

-----------------------------------------------------------------------------

LEMMA InitEstablishes == Init => IndInv
  BY MaxAttemptsAssumption
  DEF Init, IndInv, TypeOK, RowsShaped, RowShape, KeysUnique, Rows, TokensMinted,
      ResultsSound, SentOnlyIfAccepted, NoPrematureDeadLetter, Idle, Item, Statuses,
      Results, Errors, Failures

\* Enqueue adds one blank row whose key no row has.
LEMMA EnqueuePreserves ==
  ASSUME IndInv, NEW it \in Intents, NEW isolate \in BOOLEAN, Enqueue(it, isolate)
  PROVE  IndInv'
<1> DEFINE i == it.id
<1>1. i \in Ids /\ i \notin Rows
  BY IntentsAssumption DEF Enqueue, Enqueueable
<1>2. TypeOK'
  BY <1>1 DEF IndInv, TypeOK, Enqueue, Statuses, providerVars
<1>3. RowsShaped'
  BY <1>1 DEF IndInv, TypeOK, RowsShaped, RowShape, Enqueue, Rows
<1>4. KeysUnique'
  BY <1>1 DEF IndInv, TypeOK, KeysUnique, Enqueue, Enqueueable, Rows
<1>5. TokensMinted' /\ ResultsSound'
  BY DEF IndInv, TokensMinted, ResultsSound, Enqueue, providerVars
<1>6. SentOnlyIfAccepted' /\ NoPrematureDeadLetter'
  BY <1>1 DEF IndInv, TypeOK, SentOnlyIfAccepted, NoPrematureDeadLetter, Enqueue,
              providerVars
<1> QED
  BY <1>2, <1>3, <1>4, <1>5, <1>6 DEF IndInv

\* What a claim may select: final rows are spent leases, batch rows have attempts left and
\* are not isolated, so no row is in both.
LEMMA ClaimSelection ==
  ASSUME IndInv, NEW w \in Workers, NEW final \in SUBSET Ids, NEW batch \in SUBSET Ids,
         Claim(w, final, batch)
  PROVE  /\ \A i \in final : i \in due /\ status[i] = "leased" /\ attempts[i] = MaxAttempts
         /\ \A i \in batch : /\ i \in due /\ i \notin isolated
                             /\ status[i] \in {"pending", "retryableFailed", "leased"}
                             /\ attempts[i] < MaxAttempts
         /\ final \cap batch = {}
<1>1. final \subseteq ExpiredFinal /\ batch \subseteq Eligible
  BY DEF Claim, TakenFrom
<1>2. \A i \in batch : attempts[i] < MaxAttempts
  BY <1>1, MaxAttemptsAssumption DEF Eligible, IndInv, TypeOK
<1> QED
  BY <1>1, <1>2, MaxAttemptsAssumption DEF ExpiredFinal, Eligible, IndInv, TypeOK

LEMMA ClaimPreserves ==
  ASSUME IndInv, NEW w \in Workers, NEW final \in SUBSET Ids, NEW batch \in SUBSET Ids,
         Claim(w, final, batch)
  PROVE  IndInv'
<1>1. /\ \A i \in final : status[i] = "leased" /\ attempts[i] = MaxAttempts
      /\ \A i \in batch : /\ i \notin isolated
                          /\ status[i] \in {"pending", "retryableFailed", "leased"}
                          /\ attempts[i] < MaxAttempts
      /\ final \cap batch = {}
  BY ClaimSelection
<1>0. \A i \in Ids : /\ minted[i] \in Nat /\ attempts[i] \in Nat /\ lease[i] \in Nat
                    /\ minted[i] + 1 \in Nat /\ attempts[i] + 1 \in Nat
  BY DEF IndInv, TypeOK
<1>2. TypeOK'
  <2>1. status' \in [Ids -> Statuses] /\ lastError' \in [Ids -> Errors]
    BY DEF IndInv, TypeOK, Claim, Statuses, Errors
  <2>2. /\ attempts' \in [Ids -> 0 .. MaxAttempts] /\ minted' \in [Ids -> Nat] /\ lease' \in [Ids -> Nat]
        /\ due' \subseteq Ids
    <3>1. \A i \in batch : attempts[i] + 1 \in 0 .. MaxAttempts
      BY <1>0, <1>1, MaxAttemptsAssumption
    <3> QED
      BY <1>0, <3>1 DEF IndInv, TypeOK, Claim
  <2>3. item' \in [Workers -> [Ids -> Item]]
    <3>1. [i \in Ids |->
            IF i \in batch THEN [Idle EXCEPT !.stage = "claimed", !.token = minted[i] + 1]
                           ELSE Idle] \in [Ids -> Item]
      BY <1>0 DEF Item, Idle, Results
    <3> QED
      BY <3>1 DEF IndInv, TypeOK, Claim
  <2> QED
    BY <2>1, <2>2, <2>3 DEF IndInv, TypeOK, Claim, providerVars
<1>3. RowsShaped'
  <2> SUFFICES ASSUME NEW i \in Ids
               PROVE  RowShape(i)'
    BY DEF RowsShaped
  <2>1. RowShape(i) /\ minted[i] \in Nat /\ attempts[i] \in Nat
    BY <1>0 DEF IndInv, RowsShaped
  <2>2. UNCHANGED <<intent, isolated>>
    BY DEF Claim
  <2>3. CASE i \in batch
    <3>1. /\ status'[i] = "leased" /\ attempts'[i] = attempts[i] + 1
          /\ minted'[i] = minted[i] + 1 /\ lease'[i] = minted[i] + 1
      BY <1>1, <2>3 DEF Claim
    <3> QED
      BY <1>1, <2>1, <2>2, <2>3, <3>1, MaxAttemptsAssumption DEF RowShape
  <2>4. CASE i \in final
    <3>1. /\ status'[i] = "deadLetter" /\ attempts'[i] = attempts[i]
          /\ minted'[i] = minted[i]
      BY <1>1, <2>4 DEF Claim
    <3> QED
      BY <1>1, <2>1, <2>2, <2>4, <3>1 DEF RowShape
  <2>5. CASE i \notin batch \cup final
    <3>1. /\ status'[i] = status[i] /\ attempts'[i] = attempts[i]
          /\ minted'[i] = minted[i] /\ lease'[i] = lease[i]
      BY <2>5 DEF Claim
    <3> QED
      BY <2>1, <2>2, <3>1 DEF RowShape
  <2> QED
    BY <2>3, <2>4, <2>5
<1>4. KeysUnique'
  BY <1>1 DEF IndInv, TypeOK, KeysUnique, Claim, Rows
<1>5. TokensMinted'
  <2>1. \A i \in Ids : minted'[i] \in Nat /\ minted[i] \in Nat /\ minted[i] <= minted'[i]
    <3>1. minted' = [i \in Ids |-> IF i \in batch THEN minted[i] + 1 ELSE minted[i]]
      BY DEF Claim
    <3> QED
      BY <1>0, <3>1
  <2>2. ASSUME NEW v \in Workers, NEW i \in Ids, item'[v][i].stage # "idle"
        PROVE  item'[v][i].token \in 1 .. minted'[i]
    <3>1. CASE v = w
      <4>1. item'[v][i] = IF i \in batch
                          THEN [Idle EXCEPT !.stage = "claimed", !.token = minted[i] + 1]
                          ELSE Idle
        BY <3>1 DEF IndInv, TypeOK, Claim
      <4>2. i \in batch
        BY <2>2, <4>1 DEF Idle
      <4>3. item'[v][i].token = minted[i] + 1
        BY <4>1, <4>2 DEF Idle
      <4>4. minted'[i] = minted[i] + 1
        BY <4>2 DEF Claim
      <4> QED
        BY <1>0, <4>3, <4>4
    <3>2. CASE v # w
      <4>1. item'[v][i] = item[v][i]
        BY <3>2 DEF IndInv, TypeOK, Claim
      <4>2. item[v][i].token \in 1 .. minted[i]
        BY <2>2, <4>1 DEF IndInv, TokensMinted
      <4> QED
        BY <2>1, <4>1, <4>2
    <3> QED
      BY <3>1, <3>2
  <2>3. \A c \in asked : c[2] \in 1 .. minted'[c[1]]
    BY <2>1 DEF IndInv, TypeOK, TokensMinted
  <2> QED
    BY <2>2, <2>3 DEF TokensMinted, Claim, providerVars
<1>6. ResultsSound'
  BY DEF IndInv, TypeOK, ResultsSound, Claim, providerVars, Idle
<1>7. SentOnlyIfAccepted'
  BY <1>1 DEF IndInv, TypeOK, SentOnlyIfAccepted, Claim, providerVars
<1>8. NoPrematureDeadLetter'
  BY <1>1 DEF IndInv, TypeOK, NoPrematureDeadLetter, Claim
<1> QED
  BY <1>2, <1>3, <1>4, <1>5, <1>6, <1>7, <1>8 DEF IndInv

LEMMA SendPreserves ==
  ASSUME IndInv, NEW w \in Workers, NEW i \in Ids, Send(w, i)
  PROVE  IndInv'
<1>1. item[w][i].token \in 1 .. minted[i] /\ item[w][i].token \in Nat
  BY DEF IndInv, TypeOK, TokensMinted, Send, Item
<1>2. TypeOK'
  <2>0. item[w][i] \in Item
    BY DEF IndInv, TypeOK
  <2>1. [item[w][i] EXCEPT !.stage = "sending"] \in Item
    BY <2>0 DEF Item
  <2>2. item' \in [Workers -> [Ids -> Item]]
    BY <2>1 DEF IndInv, TypeOK, Send
  <2> QED
    BY <1>1, <2>2 DEF IndInv, TypeOK, Send, rowVars
<1>3. RowsShaped' /\ KeysUnique'
  BY DEF IndInv, RowsShaped, RowShape, KeysUnique, Rows, Send, rowVars
<1>4. TokensMinted'
  BY <1>1 DEF IndInv, TypeOK, TokensMinted, Send, rowVars, Item
<1>5. ResultsSound'
  BY DEF IndInv, TypeOK, ResultsSound, Send, Item
<1>6. SentOnlyIfAccepted' /\ NoPrematureDeadLetter'
  BY DEF IndInv, SentOnlyIfAccepted, NoPrematureDeadLetter, Send, rowVars
<1> QED
  BY <1>2, <1>3, <1>4, <1>5, <1>6 DEF IndInv

LEMMA ProviderPreserves ==
  ASSUME IndInv, NEW c \in asked,
         ProviderAccepts(c[1], c[2]) \/ ProviderRefuses(c[1], c[2])
  PROVE  IndInv'
<1>1. accepted \subseteq accepted'
  BY DEF ProviderAccepts, ProviderRefuses
<1>2. UNCHANGED <<rowVars, due, asked, item>>
  BY DEF ProviderAccepts, ProviderRefuses
<1>3. TypeOK'
  BY <1>2 DEF IndInv, TypeOK, ProviderAccepts, ProviderRefuses, rowVars
<1>4. RowsShaped' /\ KeysUnique' /\ TokensMinted' /\ NoPrematureDeadLetter'
  BY <1>2 DEF IndInv, RowsShaped, RowShape, KeysUnique, Rows, TokensMinted,
              NoPrematureDeadLetter, rowVars
<1>5. ResultsSound' /\ SentOnlyIfAccepted'
  BY <1>1, <1>2 DEF IndInv, ResultsSound, SentOnlyIfAccepted, rowVars
<1> QED
  BY <1>3, <1>4, <1>5 DEF IndInv

LEMMA RespondPreserves ==
  ASSUME IndInv, NEW w \in Workers, NEW i \in Ids, NEW result \in Results,
         NEW clockFault \in BOOLEAN, Respond(w, i, result, clockFault)
  PROVE  IndInv'
<1>1. result = "ok" => <<i, item[w][i].token>> \in accepted
  BY DEF Respond, DeliveryResults, Failures
<1> DEFINE answered == [item[w][i] EXCEPT !.stage = "settling", !.result = result,
                                          !.late = ~clockFault /\ i \in due]
<1>2. TypeOK'
  <2>1. item[w][i] \in Item
    BY DEF IndInv, TypeOK
  <2>2. answered \in Item
    <3>1. (~clockFault /\ i \in due) \in BOOLEAN
      OBVIOUS
    <3> QED
      BY <2>1, <3>1 DEF Item
  <2>3. item' \in [Workers -> [Ids -> Item]]
    BY <2>2 DEF IndInv, TypeOK, Respond
  <2> QED
    BY <2>3 DEF IndInv, TypeOK, Respond, rowVars, providerVars
<1>3. RowsShaped' /\ KeysUnique'
  BY DEF IndInv, RowsShaped, RowShape, KeysUnique, Rows, Respond, rowVars
<1>4. TokensMinted'
  BY DEF IndInv, TypeOK, TokensMinted, Respond, rowVars, providerVars, Item
<1>5. ResultsSound'
  <2>1. \A v \in Workers, j \in Ids :
          item'[v][j] = IF v = w /\ j = i THEN answered ELSE item[v][j]
    BY DEF IndInv, TypeOK, Respond
  <2>2. answered.result = result /\ answered.token = item[w][i].token
    BY DEF IndInv, TypeOK, Item
  <2>3. accepted' = accepted
    BY DEF Respond, providerVars
  <2> QED
    BY <1>1, <2>1, <2>2, <2>3 DEF IndInv, ResultsSound
<1>6. SentOnlyIfAccepted' /\ NoPrematureDeadLetter'
  BY DEF IndInv, SentOnlyIfAccepted, NoPrematureDeadLetter, Respond, rowVars, providerVars
<1> QED
  BY <1>2, <1>3, <1>4, <1>5, <1>6 DEF IndInv

\* The three settlements that write the row, by the status and error they write.
LEMMA SettleToPreserves ==
  ASSUME IndInv, NEW w \in Workers, NEW i \in Ids,
         NEW newStatus \in {"sent", "retryableFailed", "deadLetter"}, NEW error \in Errors,
         SettleTo(w, i, newStatus, error),
         newStatus = "sent" => item[w][i].result = "ok",
         newStatus = "deadLetter" => attempts[i] = MaxAttempts \/ error = "fatal"
  PROVE  IndInv'
<1>1. status[i] = "leased" /\ item[w][i].token = minted[i] /\ attempts[i] > 0
  BY DEF IndInv, TypeOK, RowsShaped, RowShape, SettleTo, HoldsLease
<1>2. Idle \in Item
  BY DEF Idle, Item, Results
<1>3. TypeOK'
  BY <1>2 DEF IndInv, TypeOK, SettleTo, providerVars, Statuses
<1>4. RowsShaped'
  BY <1>1 DEF IndInv, TypeOK, RowsShaped, RowShape, SettleTo
<1>5. KeysUnique'
  BY <1>1 DEF IndInv, TypeOK, KeysUnique, Rows, SettleTo
<1>6. TokensMinted' /\ ResultsSound'
  BY DEF IndInv, TypeOK, TokensMinted, ResultsSound, SettleTo, providerVars, Idle
<1>7. SentOnlyIfAccepted'
  <2>1. newStatus = "sent" => <<i, minted[i]>> \in accepted
    BY <1>1 DEF IndInv, ResultsSound
  <2> QED
    BY <2>1 DEF IndInv, TypeOK, SentOnlyIfAccepted, SettleTo, providerVars
<1>8. NoPrematureDeadLetter'
  BY DEF IndInv, TypeOK, NoPrematureDeadLetter, SettleTo
<1> QED
  BY <1>3, <1>4, <1>5, <1>6, <1>7, <1>8 DEF IndInv

LEMMA SettlePreserves ==
  ASSUME IndInv, NEW w \in Workers, NEW i \in Ids, Settle(w, i)
  PROVE  IndInv'
<1>0. item[w][i].result \in Results /\ attempts[i] \in 0 .. MaxAttempts
  BY DEF IndInv, TypeOK, Item, RowsShaped, RowShape
<1>1. CASE SettleSent(w, i)
  BY <1>1, SettleToPreserves DEF SettleSent, Errors
<1>2. CASE SettleRetry(w, i)
  BY <1>0, <1>2, SettleToPreserves DEF SettleRetry, MayRetry, Errors, Failures
<1>3. CASE SettleDead(w, i)
  <2>1. item[w][i].result \in Errors
    BY <1>3 DEF SettleDead, Errors
  <2>2. attempts[i] = MaxAttempts \/ item[w][i].result = "fatal"
    BY <1>0, <1>3, MaxAttemptsAssumption DEF SettleDead, MayRetry, Failures
  <2>3. SettleTo(w, i, "deadLetter", item[w][i].result)
    BY <1>3 DEF SettleDead
  <2> QED
    BY <2>1, <2>2, <2>3, SettleToPreserves
<1>4. CASE SettleDropped(w, i)
  <2>1. Idle \in Item
    BY DEF Idle, Item, Results
  <2>2. TypeOK'
    BY <1>4, <2>1 DEF IndInv, TypeOK, SettleDropped, rowVars, providerVars
  <2>3. RowsShaped' /\ KeysUnique' /\ SentOnlyIfAccepted' /\ NoPrematureDeadLetter'
    BY <1>4 DEF IndInv, RowsShaped, RowShape, KeysUnique, Rows, SentOnlyIfAccepted,
                NoPrematureDeadLetter, SettleDropped, rowVars, providerVars
  <2>4. TokensMinted' /\ ResultsSound'
    BY <1>4 DEF IndInv, TypeOK, TokensMinted, ResultsSound, SettleDropped, rowVars,
                providerVars, Idle
  <2> QED
    BY <2>2, <2>3, <2>4 DEF IndInv
<1> QED
  BY <1>1, <1>2, <1>3, <1>4 DEF Settle

LEMMA CrashPreserves ==
  ASSUME IndInv, NEW w \in Workers, Crash(w)
  PROVE  IndInv'
<1>1. [i \in Ids |-> Idle] \in [Ids -> Item]
  BY DEF Idle, Item, Results
<1>2. TypeOK'
  BY <1>1 DEF IndInv, TypeOK, Crash, rowVars, providerVars
<1>3. RowsShaped' /\ KeysUnique' /\ SentOnlyIfAccepted' /\ NoPrematureDeadLetter'
  BY DEF IndInv, RowsShaped, RowShape, KeysUnique, Rows, SentOnlyIfAccepted,
         NoPrematureDeadLetter, Crash, rowVars, providerVars
<1>4. TokensMinted' /\ ResultsSound'
  BY DEF IndInv, TypeOK, TokensMinted, ResultsSound, Crash, rowVars, providerVars, Idle
<1> QED
  BY <1>2, <1>3, <1>4 DEF IndInv

LEMMA DeadlinePreserves ==
  ASSUME IndInv, NEW i \in Ids, DeadlinePasses(i)
  PROVE  IndInv'
  BY DEF IndInv, TypeOK, RowsShaped, RowShape, KeysUnique, Rows, TokensMinted, ResultsSound,
         SentOnlyIfAccepted, NoPrematureDeadLetter, DeadlinePasses, rowVars, providerVars

LEMMA StepPreserves == IndInv /\ [Next]_vars => IndInv'
<1> SUFFICES ASSUME IndInv, [Next]_vars
             PROVE  IndInv'
  OBVIOUS
<1>1. ASSUME NEW it \in Intents, NEW isolate \in BOOLEAN, Enqueue(it, isolate)
      PROVE  IndInv'
  BY <1>1, EnqueuePreserves
<1>2. ASSUME NEW w \in Workers, ClaimSome(w)
      PROVE  IndInv'
  BY <1>2, ClaimPreserves DEF ClaimSome
<1>3. ASSUME NEW w \in Workers, Crash(w)
      PROVE  IndInv'
  BY <1>3, CrashPreserves
<1>4. ASSUME NEW w \in Workers, NEW i \in Ids, Send(w, i)
      PROVE  IndInv'
  BY <1>4, SendPreserves
<1>5. ASSUME NEW w \in Workers, NEW i \in Ids, RespondSome(w, i)
      PROVE  IndInv'
  BY <1>5, RespondPreserves DEF RespondSome
<1>6. ASSUME NEW w \in Workers, NEW i \in Ids, Settle(w, i)
      PROVE  IndInv'
  BY <1>6, SettlePreserves
<1>7. ASSUME NEW c \in asked, ProviderAccepts(c[1], c[2]) \/ ProviderRefuses(c[1], c[2])
      PROVE  IndInv'
  BY <1>7, ProviderPreserves
<1>8. ASSUME NEW i \in Ids, DeadlinePasses(i)
      PROVE  IndInv'
  BY <1>8, DeadlinePreserves
<1>9. CASE UNCHANGED vars
  BY <1>9 DEF IndInv, TypeOK, RowsShaped, RowShape, KeysUnique, Rows, TokensMinted,
              ResultsSound, SentOnlyIfAccepted, NoPrematureDeadLetter, vars, rowVars,
              providerVars
<1> QED
  BY <1>1, <1>2, <1>3, <1>4, <1>5, <1>6, <1>7, <1>8, <1>9 DEF Next

LEMMA Inductive == Spec => []IndInv
  BY InitEstablishes, StepPreserves, PTL DEF Spec

-----------------------------------------------------------------------------
(* The safety properties. *)

\* The variables of Outbox keep their types: the table, the provider's record and the
\* dispatchers' items.
THEOREM TypeCorrect == Spec => []TypeOK
<1>1. IndInv => TypeOK
  BY DEF IndInv
<1> QED
  BY <1>1, Inductive, PTL

\* No row is ever marked sent unless the provider accepted the card under the claim that
\* settled it (settleDelivery after deliverWithTimeout).
THEOREM SentIsSound == Spec => []SentOnlyIfAccepted
<1>1. IndInv => SentOnlyIfAccepted
  BY DEF IndInv
<1> QED
  BY <1>1, Inductive, PTL

\* No row is dead-lettered by a transient failure with attempts left.
THEOREM DeadLetterIsJustified == Spec => []NoPrematureDeadLetter
<1>1. IndInv => NoPrematureDeadLetter
  BY DEF IndInv
<1> QED
  BY <1>1, Inductive, PTL

\* What was asked was asked for an existing row, whose tokens the call carries.
LEMMA AskedIsMinted ==
  ASSUME IndInv, NEW c \in asked
  PROVE  /\ c[1] \in Rows
         /\ c[2] \in 1 .. MaxAttempts
         /\ c = <<c[1], c[2]>>
         /\ c[1] \notin isolated
<1>1. c[1] \in Ids /\ c[2] \in Nat /\ c = <<c[1], c[2]>>
  BY DEF IndInv, TypeOK
<1>2. c[2] \in 1 .. minted[c[1]] /\ minted[c[1]] \in Nat
  BY <1>1 DEF IndInv, TypeOK, TokensMinted
<1>3. RowShape(c[1]) /\ attempts[c[1]] \in 0 .. MaxAttempts
  BY <1>1 DEF IndInv, RowsShaped, TypeOK
<1> QED
  BY <1>1, <1>2, <1>3, MaxAttemptsAssumption DEF RowShape, Rows

\* Because keys are unique, all calls for a fact belong to one row and carry distinct
\* claim numbers up to the budget.
LEMMA BudgetHolds == IndInv => BudgetPerFact
<1> SUFFICES ASSUME IndInv, NEW i \in Rows
             PROVE  Cardinality({c \in asked : intent[c[1]].key = intent[i].key}) <= MaxAttempts
  BY DEF BudgetPerFact
<1> DEFINE Calls == {c \in asked : intent[c[1]].key = intent[i].key}
           Numbers == 1 .. MaxAttempts
           f == [c \in Calls |-> c[2]]
<1>1. \A c \in Calls : c = <<i, c[2]>> /\ c[2] \in Numbers
  BY AskedIsMinted DEF IndInv, KeysUnique
<1>2. f \in Injection(Calls, Numbers)
  BY <1>1 DEF Injection, IsInjective
<1>3. IsFiniteSet(Numbers) /\ Cardinality(Numbers) = MaxAttempts
  BY FS_Interval, MaxAttemptsAssumption
<1> HIDE DEF Calls, Numbers, f
<1>4. Cardinality(Calls) <= MaxAttempts
  BY <1>2, <1>3, FS_Injection
<1> QED
  BY <1>4 DEF Calls

\* The provider is asked at most MaxAttempts times per dedupe key, over all workers,
\* restarts and replays of the event that enqueued it.
THEOREM BudgetIsKept == Spec => []BudgetPerFact
  BY BudgetHolds, Inductive, PTL

\* A notification isolated at enqueue is never offered to the provider.
THEOREM IsolationIsKept == Spec => []IsolatedNeverAsked
<1>1. IndInv => IsolatedNeverAsked
  <2> SUFFICES ASSUME IndInv, NEW c \in asked, NEW i \in isolated
               PROVE  intent[c[1]].key # intent[i].key
    BY DEF IsolatedNeverAsked
  <2>1. c[1] \in Rows /\ c[1] \notin isolated
    BY AskedIsMinted
  <2>2. i \in Rows
    BY DEF IndInv, TypeOK, RowsShaped, RowShape, Rows
  <2> QED
    BY <2>1, <2>2 DEF IndInv, KeysUnique
<1> QED
  BY <1>1, Inductive, PTL

-----------------------------------------------------------------------------
(* What a step may do to a row. *)

\* The whole effect of a step on the columns of one row.
LEMMA RowStep ==
  ASSUME IndInv, [Next]_vars, NEW i \in Ids
  PROVE  \/ /\ status[i] = "absent"
         \/ /\ status[i] \notin Terminal
            /\ i \in due
         \/ /\ status[i] = "leased"
            /\ \E w \in Workers : item[w][i].stage = "settling" /\ item[w][i].token = lease[i]
         \/ UNCHANGED <<status[i], attempts[i], lease[i], lastError[i]>>
<1>1. ASSUME NEW it \in Intents, NEW isolate \in BOOLEAN, Enqueue(it, isolate)
      PROVE  status[i] = "absent" \/ UNCHANGED <<status[i], attempts[i], lease[i], lastError[i]>>
  BY <1>1, IntentsAssumption DEF Enqueue, Enqueueable, Rows, IndInv, TypeOK
<1>2. ASSUME NEW w \in Workers, NEW final \in SUBSET Ids, NEW batch \in SUBSET Ids,
             Claim(w, final, batch)
      PROVE  \/ status[i] \notin Terminal /\ i \in due
             \/ UNCHANGED <<status[i], attempts[i], lease[i], lastError[i]>>
  <2>1. i \in final \cup batch => status[i] \notin Terminal /\ i \in due
    BY <1>2, ClaimSelection DEF Terminal
  <2>2. i \notin final \cup batch => UNCHANGED <<status[i], attempts[i], lease[i], lastError[i]>>
    BY <1>2 DEF Claim
  <2> QED
    BY <2>1, <2>2
<1>3. ASSUME NEW w \in Workers, NEW j \in Ids, Settle(w, j)
      PROVE  \/ status[i] = "leased" /\ item[w][i].stage = "settling" /\ item[w][i].token = lease[i]
             \/ UNCHANGED <<status[i], attempts[i], lease[i], lastError[i]>>
  BY <1>3 DEF Settle, SettleSent, SettleRetry, SettleDead, SettleTo, SettleDropped, HoldsLease,
              IndInv, TypeOK, rowVars
<1>4. ASSUME \/ \E w \in Workers : Crash(w)
             \/ \E w \in Workers, j \in Ids : Send(w, j) \/ RespondSome(w, j)
             \/ \E c \in asked : ProviderAccepts(c[1], c[2]) \/ ProviderRefuses(c[1], c[2])
             \/ \E j \in Ids : DeadlinePasses(j)
             \/ UNCHANGED vars
      PROVE  UNCHANGED <<status[i], attempts[i], lease[i], lastError[i]>>
  BY <1>4 DEF Crash, Send, RespondSome, Respond, ProviderAccepts, ProviderRefuses,
              DeadlinePasses, vars, rowVars
<1> QED
  BY <1>1, <1>2, <1>3, <1>4 DEF Next, ClaimSome

\* A leased row leaves its claim only by that claim's settlement or after the lease ran
\* out, so the straggler of an earlier claim cannot settle it.
THEOREM LeaseIsRespected == Spec => LeaseRespected
<1>1. ASSUME IndInv, [Next]_vars, NEW i \in Ids, status[i] = "leased",
             status'[i] # "leased" \/ lease'[i] # lease[i]
      PROVE  \/ \E w \in Workers : item[w][i].stage = "settling" /\ item[w][i].token = lease[i]
             \/ i \in due
  BY <1>1, RowStep
<1>2. IndInv /\ [Next]_vars =>
        [\A i \in Ids :
           (status[i] = "leased" /\ (status'[i] # "leased" \/ lease'[i] # lease[i])) =>
             \/ \E w \in Workers : item[w][i].stage = "settling" /\ item[w][i].token = lease[i]
             \/ i \in due]_vars
  BY <1>1
<1> QED
  BY <1>2, Inductive, PTL DEF Spec, LeaseRespected

\* The triggers of notification_outbox never abort an update the repository makes: in
\* particular a sent or dead-lettered row never changes again.
LEMMA GuardAdmitsStep ==
  ASSUME IndInv, [Next]_vars, NEW i \in Rows, rowOf(i)' # rowOf(i)
  PROVE  TransitionGuard(i)
<1>0. i \in Ids /\ RowShape(i) /\ attempts[i] \in 0 .. MaxAttempts /\ minted[i] \in Nat
  BY DEF IndInv, TypeOK, RowsShaped, Rows
<1>1. ASSUME NEW it \in Intents, NEW isolate \in BOOLEAN, Enqueue(it, isolate)
      PROVE  FALSE
  BY <1>0, <1>1, IntentsAssumption DEF Enqueue, Enqueueable, Rows, IndInv, TypeOK, rowOf
<1>2. ASSUME NEW w \in Workers, NEW final \in SUBSET Ids, NEW batch \in SUBSET Ids,
             Claim(w, final, batch)
      PROVE  TransitionGuard(i)
  <2>1. i \in final \/ i \in batch
    BY <1>0, <1>2 DEF Claim, rowOf
  <2>2. CASE i \in final
    <3>1. status[i] = "leased" /\ attempts[i] = MaxAttempts /\ i \in due
      BY <1>2, <2>2, ClaimSelection
    <3>2. status'[i] = "deadLetter" /\ lastError'[i] = "unknown"
      BY <1>0, <1>2, <2>2 DEF Claim
    <3>3. attempts'[i] = attempts[i]
      BY <1>0, <1>2, <2>2, ClaimSelection DEF Claim
    <3> QED
      BY <3>1, <3>2, <3>3 DEF TransitionGuard
  <2>3. CASE i \in batch
    <3>1. i \in due /\ i \in Eligible /\ i \notin final
      BY <1>2, <2>3, ClaimSelection DEF Claim, TakenFrom
    <3>2. /\ status'[i] = "leased" /\ attempts'[i] = attempts[i] + 1
          /\ lease'[i] = minted[i] + 1
      BY <1>0, <1>2, <2>3, <3>1 DEF Claim
    <3>3. status[i] = "leased" => lease'[i] # lease[i]
      BY <1>0, <3>2 DEF RowShape
    <3> QED
      BY <3>1, <3>2, <3>3 DEF TransitionGuard, Eligible
  <2> QED
    BY <2>1, <2>2, <2>3
<1>3. ASSUME NEW w \in Workers, NEW j \in Ids, Settle(w, j)
      PROVE  TransitionGuard(i)
  <2>1. ASSUME NEW s, NEW e, SettleTo(w, j, s, e)
        PROVE  /\ j = i /\ status[i] = "leased" /\ attempts[i] > 0
               /\ status'[i] = s /\ lastError'[i] = e /\ attempts'[i] = attempts[i]
    BY <1>0, <2>1 DEF SettleTo, HoldsLease, IndInv, TypeOK, RowShape, rowOf
  <2>2. CASE SettleSent(w, j)
    BY <2>1, <2>2 DEF SettleSent, TransitionGuard
  <2>3. CASE SettleRetry(w, j)
    <3>1. SettleTo(w, j, "retryableFailed", item[w][j].result) /\ attempts[j] < MaxAttempts
      BY <2>3 DEF SettleRetry, MayRetry
    <3> QED
      BY <1>0, <2>1, <3>1, MaxAttemptsAssumption DEF TransitionGuard
  <2>4. CASE SettleDead(w, j)
    <3>1. SettleTo(w, j, "deadLetter", item[w][j].result)
      BY <2>4 DEF SettleDead
    <3>2. \/ item[w][j].result = "fatal"
          \/ item[w][j].result = "retryable" /\ ~(attempts[j] < MaxAttempts)
      BY <2>4 DEF SettleDead, MayRetry, Failures
    <3> QED
      BY <1>0, <2>1, <3>1, <3>2, MaxAttemptsAssumption DEF TransitionGuard
  <2>5. CASE SettleDropped(w, j)
    BY <2>5 DEF SettleDropped, rowVars, rowOf
  <2> QED
    BY <1>3, <2>2, <2>3, <2>4, <2>5 DEF Settle
<1>4. ASSUME \/ \E w \in Workers : Crash(w)
             \/ \E w \in Workers, j \in Ids : Send(w, j) \/ RespondSome(w, j)
             \/ \E c \in asked : ProviderAccepts(c[1], c[2]) \/ ProviderRefuses(c[1], c[2])
             \/ \E j \in Ids : DeadlinePasses(j)
             \/ UNCHANGED vars
      PROVE  FALSE
  BY <1>4 DEF Crash, Send, RespondSome, Respond, ProviderAccepts, ProviderRefuses,
              DeadlinePasses, vars, rowVars, rowOf
<1> QED
  BY <1>1, <1>2, <1>3, <1>4 DEF Next, ClaimSome

\* Every update of an existing row is one that the table's triggers admit.
THEOREM GuardNeverAborts == Spec => GuardAdmitsEveryUpdate
<1>1. IndInv /\ [Next]_vars =>
        [\A i \in Rows : rowOf(i)' # rowOf(i) => TransitionGuard(i)]_vars
  BY GuardAdmitsStep
<1> QED
  BY <1>1, Inductive, PTL DEF Spec, GuardAdmitsEveryUpdate

-----------------------------------------------------------------------------
(* The outbox implements OutboxDelivery. *)

LEMMA InitRefines == Init => Delivery!Init
  BY DEF Init, Delivery!Init, outcomeBar

LEMMA EnqueueRefines ==
  ASSUME IndInv, NEW it \in Intents, NEW isolate \in BOOLEAN, Enqueue(it, isolate)
  PROVE  Delivery!Record(it.id)
<1> DEFINE o == IF isolate THEN "withheld" ELSE "owed"
<1>1. it.id \in Ids /\ status[it.id] = "absent" /\ it.id \notin isolated
  BY IntentsAssumption
  DEF Enqueue, Enqueueable, Rows, IndInv, TypeOK, RowsShaped, RowShape
<1>2. outcomeBar[it.id] = "none"
  BY <1>1 DEF outcomeBar
<1>3. outcomeBar' = [outcomeBar EXCEPT ![it.id] = o]
  BY <1>1 DEF outcomeBar, Enqueue, IndInv, TypeOK
<1>4. UNCHANGED <<minted, accepted>>
  BY DEF Enqueue, providerVars
<1> QED
  BY <1>2, <1>3, <1>4 DEF Delivery!Record

LEMMA ClaimRefines ==
  ASSUME IndInv, NEW w \in Workers, NEW final \in SUBSET Ids, NEW batch \in SUBSET Ids,
         Claim(w, final, batch)
  PROVE  Delivery!Dispatch(batch, final)
<1>1. /\ \A i \in final : status[i] = "leased" /\ attempts[i] = MaxAttempts
      /\ \A i \in batch : /\ i \notin isolated
                          /\ status[i] \in {"pending", "retryableFailed", "leased"}
                          /\ attempts[i] < MaxAttempts
      /\ final \cap batch = {}
  BY ClaimSelection
<1>2. \A i \in Ids : attempts[i] = minted[i] /\ (i \in isolated => status[i] = "pending")
  BY DEF IndInv, RowsShaped, RowShape
<1>3. \A i \in batch : outcomeBar[i] = "owed" /\ minted[i] < MaxAttempts
  BY <1>1, <1>2 DEF outcomeBar
<1>4. \A i \in final : outcomeBar[i] = "owed" /\ minted[i] = MaxAttempts
  BY <1>1, <1>2 DEF outcomeBar
<1>5. minted' = [i \in Ids |-> IF i \in batch THEN minted[i] + 1 ELSE minted[i]]
  BY DEF Claim
<1>6. outcomeBar' = [i \in Ids |-> IF i \in final THEN "abandoned" ELSE outcomeBar[i]]
  <2>1. isolated' = isolated
    BY DEF Claim
  <2>2. \A i \in Ids : status'[i] = IF i \in final THEN "deadLetter"
                                    ELSE IF i \in batch THEN "leased" ELSE status[i]
    BY DEF Claim
  <2>3. \A i \in Ids : outcomeBar'[i] = IF i \in final THEN "abandoned" ELSE outcomeBar[i]
    BY <1>1, <2>1, <2>2 DEF outcomeBar
  <2> QED
    BY <2>3 DEF outcomeBar
<1>7. accepted' = accepted
  BY DEF Claim, providerVars
<1> QED
  BY <1>1, <1>3, <1>4, <1>5, <1>6, <1>7 DEF Delivery!Dispatch

LEMMA AcceptRefines ==
  ASSUME IndInv, NEW c \in asked, ProviderAccepts(c[1], c[2])
  PROVE  \E i \in Ids : \E n \in 1 .. minted[i] : Delivery!Arrive(i, n)
<1>1. c[1] \in Ids /\ c[2] \in 1 .. minted[c[1]]
  BY DEF IndInv, TypeOK, TokensMinted
<1>2. <<c[1], c[2]>> \notin accepted /\ accepted' = accepted \cup {<<c[1], c[2]>>}
  BY DEF ProviderAccepts
<1>3. UNCHANGED <<outcomeBar, minted>>
  BY DEF ProviderAccepts, rowVars, outcomeBar
<1>4. Delivery!Arrive(c[1], c[2])
  BY <1>2, <1>3 DEF Delivery!Arrive
<1> QED
  BY <1>1, <1>4

LEMMA SettleRefines ==
  ASSUME IndInv, NEW w \in Workers, NEW i \in Ids, Settle(w, i)
  PROVE  Delivery!Confirm(i) \/ Delivery!Abandon(i) \/ UNCHANGED Delivery!vars
<1>1. ASSUME NEW s, NEW e, SettleTo(w, i, s, e)
      PROVE  /\ outcomeBar[i] = "owed" /\ i \notin isolated
             /\ item[w][i].token = minted[i] /\ minted[i] > 0
             /\ UNCHANGED <<minted, accepted, isolated>>
             /\ status' = [status EXCEPT ![i] = s]
  BY <1>1 DEF SettleTo, HoldsLease, IndInv, TypeOK, RowsShaped, RowShape, outcomeBar,
              providerVars
<1>2. CASE SettleSent(w, i)
  <2>1. SettleTo(w, i, "sent", "none") /\ item[w][i].result = "ok"
    BY <1>2 DEF SettleSent
  <2>2. <<i, minted[i]>> \in accepted
    BY <1>1, <2>1 DEF IndInv, ResultsSound
  <2>3. outcomeBar' = [outcomeBar EXCEPT ![i] = "sent"]
    <3>1. \A j \in Ids : outcomeBar'[j] = IF j = i THEN "sent" ELSE outcomeBar[j]
      BY <1>1, <2>1 DEF outcomeBar, IndInv, TypeOK
    <3> QED
      BY <3>1 DEF outcomeBar
  <2> QED
    BY <1>1, <2>1, <2>2, <2>3 DEF Delivery!Confirm
<1>3. CASE SettleRetry(w, i)
  <2>1. PICK e : SettleTo(w, i, "retryableFailed", e)
    BY <1>3 DEF SettleRetry
  <2>2. outcomeBar' = outcomeBar
    BY <1>1, <2>1 DEF outcomeBar, IndInv, TypeOK
  <2> QED
    BY <1>1, <2>1, <2>2 DEF Delivery!vars
<1>4. CASE SettleDead(w, i)
  <2>1. PICK e : SettleTo(w, i, "deadLetter", e)
    BY <1>4 DEF SettleDead
  <2>2. outcomeBar' = [outcomeBar EXCEPT ![i] = "abandoned"]
    <3>1. \A j \in Ids : outcomeBar'[j] = IF j = i THEN "abandoned" ELSE outcomeBar[j]
      BY <1>1, <2>1 DEF outcomeBar, IndInv, TypeOK
    <3> QED
      BY <3>1 DEF outcomeBar
  <2> QED
    BY <1>1, <2>1, <2>2 DEF Delivery!Abandon
<1>5. CASE SettleDropped(w, i)
  BY <1>5 DEF SettleDropped, rowVars, providerVars, outcomeBar, Delivery!vars
<1> QED
  BY <1>2, <1>3, <1>4, <1>5 DEF Settle

LEMMA StepRefines == IndInv /\ [Next]_vars => [Delivery!Next]_(Delivery!vars)
<1> SUFFICES ASSUME IndInv, [Next]_vars
             PROVE  [Delivery!Next]_(Delivery!vars)
  OBVIOUS
<1>1. ASSUME NEW it \in Intents, NEW isolate \in BOOLEAN, Enqueue(it, isolate)
      PROVE  Delivery!Next
  BY <1>1, EnqueueRefines, IntentsAssumption DEF Delivery!Next
<1>2. ASSUME NEW w \in Workers, ClaimSome(w)
      PROVE  Delivery!Next
  BY <1>2, ClaimRefines DEF ClaimSome, Delivery!Next
<1>3. ASSUME NEW c \in asked, ProviderAccepts(c[1], c[2])
      PROVE  Delivery!Next
  BY <1>3, AcceptRefines DEF Delivery!Next
<1>4. ASSUME NEW w \in Workers, NEW i \in Ids, Settle(w, i)
      PROVE  [Delivery!Next]_(Delivery!vars)
  BY <1>4, SettleRefines DEF Delivery!Next
<1>5. ASSUME \/ \E w \in Workers : Crash(w)
             \/ \E w \in Workers, i \in Ids : Send(w, i) \/ RespondSome(w, i)
             \/ \E c \in asked : ProviderRefuses(c[1], c[2])
             \/ \E i \in Ids : DeadlinePasses(i)
             \/ UNCHANGED vars
      PROVE  UNCHANGED Delivery!vars
  BY <1>5 DEF Crash, Send, RespondSome, Respond, ProviderRefuses, DeadlinePasses, vars,
              rowVars, providerVars, outcomeBar, Delivery!vars
<1> QED
  BY <1>1, <1>2, <1>3, <1>4, <1>5 DEF Next

\* The outbox implements its abstract promise, for any number of rows, workers and
\* attempts.
THEOREM ImplementsDelivery == Spec => DeliverySpec
  BY InitRefines, StepRefines, Inductive, PTL DEF Spec, DeliverySpec, Delivery!Spec

=============================================================================
