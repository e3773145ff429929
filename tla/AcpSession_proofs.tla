--------------------------- MODULE AcpSession_proofs ---------------------------
(***************************************************************************)
(* Proofs about AcpSession, for any tools, turns, requests and questions.   *)
(***************************************************************************)
EXTENDS AcpSession, SequenceTheorems, TLAPS

--------------------------------------------------------------------------------
(* Lists that grow by one *)

LEMMA FunctionIsSeq ==
  ASSUME NEW S, NEW n \in Nat, NEW v \in [1 .. n -> S]
  PROVE  v \in Seq(S) /\ Len(v) = n
<1>1. v \in Seq(S)
  BY SMT
<1> QED
  BY <1>1, LenProperties

LEMMA Grown ==
  ASSUME NEW S, NEW n \in Nat, NEW v \in [1 .. n -> S], NEW e \in S
  PROVE  /\ Append(v, e) \in [1 .. n + 1 -> S]
         /\ \A i \in 1 .. n : Append(v, e)[i] = v[i]
         /\ Append(v, e)[n + 1] = e
<1>1. v \in Seq(S) /\ Len(v) = n
  BY FunctionIsSeq
<1>2. /\ Append(v, e) \in Seq(S) /\ Len(Append(v, e)) = n + 1
      /\ \A i \in 1 .. n : Append(v, e)[i] = v[i]
      /\ Append(v, e)[n + 1] = e
  BY <1>1, AppendProperties
<1>3. Append(v, e) \in [1 .. n + 1 -> S]
  BY <1>2, LenProperties
<1> QED
  BY <1>2, <1>3

LEMMA GrownByConcat ==
  ASSUME NEW n \in Nat, NEW v \in [1 .. n -> Nat]
  PROVE  /\ v \o <<0>> \in [1 .. n + 1 -> Nat]
         /\ \A i \in 1 .. n : (v \o <<0>>)[i] = v[i]
         /\ (v \o <<0>>)[n + 1] = 0
         /\ v \o << >> = v
<1>1. v \in Seq(Nat) /\ Len(v) = n
  BY FunctionIsSeq
<1>2. v \o <<0>> = Append(v, 0)
  BY <1>1, AppendIsConcat
<1>3. v \o << >> = v
  BY <1>1, ConcatEmptySeq
<1>4. 0 \in Nat
  OBVIOUS
<1>5. /\ Append(v, 0) \in [1 .. n + 1 -> Nat]
      /\ \A i \in 1 .. n : Append(v, 0)[i] = v[i]
      /\ Append(v, 0)[n + 1] = 0
  <2>1. Append(v, 0) \in [1 .. n + 1 -> Nat]
    BY <1>4, Grown
  <2>2. \A i \in 1 .. n : Append(v, 0)[i] = v[i]
    BY <1>4, Grown
  <2>3. Append(v, 0)[n + 1] = 0
    BY <1>4, Grown
  <2> QED
    BY <2>1, <2>2, <2>3
<1> QED
  BY <1>2, <1>3, <1>5

--------------------------------------------------------------------------------
(* The invariant *)

(* No two parked requests have one id. *)
OneCard == \A q, r \in parked : q.id = r.id => q = r

(* What a tidy adapter has open belongs to a turn: its requests, its tool    *)
(* calls, and every row that is shown as running.                            *)
InTurn ==
  tidy =>
    /\ prompts = {} => parked = {} /\ open = {}
    /\ \A r \in parked : r.tool \in open \cup Form
    /\ \A t \in DOMAIN shown : shown[t] = "running" =>
         t \in open \/ (t \in Form /\ \E r \in parked : r.tool = t)

SessionInv == TypeOK /\ PublishedIsTrue /\ OneCard /\ FirstAnswerWins /\ InTurn

LEMMA SessionInit == Init => SessionInv
<1> SUFFICES ASSUME Init PROVE SessionInv
  OBVIOUS
<1>1. 1 .. issued = {}
  BY DEF Init
<1>2. TypeOK
  <2>1. verdicts \in [1 .. issued -> Seq(Outcome)] /\ won \in [1 .. issued -> Nat]
    BY <1>1 DEF Init
  <2>2. asked \in 0 .. MaxPrompts /\ issued \in 0 .. MaxRequests
    BY SessionBounds DEF Init
  <2>3. shown \in [Tool \cup Form -> Row]
    BY DEF Init, Row
  <2> QED
    BY <2>1, <2>2, <2>3 DEF Init, TypeOK
<1> QED
  BY <1>1, <1>2 DEF Init, SessionInv, PublishedIsTrue, OneCard, FirstAnswerWins, InTurn

--------------------------------------------------------------------------------
(* Requests that are settled *)

LEMMA VerdictsAdd ==
  ASSUME TypeOK, NEW rs, NEW o \in Outcome
  PROVE  /\ Verdicts(rs, o) \in [1 .. issued -> Seq(Outcome)]
         /\ \A i \in 1 .. issued :
              Len(Verdicts(rs, o)[i]) =
                IF \E r \in rs : r.id = i THEN Len(verdicts[i]) + 1 ELSE Len(verdicts[i])
<1>1. DOMAIN verdicts = 1 .. issued /\ \A i \in 1 .. issued : verdicts[i] \in Seq(Outcome)
  BY DEF TypeOK
<1>2. \A i \in 1 .. issued : /\ Append(verdicts[i], o) \in Seq(Outcome)
                             /\ Len(Append(verdicts[i], o)) = Len(verdicts[i]) + 1
  BY <1>1, AppendProperties
<1> QED
  BY <1>1, <1>2 DEF Verdicts

LEMMA FinishedRows ==
  ASSUME TypeOK, NEW rs
  PROVE  /\ Finished(shown, rs) \in [Tool \cup Form -> Row]
         /\ \A t \in Tool \cup Form : Finished(shown, rs)[t] = "running" =>
              shown[t] = "running" /\ ~(t \in Form /\ \E r \in rs : r.tool = t)
BY DEF TypeOK, Finished, Row

(* Settling some of the parked requests leaves one verdict on each.          *)
LEMMA SettledOnce ==
  ASSUME TypeOK, OneCard, FirstAnswerWins, NEW rs \in SUBSET parked, NEW o \in Outcome,
         NEW i \in 1 .. issued
  PROVE  Len(Verdicts(rs, o)[i]) = IF \E r \in parked \ rs : r.id = i THEN 0 ELSE 1
<1>1. CASE \E r \in rs : r.id = i
  <2>1. Len(verdicts[i]) = 0
    BY <1>1 DEF FirstAnswerWins
  <2>2. ~ \E r \in parked \ rs : r.id = i
    BY <1>1 DEF OneCard
  <2>3. Len(Verdicts(rs, o)[i]) = Len(verdicts[i]) + 1
    BY <1>1, VerdictsAdd
  <2> QED
    BY <2>1, <2>2, <2>3
<1>2. CASE ~ \E r \in rs : r.id = i
  BY <1>2, VerdictsAdd DEF FirstAnswerWins
<1> QED
  BY <1>1, <1>2

(* settlePermission, by whomever, with or without a client that is told.     *)
LEMMA SettleKeeps ==
  ASSUME SessionInv, NEW rs \in SUBSET parked, NEW o \in Outcome, Settle(rs, o),
         won' \in [1 .. issued -> Nat],
         \A i \in 1 .. issued :
           \/ won'[i] = won[i]
           \/ won'[i] = won[i] + 1 /\ \E r \in rs : r.id = i
  PROVE  SessionInv'
<1> USE DEF SessionInv
<1>1. TypeOK'
  BY VerdictsAdd, FinishedRows DEF TypeOK, Settle
<1>2. PublishedIsTrue'
  BY DEF PublishedIsTrue, Settle, EmitState
<1>3. OneCard'
  BY DEF OneCard, Settle
<1>4. FirstAnswerWins'
  <2> SUFFICES ASSUME NEW i \in 1 .. issued
               PROVE  /\ Len(verdicts'[i]) = IF \E r \in parked' : r.id = i THEN 0 ELSE 1
                      /\ won'[i] <= Len(verdicts'[i])
    BY DEF FirstAnswerWins, Settle
  <2>1. Len(verdicts'[i]) = IF \E r \in parked' : r.id = i THEN 0 ELSE 1
    BY SettledOnce DEF Settle
  <2>2. Len(verdicts'[i]) = IF \E r \in rs : r.id = i THEN Len(verdicts[i]) + 1
                            ELSE Len(verdicts[i])
    BY VerdictsAdd DEF Settle
  <2>3. won[i] \in Nat /\ won[i] <= Len(verdicts[i]) /\ Len(verdicts[i]) \in Nat
    BY DEF FirstAnswerWins, TypeOK
  <2> QED
    BY <2>1, <2>2, <2>3
<1>5. InTurn'
  <2> SUFFICES ASSUME tidy PROVE InTurn'
    BY DEF InTurn, Settle
  <2>1. \A t \in Tool \cup Form : shown'[t] = "running" =>
          shown[t] = "running" /\ ~(t \in Form /\ \E r \in rs : r.tool = t)
    BY FinishedRows DEF Settle
  <2>2. DOMAIN shown = Tool \cup Form /\ DOMAIN shown' = Tool \cup Form
    BY <1>1 DEF TypeOK
  <2> QED
    BY <2>1, <2>2 DEF InTurn, Settle
<1> QED
  BY <1>1, <1>2, <1>3, <1>4, <1>5

--------------------------------------------------------------------------------
(* Requests that are parked *)

(* A card with a new id, its verdict still to come.                          *)
LEMMA CardIsNew ==
  ASSUME TypeOK, issued < MaxRequests, NEW t \in Tool \cup Form,
         NEW left \in 0 .. Questions - 1
  PROVE  /\ issued + 1 \in 0 .. MaxRequests
         /\ Card(t, left) \in [id : 1 .. issued + 1, tool : Tool \cup Form,
                               left : 0 .. Questions - 1]
         /\ Card(t, left).id = issued + 1 /\ Card(t, left).tool = t
         /\ \A r \in parked : /\ r.id \in 1 .. issued
                              /\ r \in [id : 1 .. issued + 1, tool : Tool \cup Form,
                                        left : 0 .. Questions - 1]
<1>1. issued \in Nat /\ issued + 1 \in 1 .. issued + 1 /\ issued + 1 \in 0 .. MaxRequests
  BY SessionBounds DEF TypeOK
<1>2. 1 .. issued \subseteq 1 .. issued + 1
  BY <1>1
<1> QED
  BY <1>1, <1>2 DEF TypeOK, Card

LEMMA AskKeeps ==
  ASSUME SessionInv, NEW t \in Tool \cup Form, NEW left \in 0 .. Questions - 1, Ask(t, left)
  PROVE  SessionInv'
<1> USE DEF SessionInv
<1>0. issued \in Nat /\ issued < MaxRequests
  BY DEF Ask, Parked, TypeOK
<1>1. /\ verdicts' \in [1 .. issued + 1 -> Seq(Outcome)]
      /\ \A i \in 1 .. issued : verdicts'[i] = verdicts[i]
      /\ verdicts'[issued + 1] = << >>
  <2>1. verdicts \in [1 .. issued -> Seq(Outcome)] /\ << >> \in Seq(Outcome)
    BY EmptySeq DEF TypeOK
  <2>2. verdicts' = Append(verdicts, << >>)
    BY DEF Ask, Parked
  <2>3. Append(verdicts, << >>) \in [1 .. issued + 1 -> Seq(Outcome)]
    BY <1>0, <2>1, Grown
  <2>4. \A i \in 1 .. issued : Append(verdicts, << >>)[i] = verdicts[i]
    BY <1>0, <2>1, Grown
  <2>5. Append(verdicts, << >>)[issued + 1] = << >>
    BY <1>0, <2>1, Grown
  <2> QED
    BY <2>2, <2>3, <2>4, <2>5
<1>2. /\ won' \in [1 .. issued + 1 -> Nat]
      /\ \A i \in 1 .. issued : won'[i] = won[i]
      /\ won'[issued + 1] = 0
  <2>1. won \in [1 .. issued -> Nat] /\ 0 \in Nat
    BY DEF TypeOK
  <2>2. won' = Append(won, 0)
    BY DEF Ask, Parked
  <2>3. Append(won, 0) \in [1 .. issued + 1 -> Nat]
    BY <1>0, <2>1, Grown
  <2>4. \A i \in 1 .. issued : Append(won, 0)[i] = won[i]
    BY <1>0, <2>1, Grown
  <2>5. Append(won, 0)[issued + 1] = 0
    BY <1>0, <2>1, Grown
  <2> QED
    BY <2>2, <2>3, <2>4, <2>5
<1>3. issued' = issued + 1 /\ parked' = parked \cup {Card(t, left)}
  BY DEF Ask, Parked
<1>4. shown' \in [Tool \cup Form -> Row]
  BY DEF Ask, Parked, TypeOK, Row
<1>5. TypeOK'
  <2>1. parked' \subseteq [id : 1 .. issued', tool : Tool \cup Form, left : 0 .. Questions - 1]
    BY <1>0, <1>3, CardIsNew
  <2> QED
    BY <1>0, <1>1, <1>2, <1>3, <1>4, <2>1, CardIsNew DEF TypeOK, Ask
<1>6. PublishedIsTrue'
  BY DEF PublishedIsTrue, Ask, EmitState
<1>7. OneCard'
  BY <1>0, <1>3, CardIsNew DEF OneCard
<1>8. FirstAnswerWins'
  <2> SUFFICES ASSUME NEW i \in 1 .. issued + 1
               PROVE  /\ Len(verdicts'[i]) = IF \E r \in parked' : r.id = i THEN 0 ELSE 1
                      /\ won'[i] <= Len(verdicts'[i])
    BY <1>3 DEF FirstAnswerWins
  <2>1. CASE i = issued + 1
    BY <1>0, <1>1, <1>2, <1>3, <2>1, CardIsNew
  <2>2. CASE i \in 1 .. issued
    <3>1. (\E r \in parked' : r.id = i) <=> (\E r \in parked : r.id = i)
      BY <1>0, <1>3, <2>2, CardIsNew
    <3> QED
      BY <1>1, <1>2, <2>2, <3>1 DEF FirstAnswerWins
  <2> QED
    BY <1>0, <2>1, <2>2
<1>9. InTurn'
  <2> SUFFICES ASSUME tidy PROVE InTurn'
    BY DEF InTurn, Ask
  <2>1. prompts # {} /\ t \in open \cup Form /\ prompts' = prompts /\ open' = open
    BY DEF Ask, Announced
  <2>2. Card(t, left) \in parked' /\ Card(t, left).tool = t /\ parked \subseteq parked'
    BY <1>0, <1>3, CardIsNew
  <2>3. shown' = [shown EXCEPT ![t] = "running"] /\ DOMAIN shown = Tool \cup Form
    BY DEF Ask, Parked, TypeOK
  <2> QED
    BY <1>3, <2>1, <2>2, <2>3 DEF InTurn
<1> QED
  BY <1>5, <1>6, <1>7, <1>8, <1>9

(* An answered question makes room for the next one of its elicitation.      *)
LEMMA NextQuestionKeeps ==
  ASSUME SessionInv, NEW r \in parked, r.left > 0, NextQuestion(r),
         won' = [won EXCEPT ![r.id] = @ + 1] \o << 0 >>
  PROVE  SessionInv'
<1> USE DEF SessionInv
<1> DEFINE card == Card(r.tool, r.left - 1)
<1>0. /\ issued \in Nat /\ issued < MaxRequests /\ r.id \in 1 .. issued
      /\ r.tool \in Tool \cup Form /\ r.left - 1 \in 0 .. Questions - 1
  <2>1. r \in [id : 1 .. issued, tool : Tool \cup Form, left : 0 .. Questions - 1]
    BY DEF TypeOK
  <2>2. r.id \in 1 .. issued /\ r.tool \in Tool \cup Form /\ r.left \in 0 .. Questions - 1
    BY <2>1
  <2>3. issued \in Nat /\ issued < MaxRequests /\ Questions \in Nat
    BY SessionBounds DEF NextQuestion, TypeOK
  <2> QED
    BY <2>2, <2>3
<1>1. /\ Verdicts({r}, "selected") \in [1 .. issued -> Seq(Outcome)]
      /\ \A i \in 1 .. issued : Len(Verdicts({r}, "selected")[i]) =
           IF i = r.id THEN Len(verdicts[i]) + 1 ELSE Len(verdicts[i])
      /\ \A i \in 1 .. issued : Len(Verdicts({r}, "selected")[i]) =
           IF \E q \in parked \ {r} : q.id = i THEN 0 ELSE 1
  BY VerdictsAdd, SettledOnce DEF Outcome
<1>2. /\ verdicts' \in [1 .. issued + 1 -> Seq(Outcome)]
      /\ \A i \in 1 .. issued : verdicts'[i] = Verdicts({r}, "selected")[i]
      /\ verdicts'[issued + 1] = << >>
  <2>1. << >> \in Seq(Outcome)
    BY EmptySeq
  <2>2. verdicts' = Append(Verdicts({r}, "selected"), << >>)
    BY DEF NextQuestion
  <2>3. Append(Verdicts({r}, "selected"), << >>) \in [1 .. issued + 1 -> Seq(Outcome)]
    BY <1>0, <1>1, <2>1, Grown
  <2>4. \A i \in 1 .. issued : Append(Verdicts({r}, "selected"), << >>)[i] = Verdicts({r}, "selected")[i]
    BY <1>0, <1>1, <2>1, Grown
  <2>5. Append(Verdicts({r}, "selected"), << >>)[issued + 1] = << >>
    BY <1>0, <1>1, <2>1, Grown
  <2> QED
    BY <2>2, <2>3, <2>4, <2>5
<1>3. /\ won' \in [1 .. issued + 1 -> Nat]
      /\ \A i \in 1 .. issued : won'[i] = IF i = r.id THEN won[i] + 1 ELSE won[i]
      /\ won'[issued + 1] = 0
  <2>1. [won EXCEPT ![r.id] = @ + 1] \in [1 .. issued -> Nat]
    BY <1>0 DEF TypeOK
  <2> QED
    BY <1>0, <2>1, GrownByConcat DEF TypeOK
<1>4. issued' = issued + 1 /\ parked' = (parked \ {r}) \cup {card}
  BY DEF NextQuestion
<1>5. TypeOK'
  <2>1. parked' \subseteq [id : 1 .. issued', tool : Tool \cup Form, left : 0 .. Questions - 1]
    BY <1>0, <1>4, CardIsNew
  <2>2. shown' \in [Tool \cup Form -> Row]
    BY DEF NextQuestion, TypeOK, Row
  <2> QED
    BY <1>0, <1>2, <1>3, <1>4, <2>1, <2>2, CardIsNew DEF TypeOK, NextQuestion
<1>6. PublishedIsTrue'
  BY DEF PublishedIsTrue, NextQuestion, EmitState
<1>7. OneCard'
  BY <1>0, <1>4, CardIsNew DEF OneCard
<1>8. FirstAnswerWins'
  <2> SUFFICES ASSUME NEW i \in 1 .. issued + 1
               PROVE  /\ Len(verdicts'[i]) = IF \E q \in parked' : q.id = i THEN 0 ELSE 1
                      /\ won'[i] <= Len(verdicts'[i])
    BY <1>4 DEF FirstAnswerWins
  <2>1. CASE i = issued + 1
    <3>1. card.id = i /\ card \in parked'
      BY <1>0, <1>4, <2>1, CardIsNew
    <3> QED
      BY <1>2, <1>3, <2>1, <3>1
  <2>2. CASE i \in 1 .. issued
    <3>1. (\E q \in parked' : q.id = i) <=> (\E q \in parked \ {r} : q.id = i)
      BY <1>0, <1>4, <2>2, CardIsNew
    <3>2. won[i] \in Nat /\ won[i] <= Len(verdicts[i]) /\ Len(verdicts[i]) \in Nat
      BY <2>2 DEF FirstAnswerWins, TypeOK
    <3>3. verdicts'[i] = Verdicts({r}, "selected")[i]
      BY <1>2, <2>2
    <3>4. Len(verdicts'[i]) = IF \E q \in parked' : q.id = i THEN 0 ELSE 1
      BY <1>1, <2>2, <3>1, <3>3
    <3>5. Len(verdicts'[i]) = IF i = r.id THEN Len(verdicts[i]) + 1 ELSE Len(verdicts[i])
      BY <1>1, <2>2, <3>3
    <3>6. CASE i = r.id
      <4>1. won'[i] = won[i] + 1
        BY <1>3, <2>2, <3>6
      <4>2. Len(verdicts'[i]) = Len(verdicts[i]) + 1
        BY <3>5, <3>6
      <4>3. \A a, b \in Nat : a <= b => a + 1 <= b + 1
        OBVIOUS
      <4>4. won[i] + 1 <= Len(verdicts[i]) + 1
        BY <3>2, <4>3, Zenon
      <4>5. won'[i] <= Len(verdicts'[i])
        BY <4>1, <4>2, <4>4, Zenon
      <4> QED
        BY <3>4, <4>5
    <3>7. CASE i # r.id
      <4>1. won'[i] = won[i] /\ Len(verdicts'[i]) = Len(verdicts[i])
        BY <1>3, <2>2, <3>5, <3>7
      <4> QED
        BY <3>2, <3>4, <4>1
    <3> QED
      BY <3>6, <3>7
  <2>3. i = issued + 1 \/ i \in 1 .. issued
    BY <1>0
  <2> QED
    BY <2>1, <2>2, <2>3
<1>9. InTurn'
  <2> SUFFICES ASSUME tidy PROVE InTurn'
    BY DEF InTurn, NextQuestion
  <2>1. prompts # {} /\ prompts' = prompts /\ open' = open /\ r.tool \in open \cup Form
    BY DEF NextQuestion, InTurn
  <2>2. card \in parked' /\ card.tool = r.tool
    BY <1>0, <1>4, CardIsNew
  <2>3. shown' = [shown EXCEPT ![r.tool] = "running"] /\ DOMAIN shown = Tool \cup Form
    BY DEF NextQuestion, TypeOK
  <2>4. \A q \in parked : \E p \in parked' : p.tool = q.tool
    BY <1>4, <2>2
  <2> QED
    BY <1>4, <2>1, <2>2, <2>3, <2>4 DEF InTurn
<1> QED
  BY <1>5, <1>6, <1>7, <1>8, <1>9

LEMMA RespondKeeps ==
  ASSUME SessionInv, NEW i \in 1 .. issued, NEW o \in Outcome, Respond(i, o)
  PROVE  SessionInv'
<1> USE DEF SessionInv
<1>1. CASE StillParked(i) = {}
  <2>1. UNCHANGED vars
    BY <1>1 DEF Respond
  <2> QED
    BY <2>1 DEF vars, TypeOK, PublishedIsTrue, OneCard, FirstAnswerWins, InTurn
<1>2. CASE StillParked(i) # {}
  <2>1. PICK r \in StillParked(i) : TRUE
    BY <1>2
  <2>2. r \in parked /\ r.id = i
    BY <2>1 DEF StillParked
  <2>3. CASE o = "selected" /\ r.left > 0
    BY <2>1, <2>2, <2>3, NextQuestionKeeps DEF Respond
  <2>4. CASE ~(o = "selected" /\ r.left > 0)
    <3>1. issued \in Nat /\ won \in [1 .. issued -> Nat]
      BY DEF TypeOK
    <3>2. won' = [won EXCEPT ![i] = @ + 1] \o << >> /\ Settle({r}, o)
      BY <2>1, <2>4 DEF Respond
    <3>3. [won EXCEPT ![i] = @ + 1] \in [1 .. issued -> Nat]
      BY <3>1
    <3>4. won' = [won EXCEPT ![i] = @ + 1]
      BY <3>1, <3>2, <3>3, GrownByConcat
    <3> QED
      BY <2>2, <3>1, <3>2, <3>3, <3>4, SettleKeeps
  <2> QED
    BY <2>3, <2>4
<1> QED
  BY <1>1, <1>2

--------------------------------------------------------------------------------
(* Turns, tool calls and death *)

LEMMA PromptKeeps == ASSUME SessionInv, Prompt PROVE SessionInv'
<1> USE DEF SessionInv
<1>1. TypeOK'
  BY SessionBounds DEF TypeOK, Prompt, NoError, Died
<1>2. PublishedIsTrue'
  BY DEF PublishedIsTrue, Prompt, EmitState
<1>3. prompts' # {}
  BY DEF Prompt
<1> QED
  BY <1>1, <1>2, <1>3 DEF OneCard, FirstAnswerWins, InTurn, Prompt

LEMMA TurnEndsKeeps ==
  ASSUME SessionInv, NEW p \in prompts, tidy => parked = {} \/ ~LastTurn(p),
         lastError' \in {NoError, Died} \cup 1 .. asked, TurnEnds(p)
  PROVE  SessionInv'
<1> USE DEF SessionInv
<1>1. TypeOK'
  BY DEF TypeOK, TurnEnds, Terminalized, Row
<1>2. PublishedIsTrue'
  BY DEF PublishedIsTrue, TurnEnds, EmitState
<1>3. InTurn'
  <2> SUFFICES ASSUME tidy PROVE InTurn'
    BY DEF InTurn, TurnEnds
  <2>1. CASE LastTurn(p)
    BY <2>1 DEF InTurn, TurnEnds, Terminalized
  <2>2. CASE ~LastTurn(p)
    BY <2>2 DEF InTurn, TurnEnds, LastTurn
  <2> QED
    BY <2>1, <2>2
<1> QED
  BY <1>1, <1>2, <1>3 DEF OneCard, FirstAnswerWins, TurnEnds

LEMMA UpdateKeeps ==
  ASSUME SessionInv, NEW t \in Tool, NEW row \in {"running", "ended"}, Update(t, row)
  PROVE  SessionInv'
<1> USE DEF SessionInv
<1>1. TypeOK'
  BY DEF TypeOK, Update, Row
<1>2. InTurn'
  <2> SUFFICES ASSUME tidy PROVE InTurn'
    BY DEF InTurn, Update
  <2>1. DOMAIN shown = Tool \cup Form /\ shown' = [shown EXCEPT ![t] = row]
    BY DEF Update, TypeOK
  <2> QED
    BY <2>1 DEF InTurn, Update
<1> QED
  BY <1>1, <1>2 DEF PublishedIsTrue, OneCard, FirstAnswerWins, Update

LEMMA MarkDeadKeeps ==
  ASSUME SessionInv, MarkDead, link' \in {"open", "exited", "closed"}
  PROVE  SessionInv'
<1> USE DEF SessionInv
<1>1. CASE dead
  BY <1>1 DEF MarkDead, TypeOK, PublishedIsTrue, OneCard, FirstAnswerWins, InTurn
<1>2. CASE ~dead
  <2>1. /\ parked' = {} /\ verdicts' = Verdicts(parked, "cancelled") /\ open' = {}
        /\ shown' = Terminalized(Finished(shown, parked))
        /\ UNCHANGED <<tidy, prompts, asked, issued, won>>
    BY <1>2 DEF MarkDead, LeftOpen
  <2>2. shown' \in [Tool \cup Form -> Row]
    BY <2>1, FinishedRows DEF Terminalized, Row
  <2>3. TypeOK'
    BY <1>2, <2>1, <2>2, VerdictsAdd DEF TypeOK, MarkDead, Outcome
  <2>4. PublishedIsTrue'
    BY <1>2 DEF PublishedIsTrue, MarkDead, EmitState
  <2>5. FirstAnswerWins'
    <3> SUFFICES ASSUME NEW i \in 1 .. issued
                 PROVE  Len(verdicts'[i]) = 1 /\ won[i] <= 1
      BY <2>1 DEF FirstAnswerWins
    <3>1. Len(verdicts'[i]) = 1
      BY <2>1, SettledOnce DEF Outcome
    <3>2. won[i] \in Nat /\ won[i] <= Len(verdicts[i])
      BY DEF FirstAnswerWins, TypeOK
    <3>3. Len(verdicts[i]) = 0 \/ Len(verdicts[i]) = 1
      BY DEF FirstAnswerWins
    <3>4. won[i] <= 1
      <4>1. \A a \in Nat : a <= 0 => a <= 1
        OBVIOUS
      <4> QED
        BY <3>2, <3>3, <4>1, Zenon
    <3> QED
      BY <3>1, <3>4
  <2>6. InTurn'
    <3> SUFFICES ASSUME tidy, NEW t \in Tool \cup Form PROVE shown'[t] # "running"
      BY <2>1, <2>2 DEF InTurn
    <3>1. Finished(shown, parked) \in [Tool \cup Form -> Row]
      BY FinishedRows
    <3>2. CASE t \in open
      BY <2>1, <3>1, <3>2 DEF Terminalized
    <3>3. CASE t \notin open
      <4>1. shown'[t] = Finished(shown, parked)[t]
        BY <2>1, <3>1, <3>3 DEF Terminalized
      <4>2. DOMAIN shown = Tool \cup Form
        BY DEF TypeOK
      <4> QED
        BY <3>3, <4>1, <4>2, FinishedRows DEF InTurn
    <3> QED
      BY <3>2, <3>3
  <2> QED
    BY <2>1, <2>3, <2>4, <2>5, <2>6 DEF OneCard
<1> QED
  BY <1>1, <1>2

--------------------------------------------------------------------------------
(* The theorems *)

LEMMA SessionStep == SessionInv /\ [Next]_vars => SessionInv'
<1> SUFFICES ASSUME SessionInv, [Next]_vars PROVE SessionInv'
  OBVIOUS
<1>1. CASE Prompt
  BY <1>1, PromptKeeps
<1>2. ASSUME NEW p \in prompts, Return(p) PROVE SessionInv'
  <2>1. lastError' \in {NoError, Died} \cup 1 .. asked
    BY <1>2 DEF Return, SessionInv, TypeOK
  <2> QED
    BY <1>2, <2>1, TurnEndsKeeps DEF Return
<1>3. ASSUME NEW p \in prompts, Reject(p) PROVE SessionInv'
  <2>1. lastError' \in {NoError, Died} \cup 1 .. asked
    BY <1>3 DEF Reject, SessionInv, TypeOK
  <2> QED
    BY <1>3, <2>1, TurnEndsKeeps DEF Reject
<1>4. ASSUME NEW t \in Tool, NEW row \in {"running", "ended"}, Update(t, row)
      PROVE  SessionInv'
  BY <1>4, UpdateKeeps
<1>5. ASSUME NEW t \in Tool \cup Form, NEW left \in 0 .. Questions - 1, Ask(t, left)
      PROVE  SessionInv'
  BY <1>5, AskKeeps
<1>6. ASSUME NEW i \in 1 .. issued, NEW o \in Outcome, Respond(i, o) PROVE SessionInv'
  BY <1>6, RespondKeeps
<1>7. CASE Cancel
  BY <1>7, SettleKeeps DEF Cancel, Outcome, SessionInv, TypeOK
<1>8. ASSUME NEW r \in parked, Abort(r) PROVE SessionInv'
  BY <1>8, SettleKeeps DEF Abort, Outcome, SessionInv, TypeOK
<1>9. CASE Exit
  BY <1>9, MarkDeadKeeps DEF Exit
<1>10. CASE Close
  BY <1>10, MarkDeadKeeps DEF Close
<1>11. CASE UNCHANGED vars
  BY <1>11 DEF SessionInv, vars, TypeOK, PublishedIsTrue, OneCard, FirstAnswerWins, InTurn
<1> QED
  BY <1>1, <1>2, <1>3, <1>4, <1>5, <1>6, <1>7, <1>8, <1>9, <1>10, <1>11 DEF Next

LEMMA SessionInvHolds == Spec => []SessionInv
BY SessionInit, SessionStep, PTL DEF Spec

(* The session's maps and its parked requests keep their types.              *)
THEOREM SessionTypeCorrect == Spec => []TypeOK
<1>1. SessionInv => TypeOK
  BY DEF SessionInv
<1> QED
  BY <1>1, SessionInvHolds, PTL

(* A request gets one verdict, whoever answers, cancels, aborts or dies.     *)
THEOREM SessionFirstAnswerWins == Spec => []FirstAnswerWins
<1>1. SessionInv => FirstAnswerWins
  BY DEF SessionInv
<1> QED
  BY <1>1, SessionInvHolds, PTL

(* The newest state frame is the session's state.                            *)
THEOREM SessionPublishesTruth == Spec => []PublishedIsTrue
<1>1. SessionInv => PublishedIsTrue
  BY DEF SessionInv
<1> QED
  BY <1>1, SessionInvHolds, PTL

(* No row of a tidy adapter is left running once the last turn has ended.    *)
THEOREM SessionTurnsAreTidy == Spec => []NothingOutlivesTheTurn
<1>1. SessionInv => NothingOutlivesTheTurn
  BY DEF SessionInv, InTurn, NothingOutlivesTheTurn
<1> QED
  BY <1>1, SessionInvHolds, PTL

--------------------------------------------------------------------------------
(* What is settled stays settled *)

SettledKept ==
  \A i \in 1 .. issued : verdicts[i] # << >> => verdicts'[i] = verdicts[i] /\ won'[i] = won[i]

LEMMA NotParked ==
  ASSUME SessionInv, NEW i \in 1 .. issued, verdicts[i] # << >>
  PROVE  \A r \in parked : r.id # i
<1>1. verdicts[i] \in Seq(Outcome)
  BY DEF SessionInv, TypeOK
<1>2. Len(verdicts[i]) # 0
  BY <1>1, EmptySeq
<1> QED
  BY <1>2 DEF SessionInv, FirstAnswerWins

LEMMA SettleKeepsOthers ==
  ASSUME SessionInv, NEW rs \in SUBSET parked, NEW o, NEW i \in 1 .. issued,
         verdicts[i] # << >>
  PROVE  Verdicts(rs, o)[i] = verdicts[i]
BY NotParked DEF Verdicts, SessionInv, TypeOK

LEMMA RespondFinal ==
  ASSUME SessionInv, NEW n \in 1 .. issued, NEW o \in Outcome, Respond(n, o)
  PROVE  SettledKept
<1> SUFFICES ASSUME NEW i \in 1 .. issued, verdicts[i] # << >>
             PROVE  verdicts'[i] = verdicts[i] /\ won'[i] = won[i]
  BY DEF SettledKept
<1>1. CASE StillParked(n) = {}
  BY <1>1 DEF Respond, vars
<1>2. ASSUME NEW r \in StillParked(n) PROVE verdicts'[i] = verdicts[i] /\ won'[i] = won[i]
  <2>1. r \in parked /\ r.id = n /\ i # n
    BY NotParked DEF StillParked
  <2>2. /\ issued \in Nat /\ [won EXCEPT ![n] = @ + 1] \in [1 .. issued -> Nat]
        /\ [won EXCEPT ![n] = @ + 1][i] = won[i]
    <3>1. issued \in Nat /\ won \in [1 .. issued -> Nat]
      BY DEF SessionInv, TypeOK
    <3>2. [won EXCEPT ![n] = @ + 1] \in [1 .. issued -> Nat]
      BY <3>1
    <3>3. [won EXCEPT ![n] = @ + 1][i] = won[i]
      BY <2>1, <3>1
    <3> QED
      BY <3>1, <3>2, <3>3
  <2>3. Verdicts({r}, o)[i] = verdicts[i]
    BY <2>1, SettleKeepsOthers
  <2>4. CASE o = "selected" /\ r.left > 0
    <3>1. /\ won' = [won EXCEPT ![n] = @ + 1] \o <<0>>
          /\ verdicts' = Append(Verdicts({r}, "selected"), << >>)
      BY <2>4 DEF Respond, NextQuestion
    <3>2. won'[i] = [won EXCEPT ![n] = @ + 1][i]
      BY <2>2, <3>1, GrownByConcat
    <3>3. Verdicts({r}, "selected") \in [1 .. issued -> Seq(Outcome)]
      BY VerdictsAdd DEF SessionInv, Outcome
    <3>4. verdicts'[i] = Verdicts({r}, "selected")[i]
      BY <2>2, <3>1, <3>3, EmptySeq, Grown
    <3> QED
      BY <2>2, <2>3, <2>4, <3>2, <3>4
  <2>5. CASE ~(o = "selected" /\ r.left > 0)
    <3>1. won' = [won EXCEPT ![n] = @ + 1] \o << >> /\ verdicts' = Verdicts({r}, o)
      BY <2>5 DEF Respond, Settle
    <3>2. won' = [won EXCEPT ![n] = @ + 1]
      BY <2>2, <3>1, GrownByConcat
    <3> QED
      BY <2>2, <2>3, <3>1, <3>2
  <2> QED
    BY <2>4, <2>5
<1> QED
  BY <1>1, <1>2

LEMMA VerdictsKept == SessionInv /\ Next => SettledKept
<1> SUFFICES ASSUME SessionInv, Next PROVE SettledKept
  OBVIOUS
<1>1. ASSUME NEW t \in Tool \cup Form, NEW left \in 0 .. Questions - 1, Ask(t, left)
      PROVE  SettledKept
  <2>1. issued \in Nat /\ verdicts \in [1 .. issued -> Seq(Outcome)] /\ won \in [1 .. issued -> Nat]
    BY DEF SessionInv, TypeOK
  <2>2. verdicts' = Append(verdicts, << >>) /\ won' = Append(won, 0)
    BY <1>1 DEF Ask, Parked
  <2>3. << >> \in Seq(Outcome) /\ 0 \in Nat
    BY EmptySeq
  <2>4. \A i \in 1 .. issued : verdicts'[i] = verdicts[i]
    BY <2>1, <2>2, <2>3, Grown
  <2>5. \A i \in 1 .. issued : won'[i] = won[i]
    BY <2>1, <2>2, <2>3, Grown
  <2> QED
    BY <2>4, <2>5 DEF SettledKept
<1>2. ASSUME NEW n \in 1 .. issued, NEW o \in Outcome, Respond(n, o) PROVE SettledKept
  BY <1>2, RespondFinal
<1>3. ASSUME Cancel \/ \E r \in parked : Abort(r) PROVE SettledKept
  <2>1. won' = won /\ \E rs \in SUBSET parked : verdicts' = Verdicts(rs, "cancelled")
    BY <1>3 DEF Cancel, Abort, Settle
  <2> QED
    BY <2>1, SettleKeepsOthers DEF SettledKept
<1>4. ASSUME Exit \/ Close PROVE SettledKept
  <2>1. won' = won /\ (verdicts' = verdicts \/ verdicts' = Verdicts(parked, "cancelled"))
    BY <1>4 DEF Exit, Close, MarkDead, LeftOpen
  <2> QED
    BY <2>1, SettleKeepsOthers DEF SettledKept
<1>5. CASE UNCHANGED <<verdicts, won>>
  BY <1>5 DEF SettledKept
<1> QED
  BY <1>1, <1>2, <1>3, <1>4, <1>5 DEF Next, Prompt, Return, Reject, TurnEnds, Update

(* A request keeps its verdict and its winner, whatever comes later.          *)
THEOREM SessionVerdictsFinal == Spec => VerdictsFinal
<1>1. SessionInv /\ [Next]_vars =>
        [\A i \in 1 .. issued : verdicts[i] # << >> =>
           verdicts'[i] = verdicts[i] /\ won'[i] = won[i]]_vars
  BY VerdictsKept DEF SettledKept
<1> QED
  BY <1>1, SessionInvHolds, PTL DEF Spec, VerdictsFinal

--------------------------------------------------------------------------------
(* Death *)

(* A dead session has nothing parked. *)
Buried == dead => parked = {}

LEMMA BuriedStep == Buried /\ [Next]_vars => Buried'
<1> SUFFICES ASSUME Buried, [Next]_vars PROVE Buried'
  OBVIOUS
<1>1. CASE Exit \/ Close
  BY <1>1 DEF Exit, Close, MarkDead, LeftOpen, Buried
<1>2. ASSUME NEW n \in 1 .. issued, NEW o \in Outcome, Respond(n, o) PROVE Buried'
  <2>1. CASE StillParked(n) = {}
    BY <1>2, <2>1 DEF Respond, vars, Buried
  <2>2. CASE StillParked(n) # {}
    BY <1>2, <2>2 DEF Respond, NextQuestion, Settle, Buried
  <2> QED
    BY <2>1, <2>2
<1>3. CASE UNCHANGED vars
  BY <1>3 DEF vars, Buried
<1> QED
  BY <1>1, <1>2, <1>3 DEF Next, Buried, Prompt, Return, Reject, TurnEnds, Update, Ask, Cancel,
     Abort, Settle

LEMMA DeadStep ==
  ASSUME SessionInv, SessionInv', Buried, Buried', Next, dead
  PROVE  /\ dead' /\ parked' = {} /\ verdicts' = verdicts
         /\ prompts' \subseteq prompts /\ lastError' = lastError
         /\ published'.status = "dead"
<1>1. /\ dead' /\ verdicts' = verdicts
      /\ prompts' \subseteq prompts /\ lastError' = lastError
  <2>1. CASE Exit \/ Close
    BY <2>1 DEF Exit, Close, MarkDead
  <2>2. ASSUME NEW p \in prompts, Return(p) \/ Reject(p)
        PROVE  dead' /\ verdicts' = verdicts /\ prompts' \subseteq prompts /\ lastError' = lastError
    BY <2>2 DEF Return, Reject, TurnEnds
  <2> QED
    BY <2>1, <2>2 DEF Next, Buried, Prompt, Update, Ask, Respond, Cancel, Abort
<1>2. published'.status = "dead"
  BY <1>1 DEF SessionInv, PublishedIsTrue, Frame, Status
<1> QED
  BY <1>1, <1>2 DEF Buried

(* After its death a session asks and settles nothing and is shown as dead,    *)
(* with the cause it died of.                                                *)
THEOREM SessionDeathIsFinal == Spec => DeathIsFinal
<1>1. Init => Buried
  BY DEF Init, Buried
<1>2. SessionInv /\ SessionInv' /\ Buried /\ Buried' /\ [Next]_vars =>
        [dead => /\ dead' /\ parked' = {} /\ verdicts' = verdicts
                 /\ prompts' \subseteq prompts /\ lastError' = lastError
                 /\ published'.status = "dead"]_vars
  BY DeadStep
<1> QED
  BY <1>1, <1>2, BuriedStep, SessionInvHolds, PTL DEF Spec, DeathIsFinal
================================================================================
