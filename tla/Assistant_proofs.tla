--------------------------- MODULE Assistant_proofs ---------------------------
(***************************************************************************)
(* Proofs about the conversation of the assistant.                         *)
(***************************************************************************)
EXTENDS Assistant, FiniteSetTheorems, SequenceTheorems, TLAPS

Status == {"none", "pending", "confirmed", "rejected"}

\* A worker that serves a request knows its number, and one that is at the
\* terminal or at a rejection has a call in hand.
InHand ==
  /\ \A w \in Workers : at[w] # "off" => turn[w].request # 0
  /\ \A w \in Workers : at[w] \in {"gate", "type", "typed", "reject"} => todo[w] # <<>>

(***************************************************************************)
(* Sequences.                                                              *)
(***************************************************************************)
\* Rows about some calls are rows about more calls.
LEMMA WiderRows ==
  ASSUME NEW S, NEW T, S \subseteq T PROVE RowsOf(S) \subseteq RowsOf(T)
BY DEF RowsOf

\* So are turns.
LEMMA WiderTurns ==
  ASSUME NEW S, NEW T, S \subseteq T PROVE TurnsOf(S) \subseteq TurnsOf(T)
BY DEF TurnsOf

\* What the loop writes are rows.
LEMMA RowTypes ==
  ASSUME NEW S
  PROVE  /\ User \in RowsOf(S) /\ TurnEnd \in RowsOf(S)
         /\ \A cs \in SUBSET S : /\ Says(cs) \in RowsOf(S) /\ Results(cs) \in RowsOf(S)
                                 /\ Recovered(cs) \in RowsOf(S)
BY DEF User, TurnEnd, Says, Results, Recovered, Row, RowsOf

\* The window of the loop is a part of the transcript.
LEMMA RecentRows ==
  ASSUME TypeOK
  PROVE  /\ Recent \in Seq(RowsOf(DOMAIN calls))
         /\ \A i \in DOMAIN Recent : \E j \in DOMAIN rows : Recent[i] = rows[j]
<1> DEFINE m == IF Len(rows) > History THEN Len(rows) - History + 1 ELSE 1
<1>1. rows \in Seq(RowsOf(DOMAIN calls))
  BY DEF TypeOK
<1>2. History \in Nat
  BY BudgetAssumption
<1>3. m \in Int /\ m >= 1 /\ Len(rows) \in Nat
  BY <1>1, <1>2
<1>4. \A i \in m..Len(rows) : rows[i] \in RowsOf(DOMAIN calls) /\ i \in DOMAIN rows
  BY <1>1, <1>3
<1>5. Recent = SubSeq(rows, m, Len(rows))
  BY DEF Recent
<1> HIDE DEF m
<1>6. /\ SubSeq(rows, m, Len(rows)) \in Seq(RowsOf(DOMAIN calls))
      /\ Len(SubSeq(rows, m, Len(rows))) = IF m <= Len(rows) THEN Len(rows) - m + 1 ELSE 0
      /\ \A i \in 1..(Len(rows) - m + 1) : SubSeq(rows, m, Len(rows))[i] = rows[m + i - 1]
  BY <1>3, <1>4, SubSeqProperties
<1>7. ASSUME NEW i \in DOMAIN Recent PROVE \E j \in DOMAIN rows : Recent[i] = rows[j]
  <2>1. i \in 1..(Len(rows) - m + 1)
    BY <1>3, <1>5, <1>6
  <2>2. m + i - 1 \in m..Len(rows)
    BY <2>1, <1>3
  <2> QED
    BY <2>1, <2>2, <1>4, <1>5, <1>6
<1> QED
  BY <1>5, <1>6, <1>7

\* What is found open is about calls of the transcript.
LEMMA DanglingCalls ==
  ASSUME TypeOK
  PROVE  Dangling \subseteq UNION {rows[i].calls : i \in DOMAIN rows}
<1>1. \A i \in DOMAIN Recent : \E j \in DOMAIN rows : Recent[i] = rows[j]
  BY RecentRows
<1> QED
  BY <1>1 DEF Dangling, Open

(***************************************************************************)
(* Types.                                                                  *)
(***************************************************************************)
\* What a step may do to the types: one worker moves, calls are only added.
Tables ==
  /\ calls \in Seq(CallType) /\ Len(calls) <= MaxCalls
  /\ rows \in Seq(RowsOf(DOMAIN calls))
  /\ actions \in [1..MaxCalls -> Status]
  /\ clock \in 0..MaxClock /\ requests \in 0..MaxRequests
  /\ typed \in [1..MaxCalls -> Nat]
Moves(w, p, t, q, d) ==
  /\ at' = [at EXCEPT ![w] = p] /\ turn' = [turn EXCEPT ![w] = t]
  /\ todo' = [todo EXCEPT ![w] = q] /\ results' = [results EXCEPT ![w] = d]
Fits(cs, p, t, q, d) ==
  /\ p \in Places /\ t \in TurnsOf(cs) /\ q \in Seq(cs) /\ d \subseteq cs
  /\ p # "off" => t.request # 0
  /\ p \in {"gate", "type", "typed", "reject"} => q # <<>>

LEMMA WorkerStep ==
  ASSUME TypeOK, InHand, NEW w \in Workers, NEW p, NEW t, NEW q, NEW d,
         Tables', DOMAIN calls \subseteq DOMAIN calls',
         Moves(w, p, t, q, d), Fits(DOMAIN calls', p, t, q, d)
  PROVE  TypeOK' /\ InHand'
<1> USE DEF TypeOK, Status, Tables, Moves, Fits
<1>1. turn' \in [Workers -> TurnsOf(DOMAIN calls')]
  BY WiderTurns
<1>2. todo' \in [Workers -> Seq(DOMAIN calls')]
  <2>1. \A v \in Workers : todo[v] \in Seq(DOMAIN calls')
    BY SeqMonotonic
  <2> QED
    BY <2>1
<1>3. results' \in [Workers -> SUBSET DOMAIN calls']
  OBVIOUS
<1>4. at' \in [Workers -> Places]
  OBVIOUS
<1>5. TypeOK'
  BY <1>1, <1>2, <1>3, <1>4
<1>6. InHand'
  BY DEF InHand
<1> QED
  BY <1>5, <1>6

\* The transcript grows row by row.
LEMMA Appended ==
  ASSUME NEW S, NEW s \in Seq(S), NEW r \in S
  PROVE  /\ s \o <<>> = s
         /\ s \o <<r>> = Append(s, r)
         /\ Append(s, r) \in Seq(S)
BY ConcatEmptySeq, AppendIsConcat, AppendProperties

\* A worker that has a call in hand gets on to the next one.
LEMMA ResultFits ==
  ASSUME TypeOK, NEW w \in Workers, todo[w] # <<>>,
         NEW t \in TurnsOf(DOMAIN calls), t.request # 0
  PROVE  /\ Now(w) \in DOMAIN calls
         /\ Fits(DOMAIN calls, "calls", t, Tail(todo[w]), results[w] \cup {Now(w)})
<1>1. todo[w] \in Seq(DOMAIN calls)
  BY DEF TypeOK
<1>2. Head(todo[w]) \in DOMAIN calls /\ Tail(todo[w]) \in Seq(DOMAIN calls)
  BY <1>1, HeadTailProperties
<1> QED
  BY <1>2 DEF TypeOK, Now, Fits, Places

\* What is counted stays a turn.
LEMMA NotedFits ==
  ASSUME TypeOK, InHand, NEW w \in Workers, AtCall(w), Allowed(w)
  PROVE  Noted(w) \in TurnsOf(DOMAIN calls) /\ Noted(w).request # 0
         /\ (Noted(w).resumes <=> turn[w].resumes)
<1>1. turn[w] \in TurnsOf(DOMAIN calls) /\ turn[w].request # 0
  BY DEF TypeOK, InHand, AtCall
<1>2. Now(w) \in DOMAIN calls
  BY <1>1, ResultFits DEF AtCall
<1>3. ChangeBudget \in Nat /\ ReadLimit \in Nat
  BY BudgetAssumption
<1>4. CASE calls[Now(w)].tool = "read_terminal"
  BY <1>1, <1>2, <1>3, <1>4 DEF Noted, Allowed, TurnsOf
<1>5. CASE calls[Now(w)].tool # "read_terminal"
  <2> DEFINE n == [request |-> turn[w].request, changes |-> turn[w].changes + 1, reads |-> 0,
                   seen |-> turn[w].seen \cup {Now(w)}, resumes |-> turn[w].resumes]
  <2>1. Noted(w) = n
    BY <1>1, <1>5 DEF Noted, TurnsOf
  <2>2. turn[w].changes < ChangeBudget
    BY <1>5 DEF Allowed
  <2>3. n \in TurnsOf(DOMAIN calls) /\ n.request # 0 /\ (n.resumes <=> turn[w].resumes)
    BY <1>1, <1>2, <1>3, <2>2 DEF TurnsOf
  <2> QED
    BY <2>1, <2>3
<1> QED
  BY <1>4, <1>5

\* The calls of an answer get the next numbers.
LEMMA AskedCalls ==
  ASSUME TypeOK, InHand, NEW w \in Workers, NEW asked \in Rounds, Asks(w, asked)
  PROVE  /\ calls' \in Seq(CallType) /\ Len(calls') = Len(calls) + Len(asked)
         /\ Len(calls') <= MaxCalls /\ DOMAIN calls \subseteq DOMAIN calls'
         /\ New \subseteq DOMAIN calls'
         /\ \A i \in DOMAIN asked : Len(calls) + i \in DOMAIN calls'
         /\ \A i \in DOMAIN asked : Len(calls) + i \in New
         /\ rows \in Seq(RowsOf(DOMAIN calls'))
<1>c. rows \in Seq(RowsOf(DOMAIN calls)) /\ calls \in Seq(CallType)
  BY DEF TypeOK
<1> DEFINE added == [i \in DOMAIN asked |->
      [tool |-> asked[i][1], args |-> asked[i][2], request |-> turn[w].request]]
<1>1. turn[w].request \in 1..MaxRequests
  BY BoundsAssumption DEF Asks, TypeOK, InHand, TurnsOf
<1>2. PICK n \in 0..2 : asked \in [1..n -> Tools \X Args]
  BY DEF Rounds
<1>3. \A i \in 1..n : asked[i][1] \in Tools /\ asked[i][2] \in Args
  BY <1>2
<1>4. added \in [1..n -> CallType]
  BY <1>1, <1>2, <1>3 DEF CallType
<1>5. added \in Seq(CallType) /\ Len(added) = n /\ Len(asked) = n
  BY <1>2, <1>4
<1>6. calls' = calls \o added /\ Len(calls) + Len(asked) <= MaxCalls
  BY DEF Asks
<1> HIDE DEF added
<1>7. calls' \in Seq(CallType) /\ Len(calls') = Len(calls) + n
  BY <1>c, <1>5, <1>6, ConcatProperties
<1>8. DOMAIN calls = 1..Len(calls) /\ DOMAIN calls' = 1..(Len(calls) + n) /\ Len(calls) \in Nat
  BY <1>c, <1>7
<1>9. DOMAIN calls \subseteq DOMAIN calls' /\ \A i \in 1..n : Len(calls) + i \in DOMAIN calls'
  BY <1>8
<1>10. \A i \in 1..n : Len(calls) + i \in New
  BY <1>8, <1>9 DEF New
<1>11. rows \in Seq(RowsOf(DOMAIN calls'))
  <2>1. RowsOf(DOMAIN calls) \subseteq RowsOf(DOMAIN calls')
    BY <1>9, WiderRows
  <2> QED
    BY <1>c, <2>1, SeqMonotonic
<1> QED
  BY <1>2, <1>5, <1>6, <1>7, <1>9, <1>10, <1>11 DEF New

\* Types are kept by every worker and by every step of the panel.
LEMMA TypeStep == TypeOK /\ InHand /\ [Next]_vars => TypeOK' /\ InHand'
<1> SUFFICES ASSUME TypeOK, InHand, [Next]_vars PROVE TypeOK' /\ InHand'
  OBVIOUS
<1> USE DEF Status
<1>n. /\ ChangeBudget \in Nat /\ ReadLimit \in Nat /\ MaxRequests \in Nat
      /\ MaxCalls \in Nat /\ MaxClock \in Nat
  BY BudgetAssumption, BoundsAssumption
<1>c. rows \in Seq(RowsOf(DOMAIN calls)) /\ calls \in Seq(CallType)
  BY DEF TypeOK
<1>t. /\ NoTurn \in TurnsOf({})
      /\ \A S : NoTurn \in TurnsOf(S)
  BY <1>n DEF NoTurn, NewTurn, TurnsOf
<1>1. CASE Tick
  BY <1>1, <1>n DEF Tick, TypeOK, InHand, talk, round
<1>2. CASE Restart
  <2>1. <<>> \in Seq(DOMAIN calls)
    OBVIOUS
  <2> QED
    BY <1>2, <1>n, <1>t, <2>1 DEF Restart, TypeOK, InHand, talk, round, limits, Places
<1>3. ASSUME NEW w \in Workers, Chat(w) PROVE TypeOK' /\ InHand'
  <2> DEFINE t == NewTurn(requests', FALSE)
  <2>1. t \in TurnsOf(DOMAIN calls) /\ t.request # 0 /\ requests' \in 0..MaxRequests
    BY <1>3, <1>n DEF Chat, Starts, NewTurn, TurnsOf, TypeOK
  <2>2. Dangling \subseteq DOMAIN calls
    <3>1. Dangling \subseteq UNION {rows[i].calls : i \in DOMAIN rows}
      BY DanglingCalls
    <3>2. \A i \in DOMAIN rows : rows[i] \in RowsOf(DOMAIN calls)
      BY <1>c
    <3>3. \A r \in RowsOf(DOMAIN calls) : r.calls \subseteq DOMAIN calls
      BY DEF RowsOf
    <3> QED
      BY <3>1, <3>2, <3>3
  <2>3. Moves(w, "chat", t, todo[w], Dangling)
    BY <1>3 DEF Chat, TypeOK, Moves
  <2>4. Fits(DOMAIN calls, "chat", t, todo[w], Dangling)
    BY <2>1, <2>2 DEF TypeOK, Fits, Places
  <2>5. Tables' /\ calls' = calls
    BY <1>3, <2>1 DEF Chat, TypeOK, Tables, talk, limits
  <2> QED
    BY <2>3, <2>4, <2>5, WorkerStep
<1>4. ASSUME NEW w \in Workers, CloseDanglingToolCalls(w) PROVE TypeOK' /\ InHand'
  <2>1. results[w] \subseteq DOMAIN calls
    BY DEF TypeOK
  <2>2. rows' \in Seq(RowsOf(DOMAIN calls))
    <3>1. User \in RowsOf(DOMAIN calls) /\ Results(results[w]) \in RowsOf(DOMAIN calls)
      BY <2>1, RowTypes
    <3> QED
      BY <1>4, <1>c, <3>1, Appended DEF CloseDanglingToolCalls
  <2>3. Moves(w, "ask", turn[w], todo[w], {})
    BY <1>4 DEF CloseDanglingToolCalls, TypeOK, Moves
  <2>4. Fits(DOMAIN calls, "ask", turn[w], todo[w], {})
    BY <1>4 DEF CloseDanglingToolCalls, TypeOK, InHand, Fits, Places
  <2>5. Tables' /\ calls' = calls
    BY <1>4, <2>2 DEF CloseDanglingToolCalls, TypeOK, Tables, limits
  <2> QED
    BY <2>3, <2>4, <2>5, WorkerStep
<1>5. ASSUME NEW w \in Workers, NEW c \in DOMAIN calls, NEW approved \in BOOLEAN,
             Continue(w, c, approved)
      PROVE  TypeOK' /\ InHand'
  <2> DEFINE t == NewTurn(requests', TRUE)
             p == IF ~approved THEN "reject"
                  ELSE IF calls[c].tool = "run_shell" THEN "gate" ELSE "type"
  <2>1. t \in TurnsOf(DOMAIN calls) /\ t.request # 0 /\ requests' \in 0..MaxRequests
    BY <1>5, <1>n DEF Continue, Starts, NewTurn, TurnsOf, TypeOK
  <2>2. <<c>> \in Seq(DOMAIN calls) /\ <<c>> # <<>>
    OBVIOUS
  <2>3. Moves(w, p, t, <<c>>, results[w])
    BY <1>5 DEF Continue, TypeOK, Moves
  <2>4. Fits(DOMAIN calls, p, t, <<c>>, results[w])
    BY <2>1, <2>2 DEF TypeOK, Fits, Places
  <2>5. Tables' /\ calls' = calls
    BY <1>5, <2>1 DEF Continue, TypeOK, Tables, talk, limits
  <2> HIDE DEF t, p
  <2> QED
    BY <2>3, <2>4, <2>5, WorkerStep
<1>6. ASSUME NEW w \in Workers, Request(w) PROVE TypeOK' /\ InHand'
  <2>1. Moves(w, "stream", turn[w], todo[w], results[w])
    BY <1>6 DEF Request, TypeOK, Moves, round
  <2>2. Fits(DOMAIN calls, "stream", turn[w], todo[w], results[w])
    BY <1>6 DEF Request, TypeOK, InHand, Fits, Places
  <2>3. Tables' /\ calls' = calls
    BY <1>6 DEF Request, TypeOK, Tables, talk, limits
  <2> QED
    BY <2>1, <2>2, <2>3, WorkerStep
<1>7. \A w \in Workers : Leaves(w) =>
        Moves(w, "off", NoTurn, <<>>, {}) /\ Fits(DOMAIN calls', "off", NoTurn, <<>>, {})
  BY <1>t DEF Leaves, Moves, Fits, Places
<1>8. ASSUME NEW w \in Workers, NotEncodable(w) \/ TurnTimesOut(w) PROVE TypeOK' /\ InHand'
  <2>1. Ends(w, <<>>) /\ UNCHANGED <<calls, actions, limits, typed, requests>>
    BY <1>8 DEF NotEncodable, TurnTimesOut
  <2>2. TurnEnd \in RowsOf(DOMAIN calls)
    BY RowTypes
  <2>3. rows' \in Seq(RowsOf(DOMAIN calls))
    BY <1>c, <2>1, <2>2, Appended DEF Ends
  <2>4. Tables' /\ calls' = calls
    BY <2>1, <2>3 DEF TypeOK, Tables, limits
  <2> QED
    BY <1>7, <2>1, <2>4, WorkerStep DEF Ends
<1>r. \A cs \in SUBSET DOMAIN calls' :
        /\ Says(cs) \in RowsOf(DOMAIN calls') /\ Results(cs) \in RowsOf(DOMAIN calls')
        /\ Recovered(cs) \in RowsOf(DOMAIN calls')
  BY RowTypes
<1>e. TurnEnd \in RowsOf(DOMAIN calls') /\ Says({}) \in RowsOf(DOMAIN calls')
  BY RowTypes
<1>a. ASSUME NEW w \in Workers, NEW asked \in Rounds, Asks(w, asked)
      PROVE  /\ calls' \in Seq(CallType) /\ Len(calls') = Len(calls) + Len(asked)
             /\ Len(calls') <= MaxCalls /\ DOMAIN calls \subseteq DOMAIN calls'
             /\ New \subseteq DOMAIN calls'
             /\ \A i \in DOMAIN asked : Len(calls) + i \in DOMAIN calls'
             /\ rows \in Seq(RowsOf(DOMAIN calls'))
  BY <1>a, AskedCalls
<1>9. ASSUME NEW w \in Workers, NEW asked \in Rounds, Calls(w, asked) PROVE TypeOK' /\ InHand'
  <2> DEFINE q == [i \in DOMAIN asked |-> Len(calls) + i]
  <2>1. Asks(w, asked) /\ asked # <<>>
    BY <1>9 DEF Calls
  <2>2. rows' \in Seq(RowsOf(DOMAIN calls'))
    BY <1>9, <1>a, <1>r, <2>1, Appended DEF Calls, PersistAssistantTurn
  <2>3. q \in Seq(DOMAIN calls')
    <3>1. PICK n \in 0..2 : asked \in [1..n -> Tools \X Args]
      BY DEF Rounds
    <3> QED
      BY <1>a, <2>1, <3>1
  <2>4. Moves(w, "calls", turn[w], q, results[w])
    BY <1>9 DEF Calls, TypeOK, Moves
  <2>5. turn[w] \in TurnsOf(DOMAIN calls') /\ turn[w].request # 0
    BY <1>a, <2>1, WiderTurns DEF Asks, TypeOK, InHand
  <2>6. Fits(DOMAIN calls', "calls", turn[w], q, results[w])
    BY <1>a, <2>1, <2>3, <2>5 DEF TypeOK, Fits, Places
  <2>7. Tables'
    BY <1>9, <1>a, <2>1, <2>2 DEF Calls, TypeOK, Tables, limits
  <2> HIDE DEF q
  <2> QED
    BY <1>a, <2>1, <2>4, <2>6, <2>7, WorkerStep
<1>10. ASSUME NEW w \in Workers, NEW asked \in Rounds, CallsInText(w, asked)
       PROVE  TypeOK' /\ InHand'
  <2>1. Asks(w, asked) /\ Len(asked) = 1
    BY <1>10 DEF CallsInText
  <2>2. rows' \in Seq(RowsOf(DOMAIN calls'))
    BY <1>10, <1>a, <1>r, <1>e, <2>1, Appended DEF CallsInText
  <2>3. <<Len(calls) + 1>> \in Seq(DOMAIN calls')
    <3>1. PICK n \in 0..2 : asked \in [1..n -> Tools \X Args]
      BY DEF Rounds
    <3>2. 1 \in DOMAIN asked
      BY <2>1, <3>1
    <3>3. Len(calls) + 1 \in DOMAIN calls'
      BY <1>a, <2>1, <3>2
    <3> QED
      BY <3>3
  <2>4. Moves(w, "calls", turn[w], <<Len(calls) + 1>>, results[w])
    BY <1>10 DEF CallsInText, TypeOK, Moves
  <2>5. turn[w] \in TurnsOf(DOMAIN calls') /\ turn[w].request # 0
    BY <1>a, <2>1, WiderTurns DEF Asks, TypeOK, InHand
  <2>6. Fits(DOMAIN calls', "calls", turn[w], <<Len(calls) + 1>>, results[w])
    BY <1>a, <2>1, <2>3, <2>5 DEF TypeOK, Fits, Places
  <2>7. Tables'
    BY <1>10, <1>a, <2>1, <2>2 DEF CallsInText, TypeOK, Tables, limits
  <2> QED
    BY <1>a, <2>1, <2>4, <2>6, <2>7, WorkerStep
<1>11. ASSUME NEW w \in Workers, NEW asked \in Rounds, Answers(w, asked) PROVE TypeOK' /\ InHand'
  <2>1. Asks(w, asked) /\ Leaves(w) /\ UNCHANGED <<actions, limits, typed, requests>>
    BY <1>11 DEF Answers, Ends
  <2>2. rows' \in Seq(RowsOf(DOMAIN calls'))
    <3>1. rows \in Seq(RowsOf(DOMAIN calls')) /\ Says(New) \in RowsOf(DOMAIN calls')
      BY <1>a, <1>r, <2>1
    <3>2. rows' = Append(rows \o <<Says(New)>>, TurnEnd) \/ rows' = Append(rows \o <<>>, TurnEnd)
      BY <1>11 DEF Answers, Ends, PersistAssistantTurn
    <3>3. rows \o <<Says(New)>> \in Seq(RowsOf(DOMAIN calls'))
      BY <3>1, Appended
    <3>4. rows \o <<>> \in Seq(RowsOf(DOMAIN calls'))
      BY <3>1, <1>e, Appended
    <3> QED
      BY <3>2, <3>3, <3>4, <1>e, Appended
  <2>3. Tables'
    BY <1>a, <2>1, <2>2 DEF TypeOK, Tables, limits
  <2> QED
    BY <1>7, <1>a, <2>1, <2>3, WorkerStep
<1>i. \A w \in Workers : at[w] # "off" =>
        turn[w] \in TurnsOf(DOMAIN calls) /\ turn[w].request # 0
  BY DEF TypeOK, InHand
<1>12. ASSUME NEW w \in Workers, Refused(w) PROVE TypeOK' /\ InHand'
  <2>1. AtCall(w) /\ Leaves(w) /\ UNCHANGED <<calls, actions, limits, typed, requests>>
    BY <1>12 DEF Refused, Ends
  <2>2. Now(w) \in DOMAIN calls
    BY <1>i, <2>1, ResultFits DEF AtCall
  <2>3. results[w] \cup {Now(w)} \in SUBSET DOMAIN calls
    BY <2>2 DEF TypeOK
  <2>4. Results(results[w] \cup {Now(w)}) \in RowsOf(DOMAIN calls)
    BY <2>3, RowTypes
  <2>5. rows' \in Seq(RowsOf(DOMAIN calls))
    BY <1>12, <1>c, <1>e, <2>1, <2>4, Appended DEF Refused, Ends
  <2>6. Tables'
    BY <2>1, <2>5 DEF TypeOK, Tables, limits
  <2> QED
    BY <1>7, <2>1, <2>6, WorkerStep
<1>13. ASSUME NEW w \in Workers, Inline(w) PROVE TypeOK' /\ InHand'
  <2>1. AtCall(w) /\ Allowed(w) /\ Result(w) /\ turn' = [turn EXCEPT ![w] = Noted(w)]
        /\ UNCHANGED <<talk, limits, typed, requests>>
    BY <1>13 DEF Inline
  <2>2. Noted(w) \in TurnsOf(DOMAIN calls) /\ Noted(w).request # 0
    BY <2>1, NotedFits
  <2>3. Fits(DOMAIN calls, "calls", Noted(w), Tail(todo[w]), results[w] \cup {Now(w)})
    BY <2>1, <2>2, ResultFits DEF AtCall
  <2>4. Moves(w, "calls", Noted(w), Tail(todo[w]), results[w] \cup {Now(w)})
    BY <2>1 DEF Result, Moves
  <2>5. Tables' /\ calls' = calls
    BY <2>1 DEF TypeOK, Tables, talk, limits
  <2> QED
    BY <2>3, <2>4, <2>5, WorkerStep
<1>14. ASSUME NEW w \in Workers, NeedsConfirmation(w) PROVE TypeOK' /\ InHand'
  <2>1. Leaves(w) /\ AtCall(w) /\ UNCHANGED <<calls, limits, typed, requests>>
    BY <1>14 DEF NeedsConfirmation, Ends
  <2>2. rows' \in Seq(RowsOf(DOMAIN calls))
    BY <1>14, <1>c, <1>e, <2>1, Appended DEF NeedsConfirmation, Ends
  <2>3. actions' \in [1..MaxCalls -> Status]
    BY <1>14 DEF NeedsConfirmation, TypeOK
  <2>4. Tables'
    BY <2>1, <2>2, <2>3 DEF TypeOK, Tables, limits
  <2> QED
    BY <1>7, <2>1, <2>4, WorkerStep
<1>15. ASSUME NEW w \in Workers, ToTerminal(w) PROVE TypeOK' /\ InHand'
  <2>1. AtCall(w) /\ Allowed(w) /\ UNCHANGED <<talk, round, limits, typed, requests>>
    BY <1>15 DEF ToTerminal
  <2>2. Noted(w) \in TurnsOf(DOMAIN calls) /\ Noted(w).request # 0
    BY <2>1, NotedFits
  <2>3. Moves(w, "gate", Noted(w), todo[w], results[w])
    BY <1>15 DEF ToTerminal, TypeOK, Moves, round
  <2>4. Fits(DOMAIN calls, "gate", Noted(w), todo[w], results[w])
    BY <2>1, <2>2 DEF AtCall, TypeOK, Fits, Places
  <2>5. Tables' /\ calls' = calls
    BY <2>1 DEF TypeOK, Tables, talk, limits
  <2> QED
    BY <2>3, <2>4, <2>5, WorkerStep
<1>16. ASSUME NEW w \in Workers, PersistToolResults(w) PROVE TypeOK' /\ InHand'
  <2> DEFINE t == [turn[w] EXCEPT !.resumes = FALSE]
  <2>1. results[w] \in SUBSET DOMAIN calls /\ at[w] = "calls"
    BY <1>16 DEF PersistToolResults, TypeOK
  <2>2. rows' \in Seq(RowsOf(DOMAIN calls))
    <3>1. Results(results[w]) \in RowsOf(DOMAIN calls)
      BY <2>1, RowTypes
    <3> QED
      BY <1>16, <1>c, <3>1, Appended DEF PersistToolResults
  <2>3. t \in TurnsOf(DOMAIN calls) /\ t.request # 0
    BY <1>i, <2>1 DEF TurnsOf
  <2>4. Moves(w, "ask", t, todo[w], {})
    BY <1>16 DEF PersistToolResults, TypeOK, Moves
  <2>5. Fits(DOMAIN calls, "ask", t, todo[w], {})
    BY <2>3 DEF TypeOK, Fits, Places
  <2>6. Tables' /\ calls' = calls
    BY <1>16, <2>2 DEF PersistToolResults, TypeOK, Tables, limits
  <2> HIDE DEF t
  <2> QED
    BY <2>4, <2>5, <2>6, WorkerStep
<1>17. ASSUME NEW w \in Workers, at[w] \in {"gate", "type", "typed", "reject"}, Result(w),
              UNCHANGED turn, Tables', calls' = calls
       PROVE  TypeOK' /\ InHand'
  <2>1. todo[w] # <<>> /\ turn[w] \in TurnsOf(DOMAIN calls) /\ turn[w].request # 0
    BY <1>17, <1>i DEF InHand
  <2>2. Fits(DOMAIN calls, "calls", turn[w], Tail(todo[w]), results[w] \cup {Now(w)})
    BY <2>1, ResultFits
  <2>3. Moves(w, "calls", turn[w], Tail(todo[w]), results[w] \cup {Now(w)})
    BY <1>17 DEF Result, TypeOK, Moves
  <2> QED
    BY <1>17, <2>2, <2>3, WorkerStep
<1>18. ASSUME NEW w \in Workers, AiTerminalGate(w) \/ Unavailable(w) \/ ScreenLost(w)
       PROVE  TypeOK' /\ InHand'
  <2>1. Tables' /\ UNCHANGED <<calls, turn>> /\ at[w] \in {"gate", "type", "typed"}
    BY <1>18 DEF AiTerminalGate, Unavailable, ScreenLost, TypeOK, Tables, talk, limits
  <2>2. CASE Result(w)
    BY <1>17, <2>1, <2>2
  <2>3. CASE at' = [at EXCEPT ![w] = "type"] /\ UNCHANGED round
    <3>1. Moves(w, "type", turn[w], todo[w], results[w])
      BY <2>1, <2>3 DEF TypeOK, Moves, round
    <3>2. Fits(DOMAIN calls, "type", turn[w], todo[w], results[w])
      BY <1>i, <2>1 DEF TypeOK, InHand, Fits, Places
    <3> QED
      BY <2>1, <3>1, <3>2, WorkerStep
  <2> QED
    BY <1>18, <2>2, <2>3 DEF AiTerminalGate, Unavailable, ScreenLost
<1>19. ASSUME NEW w \in Workers, Types(w) PROVE TypeOK' /\ InHand'
  <2>1. Moves(w, "typed", turn[w], todo[w], results[w])
    BY <1>19 DEF Types, TypeOK, Moves, round
  <2>2. Fits(DOMAIN calls, "typed", turn[w], todo[w], results[w])
    BY <1>19, <1>i DEF Types, TypeOK, InHand, Fits, Places
  <2>3. typed' \in [1..MaxCalls -> Nat]
    <3>1. Now(w) \in DOMAIN calls /\ Len(calls) <= MaxCalls
      BY <1>19, <1>i, ResultFits DEF Types, InHand, TypeOK
    <3>2. Now(w) \in 1..MaxCalls
      BY <1>n, <1>c, <3>1
    <3>3. typed \in [1..MaxCalls -> Nat] /\ typed[Now(w)] + 1 \in Nat
      BY <3>2 DEF TypeOK
    <3>4. typed' = [typed EXCEPT ![Now(w)] = typed[Now(w)] + 1]
      BY <1>19 DEF Types
    <3> QED
      BY <3>3, <3>4
  <2>4. UNCHANGED <<rows, calls, actions, clock, requests>>
    BY <1>19 DEF Types, talk, limits
  <2>5. Tables' /\ calls' = calls
    BY <2>3, <2>4 DEF TypeOK, Tables
  <2> QED
    BY <2>1, <2>2, <2>5, WorkerStep
<1>20. ASSUME NEW w \in Workers, Finished(w) \/ Reject(w) PROVE TypeOK' /\ InHand'
  <2>1. /\ Result(w) /\ UNCHANGED <<rows, calls, turn, clock, typed, requests>>
        /\ at[w] \in {"gate", "type", "typed", "reject"}
    BY <1>20 DEF Finished, Reject, limits
  <2>2. actions' \in [1..MaxCalls -> Status]
    BY <1>20 DEF Finished, Reject, Decide, TypeOK
  <2>3. Tables'
    BY <2>1, <2>2 DEF TypeOK, Tables
  <2> QED
    BY <1>17, <2>1, <2>3
<1>21. CASE UNCHANGED vars
  BY <1>21 DEF vars, talk, round, limits, TypeOK, InHand
<1>22. ASSUME NEW w \in Workers, Turn(w) PROVE TypeOK' /\ InHand'
  BY <1>22, <1>4, <1>6, <1>8, <1>9, <1>10, <1>11, <1>12, <1>13, <1>14, <1>15, <1>16,
     <1>18, <1>19, <1>20 DEF Turn
<1> QED
  BY <1>1, <1>2, <1>3, <1>5, <1>21, <1>22 DEF Next

LEMMA TypeInit == Init => TypeOK /\ InHand
<1> SUFFICES ASSUME Init PROVE TypeOK /\ InHand
  OBVIOUS
<1>1. rows \in Seq(RowsOf(DOMAIN calls)) /\ calls \in Seq(CallType) /\ Len(calls) = 0
      /\ \A S : <<>> \in Seq(S)
  BY DEF Init
<1>2. MaxCalls \in Nat /\ MaxClock \in Nat /\ MaxRequests \in Nat
      /\ ChangeBudget \in Nat /\ ReadLimit \in Nat
  BY BudgetAssumption, BoundsAssumption
<1>3. NoTurn \in TurnsOf(DOMAIN calls)
  BY <1>2 DEF NoTurn, NewTurn, TurnsOf
<1> QED
  BY <1>1, <1>2, <1>3 DEF Init, TypeOK, InHand, Places

\* Every variable of the conversation keeps its type: the rows only ever name
\* calls that were asked for, and a turn its budget.
THEOREM TypeCorrect == Spec => []TypeOK
BY TypeInit, TypeStep, PTL DEF Spec

(***************************************************************************)
(* Answers and their calls.                                                *)
(***************************************************************************)
\* The calls a transcript asks for.
Said(rs) == UNION {rs[i].calls : i \in DOMAIN rs}
Follows(rs) ==
  \A i \in DOMAIN rs : \A c \in rs[i].answers : \E j \in 1..(i - 1) : c \in rs[j].calls

\* What workers and pending actions will answer has been asked for in a row.
Behind ==
  /\ Follows(rows)
  /\ \A w \in Workers : /\ results[w] \subseteq Said(rows)
                        /\ \A i \in DOMAIN todo[w] : todo[w][i] \in Said(rows)
  /\ \A c \in DOMAIN actions : actions[c] # "none" => c \in Said(rows)

\* A row may be added when its answers are about calls of earlier rows.
LEMMA RowFollows ==
  ASSUME NEW S, NEW rs \in Seq(RowsOf(S)), NEW r \in RowsOf(S),
         Follows(rs), r.answers \subseteq Said(rs)
  PROVE  /\ Append(rs, r) \in Seq(RowsOf(S))
         /\ Follows(Append(rs, r))
         /\ Said(Append(rs, r)) = Said(rs) \cup r.calls
         /\ r.calls = {} => Said(Append(rs, r)) = Said(rs)
<1> DEFINE new == Append(rs, r)
<1>1. /\ new \in Seq(RowsOf(S)) /\ Len(rs) \in Nat /\ Len(new) = Len(rs) + 1
      /\ \A i \in 1..Len(rs) : new[i] = rs[i]
      /\ new[Len(rs) + 1] = r
  BY AppendProperties
<1>2. DOMAIN rs = 1..Len(rs) /\ DOMAIN new = 1..(Len(rs) + 1)
  BY <1>1
<1> HIDE DEF new
<1>3. Said(new) = Said(rs) \cup r.calls
  <2>1. \A i \in DOMAIN new : new[i].calls \subseteq Said(rs) \cup r.calls
    BY <1>1, <1>2 DEF Said
  <2>2. Said(rs) \subseteq Said(new)
    BY <1>1, <1>2 DEF Said
  <2>3. r.calls \subseteq Said(new)
    BY <1>1, <1>2 DEF Said
  <2> QED
    BY <2>1, <2>2, <2>3 DEF Said
<1>4. Follows(new)
  <2> SUFFICES ASSUME NEW i \in DOMAIN new, NEW c \in new[i].answers
               PROVE  \E j \in 1..(i - 1) : c \in new[j].calls
    BY DEF Follows
  <2>1. CASE i = Len(rs) + 1
    <3>1. PICK j \in DOMAIN rs : c \in rs[j].calls
      BY <1>1, <2>1 DEF Said
    <3> QED
      BY <1>1, <1>2, <2>1, <3>1
  <2>2. CASE i \in 1..Len(rs)
    <3>1. PICK j \in 1..(i - 1) : c \in rs[j].calls
      BY <1>1, <1>2, <2>2 DEF Follows
    <3>2. j \in 1..Len(rs)
      BY <1>1, <2>2
    <3> QED
      BY <1>1, <3>1, <3>2
  <2> QED
    BY <1>2, <2>1, <2>2
<1> QED
  BY <1>1, <1>3, <1>4 DEF new

\* The rows that say nothing and answer nothing.
LEMMA Silent ==
  /\ User.answers = {} /\ User.calls = {} /\ TurnEnd.answers = {} /\ TurnEnd.calls = {}
  /\ \A cs : /\ Says(cs).calls = cs /\ Says(cs).answers = {}
             /\ Recovered(cs).calls = cs /\ Recovered(cs).answers = {}
             /\ Results(cs).calls = {} /\ Results(cs).answers = cs
BY DEF User, TurnEnd, Says, Recovered, Results, Row

\* What one worker may do to the rows and to what it holds.
LEMMA BehindStep ==
  ASSUME TypeOK, Behind, NEW w \in Workers, NEW q, NEW d,
         todo' = [todo EXCEPT ![w] = q], results' = [results EXCEPT ![w] = d],
         Follows(rows'), Said(rows) \subseteq Said(rows'),
         \A i \in DOMAIN q : q[i] \in Said(rows'), d \subseteq Said(rows'),
         DOMAIN actions' = DOMAIN actions,
         \A c \in DOMAIN actions : actions'[c] # "none" => actions[c] # "none" \/ c \in Said(rows')
  PROVE  Behind'
<1>1. \A v \in Workers : results'[v] \subseteq Said(rows')
  BY DEF Behind, TypeOK
<1>2. \A v \in Workers : \A i \in DOMAIN todo'[v] : todo'[v][i] \in Said(rows')
  BY DEF Behind, TypeOK
<1>3. \A c \in DOMAIN actions' : actions'[c] # "none" => c \in Said(rows')
  BY DEF Behind
<1> QED
  BY <1>1, <1>2, <1>3 DEF Behind

\* What is found open has been asked for, and so has the call in hand.
LEMMA BehindFacts ==
  ASSUME TypeOK, Behind
  PROVE  /\ Dangling \subseteq Said(rows)
         /\ \A w \in Workers : todo[w] # <<>> =>
              /\ Now(w) \in Said(rows)
              /\ \A i \in DOMAIN Tail(todo[w]) : Tail(todo[w])[i] \in Said(rows)
<1>1. Dangling \subseteq Said(rows)
  BY DanglingCalls DEF Said
<1>2. ASSUME NEW w \in Workers, todo[w] # <<>>
      PROVE  /\ Now(w) \in Said(rows)
             /\ \A i \in DOMAIN Tail(todo[w]) : Tail(todo[w])[i] \in Said(rows)
  <2>1. todo[w] \in Seq(DOMAIN calls)
    BY DEF TypeOK
  <2>2. /\ Tail(todo[w]) \in Seq(DOMAIN calls) /\ Len(todo[w]) \in Nat \ {0}
        /\ Len(Tail(todo[w])) = Len(todo[w]) - 1
        /\ \A i \in 1..Len(Tail(todo[w])) : Tail(todo[w])[i] = todo[w][i + 1]
    BY <1>2, <2>1, HeadTailProperties, EmptySeq
  <2>3. Head(todo[w]) = todo[w][1]
    BY <1>2, <2>1
  <2>4. \A i \in 1..Len(todo[w]) : todo[w][i] \in Said(rows)
    BY <2>1 DEF Behind
  <2> QED
    BY <2>2, <2>3, <2>4 DEF Now
<1> QED
  BY <1>1, <1>2

\* Every step keeps the answers behind their calls.
LEMMA BehindNext == TypeOK /\ InHand /\ Behind /\ [Next]_vars => Behind'
<1> SUFFICES ASSUME TypeOK, InHand, Behind, [Next]_vars PROVE Behind'
  OBVIOUS
<1>c. rows \in Seq(RowsOf(DOMAIN calls)) /\ Follows(rows)
  BY DEF TypeOK, Behind
<1>f. /\ \A w \in Workers : todo[w] # <<>> =>
           /\ Now(w) \in Said(rows)
           /\ \A i \in DOMAIN Tail(todo[w]) : Tail(todo[w])[i] \in Said(rows)
      /\ \A w \in Workers : /\ results[w] \subseteq Said(rows)
                            /\ \A i \in DOMAIN todo[w] : todo[w][i] \in Said(rows)
  BY BehindFacts DEF Behind
<1>h. \A w \in Workers : todo = [todo EXCEPT ![w] = todo[w]] /\ results = [results EXCEPT ![w] = results[w]]
  BY DEF TypeOK
<1>e. \A S : TurnEnd \in RowsOf(S) /\ User \in RowsOf(S)
  BY RowTypes
<1>a. \A S : \A rs \in Seq(RowsOf(S)), r \in RowsOf(S) :
        Follows(rs) /\ r.answers \subseteq Said(rs) =>
          /\ Append(rs, r) \in Seq(RowsOf(S)) /\ Follows(Append(rs, r))
          /\ Said(Append(rs, r)) = Said(rs) \cup r.calls
          /\ r.calls = {} => Said(Append(rs, r)) = Said(rs)
  BY RowFollows
\* Steps that add rows and leave the actions alone.
<1>g. ASSUME NEW w \in Workers, NEW q, NEW d, UNCHANGED actions,
             todo' = [todo EXCEPT ![w] = q], results' = [results EXCEPT ![w] = d],
             Follows(rows'), Said(rows) \subseteq Said(rows'),
             \A i \in DOMAIN q : q[i] \in Said(rows'), d \subseteq Said(rows')
      PROVE  Behind'
  BY <1>g, BehindStep
\* Steps that leave the rows and the actions alone.
<1>s. ASSUME NEW w \in Workers, NEW q, NEW d, UNCHANGED <<rows, actions>>,
             todo' = [todo EXCEPT ![w] = q], results' = [results EXCEPT ![w] = d],
             \A i \in DOMAIN q : q[i] \in Said(rows), d \subseteq Said(rows)
      PROVE  Behind'
  BY <1>s, <1>c, BehindStep
<1>1. CASE Tick
  BY <1>1 DEF Tick, talk, round, Behind
<1>2. CASE Restart
  BY <1>2 DEF Restart, talk, Behind
<1>3. ASSUME NEW w \in Workers, Chat(w) PROVE Behind'
  <2>1. UNCHANGED <<rows, actions, todo>> /\ results' = [results EXCEPT ![w] = Dangling]
    BY <1>3 DEF Chat, talk
  <2>2. todo' = [todo EXCEPT ![w] = todo[w]]
    BY <1>h, <2>1
  <2> QED
    BY <1>f, <1>s, <2>1, <2>2, BehindFacts
<1>4. ASSUME NEW w \in Workers, CloseDanglingToolCalls(w) PROVE Behind'
  <2> DEFINE r == Results(results[w])
             rs == IF results[w] = {} THEN rows ELSE Append(rows, r)
  <2>1. rows' = Append(rs, User) /\ UNCHANGED <<actions, todo>> /\ results' = [results EXCEPT ![w] = {}]
    BY <1>4 DEF CloseDanglingToolCalls
  <2>2. r \in RowsOf(DOMAIN calls) /\ r.answers = results[w] /\ r.calls = {}
    BY RowTypes, Silent DEF TypeOK
  <2> HIDE DEF r
  <2>3. rs \in Seq(RowsOf(DOMAIN calls)) /\ Follows(rs) /\ Said(rs) = Said(rows)
    <3>1. CASE results[w] = {}
      BY <1>c, <3>1
    <3>2. CASE results[w] # {}
      <4>1. /\ Append(rows, r) \in Seq(RowsOf(DOMAIN calls)) /\ Follows(Append(rows, r))
            /\ Said(Append(rows, r)) = Said(rows)
        BY <1>a, <1>c, <1>f, <2>2
      <4> QED
        BY <3>2, <4>1
    <3> QED
      BY <3>1, <3>2
  <2> HIDE DEF rs
  <2>4. Follows(rows') /\ Said(rows') = Said(rows)
    <3>1. User \in RowsOf(DOMAIN calls) /\ User.answers = {} /\ User.calls = {}
      BY <1>e, Silent
    <3> QED
      BY <1>a, <2>1, <2>3, <3>1
  <2>5. todo' = [todo EXCEPT ![w] = todo[w]]
    BY <1>h, <2>1
  <2> QED
    <3>1. \A i \in DOMAIN todo[w] : todo[w][i] \in Said(rows')
      BY <1>f, <2>4
    <3>2. UNCHANGED actions /\ Said(rows) \subseteq Said(rows') /\ {} \subseteq Said(rows')
      BY <2>1, <2>4
    <3>3. results' = [results EXCEPT ![w] = {}]
      BY <2>1
    <3> QED
      BY <1>g, <2>4, <2>5, <3>1, <3>2, <3>3
<1>5. ASSUME NEW w \in Workers, NEW c \in DOMAIN calls, NEW approved \in BOOLEAN,
             Continue(w, c, approved)
      PROVE  Behind'
  <2>1. UNCHANGED <<rows, actions, results>> /\ todo' = [todo EXCEPT ![w] = <<c>>]
        /\ actions[c] = "pending"
    BY <1>5 DEF Continue, talk
  <2>2. c \in Said(rows)
    <3>1. c \in DOMAIN actions
      BY BoundsAssumption DEF TypeOK
    <3> QED
      BY <2>1, <3>1 DEF Behind
  <2>3. results' = [results EXCEPT ![w] = results[w]]
    BY <1>h, <2>1
  <2>4. \A i \in DOMAIN <<c>> : <<c>>[i] \in Said(rows)
    BY <2>2
  <2> QED
    BY <1>f, <1>s, <2>1, <2>3, <2>4
<1>6. ASSUME NEW w \in Workers,
             Request(w) \/ AiTerminalGate(w) \/ Unavailable(w) \/ ScreenLost(w) \/ Types(w)
               \/ Inline(w) \/ ToTerminal(w)
      PROVE  Behind'
  <2>1. UNCHANGED <<rows, actions>>
    BY <1>6 DEF Request, AiTerminalGate, Unavailable, ScreenLost, Types, Inline, ToTerminal, talk
  <2>2. CASE UNCHANGED round
    BY <2>1, <2>2 DEF round, Behind
  <2>3. CASE Result(w) /\ todo[w] # <<>>
    <3>1. /\ todo' = [todo EXCEPT ![w] = Tail(todo[w])]
          /\ results' = [results EXCEPT ![w] = results[w] \cup {Now(w)}]
      BY <2>3 DEF Result
    <3>2. results[w] \cup {Now(w)} \subseteq Said(rows)
      BY <1>f, <2>3
    <3> QED
      BY <1>f, <1>s, <2>1, <2>3, <3>1, <3>2
  <2>4. CASE Request(w) \/ Types(w) \/ ToTerminal(w)
    <3>1. UNCHANGED round
      BY <2>4 DEF Request, Types, ToTerminal
    <3> QED
      BY <2>2, <3>1
  <2>5. CASE AiTerminalGate(w) \/ Unavailable(w) \/ ScreenLost(w) \/ Inline(w)
    <3>1. todo[w] # <<>>
      BY <2>5 DEF AiTerminalGate, Unavailable, ScreenLost, Inline, AtCall, InHand
    <3>2. UNCHANGED round \/ Result(w)
      BY <2>5 DEF AiTerminalGate, Unavailable, ScreenLost, Inline
    <3> QED
      BY <2>2, <2>3, <3>1, <3>2
  <2> QED
    BY <1>6, <2>4, <2>5
\* The end of a turn with what it still stores.
<1>l. ASSUME NEW w \in Workers, NEW rs, NEW S, rs \in Seq(RowsOf(S)), Follows(rs),
             Said(rows) \subseteq Said(rs), rows' = Append(rs, TurnEnd), Leaves(w),
             UNCHANGED actions
      PROVE  Behind'
  <2>1. TurnEnd \in RowsOf(S) /\ TurnEnd.answers = {} /\ TurnEnd.calls = {}
    BY <1>e, Silent
  <2>2. TurnEnd.answers \subseteq Said(rs)
    BY <2>1
  <2>3. Follows(Append(rs, TurnEnd)) /\ Said(Append(rs, TurnEnd)) = Said(rs)
    BY <1>a, <1>l, <2>1, <2>2
  <2>4. Follows(rows') /\ Said(rows) \subseteq Said(rows')
    BY <1>l, <2>3
  <2>5. todo' = [todo EXCEPT ![w] = <<>>] /\ results' = [results EXCEPT ![w] = {}]
    BY <1>l DEF Leaves
  <2>6. \A i \in DOMAIN <<>> : <<>>[i] \in Said(rows')
    OBVIOUS
  <2>7. {} \subseteq Said(rows')
    OBVIOUS
  <2>8. UNCHANGED actions
    BY <1>l
  <2> QED
    BY <1>g, <2>4, <2>5, <2>6, <2>7, <2>8
<1>7. ASSUME NEW w \in Workers, NotEncodable(w) \/ TurnTimesOut(w) PROVE Behind'
  <2>1. rows' = Append(rows \o <<>>, TurnEnd) /\ Leaves(w) /\ UNCHANGED actions
    BY <1>7 DEF NotEncodable, TurnTimesOut, Ends
  <2>2. rows \o <<>> = rows
    BY <1>c, <1>e, Appended
  <2> QED
    BY <1>c, <1>l, <2>1, <2>2
<1>8. ASSUME NEW w \in Workers, Refused(w) PROVE Behind'
  <2> DEFINE r == Results(results[w] \cup {Now(w)})
  <2>1. AtCall(w) /\ rows' = Append(rows \o <<r>>, TurnEnd) /\ Leaves(w) /\ UNCHANGED actions
    BY <1>8 DEF Refused, Ends
  <2>2. Now(w) \in DOMAIN calls
    BY <2>1, ResultFits DEF AtCall, TypeOK, InHand
  <2>3. r \in RowsOf(DOMAIN calls) /\ r.answers = results[w] \cup {Now(w)} /\ r.calls = {}
    BY <2>2, RowTypes, Silent DEF TypeOK
  <2>4. r.answers \subseteq Said(rows)
    BY <1>f, <2>1, <2>3 DEF AtCall
  <2> HIDE DEF r
  <2>5. /\ Append(rows, r) \in Seq(RowsOf(DOMAIN calls)) /\ Follows(Append(rows, r))
        /\ Said(rows) \subseteq Said(Append(rows, r))
    BY <1>a, <1>c, <2>3, <2>4
  <2>6. rows \o <<r>> = Append(rows, r)
    BY <1>c, <2>3, Appended
  <2>7. rows' = Append(Append(rows, r), TurnEnd)
    BY <2>1, <2>6
  <2> QED
    BY <1>l, <2>1, <2>5, <2>7
<1>9. ASSUME NEW w \in Workers, PersistToolResults(w) PROVE Behind'
  <2> DEFINE r == Results(results[w])
  <2>1. /\ rows' = Append(rows, r) /\ UNCHANGED <<actions, todo>>
        /\ results' = [results EXCEPT ![w] = {}]
    BY <1>9 DEF PersistToolResults
  <2>2. r \in RowsOf(DOMAIN calls) /\ r.answers = results[w] /\ r.calls = {}
    BY RowTypes, Silent DEF TypeOK
  <2> HIDE DEF r
  <2>3. Follows(Append(rows, r)) /\ Said(Append(rows, r)) = Said(rows)
    BY <1>a, <1>c, <1>f, <2>2
  <2>4. Follows(rows') /\ Said(rows) \subseteq Said(rows') /\ {} \subseteq Said(rows')
    BY <2>1, <2>3
  <2>5. \A i \in DOMAIN todo[w] : todo[w][i] \in Said(rows')
    BY <1>f, <2>4
  <2>6. todo' = [todo EXCEPT ![w] = todo[w]]
    BY <1>h, <2>1
  <2>7. UNCHANGED actions /\ results' = [results EXCEPT ![w] = {}]
    BY <2>1
  <2> QED
    BY <1>g, <2>4, <2>5, <2>6, <2>7
<1>10. ASSUME NEW w \in Workers, NEW asked \in Rounds, Calls(w, asked) PROVE Behind'
  <2> DEFINE q == [i \in DOMAIN asked |-> Len(calls) + i]
             r == Says(New)
  <2>1. /\ Asks(w, asked) /\ rows' = rows \o <<r>> /\ todo' = [todo EXCEPT ![w] = q]
        /\ UNCHANGED <<actions, results>>
    BY <1>10 DEF Calls, PersistAssistantTurn
  <2>2. /\ rows \in Seq(RowsOf(DOMAIN calls')) /\ New \subseteq DOMAIN calls'
        /\ \A i \in DOMAIN q : q[i] \in New
    BY <2>1, AskedCalls
  <2>3. r \in RowsOf(DOMAIN calls') /\ r.calls = New /\ r.answers = {}
    BY <2>2, RowTypes, Silent
  <2> HIDE DEF q, r
  <2>4. Follows(Append(rows, r)) /\ Said(Append(rows, r)) = Said(rows) \cup New
    BY <1>a, <1>c, <2>2, <2>3
  <2>5. rows \o <<r>> = Append(rows, r)
    BY <2>2, <2>3, Appended
  <2>6. Follows(rows') /\ Said(rows) \subseteq Said(rows') /\ New \subseteq Said(rows')
    BY <2>1, <2>4, <2>5
  <2>7. \A i \in DOMAIN q : q[i] \in Said(rows')
    BY <2>2, <2>6
  <2>8. results' = [results EXCEPT ![w] = results[w]] /\ results[w] \subseteq Said(rows')
    BY <1>f, <1>h, <2>1, <2>6
  <2>9. UNCHANGED actions /\ todo' = [todo EXCEPT ![w] = q]
    BY <2>1
  <2> QED
    BY <1>g, <2>6, <2>7, <2>8, <2>9
<1>11. ASSUME NEW w \in Workers, NEW asked \in Rounds, CallsInText(w, asked) PROVE Behind'
  <2> DEFINE m == Says({})
             r == Recovered(New)
             n == Len(calls) + 1
  <2>1. /\ Asks(w, asked) /\ Len(asked) = 1 /\ rows' = Append(Append(rows, m), r)
        /\ todo' = [todo EXCEPT ![w] = <<n>>] /\ UNCHANGED <<actions, results>>
    BY <1>11 DEF CallsInText
  <2>2. /\ rows \in Seq(RowsOf(DOMAIN calls')) /\ New \subseteq DOMAIN calls' /\ n \in New
    <3>1. 1 \in DOMAIN asked
      BY <2>1 DEF Rounds
    <3> QED
      BY <2>1, <3>1, AskedCalls
  <2>3. /\ m \in RowsOf(DOMAIN calls') /\ m.calls = {} /\ m.answers = {}
        /\ r \in RowsOf(DOMAIN calls') /\ r.calls = New /\ r.answers = {}
    BY <2>2, RowTypes, Silent
  <2> HIDE DEF m, r, n
  <2>4. /\ Append(rows, m) \in Seq(RowsOf(DOMAIN calls')) /\ Follows(Append(rows, m))
        /\ Said(Append(rows, m)) = Said(rows)
    BY <1>a, <1>c, <2>2, <2>3
  <2>5. /\ Follows(Append(Append(rows, m), r))
        /\ Said(Append(Append(rows, m), r)) = Said(Append(rows, m)) \cup New
    <3> DEFINE rs == Append(rows, m)
    <3>1. /\ rs \in Seq(RowsOf(DOMAIN calls')) /\ Follows(rs)
          /\ r \in RowsOf(DOMAIN calls') /\ r.calls = New /\ r.answers \subseteq Said(rs)
      BY <2>3, <2>4
    <3> HIDE DEF rs
    <3>2. Follows(Append(rs, r)) /\ Said(Append(rs, r)) = Said(rs) \cup New
      BY <1>a, <3>1
    <3> QED
      BY <3>2 DEF rs
  <2>6. Follows(rows') /\ Said(rows) \subseteq Said(rows') /\ New \subseteq Said(rows')
    BY <2>1, <2>4, <2>5
  <2>7. \A i \in DOMAIN <<n>> : <<n>>[i] \in Said(rows')
    BY <2>2, <2>6
  <2>8. results' = [results EXCEPT ![w] = results[w]] /\ results[w] \subseteq Said(rows')
    BY <1>f, <1>h, <2>1, <2>6
  <2>9. UNCHANGED actions /\ todo' = [todo EXCEPT ![w] = <<n>>]
    BY <2>1
  <2> QED
    BY <1>g, <2>6, <2>7, <2>8, <2>9
<1>12. ASSUME NEW w \in Workers, NEW asked \in Rounds, Answers(w, asked) PROVE Behind'
  <2> DEFINE r == Says(New)
  <2>1. /\ Asks(w, asked) /\ Leaves(w) /\ UNCHANGED actions
        /\ rows' = Append(rows \o <<r>>, TurnEnd) \/ rows' = Append(rows \o <<>>, TurnEnd)
    BY <1>12 DEF Answers, Ends, PersistAssistantTurn
  <2>2. rows \in Seq(RowsOf(DOMAIN calls')) /\ New \subseteq DOMAIN calls'
    BY <2>1, AskedCalls
  <2>3. r \in RowsOf(DOMAIN calls') /\ r.answers = {}
    BY <2>2, RowTypes, Silent
  <2> HIDE DEF r
  <2>4. /\ Append(rows, r) \in Seq(RowsOf(DOMAIN calls')) /\ Follows(Append(rows, r))
        /\ Said(rows) \subseteq Said(Append(rows, r))
    BY <1>a, <1>c, <2>2, <2>3
  <2>5. rows \o <<r>> = Append(rows, r) /\ rows \o <<>> = rows
    BY <2>2, <2>3, Appended
  <2>6. CASE rows' = Append(Append(rows, r), TurnEnd)
    BY <1>l, <2>1, <2>4, <2>6
  <2>7. CASE rows' = Append(rows, TurnEnd)
    BY <1>c, <1>l, <2>1, <2>7
  <2> QED
    BY <2>1, <2>5, <2>6, <2>7
<1>13. ASSUME NEW w \in Workers, NeedsConfirmation(w) PROVE Behind'
  <2>1. /\ AtCall(w) /\ Leaves(w) /\ actions' = [actions EXCEPT ![Now(w)] = "pending"]
        /\ rows' = Append(rows \o <<>>, TurnEnd) \/ rows' = rows
    BY <1>13 DEF NeedsConfirmation, Ends
  <2>2. Follows(rows') /\ Said(rows) \subseteq Said(rows')
    <3>1. rows \o <<>> = rows /\ TurnEnd \in RowsOf(DOMAIN calls)
      BY <1>c, <1>e, Appended
    <3>2. TurnEnd.answers = {} /\ TurnEnd.calls = {}
      BY Silent
    <3>3. Follows(Append(rows, TurnEnd)) /\ Said(Append(rows, TurnEnd)) = Said(rows)
      BY <1>a, <1>c, <3>1, <3>2
    <3> QED
      BY <1>c, <2>1, <3>1, <3>3
  <2>3. Now(w) \in Said(rows)
    BY <1>f, <2>1 DEF AtCall
  <2>4. /\ DOMAIN actions' = DOMAIN actions
        /\ \A c \in DOMAIN actions : actions'[c] # "none" =>
             actions[c] # "none" \/ c \in Said(rows')
    BY <2>1, <2>2, <2>3 DEF TypeOK
  <2>5. todo' = [todo EXCEPT ![w] = <<>>] /\ results' = [results EXCEPT ![w] = {}]
    BY <2>1 DEF Leaves
  <2>6. (\A i \in DOMAIN <<>> : <<>>[i] \in Said(rows')) /\ {} \subseteq Said(rows')
    OBVIOUS
  <2> QED
    BY <2>2, <2>4, <2>5, <2>6, BehindStep
<1>14. ASSUME NEW w \in Workers, Finished(w) \/ Reject(w) PROVE Behind'
  <2>1. /\ Result(w) /\ rows' = rows /\ at[w] \in {"typed", "reject"}
    BY <1>14 DEF Finished, Reject
  <2>2. /\ DOMAIN actions' = DOMAIN actions
        /\ \A c \in DOMAIN actions : actions'[c] # "none" => actions[c] # "none" \/ c \in Said(rows')
    BY <1>14 DEF Finished, Reject, Decide, TypeOK
  <2>3. todo[w] # <<>>
    BY <2>1 DEF InHand
  <2>4. /\ todo' = [todo EXCEPT ![w] = Tail(todo[w])]
        /\ results' = [results EXCEPT ![w] = results[w] \cup {Now(w)}]
    BY <2>1 DEF Result
  <2>5. results[w] \cup {Now(w)} \subseteq Said(rows')
    BY <1>f, <2>1, <2>3
  <2>6. \A i \in DOMAIN Tail(todo[w]) : Tail(todo[w])[i] \in Said(rows')
    BY <1>f, <2>1, <2>3
  <2>7. Follows(rows') /\ Said(rows) \subseteq Said(rows')
    BY <1>c, <2>1
  <2> QED
    BY <2>2, <2>4, <2>5, <2>6, <2>7, BehindStep
<1>15. CASE UNCHANGED vars
  BY <1>15 DEF vars, talk, round, Behind
<1>16. ASSUME NEW w \in Workers, Turn(w) PROVE Behind'
  BY <1>16, <1>4, <1>6, <1>7, <1>8, <1>9, <1>10, <1>11, <1>12, <1>13, <1>14 DEF Turn
<1> QED
  BY <1>1, <1>2, <1>3, <1>5, <1>15, <1>16 DEF Next

\* No request, repair or confirmation stores an answer before, or without, the
\* row that asks for it, for any workers, budgets, window and dialect.
THEOREM AnswersStandBehindCalls == Spec => []AnswersFollowCalls
<1>1. Init => Behind
  BY DEF Init, Behind, Follows, Said
<1>2. Behind => AnswersFollowCalls
  BY DEF Behind, Follows, AnswersFollowCalls
<1> QED
  BY <1>1, <1>2, TypeInit, TypeStep, BehindNext, PTL DEF Spec

(***************************************************************************)
(* Confirmations.                                                          *)
(***************************************************************************)
\* The calls a worker still has to handle are its own and nobody has been asked
\* about them, unless it resumes a confirmed one, which is the last it has.
Of(q) == {q[i] : i \in DOMAIN q}
Owned(w) ==
  /\ at[w] \in {"off", "chat", "ask", "stream"} => turn[w].resumes = FALSE /\ todo[w] = <<>>
  /\ turn[w].resumes = TRUE /\ todo[w] # <<>> => Len(todo[w]) = 1 /\ at[w] # "calls"
  /\ \A c \in Of(todo[w]) :
       IF turn[w].resumes THEN actions[c] # "none"
       ELSE actions[c] = "none" /\ \A v \in Workers \ {w} : c \notin Of(todo[v])
Ownership == \A w \in Workers : Owned(w)

\* The calls still to handle are calls; the rest of a round is part of it.
LEMMA OfFacts ==
  ASSUME TypeOK
  PROVE  /\ \A w \in Workers : Of(todo[w]) \subseteq DOMAIN calls
         /\ \A w \in Workers : todo[w] # <<>> =>
              /\ Now(w) \in Of(todo[w])
              /\ Of(Tail(todo[w])) \subseteq Of(todo[w])
              /\ Len(todo[w]) = 1 => Tail(todo[w]) = <<>>
<1>1. \A w \in Workers : todo[w] \in Seq(DOMAIN calls)
  BY DEF TypeOK
<1>2. ASSUME NEW w \in Workers, todo[w] # <<>>
      PROVE  /\ Now(w) \in Of(todo[w])
             /\ Of(Tail(todo[w])) \subseteq Of(todo[w])
             /\ Len(todo[w]) = 1 => Tail(todo[w]) = <<>>
  <2>1. /\ Tail(todo[w]) \in Seq(DOMAIN calls) /\ Len(todo[w]) \in Nat \ {0}
        /\ Len(Tail(todo[w])) = Len(todo[w]) - 1
        /\ \A i \in 1..Len(Tail(todo[w])) : Tail(todo[w])[i] = todo[w][i + 1]
    BY <1>1, <1>2, HeadTailProperties, EmptySeq
  <2>2. Head(todo[w]) = todo[w][1] /\ 1 \in DOMAIN todo[w] /\ DOMAIN todo[w] = 1..Len(todo[w])
    BY <1>1, <1>2, <2>1
  <2>3. \A i \in DOMAIN Tail(todo[w]) : i + 1 \in DOMAIN todo[w]
    BY <2>1, <2>2
  <2>4. Len(todo[w]) = 1 => Tail(todo[w]) = <<>>
    <3>1. \A s \in Seq(DOMAIN calls) : s # <<>> => Len(s) \in Nat \ {0}
      BY EmptySeq
    <3>2. Len(todo[w]) = 1 => Len(Tail(todo[w])) = 0
      BY <2>1
    <3>3. Tail(todo[w]) # <<>> => Len(Tail(todo[w])) \in Nat \ {0}
      BY <2>1, <3>1
    <3> QED
      BY <3>2, <3>3
  <2> QED
    BY <2>1, <2>2, <2>3, <2>4 DEF Now, Of
<1> QED
  BY <1>1, <1>2 DEF Of

\* What is pending or decided is a call.
LEMMA KnownActions ==
  ASSUME TypeOK, Behind
  PROVE  \A c \in DOMAIN actions : actions[c] # "none" => c \in DOMAIN calls
<1>1. \A i \in DOMAIN rows : rows[i] \in RowsOf(DOMAIN calls)
  BY DEF TypeOK
<1>2. \A r \in RowsOf(DOMAIN calls) : r.calls \subseteq DOMAIN calls
  BY DEF RowsOf
<1> QED
  BY <1>1, <1>2 DEF Behind, Said

\* What one worker may do to what it owns.
LEMMA OwnershipStep ==
  ASSUME TypeOK, Ownership, NEW w \in Workers, NEW p, NEW t, NEW q,
         at' = [at EXCEPT ![w] = p], turn' = [turn EXCEPT ![w] = t],
         todo' = [todo EXCEPT ![w] = q],
         p \in {"off", "chat", "ask", "stream"} => t.resumes = FALSE /\ q = <<>>,
         t.resumes = TRUE /\ q # <<>> => Len(q) = 1 /\ p # "calls",
         \A c \in Of(q) : IF t.resumes THEN actions'[c] # "none"
                          ELSE actions'[c] = "none" /\ \A v \in Workers \ {w} : c \notin Of(todo[v]),
         \A v \in Workers \ {w} : \A c \in Of(todo[v]) :
            IF turn[v].resumes THEN actions'[c] # "none"
            ELSE actions'[c] = "none" /\ c \notin Of(q)
  PROVE  Ownership'
<1>1. at'[w] = p /\ turn'[w] = t /\ todo'[w] = q
  BY DEF TypeOK
<1>2. \A v \in Workers \ {w} : at'[v] = at[v] /\ turn'[v] = turn[v] /\ todo'[v] = todo[v]
  BY DEF TypeOK
<1>3. Owned(w)'
  BY <1>1, <1>2 DEF Owned
<1>4. ASSUME NEW v \in Workers \ {w} PROVE Owned(v)'
  BY <1>1, <1>2, <1>4 DEF Owned, Ownership
<1> QED
  BY <1>3, <1>4 DEF Ownership

\* What a worker does to the calls in hand keeps them owned.
LEMMA OwnershipNext ==
  TypeOK /\ InHand /\ Behind /\ Ownership /\ [Next]_vars => Ownership'
<1> SUFFICES ASSUME TypeOK, InHand, Behind, Ownership, [Next]_vars PROVE Ownership'
  OBVIOUS
<1>n. Of(<<>>) = {} /\ NoTurn.resumes = FALSE
  BY DEF Of, NoTurn, NewTurn
<1>u. \A w \in Workers : /\ at = [at EXCEPT ![w] = at[w]]
                         /\ turn = [turn EXCEPT ![w] = turn[w]]
                         /\ todo = [todo EXCEPT ![w] = todo[w]]
  BY DEF TypeOK
<1>o. \A w \in Workers :
        /\ at[w] \in {"off", "chat", "ask", "stream"} => turn[w].resumes = FALSE /\ todo[w] = <<>>
        /\ turn[w].resumes = TRUE /\ todo[w] # <<>> => Len(todo[w]) = 1 /\ at[w] # "calls"
  BY DEF Ownership, Owned
<1>t. /\ \A w \in Workers : Of(todo[w]) \subseteq DOMAIN calls
      /\ \A w \in Workers : todo[w] # <<>> =>
           /\ Now(w) \in Of(todo[w])
           /\ Of(Tail(todo[w])) \subseteq Of(todo[w])
           /\ Len(todo[w]) = 1 => Tail(todo[w]) = <<>>
  BY OfFacts
\* A step that takes calls out of a worker's hand and asks about none.
<1>a. ASSUME NEW w \in Workers, NEW p, NEW t, NEW q, at' = [at EXCEPT ![w] = p],
             turn' = [turn EXCEPT ![w] = t], todo' = [todo EXCEPT ![w] = q],
             p \in {"off", "chat", "ask", "stream"} => t.resumes = FALSE /\ q = <<>>,
             t.resumes = TRUE /\ q # <<>> => Len(q) = 1 /\ p # "calls",
             (t.resumes <=> turn[w].resumes) \/ q = <<>>, Of(q) \subseteq Of(todo[w]),
             \A c \in DOMAIN calls : (actions'[c] = "none" <=> actions[c] = "none")
      PROVE  Ownership'
  <2>2. \A c \in Of(q) : IF t.resumes THEN actions'[c] # "none"
                         ELSE actions'[c] = "none" /\ \A v \in Workers \ {w} : c \notin Of(todo[v])
    <3>1. CASE q = <<>>
      BY <1>n, <3>1
    <3>2. CASE t.resumes <=> turn[w].resumes
      BY <1>a, <1>t, <3>2 DEF Ownership, Owned
    <3> QED
      BY <1>a, <3>1, <3>2
  <2>3. \A v \in Workers \ {w} : \A c \in Of(todo[v]) :
           IF turn[v].resumes THEN actions'[c] # "none"
           ELSE actions'[c] = "none" /\ c \notin Of(q)
    BY <1>a, <1>t DEF Ownership, Owned
  <2> QED
    BY <1>a, <2>2, <2>3, OwnershipStep
\* The end of a turn.
<1>l. ASSUME NEW w \in Workers, Leaves(w), UNCHANGED actions PROVE Ownership'
  <2>1. /\ at' = [at EXCEPT ![w] = "off"] /\ turn' = [turn EXCEPT ![w] = NoTurn]
        /\ todo' = [todo EXCEPT ![w] = <<>>]
    BY <1>l DEF Leaves
  <2>2. \A c \in DOMAIN calls : (actions'[c] = "none" <=> actions[c] = "none")
    BY <1>l
  <2>3. "off" \in {"off", "chat", "ask", "stream"} => NoTurn.resumes = FALSE /\ <<>> = <<>>
    BY <1>n
  <2>4. Of(<<>>) \subseteq Of(todo[w])
    BY <1>n
  <2> QED
    BY <1>a, <1>n, <2>1, <2>2, <2>4
\* A call gets its result.
<1>r. ASSUME NEW w \in Workers, NEW t, Result(w), todo[w] # <<>>,
             turn' = [turn EXCEPT ![w] = t], t.resumes <=> turn[w].resumes,
             \A c \in DOMAIN calls : (actions'[c] = "none" <=> actions[c] = "none")
      PROVE  Ownership'
  <2> DEFINE q == Tail(todo[w])
  <2>1. at' = [at EXCEPT ![w] = "calls"] /\ todo' = [todo EXCEPT ![w] = q]
    BY <1>r DEF Result
  <2>2. Of(q) \subseteq Of(todo[w])
    BY <1>r, <1>t
  <2>3. t.resumes = TRUE => q = <<>>
    BY <1>o, <1>r, <1>t
  <2> HIDE DEF q
  <2> QED
    BY <1>a, <1>r, <2>1, <2>2, <2>3
\* A worker goes on with the calls it has.
<1>g. ASSUME NEW w \in Workers, NEW p, NEW t, at' = [at EXCEPT ![w] = p],
             turn' = [turn EXCEPT ![w] = t], UNCHANGED <<todo, actions>>,
             p \in {"off", "chat", "ask", "stream"} => t.resumes = FALSE /\ todo[w] = <<>>,
             p = "calls" => todo[w] = <<>>,
             (t.resumes <=> turn[w].resumes) \/ todo[w] = <<>>
      PROVE  Ownership'
  <2> DEFINE q == todo[w]
  <2>1. todo' = [todo EXCEPT ![w] = q]
    BY <1>g, <1>u
  <2>2. Of(q) \subseteq Of(todo[w])
    OBVIOUS
  <2>3. t.resumes = TRUE /\ q # <<>> => Len(q) = 1 /\ p # "calls"
    BY <1>g, <1>o
  <2>4. \A c \in DOMAIN calls : (actions'[c] = "none" <=> actions[c] = "none")
    BY <1>g
  <2>5. p \in {"off", "chat", "ask", "stream"} => t.resumes = FALSE /\ q = <<>>
    BY <1>g
  <2>6. (t.resumes <=> turn[w].resumes) \/ q = <<>>
    BY <1>g
  <2> HIDE DEF q
  <2> QED
    BY <1>a, <1>g, <2>1, <2>2, <2>3, <2>4, <2>5, <2>6
<1>1. CASE Tick \/ UNCHANGED vars
  BY <1>1 DEF Tick, vars, talk, round, Ownership, Owned
<1>2. CASE Restart
  BY <1>2, <1>n DEF Restart, talk, Ownership, Owned
<1>3. ASSUME NEW w \in Workers, Chat(w) PROVE Ownership'
  <2>1. /\ at[w] = "off" /\ at' = [at EXCEPT ![w] = "chat"]
        /\ turn' = [turn EXCEPT ![w] = NewTurn(requests', FALSE)]
        /\ UNCHANGED <<todo, actions>>
    BY <1>3 DEF Chat, Starts, talk
  <2>2. todo[w] = <<>> /\ NewTurn(requests', FALSE).resumes = FALSE
    BY <1>o, <2>1 DEF NewTurn
  <2> QED
    BY <1>g, <2>1, <2>2
<1>4. ASSUME NEW w \in Workers, CloseDanglingToolCalls(w) \/ Request(w) PROVE Ownership'
  <2>1. /\ at[w] \in {"chat", "ask"} /\ UNCHANGED <<todo, actions, turn>>
        /\ at' = [at EXCEPT ![w] = "ask"] \/ at' = [at EXCEPT ![w] = "stream"]
    BY <1>4 DEF CloseDanglingToolCalls, Request, talk, round
  <2>2. turn' = [turn EXCEPT ![w] = turn[w]] /\ todo[w] = <<>> /\ turn[w].resumes = FALSE
    BY <1>o, <1>u, <2>1
  <2> QED
    BY <1>g, <2>1, <2>2
<1>5. ASSUME NEW w \in Workers, ToTerminal(w) \/ Types(w) PROVE Ownership'
  <2>1. /\ UNCHANGED <<todo, actions>>
        /\ turn' = [turn EXCEPT ![w] = turn[w]] \/ turn' = [turn EXCEPT ![w] = Noted(w)]
        /\ at' = [at EXCEPT ![w] = "gate"] \/ at' = [at EXCEPT ![w] = "typed"]
    BY <1>5, <1>u DEF ToTerminal, Types, talk, round
  <2>2. Noted(w).resumes <=> turn[w].resumes
    BY DEF Noted, TypeOK, TurnsOf
  <2> QED
    BY <1>g, <2>1, <2>2
<1>6. ASSUME NEW w \in Workers, PersistToolResults(w) PROVE Ownership'
  <2> DEFINE t == [turn[w] EXCEPT !.resumes = FALSE]
  <2>1. /\ UNCHANGED <<todo, actions>> /\ todo[w] = <<>> /\ at' = [at EXCEPT ![w] = "ask"]
        /\ turn' = [turn EXCEPT ![w] = t] /\ t.resumes = FALSE
    BY <1>6 DEF PersistToolResults, TypeOK, TurnsOf
  <2> HIDE DEF t
  <2> QED
    BY <1>g, <2>1
<1>7. ASSUME NEW w \in Workers, NEW asked \in Rounds,
             NotEncodable(w) \/ TurnTimesOut(w) \/ Refused(w) \/ Answers(w, asked)
      PROVE  Ownership'
  <2>1. Leaves(w) /\ UNCHANGED actions
    BY <1>7 DEF NotEncodable, TurnTimesOut, Refused, Answers, Ends
  <2> QED
    BY <1>l, <2>1
<1>8. ASSUME NEW w \in Workers, Inline(w) PROVE Ownership'
  <2>1. /\ Result(w) /\ todo[w] # <<>> /\ turn' = [turn EXCEPT ![w] = Noted(w)]
        /\ \A c \in DOMAIN calls : (actions'[c] = "none" <=> actions[c] = "none")
    BY <1>8 DEF Inline, AtCall, talk
  <2>2. Noted(w).resumes <=> turn[w].resumes
    BY DEF Noted, TypeOK, TurnsOf
  <2> QED
    BY <1>r, <2>1, <2>2
<1>9. ASSUME NEW w \in Workers,
             AiTerminalGate(w) \/ Unavailable(w) \/ ScreenLost(w) \/ Finished(w) \/ Reject(w)
      PROVE  Ownership'
  <2>1. todo[w] # <<>> /\ turn' = [turn EXCEPT ![w] = turn[w]]
    BY <1>9, <1>u DEF AiTerminalGate, Unavailable, ScreenLost, Finished, Reject, InHand
  <2>2. \A c \in DOMAIN calls : (actions'[c] = "none" <=> actions[c] = "none")
    <3>1. CASE UNCHANGED actions
      BY <3>1
    <3>2. CASE Finished(w) \/ Reject(w)
      <4>1. UNCHANGED actions \/ \E d \in {"confirmed", "rejected"} :
              actions[Now(w)] = "pending" /\ actions' = [actions EXCEPT ![Now(w)] = d]
        BY <3>2 DEF Finished, Reject, Decide
      <4>2. DOMAIN calls \subseteq DOMAIN actions
        BY BoundsAssumption DEF TypeOK
      <4> QED
        BY <4>1, <4>2 DEF TypeOK
    <3> QED
      BY <1>9, <3>1, <3>2 DEF AiTerminalGate, Unavailable, ScreenLost, talk
  <2>3. CASE Result(w)
    BY <1>r, <2>1, <2>2, <2>3
  <2>4. CASE at' = [at EXCEPT ![w] = "type"] /\ UNCHANGED <<todo, actions>>
    BY <1>g, <2>1, <2>4
  <2> QED
    BY <1>9, <2>3, <2>4 DEF AiTerminalGate, Unavailable, ScreenLost, Finished, Reject, round, talk
<1>10. ASSUME NEW w \in Workers, NeedsConfirmation(w) PROVE Ownership'
  <2>1. /\ at[w] = "calls" /\ todo[w] # <<>>
        /\ actions' = [actions EXCEPT ![Now(w)] = "pending"]
        /\ at' = [at EXCEPT ![w] = "off"] /\ turn' = [turn EXCEPT ![w] = NoTurn]
        /\ todo' = [todo EXCEPT ![w] = <<>>]
    BY <1>10 DEF NeedsConfirmation, AtCall, Ends, Leaves
  <2>2. turn[w].resumes = FALSE /\ Now(w) \in Of(todo[w])
    BY <1>o, <1>t, <2>1 DEF TypeOK, TurnsOf
  <2>3. \A v \in Workers \ {w} : \A c \in Of(todo[v]) :
           IF turn[v].resumes THEN actions'[c] # "none"
           ELSE actions'[c] = "none" /\ c \notin Of(<<>>)
    BY <1>n, <2>1, <2>2 DEF Ownership, Owned, TypeOK
  <2>4. \A c \in Of(<<>>) : IF NoTurn.resumes THEN actions'[c] # "none"
           ELSE actions'[c] = "none" /\ \A v \in Workers \ {w} : c \notin Of(todo[v])
    BY <1>n
  <2> QED
    BY <1>n, <2>1, <2>3, <2>4, OwnershipStep
<1>11. ASSUME NEW w \in Workers, NEW c \in DOMAIN calls, NEW approved \in BOOLEAN,
              Continue(w, c, approved)
       PROVE  Ownership'
  <2> DEFINE t == NewTurn(requests', TRUE)
             p == IF ~approved THEN "reject"
                  ELSE IF calls[c].tool = "run_shell" THEN "gate" ELSE "type"
  <2>1. /\ actions[c] = "pending" /\ UNCHANGED actions
        /\ at' = [at EXCEPT ![w] = p] /\ turn' = [turn EXCEPT ![w] = t]
        /\ todo' = [todo EXCEPT ![w] = <<c>>]
    BY <1>11 DEF Continue, talk
  <2>2. p \in {"reject", "gate", "type"} /\ t.resumes = TRUE
    BY DEF NewTurn
  <2>3. Of(<<c>>) = {c} /\ Len(<<c>>) = 1
    BY DEF Of
  <2> HIDE DEF p, t
  <2>4. \A d \in Of(<<c>>) : IF t.resumes THEN actions'[d] # "none"
           ELSE actions'[d] = "none" /\ \A v \in Workers \ {w} : d \notin Of(todo[v])
    BY <2>1, <2>2, <2>3
  <2>5. \A v \in Workers \ {w} : \A d \in Of(todo[v]) :
           IF turn[v].resumes THEN actions'[d] # "none"
           ELSE actions'[d] = "none" /\ d \notin Of(<<c>>)
    BY <2>1, <2>3 DEF Ownership, Owned
  <2>6. /\ p \in {"off", "chat", "ask", "stream"} => t.resumes = FALSE /\ <<c>> = <<>>
        /\ t.resumes = TRUE /\ <<c>> # <<>> => Len(<<c>>) = 1 /\ p # "calls"
    BY <2>2, <2>3
  <2> QED
    BY <2>1, <2>4, <2>5, <2>6, OwnershipStep
\* New calls are nobody's yet.
<1>c. ASSUME NEW w \in Workers, NEW q, at[w] = "stream", UNCHANGED <<turn, actions>>,
             at' = [at EXCEPT ![w] = "calls"], todo' = [todo EXCEPT ![w] = q],
             \A c \in Of(q) : c \in 1..MaxCalls /\ c \notin DOMAIN calls
      PROVE  Ownership'
  <2>1. turn[w].resumes = FALSE /\ turn' = [turn EXCEPT ![w] = turn[w]]
    BY <1>c, <1>o, <1>u
  <2>2. DOMAIN actions = 1..MaxCalls
    BY DEF TypeOK
  <2>3. \A c \in Of(q) : actions'[c] = "none" /\ \A v \in Workers \ {w} : c \notin Of(todo[v])
    BY <1>c, <1>t, <2>2, KnownActions
  <2>4. \A v \in Workers \ {w} : \A c \in Of(todo[v]) :
           IF turn[v].resumes THEN actions'[c] # "none"
           ELSE actions'[c] = "none" /\ c \notin Of(q)
    BY <1>c, <1>t DEF Ownership, Owned
  <2> DEFINE t == turn[w]
             p == "calls"
  <2>5. /\ t.resumes = FALSE /\ turn' = [turn EXCEPT ![w] = t]
        /\ at' = [at EXCEPT ![w] = p] /\ todo' = [todo EXCEPT ![w] = q]
        /\ p \notin {"off", "chat", "ask", "stream"}
    BY <1>c, <2>1
  <2> HIDE DEF p, t
  <2>6. \A c \in Of(q) : IF t.resumes THEN actions'[c] # "none"
           ELSE actions'[c] = "none" /\ \A v \in Workers \ {w} : c \notin Of(todo[v])
    BY <2>3, <2>5
  <2>7. p \in {"off", "chat", "ask", "stream"} => t.resumes = FALSE /\ q = <<>>
    BY <2>5
  <2>8. t.resumes = TRUE /\ q # <<>> => Len(q) = 1 /\ p # "calls"
    BY <2>5
  <2> QED
    BY <2>4, <2>5, <2>6, <2>7, <2>8, OwnershipStep
<1>12. ASSUME NEW w \in Workers, NEW asked \in Rounds, Calls(w, asked) \/ CallsInText(w, asked)
       PROVE  Ownership'
  <2>1. /\ Asks(w, asked) /\ UNCHANGED <<turn, actions>> /\ at' = [at EXCEPT ![w] = "calls"]
        /\ at[w] = "stream"
    BY <1>12 DEF Calls, CallsInText, Asks
  <2>2. \A i \in DOMAIN asked : Len(calls) + i \in 1..MaxCalls /\ Len(calls) + i \notin DOMAIN calls
    <3>1. /\ calls' \in Seq(CallType) /\ Len(calls') <= MaxCalls /\ calls \in Seq(CallType)
          /\ \A i \in DOMAIN asked : Len(calls) + i \in DOMAIN calls'
      BY <2>1, AskedCalls DEF TypeOK
    <3>2. \A i \in DOMAIN asked : i \in Nat \ {0}
      BY DEF Rounds
    <3> QED
      BY <3>1, <3>2, BoundsAssumption
  <2>3. CASE Calls(w, asked)
    <3> DEFINE q == [i \in DOMAIN asked |-> Len(calls) + i]
    <3>1. todo' = [todo EXCEPT ![w] = q]
      BY <2>3 DEF Calls
    <3>2. \A c \in Of(q) : c \in 1..MaxCalls /\ c \notin DOMAIN calls
      BY <2>2 DEF Of
    <3> HIDE DEF q
    <3> QED
      BY <1>c, <2>1, <3>1, <3>2
  <2>4. CASE CallsInText(w, asked)
    <3> DEFINE q == <<Len(calls) + 1>>
    <3>1. todo' = [todo EXCEPT ![w] = q] /\ 1 \in DOMAIN asked
      BY <2>4 DEF CallsInText, Rounds
    <3>2. \A c \in Of(q) : c \in 1..MaxCalls /\ c \notin DOMAIN calls
      BY <2>2, <3>1 DEF Of
    <3> HIDE DEF q
    <3> QED
      BY <1>c, <2>1, <3>1, <3>2
  <2> QED
    BY <1>12, <2>3, <2>4
<1>13. ASSUME NEW w \in Workers, Turn(w) PROVE Ownership'
  <2>1. CASE NotEncodable(w) \/ TurnTimesOut(w) \/ Refused(w)
    <3>1. Leaves(w) /\ UNCHANGED actions
      BY <2>1 DEF NotEncodable, TurnTimesOut, Refused, Ends
    <3> QED
      BY <1>l, <3>1
  <2> QED
    BY <1>13, <1>4, <1>5, <1>6, <1>7, <1>8, <1>9, <1>10, <1>12, <2>1 DEF Turn
<1> QED
  BY <1>1, <1>2, <1>3, <1>11, <1>13 DEF Next

\* A confirmation that is answered twice keeps the answer stored first, and no
\* later call of the model reopens it, for any number of workers and requests.
THEOREM DecisionsStayFinal == Spec => DecisionsAreFinal
<1> DEFINE Kept == \A c \in DOMAIN actions : actions[c] \in {"confirmed", "rejected"}
                                             => actions'[c] = actions[c]
<1>1. Init => Behind /\ Ownership
  BY DEF Init, Behind, Follows, Said, Ownership, Owned, Of, NoTurn, NewTurn
<1>2. TypeOK /\ Ownership /\ [Next]_vars => Kept
  <2> SUFFICES ASSUME TypeOK, Ownership, [Next]_vars PROVE Kept
    OBVIOUS
  <2>1. ASSUME NEW w \in Workers, NeedsConfirmation(w) PROVE Kept
    <3>1. at[w] = "calls" /\ todo[w] # <<>> /\ actions' = [actions EXCEPT ![Now(w)] = "pending"]
      BY <2>1 DEF NeedsConfirmation, AtCall
    <3>2. Now(w) \in Of(todo[w])
      BY <3>1, OfFacts
    <3>3. actions[Now(w)] = "none"
      BY <3>1, <3>2 DEF Ownership, Owned, TypeOK, TurnsOf
    <3> QED
      BY <3>1, <3>3 DEF TypeOK
  <2>2. ASSUME NEW w \in Workers, Finished(w) \/ Reject(w) PROVE Kept
    BY <2>2 DEF Finished, Reject, Decide, TypeOK
  <2>3. CASE UNCHANGED actions
    BY <2>3
  <2>4. ASSUME NEW w \in Workers, Turn(w) PROVE Kept
    <3>1. NeedsConfirmation(w) \/ Finished(w) \/ Reject(w) \/ UNCHANGED actions
      BY <2>4 DEF Turn, Request, NotEncodable, TurnTimesOut, Calls, CallsInText, Answers, Refused,
           Inline, ToTerminal, PersistToolResults, AiTerminalGate, Unavailable, Types,
           ScreenLost, CloseDanglingToolCalls, talk
    <3> QED
      BY <2>1, <2>2, <2>3, <3>1
  <2>5. CASE UNCHANGED vars
    BY <2>3, <2>5 DEF vars, talk
  <2>6. ASSUME Next PROVE (\E w \in Workers : Turn(w)) \/ UNCHANGED actions
    BY <2>6 DEF Next, Tick, Restart, Chat, Continue, talk
  <2> HIDE DEF Kept
  <2> QED
    BY <2>3, <2>4, <2>5, <2>6
<1> QED
  BY <1>1, <1>2, TypeInit, TypeStep, BehindNext, OwnershipNext, PTL DEF Spec, DecisionsAreFinal

(***************************************************************************)
(* The budget of a turn.                                                   *)
(***************************************************************************)
\* The calls of a request that were typed, or that the operator was asked about
\* and may still let through.
Spent(n) ==
  {c \in DOMAIN calls : calls[c].request = n /\ (typed[c] > 0 \/ actions[c] # "none")}
Distinct(cs) ==
  \A c, d \in cs : calls[c].tool = calls[d].tool /\ calls[c].args = calls[d].args => c = d

\* Requests have numbers, every turn one of its own; what is typed is a call.
Numbered ==
  /\ \A c \in DOMAIN calls : calls[c].request <= requests
  /\ \A c \in DOMAIN typed : typed[c] > 0 => c \in DOMAIN calls
  /\ \A w \in Workers : at[w] # "off" =>
       /\ turn[w].request <= requests
       /\ \A v \in Workers : at[v] # "off" /\ turn[v].request = turn[w].request => v = w
\* A live turn has every call of its request in its books: what it spends, and what
\* it has at the terminal unless an operator confirmed it.
Booked(w) ==
  /\ Cardinality(turn[w].seen) <= turn[w].changes
  /\ Distinct(turn[w].seen)
  /\ at[w] # "off" => \A n \in 1..MaxRequests : turn[w].request = n => Spent(n) \subseteq turn[w].seen
  /\ turn[w].resumes = FALSE =>
       /\ \A c \in Of(todo[w]) : calls[c].request = turn[w].request
       /\ at[w] \in {"gate", "type", "typed"} => Now(w) \in turn[w].seen
Moderate(n) == Cardinality(Spent(n)) <= ChangeBudget /\ Distinct(Spent(n))
BudgetInv ==
  Numbered /\ (\A w \in Workers : Booked(w)) /\ (\A n \in 1..MaxRequests : Moderate(n))

\* There are finitely many calls.
LEMMA FiniteCalls ==
  ASSUME TypeOK
  PROVE  /\ IsFiniteSet(DOMAIN calls) /\ DOMAIN calls \subseteq 1..MaxCalls
         /\ \A n : IsFiniteSet(Spent(n)) /\ Spent(n) \subseteq DOMAIN calls
         /\ \A w \in Workers : IsFiniteSet(turn[w].seen) /\ turn[w].seen \subseteq DOMAIN calls
<1>1. DOMAIN calls = 1..Len(calls) /\ Len(calls) \in Nat /\ Len(calls) <= MaxCalls
  BY DEF TypeOK
<1>2. IsFiniteSet(DOMAIN calls) /\ DOMAIN calls \subseteq 1..MaxCalls
  <2>1. 1 \in Int /\ Len(calls) \in Int /\ MaxCalls \in Nat
    BY <1>1, BoundsAssumption
  <2>2. IsFiniteSet(1..Len(calls))
    BY <2>1, FS_Interval
  <2>3. 1..Len(calls) \subseteq 1..MaxCalls
    BY <1>1, <2>1
  <2> QED
    BY <1>1, <2>2, <2>3
<1>3. \A n : Spent(n) \subseteq DOMAIN calls
  BY DEF Spent
<1>4. \A w \in Workers : turn[w].seen \subseteq DOMAIN calls
  BY DEF TypeOK, TurnsOf
<1> QED
  BY <1>2, <1>3, <1>4, FS_Subset

\* Part of what a turn has seen is within the limits of the turn.
LEMMA PartOfSeen ==
  ASSUME TypeOK, NEW w \in Workers, Booked(w), NEW S \in SUBSET turn[w].seen
  PROVE  Cardinality(S) <= ChangeBudget /\ Distinct(S)
<1>1. IsFiniteSet(turn[w].seen)
  BY FiniteCalls
<1>2. Cardinality(S) <= Cardinality(turn[w].seen) /\ Cardinality(S) \in Nat
      /\ Cardinality(turn[w].seen) \in Nat
  BY <1>1, FS_Subset, FS_CardinalityType
<1>3. turn[w].changes \in Nat /\ turn[w].changes <= ChangeBudget /\ ChangeBudget \in Nat
  BY BudgetAssumption DEF TypeOK, TurnsOf
<1>4. Cardinality(S) <= ChangeBudget
  BY <1>2, <1>3 DEF Booked
<1>5. Distinct(S)
  BY DEF Booked, Distinct
<1> QED
  BY <1>4, <1>5

\* A change that is allowed is one more, and another one.
LEMMA OneMoreChange ==
  ASSUME TypeOK, InHand, NEW w \in Workers, Booked(w), AtCall(w), Allowed(w),
         calls[Now(w)].tool # "read_terminal"
  PROVE  LET more == turn[w].seen \cup {Now(w)}
         IN /\ Cardinality(more) <= turn[w].changes + 1
            /\ turn[w].changes + 1 <= ChangeBudget
            /\ Distinct(more)
<1> DEFINE more == turn[w].seen \cup {Now(w)}
<1>1. IsFiniteSet(turn[w].seen)
  BY FiniteCalls
<1>2. /\ Cardinality(turn[w].seen) \in Nat
      /\ Cardinality(more) = Cardinality(turn[w].seen)
         \/ Cardinality(more) = Cardinality(turn[w].seen) + 1
  BY <1>1, FS_AddElement, FS_CardinalityType
<1>3. turn[w].changes \in Nat /\ ChangeBudget \in Nat
  BY BudgetAssumption DEF TypeOK, TurnsOf
<1>4. turn[w].changes < ChangeBudget /\ ~Repeats(w)
  BY DEF Allowed
<1>5. Cardinality(turn[w].seen) <= turn[w].changes
  BY DEF Booked
<1>6. Distinct(more)
  BY <1>4 DEF Booked, Distinct, Repeats
<1> HIDE DEF more
<1>7. Cardinality(more) <= turn[w].changes + 1 /\ turn[w].changes + 1 <= ChangeBudget
  BY <1>2, <1>3, <1>4, <1>5
<1> QED
  BY <1>6, <1>7 DEF more

\* What a step of one worker may do to the books.
LEMMA BudgetStep ==
  ASSUME TypeOK, TypeOK', BudgetInv, NEW w \in Workers, NEW p, NEW t, NEW q,
         at' = [at EXCEPT ![w] = p], turn' = [turn EXCEPT ![w] = t],
         todo' = [todo EXCEPT ![w] = q],
         requests <= requests',
         DOMAIN calls \subseteq DOMAIN calls', \A c \in DOMAIN calls : calls'[c] = calls[c],
         \A c \in DOMAIN calls' \ DOMAIN calls : calls'[c].request <= requests',
         \A c \in DOMAIN typed : typed'[c] > 0 => c \in DOMAIN calls',
         Cardinality(t.seen) <= t.changes, Distinct(t.seen)',
         p # "off" => /\ t.request <= requests'
                      /\ \/ at[w] # "off" /\ t.request = turn[w].request
                         \/ t.request > requests
                      /\ \A n \in 1..MaxRequests : t.request = n => Spent(n)' \subseteq t.seen,
         t.resumes = FALSE => /\ \A c \in Of(q) : calls'[c].request = t.request
                              /\ p \in {"gate", "type", "typed"} => Head(q) \in t.seen,
         \A n \in 1..MaxRequests : \/ Spent(n)' = Spent(n)
                                   \/ at[w] # "off" /\ n = turn[w].request,
         \A n \in 1..MaxRequests : Moderate(n)'
  PROVE  BudgetInv'
<1>1. at'[w] = p /\ turn'[w] = t /\ todo'[w] = q
  BY DEF TypeOK
<1>2. \A v \in Workers \ {w} : at'[v] = at[v] /\ turn'[v] = turn[v] /\ todo'[v] = todo[v]
  BY DEF TypeOK
<1>n. /\ requests \in Nat /\ requests' \in Nat
      /\ \A v \in Workers : turn[v].request \in Nat /\ turn'[v].request \in Nat
      /\ \A c \in DOMAIN calls : calls[c].request \in Nat
  <2>1. \A c \in DOMAIN calls : calls[c] \in CallType
    BY DEF TypeOK
  <2>2. MaxRequests \in Nat
    BY BoundsAssumption
  <2> QED
    <3>1. requests \in 0..MaxRequests /\ requests' \in 0..MaxRequests
      BY DEF TypeOK
    <3>2. \A v \in Workers : turn[v].request \in 0..MaxRequests
      BY DEF TypeOK, TurnsOf
    <3>3. turn'[w].request \in 0..MaxRequests
      <4>1. turn' \in [Workers -> TurnsOf(DOMAIN calls')]
        BY DEF TypeOK
      <4> QED
        BY <4>1 DEF TurnsOf
    <3>4. \A v \in Workers : turn'[v].request \in 0..MaxRequests
      BY <1>2, <3>2, <3>3
    <3>5. \A c \in DOMAIN calls : calls[c].request \in 1..MaxRequests
      BY <2>1 DEF CallType
    <3> QED
      BY <2>2, <3>1, <3>2, <3>4, <3>5
<1>3. Numbered'
  <2>1. \A c \in DOMAIN calls' : calls'[c].request <= requests'
    BY <1>n DEF BudgetInv, Numbered
  <2>2. \A c \in DOMAIN typed' : typed'[c] > 0 => c \in DOMAIN calls'
    BY DEF TypeOK
  <2>3. ASSUME NEW v \in Workers, at'[v] # "off" PROVE turn'[v].request <= requests'
    BY <1>1, <1>2, <1>n, <2>3 DEF BudgetInv, Numbered
  <2>4. ASSUME NEW u \in Workers, NEW v \in Workers, at'[u] # "off", at'[v] # "off",
               turn'[u].request = turn'[v].request
        PROVE  u = v
    <3>1. CASE u # w /\ v # w
      BY <1>2, <2>4, <3>1 DEF BudgetInv, Numbered
    <3>2. ASSUME NEW x \in Workers, x # w, at[x] # "off", p # "off" PROVE turn[x].request # t.request
      BY <1>n, <1>1, <3>2 DEF BudgetInv, Numbered
    <3> QED
      BY <1>1, <1>2, <2>4, <3>1, <3>2
  <2> QED
    BY <2>1, <2>2, <2>3, <2>4 DEF Numbered
<1>4. Booked(w)'
  <2>1. /\ Cardinality(turn'[w].seen) <= turn'[w].changes
        /\ Distinct(t.seen)'
    BY <1>1
  <2>2. (\A c, d \in turn'[w].seen : calls'[c].tool = calls'[d].tool /\ calls'[c].args = calls'[d].args
                                     => c = d)
    BY <1>1 DEF Distinct
  <2>3. /\ at'[w] # "off" => \A n \in 1..MaxRequests : turn'[w].request = n
                                => Spent(n)' \subseteq turn'[w].seen
        /\ turn'[w].resumes = FALSE =>
             /\ \A c \in Of(q) : calls'[c].request = turn'[w].request
             /\ at'[w] \in {"gate", "type", "typed"} => Head(todo'[w]) \in turn'[w].seen
    BY <1>1
  <2> QED
    BY <1>1, <2>1, <2>2, <2>3 DEF Booked, Distinct, Now, Of
<1>5. ASSUME NEW v \in Workers \ {w} PROVE Booked(v)'
  <2>1. Booked(v) /\ turn[v].seen \subseteq DOMAIN calls /\ Of(todo[v]) \subseteq DOMAIN calls
    BY <1>5, FiniteCalls, OfFacts DEF BudgetInv
  <2>2. Distinct(turn[v].seen)'
    BY <1>2, <1>5, <2>1 DEF Booked, Distinct
  <2>3. ASSUME at'[v] # "off", NEW n \in 1..MaxRequests, turn'[v].request = n
        PROVE  Spent(n)' \subseteq turn'[v].seen
    <3>1. at[v] # "off" /\ turn[v].request = n
      BY <1>2, <1>5, <2>3
    <3>2. ~(at[w] # "off" /\ n = turn[w].request)
      BY <1>5, <3>1 DEF BudgetInv, Numbered
    <3> QED
      BY <1>2, <1>5, <2>1, <2>3, <3>1, <3>2 DEF Booked
  <2>4. turn'[v].resumes = FALSE =>
          /\ \A c \in Of(todo[v]) : calls'[c].request = turn'[v].request
          /\ at'[v] \in {"gate", "type", "typed"} => Head(todo'[v]) \in turn'[v].seen
    BY <1>2, <1>5, <2>1 DEF Booked, Now
  <2> QED
    BY <1>2, <1>5, <2>1, <2>2, <2>3, <2>4 DEF Booked, Of, Now, Distinct
<1> QED
  BY <1>3, <1>4, <1>5 DEF BudgetInv

\* A step that types nothing and asks the operator nothing new.
LEMMA QuietStep ==
  ASSUME TypeOK, TypeOK', Behind, BudgetInv, NEW w \in Workers, NEW p, NEW t, NEW q,
         at' = [at EXCEPT ![w] = p], turn' = [turn EXCEPT ![w] = t],
         todo' = [todo EXCEPT ![w] = q],
         requests <= requests',
         DOMAIN calls \subseteq DOMAIN calls', \A c \in DOMAIN calls : calls'[c] = calls[c],
         \A c \in DOMAIN calls' \ DOMAIN calls : calls'[c].request <= requests',
         UNCHANGED typed,
         \A c \in DOMAIN actions : actions'[c] = "none" <=> actions[c] = "none",
         t.seen \subseteq DOMAIN calls, Cardinality(t.seen) <= t.changes, Distinct(t.seen),
         p # "off" => /\ t.request <= requests'
                      /\ \/ at[w] # "off" /\ t.request = turn[w].request
                            /\ turn[w].seen \subseteq t.seen
                         \/ t.request > requests,
         t.resumes = FALSE => /\ \A c \in Of(q) : calls'[c].request = t.request
                              /\ p \in {"gate", "type", "typed"} => Head(q) \in t.seen
  PROVE  BudgetInv'
<1>1. DOMAIN actions = 1..MaxCalls /\ DOMAIN typed = 1..MaxCalls
      /\ DOMAIN calls' \subseteq 1..MaxCalls /\ \A c \in 1..MaxCalls : typed[c] \in Nat
  <2>1. DOMAIN calls' = 1..Len(calls') /\ Len(calls') \in Nat /\ Len(calls') <= MaxCalls
    BY DEF TypeOK
  <2>2. DOMAIN calls' \subseteq 1..MaxCalls
    BY <2>1, BoundsAssumption
  <2>3. actions \in [1..MaxCalls -> Status] /\ typed \in [1..MaxCalls -> Nat]
    BY DEF TypeOK, Status
  <2> QED
    BY <2>2, <2>3
<1>2. \A c \in DOMAIN calls' \ DOMAIN calls : ~(typed[c] > 0) /\ actions[c] = "none"
  BY <1>1, KnownActions DEF BudgetInv, Numbered
<1>3. \A n : Spent(n)' = Spent(n)
  BY <1>1, <1>2 DEF Spent
<1>4. \A n \in 1..MaxRequests : Moderate(n)'
  <2>1. \A n \in 1..MaxRequests : Moderate(n)
    BY DEF BudgetInv
  <2>2. \A n : Spent(n) \subseteq DOMAIN calls
    BY FiniteCalls
  <2>3. ASSUME NEW n \in 1..MaxRequests PROVE Moderate(n)'
    <3>1. Cardinality(Spent(n)') <= ChangeBudget
      BY <1>3, <2>1 DEF Moderate
    <3>2. \A c, d \in Spent(n) : calls'[c] = calls[c] /\ calls'[d] = calls[d]
      BY <2>2
    <3>3. \A c, d \in Spent(n)' : calls'[c].tool = calls'[d].tool /\ calls'[c].args = calls'[d].args
                                => c = d
      BY <1>3, <2>1, <3>2 DEF Moderate, Distinct
    <3> QED
      BY <3>1, <3>3 DEF Moderate, Distinct
  <2> QED
    BY <2>3
<1>5. \A c \in DOMAIN typed : typed'[c] > 0 => c \in DOMAIN calls'
  BY DEF BudgetInv, Numbered
<1>6. Distinct(t.seen)'
  BY DEF Distinct
<1>7. p # "off" => /\ t.request <= requests'
                   /\ \/ at[w] # "off" /\ t.request = turn[w].request
                      \/ t.request > requests
                   /\ \A n \in 1..MaxRequests : t.request = n => Spent(n)' \subseteq t.seen
  <2>1. ASSUME p # "off", NEW n \in 1..MaxRequests, t.request = n PROVE Spent(n)' \subseteq t.seen
    <3>1. CASE at[w] # "off" /\ n = turn[w].request /\ turn[w].seen \subseteq t.seen
      BY <1>3, <3>1 DEF BudgetInv, Booked
    <3>2. CASE n > requests
      <4>1. \A c \in DOMAIN calls : calls[c].request # n
        <5>1. \A c \in DOMAIN calls : calls[c] \in CallType
          BY DEF TypeOK
        <5>2. \A c \in DOMAIN calls : calls[c].request \in Nat /\ requests \in Nat
          BY <5>1, BoundsAssumption DEF CallType, TypeOK
        <5> QED
          BY <3>2, <5>2 DEF BudgetInv, Numbered
      <4> QED
        BY <1>3, <4>1 DEF Spent
    <3> QED
      BY <2>1, <3>1, <3>2
  <2> QED
    BY <2>1
<1> QED
  BY <1>3, <1>4, <1>5, <1>6, <1>7, BudgetStep

\* New calls belong to the turn that asked for them.
LEMMA NewCalls ==
  ASSUME TypeOK, NEW w \in Workers, NEW asked \in Rounds, Asks(w, asked)
  PROVE  /\ at[w] = "stream"
         /\ DOMAIN calls \subseteq DOMAIN calls' /\ \A c \in DOMAIN calls : calls'[c] = calls[c]
         /\ \A c \in DOMAIN calls' \ DOMAIN calls : calls'[c].request = turn[w].request
         /\ \A i \in DOMAIN asked : Len(calls) + i \in DOMAIN calls' \ DOMAIN calls
<1> DEFINE added == [i \in DOMAIN asked |->
      [tool |-> asked[i][1], args |-> asked[i][2], request |-> turn[w].request]]
<1>1. calls' = calls \o added /\ at[w] = "stream"
  BY DEF Asks
<1>2. PICK n \in 0..2 : asked \in [1..n -> Tools \X Args]
  BY DEF Rounds
<1>3. \A i \in 1..n : added[i].request = turn[w].request
  BY <1>2
<1>4. DOMAIN added = 1..n /\ added \in Seq({added[i] : i \in 1..n})
  BY <1>2
<1> HIDE DEF added
<1>5. calls \in Seq(CallType) /\ DOMAIN calls = 1..Len(calls) /\ Len(calls) \in Nat
  BY DEF TypeOK
<1>6. Len(added) = n
  BY <1>2, <1>4
<1>7. /\ DOMAIN calls' = 1..(Len(calls) + n)
      /\ \A i \in 1..Len(calls) : calls'[i] = calls[i]
      /\ \A i \in (Len(calls) + 1)..(Len(calls) + n) : calls'[i] = added[i - Len(calls)]
  <2>1. calls \in Seq(CallType \cup {added[i] : i \in 1..n})
        /\ added \in Seq(CallType \cup {added[i] : i \in 1..n})
    BY <1>4, <1>5, SeqMonotonic
  <2> QED
    BY <1>1, <1>5, <1>6, <2>1, ConcatProperties
<1>8. \A c \in DOMAIN calls' \ DOMAIN calls : c - Len(calls) \in 1..n /\ c \in (Len(calls) + 1)..(Len(calls) + n)
  BY <1>2, <1>5, <1>7
<1>9. \A c \in DOMAIN calls' \ DOMAIN calls : calls'[c].request = turn[w].request
  BY <1>3, <1>7, <1>8
<1>10. \A i \in 1..n : Len(calls) + i \in DOMAIN calls' \ DOMAIN calls
  BY <1>2, <1>5, <1>7
<1>11. DOMAIN calls \subseteq DOMAIN calls'
  BY <1>2, <1>5, <1>7
<1> QED
  BY <1>1, <1>2, <1>5, <1>7, <1>9, <1>10, <1>11

\* Every step of the panel keeps the books.
LEMMA BudgetNext ==
  TypeOK /\ TypeOK' /\ InHand /\ Behind /\ Ownership /\ BudgetInv /\ [Next]_vars => BudgetInv'
<1> SUFFICES ASSUME TypeOK, TypeOK', InHand, Behind, Ownership, BudgetInv, [Next]_vars
             PROVE  BudgetInv'
  OBVIOUS
<1>n. /\ Of(<<>>) = {} /\ NoTurn.seen = {} /\ NoTurn.changes = 0 /\ Cardinality({}) = 0
      /\ Distinct({}) /\ \A n, r : NewTurn(n, r).seen = {} /\ NewTurn(n, r).changes = 0
  BY FS_EmptySet DEF Of, NoTurn, NewTurn, Distinct
<1>u. \A w \in Workers : /\ at = [at EXCEPT ![w] = at[w]]
                         /\ turn = [turn EXCEPT ![w] = turn[w]]
                         /\ todo = [todo EXCEPT ![w] = todo[w]]
  BY DEF TypeOK
<1>m. requests \in Nat /\ requests' \in Nat /\ DOMAIN actions = 1..MaxCalls
      /\ \A v \in Workers : turn[v].request \in Nat
  BY BoundsAssumption DEF TypeOK, TurnsOf
<1>c. \A w \in Workers : turn[w].seen \subseteq DOMAIN calls
  BY FiniteCalls
<1>b. \A w \in Workers : Booked(w) /\ (at[w] # "off" => turn[w].request <= requests)
  BY DEF BudgetInv, Numbered
<1>o. \A w \in Workers :
        at[w] \in {"off", "chat", "ask", "stream"} => turn[w].resumes = FALSE /\ todo[w] = <<>>
  BY DEF Ownership, Owned
<1>t. \A w \in Workers : todo[w] # <<>> =>
        Now(w) \in Of(todo[w]) /\ Of(Tail(todo[w])) \subseteq Of(todo[w])
  BY OfFacts
\* A turn goes on, or ends, with the calls that exist.
<1>g. ASSUME NEW w \in Workers, NEW p, NEW t, NEW q, at' = [at EXCEPT ![w] = p],
             turn' = [turn EXCEPT ![w] = t], todo' = [todo EXCEPT ![w] = q],
             UNCHANGED <<calls, typed, requests>>,
             \A c \in DOMAIN actions : actions'[c] = "none" <=> actions[c] = "none",
             \/ p = "off" /\ t = NoTurn /\ q = <<>>
             \/ at[w] # "off" /\ t = turn[w]
             \/ at[w] # "off" /\ t = [turn[w] EXCEPT !.resumes = FALSE] /\ q = <<>> /\ p = "ask"
             \/ AtCall(w) /\ Allowed(w) /\ t = Noted(w),
             t.resumes = FALSE => /\ Of(q) \subseteq Of(todo[w]) \/ q = <<>>
                                  /\ turn[w].resumes = FALSE \/ q = <<>>
                                  /\ p \in {"gate", "type", "typed"} => Head(q) \in t.seen
      PROVE  BudgetInv'
  <2>1. t.seen \subseteq DOMAIN calls /\ Cardinality(t.seen) <= t.changes /\ Distinct(t.seen)
        /\ (p # "off" => /\ t.request <= requests' /\ at[w] # "off" /\ t.request = turn[w].request
                          /\ turn[w].seen \subseteq t.seen)
    <3>1. CASE p = "off" /\ t = NoTurn
      <4>1. t.seen = {} /\ t.changes = 0 /\ p = "off"
        BY <1>n, <3>1
      <4>2. Distinct(t.seen)
        BY <4>1 DEF Distinct
      <4> QED
        BY <1>n, <4>1, <4>2
    <3>2. CASE at[w] # "off" /\ t = turn[w]
      BY <1>g, <1>b, <1>c, <3>2 DEF Booked
    <3>3. CASE at[w] # "off" /\ t = [turn[w] EXCEPT !.resumes = FALSE]
      <4>1. t.seen = turn[w].seen /\ t.changes = turn[w].changes /\ t.request = turn[w].request
        BY <3>3 DEF TypeOK, TurnsOf
      <4> QED
        BY <1>g, <1>b, <1>c, <3>3, <4>1 DEF Booked
    <3>4. CASE AtCall(w) /\ Allowed(w) /\ t = Noted(w)
      <4>0. turn[w] \in TurnsOf(DOMAIN calls) /\ at[w] # "off" /\ Now(w) \in DOMAIN calls
        BY <1>t, <3>4, OfFacts DEF TypeOK, AtCall
      <4>1. CASE calls[Now(w)].tool = "read_terminal"
        <5>1. t.seen = turn[w].seen /\ t.changes = turn[w].changes /\ t.request = turn[w].request
          BY <3>4, <4>0, <4>1 DEF Noted, TurnsOf
        <5> QED
          BY <1>g, <1>b, <1>c, <4>0, <5>1 DEF Booked
      <4>2. CASE calls[Now(w)].tool # "read_terminal"
        <5>1. t.seen = turn[w].seen \cup {Now(w)} /\ t.changes = turn[w].changes + 1
              /\ t.request = turn[w].request
          BY <3>4, <4>0, <4>2 DEF Noted, TurnsOf
        <5>2. Cardinality(t.seen) <= turn[w].changes + 1 /\ Distinct(t.seen)
          BY <1>b, <3>4, <4>2, <5>1, OneMoreChange
        <5> QED
          BY <1>g, <1>b, <1>c, <4>0, <5>1, <5>2
      <4> QED
        BY <4>1, <4>2
    <3> QED
      BY <1>g, <3>1, <3>2, <3>3, <3>4
  <2>2. t.resumes = FALSE => \A c \in Of(q) : calls'[c].request = t.request
    <3>1. ASSUME q # <<>>, t.resumes = FALSE, NEW c \in Of(q) PROVE calls'[c].request = t.request
      <4>1. c \in Of(todo[w]) /\ turn[w].resumes = FALSE
        BY <1>g, <3>1, <1>n
      <4>2. calls[c].request = turn[w].request
        BY <1>b, <4>1 DEF Booked
      <4>3. t.request = turn[w].request
        BY <1>g, <3>1 DEF Noted, TypeOK, TurnsOf
      <4> QED
        BY <1>g, <4>2, <4>3
    <3> QED
      BY <1>n, <3>1
  <2>3. requests <= requests'
    BY <1>g, <1>m
  <2> QED
    BY <1>g, <2>1, <2>2, <2>3, QuietStep
\* A call gets its result.
<1>r. ASSUME NEW w \in Workers, Result(w), todo[w] # <<>>, UNCHANGED <<calls, typed, requests>>,
             \A c \in DOMAIN actions : actions'[c] = "none" <=> actions[c] = "none",
             \/ at[w] # "off" /\ turn' = turn
             \/ AtCall(w) /\ Allowed(w) /\ turn' = [turn EXCEPT ![w] = Noted(w)]
      PROVE  BudgetInv'
  <2> DEFINE q == Tail(todo[w])
  <2>1. at' = [at EXCEPT ![w] = "calls"] /\ todo' = [todo EXCEPT ![w] = q]
    BY <1>r DEF Result
  <2>2. Of(q) \subseteq Of(todo[w])
    BY <1>r, <1>t
  <2>3. Noted(w).resumes = turn[w].resumes
    BY DEF Noted, TypeOK, TurnsOf
  <2> HIDE DEF q
  <2>4. CASE at[w] # "off" /\ turn' = turn
    <3>1. turn' = [turn EXCEPT ![w] = turn[w]]
      BY <1>u, <2>4
    <3> DEFINE t == turn[w]
               p == "calls"
    <3>2. /\ at' = [at EXCEPT ![w] = p] /\ turn' = [turn EXCEPT ![w] = t] /\ t = turn[w]
          /\ p \notin {"gate", "type", "typed"}
          /\ t.resumes = FALSE => turn[w].resumes = FALSE
      BY <2>1, <3>1
    <3> HIDE DEF t, p
    <3> QED
      BY <1>g, <1>r, <2>1, <2>2, <2>4, <3>2
  <2>5. CASE AtCall(w) /\ Allowed(w) /\ turn' = [turn EXCEPT ![w] = Noted(w)]
    <3> DEFINE t == Noted(w)
               p == "calls"
    <3>2. /\ at' = [at EXCEPT ![w] = p] /\ turn' = [turn EXCEPT ![w] = t] /\ t = Noted(w)
          /\ p \notin {"gate", "type", "typed"}
          /\ t.resumes = FALSE => turn[w].resumes = FALSE
      BY <2>1, <2>3, <2>5
    <3> HIDE DEF t, p
    <3> QED
      BY <1>g, <1>r, <2>1, <2>2, <2>5, <3>2
  <2> QED
    BY <1>r, <2>4, <2>5
\* The end of a turn that asks nothing.
<1>l. ASSUME NEW w \in Workers, Leaves(w), UNCHANGED <<calls, actions, typed, requests>>
      PROVE  BudgetInv'
  <2>1. /\ at' = [at EXCEPT ![w] = "off"] /\ turn' = [turn EXCEPT ![w] = NoTurn]
        /\ todo' = [todo EXCEPT ![w] = <<>>]
    BY <1>l DEF Leaves
  <2> DEFINE p == "off"
             q == <<>>
  <2>2. /\ at' = [at EXCEPT ![w] = p] /\ todo' = [todo EXCEPT ![w] = q]
        /\ p = "off" /\ p \notin {"gate", "type", "typed"} /\ q = <<>>
    BY <2>1
  <2> HIDE DEF p, q
  <2> QED
    BY <1>g, <1>l, <2>1, <2>2
<1>1. CASE Tick \/ UNCHANGED vars
  <2>1. UNCHANGED <<calls, actions, typed, requests, at, turn, todo>>
    BY <1>1 DEF Tick, vars, talk, round
  <2> QED
    BY <2>1 DEF BudgetInv, Numbered, Booked, Moderate, Spent, Distinct, Of, Now
<1>2. CASE Restart
  <2>1. /\ UNCHANGED <<calls, actions, typed>> /\ requests' = requests + 1
        /\ \A w \in Workers : at'[w] = "off" /\ turn'[w] = NoTurn /\ todo'[w] = <<>>
    BY <1>2 DEF Restart, talk
  <2>2. Numbered'
    <3>1. \A c \in DOMAIN calls : calls[c].request \in Nat
      <4>1. \A c \in DOMAIN calls : calls[c] \in CallType
        BY DEF TypeOK
      <4> QED
        BY <4>1, BoundsAssumption DEF CallType
    <3>2. \A c \in DOMAIN calls : calls'[c].request <= requests'
      BY <1>m, <2>1, <3>1 DEF BudgetInv, Numbered
    <3>3. \A c \in DOMAIN typed : typed'[c] > 0 => c \in DOMAIN calls'
      BY <2>1 DEF BudgetInv, Numbered
    <3> QED
      BY <2>1, <3>2, <3>3 DEF Numbered
  <2>3. \A n \in 1..MaxRequests : Moderate(n)'
    <3>1. \A n : Spent(n)' = Spent(n)
      BY <2>1 DEF Spent
    <3> QED
      BY <2>1, <3>1 DEF BudgetInv, Moderate, Distinct
  <2>4. ASSUME NEW w \in Workers PROVE Booked(w)'
    <3>1. at'[w] = "off" /\ turn'[w].seen = {} /\ turn'[w].changes = 0 /\ todo'[w] = <<>>
      BY <1>n, <2>1
    <3>2. Of(todo'[w]) = {} /\ Cardinality(turn'[w].seen) = 0
      BY <1>n, <3>1
    <3> QED
      BY <3>1, <3>2 DEF Booked, Distinct, Of
  <2> QED
    BY <2>2, <2>3, <2>4 DEF BudgetInv
\* A new request.
<1>s. ASSUME NEW w \in Workers, NEW p, NEW q, NEW r \in BOOLEAN, Starts(w),
             at' = [at EXCEPT ![w] = p], turn' = [turn EXCEPT ![w] = NewTurn(requests', r)],
             todo' = [todo EXCEPT ![w] = q], UNCHANGED <<calls, actions, typed>>,
             r = FALSE => q = <<>> /\ p = "chat"
      PROVE  BudgetInv'
  <2> DEFINE t == NewTurn(requests', r)
  <2>1. /\ t.seen = {} /\ t.changes = 0 /\ t.request = requests' /\ t.resumes = r
        /\ requests' = requests + 1
    BY <1>s DEF NewTurn, Starts
  <2>2. turn' = [turn EXCEPT ![w] = t]
    BY <1>s
  <2> HIDE DEF t
  <2>3. /\ t.seen \subseteq DOMAIN calls /\ Cardinality(t.seen) <= t.changes /\ Distinct(t.seen)
        /\ t.request <= requests' /\ t.request > requests /\ requests <= requests'
    BY <1>m, <1>n, <2>1
  <2>4. t.resumes = FALSE => /\ \A c \in Of(q) : calls'[c].request = t.request
                             /\ p \in {"gate", "type", "typed"} => Head(q) \in t.seen
    BY <1>n, <1>s, <2>1
  <2> QED
    BY <1>s, <2>2, <2>3, <2>4, QuietStep
<1>3. ASSUME NEW w \in Workers, Chat(w) PROVE BudgetInv'
  <2>1. /\ Starts(w) /\ at' = [at EXCEPT ![w] = "chat"] /\ UNCHANGED <<calls, actions, typed, todo>>
        /\ turn' = [turn EXCEPT ![w] = NewTurn(requests', FALSE)]
        /\ todo[w] = <<>>
    BY <1>3, <1>o DEF Chat, Starts, talk
  <2>2. todo' = [todo EXCEPT ![w] = <<>>]
    BY <1>u, <2>1
  <2> QED
    BY <1>s, <2>1, <2>2
<1>4. ASSUME NEW w \in Workers, NEW c \in DOMAIN calls, NEW approved \in BOOLEAN,
             Continue(w, c, approved)
      PROVE  BudgetInv'
  <2> DEFINE p == IF ~approved THEN "reject"
                  ELSE IF calls[c].tool = "run_shell" THEN "gate" ELSE "type"
  <2>1. /\ Starts(w) /\ at' = [at EXCEPT ![w] = p] /\ UNCHANGED <<calls, actions, typed>>
        /\ turn' = [turn EXCEPT ![w] = NewTurn(requests', TRUE)]
        /\ todo' = [todo EXCEPT ![w] = <<c>>]
    BY <1>4 DEF Continue, talk
  <2> HIDE DEF p
  <2> QED
    BY <1>s, <2>1
<1>5. ASSUME NEW w \in Workers, CloseDanglingToolCalls(w) \/ Request(w) PROVE BudgetInv'
  <2>1. /\ at[w] # "off" /\ UNCHANGED <<calls, actions, turn, todo, typed, requests>>
        /\ at' = [at EXCEPT ![w] = "ask"] \/ at' = [at EXCEPT ![w] = "stream"]
        /\ todo[w] = <<>>
    BY <1>5, <1>o DEF CloseDanglingToolCalls, Request, talk, round
  <2>2. turn' = [turn EXCEPT ![w] = turn[w]] /\ todo' = [todo EXCEPT ![w] = todo[w]]
    BY <1>u, <2>1
  <2>3. ASSUME NEW p \in {"ask", "stream"}, at' = [at EXCEPT ![w] = p] PROVE BudgetInv'
    <3> DEFINE t == turn[w]
               q == todo[w]
    <3>1. /\ turn' = [turn EXCEPT ![w] = t] /\ todo' = [todo EXCEPT ![w] = q]
          /\ t = turn[w] /\ q = <<>> /\ p \notin {"gate", "type", "typed"}
      BY <2>1, <2>2
    <3> HIDE DEF t, q
    <3> QED
      BY <1>g, <2>1, <2>3, <3>1
  <2> QED
    BY <2>1, <2>3
<1>6. ASSUME NEW w \in Workers, PersistToolResults(w) PROVE BudgetInv'
  <2> DEFINE t == [turn[w] EXCEPT !.resumes = FALSE]
             p == "ask"
             q == <<>>
  <2>1. /\ UNCHANGED <<actions, calls, typed, requests>> /\ at[w] # "off" /\ todo[w] = <<>>
        /\ at' = [at EXCEPT ![w] = p] /\ turn' = [turn EXCEPT ![w] = t]
        /\ todo' = todo
    BY <1>6 DEF PersistToolResults
  <2>2. todo' = [todo EXCEPT ![w] = q] /\ p = "ask" /\ q = <<>> /\ p \notin {"gate", "type", "typed"}
    BY <1>u, <2>1
  <2>3. t = [turn[w] EXCEPT !.resumes = FALSE]
    OBVIOUS
  <2> HIDE DEF t, p, q
  <2> QED
    BY <1>g, <2>1, <2>2, <2>3
<1>7. ASSUME NEW w \in Workers,
             NotEncodable(w) \/ TurnTimesOut(w) \/ Refused(w)
      PROVE  BudgetInv'
  <2>1. Leaves(w) /\ UNCHANGED <<calls, actions, typed, requests>>
    BY <1>7 DEF NotEncodable, TurnTimesOut, Refused, Ends
  <2> QED
    BY <1>l, <2>1
<1>8. ASSUME NEW w \in Workers, Inline(w) PROVE BudgetInv'
  <2>1. /\ Result(w) /\ todo[w] # <<>> /\ UNCHANGED <<calls, actions, typed, requests>>
        /\ AtCall(w) /\ Allowed(w) /\ turn' = [turn EXCEPT ![w] = Noted(w)]
    BY <1>8 DEF Inline, AtCall, talk
  <2> QED
    BY <1>r, <2>1
<1>9. ASSUME NEW w \in Workers,
             Unavailable(w) \/ ScreenLost(w) \/ Finished(w) \/ Reject(w)
                            \/ (AiTerminalGate(w) /\ ~GateOpen)
      PROVE  BudgetInv'
  <2>1. Result(w) /\ todo[w] # <<>> /\ turn' = turn /\ at[w] # "off"
        /\ UNCHANGED <<calls, typed, requests>>
    BY <1>9 DEF AiTerminalGate, Unavailable, ScreenLost, Finished, Reject, InHand, talk
  <2>2. \A c \in DOMAIN actions : (actions'[c] = "none" <=> actions[c] = "none")
    BY <1>9 DEF AiTerminalGate, Unavailable, ScreenLost, Finished, Reject, talk, Decide, TypeOK
  <2> QED
    BY <1>r, <2>1, <2>2
<1>10. ASSUME NEW w \in Workers, AiTerminalGate(w), GateOpen PROVE BudgetInv'
  <2> DEFINE t == turn[w]
             p == "type"
             q == todo[w]
  <2>1. /\ UNCHANGED <<actions, calls, typed, requests>> /\ at[w] = "gate"
        /\ at' = [at EXCEPT ![w] = p] /\ turn' = [turn EXCEPT ![w] = t]
        /\ todo' = [todo EXCEPT ![w] = q]
    BY <1>10, <1>u DEF AiTerminalGate, talk, round
  <2>2. t.resumes = FALSE => Head(q) \in t.seen
    BY <1>b, <2>1 DEF Booked, Now
  <2>3. t = turn[w] /\ q = todo[w]
    OBVIOUS
  <2> HIDE DEF t, p, q
  <2> QED
    BY <1>g, <2>1, <2>2, <2>3
<1>11. ASSUME NEW w \in Workers, ToTerminal(w) PROVE BudgetInv'
  <2> DEFINE t == Noted(w)
             p == "gate"
             q == todo[w]
  <2>1. /\ UNCHANGED <<actions, calls, typed, requests>> /\ AtCall(w) /\ Allowed(w)
        /\ at' = [at EXCEPT ![w] = p] /\ turn' = [turn EXCEPT ![w] = t]
        /\ todo' = [todo EXCEPT ![w] = q]
    BY <1>11, <1>u DEF ToTerminal, talk, round
  <2>2. Head(q) \in t.seen /\ (t.resumes = FALSE => turn[w].resumes = FALSE)
    <3>1. turn[w] \in TurnsOf(DOMAIN calls) /\ calls[Now(w)].tool # "read_terminal"
      BY <1>11 DEF ToTerminal, TypeOK
    <3>2. t.seen = turn[w].seen \cup {Now(w)} /\ t.resumes = turn[w].resumes
      BY <3>1 DEF Noted, TurnsOf
    <3> QED
      BY <3>2 DEF Now
  <2>3. t = Noted(w) /\ q = todo[w]
    OBVIOUS
  <2> HIDE DEF t, p, q
  <2> QED
    BY <1>g, <2>1, <2>2, <2>3
<1>12. ASSUME NEW w \in Workers, NEW asked \in Rounds, Answers(w, asked) PROVE BudgetInv'
  <2>1. /\ Asks(w, asked) /\ UNCHANGED <<actions, typed, requests>>
        /\ at' = [at EXCEPT ![w] = "off"] /\ turn' = [turn EXCEPT ![w] = NoTurn]
        /\ todo' = [todo EXCEPT ![w] = <<>>]
    BY <1>12 DEF Answers, Ends, Leaves
  <2> DEFINE p == "off"
             q == <<>>
             t == NoTurn
  <2>2. /\ at' = [at EXCEPT ![w] = p] /\ todo' = [todo EXCEPT ![w] = q]
        /\ turn' = [turn EXCEPT ![w] = t]
        /\ p = "off" /\ p \notin {"gate", "type", "typed"} /\ q = <<>>
        /\ t.seen = {} /\ t.changes = 0
    BY <1>n, <2>1
  <2> HIDE DEF p, q, t
  <2>3. Distinct(t.seen) /\ Cardinality(t.seen) <= t.changes /\ t.seen \subseteq DOMAIN calls
    BY <1>n, <2>2 DEF Distinct
  <2>4. \A c \in DOMAIN calls' \ DOMAIN calls : calls'[c].request <= requests'
    BY <1>b, <2>1, NewCalls
  <2>5. requests <= requests' /\ \A c \in Of(q) : calls'[c].request = t.request
    BY <1>n, <1>m, <2>1, <2>2
  <2>6. /\ DOMAIN calls \subseteq DOMAIN calls' /\ \A c \in DOMAIN calls : calls'[c] = calls[c]
        /\ UNCHANGED typed /\ \A c \in DOMAIN actions : actions'[c] = "none" <=> actions[c] = "none"
    BY <2>1, NewCalls
  <2> QED
    BY <2>2, <2>3, <2>4, <2>5, <2>6, QuietStep
<1>13. ASSUME NEW w \in Workers, NEW asked \in Rounds, Calls(w, asked) \/ CallsInText(w, asked)
       PROVE  BudgetInv'
  <2>1. /\ Asks(w, asked) /\ UNCHANGED <<actions, turn, typed, requests>>
        /\ at' = [at EXCEPT ![w] = "calls"]
    BY <1>13 DEF Calls, CallsInText
  <2>2. PICK q : /\ todo' = [todo EXCEPT ![w] = q]
                 /\ \A c \in Of(q) : \E i \in DOMAIN asked : c = Len(calls) + i
    <3>1. CASE Calls(w, asked)
      <4> DEFINE q == [i \in DOMAIN asked |-> Len(calls) + i]
      <4>1. todo' = [todo EXCEPT ![w] = q]
        BY <3>1 DEF Calls
      <4>2. \A c \in Of(q) : \E i \in DOMAIN asked : c = Len(calls) + i
        BY DEF Of
      <4> QED
        BY <4>1, <4>2
    <3>2. CASE CallsInText(w, asked)
      <4> DEFINE q == <<Len(calls) + 1>>
      <4>1. todo' = [todo EXCEPT ![w] = q] /\ 1 \in DOMAIN asked
        BY <3>2 DEF CallsInText, Rounds
      <4>2. \A c \in Of(q) : \E i \in DOMAIN asked : c = Len(calls) + i
        BY <4>1 DEF Of
      <4> QED
        BY <4>1, <4>2
    <3> QED
      BY <1>13, <3>1, <3>2
  <2> DEFINE p == "calls"
             t == turn[w]
  <2>3. /\ at' = [at EXCEPT ![w] = p] /\ turn' = [turn EXCEPT ![w] = t]
        /\ p \notin {"gate", "type", "typed"} /\ t = turn[w]
    BY <1>u, <2>1
  <2> HIDE DEF p, t
  <2>4. Distinct(t.seen) /\ Cardinality(t.seen) <= t.changes /\ t.seen \subseteq DOMAIN calls
    BY <1>b, <1>c, <2>3 DEF Booked
  <2>5. /\ at[w] # "off" /\ requests <= requests' /\ t.request <= requests'
        /\ \A c \in DOMAIN calls' \ DOMAIN calls : calls'[c].request <= requests'
    BY <1>b, <1>m, <2>1, <2>3, NewCalls
  <2>6. \A c \in Of(q) : calls'[c].request = t.request
    BY <2>1, <2>2, <2>3, NewCalls
  <2> QED
    BY <2>1, <2>2, <2>3, <2>4, <2>5, <2>6, QuietStep, NewCalls
\* Keys go to the terminal: the call is in the books, or was confirmed.
<1>14. ASSUME NEW w \in Workers, Types(w) PROVE BudgetInv'
  <2>0. PICK t : t = turn[w]
    OBVIOUS
  <2> DEFINE p == "typed"
             q == todo[w]
  <2>1. /\ UNCHANGED <<calls, actions, requests>> /\ at[w] = "type"
        /\ typed' = [typed EXCEPT ![Now(w)] = @ + 1]
        /\ at' = [at EXCEPT ![w] = p] /\ turn' = [turn EXCEPT ![w] = t]
        /\ todo' = [todo EXCEPT ![w] = q]
    BY <1>14, <1>u, <2>0 DEF Types, talk, round
  <2>2. /\ Booked(w) /\ p \notin {"off"} /\ t = turn[w] /\ q = todo[w]
        /\ todo[w] # <<>> /\ Now(w) \in DOMAIN calls /\ Now(w) \in Of(todo[w])
        /\ t.request <= requests
    BY <1>b, <1>t, <2>0, <2>1, OfFacts DEF InHand
  <2> HIDE DEF p, q
  <2>3. /\ turn[w].resumes = TRUE => actions[Now(w)] # "none"
        /\ turn[w].resumes = FALSE => Now(w) \in turn[w].seen /\ calls[Now(w)].request = turn[w].request
    BY <2>1, <2>2 DEF Ownership, Owned, Booked
  <2>4. /\ \A c \in DOMAIN calls : c # Now(w) => (typed'[c] > 0 <=> typed[c] > 0)
        /\ \A c \in DOMAIN typed : typed'[c] > 0 => c \in DOMAIN calls
    <3>1. /\ typed \in [1..MaxCalls -> Nat] /\ DOMAIN calls \subseteq 1..MaxCalls
      BY FiniteCalls DEF TypeOK
    <3>2. \A c \in 1..MaxCalls : c # Now(w) => typed'[c] = typed[c]
      BY <2>1, <3>1
    <3> QED
      BY <2>2, <3>1, <3>2 DEF BudgetInv, Numbered
  <2>5. turn[w].resumes \in BOOLEAN /\ turn[w].request \in 0..MaxRequests
    BY DEF TypeOK, TurnsOf
  <2>6. \A n : n # turn[w].request \/ turn[w].resumes = TRUE => Spent(n)' = Spent(n)
    BY <2>1, <2>3, <2>4, <2>5 DEF Spent
  <2>7. \A n \in 1..MaxRequests : turn[w].request = n => Spent(n)' \subseteq turn[w].seen
    <3>1. \A n \in 1..MaxRequests : turn[w].request = n => Spent(n) \subseteq turn[w].seen
      BY <2>1, <2>2 DEF Booked
    <3>2. turn[w].resumes = FALSE => \A n : Spent(n)' \subseteq Spent(n) \cup {Now(w)}
      BY <2>1, <2>4 DEF Spent
    <3> QED
      BY <2>3, <2>5, <2>6, <3>1, <3>2
  <2>8. ASSUME NEW n \in 1..MaxRequests PROVE Moderate(n)'
    <3>1. Cardinality(Spent(n)') <= ChangeBudget /\ Distinct(Spent(n)')
      <4>1. CASE n = turn[w].request
        BY <2>2, <2>7, <4>1, PartOfSeen
      <4>2. CASE n # turn[w].request
        BY <2>6, <4>2 DEF BudgetInv, Moderate
      <4> QED
        BY <4>1, <4>2
    <3> QED
      BY <2>1, <3>1 DEF Moderate, Distinct
  <2>9. /\ \A c \in Of(q) : t.resumes = FALSE => calls[c].request = t.request
        /\ t.resumes = FALSE => Head(q) \in t.seen
        /\ Cardinality(t.seen) <= t.changes /\ Distinct(t.seen)
    BY <2>2, <2>3 DEF Booked, Now
  <2>10. Distinct(t.seen)'
    <3>1. \A c, d \in t.seen : calls'[c].tool = calls'[d].tool /\ calls'[c].args = calls'[d].args
                              => c = d
      BY <2>1, <2>9 DEF Distinct
    <3> QED
      BY <3>1 DEF Distinct
  <2>11. /\ requests <= requests' /\ t.request <= requests' /\ at[w] # "off"
         /\ \A n \in 1..MaxRequests : t.request = n => Spent(n)' \subseteq t.seen
    BY <1>m, <2>1, <2>2, <2>7
  <2>12. t.resumes = FALSE => /\ \A c \in Of(q) : calls'[c].request = t.request
                              /\ p \in {"gate", "type", "typed"} => Head(q) \in t.seen
    BY <2>1, <2>9
  <2>13. /\ DOMAIN calls \subseteq DOMAIN calls' /\ \A c \in DOMAIN calls : calls'[c] = calls[c]
         /\ \A c \in DOMAIN calls' \ DOMAIN calls : calls'[c].request <= requests'
         /\ \A c \in DOMAIN typed : typed'[c] > 0 => c \in DOMAIN calls'
    BY <2>1, <2>4
  <2>14. \A n \in 1..MaxRequests : \/ Spent(n)' = Spent(n)
                                   \/ at[w] # "off" /\ n = turn[w].request
    BY <2>1, <2>6
  <2> QED
    BY <2>1, <2>2, <2>8, <2>9, <2>10, <2>11, <2>12, <2>13, <2>14, BudgetStep
\* The operator is asked: what was allowed is within the limits, and the turn is over.
<1>15. ASSUME NEW w \in Workers, NeedsConfirmation(w) PROVE BudgetInv'
  <2> DEFINE p == "off"
             t == NoTurn
             q == <<>>
  <2>1. /\ UNCHANGED <<calls, typed, requests>> /\ AtCall(w) /\ Allowed(w)
        /\ calls[Now(w)].tool # "read_terminal"
        /\ actions' = [actions EXCEPT ![Now(w)] = "pending"]
        /\ at' = [at EXCEPT ![w] = p] /\ turn' = [turn EXCEPT ![w] = t]
        /\ todo' = [todo EXCEPT ![w] = q]
    BY <1>15 DEF NeedsConfirmation, Ends, Leaves
  <2>2. /\ p = "off" /\ q = <<>> /\ t.seen = {} /\ t.changes = 0
        /\ p \notin {"gate", "type", "typed"}
    BY <1>n
  <2> HIDE DEF p, t, q
  <2>3. /\ at[w] # "off" /\ Now(w) \in DOMAIN calls /\ turn[w].resumes = FALSE
        /\ calls[Now(w)].request = turn[w].request /\ Booked(w)
    <3>1. at[w] = "calls" /\ todo[w] # <<>>
      BY <2>1 DEF AtCall
    <3>2. turn[w].resumes = FALSE
      BY <3>1 DEF Ownership, Owned, TypeOK, TurnsOf
    <3> QED
      BY <1>b, <1>t, <3>1, <3>2, OfFacts DEF Booked
  <2>4. \A n : Spent(n)' \subseteq Spent(n) \cup {Now(w)} /\ (n # turn[w].request => Spent(n)' = Spent(n))
    <3>1. \A c \in DOMAIN calls : c # Now(w) => actions'[c] = actions[c]
      <4>1. actions \in [1..MaxCalls -> Status] /\ DOMAIN calls \subseteq 1..MaxCalls
        BY FiniteCalls DEF TypeOK, Status
      <4> QED
        BY <2>1, <4>1
    <3> QED
      BY <2>1, <2>3, <3>1 DEF Spent
  <2>5. ASSUME NEW n \in 1..MaxRequests PROVE Moderate(n)'
    <3>1. CASE n = turn[w].request
      <4> DEFINE more == turn[w].seen \cup {Now(w)}
      <4>1. /\ Cardinality(more) <= turn[w].changes + 1 /\ turn[w].changes + 1 <= ChangeBudget
            /\ Distinct(more)
        BY <2>1, <2>3, OneMoreChange
      <4>2. Spent(n)' \subseteq more
        BY <2>3, <2>4, <3>1 DEF Booked
      <4>3. IsFiniteSet(more) /\ turn[w].changes \in Nat /\ ChangeBudget \in Nat
        <5>1. IsFiniteSet(turn[w].seen)
          BY FiniteCalls
        <5>2. IsFiniteSet(more)
          BY <5>1, FS_AddElement
        <5> QED
          BY <5>2, BudgetAssumption DEF TypeOK, TurnsOf
      <4> HIDE DEF more
      <4>4. Cardinality(Spent(n)') <= Cardinality(more) /\ Cardinality(more) \in Nat
            /\ Cardinality(Spent(n)') \in Nat
        BY <4>2, <4>3, FS_Subset, FS_CardinalityType
      <4>5. Cardinality(Spent(n)') <= ChangeBudget
        BY <4>1, <4>3, <4>4
      <4> QED
        BY <2>1, <4>1, <4>2, <4>5 DEF Moderate, Distinct
    <3>2. CASE n # turn[w].request
      <4>1. Spent(n)' = Spent(n)
        BY <2>4, <3>2
      <4> QED
        BY <2>1, <4>1 DEF BudgetInv, Moderate, Distinct
    <3> QED
      BY <3>1, <3>2
  <2>6. Distinct(t.seen)' /\ Cardinality(t.seen) <= t.changes
    BY <1>n, <2>2 DEF Distinct
  <2>7. /\ requests <= requests' /\ \A c \in Of(q) : calls'[c].request = t.request
        /\ \A c \in DOMAIN typed : typed'[c] > 0 => c \in DOMAIN calls'
    BY <1>m, <1>n, <2>1, <2>2 DEF BudgetInv, Numbered
  <2> QED
    BY <2>1, <2>2, <2>3, <2>4, <2>5, <2>6, <2>7, BudgetStep
<1>16. ASSUME NEW w \in Workers, Turn(w) PROVE BudgetInv'
  <2>1. CASE \E asked \in Rounds : Calls(w, asked) \/ CallsInText(w, asked) \/ Answers(w, asked)
    BY <1>12, <1>13, <2>1
  <2>2. CASE AiTerminalGate(w)
    BY <1>9, <1>10, <2>2
  <2> QED
    BY <1>5, <1>6, <1>7, <1>8, <1>9, <1>11, <1>14, <1>15, <1>16, <2>1, <2>2 DEF Turn
<1> QED
  BY <1>1, <1>2, <1>3, <1>4, <1>16 DEF Next

\* Whatever a message of the operator sets off, with any number of turns at once,
\* restarts and answers to confirmations: the calls of its turn that reach the
\* terminal are no more than the change budget, and no command is among them twice.
THEOREM TurnsStayWithinLimits == Spec => []TurnWithinLimits
<1>1. Init => Behind /\ Ownership /\ BudgetInv
  <2> SUFFICES ASSUME Init PROVE Behind /\ Ownership /\ BudgetInv
    OBVIOUS
  <2>1. Behind /\ Ownership
    BY DEF Init, Behind, Follows, Said, Ownership, Owned, Of, NoTurn, NewTurn
  <2>2. calls = <<>> /\ DOMAIN calls = {} /\ \A n : Spent(n) = {}
    BY DEF Init, Spent
  <2>3. Numbered
    BY <2>2 DEF Init, Numbered
  <2>4. \A w \in Workers : Booked(w)
    <3> SUFFICES ASSUME NEW w \in Workers PROVE Booked(w)
      OBVIOUS
    <3>1. at[w] = "off" /\ turn[w].seen = {} /\ turn[w].changes = 0 /\ todo[w] = <<>>
      BY DEF Init, NoTurn, NewTurn
    <3>2. Of(todo[w]) = {} /\ Cardinality(turn[w].seen) = 0
      BY <3>1, FS_EmptySet DEF Of
    <3> QED
      BY <3>1, <3>2 DEF Booked, Distinct
  <2>5. \A n \in 1..MaxRequests : Moderate(n)
    <3> SUFFICES ASSUME NEW n \in 1..MaxRequests PROVE Moderate(n)
      OBVIOUS
    <3>1. Cardinality({}) = 0 /\ ChangeBudget \in Nat /\ Spent(n) = {}
      BY <2>2, FS_EmptySet, BudgetAssumption
    <3>2. Cardinality(Spent(n)) <= ChangeBudget
      BY <3>1
    <3> QED
      BY <3>1, <3>2 DEF Moderate, Distinct
  <2> QED
    BY <2>1, <2>3, <2>4, <2>5 DEF BudgetInv
<1>2. TypeOK /\ BudgetInv => TurnWithinLimits
  <2> SUFFICES ASSUME TypeOK, BudgetInv, NEW n \in 1..MaxRequests
               PROVE  Cardinality(Typed(n)) <= ChangeBudget /\ Distinct(Typed(n))
    BY DEF TurnWithinLimits, Distinct
  <2>1. Typed(n) \subseteq Spent(n) /\ Moderate(n) /\ IsFiniteSet(Spent(n))
    BY FiniteCalls DEF Typed, Spent, BudgetInv
  <2>2. /\ Cardinality(Typed(n)) <= Cardinality(Spent(n))
        /\ Cardinality(Typed(n)) \in Nat /\ Cardinality(Spent(n)) \in Nat
    BY <2>1, FS_Subset, FS_CardinalityType
  <2> QED
    BY <2>1, <2>2, BudgetAssumption DEF Moderate, Distinct
<1> QED
  BY <1>1, <1>2, TypeInit, TypeStep, BehindNext, OwnershipNext, BudgetNext, PTL DEF Spec

(***************************************************************************)
(* The brake on the terminal.                                              *)
(***************************************************************************)
InWindow(t) == {a \in audits : a.gated /\ a.time \in t..(t + RateWindow)}
\* The workers past the gate whose audit row is still to come.
Past ==
  {w \in Workers : /\ at[w] \in {"type", "typed"}
                   /\ turn[w].resumes = FALSE \/ calls[Now(w)].tool = "run_shell"}
\* While a window is open, what it holds and what is on its way to it are bounded:
\* who passed the gate last found less than the limit in the window.
RateInv ==
  /\ IsFiniteSet(audits) /\ \A a \in audits : a.time \in Nat
  /\ \A t \in 0..MaxClock :
       /\ Cardinality(InWindow(t)) <= RateLimit + Cardinality(Workers) - 1
       /\ clock <= t + RateWindow =>
            Cardinality(InWindow(t)) + Cardinality(Past) <= RateLimit + Cardinality(Workers) - 1

\* Few workers, few rows.
LEMMA FiniteBrake ==
  ASSUME IsFiniteSet(audits)
  PROVE  /\ IsFiniteSet(Past) /\ Cardinality(Past) <= Cardinality(Workers)
         /\ Cardinality(Past) \in Nat
         /\ Cardinality(Workers) \in Nat \ {0} /\ RateLimit \in Nat /\ RateWindow \in Nat
         /\ \A t : IsFiniteSet(InWindow(t)) /\ Cardinality(InWindow(t)) \in Nat
<1>1. Past \subseteq Workers /\ \A t : InWindow(t) \subseteq audits
  BY DEF Past, InWindow
<1>2. IsFiniteSet(Past) /\ Cardinality(Past) <= Cardinality(Workers)
  BY <1>1, WorkersAssumption, FS_Subset
<1>3. \A t : IsFiniteSet(InWindow(t))
  BY <1>1, FS_Subset
<1>4. Cardinality(Workers) \in Nat \ {0}
  BY WorkersAssumption, FS_CardinalityType, FS_EmptySet
<1> QED
  BY <1>2, <1>3, <1>4, FS_CardinalityType, BudgetAssumption

\* Nobody passes the gate and nothing is written: workers may only go away.
LEMMA FewerPast ==
  ASSUME RateInv, UNCHANGED <<audits, clock>>, Past' \subseteq Past
  PROVE  RateInv'
<1>1. \A t : InWindow(t)' = InWindow(t)
  BY DEF InWindow
<1>2. IsFiniteSet(Past) /\ IsFiniteSet(Past') /\ Cardinality(Past') <= Cardinality(Past)
  BY FiniteBrake, FS_Subset DEF RateInv
<1>3. Cardinality(Past') \in Nat /\ Cardinality(Past) \in Nat
  BY <1>2, FS_CardinalityType
<1>4. /\ Cardinality(Workers) \in Nat /\ RateLimit \in Nat
      /\ \A t : Cardinality(InWindow(t)) \in Nat
  BY FiniteBrake DEF RateInv
<1>5. ASSUME NEW t \in 0..MaxClock
      PROVE  /\ Cardinality(InWindow(t)') <= RateLimit + Cardinality(Workers) - 1
             /\ clock' <= t + RateWindow =>
                  Cardinality(InWindow(t)') + Cardinality(Past') <= RateLimit + Cardinality(Workers) - 1
  <2>1. Cardinality(InWindow(t)') = Cardinality(InWindow(t)) /\ Cardinality(InWindow(t)) \in Nat
    BY <1>1, <1>4
  <2>2. /\ Cardinality(InWindow(t)) <= RateLimit + Cardinality(Workers) - 1
        /\ clock <= t + RateWindow =>
             Cardinality(InWindow(t)) + Cardinality(Past) <= RateLimit + Cardinality(Workers) - 1
    BY DEF RateInv
  <2> QED
    BY <1>2, <1>3, <1>4, <2>1, <2>2
<1>6. IsFiniteSet(audits') /\ \A a \in audits' : a.time \in Nat
  BY DEF RateInv
<1> QED
  BY <1>5, <1>6 DEF RateInv

\* Every step of the panel keeps the brake.
LEMMA RateNext == TypeOK /\ InHand /\ RateInv /\ [Next]_vars => RateInv'
<1> SUFFICES ASSUME TypeOK, InHand, RateInv, [Next]_vars PROVE RateInv'
  OBVIOUS
<1>n. /\ clock \in Nat /\ MaxClock \in Nat /\ RateWindow \in Nat /\ RateLimit \in Nat
      /\ Cardinality(Workers) \in Nat \ {0} /\ Cardinality(Past) \in Nat
      /\ \A t : Cardinality(InWindow(t)) \in Nat
  BY FiniteBrake, BoundsAssumption DEF TypeOK, RateInv
<1>1. CASE Tick
  <2>1. clock' = clock + 1 /\ UNCHANGED <<audits, at, turn, todo, calls>>
    BY <1>1 DEF Tick, round, talk
  <2>2. Past' = Past /\ \A t : InWindow(t)' = InWindow(t)
    BY <2>1 DEF Past, InWindow, Now
  <2>3. ASSUME NEW t \in 0..MaxClock
        PROVE  /\ Cardinality(InWindow(t)') <= RateLimit + Cardinality(Workers) - 1
               /\ clock' <= t + RateWindow =>
                    Cardinality(InWindow(t)') + Cardinality(Past') <= RateLimit + Cardinality(Workers) - 1
    <3>1. clock' <= t + RateWindow => clock <= t + RateWindow
      BY <1>n, <2>1
    <3> QED
      BY <2>2, <3>1 DEF RateInv
  <2> QED
    BY <2>1, <2>3 DEF RateInv
\* A step of one worker that keeps the calls of the others and does not get past the gate.
<1>w. ASSUME NEW w \in Workers, UNCHANGED <<audits, clock>>,
             \A v \in Workers \ {w} : at'[v] = at[v] /\ turn'[v] = turn[v] /\ todo'[v] = todo[v],
             \A c \in DOMAIN calls : calls'[c] = calls[c],
             w \in Past' => w \in Past
      PROVE  RateInv'
  <2>1. ASSUME NEW v \in Workers \ {w}, v \in Past' PROVE v \in Past
    <3>1. at[v] \in {"type", "typed"} /\ (turn[v].resumes = FALSE \/ calls'[Now(v)].tool = "run_shell")
      BY <1>w, <2>1 DEF Past, Now
    <3>2. Now(v) \in DOMAIN calls
      BY <3>1, OfFacts DEF InHand
    <3> QED
      BY <1>w, <3>1, <3>2 DEF Past
  <2>2. Past' \subseteq Past
    BY <1>w, <2>1 DEF Past
  <2> QED
    BY <1>w, <2>2, FewerPast
<1>s. ASSUME NEW w \in Workers, Turn(w), ~Finished(w), ~AiTerminalGate(w), ~Types(w)
      PROVE  /\ UNCHANGED <<audits, clock>>
             /\ \A c \in DOMAIN calls : calls'[c] = calls[c]
             /\ \A v \in Workers \ {w} : at'[v] = at[v] /\ turn'[v] = turn[v] /\ todo'[v] = todo[v]
             /\ at'[w] \notin {"type", "typed"}
  <2>1. ASSUME NEW asked \in Rounds, Calls(w, asked) \/ CallsInText(w, asked) \/ Answers(w, asked)
        PROVE  \A c \in DOMAIN calls : calls'[c] = calls[c]
    <3>1. Asks(w, asked)
      BY <2>1 DEF Calls, CallsInText, Answers
    <3> QED
      BY <3>1, NewCalls
  <2>2. ASSUME Leaves(w)
        PROVE  /\ \A v \in Workers \ {w} : at'[v] = at[v] /\ turn'[v] = turn[v] /\ todo'[v] = todo[v]
               /\ at'[w] \notin {"type", "typed"}
    BY <2>2 DEF Leaves, TypeOK
  <2>3. ASSUME NEW asked \in Rounds, Calls(w, asked) \/ CallsInText(w, asked) \/ Answers(w, asked)
        PROVE  /\ UNCHANGED <<audits, clock>>
               /\ \A v \in Workers \ {w} : at'[v] = at[v] /\ turn'[v] = turn[v] /\ todo'[v] = todo[v]
               /\ at'[w] \notin {"type", "typed"}
    <3>1. UNCHANGED <<audits, clock>>
      BY <2>3 DEF Calls, CallsInText, Answers, limits
    <3>2. CASE Answers(w, asked)
      <4>1. Leaves(w)
        BY <3>2 DEF Answers, Ends
      <4> QED
        BY <2>2, <3>1, <4>1
    <3>3. CASE Calls(w, asked)
      BY <3>1, <3>3 DEF Calls, TypeOK
    <3>4. CASE CallsInText(w, asked)
      BY <3>1, <3>4 DEF CallsInText, TypeOK
    <3> QED
      BY <2>3, <3>2, <3>3, <3>4
  <2>4. CASE NotEncodable(w) \/ TurnTimesOut(w) \/ Refused(w) \/ NeedsConfirmation(w)
    <3>1. Leaves(w) /\ UNCHANGED <<audits, clock, calls>>
      BY <2>4 DEF NotEncodable, TurnTimesOut, Refused, NeedsConfirmation, Ends, limits
    <3> QED
      BY <2>2, <3>1
  <2>5. CASE Request(w)
    BY <2>5 DEF Request, limits, round, talk, TypeOK
  <2>6. CASE PersistToolResults(w)
    BY <2>6 DEF PersistToolResults, limits, TypeOK
  <2>7. CASE CloseDanglingToolCalls(w)
    BY <2>7 DEF CloseDanglingToolCalls, limits, TypeOK
  <2>8. CASE ToTerminal(w)
    BY <2>8 DEF ToTerminal, limits, round, talk, TypeOK
  <2>9. CASE Inline(w) \/ Unavailable(w) \/ ScreenLost(w) \/ Reject(w)
    <3>1. UNCHANGED <<audits, clock, calls>> /\ Result(w)
      BY <2>9 DEF Inline, Unavailable, ScreenLost, Reject, limits, talk
    <3>2. \A v \in Workers \ {w} : turn'[v] = turn[v]
      BY <2>9 DEF Inline, Unavailable, ScreenLost, Reject, talk, TypeOK
    <3> QED
      BY <3>1, <3>2 DEF Result, TypeOK
  <2>10. CASE \E asked \in Rounds : Calls(w, asked) \/ CallsInText(w, asked) \/ Answers(w, asked)
    BY <2>1, <2>3, <2>10
  <2> QED
    BY <1>s, <2>4, <2>5, <2>6, <2>7, <2>8, <2>9, <2>10 DEF Turn
<1>2. ASSUME NEW w \in Workers, Turn(w), ~Finished(w), ~AiTerminalGate(w), ~Types(w)
      PROVE  RateInv'
  <2>1. w \notin Past'
    BY <1>2, <1>s DEF Past
  <2> QED
    BY <1>2, <1>s, <1>w, <2>1
<1>3. ASSUME NEW w \in Workers, Types(w) PROVE RateInv'
  <2>1. /\ UNCHANGED <<audits, clock, calls, turn, todo>> /\ at[w] = "type"
        /\ at' = [at EXCEPT ![w] = "typed"]
    BY <1>3 DEF Types, talk, round, limits
  <2>2. \A v \in Workers \ {w} : at'[v] = at[v]
    BY <2>1 DEF TypeOK
  <2>3. w \in Past' => w \in Past
    BY <2>1 DEF Past, Now
  <2> QED
    BY <1>w, <2>1, <2>2, <2>3
\* A call that passes: the window held less than the limit.
<1>4. ASSUME NEW w \in Workers, AiTerminalGate(w), GateOpen PROVE RateInv'
  <2>1. UNCHANGED <<audits, clock, calls, turn, todo>> /\ Cardinality(Counted) < RateLimit
    BY <1>4 DEF AiTerminalGate, talk, round, limits, GateOpen
  <2>2. \A t : InWindow(t)' = InWindow(t)
    BY <2>1 DEF InWindow
  <2>3. Cardinality(Past') <= Cardinality(Workers) /\ Cardinality(Past') \in Nat
    <3>1. Past' \subseteq Workers
      BY DEF Past
    <3> QED
      BY <3>1, WorkersAssumption, FS_Subset, FS_CardinalityType
  <2>4. ASSUME NEW t \in 0..MaxClock, clock <= t + RateWindow
        PROVE  Cardinality(InWindow(t)) < RateLimit
    <3>1. InWindow(t) \subseteq Counted
      <4>1. \A a \in InWindow(t) : a.time \in Nat /\ a.time >= t
        BY DEF InWindow, RateInv
      <4> QED
        BY <1>n, <2>4, <4>1 DEF InWindow, Counted
    <3>2. IsFiniteSet(Counted)
      <4>1. Counted \subseteq audits
        BY DEF Counted
      <4> QED
        BY <4>1, FS_Subset DEF RateInv
    <3>3. Cardinality(InWindow(t)) <= Cardinality(Counted) /\ Cardinality(Counted) \in Nat
      BY <3>1, <3>2, FS_Subset, FS_CardinalityType
    <3> QED
      BY <1>n, <2>1, <3>3
  <2>5. ASSUME NEW t \in 0..MaxClock
        PROVE  /\ Cardinality(InWindow(t)') <= RateLimit + Cardinality(Workers) - 1
               /\ clock' <= t + RateWindow =>
                    Cardinality(InWindow(t)') + Cardinality(Past') <= RateLimit + Cardinality(Workers) - 1
    <3>1. /\ Cardinality(InWindow(t)') = Cardinality(InWindow(t)) /\ Cardinality(InWindow(t)) \in Nat
          /\ Cardinality(InWindow(t)) <= RateLimit + Cardinality(Workers) - 1
      BY <1>n, <2>2 DEF RateInv
    <3> QED
      BY <1>n, <2>1, <2>3, <2>4, <3>1
  <2> QED
    BY <2>1, <2>5 DEF RateInv
<1>5. ASSUME NEW w \in Workers, AiTerminalGate(w), ~GateOpen PROVE RateInv'
  <2> DEFINE q == Tail(todo[w])
  <2>1. /\ UNCHANGED <<audits, clock, calls, turn>> /\ at' = [at EXCEPT ![w] = "calls"]
        /\ todo' = [todo EXCEPT ![w] = q]
    BY <1>5 DEF AiTerminalGate, Result, talk, limits
  <2> HIDE DEF q
  <2>2. /\ \A v \in Workers \ {w} : at'[v] = at[v] /\ todo'[v] = todo[v]
        /\ at'[w] = "calls"
    BY <2>1 DEF TypeOK
  <2>3. w \notin Past'
    BY <2>2 DEF Past
  <2> QED
    BY <1>w, <2>1, <2>2, <2>3
\* A row is written: one more in the windows that are open, one less on its way.
<1>6. ASSUME NEW w \in Workers, Finished(w) PROVE RateInv'
  <2> DEFINE row == [call |-> Now(w), time |-> clock, nth |-> Cardinality(audits),
                     gated |-> ~turn[w].resumes \/ calls[Now(w)].tool = "run_shell"]
             q == Tail(todo[w])
  <2>1. /\ audits' = audits \cup {row} /\ at[w] = "typed" /\ UNCHANGED <<calls, turn, clock>>
        /\ at' = [at EXCEPT ![w] = "calls"] /\ todo' = [todo EXCEPT ![w] = q]
    BY <1>6 DEF Finished, Result
  <2>2. row.time = clock /\ (row.gated <=> turn[w].resumes = FALSE \/ calls[Now(w)].tool = "run_shell")
    BY DEF TypeOK, TurnsOf
  <2> HIDE DEF row, q
  <2>3. /\ \A v \in Workers \ {w} : at'[v] = at[v] /\ todo'[v] = todo[v]
        /\ at'[w] = "calls"
    BY <2>1 DEF TypeOK
  <2>4. Past' = Past \ {w}
    BY <2>1, <2>3 DEF Past, Now
  <2>5. row.gated <=> w \in Past
    BY <2>1, <2>2 DEF Past
  <2>6. IsFiniteSet(audits') /\ \A a \in audits' : a.time \in Nat
    BY <1>n, <2>1, <2>2, FS_AddElement DEF RateInv
  <2>7. IsFiniteSet(Past) /\ \A t : IsFiniteSet(InWindow(t))
    BY FiniteBrake DEF RateInv
  <2>8. CASE w \in Past
    <3>1. Cardinality(Past') = Cardinality(Past) - 1
      BY <2>4, <2>7, <2>8, FS_RemoveElement
    <3>2. ASSUME NEW t \in 0..MaxClock
          PROVE  /\ Cardinality(InWindow(t)') <= RateLimit + Cardinality(Workers) - 1
                 /\ clock' <= t + RateWindow =>
                      Cardinality(InWindow(t)') + Cardinality(Past') <= RateLimit + Cardinality(Workers) - 1
      <4>1. CASE clock <= t + RateWindow
        <5>1. InWindow(t)' = InWindow(t) \/ InWindow(t)' = InWindow(t) \cup {row}
          BY <2>1 DEF InWindow
        <5>2. Cardinality(InWindow(t)') \in {Cardinality(InWindow(t)), Cardinality(InWindow(t)) + 1}
          BY <2>7, <5>1, FS_AddElement
        <5>3. Cardinality(InWindow(t)) + Cardinality(Past) <= RateLimit + Cardinality(Workers) - 1
          BY <4>1 DEF RateInv
        <5>4. Cardinality(Past) - 1 \in Nat
          <6>1. IsFiniteSet(Past')
            BY <2>4, <2>7, FS_RemoveElement
          <6> QED
            BY <3>1, <6>1, FS_CardinalityType
        <5> QED
          BY <1>n, <3>1, <5>2, <5>3, <5>4
      <4>2. CASE ~(clock <= t + RateWindow)
        <5>1. InWindow(t)' = InWindow(t)
          BY <1>n, <2>1, <2>2, <4>2 DEF InWindow
        <5> QED
          BY <2>1, <4>2, <5>1 DEF RateInv
      <4> QED
        BY <4>1, <4>2
    <3> QED
      BY <2>6, <3>2 DEF RateInv
  <2>9. CASE w \notin Past
    <3>1. Past' = Past /\ \A t : InWindow(t)' = InWindow(t)
      BY <2>1, <2>4, <2>5, <2>9 DEF InWindow
    <3> QED
      BY <2>1, <2>6, <3>1 DEF RateInv
  <2> QED
    BY <2>8, <2>9
\* A call without a gate is not counted.
<1>7. ASSUME NEW w \in Workers, NEW c \in DOMAIN calls, NEW approved \in BOOLEAN,
             Continue(w, c, approved)
      PROVE  RateInv'
  <2> DEFINE p == IF ~approved THEN "reject"
                  ELSE IF calls[c].tool = "run_shell" THEN "gate" ELSE "type"
             t == NewTurn(requests', TRUE)
             q == <<c>>
  <2>1. /\ at' = [at EXCEPT ![w] = p] /\ UNCHANGED <<calls, audits, clock>>
        /\ turn' = [turn EXCEPT ![w] = t] /\ todo' = [todo EXCEPT ![w] = q]
    BY <1>7 DEF Continue, talk, limits
  <2>2. /\ t.resumes = TRUE /\ Head(q) = c
        /\ p \in {"type", "typed"} => calls[c].tool # "run_shell"
    BY DEF NewTurn
  <2> HIDE DEF p, t, q
  <2>3. /\ \A v \in Workers \ {w} : at'[v] = at[v] /\ turn'[v] = turn[v] /\ todo'[v] = todo[v]
        /\ at'[w] = p /\ turn'[w] = t /\ todo'[w] = q
    BY <2>1 DEF TypeOK
  <2>4. w \notin Past'
    BY <2>1, <2>2, <2>3 DEF Past, Now
  <2> QED
    BY <1>w, <2>1, <2>3, <2>4
<1>8. ASSUME NEW w \in Workers, Chat(w) PROVE RateInv'
  <2>1. /\ at' = [at EXCEPT ![w] = "chat"] /\ UNCHANGED <<calls, audits, clock, todo>>
        /\ turn' = [turn EXCEPT ![w] = NewTurn(requests', FALSE)]
    BY <1>8 DEF Chat, talk, limits
  <2>2. /\ \A v \in Workers \ {w} : at'[v] = at[v] /\ turn'[v] = turn[v]
        /\ at'[w] = "chat"
    BY <2>1 DEF TypeOK
  <2>3. w \notin Past'
    BY <2>2 DEF Past
  <2> QED
    BY <1>w, <2>1, <2>2, <2>3
<1>9. CASE Restart
  <2>1. UNCHANGED <<audits, clock>> /\ \A w \in Workers : at'[w] = "off"
    BY <1>9 DEF Restart, limits
  <2>2. Past' \subseteq Past
    BY <2>1 DEF Past
  <2> QED
    BY <2>1, <2>2, FewerPast
<1>10. CASE UNCHANGED vars
  <2>1. UNCHANGED <<audits, clock, at, turn, todo, calls>>
    BY <1>10 DEF vars, talk, round, limits
  <2>2. Past' = Past
    BY <2>1 DEF Past, Now
  <2> QED
    BY <2>1, <2>2, FewerPast
<1> QED
  BY <1>1, <1>2, <1>3, <1>4, <1>5, <1>6, <1>7, <1>8, <1>9, <1>10 DEF Next

\* Turns that run at once can all read the same count at the gate and write their
\* rows later, and still a window never holds more gated actions than the limit and
\* one per worker beyond the first, for any number of workers, any limit and window.
THEOREM BrakeHolds == Spec => []RateBound
<1>1. Init => RateInv
  <2> SUFFICES ASSUME Init PROVE RateInv
    OBVIOUS
  <2>1. audits = {} /\ Past = {} /\ \A t : InWindow(t) = {}
    BY DEF Init, Past, InWindow
  <2>2. IsFiniteSet(audits) /\ Cardinality({}) = 0
    BY <2>1, FS_EmptySet
  <2>3. Cardinality(Workers) \in Nat \ {0} /\ RateLimit \in Nat
    BY <2>2, FiniteBrake
  <2>4. /\ \A t : Cardinality(InWindow(t)) = 0
        /\ Cardinality(Past) = 0
    BY <2>1, <2>2
  <2> QED
    BY <2>1, <2>2, <2>3, <2>4 DEF RateInv
<1>2. RateInv => RateBound
  BY DEF RateInv, RateBound, InWindow
<1> QED
  BY <1>1, <1>2, TypeInit, TypeStep, RateNext, PTL DEF Spec
=============================================================================
