------------------------- MODULE PromptCreditProofs -------------------------
(***************************************************************************)
(* Proofs about PromptCredit for any number of calls, users and requests.  *)
(***************************************************************************)
EXTENDS PromptCredit, TLAPS

\* A reservation is served by one call: the one that made it.
OneServer ==
  \A c, d \in Calls : Serving(c) /\ Serving(d) /\ Key(c) = Key(d) => c = d

\* The model is asked after the reservation and before anything else happens to it.
AskedOnce ==
  /\ \A c \in Calls : Serving(c) => hold[Key(c)] # "absent"
  /\ \A c \in Calls : At(c, "model") => asked[Key(c)] = 0
  /\ \A k \in Keys : hold[k] = "absent" => asked[k] = 0
  /\ ModelAskedOnce

\* What is kept of a call.
CallRow ==
  [pc : {"lookup", "reserve", "model", "store", "release", "done"},
      usage : {"fits", "zero", "over"},
      answer : {"none", "result", "conflict", "refused", "in_progress",
                "terminal", "failed", "lost"}]

\* The inductive invariant.
IInv == TypeOK /\ OneServer /\ AskedOnce /\ ChargedIffStored /\ ResultIsOwn

\* The key of a call is a key.
LEMMA KeyType == \A c \in Calls : Key(c) \in Keys /\ Owner[c] \in Users /\ Request[c] \in Requests
                                  /\ [owner |-> Owner[c], content |-> Content[c]]
                                        \in [owner : Users, content : Contents]
  BY CallAssumption DEF Key, Keys

\* Nothing has been asked, stored or charged at the start.
LEMMA InitIInv == Init => IInv
<1> SUFFICES ASSUME Init PROVE IInv
  OBVIOUS
<1>1. TypeOK
  BY CallAssumption DEF Init, TypeOK, New
<1>2. OneServer /\ ResultIsOwn
  BY DEF Init, New, OneServer, ResultIsOwn, Serving
<1>3. AskedOnce
  BY KeyType DEF Init, New, AskedOnce, ModelAskedOnce, Serving, At
<1>4. ChargedIffStored
  BY DEF Init, ChargedIffStored, Keys
<1> QED
  BY <1>1, <1>2, <1>3, <1>4 DEF IInv

\* A step that moves one call without starting to serve and touches no row keeps all
\* the invariant, provided a result is answered only where it matches.
LEMMA MoveStep ==
  ASSUME IInv, NEW c \in Calls, UNCHANGED <<hold, stored, asked>>,
         budget' \in [Disturbances -> Nat],
         call' = [call EXCEPT ![c] = call'[c]],
         call'[c] \in CallRow,
         call'[c].pc \in {"store", "release"} => Serving(c),
         call'[c].pc # "model",
         call'[c].answer = "result" =>
           call[c].answer = "result" \/ Matches(stored[Request[c]], c)
  PROVE  IInv'
<1>1. TypeOK'
  BY DEF IInv, TypeOK, CallRow
<1>2. \A d \in Calls : d # c => call'[d] = call[d]
  BY DEF IInv, TypeOK
<1>3. \A d \in Calls : Serving(d)' => Serving(d)
  BY <1>2 DEF Serving
<1>4. OneServer'
  BY <1>3 DEF IInv, OneServer, Key
<1>5. AskedOnce'
  <2>1. \A d \in Calls : At(d, "model")' => At(d, "model")
    BY <1>2 DEF At
  <2> QED
    BY <1>3, <2>1 DEF IInv, AskedOnce, ModelAskedOnce, Key
<1>6. ChargedIffStored'
  BY DEF IInv, ChargedIffStored
<1>7. ResultIsOwn'
  BY <1>2 DEF IInv, ResultIsOwn, Matches
<1> QED
  BY <1>1, <1>4, <1>5, <1>6, <1>7 DEF IInv

\* Only the call that finds no reservation makes one and goes on to the model.
LEMMA ReserveStep ==
  ASSUME IInv, NEW c \in Calls, Reserve(c)
  PROVE  IInv'
<1>1. /\ At(c, "reserve") /\ hold[Key(c)] = "absent"
      /\ hold' = [hold EXCEPT ![Key(c)] = "held"]
      /\ call' = [call EXCEPT ![c].pc = "model"]
      /\ UNCHANGED <<stored, asked, budget>>
  BY DEF Reserve, Goto
<1>2. Key(c) \in Keys
  BY KeyType
<1>3. TypeOK'
  BY <1>1, <1>2 DEF IInv, TypeOK
<1>4. /\ \A d \in Calls : d # c => call'[d] = call[d]
      /\ call'[c].pc = "model" /\ call'[c].answer = call[c].answer
  BY <1>1 DEF IInv, TypeOK
<1>5. \A d \in Calls : d # c /\ Serving(d)' => Serving(d) /\ Key(d) # Key(c)
  BY <1>1, <1>4 DEF IInv, AskedOnce, Serving
<1>6. OneServer'
  BY <1>5 DEF OneServer, IInv, Key
<1>7. AskedOnce'
  <2>1. asked[Key(c)] = 0
    BY <1>1, <1>2 DEF IInv, AskedOnce
  <2>2. \A k \in Keys : k # Key(c) => hold'[k] = hold[k]
    BY <1>1 DEF IInv, TypeOK
  <2>3. hold'[Key(c)] = "held"
    BY <1>1, <1>2 DEF IInv, TypeOK
  <2>4. \A d \in Calls : Serving(d)' => hold'[Key(d)] # "absent"
    BY <1>5, <2>2, <2>3, KeyType DEF IInv, AskedOnce
  <2>5. \A d \in Calls : At(d, "model")' => asked[Key(d)] = 0
    BY <1>4, <2>1 DEF IInv, AskedOnce, At
  <2>6. \A k \in Keys : hold'[k] = "absent" => asked[k] = 0
    BY <2>2, <2>3 DEF IInv, AskedOnce
  <2> QED
    BY <1>1, <2>4, <2>5, <2>6 DEF IInv, AskedOnce, ModelAskedOnce, Key
<1>8. ChargedIffStored'
  <2>1. \A k \in Keys : hold'[k] = "settled" <=> hold[k] = "settled"
    BY <1>1, <1>2 DEF IInv, TypeOK
  <2> QED
    BY <1>1, <2>1 DEF IInv, ChargedIffStored, Keys
<1>9. ResultIsOwn'
  BY <1>1, <1>4 DEF IInv, ResultIsOwn, Matches
<1> QED
  BY <1>3, <1>6, <1>7, <1>8, <1>9 DEF IInv

\* The serving call asks the model; no other call of the request is about to.
LEMMA ModelStep ==
  ASSUME IInv, NEW c \in Calls, At(c, "model"),
         NEW usage \in {"fits", "zero", "over"}, NEW pc \in {"store", "release"},
         call' = [call EXCEPT ![c].pc = pc, ![c].usage = usage],
         asked' = [asked EXCEPT ![Key(c)] = @ + 1],
         UNCHANGED <<hold, stored, budget>>
  PROVE  IInv'
<1>1. Key(c) \in Keys
  BY KeyType
<1>2. TypeOK'
  <2>1. asked' \in [Keys -> Nat]
    BY <1>1 DEF IInv, TypeOK
  <2>2. call' \in [Calls -> CallRow]
    <3>1. call = [d \in Calls |-> call[d]] /\ \A d \in Calls : call[d] \in CallRow
      BY DEF IInv, TypeOK, CallRow
    <3>2. call' = [d \in Calls |-> IF d = c THEN [call[c] EXCEPT !.pc = pc, !.usage = usage]
                                   ELSE call[d]]
      BY <3>1
    <3>3. [call[c] EXCEPT !.pc = pc, !.usage = usage] \in CallRow
      BY <3>1 DEF CallRow
    <3> QED
      BY <3>1, <3>2, <3>3
  <2> QED
    BY <2>1, <2>2 DEF IInv, TypeOK, CallRow
<1>3. /\ \A d \in Calls : d # c => call'[d] = call[d]
      /\ call'[c].pc = pc /\ call'[c].answer = call[c].answer
  BY DEF IInv, TypeOK
<1>4. Serving(c) /\ hold[Key(c)] # "absent" /\ asked[Key(c)] = 0
  BY DEF IInv, AskedOnce, Serving, At
<1>5. \A d \in Calls : Serving(d)' => Serving(d)
  BY <1>3, <1>4 DEF Serving
<1>6. OneServer'
  BY <1>5 DEF IInv, OneServer, Key
<1>7. AskedOnce'
  <2>1. asked'[Key(c)] = 1 /\ \A k \in Keys : k # Key(c) => asked'[k] = asked[k]
    BY <1>1, <1>4 DEF IInv, TypeOK
  <2>2. \A d \in Calls : At(d, "model")' => At(d, "model") /\ d # c
    BY <1>3 DEF At
  <2>3. \A d \in Calls : At(d, "model")' => Key(d) # Key(c)
    BY <1>4, <2>2 DEF IInv, OneServer, Serving, At
  <2>4. \A d \in Calls : At(d, "model")' => asked'[Key(d)] = 0
    BY <2>1, <2>2, <2>3, KeyType DEF IInv, AskedOnce
  <2>5. \A k \in Keys : hold[k] = "absent" => asked'[k] = 0
    BY <1>4, <2>1 DEF IInv, AskedOnce
  <2>6. ModelAskedOnce'
    BY <2>1 DEF IInv, AskedOnce, ModelAskedOnce
  <2> QED
    BY <1>5, <2>4, <2>5, <2>6 DEF IInv, AskedOnce, Key
<1>8. ChargedIffStored'
  BY DEF IInv, ChargedIffStored
<1>9. ResultIsOwn'
  BY <1>3 DEF IInv, ResultIsOwn, Matches
<1> QED
  BY <1>2, <1>6, <1>7, <1>8, <1>9 DEF IInv

\* The row and the settlement come together, on an id nobody has a row for.
LEMMA SettleStep ==
  ASSUME IInv, NEW c \in Calls, At(c, "store"), CanSettle(c), Settled(c),
         budget' \in [Disturbances -> Nat], asked' = asked,
         \/ call' = [call EXCEPT ![c].pc = "done", ![c].answer = "result"]
         \/ call' = [call EXCEPT ![c].pc = "release"]
  PROVE  IInv'
<1> DEFINE row == [owner |-> Owner[c], content |-> Content[c]]
<1>1. /\ stored' = [stored EXCEPT ![Request[c]] = row]
      /\ hold' = [hold EXCEPT ![Key(c)] = "settled"]
      /\ stored[Request[c]] = None /\ hold[Key(c)] = "held"
  BY DEF CanSettle, Settled
<1>2. Key(c) \in Keys /\ Request[c] \in Requests /\ row \in [owner : Users, content : Contents]
      /\ row.owner = Owner[c] /\ row # None
  BY KeyType, CallAssumption
<1> HIDE DEF row
<1>3. TypeOK'
  <2>1. stored' \in [Requests -> [owner : Users, content : Contents] \cup {None}]
    BY <1>1, <1>2 DEF IInv, TypeOK
  <2>2. hold' \in [Keys -> {"absent", "held", "settled", "released"}]
    BY <1>1, <1>2 DEF IInv, TypeOK
  <2>3. call' \in [Calls -> CallRow]
    BY DEF IInv, TypeOK, CallRow
  <2> QED
    BY <2>1, <2>2, <2>3 DEF IInv, TypeOK, CallRow
<1>4. /\ \A d \in Calls : d # c => call'[d] = call[d]
      /\ call'[c].pc \in {"done", "release"}
  BY DEF IInv, TypeOK
<1>5. Serving(c) /\ \A d \in Calls : Serving(d)' => Serving(d)
  BY <1>4 DEF Serving, At
<1>6. OneServer'
  BY <1>5 DEF IInv, OneServer, Key
<1>7. \A k \in Keys : hold'[k] = IF k = Key(c) THEN "settled" ELSE hold[k]
  BY <1>1 DEF IInv, TypeOK
<1>8. AskedOnce'
  <2>1. \A d \in Calls : At(d, "model")' => At(d, "model")
    BY <1>4 DEF At
  <2> QED
    BY <1>5, <1>7, <2>1, KeyType DEF IInv, AskedOnce, ModelAskedOnce, Key
<1>9. \A r \in Requests : stored'[r] = IF r = Request[c] THEN row ELSE stored[r]
  BY <1>1 DEF IInv, TypeOK
<1>10. ChargedIffStored'
  <2>1. ASSUME NEW u \in Users, NEW r \in Requests
        PROVE  hold'[<<u, r>>] = "settled" <=> stored'[r] # None /\ stored'[r].owner = u
    <3>1. <<u, r>> \in Keys
      BY DEF Keys
    <3>2. CASE r # Request[c]
      <4>1. hold'[<<u, r>>] = hold[<<u, r>>] /\ stored'[r] = stored[r]
        BY <1>7, <1>9, <3>1, <3>2 DEF Key
      <4> QED
        BY <4>1 DEF IInv, ChargedIffStored
    <3>3. CASE r = Request[c]
      <4>1. stored'[r] = row /\ hold[<<u, r>>] # "settled"
        BY <1>1, <1>9, <3>3 DEF IInv, ChargedIffStored
      <4>2. hold'[<<u, r>>] = "settled" <=> u = Owner[c]
        BY <1>7, <3>1, <3>3, <4>1 DEF Key
      <4> QED
        BY <1>2, <4>1, <4>2
    <3> QED
      BY <3>2, <3>3
  <2> QED
    BY <2>1 DEF ChargedIffStored
<1>11. ResultIsOwn'
  <2>1. \A d \in Calls : Matches(stored[Request[d]], d) => Matches(stored'[Request[d]], d)
    BY <1>1, <1>9, KeyType, CallAssumption DEF Matches
  <2>2. Matches(stored'[Request[c]], c)
    BY <1>2, <1>9 DEF Matches, row
  <2> QED
    BY <1>4, <2>1, <2>2 DEF IInv, ResultIsOwn, Matches
<1> QED
  BY <1>3, <1>6, <1>8, <1>10, <1>11 DEF IInv

\* A release ends a hold without a charge.
LEMMA ReleaseStep ==
  ASSUME IInv, NEW c \in Calls, Release(c)
  PROVE  IInv'
<1>1. /\ At(c, "release") /\ hold[Key(c)] = "held"
      /\ hold' = [hold EXCEPT ![Key(c)] = "released"]
      /\ call' = [call EXCEPT ![c].pc = "done", ![c].answer = "failed"]
      /\ UNCHANGED <<stored, asked, budget>>
  BY DEF Release, CanRelease, Answer
<1>2. Key(c) \in Keys
  BY KeyType
<1>3. TypeOK'
  BY <1>1, <1>2, ZenonT(60) DEF IInv, TypeOK
<1>4. /\ \A d \in Calls : d # c => call'[d] = call[d]
      /\ call'[c].pc = "done" /\ call'[c].answer = "failed"
  BY <1>1 DEF IInv, TypeOK
<1>5. \A d \in Calls : Serving(d)' => Serving(d)
  BY <1>4 DEF Serving
<1>6. OneServer'
  BY <1>5 DEF IInv, OneServer, Key
<1>7. \A k \in Keys : hold'[k] = IF k = Key(c) THEN "released" ELSE hold[k]
  BY <1>1 DEF IInv, TypeOK
<1>8. AskedOnce'
  <2>1. \A d \in Calls : At(d, "model")' => At(d, "model")
    BY <1>4 DEF At
  <2> QED
    BY <1>1, <1>5, <1>7, <2>1, KeyType DEF IInv, AskedOnce, ModelAskedOnce, Key
<1>9. ChargedIffStored'
  <2>1. \A k \in Keys : hold'[k] = "settled" <=> hold[k] = "settled"
    BY <1>1, <1>7
  <2> QED
    BY <1>1, <2>1 DEF IInv, ChargedIffStored, Keys
<1>10. ResultIsOwn'
  BY <1>1, <1>4 DEF IInv, ResultIsOwn, Matches
<1> QED
  BY <1>3, <1>6, <1>8, <1>9, <1>10 DEF IInv

\* Every step preserves the invariant.
LEMMA NextIInv ==
  ASSUME IInv, [Next]_vars
  PROVE  IInv'
<1>a. \A c \in Calls : call[c] \in CallRow
  BY DEF IInv, TypeOK, CallRow
<1>b. \A kind \in Disturbances : Spend(kind) => budget' \in [Disturbances -> Nat]
  BY DEF IInv, TypeOK, Spend
<1>c. budget \in [Disturbances -> Nat] /\ call = [c \in Calls |-> call[c]]
  BY DEF IInv, TypeOK
<1>d. {"crash", "refusal", "commitUnknown"} = Disturbances
  BY DEF Disturbances
<1>1. ASSUME NEW c \in Calls, Lookup(c) PROVE IInv'
  BY <1>1, <1>a, <1>c, MoveStep DEF CallRow, Lookup, Goto, Answer, At
<1>2. ASSUME NEW c \in Calls, Reserve(c) PROVE IInv'
  BY <1>2, ReserveStep
<1>3. ASSUME NEW c \in Calls, ReserveRefused(c) \/ ReserveReplayed(c) PROVE IInv'
  BY <1>3, <1>a, <1>c, MoveStep DEF CallRow, ReserveRefused, ReserveReplayed, Answer
<1>4. ASSUME NEW c \in Calls, NEW usage \in Usages, ModelAnswers(c, usage) PROVE IInv'
  BY <1>4, ModelStep, CallAssumption DEF ModelAnswers
<1>5. ASSUME NEW c \in Calls, ModelFails(c) PROVE IInv'
  <2>1. call' = [call EXCEPT ![c].pc = "release", ![c].usage = call[c].usage]
    BY <1>5, <1>a, <1>c DEF ModelFails, Goto, CallRow
  <2> QED
    BY <1>5, <1>a, <2>1, ModelStep DEF ModelFails, CallRow
<1>6. ASSUME NEW c \in Calls, Store(c) PROVE IInv'
  BY <1>6, <1>c, SettleStep DEF Store, Answer
<1>7. ASSUME NEW c \in Calls, StoreUnconfirmed(c) PROVE IInv'
  BY <1>7, <1>b, <1>d, SettleStep DEF StoreUnconfirmed, Goto
<1>8. ASSUME NEW c \in Calls, StoreFails(c) PROVE IInv'
  BY <1>8, <1>a, <1>b, <1>c, <1>d, MoveStep DEF CallRow, StoreFails, Goto, At, Serving
<1>9. ASSUME NEW c \in Calls, Release(c) PROVE IInv'
  BY <1>9, ReleaseStep
<1>10. ASSUME NEW c \in Calls, ReleaseFails(c) PROVE IInv'
  BY <1>10, <1>a, <1>b, <1>c, <1>d, MoveStep DEF CallRow, ReleaseFails, Answer, At
<1>11. ASSUME NEW c \in Calls, Crash(c) PROVE IInv'
  <2>1. /\ call' = [call EXCEPT ![c].pc = "done", ![c].answer = "lost"]
        /\ UNCHANGED <<hold, stored, asked>> /\ budget' \in [Disturbances -> Nat]
    BY <1>11, <1>b, <1>d DEF Crash, Answer
  <2>2. /\ call' = [call EXCEPT ![c] = call'[c]]
        /\ call'[c] = [call[c] EXCEPT !.pc = "done", !.answer = "lost"]
    BY <1>c, <2>1
  <2>3. call'[c] \in CallRow /\ call'[c].pc = "done" /\ call'[c].answer = "lost"
    BY <1>a, <2>2 DEF CallRow
  <2> QED
    BY <2>1, <2>2, <2>3, MoveStep
<1>12. CASE UNCHANGED vars
  BY <1>12 DEF vars, IInv, TypeOK, OneServer, AskedOnce, ModelAskedOnce, ChargedIffStored,
              ResultIsOwn, Serving, At, Matches, Key
<1> QED
  BY <1>1, <1>2, <1>3, <1>4, <1>5, <1>6, <1>7, <1>8, <1>9, <1>10, <1>11, <1>12 DEF Next, Step

\* The invariant holds in every behaviour.
LEMMA Invariant == Spec => []IInv
<1>1. IInv /\ [Next]_vars => IInv'
  BY NextIInv
<1> QED
  BY InitIInv, <1>1, PTL DEF Spec

\* Rows and calls stay within their types.
THEOREM TypeCorrect == Spec => []TypeOK
<1>1. IInv => TypeOK
  BY DEF IInv
<1> QED
  BY Invariant, <1>1, PTL

\* A user is charged for a request exactly if its result is stored as theirs.
THEOREM ChargeMeansResult == Spec => []ChargedIffStored
<1>1. IInv => ChargedIffStored
  BY DEF IInv
<1> QED
  BY Invariant, <1>1, PTL

\* However often a request is sent, the model is asked at most once for it.
THEOREM AskedAtMostOnce == Spec => []ModelAskedOnce
<1>1. IInv => ModelAskedOnce
  BY DEF IInv, AskedOnce
<1> QED
  BY Invariant, <1>1, PTL

\* Whoever gets a result gets their own.
THEOREM OwnResults == Spec => []ResultIsOwn
<1>1. IInv => ResultIsOwn
  BY DEF IInv
<1> QED
  BY Invariant, <1>1, PTL

-----------------------------------------------------------------------------
(* Where holds are *)

\* A call that was cut short is over, and no result has cost more than was reserved for it.
CutShort ==
  \A c \in Calls : /\ call[c].answer = "lost" => call[c].pc = "done"
                   /\ call[c].usage # "over"

\* The invariant as long as no result costs more than the plan its reservation is made for.
HoldInv == IInv /\ CutShort /\ HoldHasACall

\* One call goes on and keeps its reservation company: it still serves it, or was cut short,
\* or did not serve it, or the reservation has ended.
LEMMA HoldKept ==
  ASSUME HoldInv, NEW c \in Calls, call[c].pc # "done",
         \A d \in Calls : d # c => call'[d] = call[d],
         call'[c].answer = "lost" => call'[c].pc = "done",
         call'[c].usage # "over",
         \A k \in Keys : k # Key(c) => hold'[k] = hold[k],
         hold'[Key(c)] = "held" =>
           \/ call'[c].pc \in {"model", "store", "release"} \/ call'[c].answer = "lost"
           \/ hold[Key(c)] = "held" /\ ~Serving(c)
  PROVE  (CutShort /\ HoldHasACall)'
<1>1. CutShort'
  BY DEF HoldInv, CutShort
<1>2. HoldHasACall'
  <2> SUFFICES ASSUME NEW k \in Keys, hold'[k] = "held"
               PROVE  \E d \in Calls : Key(d) = k /\ (Serving(d)' \/ call'[d].answer = "lost")
    BY DEF HoldHasACall, Key
  <2>1. CASE call'[c].pc \in {"model", "store", "release"} \/ call'[c].answer = "lost"
    <3>1. CASE Key(c) = k
      BY <2>1, <3>1 DEF Serving
    <3>2. CASE Key(c) # k
      <4>1. PICK d \in Calls : Key(d) = k /\ (Serving(d) \/ call[d].answer = "lost")
        BY <3>2 DEF HoldInv, HoldHasACall
      <4> QED
        BY <3>2, <4>1 DEF Serving
    <3> QED
      BY <3>1, <3>2
  <2>2. CASE k # Key(c) \/ (hold[Key(c)] = "held" /\ ~Serving(c))
    <3>1. hold[k] = "held"
      BY <2>2
    <3>2. PICK d \in Calls : Key(d) = k /\ (Serving(d) \/ call[d].answer = "lost")
      BY <3>1 DEF HoldInv, HoldHasACall
    <3>3. d # c
      BY <2>2, <3>2 DEF HoldInv, CutShort
    <3> QED
      BY <3>2, <3>3 DEF Serving
  <2> QED
    BY <2>1, <2>2
<1> QED
  BY <1>1, <1>2

\* Every step keeps a call with every hold.
LEMMA HoldStep ==
  ASSUME "over" \notin Usages, HoldInv, [Next]_vars
  PROVE  HoldInv'
<1> SUFFICES (CutShort /\ HoldHasACall)'
  BY NextIInv DEF HoldInv
<1>1. CASE UNCHANGED vars
  BY <1>1 DEF vars, HoldInv, CutShort, HoldHasACall, Serving, Key
<1>2. ASSUME NEW c \in Calls, Step(c) \/ Crash(c) PROVE (CutShort /\ HoldHasACall)'
  <2>1. /\ call \in [Calls -> CallRow] /\ call[c] \in CallRow /\ Key(c) \in Keys
        /\ hold \in [Keys -> {"absent", "held", "settled", "released"}]
        /\ call[c].usage # "over"
    BY KeyType DEF HoldInv, IInv, TypeOK, CallRow, CutShort
  <2>2. \A row \in CallRow : \A pc, answer, usage :
          /\ [row EXCEPT !.pc = pc].pc = pc /\ [row EXCEPT !.pc = pc].usage = row.usage
          /\ [row EXCEPT !.pc = pc].answer = row.answer
          /\ [row EXCEPT !.pc = pc, !.answer = answer].pc = pc
          /\ [row EXCEPT !.pc = pc, !.answer = answer].answer = answer
          /\ [row EXCEPT !.pc = pc, !.answer = answer].usage = row.usage
          /\ [row EXCEPT !.pc = pc, !.usage = usage].pc = pc
          /\ [row EXCEPT !.pc = pc, !.usage = usage].answer = row.answer
          /\ [row EXCEPT !.pc = pc, !.usage = usage].usage = usage
    BY DEF CallRow
  <2>3. call[c].pc # "done" /\ call[c].answer # "lost"
    <3>1. call[c].pc # "done"
      BY <1>2 DEF Step, Crash, Lookup, Reserve, ReserveRefused, ReserveReplayed, ModelAnswers, ModelFails, Store,
         StoreFails, StoreUnconfirmed, Release, ReleaseFails, At, Serving
    <3> QED
      BY <3>1 DEF HoldInv, CutShort
  <2>4. \A pc : Goto(c, pc) => /\ \A d \in Calls : d # c => call'[d] = call[d]
                               /\ call'[c].pc = pc /\ call'[c].answer # "lost" /\ call'[c].usage # "over"
    BY <2>1, <2>2, <2>3 DEF Goto
  <2>5. \A answer : Answer(c, answer) => /\ \A d \in Calls : d # c => call'[d] = call[d]
                                         /\ call'[c].pc = "done" /\ call'[c].answer = answer
                                         /\ call'[c].usage # "over"
    BY <2>1, <2>2 DEF Answer
  <2>6. CASE Lookup(c)
    <3>1. hold' = hold /\ ~Serving(c)
      BY <2>6 DEF Lookup, At, Serving
    <3>2. Goto(c, "reserve") \/ Answer(c, "result") \/ Answer(c, "conflict")
      BY <2>6 DEF Lookup
    <3> QED
      BY <2>3, <2>4, <2>5, <3>1, <3>2, HoldKept
  <2>7. CASE ReserveRefused(c) \/ ReserveReplayed(c)
    <3>1. hold' = hold /\ ~Serving(c)
      BY <2>7 DEF ReserveRefused, ReserveReplayed, At, Serving
    <3>2. \E answer \in {"refused", "in_progress", "terminal", "conflict"} : Answer(c, answer)
      BY <2>7 DEF ReserveRefused, ReserveReplayed
    <3> QED
      BY <2>3, <2>5, <3>1, <3>2, HoldKept
  <2>8. CASE Reserve(c)
    <3>1. hold' = [hold EXCEPT ![Key(c)] = "held"] /\ Goto(c, "model")
      BY <2>8 DEF Reserve
    <3> QED
      BY <2>1, <2>3, <2>4, <3>1, HoldKept
  <2>9. ASSUME NEW usage \in Usages, ModelAnswers(c, usage) PROVE (CutShort /\ HoldHasACall)'
    <3>1. hold' = hold /\ call' = [call EXCEPT ![c].pc = "store", ![c].usage = usage]
      BY <2>9 DEF ModelAnswers
    <3>2. call'[c].pc = "store" /\ call'[c].usage = usage /\ call'[c].answer # "lost"
          /\ \A d \in Calls : d # c => call'[d] = call[d]
      BY <2>1, <2>2, <2>3, <3>1
    <3> QED
      BY <2>3, <3>1, <3>2, HoldKept
  <2>10. CASE ModelFails(c) \/ StoreFails(c)
    <3>1. hold' = hold /\ Goto(c, "release")
      BY <2>10 DEF ModelFails, StoreFails
    <3> QED
      BY <2>3, <2>4, <3>1, HoldKept
  <2>11. CASE Store(c)
    <3>1. hold' = [hold EXCEPT ![Key(c)] = "settled"] /\ Answer(c, "result")
      BY <2>11 DEF Store, Settled
    <3> QED
      BY <2>1, <2>3, <2>5, <3>1, HoldKept
  <2>12. CASE StoreUnconfirmed(c)
    <3>1. hold' = [hold EXCEPT ![Key(c)] = "settled"] /\ Goto(c, "release")
      BY <2>12 DEF StoreUnconfirmed, Settled
    <3> QED
      BY <2>1, <2>3, <2>4, <3>1, HoldKept
  <2>13. CASE Release(c)
    <3>1. hold' = [hold EXCEPT ![Key(c)] = "released"] /\ Answer(c, "failed")
      BY <2>13 DEF Release
    <3> QED
      BY <2>1, <2>3, <2>5, <3>1, HoldKept
  <2>14. CASE ReleaseFails(c)
    <3>1. hold' = hold /\ ((hold[Key(c)] # "held" /\ Answer(c, "failed")) \/ Answer(c, "lost"))
      BY <2>1, <2>14 DEF ReleaseFails, CanRelease
    <3> QED
      BY <2>3, <2>5, <3>1, HoldKept
  <2>15. CASE Crash(c)
    <3>1. hold' = hold /\ Answer(c, "lost")
      BY <2>15 DEF Crash
    <3> QED
      BY <2>3, <2>5, <3>1, HoldKept
  <2> QED
    BY <1>2, <2>6, <2>7, <2>8, <2>9, <2>10, <2>11, <2>12, <2>13, <2>14, <2>15 DEF Step
<1> QED
  BY <1>1, <1>2 DEF Next

\* As long as no result uses more than its reservation plans for, every hold belongs to a call
\* that still serves it or that was cut short: whatever path execute_prompt_enhancement takes to
\* its end, its last transaction settles the reservation or releases it.
THEOREM HoldsAreServed ==
  ASSUME "over" \notin Usages
  PROVE  Spec => []HoldHasACall
<1>1. Init => HoldInv
  BY InitIInv DEF Init, New, HoldInv, CutShort, HoldHasACall
<1>2. HoldInv /\ [Next]_vars => HoldInv'
  BY HoldStep
<1>3. HoldInv => HoldHasACall
  BY DEF HoldInv
<1> QED
  BY <1>1, <1>2, <1>3, PTL DEF Spec

=============================================================================
