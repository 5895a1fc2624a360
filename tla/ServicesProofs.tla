--------------------------- MODULE ServicesProofs ----------------------------
(***************************************************************************)
(* Proofs about the components MCServices puts together - the prompt       *)
(* enhancer, the limiter and the retries of a provider, the migrations of  *)
(* the schema and the paired evaluation - for prompts, windows, callers,   *)
(* operators, cases, costs and scores of any size and number.              *)
(***************************************************************************)
EXTENDS MCServices, SumTheorems, SequenceTheorems, FiniteSetTheorems, TLAPS

-----------------------------------------------------------------------------
(* The enhancer *)

EnhancerRun == [pc : {"detect", "ask", "read", "done", "failed"}, language : PromptLanguages, prompt : PromptKinds,
        groups : Nat, payload : Payloads \cup InvalidReasons \cup {NoText},
        input : Nat, output : Nat, reported : BOOLEAN]

BaseLength == Base
StrictLength == Base + StrictAdds
ContractLength == Base + StrictAdds + ContractAdds
LanguageLength == Base + LanguageAdds

\* What was used before the current prompt is asked.
Before(e) ==
  \/ e.prompt = "base" /\ e.groups = 0 /\ e.input = 0
  \/ e.prompt = "strict" /\ e.groups = 1 /\ e.input <= BaseLength
  \/ e.prompt = "contract" /\ e.groups = 2 /\ e.input <= BaseLength + StrictLength
  \/ e.prompt = "language" /\ e.groups = 1 /\ e.input <= BaseLength
  \/ e.prompt = "language" /\ e.groups = 2 /\ e.input <= BaseLength + StrictLength

\* What was used when its answer has come.
After(e) ==
  \/ e.prompt = "base" /\ e.groups = 1 /\ e.input <= BaseLength
  \/ e.prompt = "strict" /\ e.groups = 2 /\ e.input <= BaseLength + StrictLength
  \/ e.prompt = "contract" /\ e.groups = 3 /\ e.input <= BaseLength + StrictLength + ContractLength
  \/ e.prompt = "language" /\ e.groups = 2 /\ e.input <= BaseLength + LanguageLength
  \/ e.prompt = "language" /\ e.groups = 3 /\ e.input <= BaseLength + StrictLength + LanguageLength

\* At most MaxOutput tokens per answer, as far as the provider reported them.
OutputPerAnswer(e) == e.groups <= 3 /\ (e.reported => e.output <= e.groups * MaxOutput)

\* The inductive invariant.
EnhancerInv ==
  /\ enhancement \in EnhancerRun /\ UsageWithinPlan /\ OutputPerAnswer(enhancement)
  /\ enhancement.pc = "detect" =>
       enhancement.prompt = "base" /\ enhancement.groups = 0 /\ enhancement.input = 0
  /\ enhancement.pc = "ask" => Before(enhancement)
  /\ enhancement.pc = "read" => After(enhancement)

\* The lengths of the prompts, and of the longest sequence of them: the three that
\* repair an invalid answer, which no sequence with the retry for the language exceeds.
LEMMA Lengths ==
  /\ PromptLength["base"] = BaseLength /\ PromptLength["strict"] = StrictLength
  /\ PromptLength["contract"] = ContractLength /\ PromptLength["language"] = LanguageLength
  /\ PlannedInput \in Nat
  /\ BaseLength + StrictLength + ContractLength <= PlannedInput
  /\ BaseLength + StrictLength + LanguageLength <= PlannedInput
  /\ BaseLength + LanguageLength <= PlannedInput
  /\ PlannedOutput = 3 * MaxOutput
<1>1. /\ PromptLength["base"] = BaseLength /\ PromptLength["strict"] = StrictLength
      /\ PromptLength["contract"] = ContractLength /\ PromptLength["language"] = LanguageLength
  BY DEF PromptLength, PromptKinds, BaseLength, StrictLength, ContractLength, LanguageLength
<1> QED
  BY <1>1, EnhancerAssumption DEF PlannedInput, PlannedOutput, BaseLength, StrictLength, ContractLength, LanguageLength

\* Output stays within the plan when every answer does.
LEMMA OutputPlanned ==
  ASSUME NEW e \in EnhancerRun, OutputPerAnswer(e)
  PROVE  e.reported => e.output <= PlannedOutput
<1>1. e.groups \in {0, 1, 2, 3} /\ e.output \in Nat /\ MaxOutput \in Nat
  BY EnhancerAssumption DEF EnhancerRun, OutputPerAnswer
<1> QED
  BY <1>1, Lengths DEF OutputPerAnswer

\* An answer adds its prompt at most, and its tokens.
LEMMA AskStep ==
  ASSUME EnhancerInv, NEW payload \in Readings, NEW usage \in Usages(enhancement.prompt), Ask(payload, usage)
  PROVE  EnhancerInv'
<1> USE EnhancerAssumption
<1>1. payload \in Payloads \cup InvalidReasons
  <2>1. \A text \in [Strategies -> Contents] : PayloadFromText(text) \in Payloads \cup InvalidReasons
    <3> SUFFICES ASSUME NEW text \in [Strategies -> Contents],
                        \E s \in Strategies : text[s] \in Payloads
                 PROVE  PayloadFromText(text) \in Payloads
      BY DEF PayloadFromText, InvalidReasons
    <3>1. \E s \in Strategies : text[s] \in Payloads /\ \A t \in 1 .. s - 1 : text[t] \notin Payloads
      BY DEF Strategies
    <3> QED
      BY <3>1 DEF PayloadFromText
  <2> QED
    BY <2>1 DEF Readings, ParsedPayload, Answers, InvalidReasons
<1>2. /\ enhancement' = [enhancement EXCEPT
           !.pc = "read", !.groups = @ + 1, !.payload = payload,
           !.input = @ + usage.input, !.output = @ + usage.output,
           !.reported = @ /\ usage.reported]
      /\ enhancement \in EnhancerRun /\ Before(enhancement)
  BY DEF Ask, EnhancerInv
<1>3. /\ usage.input \in Nat /\ usage.output \in Nat /\ usage.reported \in BOOLEAN
      /\ usage.input <= PromptLength[enhancement.prompt]
      /\ usage.reported => usage.output <= MaxOutput
  <2>1. PromptLength[enhancement.prompt] \in Nat
    BY <1>2, Lengths DEF Before, BaseLength, StrictLength, ContractLength, LanguageLength
  <2>2. CASE usage \in [input : 0 .. PromptLength[enhancement.prompt], output : 0 .. MaxOutput, reported : {TRUE}]
    <3>1. usage.input \in 0 .. PromptLength[enhancement.prompt] /\ usage.output \in 0 .. MaxOutput
      BY <2>2
    <3>2. usage.reported = TRUE
      BY <2>2
    <3>3. /\ usage.input \in Nat /\ usage.output \in Nat /\ usage.output <= MaxOutput
          /\ usage.input <= PromptLength[enhancement.prompt]
      BY <2>1, <3>1
    <3> QED
      BY <3>2, <3>3, Zenon
  <2>3. CASE usage \in [input : 0 .. PromptLength[enhancement.prompt], output : 0 .. MaxBytes, reported : {FALSE}]
    <3>1. usage.input \in 0 .. PromptLength[enhancement.prompt] /\ usage.output \in 0 .. MaxBytes
      BY <2>3
    <3>2. usage.reported = FALSE
      BY <2>3
    <3>3. /\ usage.input \in Nat /\ usage.output \in Nat
          /\ usage.input <= PromptLength[enhancement.prompt]
      BY <2>1, <3>1
    <3> QED
      BY <3>2, <3>3, Zenon
  <2> QED
    BY <2>2, <2>3 DEF Usages
<1>4. enhancement' \in EnhancerRun
  <2>1. enhancement.groups + 1 \in Nat /\ enhancement.input + usage.input \in Nat
        /\ enhancement.output + usage.output \in Nat
    BY <1>2, <1>3 DEF EnhancerRun
  <2>2. (enhancement.reported /\ usage.reported) \in BOOLEAN
    OBVIOUS
  <2> QED
    BY <1>1, <1>2, <2>1, <2>2, Zenon DEF EnhancerRun
<1>5. After(enhancement')
  <2>1. /\ enhancement'.prompt = enhancement.prompt /\ enhancement'.groups = enhancement.groups + 1
        /\ enhancement'.input = enhancement.input + usage.input /\ enhancement.input \in Nat
    BY <1>2 DEF EnhancerRun
  <2> QED
    BY <1>2, <1>3, <2>1, Lengths DEF Before, After, BaseLength, StrictLength, ContractLength, LanguageLength
<1>6. OutputPerAnswer(enhancement')
  <2>1. /\ enhancement'.groups = enhancement.groups + 1 /\ enhancement.groups \in {0, 1, 2}
        /\ enhancement'.output = enhancement.output + usage.output /\ enhancement.output \in Nat
        /\ enhancement'.reported => enhancement.reported /\ usage.reported
    BY <1>2 DEF EnhancerRun, Before
  <2> QED
    BY <1>3, <2>1 DEF EnhancerInv, OutputPerAnswer
<1>7. enhancement'.input <= PlannedInput
  BY <1>4, <1>5, Lengths DEF After, EnhancerRun, BaseLength, StrictLength, ContractLength, LanguageLength
<1>8. enhancement'.pc = "read"
  BY <1>2 DEF EnhancerRun
<1> QED
  BY <1>4, <1>5, <1>6, <1>7, <1>8, OutputPlanned DEF EnhancerInv, UsageWithinPlan

\* Every step preserves the invariant.
LEMMA EnhancerKeeps == EnhancerInv /\ [EnhancerNext]_enhancerVars => EnhancerInv'
<1> SUFFICES ASSUME EnhancerInv, [EnhancerNext]_enhancerVars PROVE EnhancerInv'
  OBVIOUS
<1> USE EnhancerAssumption DEF EnhancerInv
<1>1. ASSUME NEW language \in PromptLanguages, DetectLanguage(language) PROVE EnhancerInv'
  BY <1>1 DEF DetectLanguage, EnhancerRun, UsageWithinPlan, OutputPerAnswer, Before
<1>2. ASSUME NEW input \in 1 .. Base, NEW output \in 1 .. MaxBytes, MockResult(input, output) PROVE EnhancerInv'
  <2>1. input <= PlannedInput
    BY Lengths DEF BaseLength, StrictLength, ContractLength
  <2>2. enhancement' = [enhancement EXCEPT
          !.pc = "done", !.input = input, !.output = output, !.reported = FALSE]
    BY <1>2 DEF MockResult
  <2>3. input \in Nat /\ output \in Nat
    OBVIOUS
  <2>4. enhancement' \in EnhancerRun
    BY <2>2, <2>3 DEF EnhancerRun
  <2>5. /\ enhancement'.pc = "done" /\ enhancement'.input = input /\ ~enhancement'.reported
        /\ enhancement'.groups = enhancement.groups
    BY <2>2 DEF EnhancerRun
  <2> QED
    BY <2>1, <2>4, <2>5 DEF UsageWithinPlan, OutputPerAnswer
<1>3. ASSUME NEW payload \in Readings, NEW usage \in Usages(enhancement.prompt), Ask(payload, usage)
      PROVE  EnhancerInv'
  BY <1>3, AskStep
<1>4. CASE AskFails
  BY <1>4 DEF AskFails, EnhancerRun, UsageWithinPlan, OutputPerAnswer
<1>5. CASE ReadInvalid
  <2>1. \/ Refuse
        \/ enhancement.prompt = "base" /\ AskAgain("strict")
        \/ enhancement.prompt = "strict" /\ AskAgain("contract")
    BY <1>5 DEF ReadInvalid
  <2>2. After(enhancement)
    BY <1>5 DEF ReadInvalid
  <2>3. CASE Refuse
    BY <2>3 DEF Refuse, EnhancerRun, UsageWithinPlan, OutputPerAnswer
  <2>4. CASE enhancement.prompt = "base" /\ AskAgain("strict")
    <3>1. enhancement' = [enhancement EXCEPT !.pc = "ask", !.prompt = "strict"]
      BY <2>4 DEF AskAgain
    <3>2. enhancement.groups = 1 /\ enhancement.input <= BaseLength
      BY <2>2, <2>4 DEF After
    <3>3. enhancement' \in EnhancerRun /\ Before(enhancement')
      BY <3>1, <3>2 DEF EnhancerRun, PromptKinds, Before
    <3> QED
      BY <3>1, <3>3 DEF EnhancerRun, UsageWithinPlan, OutputPerAnswer
  <2>5. CASE enhancement.prompt = "strict" /\ AskAgain("contract")
    <3>1. enhancement' = [enhancement EXCEPT !.pc = "ask", !.prompt = "contract"]
      BY <2>5 DEF AskAgain
    <3>2. enhancement.groups = 2 /\ enhancement.input <= BaseLength + StrictLength
      BY <2>2, <2>5 DEF After
    <3>3. enhancement' \in EnhancerRun /\ Before(enhancement')
      BY <3>1, <3>2 DEF EnhancerRun, PromptKinds, Before
    <3> QED
      BY <3>1, <3>3 DEF EnhancerRun, UsageWithinPlan, OutputPerAnswer
  <2> QED
    BY <2>1, <2>3, <2>4, <2>5
<1>6. CASE ReadMismatch
  <2>1. \/ Refuse
        \/ enhancement.prompt # "language" /\ enhancement.groups < 3 /\ AskAgain("language")
    BY <1>6 DEF ReadMismatch, LanguageRetryAllowed
  <2>2. After(enhancement)
    BY <1>6 DEF ReadMismatch
  <2>3. CASE Refuse
    BY <2>3 DEF Refuse, EnhancerRun, UsageWithinPlan, OutputPerAnswer
  <2>4. CASE enhancement.prompt # "language" /\ enhancement.groups < 3 /\ AskAgain("language")
    <3>1. enhancement' = [enhancement EXCEPT !.pc = "ask", !.prompt = "language"]
      BY <2>4 DEF AskAgain
    <3>2. \/ enhancement.groups = 1 /\ enhancement.input <= BaseLength
          \/ enhancement.groups = 2 /\ enhancement.input <= BaseLength + StrictLength
      BY <2>2, <2>4 DEF After
    <3>3. enhancement' \in EnhancerRun /\ Before(enhancement')
      BY <3>1, <3>2 DEF EnhancerRun, PromptKinds, Before
    <3> QED
      BY <3>1, <3>3 DEF EnhancerRun, UsageWithinPlan, OutputPerAnswer
  <2> QED
    BY <2>1, <2>3, <2>4
<1>7. CASE ReadResult
  BY <1>7 DEF ReadResult, EnhancerRun, UsageWithinPlan, OutputPerAnswer
<1>8. CASE UNCHANGED enhancerVars
  BY <1>8 DEF enhancerVars, UsageWithinPlan
<1> QED
  BY <1>1, <1>2, <1>3, <1>4, <1>5, <1>6, <1>7, <1>8 DEF EnhancerNext

\* No prompt is asked for at the start.
LEMMA EnhancerBegins == EnhancerInit => EnhancerInv
  BY Lengths, EnhancerAssumption DEF EnhancerInit, EnhancerInv, EnhancerRun, PromptLanguages, PromptKinds, UsageWithinPlan,
     OutputPerAnswer, PlannedOutput

\* The invariant holds throughout a run.
LEMMA EnhancerInvariant == EnhancerSpec => []EnhancerInv
<1> QED
  BY EnhancerBegins, EnhancerKeeps, PTL DEF EnhancerSpec

\* Whatever the model answers, in whatever language, and whichever repairs it takes: an
\* enhancement uses no more tokens than were reserved for it, as far as they were reported.
THEOREM PlanSuffices == EnhancerSpec => []UsageWithinPlan
<1> QED
  BY EnhancerInvariant, PTL DEF EnhancerInv

-----------------------------------------------------------------------------
(* The rate limiter and its callers *)

\* A set of numbers that has an element has a least one.
LEMMA LeastNumber ==
  ASSUME NEW T \in SUBSET Nat, T # {}
  PROVE  \E n \in T : \A m \in T : n <= m
<1>1. IsWellFoundedOn(OpToRel(<, Nat), Nat)
  BY NatLessThanWellFounded
<1>2. \E n \in T : \A m \in T : ~(<<m, n>> \in OpToRel(<, Nat))
  <2> DEFINE rel == OpToRel(<, Nat)
  <2>1. IsWellFoundedOn(rel, Nat)
    BY <1>1
  <2> HIDE DEF rel
  <2>2. \E n \in T : \A m \in T : ~(<<m, n>> \in rel)
    BY <2>1, WFMin
  <2> QED
    BY <2>2 DEF rel
<1>3. PICK n \in T : \A m \in T : ~(<<m, n>> \in OpToRel(<, Nat))
  BY <1>2
<1>4. ASSUME NEW m \in T PROVE n <= m
  <2>1. m \in Nat /\ n \in Nat
    OBVIOUS
  <2>2. ~(m < n)
    BY <1>3, <2>1 DEF OpToRel
  <2> QED
    BY <2>1, <2>2
<1> QED
  BY <1>4

\* The smaller of two numbers.
LEMMA SmallerOf ==
  ASSUME NEW a \in Int, NEW b \in Int
  PROVE  Min({a, b}) = IF a <= b THEN a ELSE b
<1>1. ASSUME a <= b PROVE Min({a, b}) = a
  BY <1>1 DEF Min
<1>2. ASSUME b < a PROVE Min({a, b}) = b
  BY <1>2 DEF Min
<1> QED
  BY <1>1, <1>2

\* A power of two is a number of subsets.
LEMMA PowersOfTwo == \A n \in Nat : 2 ^ n \in Nat
<1> TAKE n \in Nat
<1>1. IsFiniteSet(1 .. n) /\ Cardinality(1 .. n) = n
  BY FS_Interval
<1>2. IsFiniteSet(SUBSET (1 .. n)) /\ Cardinality(SUBSET (1 .. n)) = 2 ^ n
  BY <1>1, FS_SUBSET
<1> QED
  BY <1>2, FS_CardinalityType

\* The admissions the limiter remembers, oldest first.
OldestFirst(ages) == \A i, k \in DOMAIN ages : i < k => ages[i] >= ages[k]

\* _prune forgets the admissions that are as old as the window, and no other.
LEMMA PruneForgets ==
  ASSUME NEW ages \in Seq(0 .. Window), OldestFirst(ages)
  PROVE  \E n \in 0 .. Len(ages) :
           /\ Pruned(ages) \in Seq(0 .. Window) /\ Len(Pruned(ages)) = Len(ages) - n
           /\ \A i \in 1 .. Len(ages) - n : Pruned(ages)[i] = ages[n + i] /\ ages[n + i] < Window
           /\ \A i \in 1 .. n : ages[i] = Window
<1> USE ProviderAssumption
<1> DEFINE stops == {k \in 0 .. Len(ages) : k < Len(ages) => ages[k + 1] < Window}
           n == CHOOSE k \in 0 .. Len(ages) :
                  (\A i \in 1 .. k : ages[i] >= Window) /\ (k < Len(ages) => ages[k + 1] < Window)
<1>0. Len(ages) \in Nat /\ DOMAIN ages = 1 .. Len(ages) /\ \A i \in 1 .. Len(ages) : ages[i] \in 0 .. Window
  OBVIOUS
<1>1. \E k \in 0 .. Len(ages) :
        (\A i \in 1 .. k : ages[i] >= Window) /\ (k < Len(ages) => ages[k + 1] < Window)
  <2>1. stops \in SUBSET Nat /\ Len(ages) \in stops
    BY <1>0
  <2>2. PICK k \in stops : \A m \in stops : k <= m
    BY <2>1, LeastNumber
  <2>3. ASSUME NEW i \in 1 .. k PROVE ages[i] >= Window
    <3>0. k \in 0 .. Len(ages) /\ i \in Nat /\ i > 0 /\ i <= k
      BY <1>0
    <3>1. i - 1 \in 0 .. Len(ages) /\ i - 1 \notin stops
      <4>1. i - 1 \in 0 .. Len(ages) /\ ~(k <= i - 1)
        BY <1>0, <3>0
      <4> QED
        BY <2>2, <4>1
    <3>2. i \in 1 .. Len(ages) /\ ages[i] \in 0 .. Window /\ (i - 1) + 1 = i
      BY <1>0, <2>2
    <3> QED
      BY <3>1, <3>2
  <2> QED
    BY <2>2, <2>3
<1>2. /\ n \in 0 .. Len(ages) /\ \A i \in 1 .. n : ages[i] >= Window
      /\ n < Len(ages) => ages[n + 1] < Window
  BY <1>1
<1>3. Pruned(ages) = SubSeq(ages, n + 1, Len(ages))
  BY DEF Pruned, ForgetFrom
<1> HIDE DEF n, stops
<1>4. ASSUME NEW i \in 1 .. Len(ages) - n PROVE n + i \in 1 .. Len(ages) /\ ages[n + i] < Window
  <2>1. n + 1 \in 1 .. Len(ages) /\ n + i \in 1 .. Len(ages) /\ ages[n + 1] < Window
    BY <1>0, <1>2
  <2>2. ages[n + 1] >= ages[n + i] \/ i = 1
    BY <1>0, <1>2, <2>1, SMTT(30) DEF OldestFirst
  <2>3. ages[n + i] \in Nat /\ ages[n + 1] \in Nat
    BY <1>0, <2>1
  <2> QED
    BY <2>1, <2>2, <2>3, SMTT(30)
<1>5. \A i \in (n + 1) .. Len(ages) : ages[i] \in 0 .. Window
  BY <1>0, <1>2
<1>6. /\ SubSeq(ages, n + 1, Len(ages)) \in Seq(0 .. Window)
      /\ Len(SubSeq(ages, n + 1, Len(ages))) = IF n + 1 <= Len(ages) THEN Len(ages) - (n + 1) + 1 ELSE 0
      /\ \A i \in 1 .. Len(ages) - (n + 1) + 1 : SubSeq(ages, n + 1, Len(ages))[i] = ages[n + 1 + i - 1]
  <2>1. n + 1 \in Int /\ Len(ages) \in Int
    BY <1>0, <1>2
  <2> QED
    BY <1>5, <2>1, SubSeqProperties
<1>7. \A i \in 1 .. Len(ages) - n : Pruned(ages)[i] = ages[n + i]
  <2> TAKE i \in 1 .. Len(ages) - n
  <2>1. i \in 1 .. Len(ages) - (n + 1) + 1 /\ n + 1 + i - 1 = n + i
    BY <1>0, <1>2
  <2> QED
    BY <1>3, <1>6, <2>1
<1>8. \A i \in 1 .. n : ages[i] = Window
  BY <1>0, <1>2
<1>9. Len(Pruned(ages)) = Len(ages) - n
  <2>1. Len(SubSeq(ages, n + 1, Len(ages))) = Len(ages) - n
    <3> DEFINE cut == Len(SubSeq(ages, n + 1, Len(ages)))
               long == Len(ages)
    <3>1. cut = IF n + 1 <= long THEN long - (n + 1) + 1 ELSE 0
      BY <1>6
    <3>2. n \in Nat /\ n <= long /\ long \in Nat
      BY <1>0, <1>2
    <3> HIDE DEF cut, long
    <3>3. cut = long - n
      <4>1. CASE n + 1 <= long
        BY <3>1, <3>2, <4>1
      <4>2. CASE ~(n + 1 <= long)
        <5>1. n = long
          BY <3>2, <4>2
        <5>2. cut = 0
          BY <3>1, <4>2
        <5> QED
          BY <3>2, <5>1, <5>2
      <4> QED
        BY <4>1, <4>2
    <3> QED
      BY <3>3 DEF cut, long
  <2> QED
    BY <1>3, <2>1
<1> QED
  BY <1>2, <1>3, <1>4, <1>6, <1>7, <1>8, <1>9

-----------------------------------------------------------------------------
\* Positions of the admissions of one age, and of several.
Positions(ages, old) == {i \in DOMAIN ages : ages[i] \in old}

\* Positions that correspond to each other one by one are as many.
LEMMA ShiftedPositions ==
  ASSUME NEW S \in SUBSET Nat, NEW T \in SUBSET Nat, IsFiniteSet(S), NEW n \in Nat,
         \A i \in S : i + n \in T, \A k \in T : k >= n /\ k - n \in S
  PROVE  IsFiniteSet(T) /\ Cardinality(T) = Cardinality(S)
<1> DEFINE f == [i \in S |-> i + n]
<1>1. f \in [S -> T] /\ (\A a, b \in S : f[a] = f[b] => a = b) /\ (\A t \in T : \E s \in S : f[s] = t)
  <2>1. \A a, b \in S : f[a] = f[b] => a = b
    OBVIOUS
  <2>2. ASSUME NEW t \in T PROVE \E s \in S : f[s] = t
    <3>1. t - n \in S /\ (t - n) + n = t
      OBVIOUS
    <3> QED
      BY <3>1
  <2> QED
    BY <2>1, <2>2
<1>2. f \in Bijection(S, T)
  BY <1>1 DEF Bijection, Injection, Surjection, IsInjective
<1>3. ExistsBijection(S, T)
  BY <1>2 DEF ExistsBijection
<1> QED
  BY <1>3, FS_Bijection

\* They are finitely many, no more than there are admissions.
LEMMA PositionsFinite ==
  ASSUME NEW ages \in Seq(0 .. Window), NEW old
  PROVE  /\ IsFiniteSet(Positions(ages, old)) /\ Cardinality(Positions(ages, old)) \in Nat
         /\ Cardinality(Positions(ages, old)) <= Len(ages)
<1>0. Len(ages) \in Nat /\ DOMAIN ages = 1 .. Len(ages)
  OBVIOUS
<1>1. IsFiniteSet(1 .. Len(ages)) /\ Cardinality(1 .. Len(ages)) = Len(ages)
  <2> DEFINE n == Len(ages)
  <2>1. 1 \in Int /\ n \in Nat
    BY <1>0
  <2> HIDE DEF n
  <2>2. IsFiniteSet(1 .. n) /\ Cardinality(1 .. n) = IF 1 > n THEN 0 ELSE n - 1 + 1
    BY <2>1, FS_Interval
  <2>3. IsFiniteSet(1 .. n) /\ Cardinality(1 .. n) = n
    BY <2>1, <2>2
  <2> QED
    BY <2>3 DEF n
<1>2. Positions(ages, old) \in SUBSET (1 .. Len(ages))
  BY <1>0 DEF Positions
<1> QED
  BY <1>1, <1>2, FS_Subset, FS_CardinalityType

\* The admissions of all ages together are those whose age is one of them.
LEMMA CountedByAge ==
  ASSUME NEW ages \in Seq(0 .. Window), NEW count \in [Ages -> Nat],
         \A a \in Ages : count[a] = Cardinality(Positions(ages, {a}))
  PROVE  SumFunction(count) = Cardinality(Positions(ages, Ages))
<1> USE ProviderAssumption
<1> DEFINE good == {A \in SUBSET Ages : SumFunctionOnSet(count, A) = Cardinality(Positions(ages, A))}
<1>0. IsFiniteSet(Ages)
  BY FS_Interval DEF Ages
<1>1. ASSUME NEW A \in SUBSET Ages, \A U \in SUBSET A : U # A => U \in good PROVE A \in good
  <2>1. CASE A = {}
    <3>1. Positions(ages, A) = {}
      BY <2>1 DEF Positions
    <3> QED
      BY <2>1, <3>1, SumEmpty, FS_EmptySet
  <2>2. ASSUME NEW a \in A PROVE A \in good
    <3> DEFINE rest == A \ {a}
    <3>1. SumFunctionOnSet(count, rest) = Cardinality(Positions(ages, rest))
      BY <1>1
    <3>2. IsFiniteSet(A) /\ \A x \in A : count[x] \in Int
      BY <1>0, FS_Subset
    <3>3. SumFunctionOnSet(count, A) = count[a] + SumFunctionOnSet(count, rest)
      BY <3>2, SumRemove
    <3>4. /\ IsFiniteSet(Positions(ages, {a})) /\ Cardinality(Positions(ages, {a})) \in Nat
          /\ IsFiniteSet(Positions(ages, rest)) /\ Cardinality(Positions(ages, rest)) \in Nat
      BY PositionsFinite
    <3>5. Positions(ages, A) = Positions(ages, {a}) \cup Positions(ages, rest)
          /\ Positions(ages, {a}) \cap Positions(ages, rest) = {}
      BY DEF Positions
    <3>6. Cardinality(Positions(ages, A)) = Cardinality(Positions(ages, {a})) + Cardinality(Positions(ages, rest))
      <4> DEFINE P == Positions(ages, {a})
                 Q == Positions(ages, rest)
      <4> HIDE DEF P, Q
      <4>1. IsFiniteSet(P) /\ IsFiniteSet(Q) /\ Cardinality(P) \in Nat /\ Cardinality(Q) \in Nat
        BY <3>4 DEF P, Q
      <4>2. Cardinality(P \cup Q) = Cardinality(P) + Cardinality(Q) - Cardinality(P \cap Q)
        BY <4>1, FS_Union
      <4>3. Cardinality(P \cap Q) = 0
        BY <3>5, FS_EmptySet DEF P, Q
      <4>4. Cardinality(P \cup Q) = Cardinality(P) + Cardinality(Q)
        BY <4>1, <4>2, <4>3
      <4> QED
        BY <3>5, <4>4 DEF P, Q
    <3>7. count[a] = Cardinality(Positions(ages, {a}))
      OBVIOUS
    <3> QED
      BY <3>1, <3>3, <3>6, <3>7
  <2> QED
    BY <2>1, <2>2
<1> HIDE DEF good
<1>2. Ages \in good
  BY <1>0, <1>1, SubsetInduction
<1> QED
  BY <1>2 DEF good, SumFunction

\* What the limiter remembers: the admissions of the last Window, in their order and no
\* more than Capacity; it has forgotten none of those that still count.
LimiterInv ==
  /\ window \in Seq(0 .. Window) /\ admitted \in [Ages -> Nat]
  /\ OldestFirst(window) /\ Len(window) <= Capacity
  /\ \A a \in Ages : admitted[a] = Cardinality(Positions(window, {a}))

\* A caller asleep before the limiter sleeps until the oldest admission leaves the
\* window, which is full until then.
SleepsForSlot(c) ==
  Waits(c) /\ Asleep(c) => Len(window) = Capacity /\ window[1] + caller[c].sleep = Window

\* The inductive invariant of the limiter and its callers.
ProviderInv ==
  /\ ProviderTypeOK /\ LimiterInv
  /\ \A c \in Callers : SleepsForSlot(c)
  /\ \A c \in Callers : caller[c].pc = "call" => caller[c].attempt >= 1

\* Pruning keeps what still counts.
LEMMA PrunedStillCounts ==
  ASSUME LimiterInv
  PROVE  LET ages == Pruned(window)
         IN /\ ages \in Seq(0 .. Window) /\ OldestFirst(ages) /\ Len(ages) <= Capacity
            /\ \A i \in DOMAIN ages : ages[i] < Window
            /\ \A a \in Ages : admitted[a] = Cardinality(Positions(ages, {a}))
<1> USE ProviderAssumption
<1> DEFINE ages == Pruned(window)
<1>1. window \in Seq(0 .. Window) /\ OldestFirst(window) /\ Len(window) <= Capacity
  BY DEF LimiterInv
<1>2. PICK n \in 0 .. Len(window) :
        /\ ages \in Seq(0 .. Window) /\ Len(ages) = Len(window) - n
        /\ \A i \in 1 .. Len(window) - n : ages[i] = window[n + i] /\ window[n + i] < Window
        /\ \A i \in 1 .. n : window[i] = Window
  BY <1>1, PruneForgets
<1> HIDE DEF ages
<1>3. /\ Len(window) \in Nat /\ DOMAIN window = 1 .. Len(window) /\ n \in Nat
      /\ DOMAIN ages = 1 .. Len(window) - n
  BY <1>1, <1>2
<1>4. OldestFirst(ages)
  <2> SUFFICES ASSUME NEW i \in DOMAIN ages, NEW k \in DOMAIN ages, i < k PROVE ages[i] >= ages[k]
    BY DEF OldestFirst
  <2>1. n + i \in DOMAIN window /\ n + k \in DOMAIN window /\ n + i < n + k
    BY <1>3
  <2>2. window[n + i] >= window[n + k]
    BY <1>1, <2>1 DEF OldestFirst
  <2> QED
    BY <1>2, <1>3, <2>2
<1>5. ASSUME NEW a \in Ages PROVE admitted[a] = Cardinality(Positions(ages, {a}))
  <2>1. admitted[a] = Cardinality(Positions(window, {a}))
    BY DEF LimiterInv
  <2>2. Positions(ages, {a}) \in SUBSET Nat /\ Positions(window, {a}) \in SUBSET Nat
    BY <1>3 DEF Positions
  <2>3. IsFiniteSet(Positions(ages, {a}))
    BY <1>2, PositionsFinite
  <2>4. ASSUME NEW i \in Positions(ages, {a}) PROVE i + n \in Positions(window, {a})
    BY <1>2, <1>3 DEF Positions
  <2>5. ASSUME NEW k \in Positions(window, {a}) PROVE k >= n /\ k - n \in Positions(ages, {a})
    <3>1. k \in 1 .. Len(window) /\ window[k] = a /\ a < Window
      BY <1>3 DEF Positions, Ages
    <3>2. k \notin 1 .. n
      BY <1>2, <3>1
    <3>3. k - n \in 1 .. Len(window) - n /\ n + (k - n) = k /\ k >= n
      BY <1>3, <3>1, <3>2
    <3> QED
      BY <1>2, <1>3, <3>1, <3>3 DEF Positions
  <2> QED
    BY <1>3, <2>1, <2>2, <2>3, <2>4, <2>5, ShiftedPositions
<1>6. \A i \in DOMAIN ages : ages[i] < Window
  BY <1>2, <1>3
<1>7. Len(ages) <= Capacity
  BY <1>1, <1>2, <1>3
<1> QED
  BY <1>2, <1>4, <1>5, <1>6, <1>7 DEF ages

\* One more admission, now, is one more of age 0.
LEMMA AdmittedNow ==
  ASSUME NEW ages \in Seq(0 .. Window), OldestFirst(ages)
  PROVE  LET more == Append(ages, 0)
         IN /\ more \in Seq(0 .. Window) /\ OldestFirst(more) /\ Len(more) = Len(ages) + 1
            /\ Cardinality(Positions(more, {0})) = Cardinality(Positions(ages, {0})) + 1
            /\ \A a \in Ages \ {0} : Positions(more, {a}) = Positions(ages, {a})
<1> USE ProviderAssumption
<1> DEFINE more == Append(ages, 0)
           n == Len(ages)
<1>1. /\ more \in Seq(0 .. Window) /\ Len(more) = n + 1 /\ DOMAIN more = 1 .. n + 1
      /\ \A i \in 1 .. n : more[i] = ages[i]
      /\ more[n + 1] = 0 /\ n \in Nat /\ DOMAIN ages = 1 .. n
  OBVIOUS
<1>2. \A i \in 1 .. n : ages[i] \in 0 .. Window
  OBVIOUS
<1>3. OldestFirst(ages)
  OBVIOUS
<1> HIDE DEF more, n
<1>4. \A i \in 1 .. n + 1 : i \in 1 .. n \/ i = n + 1
  BY <1>1
<1>5. OldestFirst(more)
  <2> SUFFICES ASSUME NEW i \in 1 .. n + 1, NEW k \in 1 .. n + 1, i < k PROVE more[i] >= more[k]
    BY <1>1 DEF OldestFirst
  <2>1. i \in 1 .. n
    BY <1>1
  <2>2. CASE k \in 1 .. n
    BY <1>1, <1>3, <2>1, <2>2 DEF OldestFirst
  <2>3. CASE k = n + 1
    BY <1>1, <1>2, <2>1, <2>3
  <2> QED
    BY <1>4, <2>2, <2>3
<1>6. Positions(more, {0}) = Positions(ages, {0}) \cup {n + 1} /\ n + 1 \notin Positions(ages, {0})
  <2>1. \A i : i \in Positions(more, {0}) <=> (i \in Positions(ages, {0}) \/ i = n + 1)
    BY <1>1, <1>4 DEF Positions
  <2> QED
    BY <1>1, <2>1 DEF Positions
<1>7. IsFiniteSet(Positions(ages, {0}))
  BY PositionsFinite
<1>8. Cardinality(Positions(more, {0})) = Cardinality(Positions(ages, {0})) + 1
  BY <1>6, <1>7, FS_AddElement
<1>9. \A a \in Ages \ {0} : Positions(more, {a}) = Positions(ages, {a})
  BY <1>1, <1>4 DEF Positions, Ages
<1> QED
  BY <1>1, <1>5, <1>8, <1>9 DEF more, n

\* A round of the limiter preserves what it remembers.
LEMMA AcquireKeeps ==
  ASSUME LimiterInv, NEW c \in Callers, Acquire(c)
  PROVE  LimiterInv'
<1> USE ProviderAssumption
<1> DEFINE ages == Pruned(window)
<1>1. /\ ages \in Seq(0 .. Window) /\ OldestFirst(ages) /\ Len(ages) <= Capacity
      /\ \A i \in DOMAIN ages : ages[i] < Window
      /\ \A a \in Ages : admitted[a] = Cardinality(Positions(ages, {a}))
  BY PrunedStillCounts
<1>0. admitted \in [Ages -> Nat]
  BY DEF LimiterInv
<1> HIDE DEF ages
<1>2. ASSUME EstimatedWait(ages) = 0, window' = Append(ages, 0), admitted' = [admitted EXCEPT ![0] = @ + 1]
      PROVE  LimiterInv'
  <2>1. Len(ages) < Capacity
    <3>1. SUFFICES ASSUME ~(Len(ages) < Capacity) PROVE FALSE
      OBVIOUS
    <3>2. Window - ages[1] = 0
      BY <1>2, <3>1 DEF EstimatedWait
    <3>3. Len(ages) \in Nat /\ Len(ages) >= 1 /\ DOMAIN ages = 1 .. Len(ages)
      BY <1>1, <3>1
    <3>4. ages[1] < Window /\ ages[1] \in 0 .. Window
      BY <1>1, <3>3
    <3> QED
      BY <3>2, <3>4
  <2>2. /\ window' \in Seq(0 .. Window) /\ OldestFirst(window') /\ Len(window') = Len(ages) + 1
        /\ Cardinality(Positions(window', {0})) = Cardinality(Positions(ages, {0})) + 1
        /\ \A a \in Ages \ {0} : Positions(window', {a}) = Positions(ages, {a})
    BY <1>1, <1>2, AdmittedNow
  <2>3. 0 \in Ages /\ \A a \in Ages : admitted'[a] = IF a = 0 THEN admitted[0] + 1 ELSE admitted[a]
    BY <1>0, <1>2 DEF Ages
  <2>4. admitted' \in [Ages -> Nat]
    BY <1>0, <1>2, <2>3
  <2>5. \A a \in Ages : admitted'[a] = Cardinality(Positions(window', {a}))
    BY <1>1, <2>2, <2>3
  <2>6. Len(window') <= Capacity
    BY <1>1, <2>1, <2>2
  <2> QED
    BY <2>2, <2>4, <2>5, <2>6 DEF LimiterInv
<1>3. ASSUME window' = ages, admitted' = admitted PROVE LimiterInv'
  BY <1>0, <1>1, <1>3 DEF LimiterInv
<1>4. \/ EstimatedWait(ages) = 0 /\ window' = Append(ages, 0) /\ admitted' = [admitted EXCEPT ![0] = @ + 1]
      \/ window' = ages /\ admitted' = admitted
  BY DEF Acquire, ages
<1> QED
  BY <1>2, <1>3, <1>4

\* Time passes for all admissions alike.
LEMMA TickKeeps ==
  ASSUME LimiterInv, ProviderTick
  PROVE  LimiterInv'
<1> USE ProviderAssumption
<1>1. /\ window \in Seq(0 .. Window) /\ admitted \in [Ages -> Nat] /\ OldestFirst(window)
      /\ Len(window) <= Capacity
      /\ \A a \in Ages : admitted[a] = Cardinality(Positions(window, {a}))
  BY DEF LimiterInv
<1> DEFINE older == [i \in DOMAIN window |-> Older(window[i], Window)]
           n == Len(window)
<1>2. window' = older /\ admitted' = [a \in Ages |-> IF a = 0 THEN 0 ELSE admitted[a - 1]]
  BY DEF ProviderTick
<1>3. n \in Nat /\ DOMAIN window = 1 .. n /\ \A i \in 1 .. n : window[i] \in 0 .. Window
  BY <1>1
<1>4. ASSUME NEW i \in 1 .. n
      PROVE  older[i] = (IF window[i] < Window THEN window[i] + 1 ELSE Window)
  <2>1. older[i] = Min({window[i] + 1, Window}) /\ window[i] + 1 \in Int /\ Window \in Int
    BY <1>3 DEF Older
  <2>2. Min({window[i] + 1, Window}) = IF window[i] + 1 <= Window THEN window[i] + 1 ELSE Window
    BY <2>1, SmallerOf
  <2> QED
    BY <1>3, <2>1, <2>2
<1>5. older \in [1 .. n -> 0 .. Window] /\ DOMAIN older = 1 .. n
  <2>1. DOMAIN older = 1 .. n /\ older = [i \in 1 .. n |-> older[i]]
    BY <1>3
  <2>2. \A i \in 1 .. n : older[i] \in 0 .. Window
    BY <1>3, <1>4
  <2> HIDE DEF older
  <2> QED
    BY <2>1, <2>2
<1> HIDE DEF older
<1>6. older \in Seq(0 .. Window) /\ Len(older) = n
  BY <1>3, <1>5
<1>7. OldestFirst(older)
  <2> SUFFICES ASSUME NEW i \in 1 .. n, NEW k \in 1 .. n, i < k PROVE older[i] >= older[k]
    BY <1>5 DEF OldestFirst
  <2>1. window[i] >= window[k]
    BY <1>1, <1>3 DEF OldestFirst
  <2> QED
    BY <1>3, <1>4, <2>1
<1>8. admitted' \in [Ages -> Nat]
  BY <1>1, <1>2 DEF Ages
<1>9. ASSUME NEW a \in Ages PROVE admitted'[a] = Cardinality(Positions(older, {a}))
  <2>1. CASE a = 0
    <3>1. \A i \in 1 .. n : older[i] # 0
      BY <1>3, <1>4
    <3>2. Positions(older, {a}) = {}
      BY <1>5, <2>1, <3>1 DEF Positions
    <3> QED
      BY <1>2, <2>1, <3>2, FS_EmptySet
  <2>2. CASE a # 0
    <3>1. a - 1 \in Ages /\ a \in Nat /\ a < Window /\ a > 0
      BY <2>2 DEF Ages
    <3>2. admitted'[a] = admitted[a - 1]
      BY <1>2, <2>2
    <3>3. \A i \in 1 .. n : older[i] = a <=> window[i] = a - 1
      BY <1>3, <1>4, <3>1
    <3>4. Positions(older, {a}) = Positions(window, {a - 1})
      BY <1>3, <1>5, <3>3 DEF Positions
    <3> QED
      BY <1>1, <3>1, <3>2, <3>4
  <2> QED
    BY <2>1, <2>2
<1>10. Len(older) <= Capacity
  BY <1>1, <1>6
<1> QED
  BY <1>2, <1>6, <1>7, <1>8, <1>9, <1>10 DEF LimiterInv

\* The states of a caller.
CallerStates ==
  [pc : {"idle", "acquire", "call", "poll", "get"},
   sleep : Nat, attempt : 0 .. MaxAttempts, spent : 0 .. PollDeadline + 1, interval : 0 .. MaxPoll]

\* A caller in a call is at one of its attempts.
AtAttempt(row) == row \in CallerStates /\ (row.pc = "call" => row.attempt >= 1)

\* A step that leaves the limiter alone and gives one caller another state.
LEMMA CallerMoves ==
  ASSUME ProviderInv, UNCHANGED <<window, admitted>>, NEW c \in Callers, NEW after,
         AtAttempt(caller[c]) => AtAttempt(after), caller' = [caller EXCEPT ![c] = after],
         after.pc = "acquire" => after.sleep = 0
  PROVE  ProviderInv'
<1>1. caller \in [Callers -> CallerStates] /\ \A d \in Callers : AtAttempt(caller[d])
  BY DEF ProviderInv, ProviderTypeOK, CallerStates, AtAttempt
<1>2. caller' \in [Callers -> CallerStates] /\ \A d \in Callers : AtAttempt(caller'[d])
  BY <1>1 DEF AtAttempt
<1>3. LimiterInv'
  BY DEF ProviderInv, LimiterInv, OldestFirst, Positions
<1>4. ASSUME NEW d \in Callers PROVE SleepsForSlot(d)'
  <2>1. SleepsForSlot(d)
    BY DEF ProviderInv
  <2>2. CASE d = c
    BY <1>1, <2>2 DEF SleepsForSlot, Waits, Asleep
  <2>3. CASE d # c
    <3>1. caller'[d] = caller[d]
      BY <1>1, <2>3
    <3> QED
      BY <2>1, <3>1 DEF SleepsForSlot, Waits, Asleep
  <2> QED
    BY <2>2, <2>3
<1> QED
  BY <1>2, <1>3, <1>4 DEF ProviderInv, ProviderTypeOK, CallerStates, AtAttempt, LimiterInv

\* The delay before another attempt is a number.
LEMMA DelayIsNumber ==
  ASSUME NEW attempt \in 1 .. MaxAttempts
  PROVE  Delay(attempt) \in Nat
<1> USE ProviderAssumption
<1>1. 2 ^ (attempt - 1) \in Nat
  <2>1. attempt - 1 \in Nat
    OBVIOUS
  <2> QED
    BY <2>1, PowersOfTwo
<1> DEFINE double == 2 ^ (attempt - 1)
<1>2. double \in Nat
  BY <1>1
<1> HIDE DEF double
<1>3. BaseDelay * double \in Nat
  BY <1>2
<1>4. Min({MaxDelay, BaseDelay * double}) \in {MaxDelay, BaseDelay * double}
  BY <1>3, SmallerOf
<1> QED
  BY <1>3, <1>4 DEF Delay, double

\* So is the next interval of the poll.
LEMMA IntervalIsNumber ==
  ASSUME NEW c, caller[c].interval \in 0 .. MaxPoll
  PROVE  Interval(c) \in 1 .. MaxPoll /\ NextInterval(Interval(c)) \in 0 .. MaxPoll
<1> USE ProviderAssumption
<1>1. Interval(c) \in 1 .. MaxPoll
  BY DEF Interval
<1> DEFINE next == (Interval(c) * 3) \div 2
<1>2. next \in Nat
  BY <1>1
<1> HIDE DEF next
<1>3. Min({MaxPoll, next}) = IF MaxPoll <= next THEN MaxPoll ELSE next
  BY <1>2, SmallerOf
<1>4. Min({MaxPoll, next}) \in 0 .. MaxPoll
  BY <1>2, <1>3
<1> QED
  BY <1>1, <1>4 DEF NextInterval, next

\* As long as somebody sleeps for a slot, the window is full and nothing has left it.
LEMMA FullWhileAsleep ==
  ASSUME ProviderInv, NEW c \in Callers, Waits(c), Asleep(c)
  PROVE  /\ 1 \in DOMAIN window /\ Len(window) = Capacity /\ window[1] + caller[c].sleep = Window
         /\ window[1] \in 0 .. Window - 1
         /\ \A i \in DOMAIN window : window[i] \in Ages
<1> USE ProviderAssumption
<1>1. window \in Seq(0 .. Window) /\ OldestFirst(window)
  BY DEF ProviderInv, LimiterInv
<1>2. Len(window) = Capacity /\ window[1] + caller[c].sleep = Window
  BY DEF ProviderInv, SleepsForSlot
<1>3. caller[c].sleep \in Nat /\ caller[c].sleep > 0
  BY DEF ProviderInv, ProviderTypeOK, Asleep
<1>4. 1 \in DOMAIN window /\ DOMAIN window = 1 .. Len(window) /\ Len(window) \in Nat
      /\ \A i \in DOMAIN window : window[i] \in 0 .. Window
  BY <1>1, <1>2
<1>5. window[1] \in 0 .. Window - 1
  BY <1>2, <1>3, <1>4
<1>6. ASSUME NEW i \in DOMAIN window PROVE window[i] \in Ages
  <2>1. window[i] <= window[1]
    <3>1. CASE i = 1
      BY <1>4, <3>1
    <3>2. CASE i # 1
      BY <1>1, <1>4, <3>2 DEF OldestFirst
    <3> QED
      BY <3>1, <3>2
  <2> QED
    BY <1>4, <1>5, <2>1 DEF Ages
<1> QED
  BY <1>2, <1>4, <1>5, <1>6

\* A round of the limiter takes no slot while somebody sleeps for one, and puts a caller to
\* sleep until the oldest admission leaves.
LEMMA AcquireWakes ==
  ASSUME ProviderInv, NEW c \in Callers, Acquire(c), NEW d \in Callers
  PROVE  SleepsForSlot(d)'
<1> USE ProviderAssumption
<1> DEFINE ages == Pruned(window)
           wait == EstimatedWait(ages)
<1>1. /\ ages \in Seq(0 .. Window) /\ Len(ages) <= Capacity /\ Len(ages) \in Nat
      /\ \A i \in DOMAIN ages : ages[i] < Window
  BY PrunedStillCounts DEF ProviderInv
<1>2. /\ caller[c].pc = "acquire" /\ caller[c].sleep = 0
      /\ \/ /\ wait = 0
            /\ caller' = [caller EXCEPT ![c].pc = "call", ![c].attempt = 1]
         \/ /\ wait # 0 /\ window' = ages
            /\ caller' = [caller EXCEPT ![c].sleep = wait]
  BY DEF Acquire, CallerAt
<1>3. caller \in [Callers -> CallerStates]
  BY DEF ProviderInv, ProviderTypeOK, CallerStates
<1>4. ASSUME wait # 0 PROVE Len(ages) = Capacity /\ wait = Window - ages[1] /\ ages[1] \in 0 .. Window
  <2> HIDE DEF ages
  <2>1. ~(Len(ages) < Capacity) /\ wait = Window - ages[1]
    BY <1>4 DEF EstimatedWait
  <2>2. Len(ages) = Capacity /\ 1 \in DOMAIN ages
    BY <1>1, <2>1
  <2> QED
    BY <1>1, <2>1, <2>2
<1>5. ASSUME Waits(d), Asleep(d) PROVE ages[1] = window[1] /\ wait # 0
  <2>1. /\ 1 \in DOMAIN window /\ Len(window) = Capacity /\ window[1] \in 0 .. Window - 1
    BY <1>5, FullWhileAsleep
  <2>2. PICK n \in 0 .. Len(window) :
          /\ Len(ages) = Len(window) - n
          /\ \A i \in 1 .. Len(window) - n : ages[i] = window[n + i]
          /\ \A i \in 1 .. n : window[i] = Window
    BY PruneForgets DEF ProviderInv, LimiterInv
  <2> HIDE DEF ages
  <2>3. n = 0
    <3>1. ~(1 \in 1 .. n)
      BY <2>1, <2>2
    <3> QED
      BY <2>1, <3>1
  <2>4. ages[1] = window[1] /\ Len(ages) = Capacity
    BY <2>1, <2>2, <2>3
  <2>5. wait = Window - window[1]
    BY <2>4 DEF EstimatedWait
  <2> QED
    BY <2>1, <2>4, <2>5
<1> HIDE DEF ages, wait
<1>6. CASE d = c
  <2>1. CASE wait = 0
    <3>1. caller'[c].pc = "call"
      BY <1>2, <1>3, <2>1 DEF CallerStates
    <3> QED
      BY <1>6, <3>1 DEF SleepsForSlot, Waits
  <2>2. CASE wait # 0
    <3>1. window' = ages /\ caller'[c].sleep = wait
      BY <1>2, <1>3, <2>2 DEF CallerStates
    <3>2. window'[1] + caller'[c].sleep = Window
      BY <1>4, <2>2, <3>1
    <3> QED
      BY <1>4, <1>6, <2>2, <3>1, <3>2 DEF SleepsForSlot
  <2> QED
    BY <2>1, <2>2
<1>7. CASE d # c
  <2>1. caller'[d] = caller[d]
    BY <1>2, <1>3, <1>7
  <2>2. ASSUME Waits(d), Asleep(d) PROVE Len(window') = Capacity /\ window'[1] + caller[d].sleep = Window
    <3>1. window' = ages /\ ages[1] = window[1] /\ Len(ages) = Capacity
      BY <1>2, <1>4, <1>5, <2>2
    <3>2. window[1] + caller[d].sleep = Window
      BY <2>2, FullWhileAsleep
    <3> QED
      BY <3>1, <3>2
  <2> QED
    BY <2>1, <2>2 DEF SleepsForSlot, Waits, Asleep
<1> QED
  BY <1>6, <1>7

\* Sleepers come nearer to their slot as the oldest admission comes nearer to leaving.
LEMMA TickWakes ==
  ASSUME ProviderInv, ProviderTick, NEW c \in Callers
  PROVE  SleepsForSlot(c)'
<1> USE ProviderAssumption
<1>1. caller[c] \in CallerStates
  BY DEF ProviderInv, ProviderTypeOK, CallerStates
<1>2. /\ caller'[c].pc = caller[c].pc
      /\ caller'[c].sleep = IF Asleep(c) THEN caller[c].sleep - 1 ELSE 0
  BY <1>1 DEF ProviderTick, CallerStates
<1>3. ASSUME Waits(c)', Asleep(c)' PROVE Len(window') = Capacity /\ window'[1] + caller'[c].sleep = Window
  <2>1. Waits(c) /\ Asleep(c) /\ caller'[c].sleep = caller[c].sleep - 1
    BY <1>2, <1>3 DEF Waits, Asleep
  <2>2. /\ 1 \in DOMAIN window /\ Len(window) = Capacity /\ window[1] + caller[c].sleep = Window
        /\ window[1] \in 0 .. Window - 1
    BY <2>1, FullWhileAsleep
  <2> DEFINE later == [i \in DOMAIN window |-> Older(window[i], Window)]
  <2>3. window' = later
    BY DEF ProviderTick
  <2>4. later[1] = window[1] + 1
    BY <2>2, SmallerOf DEF Older
  <2>5. Len(later) = Len(window)
    <3>1. window \in Seq(0 .. Window)
      BY DEF ProviderInv, LimiterInv
    <3>2. DOMAIN window = 1 .. Len(window) /\ Len(window) \in Nat /\ DOMAIN later = DOMAIN window
      BY <3>1
    <3> QED
      BY <3>2
  <2> HIDE DEF later
  <2> QED
    <3>1. window'[1] = window[1] + 1 /\ Len(window') = Capacity
      BY <2>2, <2>3, <2>4, <2>5
    <3>2. caller[c].sleep \in Nat
      BY <1>1 DEF CallerStates
    <3> QED
      BY <2>1, <2>2, <3>1, <3>2
<1> QED
  BY <1>3 DEF SleepsForSlot

\* Every step of a caller preserves the invariant.
LEMMA CallerKeeps ==
  ASSUME ProviderInv, NEW c \in Callers, CallerStep(c)
  PROVE  ProviderInv'
<1> USE ProviderAssumption
<1>0. caller \in [Callers -> CallerStates] /\ AtAttempt(caller[c])
  BY DEF ProviderInv, ProviderTypeOK, CallerStates, AtAttempt
<1>1. ASSUME NEW pc \in {"acquire", "get", "poll"}, Proceed(c, pc), caller[c].sleep = 0,
             UNCHANGED <<window, admitted>>
      PROVE  ProviderInv'
  <2> DEFINE after == [caller[c] EXCEPT !.pc = pc]
  <2>1. caller' = [caller EXCEPT ![c] = after]
    BY <1>1 DEF Proceed
  <2>2. AtAttempt(after) /\ after.sleep = 0
    BY <1>0, <1>1 DEF AtAttempt, CallerStates
  <2> HIDE DEF after
  <2> QED
    BY <1>1, <2>1, <2>2, CallerMoves
<1>2. ASSUME End(c), UNCHANGED <<window, admitted>>
      PROVE  ProviderInv'
  <2>1. AtAttempt(NewCaller) /\ NewCaller.pc = "idle"
    BY DEF AtAttempt, CallerStates, NewCaller
  <2> QED
    BY <1>2, <2>1, CallerMoves DEF End
<1>3. CASE Start(c)
  BY <1>1, <1>3 DEF Start, CallerAt
<1>4. CASE Acquire(c)
  <2>1. LimiterInv'
    BY <1>4, AcquireKeeps DEF ProviderInv
  <2>2. PICK after : caller' = [caller EXCEPT ![c] = after] /\ AtAttempt(after)
    <3>1. CASE EstimatedWait(Pruned(window)) = 0
      <4> DEFINE after == [caller[c] EXCEPT !.pc = "call", !.attempt = 1]
      <4>1. caller' = [caller EXCEPT ![c] = after]
        BY <1>4, <3>1 DEF Acquire
      <4>2. caller[c] \in CallerStates /\ 1 \in 0 .. MaxAttempts
        BY <1>0 DEF AtAttempt
      <4>3. after \in CallerStates /\ after.attempt = 1
        BY <4>2 DEF CallerStates
      <4>4. AtAttempt(after)
        BY <4>3 DEF AtAttempt
      <4> HIDE DEF after
      <4> QED
        BY <4>1, <4>4
    <3>2. CASE EstimatedWait(Pruned(window)) # 0
      <4> DEFINE ages == Pruned(window)
                 after == [caller[c] EXCEPT !.sleep = EstimatedWait(ages)]
      <4>1. caller' = [caller EXCEPT ![c] = after]
        BY <1>4, <3>2 DEF Acquire
      <4>2. ages \in Seq(0 .. Window) /\ \A i \in DOMAIN ages : ages[i] < Window
        BY PrunedStillCounts DEF ProviderInv
      <4>3. EstimatedWait(ages) \in Nat
        <5> HIDE DEF ages
        <5>1. CASE Len(ages) < Capacity
          BY <5>1 DEF EstimatedWait
        <5>2. CASE ~(Len(ages) < Capacity)
          <6>1. 1 \in DOMAIN ages
            BY <4>2, <5>2
          <6>2. ages[1] \in 0 .. Window
            BY <4>2, <6>1
          <6> QED
            BY <5>2, <6>2 DEF EstimatedWait
        <5> QED
          BY <5>1, <5>2
      <4> HIDE DEF ages
      <4>4. AtAttempt(after)
        BY <1>0, <4>3 DEF AtAttempt, CallerStates
      <4> QED
        BY <4>1, <4>4
    <3> QED
      BY <3>1, <3>2
  <2>3. caller' \in [Callers -> CallerStates] /\ \A d \in Callers : AtAttempt(caller'[d])
    <3>1. \A d \in Callers : AtAttempt(caller[d])
      BY DEF ProviderInv, ProviderTypeOK, CallerStates, AtAttempt
    <3> QED
      BY <1>0, <2>2, <3>1 DEF AtAttempt
  <2>4. ASSUME NEW d \in Callers PROVE SleepsForSlot(d)'
    BY <1>4, AcquireWakes
  <2> QED
    BY <2>1, <2>3, <2>4 DEF ProviderInv, ProviderTypeOK, CallerStates, AtAttempt, LimiterInv
<1>5. CASE CallEnds(c)
  BY <1>1, <1>2, <1>5 DEF CallEnds, CallerAt
<1>6. ASSUME NEW status \in Statuses, CallFails(c, status) PROVE ProviderInv'
  <2>1. CASE End(c)
    BY <1>2, <1>6, <2>1 DEF CallFails
  <2>2. CASE ~End(c)
    <3>1. /\ caller[c].pc = "call" /\ caller[c].attempt < MaxAttempts
          /\ caller' = [caller EXCEPT ![c].sleep = Delay(caller[c].attempt), ![c].attempt = NextAttempt(c)]
          /\ UNCHANGED <<window, admitted>>
      BY <1>6, <2>2 DEF CallFails, CallerAt
    <3>2. caller[c].attempt \in 1 .. MaxAttempts
      BY <1>0, <3>1 DEF AtAttempt, CallerStates
    <3> DEFINE delay == Delay(caller[c].attempt)
               after == [caller[c] EXCEPT !.sleep = delay, !.attempt = NextAttempt(c)]
    <3>3. delay \in Nat
      BY <3>2, DelayIsNumber
    <3>4. caller' = [caller EXCEPT ![c] = after]
      BY <3>1
    <3> HIDE DEF delay
    <3>5. AtAttempt(after) /\ after.pc = "call"
      BY <1>0, <3>1, <3>2, <3>3 DEF AtAttempt, CallerStates, NextAttempt
    <3> HIDE DEF after
    <3> QED
      BY <3>1, <3>4, <3>5, CallerMoves
  <2> QED
    BY <2>1, <2>2
<1>7. CASE PollAgain(c)
  <2>1. CASE End(c)
    BY <1>2, <1>7, <2>1 DEF PollAgain
  <2>2. CASE ~End(c)
    <3> DEFINE sleep == Interval(c)
               next == NextInterval(sleep)
               after == [caller[c] EXCEPT !.pc = "get", !.sleep = sleep, !.interval = next]
    <3>1. UNCHANGED <<window, admitted>> /\ caller' = [caller EXCEPT ![c] = after]
      BY <1>7, <2>2 DEF PollAgain
    <3>2. sleep \in Nat /\ next \in 0 .. MaxPoll
      BY <1>0, IntervalIsNumber DEF AtAttempt, CallerStates
    <3> HIDE DEF sleep, next
    <3>3. AtAttempt(after) /\ after.pc = "get"
      BY <1>0, <3>2 DEF AtAttempt, CallerStates
    <3> HIDE DEF after
    <3> QED
      BY <3>1, <3>3, CallerMoves
  <2> QED
    BY <2>1, <2>2
<1>8. CASE Get(c)
  BY <1>1, <1>2, <1>8 DEF Get, CallerAt
<1> QED
  BY <1>3, <1>4, <1>5, <1>6, <1>7, <1>8 DEF CallerStep, JobStep

\* The limiter and its callers start as the invariant says.
LEMMA ProviderBegins == ProviderInit => ProviderInv
<1> USE ProviderAssumption
<1> SUFFICES ASSUME ProviderInit PROVE ProviderInv
  OBVIOUS
<1>1. window = << >> /\ Len(window) = 0 /\ DOMAIN window = {} /\ window \in Seq(0 .. Window)
  BY DEF ProviderInit
<1>2. \A a : Cardinality(Positions(window, {a})) = 0
  BY <1>1, FS_EmptySet DEF Positions
<1>3. LimiterInv
  <2>1. admitted \in [Ages -> Nat] /\ \A a \in Ages : admitted[a] = 0
    BY DEF ProviderInit
  <2>2. \A a \in Ages : admitted[a] = Cardinality(Positions(window, {a}))
    BY <1>2, <2>1
  <2>3. OldestFirst(window)
    BY <1>1 DEF OldestFirst
  <2>4. Len(window) <= Capacity
    BY <1>1
  <2> QED
    BY <1>1, <2>1, <2>2, <2>3, <2>4 DEF LimiterInv
<1>4. caller \in [Callers -> CallerStates] /\ \A c \in Callers : AtAttempt(caller[c])
  BY DEF ProviderInit, NewCaller, CallerStates, AtAttempt
<1>5. \A c \in Callers : SleepsForSlot(c)
  BY DEF ProviderInit, NewCaller, SleepsForSlot, Waits
<1> QED
  BY <1>3, <1>4, <1>5 DEF ProviderInv, ProviderTypeOK, LimiterInv, CallerStates, AtAttempt

\* Every step preserves the invariant.
LEMMA ProviderKeeps == ProviderInv /\ [ProviderNext]_providerVars => ProviderInv'
<1> SUFFICES ASSUME ProviderInv, [ProviderNext]_providerVars PROVE ProviderInv'
  OBVIOUS
<1> USE ProviderAssumption
<1>1. CASE ProviderTick
  <2>1. LimiterInv'
    BY <1>1, TickKeeps DEF ProviderInv
  <2>2. caller \in [Callers -> CallerStates] /\ \A d \in Callers : AtAttempt(caller[d])
    BY DEF ProviderInv, ProviderTypeOK, CallerStates, AtAttempt
  <2>3. caller' \in [Callers -> CallerStates] /\ \A d \in Callers : AtAttempt(caller'[d])
    <3> DEFINE Later(d) == [caller[d] EXCEPT
                 !.sleep = IF Asleep(d) THEN @ - 1 ELSE 0,
                 !.spent = IF caller[d].interval > 0 THEN Older(@, PollDeadline + 1) ELSE @]
    <3>1. caller' = [d \in Callers |-> Later(d)]
      BY <1>1 DEF ProviderTick
    <3>2. ASSUME NEW d \in Callers PROVE AtAttempt(Later(d))
      <4>1. caller[d] \in CallerStates /\ (caller[d].pc = "call" => caller[d].attempt >= 1)
        BY <2>2 DEF AtAttempt
      <4> DEFINE rest == IF Asleep(d) THEN caller[d].sleep - 1 ELSE 0
                 spent == IF caller[d].interval > 0 THEN Older(caller[d].spent, PollDeadline + 1)
                          ELSE caller[d].spent
      <4>2. rest \in Nat
        BY <4>1 DEF Asleep, CallerStates
      <4>5. spent \in 0 .. PollDeadline + 1
        <5>1. caller[d].spent \in 0 .. PollDeadline + 1
          BY <4>1 DEF CallerStates
        <5>2. Older(caller[d].spent, PollDeadline + 1) \in 0 .. PollDeadline + 1
          BY <5>1, SmallerOf DEF Older
        <5> QED
          BY <5>1, <5>2
      <4>3. Later(d) = [caller[d] EXCEPT !.sleep = rest, !.spent = spent]
        BY <4>1 DEF CallerStates
      <4> HIDE DEF rest, spent, Later
      <4>4. /\ Later(d) \in CallerStates /\ Later(d).pc = caller[d].pc
            /\ Later(d).attempt = caller[d].attempt
        BY <4>1, <4>2, <4>3, <4>5 DEF CallerStates
      <4> QED
        BY <4>1, <4>4 DEF AtAttempt
    <3> HIDE DEF Later
    <3> QED
      BY <3>1, <3>2 DEF AtAttempt
  <2>4. ASSUME NEW c \in Callers PROVE SleepsForSlot(c)'
    BY <1>1, TickWakes
  <2> QED
    BY <2>1, <2>3, <2>4 DEF ProviderInv, ProviderTypeOK, CallerStates, AtAttempt, LimiterInv
<1>2. ASSUME NEW c \in Callers, CallerStep(c) PROVE ProviderInv'
  BY <1>2, CallerKeeps
<1>3. CASE UNCHANGED providerVars
  BY <1>3 DEF providerVars, ProviderInv, ProviderTypeOK, LimiterInv, OldestFirst, Positions,
     SleepsForSlot, Waits, Asleep
<1> QED
  BY <1>1, <1>2, <1>3 DEF ProviderNext

\* It holds for ever.
LEMMA ProviderInvariant == ProviderSpec => []ProviderInv
  BY ProviderBegins, ProviderKeeps, PTL DEF ProviderSpec

\* For any number of callers, any capacity and any window: however the callers sleep, wake
\* together and take each other's slots, acquire (rate_limit.py) admits no more than Capacity
\* of them within any Window, and puts none to sleep while there are fewer.
THEOREM WindowHolds == ProviderSpec => []AdmissionsPerWindow
<1>1. ProviderInv => AdmissionsPerWindow
  <2> SUFFICES ASSUME ProviderInv PROVE AdmissionsPerWindow
    OBVIOUS
  <2> USE ProviderAssumption
  <2>1. SumFunction(admitted) = Cardinality(Positions(window, Ages))
    BY CountedByAge DEF ProviderInv, LimiterInv
  <2>2. Cardinality(Positions(window, Ages)) \in Nat /\ Cardinality(Positions(window, Ages)) <= Len(window)
    BY PositionsFinite DEF ProviderInv, LimiterInv
  <2>3. Len(window) \in Nat /\ Len(window) <= Capacity /\ DOMAIN window = 1 .. Len(window)
    BY DEF ProviderInv, LimiterInv
  <2>4. ASSUME NEW c \in Callers, Waits(c), Asleep(c) PROVE SumFunction(admitted) = Capacity
    <3>1. Positions(window, Ages) = 1 .. Capacity
      BY <2>3, <2>4, FullWhileAsleep DEF Positions
    <3>2. Cardinality(1 .. Capacity) = Capacity
      BY FS_Interval
    <3> QED
      BY <2>1, <3>1, <3>2
  <2> QED
    BY <2>1, <2>2, <2>3, <2>4 DEF AdmissionsPerWindow
<1> QED
  BY <1>1, ProviderInvariant, PTL

-----------------------------------------------------------------------------
(* Migrations *)

\* A command that migrates, as opposed to one that waits, resets or verifies.
Migrating(o) == operator[o].pc \in {"lock", "check", "apply", "commit"}

\* The revisions a downgrade of o has gone back over.
GoneBack(o) == operator[o].at + 1 .. operator[o].read

\* Before it migrates and after it a command holds nothing; while it migrates, it goes
\* from the revision it read towards its target.
OnItsWay(o) ==
  /\ Migrating(o) \/ operator[o] = [IdleOperator EXCEPT !.pc = operator[o].pc]
  /\ Migrating(o) =>
       LET at == operator[o].at  read == operator[o].read  to == operator[o].to
       IN /\ (read <= at /\ at <= to) \/ (to <= at /\ at <= read)
          /\ operator[o].pc = "commit" <=> at = to
          /\ ~operator[o].wrote => at = read

\* What must be empty is locked before it is looked at, and stays so; what a downgrade has
\* gone back over is locked, and what was protected there is empty.
EmptyAndLocked(o) ==
  /\ operator[o].pc \in {"check", "apply"} => MustBeEmpty(o) \subseteq operator[o].locks
  /\ operator[o].pc = "apply" => rows \cap MustBeEmpty(o) = {}
  /\ \A i \in GoneBack(o) :
       /\ Migrations[i].creates \cup Migrations[i].emptyDown \subseteq operator[o].locks
       /\ rows \cap Migrations[i].emptyDown = {}

\* An open insert is into a table that exists and that no operator has locked.
InsertsStand ==
  /\ \A c \in Clients : client[c].writes # "none" => client[c].writes \in TablesAt(revision)
  /\ \A c \in Clients, o \in Operators : client[c].writes \notin operator[o].locks

\* Of the commands under way at most one has written, on the revision that is committed.
OneWriter ==
  /\ \A o \in Operators : operator[o].wrote => operator[o].read = revision
  /\ \A o, p \in Operators : operator[o].wrote /\ operator[p].wrote => o = p

\* The inductive invariant.
SchemaInv ==
  /\ SchemaTypeOK /\ InsertsStand /\ OneWriter
  /\ \A o \in Operators : OnItsWay(o) /\ EmptyAndLocked(o)

OperatorStates ==
  [pc : {"idle", "lock", "check", "apply", "commit", "drop", "upgrade", "verify"},
   read : Revisions, at : Revisions, to : Revisions, locks : SUBSET TablesAt(CodeHead),
   wrote : BOOLEAN, reset : BOOLEAN]

\* The revisions, one by one: what is protected exists by then.
LEMMA SevenRevisions ==
  /\ CodeHead = 7
  /\ \A i \in 1 .. 7 :
       /\ Migrations[i].emptyDown \subseteq TablesAt(i) /\ Migrations[i].emptyUp \subseteq TablesAt(i)
       /\ Migrations[i].creates \subseteq TablesAt(i)
       /\ "none" \notin Migrations[i].creates
<1>1. CodeHead = 7
  BY DEF CodeHead, Migrations
<1>2. \A i \in 1 .. 7 : Migrations[i].creates \subseteq TablesAt(i)
  BY DEF TablesAt
<1>3. \A i \in 1 .. 7 : "none" \notin Migrations[i].creates
  BY DEF Migrations, Baseline, UserSessions, ContentOwnership, CreditFoundation, CreditOperations,
         CreditAccounting, MasterAudit
<1>4. \A i \in 1 .. 7 : Migrations[i].emptyDown \subseteq Migrations[i].creates \/ i = 3
  BY DEF Migrations, Baseline, UserSessions, ContentOwnership, CreditFoundation, CreditOperations,
         CreditAccounting, MasterAudit
<1>5. Migrations[3].emptyDown = {"content"} /\ Migrations[1].creates = {"content"}
  BY DEF Migrations, Baseline, UserSessions, ContentOwnership, CreditFoundation, CreditOperations,
         CreditAccounting, MasterAudit
<1>6. \A i \in 1 .. 7 : Migrations[i].emptyUp = {} \/ (i = 3 /\ Migrations[i].emptyUp = {"content"})
  BY DEF Migrations, Baseline, UserSessions, ContentOwnership, CreditFoundation, CreditOperations,
         CreditAccounting, MasterAudit
<1>7. "content" \in TablesAt(3)
  BY <1>5 DEF TablesAt
<1> QED
  BY <1>1, <1>2, <1>3, <1>4, <1>5, <1>6, <1>7

\* Later revisions have the tables of earlier ones.
LEMMA TablesGrow ==
  ASSUME NEW r \in Revisions, NEW s \in Revisions
  PROVE  /\ r <= s => TablesAt(r) \subseteq TablesAt(s)
         /\ "none" \notin TablesAt(r)
         /\ TablesAt(s) \subseteq TablesAt(r) \cup UNION {Migrations[i].creates : i \in r + 1 .. s}
<1>1. CodeHead = 7 /\ \A i \in 1 .. 7 : "none" \notin Migrations[i].creates
  BY SevenRevisions
<1>2. r \in 0 .. 7 /\ s \in 0 .. 7
  BY <1>1 DEF Revisions
<1>3. r <= s => TablesAt(r) \subseteq TablesAt(s)
  BY <1>2 DEF TablesAt
<1>4. "none" \notin TablesAt(r)
  BY <1>1, <1>2 DEF TablesAt
<1>5. ASSUME NEW t \in TablesAt(s), t \notin TablesAt(r)
      PROVE  t \in UNION {Migrations[i].creates : i \in r + 1 .. s}
  <2>1. PICK i \in 1 .. s : t \in Migrations[i].creates
    BY DEF TablesAt
  <2>2. i \notin 1 .. r
    BY <1>5, <2>1 DEF TablesAt
  <2>3. i \in r + 1 .. s
    BY <1>2, <2>1, <2>2
  <2> QED
    BY <2>1, <2>3
<1> QED
  BY <1>3, <1>4, <1>5

\* The state of a command is one of the listed.
LEMMA OperatorTyped == SchemaInv => \A o \in Operators : operator[o] \in OperatorStates
  BY DEF SchemaInv, SchemaTypeOK, OperatorStates

\* A step of one command that leaves the schema, the rows and the clients alone.
LEMMA CommandMoves ==
  ASSUME SchemaInv, NEW o \in Operators, NEW after \in OperatorStates,
         operator' = [operator EXCEPT ![o] = after], UNCHANGED <<revision, rows, client>>,
         OnItsWay(o)', EmptyAndLocked(o)',
         after.wrote => after.read = revision /\ \A p \in Operators \ {o} : ~operator[p].wrote,
         \A c \in Clients : client[c].writes \notin after.locks
  PROVE  SchemaInv'
<1>1. /\ operator' \in [Operators -> OperatorStates] /\ operator'[o] = after
      /\ \A p \in Operators \ {o} : operator'[p] = operator[p]
  BY DEF SchemaInv, SchemaTypeOK, OperatorStates
<1>2. SchemaTypeOK'
  BY <1>1 DEF SchemaInv, SchemaTypeOK, OperatorStates
<1>3. InsertsStand'
  BY <1>1 DEF SchemaInv, InsertsStand
<1>4. OneWriter'
  BY <1>1 DEF SchemaInv, OneWriter
<1>5. ASSUME NEW p \in Operators PROVE OnItsWay(p)' /\ EmptyAndLocked(p)'
  <2>1. CASE p = o
    BY <2>1
  <2>2. CASE p # o
    <3>1. OnItsWay(p) /\ EmptyAndLocked(p) /\ operator'[p] = operator[p]
      BY <1>1, <2>2 DEF SchemaInv
    <3> QED
      BY <3>1 DEF OnItsWay, Migrating, EmptyAndLocked, MustBeEmpty, RevisionStep, Up, GoneBack
  <2> QED
    BY <2>1, <2>2
<1> QED
  BY <1>2, <1>3, <1>4, <1>5 DEF SchemaInv

\* A command fails, waits, resets or verifies: it holds nothing.
LEMMA IdleMoves ==
  ASSUME SchemaInv, NEW o \in Operators, UNCHANGED <<revision, rows, client>>,
         NEW pc \in {"idle", "drop", "upgrade", "verify"},
         operator' = [operator EXCEPT ![o] = [IdleOperator EXCEPT !.pc = pc]]
  PROVE  SchemaInv'
<1> DEFINE after == [IdleOperator EXCEPT !.pc = pc]
<1>1. 0 \in Revisions /\ CodeHead = 7
  BY SevenRevisions DEF Revisions
<1>2. after \in OperatorStates /\ after.locks = {} /\ ~after.wrote /\ after.at = 0 /\ after.read = 0 /\ after.pc = pc
      /\ after = [IdleOperator EXCEPT !.pc = after.pc]
  BY <1>1 DEF IdleOperator, OperatorStates
<1>3. operator'[o] = after
  BY DEF SchemaInv, SchemaTypeOK
<1> HIDE DEF after
<1>4. OnItsWay(o)'
  BY <1>2, <1>3 DEF OnItsWay, Migrating
<1>5. EmptyAndLocked(o)'
  <2>1. GoneBack(o)' = {}
    <3>1. operator'[o].at = 0 /\ operator'[o].read = 0
      BY <1>2, <1>3
    <3>2. 0 + 1 .. 0 = {}
      OBVIOUS
    <3> QED
      BY <3>1, <3>2 DEF GoneBack
  <2> QED
    BY <1>2, <1>3, <2>1 DEF EmptyAndLocked
<1>6. operator' = [operator EXCEPT ![o] = after]
  BY DEF after
<1> QED
  BY <1>2, <1>4, <1>5, <1>6, CommandMoves

\* A transaction begins with what alembic reads as the revision.
LEMMA BeginsStep ==
  ASSUME SchemaInv, NEW o \in Operators, UNCHANGED <<revision, rows, client>>,
         NEW to \in Revisions, NEW reset \in BOOLEAN, Transaction(o, to, reset)
  PROVE  SchemaInv'
<1> DEFINE after == [IdleOperator EXCEPT !.pc = NextPc(revision, to), !.read = revision, !.at = revision,
                         !.to = to, !.reset = reset]
<1>1. revision \in Revisions /\ Revisions = 0 .. 7
  BY SevenRevisions DEF SchemaInv, SchemaTypeOK, Revisions
<1>2. after \in OperatorStates /\ after.locks = {} /\ ~after.wrote /\ after.at = revision /\ after.read = revision
      /\ after.to = to /\ after.pc = NextPc(revision, to)
  BY <1>1 DEF IdleOperator, OperatorStates, NextPc
<1>3. operator'[o] = after
  BY DEF SchemaInv, SchemaTypeOK, Transaction
<1>6. operator' = [operator EXCEPT ![o] = after]
  BY DEF Transaction
<1> HIDE DEF after
<1>4. OnItsWay(o)'
  BY <1>1, <1>2, <1>3 DEF OnItsWay, Migrating, NextPc
<1>5. EmptyAndLocked(o)'
  <2>1. operator'[o].pc \notin {"check", "apply"}
    BY <1>2, <1>3 DEF NextPc
  <2>2. revision + 1 .. revision = {}
    BY <1>1
  <2>3. GoneBack(o)' = {}
    BY <1>2, <1>3, <2>2 DEF GoneBack
  <2> QED
    BY <2>1, <2>3 DEF EmptyAndLocked
<1> QED
  BY <1>2, <1>4, <1>5, <1>6, CommandMoves

\* Where a command that migrates goes next.
LEMMA NextStep ==
  ASSUME SchemaInv, NEW o \in Operators, Migrating(o), operator[o].pc # "commit"
  PROVE  /\ operator[o].at \in 0 .. 7 /\ operator[o].to \in 0 .. 7 /\ operator[o].read \in 0 .. 7
         /\ operator[o].at # operator[o].to
         /\ Up(o) => /\ operator[o].at + 1 \in 1 .. 7 /\ operator[o].read <= operator[o].at
                     /\ MustBeEmpty(o) = Migrations[operator[o].at + 1].emptyUp
         /\ ~Up(o) => /\ operator[o].at \in 1 .. 7 /\ operator[o].at <= operator[o].read
                      /\ operator[o].to < operator[o].at
                      /\ RevisionStep(o) = Migrations[operator[o].at]
                      /\ MustBeEmpty(o) = Migrations[operator[o].at].emptyDown
         /\ MustBeEmpty(o) \subseteq TablesAt(CodeHead)
<1>1. operator[o] \in OperatorStates /\ OnItsWay(o)
  BY DEF SchemaInv, SchemaTypeOK, OperatorStates
<1>2. Revisions = 0 .. 7 /\ CodeHead = 7
  BY SevenRevisions DEF Revisions
<1>3. operator[o].at \in 0 .. 7 /\ operator[o].to \in 0 .. 7 /\ operator[o].read \in 0 .. 7
  BY <1>1, <1>2 DEF OperatorStates
<1>4. operator[o].at # operator[o].to
  BY <1>1 DEF OnItsWay
<1>5. (operator[o].read <= operator[o].at /\ operator[o].at <= operator[o].to)
        \/ (operator[o].to <= operator[o].at /\ operator[o].at <= operator[o].read)
  BY <1>1 DEF OnItsWay
<1>6. Up(o) => /\ operator[o].at + 1 \in 1 .. 7 /\ operator[o].read <= operator[o].at
               /\ MustBeEmpty(o) = Migrations[operator[o].at + 1].emptyUp
  BY <1>3, <1>4, <1>5 DEF Up, MustBeEmpty, RevisionStep
<1>7. ~Up(o) => /\ operator[o].at \in 1 .. 7 /\ operator[o].at <= operator[o].read
                /\ operator[o].to < operator[o].at
                /\ RevisionStep(o) = Migrations[operator[o].at]
                /\ MustBeEmpty(o) = Migrations[operator[o].at].emptyDown
  BY <1>3, <1>4, <1>5 DEF Up, MustBeEmpty, RevisionStep
<1>8. \A i \in 1 .. 7 : Migrations[i].emptyUp \subseteq TablesAt(7) /\ Migrations[i].emptyDown \subseteq TablesAt(7)
  <2> TAKE i \in 1 .. 7
  <2>1. TablesAt(i) \subseteq TablesAt(7)
    BY <1>2, TablesGrow
  <2> QED
    BY <2>1, SevenRevisions
<1> QED
  BY <1>2, <1>3, <1>4, <1>6, <1>7, <1>8

\* The locks keep open inserts out, now and later.
LEMMA LockStep ==
  ASSUME SchemaInv, NEW o \in Operators, LockTables(o)
  PROVE  SchemaInv'
<1> DEFINE after == [operator[o] EXCEPT !.pc = "check", !.locks = @ \cup LocksFor(o)]
<1>1. operator[o] \in OperatorStates /\ OnItsWay(o) /\ EmptyAndLocked(o) /\ operator[o].pc = "lock"
  BY DEF SchemaInv, SchemaTypeOK, OperatorStates, LockTables, OperatorAt
<1>2. Migrating(o) /\ MustBeEmpty(o) \subseteq TablesAt(CodeHead)
  BY <1>1, NextStep DEF Migrating
<1>3. /\ after \in OperatorStates /\ after.pc = "check" /\ after.locks = operator[o].locks \cup MustBeEmpty(o)
      /\ after.at = operator[o].at /\ after.read = operator[o].read /\ after.to = operator[o].to
      /\ after.wrote = operator[o].wrote
  BY <1>1, <1>2 DEF OperatorStates, LocksFor
<1>4. operator' = [operator EXCEPT ![o] = after] /\ UNCHANGED <<revision, rows, client>>
  BY DEF LockTables
<1>5. operator'[o] = after
  BY <1>4 DEF SchemaInv, SchemaTypeOK
<1> HIDE DEF after
<1>6. OnItsWay(o)'
  BY <1>1, <1>3, <1>5 DEF OnItsWay, Migrating
<1>7. EmptyAndLocked(o)'
  BY <1>1, <1>3, <1>4, <1>5 DEF EmptyAndLocked, GoneBack, MustBeEmpty, RevisionStep, Up
<1>8. after.wrote => after.read = revision /\ \A p \in Operators \ {o} : ~operator[p].wrote
  BY <1>3 DEF SchemaInv, OneWriter
<1>9. \A c \in Clients : client[c].writes \notin after.locks
  BY <1>3 DEF LockTables, Unlocked, LocksFor, SchemaInv, InsertsStand
<1> QED
  BY <1>3, <1>4, <1>6, <1>7, <1>8, <1>9, CommandMoves

\* The tables that were looked at are locked.
LEMMA CheckStep ==
  ASSUME SchemaInv, NEW o \in Operators, CheckEmpty(o)
  PROVE  SchemaInv'
<1> DEFINE after == [operator[o] EXCEPT !.pc = "apply"]
<1>1. operator[o] \in OperatorStates /\ OnItsWay(o) /\ EmptyAndLocked(o) /\ operator[o].pc = "check"
  BY DEF SchemaInv, SchemaTypeOK, OperatorStates, CheckEmpty, OperatorAt
<1>3. /\ after \in OperatorStates /\ after.pc = "apply" /\ after.locks = operator[o].locks
      /\ after.at = operator[o].at /\ after.read = operator[o].read /\ after.to = operator[o].to
      /\ after.wrote = operator[o].wrote
  BY <1>1 DEF OperatorStates
<1>4. /\ operator' = [operator EXCEPT ![o] = after] /\ UNCHANGED <<revision, rows, client>>
      /\ rows \cap MustBeEmpty(o) = {}
  BY DEF CheckEmpty
<1>5. operator'[o] = after
  BY <1>4 DEF SchemaInv, SchemaTypeOK
<1> HIDE DEF after
<1>6. OnItsWay(o)'
  BY <1>1, <1>3, <1>5 DEF OnItsWay, Migrating
<1>7. EmptyAndLocked(o)'
  BY <1>1, <1>3, <1>4, <1>5 DEF EmptyAndLocked, GoneBack, MustBeEmpty, RevisionStep, Up
<1>8. after.wrote => after.read = revision /\ \A p \in Operators \ {o} : ~operator[p].wrote
  BY <1>3 DEF SchemaInv, OneWriter
<1>9. \A c \in Clients : client[c].writes \notin after.locks
  BY <1>3 DEF SchemaInv, InsertsStand
<1> QED
  BY <1>3, <1>4, <1>6, <1>7, <1>8, <1>9, CommandMoves

\* One more revision is applied or undone.
LEMMA ApplyKeeps ==
  ASSUME SchemaInv, NEW o \in Operators, ApplyStep(o)
  PROVE  SchemaInv'
<1> DEFINE at == IF Up(o) THEN operator[o].at + 1 ELSE operator[o].at - 1
           dropped == IF Up(o) THEN {} ELSE RevisionStep(o).creates
           after == [operator[o] EXCEPT !.pc = NextPc(at, operator[o].to), !.at = at,
                                        !.locks = @ \cup dropped, !.wrote = TRUE]
<1>1. operator[o] \in OperatorStates /\ OnItsWay(o) /\ EmptyAndLocked(o) /\ operator[o].pc = "apply"
  BY DEF SchemaInv, SchemaTypeOK, OperatorStates, ApplyStep, OperatorAt
<1>2. Migrating(o) /\ Revisions = 0 .. 7 /\ CodeHead = 7
  BY <1>1, SevenRevisions DEF Migrating, Revisions
<1>3. /\ operator[o].at \in 0 .. 7 /\ operator[o].to \in 0 .. 7 /\ operator[o].read \in 0 .. 7
      /\ operator[o].at # operator[o].to
      /\ Up(o) => /\ operator[o].at + 1 \in 1 .. 7 /\ operator[o].read <= operator[o].at
                  /\ MustBeEmpty(o) = Migrations[operator[o].at + 1].emptyUp
      /\ ~Up(o) => /\ operator[o].at \in 1 .. 7 /\ operator[o].at <= operator[o].read
                   /\ operator[o].to < operator[o].at
                   /\ RevisionStep(o) = Migrations[operator[o].at]
                   /\ MustBeEmpty(o) = Migrations[operator[o].at].emptyDown
  BY <1>1, <1>2, NextStep
<1>4. dropped \subseteq TablesAt(CodeHead)
  <2>1. CASE Up(o)
    BY <2>1
  <2>2. CASE ~Up(o)
    <3>1. TablesAt(operator[o].at) \subseteq TablesAt(7)
      BY <1>2, <1>3, <2>2, TablesGrow
    <3> QED
      BY <1>2, <1>3, <2>2, <3>1, SevenRevisions
  <2> QED
    BY <2>1, <2>2
<1>5. operator' = [operator EXCEPT ![o] = after] /\ UNCHANGED <<revision, rows, client>>
      /\ (\A p \in Operators \ {o} : ~operator[p].wrote) /\ revision = operator[o].read
      /\ Unlocked(o, dropped)
  BY DEF ApplyStep
<1>6. operator'[o] = after
  BY <1>5 DEF SchemaInv, SchemaTypeOK
<1>7. at \in 0 .. 7 /\ (Up(o) => at = operator[o].at + 1) /\ (~Up(o) => at = operator[o].at - 1)
  BY <1>3
<1>11. (~Up(o) => dropped = Migrations[operator[o].at].creates) /\ (Up(o) => dropped = {})
  BY <1>3
<1> HIDE DEF at, dropped
<1>8. /\ after \in OperatorStates /\ after.pc = NextPc(at, operator[o].to)
      /\ after.locks = operator[o].locks \cup dropped
      /\ after.at = at /\ after.read = operator[o].read /\ after.to = operator[o].to
      /\ after.wrote
  BY <1>1, <1>2, <1>4, <1>7 DEF OperatorStates, NextPc
<1> HIDE DEF after
<1>9. OnItsWay(o)'
  <2>1. operator[o].to \in 0 .. 7 /\ (Up(o) <=> operator[o].at < operator[o].to)
    BY <1>3 DEF Up
  <2>2. CASE Up(o)
    BY <1>3, <1>6, <1>7, <1>8, <2>1, <2>2 DEF OnItsWay, Migrating, NextPc
  <2>3. CASE ~Up(o)
    BY <1>3, <1>6, <1>7, <1>8, <2>1, <2>3 DEF OnItsWay, Migrating, NextPc
  <2> QED
    BY <2>2, <2>3
<1>10. EmptyAndLocked(o)'
  <2>1. operator'[o].pc \notin {"check", "apply"}
    BY <1>6, <1>8 DEF NextPc
  <2>2. ASSUME NEW i \in at + 1 .. operator[o].read
        PROVE  /\ Migrations[i].creates \cup Migrations[i].emptyDown \subseteq operator[o].locks \cup dropped
               /\ rows \cap Migrations[i].emptyDown = {}
    <3>1. CASE i \in GoneBack(o)
      BY <1>1, <3>1 DEF EmptyAndLocked
    <3>2. CASE i \notin GoneBack(o)
      <4>1. ~Up(o) /\ i = operator[o].at
        BY <1>3, <1>7, <3>2 DEF GoneBack
      <4>2. /\ MustBeEmpty(o) = Migrations[i].emptyDown /\ dropped = Migrations[i].creates
            /\ MustBeEmpty(o) \subseteq operator[o].locks /\ rows \cap MustBeEmpty(o) = {}
        BY <1>1, <1>3, <1>11, <4>1 DEF EmptyAndLocked
      <4> QED
        BY <4>2
    <3> QED
      BY <3>1, <3>2
  <2> QED
    BY <1>5, <1>6, <1>8, <2>1, <2>2 DEF EmptyAndLocked, GoneBack
<1>12. \A c \in Clients : client[c].writes \notin after.locks
  BY <1>5, <1>8 DEF Unlocked, SchemaInv, InsertsStand
<1> QED
  BY <1>5, <1>8, <1>9, <1>10, <1>12, CommandMoves

\* What the commit of a migration makes of the tables: those an insert is open into and
\* those with protected rows are still there.
LEMMA CommitKeeps ==
  ASSUME SchemaInv, NEW o \in Operators, operator[o].pc = "commit", operator[o].wrote
  PROVE  /\ operator[o].at \in Revisions /\ operator[o].read = revision
         /\ \A c \in Clients : client[c].writes # "none" => client[c].writes \in TablesAt(operator[o].at)
         /\ rows \cap Protected(revision) \subseteq TablesAt(operator[o].at)
<1>1. operator[o] \in OperatorStates /\ OnItsWay(o) /\ EmptyAndLocked(o)
  BY DEF SchemaInv, SchemaTypeOK, OperatorStates
<1>2. Revisions = 0 .. 7 /\ CodeHead = 7 /\ revision \in Revisions /\ operator[o].read = revision
  BY SevenRevisions DEF SchemaInv, SchemaTypeOK, OneWriter, Revisions
<1>3. operator[o].at \in 0 .. 7
  BY <1>1, <1>2 DEF OperatorStates
<1> DEFINE at == operator[o].at
<1>4. /\ revision <= at => TablesAt(revision) \subseteq TablesAt(at)
      /\ TablesAt(revision) \subseteq TablesAt(at) \cup UNION {Migrations[i].creates : i \in at + 1 .. revision}
  BY <1>2, <1>3, TablesGrow
<1>5. \A i \in at + 1 .. revision :
        Migrations[i].creates \subseteq operator[o].locks /\ rows \cap Migrations[i].emptyDown = {}
  BY <1>1, <1>2 DEF EmptyAndLocked, GoneBack
<1>6. ASSUME NEW c \in Clients, client[c].writes # "none" PROVE client[c].writes \in TablesAt(at)
  BY <1>4, <1>5, <1>6 DEF SchemaInv, InsertsStand
<1>7. ASSUME NEW t \in rows \cap Protected(revision) PROVE t \in TablesAt(at)
  <2>1. PICK i \in 1 .. revision : t \in Migrations[i].emptyDown
    BY DEF Protected
  <2>2. i \notin at + 1 .. revision
    BY <1>5, <2>1
  <2>3. i \in 1 .. 7 /\ i <= at
    BY <1>2, <1>3, <2>2
  <2>4. t \in TablesAt(i) /\ TablesAt(i) \subseteq TablesAt(at)
    BY <1>2, <1>3, <2>1, <2>3, SevenRevisions, TablesGrow
  <2> QED
    BY <2>4
<1> QED
  BY <1>2, <1>3, <1>6, <1>7

\* The commit of a migration, or the end of one that had nothing to do.
LEMMA CommitStep ==
  ASSUME SchemaInv, NEW o \in Operators, CommitMigration(o)
  PROVE  SchemaInv' /\ rows \cap Protected(revision) \subseteq rows'
<1> DEFINE pc == IF operator[o].reset THEN "verify" ELSE "idle"
           after == [IdleOperator EXCEPT !.pc = pc]
<1>1. operator[o] \in OperatorStates /\ operator[o].pc = "commit" /\ client' = client
  BY DEF SchemaInv, SchemaTypeOK, OperatorStates, CommitMigration, OperatorAt
<1>2. pc \in {"idle", "verify"} /\ operator' = [operator EXCEPT ![o] = after]
  BY DEF CommitMigration, IdleOperator
<1> HIDE DEF pc
<1>3. CASE ~operator[o].wrote
  <2>1. UNCHANGED <<revision, rows, client>>
    BY <1>1, <1>3 DEF CommitMigration
  <2> QED
    BY <1>2, <2>1, IdleMoves
<1>4. CASE operator[o].wrote
  <2>1. revision' = operator[o].at /\ rows' = rows \cap TablesAt(operator[o].at)
    BY <1>4 DEF CommitMigration
  <2>2. /\ operator[o].at \in Revisions /\ operator[o].read = revision
        /\ \A c \in Clients : client[c].writes # "none" => client[c].writes \in TablesAt(operator[o].at)
        /\ rows \cap Protected(revision) \subseteq TablesAt(operator[o].at)
    BY <1>1, <1>4, CommitKeeps
  <2>3. 0 \in Revisions
    BY SevenRevisions DEF Revisions
  <2>4. after \in OperatorStates /\ after.locks = {} /\ ~after.wrote /\ after.at = 0 /\ after.read = 0
        /\ after.pc = pc /\ after = [IdleOperator EXCEPT !.pc = after.pc]
    BY <1>2, <2>3 DEF IdleOperator, OperatorStates
  <2> HIDE DEF after
  <2>5. /\ operator' \in [Operators -> OperatorStates] /\ operator'[o] = after
        /\ \A p \in Operators \ {o} : operator'[p] = operator[p]
    BY <1>2, <2>4 DEF SchemaInv, SchemaTypeOK, OperatorStates
  <2>6. \A p \in Operators \ {o} : ~operator[p].wrote
    BY <1>4 DEF SchemaInv, OneWriter
  <2>7. SchemaTypeOK'
    BY <1>1, <2>1, <2>2, <2>5 DEF SchemaInv, SchemaTypeOK, OperatorStates
  <2>8. InsertsStand'
    BY <1>1, <2>1, <2>2, <2>4, <2>5 DEF SchemaInv, InsertsStand
  <2>9. OneWriter'
    BY <2>4, <2>5, <2>6 DEF OneWriter
  <2>10. ASSUME NEW p \in Operators PROVE OnItsWay(p)' /\ EmptyAndLocked(p)'
    <3>1. CASE p = o
      <4>1. OnItsWay(o)'
        BY <1>2, <2>4, <2>5 DEF OnItsWay, Migrating
      <4>2. EmptyAndLocked(o)'
        BY <1>2, <2>4, <2>5 DEF EmptyAndLocked, GoneBack
      <4> QED
        BY <3>1, <4>1, <4>2
    <3>2. CASE p # o
      <4>1. OnItsWay(p) /\ EmptyAndLocked(p) /\ operator'[p] = operator[p] /\ rows' \subseteq rows
        BY <2>1, <2>5, <3>2 DEF SchemaInv
      <4>2. OnItsWay(p)'
        BY <4>1 DEF OnItsWay, Migrating
      <4>3. EmptyAndLocked(p)'
        BY <4>1 DEF EmptyAndLocked, MustBeEmpty, RevisionStep, Up, GoneBack
      <4> QED
        BY <4>2, <4>3
    <3> QED
      BY <3>1, <3>2
  <2>11. rows \cap Protected(revision) \subseteq rows'
    BY <2>1, <2>2
  <2> QED
    BY <2>7, <2>8, <2>9, <2>10, <2>11 DEF SchemaInv
<1> QED
  BY <1>3, <1>4 DEF SchemaInv

\* DROP SCHEMA waits for every other transaction that holds a table.
LEMMA DropStep ==
  ASSUME SchemaInv, NEW o \in Operators, DropPublic(o)
  PROVE  SchemaInv'
<1> DEFINE after == [operator[o] EXCEPT !.pc = "upgrade"]
<1>1. /\ operator[o] \in OperatorStates /\ operator[o].pc = "drop" /\ client' = client
      /\ revision' = 0 /\ rows' = {} /\ operator' = [operator EXCEPT ![o] = after]
      /\ \A p \in Operators \ {o} : operator[p].locks = {} /\ ~operator[p].wrote
      /\ Unlocked(o, TablesAt(revision))
  BY DEF SchemaInv, SchemaTypeOK, OperatorStates, DropPublic, OperatorAt
<1>2. operator[o] = [IdleOperator EXCEPT !.pc = "drop"]
  BY <1>1 DEF SchemaInv, OnItsWay, Migrating
<1>3. after = [IdleOperator EXCEPT !.pc = "upgrade"] /\ 0 \in Revisions
  <2>1. [[IdleOperator EXCEPT !.pc = "drop"] EXCEPT !.pc = "upgrade"] = [IdleOperator EXCEPT !.pc = "upgrade"]
    BY DEF IdleOperator
  <2> QED
    BY <1>2, <2>1, SevenRevisions DEF Revisions
<1>4. after \in OperatorStates /\ after.locks = {} /\ ~after.wrote /\ after.at = 0 /\ after.read = 0
      /\ after.pc = "upgrade" /\ after = [IdleOperator EXCEPT !.pc = after.pc]
  BY <1>3 DEF IdleOperator, OperatorStates
<1> HIDE DEF after
<1>5. /\ operator' \in [Operators -> OperatorStates] /\ operator'[o] = after
      /\ \A p \in Operators \ {o} : operator'[p] = operator[p]
  BY <1>1, <1>4 DEF SchemaInv, SchemaTypeOK, OperatorStates
<1>6. \A c \in Clients : client[c].writes = "none"
  BY <1>1 DEF Unlocked, SchemaInv, InsertsStand
<1>7. SchemaTypeOK'
  BY <1>1, <1>3, <1>5 DEF SchemaInv, SchemaTypeOK, OperatorStates
<1>8. InsertsStand'
  BY <1>1, <1>4, <1>5, <1>6 DEF InsertsStand
<1>9. OneWriter'
  BY <1>1, <1>4, <1>5 DEF OneWriter
<1>10. ASSUME NEW p \in Operators PROVE OnItsWay(p)' /\ EmptyAndLocked(p)'
  <2>1. CASE p = o
    <3>1. OnItsWay(o)'
      BY <1>4, <1>5 DEF OnItsWay, Migrating
    <3>2. EmptyAndLocked(o)'
      BY <1>4, <1>5 DEF EmptyAndLocked, GoneBack
    <3> QED
      BY <2>1, <3>1, <3>2
  <2>2. CASE p # o
    <3>1. OnItsWay(p) /\ EmptyAndLocked(p) /\ operator'[p] = operator[p] /\ rows' \subseteq rows
      BY <1>1, <1>5, <2>2 DEF SchemaInv
    <3>2. OnItsWay(p)'
      BY <3>1 DEF OnItsWay, Migrating
    <3>3. EmptyAndLocked(p)'
      BY <3>1 DEF EmptyAndLocked, MustBeEmpty, RevisionStep, Up, GoneBack
    <3> QED
      BY <3>2, <3>3
  <2> QED
    BY <2>1, <2>2
<1> QED
  BY <1>7, <1>8, <1>9, <1>10 DEF SchemaInv

\* A step of the application.
LEMMA ClientMoves ==
  ASSUME SchemaInv, NEW c \in Clients, ClientStep(c)
  PROVE  SchemaInv' /\ rows \subseteq rows'
<1>1. revision' = revision /\ operator' = operator /\ rows \subseteq rows'
      /\ rows' \subseteq rows \cup ({client[c].writes} \ {"none"})
  BY DEF ClientStep, StartClient, StopClient, CommitInsert, Insert
<1>2. PICK release \in Revisions, t \in Followed \cup {"none"} :
        /\ client' = [client EXCEPT ![c] = [release |-> release, writes |-> t]]
        /\ t = "none" \/ t = client[c].writes
             \/ (t \in TablesAt(revision) /\ \A o \in Operators : t \notin operator[o].locks)
  <2>0. client[c] \in [release : Revisions, writes : Followed \cup {"none"}] /\ 0 \in Revisions
    BY SevenRevisions DEF SchemaInv, SchemaTypeOK, Revisions
  <2>1. CASE StartClient(c)
    <3>1. PICK code \in Revisions : client' = [client EXCEPT ![c].release = code]
      BY <2>1 DEF StartClient
    <3>2. client' = [client EXCEPT ![c] = [release |-> code, writes |-> client[c].writes]]
      <4>1. [client[c] EXCEPT !.release = code] = [release |-> code, writes |-> client[c].writes]
        BY <2>0
      <4> QED
        BY <3>1, <4>1
    <3> QED
      BY <2>0, <3>2
  <2>2. CASE StopClient(c)
    BY <2>0, <2>2 DEF StopClient
  <2>3. CASE CommitInsert(c)
    <3>1. client' = [client EXCEPT ![c] = [release |-> client[c].release, writes |-> "none"]]
      <4>1. [client[c] EXCEPT !.writes = "none"] = [release |-> client[c].release, writes |-> "none"]
        BY <2>0
      <4> QED
        BY <2>3, <4>1 DEF CommitInsert
    <3> QED
      BY <2>0, <3>1
  <2>4. ASSUME NEW t \in Followed, Insert(c, t) PROVE
          \E release \in Revisions, s \in Followed \cup {"none"} :
            /\ client' = [client EXCEPT ![c] = [release |-> release, writes |-> s]]
            /\ s = "none" \/ s = client[c].writes
                 \/ (s \in TablesAt(revision) /\ \A o \in Operators : s \notin operator[o].locks)
    <3>1. /\ client' = [client EXCEPT ![c] = [release |-> client[c].release, writes |-> t]]
          /\ t \in TablesAt(revision) /\ \A o \in Operators : t \notin operator[o].locks
      <4>1. [client[c] EXCEPT !.writes = t] = [release |-> client[c].release, writes |-> t]
        BY <2>0
      <4> QED
        BY <2>4, <4>1 DEF Insert, Fits
    <3> QED
      BY <2>0, <3>1
  <2> QED
    BY <2>1, <2>2, <2>3, <2>4 DEF ClientStep
<1>3. revision \in Revisions /\ "none" \notin TablesAt(CodeHead)
      /\ \A o \in Operators : operator[o].locks \subseteq TablesAt(CodeHead)
  <2>1. CodeHead \in Revisions
    BY SevenRevisions DEF Revisions
  <2>2. operator \in [Operators -> OperatorStates] /\ revision \in Revisions
    BY DEF SchemaInv, SchemaTypeOK, OperatorStates
  <2>3. \A o \in Operators : operator[o].locks \subseteq TablesAt(CodeHead)
    BY <2>2 DEF OperatorStates
  <2> QED
    BY <2>1, <2>2, <2>3, TablesGrow
<1>4. ASSUME NEW s \in rows' PROVE s \in TablesAt(revision) /\ (s \notin rows => \A o \in Operators : s \notin operator[o].locks)
  BY <1>1 DEF SchemaInv, SchemaTypeOK, InsertsStand
<1>5. SchemaTypeOK'
  BY <1>1, <1>2, <1>4 DEF SchemaInv, SchemaTypeOK
<1>6. \A d \in Clients : client'[d].writes = "none" \/ (\E e \in Clients : client'[d].writes = client[e].writes)
        \/ (client'[d].writes \in TablesAt(revision) /\ \A o \in Operators : client'[d].writes \notin operator[o].locks)
  BY <1>2 DEF SchemaInv, SchemaTypeOK
<1>7. InsertsStand'
  BY <1>1, <1>3, <1>6 DEF SchemaInv, InsertsStand
<1>8. OneWriter'
  BY <1>1 DEF SchemaInv, OneWriter
<1>9. ASSUME NEW o \in Operators PROVE OnItsWay(o)' /\ EmptyAndLocked(o)'
  <2>1. OnItsWay(o) /\ EmptyAndLocked(o)
    BY DEF SchemaInv
  <2>2. OnItsWay(o)'
    BY <1>1, <2>1 DEF OnItsWay, Migrating
  <2>3. \A tables : tables \subseteq operator[o].locks /\ rows \cap tables = {} => rows' \cap tables = {}
    BY <1>4
  <2>4. EmptyAndLocked(o)'
    <3>1. MustBeEmpty(o)' = MustBeEmpty(o) /\ GoneBack(o)' = GoneBack(o)
      BY <1>1 DEF MustBeEmpty, RevisionStep, Up, GoneBack
    <3>2. operator'[o].pc = "apply" => rows' \cap MustBeEmpty(o) = {}
      BY <1>1, <2>1, <2>3 DEF EmptyAndLocked
    <3>3. ASSUME NEW i \in GoneBack(o)
          PROVE  /\ Migrations[i].creates \cup Migrations[i].emptyDown \subseteq operator[o].locks
                 /\ rows' \cap Migrations[i].emptyDown = {}
      <4>1. /\ Migrations[i].creates \cup Migrations[i].emptyDown \subseteq operator[o].locks
            /\ rows \cap Migrations[i].emptyDown = {}
        BY <2>1 DEF EmptyAndLocked
      <4> QED
        BY <2>3, <4>1
    <3> QED
      BY <1>1, <2>1, <3>1, <3>2, <3>3 DEF EmptyAndLocked
  <2> QED
    BY <2>2, <2>4
<1> QED
  BY <1>1, <1>5, <1>7, <1>8, <1>9 DEF SchemaInv

\* Every step preserves the invariant and the protected rows, but for a confirmed reset.
LEMMA SchemaKeeps ==
  ASSUME SchemaInv, [SchemaNext]_schemaVars
  PROVE  /\ SchemaInv'
         /\ (\E o \in Operators : DropPublic(o)) \/ rows \cap Protected(revision) \subseteq rows'
<1>1. ASSUME NEW o \in Operators, OperatorStep(o)
      PROVE  SchemaInv' /\ (DropPublic(o) \/ rows \cap Protected(revision) \subseteq rows')
  <2>1. CASE Migrate(o)
    BY <2>1, BeginsStep, SchemaAssumption DEF Migrate
  <2>2. CASE LockTables(o) \/ CheckEmpty(o) \/ ApplyStep(o)
    BY <2>2, LockStep, CheckStep, ApplyKeeps DEF LockTables, CheckEmpty, ApplyStep
  <2>3. CASE CommitMigration(o)
    BY <2>3, CommitStep
  <2>4. CASE CommandFails(o) \/ ResetEnds(o)
    <3>1. operator' = [operator EXCEPT ![o] = [IdleOperator EXCEPT !.pc = "idle"]] /\ UNCHANGED <<revision, rows, client>>
      BY <2>4 DEF CommandFails, ResetEnds, IdleOperator
    <3> QED
      BY <3>1, IdleMoves
  <2>5. CASE ConfirmReset(o)
    <3>1. operator[o] = [IdleOperator EXCEPT !.pc = "idle"] /\ operator' = [operator EXCEPT ![o].pc = "drop"]
          /\ UNCHANGED <<revision, rows, client>>
      BY <2>5 DEF ConfirmReset, OperatorAt, SchemaInv, OnItsWay, Migrating
    <3>2. operator' = [operator EXCEPT ![o] = [IdleOperator EXCEPT !.pc = "drop"]]
      BY <3>1 DEF IdleOperator
    <3> QED
      BY <3>1, <3>2, IdleMoves
  <2>6. CASE DropPublic(o)
    BY <2>6, DropStep
  <2>7. CASE UpgradeToHead(o)
    <3>1. CodeHead \in Revisions
      BY SevenRevisions DEF Revisions
    <3>2. Transaction(o, CodeHead, TRUE) /\ UNCHANGED <<revision, rows, client>>
      BY <2>7 DEF UpgradeToHead
    <3> QED
      BY <3>1, <3>2, BeginsStep
  <2> QED
    BY <1>1, <2>1, <2>2, <2>3, <2>4, <2>5, <2>6, <2>7 DEF OperatorStep
<1>2. ASSUME NEW c \in Clients, ClientStep(c) PROVE SchemaInv' /\ rows \subseteq rows'
  BY <1>2, ClientMoves
<1>3. CASE UNCHANGED schemaVars
  BY <1>3 DEF schemaVars, SchemaInv, SchemaTypeOK, InsertsStand, OneWriter, OnItsWay, Migrating, EmptyAndLocked,
              MustBeEmpty, RevisionStep, Up, GoneBack
<1> QED
  BY <1>1, <1>2, <1>3 DEF SchemaNext

\* An empty database satisfies the invariant.
LEMMA SchemaBegins == SchemaInit => SchemaInv
<1> SUFFICES ASSUME SchemaInit PROVE SchemaInv
  OBVIOUS
<1>1. 0 \in Revisions
  BY SevenRevisions DEF Revisions
<1>2. IdleOperator \in OperatorStates /\ IdleOperator = [IdleOperator EXCEPT !.pc = IdleOperator.pc]
      /\ IdleOperator.locks = {} /\ ~IdleOperator.wrote /\ IdleOperator.pc = "idle" /\ IdleOperator.at = 0 /\ IdleOperator.read = 0
  BY <1>1 DEF IdleOperator, OperatorStates
<1>3. \A o \in Operators : operator[o] = IdleOperator
  BY DEF SchemaInit
<1>4. SchemaTypeOK
  BY <1>1, <1>2 DEF SchemaInit, SchemaTypeOK, OperatorStates
<1>5. InsertsStand /\ OneWriter
  BY <1>2, <1>3 DEF SchemaInit, InsertsStand, OneWriter
<1>6. \A o \in Operators : OnItsWay(o) /\ EmptyAndLocked(o)
  <2> TAKE o \in Operators
  <2>1. OnItsWay(o)
    BY <1>2, <1>3 DEF OnItsWay, Migrating
  <2>2. GoneBack(o) = {}
    BY <1>2, <1>3 DEF GoneBack
  <2> QED
    BY <1>2, <1>3, <2>1, <2>2 DEF EmptyAndLocked
<1> QED
  BY <1>4, <1>5, <1>6 DEF SchemaInv

\* It holds for ever.
LEMMA SchemaInvariant == SchemaSpec => []SchemaInv
<1>1. SchemaInv /\ [SchemaNext]_schemaVars => SchemaInv'
  BY SchemaKeeps
<1> QED
  BY <1>1, SchemaBegins, PTL DEF SchemaSpec

\* For any number of operators and processes, any targets and any tables that are followed:
\* whichever commands run at the same time and whatever the application writes meanwhile, the
\* lock taken before a table is looked at, and kept until the commit, lets no migration lose a
\* row the revisions protect (0001 to 0007); only a confirmed reset of schema_control does.
THEOREM ProtectedRowsStay == SchemaSpec => MigrationsKeepRows
<1>1. SchemaInv /\ [SchemaNext]_schemaVars
        => [(\E o \in Operators : DropPublic(o)) \/ rows \cap Protected(revision) \subseteq rows']_schemaVars
  BY SchemaKeeps
<1> QED
  BY <1>1, SchemaInvariant, PTL DEF SchemaSpec, MigrationsKeepRows

-----------------------------------------------------------------------------
(* The paired evaluation *)

Modes == {"mock", "vertex"}
StepStates == {"planned", "submitted", "completed", "failed"}
Places == {"idle", "load", "create", "work", "post", "record", "deleted"}

PilotTyped ==
  /\ manifest \in [mode : Modes, lifecycle : Lifecycles, at : [PilotSteps -> StepStates]]
  /\ directory \in BOOLEAN
  /\ ledger \in [PilotSteps -> {"none", "reserved", "succeeded", "failed"}]
  /\ cleanup \subseteq Arms /\ scores \subseteq Arms
  /\ decision \in {"none", "proceed", "stop", "revise"}
  /\ backend \in [Arms -> {"none", "running", "completed", "failed", "deleted"}]
  /\ sent \in [PilotSteps -> Nat]
  /\ pilot \in [pc : Places, mode : Modes, keep : BOOLEAN]

-----------------------------------------------------------------------------
(* The invariant *)

\* Before there is a manifest nothing was sent.
NothingYet ==
  manifest.lifecycle = "absent" =>
    /\ \A s \in PilotSteps : ledger[s] = "none" /\ sent[s] = 0
    /\ \A a \in Arms : backend[a] = "none"
    /\ decision = "none"

\* A generator at work has a manifest of its mode that is open; without one it is creating it.
AtWork ==
  /\ pilot.pc \in {"work", "post", "record", "deleted"} =>
       manifest.mode = pilot.mode /\ manifest.lifecycle \in {"generating", "scoring"}
  /\ pilot.pc = "create" => manifest.lifecycle = "absent"

\* The step that is asked for is planned, and in the ledger of a real run, not yet sent.
Asking ==
  /\ pilot.pc \in {"post", "record"} => \A s \in PilotSteps : IsNext(s) => manifest.at[s] = "planned"
  /\ pilot.pc = "post" /\ Real => \A s \in PilotSteps : IsNext(s) => ledger[s] = "reserved" /\ sent[s] = 0

\* The ledger of a real run knows of every request, and of no second one.
LedgerKnows ==
  manifest.mode = "vertex" =>
    /\ \A s \in PilotSteps : sent[s] <= 1
    /\ \A s \in PilotSteps : ledger[s] = "none" => sent[s] = 0
    /\ \A s \in PilotSteps : ledger[s] = "succeeded" => sent[s] = 1

\* What the ledger has committed stays below the stop.
WithinBudget == Committed({s \in PilotSteps : ledger[s] # "none"}) <= StopAt

\* Scoring begins when every step is complete, and the summary when every arm is scored.
Progress ==
  /\ manifest.lifecycle \in {"scoring", "summarizing", "completed"} =>
       \A s \in PilotSteps : manifest.at[s] = "completed"
  /\ manifest.lifecycle \in {"summarizing", "completed"} => scores = Arms

\* A decision stays what it rests on, also when the run is closed afterwards.
DecisionRests ==
  decision # "none" =>
    /\ manifest.mode = "vertex" /\ manifest.lifecycle \in {"completed", "failed"}
    /\ \A s \in PilotSteps : sent[s] = 1 /\ manifest.at[s] = "completed"
    /\ scores = Arms

\* A job is deleted when its outcome is in the manifest.
DeletedIsRecorded == \A a \in Arms : backend[a] = "deleted" => manifest.at[a] \in {"completed", "failed"}

\* The inductive invariant.
PilotInv ==
  /\ PilotTyped /\ NothingYet /\ AtWork /\ Asking /\ LedgerKnows /\ WithinBudget
  /\ Progress /\ DecisionRests /\ DeletedIsRecorded

-----------------------------------------------------------------------------
(* Steps and costs *)

\* The generator resumes at one step.
LEMMA OneNext ==
  ASSUME NEW s \in PilotSteps, NEW t \in PilotSteps, IsNext(s), IsNext(t)
  PROVE  s = t
<1>1. PICK i \in 1 .. Len(Plan) : s = Plan[i] /\ ~Settled(s) /\ \A k \in 1 .. i - 1 : Settled(Plan[k])
  BY DEF IsNext
<1>2. PICK j \in 1 .. Len(Plan) : t = Plan[j] /\ ~Settled(t) /\ \A k \in 1 .. j - 1 : Settled(Plan[k])
  BY DEF IsNext
<1>3. i \in Int /\ j \in Int /\ 1 <= i /\ 1 <= j
  OBVIOUS
<1>4. CASE i < j
  <2>1. i \in 1 .. j - 1
    BY <1>3, <1>4
  <2> QED
    BY <1>1, <1>2, <2>1
<1>5. CASE j < i
  <2>1. j \in 1 .. i - 1
    BY <1>3, <1>5
  <2> QED
    BY <1>1, <1>2, <2>1
<1>6. CASE i = j
  BY <1>1, <1>2, <1>6
<1> QED
  BY <1>3, <1>4, <1>5, <1>6

\* The steps of a run are finite.
LEMMA StepsFinite == IsFiniteSet(PilotSteps)
<1>1. IsFiniteSet(1 .. Cases)
  BY FS_Interval, PilotAssumption
<1>2. IsFiniteSet(Kinds)
  <2>1. Kinds = {"enhance"} \cup {"raw"} \cup {"enhanced"}
    BY DEF Kinds
  <2> QED
    BY <2>1, FS_Singleton, FS_Union
<1> QED
  BY <1>1, <1>2, FS_Product DEF PilotSteps

\* Fewer steps cost no more.
LEMMA CostGrows ==
  ASSUME NEW S \in SUBSET PilotSteps, NEW T \in SUBSET S
  PROVE  Committed(T) \in Nat /\ Committed(S) \in Nat /\ Committed(T) <= Committed(S)
<1> DEFINE a == Cardinality(T \cap Arms)
           b == Cardinality(S \cap Arms)
           c == Cardinality(T \ Arms)
           d == Cardinality(S \ Arms)
<1>1. IsFiniteSet(S \cap Arms) /\ IsFiniteSet(S \ Arms)
  <2>1. S \cap Arms \in SUBSET PilotSteps /\ S \ Arms \in SUBSET PilotSteps
    OBVIOUS
  <2> QED
    BY <2>1, StepsFinite, FS_Subset
<1>2. a \in Nat /\ b \in Nat /\ a <= b
  <2>1. T \cap Arms \in SUBSET (S \cap Arms)
    OBVIOUS
  <2> QED
    BY <1>1, <2>1, FS_Subset, FS_CardinalityType
<1>3. c \in Nat /\ d \in Nat /\ c <= d
  <2>1. T \ Arms \in SUBSET (S \ Arms)
    OBVIOUS
  <2> QED
    BY <1>1, <2>1, FS_Subset, FS_CardinalityType
<1>4. Committed(T) = a * ImageCost + c * EnhancementCost /\ Committed(S) = b * ImageCost + d * EnhancementCost
  BY DEF Committed
<1> HIDE DEF a, b, c, d
<1>5. \A x, y, z \in Nat : x <= y => x * z \in Nat /\ y * z \in Nat /\ x * z <= y * z
  OBVIOUS
<1>6. a * ImageCost \in Nat /\ b * ImageCost \in Nat /\ a * ImageCost <= b * ImageCost
  BY <1>2, <1>5, PilotAssumption
<1>7. c * EnhancementCost \in Nat /\ d * EnhancementCost \in Nat /\ c * EnhancementCost <= d * EnhancementCost
  BY <1>3, <1>5, PilotAssumption
<1> QED
  BY <1>4, <1>6, <1>7

\* Nothing costs nothing.
LEMMA NothingCosts == Committed({}) = 0
<1>1. {} \cap Arms = {} /\ {} \ Arms = {}
  OBVIOUS
<1>2. Committed({}) = Cardinality({}) * ImageCost + Cardinality({}) * EnhancementCost
  BY <1>1 DEF Committed
<1> QED
  BY <1>2, FS_EmptySet, PilotAssumption

-----------------------------------------------------------------------------
(* The invariant is inductive *)

\* Nothing was done at the start.
LEMMA PilotBegins == PilotInit => PilotInv
<1> SUFFICES ASSUME PilotInit PROVE PilotInv
  OBVIOUS
<1>1. PilotTyped
  BY DEF PilotInit, PilotTyped, NoRun, Modes, StepStates, Places, Lifecycles
<1>2. WithinBudget
  <2>1. {s \in PilotSteps : ledger[s] # "none"} = {}
    BY DEF PilotInit
  <2> QED
    BY <2>1, NothingCosts, PilotAssumption DEF WithinBudget
<1>3. NothingYet /\ AtWork /\ Asking /\ LedgerKnows /\ Progress /\ DecisionRests /\ DeletedIsRecorded
  BY DEF PilotInit, NoRun, NothingYet, AtWork, Asking, LedgerKnows, Progress, DecisionRests,
     DeletedIsRecorded, Arms
<1> QED
  BY <1>1, <1>2, <1>3 DEF PilotInv

\* The next step stays the same while no checkpoint, cleanup or option changes.
LEMMA NextSame ==
  ASSUME manifest'.at = manifest.at, cleanup' = cleanup, pilot'.keep = pilot.keep
  PROVE  \A s \in PilotSteps : IsNext(s)' <=> IsNext(s)
<1>1. \A s : Settled(s)' <=> Settled(s)
  BY DEF Settled
<1> QED
  BY <1>1 DEF IsNext

\* An error of the generator closes a real run and ends the command.
LEMMA AbortStep ==
  ASSUME PilotInv, Abort, UNCHANGED <<backend, scores, decision, sent, ledger>>, cleanup' = cleanup
  PROVE  PilotInv'
<1>1. /\ pilot' = [pilot EXCEPT !.pc = "idle"]
      /\ manifest' = manifest \/ manifest' = [manifest EXCEPT !.lifecycle = "failed"]
      /\ manifest.lifecycle = "absent" => manifest' = manifest
      /\ directory' \in BOOLEAN
  BY DEF Abort, Go, Closed, PilotInv, PilotTyped
<1>2. PilotTyped'
  BY <1>1 DEF PilotInv, PilotTyped, Modes, Lifecycles, Places
<1>3. pilot'.pc = "idle" /\ manifest'.at = manifest.at /\ manifest'.mode = manifest.mode
      /\ manifest'.lifecycle \in {manifest.lifecycle, "failed"}
      /\ (manifest'.lifecycle = "absent" => manifest.lifecycle = "absent")
  BY <1>1 DEF PilotInv, PilotTyped
<1>4. AtWork' /\ Asking'
  BY <1>3 DEF AtWork, Asking
<1>5. NothingYet' /\ LedgerKnows' /\ WithinBudget'
  BY <1>3 DEF PilotInv, NothingYet, LedgerKnows, WithinBudget, Committed
<1>6. Progress' /\ DecisionRests' /\ DeletedIsRecorded'
  BY <1>3 DEF PilotInv, Progress, DecisionRests, DeletedIsRecorded
<1> QED
  BY <1>2, <1>4, <1>5, <1>6 DEF PilotInv

\* The start of the generator and its crash.
LEMMA StartStep ==
  ASSUME PilotInv,
         \/ \E mode \in Modes, keep \in BOOLEAN : Launch(mode, keep)
         \/ LoadFails \/ LoadManifest \/ CreateManifest \/ PilotCrash
  PROVE  PilotInv'
<1> USE DEF PilotInv
<1>1. ASSUME NEW mode \in Modes, NEW keep \in BOOLEAN, Launch(mode, keep) PROVE PilotInv'
  <2>1. pilot' = [pc |-> "load", mode |-> mode, keep |-> keep] /\ pilot'.pc = "load"
    BY <1>1 DEF Launch
  <2>2. PilotTyped' /\ AtWork' /\ Asking'
    BY <1>1, <2>1 DEF Launch, PilotTyped, AtWork, Asking, Places
  <2>3. NothingYet' /\ LedgerKnows' /\ WithinBudget' /\ Progress' /\ DecisionRests' /\ DeletedIsRecorded'
    BY <1>1 DEF Launch, NothingYet, LedgerKnows, WithinBudget, Committed, Progress, DecisionRests,
       DeletedIsRecorded
  <2> QED
    BY <2>2, <2>3
<1>2. CASE LoadFails
  BY <1>2, AbortStep DEF LoadFails
<1>3. ASSUME NEW pc \in Places, pilot' = [pilot EXCEPT !.pc = pc],
             UNCHANGED <<manifest, ledger, cleanup, backend, sent, scores, decision>>, directory' \in BOOLEAN,
             \/ pc = "idle"
             \/ pc = "create" /\ manifest.lifecycle = "absent"
             \/ pc = "work" /\ manifest.mode = pilot.mode /\ manifest.lifecycle \in {"generating", "scoring"}
      PROVE  PilotInv'
  <2>1. pilot'.pc = pc /\ pilot'.mode = pilot.mode
    BY <1>3 DEF PilotTyped
  <2>2. PilotTyped'
    BY <1>3 DEF PilotTyped
  <2>3. AtWork' /\ Asking'
    BY <1>3, <2>1 DEF AtWork, Asking
  <2>4. NothingYet' /\ LedgerKnows' /\ WithinBudget' /\ Progress' /\ DecisionRests' /\ DeletedIsRecorded'
    BY <1>3 DEF NothingYet, LedgerKnows, WithinBudget, Committed, Progress, DecisionRests,
       DeletedIsRecorded
  <2> QED
    BY <2>2, <2>3, <2>4
<1>4. CASE LoadManifest
  <2>1. manifest.lifecycle \in Lifecycles
    BY DEF PilotTyped
  <2>2. \/ manifest.lifecycle = "absent" /\ Go("create")
        \/ manifest.lifecycle = "completed" /\ Go("idle")
        \/ /\ manifest.lifecycle \in {"generating", "scoring"} /\ manifest.mode = pilot.mode
           /\ Go("work")
    BY <1>4, <2>1 DEF LoadManifest, CanLoad, Lifecycles
  <2> QED
    BY <1>3, <1>4, <2>2 DEF LoadManifest, Go, Places
<1>5. CASE CreateManifest
  <2>1. /\ pilot' = [pilot EXCEPT !.pc = "work"]
        /\ manifest' = [NoRun EXCEPT !.mode = pilot.mode, !.lifecycle = "generating"]
        /\ manifest.lifecycle = "absent"
    BY <1>5 DEF CreateManifest, Go, PilotAt, AtWork
  <2>2. /\ pilot'.pc = "work" /\ pilot'.mode = pilot.mode /\ manifest'.mode = pilot.mode
        /\ manifest'.lifecycle = "generating"
    BY <2>1 DEF PilotTyped, NoRun
  <2>3. PilotTyped'
    <3>1. manifest' = [mode |-> pilot.mode, lifecycle |-> "generating", at |-> [s \in PilotSteps |-> "planned"]]
      BY <2>1 DEF NoRun
    <3>2. pilot.mode \in Modes /\ "generating" \in Lifecycles
          /\ [s \in PilotSteps |-> "planned"] \in [PilotSteps -> StepStates]
      BY DEF PilotTyped, Lifecycles, StepStates
    <3>3. manifest' \in [mode : Modes, lifecycle : Lifecycles, at : [PilotSteps -> StepStates]]
      BY <3>1, <3>2
    <3>4. pilot' \in [pc : Places, mode : Modes, keep : BOOLEAN]
      BY <2>1 DEF PilotTyped, Places
    <3> QED
      BY <1>5, <3>3, <3>4 DEF CreateManifest, PilotTyped
  <2>4. NothingYet' /\ AtWork' /\ Asking' /\ Progress'
    BY <2>2 DEF NothingYet, AtWork, Asking, Progress
  <2>5. LedgerKnows' /\ WithinBudget' /\ DecisionRests' /\ DeletedIsRecorded'
    BY <1>5, <2>1 DEF CreateManifest, NothingYet, LedgerKnows, WithinBudget, Committed, DecisionRests,
       DeletedIsRecorded
  <2> QED
    BY <2>3, <2>4, <2>5
<1>6. CASE PilotCrash
  BY <1>3, <1>6 DEF PilotCrash, Go, Places, PilotTyped
<1> QED
  BY <1>1, <1>2, <1>4, <1>5, <1>6

\* The ledger has a request before it is sent.
LEMMA ReserveStep ==
  ASSUME PilotInv, NEW s \in PilotSteps, Reserve(s)
  PROVE  PilotInv'
<1> USE DEF PilotInv
<1>1. CASE Abort /\ UNCHANGED ledger
  BY <1>1, AbortStep DEF Reserve
<1>2. CASE ~(Abort /\ UNCHANGED ledger)
  <2>1. /\ pilot.pc = "work" /\ IsNext(s) /\ manifest.at[s] = "planned"
        /\ Real => MayReserve(s)
        /\ pilot' = [pilot EXCEPT !.pc = "post"]
        /\ ledger' = IF Real THEN [ledger EXCEPT ![s] = "reserved"] ELSE ledger
        /\ manifest' = [manifest EXCEPT !.lifecycle = "generating"]
        /\ directory' = directory
        /\ UNCHANGED <<cleanup, backend, sent, scores, decision>>
    BY <1>2 DEF Reserve, PilotAt, Go
  <2>2. /\ pilot'.pc = "post" /\ pilot'.mode = pilot.mode /\ pilot'.keep = pilot.keep
        /\ manifest'.at = manifest.at /\ manifest'.mode = manifest.mode /\ manifest'.lifecycle = "generating"
    BY <2>1 DEF PilotTyped
  <2>3. manifest.lifecycle \in {"generating", "scoring"} /\ manifest.mode = pilot.mode
    BY <2>1 DEF AtWork
  <2>4. PilotTyped'
    BY <2>1 DEF PilotTyped, Lifecycles, Places
  <2>5. \A t \in PilotSteps : IsNext(t)' => t = s
    BY <2>1, <2>2, NextSame, OneNext
  <2>6. Asking'
    <3>1. Real => ledger'[s] = "reserved" /\ sent'[s] = 0
      BY <2>1, <2>3 DEF MayReserve, Real, LedgerKnows, PilotTyped
    <3> QED
      BY <2>1, <2>2, <2>5, <3>1 DEF Asking, Real
  <2>7. WithinBudget'
    <3>1. CASE Real
      <4>1. {t \in PilotSteps : ledger'[t] # "none"} = {t \in PilotSteps : ledger[t] # "none"} \cup {s}
        BY <2>1, <3>1 DEF PilotTyped
      <4> QED
        BY <2>1, <3>1, <4>1 DEF WithinBudget, MayReserve, Committed
    <3>2. CASE ~Real
      BY <2>1, <3>2 DEF WithinBudget, Committed
    <3> QED
      BY <3>1, <3>2
  <2>8. LedgerKnows'
    BY <2>1, <2>2, <2>3 DEF LedgerKnows, PilotTyped
  <2>9. NothingYet' /\ AtWork' /\ Progress' /\ DecisionRests' /\ DeletedIsRecorded'
    BY <2>1, <2>2, <2>3 DEF NothingYet, AtWork, Progress, DecisionRests, DeletedIsRecorded
  <2> QED
    BY <2>4, <2>6, <2>7, <2>8, <2>9
<1> QED
  BY <1>1, <1>2

\* What the backend makes of a request that is under way.
LEMMA ReceivedMeans ==
  ASSUME PilotInv, pilot.pc = "post", NEW s \in PilotSteps, IsNext(s), Received(s)
  PROVE  /\ sent' \in [PilotSteps -> Nat] /\ sent'[s] = sent[s] + 1
         /\ backend' \in [Arms -> {"none", "running", "completed", "failed", "deleted"}]
         /\ \A t \in PilotSteps : t # s => sent'[t] = sent[t]
         /\ \A a \in Arms : backend'[a] = "deleted" => backend[a] = "deleted"
  BY DEF PilotInv, PilotTyped, Received

\* The answer to a request, its failure, and a crash while it is under way.
LEMMA PostStep ==
  ASSUME PilotInv, NEW s \in PilotSteps, PostAnswered(s) \/ PostFails(s) \/ PostCrash(s)
  PROVE  PilotInv'
<1> USE DEF PilotInv
<1>1. pilot.pc = "post" /\ IsNext(s) /\ manifest.mode = pilot.mode
      /\ manifest.lifecycle \in {"generating", "scoring"} /\ manifest.at[s] = "planned"
  BY DEF PostAnswered, PostFails, PostCrash, PilotAt, AtWork, Asking
<1>2. Real => ledger[s] = "reserved" /\ sent[s] = 0
  BY <1>1 DEF Asking
<1>3. sent' \in [PilotSteps -> Nat] /\ backend' \in [Arms -> {"none", "running", "completed", "failed", "deleted"}]
      /\ (\A t \in PilotSteps : t # s => sent'[t] = sent[t])
      /\ (\A a \in Arms : backend'[a] = "deleted" => backend[a] = "deleted")
  BY <1>1, ReceivedMeans DEF PostAnswered, PostFails, PostCrash, PilotTyped
<1>4. Real => sent'[s] \in {0, 1}
  BY <1>1, <1>2, ReceivedMeans DEF PostAnswered, PostFails, PostCrash
<1>5. Real /\ PostAnswered(s) => sent'[s] = 1
  BY <1>1, <1>2, ReceivedMeans DEF PostAnswered
<1>6. PICK status \in {"reserved", "succeeded", "failed"} :
        /\ ledger' = IF Real THEN [ledger EXCEPT ![s] = status] ELSE ledger
        /\ status = "succeeded" => PostAnswered(s)
  <2>1. CASE PostAnswered(s)
    BY <2>1 DEF PostAnswered
  <2>2. CASE PostFails(s)
    BY <2>2 DEF PostFails
  <2>3. CASE PostCrash(s)
    <3>1. ledger' = ledger
      BY <2>3 DEF PostCrash
    <3>2. Real => ledger = [ledger EXCEPT ![s] = "reserved"]
      BY <1>2 DEF PilotTyped
    <3> QED
      BY <3>1, <3>2
  <2> QED
    BY <2>1, <2>2, <2>3
<1>7. /\ manifest'.at = manifest.at /\ manifest'.mode = manifest.mode
      /\ manifest'.lifecycle \in {manifest.lifecycle, "failed"}
      /\ manifest' \in [mode : Modes, lifecycle : Lifecycles, at : [PilotSteps -> StepStates]]
      /\ directory' \in BOOLEAN
      /\ PostAnswered(s) => manifest' = manifest
      /\ UNCHANGED <<cleanup, scores, decision>>
  BY DEF PostAnswered, PostFails, PostCrash, Abort, Closed, PilotTyped, Lifecycles
<1>8. \/ PostAnswered(s) /\ pilot' = [pilot EXCEPT !.pc = "record"]
      \/ pilot' = [pilot EXCEPT !.pc = "idle"]
  BY DEF PostAnswered, PostFails, PostCrash, Abort, Go
<1>9. pilot'.pc \in {"record", "idle"} /\ pilot'.mode = pilot.mode /\ pilot'.keep = pilot.keep
      /\ (pilot'.pc = "record" => PostAnswered(s)) /\ pilot' \in [pc : Places, mode : Modes, keep : BOOLEAN]
  BY <1>8 DEF PilotTyped, Places
<1>10. PilotTyped'
  BY <1>3, <1>6, <1>7, <1>9 DEF PilotTyped
<1>11. AtWork'
  BY <1>1, <1>7, <1>9 DEF AtWork
<1>12. Asking'
  <2>1. \A t \in PilotSteps : IsNext(t)' => t = s
    BY <1>1, <1>7, <1>9, NextSame, OneNext
  <2> QED
    BY <1>1, <1>7, <1>9, <2>1 DEF Asking
<1>13. LedgerKnows'
  <2> SUFFICES ASSUME manifest.mode = "vertex", NEW t \in PilotSteps
               PROVE  sent'[t] <= 1 /\ (ledger'[t] = "none" => sent'[t] = 0)
                      /\ (ledger'[t] = "succeeded" => sent'[t] = 1)
    BY <1>7 DEF LedgerKnows
  <2>1. Real /\ ledger' = [ledger EXCEPT ![s] = status]
    BY <1>1, <1>6 DEF Real
  <2>2. CASE t = s
    BY <1>4, <1>5, <1>6, <2>1, <2>2 DEF PilotTyped
  <2>3. CASE t # s
    BY <1>3, <2>1, <2>3 DEF LedgerKnows, PilotTyped
  <2> QED
    BY <2>2, <2>3
<1>14. WithinBudget'
  <2>1. {t \in PilotSteps : ledger'[t] # "none"} = {t \in PilotSteps : ledger[t] # "none"}
    BY <1>2, <1>6 DEF PilotTyped
  <2> QED
    BY <2>1 DEF WithinBudget, Committed
<1>15. NothingYet' /\ Progress' /\ DecisionRests' /\ DeletedIsRecorded'
  BY <1>1, <1>3, <1>7 DEF NothingYet, Progress, DecisionRests, DeletedIsRecorded
<1> QED
  BY <1>10, <1>11, <1>12, <1>13, <1>14, <1>15

\* A checkpoint moves a step forward, and no job of it was deleted before its outcome.
LEMMA CheckpointStep ==
  ASSUME PilotInv, NEW s \in PilotSteps, NEW status \in {"submitted", "completed", "failed"},
         NEW lifecycle \in {manifest.lifecycle, "failed"}, NEW pc \in {"work", "idle"},
         pilot.pc \in {"work", "record"}, manifest.at[s] \in {"planned", "submitted"},
         manifest' = [manifest EXCEPT !.lifecycle = lifecycle, !.at[s] = status],
         pilot' = [pilot EXCEPT !.pc = pc], pc = "work" => lifecycle = manifest.lifecycle,
         UNCHANGED <<directory, ledger, sent, scores, decision>>,
         cleanup' \subseteq Arms,
         backend' \in [Arms -> {"none", "running", "completed", "failed", "deleted"}],
         \A a \in Arms : backend'[a] = "deleted" /\ backend[a] # "deleted" => a = s /\ status = "failed"
  PROVE  PilotInv'
<1> USE DEF PilotInv
<1>1. manifest.mode = pilot.mode /\ manifest.lifecycle \in {"generating", "scoring"}
  BY DEF AtWork
<1>2. /\ manifest'.mode = manifest.mode /\ manifest'.lifecycle = lifecycle
      /\ \A t \in PilotSteps : manifest'.at[t] = IF t = s THEN status ELSE manifest.at[t]
      /\ pilot'.pc = pc /\ pilot'.mode = pilot.mode
  BY DEF PilotTyped
<1>3. PilotTyped'
  <2>1. lifecycle \in Lifecycles /\ status \in StepStates /\ pc \in Places
    BY DEF PilotTyped, Lifecycles, StepStates, Places
  <2>2. manifest' \in [mode : Modes, lifecycle : Lifecycles, at : [PilotSteps -> StepStates]]
    BY <2>1 DEF PilotTyped
  <2>3. pilot' \in [pc : Places, mode : Modes, keep : BOOLEAN]
    BY <2>1 DEF PilotTyped
  <2> QED
    BY <2>2, <2>3 DEF PilotTyped
<1>4. ~(\A t \in PilotSteps : manifest.at[t] = "completed")
  OBVIOUS
<1>5. manifest.lifecycle = "generating" /\ decision = "none"
  BY <1>1, <1>4 DEF Progress, DecisionRests
<1>6. AtWork' /\ Asking' /\ NothingYet' /\ Progress' /\ DecisionRests'
  BY <1>1, <1>2, <1>5 DEF AtWork, Asking, NothingYet, Progress, DecisionRests
<1>7. LedgerKnows' /\ WithinBudget'
  BY <1>2 DEF LedgerKnows, WithinBudget, Committed
<1>8. DeletedIsRecorded'
  BY <1>2 DEF DeletedIsRecorded, Arms
<1> QED
  BY <1>3, <1>6, <1>7, <1>8

\* A step that touches neither manifest nor ledger, and deletes only what is recorded.
LEMMA QuietStep ==
  ASSUME PilotInv, NEW pc \in Places,
         UNCHANGED <<manifest, directory, ledger, sent, decision>>,
         pilot' = [pilot EXCEPT !.pc = pc], pc \notin {"create", "post", "record"} \/ pc = pilot.pc,
         pc \in {"work", "deleted"} => pilot.pc \in {"work", "deleted"},
         pc = pilot.pc => cleanup' = cleanup,
         cleanup' \subseteq Arms, scores \subseteq scores', scores' \subseteq Arms,
         backend' \in [Arms -> {"none", "running", "completed", "failed", "deleted"}],
         manifest.lifecycle = "absent" => backend' = backend,
         \A a \in Arms : backend'[a] = "deleted" /\ backend[a] # "deleted" => manifest.at[a] = "completed"
  PROVE  PilotInv'
<1> USE DEF PilotInv
<1>1. pilot'.pc = pc /\ pilot'.mode = pilot.mode /\ pilot'.keep = pilot.keep
  BY DEF PilotTyped
<1>2. PilotTyped'
  BY DEF PilotTyped
<1>3. AtWork'
  BY <1>1 DEF AtWork
<1>4. Asking'
  <2>1. CASE pc = pilot.pc
    <3>1. \A s \in PilotSteps : IsNext(s)' <=> IsNext(s)
      BY <1>1, <2>1, NextSame
    <3> QED
      BY <1>1, <2>1, <3>1 DEF Asking, Real
  <2>2. CASE pc \notin {"post", "record"}
    BY <1>1, <2>2 DEF Asking
  <2> QED
    BY <2>1, <2>2
<1>5. NothingYet' /\ LedgerKnows' /\ WithinBudget'
  BY DEF NothingYet, LedgerKnows, WithinBudget, Committed
<1>6. Progress' /\ DecisionRests' /\ DeletedIsRecorded'
  BY DEF Progress, DecisionRests, DeletedIsRecorded
<1> QED
  BY <1>2, <1>3, <1>4, <1>5, <1>6

\* Answers, jobs and cleanup.
LEMMA WorkStep ==
  ASSUME PilotInv,
         \/ \E s \in PilotSteps : Record(s) \/ AnswerMismatch(s)
         \/ \E a \in Arms : BackendEnds(a) \/ Collect(a) \/ JobFailed(a) \/ PollFails(a) \/ DeleteJob(a)
                            \/ RecordCleanup(a)
  PROVE  PilotInv'
<1> USE DEF PilotInv
<1>0. Arms \subseteq PilotSteps /\ manifest.at \in [PilotSteps -> StepStates]
      /\ backend \in [Arms -> {"none", "running", "completed", "failed", "deleted"}]
      /\ pilot.pc \in Places /\ pilot \in [pc : Places, mode : Modes, keep : BOOLEAN]
  BY DEF Arms, PilotTyped
<1>1. ASSUME NEW s \in PilotSteps, Record(s) PROVE PilotInv'
  <2>1. manifest.at[s] = "planned" /\ pilot.pc = "record"
    BY <1>1 DEF Record, PilotAt, Asking
  <2>2. PICK status \in {"submitted", "completed"} : manifest' = [manifest EXCEPT !.at[s] = status]
    BY <1>1 DEF Record, Checkpoint
  <2>3. manifest' = [manifest EXCEPT !.lifecycle = manifest.lifecycle, !.at[s] = status]
    BY <2>2 DEF PilotTyped
  <2>4. pilot' = [pilot EXCEPT !.pc = "work"] /\ UNCHANGED <<directory, ledger, cleanup, backend, sent, scores, decision>>
    BY <1>1 DEF Record, Go
  <2>5. cleanup' \subseteq Arms
    BY <2>4 DEF PilotTyped
  <2> QED
    BY <1>0, <2>1, <2>3, <2>4, <2>5, CheckpointStep
<1>2. ASSUME NEW s \in PilotSteps, AnswerMismatch(s) PROVE PilotInv'
  BY <1>2, AbortStep DEF AnswerMismatch
<1>3. ASSUME NEW a \in Arms, BackendEnds(a) PROVE PilotInv'
  <2>1. pilot' = [pilot EXCEPT !.pc = pilot.pc]
    BY <1>0, <1>3 DEF BackendEnds
  <2>2. backend' \in [Arms -> {"none", "running", "completed", "failed", "deleted"}]
        /\ \A b \in Arms : backend'[b] = "deleted" => backend[b] = "deleted"
    BY <1>0, <1>3 DEF BackendEnds
  <2>3. manifest.lifecycle # "absent"
    BY <1>3 DEF BackendEnds, NothingYet
  <2> QED
    BY <1>0, <1>3, <2>1, <2>2, <2>3, QuietStep DEF BackendEnds, PilotTyped
<1>4. ASSUME NEW a \in Arms, Collect(a) PROVE PilotInv'
  <2>1. manifest' = [manifest EXCEPT !.lifecycle = manifest.lifecycle, !.at[a] = "completed"]
        /\ pilot' = [pilot EXCEPT !.pc = "work"] /\ pilot.pc = "work" /\ manifest.at[a] = "submitted"
    BY <1>0, <1>4 DEF Collect, Checkpoint, PilotAt, PilotTyped
  <2>2. UNCHANGED <<directory, ledger, cleanup, backend, sent, scores, decision>> /\ cleanup' \subseteq Arms
    BY <1>4 DEF Collect, PilotTyped
  <2> QED
    BY <1>0, <2>1, <2>2, CheckpointStep
<1>5. ASSUME NEW a \in Arms, JobFailed(a) PROVE PilotInv'
  <2>1. manifest' = [manifest EXCEPT !.lifecycle = "failed", !.at[a] = "failed"]
        /\ pilot' = [pilot EXCEPT !.pc = "idle"] /\ pilot.pc = "work" /\ manifest.at[a] = "submitted"
        /\ UNCHANGED <<directory, ledger, sent, scores, decision>>
    BY <1>5 DEF JobFailed, PilotAt, Go
  <2>2. backend' = [backend EXCEPT ![a] = "deleted"] \/ backend' = backend
    BY <1>5 DEF JobFailed
  <2>3. cleanup' \subseteq Arms
    <3>1. cleanup' = cleanup \cup {a} \/ cleanup' = cleanup
      BY <1>5 DEF JobFailed
    <3> QED
      BY <3>1 DEF PilotTyped
  <2>4. backend' \in [Arms -> {"none", "running", "completed", "failed", "deleted"}]
        /\ \A b \in Arms : backend'[b] = "deleted" /\ backend[b] # "deleted" => b = a
    BY <1>0, <2>2
  <2> QED
    BY <1>0, <2>1, <2>3, <2>4, CheckpointStep
<1>6. ASSUME NEW a \in Arms, PollFails(a) PROVE PilotInv'
  BY <1>6, AbortStep DEF PollFails
<1>7. ASSUME NEW a \in Arms, DeleteJob(a) PROVE PilotInv'
  <2>1. pilot' = [pilot EXCEPT !.pc = "deleted"] /\ pilot.pc = "work" /\ manifest.at[a] = "completed"
        /\ UNCHANGED <<manifest, directory, ledger, cleanup, sent, scores, decision>>
    BY <1>7 DEF DeleteJob, PilotAt, Go
  <2>2. backend' \in [Arms -> {"none", "running", "completed", "failed", "deleted"}]
        /\ \A b \in Arms : backend'[b] = "deleted" /\ backend[b] # "deleted" => b = a
    BY <1>0, <1>7 DEF DeleteJob
  <2>3. manifest.lifecycle # "absent"
    BY <2>1 DEF AtWork
  <2> QED
    BY <2>1, <2>2, <2>3, QuietStep DEF PilotTyped, Places
<1>8. ASSUME NEW a \in Arms, RecordCleanup(a) PROVE PilotInv'
  <2>1. pilot' = [pilot EXCEPT !.pc = "work"] /\ pilot.pc \in {"work", "deleted"}
        /\ UNCHANGED <<manifest, directory, ledger, backend, sent, scores, decision>>
        /\ cleanup' \subseteq Arms
    BY <1>8 DEF RecordCleanup, PilotAt, Go, PilotTyped
  <2>2. AtWork' /\ Asking'
    BY <2>1 DEF AtWork, Asking, PilotTyped
  <2>3. PilotTyped'
    BY <2>1 DEF PilotTyped, Places
  <2>4. NothingYet' /\ LedgerKnows' /\ WithinBudget' /\ Progress' /\ DecisionRests' /\ DeletedIsRecorded'
    BY <2>1 DEF NothingYet, LedgerKnows, WithinBudget, Committed, Progress, DecisionRests, DeletedIsRecorded
  <2> QED
    BY <2>2, <2>3, <2>4
<1> QED
  BY <1>1, <1>2, <1>3, <1>4, <1>5, <1>6, <1>7, <1>8

\* Pairs, scores, summary and decision.
LEMMA DownstreamStep ==
  ASSUME PilotInv,
         WritePairs \/ (\E a \in Arms : ScoreArm(a)) \/ ScoreMock \/ CloseScoring \/ Summarize \/ Finalize
  PROVE  PilotInv'
<1> USE DEF PilotInv
<1>1. ASSUME pilot.pc = "idle", NEW scored \in SUBSET Arms, scores \subseteq scored, scores' = scored,
             UNCHANGED <<manifest, directory, ledger, cleanup, backend, sent, pilot, decision>>
      PROVE  PilotInv'
  <2>1. pilot' = [pilot EXCEPT !.pc = "idle"]
    BY <1>1 DEF PilotTyped
  <2>2. "idle" \in Places
    BY DEF Places
  <2> QED
    BY <1>1, <2>1, <2>2, QuietStep DEF PilotTyped
<1>2. ASSUME NEW a \in Arms, ScoreArm(a) PROVE PilotInv'
  <2>1. scores \cup {a} \in SUBSET Arms
    BY DEF PilotTyped
  <2> QED
    BY <1>1, <1>2, <2>1 DEF ScoreArm, Downstream, PilotAt
<1>3. CASE ScoreMock
  BY <1>1, <1>3 DEF ScoreMock, Downstream, PilotAt, PilotTyped
<1>4. ASSUME NEW lifecycle \in {"scoring", "summarizing", "completed"},
             manifest' = [manifest EXCEPT !.lifecycle = lifecycle], pilot' = [pilot EXCEPT !.pc = "idle"],
             UNCHANGED <<directory, ledger, cleanup, backend, sent, scores, decision>>,
             manifest.lifecycle \in {"generating", "scoring", "summarizing"},
             \A s \in PilotSteps : manifest.at[s] = "completed",
             lifecycle \in {"summarizing", "completed"} => scores = Arms
      PROVE  PilotInv'
  <2>1. /\ manifest'.lifecycle = lifecycle /\ manifest'.at = manifest.at /\ manifest'.mode = manifest.mode
        /\ pilot'.pc = "idle"
    BY <1>4 DEF PilotTyped
  <2>2. PilotTyped'
    BY <1>4 DEF PilotTyped, Lifecycles, Places
  <2>3. AtWork' /\ Asking' /\ NothingYet' /\ Progress' /\ DecisionRests'
    BY <1>4, <2>1 DEF AtWork, Asking, NothingYet, Progress, DecisionRests
  <2>4. LedgerKnows' /\ WithinBudget' /\ DeletedIsRecorded'
    BY <1>4, <2>1 DEF LedgerKnows, WithinBudget, Committed, DeletedIsRecorded
  <2> QED
    BY <2>2, <2>3, <2>4
<1>5. CASE WritePairs
  <2>1. manifest.lifecycle \in {"generating", "scoring"} /\ \A s \in PilotSteps : manifest.at[s] = "completed"
    BY <1>5 DEF WritePairs, PilotAt, AtWork, Finished, Settled
  <2> QED
    BY <1>4, <1>5, <2>1 DEF WritePairs, Go
<1>6. CASE CloseScoring \/ Summarize
  <2>1. pilot' = [pilot EXCEPT !.pc = "idle"]
    BY <1>6 DEF CloseScoring, Summarize, Downstream, PilotAt, PilotTyped
  <2>2. \A s \in PilotSteps : manifest.at[s] = "completed"
    BY <1>6 DEF CloseScoring, Summarize, Downstream, Progress
  <2>3. CASE CloseScoring
    BY <1>4, <2>1, <2>2, <2>3 DEF CloseScoring, Downstream
  <2>4. CASE Summarize
    BY <1>4, <2>1, <2>2, <2>4 DEF Summarize, Downstream, Progress
  <2> QED
    BY <1>6, <2>3, <2>4
<1>7. CASE Finalize
  <2>1. /\ manifest.mode = "vertex" /\ manifest.lifecycle = "completed" /\ UsageComplete
        /\ decision' \in {"proceed", "stop", "revise"}
        /\ UNCHANGED <<manifest, directory, ledger, cleanup, backend, sent, pilot, scores>>
    BY <1>7 DEF Finalize, Downstream, Recommendation
  <2>2. DecisionRests'
    BY <2>1 DEF DecisionRests, LedgerKnows, UsageComplete, Progress
  <2>3. PilotTyped' /\ AtWork' /\ NothingYet' /\ LedgerKnows' /\ WithinBudget' /\ Progress' /\ DeletedIsRecorded'
    BY <2>1 DEF PilotTyped, AtWork, NothingYet, LedgerKnows, WithinBudget, Committed, Progress, DeletedIsRecorded
  <2>4. Asking'
    BY <2>1, NextSame DEF Asking, Real
  <2> QED
    BY <2>2, <2>3, <2>4
<1> QED
  BY <1>2, <1>3, <1>5, <1>6, <1>7

\* Every step of the evaluation keeps the invariant.
LEMMA PilotKeeps == PilotInv /\ [PilotNext]_pilotVars => PilotInv'
<1> SUFFICES ASSUME PilotInv, [PilotNext]_pilotVars PROVE PilotInv'
  OBVIOUS
<1>1. CASE UNCHANGED pilotVars
  <2>1. PilotTyped' /\ AtWork' /\ NothingYet' /\ LedgerKnows' /\ WithinBudget'
    BY <1>1 DEF PilotInv, pilotVars, PilotTyped, AtWork, NothingYet, LedgerKnows, WithinBudget, Committed
  <2>2. Progress' /\ DecisionRests' /\ DeletedIsRecorded'
    BY <1>1 DEF PilotInv, pilotVars, Progress, DecisionRests, DeletedIsRecorded
  <2>3. Asking'
    BY <1>1, NextSame DEF PilotInv, pilotVars, Asking, Real
  <2> QED
    BY <2>1, <2>2, <2>3 DEF PilotInv
<1>2. CASE \/ \E mode \in Modes, keep \in BOOLEAN : Launch(mode, keep)
           \/ LoadFails \/ LoadManifest \/ CreateManifest \/ PilotCrash
  BY <1>2, StartStep
<1>3. ASSUME NEW s \in PilotSteps, StepOf(s) PROVE PilotInv'
  BY <1>3, ReserveStep, PostStep, WorkStep DEF StepOf
<1>4. ASSUME NEW a \in Arms, ArmStep(a) PROVE PilotInv'
  BY <1>4, WorkStep, DownstreamStep DEF ArmStep
<1>5. CASE WritePairs \/ ScoreMock \/ CloseScoring \/ Summarize \/ Finalize
  BY <1>5, DownstreamStep
<1> QED
  BY <1>1, <1>2, <1>3, <1>4, <1>5 DEF PilotNext, Modes

\* The invariant holds throughout a run.
LEMMA PilotInvariant == PilotSpec => []PilotInv
<1> QED
  BY PilotBegins, PilotKeeps, PTL DEF PilotSpec

-----------------------------------------------------------------------------
(* The theorems *)

\* However many cases a run has, whatever it costs and wherever its commands crash: the
\* provider is asked once per step and within the stop of the budget, a decision rests on one
\* request per step and on complete and scored arms, and jobs are deleted after their outcome
\* is recorded (pilot_usage.py with generate_pairs.py and finalize_vertex_pilot.py).
THEOREM RunsAreAccountable == PilotSpec => []PilotIsAccountable
<1>1. ASSUME PilotInv PROVE PilotIsAccountable
  <2> USE <1>1 DEF PilotInv
  <2>1. ASSUME manifest.mode = "vertex" PROVE Committed({s \in PilotSteps : sent[s] > 0}) <= StopAt
    <3> DEFINE asked == {s \in PilotSteps : sent[s] > 0}
               known == {s \in PilotSteps : ledger[s] # "none"}
    <3>1. asked \subseteq known /\ known \in SUBSET PilotSteps
      BY <2>1 DEF LedgerKnows, PilotTyped
    <3>2. Committed(known) <= StopAt
      BY DEF WithinBudget
    <3>3. Committed(asked) \in Nat /\ Committed(known) \in Nat /\ Committed(asked) <= Committed(known)
      BY <3>1, CostGrows
    <3> HIDE DEF asked, known
    <3>4. Committed(asked) <= StopAt
      BY <3>2, <3>3, PilotAssumption
    <3> QED
      BY <3>4 DEF asked
  <2> QED
    BY <2>1 DEF PilotIsAccountable, LedgerKnows, DecisionRests, DeletedIsRecorded
<1> QED
  BY <1>1, PilotInvariant, PTL

\* No report both proceeds and stops, whatever the margin: that decide_pilot looks at the
\* conditions to proceed first never hides a reason to stop.
THEOREM RulesExclude ==
  ASSUME NEW report \in Reports
  PROVE  ~(Proceeds(report) /\ Stops(report))
<1> DEFINE Figures == [mean : Deltas, low : Deltas, high : Deltas]
<1>1. \A m \in Metrics : report[m] \in Figures /\ report[m].low <= report[m].high
  BY DEF Reports
<1>2. \A m \in Metrics : report[m].low \in Int /\ report[m].high \in Int
  BY <1>1, PilotAssumption
<1>3. {"vqa", "reward", "tifa"} = Metrics
  BY DEF Metrics
<1>4. ~(report["vqa"].high >= 0 /\ report["vqa"].high < 0)
  BY <1>2, <1>3
<1>5. ~(report["tifa"].low >= -Margin /\ report["tifa"].high < -Margin)
  BY <1>1, <1>2, <1>3, PilotAssumption
<1> QED
  BY <1>4, <1>5 DEF Proceeds, Stops

-----------------------------------------------------------------------------
(* The components side by side *)

\* What each of them keeps, whichever a behaviour is about.
ServicesInv == ProviderInv /\ EnhancerInv /\ SchemaInv /\ PilotInv

\* A behaviour of MCServices is one of each component.
LEMMA ServicesKeep == ServicesInv /\ [ServicesNext]_servicesVars => ServicesInv'
<1> SUFFICES ASSUME ServicesInv, [ServicesNext]_servicesVars PROVE ServicesInv'
  OBVIOUS
<1>1. /\ [ProviderNext]_providerVars /\ [EnhancerNext]_enhancerVars
      /\ [SchemaNext]_schemaVars /\ [PilotNext]_pilotVars
  BY DEF ServicesNext, Of, servicesVars
<1> QED
  BY <1>1, ProviderKeeps, EnhancerKeeps, SchemaKeeps, PilotKeeps DEF ServicesInv

\* The limiter and its callers, the enhancement, the schema with its operators, and the
\* evaluation stay within their types, for all values of their constants.
THEOREM ServicesWellTyped == Services => []ServicesTypeOK
<1>1. ServicesInit => ServicesInv
  BY ProviderBegins, EnhancerBegins, SchemaBegins, PilotBegins DEF ServicesInit, ServicesInv
<1>2. ServicesInv => ServicesTypeOK
  <2>1. PilotInv => PilotTypeOK
    BY DEF PilotInv, PilotTyped, PilotTypeOK, Modes, StepStates, Places
  <2>2. EnhancerInv => EnhancerTypeOK
    BY DEF EnhancerInv, EnhancerRun, EnhancerTypeOK
  <2> QED
    BY <2>1, <2>2 DEF ServicesInv, ServicesTypeOK, ProviderInv, SchemaInv
<1> QED
  BY <1>1, <1>2, ServicesKeep, PTL DEF Services

=============================================================================
