------------------------------ MODULE Enhancer ------------------------------
(***************************************************************************)
(* One enhancement as services/llm/enhancer.py runs it: at most three      *)
(* prompts to the model - the base prompt, two repairs of an invalid       *)
(* answer, or one retry for the language - against the plan of tokens the  *)
(* credit reservation was made for.  A prompt is its length, an answer     *)
(* what can be read from it.                                               *)
(***************************************************************************)
EXTENDS Integers

CONSTANTS
  NoText,         \* an absent part of an answer
  Base,           \* bytes of the base prompt
  StrictAdds,     \* bytes of the section STRICT JSON RETRY
  ContractAdds,   \* bytes of the section CONTRACT REPAIR
  LanguageAdds,   \* bytes of the section LANGUAGE RETRY
  MaxOutput,      \* PROMPT_ENHANCEMENT_MAX_OUTPUT_TOKENS
  MaxGroups,      \* PROMPT_ENHANCEMENT_MAX_RESPONSE_GROUPS
  MaxBytes        \* bytes of the longest answer of MaxOutput tokens

ASSUME EnhancerAssumption ==
  /\ Base \in Nat \ {0} /\ MaxOutput \in Nat \ {0} /\ MaxBytes \in Nat
  /\ StrictAdds \in Nat /\ ContractAdds \in Nat /\ LanguageAdds \in Nat
  /\ LanguageAdds <= StrictAdds + ContractAdds
  /\ MaxGroups = 3

VARIABLE enhancement  \* the run of enhance_prompt

enhancerVars == enhancement

-----------------------------------------------------------------------------
(* Prompts and the plan *)

PromptKinds == {"base", "strict", "contract", "language"}

\* _build_prompt: the sections a retry adds to the base prompt.
PromptLength ==
  [kind \in PromptKinds |->
     CASE kind = "base" -> Base
       [] kind = "strict" -> Base + StrictAdds
       [] kind = "contract" -> Base + StrictAdds + ContractAdds
       [] kind = "language" -> Base + LanguageAdds]

\* Mutant: the plan knows of one repair only.
PlannedInputOneRepair == PromptLength["base"] + PromptLength["strict"]

PlannedInput ==
  LET repairs == PromptLength["base"] + PromptLength["strict"] + PromptLength["contract"]
      retry == PromptLength["base"] + PromptLength["language"]
  IN IF repairs >= retry THEN repairs ELSE retry

PlannedOutput == MaxGroups * MaxOutput

-----------------------------------------------------------------------------
(* Languages *)

PromptLanguages == {"ko", "en", "unknown"}

\* By the share of Hangul: enough of it, none of it, or some.
Payloads == {"ko", "en", "mixed"}

Mismatch(language, payload) == language # "unknown" /\ payload # language

-----------------------------------------------------------------------------
(* Answers *)

Strategies == 1 .. 3  \* the whole text, a fenced block, the span of an object

Contents == Payloads \cup {"unparsable", "wrong_schema"}

\* The client parses an answer itself, or leaves its text, or neither.
Answers ==
  [parsed : Payloads \cup {"not_object", "wrong_schema"}, text : {NoText}]
    \cup [parsed : {NoText}, text : {NoText} \cup [Strategies -> Contents]]

\* The first payload that fits the schema, else what is wrong with the text.
PayloadFromText(text) ==
  IF \E s \in Strategies : text[s] \in Payloads
  THEN LET first == CHOOSE s \in Strategies :
                      text[s] \in Payloads /\ \A t \in 1 .. s - 1 : text[t] \notin Payloads
       IN text[first]
  ELSE IF \E s \in Strategies : text[s] = "wrong_schema" THEN "schema_validation_failed"
  ELSE "malformed_json"

ParsedPayload(answer) ==
  IF answer.parsed \in Payloads THEN answer.parsed
  ELSE IF answer.parsed = "not_object" THEN "parsed_payload_not_object"
  ELSE IF answer.parsed = "wrong_schema" THEN "schema_validation_failed"
  ELSE IF answer.text = NoText THEN "missing_text"
  ELSE PayloadFromText(answer.text)

InvalidReasons ==
  {"malformed_json", "missing_text", "parsed_payload_not_object", "schema_validation_failed"}

Readings == {ParsedPayload(answer) : answer \in Answers}

\* _usage_for_response: what the provider reports, or lengths in bytes where it does not.
Usages(kind) ==
  [input : 0 .. PromptLength[kind], output : 0 .. MaxOutput, reported : {TRUE}]
    \cup [input : 0 .. PromptLength[kind], output : 0 .. MaxBytes, reported : {FALSE}]

-----------------------------------------------------------------------------
(* The run *)

EnhancerInit ==
  enhancement = [pc |-> "detect", language |-> "unknown", prompt |-> "base", groups |-> 0,
                 payload |-> NoText, input |-> 0, output |-> 0, reported |-> TRUE]

DetectLanguage(language) ==
  /\ enhancement.pc = "detect"
  /\ enhancement' = [enhancement EXCEPT !.pc = "ask", !.language = language]

\* The mock provider echoes the prompt, in any language, and measures both in bytes.
MockResult(input, output) ==
  /\ enhancement.pc = "detect"
  /\ enhancement' = [enhancement EXCEPT
       !.pc = "done", !.input = input, !.output = output, !.reported = FALSE]

\* The model answers, perhaps after the attempts of with_retry; failed attempts are not counted.
Ask(payload, usage) ==
  /\ enhancement.pc = "ask"
  /\ enhancement' = [enhancement EXCEPT
       !.pc = "read", !.groups = @ + 1, !.payload = payload,
       !.input = @ + usage.input, !.output = @ + usage.output,
       !.reported = @ /\ usage.reported]

AskFails ==
  /\ enhancement.pc = "ask"
  /\ enhancement' = [enhancement EXCEPT !.pc = "failed"]

AskAgain(kind) == enhancement' = [enhancement EXCEPT !.pc = "ask", !.prompt = kind]
Refuse == enhancement' = [enhancement EXCEPT !.pc = "failed"]

\* An invalid answer to the base prompt is asked for again twice, with more advice each time.
ReadInvalid ==
  /\ enhancement.pc = "read" /\ enhancement.payload \in InvalidReasons
  /\ CASE enhancement.prompt = "base" -> AskAgain("strict")
       [] enhancement.prompt = "strict" -> AskAgain("contract")
       [] OTHER -> Refuse

LanguageRetryAllowed == enhancement.prompt # "language" /\ enhancement.groups < MaxGroups

\* A valid answer in the wrong language is asked for once more, within the three.
ReadMismatch ==
  /\ enhancement.pc = "read" /\ enhancement.payload \in Payloads
  /\ Mismatch(enhancement.language, enhancement.payload)
  /\ IF LanguageRetryAllowed THEN AskAgain("language") ELSE Refuse

ReadResult ==
  /\ enhancement.pc = "read" /\ enhancement.payload \in Payloads
  /\ ~Mismatch(enhancement.language, enhancement.payload)
  /\ enhancement' = [enhancement EXCEPT !.pc = "done"]

EnhancerNext ==
  \/ \E language \in PromptLanguages : DetectLanguage(language)
  \/ \E input \in 1 .. Base, output \in 1 .. MaxBytes : MockResult(input, output)
  \/ \E payload \in Readings, usage \in Usages(enhancement.prompt) : Ask(payload, usage)
  \/ AskFails \/ ReadInvalid \/ ReadMismatch \/ ReadResult

EnhancerSpec == EnhancerInit /\ [][EnhancerNext]_enhancerVars

-----------------------------------------------------------------------------
(* Properties *)

\* The run stays within its type.
EnhancerTypeOK ==
  enhancement \in
    [pc : {"detect", "ask", "read", "done", "failed"}, language : PromptLanguages, prompt : PromptKinds,
     groups : Nat, payload : Payloads \cup InvalidReasons \cup {NoText},
     input : Nat, output : Nat, reported : BOOLEAN]

\* Whichever answers are invalid, in the wrong language or repaired on the way, a run uses
\* no more input than the plan its credits were reserved for, and no more output unless
\* an answer had to be measured in bytes.
UsageWithinPlan ==
  /\ enhancement.input <= PlannedInput
  /\ enhancement.reported => enhancement.output <= PlannedOutput

=============================================================================
