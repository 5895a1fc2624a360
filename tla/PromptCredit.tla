---------------------------- MODULE PromptCredit ----------------------------
(***************************************************************************)
(* A prompt enhancement: reserve its price, call the model outside any     *)
(* transaction, then store the result and settle in one transaction - or   *)
(* release.  The client chooses the id of a request and may send it again, *)
(* also while it is under way, so several calls may serve one request.     *)
(* The reservation behind a request is keyed by its owner and its id;      *)
(* CreditLedger says what is behind the states it goes through.            *)
(***************************************************************************)
EXTENDS Integers, FiniteSets

CONSTANTS
  Calls,     \* HTTP calls of POST /api/prompts/enhance
  Requests,  \* request ids
  Users,
  Contents,  \* prompt, mode, model and preset of a call
  Request, Owner, Content,  \* of each call
  Usages,    \* what a result may cost: "fits", "zero", "over" the reservation
  MaxConcurrent,  \* holds a user may have at once
  Budget,    \* bound: how often each kind of disturbance may happen
  None

Disturbances == {"crash", "refusal", "commitUnknown"}

ASSUME CallAssumption ==
  /\ Request \in [Calls -> Requests]
  /\ Owner \in [Calls -> Users]
  /\ Content \in [Calls -> Contents]
  /\ Usages \subseteq {"fits", "zero", "over"}
  /\ MaxConcurrent \in Nat
  /\ Budget \in [Disturbances -> Nat]
  /\ None \notin [owner : Users, content : Contents]

VARIABLES
  hold,    \* per owner and request: the reservation
  stored,  \* per request: its prompt_enhancements row; the id is the primary key
  call,    \* per call: program counter, usage of the result, answer
  asked,   \* per owner and request: times enhance_prompt was run
  budget

vars == <<hold, stored, call, asked, budget>>

Keys == Users \X Requests
Key(c) == <<Owner[c], Request[c]>>

New == [pc |-> "lookup", usage |-> "fits", answer |-> "none"]

Spend(kind) ==
  /\ budget[kind] > 0
  /\ budget' = [budget EXCEPT ![kind] = @ - 1]

At(c, pc) == call[c].pc = pc

Goto(c, pc) == call' = [call EXCEPT ![c].pc = pc]

Answer(c, answer) == call' = [call EXCEPT ![c].pc = "done", ![c].answer = answer]

Init ==
  /\ hold = [k \in Keys |-> "absent"]
  /\ stored = [r \in Requests |-> None]
  /\ call = [c \in Calls |-> New]
  /\ asked = [k \in Keys |-> 0]
  /\ budget = Budget

-----------------------------------------------------------------------------
(* The first transaction: look for a stored result, then reserve. *)

\* Mutant: the content of a repeated request is not compared.
MatchesOwnerOnly(row, c) == row.owner = Owner[c]

Matches(row, c) == row = [owner |-> Owner[c], content |-> Content[c]]

Lookup(c) ==
  LET row == stored[Request[c]]
  IN /\ At(c, "lookup")
     /\ IF row = None THEN Goto(c, "reserve")
        ELSE Answer(c, IF Matches(row, c) THEN "result" ELSE "conflict")
     /\ UNCHANGED <<hold, stored, asked, budget>>

HeldBy(u) == {k \in Keys : k[1] = u /\ hold[k] = "held"}

\* Mutant: whoever finds a hold of its own goes on to the model.
ReserveAgain(c) ==
  /\ At(c, "reserve")
  /\ hold[Key(c)] \in {"absent", "held"}
  /\ hold' = [hold EXCEPT ![Key(c)] = "held"]
  /\ Goto(c, "model")
  /\ UNCHANGED <<stored, asked, budget>>

Reserve(c) ==
  /\ At(c, "reserve")
  /\ hold[Key(c)] = "absent"
  /\ Cardinality(HeldBy(Owner[c])) < MaxConcurrent
  /\ hold' = [hold EXCEPT ![Key(c)] = "held"]
  /\ Goto(c, "model")
  /\ UNCHANGED <<stored, asked, budget>>

\* A busy account refuses whatever there is; too little credit, too many holds, a plan
\* without the meter or a suspended user refuse a new reservation.
ReserveRefused(c) ==
  /\ At(c, "reserve")
  /\ Answer(c, "refused")
  /\ UNCHANGED <<hold, stored, asked, budget>>

Serving(c) == call[c].pc \in {"model", "store", "release"}

\* The reservation was made by a call with another content, whose estimates may differ.
ReservedForAnother(c) ==
  \E d \in Calls :
    /\ Key(d) = Key(c) /\ Content[d] # Content[c]
    /\ Serving(d) \/ call[d].answer \in {"result", "failed", "lost"}

ReserveReplayed(c) ==
  /\ At(c, "reserve")
  /\ hold[Key(c)] # "absent"
  /\ \/ Answer(c, IF hold[Key(c)] = "held" THEN "in_progress" ELSE "terminal")
     \/ ReservedForAnother(c) /\ Answer(c, "conflict")
  /\ UNCHANGED <<hold, stored, asked, budget>>

-----------------------------------------------------------------------------
(* The model, outside any transaction. *)

ModelAnswers(c, usage) ==
  /\ At(c, "model")
  /\ asked' = [asked EXCEPT ![Key(c)] = @ + 1]
  /\ call' = [call EXCEPT ![c].pc = "store", ![c].usage = usage]
  /\ UNCHANGED <<hold, stored, budget>>

\* It fails for good, or its answer reports no token counts: released without usage.
ModelFails(c) ==
  /\ At(c, "model")
  /\ asked' = [asked EXCEPT ![Key(c)] = @ + 1]
  /\ Goto(c, "release")
  /\ UNCHANGED <<hold, stored, budget>>

-----------------------------------------------------------------------------
(* The last transaction: insert the row and settle, or release. *)

CanSettle(c) ==
  /\ stored[Request[c]] = None
  /\ hold[Key(c)] = "held"
  /\ call[c].usage = "fits"

Settled(c) ==
  /\ stored' = [stored EXCEPT ![Request[c]] = [owner |-> Owner[c], content |-> Content[c]]]
  /\ hold' = [hold EXCEPT ![Key(c)] = "settled"]

Store(c) ==
  /\ At(c, "store") /\ CanSettle(c)
  /\ Settled(c)
  /\ Answer(c, "result")
  /\ UNCHANGED <<asked, budget>>

\* Another owner's row has the id, nothing or too much was used, or accounting refuses
\* for a reason of its own: both statements roll back.
StoreFails(c) ==
  /\ At(c, "store")
  /\ \/ ~CanSettle(c) /\ budget' = budget
     \/ Spend("refusal")
  /\ Goto(c, "release")
  /\ UNCHANGED <<hold, stored, asked>>

\* The commit takes effect but its confirmation is lost.
StoreUnconfirmed(c) ==
  /\ At(c, "store") /\ CanSettle(c)
  /\ Spend("commitUnknown")
  /\ Settled(c)
  /\ Goto(c, "release")
  /\ UNCHANGED asked

\* Mutant: a release does not look at the state of the reservation.
CanReleaseAgain(c) == call[c].usage # "over"

\* A release records the usage it is given and refuses more than was reserved.
CanRelease(c) == hold[Key(c)] = "held" /\ call[c].usage # "over"

\* Mutant: a result that could not be stored is kept on hold.
ReleaseForgotten(c) ==
  /\ At(c, "release")
  /\ Answer(c, "failed")
  /\ UNCHANGED <<hold, stored, asked, budget>>

Release(c) ==
  /\ At(c, "release") /\ CanRelease(c)
  /\ hold' = [hold EXCEPT ![Key(c)] = "released"]
  /\ Answer(c, "failed")
  /\ UNCHANGED <<stored, asked, budget>>

\* _release_hold logs whatever goes wrong and returns.
ReleaseFails(c) ==
  /\ At(c, "release")
  /\ \/ ~CanRelease(c) /\ Answer(c, "failed") /\ budget' = budget
     \/ Spend("refusal") /\ Answer(c, "lost")
  /\ UNCHANGED <<hold, stored, asked>>

\* The API process dies, or an exception that no handler expects ends the call. Before
\* the reservation is committed this is the same as a call that was never made.
Crash(c) ==
  /\ Serving(c)
  /\ Spend("crash")
  /\ Answer(c, "lost")
  /\ UNCHANGED <<hold, stored, asked>>

-----------------------------------------------------------------------------

Step(c) ==
  \/ Lookup(c)
  \/ Reserve(c) \/ ReserveRefused(c) \/ ReserveReplayed(c)
  \/ \E usage \in Usages : ModelAnswers(c, usage)
  \/ ModelFails(c)
  \/ Store(c) \/ StoreFails(c) \/ StoreUnconfirmed(c)
  \/ Release(c) \/ ReleaseFails(c)

Next == \E c \in Calls : Step(c) \/ Crash(c)

Spec == Init /\ [][Next]_vars

-----------------------------------------------------------------------------
(* Properties *)

\* Rows and calls stay within their types.
TypeOK ==
  /\ hold \in [Keys -> {"absent", "held", "settled", "released"}]
  /\ stored \in [Requests -> [owner : Users, content : Contents] \cup {None}]
  /\ call \in [Calls -> [pc : {"lookup", "reserve", "model", "store", "release", "done"},
                         usage : {"fits", "zero", "over"},
                         answer : {"none", "result", "conflict", "refused", "in_progress",
                                   "terminal", "failed", "lost"}]]
  /\ asked \in [Keys -> Nat]
  /\ budget \in [Disturbances -> Nat]

\* A user is charged for a request exactly if its result is stored as theirs,
\* whatever crashes, is refused or is sent again on the way - also when the
\* confirmation of the commit that did both is lost.
ChargedIffStored ==
  \A u \in Users, r \in Requests :
    hold[<<u, r>>] = "settled" <=> stored[r] # None /\ stored[r].owner = u

\* A request sent several times reaches the model once: the provider charges for each.
ModelAskedOnce == \A k \in Keys : asked[k] <= 1

\* A call that gets a result gets the stored result of its own user and content, also
\* when ids collide between users or are used again for another prompt.
ResultIsOwn ==
  \A c \in Calls : call[c].answer = "result" =>
    stored[Request[c]] = [owner |-> Owner[c], content |-> Content[c]]

\* A hold belongs to a call that is still under way or that was cut short by a crash or
\* by a refused release; a call that ran to its end leaves no hold behind, which
\* would take one of the user's slots for ever.
HoldHasACall ==
  \A k \in Keys : hold[k] = "held" =>
    \E c \in Calls : Key(c) = k /\ (Serving(c) \/ call[c].answer = "lost")

=============================================================================
