-------------------------- MODULE AskSessionProofs --------------------------
(***************************************************************************)
(* One question to the memory is safe for every set of versions, projects  *)
(* and settings, every price and every number of changes around it: what   *)
(* is sent was permitted, each attempt goes out within its budget, and     *)
(* what is answered may be read.                                           *)
(***************************************************************************)
EXTENDS AskSession, FiniteSetTheorems, TLAPS

(* The money of two records: what is tallied, charged and missed.          *)
SameMoney(r, q) ==
  r.spent = q.spent /\ r.billed = q.billed /\ r.missed = q.missed
NoMoney(r) == r.spent = 0 /\ r.billed = 0 /\ r.missed = 0
USE DEF SameMoney, NoMoney, Tallied

\* The bounds are numbers.
LEMMA Bounds ==
  /\ MaxSpend \in Nat /\ MaxAttempts \in Nat /\ MaxTries \in Nat
  /\ MaxUpsets \in Nat
  /\ 0 \in 0..MaxTries /\ 0 \in 0..MaxAttempts
BY ConstantsAssumption

\* The call limit of a setting is a number.
LEMMA CallLimit == \A s \in Setting : MaxCalls(s) \in Nat
<1> SUFFICES ASSUME NEW s \in Setting PROVE MaxCalls(s) \in Nat
  OBVIOUS
<1> DEFINE S == {"expand", "attribute", "rerank"}
           T == {x \in S : s[x]}
<1>1. IsFiniteSet({"expand"} \union {"attribute"} \union {"rerank"})
  BY FS_EmptySet, FS_Singleton, FS_Union
<1>2. S = {"expand"} \union {"attribute"} \union {"rerank"}
  OBVIOUS
<1>3. IsFiniteSet(S)
  BY <1>1, <1>2
<1>4. T \subseteq S
  OBVIOUS
<1>5. IsFiniteSet(T)
  BY <1>3, <1>4, FS_Subset
<1>6. Cardinality(T) \in Nat
  BY <1>5, FS_CardinalityType
<1> HIDE DEF T, S
<1>7. MaxCalls(s) = IF s.mode = "prose" THEN 4 + Cardinality(T)
                    ELSE IF s.select THEN 6 ELSE 4
  BY DEF MaxCalls, T, S
<1> QED BY <1>6, <1>7

\* Who may read what is a set of versions.
LEMMA Readable ==
  /\ Private \subseteq Version /\ Permitted \subseteq Private
  /\ Permitted \subseteq current
  /\ Authorized \subseteq Version /\ Citable \subseteq Authorized
BY DEF Private, Permitted, Authorized, Citable

\* So is what the prompt carries.
LEMMA PromptType == TypeOK => PromptIds \subseteq Version
BY DEF TypeOK, Request, PromptIds

\* A request that changes these fields of another is a request.
LEMMA CallingType ==
  ASSUME NEW r \in Request, NEW j \in Job
  PROVE  /\ Calling(r, j) \in Request
         /\ Calling(r, j).pc = "call" /\ Calling(r, j).set = r.set
         /\ Calling(r, j).calls = r.calls /\ SameMoney(Calling(r, j), r)
         /\ Calling(r, j).outcome = r.outcome
BY DEF Calling, Request, Place

\* A reply is a request that waits for its job's handler.
LEMMA RepliedType ==
  ASSUME TypeOK, NEW reply \in {"none", "output", "unavailable"}
  PROVE  /\ Replied(reply) \in Request
         /\ Replied(reply).pc = "returned" /\ Replied(reply).set = ask.set
         /\ Replied(reply).calls = ask.calls
         /\ SameMoney(Replied(reply), ask)
         /\ Replied(reply).outcome = ask.outcome
<1> USE Bounds
<1>1. Replied(reply) \in Request
  BY DEF TypeOK, Replied, Request, Place
<1> QED BY <1>1 DEF TypeOK, Replied, Request

\* A new question is a request.
LEMMA NewAskType ==
  ASSUME NEW s \in Setting PROVE NewAsk(s) \in Request
BY ConstantsAssumption DEF NewAsk, Request, Place, Job, Outcome

\* So is one that has ended.
LEMMA EndedType ==
  ASSUME TypeOK, NEW o \in Outcome
  PROVE  /\ Ended(o) \in Request
         /\ Ended(o).pc = "end" /\ Ended(o).set = ask.set
         /\ Ended(o).calls = 0 /\ NoMoney(Ended(o))
         /\ Ended(o).outcome = o
<1>1. ask.set \in Setting
  BY DEF TypeOK, Request
<1>2. NewAsk(ask.set) \in Request
  BY <1>1, NewAskType
<1>3. /\ NewAsk(ask.set).set = ask.set /\ NewAsk(ask.set).calls = 0
      /\ NoMoney(NewAsk(ask.set))
  BY DEF NewAsk
<1> HIDE DEF NewAsk
<1> QED BY <1>2, <1>3 DEF Ended, Request, Place
-----------------------------------------------------------------------------
\* The initial question is in no call and no check.
LEMMA InitIInv == Init => IInv
<1> SUFFICES ASSUME Init PROVE IInv
  OBVIOUS
<1>1. PICK s \in Setting : ask = NewAsk(s)
  BY DEF Init
<1>2. ask \in Request
  BY <1>1, NewAskType
<1>3. /\ ask.pc = "start" /\ ask.set = s /\ ask.calls = 0 /\ NoMoney(ask)
      /\ ask.outcome = "none"
  BY <1>1 DEF NewAsk
<1>4. TypeOK
  BY <1>2, <1>3, Bounds, CallLimit DEF Init, TypeOK, Unbarred
<1>5. CallAllowed
  BY <1>3, Bounds DEF CallAllowed, InCall, Attempting
<1>6. ChecksPassed
  BY <1>3 DEF Init, ChecksPassed, Unbarred, Attempting
<1>7. FinalHolds
  BY <1>3 DEF FinalHolds, DeviceHeld
<1> QED BY <1>4, <1>5, <1>6, <1>7 DEF IInv

\* A step of the request keeps the types when its new record is a request.
LEMMA StepType ==
  ASSUME IInv, Step, ask' \in Request, ask'.calls <= MaxCalls(ask'.set)
  PROVE  TypeOK'
BY DEF IInv, Step, world, TypeOK, Unbarred

\* A step of the request to a place outside the calls and the final check.
LEMMA QuietStep ==
  ASSUME IInv, Step, ask' \in Request, ask'.calls <= MaxCalls(ask'.set),
         ask'.pc \notin InCall \union {"lock", "read", "decided"},
         ask'.pc # "end" => ask'.outcome = "none",
         Tallied(ask')
  PROVE  IInv'
<1>1. TypeOK'
  BY StepType
<1>2. CallAllowed'
  BY DEF CallAllowed, InCall, Attempting
<1>3. ChecksPassed'
  BY DEF Step, Unbarred, ChecksPassed, InCall
<1>4. FinalHolds'
  BY DEF FinalHolds, DeviceHeld
<1> QED BY <1>1, <1>2, <1>3, <1>4 DEF IInv

\* The question's end, whatever its outcome.
LEMMA EndStep ==
  ASSUME IInv, Step, NEW o \in Outcome, ask' = Ended(o) PROVE IInv'
<1>1. TypeOK /\ ask.set \in Setting
  BY DEF IInv, TypeOK, Request
<1>2. /\ ask' \in Request
      /\ ask'.pc = "end" /\ ask'.set = ask.set
      /\ ask'.calls = 0 /\ NoMoney(ask')
  BY <1>1, EndedType
<1>3. ask'.calls <= MaxCalls(ask'.set)
  BY <1>1, <1>2, CallLimit
<1>4. Tallied(ask')
  BY <1>2, Bounds
<1> QED BY <1>2, <1>3, <1>4, QuietStep DEF InCall, Attempting

\* The reply of a call that made none or got none.
LEMMA ReplyStep ==
  ASSUME IInv, Step, ask.pc # "end",
         NEW reply \in {"none", "output", "unavailable"},
         \/ ask' = Replied(reply)
         \/ ask' = [Replied(reply) EXCEPT !.stop = TRUE]
  PROVE  IInv'
<1>1. TypeOK /\ ask.calls <= MaxCalls(ask.set) /\ Tallied(ask)
      /\ ask.outcome = "none"
  BY DEF IInv, TypeOK, CallAllowed, FinalHolds
<1>2. /\ Replied(reply) \in Request
      /\ Replied(reply).pc = "returned" /\ Replied(reply).set = ask.set
      /\ Replied(reply).calls = ask.calls
      /\ SameMoney(Replied(reply), ask)
      /\ Replied(reply).outcome = ask.outcome
  BY <1>1, RepliedType
<1> HIDE DEF Replied
<1>3. /\ ask' \in Request
      /\ ask'.pc = "returned" /\ ask'.set = ask.set
      /\ ask'.calls = ask.calls /\ SameMoney(ask', ask)
      /\ ask'.outcome = ask.outcome
  BY <1>2 DEF Request
<1> QED BY <1>1, <1>3, QuietStep DEF InCall, Attempting
-----------------------------------------------------------------------------
(* What follows a reply: the record with other excerpts, at another place  *)
(* of the loop or in the next call.                                        *)

Continued == {r \in Request : /\ r.calls = ask.calls /\ r.set = ask.set
                              /\ SameMoney(r, ask)
                              /\ r.outcome = ask.outcome}
At(r, p) == [r EXCEPT !.pc = p]
Onward == {Calling(r, j) : r \in Continued, j \in Job} \union
          {At(r, p) : r \in Continued, p \in {"retrieve", "drill", "final"}}

\* The loop's own steps only carry on.
LEMMA OnwardStep ==
  ASSUME IInv, Step, ask.pc # "end", ask' \in Onward
  PROVE  IInv'
<1>1. /\ ask.calls <= MaxCalls(ask.set) /\ Tallied(ask)
      /\ ask.outcome = "none"
  BY DEF IInv, TypeOK, CallAllowed, FinalHolds
<1>2. CASE \E r \in Continued, j \in Job : ask' = Calling(r, j)
  <2>1. PICK r \in Continued, j \in Job : ask' = Calling(r, j)
    BY <1>2
  <2>2. r \in Request /\ r.calls = ask.calls /\ r.set = ask.set
        /\ SameMoney(r, ask) /\ r.outcome = ask.outcome
    BY DEF Continued
  <2> HIDE DEF Calling
  <2>3. /\ ask' \in Request
        /\ ask'.pc = "call" /\ ask'.set = ask.set /\ ask'.calls = ask.calls
        /\ SameMoney(ask', ask) /\ ask'.outcome = ask.outcome
    BY <2>1, <2>2, CallingType
  <2> QED BY <1>1, <2>3, QuietStep DEF InCall, Attempting
<1>3. CASE \E r \in Continued, p \in {"retrieve", "drill", "final"} :
             ask' = [r EXCEPT !.pc = p]
  <2>1. PICK r \in Continued, p \in {"retrieve", "drill", "final"} :
          ask' = [r EXCEPT !.pc = p]
    BY <1>3
  <2>2. /\ ask' \in Request
        /\ ask'.pc = p /\ ask'.set = ask.set /\ ask'.calls = ask.calls
        /\ SameMoney(ask', ask) /\ ask'.outcome = ask.outcome
    BY <2>1 DEF Continued, Request, Place
  <2> QED BY <1>1, <2>2, QuietStep DEF InCall, Attempting
<1> QED BY <1>2, <1>3 DEF Onward, At

\* Calls and places that carry on.
LEMMA OnwardMembers ==
  ASSUME NEW r \in Continued
  PROVE  /\ \A j \in Job : Calling(r, j) \in Onward
         /\ \A p \in {"retrieve", "drill", "final"} :
              [r EXCEPT !.pc = p] \in Onward
<1>1. ASSUME NEW j \in Job PROVE Calling(r, j) \in Onward
  BY <1>1 DEF Onward
<1>2. ASSUME NEW p \in {"retrieve", "drill", "final"}
      PROVE  [r EXCEPT !.pc = p] \in Onward
  <2>1. At(r, p) \in Onward
    BY <1>2 DEF Onward
  <2> QED BY <2>1 DEF At
<1> QED BY <1>1, <1>2

\* The jobs that write an answer are jobs.
LEMMA WriterType == Writer \in Job
BY DEF Writer, Job

\* The record with other excerpts carries on.
LEMMA ContinuedType ==
  ASSUME TypeOK, NEW K \in SUBSET Version, NEW S \in SUBSET Version,
         NEW E \in SUBSET Version
  PROVE  /\ ask \in Continued
         /\ [ask EXCEPT !.kept = K] \in Continued
         /\ [ask EXCEPT !.kept = K, !.shown = S] \in Continued
         /\ [ask EXCEPT !.shown = S] \in Continued
         /\ [ask EXCEPT !.excerpts = E] \in Continued
         /\ [ask EXCEPT !.excerpts = E, !.shown = S] \in Continued
         /\ [[ask EXCEPT !.kept = K] EXCEPT !.refined = TRUE] \in Continued
BY DEF TypeOK, Continued, Request

\* So does what may follow an answer, some prose or a search.
LEMMA AfterMoves ==
  ASSUME TypeOK, NEW K \in SUBSET Version PROVE After(K) \subseteq Onward
<1> DEFINE r == [ask EXCEPT !.kept = K]
           f == [r EXCEPT !.refined = TRUE]
<1>1. r \in Continued /\ f \in Continued
  BY ContinuedType
<1>2. {"refine", "check"} \subseteq Job
  BY DEF Job
<1>3. [r EXCEPT !.pc = "final"] \in Onward
  BY <1>1, OnwardMembers
<1>4. Calling(f, "refine") \in Onward /\ Calling(r, "check") \in Onward
  <2> HIDE DEF r, f
  <2> QED BY <1>1, <1>2, OnwardMembers
<1>5. After(K) \subseteq {[r EXCEPT !.pc = "final"], Calling(f, "refine"),
                          Calling(r, "check")}
  BY DEF After
<1> QED BY <1>3, <1>4, <1>5

\* What follows the prose: expand, attribute, or what follows an answer.
LEMMA ProseMoves ==
  ASSUME TypeOK, NEW K \in SUBSET Version, NEW D
  PROVE  AfterProse(K, D) \subseteq Onward
<1> DEFINE S == IF D = {} THEN ask.shown \ ask.excluded ELSE ask.shown
           r == [ask EXCEPT !.kept = K, !.shown = S]
<1>1. S \in SUBSET Version
  BY DEF TypeOK, Request
<1>2. r \in Continued
  BY <1>1, ContinuedType
<1>3. {"expand", "attribute"} \subseteq Job
  BY DEF Job
<1>4. Calling(r, "expand") \in Onward /\ Calling(r, "attribute") \in Onward
  <2> HIDE DEF r
  <2> QED BY <1>2, <1>3, OnwardMembers
<1>5. After(K) \subseteq Onward
  BY AfterMoves
<1>6. r = [ask EXCEPT !.kept = K,
                      !.shown = IF D = {} THEN @ \ ask.excluded ELSE @]
  BY DEF TypeOK, Request
<1>7. AfterProse(K, D) \subseteq
        {Calling(r, "expand"), Calling(r, "attribute")} \union After(K)
  <2> HIDE DEF r, Calling, After
  <2> QED BY <1>6 DEF AfterProse
<1> QED BY <1>4, <1>5, <1>7

\* The search ends in the writer's call, or in the select before it.
LEMMA AnsweringMoves ==
  ASSUME TypeOK, NEW E \in SUBSET Version PROVE Answering(E) \subseteq Onward
<1> DEFINE r == [ask EXCEPT !.excerpts = E, !.shown = E]
<1>1. r \in Continued
  BY ContinuedType
<1>2. "select" \in Job /\ Writer \in Job
  BY WriterType DEF Job
<1>3. Calling(r, "select") \in Onward /\ Calling(r, Writer) \in Onward
  <2> HIDE DEF r
  <2> QED BY <1>1, <1>2, OnwardMembers
<1>4. Answering(E) \subseteq {Calling(r, Writer), Calling(r, "select")}
  BY DEF Answering
<1> QED BY <1>3, <1>4
-----------------------------------------------------------------------------
(* The steps of the loop.                                                  *)

\* The plan's reply leads to the search.
LEMMA PlanReturnsStep == IInv /\ PlanReturns => IInv'
<1> SUFFICES ASSUME IInv, PlanReturns PROVE IInv'
  OBVIOUS
<1>1. ask \in Continued
  BY ContinuedType DEF IInv
<1>2. ask' \in Onward /\ Step /\ ask.pc # "end"
  BY <1>1, OnwardMembers DEF PlanReturns, Returned
<1> QED BY <1>2, OnwardStep

\* The rerank's reply leads to the drill.
LEMMA RerankReturnsStep == IInv /\ RerankReturns => IInv'
<1> SUFFICES ASSUME IInv, RerankReturns PROVE IInv'
  OBVIOUS
<1>1. ask \in Continued
  BY ContinuedType DEF IInv
<1>2. ask' \in Onward /\ Step /\ ask.pc # "end"
  BY <1>1, OnwardMembers DEF RerankReturns, Returned
<1> QED BY <1>2, OnwardStep

\* The caller's authority is gone: the question is refused.
LEMMA RefusalStep == IInv /\ Step /\ ask' = Refusal => IInv'
BY EndStep DEF Refusal, Outcome

\* The search refuses, finishes, reranks or answers.
LEMMA RetrieveStep == IInv /\ Retrieve => IInv'
<1> SUFFICES ASSUME IInv, Retrieve PROVE IInv'
  OBVIOUS
<1>1. Step /\ ask.pc = "retrieve" /\ TypeOK
  BY DEF Retrieve, IInv
<1>2. Live \subseteq Version /\ Seen \subseteq Version
      /\ ask.excerpts \subseteq Version
  BY <1>1 DEF Live, Seen, TypeOK, Request
<1>3. CASE Unauthorized
  BY <1>1, <1>3, RefusalStep DEF Retrieve
<1>4. ask \in Continued /\ [ask EXCEPT !.pc = "final"] \in Onward
      /\ [ask EXCEPT !.pc = "drill"] \in Onward
  BY <1>1, ContinuedType, OnwardMembers
<1>5. CASE ~Unauthorized /\ ask.refined
  <2>1. PICK found \in SUBSET Live :
          ask' \in IF found = {} THEN {[ask EXCEPT !.pc = "final"]}
                   ELSE Answering(ask.excerpts \union found)
    BY <1>5 DEF Retrieve
  <2>2. ask.excerpts \union found \in SUBSET Version
    BY <1>2
  <2>3. Answering(ask.excerpts \union found) \subseteq Onward
    BY <1>1, <2>2, AnsweringMoves
  <2> QED BY <1>1, <1>4, <2>1, <2>3, OnwardStep
<1>6. CASE ~Unauthorized /\ ~ask.refined /\ ask.set.rerank
  <2>1. PICK rows \in SUBSET Seen :
          ask' = IF Cardinality(rows) < 2 THEN [ask EXCEPT !.pc = "drill"]
                 ELSE Calling([ask EXCEPT !.excerpts = rows], "rerank")
    BY <1>6 DEF Retrieve
  <2>2. [ask EXCEPT !.excerpts = rows] \in Continued
    BY <1>1, <1>2, ContinuedType
  <2>3. Calling([ask EXCEPT !.excerpts = rows], "rerank") \in Onward
    BY <2>2, OnwardMembers DEF Job
  <2> QED BY <1>1, <1>4, <2>1, <2>3, OnwardStep
<1>7. CASE ~Unauthorized /\ ~ask.refined /\ ~ask.set.rerank
  <2>1. PICK found \in SUBSET Live : ask' \in Answering(found)
    BY <1>7 DEF Retrieve
  <2>2. Answering(found) \subseteq Onward
    BY <1>1, <1>2, AnsweringMoves
  <2> QED BY <1>1, <2>1, <2>2, OnwardStep
<1> QED BY <1>3, <1>5, <1>6, <1>7

\* The drill refuses or answers.
LEMMA DrillStep == IInv /\ Drill => IInv'
<1> SUFFICES ASSUME IInv, Drill PROVE IInv'
  OBVIOUS
<1>1. Step /\ ask.pc = "drill" /\ TypeOK
  BY DEF Drill, IInv
<1>2. Live \subseteq Version
  BY <1>1 DEF Live, Seen, TypeOK, Request
<1>3. CASE Unauthorized
  BY <1>1, <1>3, RefusalStep DEF Drill
<1>4. CASE ~Unauthorized
  <2>1. PICK found \in SUBSET Live : ask' \in Answering(found)
    BY <1>4 DEF Drill
  <2>2. Answering(found) \subseteq Onward
    BY <1>1, <1>2, AnsweringMoves
  <2> QED BY <1>1, <2>1, <2>2, OnwardStep
<1> QED BY <1>3, <1>4

\* The picks are versions the question may see.
LEMMA SelectReturnsStep == IInv /\ SelectReturns => IInv'
<1> SUFFICES ASSUME IInv, SelectReturns PROVE IInv'
  OBVIOUS
<1>1. Step /\ ask.pc = "returned" /\ TypeOK
  BY DEF SelectReturns, Returned, IInv
<1>2. PICK picked \in SUBSET (ask.excerpts \ ask.excluded) :
        ask' = Calling([ask EXCEPT !.shown = IF picked = {} THEN ask.excerpts
                                             ELSE picked], Writer)
  BY DEF SelectReturns
<1> DEFINE S == IF picked = {} THEN ask.excerpts ELSE picked
<1>3. S \in SUBSET Version
  BY <1>1 DEF TypeOK, Request
<1> HIDE DEF S
<1>4. [ask EXCEPT !.shown = S] \in Continued
  BY <1>1, <1>3, ContinuedType
<1>5. ask' = Calling([ask EXCEPT !.shown = S], Writer)
  BY <1>2 DEF S
<1> QED BY <1>1, <1>4, <1>5, OnwardMembers, WriterType, OnwardStep

\* The writer's reply ends the question or is kept.
LEMMA AnswerReturnsStep == IInv /\ AnswerReturns => IInv'
<1> SUFFICES ASSUME IInv, AnswerReturns PROVE IInv'
  OBVIOUS
<1>1. Step /\ ask.pc = "returned" /\ TypeOK
  BY DEF AnswerReturns, Returned, IInv
<1>2. ask.shown \subseteq Version /\ ask.kept \subseteq Version
  BY <1>1 DEF TypeOK, Request
<1>3. CASE ask.reply = "output"
  <2>1. PICK kept \in SUBSET (ask.shown \ ask.excluded) :
          ask' \in IF Writer = "prose" THEN AfterProse(kept, {})
                   ELSE After(kept)
    BY <1>3 DEF AnswerReturns
  <2>2. kept \in SUBSET Version
    BY <1>2
  <2>3. After(kept) \subseteq Onward /\ AfterProse(kept, {}) \subseteq Onward
    BY <1>1, <2>2, AfterMoves, ProseMoves
  <2> QED BY <1>1, <2>1, <2>3, OnwardStep
<1>4. CASE ask.reply # "output" /\ ask' = Ended("E_UNAVAILABLE")
  BY <1>1, <1>4, EndStep DEF Outcome
<1>5. CASE ask.reply # "output" /\ ask' \in After(ask.kept)
  BY <1>1, <1>2, <1>5, AfterMoves, OnwardStep
<1> QED BY <1>3, <1>4, <1>5 DEF AnswerReturns

\* Expand adds sources that were shown.
LEMMA ExpandReturnsStep == IInv /\ ExpandReturns => IInv'
<1> SUFFICES ASSUME IInv, ExpandReturns PROVE IInv'
  OBVIOUS
<1>1. Step /\ ask.pc = "returned" /\ TypeOK
  BY DEF ExpandReturns, Returned, IInv
<1>2. PICK added \in SUBSET ask.shown :
        ask' \in AfterProse(ask.kept \union added, {"expand"})
  BY DEF ExpandReturns
<1>3. ask.kept \union added \in SUBSET Version
  BY <1>1 DEF TypeOK, Request
<1> QED BY <1>1, <1>2, <1>3, ProseMoves, OnwardStep

\* Attribute names sources that were shown.
LEMMA AttributeReturnsStep == IInv /\ AttributeReturns => IInv'
<1> SUFFICES ASSUME IInv, AttributeReturns PROVE IInv'
  OBVIOUS
<1>1. Step /\ ask.pc = "returned" /\ TypeOK
  BY DEF AttributeReturns, Returned, IInv
<1>2. PICK kept \in SUBSET ask.shown : ask' \in After(kept)
  BY DEF AttributeReturns
<1>3. kept \in SUBSET Version
  BY <1>1 DEF TypeOK, Request
<1> QED BY <1>1, <1>2, <1>3, AfterMoves, OnwardStep

\* A refinement searches again, or leaves the answer as it is.
LEMMA RefineReturnsStep == IInv /\ RefineReturns => IInv'
<1> SUFFICES ASSUME IInv, RefineReturns PROVE IInv'
  OBVIOUS
<1>1. Step /\ ask.pc = "returned" /\ TypeOK
  BY DEF RefineReturns, Returned, IInv
<1>2. PICK p \in {"retrieve", "final"} : ask' = [ask EXCEPT !.pc = p]
  BY DEF RefineReturns
<1>3. ask \in Continued
  BY <1>1, ContinuedType
<1> QED BY <1>1, <1>2, <1>3, OnwardMembers, OnwardStep

\* The check adds sources that were shown.
LEMMA CheckReturnsStep == IInv /\ CheckReturns => IInv'
<1> SUFFICES ASSUME IInv, CheckReturns PROVE IInv'
  OBVIOUS
<1>1. Step /\ ask.pc = "returned" /\ TypeOK
  BY DEF CheckReturns, Returned, IInv
<1>2. PICK added \in SUBSET (ask.shown \ ask.excluded) :
        ask' = [ask EXCEPT !.pc = "final", !.kept = @ \union added]
  BY DEF CheckReturns
<1> DEFINE K == ask.kept \union added
           r == [ask EXCEPT !.kept = K]
<1>3. K \in SUBSET Version
  BY <1>1 DEF TypeOK, Request
<1>4. r \in Continued
  <2> HIDE DEF K
  <2> QED BY <1>1, <1>3, ContinuedType
<1>5. ask' = [r EXCEPT !.pc = "final"]
  BY <1>1, <1>2 DEF TypeOK, Request
<1> HIDE DEF r
<1>6. ask' \in Onward
  BY <1>4, <1>5, OnwardMembers
<1> QED BY <1>1, <1>6, OnwardStep

\* Every step of _loop keeps the invariant.
LEMMA LoopStep == IInv /\ Loop => IInv'
BY PlanReturnsStep, RetrieveStep, RerankReturnsStep, DrillStep,
   SelectReturnsStep, AnswerReturnsStep, ExpandReturnsStep,
   AttributeReturnsStep, RefineReturnsStep, CheckReturnsStep DEF Loop

-----------------------------------------------------------------------------
(* The question's beginning, its ends and its calls.                       *)

\* A refused question is over.
LEMMA RefuseStep == IInv /\ Refuse => IInv'
BY EndStep DEF Refuse, Outcome

\* So is one whose statement failed.
LEMMA DatabaseFailsStep == IInv /\ DatabaseFails => IInv'
BY EndStep DEF DatabaseFails, Outcome

\* The map phase fixes the caller's authority and what it may see.
LEMMA BeginStep == IInv /\ Begin => IInv'
<1> SUFFICES ASSUME IInv, Begin PROVE IInv'
  OBVIOUS
<1> DEFINE r == [ask EXCEPT !.generation = device.generation,
                            !.caps = grants, !.view = Citable]
<1>1. Step /\ ask.pc # "end" /\ TypeOK
  BY DEF Begin, IInv
<1>2. Citable \in SUBSET Version
  BY Readable
<1>3. r \in Continued
  BY <1>1, <1>2 DEF TypeOK, Continued, Request
<1>4. ask' = Calling(r, "plan")
  BY DEF Begin
<1> HIDE DEF r
<1> QED BY <1>1, <1>3, <1>4, OnwardMembers, OnwardStep DEF Job

\* A call that is skipped, stopped or refused replies without a request.
LEMMA RepliesStep ==
  IInv /\ (CallSkipped \/ CallStopped \/ NoMoreTries \/ AttemptRefused
           \/ AttemptUnaffordable \/ NotSent) => IInv'
<1> SUFFICES ASSUME IInv,
                    CallSkipped \/ CallStopped \/ NoMoreTries
                    \/ AttemptRefused \/ AttemptUnaffordable \/ NotSent
             PROVE  IInv'
  OBVIOUS
<1>1. Step /\ ask.pc # "end"
  BY DEF CallSkipped, CallStopped, NoMoreTries, AttemptRefused,
         AttemptUnaffordable, NotSent
<1>2. \/ ask' = Replied("none")
      \/ ask' = Replied("unavailable")
      \/ ask' = [Replied("unavailable") EXCEPT !.stop = TRUE]
  BY DEF CallSkipped, CallStopped, NoMoreTries, AttemptRefused,
         AttemptUnaffordable, NotSent, Stopped, Unavailable
<1> QED BY <1>1, <1>2, ReplyStep

\* A place of a call before an attempt's own checks has only the call's
\* limits to keep.
LEMMA InCallStep ==
  ASSUME IInv, Step, ask' \in Request, ask'.pc \in InCall \ Attempting,
         ask'.calls = ask.calls, ask'.set = ask.set, Tallied(ask'),
         ~ask'.stop, ask.calls < MaxCalls(ask.set),
         ask'.pc # "try" => ask'.tries < MaxTries,
         ask'.outcome = ask.outcome, ask.pc # "end"
  PROVE  IInv'
<1>1. ask' \in Request /\ ask'.calls <= MaxCalls(ask'.set)
  BY DEF IInv, TypeOK
<1>2. TypeOK'
  BY <1>1, StepType
<1>3. CallAllowed'
  BY DEF CallAllowed
<1>4. ChecksPassed'
  BY DEF Step, Unbarred, ChecksPassed
<1>5. FinalHolds'
  BY DEF IInv, FinalHolds, InCall, Attempting, DeviceHeld
<1> QED BY <1>2, <1>3, <1>4, <1>5 DEF IInv

\* A call begins under the cap and before a budget stop.
LEMMA CallBeginsStep == IInv /\ CallBegins => IInv'
<1> SUFFICES ASSUME IInv, CallBegins PROVE IInv'
  OBVIOUS
<1>1. Step /\ ask.pc = "call" /\ TypeOK /\ ~ask.stop
      /\ ask' = [ask EXCEPT !.pc = "try"] /\ Tallied(ask)
  BY DEF CallBegins, IInv, CallAllowed
<1>2. ask.calls < MaxCalls(ask.set)
  <2>1. MaxCalls(ask.set) \in Nat /\ ask.calls \in Nat
    BY <1>1, CallLimit DEF TypeOK, Request
  <2> QED BY <2>1 DEF CallBegins, Capped
<1>3. /\ ask' \in Request /\ ask'.pc = "try" /\ ask'.calls = ask.calls
      /\ ask'.set = ask.set /\ SameMoney(ask', ask) /\ ask'.stop = ask.stop
      /\ ask'.outcome = ask.outcome
  BY <1>1 DEF TypeOK, Request, Place
<1> QED BY <1>1, <1>2, <1>3, InCallStep DEF InCall, Attempting

\* After the gates: the prompt is built again, the question is out of
\* budget, or the call's attempts begin.
LEMMA AfterGatesStep ==
  ASSUME IInv, Step, ask.pc \in {"try", "carried"}, ask.tries < MaxTries,
         NEW D \in SUBSET Version, ask' \in AfterGates(D)
  PROVE  IInv'
<1>1. /\ TypeOK /\ ~ask.stop /\ Tallied(ask)
      /\ ask.calls < MaxCalls(ask.set) /\ ask.tries \in 0..MaxTries
  BY DEF IInv, CallAllowed, InCall, TypeOK, Request
<1>2. CASE D # {}
  <2>1. ask' = [ask EXCEPT !.pc = "try", !.tries = @ + 1, !.denied = {},
                           !.excluded = @ \union D]
    BY <1>2 DEF AfterGates
  <2> DEFINE N == ask.tries + 1
             X == ask.excluded \union D
  <2>2. N \in 0..MaxTries /\ X \in SUBSET Version
    BY <1>1, Bounds DEF TypeOK, Request
  <2>3. ask' = [ask EXCEPT !.pc = "try", !.tries = N, !.denied = {},
                           !.excluded = X]
    BY <1>1, <2>1 DEF TypeOK, Request
  <2> HIDE DEF N, X
  <2>4. /\ ask' \in Request /\ ask'.pc = "try" /\ ask'.calls = ask.calls
        /\ ask'.set = ask.set /\ SameMoney(ask', ask)
        /\ ask'.stop = ask.stop /\ ask'.outcome = ask.outcome
    <3>1. ask \in Request
      BY <1>1 DEF TypeOK
    <3> QED BY <3>1, <2>3, <2>2 DEF Request, Place
  <2> QED BY <1>1, <2>4, InCallStep DEF InCall, Attempting
<1>3. CASE ask' = Stopped
  BY <1>3, ReplyStep DEF Stopped, Unavailable
<1>4. CASE ask' = [ask EXCEPT !.pc = "attempt"]
  <2>1. ask' = [ask EXCEPT !.pc = "attempt"]
    BY <1>4
  <2>2. /\ ask' \in Request /\ ask'.pc = "attempt" /\ ask'.calls = ask.calls
        /\ ask'.set = ask.set /\ SameMoney(ask', ask)
        /\ ask'.stop = ask.stop /\ ask'.outcome = ask.outcome
        /\ ask'.tries = ask.tries
    BY <1>1, <2>1 DEF TypeOK, Request, Place
  <2> QED BY <1>1, <2>2, InCallStep DEF InCall, Attempting
<1> QED BY <1>2, <1>3, <1>4 DEF AfterGates

\* The gate ends the question, looks at what was sent, or lets the call on.
LEMMA GateStep == IInv /\ Gate => IInv'
<1> SUFFICES ASSUME IInv, Gate PROVE IInv'
  OBVIOUS
<1> DEFINE D == PromptIds \ Permitted
<1>1. /\ Step /\ ask.pc = "try" /\ TypeOK /\ ~ask.stop
      /\ Tallied(ask) /\ ask.calls < MaxCalls(ask.set)
      /\ ask.tries < MaxTries
  BY DEF Gate, IInv, CallAllowed, InCall
<1>2. D \in SUBSET Version
  BY <1>1, PromptType
<1> HIDE DEF D
<1>3. CASE ~DeviceOK
  BY <1>1, <1>3, EndStep DEF Gate, Outcome
<1>4. CASE ask' \in AfterGates(D)
  BY <1>1, <1>2, <1>4, AfterGatesStep
<1>5. CASE ask' = [ask EXCEPT !.pc = "carried", !.denied = D]
  <2>1. /\ ask' \in Request /\ ask'.pc = "carried" /\ ask'.calls = ask.calls
        /\ ask'.set = ask.set /\ SameMoney(ask', ask)
        /\ ask'.stop = ask.stop /\ ask'.outcome = ask.outcome
        /\ ask'.tries = ask.tries
    BY <1>1, <1>2, <1>5 DEF TypeOK, Request, Place
  <2> QED BY <1>1, <2>1, InCallStep DEF InCall, Attempting
<1> QED BY <1>3, <1>4, <1>5 DEF Gate, D

\* What was sent before ends the question, or the call goes on.
LEMMA GateCarriedStep == IInv /\ GateCarried => IInv'
<1> SUFFICES ASSUME IInv, GateCarried PROVE IInv'
  OBVIOUS
<1>1. /\ Step /\ ask.pc = "carried" /\ ask.denied \in SUBSET Version
      /\ ask.tries < MaxTries
  BY DEF GateCarried, IInv, CallAllowed, InCall, TypeOK, Request
<1>2. CASE \E o \in {"E_AUTH", "E_UNAVAILABLE"} : ask' = Ended(o)
  BY <1>1, <1>2, EndStep DEF Outcome
<1>3. CASE ask' \in AfterGates(ask.denied)
  BY <1>1, <1>3, AfterGatesStep
<1> QED BY <1>2, <1>3 DEF GateCarried

-----------------------------------------------------------------------------
(* The attempts of a call.                                                 *)

\* A step of an attempt that leaves the prompt and the world as they are:
\* what its checks have shown must hold at its new place.
LEMMA AttemptingStep ==
  ASSUME IInv, Step, ask.pc \in Attempting,
         NEW p \in Attempting, NEW n \in 0..MaxAttempts,
         ask' = [ask EXCEPT !.pc = p, !.attempts = n],
         p # "precheck" => PromptIds \intersect barred.text = {}
                           /\ ~barred.device,
         p \in {"ready", "flight"} => ask.sent \intersect barred.carried = {}
  PROVE  IInv'
<1>1. TypeOK
  BY DEF IInv
<1>2. /\ ask' \in Request /\ ask'.pc = p /\ ask'.job = ask.job
      /\ ask'.calls = ask.calls /\ ask'.set = ask.set
      /\ SameMoney(ask', ask) /\ ask'.stop = ask.stop
      /\ ask'.outcome = ask.outcome /\ ask'.tries = ask.tries
      /\ ask'.sent = ask.sent /\ ask'.generation = ask.generation
      /\ ask'.caps = ask.caps /\ ask'.view = ask.view
      /\ ask'.excerpts = ask.excerpts /\ ask'.shown = ask.shown
      /\ ask'.excluded = ask.excluded
  BY <1>1 DEF TypeOK, Request, Place, Attempting
<1>3. TypeOK'
  BY <1>1, <1>2, StepType DEF TypeOK
<1>4. CallAllowed'
  BY <1>2 DEF IInv, CallAllowed, InCall, Attempting
<1>5. /\ PromptIds' = PromptIds /\ Permitted' = Permitted
      /\ Private' = Private /\ DeviceOK' = DeviceOK /\ barred' = barred
  BY <1>2 DEF Step, world, PromptIds, Permitted, Private, Related, DeviceOK
<1>6. ChecksPassed'
  BY <1>2, <1>5 DEF IInv, ChecksPassed
<1>7. FinalHolds'
  BY <1>2 DEF IInv, FinalHolds, Attempting, DeviceHeld
<1> QED BY <1>3, <1>4, <1>6, <1>7 DEF IInv

\* An attempt begins with what is denied at this moment barred.
LEMMA AttemptBeginsStep == IInv /\ AttemptBegins => IInv'
<1> SUFFICES ASSUME IInv, AttemptBegins PROVE IInv'
  OBVIOUS
<1>1. /\ TypeOK /\ ask.pc = "attempt" /\ UNCHANGED world
      /\ ask.spent + Worst[ask.job] <= MaxSpend
      /\ ask' = [ask EXCEPT !.pc = "precheck"]
      /\ barred' = [text |-> Version \ Permitted,
                    carried |-> Version \ Private, device |-> ~DeviceOK]
  BY DEF AttemptBegins, IInv
<1>2. /\ ask' \in Request /\ ask'.pc = "precheck" /\ ask'.job = ask.job
      /\ ask'.calls = ask.calls /\ ask'.set = ask.set
      /\ SameMoney(ask', ask) /\ ask'.stop = ask.stop
      /\ ask'.outcome = ask.outcome /\ ask'.tries = ask.tries
      /\ ask'.generation = ask.generation /\ ask'.caps = ask.caps
  BY <1>1 DEF TypeOK, Request, Place
<1>3. /\ Permitted' = Permitted /\ Private' = Private /\ DeviceOK' = DeviceOK
  BY <1>1, <1>2 DEF world, Permitted, Private, Related, DeviceOK
<1>4. /\ barred'.text = Version \ Permitted
      /\ barred'.carried = Version \ Private
      /\ barred'.device = ~DeviceOK
  BY <1>1
<1>5. (~DeviceOK) \in BOOLEAN
  BY DEF DeviceOK
<1>6. barred' \in [text : SUBSET Version, carried : SUBSET Version,
                   device : BOOLEAN]
  BY <1>1, <1>5
<1>7. TypeOK'
  BY <1>1, <1>2, <1>6 DEF TypeOK, world
<1>8. CallAllowed'
  BY <1>1, <1>2 DEF IInv, CallAllowed, InCall, Attempting
<1>9. ChecksPassed'
  BY <1>2, <1>3, <1>4, Readable DEF ChecksPassed, Attempting
<1>10. FinalHolds'
  BY <1>1, <1>2 DEF IInv, FinalHolds, DeviceHeld
<1> QED BY <1>7, <1>8, <1>9, <1>10 DEF IInv

\* A denied prompt is built once more.
LEMMA DeniedStep ==
  ASSUME IInv, Step, ask.pc \in {"precheck", "precarried"}, ask' = Denied
  PROVE  IInv'
<1>1. /\ TypeOK /\ ~ask.stop /\ Tallied(ask)
      /\ ask.calls < MaxCalls(ask.set) /\ ask.tries \in 0..MaxTries
      /\ ask.tries < MaxTries
  BY DEF IInv, CallAllowed, InCall, Attempting, TypeOK, Request
<1> DEFINE N == ask.tries + 1
<1>2. N \in 0..MaxTries
  BY <1>1, Bounds
<1>3. ask' = [ask EXCEPT !.pc = "try", !.tries = N]
  BY <1>1 DEF Denied, TypeOK, Request
<1> HIDE DEF N
<1>4. /\ ask' \in Request /\ ask'.pc = "try" /\ ask'.calls = ask.calls
      /\ ask'.set = ask.set /\ SameMoney(ask', ask)
      /\ ask'.stop = ask.stop /\ ask'.outcome = ask.outcome
  <2>1. ask \in Request
    BY <1>1 DEF TypeOK
  <2> QED BY <2>1, <1>2, <1>3 DEF Request, Place
<1> QED BY <1>1, <1>4, InCallStep DEF InCall, Attempting

\* The place alone is a step of an attempt that sends nothing.
LEMMA SamePlaces ==
  ASSUME TypeOK, NEW p
  PROVE  /\ ask.attempts \in 0..MaxAttempts
         /\ [ask EXCEPT !.pc = p]
              = [ask EXCEPT !.pc = p, !.attempts = ask.attempts]
BY DEF TypeOK, Request

\* The prompt is permitted at its check, so none of it is barred.
LEMMA PrecheckStep == IInv /\ Precheck => IInv'
<1> SUFFICES ASSUME IInv, Precheck PROVE IInv'
  OBVIOUS
<1>1. Step /\ ask.pc = "precheck" /\ TypeOK
  BY DEF Precheck, IInv
<1>2. /\ barred.text \intersect Permitted = {}
      /\ barred.carried \intersect Private = {}
      /\ barred.device => ~DeviceOK
  BY <1>1 DEF IInv, ChecksPassed, Attempting
<1>3. CASE ~DeviceOK
  BY <1>1, <1>3, EndStep DEF Precheck, Outcome
<1>4. CASE ask' = Denied
  BY <1>1, <1>4, DeniedStep
<1>5. CASE DeviceOK /\ PromptIds \subseteq Permitted
  <2>1. PICK p \in {"ready", "precarried"} :
          /\ ask' = [ask EXCEPT !.pc = p]
          /\ p = "ready" => ask.sent \subseteq PromptIds
    BY <1>5 DEF Precheck
  <2>2. /\ PromptIds \intersect barred.text = {} /\ ~barred.device
        /\ p = "ready" => ask.sent \intersect barred.carried = {}
    BY <1>2, <1>5, <2>1, Readable
  <2>3. /\ ask.attempts \in 0..MaxAttempts
        /\ ask' = [ask EXCEPT !.pc = p, !.attempts = ask.attempts]
    BY <1>1, <2>1, SamePlaces
  <2> QED BY <1>1, <2>1, <2>2, <2>3, AttemptingStep DEF Attempting
<1> QED BY <1>3, <1>4, <1>5 DEF Precheck

\* What was sent before and is not in the prompt is private at its check.
LEMMA PrecheckCarriedStep == IInv /\ PrecheckCarried => IInv'
<1> SUFFICES ASSUME IInv, PrecheckCarried PROVE IInv'
  OBVIOUS
<1>1. Step /\ ask.pc = "precarried" /\ TypeOK
  BY DEF PrecheckCarried, IInv
<1>2. /\ barred.carried \subseteq barred.text
      /\ barred.carried \intersect Private = {}
      /\ PromptIds \intersect barred.text = {} /\ ~barred.device
  BY <1>1 DEF IInv, ChecksPassed, Attempting
<1>3. CASE ~DeviceOK
  BY <1>1, <1>3, EndStep DEF PrecheckCarried, Outcome
<1>4. CASE ask' = Denied
  BY <1>1, <1>4, DeniedStep
<1>5. CASE /\ ask.sent \ PromptIds \subseteq Private
           /\ ask' = [ask EXCEPT !.pc = "ready"]
  <2>1. ask.sent \intersect barred.carried = {}
    BY <1>2, <1>5
  <2>2. /\ ask.attempts \in 0..MaxAttempts
        /\ ask' = [ask EXCEPT !.pc = "ready", !.attempts = ask.attempts]
    BY <1>1, <1>5, SamePlaces
  <2> QED BY <1>1, <1>2, <2>1, <2>2, AttemptingStep DEF Attempting
<1> QED BY <1>3, <1>4, <1>5 DEF PrecheckCarried

\* The request goes out under the ceiling of attempts.
LEMMA SendStep == IInv /\ Send => IInv'
<1> SUFFICES ASSUME IInv, Send PROVE IInv'
  OBVIOUS
<1>1. /\ Step /\ ask.pc = "ready" /\ TypeOK
      /\ ask.attempts < MaxAttempts /\ ask.attempts \in 0..MaxAttempts
      /\ ask' = [ask EXCEPT !.pc = "flight", !.attempts = ask.attempts + 1]
  BY DEF Send, IInv, TypeOK, Request
<1>2. ask.attempts + 1 \in 0..MaxAttempts
  BY <1>1, Bounds
<1>3. /\ PromptIds \intersect barred.text = {} /\ ~barred.device
      /\ ask.sent \intersect barred.carried = {}
  BY <1>1 DEF IInv, ChecksPassed, Attempting
<1> QED BY <1>1, <1>2, <1>3, AttemptingStep DEF Attempting

\* A charge is a number.
LEMMA ChargeType ==
  ASSUME TypeOK
  PROVE  /\ \A c \in Answered \union {0} : c \in Nat
         /\ Worst[ask.job] \in Nat
BY ConstantsAssumption DEF TypeOK, Request, Answered

\* An attempt in flight belongs to a call that is allowed.
LEMMA FlightFacts ==
  ASSUME IInv, ask.pc = "flight"
  PROVE  /\ TypeOK /\ ask \in Request /\ ask.set \in Setting /\ ~ask.stop
         /\ ask.spent \in Nat /\ ask.billed \in Nat /\ ask.missed \in Nat
         /\ ask.calls \in Nat /\ ask.calls < MaxCalls(ask.set)
         /\ ask.calls <= MaxCalls(ask.set) /\ ask.tries < MaxTries
         /\ Tallied(ask) /\ ask.outcome = "none"
BY DEF IInv, CallAllowed, InCall, Attempting, TypeOK, Request, FinalHolds

\* A charge that is tallied keeps the tally.
LEMMA ChargedType ==
  ASSUME NEW r \in Request, NEW c \in Nat, Tallied(r)
  PROVE  /\ Charged(r, c) \in Request /\ Tallied(Charged(r, c))
         /\ Charged(r, c).pc = r.pc /\ Charged(r, c).set = r.set
         /\ Charged(r, c).calls = r.calls /\ Charged(r, c).tries = r.tries
         /\ Charged(r, c).stop = r.stop
         /\ Charged(r, c).outcome = r.outcome
<1>1. r.spent \in Nat /\ r.billed \in Nat /\ r.missed \in Nat
  BY DEF Request
<1>2. r.spent + c \in Nat /\ r.billed + c \in Nat
  BY <1>1
<1> DEFINE P == r.spent + c
           B == r.billed + c
<1>3. Charged(r, c) = [r EXCEPT !.spent = P, !.billed = B]
  BY DEF Charged, Request
<1>4. P \in Nat /\ B \in Nat /\ B = P + r.missed
  BY <1>1
<1> HIDE DEF P, B
<1>5. Charged(r, c) \in Request
  BY <1>3, <1>4 DEF Request
<1>6. /\ Charged(r, c).spent = P /\ Charged(r, c).billed = B
      /\ Charged(r, c).missed = r.missed
      /\ Charged(r, c).pc = r.pc /\ Charged(r, c).set = r.set
      /\ Charged(r, c).calls = r.calls /\ Charged(r, c).tries = r.tries
      /\ Charged(r, c).stop = r.stop /\ Charged(r, c).outcome = r.outcome
  BY <1>3 DEF Request
<1> HIDE DEF Charged
<1> QED BY <1>4, <1>5, <1>6

\* A success is counted, charged and tallied.
LEMMA SucceedStep == IInv /\ Succeed => IInv'
<1> SUFFICES ASSUME IInv, Succeed PROVE IInv'
  OBVIOUS
<1> DEFINE r == Replied("output")
           S == r.sent \union PromptIds
           C == ask.calls + 1
           q == [r EXCEPT !.calls = C, !.sent = S]
<1>1. Step /\ ask.pc = "flight"
  BY DEF Succeed
<1>2. PICK c \in Answered :
        ask' = Charged([r EXCEPT !.calls = @ + 1,
                                 !.sent = @ \union PromptIds], c)
  BY DEF Succeed
<1>3. /\ r \in Request /\ r.pc = "returned" /\ r.set = ask.set
      /\ r.calls = ask.calls /\ SameMoney(r, ask)
      /\ r.outcome = ask.outcome
  BY <1>1, FlightFacts, RepliedType
<1> HIDE DEF r
<1>4. [r EXCEPT !.calls = @ + 1, !.sent = @ \union PromptIds] = q
  BY <1>3 DEF Request
<1>5. S \in SUBSET Version
  BY <1>1, <1>3, FlightFacts, PromptType DEF Request
<1>6. C \in Nat /\ C <= MaxCalls(ask.set)
  BY <1>1, FlightFacts, CallLimit
<1> HIDE DEF S, C
<1>7. /\ q \in Request /\ q.pc = "returned" /\ q.set = ask.set
      /\ q.calls = C /\ Tallied(q) /\ q.outcome = "none"
  BY <1>1, <1>3, <1>5, <1>6, FlightFacts DEF Request
<1> HIDE DEF q
<1>8. c \in Nat
  BY <1>1, FlightFacts, ChargeType
<1>9. ask' = Charged(q, c)
  BY <1>2, <1>4
<1>10. /\ ask' \in Request /\ ask'.pc = "returned" /\ ask'.set = ask.set
       /\ ask'.calls = C /\ Tallied(ask') /\ ask'.outcome = "none"
  <2> HIDE DEF Charged, Tallied
  <2> QED BY <1>7, <1>8, <1>9, ChargedType
<1> QED BY <1>1, <1>6, <1>10, QuietStep DEF InCall, Attempting

\* So is a failure, and the call goes on.
LEMMA AttemptFailsStep == IInv /\ AttemptFails => IInv'
<1> SUFFICES ASSUME IInv, AttemptFails PROVE IInv'
  OBVIOUS
<1> DEFINE q == [ask EXCEPT !.pc = "attempt"]
<1>1. Step /\ ask.pc = "flight"
  BY DEF AttemptFails
<1>2. PICK c \in Answered \union {0} : ask' = Charged(q, c)
  BY DEF AttemptFails
<1>3. /\ q \in Request /\ q.pc = "attempt" /\ q.set = ask.set
      /\ q.calls = ask.calls /\ Tallied(q) /\ q.stop = ask.stop
      /\ q.tries = ask.tries /\ q.outcome = ask.outcome
  BY <1>1, FlightFacts DEF Request, Place
<1> HIDE DEF q
<1>4. c \in Nat
  BY <1>1, FlightFacts, ChargeType
<1>5. /\ ask' \in Request /\ ask'.pc = "attempt" /\ ask'.set = ask.set
      /\ ask'.calls = ask.calls /\ Tallied(ask') /\ ask'.stop = ask.stop
      /\ ask'.tries = ask.tries /\ ask'.outcome = ask.outcome
  <2> HIDE DEF Charged, Tallied
  <2> QED BY <1>2, <1>3, <1>4, ChargedType
<1> QED BY <1>1, <1>5, FlightFacts, InCallStep DEF InCall, Attempting

\* A call cut in flight is charged and tallied, and ends.
LEMMA CutInFlightStep == IInv /\ CutInFlight => IInv'
<1> SUFFICES ASSUME IInv, CutInFlight PROVE IInv'
  OBVIOUS
<1> DEFINE q == Replied("unavailable")
<1>1. /\ Step /\ ask.pc = "flight"
      /\ ask' = Charged(q, Worst[ask.job])
  BY DEF CutInFlight, Unavailable
<1>2. /\ q \in Request /\ q.pc = "returned" /\ q.set = ask.set
      /\ q.calls = ask.calls /\ SameMoney(q, ask)
      /\ q.outcome = ask.outcome
  BY <1>1, FlightFacts, RepliedType
<1> HIDE DEF q
<1>3. Worst[ask.job] \in Nat /\ Tallied(q)
  BY <1>1, <1>2, FlightFacts, ChargeType
<1>4. /\ ask' \in Request /\ ask'.pc = "returned" /\ ask'.set = ask.set
      /\ ask'.calls = ask.calls /\ Tallied(ask')
      /\ ask'.outcome = ask.outcome
  <2> HIDE DEF Charged, Tallied
  <2> QED BY <1>1, <1>2, <1>3, ChargedType
<1> QED BY <1>1, <1>4, FlightFacts, QuietStep DEF InCall, Attempting

\* What a call cut before its row was charged is missed by the tally.
LEMMA CutBeforeRowStep == IInv /\ CutBeforeRow => IInv'
<1> SUFFICES ASSUME IInv, CutBeforeRow PROVE IInv'
  OBVIOUS
<1> DEFINE q == Replied("unavailable")
<1>1. Step /\ ask.pc = "flight"
  BY DEF CutBeforeRow
<1>2. PICK c \in Answered \union {0} :
        ask' = [q EXCEPT !.billed = @ + c, !.missed = @ + c]
  BY DEF CutBeforeRow, Unavailable
<1>3. /\ q \in Request /\ q.pc = "returned" /\ q.set = ask.set
      /\ q.calls = ask.calls /\ SameMoney(q, ask)
      /\ q.outcome = ask.outcome
  BY <1>1, FlightFacts, RepliedType
<1> HIDE DEF q
<1> DEFINE B == ask.billed + c
           M == ask.missed + c
<1>4. B \in Nat /\ M \in Nat /\ B = ask.spent + M
  <2>1. c \in Nat
    BY <1>1, FlightFacts, ChargeType
  <2> QED BY <1>1, <2>1, FlightFacts
<1>5. ask' = [q EXCEPT !.billed = B, !.missed = M]
  BY <1>2, <1>3 DEF Request
<1> HIDE DEF B, M
<1>6. /\ ask' \in Request /\ ask'.pc = "returned" /\ ask'.set = ask.set
      /\ ask'.calls = ask.calls /\ Tallied(ask')
      /\ ask'.outcome = ask.outcome
  BY <1>3, <1>4, <1>5 DEF Request
<1> QED BY <1>1, <1>6, FlightFacts, QuietStep DEF InCall, Attempting

\* Every step of _call before its attempts keeps the invariant.
LEMMA CallStep == IInv /\ Call => IInv'
BY RepliesStep, CallBeginsStep, GateStep, GateCarriedStep DEF Call

\* Every step of the attempts keeps the invariant.
LEMMA AttemptStep == IInv /\ Attempt => IInv'
BY RepliesStep, AttemptBeginsStep, PrecheckStep, PrecheckCarriedStep,
   SendStep, SucceedStep, AttemptFailsStep,
   CutInFlightStep, CutBeforeRowStep DEF Attempt

-----------------------------------------------------------------------------
(* The final check.                                                        *)

\* A step of the final check, when what it must have seen still holds.
LEMMA FinalStep ==
  ASSUME IInv, Step, ask.pc \in {"final", "lock", "read"},
         NEW p \in {"lock", "read", "decided"},
         NEW K \in SUBSET Version, NEW H \in SUBSET Version,
         ask' = [ask EXCEPT !.pc = p, !.kept = K, !.held = H],
         device.trusted /\ device.generation = ask.generation,
         p # "lock" => K \subseteq H,
         p = "decided" =>
           /\ K \subseteq Citable
           /\ K # {} => \A v \in ask.sent : ProjectsOf[v] \subseteq grants
  PROVE  IInv'
<1>1. TypeOK /\ ask \in Request
  BY DEF IInv, TypeOK
<1>2. /\ ask' \in Request /\ ask'.pc = p /\ ask'.calls = ask.calls
      /\ ask'.set = ask.set /\ SameMoney(ask', ask)
      /\ ask'.outcome = ask.outcome /\ ask'.sent = ask.sent
      /\ ask'.generation = ask.generation /\ ask'.kept = K /\ ask'.held = H
  BY <1>1 DEF Request, Place
<1>3. TypeOK'
  BY <1>1, <1>2, StepType DEF TypeOK
<1>4. CallAllowed'
  BY <1>2 DEF IInv, CallAllowed, InCall, Attempting
<1>5. ChecksPassed'
  BY <1>2 DEF Step, Unbarred, ChecksPassed, Attempting
<1>6. Citable' = Citable
  BY DEF Step, world, Citable, Authorized, Related
<1>7. FinalHolds'
  BY <1>2, <1>6 DEF IInv, Step, world, FinalHolds, DeviceHeld
<1> QED BY <1>3, <1>4, <1>5, <1>7 DEF IInv

\* The final check holds the device of a caller with authority.
LEMMA FinalAuthorityStep == IInv /\ FinalAuthority => IInv'
<1> SUFFICES ASSUME IInv, FinalAuthority PROVE IInv'
  OBVIOUS
<1>1. Step /\ ask.pc = "final" /\ ask \in Request
  BY DEF FinalAuthority, IInv, TypeOK
<1>2. CASE Unauthorized
  BY <1>1, <1>2, RefusalStep DEF FinalAuthority
<1>3. CASE ~Unauthorized
  <2>1. ask' = [ask EXCEPT !.pc = "lock"]
    BY <1>3 DEF FinalAuthority
  <2>2. /\ ask' = [ask EXCEPT !.pc = "lock", !.kept = ask.kept,
                              !.held = ask.held]
        /\ ask.kept \in SUBSET Version /\ ask.held \in SUBSET Version
    BY <1>1, <2>1 DEF Request
  <2>3. device.trusted /\ device.generation = ask.generation
    BY <1>3 DEF Unauthorized, DeviceOK
  <2> DEFINE K == ask.kept
             H == ask.held
  <2>4. /\ K \in SUBSET Version /\ H \in SUBSET Version
        /\ ask' = [ask EXCEPT !.pc = "lock", !.kept = K, !.held = H]
    BY <2>2
  <2> HIDE DEF K, H
  <2> QED BY <1>1, <2>3, <2>4, FinalStep
<1> QED BY <1>2, <1>3

\* It locks the versions the answer stands on.
LEMMA FinalLockStep == IInv /\ FinalLock => IInv'
<1> SUFFICES ASSUME IInv, FinalLock PROVE IInv'
  OBVIOUS
<1>1. Step /\ ask.pc = "lock" /\ ask \in Request
  BY DEF FinalLock, IInv, TypeOK
<1>2. /\ ask' = [ask EXCEPT !.pc = "read", !.kept = ask.kept,
                            !.held = ask.kept]
      /\ ask.kept \in SUBSET Version
  BY <1>1 DEF FinalLock, Request
<1>3. device.trusted /\ device.generation = ask.generation
  BY <1>1 DEF IInv, FinalHolds, DeviceHeld
<1> QED BY <1>1, <1>2, <1>3, FinalStep

\* It keeps of them what is current and readable under its locks.
LEMMA FinalReadStep == IInv /\ FinalRead => IInv'
<1> SUFFICES ASSUME IInv, FinalRead PROVE IInv'
  OBVIOUS
<1>1. Step /\ ask.pc = "read" /\ ask \in Request
  BY DEF FinalRead, IInv, TypeOK
<1>2. PICK kept \in SUBSET (ask.kept \intersect Citable) :
        /\ ~(ask.sent \subseteq Authorized) => kept = {}
        /\ ask' = [ask EXCEPT !.pc = "decided", !.kept = kept]
  BY DEF FinalRead
<1>3. /\ ask' = [ask EXCEPT !.pc = "decided", !.kept = kept,
                            !.held = ask.held]
      /\ kept \in SUBSET Version /\ ask.held \in SUBSET Version
  BY <1>1, <1>2 DEF Request
<1>4. /\ device.trusted /\ device.generation = ask.generation
      /\ kept \subseteq ask.held
  BY <1>1, <1>2 DEF IInv, FinalHolds, DeviceHeld
<1>5. kept # {} => \A v \in ask.sent : ProjectsOf[v] \subseteq grants
  BY <1>2 DEF Authorized
<1> QED BY <1>1, <1>2, <1>3, <1>4, <1>5, FinalStep

\* Its commit ends the question.
LEMMA FinalCommitStep == IInv /\ FinalCommit => IInv'
BY EndStep DEF FinalCommit, Outcome

\* Every step of _finish keeps the invariant.
LEMMA FinishStep == IInv /\ Finish => IInv'
BY FinalAuthorityStep, FinalLockStep, FinalReadStep, FinalCommitStep
   DEF Finish

-----------------------------------------------------------------------------
(* What changes around the question.                                       *)

\* A change around the question keeps the invariant when it takes nothing
\* from under the final check's locks.
LEMMA UpsetStep ==
  ASSUME IInv, Upset,
         device' \in [trusted : BOOLEAN, expired : BOOLEAN, generation : Nat],
         grants' \subseteq Project, apart' \subseteq Project,
         current' \subseteq Version,
         DeviceHeld => device'.trusted
                       /\ device'.generation = device.generation,
         ask.pc = "decided" =>
           /\ ask.kept \subseteq Citable'
           /\ ask.kept # {} => \A v \in ask.sent : ProjectsOf[v] \subseteq grants'
  PROVE  IInv'
<1>1. /\ TypeOK /\ ask' = ask /\ upsets < MaxUpsets /\ upsets' = upsets + 1
      /\ barred' = [text |-> barred.text \ Permitted',
                    carried |-> barred.carried \ Private',
                    device |-> barred.device /\ ~DeviceOK']
  BY DEF IInv, Upset
<1>2. /\ barred'.text = barred.text \ Permitted'
      /\ barred'.carried = barred.carried \ Private'
      /\ barred'.device = (barred.device /\ ~DeviceOK')
  BY <1>1
<1>3. (barred.device /\ ~DeviceOK') \in BOOLEAN
  OBVIOUS
<1>4. barred' \in [text : SUBSET Version, carried : SUBSET Version,
                   device : BOOLEAN]
  BY <1>1, <1>3 DEF TypeOK
<1>5. upsets' \in 0..MaxUpsets
  BY <1>1, Bounds DEF TypeOK
<1>6. TypeOK'
  BY <1>1, <1>4, <1>5 DEF TypeOK
<1>7. CallAllowed'
  BY <1>1 DEF IInv, CallAllowed
<1>8. Permitted' \subseteq Private' /\ PromptIds' = PromptIds
  BY <1>1 DEF Permitted, PromptIds
<1>9. ChecksPassed'
  BY <1>1, <1>2, <1>8 DEF IInv, ChecksPassed
<1>10. FinalHolds'
  BY <1>1 DEF IInv, FinalHolds, DeviceHeld
<1> QED BY <1>6, <1>7, <1>9, <1>10 DEF IInv

\* What the final check reads under its locks, while it holds them.
LEMMA HeldFacts ==
  ASSUME IInv
  PROVE  /\ TypeOK
         /\ device \in [trusted : BOOLEAN, expired : BOOLEAN, generation : Nat]
         /\ ask.pc = "decided" =>
              /\ DeviceHeld
              /\ ask.kept \subseteq Citable /\ ask.kept \subseteq ask.held
              /\ ask.kept # {} =>
                   \A v \in ask.sent : ProjectsOf[v] \subseteq grants
BY DEF IInv, FinalHolds, TypeOK, DeviceHeld

\* A device is not revoked while the final check holds it.
LEMMA RevokeStep == IInv /\ Revoke => IInv'
<1> SUFFICES ASSUME IInv, Revoke PROVE IInv'
  OBVIOUS
<1>1. device' \in [trusted : BOOLEAN, expired : BOOLEAN, generation : Nat]
  <2> DEFINE g == device.generation + 1
  <2>1. g \in Nat /\ device' = [device EXCEPT !.trusted = FALSE, !.generation = g]
    BY HeldFacts DEF Revoke
  <2> HIDE DEF g
  <2> QED BY <2>1, HeldFacts
<1>2. Upset /\ ~DeviceHeld /\ grants' \subseteq Project
      /\ apart' \subseteq Project /\ current' \subseteq Version
  BY HeldFacts DEF Revoke, TypeOK
<1> QED BY <1>1, <1>2, HeldFacts, UpsetStep

\* Nor is its token rotated.
LEMMA RotateStep == IInv /\ Rotate => IInv'
<1> SUFFICES ASSUME IInv, Rotate PROVE IInv'
  OBVIOUS
<1>1. device' \in [trusted : BOOLEAN, expired : BOOLEAN, generation : Nat]
  <2> DEFINE g == device.generation + 1
  <2>1. g \in Nat /\ device' = [device EXCEPT !.generation = g, !.expired = FALSE]
    BY HeldFacts DEF Rotate
  <2> HIDE DEF g
  <2> QED BY <2>1, HeldFacts
<1>2. Upset /\ ~DeviceHeld /\ grants' \subseteq Project
      /\ apart' \subseteq Project /\ current' \subseteq Version
  BY HeldFacts DEF Rotate, TypeOK
<1> QED BY <1>1, <1>2, HeldFacts, UpsetStep

\* An expiry takes no trust and no generation away.
LEMMA ExpireStep == IInv /\ Expire => IInv'
<1> SUFFICES ASSUME IInv, Expire PROVE IInv'
  OBVIOUS
<1>1. /\ device' \in [trusted : BOOLEAN, expired : BOOLEAN, generation : Nat]
      /\ device'.trusted = device.trusted
      /\ device'.generation = device.generation
  BY HeldFacts DEF Expire
<1>2. Upset /\ UNCHANGED <<grants, apart, current>>
  BY DEF Expire
<1>3. Citable' = Citable
  BY <1>2 DEF Citable, Authorized, Related
<1>4. DeviceHeld => device.trusted
  BY DEF IInv, FinalHolds
<1> QED BY <1>1, <1>2, <1>3, <1>4, HeldFacts, UpsetStep DEF TypeOK

\* A grant changes no answer that is being decided.
LEMMA GrantStep == ASSUME NEW p \in Project PROVE IInv /\ Grant(p) => IInv'
<1> SUFFICES ASSUME IInv, Grant(p) PROVE IInv'
  OBVIOUS
<1>1. Upset /\ ~DeviceHeld /\ grants' \subseteq Project
      /\ apart' \subseteq Project /\ current' \subseteq Version
      /\ device' = device
  BY HeldFacts DEF Grant, TypeOK
<1> QED BY <1>1, HeldFacts, UpsetStep

\* A grant is not taken away while the final check holds the device.
LEMMA UngrantStep == ASSUME NEW p \in Project PROVE IInv /\ Ungrant(p) => IInv'
<1> SUFFICES ASSUME IInv, Ungrant(p) PROVE IInv'
  OBVIOUS
<1>1. Upset /\ ~DeviceHeld /\ grants' \subseteq Project
      /\ apart' \subseteq Project /\ current' \subseteq Version
      /\ device' = device
  BY HeldFacts DEF Ungrant, TypeOK
<1> QED BY <1>1, HeldFacts, UpsetStep

\* A policy cannot change for a project of a version the check holds, so
\* its versions stay related.
LEMMA SetPolicyStep ==
  ASSUME NEW p \in Project PROVE IInv /\ SetPolicy(p) => IInv'
<1> SUFFICES ASSUME IInv, SetPolicy(p) PROVE IInv'
  OBVIOUS
<1>1. /\ Upset /\ UNCHANGED <<device, grants, current>> /\ TypeOK
      /\ p \notin ProjectsHeld
      /\ apart' \in {apart \union {p}, apart \ {p}}
  BY HeldFacts DEF SetPolicy
<1>2. apart' \subseteq Project
  BY <1>1 DEF TypeOK
<1>3. ASSUME ask.pc = "decided" PROVE ask.kept \subseteq Citable'
  <2> SUFFICES ASSUME NEW v \in ask.kept PROVE v \in Citable'
    OBVIOUS
  <2>1. v \in Citable /\ v \in ask.held
    BY <1>3, HeldFacts
  <2>2. p \notin ProjectsOf[v]
    BY <1>1, <1>3, <2>1 DEF ProjectsHeld
  <2>3. ProjectsOf[v] \intersect apart' = ProjectsOf[v] \intersect apart
    BY <1>1, <2>2
  <2> QED BY <1>1, <2>1, <2>3 DEF Citable, Authorized, Related
<1>4. DeviceHeld => device.trusted
  BY DEF IInv, FinalHolds
<1> QED BY <1>1, <1>2, <1>3, <1>4, HeldFacts, UpsetStep DEF TypeOK

\* A version the final check holds stays current.
LEMMA SupersedeStep ==
  ASSUME NEW v \in Version PROVE IInv /\ Supersede(v) => IInv'
<1> SUFFICES ASSUME IInv, Supersede(v) PROVE IInv'
  OBVIOUS
<1>1. /\ Upset /\ UNCHANGED <<device, grants, apart>> /\ TypeOK
      /\ v \notin ask.held /\ current' = current \ {v}
  BY HeldFacts DEF Supersede
<1>2. ASSUME ask.pc = "decided" PROVE ask.kept \subseteq Citable'
  <2>1. Citable' = Citable \ {v}
    BY <1>1 DEF Citable, Authorized, Related
  <2> QED BY <1>1, <1>2, <2>1, HeldFacts
<1>3. DeviceHeld => device.trusted
  BY DEF IInv, FinalHolds
<1> QED BY <1>1, <1>2, <1>3, HeldFacts, UpsetStep DEF TypeOK

\* A step that changes nothing keeps the invariant.
LEMMA StutterStep == IInv /\ UNCHANGED vars => IInv'
<1> SUFFICES ASSUME IInv, UNCHANGED vars PROVE IInv'
  OBVIOUS
<1>1. /\ device' = device /\ grants' = grants /\ apart' = apart
      /\ current' = current /\ upsets' = upsets /\ ask' = ask
      /\ barred' = barred
  BY DEF vars, world
<1>2. TypeOK' /\ CallAllowed'
  BY <1>1 DEF IInv, TypeOK, CallAllowed
<1>3. /\ Permitted' = Permitted /\ Private' = Private /\ DeviceOK' = DeviceOK
      /\ PromptIds' = PromptIds /\ Citable' = Citable
  BY <1>1 DEF Permitted, Private, Related, DeviceOK, PromptIds, Citable,
              Authorized
<1>4. ChecksPassed'
  BY <1>1, <1>3 DEF IInv, ChecksPassed
<1>5. FinalHolds'
  BY <1>1, <1>3 DEF IInv, FinalHolds, DeviceHeld
<1> QED BY <1>2, <1>4, <1>5 DEF IInv

\* Every step of the question and of what is around it keeps the invariant.
LEMMA NextIInv == IInv /\ [Next]_vars => IInv'
<1> SUFFICES ASSUME IInv, [Next]_vars PROVE IInv'
  OBVIOUS
<1>1. CASE Handle
  BY <1>1, RefuseStep, BeginStep, CallStep, AttemptStep, LoopStep,
     FinishStep DEF Handle
<1>2. CASE DatabaseFails
  BY <1>2, DatabaseFailsStep
<1>3. CASE Around
  BY <1>3, RevokeStep, RotateStep, ExpireStep, GrantStep, UngrantStep,
     SetPolicyStep, SupersedeStep DEF Around
<1>4. CASE Done \/ UNCHANGED vars
  BY <1>4, StutterStep DEF Done
<1> QED BY <1>1, <1>2, <1>3, <1>4 DEF Next

-----------------------------------------------------------------------------
\* The invariant: a call is allowed and affordable while it goes on, its
\* checks bar what was denied, and the final check's locks hold
\* (core/research_service.py: _call, attempt_guard, _finish).
THEOREM Invariance == Spec => []IInv
<1>1. Init => IInv
  BY InitIInv
<1>2. IInv /\ [Next]_vars => IInv'
  BY NextIInv
<1> QED BY <1>1, <1>2, PTL DEF Spec

\* Every field of the request has its type, its calls within their limit,
\* its prompts and attempts within theirs.
THEOREM TypeCorrect == Spec => []TypeOK
<1>1. IInv => TypeOK
  BY DEF IInv
<1> QED BY <1>1, Invariance, PTL

\* Nothing goes to a provider that was already denied when its attempt began
\* (core/research_service.py: _precheck and attempt_guard).
THEOREM NothingDeniedIsSent == Spec => []SentWasPermitted
<1>1. IInv => SentWasPermitted
  BY DEF IInv, ChecksPassed, SentWasPermitted, Attempting
<1> QED BY <1>1, Invariance, PTL

\* Whatever answers turn out to cost, each attempt of a question goes out
\* within its ceiling: at its worst it fits beside all that was charged before
\* it, but for charges whose row a cut call did not write; and nothing goes
\* out after a budget stop (core/research_service.py: _call, attempt_guard).
THEOREM BudgetIsKept == Spec => []WithinBudget
<1>1. IInv => WithinBudget
  <2> SUFFICES ASSUME IInv, ask.pc \in {"ready", "flight"}
               PROVE  /\ ask.billed + Worst[ask.job] <= MaxSpend + ask.missed
                      /\ ~ask.stop
    BY DEF WithinBudget
  <2>1. /\ ask.spent \in Nat /\ ask.missed \in Nat /\ TypeOK
        /\ ask.billed = ask.spent + ask.missed /\ ~ask.stop
        /\ ask.spent + Worst[ask.job] <= MaxSpend
    BY DEF IInv, TypeOK, Request, CallAllowed, InCall, Attempting
  <2>2. Worst[ask.job] \in Nat
    BY <2>1, ChargeType
  <2> QED BY <2>1, <2>2, Bounds
<1> QED BY <1>1, Invariance, PTL

\* The step of AnswerStands.
AnswerAct ==
  (ask.pc = "decided" /\ ask'.outcome = "answer") =>
    /\ ask.kept # {} /\ ask.kept \subseteq Citable
    /\ \A v \in ask.sent : ProjectsOf[v] \subseteq grants
    /\ device.trusted /\ device.generation = ask.generation

\* Only the commit of the final check answers.
LEMMA StepAnswers == IInv /\ [Next]_vars => AnswerAct
<1> SUFFICES ASSUME IInv, [Next]_vars, ask.pc = "decided",
                    ask'.outcome = "answer"
             PROVE  AnswerAct
  BY DEF AnswerAct
<1>1. /\ ask.outcome = "none" /\ DeviceHeld
      /\ device.trusted /\ device.generation = ask.generation
      /\ ask.kept \subseteq Citable
      /\ ask.kept # {} => \A v \in ask.sent : ProjectsOf[v] \subseteq grants
  BY DEF IInv, FinalHolds, DeviceHeld
<1>2. ask.kept # {}
  <2>1. CASE Handle
    <3>1. FinalCommit
      BY <2>1 DEF Handle, Refuse, Begin, Call, CallSkipped, CallStopped,
                  CallBegins, NoMoreTries, Gate, GateCarried, Attempt,
                  AttemptBegins, AttemptUnaffordable, AttemptRefused,
                  Precheck, PrecheckCarried, Send, NotSent, Succeed,
                  AttemptFails, CutInFlight, CutBeforeRow, Loop,
                  Returned, PlanReturns, Retrieve,
                  RerankReturns, Drill, SelectReturns, AnswerReturns,
                  ExpandReturns, AttributeReturns, RefineReturns,
                  CheckReturns, Finish, FinalAuthority, FinalLock, FinalRead
    <3>2. TypeOK
      BY DEF IInv
    <3>3. CASE ask.kept = {}
      <4>1. ask' = Ended("abstain")
        BY <3>1, <3>3 DEF FinalCommit
      <4>2. ask'.outcome = "abstain"
        BY <3>2, <4>1, EndedType DEF Outcome
      <4> QED BY <4>2
    <3> QED BY <3>3
  <2>2. CASE DatabaseFails
    BY <2>2 DEF DatabaseFails
  <2>3. CASE Around \/ Done \/ UNCHANGED vars
    <3>1. ask' = ask
      BY <2>3 DEF Around, Revoke, Rotate, Expire, Grant, Ungrant, SetPolicy,
                  Supersede, Upset, Done, vars
    <3> QED BY <1>1, <3>1
  <2> QED BY <2>1, <2>2, <2>3 DEF Next
<1> QED BY <1>1, <1>2 DEF AnswerAct

\* An answer is given only on versions that may be read at its commit, to a
\* device trusted under the token it came with, when everything sent is
\* still granted (core/research_service.py: _finish).
THEOREM AnswersStand == Spec => AnswerStands
<1>1. IInv /\ [Next]_vars => AnswerAct
  BY StepAnswers
<1>2. AnswerStands <=> [][AnswerAct]_vars
  BY DEF AnswerStands, AnswerAct
<1> HIDE DEF AnswerAct
<1> QED BY <1>1, <1>2, Invariance, PTL DEF Spec
=============================================================================
